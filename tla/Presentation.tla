----------------------------- MODULE Presentation -----------------------------
(* From the displays of a run to the pages of a document, as functions: which *)
(* display fills which slot of a template (analytics/presentation/assignment, *)
(* suitability), what the compiler lays out (compiler.py, document_model.py)  *)
(* from what a run or a rerun resolves to (orchestration/publishing.py,       *)
(* reports/execution.py), and what each writer prints (documents.py).         *)
(* A display is [id, type, units, rows, cites, hinted]: its figures if it is  *)
(* a "kpi", its rows if it is a table, the queries it cites, whether it reads *)
(* like the purpose of a slot. Of the plotted types "line" stands for line    *)
(* and area, "bar" for both bars, "pie" for pie and scatter.                  *)
EXTENDS Integers, Sequences, FiniteSets, SequencesExt
CONSTANTS
    MaxLines          \* lines of prose a document carries

ASSUME PresentationAssumption == MaxLines \in Nat \ {0}

Plotted == {"line", "bar", "pie"}
Part(kind, required, limit) == [kind |-> kind, required |-> required, limit |-> limit]
Slot(accepts, minimum, maximum, required, hint) ==
    [accepts |-> accepts, minimum |-> minimum, maximum |-> maximum, required |-> required, hint |-> hint]
NoLimit == 1000

(* The templates the service ships, in the order of their names *)
Review(name, trend, breakdown) ==
    [name |-> name,
     parts |-> <<Part("cover", FALSE, NoLimit), Part("scope", TRUE, NoLimit), Part("narrative", TRUE, NoLimit),
                 Part("metrics", TRUE, 8), Part("chart", TRUE, 6), Part("table", TRUE, 6),
                 Part("caveats", TRUE, NoLimit), Part("page_break", FALSE, NoLimit), Part("evidence", TRUE, NoLimit)>>,
     slots |-> <<Slot({"kpi"}, 3, 8, TRUE, TRUE), Slot({"line"}, trend, 2, trend = 1, TRUE),
                 Slot({"bar", "pie"}, breakdown, 4, breakdown = 1, TRUE), Slot({"table"}, 1, 6, TRUE, FALSE)>>]
AnalysisSummary ==
    [name |-> "analysis_summary",
     parts |-> <<Part("cover", FALSE, NoLimit), Part("scope", TRUE, NoLimit), Part("narrative", TRUE, NoLimit),
                 Part("metrics", FALSE, NoLimit), Part("chart", FALSE, 6), Part("table", FALSE, 6),
                 Part("caveats", TRUE, NoLimit), Part("evidence", TRUE, NoLimit)>>,
     slots |-> <<Slot({"kpi"}, 0, 6, FALSE, FALSE), Slot(Plotted, 0, 6, FALSE, FALSE),
                 Slot({"table"}, 0, 6, FALSE, FALSE)>>]
ExecutiveDashboard ==
    [name |-> "executive_dashboard",
     parts |-> <<Part("cover", FALSE, NoLimit), Part("metrics", TRUE, 6), Part("chart", TRUE, 4),
                 Part("narrative", FALSE, NoLimit), Part("caveats", TRUE, NoLimit), Part("page_break", FALSE, NoLimit),
                 Part("scope", TRUE, NoLimit), Part("table", FALSE, 8), Part("evidence", TRUE, NoLimit)>>,
     slots |-> <<Slot({"kpi"}, 3, 6, TRUE, TRUE), Slot({"line"}, 0, 1, FALSE, TRUE), Slot({"bar"}, 1, 1, TRUE, TRUE),
                 Slot({"bar", "pie"}, 0, 2, FALSE, FALSE), Slot({"table"}, 0, 2, FALSE, FALSE)>>]
Templates == <<AnalysisSummary, Review("annual_review", 1, 0), ExecutiveDashboard,
               Review("monthly_business_review", 0, 1), Review("quarterly_review", 0, 1)>>

----------------------------------------------------------------------------
(* Assignment                                                               *)

BlockKind(slot) ==
    IF "kpi" \in slot.accepts THEN "metrics" ELSE IF "table" \in slot.accepts THEN "table" ELSE "chart"
UnitCount(chart) == IF chart.type = "kpi" THEN chart.units ELSE 1
Units(charts) == FoldLeft(LAMBDA n, c : n + UnitCount(c), 0, charts)
PurposeRank(chart, slot) == IF slot.hint /\ ~ chart.hinted THEN 1 ELSE 0

(* Stable sort by purpose, then greedily from the front: the first one is    *)
(* taken whole, the first one that does not fit ends it.                     *)
Ranked(charts, slot) ==
    SelectSeq(charts, LAMBDA c : PurposeRank(c, slot) = 0) \o SelectSeq(charts, LAMBDA c : PurposeRank(c, slot) = 1)
Taken(ranked, maximum) ==
    LET stop == {k \in 0..Len(ranked) :
                    \/ k = Len(ranked)
                    \/ Units(SubSeq(ranked, 1, k)) >= maximum
                    \/ k > 0 /\ Units(SubSeq(ranked, 1, k + 1)) > maximum}
    IN  SubSeq(ranked, 1, CHOOSE k \in stop : \A j \in stop : k <= j)

(* Evidence the run did not resolve keeps a display out of every slot.       *)
Eligible(charts, sources) == SelectSeq(charts, LAMBDA c : c.cites \subseteq sources)

FillSlot(state, slot) ==
    LET taken == Taken(Ranked(SelectSeq(state.available, LAMBDA c : c.type \in slot.accepts), slot), slot.maximum)
        chosen == SelectSeq(state.available, LAMBDA c : \E i \in DOMAIN taken : taken[i].id = c.id)
    IN  [available |-> SelectSeq(state.available, LAMBDA c : \A i \in DOMAIN taken : taken[i].id # c.id),
         filled |-> Append(state.filled, [slot |-> slot, charts |-> chosen, satisfied |-> Units(chosen) >= slot.minimum])]
AssignSlots(template, charts, sources) ==
    LET end == FoldLeft(FillSlot, [available |-> Eligible(charts, sources), filled |-> <<>>], template.slots)
    IN  [slots |-> end.filled, unused |-> end.available,
         unresolved |-> SelectSeq(charts, LAMBDA c : ~ c.cites \subseteq sources)]

ContentOrder(assignment, kind) ==
    FlattenSeq([i \in DOMAIN assignment.slots |->
        IF BlockKind(assignment.slots[i].slot) = kind THEN assignment.slots[i].charts ELSE <<>>])

----------------------------------------------------------------------------
(* Suitability: tenths of a percent of the required slots                    *)

CanPublish(required, satisfied) == required = satisfied
ScoreAssignment(index, assignment) ==
    LET required == {i \in DOMAIN assignment.slots : assignment.slots[i].slot.required}
        satisfied == {i \in required : assignment.slots[i].satisfied}
        n == Cardinality(required)
    IN  [template |-> index,
         completion |-> IF n = 0 THEN 1000 ELSE (2000 * Cardinality(satisfied) + n) \div (2 * n),
         optional |-> Cardinality({i \in DOMAIN assignment.slots \ required : assignment.slots[i].charts # <<>>}),
         unused |-> Len(assignment.unused),
         can_publish |-> CanPublish(required, satisfied)]

FitsBetter(a, b) ==
    \/ a.completion > b.completion
    \/ /\ a.completion = b.completion
       /\ \/ a.optional > b.optional
          \/ a.optional = b.optional /\ a.unused < b.unused
          \/ a.optional = b.optional /\ a.unused = b.unused /\ a.template < b.template
Suitabilities(charts, sources) ==
    {ScoreAssignment(i, AssignSlots(Templates[i], charts, sources)) : i \in DOMAIN Templates}
RecommendTemplate(items) == CHOOSE a \in items : \A b \in items \ {a} : FitsBetter(a, b)

----------------------------------------------------------------------------
(* What a publication resolves to                                            *)

StatusCurrent == "current"
StatusPinned == "pinned_to_original_period"
StatusExcluded == "excluded_from_refreshed_report"
NarrativeStatuses == {StatusCurrent, StatusPinned, StatusExcluded}
Unsaid == "unsaid"

(* A request to publish a run: metrics to recompute, what to do with prose   *)
ResolveContent(request) ==
    [recomputed |-> request.metrics > 0,
     status |-> IF request.narrative # Unsaid THEN request.narrative
                ELSE IF request.metrics > 0 THEN StatusExcluded ELSE StatusCurrent]
(* A saved report is always recomputed                                       *)
SavedNarrative(policy) == [recomputed |-> TRUE, status |-> IF policy = "include_original" THEN StatusPinned ELSE StatusExcluded]

(* parse_prose: raw lines [kind, id] of kinds "blank", "heading", "bullet",  *)
(* "number" and "text"; consecutive text is one paragraph.                   *)
Flush(state) ==
    IF state.paragraph = <<>> THEN state
    ELSE [lines |-> Append(state.lines, [kind |-> "paragraph", ids |-> state.paragraph]), paragraph |-> <<>>]
ReadLine(state, raw) ==
    IF raw.kind = "text" THEN [state EXCEPT !.paragraph = Append(@, raw.id)]
    ELSE LET flushed == Flush(state)
         IN IF raw.kind = "blank" THEN flushed
            ELSE [flushed EXCEPT !.lines = Append(@, [kind |-> raw.kind, ids |-> <<raw.id>>])]
ParseProse(raws) == Flush(FoldLeft(ReadLine, [lines |-> <<>>, paragraph |-> <<>>], raws)).lines

----------------------------------------------------------------------------
(* compile_report: content is [charts, sources, prose, status, caveats]      *)

MaxTableRows == 50
MaxAppendixRows == 100
MaxUses == 24

FirstOf(s, n) == SubSeq(s, 1, IF Len(s) < n THEN Len(s) ELSE n)
Ordered(assignment, kind, type(_)) == SelectSeq(ContentOrder(assignment, kind), LAMBDA c : type(c))
Drawable(assignment) == Ordered(assignment, "chart", LAMBDA c : c.type \in Plotted)
Grids(assignment) == Ordered(assignment, "table", LAMBDA c : c.type = "table")
(* One entry per figure of a kpi display *)
Headline(assignment) ==
    FlattenSeq([i \in DOMAIN Ordered(assignment, "metrics", LAMBDA c : c.type = "kpi") |->
        LET c == Ordered(assignment, "metrics", LAMBDA d : d.type = "kpi")[i]
        IN [k \in 1..c.units |-> [id |-> <<c.id, k>>, cites |-> c.cites]]])

(* narrative_warning *)
Warned(status) == status = StatusPinned

BlocksOf(part, assignment, content, lines, before) ==
    LET headline == Headline(assignment) drawable == Drawable(assignment) grids == Grids(assignment)
        empty == <<[kind |-> "empty", of |-> part.kind]>>
    IN  CASE part.kind \in {"cover", "page_break", "scope"} -> <<[kind |-> part.kind]>>
          [] part.kind = "narrative" ->
                IF lines = <<>> /\ ~ part.required THEN <<>>
                ELSE <<[kind |-> "narrative", lines |-> FirstOf(lines, MaxLines), warning |-> Warned(content.status)]>>
          [] part.kind = "metrics" ->
                IF headline = <<>> THEN (IF part.required THEN <<[kind |-> "metrics", metrics |-> <<>>]>> ELSE <<>>)
                ELSE <<[kind |-> "metrics", metrics |-> FirstOf(headline, part.limit)]>>
          [] part.kind = "chart" ->
                IF drawable = <<>> THEN (IF part.required THEN empty ELSE <<>>)
                ELSE [i \in DOMAIN FirstOf(drawable, part.limit) |->
                        [kind |-> "chart", label |-> <<"Figure", i>>, id |-> drawable[i].id, cites |-> drawable[i].cites,
                         rows |-> drawable[i].rows, total |-> drawable[i].rows]]
          [] part.kind = "table" ->
                IF grids = <<>> THEN (IF part.required THEN empty ELSE <<>>)
                ELSE [i \in DOMAIN FirstOf(grids, part.limit) |->
                        [kind |-> "table", label |-> <<"Table", i>>, id |-> grids[i].id, cites |-> grids[i].cites,
                         rows |-> IF grids[i].rows < MaxTableRows THEN grids[i].rows ELSE MaxTableRows,
                         total |-> grids[i].rows]]
          [] part.kind = "caveats" ->
                IF content.caveats = 0 /\ content.sources = {} /\ ~ part.required THEN <<>>
                ELSE <<[kind |-> "caveats", stated |-> content.caveats, notices |-> content.sources # {}]>>
          [] part.kind = "evidence" ->
                IF content.sources = {} /\ ~ part.required THEN <<>>
                ELSE <<[kind |-> "evidence",
                        entries |-> {[query |-> q,
                                      used_by |-> {l \in before : q \in l.cites},
                                      displayed |-> {l \in before : q \in l.cites /\ l.rows > 0}] : q \in content.sources}]>>

(* The figures of the blocks laid out so far, by label *)
Figures(blocks) ==
    {[label |-> blocks[i].label, cites |-> blocks[i].cites, rows |-> blocks[i].rows] :
        i \in {j \in DOMAIN blocks : blocks[j].kind \in {"chart", "table"}}}
    \cup UNION {{[label |-> <<"Metric", blocks[i].metrics[k].id>>, cites |-> blocks[i].metrics[k].cites, rows |-> 0] :
                    k \in DOMAIN blocks[i].metrics} : i \in {j \in DOMAIN blocks : blocks[j].kind = "metrics"}}

CompileReport(template, assignment, content) ==
    LET lines == IF content.status = StatusExcluded THEN <<>> ELSE ParseProse(content.prose)
    IN  FoldLeft(LAMBDA blocks, part : blocks \o BlocksOf(part, assignment, content, lines, Figures(blocks)),
                 <<>>, template.parts)

----------------------------------------------------------------------------
(* The writers: the facts each prints, in order. images are the charts that  *)
(* could be drawn.                                                           *)

Flat(s, f(_)) == FlattenSeq([i \in DOMAIN s |-> f(s[i])])
Caption(b) == <<<<"caption", b.label>>>>
Showing(b) == IF b.rows < b.total THEN <<<<"showing", b.rows, b.total>>>> ELSE <<>>
Entries(b) == SetToSeq(b.entries)
AppendixRows(e) ==
    LET shown == SetToSeq(e.displayed)
    IN [i \in DOMAIN shown |-> <<"rows", shown[i].label, IF shown[i].rows < MaxAppendixRows THEN shown[i].rows ELSE MaxAppendixRows>>]

DocxBlock(b, images) ==
    CASE b.kind = "cover" -> <<<<"title">>, <<"subtitle">>, <<"editable copy">>>>
      [] b.kind = "narrative" ->
            (IF b.warning THEN <<<<"warning">>>> ELSE <<>>) \o
            (IF b.lines = <<>> THEN <<<<"no prose">>>> ELSE [i \in DOMAIN b.lines |-> <<b.lines[i].kind, b.lines[i].ids>>])
      [] b.kind = "metrics" ->
            IF b.metrics = <<>> THEN <<<<"no metrics">>>>
            ELSE [k \in DOMAIN b.metrics |-> <<"value", b.metrics[k].id>>] \o [k \in DOMAIN b.metrics |-> <<"note", b.metrics[k].id>>]
      [] b.kind = "chart" ->
            <<<<"figure", b.label>>>> \o
            (IF b.id \in images THEN <<<<"image", b.id>>>> \o Caption(b) ELSE <<<<"not rendered">>>>)
      [] b.kind = "table" -> <<<<"figure", b.label>>, <<"rows", b.rows>>>> \o Showing(b) \o Caption(b)
      [] b.kind = "caveats" ->
            (IF b.stated = 0 THEN <<<<"no caveats">>>> ELSE [i \in 1..b.stated |-> <<"caveat", i>>]) \o
            (IF b.notices THEN <<<<"notice">>>> ELSE <<>>)
      [] b.kind = "evidence" ->
            IF b.entries = {} THEN <<<<"no evidence">>>>
            ELSE Flat(Entries(b), LAMBDA e : <<<<"entry", e.query, e.used_by>>>> \o AppendixRows(e)) \o <<<<"note">>>>
      [] b.kind \in {"empty", "scope", "page_break"} -> <<<<b.kind>>>>

(* The PDF gathers list items until their kind changes or other prose comes. *)
CloseList(state) == [story |-> state.story \o [i \in DOMAIN state.pending |-> <<state.kind, state.pending[i]>>],
                     pending |-> <<>>, kind |-> state.kind]
ReadProseLine(state, line) ==
    IF line.kind \in {"bullet", "number"}
    THEN LET closed == IF line.kind # state.kind THEN CloseList(state) ELSE state
         IN [closed EXCEPT !.kind = line.kind, !.pending = Append(@, line.ids)]
    ELSE [CloseList(state) EXCEPT !.story = Append(@, <<line.kind, line.ids>>)]
(* Mutant: the last list of the prose is not closed. *)
PdfProseOpen(lines) == FoldLeft(ReadProseLine, [story |-> <<>>, pending |-> <<>>, kind |-> "bullet"], lines).story
PdfProse(lines) == CloseList(FoldLeft(ReadProseLine, [story |-> <<>>, pending |-> <<>>, kind |-> "bullet"], lines)).story

PdfBlock(b, images) ==
    CASE b.kind = "cover" -> <<<<"title">>, <<"subtitle">>>>
      [] b.kind = "narrative" ->
            (IF b.warning THEN <<<<"warning">>>> ELSE <<>>) \o
            (IF b.lines = <<>> THEN <<<<"no prose">>>> ELSE PdfProse(b.lines))
      [] b.kind = "metrics" ->
            IF b.metrics = <<>> THEN <<<<"no metrics">>>>
            ELSE [k \in DOMAIN b.metrics |-> <<"value", b.metrics[k].id>>] \o [k \in DOMAIN b.metrics |-> <<"note", b.metrics[k].id>>]
      [] b.kind = "chart" ->
            IF b.id \in images THEN <<<<"figure", b.label>>, <<"image", b.id>>, <<"caption", b.label>>>>
            ELSE <<<<"figure", b.label>>, <<"not rendered">>>>
      [] b.kind = "table" -> <<<<"figure", b.label>>, <<"rows", b.rows>>>> \o Showing(b) \o Caption(b)
      [] b.kind = "caveats" ->
            (IF b.stated = 0 THEN <<<<"no caveats">>>> ELSE [i \in 1..b.stated |-> <<"caveat", i>>]) \o
            (IF b.notices THEN <<<<"notice">>>> ELSE <<>>)
      [] b.kind = "evidence" ->
            IF b.entries = {} THEN <<<<"no evidence">>>>
            ELSE Flat(Entries(b), LAMBDA e : <<<<"entry", e.query, e.used_by>>>> \o AppendixRows(e)) \o <<<<"note">>>>
      [] b.kind \in {"empty", "scope", "page_break"} -> <<<<b.kind>>>>

WriteDocx(report, images) == Flat(report, LAMBDA b : DocxBlock(b, images))
WritePdf(report, images) == Flat(report, LAMBDA b : PdfBlock(b, images))
----------------------------------------------------------------------------
Ids(charts) == {charts[i].id : i \in DOMAIN charts}
SameOrder(part, charts) == part = SelectSeq(charts, LAMBDA c : c.id \in Ids(part))

(* Each display is in exactly one place; a slot holds what it accepts, in    *)
(* the order of creation and within its maximum unless one display alone is  *)
(* over it; a display left out would not have fitted.                        *)
SlotIsFair(got, slot, eligible, unused) ==
    /\ \A k \in DOMAIN got : got[k].type \in slot.accepts
    /\ SameOrder(got, eligible)
    /\ Units(got) <= slot.maximum \/ Len(got) = 1
    /\ (\E k \in DOMAIN unused : unused[k].type \in slot.accepts) =>
          \E k \in DOMAIN eligible :
              /\ eligible[k].type \in slot.accepts /\ eligible[k].id \notin Ids(got)
              /\ Units(got) + UnitCount(eligible[k]) > slot.maximum
IsFair(a, charts, eligible) ==
    /\ UNION ({Ids(a.unused), Ids(a.unresolved)} \cup {Ids(a.slots[i].charts) : i \in DOMAIN a.slots}) = Ids(charts)
    /\ Len(charts) = Len(a.unused) + Len(a.unresolved)
                      + FoldLeft(LAMBDA n, s : n + Len(s.charts), 0, a.slots)
    /\ \A i \in DOMAIN a.slots : SlotIsFair(a.slots[i].charts, a.slots[i].slot, eligible, a.unused)
AssignmentIsFair(template, charts, sources) ==
    IsFair(AssignSlots(template, charts, sources), charts, Eligible(charts, sources))

(* A recommended template can be published whenever any can.                 *)
RecommendedCanPublish(charts, sources) ==
    LET items == Suitabilities(charts, sources)
    IN  (\E s \in items : s.can_publish) => RecommendTemplate(items).can_publish

(* can_publish: the sections the template requires have something to show.   *)
NothingIsEmpty(report) ==
    \A i \in DOMAIN report : report[i].kind # "empty" /\ (report[i].kind = "metrics" => report[i].metrics # <<>>)
PublishableIsFull(index, charts, content) ==
    ScoreAssignment(index, AssignSlots(Templates[index], charts, content.sources)).can_publish =>
        NothingIsEmpty(CompileReport(Templates[index], AssignSlots(Templates[index], charts, content.sources), content))

(* A report prints the displays assigned to it and no other, cites resolved  *)
(* evidence only, and its appendix accounts for each figure under each query *)
(* it cites; the sections stay within what the document model holds.         *)
Printed(report) == {report[i].id : i \in {j \in DOMAIN report : report[j].kind \in {"chart", "table"}}}
FiguresAreAccounted(report, figures, sources) ==
    /\ \A f \in figures : f.cites \subseteq sources
    /\ \A i \in DOMAIN report : report[i].kind = "evidence" => \A e \in report[i].entries :
          /\ \A f \in figures : (f \in e.used_by) = (e.query \in f.cites)
          /\ Cardinality(e.used_by) <= MaxUses /\ Cardinality(e.displayed) <= 16
    /\ \A i \in DOMAIN report : report[i].kind = "metrics" => Len(report[i].metrics) <= 12
    /\ Len(report) <= 64
IsAccounted(a, report, content) ==
    /\ Printed(report) = UNION {Ids(a.slots[i].charts) : i \in {j \in DOMAIN a.slots : BlockKind(a.slots[j].slot) # "metrics"}}
    /\ FiguresAreAccounted(report, Figures(report), content.sources)
Accounted(template, a, content) == IsAccounted(a, CompileReport(template, a, content), content)
ReportIsAccounted(template, charts, content) ==
    Accounted(template, AssignSlots(template, charts, content.sources), content)

(* Every word of the answer is in the prose, once and in order.              *)
ProseKeepsWords(raws) ==
    LET lines == ParseProse(raws)
    IN  FlattenSeq([i \in DOMAIN lines |-> lines[i].ids])
            = [i \in DOMAIN SelectSeq(raws, LAMBDA r : r.kind # "blank") |-> SelectSeq(raws, LAMBDA r : r.kind # "blank")[i].id]

(* document_model.py:7: both documents state the same facts in the same      *)
(* order, but for the notice on the editable one.                            *)
DocumentsAgree(report, images) ==
    SelectSeq(WriteDocx(report, images), LAMBDA f : f # <<"editable copy">>) = WritePdf(report, images)

(* Prose beside recomputed figures is marked in both documents.              *)
ProseIsMarked(resolved, report, images) ==
    resolved.recomputed /\ (\E i \in DOMAIN report : report[i].kind = "narrative" /\ report[i].lines # <<>>) =>
        /\ \E i \in DOMAIN WritePdf(report, images) : WritePdf(report, images)[i] = <<"warning">>
        /\ \E i \in DOMAIN WriteDocx(report, images) : WriteDocx(report, images)[i] = <<"warning">>
=============================================================================
