------------------------------- MODULE Decisions -------------------------------
(* The pure functions of the service, asked one question after another. A    *)
(* topic is one function or one family of them, its action puts any question *)
(* of the instance to it, and each invariant says what the answer must be.   *)
EXTENDS Calendar, Metrics, Presentation, Guards, WorkspaceFiles, Recall, ModelCalls, Bounds,
        Catalog, ToolTrace, TLC
CONSTANTS
    ScheduleConfigs, ZoneClocks, Instants, \* schedule: configurations, zones, half hours
    Todays, LastDayCounts,               \* period: days, the n of last_n_days
    OrderRows, OtherRows, Targets,       \* metrics: rows of a table, by table; monthly targets
    CompileRequests,                     \* compile: metrics and requests
    RowSizes, Limits,                    \* execute: sizes of result rows, [rows, bytes]
    DisplayLists,                        \* layout: what a run displays
    AnswerLines, PublishRequests,        \* document: answers of a run, requests to publish it
    NumberOfCaveats,
    CallTools, CallArguments, Grants,    \* guard: tools called, types of their arguments, tools granted
    FileTrees, PathRequests, Contents,   \* files: trees, requested paths, contents
    Chunks, CaptureLimits,               \* capture: output of a process, bound
    Stores, RecallRequests,              \* recall: memories, requests
    RunHistories,                        \* memory: runs one after the other
    RequestBatches,                      \* delegate: requests of one action
    CustomPrices, Models, Usages,        \* price: registered prices, models, token counts
    RunStates, Skills,                   \* context: states of a run, skills
    ToolKinds, Offers,                   \* call: tools, contexts of an offer
    Attempts,                            \* attempts: one after the other
    Processes, ChartSizes,               \* process: child processes, sizes of charts
    Databases, Catalogs, Statements,     \* catalog: databases, their catalogs, parsed statements
    Profiled,                            \* joins: databases to find joins in
    CallHistories, Outputs               \* trace: calls of one run; output: what a tool returned

(* The calendar of the instance holds every day a question is about, a run   *)
(* after each of its instants, and the year before each of its days.         *)
ASSUME CalendarQuestions ==
    /\ ScheduleConfigs \subseteq AnySchedule /\ ZoneClocks \subseteq AnyZone /\ Instants \subseteq Int
    /\ \A z \in ZoneClocks : Shift(z) < HalfHours /\ \A u \in Instants : Wall(u, z) \div HalfHours \in 0..LastDay
    /\ \A c \in ScheduleConfigs : WellFormed(c) =>
          \E d \in RuleDates(c) : \A z \in ZoneClocks, u \in Instants : HalfHours * d + c.time > Wall(u, z)
    /\ Todays \subseteq 0..LastDay /\ \A d \in Todays : MonthOf[d] >= 12
    /\ LastDayCounts \subseteq 1..MaxPeriodDays

(* Trees whose links lead to places without links, output in chunks, attempts *)
(* in the order of their times.                                              *)
ASSUME BoundsQuestions ==
    /\ \A fs \in FileTrees : IsTree(fs)
    /\ \A r \in PathRequests : IsPathRequest(r)
    /\ Chunks \subseteq Seq(Nat) /\ CaptureLimits \subseteq Nat
    /\ \A a \in Attempts : IsHistory(a, Keys(a))
    /\ Processes \subseteq ChildProcess /\ ChartSizes \subseteq Seq(Nat)

(* Tools granted are a finite set; a database has its tables and columns     *)
(* apart, and a statement the tables it reads.                               *)
ASSUME PolicyQuestions ==
    /\ \A g \in Grants : IsFiniteSet(g)
    /\ \A db \in Databases \cup Profiled : IsDatabase(db)
    /\ \A s \in Statements : Aliased(s)

(* Prices that ask no more for cached input than for input, observations that *)
(* are numbered apart, and no more delegations offered than an action takes.  *)
ASSUME CallQuestions ==
    /\ \A custom \in CustomPrices : \A n \in DOMAIN custom : IsPricing(custom[n])
    /\ Usages \subseteq Usage
    /\ \A state \in RunStates : AreNumbered(state.observations) /\ state.summarized \in Int
    /\ \A c \in Offers : (\A t \in c.tools : IsTool(t)) /\ c.max_parallel \in 0..MaxDelegations

(* No two memories of one time; runs, requests and calls one after the other; *)
(* a specialist may take a step, and so may its parent.                      *)
ASSUME RecallQuestions ==
    /\ \A store \in Stores : IsStore(store)
    /\ \A r \in RecallRequests : IsRecallRequest(r)
    /\ \A runs \in RunHistories :
          LET texts == UNION {Range(ended.decisions) \cup {ended.answer} : ended \in Range(runs)}
          IN runs \in Seq(CompletedRun({ended.workspace : ended \in Range(runs)}, {t.words : t \in texts}))
    /\ \A batch \in RequestBatches : batch \in Seq(SubagentRequest({b.objective : b \in Range(batch)}))
    /\ ParentIterations \in Nat \ {0} /\ SubagentIterations \in Nat \ {0} /\ MaxResult \in Nat
    /\ \A calls \in CallHistories : IsCallHistory(calls)

(* Tables of up to two rows, numbered apart *)
Tables(kinds) == {{}} \cup {{[id |-> 1] @@ a} : a \in kinds} \cup {{[id |-> 1] @@ a, [id |-> 2] @@ b} : a, b \in kinds}

(* Tables with the columns their metrics read, requests as they are parsed.  *)
ASSUME FigureQuestions ==
    /\ \A table \in Tables(OrderRows) : IsTable("orders", table)
    /\ \A s \in DOMAIN OtherRows : \A table \in Tables(OtherRows[s]) : IsTable(s, table)
    /\ \A q \in CompileRequests : IsRequest(q.request)
    /\ RowSizes \subseteq Seq(Nat) /\ \A x \in Limits : x.rows \in Nat /\ x.bytes \in Nat

VARIABLES topic, asked
questionVars == <<topic, asked>>

Topics == {"schedule", "period", "orders", "attainment", "others", "compile", "execute", "layout", "document",
           "guard", "files", "capture", "recall", "memory", "delegate",
           "price", "context", "call", "attempts", "process", "catalog", "joins", "trace", "output"}
Nothing == [of |-> "nothing"]

QuestionInit == topic \in Topics /\ asked = Nothing

Asks(t) == topic = t /\ asked = Nothing /\ UNCHANGED topic

AskSchedule == Asks("schedule") /\ \E c \in ScheduleConfigs, z \in ZoneClocks, u \in Instants :
    WellFormed(c) /\ asked' = [of |-> "schedule", config |-> c, zone |-> z, after |-> u]
AskPeriod == Asks("period") /\ \E k \in PeriodKinds, n \in LastDayCounts, d \in Todays :
    asked' = [of |-> "period", kind |-> k, n |-> n, today |-> d]

OrderMetrics == {m \in MetricNames : Source(m) = "orders"}
WholePeriod == [start |-> 1, end |-> 3]
AskOrders == Asks("orders") /\ \E table \in Tables(OrderRows) : asked' = [of |-> "orders", table |-> table]
AskAttainment == Asks("attainment") /\ \E table \in Tables(OrderRows), targets \in Targets :
    asked' = [of |-> "attainment", table |-> table, targets |-> targets]
AskOthers == Asks("others") /\ \E s \in DOMAIN OtherRows : \E table \in Tables(OtherRows[s]) :
    asked' = [of |-> "others", source |-> s, table |-> table]
AskCompile == Asks("compile") /\ \E q \in CompileRequests :
    ValidRequest(q.request) /\ asked' = [of |-> "compile", metric |-> q.metric, request |-> q.request]
AskExecute == Asks("execute") /\ \E sizes \in RowSizes, limits \in Limits :
    asked' = [of |-> "execute", sizes |-> sizes, limits |-> limits]

(* The one query the run resolved is "q" *)
Sources == {"q"}
Displays(list) == [i \in DOMAIN list |-> [id |-> i] @@ list[i]]
Content(answer, status, caveats) == [sources |-> Sources, prose |-> answer, status |-> status, caveats |-> caveats]
AskLayout == Asks("layout") /\ \E list \in DisplayLists, t \in DOMAIN Templates :
    asked' = [of |-> "layout", charts |-> Displays(list), template |-> t]

(* A document of three displays, published from a run or as a saved report   *)
OneOfEach == Displays(<<[type |-> "kpi", units |-> 3, rows |-> 0, cites |-> Sources, hinted |-> TRUE],
                        [type |-> "bar", units |-> 1, rows |-> 2, cites |-> Sources, hinted |-> FALSE],
                        [type |-> "table", units |-> 1, rows |-> 60, cites |-> Sources, hinted |-> FALSE]>>)
Resolutions == {ResolveContent(r) : r \in PublishRequests} \cup {SavedNarrative(p) : p \in {"include_original", "exclude"}}
AskDocument == Asks("document") /\ \E raws \in AnswerLines, r \in Resolutions, t \in DOMAIN Templates,
                                    n \in NumberOfCaveats, drawn \in SUBSET {2} :
    asked' = [of |-> "document", raws |-> raws, resolved |-> r, template |-> t, caveats |-> n, images |-> drawn]

(* The parent agent, the executor by itself, and a specialist                *)
Subjects == {[name |-> "agent", type |-> "primary"], [name |-> "runtime", type |-> "system"],
             [name |-> "analyst", type |-> "specialist"]}
Executors == [gates : BOOLEAN, environment : {"unknown", "production"}, granted : Grants, broken : BOOLEAN]
AskGuard == Asks("guard") /\ \E tool \in CallTools, target \in ActionTargets, arguments \in CallArguments,
                               x \in Executors, subject \in Subjects :
    asked' = [of |-> "guard", executor |-> x, subject |-> subject,
              call |-> [tool |-> tool, target |-> target, arguments |-> arguments]]
AskFiles == Asks("files") /\ \E fs \in FileTrees, request \in PathRequests, content \in Contents,
                               parents \in BOOLEAN, recursive \in BOOLEAN :
    asked' = [of |-> "files", fs |-> fs, request |-> request, content |-> content, parents |-> parents, recursive |-> recursive]
AskCapture == Asks("capture") /\ \E chunks \in Chunks, max \in CaptureLimits :
    asked' = [of |-> "capture", chunks |-> chunks, max |-> max]
AskRecall == Asks("recall") /\ \E store \in Stores, r \in RecallRequests :
    asked' = [of |-> "recall", store |-> store, request |-> r]
AskMemory == Asks("memory") /\ \E runs \in RunHistories : asked' = [of |-> "memory", runs |-> runs]
AskDelegate == Asks("delegate") /\ \E batch \in RequestBatches : asked' = [of |-> "delegate", batch |-> batch]
AskPrice == Asks("price") /\ \E custom \in CustomPrices, model \in Models, u \in Usages :
    asked' = [of |-> "price", custom |-> custom, model |-> model, usage |-> u]
AskContext == Asks("context") /\ \E state \in RunStates : asked' = [of |-> "context", state |-> state]
(* A call of an offered function, with or without what may be missing        *)
CallsOf(f) ==
    {a \in UNION {[p -> UNION {f.permits[q] : q \in DOMAIN f.permits}] :
                     p \in {DOMAIN f.permits, DOMAIN f.permits \ {"reasoning_summary"}}} : Permitted(f, a)}
AskCall == Asks("call") /\ \E c \in Offers : \E f \in FunctionDefinitions(c) : \E a \in CallsOf(f) :
    asked' = [of |-> "call", offer |-> c, function |-> f, arguments |-> a]
AskAttempts == Asks("attempts") /\ \E a \in Attempts : asked' = [of |-> "attempts", attempts |-> a]
Executions == [fails : {"nothing", "policy", "directory", "files"}, process : Processes, sizes : ChartSizes, unreadable : {{}, {1}}]
AskProcess == Asks("process") /\ \E e \in Executions : asked' = [of |-> "process", execution |-> e]
AskCatalog == Asks("catalog") /\ \E db \in Databases, catalog \in Catalogs, s \in Statements, lost \in {{}, {"orders"}} :
    asked' = [of |-> "catalog", db |-> db, catalog |-> catalog, unreadable |-> lost, statement |-> s]
AskJoins == Asks("joins") /\ \E db \in Profiled : \E selected \in SUBSET DOMAIN db :
    asked' = [of |-> "joins", db |-> db, selected |-> selected]
AskTrace == Asks("trace") /\ \E calls \in CallHistories : asked' = [of |-> "trace", calls |-> calls]
AskOutput == Asks("output") /\ \E v \in Outputs : asked' = [of |-> "output", output |-> v]

Answered == asked # Nothing /\ asked' = Nothing /\ UNCHANGED topic

QuestionNext == AskSchedule \/ AskPeriod \/ AskOrders \/ AskAttainment \/ AskOthers \/ AskCompile \/ AskExecute
        \/ AskLayout \/ AskDocument
        \/ AskGuard \/ AskFiles \/ AskCapture \/ AskRecall \/ AskMemory \/ AskDelegate
        \/ AskPrice \/ AskContext \/ AskCall \/ AskAttempts \/ AskProcess
        \/ AskCatalog \/ AskJoins \/ AskTrace \/ AskOutput \/ Answered
QuestionSpec == QuestionInit /\ [][QuestionNext]_questionVars

----------------------------------------------------------------------------
(* QuestionOK: the question is of its topic, and a recomputed metric never has   *)
(* more cards than a KPI display holds (reruns.py:139, charts.py:24).        *)
QuestionOK ==
    /\ topic \in Topics /\ asked.of \in {"nothing", topic}
    /\ asked.of = "execute" => Display(<<>>, asked.sizes, asked.limits, 10).cards \in 1..MaxCards

(* The scheduled run after an instant is the first one of the rule in the    *)
(* schedule's own zone; in the hours that a change of the clocks repeats or  *)
(* has skipped, it is what calculator.py:106 makes of comparing wall times.  *)
NextRunOK == asked.of = "schedule" => NextRunIsNextFire(asked.config, asked.zone, asked.after)

(* Relative periods fit together: valid, complete up to today, consecutive.  *)
PeriodsOK == asked.of = "period" => PeriodsFitTogether(asked.kind, asked.n, asked.today)

TableMetrics ==
    IF asked.of = "orders" THEN OrderMetrics
    ELSE IF asked.of = "others" THEN {m \in MetricNames : Source(m) = asked.source} ELSE {}
Labels == {"a", "b"}
NoFilter == <<>>

(* A report of two halves of a period adds up to the report of the whole.    *)
HalvesOK == \A m \in TableMetrics : HalvesAddUp(m, asked.table, WholePeriod, NoFilter)

(* A grouped report adds up to the ungrouped one, rows without label too.    *)
GroupsOK == \A m \in TableMetrics, d \in {"period", "label"} : GroupsAddUp(m, asked.table, WholePeriod, NoFilter, d)

(* A filter and its opposite split the rows that have the label.             *)
FiltersOK == \A m \in TableMetrics : FiltersSplit(m, asked.table, WholePeriod, Labels)

(* Every rate is a share of the same rows as its denominator.                *)
RatesOK == \A m \in TableMetrics : RatesAreShares(m, asked.table, WholePeriod, NoFilter)

(* Every average lies between what it averages, missing values left out.     *)
AveragesOK == \A m \in TableMetrics : AveragesLieBetween(m, asked.table, WholePeriod, NoFilter)

(* revenue_growth compares neighbouring periods of one length.               *)
GrowthOK == asked.of = "orders" =>
    \A end \in 2..3 : GrowthChains(asked.table, [start |-> end - 1, end |-> end], NoFilter)

(* target_attainment agrees with revenue and gross profit month by month.    *)
AttainmentOK == asked.of = "attainment" => AttainmentAgrees(asked.table, asked.targets, 2)

(* Whether a request compiles does not depend on the order of its parts.     *)
CompileOK == asked.of = "compile" => CompilesInAnyOrder(asked.metric, asked.request)

(* Every value of a request is bound under a name of its own.                *)
BoundOK == asked.of = "compile" => EveryValueIsBound(asked.request)

(* A cut result is the longest prefix within both bounds, and says it is cut. *)
TruncationOK == asked.of = "execute" => TruncationIsTold(asked.sizes, asked.limits)

(* Each display is in one slot, unused or unresolved, and greedily placed.   *)
AssignmentOK == asked.of = "layout" => AssignmentIsFair(Templates[asked.template], asked.charts, Sources)

(* The recommended template can be published if any can.                     *)
RecommendOK == asked.of = "layout" => RecommendedCanPublish(asked.charts, Sources)

(* can_publish means that no required section of the document is empty.      *)
PublishableOK == asked.of = "layout" =>
    PublishableIsFull(asked.template, asked.charts, Content(<<>>, StatusExcluded, 0))

(* A report prints what was assigned, over resolved evidence, and its        *)
(* appendix lists each query with the figures that cite it.                  *)
AppendixOK == asked.of = "layout" =>
    ReportIsAccounted(Templates[asked.template], asked.charts, Content(<<>>, StatusExcluded, 0))

Report ==
    LET t == Templates[asked.template]
    IN CompileReport(t, AssignSlots(t, OneOfEach, Sources), Content(asked.raws, asked.resolved.status, asked.caveats))

(* No word of an answer is lost or moved on its way into the prose.          *)
ProseOK == asked.of = "document" => ProseKeepsWords(asked.raws)

(* Both documents of a report state the same facts in the same order.        *)
DocumentsOK == asked.of = "document" => DocumentsAgree(Report, asked.images)

(* Prose of the original period beside recomputed figures carries a warning  *)
(* in both documents, but in one case that document_model.py:47 rules out: a *)
(* request to publish a run that recomputes metrics and says "current"       *)
(* itself. What a request leaves unsaid and a saved report never lead there. *)
DeclaredCurrent(resolved) == resolved.recomputed /\ resolved.status = StatusCurrent
Undeclared == {ResolveContent(r) : r \in {q \in PublishRequests : q.narrative # StatusCurrent}}
              \cup {SavedNarrative(p) : p \in {"include_original", "exclude"}}
ProseMarked == asked.of = "document" =>
    /\ DeclaredCurrent(asked.resolved) \/ ProseIsMarked(asked.resolved, Report, asked.images)
    /\ DeclaredCurrent(asked.resolved) => asked.resolved \notin Undeclared

(* A tool call meets the decision it was announced, approved or not.         *)
GateOK == asked.of = "guard" => GateAgreesWithCall(asked.executor, asked.subject, asked.call)

(* A specialist runs only the tools its definition lists.                    *)
ConfinedOK == asked.of = "guard" =>
    \A approved \in BOOLEAN : SpecialistIsConfined(asked.executor, asked.subject, asked.call, approved)

(* Behind the gates nothing sensitive runs without an approval.              *)
SensitiveOK == asked.of = "guard" =>
    \A approved \in BOOLEAN : SensitiveIsApproved(asked.executor, asked.subject, asked.call, approved)

(* In production only what was approved runs, besides the run's own plan.    *)
ProductionOK == asked.of = "guard" =>
    \A approved \in BOOLEAN : ProductionIsClosed(asked.executor, asked.subject, asked.call, approved)

(* No file operation reaches a place outside the workspace.                  *)
WorkspaceOK == asked.of = "files" =>
    StaysInWorkspace(asked.fs, asked.request, asked.content, asked.parents, asked.recursive)

(* What was written is what is read back.                                    *)
WrittenOK == asked.of = "files" => WrittenIsRead(asked.fs, asked.request, asked.content, asked.parents)

(* Captured output is cut at its bound, and a cut is told.                   *)
CaptureOK == asked.of = "capture" => CaptureIsPrefix(asked.chunks, asked.max)

(* No memory of another workspace or session is recalled.                    *)
ScopeOK == asked.of = "recall" => SelectionIsScoped(asked.store, asked.request)

(* Memories unrelated to the question do not change what is recalled.        *)
NoiseOK == asked.of = "recall" => NoiseIsIgnored(asked.store, asked.request)

(* The better match is recalled first.                                       *)
RelevanceOK == asked.of = "recall" => RelevanceComesFirst(asked.store, asked.request)

(* Memories are kept once per workspace, whatever the other workspaces run.  *)
MemoriesOK == asked.of = "memory" => MemoriesAreCurated(asked.runs)

(* No result of a parallel delegation is lost with its siblings.             *)
SiblingsOK == asked.of = "delegate" => SiblingsAreKept(asked.batch)

(* More tokens never cost less, nor does finding them in the cache cost more. *)
CostOK == asked.of = "price" => CostsAreOrdered(asked.custom, asked.model, asked.usage)

(* No observation is missing from both the recent ones and the summary.      *)
ContextOK == asked.of = "context" => NothingForgotten(asked.state, Skills)

(* What came from outside is shown as evidence, and only there.              *)
EvidenceOK == asked.of = "context" => EvidenceIsSeparate(asked.state, Skills)

(* Any call of an offered function is an action the runtime can take.        *)
CallOK == asked.of = "call" => OfferedCallsWork(asked.offer, asked.function, asked.arguments)

(* Every call a tool takes can be made through the function offered for it.  *)
OfferOK == asked.of = "call" =>
    \A t \in asked.offer.tools : \A a \in UNION {[p -> UNION {ValuesOfType(t.types[q]) : q \in DOMAIN t.types}] : p \in SUBSET DOMAIN t.types} :
        ToolCallsAreOffered(t, a)

(* No key sees more attempts succeed than its limit, nor fewer than it may.  *)
AttemptsOK == asked.of = "attempts" => AttemptsAreLimited(asked.attempts)

(* A child process is bounded in time, and what became of it is told.        *)
ProcessOK == asked.of = "process" => ChildIsBounded(asked.execution.process)

(* Only a successful execution leaves charts, within their bounds.           *)
ChartsOK == asked.of = "process" => ChartsAreBounded(asked.execution)

(* What was not approved of a database changes no answer about it.           *)
HiddenOK == asked.of = "catalog" => HiddenLeavesNoTrace(asked.db, asked.catalog, {"order", "mail", "amount"})

(* A query the gate lets run names no column as the catalog does that is not *)
(* approved, and any query of described columns runs.                        *)
QueriesOK == asked.of = "catalog" =>
    /\ NamedIsApproved(asked.db, asked.catalog, asked.statement)
    /\ DescribedCanBeQueried(asked.db, asked.catalog, asked.unreadable, asked.statement)

(* Proposed joins lead to a key, one per column, and are not for summing.    *)
ProposalsOK == asked.of = "joins" =>
    /\ ProposalsAreSound(asked.db, asked.selected)
    /\ \A t \in asked.selected : \A c \in asked.db[t].columns : MostSensitiveWins(c)

(* A run's trace tells of each of its calls, queries and artifacts once.     *)
TraceOK == asked.of = "trace" =>
    /\ CallsAreClosed(asked.calls) /\ QueriesAreNumbered(asked.calls)
    /\ MetricsCountCalls(asked.calls) /\ ArtifactsAreTold(asked.calls)

(* What is kept of an output has its shape and nothing that must not be kept. *)
ObservationOK == asked.of = "output" => ObservationIsSafe(asked.output)

(* ScheduleConfigs and periods follow the calendar (scheduling/calculator.py,      *)
(* reports/periods.py).                                                      *)
CalendarOK == NextRunOK /\ PeriodsOK

(* Every figure of a report adds up, however the period is halved, grouped   *)
(* or filtered (analytics/semantics).                                        *)
FiguresOK ==
    /\ HalvesOK /\ GroupsOK /\ FiltersOK /\ RatesOK /\ AveragesOK /\ GrowthOK
    /\ AttainmentOK /\ CompileOK /\ BoundOK /\ TruncationOK

(* A report shows what the answer said and was asked to show, the same in    *)
(* both of its documents (analytics/presentation).                           *)
ReportsOK ==
    /\ QuestionOK /\ AssignmentOK /\ RecommendOK /\ PublishableOK /\ AppendixOK
    /\ ProseOK /\ DocumentsOK /\ ProseMarked

(* No way around the security policy, announced, called or approved; and     *)
(* what is not approved of a database is neither shown nor queried by its    *)
(* exact name (security, datasources, tools/execution/executor.py).          *)
PolicyOK == GateOK /\ ConfinedOK /\ SensitiveOK /\ ProductionOK /\ HiddenOK /\ QueriesOK /\ ProposalsOK

(* Files, child processes and attempts stay within their bounds              *)
(* (environment, identity/rate_limit.py).                                    *)
BoundsOK == WorkspaceOK /\ WrittenOK /\ CaptureOK /\ ProcessOK /\ ChartsOK /\ AttemptsOK

(* What is remembered, delegated or recorded is found again, by whom it may  *)
(* be (memory, runtime/delegation.py, tools/execution, observability).       *)
RecallOK == ScopeOK /\ NoiseOK /\ RelevanceOK /\ MemoriesOK /\ SiblingsOK /\ TraceOK /\ ObservationOK

(* A model is shown the run, can call what it is offered and is charged for  *)
(* what it used (llm, runtime/context.py).                                   *)
ModelCallsOK == ContextOK /\ EvidenceOK /\ CallOK /\ OfferOK /\ CostOK

=============================================================================
