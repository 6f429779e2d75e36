--------------------------- MODULE RunTrace_proofs ---------------------------
(***************************************************************************)
(* Proofs about RunTrace: for every number of segments, queries, other     *)
(* runs and stored traces, a run's sources are the queries the model       *)
(* meant, its goal is in its context and leaves working memory with it,    *)
(* its trace tells one ending, and what the Workbench received of it is a  *)
(* prefix of its public events.                                            *)
(***************************************************************************)
EXTENDS RunTrace, SequenceTheorems, FiniteSetTheorems, WellFoundedInduction,
        TLAPS

-----------------------------------------------------------------------------
(* The trace store *)

AllRuns == OtherRuns \cup {Run}
Kept(s, x) == \E i \in DOMAIN s : s[i] = x

LEMMA StoredIs == ASSUME order \in Seq(AllRuns), NEW r PROVE Stored(r) <=> Kept(order, r)
BY DEF Stored, Contains, Kept

LEMMA RemovedAt ==
    ASSUME NEW S, NEW s \in Seq(S), NEW i \in DOMAIN s
    PROVE  /\ RemoveAt(s, i) \in Seq(S) /\ Len(RemoveAt(s, i)) = Len(s) - 1
           /\ \A j \in 1..(Len(s) - 1) :
                 RemoveAt(s, i)[j] = IF j < i THEN s[j] ELSE s[j + 1]
<1> DEFINE head == SubSeq(s, 1, i - 1)
           tail == SubSeq(s, i + 1, Len(s))
<1>1. Len(s) \in Nat /\ i \in 1..Len(s) /\ DOMAIN s = 1..Len(s)
  BY LenProperties
<1>2. /\ head \in Seq(S) /\ Len(head) = i - 1
      /\ \A j \in 1..(i - 1) : head[j] = s[j]
  BY <1>1
<1>3. /\ tail \in Seq(S) /\ Len(tail) = Len(s) - i
      /\ \A j \in 1..(Len(s) - i) : tail[j] = s[i + j]
  BY <1>1
<1>4. RemoveAt(s, i) = head \o tail
  BY DEF RemoveAt
<1> HIDE DEF head, tail
<1>5. /\ head \o tail \in Seq(S) /\ Len(head \o tail) = Len(head) + Len(tail)
      /\ \A j \in 1..(Len(head) + Len(tail)) :
            (head \o tail)[j] = IF j <= Len(head) THEN head[j] ELSE tail[j - Len(head)]
  BY <1>2, <1>3, ConcatProperties
<1>6. Len(head) + Len(tail) = Len(s) - 1
  BY <1>1, <1>2, <1>3
<1>7. ASSUME NEW j \in 1..(Len(s) - 1)
      PROVE  (head \o tail)[j] = IF j < i THEN s[j] ELSE s[j + 1]
  <2>1. CASE j < i
    BY <1>1, <1>2, <1>5, <1>6, <2>1
  <2>2. CASE ~(j < i)
    <3>1. j - (i - 1) \in 1..(Len(s) - i) /\ i + (j - (i - 1)) = j + 1
      BY <1>1, <2>2
    <3>2. (head \o tail)[j] = tail[j - (i - 1)]
      BY <1>1, <1>2, <1>5, <1>6, <2>2
    <3>3. tail[j - (i - 1)] = s[i + (j - (i - 1))]
      BY <1>3, <3>1
    <3>4. QED
      BY <2>2, <3>1, <3>2, <3>3
  <2>3. QED
    BY <2>1, <2>2
<1>8. QED
  BY <1>4, <1>5, <1>6, <1>7

(* What stays when one is removed: the others, each still once *)
LEMMA RestIs ==
    ASSUME NEW S, NEW s \in Seq(S), NEW i \in DOMAIN s, IsInjective(s)
    PROVE  /\ IsInjective(RemoveAt(s, i))
           /\ \A x : Kept(RemoveAt(s, i), x) => Kept(s, x) /\ x # s[i]
<1> DEFINE rest == RemoveAt(s, i)
           old(j) == IF j < i THEN j ELSE j + 1
<1>1. /\ Len(s) \in Nat /\ i \in 1..Len(s) /\ DOMAIN s = 1..Len(s)
      /\ DOMAIN rest = 1..(Len(s) - 1)
  <2>1. Len(s) \in Nat /\ i \in 1..Len(s) /\ DOMAIN s = 1..Len(s)
    BY LenProperties
  <2>2. rest \in Seq(S) /\ Len(rest) = Len(s) - 1
    BY RemovedAt
  <2>3. DOMAIN rest = 1..Len(rest)
    BY <2>2, LenProperties
  <2>4. QED
    BY <2>1, <2>2, <2>3
<1>2. \A j \in DOMAIN rest : rest[j] = s[old(j)] /\ old(j) \in DOMAIN s /\ old(j) # i
  <2>1. ASSUME NEW j \in 1..(Len(s) - 1) PROVE old(j) \in 1..Len(s) /\ old(j) # i
    BY <1>1
  <2>2. \A j \in 1..(Len(s) - 1) : rest[j] = IF j < i THEN s[j] ELSE s[j + 1]
    BY RemovedAt
  <2>3. QED
    BY <1>1, <2>1, <2>2
<1>3. \A j, k \in DOMAIN rest : old(j) = old(k) => j = k
  BY <1>1
<1> HIDE DEF rest, old
<1>4. IsInjective(rest)
  <2>1. ASSUME NEW j \in DOMAIN rest, NEW k \in DOMAIN rest, rest[j] = rest[k] PROVE j = k
    BY <1>2, <1>3, <2>1 DEF IsInjective
  <2>2. QED
    BY <2>1 DEF IsInjective
<1>5. ASSUME NEW x, Kept(rest, x) PROVE Kept(s, x) /\ x # s[i]
  <2>1. PICK j \in DOMAIN rest : rest[j] = x
    BY <1>5 DEF Kept
  <2>2. QED
    BY <1>2, <2>1 DEF Kept, IsInjective
<1>6. QED
  BY <1>4, <1>5 DEF rest

(* The traces that are stored: each once, and no more than there may be *)
Ordered == order \in Seq(AllRuns) /\ IsInjective(order) /\ Len(order) <= MaxTraces

LEMMA LatestIs ==
    ASSUME Ordered, NEW r \in AllRuns
    PROVE  /\ Latest(r) \in Seq(AllRuns) /\ Len(Latest(r)) \in Nat \ {0}
           /\ Len(Latest(r)) = IF Stored(r) THEN Len(order) ELSE Len(order) + 1
           /\ Latest(r)[Len(Latest(r))] = r /\ IsInjective(Latest(r))
           /\ \A x : Kept(Latest(r), x) => x = r \/ Stored(x)
<1> DEFINE at == CHOOSE i \in DOMAIN order : order[i] = r
           rest == IF Stored(r) THEN RemoveAt(order, at) ELSE order
<1>0. Len(order) \in Nat
  BY DEF Ordered
<1>1. /\ rest \in Seq(AllRuns) /\ IsInjective(rest)
      /\ Len(rest) = IF Stored(r) THEN Len(order) - 1 ELSE Len(order)
      /\ \A x : Kept(rest, x) => Stored(x) /\ x # r
  <2>1. CASE Stored(r)
    <3>1. at \in DOMAIN order /\ order[at] = r
      BY <2>1, StoredIs DEF Kept, Ordered
    <3> HIDE DEF at
    <3>2. rest = RemoveAt(order, at)
      BY <2>1
    <3>3. QED
      BY <2>1, <3>1, <3>2, RemovedAt, RestIs, StoredIs DEF Ordered
  <2>2. CASE ~Stored(r)
    BY <2>2, StoredIs DEF Ordered
  <2>3. QED
    BY <2>1, <2>2
<1>2. Latest(r) = Append(rest, r)
  BY DEF Latest
<1> HIDE DEF rest
<1>3. /\ Append(rest, r) \in Seq(AllRuns) /\ Len(Append(rest, r)) = Len(rest) + 1
      /\ Append(rest, r)[Len(rest) + 1] = r
      /\ \A i \in 1..Len(rest) : Append(rest, r)[i] = rest[i]
      /\ Len(rest) \in Nat /\ DOMAIN rest = 1..Len(rest)
      /\ DOMAIN Append(rest, r) = 1..(Len(rest) + 1)
  BY <1>1
<1>4. ASSUME NEW x, Kept(Append(rest, r), x) PROVE x = r \/ Kept(rest, x)
  <2>1. PICK i \in 1..(Len(rest) + 1) : Append(rest, r)[i] = x
    BY <1>3, <1>4 DEF Kept
  <2>2. CASE i = Len(rest) + 1
    BY <1>3, <2>1, <2>2
  <2>3. CASE i \in 1..Len(rest)
    BY <1>1, <1>3, <2>1, <2>3 DEF Kept
  <2>4. QED
    BY <1>3, <2>1, <2>2, <2>3
<1>5. IsInjective(Append(rest, r))
  <2>1. ASSUME NEW i \in 1..Len(rest) PROVE Append(rest, r)[i] = rest[i] /\ rest[i] # r
    BY <1>1, <1>3 DEF Kept
  <2>2. ASSUME NEW i \in 1..(Len(rest) + 1), NEW j \in 1..(Len(rest) + 1),
               Append(rest, r)[i] = Append(rest, r)[j]
        PROVE  i = j
    <3>1. CASE i = Len(rest) + 1 \/ j = Len(rest) + 1
      BY <1>3, <2>1, <2>2, <3>1
    <3>2. CASE i \in 1..Len(rest) /\ j \in 1..Len(rest)
      BY <1>1, <1>3, <2>1, <2>2, <3>2 DEF IsInjective
    <3>3. QED
      BY <1>3, <3>1, <3>2
  <2>3. QED
    BY <1>3, <2>2 DEF IsInjective
<1>6. QED
  BY <1>0, <1>1, <1>2, <1>3, <1>4, <1>5

LEMMA SavedIs ==
    ASSUME Ordered, NEW r \in AllRuns
    PROVE  /\ Saved(r) \in Seq(AllRuns) /\ IsInjective(Saved(r)) /\ Len(Saved(r)) <= MaxTraces
           /\ Kept(Saved(r), r)
           /\ \A x : Kept(Saved(r), x) => x = r \/ Stored(x)
<1> DEFINE all == Latest(r)
           m == IF Len(all) > MaxTraces THEN Len(all) - MaxTraces + 1 ELSE 1
           s == SubSeq(all, m, Len(all))
           n == Len(all) - m + 1
<1>1. /\ all \in Seq(AllRuns) /\ Len(all) \in Nat \ {0} /\ all[Len(all)] = r
      /\ IsInjective(all)
      /\ \A x : Kept(all, x) => x = r \/ Stored(x)
  BY LatestIs
<1>2. m \in 1..Len(all) /\ n <= MaxTraces /\ n \in 1..Len(all) /\ m + n - 1 = Len(all)
  BY <1>1, TraceAssumption
<1>3. Saved(r) = s
  BY DEF Saved
<1>4. DOMAIN all = 1..Len(all)
  BY <1>1
<1> HIDE DEF all, m
<1>5. s \in Seq(AllRuns) /\ Len(s) = n /\ \A j \in 1..n : s[j] = all[m + j - 1]
  BY <1>1, <1>2
<1> HIDE DEF s
<1>6. DOMAIN s = 1..n
  BY <1>5, LenProperties
<1>7. \A j \in DOMAIN s : s[j] = all[m + j - 1] /\ m + j - 1 \in DOMAIN all
  BY <1>1, <1>2, <1>4, <1>5, <1>6
<1>8. Kept(s, r)
  <2>1. n \in DOMAIN s
    BY <1>2, <1>6
  <2>2. s[n] = r
    BY <1>1, <1>2, <1>7, <2>1
  <2>3. QED
    BY <2>1, <2>2 DEF Kept
<1>9. \A x : Kept(s, x) => Kept(all, x)
  BY <1>7 DEF Kept
<1>10. IsInjective(s)
  <2>1. ASSUME NEW i \in DOMAIN s, NEW j \in DOMAIN s, s[i] = s[j] PROVE i = j
    <3>1. m + i - 1 = m + j - 1
      BY <1>1, <1>7, <2>1 DEF IsInjective
    <3>2. QED
      BY <1>1, <1>2, <1>6, <3>1
  <2>2. QED
    BY <2>1 DEF IsInjective
<1>11. QED
  BY <1>1, <1>2, <1>3, <1>5, <1>8, <1>9, <1>10

LEMMA UsedIs ==
    ASSUME Ordered, NEW r \in AllRuns
    PROVE  /\ Used(r) \in Seq(AllRuns) /\ IsInjective(Used(r)) /\ Len(Used(r)) <= MaxTraces
           /\ Kept(Used(r), r) <=> Stored(r)
           /\ \A x : Kept(Used(r), x) => Stored(x)
<1>1. CASE Stored(r)
  <2>1. Used(r) = Latest(r)
    BY <1>1 DEF Used
  <2>2. Len(Latest(r)) \in DOMAIN Latest(r)
    BY LatestIs
  <2>3. QED
    BY <1>1, <2>1, <2>2, LatestIs DEF Kept, Ordered
<1>2. CASE ~Stored(r)
  BY <1>2, StoredIs DEF Used, Ordered
<1>3. QED
  BY <1>1, <1>2

-----------------------------------------------------------------------------
(* The invariant *)

Places == {"created", "off", "begun", "loop", "querying", "capturing", "clearing",
           "completing", "persisting", "done", "dead"}
Busy == {"created", "begun", "loop", "querying", "capturing"}
Endings == {"none", "completed", "failed", "raised", "waiting"}
Statuses == {"running", "completed", "failed", "waiting"}
Managed == [status : Statuses, answered : BOOLEAN, finished : BOOLEAN]
Bench == [mode : {"watching", "settling", "idle"}, settled : BOOLEAN, polls : Nat,
          terminal : BOOLEAN, shown : {"none", "answer", "waiting", "failed", "gaveup"}]

Typed ==
    /\ scene \in Scenes
    /\ pc \in [Ids -> Places] /\ result \in [Ids -> Endings]
    /\ approval \in 0..Segments /\ memories \subseteq Ids
    /\ seen \in Seq([id : Nat, real : Nat]) /\ asking \in Nat /\ queries \in Nat
    /\ faults \in [FaultKinds -> Nat]

(* The store holds the run's trace or nothing of it; ids are minted in     *)
(* order.                                                                  *)
Traced ==
    /\ Ordered /\ trace \in Seq(Event) /\ minted \in Nat
    /\ Stored(Run) <=> trace # <<>>
    /\ \A i \in DOMAIN trace : trace[i].id <= minted
    /\ \A i, j \in DOMAIN trace : (i < j) => trace[i].id < trace[j].id

(* One segment at a time goes on: while one is busy no approval waits, no  *)
(* other is busy and none after it has begun; the same while one waits.    *)
Turn ==
    /\ \A k \in Ids : pc[k] \in Busy => approval = 0
    /\ \A j, k \in Ids : (pc[k] \in Busy /\ j < k) => pc[j] \notin Busy
    /\ \A j, k \in Ids : (pc[k] \in Busy /\ j > k) => pc[j] = "off"
    /\ approval # 0 => \A j \in Ids : j > approval => pc[j] = "off"

(* Unless a resumption overtook it, a segment is past its clearing when a  *)
(* later one begins: it cannot clear the later one's goal.                 *)
Unwinding == ~overlap => \A j, k \in Ids : (j < k /\ pc[k] # "off") => Unwound(j)

Remembered ==
    \A k \in memories : \/ pc[k] \in {"loop", "querying", "capturing", "clearing"}
                        \/ Happened("clear") \/ Happened("restart")

(* Before the first event nothing has happened: a trace begun later than   *)
(* that is begun anew.                                                     *)
Early ==
    minted = 0 => /\ trace = <<>> /\ seen = <<>> /\ answer = {} /\ approval = 0
                  /\ \A k \in Ids : pc[k] \in {"created", "off", "dead"}

(* While the trace is the first one, ids tell queries apart: each id seen  *)
(* has been counted, each names one query, the ledger's entries are among  *)
(* them and the id being asked about is not.                               *)
Numbers(t) == Cardinality({i \in DOMAIN t : t[i].type = "validation"})
CountedIds == \A i \in DOMAIN seen : seen[i].id <= Numbers(trace)
OneQueryPerId == \A i, j \in DOMAIN seen : seen[i].id = seen[j].id => seen[i].real = seen[j].real
LedgerWasSeen ==
    \A i \in DOMAIN trace : trace[i].type = "query" =>
        \E j \in DOMAIN seen : seen[j].id = trace[i].query /\ seen[j].real = trace[i].real
AskingIsNew ==
    (\E k \in Ids : pc[k] = "querying") =>
        asking <= Numbers(trace) /\ \A j \in DOMAIN seen : seen[j].id # asking
Numbered ==
    (~replaced /\ trace # <<>>) => CountedIds /\ OneQueryPerId /\ LedgerWasSeen /\ AskingIsNew

(* The end of a trace is written by the last segment that is busy. *)
Ended ==
    (\E i \in DOMAIN trace : Terminal(trace[i])) =>
        approval = 0 /\ \A k \in Ids : pc[k] \notin Busy

RunInv == /\ Typed /\ Traced /\ Turn /\ Unwinding /\ Remembered /\ Early /\ Numbered /\ Ended
          /\ EvidenceIsMeant /\ GoalIsInContext /\ EndsOnce

-----------------------------------------------------------------------------
(* The kinds of step *)

(* What the trace store does: nothing to this trace but that it is read, *)
(* an event is recorded, the trace is begun, or it is lost.              *)
Reads == UNCHANGED <<trace, minted, replaced>> /\ order' \in {order, Used(Run)}
Writes(e) == /\ Stored(Run) /\ e \in Event /\ e.id = minted + 1
             /\ trace' = Append(trace, e) /\ minted' = minted + 1
             /\ order' = Used(Run) /\ UNCHANGED replaced
Begins == /\ ~Stored(Run) /\ order' = Saved(Run) /\ minted' = minted + 1
          /\ trace' = NewEvent("started") /\ replaced' = (minted > 0)
Records(e) == Writes(e) \/ (~Stored(Run) /\ Reads)

(* A step of another run, of the stream or of a Workbench *)
Core == <<pc, result, approval, memories, seen, asking, answer, queries, scene, replaced, overlap>>
Aside == UNCHANGED Core /\ (Reads \/ \E o \in OtherRuns : OtherRun(o))

StepOf(k) ==
    \/ Begin(k) \/ RecordGoal(k) \/ StartQuery(k)
    \/ \E success \in BOOLEAN : FinishQuery(k, success)
    \/ \E cited \in {{}} \cup {{c} : c \in ToSet(seen)} : Answer(k, cited)
    \/ Captured(k) \/ Pause(k)
    \/ \E how \in {"failed", "raised"} : Halt(k, how)
    \/ Clear(k) \/ (\E left \in SUBSET memories : ClearFails(k, left))
    \/ Reconcile(k) \/ Persist(k)
    \/ \E approved \in BOOLEAN : Resume(k, approved)

LEMMA StepIs ==
    ASSUME Typed, [Next]_vars
    PROVE  Aside \/ Restart \/ \E k \in Ids : StepOf(k)
<1>1. CASE UNCHANGED vars
  BY <1>1 DEF vars, store, work, run, stream, client, history, Aside, Core, Reads
<1>2. CASE \E k \in Ids : Segment(k)
  BY <1>2 DEF Segment, StepOf
<1>3. CASE \E k \in Ids, approved \in BOOLEAN : Resume(k, approved)
  BY <1>3 DEF StepOf
<1>4. CASE Generator
  BY <1>4 DEF Generator, GenRead, GenYield, GenEnds, GenSleeps, Aside, Core, Reads,
              store, work, run, history
<1>5. CASE Workbench
  BY <1>5 DEF Workbench, Connect, Refused, NoticeDrop, Poll, Aside, Core, Reads,
              store, work, run, history
<1>6. ASSUME NEW o \in scene.others, OtherRun(o) PROVE Aside
  <2>1. o \in OtherRuns
    BY SceneAssumption DEF Typed
  <2>2. UNCHANGED Core
    BY <1>6 DEF OtherRun, Core, work, run, history
  <2>3. QED
    BY <1>6, <2>1, <2>2 DEF Aside
<1>7. ASSUME NEW n \in 0..Len(gen.todo), GenDrops(n) PROVE Aside
  BY <1>7 DEF GenDrops, Aside, Core, Reads, store, work, run
<1>8. CASE Cut \/ PollFails
  BY <1>8 DEF Cut, PollFails, Aside, Core, Reads, store, work, run
<1>9. ASSUME NEW k \in Ids, SettleResumed(k) PROVE Aside
  BY <1>9 DEF SettleResumed, Aside, Core, Reads, store, work, run, history
<1>10. QED
  BY <1>1, <1>2, <1>3, <1>4, <1>5, <1>6, <1>7, <1>8, <1>9 DEF Next

(* Faults are only added to. *)
LEMMA FaultIs ==
    ASSUME Typed, NEW f \in FaultKinds, Fault(f)
    PROVE  /\ faults' \in [FaultKinds -> Nat] /\ faults'[f] > 0
           /\ \A g \in FaultKinds : faults[g] > 0 => faults'[g] > 0
BY DEF Typed, Fault

LEMMA FaultsGrow ==
    ASSUME Typed, [Next]_vars
    PROVE  /\ faults' \in [FaultKinds -> Nat]
           /\ \A g \in FaultKinds : Happened(g) => Happened(g)'
<1>1. (\E f \in FaultKinds : Fault(f)) \/ UNCHANGED faults
  <2>1. CASE UNCHANGED vars
    BY <2>1 DEF vars, history
  <2>2. ASSUME NEW k \in Ids, Segment(k) PROVE UNCHANGED faults \/ \E f \in FaultKinds : Fault(f)
    BY <2>2 DEF Segment, Begin, RecordGoal, StartQuery, FinishQuery, Answer, Captured, Pause, Halt,
                Clear, ClearFails, Reconcile, Persist, history, FaultKinds
  <2>3. ASSUME NEW k \in Ids, NEW approved \in BOOLEAN, Resume(k, approved) PROVE UNCHANGED faults
    BY <2>3 DEF Resume
  <2>4. CASE Generator \/ Workbench
    BY <2>4 DEF Generator, GenRead, GenYield, GenEnds, GenSleeps, Workbench, Connect, Refused,
                NoticeDrop, Poll, history
  <2>5. ASSUME NEW o \in scene.others, OtherRun(o) PROVE UNCHANGED faults
    BY <2>5 DEF OtherRun, history
  <2>6. ASSUME NEW n \in 0..Len(gen.todo), GenDrops(n) PROVE \E f \in FaultKinds : Fault(f)
    BY <2>6 DEF GenDrops, FaultKinds
  <2>7. CASE Cut \/ PollFails \/ Restart
    BY <2>7 DEF Cut, PollFails, Restart, FaultKinds
  <2>8. ASSUME NEW k \in Ids, SettleResumed(k) PROVE UNCHANGED faults
    BY <2>8 DEF SettleResumed, history
  <2>9. QED
    BY <2>1, <2>2, <2>3, <2>4, <2>5, <2>6, <2>7, <2>8 DEF Next
<1>2. QED
  BY <1>1, FaultIs DEF Typed, Happened


-----------------------------------------------------------------------------
(* The numbering of queries *)

LEMMA Counted ==
    ASSUME NEW t \in Seq(Event)
    PROVE  /\ Numbers(t) \in Nat
           /\ IsFiniteSet({i \in DOMAIN t : t[i].type = "validation"})
<1>1. IsFiniteSet(1..Len(t)) /\ DOMAIN t = 1..Len(t)
  BY FS_Interval, LenProperties
<1>2. {i \in DOMAIN t : t[i].type = "validation"} \subseteq 1..Len(t)
  BY <1>1
<1>3. QED
  BY <1>1, <1>2, FS_Subset, FS_CardinalityType DEF Numbers

LEMMA AppendedIs ==
    ASSUME NEW S, NEW t \in Seq(S), NEW e \in S
    PROVE  /\ Append(t, e) \in Seq(S) /\ Append(t, e) # <<>> /\ Len(Append(t, e)) = Len(t) + 1
           /\ DOMAIN Append(t, e) = DOMAIN t \cup {Len(t) + 1}
           /\ DOMAIN t = 1..Len(t) /\ Len(t) \in Nat
           /\ Append(t, e)[Len(t) + 1] = e
           /\ \A i \in DOMAIN t : Append(t, e)[i] = t[i]
<1>1. /\ Append(t, e) \in Seq(S) /\ Len(Append(t, e)) = Len(t) + 1
      /\ \A i \in 1..Len(t) : Append(t, e)[i] = t[i]
      /\ Append(t, e)[Len(t) + 1] = e
  OBVIOUS
<1>2. DOMAIN t = 1..Len(t) /\ Len(t) \in Nat
  BY LenProperties
<1>3. DOMAIN Append(t, e) = 1..(Len(t) + 1)
  BY <1>1, LenProperties
<1>4. Append(t, e) # <<>>
  BY <1>1, <1>2
<1>5. QED
  BY <1>1, <1>2, <1>3, <1>4

(* Only a validation event counts. *)
LEMMA NumbersGrow ==
    ASSUME NEW t \in Seq(Event), NEW e \in Event
    PROVE  /\ e.type = "validation" => Numbers(Append(t, e)) = Numbers(t) + 1
           /\ e.type # "validation" => Numbers(Append(t, e)) = Numbers(t)
<1> DEFINE V(s) == {i \in DOMAIN s : s[i].type = "validation"}
           n == Len(t) + 1
<1>1. /\ DOMAIN Append(t, e) = DOMAIN t \cup {n} /\ n \notin DOMAIN t
      /\ Append(t, e)[n] = e /\ \A i \in DOMAIN t : Append(t, e)[i] = t[i]
  BY AppendedIs
<1> HIDE DEF n
<1>2. CASE e.type = "validation"
  <2>1. V(Append(t, e)) = V(t) \cup {n} /\ n \notin V(t)
    BY <1>1, <1>2
  <2>2. IsFiniteSet(V(t)) /\ Cardinality(V(t)) \in Nat
    BY Counted DEF Numbers
  <2> HIDE DEF V
  <2>3. Cardinality(V(t) \cup {n}) = Cardinality(V(t)) + 1
    BY <2>1, <2>2, FS_AddElement
  <2>4. QED
    BY <1>2, <2>1, <2>3 DEF Numbers, V
<1>3. CASE e.type # "validation"
  <2>1. V(Append(t, e)) = V(t)
    BY <1>1, <1>3
  <2>2. QED
    BY <1>3, <2>1 DEF Numbers
<1>4. QED
  BY <1>2, <1>3


-----------------------------------------------------------------------------
(* What each step does to the store *)

LEMMA NewEventIs ==
    ASSUME minted \in Nat,
           NEW type \in {"started", "validation", "query", "tool", "finished", "failed"}
    PROVE  \E e \in Event : NewEvent(type) = <<e>> /\ e.id = minted + 1 /\ e.type = type
<1> DEFINE e == [id |-> minted + 1, type |-> type, query |-> 0, real |-> 0]
<1>1. e \in Event /\ NewEvent(type) = <<e>> /\ e.id = minted + 1 /\ e.type = type
  BY DEF NewEvent, Event
<1>2. QED
  BY <1>1

LEMMA RecordIs ==
    ASSUME Traced, NEW e \in Event, e.id = minted + 1, Record(<<e>>), UNCHANGED replaced
    PROVE  Records(e)
<1>1. trace \o <<e>> = Append(trace, e) /\ Len(<<e>>) = 1
  BY AppendIsConcat DEF Traced
<1>2. QED
  BY <1>1 DEF Record, Records, Writes, Reads

LEMMA RecordNone ==
    ASSUME Traced, Record(<<>>), UNCHANGED replaced
    PROVE  Reads
<1>1. trace \o <<>> = trace /\ minted + Len(<<>>) = minted
  BY ConcatEmptySeq DEF Traced
<1>2. QED
  BY <1>1 DEF Record, Reads

LEMMA StartRunIs ==
    ASSUME Traced, NEW events,
           events = <<>> \/ \E e \in Event : events = <<e>> /\ e.id = minted + 1 /\ e.type = "tool",
           StartRun(events)
    PROVE  Reads \/ Begins \/ \E e \in Event : e.type = "tool" /\ Writes(e)
<1>1. CASE Stored(Run) /\ events = <<>>
  BY <1>1, RecordNone DEF StartRun
<1>2. CASE Stored(Run) /\ events # <<>>
  BY <1>2, RecordIs DEF StartRun, Records
<1>3. CASE ~Stored(Run)
  BY <1>3 DEF StartRun, Begins
<1>4. QED
  BY <1>1, <1>2, <1>3

LEMMA BeginIs ==
    ASSUME Traced, NEW k \in Ids, Begin(k) \/ \E approved \in BOOLEAN : Resume(k, approved)
    PROVE  Reads \/ Begins \/ \E e \in Event : e.type = "tool" /\ Writes(e)
<1>0. minted \in Nat
  BY DEF Traced
<1>1. CASE Begin(k)
  BY <1>1, StartRunIs DEF Begin
<1>2. CASE \E approved \in BOOLEAN : Resume(k, approved)
  <2>1. PICK approved \in BOOLEAN : Resume(k, approved)
    BY <1>2
  <2> DEFINE events == IF approved THEN NewEvent("tool") ELSE <<>>
  <2>2. events = <<>> \/ \E e \in Event : events = <<e>> /\ e.id = minted + 1 /\ e.type = "tool"
    BY <1>0, NewEventIs
  <2>3. StartRun(events)
    BY <2>1 DEF Resume
  <2> HIDE DEF events
  <2>4. QED
    BY <2>2, <2>3, StartRunIs
<1>3. QED
  BY <1>1, <1>2

(* A query gets the next number, and its event counts. *)
LEMMA StartQueryIs ==
    ASSUME Traced, NEW k \in Ids, StartQuery(k)
    PROVE  /\ asking' = Numbers(trace) + 1 /\ Numbers(trace) \in Nat
           /\ \E e \in Event : e.type = "validation" /\ Records(e)
<1> DEFINE e == [id |-> minted + 1, type |-> "validation", query |-> NextQueryId, real |-> 0]
<1>0. minted \in Nat
  BY DEF Traced
<1>1. NextQueryId = 1 + Numbers(trace) /\ Numbers(trace) \in Nat
  BY Counted DEF NextQueryId, Numbers, Traced
<1>2. asking' = Numbers(trace) + 1
  BY <1>1 DEF StartQuery
<1>3. e \in Event /\ e.id = minted + 1 /\ e.type = "validation"
  BY <1>0, <1>1 DEF Event
<1>4. Record(<<e>>) /\ UNCHANGED replaced
  BY DEF StartQuery, history
<1> HIDE DEF e
<1>5. QED
  BY <1>1, <1>2, <1>3, <1>4, RecordIs

LEMMA FinishQueryIs ==
    ASSUME Typed, Traced, NEW k \in Ids, NEW success \in BOOLEAN, FinishQuery(k, success)
    PROVE  IF success THEN \E e \in Event : /\ e.type = "query" /\ e.query = asking /\ e.real = queries
                                           /\ Records(e)
                      ELSE Reads
<1> DEFINE e == [id |-> minted + 1, type |-> "query", query |-> asking, real |-> queries]
<1>1. e \in Event /\ e.id = minted + 1 /\ e.type = "query" /\ e.query = asking /\ e.real = queries
  BY DEF Event, Typed, Traced
<1>2. Record(IF success THEN <<e>> ELSE <<>>) /\ UNCHANGED replaced
  BY DEF FinishQuery, history
<1> HIDE DEF e
<1>3. QED
  BY <1>1, <1>2, RecordIs, RecordNone

LEMMA EndIs ==
    ASSUME Traced, NEW k \in Ids, Captured(k) \/ \E how \in {"failed", "raised"} : Halt(k, how)
    PROVE  \E e \in Event : Terminal(e) /\ Records(e)
<1>1. PICK how \in {"completed", "failed", "raised"} : Record(EndEvent(how)) /\ UNCHANGED replaced
  BY DEF Captured, Halt, history
<1>2. PICK type \in {"finished", "failed"} : EndEvent(how) = NewEvent(type)
  BY DEF EndEvent
<1>3. PICK e \in Event : NewEvent(type) = <<e>> /\ e.id = minted + 1 /\ e.type = type
  BY NewEventIs DEF Traced
<1>4. QED
  BY <1>1, <1>2, <1>3, RecordIs DEF Terminal

LEMMA OthersRead ==
    ASSUME Traced, NEW k \in Ids,
           \/ RecordGoal(k) \/ Pause(k) \/ Clear(k) \/ (\E left \in SUBSET memories : ClearFails(k, left))
           \/ Reconcile(k) \/ Persist(k)
           \/ \E cited \in {{}} \cup {{c} : c \in ToSet(seen)} : Answer(k, cited)
    PROVE  Reads
<1>1. CASE Pause(k)
  <2>1. Record(<<>>) /\ UNCHANGED replaced
    BY <1>1 DEF Pause, history
  <2>2. QED
    BY <2>1, RecordNone
<1>2. CASE \E cited \in {{}} \cup {{c} : c \in ToSet(seen)} : Answer(k, cited)
  BY <1>2 DEF Answer, Reads, history
<1>3. CASE \/ RecordGoal(k) \/ Clear(k) \/ (\E left \in SUBSET memories : ClearFails(k, left))
           \/ Reconcile(k) \/ Persist(k)
  BY <1>3 DEF RecordGoal, Clear, ClearFails, Reconcile, Persist, Reads, store, history
<1>4. QED
  BY <1>1, <1>2, <1>3

LEMMA StoreOf ==
    ASSUME Typed, Traced, NEW k \in Ids, StepOf(k)
    PROVE  Reads \/ Begins \/ \E e \in Event : Writes(e)
<1>1. CASE Begin(k) \/ \E approved \in BOOLEAN : Resume(k, approved)
  BY <1>1, BeginIs
<1>2. CASE StartQuery(k)
  BY <1>2, StartQueryIs DEF Records
<1>3. CASE \E success \in BOOLEAN : FinishQuery(k, success)
  BY <1>3, FinishQueryIs DEF Records
<1>4. CASE Captured(k) \/ \E how \in {"failed", "raised"} : Halt(k, how)
  BY <1>4, EndIs DEF Records
<1>5. QED
  BY <1>1, <1>2, <1>3, <1>4, OthersRead DEF StepOf

-----------------------------------------------------------------------------
(* The store stays in order *)

LEMMA ContainsIs == ASSUME NEW s \in Seq(AllRuns), NEW r PROVE Contains(s, r) <=> Kept(s, r)
BY DEF Contains, Kept

LEMMA WritesTraced == ASSUME Traced, NEW e \in Event, Writes(e) PROVE Traced'
<1>1. Ordered /\ Stored(Run) /\ trace \in Seq(Event) /\ minted \in Nat
  BY DEF Traced, Writes
<1>2. Ordered' /\ Stored(Run)'
  BY <1>1, UsedIs, ContainsIs DEF Writes, Ordered, Stored, AllRuns
<1>3. /\ trace' \in Seq(Event) /\ trace' # <<>> /\ DOMAIN trace' = DOMAIN trace \cup {Len(trace) + 1}
      /\ DOMAIN trace = 1..Len(trace) /\ Len(trace) \in Nat
      /\ trace'[Len(trace) + 1] = e /\ \A i \in DOMAIN trace : trace'[i] = trace[i]
  BY <1>1, AppendedIs DEF Writes
<1>4. minted' = minted + 1 /\ e.id = minted + 1 /\ minted' \in Nat
  BY <1>1 DEF Writes
<1>5. \A i \in DOMAIN trace : trace[i].id <= minted /\ trace[i].id \in Nat
  <2>1. \A i \in DOMAIN trace : trace[i] \in Event
    BY <1>1, <1>3
  <2>2. QED
    BY <2>1 DEF Traced, Event
<1>6. \A i \in DOMAIN trace' : trace'[i].id <= minted'
  BY <1>1, <1>3, <1>4, <1>5
<1>7. ASSUME NEW i \in DOMAIN trace', NEW j \in DOMAIN trace', i < j
      PROVE  trace'[i].id < trace'[j].id
  <2>1. CASE j = Len(trace) + 1
    BY <1>1, <1>3, <1>4, <1>5, <1>7, <2>1
  <2>2. CASE j # Len(trace) + 1
    <3>1. i \in DOMAIN trace /\ j \in DOMAIN trace
      BY <1>3, <1>7, <2>2
    <3>2. QED
      BY <1>3, <1>7, <3>1 DEF Traced
  <2>3. QED
    BY <2>1, <2>2
<1>8. QED
  BY <1>2, <1>3, <1>4, <1>6, <1>7 DEF Traced

LEMMA ReadsTraced == ASSUME Traced, Reads PROVE Traced'
<1>1. Ordered' /\ (Stored(Run)' <=> Stored(Run))
  BY UsedIs, ContainsIs DEF Traced, Reads, Ordered, Stored, AllRuns
<1>2. QED
  BY <1>1 DEF Reads, Traced

LEMMA BeginsTraced == ASSUME Traced, Begins PROVE Traced'
<1>1. Ordered' /\ Stored(Run)'
  BY SavedIs, ContainsIs DEF Traced, Begins, Ordered, Stored, AllRuns
<1>2. PICK e \in Event : NewEvent("started") = <<e>> /\ e.id = minted + 1
  BY NewEventIs DEF Traced
<1>3. trace' = <<e>> /\ minted' = minted + 1 /\ minted \in Nat
  BY <1>2 DEF Begins, Traced
<1>4. QED
  BY <1>1, <1>2, <1>3 DEF Traced

LEMMA OtherRunTraced ==
    ASSUME Traced, NEW o \in OtherRuns, OtherRun(o)
    PROVE  /\ Traced' /\ (trace' = trace \/ trace' = <<>>) /\ UNCHANGED <<minted, replaced>>
<1>1. UNCHANGED <<minted, replaced>>
  BY DEF OtherRun, history
<1>2. o \in AllRuns /\ o # Run
  BY TraceAssumption DEF AllRuns
<1>3. Ordered' /\ (Kept(order', Run) => Stored(Run))
  BY <1>2, UsedIs, SavedIs DEF OtherRun, Traced, Ordered
<1>4. Stored(Run)' => Stored(Run)
  BY <1>3, ContainsIs DEF Stored, Ordered
<1>5. trace' = IF Stored(Run)' THEN trace ELSE <<>>
  BY DEF OtherRun, Stored
<1>6. CASE Stored(Run)'
  BY <1>1, <1>3, <1>4, <1>5, <1>6 DEF Traced
<1>7. CASE ~Stored(Run)'
  BY <1>1, <1>3, <1>5, <1>7 DEF Traced
<1>8. QED
  BY <1>1, <1>5, <1>6, <1>7

LEMMA RestartTraced == ASSUME Traced, Restart PROVE Traced'
<1>1. order' = <<>> /\ trace' = <<>> /\ UNCHANGED minted
  BY DEF Restart
<1>2. Ordered'
  BY <1>1, TraceAssumption DEF Ordered, IsInjective
<1>3. ~Stored(Run)'
  BY <1>1 DEF Stored, Contains
<1>4. QED
  BY <1>1, <1>2, <1>3 DEF Traced

LEMMA StepTraced == ASSUME Typed, Traced, [Next]_vars PROVE Traced'
<1>1. CASE Aside
  BY <1>1, ReadsTraced, OtherRunTraced DEF Aside
<1>2. CASE Restart
  BY <1>2, RestartTraced
<1>3. ASSUME NEW k \in Ids, StepOf(k) PROVE Traced'
  BY <1>3, StoreOf, ReadsTraced, BeginsTraced, WritesTraced
<1>4. QED
  BY <1>1, <1>2, <1>3, StepIs

-----------------------------------------------------------------------------
(* The coroutines *)

(* A busy segment goes on, or leaves the loop and may leave an approval    *)
(* behind; one that left unwinds; the approval's segment begins; all stop. *)
Stays == UNCHANGED <<pc, approval>>
GoesOn(k, w) == /\ pc[k] \in Busy /\ w \in Busy \ {"created"} /\ pc' = [pc EXCEPT ![k] = w]
                /\ UNCHANGED approval
Leaves(k) == /\ pc[k] \in Busy /\ pc' = [pc EXCEPT ![k] = "clearing"] /\ approval' \in {approval, k}
Unwinds(k, w) == /\ pc[k] \in {"clearing", "completing", "persisting"}
                 /\ w \in {"completing", "persisting", "done"}
                 /\ w = "completing" => pc[k] = "clearing"
                 /\ pc' = [pc EXCEPT ![k] = w] /\ UNCHANGED approval
TakesOver(k) == /\ k > 1 /\ approval = k - 1 /\ approval' = 0 /\ pc' = [pc EXCEPT ![k] = "begun"]
                /\ overlap' = (overlap \/ ~Unwound(k - 1))
Stops == /\ pc' = [k \in Ids |-> IF pc[k] \in {"off", "done"} THEN pc[k] ELSE "dead"]
         /\ UNCHANGED approval
Moves(k) == \/ (\E w \in Places : GoesOn(k, w) \/ Unwinds(k, w)) \/ Leaves(k)

LEMMA MovesIs ==
    ASSUME Typed, NEW k \in Ids, StepOf(k)
    PROVE  (Moves(k) /\ UNCHANGED overlap) \/ TakesOver(k)
<1>1. CASE \/ Begin(k) \/ RecordGoal(k) \/ StartQuery(k)
           \/ \E success \in BOOLEAN : FinishQuery(k, success)
           \/ \E cited \in {{}} \cup {{c} : c \in ToSet(seen)} : Answer(k, cited)
  <2>1. UNCHANGED overlap
    BY <1>1 DEF Begin, RecordGoal, StartQuery, FinishQuery, Answer, history
  <2>2. \E w \in Places : GoesOn(k, w)
    BY <1>1 DEF Begin, RecordGoal, StartQuery, FinishQuery, Answer, Goto, GoesOn, Busy, Places
  <2>3. QED
    BY <2>1, <2>2 DEF Moves
<1>2. CASE Captured(k) \/ Pause(k) \/ \E how \in {"failed", "raised"} : Halt(k, how)
  BY <1>2 DEF Captured, Pause, Halt, Goto, Leaves, Moves, Busy, history
<1>3. CASE Clear(k) \/ (\E left \in SUBSET memories : ClearFails(k, left))
  <2>1. UNCHANGED <<overlap, approval>> /\ pc[k] = "clearing" /\ Report(k)
    BY <1>3 DEF Clear, ClearFails, history
  <2>2. \E w \in Places : Unwinds(k, w)
    BY <2>1 DEF Report, Goto, Unwinds, Places
  <2>3. QED
    BY <2>1, <2>2 DEF Moves
<1>4. CASE Reconcile(k) \/ Persist(k)
  <2>1. UNCHANGED overlap
    BY <1>4 DEF Reconcile, Persist, history
  <2>2. \E w \in Places : Unwinds(k, w)
    BY <1>4 DEF Reconcile, Persist, Goto, Unwinds, Places
  <2>3. QED
    BY <2>1, <2>2 DEF Moves
<1>5. CASE \E approved \in BOOLEAN : Resume(k, approved)
  BY <1>5 DEF Resume, Goto, TakesOver
<1>6. QED
  BY <1>1, <1>2, <1>3, <1>4, <1>5 DEF StepOf

LEMMA StepTurn == ASSUME Typed, Turn, [Next]_vars PROVE Turn'
<1>0. pc \in [Ids -> Places] /\ approval \in 0..Segments /\ Ids = 1..Segments /\ Segments \in Nat
  BY TraceAssumption DEF Typed, Ids
<1>1. CASE Aside
  BY <1>1 DEF Aside, Core, Turn
<1>2. CASE Restart
  BY <1>0, <1>2 DEF Restart, Turn, Busy
<1>3. ASSUME NEW k \in Ids, NEW w \in Places, GoesOn(k, w) PROVE Turn'
  BY <1>0, <1>3 DEF GoesOn, Turn, Busy
<1>4. ASSUME NEW k \in Ids, NEW w \in Places, Unwinds(k, w) PROVE Turn'
  BY <1>0, <1>4 DEF Unwinds, Turn, Busy
<1>5. ASSUME NEW k \in Ids, Leaves(k) PROVE Turn'
  BY <1>0, <1>5 DEF Leaves, Turn, Busy
<1>6. ASSUME NEW k \in Ids, TakesOver(k) PROVE Turn'
  BY <1>0, <1>6 DEF TakesOver, Turn, Busy
<1>7. QED
  BY <1>1, <1>2, <1>3, <1>4, <1>5, <1>6, StepIs, MovesIs DEF Moves

LEMMA StepUnwinding == ASSUME Typed, Turn, Unwinding, [Next]_vars PROVE Unwinding'
<1>0. pc \in [Ids -> Places] /\ approval \in 0..Segments /\ Ids = 1..Segments /\ Segments \in Nat
  BY TraceAssumption DEF Typed, Ids
<1>1. CASE Aside
  BY <1>1 DEF Aside, Core, Unwinding, Unwound
<1>2. CASE Restart
  BY <1>0, <1>2 DEF Restart, Unwinding, Unwound, history
<1>3. ASSUME NEW k \in Ids, NEW w \in Places, GoesOn(k, w), UNCHANGED overlap PROVE Unwinding'
  BY <1>0, <1>3 DEF GoesOn, Turn, Unwinding, Unwound, Busy
<1>4. ASSUME NEW k \in Ids, NEW w \in Places, Unwinds(k, w), UNCHANGED overlap PROVE Unwinding'
  BY <1>0, <1>4 DEF Unwinds, Unwinding, Unwound
<1>5. ASSUME NEW k \in Ids, Leaves(k), UNCHANGED overlap PROVE Unwinding'
  BY <1>0, <1>5 DEF Leaves, Turn, Unwinding, Unwound, Busy
<1>6. ASSUME NEW k \in Ids, TakesOver(k) PROVE Unwinding'
  <2>1. SUFFICES ASSUME ~overlap' PROVE \A i, j \in Ids : (i < j /\ pc'[j] # "off") => Unwound(i)'
    BY DEF Unwinding
  <2>2. ~overlap /\ Unwound(k - 1) /\ \A j \in Ids : j > k - 1 => pc[j] = "off"
    <3>1. ~overlap /\ Unwound(k - 1)
      BY <1>6, <2>1, Zenon DEF TakesOver
    <3>2. approval = k - 1 /\ approval # 0
      BY <1>0, <1>6 DEF TakesOver
    <3>3. QED
      BY <3>1, <3>2 DEF Turn
  <2>3. \A i \in Ids : i < k => Unwound(i)
    BY <1>0, <2>2 DEF Unwinding, Unwound
  <2>4. QED
    BY <1>0, <1>6, <2>2, <2>3 DEF TakesOver, Unwinding, Unwound
<1>7. QED
  BY <1>1, <1>2, <1>3, <1>4, <1>5, <1>6, StepIs, MovesIs DEF Moves


LEMMA MovesTyped ==
    ASSUME Typed, NEW k \in Ids, Moves(k) \/ TakesOver(k)
    PROVE  pc' \in [Ids -> Places] /\ approval' \in 0..Segments
<1>1. pc \in [Ids -> Places] /\ approval \in 0..Segments /\ Ids = 1..Segments /\ Segments \in Nat
  BY TraceAssumption DEF Typed, Ids
<1>2. ASSUME NEW w \in Places, GoesOn(k, w) \/ Unwinds(k, w)
      PROVE  pc' \in [Ids -> Places] /\ approval' \in 0..Segments
  BY <1>1, <1>2 DEF GoesOn, Unwinds
<1>3. CASE Leaves(k)
  BY <1>1, <1>3 DEF Leaves, Places
<1>4. CASE TakesOver(k)
  BY <1>1, <1>4 DEF TakesOver, Places
<1>5. QED
  BY <1>2, <1>3, <1>4 DEF Moves

(* What the segments leave alone, and what they do to a query's number *)
LEMMA StepOfTyped ==
    ASSUME Typed, Traced, NEW k \in Ids, StepOf(k)
    PROVE  /\ scene' = scene /\ result' \in [Ids -> Endings] /\ memories' \subseteq Ids
           /\ seen' \in Seq([id : Nat, real : Nat]) /\ asking' \in Nat /\ queries' \in Nat
<1>0. /\ result \in [Ids -> Endings] /\ memories \subseteq Ids
      /\ seen \in Seq([id : Nat, real : Nat]) /\ asking \in Nat /\ queries \in Nat
  BY DEF Typed
<1>1. CASE Begin(k) \/ \E approved \in BOOLEAN : Resume(k, approved)
  BY <1>0, <1>1 DEF Begin, Resume, work
<1>2. CASE RecordGoal(k)
  BY <1>0, <1>2 DEF RecordGoal, work, history
<1>3. CASE StartQuery(k)
  <2>1. NextQueryId = 1 + Numbers(trace) /\ Numbers(trace) \in Nat
    BY Counted DEF NextQueryId, Numbers, Traced
  <2>2. QED
    BY <1>0, <1>3, <2>1 DEF StartQuery, history
<1>4. ASSUME NEW success \in BOOLEAN, FinishQuery(k, success)
      PROVE  /\ scene' = scene /\ result' \in [Ids -> Endings] /\ memories' \subseteq Ids
             /\ seen' \in Seq([id : Nat, real : Nat]) /\ asking' \in Nat /\ queries' \in Nat
  <2>1. [id |-> asking, real |-> queries] \in [id : Nat, real : Nat]
    BY <1>0
  <2>2. Append(seen, [id |-> asking, real |-> queries]) \in Seq([id : Nat, real : Nat])
    BY <1>0, <2>1
  <2>3. seen' \in Seq([id : Nat, real : Nat])
    BY <1>0, <1>4, <2>2 DEF FinishQuery
  <2>4. QED
    BY <1>0, <1>4, <2>3 DEF FinishQuery, history
<1>5. CASE \E cited \in {{}} \cup {{c} : c \in ToSet(seen)} : Answer(k, cited)
  BY <1>0, <1>5 DEF Answer, history
<1>6. CASE Captured(k) \/ Pause(k) \/ \E how \in {"failed", "raised"} : Halt(k, how)
  BY <1>0, <1>6 DEF Captured, Pause, Halt, End, Endings, work, history
<1>7. CASE Clear(k) \/ (\E left \in SUBSET memories : ClearFails(k, left))
  BY <1>0, <1>7 DEF Clear, ClearFails, work, history
<1>8. CASE Reconcile(k) \/ Persist(k)
  BY <1>0, <1>8 DEF Reconcile, Persist, work, history
<1>9. QED
  BY <1>1, <1>2, <1>3, <1>4, <1>5, <1>6, <1>7, <1>8 DEF StepOf

LEMMA StepTyped == ASSUME Typed, Traced, [Next]_vars PROVE Typed'
<1>1. faults' \in [FaultKinds -> Nat]
  BY FaultsGrow
<1>2. CASE Aside
  BY <1>1, <1>2 DEF Aside, Core, Typed
<1>3. CASE Restart
  BY <1>1, <1>3 DEF Restart, Typed, Places
<1>4. ASSUME NEW k \in Ids, StepOf(k) PROVE Typed'
  BY <1>1, <1>4, MovesIs, MovesTyped, StepOfTyped DEF Typed
<1>5. QED
  BY <1>2, <1>3, <1>4, StepIs

-----------------------------------------------------------------------------
(* Working memory *)

LEMMA StepRemembered == ASSUME Typed, Turn, Remembered, [Next]_vars PROVE Remembered'
<1>0. pc \in [Ids -> Places] /\ memories \subseteq Ids /\ "clear" \in FaultKinds /\ "restart" \in FaultKinds
  BY DEF Typed, FaultKinds
<1>1. \A g \in FaultKinds : Happened(g) => Happened(g)'
  BY FaultsGrow
<1>2. CASE Aside
  BY <1>0, <1>1, <1>2 DEF Aside, Core, Remembered
<1>3. CASE Restart
  <2>1. Happened("restart")'
    BY <1>0, <1>3, FaultIs DEF Restart, Happened
  <2>2. QED
    BY <2>1 DEF Remembered
<1>4. ASSUME NEW k \in Ids, StepOf(k) PROVE Remembered'
  <2>1. CASE Begin(k)
    BY <1>0, <1>1, <2>1 DEF Begin, Goto, Remembered
  <2>2. CASE RecordGoal(k)
    BY <1>0, <1>1, <2>2 DEF RecordGoal, Goto, Remembered
  <2>3. CASE StartQuery(k)
    BY <1>0, <1>1, <2>3 DEF StartQuery, Goto, Remembered
  <2>4. CASE \E success \in BOOLEAN : FinishQuery(k, success)
    BY <1>0, <1>1, <2>4 DEF FinishQuery, Goto, Remembered
  <2>5. CASE \E cited \in {{}} \cup {{c} : c \in ToSet(seen)} : Answer(k, cited)
    BY <1>0, <1>1, <2>5 DEF Answer, Goto, Remembered
  <2>6. CASE Captured(k) \/ Pause(k) \/ \E how \in {"failed", "raised"} : Halt(k, how)
    BY <1>0, <1>1, <2>6 DEF Captured, Pause, Halt, Goto, Remembered
  <2>7. CASE Clear(k)
    BY <2>7 DEF Clear, Remembered
  <2>8. CASE \E left \in SUBSET memories : ClearFails(k, left)
    <3>1. Happened("clear")'
      BY <1>0, <2>8, FaultIs DEF ClearFails, Happened
    <3>2. QED
      BY <3>1 DEF Remembered
  <2>9. CASE Reconcile(k) \/ Persist(k)
    BY <1>0, <1>1, <2>9 DEF Reconcile, Persist, Goto, Remembered
  <2>10. CASE \E approved \in BOOLEAN : Resume(k, approved)
    <3>1. PICK approved \in BOOLEAN : Resume(k, approved)
      BY <2>10
    <3>2. pc[k] = "off" /\ pc' = [pc EXCEPT ![k] = "begun"] /\ UNCHANGED memories
      <4>1. approval # 0 /\ k > approval
        BY <3>1 DEF Resume, Ids
      <4>2. QED
        BY <3>1, <4>1 DEF Resume, Goto, Turn
    <3>3. QED
      BY <1>0, <1>1, <3>2 DEF Remembered
  <2>11. QED
    BY <1>4, <2>1, <2>2, <2>3, <2>4, <2>5, <2>6, <2>7, <2>8, <2>9, <2>10 DEF StepOf
<1>5. QED
  BY <1>2, <1>3, <1>4, StepIs

(* A segment that clears has no later one in the loop, unless overtaken. *)
LEMMA StepGoal ==
    ASSUME Typed, Turn, Unwinding, GoalIsInContext, [Next]_vars
    PROVE  GoalIsInContext'
<1>0. pc \in [Ids -> Places] /\ memories \subseteq Ids /\ Ids = 1..Segments /\ Segments \in Nat
  BY TraceAssumption DEF Typed, Ids
<1>1. CASE Aside
  BY <1>1 DEF Aside, Core, GoalIsInContext
<1>2. CASE Restart
  BY <1>0, <1>2 DEF Restart, GoalIsInContext
<1>3. ASSUME NEW k \in Ids, StepOf(k) PROVE GoalIsInContext'
  <2>1. CASE \/ Begin(k) \/ StartQuery(k) \/ \E success \in BOOLEAN : FinishQuery(k, success)
             \/ \E cited \in {{}} \cup {{c} : c \in ToSet(seen)} : Answer(k, cited)
    BY <1>0, <2>1 DEF Begin, StartQuery, FinishQuery, Answer, Goto, GoalIsInContext, history
  <2>2. CASE RecordGoal(k)
    BY <1>0, <2>2 DEF RecordGoal, Goto, GoalIsInContext, history
  <2>3. CASE Captured(k) \/ Pause(k) \/ \E how \in {"failed", "raised"} : Halt(k, how)
    BY <1>0, <2>3 DEF Captured, Pause, Halt, Goto, GoalIsInContext, history
  <2>4. CASE Clear(k) \/ \E left \in SUBSET memories : ClearFails(k, left)
    <3>1. pc[k] = "clearing" /\ Report(k) /\ UNCHANGED overlap
      BY <2>4 DEF Clear, ClearFails, history
    <3>2. ASSUME ~overlap, NEW j \in Ids, j # k PROVE pc[j] \notin {"loop", "querying"}
      <4>1. CASE j > k
        <5>1. ~Unwound(k)
          BY <3>1 DEF Unwound
        <5>2. pc[j] = "off"
          BY <3>2, <4>1, <5>1 DEF Unwinding
        <5>3. QED
          BY <5>2
      <4>2. CASE j < k
        BY <3>1, <3>2, <4>2 DEF Turn, Busy
      <4>3. QED
        BY <1>0, <3>2, <4>1, <4>2
    <3>3. pc'[k] \notin {"loop", "querying"} /\ \A j \in Ids : j # k => pc'[j] = pc[j]
      BY <1>0, <3>1 DEF Report, Goto
    <3>4. QED
      BY <3>1, <3>2, <3>3 DEF GoalIsInContext
  <2>5. CASE Reconcile(k) \/ Persist(k)
    BY <1>0, <2>5 DEF Reconcile, Persist, Goto, GoalIsInContext, history
  <2>6. CASE \E approved \in BOOLEAN : Resume(k, approved)
    <3>1. PICK approved \in BOOLEAN : Resume(k, approved)
      BY <2>6
    <3>2. pc' = [pc EXCEPT ![k] = "begun"] /\ UNCHANGED memories /\ (overlap => overlap')
      BY <3>1, Zenon DEF Resume, Goto
    <3>3. QED
      BY <1>0, <3>2 DEF GoalIsInContext
  <2>7. QED
    BY <1>3, <2>1, <2>2, <2>3, <2>4, <2>5, <2>6 DEF StepOf
<1>4. QED
  BY <1>1, <1>2, <1>3, StepIs


-----------------------------------------------------------------------------
(* The story of the trace *)

LEMMA StepEarly == ASSUME Typed, Traced, Early, [Next]_vars PROVE Early'
<1>0. minted \in Nat /\ (Stored(Run) <=> trace # <<>>)
  BY DEF Traced
<1>1. CASE Aside
  <2>1. UNCHANGED minted /\ (trace' = trace \/ trace' = <<>>)
    BY <1>1, OtherRunTraced DEF Aside, Reads
  <2>2. QED
    BY <1>1, <2>1 DEF Aside, Core, Early
<1>2. CASE Restart
  BY <1>2 DEF Restart, Early
<1>3. ASSUME NEW k \in Ids, StepOf(k), minted' = 0 PROVE FALSE
  <2>1. Reads
    BY <1>0, <1>3, StoreOf DEF Begins, Writes
  <2>2. minted = 0
    BY <1>3, <2>1 DEF Reads
  <2>3. pc[k] \in {"created", "off", "dead"} /\ approval = 0 /\ ~Stored(Run)
    BY <1>0, <2>2 DEF Early
  <2>4. ~Begin(k)
    BY <1>3, <2>2, <2>3 DEF Begin, StartRun
  <2>5. \A approved \in BOOLEAN : ~Resume(k, approved)
    BY <2>3 DEF Resume, Ids
  <2>6. QED
    BY <1>3, <2>3, <2>4, <2>5 DEF StepOf, RecordGoal, StartQuery, FinishQuery, Answer, Captured,
          Pause, Halt, Clear, ClearFails, Reconcile, Persist
<1>4. QED
  BY <1>1, <1>2, <1>3, StepIs DEF Early

LEMMA StepEnds ==
    ASSUME Typed, Traced, Turn, Ended, EndsOnce, [Next]_vars
    PROVE  Ended' /\ EndsOnce'
<1>0. pc \in [Ids -> Places] /\ Ids = 1..Segments
  BY DEF Typed, Ids
<1>1. CASE Aside
  <2>1. trace' = trace \/ trace' = <<>>
    BY <1>1, OtherRunTraced DEF Aside, Reads
  <2>2. QED
    BY <1>1, <2>1 DEF Aside, Core, Ended, EndsOnce
<1>2. CASE Restart
  BY <1>2 DEF Restart, Ended, EndsOnce
<1>3. ASSUME NEW k \in Ids, StepOf(k), \E i \in DOMAIN trace : Terminal(trace[i])
      PROVE  Ended' /\ EndsOnce'
  <2>1. approval = 0 /\ \A j \in Ids : pc[j] \notin Busy
    BY <1>3 DEF Ended
  <2>2. Clear(k) \/ (\E left \in SUBSET memories : ClearFails(k, left)) \/ Reconcile(k) \/ Persist(k)
    BY <1>3, <2>1 DEF StepOf, Begin, RecordGoal, StartQuery, FinishQuery, Answer, Captured,
          Pause, Halt, Resume, Busy, Ids
  <2>3. trace' = trace
    BY <2>2, OthersRead DEF Reads
  <2>4. (\E w \in Places : Unwinds(k, w)) \/ Leaves(k) \/ TakesOver(k) \/ \E w \in Places : GoesOn(k, w)
    BY <1>3, MovesIs DEF Moves
  <2>5. \E w \in Places : Unwinds(k, w)
    BY <2>1, <2>4 DEF Leaves, TakesOver, GoesOn, Ids
  <2>6. approval' = 0 /\ \A j \in Ids : pc'[j] \notin Busy
    BY <1>0, <2>1, <2>5 DEF Unwinds, Busy
  <2>7. QED
    BY <2>3, <2>6 DEF Ended, EndsOnce
<1>4. ASSUME NEW k \in Ids, StepOf(k), \A i \in DOMAIN trace : ~Terminal(trace[i])
      PROVE  Ended' /\ EndsOnce'
  <2>1. CASE Reads
    BY <1>4, <2>1 DEF Reads, Ended, EndsOnce
  <2>2. CASE Begins
    <3>1. PICK e \in Event : trace' = <<e>> /\ e.type = "started"
      BY <2>2, NewEventIs DEF Begins, Traced
    <3>2. QED
      BY <3>1 DEF Ended, EndsOnce, Terminal
  <2>3. ASSUME NEW e \in Event, Writes(e) PROVE Ended' /\ EndsOnce'
    <3>1. /\ DOMAIN trace' = DOMAIN trace \cup {Len(trace) + 1} /\ Len(trace') = Len(trace) + 1
          /\ trace'[Len(trace) + 1] = e /\ \A i \in DOMAIN trace : trace'[i] = trace[i]
      BY <2>3, AppendedIs DEF Writes, Traced
    <3>2. EndsOnce'
      BY <1>4, <3>1 DEF EndsOnce
    <3>3. CASE ~Terminal(e)
      BY <1>4, <3>1, <3>2, <3>3 DEF Ended
    <3>4. CASE Captured(k) \/ \E how \in {"failed", "raised"} : Halt(k, how)
      <4>1. pc[k] \in Busy /\ pc' = [pc EXCEPT ![k] = "clearing"] /\ UNCHANGED approval
        BY <3>4 DEF Captured, Halt, Goto, Busy
      <4>2. approval' = 0 /\ \A j \in Ids : pc'[j] \notin Busy
        BY <1>0, <4>1, TraceAssumption DEF Turn, Busy
      <4>3. QED
        BY <3>2, <4>2 DEF Ended
    <3>5. CASE Terminal(e) /\ ~Captured(k) /\ \A how \in {"failed", "raised"} : ~Halt(k, how)
      <4>1. ASSUME NEW f \in Event, Writes(f) PROVE e = f
        <5>1. Append(trace, e)[Len(trace) + 1] = e /\ Append(trace, f)[Len(trace) + 1] = f
          BY AppendedIs DEF Traced
        <5>2. QED
          BY <2>3, <4>1, <5>1 DEF Writes
      <4>2. ~Reads /\ ~Begins
        <5>1. trace' # trace
          BY <3>1, AppendedIs DEF Traced
        <5>2. QED
          BY <2>3, <5>1 DEF Reads, Begins, Writes
      <4>3. ASSUME NEW f \in Event, Records(f) PROVE f = e
        BY <4>1, <4>2, <4>3 DEF Records
      <4>4. ~Begin(k) /\ \A approved \in BOOLEAN : ~Resume(k, approved)
        BY <3>5, <4>1, <4>2, BeginIs DEF Terminal
      <4>5. ~StartQuery(k)
        BY <3>5, <4>3, StartQueryIs DEF Terminal
      <4>6. \A success \in BOOLEAN : ~FinishQuery(k, success)
        BY <3>5, <4>2, <4>3, FinishQueryIs DEF Terminal
      <4>7. QED
        BY <1>4, <3>5, <4>2, <4>4, <4>5, <4>6, OthersRead DEF StepOf
    <3>6. QED
      BY <3>2, <3>3, <3>4, <3>5
  <2>4. QED
    BY <1>4, <2>1, <2>2, <2>3, StoreOf
<1>5. QED
  BY <1>1, <1>2, <1>3, <1>4, StepIs


-----------------------------------------------------------------------------
(* The evidence *)

(* A step that counts no query and ends none keeps the numbering. *)
LEMMA NumberingStays ==
    ASSUME Typed, Traced, Numbered, UNCHANGED <<seen, asking, replaced>>,
           \A k \in Ids : pc'[k] = "querying" => pc[k] = "querying",
           \/ trace' = trace \/ trace' = <<>>
           \/ \E e \in Event : e.type \notin {"validation", "query"} /\ Writes(e)
    PROVE  Numbered'
<1> SUFFICES ASSUME ~replaced', trace' # <<>>
             PROVE  CountedIds' /\ OneQueryPerId' /\ LedgerWasSeen' /\ AskingIsNew'
  BY DEF Numbered
<1>1. CASE trace' = trace
  BY <1>1 DEF Numbered, CountedIds, OneQueryPerId, LedgerWasSeen, AskingIsNew
<1>2. ASSUME NEW e \in Event, e.type \notin {"validation", "query"}, Writes(e)
      PROVE  CountedIds' /\ OneQueryPerId' /\ LedgerWasSeen' /\ AskingIsNew'
  <2>1. trace \in Seq(Event) /\ trace # <<>> /\ ~replaced
    BY <1>2 DEF Traced, Writes
  <2>2. trace' = Append(trace, e)
    BY <1>2 DEF Writes
  <2>3. Numbers(trace) \in Nat /\ Numbers(Append(trace, e)) = Numbers(trace)
    BY <1>2, <2>1, NumbersGrow, Counted
  <2>4. Numbers(trace') = Numbers(trace)
    BY <2>2, <2>3
  <2>5. /\ DOMAIN trace' = DOMAIN trace \cup {Len(trace) + 1}
        /\ trace'[Len(trace) + 1] = e /\ \A i \in DOMAIN trace : trace'[i] = trace[i]
    BY <2>1, <2>2, AppendedIs
  <2>6. CountedIds' /\ OneQueryPerId'
    BY <2>1, <2>4 DEF Numbered, CountedIds, OneQueryPerId
  <2>7. LedgerWasSeen'
    BY <1>2, <2>1, <2>5 DEF Numbered, LedgerWasSeen
  <2>8. AskingIsNew'
    BY <2>1, <2>4 DEF Numbered, AskingIsNew
  <2>9. QED
    BY <2>6, <2>7, <2>8
<1>3. QED
  BY <1>1, <1>2

(* Nobody else asks while a segment is busy. *)
LEMMA OneAsks ==
    ASSUME Typed, Turn, NEW k \in Ids, pc[k] \in Busy, NEW j \in Ids, j # k
    PROVE  pc[j] # "querying"
<1>1. Ids = 1..Segments /\ Segments \in Nat
  BY TraceAssumption DEF Ids
<1>2. QED
  BY <1>1 DEF Turn, Busy

LEMMA NumberedAnew == ASSUME Typed, Traced, Early, Begins, NEW k \in Ids, UNCHANGED seen,
                             pc' = [pc EXCEPT ![k] = "begun"]
                      PROVE  Numbered'
<1> SUFFICES ASSUME ~replaced'
             PROVE  CountedIds' /\ OneQueryPerId' /\ LedgerWasSeen' /\ AskingIsNew'
  BY DEF Numbered
<1>1. minted = 0
  <2>1. ~(minted > 0)
    BY Zenon DEF Begins
  <2>2. QED
    BY <2>1 DEF Traced
<1>2. seen' = <<>> /\ DOMAIN seen' = {} /\ \A j \in Ids : pc[j] \in {"created", "off", "dead"}
  BY <1>1 DEF Early
<1>3. PICK e \in Event : trace' = <<e>> /\ e.type = "started"
  BY NewEventIs DEF Begins, Traced
<1>4. \A j \in Ids : pc'[j] # "querying"
  BY <1>2 DEF Typed
<1>5. QED
  BY <1>2, <1>3, <1>4 DEF CountedIds, OneQueryPerId, LedgerWasSeen, AskingIsNew

LEMMA NumberedStart ==
    ASSUME Typed, Traced, Numbered, NEW k \in Ids, StartQuery(k)
    PROVE  Numbered'
<1> SUFFICES ASSUME ~replaced', trace' # <<>>
             PROVE  CountedIds' /\ OneQueryPerId' /\ LedgerWasSeen' /\ AskingIsNew'
  BY DEF Numbered
<1>1. asking' = Numbers(trace) + 1 /\ Numbers(trace) \in Nat /\ UNCHANGED seen
  BY StartQueryIs DEF StartQuery
<1>2. PICK e \in Event : e.type = "validation" /\ Records(e)
  BY StartQueryIs
<1>3. Writes(e) /\ trace # <<>> /\ ~replaced
  BY <1>2 DEF Records, Reads, Traced, Writes
<1>4. trace' = Append(trace, e) /\ trace \in Seq(Event)
  BY <1>3 DEF Writes, Traced
<1>5. Numbers(Append(trace, e)) = Numbers(trace) + 1
  BY <1>1, <1>2, <1>4, NumbersGrow
<1>6. Numbers(trace') = Numbers(trace) + 1
  BY <1>4, <1>5
<1>7. /\ DOMAIN trace' = DOMAIN trace \cup {Len(trace) + 1}
      /\ trace'[Len(trace) + 1] = e /\ \A i \in DOMAIN trace : trace'[i] = trace[i]
  BY <1>4, AppendedIs
<1>8. \A i \in DOMAIN seen : seen[i].id <= Numbers(trace) /\ seen[i].id \in Nat
  <2>1. \A i \in DOMAIN seen : seen[i] \in [id : Nat, real : Nat]
    <3>1. seen \in Seq([id : Nat, real : Nat])
      BY DEF Typed
    <3>2. seen \in [1..Len(seen) -> [id : Nat, real : Nat]]
      BY <3>1, LenProperties
    <3>3. QED
      BY <3>2
  <2>2. QED
    BY <1>3, <2>1 DEF Numbered, CountedIds
<1>9. CountedIds'
  BY <1>1, <1>6, <1>8 DEF CountedIds
<1>10. OneQueryPerId'
  BY <1>1, <1>3 DEF Numbered, OneQueryPerId
<1>11. LedgerWasSeen'
  BY <1>1, <1>2, <1>3, <1>7 DEF Numbered, LedgerWasSeen
<1>12. AskingIsNew'
  BY <1>1, <1>6, <1>8 DEF AskingIsNew
<1>13. QED
  BY <1>9, <1>10, <1>11, <1>12

LEMMA NumberedFinish ==
    ASSUME Typed, Traced, Turn, Numbered, NEW k \in Ids, FinishQuery(k, TRUE)
    PROVE  Numbered'
<1> SUFFICES ASSUME ~replaced', trace' # <<>>
             PROVE  CountedIds' /\ OneQueryPerId' /\ LedgerWasSeen' /\ AskingIsNew'
  BY DEF Numbered
<1> DEFINE new == [id |-> asking, real |-> queries]
           n == Len(seen) + 1
<1>1. pc[k] = "querying" /\ pc' = [pc EXCEPT ![k] = "loop"] /\ seen' = Append(seen, new)
  BY DEF FinishQuery, Goto
<1>2. PICK e \in Event : e.type = "query" /\ e.query = asking /\ e.real = queries /\ Records(e)
  BY FinishQueryIs
<1>3. Writes(e) /\ trace # <<>> /\ ~replaced
  BY <1>2 DEF Records, Reads, Traced, Writes
<1>4. trace' = Append(trace, e) /\ trace \in Seq(Event)
  BY <1>3 DEF Writes, Traced
<1>5. Numbers(Append(trace, e)) = Numbers(trace) /\ Numbers(trace) \in Nat
  BY <1>2, <1>4, NumbersGrow, Counted
<1>6. Numbers(trace') = Numbers(trace)
  BY <1>4, <1>5
<1>7. /\ DOMAIN trace' = DOMAIN trace \cup {Len(trace) + 1}
      /\ trace'[Len(trace) + 1] = e /\ \A i \in DOMAIN trace : trace'[i] = trace[i]
  BY <1>4, AppendedIs
<1>8. new \in [id : Nat, real : Nat] /\ new.id = asking /\ new.real = queries
  BY DEF Typed
<1> HIDE DEF new
<1>9. /\ DOMAIN seen' = DOMAIN seen \cup {n} /\ seen'[n] = new
      /\ \A i \in DOMAIN seen : seen'[i] = seen[i]
  BY <1>1, <1>8, AppendedIs DEF Typed
<1> HIDE DEF n
<1>10. asking <= Numbers(trace) /\ \A j \in DOMAIN seen : seen[j].id # asking
  BY <1>1, <1>3 DEF Numbered, AskingIsNew
<1>11. CountedIds'
  BY <1>3, <1>6, <1>8, <1>9, <1>10 DEF Numbered, CountedIds
<1>12. OneQueryPerId'
  BY <1>3, <1>8, <1>9, <1>10 DEF Numbered, OneQueryPerId
<1>13. LedgerWasSeen'
  <2>1. ASSUME NEW i \in DOMAIN trace, trace[i].type = "query"
        PROVE  \E j \in DOMAIN seen' : seen'[j].id = trace[i].query /\ seen'[j].real = trace[i].real
    <3>1. PICK j \in DOMAIN seen : seen[j].id = trace[i].query /\ seen[j].real = trace[i].real
      BY <1>3, <2>1 DEF Numbered, LedgerWasSeen
    <3>2. QED
      BY <1>9, <3>1
  <2>2. \E j \in DOMAIN seen' : seen'[j].id = e.query /\ seen'[j].real = e.real
    BY <1>2, <1>8, <1>9
  <2>3. QED
    BY <1>7, <2>1, <2>2 DEF LedgerWasSeen
<1>14. \A j \in Ids : pc'[j] # "querying"
  BY <1>1, OneAsks DEF Typed, Busy
<1>15. QED
  BY <1>11, <1>12, <1>13, <1>14 DEF AskingIsNew

LEMMA StepNumbered ==
    ASSUME Typed, Traced, Turn, Early, Numbered, [Next]_vars
    PROVE  Numbered'
<1>0. pc \in [Ids -> Places]
  BY DEF Typed
<1>1. CASE Aside
  <2>1. (trace' = trace \/ trace' = <<>>) /\ UNCHANGED <<seen, asking, replaced, pc>>
    BY <1>1, OtherRunTraced DEF Aside, Core, Reads
  <2>2. QED
    BY <2>1, NumberingStays
<1>2. CASE Restart
  BY <1>2 DEF Restart, Numbered
<1>3. ASSUME NEW k \in Ids, Begin(k) \/ \E approved \in BOOLEAN : Resume(k, approved)
      PROVE  Numbered'
  <2>1. pc' = [pc EXCEPT ![k] = "begun"] /\ UNCHANGED <<seen, asking>>
    BY <1>3 DEF Begin, Resume, Goto, work
  <2>2. \A j \in Ids : pc'[j] = "querying" => pc[j] = "querying"
    BY <1>0, <2>1
  <2>3. Reads \/ Begins \/ \E e \in Event : e.type = "tool" /\ Writes(e)
    BY <1>3, BeginIs
  <2>4. CASE Begins
    BY <2>1, <2>4, NumberedAnew
  <2>5. QED
    BY <2>1, <2>2, <2>3, <2>4, NumberingStays DEF Reads, Writes
<1>4. ASSUME NEW k \in Ids, StartQuery(k) PROVE Numbered'
  BY <1>4, NumberedStart
<1>5. ASSUME NEW k \in Ids, FinishQuery(k, TRUE) PROVE Numbered'
  BY <1>5, NumberedFinish
<1>6. ASSUME NEW k \in Ids, FinishQuery(k, FALSE) PROVE Numbered'
  <2>1. UNCHANGED <<trace, replaced, seen>>
    BY <1>6, FinishQueryIs DEF Reads, FinishQuery
  <2>2. \A j \in Ids : pc'[j] # "querying"
    BY <1>0, <1>6, OneAsks DEF FinishQuery, Goto, Busy
  <2>3. QED
    BY <2>1, <2>2 DEF Numbered, CountedIds, OneQueryPerId, LedgerWasSeen, AskingIsNew
<1>7. ASSUME NEW k \in Ids, Captured(k) \/ \E how \in {"failed", "raised"} : Halt(k, how)
      PROVE  Numbered'
  <2>1. \A j \in Ids : pc'[j] = "querying" => pc[j] = "querying"
    BY <1>0, <1>7 DEF Captured, Halt, Goto
  <2>2. UNCHANGED <<seen, asking, replaced>>
    BY <1>7 DEF Captured, Halt, work, history
  <2>3. PICK e \in Event : Terminal(e) /\ Records(e)
    BY <1>7, EndIs
  <2>4. QED
    BY <2>1, <2>2, <2>3, NumberingStays DEF Records, Reads, Terminal
<1>8. ASSUME NEW k \in Ids,
             \/ RecordGoal(k) \/ Pause(k) \/ Clear(k) \/ (\E left \in SUBSET memories : ClearFails(k, left))
             \/ Reconcile(k) \/ Persist(k)
             \/ \E cited \in {{}} \cup {{c} : c \in ToSet(seen)} : Answer(k, cited)
      PROVE  Numbered'
  <2>1. UNCHANGED <<trace, replaced>>
    BY <1>8, OthersRead DEF Reads
  <2>2. UNCHANGED <<seen, asking>>
    BY <1>8 DEF RecordGoal, Pause, Clear, ClearFails, Reconcile, Persist, Answer, work
  <2>3. \A j \in Ids : pc'[j] = "querying" => pc[j] = "querying"
    BY <1>0, <1>8 DEF RecordGoal, Pause, Clear, ClearFails, Report, Reconcile, Persist, Answer, Goto
  <2>4. QED
    BY <2>1, <2>2, <2>3, NumberingStays
<1>9. QED
  BY <1>1, <1>2, <1>3, <1>4, <1>5, <1>6, <1>7, <1>8, StepIs DEF StepOf

(* The ledger has nothing but what the model saw under the same id. *)
LEMMA AnswerIsMeant ==
    ASSUME Typed, Numbered, ~replaced, NEW cited \in {{}} \cup {{c} : c \in ToSet(seen)},
           NEW s \in Resolved(cited)
    PROVE  s.shown = s.meant
<1>1. PICK c \in cited : \E i \in DOMAIN trace : Cited(c, i) /\ s.meant = c.real /\ s.shown = trace[i].real
  BY DEF Resolved
<1>2. PICK i \in DOMAIN trace : Cited(c, i) /\ s.meant = c.real /\ s.shown = trace[i].real
  BY <1>1
<1>3. PICK m \in DOMAIN seen : c = seen[m]
  BY DEF ToSet
<1>4. trace[i].type = "query" /\ trace[i].query = c.id /\ trace # <<>>
  BY <1>2 DEF Cited, InLedger
<1>5. PICK j \in DOMAIN seen : seen[j].id = trace[i].query /\ seen[j].real = trace[i].real
  BY <1>4 DEF Numbered, LedgerWasSeen
<1>6. seen[j].real = seen[m].real
  BY <1>3, <1>4, <1>5 DEF Numbered, OneQueryPerId
<1>7. QED
  BY <1>2, <1>3, <1>5, <1>6

LEMMA StepEvidence ==
    ASSUME Typed, Traced, Early, Numbered, EvidenceIsMeant, [Next]_vars
    PROVE  EvidenceIsMeant'
<1>1. CASE UNCHANGED answer /\ UNCHANGED replaced
  BY <1>1 DEF EvidenceIsMeant
<1>2. CASE UNCHANGED answer /\ Begins
  <2>1. CASE minted = 0
    BY <1>2, <2>1 DEF Early, EvidenceIsMeant
  <2>2. CASE minted # 0
    <3>1. minted > 0
      BY <2>2 DEF Traced
    <3>2. replaced'
      BY <1>2, <3>1, Zenon DEF Begins
    <3>3. QED
      BY <3>2 DEF EvidenceIsMeant
  <2>3. QED
    BY <2>1, <2>2
<1>3. ASSUME NEW k \in Ids, NEW cited \in {{}} \cup {{c} : c \in ToSet(seen)}, Answer(k, cited)
      PROVE  EvidenceIsMeant'
  BY <1>3, AnswerIsMeant DEF Answer, EvidenceIsMeant, history
<1>4. CASE Aside
  BY <1>1, <1>4, OtherRunTraced DEF Aside, Core
<1>5. CASE Restart
  BY <1>1, <1>5 DEF Restart
<1>6. ASSUME NEW k \in Ids, StepOf(k),
             \A cited \in {{}} \cup {{c} : c \in ToSet(seen)} : ~Answer(k, cited)
      PROVE  EvidenceIsMeant'
  <2>1. UNCHANGED answer
    BY <1>6 DEF StepOf, Begin, RecordGoal, StartQuery, FinishQuery, Captured, Pause, Halt, Clear,
          ClearFails, Reconcile, Persist, Resume, work
  <2>2. UNCHANGED replaced \/ Begins
    BY <1>6, StoreOf DEF Reads, Writes
  <2>3. QED
    BY <1>1, <1>2, <2>1, <2>2
<1>7. QED
  BY <1>3, <1>4, <1>5, <1>6, StepIs

-----------------------------------------------------------------------------
(* The theorems *)

LEMMA InitRunInv == Init => RunInv
<1> SUFFICES ASSUME Init PROVE RunInv
  OBVIOUS
<1>0. Ids = 1..Segments /\ Segments \in Nat \ {0} /\ MaxTraces \in Nat
  BY TraceAssumption DEF Ids
<1>1. Typed
  BY <1>0 DEF Init, Typed, Places, Endings, FaultKinds
<1>2. Traced
  BY <1>0 DEF Init, Traced, Ordered, IsInjective, Stored, Contains
<1>3. Turn /\ Unwinding /\ Remembered /\ Early /\ Numbered /\ Ended
  BY <1>0 DEF Init, Turn, Unwinding, Unwound, Remembered, Early, Numbered, Ended, Busy
<1>4. EvidenceIsMeant /\ GoalIsInContext /\ EndsOnce
  BY <1>0 DEF Init, EvidenceIsMeant, GoalIsInContext, EndsOnce
<1>5. QED
  BY <1>1, <1>2, <1>3, <1>4 DEF RunInv

LEMMA NextRunInv == RunInv /\ [Next]_vars => RunInv'
BY StepTyped, StepTraced, StepTurn, StepUnwinding, StepRemembered, StepEarly, StepNumbered, StepEnds,
   StepEvidence, StepGoal DEF RunInv

LEMMA RunInvariant == Spec => []RunInv
BY InitRunInv, NextRunInv, PTL DEF Spec

(* RunKeepsItsOwn, for every number of segments, queries, stored traces    *)
(* and other runs: the sources shown with an answer are the queries the    *)
(* model meant (tools/execution/observers.py, observability/evidence.py),  *)
(* and the goal is in a segment's working memory while it is in the loop   *)
(* and goes with the run (runtime/steps/memory_step.py).                   *)
THEOREM RunAlwaysKeepsItsOwn == Spec => []RunKeepsItsOwn
<1>1. RunInv => RunKeepsItsOwn
  <2>1. ASSUME RunInv, \A k \in Ids : pc[k] \in {"off", "done"},
               ~Happened("clear"), ~Happened("restart")
        PROVE  memories = {}
    <3>1. \A k \in memories : k \in Ids
      BY <2>1 DEF RunInv, Typed
    <3>2. QED
      BY <2>1, <3>1 DEF RunInv, Remembered
  <2>2. QED
    BY <2>1 DEF RunInv, RunKeepsItsOwn, LeaksAreFaults
<1>2. QED
  BY <1>1, RunInvariant, PTL


-----------------------------------------------------------------------------
(* The client *)

Connections == {"connecting", "open", "refused", "closed"}
ClientTyped ==
    /\ managed \in Managed \cup {Gone} /\ db \in Statuses
    /\ conn \in Connections /\ cut \in BOOLEAN /\ bench \in Bench

(* A segment that left the loop knows how it ended. *)
Resulted ==
    \A k \in Ids : pc[k] \in {"clearing", "completing", "persisting", "done"} => result[k] # "none"

(* A record is gone, and a connection broken, only after a fault; a record *)
(* that is finished tells how.                                             *)
Known ==
    /\ managed = Gone => Happened("restart")
    /\ managed # Gone /\ managed.finished => managed.status # "running"
    /\ cut => Happened("drop") \/ Happened("restart")

(* The Workbench looks for an end, or shows a pause, only when there is    *)
(* one to find or something went wrong.                                    *)
Excused == bench.terminal \/ Happened("drop") \/ Happened("restart")
Over == Excused \/ (managed # Gone /\ managed.finished)
Settling == bench.mode = "settling" \/ bench.shown = "waiting" => Over

ClientInv == ClientTyped /\ Resulted /\ Known /\ Settling /\ GivesUpAfterFault

(* What a step does to the Workbench: nothing, an end is heard of or       *)
(* looked for, the record is asked, or asking fails.                       *)
Hears == bench' = [bench EXCEPT !.terminal = TRUE, !.shown = "failed"]
Finds == bench' = [bench EXCEPT !.mode = "idle", !.shown = Shown]
Waits == \/ bench' = [bench EXCEPT !.polls = @ + 1]
         \/ bench' = [bench EXCEPT !.mode = "watching"]
Looks == \/ bench' = Settle([bench EXCEPT !.terminal = TRUE])
         \/ bench' = Settle(bench) /\ Over
         \/ bench' = [Settle([bench EXCEPT !.settled = FALSE]) EXCEPT !.shown = "none"] /\ Over

LEMMA SettleIs ==
    ASSUME NEW b \in Bench
    PROVE  /\ Settle(b) \in Bench /\ Settle(b).terminal = b.terminal /\ Settle(b).shown = b.shown
           /\ Settle(b).mode \in {b.mode, "settling"}
<1> DEFINE c == [b EXCEPT !.mode = "settling", !.settled = TRUE, !.polls = 0]
<1>1. c \in Bench /\ c.terminal = b.terminal /\ c.shown = b.shown /\ c.mode = "settling"
  BY DEF Bench
<1>2. Settle(b) = b \/ Settle(b) = c
  BY DEF Settle
<1> HIDE DEF c
<1>3. QED
  BY <1>1, <1>2

LEMMA OutcomeIs ==
    ASSUME Typed, Resulted, NEW k \in Ids, pc[k] \in {"clearing", "completing", "persisting"}
    PROVE  Outcome(k) \in Managed /\ Outcome(k).finished /\ Outcome(k).status # "running"
<1>1. result[k] \in Endings \ {"none"}
  BY DEF Typed, Resulted
<1> DEFINE status == IF result[k] = "raised" THEN "failed" ELSE result[k]
           answered == result[k] = "completed"
<1>2. status \in Statuses \ {"running"}
  BY <1>1 DEF Endings, Statuses
<1>3. answered \in BOOLEAN
  OBVIOUS
<1>4. Outcome(k) = [status |-> status, answered |-> answered, finished |-> TRUE]
  BY DEF Outcome
<1> HIDE DEF status, answered
<1>5. QED
  BY <1>2, <1>3, <1>4 DEF Managed

LEMMA StepResulted == ASSUME Typed, Resulted, [Next]_vars PROVE Resulted'
<1>0. pc \in [Ids -> Places] /\ result \in [Ids -> Endings]
  BY DEF Typed
<1>1. CASE Aside
  BY <1>1 DEF Aside, Core, Resulted
<1>2. CASE Restart
  BY <1>0, <1>2 DEF Restart, Resulted
<1>3. ASSUME NEW k \in Ids, StepOf(k) PROVE Resulted'
  <2>1. CASE \/ Begin(k) \/ RecordGoal(k) \/ StartQuery(k)
             \/ \E success \in BOOLEAN : FinishQuery(k, success)
             \/ \E cited \in {{}} \cup {{c} : c \in ToSet(seen)} : Answer(k, cited)
             \/ \E approved \in BOOLEAN : Resume(k, approved)
    BY <1>0, <2>1 DEF Begin, RecordGoal, StartQuery, FinishQuery, Answer, Resume, Goto, Resulted
  <2>2. CASE Captured(k) \/ Pause(k) \/ \E how \in {"failed", "raised"} : Halt(k, how)
    BY <1>0, <2>2 DEF Captured, Pause, Halt, Goto, End, Resulted
  <2>3. CASE Clear(k) \/ (\E left \in SUBSET memories : ClearFails(k, left))
    BY <1>0, <2>3 DEF Clear, ClearFails, Report, Goto, Resulted
  <2>4. CASE Reconcile(k) \/ Persist(k)
    BY <1>0, <2>4 DEF Reconcile, Persist, Goto, Resulted
  <2>5. QED
    BY <1>3, <2>1, <2>2, <2>3, <2>4 DEF StepOf
<1>4. QED
  BY <1>1, <1>2, <1>3, StepIs

(* What the run's own steps do to what its client is told *)
LEMMA RunTells ==
    ASSUME Typed, Resulted, ClientTyped, NEW k \in Ids, StepOf(k)
    PROVE  /\ UNCHANGED <<bench, conn, cut>> /\ db' \in Statuses
           /\ UNCHANGED managed \/ (managed' \in Managed /\ managed'.finished
                                    /\ managed'.status # "running")
<1>1. CASE \/ Begin(k) \/ RecordGoal(k) \/ StartQuery(k)
           \/ \E success \in BOOLEAN : FinishQuery(k, success)
           \/ \E cited \in {{}} \cup {{c} : c \in ToSet(seen)} : Answer(k, cited)
           \/ \E approved \in BOOLEAN : Resume(k, approved)
           \/ Captured(k) \/ Pause(k) \/ \E how \in {"failed", "raised"} : Halt(k, how)
  BY <1>1 DEF Begin, RecordGoal, StartQuery, FinishQuery, Answer, Resume, Captured, Pause, Halt,
              client, stream, ClientTyped
<1>2. CASE Clear(k) \/ (\E left \in SUBSET memories : ClearFails(k, left))
  <2>1. UNCHANGED <<bench, conn, cut, db>> /\ pc[k] = "clearing" /\ Report(k)
    BY <1>2 DEF Clear, ClearFails, client, stream
  <2>2. UNCHANGED managed \/ managed' = Outcome(k)
    BY <2>1 DEF Report
  <2>3. QED
    BY <2>1, <2>2, OutcomeIs DEF ClientTyped
<1>3. CASE Reconcile(k)
  <2>1. UNCHANGED <<bench, conn, cut, db>> /\ pc[k] = "completing"
    BY <1>3 DEF Reconcile, client, stream
  <2>2. UNCHANGED managed \/ managed' = Outcome(k)
    BY <1>3 DEF Reconcile
  <2>3. QED
    BY <2>1, <2>2, OutcomeIs DEF ClientTyped
<1>4. CASE Persist(k)
  <2>1. UNCHANGED <<bench, conn, cut, managed>> /\ pc[k] = "persisting" /\ db' = Outcome(k).status
    BY <1>4 DEF Persist, client, stream
  <2>2. QED
    BY <2>1, OutcomeIs DEF Managed
<1>5. QED
  BY <1>1, <1>2, <1>3, <1>4 DEF StepOf

(* What the stream's and the Workbench's own steps do *)
LEMMA ClientMoves ==
    ASSUME Typed, ClientTyped, Known, Settling, [Next]_vars, ~Restart, \A k \in Ids : ~StepOf(k)
    PROVE  /\ UNCHANGED <<managed, db>>
           /\ conn' \in Connections /\ cut' \in BOOLEAN
           /\ cut' => cut \/ Happened("drop")'
           /\ UNCHANGED bench \/ Hears \/ Waits \/ Looks \/ (Finds /\ bench.mode = "settling")
<1>0. conn \in Connections /\ cut \in BOOLEAN
  BY DEF ClientTyped
<1>1. CASE UNCHANGED vars \/ \E o \in scene.others : OtherRun(o)
  BY <1>0, <1>1 DEF vars, OtherRun, run, client, stream
<1>2. CASE GenRead \/ GenSleeps \/ Connect
  <2>1. UNCHANGED <<managed, db, bench>> /\ cut' \in {cut, FALSE} /\ conn' \in {conn, "open"}
    <3>1. CASE GenRead \/ GenSleeps
      BY <3>1 DEF GenRead, GenSleeps, run, client
    <3>2. CASE Connect
      BY <3>2 DEF Connect, run
    <3>3. QED
      BY <1>2, <3>1, <3>2
  <2>2. conn' \in Connections
    BY <1>0, <2>1 DEF Connections
  <2>3. cut' \in BOOLEAN /\ (cut' => cut)
    <3>1. CASE cut' = cut
      BY <1>0, <3>1
    <3>2. CASE cut' = FALSE
      BY <3>2
    <3>3. QED
      BY <2>1, <3>1, <3>2
  <2>4. QED
    BY <2>1, <2>2, <2>3
<1>3. CASE GenYield
  <2>1. UNCHANGED <<managed, db, cut>>
    BY <1>3 DEF GenYield, run
  <2>2. UNCHANGED client \/ OnStatus(Last(gen.todo))
    BY <1>3 DEF GenYield
  <2>3. CASE UNCHANGED client
    BY <1>0, <2>1, <2>3 DEF client
  <2>4. CASE OnStatus(Last(gen.todo))
    <3>1. \/ UNCHANGED <<bench, conn>>
          \/ bench' = Settle([bench EXCEPT !.terminal = TRUE]) /\ UNCHANGED conn
          \/ Hears /\ conn' = "closed"
      BY <2>4 DEF OnStatus, Hears
    <3>2. QED
      BY <1>0, <2>1, <3>1 DEF Looks, Connections
  <2>5. QED
    BY <2>2, <2>3, <2>4
<1>4. CASE GenEnds
  <2>1. UNCHANGED <<managed, db, cut>>
    BY <1>4 DEF GenEnds, run
  <2>2. UNCHANGED <<bench, conn>> \/ (managed.finished /\ OnError("connecting"))
    BY <1>4 DEF GenEnds
  <2>3. CASE managed.finished /\ OnError("connecting")
    <3>1. Over
      BY <2>3 DEF Over, Excused, Known
    <3>2. QED
      BY <1>0, <2>1, <2>3, <3>1 DEF OnError, Looks, Connections
  <2>4. QED
    BY <1>0, <2>1, <2>2, <2>3
<1>5. CASE NoticeDrop
  <2>1. UNCHANGED <<managed, db>> /\ cut /\ cut' = FALSE
    BY <1>5 DEF NoticeDrop, run
  <2>2. Over
    BY <2>1 DEF Over, Excused, Known
  <2>3. UNCHANGED <<bench, conn>> \/ OnError("connecting")
    BY <1>5 DEF NoticeDrop
  <2>4. QED
    BY <1>0, <2>1, <2>2, <2>3 DEF OnError, Looks, Connections
<1>6. CASE Refused
  <2>1. UNCHANGED <<managed, db, cut>> /\ managed = Gone /\ OnError("refused")
    BY <1>6 DEF Refused, run, stream
  <2>2. Over
    BY <2>1 DEF Over, Excused, Known
  <2>3. QED
    BY <1>0, <2>1, <2>2 DEF OnError, Looks, Connections
<1>7. CASE Poll
  <2>1. UNCHANGED <<managed, db, cut>> /\ bench.mode = "settling"
    BY <1>7 DEF Poll, run, stream
  <2>2. (Finds /\ conn' = "closed") \/ (Waits /\ UNCHANGED conn)
    BY <1>7 DEF Poll, Finds, Waits
  <2>3. QED
    BY <1>0, <2>1, <2>2 DEF Connections
<1>8. CASE PollFails
  BY <1>0, <1>8 DEF PollFails, Waits, run, stream
<1>9. ASSUME NEW k \in Ids, SettleResumed(k)
      PROVE  /\ UNCHANGED <<managed, db, conn, cut>> /\ Looks
  <2>1. UNCHANGED <<managed, db, conn, cut>> /\ bench.shown = "waiting"
        /\ bench' = [Settle([bench EXCEPT !.settled = FALSE]) EXCEPT !.shown = "none"]
    BY <1>9 DEF SettleResumed, run, stream
  <2>2. QED
    BY <2>1 DEF Looks, Settling
<1>10. ASSUME Cut \/ \E n \in 0..Len(gen.todo) : GenDrops(n)
       PROVE  UNCHANGED <<managed, db, conn, bench>> /\ cut' = TRUE /\ Happened("drop")'
  <2>1. UNCHANGED <<managed, db, conn, bench>> /\ cut' = TRUE /\ Fault("drop")
    BY <1>10 DEF Cut, GenDrops, run, client
  <2>2. QED
    BY <2>1, FaultIs DEF Happened, FaultKinds
<1>11. QED
  <2>1. ~(\E k \in Ids : Segment(k)) /\ ~(\E k \in Ids, approved \in BOOLEAN : Resume(k, approved))
    BY DEF StepOf, Segment
  <2>2. \/ UNCHANGED vars \/ GenRead \/ GenYield \/ GenEnds \/ GenSleeps
        \/ Connect \/ Refused \/ NoticeDrop \/ Poll
        \/ (\E o \in scene.others : OtherRun(o))
        \/ (\E n \in 0..Len(gen.todo) : GenDrops(n))
        \/ Cut \/ PollFails \/ \E k \in Ids : SettleResumed(k)
    BY <2>1 DEF Next, Generator, Workbench
  <2>3. QED
    BY <1>0, <1>1, <1>2, <1>3, <1>4, <1>5, <1>6, <1>7, <1>8, <1>9, <1>10, <2>2


LEMMA ShownIs ==
    ASSUME Typed, ClientTyped
    PROVE  /\ Shown \in {"answer", "waiting", "failed", "gaveup"}
           /\ Shown = "gaveup" => RunStatus = "running"
<1>1. RunStatus \in Statuses
  BY DEF ClientTyped, RunStatus, Managed
<1>2. QED
  BY <1>1 DEF Shown, Statuses

LEMMA BenchMoves ==
    ASSUME Typed, ClientTyped, Known, Settling, GivesUpAfterFault, [Next]_vars,
           UNCHANGED bench \/ Hears \/ Waits \/ Looks \/ (Finds /\ bench.mode = "settling")
    PROVE  /\ bench' \in Bench
           /\ Excused => Excused'
           /\ bench'.mode = "settling" \/ bench'.shown = "waiting" => Over \/ Excused'
           /\ bench'.shown = "gaveup" => Excused'
<1>0. bench \in Bench /\ \A g \in FaultKinds : Happened(g) => Happened(g)'
  BY FaultsGrow DEF ClientTyped
<1>1. Happened("drop") \/ Happened("restart") => Happened("drop")' \/ Happened("restart")'
  BY <1>0 DEF FaultKinds
<1>2. CASE UNCHANGED bench
  BY <1>0, <1>1, <1>2 DEF Excused, Settling, GivesUpAfterFault
<1>3. CASE Hears
  <2>1. bench' \in Bench /\ bench'.terminal
    BY <1>0, <1>3 DEF Hears, Bench
  <2>2. QED
    BY <2>1 DEF Excused
<1>4. CASE Waits
  <2>1. /\ bench' \in Bench /\ bench'.terminal = bench.terminal /\ bench'.shown = bench.shown
        /\ bench'.mode = "settling" => bench.mode = "settling"
    BY <1>0, <1>4 DEF Waits, Bench
  <2>2. QED
    BY <1>1, <2>1 DEF Excused, Settling, GivesUpAfterFault
<1>5. CASE bench' = Settle([bench EXCEPT !.terminal = TRUE])
  <2> DEFINE b == [bench EXCEPT !.terminal = TRUE]
  <2>1. b \in Bench /\ b.terminal
    BY <1>0 DEF Bench
  <2> HIDE DEF b
  <2>2. bench' \in Bench /\ bench'.terminal
    BY <1>5, <2>1, SettleIs DEF b
  <2>3. QED
    BY <2>2 DEF Excused
<1>6. CASE bench' = Settle(bench) /\ Over
  <2>1. bench' \in Bench /\ bench'.terminal = bench.terminal /\ bench'.shown = bench.shown
    BY <1>0, <1>6, SettleIs
  <2>2. QED
    BY <1>1, <1>6, <2>1 DEF Excused, GivesUpAfterFault
<1>7. CASE bench' = [Settle([bench EXCEPT !.settled = FALSE]) EXCEPT !.shown = "none"] /\ Over
  <2> DEFINE b == [bench EXCEPT !.settled = FALSE]
  <2>1. b \in Bench /\ b.terminal = bench.terminal
    BY <1>0 DEF Bench
  <2>2. bench' = [Settle(b) EXCEPT !.shown = "none"]
    BY <1>7
  <2> HIDE DEF b
  <2>3. Settle(b) \in Bench /\ Settle(b).terminal = bench.terminal
    BY <2>1, SettleIs
  <2>4. bench' \in Bench /\ bench'.terminal = bench.terminal /\ bench'.shown = "none"
    BY <2>2, <2>3 DEF Bench
  <2>5. QED
    BY <1>1, <1>7, <2>4 DEF Excused
<1>8. CASE Finds /\ bench.mode = "settling"
  <2>1. /\ bench' \in Bench /\ bench'.terminal = bench.terminal /\ bench'.shown = Shown
        /\ bench'.mode = "idle"
    BY <1>0, <1>8, ShownIs DEF Finds, Bench
  <2>2. Over
    BY <1>8 DEF Settling
  <2>3. Shown = "gaveup" => Excused
    <3>1. ASSUME Shown = "gaveup", ~Excused PROVE FALSE
      <4>1. RunStatus = "running" /\ managed # Gone /\ managed.finished
        BY <2>2, <3>1, ShownIs DEF Over
      <4>2. QED
        BY <4>1 DEF RunStatus, Known
    <3>2. QED
      BY <3>1
  <2>4. QED
    BY <1>1, <2>1, <2>2, <2>3 DEF Excused
<1>9. QED
  BY <1>2, <1>3, <1>4, <1>5, <1>6, <1>7, <1>8 DEF Looks

LEMMA StepClient == ASSUME Typed, ClientInv, [Next]_vars PROVE ClientInv'
<1>0. ClientTyped /\ Resulted /\ Known /\ Settling /\ GivesUpAfterFault
  BY DEF ClientInv
<1>1. Resulted'
  BY <1>0, StepResulted
<1>2. \A g \in FaultKinds : Happened(g) => Happened(g)'
  BY FaultsGrow
<1>3. /\ Happened("drop") \/ Happened("restart") => Happened("drop")' \/ Happened("restart")'
      /\ Happened("restart") => Happened("restart")'
  BY <1>2 DEF FaultKinds
<1>4. CASE Restart
  <2>1. Happened("restart")'
    BY <1>4, FaultIs DEF Restart, Happened, FaultKinds
  <2>2. UNCHANGED <<bench, conn, db>> /\ managed' = Gone
    BY <1>4 DEF Restart, client
  <2>3. cut' \in BOOLEAN
    BY <1>0, <1>4, Zenon DEF Restart, ClientTyped
  <2>4. ClientTyped'
    BY <1>0, <2>2, <2>3 DEF ClientTyped
  <2>5. Known' /\ Settling' /\ GivesUpAfterFault'
    BY <2>1, <2>2 DEF Known, Settling, Over, Excused, GivesUpAfterFault
  <2>6. QED
    BY <1>1, <2>4, <2>5 DEF ClientInv
<1>5. ASSUME NEW k \in Ids, StepOf(k) PROVE ClientInv'
  <2>1. /\ UNCHANGED <<bench, conn, cut>> /\ db' \in Statuses
        /\ UNCHANGED managed \/ (managed' \in Managed /\ managed'.finished
                                 /\ managed'.status # "running")
    BY <1>0, <1>5, RunTells
  <2>2. ClientTyped'
    BY <1>0, <2>1 DEF ClientTyped
  <2>3. GivesUpAfterFault'
    BY <1>0, <1>3, <2>1 DEF GivesUpAfterFault
  <2>4. CASE UNCHANGED managed
    <3>1. Known' /\ Settling'
      BY <1>0, <1>3, <2>1, <2>4 DEF Known, Settling, Over, Excused
    <3>2. QED
      BY <1>1, <2>2, <2>3, <3>1 DEF ClientInv
  <2>5. CASE managed' \in Managed /\ managed'.finished /\ managed'.status # "running"
    <3>0. managed' # Gone
      BY <2>5, GoneAssumption DEF Managed, Statuses
    <3>1. Known' /\ Settling'
      BY <1>0, <1>3, <2>1, <2>5, <3>0 DEF Known, Settling, Over
    <3>2. QED
      BY <1>1, <2>2, <2>3, <3>1 DEF ClientInv
  <2>6. QED
    BY <2>1, <2>4, <2>5
<1>6. CASE ~Restart /\ \A k \in Ids : ~StepOf(k)
  <2>1. /\ UNCHANGED <<managed, db>>
        /\ conn' \in Connections /\ cut' \in BOOLEAN
        /\ cut' => cut \/ Happened("drop")'
        /\ UNCHANGED bench \/ Hears \/ Waits \/ Looks \/ (Finds /\ bench.mode = "settling")
    BY <1>0, <1>6, ClientMoves
  <2>2. /\ bench' \in Bench
        /\ bench'.mode = "settling" \/ bench'.shown = "waiting" => Over \/ Excused'
        /\ Excused => Excused'
        /\ bench'.shown = "gaveup" => Excused'
    BY <1>0, <2>1, BenchMoves
  <2>3. ClientTyped'
    BY <1>0, <2>1, <2>2 DEF ClientTyped
  <2>4. Known'
    BY <1>0, <1>3, <2>1 DEF Known
  <2>5. Settling' /\ GivesUpAfterFault'
    BY <2>1, <2>2 DEF Settling, Over, GivesUpAfterFault, Excused
  <2>6. QED
    BY <1>1, <2>3, <2>4, <2>5 DEF ClientInv
<1>7. QED
  BY <1>4, <1>5, <1>6

-----------------------------------------------------------------------------
(* What the stream's reader may rely on *)

LEMMA InitClient == Init => ClientInv
<1> SUFFICES ASSUME Init PROVE ClientInv
  OBVIOUS
<1>1. Ids = 1..Segments /\ Segments \in Nat \ {0}
  BY TraceAssumption DEF Ids
<1>2. managed \in Managed /\ ~managed.finished /\ managed # Gone /\ db \in Statuses
  <2>1. managed = [status |-> "running", answered |-> FALSE, finished |-> FALSE] /\ db = "running"
    BY DEF Init
  <2>2. managed \in Managed /\ managed.finished = FALSE
    BY <2>1 DEF Managed, Statuses
  <2>3. managed # Gone
    BY <2>2, GoneAssumption DEF Managed, Statuses
  <2>4. QED
    BY <2>1, <2>2, <2>3 DEF Statuses
<1>3. bench \in Bench /\ bench.mode = "watching" /\ bench.shown = "none"
  BY DEF Init, Bench
<1>4. conn \in Connections /\ cut \in BOOLEAN /\ ~cut
  <2>1. cut = FALSE
    BY DEF Init
  <2>2. QED
    BY <2>1 DEF Init, Connections
<1>5. ClientTyped
  BY <1>2, <1>3, <1>4 DEF ClientTyped
<1>6. Resulted
  BY <1>1 DEF Init, Resulted
<1>7. Known /\ Settling /\ GivesUpAfterFault
  BY <1>2, <1>3, <1>4 DEF Known, Settling, GivesUpAfterFault
<1>8. QED
  BY <1>5, <1>6, <1>7 DEF ClientInv

LEMMA StreamInvariant == Spec => [](RunInv /\ ClientInv)
<1>1. RunInv /\ ClientInv /\ [Next]_vars => ClientInv'
  BY StepClient DEF RunInv
<1>2. QED
  BY <1>1, InitClient, RunInvariant, PTL DEF Spec

(* Type correctness of the store (no run twice, no more than max_traces, a *)
(* trace exactly while it is stored, ids in order), of the coroutines and  *)
(* of the client (observability/in_memory.py, tracer.py,                   *)
(* orchestration/run_manager.py, the Workbench's use-agent-run.ts).        *)
THEOREM TraceTypeCorrect == Spec => []TypeOK
<1>1. RunInv /\ ClientInv => TypeOK
  <2> SUFFICES ASSUME RunInv, ClientInv PROVE TypeOK
    OBVIOUS
  <2>1. Len(order) <= MaxTraces /\ IsInjective(order) /\ order \in Seq(AllRuns)
    BY DEF RunInv, Traced, Ordered
  <2>2. ToSet(order) \subseteq OtherRuns \cup {Run}
    <3>1. order \in [1..Len(order) -> AllRuns]
      BY <2>1, LenProperties
    <3>2. QED
      BY <3>1 DEF ToSet, AllRuns
  <2>3. /\ trace \in Seq(Event) /\ (Stored(Run) <=> trace # <<>>)
        /\ \A i, j \in DOMAIN trace : (i < j) => trace[i].id < trace[j].id
    BY DEF RunInv, Traced
  <2>4. pc \in [Ids -> Places] /\ result \in [Ids -> Endings] /\ approval \in 0..Segments
        /\ memories \subseteq Ids
    BY DEF RunInv, Typed
  <2>5. db \in Statuses /\ conn \in Connections /\ cut \in BOOLEAN
        /\ bench.shown \in {"none", "answer", "waiting", "failed", "gaveup"}
    BY DEF ClientInv, ClientTyped, Bench
  <2>6. QED
    BY <2>1, <2>2, <2>3, <2>4, <2>5 DEF TypeOK, Places, Endings, Statuses, Connections
<1>2. QED
  BY <1>1, StreamInvariant, PTL

-----------------------------------------------------------------------------
(* Recursion over sequences: what is proved of a recursive function is     *)
(* proved of a least counterexample.                                       *)

LEMMA Least ==
    ASSUME NEW T \in SUBSET Nat, T # {}
    PROVE  \E n \in T : \A m \in T : n <= m
<1> DEFINE R == OpToRel(<, Nat)
<1>1. \A x, y \in Nat : <<x, y>> \in R <=> x < y
  BY DEF OpToRel
<1>2. IsWellFoundedOn(R, Nat)
  BY NatLessThanWellFounded
<1> HIDE DEF R
<1>3. PICK n \in T : \A m \in T : ~(<<m, n>> \in R)
  BY <1>2, WFMin
<1>4. \A m \in T : n <= m
  <2> TAKE m \in T
  <2>1. m \in Nat /\ n \in Nat
    OBVIOUS
  <2>2. ~(m < n)
    BY <1>1, <1>3, <2>1
  <2>3. QED
    BY <2>1, <2>2
<1>5. QED
  BY <1>4

LEMMA Induction ==
    ASSUME NEW S, 0 \in S, \A n \in Nat : n \in S => n + 1 \in S
    PROVE  \A n \in Nat : n \in S
<1> DEFINE T == {n \in Nat : n \notin S}
<1> SUFFICES ASSUME T # {} PROVE FALSE
  OBVIOUS
<1>1. T \in SUBSET Nat
  OBVIOUS
<1>2. PICK n \in T : \A m \in T : n <= m
  <2> HIDE DEF T
  <2>1. QED
    BY <1>1, Least
<1>3. n # 0 /\ n - 1 \in Nat /\ n - 1 \notin T
  BY <1>2
<1>4. QED
  BY <1>2, <1>3

(* A list put together from n pieces: f[i] holds the first i of them.      *)
Sums(f, p, n) == \A i \in 0..n : f[i] = IF i = 0 THEN <<>> ELSE f[i - 1] \o p[i]

LEMMA SumsExist ==
    ASSUME NEW S, NEW n \in Nat, NEW p, \A i \in 1..n : p[i] \in Seq(S)
    PROVE  \E f \in [0..n -> Seq(S)] : Sums(f, p, n)
<1> DEFINE Good(m) == \E f \in [0..m -> Seq(S)] : Sums(f, p, m)
           T == {m \in Nat : m <= n => Good(m)}
<1>1. 0 \in T
  <2>1. PICK f : f = [i \in 0..0 |-> <<>>]
    OBVIOUS
  <2>2. f \in [0..0 -> Seq(S)] /\ Sums(f, p, 0)
    BY <2>1 DEF Sums
  <2>3. QED
    BY <2>2
<1>2. ASSUME NEW m \in Nat, m \in T PROVE m + 1 \in T
  <2> SUFFICES ASSUME m + 1 <= n PROVE Good(m + 1)
    OBVIOUS
  <2>1. PICK f \in [0..m -> Seq(S)] : Sums(f, p, m)
    BY <1>2
  <2>2. f[m] \in Seq(S) /\ p[m + 1] \in Seq(S)
    OBVIOUS
  <2> DEFINE last == f[m] \o p[m + 1]
             g == [i \in 0..(m + 1) |-> IF i = m + 1 THEN last ELSE f[i]]
  <2>3. last \in Seq(S)
    BY <2>2, ConcatProperties
  <2>4. g \in [0..(m + 1) -> Seq(S)]
    <3> HIDE DEF last
    <3>1. QED
      BY <2>3
  <2>5. Sums(g, p, m + 1)
    <3> SUFFICES ASSUME NEW i \in 0..(m + 1)
                 PROVE  g[i] = IF i = 0 THEN <<>> ELSE g[i - 1] \o p[i]
      BY DEF Sums
    <3>1. CASE i = m + 1
      <4>1. g[m] = f[m] /\ i # 0 /\ i - 1 = m
        BY <3>1
      <4>2. QED
        BY <3>1, <4>1
    <3>2. CASE i # m + 1
      <4>1. i \in 0..m /\ g[i] = f[i] /\ (i # 0 => g[i - 1] = f[i - 1])
        BY <3>2
      <4>2. QED
        BY <2>1, <4>1 DEF Sums
    <3>3. QED
      BY <3>1, <3>2
  <2>6. QED
    BY <2>4, <2>5
<1> HIDE DEF Good
<1>3. \A m \in Nat : m \in T
  <2> HIDE DEF T
  <2>1. QED
    BY <1>1, <1>2, Induction
<1>4. QED
  BY <1>3 DEF Good

LEMMA SumsAgree ==
    ASSUME NEW f, NEW g, NEW p, NEW q, NEW n \in Nat,
           Sums(f, p, n), Sums(g, q, n), \A i \in 1..n : p[i] = q[i]
    PROVE  \A i \in 0..n : f[i] = g[i]
<1> DEFINE T == {i \in Nat : i \in 0..n => f[i] = g[i]}
<1>1. 0 \in T
  BY DEF Sums
<1>2. ASSUME NEW i \in Nat, i \in T PROVE i + 1 \in T
  <2> SUFFICES ASSUME i + 1 \in 0..n PROVE f[i + 1] = g[i + 1]
    OBVIOUS
  <2>1. f[i] = g[i] /\ i + 1 # 0 /\ (i + 1) - 1 = i /\ i + 1 \in 1..n
    BY <1>2
  <2>2. f[i + 1] = f[i] \o p[i + 1] /\ g[i + 1] = g[i] \o q[i + 1]
    BY <2>1 DEF Sums
  <2>3. QED
    BY <2>1, <2>2
<1>3. \A i \in Nat : i \in T
  <2> HIDE DEF T
  <2>1. QED
    BY <1>1, <1>2, Induction
<1>4. QED
  BY <1>3

-----------------------------------------------------------------------------
(* The public events of a trace *)

PublicEvent == [id : Nat, agent : BOOLEAN,
                type : {"run.started", "agent.started", "agent.completed", "run.completed",
                        "run.failed", "sql.query_completed", "tool.completed"}]
Flat(t) ==
    LET public[i \in 0..Len(t)] == IF i = 0 THEN <<>> ELSE public[i - 1] \o Project(t[i])
    IN  public[Len(t)]

LEMMA Single == ASSUME NEW p PROVE DOMAIN <<p>> = {1} /\ <<p>>[1] = p
<1>1. DOMAIN <<p>> = 1..1
  OBVIOUS
<1>2. <<p>>[1] = p
  OBVIOUS
<1>3. QED
  BY <1>1, <1>2

LEMMA ProjectIs ==
    ASSUME NEW e \in Event
    PROVE  /\ Project(e) \in Seq(PublicEvent)
           /\ \A i \in DOMAIN Project(e) : Project(e)[i].id = e.id
           /\ \A i, j \in DOMAIN Project(e) : i # j => ~SameId(Project(e)[i], Project(e)[j])
<1> DEFINE one(type) == <<Public(e, FALSE, type)>>
<1>0. e.id \in Nat /\ e.type \in {"started", "validation", "query", "tool", "finished", "failed"}
  BY DEF Event
<1>1. ASSUME NEW type \in {"run.failed", "sql.query_completed", "tool.completed"}
      PROVE  /\ one(type) \in Seq(PublicEvent)
             /\ \A i \in DOMAIN one(type) : one(type)[i].id = e.id
             /\ \A i, j \in DOMAIN one(type) : i = j
  <2>1. Public(e, FALSE, type) \in PublicEvent /\ Public(e, FALSE, type).id = e.id
    BY <1>0 DEF Public, PublicEvent
  <2>2. \A p \in PublicEvent : <<p>> \in Seq(PublicEvent)
    OBVIOUS
  <2>3. DOMAIN one(type) = {1} /\ one(type)[1] = Public(e, FALSE, type)
    BY Single
  <2> HIDE DEF one
  <2>4. \A i \in DOMAIN one(type) : one(type)[i].id = e.id
    BY <2>1, <2>3
  <2>5. \A i, j \in DOMAIN one(type) : i = j
    BY <2>3
  <2>6. one(type) \in Seq(PublicEvent)
    BY <2>1, <2>2 DEF one
  <2>7. QED
    BY <2>4, <2>5, <2>6
<1>2. ASSUME NEW first \in PublicEvent, NEW second \in PublicEvent,
             first.id = e.id, second.id = e.id, first.agent # second.agent
      PROVE  /\ <<first, second>> \in Seq(PublicEvent)
             /\ \A i \in DOMAIN <<first, second>> : <<first, second>>[i].id = e.id
             /\ \A i, j \in DOMAIN <<first, second>> :
                    i # j => ~SameId(<<first, second>>[i], <<first, second>>[j])
  <2>1. <<first, second>> \in Seq(PublicEvent)
    OBVIOUS
  <2>2. DOMAIN <<first, second>> = {1, 2}
    OBVIOUS
  <2>3. <<first, second>>[1] = first /\ <<first, second>>[2] = second
    OBVIOUS
  <2>4. QED
    BY <1>2, <2>1, <2>2, <2>3 DEF SameId
<1>3. CASE e.type = "started"
  <2>1. Project(e) = <<Public(e, FALSE, "run.started"), Public(e, TRUE, "agent.started")>>
    BY <1>3 DEF Project
  <2>2. /\ Public(e, FALSE, "run.started") \in PublicEvent
        /\ Public(e, TRUE, "agent.started") \in PublicEvent
        /\ Public(e, FALSE, "run.started").id = e.id /\ Public(e, TRUE, "agent.started").id = e.id
        /\ Public(e, FALSE, "run.started").agent # Public(e, TRUE, "agent.started").agent
    BY <1>0 DEF Public, PublicEvent
  <2>3. QED
    BY <1>2, <2>1, <2>2
<1>4. CASE e.type = "finished"
  <2>1. Project(e) = <<Public(e, TRUE, "agent.completed"), Public(e, FALSE, "run.completed")>>
    BY <1>4 DEF Project
  <2>2. /\ Public(e, TRUE, "agent.completed") \in PublicEvent
        /\ Public(e, FALSE, "run.completed") \in PublicEvent
        /\ Public(e, TRUE, "agent.completed").id = e.id
        /\ Public(e, FALSE, "run.completed").id = e.id
        /\ Public(e, TRUE, "agent.completed").agent # Public(e, FALSE, "run.completed").agent
    BY <1>0 DEF Public, PublicEvent
  <2>3. QED
    BY <1>2, <2>1, <2>2
<1>5. CASE e.type = "validation"
  <2>1. Project(e) = <<>>
    BY <1>5 DEF Project
  <2>2. QED
    BY <2>1
<1>6. CASE e.type \in {"failed", "query", "tool"}
  <2>1. \E type \in {"run.failed", "sql.query_completed", "tool.completed"} :
            Project(e) = one(type)
    BY <1>6 DEF Project
  <2> HIDE DEF one
  <2>2. QED
    BY <1>1, <2>1
<1>7. QED
  BY <1>0, <1>3, <1>4, <1>5, <1>6

(* PublicEvents is what any such list holds last. *)
Pieces(t) == [i \in 1..Len(t) |-> Project(t[i])]
LEMMA FlatIs ==
    ASSUME NEW t \in Seq(Event), NEW f, Sums(f, Pieces(t), Len(t))
    PROVE  Flat(t) = f[Len(t)]
<1> DEFINE n == Len(t)
           p == Pieces(t)
           Rule(g) == g = [i \in 0..n |-> IF i = 0 THEN <<>> ELSE g[i - 1] \o Project(t[i])]
           h == CHOOSE g : Rule(g)
<1>1. n \in Nat /\ t \in [1..n -> Event]
  BY LenProperties
<1>2. \A i \in 1..n : p[i] = Project(t[i]) /\ p[i] \in Seq(PublicEvent)
  BY <1>1, ProjectIs DEF Pieces
<1>3. Flat(t) = h[n]
  BY DEF Flat
<1> HIDE DEF n, p
<1>4. PICK g \in [0..n -> Seq(PublicEvent)] : Sums(g, p, n)
  BY <1>1, <1>2, SumsExist
<1>5. Rule(g)
  <2>1. \A i \in 0..n : i # 0 => i \in 1..n
    BY <1>1
  <2>2. \A i \in 0..n : g[i] = IF i = 0 THEN <<>> ELSE g[i - 1] \o Project(t[i])
    BY <1>2, <1>4, <2>1 DEF Sums
  <2>3. QED
    BY <2>2
<1>6. Rule(h)
  <2> HIDE DEF Rule
  <2>1. QED
    BY <1>5
<1>7. Sums(h, p, n)
  <2> HIDE DEF h
  <2>1. \A i \in 0..n : i # 0 => i \in 1..n
    BY <1>1
  <2>2. \A i \in 0..n : h[i] = IF i = 0 THEN <<>> ELSE h[i - 1] \o Project(t[i])
    BY <1>6
  <2>3. QED
    BY <1>2, <2>1, <2>2 DEF Sums
<1>8. \A i \in 0..n : h[i] = f[i]
  <2> HIDE DEF h
  <2>1. Sums(f, p, n)
    BY DEF n, p
  <2>2. QED
    BY <1>1, <1>7, <2>1, SumsAgree
<1>9. QED
  <2> HIDE DEF h
  <2>1. QED
    BY <1>1, <1>3, <1>8 DEF n

LEMMA FlatEmpty == Flat(<<>>) = <<>>
<1> DEFINE f == [i \in 0..0 |-> <<>>]
<1>1. Sums(f, Pieces(<<>>), Len(<<>>))
  BY DEF Sums
<1>2. f[Len(<<>>)] = <<>>
  OBVIOUS
<1> HIDE DEF f
<1>3. <<>> \in Seq(Event)
  OBVIOUS
<1>4. QED
  BY <1>1, <1>2, <1>3, FlatIs

LEMMA FlatAppend ==
    ASSUME NEW t \in Seq(Event), NEW e \in Event
    PROVE  Flat(Append(t, e)) = Flat(t) \o Project(e)
<1> DEFINE u == Append(t, e)
           n == Len(t)
<1>1. /\ n \in Nat /\ t \in [1..n -> Event] /\ u \in Seq(Event) /\ Len(u) = n + 1
      /\ u[n + 1] = e /\ \A i \in 1..n : u[i] = t[i]
  BY LenProperties, AppendProperties
<1> HIDE DEF u
<1>2. u \in [1..(n + 1) -> Event]
  BY <1>1, LenProperties
<1> DEFINE p == Pieces(u)
<1>3. \A i \in 1..(n + 1) : p[i] = Project(u[i]) /\ p[i] \in Seq(PublicEvent)
  BY <1>1, <1>2, ProjectIs DEF Pieces
<1> HIDE DEF p, n
<1>4. n + 1 \in Nat /\ n \in 0..(n + 1) /\ n + 1 \in 0..(n + 1) /\ (n + 1) - 1 = n /\ n + 1 # 0
  BY <1>1
<1>5. PICK f \in [0..(n + 1) -> Seq(PublicEvent)] : Sums(f, p, n + 1)
  BY <1>3, <1>4, SumsExist
<1>6. Flat(u) = f[n + 1]
  BY <1>1, <1>5, FlatIs DEF p
<1>7. Flat(t) = f[n]
  <2>1. \A i \in 0..n : i \in 0..(n + 1) /\ (i # 0 => i \in 1..n /\ i \in 1..(n + 1))
    BY <1>1
  <2>2. \A i \in 1..n : Pieces(t)[i] = Project(t[i])
    BY DEF Pieces, n
  <2>3. \A i \in 0..n : f[i] = IF i = 0 THEN <<>> ELSE f[i - 1] \o Pieces(t)[i]
    BY <1>1, <1>3, <1>5, <2>1, <2>2 DEF Sums
  <2>4. Sums(f, Pieces(t), Len(t))
    BY <2>3 DEF Sums, n
  <2>5. QED
    BY <2>4, FlatIs DEF n
<1>8. f[n + 1] = f[n] \o p[n + 1]
  BY <1>4, <1>5 DEF Sums
<1>9. p[n + 1] = Project(e)
  BY <1>1, <1>3, <1>4
<1>10. QED
  BY <1>6, <1>7, <1>8, <1>9 DEF u

LEMMA FlatOne == ASSUME NEW e \in Event PROVE Flat(<<e>>) = Project(e)
<1>1. <<>> \in Seq(Event) /\ Append(<<>>, e) = <<e>>
  OBVIOUS
<1>2. Flat(<<e>>) = <<>> \o Project(e)
  BY <1>1, FlatAppend, FlatEmpty
<1>3. QED
  BY <1>2, ProjectIs, ConcatEmptySeq

LEMMA FlatOf == PublicEvents = Flat(trace) /\ PublicEvents' = Flat(trace')
BY DEF PublicEvents, Flat

(* Each event of the trace is projected once, so that no two public events *)
(* have one id.                                                            *)
Projected ==
    /\ PublicEvents \in Seq(PublicEvent)
    /\ trace = <<>> => PublicEvents = <<>>
    /\ trace # <<>> => trace[1].id > 0
    /\ \A i \in DOMAIN PublicEvents :
           trace[1].id <= PublicEvents[i].id /\ PublicEvents[i].id <= minted
    /\ \A i, j \in DOMAIN PublicEvents : i # j => ~SameId(PublicEvents[i], PublicEvents[j])

(* What a step does to the trace, and to the ids handed out *)
Kept2 == UNCHANGED <<trace, minted>>
Longer == \E e \in Event : /\ trace # <<>> /\ trace' = Append(trace, e)
                           /\ e.id = minted + 1 /\ minted' = minted + 1
Anew == \E e \in Event : /\ trace' = <<e>> /\ e.id = minted + 1 /\ minted' = minted + 1
Lost == trace' = <<>> /\ UNCHANGED minted
TraceMoves == Kept2 \/ Longer \/ Anew \/ Lost

LEMMA StepMovesTrace == ASSUME Typed, Traced, [Next]_vars PROVE TraceMoves
<1>1. ASSUME Reads PROVE TraceMoves
  BY <1>1 DEF Reads, TraceMoves, Kept2
<1>2. CASE Aside
  <2>1. CASE \E o \in OtherRuns : OtherRun(o)
    BY <2>1, OtherRunTraced DEF TraceMoves, Kept2, Lost
  <2>2. QED
    BY <1>1, <1>2, <2>1 DEF Aside
<1>3. CASE Restart
  BY <1>3 DEF Restart, TraceMoves, Lost
<1>4. ASSUME NEW k \in Ids, StepOf(k) PROVE TraceMoves
  <2>1. CASE Begins
    <3>1. PICK e \in Event : NewEvent("started") = <<e>> /\ e.id = minted + 1
      BY NewEventIs DEF Traced
    <3>2. QED
      BY <2>1, <3>1 DEF Begins, TraceMoves, Anew
  <2>2. CASE \E e \in Event : Writes(e)
    BY <2>2 DEF Writes, Traced, TraceMoves, Longer
  <2>3. QED
    BY <1>1, <1>4, <2>1, <2>2, StoreOf
<1>5. QED
  BY <1>2, <1>3, <1>4, StepIs

(* One event's public events, after those of earlier ones *)
LEMMA Extends ==
    ASSUME Traced, Projected, NEW e \in Event, trace # <<>>, trace' = Append(trace, e),
           e.id = minted + 1, minted' = minted + 1
    PROVE  /\ PublicEvents' = PublicEvents \o Project(e) /\ PublicEvents' \in Seq(PublicEvent)
           /\ Len(PublicEvents') = Len(PublicEvents) + Len(Project(e))
           /\ \A i \in 1..Len(PublicEvents) : PublicEvents'[i] = PublicEvents[i]
           /\ \A i \in 1..Len(Project(e)) :
                  PublicEvents'[Len(PublicEvents) + i] = Project(e)[i]
           /\ trace'[1] = trace[1] /\ trace' # <<>>
<1>1. Flat(Append(trace, e)) = Flat(trace) \o Project(e)
  BY FlatAppend DEF Traced
<1>2. PublicEvents' = PublicEvents \o Project(e)
  BY <1>1, FlatOf
<1>3. PublicEvents \in Seq(PublicEvent) /\ Project(e) \in Seq(PublicEvent)
  BY ProjectIs DEF Projected
<1>4. Len(PublicEvents) \in Nat /\ Len(Project(e)) \in Nat
  BY <1>3, LenProperties
<1>5. /\ PublicEvents \o Project(e) \in Seq(PublicEvent)
      /\ Len(PublicEvents \o Project(e)) = Len(PublicEvents) + Len(Project(e))
      /\ \A i \in 1..(Len(PublicEvents) + Len(Project(e))) :
             (PublicEvents \o Project(e))[i] =
                 IF i <= Len(PublicEvents) THEN PublicEvents[i]
                 ELSE Project(e)[i - Len(PublicEvents)]
  BY <1>3, ConcatProperties
<1>6. trace'[1] = trace[1] /\ trace' # <<>>
  BY EmptySeq, AppendProperties, LenProperties DEF Traced
<1> DEFINE p == PublicEvents
           q == Project(e)
<1> HIDE DEF p, q
<1>7. \A i \in 1..Len(p) : (p \o q)[i] = p[i]
  BY <1>4, <1>5 DEF p, q
<1>8. \A i \in 1..Len(q) : (p \o q)[Len(p) + i] = q[i]
  <2> TAKE i \in 1..Len(q)
  <2>1. Len(p) \in Nat /\ Len(q) \in Nat
    BY <1>4 DEF p, q
  <2>2. Len(p) + i \in 1..(Len(p) + Len(q)) /\ ~(Len(p) + i <= Len(p)) /\ (Len(p) + i) - Len(p) = i
    BY <2>1
  <2>3. QED
    BY <1>5, <2>2 DEF p, q
<1>9. QED
  BY <1>2, <1>5, <1>6, <1>7, <1>8 DEF p, q

LEMMA StepProjected == ASSUME Typed, Traced, Projected, [Next]_vars PROVE Projected'
<1>0. minted \in Nat
  BY DEF Traced
<1>1. CASE Kept2
  <2>1. PublicEvents' = PublicEvents
    BY <1>1, FlatOf DEF Kept2
  <2>2. QED
    BY <1>1, <2>1 DEF Kept2, Projected
<1>2. CASE Lost
  <2>1. PublicEvents' = <<>>
    BY <1>2, FlatEmpty, FlatOf DEF Lost
  <2>2. QED
    BY <1>2, <2>1 DEF Lost, Projected
<1>3. CASE Anew
  <2>1. PICK e \in Event : trace' = <<e>> /\ e.id = minted + 1 /\ minted' = minted + 1
    BY <1>3 DEF Anew
  <2>2. PublicEvents' = Project(e)
    BY <2>1, FlatOne, FlatOf
  <2>3. trace'[1].id = minted + 1 /\ trace' # <<>>
    BY <2>1
  <2> DEFINE q == Project(e)
  <2>4. /\ q \in Seq(PublicEvent) /\ \A i \in DOMAIN q : q[i].id = minted + 1
        /\ \A i, j \in DOMAIN q : i # j => ~SameId(q[i], q[j])
    BY <2>1, ProjectIs
  <2> HIDE DEF q
  <2>5. PublicEvents' = q
    BY <2>2 DEF q
  <2>6. QED
    BY <1>0, <2>1, <2>3, <2>4, <2>5 DEF Projected
<1>4. CASE Longer
  <2>1. PICK e \in Event : /\ trace # <<>> /\ trace' = Append(trace, e)
                           /\ e.id = minted + 1 /\ minted' = minted + 1
    BY <1>4 DEF Longer
  <2> DEFINE p == PublicEvents
             q == Project(e)
             r == PublicEvents'
  <2>2. /\ r \in Seq(PublicEvent) /\ Len(r) = Len(p) + Len(q)
        /\ \A i \in 1..Len(p) : r[i] = p[i]
        /\ \A i \in 1..Len(q) : r[Len(p) + i] = q[i]
        /\ trace'[1] = trace[1] /\ trace' # <<>>
    BY <2>1, Extends
  <2>3. /\ q \in Seq(PublicEvent) /\ \A i \in DOMAIN q : q[i].id = minted + 1
        /\ \A i, j \in DOMAIN q : i # j => ~SameId(q[i], q[j])
    BY <2>1, ProjectIs
  <2>4. /\ p \in Seq(PublicEvent) /\ trace[1].id > 0
        /\ \A i \in DOMAIN p : trace[1].id <= p[i].id /\ p[i].id <= minted
        /\ \A i, j \in DOMAIN p : i # j => ~SameId(p[i], p[j])
    BY <2>1 DEF Projected
  <2>5. trace[1].id <= minted /\ trace[1].id \in Nat
    <3>1. 1 \in DOMAIN trace /\ trace[1] \in Event
      BY <2>1, EmptySeq, LenProperties DEF Traced
    <3>2. QED
      BY <3>1 DEF Traced, Event
  <2> HIDE DEF p, q, r
  <2>6. /\ Len(p) \in Nat /\ Len(q) \in Nat /\ DOMAIN p = 1..Len(p) /\ DOMAIN q = 1..Len(q)
        /\ DOMAIN r = 1..(Len(p) + Len(q)) /\ \A i \in DOMAIN p : p[i].id \in Nat
    <3>1. p \in [1..Len(p) -> PublicEvent] /\ Len(p) \in Nat /\ Len(q) \in Nat
          /\ DOMAIN q = 1..Len(q) /\ DOMAIN r = 1..Len(r)
      BY <2>2, <2>3, <2>4, LenProperties
    <3>2. QED
      BY <2>2, <3>1 DEF PublicEvent
  <2>7. ASSUME NEW i \in DOMAIN r
        PROVE  \/ i \in DOMAIN p /\ r[i] = p[i]
               \/ \E j \in DOMAIN q : i = Len(p) + j /\ r[i] = q[j]
    <3>1. CASE i <= Len(p)
      BY <2>2, <2>6, <3>1
    <3>2. CASE ~(i <= Len(p))
      <4>1. i - Len(p) \in 1..Len(q) /\ i = Len(p) + (i - Len(p))
        BY <2>6, <3>2
      <4>2. QED
        BY <2>2, <2>6, <4>1
    <3>3. QED
      BY <3>1, <3>2
  <2>8. ASSUME NEW i \in DOMAIN r
        PROVE  trace'[1].id <= r[i].id /\ r[i].id <= minted'
    BY <1>0, <2>1, <2>2, <2>3, <2>4, <2>5, <2>6, <2>7
  <2>9. ASSUME NEW i \in DOMAIN r, NEW j \in DOMAIN r, i # j
        PROVE  ~SameId(r[i], r[j])
    <3>1. CASE i \in DOMAIN p /\ r[i] = p[i] /\ j \in DOMAIN p /\ r[j] = p[j]
      BY <2>4, <2>9, <3>1
    <3>2. CASE i \in DOMAIN p /\ r[i] = p[i] /\ \E m \in DOMAIN q : j = Len(p) + m /\ r[j] = q[m]
      <4>1. r[i].id <= minted /\ r[i].id \in Nat /\ r[j].id = minted + 1
        BY <2>3, <2>4, <2>6, <3>2
      <4>2. QED
        BY <1>0, <4>1 DEF SameId
    <3>3. CASE j \in DOMAIN p /\ r[j] = p[j] /\ \E m \in DOMAIN q : i = Len(p) + m /\ r[i] = q[m]
      <4>1. r[j].id <= minted /\ r[j].id \in Nat /\ r[i].id = minted + 1
        BY <2>3, <2>4, <2>6, <3>3
      <4>2. QED
        BY <1>0, <4>1 DEF SameId
    <3>4. CASE /\ \E m \in DOMAIN q : i = Len(p) + m /\ r[i] = q[m]
               /\ \E m \in DOMAIN q : j = Len(p) + m /\ r[j] = q[m]
      BY <2>3, <2>9, <3>4
    <3>5. QED
      BY <2>7, <3>1, <3>2, <3>3, <3>4
  <2>10. QED
    BY <2>1, <2>2, <2>4, <2>8, <2>9 DEF Projected, r
<1>5. QED
  BY <1>1, <1>2, <1>3, <1>4, StepMovesTrace DEF TraceMoves

LEMMA InitProjected == Init => Projected
<1> SUFFICES ASSUME Init PROVE Projected
  OBVIOUS
<1>1. trace = <<>>
  BY DEF Init
<1>2. PublicEvents = <<>>
  BY <1>1, FlatEmpty, FlatOf
<1>3. QED
  BY <1>1, <1>2 DEF Projected

-----------------------------------------------------------------------------
(* What is heard *)

(* The events of s are new to a reader of r, and all different. *)
Fresh(r, s) ==
    /\ \A i \in DOMAIN r, j \in DOMAIN s : ~SameId(r[i], s[j])
    /\ \A i, j \in DOMAIN s : i # j => ~SameId(s[i], s[j])

(* Such events are heard as they come. *)
LEMMA HeardIs ==
    ASSUME received \in Seq(PublicEvent), NEW s \in Seq(PublicEvent), Fresh(received, s)
    PROVE  Heard(s) = received \o s
<1> DEFINE n == Len(s)
           p == [i \in 1..n |-> <<s[i]>>]
           Rule(g) == g = [i \in 0..n |-> IF i = 0 THEN <<>>
                           ELSE g[i - 1] \o (IF Repeated(s, i) THEN <<>> ELSE <<s[i]>>)]
           h == CHOOSE g : Rule(g)
<1>1. n \in Nat /\ s \in [1..n -> PublicEvent] /\ DOMAIN s = 1..n
  BY LenProperties
<1>2. Heard(s) = received \o h[n]
  BY DEF Heard
<1> HIDE DEF n
<1>3. \A i \in 1..n : ~Repeated(s, i)
  <2> TAKE i \in 1..n
  <2>1. \A j \in 1..(i - 1) : j \in 1..n /\ j # i
    BY <1>1
  <2>2. QED
    BY <1>1, <2>1 DEF Repeated, Fresh
<1>4. \A i \in 1..n : p[i] = <<s[i]>> /\ p[i] \in Seq(PublicEvent)
  BY <1>1
<1>5. \A i \in 0..n : i # 0 => i \in 1..n
  BY <1>1
<1> HIDE DEF p
<1>6. PICK g \in [0..n -> Seq(PublicEvent)] : Sums(g, p, n)
  BY <1>1, <1>4, SumsExist
<1>7. Rule(g)
  <2>1. \A i \in 0..n : g[i] = IF i = 0 THEN <<>>
                               ELSE g[i - 1] \o (IF Repeated(s, i) THEN <<>> ELSE <<s[i]>>)
    BY <1>3, <1>4, <1>5, <1>6 DEF Sums
  <2>2. QED
    BY <2>1
<1>8. Rule(h)
  <2> HIDE DEF Rule
  <2>1. QED
    BY <1>7
<1>9. Sums(h, p, n)
  <2> HIDE DEF h
  <2>1. \A i \in 0..n : h[i] = IF i = 0 THEN <<>>
                               ELSE h[i - 1] \o (IF Repeated(s, i) THEN <<>> ELSE <<s[i]>>)
    BY <1>8
  <2>2. QED
    BY <1>3, <1>4, <1>5, <2>1 DEF Sums
<1> DEFINE f == [i \in 0..n |-> SubSeq(s, 1, i)]
<1>10. Sums(f, p, n)
  <2> SUFFICES ASSUME NEW i \in 0..n PROVE f[i] = IF i = 0 THEN <<>> ELSE f[i - 1] \o p[i]
    BY DEF Sums
  <2>1. CASE i = 0
    BY <2>1, SubSeqEmpty
  <2>2. CASE i # 0
    <3>1. i \in 1..n /\ 1 \in 1..n /\ i - 1 \in 0..n
      BY <1>1, <2>2
    <3>2. SubSeq(s, 1, i) = SubSeq(s, 1, i - 1) \o <<s[i]>>
      <4>1. 1 \in 1..Len(s) /\ i \in 1..Len(s)
        BY <3>1 DEF n
      <4>2. QED
        BY <4>1, SubSeqRecursiveSecond
    <3>3. QED
      BY <1>4, <2>2, <3>1, <3>2
  <2>3. QED
    BY <2>1, <2>2
<1>11. h[n] = f[n]
  <2> HIDE DEF h, f
  <2>1. QED
    BY <1>1, <1>9, <1>10, SumsAgree
<1>12. f[n] = s
  BY <1>1, SubSeqFull DEF n
<1>13. QED
  <2> HIDE DEF h, f
  <2>1. QED
    BY <1>2, <1>11, <1>12

(* s ends with the beginning of events; what it has before is older than   *)
(* they are, being the ids below first.                                    *)
Follows(s, events, first) ==
    \E n \in 0..Len(s) : /\ \A i \in 1..n : s[i].id < first
                         /\ Len(s) - n <= Len(events)
                         /\ \A i \in 1..(Len(s) - n) : s[n + i] = events[i]

LEMMA FollowsMore ==
    ASSUME NEW s \in Seq(PublicEvent), NEW p \in Seq(PublicEvent), NEW q \in Seq(PublicEvent),
           NEW first, Follows(s, p, first), Len(p) <= Len(q), \A i \in 1..Len(p) : q[i] = p[i]
    PROVE  Follows(s, q, first)
<1>1. Len(s) \in Nat /\ Len(p) \in Nat /\ Len(q) \in Nat
  BY LenProperties
<1>2. PICK n \in 0..Len(s) : /\ \A i \in 1..n : s[i].id < first
                             /\ Len(s) - n <= Len(p)
                             /\ \A i \in 1..(Len(s) - n) : s[n + i] = p[i]
  BY DEF Follows
<1>3. Len(s) - n <= Len(q)
  BY <1>1, <1>2
<1>4. \A i \in 1..(Len(s) - n) : s[n + i] = q[i]
  <2> TAKE i \in 1..(Len(s) - n)
  <2>1. i \in 1..Len(p)
    BY <1>1, <1>2
  <2>2. QED
    BY <1>2, <2>1
<1>5. QED
  BY <1>2, <1>3, <1>4 DEF Follows

LEMMA FollowsOlder ==
    ASSUME NEW s \in Seq(PublicEvent), NEW p \in Seq(PublicEvent), NEW first,
           \A i \in 1..Len(s) : s[i].id < first
    PROVE  Follows(s, p, first)
<1>1. Len(s) \in Nat /\ Len(p) \in Nat
  BY LenProperties
<1>2. Len(s) \in 0..Len(s) /\ Len(s) - Len(s) = 0 /\ 0 <= Len(p) /\ 1..0 = {}
  BY <1>1
<1>3. QED
  BY <1>2 DEF Follows

LEMMA FollowsBegun ==
    ASSUME NEW s \in Seq(PublicEvent), NEW t \in Seq(PublicEvent), NEW p \in Seq(PublicEvent),
           NEW first, Follows(s, p, first), Len(t) <= Len(s), \A i \in 1..Len(t) : t[i] = s[i]
    PROVE  Follows(t, p, first)
<1>1. Len(s) \in Nat /\ Len(t) \in Nat /\ Len(p) \in Nat
  BY LenProperties
<1>2. PICK n \in 0..Len(s) : /\ \A i \in 1..n : s[i].id < first
                             /\ Len(s) - n <= Len(p)
                             /\ \A i \in 1..(Len(s) - n) : s[n + i] = p[i]
  BY DEF Follows
<1>3. CASE Len(t) <= n
  <2>1. \A i \in 1..Len(t) : t[i].id < first
    <3> TAKE i \in 1..Len(t)
    <3>1. i \in 1..n
      BY <1>1, <1>3
    <3>2. QED
      BY <1>2, <3>1
  <2>2. QED
    BY <2>1, FollowsOlder
<1>4. CASE ~(Len(t) <= n)
  <2>1. n \in 0..Len(t) /\ Len(t) - n <= Len(p)
    BY <1>1, <1>2, <1>4
  <2>2. \A i \in 1..n : t[i].id < first
    <3> TAKE i \in 1..n
    <3>1. i \in 1..Len(t)
      BY <1>1, <1>4
    <3>2. QED
      BY <1>2, <3>1
  <2>3. \A i \in 1..(Len(t) - n) : t[n + i] = p[i]
    <3> TAKE i \in 1..(Len(t) - n)
    <3>1. n + i \in 1..Len(t) /\ i \in 1..(Len(s) - n)
      BY <1>1, <1>4
    <3>2. QED
      BY <1>2, <3>1
  <2>4. QED
    BY <2>1, <2>2, <2>3 DEF Follows
<1>5. QED
  BY <1>3, <1>4

LEMMA LaterIs ==
    ASSUME NEW p \in Seq(PublicEvent), NEW m \in 0..Len(p)
    PROVE  /\ SubSeq(p, m + 1, Len(p)) \in Seq(PublicEvent)
           /\ Len(SubSeq(p, m + 1, Len(p))) = Len(p) - m
           /\ \A i \in 1..(Len(p) - m) : SubSeq(p, m + 1, Len(p))[i] = p[m + i]
<1>1. Len(p) \in Nat /\ p \in [1..Len(p) -> PublicEvent]
  BY LenProperties
<1> DEFINE n == Len(p)
           a == m + 1
<1>2. /\ SubSeq(p, a, n) \in Seq(PublicEvent)
      /\ Len(SubSeq(p, a, n)) = IF a <= n THEN n - a + 1 ELSE 0
      /\ \A i \in 1..(n - a + 1) : SubSeq(p, a, n)[i] = p[a + i - 1]
  <2>1. a \in Int /\ n \in Int /\ \A i \in a..n : p[i] \in PublicEvent
    BY <1>1
  <2> HIDE DEF a, n
  <2>2. QED
    BY <2>1, SubSeqProperties
<1>3. n \in Nat /\ m \in 0..n
  BY <1>1
<1>4. (a <= n => n - a + 1 = n - m) /\ (~(a <= n) => n - m = 0)
  <2> HIDE DEF n
  <2>1. QED
    BY <1>3
<1>5. \A i \in 1..(n - m) : i \in 1..(n - a + 1) /\ a + i - 1 = m + i
  <2> HIDE DEF n
  <2>1. QED
    BY <1>3
<1>6. QED
  <2> HIDE DEF n, a
  <2>1. Len(SubSeq(p, a, n)) = n - m
    BY <1>2, <1>4
  <2>2. \A i \in 1..(n - m) : SubSeq(p, a, n)[i] = p[m + i]
    BY <1>2, <1>5
  <2>3. QED
    BY <1>2, <2>1, <2>2 DEF n, a

(* What a generator reads: the events after the last one delivered *)
LEMMA UndeliveredIs ==
    ASSUME Projected, NEW d
    PROVE  \E m \in 0..Len(PublicEvents) :
               /\ Undelivered(d) = SubSeq(PublicEvents, m + 1, Len(PublicEvents))
               /\ m # 0 => SameId(PublicEvents[m], d)
               /\ m = 0 => \A i \in 1..Len(PublicEvents) : ~SameId(PublicEvents[i], d)
<1> DEFINE p == PublicEvents
           at == {i \in DOMAIN p : SameId(p[i], d)}
<1>1. p \in Seq(PublicEvent) /\ Len(p) \in Nat /\ DOMAIN p = 1..Len(p)
  BY LenProperties DEF Projected
<1>2. Undelivered(d) = IF at = {} THEN p ELSE SubSeq(p, (CHOOSE i \in at : TRUE) + 1, Len(p))
  BY DEF Undelivered
<1> HIDE DEF p
<1>3. CASE at = {}
  <2>1. SubSeq(p, 0 + 1, Len(p)) = p
    BY <1>1, SubSeqFull
  <2>2. \A i \in 1..Len(p) : ~SameId(p[i], d)
    BY <1>1, <1>3
  <2>3. 0 \in 0..Len(p)
    BY <1>1
  <2>4. QED
    BY <1>2, <1>3, <2>1, <2>2, <2>3 DEF p
<1>4. CASE at # {}
  <2>1. PICK m : m = CHOOSE i \in at : TRUE
    OBVIOUS
  <2>2. m \in at
    BY <1>4, <2>1
  <2>3. m \in 0..Len(p) /\ m # 0 /\ SameId(p[m], d)
    BY <1>1, <2>2
  <2>4. Undelivered(d) = SubSeq(p, m + 1, Len(p))
    BY <1>2, <1>4, <2>1
  <2>5. QED
    BY <2>3, <2>4 DEF p
<1>5. QED
  BY <1>3, <1>4

(* To a reader who has the beginning of a trace's events, what is read     *)
(* after the last one is the rest of them.                                 *)
LEMMA ReadsOn ==
    ASSUME Traced, Projected, trace # <<>>, received \in Seq(PublicEvent),
           Follows(received, PublicEvents, trace[1].id)
    PROVE  /\ Fresh(received, Undelivered(LastReceived))
           /\ Follows(received \o Undelivered(LastReceived), PublicEvents, trace[1].id)
<1> DEFINE p == PublicEvents
           first == trace[1].id
           d == LastReceived
           r == received
           t == Undelivered(LastReceived)
<1>1. first \in Nat /\ first > 0
  <2>1. 1 \in DOMAIN trace /\ trace[1] \in Event
    BY EmptySeq, LenProperties DEF Traced
  <2>2. QED
    BY <2>1 DEF Projected, Event
<1>2. /\ p \in Seq(PublicEvent) /\ Len(p) \in Nat /\ DOMAIN p = 1..Len(p)
      /\ \A i \in 1..Len(p) : p[i].id \in Nat /\ first <= p[i].id
      /\ \A i, j \in 1..Len(p) : i # j => ~SameId(p[i], p[j])
  <2>1. p \in Seq(PublicEvent)
    BY DEF Projected
  <2>2. Len(p) \in Nat /\ DOMAIN p = 1..Len(p) /\ p \in [1..Len(p) -> PublicEvent]
    BY <2>1, LenProperties
  <2>3. \A i \in 1..Len(p) : p[i].id \in Nat
    BY <2>2 DEF PublicEvent
  <2>4. QED
    BY <2>1, <2>2, <2>3 DEF Projected
<1>3. /\ r \in Seq(PublicEvent) /\ Len(r) \in Nat /\ DOMAIN r = 1..Len(r)
      /\ \A i \in 1..Len(r) : r[i].id \in Nat
  <2>1. Len(r) \in Nat /\ DOMAIN r = 1..Len(r) /\ r \in [1..Len(r) -> PublicEvent]
    BY LenProperties
  <2>2. QED
    BY <2>1 DEF PublicEvent
<1>4. (r = <<>> => d = Start /\ Len(r) = 0) /\ (r # <<>> => d = r[Len(r)] /\ Len(r) # 0)
  BY EmptySeq DEF LastReceived, Last
<1>5. PICK m \in 0..Len(p) : /\ t = SubSeq(p, m + 1, Len(p))
                             /\ m # 0 => SameId(p[m], d)
                             /\ m = 0 => \A i \in 1..Len(p) : ~SameId(p[i], d)
  BY UndeliveredIs
<1>6. PICK n \in 0..Len(r) : /\ \A i \in 1..n : r[i].id < first
                             /\ Len(r) - n <= Len(p)
                             /\ \A i \in 1..(Len(r) - n) : r[n + i] = p[i]
  BY DEF Follows
<1> HIDE DEF p, first, d, r, t
<1>7. t \in Seq(PublicEvent) /\ Len(t) = Len(p) - m /\ \A i \in 1..(Len(p) - m) : t[i] = p[m + i]
  <2>1. p \in Seq(PublicEvent) /\ m \in 0..Len(p) /\ t = SubSeq(p, m + 1, Len(p))
    BY <1>2, <1>5
  <2>2. QED
    BY <2>1, LaterIs
<1> DEFINE a == Len(p)
           b == Len(r)
<1>0. /\ a \in Nat /\ b \in Nat /\ m \in Nat /\ n \in Nat
      /\ m <= a /\ n <= b /\ b - n <= a
  <2>1. a \in Nat /\ b \in Nat
    BY <1>2, <1>3
  <2>2. m \in 0..a /\ n \in 0..b /\ b - n <= a
    BY <1>5, <1>6
  <2> HIDE DEF a, b
  <2>3. QED
    BY <2>1, <2>2
<1>8. m = Len(r) - n
  <2>1. CASE Len(r) - n = 0
    <3>1. \A i \in 1..Len(p) : p[i].id # d.id
      <4>1. CASE r = <<>>
        <5>1. d.id = 0
          BY <1>4, <4>1 DEF Start
        <5>2. QED
          BY <1>1, <1>2, <5>1
      <4>2. CASE r # <<>>
        <5>1. n \in 1..n /\ d = r[n]
          BY <1>3, <1>4, <2>1, <4>2
        <5>2. d.id < first /\ d.id \in Nat
          BY <1>3, <1>6, <5>1
        <5>3. QED
          BY <1>1, <1>2, <5>2
      <4>3. QED
        BY <4>1, <4>2
    <3>2. CASE m # 0
      BY <1>2, <1>5, <3>1, <3>2 DEF SameId
    <3>3. QED
      BY <2>1, <3>2
  <2>2. CASE Len(r) - n # 0
    <3> DEFINE k == Len(r) - n
    <3>1. k \in 1..k /\ n + k = Len(r) /\ k \in 1..Len(p) /\ r # <<>>
      <4>1. k \in Nat /\ k # 0 /\ k <= Len(p) /\ Len(r) # 0 /\ n + k = Len(r)
        BY <1>0, <2>2
      <4>2. r # <<>>
        BY <1>4, <4>1
      <4> HIDE DEF k
      <4>3. QED
        BY <1>0, <4>1, <4>2
    <3>2. d = p[k]
      BY <1>4, <1>6, <3>1
    <3>3. SameId(p[k], d)
      BY <3>2 DEF SameId
    <3>4. m # 0
      BY <1>5, <3>1, <3>3
    <3>5. SameId(p[m], p[k]) /\ m \in 1..Len(p)
      BY <1>2, <1>5, <3>2, <3>4
    <3>6. QED
      BY <1>2, <3>1, <3>5
  <2>3. QED
    BY <2>1, <2>2
<1>9. Fresh(r, t)
  <2>1. DOMAIN t = 1..(Len(p) - m)
    BY <1>7, LenProperties
  <2>2. ASSUME NEW i \in DOMAIN r, NEW j \in DOMAIN t PROVE ~SameId(r[i], t[j])
    <3>0. j \in 1..(Len(p) - m)
      BY <2>1
    <3>1. t[j] = p[m + j] /\ m + j \in 1..Len(p)
      <4>1. m + j \in 1..Len(p)
        BY <1>0, <3>0
      <4>2. QED
        BY <1>7, <3>0, <4>1
    <3>2. CASE i \in 1..n
      <4>1. r[i].id < first /\ r[i].id \in Nat
        BY <1>3, <1>6, <3>2
      <4>2. first <= p[m + j].id /\ p[m + j].id \in Nat
        BY <1>2, <3>1
      <4>3. QED
        <5>1. ASSUME NEW x \in Nat, NEW y \in Nat, x < first, first <= y PROVE x # y
          BY <1>1, <5>1
        <5>2. r[i].id # p[m + j].id
          BY <4>1, <4>2, <5>1
        <5>3. QED
          BY <3>1, <5>2 DEF SameId
    <3>3. CASE i \notin 1..n
      <4>1. i - n \in 1..(Len(r) - n) /\ n + (i - n) = i
        BY <1>3, <3>3
      <4>2. r[i] = p[i - n]
        BY <1>6, <4>1
      <4>3. i - n # m + j /\ i - n \in 1..Len(p)
        BY <1>2, <1>3, <1>6, <1>8, <2>1, <4>1
      <4>4. QED
        BY <1>2, <3>1, <4>2, <4>3
    <3>4. QED
      BY <3>2, <3>3
  <2>3. ASSUME NEW i \in DOMAIN t, NEW j \in DOMAIN t, i # j PROVE ~SameId(t[i], t[j])
    <3>0. i \in 1..(Len(p) - m) /\ j \in 1..(Len(p) - m)
      BY <2>1
    <3>1. t[i] = p[m + i] /\ t[j] = p[m + j]
      BY <1>7, <3>0
    <3>2. m + i # m + j /\ m + i \in 1..Len(p) /\ m + j \in 1..Len(p)
      <4>1. ASSUME NEW k \in 1..(Len(p) - m) PROVE m + k \in 1..Len(p) /\ k \in Int
        BY <1>0
      <4>2. m + i \in 1..Len(p) /\ m + j \in 1..Len(p) /\ i \in Int /\ j \in Int
        BY <3>0, <4>1
      <4>3. \A x, y, z \in Int : x # y => z + x # z + y
        OBVIOUS
      <4>4. m + i # m + j
        BY <1>0, <2>3, <4>2, <4>3
      <4>5. QED
        BY <4>2, <4>4
    <3>3. QED
      BY <1>2, <3>1, <3>2
  <2>4. QED
    BY <2>2, <2>3 DEF Fresh
<1>10. Follows(r \o t, p, first)
  <2> DEFINE u == r \o t
  <2>1. /\ Len(u) = Len(r) + Len(t)
        /\ \A i \in 1..(Len(r) + Len(t)) : u[i] = IF i <= Len(r) THEN r[i] ELSE t[i - Len(r)]
    BY <1>3, <1>7, ConcatProperties
  <2> HIDE DEF u
  <2>2. n \in 0..Len(u) /\ Len(u) - n = Len(p)
    <3>1. Len(u) = Len(r) + (Len(p) - m)
      BY <1>7, <2>1
    <3>2. QED
      BY <1>2, <1>3, <1>8, <3>1
  <2>3. \A i \in 1..n : u[i].id < first
    <3> TAKE i \in 1..n
    <3>1. i \in 1..(Len(r) + Len(t)) /\ i <= Len(r)
      BY <1>2, <1>3, <1>7, <1>8
    <3>2. QED
      BY <1>6, <2>1, <3>1
  <2>4. ASSUME NEW i \in 1..Len(p) PROVE u[n + i] = p[i]
    <3>1. n + i \in 1..(Len(r) + Len(t))
      BY <1>2, <1>3, <2>1, <2>2
    <3>2. CASE i <= m
      <4>1. n + i <= Len(r) /\ i \in 1..(Len(r) - n)
        BY <1>2, <1>3, <1>8, <3>2
      <4>2. QED
        BY <1>6, <2>1, <3>1, <4>1
    <3>3. CASE ~(i <= m)
      <4>1. /\ ~(n + i <= Len(r)) /\ (n + i) - Len(r) = i - m /\ i - m \in 1..(Len(p) - m)
            /\ m + (i - m) = i
        BY <1>2, <1>3, <1>8, <3>3
      <4>2. QED
        BY <1>7, <2>1, <3>1, <4>1
    <3>4. QED
      BY <3>2, <3>3
  <2>5. QED
    <3>1. Len(u) - n <= Len(p) /\ \A i \in 1..(Len(u) - n) : u[n + i] = p[i]
      BY <1>2, <2>2, <2>4
    <3>2. QED
      BY <2>2, <2>3, <3>1 DEF Follows, u
<1>11. QED
  BY <1>9, <1>10 DEF p, first, d, r, t

-----------------------------------------------------------------------------
(* The stream *)

Gen == [pc : {"off", "read", "yield"}, delivered : PublicEvent \cup {Start},
        todo : Seq(PublicEvent)]
Minted(s, m) == \A i \in DOMAIN s : s[i].id <= m

(* A generator whose events still reach the Workbench *)
Live == conn = "open" /\ cut = FALSE /\ gen.pc # "off"

(* What was received, and with what is on its way to be, goes as far as    *)
(* what the generator delivered last: its todo is new to the Workbench.    *)
Streamed ==
    /\ received \in Seq(PublicEvent) /\ gen \in Gen
    /\ gen.pc # "yield" => gen.todo = <<>>
    /\ Minted(received, minted) /\ Minted(gen.todo, minted)
    /\ trace # <<>> => Follows(received, PublicEvents, trace[1].id)
    /\ Live => /\ gen.todo = <<>> => gen.delivered = LastReceived
               /\ Fresh(received, gen.todo)
               /\ trace # <<>> => Follows(received \o gen.todo, PublicEvents, trace[1].id)

(* What a step does to the stream *)
Elsewhere == UNCHANGED <<received, gen>> /\ (Live' => Live)
LetGo == UNCHANGED received /\ gen' = Off
Flows == GenRead \/ GenYield \/ GenSleeps \/ Connect \/ \E n \in 0..Len(gen.todo) : GenDrops(n)

LEMMA StreamMoves ==
    ASSUME Typed, cut \in BOOLEAN, [Next]_vars
    PROVE  Elsewhere \/ LetGo \/ Flows
<1>1. ASSUME UNCHANGED <<received, gen, cut, conn>> PROVE Elsewhere
  BY <1>1 DEF Elsewhere, Live
<1>2. CASE UNCHANGED vars
  BY <1>1, <1>2 DEF vars, stream, client
<1>3. ASSUME NEW k \in Ids, Segment(k) \/ \E approved \in BOOLEAN : Resume(k, approved)
      PROVE  UNCHANGED <<received, gen, cut, conn>>
  BY <1>3 DEF Segment, Begin, RecordGoal, StartQuery, FinishQuery, Answer, Captured, Pause, Halt,
              Clear, ClearFails, Reconcile, Persist, Resume, stream, client
<1>4. CASE \E o \in scene.others : OtherRun(o)
  BY <1>1, <1>4 DEF OtherRun, stream, client
<1>5. CASE GenEnds \/ NoticeDrop \/ Restart
  BY <1>5 DEF GenEnds, NoticeDrop, Restart, LetGo, client
<1>6. CASE Cut
  BY <1>6 DEF Cut, Elsewhere, Live, client
<1>7. CASE Refused
  BY <1>7 DEF Refused, OnError, Elsewhere, Live, stream
<1>8. CASE Poll
  BY <1>8 DEF Poll, Elsewhere, Live, stream
<1>9. CASE PollFails
  BY <1>1, <1>9 DEF PollFails, stream
<1>10. CASE \E k \in Ids : SettleResumed(k)
  BY <1>1, <1>10 DEF SettleResumed, stream
<1>11. QED
  BY <1>1, <1>2, <1>3, <1>4, <1>5, <1>6, <1>7, <1>8, <1>9, <1>10
  DEF Next, Generator, Workbench, Flows

(* What follows a trace's events still does after a step of it. *)
LEMMA FollowsStill ==
    ASSUME Traced, Projected, Projected', TraceMoves,
           NEW s \in Seq(PublicEvent), Minted(s, minted),
           trace # <<>> => Follows(s, PublicEvents, trace[1].id)
    PROVE  /\ Minted(s, minted')
           /\ trace' # <<>> => Follows(s, PublicEvents', trace'[1].id)
<1>1. /\ minted \in Nat /\ Len(s) \in Nat /\ DOMAIN s = 1..Len(s)
      /\ \A i \in DOMAIN s : s[i].id \in Nat
      /\ PublicEvents \in Seq(PublicEvent) /\ PublicEvents' \in Seq(PublicEvent)
  <2>1. Len(s) \in Nat /\ DOMAIN s = 1..Len(s) /\ s \in [1..Len(s) -> PublicEvent]
    BY LenProperties
  <2>2. QED
    BY <2>1 DEF PublicEvent, Traced, Projected
<1>2. CASE Kept2
  <2>1. PublicEvents' = PublicEvents
    BY <1>2, FlatOf DEF Kept2
  <2>2. QED
    BY <1>2, <2>1 DEF Kept2
<1>3. CASE Longer
  <2>1. PICK e \in Event : /\ trace # <<>> /\ trace' = Append(trace, e)
                           /\ e.id = minted + 1 /\ minted' = minted + 1
    BY <1>3 DEF Longer
  <2>2. /\ Len(PublicEvents') = Len(PublicEvents) + Len(Project(e))
        /\ \A i \in 1..Len(PublicEvents) : PublicEvents'[i] = PublicEvents[i]
        /\ trace'[1] = trace[1]
    BY <2>1, Extends
  <2>3. Len(PublicEvents) <= Len(PublicEvents')
    <3>1. Len(PublicEvents) \in Nat /\ Len(Project(e)) \in Nat
      BY <1>1, ProjectIs, LenProperties
    <3>2. QED
      BY <2>2, <3>1
  <2> DEFINE p == PublicEvents
             q == PublicEvents'
             first == trace[1].id
  <2>4. Follows(s, p, first)
    BY <2>1
  <2>5. p \in Seq(PublicEvent) /\ q \in Seq(PublicEvent) /\ Len(p) <= Len(q)
        /\ \A i \in 1..Len(p) : q[i] = p[i]
    BY <1>1, <2>2, <2>3
  <2> HIDE DEF p, q, first
  <2>6. Follows(s, q, first)
    BY <2>4, <2>5, FollowsMore
  <2>7. Minted(s, minted')
    BY <1>1, <2>1 DEF Minted
  <2>8. QED
    BY <2>2, <2>6, <2>7 DEF q, first
<1>4. CASE Anew
  <2>1. trace'[1].id = minted + 1 /\ minted' = minted + 1
    BY <1>4 DEF Anew
  <2>2. ASSUME NEW i \in 1..Len(s) PROVE s[i].id < trace'[1].id
    <3>1. s[i].id \in Nat /\ s[i].id <= minted
      BY <1>1 DEF Minted
    <3>2. QED
      BY <1>1, <2>1, <3>1
  <2>3. Minted(s, minted')
    BY <1>1, <2>1 DEF Minted
  <2> DEFINE q == PublicEvents'
             first == trace'[1].id
  <2> HIDE DEF q, first
  <2>4. Follows(s, q, first)
    <3>1. q \in Seq(PublicEvent) /\ \A i \in 1..Len(s) : s[i].id < first
      BY <1>1, <2>2 DEF q, first
    <3>2. QED
      BY <3>1, FollowsOlder
  <2>5. QED
    BY <2>3, <2>4 DEF q, first
<1>5. CASE Lost
  BY <1>5 DEF Lost
<1>6. QED
  BY <1>2, <1>3, <1>4, <1>5 DEF TraceMoves

LEMMA StreamTyped ==
    ASSUME received \in Seq(PublicEvent), gen \in Gen
    PROVE  /\ LastReceived \in PublicEvent \cup {Start}
           /\ gen.pc \in {"off", "read", "yield"} /\ gen.todo \in Seq(PublicEvent)
           /\ gen.delivered \in PublicEvent \cup {Start}
           /\ gen.todo # <<>> => Last(gen.todo) \in PublicEvent
<1>1. \A s \in Seq(PublicEvent) : s # <<>> => Last(s) \in PublicEvent
  <2> TAKE s \in Seq(PublicEvent)
  <2>1. s \in [1..Len(s) -> PublicEvent] /\ Len(s) \in Nat /\ (s # <<>> => Len(s) # 0)
    BY EmptySeq, LenProperties
  <2>2. QED
    BY <2>1 DEF Last
<1>2. gen.pc \in {"off", "read", "yield"} /\ gen.todo \in Seq(PublicEvent)
      /\ gen.delivered \in PublicEvent \cup {Start}
  BY DEF Gen
<1>3. QED
  BY <1>1, <1>2 DEF LastReceived

LEMMA FreshNone == ASSUME NEW r PROVE Fresh(r, <<>>)
BY DEF Fresh

(* A step that leaves the stream alone *)
LEMMA ElsewhereStreamed ==
    ASSUME Traced, Projected, Projected', TraceMoves, Streamed, Elsewhere
    PROVE  Streamed'
<1> DEFINE r == received
           t == gen.todo
           u == r \o t
<1>1. received' = r /\ gen' = gen /\ (Live' => Live)
  BY DEF Elsewhere
<1>2. r \in Seq(PublicEvent) /\ gen \in Gen /\ t \in Seq(PublicEvent)
  BY StreamTyped DEF Streamed
<1>3. u \in Seq(PublicEvent)
  BY <1>2, ConcatProperties
<1>4. Minted(r, minted) /\ Minted(t, minted)
  BY DEF Streamed
<1>5. Minted(r, minted') /\ (trace' # <<>> => Follows(r, PublicEvents', trace'[1].id))
  <2>1. trace # <<>> => Follows(r, PublicEvents, trace[1].id)
    BY DEF Streamed
  <2> HIDE DEF r
  <2>2. QED
    BY <1>2, <1>4, <2>1, FollowsStill
<1>6. Minted(t, minted')
  <2>1. minted \in Nat /\ minted' \in Nat /\ minted <= minted'
    BY DEF Traced, TraceMoves, Kept2, Longer, Anew, Lost
  <2>2. \A i \in DOMAIN t : t[i].id \in Nat
    <3>1. t \in [1..Len(t) -> PublicEvent]
      BY <1>2, LenProperties
    <3>2. QED
      BY <3>1 DEF PublicEvent
  <2> HIDE DEF t
  <2>3. QED
    BY <1>4, <2>1, <2>2 DEF Minted
<1>7. ASSUME Live
      PROVE  trace' # <<>> => Follows(u, PublicEvents', trace'[1].id)
  <2>1. trace # <<>> => Follows(u, PublicEvents, trace[1].id)
    BY <1>7 DEF Streamed
  <2>2. Minted(u, minted)
    <3>1. /\ Len(u) = Len(r) + Len(t) /\ DOMAIN u = 1..Len(u)
          /\ \A i \in 1..(Len(r) + Len(t)) : u[i] = IF i <= Len(r) THEN r[i] ELSE t[i - Len(r)]
      BY <1>2, <1>3, ConcatProperties, LenProperties
    <3>2. /\ DOMAIN r = 1..Len(r) /\ DOMAIN t = 1..Len(t) /\ Len(r) \in Nat /\ Len(t) \in Nat
      BY <1>2, LenProperties
    <3> HIDE DEF r, t, u
    <3>3. QED
      BY <1>4, <3>1, <3>2 DEF Minted
  <2> HIDE DEF u
  <2>3. QED
    BY <1>3, <2>1, <2>2, FollowsStill
<1>8. Live => /\ gen.todo = <<>> => gen.delivered = LastReceived
              /\ Fresh(received, gen.todo)
  BY DEF Streamed
<1>9. LastReceived' = LastReceived
  BY <1>1 DEF LastReceived
<1>10. gen.pc # "yield" => gen.todo = <<>>
  BY DEF Streamed
<1>11. QED
  BY <1>1, <1>2, <1>5, <1>6, <1>7, <1>8, <1>9, <1>10 DEF Streamed

(* A step at which the generator is gone *)
LEMMA LetGoStreamed ==
    ASSUME Traced, Projected, Projected', TraceMoves, Streamed, LetGo
    PROVE  Streamed'
<1>1. received' = received /\ gen' = Off
  BY DEF LetGo
<1>2. received \in Seq(PublicEvent) /\ Minted(received, minted)
      /\ (trace # <<>> => Follows(received, PublicEvents, trace[1].id))
  BY DEF Streamed
<1> DEFINE r == received
<1> HIDE DEF r
<1>3. Minted(r, minted') /\ (trace' # <<>> => Follows(r, PublicEvents', trace'[1].id))
  BY <1>2, FollowsStill DEF r
<1>4. Off \in Gen /\ Off.todo = <<>> /\ Off.pc = "off"
  BY DEF Off, Gen
<1>5. ~Live'
  BY <1>1, <1>4 DEF Live
<1>6. Minted(<<>>, minted')
  BY DEF Minted
<1>7. QED
  BY <1>1, <1>2, <1>3, <1>4, <1>5, <1>6 DEF Streamed, r

(* Events that are new to the Workbench reach it in order. *)
LEMMA Reaches ==
    ASSUME minted \in Nat, received \in Seq(PublicEvent), gen.todo \in Seq(PublicEvent),
           Minted(received, minted), Minted(gen.todo, minted), Fresh(received, gen.todo),
           trace # <<>> => Follows(received \o gen.todo, PublicEvents, trace[1].id),
           Projected, NEW n \in 0..Len(gen.todo)
    PROVE  LET heard == Heard(SubSeq(gen.todo, 1, n))
           IN  /\ heard \in Seq(PublicEvent) /\ Minted(heard, minted)
               /\ heard = received \o SubSeq(gen.todo, 1, n)
               /\ trace # <<>> => Follows(heard, PublicEvents, trace[1].id)
<1> DEFINE r == received
           t == gen.todo
           v == SubSeq(t, 1, n)
           u == r \o t
           w == r \o v
<1>1. /\ r \in Seq(PublicEvent) /\ Len(r) \in Nat /\ DOMAIN r = 1..Len(r)
      /\ t \in Seq(PublicEvent) /\ Len(t) \in Nat /\ DOMAIN t = 1..Len(t)
      /\ t \in [1..Len(t) -> PublicEvent] /\ n \in Nat /\ n <= Len(t)
  <2>1. Len(t) \in Nat
    BY LenProperties
  <2>2. QED
    BY <2>1, LenProperties
<1>2. v \in Seq(PublicEvent) /\ Len(v) = n /\ DOMAIN v = 1..n /\ \A i \in 1..n : v[i] = t[i]
  <2>1. \A i \in 1..n : t[i] \in PublicEvent
    BY <1>1
  <2> HIDE DEF t
  <2>2. /\ SubSeq(t, 1, n) \in Seq(PublicEvent)
        /\ Len(SubSeq(t, 1, n)) = IF 1 <= n THEN n - 1 + 1 ELSE 0
        /\ \A i \in 1..(n - 1 + 1) : SubSeq(t, 1, n)[i] = t[1 + i - 1]
    BY <1>1, <2>1, SubSeqProperties
  <2>3. n - 1 + 1 = n /\ (~(1 <= n) => n = 0)
    BY <1>1
  <2>4. \A i \in 1..n : 1 + i - 1 = i
    BY <1>1
  <2> HIDE DEF v
  <2>5. Len(v) = n
    BY <2>2, <2>3 DEF v
  <2>6. \A i \in 1..n : v[i] = t[i]
    BY <2>2, <2>3, <2>4 DEF v
  <2>7. v \in Seq(PublicEvent)
    BY <2>2 DEF v
  <2>8. QED
    BY <2>5, <2>6, <2>7, LenProperties
<1>3. /\ u \in Seq(PublicEvent) /\ Len(u) = Len(r) + Len(t)
      /\ \A i \in 1..(Len(r) + Len(t)) : u[i] = IF i <= Len(r) THEN r[i] ELSE t[i - Len(r)]
  BY <1>1, ConcatProperties
<1> HIDE DEF v
<1>4. /\ w \in Seq(PublicEvent) /\ Len(w) = Len(r) + n
      /\ \A i \in 1..(Len(r) + n) : w[i] = IF i <= Len(r) THEN r[i] ELSE v[i - Len(r)]
  BY <1>1, <1>2, ConcatProperties
<1>5. Fresh(r, v)
  <2>1. \A i \in 1..n : i \in DOMAIN t
    BY <1>1
  <2>2. Fresh(r, t)
    OBVIOUS
  <2> HIDE DEF r, t
  <2>3. QED
    BY <1>2, <2>1, <2>2 DEF Fresh
<1>6. Heard(v) = w
  BY <1>2, <1>5, HeardIs
<1> HIDE DEF r, t, u, w
<1>7. DOMAIN w = 1..(Len(r) + n)
  BY <1>4, LenProperties
<1>8. \A i \in 1..(Len(r) + n) : ~(i <= Len(r)) => i - Len(r) \in 1..n
  BY <1>1
<1>9. Minted(w, minted)
  <2>1. Minted(r, minted) /\ Minted(t, minted)
    BY DEF r, t
  <2>2. ASSUME NEW i \in 1..(Len(r) + n) PROVE w[i].id <= minted
    <3>1. CASE i <= Len(r)
      <4>1. i \in DOMAIN r /\ w[i] = r[i]
        BY <1>1, <1>4, <3>1
      <4>2. QED
        BY <2>1, <4>1 DEF Minted
    <3>2. CASE ~(i <= Len(r))
      <4>1. w[i] = v[i - Len(r)] /\ i - Len(r) \in 1..n
        BY <1>4, <1>8, <3>2
      <4>2. w[i] = t[i - Len(r)] /\ i - Len(r) \in DOMAIN t
        BY <1>1, <1>2, <4>1
      <4>3. QED
        BY <2>1, <4>2 DEF Minted
    <3>3. QED
      BY <3>1, <3>2
  <2>3. QED
    BY <1>7, <2>2 DEF Minted
<1>10. \A i \in 1..Len(w) : w[i] = u[i]
  <2> TAKE i \in 1..Len(w)
  <2>1. i \in 1..(Len(r) + n) /\ i \in 1..(Len(r) + Len(t))
    BY <1>1, <1>4
  <2>2. CASE i <= Len(r)
    BY <1>3, <1>4, <2>1, <2>2
  <2>3. CASE ~(i <= Len(r))
    BY <1>2, <1>3, <1>4, <1>8, <2>1, <2>3
  <2>4. QED
    BY <2>2, <2>3
<1>11. Len(w) <= Len(u)
  BY <1>1, <1>3, <1>4
<1>12. ASSUME trace # <<>> PROVE Follows(w, PublicEvents, trace[1].id)
  <2> DEFINE p == PublicEvents
             first == trace[1].id
  <2>1. Follows(u, p, first) /\ p \in Seq(PublicEvent)
    BY <1>12 DEF Projected, u, r, t
  <2> HIDE DEF p, first
  <2>2. Follows(w, p, first)
    BY <1>3, <1>4, <1>10, <1>11, <2>1, FollowsBegun
  <2>3. QED
    BY <2>2 DEF p, first
<1>13. QED
  BY <1>4, <1>6, <1>9, <1>12 DEF w, v, r, t

LEMMA GenReadStreamed ==
    ASSUME Traced, Projected, Streamed, GenRead
    PROVE  Streamed'
<1> DEFINE t == Undelivered(gen.delivered)
<1>1. /\ gen.pc = "read" /\ gen' = [gen EXCEPT !.pc = "yield", !.todo = t]
      /\ UNCHANGED <<received, conn, cut, trace, minted>>
  BY DEF GenRead, client
<1>2. /\ received \in Seq(PublicEvent) /\ gen \in Gen /\ gen.todo = <<>>
      /\ Minted(received, minted)
      /\ (trace # <<>> => Follows(received, PublicEvents, trace[1].id))
  BY <1>1 DEF Streamed
<1>3. PICK m \in 0..Len(PublicEvents) : t = SubSeq(PublicEvents, m + 1, Len(PublicEvents))
  BY UndeliveredIs
<1>4. t \in Seq(PublicEvent) /\ Minted(t, minted)
  <2> DEFINE p == PublicEvents
  <2>1. p \in Seq(PublicEvent) /\ \A i \in DOMAIN p : p[i].id <= minted
    BY DEF Projected
  <2> HIDE DEF p, t
  <2>2. Len(p) \in Nat /\ DOMAIN p = 1..Len(p)
    BY <2>1, LenProperties
  <2>3. m \in 0..Len(p) /\ t = SubSeq(p, m + 1, Len(p))
    BY <1>3 DEF p
  <2>4. /\ t \in Seq(PublicEvent) /\ Len(t) = Len(p) - m
        /\ \A i \in 1..(Len(p) - m) : t[i] = p[m + i]
    BY <2>1, <2>3, LaterIs
  <2>5. DOMAIN t = 1..(Len(p) - m)
    BY <2>4, LenProperties
  <2>6. \A i \in 1..(Len(p) - m) : m + i \in 1..Len(p)
    BY <2>2, <2>3
  <2>7. QED
    BY <2>1, <2>2, <2>4, <2>5, <2>6 DEF Minted
<1>5. trace = <<>> => t = <<>>
  <2> SUFFICES ASSUME trace = <<>> PROVE t = <<>>
    OBVIOUS
  <2>1. PublicEvents = <<>>
    BY DEF Projected
  <2>2. m = 0
    BY <1>3, <2>1
  <2>3. SubSeq(<<>>, 0 + 1, Len(<<>>)) = <<>>
    BY SubSeqEmpty
  <2> HIDE DEF t
  <2>4. QED
    BY <1>3, <2>1, <2>2, <2>3
<1>6. ASSUME Live
      PROVE  /\ gen.delivered = LastReceived /\ Fresh(received, t)
             /\ trace # <<>> => Follows(received \o t, PublicEvents, trace[1].id)
  <2>1. gen.delivered = LastReceived
    BY <1>2, <1>6 DEF Streamed
  <2>2. CASE trace = <<>>
    <3>1. t = <<>>
      BY <1>5, <2>2
    <3> HIDE DEF t
    <3>2. QED
      BY <2>1, <2>2, <3>1, FreshNone
  <2>3. CASE trace # <<>>
    BY <1>2, <2>1, <2>3, ReadsOn
  <2>4. QED
    BY <2>1, <2>2, <2>3
<1>7. PublicEvents' = PublicEvents
  BY <1>1, FlatOf
<1>8. LastReceived' = LastReceived
  BY <1>1 DEF LastReceived
<1> HIDE DEF t
<1>9. gen' \in Gen /\ gen'.pc = "yield" /\ gen'.todo = t /\ gen'.delivered = gen.delivered
  BY <1>1, <1>2, <1>4 DEF Gen
<1>10. Live' => Live
  BY <1>1 DEF Live
<1>11. QED
  BY <1>1, <1>2, <1>4, <1>6, <1>7, <1>8, <1>9, <1>10 DEF Streamed

LEMMA GenYieldStreamed ==
    ASSUME Traced, Projected, Streamed, cut \in BOOLEAN, GenYield
    PROVE  Streamed'
<1> DEFINE t == gen.todo
<1>1. /\ gen.pc = "yield" /\ t # <<>>
      /\ gen' = [gen EXCEPT !.delivered = Last(t), !.todo = <<>>]
      /\ UNCHANGED <<cut, trace, minted>>
  BY DEF GenYield, store
<1>2. /\ received \in Seq(PublicEvent) /\ gen \in Gen /\ t \in Seq(PublicEvent)
      /\ Minted(received, minted) /\ Minted(t, minted) /\ minted \in Nat
      /\ (trace # <<>> => Follows(received, PublicEvents, trace[1].id))
  BY StreamTyped DEF Streamed, Traced
<1>3. PublicEvents' = PublicEvents
  BY <1>1, FlatOf
<1>4. /\ gen' \in Gen /\ gen'.pc = "yield" /\ gen'.todo = <<>> /\ gen'.delivered = Last(t)
  <2>1. Last(t) \in PublicEvent /\ <<>> \in Seq(PublicEvent)
    BY <1>1, <1>2, StreamTyped
  <2>2. QED
    BY <1>1, <1>2, <2>1 DEF Gen
<1>5. Minted(<<>>, minted)
  BY DEF Minted
<1>6. CASE cut \/ conn # "open"
  <2>1. UNCHANGED <<received, conn>>
    BY <1>6 DEF GenYield, client
  <2>2. ~Live'
    BY <1>1, <1>6, <2>1 DEF Live
  <2>3. QED
    BY <1>1, <1>2, <1>3, <1>4, <1>5, <2>1, <2>2 DEF Streamed
<1>7. CASE ~(cut \/ conn # "open")
  <2>1. received' = Heard(t) /\ Live
    BY <1>1, <1>7 DEF GenYield, Live
  <2>2. /\ Fresh(received, t)
        /\ trace # <<>> => Follows(received \o t, PublicEvents, trace[1].id)
    BY <2>1 DEF Streamed
  <2>3. Len(t) \in 0..Len(t) /\ SubSeq(t, 1, Len(t)) = t
    BY <1>2, LenProperties, SubSeqFull
  <2>4. /\ received' \in Seq(PublicEvent) /\ Minted(received', minted)
        /\ received' = received \o t
        /\ trace # <<>> => Follows(received', PublicEvents, trace[1].id)
    <3>1. /\ Heard(t) \in Seq(PublicEvent) /\ Minted(Heard(t), minted)
          /\ Heard(t) = received \o t
          /\ trace # <<>> => Follows(Heard(t), PublicEvents, trace[1].id)
      BY <1>2, <2>2, <2>3, Reaches
    <3>2. QED
      BY <2>1, <3>1
  <2>5. LastReceived' = Last(t)
    <3>1. /\ Len(received \o t) = Len(received) + Len(t) /\ Len(t) \in Nat /\ Len(t) # 0
          /\ Len(received) \in Nat
          /\ \A i \in 1..(Len(received) + Len(t)) :
                 (received \o t)[i] = IF i <= Len(received) THEN received[i]
                                      ELSE t[i - Len(received)]
      BY <1>1, <1>2, ConcatProperties, LenProperties, EmptySeq
    <3> DEFINE a == Len(received)
               b == Len(t)
    <3>2. a + b \in 1..(a + b) /\ ~(a + b <= a) /\ (a + b) - a = b
      BY <3>1
    <3>3. (received \o t)[a + b] = t[b]
      BY <3>1, <3>2
    <3>4. Len(received') = a + b
      BY <2>4, <3>1
    <3>5. received' # <<>>
      BY <2>4, <3>1, <3>4, EmptySeq
    <3>6. QED
      BY <2>4, <3>3, <3>4, <3>5 DEF LastReceived, Last
  <2>6. received' \o <<>> = received'
    BY <2>4, ConcatEmptySeq
  <2>7. Fresh(received', <<>>)
    BY FreshNone
  <2>8. QED
    BY <1>1, <1>3, <1>4, <1>5, <2>4, <2>5, <2>6, <2>7 DEF Streamed
<1>8. QED
  BY <1>6, <1>7

LEMMA GenDropsStreamed ==
    ASSUME Traced, Projected, Streamed, cut \in BOOLEAN, NEW n \in 0..Len(gen.todo), GenDrops(n)
    PROVE  Streamed'
<1> DEFINE t == gen.todo
<1>1. /\ gen.pc = "yield" /\ n < Len(t) /\ conn = "open" /\ ~cut /\ cut' = TRUE
      /\ gen' = [gen EXCEPT !.delivered = Last(t), !.todo = <<>>]
      /\ received' = Heard(SubSeq(t, 1, n))
      /\ UNCHANGED <<trace, minted>>
  BY DEF GenDrops, store
<1>2. /\ received \in Seq(PublicEvent) /\ gen \in Gen /\ t \in Seq(PublicEvent)
      /\ Minted(received, minted) /\ Minted(t, minted) /\ minted \in Nat
  BY StreamTyped DEF Streamed, Traced
<1>3. Live
  BY <1>1 DEF Live
<1>4. /\ Fresh(received, t)
      /\ trace # <<>> => Follows(received \o t, PublicEvents, trace[1].id)
  BY <1>3 DEF Streamed
<1>5. /\ received' \in Seq(PublicEvent) /\ Minted(received', minted)
      /\ trace # <<>> => Follows(received', PublicEvents, trace[1].id)
  BY <1>1, <1>2, <1>4, Reaches
<1>6. PublicEvents' = PublicEvents
  BY <1>1, FlatOf
<1>7. gen' \in Gen /\ gen'.pc = "yield" /\ gen'.todo = <<>>
  <2>1. t # <<>>
    BY <1>1, <1>2
  <2>2. Last(t) \in PublicEvent /\ <<>> \in Seq(PublicEvent)
    BY <1>2, <2>1, StreamTyped
  <2>3. QED
    BY <1>1, <1>2, <2>2 DEF Gen
<1>8. ~Live'
  BY <1>1 DEF Live
<1>9. Minted(<<>>, minted)
  BY DEF Minted
<1>10. QED
  BY <1>1, <1>5, <1>6, <1>7, <1>8, <1>9 DEF Streamed

LEMMA GenSleepsStreamed == ASSUME Streamed, GenSleeps PROVE Streamed'
<1>1. /\ gen.pc = "yield" /\ gen.todo = <<>> /\ gen' = [gen EXCEPT !.pc = "read"]
      /\ UNCHANGED <<received, conn, cut, trace, minted>>
  BY DEF GenSleeps, client, store
<1>2. PublicEvents' = PublicEvents /\ LastReceived' = LastReceived
  BY <1>1, FlatOf DEF LastReceived
<1>3. gen' \in Gen /\ gen'.todo = gen.todo /\ gen'.delivered = gen.delivered
  BY <1>1 DEF Gen, Streamed
<1>4. Live' => Live
  BY <1>1 DEF Live
<1>5. QED
  BY <1>1, <1>2, <1>3, <1>4 DEF Streamed

LEMMA ConnectStreamed == ASSUME Streamed, Connect PROVE Streamed'
<1>1. /\ gen' = [pc |-> "read", delivered |-> LastReceived, todo |-> <<>>]
      /\ UNCHANGED <<received, trace, minted>>
  BY DEF Connect, store
<1>2. PublicEvents' = PublicEvents /\ LastReceived' = LastReceived
  BY <1>1, FlatOf DEF LastReceived
<1>3. /\ received \in Seq(PublicEvent) /\ Minted(received, minted)
      /\ (trace # <<>> => Follows(received, PublicEvents, trace[1].id))
  BY DEF Streamed
<1>4. LastReceived \in PublicEvent \cup {Start} /\ <<>> \in Seq(PublicEvent)
  BY StreamTyped DEF Streamed
<1>5. gen' \in Gen /\ gen'.todo = <<>> /\ gen'.delivered = LastReceived
  BY <1>1, <1>4 DEF Gen
<1>6. Fresh(received, <<>>) /\ Minted(<<>>, minted) /\ received \o <<>> = received
  BY <1>3, FreshNone, ConcatEmptySeq DEF Minted
<1>7. QED
  BY <1>1, <1>2, <1>3, <1>5, <1>6 DEF Streamed

LEMMA StepStreamed ==
    ASSUME Typed, ClientTyped, Traced, Projected, Streamed, [Next]_vars
    PROVE  Streamed'
<1>1. cut \in BOOLEAN
  BY DEF ClientTyped
<1>2. TraceMoves /\ Projected'
  BY StepMovesTrace, StepProjected
<1>3. CASE Elsewhere
  BY <1>2, <1>3, ElsewhereStreamed
<1>4. CASE LetGo
  BY <1>2, <1>4, LetGoStreamed
<1>5. CASE Flows
  BY <1>1, <1>5, GenReadStreamed, GenYieldStreamed, GenSleepsStreamed, ConnectStreamed,
     GenDropsStreamed DEF Flows
<1>6. QED
  BY <1>1, <1>3, <1>4, <1>5, StreamMoves

LEMMA InitStreamed == Init => Streamed
<1> SUFFICES ASSUME Init PROVE Streamed
  OBVIOUS
<1>1. received = <<>> /\ trace = <<>> /\ gen = Off
  BY DEF Init
<1>2. Off \in Gen /\ Off.todo = <<>> /\ Off.pc = "off"
  BY DEF Off, Gen
<1>3. Minted(<<>>, minted) /\ <<>> \in Seq(PublicEvent)
  BY DEF Minted
<1>4. QED
  BY <1>1, <1>2, <1>3 DEF Streamed, Live

(* What follows the trace's events is told of in order. *)
LEMMA FollowsTells ==
    ASSUME Projected, NEW s \in Seq(PublicEvent), Follows(s, PublicEvents, trace[1].id)
    PROVE  \E n \in 0..Len(s) : Tells(s, n)
<1> DEFINE p == PublicEvents
<1>1. p \in Seq(PublicEvent) /\ Len(p) \in Nat /\ Len(s) \in Nat
  BY LenProperties DEF Projected
<1>2. PICK n \in 0..Len(s) : /\ \A i \in 1..n : s[i].id < trace[1].id
                             /\ Len(s) - n <= Len(p)
                             /\ \A i \in 1..(Len(s) - n) : s[n + i] = p[i]
  BY DEF Follows
<1> DEFINE t == SubSeq(s, n + 1, Len(s))
           k == Len(s) - n
<1>3. t \in Seq(PublicEvent) /\ Len(t) = k /\ \A i \in 1..k : t[i] = s[n + i]
  BY <1>2, LaterIs
<1> HIDE DEF p, t
<1>4. k \in Nat /\ k <= Len(p)
  BY <1>1, <1>2
<1> HIDE DEF k
<1>5. /\ SubSeq(p, 1, k) \in Seq(PublicEvent) /\ Len(SubSeq(p, 1, k)) = k
      /\ \A i \in 1..k : SubSeq(p, 1, k)[i] = p[i]
  <2>1. \A i \in 1..k : p[i] \in PublicEvent
    <3>1. p \in [1..Len(p) -> PublicEvent]
      BY <1>1, LenProperties
    <3>2. \A i \in 1..k : i \in 1..Len(p)
      BY <1>1, <1>4
    <3>3. QED
      BY <3>1, <3>2
  <2>2. /\ SubSeq(p, 1, k) \in Seq(PublicEvent)
        /\ Len(SubSeq(p, 1, k)) = IF 1 <= k THEN k - 1 + 1 ELSE 0
        /\ \A i \in 1..(k - 1 + 1) : SubSeq(p, 1, k)[i] = p[1 + i - 1]
    BY <1>4, <2>1, SubSeqProperties
  <2>3. k - 1 + 1 = k /\ (~(1 <= k) => k = 0)
    BY <1>4
  <2>4. \A i \in 1..k : 1 + i - 1 = i
    BY <1>4
  <2>5. QED
    BY <2>2, <2>3, <2>4
<1>6. SubSeq(t, 1, Len(t)) = SubSeq(p, 1, Len(t))
  <2>1. SubSeq(t, 1, Len(t)) = t
    BY <1>3, SubSeqFull
  <2>2. t = SubSeq(p, 1, k)
    <3> DEFINE q == SubSeq(p, 1, k)
    <3>1. \A i \in 1..Len(t) : t[i] = q[i]
      BY <1>2, <1>3, <1>5 DEF k, p
    <3> HIDE DEF q
    <3>2. q \in Seq(PublicEvent) /\ Len(t) = Len(q)
      BY <1>3, <1>5 DEF q
    <3>3. t = q
      BY <1>3, <3>1, <3>2, SeqEqual
    <3>4. QED
      BY <3>3 DEF q
  <2>3. QED
    BY <1>3, <2>1, <2>2
<1>7. IsPrefix(t, p)
  BY <1>3, <1>4, <1>6 DEF IsPrefix
<1>8. QED
  BY <1>2, <1>7 DEF Tells, t, p

LEMMA StreamedInvariant == Spec => [](RunInv /\ ClientInv /\ Projected /\ Streamed)
<1>1. RunInv /\ ClientInv /\ Projected /\ [Next]_vars => Projected'
  BY StepProjected DEF RunInv
<1>2. RunInv /\ ClientInv /\ Projected /\ Streamed /\ [Next]_vars => Streamed'
  BY StepStreamed DEF RunInv, ClientInv
<1>3. QED
  BY <1>1, <1>2, InitProjected, InitStreamed, StreamInvariant, PTL DEF Spec

(* A reader of the stream is told the run's story once, in order and to    *)
(* its end, or learns that it was not: what the Workbench has of the       *)
(* stored trace is a prefix of its public events whatever connection broke *)
(* or process restarted on the way (run_manager.py stream_events,          *)
(* use-run-stream.ts), a trace tells one ending and nothing after it       *)
(* whichever coroutine wrote it, and a run is given up only after its      *)
(* terminal event or a fault (use-agent-run.ts).                           *)
THEOREM StreamIsAlwaysFaithful == Spec => []StreamIsFaithful
<1>1. Traced /\ Projected /\ Streamed => ReceivedInOrder
  <2> SUFFICES ASSUME Traced, Projected, Streamed, Stored(Run)
               PROVE  \E n \in 0..Len(received) : Tells(received, n)
    BY DEF ReceivedInOrder
  <2>1. /\ trace # <<>> /\ received \in Seq(PublicEvent)
        /\ Follows(received, PublicEvents, trace[1].id)
    BY DEF Traced, Streamed
  <2> DEFINE r == received
  <2> HIDE DEF r
  <2>2. \E n \in 0..Len(r) : Tells(r, n)
    BY <2>1, FollowsTells DEF r
  <2>3. QED
    BY <2>2 DEF r
<1>2. RunInv /\ ClientInv /\ Projected /\ Streamed =>
          ReceivedInOrder /\ EndsOnce /\ GivesUpAfterFault
  BY <1>1 DEF RunInv, ClientInv
<1>3. QED
  BY <1>2, StreamedInvariant, TraceTypeCorrect, PTL DEF StreamIsFaithful

=============================================================================
