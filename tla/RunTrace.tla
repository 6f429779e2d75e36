------------------------------ MODULE RunTrace ------------------------------
(***************************************************************************)
(* One run as the outside sees it: the coroutines that execute it (the     *)
(* first one and one more for every approval that resumes it), the         *)
(* process-local trace they write among the traces of other runs, the      *)
(* record the run manager answers from, the generator that streams the     *)
(* trace to the Workbench, and the Workbench that decides from the stream  *)
(* and from polling when the run is over.                                  *)
(*                                                                         *)
(* What the loop decides is AgentRun's subject and who may resume a run    *)
(* ApprovalFlow's; here a segment of the run asks queries, pauses, answers *)
(* or fails.  Of the trace, the events that number queries and those the   *)
(* stream projects are kept; the others are internal.                      *)
(***************************************************************************)
EXTENDS Integers, Sequences, FiniteSets, SequencesExt

CONSTANTS
    Run,             \* the run
    OtherRuns,       \* the other runs traced by this process
    MaxTraces,       \* max_traces
    PollAttempts,    \* RESULT_POLL_ATTEMPTS
    Segments,        \* bound: coroutines of the run, the first one included
    Scenes,          \* bounds: see Scene
    Gone             \* no record of the run in this process

ASSUME TraceAssumption ==
    /\ MaxTraces \in Nat \ {0} /\ PollAttempts \in Nat \ {0}
    /\ Segments \in Nat \ {0}
    /\ Run \notin OtherRuns /\ IsFiniteSet(OtherRuns)

(* A scene bounds the queries and the faults (connections lost, restarts,  *)
(* failed calls), says which kinds of fault there are, which other runs    *)
(* are busy and whether a Workbench watches.                               *)
FaultKinds == {"drop", "restart", "poll", "clear"}
ASSUME SceneAssumption ==
    \A s \in Scenes : /\ s.queries \in Nat /\ s.faults \in Nat /\ s.kinds \subseteq FaultKinds
                     /\ s.others \subseteq OtherRuns /\ s.watched \in BOOLEAN

ASSUME GoneAssumption ==
    Gone \notin [status : {"running", "completed", "failed", "waiting"},
                 answered : BOOLEAN, finished : BOOLEAN]

VARIABLES
    scene,      \* the bounds of this behaviour
    order,      \* ids of the stored traces, the least recently used first
    trace,      \* events of Run's trace, <<>> when it is not stored
    minted,     \* event ids handed out
    pc, result, \* per segment: where its coroutine is, how it ended
    approval,   \* the segment whose approval waits to be decided, 0: none
    queries,    \* how many queries the run asked
    asking,     \* the id of the query being executed
    seen,       \* the successful queries the model saw: id and which one
    answer,     \* sources shown with the answer: what was meant, what is shown
    memories,   \* segments whose goal is in working memory
    managed, db,          \* the manager's record, the status in the database
    gen, cut,             \* the streaming generator, its connection broken
    conn, bench, received,\* the Workbench's EventSource, state and events
    faults,               \* faults of each kind so far
    replaced, overlap     \* history: the trace was lost and begun anew; a
                          \* segment began before the one it resumes unwound

store == <<order, trace, minted>>
work == <<queries, asking, seen, answer>>
run == <<pc, result, approval, memories, managed, db>>
stream == <<gen, cut>>
client == <<conn, bench, received>>
history == <<scene, faults, replaced, overlap>>
vars == <<store, work, run, stream, client, history>>

Ids == 1..Segments
Start == [id |-> 0, agent |-> FALSE, type |-> "none"]
Off == [pc |-> "off", delivered |-> Start, todo |-> <<>>]
Event == [id : Nat, type : {"started", "validation", "query", "tool", "finished", "failed"},
          query : Nat, real : Nat]
Terminal(e) == e.type \in {"finished", "failed"}

Init ==
    /\ scene \in Scenes
    /\ order = <<>> /\ trace = <<>> /\ minted = 0
    /\ pc = [k \in Ids |-> IF k = 1 THEN "created" ELSE "off"]
    /\ result = [k \in Ids |-> "none"] /\ approval = 0
    /\ queries = 0 /\ asking = 0 /\ seen = <<>> /\ answer = {}
    /\ memories = {} /\ db = "running"
    /\ managed = [status |-> "running", answered |-> FALSE, finished |-> FALSE]
    /\ gen = Off /\ cut = FALSE /\ received = <<>>
    /\ conn = IF scene.watched THEN "connecting" ELSE "closed"
    /\ bench = [mode |-> "watching", settled |-> FALSE, polls |-> 0,
                terminal |-> FALSE, shown |-> "none"]
    /\ faults = [f \in FaultKinds |-> 0]
    /\ replaced = FALSE /\ overlap = FALSE

-----------------------------------------------------------------------------
(* Faults *)

Happened(f) == faults[f] > 0
MoreFaults == FoldFunction(+, 0, faults) < scene.faults
Fault(f) ==
    /\ f \in scene.kinds /\ MoreFaults
    /\ faults' = [faults EXCEPT ![f] = @ + 1]

(* The trace store *)

Stored(r) == Contains(order, r)

(* InMemoryTraceStore.get and save: the trace becomes the most recent, the *)
(* oldest make room.                                                       *)
Latest(r) ==
    Append(IF Stored(r) THEN RemoveAt(order, CHOOSE i \in DOMAIN order : order[i] = r) ELSE order, r)
Used(r) == IF Stored(r) THEN Latest(r) ELSE order
Saved(r) ==
    LET all == Latest(r)
    IN  SubSeq(all, IF Len(all) > MaxTraces THEN Len(all) - MaxTraces + 1 ELSE 1, Len(all))

(* TraceRecorder.record and finish_run: a trace that is gone stays gone *)
NewEvent(type) == <<[id |-> minted + 1, type |-> type, query |-> 0, real |-> 0]>>
Record(events) ==
    /\ order' = Used(Run)
    /\ IF Stored(Run)
       THEN trace' = trace \o events /\ minted' = minted + Len(events)
       ELSE UNCHANGED <<trace, minted>>

(* TraceRecorder.start_run, after the events a resumed segment recorded *)
StartRun(events) ==
    IF Stored(Run) THEN Record(events) /\ UNCHANGED replaced
    ELSE /\ order' = Saved(Run) /\ trace' = NewEvent("started")
         /\ minted' = minted + 1 /\ replaced' = (minted > 0)

(* Another run's events are recorded or read; ours may be the one evicted. *)
OtherRun(o) ==
    /\ order' \in {Used(o), Saved(o)} /\ order' # order
    /\ trace' = IF Contains(order', Run) THEN trace ELSE <<>>
    /\ UNCHANGED <<minted, work, run, stream, client, history>>

-----------------------------------------------------------------------------
(* The coroutines of the run *)

Goto(k, where) == pc' = [pc EXCEPT ![k] = where]

Begin(k) ==
    /\ k = 1 /\ pc[k] = "created" /\ Goto(k, "begun")
    /\ StartRun(<<>>)
    /\ UNCHANGED <<result, approval, memories, managed, db, work, stream, client, scene, faults, overlap>>

(* resume_approval and resume_rejection: an approved call runs, a refused  *)
(* one becomes an observation, and the loop is entered again.              *)
Unwound(k) == pc[k] \in {"persisting", "done", "dead"}
Resume(k, approved) ==
    /\ k > 1 /\ approval = k - 1 /\ approval' = 0
    /\ Goto(k, "begun")
    /\ StartRun(IF approved THEN NewEvent("tool") ELSE <<>>)
    /\ overlap' = (overlap \/ ~Unwound(k - 1))
    /\ UNCHANGED <<result, memories, managed, db, work, stream, client, scene, faults>>

(* MemoryStep.retrieve, then record_goal *)
RecordGoal(k) ==
    /\ pc[k] = "begun" /\ Goto(k, "loop")
    /\ memories' = memories \cup {k}
    /\ UNCHANGED <<result, approval, managed, db, store, work, stream, client, history>>

(* Mutant: the number a query has before it is numbered within its run. *)
UnnumberedId == 1

(* _query_run_context: queries are numbered by what the trace holds *)
NextQueryId ==
    1 + Cardinality({i \in DOMAIN trace : trace[i].type = "validation"})

(* _query_trace_start, before the tool is awaited *)
StartQuery(k) ==
    /\ pc[k] = "loop" /\ queries < scene.queries
    /\ Goto(k, "querying")
    /\ queries' = queries + 1 /\ asking' = NextQueryId
    /\ Record(<<[id |-> minted + 1, type |-> "validation", query |-> NextQueryId, real |-> 0]>>)
    /\ UNCHANGED <<result, approval, memories, managed, db, seen, answer, stream, client, history>>

(* _query_trace_finish: only a query that succeeded becomes evidence *)
FinishQuery(k, success) ==
    /\ pc[k] = "querying" /\ Goto(k, "loop")
    /\ Record(IF success
              THEN <<[id |-> minted + 1, type |-> "query", query |-> asking, real |-> queries]>>
              ELSE <<>>)
    /\ seen' = IF success THEN Append(seen, [id |-> asking, real |-> queries]) ELSE seen
    /\ asking' = 0
    /\ UNCHANGED <<result, approval, memories, managed, db, queries, answer, stream, client, history>>

(* query_ledger: the last completed query of an id; resolve_citations      *)
(* drops what the ledger does not know.                                    *)
InLedger(i) == trace[i].type = "query"
Cited(c, i) ==
    /\ InLedger(i) /\ trace[i].query = c.id
    /\ \A j \in (i + 1)..Len(trace) : ~(InLedger(j) /\ trace[j].query = c.id)
Resolved(cited) ==
    UNION {{[id |-> c.id, meant |-> c.real, shown |-> trace[i].real] :
              i \in {i \in DOMAIN trace : Cited(c, i)}} : c \in cited}

(* A final answer is accepted; the curated memories are written next. *)
Answer(k, cited) ==
    /\ pc[k] = "loop" /\ Goto(k, "capturing")
    /\ answer' = Resolved(cited)
    /\ order' = Used(Run)
    /\ UNCHANGED <<trace, minted, result, approval, memories, managed, db, queries, asking,
                   seen, stream, client, history>>

End(k, how) == result' = [result EXCEPT ![k] = how]
EndEvent(how) == NewEvent(IF how = "completed" THEN "finished" ELSE "failed")

(* _finish_run of a completed run, after the await of its memories *)
Captured(k) ==
    /\ pc[k] = "capturing" /\ Goto(k, "clearing") /\ End(k, "completed")
    /\ Record(EndEvent("completed"))
    /\ UNCHANGED <<approval, memories, managed, db, work, stream, client, history>>

(* A limit stops the run, or an exception leaves the loop. *)
Halt(k, how) ==
    /\ pc[k] = "loop" /\ Goto(k, "clearing") /\ End(k, how)
    /\ Record(EndEvent(how))
    /\ UNCHANGED <<approval, memories, managed, db, work, stream, client, history>>

(* _pause_for_approval: the request can be decided from here on *)
Pause(k) ==
    /\ pc[k] = "loop" /\ k < Segments /\ Goto(k, "clearing") /\ End(k, "waiting")
    /\ approval' = k /\ Record(<<>>)
    /\ UNCHANGED <<memories, managed, db, work, stream, client, history>>

Outcome(k) == [status |-> IF result[k] = "raised" THEN "failed" ELSE result[k],
               answered |-> result[k] = "completed", finished |-> TRUE]

(* The end of AgentRunner.run and, without another await, the manager's   *)
(* record of a run it started itself.                                      *)
Report(k) ==
    IF k = 1 THEN Goto(k, "persisting") /\ managed' = Outcome(k)
    ELSE /\ Goto(k, IF result[k] = "raised" THEN "done" ELSE "completing")
         /\ UNCHANGED managed

(* The finally of run(): the run's working memory, whoever wrote it *)
Clear(k) ==
    /\ pc[k] = "clearing" /\ Report(k) /\ memories' = {}
    /\ UNCHANGED <<result, approval, db, store, work, stream, client, history>>

(* It is best effort: a failure leaves some of it behind. *)
ClearFails(k, left) ==
    /\ pc[k] = "clearing" /\ Report(k) /\ Fault("clear")
    /\ left \subseteq memories /\ memories' = left
    /\ UNCHANGED <<result, approval, db, store, work, stream, client, scene, replaced, overlap>>

(* reconcile_resumed_run, once the approval's execution is on disk *)
Reconcile(k) ==
    /\ pc[k] = "completing" /\ Goto(k, "persisting")
    /\ managed' = IF managed = Gone THEN Gone ELSE Outcome(k)
    /\ UNCHANGED <<result, approval, memories, db, store, work, stream, client, history>>

Persist(k) ==
    /\ pc[k] = "persisting" /\ Goto(k, "done") /\ db' = Outcome(k).status
    /\ UNCHANGED <<result, approval, memories, managed, store, work, stream, client, history>>

-----------------------------------------------------------------------------
(* The stream *)

(* AgentRunManager._project *)
Public(e, agent, type) == [id |-> e.id, agent |-> agent, type |-> type]
Project(e) ==
    CASE e.type = "started" -> <<Public(e, FALSE, "run.started"), Public(e, TRUE, "agent.started")>>
      [] e.type = "finished" -> <<Public(e, TRUE, "agent.completed"), Public(e, FALSE, "run.completed")>>
      [] e.type = "failed" -> <<Public(e, FALSE, "run.failed")>>
      [] e.type = "query" -> <<Public(e, FALSE, "sql.query_completed")>>
      [] e.type = "tool" -> <<Public(e, FALSE, "tool.completed")>>
      [] e.type = "validation" -> <<>>
PublicEvents ==
    LET public[i \in 0..Len(trace)] == IF i = 0 THEN <<>> ELSE public[i - 1] \o Project(trace[i])
    IN  public[Len(trace)]

SameId(p, q) == p.id = q.id /\ p.agent = q.agent

(* Mutant: the event after the last delivered one is skipped. *)
UndeliveredButOne(delivered) ==
    LET events == PublicEvents
        at == {i \in DOMAIN events : SameId(events[i], delivered)}
    IN  IF at = {} THEN events
        ELSE SubSeq(events, (CHOOSE i \in at : TRUE) + 2, Len(events))

(* The events after the last one delivered; all when it is unknown *)
Undelivered(delivered) ==
    LET events == PublicEvents
        at == {i \in DOMAIN events : SameId(events[i], delivered)}
    IN  IF at = {} THEN events
        ELSE SubSeq(events, (CHOOSE i \in at : TRUE) + 1, Len(events))

LastReceived == IF received = <<>> THEN Start ELSE Last(received)

(* stream_events: a run of an earlier process is answered 410 *)
Connect ==
    /\ conn = "connecting" /\ managed # Gone
    /\ conn' = "open" /\ cut' = FALSE
    /\ gen' = [pc |-> "read", delivered |-> LastReceived, todo |-> <<>>]
    /\ UNCHANGED <<bench, received, store, work, run, history>>

GenRead ==
    /\ gen.pc = "read" /\ gen' = [gen EXCEPT !.pc = "yield", !.todo = Undelivered(gen.delivered)]
    /\ order' = Used(Run)
    /\ UNCHANGED <<trace, minted, cut, client, work, run, history>>

-----------------------------------------------------------------------------
(* The Workbench *)

(* settle: once per run, whichever signal came first *)
Settle(b) == IF b.settled THEN b ELSE [b EXCEPT !.mode = "settling", !.settled = TRUE, !.polls = 0]

(* The handler of an event: only a terminal one, always the last of the    *)
(* trace, does more than show a status.                                    *)
OnStatus(e) ==
    CASE e.type = "run.completed" -> /\ bench' = Settle([bench EXCEPT !.terminal = TRUE])
                                     /\ UNCHANGED conn
      [] e.type = "run.failed" -> /\ bench' = [bench EXCEPT !.terminal = TRUE, !.shown = "failed"]
                                  /\ conn' = "closed"
      [] OTHER -> UNCHANGED <<bench, conn>>

(* Mutant: a stream that ends by itself is not worth a look. *)
OnErrorIgnored(next) == UNCHANGED bench /\ conn' = next

(* onerror: after a terminal event the server closing its stream is no     *)
(* news; the browser connects again unless the source was closed.          *)
OnError(next) ==
    /\ bench' = IF bench.terminal THEN bench ELSE Settle(bench)
    /\ conn' = next

(* Events come in one by one; one that is known by its id is left out. *)
Repeated(events, i) ==
    \/ \E j \in DOMAIN received : SameId(received[j], events[i])
    \/ \E j \in 1..(i - 1) : SameId(events[j], events[i])
Heard(events) ==
    LET new[i \in 0..Len(events)] ==
            IF i = 0 THEN <<>>
            ELSE new[i - 1] \o (IF Repeated(events, i) THEN <<>> ELSE <<events[i]>>)
    IN  received \o new[Len(events)]

(* The events read go out one after another; a connection that broke      *)
(* swallows them, and GenDrops is the one that breaks on the way.  What    *)
(* the Workbench does with one of them never waits for the next.           *)
GenYield ==
    /\ gen.pc = "yield" /\ gen.todo # <<>>
    /\ gen' = [gen EXCEPT !.delivered = Last(gen.todo), !.todo = <<>>]
    /\ IF cut \/ conn # "open" THEN UNCHANGED client
       ELSE received' = Heard(gen.todo) /\ OnStatus(Last(gen.todo))
    /\ UNCHANGED <<cut, store, work, run, history>>

GenDrops(n) ==
    /\ gen.pc = "yield" /\ n < Len(gen.todo) /\ Fault("drop")
    /\ conn = "open" /\ ~cut /\ cut' = TRUE
    /\ gen' = [gen EXCEPT !.delivered = Last(gen.todo), !.todo = <<>>]
    /\ received' = Heard(SubSeq(gen.todo, 1, n))
    /\ UNCHANGED <<conn, bench, store, work, run, scene, replaced, overlap>>

(* Everything read is out: the stream ends with the run, or when its       *)
(* client is gone, and otherwise sleeps and reads again.                   *)
GenEnds ==
    /\ gen.pc = "yield" /\ gen.todo = <<>> /\ (managed.finished \/ cut \/ conn # "open")
    /\ gen' = Off
    /\ IF cut \/ conn # "open" THEN UNCHANGED <<bench, conn>> ELSE OnError("connecting")
    /\ UNCHANGED <<cut, received, store, work, run, history>>

GenSleeps ==
    /\ gen.pc = "yield" /\ gen.todo = <<>>
    /\ ~managed.finished /\ ~cut /\ conn = "open"
    /\ gen' = [gen EXCEPT !.pc = "read"]
    /\ UNCHANGED <<cut, client, store, work, run, history>>

Cut ==
    /\ conn = "open" /\ ~cut /\ Fault("drop") /\ cut' = TRUE
    /\ UNCHANGED <<gen, client, store, work, run, scene, replaced, overlap>>

(* The browser notices; the old generator's end changes nothing any more. *)
NoticeDrop ==
    /\ cut /\ cut' = FALSE /\ gen' = Off
    /\ IF conn = "open" THEN OnError("connecting") ELSE UNCHANGED <<bench, conn>>
    /\ UNCHANGED <<received, store, work, run, history>>

(* 410: a browser does not connect again after a refusal. *)
Refused ==
    /\ conn = "connecting" /\ managed = Gone /\ OnError("refused")
    /\ UNCHANGED <<received, stream, store, work, run, history>>

(* get_run: the record of this process, else the database row *)
RunStatus == IF managed = Gone THEN db ELSE managed.status
LastAttempt == bench.polls + 1 = PollAttempts

(* What settle shows; "gaveup" is the "ended without an answer" it shows   *)
(* of a run that is still running.                                         *)
Shown == CASE RunStatus = "completed" -> "answer"
           [] RunStatus = "waiting" -> "waiting"
           [] RunStatus = "failed" -> "failed"
           [] RunStatus = "running" -> "gaveup"

Poll ==
    /\ bench.mode = "settling"
    /\ IF RunStatus # "running" \/ LastAttempt
       THEN /\ bench' = [bench EXCEPT !.mode = "idle", !.shown = Shown]
            /\ conn' = "closed"
       ELSE /\ bench' = [bench EXCEPT !.polls = @ + 1]
            /\ UNCHANGED conn
    /\ UNCHANGED <<received, stream, store, work, run, history>>

(* getRun fails: the settling is over, and never begins again. *)
PollFails ==
    /\ bench.mode = "settling" /\ Fault("poll")
    /\ bench' = [bench EXCEPT !.mode = "watching"]
    /\ UNCHANGED <<conn, received, stream, store, work, run, scene, replaced, overlap>>

(* The user's own decision has come back: settle again. *)
SettleResumed(k) ==
    /\ k > 1 /\ pc[k] = "done" /\ bench.shown = "waiting"
    /\ bench' = [Settle([bench EXCEPT !.settled = FALSE]) EXCEPT !.shown = "none"]
    /\ UNCHANGED <<conn, received, stream, store, work, run, history>>

-----------------------------------------------------------------------------
(* The process stops and starts: coroutines, traces, records and streams   *)
(* are gone; approvals and working memory are not.                         *)
Restart ==
    /\ Fault("restart")
    /\ pc' = [k \in Ids |-> IF pc[k] \in {"off", "done"} THEN pc[k] ELSE "dead"]
    /\ order' = <<>> /\ trace' = <<>> /\ managed' = Gone /\ gen' = Off
    /\ cut' = (conn = "open" \/ cut) /\ asking' = 0
    /\ UNCHANGED <<minted, queries, seen, answer, result, approval, memories, db,
                   client, scene, replaced, overlap>>

Segment(k) ==
    \/ Begin(k) \/ RecordGoal(k) \/ StartQuery(k)
    \/ \E success \in BOOLEAN : FinishQuery(k, success)
    \/ \E cited \in {{}} \cup {{c} : c \in ToSet(seen)} : Answer(k, cited)
    \/ Captured(k) \/ Pause(k)
    \/ \E how \in {"failed", "raised"} : Halt(k, how)
    \/ Clear(k) \/ (\E left \in SUBSET memories : ClearFails(k, left))
    \/ Reconcile(k) \/ Persist(k)
Generator == GenRead \/ GenYield \/ GenEnds \/ GenSleeps
Workbench == Connect \/ Refused \/ NoticeDrop \/ Poll

Next ==
    \/ \E k \in Ids : Segment(k)
    \/ \E k \in Ids, approved \in BOOLEAN : Resume(k, approved)
    \/ Generator \/ Workbench
    \/ \E o \in scene.others : OtherRun(o)
    \/ (\E n \in 0..Len(gen.todo) : GenDrops(n))
    \/ Cut \/ PollFails \/ Restart
    \/ \E k \in Ids : SettleResumed(k)

(* The event loop runs a coroutine that can run, a generator being read    *)
(* and a browser's timers; nobody has to decide an approval, and no fault  *)
(* has to happen.                                                          *)
Fairness ==
    /\ \A k \in Ids : WF_vars(Segment(k))
    /\ WF_vars(Generator) /\ WF_vars(Connect) /\ WF_vars(Refused)
    /\ WF_vars(NoticeDrop) /\ WF_vars(Poll)
Spec == Init /\ [][Next]_vars /\ Fairness

-----------------------------------------------------------------------------
(* Properties *)

(* Type correctness of the trace, the coroutines and the client. *)
TypeOK ==
    /\ Len(order) <= MaxTraces /\ ToSet(order) \subseteq OtherRuns \cup {Run}
    /\ IsInjective(order)
    /\ trace \in Seq(Event) /\ (Stored(Run) <=> trace # <<>>)
    /\ \A i, j \in DOMAIN trace : (i < j) => trace[i].id < trace[j].id
    /\ pc \in [Ids -> {"created", "off", "begun", "loop", "querying", "capturing", "clearing",
                       "completing", "persisting", "done", "dead"}]
    /\ result \in [Ids -> {"none", "completed", "failed", "raised", "waiting"}]
    /\ approval \in 0..Segments /\ memories \subseteq Ids
    /\ db \in {"running", "completed", "failed", "waiting"}
    /\ conn \in {"connecting", "open", "refused", "closed"} /\ cut \in BOOLEAN
    /\ bench.shown \in {"none", "answer", "waiting", "failed", "gaveup"}

(* What the Workbench received of the stored trace, after what it had of   *)
(* one that was lost, is a prefix of its public events: reconnecting with  *)
(* the last event id leaves no gap, no repetition and no disorder,         *)
(* whatever was lost on the way.                                           *)
Tells(events, n) ==
    /\ \A i \in 1..n : events[i].id < trace[1].id
    /\ IsPrefix(SubSeq(events, n + 1, Len(events)), PublicEvents)
ReceivedInOrder ==
    Stored(Run) => \E n \in 0..Len(received) : Tells(received, n)

(* A run's trace tells one ending and nothing after it, though several     *)
(* coroutines write it one after another.                                  *)
EndsOnce == \A i \in DOMAIN trace : Terminal(trace[i]) => i = Len(trace)

(* A shown source is the query the model meant: ids are given out by       *)
(* counting the trace, so only a trace begun anew can give one twice.      *)
EvidenceIsMeant == replaced \/ \A s \in answer : s.shown = s.meant

(* The doc of _resolved_sources: only cited evidence is shown. *)
OnlyCitedEvidence == \A s \in answer : s.shown = s.meant

(* The loop's context always has the goal in working memory, unless the    *)
(* segment that paused was still unwinding when the next one began.        *)
GoalIsInContext ==
    \A k \in Ids : (pc[k] \in {"loop", "querying"} /\ ~overlap) => k \in memories

(* Working memory outlives its run only after a fault. *)
LeaksAreFaults ==
    (\A k \in Ids : pc[k] \in {"off", "done"}) =>
        memories = {} \/ Happened("clear") \/ Happened("restart")

(* The Workbench reports a run that is still going as ended only after a   *)
(* fault, or between the terminal event and the record of it.              *)
GivesUpAfterFault ==
    bench.shown = "gaveup" => bench.terminal \/ Happened("drop") \/ Happened("restart")

(* A reader of the stream is told the run's story once, in order and to    *)
(* its end, or learns that it was not.                                     *)
StreamIsFaithful == TypeOK /\ ReceivedInOrder /\ EndsOnce /\ GivesUpAfterFault

(* A run keeps to its own: its sources are its queries, its goal is in its *)
(* working memory and goes with it.                                        *)
RunKeepsItsOwn == EvidenceIsMeant /\ GoalIsInContext /\ LeaksAreFaults

(* Once the run's first coroutine has finished, paused or not, the         *)
(* Workbench gets to show something, unless a poll of it failed.           *)
EndIsShown ==
    (scene.watched /\ pc[1] = "done") ~> (bench.shown # "none" \/ Happened("poll"))

=============================================================================
