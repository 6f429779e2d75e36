---------------------------- MODULE ApprovalFlow ----------------------------
(***************************************************************************)
(* The approval checkpoints of one conversation's run, as the file store,  *)
(* the approve and reject routes, the runner's resume functions and the    *)
(* run manager carry them out.  The run's first coroutine (Main) and every *)
(* HTTP request are tasks of one event loop, which may switch between them *)
(* at each await: one action is what a task does between two of them.      *)
(* What the run does while a task drives it is AgentRun.                   *)
(***************************************************************************)
EXTENDS Integers, FiniteSets

CONSTANTS
    Approvals,   \* the approval requests the run may make
    NoApproval,  \* none of them
    Requests,    \* HTTP requests that answer an approval
    Main,        \* the task AgentRunManager.create starts
    MaxFaults    \* bound on the crashes and database failures of a behaviour

ASSUME TasksAssumption ==
    /\ Main \notin Requests
    /\ NoApproval \notin Approvals
    /\ MaxFaults \in Nat

Tasks == Requests \cup {Main}

VARIABLES
    gate,        \* ApprovalRequest.status, "absent" before it is created
    started,     \* execution_started_at is set
    overdue,     \* expires_at is past
    checkpoint,  \* status of the state in the approval's checkpoint
    pc,          \* where each task is
    about,       \* the approval an HTTP request answers
    decision,    \* and its answer
    result,      \* status of the state the task's runner call returned
    managed,     \* ManagedRun.status, "none" when this process has no record
    db,          \* AgentRunRecord.status, "deleted" when there is no row
    replies,     \* assistant messages of this run
    faults,
    truth,       \* history: what the run is doing, or how it really ended
    executed     \* history: how often each approved action ran

store == <<gate, started, overdue, checkpoint>>
tasks == <<pc, about, decision, result>>
records == <<managed, db, replies>>
vars == <<store, tasks, records, faults, truth, executed>>

Answers == {"approved", "rejected"}
Outcomes == {"completed", "failed"}
Statuses == {"running", "waiting_for_approval"} \cup Outcomes

Init ==
    /\ gate = [a \in Approvals |-> "absent"]
    /\ started = [a \in Approvals |-> FALSE]
    /\ overdue = [a \in Approvals |-> FALSE]
    /\ checkpoint = [a \in Approvals |-> "running"]
    /\ pc = [t \in Tasks |-> IF t = Main THEN "starting" ELSE "idle"]
    /\ about = [t \in Tasks |-> NoApproval]
    /\ decision = [t \in Tasks |-> "approved"]
    /\ result = [t \in Tasks |-> "running"]
    /\ managed = "running" /\ db = "running" /\ replies = 0
    /\ faults = 0
    /\ truth = "running"
    /\ executed = [a \in Approvals |-> 0]

Goto(t, place) == pc' = [pc EXCEPT ![t] = place]

Fault == faults < MaxFaults /\ faults' = faults + 1

-----------------------------------------------------------------------------
(* start_run comes before _execute's try: when the database is not there,  *)
(* the task ends with nothing recorded anywhere.                           *)
Start ==
    /\ pc[Main] = "starting"
    /\ Goto(Main, "driving")
    /\ UNCHANGED <<about, decision, result, store, records, faults, truth, executed>>

StartFails ==
    /\ pc[Main] = "starting"
    /\ Fault
    /\ Goto(Main, "done")
    /\ truth' = "lost"
    /\ UNCHANGED <<about, decision, result, store, records, executed>>

-----------------------------------------------------------------------------
(* Driving the run: AgentRunner.run inside _execute or a resume function *)

(* What follows run(): _execute publishes its result, a resume function    *)
(* first stores it in the checkpoint it came from.                         *)
Return(t, status) ==
    /\ pc[t] = "driving"
    /\ Goto(t, IF t = Main THEN "publishing" ELSE "completing")
    /\ result' = [result EXCEPT ![t] = status]
    /\ UNCHANGED <<about, decision>>

(* _pause_for_approval: the checkpoint holds the still running state. *)
Pause(t, a) ==
    /\ Return(t, "waiting_for_approval")
    /\ gate[a] = "absent"
    /\ gate' = [gate EXCEPT ![a] = "pending"]
    /\ checkpoint' = [checkpoint EXCEPT ![a] = "running"]
    /\ truth' = "waiting_for_approval"
    /\ UNCHANGED <<started, overdue, records, faults, executed>>

Conclude(t, outcome) ==
    /\ Return(t, outcome)
    /\ truth' = outcome
    /\ UNCHANGED <<store, records, faults, executed>>

(* run() raises: _execute records a failure, a resumed run's request just  *)
(* answers with an error and nothing is recorded.                          *)
Raise(t) ==
    /\ pc[t] = "driving"
    /\ IF t = Main
       THEN /\ Goto(t, "publishing")
            /\ result' = [result EXCEPT ![t] = "failed"]
            /\ truth' = "failed"
       ELSE /\ Goto(t, "done")
            /\ truth' = "lost"
            /\ UNCHANGED result
    /\ UNCHANGED <<about, decision, store, records, faults, executed>>

-----------------------------------------------------------------------------
(* The routes approve and reject *)

(* FileApprovalStore._expire, which every access begins with *)
Lapsed(a) == gate[a] = "pending" /\ overdue[a]
Expired(a) == IF Lapsed(a) THEN "expired" ELSE gate[a]

(* store.get and _require_owned_run: no row of this run, no answer. *)
Post(r, a, answer) ==
    /\ pc[r] = "idle"
    /\ gate[a] # "absent"
    /\ gate' = [gate EXCEPT ![a] = Expired(a)]
    /\ Goto(r, IF db = "deleted" THEN "done" ELSE "checked")
    /\ about' = [about EXCEPT ![r] = a]
    /\ decision' = [decision EXCEPT ![r] = answer]
    /\ UNCHANGED <<result, started, overdue, checkpoint, records, faults,
                   truth, executed>>

(* Mutant: the last answer wins. *)
ResolveAny(r) ==
    LET a == about[r]
    IN /\ pc[r] = "checked"
       /\ gate' = [gate EXCEPT ![a] = IF Lapsed(a) THEN "expired" ELSE decision[r]]
       /\ Goto(r, IF gate'[a] = decision[r] THEN "resolved" ELSE "done")
       /\ UNCHANGED <<about, decision, result, started, overdue, checkpoint,
                      records, faults, truth, executed>>

(* resolve: repeating the same answer is fine, another one is a conflict. *)
Resolve(r) ==
    LET a == about[r]
    IN /\ pc[r] = "checked"
       /\ gate' = [gate EXCEPT ![a] = IF Expired(a) = "pending"
                                      THEN decision[r] ELSE Expired(a)]
       /\ Goto(r, IF gate'[a] = decision[r] THEN "resolved" ELSE "done")
       /\ UNCHANGED <<about, decision, result, started, overdue, checkpoint,
                      records, faults, truth, executed>>

-----------------------------------------------------------------------------
(* resume_approval and resume_rejection *)

(* Mutant: the claim does not look whether another request made it. *)
ClaimableAgain(r) == gate[about[r]] = decision[r]
Claimable(r) == gate[about[r]] = decision[r] /\ ~started[about[r]]

Claim(r) ==
    /\ pc[r] = "resolved"
    /\ Claimable(r)
    /\ started' = [started EXCEPT ![about[r]] = TRUE]
    /\ Goto(r, IF decision[r] = "approved" THEN "executing" ELSE "driving")
    /\ truth' = "running"
    /\ UNCHANGED <<about, decision, result, gate, overdue, checkpoint, records,
                   faults, executed>>

(* Mutant: a claimed approval is taken for a completed run. *)
ReadCheckpointDone(r) ==
    /\ pc[r] = "resolved"
    /\ ~Claimable(r)
    /\ Goto(r, "publishing")
    /\ result' = [result EXCEPT ![r] = "completed"]
    /\ UNCHANGED <<about, decision, store, records, faults, truth, executed>>

(* The claim was made before: the checkpoint's state is the answer. *)
ReadCheckpoint(r) ==
    /\ pc[r] = "resolved"
    /\ ~Claimable(r)
    /\ Goto(r, "publishing")
    /\ result' = [result EXCEPT ![r] = checkpoint[about[r]]]
    /\ UNCHANGED <<about, decision, store, records, faults, truth, executed>>

(* The tool runs, or the action no longer validates; the loop goes on. *)
Execute(r) ==
    /\ pc[r] = "executing"
    /\ Goto(r, "driving")
    /\ \/ executed' = [executed EXCEPT ![about[r]] = @ + 1]
       \/ UNCHANGED executed
    /\ UNCHANGED <<about, decision, result, store, records, faults, truth>>

(* complete_execution *)
Complete(r) ==
    /\ pc[r] = "completing"
    /\ Goto(r, "publishing")
    /\ checkpoint' = [checkpoint EXCEPT ![about[r]] = result[r]]
    /\ UNCHANGED <<about, decision, result, gate, started, overdue, records,
                   faults, truth, executed>>

-----------------------------------------------------------------------------
(* AgentRunManager: _execute's epilogue and reconcile_resumed_run *)

Publish(t) ==
    /\ pc[t] = "publishing"
    /\ Goto(t, "persisting")
    /\ managed' = IF managed = "none" THEN "none" ELSE result[t]
    /\ UNCHANGED <<about, decision, result, store, db, replies, faults, truth,
                   executed>>

(* Mutant: a run whose row says it is waiting is left to its reviewer. *)
PersistUnlessWaiting(t) ==
    /\ pc[t] = "persisting"
    /\ Goto(t, "done")
    /\ IF db \in {"deleted", "waiting_for_approval"}
       THEN UNCHANGED <<db, replies>>
       ELSE /\ db' = result[t]
            /\ replies' = IF result[t] = "completed" THEN replies + 1 ELSE replies
    /\ UNCHANGED <<about, decision, result, store, managed, faults, truth, executed>>

(* finish_run, one transaction: the row, and a reply if there is an answer *)
Persist(t) ==
    /\ pc[t] = "persisting"
    /\ Goto(t, "done")
    /\ IF db = "deleted"
       THEN UNCHANGED <<db, replies>>
       ELSE /\ db' = result[t]
            /\ replies' = IF result[t] = "completed" THEN replies + 1 ELSE replies
    /\ UNCHANGED <<about, decision, result, store, managed, faults, truth, executed>>

(* The database is not there: the task ends with nothing recorded. *)
PersistFails(t) ==
    /\ pc[t] = "persisting"
    /\ Fault
    /\ Goto(t, "done")
    /\ UNCHANGED <<about, decision, result, store, records, truth, executed>>

-----------------------------------------------------------------------------
(* The environment *)

(* Mutant: the approvals are kept in memory too. *)
CrashForgetful ==
    /\ Fault
    /\ pc' = [t \in Tasks |-> IF pc[t] = "idle" THEN "idle" ELSE "done"]
    /\ managed' = "none"
    /\ truth' = IF truth = "running" THEN "lost" ELSE truth
    /\ gate' = [a \in Approvals |-> "absent"]
    /\ UNCHANGED <<about, decision, result, started, overdue, checkpoint, db,
                   replies, executed>>

(* The process dies and starts again: its tasks and its run records are    *)
(* gone, the approval files and the database are not.                      *)
Crash ==
    /\ Fault
    /\ pc' = [t \in Tasks |-> IF pc[t] = "idle" THEN "idle" ELSE "done"]
    /\ managed' = "none"
    /\ truth' = IF truth = "running" THEN "lost" ELSE truth
    /\ UNCHANGED <<about, decision, result, store, db, replies, executed>>

Deadline(a) ==
    /\ gate[a] # "absent" /\ ~overdue[a]
    /\ overdue' = [overdue EXCEPT ![a] = TRUE]
    /\ UNCHANGED <<gate, started, checkpoint, tasks, records, faults, truth,
                   executed>>

(* Reading an approval expires it too: get_approval and list_approvals. *)
View(a) ==
    /\ Lapsed(a)
    /\ db # "deleted"
    /\ gate' = [gate EXCEPT ![a] = "expired"]
    /\ UNCHANGED <<started, overdue, checkpoint, tasks, records, faults, truth,
                   executed>>

(* delete_conversation takes the rows of its runs and messages with it.    *)
DeleteConversation ==
    /\ db # "deleted"
    /\ db' = "deleted" /\ replies' = 0
    /\ UNCHANGED <<store, tasks, managed, faults, truth, executed>>

Drive(t) ==
    \/ \E a \in Approvals : Pause(t, a)
    \/ \E outcome \in Outcomes : Conclude(t, outcome)
    \/ Raise(t)

(* What a task does once it has been started *)
Step(t) ==
    \/ t = Main /\ Start
    \/ Drive(t)
    \/ t \in Requests /\ (Resolve(t) \/ Claim(t) \/ ReadCheckpoint(t)
                          \/ Execute(t) \/ Complete(t))
    \/ Publish(t) \/ Persist(t)

Environment ==
    \/ \E r \in Requests, a \in Approvals, answer \in Answers : Post(r, a, answer)
    \/ StartFails
    \/ \E t \in Tasks : PersistFails(t)
    \/ Crash
    \/ \E a \in Approvals : Deadline(a) \/ View(a)
    \/ DeleteConversation

Next == (\E t \in Tasks : Step(t)) \/ Environment

Spec == Init /\ [][Next]_vars

(* A task the event loop has started comes to its end: a bounded run ends  *)
(* or pauses (AgentRun!Terminates), and so do a file or database access.   *)
FairSpec == Spec /\ \A t \in Tasks : WF_vars(Step(t))

-----------------------------------------------------------------------------
(* Properties *)

TypeOK ==
    /\ gate \in [Approvals -> {"absent", "pending", "approved", "rejected", "expired"}]
    /\ started \in [Approvals -> BOOLEAN]
    /\ overdue \in [Approvals -> BOOLEAN]
    /\ checkpoint \in [Approvals -> Statuses]
    /\ pc \in [Tasks -> {"idle", "starting", "checked", "resolved", "executing", "driving",
                         "completing", "publishing", "persisting", "done"}]
    /\ about \in [Tasks -> Approvals \cup {NoApproval}]
    /\ decision \in [Tasks -> Answers]
    /\ result \in [Tasks -> Statuses]
    /\ managed \in Statuses \cup {"none"}
    /\ db \in Statuses \cup {"deleted"}
    /\ replies \in Nat
    /\ faults \in 0..MaxFaults
    /\ truth \in Statuses \cup {"lost"}
    /\ executed \in [Approvals -> Nat]

(* An approved action runs at most once, whatever requests are repeated,   *)
(* race each other or are cut off by a crash (claim_approved).             *)
ExecutedAtMostOnce == \A a \in Approvals : executed[a] <= 1

(* The run is never driven by two tasks at a time: no two loops work on    *)
(* one state (the claim of resume_approval and resume_rejection).          *)
Driving == {t \in Tasks : pc[t] \in {"starting", "executing", "driving"}}
OneDriver == \A t, u \in Driving : t = u

(* Nothing of a run happens twice: each approved action runs at most once  *)
(* and there are never two tasks that could run one.                       *)
RunsOnce == TypeOK /\ ExecutedAtMostOnce /\ OneDriver

(* A run waits exactly while one request on file, and no other, is still   *)
(* to be claimed (claim_approved, claim_rejected).  Whatever crashes and   *)
(* repeated answers come between, that request can still be gone on from:  *)
(* it may be answered, or it was and its answer may be repeated until a    *)
(* claim is made.  The one way to lose it is time: an approval nobody      *)
(* answered before its deadline is expired by the next access, no claim    *)
(* accepts it, and the run then waits for ever.                            *)
Open == {a \in Approvals : gate[a] # "absent" /\ ~started[a]}
Answerable(a) == gate[a] = "pending" /\ ~overdue[a]
MayBeClaimed(a) == gate[a] \in Answers
MissedDeadline(a) == gate[a] \in {"pending", "expired"} /\ overdue[a]
WaitingIsOnFile ==
    /\ truth = "waiting_for_approval" <=> Open # {}
    /\ \A a, b \in Open : a = b
    /\ \A a \in Open : Answerable(a) \/ MayBeClaimed(a) \/ MissedDeadline(a)

(* Nobody is told of an answer the run did not give: not by the live       *)
(* record, not by the row, not by a reply in the conversation.             *)
AnswersAreTrue ==
    \/ managed = "completed"
    \/ db = "completed"
    \/ replies > 0
    => truth = "completed"

(* The approval files, the tasks and the crashes between them implement    *)
(* the gate.                                                               *)
DueOf(places, subjects) ==
    LET acting == {t \in Tasks : places[t] = "executing"}
    IN IF acting = {} THEN NoApproval ELSE subjects[CHOOSE t \in acting : TRUE]
Due == DueOf(pc, about)
Gate == INSTANCE HumanGate WITH taken <- started, due <- Due, ran <- executed,
                                outcome <- truth
GateSpec == Gate!Spec

(* The answer of a completed run comes to stand in the conversation,       *)
(* whatever late and repeated writes surround it, unless the conversation  *)
(* is deleted or a fault gets in between.                                  *)
CompletionIsRecorded ==
    truth = "completed" ~> (replies > 0 \/ db = "deleted" \/ faults > 0)

(* A request that claimed an approval gets the run to its next stop.       *)
ClaimedRunStops ==
    \A a \in Approvals : started[a] ~> truth # "running"

(* Neither an answered run nor its answer gets stuck on the way            *)
(* (resume_approval, finish_run).                                          *)
EndsAreReached == CompletionIsRecorded /\ ClaimedRunStops

-----------------------------------------------------------------------------
(* What the documentation says and the code does not do *)

(* docs/concepts/conversations-and-runs.md: "running" is "Actively         *)
(* executing" and "waiting_for_approval" paused at a checkpoint: a row     *)
(* never goes back to either once it has recorded the completed run.       *)
RecordedCompletionStays ==
    [][db = "completed" => db' \in {"completed", "deleted"}]_vars

(* docs/concepts/conversations-and-runs.md: "On completion, a second,      *)
(* separate assistant message is appended": one reply to a run.            *)
OneReply == replies <= 1

=============================================================================
