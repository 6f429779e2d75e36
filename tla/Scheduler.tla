----------------------------- MODULE Scheduler ------------------------------
(***************************************************************************)
(* Scheduled reports: worker processes that claim the due schedules of a   *)
(* shared database, run each through the saved-report pipeline, record the *)
(* outcome, reschedule and deliver, while the API changes the schedules.   *)
(* A transaction, or a call to an outside service, is one action; workers  *)
(* and PATCH requests interleave between them, and a worker may die there. *)
(* The database's and the processes' clocks are one.                       *)
(***************************************************************************)
EXTENDS Integers, FiniteSets, FiniteSetsExt

CONSTANTS
    Schedules, Workers,
    Editors,       \* PATCH requests that may change a schedule's rule
    Rules,         \* the rule of a ScheduleConfig (kind, day, hour, minute)
    Zones,         \* its timezone
    Period,        \* the ticks between two firings of a rule
    Offset,        \* what a zone shifts them by
    FirstConfig,   \* each schedule's rule and zone when it is created
    Delivering,    \* schedules with a delivery channel and destination
    Switched,      \* schedules whose user switches them on and off
    Archivable,    \* schedules whose saved report may be archived
    Several,       \* schedules that print more than one format
    MaxAttempts,   \* of the worker's retry policy, three by default
    BatchSize,     \* claimed by one tick of a worker
    StaleAfter,    \* stale_claim_after
    Punctual,      \* nobody takes longer than the claims allow for
    NoJob, NoEdit,
    MaxTime, MaxFaults  \* bounds

Config == [rule : Rules, zone : Zones]

ASSUME ScheduleAssumption ==
    /\ Period \in [Rules -> Nat \ {0}]
    /\ Offset \in [Zones -> Nat]
    /\ FirstConfig \in [Schedules -> Config]
    /\ IsFiniteSet(Schedules) /\ IsFiniteSet(Workers)

ASSUME BoundAssumption ==
    /\ BatchSize \in Nat \ {0} /\ StaleAfter \in Nat
    /\ MaxAttempts \in Nat \ {0}
    /\ Punctual \in BOOLEAN
    /\ MaxTime \in Nat /\ MaxFaults \in Nat

VARIABLES
    clock,
    enabled, config, next_run, claimed_at,   \* a row of scheduled_reports
    archived,                                \* its saved report's status
    pc, reference, batch, job,               \* a worker's locals
    edit,                                    \* what a PATCH is about to write
    running, completed,                      \* execution rows, by status
    faults,
    published, delivered,                    \* history: by schedule and due time
    registered,                              \* history: attempts that left documents
    reports                                  \* history: published, by schedule

rows == <<enabled, config, next_run, claimed_at>>
worker == <<pc, reference, batch, job>>
executions == <<running, completed>>
history == <<published, delivered, registered, reports>>
vars == <<clock, rows, archived, worker, edit, executions, faults, history>>

NoClaim == -1
Times == 0..MaxTime

(* compute_next_run: the first firing strictly after a time, in clocks that *)
(* are not set back (Calendar tells what it is in those that are).          *)
Fires(c, t) == (t + Offset[c.zone]) % Period[c.rule] = 0
(* Mutant: the time itself counts as after it. *)
NextRunInclusive(c, after) ==
    CHOOSE t \in after..(after + Period[c.rule] - 1) : Fires(c, t)
NextRun(c, after) ==
    CHOOSE t \in (after + 1)..(after + Period[c.rule]) : Fires(c, t)

Init ==
    /\ clock = 0
    /\ enabled = [s \in Schedules |-> TRUE]
    /\ config = FirstConfig
    /\ next_run = [s \in Schedules |-> NextRun(FirstConfig[s], 0)]
    /\ claimed_at = [s \in Schedules |-> NoClaim]
    /\ archived = [s \in Schedules |-> FALSE]
    /\ pc = [w \in Workers |-> "idle"]
    /\ reference = [w \in Workers |-> 0]
    /\ batch = [w \in Workers |-> {}]
    /\ job = [w \in Workers |-> NoJob]
    /\ edit = [e \in Editors |-> NoEdit]
    /\ running = [s \in Schedules |-> 0]
    /\ completed = [s \in Schedules |-> 0]
    /\ faults = 0
    /\ published = [s \in Schedules |-> [d \in Times |-> 0]]
    /\ delivered = [s \in Schedules |-> [d \in Times |-> 0]]
    /\ registered = [s \in Schedules |-> [d \in Times |-> 0]]
    /\ reports = [s \in Schedules |-> 0]

Goto(w, place) == pc' = [pc EXCEPT ![w] = place]

-----------------------------------------------------------------------------
(* claim_due: one transaction over the rows it locks *)

Due(s) == enabled[s] /\ next_run[s] <= clock

(* Mutant: a claim is refreshed by whoever comes next. *)
ClaimableAny(s) == Due(s)
(* Mutant: a claim is held for ever. *)
ClaimableOnce(s) == Due(s) /\ claimed_at[s] = NoClaim
Claimable(s) ==
    /\ Due(s)
    /\ claimed_at[s] = NoClaim \/ claimed_at[s] < clock - StaleAfter

(* ORDER BY next_run_at LIMIT batch_size *)
Batches ==
    LET due == {s \in Schedules : Claimable(s)}
        size == IF Cardinality(due) < BatchSize THEN Cardinality(due) ELSE BatchSize
    IN {chosen \in kSubset(size, due) :
          \A s \in chosen, t \in due \ chosen : next_run[s] <= next_run[t]}

ClaimDue(w, chosen) ==
    /\ pc[w] = "idle"
    /\ chosen # {}
    /\ claimed_at' = [s \in Schedules |-> IF s \in chosen THEN clock ELSE claimed_at[s]]
    /\ reference' = [reference EXCEPT ![w] = clock]
    /\ batch' = [batch EXCEPT ![w] =
                   {[id |-> s, config |-> config[s], due |-> next_run[s]] : s \in chosen}]
    /\ Goto(w, "next")
    /\ UNCHANGED <<clock, enabled, config, next_run, archived, job, edit,
                   executions, faults, history>>

-----------------------------------------------------------------------------
(* _run_one, on the copy of the row the claim returned *)

(* What is left of the batch comes next, whatever became of this one. *)
EndJob(w) ==
    /\ Goto(w, IF batch[w] = {} THEN "idle" ELSE "next")
    /\ job' = [job EXCEPT ![w] = NoJob]

(* The saved report is looked up; an archived one is rescheduled only. *)
TakeNext(w, j) ==
    /\ pc[w] = "next"
    /\ \A k \in batch[w] : j.due <= k.due
    /\ batch' = [batch EXCEPT ![w] = @ \ {j}]
    /\ job' = [job EXCEPT ![w] = [id |-> j.id, config |-> j.config, due |-> j.due,
                                  attempt |-> 1, outcome |-> "skipped"]]
    /\ Goto(w, IF archived[j.id] THEN "rescheduling" ELSE "executing")
    /\ UNCHANGED <<clock, rows, archived, reference, edit, executions, faults, history>>

(* render_and_register_documents registers each format as it is written.   *)
Registers(w) ==
    registered' = [registered EXCEPT ![job[w].id][job[w].due] = @ + 1]

(* What a cut off or failed attempt leaves: perhaps the first formats, but *)
(* no format where there is only one.                                      *)
Leaves(w) ==
    \/ job[w].id \in Several /\ Registers(w)
    \/ UNCHANGED registered

Execute(w) ==
    /\ pc[w] = "executing"
    /\ published' = [published EXCEPT ![job[w].id][job[w].due] = @ + 1]
    /\ Registers(w)
    /\ reports' = [reports EXCEPT ![job[w].id] = @ + 1]
    /\ job' = [job EXCEPT ![w].outcome = "completed"]
    /\ Goto(w, "creating")
    /\ UNCHANGED <<clock, rows, archived, reference, batch, edit, executions,
                   faults, delivered>>

(* The attempt fails; the next one has a run id of its own, and after the  *)
(* last a failed execution is recorded.  No execution row names the run of *)
(* what the attempt leaves.                                                *)
ExecuteFails(w) ==
    /\ pc[w] = "executing"
    /\ Leaves(w)
    /\ IF job[w].attempt < MaxAttempts
       THEN /\ job' = [job EXCEPT ![w].attempt = @ + 1]
            /\ UNCHANGED pc
       ELSE /\ job' = [job EXCEPT ![w].outcome = "failed"]
            /\ Goto(w, "creating")
    /\ UNCHANGED <<clock, rows, archived, reference, batch, edit, executions,
                   faults, published, delivered, reports>>

CreateExecution(w) ==
    /\ pc[w] = "creating"
    /\ running' = [running EXCEPT ![job[w].id] = @ + 1]
    /\ Goto(w, "finishing")
    /\ UNCHANGED <<clock, rows, archived, reference, batch, job, edit, completed, faults, history>>

(* Mutant: a run that needed a retry is recorded as failed. *)
FinishExecutionFirstTry(w) ==
    /\ pc[w] = "finishing"
    /\ running' = [running EXCEPT ![job[w].id] = @ - 1]
    /\ completed' = IF job[w].outcome = "completed" /\ job[w].attempt = 1
                    THEN [completed EXCEPT ![job[w].id] = @ + 1] ELSE completed
    /\ Goto(w, "rescheduling")
    /\ UNCHANGED <<clock, rows, archived, reference, batch, job, edit, faults, history>>

FinishExecution(w) ==
    /\ pc[w] = "finishing"
    /\ running' = [running EXCEPT ![job[w].id] = @ - 1]
    /\ completed' = IF job[w].outcome = "completed"
                    THEN [completed EXCEPT ![job[w].id] = @ + 1] ELSE completed
    /\ Goto(w, "rescheduling")
    /\ UNCHANGED <<clock, rows, archived, reference, batch, job, edit, faults, history>>

(* _reschedule and record_run_result: the next run follows from the rule   *)
(* and the time of the claim, and the claim is given up, whoever holds it. *)
Reschedule(w) ==
    LET s == job[w].id
    IN /\ pc[w] = "rescheduling"
       /\ next_run' = [next_run EXCEPT ![s] = NextRun(job[w].config, reference[w])]
       /\ claimed_at' = [claimed_at EXCEPT ![s] = NoClaim]
       /\ IF job[w].outcome = "completed" /\ s \in Delivering
          THEN Goto(w, "delivering") /\ UNCHANGED job ELSE EndJob(w)
       /\ UNCHANGED <<clock, enabled, config, archived, reference, batch, edit,
                      executions, faults, history>>

(* _deliver_all: a delivery that fails is logged and left. *)
Deliver(w) ==
    /\ pc[w] = "delivering"
    /\ \/ delivered' = [delivered EXCEPT ![job[w].id][job[w].due] = @ + 1]
       \/ UNCHANGED delivered
    /\ EndJob(w)
    /\ UNCHANGED <<clock, rows, archived, reference, batch, edit, executions, faults,
                   published, registered, reports>>

-----------------------------------------------------------------------------
(* The API: PATCH reads the schedule, computes, then writes *)

(* Mutant: the new rule is applied from the present moment on. *)
PatchReadNow(e, s, changed) ==
    /\ edit[e] = NoEdit
    /\ changed # config[s]
    /\ changed.rule = config[s].rule \/ changed.zone = config[s].zone
    /\ edit' = [edit EXCEPT ![e] =
                  [id |-> s, field |-> IF changed.rule = config[s].rule THEN "zone" ELSE "rule",
                   config |-> changed, next_run |-> NextRun(changed, clock - 1)]]
    /\ UNCHANGED <<clock, rows, archived, worker, executions, faults, history>>

(* The new rule or zone is completed from what was read. *)
PatchRead(e, s, changed) ==
    /\ edit[e] = NoEdit
    /\ changed # config[s]
    /\ changed.rule = config[s].rule \/ changed.zone = config[s].zone
    /\ edit' = [edit EXCEPT ![e] =
                  [id |-> s, field |-> IF changed.rule = config[s].rule THEN "zone" ELSE "rule",
                   config |-> changed, next_run |-> NextRun(changed, clock)]]
    /\ UNCHANGED <<clock, rows, archived, worker, executions, faults, history>>

(* update writes the changed field and the computed time, nothing else. *)
PatchWrite(e) ==
    LET patch == edit[e]
    IN /\ patch # NoEdit
       /\ config' = IF patch.field = "rule"
                    THEN [config EXCEPT ![patch.id].rule = patch.config.rule]
                    ELSE [config EXCEPT ![patch.id].zone = patch.config.zone]
       /\ next_run' = [next_run EXCEPT ![patch.id] = patch.next_run]
       /\ edit' = [edit EXCEPT ![e] = NoEdit]
       /\ UNCHANGED <<clock, enabled, claimed_at, archived, worker, executions, faults,
                      history>>

Switch(s) ==
    /\ enabled' = [enabled EXCEPT ![s] = ~@]
    /\ UNCHANGED <<clock, config, next_run, claimed_at, archived, worker, edit,
                   executions, faults, history>>

(* The saved report is archived; nothing brings it back. *)
Archive(s) ==
    /\ ~archived[s]
    /\ archived' = [archived EXCEPT ![s] = TRUE]
    /\ UNCHANGED <<clock, rows, worker, edit, executions, faults, history>>

-----------------------------------------------------------------------------
(* The environment *)

(* A worker's process ends, by a crash, a deploy or an error of the        *)
(* database that leaves run_once, and is started again; some formats may   *)
(* be registered by then. The bound on time leaves room for its claims to  *)
(* become stale.                                                           *)
Crash(w) ==
    /\ pc[w] # "idle"
    /\ faults < MaxFaults
    /\ clock + StaleAfter < MaxTime
    /\ faults' = faults + 1
    /\ Goto(w, "idle")
    /\ batch' = [batch EXCEPT ![w] = {}]
    /\ job' = [job EXCEPT ![w] = NoJob]
    /\ IF pc[w] = "executing" THEN Leaves(w) ELSE UNCHANGED registered
    /\ UNCHANGED <<clock, rows, archived, reference, edit, executions, published,
                   delivered, reports>>

(* What a worker has claimed and not rescheduled *)
Working == {"executing", "creating", "finishing", "rescheduling"}
Holding(w) == {j.id : j \in batch[w]} \cup (IF pc[w] \in Working THEN {job[w].id} ELSE {})

Tick ==
    /\ clock < MaxTime
    /\ Punctual => /\ \A w \in Workers : Holding(w) # {} => clock < reference[w] + StaleAfter
                   /\ \A e \in Editors : edit[e] = NoEdit
    /\ clock' = clock + 1
    /\ UNCHANGED <<rows, archived, worker, edit, executions, faults, history>>

WorkerStep(w) ==
    \/ \E chosen \in Batches : ClaimDue(w, chosen)
    \/ \E j \in batch[w] : TakeNext(w, j)
    \/ Execute(w) \/ ExecuteFails(w)
    \/ CreateExecution(w) \/ FinishExecution(w)
    \/ Reschedule(w)
    \/ Deliver(w)

Api ==
    \/ \E e \in Editors :
          \/ \E s \in Schedules, changed \in Config : PatchRead(e, s, changed)
          \/ PatchWrite(e)
    \/ \E s \in Switched : Switch(s)
    \/ \E s \in Archivable : Archive(s)

Next ==
    \/ \E w \in Workers : WorkerStep(w) \/ Crash(w)
    \/ Api
    \/ Tick

Spec == Init /\ [][Next]_vars

(* A supervisor keeps the workers polling, every call they make is bounded *)
(* by a timeout, a request that was begun is answered, and time passes.    *)
(* Nothing makes a user edit, switch or archive.                           *)
FairSpec ==
    /\ Spec
    /\ \A w \in Workers : WF_vars(WorkerStep(w))
    /\ \A e \in Editors : WF_vars(PatchWrite(e))
    /\ WF_vars(Tick)

-----------------------------------------------------------------------------
(* Properties *)

Claimed == [id : Schedules, config : Config, due : Times]
Job == [id : Schedules, config : Config, due : Times, attempt : 1..MaxAttempts,
        outcome : {"skipped", "completed", "failed"}]
Edit == [id : Schedules, field : {"rule", "zone"}, config : Config, next_run : Nat]

(* The columns and the locals of workers and requests keep their types.    *)
TypeOK ==
    /\ clock \in Times
    /\ enabled \in [Schedules -> BOOLEAN]
    /\ config \in [Schedules -> Config]
    /\ next_run \in [Schedules -> Nat]
    /\ claimed_at \in [Schedules -> Times \cup {NoClaim}]
    /\ archived \in [Schedules -> BOOLEAN]
    /\ pc \in [Workers -> {"idle", "next", "delivering"} \cup Working]
    /\ reference \in [Workers -> Times]
    /\ batch \in [Workers -> SUBSET Claimed]
    /\ job \in [Workers -> Job \cup {NoJob}]
    /\ edit \in [Editors -> Edit \cup {NoEdit}]
    /\ running \in [Schedules -> Nat] /\ completed \in [Schedules -> Nat]
    /\ faults \in 0..MaxFaults
    /\ published \in [Schedules -> [Times -> Nat]]
    /\ delivered \in [Schedules -> [Times -> Nat]]
    /\ registered \in [Schedules -> [Times -> Nat]]
    /\ reports \in [Schedules -> Nat]

(* While every claim is worked off before it is stale, no two workers have *)
(* the same schedule in hand (claim_due, scripts/run_scheduled_reports.py),*)
(* also while a dead worker's claim is taken over.                         *)
OneWorker ==
    \A v, w \in Workers : v # w => Holding(v) \cap Holding(w) = {}

(* A due time is published in full again only because a worker died on it: *)
(* retries, switches, edits and the other workers never make it so.  Its   *)
(* documents may be registered more often, because a failed attempt leaves *)
(* the formats it had written and the next one starts over; but never more *)
(* often than a worker may try (publishing.py:103, worker.py:105).         *)
PublishedInFull == \A s \in Schedules, d \in Times : published[s][d] <= 1 + faults
RegisteredInPart ==
    \A s \in Schedules, d \in Times :
        registered[s][d] <= MaxAttempts * faults + MaxAttempts
PublishedPerCrash == PublishedInFull /\ RegisteredInPart

(* What was published may be published again after a crash, but nobody is  *)
(* sent the report of one due time twice: _deliver_all comes after the     *)
(* schedule has moved on.                                                  *)
DeliveredOnce ==
    \A s \in Schedules, d \in Times : delivered[s][d] <= 1

(* Every report published in full gets its execution row, and every row    *)
(* its final status, except where a worker died in between.                *)
At(places, s) == Cardinality({w \in Workers : pc[w] \in places /\ job[w].id = s})
RunsAreRecorded ==
    \A s \in Schedules :
        /\ reports[s] <= completed[s] + At({"creating", "finishing"}, s) + faults
        /\ running[s] <= At({"finishing"}, s) + faults

(* The rows tell what the workers did: as many published runs and settled  *)
(* executions as there were due times and crashes.                         *)
RunsAreAccounted == TypeOK /\ PublishedPerCrash /\ RunsAreRecorded

(* A schedule that is due, and stays switched on, is always got to and     *)
(* moves on: no crash leaves it claimed for ever, no earlier schedule      *)
(* keeps it out of every batch.                                            *)
DueIsServed == \A s \in Schedules : Due(s) ~> ~Due(s)

-----------------------------------------------------------------------------
(* What the documentation says and the code does not do *)

(* scripts/run_scheduled_reports.py:6, "the claim in                       *)
(* ScheduledReportStore.claim_due is what prevents two of them from        *)
(* running the same schedule twice": a claim that is not stale keeps the   *)
(* other workers off.                                                      *)
FreshClaimsExclude ==
    \A v, w \in Workers :
        /\ v # w
        /\ Holding(v) \cap Holding(w) # {}
        => \/ reference[v] < clock - StaleAfter
           \/ reference[w] < clock - StaleAfter

(* api/routes/scheduled_reports.py:144, after a change of rule or clock    *)
(* "the previously computed next_run_at no longer describes what this      *)
(* schedule actually means": the next run follows the schedule's rule.     *)
NextRunFollowsRule == \A s \in Schedules : Fires(config[s], next_run[s])

=============================================================================
