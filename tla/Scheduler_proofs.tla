-------------------------- MODULE Scheduler_proofs ---------------------------
(* Proofs about Scheduler: for every number of schedules, workers and PATCH  *)
(* requests, when no claim outlives the time it allows, a schedule is in one *)
(* worker's hands, a due time is published again only after a crash, no due  *)
(* time is delivered twice, and the execution rows tell what was published.  *)
(* And about Decisions: what the calendar, the workspace of a run, its child *)
(* processes and the limits of attempts answer, to every question that may   *)
(* be put to them.                                                           *)
EXTENDS Scheduler, Decisions, SequenceTheorems, FunctionTheorems, FiniteSetTheorems,
        WellFoundedInduction, TLAPS

-----------------------------------------------------------------------------
(* The next run *)

(* What divides evenly. *)
LEMMA Multiple ==
    ASSUME NEW p \in Nat \ {0}, NEW q \in Nat
    PROVE  (p * q) % p = 0
BY Z3T(30)

(* compute_next_run is strictly after the time it is given: among as many    *)
(* ticks as a period has, one fires.                                         *)
LEMMA NextRunIsLater ==
    ASSUME NEW c \in Config, NEW after \in Nat
    PROVE  NextRun(c, after) \in Nat /\ NextRun(c, after) > after
<1> DEFINE p == Period[c.rule]
           shifted == after + Offset[c.zone]
           q == shifted \div p
           r == shifted % p
           t == after + (p - r)
<1>1. p \in Nat \ {0} /\ Offset[c.zone] \in Nat /\ shifted \in Nat
  BY ScheduleAssumption DEF Config
<1>2. q \in Nat /\ r \in 0..(p - 1) /\ shifted = p * q + r
  <2> HIDE DEF p, shifted
  <2>1. QED
    BY <1>1
<1>3. t \in (after + 1)..(after + p)
  BY <1>1, <1>2
<1>4. t + Offset[c.zone] = p * (q + 1)
  <2>1. t + Offset[c.zone] = shifted + p - r
    BY <1>1, <1>2
  <2> HIDE DEF p, shifted, q, r, t
  <2>2. QED
    BY <1>1, <1>2, <2>1
<1>5. Fires(c, t)
  <2>1. (p * (q + 1)) % p = 0
    <3> HIDE DEF p, q
    <3>1. q + 1 \in Nat
      BY <1>2
    <3>2. QED
      BY <1>1, <3>1, Multiple
  <2> HIDE DEF q, r, t
  <2>2. QED
    BY <1>4, <2>1 DEF Fires
<1>6. QED
  BY <1>1, <1>3, <1>5 DEF NextRun

-----------------------------------------------------------------------------
(* The inductive invariant of the claims *)

Places == {"idle", "next", "delivering"} \cup Working

Shape ==
    /\ clock \in Times
    /\ config \in [Schedules -> Config]
    /\ next_run \in [Schedules -> Nat]
    /\ claimed_at \in [Schedules -> Times \cup {NoClaim}]
    /\ pc \in [Workers -> Places]
    /\ reference \in [Workers -> Times]
    /\ batch \in [Workers -> SUBSET Claimed]
    /\ job \in [Workers -> Job \cup {NoJob}]
    /\ edit \in [Editors -> Edit \cup {NoEdit}]
    /\ \A w \in Workers : pc[w] \in Working \cup {"delivering"} => job[w] \in Job

(* What a worker holds carries its claim, which is not stale yet.            *)
Claims ==
    \A w \in Workers : \A s \in Holding(w) :
        claimed_at[s] = reference[w] /\ clock <= reference[w] + StaleAfter

(* A schedule is in a worker's hands once.                                   *)
Apart ==
    \A w \in Workers :
        /\ \A j, k \in batch[w] : j.id = k.id => j = k
        /\ pc[w] \in Working => \A j \in batch[w] : j.id # job[w].id
        /\ pc[w] = "idle" => batch[w] = {}

(* What was claimed was due at the time of the claim.                        *)
Timely ==
    \A w \in Workers :
        /\ reference[w] <= clock
        /\ \A j \in batch[w] : j.due <= reference[w]
        /\ pc[w] \in Working \cup {"delivering"} => job[w].due <= reference[w]

(* What a PATCH is about to write still lies ahead.                          *)
Ahead == \A e \in Editors : edit[e] # NoEdit => edit[e].next_run > clock

ClaimInv == Shape /\ Claims /\ Apart /\ Timely /\ Ahead /\ OneWorker

LEMMA InitClaim == Init => ClaimInv
<1> SUFFICES ASSUME Init PROVE ClaimInv
  OBVIOUS
<1>1. Shape
  <2>1. \A s \in Schedules : NextRun(FirstConfig[s], 0) \in Nat
    BY ScheduleAssumption, NextRunIsLater
  <2>2. QED
    BY <2>1, ScheduleAssumption, BoundAssumption DEF Init, Shape, Times, Places, Working, NoClaim
<1>2. Claims /\ Apart /\ Timely /\ Ahead /\ OneWorker
  BY DEF Init, Claims, Apart, Timely, Ahead, OneWorker, Holding, Working
<1>3. QED
  BY <1>1, <1>2 DEF ClaimInv

(* A step that takes nothing into anybody's hands.                           *)
LEMMA HandsInv ==
    ASSUME ClaimInv, Shape', Apart', Timely', Ahead',
           \A w \in Workers : Holding(w)' \subseteq Holding(w),
           UNCHANGED <<clock, claimed_at, reference>>
    PROVE  ClaimInv'
BY DEF ClaimInv, Claims, OneWorker

(* What can be claimed is in nobody's hands.                                 *)
LEMMA ClaimableIsFree ==
    ASSUME ClaimInv, NEW s, Claimable(s), NEW v \in Workers
    PROVE  s \notin Holding(v)
<1> SUFFICES ASSUME s \in Holding(v) PROVE FALSE
  OBVIOUS
<1>1. claimed_at[s] = reference[v] /\ clock <= reference[v] + StaleAfter
  BY DEF ClaimInv, Claims
<1>2. reference[v] \in Nat /\ clock \in Nat
  BY BoundAssumption DEF ClaimInv, Shape, Times
<1>3. QED
  BY <1>1, <1>2, BoundAssumption DEF Claimable, NoClaim

LEMMA ClaimDueInv ==
    ASSUME ClaimInv, NEW w \in Workers, NEW chosen \in Batches, ClaimDue(w, chosen)
    PROVE  ClaimInv'
<1> DEFINE new == {[id |-> s, config |-> config[s], due |-> next_run[s]] : s \in chosen}
<1>1. /\ pc[w] = "idle" /\ batch[w] = {}
      /\ claimed_at' = [s \in Schedules |-> IF s \in chosen THEN clock ELSE claimed_at[s]]
      /\ reference' = [reference EXCEPT ![w] = clock]
      /\ batch' = [batch EXCEPT ![w] = new]
      /\ pc' = [pc EXCEPT ![w] = "next"]
      /\ UNCHANGED <<clock, config, next_run, job, edit>>
  BY DEF ClaimDue, Goto, ClaimInv, Apart
<1>2. chosen \subseteq Schedules /\ \A s \in chosen : Claimable(s)
  BY DEF Batches, kSubset
<1>3. new \subseteq Claimed
  <2> SUFFICES ASSUME NEW s \in chosen
               PROVE  [id |-> s, config |-> config[s], due |-> next_run[s]] \in Claimed
    OBVIOUS
  <2>1. s \in Schedules /\ next_run[s] <= clock
    BY <1>2 DEF Claimable, Due
  <2>2. config[s] \in Config /\ next_run[s] \in Times
    BY <2>1, BoundAssumption DEF ClaimInv, Shape, Times
  <2>3. QED
    BY <2>1, <2>2 DEF Claimed
<1>4. Shape'
  BY <1>1, <1>3 DEF ClaimInv, Shape, Places, Working
<1>5. Holding(w)' = chosen /\ \A v \in Workers \ {w} : Holding(v)' = Holding(v)
  <2>1. pc'[w] = "next" /\ batch'[w] = new
    BY <1>1 DEF ClaimInv, Shape
  <2>2. {j.id : j \in new} = chosen
    <3>1. \A j \in new : j.id \in chosen
      OBVIOUS
    <3>2. \A s \in chosen : \E j \in new : j.id = s
      <4> TAKE s \in chosen
      <4>1. [id |-> s, config |-> config[s], due |-> next_run[s]] \in new
        OBVIOUS
      <4>2. QED
        BY <4>1
    <3> HIDE DEF new
    <3>3. QED
      BY <3>1, <3>2
  <2>3. Holding(w)' = chosen
    BY <2>1, <2>2 DEF Holding, Working
  <2>4. \A v \in Workers \ {w} : pc'[v] = pc[v] /\ batch'[v] = batch[v] /\ job' = job
    BY <1>1 DEF ClaimInv, Shape
  <2>5. QED
    BY <2>3, <2>4 DEF Holding
<1>6. \A v \in Workers \ {w} : Holding(v) \cap chosen = {}
  BY <1>2, ClaimableIsFree
<1>7. Claims'
  <2> SUFFICES ASSUME NEW v \in Workers, NEW s \in Holding(v)'
               PROVE  claimed_at'[s] = reference'[v] /\ clock' <= reference'[v] + StaleAfter
    BY DEF Claims
  <2>1. CASE v = w
    BY <1>1, <1>2, <1>5, <2>1, BoundAssumption DEF ClaimInv, Shape, Times
  <2>2. CASE v # w
    <3>1. s \in Holding(v) /\ s \notin chosen
      BY <1>5, <1>6, <2>2
    <3>2. claimed_at[s] = reference[v] /\ clock <= reference[v] + StaleAfter
      BY <3>1 DEF ClaimInv, Claims
    <3>3. s \in Schedules
      BY <3>1 DEF Holding, ClaimInv, Shape, Claimed, Job
    <3>4. QED
      BY <1>1, <2>2, <3>1, <3>2, <3>3 DEF ClaimInv, Shape
  <2>3. QED
    BY <2>1, <2>2
<1>8. Apart'
  BY <1>1 DEF ClaimInv, Apart, Shape, Working
<1>9. Timely'
  BY <1>1, <1>2 DEF ClaimInv, Timely, Shape, Working, Claimable, Due, Times
<1>10. Ahead' /\ OneWorker'
  BY <1>1, <1>5, <1>6 DEF ClaimInv, Ahead, OneWorker
<1>11. QED
  BY <1>4, <1>7, <1>8, <1>9, <1>10 DEF ClaimInv

LEMMA TakeNextInv ==
    ASSUME ClaimInv, NEW w \in Workers, NEW j \in batch[w], TakeNext(w, j)
    PROVE  ClaimInv'
<1>1. /\ pc[w] = "next"
      /\ batch' = [batch EXCEPT ![w] = @ \ {j}]
      /\ job' = [job EXCEPT ![w] = [id |-> j.id, config |-> j.config, due |-> j.due,
                                    attempt |-> 1, outcome |-> "skipped"]]
      /\ pc' = [pc EXCEPT ![w] = IF archived[j.id] THEN "rescheduling" ELSE "executing"]
      /\ UNCHANGED <<clock, config, next_run, claimed_at, reference, edit>>
  BY DEF TakeNext, Goto, rows
<1>2. j \in Claimed
  BY DEF ClaimInv, Shape
<1>3. Shape'
  BY <1>1, <1>2, BoundAssumption DEF ClaimInv, Shape, Places, Working, Job, Claimed
<1>4. Apart' /\ Timely' /\ Ahead'
  BY <1>1, <1>2 DEF ClaimInv, Shape, Apart, Timely, Ahead, Working
<1>5. \A v \in Workers : Holding(v)' \subseteq Holding(v)
  BY <1>1 DEF ClaimInv, Shape, Holding, Working
<1>6. QED
  BY <1>1, <1>3, <1>4, <1>5, HandsInv

(* A worker's step that leaves the rows, its claim and its batch alone.      *)
LEMMA AtJobInv ==
    ASSUME ClaimInv, NEW w \in Workers, pc[w] \in Working,
           NEW place \in Working, NEW done \in Job,
           done.id = job[w].id, done.due = job[w].due,
           pc' = [pc EXCEPT ![w] = place], job' = [job EXCEPT ![w] = done],
           UNCHANGED <<clock, config, next_run, claimed_at, reference, batch, edit>>
    PROVE  ClaimInv'
<1>1. Shape'
  BY DEF ClaimInv, Shape, Places
<1>2. Apart' /\ Timely' /\ Ahead'
  <2>1. Apart'
    BY DEF ClaimInv, Shape, Apart, Working
  <2>2. Timely'
    BY DEF ClaimInv, Shape, Timely
  <2>3. Ahead'
    BY DEF ClaimInv, Ahead
  <2>4. QED
    BY <2>1, <2>2, <2>3
<1>3. \A v \in Workers : Holding(v)' \subseteq Holding(v)
  BY DEF ClaimInv, Shape, Holding
<1>4. QED
  BY <1>1, <1>2, <1>3, HandsInv

LEMMA ExecuteInv ==
    ASSUME ClaimInv, NEW w \in Workers, Execute(w) \/ ExecuteFails(w)
    PROVE  ClaimInv'
<1>1. pc[w] = "executing" /\ job[w] \in Job
  BY DEF Execute, ExecuteFails, ClaimInv, Shape, Working
<1>2. UNCHANGED <<clock, config, next_run, claimed_at, reference, batch, edit>>
  BY DEF Execute, ExecuteFails, rows
<1>3. \E place \in Working, done \in Job :
          /\ done.id = job[w].id /\ done.due = job[w].due
          /\ pc' = [pc EXCEPT ![w] = place] /\ job' = [job EXCEPT ![w] = done]
  <2>1. CASE Execute(w)
    <3>1. [job[w] EXCEPT !.outcome = "completed"] \in Job
      BY <1>1 DEF Job
    <3>2. /\ pc' = [pc EXCEPT ![w] = "creating"]
          /\ job' = [job EXCEPT ![w] = [job[w] EXCEPT !.outcome = "completed"]]
      BY <2>1 DEF Execute, Goto
    <3>3. QED
      BY <1>1, <3>1, <3>2 DEF Job, Working
  <2>2. CASE ExecuteFails(w) /\ job[w].attempt < MaxAttempts
    <3>1. [job[w] EXCEPT !.attempt = @ + 1] \in Job
      BY <1>1, <2>2, BoundAssumption DEF Job
    <3>2. /\ pc' = [pc EXCEPT ![w] = "executing"]
          /\ job' = [job EXCEPT ![w] = [job[w] EXCEPT !.attempt = @ + 1]]
      BY <1>1, <2>2 DEF ExecuteFails, ClaimInv, Shape
    <3>3. QED
      BY <1>1, <3>1, <3>2 DEF Job, Working
  <2>3. CASE ExecuteFails(w) /\ ~(job[w].attempt < MaxAttempts)
    <3>1. [job[w] EXCEPT !.outcome = "failed"] \in Job
      BY <1>1 DEF Job
    <3>2. /\ pc' = [pc EXCEPT ![w] = "creating"]
          /\ job' = [job EXCEPT ![w] = [job[w] EXCEPT !.outcome = "failed"]]
      BY <2>3 DEF ExecuteFails, Goto
    <3>3. QED
      BY <1>1, <3>1, <3>2 DEF Job, Working
  <2>4. QED
    BY <2>1, <2>2, <2>3
<1>4. QED
  BY <1>1, <1>2, <1>3, AtJobInv DEF Working

LEMMA RecordInv ==
    ASSUME ClaimInv, NEW w \in Workers, CreateExecution(w) \/ FinishExecution(w)
    PROVE  ClaimInv'
<1>1. /\ pc[w] \in Working
      /\ \E place \in Working : pc' = [pc EXCEPT ![w] = place]
      /\ UNCHANGED <<clock, config, next_run, claimed_at, reference, batch, edit, job>>
  BY DEF CreateExecution, FinishExecution, rows, Goto, Working
<1>2. job[w] \in Job /\ job' = [job EXCEPT ![w] = job[w]]
  BY <1>1 DEF ClaimInv, Shape
<1>3. QED
  BY <1>1, <1>2, AtJobInv

(* The claim given up is the worker's own, since nobody else has it.         *)
LEMMA RescheduleInv ==
    ASSUME ClaimInv, NEW w \in Workers, Reschedule(w)
    PROVE  ClaimInv'
<1> DEFINE s == job[w].id
           n == NextRun(job[w].config, reference[w])
<1>1. /\ pc[w] = "rescheduling"
      /\ next_run' = [next_run EXCEPT ![s] = n]
      /\ claimed_at' = [claimed_at EXCEPT ![s] = NoClaim]
      /\ UNCHANGED <<clock, config, reference, batch, edit>>
  BY DEF Reschedule
<1>2. job[w] \in Job /\ s \in Schedules /\ s \in Holding(w)
  BY <1>1 DEF ClaimInv, Shape, Working, Job, Holding
<1>3. n \in Nat
  BY <1>2, NextRunIsLater DEF ClaimInv, Shape, Job, Times
<1>4. \E place \in {"delivering", "idle", "next"} :
          /\ pc' = [pc EXCEPT ![w] = place]
          /\ job' = [job EXCEPT ![w] = IF place = "delivering" THEN job[w] ELSE NoJob]
          /\ place = "idle" => batch[w] = {}
  <2>1. CASE job[w].outcome = "completed" /\ s \in Delivering
    BY <2>1 DEF Reschedule, Goto, ClaimInv, Shape
  <2>2. CASE ~(job[w].outcome = "completed" /\ s \in Delivering)
    BY <2>2 DEF Reschedule, EndJob, Goto
  <2>3. QED
    BY <2>1, <2>2
<1>5. PICK place \in {"delivering", "idle", "next"} :
          /\ pc' = [pc EXCEPT ![w] = place]
          /\ job' = [job EXCEPT ![w] = IF place = "delivering" THEN job[w] ELSE NoJob]
          /\ place = "idle" => batch[w] = {}
  BY <1>4
<1> HIDE DEF s, n
<1>6. Shape'
  BY <1>1, <1>2, <1>3, <1>5 DEF ClaimInv, Shape, Places, Working
<1>7. Apart' /\ Timely' /\ Ahead'
  BY <1>1, <1>5 DEF ClaimInv, Shape, Apart, Timely, Ahead, Working
<1>8. \A v \in Workers : Holding(v)' \subseteq Holding(v) \ {s}
  <2>1. Holding(w)' = {j.id : j \in batch[w]}
    BY <1>1, <1>5 DEF ClaimInv, Shape, Holding, Working
  <2>2. s \notin Holding(w)'
    BY <1>1, <2>1 DEF ClaimInv, Apart, Working, s
  <2>3. Holding(w)' \subseteq Holding(w)
    BY <2>1 DEF Holding
  <2>4. \A v \in Workers \ {w} : Holding(v)' = Holding(v)
    BY <1>1, <1>5 DEF ClaimInv, Shape, Holding
  <2>5. QED
    BY <1>2, <2>2, <2>3, <2>4 DEF ClaimInv, OneWorker
<1>9. Claims' /\ OneWorker'
  <2>1. OneWorker'
    BY <1>8 DEF ClaimInv, OneWorker
  <2>2. \A v \in Workers : \A t \in Holding(v)' : t # s /\ t \in Holding(v)
    BY <1>8
  <2>3. Claims'
    BY <1>1, <2>2 DEF ClaimInv, Shape, Claims
  <2>4. QED
    BY <2>1, <2>3
<1>10. QED
  BY <1>6, <1>7, <1>9 DEF ClaimInv

LEMMA DeliverInv ==
    ASSUME ClaimInv, NEW w \in Workers, Deliver(w) \/ Crash(w)
    PROVE  ClaimInv'
<1>1. /\ \E place \in {"idle", "next"}, left \in SUBSET batch[w] :
            /\ pc' = [pc EXCEPT ![w] = place]
            /\ batch' = [batch EXCEPT ![w] = left]
            /\ place = "idle" => left = {}
      /\ job' = [job EXCEPT ![w] = NoJob]
      /\ UNCHANGED <<clock, config, next_run, claimed_at, reference, edit>>
  <2>1. CASE Deliver(w)
    <3>1. batch' = [batch EXCEPT ![w] = batch[w]]
      BY <2>1 DEF Deliver, ClaimInv, Shape
    <3>2. QED
      BY <2>1, <3>1 DEF Deliver, EndJob, Goto, rows
  <2>2. CASE Crash(w)
    BY <2>2 DEF Crash, Goto, rows
  <2>3. QED
    BY <2>1, <2>2
<1>2. PICK place \in {"idle", "next"}, left \in SUBSET batch[w] :
            /\ pc' = [pc EXCEPT ![w] = place]
            /\ batch' = [batch EXCEPT ![w] = left]
            /\ place = "idle" => left = {}
  BY <1>1
<1>3. Shape'
  BY <1>1, <1>2 DEF ClaimInv, Shape, Places, Working
<1>4. Apart' /\ Timely' /\ Ahead'
  BY <1>1, <1>2 DEF ClaimInv, Shape, Apart, Timely, Ahead, Working
<1>5. \A v \in Workers : Holding(v)' \subseteq Holding(v)
  BY <1>1, <1>2 DEF ClaimInv, Shape, Holding, Working
<1>6. QED
  BY <1>1, <1>3, <1>4, <1>5, HandsInv

(* The API writes no claim; what it computes lies ahead, and is written      *)
(* before the clock reaches it.                                              *)
LEMMA ApiInv ==
    ASSUME ClaimInv, Api
    PROVE  ClaimInv'
<1>1. UNCHANGED <<clock, claimed_at, pc, reference, batch, job>>
  BY DEF Api, PatchRead, PatchWrite, Switch, Archive, rows, worker
<1> DEFINE Edited ==
        /\ config' \in [Schedules -> Config] /\ next_run' \in [Schedules -> Nat]
        /\ edit' \in [Editors -> Edit \cup {NoEdit}]
        /\ Ahead'
<1>2. Edited
  <2>1. ASSUME NEW e \in Editors, NEW s \in Schedules, NEW changed \in Config,
               PatchRead(e, s, changed)
        PROVE  Edited
    <3>1. NextRun(changed, clock) \in Nat /\ NextRun(changed, clock) > clock
      BY NextRunIsLater DEF ClaimInv, Shape, Times
    <3>2. \E field \in {"rule", "zone"} :
              edit' = [edit EXCEPT ![e] = [id |-> s, field |-> field, config |-> changed,
                                          next_run |-> NextRun(changed, clock)]]
      BY <2>1 DEF PatchRead
    <3>3. UNCHANGED <<config, next_run>>
      BY <2>1 DEF PatchRead, rows
    <3>4. QED
      BY <1>1, <3>1, <3>2, <3>3 DEF ClaimInv, Shape, Ahead, Edit
  <2>2. ASSUME NEW e \in Editors, PatchWrite(e)
        PROVE  Edited
    <3>1. edit[e] \in Edit
      BY <2>2 DEF PatchWrite, ClaimInv, Shape
    <3>2. config' \in [Schedules -> Config]
      BY <2>2, <3>1 DEF PatchWrite, ClaimInv, Shape, Config, Edit
    <3>3. next_run' \in [Schedules -> Nat] /\ edit' \in [Editors -> Edit \cup {NoEdit}]
      BY <2>2, <3>1 DEF PatchWrite, ClaimInv, Shape, Edit
    <3>4. Ahead'
      BY <1>1, <2>2 DEF PatchWrite, ClaimInv, Shape, Ahead
    <3>5. QED
      BY <3>2, <3>3, <3>4
  <2>3. ASSUME NEW s, Switch(s) \/ Archive(s)
        PROVE  Edited
    BY <1>1, <2>3 DEF Switch, Archive, rows, ClaimInv, Shape, Ahead
  <2> HIDE DEF Edited
  <2>4. QED
    BY <2>1, <2>2, <2>3 DEF Api
<1>3. QED
  BY <1>1, <1>2 DEF ClaimInv, Shape, Claims, Apart, Timely, OneWorker, Holding

LEMMA TickInv ==
    ASSUME ClaimInv, Punctual, Tick
    PROVE  ClaimInv'
<1>1. /\ clock' = clock + 1 /\ clock < MaxTime
      /\ \A w \in Workers : Holding(w) # {} => clock < reference[w] + StaleAfter
      /\ \A e \in Editors : edit[e] = NoEdit
      /\ UNCHANGED <<config, next_run, claimed_at, pc, reference, batch, job, edit>>
  BY DEF Tick, rows, worker
<1>2. Shape'
  BY <1>1, BoundAssumption DEF ClaimInv, Shape, Times
<1>3. Claims'
  <2>1. \A w \in Workers : Holding(w)' = Holding(w)
    BY <1>1 DEF Holding
  <2>2. \A w \in Workers : reference[w] \in Nat
    BY DEF ClaimInv, Shape, Times
  <2>3. QED
    BY <1>1, <2>1, <2>2, BoundAssumption DEF ClaimInv, Shape, Times, Claims
<1>4. Apart' /\ Ahead' /\ OneWorker'
  BY <1>1 DEF ClaimInv, Apart, Ahead, OneWorker, Holding
<1>5. Timely'
  BY <1>1 DEF ClaimInv, Shape, Times, Timely
<1>6. QED
  BY <1>2, <1>3, <1>4, <1>5 DEF ClaimInv

LEMMA NextClaim ==
    ASSUME ClaimInv, Punctual, [Next]_vars
    PROVE  ClaimInv'
<1>1. CASE \E w \in Workers : WorkerStep(w) \/ Crash(w)
  BY <1>1, ClaimDueInv, TakeNextInv, ExecuteInv, RecordInv, RescheduleInv, DeliverInv
     DEF WorkerStep
<1>2. CASE Api
  BY <1>2, ApiInv
<1>3. CASE Tick
  BY <1>3, TickInv
<1>4. CASE UNCHANGED vars
  BY <1>4 DEF vars, rows, worker, ClaimInv, Shape, Claims, Apart, Timely, Ahead, OneWorker, Holding
<1>5. QED
  BY <1>1, <1>2, <1>3, <1>4 DEF Next

(* While every claim is worked off before it is stale, a schedule is in the  *)
(* hands of one worker (scheduling/store.py:163-197).                        *)
THEOREM ScheduleHasOneWorker ==
    ASSUME Punctual
    PROVE  Spec => []OneWorker
<1>1. ClaimInv /\ [Next]_vars => ClaimInv'
  BY NextClaim
<1>2. ClaimInv => OneWorker
  BY DEF ClaimInv
<1>3. QED
  BY InitClaim, <1>1, <1>2, PTL DEF Spec

-----------------------------------------------------------------------------
(* Publications *)

(* What has been published was due, also for who has the schedule now.       *)
Past ==
    \A s \in Schedules, d \in Times :
        published[s][d] > 0 => /\ d <= clock
                               /\ \A w \in Workers : s \in Holding(w) => d <= reference[w]

(* What a worker has yet to publish was published only by those that died.   *)
Unpublished ==
    \A w \in Workers :
        /\ \A j \in batch[w] : published[j.id][j.due] <= faults
        /\ pc[w] = "executing" => published[job[w].id][job[w].due] <= faults

(* So was what comes next, unless a worker is about to move the schedule on. *)
Published(w, s, d) ==
    pc[w] \in Working \ {"executing"} /\ job[w].id = s /\ job[w].due = d
NextIsNew ==
    \A s \in Schedules :
        next_run[s] \in Times =>
            \/ published[s][next_run[s]] <= faults
            \/ \E w \in Workers : Published(w, s, next_run[s])

PublishInv ==
    /\ faults \in Nat
    /\ published \in [Schedules -> [Times -> Nat]]
    /\ Past /\ Unpublished /\ NextIsNew /\ PublishedInFull

LEMMA InitPublish == Init => PublishInv
<1> SUFFICES ASSUME Init PROVE PublishInv
  OBVIOUS
<1>1. faults = 0 /\ published = [s \in Schedules |-> [d \in Times |-> 0]]
  BY DEF Init
<1>2. Past /\ NextIsNew /\ PublishedInFull
  BY <1>1 DEF Past, NextIsNew, PublishedInFull
<1>3. Unpublished
  BY DEF Init, Unpublished
<1>4. QED
  BY <1>1, <1>2, <1>3 DEF PublishInv

LEMMA ClaimDuePublish ==
    ASSUME ClaimInv, PublishInv, NEW w \in Workers, NEW chosen \in Batches, ClaimDue(w, chosen)
    PROVE  PublishInv'
<1> DEFINE new == {[id |-> s, config |-> config[s], due |-> next_run[s]] : s \in chosen}
<1>1. /\ pc[w] = "idle" /\ pc' = [pc EXCEPT ![w] = "next"]
      /\ reference' = [reference EXCEPT ![w] = clock]
      /\ batch' = [batch EXCEPT ![w] = new]
      /\ UNCHANGED <<clock, next_run, job, faults, published>>
  BY DEF ClaimDue, Goto, history
<1>2. \A s \in chosen : Claimable(s) /\ s \in Schedules /\ next_run[s] \in Times
  BY BoundAssumption DEF Batches, kSubset, Claimable, Due, ClaimInv, Shape, Times
<1>3. \A v \in Workers, s \in chosen : s \notin Holding(v)
  BY <1>2, ClaimableIsFree
<1>4. \A s \in chosen : published[s][next_run[s]] <= faults
  BY <1>2, <1>3 DEF PublishInv, NextIsNew, Published, Holding
<1>5. Past'
  <2> SUFFICES ASSUME NEW s \in Schedules, NEW d \in Times, published[s][d] > 0,
                      NEW v \in Workers, s \in Holding(v)'
               PROVE  d <= reference'[v]
    BY <1>1 DEF Past, PublishInv
  <2>1. CASE v = w
    BY <1>1, <2>1 DEF PublishInv, Past, ClaimInv, Shape
  <2>2. CASE v # w
    BY <1>1, <2>2 DEF PublishInv, Past, ClaimInv, Shape, Holding
  <2>3. QED
    BY <2>1, <2>2
<1>6. Unpublished'
  <2> SUFFICES ASSUME NEW v \in Workers
               PROVE  /\ \A j \in batch'[v] : published[j.id][j.due] <= faults
                      /\ pc'[v] = "executing" => published[job[v].id][job[v].due] <= faults
    BY <1>1 DEF Unpublished
  <2>1. CASE v = w
    BY <1>1, <1>4, <2>1 DEF ClaimInv, Shape
  <2>2. CASE v # w
    BY <1>1, <2>2 DEF PublishInv, Unpublished, ClaimInv, Shape
  <2>3. QED
    BY <2>1, <2>2
<1>7. NextIsNew'
  BY <1>1 DEF PublishInv, NextIsNew, Published, ClaimInv, Shape, Working
<1>8. PublishedInFull'
  BY <1>1 DEF PublishInv, PublishedInFull
<1>9. QED
  BY <1>1, <1>5, <1>6, <1>7, <1>8 DEF PublishInv

(* A step of a worker that publishes nothing and does not move a schedule    *)
(* on: what it has yet to publish it had before, and what it was about to    *)
(* move on it still is, unless it died.                                      *)
LEMMA WorkerPublish ==
    ASSUME ClaimInv, PublishInv, faults' \in Nat, faults' >= faults,
           UNCHANGED <<clock, next_run, reference, published>>,
           \A v \in Workers : Holding(v)' \subseteq Holding(v),
           Unpublished',
           \/ faults' > faults
           \/ \A v \in Workers, s \in Schedules, d \in Times :
                  Published(v, s, d) => Published(v, s, d)'
    PROVE  PublishInv'
<1>1. Past'
  BY DEF PublishInv, Past
<1>2. \A s \in Schedules, d \in Times : published[s][d] \in Nat /\ published[s][d] <= 1 + faults
  BY DEF PublishInv, PublishedInFull
<1>3. PublishedInFull'
  BY <1>2 DEF PublishInv, PublishedInFull
<1>4. NextIsNew'
  <2> SUFFICES ASSUME NEW s \in Schedules, next_run[s] \in Times
               PROVE  \/ published[s][next_run[s]] <= faults'
                      \/ \E v \in Workers : Published(v, s, next_run[s])'
    BY DEF NextIsNew
  <2>1. CASE faults' > faults
    BY <1>2, <2>1 DEF PublishInv
  <2>2. CASE \A v \in Workers, t \in Schedules, d \in Times :
                 Published(v, t, d) => Published(v, t, d)'
    BY <1>2, <2>2 DEF PublishInv, NextIsNew
  <2>3. QED
    BY <2>1, <2>2
<1>5. QED
  BY <1>1, <1>3, <1>4 DEF PublishInv

LEMMA TakeNextPublish ==
    ASSUME ClaimInv, PublishInv, NEW w \in Workers, NEW j \in batch[w], TakeNext(w, j)
    PROVE  PublishInv'
<1>1. /\ pc[w] = "next"
      /\ batch' = [batch EXCEPT ![w] = @ \ {j}]
      /\ job' = [job EXCEPT ![w] = [id |-> j.id, config |-> j.config, due |-> j.due,
                                    attempt |-> 1, outcome |-> "skipped"]]
      /\ pc' = [pc EXCEPT ![w] = IF archived[j.id] THEN "rescheduling" ELSE "executing"]
      /\ UNCHANGED <<clock, next_run, reference, faults, published>>
  BY DEF TakeNext, Goto, rows, history
<1>2. \A v \in Workers : Holding(v)' \subseteq Holding(v)
  BY <1>1 DEF ClaimInv, Shape, Holding, Working
<1>3. Unpublished'
  BY <1>1 DEF PublishInv, Unpublished, ClaimInv, Shape
<1>4. \A v \in Workers, s \in Schedules, d \in Times : Published(v, s, d) => Published(v, s, d)'
  BY <1>1 DEF Published, ClaimInv, Shape, Working
<1>5. QED
  BY <1>1, <1>2, <1>3, <1>4, WorkerPublish DEF PublishInv

LEMMA ExecutePublish ==
    ASSUME ClaimInv, PublishInv, NEW w \in Workers, Execute(w)
    PROVE  PublishInv'
<1> DEFINE s == job[w].id
           d == job[w].due
<1>1. /\ pc[w] = "executing" /\ pc' = [pc EXCEPT ![w] = "creating"]
      /\ published' = [published EXCEPT ![s][d] = @ + 1]
      /\ job' = [job EXCEPT ![w].outcome = "completed"]
      /\ UNCHANGED <<clock, next_run, reference, batch, faults>>
  BY DEF Execute, Goto, rows
<1>2. job[w] \in Job /\ s \in Schedules /\ d \in Times /\ s \in Holding(w)
  BY <1>1 DEF ClaimInv, Shape, Job, Working, Holding
<1>3. d <= reference[w] /\ reference[w] <= clock /\ published[s][d] <= faults
  BY <1>1 DEF ClaimInv, Timely, PublishInv, Unpublished, Working
<1>4. \A v \in Workers : s \in Holding(v) => v = w
  BY <1>2 DEF ClaimInv, OneWorker
<1>5. job'[w].id = s /\ job'[w].due = d
  BY <1>1, <1>2 DEF ClaimInv, Shape
<1> HIDE DEF s, d
<1>6. published' \in [Schedules -> [Times -> Nat]]
  BY <1>1, <1>2 DEF PublishInv
<1>7. \A t \in Schedules, e \in Times :
          published'[t][e] = IF t = s /\ e = d THEN published[t][e] + 1 ELSE published[t][e]
  BY <1>1, <1>2 DEF PublishInv
<1>8. \A v \in Workers : Holding(v)' = Holding(v)
  BY <1>1, <1>5 DEF ClaimInv, Shape, Holding, Working, s
<1>9. Past'
  <2> SUFFICES ASSUME NEW t \in Schedules, NEW e \in Times, published'[t][e] > 0
               PROVE  /\ e <= clock
                      /\ \A v \in Workers : t \in Holding(v) => e <= reference[v]
    BY <1>1, <1>8 DEF Past
  <2>1. CASE t = s /\ e = d
    BY <1>2, <1>3, <1>4, <2>1 DEF ClaimInv, Shape, Times
  <2>2. CASE ~(t = s /\ e = d)
    BY <1>7, <2>2 DEF PublishInv, Past
  <2>3. QED
    BY <2>1, <2>2
<1>10. Unpublished'
  <2> SUFFICES ASSUME NEW v \in Workers
               PROVE  /\ \A j \in batch[v] : published'[j.id][j.due] <= faults
                      /\ pc'[v] = "executing" => published'[job'[v].id][job'[v].due] <= faults
    BY <1>1 DEF Unpublished
  <2>1. ASSUME NEW j \in batch[v] PROVE published'[j.id][j.due] <= faults
    <3>1. j.id \in Holding(v) /\ j.id \in Schedules /\ j.due \in Times
      BY DEF Holding, ClaimInv, Shape, Claimed
    <3>2. j.id # s
      BY <1>1, <1>4, <3>1 DEF ClaimInv, Apart, Working, s
    <3>3. QED
      BY <1>7, <3>1, <3>2 DEF PublishInv, Unpublished
  <2>2. ASSUME pc'[v] = "executing" PROVE published'[job'[v].id][job'[v].due] <= faults
    <3>1. v # w /\ pc[v] = "executing" /\ job'[v] = job[v]
      BY <1>1, <2>2 DEF ClaimInv, Shape
    <3>2. job[v] \in Job /\ job[v].id \in Holding(v)
      BY <3>1 DEF ClaimInv, Shape, Working, Holding
    <3>3. job[v].id # s
      BY <1>4, <3>1, <3>2
    <3>4. QED
      BY <1>7, <3>1, <3>2, <3>3 DEF PublishInv, Unpublished, Job
  <2>3. QED
    BY <2>1, <2>2
<1>11. PublishedInFull'
  BY <1>1, <1>2, <1>3, <1>7 DEF PublishInv, PublishedInFull
<1>12. NextIsNew'
  <2> SUFFICES ASSUME NEW t \in Schedules, next_run[t] \in Times
               PROVE  \/ published'[t][next_run[t]] <= faults
                      \/ \E v \in Workers : Published(v, t, next_run[t])'
    BY <1>1 DEF NextIsNew
  <2>1. CASE t = s /\ next_run[t] = d
    <3>1. Published(w, t, next_run[t])'
      BY <1>1, <1>5, <2>1 DEF Published, ClaimInv, Shape, Working
    <3>2. QED
      BY <3>1
  <2>2. CASE ~(t = s /\ next_run[t] = d)
    <3>1. published'[t][next_run[t]] = published[t][next_run[t]]
      BY <1>7, <2>2
    <3>2. \A v \in Workers : Published(v, t, next_run[t]) => Published(v, t, next_run[t])'
      BY <1>1 DEF Published, ClaimInv, Shape
    <3>3. QED
      BY <3>1, <3>2 DEF PublishInv, NextIsNew
  <2>3. QED
    BY <2>1, <2>2
<1>13. QED
  BY <1>1, <1>6, <1>9, <1>10, <1>11, <1>12 DEF PublishInv

(* Between the publication and the rescheduling, and when an attempt fails.  *)
LEMMA AtJobPublish ==
    ASSUME ClaimInv, PublishInv, NEW w \in Workers,
           ExecuteFails(w) \/ CreateExecution(w) \/ FinishExecution(w)
    PROVE  PublishInv'
<1>1. /\ pc[w] \in Working
      /\ \E place \in Working :
             pc' = [pc EXCEPT ![w] = place] /\ (place = "executing" => pc[w] = "executing")
      /\ UNCHANGED <<clock, next_run, reference, batch, faults, published>>
  BY DEF ExecuteFails, CreateExecution, FinishExecution, rows, history, Goto, Working, ClaimInv,
         Shape
<1>2. \A v \in Workers :
          pc[v] \in Working => job'[v].id = job[v].id /\ job'[v].due = job[v].due
  <2>1. \A v \in Workers : pc[v] \in Working => job[v] \in Job
    BY DEF ClaimInv, Shape
  <2>2. CASE ExecuteFails(w)
    BY <2>1, <2>2 DEF ExecuteFails, ClaimInv, Shape, Job
  <2>3. CASE CreateExecution(w) \/ FinishExecution(w)
    BY <2>3 DEF CreateExecution, FinishExecution
  <2>4. QED
    BY <2>2, <2>3
<1>3. \A v \in Workers :
          /\ pc'[v] \in Working <=> pc[v] \in Working
          /\ pc'[v] = "executing" => pc[v] = "executing"
  BY <1>1 DEF ClaimInv, Shape
<1>4. \A v \in Workers : Holding(v)' \subseteq Holding(v)
  BY <1>1, <1>2, <1>3 DEF Holding
<1>5. Unpublished'
  BY <1>1, <1>2, <1>3 DEF PublishInv, Unpublished, Working
<1>6. \A v \in Workers, s \in Schedules, d \in Times : Published(v, s, d) => Published(v, s, d)'
  <2>1. \A v \in Workers : pc[v] \in Working \ {"executing"} => pc'[v] \in Working \ {"executing"}
    BY <1>1 DEF ClaimInv, Shape
  <2>2. QED
    BY <1>2, <2>1 DEF Published
<1>7. QED
  BY <1>1, <1>4, <1>5, <1>6, WorkerPublish DEF PublishInv

(* The schedule moves on to a time after everything that was published.      *)
LEMMA ReschedulePublish ==
    ASSUME ClaimInv, PublishInv, NEW w \in Workers, Reschedule(w)
    PROVE  PublishInv'
<1> DEFINE s == job[w].id
           n == NextRun(job[w].config, reference[w])
<1>1. /\ pc[w] = "rescheduling"
      /\ next_run' = [next_run EXCEPT ![s] = n]
      /\ UNCHANGED <<clock, reference, batch, faults, published>>
      /\ \E place \in {"delivering", "idle", "next"} : pc' = [pc EXCEPT ![w] = place]
      /\ \A v \in Workers \ {w} : job'[v] = job[v]
  BY DEF Reschedule, EndJob, Goto, history, ClaimInv, Shape
<1>2. job[w] \in Job /\ s \in Schedules /\ s \in Holding(w)
  BY <1>1 DEF ClaimInv, Shape, Working, Job, Holding
<1>3. n \in Nat /\ n > reference[w]
  BY <1>2, NextRunIsLater DEF ClaimInv, Shape, Job, Times
<1> HIDE DEF n
<1>4. \A v \in Workers \ {w} : pc'[v] = pc[v] /\ job'[v] = job[v]
  BY <1>1 DEF ClaimInv, Shape
<1>5. pc'[w] \notin Working
  BY <1>1 DEF ClaimInv, Shape, Working
<1>6. \A v \in Workers : Holding(v)' \subseteq Holding(v)
  BY <1>1, <1>4, <1>5 DEF Holding
<1>7. Past' /\ PublishedInFull'
  BY <1>1, <1>6 DEF PublishInv, Past, PublishedInFull
<1>8. Unpublished'
  BY <1>1, <1>4, <1>5 DEF PublishInv, Unpublished, Working
<1>9. NextIsNew'
  <2> SUFFICES ASSUME NEW t \in Schedules, next_run'[t] \in Times
               PROVE  \/ published[t][next_run'[t]] <= faults
                      \/ \E v \in Workers : /\ pc'[v] \in Working \ {"executing"}
                                            /\ job'[v].id = t /\ job'[v].due = next_run'[t]
    BY <1>1 DEF NextIsNew, Published
  <2>1. CASE t = s
    <3>1. next_run'[t] = n
      BY <1>1, <1>2, <2>1 DEF ClaimInv, Shape
    <3>2. reference[w] \in Nat /\ published[s][n] \in Nat /\ n \in Times
      <4>1. n \in Times
        BY <2>1, <3>1
      <4>2. QED
        BY <1>2, <4>1, BoundAssumption DEF ClaimInv, Shape, Times, PublishInv
    <3>3. ~(published[s][n] > 0)
      BY <1>2, <1>3, <2>1, <3>1, <3>2 DEF PublishInv, Past
    <3>4. QED
      BY <2>1, <3>1, <3>2, <3>3 DEF PublishInv
  <2>2. CASE t # s
    <3>1. next_run'[t] = next_run[t]
      BY <1>1, <2>2 DEF ClaimInv, Shape
    <3>2. \A v \in Workers : Published(v, t, next_run[t]) => v # w
      BY <2>2 DEF Published
    <3>3. QED
      BY <1>4, <3>1, <3>2 DEF PublishInv, NextIsNew, Published
  <2>3. QED
    BY <2>1, <2>2
<1>10. QED
  BY <1>1, <1>7, <1>8, <1>9 DEF PublishInv

LEMMA DeliverPublish ==
    ASSUME ClaimInv, PublishInv, NEW w \in Workers, Deliver(w)
    PROVE  PublishInv'
<1>1. /\ pc[w] = "delivering"
      /\ \E place \in {"idle", "next"} : pc' = [pc EXCEPT ![w] = place]
      /\ job' = [job EXCEPT ![w] = NoJob]
      /\ UNCHANGED <<clock, next_run, reference, batch, faults, published>>
  BY DEF Deliver, EndJob, Goto, rows
<1>2. \A v \in Workers : Holding(v)' \subseteq Holding(v)
  BY <1>1 DEF Holding, ClaimInv, Shape, Working
<1>3. Unpublished'
  BY <1>1 DEF PublishInv, Unpublished, ClaimInv, Shape
<1>4. \A v \in Workers, s \in Schedules, d \in Times : Published(v, s, d) => Published(v, s, d)'
  BY <1>1 DEF Published, ClaimInv, Shape, Working
<1>5. QED
  BY <1>1, <1>2, <1>3, <1>4, WorkerPublish DEF PublishInv

(* Who dies leaves its schedules to be published once more.                  *)
LEMMA CrashPublish ==
    ASSUME ClaimInv, PublishInv, NEW w \in Workers, Crash(w)
    PROVE  PublishInv'
<1>1. /\ faults' = faults + 1
      /\ pc' = [pc EXCEPT ![w] = "idle"]
      /\ batch' = [batch EXCEPT ![w] = {}]
      /\ job' = [job EXCEPT ![w] = NoJob]
      /\ UNCHANGED <<clock, next_run, reference, published>>
  BY DEF Crash, Goto, rows, history
<1>2. \A v \in Workers : Holding(v)' \subseteq Holding(v)
  BY <1>1 DEF Holding, ClaimInv, Shape, Working
<1>3. faults' \in Nat /\ faults' > faults
  BY <1>1 DEF PublishInv
<1>4. Unpublished'
  <2> SUFFICES ASSUME NEW v \in Workers
               PROVE  /\ \A j \in batch'[v] : published[j.id][j.due] <= faults'
                      /\ pc'[v] = "executing" => published[job'[v].id][job'[v].due] <= faults'
    BY <1>1 DEF Unpublished
  <2>1. CASE v = w
    BY <1>1, <2>1 DEF ClaimInv, Shape
  <2>2. CASE v # w
    <3>1. batch'[v] = batch[v] /\ pc'[v] = pc[v] /\ job'[v] = job[v]
      BY <1>1, <2>2 DEF ClaimInv, Shape
    <3>2. \A j \in batch[v] : published[j.id][j.due] \in Nat
      BY DEF ClaimInv, Shape, Claimed, PublishInv
    <3>3. pc[v] = "executing" => published[job[v].id][job[v].due] \in Nat
      BY DEF ClaimInv, Shape, Job, PublishInv, Working
    <3>4. QED
      BY <1>1, <3>1, <3>2, <3>3 DEF PublishInv, Unpublished
  <2>3. QED
    BY <2>1, <2>2
<1>5. QED
  BY <1>1, <1>2, <1>3, <1>4, WorkerPublish DEF PublishInv

LEMMA ApiPublish ==
    ASSUME ClaimInv, PublishInv, Api
    PROVE  PublishInv'
<1>1. UNCHANGED <<clock, pc, reference, batch, job, faults, published>>
  BY DEF Api, PatchRead, PatchWrite, Switch, Archive, rows, worker, history
<1>2. \A w \in Workers : Holding(w)' = Holding(w)
  BY <1>1 DEF Holding
<1>3. Past' /\ Unpublished' /\ PublishedInFull'
  BY <1>1, <1>2 DEF PublishInv, Past, Unpublished, PublishedInFull
<1>4. \A s \in Schedules : next_run'[s] = next_run[s] \/ next_run'[s] > clock
  <2>1. ASSUME NEW e \in Editors, PatchWrite(e), NEW s \in Schedules
        PROVE  next_run'[s] = next_run[s] \/ next_run'[s] > clock
    BY <2>1 DEF PatchWrite, ClaimInv, Shape, Ahead
  <2>2. CASE UNCHANGED next_run
    BY <2>2
  <2>3. QED
    BY <2>1, <2>2 DEF Api, PatchRead, Switch, Archive, rows
<1>5. NextIsNew'
  <2> SUFFICES ASSUME NEW s \in Schedules, next_run'[s] \in Times
               PROVE  \/ published[s][next_run'[s]] <= faults
                      \/ \E w \in Workers : Published(w, s, next_run'[s])
    BY <1>1 DEF NextIsNew, Published
  <2>1. CASE next_run'[s] = next_run[s]
    BY <2>1 DEF PublishInv, NextIsNew
  <2>2. CASE next_run'[s] > clock
    <3>1. published[s][next_run'[s]] \in Nat /\ clock \in Nat
      <4>1. published[s][next_run'[s]] \in Nat
        BY DEF PublishInv
      <4>2. QED
        BY <4>1, BoundAssumption DEF ClaimInv, Shape, Times
    <3>2. ~(published[s][next_run'[s]] > 0)
      BY <2>2, <3>1 DEF PublishInv, Past, Times
    <3>3. QED
      BY <3>1, <3>2 DEF PublishInv
  <2>3. QED
    BY <1>4, <2>1, <2>2
<1>6. QED
  BY <1>1, <1>3, <1>5 DEF PublishInv

LEMMA NextPublish ==
    ASSUME ClaimInv, PublishInv, [Next]_vars
    PROVE  PublishInv'
<1>1. CASE \E w \in Workers : WorkerStep(w) \/ Crash(w)
  BY <1>1, ClaimDuePublish, TakeNextPublish, ExecutePublish, AtJobPublish, ReschedulePublish,
     DeliverPublish, CrashPublish DEF WorkerStep
<1>2. CASE Api
  BY <1>2, ApiPublish
<1>3. CASE Tick \/ UNCHANGED vars
  <2>1. /\ clock' >= clock /\ clock \in Nat /\ clock' \in Nat
        /\ UNCHANGED <<next_run, pc, reference, batch, job, faults, published>>
    BY <1>3 DEF Tick, vars, rows, worker, history, ClaimInv, Shape, Times
  <2>2. \A w \in Workers : Holding(w)' = Holding(w)
    BY <2>1 DEF Holding
  <2>3. Past'
    BY <2>1, <2>2 DEF PublishInv, Past, Times
  <2>4. Unpublished' /\ NextIsNew' /\ PublishedInFull'
    BY <2>1 DEF PublishInv, Unpublished, NextIsNew, Published, PublishedInFull
  <2>5. QED
    BY <2>1, <2>3, <2>4 DEF PublishInv
<1>4. QED
  BY <1>1, <1>2, <1>3 DEF Next

-----------------------------------------------------------------------------
(* Documents registered by the attempts *)

(* What those that died may have registered in all their attempts.           *)
Spent == MaxAttempts * faults

(* What has been registered was due, also for who has the schedule now.      *)
RegisteredPast ==
    \A s \in Schedules, d \in Times :
        registered[s][d] > 0 => /\ d <= clock
                                /\ \A w \in Workers : s \in Holding(w) => d <= reference[w]

(* What a worker has yet to run was registered only by those that died, and  *)
(* what it is running by its own earlier attempts besides.                   *)
Unregistered ==
    \A w \in Workers :
        /\ \A j \in batch[w] : registered[j.id][j.due] <= Spent
        /\ pc[w] = "executing" =>
               registered[job[w].id][job[w].due] <= Spent + job[w].attempt - 1

(* So was what comes next, unless a worker has it in hand.                   *)
InHand(w, s, d) == pc[w] \in Working /\ job[w].id = s /\ job[w].due = d
NextUnregistered ==
    \A s \in Schedules :
        next_run[s] \in Times =>
            \/ registered[s][next_run[s]] <= Spent
            \/ \E w \in Workers : InHand(w, s, next_run[s])

RegisterInv ==
    /\ faults \in Nat
    /\ registered \in [Schedules -> [Times -> Nat]]
    /\ RegisteredPast /\ Unregistered /\ NextUnregistered /\ RegisteredInPart

LEMMA SpentGrows ==
    ASSUME faults \in Nat
    PROVE  /\ Spent \in Nat
           /\ faults' = faults => Spent' = Spent
           /\ faults' = faults + 1 => Spent' = Spent + MaxAttempts
<1>1. MaxAttempts \in Nat
  BY BoundAssumption
<1>2. MaxAttempts * (faults + 1) = MaxAttempts * faults + MaxAttempts /\ MaxAttempts * faults \in Nat
  BY <1>1
<1>3. QED
  BY <1>2 DEF Spent

LEMMA InitRegister == Init => RegisterInv
<1> SUFFICES ASSUME Init PROVE RegisterInv
  OBVIOUS
<1>1. faults = 0 /\ registered = [s \in Schedules |-> [d \in Times |-> 0]]
  BY DEF Init
<1>2. Spent \in Nat /\ Spent = MaxAttempts * faults /\ MaxAttempts \in Nat
  BY <1>1, SpentGrows, BoundAssumption DEF Spent
<1>3. RegisteredPast /\ NextUnregistered /\ RegisteredInPart
  BY <1>1, <1>2 DEF RegisteredPast, NextUnregistered, RegisteredInPart
<1>4. Unregistered
  BY DEF Init, Unregistered
<1>5. QED
  BY <1>1, <1>3, <1>4 DEF RegisterInv

LEMMA ClaimDueRegister ==
    ASSUME ClaimInv, RegisterInv, NEW w \in Workers, NEW chosen \in Batches, ClaimDue(w, chosen)
    PROVE  RegisterInv'
<1> DEFINE new == {[id |-> s, config |-> config[s], due |-> next_run[s]] : s \in chosen}
<1>1. /\ pc[w] = "idle" /\ pc' = [pc EXCEPT ![w] = "next"]
      /\ reference' = [reference EXCEPT ![w] = clock]
      /\ batch' = [batch EXCEPT ![w] = new]
      /\ UNCHANGED <<clock, next_run, job, faults, registered>>
  BY DEF ClaimDue, Goto, history
<1>2. Spent' = Spent
  BY <1>1 DEF Spent
<1>3. \A s \in chosen : Claimable(s) /\ s \in Schedules /\ next_run[s] \in Times
  BY BoundAssumption DEF Batches, kSubset, Claimable, Due, ClaimInv, Shape, Times
<1>4. \A v \in Workers, s \in chosen : s \notin Holding(v)
  BY <1>3, ClaimableIsFree
<1>5. \A s \in chosen : registered[s][next_run[s]] <= Spent
  BY <1>3, <1>4 DEF RegisterInv, NextUnregistered, InHand, Holding
<1>6. RegisteredPast'
  <2> SUFFICES ASSUME NEW s \in Schedules, NEW d \in Times, registered[s][d] > 0,
                      NEW v \in Workers, s \in Holding(v)'
               PROVE  d <= reference'[v]
    BY <1>1 DEF RegisteredPast, RegisterInv
  <2>1. CASE v = w
    BY <1>1, <2>1 DEF RegisterInv, RegisteredPast, ClaimInv, Shape
  <2>2. CASE v # w
    BY <1>1, <2>2 DEF RegisterInv, RegisteredPast, ClaimInv, Shape, Holding
  <2>3. QED
    BY <2>1, <2>2
<1>7. Unregistered'
  <2> SUFFICES ASSUME NEW v \in Workers
               PROVE  /\ \A j \in batch'[v] : registered[j.id][j.due] <= Spent
                      /\ pc'[v] = "executing" =>
                             registered[job[v].id][job[v].due] <= Spent + job[v].attempt - 1
    BY <1>1, <1>2 DEF Unregistered
  <2>1. CASE v = w
    BY <1>1, <1>5, <2>1 DEF ClaimInv, Shape
  <2>2. CASE v # w
    BY <1>1, <2>2 DEF RegisterInv, Unregistered, ClaimInv, Shape
  <2>3. QED
    BY <2>1, <2>2
<1>8. NextUnregistered'
  <2>1. \A v \in Workers, s \in Schedules, d \in Times : InHand(v, s, d) => InHand(v, s, d)'
    BY <1>1 DEF InHand, ClaimInv, Shape, Working
  <2>2. QED
    BY <1>1, <1>2, <2>1 DEF RegisterInv, NextUnregistered
<1>9. RegisteredInPart'
  BY <1>1 DEF RegisterInv, RegisteredInPart
<1>10. QED
  BY <1>1, <1>6, <1>7, <1>8, <1>9 DEF RegisterInv

(* A step that registers nothing, by which nobody dies, moves no schedule on *)
(* and lets go of none.                                                      *)
LEMMA QuietRegister ==
    ASSUME ClaimInv, RegisterInv,
           UNCHANGED <<clock, next_run, reference, faults, registered>>,
           \A v \in Workers : Holding(v)' \subseteq Holding(v),
           Unregistered',
           \A v \in Workers, s \in Schedules, d \in Times : InHand(v, s, d) => InHand(v, s, d)'
    PROVE  RegisterInv'
<1>1. RegisteredPast' /\ RegisteredInPart'
  BY DEF RegisterInv, RegisteredPast, RegisteredInPart
<1>2. Spent' = Spent
  BY DEF Spent
<1>3. NextUnregistered'
  BY <1>2 DEF RegisterInv, NextUnregistered
<1>4. QED
  BY <1>1, <1>3 DEF RegisterInv

LEMMA TakeNextRegister ==
    ASSUME ClaimInv, RegisterInv, NEW w \in Workers, NEW j \in batch[w], TakeNext(w, j)
    PROVE  RegisterInv'
<1>1. /\ pc[w] = "next"
      /\ batch' = [batch EXCEPT ![w] = @ \ {j}]
      /\ job' = [job EXCEPT ![w] = [id |-> j.id, config |-> j.config, due |-> j.due,
                                    attempt |-> 1, outcome |-> "skipped"]]
      /\ pc' = [pc EXCEPT ![w] = IF archived[j.id] THEN "rescheduling" ELSE "executing"]
      /\ UNCHANGED <<clock, next_run, reference, faults, registered>>
  BY DEF TakeNext, Goto, rows, history
<1>2. \A v \in Workers : Holding(v)' \subseteq Holding(v)
  BY <1>1 DEF ClaimInv, Shape, Holding, Working
<1>3. Unregistered'
  <2>1. Spent' = Spent /\ Spent \in Nat
    BY <1>1, SpentGrows DEF Spent, RegisterInv
  <2> SUFFICES ASSUME NEW v \in Workers
               PROVE  /\ \A k \in batch'[v] : registered[k.id][k.due] <= Spent
                      /\ pc'[v] = "executing" =>
                             registered[job'[v].id][job'[v].due] <= Spent + job'[v].attempt - 1
    BY <1>1, <2>1 DEF Unregistered
  <2>2. CASE v = w
    BY <1>1, <2>1, <2>2 DEF RegisterInv, Unregistered, ClaimInv, Shape
  <2>3. CASE v # w
    BY <1>1, <2>3 DEF RegisterInv, Unregistered, ClaimInv, Shape
  <2>4. QED
    BY <2>2, <2>3
<1>4. \A v \in Workers, s \in Schedules, d \in Times : InHand(v, s, d) => InHand(v, s, d)'
  BY <1>1 DEF InHand, ClaimInv, Shape, Working
<1>5. QED
  BY <1>1, <1>2, <1>3, <1>4, QuietRegister DEF RegisterInv

(* An attempt registers its documents once at most, whether it succeeds,     *)
(* fails or is the last.                                                     *)
LEMMA AttemptRegister ==
    ASSUME ClaimInv, RegisterInv, NEW w \in Workers, Execute(w) \/ ExecuteFails(w)
    PROVE  RegisterInv'
<1> DEFINE s == job[w].id
           d == job[w].due
           a == job[w].attempt
<1>1. /\ pc[w] = "executing"
      /\ registered' = [registered EXCEPT ![s][d] = @ + 1] \/ registered' = registered
      /\ UNCHANGED <<clock, next_run, reference, batch, faults>>
  BY DEF Execute, ExecuteFails, Leaves, Registers, rows
<1>2. job[w] \in Job /\ s \in Schedules /\ d \in Times /\ a \in 1..MaxAttempts /\ s \in Holding(w)
  BY <1>1 DEF ClaimInv, Shape, Job, Working, Holding
<1>3. /\ pc' = [pc EXCEPT ![w] = pc'[w]] /\ pc'[w] \in Working
      /\ job'[w].id = s /\ job'[w].due = d
      /\ pc'[w] = "executing" => job'[w].attempt = a + 1
      /\ \A v \in Workers \ {w} : job'[v] = job[v]
  <2>1. CASE Execute(w)
    BY <1>2, <2>1 DEF Execute, Goto, ClaimInv, Shape, Job, Working
  <2>2. CASE ExecuteFails(w) /\ a < MaxAttempts
    BY <1>1, <1>2, <2>2 DEF ExecuteFails, ClaimInv, Shape, Job, Working
  <2>3. CASE ExecuteFails(w) /\ ~(a < MaxAttempts)
    BY <1>2, <2>3 DEF ExecuteFails, Goto, ClaimInv, Shape, Job, Working
  <2>4. QED
    BY <2>1, <2>2, <2>3
<1>4. /\ d <= reference[w] /\ reference[w] <= clock
      /\ registered[s][d] <= Spent + a - 1
  BY <1>1 DEF ClaimInv, Timely, RegisterInv, Unregistered, Working
<1>5. \A v \in Workers : s \in Holding(v) => v = w
  BY <1>2 DEF ClaimInv, OneWorker
<1>6. Spent' = Spent /\ Spent \in Nat /\ MaxAttempts \in Nat
  BY <1>1, SpentGrows, BoundAssumption DEF RegisterInv, Spent
<1> HIDE DEF s, d, a
<1>7. registered' \in [Schedules -> [Times -> Nat]]
  BY <1>1, <1>2 DEF RegisterInv
<1>8. /\ \A t \in Schedules, e \in Times :
             ~(t = s /\ e = d) => registered'[t][e] = registered[t][e]
      /\ registered'[s][d] <= Spent + a
  <2>1. registered[s][d] \in Nat /\ a \in Nat
    BY <1>2 DEF RegisterInv
  <2>2. QED
    BY <1>1, <1>2, <1>4, <1>6, <2>1 DEF RegisterInv
<1>9. \A v \in Workers : Holding(v)' = Holding(v)
  <2> TAKE v \in Workers
  <2>1. CASE v = w
    BY <1>1, <1>3, <2>1 DEF ClaimInv, Shape, Holding, Working, s
  <2>2. CASE v # w
    BY <1>1, <1>3, <2>2 DEF ClaimInv, Shape, Holding
  <2>3. QED
    BY <2>1, <2>2
<1>10. RegisteredPast'
  <2> SUFFICES ASSUME NEW t \in Schedules, NEW e \in Times, registered'[t][e] > 0
               PROVE  /\ e <= clock
                      /\ \A v \in Workers : t \in Holding(v) => e <= reference[v]
    BY <1>1, <1>9 DEF RegisteredPast
  <2>1. CASE t = s /\ e = d
    BY <1>2, <1>4, <1>5, <2>1 DEF ClaimInv, Shape, Times
  <2>2. CASE ~(t = s /\ e = d)
    BY <1>8, <2>2 DEF RegisterInv, RegisteredPast
  <2>3. QED
    BY <2>1, <2>2
<1>11. Unregistered'
  <2> SUFFICES ASSUME NEW v \in Workers
               PROVE  /\ \A j \in batch[v] : registered'[j.id][j.due] <= Spent
                      /\ pc'[v] = "executing" =>
                             registered'[job'[v].id][job'[v].due] <= Spent + job'[v].attempt - 1
    BY <1>1, <1>6 DEF Unregistered
  <2>1. ASSUME NEW j \in batch[v] PROVE registered'[j.id][j.due] <= Spent
    <3>1. j.id \in Holding(v) /\ j.id \in Schedules /\ j.due \in Times
      BY DEF Holding, ClaimInv, Shape, Claimed
    <3>2. j.id # s
      BY <1>1, <1>5, <3>1 DEF ClaimInv, Apart, Working, s
    <3>3. QED
      BY <1>8, <3>1, <3>2 DEF RegisterInv, Unregistered
  <2>2. ASSUME pc'[v] = "executing"
        PROVE  registered'[job'[v].id][job'[v].due] <= Spent + job'[v].attempt - 1
    <3>1. CASE v = w
      BY <1>2, <1>3, <1>6, <1>7, <1>8, <2>2, <3>1
    <3>2. CASE v # w
      <4>1. pc[v] = "executing" /\ job'[v] = job[v]
        BY <1>3, <2>2, <3>2 DEF ClaimInv, Shape
      <4>2. job[v] \in Job /\ job[v].id \in Holding(v)
        BY <4>1 DEF ClaimInv, Shape, Working, Holding
      <4>3. job[v].id # s
        BY <1>5, <3>2, <4>2
      <4>4. QED
        BY <1>8, <4>1, <4>2, <4>3 DEF RegisterInv, Unregistered, Job
    <3>3. QED
      BY <3>1, <3>2
  <2>3. QED
    BY <2>1, <2>2
<1>12. RegisteredInPart'
  <2> SUFFICES ASSUME NEW t \in Schedules, NEW e \in Times
               PROVE  registered'[t][e] <= Spent' + MaxAttempts
    BY DEF RegisteredInPart, Spent
  <2>1. CASE t = s /\ e = d
    BY <1>2, <1>6, <1>7, <1>8, <2>1
  <2>2. CASE ~(t = s /\ e = d)
    BY <1>6, <1>8, <2>2 DEF RegisterInv, RegisteredInPart, Spent
  <2>3. QED
    BY <2>1, <2>2
<1>13. NextUnregistered'
  <2> SUFFICES ASSUME NEW t \in Schedules, next_run[t] \in Times
               PROVE  \/ registered'[t][next_run[t]] <= Spent
                      \/ \E v \in Workers : InHand(v, t, next_run[t])'
    BY <1>1, <1>6 DEF NextUnregistered
  <2>1. CASE t = s /\ next_run[t] = d
    <3>1. InHand(w, t, next_run[t])'
      BY <1>1, <1>3, <2>1 DEF InHand
    <3>2. QED
      BY <3>1
  <2>2. CASE ~(t = s /\ next_run[t] = d)
    <3>1. registered'[t][next_run[t]] = registered[t][next_run[t]]
      BY <1>8, <2>2
    <3>2. \A v \in Workers : InHand(v, t, next_run[t]) => v # w
      BY <2>2 DEF InHand, s, d
    <3>3. \A v \in Workers : InHand(v, t, next_run[t]) => InHand(v, t, next_run[t])'
      BY <1>1, <1>3, <3>2 DEF InHand, ClaimInv, Shape
    <3>4. QED
      BY <3>1, <3>3 DEF RegisterInv, NextUnregistered
  <2>3. QED
    BY <2>1, <2>2
<1>14. QED
  BY <1>1, <1>7, <1>10, <1>11, <1>12, <1>13 DEF RegisterInv

LEMMA RecordRegister ==
    ASSUME ClaimInv, RegisterInv, NEW w \in Workers, CreateExecution(w) \/ FinishExecution(w)
    PROVE  RegisterInv'
<1>1. /\ pc[w] \in Working
      /\ \E place \in Working \ {"executing"} : pc' = [pc EXCEPT ![w] = place]
      /\ UNCHANGED <<clock, next_run, reference, batch, job, faults, registered>>
  BY DEF CreateExecution, FinishExecution, rows, history, Goto, Working
<1>2. \A v \in Workers :
          /\ pc'[v] \in Working <=> pc[v] \in Working
          /\ pc'[v] = "executing" => pc[v] = "executing"
  BY <1>1 DEF ClaimInv, Shape, Working
<1>3. \A v \in Workers : Holding(v)' \subseteq Holding(v)
  BY <1>1, <1>2 DEF Holding
<1>4. Unregistered'
  <2>1. Spent' = Spent
    BY <1>1 DEF Spent
  <2>2. QED
    BY <1>1, <1>2, <2>1 DEF RegisterInv, Unregistered
<1>5. \A v \in Workers, s \in Schedules, d \in Times : InHand(v, s, d) => InHand(v, s, d)'
  BY <1>1, <1>2 DEF InHand
<1>6. QED
  BY <1>1, <1>3, <1>4, <1>5, QuietRegister DEF RegisterInv

LEMMA RescheduleRegister ==
    ASSUME ClaimInv, RegisterInv, NEW w \in Workers, Reschedule(w)
    PROVE  RegisterInv'
<1> DEFINE s == job[w].id
           n == NextRun(job[w].config, reference[w])
<1>1. /\ pc[w] = "rescheduling"
      /\ next_run' = [next_run EXCEPT ![s] = n]
      /\ UNCHANGED <<clock, reference, batch, faults, registered>>
      /\ \E place \in {"delivering", "idle", "next"} : pc' = [pc EXCEPT ![w] = place]
      /\ \A v \in Workers \ {w} : job'[v] = job[v]
  BY DEF Reschedule, EndJob, Goto, history, ClaimInv, Shape
<1>2. job[w] \in Job /\ s \in Schedules /\ s \in Holding(w)
  BY <1>1 DEF ClaimInv, Shape, Working, Job, Holding
<1>3. n \in Nat /\ n > reference[w]
  BY <1>2, NextRunIsLater DEF ClaimInv, Shape, Job, Times
<1> HIDE DEF n
<1>4. \A v \in Workers \ {w} : pc'[v] = pc[v] /\ job'[v] = job[v]
  BY <1>1 DEF ClaimInv, Shape
<1>5. pc'[w] \notin Working
  BY <1>1 DEF ClaimInv, Shape, Working
<1>6. \A v \in Workers : Holding(v)' \subseteq Holding(v)
  BY <1>1, <1>4, <1>5 DEF Holding
<1>7. Spent' = Spent /\ Spent \in Nat
  BY <1>1, SpentGrows DEF RegisterInv, Spent
<1>8. RegisteredPast' /\ RegisteredInPart'
  BY <1>1, <1>6 DEF RegisterInv, RegisteredPast, RegisteredInPart
<1>9. Unregistered'
  BY <1>1, <1>4, <1>5, <1>7 DEF RegisterInv, Unregistered, Working
<1>10. NextUnregistered'
  <2> SUFFICES ASSUME NEW t \in Schedules, next_run'[t] \in Times
               PROVE  \/ registered[t][next_run'[t]] <= Spent
                      \/ \E v \in Workers : InHand(v, t, next_run[t])' /\ next_run'[t] = next_run[t]
    BY <1>1, <1>7 DEF NextUnregistered, InHand
  <2>1. CASE t = s
    <3>1. next_run'[t] = n
      BY <1>1, <1>2, <2>1 DEF ClaimInv, Shape
    <3>2. reference[w] \in Nat /\ registered[s][n] \in Nat /\ n \in Times
      <4>1. n \in Times
        BY <2>1, <3>1
      <4>2. QED
        BY <1>2, <4>1, BoundAssumption DEF ClaimInv, Shape, Times, RegisterInv
    <3>3. ~(registered[s][n] > 0)
      BY <1>2, <1>3, <2>1, <3>1, <3>2 DEF RegisterInv, RegisteredPast
    <3>4. QED
      BY <1>7, <2>1, <3>1, <3>2, <3>3
  <2>2. CASE t # s
    <3>1. next_run'[t] = next_run[t]
      BY <1>1, <2>2 DEF ClaimInv, Shape
    <3>2. \A v \in Workers : InHand(v, t, next_run[t]) => v # w
      BY <2>2 DEF InHand
    <3>3. \A v \in Workers \ {w} :
              InHand(v, t, next_run[t]) => /\ pc'[v] \in Working
                                           /\ job'[v].id = t /\ job'[v].due = next_run'[t]
      BY <1>4, <3>1 DEF InHand
    <3>4. QED
      BY <3>1, <3>2, <3>3 DEF RegisterInv, NextUnregistered, InHand
  <2>3. QED
    BY <2>1, <2>2
<1>11. QED
  BY <1>1, <1>8, <1>9, <1>10 DEF RegisterInv

LEMMA DeliverRegister ==
    ASSUME ClaimInv, RegisterInv, NEW w \in Workers, Deliver(w)
    PROVE  RegisterInv'
<1>1. /\ pc[w] = "delivering"
      /\ \E place \in {"idle", "next"} : pc' = [pc EXCEPT ![w] = place]
      /\ job' = [job EXCEPT ![w] = NoJob]
      /\ UNCHANGED <<clock, next_run, reference, batch, faults, registered>>
  BY DEF Deliver, EndJob, Goto, rows
<1>2. \A v \in Workers : Holding(v)' \subseteq Holding(v)
  BY <1>1 DEF Holding, ClaimInv, Shape, Working
<1>3. Unregistered'
  <2>1. Spent' = Spent
    BY <1>1 DEF Spent
  <2>2. \A v \in Workers : pc'[v] = "executing" => pc[v] = "executing" /\ job'[v] = job[v]
    BY <1>1 DEF ClaimInv, Shape
  <2>3. QED
    BY <1>1, <2>1, <2>2 DEF RegisterInv, Unregistered
<1>4. \A v \in Workers, s \in Schedules, d \in Times : InHand(v, s, d) => InHand(v, s, d)'
  BY <1>1 DEF InHand, ClaimInv, Shape, Working
<1>5. QED
  BY <1>1, <1>2, <1>3, <1>4, QuietRegister DEF RegisterInv

(* Who dies leaves what its attempts registered, as many as it had at most.  *)
LEMMA CrashRegister ==
    ASSUME ClaimInv, RegisterInv, NEW w \in Workers, Crash(w)
    PROVE  RegisterInv'
<1> DEFINE s == job[w].id
           d == job[w].due
<1>1. /\ faults' = faults + 1
      /\ pc' = [pc EXCEPT ![w] = "idle"]
      /\ batch' = [batch EXCEPT ![w] = {}]
      /\ job' = [job EXCEPT ![w] = NoJob]
      /\ \/ pc[w] = "executing" /\ registered' = [registered EXCEPT ![s][d] = @ + 1]
         \/ registered' = registered
      /\ UNCHANGED <<clock, next_run, reference>>
  BY DEF Crash, Goto, Leaves, Registers, rows
<1>2. Spent \in Nat /\ Spent' = Spent + MaxAttempts /\ MaxAttempts \in Nat
  BY <1>1, SpentGrows, BoundAssumption DEF RegisterInv
<1>3. pc[w] = "executing" =>
          /\ s \in Schedules /\ d \in Times /\ s \in Holding(w)
          /\ d <= reference[w] /\ reference[w] <= clock
          /\ registered[s][d] + 1 <= Spent'
  <2> SUFFICES ASSUME pc[w] = "executing"
               PROVE  /\ s \in Schedules /\ d \in Times /\ s \in Holding(w)
                      /\ d <= reference[w] /\ reference[w] <= clock
                      /\ registered[s][d] + 1 <= Spent'
    OBVIOUS
  <2>1. job[w] \in Job /\ s \in Schedules /\ d \in Times /\ job[w].attempt \in 1..MaxAttempts
    BY DEF ClaimInv, Shape, Job, Working
  <2>2. s \in Holding(w) /\ d <= reference[w] /\ reference[w] <= clock
    BY DEF ClaimInv, Timely, Working, Holding
  <2>3. registered[s][d] <= Spent + job[w].attempt - 1 /\ registered[s][d] \in Nat
    BY <2>1 DEF RegisterInv, Unregistered
  <2>4. QED
    BY <1>2, <2>1, <2>2, <2>3
<1> HIDE DEF s, d
<1>4. registered' \in [Schedules -> [Times -> Nat]]
  BY <1>1, <1>3 DEF RegisterInv
<1>5. \A t \in Schedules, e \in Times : registered'[t][e] <= Spent'
  <2>1. \A t \in Schedules, e \in Times :
            registered[t][e] \in Nat /\ registered[t][e] <= Spent + MaxAttempts
    BY DEF RegisterInv, RegisteredInPart, Spent
  <2>2. QED
    BY <1>1, <1>2, <1>3, <2>1 DEF RegisterInv
<1>6. \A v \in Workers : Holding(v)' \subseteq Holding(v)
  BY <1>1 DEF Holding, ClaimInv, Shape, Working
<1>7. RegisteredPast'
  <2> SUFFICES ASSUME NEW t \in Schedules, NEW e \in Times, registered'[t][e] > 0
               PROVE  /\ e <= clock
                      /\ \A v \in Workers : t \in Holding(v) => e <= reference[v]
    BY <1>1, <1>6 DEF RegisteredPast
  <2>1. CASE registered'[t][e] = registered[t][e]
    BY <2>1 DEF RegisterInv, RegisteredPast
  <2>2. CASE registered'[t][e] # registered[t][e]
    <3>1. t = s /\ e = d /\ pc[w] = "executing"
      BY <1>1, <1>3, <2>2 DEF RegisterInv
    <3>2. \A v \in Workers : s \in Holding(v) => v = w
      BY <1>3, <3>1 DEF ClaimInv, OneWorker
    <3>3. QED
      BY <1>3, <3>1, <3>2, BoundAssumption DEF ClaimInv, Shape, Times
  <2>3. QED
    BY <2>1, <2>2
<1>8. Unregistered'
  <2> SUFFICES ASSUME NEW v \in Workers
               PROVE  /\ \A j \in batch'[v] : registered'[j.id][j.due] <= Spent'
                      /\ pc'[v] = "executing" =>
                             registered'[job'[v].id][job'[v].due] <= Spent' + job'[v].attempt - 1
    BY DEF Unregistered
  <2>1. CASE v = w
    BY <1>1, <2>1 DEF ClaimInv, Shape
  <2>2. CASE v # w
    <3>1. batch'[v] = batch[v] /\ pc'[v] = pc[v] /\ job'[v] = job[v]
      BY <1>1, <2>2 DEF ClaimInv, Shape
    <3>2. \A j \in batch[v] : j.id \in Schedules /\ j.due \in Times
      BY DEF ClaimInv, Shape, Claimed
    <3>3. pc[v] = "executing" => /\ job[v].id \in Schedules /\ job[v].due \in Times
                                 /\ job[v].attempt \in 1..MaxAttempts
      BY DEF ClaimInv, Shape, Job, Working
    <3>4. pc[v] = "executing" =>
              registered'[job[v].id][job[v].due] <= Spent' + job[v].attempt - 1
      <4> SUFFICES ASSUME pc[v] = "executing"
                   PROVE  registered'[job[v].id][job[v].due] <= Spent' + job[v].attempt - 1
        OBVIOUS
      <4>1. /\ registered'[job[v].id][job[v].due] <= Spent'
            /\ registered'[job[v].id][job[v].due] \in Nat
        BY <1>4, <1>5, <3>3
      <4>2. QED
        BY <1>2, <3>3, <4>1
    <3>5. QED
      BY <1>5, <3>1, <3>2, <3>4
  <2>3. QED
    BY <2>1, <2>2
<1>9. NextUnregistered' /\ RegisteredInPart'
  <2>1. NextUnregistered'
    BY <1>1, <1>5 DEF NextUnregistered, ClaimInv, Shape
  <2>2. \A t \in Schedules, e \in Times : registered'[t][e] <= Spent' + MaxAttempts
    BY <1>2, <1>4, <1>5
  <2>3. RegisteredInPart'
    BY <2>2 DEF RegisteredInPart, Spent
  <2>4. QED
    BY <2>1, <2>3
<1>10. QED
  BY <1>1, <1>4, <1>7, <1>8, <1>9 DEF RegisterInv

LEMMA ApiRegister ==
    ASSUME ClaimInv, RegisterInv, Api
    PROVE  RegisterInv'
<1>1. UNCHANGED <<clock, pc, reference, batch, job, faults, registered>>
  BY DEF Api, PatchRead, PatchWrite, Switch, Archive, rows, worker, history
<1>2. \A w \in Workers : Holding(w)' = Holding(w)
  BY <1>1 DEF Holding
<1>3. Spent' = Spent /\ Spent \in Nat
  BY <1>1, SpentGrows DEF RegisterInv, Spent
<1>4. RegisteredPast' /\ Unregistered' /\ RegisteredInPart'
  BY <1>1, <1>2, <1>3 DEF RegisterInv, RegisteredPast, Unregistered, RegisteredInPart
<1>5. \A s \in Schedules : next_run'[s] = next_run[s] \/ next_run'[s] > clock
  <2>1. ASSUME NEW e \in Editors, PatchWrite(e), NEW s \in Schedules
        PROVE  next_run'[s] = next_run[s] \/ next_run'[s] > clock
    BY <2>1 DEF PatchWrite, ClaimInv, Shape, Ahead
  <2>2. CASE UNCHANGED next_run
    BY <2>2
  <2>3. QED
    BY <2>1, <2>2 DEF Api, PatchRead, Switch, Archive, rows
<1>6. NextUnregistered'
  <2> SUFFICES ASSUME NEW s \in Schedules, next_run'[s] \in Times
               PROVE  \/ registered[s][next_run'[s]] <= Spent
                      \/ \E w \in Workers : InHand(w, s, next_run'[s])
    BY <1>1, <1>3 DEF NextUnregistered, InHand
  <2>1. CASE next_run'[s] = next_run[s]
    BY <2>1 DEF RegisterInv, NextUnregistered
  <2>2. CASE next_run'[s] > clock
    <3>1. registered[s][next_run'[s]] \in Nat
      BY DEF RegisterInv
    <3>2. clock \in Nat
      BY BoundAssumption DEF ClaimInv, Shape, Times
    <3>3. ~(registered[s][next_run'[s]] > 0)
      BY <2>2, <3>1, <3>2 DEF RegisterInv, RegisteredPast, Times
    <3>4. QED
      BY <1>3, <3>1, <3>3
  <2>3. QED
    BY <1>5, <2>1, <2>2
<1>7. QED
  BY <1>1, <1>4, <1>6 DEF RegisterInv

LEMMA NextRegister ==
    ASSUME ClaimInv, RegisterInv, [Next]_vars
    PROVE  RegisterInv'
<1>1. CASE \E w \in Workers : WorkerStep(w) \/ Crash(w)
  BY <1>1, ClaimDueRegister, TakeNextRegister, AttemptRegister, RecordRegister,
     RescheduleRegister, DeliverRegister, CrashRegister DEF WorkerStep
<1>2. CASE Api
  BY <1>2, ApiRegister
<1>3. CASE Tick \/ UNCHANGED vars
  <2>1. /\ clock' >= clock /\ clock \in Nat /\ clock' \in Nat
        /\ UNCHANGED <<next_run, pc, reference, batch, job, faults, registered>>
    BY <1>3 DEF Tick, vars, rows, worker, history, ClaimInv, Shape, Times
  <2>2. \A w \in Workers : Holding(w)' = Holding(w)
    BY <2>1 DEF Holding
  <2>3. RegisteredPast'
    BY <2>1, <2>2 DEF RegisterInv, RegisteredPast, Times
  <2>4. Unregistered' /\ NextUnregistered' /\ RegisteredInPart'
    <3>1. Spent' = Spent
      BY <2>1 DEF Spent
    <3>2. QED
      BY <2>1, <3>1 DEF RegisterInv, Unregistered, NextUnregistered, InHand, RegisteredInPart
  <2>5. QED
    BY <2>1, <2>3, <2>4 DEF RegisterInv
<1>4. QED
  BY <1>1, <1>2, <1>3 DEF Next

(* A due time is published in full once, and once more for each worker that  *)
(* died; and its documents are registered no more often than a worker may    *)
(* try, once more again for each that died, for any number of workers and    *)
(* attempts, whatever is edited, switched or archived.                       *)
THEOREM PublicationsArePerCrash ==
    ASSUME Punctual
    PROVE  Spec => []PublishedPerCrash
<1>1. ClaimInv /\ PublishInv /\ RegisterInv /\ [Next]_vars =>
          ClaimInv' /\ PublishInv' /\ RegisterInv'
  BY NextClaim, NextPublish, NextRegister
<1>2. PublishInv /\ RegisterInv => PublishedPerCrash
  BY DEF PublishInv, RegisterInv, PublishedPerCrash
<1>3. QED
  BY InitClaim, InitPublish, InitRegister, <1>1, <1>2, PTL DEF Spec

-----------------------------------------------------------------------------
(* Deliveries *)

Sending(w, s, d) == pc[w] = "delivering" /\ job[w].id = s /\ job[w].due = d
Pending(w, s, d) ==
    \/ \E j \in batch[w] : j.id = s /\ j.due = d
    \/ pc[w] \in Working /\ job[w].id = s /\ job[w].due = d

(* A schedule has moved on from the due time that is delivered: it comes     *)
(* next, and who has it in hand runs it, for a later one.                    *)
MovedOn ==
    \A s \in Schedules, d \in Times :
        (delivered[s][d] > 0 \/ \E w \in Workers : Sending(w, s, d)) =>
            /\ d <= clock /\ next_run[s] > d
            /\ \A v \in Workers, e \in Times : Pending(v, s, e) => e > d

(* What a worker is about to deliver nobody has delivered or is about to.    *)
SentByOne ==
    \A w \in Workers, s \in Schedules, d \in Times :
        Sending(w, s, d) => /\ delivered[s][d] = 0
                            /\ \A v \in Workers : Sending(v, s, d) => v = w

SentInv ==
    /\ delivered \in [Schedules -> [Times -> Nat]]
    /\ MovedOn /\ SentByOne /\ DeliveredOnce

LEMMA InitSent == Init => SentInv
<1> SUFFICES ASSUME Init PROVE SentInv
  OBVIOUS
<1>1. /\ delivered = [s \in Schedules |-> [d \in Times |-> 0]]
      /\ \A w \in Workers, s \in Schedules, d \in Times : ~Sending(w, s, d)
  BY DEF Init, Sending
<1>2. QED
  BY <1>1 DEF SentInv, MovedOn, SentByOne, DeliveredOnce

(* A step that delivers nothing, moves no schedule on and claims none.       *)
LEMMA QuietSent ==
    ASSUME ClaimInv, SentInv, clock' >= clock, clock' \in Nat, UNCHANGED <<next_run, delivered>>,
           \A w \in Workers, s \in Schedules, d \in Times :
               /\ Sending(w, s, d)' => Sending(w, s, d)
               /\ Pending(w, s, d)' => Pending(w, s, d)
    PROVE  SentInv'
<1>1. clock \in Nat /\ \A d \in Times : d \in Nat
  BY BoundAssumption DEF ClaimInv, Shape, Times
<1>2. MovedOn'
  <2> SUFFICES ASSUME NEW s \in Schedules, NEW d \in Times,
                      delivered[s][d] > 0 \/ \E w \in Workers : Sending(w, s, d)'
               PROVE  /\ d <= clock' /\ next_run[s] > d
                      /\ \A v \in Workers, e \in Times : Pending(v, s, e)' => e > d
    BY DEF MovedOn
  <2>1. delivered[s][d] > 0 \/ \E w \in Workers : Sending(w, s, d)
    OBVIOUS
  <2>2. QED
    BY <1>1, <2>1 DEF SentInv, MovedOn
<1>3. SentByOne' /\ DeliveredOnce'
  BY DEF SentInv, SentByOne, DeliveredOnce
<1>4. QED
  BY <1>2, <1>3 DEF SentInv

LEMMA ClaimDueSent ==
    ASSUME ClaimInv, SentInv, NEW w \in Workers, NEW chosen \in Batches, ClaimDue(w, chosen)
    PROVE  SentInv'
<1> DEFINE new == {[id |-> s, config |-> config[s], due |-> next_run[s]] : s \in chosen}
<1>1. /\ pc[w] = "idle" /\ pc' = [pc EXCEPT ![w] = "next"]
      /\ batch' = [batch EXCEPT ![w] = new]
      /\ UNCHANGED <<clock, next_run, job, delivered>>
  BY DEF ClaimDue, Goto, history
<1>2. \A v \in Workers, s \in Schedules, d \in Times : Sending(v, s, d)' => Sending(v, s, d)
  BY <1>1 DEF Sending, ClaimInv, Shape
<1>3. \A v \in Workers, s \in Schedules, d \in Times :
          Pending(v, s, d)' => Pending(v, s, d) \/ d = next_run[s]
  <2> SUFFICES ASSUME NEW v \in Workers, NEW s \in Schedules, NEW d \in Times, Pending(v, s, d)'
               PROVE  Pending(v, s, d) \/ d = next_run[s]
    OBVIOUS
  <2>1. CASE v = w
    <3>1. \E j \in new : j.id = s /\ j.due = d
      BY <1>1, <2>1 DEF Pending, ClaimInv, Shape, Working
    <3>2. QED
      BY <3>1
  <2>2. CASE v # w
    BY <1>1, <2>2 DEF Pending, ClaimInv, Shape
  <2>3. QED
    BY <2>1, <2>2
<1>4. MovedOn'
  <2> SUFFICES ASSUME NEW s \in Schedules, NEW d \in Times,
                      delivered[s][d] > 0 \/ \E v \in Workers : Sending(v, s, d)'
               PROVE  /\ d <= clock /\ next_run[s] > d
                      /\ \A v \in Workers, e \in Times : Pending(v, s, e)' => e > d
    BY <1>1 DEF MovedOn
  <2>1. /\ d <= clock /\ next_run[s] > d
        /\ \A v \in Workers, e \in Times : Pending(v, s, e) => e > d
    BY <1>2 DEF SentInv, MovedOn
  <2>2. QED
    BY <1>3, <2>1
<1>5. SentByOne' /\ DeliveredOnce'
  BY <1>1, <1>2 DEF SentInv, SentByOne, DeliveredOnce
<1>6. QED
  BY <1>1, <1>4, <1>5 DEF SentInv

LEMMA TakeNextSent ==
    ASSUME ClaimInv, SentInv, NEW w \in Workers, NEW j \in batch[w], TakeNext(w, j)
    PROVE  SentInv'
<1>1. /\ pc[w] = "next"
      /\ batch' = [batch EXCEPT ![w] = @ \ {j}]
      /\ job' = [job EXCEPT ![w] = [id |-> j.id, config |-> j.config, due |-> j.due,
                                    attempt |-> 1, outcome |-> "skipped"]]
      /\ pc' = [pc EXCEPT ![w] = IF archived[j.id] THEN "rescheduling" ELSE "executing"]
      /\ UNCHANGED <<clock, next_run, delivered>>
  BY DEF TakeNext, Goto, rows, history
<1>2. \A v \in Workers, s \in Schedules, d \in Times : Sending(v, s, d)' => Sending(v, s, d)
  BY <1>1 DEF Sending, ClaimInv, Shape
<1>3. \A v \in Workers, s \in Schedules, d \in Times : Pending(v, s, d)' => Pending(v, s, d)
  BY <1>1 DEF Pending, ClaimInv, Shape
<1>4. QED
  BY <1>1, <1>2, <1>3, QuietSent DEF ClaimInv, Shape, Times

LEMMA AtJobSent ==
    ASSUME ClaimInv, SentInv, NEW w \in Workers,
           \/ Execute(w) \/ ExecuteFails(w) \/ CreateExecution(w) \/ FinishExecution(w)
    PROVE  SentInv'
<1>1. /\ pc[w] \in Working /\ job[w] \in Job
      /\ \E place \in Working : pc' = [pc EXCEPT ![w] = place]
      /\ \A v \in Workers \ {w} : job'[v] = job[v]
      /\ UNCHANGED <<clock, next_run, batch, delivered>>
  BY DEF Execute, ExecuteFails, CreateExecution, FinishExecution, rows, history, Goto, Working,
         ClaimInv, Shape
<1>2. job'[w].id = job[w].id /\ job'[w].due = job[w].due
  BY <1>1 DEF Execute, ExecuteFails, CreateExecution, FinishExecution, ClaimInv, Shape, Job
<1>3. \A v \in Workers, s \in Schedules, d \in Times : Sending(v, s, d)' => Sending(v, s, d)
  BY <1>1 DEF Sending, ClaimInv, Shape, Working
<1>4. \A v \in Workers, s \in Schedules, d \in Times : Pending(v, s, d)' => Pending(v, s, d)
  BY <1>1, <1>2 DEF Pending, ClaimInv, Shape
<1>5. QED
  BY <1>1, <1>3, <1>4, QuietSent DEF ClaimInv, Shape, Times

LEMMA CrashSent ==
    ASSUME ClaimInv, SentInv, NEW w \in Workers, Crash(w)
    PROVE  SentInv'
<1>1. /\ pc' = [pc EXCEPT ![w] = "idle"] /\ batch' = [batch EXCEPT ![w] = {}]
      /\ job' = [job EXCEPT ![w] = NoJob]
      /\ UNCHANGED <<clock, next_run, delivered>>
  BY DEF Crash, Goto, rows, history
<1>2. \A v \in Workers, s \in Schedules, d \in Times : Sending(v, s, d)' => Sending(v, s, d)
  BY <1>1 DEF Sending, ClaimInv, Shape
<1>3. \A v \in Workers, s \in Schedules, d \in Times : Pending(v, s, d)' => Pending(v, s, d)
  BY <1>1 DEF Pending, ClaimInv, Shape, Working
<1>4. QED
  BY <1>1, <1>2, <1>3, QuietSent DEF ClaimInv, Shape, Times

(* A delivery begins when the schedule has moved on: the due time was in     *)
(* nobody else's hands, and was not delivered before.                        *)
LEMMA RescheduleSent ==
    ASSUME ClaimInv, SentInv, NEW w \in Workers, Reschedule(w)
    PROVE  SentInv'
<1> DEFINE s == job[w].id
           d == job[w].due
           n == NextRun(job[w].config, reference[w])
<1>1. /\ pc[w] = "rescheduling"
      /\ next_run' = [next_run EXCEPT ![s] = n]
      /\ UNCHANGED <<clock, batch, delivered>>
      /\ \E place \in {"delivering", "idle", "next"} :
             /\ pc' = [pc EXCEPT ![w] = place]
             /\ place = "delivering" => job' = job
      /\ \A v \in Workers \ {w} : job'[v] = job[v]
  BY DEF Reschedule, EndJob, Goto, history, ClaimInv, Shape
<1>2. job[w] \in Job /\ s \in Schedules /\ d \in Times /\ s \in Holding(w) /\ Pending(w, s, d)
  BY <1>1 DEF ClaimInv, Shape, Working, Job, Holding, Pending
<1>3. n \in Nat /\ n > d /\ d <= clock
  <2>1. n \in Nat /\ n > reference[w]
    BY <1>2, NextRunIsLater DEF ClaimInv, Shape, Job, Times
  <2>2. d <= reference[w] /\ reference[w] <= clock
    BY <1>1 DEF ClaimInv, Timely, Working
  <2>3. d \in Nat /\ reference[w] \in Nat /\ clock \in Nat
    BY <1>2, BoundAssumption DEF ClaimInv, Shape, Times
  <2> HIDE DEF n, d
  <2>4. QED
    BY <2>1, <2>2, <2>3
<1>4. \A v \in Workers, t \in Schedules, e \in Times :
          Sending(v, t, e)' => Sending(v, t, e) \/ (v = w /\ t = s /\ e = d)
  BY <1>1 DEF Sending, ClaimInv, Shape
<1>5. \A v \in Workers, t \in Schedules, e \in Times :
          Pending(v, t, e)' => Pending(v, t, e) /\ t # s
  <2> SUFFICES ASSUME NEW v \in Workers, NEW t \in Schedules, NEW e \in Times, Pending(v, t, e)'
               PROVE  Pending(v, t, e) /\ t # s
    OBVIOUS
  <2>1. CASE v = w
    BY <1>1, <2>1 DEF Pending, ClaimInv, Shape, Apart, Working
  <2>2. CASE v # w
    <3>1. Pending(v, t, e) /\ t \in Holding(v)
      BY <1>1, <2>2 DEF Pending, Holding, ClaimInv, Shape
    <3>2. QED
      BY <1>2, <2>2, <3>1 DEF ClaimInv, OneWorker
  <2>3. QED
    BY <2>1, <2>2
<1>6. delivered[s][d] = 0 /\ \A v \in Workers : ~Sending(v, s, d)
  <2>1. ~(delivered[s][d] > 0 \/ \E v \in Workers : Sending(v, s, d))
    <3>1. d \in Nat
      BY <1>2, BoundAssumption DEF Times
    <3> HIDE DEF s, d
    <3>2. QED
      BY <1>2, <3>1 DEF SentInv, MovedOn
  <2>2. delivered[s][d] \in Nat
    BY <1>2 DEF SentInv
  <2>3. QED
    BY <2>1, <2>2
<1>7. \A t \in Schedules : next_run'[t] = IF t = s THEN n ELSE next_run[t]
  BY <1>1 DEF ClaimInv, Shape
<1> HIDE DEF s, d, n
<1>8. MovedOn'
  <2> SUFFICES ASSUME NEW t \in Schedules, NEW e \in Times,
                      delivered[t][e] > 0 \/ \E v \in Workers : Sending(v, t, e)'
               PROVE  /\ e <= clock /\ next_run'[t] > e
                      /\ \A v \in Workers, f \in Times : Pending(v, t, f)' => f > e
    BY <1>1 DEF MovedOn
  <2>1. CASE t = s /\ e = d
    BY <1>3, <1>5, <1>7, <2>1
  <2>2. CASE ~(t = s /\ e = d)
    <3>1. delivered[t][e] > 0 \/ \E v \in Workers : Sending(v, t, e)
      BY <1>4, <2>2
    <3>2. /\ e <= clock /\ next_run[t] > e
          /\ \A v \in Workers, f \in Times : Pending(v, t, f) => f > e
      BY <3>1 DEF SentInv, MovedOn
    <3>3. t = s => n > e
      <4>1. d \in Nat /\ e \in Nat
        BY <1>2, BoundAssumption DEF Times
      <4>2. QED
        BY <1>2, <1>3, <3>2, <4>1
    <3>4. QED
      BY <1>5, <1>7, <3>2, <3>3
  <2>3. QED
    BY <2>1, <2>2
<1>9. SentByOne'
  <2> SUFFICES ASSUME NEW v \in Workers, NEW t \in Schedules, NEW e \in Times, Sending(v, t, e)'
               PROVE  /\ delivered[t][e] = 0
                      /\ \A u \in Workers : Sending(u, t, e)' => u = v
    BY <1>1 DEF SentByOne
  <2>1. CASE t = s /\ e = d
    BY <1>4, <1>6, <2>1
  <2>2. CASE ~(t = s /\ e = d)
    BY <1>4, <2>2 DEF SentInv, SentByOne
  <2>3. QED
    BY <2>1, <2>2
<1>10. QED
  BY <1>1, <1>8, <1>9 DEF SentInv, DeliveredOnce

LEMMA DeliverSent ==
    ASSUME ClaimInv, SentInv, NEW w \in Workers, Deliver(w)
    PROVE  SentInv'
<1> DEFINE s == job[w].id
           d == job[w].due
<1>1. /\ pc[w] = "delivering"
      /\ \/ delivered' = [delivered EXCEPT ![s][d] = @ + 1]
         \/ UNCHANGED delivered
      /\ \E place \in {"idle", "next"} : pc' = [pc EXCEPT ![w] = place]
      /\ job' = [job EXCEPT ![w] = NoJob]
      /\ UNCHANGED <<clock, next_run, batch>>
  BY DEF Deliver, EndJob, Goto, rows
<1>2. s \in Schedules /\ d \in Times /\ Sending(w, s, d)
  BY <1>1 DEF ClaimInv, Shape, Job, Sending
<1>3. delivered[s][d] = 0 /\ \A v \in Workers : Sending(v, s, d) => v = w
  BY <1>2 DEF SentInv, SentByOne
<1>4. \A v \in Workers, t \in Schedules, e \in Times :
          Sending(v, t, e)' => Sending(v, t, e) /\ v # w
  BY <1>1 DEF Sending, ClaimInv, Shape
<1>5. \A v \in Workers, t \in Schedules, e \in Times : Pending(v, t, e)' => Pending(v, t, e)
  BY <1>1 DEF Pending, ClaimInv, Shape, Working
<1> HIDE DEF s, d
<1>6. /\ delivered' \in [Schedules -> [Times -> Nat]]
      /\ \A t \in Schedules, e \in Times :
             ~(t = s /\ e = d) => delivered'[t][e] = delivered[t][e]
      /\ delivered'[s][d] <= 1
  BY <1>1, <1>2, <1>3 DEF SentInv
<1>7. MovedOn'
  <2> SUFFICES ASSUME NEW t \in Schedules, NEW e \in Times,
                      delivered'[t][e] > 0 \/ \E v \in Workers : Sending(v, t, e)'
               PROVE  /\ e <= clock /\ next_run[t] > e
                      /\ \A v \in Workers, f \in Times : Pending(v, t, f)' => f > e
    BY <1>1 DEF MovedOn
  <2>1. delivered[t][e] > 0 \/ \E v \in Workers : Sending(v, t, e)
    BY <1>2, <1>4, <1>6
  <2>2. QED
    BY <1>5, <2>1 DEF SentInv, MovedOn
<1>8. SentByOne'
  <2> SUFFICES ASSUME NEW v \in Workers, NEW t \in Schedules, NEW e \in Times, Sending(v, t, e)'
               PROVE  /\ delivered'[t][e] = 0
                      /\ \A u \in Workers : Sending(u, t, e)' => u = v
    BY DEF SentByOne
  <2>1. ~(t = s /\ e = d)
    BY <1>3, <1>4
  <2>2. QED
    BY <1>4, <1>6, <2>1 DEF SentInv, SentByOne
<1>9. DeliveredOnce'
  BY <1>6 DEF SentInv, DeliveredOnce
<1>10. QED
  BY <1>6, <1>7, <1>8, <1>9 DEF SentInv

LEMMA ApiSent ==
    ASSUME ClaimInv, SentInv, Api
    PROVE  SentInv'
<1>1. UNCHANGED <<clock, pc, batch, job, delivered>>
  BY DEF Api, PatchRead, PatchWrite, Switch, Archive, rows, worker, history
<1>2. \A s \in Schedules : next_run'[s] = next_run[s] \/ next_run'[s] > clock
  <2>1. ASSUME NEW e \in Editors, PatchWrite(e), NEW s \in Schedules
        PROVE  next_run'[s] = next_run[s] \/ next_run'[s] > clock
    BY <2>1 DEF PatchWrite, ClaimInv, Shape, Ahead
  <2>2. CASE UNCHANGED next_run
    BY <2>2
  <2>3. QED
    BY <2>1, <2>2 DEF Api, PatchRead, Switch, Archive, rows
<1>3. \A s \in Schedules : next_run'[s] \in Nat
  BY ApiInv DEF ClaimInv, Shape
<1>4. MovedOn'
  <2> SUFFICES ASSUME NEW s \in Schedules, NEW d \in Times,
                      delivered[s][d] > 0 \/ \E w \in Workers : Sending(w, s, d)
               PROVE  /\ d <= clock /\ next_run'[s] > d
                      /\ \A v \in Workers, e \in Times : Pending(v, s, e) => e > d
    BY <1>1 DEF MovedOn, Sending, Pending
  <2>1. /\ d <= clock /\ next_run[s] > d
        /\ \A v \in Workers, e \in Times : Pending(v, s, e) => e > d
    BY DEF SentInv, MovedOn
  <2>2. d \in Nat /\ clock \in Nat
    BY BoundAssumption DEF ClaimInv, Shape, Times
  <2>3. next_run'[s] > d
    <3>1. CASE next_run'[s] = next_run[s]
      BY <2>1, <3>1
    <3>2. CASE next_run'[s] > clock
      <4>1. next_run'[s] \in Nat /\ d <= clock
        BY <1>3, <2>1
      <4>2. QED
        BY <2>2, <3>2, <4>1
    <3>3. QED
      BY <1>2, <3>1, <3>2
  <2>4. QED
    BY <2>1, <2>3
<1>5. SentByOne' /\ DeliveredOnce'
  BY <1>1 DEF SentInv, SentByOne, DeliveredOnce, Sending
<1>6. QED
  BY <1>1, <1>4, <1>5 DEF SentInv

LEMMA NextSent ==
    ASSUME ClaimInv, SentInv, [Next]_vars
    PROVE  SentInv'
<1>1. CASE \E w \in Workers : WorkerStep(w) \/ Crash(w)
  BY <1>1, ClaimDueSent, TakeNextSent, AtJobSent, RescheduleSent, DeliverSent, CrashSent
     DEF WorkerStep
<1>2. CASE Api
  BY <1>2, ApiSent
<1>3. CASE Tick \/ UNCHANGED vars
  <2>1. /\ clock' >= clock /\ clock' \in Nat
        /\ UNCHANGED <<next_run, pc, batch, job, delivered>>
    BY <1>3, BoundAssumption DEF Tick, vars, rows, worker, history, ClaimInv, Shape, Times
  <2>2. \A w \in Workers, s \in Schedules, d \in Times :
            /\ Sending(w, s, d)' => Sending(w, s, d)
            /\ Pending(w, s, d)' => Pending(w, s, d)
    BY <2>1 DEF Sending, Pending
  <2>3. QED
    BY <2>1, <2>2, QuietSent
<1>4. QED
  BY <1>1, <1>2, <1>3 DEF Next

(* Nobody is sent the report of one due time twice, whichever workers die    *)
(* and whatever is edited meanwhile (scheduling/worker.py:110-190).          *)
THEOREM ReportsAreDeliveredOnce ==
    ASSUME Punctual
    PROVE  Spec => []DeliveredOnce
<1>1. ClaimInv /\ SentInv /\ [Next]_vars => ClaimInv' /\ SentInv'
  BY NextClaim, NextSent
<1>2. SentInv => DeliveredOnce
  BY DEF SentInv
<1>3. QED
  BY InitClaim, InitSent, <1>1, <1>2, PTL DEF Spec

-----------------------------------------------------------------------------
(* Execution rows *)

(* Workers with a published report whose row is not settled, and with a row  *)
(* that is still running.                                                    *)
Unsettled(s) == {w \in Workers : /\ pc[w] \in {"creating", "finishing"}
                                 /\ job[w].id = s /\ job[w].outcome = "completed"}
Open(s) == {w \in Workers : pc[w] = "finishing" /\ job[w].id = s}

RowTypes ==
    /\ enabled \in [Schedules -> BOOLEAN]
    /\ archived \in [Schedules -> BOOLEAN]
    /\ running \in [Schedules -> Nat] /\ completed \in [Schedules -> Nat]
    /\ reports \in [Schedules -> Nat]
    /\ faults \in 0..MaxFaults

(* A row that a worker is about to settle is there, and what was published   *)
(* is settled, in a worker's hands, or was in the hands of one that died.    *)
Settled ==
    \A s \in Schedules :
        /\ Cardinality(Open(s)) <= running[s]
        /\ running[s] <= Cardinality(Open(s)) + faults
        /\ reports[s] <= completed[s] + Cardinality(Unsettled(s)) + faults

RowInv == RowTypes /\ Settled

(* Two sets that agree but for one member.                                   *)
LEMMA ButOne ==
    ASSUME NEW S, NEW T, NEW w, IsFiniteSet(S), S \ {w} = T \ {w}
    PROVE  /\ Cardinality(S) \in Nat /\ Cardinality(T) \in Nat
           /\ (w \in S <=> w \in T) => Cardinality(T) = Cardinality(S)
           /\ w \in S /\ w \notin T => Cardinality(T) = Cardinality(S) - 1
           /\ w \notin S /\ w \in T => Cardinality(T) = Cardinality(S) + 1
<1>1. Cardinality(S) \in Nat
  BY FS_CardinalityType
<1>2. CASE w \in S <=> w \in T
  <2>1. S = T
    BY <1>2
  <2>2. QED
    BY <1>1, <1>2, <2>1
<1>3. CASE w \in S /\ w \notin T
  <2>1. T = S \ {w}
    BY <1>3
  <2>2. IsFiniteSet(T) /\ Cardinality(T) = Cardinality(S) - 1
    BY <1>3, <2>1, FS_RemoveElement
  <2>3. QED
    BY <1>1, <1>3, <2>2, FS_CardinalityType
<1>4. CASE w \notin S /\ w \in T
  <2>1. T = S \cup {w}
    BY <1>4
  <2>2. IsFiniteSet(T) /\ Cardinality(T) = Cardinality(S) + 1
    BY <1>4, <2>1, FS_AddElement
  <2>3. QED
    BY <1>1, <1>4, <2>2, FS_CardinalityType
<1>5. QED
  BY <1>2, <1>3, <1>4

LEMMA SetsAreFinite ==
    \A s \in Schedules :
        /\ IsFiniteSet(Unsettled(s)) /\ IsFiniteSet(Open(s))
        /\ Cardinality(Unsettled(s)) \in Nat /\ Cardinality(Open(s)) \in Nat
<1> TAKE s \in Schedules
<1>1. Unsettled(s) \subseteq Workers /\ Open(s) \subseteq Workers
  BY DEF Unsettled, Open
<1>2. IsFiniteSet(Unsettled(s)) /\ IsFiniteSet(Open(s))
  BY <1>1, ScheduleAssumption, FS_Subset
<1>3. QED
  BY <1>2, FS_CardinalityType

LEMMA InitRow == Init => RowInv
<1> SUFFICES ASSUME Init PROVE RowInv
  OBVIOUS
<1>1. RowTypes
  BY BoundAssumption DEF Init, RowTypes
<1>2. Settled
  <2> SUFFICES ASSUME NEW s \in Schedules
               PROVE  /\ Cardinality(Open(s)) <= running[s]
                      /\ running[s] <= Cardinality(Open(s)) + faults
                      /\ reports[s] <= completed[s] + Cardinality(Unsettled(s)) + faults
    BY DEF Settled
  <2>1. Open(s) = {} /\ Unsettled(s) = {}
    BY DEF Init, Open, Unsettled
  <2>2. Cardinality(Open(s)) = 0 /\ Cardinality(Unsettled(s)) = 0
    BY <2>1, FS_EmptySet
  <2>3. running[s] = 0 /\ reports[s] = 0 /\ completed[s] = 0 /\ faults = 0
    BY DEF Init
  <2>4. QED
    BY <2>2, <2>3
<1>3. QED
  BY <1>1, <1>2 DEF RowInv

(* A step of one worker adds itself to the sets or takes itself out.         *)
LEMMA OneMoves ==
    ASSUME NEW w \in Workers, NEW s \in Schedules,
           \A v \in Workers \ {w} : pc'[v] = pc[v] /\ job'[v] = job[v]
    PROVE  /\ Unsettled(s) \ {w} = Unsettled(s)' \ {w}
           /\ Open(s) \ {w} = Open(s)' \ {w}
BY DEF Unsettled, Open

(* A step that changes neither the sets nor the rows.                        *)
LEMMA QuietRow ==
    ASSUME RowInv, RowTypes', UNCHANGED <<running, completed, reports, faults>>,
           \A s \in Schedules : Unsettled(s)' = Unsettled(s) /\ Open(s)' = Open(s)
    PROVE  RowInv'
BY DEF RowInv, Settled

(* What a worker does before and after it writes the row.                    *)
LEMMA AsideRow ==
    ASSUME ClaimInv, ClaimInv', RowInv, NEW w \in Workers,
           \/ \E chosen \in Batches : ClaimDue(w, chosen)
           \/ \E j \in batch[w] : TakeNext(w, j)
           \/ ExecuteFails(w) \/ Reschedule(w) \/ Deliver(w)
    PROVE  RowInv'
<1>1. /\ UNCHANGED <<enabled, archived, running, completed, reports, faults>>
      /\ pc[w] \notin {"creating", "finishing"}
  BY DEF ClaimDue, TakeNext, ExecuteFails, Reschedule, Deliver, rows, executions, history
<1>2. \A v \in Workers \ {w} : pc'[v] = pc[v] /\ job'[v] = job[v]
  BY DEF ClaimDue, TakeNext, ExecuteFails, Reschedule, Deliver, EndJob, Goto, ClaimInv, Shape
<1>3. pc'[w] # "finishing" /\ (pc'[w] = "creating" => job'[w].outcome = "failed")
  <2>1. pc \in [Workers -> Places] /\ job \in [Workers -> Job \cup {NoJob}]
    BY DEF ClaimInv, Shape
  <2>2. CASE ExecuteFails(w)
    <3>1. pc[w] = "executing" /\ job[w] \in Job
      BY <2>2 DEF ExecuteFails, ClaimInv, Shape, Working
    <3>2. CASE job[w].attempt < MaxAttempts
      BY <2>1, <2>2, <3>1, <3>2 DEF ExecuteFails
    <3>3. CASE ~(job[w].attempt < MaxAttempts)
      <4>1. job' = [job EXCEPT ![w] = [job[w] EXCEPT !.outcome = "failed"]] /\ pc'[w] = "creating"
        BY <2>1, <2>2, <3>3 DEF ExecuteFails, Goto
      <4>2. QED
        BY <2>1, <3>1, <4>1 DEF Job
    <3>4. QED
      BY <3>2, <3>3
  <2>3. CASE ~ExecuteFails(w)
    BY <2>1, <2>3 DEF ClaimDue, TakeNext, Reschedule, Deliver, EndJob, Goto
  <2>4. QED
    BY <2>2, <2>3
<1>4. \A s \in Schedules : Unsettled(s)' = Unsettled(s) /\ Open(s)' = Open(s)
  BY <1>1, <1>2, <1>3 DEF Unsettled, Open
<1>5. RowTypes'
  BY <1>1 DEF RowInv, RowTypes
<1>6. QED
  BY <1>1, <1>4, <1>5, QuietRow

(* A report that is published is in the worker's hands until it is settled.  *)
LEMMA ExecuteRow ==
    ASSUME ClaimInv, RowInv, NEW w \in Workers, Execute(w)
    PROVE  RowInv'
<1> DEFINE t == job[w].id
<1>1. /\ pc[w] = "executing" /\ pc' = [pc EXCEPT ![w] = "creating"]
      /\ job' = [job EXCEPT ![w].outcome = "completed"]
      /\ reports' = [reports EXCEPT ![t] = @ + 1]
      /\ UNCHANGED <<enabled, archived, running, completed, faults>>
  BY DEF Execute, Goto, rows, executions
<1>2. job[w] \in Job /\ t \in Schedules
  BY <1>1 DEF ClaimInv, Shape, Working, Job
<1>3. /\ \A v \in Workers \ {w} : pc'[v] = pc[v] /\ job'[v] = job[v]
      /\ pc'[w] = "creating" /\ job'[w].id = t /\ job'[w].outcome = "completed"
  BY <1>1, <1>2 DEF ClaimInv, Shape, Job
<1> HIDE DEF t
<1>4. RowTypes'
  BY <1>1, <1>2 DEF RowInv, RowTypes
<1>5. ASSUME NEW s \in Schedules
      PROVE  /\ Cardinality(Open(s)') <= running'[s]
             /\ running'[s] <= Cardinality(Open(s)') + faults'
             /\ reports'[s] <= completed'[s] + Cardinality(Unsettled(s)') + faults'
  <2>1. Open(s)' = Open(s)
    BY <1>1, <1>3 DEF Open
  <2>2. w \notin Unsettled(s) /\ (w \in Unsettled(s)' <=> s = t)
    BY <1>1, <1>3 DEF Unsettled
  <2>3. /\ Cardinality(Unsettled(s)) \in Nat /\ Cardinality(Unsettled(s)') \in Nat
        /\ s = t => Cardinality(Unsettled(s)') = Cardinality(Unsettled(s)) + 1
        /\ s # t => Cardinality(Unsettled(s)') = Cardinality(Unsettled(s))
    <3>1. Unsettled(s) \ {w} = Unsettled(s)' \ {w} /\ IsFiniteSet(Unsettled(s))
      BY <1>3, OneMoves, SetsAreFinite
    <3>2. QED
      BY <2>2, <3>1, ButOne
  <2>4. /\ Cardinality(Open(s)) <= running[s]
        /\ running[s] <= Cardinality(Open(s)) + faults
        /\ reports[s] <= completed[s] + Cardinality(Unsettled(s)) + faults
    BY DEF RowInv, Settled
  <2>5. reports[s] \in Nat /\ completed[s] \in Nat /\ faults \in Nat
    BY DEF RowInv, RowTypes
  <2>6. (s = t => reports'[s] = reports[s] + 1) /\ (s # t => reports'[s] = reports[s])
    BY <1>1, <1>2 DEF RowInv, RowTypes
  <2>7. QED
    BY <1>1, <2>1, <2>3, <2>4, <2>5, <2>6
<1>6. QED
  BY <1>4, <1>5 DEF RowInv, Settled

LEMMA CreateRow ==
    ASSUME ClaimInv, RowInv, NEW w \in Workers, CreateExecution(w)
    PROVE  RowInv'
<1> DEFINE t == job[w].id
<1>1. /\ pc[w] = "creating" /\ pc' = [pc EXCEPT ![w] = "finishing"]
      /\ running' = [running EXCEPT ![t] = @ + 1]
      /\ UNCHANGED <<enabled, archived, job, completed, reports, faults>>
  BY DEF CreateExecution, Goto, rows, history
<1>2. t \in Schedules
  BY <1>1 DEF ClaimInv, Shape, Working, Job
<1>3. \A v \in Workers : (v # w => pc'[v] = pc[v]) /\ job'[v] = job[v] /\ pc'[w] = "finishing"
  BY <1>1 DEF ClaimInv, Shape
<1>4. RowTypes'
  BY <1>1, <1>2 DEF RowInv, RowTypes
<1>5. ASSUME NEW s \in Schedules
      PROVE  /\ Cardinality(Open(s)') <= running'[s]
             /\ running'[s] <= Cardinality(Open(s)') + faults'
             /\ reports'[s] <= completed'[s] + Cardinality(Unsettled(s)') + faults'
  <2>1. Unsettled(s)' = Unsettled(s)
    BY <1>1, <1>3 DEF Unsettled
  <2>2. w \notin Open(s) /\ (w \in Open(s)' <=> s = t)
    BY <1>1, <1>3 DEF Open
  <2> HIDE DEF t
  <2>3. /\ Cardinality(Open(s)) \in Nat /\ Cardinality(Open(s)') \in Nat
        /\ s = t => Cardinality(Open(s)') = Cardinality(Open(s)) + 1
        /\ s # t => Cardinality(Open(s)') = Cardinality(Open(s))
    <3>1. Open(s) \ {w} = Open(s)' \ {w} /\ IsFiniteSet(Open(s))
      BY <1>3, OneMoves, SetsAreFinite
    <3>2. QED
      BY <2>2, <3>1, ButOne
  <2>4. /\ Cardinality(Open(s)) <= running[s]
        /\ running[s] <= Cardinality(Open(s)) + faults
        /\ reports[s] <= completed[s] + Cardinality(Unsettled(s)) + faults
    BY DEF RowInv, Settled
  <2>5. running[s] \in Nat /\ faults \in Nat
    BY DEF RowInv, RowTypes
  <2>6. (s = t => running'[s] = running[s] + 1) /\ (s # t => running'[s] = running[s])
    BY <1>1, <1>2 DEF RowInv, RowTypes
  <2>7. QED
    BY <1>1, <2>1, <2>3, <2>4, <2>5, <2>6
<1>6. QED
  BY <1>4, <1>5 DEF RowInv, Settled

(* The row that is settled is there, since the worker has it open.           *)
LEMMA FinishRow ==
    ASSUME ClaimInv, RowInv, NEW w \in Workers, FinishExecution(w)
    PROVE  RowInv'
<1> DEFINE t == job[w].id
           ok == job[w].outcome = "completed"
<1>1. /\ pc[w] = "finishing" /\ pc' = [pc EXCEPT ![w] = "rescheduling"]
      /\ running' = [running EXCEPT ![t] = @ - 1]
      /\ completed' = IF ok THEN [completed EXCEPT ![t] = @ + 1] ELSE completed
      /\ UNCHANGED <<enabled, archived, job, reports, faults>>
  BY DEF FinishExecution, Goto, rows, history
<1>2. t \in Schedules
  BY <1>1 DEF ClaimInv, Shape, Working, Job
<1>3. \A v \in Workers : (v # w => pc'[v] = pc[v]) /\ job'[v] = job[v] /\ pc'[w] = "rescheduling"
  BY <1>1 DEF ClaimInv, Shape
<1>4. ASSUME NEW s \in Schedules
      PROVE  /\ Cardinality(Open(s)) \in Nat /\ Cardinality(Open(s)') \in Nat
             /\ s = t => Cardinality(Open(s)') = Cardinality(Open(s)) - 1
             /\ s # t => Cardinality(Open(s)') = Cardinality(Open(s))
             /\ Cardinality(Unsettled(s)) \in Nat /\ Cardinality(Unsettled(s)') \in Nat
             /\ s = t /\ ok => Cardinality(Unsettled(s)') = Cardinality(Unsettled(s)) - 1
             /\ ~(s = t /\ ok) => Cardinality(Unsettled(s)') = Cardinality(Unsettled(s))
  <2>1. (w \in Open(s) <=> s = t) /\ w \notin Open(s)'
    BY <1>1, <1>3 DEF Open
  <2>2. (w \in Unsettled(s) <=> s = t /\ ok) /\ w \notin Unsettled(s)'
    BY <1>1, <1>3 DEF Unsettled
  <2>3. /\ Open(s) \ {w} = Open(s)' \ {w} /\ Unsettled(s) \ {w} = Unsettled(s)' \ {w}
        /\ IsFiniteSet(Open(s)) /\ IsFiniteSet(Unsettled(s))
    BY <1>3, OneMoves, SetsAreFinite
  <2> HIDE DEF t, ok
  <2>4. /\ Cardinality(Open(s)) \in Nat /\ Cardinality(Open(s)') \in Nat
        /\ s = t => Cardinality(Open(s)') = Cardinality(Open(s)) - 1
        /\ s # t => Cardinality(Open(s)') = Cardinality(Open(s))
    BY <2>1, <2>3, ButOne
  <2>5. /\ Cardinality(Unsettled(s)) \in Nat /\ Cardinality(Unsettled(s)') \in Nat
        /\ s = t /\ ok => Cardinality(Unsettled(s)') = Cardinality(Unsettled(s)) - 1
        /\ ~(s = t /\ ok) => Cardinality(Unsettled(s)') = Cardinality(Unsettled(s))
    BY <2>2, <2>3, ButOne
  <2>6. QED
    BY <2>4, <2>5
<1> HIDE DEF t, ok
<1>5. running[t] \in Nat /\ running[t] >= 1
  <2>1. Cardinality(Open(t)) <= running[t] /\ running[t] \in Nat
    BY <1>2 DEF RowInv, RowTypes, Settled
  <2>2. Cardinality(Open(t)) >= 1
    BY <1>2, <1>4
  <2>3. QED
    BY <1>2, <1>4, <2>1, <2>2
<1>6. RowTypes'
  <2>1. running' \in [Schedules -> Nat]
    BY <1>1, <1>2, <1>5 DEF RowInv, RowTypes
  <2>2. completed' \in [Schedules -> Nat]
    BY <1>1, <1>2 DEF RowInv, RowTypes
  <2>3. QED
    BY <1>1, <2>1, <2>2 DEF RowInv, RowTypes
<1>7. ASSUME NEW s \in Schedules
      PROVE  /\ Cardinality(Open(s)') <= running'[s]
             /\ running'[s] <= Cardinality(Open(s)') + faults'
             /\ reports'[s] <= completed'[s] + Cardinality(Unsettled(s)') + faults'
  <2>1. /\ Cardinality(Open(s)) <= running[s]
        /\ running[s] <= Cardinality(Open(s)) + faults
        /\ reports[s] <= completed[s] + Cardinality(Unsettled(s)) + faults
    BY DEF RowInv, Settled
  <2>2. running[s] \in Nat /\ completed[s] \in Nat /\ reports[s] \in Nat /\ faults \in Nat
    BY DEF RowInv, RowTypes
  <2>3. /\ s = t => running'[s] = running[s] - 1
        /\ s # t => running'[s] = running[s]
    BY <1>1, <1>2 DEF RowInv, RowTypes
  <2>4. /\ s = t /\ ok => completed'[s] = completed[s] + 1
        /\ ~(s = t /\ ok) => completed'[s] = completed[s]
    BY <1>1, <1>2 DEF RowInv, RowTypes
  <2>5. /\ Cardinality(Open(s)') <= running'[s]
        /\ running'[s] <= Cardinality(Open(s)') + faults
    BY <1>4, <2>1, <2>2, <2>3
  <2>6. reports[s] <= completed'[s] + Cardinality(Unsettled(s)') + faults
    <3>1. CASE s = t /\ ok
      BY <1>4, <2>1, <2>2, <2>4, <3>1
    <3>2. CASE ~(s = t /\ ok)
      BY <1>4, <2>1, <2>2, <2>4, <3>2
    <3>3. QED
      BY <3>1, <3>2
  <2>7. QED
    BY <1>1, <2>5, <2>6
<1>8. QED
  BY <1>6, <1>7 DEF RowInv, Settled

(* A worker that dies takes one report, or one row, with it.                 *)
LEMMA CrashRow ==
    ASSUME ClaimInv, RowInv, NEW w \in Workers, Crash(w)
    PROVE  RowInv'
<1>1. /\ faults' = faults + 1 /\ faults < MaxFaults
      /\ UNCHANGED <<enabled, archived, running, completed, reports>>
  BY DEF Crash, rows, executions, history
<1>2. /\ pc' = [pc EXCEPT ![w] = "idle"]
      /\ job' = [job EXCEPT ![w] = NoJob]
  BY DEF Crash, Goto
<1>3. (\A v \in Workers \ {w} : pc'[v] = pc[v] /\ job'[v] = job[v]) /\ pc'[w] = "idle"
  BY <1>2 DEF ClaimInv, Shape
<1>4. RowTypes'
  BY <1>1, BoundAssumption DEF RowInv, RowTypes
<1>5. ASSUME NEW s \in Schedules
      PROVE  /\ Cardinality(Open(s)') <= running'[s]
             /\ running'[s] <= Cardinality(Open(s)') + faults'
             /\ reports'[s] <= completed'[s] + Cardinality(Unsettled(s)') + faults'
  <2>1. w \notin Open(s)' /\ w \notin Unsettled(s)'
    BY <1>3 DEF Open, Unsettled
  <2>2. /\ Open(s) \ {w} = Open(s)' \ {w} /\ Unsettled(s) \ {w} = Unsettled(s)' \ {w}
        /\ IsFiniteSet(Open(s)) /\ IsFiniteSet(Unsettled(s))
    BY <1>3, OneMoves, SetsAreFinite
  <2>3. /\ Cardinality(Open(s)) \in Nat /\ Cardinality(Open(s)') \in Nat
        /\ \/ Cardinality(Open(s)') = Cardinality(Open(s))
           \/ Cardinality(Open(s)') = Cardinality(Open(s)) - 1
    BY <2>1, <2>2, ButOne
  <2>4. /\ Cardinality(Unsettled(s)) \in Nat /\ Cardinality(Unsettled(s)') \in Nat
        /\ \/ Cardinality(Unsettled(s)') = Cardinality(Unsettled(s))
           \/ Cardinality(Unsettled(s)') = Cardinality(Unsettled(s)) - 1
    BY <2>1, <2>2, ButOne
  <2>5. /\ Cardinality(Open(s)) <= running[s]
        /\ running[s] <= Cardinality(Open(s)) + faults
        /\ reports[s] <= completed[s] + Cardinality(Unsettled(s)) + faults
    BY DEF RowInv, Settled
  <2>6. running[s] \in Nat /\ completed[s] \in Nat /\ reports[s] \in Nat /\ faults \in Nat
    BY DEF RowInv, RowTypes
  <2>7. QED
    BY <1>1, <2>3, <2>4, <2>5, <2>6
<1>6. QED
  BY <1>4, <1>5 DEF RowInv, Settled

LEMMA NextRow ==
    ASSUME ClaimInv, ClaimInv', RowInv, [Next]_vars
    PROVE  RowInv'
<1>1. CASE \E w \in Workers : WorkerStep(w) \/ Crash(w)
  BY <1>1, AsideRow, ExecuteRow, CreateRow, FinishRow, CrashRow DEF WorkerStep
<1>2. CASE Api \/ Tick \/ UNCHANGED vars
  <2>1. UNCHANGED <<pc, job, running, completed, reports, faults>>
    BY <1>2 DEF Api, PatchRead, PatchWrite, Switch, Archive, Tick, vars, rows, worker,
                executions, history
  <2>2. enabled' \in [Schedules -> BOOLEAN] /\ archived' \in [Schedules -> BOOLEAN]
    <3>1. enabled \in [Schedules -> BOOLEAN] /\ archived \in [Schedules -> BOOLEAN]
      BY DEF RowInv, RowTypes
    <3>2. ASSUME NEW s, Switch(s) PROVE enabled' \in [Schedules -> BOOLEAN] /\ archived' = archived
      BY <3>1, <3>2 DEF Switch
    <3>3. ASSUME NEW s, Archive(s) PROVE archived' \in [Schedules -> BOOLEAN] /\ enabled' = enabled
      BY <3>1, <3>3 DEF Archive, rows
    <3>4. CASE Api /\ ~(\E s : Switch(s) \/ Archive(s))
      BY <3>1, <3>4 DEF Api, PatchRead, PatchWrite, rows
    <3>5. CASE Tick \/ UNCHANGED vars
      BY <3>1, <3>5 DEF Tick, vars, rows
    <3>6. QED
      BY <1>2, <3>1, <3>2, <3>3, <3>4, <3>5
  <2>3. RowTypes'
    BY <2>1, <2>2 DEF RowInv, RowTypes
  <2>4. \A s \in Schedules : Unsettled(s)' = Unsettled(s) /\ Open(s)' = Open(s)
    BY <2>1 DEF Unsettled, Open
  <2>5. QED
    BY <2>1, <2>3, <2>4, QuietRow
<1>3. QED
  BY <1>1, <1>2 DEF Next

(* The rows tell what the workers did: each report published in full has its *)
(* settled row, or a worker that is about to write it, or one that died, and *)
(* a due time is published in full again only for one that died              *)
(* (scheduling/worker.py:91-190, reports/store.py:216-256).                  *)
THEOREM RowsAlwaysTell ==
    ASSUME Punctual
    PROVE  Spec => []RunsAreAccounted
<1>1. ClaimInv /\ PublishInv /\ RegisterInv /\ SentInv /\ RowInv /\ [Next]_vars
          => ClaimInv' /\ PublishInv' /\ RegisterInv' /\ SentInv' /\ RowInv'
  BY NextClaim, NextPublish, NextRegister, NextSent, NextRow
<1>2. ClaimInv /\ PublishInv /\ RegisterInv /\ SentInv /\ RowInv => RunsAreAccounted
  <2> SUFFICES ASSUME ClaimInv, PublishInv, RegisterInv, SentInv, RowInv
               PROVE  RunsAreAccounted
    OBVIOUS
  <2>1. TypeOK
    BY DEF TypeOK, ClaimInv, Shape, Places, PublishInv, RegisterInv, SentInv, RowInv, RowTypes
  <2>2. PublishedPerCrash
    BY DEF PublishInv, RegisterInv, PublishedPerCrash
  <2>3. RunsAreRecorded
    <3> SUFFICES ASSUME NEW s \in Schedules
                 PROVE  /\ reports[s] <= completed[s] + At({"creating", "finishing"}, s) + faults
                        /\ running[s] <= At({"finishing"}, s) + faults
      BY DEF RunsAreRecorded
    <3> DEFINE busy == {w \in Workers : pc[w] \in {"creating", "finishing"} /\ job[w].id = s}
    <3>1. Unsettled(s) \subseteq busy /\ busy \subseteq Workers
      BY DEF Unsettled
    <3>2. IsFiniteSet(busy)
      BY <3>1, ScheduleAssumption, FS_Subset
    <3>3. Cardinality(Unsettled(s)) <= Cardinality(busy) /\ Cardinality(busy) \in Nat
      BY <3>1, <3>2, FS_Subset, FS_CardinalityType
    <3>4. At({"creating", "finishing"}, s) = Cardinality(busy)
      BY DEF At
    <3>5. At({"finishing"}, s) = Cardinality(Open(s))
      <4>1. {w \in Workers : pc[w] \in {"finishing"} /\ job[w].id = s} = Open(s)
        BY DEF Open
      <4>2. QED
        BY <4>1 DEF At
    <3> HIDE DEF busy
    <3>6. /\ running[s] <= Cardinality(Open(s)) + faults
          /\ reports[s] <= completed[s] + Cardinality(Unsettled(s)) + faults
      BY DEF RowInv, Settled
    <3>7. /\ completed[s] \in Nat /\ reports[s] \in Nat /\ faults \in Nat
          /\ Cardinality(Unsettled(s)) \in Nat
      BY SetsAreFinite DEF RowInv, RowTypes
    <3>8. QED
      BY <3>3, <3>4, <3>5, <3>6, <3>7
  <2>4. QED
    BY <2>1, <2>2, <2>3 DEF RunsAreAccounted
<1>3. QED
  BY InitClaim, InitPublish, InitRegister, InitSent, InitRow, <1>1, <1>2, PTL DEF Spec

-----------------------------------------------------------------------------
(* Natural numbers                                                           *)

LEMMA LeastOf ==
    ASSUME NEW T \in SUBSET Nat, T # {}
    PROVE  \E n \in T : \A m \in T : n <= m
<1> DEFINE R == OpToRel(<, Nat)
<1>1. \A x, y \in Nat : <<x, y>> \in R <=> x < y
  BY DEF OpToRel
<1>2. IsWellFoundedOn(R, Nat)
  BY NatLessThanWellFounded
<1> HIDE DEF R
<1>3. PICK n \in T : \A m \in T : ~(<<m, n>> \in R)
  BY <1>2, WFMin
<1>4. \A m \in T : n <= m
  <2> TAKE m \in T
  <2>1. ~(m < n)
    BY <1>1, <1>3
  <2>2. QED
    BY <2>1
<1>5. QED
  BY <1>4

(* What holds of 0, and of n + 1 whenever it holds of n                      *)
LEMMA Induction ==
    ASSUME NEW S, 0 \in S, \A n \in Nat : n \in S => n + 1 \in S
    PROVE  \A n \in Nat : n \in S
<1> DEFINE T == {n \in Nat : n \notin S}
<1> SUFFICES ASSUME T # {} PROVE FALSE
  OBVIOUS
<1>1. PICK n \in T : \A m \in T : n <= m
  <2>1. T \in SUBSET Nat
    OBVIOUS
  <2> HIDE DEF T
  <2>2. QED
    BY <2>1, LeastOf
<1>2. n # 0 /\ n - 1 \in Nat /\ n - 1 \notin T
  BY <1>1
<1>3. QED
  BY <1>1, <1>2


LEMMA LeastIs ==
    ASSUME NEW T \in SUBSET Nat, T # {}
    PROVE  Min(T) \in T /\ \A m \in T : Min(T) <= m
BY LeastOf DEF Min

LEMMA LesserOfTwo ==
    ASSUME NEW a \in Nat, NEW b \in Nat
    PROVE  Min({a, b}) = IF a <= b THEN a ELSE b
<1> DEFINE Least2(x) == x \in {a, b} /\ \A y \in {a, b} : x <= y
           lesser == IF a <= b THEN a ELSE b
<1>1. Min({a, b}) = CHOOSE x : Least2(x)
  BY DEF Min
<1>2. \A x : Least2(x) <=> x = lesser
  OBVIOUS
<1> HIDE DEF Least2, lesser
<1>3. (CHOOSE x : Least2(x)) = lesser
  BY <1>2
<1>4. QED
  BY <1>1, <1>3 DEF lesser

LEMMA MaxOfTwo ==
    ASSUME NEW a \in Nat, NEW b \in Nat
    PROVE  Max({a, b}) = IF a <= b THEN b ELSE a
<1> DEFINE Greatest(x) == x \in {a, b} /\ \A y \in {a, b} : x >= y
           greater == IF a <= b THEN b ELSE a
<1>1. Max({a, b}) = CHOOSE x : Greatest(x)
  BY DEF Max
<1>2. \A x : Greatest(x) <=> x = greater
  OBVIOUS
<1> HIDE DEF Greatest, greater
<1>3. (CHOOSE x : Greatest(x)) = greater
  BY <1>2
<1>4. QED
  BY <1>1, <1>3 DEF greater

(* A function that starts at a and takes a step for each of 1..n *)
Steps(f, a, step, n) == f[0] = a /\ \A i \in 1..n : f[i] = step[i][f[i - 1]]

LEMMA StepsExist ==
    ASSUME NEW X, NEW a \in X, NEW n \in Nat, NEW step \in [1..n -> [X -> X]]
    PROVE  \E f \in [0..n -> X] : Steps(f, a, step, n)
<1> USE DEF Steps
<1> DEFINE Goes(f, m) == f[0] = a /\ \A i \in 1..m : f[i] = step[i][f[i - 1]]
           Good(m) == \E f \in [0..m -> X] : Goes(f, m)
           T == {m \in Nat : m <= n => Good(m)}
<1>1. 0 \in T
  <2>1. PICK f : f = [i \in 0..0 |-> a]
    OBVIOUS
  <2>2. f \in [0..0 -> X] /\ Goes(f, 0)
    BY <2>1
  <2>3. QED
    BY <2>2
<1>2. ASSUME NEW m \in Nat, m \in T PROVE m + 1 \in T
  <2> SUFFICES ASSUME m + 1 <= n PROVE Good(m + 1)
    OBVIOUS
  <2>1. PICK f \in [0..m -> X] : Goes(f, m)
    BY <1>2
  <2> DEFINE last == step[m + 1][f[m]]
             g == [i \in 0..(m + 1) |-> IF i = m + 1 THEN last ELSE f[i]]
  <2>2. f[m] \in X /\ m + 1 \in 1..n
    OBVIOUS
  <2>3. last \in X
    BY <2>2
  <2>4. g \in [0..(m + 1) -> X]
    <3> HIDE DEF last
    <3>1. QED
      BY <2>3
  <2>5. /\ \A i \in 0..m : g[i] = f[i]
        /\ g[m + 1] = last
    <3> HIDE DEF last
    <3>1. QED
      OBVIOUS
  <2> HIDE DEF g
  <2>6. Goes(g, m + 1)
    <3>1. g[0] = a
      BY <2>1, <2>5
    <3>2. ASSUME NEW i \in 1..(m + 1) PROVE g[i] = step[i][g[i - 1]]
      <4>1. i - 1 \in 0..m /\ g[i - 1] = f[i - 1]
        BY <2>5
      <4>2. CASE i = m + 1
        <5>1. g[i] = last /\ i - 1 = m
          BY <2>5, <4>2
        <5>2. QED
          BY <4>1, <4>2, <5>1
      <4>3. CASE i # m + 1
        <5>1. i \in 1..m /\ i \in 0..m
          BY <4>3
        <5>2. QED
          BY <2>1, <2>5, <4>1, <5>1
      <4>4. QED
        BY <4>2, <4>3
    <3>3. QED
      BY <3>1, <3>2
  <2>7. QED
    BY <2>4, <2>6
<1> HIDE DEF Good
<1>3. \A m \in Nat : m \in T
  <2> HIDE DEF T
  <2>1. QED
    BY <1>1, <1>2, Induction
<1>4. QED
  BY <1>3 DEF Good

(* Two recursive definitions with the same steps are of one function.        *)
SameSteps(f, h, n) == f[0] = h[0] /\ \A i \in 1..n : f[i - 1] = h[i - 1] => f[i] = h[i]

LEMMA Agree ==
    ASSUME NEW n \in Nat, NEW f, NEW h, SameSteps(f, h, n)
    PROVE  \A i \in 0..n : f[i] = h[i]
<1> USE DEF SameSteps
<1> DEFINE T == {i \in Nat : i \in 0..n => f[i] = h[i]}
<1>1. 0 \in T
  OBVIOUS
<1>2. ASSUME NEW i \in Nat, i \in T PROVE i + 1 \in T
  <2> SUFFICES ASSUME i + 1 \in 0..n PROVE f[i + 1] = h[i + 1]
    OBVIOUS
  <2>1. i + 1 \in 1..n /\ (i + 1) - 1 = i /\ i \in 0..n
    OBVIOUS
  <2>2. f[i] = h[i]
    BY <1>2, <2>1
  <2>3. f[(i + 1) - 1] = h[(i + 1) - 1] => f[i + 1] = h[i + 1]
    BY <2>1
  <2>4. QED
    BY <2>1, <2>2, <2>3
<1>3. \A i \in Nat : i \in T
  <2> HIDE DEF T
  <2>1. QED
    BY <1>1, <1>2, Induction
<1>4. QED
  BY <1>3

-----------------------------------------------------------------------------
(* Questions                                                                 *)

(* A question has the parts its topic asks for, taken from the instance.     *)
Put(q) ==
    /\ q.of = "schedule" => q.config \in ScheduleConfigs /\ WellFormed(q.config) /\ q.zone \in ZoneClocks /\ q.after \in Instants
    /\ q.of = "period" => q.kind \in PeriodKinds /\ q.n \in LastDayCounts /\ q.today \in Todays
    /\ q.of = "files" => q.fs \in FileTrees /\ q.request \in PathRequests /\ q.content \in Contents
    /\ q.of = "capture" => q.chunks \in Chunks /\ q.max \in CaptureLimits
    /\ q.of = "attempts" => q.attempts \in Attempts
    /\ q.of = "process" => q.execution \in Executions

LEMMA PutFirst == QuestionInit => Put(asked)
BY DEF QuestionInit, Nothing, Put

LEMMA PutNext == ASSUME [QuestionNext]_questionVars, Put(asked) PROVE Put(asked)'
<1>1. CASE AskSchedule BY <1>1 DEF AskSchedule, Put
<1>2. CASE AskPeriod BY <1>2 DEF AskPeriod, Put
<1>3. CASE AskOrders BY <1>3 DEF AskOrders, Put
<1>4. CASE AskAttainment BY <1>4 DEF AskAttainment, Put
<1>5. CASE AskOthers BY <1>5 DEF AskOthers, Put
<1>6. CASE AskCompile BY <1>6 DEF AskCompile, Put
<1>7. CASE AskExecute BY <1>7 DEF AskExecute, Put
<1>8. CASE AskLayout BY <1>8 DEF AskLayout, Put
<1>9. CASE AskDocument BY <1>9 DEF AskDocument, Put
<1>10. CASE AskGuard BY <1>10 DEF AskGuard, Put
<1>11. CASE AskFiles BY <1>11 DEF AskFiles, Put
<1>12. CASE AskCapture BY <1>12 DEF AskCapture, Put
<1>13. CASE AskRecall BY <1>13 DEF AskRecall, Put
<1>14. CASE AskMemory BY <1>14 DEF AskMemory, Put
<1>15. CASE AskDelegate BY <1>15 DEF AskDelegate, Put
<1>16. CASE AskPrice BY <1>16 DEF AskPrice, Put
<1>17. CASE AskContext BY <1>17 DEF AskContext, Put
<1>18. CASE AskCall BY <1>18 DEF AskCall, CallsOf, Put
<1>19. CASE AskAttempts BY <1>19 DEF AskAttempts, Put
<1>20. CASE AskProcess BY <1>20 DEF AskProcess, Put
<1>21. CASE AskCatalog BY <1>21 DEF AskCatalog, Put
<1>22. CASE AskJoins BY <1>22 DEF AskJoins, Put
<1>23. CASE AskTrace BY <1>23 DEF AskTrace, Put
<1>24. CASE AskOutput BY <1>24 DEF AskOutput, Put
<1>25. CASE Answered BY <1>25 DEF Answered, Nothing, Put
<1>26. CASE UNCHANGED questionVars BY <1>26 DEF questionVars
<1>27. QED
  BY <1>1, <1>2, <1>3, <1>4, <1>5, <1>6, <1>7, <1>8, <1>9, <1>10, <1>11, <1>12, <1>13,
     <1>14, <1>15, <1>16, <1>17, <1>18, <1>19, <1>20, <1>21, <1>22, <1>23, <1>24, <1>25, <1>26
     DEF QuestionNext

(* Every question of a behaviour is such a question.                         *)
LEMMA AlwaysPut == QuestionSpec => []Put(asked)
BY PutFirst, PutNext, PTL DEF QuestionSpec

-----------------------------------------------------------------------------
(* The calendar: when the next run is, and which days a period has           *)

LEMMA LeastAbove ==
    ASSUME NEW S \in SUBSET Int, S # {}, NEW b \in Int, \A y \in S : b < y
    PROVE  Min(S) \in S /\ \A y \in S : Min(S) <= y
<1> DEFINE T == {y - b : y \in S}
<1>1. T \in SUBSET Nat /\ T # {}
  <2>1. \A y \in S : y - b \in Nat
    <3> TAKE y \in S
    <3>1. y \in Int /\ b < y
      OBVIOUS
    <3>2. QED
      BY <3>1
  <2>2. QED
    BY <2>1
<1>2. PICK n \in T : \A k \in T : n <= k
  <2> HIDE DEF T
  <2>1. QED
    BY <1>1, LeastOf
<1>3. PICK m \in S : n = m - b
  BY <1>2
<1>4. \A y \in S : m <= y
  <2> TAKE y \in S
  <2>1. n <= y - b
    BY <1>2
  <2>2. QED
    BY <1>3, <2>1
<1>5. QED
  BY <1>4 DEF Min

LEMMA GreaterOf ==
    ASSUME NEW a \in Int, NEW b \in Int
    PROVE  Max({a, b}) = IF a >= b THEN a ELSE b
<1> DEFINE m == IF a >= b THEN a ELSE b
<1>1. m \in {a, b} /\ \A y \in {a, b} : m >= y
  OBVIOUS
<1>2. Max({a, b}) \in {a, b} /\ \A y \in {a, b} : Max({a, b}) >= y
  <2> HIDE DEF m
  <2>1. QED
    BY <1>1 DEF Max
<1>3. QED
  BY <1>2

-----------------------------------------------------------------------------
(* Months adjoin, each of 28 to 31 days.                                     *)
CountsUp(f, n) == \A k \in 0..n : f[k] = IF k = 0 THEN 0 ELSE f[k - 1] + MonthLengths[k]

LEMMA LengthsAre ==
    /\ Horizon \in Nat /\ Horizon % 12 = 0
    /\ \A k \in 1..Horizon : MonthLengths[k] \in 28..31
BY CalendarAssumption DEF Horizon

LEMMA StartsExist == \E f \in [0..Horizon -> Nat] : CountsUp(f, Horizon)
<1> DEFINE Good(m) == \E f \in [0..m -> Nat] : CountsUp(f, m)
           T == {m \in Nat : m <= Horizon => Good(m)}
<1>1. 0 \in T
  <2> DEFINE f == [k \in 0..0 |-> 0]
  <2>1. f \in [0..0 -> Nat] /\ CountsUp(f, 0)
    BY DEF CountsUp
  <2>2. QED
    BY <2>1
<1>2. ASSUME NEW m \in Nat, m \in T PROVE m + 1 \in T
  <2> SUFFICES ASSUME m + 1 <= Horizon PROVE Good(m + 1)
    OBVIOUS
  <2>1. PICK f \in [0..m -> Nat] : CountsUp(f, m)
    BY <1>2, LengthsAre
  <2>2. f[m] \in Nat /\ MonthLengths[m + 1] \in Nat
    BY LengthsAre
  <2> DEFINE last == f[m] + MonthLengths[m + 1]
             g == [k \in 0..(m + 1) |-> IF k = m + 1 THEN last ELSE f[k]]
  <2>3. g \in [0..(m + 1) -> Nat]
    BY <2>2
  <2>4. CountsUp(g, m + 1)
    <3> SUFFICES ASSUME NEW k \in 0..(m + 1)
                 PROVE  g[k] = IF k = 0 THEN 0 ELSE g[k - 1] + MonthLengths[k]
      BY DEF CountsUp
    <3>1. CASE k = m + 1
      <4>1. g[m] = f[m] /\ k # 0 /\ k - 1 = m
        BY <3>1
      <4>2. QED
        BY <3>1, <4>1
    <3>2. CASE k # m + 1
      <4>1. k \in 0..m /\ g[k] = f[k] /\ (k # 0 => g[k - 1] = f[k - 1])
        BY <3>2
      <4>2. QED
        BY <2>1, <4>1 DEF CountsUp
    <3>3. QED
      BY <3>1, <3>2
  <2>5. QED
    BY <2>3, <2>4
<1> HIDE DEF Good
<1>3. \A m \in Nat : m \in T
  <2> HIDE DEF T
  <2>1. QED
    BY <1>1, <1>2, Induction
<1>4. QED
  BY <1>3, LengthsAre DEF Good

LEMMA StartsAre == MonthStart \in [0..Horizon -> Nat] /\ CountsUp(MonthStart, Horizon)
<1> DEFINE Starts(f) == f = [k \in 0..Horizon |-> IF k = 0 THEN 0 ELSE f[k - 1] + MonthLengths[k]]
<1>1. PICK f \in [0..Horizon -> Nat] : CountsUp(f, Horizon)
  BY StartsExist
<1>2. Starts(f)
  BY <1>1 DEF CountsUp
<1>3. Starts(MonthStart)
  BY <1>2 DEF MonthStart
<1>4. CountsUp(MonthStart, Horizon)
  BY <1>3 DEF CountsUp
<1>5. DOMAIN MonthStart = 0..Horizon
  BY <1>3
<1> DEFINE T == {k \in Nat : k <= Horizon => MonthStart[k] \in Nat}
<1> HIDE DEF Starts
<1>6. 0 \in T
  BY <1>4, LengthsAre DEF CountsUp
<1>7. ASSUME NEW k \in Nat, k \in T PROVE k + 1 \in T
  <2> SUFFICES ASSUME k + 1 <= Horizon PROVE MonthStart[k + 1] \in Nat
    OBVIOUS
  <2>1. k + 1 \in 0..Horizon /\ k + 1 # 0 /\ (k + 1) - 1 = k /\ k + 1 \in 1..Horizon
    BY LengthsAre
  <2>2. MonthStart[k + 1] = MonthStart[k] + MonthLengths[k + 1]
    BY <1>4, <2>1 DEF CountsUp
  <2>3. MonthStart[k] \in Nat /\ MonthLengths[k + 1] \in 28..31
    BY <1>7, <2>1, LengthsAre
  <2>4. QED
    BY <2>2, <2>3
<1>8. \A k \in Nat : k \in T
  <2> HIDE DEF T
  <2>1. QED
    BY <1>6, <1>7, Induction
<1>9. \A k \in 0..Horizon : MonthStart[k] \in Nat
  BY <1>8, LengthsAre
<1>10. MonthStart = [k \in 0..Horizon |-> MonthStart[k]]
  BY <1>3 DEF Starts
<1>11. QED
  BY <1>4, <1>9, <1>10

LEMMA MonthsAdjoin ==
    ASSUME NEW j \in 0..Horizon
    PROVE  \A n \in Nat : j + n <= Horizon =>
               /\ MonthStart[j + n] - MonthStart[j] >= 28 * n
               /\ MonthStart[j + n] - MonthStart[j] <= 31 * n
<1> DEFINE T == {n \in Nat : j + n <= Horizon =>
                    /\ MonthStart[j + n] - MonthStart[j] >= 28 * n
                    /\ MonthStart[j + n] - MonthStart[j] <= 31 * n}
<1>1. 0 \in T
  BY StartsAre
<1>2. ASSUME NEW n \in Nat, n \in T PROVE n + 1 \in T
  <2> SUFFICES ASSUME j + (n + 1) <= Horizon
               PROVE  /\ MonthStart[j + (n + 1)] - MonthStart[j] >= 28 * (n + 1)
                      /\ MonthStart[j + (n + 1)] - MonthStart[j] <= 31 * (n + 1)
    OBVIOUS
  <2> DEFINE k == j + n
  <2>1. /\ k \in 0..Horizon /\ k + 1 \in 1..Horizon /\ k + 1 \in 0..Horizon
        /\ k + 1 # 0 /\ (k + 1) - 1 = k /\ j + (n + 1) = k + 1 /\ j + n <= Horizon
    BY LengthsAre
  <2>2. /\ MonthStart[k] - MonthStart[j] >= 28 * n
        /\ MonthStart[k] - MonthStart[j] <= 31 * n
    BY <1>2, <2>1
  <2> HIDE DEF k
  <2>3. MonthStart[k + 1] = MonthStart[k] + MonthLengths[k + 1]
    BY <2>1, StartsAre DEF CountsUp
  <2>4. MonthStart[k] \in Nat /\ MonthStart[j] \in Nat /\ MonthLengths[k + 1] \in 28..31
    BY <2>1, StartsAre, LengthsAre
  <2>5. QED
    BY <2>1, <2>2, <2>3, <2>4
<1>3. \A n \in Nat : n \in T
  <2> HIDE DEF T
  <2>1. QED
    BY <1>1, <1>2, Induction
<1>4. QED
  BY <1>3

LEMMA StartsRise ==
    ASSUME NEW j \in 0..Horizon, NEW k \in 0..Horizon, j <= k
    PROVE  /\ MonthStart[j] \in Nat /\ MonthStart[k] \in Nat
           /\ MonthStart[k] - MonthStart[j] >= 28 * (k - j)
           /\ MonthStart[k] - MonthStart[j] <= 31 * (k - j)
<1>1. k - j \in Nat /\ j + (k - j) = k /\ k <= Horizon
  BY LengthsAre
<1>2. QED
  BY <1>1, MonthsAdjoin, StartsAre

(* Every day is in one month.                                                *)
LEMMA InMonth ==
    ASSUME NEW k \in 0..(Horizon - 1), NEW d \in Int, MonthStart[k] <= d, d < MonthStart[k + 1]
    PROVE  d \in 0..LastDay /\ MonthOf[d] = k
<1>1. k \in 0..Horizon /\ k + 1 \in 0..Horizon /\ Horizon \in 0..Horizon /\ k + 1 <= Horizon
  BY LengthsAre
<1>2. MonthStart[k + 1] <= MonthStart[Horizon] /\ MonthStart[k] \in Nat /\ MonthStart[Horizon] \in Nat
  BY <1>1, StartsRise, LengthsAre
<1>3. d \in 0..LastDay
  BY <1>2, <1>1, StartsAre DEF LastDay
<1>4. ASSUME NEW j \in 0..(Horizon - 1), MonthStart[j] <= d, d < MonthStart[j + 1]
      PROVE  j = k
  <2>1. j \in 0..Horizon /\ j + 1 \in 0..Horizon
    BY LengthsAre
  <2>2. CASE j < k
    <3>1. j + 1 <= k
      BY <2>2, LengthsAre
    <3>2. MonthStart[k] - MonthStart[j + 1] >= 28 * (k - (j + 1)) /\ MonthStart[j + 1] \in Nat
      BY <1>1, <2>1, <3>1, StartsRise
    <3>3. QED
      BY <1>2, <1>4, <2>2, <3>1, <3>2, LengthsAre
  <2>3. CASE k < j
    <3>1. k + 1 <= j
      BY <2>3, LengthsAre
    <3>2. MonthStart[j] - MonthStart[k + 1] >= 28 * (j - (k + 1)) /\ MonthStart[j] \in Nat /\ MonthStart[k + 1] \in Nat
      BY <1>1, <2>1, <3>1, StartsRise
    <3>3. QED
      BY <1>2, <1>4, <2>3, <3>1, <3>2, LengthsAre
  <2>4. QED
    BY <2>2, <2>3, LengthsAre
<1>5. MonthOf[d] = CHOOSE j \in 0..(Horizon - 1) : MonthStart[j] <= d /\ d < MonthStart[j + 1]
  BY <1>3 DEF MonthOf
<1>6. QED
  BY <1>3, <1>4, <1>5

LEMMA HasMonth ==
    ASSUME NEW d \in 0..LastDay
    PROVE  /\ MonthOf[d] \in 0..(Horizon - 1)
           /\ MonthStart[MonthOf[d]] <= d /\ d < MonthStart[MonthOf[d] + 1]
<1> DEFINE T == {n \in 0..Horizon : d < MonthStart[n]}
<1>1. T \in SUBSET Nat /\ Horizon \in T
  BY LengthsAre, StartsAre DEF LastDay
<1>2. PICK n \in T : \A m \in T : n <= m
  <2> HIDE DEF T
  <2>1. QED
    BY <1>1, LeastOf
<1>3. MonthStart[0] = 0
  BY StartsAre, LengthsAre DEF CountsUp
<1>4. d \in Nat
  OBVIOUS
<1>5. n # 0
  BY <1>2, <1>3, <1>4
<1>6. n - 1 \in 0..(Horizon - 1) /\ n - 1 \notin T /\ (n - 1) + 1 = n
  BY <1>2, <1>5, LengthsAre
<1>7. MonthStart[n - 1] <= d /\ d < MonthStart[(n - 1) + 1]
  <2>1. n - 1 \in 0..Horizon
    BY <1>6, LengthsAre
  <2>2. ~(d < MonthStart[n - 1]) /\ MonthStart[n - 1] \in Nat
    BY <1>6, <2>1, StartsAre
  <2>3. d < MonthStart[n]
    OBVIOUS
  <2>4. QED
    BY <1>4, <1>6, <2>2, <2>3
<1>8. MonthOf[d] = n - 1
  BY <1>6, <1>7, InMonth, <1>4
<1>9. QED
  BY <1>6, <1>7, <1>8

-----------------------------------------------------------------------------
(* The next run                                                              *)
(* The candidate dates are the dates of the rule, as far as they are not     *)
(* before the month of today; from today on they are all of them.            *)
LEMMA CandidatesAre ==
    ASSUME NEW c \in AnySchedule, WellFormed(c), NEW today \in 0..LastDay
    PROVE  /\ CandidateDates(c, today) \subseteq RuleDates(c)
           /\ \A d \in RuleDates(c) : d >= today => d \in CandidateDates(c, today)
<1>1. CASE c.kind = "daily"
  BY <1>1 DEF CandidateDates, RuleDates
<1>2. CASE c.kind = "weekly"
  <2>1. c.day_of_week \in Int /\ FirstWeekday \in Int
    BY CalendarAssumption DEF AnySchedule
  <2>2. \A d \in 0..LastDay : Weekday(d) + 1 = c.day_of_week <=> (d + FirstWeekday) % 7 = c.day_of_week - 1
    BY <2>1 DEF Weekday
  <2>3. QED
    BY <1>2, <2>2 DEF CandidateDates, RuleDates
<1>3. CASE c.kind \in {"monthly", "quarterly"}
  <2> DEFINE months == {j \in 0..(Horizon - 1) : c.kind = "quarterly" => QuarterCycleMonth(c.month_of_quarter, j % 12)}
             named(d) == d - MonthStart[MonthOf[d]] + 1 = c.day_of_month
                /\ (c.kind = "quarterly" => \E q \in 0..3 : MonthOf[d] % 12 = 3 * q + c.month_of_quarter - 1)
  <2>1. c.day_of_month \in 1..28
    BY <1>3 DEF AnySchedule, WellFormed
  <2>2. c.kind = "quarterly" => c.month_of_quarter \in 1..3
    BY <1>3 DEF AnySchedule, WellFormed
  <2>3. \A j \in 0..(Horizon - 1) : c.kind = "quarterly" =>
            (QuarterCycleMonth(c.month_of_quarter, j % 12)
               <=> \E q \in 0..3 : j % 12 = 3 * q + c.month_of_quarter - 1)
    <3> SUFFICES ASSUME NEW j \in 0..(Horizon - 1), c.kind = "quarterly"
                 PROVE  QuarterCycleMonth(c.month_of_quarter, j % 12)
                          <=> \E q \in 0..3 : j % 12 = 3 * q + c.month_of_quarter - 1
      OBVIOUS
    <3> DEFINE n == c.month_of_quarter
               m == j % 12
    <3>1. n \in 1..3 /\ m \in 0..11
      BY <2>2
    <3> HIDE DEF n, m
    <3>2. (m % 3) + 1 = n <=> \E q \in 0..3 : m = 3 * q + n - 1
      <4>1. ASSUME (m % 3) + 1 = n PROVE \E q \in 0..3 : m = 3 * q + n - 1
        <5>1. m \div 3 \in 0..3 /\ m = 3 * (m \div 3) + n - 1
          BY <3>1, <4>1
        <5>2. QED
          BY <5>1
      <4>2. ASSUME NEW q \in 0..3, m = 3 * q + n - 1 PROVE (m % 3) + 1 = n
        BY <3>1, <4>2
      <4>3. QED
        BY <4>1, <4>2
    <3>3. QED
      BY <3>2 DEF QuarterCycleMonth, n, m
  <2>4. ASSUME NEW k \in months
        PROVE  LET d == MonthStart[k] + c.day_of_month - 1
               IN  d \in 0..LastDay /\ MonthOf[d] = k /\ named(d)
    <3> DEFINE d == MonthStart[k] + c.day_of_month - 1
    <3>1. k \in 0..Horizon /\ k + 1 \in 0..Horizon /\ k \in 0..(Horizon - 1) /\ k + 1 - k = 1
      BY LengthsAre
    <3>2. MonthStart[k + 1] - MonthStart[k] >= 28 * (k + 1 - k) /\ MonthStart[k] \in Nat /\ MonthStart[k + 1] \in Nat
      BY <3>1, StartsRise
    <3>3. d \in Int /\ MonthStart[k] <= d /\ d < MonthStart[k + 1]
      BY <2>1, <3>1, <3>2
    <3> HIDE DEF d
    <3>4. d \in 0..LastDay /\ MonthOf[d] = k
      BY <3>1, <3>3, InMonth
    <3>5. d - MonthStart[k] + 1 = c.day_of_month
      BY <2>1, <3>2 DEF d
    <3>6. QED
      BY <2>3, <3>1, <3>4, <3>5 DEF d
  <2>5. ASSUME NEW d \in 0..LastDay, named(d)
        PROVE  MonthOf[d] \in months /\ d = MonthStart[MonthOf[d]] + c.day_of_month - 1
    <3>1. MonthOf[d] \in 0..(Horizon - 1) /\ MonthOf[d] \in 0..Horizon
      BY HasMonth, LengthsAre
    <3>2. MonthStart[MonthOf[d]] \in Nat /\ d \in Int
      BY <3>1, StartsAre
    <3>3. QED
      BY <2>1, <2>3, <2>5, <3>1, <3>2
  <2>6. RuleDates(c) = {d \in 0..LastDay : named(d)}
    BY <1>3 DEF RuleDates
  <2>7. DayInMonth(c) = {MonthStart[k] + c.day_of_month - 1 : k \in months}
    BY DEF DayInMonth
  <2>8. CandidateDates(c, today) = {d \in DayInMonth(c) : d >= MonthStart[MonthOf[today]]}
    BY <1>3 DEF CandidateDates
  <2>9. MonthStart[MonthOf[today]] <= today /\ MonthStart[MonthOf[today]] \in Nat
    BY HasMonth, StartsAre, LengthsAre
  <2> HIDE DEF named, months
  <2>10. DayInMonth(c) = RuleDates(c)
    BY <2>4, <2>5, <2>6, <2>7
  <2>11. \A d \in RuleDates(c) : d \in 0..LastDay
    BY <2>6
  <2>12. QED
    BY <2>8, <2>9, <2>10, <2>11
<1>4. QED
  BY <1>1, <1>2, <1>3 DEF AnySchedule, Kinds

(* Clocks that change by less than a day: an instant on the wall and back.   *)
LEMMA Clocks ==
    ASSUME NEW zone \in AnyZone, Shift(zone) < HalfHours, NEW u \in Int, NEW v \in Int, NEW w \in Int
    PROVE  /\ Shift(zone) \in Nat
           /\ Wall(u, zone) \in Int /\ Instant(w, zone) \in Int
           /\ w > Wall(u, zone) =>
                Instant(w, zone) > IF Repeating(u, zone) THEN u - Shift(zone) ELSE u
           /\ w <= Wall(u, zone) /\ Instant(w, zone) > u =>
                Skipping(u, zone) /\ InShift(Instant(w, zone), zone)
           /\ w >= v + HalfHours => Instant(w, zone) >= Instant(v, zone)
<1> DEFINE a == zone.after
           b == zone.before
           t == zone.at
<1>1. a \in Int /\ b \in Int /\ t \in Int
  BY DEF AnyZone
<1>2. Shift(zone) = IF a >= b THEN a - b ELSE b - a
  <2>1. a - b \in Int /\ b - a \in Int
    BY <1>1
  <2> HIDE DEF a, b
  <2>2. Max({a - b, b - a}) = IF a - b >= b - a THEN a - b ELSE b - a
    BY <2>1, GreaterOf
  <2>3. QED
    BY <1>1, <2>2 DEF Shift, a, b
<1>3. Max({b, a}) = IF b >= a THEN b ELSE a
  BY <1>1, GreaterOf
<1> DEFINE top == IF b >= a THEN b ELSE a
<1>4. \A x \in Int : Instant(x, zone) = IF x < t + top THEN x - b ELSE x - a
  BY <1>1, <1>3 DEF Instant
<1>5. Wall(u, zone) = IF u < t THEN u + b ELSE u + a
  BY <1>1 DEF Wall
<1>6. /\ \A x \in Int : InShift(x, zone) <=> t <= x /\ x < t + Shift(zone)
      /\ Repeating(u, zone) <=> a < b /\ t <= u /\ u < t + Shift(zone)
      /\ Skipping(u, zone) <=> b < a /\ t <= u /\ u < t + Shift(zone)
  BY DEF InShift, Repeating, Skipping
<1> DEFINE i == Instant(w, zone)
           j == Instant(v, zone)
           s == Shift(zone)
           ref == Wall(u, zone)
<1>7. /\ i = IF w < t + top THEN w - b ELSE w - a
      /\ j = IF v < t + top THEN v - b ELSE v - a
  BY <1>4
<1> HIDE DEF a, b, t, i, j, s, ref
<1>8. s \in Nat /\ ref \in Int /\ i \in Int
  BY <1>1, <1>2, <1>5, <1>7 DEF s, ref
<1>9. w > ref => i > IF Repeating(u, zone) THEN u - s ELSE u
  BY <1>1, <1>2, <1>5, <1>6, <1>7 DEF s, ref
<1>10. w <= ref /\ i > u => Skipping(u, zone) /\ InShift(i, zone)
  <2>1. w <= ref /\ i > u => b < a /\ t <= u /\ u < t + s /\ t <= i /\ i < t + s
    BY <1>1, <1>2, <1>5, <1>7 DEF s, ref
  <2>2. QED
    BY <1>6, <1>8, <2>1 DEF s
<1>11. w >= v + HalfHours => i >= j
  BY <1>1, <1>2, <1>7 DEF HalfHours, s
<1>12. QED
  BY <1>8, <1>9, <1>10, <1>11 DEF i, j, s, ref

(* In every calendar, for every schedule, zone and instant: compute_next_run *)
(* is the first instant of the rule after the given one, as long as the      *)
(* calendar reaches that far. In an hour the wall repeats it is an instant of *)
(* the rule that may lie less than that hour back, and right after hours the *)
(* wall skipped it may pass over the fires of those                          *)
(* (scheduling/calculator.py:48-109).                                        *)
THEOREM NextRunIsAlwaysNext ==
    ASSUME NEW c \in AnySchedule, WellFormed(c),
           NEW zone \in AnyZone, Shift(zone) < HalfHours,
           NEW now \in Int, Wall(now, zone) \div HalfHours \in 0..LastDay,
           \E d \in RuleDates(c) : HalfHours * d + c.time > Wall(now, zone)
    PROVE  NextRunIsNextFire(c, zone, now)
<1> DEFINE ref == Wall(now, zone)
           today == ref \div HalfHours
           wall(d) == HalfHours * d + c.time
           later == {w \in {wall(d) : d \in CandidateDates(c, today)} : w > ref}
           first == Min(later)
           next == ComputeNextRun(c, zone, now)
<1>1. c.time \in 0..(HalfHours - 1) /\ ref \in Int /\ today \in 0..LastDay
  BY Clocks DEF AnySchedule
<1>2. /\ CandidateDates(c, today) \subseteq RuleDates(c)
      /\ \A d \in RuleDates(c) : d >= today => d \in CandidateDates(c, today)
  BY <1>1, CandidatesAre
<1>3. RuleDates(c) \subseteq 0..LastDay /\ LastDay \in Int
  BY LengthsAre, StartsAre DEF RuleDates, LastDay
<1>4. \A d \in RuleDates(c) : wall(d) > ref => d \in CandidateDates(c, today)
  <2> SUFFICES ASSUME NEW d \in RuleDates(c), wall(d) > ref PROVE d >= today
    BY <1>2
  <2>1. d \in Int
    BY <1>3
  <2>2. HalfHours * (ref \div HalfHours) <= ref
    BY <1>1 DEF HalfHours
  <2> HIDE DEF ref
  <2>3. QED
    BY <1>1, <2>1, <2>2 DEF HalfHours
<1>5. next = Instant(first, zone)
  BY DEF ComputeNextRun
<1> HIDE DEF next, ref, today
<1>6. PICK d0 \in RuleDates(c) : wall(d0) > ref
  BY DEF ref
<1>7. \A d \in RuleDates(c) : wall(d) \in Int /\ d \in Int
  BY <1>1, <1>3 DEF HalfHours
<1>8. later \in SUBSET Int /\ wall(d0) \in later /\ \A y \in later : ref < y
  BY <1>2, <1>4, <1>6, <1>7
<1>9. first \in later /\ \A w \in later : first <= w
  <2> HIDE DEF later, wall
  <2>1. later # {}
    BY <1>8
  <2>2. QED
    BY <1>1, <1>8, <2>1, LeastAbove
<1>10. PICK d1 \in RuleDates(c) : first = wall(d1)
  BY <1>2, <1>9
<1>11. first \in Int /\ first > ref
  BY <1>8, <1>9
<1> HIDE DEF later, first
<1>12. next \in RuleInstants(c, zone)
  BY <1>5, <1>10 DEF RuleInstants
<1>13. /\ next \in Int
       /\ next > IF Repeating(now, zone) THEN now - Shift(zone) ELSE now
  BY <1>5, <1>11, Clocks DEF ref
<1>14. ASSUME NEW u \in RuleInstants(c, zone), now < u, u < next
       PROVE  Skipping(now, zone) /\ InShift(u, zone)
  <2>1. PICK d \in RuleDates(c) : u = Instant(wall(d), zone)
    BY DEF RuleInstants
  <2>2. wall(d) \in Int /\ d \in Int /\ u \in Int
    BY <1>7, <2>1, Clocks
  <2>3. wall(d) <= ref
    <3> SUFFICES ASSUME wall(d) > ref PROVE FALSE
      BY <1>1, <2>2
    <3>1. wall(d) \in later
      BY <1>4 DEF later
    <3>2. first <= wall(d)
      BY <1>9, <3>1
    <3>3. first # wall(d)
      BY <1>5, <1>13, <1>14, <2>1, <2>2
    <3>4. d1 < d
      BY <1>1, <1>7, <1>10, <2>2, <3>2, <3>3 DEF HalfHours
    <3>5. wall(d) >= first + HalfHours
      BY <1>1, <1>7, <1>10, <2>2, <3>4 DEF HalfHours
    <3> HIDE DEF wall
    <3>6. Instant(wall(d), zone) >= Instant(first, zone)
      BY <1>11, <2>2, <3>5, Clocks
    <3>7. QED
      BY <1>5, <1>13, <1>14, <2>1, <2>2, <3>6
  <2> HIDE DEF wall
  <2>4. QED
    BY <1>14, <2>1, <2>2, <2>3, Clocks DEF ref
<1>15. QED
  BY <1>12, <1>13, <1>14 DEF NextRunIsNextFire, next

-----------------------------------------------------------------------------
(* The windows of a report                                                   *)

(* Months in blocks of one, a quarter or a year: today is in its block, and  *)
(* the day before a block is in the block before.                            *)
LEMMA BlocksAdjoin ==
    ASSUME NEW s \in {1, 3, 12}, NEW today \in 0..LastDay
    PROVE  LET b == s * (MonthOf[today] \div s)
           IN  /\ MonthStart[b] \in Nat /\ MonthStart[b + s] \in Nat
               /\ MonthStart[b] <= today /\ today < MonthStart[b + s]
               /\ MonthStart[b + s] - MonthStart[b] <= 31 * s
               /\ MonthOf[today] >= s =>
                     /\ MonthStart[b - s] \in Nat
                     /\ MonthStart[b - s] < MonthStart[b]
                     /\ MonthStart[b] - MonthStart[b - s] <= 31 * s
                     /\ MonthStart[b] - 1 \in 0..LastDay
                     /\ s * (MonthOf[MonthStart[b] - 1] \div s) = b - s
<1> DEFINE month == MonthOf[today]
           b == s * (month \div s)
<1>1. month \in 0..(Horizon - 1) /\ MonthStart[month] <= today /\ today < MonthStart[month + 1]
  BY HasMonth
<1>2. Horizon \in Nat /\ Horizon % 12 = 0
  BY LengthsAre
<1> HIDE DEF month
<1>3. /\ b \in Nat /\ b <= month /\ month + 1 <= b + s /\ b + s <= Horizon
      /\ month >= s => b - s \in Nat /\ b > 0 /\ s * ((b - 1) \div s) = b - s
  <2>1. CASE s = 1
    BY <1>1, <1>2, <2>1
  <2>2. CASE s = 3
    BY <1>1, <1>2, <2>2
  <2>3. CASE s = 12
    BY <1>1, <1>2, <2>3
  <2>4. QED
    BY <2>1, <2>2, <2>3
<1> HIDE DEF b
<1>4. /\ b \in 0..Horizon /\ month \in 0..Horizon /\ month + 1 \in 0..Horizon /\ b + s \in 0..Horizon
      /\ (b + s) - b = s
  BY <1>1, <1>2, <1>3
<1>5. MonthStart[b] <= MonthStart[month] /\ MonthStart[month + 1] <= MonthStart[b + s]
  <2>1. MonthStart[month] - MonthStart[b] >= 28 * (month - b)
    BY <1>3, <1>4, StartsRise
  <2>2. MonthStart[b + s] - MonthStart[month + 1] >= 28 * ((b + s) - (month + 1))
    BY <1>3, <1>4, StartsRise
  <2>3. \A k \in {b, b + s, month, month + 1} : MonthStart[k] \in Nat
    BY <1>4, StartsAre
  <2>4. QED
    BY <1>1, <1>3, <1>4, <2>1, <2>2, <2>3
<1>6. \A k \in 0..Horizon : MonthStart[k] \in Nat
  BY StartsAre
<1>7. MonthStart[b] <= today /\ today < MonthStart[b + s]
  <2>1. today \in Int
    OBVIOUS
  <2>2. QED
    BY <1>1, <1>4, <1>5, <1>6, <2>1
<1>8. MonthStart[b + s] - MonthStart[b] <= 31 * s
  <2>1. b <= b + s
    BY <1>3
  <2>2. MonthStart[b + s] - MonthStart[b] <= 31 * ((b + s) - b)
    BY <1>4, <2>1, StartsRise
  <2>3. QED
    BY <1>4, <2>2
<1>9. ASSUME month >= s
      PROVE  /\ MonthStart[b - s] \in Nat
             /\ MonthStart[b - s] < MonthStart[b]
             /\ MonthStart[b] - MonthStart[b - s] <= 31 * s
             /\ MonthStart[b] - 1 \in 0..LastDay
             /\ s * (MonthOf[MonthStart[b] - 1] \div s) = b - s
  <2>1. /\ b - s \in 0..Horizon /\ b - s <= b /\ b - (b - s) = s
        /\ b - 1 \in 0..(Horizon - 1) /\ b - 1 \in 0..Horizon /\ (b - 1) + 1 = b /\ b - (b - 1) = 1 /\ b - 1 <= b
    BY <1>2, <1>3, <1>4, <1>9
  <2>2. MonthStart[b] - MonthStart[b - s] >= 28 * s /\ MonthStart[b] - MonthStart[b - s] <= 31 * s
    <3>1. /\ MonthStart[b] - MonthStart[b - s] >= 28 * (b - (b - s))
          /\ MonthStart[b] - MonthStart[b - s] <= 31 * (b - (b - s))
      BY <1>4, <2>1, StartsRise
    <3>2. QED
      BY <2>1, <3>1
  <2>3. MonthStart[b] - MonthStart[b - 1] >= 28
    <3>1. MonthStart[b] - MonthStart[b - 1] >= 28 * (b - (b - 1))
      BY <1>4, <2>1, StartsRise
    <3>2. QED
      BY <2>1, <3>1
  <2>4. MonthStart[b] \in Nat /\ MonthStart[b - s] \in Nat /\ MonthStart[b - 1] \in Nat
    BY <1>4, <1>6, <2>1
  <2>5. MonthStart[b] - 1 \in 0..LastDay /\ MonthOf[MonthStart[b] - 1] = b - 1
    <3>1. MonthStart[b] - 1 \in Int /\ MonthStart[b - 1] <= MonthStart[b] - 1 /\ MonthStart[b] - 1 < MonthStart[(b - 1) + 1]
      BY <2>1, <2>3, <2>4
    <3>2. QED
      BY <2>1, <3>1, InMonth
  <2>6. MonthStart[b - s] < MonthStart[b]
    BY <2>2, <2>4
  <2>7. QED
    BY <1>3, <1>9, <2>2, <2>4, <2>5, <2>6
<1>10. QED
  BY <1>4, <1>6, <1>7, <1>8, <1>9 DEF b, month

(* The windows of each kind. *)
MonthsOf == [current_month |-> 1, previous_month |-> 1, current_quarter |-> 3, previous_quarter |-> 3,
             current_year |-> 12, previous_year |-> 12]

LEMMA WindowsAre ==
    ASSUME NEW kind \in PeriodKinds \ {"last_n_days"}, NEW n, NEW day \in 0..LastDay
    PROVE  LET s == MonthsOf[kind]
               b == s * (MonthOf[day] \div s)
           IN  /\ kind \in DOMAIN Current =>
                     ResolvePeriod(kind, n, day) = ReportPeriod(MonthStart[b - s], MonthStart[b])
               /\ kind \notin DOMAIN Current =>
                     ResolvePeriod(kind, n, day) = ReportPeriod(MonthStart[b], MonthStart[b + s])
<1>1. MonthOf[day] \in Nat /\ 1 * (MonthOf[day] \div 1) = MonthOf[day]
  <2> DEFINE month == MonthOf[day]
  <2>1. month \in Nat
    BY HasMonth, LengthsAre
  <2> HIDE DEF month
  <2>2. 1 * (month \div 1) = month
    BY <2>1
  <2>3. QED
    BY <2>1, <2>2 DEF month
<1>2. CASE kind \in {"current_month", "previous_month"}
  BY <1>1, <1>2 DEF ResolvePeriod, Current, MonthsOf
<1>3. CASE kind \in {"current_quarter", "previous_quarter"}
  BY <1>3 DEF ResolvePeriod, Current, MonthsOf, QuarterStart
<1>4. CASE kind \in {"current_year", "previous_year"}
  BY <1>4 DEF ResolvePeriod, Current, MonthsOf
<1>5. QED
  BY <1>2, <1>3, <1>4 DEF PeriodKinds

LEMMA WindowIsValid ==
    ASSUME NEW s \in {1, 3, 12}, NEW first \in Nat, NEW end \in Nat, first < end, end - first <= 31 * s
    PROVE  ValidPeriod(ReportPeriod(first, end))
BY DEF ValidPeriod, ReportPeriod, MaxPeriodDays

LEMMA DayCountsAreInts ==
    ASSUME NEW n \in 1..MaxPeriodDays, NEW today \in 0..LastDay
    PROVE  today \in Int /\ n \in Int /\ n > 0 /\ n <= MaxPeriodDays
<1>1. today \in Int OBVIOUS
<1>2. MaxPeriodDays \in Int BY DEF MaxPeriodDays
<1>3. QED BY <1>1, <1>2

(* In every calendar, on every day it reaches back from: the window of a     *)
(* relative period is one a report accepts, the current one holds today, the *)
(* previous one is what the current one was on the day before it began, and  *)
(* the last n days are n days up to today (reports/periods.py:18-75).        *)
THEOREM PeriodsAlwaysFit ==
    ASSUME NEW kind \in PeriodKinds, NEW n \in 1..MaxPeriodDays, NEW today \in 0..LastDay,
           kind \in DOMAIN Current => MonthOf[today] >= MonthsOf[kind]
    PROVE  PeriodsFitTogether(kind, n, today)
<1>1. CASE kind = "last_n_days"
  <2>1. today \in Int /\ n \in Int /\ n > 0 /\ n <= MaxPeriodDays
    BY DayCountsAreInts
  <2>2. ResolvePeriod(kind, n, today) = [start |-> today - n, end |-> today]
    BY <1>1 DEF ResolvePeriod, LastDays, ReportPeriod
  <2>3. ValidPeriod([start |-> today - n, end |-> today])
    BY <2>1 DEF ValidPeriod
  <2>4. kind \notin DOMAIN Current /\ kind \notin {"current_month", "current_quarter", "current_year"}
    BY <1>1 DEF Current
  <2>5. today - (today - n) = n
    BY <2>1
  <2>6. QED
    BY <2>2, <2>3, <2>4, <2>5 DEF PeriodsFitTogether
<1>2. CASE kind # "last_n_days"
  <2> DEFINE s == MonthsOf[kind]
             b == s * (MonthOf[today] \div s)
             before == MonthStart[b] - 1
  <2>1. s \in {1, 3, 12} /\ kind \in PeriodKinds \ {"last_n_days"}
    BY <1>2 DEF MonthsOf, PeriodKinds
  <2>2. /\ MonthStart[b] \in Nat /\ MonthStart[b + s] \in Nat
        /\ MonthStart[b] <= today /\ today < MonthStart[b + s]
        /\ MonthStart[b + s] - MonthStart[b] <= 31 * s
    BY <2>1, BlocksAdjoin
  <2>3. kind \in DOMAIN Current =>
          /\ MonthStart[b - s] \in Nat
          /\ MonthStart[b - s] < MonthStart[b]
          /\ MonthStart[b] - MonthStart[b - s] <= 31 * s
          /\ before \in 0..LastDay
          /\ s * (MonthOf[before] \div s) = b - s
    BY <2>1, BlocksAdjoin
  <2>4. 31 * s <= MaxPeriodDays /\ b \in Int /\ (b - s) + s = b /\ today \in Int
    <3>1. MonthOf[today] \in Nat
      BY HasMonth, LengthsAre
    <3>2. b \in Int
      BY <2>1, <3>1
    <3> HIDE DEF b, s
    <3>3. QED
      BY <2>1, <3>2 DEF MaxPeriodDays
  <2>5. CASE kind \in DOMAIN Current
    <3> DEFINE current == Current[kind]
    <3>1. /\ current \in PeriodKinds \ {"last_n_days"} /\ current \notin DOMAIN Current
          /\ MonthsOf[current] = s
          /\ kind \notin {"current_month", "current_quarter", "current_year"}
      BY <2>5 DEF Current, PeriodKinds, MonthsOf
    <3>2. ResolvePeriod(kind, n, today) = ReportPeriod(MonthStart[b - s], MonthStart[b])
      BY <2>1, <2>5, WindowsAre
    <3>3. ResolvePeriod(current, n, today) = ReportPeriod(MonthStart[b], MonthStart[b + s])
      BY <3>1, WindowsAre
    <3>4. ResolvePeriod(current, n, before) = ReportPeriod(MonthStart[b - s], MonthStart[(b - s) + s])
      <4>1. before \in 0..LastDay /\ s * (MonthOf[before] \div s) = b - s
        BY <2>3, <2>5
      <4> HIDE DEF before, b, s, current
      <4>2. QED
        BY <3>1, <4>1, WindowsAre
    <3> HIDE DEF s, b, current
    <3>5. ValidPeriod(ReportPeriod(MonthStart[b - s], MonthStart[b]))
      BY <2>1, <2>2, <2>3, <2>4, <2>5, WindowIsValid
    <3>6. QED
      BY <1>2, <2>4, <3>1, <3>2, <3>3, <3>4, <3>5 DEF PeriodsFitTogether, ReportPeriod, current
  <2>6. CASE kind \notin DOMAIN Current
    <3>1. ResolvePeriod(kind, n, today) = ReportPeriod(MonthStart[b], MonthStart[b + s])
      BY <2>1, <2>6, WindowsAre
    <3> HIDE DEF s, b
    <3>2. ValidPeriod(ReportPeriod(MonthStart[b], MonthStart[b + s]))
      <4>1. MonthStart[b] < MonthStart[b + s]
        BY <2>2, <2>4
      <4>2. QED
        BY <2>1, <2>2, <4>1, WindowIsValid
    <3>3. QED
      BY <1>2, <2>2, <2>6, <3>1, <3>2 DEF PeriodsFitTogether, ReportPeriod
  <2>7. QED
    BY <2>5, <2>6
<1>3. QED
  BY <1>1, <1>2

-----------------------------------------------------------------------------
(* CalendarOK, for every calendar, schedule, zone, instant and day: the run   *)
(* computed after an instant is the first of the rule, but for the hours the  *)
(* wall repeats or has just skipped, where it is what NextRunIsNextFire says, *)
(* and the windows of relative periods fit together.                         *)
THEOREM CalendarHolds == QuestionSpec => []CalendarOK
<1>1. Put(asked) => CalendarOK
  <2> SUFFICES ASSUME Put(asked) PROVE CalendarOK
    OBVIOUS
  <2>1. CASE asked.of = "schedule"
    <3> DEFINE c == asked.config
               zone == asked.zone
               now == asked.after
    <3>1. c \in ScheduleConfigs /\ WellFormed(c) /\ zone \in ZoneClocks /\ now \in Instants
      BY <2>1 DEF Put
    <3>2. c \in AnySchedule /\ zone \in AnyZone /\ Shift(zone) < HalfHours /\ now \in Int
          /\ Wall(now, zone) \div HalfHours \in 0..LastDay
      BY <3>1, CalendarQuestions
    <3>3. \E d \in RuleDates(c) : HalfHours * d + c.time > Wall(now, zone)
      BY <3>1, CalendarQuestions
    <3> HIDE DEF c, zone, now
    <3>4. NextRunIsNextFire(c, zone, now)
      BY <3>1, <3>2, <3>3, NextRunIsAlwaysNext
    <3>5. QED
      BY <2>1, <3>4 DEF CalendarOK, NextRunOK, PeriodsOK, c, zone, now
  <2>2. CASE asked.of = "period"
    <3> DEFINE kind == asked.kind
               n == asked.n
               today == asked.today
    <3>1. kind \in PeriodKinds /\ n \in LastDayCounts /\ today \in Todays
      BY <2>2 DEF Put
    <3>2. n \in 1..MaxPeriodDays /\ today \in 0..LastDay /\ MonthOf[today] >= 12
      BY <3>1, CalendarQuestions
    <3>3. \A k \in DOMAIN Current : MonthsOf[k] \in {1, 3, 12}
      BY DEF Current, MonthsOf
    <3> HIDE DEF kind, n, today
    <3>4. MonthOf[today] \in 0..(Horizon - 1) /\ Horizon \in Nat
      BY <3>2, LengthsAre, HasMonth
    <3>5. kind \in DOMAIN Current => MonthOf[today] >= MonthsOf[kind]
      BY <3>2, <3>3, <3>4
    <3>6. PeriodsFitTogether(kind, n, today)
      BY <3>1, <3>2, <3>5, PeriodsAlwaysFit
    <3>7. QED
      BY <2>2, <3>6 DEF CalendarOK, NextRunOK, PeriodsOK, kind, n, today
  <2>3. QED
    BY <2>1, <2>2 DEF CalendarOK, NextRunOK, PeriodsOK
<1>2. QED
  BY <1>1, AlwaysPut, PTL

-----------------------------------------------------------------------------
(* The files of a run: paths, links and the workspace                        *)

LEMMA PrefixIs ==
    ASSUME NEW p \in Seq(Names), NEW n \in 0..Len(p)
    PROVE  /\ SubSeq(p, 1, n) \in Seq(Names) /\ Len(SubSeq(p, 1, n)) = n
           /\ \A i \in 1..n : SubSeq(p, 1, n)[i] = p[i]
           /\ \A m \in 0..n : SubSeq(SubSeq(p, 1, n), 1, m) = SubSeq(p, 1, m)
<1>1. Len(p) \in Nat /\ \A i \in 1..Len(p) : p[i] \in Names
  BY LenProperties, ElementOfSeq
<1> DEFINE Starts(k) == /\ SubSeq(p, 1, k) \in Seq(Names) /\ Len(SubSeq(p, 1, k)) = k
                        /\ \A i \in 1..k : SubSeq(p, 1, k)[i] = p[i]
<1>2. ASSUME NEW k \in 0..Len(p) PROVE Starts(k)
  <2>1. \A i \in 1..k : p[i] \in Names
    BY <1>1
  <2>2. /\ SubSeq(p, 1, k) \in Seq(Names)
        /\ Len(SubSeq(p, 1, k)) = IF 1 <= k THEN k - 1 + 1 ELSE 0
        /\ \A i \in 1..(k - 1 + 1) : SubSeq(p, 1, k)[i] = p[1 + i - 1]
    <3>1. k \in Int /\ 1 \in Int
      BY <1>1
    <3>2. QED
      BY <2>1, <3>1, SubSeqProperties
  <2>3. k - 1 + 1 = k /\ k \in Nat /\ \A i \in 1..k : 1 + i - 1 = i
    BY <1>1
  <2>4. Len(SubSeq(p, 1, k)) = k
    BY <2>2, <2>3
  <2>5. \A i \in 1..k : SubSeq(p, 1, k)[i] = p[i]
    BY <2>2, <2>3
  <2>6. QED
    BY <2>2, <2>4, <2>5
<1>3. ASSUME NEW m \in 0..n PROVE SubSeq(SubSeq(p, 1, n), 1, m) = SubSeq(p, 1, m)
  <2> DEFINE q == SubSeq(p, 1, n)
             a == SubSeq(q, 1, m)
             b == SubSeq(p, 1, m)
  <2>1. Starts(n) /\ Starts(m) /\ m \in 0..Len(p)
    BY <1>1, <1>2
  <2>2. /\ a \in Seq(Names) /\ Len(a) = m /\ \A i \in 1..m : a[i] = q[i]
    <3>1. \A i \in 1..m : q[i] \in Names
      BY <1>1, <2>1
    <3>2. m \in Int /\ 1 \in Int
      BY <1>1
    <3> HIDE DEF q
    <3>3. /\ a \in Seq(Names)
          /\ Len(a) = IF 1 <= m THEN m - 1 + 1 ELSE 0
          /\ \A i \in 1..(m - 1 + 1) : a[i] = q[1 + i - 1]
      BY <3>1, <3>2, SubSeqProperties
    <3>4. m - 1 + 1 = m /\ m \in Nat /\ \A i \in 1..m : 1 + i - 1 = i
      BY <1>1
    <3> HIDE DEF a
    <3>5. Len(a) = m
      BY <3>3, <3>4
    <3>6. QED
      BY <3>3, <3>4, <3>5
  <2>3. \A i \in 1..m : a[i] = b[i]
    BY <1>1, <2>1, <2>2
  <2> HIDE DEF a, b
  <2>4. QED
    BY <2>1, <2>2, <2>3, SeqEqual DEF b
<1>4. QED
  BY <1>2, <1>3

LEMMA PrefixPlain ==
    ASSUME NEW links, NEW p, Plain(links, p), NEW n \in 0..Len(p)
    PROVE  Plain(links, SubSeq(p, 1, n))
<1>1. p \in Seq(Names) /\ Len(p) \in Nat
  BY LenProperties DEF Plain
<1>2. /\ SubSeq(p, 1, n) \in Seq(Names) /\ Len(SubSeq(p, 1, n)) = n
      /\ \A i \in 1..n : SubSeq(p, 1, n)[i] = p[i]
      /\ \A m \in 0..n : SubSeq(SubSeq(p, 1, n), 1, m) = SubSeq(p, 1, m)
  BY <1>1, PrefixIs
<1>3. \A i \in 1..n : p[i] # ".."
  <2>1. \A i \in 1..Len(p) : p[i] # ".."
    BY DEF Plain
  <2>2. QED
    BY <1>1, <2>1
<1>4. \A m \in 0..n : SubSeq(SubSeq(p, 1, n), 1, m) \notin DOMAIN links
  <2>1. \A m \in 0..Len(p) : SubSeq(p, 1, m) \notin DOMAIN links
    BY DEF Plain
  <2>2. \A m \in 0..n : m \in 0..Len(p)
    BY <1>1
  <2>3. QED
    BY <1>2, <2>1, <2>2
<1> DEFINE q == SubSeq(p, 1, n)
<1>5. \A i \in 1..n : q[i] # ".."
  BY <1>2, <1>3
<1>6. q \in Seq(Names) /\ Len(q) = n
  BY <1>2
<1>7. \A m \in 0..n : SubSeq(q, 1, m) \notin DOMAIN links
  BY <1>4
<1> HIDE DEF q
<1>8. Plain(links, q)
  BY <1>5, <1>6, <1>7 DEF Plain
<1>9. QED
  BY <1>8 DEF q

LEMMA ParentPlain ==
    ASSUME NEW links, NEW p, Plain(links, p)
    PROVE  Plain(links, Parent(p))
<1>1. CASE p = <<>>
  BY <1>1 DEF Parent
<1>2. CASE p # <<>>
  <2>1. p \in Seq(Names) /\ Len(p) \in Nat \ {0}
    BY <1>2, EmptySeq DEF Plain
  <2>2. Len(p) - 1 \in 0..Len(p)
    BY <2>1
  <2>3. QED
    BY <1>2, <2>2, PrefixPlain DEF Parent, Front
<1>3. QED
  BY <1>1, <1>2

LEMMA StepPlain ==
    ASSUME NEW links, Resolvable(links), NEW p, Plain(links, p), NEW name \in Names
    PROVE  Plain(links, ResolveName(links, p, name))
<1> DEFINE next == Append(p, name)
<1>1. CASE name = ".."
  BY <1>1, ParentPlain DEF ResolveName
<1>2. CASE name # ".." /\ next \in DOMAIN links
  BY <1>2 DEF ResolveName, Resolvable
<1>3. CASE name # ".." /\ next \notin DOMAIN links
  <2>1. p \in Seq(Names) /\ Len(p) \in Nat
    BY LenProperties DEF Plain
  <2>2. /\ next \in Seq(Names) /\ Len(next) = Len(p) + 1
        /\ \A i \in 1..Len(p) : next[i] = p[i]
        /\ next[Len(p) + 1] = name
    <3>1. name \in Names /\ p \in Seq(Names)
      BY <2>1
    <3>2. /\ Append(p, name) \in Seq(Names) /\ Len(Append(p, name)) = Len(p) + 1
          /\ \A i \in 1..Len(p) : Append(p, name)[i] = p[i]
          /\ Append(p, name)[Len(p) + 1] = name
      BY <3>1, AppendProperties
    <3>3. QED
      BY <3>2
  <2> HIDE DEF next
  <2>3. \A i \in 1..Len(next) : next[i] # ".."
    <3> TAKE i \in 1..Len(next)
    <3>1. i \in 1..Len(p) \/ i = Len(p) + 1
      BY <2>1, <2>2
    <3>2. QED
      BY <1>3, <2>2, <3>1 DEF Plain
  <2>4. ASSUME NEW n \in 0..Len(next) PROVE SubSeq(next, 1, n) \notin DOMAIN links
    <3>1. CASE n = Len(next)
      BY <1>3, <2>2, <3>1, SubSeqFull
    <3>2. CASE n # Len(next)
      <4>1. n \in 0..Len(p)
        BY <2>1, <2>2, <3>2
      <4>2. /\ SubSeq(next, 1, n) \in Seq(Names) /\ Len(SubSeq(next, 1, n)) = n
            /\ \A i \in 1..n : SubSeq(next, 1, n)[i] = next[i]
        BY <2>2, PrefixIs
      <4>3. /\ SubSeq(p, 1, n) \in Seq(Names) /\ Len(SubSeq(p, 1, n)) = n
            /\ \A i \in 1..n : SubSeq(p, 1, n)[i] = p[i]
        BY <2>1, <4>1, PrefixIs
      <4>4. \A i \in 1..n : SubSeq(next, 1, n)[i] = SubSeq(p, 1, n)[i]
        BY <2>1, <2>2, <4>1, <4>2, <4>3
      <4>5. SubSeq(next, 1, n) = SubSeq(p, 1, n)
        BY <4>2, <4>3, <4>4, SeqEqual
      <4>6. QED
        BY <4>1, <4>5 DEF Plain
    <3>3. QED
      BY <3>1, <3>2
  <2>5. ResolveName(links, p, name) = next
    BY <1>3 DEF ResolveName, next
  <2>6. QED
    BY <2>2, <2>3, <2>4, <2>5 DEF Plain
<1>4. QED
  BY <1>1, <1>2, <1>3

-----------------------------------------------------------------------------
(* The places a path goes through, a name at a time                          *)
Walk(links, names, m, f) ==
    f = [i \in 0..m |-> IF i = 0 THEN Root ELSE ResolveName(links, f[i - 1], names[i])]

LEMMA WalkExists ==
    ASSUME NEW links, NEW names
    PROVE  \A m \in Nat : \E f : Walk(links, names, m, f)
<1> DEFINE T == {m \in Nat : \E f : Walk(links, names, m, f)}
<1>1. 0 \in T
  <2> DEFINE f == [i \in 0..0 |-> Root]
  <2>1. f = [i \in 0..0 |-> IF i = 0 THEN Root ELSE ResolveName(links, f[i - 1], names[i])]
    OBVIOUS
  <2>2. QED
    BY <2>1 DEF Walk
<1>2. ASSUME NEW m \in Nat, m \in T PROVE m + 1 \in T
  <2>1. PICK f : Walk(links, names, m, f)
    BY <1>2
  <2> DEFINE last == ResolveName(links, f[m], names[m + 1])
             g == [i \in 0..(m + 1) |-> IF i = m + 1 THEN last ELSE f[i]]
             at(i) == IF i = 0 THEN Root ELSE ResolveName(links, g[i - 1], names[i])
  <2>2. ASSUME NEW i \in 0..(m + 1) PROVE g[i] = at(i)
    <3>1. CASE i = m + 1
      <4>1. i # 0 /\ i - 1 = m /\ m \in 0..(m + 1) /\ m # m + 1
        BY <3>1
      <4>2. g[m] = f[m] /\ g[i] = last
        BY <3>1, <4>1
      <4> HIDE DEF g
      <4>3. QED
        BY <3>1, <4>1, <4>2
    <3>2. CASE i # m + 1
      <4>1. i \in 0..m /\ g[i] = f[i]
        BY <3>2
      <4>2. CASE i = 0
        <5>1. f[i] = Root
          BY <2>1, <4>1, <4>2 DEF Walk
        <5>2. QED
          BY <4>1, <4>2, <5>1
      <4>3. CASE i # 0
        <5>1. f[i] = ResolveName(links, f[i - 1], names[i])
          BY <2>1, <4>1, <4>3 DEF Walk
        <5>2. i - 1 \in 0..(m + 1) /\ i - 1 # m + 1
          BY <4>1, <4>3
        <5>3. g[i - 1] = f[i - 1]
          BY <5>2
        <5> HIDE DEF g
        <5>4. QED
          BY <4>1, <4>3, <5>1, <5>3
      <4>4. QED
        BY <4>2, <4>3
    <3>3. QED
      BY <3>1, <3>2
  <2>3. g = [i \in 0..(m + 1) |-> g[i]]
    OBVIOUS
  <2> HIDE DEF g
  <2>4. g = [i \in 0..(m + 1) |-> IF i = 0 THEN Root ELSE ResolveName(links, g[i - 1], names[i])]
    BY <2>2, <2>3
  <2>5. QED
    BY <2>4 DEF Walk
<1>3. \A m \in Nat : m \in T
  <2> HIDE DEF T
  <2>1. QED
    BY <1>1, <1>2, Induction
<1>4. QED
  BY <1>3

LEMMA CanonicalIs ==
    ASSUME NEW links, NEW names \in Seq(Names)
    PROVE  \E f : /\ Canonical(links, names) = f[Len(names)]
                  /\ f[0] = Root
                  /\ \A i \in 1..Len(names) : f[i] = ResolveName(links, f[i - 1], names[i])
<1>1. Len(names) \in Nat
  BY LenProperties
<1> DEFINE Goes(f) == f = [i \in 0..Len(names) |-> IF i = 0 THEN Root ELSE ResolveName(links, f[i - 1], names[i])]
           at == CHOOSE f : Goes(f)
<1>2. \E f : Goes(f)
  <2>1. PICK f : Walk(links, names, Len(names), f)
    BY <1>1, WalkExists
  <2>2. Goes(f)
    BY <2>1 DEF Walk
  <2> HIDE DEF Goes
  <2>3. QED
    BY <2>2
<1>3. Goes(at)
  <2> HIDE DEF Goes
  <2>1. QED
    BY <1>2
<1>4. Canonical(links, names) = at[Len(names)]
  BY DEF Canonical
<1> HIDE DEF at
<1>5. at[0] = Root
  BY <1>1, <1>3
<1>6. \A i \in 1..Len(names) : at[i] = ResolveName(links, at[i - 1], names[i])
  BY <1>1, <1>3
<1>7. QED
  BY <1>4, <1>5, <1>6

(* Wherever a path goes, it is at a place without links.                     *)
LEMMA CanonicalPlain ==
    ASSUME NEW links, Resolvable(links), NEW names \in Seq(Names)
    PROVE  Plain(links, Canonical(links, names))
<1>1. Len(names) \in Nat /\ \A i \in 1..Len(names) : names[i] \in Names
  BY LenProperties, ElementOfSeq
<1>2. PICK f : /\ Canonical(links, names) = f[Len(names)]
               /\ f[0] = Root
               /\ \A i \in 1..Len(names) : f[i] = ResolveName(links, f[i - 1], names[i])
  BY CanonicalIs
<1> DEFINE T == {i \in Nat : i <= Len(names) => Plain(links, f[i])}
<1>3. 0 \in T
  BY <1>2 DEF Resolvable
<1>4. ASSUME NEW i \in Nat, i \in T PROVE i + 1 \in T
  <2> SUFFICES ASSUME i + 1 <= Len(names) PROVE Plain(links, f[i + 1])
    OBVIOUS
  <2>1. i + 1 \in 1..Len(names) /\ (i + 1) - 1 = i /\ i <= Len(names)
    BY <1>1
  <2>2. f[i + 1] = ResolveName(links, f[i], names[i + 1]) /\ names[i + 1] \in Names
    BY <1>1, <1>2, <2>1
  <2>3. Plain(links, f[i])
    BY <1>4, <2>1
  <2>4. QED
    BY <2>2, <2>3, StepPlain
<1>5. \A i \in Nat : i \in T
  <2> HIDE DEF T
  <2>1. QED
    BY <1>3, <1>4, Induction
<1>6. QED
  BY <1>1, <1>2, <1>5

LEMMA RootIs == Len(Root) = 1 /\ Root # Refused
<1>1. Len(Root) = 1
  BY DEF Root
<1>2. Root # Refused
  <2>1. Root[1] = "w" /\ Refused[1] = "refused" /\ "w" # "refused"
    BY DEF Root, Refused
  <2>2. QED
    BY <2>1
<1>3. QED
  BY <1>1, <1>2

LEMMA AboveUnder ==
    ASSUME NEW p \in Seq(Names), Under(p, Root), NEW n \in 1..Len(p)
    PROVE  Under(SubSeq(p, 1, n), Root)
<1>1. Len(p) \in Nat /\ n \in 0..Len(p) /\ 1 \in 0..n /\ n >= 1
  BY LenProperties
<1>2. Len(SubSeq(p, 1, n)) = n /\ SubSeq(SubSeq(p, 1, n), 1, 1) = SubSeq(p, 1, 1)
  BY <1>1, PrefixIs
<1>3. SubSeq(Root, 1, 1) = SubSeq(p, 1, 1)
  BY RootIs DEF Under, IsPrefix
<1>4. QED
  BY <1>1, <1>2, <1>3, RootIs DEF Under, IsPrefix

(* A path that is not refused leads to a place in the workspace, without     *)
(* links.                                                                    *)
LEMMA ResolvedIs ==
    ASSUME NEW fs, IsTree(fs), NEW request, IsPathRequest(request)
    PROVE  LET place == ResolvePath(fs, request)
           IN place # Refused =>
                /\ Plain(fs.links, place) /\ Under(place, Root)
                /\ place = Canonical(fs.links, request.names)
<1>1. Plain(fs.links, Canonical(fs.links, request.names))
  BY CanonicalPlain DEF IsTree, IsPathRequest
<1>2. QED
  BY <1>1 DEF ResolvePath

LEMMA ParentIs ==
    ASSUME NEW p \in Seq(Names)
    PROVE  /\ Parent(p) \in Seq(Names)
           /\ \A q \in Ancestors(Parent(p)) :
                q = <<>> \/ \E n \in 1..Len(p) : q = SubSeq(p, 1, n)
           /\ Parent(p) \in Ancestors(Parent(p))
<1>1. Len(p) \in Nat
  BY LenProperties
<1>2. CASE p = <<>>
  <2>1. Parent(p) = <<>> /\ Len(p) = 0
    BY <1>2, EmptySeq DEF Parent
  <2>2. \A n \in 0..0 : SubSeq(<<>>, 1, n) = <<>>
    <3> TAKE n \in 0..0
    <3>1. SubSeq(p, 1, n) \in Seq(Names) /\ Len(SubSeq(p, 1, n)) = 0
      BY <2>1, PrefixIs
    <3>2. QED
      BY <1>2, <3>1, EmptySeq
  <2>3. Ancestors(Parent(p)) = {<<>>}
    <3>1. Ancestors(p) = {SubSeq(p, 1, n) : n \in 0..0}
      BY <2>1 DEF Ancestors
    <3>2. \A n \in 0..0 : SubSeq(p, 1, n) = <<>>
      BY <1>2, <2>2
    <3>3. 0 \in 0..0
      OBVIOUS
    <3>4. Ancestors(p) = {<<>>}
      BY <3>1, <3>2, <3>3
    <3>5. QED
      BY <1>2, <2>1, <3>4
  <2>4. QED
    BY <1>2, <2>1, <2>3
<1>3. CASE p # <<>>
  <2> DEFINE k == Len(p) - 1
             q == SubSeq(p, 1, k)
  <2>1. k \in 0..Len(p)
    BY <1>1, <1>3, EmptySeq
  <2>2. Parent(p) = q
    BY <1>3 DEF Parent, Front
  <2>3. /\ q \in Seq(Names) /\ Len(q) = k
        /\ \A m \in 0..k : SubSeq(q, 1, m) = SubSeq(p, 1, m)
    BY <2>1, PrefixIs
  <2>4. ASSUME NEW r \in Ancestors(q)
        PROVE  r = <<>> \/ \E n \in 1..Len(p) : r = SubSeq(p, 1, n)
    <3>1. PICK n \in 0..k : r = SubSeq(q, 1, n)
      BY <2>3 DEF Ancestors
    <3>2. r = SubSeq(p, 1, n)
      BY <2>3, <3>1
    <3>3. CASE n = 0
      <4>1. r \in Seq(Names) /\ Len(r) = 0
        BY <2>1, <3>2, <3>3, PrefixIs
      <4>2. QED
        BY <4>1, EmptySeq
    <3>4. CASE n # 0
      <4>1. n \in 1..Len(p)
        BY <2>1, <3>4, <1>1
      <4>2. QED
        BY <3>2, <4>1
    <3>5. QED
      BY <3>3, <3>4
  <2>5. q \in Ancestors(q)
    <3>1. q = SubSeq(q, 1, Len(q)) /\ Len(q) \in 0..Len(q)
      BY <2>1, <2>3, SubSeqFull
    <3> HIDE DEF q
    <3>2. QED
      BY <3>1 DEF Ancestors
  <2> HIDE DEF q
  <2>6. QED
    BY <2>2, <2>3, <2>4, <2>5
<1>4. QED
  BY <1>2, <1>3

(* A write that is refused leaves every file as it was; one that is not puts *)
(* the content at the place the path leads to, and makes its parents.        *)
LEMMA WriteIs ==
    ASSUME NEW fs, IsTree(fs), NEW request, IsPathRequest(request), NEW content,
           NEW createParents
    PROVE  LET w == WriteText(fs, request, content, createParents)
               place == ResolvePath(fs, request)
           IN /\ w.fs.links = fs.links
              /\ w.fs.dirs = fs.dirs \/ (place # Refused /\ w.fs.dirs = fs.dirs \cup Ancestors(Parent(place)))
              /\ \/ ~w.ok /\ w.changed = {} /\ w.fs.files = fs.files
                 \/ /\ w.ok /\ w.changed = {place} /\ place # Refused
                    /\ place \notin w.fs.dirs /\ Parent(place) \in w.fs.dirs
                    /\ w.fs.files = [p \in DOMAIN fs.files \cup {place} |-> IF p = place THEN content ELSE fs.files[p]]
<1> DEFINE place == ResolvePath(fs, request)
           parent == Parent(place)
           grown == IF PathExists(fs, parent) THEN fs ELSE [fs EXCEPT !.dirs = @ \cup Ancestors(parent)]
           again == ResolvePath(grown, request)
           files == [p \in DOMAIN fs.files \cup {place} |-> IF p = place THEN content ELSE fs.files[p]]
           w == WriteText(fs, request, content, createParents)
<1>1. /\ grown.links = fs.links /\ grown.files = fs.files
      /\ grown = [dirs |-> grown.dirs, files |-> grown.files, links |-> grown.links]
      /\ grown.dirs = IF PathExists(fs, parent) THEN fs.dirs ELSE fs.dirs \cup Ancestors(parent)
  <2> HIDE DEF parent
  <2>1. fs = [dirs |-> fs.dirs, files |-> fs.files, links |-> fs.links]
    BY DEF IsTree
  <2>2. QED
    BY <2>1
<1>2. again = place
  BY <1>1 DEF ResolvePath
<1> DEFINE written == [grown EXCEPT !.files = [p \in DOMAIN @ \cup {again} |-> IF p = again THEN content ELSE @[p]]]
<1>3. w = IF content.size > WriteLimit \/ place = Refused THEN NoWrite(fs)
          ELSE IF ~PathExists(fs, parent) /\ (~createParents \/ Ancestors(parent) \cap DOMAIN fs.files # {}) THEN NoWrite(fs)
          ELSE IF parent \in DOMAIN fs.files \/ again \in fs.dirs THEN NoWrite(grown)
          ELSE [ok |-> TRUE, fs |-> written, changed |-> {again}]
  BY DEF WriteText
<1>4. written.links = fs.links /\ written.files = files /\ written.dirs = grown.dirs
  <2> HIDE DEF grown, again, place
  <2>1. QED
    BY <1>1, <1>2
<1>5. /\ NoWrite(fs).ok = FALSE /\ NoWrite(fs).changed = {} /\ NoWrite(fs).fs = fs
      /\ NoWrite(grown).ok = FALSE /\ NoWrite(grown).changed = {} /\ NoWrite(grown).fs = grown
  BY DEF NoWrite
<1>6. parent \in Ancestors(parent) \/ place = Refused
  <2>1. CASE place # Refused
    <3>1. place \in Seq(Names)
      BY <2>1, ResolvedIs DEF Plain
    <3>2. QED
      BY <3>1, ParentIs
  <2>2. QED
    BY <2>1
<1>7. place # Refused /\ parent \notin DOMAIN fs.files => parent \in grown.dirs
  BY <1>1, <1>6 DEF PathExists
<1>8. place # Refused /\ place \notin fs.dirs => place \notin grown.dirs
  <2> SUFFICES ASSUME place # Refused, place \in Ancestors(parent) PROVE FALSE
    BY <1>1
  <2>1. place \in Seq(Names) /\ Len(place) \in Nat
    BY ResolvedIs, LenProperties DEF Plain
  <2>2. place # <<>>
    BY ResolvedIs, RootIs, EmptySeq DEF Under, IsPrefix
  <2>3. parent = SubSeq(place, 1, Len(place) - 1) /\ Len(place) - 1 \in 0..Len(place)
    <3>1. parent = Front(place)
      BY <2>2 DEF Parent
    <3>2. Len(place) # 0
      BY <2>1, <2>2, EmptySeq
    <3>3. QED
      BY <2>1, <3>1, <3>2 DEF Front
  <2>4. parent \in Seq(Names) /\ Len(parent) = Len(place) - 1
    BY <2>1, <2>3, PrefixIs
  <2> HIDE DEF parent
  <2>5. PICK n \in 0..Len(parent) : place = SubSeq(parent, 1, n)
    BY DEF Ancestors
  <2>6. Len(SubSeq(parent, 1, n)) = n
    BY <2>4, <2>5, PrefixIs
  <2>7. QED
    BY <2>1, <2>4, <2>5, <2>6
<1> HIDE DEF w, written, grown, again, files, place, parent
<1>9. CASE w = NoWrite(fs)
  BY <1>5, <1>9 DEF w, place
<1>10. CASE w = NoWrite(grown) /\ place # Refused
  BY <1>1, <1>5, <1>10 DEF w, place, parent
<1>11. CASE /\ w = [ok |-> TRUE, fs |-> written, changed |-> {again}]
            /\ place # Refused /\ parent \notin DOMAIN fs.files /\ again \notin fs.dirs
  <2>1. w.ok /\ w.fs = written /\ w.changed = {place}
    BY <1>2, <1>11
  <2>2. w.fs.links = fs.links /\ w.fs.files = files /\ w.fs.dirs = grown.dirs
    BY <1>4, <2>1
  <2>3. place \notin w.fs.dirs /\ parent \in w.fs.dirs
    BY <1>2, <1>7, <1>8, <1>11, <2>2
  <2>4. w.fs.dirs = fs.dirs \/ w.fs.dirs = fs.dirs \cup Ancestors(parent)
    BY <1>1, <2>2
  <2>5. QED
    BY <1>11, <2>1, <2>2, <2>3, <2>4 DEF w, place, parent, files
<1>12. QED
  BY <1>2, <1>3, <1>9, <1>10, <1>11

(* StaysInWorkspace, for every file tree whose links lead to places without  *)
(* links, and every request: no operation reaches a place outside the        *)
(* workspace, however its path goes up and through links.                    *)
THEOREM WorkspaceIsKept ==
    ASSUME NEW fs, IsTree(fs), NEW request, IsPathRequest(request), NEW content,
           NEW createParents, NEW recursive
    PROVE  StaysInWorkspace(fs, request, content, createParents, recursive)
<1> DEFINE w == WriteText(fs, request, content, createParents)
           place == ResolvePath(fs, request)
           listed == ListFiles(fs, request, recursive)
<1>1. /\ w.fs.dirs = fs.dirs \/ (place # Refused /\ w.fs.dirs = fs.dirs \cup Ancestors(Parent(place)))
      /\ \/ w.changed = {} /\ w.fs.files = fs.files
         \/ /\ w.changed = {place} /\ place # Refused
            /\ w.fs.files = [p \in DOMAIN fs.files \cup {place} |-> IF p = place THEN content ELSE fs.files[p]]
  BY WriteIs
<1>2. place # Refused => place \in Seq(Names) /\ Under(place, Root)
  BY ResolvedIs DEF Plain
<1>3. \A p \in DOMAIN w.fs.files : (p \notin DOMAIN fs.files \/ w.fs.files[p] # fs.files[p]) => p \in w.changed
  <2> HIDE DEF w, place
  <2>1. QED
    BY <1>1
<1>4. \A p \in w.changed \cup (w.fs.dirs \ fs.dirs) : Under(p, Root)
  <2> TAKE p \in w.changed \cup (w.fs.dirs \ fs.dirs)
  <2> HIDE DEF w, place
  <2>1. CASE p \in w.changed
    BY <1>1, <1>2, <2>1
  <2>2. CASE p \in w.fs.dirs \ fs.dirs
    <3>1. place # Refused /\ p \in Ancestors(Parent(place)) /\ p # <<>>
      BY <1>1, <2>2 DEF IsTree
    <3>2. PICK n \in 1..Len(place) : p = SubSeq(place, 1, n)
      BY <1>2, <3>1, ParentIs
    <3>3. QED
      BY <1>2, <3>1, <3>2, AboveUnder
  <2>3. QED
    BY <2>1, <2>2
<1>5. \A p \in listed : Under(p, Root) /\ p \notin DOMAIN fs.links
  <2> TAKE p \in listed
  <2> DEFINE again(q) == [absolute |-> FALSE, names |-> SubSeq(q, 2, Len(q))]
  <2>1. PICK q \in EntriesBelow(fs, place, recursive) :
            p = ResolvePath(fs, again(q)) /\ p # Refused
    BY DEF ListFiles
  <2>2. IsPathRequest(again(q))
    <3>1. q \in Seq(Names)
      BY <2>1 DEF EntriesBelow, IsTree
    <3>2. SubSeq(q, 2, Len(q)) \in Seq(Names)
      <4>1. Len(q) \in Nat /\ \A i \in 2..Len(q) : q[i] \in Names
        BY <3>1, LenProperties, ElementOfSeq
      <4>2. 2 \in Int /\ Len(q) \in Int
        BY <4>1
      <4>3. QED
        BY <4>1, <4>2, SubSeqProperties
    <3>3. QED
      BY <3>2 DEF IsPathRequest
  <2> HIDE DEF again
  <2>3. Plain(fs.links, p) /\ Under(p, Root)
    BY <2>1, <2>2, ResolvedIs
  <2>4. p \notin DOMAIN fs.links
    <3>1. p \in Seq(Names) /\ Len(p) \in Nat /\ SubSeq(p, 1, Len(p)) = p
      BY <2>3, LenProperties, SubSeqFull DEF Plain
    <3>2. Len(p) \in 0..Len(p)
      BY <3>1
    <3>3. QED
      BY <2>3, <3>1, <3>2 DEF Plain
  <2>5. QED
    BY <2>3, <2>4
<1>6. ReadText(fs, request) # {} => Under(Canonical(fs.links, request.names), Root)
  <2> SUFFICES ASSUME ReadText(fs, request) # {} PROVE Under(Canonical(fs.links, request.names), Root)
    OBVIOUS
  <2>1. place \in DOMAIN fs.files
    BY DEF ReadText
  <2>2. place # Refused
    BY <2>1 DEF IsTree
  <2>3. QED
    BY <2>2, ResolvedIs
<1>7. QED
  BY <1>3, <1>4, <1>5, <1>6 DEF StaysInWorkspace

(* From a place without links, the next name of a path of such places leads  *)
(* one further along it, so a path read again name by name is that path.     *)
LEMMA StepAlong ==
    ASSUME NEW links, NEW p, Plain(links, p), NEW k \in Nat, k + 1 \in 1..Len(p)
    PROVE  ResolveName(links, SubSeq(p, 1, k), p[k + 1]) = SubSeq(p, 1, k + 1)
<1>1. p \in Seq(Names) /\ Len(p) \in Nat /\ \A i \in 1..Len(p) : p[i] \in Names
  BY LenProperties, ElementOfSeq DEF Plain
<1> DEFINE q == SubSeq(p, 1, k)
           r == SubSeq(p, 1, k + 1)
           name == p[k + 1]
           next == Append(q, name)
<1>2. k \in 0..Len(p) /\ k + 1 \in 0..Len(p) /\ name \in Names
  BY <1>1
<1>3. q \in Seq(Names) /\ Len(q) = k /\ \A i \in 1..k : q[i] = p[i]
  BY <1>1, <1>2, PrefixIs
<1>4. r \in Seq(Names) /\ Len(r) = k + 1 /\ \A i \in 1..(k + 1) : r[i] = p[i]
  BY <1>1, <1>2, PrefixIs
<1>5. name # ".." /\ r \notin DOMAIN links
  BY <1>2 DEF Plain
<1> HIDE DEF q, r, name
<1>6. /\ next \in Seq(Names) /\ Len(next) = k + 1
      /\ \A i \in 1..k : next[i] = q[i]
      /\ next[k + 1] = name
  BY <1>2, <1>3, AppendProperties
<1> HIDE DEF next
<1>7. \A i \in 1..(k + 1) : next[i] = r[i]
  <2> TAKE i \in 1..(k + 1)
  <2>1. i \in 1..k \/ i = k + 1
    OBVIOUS
  <2>2. k + 1 \in 1..(k + 1) /\ r[k + 1] = name
    BY <1>4 DEF name
  <2>3. QED
    BY <1>3, <1>4, <1>6, <2>1, <2>2
<1>8. next = r
  BY <1>4, <1>6, <1>7, SeqEqual
<1>9. ResolveName(links, q, name) = r
  BY <1>5, <1>8 DEF ResolveName, next
<1>10. QED
  BY <1>9 DEF q, r, name

LEMMA Replayed ==
    ASSUME NEW links, Resolvable(links), NEW p, Plain(links, p), Under(p, Root),
           NEW m \in 1..Len(p)
    PROVE  /\ SubSeq(p, 2, m) \in Seq(Names)
           /\ Canonical(links, SubSeq(p, 2, m)) = SubSeq(p, 1, m)
<1>1. p \in Seq(Names) /\ Len(p) \in Nat /\ \A i \in 1..Len(p) : p[i] \in Names
  BY LenProperties, ElementOfSeq DEF Plain
<1> DEFINE names == SubSeq(p, 2, m)
<1>2. /\ names \in Seq(Names) /\ Len(names) = m - 1
      /\ \A i \in 1..(m - 1) : names[i] = p[i + 1]
  <2>1. 2 \in Int /\ m \in Int /\ \A i \in 2..m : p[i] \in Names
    BY <1>1
  <2>2. /\ names \in Seq(Names)
        /\ Len(names) = IF 2 <= m THEN m - 2 + 1 ELSE 0
        /\ \A i \in 1..(m - 2 + 1) : names[i] = p[2 + i - 1]
    BY <2>1, SubSeqProperties
  <2>3. m - 2 + 1 = m - 1 /\ (~(2 <= m) => m - 1 = 0) /\ \A i \in 1..(m - 1) : 2 + i - 1 = i + 1
    BY <1>1
  <2> HIDE DEF names
  <2>4. Len(names) = m - 1
    BY <2>2, <2>3
  <2>5. QED
    BY <2>2, <2>3, <2>4
<1> HIDE DEF names
<1>3. PICK f : /\ Canonical(links, names) = f[Len(names)]
               /\ f[0] = Root
               /\ \A i \in 1..Len(names) : f[i] = ResolveName(links, f[i - 1], names[i])
  <2>1. names \in Seq(Names)
    BY <1>2
  <2>2. QED
    BY <2>1, CanonicalIs
<1> DEFINE T == {i \in Nat : i <= m - 1 => f[i] = SubSeq(p, 1, i + 1)}
<1>4. 0 \in T
  <2>1. Root \in Seq(Names)
    BY DEF Resolvable, Plain
  <2>2. SubSeq(Root, 1, 1) = SubSeq(p, 1, 1) /\ SubSeq(Root, 1, 1) = Root
    BY <2>1, RootIs, SubSeqFull DEF Under, IsPrefix
  <2>3. QED
    BY <1>3, <2>2
<1>5. ASSUME NEW i \in Nat, i \in T PROVE i + 1 \in T
  <2> SUFFICES ASSUME i + 1 <= m - 1 PROVE f[i + 1] = SubSeq(p, 1, i + 1 + 1)
    OBVIOUS
  <2>1. i + 1 \in 1..(m - 1) /\ (i + 1) - 1 = i /\ i <= m - 1 /\ i + 1 \in Nat /\ i + 1 + 1 \in 1..Len(p)
    BY <1>1
  <2>2. f[i + 1] = ResolveName(links, f[i], p[i + 1 + 1])
    BY <1>2, <1>3, <2>1
  <2>3. f[i] = SubSeq(p, 1, i + 1)
    BY <1>5, <2>1
  <2>4. QED
    BY <2>1, <2>2, <2>3, StepAlong
<1>6. \A i \in Nat : i \in T
  <2> HIDE DEF T
  <2>1. QED
    BY <1>4, <1>5, Induction
<1>7. f[m - 1] = SubSeq(p, 1, m)
  <2>1. m - 1 \in Nat /\ m - 1 + 1 = m
    BY <1>1
  <2>2. QED
    BY <1>6, <2>1
<1>8. QED
  BY <1>2, <1>3, <1>7 DEF names

(* WrittenIsRead, for every such file tree and every request: what a write   *)
(* put in place is what the same path then reads, and its directory lists it. *)
THEOREM WhatIsWrittenIsRead ==
    ASSUME NEW fs, IsTree(fs), NEW request, IsPathRequest(request), NEW content,
           NEW createParents
    PROVE  WrittenIsRead(fs, request, content, createParents)
<1> DEFINE w == WriteText(fs, request, content, createParents)
           place == ResolvePath(fs, request)
           k == Len(place) - 1
           parent == SubSeq(place, 1, k)
           folder == [absolute |-> FALSE, names |-> SubSeq(place, 2, k)]
           itself == [absolute |-> FALSE, names |-> SubSeq(place, 2, Len(place))]
<1>0. /\ w.fs.links = fs.links
      /\ w.ok => /\ fs.dirs \subseteq w.fs.dirs
                 /\ place # Refused /\ place \notin w.fs.dirs /\ Parent(place) \in w.fs.dirs
                 /\ w.fs.files = [p \in DOMAIN fs.files \cup {place} |-> IF p = place THEN content ELSE fs.files[p]]
  BY WriteIs
<1> SUFFICES ASSUME w.ok
             PROVE  /\ ReadText(w.fs, request) = IF content.size <= ReadLimit /\ content.text THEN {content} ELSE {}
                    /\ place \in ListFiles(w.fs, folder, FALSE)
  <2>1. ResolvePath(w.fs, request) = place
    <3> HIDE DEF w
    <3>1. QED
      BY <1>0 DEF ResolvePath
  <2> HIDE DEF w, place
  <2>2. QED
    BY <2>1 DEF WrittenIsRead, w
<1>1. /\ w.fs.links = fs.links /\ fs.dirs \subseteq w.fs.dirs
      /\ place # Refused /\ place \notin w.fs.dirs /\ Parent(place) \in w.fs.dirs
      /\ w.fs.files = [p \in DOMAIN fs.files \cup {place} |-> IF p = place THEN content ELSE fs.files[p]]
  BY <1>0
<1>2. Plain(fs.links, place) /\ Under(place, Root) /\ Resolvable(fs.links)
  BY <1>1, ResolvedIs DEF IsTree
<1>3. place \in DOMAIN w.fs.files /\ w.fs.files[place] = content
  <2> HIDE DEF w, place
  <2>1. QED
    BY <1>1
<1>4. \A q : ResolvePath(w.fs, q) = ResolvePath(fs, q)
  <2> HIDE DEF w
  <2>1. QED
    BY <1>1 DEF ResolvePath
<1>5. ReadText(w.fs, request) = IF content.size <= ReadLimit /\ content.text THEN {content} ELSE {}
  <2>1. ResolvePath(w.fs, request) = place
    BY <1>4
  <2> HIDE DEF w, place
  <2>2. {w.fs.files[p] : p \in {place} \cap DOMAIN w.fs.files} = {content}
    BY <1>3
  <2>3. ReadText(w.fs, request) = {c \in {content} : c.size <= ReadLimit /\ c.text}
    BY <2>1, <2>2 DEF ReadText
  <2>4. QED
    BY <2>3
<1> HIDE DEF place
<1>6. place \in Seq(Names) /\ Len(place) \in Nat /\ k \in 1..Len(place) /\ place # <<>>
  <2>1. place \in Seq(Names) /\ Len(place) \in Nat /\ Len(place) >= 1
    BY <1>2, RootIs, LenProperties DEF Plain, Under, IsPrefix
  <2>2. place # Root
    BY <1>1 DEF IsTree
  <2>3. Root \in Seq(Names)
    BY <1>2 DEF Resolvable, Plain
  <2>4. Len(place) # 1
    <3> SUFFICES ASSUME Len(place) = 1 PROVE FALSE
      OBVIOUS
    <3>1. SubSeq(Root, 1, 1) = SubSeq(place, 1, 1)
      BY <1>2, RootIs DEF Under, IsPrefix
    <3>2. SubSeq(Root, 1, 1) = Root /\ SubSeq(place, 1, 1) = place
      BY <2>1, <2>3, RootIs, SubSeqFull
    <3>3. QED
      BY <2>2, <3>1, <3>2
  <2>5. place # <<>>
    BY <2>1, EmptySeq
  <2>6. k \in 1..Len(place)
    <3>1. Len(place) \in Nat /\ Len(place) >= 1 /\ Len(place) # 1
      BY <2>1, <2>4
    <3>2. \A n \in Nat : n >= 1 /\ n # 1 => n - 1 \in 1..n
      OBVIOUS
    <3>3. QED
      BY <3>1, <3>2
  <2>7. QED
    BY <2>1, <2>5, <2>6
<1>7. parent = Parent(place)
  BY <1>6 DEF Parent, Front
<1>8. /\ Len(parent) = k /\ SubSeq(parent, 1, k) = parent /\ Under(parent, Root)
  <2>1. k \in 0..Len(place) /\ k \in 0..k
    BY <1>6
  <2>2. Len(parent) = k /\ SubSeq(parent, 1, k) = SubSeq(place, 1, k)
    BY <1>6, <2>1, PrefixIs
  <2>3. QED
    BY <1>2, <1>6, <2>2, AboveUnder
<1>9. ResolvePath(w.fs, folder) = parent
  <2>1. Canonical(fs.links, SubSeq(place, 2, k)) = parent
    BY <1>2, <1>6, Replayed
  <2> HIDE DEF parent
  <2>2. ResolvePath(fs, folder) = parent
    BY <1>8, <2>1 DEF ResolvePath
  <2>3. QED
    BY <1>4, <2>2
<1>10. ResolvePath(w.fs, itself) = place
  <2>1. Len(place) \in 1..Len(place) /\ SubSeq(place, 1, Len(place)) = place
    BY <1>6, SubSeqFull
  <2>2. Canonical(fs.links, SubSeq(place, 2, Len(place))) = place
    BY <1>2, <2>1, Replayed
  <2>3. ResolvePath(fs, itself) = place
    BY <1>2, <2>2 DEF ResolvePath
  <2>4. QED
    BY <1>4, <2>3
<1>11. place \in EntriesBelow(w.fs, parent, FALSE)
  <2>1. place # parent
    <3>1. Len(place) # k
      BY <1>6
    <3> HIDE DEF parent
    <3>2. QED
      BY <1>8, <3>1
  <2>2. Under(place, parent)
    BY <1>6, <1>8 DEF Under, IsPrefix
  <2> HIDE DEF parent, w
  <2>3. QED
    BY <1>3, <1>7, <2>1, <2>2 DEF EntriesBelow
<1>12. parent \in w.fs.dirs
  BY <1>1, <1>7
<1>13. place \in ListFiles(w.fs, folder, FALSE)
  <2> HIDE DEF w, parent, folder
  <2>1. QED
    BY <1>1, <1>9, <1>10, <1>11, <1>12 DEF ListFiles
<1>14. QED
  BY <1>5, <1>13

-----------------------------------------------------------------------------
(* Attempts at an authentication endpoint                                    *)

LEMMA UnionCardinality ==
    ASSUME NEW S, NEW T, IsFiniteSet(S), IsFiniteSet(T)
    PROVE  /\ IsFiniteSet(S \cup T) /\ Cardinality(S \cup T) <= Cardinality(S) + Cardinality(T)
           /\ Cardinality(S) \in Nat /\ Cardinality(T) \in Nat
<1> DEFINE a == Cardinality(S)
           b == Cardinality(T)
<1>1. a \in Nat /\ b \in Nat /\ ExistsBijection(1..a, S) /\ ExistsBijection(1..b, T)
  BY FS_CardinalityType
<1>2. PICK f \in Bijection(1..a, S) : TRUE
  BY <1>1 DEF ExistsBijection
<1>3. PICK g \in Bijection(1..b, T) : TRUE
  BY <1>1 DEF ExistsBijection
<1> HIDE DEF a, b
<1>4. /\ \A x \in S : \E i \in 1..a : f[i] = x
      /\ \A x \in T : \E i \in 1..b : g[i] = x
  BY <1>2, <1>3 DEF Bijection, Surjection
<1> DEFINE h == [x \in S \cup T |-> IF x \in S THEN CHOOSE i \in 1..a : f[i] = x
                                    ELSE a + CHOOSE i \in 1..b : g[i] = x]
<1>5. \A x \in S : h[x] \in 1..a /\ f[h[x]] = x
  BY <1>4
<1>6. \A x \in T \ S : h[x] - a \in 1..b /\ g[h[x] - a] = x /\ h[x] \in Int
  <2> TAKE x \in T \ S
  <2> DEFINE i == CHOOSE i \in 1..b : g[i] = x
  <2>1. i \in 1..b /\ g[i] = x
    BY <1>4
  <2>2. h[x] = a + i
    OBVIOUS
  <2> HIDE DEF i, h
  <2>3. QED
    BY <1>1, <2>1, <2>2
<1>7. DOMAIN h = S \cup T /\ h = [x \in S \cup T |-> h[x]]
  OBVIOUS
<1> HIDE DEF h
<1>8. h \in [S \cup T -> 1..(a + b)]
  <2>1. ASSUME NEW x \in S \cup T PROVE h[x] \in 1..(a + b)
    <3>1. CASE x \in S
      BY <1>1, <1>5, <3>1
    <3>2. CASE x \in T \ S
      <4>1. h[x] - a \in 1..b /\ h[x] \in Int
        BY <1>6, <3>2
      <4>2. QED
        BY <1>1, <4>1
    <3>3. QED
      BY <3>1, <3>2
  <2>2. QED
    BY <1>7, <2>1
<1>9. ASSUME NEW x \in S \cup T, NEW y \in S \cup T, h[x] = h[y] PROVE x = y
  <2>1. CASE x \in S /\ y \in S
    BY <1>5, <1>9, <2>1
  <2>2. CASE x \in T \ S /\ y \in T \ S
    BY <1>6, <1>9, <2>2
  <2>3. CASE x \in S /\ y \in T \ S
    BY <1>1, <1>5, <1>6, <1>9, <2>3
  <2>4. CASE x \in T \ S /\ y \in S
    BY <1>1, <1>5, <1>6, <1>9, <2>4
  <2>5. QED
    BY <2>1, <2>2, <2>3, <2>4
<1>10. h \in Injection(S \cup T, 1..(a + b))
  BY <1>8, <1>9 DEF Injection, IsInjective
<1>11. IsFiniteSet(1..(a + b)) /\ Cardinality(1..(a + b)) = a + b
  <2>1. 1 \in Int /\ a + b \in Int /\ (1 > a + b => a + b = 0) /\ a + b - 1 + 1 = a + b
    BY <1>1
  <2>2. QED
    BY <2>1, FS_Interval
<1>12. QED
  BY <1>1, <1>10, <1>11, FS_Injection DEF a, b

(* What a check keeps of a window: its end, without the times that are too   *)
(* old, and its own time when it lets the attempt pass.                      *)
LEMMA CheckIs ==
    ASSUME NEW hits \in Seq(Int), NEW now \in Int, RateLimit \in Nat, Window \in Int
    PROVE  LET c == Check(hits, now)
           IN \E d \in 0..Len(hits) :
                /\ \A p \in 1..d : now - hits[p] > Window
                /\ d < Len(hits) => now - hits[d + 1] <= Window
                /\ c.hits \in Seq(Int)
                /\ \A p \in 1..(Len(hits) - d) : c.hits[p] = hits[p + d]
                /\ \/ /\ c.allowed /\ Len(hits) - d < RateLimit
                      /\ Len(c.hits) = Len(hits) - d + 1 /\ c.hits[Len(hits) - d + 1] = now
                   \/ /\ ~c.allowed /\ Len(hits) - d >= RateLimit
                      /\ Len(c.hits) = Len(hits) - d
<1>1. Len(hits) \in Nat /\ \A p \in 1..Len(hits) : hits[p] \in Int
  BY LenProperties, ElementOfSeq
<1> DEFINE young == {i \in 1..Len(hits) : now - hits[i] <= Window}
           tail == IF young = {} THEN <<>> ELSE SubSeq(hits, Min(young), Len(hits))
           n == Len(hits)
<1>2. \E d \in 0..n :
         /\ \A p \in 1..d : now - hits[p] > Window
         /\ d < n => now - hits[d + 1] <= Window
         /\ tail \in Seq(Int) /\ Len(tail) = n - d
         /\ \A p \in 1..(n - d) : tail[p] = hits[p + d]
  <2>1. CASE young = {}
    <3>1. tail = <<>> /\ \A p \in 1..n : ~(now - hits[p] <= Window)
      BY <2>1
    <3>2. \A p \in 1..n : now - hits[p] > Window
      <4> TAKE p \in 1..n
      <4>1. ~(now - hits[p] <= Window) /\ hits[p] \in Int
        BY <1>1, <3>1
      <4>2. QED
        BY <4>1
    <3>3. n \in 0..n /\ n - n = 0 /\ ~(n < n) /\ 1..0 = {}
      BY <1>1
    <3>4. tail \in Seq(Int) /\ Len(tail) = 0
      BY <3>1, EmptySeq
    <3> HIDE DEF tail, n
    <3>5. QED
      BY <3>2, <3>3, <3>4
  <2>2. CASE young # {}
    <3> DEFINE m == Min(young)
    <3>1. young \in SUBSET Nat
      BY <1>1
    <3>2. m \in young /\ \A i \in young : m <= i
      BY <2>2, <3>1, LeastIs
    <3>3. m \in 1..n /\ now - hits[m] <= Window /\ m - 1 \in 0..n /\ (m - 1) + 1 = m
      BY <1>1, <3>2
    <3>4. \A p \in 1..(m - 1) : now - hits[p] > Window
      <4> TAKE p \in 1..(m - 1)
      <4>1. p \in 1..n /\ ~(m <= p)
        BY <1>1, <3>3
      <4>2. p \notin young /\ hits[p] \in Int
        BY <1>1, <3>2, <4>1
      <4> HIDE DEF m
      <4>3. QED
        BY <4>1, <4>2
    <3> HIDE DEF m, young
    <3>5. SubSeq(hits, m, n) \in Seq(Int)
          /\ Len(SubSeq(hits, m, n)) = n - (m - 1)
          /\ \A p \in 1..(n - (m - 1)) : SubSeq(hits, m, n)[p] = hits[p + (m - 1)]
      <4>1. m \in Int /\ n \in Int /\ \A i \in m..n : hits[i] \in Int
        BY <1>1, <3>3
      <4> HIDE DEF n
      <4>2. /\ SubSeq(hits, m, n) \in Seq(Int)
            /\ Len(SubSeq(hits, m, n)) = IF m <= n THEN n - m + 1 ELSE 0
            /\ \A p \in 1..(n - m + 1) : SubSeq(hits, m, n)[p] = hits[m + p - 1]
        BY <4>1, SubSeqProperties
      <4>3. m <= n /\ n - m + 1 = n - (m - 1) /\ \A p \in 1..(n - (m - 1)) : m + p - 1 = p + (m - 1)
        <5>1. n \in Nat /\ m \in 1..n
          BY <1>1, <3>3 DEF n
        <5>2. QED
          BY <5>1
      <4> DEFINE sub == SubSeq(hits, m, n)
      <4> HIDE DEF sub
      <4>4. Len(sub) = n - (m - 1)
        BY <4>2, <4>3 DEF sub
      <4>5. QED
        BY <4>2, <4>3, <4>4 DEF sub
    <3>6. tail = SubSeq(hits, m, n)
      BY <2>2 DEF m
    <3> HIDE DEF tail, n
    <3> DEFINE d == m - 1
    <3>7. d \in 0..n /\ (d < n => now - hits[d + 1] <= Window)
      BY <3>3
    <3> HIDE DEF d
    <3>8. QED
      BY <3>4, <3>5, <3>6, <3>7 DEF d
  <2>3. QED
    BY <2>1, <2>2
<1>3. PICK d \in 0..n :
         /\ \A p \in 1..d : now - hits[p] > Window
         /\ d < n => now - hits[d + 1] <= Window
         /\ tail \in Seq(Int) /\ Len(tail) = n - d
         /\ \A p \in 1..(n - d) : tail[p] = hits[p + d]
  BY <1>2
<1> DEFINE c == Check(hits, now)
<1>4. c = IF Len(tail) >= RateLimit THEN [allowed |-> FALSE, hits |-> tail]
          ELSE [allowed |-> TRUE, hits |-> Append(tail, now)]
  BY DEF Check
<1> HIDE DEF tail, n, c
<1>5. n - d \in Nat
  BY <1>1, <1>3 DEF n
<1>6. /\ Append(tail, now) \in Seq(Int) /\ Len(Append(tail, now)) = n - d + 1
      /\ Append(tail, now)[n - d + 1] = now
      /\ \A p \in 1..(n - d) : Append(tail, now)[p] = tail[p]
  BY <1>3, AppendProperties
<1>7. CASE n - d >= RateLimit
  <2>1. c.allowed = FALSE /\ c.hits = tail
    BY <1>3, <1>4, <1>7
  <2>2. QED
    BY <1>3, <1>7, <2>1 DEF c, n
<1>8. CASE ~(n - d >= RateLimit)
  <2>1. c.allowed = TRUE /\ c.hits = Append(tail, now)
    BY <1>3, <1>4, <1>8
  <2>2. n - d < RateLimit
    BY <1>5, <1>8
  <2>3. \A p \in 1..(n - d) : c.hits[p] = hits[p + d]
    BY <1>3, <1>6, <2>1
  <2>4. QED
    BY <1>3, <1>6, <2>1, <2>2, <2>3 DEF c, n
<1>9. QED
  BY <1>7, <1>8

(* The states of the limiter, one for each attempt                           *)
Enforced(attempts, m, f) ==
    f = [i \in 0..m |->
            IF i = 0 THEN [allowed |-> TRUE, limiter |-> [k \in Keys(attempts) |-> <<>>]]
            ELSE EnforceRateLimit(f[i - 1].limiter, attempts[i].keys, attempts[i].at)]

LEMMA EnforcedExists ==
    ASSUME NEW attempts
    PROVE  \A m \in Nat : \E f : Enforced(attempts, m, f)
<1> DEFINE T == {m \in Nat : \E f : Enforced(attempts, m, f)}
           first == [allowed |-> TRUE, limiter |-> [k \in Keys(attempts) |-> <<>>]]
           next(s, i) == EnforceRateLimit(s.limiter, attempts[i].keys, attempts[i].at)
<1>1. ASSUME NEW m \in Nat, NEW f
      PROVE  Enforced(attempts, m, f) <=> f = [i \in 0..m |-> IF i = 0 THEN first ELSE next(f[i - 1], i)]
  BY DEF Enforced
<1> HIDE DEF first, next
<1>2. 0 \in T
  <2> DEFINE f == [i \in 0..0 |-> first]
  <2>1. f = [i \in 0..0 |-> IF i = 0 THEN first ELSE next(f[i - 1], i)]
    OBVIOUS
  <2> HIDE DEF f
  <2>2. QED
    BY <1>1, <2>1
<1>3. ASSUME NEW m \in Nat, m \in T PROVE m + 1 \in T
  <2>1. PICK f : Enforced(attempts, m, f)
    BY <1>3
  <2>2. f = [i \in 0..m |-> IF i = 0 THEN first ELSE next(f[i - 1], i)]
    BY <1>1, <2>1
  <2> DEFINE last == next(f[m], m + 1)
             g == [i \in 0..(m + 1) |-> IF i = m + 1 THEN last ELSE f[i]]
             at(i) == IF i = 0 THEN first ELSE next(g[i - 1], i)
  <2>3. ASSUME NEW i \in 0..(m + 1) PROVE g[i] = at(i)
    <3>1. CASE i = m + 1
      <4>1. i # 0 /\ i - 1 = m /\ m \in 0..(m + 1) /\ m # m + 1
        BY <3>1
      <4>2. g[m] = f[m] /\ g[i] = last
        BY <3>1, <4>1
      <4> HIDE DEF g
      <4>3. QED
        BY <3>1, <4>1, <4>2
    <3>2. CASE i # m + 1
      <4>1. i \in 0..m /\ g[i] = f[i]
        BY <3>2
      <4>2. CASE i = 0
        <5>1. f[i] = first
          BY <2>2, <4>1, <4>2
        <5>2. QED
          BY <4>1, <4>2, <5>1
      <4>3. CASE i # 0
        <5>1. f[i] = next(f[i - 1], i)
          BY <2>2, <4>1, <4>3
        <5>2. i - 1 \in 0..(m + 1) /\ i - 1 # m + 1
          BY <4>1, <4>3
        <5>3. g[i - 1] = f[i - 1]
          BY <5>2
        <5> HIDE DEF g
        <5>4. QED
          BY <4>1, <4>3, <5>1, <5>3
      <4>4. QED
        BY <4>2, <4>3
    <3>3. QED
      BY <3>1, <3>2
  <2>4. g = [i \in 0..(m + 1) |-> g[i]]
    OBVIOUS
  <2> HIDE DEF g
  <2>5. g = [i \in 0..(m + 1) |-> IF i = 0 THEN first ELSE next(g[i - 1], i)]
    BY <2>3, <2>4
  <2>6. m + 1 \in Nat
    OBVIOUS
  <2>7. Enforced(attempts, m + 1, g)
    BY <1>1, <2>5, <2>6
  <2>8. QED
    BY <2>6, <2>7
<1>4. \A m \in Nat : m \in T
  <2> HIDE DEF T
  <2>1. QED
    BY <1>2, <1>3, Induction
<1>5. QED
  BY <1>4

LEMMA AfterIs ==
    ASSUME NEW attempts, Len(attempts) \in Nat
    PROVE  LET after == AfterAttempts(attempts)
           IN /\ after[0].limiter = [k \in Keys(attempts) |-> <<>>]
              /\ \A i \in 1..Len(attempts) :
                    after[i] = EnforceRateLimit(after[i - 1].limiter, attempts[i].keys, attempts[i].at)
<1> DEFINE first == [allowed |-> TRUE, limiter |-> [k \in Keys(attempts) |-> <<>>]]
           Goes(f) == f = [i \in 0..Len(attempts) |->
                              IF i = 0 THEN [allowed |-> TRUE, limiter |-> [k \in Keys(attempts) |-> <<>>]]
                              ELSE EnforceRateLimit(f[i - 1].limiter, attempts[i].keys, attempts[i].at)]
           after == CHOOSE f : Goes(f)
<1>1. \E f : Goes(f)
  <2>1. PICK f : Enforced(attempts, Len(attempts), f)
    BY EnforcedExists
  <2>2. Goes(f)
    BY <2>1 DEF Enforced
  <2> HIDE DEF Goes
  <2>3. QED
    BY <2>2
<1>2. Goes(after)
  <2> HIDE DEF Goes
  <2>1. QED
    BY <1>1
<1>3. AfterAttempts(attempts) = after
  BY DEF AfterAttempts
<1> HIDE DEF after
<1>4. after[0] = first
  BY <1>2
<1>5. \A i \in 1..Len(attempts) :
         after[i] = EnforceRateLimit(after[i - 1].limiter, attempts[i].keys, attempts[i].at)
  <2> TAKE i \in 1..Len(attempts)
  <2>1. i \in 0..Len(attempts) /\ i # 0
    OBVIOUS
  <2>2. QED
    BY <1>2, <2>1
<1>6. QED
  BY <1>3, <1>4, <1>5

-----------------------------------------------------------------------------
Keyed(attempts, j, k) == k \in ToSet(attempts[j].keys)
Allowed(attempts, j) == AfterAttempts(attempts)[j].allowed
Hits(attempts, i, k) == AfterAttempts(attempts)[i].limiter[k]

(* The window of a key after attempt i: its times are those of attempts under *)
(* the key, in order, that passed or were refused under another key, and all *)
(* that passed are among them unless they are too old.                       *)
OwnTimes(attempts, i, k, hits, own) ==
    /\ own \in [1..Len(hits) -> 1..i]
    /\ \A p, q \in 1..Len(hits) : p < q => own[p] < own[q]
    /\ \A p \in 1..Len(hits) :
          /\ hits[p] = attempts[own[p]].at /\ Keyed(attempts, own[p], k)
          /\ Allowed(attempts, own[p]) \/ Len(attempts[own[p]].keys) > 1
    /\ \A j \in 1..i : Allowed(attempts, j) /\ Keyed(attempts, j, k) =>
          (\E p \in 1..Len(hits) : own[p] = j) \/ attempts[i].at - attempts[j].at > Window
WindowIs(attempts, i, k, hits) ==
    /\ hits \in Seq(Int) /\ Len(hits) <= RateLimit
    /\ \E own : OwnTimes(attempts, i, k, hits, own)
AllWindows(attempts, i) ==
    /\ DOMAIN AfterAttempts(attempts)[i].limiter = Keys(attempts)
    /\ \A k \in Keys(attempts) : WindowIs(attempts, i, k, Hits(attempts, i, k))

LEMMA HistoryIs ==
    ASSUME NEW K, NEW attempts, IsHistory(attempts, K)
    PROVE  /\ Len(attempts) \in Nat /\ DOMAIN attempts = 1..Len(attempts)
           /\ \A i \in 1..Len(attempts) :
                /\ attempts[i].at \in Int
                /\ Len(attempts[i].keys) \in Nat
                /\ DOMAIN attempts[i].keys = 1..Len(attempts[i].keys)
           /\ \A i, j \in 1..Len(attempts) : i <= j => attempts[i].at <= attempts[j].at
<1>1. attempts \in Seq([at : Int, keys : Seq(K)])
  BY DEF IsHistory
<1>2. Len(attempts) \in Nat /\ DOMAIN attempts = 1..Len(attempts)
  BY <1>1, LenProperties
<1>3. ASSUME NEW i \in 1..Len(attempts)
      PROVE  /\ attempts[i].at \in Int
             /\ Len(attempts[i].keys) \in Nat
             /\ DOMAIN attempts[i].keys = 1..Len(attempts[i].keys)
  <2>1. attempts[i] \in [at : Int, keys : Seq(K)]
    BY <1>1, ElementOfSeq
  <2>2. attempts[i].at \in Int /\ attempts[i].keys \in Seq(K)
    BY <2>1
  <2>3. QED
    BY <2>2, LenProperties
<1>4. QED
  BY <1>2, <1>3 DEF IsHistory

(* A window whose key an attempt does not check stays as it is: the attempt  *)
(* is not under the key, or was refused before its turn.                     *)
LEMMA UncheckedKeeps ==
    ASSUME NEW K, NEW attempts, IsHistory(attempts, K), Window \in Int,
           NEW i \in Nat, i + 1 \in 1..Len(attempts), NEW k, NEW hits,
           WindowIs(attempts, i, k, hits),
           ~(Allowed(attempts, i + 1) /\ Keyed(attempts, i + 1, k))
    PROVE  WindowIs(attempts, i + 1, k, hits)
<1>1. PICK own : OwnTimes(attempts, i, k, hits, own)
  BY DEF WindowIs
<1>2. own \in [1..Len(hits) -> 1..(i + 1)]
  <2>1. \A p \in 1..i : p \in 1..(i + 1)
    OBVIOUS
  <2>2. QED
    BY <1>1, <2>1 DEF OwnTimes
<1>3. ASSUME NEW j \in 1..(i + 1), Allowed(attempts, j), Keyed(attempts, j, k)
      PROVE  (\E p \in 1..Len(hits) : own[p] = j) \/ attempts[i + 1].at - attempts[j].at > Window
  <2>1. j # i + 1
    BY <1>3
  <2>2. j \in 1..i /\ i \in 1..Len(attempts) /\ j \in 1..Len(attempts)
    BY <2>1, HistoryIs
  <2>3. (\E p \in 1..Len(hits) : own[p] = j) \/ attempts[i].at - attempts[j].at > Window
    BY <1>1, <1>3, <2>2 DEF OwnTimes
  <2>4. /\ attempts[i].at \in Int /\ attempts[i + 1].at \in Int /\ attempts[j].at \in Int
        /\ attempts[i].at <= attempts[i + 1].at
    <3>1. i <= i + 1
      OBVIOUS
    <3>2. QED
      BY <2>2, <3>1, HistoryIs
  <2>5. QED
    BY <2>3, <2>4
<1>4. OwnTimes(attempts, i + 1, k, hits, own)
  BY <1>1, <1>2, <1>3 DEF OwnTimes
<1>5. QED
  BY <1>4 DEF WindowIs

(* A window whose key an attempt checks loses what is too old and gains the  *)
(* attempt when the check lets it pass.                                      *)
LEMMA CheckedKeeps ==
    ASSUME NEW K, NEW attempts, IsHistory(attempts, K), RateLimit \in Nat, Window \in Int,
           NEW i \in Nat, i + 1 \in 1..Len(attempts), NEW k, NEW hits,
           WindowIs(attempts, i, k, hits), Keyed(attempts, i + 1, k),
           Check(hits, attempts[i + 1].at).allowed =>
               Allowed(attempts, i + 1) \/ Len(attempts[i + 1].keys) > 1,
           ~Check(hits, attempts[i + 1].at).allowed => ~Allowed(attempts, i + 1)
    PROVE  WindowIs(attempts, i + 1, k, Check(hits, attempts[i + 1].at).hits)
<1> DEFINE now == attempts[i + 1].at
           c == Check(hits, now)
           n == Len(hits)
<1>1. PICK own : OwnTimes(attempts, i, k, hits, own)
  BY DEF WindowIs
<1>2. hits \in Seq(Int) /\ n \in Nat /\ n <= RateLimit /\ now \in Int
  BY HistoryIs, LenProperties DEF WindowIs
<1>3. PICK d \in 0..n :
        /\ \A p \in 1..d : now - hits[p] > Window
        /\ d < n => now - hits[d + 1] <= Window
        /\ c.hits \in Seq(Int)
        /\ \A p \in 1..(n - d) : c.hits[p] = hits[p + d]
        /\ \/ /\ c.allowed /\ n - d < RateLimit
              /\ Len(c.hits) = n - d + 1 /\ c.hits[n - d + 1] = now
           \/ /\ ~c.allowed /\ n - d >= RateLimit
              /\ Len(c.hits) = n - d
  BY <1>2, CheckIs
<1>4. /\ own \in [1..n -> 1..i]
      /\ \A p, q \in 1..n : p < q => own[p] < own[q]
      /\ \A p \in 1..n : /\ hits[p] = attempts[own[p]].at /\ Keyed(attempts, own[p], k)
                         /\ Allowed(attempts, own[p]) \/ Len(attempts[own[p]].keys) > 1
  BY <1>1 DEF OwnTimes
<1>5. \A p \in 1..n : own[p] \in 1..i
  BY <1>4
<1>6. c.allowed => Allowed(attempts, i + 1) \/ Len(attempts[i + 1].keys) > 1
  OBVIOUS
<1>7. ~c.allowed => ~Allowed(attempts, i + 1)
  OBVIOUS
<1> HIDE DEF c, n
<1> DEFINE m == Len(c.hits)
           g == [p \in 1..m |-> IF p <= n - d THEN own[p + d] ELSE i + 1]
<1>8. /\ m \in Nat /\ m <= RateLimit /\ n - d \in Nat /\ n - d <= m
      /\ \A p \in 1..m : p <= n - d \/ (p = n - d + 1 /\ m = n - d + 1 /\ c.allowed /\ c.hits[p] = now)
      /\ \A p \in 1..(n - d) : p + d \in 1..n /\ p \in 1..m
  <2>1. m = n - d + 1 \/ m = n - d
    BY <1>3
  <2>2. n - d \in Nat /\ n - d <= RateLimit /\ \A p \in 1..(n - d) : p + d \in 1..n
    BY <1>2, <1>3
  <2>3. \/ c.allowed /\ n - d < RateLimit /\ m = n - d + 1 /\ c.hits[n - d + 1] = now
        \/ m = n - d
    BY <1>3
  <2> HIDE DEF m, now
  <2>4. CASE m = n - d
    BY <2>2, <2>4
  <2>5. CASE c.allowed /\ n - d < RateLimit /\ m = n - d + 1 /\ c.hits[n - d + 1] = now
    <3>1. m \in Nat /\ m <= RateLimit /\ n - d <= m
      BY <2>2, <2>5
    <3>2. \A p \in 1..m : p <= n - d \/ p = n - d + 1
      BY <2>2, <2>5
    <3>3. \A p \in 1..(n - d) : p \in 1..m
      BY <2>2, <2>5
    <3>4. QED
      BY <2>2, <2>5, <3>1, <3>2, <3>3
  <2>6. QED
    BY <2>3, <2>4, <2>5
<1> HIDE DEF m
<1>9. ASSUME NEW p \in 1..m
      PROVE  \/ p <= n - d /\ p + d \in 1..n /\ g[p] = own[p + d] /\ g[p] \in 1..i /\ c.hits[p] = hits[p + d]
             \/ p = n - d + 1 /\ m = n - d + 1 /\ g[p] = i + 1 /\ c.allowed /\ c.hits[p] = now
  <2>1. CASE p <= n - d
    <3>1. p \in 1..(n - d)
      BY <1>8, <2>1
    <3>2. p + d \in 1..n /\ c.hits[p] = hits[p + d]
      BY <1>3, <1>8, <3>1
    <3>3. QED
      BY <1>5, <2>1, <3>2
  <2>2. CASE ~(p <= n - d)
    BY <1>8, <2>2
  <2>3. QED
    BY <2>1, <2>2
<1>10. g \in [1..m -> 1..(i + 1)]
  <2>1. ASSUME NEW p \in 1..m PROVE g[p] \in 1..(i + 1)
    <3>1. g[p] \in 1..i \/ g[p] = i + 1
      BY <1>9
    <3> HIDE DEF g
    <3>2. QED
      BY <3>1
  <2>2. QED
    BY <2>1
<1> HIDE DEF g
<1>11. ASSUME NEW p \in 1..m, NEW q \in 1..m, p < q PROVE g[p] < g[q]
  <2>1. CASE q <= n - d
    <3>1. p <= n - d /\ ~(p = n - d + 1) /\ ~(q = n - d + 1)
      BY <1>8, <1>11, <2>1
    <3>2. p + d \in 1..n /\ g[p] = own[p + d] /\ q + d \in 1..n /\ g[q] = own[q + d]
      BY <1>9, <3>1
    <3>3. p + d < q + d
      BY <1>8, <1>11, <1>3
    <3>4. QED
      BY <1>4, <3>2, <3>3
  <2>2. CASE ~(q <= n - d)
    <3>1. g[q] = i + 1 /\ q = n - d + 1
      BY <1>9, <2>2
    <3>2. ~(p = n - d + 1)
      BY <1>8, <1>11, <3>1
    <3>3. g[p] \in 1..i
      BY <1>9, <3>2
    <3>4. QED
      BY <3>1, <3>3
  <2>3. QED
    BY <2>1, <2>2
<1>12. ASSUME NEW p \in 1..m
       PROVE  /\ c.hits[p] = attempts[g[p]].at /\ Keyed(attempts, g[p], k)
              /\ Allowed(attempts, g[p]) \/ Len(attempts[g[p]].keys) > 1
  <2>1. CASE p + d \in 1..n /\ g[p] = own[p + d] /\ c.hits[p] = hits[p + d]
    BY <1>4, <2>1
  <2>2. CASE g[p] = i + 1 /\ c.allowed /\ c.hits[p] = now
    BY <1>6, <2>2
  <2>3. QED
    BY <1>9, <2>1, <2>2
<1>13. ASSUME NEW j \in 1..(i + 1), Allowed(attempts, j), Keyed(attempts, j, k)
       PROVE  (\E p \in 1..m : g[p] = j) \/ now - attempts[j].at > Window
  <2>1. CASE j = i + 1
    <3>1. c.allowed /\ m = n - d + 1
      BY <1>3, <1>7, <1>13, <2>1 DEF m
    <3>2. m \in 1..m /\ ~(m <= n - d)
      BY <1>8, <3>1
    <3>3. g[m] = i + 1
      BY <1>9, <3>2
    <3>4. QED
      BY <2>1, <3>2, <3>3
  <2>2. CASE j # i + 1
    <3>1. j \in 1..i
      BY <2>2
    <3>2. CASE \E p \in 1..n : own[p] = j
      <4>1. PICK p \in 1..n : own[p] = j
        BY <3>2
      <4>2. CASE p <= d
        <5>1. p \in 1..d
          BY <4>2
        <5>2. now - hits[p] > Window /\ hits[p] = attempts[j].at
          BY <1>3, <1>4, <4>1, <5>1
        <5>3. QED
          BY <5>2
      <4>3. CASE ~(p <= d)
        <5>1. p - d \in 1..(n - d) /\ (p - d) + d = p
          BY <1>2, <1>3, <4>3 DEF n
        <5>2. p - d \in 1..m /\ p - d <= n - d
          BY <1>8, <5>1
        <5>3. ~(p - d = n - d + 1)
          BY <1>8, <5>2
        <5>4. g[p - d] = own[(p - d) + d]
          BY <1>9, <5>2, <5>3
        <5>5. QED
          BY <4>1, <5>1, <5>2, <5>4
      <4>4. QED
        BY <4>2, <4>3
    <3>3. CASE attempts[i].at - attempts[j].at > Window
      <4>1. i \in 1..Len(attempts) /\ j \in 1..Len(attempts) /\ i <= i + 1
        BY <3>1, HistoryIs
      <4>2. /\ attempts[i].at \in Int /\ attempts[j].at \in Int
            /\ attempts[i].at <= now
        BY <4>1, HistoryIs
      <4> HIDE DEF now
      <4>3. QED
        BY <1>2, <3>3, <4>2
    <3>4. QED
      BY <1>1, <1>13, <3>1, <3>2, <3>3 DEF OwnTimes, n
  <2>3. QED
    BY <2>1, <2>2
<1>14. OwnTimes(attempts, i + 1, k, c.hits, g)
  BY <1>10, <1>11, <1>12, <1>13 DEF OwnTimes, m
<1>15. c.hits \in Seq(Int) /\ m <= RateLimit
  BY <1>3, <1>8
<1>16. QED
  BY <1>14, <1>15 DEF WindowIs, m, c

LEMMA WindowsStay ==
    ASSUME NEW K, NEW attempts, IsHistory(attempts, K), RateLimit \in Nat, Window \in Int,
           NEW i \in Nat, i + 1 \in 1..Len(attempts), AllWindows(attempts, i)
    PROVE  AllWindows(attempts, i + 1)
<1> DEFINE after == AfterAttempts(attempts)
           now == attempts[i + 1].at
           keys == attempts[i + 1].keys
           busy == {a \in DOMAIN keys : ~Check(after[i].limiter[keys[a]], now).allowed}
           checked == {keys[a] : a \in IF busy = {} THEN DOMAIN keys ELSE 1..Min(busy)}
<1>1. Len(keys) \in Nat /\ DOMAIN keys = 1..Len(keys) /\ now \in Int
  BY HistoryIs
<1>2. after[i + 1] = EnforceRateLimit(after[i].limiter, keys, now)
  <2>1. Len(attempts) \in Nat /\ (i + 1) - 1 = i
    BY HistoryIs
  <2>2. QED
    BY <2>1, AfterIs
<1>3. /\ after[i + 1].allowed = (busy = {})
      /\ after[i + 1].limiter = [k \in DOMAIN after[i].limiter |->
                                    IF k \in checked THEN Check(after[i].limiter[k], now).hits ELSE after[i].limiter[k]]
  <2> DEFINE later == [k \in DOMAIN after[i].limiter |->
                          IF k \in checked THEN Check(after[i].limiter[k], now).hits ELSE after[i].limiter[k]]
  <2>1. EnforceRateLimit(after[i].limiter, keys, now) = [allowed |-> busy = {}, limiter |-> later]
    BY DEF EnforceRateLimit
  <2> HIDE DEF after, now, keys, busy, checked, later
  <2>2. after[i + 1] = [allowed |-> busy = {}, limiter |-> later]
    BY <1>2, <2>1
  <2>3. after[i + 1].allowed = (busy = {}) /\ after[i + 1].limiter = later
    BY <2>2
  <2>4. QED
    BY <2>3 DEF later
<1>4. DOMAIN after[i].limiter = Keys(attempts) /\ \A k \in Keys(attempts) : WindowIs(attempts, i, k, after[i].limiter[k])
  BY DEF AllWindows, Hits
<1>5. Allowed(attempts, i + 1) <=> busy = {}
  BY <1>3 DEF Allowed
<1>6. \A k : Keyed(attempts, i + 1, k) <=> \E a \in DOMAIN keys : keys[a] = k
  BY DEF Keyed, ToSet
<1>7. busy # {} => Min(busy) \in busy
  <2>1. busy \in SUBSET Nat
    BY <1>1
  <2> HIDE DEF busy
  <2>2. QED
    BY <2>1, LeastIs
<1> HIDE DEF after, now, keys, busy
<1>8. busy \subseteq 1..Len(keys)
  BY <1>1 DEF busy
<1>9. ASSUME NEW k \in Keys(attempts) PROVE WindowIs(attempts, i + 1, k, after[i + 1].limiter[k])
  <2> DEFINE hits == after[i].limiter[k]
  <2>1. WindowIs(attempts, i, k, hits)
    BY <1>4
  <2>2. CASE k \in checked
    <3>1. PICK a \in IF busy = {} THEN DOMAIN keys ELSE 1..Min(busy) : keys[a] = k
      BY <2>2
    <3>2. a \in 1..Len(keys)
      <4>1. CASE busy = {}
        BY <1>1, <3>1, <4>1
      <4>2. CASE busy # {}
        <5>1. Min(busy) \in 1..Len(keys) /\ a \in 1..Min(busy)
          BY <1>7, <1>8, <3>1, <4>2
        <5>2. QED
          BY <1>1, <5>1
      <4>3. QED
        BY <4>1, <4>2
    <3>3. Keyed(attempts, i + 1, k)
      BY <1>1, <1>6, <3>1, <3>2
    <3>4. a \in busy <=> ~Check(hits, now).allowed
      BY <1>1, <3>1, <3>2 DEF busy
    <3>5. Check(hits, now).allowed => Allowed(attempts, i + 1) \/ Len(keys) > 1
      <4> SUFFICES ASSUME Check(hits, now).allowed, busy # {} PROVE Len(keys) > 1
        BY <1>5
      <4>1. Min(busy) \in 1..Len(keys) /\ a \in 1..Min(busy) /\ a # Min(busy)
        BY <1>7, <1>8, <3>1, <3>4
      <4>2. QED
        BY <1>1, <4>1
    <3>6. ~Check(hits, now).allowed => ~Allowed(attempts, i + 1)
      BY <1>5, <3>4
    <3>7. after[i + 1].limiter[k] = Check(hits, now).hits
      BY <1>3, <1>4, <2>2
    <3> HIDE DEF hits
    <3>8. WindowIs(attempts, i + 1, k, Check(hits, now).hits)
      BY <2>1, <3>3, <3>5, <3>6, CheckedKeeps DEF now, keys
    <3>9. QED
      BY <3>7, <3>8
  <2>3. CASE k \notin checked
    <3>1. ~(Allowed(attempts, i + 1) /\ Keyed(attempts, i + 1, k))
      BY <1>5, <1>6, <2>3
    <3>2. after[i + 1].limiter[k] = hits
      BY <1>3, <1>4, <2>3
    <3> HIDE DEF hits
    <3>3. WindowIs(attempts, i + 1, k, hits)
      BY <2>1, <3>1, UncheckedKeeps
    <3>4. QED
      BY <3>2, <3>3
  <2>4. QED
    BY <2>2, <2>3
<1>10. DOMAIN after[i + 1].limiter = Keys(attempts)
  BY <1>3, <1>4
<1>11. QED
  BY <1>9, <1>10 DEF AllWindows, Hits, after

LEMMA WindowsAlways ==
    ASSUME NEW K, NEW attempts, IsHistory(attempts, K), RateLimit \in Nat, Window \in Int
    PROVE  \A i \in 0..Len(attempts) : AllWindows(attempts, i)
<1>1. Len(attempts) \in Nat
  BY HistoryIs
<1> DEFINE T == {i \in Nat : i <= Len(attempts) => AllWindows(attempts, i)}
<1>2. 0 \in T
  <2>1. AfterAttempts(attempts)[0].limiter = [k \in Keys(attempts) |-> <<>>]
    BY <1>1, AfterIs
  <2>2. ASSUME NEW k \in Keys(attempts) PROVE WindowIs(attempts, 0, k, <<>>)
    <3> DEFINE own == [p \in 1..0 |-> 0]
    <3>1. Len(<<>>) = 0 /\ <<>> \in Seq(Int) /\ 1..0 = {}
      OBVIOUS
    <3>2. own \in [1..0 -> 1..0]
      OBVIOUS
    <3> HIDE DEF own
    <3>3. OwnTimes(attempts, 0, k, <<>>, own)
      BY <3>1, <3>2 DEF OwnTimes
    <3>4. 0 <= RateLimit
      OBVIOUS
    <3>5. QED
      BY <3>1, <3>3, <3>4 DEF WindowIs
  <2>3. QED
    BY <2>1, <2>2 DEF AllWindows, Hits
<1>3. ASSUME NEW i \in Nat, i \in T PROVE i + 1 \in T
  <2> SUFFICES ASSUME i + 1 <= Len(attempts) PROVE AllWindows(attempts, i + 1)
    OBVIOUS
  <2>1. i + 1 \in 1..Len(attempts) /\ i <= Len(attempts)
    BY <1>1
  <2>2. AllWindows(attempts, i)
    BY <1>3, <2>1
  <2>3. QED
    BY <2>1, <2>2, WindowsStay
<1>4. \A i \in Nat : i \in T
  <2> HIDE DEF T
  <2>1. QED
    BY <1>2, <1>3, Induction
<1>5. QED
  BY <1>1, <1>4

(* AttemptsAreLimited, for every limit, window and history of attempts under *)
(* any keys: no key sees more of them pass within a window than the limit,   *)
(* and none is refused that the limit of every one of its keys had room for. *)
THEOREM AttemptsAreAlwaysLimited ==
    ASSUME NEW K, NEW attempts, IsHistory(attempts, K), RateLimit \in Nat, Window \in Int
    PROVE  AttemptsAreLimited(attempts)
<1> DEFINE allowed == AttemptOutcomes(attempts)
           passed(i, k) == {j \in Recent(attempts, i, k) : allowed[j]}
           refusedElsewhere(i, k) == {j \in Recent(attempts, i, k) : ~allowed[j] /\ Len(attempts[j].keys) > 1}
           n == Len(attempts)
<1>1. /\ n \in Nat /\ DOMAIN attempts = 1..n
      /\ \A i \in 1..n : attempts[i].at \in Int /\ DOMAIN attempts[i].keys = 1..Len(attempts[i].keys)
      /\ \A i, j \in 1..n : i <= j => attempts[i].at <= attempts[j].at
  BY HistoryIs
<1>2. \A j \in 1..n : allowed[j] = Allowed(attempts, j)
  BY <1>1 DEF AttemptOutcomes, Allowed
<1>3. \A i \in 1..n : \A k : Keyed(attempts, i, k) => k \in Keys(attempts)
  BY <1>1 DEF Keyed, Keys
<1> HIDE DEF allowed
<1>4. ASSUME NEW i \in 1..n, NEW k
      PROVE  /\ passed(i, k) = {j \in 1..i : Keyed(attempts, j, k) /\ attempts[i].at - attempts[j].at <= Window /\ Allowed(attempts, j)}
             /\ refusedElsewhere(i, k) =
                  {j \in 1..i : Keyed(attempts, j, k) /\ attempts[i].at - attempts[j].at <= Window /\ ~Allowed(attempts, j)
                                /\ Len(attempts[j].keys) > 1}
             /\ \A j \in 1..i : j \in 1..n
  BY <1>1, <1>2 DEF Recent, Keyed
<1> HIDE DEF passed, refusedElsewhere
<1>5. ASSUME NEW i \in 1..n, NEW k, Keyed(attempts, i, k) PROVE Cardinality(passed(i, k)) <= RateLimit
  <2> DEFINE hits == Hits(attempts, i, k)
  <2>1. WindowIs(attempts, i, k, hits)
    <3>1. i \in 0..n
      BY <1>1
    <3>2. AllWindows(attempts, i)
      BY <3>1, WindowsAlways
    <3>3. QED
      BY <1>3, <1>5, <3>2 DEF AllWindows
  <2> HIDE DEF hits
  <2>2. hits \in Seq(Int) /\ Len(hits) \in Nat /\ Len(hits) <= RateLimit
    BY <2>1, LenProperties DEF WindowIs
  <2>3. PICK own : OwnTimes(attempts, i, k, hits, own)
    BY <2>1 DEF WindowIs
  <2>4. \A j \in passed(i, k) : \E p \in 1..Len(hits) : own[p] = j
    <3> TAKE j \in passed(i, k)
    <3>1. j \in 1..i /\ Allowed(attempts, j) /\ Keyed(attempts, j, k) /\ attempts[i].at - attempts[j].at <= Window
      BY <1>4
    <3>2. j \in 1..n /\ attempts[i].at \in Int /\ attempts[j].at \in Int
      BY <1>1, <1>4, <3>1
    <3>3. ~(attempts[i].at - attempts[j].at > Window)
      BY <3>1, <3>2
    <3>4. QED
      BY <2>3, <3>1, <3>3 DEF OwnTimes
  <2> DEFINE f == [j \in passed(i, k) |-> CHOOSE p \in 1..Len(hits) : own[p] = j]
  <2>5. \A j \in passed(i, k) : f[j] \in 1..Len(hits) /\ own[f[j]] = j
    BY <2>4
  <2>6. f \in Injection(passed(i, k), 1..Len(hits))
    BY <2>5 DEF Injection, IsInjective
  <2>7. IsFiniteSet(1..Len(hits)) /\ Cardinality(1..Len(hits)) = Len(hits)
    <3>1. 1 \in Int /\ Len(hits) \in Int /\ (1 > Len(hits) => Len(hits) = 0) /\ Len(hits) - 1 + 1 = Len(hits)
      BY <2>2
    <3>2. QED
      BY <3>1, FS_Interval
  <2>8. Cardinality(passed(i, k)) <= Len(hits) /\ Cardinality(passed(i, k)) \in Nat
    <3> HIDE DEF f
    <3>1. IsFiniteSet(passed(i, k)) /\ Cardinality(passed(i, k)) <= Cardinality(1..Len(hits))
      BY <2>6, <2>7, FS_Injection
    <3>2. QED
      BY <2>7, <3>1, FS_CardinalityType
  <2>9. QED
    BY <2>2, <2>8
<1>6. ASSUME NEW i \in 1..n, ~Allowed(attempts, i)
      PROVE  \E k \in ToSet(attempts[i].keys) :
                Cardinality(passed(i, k)) + Cardinality(refusedElsewhere(i, k) \ {i}) >= RateLimit
  <2> DEFINE after == AfterAttempts(attempts)
             keys == attempts[i].keys
             now == attempts[i].at
             e == i - 1
             busy == {a \in DOMAIN keys : ~Check(after[e].limiter[keys[a]], now).allowed}
  <2>1. after[i] = EnforceRateLimit(after[e].limiter, keys, now)
    BY <1>1, AfterIs
  <2>2. busy # {}
    <3>1. EnforceRateLimit(after[e].limiter, keys, now).allowed = (busy = {})
      BY DEF EnforceRateLimit
    <3> HIDE DEF after, keys, now, e, busy
    <3>2. QED
      BY <1>6, <2>1, <3>1 DEF Allowed, after
  <2>3. PICK a \in DOMAIN keys : ~Check(after[e].limiter[keys[a]], now).allowed
    BY <2>2
  <2> DEFINE k == keys[a]
             hits == Hits(attempts, e, k)
  <2>4. Keyed(attempts, i, k) /\ k \in ToSet(attempts[i].keys)
    BY DEF Keyed, ToSet
  <2>5. ~Check(hits, now).allowed
    BY <2>3 DEF Hits
  <2>6. e \in 0..n /\ e \in Nat /\ \A j \in 1..e : j \in 1..i /\ j # i /\ j \in 1..n
    BY <1>1
  <2>7. WindowIs(attempts, e, k, hits)
    <3>1. AllWindows(attempts, e)
      BY <2>6, WindowsAlways
    <3>2. k \in Keys(attempts)
      BY <1>3, <2>4
    <3>3. QED
      BY <3>1, <3>2 DEF AllWindows
  <2>8. now \in Int
    BY <1>1
  <2> HIDE DEF k, hits, e, now
  <2>9. hits \in Seq(Int) /\ Len(hits) \in Nat
    BY <2>7, LenProperties DEF WindowIs
  <2>10. PICK own : OwnTimes(attempts, e, k, hits, own)
    BY <2>7 DEF WindowIs
  <2>11. PICK d \in 0..Len(hits) :
            /\ d < Len(hits) => now - hits[d + 1] <= Window
            /\ Len(hits) - d >= RateLimit
    <3>1. \E d \in 0..Len(hits) :
            /\ d < Len(hits) => now - hits[d + 1] <= Window
            /\ Check(hits, now).allowed \/ Len(hits) - d >= RateLimit
      BY <2>8, <2>9, CheckIs
    <3>2. QED
      BY <2>5, <3>1
  <2> DEFINE A == passed(i, k)
             B == refusedElsewhere(i, k) \ {i}
             S == (d + 1)..Len(hits)
             f == [p \in S |-> own[p]]
  <2>12. ASSUME NEW p \in S PROVE own[p] \in A \cup B
    <3>1. p \in 1..Len(hits) /\ d + 1 \in 1..Len(hits) /\ d < Len(hits) /\ (p = d + 1 \/ d + 1 < p)
      BY <2>9, <2>11
    <3>2. /\ own[p] \in 1..e /\ hits[p] = attempts[own[p]].at /\ Keyed(attempts, own[p], k)
          /\ Allowed(attempts, own[p]) \/ Len(attempts[own[p]].keys) > 1
          /\ own[d + 1] \in 1..e /\ hits[d + 1] = attempts[own[d + 1]].at
          /\ own[d + 1] <= own[p]
      <4>1. own[p] \in 1..e /\ own[d + 1] \in 1..e
        BY <2>10, <3>1 DEF OwnTimes
      <4>2. own[d + 1] = own[p] \/ own[d + 1] < own[p]
        BY <2>10, <3>1 DEF OwnTimes
      <4>3. own[d + 1] <= own[p]
        BY <4>1, <4>2
      <4>4. QED
        BY <2>10, <3>1, <4>1, <4>3 DEF OwnTimes
    <3>3. hits[d + 1] <= hits[p] /\ hits[p] \in Int /\ hits[d + 1] \in Int
      BY <1>1, <2>6, <3>2
    <3>4. now - attempts[own[p]].at <= Window
      <4>1. now - hits[d + 1] <= Window
        BY <2>11, <3>1
      <4>2. now - hits[p] <= Window
        BY <2>8, <3>3, <4>1
      <4>3. QED
        BY <3>2, <4>2
    <3>5. own[p] \in 1..i /\ own[p] # i
      BY <2>6, <3>2
    <3>6. CASE Allowed(attempts, own[p])
      BY <1>4, <3>2, <3>4, <3>5, <3>6 DEF now
    <3>7. CASE ~Allowed(attempts, own[p])
      BY <1>4, <3>2, <3>4, <3>5, <3>7 DEF now
    <3>8. QED
      BY <3>6, <3>7
  <2>13. \A p, q \in S : own[p] = own[q] => p = q
    <3> TAKE p, q \in S
    <3>1. p \in 1..Len(hits) /\ q \in 1..Len(hits)
      BY <2>9
    <3>2. own[p] \in 1..e /\ own[q] \in 1..e
      BY <2>10, <3>1 DEF OwnTimes
    <3>3. (p < q => own[p] < own[q]) /\ (q < p => own[q] < own[p])
      BY <2>10, <3>1 DEF OwnTimes
    <3>4. QED
      BY <2>6, <3>1, <3>2, <3>3
  <2>14. f \in Injection(S, A \cup B)
    <3> HIDE DEF S, A, B
    <3>1. QED
      BY <2>12, <2>13 DEF Injection, IsInjective
  <2>15. IsFiniteSet(A) /\ IsFiniteSet(B)
    <3>1. IsFiniteSet(1..i)
      <4>1. 1 \in Int /\ i \in Int
        OBVIOUS
      <4>2. QED
        BY <4>1, FS_Interval
    <3>2. A \in SUBSET (1..i) /\ B \in SUBSET (1..i)
      BY <1>4
    <3> HIDE DEF A, B
    <3>3. QED
      BY <3>1, <3>2, FS_Subset
  <2>16. IsFiniteSet(S) /\ Cardinality(S) = Len(hits) - d
    <3>1. d + 1 \in Int /\ Len(hits) \in Int
          /\ (d + 1 > Len(hits) => Len(hits) - d = 0) /\ Len(hits) - (d + 1) + 1 = Len(hits) - d
      BY <2>9
    <3>2. QED
      BY <3>1, FS_Interval
  <2> HIDE DEF A, B, S, f
  <2>17. /\ IsFiniteSet(A \cup B) /\ Cardinality(A \cup B) <= Cardinality(A) + Cardinality(B)
         /\ Cardinality(A) \in Nat /\ Cardinality(B) \in Nat
    BY <2>15, UnionCardinality
  <2>18. Cardinality(S) <= Cardinality(A \cup B) /\ Cardinality(A \cup B) \in Nat
    BY <2>14, <2>17, FS_Injection, FS_CardinalityType
  <2>19. Cardinality(A) + Cardinality(B) >= RateLimit
    BY <2>9, <2>11, <2>16, <2>17, <2>18
  <2>20. QED
    BY <2>4, <2>19 DEF A, B
<1>7. QED
  BY <1>1, <1>2, <1>5, <1>6 DEF AttemptsAreLimited, Keyed, passed, refusedElsewhere, allowed

-----------------------------------------------------------------------------
(* Child processes *)

LEMMA EndsBounds ==
    ASSUME Timeout \in Nat, Grace \in Nat, NEW q, q.ends \in Nat, NEW signals
    PROVE  /\ Ends(q, signals) \in Nat /\ Ends(q, signals) <= q.ends
           /\ "term" \in signals /\ q.obeys => Ends(q, signals) <= Timeout
           /\ "kill" \in signals => Ends(q, signals) <= Timeout + Grace
           /\ q.ends > Timeout + Grace /\ ~q.obeys => Ends(q, signals) >= Timeout + Grace
<1> DEFINE T == {q.ends} \cup (IF "term" \in signals /\ q.obeys THEN {Timeout} ELSE {})
                         \cup (IF "kill" \in signals THEN {Timeout + Grace} ELSE {})
<1>1. T \in SUBSET Nat /\ T # {}
  OBVIOUS
<1>2. Ends(q, signals) = Min(T)
  BY DEF Ends
<1>3. Min(T) \in T /\ \A m \in T : Min(T) <= m
  <2> HIDE DEF T
  <2>1. QED
    BY <1>1, LeastIs
<1>4. /\ q.ends \in T
      /\ "term" \in signals /\ q.obeys => Timeout \in T
      /\ "kill" \in signals => Timeout + Grace \in T
      /\ ~q.obeys => \A m \in T : m = q.ends \/ m = Timeout + Grace
  OBVIOUS
<1> HIDE DEF T
<1> DEFINE first == Min(T)
<1>5. first \in Nat /\ first <= q.ends
  BY <1>1, <1>3, <1>4
<1>6. "term" \in signals /\ q.obeys => first <= Timeout
  BY <1>3, <1>4
<1>7. "kill" \in signals => first <= Timeout + Grace
  BY <1>3, <1>4
<1>8. q.ends > Timeout + Grace /\ ~q.obeys => first >= Timeout + Grace
  <2>1. ~q.obeys => first = q.ends \/ first = Timeout + Grace
    BY <1>3, <1>4
  <2> HIDE DEF first
  <2>2. QED
    BY <1>5, <2>1
<1> HIDE DEF first
<1>9. Ends(q, signals) = first
  BY <1>2 DEF first
<1>10. QED
  BY <1>5, <1>6, <1>7, <1>8, <1>9

(* A success is a leader that ended in time by itself; a process killed for   *)
(* its time is told as such; execute returns in time unless a descendant      *)
(* holds the output; and after a SIGKILL nothing is left of the group         *)
(* (CommandExecutor.execute).                                                 *)
THEOREM ChildIsAlwaysBounded ==
    ASSUME Timeout \in Nat, Grace \in Nat, NEW p \in ChildProcess
    PROVE  ChildIsBounded(p)
<1> DEFINE limit == Timeout + Grace
           late == p.leader.ends > Timeout
           signalled == IF late THEN Terminate(p) ELSE [leader |-> {}, group |-> {}]
           ended == Ends(p.leader, signalled.leader)
           left == Ends(p.other, signalled.group)
           at == Max({ended} \cup IF p.other.holds THEN {left} ELSE {})
<1>1. /\ p.leader.ends \in Nat /\ p.other.ends \in Nat
      /\ p.leader.obeys \in BOOLEAN /\ p.other.holds \in BOOLEAN /\ limit \in Nat
  BY DEF ChildProcess, Process
<1>2. CASE ~p.starts
  <2>1. RunChild(p) = [at |-> 0, success |-> FALSE, timed_out |-> FALSE, returned |-> FALSE, left |-> FALSE]
    BY <1>2 DEF RunChild
  <2>2. QED
    BY <1>1, <1>2, <2>1 DEF ChildIsBounded
<1>3. CASE p.starts
  <2>1. RunChild(p) = [at |-> at, success |-> ~late /\ p.code = 0, timed_out |-> late,
                       returned |-> ~late, left |-> left > at]
    BY <1>3 DEF RunChild
  <2>2. /\ ended \in Nat /\ ended <= p.leader.ends
        /\ "term" \in signalled.leader /\ p.leader.obeys => ended <= Timeout
        /\ "kill" \in signalled.leader => ended <= limit
        /\ p.leader.ends > limit /\ ~p.leader.obeys => ended >= limit
    <3> HIDE DEF signalled
    <3>1. QED
      BY <1>1, EndsBounds
  <2>3. left \in Nat /\ left <= p.other.ends /\ ("kill" \in signalled.group => left <= limit)
    <3> HIDE DEF signalled
    <3>1. QED
      BY <1>1, EndsBounds
  <2>4. /\ late /\ p.leader.obeys => "term" \in signalled.leader
        /\ p.leader.ends > limit /\ ~p.leader.obeys => "kill" \in signalled.leader /\ "kill" \in signalled.group
    BY <1>1 DEF Terminate
  <2> HIDE DEF signalled, ended, left
  <2>5. at = IF p.other.holds /\ ended <= left THEN left ELSE ended
    <3>1. CASE p.other.holds
      <4>1. {ended} \cup {left} = {ended, left}
        OBVIOUS
      <4>2. QED
        BY <2>2, <2>3, <3>1, <4>1, MaxOfTwo
    <3>2. CASE ~p.other.holds
      <4>1. {ended} \cup {} = {ended, ended}
        OBVIOUS
      <4>2. QED
        BY <2>2, <3>2, <4>1, MaxOfTwo
    <3>3. QED
      BY <3>1, <3>2
  <2>6. ended <= limit
    BY <1>1, <2>2, <2>4
  <2> HIDE DEF at
  <2>7. at > limit => p.other.holds /\ p.other.ends > limit
    BY <1>1, <2>2, <2>3, <2>5, <2>6
  <2>8. p.leader.ends > limit /\ ~p.leader.obeys => ~(left > at) /\ at <= limit
    BY <1>1, <2>2, <2>3, <2>4, <2>5, <2>6
  <2>9. ~late => p.leader.ends <= Timeout
    BY <1>1
  <2>10. LET r == RunChild(p)
         IN /\ r.success = (~late /\ p.code = 0) /\ r.timed_out = late /\ r.returned = ~late
            /\ r.at = at /\ r.left = (left > at)
    BY <2>1
  <2> HIDE DEF late
  <2>11. QED
    BY <2>7, <2>8, <2>9, <2>10 DEF ChildIsBounded
<1>4. QED
  BY <1>1, <1>2, <1>3 DEF ChildProcess

-----------------------------------------------------------------------------
(* The output of a child process                                             *)

(* The running total of a sequence of numbers                                *)
Totals(f, s) == f[0] = 0 /\ \A i \in 1..Len(s) : f[i] = f[i - 1] + s[i]

LEMMA TotalIs ==
    ASSUME NEW s \in Seq(Nat)
    PROVE  \E f \in [0..Len(s) -> Nat] : Totals(f, s) /\ TotalOf(s) = f[Len(s)]
<1> DEFINE n == Len(s)
           step == [i \in 1..n |-> [x \in Nat |-> x + s[i]]]
           Defines(g) == g = [i \in 0..n |-> IF i = 0 THEN 0 ELSE g[i - 1] + s[i]]
           h == CHOOSE g : Defines(g)
<1>1. n \in Nat /\ \A i \in 1..n : s[i] \in Nat
  BY LenProperties, ElementOfSeq
<1>2. TotalOf(s) = h[n]
  BY DEF TotalOf
<1> HIDE DEF n
<1>3. step \in [1..n -> [Nat -> Nat]] /\ \A x \in Nat : \A i \in 1..n : step[i][x] = x + s[i]
  BY <1>1
<1> HIDE DEF step
<1>4. PICK f \in [0..n -> Nat] : Steps(f, 0, step, n)
  BY <1>1, <1>3, StepsExist
<1>5. f[0] = 0 /\ \A i \in 1..n : f[i] = f[i - 1] + s[i]
  <2>1. \A i \in 1..n : i - 1 \in 0..n
    BY <1>1
  <2>2. \A i \in 1..n : f[i - 1] \in Nat
    BY <2>1
  <2>3. QED
    BY <1>3, <1>4, <2>2 DEF Steps
<1>6. Defines(f)
  <2>1. \A i \in 0..n : i = 0 \/ i \in 1..n
    BY <1>1
  <2>2. \A i \in 0..n : f[i] = IF i = 0 THEN 0 ELSE f[i - 1] + s[i]
    BY <1>5, <2>1
  <2>3. QED
    BY <2>2
<1>7. Defines(h)
  <2> HIDE DEF Defines
  <2>1. QED
    BY <1>6
<1> HIDE DEF h
<1>8. h[n] = f[n]
  <2>1. \A i \in 0..n : h[i] = IF i = 0 THEN 0 ELSE h[i - 1] + s[i]
    BY <1>7
  <2>2. 0 \in 0..n /\ n \in 0..n /\ \A i \in 1..n : i \in 0..n /\ i # 0
    BY <1>1
  <2>3. h[0] = f[0]
    BY <1>5, <2>1, <2>2
  <2>4. ASSUME NEW i \in 1..n, h[i - 1] = f[i - 1] PROVE h[i] = f[i]
    BY <1>5, <2>1, <2>2, <2>4
  <2>5. SameSteps(h, f, n)
    BY <2>3, <2>4 DEF SameSteps
  <2>6. QED
    BY <1>1, <2>2, <2>5, Agree
<1>9. Totals(f, s)
  BY <1>5 DEF Totals, n
<1>10. QED
  BY <1>2, <1>8, <1>9 DEF n

(* Of output in whatever chunks the bound's worth is kept, and a cut told     *)
(* (CommandExecutor._capture_output).                                        *)
LEMMA CaptureHolds ==
    ASSUME NEW chunks \in Seq(Nat), NEW max \in Nat
    PROVE  CaptureIsPrefix(chunks, max)
<1> DEFINE n == Len(chunks)
           Start == [kept |-> 0, truncated |-> FALSE]
           Defines(g) == g = [i \in 0..n |-> IF i = 0 THEN Start ELSE ReadChunk(g[i - 1], chunks[i], max)]
           h == CHOOSE g : Defines(g)
           Upto(t) == [kept |-> Min({t, max}), truncated |-> t > max]
<1>1. n \in Nat /\ \A i \in 1..n : chunks[i] \in Nat
  BY LenProperties, ElementOfSeq
<1>2. CaptureOutput(chunks, max) = h[n]
  BY DEF CaptureOutput
<1>3. PICK t \in [0..n -> Nat] : Totals(t, chunks) /\ TotalOf(chunks) = t[n]
  BY TotalIs
<1> HIDE DEF n
<1> DEFINE f == [i \in 0..n |-> Upto(t[i])]
<1>4. Upto(0) = Start
  <2>1. Min({0, max}) = 0
    BY LesserOfTwo
  <2>2. (0 > max) = FALSE
    OBVIOUS
  <2>3. QED
    BY <2>1, <2>2
<1>5. ASSUME NEW a \in Nat, NEW b \in Nat PROVE ReadChunk(Upto(a), b, max) = Upto(a + b)
  <2>1. /\ a + b \in Nat /\ Min({a, max}) = (IF a <= max THEN a ELSE max)
        /\ Min({a + b, max}) = (IF a + b <= max THEN a + b ELSE max)
    <3>1. a + b \in Nat
      OBVIOUS
    <3>2. Min({a + b, max}) = (IF a + b <= max THEN a + b ELSE max)
      BY <3>1, LesserOfTwo
    <3>3. QED
      BY <3>1, <3>2, LesserOfTwo
  <2> DEFINE kept == IF a <= max THEN a ELSE max
             left == max - kept
  <2>2. kept \in Nat /\ left \in Nat
    OBVIOUS
  <2>3. Min({b, left}) = IF b <= left THEN b ELSE left
    <3> HIDE DEF kept, left
    <3>1. QED
      BY <2>2, LesserOfTwo
  <2>4. ReadChunk(Upto(a), b, max) = [kept |-> kept + Min({b, left}), truncated |-> a > max \/ b > left]
    BY <2>1 DEF ReadChunk
  <2>5. kept + (IF b <= left THEN b ELSE left) = IF a + b <= max THEN a + b ELSE max
    OBVIOUS
  <2>6. (a > max \/ b > left) = (a + b > max)
    OBVIOUS
  <2> HIDE DEF kept, left
  <2>7. QED
    BY <2>1, <2>3, <2>4, <2>5, <2>6
<1> HIDE DEF Upto, Start
<1>6. t[0] = 0 /\ \A i \in 1..n : t[i - 1] \in Nat /\ t[i] = t[i - 1] + chunks[i]
  <2>1. \A i \in 1..n : i - 1 \in 0..n
    BY <1>1
  <2>2. QED
    BY <1>3, <2>1 DEF Totals, n
<1>7. \A i \in 0..n : f[i] = Upto(t[i])
  OBVIOUS
<1>8. \A i \in 1..n : i \in 0..n /\ i - 1 \in 0..n /\ i # 0
  BY <1>1
<1>9. \A i \in 0..n : i = 0 \/ i \in 1..n
  BY <1>1
<1> HIDE DEF f
<1>10. f[0] = Start /\ \A i \in 1..n : f[i] = ReadChunk(f[i - 1], chunks[i], max)
  <2>1. 0 \in 0..n
    BY <1>1
  <2>2. f[0] = Start
    BY <1>4, <1>6, <1>7, <2>1
  <2>3. ASSUME NEW i \in 1..n PROVE f[i] = ReadChunk(f[i - 1], chunks[i], max)
    <3>1. f[i] = Upto(t[i - 1] + chunks[i]) /\ f[i - 1] = Upto(t[i - 1])
      BY <1>6, <1>7, <1>8
    <3>2. QED
      BY <1>1, <1>5, <1>6, <3>1
  <2>4. QED
    BY <2>2, <2>3
<1>11. Defines(f)
  <2>1. \A i \in 0..n : f[i] = IF i = 0 THEN Start ELSE ReadChunk(f[i - 1], chunks[i], max)
    BY <1>9, <1>10
  <2>2. f = [i \in 0..n |-> f[i]]
    BY DEF f
  <2>3. QED
    BY <2>1, <2>2
<1>12. Defines(h)
  <2> HIDE DEF Defines
  <2>1. QED
    BY <1>11
<1> HIDE DEF h
<1>13. h[n] = f[n]
  <2>1. \A i \in 0..n : h[i] = IF i = 0 THEN Start ELSE ReadChunk(h[i - 1], chunks[i], max)
    BY <1>12
  <2>2. 0 \in 0..n /\ n \in 0..n
    BY <1>1
  <2>3. h[0] = f[0]
    BY <1>10, <2>1, <2>2
  <2>4. ASSUME NEW i \in 1..n, h[i - 1] = f[i - 1] PROVE h[i] = f[i]
    BY <1>8, <1>10, <2>1, <2>4
  <2>5. SameSteps(h, f, n)
    BY <2>3, <2>4 DEF SameSteps
  <2>6. QED
    BY <1>1, <2>2, <2>5, Agree
<1>14. h[n] = Upto(TotalOf(chunks))
  BY <1>1, <1>3, <1>7, <1>13
<1>15. QED
  BY <1>2, <1>14 DEF CaptureIsPrefix, Upto

-----------------------------------------------------------------------------
(* The charts of an execution                                                *)

LEMMA ChartsHold ==
    ASSUME NEW e, e.sizes \in Seq(Nat)
    PROVE  ChartsAreBounded(e)
<1> DEFINE n == Len(e.sizes)
           bad == {i \in DOMAIN e.sizes : i > MaxCharts \/ e.sizes[i] > MaxChartSize}
           upto == IF bad = {} THEN n ELSE Min(bad) - 1
           charts == CollectCharts(e.sizes, e.unreadable)
           r == ExecutePython(e)
<1>1. n \in Nat /\ DOMAIN e.sizes = 1..n /\ \A i \in 1..n : e.sizes[i] \in Nat
  BY LenProperties, ElementOfSeq
<1>2. charts = (1..upto) \ e.unreadable
  BY DEF CollectCharts
<1>3. bad \in SUBSET Nat /\ bad \subseteq 1..n
  BY <1>1
<1>4. bad # {} => Min(bad) \in bad /\ \A i \in bad : Min(bad) <= i
  <2> HIDE DEF bad
  <2>1. QED
    BY <1>3, LeastIs
<1>5. upto \in 0..n /\ \A i \in 1..upto : i \in 1..n /\ i \notin bad
  <2>1. CASE bad = {}
    <3>1. upto = n
      BY <2>1
    <3> HIDE DEF bad, upto
    <3>2. QED
      BY <1>1, <2>1, <3>1
  <2>2. CASE bad # {}
    <3> DEFINE b == Min(bad)
    <3>1. b \in 1..n /\ \A i \in bad : b <= i
      BY <1>3, <1>4, <2>2
    <3>2. upto = b - 1
      BY <2>2
    <3> HIDE DEF upto, b, bad
    <3>3. QED
      BY <1>1, <1>3, <3>1, <3>2
  <2>3. QED
    BY <2>1, <2>2
<1>6. upto <= MaxCharts /\ \A i \in 1..upto : e.sizes[i] <= MaxChartSize
  <2>1. MaxCharts \in Nat /\ MaxChartSize \in Nat
    BY BoundsAssumption
  <2>2. \A i \in 1..upto : ~(i > MaxCharts) /\ ~(e.sizes[i] > MaxChartSize)
    BY <1>1, <1>5
  <2> HIDE DEF upto
  <2>3. upto \in Nat /\ (upto > 0 => upto \in 1..upto)
    BY <1>1, <1>5
  <2>4. upto <= MaxCharts
    BY <2>1, <2>2, <2>3
  <2>5. ASSUME NEW i \in 1..upto PROVE e.sizes[i] <= MaxChartSize
    <3>1. e.sizes[i] \in Nat
      BY <1>1, <1>5
    <3>2. QED
      BY <2>1, <2>2, <3>1
  <2>6. QED
    BY <2>4, <2>5
<1>7. \A i \in 1..n : i \notin 1..upto => i > MaxCharts \/ \E j \in 1..i : e.sizes[j] > MaxChartSize
  <2> SUFFICES ASSUME NEW i \in 1..n, i \notin 1..upto
               PROVE  i > MaxCharts \/ \E j \in 1..i : e.sizes[j] > MaxChartSize
    OBVIOUS
  <2>1. bad # {}
    BY <1>1
  <2> DEFINE b == Min(bad)
  <2>2. b \in 1..n /\ (b > MaxCharts \/ e.sizes[b] > MaxChartSize)
    BY <1>1, <1>4, <2>1
  <2>3. upto = b - 1
    BY <2>1
  <2> HIDE DEF b, upto
  <2>4. b \in 1..i
    BY <1>1, <2>2, <2>3
  <2>5. b > MaxCharts => i > MaxCharts
    BY <1>1, <2>4, BoundsAssumption
  <2>6. QED
    BY <2>2, <2>4, <2>5
<1> HIDE DEF upto, bad
<1>8. Cardinality(charts) <= MaxCharts
  <2>1. IsFiniteSet(1..upto) /\ Cardinality(1..upto) = upto
    <3>1. 1 \in Int /\ upto \in Int /\ (1 > upto => upto = 0) /\ upto - 1 + 1 = upto
      BY <1>1, <1>5
    <3>2. QED
      BY <3>1, FS_Interval
  <2>2. Cardinality(charts) <= Cardinality(1..upto) /\ IsFiniteSet(charts)
    BY <1>2, <2>1, FS_Subset
  <2>3. Cardinality(charts) \in Nat
    BY <2>2, FS_CardinalityType
  <2>4. QED
    BY <1>5, <1>6, <2>1, <2>2, <2>3, BoundsAssumption
<1> HIDE DEF charts
<1>9. \A i \in charts : e.sizes[i] <= MaxChartSize
  BY <1>2, <1>6
<1>10. \A i \in 1..n : i \notin charts /\ i \notin e.unreadable => i > MaxCharts \/ \E j \in 1..i : e.sizes[j] > MaxChartSize
  BY <1>2, <1>7
<1> DEFINE run == RunChild(e.process)
<1>11. r = IF e.fails # "nothing" THEN [success |-> FALSE, charts |-> {}]
           ELSE [success |-> run.success, charts |-> IF run.success THEN charts ELSE {}]
  BY DEF ExecutePython, charts
<1> HIDE DEF r, run
<1>12. /\ e.fails # "nothing" => r.success = FALSE /\ r.charts = {}
       /\ e.fails = "nothing" => r.success = run.success /\ r.charts = IF run.success THEN charts ELSE {}
  <2>1. CASE e.fails # "nothing"
    BY <1>11, <2>1
  <2>2. CASE e.fails = "nothing"
    BY <1>11, <2>2
  <2>3. QED
    BY <2>1, <2>2
<1>13. /\ e.fails # "nothing" => ~r.success /\ r.charts = {}
       /\ e.fails = "nothing" => (r.success => r.charts = charts) /\ (~r.success => r.charts = {})
  BY <1>12, Zenon
<1>14. Cardinality({}) = 0
  BY FS_EmptySet
<1>15. Cardinality(r.charts) <= MaxCharts /\ \A i \in r.charts : e.sizes[i] <= MaxChartSize
  <2>1. r.charts = charts \/ r.charts = {}
    BY <1>13
  <2>2. 0 <= MaxCharts
    BY BoundsAssumption
  <2>3. QED
    BY <1>8, <1>9, <1>14, <2>1, <2>2
<1>16. r.charts # {} => r.success /\ e.fails = "nothing"
  BY <1>13
<1>17. \A i \in DOMAIN e.sizes : i \notin r.charts /\ i \notin e.unreadable /\ r.success
            => i > MaxCharts \/ \E j \in 1..i : e.sizes[j] > MaxChartSize
  BY <1>1, <1>10, <1>13
<1>18. QED
  BY <1>15, <1>16, <1>17 DEF ChartsAreBounded, r

(* BoundsOK, for every file tree, request, child process and history of       *)
(* attempts: no operation leaves the workspace, what is written is read       *)
(* back, output and charts are cut at their bounds, a child ends in time and  *)
(* attempts meet their limit.                                                *)
THEOREM BoundsHold == QuestionSpec => []BoundsOK
<1>1. Put(asked) => BoundsOK
  <2> SUFFICES ASSUME Put(asked) PROVE BoundsOK
    OBVIOUS
  <2>1. asked.of = "files" => WorkspaceOK /\ WrittenOK
    <3> SUFFICES ASSUME asked.of = "files" PROVE WorkspaceOK /\ WrittenOK
      OBVIOUS
    <3>1. IsTree(asked.fs) /\ IsPathRequest(asked.request)
      BY BoundsQuestions DEF Put
    <3>2. QED
      BY <3>1, WorkspaceIsKept, WhatIsWrittenIsRead DEF WorkspaceOK, WrittenOK
  <2>2. asked.of = "capture" => CaptureOK
    BY BoundsQuestions, CaptureHolds DEF Put, CaptureOK
  <2>3. asked.of = "process" => ProcessOK /\ ChartsOK
    <3> SUFFICES ASSUME asked.of = "process" PROVE ProcessOK /\ ChartsOK
      OBVIOUS
    <3>9. asked.of = "process" /\ Put(asked)
      OBVIOUS
    <3>1. asked.execution.process \in ChildProcess /\ asked.execution.sizes \in Seq(Nat)
      <4>1. asked.execution \in Executions
        BY <3>9 DEF Put
      <4>2. asked.execution.process \in Processes /\ asked.execution.sizes \in ChartSizes
        BY <4>1 DEF Executions
      <4>3. QED
        BY <4>2, BoundsQuestions
    <3>2. QED
      BY <3>1, BoundsAssumption, ChildIsAlwaysBounded, ChartsHold DEF ProcessOK, ChartsOK
  <2>4. asked.of = "attempts" => AttemptsOK
    BY BoundsQuestions, BoundsAssumption, AttemptsAreAlwaysLimited DEF Put, AttemptsOK
  <2>5. QED
    BY <2>1, <2>2, <2>3, <2>4 DEF BoundsOK, WorkspaceOK, WrittenOK, CaptureOK, ProcessOK, ChartsOK, AttemptsOK
<1>2. QED
  BY <1>1, AlwaysPut, PTL

=============================================================================
