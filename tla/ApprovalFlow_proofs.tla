------------------------ MODULE ApprovalFlow_proofs -------------------------
(***************************************************************************)
(* Proofs about ApprovalFlow, for every number of requests, approvals and  *)
(* faults. And about Decisions: what the policy, the catalog of a database *)
(* and the functions offered to a model answer, to every question that may *)
(* be put to them.                                                         *)
(***************************************************************************)
EXTENDS ApprovalFlow, Decisions, SequenceTheorems, FunctionTheorems, FiniteSetTheorems,
        WellFoundedInduction, TLAPS

(* A request works on an approval as long as it has not ended. *)
Addressed ==
    \A r \in Requests :
        pc[r] \in {"checked", "resolved", "executing", "driving", "completing"}
            => about[r] \in Approvals

(* Nothing runs without a claim, and no claim is made without a file.      *)
Filed ==
    \A a \in Approvals :
        /\ gate[a] = "absent" => ~started[a]
        /\ ~started[a] => executed[a] = 0
        /\ executed[a] <= 1

(* A task about to execute holds the claim of an approved, unused action.  *)
Acting ==
    \A t \in Tasks :
        pc[t] = "executing" =>
            /\ t \in Requests
            /\ gate[about[t]] = "approved"
            /\ started[about[t]]
            /\ executed[about[t]] = 0

(* The run is running exactly while a task drives it, and waiting exactly  *)
(* while one request on file is still to be claimed.  This is what makes   *)
(* the claim exclusive: a claimable request exists only while nobody       *)
(* drives the run.                                                         *)
DriverRuns == truth = "running" <=> Driving # {}
WaitingOpen == truth = "waiting_for_approval" <=> Open # {}
OneOpen == \A a, b \in Open : a = b

Control == Addressed /\ Filed /\ Acting /\ OneDriver /\ DriverRuns
           /\ WaitingOpen /\ OneOpen

-----------------------------------------------------------------------------
LEMMA InitControl == Init => TypeOK /\ Control
<1>1. Init => TypeOK
  BY TasksAssumption DEF Init, TypeOK, Tasks, Answers, Statuses, Outcomes
<1>2. ASSUME Init
      PROVE  Control
  <2>1. Driving = {Main}
    BY <1>2 DEF Init, Driving, Tasks
  <2>2. Open = {}
    BY <1>2 DEF Init, Open
  <2>3. Addressed /\ Filed /\ Acting
    BY <1>2, TasksAssumption DEF Init, Addressed, Filed, Acting, Tasks
  <2>4. QED
    BY <1>2, <2>1, <2>2, <2>3
    DEF Init, Control, OneDriver, DriverRuns, WaitingOpen, OneOpen
<1>3. QED
  BY <1>1, <1>2

LEMMA NextType ==
    ASSUME TypeOK, Addressed, [Next]_vars
    PROVE  TypeOK'
<1> USE DEF store, tasks, records, Goto, Answers, Statuses, Outcomes
<1>1. ASSUME NEW t \in Tasks, NEW a \in Approvals, Pause(t, a)
      PROVE  TypeOK'
  BY <1>1 DEF TypeOK, Pause, Return
<1>2. ASSUME NEW t \in Tasks, NEW outcome \in Outcomes, Conclude(t, outcome)
      PROVE  TypeOK'
  BY <1>2 DEF TypeOK, Conclude, Return
<1>3. ASSUME NEW t \in Tasks, Raise(t)
      PROVE  TypeOK'
  BY <1>3 DEF TypeOK, Raise
<1>4. ASSUME NEW r \in Requests, Resolve(r)
      PROVE  TypeOK'
  BY <1>4 DEF TypeOK, Resolve, Expired, Lapsed, Tasks
<1>5. ASSUME NEW r \in Requests, Claim(r)
      PROVE  TypeOK'
  BY <1>5 DEF TypeOK, Claim, Tasks
<1>6. ASSUME NEW r \in Requests, ReadCheckpoint(r)
      PROVE  TypeOK'
  <2>1. about[r] \in Approvals
    BY <1>6 DEF Addressed, ReadCheckpoint
  <2>2. QED
    BY <1>6, <2>1 DEF TypeOK, ReadCheckpoint, Tasks
<1>7. ASSUME NEW r \in Requests, Execute(r)
      PROVE  TypeOK'
  <2>1. executed' \in [Approvals -> Nat]
    BY <1>7 DEF TypeOK, Execute
  <2>2. QED
    BY <1>7, <2>1 DEF TypeOK, Execute, Tasks
<1>8. ASSUME NEW r \in Requests, Complete(r)
      PROVE  TypeOK'
  BY <1>8 DEF TypeOK, Complete, Tasks
<1>9. ASSUME NEW t \in Tasks, Publish(t)
      PROVE  TypeOK'
  BY <1>9 DEF TypeOK, Publish
<1>10. ASSUME NEW t \in Tasks, Persist(t)
       PROVE  TypeOK'
  BY <1>10 DEF TypeOK, Persist
<1>11. ASSUME NEW r \in Requests, NEW a \in Approvals, NEW answer \in Answers,
              Post(r, a, answer)
       PROVE  TypeOK'
  BY <1>11 DEF TypeOK, Post, Expired, Lapsed, Tasks
<1>12. ASSUME NEW t \in Tasks, PersistFails(t)
       PROVE  TypeOK'
  BY <1>12, TasksAssumption DEF TypeOK, PersistFails, Fault
<1>13. CASE Start \/ StartFails \/ Crash
  BY <1>13, TasksAssumption DEF TypeOK, Start, StartFails, Crash, Fault, Tasks
<1>14. ASSUME NEW a \in Approvals, Deadline(a) \/ View(a)
       PROVE  TypeOK'
  BY <1>14 DEF TypeOK, Deadline, View
<1>15. CASE DeleteConversation
  BY <1>15 DEF TypeOK, DeleteConversation
<1>16. CASE UNCHANGED vars
  BY <1>16 DEF TypeOK, vars
<1>17. QED
  BY <1>1, <1>2, <1>3, <1>4, <1>5, <1>6, <1>7, <1>8, <1>9, <1>10, <1>11, <1>12,
     <1>13, <1>14, <1>15, <1>16
  DEF Next, Step, Drive, Environment

-----------------------------------------------------------------------------
(* A task that is not driving goes on to a place where it does not drive   *)
(* either, or an approval expires: whether the run is driven, and which    *)
(* request is open, stays as it is.                                        *)
LEMMA QuietStep ==
    ASSUME TypeOK, TypeOK', Control,
           UNCHANGED <<started, executed, truth>>,
           \A t \in Tasks :
               \/ pc'[t] = pc[t] /\ about'[t] = about[t]
               \/ /\ pc[t] \notin {"starting", "executing", "driving"}
                  /\ pc'[t] \in {"publishing", "persisting", "done"}
               \/ /\ pc[t] \notin {"starting", "executing", "driving"}
                  /\ pc'[t] \in {"checked", "resolved"}
                  /\ about'[t] \in Approvals,
           \A a \in Approvals :
               \/ gate'[a] = gate[a]
               \/ gate[a] = "pending" /\ gate'[a] # "absent"
    PROVE  Control'
<1>1. Driving' = Driving
  BY DEF Driving
<1>2. Open' = Open
  BY DEF Open
<1>3. Addressed'
  BY DEF Control, Addressed, Tasks
<1>4. Filed'
  BY DEF Control, Filed
<1>5. Acting'
  <2>1. SUFFICES ASSUME NEW t \in Tasks, pc'[t] = "executing"
                 PROVE  /\ t \in Requests
                        /\ gate'[about'[t]] = "approved"
                        /\ started'[about'[t]]
                        /\ executed'[about'[t]] = 0
    BY DEF Acting
  <2>2. pc[t] = "executing" /\ about'[t] = about[t]
    BY <2>1
  <2>3. /\ t \in Requests /\ gate[about[t]] = "approved"
        /\ started[about[t]] /\ executed[about[t]] = 0
    BY <2>2 DEF Control, Acting
  <2>4. about[t] \in Approvals
    BY <2>2, <2>3 DEF Control, Addressed
  <2>5. QED
    BY <2>2, <2>3, <2>4
<1>6. QED
  BY <1>1, <1>2, <1>3, <1>4, <1>5
  DEF Control, OneDriver, DriverRuns, WaitingOpen, OneOpen

(* The one driver stops driving. *)
LEMMA OnlyDriver ==
    ASSUME TypeOK, Control, NEW t \in Tasks, pc[t] \in {"starting", "executing", "driving"}
    PROVE  Driving = {t} /\ truth = "running" /\ Open = {}
<1>1. t \in Driving
  BY DEF Driving
<1>2. Driving = {t}
  BY <1>1 DEF Control, OneDriver, Driving
<1>3. truth = "running"
  BY <1>1 DEF Control, DriverRuns
<1>4. QED
  BY <1>2, <1>3 DEF Control, WaitingOpen

LEMMA StopDriving ==
    ASSUME TypeOK, TypeOK', Control, NEW t \in Tasks,
           NEW place \in {"completing", "publishing", "done"},
           pc[t] = "driving" \/ (pc[t] = "starting" /\ place = "done"),
           pc' = [pc EXCEPT ![t] = place], UNCHANGED about
    PROVE  Driving' = {} /\ Addressed' /\ Acting'
<1>1. Driving = {t}
  BY OnlyDriver
<1>2. Driving' = {}
  BY <1>1 DEF Driving, TypeOK
<1>3. Addressed'
  BY DEF Control, Addressed, TypeOK, Tasks
<1>4. Acting'
  BY <1>2 DEF Acting, Driving
<1>5. QED
  BY <1>2, <1>3, <1>4

LEMMA NextControl ==
    ASSUME TypeOK, TypeOK', Control, [Next]_vars
    PROVE  Control'
<1> USE DEF store, tasks, records, Goto
<1>1. ASSUME NEW t \in Tasks, NEW a \in Approvals, Pause(t, a)
      PROVE  Control'
  <2>1. Driving = {t} /\ Open = {}
    BY <1>1, OnlyDriver DEF Pause, Return
  <2>2. Driving' = {} /\ Addressed' /\ Acting'
    BY <1>1, StopDriving DEF Pause, Return
  <2>3. Open' = {a}
    BY <1>1, <2>1 DEF Pause, Open, Control, Filed, TypeOK
  <2>4. Filed'
    BY <1>1 DEF Pause, Control, Filed, TypeOK
  <2>5. truth' = "waiting_for_approval"
    BY <1>1 DEF Pause
  <2>6. QED
    BY <2>2, <2>3, <2>4, <2>5
    DEF Control, OneDriver, DriverRuns, WaitingOpen, OneOpen
<1>2. ASSUME NEW t \in Tasks, Raise(t) \/ \E outcome \in Outcomes : Conclude(t, outcome)
      PROVE  Control'
  <2>1. Driving = {t} /\ Open = {}
    BY <1>2, OnlyDriver DEF Raise, Conclude, Return
  <2>2. Driving' = {} /\ Addressed' /\ Acting'
    BY <1>2, StopDriving DEF Raise, Conclude, Return
  <2>3. Open' = {}
    BY <1>2, <2>1 DEF Raise, Conclude, Open
  <2>4. Filed'
    BY <1>2 DEF Raise, Conclude, Control, Filed
  <2>5. truth' \in {"completed", "failed", "lost"}
    BY <1>2 DEF Raise, Conclude, Outcomes
  <2>6. QED
    BY <2>2, <2>3, <2>4, <2>5
    DEF Control, OneDriver, DriverRuns, WaitingOpen, OneOpen
<1>3. ASSUME NEW r \in Requests, Resolve(r)
      PROVE  Control'
  <2>1. about[r] \in Approvals
    BY <1>3 DEF Control, Addressed, Resolve
  <2>2. r \in Tasks /\ pc[r] = "checked" /\ pc'[r] \in {"resolved", "done"}
    BY <1>3 DEF Resolve, Tasks, TypeOK
  <2>3. /\ \A t \in Tasks : t # r => pc'[t] = pc[t]
        /\ UNCHANGED <<about, started, executed, truth>>
    BY <1>3 DEF Resolve, TypeOK
  <2>4. \A a \in Approvals :
           gate'[a] = gate[a] \/ (gate[a] = "pending" /\ gate'[a] # "absent")
    BY <1>3, <2>1, <2>2 DEF Resolve, Expired, Lapsed, TypeOK, Answers
  <2>5. QED
    BY <2>1, <2>2, <2>3, <2>4, QuietStep
<1>4. ASSUME NEW r \in Requests, Claim(r)
      PROVE  Control'
  <2>1. r \in Tasks /\ about[r] \in Approvals /\ pc[r] = "resolved"
    BY <1>4 DEF Control, Addressed, Claim, Tasks
  <2>2. gate[about[r]] = decision[r] /\ decision[r] \in Answers /\ ~started[about[r]]
    BY <1>4, <2>1 DEF Claim, Claimable, TypeOK
  <2>3. about[r] \in Open
    BY <2>1, <2>2 DEF Open, Answers
  <2>4. Open = {about[r]} /\ truth = "waiting_for_approval" /\ Driving = {}
    BY <2>3 DEF Control, OneOpen, WaitingOpen, DriverRuns
  <2>5. Open' = {}
    BY <1>4, <2>1, <2>4 DEF Claim, Open, TypeOK
  <2>6. Driving' = {r}
    BY <1>4, <2>1, <2>4 DEF Claim, Driving, TypeOK
  <2>7. Addressed'
    BY <1>4, <2>1 DEF Claim, Control, Addressed, TypeOK, Tasks
  <2>8. Filed'
    BY <1>4, <2>1, <2>2 DEF Claim, Control, Filed, TypeOK, Answers
  <2>9. Acting'
    <3>1. executed[about[r]] = 0
      BY <2>1, <2>2 DEF Control, Filed
    <3>2. SUFFICES ASSUME NEW t \in Tasks, pc'[t] = "executing"
                   PROVE  /\ t \in Requests
                          /\ gate'[about'[t]] = "approved"
                          /\ started'[about'[t]]
                          /\ executed'[about'[t]] = 0
      BY DEF Acting
    <3>3. t = r
      BY <2>6, <3>2 DEF Driving
    <3>4. gate[about[r]] = "approved"
      BY <1>4, <2>1, <2>2, <3>2, <3>3 DEF Claim, TypeOK
    <3>5. QED
      BY <1>4, <2>1, <3>1, <3>3, <3>4 DEF Claim, TypeOK
  <2>10. truth' = "running"
    BY <1>4 DEF Claim
  <2>11. QED
    BY <2>5, <2>6, <2>7, <2>8, <2>9, <2>10
    DEF Control, OneDriver, DriverRuns, WaitingOpen, OneOpen
<1>5. ASSUME NEW r \in Requests, Execute(r)
      PROVE  Control'
  <2>1. r \in Tasks /\ pc[r] = "executing" /\ about[r] \in Approvals
    BY <1>5 DEF Control, Addressed, Execute, Tasks
  <2>2. Driving = {r}
    BY <2>1, OnlyDriver
  <2>3. Driving' = {r}
    BY <1>5, <2>1, <2>2 DEF Execute, Driving, TypeOK
  <2>4. Open' = Open
    BY <1>5 DEF Execute, Open
  <2>5. Addressed'
    BY <1>5, <2>1 DEF Execute, Control, Addressed, TypeOK, Tasks
  <2>6. executed[about[r]] = 0 /\ started[about[r]]
    BY <2>1 DEF Control, Acting
  <2>7. Filed'
    BY <1>5, <2>1, <2>6 DEF Execute, Control, Filed, TypeOK
  <2>8. \A t \in Tasks : pc'[t] # "executing"
    BY <1>5, <2>1, <2>3 DEF Execute, Driving, TypeOK
  <2>9. Acting'
    BY <2>8 DEF Acting
  <2>10. UNCHANGED truth
    BY <1>5 DEF Execute
  <2>11. QED
    BY <2>2, <2>3, <2>4, <2>5, <2>7, <2>9, <2>10
    DEF Control, OneDriver, DriverRuns, WaitingOpen, OneOpen
<1>6. ASSUME NEW t \in Tasks,
             \/ ReadCheckpoint(t) \/ Complete(t) \/ Publish(t) \/ Persist(t)
             \/ PersistFails(t)
      PROVE  Control'
  <2>1. /\ pc[t] \notin {"starting", "executing", "driving"}
        /\ pc'[t] \in {"publishing", "persisting", "done"}
        /\ \A u \in Tasks : u # t => pc'[u] = pc[u]
        /\ UNCHANGED <<about, gate, started, executed, truth>>
    BY <1>6 DEF ReadCheckpoint, Complete, Publish, Persist, PersistFails, TypeOK
  <2>2. QED
    BY <2>1, QuietStep
<1>7. ASSUME NEW r \in Requests, NEW a \in Approvals, NEW answer \in Answers,
             Post(r, a, answer)
      PROVE  Control'
  <2>1. /\ r \in Tasks /\ pc[r] = "idle" /\ pc'[r] \in {"checked", "done"}
        /\ about'[r] = a
    BY <1>7 DEF Post, TypeOK, Tasks
  <2>2. /\ \A t \in Tasks : t # r => pc'[t] = pc[t] /\ about'[t] = about[t]
        /\ UNCHANGED <<started, executed, truth>>
    BY <1>7 DEF Post, TypeOK
  <2>3. \A b \in Approvals :
           gate'[b] = gate[b] \/ (gate[b] = "pending" /\ gate'[b] # "absent")
    BY <1>7 DEF Post, Expired, Lapsed, TypeOK
  <2>4. QED
    BY <2>1, <2>2, <2>3, QuietStep
<1>8. CASE Crash
  <2>1. Driving' = {}
    BY <1>8 DEF Crash, Driving
  <2>2. Open' = Open
    BY <1>8 DEF Crash, Open
  <2>3. Addressed'
    BY <1>8 DEF Crash, Addressed, Tasks
  <2>4. Filed' /\ Acting'
    BY <1>8 DEF Crash, Control, Filed, Acting
  <2>5. truth' = IF truth = "running" THEN "lost" ELSE truth
    BY <1>8 DEF Crash
  <2>6. QED
    BY <2>1, <2>2, <2>3, <2>4, <2>5
    DEF Control, OneDriver, DriverRuns, WaitingOpen, OneOpen
<1>9. ASSUME NEW a \in Approvals, Deadline(a) \/ View(a)
      PROVE  Control'
  <2>1. UNCHANGED <<pc, about, started, executed, truth>>
    BY <1>9 DEF Deadline, View
  <2>2. \A b \in Approvals :
           gate'[b] = gate[b] \/ (gate[b] = "pending" /\ gate'[b] # "absent")
    BY <1>9 DEF Deadline, View, Lapsed, TypeOK
  <2>3. QED
    BY <2>1, <2>2, QuietStep
<1>10. CASE DeleteConversation \/ UNCHANGED vars
  <2>1. UNCHANGED <<gate, pc, about, started, executed, truth>>
    BY <1>10 DEF DeleteConversation, vars
  <2>2. QED
    BY <2>1, QuietStep
<1>11. CASE Start
  <2>1. Main \in Tasks /\ Driving = {Main}
    BY <1>11, OnlyDriver DEF Start, Tasks
  <2>2. Driving' = {Main}
    BY <1>11, <2>1 DEF Start, Driving, TypeOK
  <2>3. Open' = Open
    BY <1>11 DEF Start, Open
  <2>4. Addressed'
    BY <1>11, TasksAssumption DEF Start, Control, Addressed, TypeOK, Tasks
  <2>5. Acting'
    BY <1>11 DEF Start, Control, Acting, TypeOK
  <2>6. Filed' /\ UNCHANGED truth
    BY <1>11 DEF Start, Control, Filed
  <2>7. QED
    BY <2>1, <2>2, <2>3, <2>4, <2>5, <2>6
    DEF Control, OneDriver, DriverRuns, WaitingOpen, OneOpen
<1>12. CASE StartFails
  <2>1. Main \in Tasks /\ Driving = {Main} /\ Open = {}
    BY <1>12, OnlyDriver DEF StartFails, Tasks
  <2>2. Driving' = {} /\ Addressed' /\ Acting'
    BY <1>12, <2>1, StopDriving DEF StartFails
  <2>3. Open' = {}
    BY <1>12, <2>1 DEF StartFails, Open
  <2>4. Filed' /\ truth' = "lost"
    BY <1>12 DEF StartFails, Control, Filed
  <2>5. QED
    BY <2>2, <2>3, <2>4
    DEF Control, OneDriver, DriverRuns, WaitingOpen, OneOpen
<1>13. QED
  BY <1>1, <1>2, <1>3, <1>4, <1>5, <1>6, <1>7, <1>8, <1>9, <1>10, <1>11, <1>12
  DEF Next, Step, Drive, Environment, Tasks

LEMMA ControlInvariant == Spec => [](TypeOK /\ Control)
<1>1. TypeOK /\ Control /\ [Next]_vars => (TypeOK /\ Control)'
  <2>1. Control => Addressed
    BY DEF Control
  <2>2. QED
    BY <2>1, NextType, NextControl
<1>2. QED
  BY <1>1, InitControl, PTL DEF Spec

(* Every record and file keeps its type. *)
THEOREM TypeCorrect == Spec => []TypeOK
BY ControlInvariant, PTL

(* However many requests approve the same action, in whatever order they   *)
(* run and whenever the process dies, the action runs at most once.        *)
THEOREM ExecutionIsUnique == Spec => []ExecutedAtMostOnce
<1>1. Control => ExecutedAtMostOnce
  BY DEF Control, Filed, ExecutedAtMostOnce
<1>2. QED
  BY <1>1, ControlInvariant, PTL

(* No two tasks ever drive the run at the same time.                       *)
THEOREM DriverIsUnique == Spec => []OneDriver
<1>1. Control => OneDriver
  BY DEF Control
<1>2. QED
  BY <1>1, ControlInvariant, PTL

(* An approval is expired only when its deadline has passed. *)
ExpiredIsOverdue == \A a \in Approvals : gate[a] = "expired" => overdue[a]

LEMMA NextExpired ==
    ASSUME TypeOK, Addressed, ExpiredIsOverdue, [Next]_vars
    PROVE  ExpiredIsOverdue'
<1> USE DEF store, tasks, records
<1>1. (UNCHANGED <<gate, overdue>>) => ExpiredIsOverdue'
  BY DEF ExpiredIsOverdue
<1>2. ASSUME NEW t \in Tasks, NEW a \in Approvals, Pause(t, a)
      PROVE  ExpiredIsOverdue'
  BY <1>2 DEF ExpiredIsOverdue, Pause, TypeOK
<1>3. ASSUME NEW a \in Approvals, Expired(a) = "expired"
      PROVE  overdue[a]
  BY <1>3 DEF ExpiredIsOverdue, Expired, Lapsed
<1>4. ASSUME NEW r \in Requests, Resolve(r)
      PROVE  ExpiredIsOverdue'
  <2>1. about[r] \in Approvals
    BY <1>4 DEF Addressed, Resolve
  <2>2. decision[r] # "expired"
    BY DEF TypeOK, Tasks, Answers
  <2>3. /\ gate' = [gate EXCEPT ![about[r]] = IF Expired(about[r]) = "pending"
                                             THEN decision[r] ELSE Expired(about[r])]
        /\ UNCHANGED overdue
    BY <1>4 DEF Resolve
  <2>4. QED
    BY <1>3, <2>1, <2>2, <2>3 DEF ExpiredIsOverdue, TypeOK
<1>5. ASSUME NEW r \in Requests, NEW a \in Approvals, NEW answer \in Answers,
             Post(r, a, answer)
      PROVE  ExpiredIsOverdue'
  <2>1. gate' = [gate EXCEPT ![a] = Expired(a)] /\ UNCHANGED overdue
    BY <1>5 DEF Post
  <2>2. QED
    BY <1>3, <2>1 DEF ExpiredIsOverdue, TypeOK
<1>6. ASSUME NEW a \in Approvals, Deadline(a) \/ View(a)
      PROVE  ExpiredIsOverdue'
  BY <1>6 DEF ExpiredIsOverdue, Deadline, View, Lapsed, TypeOK
<1>7. ASSUME NEW t \in Tasks,
             \/ \E outcome \in Outcomes : Conclude(t, outcome)
             \/ Raise(t) \/ Publish(t) \/ Persist(t) \/ PersistFails(t)
      PROVE  ExpiredIsOverdue'
  BY <1>1, <1>7 DEF Conclude, Raise, Publish, Persist, PersistFails
<1>8. ASSUME NEW r \in Requests,
             Claim(r) \/ ReadCheckpoint(r) \/ Execute(r) \/ Complete(r)
      PROVE  ExpiredIsOverdue'
  BY <1>1, <1>8 DEF Claim, ReadCheckpoint, Execute, Complete
<1>9. CASE \/ Start \/ StartFails \/ Crash \/ DeleteConversation \/ UNCHANGED vars
  BY <1>1, <1>9 DEF Start, StartFails, Crash, DeleteConversation, vars
<1>10. QED
  BY <1>2, <1>4, <1>5, <1>6, <1>7, <1>8, <1>9 DEF Next, Step, Drive, Environment

(* A run waits exactly while one request is still to be claimed, and that  *)
(* request is answerable, answered, or was left unanswered too long, for   *)
(* any number of requests, answers and crashes.                            *)
THEOREM WaitingIsAlwaysOnFile == Spec => []WaitingIsOnFile
<1>1. ASSUME TypeOK, Control, ExpiredIsOverdue
      PROVE  WaitingIsOnFile
  <2>1. ASSUME NEW a \in Open
        PROVE  Answerable(a) \/ MayBeClaimed(a) \/ MissedDeadline(a)
    <3>1. /\ a \in Approvals /\ gate[a] # "absent"
          /\ gate[a] \in {"absent", "pending", "approved", "rejected", "expired"}
      BY <1>1, <2>1 DEF Open, TypeOK
    <3>2. gate[a] = "expired" => overdue[a]
      BY <1>1, <3>1 DEF ExpiredIsOverdue
    <3>3. QED
      BY <3>1, <3>2 DEF Answerable, MayBeClaimed, MissedDeadline, Answers
  <2>2. QED
    BY <1>1, <2>1 DEF Control, WaitingOpen, OneOpen, WaitingIsOnFile
<1>2. Init => ExpiredIsOverdue
  BY DEF Init, ExpiredIsOverdue
<1>3. TypeOK /\ Control /\ ExpiredIsOverdue /\ [Next]_vars => ExpiredIsOverdue'
  BY NextExpired DEF Control
<1>4. QED
  BY <1>1, <1>2, <1>3, ControlInvariant, PTL DEF Spec

-----------------------------------------------------------------------------
(* A completion that a checkpoint holds, or that a task carries to the     *)
(* run's records, is the run's own: no task ever takes one from elsewhere. *)
Told ==
    /\ \A a \in Approvals : checkpoint[a] = "completed" => truth = "completed"
    /\ \A t \in Tasks :
          /\ pc[t] \in {"completing", "publishing", "persisting"}
          /\ result[t] = "completed"
          => truth = "completed"

LEMMA InitTold == Init => Told /\ AnswersAreTrue
BY TasksAssumption DEF Init, Told, AnswersAreTrue

(* A completed run is not driven and not claimable: it stays completed.    *)
LEMMA CompletedStays ==
    ASSUME TypeOK, Control, [Next]_vars, truth = "completed"
    PROVE  truth' = "completed"
<1>1. Driving = {} /\ Open = {}
  BY DEF Control, DriverRuns, WaitingOpen
<1>2. \A t \in Tasks : pc[t] # "driving" /\ pc[t] # "starting"
  BY <1>1 DEF Driving
<1>3. \A r \in Requests : ~Claim(r)
  <2>1. SUFFICES ASSUME NEW r \in Requests, Claim(r)
                 PROVE  FALSE
    OBVIOUS
  <2>2. r \in Tasks /\ about[r] \in Approvals
    BY <2>1 DEF Control, Addressed, Claim, Tasks
  <2>3. gate[about[r]] # "absent" /\ ~started[about[r]]
    BY <2>1, <2>2 DEF Claim, Claimable, TypeOK, Answers
  <2>4. QED
    BY <1>1, <2>2, <2>3 DEF Open
<1>4. Main \in Tasks
  BY DEF Tasks
<1>5. QED
  BY <1>2, <1>3, <1>4
  DEF Next, Step, Drive, Environment, vars, store, tasks, records, Pause, Conclude,
      Return, Raise, Start, StartFails, Resolve, ReadCheckpoint, Execute, Complete, Publish, Persist,
      Post, PersistFails, Crash, Deadline, View, DeleteConversation

LEMMA NextTold ==
    ASSUME TypeOK, TypeOK', Control, Told, AnswersAreTrue, [Next]_vars
    PROVE  Told' /\ AnswersAreTrue'
<1> USE DEF store, tasks, records, Goto
<1>1. truth = "completed" => truth' = "completed"
  BY CompletedStays
<1>2. ASSUME UNCHANGED <<checkpoint, managed, db, replies>>,
             \A t \in Tasks :
                 /\ pc'[t] \in {"completing", "publishing", "persisting"}
                 /\ result'[t] = "completed"
                 => \/ truth' = "completed"
                    \/ /\ pc[t] \in {"completing", "publishing", "persisting"}
                       /\ result'[t] = result[t]
      PROVE  Told' /\ AnswersAreTrue'
  BY <1>1, <1>2 DEF Told, AnswersAreTrue
<1>3. ASSUME NEW t \in Tasks, NEW a \in Approvals, Pause(t, a)
      PROVE  Told' /\ AnswersAreTrue'
  <2>1. truth # "completed"
    BY <1>3, OnlyDriver DEF Pause, Return
  <2>2. Told'
    BY <1>3, <2>1 DEF Pause, Return, Told, TypeOK
  <2>3. QED
    BY <1>3, <2>1, <2>2 DEF Pause, AnswersAreTrue
<1>4. ASSUME NEW t \in Tasks, NEW outcome \in Outcomes, Conclude(t, outcome)
      PROVE  Told' /\ AnswersAreTrue'
  BY <1>2, <1>4 DEF Conclude, Return, TypeOK
<1>5. ASSUME NEW t \in Tasks, Raise(t)
      PROVE  Told' /\ AnswersAreTrue'
  BY <1>2, <1>5 DEF Raise, TypeOK
<1>6. ASSUME NEW r \in Requests, Resolve(r) \/ Claim(r) \/ Execute(r)
      PROVE  Told' /\ AnswersAreTrue'
  BY <1>2, <1>6 DEF Resolve, Claim, Execute, TypeOK, Tasks
<1>7. ASSUME NEW r \in Requests, ReadCheckpoint(r)
      PROVE  Told' /\ AnswersAreTrue'
  <2>1. r \in Tasks /\ about[r] \in Approvals
    BY <1>7 DEF ReadCheckpoint, Control, Addressed, Tasks
  <2>2. result'[r] = checkpoint[about[r]]
    BY <1>7, <2>1 DEF ReadCheckpoint, TypeOK
  <2>3. result'[r] = "completed" => truth' = "completed"
    BY <1>1, <2>1, <2>2 DEF Told
  <2>4. /\ UNCHANGED <<checkpoint, managed, db, replies>>
        /\ \A t \in Tasks : t # r => pc'[t] = pc[t] /\ result'[t] = result[t]
    BY <1>7 DEF ReadCheckpoint, TypeOK
  <2>5. QED
    BY <1>2, <2>3, <2>4
<1>8. ASSUME NEW r \in Requests, Complete(r)
      PROVE  Told' /\ AnswersAreTrue'
  <2>1. r \in Tasks /\ about[r] \in Approvals
    BY <1>8 DEF Complete, Control, Addressed, Tasks
  <2>2. result[r] = "completed" => truth' = "completed"
    BY <1>1, <1>8, <2>1 DEF Complete, Told
  <2>3. Told'
    BY <1>1, <1>8, <2>1, <2>2 DEF Complete, Told, TypeOK
  <2>4. QED
    BY <1>1, <1>8, <2>3 DEF Complete, AnswersAreTrue
<1>9. ASSUME NEW t \in Tasks, Publish(t) \/ Persist(t)
      PROVE  Told' /\ AnswersAreTrue'
  <2>1. result[t] = "completed" => truth' = "completed"
    BY <1>1, <1>9 DEF Publish, Persist, Told
  <2>2. Told'
    BY <1>1, <1>9, <2>1 DEF Publish, Persist, Told, TypeOK
  <2>3. AnswersAreTrue'
    BY <1>1, <1>9, <2>1 DEF Publish, Persist, AnswersAreTrue
  <2>4. QED
    BY <2>2, <2>3
<1>10. ASSUME NEW r \in Requests, NEW a \in Approvals, NEW answer \in Answers,
              Post(r, a, answer)
       PROVE  Told' /\ AnswersAreTrue'
  BY <1>2, <1>10 DEF Post, TypeOK, Tasks
<1>11. ASSUME NEW t \in Tasks, PersistFails(t)
       PROVE  Told' /\ AnswersAreTrue'
  BY <1>2, <1>11 DEF PersistFails, TypeOK
<1>12. CASE Crash
  <2>1. Told'
    BY <1>1, <1>12 DEF Crash, Told
  <2>2. AnswersAreTrue'
    BY <1>1, <1>12 DEF Crash, AnswersAreTrue
  <2>3. QED
    BY <2>1, <2>2
<1>13. ASSUME NEW a \in Approvals, Deadline(a) \/ View(a)
       PROVE  Told' /\ AnswersAreTrue'
  BY <1>2, <1>13 DEF Deadline, View
<1>14. CASE DeleteConversation
  BY <1>1, <1>14 DEF DeleteConversation, Told, AnswersAreTrue
<1>15. CASE Start \/ StartFails \/ UNCHANGED vars
  BY <1>2, <1>15 DEF Start, StartFails, vars, TypeOK
<1>16. QED
  BY <1>3, <1>4, <1>5, <1>6, <1>7, <1>8, <1>9, <1>10, <1>11, <1>12, <1>13, <1>14,
     <1>15
  DEF Next, Step, Drive, Environment

(* No record of the run, live or in the database, and no reply in its      *)
(* conversation announces an answer the run did not give.                  *)
THEOREM AnswersAreAlwaysTrue == Spec => []AnswersAreTrue
<1>1. /\ TypeOK /\ Control /\ TypeOK' /\ Told /\ AnswersAreTrue /\ [Next]_vars
      => Told' /\ AnswersAreTrue'
  BY NextTold
<1>2. Init => Told /\ AnswersAreTrue
  BY InitTold
<1>3. QED
  BY <1>1, <1>2, ControlInvariant, PTL DEF Spec

-----------------------------------------------------------------------------
(* The refinement of HumanGate *)

LEMMA DueOfNone ==
    ASSUME NEW places, NEW subjects, \A t \in Tasks : places[t] # "executing"
    PROVE  DueOf(places, subjects) = NoApproval
BY DEF DueOf

LEMMA DueOfOne ==
    ASSUME NEW places, NEW subjects, NEW t \in Tasks, places[t] = "executing",
           \A u \in Tasks : places[u] = "executing" => u = t
    PROVE  DueOf(places, subjects) = subjects[t]
<1> DEFINE acting == {u \in Tasks : places[u] = "executing"}
<1>1. acting = {t}
  OBVIOUS
<1>2. (CHOOSE u \in acting : TRUE) = t
  BY <1>1
<1>3. QED
  BY <1>1, <1>2 DEF DueOf

(* Nothing is due unless a task executes; while one does, its approval is. *)
LEMMA DueNone == ASSUME \A t \in Tasks : pc[t] # "executing"
                 PROVE  Due = NoApproval
BY DueOfNone DEF Due

LEMMA DueNonePrime == ASSUME \A t \in Tasks : pc'[t] # "executing"
                      PROVE  Due' = NoApproval
<1>1. Due' = DueOf(pc', about')
  BY DEF Due, DueOf
<1>2. QED
  BY <1>1, DueOfNone

LEMMA DueKept ==
    ASSUME TypeOK, Control,
           \A t \in Tasks :
               \/ pc'[t] = pc[t] /\ about'[t] = about[t]
               \/ pc[t] # "executing" /\ pc'[t] # "executing"
    PROVE  Due' = Due
<1>1. CASE \A t \in Tasks : pc[t] # "executing"
  <2>1. \A t \in Tasks : pc'[t] # "executing"
    BY <1>1
  <2>2. QED
    BY <1>1, <2>1, DueNone, DueNonePrime
<1>2. ASSUME NEW t \in Tasks, pc[t] = "executing"
      PROVE  Due' = Due
  <2>1. \A u \in Tasks : pc[u] = "executing" => u = t
    BY <1>2 DEF Control, OneDriver, Driving
  <2>2. Due = about[t]
    BY <1>2, <2>1, DueOfOne DEF Due
  <2>3. pc'[t] = "executing" /\ about'[t] = about[t]
    BY <1>2
  <2>4. \A u \in Tasks : pc'[u] = "executing" => u = t
    BY <2>1
  <2>5. DueOf(pc', about') = about'[t]
    BY <2>3, <2>4, DueOfOne
  <2>6. Due' = DueOf(pc', about')
    BY DEF Due, DueOf
  <2>7. QED
    BY <2>2, <2>3, <2>5, <2>6
<1>3. QED
  BY <1>1, <1>2

LEMMA GateInit == Init => Gate!Init
<1>1. ASSUME Init
      PROVE  Gate!Init
  <2>1. \A t \in Tasks : pc[t] # "executing"
    BY <1>1 DEF Init
  <2>2. Due = NoApproval
    BY <2>1, DueNone
  <2>3. QED
    BY <1>1, <2>2 DEF Init, Gate!Init
<1>2. QED
  BY <1>1

LEMMA GateStep ==
    ASSUME TypeOK, Control, TypeOK', Control', [Next]_vars
    PROVE  [Gate!Next]_(Gate!vars)
<1> USE DEF store, tasks, records, Goto
<1>1. ASSUME NEW t \in Tasks, pc[t] = "driving"
      PROVE  Due = NoApproval /\ truth = "running" /\ Open = {}
  <2>1. Driving = {t} /\ truth = "running" /\ Open = {}
    BY <1>1, OnlyDriver
  <2>2. \A u \in Tasks : pc[u] # "executing"
    BY <1>1, <2>1 DEF Driving
  <2>3. QED
    BY <2>1, <2>2, DueNone
<1>2. ASSUME Driving' = {}
      PROVE  Due' = NoApproval
  BY <1>2, DueNonePrime DEF Driving
<1>3. ASSUME NEW t \in Tasks, NEW a \in Approvals, Pause(t, a)
      PROVE  Gate!Ask(a)
  <2>1. Due = NoApproval /\ truth = "running" /\ Open = {}
    BY <1>1, <1>3 DEF Pause, Return
  <2>2. truth' = "waiting_for_approval"
    BY <1>3 DEF Pause
  <2>3. Due' = NoApproval
    BY <1>2, <2>2 DEF Control, DriverRuns
  <2>4. \A b \in Approvals : gate[b] # "absent" => started[b]
    BY <2>1 DEF Open
  <2>5. QED
    BY <1>3, <2>1, <2>3, <2>4 DEF Pause, Gate!Ask, Gate!Working
<1>4. ASSUME NEW t \in Tasks, Raise(t) \/ \E outcome \in Outcomes : Conclude(t, outcome)
      PROVE  Gate!End \/ Gate!Lose
  <2>1. Due = NoApproval /\ truth = "running"
    BY <1>1, <1>4 DEF Raise, Conclude, Return
  <2>2. truth' \in Outcomes \cup {"lost"}
    BY <1>4 DEF Raise, Conclude, Outcomes
  <2>3. Due' = NoApproval
    BY <1>2, <2>2 DEF Control, DriverRuns, Outcomes
  <2>4. UNCHANGED <<gate, started, executed>>
    BY <1>4 DEF Raise, Conclude
  <2>5. QED
    BY <2>1, <2>2, <2>3, <2>4
    DEF Gate!End, Gate!Lose, Gate!Working, Gate!Outcomes, Outcomes
<1>5. ASSUME NEW a \in Approvals, gate[a] = "pending",
             NEW answer \in Answers \cup {"expired"},
             gate' = [gate EXCEPT ![a] = answer],
             UNCHANGED <<started, Due, executed, truth>>
      PROVE  Gate!Answer(a, answer)
  BY <1>5 DEF Gate!Answer
<1>6. ASSUME NEW r \in Requests, Resolve(r)
      PROVE  [Gate!Next]_(Gate!vars)
  <2>1. r \in Tasks /\ about[r] \in Approvals
    BY <1>6 DEF Resolve, Control, Addressed, Tasks
  <2>2. \A t \in Tasks : \/ pc'[t] = pc[t] /\ about'[t] = about[t]
                         \/ pc[t] # "executing" /\ pc'[t] # "executing"
    BY <1>6, <2>1 DEF Resolve, TypeOK
  <2>3. Due' = Due
    BY <2>2, DueKept
  <2>4. CASE gate[about[r]] = "pending"
    <3>1. gate' = [gate EXCEPT ![about[r]] = IF overdue[about[r]] THEN "expired"
                                             ELSE decision[r]]
      BY <1>6, <2>1, <2>4 DEF Resolve, Expired, Lapsed, TypeOK
    <3>2. decision[r] \in Answers
      BY <2>1 DEF TypeOK
    <3>3. Gate!Answer(about[r], "expired") \/ Gate!Answer(about[r], decision[r])
      BY <1>5, <1>6, <2>1, <2>3, <2>4, <3>1, <3>2 DEF Resolve
    <3>4. QED
      BY <2>1, <3>2, <3>3 DEF Gate!Next, Gate!Answers, Answers
  <2>5. CASE gate[about[r]] # "pending"
    <3>1. gate' = gate
      BY <1>6, <2>1, <2>5 DEF Resolve, Expired, Lapsed, TypeOK
    <3>2. QED
      BY <1>6, <2>3, <3>1 DEF Resolve, Gate!vars
  <2>6. QED
    BY <2>4, <2>5
<1>7. ASSUME NEW r \in Requests, Claim(r)
      PROVE  Gate!Take(about[r]) /\ about[r] \in Approvals
  <2>1. r \in Tasks /\ about[r] \in Approvals
    BY <1>7 DEF Claim, Control, Addressed, Tasks
  <2>2. gate[about[r]] = decision[r] /\ decision[r] \in Answers /\ ~started[about[r]]
    BY <1>7, <2>1 DEF Claim, Claimable, TypeOK
  <2>3. truth = "waiting_for_approval"
    BY <2>1, <2>2 DEF Control, WaitingOpen, Open, Answers
  <2>4. Driving = {}
    BY <2>3 DEF Control, DriverRuns
  <2>5. pc' = [pc EXCEPT ![r] = IF decision[r] = "approved" THEN "executing"
                                ELSE "driving"]
    BY <1>7 DEF Claim
  <2>6. \A u \in Tasks : pc'[u] = "executing" => u = r
    BY <2>4, <2>5 DEF Driving, TypeOK
  <2>7. Due' = IF gate[about[r]] = "approved" THEN about[r] ELSE NoApproval
    <3>1. CASE decision[r] = "approved"
      <4>1. pc'[r] = "executing"
        BY <2>1, <2>5, <3>1 DEF TypeOK
      <4>2. DueOf(pc', about') = about'[r]
        BY <2>1, <2>6, <4>1, DueOfOne
      <4>3. Due' = DueOf(pc', about')
        BY DEF Due, DueOf
      <4>4. QED
        BY <1>7, <2>2, <3>1, <4>2, <4>3 DEF Claim
    <3>2. CASE decision[r] # "approved"
      <4>1. \A u \in Tasks : pc'[u] # "executing"
        BY <2>1, <2>5, <2>6, <3>2 DEF TypeOK
      <4>2. QED
        BY <2>2, <3>2, <4>1, DueNonePrime
    <3>3. QED
      BY <3>1, <3>2
  <2>8. QED
    BY <1>7, <2>1, <2>2, <2>3, <2>7 DEF Claim, Gate!Take, Gate!Answers, Answers
<1>8. ASSUME NEW r \in Requests, Execute(r)
      PROVE  Gate!Act
  <2>1. r \in Tasks /\ pc[r] = "executing" /\ about[r] \in Approvals
    BY <1>8 DEF Execute, Control, Addressed, Tasks
  <2>2. Driving = {r} /\ truth = "running"
    BY <2>1, OnlyDriver
  <2>3. \A u \in Tasks : pc[u] = "executing" => u = r
    BY <2>2 DEF Driving
  <2>4. Due = about[r] /\ Due # NoApproval
    BY <2>1, <2>3, DueOfOne, TasksAssumption DEF Due
  <2>5. \A u \in Tasks : pc'[u] # "executing"
    BY <1>8, <2>1, <2>3 DEF Execute, TypeOK
  <2>6. Due' = NoApproval
    BY <2>5, DueNonePrime
  <2>7. QED
    BY <1>8, <2>2, <2>4, <2>6 DEF Execute, Gate!Act
<1>9. ASSUME NEW t \in Tasks,
             \/ t \in Requests /\ (ReadCheckpoint(t) \/ Complete(t))
             \/ Publish(t) \/ Persist(t) \/ PersistFails(t)
      PROVE  UNCHANGED Gate!vars
  <2>1. /\ pc[t] # "executing" /\ pc'[t] # "executing"
        /\ \A u \in Tasks : u # t => pc'[u] = pc[u]
        /\ UNCHANGED <<about, gate, started, executed, truth>>
    BY <1>9 DEF ReadCheckpoint, Complete, Publish, Persist, PersistFails, TypeOK
  <2>2. Due' = Due
    BY <2>1, DueKept
  <2>3. QED
    BY <2>1, <2>2 DEF Gate!vars
<1>10. ASSUME NEW r \in Requests, NEW a \in Approvals, NEW answer \in Answers,
              Post(r, a, answer)
       PROVE  [\E b \in Approvals : Gate!Answer(b, "expired")]_(Gate!vars)
  <2>1. \A t \in Tasks : \/ pc'[t] = pc[t] /\ about'[t] = about[t]
                         \/ pc[t] # "executing" /\ pc'[t] # "executing"
    BY <1>10 DEF Post, TypeOK, Tasks
  <2>2. Due' = Due
    BY <2>1, DueKept
  <2>3. CASE Lapsed(a)
    <3>1. gate[a] = "pending" /\ gate' = [gate EXCEPT ![a] = "expired"]
      BY <1>10, <2>3 DEF Post, Expired, Lapsed
    <3>2. Gate!Answer(a, "expired")
      BY <1>5, <1>10, <2>2, <3>1 DEF Post
    <3>3. QED
      BY <3>2
  <2>4. CASE ~Lapsed(a)
    <3>1. gate' = gate
      BY <1>10, <2>4 DEF Post, Expired, TypeOK
    <3>2. QED
      BY <1>10, <2>2, <3>1 DEF Post, Gate!vars
  <2>5. QED
    BY <2>3, <2>4
<1>11. CASE Crash
  <2>1. Driving' = {}
    BY <1>11 DEF Crash, Driving
  <2>2. Due' = NoApproval
    BY <1>2, <2>1
  <2>3. CASE truth = "running"
    BY <1>11, <2>2, <2>3 DEF Crash, Gate!Lose, Gate!Next
  <2>4. CASE truth # "running"
    <3>1. Driving = {}
      BY <2>4 DEF Control, DriverRuns
    <3>2. Due = NoApproval
      BY <3>1, DueNone DEF Driving
    <3>3. QED
      BY <1>11, <2>2, <2>4, <3>2 DEF Crash, Gate!vars
  <2>5. QED
    BY <2>3, <2>4
<1>12. ASSUME NEW a \in Approvals, View(a)
       PROVE  Gate!Answer(a, "expired")
  <2>1. Due' = Due
    BY <1>12, DueKept DEF View
  <2>2. QED
    BY <1>5, <1>12, <2>1 DEF View, Lapsed
<1>13. CASE DeleteConversation \/ UNCHANGED vars \/ \E a \in Approvals : Deadline(a)
  <2>1. UNCHANGED <<gate, started, pc, about, executed, truth>>
    BY <1>13 DEF DeleteConversation, Deadline, vars
  <2>2. Due' = Due
    BY <2>1, DueKept
  <2>3. QED
    BY <2>1, <2>2 DEF Gate!vars
<1>14. CASE Start
  <2>1. \A t \in Tasks : \/ pc'[t] = pc[t] /\ about'[t] = about[t]
                         \/ pc[t] # "executing" /\ pc'[t] # "executing"
    BY <1>14 DEF Start, TypeOK
  <2>2. Due' = Due
    BY <2>1, DueKept
  <2>3. QED
    BY <1>14, <2>2 DEF Start, Gate!vars
<1>15. CASE StartFails
  <2>1. Main \in Tasks /\ Driving = {Main} /\ truth = "running"
    BY <1>15, OnlyDriver DEF StartFails, Tasks
  <2>2. Due' = NoApproval
    BY <1>2, <1>15 DEF StartFails, Control, DriverRuns
  <2>3. QED
    BY <1>15, <2>1, <2>2 DEF StartFails, Gate!Lose, Gate!Next
<1>16. QED
  BY <1>3, <1>4, <1>6, <1>7, <1>8, <1>9, <1>10, <1>11, <1>12, <1>13, <1>14, <1>15
  DEF Next, Step, Drive, Environment, Gate!Next

(* The approval files, the requests that answer them, the run's tasks and  *)
(* the crashes between them implement the gate: one answer is final, an    *)
(* approved action runs first and at most once, an outcome stays.          *)
THEOREM ImplementsTheGate == Spec => GateSpec
<1>1. TypeOK /\ Control /\ TypeOK' /\ Control' /\ [Next]_vars
      => [Gate!Next]_(Gate!vars)
  BY GateStep
<1>2. QED
  BY <1>1, GateInit, ControlInvariant, PTL DEF Spec, GateSpec, Gate!Spec

-----------------------------------------------------------------------------
(* For every number of tasks, approvals and crashes: one driver at a time, *)
(* and no approved action is executed twice.                               *)
THEOREM NothingRunsTwice == Spec => []RunsOnce
<1>1. TypeOK /\ ExecutedAtMostOnce /\ OneDriver => RunsOnce
  BY DEF RunsOnce
<1>2. QED
  BY <1>1, TypeCorrect, ExecutionIsUnique, DriverIsUnique, PTL

-----------------------------------------------------------------------------
(* Natural numbers                                                           *)

LEMMA LeastOf ==
    ASSUME NEW T \in SUBSET Nat, T # {}
    PROVE  \E n \in T : \A m \in T : n <= m
<1> DEFINE R == OpToRel(<, Nat)
<1>1. \A x, y \in Nat : <<x, y>> \in R <=> x < y
  BY DEF OpToRel
<1>2. IsWellFoundedOn(R, Nat)
  BY NatLessThanWellFounded
<1> HIDE DEF R
<1>3. PICK n \in T : \A m \in T : ~(<<m, n>> \in R)
  BY <1>2, WFMin
<1>4. \A m \in T : n <= m
  <2> TAKE m \in T
  <2>1. ~(m < n)
    BY <1>1, <1>3
  <2>2. QED
    BY <2>1
<1>5. QED
  BY <1>4

LEMMA LeastIs ==
    ASSUME NEW T \in SUBSET Nat, T # {}
    PROVE  Min(T) \in T /\ \A m \in T : Min(T) <= m
BY LeastOf DEF Min

LEMMA MaxOfTwo ==
    ASSUME NEW a \in Nat, NEW b \in Nat
    PROVE  Max({a, b}) = IF a <= b THEN b ELSE a
<1> DEFINE Greatest(x) == x \in {a, b} /\ \A y \in {a, b} : x >= y
           greater == IF a <= b THEN b ELSE a
<1>1. Max({a, b}) = CHOOSE x : Greatest(x)
  BY DEF Max
<1>2. \A x : Greatest(x) <=> x = greater
  OBVIOUS
<1> HIDE DEF Greatest, greater
<1>3. (CHOOSE x : Greatest(x)) = greater
  BY <1>2
<1>4. QED
  BY <1>1, <1>3 DEF greater

-----------------------------------------------------------------------------
(* Questions                                                                 *)

(* A question has the parts its topic asks for, taken from the instance.     *)
Put(q) ==
    /\ q.of = "guard" => q.executor \in Executors /\ q.call.arguments \in CallArguments
    /\ q.of = "price" => q.custom \in CustomPrices /\ q.model \in Models /\ q.usage \in Usages
    /\ q.of = "context" => q.state \in RunStates
    /\ q.of = "call" => q.offer \in Offers /\ q.function \in FunctionDefinitions(q.offer) /\ Permitted(q.function, q.arguments)
    /\ q.of = "catalog" => q.db \in Databases /\ q.catalog \in Catalogs /\ q.statement \in Statements
    /\ q.of = "joins" => q.db \in Profiled /\ q.selected \subseteq DOMAIN q.db

LEMMA PutFirst == QuestionInit => Put(asked)
BY DEF QuestionInit, Nothing, Put

LEMMA PutNext == ASSUME [QuestionNext]_questionVars, Put(asked) PROVE Put(asked)'
<1>1. CASE AskSchedule BY <1>1 DEF AskSchedule, Put
<1>2. CASE AskPeriod BY <1>2 DEF AskPeriod, Put
<1>3. CASE AskOrders BY <1>3 DEF AskOrders, Put
<1>4. CASE AskAttainment BY <1>4 DEF AskAttainment, Put
<1>5. CASE AskOthers BY <1>5 DEF AskOthers, Put
<1>6. CASE AskCompile BY <1>6 DEF AskCompile, Put
<1>7. CASE AskExecute BY <1>7 DEF AskExecute, Put
<1>8. CASE AskLayout BY <1>8 DEF AskLayout, Put
<1>9. CASE AskDocument BY <1>9 DEF AskDocument, Put
<1>10. CASE AskGuard BY <1>10 DEF AskGuard, Put
<1>11. CASE AskFiles BY <1>11 DEF AskFiles, Put
<1>12. CASE AskCapture BY <1>12 DEF AskCapture, Put
<1>13. CASE AskRecall BY <1>13 DEF AskRecall, Put
<1>14. CASE AskMemory BY <1>14 DEF AskMemory, Put
<1>15. CASE AskDelegate BY <1>15 DEF AskDelegate, Put
<1>16. CASE AskPrice BY <1>16 DEF AskPrice, Put
<1>17. CASE AskContext BY <1>17 DEF AskContext, Put
<1>18. CASE AskCall BY <1>18 DEF AskCall, CallsOf, Put
<1>19. CASE AskAttempts BY <1>19 DEF AskAttempts, Put
<1>20. CASE AskProcess BY <1>20 DEF AskProcess, Put
<1>21. CASE AskCatalog BY <1>21 DEF AskCatalog, Put
<1>22. CASE AskJoins BY <1>22 DEF AskJoins, Put
<1>23. CASE AskTrace BY <1>23 DEF AskTrace, Put
<1>24. CASE AskOutput BY <1>24 DEF AskOutput, Put
<1>25. CASE Answered BY <1>25 DEF Answered, Nothing, Put
<1>26. CASE UNCHANGED questionVars BY <1>26 DEF questionVars
<1>27. QED
  BY <1>1, <1>2, <1>3, <1>4, <1>5, <1>6, <1>7, <1>8, <1>9, <1>10, <1>11, <1>12, <1>13,
     <1>14, <1>15, <1>16, <1>17, <1>18, <1>19, <1>20, <1>21, <1>22, <1>23, <1>24, <1>25, <1>26
     DEF QuestionNext

(* Every question of a behaviour is such a question.                         *)
LEMMA AlwaysPut == QuestionSpec => []Put(asked)
BY PutFirst, PutNext, PTL DEF QuestionSpec

-----------------------------------------------------------------------------
(* The security policy. It is a sequence of rules, some of them listed in    *)
(* whatever order a set has; the first that matches decides.                 *)
LEMMA Listed ==
    ASSUME NEW S, IsFiniteSet(S)
    PROVE  /\ SetToSeq(S) \in Seq(S)
           /\ Len(SetToSeq(S)) = Cardinality(S)
           /\ \A e \in S : \E i \in 1..Cardinality(S) : SetToSeq(S)[i] = e
<1> DEFINE n == Cardinality(S)
           s == SetToSeq(S)
<1>1. n \in Nat /\ ExistsBijection(1..n, S)
  BY FS_CardinalityType
<1>2. \E f \in [1..n -> S] : IsInjective(f)
  BY <1>1 DEF ExistsBijection, Bijection, Injection
<1>3. s \in [1..n -> S] /\ IsInjective(s)
  BY <1>2 DEF SetToSeq
<1>4. s \in Injection(1..n, S)
  BY <1>3 DEF Injection
<1>5. IsFiniteSet(1..n) /\ Cardinality(1..n) = n
  BY <1>1, FS_Interval
<1>6. s \in Surjection(1..n, S)
  BY <1>4, <1>5, FS_Injection
<1>7. \A e \in S : \E i \in 1..n : s[i] = e
  BY <1>6 DEF Surjection
<1>8. s \in Seq(S) /\ Len(s) = n
  BY <1>1, <1>3
<1>9. QED
  BY <1>7, <1>8

GateRules == {Rule("require_approval", c, Whoever, Whoever) : c \in Gated}
SpecialistRules(name, tools) == {Rule("allow", c, name, "specialist") : c \in CapabilitiesForTools(tools)}
RulesFor(name, tools) ==
    GateRules \cup {Rule("allow", Whoever, Whoever, "primary"), Rule("allow", Whoever, Whoever, "system")}
              \cup SpecialistRules(name, tools)

LEMMA GatesListed ==
    /\ SetToSeq(GateRules) \in Seq(GateRules) /\ Len(SetToSeq(GateRules)) = 4
    /\ \A e \in GateRules : \E i \in 1..4 : SetToSeq(GateRules)[i] = e
<1> DEFINE r(c) == Rule("require_approval", c, Whoever, Whoever)
<1>1. \A c, d : r(c) = r(d) => c = d
  BY DEF Rule
<1> DEFINE A == {r("filesystem.write")}
           B == A \cup {r("command.execute")}
           C == B \cup {r("python.execute")}
           D == C \cup {r("artifact.create")}
<1>2. /\ r("command.execute") \notin A
      /\ r("python.execute") \notin B
      /\ r("artifact.create") \notin C
  BY <1>1
<1>3. GateRules = D
  BY DEF GateRules, Gated
<1> HIDE DEF r
<1>4. IsFiniteSet(A) /\ Cardinality(A) = 1
  BY FS_Singleton
<1>5. IsFiniteSet(B) /\ Cardinality(B) = 2
  <2> HIDE DEF A
  <2>1. QED
    BY <1>2, <1>4, FS_AddElement
<1>6. IsFiniteSet(C) /\ Cardinality(C) = 3
  <2> HIDE DEF B
  <2>1. QED
    BY <1>2, <1>5, FS_AddElement
<1>7. IsFiniteSet(D) /\ Cardinality(D) = 4
  <2> HIDE DEF C
  <2>1. QED
    BY <1>2, <1>6, FS_AddElement
<1>8. IsFiniteSet(GateRules) /\ Cardinality(GateRules) = 4
  <2> HIDE DEF D
  <2>1. QED
    BY <1>3, <1>7
<1>9. QED
  BY <1>8, Listed

LEMMA SpecialistListed ==
    ASSUME NEW name, NEW tools, IsFiniteSet(tools)
    PROVE  SetToSeq(SpecialistRules(name, tools)) \in Seq(SpecialistRules(name, tools))
<1> DEFINE f == [t \in tools |-> Rule("allow", CapabilityForTool(t), name, "specialist")]
           T == {f[t] : t \in tools}
<1>1. f \in Surjection(tools, T)
  BY DEF Surjection
<1>2. IsFiniteSet(T)
  BY <1>1, FS_Surjection
<1>3. SpecialistRules(name, tools) \subseteq T
  BY DEF SpecialistRules, CapabilitiesForTools
<1>4. IsFiniteSet(SpecialistRules(name, tools))
  BY <1>2, <1>3, FS_Subset
<1>5. QED
  BY <1>4, Listed

(* With the gates, they come first and cover what is sensitive; without them *)
(* no rule asks for an approval.                                             *)
LEMMA PolicyIs ==
    ASSUME NEW x, NEW subject, x.gates \in BOOLEAN, IsFiniteSet(x.granted)
    PROVE  /\ PolicyOf(x, subject) \in Seq(RulesFor(subject.name, x.granted))
           /\ x.gates =>
                 /\ Len(PolicyOf(x, subject)) >= 4
                 /\ \A i \in 1..4 : PolicyOf(x, subject)[i] \in GateRules
                 /\ \A e \in GateRules : \E i \in 1..4 : PolicyOf(x, subject)[i] = e
           /\ ~x.gates => \A i \in DOMAIN PolicyOf(x, subject) : PolicyOf(x, subject)[i].decision = "allow"
<1> DEFINE all == RulesFor(subject.name, x.granted)
           g == SetToSeq(GateRules)
           s == SetToSeq(SpecialistRules(subject.name, x.granted))
           base == IF x.gates THEN g \o PrimaryPolicy ELSE PrimaryPolicy
           allowing == {r \in all : r.decision = "allow"}
<1>1. PolicyOf(x, subject) = IF subject.type = "specialist" THEN base \o s ELSE base
  BY DEF PolicyOf, WithHumanApprovalGates, WithSpecialist, GateRules, SpecialistRules
<1>2. /\ g \in Seq(GateRules) /\ Len(g) = 4 /\ \A e \in GateRules : \E i \in 1..4 : g[i] = e
  BY GatesListed
<1>3. s \in Seq(SpecialistRules(subject.name, x.granted))
  BY SpecialistListed
<1> HIDE DEF g, s
<1>4. GateRules \subseteq all /\ SpecialistRules(subject.name, x.granted) \subseteq allowing
  BY DEF RulesFor, SpecialistRules, Rule
<1>5. g \in Seq(all) /\ s \in Seq(allowing) /\ s \in Seq(all)
  BY <1>2, <1>3, <1>4
<1>6. PrimaryPolicy \in Seq(allowing) /\ PrimaryPolicy \in Seq(all)
  BY DEF PrimaryPolicy, RulesFor, Rule
<1>7. \A i \in 1..4 : g[i] \in GateRules
  <2> TAKE i \in 1..4
  <2>1. i \in 1..Len(g)
    BY <1>2
  <2>2. QED
    BY <1>2, <2>1, ElementOfSeq
<1> HIDE DEF all, allowing
<1>8. base \in Seq(all)
  BY <1>5, <1>6
<1>9. ~x.gates => base \in Seq(allowing)
  BY <1>6
<1>10. x.gates => Len(base) >= 4 /\ \A i \in 1..4 : base[i] = g[i]
  <2>1. Len(PrimaryPolicy) = 2
    BY DEF PrimaryPolicy
  <2>2. /\ Len(g \o PrimaryPolicy) = 6
        /\ \A i \in 1..4 : (g \o PrimaryPolicy)[i] = g[i]
    <3>1. g \in Seq(all) /\ PrimaryPolicy \in Seq(all) /\ Len(g) = 4
      BY <1>2, <1>5, <1>6
    <3> HIDE DEF PrimaryPolicy
    <3>2. Len(g \o PrimaryPolicy) = 6
      <4>1. Len(g \o PrimaryPolicy) = Len(g) + Len(PrimaryPolicy)
        BY <3>1, ConcatProperties
      <4>2. QED
        BY <2>1, <3>1, <4>1
    <3>3. \A i \in 1..4 : (g \o PrimaryPolicy)[i] = g[i]
      <4> TAKE i \in 1..4
      <4>1. i \in 1..(Len(g) + Len(PrimaryPolicy)) /\ i <= Len(g)
        BY <2>1, <3>1
      <4>2. QED
        BY <3>1, <4>1, ConcatProperties
    <3>4. QED
      BY <3>2, <3>3
  <2>3. QED
    BY <2>2
<1> HIDE DEF base
<1> DEFINE rules == PolicyOf(x, subject)
<1>11. rules \in Seq(all)
  BY <1>1, <1>5, <1>8
<1>12. ~x.gates => rules \in Seq(allowing)
  BY <1>1, <1>5, <1>9
<1>13. x.gates => Len(rules) >= 4 /\ \A i \in 1..4 : rules[i] = g[i]
  BY <1>1, <1>5, <1>8, <1>10
<1> HIDE DEF rules
<1>14. ~x.gates => \A i \in DOMAIN rules : rules[i].decision = "allow"
  BY <1>12 DEF allowing
<1>15. QED
  BY <1>2, <1>7, <1>11, <1>13, <1>14 DEF rules, all

(* What the first matching rule decides                                      *)
LEMMA EvaluateIs ==
    ASSUME NEW x, NEW subject, NEW capability, NEW resource,
           x.gates \in BOOLEAN, IsFiniteSet(x.granted)
    PROVE  LET d == Evaluate(PolicyOf(x, subject), x.environment, subject, capability, resource)
           IN  /\ d \in {"allow", "require_approval", "deny"}
               /\ x.gates /\ capability \in Gated => d = "require_approval"
               /\ x.environment = "production" /\ capability # NoCapability =>
                     d # "allow" /\ (d = "require_approval" => x.gates)
<1> DEFINE rules == PolicyOf(x, subject)
           I == {k \in 1..Len(rules) : Matches(rules[k], subject, capability)}
           i == SelectInSeq(rules, LAMBDA r : Matches(r, subject, capability))
           d == Evaluate(rules, x.environment, subject, capability, resource)
<1>1. rules \in Seq(RulesFor(subject.name, x.granted))
  BY PolicyIs
<1>2. /\ x.gates => /\ Len(rules) >= 4
                    /\ \A k \in 1..4 : rules[k] \in GateRules
                    /\ \A e \in GateRules : \E k \in 1..4 : rules[k] = e
      /\ ~x.gates => \A k \in DOMAIN rules : rules[k].decision = "allow"
  BY PolicyIs
<1>3. i = IF I # {} THEN Min(I) ELSE 0
  BY DEF SelectInSeq
<1>4. d = IF i = 0 THEN "deny"
          ELSE IF capability = NoCapability /\ subject.type \in {"primary", "system"} THEN "allow"
          ELSE IF rules[i].decision # "allow" THEN rules[i].decision
          ELSE RiskDecision(Assess(x.environment, capability, resource))
  BY DEF Evaluate
<1> HIDE DEF rules, i, d
<1>5. Len(rules) \in Nat /\ DOMAIN rules = 1..Len(rules)
  BY <1>1
<1>6. I # {} => i \in I /\ \A k \in I : i <= k
  <2>1. I \in SUBSET Nat
    BY <1>5
  <2> HIDE DEF I
  <2>2. QED
    BY <1>3, <2>1, LeastIs
<1>7. I = {} => i = 0
  BY <1>3
<1>8. x.gates /\ capability \in Gated => d = "require_approval"
  <2> SUFFICES ASSUME x.gates, capability \in Gated PROVE d = "require_approval"
    OBVIOUS
  <2>1. Rule("require_approval", capability, Whoever, Whoever) \in GateRules
    BY DEF GateRules
  <2>2. PICK k \in 1..4 : rules[k] = Rule("require_approval", capability, Whoever, Whoever)
    BY <1>2, <2>1
  <2>3. k \in I
    BY <1>2, <1>5, <2>2 DEF Matches, Rule
  <2>4. i \in 1..4
    BY <1>5, <1>6, <2>3
  <2>5. rules[i] \in GateRules
    BY <1>2, <2>4
  <2>6. rules[i].decision = "require_approval"
    BY <2>5 DEF GateRules, Rule
  <2>7. capability # NoCapability
    BY DEF Gated, NoCapability
  <2>8. i # 0
    BY <2>4
  <2>9. QED
    BY <1>4, <2>6, <2>7, <2>8
<1>9. x.environment = "production" /\ capability # NoCapability =>
          d # "allow" /\ (d = "require_approval" => x.gates)
  <2> SUFFICES ASSUME x.environment = "production", capability # NoCapability
               PROVE  d # "allow" /\ (d = "require_approval" => x.gates)
    OBVIOUS
  <2>1. RiskDecision(Assess(x.environment, capability, resource)) = "deny"
    BY DEF Assess, RiskDecision, IsProductionTarget
  <2>2. i # 0 => i \in DOMAIN rules
    BY <1>5, <1>6, <1>7
  <2>3. QED
    BY <1>2, <1>4, <2>1, <2>2
<1>10. d \in {"allow", "require_approval", "deny"}
  <2>1. i # 0 => rules[i] \in RulesFor(subject.name, x.granted)
    BY <1>1, <1>5, <1>6, <1>7, ElementOfSeq
  <2>2. i # 0 => rules[i].decision \in {"allow", "require_approval"}
    BY <2>1 DEF RulesFor, GateRules, SpecialistRules, Rule
  <2>3. RiskDecision(Assess(x.environment, capability, resource)) \in {"allow", "require_approval", "deny"}
    BY DEF RiskDecision
  <2>4. QED
    BY <1>4, <2>2, <2>3
<1>11. QED
  BY <1>8, <1>9, <1>10 DEF d, rules

(* For every executor, agent and call: the decision announced is the one the *)
(* call meets, a specialist runs only what it was granted, and neither what  *)
(* is sensitive behind the gates nor anything in production runs without an  *)
(* approval (security/policies.py, tools/execution/executor.py).             *)
THEOREM PolicyHolds ==
    ASSUME NEW x, NEW subject, NEW call, NEW approved \in BOOLEAN,
           x.gates \in BOOLEAN, x.broken \in BOOLEAN, IsFiniteSet(x.granted)
    PROVE  /\ GateAgreesWithCall(x, subject, call)
           /\ SpecialistIsConfined(x, subject, call, approved)
           /\ SensitiveIsApproved(x, subject, call, approved)
           /\ ProductionIsClosed(x, subject, call, approved)
<1> DEFINE capability == CapabilityForTool(call.tool)
           resource == ResourceForTool(call.tool, call.target)
           evaluated == Evaluate(PolicyOf(x, subject), x.environment, subject, capability, resource)
           d == Decide(x, subject, call)
           refused == call.tool \notin RestrictedTo(subject, x.granted) \/ ~ValidArguments(call.arguments)
<1>1. d = IF x.broken THEN "deny" ELSE evaluated
  BY DEF Decide
<1>2. /\ evaluated \in {"allow", "require_approval", "deny"}
      /\ x.gates /\ capability \in Gated => evaluated = "require_approval"
      /\ x.environment = "production" /\ capability # NoCapability =>
            evaluated # "allow" /\ (evaluated = "require_approval" => x.gates)
  BY EvaluateIs
<1> HIDE DEF evaluated
<1>3. \A a \in BOOLEAN : ExecuteTool(x, subject, call, a) =
          IF refused THEN "fails" ELSE IF ~Nameable(resource) THEN "raises"
          ELSE IF d = "allow" \/ (a /\ d = "require_approval") THEN "runs" ELSE "fails"
  BY DEF ExecuteTool
<1>4. EvaluatePolicy(x, subject, call) =
          IF refused THEN "none" ELSE IF ~Nameable(resource) THEN "raises" ELSE d
  BY DEF EvaluatePolicy
<1>5. x.broken => d = "deny"
  BY <1>1
<1> HIDE DEF refused, resource, d
<1>6. d \in {"allow", "require_approval", "deny"}
  BY <1>1, <1>2 DEF d
<1>7. GateAgreesWithCall(x, subject, call)
  <2> DEFINE announced == EvaluatePolicy(x, subject, call)
             plain == ExecuteTool(x, subject, call, FALSE)
             granted == ExecuteTool(x, subject, call, TRUE)
  <2>1. plain = IF refused THEN "fails" ELSE IF ~Nameable(resource) THEN "raises"
                ELSE IF d = "allow" THEN "runs" ELSE "fails"
    BY <1>3
  <2>2. granted = IF refused THEN "fails" ELSE IF ~Nameable(resource) THEN "raises"
                  ELSE IF d \in {"allow", "require_approval"} THEN "runs" ELSE "fails"
    BY <1>3
  <2> HIDE DEF announced, plain, granted
  <2>3. /\ (announced = "allow") = (plain = "runs")
        /\ (announced \in {"allow", "require_approval"}) = (granted = "runs")
        /\ (announced = "raises") = (plain = "raises")
        /\ x.broken => granted # "runs"
    BY <1>4, <1>5, <1>6, <2>1, <2>2 DEF announced
  <2>4. QED
    BY <2>3 DEF GateAgreesWithCall, announced, plain, granted
<1>8. SpecialistIsConfined(x, subject, call, approved)
  BY <1>3 DEF SpecialistIsConfined, RestrictedTo, refused
<1>9. SensitiveIsApproved(x, subject, call, approved)
  BY <1>1, <1>2, <1>3 DEF SensitiveIsApproved
<1>10. ProductionIsClosed(x, subject, call, approved)
  BY <1>1, <1>2, <1>3 DEF ProductionIsClosed
<1>11. QED
  BY <1>7, <1>8, <1>9, <1>10

-----------------------------------------------------------------------------
(* What a run is told of a customer's database, and may ask                  *)

LEMMA GovernedIs ==
    ASSUME NEW base, NEW entries
    PROVE  /\ DOMAIN Governed(base, entries) = ListTables(base, entries)
           /\ ListTables(Governed(base, entries), entries) = ListTables(base, entries)
           /\ ListTables(base, entries) \subseteq DOMAIN base
BY DEF Governed, ListTables

LEMMA GovernedTable ==
    ASSUME NEW base, NEW entries, IsDatabase(base), NEW t \in ListTables(base, entries)
    PROVE  /\ Governed(base, entries)[t].words = base[t].words
           /\ Governed(base, entries)[t].columns = DescribeTable(base, entries, t)
           /\ DescribeTable(Governed(base, entries), entries, t) = DescribeTable(base, entries, t)
<1>1. t \in DOMAIN base /\ base[t] = [words |-> base[t].words, columns |-> base[t].columns]
  <2>1. t \in DOMAIN base
    BY GovernedIs
  <2>2. base = [u \in DOMAIN base |-> [words |-> base[u].words, columns |-> base[u].columns]]
    BY DEF IsDatabase
  <2>3. QED
    BY <2>1, <2>2
<1>2. Governed(base, entries)[t]
        = [base[t] EXCEPT !.columns = {c \in base[t].columns : c.name \in Approved(entries, t)}]
  BY DEF Governed
<1>3. Governed(base, entries)[t] = [words |-> base[t].words, columns |-> DescribeTable(base, entries, t)]
  BY <1>1, <1>2 DEF DescribeTable
<1>4. QED
  BY <1>3 DEF DescribeTable

(* Of a database a run learns what was approved of it and nothing else: it is *)
(* told the same as over a database that has nothing else                    *)
(* (datasources/governed_inspector.py:9-15).                                 *)
THEOREM HiddenNeverShows ==
    ASSUME NEW base, IsDatabase(base), NEW entries, NEW words
    PROVE  HiddenLeavesNoTrace(base, entries, words)
<1> DEFINE governed == Governed(base, entries)
<1>1. DOMAIN governed = ListTables(base, entries) /\ ListTables(governed, entries) = ListTables(base, entries)
  BY GovernedIs
<1>2. \A t \in DOMAIN governed : /\ governed[t].columns = DescribeTable(base, entries, t)
                                 /\ governed[t].words = base[t].words
                                 /\ DescribeTable(governed, entries, t) = DescribeTable(base, entries, t)
  BY <1>1, GovernedTable
<1>3. ASSUME NEW w PROVE SearchSchema(base, entries, w) = SearchSchema(governed, entries, w)
  BY <1>1, <1>2 DEF SearchSchema
<1>4. QED
  BY <1>1, <1>2, <1>3 DEF HiddenLeavesNoTrace

LEMMA UnderAlias ==
    ASSUME NEW s, Aliased(s), NEW t \in s.tables
    PROVE  RealTable(s, t.alias) = t.name
<1>1. \A u \in s.tables : u.alias = t.alias => u = t
  BY DEF Aliased
<1>2. (CHOOSE u \in s.tables : u.alias = t.alias) = t
  BY <1>1
<1>3. QED
  BY <1>2 DEF RealTable

(* Whatever the database, the catalog and the statement: of the columns that *)
(* a permitted query reads, those it names letter for letter are approved,   *)
(* and a plain query of what the run was told of is let through. What a query *)
(* reads as a whole row, or names in another case, is not looked at          *)
(* (datasources/tool_integration.py:57-120, analytics/sql/validator.py:44-130). *)
THEOREM QueriesAreGoverned ==
    ASSUME NEW base, IsDatabase(base), NEW entries, NEW s, Aliased(s), NEW unreadable
    PROVE  /\ NamedIsApproved(base, entries, s)
           /\ DescribedCanBeQueried(base, entries, unreadable, s)
<1> DEFINE tables == ListTables(base, entries)
<1>1. \A u, t, n : IsBlocked(BlockedColumns(base, entries, u), t, n)
          <=> t \in tables \ u /\ n \in NamesOf(base[t].columns) \ Approved(entries, t)
  BY DEF IsBlocked, BlockedColumns
<1>2. \A t \in tables : NamesOf(Governed(base, entries)[t].columns)
                          = NamesOf(base[t].columns) \cap Approved(entries, t)
  BY GovernedTable DEF DescribeTable, NamesOf
<1>3. NamedIsApproved(base, entries, s)
  <2> SUFFICES ASSUME GovernedQuery(base, entries, {}, s),
                      NEW c \in s.columns, NEW t \in BaseTables(s), c.exact, Refers(c, t),
                      c.name \in NamesOf(base[t.name].columns)
               PROVE  c.name \in NamesOf(Governed(base, entries)[t.name].columns)
    BY DEF NamedIsApproved, ColumnsNamed
  <2>1. t \in s.tables /\ t.name \in tables
    BY DEF GovernedQuery, Validate, BaseTables
  <2>2. ~ExcludedColumnReference(s, BlockedColumns(base, entries, {}))
    BY DEF GovernedQuery, Validate
  <2>3. ~IsBlocked(BlockedColumns(base, entries, {}), t.name, c.name)
    <3>1. CASE c.qualifier = Unqualified
      BY <2>1, <2>2, <3>1 DEF ExcludedColumnReference
    <3>2. CASE c.qualifier # Unqualified
      BY <2>1, <2>2, <3>2, UnderAlias DEF ExcludedColumnReference, Refers
    <3>3. QED
      BY <3>1, <3>2
  <2>4. QED
    BY <1>1, <1>2, <2>1, <2>3
<1>4. DescribedCanBeQueried(base, entries, unreadable, s)
  <2> SUFFICES ASSUME s.statements = 1, s.kind = "select", s.prohibited = {}, s.ctes = {},
                      \A t \in s.tables : t.schema \in PermittedSchemas /\ t.name \in tables,
                      \A c \in s.columns : \E t \in s.tables :
                          c.qualifier = t.alias /\ c.name \in NamesOf(DescribeTable(base, entries, t.name))
               PROVE  GovernedQuery(base, entries, unreadable, s)
    BY DEF DescribedCanBeQueried
  <2>1. ASSUME NEW c \in s.columns
        PROVE  /\ c.qualifier # Unqualified
               /\ ~IsBlocked(BlockedColumns(base, entries, unreadable), RealTable(s, c.qualifier), c.name)
    <3>1. PICK t \in s.tables : c.qualifier = t.alias /\ c.name \in NamesOf(DescribeTable(base, entries, t.name))
      OBVIOUS
    <3>2. c.name \in Approved(entries, t.name)
      BY <3>1 DEF DescribeTable, NamesOf
    <3>3. QED
      BY <1>1, <3>1, <3>2, UnderAlias DEF Aliased
  <2>2. ~ExcludedColumnReference(s, BlockedColumns(base, entries, unreadable))
    BY <2>1 DEF ExcludedColumnReference
  <2>3. BaseTables(s) \subseteq s.tables
    BY DEF BaseTables
  <2>4. QED
    BY <2>2, <2>3 DEF GovernedQuery, Validate
<1>5. QED
  BY <1>3, <1>4

-----------------------------------------------------------------------------
(* What profiling proposes                                                   *)

LEMMA MatchingIs ==
    ASSUME NEW base, NEW stem, NEW selected, NEW except, NoTable \notin selected
    PROVE  LET found == MatchingTable(base, stem, selected, except)
           IN /\ found # NoTable => found \in selected \ {except} /\ HasKey(base[found])
              /\ \A i \in 1..3 : Forms(stem)[i] \in selected \ {except} /\ HasKey(base[Forms(stem)[i]]) => found # NoTable
<1> DEFINE form(i) == Forms(stem)[i]
           fits == {i \in 1..3 : form(i) \in selected \ {except} /\ HasKey(base[form(i)])}
<1>1. MatchingTable(base, stem, selected, except) = IF fits = {} THEN NoTable ELSE form(Min(fits))
  BY DEF MatchingTable
<1>2. fits \in SUBSET Nat
  OBVIOUS
<1>3. fits # {} => Min(fits) \in fits
  <2> HIDE DEF fits
  <2>1. QED
    BY <1>2, LeastIs
<1>4. CASE fits = {}
  BY <1>1, <1>4
<1>5. CASE fits # {}
  <2> DEFINE i == Min(fits)
  <2>1. MatchingTable(base, stem, selected, except) = form(i)
    BY <1>1, <1>5
  <2>2. form(i) \in selected \ {except} /\ HasKey(base[form(i)])
    BY <1>3, <1>5
  <2> HIDE DEF i, form
  <2>3. QED
    BY <2>1, <2>2
<1>6. QED
  BY <1>4, <1>5

(* More tables take no match away.                                           *)
LEMMA MatchingStays ==
    ASSUME NEW base, NEW stem, NEW selected, NEW except, NoTable \notin selected, NEW t,
           MatchingTable(base, stem, selected \ {t}, except) # NoTable
    PROVE  MatchingTable(base, stem, selected, except) # NoTable
<1> DEFINE form(i) == Forms(stem)[i]
           fits == {i \in 1..3 : form(i) \in (selected \ {t}) \ {except} /\ HasKey(base[form(i)])}
<1>1. MatchingTable(base, stem, selected \ {t}, except) = IF fits = {} THEN NoTable ELSE form(Min(fits))
  BY DEF MatchingTable
<1>2. PICK i \in 1..3 : form(i) \in selected \ {except} /\ HasKey(base[form(i)])
  BY <1>1
<1>3. QED
  BY <1>2, MatchingIs

(* A proposed join: of a column of a selected table, to what it refers to or *)
(* to the match of its stem.                                                 *)
IsJoin(base, selected, s, c, j) ==
    /\ s \in selected /\ c \in base[s].columns /\ j.source = s /\ j.column = c.name
    /\ \/ /\ c.refers # NoTable
          /\ j = [source |-> s, column |-> c.name, target |-> c.refers, how |-> "foreign_key"]
       \/ /\ ~c.key /\ c.refers = NoTable /\ c.stem # NoStem
          /\ MatchingTable(base, c.stem, selected, s) # NoTable
          /\ j = [source |-> s, column |-> c.name, target |-> MatchingTable(base, c.stem, selected, s), how |-> "inferred"]

LEMMA JoinsAre ==
    ASSUME NEW base, NEW selected
    PROVE  \A j : j \in DiscoverRelationships(base, selected) <=> \E s, c : IsJoin(base, selected, s, c, j)
<1> DEFINE columns == SelectedColumns(base, selected)
           Own(p) == [source |-> p[1], column |-> p[2].name, target |-> p[2].refers, how |-> "foreign_key"]
           Guess(p) == [source |-> p[1], column |-> p[2].name, target |-> MatchingTable(base, p[2].stem, selected, p[1]), how |-> "inferred"]
<1>1. \A p \in columns : p = <<p[1], p[2]>> /\ p[1] \in selected /\ p[2] \in base[p[1]].columns
  BY DEF SelectedColumns
<1>2. \A s \in selected : \A c \in base[s].columns : <<s, c>> \in columns
  BY DEF SelectedColumns
<1>3. DiscoverRelationships(base, selected)
        = {Own(p) : p \in {p \in columns : p[2].refers # NoTable}}
          \cup {g \in {Guess(p) : p \in {p \in columns : ~p[2].key /\ p[2].refers = NoTable /\ p[2].stem # NoStem}} : g.target # NoTable}
  BY DEF DiscoverRelationships, ForeignKeys, Guesses
<1> HIDE DEF columns
<1>4. ASSUME NEW j \in DiscoverRelationships(base, selected) PROVE \E s, c : IsJoin(base, selected, s, c, j)
  <2>1. CASE \E p \in columns : p[2].refers # NoTable /\ j = Own(p)
    <3>1. PICK p \in columns : p[2].refers # NoTable /\ j = Own(p)
      BY <2>1
    <3>2. IsJoin(base, selected, p[1], p[2], j)
      BY <1>1, <3>1 DEF IsJoin
    <3>3. QED
      BY <3>2
  <2>2. CASE \E p \in columns : ~p[2].key /\ p[2].refers = NoTable /\ p[2].stem # NoStem /\ j = Guess(p) /\ j.target # NoTable
    <3>1. PICK p \in columns : ~p[2].key /\ p[2].refers = NoTable /\ p[2].stem # NoStem /\ j = Guess(p) /\ j.target # NoTable
      BY <2>2
    <3>2. IsJoin(base, selected, p[1], p[2], j)
      BY <1>1, <3>1 DEF IsJoin
    <3>3. QED
      BY <3>2
  <2> HIDE DEF Own, Guess
  <2>3. QED
    BY <1>3, <2>1, <2>2
<1>5. ASSUME NEW j, NEW s, NEW c, IsJoin(base, selected, s, c, j) PROVE j \in DiscoverRelationships(base, selected)
  <2> DEFINE p == <<s, c>>
  <2>1. p \in columns /\ p[1] = s /\ p[2] = c
    BY <1>2, <1>5 DEF IsJoin
  <2>2. \/ p[2].refers # NoTable /\ j = Own(p)
        \/ ~p[2].key /\ p[2].refers = NoTable /\ p[2].stem # NoStem /\ j = Guess(p) /\ j.target # NoTable
    BY <1>5, <2>1 DEF IsJoin
  <2> HIDE DEF p, Own, Guess
  <2>3. QED
    BY <1>3, <2>1, <2>2
<1>6. QED
  BY <1>4, <1>5

(* Of any database and any tables of it, a column has one proposal, to a     *)
(* table that has the key; more tables take none away; and no column that is *)
(* to be joined is to be summed (datasources/profiling.py:54-187).           *)
LEMMA ProposalsHold ==
    ASSUME NEW base, IsDatabase(base), NEW selected \in SUBSET DOMAIN base
    PROVE  ProposalsAreSound(base, selected)
<1> DEFINE joins == DiscoverRelationships(base, selected)
<1>1. /\ NoTable \notin selected
      /\ \A s \in selected : \A c, d \in base[s].columns : (c.name = d.name => c = d) /\ (c.stem # NoStem => c.ends = "id")
  BY DEF IsDatabase
<1>2. \A j \in joins : \E s, c : IsJoin(base, selected, s, c, j)
  BY JoinsAre
<1>3. \A j, s, c : IsJoin(base, selected, s, c, j) => j \in joins
  BY JoinsAre
<1> HIDE DEF joins
<1>4. ASSUME NEW i \in joins, NEW j \in joins, i.source = j.source, i.column = j.column PROVE i = j
  <2>1. PICK s, c : IsJoin(base, selected, s, c, i)
    BY <1>2
  <2>2. PICK t, d : IsJoin(base, selected, t, d, j)
    BY <1>2
  <2>3. s = t /\ c = d
    BY <1>1, <1>4, <2>1, <2>2 DEF IsJoin
  <2>4. QED
    BY <2>1, <2>2, <2>3 DEF IsJoin
<1>5. ASSUME NEW j \in joins, j.how = "inferred" PROVE j.target \in selected \ {j.source} /\ HasKey(base[j.target])
  <2>1. PICK s, c : IsJoin(base, selected, s, c, j)
    BY <1>2
  <2>2. j.source = s /\ j.target = MatchingTable(base, c.stem, selected, s) /\ j.target # NoTable
    BY <1>5, <2>1 DEF IsJoin
  <2>3. QED
    BY <1>1, <2>2, MatchingIs
<1>6. ASSUME NEW t \in selected, NEW j \in DiscoverRelationships(base, selected \ {t})
      PROVE  \E i \in joins : i.source = j.source /\ i.column = j.column
  <2>1. PICK s, c : IsJoin(base, selected \ {t}, s, c, j)
    BY <1>6, JoinsAre
  <2>2. CASE c.refers # NoTable
    <3>1. IsJoin(base, selected, s, c, j)
      BY <2>1, <2>2 DEF IsJoin
    <3>2. QED
      BY <1>3, <3>1
  <2>3. CASE c.refers = NoTable
    <3> DEFINE i == [source |-> s, column |-> c.name, target |-> MatchingTable(base, c.stem, selected, s), how |-> "inferred"]
    <3>1. MatchingTable(base, c.stem, selected, s) # NoTable
      <4>1. MatchingTable(base, c.stem, selected \ {t}, s) # NoTable
        BY <2>1, <2>3 DEF IsJoin
      <4>2. QED
        BY <1>1, <4>1, MatchingStays
    <3>2. IsJoin(base, selected, s, c, i) /\ i.source = j.source /\ i.column = j.column
      BY <2>1, <2>3, <3>1 DEF IsJoin
    <3>3. QED
      BY <1>3, <3>2
  <2>4. QED
    BY <2>2, <2>3
<1>7. ASSUME NEW j \in joins, NEW d \in base[j.source].columns, d.name = j.column
      PROVE  SuggestRole(d) \in {"primary_key", "identifier"}
  <2>1. PICK s, c : IsJoin(base, selected, s, c, j)
    BY <1>2
  <2>2. c = d /\ (d.stem # NoStem => d.ends = "id")
    BY <1>1, <1>7, <2>1 DEF IsJoin
  <2>3. d.key \/ d.refers # NoTable \/ (~d.key /\ d.refers = NoTable /\ d.ends = "id")
    BY <2>1, <2>2 DEF IsJoin
  <2>4. QED
    BY <2>3 DEF SuggestRole
<1>8. QED
  BY <1>4, <1>5, <1>6, <1>7 DEF ProposalsAreSound, joins

(* A column whose name gives it away twice is taken for the more sensitive.  *)
LEMMA SensitivityHolds ==
    ASSUME NEW c
    PROVE  MostSensitiveWins(c)
<1> DEFINE hint(i) == SensitiveNameHints[i]
           found == {i \in 1..5 : hint(i)[1] \in c.words}
<1>1. DOMAIN SensitiveNameHints = 1..5 /\ DOMAIN Severity = 1..5
  BY DEF SensitiveNameHints, Severity
<1>2. \A i \in 1..5, j \in 1..5 : Severity[i] = Severity[j] => i = j
  BY DEF Severity
<1>3. \A i \in 1..5 : Rank(Severity[i]) = i
  BY <1>1, <1>2 DEF Rank
<1>4. /\ hint(1)[2] = Severity[5] /\ hint(2)[2] = Severity[5] /\ hint(3)[2] = Severity[4]
      /\ hint(4)[2] = Severity[3] /\ hint(5)[2] = Severity[2]
  BY DEF SensitiveNameHints, Severity
<1>5. SuggestSensitivity(c) = IF found = {} THEN "internal" ELSE hint(Min(found))[2]
  BY <1>1 DEF SuggestSensitivity
<1> HIDE DEF hint
<1>6. \A i \in 1..5 : hint(i)[2] \in SensitiveClassifications
  BY <1>4 DEF SensitiveClassifications
<1>7. \A i, j \in 1..5 : i <= j => Rank(hint(i)[2]) >= Rank(hint(j)[2])
  <2>1. Rank(Severity[5]) = 5 /\ Rank(Severity[4]) = 4 /\ Rank(Severity[3]) = 3 /\ Rank(Severity[2]) = 2
    BY <1>3
  <2>2. QED
    BY <1>4, <2>1
<1>8. ASSUME NEW i \in 1..5, hint(i)[1] \in c.words
      PROVE  /\ Rank(SuggestSensitivity(c)) >= Rank(hint(i)[2])
             /\ ~MaySample(SuggestSensitivity(c))
  <2>1. i \in found /\ found \in SUBSET Nat
    BY <1>8
  <2>2. Min(found) \in found /\ Min(found) <= i
    <3> HIDE DEF found
    <3>1. QED
      BY <2>1, LeastIs
  <2>3. SuggestSensitivity(c) = hint(Min(found))[2]
    BY <1>5, <2>1
  <2>4. QED
    BY <1>6, <1>7, <2>2, <2>3 DEF MaySample
<1>9. QED
  BY <1>1, <1>8 DEF MostSensitiveWins, hint

(* PolicyOK, for every executor, call, database, catalog and statement: no   *)
(* way around the policy, announced, called or approved; what is not approved *)
(* of a database is neither shown nor queried by its exact name.             *)
THEOREM PolicyAlwaysHolds == QuestionSpec => []PolicyOK
<1>1. Put(asked) => PolicyOK
  <2> SUFFICES ASSUME Put(asked) PROVE PolicyOK
    OBVIOUS
  <2>1. asked.of = "guard" => GateOK /\ ConfinedOK /\ SensitiveOK /\ ProductionOK
    <3> SUFFICES ASSUME asked.of = "guard" PROVE GateOK /\ ConfinedOK /\ SensitiveOK /\ ProductionOK
      OBVIOUS
    <3>1. asked.executor \in Executors
      <4>1. asked.of = "guard" /\ Put(asked)
        OBVIOUS
      <4>2. QED
        BY <4>1 DEF Put
    <3>2. /\ asked.executor.gates \in BOOLEAN /\ asked.executor.broken \in BOOLEAN
          /\ IsFiniteSet(asked.executor.granted)
      BY <3>1, PolicyQuestions DEF Executors
    <3>3. QED
      BY <3>2, PolicyHolds DEF GateOK, ConfinedOK, SensitiveOK, ProductionOK
  <2>2. asked.of = "catalog" => HiddenOK /\ QueriesOK
    <3> SUFFICES ASSUME asked.of = "catalog" PROVE HiddenOK /\ QueriesOK
      OBVIOUS
    <3>1. IsDatabase(asked.db) /\ Aliased(asked.statement)
      <4>1. asked.of = "catalog" /\ Put(asked)
        OBVIOUS
      <4>2. QED
        BY <4>1, PolicyQuestions DEF Put
    <3>2. QED
      BY <3>1, HiddenNeverShows, QueriesAreGoverned DEF HiddenOK, QueriesOK
  <2>3. asked.of = "joins" => ProposalsOK
    <3> SUFFICES ASSUME asked.of = "joins" PROVE ProposalsOK
      OBVIOUS
    <3>1. IsDatabase(asked.db) /\ asked.selected \in SUBSET DOMAIN asked.db
      <4>1. asked.of = "joins" /\ Put(asked)
        OBVIOUS
      <4>2. QED
        BY <4>1, PolicyQuestions DEF Put
    <3>2. QED
      BY <3>1, ProposalsHold, SensitivityHolds DEF ProposalsOK
  <2>4. QED
    BY <2>1, <2>2, <2>3 DEF PolicyOK, GateOK, ConfinedOK, SensitiveOK, ProductionOK, HiddenOK, QueriesOK, ProposalsOK
<1>2. QED
  BY <1>1, AlwaysPut, PTL

-----------------------------------------------------------------------------
(* What a model call costs                                                   *)

LEMMA ProductGrows ==
    ASSUME NEW a \in Nat, NEW b \in Nat, NEW p \in Nat, a <= b
    PROVE  a * p <= b * p /\ p * a <= p * b /\ a * p \in Nat
<1>1. PICK d \in Nat : b = a + d
  <2>1. b - a \in Nat /\ b = a + (b - a)
    OBVIOUS
  <2>2. QED
    BY <2>1
<1>2. b * p = a * p + d * p
  BY <1>1
<1>3. d * p \in Nat /\ a * p \in Nat
  OBVIOUS
<1>4. p * a = a * p /\ p * b = b * p
  OBVIOUS
<1>5. QED
  BY <1>2, <1>3, <1>4

(* The factor of the long context, of input and of output                    *)
InputRate(p, u) == IF p.long /\ u.input > LongContextInputThreshold THEN 4 ELSE 2
OutputRate(p, u) == IF p.long /\ u.input > LongContextInputThreshold THEN 3 ELSE 2
PriceOr0(price) == IF price = NoPrice THEN 0 ELSE price
(* What is paid for one kind of tokens                                       *)
Paid(n, price, rate) == (n * price) * rate
IsCharged(p, u) ==
    ~(u.cached > u.input \/ (u.cached > 0 /\ p.cached = NoPrice) \/ (u.write > 0 /\ p.write = NoPrice))

LEMMA PaidGrows ==
    ASSUME NEW a \in Nat, NEW b \in Nat, a <= b, NEW p \in Nat, NEW r \in Nat, NEW s \in Nat, r <= s
    PROVE  Paid(a, p, r) \in Nat /\ Paid(b, p, s) \in Nat /\ Paid(a, p, r) <= Paid(b, p, s)
<1>1. a * p <= b * p /\ a * p \in Nat /\ b * p \in Nat
  BY ProductGrows
<1> DEFINE x == a * p
           y == b * p
<1> HIDE DEF x, y
<1>2. x \in Nat /\ y \in Nat /\ x <= y
  BY <1>1 DEF x, y
<1>3. x * r <= y * r /\ x * r \in Nat /\ y * r \in Nat
  BY <1>2, ProductGrows
<1>4. y * r <= y * s /\ y * s \in Nat
  BY <1>2, ProductGrows
<1>5. Paid(a, p, r) = x * r /\ Paid(b, p, s) = y * s
  BY DEF Paid, x, y
<1> DEFINE i == x * r
           j == y * r
           k == y * s
<1> HIDE DEF i, j, k
<1>6. i \in Nat /\ k \in Nat /\ i <= k
  <2>1. i \in Nat /\ j \in Nat /\ k \in Nat /\ i <= j /\ j <= k
    BY <1>3, <1>4 DEF i, j, k
  <2>2. QED
    BY <2>1
<1>7. QED
  BY <1>5, <1>6 DEF i, k

LEMMA TwiceTheCostIs ==
    ASSUME NEW p, IsPricing(p), NEW u \in Usage
    PROVE  /\ ~IsCharged(p, u) => TwiceTheCost(p, u) = NoCost
           /\ IsCharged(p, u) =>
                 /\ u.input - u.cached \in Nat
                 /\ TwiceTheCost(p, u) = Paid(u.input - u.cached, p.input, InputRate(p, u))
                                         + Paid(u.output, p.output, OutputRate(p, u))
                                         + Paid(u.cached, PriceOr0(p.cached), InputRate(p, u))
                                         + Paid(u.write, PriceOr0(p.write), InputRate(p, u))
<1>1. /\ u.input \in Nat /\ u.cached \in Nat /\ u.output \in Nat /\ u.write \in Nat
      /\ p.input \in Nat /\ p.output \in Nat /\ p.cached \in Nat \cup {NoPrice} /\ p.write \in Nat \cup {NoPrice}
      /\ p.long \in BOOLEAN
  BY DEF IsPricing, Usage
<1> DEFINE long == p.long /\ u.input > LongContextInputThreshold
           ri == IF long THEN 4 ELSE 2
           ro == IF long THEN 3 ELSE 2
           cached == IF u.cached > 0 THEN u.cached * p.cached * ri ELSE 0
           write == IF u.write > 0 THEN u.write * p.write * ri ELSE 0
<1>2. TwiceTheCost(p, u)
        = IF ~IsCharged(p, u) THEN NoCost
          ELSE (u.input - u.cached) * p.input * ri + u.output * p.output * ro + cached + write
  BY DEF TwiceTheCost, IsCharged
<1>3. ri = InputRate(p, u) /\ ro = OutputRate(p, u) /\ ri \in Nat
  BY DEF InputRate, OutputRate
<1> HIDE DEF ri, ro
<1>4. ASSUME NEW n \in Nat, NEW price \in Nat \cup {NoPrice}, ~(n > 0 /\ price = NoPrice)
      PROVE  (IF n > 0 THEN n * price * ri ELSE 0) = Paid(n, PriceOr0(price), ri)
  <2>1. CASE n > 0
    <3>1. price # NoPrice
      BY <1>4, <2>1
    <3>2. QED
      BY <2>1, <3>1 DEF PriceOr0, Paid
  <2>2. CASE n = 0
    <3>1. PriceOr0(price) \in Nat
      BY DEF PriceOr0
    <3>2. 0 * PriceOr0(price) = 0 /\ 0 * ri = 0
      BY <1>3, <3>1
    <3>3. QED
      BY <2>2, <3>2 DEF Paid
  <2>3. QED
    BY <1>1, <2>1, <2>2
<1>5. IsCharged(p, u) => /\ cached = Paid(u.cached, PriceOr0(p.cached), ri)
                         /\ write = Paid(u.write, PriceOr0(p.write), ri)
                         /\ u.input - u.cached \in Nat
  <2> SUFFICES ASSUME IsCharged(p, u)
               PROVE  /\ cached = Paid(u.cached, PriceOr0(p.cached), ri)
                      /\ write = Paid(u.write, PriceOr0(p.write), ri)
                      /\ u.input - u.cached \in Nat
    OBVIOUS
  <2>1. ~(u.cached > u.input) /\ ~(u.cached > 0 /\ p.cached = NoPrice) /\ ~(u.write > 0 /\ p.write = NoPrice)
    BY DEF IsCharged
  <2>2. cached = Paid(u.cached, PriceOr0(p.cached), ri)
    BY <1>1, <1>4, <2>1
  <2>3. write = Paid(u.write, PriceOr0(p.write), ri)
    BY <1>1, <1>4, <2>1
  <2>4. u.input - u.cached \in Nat
    BY <1>1, <2>1
  <2>5. QED
    BY <2>2, <2>3, <2>4
<1> HIDE DEF cached, write
<1>6. QED
  BY <1>2, <1>3, <1>5 DEF Paid

(* Less of anything, or the same with more of it found in the cache          *)
NoMore(v, u) ==
    /\ v.output <= u.output /\ v.write <= u.write /\ v.input <= u.input
    /\ \/ v.cached <= u.cached /\ v.input - v.cached <= u.input - u.cached
       \/ v.cached = u.cached + 1 /\ v.input = u.input

LEMMA CostGrows ==
    ASSUME NEW p, IsPricing(p), NEW u \in Usage, NEW v \in Usage, NoMore(v, u), IsCharged(p, u), IsCharged(p, v)
    PROVE  TwiceTheCost(p, v) <= TwiceTheCost(p, u)
<1> DEFINE iv == InputRate(p, v)
           iu == InputRate(p, u)
           ov == OutputRate(p, v)
           ou == OutputRate(p, u)
           c == PriceOr0(p.cached)
           w == PriceOr0(p.write)
           fv == v.input - v.cached
           fu == u.input - u.cached
<1>1. /\ u.input \in Nat /\ u.cached \in Nat /\ u.output \in Nat /\ u.write \in Nat
      /\ v.input \in Nat /\ v.cached \in Nat /\ v.output \in Nat /\ v.write \in Nat
      /\ p.input \in Nat /\ p.output \in Nat /\ p.cached \in Nat \cup {NoPrice} /\ p.write \in Nat \cup {NoPrice}
      /\ p.cached <= p.input
  BY DEF IsPricing, Usage
<1>2. c \in Nat /\ w \in Nat /\ (p.cached # NoPrice => c <= p.input)
  BY <1>1 DEF PriceOr0, NoPrice
<1>3. iv \in Nat /\ iu \in Nat /\ ov \in Nat /\ ou \in Nat /\ iv <= iu /\ ov <= ou
  <2>1. v.input <= u.input
    BY DEF NoMore
  <2>2. v.input > LongContextInputThreshold => u.input > LongContextInputThreshold
    BY <1>1, <2>1 DEF LongContextInputThreshold
  <2>3. QED
    BY <2>2 DEF InputRate, OutputRate
<1>4. /\ fv \in Nat /\ fu \in Nat
      /\ TwiceTheCost(p, v) = Paid(fv, p.input, iv) + Paid(v.output, p.output, ov) + Paid(v.cached, c, iv) + Paid(v.write, w, iv)
      /\ TwiceTheCost(p, u) = Paid(fu, p.input, iu) + Paid(u.output, p.output, ou) + Paid(u.cached, c, iu) + Paid(u.write, w, iu)
  BY TwiceTheCostIs
<1>5. /\ Paid(v.output, p.output, ov) \in Nat /\ Paid(u.output, p.output, ou) \in Nat
      /\ Paid(v.output, p.output, ov) <= Paid(u.output, p.output, ou)
  <2>1. v.output <= u.output
    BY DEF NoMore
  <2> HIDE DEF ov, ou
  <2>2. QED
    BY <1>1, <1>3, <2>1, PaidGrows
<1>6. /\ Paid(v.write, w, iv) \in Nat /\ Paid(u.write, w, iu) \in Nat
      /\ Paid(v.write, w, iv) <= Paid(u.write, w, iu)
  <2>1. v.write <= u.write
    BY DEF NoMore
  <2> HIDE DEF iv, iu, w
  <2>2. QED
    BY <1>1, <1>2, <1>3, <2>1, PaidGrows
<1>7. /\ Paid(fv, p.input, iv) + Paid(v.cached, c, iv) <= Paid(fu, p.input, iu) + Paid(u.cached, c, iu)
      /\ Paid(fv, p.input, iv) \in Nat /\ Paid(v.cached, c, iv) \in Nat
      /\ Paid(fu, p.input, iu) \in Nat /\ Paid(u.cached, c, iu) \in Nat
  <2>1. CASE v.cached <= u.cached /\ fv <= fu
    <3> HIDE DEF fv, fu, iv, iu, c
    <3>1. /\ Paid(fv, p.input, iv) \in Nat /\ Paid(fu, p.input, iu) \in Nat
          /\ Paid(fv, p.input, iv) <= Paid(fu, p.input, iu)
      BY <1>1, <1>3, <1>4, <2>1, PaidGrows
    <3>2. /\ Paid(v.cached, c, iv) \in Nat /\ Paid(u.cached, c, iu) \in Nat
          /\ Paid(v.cached, c, iv) <= Paid(u.cached, c, iu)
      BY <1>1, <1>2, <1>3, <2>1, PaidGrows
    <3>3. QED
      BY <3>1, <3>2
  <2>2. CASE v.cached = u.cached + 1 /\ v.input = u.input
    <3>1. iv = iu
      BY <2>2 DEF InputRate
    <3>2. fu = fv + 1
      BY <1>1, <2>2
    <3>3. c <= p.input
      <4>1. v.cached > 0
        BY <1>1, <2>2
      <4>2. p.cached # NoPrice
        BY <4>1 DEF IsCharged
      <4>3. QED
        BY <1>2, <4>2
    <3> HIDE DEF fv, fu, iv, iu, c
    <3>4. fu * p.input = fv * p.input + p.input /\ v.cached * c = u.cached * c + c
      <4>1. (fv + 1) * p.input = fv * p.input + p.input
        BY <1>1, <1>4
      <4>2. (u.cached + 1) * c = u.cached * c + c
        BY <1>1, <1>2
      <4>3. QED
        BY <2>2, <3>2, <4>1, <4>2
    <3> DEFINE x == fv * p.input
               y == u.cached * c
    <3>5. x \in Nat /\ y \in Nat
      BY <1>1, <1>2, <1>4
    <3> HIDE DEF x, y
    <3>6. fv * p.input = x /\ fu * p.input = x + p.input /\ v.cached * c = y + c /\ u.cached * c = y
      BY <3>4 DEF x, y
    <3>7. (x + p.input) * iv = x * iv + p.input * iv /\ (y + c) * iv = y * iv + c * iv
      BY <1>1, <1>2, <1>3, <3>5
    <3>8. c * iv <= p.input * iv /\ c * iv \in Nat /\ p.input * iv \in Nat
      BY <1>1, <1>2, <1>3, <3>3, ProductGrows
    <3>9. x * iv \in Nat /\ y * iv \in Nat
      BY <1>3, <3>5
    <3>10. /\ Paid(fv, p.input, iv) = x * iv /\ Paid(fu, p.input, iu) = (x + p.input) * iv
           /\ Paid(v.cached, c, iv) = (y + c) * iv /\ Paid(u.cached, c, iu) = y * iv
      BY <3>1, <3>6 DEF Paid
    <3> DEFINE a == x * iv
               b == y * iv
               d == c * iv
               e == p.input * iv
    <3> HIDE DEF a, b, d, e
    <3>11. a \in Nat /\ b \in Nat /\ d \in Nat /\ e \in Nat /\ d <= e
      BY <3>8, <3>9 DEF a, b, d, e
    <3>12. /\ Paid(fv, p.input, iv) = a /\ Paid(fu, p.input, iu) = a + e
           /\ Paid(v.cached, c, iv) = b + d /\ Paid(u.cached, c, iu) = b
      BY <3>7, <3>10 DEF a, b, d, e
    <3>13. QED
      BY <3>11, <3>12
  <2>3. QED
    BY <2>1, <2>2 DEF NoMore
<1> DEFINE a1 == Paid(fv, p.input, iv)
           a2 == Paid(v.output, p.output, ov)
           a3 == Paid(v.cached, c, iv)
           a4 == Paid(v.write, w, iv)
           b1 == Paid(fu, p.input, iu)
           b2 == Paid(u.output, p.output, ou)
           b3 == Paid(u.cached, c, iu)
           b4 == Paid(u.write, w, iu)
<1> HIDE DEF a1, a2, a3, a4, b1, b2, b3, b4
<1>8. /\ TwiceTheCost(p, v) = a1 + a2 + a3 + a4 /\ TwiceTheCost(p, u) = b1 + b2 + b3 + b4
      /\ a1 \in Nat /\ a2 \in Nat /\ a3 \in Nat /\ a4 \in Nat
      /\ b1 \in Nat /\ b2 \in Nat /\ b3 \in Nat /\ b4 \in Nat
      /\ a2 <= b2 /\ a4 <= b4 /\ a1 + a3 <= b1 + b3
  BY <1>4, <1>5, <1>6, <1>7 DEF a1, a2, a3, a4, b1, b2, b3, b4
<1>9. QED
  BY <1>8

LEMMA PriceListIsPriced ==
    \A n \in DOMAIN OpenAIModelPrices : IsPricing(OpenAIModelPrices[n])
<1> DEFINE names == {"gpt-5.4", "gpt-5.4-pro", "gpt-5.4-mini", "gpt-5.4-nano", "gpt-5.5", "gpt-5.5-pro",
                     "gpt-5.6-sol", "gpt-5.6-terra", "gpt-5.6-luna"}
<1>1. DOMAIN OpenAIModelPrices = names
  BY DEF OpenAIModelPrices
<1>2. OpenAIModelPrices["gpt-5.4"] = ModelPricing(2500, 15000, 250, NoPrice, TRUE)
  BY DEF OpenAIModelPrices
<1>3. OpenAIModelPrices["gpt-5.4-pro"] = ModelPricing(30000, 180000, 30000, NoPrice, TRUE)
  BY DEF OpenAIModelPrices
<1>4. OpenAIModelPrices["gpt-5.5-pro"] = ModelPricing(30000, 180000, 30000, NoPrice, TRUE)
  BY DEF OpenAIModelPrices
<1>5. OpenAIModelPrices["gpt-5.4-mini"] = ModelPricing(750, 4500, 75, NoPrice, FALSE)
  BY DEF OpenAIModelPrices
<1>6. OpenAIModelPrices["gpt-5.4-nano"] = ModelPricing(200, 1250, 20, NoPrice, FALSE)
  BY DEF OpenAIModelPrices
<1>7. OpenAIModelPrices["gpt-5.5"] = ModelPricing(5000, 30000, 500, NoPrice, TRUE)
  BY DEF OpenAIModelPrices
<1>8. OpenAIModelPrices["gpt-5.6-sol"] = ModelPricing(5000, 30000, 500, 6250, TRUE)
  BY DEF OpenAIModelPrices
<1>9. OpenAIModelPrices["gpt-5.6-terra"] = ModelPricing(2000, 12000, 200, 2500, TRUE)
  BY DEF OpenAIModelPrices
<1>10. OpenAIModelPrices["gpt-5.6-luna"] = ModelPricing(200, 1200, 20, 250, TRUE)
  BY DEF OpenAIModelPrices
<1>11. IsPricing(OpenAIModelPrices["gpt-5.4"])
  BY <1>2 DEF IsPricing, ModelPricing, NoPrice
<1>12. IsPricing(OpenAIModelPrices["gpt-5.4-pro"])
  BY <1>3 DEF IsPricing, ModelPricing, NoPrice
<1>13. IsPricing(OpenAIModelPrices["gpt-5.5-pro"])
  BY <1>4 DEF IsPricing, ModelPricing, NoPrice
<1>14. IsPricing(OpenAIModelPrices["gpt-5.4-mini"])
  BY <1>5 DEF IsPricing, ModelPricing, NoPrice
<1>15. IsPricing(OpenAIModelPrices["gpt-5.4-nano"])
  BY <1>6 DEF IsPricing, ModelPricing, NoPrice
<1>16. IsPricing(OpenAIModelPrices["gpt-5.5"])
  BY <1>7 DEF IsPricing, ModelPricing, NoPrice
<1>17. IsPricing(OpenAIModelPrices["gpt-5.6-sol"])
  BY <1>8 DEF IsPricing, ModelPricing, NoPrice
<1>18. IsPricing(OpenAIModelPrices["gpt-5.6-terra"])
  BY <1>9 DEF IsPricing, ModelPricing, NoPrice
<1>19. IsPricing(OpenAIModelPrices["gpt-5.6-luna"])
  BY <1>10 DEF IsPricing, ModelPricing, NoPrice
<1>20. \A n \in names : IsPricing(OpenAIModelPrices[n])
  BY <1>11, <1>12, <1>13, <1>14, <1>15, <1>16, <1>17, <1>18, <1>19
<1>21. QED
  BY <1>1, <1>20

(* What a request costs never grows with less of anything in it, nor with    *)
(* more of it found in the cache (llm/pricing.py:90-165).                    *)
LEMMA CostsHold ==
    ASSUME NEW custom, \A n \in DOMAIN custom : IsPricing(custom[n]), NEW model, NEW u \in Usage
    PROVE  CostsAreOrdered(custom, model, u)
<1> DEFINE pricing == RegistryGet(custom, model)
           normal == NormalizeModel(model)
           charged == IF normal # Unsupported THEN OpenAIModelPrices[normal] ELSE [pricing EXCEPT !.long = FALSE]
           cost(v) == EstimateCost(custom, model, v)
           cheaper == {[u EXCEPT !.output = @ - 1], [u EXCEPT !.write = @ - 1], [u EXCEPT !.input = @ - 1],
                       [u EXCEPT !.input = @ - 1, !.cached = @ - 1], [u EXCEPT !.cached = @ + 1]}
<1>1. pricing # Unpriced => IsPricing(pricing)
  BY PriceListIsPriced DEF RegistryGet
<1>2. pricing # Unpriced => IsPricing(charged)
  <2>1. CASE normal # Unsupported
    <3>1. normal \in DOMAIN OpenAIModelPrices
      BY <2>1 DEF NormalizeModel, OpenAIModelPrices
    <3>2. QED
      BY <2>1, <3>1, PriceListIsPriced
  <2>2. CASE normal = Unsupported
    <3> HIDE DEF pricing
    <3>1. ASSUME IsPricing(pricing) PROVE IsPricing([pricing EXCEPT !.long = FALSE])
      BY <3>1 DEF IsPricing
    <3>2. QED
      BY <1>1, <2>2, <3>1
  <2>3. QED
    BY <2>1, <2>2
<1>3. ASSUME NEW v PROVE cost(v) # NoCost => pricing # Unpriced /\ cost(v) = TwiceTheCost(charged, v)
  BY DEF EstimateCost
<1>4. ASSUME NEW v \in cheaper, \A k \in DOMAIN v : v[k] >= 0, v.cached <= v.input PROVE v \in Usage /\ NoMore(v, u)
  <2>1. /\ u = [input |-> u.input, cached |-> u.cached, output |-> u.output, write |-> u.write]
        /\ u.input \in Nat /\ u.cached \in Nat /\ u.output \in Nat /\ u.write \in Nat
    BY DEF Usage
  <2>2. /\ v = [input |-> v.input, cached |-> v.cached, output |-> v.output, write |-> v.write]
        /\ v.input \in Int /\ v.cached \in Int /\ v.output \in Int /\ v.write \in Int
        /\ NoMore(v, u)
    <3>1. CASE v = [u EXCEPT !.output = @ - 1]
      BY <2>1, <3>1 DEF NoMore
    <3>2. CASE v = [u EXCEPT !.write = @ - 1]
      BY <2>1, <3>2 DEF NoMore
    <3>3. CASE v = [u EXCEPT !.input = @ - 1]
      <4>1. /\ v = [input |-> v.input, cached |-> v.cached, output |-> v.output, write |-> v.write]
            /\ v.input = u.input - 1 /\ v.cached = u.cached /\ v.output = u.output /\ v.write = u.write
        BY <2>1, <3>3
      <4>2. QED
        BY <2>1, <4>1 DEF NoMore
    <3>4. CASE v = [u EXCEPT !.input = @ - 1, !.cached = @ - 1]
      <4>1. /\ v = [input |-> v.input, cached |-> v.cached, output |-> v.output, write |-> v.write]
            /\ v.input = u.input - 1 /\ v.cached = u.cached - 1 /\ v.output = u.output /\ v.write = u.write
        BY <2>1, <3>4
      <4>2. QED
        BY <2>1, <4>1 DEF NoMore
    <3>5. CASE v = [u EXCEPT !.cached = @ + 1]
      BY <2>1, <3>5 DEF NoMore
    <3>6. QED
      BY <3>1, <3>2, <3>3, <3>4, <3>5
  <2>3. DOMAIN v = {"input", "cached", "output", "write"}
    BY <2>2
  <2>4. v["input"] >= 0 /\ v["cached"] >= 0 /\ v["output"] >= 0 /\ v["write"] >= 0
    BY <1>4, <2>3
  <2>5. v.input \in Nat /\ v.cached \in Nat /\ v.output \in Nat /\ v.write \in Nat
    BY <2>2, <2>4
  <2>6. v \in Usage
    BY <2>2, <2>5 DEF Usage
  <2>7. QED
    BY <2>2, <2>6
<1> HIDE DEF cheaper, charged, pricing
<1>5. ASSUME NEW v \in cheaper, \A k \in DOMAIN v : v[k] >= 0, v.cached <= v.input, cost(u) # NoCost, cost(v) # NoCost
      PROVE  cost(v) <= cost(u)
  <2>1. v \in Usage /\ NoMore(v, u)
    BY <1>4, <1>5
  <2>2. IsPricing(charged) /\ cost(u) = TwiceTheCost(charged, u) /\ cost(v) = TwiceTheCost(charged, v)
    BY <1>2, <1>3, <1>5
  <2>3. IsCharged(charged, u) /\ IsCharged(charged, v)
    BY <1>5, <2>1, <2>2, TwiceTheCostIs
  <2>4. QED
    BY <2>1, <2>2, <2>3, CostGrows
<1>6. QED
  BY <1>5 DEF CostsAreOrdered, cheaper
-----------------------------------------------------------------------------
(* What a model is shown                                                     *)

LEMMA ShownIs ==
    ASSUME NEW state, AreNumbered(state.observations), state.summarized \in Int
    PROVE  LET o == state.observations
               s == SelectForState(state)
               n == Len(o)
           IN \/ s = o /\ DOMAIN s = 1..n
              \/ /\ state.summarized >= n - RecentObservations /\ n > RecentObservations
                 /\ DOMAIN s = 1..RecentObservations
                 /\ \A j \in DOMAIN s : n - RecentObservations + j \in 1..n /\ s[j] = o[n - RecentObservations + j]
<1> DEFINE o == state.observations
           n == Len(o)
           R == RecentObservations
           s == SelectForState(state)
           old == Max({n - R, 0})
<1>1. n \in Nat /\ o = [i \in 1..n |-> o[i]] /\ R \in Nat /\ R > 0
  BY CallsAssumption DEF AreNumbered
<1>10. n \in Nat /\ R \in Nat /\ R > 0
  BY <1>1
<1> DEFINE fresh == ~(state.summarized = NoSummary \/ state.summarized < old)
<1>2. s = IF fresh THEN LastOf(o, R) ELSE o
  BY DEF SelectForState
<1>3. LastOf(o, R) = IF n <= R THEN o ELSE SubSeq(o, n - R + 1, n)
  BY DEF LastOf
<1>4. DOMAIN o = 1..n
  <2> HIDE DEF n
  <2>1. QED
    BY <1>1
<1>5. CASE s = o
  BY <1>4, <1>5
<1>6. CASE s # o
  <2>1. n > R /\ s = SubSeq(o, n - R + 1, n) /\ fresh
    <3> HIDE DEF s, fresh, n, o
    <3>1. fresh /\ s = LastOf(o, R)
      BY <1>2, <1>6
    <3>2. ~(n <= R) /\ LastOf(o, R) = SubSeq(o, n - R + 1, n)
      BY <1>3, <1>6, <3>1
    <3>3. QED
      BY <1>10, <3>1, <3>2
  <2>2. state.summarized >= n - R
    <3> HIDE DEF n
    <3>1. n - R \in Nat
      BY <1>10, <2>1
    <3>2. old = n - R
      <4>1. old = Max({0, n - R})
        <5>1. {n - R, 0} = {0, n - R}
          OBVIOUS
        <5>2. QED
          BY <5>1
      <4> DEFINE d == n - R
      <4>2. d \in Nat /\ 0 <= d
        BY <3>1
      <4> HIDE DEF d
      <4>3. Max({0, d}) = d
        BY <4>2, MaxOfTwo
      <4>4. QED
        BY <4>1, <4>3 DEF d
    <3>3. ~(state.summarized < n - R)
      BY <2>1, <3>2
    <3>4. QED
      BY <1>10, <3>3
  <2> HIDE DEF s
  <2> DEFINE S == {o[i] : i \in 1..n}
             m == n - R + 1
  <2> HIDE DEF n
  <2>3. DOMAIN s = 1..R /\ \A j \in 1..R : s[j] = o[n - R + j]
    <3>1. m \in Int /\ n \in Int /\ m <= n /\ n - m + 1 = R /\ m >= 1
      BY <1>10, <2>1
    <3>2. \A i \in m..n : o[i] \in S
      BY <1>10, <3>1
    <3>3. \A j \in 1..R : m + j - 1 = n - R + j
      BY <1>10
    <3> HIDE DEF S, m, o
    <3>4. SubSeq(o, m, n) \in Seq(S) /\ Len(SubSeq(o, m, n)) = R /\ \A j \in 1..R : SubSeq(o, m, n)[j] = o[m + j - 1]
      BY <3>1, <3>2, SubSeqProperties
    <3>5. s = SubSeq(o, m, n)
      BY <2>1 DEF m
    <3>6. QED
      BY <3>3, <3>4, <3>5, LenProperties
  <2>4. DOMAIN s = 1..R /\ \A j \in DOMAIN s : n - R + j \in 1..n /\ s[j] = o[n - R + j]
    <3>2. \A j \in 1..R : n - R + j \in 1..n
      BY <1>10, <2>1
    <3>3. QED
      BY <2>3, <3>2
  <2>5. QED
    BY <2>1, <2>2, <2>4 DEF n, s
<1>7. QED
  BY <1>5, <1>6

LEMMA ContextIs ==
    ASSUME NEW state, NEW skills
    PROVE  LET view == BuildContext(state, skills).observations
               s == SelectForState(state)
           IN DOMAIN view = DOMAIN s /\ \A j \in DOMAIN s : view[j] = ObservationView(s[j])
BY DEF BuildContext

LEMMA ViewIs ==
    ASSUME NEW o
    PROVE  /\ ObservationView(o).sequence = o.sequence
           /\ ObservationView(o).plain \cup ObservationView(o).evidence = o.content
           /\ ObservationView(o).plain \cap ObservationView(o).evidence = {}
           /\ o.source = "tool" /\ o.trust \in Untrusted => ObservationView(o).plain = {}
BY DEF ObservationView

(* Of any run nothing is missing from both what is shown and what is         *)
(* summarized, and what came from outside is shown as evidence only          *)
(* (runtime/context.py:27-42, 69-132, 176-238).                              *)
LEMMA ContextHolds ==
    ASSUME NEW state, NEW skills, AreNumbered(state.observations), state.summarized \in Int
    PROVE  NothingForgotten(state, skills) /\ EvidenceIsSeparate(state, skills)
<1> DEFINE o == state.observations
           n == Len(o)
           R == RecentObservations
           s == SelectForState(state)
           view == BuildContext(state, skills).observations
<1>1. n \in Nat /\ DOMAIN o = 1..n /\ R \in Nat /\ R > 0
  <2>1. n \in Nat /\ o = [i \in 1..n |-> o[i]]
    BY DEF AreNumbered
  <2> HIDE DEF n
  <2>2. QED
    BY <2>1, CallsAssumption
<1>2. \/ s = o /\ DOMAIN s = 1..n
      \/ /\ state.summarized >= n - R /\ n > R /\ DOMAIN s = 1..R
         /\ \A j \in DOMAIN s : n - R + j \in 1..n /\ s[j] = o[n - R + j]
  BY ShownIs
<1>3. DOMAIN view = DOMAIN s /\ \A j \in DOMAIN s : view[j] = ObservationView(s[j])
  BY ContextIs
<1> HIDE DEF s, view, n
<1>4. ASSUME NEW i \in 1..n PROVE (\E j \in DOMAIN view : view[j].sequence = o[i].sequence) \/ i <= state.summarized
  <2>1. CASE s = o /\ DOMAIN s = 1..n
    <3>1. i \in DOMAIN view /\ view[i] = ObservationView(o[i])
      BY <1>3, <2>1
    <3>2. QED
      BY <3>1, ViewIs
  <2>2. CASE /\ state.summarized >= n - R /\ n > R /\ DOMAIN s = 1..R
             /\ \A j \in DOMAIN s : n - R + j \in 1..n /\ s[j] = o[n - R + j]
    <3>1. CASE i <= n - R
      BY <1>1, <2>2, <3>1
    <3>2. CASE ~(i <= n - R)
      <4> DEFINE j == i - (n - R)
      <4>1. j \in 1..R /\ n - R + j = i
        BY <1>1, <2>2, <3>2
      <4> HIDE DEF j
      <4>2. view[j] = ObservationView(o[i]) /\ j \in DOMAIN view
        BY <1>3, <2>2, <4>1
      <4>3. QED
        BY <4>2, ViewIs
    <3>3. QED
      BY <3>1, <3>2
  <2>3. QED
    BY <1>2, <2>1, <2>2
<1>5. ASSUME NEW j \in DOMAIN view PROVE \E k \in 1..n : view[j] = ObservationView(o[k])
  <2>1. view[j] = ObservationView(s[j]) /\ j \in DOMAIN s
    BY <1>3
  <2>2. \E k \in 1..n : s[j] = o[k]
    BY <1>2, <2>1
  <2>3. QED
    BY <2>1, <2>2
<1>6. ASSUME NEW i \in 1..n, NEW j \in DOMAIN view, view[j].sequence = o[i].sequence
      PROVE  /\ view[j].plain \cup view[j].evidence = o[i].content /\ view[j].plain \cap view[j].evidence = {}
             /\ o[i].source = "tool" /\ o[i].trust \in Untrusted => view[j].plain = {}
  <2>1. PICK k \in 1..n : view[j] = ObservationView(o[k])
    BY <1>5
  <2>2. o[k].sequence = o[i].sequence
    BY <1>6, <2>1, ViewIs
  <2>3. k = i
    BY <1>1, <2>2 DEF AreNumbered
  <2>4. QED
    BY <2>1, <2>3, ViewIs
<1>7. NothingForgotten(state, skills)
  <2>1. BuildContext(state, skills).summary = state.summarized
    BY DEF BuildContext
  <2>2. QED
    BY <1>1, <1>4, <2>1 DEF NothingForgotten, view, s
<1>8. EvidenceIsSeparate(state, skills)
  BY <1>1, <1>6 DEF EvidenceIsSeparate, view
<1>9. QED
  BY <1>7, <1>8

-----------------------------------------------------------------------------
(* What a model may call                                                     *)

(* Values, and what the runtime's type check says of them                    *)
LEMMA ValuesMatch ==
    ASSUME NEW type \in JsonTypes
    PROVE  /\ ValuesOfType(type) # {} /\ NullValue \notin ValuesOfType(type)
           /\ \A v \in ValuesOfType(type) : MatchesJsonType(v.type, type)
<1>1. CASE type = "string"
  BY <1>1 DEF ValuesOfType, Texts, Value, NullValue, MatchesJsonType
<1>2. CASE type = "number"
  BY <1>2 DEF ValuesOfType, Value, NullValue, MatchesJsonType
<1>3. CASE type \notin {"string", "number"}
  <2>1. ValuesOfType(type) = {Value(type, EmptyText, 1)}
    BY <1>3 DEF ValuesOfType
  <2>2. Value(type, EmptyText, 1).type = type /\ NullValue # Value(type, EmptyText, 1)
    BY DEF Value, NullValue
  <2>3. MatchesJsonType(type, type)
    BY <1>3 DEF JsonTypes, MatchesJsonType
  <2>4. QED
    BY <2>1, <2>2, <2>3
<1>4. QED
  BY <1>1, <1>2, <1>3

LEMMA MatchingValues ==
    ASSUME NEW type \in JsonTypes, NEW other \in JsonTypes \cup {"$ref"},
           NEW v \in ValuesOfType(other), MatchesJsonType(v.type, type)
    PROVE  v \in ValuesOfType(type)
<1>1. CASE other = "string"
  BY <1>1 DEF ValuesOfType, JsonTypes, Texts, Value, MatchesJsonType
<1>2. CASE other = "number"
  BY <1>2 DEF ValuesOfType, JsonTypes, Texts, Value, MatchesJsonType
<1>3. CASE other \notin {"string", "number"}
  <2>1. v = Value(other, EmptyText, 1) /\ v.type = other
    BY <1>3 DEF ValuesOfType, Value
  <2>2. other = type \/ (type = "number" /\ other = "integer")
    BY <1>3, <2>1 DEF JsonTypes, MatchesJsonType
  <2>3. QED
    BY <1>3, <2>1, <2>2 DEF ValuesOfType
<1>4. QED
  BY <1>1, <1>2, <1>3

(* The function of a tool: its parameters and what they permit               *)
LEMMA ToolFunctionIs ==
    ASSUME NEW t, IsTool(t)
    PROVE  LET f == ToolFunction(t)
           IN /\ f.action = "use_tool" /\ f.name = t.name /\ f.strict = StrictCompatible(t)
              /\ DOMAIN f.permits = DOMAIN t.types \cup {"reasoning_summary"}
              /\ f.permits["reasoning_summary"] = Texts
              /\ \A p \in DOMAIN t.types :
                    f.permits[p] = ValuesOfType(t.types[p]) \cup IF p \in t.required \/ t.types[p] = "$ref" THEN {} ELSE {NullValue}
<1> DEFINE own == [p \in DOMAIN t.types |->
                      ValuesOfType(t.types[p]) \cup IF p \in t.required \/ t.types[p] = "$ref" THEN {} ELSE {NullValue}]
<1>1. ToolFunction(t) = [action |-> "use_tool", name |-> t.name, permits |-> WithReasoning(own), strict |-> StrictCompatible(t)]
  BY DEF ToolFunction, Function
<1>2. /\ DOMAIN WithReasoning(own) = DOMAIN t.types \cup {"reasoning_summary"}
      /\ WithReasoning(own)["reasoning_summary"] = Texts
      /\ \A p \in DOMAIN t.types : p # "reasoning_summary" => WithReasoning(own)[p] = own[p]
  BY DEF WithReasoning
<1>3. \A p \in DOMAIN t.types : p # "reasoning_summary"
  BY DEF IsTool
<1>4. \A p \in DOMAIN t.types :
          own[p] = ValuesOfType(t.types[p]) \cup IF p \in t.required \/ t.types[p] = "$ref" THEN {} ELSE {NullValue}
  OBVIOUS
<1> HIDE DEF own
<1>5. /\ ToolFunction(t).action = "use_tool" /\ ToolFunction(t).name = t.name
      /\ ToolFunction(t).strict = StrictCompatible(t) /\ ToolFunction(t).permits = WithReasoning(own)
  BY <1>1
<1>6. QED
  BY <1>2, <1>3, <1>4, <1>5

LEMMA StrictIs ==
    ASSUME NEW t, IsTool(t), StrictCompatible(t)
    PROVE  t.closed /\ \A p \in DOMAIN t.types : t.types[p] \in JsonTypes
BY DEF IsTool, StrictCompatible

(* The arguments of the action: those of the call that are given             *)
IsGiven(a, f, arguments) ==
    /\ a.type = f.action /\ a.name = f.name
    /\ a.arguments = [p \in DOMAIN a.arguments |-> a.arguments[p]]
    /\ \A p : p \in DOMAIN a.arguments <=>
                p \in DOMAIN arguments /\ p # "reasoning_summary" /\ (f.action # "use_tool" \/ arguments[p] # NullValue)
    /\ \A p \in DOMAIN a.arguments : a.arguments[p] = arguments[p]

LEMMA GivenIs ==
    ASSUME NEW f, NEW arguments
    PROVE  IsGiven(ToAgentAction(f, arguments), f, arguments)
<1> DEFINE kept == {p \in DOMAIN arguments \ {"reasoning_summary"} : f.action # "use_tool" \/ arguments[p] # NullValue}
<1>1. ToAgentAction(f, arguments) = [type |-> f.action, name |-> f.name, arguments |-> Given(arguments, kept)]
  BY DEF ToAgentAction
<1>2. Given(arguments, kept) = [p \in DOMAIN arguments \cap kept |-> arguments[p]]
  BY DEF Given
<1>3. QED
  BY <1>1, <1>2 DEF IsGiven

(* A permitted call of a strict tool function is one the tool takes.         *)
LEMMA ToolCallWorks ==
    ASSUME NEW c, NEW t \in c.tools, IsTool(t), NEW arguments, StrictCompatible(t), Permitted(ToolFunction(t), arguments)
    PROVE  LET action == ToAgentAction(ToolFunction(t), arguments)
           IN ValidAction(action) /\ Carriable(c, action)
<1> DEFINE f == ToolFunction(t)
           a == ToAgentAction(f, arguments)
           g == a.arguments
<1>1. /\ f.action = "use_tool" /\ f.name = t.name /\ DOMAIN f.permits = DOMAIN t.types \cup {"reasoning_summary"}
      /\ \A p \in DOMAIN t.types :
            f.permits[p] = ValuesOfType(t.types[p]) \cup IF p \in t.required \/ t.types[p] = "$ref" THEN {} ELSE {NullValue}
  BY ToolFunctionIs
<1>2. t.closed /\ (\A p \in DOMAIN t.types : t.types[p] \in JsonTypes) /\ "reasoning_summary" \notin DOMAIN t.types
  BY StrictIs DEF IsTool
<1>3. /\ DOMAIN arguments \cup {"reasoning_summary"} = DOMAIN f.permits
      /\ \A p \in DOMAIN arguments : arguments[p] \in f.permits[p]
  BY DEF Permitted
<1>4. /\ a.type = f.action /\ a.name = f.name
      /\ \A p : p \in DOMAIN g <=> p \in DOMAIN arguments /\ p # "reasoning_summary" /\ (f.action # "use_tool" \/ arguments[p] # NullValue)
      /\ \A p \in DOMAIN g : g[p] = arguments[p]
  <2>1. IsGiven(a, f, arguments)
    BY GivenIs
  <2> HIDE DEF a, f
  <2>2. QED
    BY <2>1 DEF IsGiven
<1> HIDE DEF f, a, g
<1>5. ASSUME NEW p \in DOMAIN g PROVE p \in DOMAIN t.types /\ MatchesJsonType(g[p].type, t.types[p])
  <2>1. p \in DOMAIN t.types /\ g[p] = arguments[p] /\ arguments[p] # NullValue /\ p \in DOMAIN arguments
    BY <1>1, <1>3, <1>4
  <2>2. g[p] \in ValuesOfType(t.types[p])
    BY <1>1, <1>3, <2>1
  <2>3. QED
    BY <1>2, <2>1, <2>2, ValuesMatch
<1>6. ASSUME NEW p \in t.required PROVE p \in DOMAIN g
  <2>1. p \in DOMAIN t.types /\ p # "reasoning_summary" /\ p \in DOMAIN arguments
    BY <1>1, <1>2, <1>3 DEF IsTool
  <2>2. arguments[p] \in ValuesOfType(t.types[p])
    BY <1>1, <1>3, <2>1
  <2>3. arguments[p] # NullValue
    BY <1>2, <2>1, <2>2, ValuesMatch
  <2>4. QED
    BY <1>4, <2>1, <2>3
<1>7. DOMAIN Types(g) = DOMAIN g /\ \A p \in DOMAIN g : Types(g)[p] = g[p].type
  BY DEF Types
<1>8. Takes(t, Types(g))
  BY <1>2, <1>5, <1>6, <1>7 DEF Takes
<1>9. Carriable(c, a)
  BY <1>1, <1>4, <1>8 DEF Carriable, g
<1>10. ValidAction(a)
  BY <1>1, <1>4 DEF ValidAction
<1>11. QED
  BY <1>9, <1>10 DEF a, f

(* A permitted call of another function carries every parameter, filled.     *)
LEMMA OtherCall ==
    ASSUME NEW f, NEW arguments, f.action # "use_tool", Permitted(f, arguments), WithoutBlanks(arguments)
    PROVE  LET a == ToAgentAction(f, arguments)
           IN /\ a.type = f.action
              /\ \A p \in DOMAIN f.permits \ {"reasoning_summary"} :
                    p \in DOMAIN a.arguments /\ a.arguments[p] \in f.permits[p] /\ a.arguments[p] # Value("string", EmptyText, 0)
<1> DEFINE a == ToAgentAction(f, arguments)
<1>1. /\ DOMAIN arguments \cup {"reasoning_summary"} = DOMAIN f.permits
      /\ \A p \in DOMAIN arguments : arguments[p] \in f.permits[p]
  BY DEF Permitted
<1>2. \A p \in DOMAIN arguments : p # "reasoning_summary" => arguments[p] # Value("string", EmptyText, 0)
  BY DEF WithoutBlanks
<1>3. /\ a.type = f.action
      /\ \A p : p \in DOMAIN a.arguments <=> p \in DOMAIN arguments /\ p # "reasoning_summary" /\ (f.action # "use_tool" \/ arguments[p] # NullValue)
      /\ \A p \in DOMAIN a.arguments : a.arguments[p] = arguments[p]
  <2>1. IsGiven(a, f, arguments)
    BY GivenIs
  <2> HIDE DEF a
  <2>2. QED
    BY <2>1 DEF IsGiven
<1> HIDE DEF a
<1>4. QED
  BY <1>1, <1>2, <1>3 DEF a

(* The text of a permitted name or text                                      *)
LEMMA FilledText ==
    ASSUME NEW v, v # Value("string", EmptyText, 0), NEW S, v \in OneOf(S) \/ v \in Texts
    PROVE  v.type = "string" /\ v.text # EmptyText /\ (v \in OneOf(S) => v.text \in S)
BY DEF OneOf, Texts, Value

LEMMA Lengths ==
    ASSUME NEW least, NEW most, NEW v \in ListOf(least, most)
    PROVE  v.size \in least..most
BY DEF ListOf, Value

LEMMA SkillCallWorks ==
    ASSUME NEW c, c.skills # {}, NEW arguments
    PROVE  LET f == LoadSkillFunction(c.skills)
           IN /\ \A p \in DOMAIN f.permits : f.permits[p] # {}
              /\ Permitted(f, arguments) /\ WithoutBlanks(arguments) =>
                    ValidAction(ToAgentAction(f, arguments)) /\ Carriable(c, ToAgentAction(f, arguments))
<1> DEFINE f == LoadSkillFunction(c.skills)
           a == ToAgentAction(f, arguments)
<1>1. /\ f.action = "load_skill" /\ DOMAIN f.permits = {"skill_name", "reasoning_summary"}
      /\ f.permits["skill_name"] = OneOf(c.skills) /\ f.permits["reasoning_summary"] = Texts
  BY DEF LoadSkillFunction, Function, WithReasoning
<1>2. OneOf(c.skills) # {} /\ Texts # {}
  BY DEF OneOf, Texts
<1>3. ASSUME Permitted(f, arguments), WithoutBlanks(arguments) PROVE ValidAction(a) /\ Carriable(c, a)
  <2> DEFINE v == a.arguments["skill_name"]
  <2> HIDE DEF f
  <2>1. a.type = "load_skill" /\ "skill_name" \in DOMAIN a.arguments /\ v \in OneOf(c.skills) /\ v # Value("string", EmptyText, 0)
    BY <1>1, <1>3, OtherCall
  <2>2. v.type = "string" /\ v.text # EmptyText /\ v.text \in c.skills
    BY <2>1, FilledText
  <2> HIDE DEF a
  <2>3. QED
    BY <2>1, <2>2 DEF ValidAction, Filled, Carriable
<1>4. QED
  BY <1>1, <1>2, <1>3

LEMMA DelegateCallWorks ==
    ASSUME NEW c, c.agents # {}, NEW arguments
    PROVE  LET f == DelegateFunction(c.agents)
           IN /\ \A p \in DOMAIN f.permits : f.permits[p] # {}
              /\ Permitted(f, arguments) /\ WithoutBlanks(arguments) =>
                    ValidAction(ToAgentAction(f, arguments)) /\ Carriable(c, ToAgentAction(f, arguments))
<1> DEFINE f == DelegateFunction(c.agents)
           a == ToAgentAction(f, arguments)
<1>1. /\ f.action = "delegate"
      /\ DOMAIN f.permits = {"agent_name", "objective", "context", "constraints", "expected_output", "reasoning_summary"}
      /\ f.permits["agent_name"] = OneOf(c.agents) /\ f.permits["objective"] = Texts
      /\ f.permits["context"] = Optional /\ f.permits["constraints"] = Optional
      /\ f.permits["expected_output"] = Optional /\ f.permits["reasoning_summary"] = Texts
  BY DEF DelegateFunction, Function, WithReasoning
<1>2. OneOf(c.agents) # {} /\ Texts # {} /\ Optional # {}
  BY DEF OneOf, Texts, Optional
<1>3. ASSUME Permitted(f, arguments), WithoutBlanks(arguments) PROVE ValidAction(a) /\ Carriable(c, a)
  <2> DEFINE v == a.arguments["agent_name"]
             w == a.arguments["objective"]
  <2> HIDE DEF f
  <2>1. /\ a.type = "delegate" /\ "agent_name" \in DOMAIN a.arguments /\ "objective" \in DOMAIN a.arguments
        /\ v \in OneOf(c.agents) /\ v # Value("string", EmptyText, 0) /\ w \in Texts /\ w # Value("string", EmptyText, 0)
    BY <1>1, <1>3, OtherCall
  <2>2. v.type = "string" /\ v.text # EmptyText /\ v.text \in c.agents
    BY <2>1, FilledText
  <2>3. w.type = "string" /\ w.text # EmptyText
    BY <2>1, FilledText
  <2> HIDE DEF a
  <2>4. QED
    BY <2>1, <2>2, <2>3 DEF ValidAction, Filled, Carriable
<1>4. QED
  BY <1>1, <1>2, <1>3

LEMMA ParallelCallWorks ==
    ASSUME NEW c, c.max_parallel \in 2..MaxDelegations, NEW arguments
    PROVE  LET f == DelegateParallelFunction(c.agents, c.max_parallel)
           IN /\ \A p \in DOMAIN f.permits : f.permits[p] # {}
              /\ Permitted(f, arguments) /\ WithoutBlanks(arguments) =>
                    ValidAction(ToAgentAction(f, arguments)) /\ Carriable(c, ToAgentAction(f, arguments))
<1> DEFINE f == DelegateParallelFunction(c.agents, c.max_parallel)
           a == ToAgentAction(f, arguments)
<1>1. /\ f.action = "delegate_parallel" /\ DOMAIN f.permits = {"delegations", "reasoning_summary"}
      /\ f.permits["delegations"] = ListOf(2, c.max_parallel) /\ f.permits["reasoning_summary"] = Texts
  BY DEF DelegateParallelFunction, Function, WithReasoning
<1>2. ListOf(2, c.max_parallel) # {} /\ Texts # {}
  BY DEF ListOf, Texts
<1>3. ASSUME Permitted(f, arguments), WithoutBlanks(arguments) PROVE ValidAction(a) /\ Carriable(c, a)
  <2> DEFINE v == a.arguments["delegations"]
  <2> HIDE DEF f
  <2>1. a.type = "delegate_parallel" /\ v \in ListOf(2, c.max_parallel)
    BY <1>1, <1>3, OtherCall
  <2>2. v.size \in 2..c.max_parallel
    BY <2>1, Lengths
  <2>3. v.size \in 2..MaxDelegations /\ v.size <= c.max_parallel
    BY <2>2, CallsAssumption
  <2> HIDE DEF a
  <2>4. QED
    BY <2>1, <2>3 DEF ValidAction, Carriable
<1>4. QED
  BY <1>1, <1>2, <1>3

LEMMA FinishCallWorks ==
    ASSUME NEW c, NEW arguments
    PROVE  LET f == FinishFunction
           IN /\ \A p \in DOMAIN f.permits : f.permits[p] # {}
              /\ Permitted(f, arguments) /\ WithoutBlanks(arguments) =>
                    ValidAction(ToAgentAction(f, arguments)) /\ Carriable(c, ToAgentAction(f, arguments))
<1> DEFINE f == FinishFunction
           a == ToAgentAction(f, arguments)
<1>1. /\ f.action = "finish" /\ DOMAIN f.permits = {"final_answer", "citations", "caveats", "reasoning_summary"}
      /\ f.permits["final_answer"] = Texts /\ f.permits["citations"] = ListOf(0, MaxCitations)
      /\ f.permits["caveats"] = ListOf(0, 1) /\ f.permits["reasoning_summary"] = Texts
  BY DEF FinishFunction, Function, WithReasoning
<1>2. ListOf(0, MaxCitations) # {} /\ ListOf(0, 1) # {} /\ Texts # {}
  BY CallsAssumption DEF ListOf, Texts
<1>3. ASSUME Permitted(f, arguments), WithoutBlanks(arguments) PROVE ValidAction(a) /\ Carriable(c, a)
  <2> DEFINE v == a.arguments["final_answer"]
             w == a.arguments["citations"]
  <2> HIDE DEF f
  <2>1. /\ a.type = "finish" /\ "final_answer" \in DOMAIN a.arguments
        /\ v \in Texts /\ v # Value("string", EmptyText, 0) /\ w \in ListOf(0, MaxCitations)
    BY <1>1, <1>3, OtherCall
  <2>2. v.type = "string" /\ v.text # EmptyText
    BY <2>1, FilledText
  <2>3. w.size <= MaxCitations
    <3>1. w.size \in 0..MaxCitations
      BY <2>1, Lengths
    <3>2. QED
      BY <3>1, CallsAssumption
  <2> HIDE DEF a
  <2>4. QED
    BY <2>1, <2>2, <2>3 DEF ValidAction, Filled, Carriable
<1>4. QED
  BY <1>1, <1>2, <1>3

(* Whatever the model may return for a strict function it was offered, its   *)
(* texts filled, is an action the runtime can take (llm/openai_client.py:    *)
(* 78-366, contracts/actions.py:101-130).                                    *)
LEMMA OffersHold ==
    ASSUME NEW c, \A t \in c.tools : IsTool(t), c.max_parallel \in 0..MaxDelegations,
           NEW f \in FunctionDefinitions(c), NEW arguments
    PROVE  OfferedCallsWork(c, f, arguments)
<1> DEFINE works == ValidAction(ToAgentAction(f, arguments)) /\ Carriable(c, ToAgentAction(f, arguments))
           Goal == /\ \A p \in DOMAIN f.permits : f.permits[p] # {}
                   /\ f.strict /\ Permitted(f, arguments) /\ WithoutBlanks(arguments) => works
<1> SUFFICES Goal
  BY DEF OfferedCallsWork
<1>1. CASE \E t \in c.tools : f = ToolFunction(t)
  <2>1. PICK t \in c.tools : f = ToolFunction(t)
    BY <1>1
  <2>2. IsTool(t)
    OBVIOUS
  <2>3. f.strict = StrictCompatible(t)
    BY <2>1, <2>2, ToolFunctionIs
  <2>4. \A p \in DOMAIN f.permits : f.permits[p] # {}
    <3>1. /\ DOMAIN f.permits = DOMAIN t.types \cup {"reasoning_summary"} /\ f.permits["reasoning_summary"] = Texts
          /\ \A p \in DOMAIN t.types :
                f.permits[p] = ValuesOfType(t.types[p]) \cup IF p \in t.required \/ t.types[p] = "$ref" THEN {} ELSE {NullValue}
      BY <2>1, <2>2, ToolFunctionIs
    <3>2. Texts # {}
      BY DEF Texts
    <3>3. \A type : ValuesOfType(type) # {}
      BY DEF ValuesOfType, Texts
    <3>4. QED
      BY <3>1, <3>2, <3>3
  <2>5. ASSUME f.strict, Permitted(f, arguments) PROVE works
    <3>1. StrictCompatible(t) /\ Permitted(ToolFunction(t), arguments)
      BY <2>1, <2>3, <2>5
    <3>2. QED
      BY <2>1, <2>2, <3>1, ToolCallWorks
  <2>6. QED
    BY <2>4, <2>5
<1>2. CASE c.skills # {} /\ f = LoadSkillFunction(c.skills)
  BY <1>2, SkillCallWorks
<1>3. CASE c.agents # {} /\ f = DelegateFunction(c.agents)
  BY <1>3, DelegateCallWorks
<1>4. CASE ~(c.max_parallel < 2) /\ f = DelegateParallelFunction(c.agents, c.max_parallel)
  <2>1. c.max_parallel \in 2..MaxDelegations
    BY <1>4, CallsAssumption
  <2>2. QED
    BY <1>4, <2>1, ParallelCallWorks
<1>5. CASE f = FinishFunction
  BY <1>5, FinishCallWorks
<1>6. QED
  <2> HIDE DEF Goal
  <2>1. \/ \E t \in c.tools : f = ToolFunction(t)
        \/ c.skills # {} /\ f = LoadSkillFunction(c.skills)
        \/ c.agents # {} /\ f = DelegateFunction(c.agents)
        \/ ~(c.max_parallel < 2) /\ f = DelegateParallelFunction(c.agents, c.max_parallel)
        \/ f = FinishFunction
    BY DEF FunctionDefinitions
  <2>2. QED
    BY <1>1, <1>2, <1>3, <1>4, <1>5, <2>1

(* Every call a tool takes, of values of the types it names, can be made     *)
(* through the function offered for it (llm/openai_client.py:111-153,        *)
(* 268-331).                                                                 *)
LEMMA ToolCallsHold ==
    ASSUME NEW t, IsTool(t), NEW arguments, arguments = [p \in DOMAIN arguments |-> arguments[p]],
           \A p \in DOMAIN arguments : \E q \in DOMAIN t.types : arguments[p] \in ValuesOfType(t.types[q])
    PROVE  ToolCallsAreOffered(t, arguments)
<1> DEFINE f == ToolFunction(t)
           call == [p \in DOMAIN f.permits |->
                       IF p \in DOMAIN arguments THEN arguments[p]
                       ELSE IF p = "reasoning_summary" THEN Value("string", "text", 0) ELSE NullValue]
           a == ToAgentAction(f, call)
<1> SUFFICES ASSUME Takes(t, Types(arguments)), \A p \in DOMAIN arguments : p \in DOMAIN t.types /\ arguments[p] # NullValue, f.strict
             PROVE  Permitted(f, call) /\ a.arguments = arguments
  BY DEF ToolCallsAreOffered
<1>1. /\ f.action = "use_tool" /\ DOMAIN f.permits = DOMAIN t.types \cup {"reasoning_summary"}
      /\ f.permits["reasoning_summary"] = Texts /\ f.strict = StrictCompatible(t)
      /\ \A p \in DOMAIN t.types :
            f.permits[p] = ValuesOfType(t.types[p]) \cup IF p \in t.required \/ t.types[p] = "$ref" THEN {} ELSE {NullValue}
  BY ToolFunctionIs
<1>2. "reasoning_summary" \notin DOMAIN t.types /\ \A p \in DOMAIN t.types : t.types[p] \in JsonTypes
  <2>1. StrictCompatible(t)
    BY <1>1
  <2>2. QED
    BY <2>1, StrictIs DEF IsTool
<1>3. DOMAIN Types(arguments) = DOMAIN arguments /\ \A p \in DOMAIN arguments : Types(arguments)[p] = arguments[p].type
  BY DEF Types
<1>4. /\ t.required \subseteq DOMAIN arguments
      /\ \A p \in DOMAIN arguments : MatchesJsonType(arguments[p].type, t.types[p])
  BY <1>3 DEF Takes
<1>5. \A q \in DOMAIN t.types : t.types[q] \in JsonTypes \cup {"$ref"}
  BY DEF IsTool
<1> HIDE DEF f
<1>6. ASSUME NEW p \in DOMAIN arguments PROVE arguments[p] \in f.permits[p]
  <2>1. PICK q \in DOMAIN t.types : arguments[p] \in ValuesOfType(t.types[q])
    OBVIOUS
  <2>2. p \in DOMAIN t.types /\ t.types[p] \in JsonTypes /\ t.types[q] \in JsonTypes \cup {"$ref"}
    BY <1>2, <1>5
  <2>3. arguments[p] \in ValuesOfType(t.types[p])
    BY <1>4, <2>1, <2>2, MatchingValues
  <2>4. QED
    BY <1>1, <2>2, <2>3
<1>7. /\ DOMAIN call = DOMAIN f.permits
      /\ \A p \in DOMAIN arguments : p \in DOMAIN call /\ call[p] = arguments[p]
      /\ \A p \in DOMAIN call : p \notin DOMAIN arguments /\ p # "reasoning_summary" => call[p] = NullValue
      /\ "reasoning_summary" \in DOMAIN call /\ call["reasoning_summary"] = Value("string", "text", 0)
  BY <1>1, <1>2
<1> HIDE DEF call
<1>8. ASSUME NEW p \in DOMAIN call PROVE call[p] \in f.permits[p]
  <2>1. CASE p \in DOMAIN arguments
    BY <1>6, <1>7, <2>1
  <2>2. CASE p \notin DOMAIN arguments /\ p = "reasoning_summary"
    BY <1>1, <1>7, <2>2 DEF Texts
  <2>3. CASE p \notin DOMAIN arguments /\ p # "reasoning_summary"
    <3>1. p \in DOMAIN t.types /\ p \notin t.required /\ t.types[p] # "$ref" /\ call[p] = NullValue
      BY <1>1, <1>2, <1>4, <1>7, <2>3 DEF JsonTypes
    <3>2. QED
      BY <1>1, <3>1
  <2>4. QED
    BY <2>1, <2>2, <2>3
<1>9. Permitted(f, call)
  BY <1>1, <1>7, <1>8 DEF Permitted
<1>10. /\ a.arguments = [p \in DOMAIN a.arguments |-> a.arguments[p]]
       /\ \A p : p \in DOMAIN a.arguments <=> p \in DOMAIN call /\ p # "reasoning_summary" /\ (f.action # "use_tool" \/ call[p] # NullValue)
       /\ \A p \in DOMAIN a.arguments : a.arguments[p] = call[p]
  <2>1. IsGiven(a, f, call)
    BY GivenIs
  <2> HIDE DEF a
  <2>2. QED
    BY <2>1 DEF IsGiven
<1> HIDE DEF a
<1>11. \A p : p \in DOMAIN a.arguments <=> p \in DOMAIN arguments
  BY <1>1, <1>2, <1>7, <1>10
<1>12. a.arguments = arguments
  BY <1>7, <1>10, <1>11
<1>13. QED
  BY <1>9, <1>12

(* ModelCallsOK, for every price list, usage, run and offer: a model is shown *)
(* the run, can call what it is offered and is charged for what it used.     *)
THEOREM ModelCallsAlwaysHold == QuestionSpec => []ModelCallsOK
<1>1. Put(asked) => ModelCallsOK
  <2> SUFFICES ASSUME Put(asked) PROVE ModelCallsOK
    OBVIOUS
  <2>1. asked.of = "price" => CostOK
    <3> SUFFICES ASSUME asked.of = "price" PROVE CostOK
      OBVIOUS
    <3>1. (\A n \in DOMAIN asked.custom : IsPricing(asked.custom[n])) /\ asked.usage \in Usage
      <4>1. asked.of = "price" /\ Put(asked)
        OBVIOUS
      <4>2. asked.custom \in CustomPrices /\ asked.usage \in Usages
        BY <4>1 DEF Put
      <4>3. QED
        BY <4>2, CallQuestions
    <3>2. QED
      BY <3>1, CostsHold DEF CostOK
  <2>2. asked.of = "context" => ContextOK /\ EvidenceOK
    <3> SUFFICES ASSUME asked.of = "context" PROVE ContextOK /\ EvidenceOK
      OBVIOUS
    <3>1. AreNumbered(asked.state.observations) /\ asked.state.summarized \in Int
      <4>1. asked.of = "context" /\ Put(asked)
        OBVIOUS
      <4>2. asked.state \in RunStates
        BY <4>1 DEF Put
      <4>3. QED
        BY <4>2, CallQuestions
    <3>2. QED
      BY <3>1, ContextHolds DEF ContextOK, EvidenceOK
  <2>3. asked.of = "call" => CallOK /\ OfferOK
    <3> SUFFICES ASSUME asked.of = "call" PROVE CallOK /\ OfferOK
      OBVIOUS
    <3>1. asked.offer \in Offers /\ asked.function \in FunctionDefinitions(asked.offer)
      <4>1. asked.of = "call" /\ Put(asked)
        OBVIOUS
      <4>2. QED
        BY <4>1 DEF Put
    <3>2. (\A t \in asked.offer.tools : IsTool(t)) /\ asked.offer.max_parallel \in 0..MaxDelegations
      BY <3>1, CallQuestions
    <3>3. CallOK
      BY <3>1, <3>2, OffersHold DEF CallOK
    <3>4. OfferOK
      <4> SUFFICES ASSUME NEW t \in asked.offer.tools, NEW P \in SUBSET DOMAIN t.types,
                          NEW arguments \in [P -> UNION {ValuesOfType(t.types[q]) : q \in DOMAIN t.types}]
                   PROVE  ToolCallsAreOffered(t, arguments)
        BY DEF OfferOK
      <4>1. arguments = [p \in DOMAIN arguments |-> arguments[p]]
        OBVIOUS
      <4>2. \A p \in DOMAIN arguments : \E q \in DOMAIN t.types : arguments[p] \in ValuesOfType(t.types[q])
        OBVIOUS
      <4>3. QED
        BY <3>2, <4>1, <4>2, ToolCallsHold
    <3>5. QED
      BY <3>3, <3>4
  <2>4. QED
    BY <2>1, <2>2, <2>3 DEF ModelCallsOK, CostOK, ContextOK, EvidenceOK, CallOK, OfferOK
<1>2. QED
  BY <1>1, AlwaysPut, PTL

=============================================================================
