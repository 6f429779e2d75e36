----------------------------- MODULE HumanGate ------------------------------
(***************************************************************************)
(* What the human-approval checkpoints of one run promise, whoever serves  *)
(* the requests and however often they are repeated: the run asks, one     *)
(* answer is final, an approved action runs at most once and before        *)
(* anything else the run does, and an outcome is never taken back.         *)
(* ApprovalFlow is the code's way of keeping this promise.                 *)
(***************************************************************************)
EXTENDS Integers

CONSTANTS Approvals,  \* the approval requests the run may make
          NoApproval  \* none of them

VARIABLES
    gate,     \* each request's status, "absent" before it is made
    taken,    \* whether the run went on from it
    due,      \* the approved request whose action is to run now
    ran,      \* how often its action ran
    outcome   \* what the run is doing, or how it ended

vars == <<gate, taken, due, ran, outcome>>

Answers == {"approved", "rejected"}
Outcomes == {"completed", "failed"}

Init ==
    /\ gate = [a \in Approvals |-> "absent"]
    /\ taken = [a \in Approvals |-> FALSE]
    /\ due = NoApproval
    /\ ran = [a \in Approvals |-> 0]
    /\ outcome = "running"

Working == outcome = "running" /\ due = NoApproval

(* The run stops at a gated action, every earlier one being dealt with. *)
Ask(a) ==
    /\ Working
    /\ gate[a] = "absent"
    /\ \A b \in Approvals : gate[b] # "absent" => taken[b]
    /\ gate' = [gate EXCEPT ![a] = "pending"]
    /\ outcome' = "waiting_for_approval"
    /\ UNCHANGED <<taken, due, ran>>

(* A reviewer's answer, or the deadline's. *)
Answer(a, answer) ==
    /\ gate[a] = "pending"
    /\ gate' = [gate EXCEPT ![a] = answer]
    /\ UNCHANGED <<taken, due, ran, outcome>>

(* The run goes on from an answered request, once. *)
Take(a) ==
    /\ outcome = "waiting_for_approval"
    /\ gate[a] \in Answers
    /\ ~taken[a]
    /\ taken' = [taken EXCEPT ![a] = TRUE]
    /\ due' = IF gate[a] = "approved" THEN a ELSE NoApproval
    /\ outcome' = "running"
    /\ UNCHANGED <<gate, ran>>

(* The approved action runs, or is refused because it no longer validates. *)
Act ==
    /\ outcome = "running"
    /\ due # NoApproval
    /\ due' = NoApproval
    /\ \/ ran' = [ran EXCEPT ![due] = @ + 1]
       \/ UNCHANGED ran
    /\ UNCHANGED <<gate, taken, outcome>>

End ==
    /\ Working
    /\ outcome' \in Outcomes
    /\ UNCHANGED <<gate, taken, due, ran>>

(* The run is working and is never heard of again. *)
Lose ==
    /\ outcome = "running"
    /\ outcome' = "lost"
    /\ due' = NoApproval
    /\ UNCHANGED <<gate, taken, ran>>

Next ==
    \/ \E a \in Approvals :
          \/ Ask(a)
          \/ \E answer \in Answers \cup {"expired"} : Answer(a, answer)
          \/ Take(a)
    \/ Act \/ End \/ Lose

Spec == Init /\ [][Next]_vars

=============================================================================
