-------------------------- MODULE AgentRun_proofs ---------------------------
(***************************************************************************)
(* Proofs about AgentRun, for every value of its constants.                *)
(***************************************************************************)
EXTENDS AgentRun, TLAPS

(* A reconciled plan is a plan. *)
LEMMA ReconcileType ==
    ASSUME NEW plan \in Plan
    PROVE  Reconcile(plan) \in Plan
<1>1. \A i \in Items : ReconcileItem(i, plan.items[i]) \in
          [status : ItemStatus, evidence : SUBSET Evidence]
  <2>1. SUFFICES ASSUME NEW i \in Items, NEW claim,
                        claim \in [status : ItemStatus, evidence : SUBSET Evidence]
                 PROVE  ReconcileItem(i, claim) \in
                            [status : ItemStatus, evidence : SUBSET Evidence]
    BY DEF Plan
  <2>2. (claim.evidence \cap evidence \cap Backing(i)) \in SUBSET Evidence
    BY <2>1
  <2>3. [claim EXCEPT !.evidence = claim.evidence \cap evidence \cap Backing(i)]
            \in [status : ItemStatus, evidence : SUBSET Evidence]
    BY <2>1, <2>2
  <2>4. [status |-> "pending", evidence |-> {}]
            \in [status : ItemStatus, evidence : SUBSET Evidence]
    BY DEF ItemStatus
  <2>5. QED
    BY <2>1, <2>3, <2>4 DEF ReconcileItem
<1>2. QED
  BY <1>1 DEF Reconcile, Plan

LEMMA OldObservationsType ==
    ASSUME NEW n \in Nat
    PROVE  OldObservations(n) \in Nat
BY LimitsAssumption DEF OldObservations

(* A summary covers a number of observations. *)
LEMMA SummarizeType ==
    ASSUME summarized \in Nat, observations' \in Nat, Summarize
    PROVE  summarized' \in Nat
BY OldObservationsType DEF Summarize

(* What every iteration of the loop does to the fields it shares. *)
LEMMA IterateType ==
    ASSUME TypeOK, NEW recorded \in Nat, Iterate(recorded)
    PROVE  /\ iteration_count' \in Nat
           /\ attempt' \in 1..3
           /\ observations' \in Nat
           /\ summarized' \in Nat
           /\ raised' \in BOOLEAN
           /\ checkpoint' \in Nat
<1>1. observations' \in Nat
  BY DEF TypeOK, Iterate
<1>2. QED
  BY <1>1, SummarizeType DEF TypeOK, Iterate

LEMMA RecoverableErrorType ==
    ASSUME TypeOK, RecoverableError
    PROVE  /\ recoverable_error_count' \in Nat
           /\ status' \in {"running", "waiting_for_approval", "completed", "failed"}
           /\ stop_reason' \in {"none", "completed", "max_iterations",
                                "max_tool_calls", "too_many_errors"}
BY DEF TypeOK, RecoverableError, Stop

LEMMA LaunchType ==
    ASSUME TypeOK, NEW kind, NEW what, Launch(kind, what),
           \/ kind = "use_tool" /\ what \in Calls
           \/ kind = "delegate" /\ what \in Objectives
           \/ kind = "delegate_parallel" /\ what \in Batches
    PROVE  streak' \in Launches
<1>1. streak.n \in Nat
  BY DEF TypeOK, Launches
<1>2. streak'.n \in Nat /\ streak' = [kind |-> kind, what |-> what, n |-> streak'.n]
  BY <1>1 DEF Launch
<1>3. QED
  BY <1>2 DEF Launches

(* A tool call that gets past the refusals. *)
LEMMA UseToolType ==
    ASSUME TypeOK, NEW call \in Calls, UseTool(call)
    PROVE  /\ total_tool_calls' \in Nat
           /\ recent_action_fingerprints' \in Seq(Calls)
           /\ recent_delegation_fingerprints' \in Seq(Objectives)
           /\ streak' \in Launches
<1>1. streak' \in Launches
  BY LaunchType DEF UseTool
<1>2. QED
  BY <1>1 DEF TypeOK, UseTool

-----------------------------------------------------------------------------
(* Every field of AgentState keeps its type along a run. *)

LEMMA InitType == Init => TypeOK
<1>1. NoLaunch \in Launches
  BY DEF NoLaunch, Launches
<1>2. /\ <<>> \in Seq(Calls) /\ <<>> \in Seq(Objectives)
  OBVIOUS
<1>3. SUFFICES ASSUME Init
               PROVE  TypeOK
  OBVIOUS
<1>4. /\ status \in {"running", "waiting_for_approval", "completed", "failed"}
      /\ stop_reason \in {"none", "completed", "max_iterations",
                          "max_tool_calls", "too_many_errors"}
      /\ raised \in BOOLEAN
  BY <1>3 DEF Init
<1>5. QED
  BY <1>1, <1>2, <1>3, <1>4 DEF Init, TypeOK

LEMMA NextType ==
    ASSUME TypeOK, [Next]_vars
    PROVE  TypeOK'
<1> USE DEF GoOn, control, windows, delegation, finishing
<1>1. ASSUME NEW category \in Categories, LLMFails(category)
      PROVE  TypeOK'
  <2>1. MaxAttempts[category] \in 2..3
    BY DEF Categories, MaxAttempts
  <2>2. attempt' \in 1..3
    BY <1>1, <2>1 DEF TypeOK, LLMFails
  <2>3. raised' \in BOOLEAN
    BY <1>1 DEF TypeOK, LLMFails
  <2>4. QED
    BY <1>1, <2>2, <2>3 DEF TypeOK, LLMFails
<1>2. CASE ToolLimitStop
  BY <1>2, IterateType DEF TypeOK, ToolLimitStop, Stop
<1>3. ASSUME NEW call \in Calls, ToolDuplicateRefused(call)
      PROVE  TypeOK'
  BY <1>3, IterateType DEF TypeOK, ToolDuplicateRefused
<1>4. ASSUME NEW call \in Calls, ToolSucceeds(call)
      PROVE  TypeOK'
  <2>1. evidence' \subseteq Evidence
    BY <1>4 DEF TypeOK, ToolSucceeds, Produces
  <2>2. QED
    BY <1>4, <2>1, IterateType, UseToolType DEF TypeOK, ToolSucceeds, UseTool
<1>5. ASSUME NEW call \in Calls, ToolFails(call)
      PROVE  TypeOK'
  BY <1>5, IterateType, UseToolType, RecoverableErrorType
  DEF TypeOK, ToolFails, UseTool
<1>6. ASSUME NEW call \in Calls, ToolUnapprovable(call)
      PROVE  TypeOK'
  BY <1>6, IterateType, UseToolType DEF TypeOK, ToolUnapprovable, UseTool
<1>7. ASSUME NEW call \in Calls, PauseForApproval(call)
      PROVE  TypeOK'
  <2>1. streak' \in Launches
    BY <1>7, LaunchType DEF PauseForApproval
  <2>2. summarized' \in Nat
    BY <1>7, SummarizeType DEF PauseForApproval, TypeOK
  <2>3. QED
    BY <1>7, <2>1, <2>2 DEF TypeOK, PauseForApproval
<1>8. ASSUME NEW call \in Calls, NEW proposal \in Proposals, PlanUpdated(call, proposal)
      PROVE  TypeOK'
  <2>1. investigation_plan' \in Plan
    BY <1>8, ReconcileType DEF PlanUpdated, Proposals
  <2>2. QED
    BY <1>8, <2>1, IterateType, UseToolType DEF TypeOK, PlanUpdated, UseTool
<1>9. CASE SkillLoaded
  BY <1>9, IterateType DEF TypeOK, SkillLoaded, NoLaunch, Launches
<1>10. CASE SkillUnknown
  BY <1>10, IterateType, RecoverableErrorType DEF TypeOK, SkillUnknown
<1>11. CASE SkillLoadRaises
  BY <1>11 DEF TypeOK, SkillLoadRaises
<1>12. CASE DelegationRefused
  BY <1>12, IterateType, RecoverableErrorType DEF TypeOK, DelegationRefused
<1>13. ASSUME NEW objective \in Objectives,
              \/ \E success \in BOOLEAN : Delegate(objective, success)
              \/ DelegationUnavailable(objective)
       PROVE  TypeOK'
  <2>1. AcceptDelegation(objective)
    BY <1>13 DEF Delegate, DelegationUnavailable
  <2>2. streak' \in Launches
    BY <2>1, LaunchType DEF AcceptDelegation
  <2>3. /\ recoverable_error_count' \in Nat
        /\ status' \in {"running", "waiting_for_approval", "completed", "failed"}
        /\ stop_reason' \in {"none", "completed", "max_iterations",
                             "max_tool_calls", "too_many_errors"}
    BY <1>13, RecoverableErrorType DEF Delegate, DelegationUnavailable, TypeOK
  <2>4. /\ successful_delegation_count' \in Nat /\ failed_delegation_count' \in Nat
        /\ unexecuted' \in Nat
    BY <1>13 DEF Delegate, DelegationUnavailable, TypeOK
  <2>5. QED
    BY <2>1, <2>2, <2>3, <2>4, IterateType DEF TypeOK, AcceptDelegation
<1>14. ASSUME NEW batch \in Batches,
              \/ \E failures \in 0..BatchSize[batch] : DelegateParallel(batch, failures)
              \/ BatchUnavailable(batch)
       PROVE  TypeOK'
  <2>1. AcceptBatch(batch)
    BY <1>14 DEF DelegateParallel, BatchUnavailable
  <2>2. streak' \in Launches
    BY <2>1, LaunchType DEF AcceptBatch
  <2>3. /\ recoverable_error_count' \in Nat
        /\ status' \in {"running", "waiting_for_approval", "completed", "failed"}
        /\ stop_reason' \in {"none", "completed", "max_iterations",
                             "max_tool_calls", "too_many_errors"}
    BY <1>14, RecoverableErrorType DEF DelegateParallel, BatchUnavailable, TypeOK
  <2>4. BatchSize[batch] \in Nat
    BY InputAssumption
  <2>5. /\ delegation_requests' \in Nat
        /\ successful_delegation_count' \in Nat /\ failed_delegation_count' \in Nat
        /\ unexecuted' \in Nat
    <3>1. delegation_requests' \in Nat
      BY <2>1, <2>4 DEF AcceptBatch, TypeOK
    <3>2. CASE BatchUnavailable(batch)
      BY <2>4, <3>1, <3>2 DEF BatchUnavailable, TypeOK
    <3>3. ASSUME NEW failures \in 0..BatchSize[batch], DelegateParallel(batch, failures)
          PROVE  /\ successful_delegation_count' \in Nat
                 /\ failed_delegation_count' \in Nat /\ unexecuted' \in Nat
      BY <2>4, <3>3 DEF DelegateParallel, Successes, TypeOK
    <3>4. QED
      BY <1>14, <3>1, <3>2, <3>3
  <2>6. QED
    BY <2>1, <2>2, <2>3, <2>5, IterateType DEF TypeOK, AcceptBatch
<1>15. CASE FinishRedirected
  BY <1>15, IterateType DEF TypeOK, FinishRedirected
<1>16. ASSUME NEW own \in 0..MaxCaveats, FinishAccepted(own)
       PROVE  TypeOK'
  <2>1. disclosed' \subseteq Items \cup {TableGap}
    BY <1>16 DEF FinishAccepted, Printable, Missing
  <2>2. QED
    BY <1>16, <2>1, IterateType DEF TypeOK, FinishAccepted
<1>17. CASE IterationLimitStop
  BY <1>17 DEF TypeOK, IterationLimitStop, Stop
<1>18. CASE ResumeApproved
  <2>1. evidence' \subseteq Evidence
    BY <1>18 DEF TypeOK, ResumeApproved, Produces
  <2>2. QED
    BY <1>18, <2>1 DEF TypeOK, ResumeApproved, Resume
<1>19. CASE ResumeRejected
  BY <1>19 DEF TypeOK, ResumeRejected, Resume
<1>20. CASE UNCHANGED vars
  BY <1>20 DEF TypeOK, vars
<1>21. QED
  BY <1>1, <1>2, <1>3, <1>4, <1>5, <1>6, <1>7, <1>8, <1>9, <1>10, <1>11, <1>12,
     <1>13, <1>14, <1>15, <1>16, <1>17, <1>18, <1>19, <1>20
  DEF Next, Loop, Reviewer

(* Every field of AgentState keeps its declared type, for every limit,     *)
(* every set of tools, objectives and batches, and every plan.             *)
THEOREM TypeCorrect == Spec => []TypeOK
BY InitType, NextType, PTL DEF Spec

-----------------------------------------------------------------------------
(* The counters.  That observations stay within the iterations needs the   *)
(* pause to be counted for: the iteration that paused records its one      *)
(* observation when the run resumes.                                       *)

ObservationsOwed == IF status = "waiting_for_approval" THEN 1 ELSE 0

Bounds ==
    /\ LimitsRespected
    /\ recoverable_error_count <= observations
    /\ observations + ObservationsOwed <= iteration_count
    /\ DelegationsAccounted

LEMMA InitBounds == Init => Bounds
<1>1. /\ MaxIterations \in Nat /\ MaxToolCalls \in Nat
      /\ MaxFinishRedirects \in Nat /\ MaxDelegations \in Nat
  BY LimitsAssumption
<1>2. QED
  BY <1>1 DEF Init, Bounds, LimitsRespected, ObservationsOwed, DelegationsAccounted

(* What an iteration means for the bounds: one more of them is used, at    *)
(* most one observation is recorded, and no observation is owed.           *)
LEMMA IterateBounds ==
    ASSUME TypeOK, Bounds, NEW recorded \in 0..1, Iterate(recorded),
           status' # "waiting_for_approval"
    PROVE  /\ iteration_count' <= MaxIterations
           /\ observations' + ObservationsOwed' <= iteration_count'
           /\ recoverable_error_count + recorded <= observations'
<1>1. MaxIterations \in Nat
  BY LimitsAssumption
<1>2. iteration_count < MaxIterations /\ iteration_count' = iteration_count + 1
  BY DEF Iterate, Choosing
<1>3. observations' = observations + recorded /\ ObservationsOwed' = 0
  BY DEF Iterate, ObservationsOwed
<1>4. observations <= iteration_count /\ recoverable_error_count <= observations
  BY DEF Bounds, ObservationsOwed, TypeOK
<1>5. QED
  BY <1>1, <1>2, <1>3, <1>4 DEF TypeOK

LEMMA RecoverableErrorCounted ==
    ASSUME TypeOK, RecoverableError, Running
    PROVE  /\ recoverable_error_count' = recoverable_error_count + 1
           /\ status' # "waiting_for_approval"
BY DEF RecoverableError, Stop, Running

LEMMA NextBounds ==
    ASSUME TypeOK, TypeOK', Bounds, [Next]_vars
    PROVE  Bounds'
<1> USE DEF GoOn, control, windows, delegation, finishing
<1> DEFINE Quota == /\ delegation_requests' <= MaxDelegations
                    /\ AgentDepth >= MaxAgentDepth => delegation_requests' = 0
                    /\ DelegationsAccounted'
           MoreErrors == recoverable_error_count' \in {recoverable_error_count,
                                                       recoverable_error_count + 1}
<1>0. /\ MaxIterations \in Nat /\ MaxToolCalls \in Nat
      /\ MaxFinishRedirects \in Nat /\ MaxDelegations \in Nat
      /\ AgentDepth \in Nat /\ MaxAgentDepth \in Nat
  BY LimitsAssumption, InputAssumption
<1>a. /\ delegation_requests = successful_delegation_count
                                + failed_delegation_count + unexecuted
      /\ failed_delegation_count + unexecuted > 0 => recoverable_error_count > 0
      /\ Executors = {"delegate", "delegate_parallel"} => unexecuted = 0
      /\ delegation_requests \in Nat /\ unexecuted \in Nat
      /\ successful_delegation_count \in Nat /\ failed_delegation_count \in Nat
      /\ recoverable_error_count \in Nat
  BY DEF Bounds, DelegationsAccounted, TypeOK
<1>1. (UNCHANGED delegation) /\ MoreErrors => Quota
  BY <1>a DEF Bounds, LimitsRespected, DelegationsAccounted
<1>2. ASSUME NEW category \in Categories, LLMFails(category)
      PROVE  Bounds'
  BY <1>1, <1>2 DEF LLMFails, Bounds, LimitsRespected, ObservationsOwed
<1>3. CASE ToolLimitStop
  <2>1. status' = "failed"
    BY <1>3 DEF ToolLimitStop, Stop
  <2>2. QED
    BY <1>0, <1>1, <1>3, <2>1, IterateBounds
    DEF ToolLimitStop, Bounds, LimitsRespected, TypeOK
<1>4. ASSUME NEW call \in Calls, ToolDuplicateRefused(call)
      PROVE  Bounds'
  <2>1. status' = "running"
    BY <1>4 DEF ToolDuplicateRefused, Iterate, Choosing, Running
  <2>2. QED
    BY <1>0, <1>1, <1>4, <2>1, IterateBounds
    DEF ToolDuplicateRefused, Bounds, LimitsRespected, TypeOK
<1>5. ASSUME NEW call \in Calls, UseTool(call), status' # "waiting_for_approval",
             recoverable_error_count' \in {recoverable_error_count,
                                           recoverable_error_count + 1}
      PROVE  Bounds'
  <2>1. total_tool_calls' <= MaxToolCalls
    BY <1>0, <1>5 DEF UseTool, TypeOK
  <2>2. recoverable_error_count' <= observations'
    BY <1>5, IterateBounds DEF UseTool, TypeOK
  <2>3. QED
    BY <1>0, <1>1, <1>5, <2>1, <2>2, IterateBounds
    DEF UseTool, Bounds, LimitsRespected
<1>6. ASSUME NEW call \in Calls,
             \/ ToolSucceeds(call)
             \/ ToolUnapprovable(call)
             \/ \E proposal \in Proposals : PlanUpdated(call, proposal)
      PROVE  Bounds'
  <2>1. UseTool(call) /\ UNCHANGED <<status, recoverable_error_count>>
    BY <1>6 DEF ToolSucceeds, ToolUnapprovable, PlanUpdated
  <2>2. status' = "running"
    BY <2>1 DEF UseTool, Iterate, Choosing, Running
  <2>3. QED
    BY <1>5, <2>1, <2>2
<1>7. ASSUME NEW call \in Calls, ToolFails(call)
      PROVE  Bounds'
  <2>1. UseTool(call) /\ RecoverableError /\ Running
    BY <1>7 DEF ToolFails, UseTool, Iterate, Choosing
  <2>2. QED
    BY <1>5, <2>1, RecoverableErrorCounted
<1>8. ASSUME NEW call \in Calls, PauseForApproval(call)
      PROVE  Bounds'
  <2>1. total_tool_calls' <= MaxToolCalls /\ iteration_count' <= MaxIterations
    BY <1>0, <1>8 DEF PauseForApproval, Choosing, TypeOK
  <2>2. observations <= iteration_count /\ ObservationsOwed' = 1
    BY <1>8 DEF PauseForApproval, Bounds, ObservationsOwed, TypeOK
  <2>3. observations' + ObservationsOwed' <= iteration_count'
    BY <1>8, <2>2 DEF PauseForApproval, TypeOK
  <2>4. QED
    BY <1>1, <1>8, <2>1, <2>3 DEF PauseForApproval, Bounds, LimitsRespected
<1>9. CASE SkillLoaded
  <2>1. status' = "running"
    BY <1>9 DEF SkillLoaded, Iterate, Choosing, Running
  <2>2. QED
    BY <1>0, <1>1, <1>9, <2>1, IterateBounds
    DEF SkillLoaded, Bounds, LimitsRespected, TypeOK
<1>10. CASE SkillUnknown \/ DelegationRefused
  <2>1. /\ Iterate(1) /\ RecoverableError /\ Running
        /\ UNCHANGED <<total_tool_calls, finish_redirect_count, delegation>>
    BY <1>10 DEF SkillUnknown, DelegationRefused, Iterate, Choosing
  <2>2. QED
    BY <1>0, <1>1, <2>1, IterateBounds, RecoverableErrorCounted
    DEF Bounds, LimitsRespected
<1>11. CASE SkillLoadRaises
  <2>1. iteration_count' <= MaxIterations
    BY <1>0, <1>11 DEF SkillLoadRaises, Choosing, TypeOK
  <2>2. QED
    BY <1>1, <1>11, <2>1
    DEF SkillLoadRaises, Bounds, LimitsRespected, ObservationsOwed, TypeOK
<1>12. ASSUME NEW objective \in Objectives,
              \/ \E success \in BOOLEAN : Delegate(objective, success)
              \/ DelegationUnavailable(objective)
       PROVE  Bounds'
  <2>1. AcceptDelegation(objective) /\ Iterate(1) /\ Running
    BY <1>12 DEF Delegate, DelegationUnavailable, AcceptDelegation, Iterate, Choosing
  <2>2. /\ status' # "waiting_for_approval"
        /\ recoverable_error_count' \in {recoverable_error_count,
                                          recoverable_error_count + 1}
    BY <1>12, <2>1, RecoverableErrorCounted DEF Delegate, DelegationUnavailable, Running
  <2>3. Quota
    <3>1. AgentDepth < MaxAgentDepth /\ delegation_requests + 1 <= MaxDelegations
      BY <2>1 DEF AcceptDelegation, DelegationOpen
    <3>2. delegation_requests' = delegation_requests + 1
      BY <2>1 DEF AcceptDelegation
    <3>3. \/ /\ successful_delegation_count' = successful_delegation_count + 1
             /\ UNCHANGED <<failed_delegation_count, unexecuted>>
          \/ /\ failed_delegation_count' = failed_delegation_count + 1
             /\ UNCHANGED <<successful_delegation_count, unexecuted>>
             /\ recoverable_error_count' = recoverable_error_count + 1
          \/ /\ unexecuted' = unexecuted + 1 /\ "delegate" \notin Executors
             /\ UNCHANGED <<successful_delegation_count, failed_delegation_count>>
             /\ recoverable_error_count' = recoverable_error_count + 1
      BY <1>12, <2>1, RecoverableErrorCounted DEF Delegate, DelegationUnavailable
    <3>4. DelegationsAccounted'
      BY <1>a, <2>2, <3>2, <3>3 DEF DelegationsAccounted
    <3>5. QED
      BY <1>0, <3>1, <3>2, <3>4 DEF TypeOK
  <2>4. recoverable_error_count' <= observations'
    <3>1. recoverable_error_count + 1 <= observations'
      BY <2>1, <2>2, IterateBounds
    <3>2. QED
      BY <2>2, <3>1 DEF TypeOK
  <2>5. QED
    BY <1>0, <2>1, <2>2, <2>3, <2>4, IterateBounds
    DEF AcceptDelegation, Bounds, LimitsRespected
<1>13. ASSUME NEW batch \in Batches,
              \/ \E failures \in 0..BatchSize[batch] : DelegateParallel(batch, failures)
              \/ BatchUnavailable(batch)
       PROVE  Bounds'
  <2>1. AcceptBatch(batch) /\ Iterate(1) /\ Running
    BY <1>13 DEF DelegateParallel, BatchUnavailable, AcceptBatch, Iterate, Choosing
  <2>2. BatchSize[batch] \in Nat
    BY InputAssumption
  <2>3. /\ status' # "waiting_for_approval"
        /\ recoverable_error_count' \in {recoverable_error_count,
                                          recoverable_error_count + 1}
    BY <1>13, <2>1, RecoverableErrorCounted DEF DelegateParallel, BatchUnavailable, Running
  <2>4. Quota
    <3>1. /\ AgentDepth < MaxAgentDepth
          /\ delegation_requests + BatchSize[batch] <= MaxDelegations
      BY <2>1 DEF AcceptBatch, DelegationOpen
    <3>2. delegation_requests' = delegation_requests + BatchSize[batch]
      BY <2>1 DEF AcceptBatch
    <3>3. CASE BatchUnavailable(batch)
      <4>1. /\ unexecuted' = unexecuted + BatchSize[batch]
            /\ "delegate_parallel" \notin Executors
            /\ UNCHANGED <<successful_delegation_count, failed_delegation_count>>
            /\ recoverable_error_count' = recoverable_error_count + 1
        BY <2>1, <3>3, RecoverableErrorCounted DEF BatchUnavailable
      <4>2. DelegationsAccounted'
        BY <1>a, <2>2, <3>2, <4>1 DEF DelegationsAccounted
      <4>3. QED
        BY <1>0, <2>2, <3>1, <3>2, <4>2 DEF TypeOK
    <3>4. ASSUME NEW failures \in 0..BatchSize[batch], DelegateParallel(batch, failures)
          PROVE  Quota
      <4>1. /\ failed_delegation_count' = failed_delegation_count + failures
            /\ successful_delegation_count' =
                  successful_delegation_count + (BatchSize[batch] - failures)
            /\ UNCHANGED unexecuted
            /\ failures # 0 =>
                  recoverable_error_count' = recoverable_error_count + 1
        BY <2>1, <3>4, RecoverableErrorCounted DEF DelegateParallel, Successes
      <4>2. DelegationsAccounted'
        BY <1>a, <2>2, <2>3, <3>2, <4>1 DEF DelegationsAccounted
      <4>3. QED
        BY <1>0, <2>2, <3>1, <3>2, <4>2 DEF TypeOK
    <3>5. QED
      BY <1>13, <3>3, <3>4
  <2>5. recoverable_error_count' <= observations'
    <3>1. recoverable_error_count + 1 <= observations'
      BY <2>1, <2>3, IterateBounds
    <3>2. QED
      BY <2>3, <3>1 DEF TypeOK
  <2>6. QED
    BY <1>0, <2>1, <2>3, <2>4, <2>5, IterateBounds
    DEF AcceptBatch, Bounds, LimitsRespected
<1>14. CASE FinishRedirected
  <2>1. status' = "running"
    BY <1>14 DEF FinishRedirected, Iterate, Choosing, Running
  <2>2. finish_redirect_count' <= MaxFinishRedirects
    BY <1>0, <1>14 DEF FinishRedirected, RedirectsExhausted, TypeOK
  <2>3. QED
    BY <1>0, <1>1, <1>14, <2>1, <2>2, IterateBounds
    DEF FinishRedirected, Bounds, LimitsRespected, TypeOK
<1>15. ASSUME NEW own \in 0..MaxCaveats, FinishAccepted(own)
       PROVE  Bounds'
  <2>1. status' = "completed"
    BY <1>15 DEF FinishAccepted
  <2>2. QED
    BY <1>0, <1>1, <1>15, <2>1, IterateBounds
    DEF FinishAccepted, Bounds, LimitsRespected, TypeOK
<1>16. CASE IterationLimitStop
  BY <1>1, <1>16
  DEF IterationLimitStop, Stop, Running, Bounds, LimitsRespected, ObservationsOwed
<1>17. CASE ResumeApproved \/ ResumeRejected
  <2>1. /\ Resume
        /\ recoverable_error_count' \in {recoverable_error_count,
                                          recoverable_error_count + 1}
    BY <1>17 DEF ResumeApproved, ResumeRejected
  <2>2. /\ observations' = observations + 1
        /\ recoverable_error_count' <= observations'
    BY <2>1 DEF Resume, Bounds, TypeOK
  <2>3. observations' + ObservationsOwed' <= iteration_count'
    BY <2>1, <2>2 DEF Resume, Bounds, ObservationsOwed, TypeOK
  <2>4. QED
    BY <1>1, <2>1, <2>2, <2>3 DEF Resume, Bounds, LimitsRespected
<1>18. CASE UNCHANGED vars
  BY <1>18
  DEF vars, Bounds, LimitsRespected, ObservationsOwed, DelegationsAccounted
<1>19. QED
  BY <1>2, <1>3, <1>4, <1>6, <1>7, <1>8, <1>9, <1>10, <1>11, <1>12, <1>13,
     <1>14, <1>15, <1>16, <1>17, <1>18
  DEF Next, Loop, Reviewer

LEMMA BoundsInvariant == Spec => [](TypeOK /\ Bounds)
<1>1. Init => TypeOK /\ Bounds
  BY InitType, InitBounds
<1>2. TypeOK /\ Bounds /\ [Next]_vars => (TypeOK /\ Bounds)'
  BY NextType, NextBounds
<1>3. QED
  BY <1>1, <1>2, PTL DEF Spec

(* No counter of the run ever passes its limit, for every value of the     *)
(* limits and of the depth.                                                *)
THEOREM LimitsAreRespected == Spec => []LimitsRespected
<1>1. Bounds => LimitsRespected
  BY DEF Bounds
<1>2. QED
  BY <1>1, BoundsInvariant, PTL

(* Every error is told to the model, and no iteration tells it more than   *)
(* one thing.                                                              *)
THEOREM ErrorsAreAlwaysObserved == Spec => []ErrorsAreObserved
<1>1. TypeOK /\ Bounds => ErrorsAreObserved
  BY DEF TypeOK, Bounds, ErrorsAreObserved, ObservationsOwed
<1>2. QED
  BY <1>1, BoundsInvariant, PTL

(* Every accepted delegation is a success, a failure or a request nobody   *)
(* could run, the last two with an error held against the run, for batches *)
(* of every size and every set of executors.                               *)
THEOREM DelegationsAreAccounted == Spec => []DelegationsAccounted
<1>1. Bounds => DelegationsAccounted
  BY DEF Bounds
<1>2. QED
  BY <1>1, BoundsInvariant, PTL

-----------------------------------------------------------------------------
(* Repeats.  The window the runtime looks at holds the launches made in a  *)
(* row, whatever pauses, refusals and errors lie between them.             *)

StreakBacked ==
    /\ streak.kind = "use_tool" =>
          /\ streak.n \in 1..MaxConsecutiveDuplicates
          /\ Repeated(recent_action_fingerprints, streak.what, streak.n)
    /\ streak.kind = "delegate" =>
          /\ streak.n \in 1..MaxConsecutiveDuplicates
          /\ Repeated(recent_delegation_fingerprints, streak.what, streak.n)

(* Appending to a window lengthens its last run of equal entries. *)
LEMMA AppendRepeats ==
    ASSUME NEW S, NEW window \in Seq(S), NEW f \in S, NEW n \in Nat,
           Repeated(window, f, n)
    PROVE  Repeated(Append(window, f), f, n + 1)
<1> DEFINE longer == Append(window, f)
<1>1. /\ Len(window) \in Nat
      /\ Len(longer) = Len(window) + 1
      /\ \A i \in 1..Len(window) : longer[i] = window[i]
      /\ longer[Len(window) + 1] = f
  OBVIOUS
<1>2. n + 1 <= Len(longer)
  BY <1>1 DEF Repeated
<1>3. ASSUME NEW i \in (Len(longer) - (n + 1) + 1)..Len(longer)
      PROVE  longer[i] = f
  <2>1. CASE i = Len(window) + 1
    BY <1>1, <2>1
  <2>2. CASE i # Len(window) + 1
    <3>1. i \in (Len(window) - n + 1)..Len(window)
      BY <1>1, <2>2
    <3>2. i \in 1..Len(window) /\ window[i] = f
      BY <1>1, <3>1 DEF Repeated
    <3>3. QED
      BY <1>1, <3>2
  <2>3. QED
    BY <2>1, <2>2
<1>4. QED
  BY <1>2, <1>3 DEF Repeated

(* One more launch past the duplicate check stays within the limit. *)
LEMMA LaunchRepeats ==
    ASSUME NEW S, NEW window \in Seq(S), NEW f \in S, NEW kind, TypeOK,
           Launch(kind, f),
           ~Repeated(window, f, MaxConsecutiveDuplicates),
           streak.kind = kind =>
               /\ streak.n \in 1..MaxConsecutiveDuplicates
               /\ Repeated(window, streak.what, streak.n)
    PROVE  /\ streak'.kind = kind /\ streak'.what = f
           /\ streak'.n \in 1..MaxConsecutiveDuplicates
           /\ Repeated(Append(window, f), f, streak'.n)
<1>1. MaxConsecutiveDuplicates \in Nat \ {0}
  BY LimitsAssumption
<1>2. CASE streak.kind = kind /\ streak.what = f
  <2>1. streak.n \in 1..MaxConsecutiveDuplicates /\ Repeated(window, f, streak.n)
    BY <1>2
  <2>2. streak.n # MaxConsecutiveDuplicates
    BY <2>1
  <2>3. /\ streak'.kind = kind /\ streak'.what = f
        /\ streak'.n = streak.n + 1
    BY <1>2 DEF Launch
  <2>4. QED
    BY <1>1, <2>1, <2>2, <2>3, AppendRepeats
<1>3. CASE ~(streak.kind = kind /\ streak.what = f)
  <2>1. streak'.kind = kind /\ streak'.what = f /\ streak'.n = 0 + 1
    BY <1>3 DEF Launch
  <2>2. Repeated(window, f, 0)
    BY DEF Repeated
  <2>3. QED
    BY <1>1, <2>1, <2>2, AppendRepeats
<1>4. QED
  BY <1>2, <1>3

LEMMA UseToolStreak ==
    ASSUME TypeOK, StreakBacked, NEW call \in Calls,
           ~DuplicateTool(call), Launch("use_tool", call),
           recent_action_fingerprints' = Append(recent_action_fingerprints, call)
    PROVE  StreakBacked'
<1>1. recent_action_fingerprints \in Seq(Calls)
  BY DEF TypeOK
<1>2. ~Repeated(recent_action_fingerprints, call, MaxConsecutiveDuplicates)
  BY DEF DuplicateTool
<1>3. /\ streak'.kind = "use_tool" /\ streak'.what = call
      /\ streak'.n \in 1..MaxConsecutiveDuplicates
      /\ Repeated(Append(recent_action_fingerprints, call), call, streak'.n)
  BY <1>1, <1>2, LaunchRepeats DEF StreakBacked
<1>4. QED
  BY <1>3 DEF StreakBacked, Repeated

LEMMA DelegateStreak ==
    ASSUME TypeOK, StreakBacked, NEW objective \in Objectives,
           ~DuplicateDelegation(objective), Launch("delegate", objective),
           recent_delegation_fingerprints' =
               Append(recent_delegation_fingerprints, objective)
    PROVE  StreakBacked'
<1>1. recent_delegation_fingerprints \in Seq(Objectives)
  BY DEF TypeOK
<1>2. ~Repeated(recent_delegation_fingerprints, objective, MaxConsecutiveDuplicates)
  BY DEF DuplicateDelegation
<1>3. /\ streak'.kind = "delegate" /\ streak'.what = objective
      /\ streak'.n \in 1..MaxConsecutiveDuplicates
      /\ Repeated(Append(recent_delegation_fingerprints, objective),
                  objective, streak'.n)
  BY <1>1, <1>2, LaunchRepeats DEF StreakBacked
<1>4. QED
  BY <1>3 DEF StreakBacked, Repeated

LEMMA NextStreak ==
    ASSUME TypeOK, StreakBacked, [Next]_vars
    PROVE  StreakBacked'
<1> USE DEF windows
<1>1. (UNCHANGED windows) => StreakBacked'
  BY DEF StreakBacked, Repeated
<1>2. ASSUME NEW call \in Calls, UseTool(call) \/ PauseForApproval(call)
      PROVE  StreakBacked'
  BY <1>2, UseToolStreak DEF UseTool, PauseForApproval
<1>3. ASSUME NEW objective \in Objectives, AcceptDelegation(objective)
      PROVE  StreakBacked'
  BY <1>3, DelegateStreak DEF AcceptDelegation
<1>4. ASSUME NEW batch \in Batches, AcceptBatch(batch)
      PROVE  StreakBacked'
  <2>1. streak'.kind = "delegate_parallel"
    BY <1>4 DEF AcceptBatch, Launch
  <2>2. QED
    BY <2>1 DEF StreakBacked
<1>5. CASE SkillLoaded
  <2>1. streak'.kind = "none"
    BY <1>5 DEF SkillLoaded, NoLaunch
  <2>2. QED
    BY <2>1 DEF StreakBacked
<1>6. ASSUME NEW category \in Categories, LLMFails(category)
      PROVE  StreakBacked'
  BY <1>1, <1>6 DEF LLMFails
<1>7. ASSUME NEW call \in Calls, ToolDuplicateRefused(call)
      PROVE  StreakBacked'
  BY <1>1, <1>7 DEF ToolDuplicateRefused
<1>8. ASSUME NEW call \in Calls,
             \/ ToolSucceeds(call) \/ ToolFails(call) \/ ToolUnapprovable(call)
             \/ \E proposal \in Proposals : PlanUpdated(call, proposal)
      PROVE  StreakBacked'
  BY <1>2, <1>8 DEF ToolSucceeds, ToolFails, ToolUnapprovable, PlanUpdated
<1>9. ASSUME NEW own \in 0..MaxCaveats, FinishAccepted(own)
      PROVE  StreakBacked'
  BY <1>1, <1>9 DEF FinishAccepted
<1>10. CASE \/ ToolLimitStop \/ SkillUnknown \/ SkillLoadRaises
            \/ DelegationRefused \/ FinishRedirected \/ IterationLimitStop
  BY <1>1, <1>10 DEF ToolLimitStop, SkillUnknown, SkillLoadRaises,
     DelegationRefused, FinishRedirected, IterationLimitStop
<1>11. CASE Reviewer
  BY <1>1, <1>11 DEF Reviewer, ResumeApproved, ResumeRejected, Resume
<1>12. CASE UNCHANGED vars
  BY <1>1, <1>12 DEF vars
<1>13. QED
  BY <1>2, <1>3, <1>4, <1>5, <1>6, <1>7, <1>8, <1>9, <1>10, <1>11, <1>12
  DEF Next, Loop, Delegate, DelegationUnavailable, DelegateParallel, BatchUnavailable

(* No tool call and no sequential delegation is launched more often in a   *)
(* row than max_consecutive_duplicate_actions, for every limit.            *)
THEOREM RepeatsAreBounded == Spec => []RepeatsBounded
<1>1. Init => StreakBacked
  BY DEF Init, StreakBacked, NoLaunch
<1>2. TypeOK /\ StreakBacked /\ [Next]_vars => StreakBacked'
  BY NextStreak
<1>3. TypeOK /\ StreakBacked => RepeatsBounded
  BY LimitsAssumption DEF StreakBacked, RepeatsBounded
<1>4. QED
  BY <1>1, <1>2, <1>3, TypeCorrect, PTL DEF Spec

-----------------------------------------------------------------------------
(* The plan *)

LEMMA ReconcileBacked ==
    ASSUME NEW plan \in Plan, NEW i \in Items,
           Reconcile(plan).items[i].status = "resolved"
    PROVE  Reconcile(plan).items[i].evidence \cap evidence \cap Backing(i) # {}
<1> DEFINE claim == plan.items[i]
           verified == claim.evidence \cap evidence \cap Backing(i)
<1>1. claim \in [status : ItemStatus, evidence : SUBSET Evidence]
  BY DEF Plan
<1>2. Reconcile(plan).items[i] = ReconcileItem(i, claim)
  BY DEF Reconcile, Plan
<1>3. claim.status = "resolved" /\ verified # {}
  BY <1>1, <1>2 DEF ReconcileItem
<1>4. ReconcileItem(i, claim).evidence = verified
  BY <1>1, <1>3 DEF ReconcileItem
<1>5. QED
  BY <1>2, <1>3, <1>4

LEMMA NextPlan ==
    ASSUME TypeOK, PlanIsBacked, [Next]_vars
    PROVE  PlanIsBacked'
<1> USE DEF finishing
<1>1. ASSUME evidence \subseteq evidence', UNCHANGED investigation_plan
      PROVE  PlanIsBacked'
  BY <1>1 DEF PlanIsBacked, Backing
<1>2. ASSUME NEW call \in Calls, NEW proposal \in Proposals, PlanUpdated(call, proposal)
      PROVE  PlanIsBacked'
  <2>1. /\ investigation_plan' = Reconcile(proposal) /\ proposal \in Plan
        /\ evidence' = evidence
    BY <1>2 DEF PlanUpdated, Proposals
  <2>2. QED
    BY <2>1, ReconcileBacked DEF PlanIsBacked, Backing
<1>3. ASSUME NEW call \in Calls, ToolSucceeds(call)
      PROVE  PlanIsBacked'
  BY <1>1, <1>3 DEF ToolSucceeds, Produces
<1>4. CASE ResumeApproved
  BY <1>1, <1>4 DEF ResumeApproved, Resume, Produces
<1>5. ASSUME NEW call \in Calls,
             \/ ToolDuplicateRefused(call) \/ ToolFails(call)
             \/ ToolUnapprovable(call) \/ PauseForApproval(call)
      PROVE  PlanIsBacked'
  BY <1>1, <1>5 DEF ToolDuplicateRefused, ToolFails, ToolUnapprovable,
     PauseForApproval
<1>6. ASSUME NEW category \in Categories, LLMFails(category)
      PROVE  PlanIsBacked'
  BY <1>1, <1>6 DEF LLMFails
<1>7. ASSUME NEW objective \in Objectives, AcceptDelegation(objective)
      PROVE  PlanIsBacked'
  BY <1>1, <1>7 DEF AcceptDelegation
<1>8. ASSUME NEW batch \in Batches, AcceptBatch(batch)
      PROVE  PlanIsBacked'
  BY <1>1, <1>8 DEF AcceptBatch
<1>9. ASSUME NEW own \in 0..MaxCaveats, FinishAccepted(own)
      PROVE  PlanIsBacked'
  BY <1>1, <1>9 DEF FinishAccepted
<1>10. CASE \/ ToolLimitStop \/ SkillLoaded \/ SkillUnknown \/ SkillLoadRaises
            \/ DelegationRefused \/ FinishRedirected \/ IterationLimitStop
            \/ ResumeRejected
  BY <1>1, <1>10 DEF ToolLimitStop, SkillLoaded, SkillUnknown, SkillLoadRaises,
     DelegationRefused, FinishRedirected, IterationLimitStop, ResumeRejected, Resume
<1>11. CASE UNCHANGED vars
  BY <1>1, <1>11 DEF vars
<1>12. QED
  BY <1>2, <1>3, <1>4, <1>5, <1>6, <1>7, <1>8, <1>9, <1>10, <1>11
  DEF Next, Loop, Reviewer, Delegate, DelegationUnavailable, DelegateParallel,
      BatchUnavailable

(* Whatever a model claims in its plan, an item that counts as resolved    *)
(* rests on something the run produced, for every set of items and ids.    *)
THEOREM PlanIsAlwaysBacked == Spec => []PlanIsBacked
<1>1. Init => PlanIsBacked
  BY DEF Init, PlanIsBacked
<1>2. TypeOK /\ PlanIsBacked /\ [Next]_vars => PlanIsBacked'
  BY NextPlan
<1>3. QED
  BY <1>1, <1>2, TypeCorrect, PTL DEF Spec

-----------------------------------------------------------------------------
(* The end of a run *)

StopReasonUnset ==
    status \in {"running", "waiting_for_approval"} => stop_reason = "none"

(* Errors and acceptances are the only steps of a running run that touch   *)
(* its status or its stop reason in a way that lets it go on.              *)
LEMMA NextStopReason ==
    ASSUME TypeOK, StopReasonUnset, [Next]_vars
    PROVE  StopReasonUnset'
<1> USE DEF GoOn, control, StopReasonUnset
<1>1. (UNCHANGED <<status, stop_reason>>) => StopReasonUnset'
  OBVIOUS
<1>2. RecoverableError => StopReasonUnset'
  BY DEF RecoverableError, Stop
<1>3. ASSUME NEW category \in Categories, LLMFails(category)
      PROVE  StopReasonUnset'
  BY <1>1, <1>3 DEF LLMFails
<1>4. CASE ToolLimitStop \/ IterationLimitStop
  BY <1>4 DEF ToolLimitStop, IterationLimitStop, Stop
<1>5. ASSUME NEW call \in Calls,
             \/ ToolDuplicateRefused(call) \/ ToolSucceeds(call)
             \/ ToolUnapprovable(call)
             \/ \E proposal \in Proposals : PlanUpdated(call, proposal)
      PROVE  StopReasonUnset'
  BY <1>1, <1>5 DEF ToolDuplicateRefused, ToolSucceeds, ToolUnapprovable, PlanUpdated
<1>6. ASSUME NEW call \in Calls, ToolFails(call)
      PROVE  StopReasonUnset'
  BY <1>2, <1>6 DEF ToolFails
<1>7. ASSUME NEW call \in Calls, PauseForApproval(call)
      PROVE  StopReasonUnset'
  BY <1>7 DEF PauseForApproval, Choosing, Running
<1>8. CASE SkillLoaded \/ SkillLoadRaises \/ FinishRedirected
  BY <1>1, <1>8 DEF SkillLoaded, SkillLoadRaises, FinishRedirected
<1>9. CASE SkillUnknown \/ DelegationRefused
  BY <1>2, <1>9 DEF SkillUnknown, DelegationRefused
<1>10. ASSUME NEW objective \in Objectives,
              \/ \E success \in BOOLEAN : Delegate(objective, success)
              \/ DelegationUnavailable(objective)
       PROVE  StopReasonUnset'
  BY <1>1, <1>2, <1>10 DEF Delegate, DelegationUnavailable
<1>11. ASSUME NEW batch \in Batches,
              \/ \E failures \in 0..BatchSize[batch] : DelegateParallel(batch, failures)
              \/ BatchUnavailable(batch)
       PROVE  StopReasonUnset'
  BY <1>1, <1>2, <1>11 DEF DelegateParallel, BatchUnavailable
<1>12. ASSUME NEW own \in 0..MaxCaveats, FinishAccepted(own)
       PROVE  StopReasonUnset'
  BY <1>12 DEF FinishAccepted
<1>13. CASE ResumeApproved \/ ResumeRejected
  BY <1>13 DEF ResumeApproved, ResumeRejected, Resume
<1>14. CASE UNCHANGED vars
  BY <1>14 DEF vars
<1>15. QED
  BY <1>3, <1>4, <1>5, <1>6, <1>7, <1>8, <1>9, <1>10, <1>11, <1>12, <1>13, <1>14
  DEF Next, Loop, Reviewer

(* Every step of a running run either leaves the error count alone or      *)
(* counts an error the way Control.record_recoverable_error does.          *)
LEMMA ErrorsOfTheLoop ==
    ASSUME TypeOK, Running, [Next]_vars
    PROVE  UNCHANGED recoverable_error_count \/ RecoverableError
<1> USE DEF GoOn
<1>1. ASSUME NEW category \in Categories, LLMFails(category)
      PROVE  UNCHANGED recoverable_error_count
  BY <1>1 DEF LLMFails
<1>2. ASSUME NEW call \in Calls,
             \/ ToolDuplicateRefused(call) \/ ToolSucceeds(call)
             \/ ToolUnapprovable(call) \/ PauseForApproval(call)
             \/ \E proposal \in Proposals : PlanUpdated(call, proposal)
      PROVE  UNCHANGED recoverable_error_count
  BY <1>2 DEF ToolDuplicateRefused, ToolSucceeds, ToolUnapprovable,
     PauseForApproval, PlanUpdated
<1>3. ASSUME NEW call \in Calls, ToolFails(call)
      PROVE  RecoverableError
  BY <1>3 DEF ToolFails
<1>4. CASE \/ ToolLimitStop \/ SkillLoaded \/ SkillLoadRaises
           \/ FinishRedirected \/ IterationLimitStop
  BY <1>4 DEF ToolLimitStop, SkillLoaded, SkillLoadRaises, FinishRedirected,
     IterationLimitStop
<1>5. CASE SkillUnknown \/ DelegationRefused
  BY <1>5 DEF SkillUnknown, DelegationRefused
<1>6. ASSUME NEW objective \in Objectives,
             \/ \E success \in BOOLEAN : Delegate(objective, success)
             \/ DelegationUnavailable(objective)
      PROVE  UNCHANGED recoverable_error_count \/ RecoverableError
  BY <1>6 DEF Delegate, DelegationUnavailable
<1>7. ASSUME NEW batch \in Batches,
             \/ \E failures \in 0..BatchSize[batch] : DelegateParallel(batch, failures)
             \/ BatchUnavailable(batch)
      PROVE  UNCHANGED recoverable_error_count \/ RecoverableError
  BY <1>7 DEF DelegateParallel, BatchUnavailable
<1>8. ASSUME NEW own \in 0..MaxCaveats, FinishAccepted(own)
      PROVE  UNCHANGED recoverable_error_count
  BY <1>8 DEF FinishAccepted
<1>9. ~ResumeApproved /\ ~ResumeRejected
  BY DEF Running, ResumeApproved, ResumeRejected, Resume
<1>10. CASE UNCHANGED vars
  BY <1>10 DEF vars
<1>11. QED
  BY <1>1, <1>2, <1>3, <1>4, <1>5, <1>6, <1>7, <1>8, <1>9, <1>10
  DEF Next, Loop, Reviewer

(* An error of the run's own loop stops it exactly when it reaches the     *)
(* limit, for every limit.                                                 *)
THEOREM OwnErrorsAlwaysStop == Spec => OwnErrorsStop
<1>1. Init => StopReasonUnset
  BY DEF Init, StopReasonUnset
<1>2. TypeOK /\ StopReasonUnset /\ [Next]_vars => StopReasonUnset'
  BY NextStopReason
<1>3. ASSUME TypeOK, StopReasonUnset, [Next]_vars, Running,
             recoverable_error_count' > recoverable_error_count
      PROVE  stop_reason' = "too_many_errors"
                <=> recoverable_error_count' >= MaxRecoverableErrors
  <2>1. RecoverableError
    BY <1>3, ErrorsOfTheLoop DEF TypeOK
  <2>2. stop_reason = "none"
    BY <1>3 DEF StopReasonUnset, Running
  <2>3. QED
    BY <2>1, <2>2 DEF RecoverableError, Stop
<1>4. TypeOK /\ StopReasonUnset /\ [Next]_vars =>
         [(Running /\ recoverable_error_count' > recoverable_error_count) =>
            (stop_reason' = "too_many_errors"
               <=> recoverable_error_count' >= MaxRecoverableErrors)]_vars
  BY <1>3
<1>5. QED
  BY <1>1, <1>2, <1>4, TypeCorrect, PTL DEF Spec, OwnErrorsStop

(* A completed run takes no step. *)
LEMMA CompletedIsFinal ==
    ASSUME TypeOK, status = "completed", [Next]_vars
    PROVE  UNCHANGED vars
<1>1. ~Running /\ ~Choosing
  BY DEF Running, Choosing
<1>2. ~Reviewer
  BY DEF Reviewer, ResumeApproved, ResumeRejected, Resume
<1>3. ~Loop
  BY <1>1 DEF Loop, LLMFails, ToolLimitStop, ToolDuplicateRefused, ToolSucceeds,
     ToolFails, ToolUnapprovable, UseTool, PauseForApproval, PlanUpdated,
     SkillLoaded, SkillUnknown, SkillLoadRaises, DelegationRefused, Delegate,
     DelegationUnavailable, AcceptDelegation, DelegateParallel, BatchUnavailable,
     AcceptBatch, FinishRedirected, FinishAccepted, Iterate, IterationLimitStop
<1>4. QED
  BY <1>2, <1>3 DEF Next

(* Only an accepted finish completes a run. *)
LEMMA OnlyFinishCompletes ==
    ASSUME TypeOK, status # "completed", status' = "completed", [Next]_vars
    PROVE  \E own \in 0..MaxCaveats : FinishAccepted(own)
<1> USE DEF GoOn, control
<1>1. ~(UNCHANGED status) /\ ~RecoverableError
  BY DEF RecoverableError, Stop
<1>2. ~ToolLimitStop /\ ~IterationLimitStop
  BY DEF ToolLimitStop, IterationLimitStop, Stop
<1>3. \A category \in Categories : ~LLMFails(category)
  BY <1>1 DEF LLMFails
<1>4. \A call \in Calls :
         /\ ~ToolDuplicateRefused(call) /\ ~ToolSucceeds(call) /\ ~ToolFails(call)
         /\ ~ToolUnapprovable(call) /\ ~PauseForApproval(call)
         /\ \A proposal \in Proposals : ~PlanUpdated(call, proposal)
  BY <1>1 DEF ToolDuplicateRefused, ToolSucceeds, ToolFails, ToolUnapprovable,
     PauseForApproval, PlanUpdated
<1>5. /\ ~SkillLoaded /\ ~SkillUnknown /\ ~SkillLoadRaises
      /\ ~DelegationRefused /\ ~FinishRedirected
  BY <1>1 DEF SkillLoaded, SkillUnknown, SkillLoadRaises, DelegationRefused,
     FinishRedirected
<1>6. \A objective \in Objectives :
         /\ \A success \in BOOLEAN : ~Delegate(objective, success)
         /\ ~DelegationUnavailable(objective)
  BY <1>1 DEF Delegate, DelegationUnavailable
<1>7. \A batch \in Batches :
         /\ \A failures \in 0..BatchSize[batch] : ~DelegateParallel(batch, failures)
         /\ ~BatchUnavailable(batch)
  BY <1>1 DEF DelegateParallel, BatchUnavailable
<1>8. ~Reviewer /\ ~(UNCHANGED vars)
  BY <1>1 DEF Reviewer, ResumeApproved, ResumeRejected, Resume, vars
<1>9. QED
  BY <1>2, <1>3, <1>4, <1>5, <1>6, <1>7, <1>8 DEF Next, Loop

LEMMA AlmostSpent ==
    ASSUME NEW limit \in Nat, NEW used \in Nat, limit - used <= 1
    PROVE  used + 1 >= limit
OBVIOUS

(* A run that completes with work outstanding had no way to be asked for   *)
(* more, for every budget and every number of redirects.                   *)
THEOREM CompletionIsAlwaysEarned == Spec => []CompletionIsEarned
<1>1. Init => CompletionIsEarned
  BY DEF Init, CompletionIsEarned
<1>2. ASSUME TypeOK, TypeOK', CompletionIsEarned, [Next]_vars
      PROVE  CompletionIsEarned'
  <2>1. CASE status = "completed"
    <3>1. UNCHANGED vars
      BY <1>2, <2>1, CompletedIsFinal
    <3>2. QED
      BY <1>2, <3>1
      DEF vars, control, finishing, CompletionIsEarned, Missing, HasCreatedTable
  <2>2. CASE status # "completed" /\ status' = "completed"
    <3>1. PICK own \in 0..MaxCaveats : FinishAccepted(own)
      BY <1>2, <2>2, OnlyFinishCompletes
    <3>2. Missing' = Missing
      BY <3>1 DEF FinishAccepted, Missing, HasCreatedTable
    <3>3. /\ MaxIterations \in Nat /\ MaxToolCalls \in Nat
          /\ MaxFinishRedirects \in Nat
      BY LimitsAssumption
    <3>4. \/ Missing = {}
          \/ iteration_count' + 1 >= MaxIterations
          \/ total_tool_calls' >= MaxToolCalls
          \/ finish_redirect_count' >= MaxFinishRedirects
      <4>1. /\ iteration_count' \in Nat /\ total_tool_calls \in Nat
            /\ finish_redirect_count \in Nat
        BY <1>2 DEF TypeOK
      <4>2. /\ total_tool_calls' = total_tool_calls
            /\ finish_redirect_count' = finish_redirect_count
            /\ \/ Missing = {}
               \/ MaxIterations - iteration_count' <= 1
               \/ MaxToolCalls - total_tool_calls <= 0
               \/ finish_redirect_count >= MaxFinishRedirects
        BY <3>1 DEF FinishAccepted, BudgetExhausted, RedirectsExhausted
      <4>3. MaxIterations - iteration_count' <= 1
               => iteration_count' + 1 >= MaxIterations
        BY <3>3, <4>1, AlmostSpent
      <4>4. MaxToolCalls - total_tool_calls <= 0 => total_tool_calls >= MaxToolCalls
        BY <3>3, <4>1
      <4>5. QED
        BY <4>2, <4>3, <4>4
    <3>5. QED
      BY <3>2, <3>4 DEF CompletionIsEarned
  <2>3. CASE status' # "completed"
    BY <2>3 DEF CompletionIsEarned
  <2>4. QED
    BY <2>1, <2>2, <2>3
<1>3. QED
  BY <1>1, <1>2, TypeCorrect, PTL DEF Spec

-----------------------------------------------------------------------------
(* The books of a run balance for every limit, every set of executors and  *)
(* every choice of the model: errors and delegations are accounted for.    *)
THEOREM BooksAlwaysBalance == Spec => []Accounted
<1>1. TypeOK /\ ErrorsAreObserved /\ DelegationsAccounted => Accounted
  BY DEF Accounted
<1>2. QED
  BY <1>1, TypeCorrect, ErrorsAreAlwaysObserved, DelegationsAreAccounted, PTL

(* What a completed run delivers was produced or could not be asked for.   *)
THEOREM CompletionIsAlwaysBacked == Spec => []CompletionIsBacked
<1>1. PlanIsBacked /\ CompletionIsEarned => CompletionIsBacked
  BY DEF CompletionIsBacked
<1>2. QED
  BY <1>1, PlanIsAlwaysBacked, CompletionIsAlwaysEarned, PTL

=============================================================================
