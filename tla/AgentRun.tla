------------------------------ MODULE AgentRun ------------------------------
(***************************************************************************)
(* One bounded agent run: AgentRunner.run and the handler of every action  *)
(* the model may choose, over the counters, windows and the investigation  *)
(* plan of one AgentState.  A run is owned by one coroutine, so one        *)
(* iteration of the loop (decision, handler, summarization, exit checks)   *)
(* is one step; what other requests do to a paused run between its steps   *)
(* is the subject of ApprovalFlow.                                         *)
(***************************************************************************)
EXTENDS Integers, Sequences, FiniteSets

CONSTANTS
    Calls,           \* distinct tool requests (a tool name with its arguments)
    GatedCalls,      \* those the security policy gates behind a human approval
    Objectives,      \* distinct sequential delegation requests
    Batches,         \* distinct delegate_parallel requests
    BatchSize,       \* how many delegations each batch asks for
    Executors,       \* the delegation actions the runner was given an executor for
    Questions,       \* questions a plan may list
    Outputs,         \* outputs a plan may list
    OptionalOutputs, \* those of them that are not required
    TableOutputs,    \* those of them whose kind is a table
    LongItems,       \* items whose "Incomplete: ..." caveat is over length
    Queries,         \* ids of the queries a run can produce
    Displays,        \* ids of the displays a run can create
    Tables,          \* those of them that are tables
    NoPlan,          \* investigation_plan = None
    ApprovalStore,   \* whether the runner was given an approval store
    AgentDepth,      \* 0 for a primary run, 1 for a delegated one
    MaxIterations, MaxToolCalls, MaxRecoverableErrors,
    MaxConsecutiveDuplicates, MaxParallelSubagents, MaxDelegations,
    MaxAgentDepth, MaxFinishRedirects,
    TriggerObservations, RecentObservations,
    MaxCaveats

(* RuntimeLimits.__post_init__ and SummaryPolicy.__post_init__ *)
ASSUME LimitsAssumption ==
    /\ MaxIterations \in Nat \ {0}
    /\ MaxToolCalls \in Nat \ {0}
    /\ MaxRecoverableErrors \in Nat \ {0}
    /\ MaxConsecutiveDuplicates \in Nat \ {0}
    /\ MaxParallelSubagents \in Nat \ {0}
    /\ MaxDelegations \in Nat \ {0}
    /\ MaxAgentDepth \in Nat \ {0}
    /\ MaxFinishRedirects \in Nat
    /\ TriggerObservations \in Nat \ {0}
    /\ RecentObservations \in Nat \ {0}
    /\ MaxCaveats \in Nat

(* AgentAction accepts a parallel batch of at least two delegations *)
ASSUME InputAssumption ==
    /\ GatedCalls \subseteq Calls
    /\ OptionalOutputs \subseteq Outputs /\ TableOutputs \subseteq Outputs
    /\ Tables \subseteq Displays
    /\ IsFiniteSet(Questions) /\ IsFiniteSet(Outputs)
    /\ BatchSize \in [Batches -> Nat \ {0, 1}]
    /\ Executors \subseteq {"delegate", "delegate_parallel"}
    /\ ApprovalStore \in BOOLEAN
    /\ AgentDepth \in Nat

Items == Questions \cup Outputs
Evidence == Queries \cup Displays

(* What backs an item: queries answer a question, a display is an output.  *)
Backing(i) == IF i \in Questions THEN Queries ELSE Displays

(* A plan's items; one a plan leaves out is as good as blocked.            *)
ItemStatus == {"pending", "resolved", "blocked"}
Plan == [detailed : BOOLEAN,
         items : [Items -> [status : ItemStatus, evidence : SUBSET Evidence]]]

(* What the model may propose: any number of queries to a question, at     *)
(* most one display to an output; evidence on an unresolved claim is never *)
(* read.                                                                   *)
Proposals ==
    {p \in Plan : \A i \in Items :
        /\ p.items[i].status # "resolved" => p.items[i].evidence = {}
        /\ i \in Outputs => Cardinality(p.items[i].evidence) <= 1}

ASSUME NoPlanAssumption == NoPlan \notin Plan

VARIABLES
    status, stop_reason,
    raised,                         \* an exception left run()
    attempt,                        \* LLM attempt of this iteration
    iteration_count, total_tool_calls, recoverable_error_count,
    finish_redirect_count,
    recent_action_fingerprints, recent_delegation_fingerprints,
    delegation_requests,            \* how many were accepted
    successful_delegation_count, failed_delegation_count,
    unexecuted,                     \* history: accepted, with no executor to run it
    observations,                   \* how many are recorded
    evidence,                       \* ids the successful ones carry
    summarized,                     \* task_summary.summarized_observation_count
    checkpoint,                     \* its value in the approval checkpoint
    investigation_plan,
    disclosed,                      \* gaps printed with the accepted answer
    streak                          \* history: the requests accepted in a row

control == <<status, stop_reason, raised>>
windows == <<recent_action_fingerprints, recent_delegation_fingerprints, streak>>
delegation == <<delegation_requests, successful_delegation_count,
                failed_delegation_count, unexecuted>>
finishing == <<finish_redirect_count, investigation_plan, disclosed>>
vars == <<control, attempt, iteration_count, total_tool_calls,
          recoverable_error_count, windows, delegation, observations, evidence,
          summarized, checkpoint, finishing>>

-----------------------------------------------------------------------------
(* Helpers *)

NoLaunch == [kind |-> "none", what |-> "none", n |-> 0]

(* The last n entries of a fingerprint window are all f: what              *)
(* _consecutive_duplicate_count(f) >= n says.                              *)
Repeated(window, f, n) ==
    /\ n <= Len(window)
    /\ \A i \in (Len(window) - n + 1)..Len(window) : window[i] = f

(* History variable: what was really accepted, and how often in a row. *)
Launch(kind, what) ==
    streak' = [kind |-> kind, what |-> what,
               n |-> IF streak.kind = kind /\ streak.what = what
                     THEN streak.n + 1 ELSE 1]

(* Control.stop *)
Stop(reason) == status' = "failed" /\ stop_reason' = reason

GoOn == UNCHANGED <<status, stop_reason, recoverable_error_count>>

(* Mutant: the limit is passed before it stops the run. *)
RecoverableErrorLate ==
    /\ recoverable_error_count' = recoverable_error_count + 1
    /\ IF recoverable_error_count' > MaxRecoverableErrors
       THEN Stop("too_many_errors")
       ELSE UNCHANGED <<status, stop_reason>>

(* Control.record_recoverable_error and the same three lines in the runner *)
RecoverableError ==
    /\ recoverable_error_count' = recoverable_error_count + 1
    /\ IF recoverable_error_count' >= MaxRecoverableErrors
       THEN Stop("too_many_errors")
       ELSE UNCHANGED <<status, stop_reason>>

(* SummarizationStep.update: what leaves the recent window is folded into  *)
(* the summary, unless the summarizer raises.                              *)
OldObservations(n) == IF n > RecentObservations THEN n - RecentObservations ELSE 0
Summarize ==
    IF observations' >= TriggerObservations /\ summarized < OldObservations(observations')
    THEN summarized' \in {summarized, OldObservations(observations')}
    ELSE UNCHANGED summarized

(* Tool results may carry the id of a query or display they produced. *)
Produces(ids) ==
    \/ evidence' = evidence
    \/ \E id \in ids : evidence' = evidence \cup {id}

(* Mutant: a claim is believed as soon as it cites something. *)
ReconcileItemCited(i, claim) ==
    IF claim.status = "resolved" /\ claim.evidence = {}
    THEN [claim EXCEPT !.status = "pending"] ELSE claim

(* reconcile_plan: a claim the run cannot back reverts to pending. *)
ReconcileItem(i, claim) ==
    LET verified == claim.evidence \cap evidence \cap Backing(i)
    IN CASE claim.status # "resolved" -> claim
         [] claim.status = "resolved" /\ verified = {} ->
               [status |-> "pending", evidence |-> {}]
         [] OTHER -> [claim EXCEPT !.evidence = verified]
Reconcile(plan) ==
    [plan EXCEPT !.items = [i \in Items |-> ReconcileItem(i, plan.items[i])]]

(* evaluate_finish: what the plan still misses, and whether asking again   *)
(* would leave the run no budget to act on it.                              *)
TableGap == "supporting_table"
HasCreatedTable(plan) ==
    \/ \E i \in TableOutputs : plan.items[i].status = "resolved"
    \/ evidence \cap Tables # {}
Missing ==
    IF investigation_plan = NoPlan THEN {}
    ELSE {i \in Items \ OptionalOutputs :
            investigation_plan.items[i].status = "pending"}
         \cup (IF /\ investigation_plan.detailed
                  /\ ~HasCreatedTable(investigation_plan)
               THEN {TableGap} ELSE {})
BudgetExhausted(iterations, tools) ==
    MaxIterations - iterations <= 1 \/ MaxToolCalls - tools <= 0
RedirectsExhausted == finish_redirect_count >= MaxFinishRedirects

(* normalize_caveats(own + gaps): the model's own caveats come first, the  *)
(* list is cut at MaxCaveats and an over-long entry is omitted.            *)
Printable(own) ==
    LET fitting == Missing \ LongItems
        room == MaxCaveats - own
    IN {g \in SUBSET fitting :
          Cardinality(g) = IF Cardinality(fitting) <= room
                           THEN Cardinality(fitting) ELSE room}

-----------------------------------------------------------------------------
Init ==
    /\ status = "running" /\ stop_reason = "none" /\ raised = FALSE
    /\ attempt = 1
    /\ iteration_count = 0 /\ total_tool_calls = 0
    /\ recoverable_error_count = 0
    /\ recent_action_fingerprints = <<>> /\ recent_delegation_fingerprints = <<>>
    /\ streak = NoLaunch
    /\ delegation_requests = 0
    /\ successful_delegation_count = 0 /\ failed_delegation_count = 0
    /\ unexecuted = 0
    /\ observations = 0 /\ evidence = {} /\ summarized = 0 /\ checkpoint = 0
    /\ finish_redirect_count = 0 /\ investigation_plan = NoPlan /\ disclosed = {}

(* The loop head: while state.iteration_count < max_iterations *)
Running == status = "running" /\ ~raised
Choosing == Running /\ iteration_count < MaxIterations

(* What run() does around every handler, with the number of observations   *)
(* the handler records: count the iteration, start the next one at attempt *)
(* 1, and let the summary catch up.                                        *)
Iterate(recorded) ==
    /\ Choosing
    /\ iteration_count' = iteration_count + 1
    /\ attempt' = 1
    /\ observations' = observations + recorded
    /\ Summarize
    /\ UNCHANGED <<raised, checkpoint>>

-----------------------------------------------------------------------------
(* The LLM request and its retries *)

(* classify_llm_failure's categories and RetryPolicy's rule for each *)
Categories == {"llm_timeout", "llm_rate_limit", "llm_provider_error",
               "invalid_model_output"}
MaxAttempts == [category \in Categories |->
    IF category \in {"llm_timeout", "llm_rate_limit"} THEN 3 ELSE 2]

(* Mutant: an exhausted request starts over instead of raising. *)
LLMFailsForever(category) ==
    /\ Choosing
    /\ attempt' = IF attempt >= MaxAttempts[category] THEN 1 ELSE attempt + 1
    /\ UNCHANGED <<raised, status, stop_reason, iteration_count, total_tool_calls,
                   recoverable_error_count, windows, delegation, observations,
                   evidence, summarized, checkpoint, finishing>>

(* choose_decision raises: retried within its category's rule, else fatal *)
LLMFails(category) ==
    /\ Choosing
    /\ IF attempt >= MaxAttempts[category]
       THEN raised' = TRUE /\ UNCHANGED attempt
       ELSE attempt' = attempt + 1 /\ UNCHANGED raised
    /\ UNCHANGED <<status, stop_reason, iteration_count, total_tool_calls,
                   recoverable_error_count, windows, delegation, observations,
                   evidence, summarized, checkpoint, finishing>>

-----------------------------------------------------------------------------
(* use_tool *)

ToolLimitStop ==
    /\ Iterate(0)
    /\ total_tool_calls >= MaxToolCalls
    /\ Stop("max_tool_calls")
    /\ UNCHANGED <<total_tool_calls, recoverable_error_count, windows,
                   delegation, evidence, finishing>>

(* Mutant: off by one. *)
DuplicateToolLate(call) ==
    Repeated(recent_action_fingerprints, call, MaxConsecutiveDuplicates + 1)
DuplicateTool(call) ==
    Repeated(recent_action_fingerprints, call, MaxConsecutiveDuplicates)

ToolDuplicateRefused(call) ==
    /\ Iterate(1)
    /\ total_tool_calls < MaxToolCalls
    /\ DuplicateTool(call)
    /\ GoOn
    /\ UNCHANGED <<total_tool_calls, windows, delegation, evidence, finishing>>

(* Past both refusals the call is recorded and counted before it is tried. *)
UseTool(call) ==
    /\ Iterate(1)
    /\ total_tool_calls < MaxToolCalls
    /\ ~DuplicateTool(call)
    /\ total_tool_calls' = total_tool_calls + 1
    /\ recent_action_fingerprints' = Append(recent_action_fingerprints, call)
    /\ Launch("use_tool", call)
    /\ UNCHANGED <<recent_delegation_fingerprints, delegation,
                   finish_redirect_count, disclosed>>

ToolSucceeds(call) ==
    /\ UseTool(call) /\ call \notin GatedCalls
    /\ Produces(Evidence)
    /\ GoOn
    /\ UNCHANGED investigation_plan

ToolFails(call) ==
    /\ UseTool(call) /\ call \notin GatedCalls
    /\ RecoverableError
    /\ UNCHANGED <<evidence, investigation_plan>>

(* A successful update_investigation_plan: the proposal is reconciled      *)
(* before it is stored.                                                    *)
PlanUpdated(call, proposal) ==
    /\ UseTool(call) /\ call \notin GatedCalls
    /\ investigation_plan' = Reconcile(proposal)
    /\ GoOn
    /\ UNCHANGED evidence

(* _pause_for_approval without a store: an observation, and no error       *)
ToolUnapprovable(call) ==
    /\ UseTool(call) /\ call \in GatedCalls /\ ~ApprovalStore
    /\ GoOn
    /\ UNCHANGED <<evidence, investigation_plan>>

(* With one: the state is dumped into the checkpoint, then the run waits.  *)
(* The summary may still advance after the dump.                           *)
PauseForApproval(call) ==
    /\ Choosing
    /\ call \in GatedCalls /\ ApprovalStore
    /\ total_tool_calls < MaxToolCalls
    /\ ~DuplicateTool(call)
    /\ total_tool_calls' = total_tool_calls + 1
    /\ recent_action_fingerprints' = Append(recent_action_fingerprints, call)
    /\ Launch("use_tool", call)
    /\ iteration_count' = iteration_count + 1
    /\ attempt' = 1
    /\ checkpoint' = summarized
    /\ status' = "waiting_for_approval"
    /\ UNCHANGED observations
    /\ Summarize
    /\ UNCHANGED <<stop_reason, raised, recoverable_error_count,
                   recent_delegation_fingerprints, delegation, evidence, finishing>>

-----------------------------------------------------------------------------
(* resume_approval and resume_rejection, on the state of the checkpoint    *)

Resume ==
    /\ status = "waiting_for_approval"
    /\ status' = "running"
    /\ summarized' = checkpoint
    /\ observations' = observations + 1
    /\ UNCHANGED <<stop_reason, raised, attempt, iteration_count,
                   total_tool_calls, windows, delegation, checkpoint, finishing>>

(* The approved tool ran, failed, or its action no longer validates: no    *)
(* outcome counts as a recoverable error.                                  *)
ResumeApproved ==
    /\ Resume
    /\ Produces(Evidence)
    /\ UNCHANGED recoverable_error_count

(* A rejection counts as an error, but the limit is not consulted. *)
ResumeRejected ==
    /\ Resume
    /\ recoverable_error_count' = recoverable_error_count + 1
    /\ UNCHANGED evidence

-----------------------------------------------------------------------------
(* load_skill *)

SkillLoaded ==
    /\ Iterate(0)
    /\ recent_action_fingerprints' = <<>>
    /\ streak' = NoLaunch
    /\ GoOn
    /\ UNCHANGED <<total_tool_calls, recent_delegation_fingerprints,
                   delegation, evidence, finishing>>

SkillUnknown ==
    /\ Iterate(1)
    /\ RecoverableError
    /\ UNCHANGED <<total_tool_calls, windows, delegation, evidence, finishing>>

(* Any other failure while loading a skill leaves run() *)
SkillLoadRaises ==
    /\ Choosing
    /\ iteration_count' = iteration_count + 1
    /\ attempt' = 1
    /\ raised' = TRUE
    /\ UNCHANGED <<status, stop_reason, total_tool_calls,
                   recoverable_error_count, windows, delegation, observations,
                   evidence, summarized, checkpoint, finishing>>

-----------------------------------------------------------------------------
(* delegate and delegate_parallel *)

(* Mutant: the quota is checked before the batch is added to it. *)
DelegationOpenBefore(n) ==
    /\ AgentDepth < MaxAgentDepth
    /\ delegation_requests < MaxDelegations

DelegationOpen(n) ==
    /\ AgentDepth < MaxAgentDepth
    /\ delegation_requests + n <= MaxDelegations

DuplicateDelegation(objective) ==
    Repeated(recent_delegation_fingerprints, objective, MaxConsecutiveDuplicates)

(* Depth, policy, quota, duplicate or an invalid request: in every case    *)
(* nothing is launched, one observation and one recoverable error.         *)
DelegationRefused ==
    /\ Iterate(1)
    /\ RecoverableError
    /\ UNCHANGED <<total_tool_calls, windows, delegation, evidence, finishing>>

(* What passes every refusal is on the run's books before anything runs. *)
AcceptDelegation(objective) ==
    /\ Iterate(1)
    /\ DelegationOpen(1)
    /\ ~DuplicateDelegation(objective)
    /\ delegation_requests' = delegation_requests + 1
    /\ recent_delegation_fingerprints' =
          Append(recent_delegation_fingerprints, objective)
    /\ Launch("delegate", objective)
    /\ UNCHANGED <<total_tool_calls, recent_action_fingerprints, evidence, finishing>>

(* A child run is a step: it ends completed, or in any failure. *)
Delegate(objective, success) ==
    /\ AcceptDelegation(objective) /\ "delegate" \in Executors
    /\ IF success
       THEN /\ successful_delegation_count' = successful_delegation_count + 1
            /\ UNCHANGED <<failed_delegation_count, unexecuted>>
            /\ GoOn
       ELSE /\ failed_delegation_count' = failed_delegation_count + 1
            /\ UNCHANGED <<successful_delegation_count, unexecuted>>
            /\ RecoverableError

(* Without an executor the request stays accepted: an "unavailable"        *)
(* observation and an error, and neither a success nor a failure.          *)
DelegationUnavailable(objective) ==
    /\ AcceptDelegation(objective) /\ "delegate" \notin Executors
    /\ unexecuted' = unexecuted + 1
    /\ UNCHANGED <<successful_delegation_count, failed_delegation_count>>
    /\ RecoverableError

(* A batch is accepted as a whole; no fingerprint window is consulted or   *)
(* extended.                                                               *)
AcceptBatch(batch) ==
    /\ Iterate(1)
    /\ BatchSize[batch] <= MaxParallelSubagents
    /\ DelegationOpen(BatchSize[batch])
    /\ delegation_requests' = delegation_requests + BatchSize[batch]
    /\ Launch("delegate_parallel", batch)
    /\ UNCHANGED <<total_tool_calls, recent_action_fingerprints,
                   recent_delegation_fingerprints, evidence, finishing>>

(* Mutant: one failed sibling discards the whole batch. *)
SuccessesNone(batch, failures) == IF failures = 0 THEN BatchSize[batch] ELSE 0

(* _account_delegation_results over the results of a batch *)
Successes(batch, failures) == BatchSize[batch] - failures

(* The batch launches as a whole and keeps every sibling's outcome. *)
DelegateParallel(batch, failures) ==
    /\ AcceptBatch(batch) /\ "delegate_parallel" \in Executors
    /\ failed_delegation_count' = failed_delegation_count + failures
    /\ successful_delegation_count' =
          successful_delegation_count + Successes(batch, failures)
    /\ UNCHANGED unexecuted
    /\ IF failures = 0 THEN GoOn ELSE RecoverableError

(* Mutant: the missing executor is reported and not held against the run. *)
BatchUnavailableForgiven(batch) ==
    /\ AcceptBatch(batch) /\ "delegate_parallel" \notin Executors
    /\ unexecuted' = unexecuted + BatchSize[batch]
    /\ UNCHANGED <<successful_delegation_count, failed_delegation_count>>
    /\ GoOn

BatchUnavailable(batch) ==
    /\ AcceptBatch(batch) /\ "delegate_parallel" \notin Executors
    /\ unexecuted' = unexecuted + BatchSize[batch]
    /\ UNCHANGED <<successful_delegation_count, failed_delegation_count>>
    /\ RecoverableError

-----------------------------------------------------------------------------
(* finish *)

FinishRedirected ==
    /\ Iterate(1)
    /\ Missing # {}
    /\ ~BudgetExhausted(iteration_count', total_tool_calls)
    /\ ~RedirectsExhausted
    /\ finish_redirect_count' = finish_redirect_count + 1
    /\ GoOn
    /\ UNCHANGED <<total_tool_calls, windows, delegation, evidence,
                   investigation_plan, disclosed>>

FinishAccepted(own) ==
    /\ Iterate(0)
    /\ \/ Missing = {}
       \/ BudgetExhausted(iteration_count', total_tool_calls)
       \/ RedirectsExhausted
    /\ disclosed' \in Printable(own)
    /\ status' = "completed" /\ stop_reason' = "completed"
    /\ UNCHANGED <<total_tool_calls, recoverable_error_count, windows,
                   delegation, evidence, finish_redirect_count,
                   investigation_plan>>

-----------------------------------------------------------------------------
(* The loop is over: the while condition failed *)
IterationLimitStop ==
    /\ Running
    /\ iteration_count >= MaxIterations
    /\ Stop("max_iterations")
    /\ UNCHANGED <<raised, attempt, iteration_count, total_tool_calls,
                   recoverable_error_count, windows, delegation, observations,
                   evidence, summarized, checkpoint, finishing>>

Loop ==
    \/ \E category \in Categories : LLMFails(category)
    \/ ToolLimitStop
    \/ \E call \in Calls :
          \/ ToolDuplicateRefused(call)
          \/ ToolSucceeds(call)
          \/ ToolFails(call)
          \/ ToolUnapprovable(call)
          \/ PauseForApproval(call)
          \/ \E proposal \in Proposals : PlanUpdated(call, proposal)
    \/ SkillLoaded \/ SkillUnknown \/ SkillLoadRaises
    \/ DelegationRefused
    \/ \E objective \in Objectives, success \in BOOLEAN : Delegate(objective, success)
    \/ \E objective \in Objectives : DelegationUnavailable(objective)
    \/ \E batch \in Batches : \E failures \in 0..BatchSize[batch] :
          DelegateParallel(batch, failures)
    \/ \E batch \in Batches : BatchUnavailable(batch)
    \/ FinishRedirected
    \/ \E own \in 0..MaxCaveats : FinishAccepted(own)
    \/ IterationLimitStop

(* The reviewer decides when it likes, or never. *)
Reviewer == ResumeApproved \/ ResumeRejected

Next == Loop \/ Reviewer

(* The coroutine keeps running: every LLM request and tool it awaits is    *)
(* bounded by a timeout.  Nothing makes a reviewer answer.                 *)
Spec == Init /\ [][Next]_vars /\ WF_vars(Loop)

-----------------------------------------------------------------------------
(* Properties *)

Launches == [kind : {"none"}, what : {"none"}, n : {0}]
            \cup [kind : {"use_tool"}, what : Calls, n : Nat]
            \cup [kind : {"delegate"}, what : Objectives, n : Nat]
            \cup [kind : {"delegate_parallel"}, what : Batches, n : Nat]

(* Every field of AgentState keeps its declared type. *)
TypeOK ==
    /\ status \in {"running", "waiting_for_approval", "completed", "failed"}
    /\ stop_reason \in {"none", "completed", "max_iterations",
                        "max_tool_calls", "too_many_errors"}
    /\ raised \in BOOLEAN
    /\ attempt \in 1..3
    /\ iteration_count \in Nat /\ total_tool_calls \in Nat
    /\ recoverable_error_count \in Nat /\ finish_redirect_count \in Nat
    /\ recent_action_fingerprints \in Seq(Calls)
    /\ recent_delegation_fingerprints \in Seq(Objectives)
    /\ delegation_requests \in Nat
    /\ successful_delegation_count \in Nat /\ failed_delegation_count \in Nat
    /\ unexecuted \in Nat
    /\ observations \in Nat /\ evidence \subseteq Evidence
    /\ summarized \in Nat /\ checkpoint \in Nat
    /\ investigation_plan \in Plan \cup {NoPlan}
    /\ disclosed \subseteq Items \cup {TableGap}
    /\ streak \in Launches

(* Whatever the model chooses and however often a reviewer resumes the     *)
(* run, no counter passes its limit (the limits table of                   *)
(* docs/architecture/agent-runtime.md), and a run at the depth limit never *)
(* delegates.                                                              *)
LimitsRespected ==
    /\ iteration_count <= MaxIterations
    /\ total_tool_calls <= MaxToolCalls
    /\ finish_redirect_count <= MaxFinishRedirects
    /\ delegation_requests <= MaxDelegations
    /\ AgentDepth >= MaxAgentDepth => delegation_requests = 0

(* The model is told of every error held against it, and an iteration      *)
(* tells it at most one thing: the history it is sent stays bounded.       *)
ErrorsAreObserved ==
    /\ recoverable_error_count <= observations
    /\ observations <= iteration_count

(* Every accepted delegation is on the books once, in a batch that partly  *)
(* failed too (_account_delegation_results): it succeeded, it failed, or   *)
(* the runner has no executor for its kind, and neither of the last two    *)
(* leaves the run without an error held against it.                        *)
DelegationsAccounted ==
    /\ delegation_requests =
          successful_delegation_count + failed_delegation_count + unexecuted
    /\ failed_delegation_count + unexecuted > 0 => recoverable_error_count > 0
    /\ Executors = {"delegate", "delegate_parallel"} => unexecuted = 0

(* A tool or a sequential delegation is never accepted more than           *)
(* max_consecutive_duplicate_actions times in a row, across pauses and     *)
(* refusals in between.                                                    *)
RepeatsBounded ==
    streak.kind \in {"use_tool", "delegate"} => streak.n <= MaxConsecutiveDuplicates

(* A plan item that counts as resolved rests on something the run really   *)
(* produced, whatever the model claimed (reconcile_plan).                  *)
PlanIsBacked ==
    investigation_plan # NoPlan =>
        \A i \in Items :
            investigation_plan.items[i].status = "resolved" =>
                investigation_plan.items[i].evidence \cap evidence \cap Backing(i) # {}

(* A run completes with work outstanding only when the runtime could not   *)
(* have asked again: its budget was gone or its redirects used up.         *)
CompletionIsEarned ==
    status = "completed" =>
        \/ Missing = {}
        \/ iteration_count + 1 >= MaxIterations
        \/ total_tool_calls >= MaxToolCalls
        \/ finish_redirect_count >= MaxFinishRedirects

(* The same error never both stops the run and lets it go on: an error of  *)
(* the run's own loop stops it exactly when the limit is reached.          *)
OwnErrorsStop ==
    [][(Running /\ recoverable_error_count' > recoverable_error_count) =>
          (stop_reason' = "too_many_errors"
             <=> recoverable_error_count' >= MaxRecoverableErrors)]_vars

(* The run's books balance whatever the model chose, whatever failed and   *)
(* whatever the runner was built without: every error was told to the      *)
(* model, and every child of every batch is accounted for.                 *)
Accounted == TypeOK /\ ErrorsAreObserved /\ DelegationsAccounted

(* What a completed run delivers was produced, or could not be asked for   *)
(* again (reconcile_plan, evaluate_finish).                                *)
CompletionIsBacked == PlanIsBacked /\ CompletionIsEarned

(* The loop always comes to an end or to a wait for the reviewer, and the  *)
(* waits are finitely many.                                                *)
Terminates == <>[]~Running

-----------------------------------------------------------------------------
(* What the documentation says and the code does not do *)

(* docs/architecture/agent-runtime.md:105, on breach of                    *)
(* max_recoverable_errors the "Run stops with TOO_MANY_ERRORS": a run that *)
(* reached its error limit never completes.                                *)
ErrorLimitStopsRun ==
    recoverable_error_count >= MaxRecoverableErrors => status # "completed"

(* docs/architecture/agent-runtime.md: the model cannot repeat the exact   *)
(* same action more than max_consecutive_duplicate_actions times in a row. *)
ExactRepeatsBounded == streak.n <= MaxConsecutiveDuplicates

(* docs/architecture/agent-runtime.md:111, a finish that would be          *)
(* redirected again is force-accepted "with the gap disclosed as a caveat".*)
GapsAreDisclosed == status = "completed" => Missing \subseteq disclosed

=============================================================================
