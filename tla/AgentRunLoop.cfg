\* Tools, errors, skills, delegations and approvals; no plan.
CONSTANTS
    c1 = c1  c2 = c2  o1 = o1  b1 = b1  i1 = i1  i2 = i2  q1 = q1  t1 = t1
    Calls = {c1, c2}
    GatedCalls = {c2}
    Objectives = {o1}
    Batches = {b1}
    BatchSize <- MCBatchSize
    Executors = {"delegate", "delegate_parallel"}
    Questions = {}
    Outputs = {}
    OptionalOutputs = {}
    TableOutputs = {}
    LongItems = {}
    Queries = {}
    Displays = {}
    Tables = {}
    noplan = noplan
    NoPlan = noplan
    ApprovalStore = TRUE
    AgentDepth = 0
    MaxIterations = 5
    MaxToolCalls = 3
    MaxRecoverableErrors = 2
    MaxConsecutiveDuplicates = 2
    MaxParallelSubagents = 2
    MaxDelegations = 3
    MaxAgentDepth = 1
    MaxFinishRedirects = 1
    TriggerObservations = 3
    RecentObservations = 2
    MaxCaveats = 1
SPECIFICATION Spec
CHECK_DEADLOCK FALSE
INVARIANTS LimitsRespected Accounted RepeatsBounded
PROPERTIES OwnErrorsStop Terminates
