\* Investigation plans, finish redirects and disclosed gaps; a runner that was given no delegation executor.
CONSTANTS
    c1 = c1  c2 = c2  o1 = o1  b1 = b1  i1 = i1  i2 = i2  q1 = q1  t1 = t1
    Calls = {c1, c2}
    GatedCalls = {c2}
    Objectives = {o1}
    Batches = {b1}
    BatchSize <- MCBatchSize
    Executors = {}
    Questions = {i1}
    Outputs = {i2}
    OptionalOutputs = {}
    TableOutputs = {i2}
    LongItems = {i1}
    Queries = {q1}
    Displays = {t1}
    Tables = {t1}
    noplan = noplan
    NoPlan = noplan
    ApprovalStore = FALSE
    AgentDepth = 0
    MaxIterations = 5
    MaxToolCalls = 3
    MaxRecoverableErrors = 2
    MaxConsecutiveDuplicates = 3
    MaxParallelSubagents = 2
    MaxDelegations = 3
    MaxAgentDepth = 1
    MaxFinishRedirects = 2
    TriggerObservations = 9
    RecentObservations = 2
    MaxCaveats = 0
SPECIFICATION Spec
CHECK_DEADLOCK FALSE
INVARIANTS CompletionIsBacked Accounted
