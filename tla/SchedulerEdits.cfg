CONSTANTS
    s1 = s1  s2 = s2  s3 = s3  w1 = w1  w2 = w2  w3 = w3  e1 = e1  e2 = e2
    often = often  seldom = seldom  utc = utc  local = local
    Schedules = {s1}
    Workers = {w1, w2}
    Editors = {e1}
    Rules = {often, seldom}
    Zones = {utc, local}
    Period <- MCPeriod
    Offset <- MCOffset
    FirstConfig <- MCFirstConfig
    Delivering = {s1}
    Switched = {s1}
    Archivable = {s1}
    Several = {}
    MaxAttempts = 2
    BatchSize = 1
    StaleAfter = 1
    Punctual = TRUE
    NoJob = NoJob
    NoEdit = NoEdit
    MaxTime = 4
    MaxFaults = 1
SPECIFICATION Spec
SYMMETRY Symmetry
CHECK_DEADLOCK FALSE
INVARIANTS DeliveredOnce PublishedPerCrash
