CONSTANTS
    s1 = s1  s2 = s2  s3 = s3  w1 = w1  w2 = w2  w3 = w3  e1 = e1  e2 = e2
    often = often  seldom = seldom  utc = utc  local = local
    Schedules = {s1, s2, s3}
    Workers = {w1, w2}
    Editors = {}
    Rules = {often, seldom}
    Zones = {utc}
    Period <- MCPeriod
    Offset <- MCOffset
    FirstConfig <- MCFirstConfig
    Delivering = {}
    Switched = {}
    Archivable = {}
    Several = {s1}
    MaxAttempts = 2
    BatchSize = 2
    StaleAfter = 1
    Punctual = TRUE
    NoJob = NoJob
    NoEdit = NoEdit
    MaxTime = 4
    MaxFaults = 1
SPECIFICATION FairSpec

CHECK_DEADLOCK FALSE
INVARIANTS OneWorker RunsAreAccounted
PROPERTIES DueIsServed
