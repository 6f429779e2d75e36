CONSTANTS
    c1 = c1   j1 = j1  r1 = r1  r2 = r2  n1 = n1  n2 = n2
    Columns = {c1}
    Secrets = {c1}
    Joins = {j1}
    Requests = {r1, r2}
    Runs = {n1, n2}
    NoRow = NoRow
    NoRequest = NoRequest
    NoRun = NoRun
    Unknown = Unknown
    MaxVersion = 3
    MaxWork = 4
SPECIFICATION Spec
SYMMETRY Symmetry
CHECK_DEADLOCK FALSE
INVARIANTS PoolIsCurrent 
PROPERTIES DeletedStaysDeleted
