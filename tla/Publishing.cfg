CONSTANTS
    a1 = a1  a2 = a2  p1 = p1  e1 = e1  e2 = e2  w1 = w1  w2 = w2  r1 = r1  d1 = d1
    Artifacts = {a1, a2}
    Held = {a2}
    Publications = {p1}
    Edits = {e1, e2}
    Workers = {w1, w2}
    Readers = {r1}
    Deliveries = {d1}
    NoArtifact = NoArtifact
    MaxAttempts = 1
    MaxSends = 2
    Batch = 2
    MaxRequests = 2
    MaxFaults = 2
SPECIFICATION Spec
CHECK_DEADLOCK FALSE
INVARIANTS RecordsAreTrue DeletionIsOrderly
PROPERTIES HeldIsKept ExpiredGoes
