CONSTANTS
    u1 = u1  u2 = u2  u3 = u3  acme = acme  globex = globex  t1 = t1  r1 = r1  r2 = r2
    Users = {u1, u2, u3}
    Workspaces = {acme, globex}
    Tokens = {t1}
    Requests = {r1, r2}
    FirstMembers <- MCFirstMembers
    Granted = {"owner", "viewer"}
    NoRow = NoRow
    NoRequest = NoRequest
    MaxEvents = 3
SPECIFICATION Spec
SYMMETRY Symmetry
CHECK_DEADLOCK FALSE
INVARIANTS OwnersHold ChangesAreCounted
PROPERTIES RemovedStaysOut
