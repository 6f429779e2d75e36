CONSTANTS
    u1 = u1  u2 = u2  a = a  b = b  c = c  s1 = s1  s2 = s2  t1 = t1  t2 = t2  r1 = r1  r2 = r2
    Users = {u1, u2}
    Emails = {a, b, c}
    Sessions = {s1}
    Tokens = {t1, t2}
    Requests = {r1, r2}
    FirstUsers <- MCFirstUsers
    NoRow = NoRow
    NoRequest = NoRequest
    None = None
    MaxRequests = 5
    MaxPasswords = 1
    MaxFaults = 1
SPECIFICATION Spec
SYMMETRY Symmetry
CHECK_DEADLOCK FALSE
INVARIANTS AccountsHold SessionsFollowPassword
PROPERTIES DeadStaysDead
