\* Two checkpoints, two requests that answer them, a crash or a database failure.
CONSTANTS
    a1 = a1  a2 = a2  r1 = r1  r2 = r2
    Approvals = {a1, a2}
    NoApproval = NoApproval
    Requests = {r1, r2}
    Main = Main
    MaxFaults = 1
SPECIFICATION FairSpec
CHECK_DEADLOCK FALSE
INVARIANTS RunsOnce WaitingIsOnFile AnswersAreTrue
PROPERTIES GateSpec EndsAreReached
