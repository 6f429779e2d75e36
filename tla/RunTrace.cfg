SPECIFICATION Spec
CONSTANTS
    Run = r1
    r1 = r1
    o1 = o1
    o2 = o2
    Gone = Gone
    OtherRuns <- MCOtherRuns
    MaxTraces = 2
    PollAttempts = 2
    Segments = 2
    Scenes <- MCScenes
CHECK_DEADLOCK FALSE
INVARIANTS StreamIsFaithful RunKeepsItsOwn
PROPERTIES EndIsShown
