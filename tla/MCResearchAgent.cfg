SPECIFICATION FairSpec
CONSTANTS
    Caller = {c1, c2, c3}
    c1 = c1
    c2 = c2
    c3 = c3
CHECK_DEADLOCK FALSE
INVARIANTS
    ClaimIsSound
PROPERTIES
    InvocationEnds
