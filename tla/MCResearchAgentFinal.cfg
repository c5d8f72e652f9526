SPECIFICATION FairSpec
CONSTANTS
    Caller = {c1, c2}
    c1 = c1
    c2 = c2
CHECK_DEADLOCK FALSE
PROPERTIES
    ResultIsFinal
