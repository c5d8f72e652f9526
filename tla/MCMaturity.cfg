SPECIFICATION FairSpec
CONSTANTS
    Order <- MCOrder
    Workers = 2
CHECK_DEADLOCK FALSE
INVARIANTS
    ViewIsSound
PROPERTIES
    RequestEnds
