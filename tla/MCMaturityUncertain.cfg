SPECIFICATION Spec
CONSTANTS
    Order <- MCOrder
    Workers = 2
CHECK_DEADLOCK FALSE
INVARIANTS
    UncertaintyIsReported
