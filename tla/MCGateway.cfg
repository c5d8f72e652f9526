SPECIFICATION Spec
CONSTANTS
    r1 = r1
    r2 = r2
    a1 = a1
    a2 = a2
    b1 = b1
    Run <- MCRun
    Call <- MCCall
    RunOf <- MCRunOf
    Price <- MCPrice
    Cached = {}
    MaxBill = 2
    Slots = 2
    Retries = 1
    CallLimit = 2
    SpendLimit = 3
INVARIANTS
    TypeOK
    LedgerCoversBills
    LimitsHold
    HistoryAgrees
    OnlyRefusedIsRepeated
PROPERTIES
    ViolationStopsReservations
