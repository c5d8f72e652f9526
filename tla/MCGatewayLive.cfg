SPECIFICATION FairSpec
CONSTANTS
    r1 = r1
    r2 = r2
    a1 = a1
    a2 = a2
    b1 = b1
    Run <- MCRun
    Call <- MCCall
    RunOf <- MCRunOf
    Price <- MCPrice
    Cached <- MCCached
    MaxBill = 1
    Slots = 1
    Retries = 1
    CallLimit = 2
    SpendLimit = 4
PROPERTIES
    CallsEnd
