SPECIFICATION Spec
CONSTANTS
    Processes = {p1, p2, p3}
    MaxNodes = 2
    Builders = {p1, p2}
    Settings = {"s1", "s2"}
    Pages <- MCPages
    MaxStarts = 3
    MaxBaselines = 1
    FirstPages <- MCFirstPages
    None = None
    Partial = Partial
    Mixed = Mixed
SYMMETRY Symmetry
CHECK_DEADLOCK FALSE
INVARIANTS
    RunIsSound
    IndexIsSound
PROPERTIES
    SummaryIsRepaired
