SPECIFICATION Spec
CONSTANTS
    Facet = {"adoption", "costs"}
    Counter = "costs"
    Paper = {"p1"}
    Web = {"w1", "w2"}
    View = {"research", "market"}
    Claim = {"r1", "m1", "s1"}
    RoleOf <- MCRoleOf
    Gap = {"gap-r", "gap-m"}
    ViewOf <- MCViewOf
    Artifact <- MCArtifact
    Finding <- MCFinding
    Answer <- MCAnswer
    First = "research"
    MaxGaps = 2
    BatchSize = 2
    MaxResearch = 3
    MaxWriter = 2
    Order <- MCOrder
    Operational = {"e5-380-50", "m3-380-50"}
    Model = {"e5", "m3"}
    ModelOf <- MCModelOf
    Reference = "e5"
    Baseline = "e5-380-50"
    Outcome <- MCOutcome
    MaxCommands = 6
CHECK_DEADLOCK FALSE
INVARIANTS
    FollowupIsSound
    VerdictIsSound
    ReportIsSound
    ExperimentIsSound
PROPERTIES
    RepairsAreAnswered
    ChoiceIsFinal
