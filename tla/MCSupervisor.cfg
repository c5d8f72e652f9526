SPECIFICATION Spec
CONSTANTS
    Process = {p1, p2}
    p1 = p1
    p2 = p2
    FollowUps = {"market", "stakeholder"}
    WorkerAttempts = 2
    WriterAttempts = 3
    SupervisorSteps = 11
SYMMETRY ProcessSymmetry
INVARIANTS
    TypeOK
    WriteAhead
    RequestsAreSound
    SnapshotIsSound
    RepairsAreDone
PROPERTIES
    AtMostOnce
    EndedStaysEnded
