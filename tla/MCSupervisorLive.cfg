SPECIFICATION FairSpec
CONSTANTS
    Process = {p1, p2}
    p1 = p1
    p2 = p2
    FollowUps = {"market"}
    WorkerAttempts = 2
    WriterAttempts = 2
    SupervisorSteps = 7
PROPERTIES
    ExecutionEnds
