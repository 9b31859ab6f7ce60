SPECIFICATION LiveSpec
CONSTANTS
    Engineers = {e1}
    NTasks = 2
    None = None
    Decisions = {"queue"}
    MaxIterations = 1
    IterationLimit = 2
    PostVerify = FALSE
    ManualMerge = FALSE
    RootMayChange = FALSE
    MaxQueue = 1
    MaxCrashes = 1
PROPERTIES
    QueueDrains
    LockReleased
    ClaimTracked
