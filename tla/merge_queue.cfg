SPECIFICATION Spec
CONSTANTS
    Engineers = {e1}
    NTasks = 2
    None = None
    Decisions = {"queue", "manual", "override", "direct"}
    MaxIterations = 2
    IterationLimit = 3
    PostVerify = TRUE
    ManualMerge = FALSE
    RootMayChange = FALSE
    MaxQueue = 2
    MaxCrashes = 0
INVARIANTS
    TypeOK
    DoneIsMerged
PROPERTIES
    TaskWorkKept
    OnlyOwnReverted
    MergeReleasesOwn
