SPECIFICATION Spec
CONSTANTS
    Engineers = {e1, e2}
    NTasks = 1
    None = None
    Decisions = {"queue"}
    MaxIterations = 1
    IterationLimit = 2
    PostVerify = TRUE
    ManualMerge = TRUE
    RootMayChange = TRUE
    MaxQueue = 1
    MaxCrashes = 1
SYMMETRY EngineerSymmetry
INVARIANTS
    OwnershipSettled
