SPECIFICATION Spec
CONSTANTS
    Msgs = {m1, m2}
    Tracked = {m1, m2}
    None = None
    Followup = Followup
    AgentType = "Kiro"
    MaxQueueDepth = 1
    MaxIterations = 1
    MaxDialogs = 0
    DaemonMayLeave = FALSE
SYMMETRY TrackedSymmetry
INVARIANTS
    TypeOK
    QueueDiscipline
    NoSilentLoss
    NotWrittenTwice
    AckMeansSubmitted
PROPERTIES
    CompletedOnce
CHECK_DEADLOCK FALSE
