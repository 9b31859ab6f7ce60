SPECIFICATION FairSpec
CONSTANTS
    Msgs = {m1}
    Tracked = {m1}
    None = None
    Followup = Followup
    AgentType = "Claude"
    MaxQueueDepth = 1
    MaxIterations = 1
    MaxDialogs = 1
    DaemonMayLeave = TRUE
PROPERTIES
    DeathIsReported
    ShimStops
    StartupEnds
    DirectSendAnswered
CHECK_DEADLOCK FALSE
