SPECIFICATION FairSpec
CONSTANTS
    MaxStarts = 2
    Threshold = 2
    Window = 3
    MaxBackoff = 1
    SessionWait = 1
    PidMayFail = {2}
INVARIANTS
    TypeOK
    OneDaemon
    LaunchesBounded
    RunningIsStoppable
PROPERTIES
    WorkResumed
    TeamEnds
