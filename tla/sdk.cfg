SPECIFICATION FairSpec
CONSTANTS
    m1 = m1
    m2 = m2
    m3 = m3
    None = None
    Order <- Three
    QueueDepth = 1
    MaxRetests = 1
    MaxKeepalives = 1
CHECK_DEADLOCK FALSE
INVARIANTS
    TypeOK
    Accounted
    CompletionIsOwn
    ReportsAgree
PROPERTIES
    ExhaustedIsFinal
    WatchedTurnEnds
