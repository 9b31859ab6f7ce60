SPECIFICATION FairSpec
CONSTANTS
    i1 = i1
    i2 = i2
    d1 = d1
    d2 = d2
    d3 = d3
    None = None
    Kinds = {"engineer"}
    Msgs = {i1}
    Internal = {}
    Filtered = {}
    Digestible = {i1}
    Topic <- OneTopic
    Tiered = FALSE
    SameTaskCap = 1
    DigestThreshold = 1
    MaxAttempts = 2
    Faults = {"death"}
    MaxFaults = 1
    MaxRefusals = 0
    MaxRestarts = 0
    MaxBatches = 2
PROPERTIES
    InboxServed

