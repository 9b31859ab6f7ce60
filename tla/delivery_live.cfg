SPECIFICATION FairSpec
CONSTANTS
    i1 = i1
    i2 = i2
    d1 = d1
    d2 = d2
    d3 = d3
    None = None
    Kinds = {"engineer"}
    Msgs = {i1, d1}
    Internal = {d1}
    Filtered = {i1, d1}
    Digestible = {i1}
    Topic <- OneTopic
    Tiered = FALSE
    SameTaskCap = 1
    DigestThreshold = 1
    MaxAttempts = 2
    Faults = {}
    MaxFaults = 0
    MaxRefusals = 1
    MaxRestarts = 0
    MaxBatches = 2
INVARIANTS
    GivenOnce
PROPERTIES
    InboxServed
    RoutedSettles
