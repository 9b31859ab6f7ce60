SPECIFICATION Spec
CONSTANTS
    i1 = i1
    i2 = i2
    d1 = d1
    d2 = d2
    d3 = d3
    None = None
    Kinds = {"claude", "manager", "architect"}
    Msgs = {i1, i2, d1}
    Internal = {d1}
    Filtered = {}
    Digestible = {i1, i2}
    Topic <- OneTopic
    Tiered = TRUE
    SameTaskCap = 1
    DigestThreshold = 1
    MaxAttempts = 2
    Faults = {"crash", "io", "death", "context", "park"}
    MaxFaults = 1
    MaxRefusals = 0
    MaxRestarts = 1
    MaxBatches = 2
PROPERTIES
    Accounted
