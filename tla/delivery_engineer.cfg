SPECIFICATION Spec
CONSTANTS
    i1 = i1
    i2 = i2
    d1 = d1
    d2 = d2
    d3 = d3
    None = None
    Kinds = {"engineer", "claude"}
    Msgs = {d1, d2}
    Internal = {d1, d2}
    Filtered = {d1}
    Digestible = {}
    Topic <- OneTopic
    Tiered = FALSE
    SameTaskCap = 1
    DigestThreshold = 1
    MaxAttempts = 3
    Faults = {"crash", "io", "death", "kill"}
    MaxFaults = 2
    MaxRefusals = 2
    MaxRestarts = 1
    MaxBatches = 2
INVARIANTS
    TypeOK
    GivenOnce
PROPERTIES
    Accounted
