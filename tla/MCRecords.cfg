SPECIFICATION Spec
CONSTANTS
    m1 = m1
    m2 = m2
    m3 = m3
    Keys = {m1, m2, m3}
    Values = {v1, v2}
    RowIds = {1, 2, 3, 4, 5}
    Defaults <- MCDefaults
    Default = default
    Requests = {k1, k2}
    None = None
    MaxRequests = 5
    MaxFaults = 1
CHECK_DEADLOCK FALSE
SYMMETRY Symmetry
INVARIANTS
    OneRowWithTheLastWrite
    SeededCompletely
