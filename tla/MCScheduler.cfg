SPECIFICATION Spec
CONSTANTS
    w1 = w1
    w2 = w2
    w3 = w3
    Workflows = {w1, w2, w3}
    Config <- MCConfig
    Minute = 6
    Period = 3
    First = 1
    Checks = {k1, k2}
    None = None
    MaxTime = 14
    MaxSlow = 3
    MaxFailures = 1
    MaxRestarts = 1
    MaxToggles = 1
CHECK_DEADLOCK FALSE
SYMMETRY Symmetry
INVARIANTS
    NotLongAfterDue
PROPERTIES
    NotBeforeDue
    EachWorkflowIsSeen
