SPECIFICATION Spec
CONSTANTS
    e1 = e1
    h1 = h1
    h2 = h2
    None = None
    Execs = {e1}
    Handlers = {h1, h2}
    NumNodes = 2
    MaxAttempts = 3
    MaxStalled = 1
    MaxFaults = 1
SYMMETRY HandlerSymmetry
INVARIANTS TypeOK RerunsHaveACause CompletedIsRecorded SettledAtRest
PROPERTIES ExpiredRunsNothing HeldStopIsObeyed CompletedIsKept ImplementsLifecycle HandlersWalk
CHECK_DEADLOCK FALSE
