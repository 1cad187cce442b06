SPECIFICATION FairSpec
CONSTANTS
    e1 = e1
    h1 = h1
    h2 = h2
    None = None
    Execs = {e1}
    Handlers = {h1, h2}
    NumNodes = 1
    MaxAttempts = 2
    MaxStalled = 1
    MaxFaults = 0
PROPERTIES EveryJobEnds AcceptedIsSettled
CHECK_DEADLOCK FALSE
