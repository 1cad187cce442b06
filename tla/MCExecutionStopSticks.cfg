SPECIFICATION Spec
CONSTANTS
    e1 = e1
    h1 = h1
    None = None
    Execs = {e1}
    Handlers = {h1}
    NumNodes = 2
    MaxAttempts = 3
    MaxStalled = 1
    MaxFaults = 0
PROPERTIES StopSticks
CHECK_DEADLOCK FALSE
