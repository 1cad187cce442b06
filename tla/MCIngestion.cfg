SPECIFICATION FairSpec
CONSTANTS
    Uploads = {u1}
    RuntimeDocs = {r1}
    Corpora = {c1}
    Handlers = {h1, h2}
    None = None
    MaxAttempts = 2
    MaxStalled = 1
    MaxFaults = 1
    MaxCrashes = 2
    MaxStalls = 1
    MaxSweeps = 1
CHECK_DEADLOCK FALSE
INVARIANTS
    ReadyIsSearchable
    JobAndDocumentAgree
PROPERTY EachDocumentSettles
