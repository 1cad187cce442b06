SPECIFICATION Spec
CONSTANTS
    Nodes = {1, 2}
    Helpers = {3, 4}
    Slugs <- MCSlugs
    LawfulBasis = {"llm"}
    Personal = {"llm"}
    Requests = {k1}
    Starts <- MCStarts
    None = None
    Switchable = {"llm"}
    Asked <- MCAsked
    MaxSaves = 0
    MaxRequests = 1
    MaxSettings = 0
CHECK_DEADLOCK FALSE
PROPERTY FixOnlyAdds
