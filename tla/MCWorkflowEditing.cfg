SPECIFICATION Spec
CONSTANTS
    Nodes = {1, 2}
    Helpers = {3, 4}
    Slugs <- MCSlugs
    LawfulBasis = {"llm"}
    Personal = {"llm"}
    Requests = {k1, k2}
    Starts <- MCStarts
    None = None
    Switchable = {"llm"}
    MaxSaves = 1
    Asked <- MCAsked
    MaxRequests = 2
    MaxSettings = 1
CHECK_DEADLOCK FALSE
SYMMETRY Symmetry
PROPERTIES
    FixHelps
    FixKeepsItValid
    ScoresAreOfTheGraph
