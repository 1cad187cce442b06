\* Every list of at most four edges between three nodes and one that is gone.
CONSTANTS
    n1 = n1
    n2 = n2
    n3 = n3
    NodeList <- ThreeNodes
    Unknown = unknown
    MaxEdges = 4
SPECIFICATION DagSpec
INVARIANTS ValidIffAcyclic WavesKeepTheOrder WavesAreReady
CHECK_DEADLOCK FALSE
