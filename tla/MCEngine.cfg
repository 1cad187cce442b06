\* Every graph of three nodes, with at most one control node.
CONSTANTS
    NumNodes = 3
    Workflows <- Small
    Values = {1, 2}
    MaxRetries = 2
    MaxLoops = 1
SPECIFICATION FairSpec
INVARIANTS TypeOK TwiceOnlyIfSkipped CompletedIsClean BranchesDecide RerunsWithinLimit
PROPERTIES Ends ImplementsWalk
CHECK_DEADLOCK FALSE
