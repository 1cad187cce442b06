\* All strategies, one visit and a second one that meets what the first one used up.
CONSTANTS
    Configs <- AllConfigs
    Answers <- TwoChunks
    Durations = {1}
    MaxRequests = 3
    MaxFailures = 2
    MaxDuration = 5
    MaxPlans = 3
    MaxVisits = 2
SPECIFICATION Spec
INVARIANTS BudgetKept GivesUpOnlyAtTheEnd SatisfiedIsTaken MergeKeepsTheBest
PROPERTIES NothingAskedAfterTheWinner
CHECK_DEADLOCK FALSE
