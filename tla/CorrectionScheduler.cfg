SPECIFICATION Spec
CONSTANTS
    s1 = s1
    s2 = s2
    g1 = g1
    g2 = g2
    g3 = g3
    NoScorer = NoScorer
    Scorers <- TwoScorers
    Groups <- ThreeGroups
    PlanOrder <- ThreeInOrder
    MinerGroups <- FirstMines
    MaxAttempts = 2
    MaxCrashes = 2
INVARIANTS NoDuplicateRun CompletionIsTerminal
PROPERTIES RepairsAccumulate ConcludedForGood CallEnds
CHECK_DEADLOCK FALSE
