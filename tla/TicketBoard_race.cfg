SPECIFICATION Spec
CONSTANTS
    m1 = m1
    m2 = m2
    Movers <- MCRacers
    Targets <- MCPair
    StartFiles <- MCRaceStart
    MaxMoves = 2
    MaxCrashes = 0
INVARIANT NothingLost
CHECK_DEADLOCK FALSE
