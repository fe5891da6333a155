SPECIFICATION Spec
CONSTANTS
    m1 = m1
    m2 = m2
    Movers <- MCMovers
    Targets <- MCTargets
    StartFiles <- MCStart
    MaxMoves = 3
    MaxCrashes = 1
INVARIANTS NothingLost StaysOnBoard Landed
PROPERTIES ProtectedKept
CHECK_DEADLOCK FALSE
