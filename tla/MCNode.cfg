SPECIFICATION MCFairSpec
CHECK_DEADLOCK FALSE
CONSTANTS
    a = "a"
    b = "b"
    SAs = {1, 2}
    Dialers = {"a", "b"}
    Faults = 1
    Redials = 0
    Revokers = {}
    Stops = {}
INVARIANT NeighborFollows
PROPERTIES SessionsConverge ShutdownEnds ExitConverges
