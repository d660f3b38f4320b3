SPECIFICATION FairSpec
CHECK_DEADLOCK FALSE
CONSTANT Forwarder = Forwarder
INVARIANT TicketsCarried
PROPERTIES TrafficMoves ClosesEnd MeshMoves
