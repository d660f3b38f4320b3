SPECIFICATION LinksSpec
CONSTANTS
    Router = {1, 2, 3}
    Neighbors <- Mesh
    Origins = {1}
    NoTransit = {}
    LinkCosts = {1}
    Infinity = 4
    Trigger = 1
    HopCount = 2
    Retries = 0
    Capacity = 1
    MaxSeqno = 2
    Kinds = {"link", "gc"}
    Budget = 4
    Settled = TRUE
    GcOutlivesHold = FALSE
    Suppress = FALSE
    Ordered = FALSE
INVARIANTS LoopFree
CHECK_DEADLOCK FALSE
