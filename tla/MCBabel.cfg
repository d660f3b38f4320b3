SPECIFICATION MCSpec
CONSTANTS
    Router = {1, 2, 3}
    Neighbors <- Mesh
    Origins = {1}
    NoTransit = {}
    LinkCosts = {1}
    Infinity = 4
    Trigger = 1
    HopCount = 2
    Retries = 0
    Capacity = 1
    MaxSeqno = 2
    Kinds = {"link", "gc", "loss"}
    Budget = 2
    Settled = TRUE
    GcOutlivesHold = TRUE
    Suppress = FALSE
    Ordered = FALSE
INVARIANTS LoopFree TablesAgree LinkCosted
CHECK_DEADLOCK FALSE
