SPECIFICATION MCSpec
CHECK_DEADLOCK FALSE
CONSTANTS
    Window = 3
    MaxSeq = 7
    Slots = {a1, a2}
    None = None
    Positions = 10
    WordSize = 3
    Loops = {"v4", "v6"}
    Workers = {1, 2}
    Sizes = {1, 2}
    QueueCap = 2
    QueueBytes = 3
    MaxTickets = 5
INVARIANTS NoReplay WindowExact WordsAreThePositions InIntakeOrder
PROPERTY Refines
