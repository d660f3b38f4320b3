SPECIFICATION MCSpec
CONSTANTS
    Data = {d1, d2}
    Control = {c1, c2}
    Size = 2
    Slots <- MCSlots
    MaxRun = 3
    Muxes = {m1, m2}
    SPIs = {s1, s2}
    Loops = {"l1"}
    QueueCap = 1
    ListenCap = 1
    Deliverers = {"d1", "d2"}
    Lanes = {1, 2}
    LaneCap = 1
    WriteBatch = 2
    Deliveries = 2
    Answerers = {r1, r2}
    Burst = 2
    Horizon = 3
    Packets = 4
SYMMETRY Symmetry
INVARIANTS WireInOrder TablesKept  TableAnswers FlowInOrder
