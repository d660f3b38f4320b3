SPECIFICATION MCSpec
CHECK_DEADLOCK FALSE
CONSTANTS
    Devs = {en0, en1}
    Gws = {g1, g2}
    None = None
    Free = Free
    Foreign = Foreign
    Procs = {"d1", "d2"}
    Flappers = {en0, en1}
    Changes = 4
    Starts = 3
    Faults = 1
SYMMETRY Symmetry
INVARIANTS PromiseKept  Recorded
