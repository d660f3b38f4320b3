SPECIFICATION MCSpec
CHECK_DEADLOCK FALSE
CONSTANTS
    Paths = {"p"}
    Loops = {1, 2, 3}
    Reloaders = {hup, ctl}
    Edits = 2
    Redials = 0
    Addresses <- MCAddresses
    Lengths = {1, 2}
    RuleSet = {"r1"}
    Rules = {"r1", "r2"}
    Changes = 2
    Starts = 2
    Faults = 1
SYMMETRY Symmetry
INVARIANT DialersExact
PROPERTY LinkKept
