SPECIFICATION Spec
CONSTANTS
    Procs = {a, b}
    Old = Old
    NoFile = NoFile
    Hole = Hole
    Blocks = 2
    MaxFaults = 1
INVARIANT
    NeverPartial
CHECK_DEADLOCK FALSE
