SPECIFICATION Spec
CONSTANTS
    Procs = {a}
    Old = Old
    NoFile = NoFile
    Hole = Hole
    Blocks = 2
    MaxFaults = 1
INVARIANT
    TraceAlwaysDumped
CHECK_DEADLOCK FALSE
