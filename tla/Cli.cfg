SPECIFICATION Spec
CONSTANTS
    Procs = {a, b, c}
    Old = Old
    NoFile = NoFile
    Hole = Hole
    Blocks = 2
    MaxFaults = 2
INVARIANTS
    TypeOK
    OutputWhole
    OutputAsReported
    TempOnlyWhileWriting
    ReportOrFail
SYMMETRY Symmetry
CHECK_DEADLOCK FALSE
