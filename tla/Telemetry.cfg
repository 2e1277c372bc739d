SPECIFICATION Spec
CONSTANTS
    Threads = {t1, t2}
    NoSpan = NoSpan
    Explicit = {"error"}
    MaxSpans = 3
    MaxUnwinding = 1
    MaxFaults = 1
    MaxSwitches = 2
INVARIANTS
    TypeOK
    StackTracksOpenSpans
    TraceKeepsFamilies
CHECK_DEADLOCK FALSE
