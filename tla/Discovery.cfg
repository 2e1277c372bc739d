SPECIFICATION FairSpec
CONSTANTS
    top = top
    sub = sub
    x = x
    y = y
    NoName = NoName
    Absent = Absent
    Paths <- MCPaths
    Arxml <- MCPaths
    Dirs = {top, sub}
    Parent <- MCParent
    Under <- MCUnder
    Names = {x, y}
    Disks <- MCDisks
    EntryLists <- MCEntryLists
    Edits <- MCEdits
    MaxEdits = 2
    kMaxLazyIterations = 3
INVARIANTS
    TypeOK
    DanglingIsTrue
    DiscoveredIsWanted
    RoundsProductive
PROPERTY
    CallReturns
CHECK_DEADLOCK FALSE
