SPECIFICATION Spec
CONSTANTS
    top = top
    sub = sub
    x = x
    y = y
    NoName = NoName
    Absent = Absent
    Paths <- MCPaths
    Arxml <- MCPaths
    Dirs = {top, sub}
    Parent <- MCParent
    Under <- MCUnder
    Names = {x, y}
    Disks <- AttributedDisk
    EntryLists <- MCEntryLists
    Edits <- MCEdits
    MaxEdits = 0
    kMaxLazyIterations = 3
INVARIANT
    PrefilterNeverLies
CHECK_DEADLOCK FALSE
