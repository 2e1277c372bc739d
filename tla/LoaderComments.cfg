SPECIFICATION Spec
CONSTANTS
    Documents <- MCDocuments
    Disks <- MCDisks
    Invalid <- MCInvalid
    destToTags <- MCdestToTags
    Edits <- MCEdits
    MaxEdits = 1
INVARIANTS NeverSilentlyWrong
CHECK_DEADLOCK FALSE
