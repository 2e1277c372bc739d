SPECIFICATION ContentSpec
CONSTANTS
    Projects <- MCProjects
    Ampersands <- MCAmpersands
    Left <- MCLeft
    MaxUint32 = 3
    MaxRounds = 2
INVARIANTS
    WrittenReadsBack
    OutputCanonical
CHECK_DEADLOCK FALSE
