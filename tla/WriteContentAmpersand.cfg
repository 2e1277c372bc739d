SPECIFICATION ContentSpec
CONSTANTS
    Projects <- MCProjects
    Ampersands <- MCAmpersands
    Left <- MCLeft
    MaxUint32 = 3
    MaxRounds = 1
INVARIANT NamesReadBack
CHECK_DEADLOCK FALSE
