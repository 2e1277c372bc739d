SPECIFICATION Spec
CONSTANT
    Projects <- MCProjects
INVARIANTS
    TypeOK
    EveryPathToldOnce
    MovesAreCertain
    Symmetric
CHECK_DEADLOCK FALSE
