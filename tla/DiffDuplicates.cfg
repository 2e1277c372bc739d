SPECIFICATION Spec
CONSTANT
    Projects <- MCProjects
INVARIANT
    DuplicateWarned
CHECK_DEADLOCK FALSE
