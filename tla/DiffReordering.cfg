SPECIFICATION Spec
CONSTANT
    Projects <- MCProjects
INVARIANT
    ReorderingIgnored
CHECK_DEADLOCK FALSE
