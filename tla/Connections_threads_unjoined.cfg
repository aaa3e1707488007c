\* Two threads at most; ended ones are not joined.
SPECIFICATION Spec
CONSTANTS
    Client = {c1, c2, c3}
    Fd = {4, 5, 6}
    MaxThreads = 2
    MallocFails = FALSE
    Null = Null
PROPERTY
    RefusedOnlyWhenFull
CHECK_DEADLOCK FALSE
