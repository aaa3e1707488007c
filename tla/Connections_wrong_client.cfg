\* Descriptors enough; a number is used again.
SPECIFICATION Spec
CONSTANTS
    Client = {c1, c2, c3}
    Fd = {4, 5, 6}
    MaxThreads = 3
    MallocFails = FALSE
    Null = Null
INVARIANT
    AnswersOwn
CHECK_DEADLOCK FALSE
