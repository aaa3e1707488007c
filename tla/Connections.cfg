\* Three clients, two descriptors, two threads.
SPECIFICATION Spec
CONSTANTS
    Client = {c1, c2, c3}
    Fd = {4, 5}
    MaxThreads = 2
    MallocFails = TRUE
    Null = Null
INVARIANTS
    TypeOK
    DescriptorsReturned
PROPERTY
    HangUpsClear
CHECK_DEADLOCK FALSE
