\* Two servers, one that joins, any number that crash.
SPECIFICATION Spec
CONSTANTS
    Server = {1, 2, 3}
    Founders = {1, 2}
    Fd = {1, 2, 3, 4}
    Null = Null
    StartsWhenIdle = TRUE
    SessionExpires = TRUE
INVARIANTS
    TypeOK
    NoLeak
PROPERTIES
    FollowsChain
    CallsEndUnlessFreed
CHECK_DEADLOCK FALSE
