\* ZooKeeper does not hear the client for longer than its timeout.
SPECIFICATION Spec
CONSTANTS
    Server = {1, 2, 3}
    Founders = {1, 2}
    Fd = {1, 2, 3, 4}
    Null = Null
    StartsWhenIdle = TRUE
    SessionExpires = TRUE
PROPERTY
    AlwaysFollowsChain
CHECK_DEADLOCK FALSE
