\* The chain changes while zk_init runs.
SPECIFICATION Spec
CONSTANTS
    Server = {1, 2, 3}
    Founders = {1, 2}
    Fd = {1, 2, 3, 4}
    Null = Null
    StartsWhenIdle = FALSE
    SessionExpires = FALSE
PROPERTY
    FollowsChain
CHECK_DEADLOCK FALSE
