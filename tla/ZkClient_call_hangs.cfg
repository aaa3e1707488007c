\* The chain changes during a call.
SPECIFICATION Spec
CONSTANTS
    Server = {1, 2, 3}
    Founders = {1, 2}
    Fd = {1, 2, 3, 4}
    Null = Null
    StartsWhenIdle = TRUE
    SessionExpires = FALSE
PROPERTY
    CallsEnd
CHECK_DEADLOCK FALSE
