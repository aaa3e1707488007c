\* A response longer than two bytes can tell.
SPECIFICATION Spec
CONSTANTS
    Base = 4
    RequestLength = {1}
    ResponseLength = {2, 18}
    Capacity = 4
    MaxCalls = 2
    Failing = {}
PROPERTY
    ImplementsRpc
CHECK_DEADLOCK FALSE
