\* Any length of a request that two bytes can hold.
SPECIFICATION Spec
CONSTANTS
    Base = 4
    RequestLength = {1, 3}
    ResponseLength = {2}
    Capacity = 4
    MaxCalls = 2
    Failing = {}
INVARIANT
    RequestsAccepted
CHECK_DEADLOCK FALSE
