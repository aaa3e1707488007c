\* A request longer than two bytes can tell.
SPECIFICATION Spec
CONSTANTS
    Base = 4
    RequestLength = {1, 17}
    ResponseLength = {2}
    Capacity = 4
    MaxCalls = 2
    Failing = {}
INVARIANT
    ServerRuns
CHECK_DEADLOCK FALSE
