\* A client without memory for the body of an answer.
SPECIFICATION Spec
CONSTANTS
    Base = 4
    RequestLength = {1}
    ResponseLength = {2, 4}
    Capacity = 4
    MaxCalls = 2
    Failing = {"answer body"}
PROPERTY
    ImplementsRpc
CHECK_DEADLOCK FALSE
