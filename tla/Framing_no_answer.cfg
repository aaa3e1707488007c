\* A server without memory for an answer.
SPECIFICATION Spec
CONSTANTS
    Base = 4
    RequestLength = {1}
    ResponseLength = {2, 4}
    Capacity = 4
    MaxCalls = 2
    Failing = {"packed answer"}
PROPERTY
    CallsReturn
CHECK_DEADLOCK FALSE
