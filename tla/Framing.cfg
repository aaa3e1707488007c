\* Bytes of four values. Lengths that two bytes can hold, one of which has the
\* high bit of its low byte set; less room in flight than some messages take.
\* Memory for anything may be missing.
SPECIFICATION Spec
CONSTANTS
    Base = 4
    RequestLength = {1, 3, 5, 8}
    ResponseLength = {2, 4, 7}
    Capacity = 3
    MaxCalls = 3
    Failing = {"packed request", "answer body", "answer", "request",
               "packed answer"}
INVARIANTS
    TypeOK
    RefusedOnlyHighBit
PROPERTIES
    ImplementsRpcUntilUnread
    WaitsEndUnlessUnanswered
CHECK_DEADLOCK FALSE
