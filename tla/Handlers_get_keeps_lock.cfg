\* GET finds no memory for the value of its answer.
SPECIFICATION Spec
CONSTANTS
    Client = {c1, c2}
    Key = {k1}
    Value = {v1}
    Null = Null
    Ops = {"put", "get"}
    Failing = {"get_value"}
    MaxRequests = 2
PROPERTY
    RequestsEnd
CHECK_DEADLOCK FALSE
