\* GETTABLE finds no memory for the copy of a value.
SPECIFICATION Spec
CONSTANTS
    Client = {c1, c2}
    Key = {k1}
    Value = {v1}
    Null = Null
    Ops = {"put", "table"}
    Failing = {"table_get"}
    MaxRequests = 1
INVARIANT
    ServerRuns
CHECK_DEADLOCK FALSE
