\* STATS while another client sends a request.
SPECIFICATION Spec
CONSTANTS
    Client = {c1, c2}
    Key = {k1}
    Value = {v1}
    Null = Null
    Ops = {"get", "stats"}
    Failing = {}
    MaxRequests = 1
INVARIANT
    StatsReadAlone
CHECK_DEADLOCK FALSE
