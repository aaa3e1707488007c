\* Two threads with two requests each of any kind (STATS at any time), two
\* keys for GETTABLE, and every allocation of the module may
\* fail.
SPECIFICATION Spec
CONSTANTS
    Client = {c1, c2}
    Key = {k1, k2}
    Value = {v1}
    Null = Null
    Ops = {"put", "del", "get", "size", "keys", "table", "stats", "unknown"}
    Failing = {"put_entry", "get_copy", "get_value", "keys",
               "table_entries", "table_get", "table_value"}
    MaxRequests = 2
INVARIANTS
    TypeOK
    StatsExact
PROPERTIES
    Linearizable
    RequestsEndUnlessStarved
CHECK_DEADLOCK FALSE
