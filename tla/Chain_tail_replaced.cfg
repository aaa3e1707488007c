\* The tail fails, then a new tail starts, no operation pending.
SPECIFICATION Spec

CONSTANTS
    Server = {1, 2, 3}
    Client = {c1, c2}
    Key = {k1}
    Value = {v1, v2}
    Null = Null
    Founders = {1, 2}
    Kinds = {"put"}
    MaxUpdates = 1
    MaxCrashes = 1
    FaultsWhenIdle = TRUE
    StartsWhenIdle = TRUE
    WhenSettled = TRUE

INVARIANTS
    NoCascade

CHECK_DEADLOCK FALSE
