\* The tail fails during a put.
SPECIFICATION Spec

CONSTANTS
    Server = {1, 2}
    Client = {c1, c2}
    Key = {k1}
    Value = {v1, v2}
    Null = Null
    Founders = {1, 2}
    Kinds = {"put"}
    MaxUpdates = 1
    MaxCrashes = 1
    FaultsWhenIdle = FALSE
    StartsWhenIdle = FALSE
    WhenSettled = FALSE

INVARIANTS
    NoCascade

CHECK_DEADLOCK FALSE
