\* Two servers start together.
SPECIFICATION Spec

CONSTANTS
    Server = {1, 2, 3}
    Client = {c1, c2}
    Key = {k1}
    Value = {v1, v2}
    Null = Null
    Founders = {1}
    Kinds = {"put"}
    MaxUpdates = 1
    MaxCrashes = 0
    FaultsWhenIdle = FALSE
    StartsWhenIdle = FALSE
    WhenSettled = FALSE

INVARIANTS
    ChainLinked

CHECK_DEADLOCK FALSE
