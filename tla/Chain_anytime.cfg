\* Servers start and fail at any moment, two of three fail, clients put.
SPECIFICATION Spec
SYMMETRY Symmetry
CONSTANTS
    Server = {1, 2, 3}
    Client = {c1, c2}
    Key = {k1}
    Value = {v1, v2}
    Null = Null
    Founders = {1}
    Kinds = {"put"}
    MaxUpdates = 2
    MaxCrashes = 2
    FaultsWhenIdle = FALSE
    StartsWhenIdle = FALSE
    WhenSettled = FALSE

INVARIANTS
    SameOrder

PROPERTIES
    NextMovesPastDead

CHECK_DEADLOCK FALSE
