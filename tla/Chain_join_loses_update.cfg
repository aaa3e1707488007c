\* A server starts while no operation is pending; clients do not wait for it.
SPECIFICATION Spec

CONSTANTS
    Server = {1, 2}
    Client = {c1, c2}
    Key = {k1}
    Value = {v1, v2}
    Null = Null
    Founders = {1}
    Kinds = {"put"}
    MaxUpdates = 1
    MaxCrashes = 0
    FaultsWhenIdle = FALSE
    StartsWhenIdle = TRUE
    WhenSettled = FALSE

INVARIANTS
    ReplicasAgree

CHECK_DEADLOCK FALSE
