\* Servers start and fail one at a time, while no operation is pending: two
\* failures and two starts, in any order.
SPECIFICATION FairSpec

CONSTANTS
    Server = {1, 2, 3, 4, 5}
    Client = {c1, c2}
    Key = {k1}
    Value = {v1, v2}
    Null = Null
    Founders = {1, 2, 3}
    Kinds = {"put", "del"}
    MaxUpdates = 2
    MaxCrashes = 2
    FaultsWhenIdle = TRUE
    StartsWhenIdle = TRUE
    WhenSettled = TRUE

INVARIANTS
    ReplicasAgree
    AckedUnlessStopped
    ChainLinked
    NoOtherCascade

PROPERTIES
    JoinsEnd

CHECK_DEADLOCK FALSE
