\* The same instance, whether the start ends.
SPECIFICATION FairSpec

CONSTANTS
    Server = {1, 2}
    Client = {c1, c2}
    Key = {k1}
    Value = {v1, v2}
    Null = Null
    Founders = {1}
    Kinds = {"put"}
    MaxUpdates = 1
    MaxCrashes = 0
    FaultsWhenIdle = FALSE
    StartsWhenIdle = TRUE
    WhenSettled = FALSE

PROPERTIES
    JoinsEnd

CHECK_DEADLOCK FALSE
