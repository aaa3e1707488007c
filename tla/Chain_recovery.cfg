\* Four servers, two of which fail at any moment; a client that loses its
\* server goes on with the next one, while its last update is on its way.
SPECIFICATION FairSpec

CONSTANTS
    Server = {1, 2, 3, 4}
    Client = {c1}
    Key = {k1}
    Value = {v1}
    Null = Null
    Founders = {1, 2, 3, 4}
    Kinds = {"put", "del"}
    MaxUpdates = 2
    MaxCrashes = 2
    FaultsWhenIdle = FALSE
    StartsWhenIdle = FALSE
    WhenSettled = FALSE

INVARIANT
    AckedEverywhere

PROPERTIES
    CallsEnd
    Relinks

CHECK_DEADLOCK FALSE
