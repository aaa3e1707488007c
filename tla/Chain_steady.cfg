\* An unchanging chain of three servers.
SPECIFICATION FairSpec

CONSTANTS
    Server = {1, 2, 3}
    Client = {c1, c2}
    Key = {k1}
    Value = {v1, v2}
    Null = Null
    Founders = {1, 2, 3}
    Kinds = {"put", "del", "get"}
    MaxUpdates = 3
    MaxCrashes = 0
    FaultsWhenIdle = FALSE
    StartsWhenIdle = FALSE
    WhenSettled = FALSE

INVARIANTS
    TypeOK
    UpstreamPrefix

PROPERTIES
    Linearizable

