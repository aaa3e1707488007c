\* Three lists, keys that share one, a key whose index is negative, and every
\* allocation but that of a list's keys may fail.
SPECIFICATION Spec
CONSTANTS
    Key <- Utf8Key
    Value = {v1, v2}
    Null = Null
    N = 3
    Failing = {"entry", "node", "value", "keys"}
INVARIANTS
    SortedLists
    SizesExact
PROPERTY
    ImplementsDictionaryIf1IsOk
CHECK_DEADLOCK FALSE
