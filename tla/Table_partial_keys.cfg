\* The array of the keys of one list cannot be allocated.
SPECIFICATION Spec
CONSTANTS
    Key <- AsciiKey
    Value = {v1, v2}
    Null = Null
    N = 2
    Failing = {"list_keys"}
PROPERTY
    ImplementsDictionaryIf1IsOk
