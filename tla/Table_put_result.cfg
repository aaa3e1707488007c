\* No allocation fails; a key is stored twice.
SPECIFICATION Spec
CONSTANTS
    Key <- AsciiKey
    Value = {v1, v2}
    Null = Null
    N = 2
    Failing = {}
INVARIANT
    PutReturnsAsDescribed
