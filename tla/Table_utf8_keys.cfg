\* Three lists, and a key with characters above 127.
SPECIFICATION Spec
CONSTANTS
    Key <- Utf8Key
    Value = {v1}
    Null = Null
    N = 3
    Failing = {}
INVARIANT
    CallsReturn
