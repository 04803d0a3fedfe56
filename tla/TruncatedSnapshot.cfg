CONSTANTS
    KeyOrder <- MCKeyOrder
    Values = {v, w}
    Words <- MCWords
    MaxLen = 30
    BatchSize = 2
    Damage = {"cut"}
SPECIFICATION Spec
CHECK_DEADLOCK FALSE
INVARIANT AcceptedIsComplete
