CONSTANTS
    KeyOrder <- MCKeyOrder
    Values = {v, w}
    Words <- MCWords
    MaxLen = 30
    BatchSize = 2
    Damage = {"cut", "corrupt"}
SPECIFICATION Spec
INVARIANTS
    TypeOK
    OnlyDamagePanics
    RoundTrip
    VerifiedIsComplete
    CutIsPrefix
CHECK_DEADLOCK FALSE
