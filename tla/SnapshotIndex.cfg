SPECIFICATION Spec
CONSTANTS
    Readers = {r}
    MaxIndex = 2
    MaxHandle = 3
INVARIANTS
    HeaderNamesLastIndex
CHECK_DEADLOCK FALSE
