SPECIFICATION Spec
CONSTANTS
    Readers = {r}
    MaxIndex = 2
    MaxHandle = 3
INVARIANTS
    PersistEnds
CHECK_DEADLOCK FALSE
