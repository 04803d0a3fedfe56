SPECIFICATION Spec
CONSTANTS
    Readers = {r}
    MaxIndex = 3
    MaxHandle = 3
INVARIANTS
    ReadIsRecent
    SnapshotIsFrozen
    OneHandle
CHECK_DEADLOCK FALSE
