SPECIFICATION Spec
CONSTANTS
    Readers = {r}
    MaxIndex = 2
    MaxHandle = 3
INVARIANTS
    RestoreSparesReaders
CHECK_DEADLOCK FALSE
