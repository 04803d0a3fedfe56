CONSTANTS
    Watchers = {w1}
    Readers = {r1}
    MaxIndex = 2
SPECIFICATION Spec
INVARIANTS
    TypeOK
    ReadIndexCoversWrites
PROPERTY
    WatchReportsValue
