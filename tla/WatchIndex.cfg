CONSTANTS
    Watchers = {w1}
    Readers = {r1}
    MaxIndex = 3
SPECIFICATION Spec
INVARIANT
    ValueMatchesIndex
