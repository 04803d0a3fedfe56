CONSTANTS
    Dirs = {d1, d2, d3, d4}
    NoDir = NoDir
    Torn = Torn
    Values = {v0, v1}
    Empty = v0
    Faults = {"crash"}
SYMMETRY DirSymmetry
SPECIFICATION StoreSpec
INVARIANTS
    DirNeverMissing
