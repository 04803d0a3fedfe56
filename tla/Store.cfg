CONSTANTS
    Dirs = {d1, d2, d3, d4}
    NoDir = NoDir
    Torn = Torn
    Values = {v0, v1, v2}
    Empty = v0
    Faults = {"crash", "power", "snapshot", "disk", "dir"}
SYMMETRY DirSymmetry
SPECIFICATION StoreSpec
INVARIANTS
    StoreTypeOK
    RunningIsWhole
    RunningNamesCurrentDir
    NoLeakedDirs
PROPERTY
    StoreIsAtomic
