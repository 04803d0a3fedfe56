SPECIFICATION Spec
CONSTANTS
    Nodes = {a, b}
    Keys = {x, y}
    a = a
    b = b
    x = x
    y = y
    MaxIndex = 3
    Faults = {"write"}
SYMMETRY Symmetry
INVARIANTS
    CaughtUpIsState
    NeverBehind
