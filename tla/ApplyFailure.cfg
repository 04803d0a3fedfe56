SPECIFICATION Spec
CONSTANTS
    Nodes = {a, b}
    Keys = {x, y}
    a = a
    b = b
    x = x
    y = y
    MaxIndex = 2
    Faults = {"write"}
SYMMETRY Symmetry
INVARIANTS
    AppliedIsState
CHECK_DEADLOCK FALSE
