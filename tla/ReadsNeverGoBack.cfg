CONSTANTS
    Nodes = {n1, n2}
    Clients = {c1, c2}
    NoNode = none
    MaxTerm = 2
    NotifyCap = 2
    MaxWrites = 1
    Faults = {}
SYMMETRY NodeSymmetry
SPECIFICATION Spec
INVARIANTS
    ReadsNeverGoBack
