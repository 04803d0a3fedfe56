CONSTANTS
    Nodes = {n1, n2}
    Clients = {c1}
    NoNode = none
    MaxTerm = 3
    NotifyCap = 3
    MaxWrites = 1
    Faults = {}
SYMMETRY NodeSymmetry
SPECIFICATION Spec
INVARIANTS
    TypeOK
    VouchedReadsAreFresh
