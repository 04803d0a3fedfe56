CONSTANTS
    Nodes = {n1, n2}
    Clients = {c1}
    NoNode = none
    MaxTerm = 2
    NotifyCap = 1
    MaxWrites = 1
    Faults = {"crash", "error"}
SYMMETRY NodeSymmetry
SPECIFICATION Spec
INVARIANTS
    TypeOK
    VouchedReadsAreFresh
