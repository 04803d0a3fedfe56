CONSTANTS
    Nodes = {n1}
    MaxTerm = 4
    NotifyCap = 2
    Faults = {}
SPECIFICATION LeadershipSpec
PROPERTIES
    JoinAlwaysReturns
CHECK_DEADLOCK FALSE
