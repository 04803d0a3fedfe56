CONSTANTS
    Nodes = {n1}
    MaxTerm = 4
    NotifyCap = 2
    Faults = {"crash", "shutdown", "error"}
SPECIFICATION LeadershipSpec
INVARIANTS
    LeadershipTypeOK
    MonitorInStep
    NoReadyAfterJoin
    DrainedReadyIsCurrent
PROPERTIES
    StableLeaderBecomesReady
    LostLeaderRevokes
    JoinReturns
