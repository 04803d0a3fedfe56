CONSTANTS
    a = a
    b = b
    c = c
    Nodes <- MCNodes
    GossipNodes = {b, c}
    Seeds <- MCSeeds
    MaxAttempts = 0
    GossipFaults = {"suspect"}
    Requests = {r}
    NodeID <- MCRaftAddr
    RaftAddr <- MCRaftAddr
    StaticLookup = {a, b}
    MaxTerm = 2
SPECIFICATION Spec
INVARIANTS
    AddedOnce
    HopsClimb
PROPERTY RequestsEnd
CHECK_DEADLOCK FALSE
