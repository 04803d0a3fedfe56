CONSTANTS
    a = a
    b = b
    c = c
    Nodes <- MCNodes
    GossipNodes <- MCNodes
    Seeds <- MeshSeeds
    MaxAttempts = 2
    GossipFaults = {"late", "stop"}
SPECIFICATION GossipSpec
INVARIANT GossipTypeOK
PROPERTY EveryoneDiscovered
