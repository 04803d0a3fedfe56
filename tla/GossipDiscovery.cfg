CONSTANTS
    a = a
    b = b
    c = c
    Nodes <- MCNodes
    GossipNodes <- MCNodes
    Seeds <- ReadmeSeeds
    MaxAttempts = 2
    GossipFaults = {"stop"}
SPECIFICATION GossipSpec
PROPERTY EveryoneDiscovered
