---------------------------- MODULE MCForwarding ----------------------------
EXTENDS Forwarding

CONSTANTS a, b, c

MCNodes == {a, b, c}

MCSeeds == [n \in MCNodes |-> {}]

\* A node's raft address, and an ID of its own as in the README.
MCRaftAddr == [n \in MCNodes |-> <<"addr", n>>]
ReadmeID == [n \in MCNodes |-> <<"id", n>>]

=============================================================================
