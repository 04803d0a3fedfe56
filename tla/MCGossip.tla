------------------------------ MODULE MCGossip ------------------------------
EXTENDS Gossip

CONSTANTS a, b, c

MCNodes == {a, b, c}

\* As the README starts them: b joins a, c joins a and b.
ReadmeSeeds == [n \in MCNodes |-> IF n = a THEN {} ELSE IF n = b THEN {a} ELSE {a, b}]

\* Every node is given all the others.
MeshSeeds == [n \in MCNodes |-> MCNodes \ {n}]

=============================================================================
