-------------------------- MODULE MCConsistentRead --------------------------
(* ConsistentRead for TLC.  The nodes are interchangeable: no constant and   *)
(* no action tells one from another, and only invariants are checked.        *)
EXTENDS ConsistentRead, TLC

NodeSymmetry == Permutations(Nodes)
=============================================================================
