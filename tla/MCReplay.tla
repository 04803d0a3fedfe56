------------------------------ MODULE MCReplay ------------------------------
\* Nodes and keys are interchangeable: the log ranges over all assignments.
EXTENDS Replay, TLC

Symmetry == Permutations(Nodes) \cup Permutations(Keys)
=============================================================================
