------------------------------ MODULE MCStore ------------------------------
EXTENDS Store, TLC

\* The names of directories are interchangeable.
DirSymmetry == Permutations(Dirs)

=============================================================================
