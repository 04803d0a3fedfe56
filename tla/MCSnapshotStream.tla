-------------------------- MODULE MCSnapshotStream --------------------------
EXTENDS SnapshotStream

\* Keys of no word, of one and of two.
MCKeyOrder == << <<>>, <<Num(1)>>, <<Num(1), Num(0)>> >>

MCWords == {Num(n) : n \in 0 .. 2} \cup {Gzip(v) : v \in Values} \cup {Header("other")}

=============================================================================
