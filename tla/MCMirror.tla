------------------------------ MODULE MCMirror ------------------------------
\* A small instance of the parts that Mirror puts beside each other.
EXTENDS Mirror, TLC

CONSTANTS t1, t2, t3, p1, p2, c1, c2, i1, i2

\* Two repos whose names give the same prefix.
SameWord == [o \in {"o1", "o2"} |-> "rpl"]

SomeLegacyRows == {<<t1, "Blocks", t2>>}

\* The texts of comments are the only values that nothing tells apart.
Symmetry == Permutations(Texts)
=============================================================================
