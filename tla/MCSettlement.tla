---------------------------- MODULE MCSettlement ----------------------------
EXTENDS Settlement, TLC

CONSTANTS o1, r1, r2, h1, h2, c1, c2, m1, m2

MCOrderOf == [r \in Request |-> o1]

Interchangeable == Permutations({r1, r2}) \cup Permutations({h1, h2})
                   \cup Permutations({c1, c2}) \cup Permutations({m1, m2})
=============================================================================
