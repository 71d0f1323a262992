------------------------------- MODULE MCRTable -------------------------------
(* Instances of RTable for TLC.                                             *)
EXTENDS RTable

CONSTANTS r1, r2, n1, n2, n3, n4, k0, k1, k2

OneReader == {r1}
TwoReaders == {r1, r2}

TwoNodes == {n1, n2}
ThreeNodes == {n1, n2, n3}
FourNodes == {n1, n2, n3, n4}

TwoKeys == {k0, k1}
ThreeKeys == {k0, k1, k2}

\* n1 and n4 carry the same key.
KeyOfNode == [n \in Nodes |->
  CASE n = n2 -> k1 [] n = n3 -> k2 [] OTHER -> k0]

\* Chains of one bucket mix both buckets of a table of two.
HashOfKey == [k \in Keys |-> CASE k = k0 -> 0 [] k = k1 -> 1 [] k = k2 -> 2]

\* Chains of one bucket mix both buckets of a table of two, and those of the
\* first bucket of two mix two buckets of a table of four.
MixedHash == [k \in Keys |-> CASE k = k0 -> 0 [] k = k1 -> 2 [] k = k2 -> 1]

\* n1 and n4 differ in nothing: same key, same hash.
TwinSymmetry == Permutations({n1, n4})
=============================================================================
