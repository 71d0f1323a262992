------------------------------ MODULE MCRCUZone ------------------------------
(* Instances of RCUZone for TLC.                                            *)
EXTENDS RCUZone, TLC

CONSTANTS r1, r2, r3, w1, w2

OneReader == {r1}
TwoReaders == {r1, r2}
ThreeReaders == {r1, r2, r3}
OneWriter == {w1}
TwoWriters == {w1, w2}

\* Every reader hashes to the same shared bucket.
AllCollide == [r \in Readers |-> 1]
\* r1 and r3 collide, r2 has the other shared bucket.
SomeCollide == [r \in Readers |-> IF r = r2 THEN 1 ELSE 2]

RegisterOutside == {"idle"}
RegisterAnywhere == {"idle", "cs"}

WriterSymmetry == Permutations(Writers)
=============================================================================
