---------------------------- MODULE MCRCUPointer ----------------------------
(* An instance of RCUPointer for TLC.                                       *)
EXTENDS RCUPointer

CONSTANTS r1, r2, o1, o2, o3

TwoReaders == {r1, r2}
OneWriter == {writer}
ThreeObjects == {o1, o2, o3}

\* Both readers hash to the one shared bucket.
AllCollide == [r \in Readers |-> 1]

RegisterOutside == {"idle"}
=============================================================================
