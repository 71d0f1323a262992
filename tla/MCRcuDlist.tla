------------------------------ MODULE MCRcuDlist ------------------------------
(* An instance of RcuDlist for TLC.                                           *)
EXTENDS RcuDlist

CONSTANTS r1, w, n1, n2, n3

OneReader == {r1}
ThreeNodes == {n1, n2, n3}

NodeSymmetry == Permutations(Nodes)
=============================================================================
