------------------------------ MODULE MCRcuSlist ------------------------------
(* Instances of RcuSlist for TLC.                                           *)
EXTENDS RcuSlist

CONSTANTS r1, w, n1, n2, n3, n4, k1, k2

OneReader == {r1}
ThreeNodes == {n1, n2, n3}
FourNodes == {n1, n2, n3, n4}
TwoKeys == {k1, k2}

\* Nodes with one key, so that a search has something to choose from.
TwinKeys == n1 :> k1 @@ n2 :> k1 @@ n3 :> k2
PairedKeys == n1 :> k1 @@ n2 :> k1 @@ n3 :> k2 @@ n4 :> k2
=============================================================================
