--------------------------- MODULE MCRCUNestedZones ---------------------------
(* An instance of RCUNestedZones for TLC.                                     *)
EXTENDS RCUNestedZones

CONSTANTS t1, t2, t3

ThreeThreads == {t1, t2, t3}
=============================================================================
