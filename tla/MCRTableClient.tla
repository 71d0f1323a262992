---------------------------- MODULE MCRTableClient ----------------------------
(* An instance of RTableClient for TLC.                                      *)
EXTENDS RTableClient

CONSTANTS r1, r2
=============================================================================
