------------------------------ MODULE MCRCUSizes ------------------------------
(* An instance of RCUSizes for TLC: ints of 8 bits.                         *)
EXTENDS RCUSizes

\* The ends of the range, and both sides of most powers of two.
Edges == {-128, -127, -65, -64, -1, 0, 1, 2, 3, 4, 5, 8, 9, 16, 17, 33, 63, 64, 65, 127}
=============================================================================
