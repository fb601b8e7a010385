----------------------------- MODULE MCL2Stream -----------------------------
(* Instances of L2Stream for TLC.                                           *)
EXTENDS L2Stream

CONSTANTS m1, m2, m3, p1, h1
=============================================================================
