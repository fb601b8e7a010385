---------------------------- MODULE MCL2Learning ----------------------------
(* Instances of L2Learning for TLC.                                         *)
EXTENDS L2Learning, TLC

CONSTANTS m1, m2, m3, p1, p2, h1, h2

\* Sound for the safety runs: the specification treats all macs alike, all ports
\* alike and all handlers alike.
Symmetry == Permutations(Macs) \cup Permutations(Ports) \cup Permutations(Handlers)
=============================================================================
