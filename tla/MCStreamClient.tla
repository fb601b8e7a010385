--------------------------- MODULE MCStreamClient ---------------------------
(* Instances of StreamClient for TLC: names for its senders.                *)
EXTENDS StreamClient

CONSTANTS s1, s2
=============================================================================
