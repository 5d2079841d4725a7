--------------------------- MODULE MCWorldRelay ----------------------------
(* Instances of the world relay for TLC.                                   *)
EXTENDS WorldRelay, TLC

CONSTANTS c1, c2
=============================================================================
