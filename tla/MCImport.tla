------------------------------ MODULE MCImport ------------------------------
(* Instances of the import for TLC.                                        *)
EXTENDS Import, TLC

CONSTANTS m1, m2, w1, w2

(* m1 has two Content IDs, m2 one.                                         *)
TwoPools == [m \in Member |-> {i \in ContentId : (i > 12) <=> (m = m2)}]
=============================================================================
