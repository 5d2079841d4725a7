------------------------------ MODULE MCLobby ------------------------------
(* Instances of the lobby relay for TLC.                                   *)
EXTENDS Lobby, TLC

CONSTANTS m1, m2, c1, c2, c3

(* One member, playing on every connection.                                *)
OnlyM1 == [c \in Conn |-> m1]
M1Pool == [m \in Member |-> ContentId]

(* Two members with a pool each; c2's launch is attributed to m1 while m2  *)
(* is the one playing.                                                     *)
TwoSignedIn == [c \in Conn |-> IF c = c1 THEN m1 ELSE m2]
TwoAttributed == [c \in Conn |-> IF c = c3 THEN m2 ELSE m1]
TwoPools == [m \in Member |-> {i \in ContentId : (i > 12) <=> (m = m2)}]
=============================================================================
