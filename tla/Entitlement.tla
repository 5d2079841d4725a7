---------------------------- MODULE Entitlement ----------------------------
(***************************************************************************)
(* What the Content ID map promises, without saying how it keeps it: a     *)
(* Content ID is spent on at most one character, a character spends at     *)
(* most one Content ID, and a pairing ends only by giving the id back.     *)
(* There is no step that hands an id over, or swaps one for another.       *)
(***************************************************************************)

CONSTANTS
  ContentId,  (* the Content IDs POL has issued                            *)
  CharId      (* the character ids the game server mints                   *)

VARIABLE
  spent       (* the set of pairs <<character, Content ID>> now in force   *)

CharOf(pair) == pair[1]
IdOf(pair) == pair[2]

Init == spent = {}

(* A Content ID nobody holds goes to a character that holds none.          *)
Spend(k, i) ==
  /\ \A p \in spent : CharOf(p) # k /\ IdOf(p) # i
  /\ spent' = spent \cup {<<k, i>>}

(* A character gives its Content ID back to the pool.                      *)
GiveBack(p) ==
  /\ p \in spent
  /\ spent' = spent \ {p}

Next ==
  \/ \E k \in CharId, i \in ContentId : Spend(k, i)
  \/ \E p \in CharId \X ContentId : GiveBack(p)

Spec == Init /\ [][Next]_spent

=============================================================================
