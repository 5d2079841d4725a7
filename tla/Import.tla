------------------------------- MODULE Import -------------------------------
(***************************************************************************)
(* The import of a character: do_import of lsb/ffxi_bridge.py, run by one  *)
(* thread of the HTTP endpoint per request, and `ffxi_import.py bind`, run *)
(* by hand in a process of its own.  Both write the Content ID map beside  *)
(* the lobby, which keeps pairing and releasing for whoever is in the      *)
(* game; the lobby is here as the calls it makes on the map (module Lobby  *)
(* has it whole).                                                          *)
(*                                                                         *)
(* A step is what a worker does between two things another actor can see:  *)
(* a read of the map, a lock of the database, a commit, the bind.          *)
(***************************************************************************)
EXTENDS IdMap

CONSTANTS
  Worker,     (* threads of the import endpoint                            *)
  NoWorker,
  Member,     (* POL members                                               *)
  NoMember,
  Pool,       (* the Content IDs POL issued to each member                 *)
  Overlap,    (* may a member import twice at once, or import while in the *)
              (* game or while the operator binds for it                   *)
  Faults      (* what may go wrong, out of FaultKinds                      *)

FaultKinds == {"restart", "dump", "db", "statement", "lost", "refused delete"}

ASSUME ImportAssumption ==
  /\ NoWorker \notin Worker
  /\ NoMember \notin Member
  /\ Pool \in [Member -> SUBSET ContentId]
  /\ \A m, n \in Member : m # n => Pool[m] \cap Pool[n] = {}
  /\ Overlap \in BOOLEAN
  /\ Faults \subseteq FaultKinds

VARIABLES
  minted,     (* LSB: MAX(charid) of the committed chars rows, 0 for none  *)
  owner,      (* LSB: the account each row is on; NoMember for accid 0     *)
  lock,       (* the worker whose transaction holds MAX(charid) FOR UPDATE *)
  worker,     (* each worker's place in do_import and its locals           *)
  cli         (* ffxi_import.py bind: the file image it has loaded         *)

importVars == <<minted, owner, lock, worker, cli>>
vars == <<mapVars, importVars>>

Idle == [at |-> "idle", member |-> NoMember, free |-> NoId, char |-> NoChar]
NoCli == [member |-> NoMember,
          image |-> Image([k \in CharId |-> NoId], [k \in CharId |-> FALSE])]

Owned(m) == {k \in CharId : owner[k] = m}
Replied(w) == worker[w].at \in {"ok", "failed", "failed late"}
Busy(w) == worker[w].at \notin {"idle", "crashed"} /\ ~Replied(w)

(* A member who does one thing at a time has no import and no bind under   *)
(* way when it starts another, or when it is in the game.                  *)
Free(m) ==
  Overlap \/ (cli.member # m /\ \A w \in Worker : Busy(w) => worker[w].member # m)

(* Mutant: the ids of every member, whoever imports.                       *)
AllPoolReads(m) == {UNION {Pool[n] : n \in Member}}

(* What pol_content_ids returns: none when accounts.db cannot be read.     *)
PoolReads(m) == {Pool[m]} \cup (IF "db" \in Faults THEN {{}} ELSE {})

Go(w, at) == worker' = [worker EXCEPT ![w].at = at]

----------------------------------------------------------------------------
(* do_import.                                                              *)

(* A POST whose stamp resolves to a member.                                *)
Start(w, m) ==
  /\ ~Busy(w) /\ Free(m) /\ minted < MaxChar
  /\ worker' = [worker EXCEPT ![w] = [Idle EXCEPT !.at = "plan", !.member = m]]
  /\ UNCHANGED <<mapVars, minted, owner, lock, cli>>

(* build_statements: a plan, or a dump that is bad and refused, or one it  *)
(* raises something else on than do_import catches (an AttributeError, for *)
(* a title it makes a key item bitmap of): then the thread ends.           *)
Plan(w) ==
  /\ worker[w].at = "plan"
  /\ Go(w, "ids") \/ ("dump" \in Faults /\ (Go(w, "failed") \/ Go(w, "crashed")))
  /\ UNCHANGED <<mapVars, minted, owner, lock, cli>>

(* Mutant: the member's first id, held or not.                             *)
ReadIdsTaken(w) ==
  /\ worker[w].at = "ids"
  /\ \E ids \in PoolReads(worker[w].member) :
       worker' = [worker EXCEPT ![w].at = IF ids = {} THEN "failed" ELSE "name",
                                ![w].free = IF ids = {} THEN NoId ELSE Lowest(ids)]
  /\ UNCHANGED <<mapVars, minted, owner, lock, cli>>

(* The member's ids, then the ids held, under the lock; the import is      *)
(* refused when none is free, and else keeps the first for later.          *)
ReadIds(w) ==
  /\ worker[w].at = "ids"
  /\ \E ids \in PoolReads(worker[w].member) : LET free == ids \ HeldIds IN
       worker' = [worker EXCEPT ![w].at = IF free = {} THEN "failed" ELSE "name",
                                ![w].free = IF free = {} THEN NoId ELSE Lowest(free)]
  /\ UNCHANGED <<mapVars, minted, owner, lock, cli>>

(* The LSB account, the connection and the name: each refuses the import   *)
(* before anything was written.                                            *)
Prepare(w) ==
  /\ worker[w].at = "name"
  /\ \/ Go(w, "mint")
     \/ ("statement" \in Faults \/ minted > 0) /\ Go(w, "failed")
  /\ UNCHANGED <<mapVars, minted, owner, lock, cli>>

(* Mutant: MAX(charid) + 1 without FOR UPDATE.                             *)
MintUnlocked(w) ==
  /\ worker[w].at = "mint" /\ minted < MaxChar
  /\ worker' = [worker EXCEPT ![w].at = "core", ![w].char = minted + 1]
  /\ lock' = w
  /\ UNCHANGED <<mapVars, minted, owner, cli>>

(* Mutant: off by one, and past the last charid there is.                  *)
MintAnywhere(w) ==
  /\ worker[w].at = "mint" /\ lock = NoWorker
  /\ worker' = [worker EXCEPT ![w].at = "core", ![w].char = minted + 2]
  /\ lock' = w
  /\ UNCHANGED <<mapVars, minted, owner, cli>>

(* MAX(charid) + 1 FOR UPDATE: waits for whoever holds it.                 *)
Mint(w) ==
  /\ worker[w].at = "mint" /\ lock = NoWorker /\ minted < MaxChar
  /\ worker' = [worker EXCEPT ![w].at = "core", ![w].char = minted + 1]
  /\ lock' = w
  /\ UNCHANGED <<mapVars, minted, owner, cli>>

(* Only the model's bound on charids keeps an import from minting.         *)
OutOfCharids(w) ==
  /\ worker[w].at = "mint" /\ minted = MaxChar
  /\ Go(w, "failed")
  /\ UNCHANGED <<mapVars, minted, owner, lock, cli>>

(* The wait for the lock times out, or the statement fails otherwise.      *)
MintFails(w) ==
  /\ worker[w].at = "mint" /\ "statement" \in Faults
  /\ Go(w, "failed")
  /\ UNCHANGED <<mapVars, minted, owner, lock, cli>>

(* The core statements and their commit, which releases the lock; a second *)
(* row under one charid is a duplicate key.                                *)
Core(w) ==
  /\ worker[w].at = "core" /\ worker[w].char > minted
  /\ minted' = worker[w].char
  /\ owner' = [owner EXCEPT ![worker[w].char] = worker[w].member]
  /\ lock' = NoWorker
  /\ Go(w, "best")
  /\ UNCHANGED <<mapVars, cli>>

(* Mutant: the failing transaction is left open.                           *)
CoreFailsOpen(w) ==
  /\ worker[w].at = "core" /\ ("statement" \in Faults \/ worker[w].char <= minted)
  /\ Go(w, "failed")
  /\ UNCHANGED <<mapVars, minted, owner, lock, cli>>

(* A core statement fails: rollback, and "nothing committed".              *)
CoreFails(w) ==
  /\ worker[w].at = "core" /\ ("statement" \in Faults \/ worker[w].char <= minted)
  /\ lock' = IF lock = w THEN NoWorker ELSE lock
  /\ Go(w, "failed")
  /\ UNCHANGED <<mapVars, minted, owner, cli>>

(* Mutant: a failing best-effort statement fails the import.               *)
BestStrict(w) ==
  /\ worker[w].at = "best"
  /\ Go(w, "bind") \/ ("statement" \in Faults /\ Go(w, "failed"))
  /\ UNCHANGED <<mapVars, minted, owner, lock, cli>>

(* The best-effort statements, each committed or rolled back by itself;    *)
(* none of them stops the import.                                          *)
Best(w) ==
  /\ worker[w].at = "best"
  /\ Go(w, "bind")
  /\ UNCHANGED <<mapVars, minted, owner, lock, cli>>

(* The connection is lost among them: the rollback raises too, out of the  *)
(* loop, and the answer is "import failed, nothing committed".             *)
LoseConnection(w) ==
  /\ worker[w].at = "best" /\ "lost" \in Faults
  /\ Go(w, "failed late")
  /\ UNCHANGED <<mapVars, minted, owner, lock, cli>>

(* The id read at the start is given to the charid, whatever either holds  *)
(* by now, and the map is saved.                                           *)
Bind(w) ==
  /\ worker[w].at = "bind"
  /\ idmap' = [idmap EXCEPT ![worker[w].char] = worker[w].free]
  /\ UNCHANGED <<released, field>>
  /\ Save
  /\ Go(w, "ok")
  /\ UNCHANGED <<minted, owner, lock, cli>>

----------------------------------------------------------------------------
(* ffxi_import.py bind, in a process of its own.                           *)

(* It loads the map the bridge last wrote.                                 *)
CliLoad(m) ==
  /\ cli = NoCli /\ Free(m) /\ Owned(m) # {}
  /\ cli' = [member |-> m, image |-> file]
  /\ UNCHANGED <<mapVars, minted, owner, lock, worker>>

(* It writes the pairing of one of the member's characters with one of the *)
(* member's ids, over whatever the bridge has written since.               *)
CliBind(m) ==
  /\ cli.member = m
  /\ \E k \in Owned(m), i \in Pool[m] :
       /\ \A j \in CharId \ {k} : cli.image.pair[j] # i
       /\ cli.image.pair[k] \in {NoId, i}
       /\ file' = Image([cli.image.pair EXCEPT ![k] = i], cli.image.field)
  /\ cli' = NoCli
  /\ UNCHANGED <<idmap, released, field, minted, owner, lock, worker>>

(* It refuses: the id or the charid is bound otherwise, or no id exists.   *)
CliRefuse(m) ==
  /\ cli.member = m
  /\ cli' = NoCli
  /\ UNCHANGED <<mapVars, minted, owner, lock, worker>>

----------------------------------------------------------------------------
(* The lobby and LSB, for a member in the game.                            *)

(* LSB creates a character; its insert waits for a locked MAX(charid).     *)
LobbyCreate(m) ==
  /\ Free(m) /\ lock = NoWorker /\ minted < MaxChar
  /\ minted' = minted + 1
  /\ owner' = [owner EXCEPT ![minted + 1] = m]
  /\ UNCHANGED <<mapVars, lock, worker, cli>>

(* A list shows a character of the account: content_id_for, with the id of *)
(* a create the client has outstanding, or with none.                      *)
LobbyPair(m) ==
  /\ Free(m)
  /\ \E k \in Owned(m), prefer \in Pool[m] \cup {NoId}, ids \in PoolReads(m) :
       Pair(k, prefer, ids)
  /\ UNCHANGED importVars

(* A delete of a character shown under an id: the release, and then LSB's  *)
(* ruling; a deleted row stays, on no account.                             *)
LobbyDelete(m) ==
  /\ Free(m)
  /\ \E k \in Owned(m) :
       /\ idmap[k] # NoId
       /\ Release(k)
       /\ \/ owner' = [owner EXCEPT ![k] = NoMember]
          \/ "refused delete" \in Faults /\ UNCHANGED owner
  /\ UNCHANGED <<minted, lock, worker, cli>>

(* The bridge dies and starts again: every import under way is gone, and   *)
(* the database rolls its transaction back.                                *)
Restart ==
  /\ "restart" \in Faults
  /\ Reload
  /\ worker' = [w \in Worker |-> Idle]
  /\ lock' = NoWorker
  /\ UNCHANGED <<minted, owner, cli>>

----------------------------------------------------------------------------
Init ==
  /\ MapInit
  /\ minted = 0
  /\ owner = [k \in CharId |-> NoMember]
  /\ lock = NoWorker
  /\ worker = [w \in Worker |-> Idle]
  /\ cli = NoCli

Working(w) ==
  \/ Plan(w) \/ ReadIds(w) \/ Prepare(w) \/ OutOfCharids(w) \/ Core(w) \/ CoreFails(w)
  \/ Best(w) \/ LoseConnection(w) \/ Bind(w)

Next ==
  \/ \E w \in Worker : Working(w) \/ Mint(w) \/ MintFails(w) \/ \E m \in Member : Start(w, m)
  \/ \E m \in Member : CliLoad(m) \/ CliBind(m) \/ CliRefuse(m)
  \/ \E m \in Member : LobbyCreate(m) \/ LobbyPair(m) \/ LobbyDelete(m)
  \/ Restart

(* A thread runs on, and InnoDB grants a lock in the order it was asked;   *)
(* nothing rests on a wait timing out.                                     *)
Fairness == \A w \in Worker : WF_vars(Working(w)) /\ SF_vars(Mint(w))

Spec == Init /\ [][Next]_vars /\ Fairness

----------------------------------------------------------------------------
(* Type invariant of the import.                                           *)
ImportTypeOK ==
  /\ MapTypeOK
  /\ minted \in 0 .. MaxChar
  /\ owner \in [CharId -> Member \cup {NoMember}]
  /\ lock \in Worker \cup {NoWorker}
  /\ worker \in [Worker ->
        [at : {"idle", "plan", "ids", "name", "mint", "core", "best", "bind",
               "ok", "failed", "failed late", "crashed"},
         member : Member \cup {NoMember},
         free : ContentId \cup {NoId}, char : CharId \cup {NoChar}]]
  /\ cli.member \in Member \cup {NoMember}

(* The charid an import is inserting under is still the next one, however  *)
(* many imports run and whatever LSB creates meanwhile: "FOR UPDATE so two *)
(* simultaneous imports cannot mint one charid".                           *)
MintedIsNext ==
  \A w \in Worker : worker[w].at = "core" => worker[w].char = minted + 1

(* What the player is told is so.  When an import is answered ok, its      *)
(* character is on the member's account under one of the member's ids;     *)
(* when it is answered failed, it has left no character, unless the        *)
(* connection was lost after the commit (then it says "nothing committed"  *)
(* of a character that exists).                                            *)
Answered(w, answer) == worker[w].at # answer /\ worker'[w].at = answer

ReplyIsTrue ==
  [][\A w \in Worker : LET m == worker[w].member k == worker[w].char IN
       /\ Answered(w, "ok") => owner'[k] = m /\ idmap'[k] \in Pool[m]
       /\ Answered(w, "failed") => k = NoChar \/ k > minted' \/ owner'[k] # m]_vars

(* Every import is answered, whatever fails in the database and however    *)
(* many others wait for the same lock, unless the bridge dies under it, or *)
(* its own thread does on a dump of which build_statements raises an error *)
(* that do_import does not catch: that import has no answer.               *)
ImportAnswered ==
  \A w \in Worker : Busy(w) ~> (Replied(w) \/ worker[w].at \in {"idle", "crashed"})

(* Whoever binds it, the import, the lobby after an import that died       *)
(* before its bind, the operator or a file read back after a restart, a    *)
(* character is only ever under an id of the member whose account it is on.*)
PairedWithinPool ==
  \A k \in CharId : owner[k] # NoMember => idmap[k] \in Pool[owner[k]] \cup {NoId}

=============================================================================
