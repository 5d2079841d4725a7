------------------------------- MODULE Lobby -------------------------------
(***************************************************************************)
(* The lobby relay of lsb/ffxi_bridge.py: the two pump threads of each     *)
(* client connection, rewrite_c2s and rewrite_s2c, the early character     *)
(* list and its swallowing, the data companion that asks for lists, and    *)
(* the Content ID map they all write.  The game server (LSB) and the       *)
(* client are modelled as far as the bridge's code relies on them.         *)
(*                                                                         *)
(* A step is what one thread does between two lock acquisitions.  A        *)
(* client command, its rewrite and its forwarding are one step, and so are *)
(* a reply, its handling by the s->c pump and its arrival at the client;   *)
(* a character list is a step per lock taken, slot by slot.                *)
(***************************************************************************)
EXTENDS IdMap, Sequences

CONSTANTS
  Conn,         (* client connections, each named by its ckey              *)
  Member,       (* POL members                                             *)
  NoMember,
  MemberOf,     (* the member each connection was attributed to; its LSB   *)
                (* account is that member's                                *)
  SignedIn,     (* the member really playing on it                         *)
  Ambiguous,    (* the connections get_session flagged: it may flag too    *)
                (* many, and miss one that is not its member's             *)
  Pool,         (* the Content IDs POL issued to each member               *)
  Slots,        (* character slots of an LSB account                       *)
  MaxInFlight,  (* bound on the replies a connection has not relayed yet   *)
  Commands,     (* what players do in this instance, out of CommandKinds   *)
  Faults        (* what may go wrong in it, out of FaultKinds              *)

CommandKinds == {"list", "check", "commit", "select", "delete"}

FaultKinds == {"hang up", "restart", "db", "companion", "refused create",
               "refused delete", "expiry", "unoffered id"}

ASSUME LobbyAssumption ==
  /\ NoMember \notin Member
  /\ MemberOf \in [Conn -> Member]
  /\ SignedIn \in [Conn -> Member]
  /\ Ambiguous \subseteq Conn
  /\ Pool \in [Member -> SUBSET ContentId]
  /\ \A m, n \in Member : m # n => Pool[m] \cap Pool[n] = {}
  /\ Slots \in Nat
  /\ MaxInFlight \in Nat \ {0}
  /\ Commands \subseteq CommandKinds
  /\ Faults \subseteq FaultKinds

VARIABLES
  life,           (* of a connection: closed, open, closing                *)
  pendingCreate,  (* _pending_create: the id named on a create             *)
  createPending,  (* _create_pending: a commit was seen, its ACK was not   *)
  swallow,        (* _swallow_charlist: none, fresh, or past SWALLOW_TTL   *)
  companion,      (* _DATA_COMPANIONS: is a data session registered        *)
  job,            (* the character list the s->c pump is rewriting         *)
  creator,        (* LSB: the member whose account a charid was minted on  *)
  alive,          (* LSB: the charids not deleted                          *)
  toLsb,          (* the command on its way to LSB, as rewritten           *)
  request,        (* number of early 0xA1 LSB has still to answer          *)
  fromLsb,        (* replies on LSB's VIEW socket, oldest first            *)
  asked,          (* the command the client awaits the reply of            *)
  view,           (* what the client's character-select screen shows       *)
  named           (* the id each charid was created under, while it is not *)
                  (* paired and its connection is open (history)           *)

bridgeVars == <<pendingCreate, createPending, swallow, job>>
lsbVars == <<creator, alive, named>>
wireVars == <<toLsb, request, fromLsb, companion>>
clientVars == <<asked, view>>
lobbyVars == <<life, bridgeVars, lsbVars, wireVars, clientVars>>
vars == <<mapVars, lobbyVars>>

----------------------------------------------------------------------------
(* The values that travel.                                                 *)

NoCmd == [cmd |-> "none", char |-> NoChar, id |-> NoId]
Cmd(cmd, k, i) == [cmd |-> cmd, char |-> k, id |-> i]

(* LSB's replies: done is 0x03, refused is 0x04, handoff is 0x0B and list  *)
(* is 0x20 with the account's characters.                                  *)
Reply(what, chars) == [what |-> what, chars |-> chars]

NoneNamed == [k \in CharId |-> NoId]

NoJob == [stage |-> "idle", todo |-> {}, char |-> NoChar, prefer |-> NoId,
          listed |-> {}, ids |-> [k \in CharId |-> NoId], spent |-> {}]

(* A screen lists characters, each under the id it was sent (NoId for one  *)
(* sent untranslated), and offers Content IDs in its empty slots.          *)
NoView == [listed |-> {}, ids |-> [k \in CharId |-> NoId], offer |-> {}]

(* Mutant: the pool of every member, whoever asks.                         *)
GlobalPoolReads(m) == {UNION {Pool[n] : n \in Member}}

(* What pol_content_ids may return for a member: its active ids, or none   *)
(* when accounts.db cannot be read.                                        *)
PoolReads(m) == {Pool[m]} \cup (IF "db" \in Faults THEN {{}} ELSE {})

Unminted == {k \in CharId : creator[k] = NoMember}
Owned(m) == {k \in alive : creator[k] = m}

Init ==
  /\ MapInit
  /\ life = [c \in Conn |-> "closed"]
  /\ pendingCreate = [c \in Conn |-> NoId]
  /\ createPending = [c \in Conn |-> FALSE]
  /\ swallow = [c \in Conn |-> "none"]
  /\ companion = [c \in Conn |-> FALSE]
  /\ job = [c \in Conn |-> NoJob]
  /\ creator = [k \in CharId |-> NoMember]
  /\ alive = {}
  /\ toLsb = [c \in Conn |-> NoCmd]
  /\ request = [c \in Conn |-> 0]
  /\ fromLsb = [c \in Conn |-> <<>>]
  /\ asked = [c \in Conn |-> NoCmd]
  /\ view = [c \in Conn |-> NoView]
  /\ named = [c \in Conn |-> NoneNamed]

----------------------------------------------------------------------------
(* Connections: handle_client, before and after its two pumps.             *)

(* A client connects; the data companion is registered before the relay    *)
(* starts, or could not be.  A ckey is an address and a port: by the time  *)
(* a client has the same one again, LSB is taken to have dealt with, or    *)
(* lost, what the connection that had it before forwarded last.  (Until    *)
(* then LSB may still act on it, beside the member's other connections.)   *)
Connect(c) ==
  /\ life[c] = "closed"
  /\ life' = [life EXCEPT ![c] = "open"]
  /\ \E up \in {TRUE} \cup (IF "companion" \in Faults THEN {FALSE} ELSE {}) :
       companion' = [companion EXCEPT ![c] = up]
  /\ toLsb' = [toLsb EXCEPT ![c] = NoCmd]
  /\ UNCHANGED <<mapVars, bridgeVars, lsbVars, request, fromLsb, clientVars>>

(* Either end closes: a pump ends and shuts both sockets down.  What LSB   *)
(* had not been answered for yet is lost.                                  *)
Drop(c) ==
  /\ life[c] = "open"
  /\ life' = [life EXCEPT ![c] = "closing"]
  /\ fromLsb' = [fromLsb EXCEPT ![c] = <<>>]
  /\ request' = [request EXCEPT ![c] = 0]
  /\ view' = [view EXCEPT ![c] = NoView]
  /\ asked' = [asked EXCEPT ![c] = NoCmd]
  /\ named' = [named EXCEPT ![c] = NoneNamed]
  /\ UNCHANGED <<mapVars, bridgeVars, creator, alive, toLsb, companion>>

HangUp(c) == "hang up" \in Faults /\ Drop(c)

(* Both pumps have ended: what the connection owned is dropped.            *)
Teardown(c) ==
  /\ life[c] = "closing"
  /\ job[c].stage = "idle"
  /\ life' = [life EXCEPT ![c] = "closed"]
  /\ pendingCreate' = [pendingCreate EXCEPT ![c] = NoId]
  /\ createPending' = [createPending EXCEPT ![c] = FALSE]
  /\ swallow' = [swallow EXCEPT ![c] = "none"]
  /\ UNCHANGED <<mapVars, job, lsbVars, wireVars, clientVars>>

(* LSB drops the data session, or its socket breaks; what was being asked  *)
(* on it is lost.                                                          *)
CompanionDies(c) ==
  /\ "companion" \in Faults
  /\ companion[c]
  /\ companion' = [companion EXCEPT ![c] = FALSE]
  /\ request' = [request EXCEPT ![c] = 0]
  /\ \/ UNCHANGED toLsb
     \/ toLsb[c].cmd = "list" /\ toLsb' = [toLsb EXCEPT ![c] = NoCmd]
  /\ UNCHANGED <<mapVars, life, bridgeVars, lsbVars, fromLsb, clientVars>>

(* The bridge process dies and a new one loads the map.                    *)
Restart ==
  /\ "restart" \in Faults
  /\ Reload
  /\ life' = [c \in Conn |-> "closed"]
  /\ pendingCreate' = [c \in Conn |-> NoId]
  /\ createPending' = [c \in Conn |-> FALSE]
  /\ swallow' = [c \in Conn |-> "none"]
  /\ companion' = [c \in Conn |-> FALSE]
  /\ job' = [c \in Conn |-> NoJob]
  /\ request' = [c \in Conn |-> 0]
  /\ fromLsb' = [c \in Conn |-> <<>>]
  /\ view' = [c \in Conn |-> NoView]
  /\ asked' = [c \in Conn |-> NoCmd]
  /\ named' = [c \in Conn |-> NoneNamed]
  /\ UNCHANGED <<creator, alive, toLsb>>

----------------------------------------------------------------------------
(* The client, its commands rewritten by rewrite_c2s on the c->s pump.     *)

(* The client has no command outstanding and may send one.                 *)
MayAsk(c) ==
  /\ life[c] = "open"
  /\ asked[c].cmd = "none"
  /\ Len(fromLsb[c]) + request[c] < MaxInFlight

(* The player does something (about character k, naming id i) and the      *)
(* command reaches LSB for charid k2.                                      *)
Send(c, cmd, k, i, k2) ==
  /\ cmd \in Commands
  /\ asked' = [asked EXCEPT ![c] = Cmd(cmd, k, i)]
  /\ toLsb' = [toLsb EXCEPT ![c] = Cmd(cmd, k2, i)]
  /\ UNCHANGED <<life, lsbVars, request, fromLsb, companion, view>>

(* 0x1F: the client asks for its character list.                           *)
AskList(c) ==
  /\ MayAsk(c)
  /\ Send(c, "list", NoChar, NoId, NoChar)
  /\ UNCHANGED <<mapVars, bridgeVars>>

(* The ids a client may put on a create: one its screen offers; or none    *)
(* (0); and one offered none, an id POL issued to it all the same.         *)
Nameable(c) ==
  view[c].offer \cup
    (IF "unoffered id" \in Faults
       THEN {NoId} \cup (IF view[c].offer = {} THEN Pool[SignedIn[c]] ELSE {})
       ELSE {})

(* The id named on a create is recorded, if it names one.                  *)
RecordNamed(c, i) ==
  pendingCreate' = [pendingCreate EXCEPT ![c] = IF i = NoId THEN @ ELSE i]

(* 0x22, the name check of a create: the id it carries is recorded.        *)
NameCheck(c) ==
  /\ MayAsk(c)
  /\ c \notin Ambiguous
  /\ \E i \in Nameable(c) :
       /\ RecordNamed(c, i)
       /\ Send(c, "check", NoChar, i, NoChar)
  /\ UNCHANGED <<mapVars, createPending, swallow, job>>

(* MaxChar bounds the creates: no more are begun than LSB has charids for. *)
MayMint == Cardinality({d \in Conn : toLsb[d].cmd = "commit"}) < Cardinality(Unminted)

(* Mutant: the id named on the commit is not recorded.                     *)
CommitUnrecorded(c) ==
  /\ MayAsk(c) /\ MayMint
  /\ c \notin Ambiguous
  /\ \E i \in Nameable(c) : Send(c, "commit", NoChar, i, NoChar)
  /\ createPending' = [createPending EXCEPT ![c] = TRUE]
  /\ UNCHANGED <<mapVars, pendingCreate, swallow, job>>

(* Mutant: a create on an ambiguous launch goes through like any other.    *)
CommitOnAnyLaunch(c) ==
  /\ MayAsk(c) /\ MayMint
  /\ \E i \in Nameable(c) :
       /\ RecordNamed(c, i)
       /\ Send(c, "commit", NoChar, i, NoChar)
  /\ createPending' = [createPending EXCEPT ![c] = TRUE]
  /\ UNCHANGED <<mapVars, swallow, job>>

(* 0x21, the commit: the id is recorded again and the ACK is awaited.      *)
Commit(c) ==
  /\ MayAsk(c) /\ MayMint
  /\ c \notin Ambiguous
  /\ \E i \in Nameable(c) :
       /\ RecordNamed(c, i)
       /\ Send(c, "commit", NoChar, i, NoChar)
  /\ createPending' = [createPending EXCEPT ![c] = TRUE]
  /\ UNCHANGED <<mapVars, swallow, job>>

(* A create on an ambiguous launch is refused by dropping the connection   *)
(* before anything is recorded or forwarded.                               *)
BlockCreate(c) ==
  /\ MayAsk(c)
  /\ c \in Ambiguous /\ "commit" \in Commands
  /\ Drop(c)

(* Mutant: the command reaches LSB for the first character of the screen.  *)
TranslateFirst(c, k) == Lowest(view[c].listed)

(* The charid LSB reads for the character shown as k: the id shown is      *)
(* translated; one nobody holds any more is passed on and names nobody.    *)
Translate(c, k) == IF view[c].ids[k] = NoId THEN k ELSE CharidFor(view[c].ids[k])

(* 0x07: the client selects a character; 0x28 (rename) is translated alike.*)
Select(c) ==
  /\ MayAsk(c)
  /\ \E k \in view[c].listed : Send(c, "select", k, NoId, Translate(c, k))
  /\ UNCHANGED <<mapVars, bridgeVars>>

(* Mutant: a delete leaves the pairing in the map.                         *)
DeleteKeepingPairing(c) ==
  /\ MayAsk(c)
  /\ \E k \in view[c].listed : Send(c, "delete", k, NoId, Translate(c, k))
  /\ UNCHANGED <<mapVars, bridgeVars>>

(* 0x14: the client deletes a character; a translated id is released       *)
(* before the command is forwarded, so before LSB has ruled on it.         *)
Delete(c) ==
  /\ MayAsk(c)
  /\ \E k \in view[c].listed :
       /\ Send(c, "delete", k, NoId, Translate(c, k))
       /\ IF view[c].ids[k] # NoId /\ Translate(c, k) # NoChar
            THEN Release(Translate(c, k))
            ELSE UNCHANGED mapVars
  /\ UNCHANGED bridgeVars

----------------------------------------------------------------------------
(* LSB, and the data companion that answers its poke.                      *)

(* LSB has dealt with the command of c and answers, if c is still there.   *)
Answer(c, reply) ==
  /\ toLsb' = [toLsb EXCEPT ![c] = NoCmd]
  /\ fromLsb' = [fromLsb EXCEPT ![c] = IF life[c] = "open" THEN Append(@, reply) ELSE @]
  /\ UNCHANGED <<mapVars, life, bridgeVars, request, companion, clientVars>>

(* LSB pokes the data session on 0x1F, data_companion_reader answers 0xA1  *)
(* and LSB writes the list; without a data session it refuses.             *)
LsbList(c) ==
  /\ toLsb[c].cmd = "list"
  /\ Answer(c, IF companion[c] THEN Reply("list", Owned(MemberOf[c])) ELSE Reply("refused", {}))
  /\ UNCHANGED lsbVars

(* LSB answers an early 0xA1 with the characters the account has now.      *)
LsbCharList(c) ==
  /\ request[c] > 0
  /\ request' = [request EXCEPT ![c] = @ - 1]
  /\ fromLsb' = [fromLsb EXCEPT ![c] = Append(@, Reply("list", Owned(MemberOf[c])))]
  /\ UNCHANGED <<mapVars, life, bridgeVars, lsbVars, toLsb, companion, clientVars>>

(* 0x22: the name is free and well formed, or is not.                      *)
LsbCheck(c) ==
  /\ toLsb[c].cmd = "check"
  /\ \/ Answer(c, Reply("done", {}))
     \/ "refused create" \in Faults /\ Answer(c, Reply("refused", {}))
  /\ UNCHANGED lsbVars

(* 0x21: LSB mints the next charid on the account, whatever id was named.  *)
LsbCreate(c) ==
  /\ toLsb[c].cmd = "commit"
  /\ \/ /\ Unminted # {}
        /\ creator' = [creator EXCEPT ![Lowest(Unminted)] = MemberOf[c]]
        /\ alive' = alive \cup {Lowest(Unminted)}
        /\ named' = [named EXCEPT ![c][Lowest(Unminted)] =
                        IF life[c] = "open" THEN toLsb[c].id ELSE NoId]
        /\ Answer(c, Reply("done", {}))
     \/ /\ "refused create" \in Faults
        /\ Answer(c, Reply("refused", {}))
        /\ UNCHANGED lsbVars

(* 0x14: only a character of the account can go, and LSB may refuse that.  *)
LsbDelete(c) ==
  /\ toLsb[c].cmd = "delete"
  /\ \/ /\ toLsb[c].char \in Owned(MemberOf[c])
        /\ alive' = alive \ {toLsb[c].char}
        /\ Answer(c, Reply("done", {}))
     \/ /\ toLsb[c].char \notin Owned(MemberOf[c]) \/ "refused delete" \in Faults
        /\ Answer(c, Reply("refused", {}))
        /\ UNCHANGED alive
  /\ UNCHANGED <<creator, named>>

(* LSB pokes the data session on 0x07 too: its 0xA2 commits the selection. *)
LsbSelect(c) ==
  /\ toLsb[c].cmd = "select"
  /\ IF companion[c] /\ toLsb[c].char \in Owned(MemberOf[c])
       THEN Answer(c, Reply("handoff", {toLsb[c].char}))
       ELSE Answer(c, Reply("refused", {}))
  /\ UNCHANGED lsbVars

----------------------------------------------------------------------------
(* The s->c pump: rewrite_s2c and the swallowing of our own lists.         *)

NextReply(c) == Head(fromLsb[c])

Relaying(c, what) ==
  /\ life[c] = "open"
  /\ job[c].stage = "idle"
  /\ fromLsb[c] # <<>>
  /\ NextReply(c).what = what
  /\ fromLsb' = [fromLsb EXCEPT ![c] = Tail(@)]

(* request_charlist_refresh: ask LSB for a list of our own, to be          *)
(* swallowed.                                                              *)
Refresh(c) ==
  IF companion[c]
    THEN /\ swallow' = [swallow EXCEPT ![c] = "fresh"]
         /\ request' = [request EXCEPT ![c] = @ + 1]
    ELSE UNCHANGED <<swallow, request>>

(* How the client's screen changes on the OK it was waiting for: what it   *)
(* deleted goes; after a create it has no list until it asks for one.      *)
ScreenAfter(c) ==
  IF asked[c].cmd = "delete"
    THEN [view[c] EXCEPT !.listed = @ \ {asked[c].char}, !.ids[asked[c].char] = NoId]
    ELSE IF asked[c].cmd = "commit" THEN NoView ELSE view[c]

(* Mutant: the ACK of a commit sets nothing going.                         *)
RelayDoneQuietly(c) ==
  /\ Relaying(c, "done")
  /\ createPending' = [createPending EXCEPT ![c] = FALSE]
  /\ UNCHANGED <<swallow, request>>
  /\ asked' = [asked EXCEPT ![c] = NoCmd]
  /\ view' = [view EXCEPT ![c] = ScreenAfter(c)]
  /\ UNCHANGED <<mapVars, life, pendingCreate, job, lsbVars, toLsb, companion>>

(* 0x03.  The first one after a commit sets the early list going.          *)
RelayDone(c) ==
  /\ Relaying(c, "done")
  /\ createPending' = [createPending EXCEPT ![c] = FALSE]
  /\ IF createPending[c] THEN Refresh(c) ELSE UNCHANGED <<swallow, request>>
  /\ asked' = [asked EXCEPT ![c] = NoCmd]
  /\ view' = [view EXCEPT ![c] = ScreenAfter(c)]
  /\ UNCHANGED <<mapVars, life, pendingCreate, job, lsbVars, toLsb, companion>>

(* 0x04.  The bridge reads nothing in it: what was pending stays pending.  *)
RelayRefused(c) ==
  /\ Relaying(c, "refused")
  /\ asked' = [asked EXCEPT ![c] = NoCmd]
  /\ UNCHANGED <<mapVars, life, bridgeVars, lsbVars, toLsb, request, companion, view>>

(* 0x0B names the character entering the world.                            *)
RelayHandoff(c) ==
  /\ Relaying(c, "handoff")
  /\ \E k \in NextReply(c).chars : NoteName(k)
  /\ asked' = [asked EXCEPT ![c] = NoCmd]
  /\ UNCHANGED <<life, bridgeVars, lsbVars, toLsb, request, companion, view>>

(* A list job as it begins, and as it goes from slot to slot: a character  *)
(* picked, then paired with an id or with none, then noted.                *)
Started(chars) == [NoJob EXCEPT !.stage = "slot", !.todo = chars, !.listed = chars]
Picked(j, k, prefer) ==
  [j EXCEPT !.stage = "pair", !.char = k, !.todo = @ \ {k}, !.prefer = prefer]
Paired(j, id) == [j EXCEPT !.stage = "note", !.ids = [@ EXCEPT ![j.char] = id]]
Noted(j) == [j EXCEPT !.stage = "slot", !.char = NoChar, !.prefer = NoId]

(* 0x20 arrives: its slots are rewritten one by one.                       *)
StartList(c) ==
  /\ Relaying(c, "list")
  /\ job' = [job EXCEPT ![c] = Started(NextReply(c).chars)]
  /\ UNCHANGED <<mapVars, life, pendingCreate, createPending, swallow, lsbVars,
                 toLsb, request, companion, clientVars>>

JobFrame(c) ==
  UNCHANGED <<life, createPending, swallow, creator, alive, wireVars, clientVars>>

(* Mutant: the first slot takes the id, new to the map or not.             *)
TakePreferAlways(c) ==
  /\ job[c].stage = "slot"
  /\ job[c].todo # {}
  /\ LET k == Lowest(job[c].todo) IN
     job' = [job EXCEPT ![c] = Picked(@, k, pendingCreate[c])]
  /\ pendingCreate' = [pendingCreate EXCEPT ![c] = NoId]
  /\ UNCHANGED <<mapVars, named>>
  /\ JobFrame(c)

(* First lock: a character new to the map takes the id the client named.   *)
TakePrefer(c) ==
  /\ job[c].stage = "slot"
  /\ job[c].todo # {}
  /\ LET k == Lowest(job[c].todo)
         fresh == idmap[k] = NoId
     IN  /\ job' = [job EXCEPT ![c] = Picked(@, k, IF fresh THEN pendingCreate[c] ELSE NoId)]
         /\ pendingCreate' = [pendingCreate EXCEPT ![c] = IF fresh THEN NoId ELSE @]
  /\ UNCHANGED <<mapVars, named>>
  /\ JobFrame(c)

(* Second lock: content_id_for.                                            *)
PairSlot(c) ==
  /\ job[c].stage = "pair"
  /\ \E ids \in PoolReads(MemberOf[c]) :
       LET k == job[c].char IN
       /\ Pair(k, job[c].prefer, ids)
       /\ job' = [job EXCEPT ![c] = Paired(@, ContentIdFor(k, job[c].prefer, ids))]
       /\ named' = IF idmap'[k] = NoId THEN named
                   ELSE [d \in Conn |-> [named[d] EXCEPT ![k] = NoId]]
  /\ UNCHANGED pendingCreate
  /\ JobFrame(c)

(* Mutants: the world field never reaches the file; the slot just done is  *)
(* kept.                                                                   *)
NoteSlotUnsaved(c) ==
  /\ job[c].stage = "note"
  /\ field' = [field EXCEPT ![job[c].char] = TRUE]
  /\ job' = [job EXCEPT ![c] = Noted(@)]
  /\ UNCHANGED <<idmap, released, file, pendingCreate, named>>
  /\ JobFrame(c)

NoteSlotKept(c) ==
  /\ job[c].stage = "note"
  /\ Note(job[c].char)
  /\ job' = [job EXCEPT ![c] = [@ EXCEPT !.stage = "slot", !.prefer = NoId]]
  /\ UNCHANGED <<pendingCreate, named>>
  /\ JobFrame(c)

(* Third to fifth lock: name, world field and profile.                     *)
NoteSlot(c) ==
  /\ job[c].stage = "note"
  /\ Note(job[c].char)
  /\ job' = [job EXCEPT ![c] = Noted(@)]
  /\ UNCHANGED <<pendingCreate, named>>
  /\ JobFrame(c)

LowestN(S, n) == {x \in S : Cardinality({y \in S : y < x}) < n}

Offering(j, spent) == [j EXCEPT !.stage = "offer", !.spent = spent]

(* Mutant: nothing is read, and every id is taken for free.                *)
ReadSpentNot(c) ==
  /\ job[c].stage = "slot"
  /\ job[c].todo = {}
  /\ job' = [job EXCEPT ![c] = Offering(@, {})]
  /\ UNCHANGED <<mapVars, pendingCreate, named>>
  /\ JobFrame(c)

(* Last lock: every slot is done, and the ids spent by now are read.       *)
ReadSpent(c) ==
  /\ job[c].stage = "slot"
  /\ job[c].todo = {}
  /\ job' = [job EXCEPT ![c] = Offering(@, HeldIds)]
  /\ UNCHANGED <<mapVars, pendingCreate, named>>
  /\ JobFrame(c)

(* The list reaches the client, its empty slots offering the lowest ids    *)
(* of the member that were not spent when that was read.                   *)
Deliver(c) ==
  /\ \E ids \in PoolReads(MemberOf[c]) :
       view' = [view EXCEPT ![c] =
         [listed |-> job[c].listed,
          ids    |-> job[c].ids,
          offer  |-> LowestN(ids \ job[c].spent, Slots - Cardinality(job[c].listed))]]
  /\ asked' = [asked EXCEPT ![c] = IF @.cmd = "list" THEN NoCmd ELSE @]

ListDone(c) ==
  /\ job[c].stage = "offer"
  /\ job' = [job EXCEPT ![c] = NoJob]
  /\ UNCHANGED <<mapVars, life, pendingCreate, createPending, lsbVars, wireVars>>

(* Mutants: our own list is forwarded; the swallowing is not taken back.   *)
FinishListForwarding(c) ==
  /\ ListDone(c)
  /\ swallow' = [swallow EXCEPT ![c] = "none"]
  /\ IF life[c] # "open" THEN UNCHANGED clientVars ELSE Deliver(c)

FinishListSwallowing(c) ==
  /\ ListDone(c)
  /\ UNCHANGED swallow
  /\ IF swallow[c] = "fresh" \/ life[c] # "open" THEN UNCHANGED clientVars ELSE Deliver(c)

(* The list is done and is forwarded, unless it is taken for one of ours.  *)
FinishList(c) ==
  /\ ListDone(c)
  /\ swallow' = [swallow EXCEPT ![c] = "none"]
  /\ IF swallow[c] = "fresh" \/ life[c] # "open" THEN UNCHANGED clientVars ELSE Deliver(c)

(* SWALLOW_TTL passes.                                                     *)
Expire(c) ==
  /\ "expiry" \in Faults
  /\ swallow[c] = "fresh"
  /\ swallow' = [swallow EXCEPT ![c] = "stale"]
  /\ UNCHANGED <<mapVars, life, pendingCreate, createPending, job, lsbVars,
                 wireVars, clientVars>>

----------------------------------------------------------------------------
Player(c) ==
  \/ Connect(c) \/ HangUp(c)
  \/ AskList(c) \/ NameCheck(c) \/ Commit(c) \/ BlockCreate(c)
  \/ Select(c) \/ Delete(c)

LsbView(c) ==
  \/ LsbList(c) \/ LsbCheck(c) \/ LsbCreate(c) \/ LsbDelete(c) \/ LsbSelect(c)

Relay(c) ==
  \/ RelayDone(c) \/ RelayRefused(c) \/ RelayHandoff(c)
  \/ StartList(c) \/ TakePrefer(c) \/ PairSlot(c) \/ NoteSlot(c) \/ ReadSpent(c)
  \/ FinishList(c) \/ Teardown(c)

Next ==
  \/ \E c \in Conn : Player(c) \/ LsbView(c) \/ LsbCharList(c) \/ Relay(c) \/ CompanionDies(c) \/ Expire(c)
  \/ Restart

Spec == Init /\ [][Next]_vars

(* The bridge's threads keep running and LSB keeps answering on each of    *)
(* its two channels; nobody has to play.                                   *)
Fairness ==
  \A c \in Conn : WF_vars(LsbView(c)) /\ WF_vars(LsbCharList(c)) /\ WF_vars(Relay(c))

FairSpec == Spec /\ Fairness

----------------------------------------------------------------------------
(* Properties.                                                             *)

Command == [cmd : {"none"} \cup CommandKinds,
            char : CharId \cup {NoChar}, id : ContentId \cup {NoId}]

Replies == [what : {"done", "refused", "handoff", "list"}, chars : SUBSET CharId]

JobType == [stage : {"idle", "slot", "pair", "note", "offer"}, todo : SUBSET CharId,
            char : CharId \cup {NoChar}, prefer : ContentId \cup {NoId},
            listed : SUBSET CharId, ids : Pairing, spent : SUBSET ContentId]

Screen == [listed : SUBSET CharId, ids : Pairing, offer : SUBSET ContentId]

(* What the bridge keeps for its connections.  A pump is working on a      *)
(* character exactly when its stage says so.                               *)
BridgeTypeOK ==
  /\ life \in [Conn -> {"closed", "open", "closing"}]
  /\ pendingCreate \in [Conn -> ContentId \cup {NoId}]
  /\ createPending \in [Conn -> BOOLEAN]
  /\ swallow \in [Conn -> {"none", "fresh", "stale"}]
  /\ companion \in [Conn -> BOOLEAN]
  /\ job \in [Conn -> JobType]
  /\ \A c \in Conn : job[c].char # NoChar <=> job[c].stage \in {"pair", "note"}

(* LSB, the wire and the clients.                                          *)
WorldTypeOK ==
  /\ creator \in [CharId -> Member \cup {NoMember}]
  /\ alive \subseteq CharId
  /\ toLsb \in [Conn -> Command]
  /\ request \in [Conn -> Nat]
  /\ fromLsb \in [Conn -> Seq(Replies)]
  /\ asked \in [Conn -> Command]
  /\ view \in [Conn -> Screen]
  /\ named \in [Conn -> Pairing]

(* Type invariant of the relay, the map included.                          *)
TypeOK == MapTypeOK /\ BridgeTypeOK /\ WorldTypeOK

(* Is some launch attributed to member m another member's, not flagged,    *)
(* and its client one that names ids it was not offered?                   *)
Misled(m) ==
  /\ "unoffered id" \in Faults
  /\ \E c \in Conn \ Ambiguous : MemberOf[c] = m /\ SignedIn[c] # m

(* A character is only ever paired with a Content ID of the member on      *)
(* whose account it was created: "a global pool lets member B's new        *)
(* character be created against member A's Content ID", and so would a     *)
(* create on a launch attributed to the wrong member.  The flag is what    *)
(* stops those: where get_session missed one, and its client names an id   *)
(* it was not offered, the pairing may be of that member's pool.           *)
MemberIsolation ==
  \A k \in CharId : idmap[k] # NoId =>
    creator[k] # NoMember /\ (idmap[k] \in Pool[creator[k]] \/ Misled(creator[k]))

(* The id a client names on its create goes to the character LSB mints for *)
(* it "and to nothing else": while the connection lasts, the character it  *)
(* created by naming one id is not paired with another.                    *)
CreateGetsNamedId ==
  [][\A c \in Conn, k \in CharId :
       named[c][k] # NoId /\ idmap'[k] # NoId => idmap'[k] = named[c][k]]_vars

(* A select or a delete reaches LSB for the character the player picked on *)
(* the screen, or for none.                                                *)
CommandReachesPicked ==
  \A c \in Conn :
    toLsb[c].cmd \in {"select", "delete"} /\ asked[c].cmd = toLsb[c].cmd =>
      toLsb[c].char \in {asked[c].char, NoChar}

(* A screen never shows a character under an id that is on it as free.     *)
OfferedIsNotShown ==
  \A c \in Conn : \A k \in view[c].listed : view[c].ids[k] \notin view[c].offer

(* When a list reaches the client, every id on it is in the file with its  *)
(* world field already, because POL serves the client's character table    *)
(* from that file: only a character deleted meanwhile is missing.          *)
DeliveredIsPersisted ==
  [][\A c \in Conn, k \in CharId :
       /\ asked[c].cmd = "list" /\ asked'[c].cmd = "none" /\ view'[c] # view[c]
       /\ k \in view'[c].listed /\ view'[c].ids[k] # NoId /\ idmap[k] # NoId
       => file.pair[k] = view'[c].ids[k] /\ file.field[k]]_vars

(* "The client never asked for it and must not see it": a character list   *)
(* only reaches a client waiting for one.                                  *)
NoUnsolicitedList ==
  [][\A c \in Conn : view'[c] # view[c] /\ view'[c].listed # {} /\ job[c] # job'[c]
                        => asked[c].cmd = "list"]_vars

(* A client that asks for its list gets an answer, whatever early lists    *)
(* are swallowed meanwhile: swallowing never eats "the client's own next   *)
(* char list".  Only the connection or its data session may end first.     *)
ListAnswered ==
  \A c \in Conn :
    asked[c].cmd = "list" ~> (asked[c].cmd # "list" \/ life[c] # "open" \/ ~companion[c])

(* "The new charid is known before POL is asked": once LSB's ACK of a      *)
(* commit is on its way back, every character of the account gets a        *)
(* pairing without the client having to ask for its list.                  *)
EarlyPairing ==
  \A c \in Conn, k \in CharId :
    /\ createPending[c] /\ k \in Owned(MemberOf[c])
    /\ \E n \in DOMAIN fromLsb[c] : fromLsb[c][n].what = "done"
    ~> (idmap[k] # NoId \/ k \notin alive \/ life[c] # "open" \/ ~companion[c]
        \/ Pool[MemberOf[c]] \subseteq HeldIds)

(* A Content ID is only spent on a character that exists: deleting a       *)
(* character leaves no pairing behind, and no list read meanwhile brings   *)
(* one back, or its id would be lost to the member for good.               *)
SpentOnTheLiving == \A k \in CharId : idmap[k] # NoId => k \in alive

(* "Safe if the delete then fails: the character reappears in the next     *)
(* 0x20 and is paired again, drawing the same id back out of the member's  *)
(* pool": a character whose released id is still free takes that id back.  *)
RefusedDeleteKeepsId ==
  [][\A k \in CharId :
       /\ idmap[k] = NoId /\ idmap'[k] # NoId
       /\ released[k] # NoId /\ released[k] \notin HeldIds
       => idmap'[k] = released[k]]_vars

=============================================================================
