------------------------------- MODULE Launch -------------------------------
(***************************************************************************)
(* The launch of a client: what handle_client of lsb/ffxi_bridge.py does   *)
(* with a VIEW connection before and after it relays (module Lobby has the *)
(* relay).  One thread per connection waits for the client to speak, reads *)
(* the POL session stamped on its first packet or ranks the sessions of    *)
(* POL's table, finds or makes the member's LSB account, registers a data  *)
(* session and connects upstream.  All of them share the claims on         *)
(* sessions, the account map and the companions; POL writes its table and  *)
(* LSB keeps its accounts on their own.                                    *)
(*                                                                         *)
(* A step is what a thread does between two things another actor can see:  *)
(* the table, a lock, an exchange with LSB.  The table is read and the     *)
(* claims are copied in one step: nothing of the bridge comes between.     *)
(***************************************************************************)
EXTENDS Integers, FiniteSets

CONSTANTS
  Conn,                 (* ckeys: a client's address and port              *)
  Session,              (* sids, numbered in their order as strings        *)
  NoSession,
  Member,               (* POL members                                     *)
  NoMember,
  MemberOf,             (* whose session it is                             *)
  Address,
  AddressOf,            (* where the session's Viewer and its FFXI dial    *)
                        (* from, as POL and the bridge see it              *)
  World,                (* r_tag: the LSB instances, by client build       *)
  POL_SESSION_MAX_AGE, CLAIM_TTL, AMBIGUOUS_WINDOW,   (* in clock ticks    *)
  Scenes                (* the settings of an instance, see scene          *)

EventKinds == {"fetch", "probe", "sign out", "pol restart", "restart", "disk", "lsb",
               "reset", "data", "view"}

Scene == [conns : SUBSET Conn, sessions : SUBSET Session, stamps : SUBSET BOOLEAN,
          worlds : SUBSET World, clock : Nat \ {0}, events : SUBSET EventKinds]

ASSUME LaunchAssumption ==
  /\ Session \subseteq Nat /\ IsFiniteSet(Session) /\ NoSession \in Int \ Session
  /\ NoMember \notin Member
  /\ MemberOf \in [Session -> Member]
  /\ AddressOf \in [Session -> Address] /\ Address # {} /\ World # {}
  /\ POL_SESSION_MAX_AGE \in Nat /\ CLAIM_TTL \in Nat /\ AMBIGUOUS_WINDOW \in Nat
  /\ Scenes \subseteq Scene

VARIABLES
  scene,      (* who takes part and what may happen; chosen once           *)
  now,
  table,      (* POL_SESSIONS                                              *)
  claims,     (* _claimed_sids: when each was last claimed                 *)
  conn,       (* each connection's place in handle_client and its locals   *)
  accounts,   (* LSB: the accounts each instance has                       *)
  reset,      (* LSB: has an instance's database been reset                *)
  acctmap,    (* _acctmap                                                  *)
  acctfile,   (* FFXI_ACCTMAP_FILE                                         *)
  companion,  (* _DATA_COMPANIONS: none, or registered with the hash of    *)
              (* this launch (own) or of an earlier one of the ckey (old)  *)
  reader,     (* does the reader of a companion the bridge closed still    *)
              (* have to run its finally                                   *)
  played      (* sessions served their own member once (history)           *)

polVars == <<now, table>>
acctVars == <<accounts, reset, acctmap, acctfile>>
dataVars == <<companion, reader>>
vars == <<scene, polVars, claims, conn, acctVars, dataVars, played>>

(* A session POL has not seen yet, and one it has forgotten.               *)
Unknown == [open |-> FALSE, at |-> -1, chars |-> 0]
Forgotten == [open |-> FALSE, at |-> -2, chars |-> 0]
Unclaimed == -1

Idle == [at |-> "idle", ip |-> CHOOSE a \in Address : TRUE, sid |-> NoSession,
         stamp |-> FALSE, world |-> CHOOSE w \in World : TRUE,
         pick |-> NoSession, flag |-> FALSE]

(* The steps after a member is settled on; until then no LSB is asked.     *)
AccountSteps == {"map", "create", "record", "login", "heal", "relogin"}
DataSteps == {"companion", "register", "upstream"}
Places == {"idle", "accepted", "stamp", "look", "claim", "claim refused", "relay"}
            \cup AccountSteps \cup DataSteps

Known(s) == table[s].at > 0
Go(c, at) == conn' = [conn EXCEPT ![c].at = at]
Drop(c) == conn' = [conn EXCEPT ![c] = Idle]
Account(c) == <<conn[c].world, MemberOf[conn[c].pick]>>

Init ==
  /\ scene \in Scenes
  /\ now = 1
  /\ table = [s \in Session |-> Unknown]
  /\ claims = [s \in Session |-> Unclaimed]
  /\ conn = [c \in Conn |-> Idle]
  /\ accounts = {} /\ reset = FALSE
  /\ acctmap = {} /\ acctfile = {}
  /\ companion = [c \in Conn |-> "none"]
  /\ reader = [c \in Conn |-> FALSE]
  /\ played = {}

----------------------------------------------------------------------------
(* POL and the players.                                                    *)

Tick ==
  /\ now < scene.clock
  /\ now' = now + 1
  /\ UNCHANGED <<scene, table, claims, conn, acctVars, dataVars, played>>

(* A Viewer signs in under a new sid (viewer_open); no 1:3 seen is chars 0. *)
SignIn(s) ==
  /\ s \in scene.sessions /\ table[s] = Unknown
  /\ table' = [table EXCEPT ![s] = [open |-> TRUE, at |-> now, chars |-> 0]]
  /\ UNCHANGED <<scene, now, claims, conn, acctVars, dataVars, played>>

(* The 1:3 fetch of a session, which refreshes both times.                 *)
Fetch(s) ==
  /\ "fetch" \in scene.events
  /\ table[s].open
  /\ table' = [table EXCEPT ![s].at = now, ![s].chars = now]
  /\ UNCHANGED <<scene, now, claims, conn, acctVars, dataVars, played>>

SignOut(s) ==
  /\ "sign out" \in scene.events
  /\ table[s].open
  /\ table' = [table EXCEPT ![s].open = FALSE]
  /\ UNCHANGED <<scene, now, claims, conn, acctVars, dataVars, played>>

(* POL restarts and has forgotten the session; its Viewer runs on.         *)
Forget(s) ==
  /\ "pol restart" \in scene.events
  /\ Known(s)
  /\ table' = [table EXCEPT ![s] = Forgotten]
  /\ UNCHANGED <<scene, now, claims, conn, acctVars, dataVars, played>>

(* A Viewer launches FFXI, or launches it again after a drop.  A ckey used *)
(* before may come back; what was registered under it is then another      *)
(* launch's.                                                               *)
Dial(c, s) ==
  /\ c \in scene.conns /\ conn[c].at = "idle"
  /\ table[s].open
  /\ \A d \in Conn : conn[d].sid # s
  /\ \E stamp \in scene.stamps, w \in scene.worlds :
       conn' = [conn EXCEPT ![c] = [Idle EXCEPT !.at = "accepted", !.ip = AddressOf[s],
                                                !.sid = s, !.stamp = stamp, !.world = w]]
  /\ companion' = [companion EXCEPT ![c] = IF @ = "own" THEN "old" ELSE @]
  /\ UNCHANGED <<scene, polVars, claims, acctVars, reader, played>>

(* A monitoring probe connects and says nothing.                           *)
Probe(c, ip) ==
  /\ "probe" \in scene.events
  /\ c \in scene.conns /\ conn[c].at = "idle"
  /\ conn' = [conn EXCEPT ![c] = [Idle EXCEPT !.at = "accepted", !.ip = ip]]
  /\ companion' = [companion EXCEPT ![c] = IF @ = "own" THEN "old" ELSE @]
  /\ UNCHANGED <<scene, polVars, claims, acctVars, reader, played>>

----------------------------------------------------------------------------
(* Attribution.                                                            *)

(* Mutant: authentication on accept.                                       *)
AuthOnAccept(c) ==
  /\ conn[c].at = "accepted"
  /\ Go(c, "stamp")
  /\ UNCHANGED <<scene, polVars, claims, acctVars, dataVars, played>>

(* wait_first_bytes: who closes or stays silent is dropped.                *)
FirstBytes(c) ==
  /\ conn[c].at = "accepted"
  /\ IF conn[c].sid = NoSession THEN Drop(c) ELSE Go(c, "stamp")
  /\ UNCHANGED <<scene, polVars, claims, acctVars, dataVars, played>>

(* peek_pol_session and member_for_sid: a stamp POL knows settles it, with *)
(* no regard to whether the session is signed in; any other launch falls   *)
(* back to the ranking.  So does one whose first packet has come in part:  *)
(* the peek takes what is there, once, and finds no stamp in it.           *)
(* peek_client_version has picked the world.                               *)
Stamp(c) ==
  /\ conn[c].at = "stamp"
  /\ \/ /\ conn[c].stamp /\ Known(conn[c].sid)
        /\ conn' = [conn EXCEPT ![c].at = "map", ![c].pick = conn[c].sid]
     \/ Go(c, "look")
  /\ UNCHANGED <<scene, polVars, claims, acctVars, dataVars, played>>

Current(s) == Known(s) /\ now - table[s].at <= POL_SESSION_MAX_AGE
Claimed(s) == claims[s] # Unclaimed /\ now - claims[s] <= CLAIM_TTL
Number(b) == IF b THEN 1 ELSE 0

(* The sort key of a candidate.                                            *)
Key(s, ip) ==
  <<Number(Claimed(s)), Number(~table[s].open), -table[s].chars, -table[s].at,
    Number(AddressOf[s] # ip), s>>

Before(s, t, ip) ==
  \E i \in 1 .. 6 : /\ Key(s, ip)[i] < Key(t, ip)[i]
                    /\ \A j \in 1 .. i - 1 : Key(s, ip)[j] = Key(t, ip)[j]

First(S, ip) == CHOOSE s \in S : \A t \in S \ {s} : Before(s, t, ip)

(* The signed-in sessions at the client's own address.                     *)
SignedExact(ip) == {s \in Session : Current(s) /\ table[s].open /\ AddressOf[s] = ip}

(* Signed in and not claimed: the candidates of a launch nobody can tell   *)
(* apart.                                                                  *)
Live == {s \in Session : Current(s) /\ table[s].open /\ ~Claimed(s)}

Distance(s, t) == IF table[s].at < table[t].at THEN table[t].at - table[s].at
                                               ELSE table[s].at - table[t].at

(* Mutant: the claim ranks before the address, as until 2026-09-04.        *)
DiscriminatesUnclaimed(ip) ==
  LET exact == {s \in SignedExact(ip) : ~Claimed(s)}
  IN  IF Cardinality(exact) = 1 THEN exact ELSE {}

(* The session the address settles on, if it does: the only one signed in  *)
(* there, or the only one of those not launched yet.                       *)
Discriminates(ip) ==
  LET exact == SignedExact(ip)
      fresh == {s \in exact : ~Claimed(s)}
  IN  IF Cardinality(exact) = 1 THEN exact
      ELSE IF Cardinality(fresh) = 1 THEN fresh ELSE {}

(* Mutant: sessions far apart are the ambiguous ones.                      *)
AmbiguousFar(ip) ==
  /\ Cardinality(Live) > 1
  /\ LET one == First(Live, ip)
         two == First(Live \ {one}, ip)
     IN  Distance(one, two) >= AMBIGUOUS_WINDOW

(* Ambiguous: the two best live candidates are both recent.                *)
Ambiguous(ip) ==
  /\ Cardinality(Live) > 1
  /\ LET one == First(Live, ip)
         two == First(Live \ {one}, ip)
     IN  Distance(one, two) < AMBIGUOUS_WINDOW

(* resolve_pol_member, up to its choice: the table is read, stale claims   *)
(* go, and a session is picked on the claims as they are now.              *)
Look(c) ==
  /\ conn[c].at = "look"
  /\ LET ip == conn[c].ip
         sure == Discriminates(ip)
         all == {s \in Session : Current(s)}
         best == First(all, ip)
     IN  IF all = {} THEN Drop(c)
         ELSE IF sure # {}
           THEN \E s \in sure : conn' = [conn EXCEPT ![c].at = "claim", ![c].pick = s]
           ELSE conn' = [conn EXCEPT
                           ![c].at = IF table[best].open THEN "claim" ELSE "claim refused",
                           ![c].pick = best,
                           ![c].flag = Ambiguous(ip)]
  /\ claims' = [s \in Session |-> IF Claimed(s) THEN claims[s] ELSE Unclaimed]
  /\ UNCHANGED <<scene, polVars, acctVars, dataVars, played>>

(* The choice is claimed under a second hold of the lock, also when the    *)
(* launch is then refused because the session is not signed in.            *)
Claim(c) ==
  /\ conn[c].at \in {"claim", "claim refused"}
  /\ claims' = [claims EXCEPT ![conn[c].pick] = now]
  /\ IF conn[c].at = "claim" THEN Go(c, "map") ELSE Drop(c)
  /\ UNCHANGED <<scene, polVars, acctVars, dataVars, played>>

----------------------------------------------------------------------------
(* LSB accounts.                                                           *)

(* lsb_account_for: an account on the map is not created.  The map is kept *)
(* per world.                                                              *)
CheckMap(c) ==
  /\ conn[c].at = "map"
  /\ Go(c, IF Account(c) \in acctmap THEN "login" ELSE "create")
  /\ UNCHANGED <<scene, polVars, claims, acctVars, dataVars, played>>

Unreachable(c) ==
  /\ "lsb" \in scene.events
  /\ conn[c].at \in {"create", "login", "heal", "relogin"}
  /\ Drop(c)
  /\ UNCHANGED <<scene, polVars, claims, acctVars, dataVars, played>>

(* LSB's account creation: made now, or taken, which is as good.           *)
Create(c) ==
  /\ conn[c].at = "create"
  /\ accounts' = accounts \cup {Account(c)}
  /\ Go(c, "record")
  /\ UNCHANGED <<scene, polVars, claims, reset, acctmap, acctfile, dataVars, played>>

(* Mutant: one map for all worlds.                                         *)
RecordEverywhere(c) ==
  /\ conn[c].at = "record"
  /\ acctmap' = acctmap \cup {<<w, Account(c)[2]>> : w \in World}
  /\ acctfile' \in {acctmap'} \cup (IF "disk" \in scene.events THEN {acctfile} ELSE {})
  /\ Go(c, "login")
  /\ UNCHANGED <<scene, polVars, claims, accounts, reset, dataVars, played>>

(* The map is written after the create, in memory and on disk; a file that *)
(* cannot be written is only logged.                                       *)
Record(c) ==
  /\ conn[c].at = "record"
  /\ acctmap' = acctmap \cup {Account(c)}
  /\ acctfile' \in {acctmap'} \cup (IF "disk" \in scene.events THEN {acctfile} ELSE {})
  /\ Go(c, "login")
  /\ UNCHANGED <<scene, polVars, claims, accounts, reset, dataVars, played>>

(* lsb_authenticate.                                                       *)
Login(c) ==
  /\ conn[c].at = "login"
  /\ Go(c, IF Account(c) \in accounts THEN "companion" ELSE "heal")
  /\ UNCHANGED <<scene, polVars, claims, acctVars, dataVars, played>>

(* Mutant: the map is trusted, a refused login is final.                   *)
HealNever(c) ==
  /\ conn[c].at = "heal"
  /\ Drop(c)
  /\ UNCHANGED <<scene, polVars, claims, acctVars, dataVars, played>>

(* lsb_member_session: the account the map names is created again; when it *)
(* is there after all, the first refusal stands.                           *)
Heal(c) ==
  /\ conn[c].at = "heal"
  /\ accounts' = accounts \cup {Account(c)}
  /\ IF Account(c) \in accounts THEN Drop(c) ELSE Go(c, "relogin")
  /\ UNCHANGED <<scene, polVars, claims, reset, acctmap, acctfile, dataVars, played>>

Relogin(c) ==
  /\ conn[c].at = "relogin"
  /\ IF Account(c) \in accounts THEN Go(c, "companion") ELSE Drop(c)
  /\ UNCHANGED <<scene, polVars, claims, acctVars, dataVars, played>>

(* An LSB database is reset under a surviving map, once.                   *)
Reset ==
  /\ "reset" \in scene.events /\ ~reset
  /\ accounts' = {} /\ reset' = TRUE
  /\ UNCHANGED <<scene, polVars, claims, conn, acctmap, acctfile, dataVars, played>>

----------------------------------------------------------------------------
(* The data companion, the relay and its end.                              *)

(* ensure_data_companion: one of another launch is taken off the table and *)
(* closed, which its reader will notice.                                   *)
TakeCompanion(c) ==
  /\ conn[c].at = "companion"
  /\ Go(c, IF companion[c] = "own" THEN "upstream" ELSE "register")
  /\ companion' = [companion EXCEPT ![c] = IF @ = "old" THEN "none" ELSE @]
  /\ reader' = [reader EXCEPT ![c] = @ \/ companion[c] = "old"]
  /\ UNCHANGED <<scene, polVars, claims, acctVars, played>>

(* The new one is connected and registered, or the launch goes on without. *)
Register(c) ==
  /\ conn[c].at = "register"
  /\ \E up \in {TRUE} \cup (IF "data" \in scene.events THEN {FALSE} ELSE {}) :
       companion' = [companion EXCEPT ![c] = IF up THEN "own" ELSE @]
  /\ Go(c, "upstream")
  /\ UNCHANGED <<scene, polVars, claims, acctVars, reader, played>>

(* Mutant: the reader removes whatever is registered under its ckey.       *)
ReaderRemovesAny(c) ==
  /\ reader[c]
  /\ reader' = [reader EXCEPT ![c] = FALSE]
  /\ companion' = [companion EXCEPT ![c] = "none"]
  /\ UNCHANGED <<scene, polVars, claims, conn, acctVars, played>>

(* The reader of a companion closed above ends: the entry is removed only  *)
(* if it is still its own socket's, and it is not.                         *)
ReaderEnds(c) ==
  /\ reader[c]
  /\ reader' = [reader EXCEPT ![c] = FALSE]
  /\ UNCHANGED <<scene, polVars, claims, conn, acctVars, companion, played>>

(* LSB closes a data session, and its reader removes it.                   *)
CompanionEnds(c) ==
  /\ "data" \in scene.events
  /\ companion[c] # "none"
  /\ companion' = [companion EXCEPT ![c] = "none"]
  /\ UNCHANGED <<scene, polVars, claims, conn, acctVars, reader, played>>

(* The upstream connection: both pumps start.  When it fails the client is *)
(* closed and the companion stays behind.                                  *)
Upstream(c) ==
  /\ conn[c].at = "upstream"
  /\ \/ /\ Go(c, "relay")
        /\ played' = IF MemberOf[conn[c].pick] = MemberOf[conn[c].sid]
                       THEN played \cup {conn[c].sid} ELSE played
     \/ /\ "view" \in scene.events
        /\ Drop(c)
        /\ UNCHANGED played
  /\ UNCHANGED <<scene, polVars, claims, acctVars, dataVars>>

(* Both pumps have ended: the game drops, or the player leaves.            *)
Teardown(c) ==
  /\ conn[c].at = "relay"
  /\ Drop(c)
  /\ UNCHANGED <<scene, polVars, claims, acctVars, dataVars, played>>

(* The bridge is restarted: claims are not persisted, the map is           *)
(* (load_acctmap; an unreadable file is taken for an empty map).           *)
Restart ==
  /\ "restart" \in scene.events
  /\ claims' = [s \in Session |-> Unclaimed]
  /\ conn' = [c \in Conn |-> Idle]
  /\ acctmap' \in {acctfile} \cup (IF "disk" \in scene.events THEN {{}} ELSE {})
  /\ companion' = [c \in Conn |-> "none"]
  /\ reader' = [c \in Conn |-> FALSE]
  /\ UNCHANGED <<scene, polVars, accounts, reset, acctfile, played>>

----------------------------------------------------------------------------
(* What handle_client's thread does next.                                  *)
Handle(c) ==
  \/ FirstBytes(c) \/ Stamp(c) \/ Look(c) \/ Claim(c)
  \/ CheckMap(c) \/ Create(c) \/ Record(c) \/ Login(c) \/ Heal(c) \/ Relogin(c)
  \/ TakeCompanion(c) \/ Register(c) \/ Upstream(c)

Pol == Tick \/ \E s \in Session : SignIn(s) \/ Fetch(s) \/ SignOut(s) \/ Forget(s)

Next ==
  \/ Pol
  \/ \E c \in Conn, s \in Session : Dial(c, s)
  \/ \E c \in Conn, ip \in Address : Probe(c, ip)
  \/ \E c \in Conn :
       Handle(c) \/ Unreachable(c) \/ ReaderEnds(c) \/ CompanionEnds(c) \/ Teardown(c)
  \/ Reset \/ Restart

(* A handler's thread is scheduled, and every call it makes to LSB returns *)
(* within its deadline.                                                    *)
Fairness == \A c \in Conn : WF_vars(Handle(c))

Spec == Init /\ [][Next]_vars /\ Fairness

----------------------------------------------------------------------------
(* Type invariant.                                                         *)
LaunchTypeOK ==
  /\ scene \in Scenes
  /\ now \in 1 .. scene.clock
  /\ table \in [Session -> [open : BOOLEAN, at : -2 .. now, chars : 0 .. now]]
  /\ claims \in [Session -> -1 .. now]
  /\ conn \in [Conn -> [at : Places, ip : Address, sid : Session \cup {NoSession},
                        stamp : BOOLEAN, world : World,
                        pick : Session \cup {NoSession}, flag : BOOLEAN]]
  /\ \A c \in Conn :
       conn[c].at \in AccountSteps \cup DataSteps \cup {"claim", "claim refused", "relay"}
         => conn[c].pick # NoSession /\ conn[c].sid # NoSession
  /\ accounts \subseteq World \X Member /\ reset \in BOOLEAN
  /\ acctmap \subseteq World \X Member /\ acctfile \subseteq World \X Member
  /\ companion \in [Conn -> {"none", "own", "old"}]
  /\ reader \in [Conn -> BOOLEAN]
  /\ played \subseteq Session

(* The map names only accounts LSB has, in the world they were made in and *)
(* also after a restart, unless a database was reset: an entry is trusted  *)
(* by every later launch (lsb_account_for, 1026-1030).                     *)
MapIsTrue == ~reset => acctmap \cup acctfile \subseteq accounts

(* A client that is relayed has the data session of its own launch: not    *)
(* that of an earlier launch from the same address and port, and not none  *)
(* because the earlier one's reader was late (LSB answers 0x1F by session  *)
(* hash, and FFXI-3332 otherwise).  Where data sessions do not fail.       *)
DataSessionHeld ==
  "data" \notin scene.events =>
    \A c \in Conn : conn[c].at = "relay" => companion[c] = "own"

Looks(c) == conn[c].at = "look" /\ conn'[c].at \in {"claim", "claim refused"}

(* The only session signed in at an address is what a launch from there    *)
(* gets, unflagged, however often it was launched before and whoever else  *)
(* is signed in elsewhere (resolve_pol_member, 837-848).                   *)
AloneIsServedItsOwn ==
  [][\A c \in Conn :
       Looks(c) /\ SignedExact(conn[c].ip) = {conn[c].sid}
         => conn'[c].pick = conn[c].sid /\ ~conn'[c].flag]_vars

(* When two sessions not yet launched are all that is signed in, and both  *)
(* were active within the window, the launch that is given the other one's *)
(* is flagged, so that it cannot create a character there (862-899).       *)
PairIsFlagged ==
  [][\A c \in Conn, s \in Session :
       Looks(c) /\ s # conn[c].sid /\ Live = {s, conn[c].sid}
                /\ Distance(s, conn[c].sid) < AMBIGUOUS_WINDOW
         => conn'[c].pick = conn[c].sid \/ conn'[c].flag]_vars

(* A peer that says nothing claims no session, makes no account and gets   *)
(* no data session (wait_first_bytes: probes once used up every claim).    *)
SilentTakesNothing ==
  [][\A c \in Conn :
       conn[c].at # "idle" /\ conn[c].sid = NoSession /\ conn'[c] # conn[c] /\ ~Restart
         => UNCHANGED <<claims, acctVars, dataVars>>]_vars

(* After a reset of LSB's database the account comes back: of the launches *)
(* that log in to it, one is given a session (lsb_member_session).  Where  *)
(* nothing else fails.                                                     *)
HealConverges ==
  \A c \in Conn, w \in World, m \in Member :
    scene.events = {"reset"} /\ reset /\ conn[c].at = "login" /\ Account(c) = <<w, m>>
      ~> \E d \in Conn : conn[d].at \in DataSteps /\ Account(d) = <<w, m>>

(* A launch again, after a drop, of a session that has been served its own *)
(* member: it is not handed another member's account as if nothing could   *)
(* be wrong with that (744-753).                                           *)
RelaunchKeepsMember ==
  \A c \in Conn :
    conn[c].at = "relay" /\ conn[c].sid \in played /\ ~conn[c].flag
      => MemberOf[conn[c].pick] = MemberOf[conn[c].sid]
=============================================================================
