---------------------------- MODULE LobbyProofs ----------------------------
(***************************************************************************)
(* The lobby relay is type-correct, drives the Content ID map only through *)
(* the map's own steps, so everything proved of the map holds of the       *)
(* relay, and never pairs a character with a Content ID POL issued to      *)
(* somebody else; for any number of connections, members and Content IDs.  *)
(***************************************************************************)
EXTENDS Lobby, IdMapProofs

----------------------------------------------------------------------------
(* Values.                                                                 *)

(* 0 is no charid, and every charid is a number.                           *)
LEMMA CharsAreNumbers == NoChar \notin CharId /\ CharId \subseteq Nat
BY MapAssumption DEF CharId, NoChar

(* Whatever a read of accounts.db gives is a set of Content IDs.           *)
LEMMA PoolReadsTyped ==
  ASSUME NEW c \in Conn, NEW ids \in PoolReads(MemberOf[c])
  PROVE  ids \in SUBSET ContentId
BY LobbyAssumption DEF PoolReads

(* A command reaches LSB for a character or for none.                      *)
LEMMA TranslateTyped ==
  ASSUME WorldTypeOK, NEW c \in Conn, NEW k \in view[c].listed
  PROVE  Translate(c, k) \in CharId \cup {NoChar} /\ k \in CharId
<1>1. k \in CharId
  BY DEF WorldTypeOK, Screen
<1>2. \A i : CharidFor(i) \in CharId \cup {NoChar}
  <2>. TAKE i
  <2>1. Holders(i) \subseteq CharId
    BY DEF Holders
  <2>. QED
    BY <2>1 DEF CharidFor
<1>. QED
  BY <1>1, <1>2 DEF Translate

(* The constants of the model have the types of what they stand for.       *)
LEMMA Constants ==
  /\ NoCmd \in Command
  /\ NoView \in Screen
  /\ NoJob \in JobType /\ NoJob.char = NoChar /\ NoJob.stage = "idle"
  /\ NoneNamed \in Pairing
BY DEF NoCmd, Command, NoView, Screen, NoJob, JobType, NoneNamed, Pairing

(* The oldest reply, and what remains without it.                          *)
LEMMA RepliesTyped ==
  ASSUME WorldTypeOK, NEW c \in Conn, fromLsb[c] # <<>>
  PROVE  NextReply(c) \in Replies /\ Tail(fromLsb[c]) \in Seq(Replies)
BY DEF WorldTypeOK, NextReply

----------------------------------------------------------------------------
(* Every step of the relay is a step of the map, or leaves it alone.       *)

(* The slot being worked on is a charid, and the id to pair it with is an  *)
(* id or none.                                                             *)
LEMMA SlotTyped ==
  ASSUME BridgeTypeOK, NEW c \in Conn, job[c].stage \in {"pair", "note"}
  PROVE  job[c].char \in CharId /\ job[c].prefer \in ContentId \cup {NoId}
BY DEF BridgeTypeOK, JobType

(* A step of the relay calls one function of the map once, or none.        *)
LEMMA StepIsMapStep == TypeOK /\ [Next]_vars => [MapNext]_mapVars
<1>. SUFFICES ASSUME TypeOK, Next PROVE [MapNext]_mapVars
  BY DEF vars, mapVars
<1>1. ASSUME NEW c \in Conn, Player(c)
      PROVE  [MapNext]_mapVars
  <2>1. CASE Delete(c)
    <3>1. PICK k \in view[c].listed :
            IF view[c].ids[k] # NoId /\ Translate(c, k) # NoChar
              THEN Release(Translate(c, k)) ELSE UNCHANGED mapVars
      BY <2>1 DEF Delete
    <3>2. Translate(c, k) \in CharId \cup {NoChar}
      BY TranslateTyped DEF TypeOK
    <3>. QED
      BY <3>1, <3>2 DEF MapNext
  <2>2. CASE ~Delete(c)
    <3>. QED
      BY <1>1, <2>2 DEF Player, Connect, HangUp, Drop, AskList, NameCheck, Commit,
                        BlockCreate, Select
  <2>. QED
    BY <2>1, <2>2
<1>2. ASSUME NEW c \in Conn, LsbView(c) \/ LsbCharList(c) \/ CompanionDies(c) \/ Expire(c)
      PROVE  [MapNext]_mapVars
  BY <1>2 DEF LsbView, LsbList, LsbCheck, LsbCreate, LsbDelete, LsbSelect, Answer,
              LsbCharList, CompanionDies, Expire
<1>3. ASSUME NEW c \in Conn, Relay(c)
      PROVE  [MapNext]_mapVars
  <2>1. CASE RelayHandoff(c)
    <3>1. PICK k \in NextReply(c).chars : NoteName(k)
      BY <2>1 DEF RelayHandoff
    <3>2. NextReply(c).chars \subseteq CharId
      BY <2>1, RepliesTyped DEF RelayHandoff, Relaying, Replies, TypeOK
    <3>. QED
      BY <3>1, <3>2 DEF MapNext
  <2>2. CASE PairSlot(c)
    <3>1. PICK ids \in PoolReads(MemberOf[c]) : Pair(job[c].char, job[c].prefer, ids)
      BY <2>2 DEF PairSlot
    <3>2. job[c].char \in CharId /\ job[c].prefer \in ContentId \cup {NoId}
      BY <2>2, SlotTyped DEF PairSlot, TypeOK
    <3>3. ids \in SUBSET ContentId
      BY PoolReadsTyped
    <3>. QED
      BY <3>1, <3>2, <3>3 DEF MapNext
  <2>3. CASE NoteSlot(c)
    <3>1. job[c].char \in CharId
      BY <2>3, SlotTyped DEF NoteSlot, TypeOK
    <3>. QED
      BY <2>3, <3>1 DEF NoteSlot, MapNext
  <2>4. CASE RelayDone(c) \/ RelayRefused(c) \/ StartList(c) \/ TakePrefer(c)
             \/ ReadSpent(c) \/ FinishList(c) \/ Teardown(c)
    BY <2>4 DEF RelayDone, RelayRefused, StartList, TakePrefer, ReadSpent, FinishList, ListDone,
                Teardown
  <2>. QED
    BY <1>3, <2>1, <2>2, <2>3, <2>4 DEF Relay
<1>4. CASE Restart
  BY <1>4 DEF Restart, MapNext
<1>. QED
  BY <1>1, <1>2, <1>3, <1>4 DEF Next

----------------------------------------------------------------------------
(* Type correctness, one lemma per group of actions.                       *)

Types == BridgeTypeOK /\ WorldTypeOK

(* What a step that touches none of a part leaves typed.                   *)
LEMMA FrameTypes ==
  /\ BridgeTypeOK /\ UNCHANGED <<life, bridgeVars, companion>> => BridgeTypeOK'
  /\ WorldTypeOK /\ UNCHANGED <<lsbVars, toLsb, request, fromLsb, clientVars>> => WorldTypeOK'
BY DEF BridgeTypeOK, WorldTypeOK, bridgeVars, lsbVars, clientVars

(* A connection dropped from either end, or taken down.                    *)
LEMMA DropTypes ==
  ASSUME Types, NEW c \in Conn, Drop(c)
  PROVE  Types'
<1>1. BridgeTypeOK'
  BY DEF Types, Drop, BridgeTypeOK, bridgeVars
<1>2. WorldTypeOK'
  BY Constants DEF Types, Drop, WorldTypeOK
<1>. QED
  BY <1>1, <1>2 DEF Types

(* A command sent: it, and what the client waits for, are commands.        *)
LEMMA SendTypes ==
  ASSUME Types, NEW c \in Conn, NEW cmd, NEW k \in CharId \cup {NoChar},
         NEW i \in ContentId \cup {NoId}, NEW k2 \in CharId \cup {NoChar},
         Send(c, cmd, k, i, k2)
  PROVE  WorldTypeOK' /\ UNCHANGED <<life, companion>>
<1>1. Cmd(cmd, k, i) \in Command /\ Cmd(cmd, k2, i) \in Command
  BY LobbyAssumption DEF Send, Cmd, Command
<1>. QED
  BY <1>1 DEF Types, Send, WorldTypeOK, lsbVars

(* A client can only name Content IDs, or none.                            *)
LEMMA NameableTyped ==
  ASSUME WorldTypeOK, NEW c \in Conn
  PROVE  Nameable(c) \subseteq ContentId \cup {NoId}
BY LobbyAssumption DEF Nameable, WorldTypeOK, Screen

(* Whatever a player does keeps every variable typed.                      *)
LEMMA PlayerTypes ==
  ASSUME Types, NEW c \in Conn, Player(c)
  PROVE  Types'
<1>1. CASE Connect(c)
  <2>1. PICK up \in BOOLEAN : companion' = [companion EXCEPT ![c] = up]
    BY <1>1 DEF Connect
  <2>2. BridgeTypeOK'
    BY <1>1, <2>1 DEF Types, Connect, BridgeTypeOK, bridgeVars
  <2>3. WorldTypeOK'
    BY <1>1, Constants DEF Types, Connect, WorldTypeOK, lsbVars, clientVars
  <2>. QED
    BY <2>2, <2>3 DEF Types
<1>2. CASE HangUp(c) \/ BlockCreate(c)
  BY <1>2, DropTypes DEF HangUp, BlockCreate
<1>3. CASE AskList(c)
  <2>1. WorldTypeOK' /\ UNCHANGED <<life, companion>>
    BY <1>3, SendTypes DEF AskList
  <2>. QED
    BY <1>3, <2>1, FrameTypes DEF AskList, Types
<1>4. CASE NameCheck(c)
  <2>1. PICK i \in Nameable(c) :
          RecordNamed(c, i) /\ Send(c, "check", NoChar, i, NoChar)
    BY <1>4 DEF NameCheck
  <2>2. i \in ContentId \cup {NoId}
    BY NameableTyped DEF Types
  <2>3. WorldTypeOK' /\ UNCHANGED <<life, companion>>
    BY <2>1, <2>2, SendTypes
  <2>4. BridgeTypeOK'
    BY <1>4, <2>1, <2>2, <2>3 DEF NameCheck, RecordNamed, Types, BridgeTypeOK
  <2>. QED
    BY <2>3, <2>4 DEF Types
<1>5. CASE Commit(c)
  <2>1. PICK i \in Nameable(c) :
          RecordNamed(c, i) /\ Send(c, "commit", NoChar, i, NoChar)
    BY <1>5 DEF Commit
  <2>2. i \in ContentId \cup {NoId}
    BY NameableTyped DEF Types
  <2>3. WorldTypeOK' /\ UNCHANGED <<life, companion>>
    BY <2>1, <2>2, SendTypes
  <2>4. BridgeTypeOK'
    BY <1>5, <2>1, <2>2, <2>3 DEF Commit, RecordNamed, Types, BridgeTypeOK
  <2>. QED
    BY <2>3, <2>4 DEF Types
<1>6. CASE Select(c) \/ Delete(c)
  <2>1. PICK k \in view[c].listed :
          \/ Send(c, "select", k, NoId, Translate(c, k))
          \/ Send(c, "delete", k, NoId, Translate(c, k))
    BY <1>6 DEF Select, Delete
  <2>2. WorldTypeOK' /\ UNCHANGED <<life, companion>>
    BY <2>1, SendTypes, TranslateTyped DEF Types
  <2>. QED
    BY <1>6, <2>2, FrameTypes DEF Select, Delete, Types
<1>. QED
  BY <1>1, <1>2, <1>3, <1>4, <1>5, <1>6 DEF Player

(* An answer of LSB.                                                       *)
LEMMA AnswerTypes ==
  ASSUME Types, NEW c \in Conn, NEW what \in {"done", "refused", "handoff", "list"},
         NEW chars \in SUBSET CharId, Answer(c, Reply(what, chars))
  PROVE  /\ BridgeTypeOK'
         /\ toLsb' \in [Conn -> Command] /\ fromLsb' \in [Conn -> Seq(Replies)]
         /\ UNCHANGED <<request, clientVars>>
<1>1. Reply(what, chars) \in Replies
  BY DEF Reply, Replies
<1>2. BridgeTypeOK'
  BY FrameTypes DEF Types, Answer
<1>. QED
  BY <1>1, <1>2, Constants DEF Types, Answer, WorldTypeOK

(* The characters LSB lists for an account are charids.                    *)
LEMMA OwnedTyped == WorldTypeOK => \A m : Owned(m) \subseteq CharId
BY DEF WorldTypeOK, Owned

(* So does every answer of LSB, the loss of a data session and the TTL.    *)
LEMMA LsbTypes ==
  ASSUME Types, NEW c \in Conn, LsbView(c) \/ LsbCharList(c) \/ CompanionDies(c) \/ Expire(c)
  PROVE  Types'
<1>1. CASE LsbList(c) \/ LsbCheck(c) \/ LsbSelect(c)
  <2>1. PICK what \in {"done", "refused", "handoff", "list"}, chars \in SUBSET CharId :
          Answer(c, Reply(what, chars))
    <3>1. toLsb[c].cmd = "select" /\ toLsb[c].char \in Owned(MemberOf[c])
            => {toLsb[c].char} \subseteq CharId
      BY OwnedTyped DEF Types
    <3>. QED
      BY <1>1, <3>1, OwnedTyped DEF LsbList, LsbCheck, LsbSelect, Types
  <2>2. UNCHANGED lsbVars
    BY <1>1 DEF LsbList, LsbCheck, LsbSelect
  <2>. QED
    BY <2>1, <2>2, AnswerTypes DEF Types, WorldTypeOK, lsbVars, clientVars
<1>2. CASE LsbCreate(c)
  <2>1. PICK what \in {"done", "refused", "handoff", "list"}, chars \in SUBSET CharId :
          Answer(c, Reply(what, chars))
    BY <1>2 DEF LsbCreate
  <2>2. CASE UNCHANGED lsbVars
    BY <2>1, <2>2, AnswerTypes DEF Types, WorldTypeOK, lsbVars, clientVars
  <2>3. CASE ~ UNCHANGED lsbVars
    <3> DEFINE k == Lowest(Unminted)
               i == IF life[c] = "open" THEN toLsb[c].id ELSE NoId
    <3>1. k \in CharId
      BY <1>2, <2>3, LowestIsMember, CharsAreNumbers DEF LsbCreate, Unminted
    <3>2. i \in ContentId \cup {NoId}
      BY DEF Types, WorldTypeOK, Command
    <3>3. /\ creator' = [creator EXCEPT ![k] = MemberOf[c]]
          /\ alive' = alive \cup {k}
          /\ named' = [named EXCEPT ![c] = [@ EXCEPT ![k] = i]]
      BY <1>2, <2>3 DEF LsbCreate
    <3>. HIDE DEF k, i
    <3>4. named' \in [Conn -> Pairing]
      BY <3>1, <3>2, <3>3 DEF Types, WorldTypeOK, Pairing
    <3>5. creator' \in [CharId -> Member \cup {NoMember}] /\ alive' \subseteq CharId
      BY <3>1, <3>3, LobbyAssumption DEF Types, WorldTypeOK
    <3>. QED
      BY <2>1, <3>4, <3>5, AnswerTypes DEF Types, WorldTypeOK, clientVars
  <2>. QED
    BY <2>2, <2>3
<1>3. CASE LsbDelete(c)
  <2>1. PICK what \in {"done", "refused", "handoff", "list"}, chars \in SUBSET CharId :
          Answer(c, Reply(what, chars))
    BY <1>3 DEF LsbDelete
  <2>2. alive' \subseteq CharId /\ UNCHANGED <<creator, named>>
    BY <1>3 DEF LsbDelete, Types, WorldTypeOK
  <2>. QED
    BY <2>1, <2>2, AnswerTypes DEF Types, WorldTypeOK, clientVars
<1>4. CASE LsbCharList(c)
  <2>1. Reply("list", Owned(MemberOf[c])) \in Replies
    BY OwnedTyped DEF Types, Reply, Replies
  <2>2. request' \in [Conn -> Nat]
    BY <1>4 DEF LsbCharList, Types, WorldTypeOK
  <2>3. fromLsb' \in [Conn -> Seq(Replies)]
    BY <1>4, <2>1 DEF LsbCharList, Types, WorldTypeOK
  <2>4. BridgeTypeOK'
    BY <1>4, FrameTypes DEF LsbCharList, Types
  <2>. QED
    BY <1>4, <2>2, <2>3, <2>4 DEF LsbCharList, Types, WorldTypeOK, lsbVars, clientVars
<1>5. CASE CompanionDies(c)
  <2>1. toLsb' \in [Conn -> Command]
    BY <1>5, Constants DEF CompanionDies, Types, WorldTypeOK
  <2>2. BridgeTypeOK'
    BY <1>5 DEF CompanionDies, Types, BridgeTypeOK, bridgeVars
  <2>. QED
    BY <1>5, <2>1, <2>2 DEF CompanionDies, Types, WorldTypeOK, lsbVars, clientVars
<1>6. CASE Expire(c)
  <2>1. BridgeTypeOK'
    BY <1>6 DEF Expire, Types, BridgeTypeOK, wireVars
  <2>. QED
    BY <1>6, <2>1, FrameTypes DEF Expire, Types, wireVars
<1>. QED
  BY <1>1, <1>2, <1>3, <1>4, <1>5, <1>6 DEF LsbView

(* The screen after an OK is a screen.                                     *)
LEMMA ScreenAfterTyped ==
  ASSUME WorldTypeOK, NEW c \in Conn
  PROVE  ScreenAfter(c) \in Screen
BY Constants DEF WorldTypeOK, ScreenAfter, Screen, Pairing

(* Taking a reply off the wire leaves replies there.                       *)
LEMMA RelayingTypes ==
  ASSUME WorldTypeOK, NEW c \in Conn, NEW what, Relaying(c, what)
  PROVE  fromLsb' \in [Conn -> Seq(Replies)]
BY RepliesTyped DEF Relaying, WorldTypeOK

(* A job stays a job from stage to stage, and works on a character exactly *)
(* when its stage says so.                                                 *)
LEMMA StagesTyped ==
  /\ \A chars \in SUBSET CharId :
       Started(chars) \in JobType /\ Started(chars).char = NoChar /\ Started(chars).stage = "slot"
  /\ \A j \in JobType, k \in CharId, p \in ContentId \cup {NoId} :
       Picked(j, k, p) \in JobType /\ Picked(j, k, p).char = k /\ Picked(j, k, p).stage = "pair"
  /\ \A j \in JobType, id \in ContentId \cup {NoId} :
       Paired(j, id) \in JobType /\ Paired(j, id).char = j.char /\ Paired(j, id).stage = "note"
  /\ \A j \in JobType :
       Noted(j) \in JobType /\ Noted(j).char = NoChar /\ Noted(j).stage = "slot"
  /\ \A j \in JobType, ids \in SUBSET ContentId :
       Offering(j, ids) \in JobType /\ Offering(j, ids).char = j.char
       /\ Offering(j, ids).stage = "offer"
BY Constants DEF Started, Picked, Paired, Noted, Offering, JobType, Pairing

(* A job replaced by a job that works on a character exactly when its      *)
(* stage says so.                                                          *)
LEMMA JobTypes ==
  ASSUME BridgeTypeOK, NEW c \in Conn, NEW new \in JobType,
         new.char # NoChar <=> new.stage \in {"pair", "note"},
         job' = [job EXCEPT ![c] = new], UNCHANGED <<life, createPending, companion>>,
         swallow' \in [Conn -> {"none", "fresh", "stale"}],
         pendingCreate' \in [Conn -> ContentId \cup {NoId}]
  PROVE  BridgeTypeOK'
BY DEF BridgeTypeOK

(* So does relaying a reply, or starting on a list.                        *)
LEMMA RelayReplyTypes ==
  ASSUME Types, NEW c \in Conn,
         RelayDone(c) \/ RelayRefused(c) \/ RelayHandoff(c) \/ StartList(c)
  PROVE  Types'
<1>1. fromLsb' \in [Conn -> Seq(Replies)]
  BY RelayingTypes DEF RelayDone, RelayRefused, RelayHandoff, StartList, Types
<1>2. CASE RelayDone(c)
  <2>1. BridgeTypeOK'
    BY <1>2 DEF RelayDone, Refresh, Types, BridgeTypeOK
  <2>2. request' \in [Conn -> Nat]
    BY <1>2 DEF RelayDone, Refresh, Types, WorldTypeOK
  <2>3. view' \in [Conn -> Screen] /\ asked' \in [Conn -> Command]
    BY <1>2, ScreenAfterTyped, Constants DEF RelayDone, Types, WorldTypeOK
  <2>. QED
    BY <1>1, <1>2, <2>1, <2>2, <2>3 DEF RelayDone, Types, WorldTypeOK, lsbVars
<1>3. CASE RelayRefused(c) \/ RelayHandoff(c)
  <2>1. asked' \in [Conn -> Command]
    BY <1>3, Constants DEF RelayRefused, RelayHandoff, Types, WorldTypeOK
  <2>2. BridgeTypeOK'
    BY <1>3, FrameTypes DEF RelayRefused, RelayHandoff, Types
  <2>. QED
    BY <1>1, <1>3, <2>1, <2>2 DEF RelayRefused, RelayHandoff, Types, WorldTypeOK, lsbVars
<1>4. CASE StartList(c)
  <2>1. NextReply(c).chars \subseteq CharId
    BY <1>4, RepliesTyped DEF StartList, Relaying, Types, Replies
  <2>2. BridgeTypeOK'
    BY <1>4, <2>1, StagesTyped, JobTypes DEF StartList, Types, BridgeTypeOK
  <2>. QED
    BY <1>1, <1>4, <2>2 DEF StartList, Types, WorldTypeOK, lsbVars, clientVars
<1>. QED
  BY <1>2, <1>3, <1>4

(* The ids spent are Content IDs.                                          *)
LEMMA HeldTyped == MapTypeOK => HeldIds \in SUBSET ContentId
BY DEF MapTypeOK, Pairing, HeldIds

(* So does each of the three stages of a slot, and the read of the ids     *)
(* spent.                                                                  *)
LEMMA RelaySlotTypes ==
  ASSUME Types, MapTypeOK, NEW c \in Conn,
         TakePrefer(c) \/ PairSlot(c) \/ NoteSlot(c) \/ ReadSpent(c)
  PROVE  Types'
<1>1. UNCHANGED <<creator, alive, toLsb, request, fromLsb, clientVars>>
      /\ UNCHANGED <<life, createPending, swallow, companion>>
  BY DEF TakePrefer, PairSlot, NoteSlot, ReadSpent, JobFrame, wireVars
<1>2. swallow' \in [Conn -> {"none", "fresh", "stale"}]
      /\ pendingCreate \in [Conn -> ContentId \cup {NoId}]
  BY <1>1 DEF Types, BridgeTypeOK
<1>3. ASSUME BridgeTypeOK', named' \in [Conn -> Pairing] PROVE Types'
  BY <1>1, <1>3 DEF Types, WorldTypeOK, clientVars
<1>4. job[c] \in JobType
  BY DEF Types, BridgeTypeOK
<1>5. CASE TakePrefer(c)
  <2> DEFINE k == Lowest(job[c].todo)
             p == IF idmap[k] = NoId THEN pendingCreate[c] ELSE NoId
  <2>1. k \in CharId
    BY <1>4, <1>5, LowestIsMember, CharsAreNumbers DEF TakePrefer, JobType
  <2>2. p \in ContentId \cup {NoId}
    BY <1>2
  <2>3. /\ job' = [job EXCEPT ![c] = Picked(job[c], k, p)]
        /\ pendingCreate' = [pendingCreate EXCEPT ![c] = IF idmap[k] = NoId THEN NoId ELSE @]
        /\ named' = named
    BY <1>5 DEF TakePrefer
  <2>. HIDE DEF k, p
  <2>4. pendingCreate' \in [Conn -> ContentId \cup {NoId}]
    BY <1>2, <2>3
  <2> DEFINE new == Picked(job[c], k, p)
  <2>5. new \in JobType /\ (new.char # NoChar <=> new.stage \in {"pair", "note"})
    BY <1>4, <2>1, <2>2, CharsAreNumbers, StagesTyped
  <2>6. job' = [job EXCEPT ![c] = new]
    BY <2>3
  <2>. HIDE DEF new
  <2>7. BridgeTypeOK'
    BY <1>1, <1>2, <2>4, <2>5, <2>6, JobTypes DEF Types
  <2>. QED
    BY <1>3, <2>3, <2>7 DEF Types, WorldTypeOK
<1>6. CASE PairSlot(c)
  <2>1. job[c].char \in CharId
    BY <1>6, SlotTyped DEF PairSlot, Types
  <2>2. PICK ids \in PoolReads(MemberOf[c]) :
          job' = [job EXCEPT ![c] =
                    Paired(job[c], ContentIdFor(job[c].char, job[c].prefer, ids))]
    BY <1>6 DEF PairSlot
  <2>3. ContentIdFor(job[c].char, job[c].prefer, ids) \in ContentId \cup {NoId}
    BY <1>6, SlotTyped, PoolReadsTyped, ContentIdForNobodysOrOwn DEF PairSlot, Types
  <2>4. pendingCreate' = pendingCreate
    BY <1>6 DEF PairSlot
  <2>5. BridgeTypeOK'
    BY <1>1, <1>2, <1>4, <2>1, <2>2, <2>3, <2>4, CharsAreNumbers, StagesTyped, JobTypes DEF Types
  <2>6. named' \in [Conn -> Pairing]
    BY <1>6, <2>1 DEF PairSlot, Types, WorldTypeOK, Pairing
  <2>. QED
    BY <1>3, <2>5, <2>6
<1>7. CASE NoteSlot(c)
  <2>1. job' = [job EXCEPT ![c] = Noted(job[c])] /\ UNCHANGED <<pendingCreate, named>>
    BY <1>7 DEF NoteSlot
  <2>2. BridgeTypeOK'
    BY <1>1, <1>2, <1>4, <2>1, StagesTyped, JobTypes DEF Types
  <2>. QED
    BY <1>3, <2>1, <2>2 DEF Types, WorldTypeOK
<1>8. CASE ReadSpent(c)
  <2>1. job' = [job EXCEPT ![c] = Offering(job[c], HeldIds)] /\ UNCHANGED <<pendingCreate, named>>
    BY <1>8 DEF ReadSpent
  <2>2. job[c].char = NoChar
    BY <1>8 DEF ReadSpent, Types, BridgeTypeOK
  <2>3. BridgeTypeOK'
    BY <1>1, <1>2, <1>4, <2>1, <2>2, HeldTyped, StagesTyped, JobTypes DEF Types
  <2>. QED
    BY <1>3, <2>1, <2>3 DEF Types, WorldTypeOK
<1>. QED
  BY <1>5, <1>6, <1>7, <1>8

(* So does finishing a list, or taking the connection down.                *)
LEMMA RelayEndTypes ==
  ASSUME Types, NEW c \in Conn, FinishList(c) \/ Teardown(c)
  PROVE  Types'
<1>1. CASE FinishList(c)
  <2>1. BridgeTypeOK'
    <3>1. /\ job' = [job EXCEPT ![c] = NoJob]
          /\ UNCHANGED <<life, pendingCreate, createPending, companion>>
          /\ swallow' = [swallow EXCEPT ![c] = "none"]
      BY <1>1 DEF FinishList, ListDone, wireVars
    <3>2. /\ swallow' \in [Conn -> {"none", "fresh", "stale"}]
          /\ pendingCreate' \in [Conn -> ContentId \cup {NoId}]
      BY <3>1 DEF Types, BridgeTypeOK
    <3>. QED
      BY <3>1, <3>2, Constants, JobTypes DEF Types
  <2>2. CASE UNCHANGED clientVars
    BY <1>1, <2>1, <2>2, FrameTypes DEF FinishList, ListDone, Types, wireVars
  <2>3. CASE Deliver(c)
    <3>1. PICK ids \in PoolReads(MemberOf[c]) :
            view' = [view EXCEPT ![c] =
              [listed |-> job[c].listed, ids |-> job[c].ids,
               offer |-> LowestN(ids \ job[c].spent, Slots - Cardinality(job[c].listed))]]
      BY <2>3 DEF Deliver
    <3>2. LowestN(ids \ job[c].spent, Slots - Cardinality(job[c].listed)) \subseteq ContentId
      BY PoolReadsTyped DEF LowestN
    <3>3. job[c].listed \subseteq CharId /\ job[c].ids \in Pairing
      BY DEF Types, BridgeTypeOK, JobType
    <3>4. view' \in [Conn -> Screen]
      BY <3>1, <3>2, <3>3 DEF Types, WorldTypeOK, Screen
    <3>5. asked' \in [Conn -> Command]
      BY <2>3, Constants DEF Deliver, Types, WorldTypeOK
    <3>. QED
      BY <1>1, <2>1, <3>4, <3>5 DEF FinishList, ListDone, Types, WorldTypeOK, wireVars, lsbVars
  <2>. QED
    BY <1>1, <2>2, <2>3 DEF FinishList
<1>2. CASE Teardown(c)
  <2>1. BridgeTypeOK'
    BY <1>2 DEF Teardown, Types, BridgeTypeOK, wireVars
  <2>. QED
    BY <1>2, <2>1, FrameTypes DEF Teardown, Types, wireVars
<1>. QED
  BY <1>1, <1>2

(* So does a restart of the bridge.                                        *)
LEMMA RestartTypes ==
  ASSUME Types, Restart
  PROVE  Types'
<1>1. BridgeTypeOK'
  BY Constants DEF Restart, BridgeTypeOK
<1>2. fromLsb' \in [Conn -> Seq(Replies)]
  BY DEF Restart
<1>. QED
  BY <1>1, <1>2, Constants DEF Restart, Types, WorldTypeOK

(* The inductive invariant: the types, and the map's own invariant.        *)
Sound == Safe /\ Types

(* The inductive invariant holds initially.                                *)
LEMMA InitSound == Init => Sound
<1>. SUFFICES ASSUME Init PROVE Sound
  OBVIOUS
<1>1. Safe
  BY MapInitSafe DEF Init
<1>2. BridgeTypeOK
  BY Constants DEF Init, BridgeTypeOK
<1>3. WorldTypeOK
  BY Constants DEF Init, WorldTypeOK
<1>. QED
  BY <1>1, <1>2, <1>3 DEF Sound, Types

(* It implies the type invariant.                                          *)
LEMMA SoundIsTyped == Sound => TypeOK
BY DEF Sound, Safe, Types, TypeOK

(* It survives every step: the map by its own proof, the rest by the       *)
(* lemmas above, one per group of actions.                                 *)
LEMMA StepSound == Sound /\ [Next]_vars => Sound'
<1>. SUFFICES ASSUME Sound, [Next]_vars PROVE Sound'
  OBVIOUS
<1>1. Safe'
  BY SoundIsTyped, StepIsMapStep, MapStepSafe DEF Sound
<1>2. CASE UNCHANGED vars
  <2>1. Types'
    BY <1>2, FrameTypes DEF vars, lobbyVars, wireVars, bridgeVars, Sound, Types
  <2>. QED
    BY <1>1, <2>1 DEF Sound
<1>3. ASSUME NEW c \in Conn,
             Player(c) \/ LsbView(c) \/ LsbCharList(c) \/ Relay(c) \/ CompanionDies(c) \/ Expire(c)
      PROVE  Types'
  <2>1. CASE Relay(c)
    BY <2>1, RelayReplyTypes, RelaySlotTypes, RelayEndTypes DEF Relay, Sound, Safe
  <2>. QED
    BY <1>3, <2>1, PlayerTypes, LsbTypes DEF Sound
<1>4. CASE Restart
  BY <1>4, <1>1, RestartTypes DEF Sound
<1>. QED
  BY <1>1, <1>2, <1>3, <1>4 DEF Next, Sound

----------------------------------------------------------------------------
(* What holds of the relay.                                                *)

(* The relay's state has its types, in every instance.                     *)
THEOREM LobbyTypeCorrect == Spec => []TypeOK
BY InitSound, StepSound, SoundIsTyped, PTL DEF Spec

(* The relay drives the map only by whole calls of its functions, on real  *)
(* charids and ids: to the map it is one more caller.                      *)
THEOREM LobbyDrivesMap == Spec => MapSpec
<1>1. Init => MapInit
  BY DEF Init
<1>. QED
  BY <1>1, InitSound, StepSound, SoundIsTyped, StepIsMapStep, PTL DEF Spec, MapSpec

(* No Content ID has two holders, in the bridge's memory or in the file,   *)
(* whatever is lost, refused, late, unreadable or restarted.               *)
THEOREM LobbyUnique == Spec => []UniqueContentId
BY LobbyDrivesMap, MapUnique, PTL

(* While saves succeed, no client, member, list or restart makes a bound   *)
(* id move.                                                                *)
THEOREM LobbyNeverMoves ==
  ASSUME ~SaveMayFail
  PROVE  Spec => BoundIdNeverMoves
BY LobbyDrivesMap, MapNeverMoves, PTL

(* While saves succeed, the relay implements the abstract entitlement.     *)
THEOREM LobbyRefines ==
  ASSUME ~SaveMayFail
  PROVE  Spec => ImplementsEntitlement
BY LobbyDrivesMap, MapRefines, PTL

----------------------------------------------------------------------------
(* Member isolation.  An id reaches the map from a pool read, from what a  *)
(* client named, or from the file; a character reaches it from a list.     *)
(* Each of these sources has to stay with its member.                      *)

(* The characters LSB has minted on the account of member m.               *)
Minted(m) == {k \in CharId : creator[k] = m}

(* The ids characters of member m may be paired with.                      *)
MayHold(m) == IF Misled(m) THEN ContentId ELSE Pool[m]

(* Every character of a pairing holds an id of those of its member.        *)
OwnPool(m) ==
  \A k \in CharId : m[k] # NoId => creator[k] # NoMember /\ m[k] \in MayHold(creator[k])

(* The ids connection c may bring to the map.                              *)
IdsOf(c) == MayHold(MemberOf[c]) \cup {NoId}

IdsStay ==
  /\ \A c \in Conn : pendingCreate[c] \in IdsOf(c)
  /\ \A c \in Conn : job[c].prefer \in IdsOf(c)
  /\ \A c \in Conn : view[c].offer \subseteq IdsOf(c)

ListsStay ==
  \A c \in Conn : \A n \in 1 .. Len(fromLsb[c]) :
    fromLsb[c][n].what = "list" => fromLsb[c][n].chars \subseteq Minted(MemberOf[c])

JobsStay ==
  \A c \in Conn :
    /\ job[c].todo \subseteq Minted(MemberOf[c])
    /\ job[c].char \in Minted(MemberOf[c]) \cup {NoChar}

Isolation == OwnPool(idmap) /\ OwnPool(file.pair) /\ IdsStay /\ ListsStay /\ JobsStay

----------------------------------------------------------------------------
(* Characters never change accounts.                                       *)

(* The member on whose account a charid was minted never changes.          *)
LEMMA CreatorsKept ==
  ASSUME TypeOK, [Next]_vars
  PROVE  \A k \in CharId : creator[k] # NoMember => creator'[k] = creator[k]
<1>1. CASE UNCHANGED creator
  BY <1>1
<1>2. ASSUME NEW c \in Conn, LsbCreate(c), ~UNCHANGED creator
      PROVE  \A k \in CharId : creator[k] # NoMember => creator'[k] = creator[k]
  <2>1. Lowest(Unminted) \in Unminted
    BY <1>2, LowestIsMember, CharsAreNumbers DEF LsbCreate, Unminted, lsbVars
  <2>2. creator' = [creator EXCEPT ![Lowest(Unminted)] = MemberOf[c]]
    BY <1>2 DEF LsbCreate, lsbVars
  <2>. QED
    BY <2>1, <2>2 DEF Unminted, TypeOK, WorldTypeOK
<1>3. CASE UNCHANGED vars
  BY <1>3 DEF vars, lobbyVars, lsbVars
<1>4. ASSUME NEW c \in Conn, Player(c)
      PROVE  UNCHANGED creator
  BY <1>4 DEF Player, Connect, HangUp, Drop, AskList, NameCheck, Commit, BlockCreate,
              Select, Delete, Send, lsbVars
<1>5. ASSUME NEW c \in Conn, LsbView(c) \/ LsbCharList(c) \/ CompanionDies(c) \/ Expire(c), ~LsbCreate(c)
      PROVE  UNCHANGED creator
  BY <1>5 DEF LsbView, LsbList, LsbCheck, LsbDelete, LsbSelect, LsbCharList,
              CompanionDies, Expire, lsbVars
<1>6. ASSUME NEW c \in Conn, Relay(c)
      PROVE  UNCHANGED creator
  BY <1>6 DEF Relay, RelayDone, RelayRefused, RelayHandoff, StartList, TakePrefer, PairSlot,
              NoteSlot, ReadSpent, JobFrame, FinishList, ListDone, Teardown, lsbVars
<1>7. CASE Restart
  BY <1>7 DEF Restart
<1>. QED
  BY <1>1, <1>2, <1>3, <1>4, <1>5, <1>6, <1>7 DEF Next

(* So what a member has minted stays minted by it.                         *)
LEMMA MintedGrows ==
  ASSUME TypeOK, [Next]_vars, NEW c \in Conn
  PROVE  Minted(MemberOf[c]) \subseteq Minted(MemberOf[c])'
BY CreatorsKept, LobbyAssumption DEF Minted

----------------------------------------------------------------------------
(* Ids stay with their member.                                             *)

(* A read of the pool gives ids of the member.                             *)
LEMMA PoolReadsOwn ==
  ASSUME NEW c \in Conn, NEW ids \in PoolReads(MemberOf[c])
  PROVE  ids \subseteq MayHold(MemberOf[c])
BY LobbyAssumption DEF PoolReads, MayHold

(* A client whose launch is not flagged names an id it was offered, or one *)
(* of the pool of the member it was attributed to, or misleads that        *)
(* member's account.                                                       *)
LEMMA NameableOwn ==
  ASSUME IdsStay, NEW c \in Conn, c \notin Ambiguous
  PROVE  Nameable(c) \subseteq IdsOf(c)
<1>1. view[c].offer \subseteq IdsOf(c)
  BY DEF IdsStay
<1>2. CASE "unoffered id" \notin Faults
  BY <1>1, <1>2 DEF Nameable
<1>3. CASE "unoffered id" \in Faults
  <2>1. Pool[SignedIn[c]] \subseteq MayHold(MemberOf[c])
    <3>1. Pool[SignedIn[c]] \subseteq ContentId
      BY LobbyAssumption
    <3>2. SignedIn[c] # MemberOf[c] => Misled(MemberOf[c])
      BY <1>3 DEF Misled
    <3>. QED
      BY <3>1, <3>2 DEF MayHold
  <2>. QED
    BY <1>1, <2>1 DEF Nameable, IdsOf
<1>. QED
  BY <1>2, <1>3

(* A step that records no id, starts no slot and shows no screen.          *)
LEMMA IdsFrame ==
  IdsStay /\ UNCHANGED <<pendingCreate, job, view>> => IdsStay'
BY DEF IdsStay, IdsOf

(* A player names only ids of its own pool, unless its launch is           *)
(* ambiguous, and then it names none.                                      *)
LEMMA PlayerIds ==
  ASSUME TypeOK, IdsStay, NEW c \in Conn, Player(c)
  PROVE  IdsStay'
<1>1. CASE NameCheck(c) \/ Commit(c)
  <2>1. PICK i \in Nameable(c) :
          pendingCreate' = [pendingCreate EXCEPT ![c] = IF i = NoId THEN @ ELSE i]
    BY <1>1 DEF NameCheck, Commit, RecordNamed
  <2>2. i \in IdsOf(c)
    BY <1>1, NameableOwn DEF NameCheck, Commit
  <2>3. UNCHANGED <<job, view>>
    BY <1>1 DEF NameCheck, Commit, Send
  <2>. QED
    BY <2>1, <2>2, <2>3 DEF IdsStay, IdsOf, TypeOK, BridgeTypeOK
<1>2. CASE HangUp(c) \/ BlockCreate(c)
  <2>1. view' = [view EXCEPT ![c] = NoView] /\ UNCHANGED <<pendingCreate, job>>
    BY <1>2 DEF HangUp, BlockCreate, Drop, bridgeVars
  <2>. QED
    BY <2>1 DEF IdsStay, IdsOf, NoView, TypeOK, WorldTypeOK
<1>3. CASE Connect(c) \/ AskList(c) \/ Select(c) \/ Delete(c)
  BY <1>3, IdsFrame DEF Connect, AskList, Select, Delete, Send, bridgeVars, clientVars
<1>. QED
  BY <1>1, <1>2, <1>3 DEF Player

(* LSB hands the bridge no id.                                             *)
LEMMA LsbIds ==
  ASSUME IdsStay, NEW c \in Conn, LsbView(c) \/ LsbCharList(c) \/ CompanionDies(c) \/ Expire(c)
  PROVE  IdsStay'
BY IdsFrame DEF LsbView, LsbList, LsbCheck, LsbCreate, LsbDelete, LsbSelect, Answer,
                LsbCharList, CompanionDies, Expire, bridgeVars, clientVars

(* The s->c pump moves an id only within one connection, and reads new     *)
(* ones from the pool of its member.                                       *)
LEMMA RelayIds ==
  ASSUME TypeOK, IdsStay, NEW c \in Conn, Relay(c)
  PROVE  IdsStay'
<1>1. CASE RelayRefused(c) \/ RelayHandoff(c)
  BY <1>1, IdsFrame DEF RelayRefused, RelayHandoff, bridgeVars
<1>2. CASE RelayDone(c)
  <2>1. ScreenAfter(c).offer \subseteq view[c].offer
    BY DEF ScreenAfter, NoView, TypeOK, WorldTypeOK, Screen
  <2>2. view' = [view EXCEPT ![c] = ScreenAfter(c)] /\ UNCHANGED <<pendingCreate, job>>
    BY <1>2 DEF RelayDone
  <2>. QED
    BY <2>1, <2>2 DEF IdsStay, IdsOf, TypeOK, WorldTypeOK
<1>3. CASE StartList(c) \/ TakePrefer(c) \/ PairSlot(c) \/ NoteSlot(c) \/ ReadSpent(c)
  <2>1. PICK new : /\ job' = [job EXCEPT ![c] = new]
                   /\ new.prefer \in {NoId, job[c].prefer, pendingCreate[c]}
    <3>1. job[c] \in JobType
      BY DEF TypeOK, BridgeTypeOK
    <3>2. /\ \A chars : Started(chars).prefer = NoId
          /\ \A k, p : Picked(job[c], k, p).prefer = p
          /\ \A id : Paired(job[c], id).prefer = job[c].prefer
          /\ Noted(job[c]).prefer = NoId
          /\ Offering(job[c], HeldIds).prefer = job[c].prefer
      BY <3>1 DEF Started, Picked, Paired, Noted, Offering, NoJob, JobType
    <3>3. CASE StartList(c)
      BY <3>2, <3>3 DEF StartList
    <3>4. CASE TakePrefer(c)
      BY <3>2, <3>4 DEF TakePrefer
    <3>5. CASE PairSlot(c)
      BY <3>2, <3>5 DEF PairSlot
    <3>6. CASE NoteSlot(c)
      BY <3>2, <3>6 DEF NoteSlot
    <3>7. CASE ReadSpent(c)
      BY <3>2, <3>7 DEF ReadSpent
    <3>. QED
      BY <1>3, <3>3, <3>4, <3>5, <3>6, <3>7
  <2>2. \A d \in Conn : pendingCreate'[d] \in {NoId, pendingCreate[d]}
    BY <1>3 DEF StartList, TakePrefer, PairSlot, NoteSlot, ReadSpent, TypeOK, BridgeTypeOK
  <2>3. UNCHANGED view
    BY <1>3 DEF StartList, TakePrefer, PairSlot, NoteSlot, ReadSpent, JobFrame, clientVars
  <2>. QED
    BY <2>1, <2>2, <2>3 DEF IdsStay, IdsOf, TypeOK, BridgeTypeOK
<1>4. CASE FinishList(c)
  <2>1. job' = [job EXCEPT ![c] = NoJob] /\ UNCHANGED pendingCreate
    BY <1>4 DEF FinishList, ListDone
  <2>2. \A d \in Conn : view'[d].offer \subseteq IdsOf(d)
    <3>1. CASE UNCHANGED clientVars
      BY <3>1 DEF clientVars, IdsStay
    <3>2. CASE Deliver(c)
      <4>1. PICK ids \in PoolReads(MemberOf[c]) :
              view' = [view EXCEPT ![c] =
                [listed |-> job[c].listed, ids |-> job[c].ids,
                 offer |-> LowestN(ids \ job[c].spent, Slots - Cardinality(job[c].listed))]]
        BY <3>2 DEF Deliver
      <4>2. LowestN(ids \ job[c].spent, Slots - Cardinality(job[c].listed)) \subseteq IdsOf(c)
        BY PoolReadsOwn DEF LowestN, IdsOf
      <4>. QED
        BY <4>1, <4>2 DEF IdsStay, TypeOK, WorldTypeOK
    <3>. QED
      BY <1>4, <3>1, <3>2 DEF FinishList
  <2>. QED
    BY <2>1, <2>2 DEF IdsStay, IdsOf, NoJob, TypeOK, BridgeTypeOK
<1>5. CASE Teardown(c)
  BY <1>5 DEF Teardown, clientVars, IdsStay, IdsOf, TypeOK, BridgeTypeOK
<1>. QED
  BY <1>1, <1>2, <1>3, <1>4, <1>5 DEF Relay

(* No step lets an id cross from one member to another.                    *)
LEMMA StepIds ==
  ASSUME TypeOK, IdsStay, [Next]_vars
  PROVE  IdsStay'
<1>1. CASE UNCHANGED vars
  BY <1>1, IdsFrame DEF vars, lobbyVars, bridgeVars, clientVars
<1>2. CASE Restart
  BY <1>2 DEF Restart, IdsStay, IdsOf, NoJob, NoView
<1>. QED
  BY <1>1, <1>2, PlayerIds, LsbIds, RelayIds DEF Next

----------------------------------------------------------------------------
(* Lists stay with their member.                                           *)

(* The lists waiting on a wire are of characters of S.                     *)
ListsOf(replies, S) ==
  \A n \in 1 .. Len(replies) : replies[n].what = "list" => replies[n].chars \subseteq S

(* ListsStay, one wire at a time.                                          *)
LEMMA ListsStayForm == ListsStay <=> \A c \in Conn : ListsOf(fromLsb[c], Minted(MemberOf[c]))
BY DEF ListsStay, ListsOf

(* Appending a reply that is no list, or a list of characters of S;        *)
(* dropping the oldest; dropping all.                                      *)
LEMMA ListsOps ==
  ASSUME NEW S, NEW replies \in Seq(Replies), ListsOf(replies, S)
  PROVE  /\ \A r \in Replies : r.what # "list" \/ r.chars \subseteq S
              => ListsOf(Append(replies, r), S)
         /\ replies # <<>> => ListsOf(Tail(replies), S)
         /\ ListsOf(<<>>, S)
<1>1. ASSUME NEW r \in Replies, r.what # "list" \/ r.chars \subseteq S
      PROVE  ListsOf(Append(replies, r), S)
  BY <1>1 DEF ListsOf
<1>2. ASSUME replies # <<>>
      PROVE  ListsOf(Tail(replies), S)
  <2>. SUFFICES ASSUME NEW n \in 1 .. Len(Tail(replies)), Tail(replies)[n].what = "list"
                PROVE  Tail(replies)[n].chars \subseteq S
    BY DEF ListsOf
  <2>1. Len(Tail(replies)) = Len(replies) - 1 /\ Tail(replies)[n] = replies[n + 1]
    BY <1>2
  <2>2. n + 1 \in 1 .. Len(replies)
    BY <2>1
  <2>. QED
    BY <2>1, <2>2 DEF ListsOf
<1>. QED
  BY <1>1, <1>2 DEF ListsOf

(* What LSB lists for a member was minted for that member.                 *)
LEMMA OwnedMinted == \A m : Owned(m) \cap CharId \subseteq Minted(m)
BY DEF Owned, Minted

(* What one step does to the replies waiting for a connection.             *)
WireStep(d) ==
  \/ fromLsb'[d] = fromLsb[d]
  \/ fromLsb'[d] = <<>>
  \/ fromLsb[d] # <<>> /\ fromLsb'[d] = Tail(fromLsb[d])
  \/ \E r \in Replies :
       /\ fromLsb'[d] = Append(fromLsb[d], r)
       /\ r.what # "list" \/ r.chars = Owned(MemberOf[d])

(* An answer of LSB that lists characters of the account keeps the wire    *)
(* sound.                                                                  *)
LEMMA AnswerWire ==
  ASSUME TypeOK, NEW c \in Conn, NEW what \in {"done", "refused", "handoff", "list"},
         NEW chars \in SUBSET CharId, Answer(c, Reply(what, chars)),
         what # "list" \/ chars = Owned(MemberOf[c])
  PROVE  \A d \in Conn : WireStep(d)
<1>1. Reply(what, chars) \in Replies /\ Reply(what, chars).what = what
      /\ Reply(what, chars).chars = chars
  BY DEF Reply, Replies
<1>. QED
  BY <1>1 DEF Answer, WireStep, TypeOK, WorldTypeOK

(* So does every step, wire by wire.                                       *)
LEMMA StepWire ==
  ASSUME TypeOK, [Next]_vars
  PROVE  \A d \in Conn : WireStep(d)
<1>1. ASSUME UNCHANGED fromLsb
      PROVE  \A d \in Conn : WireStep(d)
  BY <1>1 DEF WireStep
<1>2. ASSUME NEW c \in Conn, Player(c)
      PROVE  \A d \in Conn : WireStep(d)
  <2>1. CASE HangUp(c) \/ BlockCreate(c)
    BY <2>1 DEF HangUp, BlockCreate, Drop, WireStep, TypeOK, WorldTypeOK
  <2>2. CASE ~(HangUp(c) \/ BlockCreate(c))
    BY <1>1, <1>2, <2>2 DEF Player, Connect, AskList, NameCheck, Commit, Select, Delete, Send
  <2>. QED
    BY <2>1, <2>2
<1>3. ASSUME NEW c \in Conn, LsbView(c)
      PROVE  \A d \in Conn : WireStep(d)
  <2>1. Owned(MemberOf[c]) \in SUBSET CharId
    BY OwnedTyped DEF TypeOK
  <2>2. CASE LsbList(c)
    BY <2>1, <2>2, AnswerWire DEF LsbList
  <2>3. CASE LsbCheck(c) \/ LsbCreate(c) \/ LsbDelete(c)
    <3>1. Answer(c, Reply("done", {})) \/ Answer(c, Reply("refused", {}))
      BY <2>3 DEF LsbCheck, LsbCreate, LsbDelete
    <3>. QED
      BY <3>1, AnswerWire
  <2>4. CASE LsbSelect(c)
    <3>1. toLsb[c].char \in Owned(MemberOf[c]) => {toLsb[c].char} \in SUBSET CharId
      BY <2>1
    <3>. QED
      BY <2>4, <3>1, AnswerWire DEF LsbSelect
  <2>. QED
    BY <1>3, <2>2, <2>3, <2>4 DEF LsbView
<1>4. ASSUME NEW c \in Conn, LsbCharList(c)
      PROVE  \A d \in Conn : WireStep(d)
  <2> DEFINE r == Reply("list", Owned(MemberOf[c]))
  <2>1. r \in Replies /\ r.chars = Owned(MemberOf[c])
    BY OwnedTyped DEF TypeOK, Reply, Replies
  <2>2. fromLsb' = [fromLsb EXCEPT ![c] = Append(@, r)]
    BY <1>4 DEF LsbCharList
  <2>. HIDE DEF r
  <2>. QED
    BY <2>1, <2>2 DEF WireStep, TypeOK, WorldTypeOK
<1>5. ASSUME NEW c \in Conn, Relay(c)
      PROVE  \A d \in Conn : WireStep(d)
  <2>1. CASE RelayDone(c) \/ RelayRefused(c) \/ RelayHandoff(c) \/ StartList(c)
    <3>1. fromLsb[c] # <<>> /\ fromLsb' = [fromLsb EXCEPT ![c] = Tail(@)]
      BY <2>1 DEF RelayDone, RelayRefused, RelayHandoff, StartList, Relaying
    <3>. QED
      BY <3>1 DEF WireStep, TypeOK, WorldTypeOK
  <2>2. CASE TakePrefer(c) \/ PairSlot(c) \/ NoteSlot(c) \/ ReadSpent(c) \/ FinishList(c)
             \/ Teardown(c)
    BY <1>1, <2>2 DEF TakePrefer, PairSlot, NoteSlot, ReadSpent, JobFrame, FinishList, ListDone,
                      Teardown, wireVars
  <2>. QED
    BY <1>5, <2>1, <2>2 DEF Relay
<1>6. ASSUME NEW c \in Conn, CompanionDies(c) \/ Expire(c)
      PROVE  \A d \in Conn : WireStep(d)
  BY <1>1, <1>6 DEF CompanionDies, Expire, wireVars
<1>7. CASE Restart
  BY <1>7 DEF Restart, WireStep
<1>8. CASE UNCHANGED vars
  BY <1>1, <1>8 DEF vars, lobbyVars, wireVars
<1>. QED
  BY <1>2, <1>3, <1>4, <1>5, <1>6, <1>7, <1>8 DEF Next

(* The lists on every wire stay with the account they were made for.       *)
LEMMA StepLists ==
  ASSUME TypeOK, ListsStay, [Next]_vars
  PROVE  ListsStay'
<1>. SUFFICES ASSUME NEW d \in Conn
              PROVE  \A n \in 1 .. Len(fromLsb'[d]) :
                       fromLsb'[d][n].what = "list" => fromLsb'[d][n].chars \subseteq Minted(MemberOf[d])'
  BY DEF ListsStay
<1>1. ListsOf(fromLsb[d], Minted(MemberOf[d])) /\ fromLsb[d] \in Seq(Replies)
  BY ListsStayForm DEF TypeOK, WorldTypeOK
<1>2. ListsOf(fromLsb'[d], Minted(MemberOf[d]))
  <2>1. CASE fromLsb'[d] = fromLsb[d] \/ fromLsb'[d] = <<>>
    BY <1>1, <2>1, ListsOps
  <2>2. CASE fromLsb[d] # <<>> /\ fromLsb'[d] = Tail(fromLsb[d])
    BY <1>1, <2>2, ListsOps
  <2>3. ASSUME NEW r \in Replies, fromLsb'[d] = Append(fromLsb[d], r),
               r.what # "list" \/ r.chars = Owned(MemberOf[d])
        PROVE  ListsOf(fromLsb'[d], Minted(MemberOf[d]))
    <3>1. ListsOf(Append(fromLsb[d], r), Minted(MemberOf[d]))
      BY <1>1, <2>3, ListsOps, OwnedMinted, OwnedTyped DEF TypeOK
    <3>. QED
      BY <2>3, <3>1
  <2>. QED
    BY <2>1, <2>2, <2>3, StepWire DEF WireStep
<1>. QED
  BY <1>2, MintedGrows DEF ListsOf

----------------------------------------------------------------------------
(* The characters a list job works on stay with their member.              *)

(* What one step does to a job, as far as its characters go.               *)
JobStep(d) ==
  \/ job'[d].todo \subseteq job[d].todo /\ job'[d].char \in job[d].todo \cup {job[d].char, NoChar}
  \/ /\ fromLsb[d] # <<>> /\ NextReply(d).what = "list"
     /\ job'[d].todo = NextReply(d).chars /\ job'[d].char = NoChar

(* The list a pump works on stays one of its own account's, stage by       *)
(* stage.                                                                  *)
LEMMA StepJobs ==
  ASSUME TypeOK, [Next]_vars
  PROVE  \A d \in Conn : JobStep(d)
<1>1. ASSUME UNCHANGED job
      PROVE  \A d \in Conn : JobStep(d)
  BY <1>1 DEF JobStep
<1>2. ASSUME NEW c \in Conn, Player(c)
      PROVE  UNCHANGED job
  BY <1>2 DEF Player, Connect, HangUp, Drop, AskList, NameCheck, Commit, BlockCreate,
              Select, Delete, Send, bridgeVars
<1>3. ASSUME NEW c \in Conn, LsbView(c) \/ LsbCharList(c) \/ CompanionDies(c) \/ Expire(c)
      PROVE  UNCHANGED job
  BY <1>3 DEF LsbView, LsbList, LsbCheck, LsbCreate, LsbDelete, LsbSelect, Answer,
              LsbCharList, CompanionDies, Expire, bridgeVars
<1>4. ASSUME NEW c \in Conn, Relay(c)
      PROVE  \A d \in Conn : JobStep(d)
  <2>1. job[c] \in JobType
    BY DEF TypeOK, BridgeTypeOK
  <2>2. CASE StartList(c)
    <3>1. job' = [job EXCEPT ![c] = Started(NextReply(c).chars)]
          /\ fromLsb[c] # <<>> /\ NextReply(c).what = "list"
      BY <2>2 DEF StartList, Relaying
    <3>2. \A chars : Started(chars).todo = chars /\ Started(chars).char = NoChar
      BY DEF Started, NoJob
    <3>. QED
      BY <3>1, <3>2 DEF JobStep, TypeOK, BridgeTypeOK
  <2>3. CASE TakePrefer(c)
    <3>1. PICK p : job' = [job EXCEPT ![c] = Picked(job[c], Lowest(job[c].todo), p)]
      BY <2>3 DEF TakePrefer
    <3>2. Lowest(job[c].todo) \in job[c].todo
      BY <2>1, <2>3, LowestIsMember, CharsAreNumbers DEF TakePrefer, JobType
    <3>3. \A k : Picked(job[c], k, p).char = k /\ Picked(job[c], k, p).todo = job[c].todo \ {k}
      BY <2>1 DEF Picked, JobType
    <3>. QED
      BY <3>1, <3>2, <3>3 DEF JobStep, TypeOK, BridgeTypeOK
  <2>4. CASE PairSlot(c)
    <3>1. PICK id : job' = [job EXCEPT ![c] = Paired(job[c], id)]
      BY <2>4 DEF PairSlot
    <3>2. Paired(job[c], id).char = job[c].char /\ Paired(job[c], id).todo = job[c].todo
      BY <2>1 DEF Paired, JobType
    <3>. QED
      BY <3>1, <3>2 DEF JobStep, TypeOK, BridgeTypeOK
  <2>5. CASE NoteSlot(c)
    <3>1. job' = [job EXCEPT ![c] = Noted(job[c])]
      BY <2>5 DEF NoteSlot
    <3>2. Noted(job[c]).char = NoChar /\ Noted(job[c]).todo = job[c].todo
      BY <2>1 DEF Noted, JobType
    <3>. QED
      BY <3>1, <3>2 DEF JobStep, TypeOK, BridgeTypeOK
  <2>6. CASE FinishList(c)
    <3>1. job' = [job EXCEPT ![c] = NoJob]
      BY <2>6 DEF FinishList, ListDone
    <3>. QED
      BY <3>1 DEF JobStep, NoJob, TypeOK, BridgeTypeOK
  <2>7. CASE RelayDone(c) \/ RelayRefused(c) \/ RelayHandoff(c) \/ Teardown(c)
    BY <1>1, <2>7 DEF RelayDone, RelayRefused, RelayHandoff, Teardown, bridgeVars
  <2>8. CASE ReadSpent(c)
    <3>1. job' = [job EXCEPT ![c] = Offering(job[c], HeldIds)]
      BY <2>8 DEF ReadSpent
    <3>2. /\ Offering(job[c], HeldIds).char = job[c].char
          /\ Offering(job[c], HeldIds).todo = job[c].todo
      BY <2>1 DEF Offering, JobType
    <3>. QED
      BY <3>1, <3>2 DEF JobStep, TypeOK, BridgeTypeOK
  <2>. QED
    BY <1>4, <2>2, <2>3, <2>4, <2>5, <2>6, <2>7, <2>8 DEF Relay
<1>5. CASE Restart
  BY <1>5 DEF Restart, JobStep, NoJob
<1>6. CASE UNCHANGED vars
  BY <1>6 DEF vars, lobbyVars, bridgeVars, JobStep
<1>. QED
  BY <1>1, <1>2, <1>3, <1>4, <1>5, <1>6 DEF Next

(* The same for every connection.                                          *)
LEMMA StepJobsStay ==
  ASSUME TypeOK, ListsStay, JobsStay, [Next]_vars
  PROVE  JobsStay'
<1>. SUFFICES ASSUME NEW d \in Conn
              PROVE  /\ job'[d].todo \subseteq Minted(MemberOf[d])'
                     /\ job'[d].char \in Minted(MemberOf[d])' \cup {NoChar}
  BY DEF JobsStay
<1>1. fromLsb[d] # <<>> /\ NextReply(d).what = "list"
        => NextReply(d).chars \subseteq Minted(MemberOf[d])
  <2>. SUFFICES ASSUME fromLsb[d] # <<>>, NextReply(d).what = "list"
                PROVE  NextReply(d).chars \subseteq Minted(MemberOf[d])
    OBVIOUS
  <2>1. fromLsb[d] \in Seq(Replies)
    BY DEF TypeOK, WorldTypeOK
  <2>2. NextReply(d) = fromLsb[d][1] /\ 1 \in 1 .. Len(fromLsb[d])
    BY <2>1 DEF NextReply
  <2>. QED
    BY <2>2 DEF ListsStay
<1>. QED
  BY <1>1, StepJobs, MintedGrows DEF JobStep, JobsStay

----------------------------------------------------------------------------
(* The map and the file stay within each member's pool.                    *)

(* Where the id of a pairing comes from.                                   *)
LEMMA ContentIdForSource ==
  ASSUME MapTypeOK, NEW k \in CharId, NEW prefer \in ContentId \cup {NoId},
         NEW ids \in SUBSET ContentId
  PROVE  ContentIdFor(k, prefer, ids) \in {NoId, idmap[k], prefer} \cup ids
<1> DEFINE free == ids \ HeldIds
<1>1. free # {} => Lowest(free) \in free
  BY IdsAreNumbers, LowestIsMember
<1>2. Allocated(k, ids) \in ids \cup {NoId}
  BY <1>1 DEF Allocated
<1>3. Named(prefer) \in {NoId, prefer}
  BY DEF Named
<1>. QED
  BY <1>2, <1>3 DEF ContentIdFor

(* A pairing within the pools stays so when LSB mints another character.   *)
LEMMA OwnPoolKept ==
  ASSUME TypeOK, [Next]_vars, NEW m, OwnPool(m)
  PROVE  \A k \in CharId : m[k] # NoId => creator'[k] # NoMember /\ m[k] \in MayHold(creator'[k])
BY CreatorsKept DEF OwnPool

(* The pairing a connection makes is within the pool of its member.        *)
LEMMA PairOwnPool ==
  ASSUME TypeOK, Isolation, NEW c \in Conn, PairSlot(c)
  PROVE  OwnPool(idmap')
<1> DEFINE k == job[c].char
<1>1. k \in CharId /\ job[c].prefer \in ContentId \cup {NoId}
  BY SlotTyped DEF PairSlot, TypeOK
<1>2. PICK ids \in PoolReads(MemberOf[c]) : Pair(k, job[c].prefer, ids)
  BY DEF PairSlot
<1> DEFINE id == ContentIdFor(k, job[c].prefer, ids)
<1>3. id \in {NoId, idmap[k], job[c].prefer} \cup ids
  BY <1>1, PoolReadsTyped, ContentIdForSource DEF TypeOK
<1>4. ids \subseteq MayHold(MemberOf[c]) /\ job[c].prefer \in IdsOf(c)
  BY PoolReadsOwn DEF Isolation, IdsStay
<1>5. creator[k] = MemberOf[c] /\ MemberOf[c] # NoMember
  BY <1>1, CharsAreNumbers, LobbyAssumption DEF Isolation, JobsStay, Minted
<1>6. idmap' = [idmap EXCEPT ![k] = id]
  BY <1>2 DEF Pair
<1>. HIDE DEF id, k
<1>. QED
  BY <1>1, <1>3, <1>4, <1>5, <1>6 DEF Isolation, OwnPool, IdsOf, TypeOK, MapTypeOK, Pairing

(* Every other step of the relay pairs nobody anew.                        *)
LEMMA OthersPairNobody ==
  ASSUME TypeOK, [Next]_vars, \A c \in Conn : ~PairSlot(c)
  PROVE  \/ \A k \in CharId : idmap'[k] \in {NoId, idmap[k]}
         \/ idmap' = file.pair
<1>1. CASE UNCHANGED idmap
  BY <1>1
<1>2. ASSUME NEW c \in Conn, Player(c)
      PROVE  \A k \in CharId : idmap'[k] \in {NoId, idmap[k]}
  <2>1. CASE Delete(c)
    BY <2>1 DEF Delete, Release, mapVars, TypeOK, MapTypeOK, Pairing
  <2>2. CASE ~Delete(c)
    BY <1>2, <2>2 DEF Player, Connect, HangUp, Drop, AskList, NameCheck, Commit,
                      BlockCreate, Select, mapVars
  <2>. QED
    BY <2>1, <2>2
<1>3. ASSUME NEW c \in Conn, LsbView(c) \/ LsbCharList(c) \/ CompanionDies(c) \/ Expire(c)
      PROVE  UNCHANGED idmap
  BY <1>3 DEF LsbView, LsbList, LsbCheck, LsbCreate, LsbDelete, LsbSelect, Answer,
              LsbCharList, CompanionDies, Expire, mapVars
<1>4. ASSUME NEW c \in Conn, Relay(c)
      PROVE  UNCHANGED idmap
  BY <1>4 DEF Relay, RelayDone, RelayRefused, RelayHandoff, NoteName, StartList, TakePrefer,
              NoteSlot, Note, ReadSpent, FinishList, ListDone, Teardown, mapVars
<1>5. CASE Restart
  BY <1>5 DEF Restart, Reload
<1>6. CASE UNCHANGED vars
  BY <1>6 DEF vars, mapVars
<1>. QED
  BY <1>1, <1>2, <1>3, <1>4, <1>5, <1>6 DEF Next

(* The file is replaced by an image of the map, or not at all.             *)
LEMMA FileFollowsMap ==
  ASSUME TypeOK, [Next]_vars
  PROVE  file' = file \/ file'.pair = idmap'
<1>1. [MapNext]_mapVars
  BY StepIsMapStep
<1>2. Save => file' = file \/ file'.pair = idmap'
  BY DEF Save, Image
<1>. QED
  BY <1>1, <1>2 DEF MapNext, mapVars, Pair, Note, NoteName, Release, Reload

(* The map, and its file, only ever pair a character with an id of its own *)
(* member: PairSlot is the one step that binds, and it has both from the   *)
(* same connection.                                                        *)
LEMMA StepOwnPool ==
  ASSUME TypeOK, Isolation, [Next]_vars
  PROVE  OwnPool(idmap)' /\ OwnPool(file.pair)'
<1>1. OwnPool(idmap)'
  <2>1. CASE \E c \in Conn : PairSlot(c)
    <3>1. OwnPool(idmap')
      BY <2>1, PairOwnPool
    <3>. QED
      BY <3>1, OwnPoolKept DEF OwnPool
  <2>2. CASE \A c \in Conn : ~PairSlot(c)
    <3>1. CASE \A k \in CharId : idmap'[k] \in {NoId, idmap[k]}
      BY <3>1, OwnPoolKept DEF OwnPool, Isolation
    <3>2. CASE idmap' = file.pair
      BY <3>2, OwnPoolKept DEF OwnPool, Isolation
    <3>. QED
      BY <2>2, <3>1, <3>2, OthersPairNobody
  <2>. QED
    BY <2>1, <2>2
<1>2. CASE file' = file
  BY <1>2, <1>1, OwnPoolKept DEF OwnPool, Isolation
<1>3. CASE file'.pair = idmap'
  BY <1>3, <1>1 DEF OwnPool
<1>. QED
  BY <1>1, <1>2, <1>3, FileFollowsMap

(* The inductive invariant holds initially.                                *)
LEMMA InitIsolation == Init => Isolation
<1>. SUFFICES ASSUME Init PROVE Isolation
  OBVIOUS
<1>1. OwnPool(idmap) /\ OwnPool(file.pair)
  BY DEF Init, MapInit, OwnPool, Image
<1>2. IdsStay /\ JobsStay
  BY DEF Init, IdsStay, IdsOf, JobsStay, NoJob, NoView
<1>3. ListsStay
  BY DEF Init, ListsStay
<1>. QED
  BY <1>1, <1>2, <1>3 DEF Isolation

(* It survives every step.                                                 *)
LEMMA StepIsolation == TypeOK /\ Isolation /\ [Next]_vars => Isolation'
<1>. SUFFICES ASSUME TypeOK, Isolation, [Next]_vars PROVE Isolation'
  OBVIOUS
<1>1. OwnPool(idmap)' /\ OwnPool(file.pair)'
  BY StepOwnPool
<1>2. IdsStay' /\ ListsStay' /\ JobsStay'
  BY StepIds, StepLists, StepJobsStay DEF Isolation
<1>. QED
  BY <1>1, <1>2 DEF Isolation

(* A character is only ever paired with a Content ID of the member on      *)
(* whose account it was created, however connections, lists, refusals and  *)
(* restarts interleave and whatever launch is attributed to whom: the pool *)
(* reads, the refused creates of flagged launches and the account per      *)
(* member are enough together, but for an account misled by a launch that  *)
(* was neither its member's nor flagged.                                   *)
THEOREM LobbyIsolation == Spec => []MemberIsolation
<1>1. Isolation => MemberIsolation
  BY DEF Isolation, OwnPool, MayHold, MemberIsolation
<1>. QED
  BY <1>1, LobbyTypeCorrect, InitIsolation, StepIsolation, PTL DEF Spec

(* Isolation with no exception.                                            *)
PoolsApart ==
  \A k \in CharId : idmap[k] # NoId => creator[k] # NoMember /\ idmap[k] \in Pool[creator[k]]

(* Where clients name only ids their screens offer there is no exception:  *)
(* the screen of a launch attributed to the wrong member offers the ids of *)
(* the member whose account its creates land on, flagged or not.           *)
THEOREM LobbyIsolationOffered ==
  ASSUME "unoffered id" \notin Faults
  PROVE  Spec => []PoolsApart
<1>1. MemberIsolation => PoolsApart
  BY DEF MemberIsolation, PoolsApart, Misled
<1>. QED
  BY <1>1, LobbyIsolation, PTL

=============================================================================
