---------------------------- MODULE ScreenProofs ----------------------------
(***************************************************************************)
(* What the players of the lobby relay see and reach: early lists are      *)
(* swallowed and nothing else is, a command reaches the character picked,  *)
(* no screen offers an id in use, what a list shows is in the file, no id  *)
(* stays on a deleted character, and a new one gets the id its client      *)
(* named.  For any number of members, each on one connection.              *)
(***************************************************************************)
EXTENDS LobbyProofs

(* The early list comes back within SWALLOW_TTL, LSB refuses no create,    *)
(* and clients name only ids their screens offer.                          *)
Steady == "expiry" \notin Faults /\ "refused create" \notin Faults /\ "unoffered id" \notin Faults

(* No member plays on two connections at once.                             *)
Alone == \A c, d \in Conn : MemberOf[c] = MemberOf[d] => c = d

----------------------------------------------------------------------------
(* The wire of a connection.                                               *)

(* Is a command on its way, a list being rewritten, one to be swallowed, a *)
(* reply awaited: one of each, or none.                                    *)
Sent(c) == IF toLsb[c].cmd # "none" THEN 1 ELSE 0
Working(c) == IF job[c].stage # "idle" THEN 1 ELSE 0
Early(c) == IF swallow[c] = "fresh" THEN 1 ELSE 0
Asking(c) == IF asked[c].cmd # "none" THEN 1 ELSE 0

(* The lists and replies the bridge still has to deal with, and what they  *)
(* are due to: an early list to swallow, and a command of the client's.    *)
Busy(c) == Len(fromLsb[c]) + request[c] + Sent(c) + Working(c)
Due(c) == Early(c) + Asking(c)

Waiting(c) == 1 .. Len(fromLsb[c])

(* A client that asked for nothing, or for its list, has only lists to     *)
(* come, or one refusal of that list.                                      *)
Listing(c) ==
  /\ toLsb[c].cmd \in {"none", asked[c].cmd}
  /\ \A n \in Waiting(c) : fromLsb[c][n].what \in {"list", "refused"}
  /\ \A n \in Waiting(c) : fromLsb[c][n].what = "refused" =>
       /\ asked[c].cmd = "list" /\ toLsb[c].cmd = "none"
       /\ \A m \in Waiting(c) : fromLsb[c][m].what = "refused" => m = n

(* Any other command is on its way, or its reply is, alone.                *)
Awaiting(c) ==
  \/ toLsb[c].cmd = asked[c].cmd /\ fromLsb[c] = <<>>
  \/ /\ toLsb[c].cmd = "none" /\ Len(fromLsb[c]) = 1
     /\ fromLsb[c][1].what # "list"
     /\ asked[c].cmd = "commit" => fromLsb[c][1].what = "done"

OpenOK(c) ==
  /\ Busy(c) <= Due(c)
  /\ swallow[c] = "fresh" => asked[c].cmd \in {"none", "list"} /\ view[c] = NoView
  /\ IF asked[c].cmd \in {"none", "list"} THEN Listing(c) ELSE Awaiting(c)
  /\ createPending[c] => asked[c].cmd = "commit"

(* Nobody is there to be shown or sent anything; a delete LSB has still to *)
(* rule on is not beside a list.                                           *)
ShutOK(c) ==
  /\ request[c] = 0 /\ fromLsb[c] = <<>> /\ asked[c] = NoCmd /\ view[c] = NoView
  /\ life[c] = "closed" => job[c].stage = "idle" /\ swallow[c] = "none" /\ ~createPending[c]
  /\ toLsb[c].cmd = "delete" => job[c].stage = "idle"

WireOK(c) == swallow[c] # "stale" /\ IF life[c] = "open" THEN OpenOK(c) ELSE ShutOK(c)

Wires == \A c \in Conn : WireOK(c)

----------------------------------------------------------------------------
(* A step of one connection leaves the others'.                            *)

(* What the bridge, LSB and the client keep for a connection.              *)
Same(d) ==
  /\ life'[d] = life[d] /\ createPending'[d] = createPending[d] /\ swallow'[d] = swallow[d]
  /\ pendingCreate'[d] = pendingCreate[d] /\ job'[d] = job[d]
  /\ toLsb'[d] = toLsb[d] /\ request'[d] = request[d] /\ fromLsb'[d] = fromLsb[d]
  /\ asked'[d] = asked[d] /\ view'[d] = view[d]

ActsOn(c) ==
  Player(c) \/ LsbView(c) \/ LsbCharList(c) \/ Relay(c) \/ CompanionDies(c) \/ Expire(c)

(* A step of connection c leaves every other one as it was.                *)
LEMMA OthersSame ==
  ASSUME TypeOK, NEW c \in Conn, ActsOn(c), NEW d \in Conn, d # c
  PROVE  Same(d)
<1>1. CASE Connect(c) \/ HangUp(c) \/ BlockCreate(c) \/ Teardown(c)
  BY <1>1 DEF Connect, HangUp, BlockCreate, Drop, Teardown, Same, bridgeVars, clientVars,
              wireVars, TypeOK, BridgeTypeOK, WorldTypeOK
<1>2. CASE AskList(c) \/ NameCheck(c) \/ Commit(c) \/ Select(c) \/ Delete(c)
  BY <1>2 DEF AskList, NameCheck, Commit, RecordNamed, Select, Delete, Send, Same, bridgeVars,
              TypeOK, BridgeTypeOK, WorldTypeOK
<1>3. CASE LsbView(c)
  BY <1>3 DEF LsbView, LsbList, LsbCheck, LsbCreate, LsbDelete, LsbSelect, Answer, Same,
              bridgeVars, clientVars, TypeOK, BridgeTypeOK, WorldTypeOK
<1>4. CASE LsbCharList(c) \/ CompanionDies(c) \/ Expire(c)
  BY <1>4 DEF LsbCharList, CompanionDies, Expire, Same, bridgeVars, clientVars, wireVars,
              TypeOK, BridgeTypeOK, WorldTypeOK
<1>5. CASE RelayDone(c) \/ RelayRefused(c) \/ RelayHandoff(c) \/ StartList(c)
  BY <1>5 DEF RelayDone, RelayRefused, RelayHandoff, StartList, Relaying, Refresh, Same,
              bridgeVars, clientVars, TypeOK, BridgeTypeOK, WorldTypeOK
<1>6. CASE TakePrefer(c) \/ PairSlot(c) \/ NoteSlot(c) \/ ReadSpent(c)
  BY <1>6 DEF TakePrefer, PairSlot, NoteSlot, ReadSpent, JobFrame, Same,
              clientVars, wireVars, TypeOK, BridgeTypeOK, WorldTypeOK
<1>7. CASE FinishList(c)
  BY <1>7 DEF FinishList, ListDone, Deliver, Same,
              clientVars, wireVars, TypeOK, BridgeTypeOK, WorldTypeOK
<1>. QED
  BY <1>1, <1>2, <1>3, <1>4, <1>5, <1>6, <1>7 DEF ActsOn, Player, Relay

(* A wire that nothing of changed is as it was.                            *)
LEMMA SameWire ==
  ASSUME NEW d \in Conn, WireOK(d), Same(d)
  PROVE  WireOK(d)'
BY DEF WireOK, OpenOK, ShutOK, Listing, Awaiting, Busy, Due, Sent, Working, Early, Asking, Waiting, Same

----------------------------------------------------------------------------
(* The wire, step by step.                                                 *)

(* What a wire consists of.                                                *)
LEMMA WireTyped ==
  ASSUME TypeOK, NEW c \in Conn
  PROVE  /\ fromLsb[c] \in Seq(Replies) /\ Len(fromLsb[c]) \in Nat /\ request[c] \in Nat
         /\ (fromLsb[c] = <<>>) <=> (Len(fromLsb[c]) = 0)
         /\ \A n \in Waiting(c) : fromLsb[c][n] \in Replies
BY DEF TypeOK, WorldTypeOK, Waiting

(* The fields of commands.                                                 *)
LEMMA CommandFields ==
  /\ NoCmd.cmd = "none"
  /\ \A cmd, k, i : Cmd(cmd, k, i).cmd = cmd /\ Cmd(cmd, k, i).char = k /\ Cmd(cmd, k, i).id = i
BY DEF NoCmd, Cmd

(* Nothing is under way for a client that sees a screen and asks nothing.  *)
LEMMA Quiet ==
  ASSUME TypeOK, NEW c \in Conn, WireOK(c), life[c] = "open",
         asked[c].cmd = "none", view[c] # NoView
  PROVE  /\ toLsb[c].cmd = "none" /\ fromLsb[c] = <<>> /\ request[c] = 0
         /\ job[c].stage = "idle" /\ swallow[c] # "fresh"
<1>1. /\ Len(fromLsb[c]) \in Nat /\ request[c] \in Nat
      /\ (fromLsb[c] = <<>>) <=> (Len(fromLsb[c]) = 0)
  BY WireTyped
<1>2. swallow[c] # "fresh" /\ Busy(c) <= Due(c)
  BY DEF WireOK, OpenOK
<1>3. Due(c) = 0
  BY <1>2 DEF Due, Early, Asking
<1>4. Sent(c) \in Nat /\ Working(c) \in Nat
  BY DEF Sent, Working
<1>5. Len(fromLsb[c]) = 0 /\ request[c] = 0 /\ Sent(c) = 0 /\ Working(c) = 0
  BY <1>1, <1>2, <1>3, <1>4 DEF Busy
<1>6. toLsb[c].cmd = "none" /\ job[c].stage = "idle"
  BY <1>5 DEF Sent, Working
<1>. QED
  BY <1>1, <1>2, <1>5, <1>6

(* A client that names only ids its screen offers.                         *)
LEMMA SteadyNames ==
  ASSUME "unoffered id" \notin Faults, NEW c \in Conn
  PROVE  Nameable(c) = view[c].offer
<1>1. (IF "unoffered id" \in Faults
         THEN {NoId} \cup (IF view[c].offer = {} THEN Pool[SignedIn[c]] ELSE {}) ELSE {}) = {}
  BY Zenon
<1>. QED
  BY <1>1 DEF Nameable

(* A client that names an id or picks a character sees a screen.           *)
LEMMA NamesFromScreen ==
  ASSUME Steady, NEW c \in Conn, Nameable(c) # {} \/ view[c].listed # {}
  PROVE  view[c] # NoView
<1>1. "unoffered id" \notin Faults
  BY Zenon DEF Steady
<1>2. Nameable(c) = view[c].offer
  BY <1>1, SteadyNames
<1>3. NoView.offer = {} /\ NoView.listed = {}
  BY DEF NoView
<1>. QED
  BY <1>2, <1>3

(* A command sent: it is the one thing under way, beside an early list.    *)
LEMMA SendWire ==
  ASSUME TypeOK, NEW c \in Conn, WireOK(c), MayAsk(c),
         NEW cmd \in CommandKinds, NEW k, NEW i, NEW k2, Send(c, cmd, k, i, k2),
         cmd = "list" \/ view[c] # NoView,
         swallow' = swallow, job' = job,
         createPending'[c] => cmd = "commit" \/ createPending[c]
  PROVE  WireOK(c)'
<1>1. /\ life[c] = "open" /\ life'[c] = "open" /\ asked[c].cmd = "none"
      /\ asked'[c].cmd = cmd /\ toLsb'[c].cmd = cmd
      /\ request'[c] = request[c] /\ fromLsb'[c] = fromLsb[c] /\ view'[c] = view[c]
      /\ swallow'[c] = swallow[c] /\ job'[c] = job[c]
  BY CommandFields DEF MayAsk, Send, TypeOK, BridgeTypeOK, WorldTypeOK
<1>2. OpenOK(c) /\ swallow[c] # "stale"
  BY <1>1 DEF WireOK
<1>3. ~createPending[c] /\ toLsb[c].cmd = "none" /\ Listing(c)
  BY <1>1, <1>2 DEF OpenOK, Listing
<1>4. Busy(c)' <= Due(c)'
  BY <1>1, <1>2, <1>3, WireTyped DEF OpenOK, Busy, Due, Sent, Working, Early, Asking, CommandKinds
<1>5. CASE cmd = "list"
  <2>1. Listing(c)'
    BY <1>1, <1>3, <1>5 DEF Listing, Waiting
  <2>. QED
    BY <1>1, <1>2, <1>3, <1>4, <1>5, <2>1 DEF WireOK, OpenOK
<1>6. CASE cmd # "list"
  <2>1. fromLsb[c] = <<>> /\ swallow[c] # "fresh"
    BY <1>1, <1>6, Quiet
  <2>2. Awaiting(c)'
    BY <1>1, <2>1 DEF Awaiting
  <2>. QED
    BY <1>1, <1>2, <1>3, <1>4, <1>6, <2>1, <2>2 DEF WireOK, OpenOK, CommandKinds
<1>. QED
  BY <1>5, <1>6

(* A connection dropped.                                                   *)
LEMMA DropWire ==
  ASSUME TypeOK, NEW c \in Conn, WireOK(c), Drop(c)
  PROVE  WireOK(c)'
<1>1. /\ life[c] = "open" /\ life'[c] = "closing" /\ fromLsb'[c] = <<>> /\ request'[c] = 0
      /\ view'[c] = NoView /\ asked'[c] = NoCmd
      /\ swallow'[c] = swallow[c] /\ job'[c] = job[c] /\ toLsb'[c] = toLsb[c]
  BY DEF Drop, bridgeVars, TypeOK, BridgeTypeOK, WorldTypeOK
<1>2. OpenOK(c) /\ swallow[c] # "stale"
  BY <1>1 DEF WireOK
<1>3. toLsb[c].cmd = "delete" => job[c].stage = "idle"
  <2>. SUFFICES ASSUME toLsb[c].cmd = "delete" PROVE job[c].stage = "idle"
    OBVIOUS
  <2>1. asked[c].cmd \notin {"none", "list"}
    BY <1>2 DEF OpenOK, Listing
  <2>2. swallow[c] # "fresh"
    BY <1>2, <2>1 DEF OpenOK
  <2>. QED
    BY <1>2, <2>2, WireTyped DEF OpenOK, Busy, Due, Sent, Working, Early, Asking
<1>. QED
  BY <1>1, <1>2, <1>3 DEF WireOK, ShutOK

(* Whatever a player does.                                                 *)
LEMMA PlayerWire ==
  ASSUME Steady, TypeOK, NEW c \in Conn, WireOK(c), Player(c)
  PROVE  WireOK(c)'
<1>1. CASE Connect(c)
  <2>1. /\ life[c] = "closed" /\ life'[c] = "open" /\ toLsb'[c] = NoCmd
        /\ request'[c] = request[c] /\ fromLsb'[c] = fromLsb[c] /\ view'[c] = view[c]
        /\ asked'[c] = asked[c] /\ swallow'[c] = swallow[c] /\ job'[c] = job[c]
        /\ createPending'[c] = createPending[c]
    BY <1>1 DEF Connect, bridgeVars, clientVars, TypeOK, BridgeTypeOK, WorldTypeOK
  <2>2. ShutOK(c) /\ swallow[c] # "stale"
    BY <2>1 DEF WireOK
  <2>3. /\ request[c] = 0 /\ fromLsb[c] = <<>> /\ asked[c].cmd = "none" /\ job[c].stage = "idle"
        /\ swallow[c] = "none" /\ ~createPending[c]
    BY <2>1, <2>2, CommandFields DEF ShutOK
  <2>. QED
    BY <2>1, <2>3, CommandFields DEF WireOK, OpenOK, Busy, Due, Sent, Working, Early, Asking, Listing, Waiting
<1>2. CASE HangUp(c) \/ BlockCreate(c)
  BY <1>2, DropWire DEF HangUp, BlockCreate
<1>3. CASE AskList(c)
  BY <1>3, SendWire DEF AskList, bridgeVars, CommandKinds
<1>4. CASE NameCheck(c)
  <2>1. PICK i \in Nameable(c) : Send(c, "check", NoChar, i, NoChar)
    BY <1>4 DEF NameCheck
  <2>2. view[c] # NoView
    BY <2>1, NamesFromScreen
  <2>. QED
    BY <1>4, <2>1, <2>2, SendWire DEF NameCheck, CommandKinds
<1>5. CASE Commit(c)
  <2>1. PICK i \in Nameable(c) : Send(c, "commit", NoChar, i, NoChar)
    BY <1>5 DEF Commit
  <2>2. view[c] # NoView
    BY <2>1, NamesFromScreen
  <2>. QED
    BY <1>5, <2>1, <2>2, SendWire DEF Commit, CommandKinds
<1>6. CASE Select(c)
  <2>1. PICK k \in view[c].listed : Send(c, "select", k, NoId, Translate(c, k))
    BY <1>6 DEF Select
  <2>2. view[c] # NoView
    BY <2>1, NamesFromScreen
  <2>. QED
    BY <1>6, <2>1, <2>2, SendWire DEF Select, bridgeVars, CommandKinds
<1>7. CASE Delete(c)
  <2>1. PICK k \in view[c].listed : Send(c, "delete", k, NoId, Translate(c, k))
    BY <1>7 DEF Delete
  <2>2. view[c] # NoView
    BY <2>1, NamesFromScreen
  <2>. QED
    BY <1>7, <2>1, <2>2, SendWire DEF Delete, bridgeVars, CommandKinds
<1>. QED
  BY <1>1, <1>2, <1>3, <1>4, <1>5, <1>6, <1>7 DEF Player

(* A queue of replies with one more, or without its oldest.                *)
LEMMA QueueFacts ==
  ASSUME NEW q \in Seq(Replies)
  PROVE  /\ Len(q) \in Nat /\ (q = <<>> <=> Len(q) = 0)
         /\ \A r \in Replies :
              /\ Append(q, r) \in Seq(Replies) /\ Len(Append(q, r)) = Len(q) + 1
              /\ \A n \in 1 .. Len(q) : Append(q, r)[n] = q[n]
              /\ Append(q, r)[Len(q) + 1] = r
         /\ q # <<>> =>
              /\ Tail(q) \in Seq(Replies) /\ Len(Tail(q)) = Len(q) - 1 /\ Head(q) = q[1]
              /\ \A n \in 1 .. Len(q) - 1 : Tail(q)[n] = q[n + 1]
OBVIOUS

(* The numbers that make up Busy and Due.                                  *)
LEMMA CountsTyped ==
  /\ \A c : Sent(c) \in {0, 1} /\ Working(c) \in {0, 1} /\ Early(c) \in {0, 1} /\ Asking(c) \in {0, 1}
  /\ \A c : /\ Sent(c) = 0 <=> toLsb[c].cmd = "none"
            /\ Working(c) = 0 <=> job[c].stage = "idle"
            /\ Early(c) = 1 <=> swallow[c] = "fresh"
            /\ Asking(c) = 0 <=> asked[c].cmd = "none"
BY DEF Sent, Working, Early, Asking

(* LSB answers a command: its reply takes the command's place.             *)
LEMMA AnswerKeepsWire ==
  ASSUME TypeOK, NEW c \in Conn, WireOK(c), toLsb[c].cmd # "none",
         NEW r \in Replies, Answer(c, r),
         toLsb[c].cmd = "list" => r.what \in {"list", "refused"},
         toLsb[c].cmd # "list" => r.what # "list",
         toLsb[c].cmd = "commit" => r.what = "done"
  PROVE  WireOK(c)'
<1>1. /\ life' = life /\ request' = request /\ asked' = asked /\ view' = view
      /\ swallow' = swallow /\ job' = job /\ createPending' = createPending
      /\ toLsb'[c].cmd = "none"
      /\ fromLsb'[c] = IF life[c] = "open" THEN Append(fromLsb[c], r) ELSE fromLsb[c]
  BY CommandFields DEF Answer, bridgeVars, clientVars, TypeOK, WorldTypeOK
<1>2. CASE life[c] # "open"
  BY <1>1, <1>2 DEF WireOK, ShutOK
<1>3. CASE life[c] = "open"
  <2> DEFINE q == fromLsb[c]
  <2>1. q \in Seq(Replies)
    BY DEF TypeOK, WorldTypeOK
  <2>2. OpenOK(c) /\ swallow[c] # "stale"
    BY <1>3 DEF WireOK
  <2>3. /\ fromLsb'[c] = Append(q, r) /\ Len(Append(q, r)) = Len(q) + 1
        /\ \A n \in 1 .. Len(q) : Append(q, r)[n] = q[n]
        /\ Append(q, r)[Len(q) + 1] = r /\ Len(q) \in Nat
    BY <1>1, <1>3, <2>1, QueueFacts
  <2>4. Busy(c)' <= Due(c)'
    <3>1. Busy(c)' = Busy(c) /\ Due(c)' = Due(c)
      <4>1. Sent(c) = 1 /\ Sent(c)' = 0
        BY <1>1 DEF Sent
      <4>2. Working(c)' = Working(c) /\ Early(c)' = Early(c) /\ Asking(c)' = Asking(c)
        BY <1>1 DEF Working, Early, Asking
      <4>3. request[c] \in Nat /\ Working(c) \in Nat
        BY WireTyped, CountsTyped
      <4>. QED
        BY <1>1, <2>3, <4>1, <4>2, <4>3 DEF Busy, Due
    <3>. QED
      BY <2>2, <3>1 DEF OpenOK
  <2>5. CASE asked[c].cmd \in {"none", "list"}
    <3>1. Listing(c) /\ toLsb[c].cmd = "list" /\ asked[c].cmd = "list"
      BY <2>2, <2>5 DEF OpenOK, Listing
    <3>2. \A n \in 1 .. Len(q) : q[n].what = "list"
      BY <3>1 DEF Listing, Waiting
    <3>3. Listing(c)'
      <4>1. \A n \in 1 .. Len(q) + 1 : /\ n # Len(q) + 1 => Append(q, r)[n].what = "list"
                                       /\ n = Len(q) + 1 => Append(q, r)[n].what \in {"list", "refused"}
        BY <2>3, <3>1, <3>2
      <4>. HIDE DEF q
      <4>. QED
        BY <1>1, <2>3, <3>1, <4>1 DEF Listing, Waiting
    <3>. QED
      BY <1>1, <1>3, <2>2, <2>4, <2>5, <3>3 DEF WireOK, OpenOK
  <2>6. CASE asked[c].cmd \notin {"none", "list"}
    <3>1. toLsb[c].cmd = asked[c].cmd /\ q = <<>>
      BY <2>2, <2>6 DEF OpenOK, Awaiting
    <3>2. Len(Append(q, r)) = 1 /\ Append(q, r)[1] = r
      BY <2>3, <3>1
    <3>3. Awaiting(c)'
      BY <1>1, <2>3, <2>6, <3>1, <3>2 DEF Awaiting
    <3>. QED
      BY <1>1, <1>3, <2>2, <2>4, <2>6, <3>3 DEF WireOK, OpenOK
  <2>. QED
    BY <2>5, <2>6
<1>. QED
  BY <1>2, <1>3

(* Whatever LSB answers, and the loss of a data session.                   *)
LEMMA LsbWire ==
  ASSUME Steady, TypeOK, NEW c \in Conn, WireOK(c),
         LsbView(c) \/ LsbCharList(c) \/ CompanionDies(c) \/ Expire(c)
  PROVE  WireOK(c)'
<1>1. CASE LsbList(c)
  <2>1. PICK what \in {"list", "refused"}, chars \in SUBSET CharId : Answer(c, Reply(what, chars))
    BY <1>1, OwnedTyped DEF LsbList, TypeOK
  <2>2. Reply(what, chars) \in Replies /\ Reply(what, chars).what = what
    BY DEF Reply, Replies
  <2>. QED
    BY <1>1, <2>1, <2>2, AnswerKeepsWire DEF LsbList
<1>2. CASE LsbCheck(c) \/ LsbCreate(c) \/ LsbDelete(c) \/ LsbSelect(c)
  <2>1. PICK what \in {"done", "refused", "handoff"}, chars \in SUBSET CharId :
          /\ Answer(c, Reply(what, chars))
          /\ toLsb[c].cmd = "commit" => what = "done"
    <3>1. CASE LsbSelect(c)
      <4>1. toLsb[c].char \in Owned(MemberOf[c]) => {toLsb[c].char} \in SUBSET CharId
        BY OwnedTyped DEF TypeOK
      <4>. QED
        BY <3>1, <4>1 DEF LsbSelect
    <3>2. CASE LsbCreate(c)
      <4>1. Answer(c, Reply("done", {}))
        BY <3>2, Zenon DEF LsbCreate, Steady
      <4>. QED
        BY <4>1
    <3>3. CASE LsbCheck(c) \/ LsbDelete(c)
      <4>1. Answer(c, Reply("done", {})) \/ Answer(c, Reply("refused", {}))
        BY <3>3, Zenon DEF LsbCheck, LsbDelete
      <4>2. toLsb[c].cmd # "commit"
        BY <3>3 DEF LsbCheck, LsbDelete
      <4>. QED
        BY <4>1, <4>2
    <3>. QED
      BY <1>2, <3>1, <3>2, <3>3
  <2>2. Reply(what, chars) \in Replies /\ Reply(what, chars).what = what
    BY DEF Reply, Replies
  <2>3. toLsb[c].cmd \notin {"none", "list"}
    BY <1>2 DEF LsbCheck, LsbCreate, LsbDelete, LsbSelect
  <2>. QED
    BY <2>1, <2>2, <2>3, AnswerKeepsWire
<1>3. CASE LsbCharList(c)
  <2> DEFINE q == fromLsb[c]
             r == Reply("list", Owned(MemberOf[c]))
  <2>1. q \in Seq(Replies) /\ r \in Replies /\ r.what = "list" /\ request[c] \in Nat
    BY OwnedTyped DEF TypeOK, WorldTypeOK, Reply, Replies
  <2>. HIDE DEF r
  <2>2. /\ fromLsb'[c] = Append(q, r) /\ request'[c] = request[c] - 1 /\ request[c] > 0
        /\ toLsb' = toLsb /\ life' = life /\ asked' = asked /\ view' = view
        /\ swallow' = swallow /\ job' = job /\ createPending' = createPending
    BY <1>3 DEF LsbCharList, bridgeVars, clientVars, TypeOK, WorldTypeOK, r
  <2>3. life[c] = "open" /\ OpenOK(c) /\ swallow[c] # "stale"
    BY <2>2 DEF WireOK, ShutOK
  <2>4. /\ Len(Append(q, r)) = Len(q) + 1
        /\ \A n \in 1 .. Len(q) : Append(q, r)[n] = q[n]
        /\ Append(q, r)[Len(q) + 1] = r /\ Len(q) \in Nat
    BY <2>1, QueueFacts
  <2>5. Busy(c)' <= Due(c)'
    <3>1. /\ Sent(c)' = Sent(c) /\ Working(c)' = Working(c)
          /\ Early(c)' = Early(c) /\ Asking(c)' = Asking(c)
      BY <2>2 DEF Sent, Working, Early, Asking
    <3>2. Sent(c) \in Nat /\ Working(c) \in Nat
      BY CountsTyped
    <3>3. Due(c)' = Due(c)
      BY <3>1 DEF Due
    <3>4. Len(fromLsb'[c]) + request'[c] = Len(q) + request[c]
      BY <2>1, <2>2, <2>4
    <3>5. Busy(c)' = Busy(c)
      BY <3>1, <3>4 DEF Busy
    <3>. QED
      BY <2>3, <3>3, <3>5 DEF OpenOK
  <2>6. asked[c].cmd \in {"none", "list"}
    <3>. SUFFICES ASSUME asked[c].cmd \notin {"none", "list"} PROVE FALSE
      OBVIOUS
    <3>1. Awaiting(c) /\ swallow[c] # "fresh" /\ Busy(c) <= Due(c)
      BY <2>3 DEF OpenOK
    <3>2. Early(c) = 0 /\ Asking(c) \in {0, 1} /\ Working(c) \in Nat /\ Sent(c) \in Nat
      BY <3>1, CountsTyped DEF Early
    <3>3. Sent(c) = 1 \/ Len(q) = 1
      BY <3>1 DEF Awaiting, Sent
    <3>. QED
      BY <2>1, <2>2, <2>4, <3>1, <3>2, <3>3 DEF Busy, Due
  <2>7. Listing(c)'
    <3>1. Listing(c)
      BY <2>3, <2>6 DEF OpenOK
    <3>2. \A n \in 1 .. Len(q) + 1 : n \in 1 .. Len(q) \/ n = Len(q) + 1
      BY <2>4
    <3>. HIDE DEF q
    <3>. QED
      BY <2>1, <2>2, <2>4, <3>1, <3>2 DEF Listing, Waiting, q
  <2>. QED
    BY <2>2, <2>3, <2>5, <2>6, <2>7 DEF WireOK, OpenOK
<1>4. CASE CompanionDies(c)
  <2>1. /\ request'[c] = 0 /\ fromLsb' = fromLsb /\ life' = life /\ asked' = asked /\ view' = view
        /\ swallow' = swallow /\ job' = job /\ createPending' = createPending
        /\ toLsb'[c] = toLsb[c] \/ (toLsb[c].cmd = "list" /\ toLsb'[c].cmd = "none")
    BY <1>4, CommandFields DEF CompanionDies, bridgeVars, clientVars, TypeOK, WorldTypeOK
  <2>2. CASE life[c] # "open"
    BY <2>1, <2>2 DEF WireOK, ShutOK
  <2>3. CASE life[c] = "open"
    <3>1. OpenOK(c) /\ swallow[c] # "stale"
      BY <2>3 DEF WireOK
    <3>2. Busy(c)' <= Due(c)'
      <4>1. Sent(c)' <= Sent(c) /\ Sent(c)' \in Nat
        BY <2>1 DEF Sent
      <4>2. Working(c)' = Working(c) /\ Due(c)' = Due(c)
        BY <2>1 DEF Working, Due, Early, Asking
      <4>3. /\ Sent(c) \in Nat /\ Working(c) \in Nat /\ Due(c) \in Nat
            /\ request[c] \in Nat /\ Len(fromLsb[c]) \in Nat
        BY WireTyped, CountsTyped DEF Due
      <4>. QED
        BY <2>1, <3>1, <4>1, <4>2, <4>3 DEF OpenOK, Busy
    <3>3. asked[c].cmd \in {"none", "list"} => Listing(c)'
      BY <2>1, <3>1 DEF OpenOK, Listing, Waiting
    <3>4. asked[c].cmd \notin {"none", "list"} => Awaiting(c)'
      BY <2>1, <3>1 DEF OpenOK, Awaiting
    <3>. QED
      BY <2>1, <2>3, <3>1, <3>2, <3>3, <3>4 DEF WireOK, OpenOK
  <2>. QED
    BY <2>2, <2>3
<1>5. CASE Expire(c)
  BY <1>5 DEF Expire, Steady
<1>. QED
  BY <1>1, <1>2, <1>3, <1>4, <1>5 DEF LsbView

(* The s->c pump takes the oldest reply.                                   *)
LEMMA RelayingFacts ==
  ASSUME TypeOK, NEW c \in Conn, WireOK(c), NEW what, Relaying(c, what)
  PROVE  /\ life[c] = "open" /\ OpenOK(c) /\ swallow[c] # "stale"
         /\ job[c].stage = "idle" /\ Working(c) = 0
         /\ Len(fromLsb[c]) \in Nat \ {0} /\ fromLsb[c][1].what = what
         /\ Len(fromLsb'[c]) = Len(fromLsb[c]) - 1
         /\ \A n \in 1 .. Len(fromLsb'[c]) : fromLsb'[c][n] = fromLsb[c][n + 1]
<1>1. /\ life[c] = "open" /\ job[c].stage = "idle" /\ fromLsb[c] # <<>>
      /\ Head(fromLsb[c]).what = what /\ fromLsb'[c] = Tail(fromLsb[c])
      /\ fromLsb[c] \in Seq(Replies)
  BY DEF Relaying, NextReply, TypeOK, WorldTypeOK
<1>2. OpenOK(c) /\ swallow[c] # "stale"
  BY <1>1 DEF WireOK
<1>3. /\ Len(fromLsb[c]) \in Nat \ {0} /\ Head(fromLsb[c]) = fromLsb[c][1]
      /\ Len(fromLsb'[c]) = Len(fromLsb[c]) - 1
      /\ \A n \in 1 .. Len(fromLsb[c]) - 1 : fromLsb'[c][n] = fromLsb[c][n + 1]
  BY <1>1, QueueFacts
<1>. QED
  BY <1>1, <1>2, <1>3 DEF Working

(* The reply of a check, a commit, a select or a delete is alone.          *)
LEMMA LastReply ==
  ASSUME TypeOK, NEW c \in Conn, OpenOK(c), Len(fromLsb[c]) \in Nat \ {0},
         asked[c].cmd \notin {"none", "list"}
  PROVE  /\ Len(fromLsb[c]) = 1 /\ fromLsb[c][1].what # "list"
         /\ request[c] = 0 /\ Sent(c) = 0 /\ Working(c) = 0
         /\ asked[c].cmd = "commit" => fromLsb[c][1].what = "done"
         /\ swallow[c] # "fresh"
<1>1. Awaiting(c) /\ swallow[c] # "fresh" /\ Busy(c) <= Due(c)
  BY DEF OpenOK
<1>2. /\ Len(fromLsb[c]) = 1 /\ fromLsb[c][1].what # "list"
      /\ asked[c].cmd = "commit" => fromLsb[c][1].what = "done"
  BY <1>1 DEF Awaiting
<1>3. /\ Early(c) = 0 /\ Asking(c) \in {0, 1} /\ Working(c) \in {0, 1} /\ Sent(c) \in {0, 1}
      /\ request[c] \in Nat
  BY <1>1, CountsTyped, WireTyped DEF Early
<1>4. request[c] = 0 /\ Sent(c) = 0 /\ Working(c) = 0
  BY <1>1, <1>2, <1>3 DEF Busy, Due
<1>. QED
  BY <1>1, <1>2, <1>4

(* 0x03.  If it acknowledges a create, the early list goes out with no     *)
(* screen to disturb.                                                      *)
LEMMA DoneWire ==
  ASSUME TypeOK, NEW c \in Conn, WireOK(c), RelayDone(c)
  PROVE  WireOK(c)'
<1>1. /\ OpenOK(c) /\ swallow[c] # "stale" /\ fromLsb[c][1].what = "done"
      /\ Len(fromLsb[c]) \in Nat \ {0} /\ Len(fromLsb'[c]) = Len(fromLsb[c]) - 1
      /\ job[c].stage = "idle" /\ life[c] = "open"
  BY RelayingFacts DEF RelayDone
<1>2. asked[c].cmd \notin {"none", "list"}
  BY <1>1 DEF OpenOK, Listing, Waiting
<1>3. /\ Len(fromLsb[c]) = 1 /\ request[c] = 0 /\ Sent(c) = 0 /\ swallow[c] # "fresh"
  BY <1>1, <1>2, LastReply
<1>4. /\ life'[c] = "open" /\ job'[c].stage = "idle" /\ toLsb'[c].cmd = "none"
      /\ asked'[c].cmd = "none" /\ Len(fromLsb'[c]) = 0 /\ ~createPending'[c]
  BY <1>1, <1>3, CommandFields DEF RelayDone, TypeOK, BridgeTypeOK, WorldTypeOK, Sent
<1>5. \/ request'[c] = 0 /\ swallow'[c] = swallow[c]
      \/ request'[c] = 1 /\ swallow'[c] = "fresh" /\ view'[c] = NoView
  <2>1. CASE UNCHANGED <<swallow, request>>
    BY <1>3, <2>1
  <2>2. CASE createPending[c] /\ swallow' = [swallow EXCEPT ![c] = "fresh"]
             /\ request' = [request EXCEPT ![c] = @ + 1]
    <3>1. asked[c].cmd = "commit"
      BY <1>1, <2>2 DEF OpenOK
    <3>2. view'[c] = NoView
      BY <3>1 DEF RelayDone, ScreenAfter, TypeOK, WorldTypeOK
    <3>. QED
      BY <1>3, <2>2, <3>2 DEF TypeOK, BridgeTypeOK, WorldTypeOK
  <2>. QED
    BY <2>1, <2>2 DEF RelayDone, Refresh
<1>6. /\ Busy(c)' = request'[c] /\ Due(c)' = Early(c)'
      /\ Listing(c)'
  BY <1>4, <1>5 DEF Busy, Due, Sent, Working, Asking, Early, Listing, Waiting
<1>7. Busy(c)' <= Due(c)'
  BY <1>3, <1>5, <1>6 DEF Early
<1>. QED
  BY <1>1, <1>3, <1>4, <1>5, <1>6, <1>7 DEF WireOK, OpenOK

(* 0x04 and 0x0B answer the command the client waits for.                  *)
LEMMA EndWire ==
  ASSUME TypeOK, NEW c \in Conn, WireOK(c), RelayRefused(c) \/ RelayHandoff(c)
  PROVE  WireOK(c)'
<1>1. PICK what \in {"refused", "handoff"} : Relaying(c, what)
  BY DEF RelayRefused, RelayHandoff
<1>2. /\ OpenOK(c) /\ swallow[c] # "stale" /\ fromLsb[c][1].what = what
      /\ Len(fromLsb[c]) \in Nat \ {0} /\ Len(fromLsb'[c]) = Len(fromLsb[c]) - 1
      /\ \A n \in 1 .. Len(fromLsb'[c]) : fromLsb'[c][n] = fromLsb[c][n + 1]
      /\ job[c].stage = "idle" /\ Working(c) = 0 /\ life[c] = "open"
  BY <1>1, RelayingFacts
<1>3. /\ life'[c] = "open" /\ toLsb' = toLsb /\ request' = request /\ swallow' = swallow
      /\ job' = job /\ view' = view /\ createPending' = createPending /\ asked'[c].cmd = "none"
  BY <1>2, CommandFields DEF RelayRefused, RelayHandoff, bridgeVars, TypeOK, WorldTypeOK
<1>4. /\ asked[c].cmd # "none" /\ asked[c].cmd # "commit" /\ toLsb[c].cmd = "none"
      /\ \A n \in 1 .. Len(fromLsb'[c]) : fromLsb'[c][n].what = "list"
  <2>1. CASE asked[c].cmd \in {"none", "list"}
    <3>1. Listing(c)
      BY <1>2, <2>1 DEF OpenOK
    <3>2. asked[c].cmd = "list" /\ toLsb[c].cmd = "none"
      BY <1>2, <3>1 DEF Listing, Waiting
    <3>3. \A n \in 1 .. Len(fromLsb[c]) - 1 : fromLsb[c][n + 1].what = "list"
      <4>. TAKE n \in 1 .. Len(fromLsb[c]) - 1
      <4>1. n + 1 \in Waiting(c) /\ 1 \in Waiting(c) /\ n + 1 # 1
        BY <1>2 DEF Waiting
      <4>2. what = "refused"
        BY <1>2, <3>1, <4>1 DEF Listing
      <4>. QED
        BY <1>2, <3>1, <4>1, <4>2 DEF Listing
    <3>. QED
      BY <1>2, <3>2, <3>3
  <2>2. CASE asked[c].cmd \notin {"none", "list"}
    <3>1. Len(fromLsb[c]) = 1 /\ Sent(c) = 0 /\ asked[c].cmd # "commit"
      BY <1>2, <2>2, LastReply
    <3>. QED
      BY <1>2, <2>2, <3>1 DEF Sent
  <2>. QED
    BY <2>1, <2>2
<1>5. Busy(c)' <= Due(c)'
  <2>1. Sent(c)' = 0 /\ Sent(c) = 0 /\ Asking(c) = 1 /\ Asking(c)' = 0
        /\ Early(c)' = Early(c) /\ Working(c)' = 0
    BY <1>2, <1>3, <1>4 DEF Sent, Asking, Early, Working
  <2>2. Early(c) \in {0, 1} /\ request[c] \in Nat
    BY CountsTyped, WireTyped
  <2>3. Len(fromLsb[c]) + request[c] <= Early(c) + 1
    BY <1>2, <2>1, <2>2 DEF OpenOK, Busy, Due
  <2>. QED
    BY <1>2, <1>3, <2>1, <2>2, <2>3 DEF Busy, Due
<1>6. Listing(c)'
  BY <1>3, <1>4 DEF Listing, Waiting
<1>. QED
  BY <1>2, <1>3, <1>4, <1>5, <1>6 DEF WireOK, OpenOK

(* 0x20: a list starts for a client that sees none, or waits for one.      *)
LEMMA StartWire ==
  ASSUME TypeOK, NEW c \in Conn, WireOK(c), StartList(c)
  PROVE  WireOK(c)'
<1>1. /\ OpenOK(c) /\ swallow[c] # "stale" /\ fromLsb[c][1].what = "list"
      /\ Len(fromLsb[c]) \in Nat \ {0} /\ Len(fromLsb'[c]) = Len(fromLsb[c]) - 1
      /\ \A n \in 1 .. Len(fromLsb'[c]) : fromLsb'[c][n] = fromLsb[c][n + 1]
      /\ Working(c) = 0 /\ life[c] = "open"
  BY RelayingFacts DEF StartList
<1>2. asked[c].cmd \in {"none", "list"}
  BY <1>1, LastReply
<1>3. /\ life' = life /\ toLsb' = toLsb /\ request' = request /\ swallow' = swallow
      /\ asked' = asked /\ view' = view /\ createPending' = createPending
      /\ job'[c].stage = "slot"
  BY DEF StartList, Started, NoJob, clientVars, TypeOK, BridgeTypeOK
<1>4. Busy(c)' <= Due(c)'
  <2>1. Sent(c)' = Sent(c) /\ Due(c)' = Due(c) /\ Working(c)' = 1
    BY <1>3 DEF Sent, Due, Asking, Early, Working
  <2>2. Sent(c) \in Nat /\ request[c] \in Nat
    BY CountsTyped, WireTyped
  <2>3. Busy(c)' = Busy(c)
    BY <1>1, <1>3, <2>1, <2>2 DEF Busy
  <2>. QED
    BY <1>1, <2>1, <2>3 DEF OpenOK
<1>5. Listing(c)'
  <2>1. Listing(c)
    BY <1>1, <1>2 DEF OpenOK
  <2>2. \A n \in 1 .. Len(fromLsb'[c]) : n + 1 \in Waiting(c)
    BY <1>1 DEF Waiting
  <2>3. \A n, m \in 1 .. Len(fromLsb'[c]) : n + 1 = m + 1 => n = m
    BY <1>1
  <2>4. \A n \in 1 .. Len(fromLsb'[c]) : fromLsb'[c][n].what \in {"list", "refused"}
    BY <1>1, <2>1, <2>2 DEF Listing
  <2>5. \A n \in 1 .. Len(fromLsb'[c]) : fromLsb'[c][n].what = "refused" =>
          /\ asked[c].cmd = "list" /\ toLsb[c].cmd = "none"
          /\ \A m \in 1 .. Len(fromLsb'[c]) : fromLsb'[c][m].what = "refused" => m = n
    BY <1>1, <2>1, <2>2, <2>3 DEF Listing
  <2>. QED
    BY <1>3, <2>1, <2>4, <2>5 DEF Listing, Waiting
<1>. QED
  BY <1>1, <1>2, <1>3, <1>4, <1>5 DEF WireOK, OpenOK

(* A list whose job is done: of the client's own, or an early one.         *)
LEMMA ListAwaited ==
  ASSUME TypeOK, NEW c \in Conn, OpenOK(c), job[c].stage # "idle"
  PROVE  /\ asked[c].cmd \in {"none", "list"}
         /\ swallow[c] # "fresh" =>
              /\ asked[c].cmd = "list" /\ Len(fromLsb[c]) = 0 /\ request[c] = 0
              /\ toLsb[c].cmd = "none"
<1>1. /\ Len(fromLsb[c]) \in Nat /\ request[c] \in Nat /\ Working(c) = 1
      /\ Sent(c) \in {0, 1} /\ Early(c) \in {0, 1} /\ Asking(c) \in {0, 1}
  BY WireTyped, CountsTyped DEF Working
<1>2. Len(fromLsb[c]) + request[c] + Sent(c) + 1 <= Early(c) + Asking(c)
  BY <1>1 DEF OpenOK, Busy, Due
<1>3. asked[c].cmd \in {"none", "list"}
  <2>. SUFFICES ASSUME asked[c].cmd \notin {"none", "list"} PROVE FALSE
    OBVIOUS
  <2>1. Awaiting(c) /\ Early(c) = 0
    BY DEF OpenOK, Early
  <2>2. Sent(c) = 1 \/ Len(fromLsb[c]) = 1
    BY <2>1 DEF Awaiting, Sent
  <2>3. Sent(c) \in Nat /\ Asking(c) \in Nat /\ Asking(c) <= 1 /\ Early(c) = 0
    BY <1>1, <2>1
  <2>4. Len(fromLsb[c]) + request[c] + Sent(c) + 1 <= 1
    BY <1>1, <1>2, <2>3
  <2>. QED
    BY <1>1, <2>2, <2>3, <2>4
<1>4. ASSUME swallow[c] # "fresh"
      PROVE  Asking(c) = 1 /\ Len(fromLsb[c]) = 0 /\ request[c] = 0 /\ Sent(c) = 0
  <2>1. Early(c) = 0
    BY <1>4 DEF Early
  <2>. QED
    BY <1>1, <1>2, <2>1
<1>. QED
  BY <1>3, <1>4 DEF Asking, Sent

(* The list is done: one of ours is swallowed, or the client's reaches it. *)
LEMMA FinishWire ==
  ASSUME TypeOK, NEW c \in Conn, WireOK(c), FinishList(c)
  PROVE  WireOK(c)'
<1>1. /\ job[c].stage = "offer" /\ job'[c].stage = "idle" /\ swallow'[c] = "none"
      /\ life' = life /\ createPending' = createPending /\ toLsb' = toLsb
      /\ request' = request /\ fromLsb' = fromLsb
  BY Constants DEF FinishList, ListDone, wireVars, TypeOK, BridgeTypeOK
<1>2. CASE life[c] # "open"
  BY <1>1, <1>2 DEF WireOK, ShutOK, FinishList, clientVars
<1>3. CASE life[c] = "open"
  <2>1. OpenOK(c) /\ asked[c].cmd \in {"none", "list"} /\ Listing(c)
    BY <1>1, <1>3, ListAwaited DEF WireOK, OpenOK
  <2>2. /\ Sent(c)' = Sent(c) /\ Working(c) = 1 /\ Working(c)' = 0 /\ Early(c)' = 0
        /\ Len(fromLsb[c]) \in Nat /\ request[c] \in Nat /\ Sent(c) \in {0, 1}
        /\ Asking(c) \in {0, 1} /\ Asking(c)' \in {0, 1} /\ Early(c) \in {0, 1}
    BY <1>1, WireTyped, CountsTyped DEF Sent, Working, Early, Asking
  <2>3. CASE swallow[c] = "fresh"
    <3>1. UNCHANGED <<asked, view>>
      BY <2>3 DEF FinishList, clientVars
    <3>2. Asking(c)' = Asking(c) /\ Early(c) = 1
      BY <2>3, <3>1 DEF Asking, Early
    <3>3. Busy(c)' <= Due(c)'
      BY <1>1, <2>1, <2>2, <3>2 DEF OpenOK, Busy, Due
    <3>4. Listing(c)'
      BY <1>1, <2>1, <3>1 DEF Listing, Waiting
    <3>. QED
      BY <1>1, <1>3, <2>1, <3>1, <3>3, <3>4 DEF WireOK, OpenOK
  <2>4. CASE swallow[c] # "fresh"
    <3>1. /\ asked[c].cmd = "list" /\ Len(fromLsb[c]) = 0 /\ request[c] = 0
          /\ toLsb[c].cmd = "none"
      BY <1>1, <2>1, <2>4, ListAwaited
    <3>2. asked'[c].cmd = "none"
      BY <1>3, <2>4, <3>1, CommandFields DEF FinishList, Deliver, TypeOK, WorldTypeOK
    <3>3. Sent(c) = 0
      BY <3>1 DEF Sent
    <3>4. Busy(c)' = 0 /\ Due(c)' \in Nat
      BY <1>1, <2>2, <3>1, <3>3 DEF Busy, Due
    <3>5. Listing(c)'
      BY <1>1, <3>1 DEF Listing, Waiting
    <3>. QED
      BY <1>1, <1>3, <2>1, <3>1, <3>2, <3>4, <3>5 DEF WireOK, OpenOK
  <2>. QED
    BY <2>3, <2>4
<1>. QED
  BY <1>2, <1>3

(* What each stage makes of a job.                                         *)
LEMMA StartedFields ==
  ASSUME NEW chars
  PROVE  /\ Started(chars).stage = "slot" /\ Started(chars).todo = chars
         /\ Started(chars).char = NoChar /\ Started(chars).prefer = NoId
         /\ Started(chars).listed = chars /\ Started(chars).ids = NoneNamed
BY DEF Started, NoJob, NoneNamed

(* A slot picked.                                                          *)
LEMMA PickedFields ==
  ASSUME NEW j \in JobType, NEW k, NEW p
  PROVE  /\ Picked(j, k, p).stage = "pair" /\ Picked(j, k, p).todo = j.todo \ {k}
         /\ Picked(j, k, p).char = k /\ Picked(j, k, p).prefer = p
         /\ Picked(j, k, p).listed = j.listed /\ Picked(j, k, p).ids = j.ids
BY DEF Picked, JobType

(* A slot paired.                                                          *)
LEMMA PairedFields ==
  ASSUME NEW j \in JobType, NEW id
  PROVE  /\ Paired(j, id).stage = "note" /\ Paired(j, id).todo = j.todo
         /\ Paired(j, id).char = j.char /\ Paired(j, id).prefer = j.prefer
         /\ Paired(j, id).listed = j.listed /\ Paired(j, id).ids = [j.ids EXCEPT ![j.char] = id]
BY DEF Paired, JobType

(* A slot done.                                                            *)
LEMMA NotedFields ==
  ASSUME NEW j \in JobType
  PROVE  /\ Noted(j).stage = "slot" /\ Noted(j).todo = j.todo
         /\ Noted(j).char = NoChar /\ Noted(j).prefer = NoId
         /\ Noted(j).listed = j.listed /\ Noted(j).ids = j.ids
BY DEF Noted, JobType

(* The ids spent read.                                                     *)
LEMMA OfferingFields ==
  ASSUME NEW j \in JobType, NEW ids
  PROVE  /\ Offering(j, ids).stage = "offer" /\ Offering(j, ids).todo = j.todo
         /\ Offering(j, ids).char = j.char /\ Offering(j, ids).prefer = j.prefer
         /\ Offering(j, ids).listed = j.listed /\ Offering(j, ids).ids = j.ids
         /\ Offering(j, ids).spent = ids
BY DEF Offering, JobType

(* The job of the connection that works on a slot.                         *)
LEMMA SlotJobs ==
  ASSUME TypeOK, NEW c \in Conn
  PROVE  /\ job[c] \in JobType
         /\ TakePrefer(c) => job'[c] = Picked(job[c], Lowest(job[c].todo),
              IF idmap[Lowest(job[c].todo)] = NoId THEN pendingCreate[c] ELSE NoId)
         /\ PairSlot(c) => \E ids \in PoolReads(MemberOf[c]) :
              /\ Pair(job[c].char, job[c].prefer, ids)
              /\ job'[c] = Paired(job[c], ContentIdFor(job[c].char, job[c].prefer, ids))
         /\ NoteSlot(c) => job'[c] = Noted(job[c])
         /\ ReadSpent(c) => job'[c] = Offering(job[c], HeldIds)
<1>. job \in [Conn -> JobType]
  BY DEF TypeOK, BridgeTypeOK
<1>. QED
  BY DEF TakePrefer, PairSlot, NoteSlot, ReadSpent

(* Whatever the s->c pump does.                                            *)
LEMMA RelayWire ==
  ASSUME TypeOK, NEW c \in Conn, WireOK(c), Relay(c)
  PROVE  WireOK(c)'
<1>1. CASE TakePrefer(c) \/ PairSlot(c) \/ NoteSlot(c) \/ ReadSpent(c)
  <2>1. /\ job[c].stage # "idle"
        /\ UNCHANGED <<life, createPending, swallow, toLsb, request, fromLsb, asked, view>>
    BY <1>1 DEF TakePrefer, PairSlot, NoteSlot, ReadSpent, JobFrame, wireVars, clientVars
  <2>2. job'[c].stage # "idle"
    <3>1. job[c] \in JobType
      BY SlotJobs
    <3>2. \A k, p : Picked(job[c], k, p).stage = "pair"
      BY <3>1, PickedFields
    <3>3. \A id : Paired(job[c], id).stage = "note"
      BY <3>1, PairedFields
    <3>4. Noted(job[c]).stage = "slot"
      BY <3>1, NotedFields
    <3>5. Offering(job[c], HeldIds).stage = "offer"
      BY <3>1, OfferingFields
    <3>. QED
      BY <1>1, <3>2, <3>3, <3>4, <3>5, SlotJobs
  <2>. QED
    BY <2>1, <2>2 DEF WireOK, OpenOK, ShutOK, Busy, Due, Sent, Working, Early, Asking,
                Listing, Awaiting, Waiting
<1>2. CASE Teardown(c)
  BY <1>2 DEF Teardown, wireVars, clientVars, TypeOK, BridgeTypeOK, WireOK, ShutOK
<1>. QED
  BY <1>1, <1>2, DoneWire, EndWire, StartWire, FinishWire DEF Relay

(* A wire starts sound, and a restart leaves nothing on it but a command.  *)
LEMMA FreshWire ==
  /\ Init => Wires
  /\ Restart => Wires'
<1>1. Init => Wires
  BY CommandFields DEF Init, Wires, WireOK, ShutOK, NoJob
<1>2. Restart => Wires'
  BY CommandFields DEF Restart, Wires, WireOK, ShutOK, NoJob
<1>. QED
  BY <1>1, <1>2

(* Every step keeps every wire.                                            *)
LEMMA StepWires ==
  ASSUME Steady, TypeOK, Wires, [Next]_vars
  PROVE  Wires'
<1>1. ASSUME NEW c \in Conn, ActsOn(c)
      PROVE  Wires'
  <2>1. WireOK(c)'
    BY <1>1, PlayerWire, LsbWire, RelayWire DEF ActsOn, Wires
  <2>2. \A d \in Conn : d # c => WireOK(d)'
    BY <1>1, OthersSame, SameWire DEF Wires
  <2>. QED
    BY <2>1, <2>2 DEF Wires
<1>2. CASE UNCHANGED vars
  <2>1. \A d \in Conn : Same(d)
    BY <1>2 DEF vars, lobbyVars, bridgeVars, wireVars, clientVars, Same
  <2>. QED
    BY <2>1, SameWire DEF Wires
<1>. QED
  BY <1>1, <1>2, FreshWire DEF Next, ActsOn

(* Only a client waiting for a list is sent one.                           *)
Unsolicited(c) ==
  view'[c] # view[c] /\ view'[c].listed # {} /\ job[c] # job'[c] /\ asked[c].cmd # "list"

(* A step shows nobody a list it has not asked for.                        *)
LEMMA StepSolicited ==
  ASSUME TypeOK, Wires, [Next]_vars, NEW c \in Conn
  PROVE  ~Unsolicited(c)
<1>1. CASE Player(c) \/ LsbView(c) \/ LsbCharList(c) \/ CompanionDies(c) \/ Expire(c)
  <2>1. UNCHANGED job
    BY <1>1 DEF Player, Connect, HangUp, Drop, AskList, NameCheck, Commit, BlockCreate,
                Select, Delete, Send, LsbView, LsbList, LsbCheck, LsbCreate, LsbDelete,
                LsbSelect, Answer, LsbCharList, CompanionDies, Expire, bridgeVars
  <2>. QED
    BY <2>1 DEF Unsolicited
<1>2. CASE Relay(c) /\ ~FinishList(c)
  <2>1. UNCHANGED job \/ UNCHANGED view
    BY <1>2 DEF Relay, RelayDone, RelayRefused, RelayHandoff, StartList, TakePrefer,
                PairSlot, NoteSlot, ReadSpent, JobFrame, Teardown, bridgeVars, clientVars
  <2>. QED
    BY <2>1 DEF Unsolicited
<1>3. CASE FinishList(c)
  <2>1. CASE swallow[c] = "fresh" \/ life[c] # "open"
    BY <1>3, <2>1 DEF FinishList, clientVars, Unsolicited
  <2>2. CASE swallow[c] # "fresh" /\ life[c] = "open"
    <3>1. OpenOK(c) /\ job[c].stage # "idle"
      BY <1>3, <2>2 DEF Wires, WireOK, FinishList, ListDone
    <3>2. asked[c].cmd = "list"
      BY <2>2, <3>1, ListAwaited
    <3>. QED
      BY <3>2 DEF Unsolicited
  <2>. QED
    BY <2>1, <2>2
<1>4. CASE \E d \in Conn : ActsOn(d) /\ d # c
  BY <1>4, OthersSame DEF Same, Unsolicited
<1>5. CASE Restart
  BY <1>5 DEF Restart, NoView, Unsolicited
<1>6. CASE UNCHANGED vars
  BY <1>6 DEF vars, lobbyVars, clientVars, Unsolicited
<1>. QED
  BY <1>1, <1>2, <1>3, <1>4, <1>5, <1>6 DEF Next, ActsOn

(* A character list only reaches a client waiting for one: of the lists    *)
(* the bridge asked for itself, every one is swallowed, as long as it      *)
(* comes back within SWALLOW_TTL.                                          *)
THEOREM ListsAreSolicited ==
  ASSUME Steady
  PROVE  Spec => NoUnsolicitedList
<1>1. TypeOK /\ Wires /\ [Next]_vars =>
        [\A c \in Conn : view'[c] # view[c] /\ view'[c].listed # {} /\ job[c] # job'[c]
                           => asked[c].cmd = "list"]_vars
  BY StepSolicited DEF Unsolicited
<1>2. TypeOK /\ Wires /\ [Next]_vars => Wires'
  BY StepWires
<1>3. Init => Wires
  BY FreshWire
<1>. QED
  BY <1>1, <1>2, <1>3, LobbyTypeCorrect, PTL DEF Spec, NoUnsolicitedList

----------------------------------------------------------------------------
(* What a screen shows, and what a list job has rewritten so far.          *)

Rest(j) == j.todo \cup {j.char}

(* Once every slot is done, every id of the member that is held has been   *)
(* read as spent.                                                          *)
SpentOK(c) ==
  job[c].stage = "offer" => job[c].todo = {} /\ HeldIds \cap IdsOf(c) \subseteq job[c].spent

(* The slots done hold the id the map holds, and their world field is      *)
(* recorded.                                                               *)
JobOK(c) ==
  /\ \A k \in job[c].listed \ Rest(job[c]) : job[c].ids[k] = idmap[k] /\ field[k]
  /\ job[c].stage = "note" => job[c].ids[job[c].char] = idmap[job[c].char]
  /\ job[c].stage = "idle" => job[c] = NoJob
  /\ job[c].listed \subseteq Minted(MemberOf[c])
  /\ \A k \in CharId : job[c].ids[k] \in IdsOf(c)
  /\ job[c].char \notin job[c].todo
  /\ SpentOK(c)

(* While no list is being rewritten, an id on the screen is held by the    *)
(* character it is shown for, or by nobody.                                *)
ScreenOK(c) ==
  /\ view[c].listed \subseteq Minted(MemberOf[c])
  /\ \A k \in CharId : view[c].ids[k] \in IdsOf(c)
  /\ job[c].stage = "idle" => \A k \in view[c].listed :
       IF view[c].ids[k] = NoId THEN idmap[k] = NoId ELSE Holders(view[c].ids[k]) \subseteq {k}

(* What CommandReachesPicked and OfferedIsNotShown say of one connection.  *)
PickedOK(c) ==
  toLsb[c].cmd \in {"select", "delete"} /\ asked[c].cmd = toLsb[c].cmd =>
    toLsb[c].char \in {asked[c].char, NoChar}
OfferOK(c) == \A k \in view[c].listed : view[c].ids[k] \notin view[c].offer

Shown == \A c \in Conn : JobOK(c) /\ ScreenOK(c)

----------------------------------------------------------------------------
(* Whose characters a step touches.                                        *)

(* The map holds for the characters of connection c what it held.          *)
Untouched(c) == \A k \in Minted(MemberOf[c]) : idmap'[k] = idmap[k] /\ field'[k] = field[k]

(* A select or a delete reaches LSB for the character picked, or for none. *)
LEMMA TranslatePicked ==
  ASSUME TypeOK, NEW c \in Conn, ScreenOK(c), job[c].stage = "idle", NEW k \in view[c].listed
  PROVE  Translate(c, k) \in {k, NoChar}
<1>1. CASE view[c].ids[k] = NoId
  BY <1>1 DEF Translate
<1>2. CASE view[c].ids[k] # NoId
  <2>1. Holders(view[c].ids[k]) \subseteq {k}
    BY <1>2 DEF ScreenOK
  <2>2. CharidFor(view[c].ids[k]) \in {NoChar} \cup Holders(view[c].ids[k])
    BY DEF CharidFor
  <2>. QED
    BY <1>2, <2>1, <2>2 DEF Translate
<1>. QED
  BY <1>1, <1>2

(* A client that deletes a character sees a screen, so nothing is under    *)
(* way.                                                                    *)
LEMMA PickingQuiet ==
  ASSUME Steady, TypeOK, NEW c \in Conn, WireOK(c), MayAsk(c), view[c].listed # {}
  PROVE  job[c].stage = "idle" /\ toLsb[c].cmd = "none" /\ fromLsb[c] = <<>>
<1>1. view[c] # NoView
  BY NamesFromScreen
<1>. QED
  BY <1>1, Quiet DEF MayAsk

(* A step of c touches the map for its own member's characters only.       *)
LEMMA OwnTouch ==
  ASSUME Steady, TypeOK, Isolation, NEW c \in Conn, WireOK(c), ScreenOK(c), ActsOn(c),
         NEW k \in CharId, k \notin Minted(MemberOf[c])
  PROVE  idmap'[k] = idmap[k] /\ field'[k] = field[k]
<1>1. CASE Delete(c)
  <2>1. PICK p \in view[c].listed :
          IF view[c].ids[p] # NoId /\ Translate(c, p) # NoChar
            THEN Release(Translate(c, p)) ELSE UNCHANGED mapVars
    BY <1>1 DEF Delete
  <2>2. job[c].stage = "idle"
    BY <1>1, <2>1, PickingQuiet DEF Delete
  <2>3. Translate(c, p) # NoChar => Translate(c, p) \in Minted(MemberOf[c])
    BY <2>2, TranslatePicked DEF ScreenOK
  <2>. QED
    BY <2>1, <2>3 DEF Release, mapVars, TypeOK, MapTypeOK, Pairing
<1>2. CASE PairSlot(c) \/ NoteSlot(c)
  <2>1. job[c].char \in CharId /\ job[c].char \in Minted(MemberOf[c])
    <3>1. job[c].char \in CharId
      BY <1>2, SlotTyped DEF PairSlot, NoteSlot, TypeOK
    <3>. QED
      BY <3>1, CharsAreNumbers DEF Isolation, JobsStay
  <2>. QED
    BY <1>2, <2>1 DEF PairSlot, Pair, NoteSlot, Note, TypeOK, MapTypeOK, Pairing
<1>3. CASE RelayHandoff(c)
  BY <1>3 DEF RelayHandoff, NoteName
<1>4. CASE ~Delete(c) /\ ~PairSlot(c) /\ ~NoteSlot(c) /\ ~RelayHandoff(c)
  <2>1. UNCHANGED mapVars
    BY <1>4 DEF ActsOn, Player, Connect, HangUp, Drop, AskList, NameCheck, Commit, BlockCreate,
                Select, LsbView, LsbList, LsbCheck, LsbCreate, LsbDelete,
                LsbSelect, Answer, LsbCharList, CompanionDies, Expire, Relay, RelayDone,
                RelayRefused, StartList, TakePrefer, ReadSpent, FinishList, ListDone, Teardown
  <2>. QED
    BY <2>1 DEF mapVars
<1>. QED
  BY <1>1, <1>2, <1>3, <1>4

(* So it leaves the others' characters alone.                              *)
LEMMA OthersUntouched ==
  ASSUME Steady, Alone, TypeOK, Isolation, NEW c \in Conn, WireOK(c), ScreenOK(c), ActsOn(c),
         NEW d \in Conn, d # c
  PROVE  Untouched(d)
<1>1. MemberOf[d] # MemberOf[c]
  BY DEF Alone
<1>2. \A k \in Minted(MemberOf[d]) : k \in CharId /\ k \notin Minted(MemberOf[c])
  BY <1>1 DEF Minted
<1>. QED
  BY <1>2, OwnTouch DEF Untouched

----------------------------------------------------------------------------
(* Jobs and screens, step by step.                                         *)

(* Where clients name only what they are offered, an account is never      *)
(* misled, and two members hold ids of their own.                          *)
LEMMA HoldApart ==
  ASSUME Steady
  PROVE  /\ \A m : MayHold(m) = Pool[m]
         /\ \A m, n \in Member : m # n => MayHold(m) \cap MayHold(n) = {}
<1>1. \A m : MayHold(m) = Pool[m]
  <2>1. \A m : ~Misled(m)
    BY DEF Steady, Misled
  <2>. QED
    BY <2>1 DEF MayHold
<1>. QED
  BY <1>1, LobbyAssumption

(* The ids read as spent cover those held while no other is paired.        *)
LEMMA SpentKept ==
  ASSUME Steady, TypeOK, TypeOK', OwnPool(idmap)', NEW c \in Conn, SpentOK(c), job'[c] = job[c],
         \A h \in CharId : idmap'[h] = NoId \/ idmap'[h] = idmap[h] \/ h \notin Minted(MemberOf[c])'
  PROVE  SpentOK(c)'
<1>. SUFFICES ASSUME job[c].stage = "offer",
                     NEW h \in CharId, idmap'[h] # NoId, idmap'[h] \in IdsOf(c)
              PROVE  idmap'[h] \in job[c].spent
  BY DEF SpentOK, HeldIds, IdsOf
<1>1. h \in Minted(MemberOf[c])'
  <2>1. creator'[h] \in Member /\ idmap'[h] \in MayHold(creator'[h]) /\ idmap'[h] \in MayHold(MemberOf[c])
    BY DEF OwnPool, IdsOf, TypeOK, WorldTypeOK
  <2>2. MemberOf[c] \in Member
    BY LobbyAssumption
  <2>. QED
    BY <2>1, <2>2, HoldApart DEF Minted
<1>2. idmap[h] = idmap'[h]
  BY <1>1
<1>. QED
  BY <1>2 DEF SpentOK, HeldIds

(* A job nobody touches keeps what it has done.                            *)
LEMMA JobKept ==
  ASSUME Steady, TypeOK, TypeOK', [Next]_vars, JobsStay, OwnPool(idmap)', NEW c \in Conn,
         JobOK(c), job'[c] = job[c], job[c].stage # "idle" => Untouched(c),
         \A h \in CharId : idmap'[h] = NoId \/ idmap'[h] = idmap[h] \/ h \notin Minted(MemberOf[c])'
  PROVE  JobOK(c)'
<1>1. job[c].stage = "idle" => job[c].listed = {}
  BY DEF JobOK, NoJob
<1>2. job[c].stage = "note" => job[c].char \in Minted(MemberOf[c])
  BY SlotTyped, CharsAreNumbers DEF JobsStay, TypeOK
<1>3. \A k \in job[c].listed : k \in Minted(MemberOf[c]) /\ job[c].stage # "idle"
  BY <1>1 DEF JobOK
<1>4. \A k \in job[c].listed \ Rest(job[c]) : job[c].ids[k] = idmap'[k] /\ field'[k]
  BY <1>3 DEF JobOK, Untouched
<1>5. job[c].stage = "note" => job[c].ids[job[c].char] = idmap'[job[c].char]
  BY <1>2 DEF JobOK, Untouched
<1>6. Minted(MemberOf[c]) \subseteq Minted(MemberOf[c])'
  BY MintedGrows
<1>7. SpentOK(c)'
  BY SpentKept DEF JobOK
<1>. QED
  BY <1>4, <1>5, <1>6, <1>7 DEF JobOK, IdsOf

(* So does a screen nobody changes.                                        *)
LEMMA ScreenKept ==
  ASSUME Steady, TypeOK, TypeOK', [Next]_vars, OwnPool(idmap)', NEW c \in Conn, ScreenOK(c), view'[c] = view[c],
         job'[c].stage = "idle" => job[c].stage = "idle",
         \A h \in CharId : idmap'[h] = NoId \/ idmap'[h] = idmap[h] \/ h \notin Minted(MemberOf[c])'
  PROVE  ScreenOK(c)'
<1>1. view[c].listed \subseteq Minted(MemberOf[c])'
  BY MintedGrows DEF ScreenOK
<1>2. ASSUME job'[c].stage = "idle", NEW k \in view[c].listed
      PROVE  IF view[c].ids[k] = NoId THEN idmap'[k] = NoId
             ELSE {h \in CharId : idmap'[h] = view[c].ids[k]} \subseteq {k}
  <2>1. k \in CharId /\ k \in Minted(MemberOf[c])' /\ view[c].ids[k] \in IdsOf(c)
    BY <1>1 DEF ScreenOK, Minted
  <2>2. CASE view[c].ids[k] = NoId
    BY <1>2, <2>1, <2>2 DEF ScreenOK
  <2>3. CASE view[c].ids[k] # NoId
    <3>. SUFFICES ASSUME NEW h \in CharId, idmap'[h] = view[c].ids[k] PROVE h = k
      BY <2>3
    <3>1. h \in Minted(MemberOf[c])'
      <4>1. /\ creator'[h] \in Member /\ idmap'[h] \in MayHold(creator'[h])
            /\ idmap'[h] \in MayHold(MemberOf[c])
        BY <2>1, <2>3 DEF OwnPool, IdsOf, TypeOK, WorldTypeOK
      <4>2. MemberOf[c] \in Member
        BY LobbyAssumption
      <4>. QED
        BY <4>1, <4>2, HoldApart DEF Minted
    <3>2. idmap[h] = view[c].ids[k]
      BY <2>3, <3>1
    <3>. QED
      BY <1>2, <2>3, <3>2 DEF ScreenOK, Holders
  <2>. QED
    BY <2>2, <2>3
<1>. QED
  BY <1>1, <1>2 DEF ScreenOK, IdsOf, Holders

(* A list job starts with nothing done.                                    *)
LEMMA StartJob ==
  ASSUME TypeOK, JobsStay', NEW c \in Conn, StartList(c)
  PROVE  JobOK(c)'
<1>1. job'[c] = Started(NextReply(c).chars)
  BY DEF StartList, TypeOK, BridgeTypeOK
<1>2. /\ job'[c].stage = "slot" /\ job'[c].listed = job'[c].todo /\ job'[c].char = NoChar
      /\ job'[c].ids = NoneNamed
  BY <1>1, StartedFields
<1>3. job'[c].todo \subseteq Minted(MemberOf[c])'
  BY DEF JobsStay
<1>4. NoChar \notin job'[c].todo
  BY <1>3, CharsAreNumbers DEF Minted
<1>. QED
  BY <1>2, <1>3, <1>4 DEF JobOK, SpentOK, Rest, NoneNamed, IdsOf

(* The three steps of a slot: it is picked, paired, and only then done;    *)
(* and the read of the ids spent once all are.                             *)
LEMMA SlotJob ==
  ASSUME TypeOK, [Next]_vars, Isolation, OwnPool(idmap)', TypeOK', NEW c \in Conn, JobOK(c),
         TakePrefer(c) \/ PairSlot(c) \/ NoteSlot(c) \/ ReadSpent(c)
  PROVE  JobOK(c)'
<1> DEFINE j == job[c]
<1>1. j \in JobType /\ j.listed \subseteq CharId /\ NoChar \notin j.listed
  BY CharsAreNumbers DEF TypeOK, BridgeTypeOK, JobType
<1>2. Minted(MemberOf[c]) \subseteq Minted(MemberOf[c])'
  BY MintedGrows
<1>3. CASE TakePrefer(c)
  <2>1. PICK p : job'[c] = Picked(j, Lowest(j.todo), p)
    BY <1>3, SlotJobs
  <2> DEFINE k == Lowest(j.todo)
  <2>2. k \in j.todo /\ j.stage = "slot" /\ UNCHANGED <<idmap, field>>
    BY <1>1, <1>3, LowestIsMember, CharsAreNumbers DEF TakePrefer, JobType, mapVars
  <2>3. /\ job'[c].stage = "pair" /\ job'[c].todo = j.todo \ {k} /\ job'[c].char = k
        /\ job'[c].listed = j.listed /\ job'[c].ids = j.ids
    BY <1>1, <2>1, PickedFields
  <2>4. j.listed \ Rest(job'[c]) = j.listed \ Rest(j)
    <3>1. j.char = NoChar
      BY <2>2 DEF TypeOK, BridgeTypeOK
    <3>. HIDE DEF k
    <3>. QED
      BY <1>1, <2>2, <2>3, <3>1 DEF Rest
  <2>. HIDE DEF k, j
  <2>. QED
    BY <1>2, <2>2, <2>3, <2>4 DEF JobOK, SpentOK, IdsOf, j
<1>4. CASE PairSlot(c)
  <2>1. PICK ids \in PoolReads(MemberOf[c]) :
          /\ Pair(j.char, j.prefer, ids)
          /\ job'[c] = Paired(j, ContentIdFor(j.char, j.prefer, ids))
    BY <1>4, SlotJobs
  <2> DEFINE k == j.char
             i == ContentIdFor(j.char, j.prefer, ids)
  <2>2. idmap' = [idmap EXCEPT ![k] = i] /\ field' = field
    BY <2>1 DEF Pair
  <2>3. /\ job'[c].stage = "note" /\ job'[c].todo = j.todo /\ job'[c].char = k
        /\ job'[c].listed = j.listed /\ job'[c].ids = [j.ids EXCEPT ![k] = i]
    BY <1>1, <2>1, PairedFields
  <2>4. k \in CharId /\ k \in Minted(MemberOf[c])
    <3>1. k \in CharId
      BY <1>4, SlotTyped DEF PairSlot, TypeOK
    <3>. QED
      BY <3>1, CharsAreNumbers DEF Isolation, JobsStay
  <2>. HIDE DEF i
  <2>5. i = idmap'[k] /\ i \in IdsOf(c)
    <3>1. i = idmap'[k]
      BY <2>2, <2>4 DEF TypeOK, MapTypeOK, Pairing
    <3>2. idmap'[k] = NoId \/ idmap'[k] \in MayHold(creator'[k])
      BY <2>4 DEF OwnPool
    <3>3. creator'[k] = MemberOf[c]
      BY <1>2, <2>4 DEF Minted
    <3>. QED
      BY <3>1, <3>2, <3>3 DEF IdsOf
  <2>6. j.ids \in Pairing
    BY <1>1 DEF JobType
  <2>7. \A h \in CharId : job'[c].ids[h] = IF h = k THEN i ELSE j.ids[h]
    BY <2>3, <2>4, <2>6 DEF Pairing
  <2>8. \A h \in CharId : h # k => idmap'[h] = idmap[h]
    BY <2>2 DEF TypeOK, MapTypeOK, Pairing
  <2>9. j.listed \ Rest(job'[c]) = j.listed \ Rest(j) /\ k \in Rest(j)
    BY <2>3 DEF Rest
  <2>10. \A h \in j.listed \ Rest(j) : job'[c].ids[h] = idmap'[h] /\ field'[h]
    BY <1>1, <2>2, <2>7, <2>8, <2>9 DEF JobOK
  <2>. HIDE DEF k, j
  <2>. QED
    BY <1>2, <2>3, <2>4, <2>5, <2>7, <2>9, <2>10 DEF JobOK, SpentOK, IdsOf, j, k
<1>5. CASE NoteSlot(c)
  <2>1. job'[c] = Noted(j) /\ Note(j.char) /\ j.stage = "note"
    BY <1>5, SlotJobs DEF NoteSlot
  <2>2. /\ job'[c].stage = "slot" /\ job'[c].todo = j.todo /\ job'[c].char = NoChar
        /\ job'[c].listed = j.listed /\ job'[c].ids = j.ids
    BY <1>1, <2>1, NotedFields
  <2>3. idmap' = idmap /\ field' = [field EXCEPT ![j.char] = TRUE]
    BY <2>1 DEF Note
  <2>4. \A h \in j.listed \ Rest(job'[c]) : job'[c].ids[h] = idmap'[h] /\ field'[h]
    <3>. TAKE h \in j.listed \ Rest(job'[c])
    <3>1. h \in CharId
      BY <1>1
    <3>2. CASE h = j.char
      BY <2>1, <2>2, <2>3, <3>1, <3>2 DEF JobOK, TypeOK, MapTypeOK
    <3>3. CASE h # j.char
      <4>1. h \in j.listed \ Rest(j)
        BY <2>2, <3>3 DEF Rest
      <4>. QED
        BY <2>2, <2>3, <3>1, <3>3, <4>1 DEF JobOK, TypeOK, MapTypeOK
    <3>. QED
      BY <3>2, <3>3
  <2>5. NoChar \notin j.todo
    BY <1>1, CharsAreNumbers DEF JobType
  <2>. HIDE DEF j
  <2>. QED
    BY <1>2, <2>2, <2>4, <2>5 DEF JobOK, SpentOK, IdsOf, j
<1>6. CASE ReadSpent(c)
  <2>1. j.todo = {} /\ UNCHANGED <<idmap, field>> /\ job'[c] = Offering(j, HeldIds)
    BY <1>6, SlotJobs DEF ReadSpent, mapVars
  <2>2. /\ job'[c].stage = "offer" /\ job'[c].todo = j.todo /\ job'[c].char = j.char
        /\ job'[c].listed = j.listed /\ job'[c].ids = j.ids /\ job'[c].spent = HeldIds
    BY <1>1, <2>1, OfferingFields
  <2>3. SpentOK(c)'
    BY <2>1, <2>2 DEF SpentOK, HeldIds
  <2>. HIDE DEF j
  <2>. QED
    BY <1>2, <2>1, <2>2, <2>3 DEF JobOK, Rest, IdsOf, j
<1>. QED
  BY <1>3, <1>4, <1>5, <1>6

(* Every step of a connection keeps its own job sound.                     *)
LEMMA OwnJob ==
  ASSUME Steady, TypeOK, TypeOK', Isolation, Isolation', NEW c \in Conn, WireOK(c),
         JobOK(c), ScreenOK(c), ActsOn(c)
  PROVE  JobOK(c)'
<1>1. [Next]_vars
  BY DEF Next, ActsOn
<1>2. CASE StartList(c)
  BY <1>2, StartJob DEF Isolation
<1>3. CASE TakePrefer(c) \/ PairSlot(c) \/ NoteSlot(c) \/ ReadSpent(c)
  BY <1>1, <1>3, SlotJob DEF Isolation
<1>4. CASE FinishList(c)
  <2>1. job'[c] = NoJob
    BY <1>4 DEF FinishList, ListDone, TypeOK, BridgeTypeOK
  <2>. QED
    BY <2>1 DEF JobOK, SpentOK, NoJob, IdsOf
<1>5. CASE Delete(c)
  <2>1. job'[c] = job[c]
    BY <1>5 DEF Delete, bridgeVars
  <2>2. job[c].stage = "idle"
    BY <1>5, PickingQuiet DEF Delete
  <2>3. \A h \in CharId : idmap'[h] = NoId \/ idmap'[h] = idmap[h]
    BY <1>5 DEF Delete, Release, mapVars, TypeOK, MapTypeOK, Pairing
  <2>. QED
    BY <1>1, <2>1, <2>2, <2>3, JobKept DEF Isolation
<1>6. CASE ~(\/ StartList(c) \/ TakePrefer(c) \/ PairSlot(c) \/ NoteSlot(c) \/ ReadSpent(c)
             \/ FinishList(c) \/ Delete(c))
  <2>1. UNCHANGED <<job, idmap, field>>
    BY <1>6 DEF ActsOn, Player, Connect, HangUp, Drop, AskList, NameCheck, Commit, BlockCreate,
                Select, Send, LsbView, LsbList, LsbCheck, LsbCreate, LsbDelete,
                LsbSelect, Answer, LsbCharList, CompanionDies, Expire, Relay, RelayDone,
                RelayRefused, RelayHandoff, NoteName, Teardown, mapVars, bridgeVars
  <2>. QED
    BY <1>1, <2>1, JobKept DEF Isolation, Untouched
<1>. QED
  BY <1>2, <1>3, <1>4, <1>5, <1>6

(* A list that reaches the client shows what the map holds.                *)
LEMMA DeliveredScreen ==
  ASSUME TypeOK, UniqueContentId, NEW c \in Conn, JobOK(c), FinishList(c),
         life[c] = "open", swallow[c] # "fresh"
  PROVE  /\ view'[c].listed = job[c].listed /\ view'[c].ids = job[c].ids
         /\ view'[c].offer \subseteq ContentId \ HeldIds
         /\ \A k \in job[c].listed : k \in CharId /\ job[c].ids[k] = idmap[k] /\ field[k]
         /\ UNCHANGED mapVars
<1>1. /\ Deliver(c) /\ UNCHANGED mapVars
      /\ job[c].stage = "offer" /\ job[c].todo = {}
  BY DEF FinishList, ListDone, JobOK, SpentOK
<1>2. PICK ids \in PoolReads(MemberOf[c]) : view'[c] =
         [listed |-> job[c].listed, ids |-> job[c].ids,
          offer |-> LowestN(ids \ job[c].spent, Slots - Cardinality(job[c].listed))]
  BY <1>1 DEF Deliver, TypeOK, WorldTypeOK
<1>3. /\ ids \subseteq ContentId /\ ids \subseteq MayHold(MemberOf[c])
      /\ \A S, n : LowestN(S, n) \subseteq S
  BY PoolReadsTyped, PoolReadsOwn DEF LowestN
<1>4. view'[c].offer \subseteq ContentId \ HeldIds
  <2>1. view'[c].offer \subseteq ids \ job[c].spent
    BY <1>2, <1>3
  <2>. QED
    BY <1>1, <1>3, <2>1 DEF JobOK, SpentOK, IdsOf
<1>5. job[c].char = NoChar /\ job[c].listed \subseteq CharId
  BY <1>1 DEF TypeOK, BridgeTypeOK, JobType
<1>6. \A k \in job[c].listed : k \in job[c].listed \ Rest(job[c])
  BY <1>1, <1>5, CharsAreNumbers DEF Rest
<1>7. view'[c].listed = job[c].listed /\ view'[c].ids = job[c].ids
  BY <1>2
<1>8. \A k \in job[c].listed : k \in CharId /\ job[c].ids[k] = idmap[k] /\ field[k]
  BY <1>5, <1>6 DEF JobOK
<1>. QED
  BY <1>1, <1>4, <1>7, <1>8

(* Every step of a connection keeps its own screen sound.                  *)
LEMMA OwnScreen ==
  ASSUME Steady, TypeOK, TypeOK', UniqueContentId, Isolation, Isolation', NEW c \in Conn,
         WireOK(c), JobOK(c), ScreenOK(c), ActsOn(c)
  PROVE  ScreenOK(c)'
<1>1. [Next]_vars /\ OwnPool(idmap)'
  BY DEF Next, ActsOn, Isolation
<1>2. Minted(MemberOf[c]) \subseteq Minted(MemberOf[c])'
  BY <1>1, MintedGrows
<1>3. CASE HangUp(c) \/ BlockCreate(c)
  <2>1. view'[c] = NoView
    BY <1>3 DEF HangUp, BlockCreate, Drop, TypeOK, WorldTypeOK
  <2>. QED
    BY <2>1 DEF NoView, ScreenOK, IdsOf
<1>4. CASE RelayDone(c)
  <2>1. /\ view'[c] = ScreenAfter(c) /\ idmap' = idmap /\ job[c].stage = "idle"
        /\ view[c] \in Screen
    BY <1>4 DEF RelayDone, Relaying, mapVars, TypeOK, WorldTypeOK
  <2>2. CASE ScreenAfter(c) = NoView
    BY <2>1, <2>2 DEF NoView, ScreenOK, IdsOf
  <2>3. CASE ScreenAfter(c) = view[c]
    BY <1>1, <2>1, <2>3, ScreenKept
  <2>4. CASE ScreenAfter(c) =
               [view[c] EXCEPT !.listed = @ \ {asked[c].char}, !.ids[asked[c].char] = NoId]
    <3>1. /\ view'[c].listed = view[c].listed \ {asked[c].char}
          /\ \A k \in CharId : view'[c].ids[k] =
               IF k = asked[c].char THEN NoId ELSE view[c].ids[k]
      BY <2>1, <2>4 DEF Screen, Pairing
    <3>2. \A k \in view'[c].listed : k \in view[c].listed /\ view'[c].ids[k] = view[c].ids[k]
      BY <2>1, <3>1 DEF Screen
    <3>3. \A k \in view'[c].listed : IF view'[c].ids[k] = NoId THEN idmap'[k] = NoId
                                     ELSE {h \in CharId : idmap'[h] = view'[c].ids[k]} \subseteq {k}
      BY <2>1, <3>2 DEF ScreenOK, Holders
    <3>. QED
      BY <1>2, <3>1, <3>3 DEF ScreenOK, IdsOf, Holders
  <2>. QED
    BY <2>2, <2>3, <2>4 DEF ScreenAfter
<1>5. CASE FinishList(c)
  <2>1. CASE life[c] = "open" /\ swallow[c] # "fresh"
    <3>1. /\ view'[c].listed = job[c].listed /\ view'[c].ids = job[c].ids
          /\ \A k \in job[c].listed : k \in CharId /\ job[c].ids[k] = idmap[k]
          /\ idmap' = idmap
      BY <1>5, <2>1, DeliveredScreen DEF mapVars
    <3>2. \A k \in job[c].listed : IF job[c].ids[k] = NoId THEN idmap'[k] = NoId
                                   ELSE {h \in CharId : idmap'[h] = job[c].ids[k]} \subseteq {k}
      BY <3>1 DEF UniqueContentId, OneHolder
    <3>. QED
      BY <1>2, <3>1, <3>2 DEF JobOK, ScreenOK, IdsOf, Holders
  <2>2. CASE ~(life[c] = "open" /\ swallow[c] # "fresh")
    <3>1. view[c] = NoView
      BY <2>2 DEF WireOK, OpenOK, ShutOK
    <3>2. view' = view
      BY <1>5, <2>2 DEF FinishList, clientVars
    <3>. QED
      BY <3>1, <3>2 DEF NoView, ScreenOK, IdsOf
  <2>. QED
    BY <2>1, <2>2
<1>6. CASE Delete(c)
  <2>1. view' = view /\ job' = job
    BY <1>6 DEF Delete, Send, bridgeVars
  <2>2. \A h \in CharId : idmap'[h] = NoId \/ idmap'[h] = idmap[h]
    BY <1>6 DEF Delete, Release, mapVars, TypeOK, MapTypeOK, Pairing
  <2>. QED
    BY <1>1, <2>1, <2>2, ScreenKept
<1>7. CASE PairSlot(c)
  <2>1. view' = view
    BY <1>7 DEF PairSlot, JobFrame, clientVars
  <2>2. job'[c].stage = "note"
    <3>1. \A id : Paired(job[c], id).stage = "note"
      BY SlotJobs, PairedFields
    <3>. QED
      BY <1>7, <3>1, SlotJobs
  <2>. QED
    BY <1>2, <2>1, <2>2 DEF ScreenOK, IdsOf
<1>8. CASE ~(HangUp(c) \/ BlockCreate(c) \/ RelayDone(c) \/ FinishList(c) \/ Delete(c) \/ PairSlot(c))
  <2>1. UNCHANGED <<view, idmap>>
    BY <1>8 DEF ActsOn, Player, Connect, AskList, NameCheck, Commit,
                Select, Send, LsbView, LsbList, LsbCheck, LsbCreate, LsbDelete,
                LsbSelect, Answer, LsbCharList, CompanionDies, Expire, Relay,
                RelayRefused, RelayHandoff, NoteName, StartList, TakePrefer, NoteSlot, Note,
                ReadSpent, JobFrame, Teardown, mapVars, clientVars
  <2>2. job'[c].stage = "idle" => job[c].stage = "idle"
    <3>1. CASE UNCHANGED job
      BY <3>1
    <3>2. CASE StartList(c)
      BY <3>2, RelayingFacts DEF StartList
    <3>3. CASE TakePrefer(c) \/ NoteSlot(c) \/ ReadSpent(c)
      <4>1. job[c] \in JobType /\ \A k, p : Picked(job[c], k, p).stage = "pair"
        BY SlotJobs, PickedFields
      <4>2. Noted(job[c]).stage = "slot" /\ Offering(job[c], HeldIds).stage = "offer"
        BY <4>1, NotedFields, OfferingFields
      <4>. QED
        BY <3>3, <4>1, <4>2, SlotJobs
    <3>. QED
      BY <1>8, <3>1, <3>2, <3>3 DEF ActsOn, Player, Connect, AskList, NameCheck, Commit,
                Select, Send, LsbView, LsbList, LsbCheck, LsbCreate, LsbDelete,
                LsbSelect, Answer, LsbCharList, CompanionDies, Expire, Relay,
                RelayRefused, RelayHandoff, Teardown, bridgeVars
  <2>. QED
    BY <1>1, <2>1, <2>2, ScreenKept
<1>. QED
  BY <1>3, <1>4, <1>5, <1>6, <1>7, <1>8

(* A step of another member's connection leaves a job and a screen sound.  *)
LEMMA OthersShown ==
  ASSUME Steady, Alone, TypeOK, TypeOK', Isolation, Isolation', NEW c \in Conn, WireOK(c),
         ScreenOK(c), ActsOn(c), NEW d \in Conn, d # c, JobOK(d), ScreenOK(d)
  PROVE  JobOK(d)' /\ ScreenOK(d)'
<1>1. [Next]_vars
  BY DEF Next, ActsOn
<1>2. job'[d] = job[d] /\ view'[d] = view[d]
  BY OthersSame DEF Same
<1>3. ASSUME NEW h \in CharId, h \in Minted(MemberOf[d])'
      PROVE  idmap'[h] = idmap[h]
  <2>1. MemberOf[c] # MemberOf[d] /\ MemberOf[c] \in Member /\ MemberOf[c] # NoMember
    BY LobbyAssumption DEF Alone
  <2>2. h \notin Minted(MemberOf[c])
    BY <1>1, <1>3, <2>1, CreatorsKept DEF Minted
  <2>. QED
    BY <2>2, OwnTouch
<1>4. JobOK(d)'
  BY <1>1, <1>2, <1>3, OthersUntouched, JobKept DEF Isolation
<1>. QED
  BY <1>1, <1>2, <1>3, <1>4, ScreenKept DEF Isolation

(* A restart clears every screen and every job.                            *)
LEMMA RestartShown == Restart => Shown'
BY DEF Restart, Shown, JobOK, SpentOK, ScreenOK, NoJob, NoView, IdsOf

(* So every step keeps every job and every screen sound.                   *)
LEMMA StepShown ==
  ASSUME Steady, Alone, Sound, Sound', Isolation, Isolation', Wires, Shown, [Next]_vars
  PROVE  Shown'
<1>1. TypeOK /\ TypeOK' /\ UniqueContentId
  BY SoundIsTyped DEF Sound, Safe, Types, TypeOK
<1>2. ASSUME NEW c \in Conn, ActsOn(c)
      PROVE  Shown'
  <2>1. JobOK(c)' /\ ScreenOK(c)'
    BY <1>1, <1>2, OwnJob, OwnScreen DEF Wires, Shown
  <2>2. \A d \in Conn : d # c => JobOK(d)' /\ ScreenOK(d)'
    BY <1>1, <1>2, OthersShown DEF Wires, Shown
  <2>. QED
    BY <2>1, <2>2 DEF Shown
<1>3. CASE UNCHANGED vars
  BY <1>3 DEF vars, mapVars, lobbyVars, bridgeVars, lsbVars, clientVars, Shown, JobOK, SpentOK,
              ScreenOK, Minted, Holders, HeldIds, IdsOf
<1>. QED
  BY <1>2, <1>3, RestartShown DEF Next, ActsOn

(* A command on its way is the one last asked for.                         *)
LEMMA SendPicked ==
  ASSUME Steady, TypeOK, NEW c \in Conn, WireOK(c), ScreenOK(c), Select(c) \/ Delete(c)
  PROVE  PickedOK(c)'
<1>1. PICK cmd \in {"select", "delete"}, k \in view[c].listed : Send(c, cmd, k, NoId, Translate(c, k))
  BY DEF Select, Delete
<1>2. asked'[c].char = k /\ toLsb'[c].char = Translate(c, k)
  BY <1>1, CommandFields DEF Send, TypeOK, WorldTypeOK
<1>3. job[c].stage = "idle"
  BY <1>1, PickingQuiet DEF Select, Delete
<1>4. Translate(c, k) \in {k, NoChar}
  BY <1>3, TranslatePicked
<1>. QED
  BY <1>2, <1>4 DEF PickedOK

(* The offer of a screen stays apart from what it shows.                   *)
LEMMA StepPicked ==
  ASSUME Steady, Alone, Sound, Isolation, Wires, Shown, [Next]_vars,
         NEW c \in Conn, PickedOK(c), OfferOK(c)
  PROVE  PickedOK(c)' /\ OfferOK(c)'
<1>1. TypeOK /\ UniqueContentId /\ WireOK(c) /\ JobOK(c) /\ ScreenOK(c)
  BY SoundIsTyped DEF Sound, Safe, Wires, Shown
<1>2. ASSUME toLsb'[c] = toLsb[c] \/ toLsb'[c].cmd \notin {"select", "delete"},
             asked'[c] = asked[c] \/ asked'[c].cmd \notin {"select", "delete"}
      PROVE  PickedOK(c)'
  BY <1>2 DEF PickedOK
<1>3. ASSUME UNCHANGED view
      PROVE  OfferOK(c)'
  BY <1>3 DEF OfferOK
<1>4. OfferOK(c) /\ view'[c] = NoView => OfferOK(c)'
  BY DEF OfferOK, NoView
<1>5. CASE Select(c) \/ Delete(c)
  BY <1>1, <1>3, <1>5, SendPicked DEF Select, Delete, Send
<1>6. CASE AskList(c) \/ NameCheck(c) \/ Commit(c)
  <2>1. PICK cmd \in {"list", "check", "commit"} : \E i : Send(c, cmd, NoChar, i, NoChar)
    BY <1>6 DEF AskList, NameCheck, Commit
  <2>2. asked'[c].cmd = cmd
    BY <1>1, <2>1, CommandFields DEF Send, TypeOK, WorldTypeOK
  <2>3. toLsb'[c].cmd = cmd
    BY <1>1, <2>1, CommandFields DEF Send, TypeOK, WorldTypeOK
  <2>. QED
    BY <1>2, <1>3, <2>1, <2>2, <2>3 DEF Send
<1>7. CASE Connect(c)
  BY <1>1, <1>2, <1>3, <1>7, CommandFields DEF Connect, clientVars, TypeOK, WorldTypeOK
<1>8. CASE HangUp(c) \/ BlockCreate(c)
  BY <1>1, <1>2, <1>4, <1>8, CommandFields DEF HangUp, BlockCreate, Drop, TypeOK, WorldTypeOK
<1>9. CASE LsbView(c) \/ LsbCharList(c) \/ CompanionDies(c) \/ Expire(c)
  <2>1. UNCHANGED clientVars /\ (toLsb'[c] = toLsb[c] \/ toLsb'[c] = NoCmd)
    BY <1>1, <1>9 DEF LsbView, LsbList, LsbCheck, LsbCreate, LsbDelete, LsbSelect, Answer,
                      LsbCharList, CompanionDies, Expire, wireVars, TypeOK, WorldTypeOK
  <2>. QED
    BY <1>2, <1>3, <2>1, CommandFields DEF clientVars
<1>10. CASE RelayDone(c)
  <2>1. toLsb' = toLsb /\ asked'[c] = NoCmd /\ view'[c] = ScreenAfter(c) /\ view[c] \in Screen
    BY <1>1, <1>10 DEF RelayDone, TypeOK, WorldTypeOK
  <2>2. OfferOK(c)'
    <3>1. CASE ScreenAfter(c) = NoView
      BY <1>4, <2>1, <3>1
    <3>2. CASE ScreenAfter(c) = view[c]
      BY <2>1, <3>2 DEF OfferOK
    <3>3. CASE ScreenAfter(c) =
                 [view[c] EXCEPT !.listed = @ \ {asked[c].char}, !.ids[asked[c].char] = NoId]
      BY <2>1, <3>3 DEF Screen, Pairing, OfferOK
    <3>. QED
      BY <3>1, <3>2, <3>3 DEF ScreenAfter
  <2>. QED
    BY <1>2, <2>1, <2>2, CommandFields
<1>11. CASE RelayRefused(c) \/ RelayHandoff(c)
  BY <1>1, <1>2, <1>3, <1>11, CommandFields DEF RelayRefused, RelayHandoff, TypeOK, WorldTypeOK
<1>12. CASE \/ StartList(c) \/ TakePrefer(c) \/ PairSlot(c) \/ NoteSlot(c) \/ ReadSpent(c)
             \/ Teardown(c)
  BY <1>2, <1>3, <1>12 DEF StartList, TakePrefer, PairSlot, NoteSlot, ReadSpent, JobFrame, Teardown,
                           wireVars, clientVars
<1>13. CASE FinishList(c)
  <2>1. toLsb' = toLsb /\ (asked'[c] = asked[c] \/ asked'[c] = NoCmd)
    BY <1>1, <1>13 DEF FinishList, ListDone, Deliver, wireVars, clientVars, TypeOK, WorldTypeOK
  <2>2. CASE life[c] = "open" /\ swallow[c] # "fresh"
    <3>1. /\ view'[c].listed = job[c].listed /\ view'[c].ids = job[c].ids
          /\ view'[c].offer \subseteq ContentId \ HeldIds
          /\ \A k \in job[c].listed : k \in CharId /\ job[c].ids[k] = idmap[k]
      BY <1>1, <1>13, <2>2, DeliveredScreen
    <3>2. \A k \in CharId : idmap[k] \notin ContentId \ HeldIds
      BY IdsAreNumbers DEF HeldIds
    <3>. QED
      BY <1>2, <2>1, <3>1, <3>2, CommandFields DEF OfferOK
  <2>3. CASE ~(life[c] = "open" /\ swallow[c] # "fresh")
    BY <1>2, <1>3, <1>13, <2>1, <2>3, CommandFields DEF FinishList, clientVars
  <2>. QED
    BY <2>2, <2>3
<1>14. CASE \E d \in Conn : ActsOn(d) /\ d # c
  <2>1. toLsb'[c] = toLsb[c] /\ asked'[c] = asked[c] /\ view'[c] = view[c]
    BY <1>1, <1>14, OthersSame DEF Same
  <2>. QED
    BY <2>1 DEF PickedOK, OfferOK
<1>15. CASE Restart
  BY <1>2, <1>4, <1>15, CommandFields DEF Restart
<1>16. CASE UNCHANGED vars
  BY <1>2, <1>3, <1>16 DEF vars, lobbyVars, wireVars, clientVars
<1>. QED
  BY <1>5, <1>6, <1>7, <1>8, <1>9, <1>10, <1>11, <1>12, <1>13, <1>14, <1>15, <1>16
  DEF Next, ActsOn, Player, Relay

(* The inductive invariant of the screens.                                 *)
ScreenInv ==
  /\ Sound /\ Isolation /\ Wires /\ Shown
  /\ \A c \in Conn : PickedOK(c) /\ OfferOK(c)

(* It holds initially.                                                     *)
LEMMA InitScreens == Init => ScreenInv
<1>. SUFFICES ASSUME Init PROVE ScreenInv
  OBVIOUS
<1>1. Sound /\ Isolation /\ Wires
  BY InitSound, InitIsolation, FreshWire
<1>2. Shown
  BY DEF Init, Shown, JobOK, SpentOK, ScreenOK, NoJob, NoView, IdsOf
<1>3. \A c \in Conn : PickedOK(c) /\ OfferOK(c)
  BY CommandFields DEF Init, PickedOK, OfferOK, NoView
<1>. QED
  BY <1>1, <1>2, <1>3 DEF ScreenInv

(* It survives every step.                                                 *)
LEMMA StepScreens ==
  ASSUME Steady, Alone, ScreenInv, [Next]_vars
  PROVE  ScreenInv'
<1>1. Sound /\ Isolation /\ TypeOK /\ Wires /\ Shown
  BY SoundIsTyped DEF ScreenInv
<1>2. Sound' /\ Isolation' /\ Wires'
  BY <1>1, StepSound, StepIsolation, StepWires
<1>3. Shown'
  BY <1>1, <1>2, StepShown
<1>4. \A c \in Conn : PickedOK(c)' /\ OfferOK(c)'
  BY <1>1, StepPicked DEF ScreenInv
<1>. QED
  BY <1>2, <1>3, <1>4 DEF ScreenInv

(* A select or a delete reaches LSB for the character the player picked,   *)
(* or for none: while a screen is shown, nobody rewrites a list for it,    *)
(* and the ids on it are not given to anybody else.                        *)
THEOREM CommandsReachPicked ==
  ASSUME Steady, Alone
  PROVE  Spec => []CommandReachesPicked
<1>1. ScreenInv => CommandReachesPicked
  BY DEF ScreenInv, PickedOK, CommandReachesPicked
<1>2. ScreenInv /\ [Next]_vars => ScreenInv'
  BY StepScreens
<1>. QED
  BY <1>1, <1>2, InitScreens, PTL DEF Spec

(* A screen never shows a character under an id that is on it as free: the *)
(* offer is made from the ids nobody holds, after every slot was paired.   *)
THEOREM OffersAreFree ==
  ASSUME Steady, Alone
  PROVE  Spec => []OfferedIsNotShown
<1>1. ScreenInv => OfferedIsNotShown
  BY DEF ScreenInv, OfferOK, OfferedIsNotShown
<1>2. ScreenInv /\ [Next]_vars => ScreenInv'
  BY StepScreens
<1>. QED
  BY <1>1, <1>2, InitScreens, PTL DEF Spec

(* While saves succeed, every id on a list that reaches the client is in   *)
(* the file already, with its world field, for the character it is shown   *)
(* for: a slot is only done once both were written.                        *)
THEOREM ListsArePersisted ==
  ASSUME Steady, Alone, ~SaveMayFail
  PROVE  Spec => DeliveredIsPersisted
<1> DEFINE Delivered(c, k) ==
             /\ asked[c].cmd = "list" /\ asked'[c].cmd = "none" /\ view'[c] # view[c]
             /\ k \in view'[c].listed /\ view'[c].ids[k] # NoId /\ idmap[k] # NoId
<1>1. ASSUME ScreenInv, FileIsImage, [Next]_vars, NEW c \in Conn, NEW k \in CharId, Delivered(c, k)
      PROVE  file.pair[k] = view'[c].ids[k] /\ file.field[k]
  <2>1. TypeOK /\ UniqueContentId /\ JobOK(c)
    BY <1>1, SoundIsTyped DEF ScreenInv, Sound, Safe, Shown
  <2>2. FinishList(c)
    <3>1. UNCHANGED view => FALSE
      BY <1>1
    <3>2. view'[c] = NoView => FALSE
      BY <1>1 DEF NoView
    <3>3. CASE RelayDone(c)
      BY <1>1, <2>1, <3>3 DEF RelayDone, ScreenAfter, TypeOK, WorldTypeOK
    <3>4. CASE \E d \in Conn : ActsOn(d) /\ d # c
      BY <1>1, <2>1, <3>4, OthersSame DEF Same
    <3>5. CASE ActsOn(c) /\ ~RelayDone(c)
      BY <2>1, <3>1, <3>2, <3>5
      DEF ActsOn, Player, Connect, HangUp, BlockCreate, Drop, AskList, NameCheck, Commit,
          Select, Delete, Send, LsbView, LsbList, LsbCheck, LsbCreate, LsbDelete,
          LsbSelect, Answer, LsbCharList, CompanionDies, Expire, Relay, RelayRefused,
          RelayHandoff, StartList, TakePrefer, PairSlot, NoteSlot, ReadSpent, JobFrame, Teardown,
          clientVars, TypeOK, WorldTypeOK
    <3>6. CASE Restart
      BY <3>2, <3>6 DEF Restart
    <3>7. CASE UNCHANGED vars
      BY <3>1, <3>7 DEF vars, lobbyVars, clientVars
    <3>. QED
      BY <1>1, <3>3, <3>4, <3>5, <3>6, <3>7 DEF Next, ActsOn
  <2>3. life[c] = "open" /\ swallow[c] # "fresh"
    BY <1>1, <2>2 DEF FinishList, clientVars
  <2>4. k \in job[c].listed /\ view'[c].ids[k] = idmap[k] /\ field[k]
    BY <1>1, <2>1, <2>2, <2>3, DeliveredScreen
  <2>. QED
    BY <1>1, <2>4 DEF FileIsImage, Image
<1>2. ScreenInv /\ FileIsImage /\ [Next]_vars =>
        [\A c \in Conn, k \in CharId :
           Delivered(c, k) => file.pair[k] = view'[c].ids[k] /\ file.field[k]]_vars
  BY <1>1
<1>3. ScreenInv /\ FileIsImage /\ [Next]_vars => (ScreenInv /\ FileIsImage)'
  BY StepScreens, StepIsMapStep, MapStepFileIsImage, SoundIsTyped DEF ScreenInv, Sound, Safe
<1>4. Init => ScreenInv /\ FileIsImage
  BY InitScreens, MapInitFileIsImage DEF Init
<1>. QED
  BY <1>2, <1>3, <1>4, PTL DEF Spec, DeliveredIsPersisted

----------------------------------------------------------------------------
(* No id is spent on a character that is gone.                             *)

(* The lists under way are of characters that exist.                       *)
Living(c) ==
  /\ ListsOf(fromLsb[c], alive)
  /\ job[c].todo \subseteq alive
  /\ job[c].char \in alive \cup {NoChar}

(* The character a delete on its way names has given its id up.            *)
DeleteOK(c) ==
  toLsb[c].cmd = "delete" /\ toLsb[c].char # NoChar =>
    toLsb[c].char \in Minted(MemberOf[c]) /\ idmap[toLsb[c].char] = NoId

(* No list is under way beside a delete.                                   *)
LEMMA DeleteQuiet ==
  ASSUME TypeOK, NEW c \in Conn, WireOK(c), toLsb[c].cmd = "delete"
  PROVE  fromLsb[c] = <<>> /\ job[c].stage = "idle"
<1>1. CASE life[c] # "open"
  BY <1>1 DEF WireOK, ShutOK
<1>2. CASE life[c] = "open"
  <2>1. OpenOK(c)
    BY <1>2 DEF WireOK
  <2>2. asked[c].cmd \notin {"none", "list"}
    BY <2>1 DEF OpenOK, Listing
  <2>3. job[c].stage = "idle"
    BY <2>1, <2>2, ListAwaited
  <2>. QED
    BY <2>1, <2>2, <2>3 DEF OpenOK, Awaiting
<1>. QED
  BY <1>1, <1>2

(* A delete is on its way only because the player just sent one.           *)
LEMMA CommandStep ==
  ASSUME TypeOK, [Next]_vars, NEW c \in Conn
  PROVE  toLsb'[c] = toLsb[c] \/ toLsb'[c].cmd # "delete" \/ Delete(c)
<1>1. CASE ActsOn(c)
  <2>1. CASE AskList(c) \/ NameCheck(c) \/ Commit(c) \/ Select(c)
    <3>1. PICK cmd \in {"list", "check", "commit", "select"} : \E k, i, k2 : Send(c, cmd, k, i, k2)
      BY <2>1 DEF AskList, NameCheck, Commit, Select
    <3>. QED
      BY <3>1, CommandFields DEF Send, TypeOK, WorldTypeOK
  <2>2. CASE ~(AskList(c) \/ NameCheck(c) \/ Commit(c) \/ Select(c) \/ Delete(c))
    <3>1. toLsb'[c] = toLsb[c] \/ toLsb'[c] = NoCmd
      BY <1>1, <2>2
      DEF ActsOn, Player, Connect, HangUp, BlockCreate, Drop, LsbView, LsbList, LsbCheck,
          LsbCreate, LsbDelete, LsbSelect, Answer, LsbCharList, CompanionDies, Expire, Relay,
          RelayDone, RelayRefused, RelayHandoff, StartList, TakePrefer, PairSlot, NoteSlot,
          ReadSpent, JobFrame, FinishList, ListDone, Teardown, wireVars, TypeOK, WorldTypeOK
    <3>. QED
      BY <3>1, CommandFields
  <2>. QED
    BY <2>1, <2>2
<1>2. CASE \E d \in Conn : ActsOn(d) /\ d # c
  BY <1>2, OthersSame DEF Same
<1>3. CASE Restart \/ UNCHANGED vars
  BY <1>3 DEF Restart, vars, lobbyVars, wireVars
<1>. QED
  BY <1>1, <1>2, <1>3 DEF Next, ActsOn

(* Characters only go by a delete LSB grants.                              *)
LEMMA AliveStep ==
  ASSUME [Next]_vars
  PROVE  \/ alive \subseteq alive'
         \/ \E c \in Conn : /\ LsbDelete(c) /\ toLsb[c].char \in Owned(MemberOf[c])
                            /\ alive' = alive \ {toLsb[c].char}
<1>1. ASSUME NEW c \in Conn, LsbDelete(c)
      PROVE  \/ alive \subseteq alive'
             \/ toLsb[c].char \in Owned(MemberOf[c]) /\ alive' = alive \ {toLsb[c].char}
  BY <1>1, Zenon DEF LsbDelete
<1>2. ASSUME NEW c \in Conn, LsbCreate(c)
      PROVE  alive \subseteq alive'
  <2>1. alive' = alive \/ alive' = alive \cup {Lowest(Unminted)}
    BY <1>2, Zenon DEF LsbCreate, lsbVars
  <2>. QED
    BY <2>1
<1>3. ASSUME NEW c \in Conn, ActsOn(c), ~LsbDelete(c), ~LsbCreate(c)
      PROVE  alive' = alive
  BY <1>3 DEF ActsOn, Player, Connect, HangUp, BlockCreate, Drop, AskList, NameCheck, Commit,
          Select, Delete, Send, LsbView, LsbList, LsbCheck,
          LsbSelect, Answer, LsbCharList, CompanionDies, Expire, Relay, RelayDone, RelayRefused,
          RelayHandoff, StartList, TakePrefer, PairSlot, NoteSlot, ReadSpent, JobFrame, FinishList,
          ListDone, Teardown, lsbVars
<1>4. CASE Restart \/ UNCHANGED vars
  BY <1>4 DEF Restart, vars, lobbyVars, lsbVars
<1>. QED
  BY <1>1, <1>2, <1>3, <1>4 DEF Next, ActsOn

(* The list next relayed is one of those waiting.                          *)
LEMMA NextOf ==
  ASSUME TypeOK, NEW c \in Conn, NEW S, ListsOf(fromLsb[c], S), fromLsb[c] # <<>>,
         NextReply(c).what = "list"
  PROVE  NextReply(c).chars \subseteq S
<1>1. fromLsb[c] \in Seq(Replies)
  BY DEF TypeOK, WorldTypeOK
<1>2. NextReply(c) = fromLsb[c][1] /\ 1 \in 1 .. Len(fromLsb[c])
  BY <1>1 DEF NextReply
<1>. QED
  BY <1>2 DEF ListsOf

(* Every step keeps the lists under way to characters that exist.          *)
LEMMA StepLiving ==
  ASSUME Alone, TypeOK, Isolation, Wires, Shown, [Next]_vars, NEW d \in Conn, Living(d)
  PROVE  Living(d)'
<1>1. fromLsb[d] \in Seq(Replies)
  BY DEF TypeOK, WorldTypeOK
<1>2. CASE alive \subseteq alive'
  <2>1. ListsOf(fromLsb'[d], alive)
    <3>1. CASE \E r \in Replies : /\ fromLsb'[d] = Append(fromLsb[d], r)
                                  /\ r.what # "list" \/ r.chars = Owned(MemberOf[d])
      <4>1. Owned(MemberOf[d]) \subseteq alive
        BY DEF Owned
      <4>2. PICK r \in Replies : /\ fromLsb'[d] = Append(fromLsb[d], r)
                                 /\ r.what # "list" \/ r.chars = Owned(MemberOf[d])
        BY <3>1
      <4>3. ListsOf(Append(fromLsb[d], r), alive)
        BY <1>1, <4>1, <4>2, ListsOps DEF Living
      <4>. QED
        BY <4>2, <4>3
    <3>. QED
      BY <1>1, <3>1, StepWire, ListsOps DEF WireStep, Living
  <2>2. job'[d].todo \subseteq alive /\ job'[d].char \in alive \cup {NoChar}
    BY StepJobs, NextOf DEF JobStep, Living
  <2>. QED
    BY <1>2, <2>1, <2>2 DEF Living, ListsOf
<1>3. ASSUME NEW c \in Conn, LsbDelete(c), toLsb[c].char \in Owned(MemberOf[c]),
             alive' = alive \ {toLsb[c].char}
      PROVE  Living(d)'
  <2> DEFINE k == toLsb[c].char
  <2>1. job' = job
    BY <1>3 DEF LsbDelete, Answer, bridgeVars
  <2>2. CASE d = c
    <3>1. fromLsb[c] = <<>> /\ job[c].stage = "idle"
      BY <1>3, DeleteQuiet DEF LsbDelete, Wires
    <3>2. job[c] = NoJob
      BY <3>1 DEF Shown, JobOK
    <3>3. PICK r \in Replies : Answer(c, r) /\ r.what # "list"
      <4>1. Answer(c, Reply("done", {})) \/ Answer(c, Reply("refused", {}))
        BY <1>3, Zenon DEF LsbDelete
      <4>. QED
        BY <4>1 DEF Reply, Replies
    <3>4. ListsOf(<<>>, alive')
      BY DEF ListsOf
    <3>5. <<>> \in Seq(Replies)
      OBVIOUS
    <3>6. ListsOf(Append(<<>>, r), alive')
      BY <3>3, <3>4, <3>5, ListsOps
    <3>7. fromLsb'[c] = <<>> \/ fromLsb'[c] = Append(<<>>, r)
      BY <3>1, <3>3 DEF Answer, TypeOK, WorldTypeOK
    <3>8. ListsOf(fromLsb'[c], alive')
      BY <3>4, <3>6, <3>7
    <3>. QED
      BY <2>1, <2>2, <3>2, <3>8 DEF Living, ListsOf, NoJob
  <2>3. CASE d # c
    <3>1. fromLsb'[d] = fromLsb[d]
      BY <1>3, <2>3 DEF LsbDelete, Answer, TypeOK, WorldTypeOK
    <3>2. k \in CharId /\ k # NoChar /\ k \notin Minted(MemberOf[d])
      BY <1>3, <2>3, OwnedTyped, CharsAreNumbers DEF TypeOK, Owned, Minted, Alone
    <3>3. ListsOf(fromLsb[d], Minted(MemberOf[d]))
      BY ListsStayForm DEF Isolation
    <3>4. ListsOf(fromLsb[d], alive')
      <4>. HIDE DEF k
      <4>. QED
        BY <1>3, <3>2, <3>3 DEF ListsOf, Living, k
    <3>5. job[d].todo \subseteq alive' /\ job[d].char \in alive' \cup {NoChar}
      BY <1>3, <3>2, CharsAreNumbers DEF Living, Isolation, JobsStay
    <3>. QED
      BY <2>1, <3>1, <3>4, <3>5 DEF Living, ListsOf
  <2>. QED
    BY <2>2, <2>3
<1>. QED
  BY <1>2, <1>3, AliveStep

(* Every step keeps an id off the character a delete names.                *)
LEMMA StepDeleteOK ==
  ASSUME Steady, Alone, TypeOK, Isolation, Wires, Shown, ~SaveMayFail, FileIsImage,
         [Next]_vars, NEW c \in Conn, DeleteOK(c)
  PROVE  DeleteOK(c)'
<1>1. CASE Delete(c)
  <2>1. PICK p \in view[c].listed :
          /\ Send(c, "delete", p, NoId, Translate(c, p))
          /\ IF view[c].ids[p] # NoId /\ Translate(c, p) # NoChar
               THEN Release(Translate(c, p)) ELSE UNCHANGED mapVars
    BY <1>1 DEF Delete
  <2> DEFINE k == Translate(c, p)
  <2>2. ScreenOK(c) /\ job[c].stage = "idle"
    BY <1>1, <2>1, PickingQuiet DEF Delete, Shown, Wires
  <2>3. k \in {p, NoChar}
    BY <2>2, TranslatePicked
  <2>4. toLsb'[c].char = k
    BY <2>1, CommandFields DEF Send, TypeOK, WorldTypeOK
  <2>5. p \in CharId /\ p \in Minted(MemberOf[c]) /\ p \in Minted(MemberOf[c])'
    BY <2>2, MintedGrows DEF ScreenOK, Minted
  <2>. SUFFICES ASSUME k # NoChar PROVE idmap'[k] = NoId
    BY <2>3, <2>4, <2>5 DEF DeleteOK
  <2>6. CASE view[c].ids[p] = NoId
    BY <2>1, <2>2, <2>3, <2>6 DEF ScreenOK, mapVars
  <2>7. CASE view[c].ids[p] # NoId
    <3>1. Release(k)
      BY <2>1, <2>7
    <3>. HIDE DEF k
    <3>. QED
      BY <2>3, <2>5, <3>1 DEF Release, TypeOK, MapTypeOK, Pairing
  <2>. QED
    BY <2>6, <2>7
<1>2. CASE ~Delete(c)
  <2>. SUFFICES ASSUME toLsb'[c].cmd = "delete", toLsb'[c].char # NoChar
                PROVE  toLsb'[c].char \in Minted(MemberOf[c])' /\ idmap'[toLsb'[c].char] = NoId
    BY DEF DeleteOK
  <2>1. toLsb'[c] = toLsb[c]
    BY <1>2, CommandStep
  <2> DEFINE k == toLsb[c].char
  <2>2. k \in CharId /\ k \in Minted(MemberOf[c]) /\ idmap[k] = NoId
    BY <2>1 DEF DeleteOK, Minted
  <2>3. k \in Minted(MemberOf[c])'
    BY <2>2, MintedGrows
  <2>4. idmap'[k] = NoId
    <3>1. CASE \E d \in Conn : PairSlot(d)
      <4>1. PICK d \in Conn : PairSlot(d)
        BY <3>1
      <4>2. job[d].char \in CharId /\ job[d].char \in Minted(MemberOf[d])
        <5>1. job[d].char \in CharId
          BY <4>1, SlotTyped DEF PairSlot, TypeOK
        <5>. QED
          BY <5>1, CharsAreNumbers DEF Isolation, JobsStay
      <4>3. d # c
        BY <2>1, <4>1, DeleteQuiet DEF PairSlot, Wires
      <4>4. job[d].char # k
        BY <2>2, <4>2, <4>3 DEF Alone, Minted
      <4>. HIDE DEF k
      <4>. QED
        BY <2>2, <4>1, <4>2, <4>4 DEF PairSlot, Pair, TypeOK, MapTypeOK, Pairing
    <3>2. CASE ~\E d \in Conn : PairSlot(d)
      <4>1. file.pair = idmap
        BY DEF FileIsImage, Image
      <4>. HIDE DEF k
      <4>. QED
        BY <2>2, <3>2, <4>1, OthersPairNobody
    <3>. QED
      BY <3>1, <3>2
  <2>. QED
    BY <2>1, <2>3, <2>4
<1>. QED
  BY <1>1, <1>2

(* Every step keeps ids on characters that exist.                          *)
LEMMA StepSpent ==
  ASSUME TypeOK, Isolation, FileIsImage, [Next]_vars, SpentOnTheLiving,
         \A c \in Conn : Living(c) /\ DeleteOK(c)
  PROVE  SpentOnTheLiving'
<1>. SUFFICES ASSUME NEW k \in CharId, idmap'[k] # NoId PROVE k \in alive'
  BY DEF SpentOnTheLiving
<1>1. CASE \E c \in Conn : PairSlot(c)
  <2>1. PICK c \in Conn : PairSlot(c)
    BY <1>1
  <2>2. alive' = alive
    BY <2>1 DEF PairSlot, JobFrame
  <2>3. job[c].char \in CharId /\ job[c].char \in alive
    <3>1. job[c].char \in CharId
      BY <2>1, SlotTyped DEF PairSlot, TypeOK
    <3>. QED
      BY <3>1, CharsAreNumbers DEF Living
  <2>4. k # job[c].char => idmap'[k] = idmap[k]
    BY <2>1 DEF PairSlot, Pair, TypeOK, MapTypeOK, Pairing
  <2>. QED
    BY <2>2, <2>3, <2>4 DEF SpentOnTheLiving
<1>2. CASE ~\E c \in Conn : PairSlot(c)
  <2>1. idmap[k] # NoId /\ k \in alive
    <3>1. file.pair = idmap
      BY DEF FileIsImage, Image
    <3>. QED
      BY <1>2, <3>1, OthersPairNobody DEF SpentOnTheLiving
  <2>2. ASSUME NEW c \in Conn, LsbDelete(c), toLsb[c].char \in Owned(MemberOf[c])
        PROVE  k # toLsb[c].char
    <3>1. toLsb[c].char # NoChar
      BY <2>2, OwnedTyped, CharsAreNumbers DEF TypeOK
    <3>. QED
      BY <2>1, <2>2, <3>1 DEF DeleteOK, LsbDelete
  <2>. QED
    BY <2>1, <2>2, AliveStep
<1>. QED
  BY <1>1, <1>2

(* While saves succeed, a Content ID is only spent on a character that     *)
(* exists: the id goes before the delete is forwarded, and until LSB has   *)
(* ruled on it no list of that account can bring a pairing back.           *)
THEOREM IdsOnTheLiving ==
  ASSUME Steady, Alone, ~SaveMayFail
  PROVE  Spec => []SpentOnTheLiving
<1> DEFINE Inv == /\ ScreenInv /\ FileIsImage /\ SpentOnTheLiving
                  /\ \A c \in Conn : Living(c) /\ DeleteOK(c)
<1>1. Init => Inv
  <2>. SUFFICES ASSUME Init PROVE Inv
    OBVIOUS
  <2>1. ScreenInv /\ FileIsImage
    BY InitScreens, MapInitFileIsImage DEF Init
  <2>2. SpentOnTheLiving
    BY DEF Init, MapInit, SpentOnTheLiving
  <2>3. \A c \in Conn : Living(c)
    BY DEF Init, Living, ListsOf, NoJob
  <2>4. \A c \in Conn : DeleteOK(c)
    BY CommandFields DEF Init, DeleteOK
  <2>. QED
    BY <2>1, <2>2, <2>3, <2>4
<1>2. ASSUME Inv, [Next]_vars
      PROVE  Inv'
  <2>1. TypeOK /\ Isolation /\ Wires /\ Shown
    BY <1>2, SoundIsTyped DEF ScreenInv
  <2>2. ScreenInv'
    BY <1>2, StepScreens
  <2>3. FileIsImage'
    BY <1>2, <2>1, StepIsMapStep, MapStepFileIsImage DEF TypeOK
  <2>4. SpentOnTheLiving'
    BY <1>2, <2>1, StepSpent
  <2>5. \A c \in Conn : Living(c)' /\ DeleteOK(c)'
    BY <1>2, <2>1, StepLiving, StepDeleteOK
  <2>. QED
    BY <2>2, <2>3, <2>4, <2>5
<1>3. Inv => SpentOnTheLiving
  OBVIOUS
<1>. QED
  BY <1>1, <1>2, <1>3, PTL DEF Spec

----------------------------------------------------------------------------
(* A new character gets the id its client named.                           *)

(* accounts.db can be read, and LSB refuses no delete of a character of    *)
(* the account.                                                            *)
Heeded == "db" \notin Faults /\ "refused delete" \notin Faults

(* The id named on a create is free until its character takes it, and so   *)
(* are the ids a screen offers.                                            *)
Names(c) ==
  /\ pendingCreate[c] \notin HeldIds
  /\ job[c].stage = "pair" =>
       /\ job[c].prefer \notin HeldIds
       /\ idmap[job[c].char] = NoId => pendingCreate[c] = NoId
  /\ life[c] = "open" /\ toLsb[c].cmd = "commit" =>
       pendingCreate[c] = toLsb[c].id /\ toLsb[c].id # NoId /\ view[c].offer # {}
  /\ job[c].stage = "idle" => view[c].offer \cap HeldIds = {}

(* A list under way, or being rewritten, is of every character there is.   *)
Whole(c) == life[c] = "open" =>
  /\ \A n \in 1 .. Len(fromLsb[c]) : fromLsb[c][n].what = "list" =>
       Owned(MemberOf[c]) \subseteq fromLsb[c][n].chars
  /\ job[c].stage # "idle" => Owned(MemberOf[c]) \subseteq job[c].listed

(* The characters of a list job that content_id_for was called for.        *)
Tried(j) == j.listed \ (IF j.stage = "note" THEN j.todo ELSE Rest(j))

(* They were paired, or the pool is spent; so a screen that offers an id   *)
(* leaves nobody unpaired but the one just created.                        *)
Filled(c) ==
  /\ \A k \in Tried(job[c]) : idmap[k] # NoId \/ Pool[MemberOf[c]] \subseteq HeldIds
  /\ life[c] = "open" /\ job[c].stage = "idle" /\ view[c].offer # {} =>
       \A k \in Owned(MemberOf[c]) :
         idmap[k] # NoId \/ named[c][k] # NoId \/ (toLsb[c].cmd = "delete" /\ k = toLsb[c].char)

(* That one is the only one, its id waits for it, and no screen is shown   *)
(* until it has it.                                                        *)
NewOne(c) == \A k \in CharId : named[c][k] # NoId =>
  /\ life[c] = "open" /\ k \in Owned(MemberOf[c]) /\ idmap[k] = NoId
  /\ \A j \in Owned(MemberOf[c]) \ {k} : idmap[j] # NoId
  /\ \/ pendingCreate[c] = named[c][k]
     \/ job[c].stage = "pair" /\ job[c].char = k /\ job[c].prefer = named[c][k]
  /\ \/ asked[c].cmd = "commit" /\ toLsb[c].cmd = "none"
     \/ view[c] = NoView /\ asked[c].cmd \in {"none", "list"}

NamedOK(c) == Names(c) /\ Whole(c) /\ Filled(c) /\ NewOne(c)

(* Which steps change what.                                                *)
LEMMA WhoChanges ==
  ASSUME NEW c \in Conn, ActsOn(c)
  PROVE  /\ UNCHANGED idmap \/ Delete(c) \/ PairSlot(c)
         /\ UNCHANGED named \/ LsbCreate(c) \/ PairSlot(c) \/ Drop(c)
         /\ UNCHANGED pendingCreate \/ NameCheck(c) \/ Commit(c) \/ TakePrefer(c) \/ Teardown(c)
         /\ \/ UNCHANGED job \/ StartList(c) \/ TakePrefer(c) \/ PairSlot(c) \/ NoteSlot(c)
            \/ ReadSpent(c) \/ FinishList(c)
         /\ UNCHANGED view \/ Drop(c) \/ RelayDone(c) \/ FinishList(c)
         /\ UNCHANGED <<creator, alive>> \/ LsbCreate(c) \/ LsbDelete(c)
         /\ UNCHANGED life \/ Connect(c) \/ Drop(c) \/ Teardown(c)
<1>1. CASE Player(c)
  BY <1>1 DEF Player, Connect, HangUp, Drop, AskList, NameCheck, Commit, BlockCreate, Select,
              Delete, Send, mapVars, bridgeVars, lsbVars, clientVars
<1>2. CASE LsbView(c) \/ LsbCharList(c) \/ CompanionDies(c) \/ Expire(c)
  <2>1. UNCHANGED <<mapVars, life, pendingCreate, job, clientVars>>
    BY <1>2 DEF LsbView, LsbList, LsbCheck, LsbCreate, LsbDelete, LsbSelect, Answer,
                LsbCharList, CompanionDies, Expire, bridgeVars
  <2>2. UNCHANGED named \/ LsbCreate(c)
    BY <1>2 DEF LsbView, LsbList, LsbCheck, LsbDelete, LsbSelect,
                LsbCharList, CompanionDies, Expire, lsbVars
  <2>3. UNCHANGED <<creator, alive>> \/ LsbCreate(c) \/ LsbDelete(c)
    BY <1>2 DEF LsbView, LsbList, LsbCheck, LsbSelect,
                LsbCharList, CompanionDies, Expire, lsbVars
  <2>. QED
    BY <2>1, <2>2, <2>3 DEF mapVars, clientVars
<1>3. CASE Relay(c)
  BY <1>3 DEF Relay, RelayDone, RelayRefused, RelayHandoff, NoteName, StartList, TakePrefer,
              PairSlot, NoteSlot, Note, ReadSpent, JobFrame, FinishList, ListDone, Teardown,
              mapVars, bridgeVars, lsbVars, clientVars
<1>. QED
  BY <1>1, <1>2, <1>3 DEF ActsOn

(* What pairing a slot does to the map.                                    *)
LEMMA PairFacts ==
  ASSUME TypeOK, TypeOK', [Next]_vars, Isolation, Isolation', NEW c \in Conn, PairSlot(c)
  PROVE  LET k == job[c].char IN
         /\ k \in CharId /\ k \in Minted(MemberOf[c])
         /\ idmap[k] # NoId => idmap' = idmap
         /\ \A h \in CharId : h # k => idmap'[h] = idmap[h]
         /\ HeldIds \subseteq HeldIds' /\ HeldIds' \subseteq HeldIds \cup {idmap'[k]}
         /\ idmap'[k] \in IdsOf(c)
         /\ idmap[k] = NoId /\ job[c].prefer # NoId /\ job[c].prefer \notin HeldIds
              => idmap'[k] = job[c].prefer
         /\ "db" \notin Faults /\ idmap[k] = NoId /\ job[c].prefer = NoId /\ idmap'[k] = NoId
              => Pool[MemberOf[c]] \subseteq HeldIds
<1> DEFINE k == job[c].char
           p == job[c].prefer
<1>1. k \in CharId /\ k \in Minted(MemberOf[c])
  <2>1. k \in CharId
    BY SlotTyped DEF PairSlot, TypeOK
  <2>. QED
    BY <2>1, CharsAreNumbers DEF Isolation, JobsStay
<1>2. PICK ids \in PoolReads(MemberOf[c]) : Pair(k, p, ids)
  BY DEF PairSlot
<1> DEFINE i == ContentIdFor(k, p, ids)
<1>3. idmap' = [idmap EXCEPT ![k] = i] /\ (idmap[k] # NoId => i = idmap[k])
  BY <1>2 DEF Pair, ContentIdFor
<1>4. ids \subseteq ContentId /\ ("db" \notin Faults => ids = Pool[MemberOf[c]])
  BY PoolReadsTyped DEF PoolReads
<1>5. idmap[k] = NoId /\ p # NoId /\ p \notin HeldIds => i = p
  BY DEF ContentIdFor, Named
<1>6. idmap[k] = NoId /\ p = NoId /\ i = NoId => ids \subseteq HeldIds
  <2>. SUFFICES ASSUME idmap[k] = NoId, p = NoId, ~(ids \subseteq HeldIds) PROVE i # NoId
    OBVIOUS
  <2> DEFINE free == ids \ HeldIds
  <2>1. free # {} /\ free \subseteq ContentId
    BY <1>4
  <2>2. Lowest(free) \in free
    BY <2>1, IdsAreNumbers, LowestIsMember
  <2>3. i \in free
    BY <2>1, <2>2 DEF ContentIdFor, Allocated
  <2>. QED
    BY <2>1, <2>3, IdsAreNumbers
<1>. HIDE DEF k, i, p
<1>7. idmap'[k] = i /\ \A h \in CharId : h # k => idmap'[h] = idmap[h]
  BY <1>1, <1>3 DEF TypeOK, MapTypeOK, Pairing
<1>8. idmap[k] # NoId => idmap' = idmap
  BY <1>1, <1>3 DEF TypeOK, MapTypeOK, Pairing
<1>9. HeldIds \subseteq HeldIds' /\ HeldIds' \subseteq HeldIds \cup {idmap'[k]}
  <2>1. \A h \in CharId : idmap[h] # NoId => idmap'[h] = idmap[h]
    BY <1>7, <1>8
  <2>. QED
    BY <1>1, <1>7, <2>1 DEF HeldIds
<1>10. idmap'[k] \in IdsOf(c)
  <2>1. k \in Minted(MemberOf[c])'
    BY <1>1, MintedGrows
  <2>. QED
    BY <1>1, <2>1 DEF Isolation, OwnPool, IdsOf, Minted
<1>. QED
  BY <1>1, <1>4, <1>5, <1>6, <1>7, <1>8, <1>9, <1>10 DEF k, p

(* What the steps of c leave of another member's characters and ids.       *)
LEMMA OthersNames ==
  ASSUME Steady, Alone, TypeOK, TypeOK', Isolation, Isolation', NEW c \in Conn, WireOK(c),
         ScreenOK(c), ActsOn(c), NEW d \in Conn, d # c
  PROVE  /\ Owned(MemberOf[d])' = Owned(MemberOf[d])
         /\ \A i \in IdsOf(d) : i \in HeldIds' <=> i \in HeldIds
         /\ \A k \in CharId : /\ k \in Minted(MemberOf[d]) => named'[d][k] = named[d][k]
                              /\ named'[d][k] \in {NoId, named[d][k]}
<1>1. MemberOf[c] # MemberOf[d] /\ MemberOf[c] \in Member /\ MemberOf[d] \in Member
      /\ NoMember \notin Member
  BY LobbyAssumption DEF Alone
<1>2. [Next]_vars
  BY DEF Next, ActsOn
<1>3. Owned(MemberOf[d])' = Owned(MemberOf[d])
  <2>1. CASE LsbDelete(c)
    <3>1. creator' = creator
      BY <2>1 DEF LsbDelete
    <3>2. alive' = alive \/ (toLsb[c].char \in Owned(MemberOf[c]) /\ alive' = alive \ {toLsb[c].char})
      BY <2>1, Zenon DEF LsbDelete
    <3>. QED
      BY <1>1, <3>1, <3>2 DEF Owned
  <2>2. CASE LsbCreate(c)
    <3>1. CASE UNCHANGED lsbVars
      BY <3>1 DEF lsbVars, Owned
    <3>2. CASE ~UNCHANGED lsbVars
      <4> DEFINE k == Lowest(Unminted)
      <4>1. /\ Unminted # {} /\ creator' = [creator EXCEPT ![k] = MemberOf[c]]
            /\ alive' = alive \cup {k}
        BY <2>2, <3>2, Zenon DEF LsbCreate
      <4>2. k \in Unminted
        BY <4>1, LowestIsMember, CharsAreNumbers DEF Unminted
      <4>. HIDE DEF k
      <4>. QED
        BY <1>1, <4>1, <4>2 DEF Owned, Unminted, TypeOK, WorldTypeOK
    <3>. QED
      BY <3>1, <3>2
  <2>. QED
    BY <2>1, <2>2, WhoChanges DEF Owned
<1>4. \A i \in IdsOf(d) : i \in HeldIds' <=> i \in HeldIds
  <2>1. \A h \in CharId :
          /\ idmap[h] # NoId => creator[h] \in Member /\ idmap[h] \in MayHold(creator[h])
          /\ idmap'[h] # NoId => creator'[h] \in Member /\ idmap'[h] \in MayHold(creator'[h])
    BY DEF Isolation, OwnPool, TypeOK, WorldTypeOK
  <2>2. \A h \in CharId, i \in IdsOf(d) : i # NoId =>
          /\ idmap[h] = i => creator[h] = MemberOf[d]
          /\ idmap'[h] = i => creator'[h] = MemberOf[d]
    BY <1>1, <2>1, HoldApart DEF IdsOf
  <2>3. \A h \in CharId : creator[h] = MemberOf[d] \/ creator'[h] = MemberOf[d] => idmap'[h] = idmap[h]
    <3>. SUFFICES ASSUME NEW h \in CharId, creator[h] = MemberOf[d] \/ creator'[h] = MemberOf[d]
                  PROVE  idmap'[h] = idmap[h]
      OBVIOUS
    <3>1. h \notin Minted(MemberOf[c])
      BY <1>1, <1>2, CreatorsKept DEF Minted
    <3>. QED
      BY <3>1, OwnTouch
  <2>. QED
    BY <2>2, <2>3 DEF HeldIds
<1>5. ASSUME NEW k \in CharId
      PROVE  /\ k \in Minted(MemberOf[d]) => named'[d][k] = named[d][k]
             /\ named'[d][k] \in {NoId, named[d][k]}
  <2>1. named \in [Conn -> Pairing]
    BY DEF TypeOK, WorldTypeOK
  <2>2. CASE PairSlot(c)
    <3>1. job[c].char \in CharId /\ job[c].char \in Minted(MemberOf[c])
      BY <1>2, <2>2, PairFacts
    <3>2. \/ named' = named
          \/ named' = [e \in Conn |-> [named[e] EXCEPT ![job[c].char] = NoId]]
      BY <2>2 DEF PairSlot
    <3>3. k \in Minted(MemberOf[d]) => k # job[c].char
      BY <1>1, <3>1 DEF Minted
    <3>. QED
      BY <2>1, <3>1, <3>2, <3>3 DEF Pairing
  <2>3. CASE LsbCreate(c)
    <3>1. named'[d] = named[d]
      <4>1. named' = named \/ \E i : named' = [named EXCEPT ![c][Lowest(Unminted)] = i]
        BY <2>3, Zenon DEF LsbCreate, lsbVars
      <4>. QED
        BY <2>1, <4>1
    <3>. QED
      BY <3>1
  <2>4. CASE Drop(c)
    BY <2>1, <2>4 DEF Drop
  <2>. QED
    BY <2>2, <2>3, <2>4, WhoChanges
<1>. QED
  BY <1>3, <1>4, <1>5

(* So a step of c keeps what is named on d.                                *)
LEMMA OthersNamed ==
  ASSUME Steady, Alone, TypeOK, TypeOK', Isolation, Isolation', NEW c \in Conn, WireOK(c),
         ScreenOK(c), ActsOn(c), NEW d \in Conn, d # c, JobOK(d), NamedOK(d)
  PROVE  NamedOK(d)'
<1>1. Same(d) /\ Untouched(d)
  BY OthersSame, OthersUntouched
<1>2. /\ Owned(MemberOf[d])' = Owned(MemberOf[d])
      /\ \A i \in IdsOf(d) : i \in HeldIds' <=> i \in HeldIds
      /\ \A k \in CharId : /\ k \in Minted(MemberOf[d]) => named'[d][k] = named[d][k]
                           /\ named'[d][k] \in {NoId, named[d][k]}
  BY OthersNames
<1>3. Names(d)'
  <2>1. pendingCreate[d] \in IdsOf(d) /\ job[d].prefer \in IdsOf(d) /\ view[d].offer \subseteq IdsOf(d)
    BY DEF Isolation, IdsStay
  <2>2. job[d].stage = "pair" => job[d].char \in Minted(MemberOf[d])
    BY SlotTyped, CharsAreNumbers DEF Isolation, JobsStay, TypeOK
  <2>. QED
    BY <1>1, <1>2, <2>1, <2>2 DEF Same, Untouched, Names, NamedOK
<1>4. Whole(d)'
  BY <1>1, <1>2 DEF Same, Whole, NamedOK
<1>5. Filled(d)'
  <2>1. \A k \in Tried(job[d]) : idmap'[k] # NoId \/ Pool[MemberOf[d]] \subseteq HeldIds'
    <3>1. Tried(job[d]) \subseteq Minted(MemberOf[d])
      BY DEF Tried, JobOK
    <3>2. Pool[MemberOf[d]] \subseteq HeldIds <=> Pool[MemberOf[d]] \subseteq HeldIds'
      BY <1>2, HoldApart DEF IdsOf
    <3>. QED
      BY <1>1, <3>1, <3>2 DEF Untouched, Filled, NamedOK
  <2>2. \A k \in Owned(MemberOf[d]) : k \in CharId /\ k \in Minted(MemberOf[d])
    BY OwnedTyped DEF Owned, Minted, TypeOK
  <2>. QED
    BY <1>1, <1>2, <2>1, <2>2 DEF Same, Untouched, Filled, NamedOK
<1>6. NewOne(d)'
  <2>1. \A k \in Owned(MemberOf[d]) : k \in CharId /\ k \in Minted(MemberOf[d])
    BY OwnedTyped DEF Owned, Minted, TypeOK
  <2>. SUFFICES ASSUME NEW k \in CharId, named'[d][k] # NoId
                PROVE  /\ life'[d] = "open" /\ k \in Owned(MemberOf[d])' /\ idmap'[k] = NoId
                       /\ \A j \in Owned(MemberOf[d])' \ {k} : idmap'[j] # NoId
                       /\ \/ pendingCreate'[d] = named'[d][k]
                          \/ job'[d].stage = "pair" /\ job'[d].char = k /\ job'[d].prefer = named'[d][k]
                       /\ \/ asked'[d].cmd = "commit" /\ toLsb'[d].cmd = "none"
                          \/ view'[d] = NoView /\ asked'[d].cmd \in {"none", "list"}
    BY DEF NewOne
  <2>2. named'[d][k] = named[d][k]
    BY <1>2
  <2>. QED
    BY <1>1, <1>2, <2>1, <2>2 DEF Same, Untouched, NewOne, NamedOK
<1>. QED
  BY <1>3, <1>4, <1>5, <1>6 DEF NamedOK

(* A command of the client's that is no list is alone on the wire.         *)
LEMMA CommandAlone ==
  ASSUME TypeOK, NEW c \in Conn, WireOK(c), life[c] = "open", toLsb[c].cmd \notin {"none", "list"}
  PROVE  /\ asked[c].cmd = toLsb[c].cmd /\ fromLsb[c] = <<>> /\ job[c].stage = "idle"
         /\ request[c] = 0
<1>1. OpenOK(c)
  BY DEF WireOK
<1>2. asked[c].cmd \notin {"none", "list"}
  BY <1>1 DEF OpenOK, Listing
<1>3. Awaiting(c) /\ swallow[c] # "fresh" /\ Busy(c) <= Due(c)
  BY <1>1, <1>2 DEF OpenOK
<1>4. asked[c].cmd = toLsb[c].cmd /\ fromLsb[c] = <<>>
  BY <1>3 DEF Awaiting
<1>5. /\ Early(c) = 0 /\ Asking(c) \in {0, 1} /\ Working(c) \in {0, 1} /\ Sent(c) = 1
      /\ request[c] \in Nat /\ Len(fromLsb[c]) \in Nat
  BY <1>3, CountsTyped, WireTyped DEF Early, Sent
<1>6. request[c] = 0
  BY <1>3, <1>5 DEF Busy, Due
<1>7. job[c].stage = "idle"
  BY <1>1, <1>2, ListAwaited
<1>. QED
  BY <1>4, <1>6, <1>7

(* Which steps send a command, and what else becomes of one on its way.    *)
LEMMA WhoSends ==
  ASSUME TypeOK, NEW c \in Conn, ActsOn(c)
  PROVE  /\ \/ toLsb'[c] = toLsb[c] \/ toLsb'[c].cmd = "none"
            \/ NameCheck(c) \/ Commit(c) \/ Delete(c)
            \/ (AskList(c) \/ Select(c)) /\ toLsb'[c].cmd \in {"list", "select"}
         /\ toLsb'[c] = toLsb[c] \/ Connect(c) \/ LsbView(c) \/ MayAsk(c) \/ CompanionDies(c)
         /\ \/ asked'[c] = asked[c] \/ Drop(c) \/ FinishList(c)
            \/ RelayDone(c) \/ RelayRefused(c) \/ RelayHandoff(c)
            \/ AskList(c) \/ NameCheck(c) \/ Commit(c) \/ Select(c) \/ Delete(c)
<1>1. CASE AskList(c) \/ Select(c)
  <2>1. PICK cmd \in {"list", "select"} : \E k, k2 : Send(c, cmd, k, NoId, k2)
    BY <1>1 DEF AskList, Select
  <2>2. toLsb'[c].cmd = cmd
    BY <2>1, CommandFields DEF Send, TypeOK, WorldTypeOK
  <2>. QED
    BY <1>1, <2>2 DEF AskList, Select
<1>2. CASE NameCheck(c) \/ Commit(c) \/ Delete(c)
  BY <1>2 DEF NameCheck, Commit, Delete
<1>3. CASE Connect(c)
  BY <1>3, CommandFields DEF Connect, clientVars, TypeOK, WorldTypeOK
<1>4. CASE LsbView(c)
  <2>1. asked' = asked /\ toLsb'[c] = NoCmd
    BY <1>4 DEF LsbView, LsbList, LsbCheck, LsbCreate, LsbDelete, LsbSelect, Answer,
                clientVars, TypeOK, WorldTypeOK
  <2>. QED
    BY <1>4, <2>1, CommandFields
<1>5. CASE CompanionDies(c)
  <2>1. asked' = asked /\ toLsb'[c] \in {toLsb[c], NoCmd}
    BY <1>5 DEF CompanionDies, clientVars, TypeOK, WorldTypeOK
  <2>. QED
    BY <1>5, <2>1, CommandFields
<1>6. CASE HangUp(c) \/ BlockCreate(c) \/ LsbCharList(c) \/ Expire(c)
  BY <1>6 DEF HangUp, BlockCreate, Drop, LsbCharList, Expire, wireVars, clientVars
<1>7. CASE Relay(c)
  BY <1>7 DEF Relay, RelayDone, RelayRefused, RelayHandoff, StartList, TakePrefer, PairSlot,
              NoteSlot, ReadSpent, JobFrame, FinishList, ListDone, Teardown, wireVars, clientVars
<1>. QED
  BY <1>1, <1>2, <1>3, <1>4, <1>5, <1>6, <1>7 DEF ActsOn, Player

(* What holds of a connection before each step of its own.                 *)
Ready(c) ==
  /\ TypeOK /\ UniqueContentId /\ Isolation
  /\ WireOK(c) /\ JobOK(c) /\ ScreenOK(c) /\ Living(c) /\ NamedOK(c)

(* An id is only named while the screen offers it and nothing is under way.*)
LEMMA NamingFacts ==
  ASSUME Steady, NEW c \in Conn, Ready(c), NameCheck(c) \/ Commit(c)
  PROVE  /\ pendingCreate'[c] \in view[c].offer /\ pendingCreate'[c] \notin HeldIds \cup {NoId}
         /\ toLsb'[c].cmd \in {"check", "commit"} /\ toLsb'[c].id = pendingCreate'[c]
         /\ job[c].stage = "idle" /\ toLsb[c].cmd = "none" /\ view[c] # NoView
         /\ UNCHANGED <<idmap, job, view, life, named>>
<1>1. PICK cmd \in {"check", "commit"}, i \in Nameable(c) :
        Send(c, cmd, NoChar, i, NoChar) /\ RecordNamed(c, i)
  BY DEF NameCheck, Commit
<1>2. view[c] # NoView /\ Nameable(c) = view[c].offer
  <2>1. Nameable(c) = view[c].offer
    BY SteadyNames, Zenon DEF Steady
  <2>. QED
    BY <1>1, <2>1, NamesFromScreen
<1>3. job[c].stage = "idle" /\ toLsb[c].cmd = "none"
  BY <1>2, Quiet DEF NameCheck, Commit, MayAsk, Ready
<1>4. i # NoId
  BY <1>1, <1>2, IdsAreNumbers DEF Ready, TypeOK, WorldTypeOK, Screen
<1>5. pendingCreate'[c] = i /\ toLsb'[c].cmd = cmd /\ toLsb'[c].id = i
  BY <1>1, <1>4, CommandFields DEF Send, RecordNamed, Ready, TypeOK, BridgeTypeOK, WorldTypeOK
<1>6. i \notin HeldIds
  BY <1>1, <1>2, <1>3 DEF Ready, NamedOK, Names
<1>7. UNCHANGED <<idmap, job, view, life, named>>
  BY DEF NameCheck, Commit, Send, mapVars, lsbVars
<1>. QED
  BY <1>1, <1>2, <1>3, <1>4, <1>5, <1>6, <1>7

(* A list job, and the reply relayed, leave no commit on its way.          *)
LEMMA NoCommitBeside ==
  ASSUME TypeOK, NEW c \in Conn, WireOK(c), life[c] = "open",
         job[c].stage # "idle" \/ fromLsb[c] # <<>>
  PROVE  toLsb[c].cmd \in {"none", "list"}
BY CommandAlone

(* A step of c keeps the id named on it free until its character takes it. *)
LEMMA OwnNames ==
  ASSUME Steady, NEW c \in Conn, Ready(c), TypeOK', Isolation', ActsOn(c)
  PROVE  Names(c)'
<1>1. TypeOK /\ UniqueContentId /\ Isolation /\ WireOK(c) /\ JobOK(c) /\ ScreenOK(c) /\ Names(c)
  BY DEF Ready, NamedOK
<1>2. [Next]_vars /\ NoId \notin HeldIds /\ NoId \notin HeldIds'
  BY DEF Next, ActsOn, HeldIds
<1>3. idmap' = idmap => HeldIds' = HeldIds
  BY DEF HeldIds
<1>4. pendingCreate \in [Conn -> ContentId \cup {NoId}] /\ job \in [Conn -> JobType]
  BY <1>1 DEF TypeOK, BridgeTypeOK
<1>5. CASE NameCheck(c) \/ Commit(c)
  BY <1>1, <1>3, <1>5, NamingFacts DEF Names
<1>6. CASE TakePrefer(c)
  <2> DEFINE k == Lowest(job[c].todo)
             p == IF idmap[k] = NoId THEN pendingCreate[c] ELSE NoId
  <2>1. /\ job'[c] = Picked(job[c], k, p) /\ job[c].stage # "idle" /\ idmap' = idmap
        /\ pendingCreate'[c] = (IF idmap[k] = NoId THEN NoId ELSE pendingCreate[c])
        /\ life' = life /\ toLsb' = toLsb
    BY <1>1, <1>4, <1>6, SlotJobs DEF TakePrefer, JobFrame, mapVars, wireVars
  <2>2. job'[c].stage = "pair" /\ job'[c].char = k /\ job'[c].prefer = p
    BY <1>4, <2>1, PickedFields
  <2>3. life[c] = "open" => toLsb[c].cmd \in {"none", "list"}
    BY <1>1, <2>1, NoCommitBeside
  <2>4. pendingCreate'[c] \notin HeldIds' /\ p \notin HeldIds'
    BY <1>1, <1>2, <1>3, <2>1 DEF Names
  <2>5. idmap'[k] = NoId => pendingCreate'[c] = NoId
    BY <2>1
  <2>. HIDE DEF k, p
  <2>. QED
    BY <2>1, <2>2, <2>3, <2>4, <2>5 DEF Names
<1>7. CASE PairSlot(c)
  <2>1. /\ UNCHANGED <<pendingCreate, life, toLsb, view>> /\ job[c].stage = "pair"
        /\ job'[c].stage = "note"
    <3>1. \A id : Paired(job[c], id).stage = "note"
      BY <1>4, PairedFields
    <3>. QED
      BY <1>1, <1>7, <3>1, SlotJobs DEF PairSlot, JobFrame, wireVars, clientVars
  <2>2. pendingCreate[c] \notin HeldIds'
    <3>1. CASE idmap[job[c].char] # NoId
      BY <1>1, <1>2, <1>3, <1>7, <3>1, PairFacts DEF Names
    <3>2. CASE idmap[job[c].char] = NoId
      BY <1>1, <1>2, <2>1, <3>2 DEF Names
    <3>. QED
      BY <3>1, <3>2
  <2>. QED
    BY <1>1, <2>1, <2>2 DEF Names
<1>8. CASE Delete(c)
  <2>1. UNCHANGED <<pendingCreate, job, view>> /\ job[c].stage = "idle"
    BY <1>1, <1>8, PickingQuiet DEF Delete, Send, bridgeVars
  <2>2. toLsb'[c].cmd = "delete"
    BY <1>1, <1>8, CommandFields DEF Delete, Send, TypeOK, WorldTypeOK
  <2>3. HeldIds' \subseteq HeldIds
    <3>1. \A h \in CharId : idmap'[h] \in {NoId, idmap[h]}
      BY <1>1, <1>8 DEF Delete, Release, mapVars, TypeOK, MapTypeOK, Pairing
    <3>. QED
      BY <3>1 DEF HeldIds
  <2>. QED
    BY <1>1, <2>1, <2>2, <2>3 DEF Names
<1>9. CASE Teardown(c) \/ Drop(c)
  <2>1. /\ pendingCreate'[c] \in {NoId, pendingCreate[c]} /\ UNCHANGED <<job, idmap>>
        /\ life'[c] # "open" /\ view'[c] \in {view[c], NoView}
        /\ view'[c] = view[c] \/ Drop(c)
    BY <1>1, <1>9 DEF Teardown, Drop, mapVars, bridgeVars, clientVars, TypeOK, BridgeTypeOK, WorldTypeOK
  <2>2. job[c].stage = "pair" => pendingCreate'[c] \in {NoId, pendingCreate[c]}
    BY <2>1
  <2>3. NoView.offer = {}
    BY DEF NoView
  <2>. QED
    BY <1>1, <1>2, <1>3, <2>1, <2>3 DEF Names
<1>10. CASE FinishList(c)
  <2>1. /\ UNCHANGED <<pendingCreate, idmap, life, toLsb>> /\ job[c].stage # "idle"
        /\ job'[c].stage = "idle"
    BY <1>4, <1>10, Constants DEF FinishList, ListDone, mapVars, wireVars
  <2>2. life[c] = "open" => toLsb[c].cmd \in {"none", "list"}
    BY <1>1, <2>1, NoCommitBeside
  <2>3. view'[c].offer \cap HeldIds = {}
    <3>1. CASE life[c] = "open" /\ swallow[c] # "fresh"
      BY <1>1, <1>10, <3>1, DeliveredScreen
    <3>2. CASE ~(life[c] = "open" /\ swallow[c] # "fresh")
      <4>1. view[c] = NoView
        BY <1>1, <3>2 DEF WireOK, OpenOK, ShutOK
      <4>. QED
        BY <1>10, <3>2, <4>1 DEF FinishList, clientVars, NoView
    <3>. QED
      BY <3>1, <3>2
  <2>. QED
    BY <1>1, <1>3, <2>1, <2>2, <2>3 DEF Names
<1>11. CASE RelayDone(c)
  <2>1. /\ UNCHANGED <<pendingCreate, idmap, life, toLsb, job>> /\ view'[c] = ScreenAfter(c)
        /\ life[c] = "open" /\ fromLsb[c] # <<>>
    BY <1>1, <1>11 DEF RelayDone, Relaying, mapVars, TypeOK, WorldTypeOK
  <2>2. toLsb[c].cmd \in {"none", "list"}
    BY <1>1, <2>1, NoCommitBeside
  <2>3. view'[c].offer \subseteq view[c].offer
    BY <1>1, <2>1 DEF ScreenAfter, NoView, TypeOK, WorldTypeOK, Screen
  <2>. QED
    BY <1>1, <1>3, <2>1, <2>2, <2>3 DEF Names
<1>12. CASE ~(\/ NameCheck(c) \/ Commit(c) \/ TakePrefer(c) \/ PairSlot(c) \/ Delete(c)
              \/ Teardown(c) \/ Drop(c) \/ FinishList(c) \/ RelayDone(c))
  <2>1. UNCHANGED <<idmap, pendingCreate, view>>
    BY <1>12, WhoChanges
  <2>2. toLsb'[c] = toLsb[c] \/ toLsb'[c].cmd # "commit"
    BY <1>1, <1>12, WhoSends
  <2>3. life'[c] = life[c] \/ toLsb'[c].cmd = "none"
    BY <1>1, <1>12, WhoChanges, CommandFields DEF Connect, TypeOK, WorldTypeOK
  <2>4. job'[c] = job[c] \/ job'[c].stage \in {"slot", "offer"}
    BY <1>1, <1>4, <1>12, WhoChanges, SlotJobs, NotedFields, StartedFields, OfferingFields
    DEF StartList
  <2>. QED
    BY <1>1, <1>3, <2>1, <2>2, <2>3, <2>4 DEF Names
<1>. QED
  BY <1>5, <1>6, <1>7, <1>8, <1>9, <1>10, <1>11, <1>12

(* A character is only added to an account by a create.                    *)
LEMMA OwnedShrinks ==
  ASSUME NEW c \in Conn, ActsOn(c), ~LsbCreate(c), NEW m
  PROVE  Owned(m)' \subseteq Owned(m)
<1>1. CASE LsbDelete(c)
  <2>1. alive' = alive \/ alive' = alive \ {toLsb[c].char}
    BY <1>1, Zenon DEF LsbDelete
  <2>2. creator' = creator
    BY <1>1 DEF LsbDelete
  <2>. QED
    BY <2>1, <2>2 DEF Owned
<1>. QED
  BY <1>1, WhoChanges DEF Owned

(* What a create adds: a character nobody ever had, unpaired.              *)
LEMMA CreateFacts ==
  ASSUME Steady, NEW c \in Conn, Ready(c), LsbCreate(c)
  PROVE  \E k \in CharId \ Minted(MemberOf[c]) :
           /\ idmap[k] = NoId /\ Owned(MemberOf[c])' = Owned(MemberOf[c]) \cup {k}
           /\ \A h \in CharId : named'[c][h] =
                IF h # k THEN named[c][h] ELSE IF life[c] = "open" THEN toLsb[c].id ELSE NoId
           /\ toLsb[c].cmd = "commit" /\ toLsb'[c].cmd = "none"
           /\ fromLsb'[c] = (IF life[c] = "open" THEN Append(fromLsb[c], Reply("done", {}))
                             ELSE fromLsb[c])
           /\ UNCHANGED <<idmap, life, pendingCreate, job, asked, view>>
<1> DEFINE k == Lowest(Unminted)
<1>1. TypeOK /\ OwnPool(idmap) /\ MemberOf[c] \in Member /\ NoMember \notin Member
  BY LobbyAssumption DEF Ready, Isolation
<1>2. /\ Unminted # {} /\ creator' = [creator EXCEPT ![k] = MemberOf[c]]
      /\ alive' = alive \cup {k} /\ toLsb[c].cmd = "commit" /\ Answer(c, Reply("done", {}))
      /\ named' = [named EXCEPT ![c][k] = IF life[c] = "open" THEN toLsb[c].id ELSE NoId]
  BY Zenon DEF LsbCreate, Steady
<1>3. k \in CharId /\ creator[k] = NoMember
  BY <1>2, LowestIsMember, CharsAreNumbers DEF Unminted
<1>. HIDE DEF k
<1>4. idmap[k] = NoId /\ k \notin Minted(MemberOf[c])
  BY <1>1, <1>3 DEF OwnPool, Minted
<1>5. Owned(MemberOf[c])' = Owned(MemberOf[c]) \cup {k}
  BY <1>1, <1>2, <1>3 DEF Owned, TypeOK, WorldTypeOK
<1>6. \A h \in CharId : named'[c][h] =
        IF h # k THEN named[c][h] ELSE IF life[c] = "open" THEN toLsb[c].id ELSE NoId
  BY <1>1, <1>2, <1>3 DEF TypeOK, WorldTypeOK, Pairing
<1>7. /\ toLsb'[c] = NoCmd
      /\ fromLsb'[c] = (IF life[c] = "open" THEN Append(fromLsb[c], Reply("done", {})) ELSE fromLsb[c])
      /\ UNCHANGED <<idmap, life, pendingCreate, job, asked, view>>
  BY <1>1, <1>2 DEF Answer, mapVars, bridgeVars, clientVars, TypeOK, WorldTypeOK
<1>. QED
  BY <1>2, <1>3, <1>4, <1>5, <1>6, <1>7, CommandFields

(* A queue of lists that leave nobody of S out.                            *)
AllOf(replies, S) ==
  \A n \in 1 .. Len(replies) : replies[n].what = "list" => S \subseteq replies[n].chars

(* Such a queue with one more reply, or without its oldest.                *)
LEMMA AllOps ==
  ASSUME NEW S, NEW q \in Seq(Replies), AllOf(q, S)
  PROVE  /\ \A r \in Replies : r.what # "list" \/ S \subseteq r.chars => AllOf(Append(q, r), S)
         /\ q # <<>> => AllOf(Tail(q), S)
         /\ AllOf(<<>>, S)
<1>1. ASSUME NEW r \in Replies, r.what # "list" \/ S \subseteq r.chars
      PROVE  AllOf(Append(q, r), S)
  BY <1>1 DEF AllOf
<1>2. ASSUME q # <<>>
      PROVE  AllOf(Tail(q), S)
  <2>1. Len(Tail(q)) = Len(q) - 1 /\ \A n \in 1 .. Len(q) - 1 : Tail(q)[n] = q[n + 1]
    BY <1>2, QueueFacts
  <2>2. \A n \in 1 .. Len(q) - 1 : n + 1 \in 1 .. Len(q)
    BY QueueFacts
  <2>. QED
    BY <2>1, <2>2 DEF AllOf
<1>. QED
  BY <1>1, <1>2 DEF AllOf

(* A step of c keeps its lists whole.                                      *)
LEMMA OwnWhole ==
  ASSUME Steady, NEW c \in Conn, Ready(c), ActsOn(c)
  PROVE  Whole(c)'
<1>1. TypeOK /\ WireOK(c) /\ Whole(c) /\ [Next]_vars
  BY DEF Ready, NamedOK, Next, ActsOn
<1>2. fromLsb[c] \in Seq(Replies) /\ job \in [Conn -> JobType]
  BY <1>1 DEF TypeOK, BridgeTypeOK, WorldTypeOK
<1>. SUFFICES ASSUME life'[c] = "open"
              PROVE  /\ AllOf(fromLsb'[c], Owned(MemberOf[c])')
                     /\ job'[c].stage # "idle" => Owned(MemberOf[c])' \subseteq job'[c].listed
  BY DEF Whole, AllOf
<1>3. CASE Connect(c)
  <2>1. fromLsb[c] = <<>> /\ job[c].stage = "idle" /\ UNCHANGED <<fromLsb, job>>
    BY <1>1, <1>3 DEF Connect, WireOK, ShutOK, bridgeVars
  <2>. QED
    BY <1>2, <2>1 DEF AllOf
<1>4. CASE LsbCreate(c)
  <2>1. life[c] = "open" /\ job' = job /\ fromLsb'[c] = Append(fromLsb[c], Reply("done", {}))
        /\ toLsb[c].cmd = "commit"
    BY <1>4, CreateFacts
  <2>2. fromLsb[c] = <<>> /\ job[c].stage = "idle"
    BY <1>1, <2>1, CommandAlone
  <2>3. Reply("done", {}) \in Replies /\ Reply("done", {}).what # "list" /\ <<>> \in Seq(Replies)
    BY DEF Reply, Replies
  <2>4. AllOf(<<>>, Owned(MemberOf[c])')
    BY DEF AllOf
  <2>5. AllOf(Append(<<>>, Reply("done", {})), Owned(MemberOf[c])')
    BY <2>3, <2>4, AllOps
  <2>. QED
    BY <2>1, <2>2, <2>5
<1>5. CASE ~Connect(c) /\ ~LsbCreate(c)
  <2> DEFINE S == Owned(MemberOf[c])
  <2>1. Owned(MemberOf[c])' \subseteq S
    BY <1>5, OwnedShrinks
  <2>2. life[c] = "open"
    BY <1>1, <1>5, WhoChanges DEF Drop, Teardown, TypeOK, BridgeTypeOK
  <2>3. AllOf(fromLsb[c], S) /\ (job[c].stage # "idle" => S \subseteq job[c].listed)
    BY <1>1, <2>2 DEF Whole, AllOf
  <2>4. AllOf(fromLsb'[c], S)
    <3>1. CASE \E r \in Replies : /\ fromLsb'[c] = Append(fromLsb[c], r)
                                  /\ r.what # "list" \/ r.chars = S
      <4>1. PICK r \in Replies : /\ fromLsb'[c] = Append(fromLsb[c], r)
                                 /\ r.what # "list" \/ r.chars = S
        BY <3>1
      <4>2. r.what # "list" \/ S \subseteq r.chars
        BY <4>1
      <4>. HIDE DEF S
      <4>. QED
        BY <1>2, <2>3, <4>1, <4>2, AllOps
    <3>. QED
      BY <1>1, <1>2, <2>3, <3>1, StepWire, AllOps DEF WireStep
  <2>5. job'[c].stage # "idle" => S \subseteq job'[c].listed
    <3>1. CASE StartList(c)
      <4>1. job'[c] = Started(NextReply(c).chars)
        BY <1>2, <3>1 DEF StartList
      <4>2. fromLsb[c] # <<>> /\ NextReply(c) = fromLsb[c][1] /\ NextReply(c).what = "list"
        BY <1>2, <3>1, QueueFacts DEF StartList, Relaying, NextReply
      <4>3. 1 \in 1 .. Len(fromLsb[c])
        BY <1>2, <4>2
      <4>. HIDE DEF S
      <4>. QED
        BY <2>3, <4>1, <4>2, <4>3, StartedFields DEF AllOf
    <3>2. CASE TakePrefer(c) \/ PairSlot(c) \/ NoteSlot(c) \/ ReadSpent(c)
      <4>1. job[c].stage # "idle"
        BY <3>2 DEF TakePrefer, PairSlot, NoteSlot, ReadSpent
      <4>2. job'[c].listed = job[c].listed
        <5>. job[c] \in JobType
          BY <1>2
        <5>1. \A k, p : Picked(job[c], k, p).listed = job[c].listed
          BY PickedFields
        <5>2. \A id : Paired(job[c], id).listed = job[c].listed
          BY PairedFields
        <5>3. Noted(job[c]).listed = job[c].listed
          BY NotedFields
        <5>4. Offering(job[c], HeldIds).listed = job[c].listed
          BY OfferingFields
        <5>. QED
          BY <1>1, <3>2, <5>1, <5>2, <5>3, <5>4, SlotJobs
      <4>. QED
        BY <2>3, <4>1, <4>2
    <3>3. CASE FinishList(c)
      BY <1>2, <3>3 DEF FinishList, ListDone, NoJob
    <3>. QED
      BY <2>3, <3>1, <3>2, <3>3, WhoChanges
  <2>. HIDE DEF S
  <2>. QED
    BY <2>1, <2>4, <2>5 DEF AllOf
<1>. QED
  BY <1>3, <1>4, <1>5

(* A step of c leaves every character it tried to pair paired, or the pool *)
(* spent.                                                                  *)
LEMMA OwnTried ==
  ASSUME Steady, Heeded, NEW c \in Conn, Ready(c), TypeOK', Isolation', ActsOn(c),
         NEW k \in Tried(job'[c])
  PROVE  idmap'[k] # NoId \/ Pool[MemberOf[c]] \subseteq HeldIds'
<1>1. TypeOK /\ Isolation /\ WireOK(c) /\ JobOK(c) /\ Names(c) /\ [Next]_vars
  BY DEF Ready, NamedOK, Next, ActsOn
<1>2. \A h \in Tried(job[c]) : idmap[h] # NoId \/ Pool[MemberOf[c]] \subseteq HeldIds
  BY DEF Ready, NamedOK, Filled
<1>3. job[c] \in JobType /\ job[c].listed \subseteq CharId /\ NoChar \notin CharId
  BY <1>1, CharsAreNumbers DEF TypeOK, BridgeTypeOK, JobType
<1>4. Tried(NoJob) = {}
  BY DEF Tried, NoJob
<1>5. ASSUME k \in Tried(job[c]), idmap' = idmap
      PROVE  idmap'[k] # NoId \/ Pool[MemberOf[c]] \subseteq HeldIds'
  BY <1>2, <1>5 DEF HeldIds
<1>6. CASE StartList(c)
  <2>1. job'[c] = Started(NextReply(c).chars)
    BY <1>1, <1>6 DEF StartList, TypeOK, BridgeTypeOK
  <2>. QED
    BY <2>1, StartedFields DEF Tried, Rest
<1>7. CASE TakePrefer(c)
  <2>1. /\ idmap' = idmap /\ job[c].stage = "slot" /\ job[c].char = NoChar
        /\ Lowest(job[c].todo) \in job[c].todo
    BY <1>1, <1>3, <1>7, LowestIsMember, CharsAreNumbers
    DEF TakePrefer, mapVars, TypeOK, BridgeTypeOK, JobType
  <2>2. PICK p : job'[c] = Picked(job[c], Lowest(job[c].todo), p)
    BY <1>1, <1>7, SlotJobs
  <2>3. /\ job'[c].listed = job[c].listed /\ job'[c].stage = "pair"
        /\ Rest(job'[c]) = job[c].todo
    BY <1>3, <2>1, <2>2, PickedFields DEF Rest
  <2>4. k \in Tried(job[c])
    BY <1>3, <2>1, <2>3 DEF Tried, Rest
  <2>. QED
    BY <1>5, <2>1, <2>4
<1>8. CASE PairSlot(c)
  <2>1. PICK id : job'[c] = Paired(job[c], id)
    BY <1>1, <1>8, SlotJobs
  <2>2. /\ job'[c].listed = job[c].listed /\ job'[c].stage = "note"
        /\ job'[c].todo = job[c].todo
    <3>. job[c] \in JobType
      BY <1>3
    <3>1. /\ Paired(job[c], id).listed = job[c].listed /\ Paired(job[c], id).stage = "note"
          /\ Paired(job[c], id).todo = job[c].todo
      BY PairedFields, Zenon
    <3>. QED
      BY <2>1, <3>1
  <2>3. job[c].stage = "pair"
    BY <1>8 DEF PairSlot
  <2>4. k \in CharId /\ (k = job[c].char \/ k \in Tried(job[c]))
    BY <1>3, <2>2, <2>3 DEF Tried, Rest
  <2>5. HeldIds \subseteq HeldIds' /\ (idmap[k] # NoId => idmap'[k] # NoId)
    BY <1>1, <1>8, <2>4, PairFacts
  <2>6. CASE k = job[c].char
    <3>1. job[c].prefer \notin HeldIds
      BY <1>1, <2>3 DEF Names
    <3>2. "db" \notin Faults
      BY Zenon DEF Heeded
    <3>. QED
      BY <1>1, <1>8, <2>5, <2>6, <3>1, <3>2, PairFacts
  <2>. QED
    BY <1>2, <2>4, <2>5, <2>6
<1>9. CASE NoteSlot(c)
  <2>1. idmap' = idmap /\ job[c].stage = "note" /\ job'[c] = Noted(job[c])
    BY <1>1, <1>9, SlotJobs DEF NoteSlot, Note
  <2>2. job'[c].listed = job[c].listed /\ job'[c].stage = "slot" /\ job'[c].todo = job[c].todo
    BY <1>3, <2>1, NotedFields
  <2>3. k \in Tried(job[c])
    BY <2>1, <2>2 DEF Tried, Rest
  <2>. QED
    BY <1>5, <2>1, <2>3
<1>10. CASE FinishList(c)
  BY <1>1, <1>4, <1>10 DEF FinishList, ListDone, TypeOK, BridgeTypeOK
<1>11. CASE Delete(c)
  <2>1. job' = job /\ job[c].stage = "idle"
    BY <1>1, <1>11, PickingQuiet DEF Delete, bridgeVars
  <2>. QED
    BY <1>1, <1>4, <2>1 DEF JobOK
<1>12. CASE ReadSpent(c)
  <2>1. idmap' = idmap /\ job[c].stage = "slot" /\ job'[c] = Offering(job[c], HeldIds)
    BY <1>1, <1>12, SlotJobs DEF ReadSpent, mapVars
  <2>2. /\ job'[c].listed = job[c].listed /\ job'[c].stage = "offer"
        /\ job'[c].todo = job[c].todo /\ job'[c].char = job[c].char
    BY <1>3, <2>1, OfferingFields
  <2>3. k \in Tried(job[c])
    BY <2>1, <2>2 DEF Tried, Rest
  <2>. QED
    BY <1>5, <2>1, <2>3
<1>. QED
  BY <1>5, <1>6, <1>7, <1>8, <1>9, <1>10, <1>11, <1>12, WhoChanges

(* A list that reaches the client and offers an id leaves nobody unpaired. *)
LEMMA OfferedAll ==
  ASSUME Steady, NEW c \in Conn, Ready(c), TypeOK', Isolation', FinishList(c),
         life[c] = "open", swallow[c] # "fresh", view'[c].offer # {}
  PROVE  /\ ~(Pool[MemberOf[c]] \subseteq HeldIds)
         /\ \A k \in Owned(MemberOf[c]) : idmap[k] # NoId
<1>1. TypeOK /\ UniqueContentId /\ JobOK(c) /\ Whole(c) /\ Filled(c)
  BY DEF Ready, NamedOK
<1>2. view'[c].offer \subseteq ContentId \ HeldIds
  BY <1>1, DeliveredScreen
<1>3. view'[c].offer \subseteq Pool[MemberOf[c]]
  <2>1. view'[c].offer \subseteq IdsOf(c)
    BY DEF Isolation, IdsStay, IdsOf
  <2>. QED
    BY <1>2, <2>1, IdsAreNumbers, HoldApart DEF IdsOf
<1>4. job[c].stage = "offer" /\ job[c].todo = {} /\ job[c].char = NoChar
  BY <1>1 DEF FinishList, ListDone, JobOK, SpentOK, TypeOK, BridgeTypeOK
<1>5. Owned(MemberOf[c]) \subseteq Tried(job[c])
  BY <1>1, <1>4, OwnedTyped, CharsAreNumbers DEF Whole, Tried, Rest, TypeOK
<1>. QED
  BY <1>1, <1>2, <1>3, <1>5 DEF Filled

(* A step of c leaves nobody unpaired on a screen that offers an id, but   *)
(* the character just created.                                             *)
LEMMA OwnListed ==
  ASSUME Steady, Heeded, NEW c \in Conn, Ready(c), TypeOK', Isolation', ActsOn(c),
         life'[c] = "open", job'[c].stage = "idle", view'[c].offer # {},
         NEW k \in Owned(MemberOf[c])'
  PROVE  \/ idmap'[k] # NoId \/ named'[c][k] # NoId
         \/ toLsb'[c].cmd = "delete" /\ k = toLsb'[c].char
<1>1. TypeOK /\ WireOK(c) /\ JobOK(c) /\ ScreenOK(c) /\ Names(c) /\ Filled(c)
  BY DEF Ready, NamedOK
<1>2. NoView.offer = {} /\ k \in CharId
  BY DEF NoView, Owned, TypeOK, WorldTypeOK
<1>3. ASSUME life[c] = "open", job[c].stage = "idle", view[c].offer # {}
      PROVE  \A h \in Owned(MemberOf[c]) :
               \/ idmap[h] # NoId \/ named[c][h] # NoId
               \/ toLsb[c].cmd = "delete" /\ h = toLsb[c].char
  BY <1>1, <1>3 DEF Filled
<1>4. CASE Connect(c)
  BY <1>1, <1>2, <1>4 DEF Connect, clientVars, WireOK, ShutOK
<1>5. CASE LsbCreate(c)
  <2>1. PICK h \in CharId \ Minted(MemberOf[c]) :
           /\ Owned(MemberOf[c])' = Owned(MemberOf[c]) \cup {h}
           /\ \A j \in CharId : named'[c][j] =
                IF j # h THEN named[c][j] ELSE IF life[c] = "open" THEN toLsb[c].id ELSE NoId
           /\ toLsb[c].cmd = "commit"
           /\ UNCHANGED <<idmap, life, job, view>>
    BY <1>5, CreateFacts
  <2>2. toLsb[c].id # NoId
    BY <1>1, <2>1 DEF Names
  <2>. QED
    BY <1>2, <1>3, <2>1, <2>2
<1>6. CASE LsbDelete(c)
  <2>1. UNCHANGED <<idmap, life, job, view, named, creator>> /\ toLsb[c].cmd = "delete"
    BY <1>6 DEF LsbDelete, Answer, mapVars, bridgeVars, clientVars
  <2>2. \/ alive' = alive \ {toLsb[c].char}
        \/ toLsb[c].char \notin Owned(MemberOf[c]) /\ alive' = alive
    BY <1>6, Zenon DEF LsbDelete, Heeded
  <2>3. k \in Owned(MemberOf[c]) /\ k # toLsb[c].char
    BY <2>1, <2>2 DEF Owned
  <2>. QED
    BY <1>3, <2>1, <2>3
<1>7. CASE Delete(c)
  <2>1. /\ UNCHANGED <<life, job, view, named, creator, alive>>
        /\ job[c].stage = "idle" /\ toLsb[c].cmd = "none"
    BY <1>1, <1>7, PickingQuiet DEF Delete, Send, bridgeVars, lsbVars
  <2>2. PICK p \in view[c].listed :
          /\ Send(c, "delete", p, NoId, Translate(c, p))
          /\ Release(Translate(c, p)) \/ UNCHANGED mapVars
    BY <1>7 DEF Delete
  <2>3. toLsb'[c].cmd = "delete" /\ toLsb'[c].char = Translate(c, p)
    BY <1>1, <2>2, CommandFields DEF Send, TypeOK, WorldTypeOK
  <2>4. k # Translate(c, p) => idmap'[k] = idmap[k]
    BY <1>1, <1>2, <2>2 DEF Release, mapVars, TypeOK, MapTypeOK, Pairing
  <2>5. k \in Owned(MemberOf[c])
    BY <2>1 DEF Owned
  <2>. QED
    BY <1>3, <2>1, <2>3, <2>4, <2>5
<1>8. CASE FinishList(c)
  <2>1. idmap' = idmap /\ life' = life /\ UNCHANGED lsbVars
    BY <1>8 DEF FinishList, ListDone, mapVars
  <2>2. k \in Owned(MemberOf[c])
    BY <2>1 DEF lsbVars, Owned
  <2>3. swallow[c] # "fresh"
    <3>. SUFFICES ASSUME swallow[c] = "fresh" PROVE FALSE
      OBVIOUS
    <3>1. view'[c] = view[c] /\ view[c] = NoView
      BY <1>1, <1>8, <2>1 DEF FinishList, clientVars, WireOK, OpenOK
    <3>. QED
      BY <1>2, <3>1
  <2>. QED
    BY <1>8, <2>1, <2>2, <2>3, OfferedAll
<1>9. CASE StartList(c) \/ TakePrefer(c) \/ PairSlot(c) \/ NoteSlot(c) \/ ReadSpent(c)
  <2>1. job'[c].stage # "idle"
    <3>. job[c] \in JobType
      BY <1>1, SlotJobs
    <3>1. \A h, p : Picked(job[c], h, p).stage = "pair"
      BY PickedFields
    <3>2. \A id : Paired(job[c], id).stage = "note"
      BY PairedFields
    <3>3. Noted(job[c]).stage = "slot"
      BY NotedFields
    <3>4. StartList(c) => job'[c].stage = "slot"
      BY <1>1, StartedFields DEF StartList, TypeOK, BridgeTypeOK
    <3>5. Offering(job[c], HeldIds).stage = "offer"
      BY OfferingFields
    <3>. QED
      BY <1>1, <1>9, <3>1, <3>2, <3>3, <3>4, <3>5, SlotJobs
  <2>. QED
    BY <2>1
<1>10. CASE Drop(c) \/ Teardown(c)
  BY <1>1, <1>10 DEF Drop, Teardown, TypeOK, BridgeTypeOK
<1>11. CASE ~(\/ Connect(c) \/ LsbCreate(c) \/ LsbDelete(c) \/ Delete(c) \/ FinishList(c)
              \/ StartList(c) \/ TakePrefer(c) \/ PairSlot(c) \/ NoteSlot(c) \/ ReadSpent(c)
              \/ Drop(c) \/ Teardown(c))
  <2>1. UNCHANGED <<idmap, named, job, creator, alive, life>> /\ k \in Owned(MemberOf[c])
    BY <1>11, WhoChanges DEF Owned
  <2>2. view[c].offer # {}
    <3>1. RelayDone(c) => view'[c].offer \subseteq view[c].offer
      BY <1>1 DEF RelayDone, ScreenAfter, NoView, TypeOK, WorldTypeOK, Screen
    <3>. QED
      BY <1>11, <3>1, WhoChanges
  <2>3. toLsb[c].cmd = "delete" => toLsb'[c] = toLsb[c]
    <3>. SUFFICES ASSUME toLsb[c].cmd = "delete" PROVE toLsb'[c] = toLsb[c]
      OBVIOUS
    <3>1. asked[c].cmd = "delete"
      BY <1>1, <2>1, CommandAlone
    <3>2. ~LsbView(c)
      BY <1>11 DEF LsbView, LsbList, LsbCheck, LsbSelect, LsbCreate
    <3>3. CompanionDies(c) => toLsb'[c] = toLsb[c]
      BY DEF CompanionDies
    <3>. QED
      BY <1>1, <1>11, <3>1, <3>2, <3>3, WhoSends DEF MayAsk
  <2>. QED
    BY <1>3, <2>1, <2>2, <2>3
<1>. QED
  BY <1>4, <1>5, <1>6, <1>7, <1>8, <1>9, <1>10, <1>11

(* So it keeps the screen and the list of c filled.                        *)
LEMMA OwnFilled ==
  ASSUME Steady, Heeded, NEW c \in Conn, Ready(c), TypeOK', Isolation', ActsOn(c)
  PROVE  Filled(c)'
BY OwnTried, OwnListed DEF Filled

(* What NewOne says of one character, and of the client that waits for it. *)
Pending(c, k) ==
  \/ pendingCreate[c] = named[c][k]
  \/ job[c].stage = "pair" /\ job[c].char = k /\ job[c].prefer = named[c][k]
Unseen(c) ==
  \/ asked[c].cmd = "commit" /\ toLsb[c].cmd = "none"
  \/ view[c] = NoView /\ asked[c].cmd \in {"none", "list"}

(* While a character waits for its id, the client can only ask for a list, *)
(* and LSB has nothing else to answer.                                     *)
LEMMA UnseenFacts ==
  ASSUME Steady, NEW c \in Conn, Ready(c), life[c] = "open", Unseen(c)
  PROVE  /\ toLsb[c].cmd \in {"none", "list"}
         /\ MayAsk(c) => view[c] = NoView /\ view[c].listed = {} /\ Nameable(c) = {}
         /\ ~LsbCreate(c) /\ ~LsbDelete(c) /\ ~NameCheck(c) /\ ~Commit(c) /\ ~Select(c) /\ ~Delete(c)
<1>1. TypeOK /\ OpenOK(c)
  BY DEF Ready, WireOK
<1>2. toLsb[c].cmd \in {"none", "list"}
  BY <1>1 DEF Unseen, OpenOK, Listing
<1>3. MayAsk(c) => view[c] = NoView /\ view[c].listed = {} /\ Nameable(c) = {}
  <2>1. MayAsk(c) => view[c] = NoView
    BY DEF MayAsk, Unseen
  <2>. QED
    BY <2>1, NamesFromScreen
<1>4. ~NameCheck(c) /\ ~Commit(c)
  BY <1>3 DEF NameCheck, Commit
<1>5. ~Select(c) /\ ~Delete(c)
  BY <1>3 DEF Select, Delete
<1>6. ~LsbCreate(c) /\ ~LsbDelete(c)
  BY <1>2 DEF LsbCreate, LsbDelete
<1>. QED
  BY <1>2, <1>3, <1>4, <1>5, <1>6

(* A create makes its character the new one.                               *)
LEMMA CreateNew ==
  ASSUME Steady, NEW c \in Conn, Ready(c), LsbCreate(c)
  PROVE  NewOne(c)'
<1>1. TypeOK /\ WireOK(c) /\ Names(c) /\ Filled(c) /\ NewOne(c)
  BY DEF Ready, NamedOK
<1>2. PICK h \in CharId \ Minted(MemberOf[c]) :
         /\ idmap[h] = NoId /\ Owned(MemberOf[c])' = Owned(MemberOf[c]) \cup {h}
         /\ \A j \in CharId : named'[c][j] =
              IF j # h THEN named[c][j] ELSE IF life[c] = "open" THEN toLsb[c].id ELSE NoId
         /\ toLsb[c].cmd = "commit" /\ toLsb'[c].cmd = "none"
         /\ UNCHANGED <<idmap, life, pendingCreate, job, asked, view>>
  BY CreateFacts
<1>3. ASSUME NEW k \in CharId, named[c][k] # NoId
      PROVE  FALSE
  <2>1. life[c] = "open" /\ Unseen(c)
    BY <1>1, <1>3 DEF NewOne, Unseen
  <2>. QED
    BY <2>1, UnseenFacts
<1>. SUFFICES ASSUME NEW k \in CharId, named'[c][k] # NoId
              PROVE  /\ life'[c] = "open" /\ k \in Owned(MemberOf[c])' /\ idmap'[k] = NoId
                     /\ \A j \in Owned(MemberOf[c])' \ {k} : idmap'[j] # NoId
                     /\ Pending(c, k)' /\ Unseen(c)'
  BY DEF NewOne, Pending, Unseen
<1>4. k = h /\ life[c] = "open" /\ named'[c][k] = toLsb[c].id
  BY <1>2, <1>3
<1>5. asked[c].cmd = "commit" /\ job[c].stage = "idle"
  BY <1>1, <1>2, <1>4, CommandAlone
<1>6. pendingCreate[c] = toLsb[c].id /\ view[c].offer # {}
  BY <1>1, <1>2, <1>4 DEF Names
<1>7. \A j \in Owned(MemberOf[c]) : j \in CharId /\ idmap[j] # NoId
  BY <1>1, <1>2, <1>3, <1>4, <1>5, <1>6, OwnedTyped DEF Filled, TypeOK
<1>8. Pending(c, k)'
  BY <1>2, <1>4, <1>6 DEF Pending
<1>9. Unseen(c)'
  BY <1>2, <1>5 DEF Unseen
<1>. QED
  BY <1>2, <1>4, <1>7, <1>8, <1>9

(* A step of c other than the create keeps the id for the new character.   *)
LEMMA NewPending ==
  ASSUME Steady, Heeded, NEW c \in Conn, Ready(c), TypeOK', Isolation', ActsOn(c),
         NEW k \in CharId, named[c][k] # NoId, named'[c][k] = named[c][k]
  PROVE  /\ Pending(c, k)'
         /\ idmap' = idmap
<1>1. /\ TypeOK /\ Isolation /\ WireOK(c) /\ Living(c) /\ Names(c) /\ [Next]_vars
      /\ life[c] = "open" /\ k \in Owned(MemberOf[c]) /\ idmap[k] = NoId
      /\ \A j \in Owned(MemberOf[c]) \ {k} : idmap[j] # NoId
      /\ Pending(c, k) /\ Unseen(c)
  BY DEF Ready, NamedOK, NewOne, Pending, Unseen, Next, ActsOn
<1>2. ~NameCheck(c) /\ ~Commit(c) /\ ~Delete(c)
  BY <1>1, UnseenFacts
<1>3. job[c] \in JobType /\ pendingCreate \in [Conn -> ContentId \cup {NoId}]
  BY <1>1 DEF TypeOK, BridgeTypeOK
<1>4. \A h \in CharId : h \in alive /\ h \in Minted(MemberOf[c]) => h \in Owned(MemberOf[c])
  BY DEF Owned, Minted
<1>5. CASE TakePrefer(c)
  <2> DEFINE h == Lowest(job[c].todo)
  <2>1. /\ h \in job[c].todo /\ job[c].stage = "slot" /\ idmap' = idmap
        /\ pendingCreate'[c] = IF idmap[h] = NoId THEN NoId ELSE pendingCreate[c]
    BY <1>1, <1>3, <1>5, LowestIsMember, CharsAreNumbers DEF TakePrefer, JobType, mapVars
  <2>2. job'[c] = Picked(job[c], h, IF idmap[h] = NoId THEN pendingCreate[c] ELSE NoId)
    BY <1>1, <1>5, SlotJobs
  <2>3. h \in Owned(MemberOf[c])
    BY <1>1, <1>3, <1>4, <2>1 DEF Living, Isolation, JobsStay, JobType
  <2>4. pendingCreate[c] = named[c][k]
    BY <1>1, <2>1 DEF Pending
  <2>. HIDE DEF h
  <2>5. CASE h = k
    <3>1. job'[c] = Picked(job[c], k, named[c][k])
      BY <1>1, <2>2, <2>4, <2>5
    <3>2. job'[c].stage = "pair" /\ job'[c].char = k /\ job'[c].prefer = named[c][k]
      BY <1>3, <3>1, PickedFields
    <3>. QED
      BY <2>1, <3>2 DEF Pending
  <2>6. CASE h # k
    BY <1>1, <2>1, <2>3, <2>4, <2>6 DEF Pending
  <2>. QED
    BY <2>5, <2>6
<1>6. CASE PairSlot(c)
  <2> DEFINE h == job[c].char
  <2>1. /\ job[c].stage = "pair" /\ UNCHANGED pendingCreate
        /\ idmap'[k] = NoId \/ named' = [d \in Conn |-> [named[d] EXCEPT ![h] = NoId]] \/ h # k
    BY <1>6 DEF PairSlot
  <2>2. h \in CharId /\ h \in Owned(MemberOf[c])
    <3>1. h \in CharId /\ h \in Minted(MemberOf[c])
      BY <1>1, <1>6, PairFacts DEF Ready
    <3>. QED
      BY <1>1, <1>4, <3>1, CharsAreNumbers DEF Living
  <2>3. h # k
    <3>. SUFFICES ASSUME h = k PROVE FALSE
      OBVIOUS
    <3>1. pendingCreate[c] = NoId /\ job[c].prefer \notin HeldIds
      BY <1>1, <2>1 DEF Names
    <3>2. job[c].prefer = named[c][k]
      BY <1>1, <3>1 DEF Pending
    <3>3. idmap'[k] = named[c][k]
      BY <1>1, <1>6, <3>1, <3>2, PairFacts DEF Ready
    <3>4. named'[c][k] = NoId
      BY <1>1, <2>1, <3>3 DEF PairSlot, TypeOK, WorldTypeOK, Pairing
    <3>. QED
      BY <3>4
  <2>4. idmap' = idmap
    BY <1>1, <1>6, <2>2, <2>3, PairFacts DEF Ready
  <2>. HIDE DEF h
  <2>. QED
    BY <1>1, <2>1, <2>3, <2>4 DEF Pending, h
<1>7. CASE Teardown(c)
  BY <1>1, <1>7 DEF Teardown
<1>8. CASE ~TakePrefer(c) /\ ~PairSlot(c) /\ ~Teardown(c)
  <2>1. UNCHANGED <<pendingCreate, idmap>>
    BY <1>2, <1>8, WhoChanges
  <2>2. job'[c] = job[c] \/ job[c].stage # "pair"
    BY <1>8, WhoChanges DEF StartList, Relaying, NoteSlot, ReadSpent, FinishList, ListDone
  <2>. QED
    BY <1>1, <2>1, <2>2 DEF Pending
<1>. QED
  BY <1>5, <1>6, <1>7, <1>8

(* Nor does its client see a screen before the character has it.           *)
LEMMA NewUnseen ==
  ASSUME Steady, NEW c \in Conn, Ready(c), TypeOK', Isolation', ActsOn(c),
         NEW k \in CharId, named[c][k] # NoId, life'[c] = "open"
  PROVE  Unseen(c)'
<1>1. /\ TypeOK /\ WireOK(c) /\ JobOK(c) /\ Whole(c) /\ Filled(c) /\ Names(c)
      /\ life[c] = "open" /\ k \in Owned(MemberOf[c]) /\ idmap[k] = NoId
      /\ Pending(c, k) /\ Unseen(c)
  BY DEF Ready, NamedOK, NewOne, Pending, Unseen
<1>2. /\ toLsb[c].cmd \in {"none", "list"}
      /\ ~NameCheck(c) /\ ~Commit(c) /\ ~Select(c) /\ ~Delete(c)
  BY <1>1, UnseenFacts
<1>3. CASE AskList(c)
  <2>1. view'[c] = view[c] /\ asked'[c].cmd = "list" /\ view[c] = NoView
    BY <1>1, <1>3, CommandFields, UnseenFacts DEF AskList, Send, TypeOK, WorldTypeOK
  <2>. QED
    BY <2>1 DEF Unseen
<1>4. CASE RelayDone(c)
  <2>1. asked'[c].cmd = "none" /\ view'[c] = ScreenAfter(c)
    BY <1>1, <1>4, CommandFields DEF RelayDone, TypeOK, WorldTypeOK
  <2>2. ScreenAfter(c) = NoView
    BY <1>1 DEF ScreenAfter, Unseen
  <2>. QED
    BY <2>1, <2>2 DEF Unseen
<1>5. CASE RelayRefused(c) \/ RelayHandoff(c)
  <2>1. asked'[c].cmd = "none" /\ view' = view
    BY <1>1, <1>5, CommandFields DEF RelayRefused, RelayHandoff, TypeOK, WorldTypeOK
  <2>2. asked[c].cmd # "commit"
    <3>1. PICK what \in {"refused", "handoff"} : Relaying(c, what)
      BY <1>5 DEF RelayRefused, RelayHandoff
    <3>2. OpenOK(c) /\ Len(fromLsb[c]) \in Nat \ {0} /\ fromLsb[c][1].what = what
      BY <1>1, <3>1, RelayingFacts
    <3>. QED
      BY <1>1, <3>1, <3>2, LastReply
  <2>. QED
    BY <1>1, <2>1, <2>2 DEF Unseen
<1>6. CASE FinishList(c)
  <2>1. CASE swallow[c] = "fresh"
    BY <1>1, <1>6, <2>1 DEF FinishList, ListDone, wireVars, clientVars, Unseen
  <2>2. CASE swallow[c] # "fresh"
    <3>1. job[c].stage = "offer" /\ job[c].todo = {} /\ job[c].char = NoChar
      BY <1>1, <1>6 DEF FinishList, ListDone, JobOK, SpentOK, TypeOK, BridgeTypeOK
    <3>2. k \in Tried(job[c])
      BY <1>1, <3>1, CharsAreNumbers DEF Whole, Tried, Rest
    <3>3. Pool[MemberOf[c]] \subseteq HeldIds
      BY <1>1, <3>2 DEF Filled
    <3>4. pendingCreate[c] = named[c][k]
      BY <1>1, <3>1 DEF Pending
    <3>5. pendingCreate[c] \in Pool[MemberOf[c]]
      BY <1>1, <3>4, HoldApart DEF Ready, Isolation, IdsStay, IdsOf
    <3>. QED
      BY <1>1, <3>3, <3>5 DEF Names
  <2>. QED
    BY <2>1, <2>2
<1>7. CASE Drop(c)
  BY <1>1, <1>7 DEF Drop, TypeOK, BridgeTypeOK
<1>8. CASE ~(AskList(c) \/ RelayDone(c) \/ RelayRefused(c) \/ RelayHandoff(c) \/ FinishList(c) \/ Drop(c))
  <2>1. asked'[c] = asked[c] /\ view' = view
    BY <1>1, <1>2, <1>8, WhoSends, WhoChanges
  <2>2. toLsb'[c] = toLsb[c] \/ toLsb'[c].cmd = "none"
    BY <1>1, <1>2, <1>8, WhoSends
  <2>. QED
    BY <1>1, <2>1, <2>2 DEF Unseen
<1>. QED
  BY <1>3, <1>4, <1>5, <1>6, <1>7, <1>8

(* So a step of c keeps everything NewOne says.                            *)
LEMMA OwnNew ==
  ASSUME Steady, Heeded, NEW c \in Conn, Ready(c), TypeOK', Isolation', ActsOn(c)
  PROVE  NewOne(c)'
<1>1. CASE LsbCreate(c)
  BY <1>1, CreateNew
<1>2. CASE ~LsbCreate(c)
  <2>. SUFFICES ASSUME NEW k \in CharId, named'[c][k] # NoId
                PROVE  /\ life'[c] = "open" /\ k \in Owned(MemberOf[c])' /\ idmap'[k] = NoId
                       /\ \A j \in Owned(MemberOf[c])' \ {k} : idmap'[j] # NoId
                       /\ Pending(c, k)' /\ Unseen(c)'
    BY DEF NewOne, Pending, Unseen
  <2>1. TypeOK /\ NewOne(c)
    BY DEF Ready, NamedOK
  <2>2. ~Drop(c)
    BY <2>1 DEF Drop, NoneNamed, TypeOK, WorldTypeOK
  <2>3. named'[c][k] = named[c][k]
    <3>1. CASE PairSlot(c)
      BY <2>1, <3>1 DEF PairSlot, TypeOK, WorldTypeOK, Pairing
    <3>. QED
      BY <1>2, <2>2, <3>1, WhoChanges
  <2>4. /\ life[c] = "open" /\ k \in Owned(MemberOf[c]) /\ idmap[k] = NoId
        /\ \A j \in Owned(MemberOf[c]) \ {k} : idmap[j] # NoId
        /\ Unseen(c)
    BY <2>1, <2>3 DEF NewOne, Unseen
  <2>5. life'[c] = "open"
    BY <2>1, <2>2, <2>4, WhoChanges DEF Connect, Teardown, TypeOK, BridgeTypeOK
  <2>6. Owned(MemberOf[c])' = Owned(MemberOf[c])
    <3>1. ~LsbDelete(c)
      BY <2>4, UnseenFacts
    <3>. QED
      BY <1>2, <3>1, WhoChanges DEF Owned
  <2>7. Pending(c, k)' /\ idmap' = idmap
    BY <2>3, NewPending
  <2>8. Unseen(c)'
    BY <2>3, <2>5, NewUnseen
  <2>. QED
    BY <2>4, <2>5, <2>6, <2>7, <2>8
<1>. QED
  BY <1>1, <1>2

(* The inductive invariant of the named ids.                               *)
NamedInv ==
  /\ ScreenInv /\ FileIsImage /\ SpentOnTheLiving
  /\ \A c \in Conn : Living(c) /\ DeleteOK(c) /\ NamedOK(c)

(* It holds initially, and after a restart nothing is named.               *)
LEMMA FreshNamed ==
  /\ Init => \A c \in Conn : NamedOK(c)
  /\ Restart => \A c \in Conn : NamedOK(c)'
<1>1. Tried(NoJob) = {} /\ NoJob.stage = "idle" /\ NoView.offer = {}
  BY DEF Tried, NoJob, NoView
<1>2. Init => \A c \in Conn : NamedOK(c)
  BY <1>1 DEF Init, NamedOK, Names, Whole, Filled, NewOne, NoneNamed, HeldIds
<1>3. Restart => \A c \in Conn : NamedOK(c)'
  BY <1>1 DEF Restart, NamedOK, Names, Whole, Filled, NewOne, NoneNamed, HeldIds
<1>. QED
  BY <1>2, <1>3

(* It survives every step.                                                 *)
LEMMA StepNamed ==
  ASSUME Steady, Alone, Heeded, ~SaveMayFail, NamedInv, [Next]_vars
  PROVE  NamedInv'
<1>1. TypeOK /\ UniqueContentId /\ Isolation /\ Wires /\ Shown
  BY SoundIsTyped DEF NamedInv, ScreenInv, Sound, Safe
<1>2. ScreenInv'
  BY StepScreens DEF NamedInv
<1>3. TypeOK' /\ Isolation'
  BY <1>2 DEF ScreenInv, Sound, Safe, Types, TypeOK
<1>4. FileIsImage'
  BY <1>1, StepIsMapStep, MapStepFileIsImage DEF TypeOK, NamedInv
<1>5. SpentOnTheLiving'
  BY <1>1, StepSpent DEF NamedInv
<1>6. \A c \in Conn : Living(c)' /\ DeleteOK(c)'
  BY <1>1, StepLiving, StepDeleteOK DEF NamedInv
<1>7. \A c \in Conn : NamedOK(c)'
  <2>1. ASSUME NEW c \in Conn, ActsOn(c), NEW d \in Conn
        PROVE  NamedOK(d)'
    <3>1. Ready(c) /\ Ready(d)
      BY <1>1 DEF Ready, NamedInv, Wires, Shown
    <3>2. CASE d = c
      <4>1. Names(c)' /\ Whole(c)' /\ Filled(c)' /\ NewOne(c)'
        BY <1>3, <2>1, <3>1, OwnNames, OwnWhole, OwnFilled, OwnNew
      <4>. QED
        BY <3>2, <4>1 DEF NamedOK
    <3>3. CASE d # c
      BY <1>3, <2>1, <3>1, <3>3, OthersNamed DEF Ready
    <3>. QED
      BY <3>2, <3>3
  <2>2. CASE UNCHANGED vars
    <3>1. UNCHANGED <<idmap, named, pendingCreate, job, life, toLsb, fromLsb, view, asked, alive, creator>>
      BY <2>2 DEF vars, mapVars, lobbyVars, bridgeVars, lsbVars, wireVars, clientVars
    <3>. QED
      BY <3>1 DEF NamedInv, NamedOK, Names, Whole, Filled, NewOne, HeldIds, Owned
  <2>. QED
    BY <2>1, <2>2, FreshNamed DEF Next, ActsOn
<1>. QED
  BY <1>2, <1>4, <1>5, <1>6, <1>7 DEF NamedInv

(* While saves succeed, accounts.db can be read and LSB refuses none of    *)
(* the member's own commands, the id a client names on its create goes to  *)
(* the character LSB mints for it: it stays pending, and free, until the   *)
(* one character without an id is paired, and every list names that one.   *)
THEOREM NamedIdIsGiven ==
  ASSUME Steady, Alone, Heeded, ~SaveMayFail
  PROVE  Spec => CreateGetsNamedId
<1>1. ASSUME NamedInv, [Next]_vars, NEW c \in Conn, NEW k \in CharId,
             named[c][k] # NoId, idmap'[k] # NoId
      PROVE  idmap'[k] = named[c][k]
  <2>1. /\ TypeOK /\ Isolation /\ file.pair = idmap /\ Ready(c)
        /\ life[c] = "open" /\ k \in Owned(MemberOf[c]) /\ idmap[k] = NoId /\ Pending(c, k)
    BY <1>1, SoundIsTyped
    DEF NamedInv, ScreenInv, Sound, Safe, Ready, Wires, Shown, NamedOK, NewOne, Pending,
        FileIsImage, Image
  <2>2. PICK d \in Conn : PairSlot(d)
    <3>. SUFFICES ASSUME \A d \in Conn : ~PairSlot(d) PROVE FALSE
      OBVIOUS
    <3>1. idmap'[k] \in {NoId, idmap[k]} \/ idmap' = idmap
      BY <1>1, <2>1, OthersPairNobody
    <3>. QED
      BY <1>1, <2>1, <3>1
  <2>3. TypeOK' /\ Isolation'
    <3>1. ScreenInv'
      BY <1>1, StepScreens DEF NamedInv
    <3>. QED
      BY <3>1 DEF ScreenInv, Sound, Safe, Types, TypeOK
  <2>4. job[d].char = k
    BY <1>1, <2>1, <2>2, <2>3, PairFacts
  <2>5. d = c
    BY <2>1, <2>2, <2>3, <2>4, <1>1, PairFacts DEF Alone, Minted, Owned
  <2>6. job[c].stage = "pair"
    BY <2>2, <2>5 DEF PairSlot
  <2>7. pendingCreate[c] = NoId /\ job[c].prefer \notin HeldIds
    BY <2>1, <2>4, <2>5, <2>6 DEF Ready, NamedOK, Names
  <2>8. job[c].prefer = named[c][k]
    BY <1>1, <2>1, <2>7 DEF Pending
  <2>. QED
    BY <1>1, <2>1, <2>2, <2>3, <2>4, <2>5, <2>7, <2>8, PairFacts
<1>2. NamedInv /\ [Next]_vars =>
        [\A c \in Conn, k \in CharId :
           named[c][k] # NoId /\ idmap'[k] # NoId => idmap'[k] = named[c][k]]_vars
  BY <1>1
<1>3. NamedInv /\ [Next]_vars => NamedInv'
  BY StepNamed
<1>4. Init => NamedInv
  <2>. SUFFICES ASSUME Init PROVE NamedInv
    OBVIOUS
  <2>1. ScreenInv /\ FileIsImage
    BY InitScreens, MapInitFileIsImage DEF Init
  <2>2. SpentOnTheLiving
    BY DEF Init, MapInit, SpentOnTheLiving
  <2>3. \A c \in Conn : Living(c) /\ DeleteOK(c)
    BY CommandFields DEF Init, Living, ListsOf, NoJob, DeleteOK
  <2>. QED
    BY <2>1, <2>2, <2>3, FreshNamed DEF NamedInv
<1>. QED
  BY <1>2, <1>3, <1>4, PTL DEF Spec, CreateGetsNamedId

=============================================================================
