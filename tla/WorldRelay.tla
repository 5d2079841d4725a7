----------------------------- MODULE WorldRelay -----------------------------
(***************************************************************************)
(* The world relay of lsb/ffxi_bridge.py: udp_relay, one thread, which     *)
(* receives every client's datagrams and forwards each over the client's   *)
(* own socket to the map server; udp_back, a thread per such socket, which *)
(* brings the answers back; the capture file of each flow; and the watcher *)
(* of the session key of each client's character.                          *)
(*                                                                         *)
(* Only the captures and the starting of watchers are under a lock: peers  *)
(* is read and written by all threads, and "if peers.get(client) is up:    *)
(* peers.pop(client)" is two steps.  A flow is named by a number, which    *)
(* stands for its socket, its thread and the capture it opened.  Contents  *)
(* of datagrams are abstracted, but for the two things the code looks at:  *)
(* an answer may be empty, and a flow's first datagram may name a charid.  *)
(***************************************************************************)
EXTENDS Integers, FiniteSets

CONSTANTS
  Client,          (* client addresses                                     *)
  NoClient,
  Named,           (* those whose flow may open with a datagram that names *)
                   (* their charid                                         *)
  Fragile,         (* those whose flows may fail                           *)
  Answered,        (* those the map answers                                *)
  MaxFlow,         (* bound on the flows built                             *)
  WORLD_CAP_KEEP,  (* capture files kept when a new one is opened          *)
  DiskFails,       (* the flows at whose building the disk may fail        *)
  DbFails          (* may the watchers' database be away                   *)

Flow == 1 .. MaxFlow
NoFlow == 0
NoCap == 0

ASSUME RelayAssumption ==
  /\ NoClient \notin Client
  /\ Named \subseteq Client
  /\ Fragile \subseteq Client
  /\ Answered \subseteq Client
  /\ MaxFlow \in Nat
  /\ WORLD_CAP_KEEP \in Nat \ {0}
  /\ DiskFails \subseteq 1 .. MaxFlow
  /\ DbFails \in BOOLEAN
  /\ IsFiniteSet(Client)

VARIABLES
  peers,     (* _UDP_PEERS: the flow of each client                        *)
  capture,   (* _WORLD_CAP: the open capture of each client, named by the  *)
             (* flow that opened it                                        *)
  files,     (* the capture files on disk                                  *)
  excess,    (* what the last prune left open, and the captures asked for  *)
             (* since whose prune was skipped: so many files may be over   *)
             (* (history)                                                  *)
  flows,     (* of each flow built: its client, its thread's place, the    *)
             (* capture handed to its thread, and whether its socket has   *)
             (* failed or been closed under it                             *)
  answer,    (* the flow on whose socket an answer of the map is queued (of*)
             (* one answer at a time, in this model)                       *)
  relay,     (* where the relay thread is, for which client and flow       *)
  known,     (* _WORLD_CHARID: clients whose charid is known               *)
  watch,     (* the watcher threads of a client and their places           *)
  stale      (* _UDP_STATS: the clients known, and silent either way for   *)
             (* SESSION_KEY_IDLE                                           *)

vars == <<peers, capture, files, excess, flows, answer, relay, known, watch, stale>>

NewFlow(c, cap) == [client |-> c, at |-> "recv", cap |-> cap, broken |-> FALSE]
Unbuilt == [NewFlow(NoClient, NoCap) EXCEPT !.at = "unbuilt"]
Waiting == [at |-> "recvfrom", client |-> NoClient, flow |-> NoFlow]

Done(f) == [flows[f] EXCEPT !.at = "done", !.cap = NoCap]

Goto(at) == relay' = [relay EXCEPT !.at = at]
Step(f, at) == flows' = [flows EXCEPT ![f].at = at]

Alive(stage) == stage # "over"
Watched(c) == \E i \in DOMAIN watch[c] : Alive(watch[c][i])

----------------------------------------------------------------------------
(* Captures.                                                               *)

OpenCaptures == {capture[c] : c \in Client} \ {NoCap}

(* How many of the capture files are beyond WORLD_CAP_KEEP.                *)
Larger(a, b) == IF a < b THEN b ELSE a
Beyond(fs) == IF Cardinality(fs) > WORLD_CAP_KEEP THEN Cardinality(fs) - WORLD_CAP_KEEP ELSE 0

(* Mutants: the oldest files go, open or not; one too many is kept.        *)
PruneAll(fs, keepOpen) ==
  {fs \ old : old \in {s \in SUBSET fs : Cardinality(s) = Beyond(fs)}}
PruneLess(fs, keepOpen) ==
  {fs \ (old \ keepOpen) : old \in {s \in SUBSET fs : Cardinality(s) = Larger(Beyond(fs) - 1, 0)}}

(* _world_capture_prune: of the files beyond WORLD_CAP_KEEP the oldest go, *)
(* but for those a flow holds open.  (Which are oldest is left open.)      *)
Prune(fs, keepOpen) ==
  {fs \ (old \ keepOpen) : old \in {s \in SUBSET fs : Cardinality(s) = Beyond(fs)}}

(* A prune that raises is skipped: some of those files may have gone.      *)
PruneSkipped(fs, keepOpen) ==
  UNION {{fs \ gone : gone \in SUBSET (fs \ kept)} : kept \in Prune(fs, keepOpen)}

(* The prune before flow f opens a capture: the files it leaves.           *)
PruneLeaves(f, left) ==
  \/ left \in Prune(files, OpenCaptures) /\ excess' = Cardinality(OpenCaptures)
  \/ f \in DiskFails /\ left \in PruneSkipped(files, OpenCaptures) /\ excess' = excess + 1

(* Mutant: captures are looked up without regard to the client.            *)
OpenCaptureOfAny(f, c) ==
  /\ \E cap \in IF OpenCaptures = {} THEN {f} ELSE OpenCaptures :
       /\ flows' = [flows EXCEPT ![f] = NewFlow(c, cap)]
       /\ capture' = [capture EXCEPT ![c] = cap]
       /\ files' = files \cup {cap}
  /\ UNCHANGED excess

(* world_capture_open by flow f of client c: the client's open capture if  *)
(* it has one; else a new one, whether the prune succeeds or not; or none, *)
(* if the file cannot be opened, or if it can but not written to, and then *)
(* it stays.                                                               *)
OpenCapture(f, c) ==
  IF capture[c] # NoCap
    THEN /\ flows' = [flows EXCEPT ![f] = NewFlow(c, capture[c])]
         /\ UNCHANGED <<capture, files, excess>>
    ELSE \E left \in SUBSET files :
           /\ PruneLeaves(f, left)
           /\ \/ /\ files' = left \cup {f}
                 /\ capture' = [capture EXCEPT ![c] = f]
                 /\ flows' = [flows EXCEPT ![f] = NewFlow(c, f)]
              \/ /\ f \in DiskFails
                 /\ files' \in {left, left \cup {f}}
                 /\ flows' = [flows EXCEPT ![f] = NewFlow(c, NoCap)]
                 /\ UNCHANGED capture

(* world_capture_close(client, expect): with no expect, whichever is open. *)
CloseCapture(c, expect) ==
  capture' = [capture EXCEPT ![c] = IF expect \in {NoCap, @} THEN NoCap ELSE @]

----------------------------------------------------------------------------
(* udp_relay.                                                              *)

(* start_session_key_watch: unless the client's watcher is alive.          *)
StartWatch(c) ==
  watch' = IF Watched(c) THEN watch ELSE [watch EXCEPT ![c][1] = "connect"]

(* A datagram of c for the flow c has.                                     *)
Receive(c) ==
  /\ relay.at = "recvfrom"
  /\ peers[c] # NoFlow
  /\ relay' = [at |-> "forward", client |-> c, flow |-> peers[c]]
  /\ UNCHANGED <<peers, capture, files, excess, flows, answer, known, watch, stale>>

(* A datagram of c, which has no flow: one is built, its capture opened    *)
(* and its return path started, and the watch too, if this datagram, or    *)
(* one before it, named the charid.  (If the map's name does not resolve   *)
(* the datagram is dropped, and nothing changes.)                          *)
Build(c) ==
  /\ relay.at = "recvfrom"
  /\ peers[c] = NoFlow
  /\ \E f \in Flow, login \in {FALSE, (c \in Named)} :
       /\ flows[f] = Unbuilt /\ \A g \in 1 .. f - 1 : flows[g] # Unbuilt
       /\ peers' = [peers EXCEPT ![c] = f]
       /\ OpenCapture(f, c)
       /\ known' = IF login THEN known \cup {c} ELSE known
       /\ relay' = [at |-> "forward", client |-> c, flow |-> f]
  /\ IF c \in known' THEN StartWatch(c) ELSE UNCHANGED watch
  /\ UNCHANGED <<answer, stale>>

(* The datagram is counted, recorded and sent to the map.  A send that     *)
(* fails (an ICMP error surfacing, or a socket its return path has closed) *)
(* drops the flow.                                                         *)
Forward ==
  /\ relay.at = "forward"
  /\ stale' = stale \ {relay.client}
  /\ \/ flows[relay.flow].at # "done" /\ relay' = Waiting
     \/ (flows[relay.flow].broken \/ flows[relay.flow].at = "done") /\ Goto("drop")
  /\ UNCHANGED <<peers, capture, files, excess, flows, answer, known, watch>>

DropCheck ==
  /\ relay.at = "drop"
  /\ Goto(IF peers[relay.client] = relay.flow THEN "drop pop" ELSE "drop close")
  /\ UNCHANGED <<peers, capture, files, excess, flows, answer, known, watch, stale>>

DropPop ==
  /\ relay.at = "drop pop"
  /\ peers' = [peers EXCEPT ![relay.client] = NoFlow]
  /\ Goto("drop close")
  /\ UNCHANGED <<capture, files, excess, flows, answer, known, watch, stale>>

(* The client's capture, whichever it is, and the socket are closed.       *)
DropClose ==
  /\ relay.at = "drop close"
  /\ CloseCapture(relay.client, capture[relay.client])
  /\ flows' = [flows EXCEPT ![relay.flow].broken = TRUE]
  /\ relay' = Waiting
  /\ UNCHANGED <<peers, files, excess, answer, known, watch, stale>>

----------------------------------------------------------------------------
(* udp_back, the thread of flow f.                                         *)

(* Mutant: an empty datagram is taken for the end of the stream.           *)
RecvToEmpty(f) ==
  /\ flows[f].at = "recv" /\ answer = f
  /\ \/ answer' = NoFlow /\ UNCHANGED flows
     \/ Step(f, "check") /\ UNCHANGED answer
  /\ stale' = stale \ {flows[f].client}
  /\ UNCHANGED <<peers, capture, files, excess, relay, known, watch>>

(* An answer, empty or not, is counted, recorded and sent to the client.   *)
Recv(f) ==
  /\ flows[f].at = "recv" /\ answer = f
  /\ answer' = NoFlow
  /\ stale' = stale \ {flows[f].client}
  /\ UNCHANGED <<peers, capture, files, excess, flows, relay, known, watch>>

(* recv or sendto raises: the thread goes to its teardown.  It need not: a *)
(* recv that is blocked when another thread closes its socket may stay so. *)
RecvFails(f) ==
  /\ flows[f].at = "recv" /\ flows[f].broken
  /\ Step(f, "check")
  /\ UNCHANGED <<peers, capture, files, excess, answer, relay, known, watch, stale>>

(* Mutant: the flow stays in peers.                                        *)
BackCheckKeeping(f) ==
  /\ flows[f].at = "check"
  /\ Step(f, "close")
  /\ UNCHANGED <<peers, capture, files, excess, answer, relay, known, watch, stale>>

BackCheck(f) ==
  /\ flows[f].at = "check"
  /\ Step(f, IF peers[flows[f].client] = f THEN "pop" ELSE "close")
  /\ UNCHANGED <<peers, capture, files, excess, answer, relay, known, watch, stale>>

BackPop(f) ==
  /\ flows[f].at = "pop"
  /\ peers' = [peers EXCEPT ![flows[f].client] = NoFlow]
  /\ Step(f, "close")
  /\ UNCHANGED <<capture, files, excess, answer, relay, known, watch, stale>>

(* Mutant: the capture is left for the relay thread to close.              *)
BackCloseSocket(f) ==
  /\ flows[f].at = "close"
  /\ flows' = [flows EXCEPT ![f] = Done(f)]
  /\ UNCHANGED <<peers, capture, files, excess, answer, relay, known, watch, stale>>

(* The capture this thread was handed, if it is the open one, is closed,   *)
(* and its socket.                                                         *)
BackClose(f) ==
  /\ flows[f].at = "close"
  /\ CloseCapture(flows[f].client, flows[f].cap)
  /\ flows' = [flows EXCEPT ![f] = Done(f)]
  /\ UNCHANGED <<peers, files, excess, answer, relay, known, watch, stale>>

----------------------------------------------------------------------------
(* session_key_watcher.                                                    *)

WatchStep(c, i, stage) ==
  /\ watch' = [watch EXCEPT ![c][i] = stage]
  /\ UNCHANGED <<peers, capture, files, excess, flows, answer, relay, known, stale>>

WatchConnect(c, i) ==
  /\ watch[c][i] = "connect"
  /\ \/ WatchStep(c, i, "loop")
     \/ DbFails /\ WatchStep(c, i, "over")

(* Mutant: the loop is bound to the flow alone.                            *)
WatchLeavesFlow(c, i) ==
  /\ watch[c][i] = "loop"
  /\ peers[c] = NoFlow
  /\ WatchStep(c, i, "ending")

(* The loop ends with the client's flow, or with its traffic.              *)
WatchLeaves(c, i) ==
  /\ watch[c][i] = "loop"
  /\ peers[c] = NoFlow \/ c \in stale
  /\ WatchStep(c, i, "ending")

(* The connection is closed and the thread ends.                           *)
WatchEnds(c, i) ==
  /\ watch[c][i] = "ending"
  /\ WatchStep(c, i, "over")

----------------------------------------------------------------------------
(* The map server, the network and time.                                   *)

(* The map answers on the flow's socket, maybe with an empty datagram.     *)
MapReply(f) ==
  /\ flows[f].at = "recv" /\ flows[f].client \in Answered
  /\ answer \notin {g \in Flow : flows[g].at # "done"}
  /\ answer' = f
  /\ UNCHANGED <<peers, capture, files, excess, flows, relay, known, watch, stale>>

(* The flow's socket fails (the map was recreated, the client is gone):    *)
(* the next calls on it may raise.                                         *)
Fail(f) ==
  /\ flows[f].at = "recv" /\ flows[f].client \in Fragile
  /\ flows' = [flows EXCEPT ![f].broken = TRUE]
  /\ UNCHANGED <<peers, capture, files, excess, answer, relay, known, watch, stale>>

(* SESSION_KEY_IDLE passes without a datagram either way (which only the   *)
(* watcher of a client whose charid is known would notice).                *)
Quiet(c) ==
  /\ c \in known \ stale
  /\ stale' = stale \cup {c}
  /\ UNCHANGED <<peers, capture, files, excess, flows, answer, relay, known, watch>>

----------------------------------------------------------------------------
Init ==
  /\ peers = [c \in Client |-> NoFlow]
  /\ capture = [c \in Client |-> NoCap]
  /\ files = {}
  /\ excess = 0
  /\ flows = [f \in Flow |-> Unbuilt]
  /\ answer = NoFlow
  /\ relay = Waiting
  /\ known = {}
  /\ watch = [c \in Client |-> [i \in 1 .. 2 |-> "over"]]
  /\ stale = {}

RelayStep == Forward \/ DropCheck \/ DropPop \/ DropClose
BackStep(f) ==
  Recv(f) \/ BackCheck(f) \/ BackPop(f) \/ BackClose(f)
WatcherStep(c, i) == WatchConnect(c, i) \/ WatchLeaves(c, i) \/ WatchEnds(c, i)

Next ==
  \/ RelayStep
  \/ \E f \in Flow : BackStep(f) \/ RecvFails(f) \/ MapReply(f) \/ Fail(f)
  \/ \E c \in Client : Receive(c) \/ Build(c) \/ Quiet(c)
  \/ \E c \in Client, i \in 1 .. 2 : WatcherStep(c, i)

(* Threads run on.  The network, the map and the clients owe nothing.      *)
Fairness ==
  /\ WF_vars(RelayStep)
  /\ \A f \in Flow : WF_vars(BackStep(f))
  /\ \A c \in Client, i \in 1 .. 2 : WF_vars(WatcherStep(c, i))

Spec == Init /\ [][Next]_vars /\ Fairness

----------------------------------------------------------------------------
(* Type invariant of the relay: the flow and the captures of a client, and *)
(* the capture each of its threads was handed, are the client's.           *)
RelayTypeOK ==
  /\ peers \in [Client -> Flow \cup {NoFlow}]
  /\ capture \in [Client -> Flow \cup {NoCap}]
  /\ files \subseteq Flow
  /\ excess \in Nat
  /\ flows \in [Flow -> [client : Client \cup {NoClient},
        at : {"unbuilt", "recv", "check", "pop", "close", "done"},
        cap : Flow \cup {NoCap}, broken : BOOLEAN]]
  /\ answer \in Flow \cup {NoFlow}
  /\ relay \in [at : {"recvfrom", "forward", "drop", "drop pop", "drop close"},
        client : Client \cup {NoClient}, flow : Flow \cup {NoFlow}]
  /\ known \subseteq Client
  /\ watch \in [Client -> [1 .. 2 -> {"over", "connect", "loop", "ending"}]]
  /\ stale \subseteq Client
  /\ \A c \in Client : /\ peers[c] # NoFlow => flows[peers[c]].client = c
                       /\ capture[c] # NoCap => flows[capture[c]].client = c
  /\ \A f \in Flow : flows[f].cap # NoCap => flows[flows[f].cap].client = flows[f].client

(* The flow a client's datagrams go to has a return path: its thread       *)
(* receives, or has yet to take the flow out of peers, so that the next    *)
(* datagram builds a new one ("a dead return path left c2s forwarding      *)
(* forever while s2c stayed frozen").                                      *)
NoWedge ==
  \A c \in Client : peers[c] # NoFlow =>
    flows[peers[c]].at \in {"recv", "check", "pop"}

(* An answer of the map, the empty datagrams it sends included, is taken   *)
(* off the socket and forwarded, as long as the network does not fail and  *)
(* the relay does not drop the flow ("do not turn any recv() result into   *)
(* break").                                                                *)
ReturnPathServes ==
  \A f \in Flow : answer = f ~> answer # f \/ flows[f].broken

(* A client is watched by one thread at a time, however often its flow is  *)
(* reaped and rebuilt.                                                     *)
OneWatcher ==
  \A c \in Client : Cardinality({i \in DOMAIN watch[c] : Alive(watch[c][i])}) <= 1

(* A client that goes quiet for good stops being watched, although its     *)
(* flow, its thread blocked in recv, is there for ever.                    *)
WatchIsBounded ==
  \A c \in Client : <>[](c \in stale) => <>[](~Watched(c))

(* "/logs cannot grow without bound": however many flows come and go, and  *)
(* the files of captures that could not be written to included, there are  *)
(* no more files than WORLD_CAP_KEEP, the one opened after the last prune, *)
(* those that prune had to leave open, and one for each that was skipped   *)
(* since; and no file is removed that a capture holds open.                *)
FilesBounded ==
  /\ OpenCaptures \subseteq files
  /\ Cardinality(files) <= WORLD_CAP_KEEP + 1 + excess

(* An open capture belongs to a client the relay is busy with or has a     *)
(* thread for: whoever ends a flow last closes the file, also when flows   *)
(* overlap and share one, or one of them could not open its own.           *)
NoCaptureLeak ==
  \A c \in Client : capture[c] # NoCap =>
    \/ relay.client = c
    \/ \E f \in Flow : flows[f].client = c /\ flows[f].at # "done"

(* A flow that is up, and that has a capture, is recorded in it: the late  *)
(* teardown of its predecessor does not close it.                          *)
SuccessorRecords ==
  \A c \in Client : LET f == peers[c] IN
    f # NoFlow /\ flows[f].at = "recv" /\ flows[f].cap # NoCap => capture[c] = flows[f].cap

=============================================================================
