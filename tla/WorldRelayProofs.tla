-------------------------- MODULE WorldRelayProofs --------------------------
(***************************************************************************)
(* The world relay, for any number of clients and of flows and whatever    *)
(* fails: every client's flow has a return path, every open capture a      *)
(* thread that will close it, every client at most one watcher, and the    *)
(* capture files are bounded.                                              *)
(***************************************************************************)
EXTENDS WorldRelay, FiniteSetTheorems, TLAPS

----------------------------------------------------------------------------
(* The inductive invariant.                                                *)

FlowRecord ==
  [client : Client \cup {NoClient},
   at : {"unbuilt", "recv", "check", "pop", "close", "done"},
   cap : Flow \cup {NoCap}, broken : BOOLEAN]

(* A flow is somebody's, or has not been built.                            *)
Built == \A f \in Flow : flows[f].client \in Client \/ flows[f] = Unbuilt

(* What the relay thread is busy with is a flow of the client it received  *)
(* from, also after others have taken that flow out of peers.              *)
RelayHas ==
  relay.at # "recvfrom" =>
    /\ relay.client \in Client /\ relay.flow \in Flow
    /\ flows[relay.flow].client = relay.client

(* A capture stays open no longer than the flow that opened it is up: only *)
(* that flow was handed it for its own.                                    *)
CaptureHeld ==
  \A c \in Client : capture[c] # NoCap =>
    flows[capture[c]].at # "done" /\ flows[capture[c]].cap = capture[c]

(* Of a client's watchers one at most is alive.                            *)
OneAlive ==
  \A c \in Client : \A i, j \in 1 .. 2 :
    Alive(watch[c][i]) /\ Alive(watch[c][j]) => i = j

RelayInv ==
  /\ RelayTypeOK
  /\ Built
  /\ RelayHas
  /\ NoWedge
  /\ CaptureHeld
  /\ OneAlive
  /\ FilesBounded

----------------------------------------------------------------------------
(* Values.                                                                 *)

(* A flow that has not been built is nobody's and records nothing.         *)
LEMMA UnbuiltFields ==
  /\ Unbuilt.client = NoClient /\ Unbuilt.at = "unbuilt" /\ Unbuilt.cap = NoCap
  /\ Unbuilt \in FlowRecord
BY DEF Unbuilt, NewFlow, FlowRecord

(* Numbers of flows start at 1, and there are finitely many.               *)
LEMMA FlowsAreNumbers ==
  NoFlow \notin Flow /\ NoCap \notin Flow /\ IsFiniteSet(Flow)
<1>1. MaxFlow \in Nat
  BY RelayAssumption
<1>2. IsFiniteSet(1 .. MaxFlow)
  BY <1>1, FS_Interval
<1>. QED
  BY <1>1, <1>2 DEF Flow, NoFlow, NoCap

(* A flow that is somebody's has been built, and the other way round.      *)
LEMMA BuiltMeans ==
  ASSUME Built, NEW f \in Flow
  PROVE  /\ flows[f].client = NoClient => flows[f].cap = NoCap
         /\ flows[f].at # "unbuilt" => flows[f].client \in Client
BY UnbuiltFields, RelayAssumption DEF Built

----------------------------------------------------------------------------
(* Opening a capture.                                                      *)

(* What a prune leaves: every open capture, and as many files as           *)
(* WORLD_CAP_KEEP and the open captures together.                          *)
LEMMA PruneKeeps ==
  ASSUME NEW fs, IsFiniteSet(fs), NEW keepOpen, keepOpen \subseteq fs,
         NEW kept \in Prune(fs, keepOpen)
  PROVE  /\ keepOpen \subseteq kept /\ kept \subseteq fs /\ IsFiniteSet(kept)
         /\ Cardinality(kept) <= WORLD_CAP_KEEP + Cardinality(keepOpen)
<1>1. PICK old \in SUBSET fs : Cardinality(old) = Beyond(fs) /\ kept = fs \ (old \ keepOpen)
  BY DEF Prune
<1>2. /\ keepOpen \subseteq kept /\ kept \subseteq fs
      /\ kept = (fs \ old) \cup keepOpen
  BY <1>1
<1>3. /\ IsFiniteSet(kept) /\ IsFiniteSet(fs \ old) /\ IsFiniteSet(keepOpen) /\ IsFiniteSet(old)
      /\ Cardinality(kept) \in Nat /\ Cardinality(keepOpen) \in Nat /\ Cardinality(fs) \in Nat
  BY <1>1, <1>2, FS_Subset, FS_CardinalityType
<1>4. Cardinality(fs \ old) = Cardinality(fs) - Beyond(fs)
  <2>1. fs \cap old = old
    BY <1>1
  <2>2. Cardinality(fs \ old) = Cardinality(fs) - Cardinality(fs \cap old)
    BY FS_Difference
  <2>. QED
    BY <1>1, <2>1, <2>2
<1>5. Cardinality(fs \ old) <= WORLD_CAP_KEEP
  BY <1>3, <1>4, RelayAssumption DEF Beyond
<1>6. Cardinality(kept) <= Cardinality(fs \ old) + Cardinality(keepOpen)
  <2>1. /\ Cardinality(kept) = Cardinality(fs \ old) + Cardinality(keepOpen)
                                 - Cardinality((fs \ old) \cap keepOpen)
        /\ Cardinality((fs \ old) \cap keepOpen) \in Nat
        /\ Cardinality(fs \ old) \in Nat
    BY <1>2, <1>3, FS_Union, FS_Intersection, FS_CardinalityType
  <2>. QED
    BY <1>3, <2>1
<1>7. Cardinality(fs \ old) \in Nat
  BY <1>3, FS_CardinalityType
<1>. QED
  BY <1>2, <1>3, <1>5, <1>6, <1>7, RelayAssumption

----------------------------------------------------------------------------
(* The invariant survives every step.                                      *)

(* No flow, no capture, no file, nobody watched.                           *)
LEMMA InitInv == Init => RelayInv
<1>. SUFFICES ASSUME Init PROVE RelayInv
  OBVIOUS
<1>1. flows \in [Flow -> FlowRecord] /\ \A f \in Flow : flows[f] = Unbuilt
  BY UnbuiltFields DEF Init
<1>2. RelayTypeOK
  BY <1>1, UnbuiltFields DEF Init, RelayTypeOK, FlowRecord, Waiting
<1>3. Built /\ RelayHas /\ NoWedge /\ CaptureHeld /\ OneAlive
  BY <1>1 DEF Init, Waiting, Built, RelayHas, NoWedge, CaptureHeld, OneAlive, Alive
<1>4. FilesBounded
  <2>1. OpenCaptures = {} /\ files = {} /\ excess = 0
    BY DEF Init, OpenCaptures
  <2>2. Cardinality(files) = 0
    BY <2>1, FS_EmptySet
  <2>. QED
    BY <2>1, <2>2, RelayAssumption DEF FilesBounded
<1>. QED
  BY <1>2, <1>3, <1>4 DEF RelayInv

(* One flow moves on, gives its capture up or has its socket closed; no    *)
(* other is touched, and all keep their clients.                           *)
Touches(f) ==
  /\ flows' \in [Flow -> FlowRecord]
  /\ \A g \in Flow \ {f} : flows'[g] = flows[g]
  /\ flows'[f].client = flows[f].client
  /\ flows'[f].cap \in {flows[f].cap, NoCap}

(* What a flow's thread or the relay thread does to a flow touches it.     *)
LEMMA FlowSteps ==
  ASSUME flows \in [Flow -> FlowRecord], NEW f \in Flow
  PROVE  /\ \A at \in {"recv", "check", "pop", "close", "done"} : Step(f, at) =>
              Touches(f) /\ flows'[f].at = at /\ flows'[f].cap = flows[f].cap
         /\ flows' = [flows EXCEPT ![f].broken = TRUE] =>
              Touches(f) /\ flows'[f].at = flows[f].at /\ flows'[f].cap = flows[f].cap
         /\ flows' = [flows EXCEPT ![f] = Done(f)] =>
              Touches(f) /\ flows'[f].at = "done"
<1>1. ASSUME NEW at \in {"recv", "check", "pop", "close", "done"}, Step(f, at)
      PROVE  Touches(f) /\ flows'[f].at = at /\ flows'[f].cap = flows[f].cap
  <2>1. flows' = [flows EXCEPT ![f] = [flows[f] EXCEPT !.at = at]]
    BY <1>1 DEF Step
  <2>2. [flows[f] EXCEPT !.at = at] \in FlowRecord
    BY DEF FlowRecord
  <2>. QED
    BY <2>1, <2>2 DEF FlowRecord, Touches
<1>2. ASSUME flows' = [flows EXCEPT ![f].broken = TRUE]
      PROVE  Touches(f) /\ flows'[f].at = flows[f].at /\ flows'[f].cap = flows[f].cap
  <2>1. flows' = [flows EXCEPT ![f] = [flows[f] EXCEPT !.broken = TRUE]]
    BY <1>2
  <2>2. [flows[f] EXCEPT !.broken = TRUE] \in FlowRecord
    BY DEF FlowRecord
  <2>. QED
    BY <2>1, <2>2 DEF FlowRecord, Touches
<1>3. ASSUME flows' = [flows EXCEPT ![f] = Done(f)]
      PROVE  Touches(f) /\ flows'[f].at = "done"
  <2> DEFINE r == [[flows[f] EXCEPT !.at = "done"] EXCEPT !.cap = NoCap]
  <2>1. flows' = [flows EXCEPT ![f] = r]
    BY <1>3 DEF Done
  <2>2. r \in FlowRecord /\ r.at = "done" /\ r.cap = NoCap /\ r.client = flows[f].client
    BY DEF FlowRecord
  <2>. HIDE DEF r
  <2>. QED
    BY <2>1, <2>2 DEF Touches
<1>. QED
  BY <1>1, <1>2, <1>3

(* A step that touches one flow and, of peers and of the captures, at most *)
(* takes entries out.                                                      *)
LEMMA TouchInv ==
  ASSUME RelayInv, NEW f \in Flow, Touches(f), flows[f] # Unbuilt, NEW c \in Client,
         peers' \in {peers, [peers EXCEPT ![c] = NoFlow]},
         capture' \in {capture, [capture EXCEPT ![c] = NoCap]},
         relay' \in [at : {"recvfrom", "forward", "drop", "drop pop", "drop close"},
                     client : Client \cup {NoClient}, flow : Flow \cup {NoFlow}],
         answer' \in Flow \cup {NoFlow}, stale' \subseteq Client,
         UNCHANGED <<files, excess, known, watch>>,
         relay'.at # "recvfrom" =>
           relay.at # "recvfrom" /\ relay'.client = relay.client /\ relay'.flow = relay.flow,
         flows'[f].at = flows[f].at \/ flows'[f].at \in {"recv", "check", "pop"} \/
           \A d \in Client : peers'[d] # f,
         (flows'[f].at # "done" /\ flows'[f].cap = flows[f].cap) \/
           \A d \in Client : capture'[d] # f
  PROVE  RelayInv'
<1>1. /\ peers \in [Client -> Flow \cup {NoFlow}] /\ capture \in [Client -> Flow \cup {NoCap}]
      /\ flows \in [Flow -> FlowRecord] /\ RelayTypeOK
  BY DEF RelayInv, RelayTypeOK, FlowRecord
<1>2. /\ peers' \in [Client -> Flow \cup {NoFlow}] /\ capture' \in [Client -> Flow \cup {NoCap}]
      /\ \A d \in Client : /\ peers'[d] \in {peers[d], NoFlow}
                           /\ capture'[d] \in {capture[d], NoCap}
  BY <1>1
<1>3. \A g \in Flow : /\ flows'[g].client = flows[g].client
                      /\ flows'[g].cap \in {flows[g].cap, NoCap}
  BY DEF Touches
<1>4. RelayTypeOK'
  <2>1. ASSUME NEW d \in Client, peers'[d] # NoFlow PROVE flows'[peers'[d]].client = d
    <3>1. peers'[d] = peers[d] /\ peers[d] \in Flow /\ flows[peers[d]].client = d
      BY <1>1, <1>2, <2>1 DEF RelayTypeOK
    <3>. QED
      BY <1>3, <3>1
  <2>2. ASSUME NEW d \in Client, capture'[d] # NoCap PROVE flows'[capture'[d]].client = d
    <3>1. capture'[d] = capture[d] /\ capture[d] \in Flow /\ flows[capture[d]].client = d
      BY <1>1, <1>2, <2>2 DEF RelayTypeOK
    <3>. QED
      BY <1>3, <3>1
  <2>3. ASSUME NEW g \in Flow, flows'[g].cap # NoCap
        PROVE  flows'[flows'[g].cap].client = flows'[g].client
    <3>1. flows[g] \in FlowRecord
      BY <1>1
    <3>2. flows[g].cap \in Flow \cup {NoCap}
      BY <3>1 DEF FlowRecord
    <3>3. /\ flows'[g].cap = flows[g].cap /\ flows[g].cap \in Flow
          /\ flows[flows[g].cap].client = flows[g].client
      BY <1>1, <1>3, <2>3, <3>2 DEF RelayTypeOK
    <3>. QED
      BY <1>3, <3>3
  <2>. QED
    BY <1>1, <1>2, <2>1, <2>2, <2>3 DEF RelayTypeOK, Touches, FlowRecord
<1>5. Built'
  BY <1>3 DEF RelayInv, Built, Touches
<1>6. RelayHas'
  BY <1>3 DEF RelayInv, RelayHas
<1>7. NoWedge'
  <2>. SUFFICES ASSUME NEW d \in Client, peers'[d] # NoFlow
                PROVE  flows'[peers'[d]].at \in {"recv", "check", "pop"}
    BY DEF NoWedge
  <2>1. peers'[d] = peers[d] /\ peers[d] \in Flow /\ flows[peers[d]].at \in {"recv", "check", "pop"}
    BY <1>1, <1>2 DEF RelayInv, NoWedge
  <2>. QED
    BY <2>1 DEF Touches
<1>8. CaptureHeld'
  <2>. SUFFICES ASSUME NEW d \in Client, capture'[d] # NoCap
                PROVE  flows'[capture'[d]].at # "done" /\ flows'[capture'[d]].cap = capture'[d]
    BY DEF CaptureHeld
  <2>1. /\ capture'[d] = capture[d] /\ capture[d] \in Flow
        /\ flows[capture[d]].at # "done" /\ flows[capture[d]].cap = capture[d]
    BY <1>1, <1>2 DEF RelayInv, CaptureHeld
  <2>2. CASE capture[d] = f
    BY <2>1, <2>2
  <2>3. CASE capture[d] # f
    <3>1. flows'[capture[d]] = flows[capture[d]]
      BY <2>1, <2>3 DEF Touches
    <3>. QED
      BY <2>1, <3>1
  <2>. QED
    BY <2>2, <2>3
<1>9. OneAlive'
  BY DEF RelayInv, OneAlive
<1>10. FilesBounded'
  <2>1. OpenCaptures' \subseteq OpenCaptures
    <3>. SUFFICES ASSUME NEW x \in OpenCaptures' PROVE x \in OpenCaptures
      OBVIOUS
    <3>1. PICK d \in Client : x = capture'[d] /\ x # NoCap
      BY DEF OpenCaptures
    <3>2. x = capture[d]
      BY <1>2, <3>1
    <3>. QED
      BY <3>1, <3>2 DEF OpenCaptures
  <2>. QED
    BY <2>1 DEF RelayInv, FilesBounded
<1>. QED
  BY <1>4, <1>5, <1>6, <1>7, <1>8, <1>9, <1>10 DEF RelayInv

(* A step that leaves the flows and the captures alone, the relay thread   *)
(* included.                                                               *)
LEMMA QuietInv ==
  ASSUME RelayInv, UNCHANGED <<peers, capture, files, excess, flows>>, known' \subseteq Client,
         stale' \subseteq Client, answer' \in Flow \cup {NoFlow},
         relay' \in [at : {"recvfrom", "forward", "drop", "drop pop", "drop close"},
                     client : Client \cup {NoClient}, flow : Flow \cup {NoFlow}],
         RelayHas', OneAlive',
         watch' \in [Client -> [1 .. 2 -> {"over", "connect", "loop", "ending"}]]
  PROVE  RelayInv'
<1>1. RelayTypeOK'
  BY DEF RelayInv, RelayTypeOK
<1>2. Built' /\ NoWedge' /\ CaptureHeld'
  BY DEF RelayInv, Built, NoWedge, CaptureHeld
<1>3. FilesBounded'
  BY DEF RelayInv, FilesBounded, OpenCaptures
<1>. QED
  BY <1>1, <1>2, <1>3 DEF RelayInv

(* The relay thread forwards a datagram, or drops the flow.                *)
LEMMA RelayStepInv ==
  ASSUME RelayInv, RelayStep
  PROVE  RelayInv'
<1> DEFINE f == relay.flow
           c == relay.client
<1>1. /\ f \in Flow /\ c \in Client /\ flows[f].client = c
      /\ flows \in [Flow -> FlowRecord]
      /\ relay \in [at : {"recvfrom", "forward", "drop", "drop pop", "drop close"},
                    client : Client \cup {NoClient}, flow : Flow \cup {NoFlow}]
      /\ known \subseteq Client /\ stale \subseteq Client /\ answer \in Flow \cup {NoFlow}
      /\ watch \in [Client -> [1 .. 2 -> {"over", "connect", "loop", "ending"}]]
      /\ OneAlive
  BY DEF RelayStep, Forward, DropCheck, DropPop, DropClose, RelayInv, RelayHas, RelayTypeOK,
         FlowRecord
<1>2. ASSUME NEW at \in {"forward", "drop", "drop pop", "drop close"}, Goto(at)
      PROVE  /\ relay' \in [at : {"recvfrom", "forward", "drop", "drop pop", "drop close"},
                            client : Client \cup {NoClient}, flow : Flow \cup {NoFlow}]
             /\ relay'.client = c /\ relay'.flow = f
  BY <1>1, <1>2 DEF Goto
<1>3. /\ Waiting \in [at : {"recvfrom", "forward", "drop", "drop pop", "drop close"},
                      client : Client \cup {NoClient}, flow : Flow \cup {NoFlow}]
      /\ Waiting.at = "recvfrom"
  BY DEF Waiting
<1>4. CASE Forward
  <2>1. /\ UNCHANGED <<peers, capture, files, excess, flows, answer, known, watch>>
        /\ stale' \subseteq Client
        /\ (relay' = Waiting \/ Goto("drop"))
    BY <1>1, <1>4 DEF Forward
  <2>2. /\ relay' \in [at : {"recvfrom", "forward", "drop", "drop pop", "drop close"},
                       client : Client \cup {NoClient}, flow : Flow \cup {NoFlow}]
        /\ relay'.at = "recvfrom" \/ (relay'.client = c /\ relay'.flow = f)
    BY <1>2, <1>3, <2>1
  <2>3. RelayHas'
    BY <1>1, <2>1, <2>2 DEF RelayHas
  <2>4. OneAlive'
    BY <1>1, <2>1 DEF OneAlive
  <2>. QED
    BY <1>1, <2>1, <2>2, <2>3, <2>4, QuietInv
<1>5. CASE DropCheck
  <2>1. /\ UNCHANGED <<peers, capture, files, excess, flows, answer, known, watch, stale>>
        /\ Goto("drop pop") \/ Goto("drop close")
    BY <1>5 DEF DropCheck
  <2>2. /\ relay' \in [at : {"recvfrom", "forward", "drop", "drop pop", "drop close"},
                       client : Client \cup {NoClient}, flow : Flow \cup {NoFlow}]
        /\ relay'.client = c /\ relay'.flow = f
    BY <1>2, <2>1
  <2>3. RelayHas'
    BY <1>1, <2>1, <2>2 DEF RelayHas
  <2>4. OneAlive'
    BY <1>1, <2>1 DEF OneAlive
  <2>. QED
    BY <1>1, <2>1, <2>2, <2>3, <2>4, QuietInv
<1>6. flows[f] # Unbuilt
  BY <1>1, UnbuiltFields, RelayAssumption
<1>7. CASE DropPop
  <2>1. /\ peers' = [peers EXCEPT ![c] = NoFlow] /\ Goto("drop close")
        /\ UNCHANGED <<capture, files, excess, flows, answer, known, watch, stale>>
        /\ relay.at = "drop pop"
    BY <1>7 DEF DropPop
  <2>2. Touches(f) /\ flows'[f].at = flows[f].at /\ flows'[f].cap = flows[f].cap
    BY <1>1, <2>1 DEF Touches
  <2>3. CASE flows[f].at # "done"
    BY <1>1, <1>2, <1>6, <2>1, <2>2, <2>3, TouchInv
  <2>4. CASE flows[f].at = "done"
    <3>1. \A d \in Client : capture'[d] # f
      BY <1>1, <2>1, <2>4, FlowsAreNumbers DEF RelayInv, CaptureHeld
    <3>. HIDE DEF f, c
    <3>. QED
      BY <1>1, <1>2, <1>6, <2>1, <2>2, <3>1, TouchInv DEF f, c
  <2>. QED
    BY <2>3, <2>4
<1>8. CASE DropClose
  <2>1. /\ CloseCapture(c, capture[c])
        /\ flows' = [flows EXCEPT ![f].broken = TRUE]
        /\ relay' = Waiting /\ UNCHANGED <<peers, files, excess, answer, known, watch, stale>>
    BY <1>8 DEF DropClose
  <2>2. Touches(f) /\ flows'[f].at = flows[f].at /\ flows'[f].cap = flows[f].cap
    BY <1>1, <2>1, FlowSteps
  <2>3. capture' = [capture EXCEPT ![c] = NoCap]
    BY <1>1, <2>1 DEF CloseCapture, RelayInv, RelayTypeOK
  <2>4. flows[f].at # "done" \/ \A d \in Client : capture'[d] # f
    <3>. SUFFICES ASSUME NEW d \in Client, capture'[d] = f PROVE flows[f].at # "done"
      OBVIOUS
    <3>1. capture'[d] \in {capture[d], NoCap}
      BY <2>3 DEF RelayInv, RelayTypeOK
    <3>2. capture[d] = f /\ capture[d] # NoCap
      BY <1>1, <3>1, FlowsAreNumbers
    <3>. QED
      BY <3>2 DEF RelayInv, CaptureHeld
  <2>. QED
    BY <1>1, <1>3, <1>6, <2>1, <2>2, <2>3, <2>4, TouchInv
<1>. QED
  BY <1>4, <1>5, <1>7, <1>8 DEF RelayStep

(* A return path receives, or tears its flow down.                         *)
LEMMA BackInv ==
  ASSUME RelayInv, NEW f \in Flow,
         BackStep(f) \/ RecvFails(f) \/ MapReply(f) \/ Fail(f)
  PROVE  RelayInv'
<1> DEFINE c == flows[f].client
<1>1. /\ flows \in [Flow -> FlowRecord]
      /\ relay \in [at : {"recvfrom", "forward", "drop", "drop pop", "drop close"},
                    client : Client \cup {NoClient}, flow : Flow \cup {NoFlow}]
      /\ known \subseteq Client /\ stale \subseteq Client /\ answer \in Flow \cup {NoFlow}
      /\ watch \in [Client -> [1 .. 2 -> {"over", "connect", "loop", "ending"}]]
      /\ OneAlive /\ RelayHas /\ Built
      /\ peers \in [Client -> Flow \cup {NoFlow}] /\ capture \in [Client -> Flow \cup {NoCap}]
      /\ \A d \in Client : peers[d] # NoFlow => flows[peers[d]].client = d
      /\ \A d \in Client : capture[d] # NoCap => flows[capture[d]].client = d
  BY DEF RelayInv, RelayTypeOK, FlowRecord
<1>2. c \in Client /\ flows[f] # Unbuilt
  BY <1>1, BuiltMeans, UnbuiltFields
     DEF BackStep, Recv, BackCheck, BackPop, BackClose, RecvFails, MapReply, Fail
<1>3. relay' = relay /\ UNCHANGED <<files, excess, known, watch>>
  BY DEF BackStep, Recv, BackCheck, BackPop, BackClose, RecvFails, MapReply, Fail
<1>4. RelayHas' \/ flows' # flows
  BY <1>1, <1>3 DEF RelayHas
<1>5. OneAlive'
  BY <1>1, <1>3 DEF OneAlive
<1>6. CASE Recv(f) \/ MapReply(f)
  <2>1. /\ UNCHANGED <<peers, capture, files, excess, flows, known, watch>>
        /\ stale' \subseteq Client /\ answer' \in Flow \cup {NoFlow}
    BY <1>1, <1>6 DEF Recv, MapReply
  <2>. QED
    BY <1>1, <1>3, <1>4, <1>5, <2>1, QuietInv
<1>7. CASE RecvFails(f)
  <2>1. /\ Step(f, "check") /\ flows[f].at = "recv"
        /\ UNCHANGED <<peers, capture, answer, stale>>
    BY <1>7 DEF RecvFails
  <2>2. Touches(f) /\ flows'[f].at = "check" /\ flows'[f].cap = flows[f].cap
    BY <1>1, <2>1, FlowSteps
  <2>. QED
    BY <1>1, <1>2, <1>3, <2>1, <2>2, TouchInv
<1>8. CASE Fail(f)
  <2>1. /\ flows' = [flows EXCEPT ![f].broken = TRUE] /\ flows[f].at = "recv"
        /\ UNCHANGED <<peers, capture, answer, stale>>
    BY <1>8 DEF Fail
  <2>2. Touches(f) /\ flows'[f].at = "recv" /\ flows'[f].cap = flows[f].cap
    BY <1>1, <2>1, FlowSteps
  <2>. QED
    BY <1>1, <1>2, <1>3, <2>1, <2>2, TouchInv
<1>9. CASE BackCheck(f)
  <2>1. /\ flows[f].at = "check" /\ UNCHANGED <<peers, capture, answer, stale>>
        /\ Step(f, IF peers[c] = f THEN "pop" ELSE "close")
    BY <1>9 DEF BackCheck
  <2>2. PICK at \in {"pop", "close"} : Step(f, at) /\ (at = "close" => peers[c] # f)
    BY <2>1
  <2>3. Touches(f) /\ flows'[f].at = at /\ flows'[f].cap = flows[f].cap
    BY <1>1, <2>2, FlowSteps
  <2>4. at = "close" => \A d \in Client : peers'[d] # f
    BY <1>1, <2>1, <2>2, FlowsAreNumbers
  <2>. QED
    BY <1>1, <1>2, <1>3, <2>1, <2>3, <2>4, TouchInv
<1>10. CASE BackPop(f)
  <2>1. /\ peers' = [peers EXCEPT ![c] = NoFlow] /\ Step(f, "close")
        /\ UNCHANGED <<capture, answer, stale>>
    BY <1>10 DEF BackPop
  <2>2. Touches(f) /\ flows'[f].at = "close" /\ flows'[f].cap = flows[f].cap
    BY <1>1, <2>1, FlowSteps
  <2>3. \A d \in Client : peers'[d] # f
    BY <1>1, <1>2, <2>1, FlowsAreNumbers
  <2>. QED
    BY <1>1, <1>2, <1>3, <2>1, <2>2, <2>3, TouchInv
<1>11. CASE BackClose(f)
  <2>1. /\ flows[f].at = "close" /\ CloseCapture(c, flows[f].cap)
        /\ flows' = [flows EXCEPT ![f] = Done(f)]
        /\ UNCHANGED <<peers, answer, stale>>
    BY <1>11 DEF BackClose
  <2>2. Touches(f) /\ flows'[f].at = "done"
    BY <1>1, <2>1, FlowSteps
  <2>3. capture' \in {capture, [capture EXCEPT ![c] = NoCap]}
    BY <1>1, <2>1 DEF CloseCapture
  <2>4. \A d \in Client : peers'[d] # f
    BY <2>1, FlowsAreNumbers DEF RelayInv, NoWedge
  <2>5. ASSUME NEW d \in Client, capture'[d] = f PROVE FALSE
    <3>1. capture[d] = f /\ f # NoCap
      BY <1>1, <2>3, <2>5, FlowsAreNumbers
    <3>2. d = c /\ flows[f].cap = f
      BY <1>1, <3>1 DEF RelayInv, CaptureHeld
    <3>3. capture'[c] = NoCap
      BY <1>1, <1>2, <2>1, <3>1, <3>2 DEF CloseCapture
    <3>. QED
      BY <2>5, <3>1, <3>2, <3>3
  <2>. QED
    BY <1>1, <1>2, <1>3, <2>1, <2>2, <2>3, <2>4, <2>5, TouchInv
<1>. QED
  BY <1>6, <1>7, <1>8, <1>9, <1>10, <1>11 DEF BackStep

(* What the prune leaves, if it succeeds and if it is skipped: every open  *)
(* capture, and room for one file more.                                    *)
LEMMA PruneLeavesRoom ==
  ASSUME RelayInv, NEW f, NEW left \in SUBSET files, PruneLeaves(f, left)
  PROVE  /\ OpenCaptures \subseteq left /\ excess' \in Nat
         /\ IsFiniteSet(left) /\ Cardinality(left) \in Nat
         /\ Cardinality(left) + 1 <= WORLD_CAP_KEEP + 1 + excess'
<1>1. /\ capture \in [Client -> Flow \cup {NoCap}] /\ files \subseteq Flow /\ excess \in Nat
      /\ OpenCaptures \subseteq files
      /\ Cardinality(files) <= WORLD_CAP_KEEP + 1 + excess
  BY DEF RelayInv, RelayTypeOK, FilesBounded
<1>2. IsFiniteSet(files) /\ IsFiniteSet(left) /\ Cardinality(left) <= Cardinality(files)
  BY <1>1, FlowsAreNumbers, FS_Subset
<1>3. IsFiniteSet(OpenCaptures)
  BY <1>1, <1>2, FS_Subset
<1>4. /\ Cardinality(left) \in Nat /\ Cardinality(files) \in Nat
      /\ Cardinality(OpenCaptures) \in Nat /\ WORLD_CAP_KEEP \in Nat
  BY <1>2, <1>3, RelayAssumption, FS_CardinalityType
<1>5. CASE left \in Prune(files, OpenCaptures) /\ excess' = Cardinality(OpenCaptures)
  <2>1. /\ OpenCaptures \subseteq left
        /\ Cardinality(left) <= WORLD_CAP_KEEP + Cardinality(OpenCaptures)
    BY <1>1, <1>2, <1>5, PruneKeeps
  <2>. QED
    BY <1>2, <1>3, <1>4, <1>5, <2>1
<1>6. CASE left \in PruneSkipped(files, OpenCaptures) /\ excess' = excess + 1
  <2>1. PICK kept \in Prune(files, OpenCaptures) :
          \E gone \in SUBSET (files \ kept) : left = files \ gone
    BY <1>6 DEF PruneSkipped
  <2>2. OpenCaptures \subseteq kept
    BY <1>1, <1>2, PruneKeeps
  <2>3. OpenCaptures \subseteq left
    BY <1>1, <2>1, <2>2
  <2>. QED
    BY <1>1, <1>2, <1>4, <1>6, <2>3
<1>. QED
  BY <1>5, <1>6 DEF PruneLeaves

(* A new flow and a capture for it keep the files bounded and the open     *)
(* captures on disk.                                                       *)
LEMMA OpenCaptureBounded ==
  ASSUME RelayInv, NEW c \in Client, NEW f \in Flow, OpenCapture(f, c)
  PROVE  FilesBounded' /\ files' \subseteq Flow /\ excess' \in Nat
<1>1. capture \in [Client -> Flow \cup {NoCap}] /\ files \subseteq Flow /\ excess \in Nat
  BY DEF RelayInv, RelayTypeOK
<1>2. CASE capture[c] # NoCap
  <2>1. UNCHANGED <<capture, files, excess>>
    BY <1>2 DEF OpenCapture
  <2>. QED
    BY <1>1, <2>1 DEF RelayInv, FilesBounded, OpenCaptures
<1>3. CASE capture[c] = NoCap
  <2>1. PICK left \in SUBSET files :
          /\ PruneLeaves(f, left)
          /\ files' \in {left, left \cup {f}}
          /\ \/ files' = left \cup {f} /\ capture' = [capture EXCEPT ![c] = f]
             \/ UNCHANGED capture
    BY <1>3 DEF OpenCapture
  <2>2. /\ OpenCaptures \subseteq left /\ excess' \in Nat
        /\ IsFiniteSet(left) /\ Cardinality(left) \in Nat
        /\ Cardinality(left) + 1 <= WORLD_CAP_KEEP + 1 + excess'
    BY <1>3, <2>1, PruneLeavesRoom
  <2>3. /\ Cardinality(left \cup {f}) \in {Cardinality(left), Cardinality(left) + 1}
        /\ WORLD_CAP_KEEP \in Nat
    <3>1. /\ IsFiniteSet(left \cup {f})
          /\ Cardinality(left \cup {f}) =
               IF f \in left THEN Cardinality(left) ELSE Cardinality(left) + 1
      BY <2>2, FS_AddElement
    <3>. QED
      BY <3>1, RelayAssumption
  <2>4. Cardinality(files') <= WORLD_CAP_KEEP + 1 + excess'
    <3>1. Cardinality(files') \in {Cardinality(left), Cardinality(left) + 1}
      BY <2>1, <2>3
    <3>. QED
      BY <2>2, <2>3, <3>1
  <2>5. OpenCaptures' \subseteq files'
    <3>1. CASE files' = left \cup {f} /\ capture' = [capture EXCEPT ![c] = f]
      <4>1. OpenCaptures' \subseteq OpenCaptures \cup {f}
        BY <1>1, <3>1 DEF OpenCaptures
      <4>. QED
        BY <2>2, <3>1, <4>1
    <3>2. CASE UNCHANGED capture
      <4>1. OpenCaptures' = OpenCaptures
        BY <3>2 DEF OpenCaptures
      <4>. QED
        BY <2>1, <2>2, <4>1
    <3>. QED
      BY <2>1, <3>1, <3>2
  <2>. QED
    BY <1>1, <2>1, <2>2, <2>4, <2>5 DEF FilesBounded
<1>. QED
  BY <1>2, <1>3

(* A client's watcher is started only when none of its watchers is alive.  *)
LEMMA StartWatchOne ==
  ASSUME OneAlive, watch \in [Client -> [1 .. 2 -> {"over", "connect", "loop", "ending"}]],
         NEW c \in Client, StartWatch(c) \/ UNCHANGED watch
  PROVE  /\ OneAlive'
         /\ watch' \in [Client -> [1 .. 2 -> {"over", "connect", "loop", "ending"}]]
<1>1. CASE UNCHANGED watch
  BY <1>1 DEF OneAlive
<1>2. CASE ~Watched(c) /\ watch' = [watch EXCEPT ![c][1] = "connect"]
  <2>1. watch' = [watch EXCEPT ![c] = [watch[c] EXCEPT ![1] = "connect"]]
    BY <1>2
  <2>2. /\ watch' \in [Client -> [1 .. 2 -> {"over", "connect", "loop", "ending"}]]
        /\ \A d \in Client \ {c} : watch'[d] = watch[d]
        /\ watch'[c][2] = watch[c][2]
    BY <2>1
  <2>3. ~Alive(watch'[c][2])
    BY <1>2, <2>2 DEF Watched
  <2>. QED
    BY <2>2, <2>3 DEF OneAlive
<1>. QED
  BY <1>1, <1>2 DEF StartWatch

(* A datagram of a client that has no flow builds one, which nothing       *)
(* refers to yet; it takes the client's open capture over, or a new one.   *)
LEMMA BuildInv ==
  ASSUME RelayInv, NEW c \in Client, Build(c)
  PROVE  RelayInv'
<1>1. PICK f \in Flow, login \in {FALSE, (c \in Named)} :
        /\ flows[f] = Unbuilt
        /\ peers' = [peers EXCEPT ![c] = f]
        /\ OpenCapture(f, c)
        /\ known' = IF login THEN known \cup {c} ELSE known
        /\ relay' = [at |-> "forward", client |-> c, flow |-> f]
  BY DEF Build
<1>2. /\ flows \in [Flow -> FlowRecord] /\ Built /\ CaptureHeld /\ NoWedge
      /\ peers \in [Client -> Flow \cup {NoFlow}] /\ capture \in [Client -> Flow \cup {NoCap}]
      /\ known \subseteq Client /\ stale \subseteq Client /\ answer \in Flow \cup {NoFlow}
      /\ \A d \in Client : peers[d] # NoFlow => flows[peers[d]].client = d
      /\ \A d \in Client : capture[d] # NoCap => flows[capture[d]].client = d
      /\ \A g \in Flow : flows[g].cap # NoCap => flows[flows[g].cap].client = flows[g].client
      /\ UNCHANGED <<answer, stale>>
  BY DEF RelayInv, RelayTypeOK, FlowRecord, Build
<1>3. PICK cap \in {capture[c], f, NoCap} :
        /\ flows' = [flows EXCEPT ![f] = NewFlow(c, cap)]
        /\ capture' = [capture EXCEPT ![c] = cap]
  <2>1. CASE capture[c] # NoCap
    BY <1>1, <1>2, <2>1 DEF OpenCapture
  <2>2. CASE capture[c] = NoCap
    BY <1>1, <1>2, <2>2 DEF OpenCapture
  <2>. QED
    BY <2>1, <2>2
<1>4. /\ NewFlow(c, cap) \in FlowRecord /\ NewFlow(c, cap).client = c
      /\ NewFlow(c, cap).at = "recv" /\ NewFlow(c, cap).cap = cap
  BY <1>2 DEF NewFlow, FlowRecord
<1>5. /\ flows' \in [Flow -> FlowRecord] /\ flows'[f] = NewFlow(c, cap)
      /\ \A g \in Flow \ {f} : flows'[g] = flows[g]
  BY <1>2, <1>3, <1>4
<1>6. /\ \A d \in Client : peers[d] # f /\ capture[d] # f
      /\ \A g \in Flow : flows[g].cap # f
  <2>1. flows[f].client \notin Client
    BY <1>1, UnbuiltFields, RelayAssumption
  <2>2. \A d \in Client : peers[d] # f /\ capture[d] # f
    BY <1>2, <2>1, FlowsAreNumbers
  <2>3. ASSUME NEW g \in Flow, flows[g].cap = f PROVE FALSE
    <3>1. flows[g].cap # NoCap
      BY <2>3, FlowsAreNumbers
    <3>2. flows[g].client = NoClient
      BY <1>1, <1>2, <2>3, <3>1, UnbuiltFields
    <3>. QED
      BY <1>2, <3>1, <3>2, BuiltMeans
  <2>. QED
    BY <2>2, <2>3
<1>7. \A d \in Client : /\ peers'[d] = IF d = c THEN f ELSE peers[d]
                        /\ capture'[d] = IF d = c THEN cap ELSE capture[d]
  BY <1>1, <1>2, <1>3
<1>8. \A d \in Client : /\ peers'[d] \in Flow \cup {NoFlow} /\ capture'[d] \in Flow \cup {NoCap}
                        /\ peers'[d] # NoFlow => flows'[peers'[d]].client = d
                        /\ capture'[d] # NoCap => flows'[capture'[d]].client = d
  <2>. SUFFICES ASSUME NEW d \in Client
                PROVE  /\ peers'[d] \in Flow \cup {NoFlow} /\ capture'[d] \in Flow \cup {NoCap}
                       /\ peers'[d] # NoFlow => flows'[peers'[d]].client = d
                       /\ capture'[d] # NoCap => flows'[capture'[d]].client = d
    OBVIOUS
  <2>1. peers[d] \in Flow \cup {NoFlow} /\ capture[d] \in Flow \cup {NoCap}
    BY <1>2
  <2>2. /\ peers'[d] \in {peers[d], f} /\ capture'[d] \in {capture[d], f, NoCap}
        /\ peers'[d] = f => d = c
        /\ capture'[d] = f => d = c
    BY <1>3, <1>6, <1>7, FlowsAreNumbers
  <2>3. peers'[d] # NoFlow => flows'[peers'[d]].client = d
    BY <1>2, <1>4, <1>5, <2>1, <2>2
  <2>4. capture'[d] # NoCap => flows'[capture'[d]].client = d
    BY <1>2, <1>4, <1>5, <2>1, <2>2
  <2>. QED
    BY <2>1, <2>2, <2>3, <2>4
<1>9. \A g \in Flow : flows'[g].cap # NoCap => flows'[flows'[g].cap].client = flows'[g].client
  <2>. SUFFICES ASSUME NEW g \in Flow, flows'[g].cap # NoCap
                PROVE  flows'[flows'[g].cap].client = flows'[g].client
    OBVIOUS
  <2>1. CASE g = f
    <3>1. flows'[g].cap = capture'[c] /\ flows'[g].client = c
      BY <1>4, <1>5, <1>7, <2>1
    <3>. QED
      BY <1>8, <3>1
  <2>2. CASE g # f
    <3>1. flows'[g] = flows[g] /\ flows[g] \in FlowRecord
      BY <1>2, <1>5, <2>2
    <3>2. flows[g].cap \in Flow \ {f}
      BY <1>6, <3>1 DEF FlowRecord
    <3>. QED
      BY <1>2, <1>5, <3>1, <3>2
  <2>. QED
    BY <2>1, <2>2
<1>10. Built' /\ RelayHas'
  BY <1>1, <1>2, <1>4, <1>5 DEF Built, RelayHas
<1>11. NoWedge'
  <2>. SUFFICES ASSUME NEW d \in Client, peers'[d] # NoFlow
                PROVE  flows'[peers'[d]].at \in {"recv", "check", "pop"}
    BY DEF NoWedge
  <2>1. CASE d = c
    BY <1>4, <1>5, <1>7, <2>1
  <2>2. CASE d # c
    <3>1. peers'[d] = peers[d] /\ peers[d] \in Flow \ {f}
      BY <1>2, <1>6, <1>7, <2>2
    <3>. QED
      BY <1>2, <1>5, <3>1 DEF NoWedge
  <2>. QED
    BY <2>1, <2>2
<1>12. CaptureHeld'
  <2>. SUFFICES ASSUME NEW d \in Client, capture'[d] # NoCap
                PROVE  flows'[capture'[d]].at # "done" /\ flows'[capture'[d]].cap = capture'[d]
    BY DEF CaptureHeld
  <2>1. CASE capture'[d] = f
    <3>1. cap = f
      BY <1>6, <1>7, <2>1
    <3>. QED
      BY <1>4, <1>5, <2>1, <3>1
  <2>2. CASE capture'[d] # f
    <3>1. capture'[d] = capture[d] /\ capture[d] \in Flow \ {f}
      BY <1>2, <1>3, <1>6, <1>7, <2>2
    <3>. QED
      BY <1>2, <1>5, <3>1 DEF CaptureHeld
  <2>. QED
    BY <2>1, <2>2
<1>13. FilesBounded' /\ files' \subseteq Flow /\ excess' \in Nat
  BY <1>1, OpenCaptureBounded
<1>14. /\ OneAlive'
       /\ watch' \in [Client -> [1 .. 2 -> {"over", "connect", "loop", "ending"}]]
  <2>1. StartWatch(c) \/ UNCHANGED watch
    BY DEF Build
  <2>. QED
    BY <2>1, StartWatchOne DEF RelayInv, RelayTypeOK
<1>15. known' \subseteq Client
  BY <1>1, <1>2
<1>16. relay' \in [at : {"recvfrom", "forward", "drop", "drop pop", "drop close"},
                  client : Client \cup {NoClient}, flow : Flow \cup {NoFlow}]
  BY <1>1
<1>17. peers' \in [Client -> Flow \cup {NoFlow}] /\ capture' \in [Client -> Flow \cup {NoCap}]
  BY <1>1, <1>2, <1>3
<1>18. RelayTypeOK'
  BY <1>2, <1>5, <1>8, <1>9, <1>13, <1>14, <1>15, <1>16, <1>17 DEF RelayTypeOK, FlowRecord
<1>. QED
  BY <1>10, <1>11, <1>12, <1>13, <1>14, <1>18 DEF RelayInv

(* A datagram for the flow its client has, silence, and a watcher's steps. *)
LEMMA OtherInv ==
  ASSUME RelayInv, NEW c \in Client,
         Receive(c) \/ Quiet(c) \/ \E i \in 1 .. 2 : WatcherStep(c, i)
  PROVE  RelayInv'
<1>1. /\ UNCHANGED <<peers, capture, files, excess, flows, answer, known>>
      /\ stale' \subseteq Client
  BY DEF Receive, Quiet, WatcherStep, WatchConnect, WatchLeaves, WatchEnds, WatchStep,
         RelayInv, RelayTypeOK
<1>2. /\ known \subseteq Client /\ answer \in Flow \cup {NoFlow}
      /\ relay \in [at : {"recvfrom", "forward", "drop", "drop pop", "drop close"},
                    client : Client \cup {NoClient}, flow : Flow \cup {NoFlow}]
      /\ watch \in [Client -> [1 .. 2 -> {"over", "connect", "loop", "ending"}]]
      /\ OneAlive /\ RelayHas
  BY DEF RelayInv, RelayTypeOK
<1>3. CASE Receive(c)
  <2>1. /\ relay' = [at |-> "forward", client |-> c, flow |-> peers[c]] /\ watch' = watch
        /\ peers[c] \in Flow /\ flows[peers[c]].client = c
    BY <1>3 DEF Receive, RelayInv, RelayTypeOK
  <2>2. RelayHas' /\ OneAlive'
    BY <1>1, <1>2, <2>1 DEF RelayHas, OneAlive
  <2>3. relay' \in [at : {"recvfrom", "forward", "drop", "drop pop", "drop close"},
                   client : Client \cup {NoClient}, flow : Flow \cup {NoFlow}]
    BY <2>1
  <2>. QED
    BY <1>1, <1>2, <2>1, <2>2, <2>3, QuietInv
<1>4. CASE Quiet(c)
  <2>1. relay' = relay /\ watch' = watch
    BY <1>4 DEF Quiet
  <2>2. RelayHas' /\ OneAlive'
    BY <1>1, <1>2, <2>1 DEF RelayHas, OneAlive
  <2>. QED
    BY <1>1, <1>2, <2>1, <2>2, QuietInv
<1>5. ASSUME NEW i \in 1 .. 2, WatcherStep(c, i) PROVE RelayInv'
  <2>1. PICK stage \in {"over", "loop", "ending"} : watch' = [watch EXCEPT ![c][i] = stage]
    BY <1>5 DEF WatcherStep, WatchConnect, WatchLeaves, WatchEnds, WatchStep
  <2>2. relay' = relay /\ Alive(watch[c][i])
    BY <1>5 DEF WatcherStep, WatchConnect, WatchLeaves, WatchEnds, WatchStep, Alive
  <2>3. watch' = [watch EXCEPT ![c] = [watch[c] EXCEPT ![i] = stage]]
    BY <2>1
  <2>4. /\ watch' \in [Client -> [1 .. 2 -> {"over", "connect", "loop", "ending"}]]
        /\ \A d \in Client \ {c} : watch'[d] = watch[d]
        /\ \A j \in (1 .. 2) \ {i} : watch'[c][j] = watch[c][j]
    BY <1>2, <2>3
  <2>5. OneAlive'
    BY <1>2, <2>2, <2>4 DEF OneAlive
  <2>6. RelayHas'
    BY <1>1, <1>2, <2>2 DEF RelayHas
  <2>. QED
    BY <1>1, <1>2, <2>2, <2>4, <2>5, <2>6, QuietInv
<1>. QED
  BY <1>3, <1>4, <1>5

(* Every step.                                                             *)
LEMMA StepInv == RelayInv /\ [Next]_vars => RelayInv'
<1>. SUFFICES ASSUME RelayInv, [Next]_vars PROVE RelayInv'
  OBVIOUS
<1>1. CASE RelayStep
  BY <1>1, RelayStepInv
<1>2. ASSUME NEW f \in Flow, BackStep(f) \/ RecvFails(f) \/ MapReply(f) \/ Fail(f)
      PROVE  RelayInv'
  BY <1>2, BackInv
<1>3. ASSUME NEW c \in Client, Build(c) PROVE RelayInv'
  BY <1>3, BuildInv
<1>4. ASSUME NEW c \in Client, Receive(c) \/ Quiet(c) \/ \E i \in 1 .. 2 : WatcherStep(c, i)
      PROVE  RelayInv'
  BY <1>4, OtherInv
<1>5. CASE UNCHANGED vars
  <2>1. UNCHANGED <<peers, capture, files, excess, flows, answer, relay, known, watch, stale>>
    BY <1>5 DEF vars
  <2>2. RelayHas' /\ OneAlive'
    BY <2>1 DEF RelayInv, RelayHas, OneAlive
  <2>. QED
    BY <2>1, <2>2, QuietInv DEF RelayInv, RelayTypeOK
<1>. QED
  BY <1>1, <1>2, <1>3, <1>4, <1>5 DEF Next

(* The invariant holds throughout.                                         *)
LEMMA RelayInvariant == Spec => []RelayInv
BY InitInv, StepInv, PTL DEF Spec

----------------------------------------------------------------------------
(* What follows.                                                           *)

(* The relay keeps its types, and the flow and captures of a client are    *)
(* always the client's own.                                                *)
THEOREM RelayTypeCorrect == Spec => []RelayTypeOK
<1>1. RelayInv => RelayTypeOK
  BY DEF RelayInv
<1>. QED
  BY <1>1, RelayInvariant, PTL

(* However flows fail, are reaped and rebuilt, the flow a client's         *)
(* datagrams go to has a return path: none is left forwarding into a       *)
(* socket nobody reads.                                                    *)
THEOREM RelayNeverWedged == Spec => []NoWedge
<1>1. RelayInv => NoWedge
  BY DEF RelayInv
<1>. QED
  BY <1>1, RelayInvariant, PTL

(* An open capture always has a thread that will close it, also when flows *)
(* of one client overlap and share it.                                     *)
THEOREM RelayNoCaptureLeak == Spec => []NoCaptureLeak
<1>1. ASSUME RelayInv PROVE NoCaptureLeak
  <2>. SUFFICES ASSUME NEW c \in Client, capture[c] # NoCap
                PROVE  \E f \in Flow : flows[f].client = c /\ flows[f].at # "done"
    BY DEF NoCaptureLeak
  <2>1. /\ capture[c] \in Flow /\ flows[capture[c]].client = c
        /\ flows[capture[c]].at # "done"
    BY <1>1 DEF RelayInv, RelayTypeOK, CaptureHeld
  <2>. QED
    BY <2>1
<1>. QED
  BY <1>1, RelayInvariant, PTL

(* The capture files, those left by captures that failed included, never   *)
(* number more than WORLD_CAP_KEEP, the one opened after the last prune,   *)
(* those it left open, and one for each prune skipped since; and none is   *)
(* removed that a capture holds open.                                      *)
THEOREM RelayFilesBounded == Spec => []FilesBounded
<1>1. RelayInv => FilesBounded
  BY DEF RelayInv
<1>. QED
  BY <1>1, RelayInvariant, PTL

(* A client never has two watchers, however often its flow is rebuilt.     *)
THEOREM RelayOneWatcher == Spec => []OneWatcher
<1>1. ASSUME RelayInv PROVE OneWatcher
  <2>. SUFFICES ASSUME NEW c \in Client
                PROVE  Cardinality({i \in DOMAIN watch[c] : Alive(watch[c][i])}) <= 1
    BY DEF OneWatcher
  <2> DEFINE alive == {i \in DOMAIN watch[c] : Alive(watch[c][i])}
  <2>1. DOMAIN watch[c] = 1 .. 2
    BY <1>1 DEF RelayInv, RelayTypeOK
  <2>2. \A i, j \in alive : i = j
    BY <1>1, <2>1 DEF RelayInv, OneAlive
  <2>3. alive = {} \/ \E i : alive = {i}
    BY <2>2
  <2>4. Cardinality(alive) \in {0, 1}
    BY <2>3, FS_EmptySet, FS_Singleton
  <2>. QED
    BY <2>4
<1>. QED
  BY <1>1, RelayInvariant, PTL

=============================================================================
