---------------------------- MODULE LaunchProofs ----------------------------
(***************************************************************************)
(* The launch, for any number of connections, sessions, members, addresses *)
(* and worlds and any of the settings: what the account map says is so,    *)
(* a client is relayed with a data session of its own launch, who is alone *)
(* at an address is served its own member, and who is silent gets nothing. *)
(***************************************************************************)
EXTENDS Launch, FiniteSetTheorems, WellFoundedInduction, TLAPS

----------------------------------------------------------------------------
(* Values.                                                                 *)

ConnRecord ==
  [at : Places, ip : Address, sid : Session \cup {NoSession}, stamp : BOOLEAN, world : World,
   pick : Session \cup {NoSession}, flag : BOOLEAN]

(* A connection nobody uses.                                               *)
LEMMA IdleFields ==
  /\ Idle \in ConnRecord
  /\ Idle.at = "idle" /\ Idle.sid = NoSession /\ Idle.pick = NoSession /\ ~Idle.flag
<1>1. (CHOOSE a \in Address : TRUE) \in Address /\ (CHOOSE w \in World : TRUE) \in World
  BY LaunchAssumption
<1>. QED
  BY <1>1 DEF Idle, ConnRecord, Places

(* What a step to another place leaves.                                    *)
LEMMA GoKeeps ==
  ASSUME conn \in [Conn -> ConnRecord], NEW c \in Conn, NEW at \in Places, Go(c, at)
  PROVE  /\ conn' \in [Conn -> ConnRecord]
         /\ conn'[c].at = at
         /\ conn'[c].ip = conn[c].ip /\ conn'[c].sid = conn[c].sid
         /\ conn'[c].stamp = conn[c].stamp /\ conn'[c].world = conn[c].world
         /\ conn'[c].pick = conn[c].pick /\ conn'[c].flag = conn[c].flag
         /\ \A d \in Conn \ {c} : conn'[d] = conn[d]
<1>1. conn' = [conn EXCEPT ![c] = [conn[c] EXCEPT !.at = at]]
  BY DEF Go
<1>2. [conn[c] EXCEPT !.at = at] \in ConnRecord
  BY DEF ConnRecord
<1>. QED
  BY <1>1, <1>2 DEF ConnRecord

(* And what a drop leaves.                                                 *)
LEMMA DropLeaves ==
  ASSUME conn \in [Conn -> ConnRecord], NEW c \in Conn, Drop(c)
  PROVE  /\ conn' \in [Conn -> ConnRecord] /\ conn'[c] = Idle
         /\ \A d \in Conn \ {c} : conn'[d] = conn[d]
BY IdleFields DEF Drop

----------------------------------------------------------------------------
(* Ranking.                                                                *)

(* A number that is given to every element of a set is lowest for one.     *)
LEMMA LowestExists ==
  ASSUME NEW S, S # {}, NEW k \in [S -> Nat]
  PROVE  \E s \in S : \A t \in S : k[s] <= k[t]
<1> DEFINE R == OpToRel(<, Nat)
           values == {k[s] : s \in S}
<1>1. PICK x \in values : \A y \in values : ~ (<<y, x>> \in R)
  <2>1. IsWellFoundedOn(R, Nat)
    BY NatLessThanWellFounded
  <2>2. values \subseteq Nat /\ values # {}
    OBVIOUS
  <2>. HIDE DEF R, values
  <2>. QED
    BY <2>1, <2>2, WFMin
<1>2. \A y \in values : x <= y
  <2>. SUFFICES ASSUME NEW y \in values PROVE x <= y
    OBVIOUS
  <2>1. ~ (y < x)
    BY <1>1, Zenon DEF OpToRel
  <2>. QED
    BY <2>1
<1>. QED
  BY <1>2

(* The settings and the table as far as the ranking needs them.            *)
Ranked ==
  /\ scene \in Scene /\ now \in Nat
  /\ table \in [Session -> [open : BOOLEAN, at : Int, chars : Int]]
  /\ \A s \in Session : table[s].at <= now /\ table[s].chars <= now

(* Sorting by one component of the key: those for which it is lowest.      *)
LEMMA Narrowed ==
  ASSUME NEW S, S # {}, NEW k \in [S -> Int], NEW low \in Int, \A s \in S : low <= k[s]
  PROVE  \E T \in SUBSET S :
           /\ T # {}
           /\ \A t \in T, s \in S : IF s \in T THEN k[t] = k[s] ELSE k[t] < k[s]
<1> DEFINE above == [s \in S |-> k[s] - low]
<1>1. above \in [S -> Nat]
  OBVIOUS
<1>2. PICK a \in S : \A s \in S : above[a] <= above[s]
  <2>. HIDE DEF above
  <2>. QED
    BY <1>1, LowestExists
<1>3. \A s \in S : k[a] <= k[s]
  BY <1>2
<1> DEFINE T == {s \in S : k[s] = k[a]}
<1>4. T \in SUBSET S /\ T # {}
  OBVIOUS
<1>5. \A t \in T, s \in S : IF s \in T THEN k[t] = k[s] ELSE k[t] < k[s]
  BY <1>3
<1>. HIDE DEF T
<1>. QED
  BY <1>4, <1>5

(* The components of the key are numbers with a lower bound.               *)
LEMMA KeyBounded ==
  ASSUME Ranked, NEW s \in Session, NEW ip
  PROVE  /\ \A i \in 1 .. 6 : Key(s, ip)[i] \in Int /\ -now <= Key(s, ip)[i]
         /\ Key(s, ip)[6] = s
<1> DEFINE k1 == Number(Claimed(s))
           k2 == Number(~table[s].open)
           k5 == Number(AddressOf[s] # ip)
<1>1. k1 \in {0, 1} /\ k2 \in {0, 1} /\ k5 \in {0, 1}
  BY DEF Number
<1>2. /\ table[s].at \in Int /\ table[s].chars \in Int /\ now \in Nat /\ s \in Nat
      /\ table[s].at <= now /\ table[s].chars <= now
  BY LaunchAssumption DEF Ranked
<1>3. Key(s, ip) = <<k1, k2, -table[s].chars, -table[s].at, k5, s>>
  BY DEF Key
<1>. HIDE DEF k1, k2, k5
<1>. QED
  BY <1>1, <1>2, <1>3

(* T is the part of U for which component i of the key is lowest.          *)
LowestPart(T, U, i, ip) ==
  /\ T \in SUBSET U /\ T # {}
  /\ \A t \in T, u \in U :
       IF u \in T THEN Key(t, ip)[i] = Key(u, ip)[i] ELSE Key(t, ip)[i] < Key(u, ip)[i]

(* There is such a part, whatever the table says.                          *)
LEMMA PartExists ==
  ASSUME Ranked, NEW U \in SUBSET Session, U # {}, NEW i \in 1 .. 6, NEW ip
  PROVE  \E T \in SUBSET Session : LowestPart(T, U, i, ip)
<1> DEFINE f == [u \in U |-> Key(u, ip)[i]]
           low == -now
<1>1. \A u \in U : Key(u, ip)[i] \in Int /\ -now <= Key(u, ip)[i]
  BY KeyBounded
<1>2. f \in [U -> Int] /\ low \in Int /\ \A u \in U : low <= f[u]
  BY <1>1 DEF Ranked
<1>3. PICK T \in SUBSET U :
         /\ T # {}
         /\ \A t \in T, u \in U : IF u \in T THEN f[t] = f[u] ELSE f[t] < f[u]
  <2>. HIDE DEF f, low
  <2>. QED
    BY <1>2, Narrowed
<1>4. \A u \in U : f[u] = Key(u, ip)[i]
  OBVIOUS
<1>5. T \in SUBSET Session /\ T \in SUBSET U /\ T # {}
  BY <1>3
<1>6. ASSUME NEW t \in T, NEW u \in U
      PROVE  IF u \in T THEN Key(t, ip)[i] = Key(u, ip)[i] ELSE Key(t, ip)[i] < Key(u, ip)[i]
  <2>. HIDE DEF f
  <2>. QED
    BY <1>3, <1>4
<1>7. LowestPart(T, U, i, ip)
  BY <1>5, <1>6 DEF LowestPart
<1>. QED
  BY <1>5, <1>7

(* Of any sessions one ranks before all others: the sort of the candidates *)
(* has a first element, whatever the table says.                           *)
LEMMA FirstIsOne ==
  ASSUME Ranked, NEW S \in SUBSET Session, S # {}, NEW ip
  PROVE  First(S, ip) \in S
<1>2. PICK T1 \in SUBSET Session : LowestPart(T1, S, 1, ip)
  BY PartExists
<1>3. PICK T2 \in SUBSET Session : LowestPart(T2, T1, 2, ip)
  <2>1. T1 # {}
    BY <1>2 DEF LowestPart
  <2>. QED
    BY <1>2, <2>1, PartExists
<1>4. PICK T3 \in SUBSET Session : LowestPart(T3, T2, 3, ip)
  <2>1. T2 # {}
    BY <1>3 DEF LowestPart
  <2>. QED
    BY <1>3, <2>1, PartExists
<1>5. PICK T4 \in SUBSET Session : LowestPart(T4, T3, 4, ip)
  <2>1. T3 # {}
    BY <1>4 DEF LowestPart
  <2>. QED
    BY <1>4, <2>1, PartExists
<1>6. PICK T5 \in SUBSET Session : LowestPart(T5, T4, 5, ip)
  <2>1. T4 # {}
    BY <1>5 DEF LowestPart
  <2>. QED
    BY <1>5, <2>1, PartExists
<1>7. PICK T6 \in SUBSET Session : LowestPart(T6, T5, 6, ip)
  <2>1. T5 # {}
    BY <1>6 DEF LowestPart
  <2>. QED
    BY <1>6, <2>1, PartExists
<1>8. PICK s \in T6 : TRUE
  BY <1>7 DEF LowestPart
<1>9. /\ s \in S /\ s \in T1 /\ s \in T2 /\ s \in T3 /\ s \in T4 /\ s \in T5
      /\ T5 \subseteq T4 /\ T4 \subseteq T3 /\ T3 \subseteq T2 /\ T2 \subseteq T1
  BY <1>2, <1>3, <1>4, <1>5, <1>6, <1>7 DEF LowestPart
<1>10. ASSUME NEW t \in S \ {s} PROVE Before(s, t, ip)
  <2> DEFINE Less(i) == /\ Key(s, ip)[i] < Key(t, ip)[i]
                        /\ \A j \in 1 .. i - 1 : Key(s, ip)[j] = Key(t, ip)[j]
             Same(i) == Key(s, ip)[i] = Key(t, ip)[i]
  <2>1. t \notin T1 => Less(1)
    BY <1>2, <1>9 DEF LowestPart
  <2>2. t \in T1 => Same(1)
    BY <1>2, <1>9 DEF LowestPart
  <2>3. t \in T1 /\ t \notin T2 => Less(2)
    BY <1>3, <1>9, <2>2 DEF LowestPart
  <2>4. t \in T2 => Same(2)
    BY <1>3, <1>9 DEF LowestPart
  <2>5. t \in T2 /\ t \notin T3 => Less(3)
    BY <1>4, <1>9, <2>2, <2>4 DEF LowestPart
  <2>6. t \in T3 => Same(3)
    BY <1>4, <1>9 DEF LowestPart
  <2>7. t \in T3 /\ t \notin T4 => Less(4)
    BY <1>5, <1>9, <2>2, <2>4, <2>6 DEF LowestPart
  <2>8. t \in T4 => Same(4)
    BY <1>5, <1>9 DEF LowestPart
  <2>9. t \in T4 /\ t \notin T5 => Less(5)
    BY <1>6, <1>9, <2>2, <2>4, <2>6, <2>8 DEF LowestPart
  <2>10. t \in T5 => Same(5)
    BY <1>6, <1>9 DEF LowestPart
  <2>11. t \notin T6
    <3>1. Key(s, ip)[6] = s /\ Key(t, ip)[6] = t
      BY <1>9, KeyBounded
    <3>. QED
      BY <1>7, <1>9, <3>1 DEF LowestPart
  <2>12. t \in T5 => Less(6)
    BY <1>7, <1>9, <2>2, <2>4, <2>6, <2>8, <2>10, <2>11 DEF LowestPart
  <2>13. \E i \in 1 .. 6 : Less(i)
    BY <1>9, <2>1, <2>3, <2>5, <2>7, <2>9, <2>12
  <2>. QED
    BY <2>13 DEF Before
<1>11. \E u \in S : \A t \in S \ {u} : Before(u, t, ip)
  BY <1>9, <1>10
<1>. QED
  BY <1>11 DEF First

----------------------------------------------------------------------------
(* What is so of every connection.                                         *)

Attributed == AccountSteps \cup DataSteps \cup {"claim", "claim refused", "relay"}

(* A connection: whoever has a session to launch has one from the start,   *)
(* it dials from there, and nothing is flagged before the table is read.   *)
Placed(r) ==
  /\ r \in ConnRecord
  /\ r.at \in Attributed => r.pick \in Session
  /\ r.at \notin {"idle", "accepted"} => r.sid \in Session
  /\ r.at \in {"accepted", "stamp", "look"} => ~r.flag
  /\ r.sid \in Session => r.ip = AddressOf[r.sid]

ConnsOK == conn \in [Conn -> {r \in ConnRecord : Placed(r)}]

(* The connection of one client.                                           *)
LEMMA ConnPlaced ==
  ASSUME ConnsOK, NEW c \in Conn
  PROVE  Placed(conn[c]) /\ conn[c] \in ConnRecord /\ conn \in [Conn -> ConnRecord]
BY DEF ConnsOK

(* One connection is replaced by another that is right.                    *)
LEMMA Replaced ==
  ASSUME ConnsOK, NEW c \in Conn, NEW r, Placed(r), conn' = [conn EXCEPT ![c] = r]
  PROVE  ConnsOK' /\ conn'[c] = r /\ \A d \in Conn \ {c} : conn'[d] = conn[d]
<1>1. r \in {q \in ConnRecord : Placed(q)}
  BY DEF Placed
<1>. QED
  BY <1>1 DEF ConnsOK

(* A drop leaves a connection nobody uses.                                 *)
LEMMA Dropped ==
  ASSUME ConnsOK, NEW c \in Conn, Drop(c)
  PROVE  /\ ConnsOK' /\ conn'[c] = Idle /\ Idle.at = "idle"
         /\ \A d \in Conn \ {c} : conn'[d] = conn[d]
<1>1. Placed(Idle)
  BY IdleFields, LaunchAssumption
     DEF Placed, Attributed, AccountSteps, DataSteps
<1>. QED
  BY <1>1, Replaced, IdleFields DEF Drop

(* A thread that goes on keeps what it knows.                              *)
LEMMA GoneOn ==
  ASSUME ConnsOK, NEW c \in Conn, NEW at \in Places, Go(c, at),
         conn[c].sid \in Session, at \in Attributed => conn[c].pick \in Session,
         at \in {"accepted", "stamp", "look"} => ~conn[c].flag
  PROVE  /\ ConnsOK' /\ conn'[c].at = at
         /\ conn'[c].ip = conn[c].ip /\ conn'[c].sid = conn[c].sid
         /\ conn'[c].stamp = conn[c].stamp /\ conn'[c].world = conn[c].world
         /\ conn'[c].pick = conn[c].pick /\ conn'[c].flag = conn[c].flag
         /\ \A d \in Conn \ {c} : conn'[d] = conn[d]
<1>1. Placed(conn[c]) /\ conn \in [Conn -> ConnRecord]
  BY ConnPlaced
<1>2. /\ conn' \in [Conn -> ConnRecord]
      /\ conn'[c].at = at
      /\ conn'[c].ip = conn[c].ip /\ conn'[c].sid = conn[c].sid
      /\ conn'[c].stamp = conn[c].stamp /\ conn'[c].world = conn[c].world
      /\ conn'[c].pick = conn[c].pick /\ conn'[c].flag = conn[c].flag
      /\ \A d \in Conn \ {c} : conn'[d] = conn[d]
  BY <1>1, GoKeeps
<1>3. Placed(conn'[c])
  BY <1>1, <1>2 DEF Placed
<1>4. conn' = [conn EXCEPT ![c] = conn'[c]]
  BY <1>2, <1>1
<1>5. ConnsOK'
  BY <1>3, <1>4, Replaced
<1>. QED
  BY <1>2, <1>5

(* Every session that can be settled on is one POL knows.                  *)
LEMMA Candidates ==
  ASSUME NEW ip
  PROVE  /\ SignedExact(ip) \subseteq Session /\ Discriminates(ip) \subseteq SignedExact(ip)
         /\ Live \subseteq Session
BY DEF SignedExact, Discriminates, Live

(* One of a connection's own steps leaves it, and all others, right.       *)
LEMMA OwnStepPlaced ==
  ASSUME Ranked, ConnsOK, NEW c \in Conn,
         Handle(c) \/ Unreachable(c) \/ Teardown(c)
  PROVE  ConnsOK' /\ \A d \in Conn \ {c} : conn'[d] = conn[d]
<1>a. Placed(conn[c]) /\ conn[c] \in ConnRecord /\ conn \in [Conn -> ConnRecord]
  BY ConnPlaced
<1>b. /\ conn[c].at \notin {"idle", "accepted"} => conn[c].sid \in Session
      /\ conn[c].at \in Attributed => conn[c].pick \in Session
      /\ conn[c].at \in {"accepted", "stamp", "look"} => ~conn[c].flag
      /\ conn[c].sid \in Session \cup {NoSession}
      /\ conn[c].sid \in Session => conn[c].ip = AddressOf[conn[c].sid]
  BY <1>a DEF Placed, ConnRecord
<1>1. CASE FirstBytes(c)
  BY <1>1, <1>b, GoneOn, Dropped DEF FirstBytes, Places, Attributed, AccountSteps, DataSteps
<1>2. CASE CheckMap(c)
  BY <1>2, <1>b, GoneOn, Dropped DEF CheckMap, Places, Attributed, AccountSteps, DataSteps
<1>3. CASE Create(c)
  BY <1>3, <1>b, GoneOn, Dropped DEF Create, Places, Attributed, AccountSteps, DataSteps
<1>4. CASE Record(c)
  BY <1>4, <1>b, GoneOn, Dropped DEF Record, Places, Attributed, AccountSteps, DataSteps
<1>5. CASE Login(c)
  BY <1>5, <1>b, GoneOn, Dropped DEF Login, Places, Attributed, AccountSteps, DataSteps
<1>6. CASE Heal(c)
  BY <1>6, <1>b, GoneOn, Dropped DEF Heal, Places, Attributed, AccountSteps, DataSteps
<1>7. CASE Relogin(c)
  BY <1>7, <1>b, GoneOn, Dropped DEF Relogin, Places, Attributed, AccountSteps, DataSteps
<1>8. CASE TakeCompanion(c)
  BY <1>8, <1>b, GoneOn, Dropped DEF TakeCompanion, Places, Attributed, AccountSteps, DataSteps
<1>9. CASE Register(c)
  BY <1>9, <1>b, GoneOn, Dropped DEF Register, Places, Attributed, AccountSteps, DataSteps
<1>10. CASE Upstream(c)
  BY <1>10, <1>b, GoneOn, Dropped DEF Upstream, Places, Attributed, AccountSteps, DataSteps
<1>11. CASE Claim(c)
  BY <1>11, <1>b, GoneOn, Dropped DEF Claim, Places, Attributed, AccountSteps, DataSteps
<1>12. CASE Unreachable(c)
  BY <1>12, <1>b, GoneOn, Dropped DEF Unreachable, Places, Attributed, AccountSteps, DataSteps
<1>13. CASE Teardown(c)
  BY <1>13, <1>b, GoneOn, Dropped DEF Teardown, Places, Attributed, AccountSteps, DataSteps
<1>14. CASE Stamp(c)
  <2>1. CASE conn' = [conn EXCEPT ![c].at = "map", ![c].pick = conn[c].sid]
    <3> DEFINE r == [[conn[c] EXCEPT !.at = "map"] EXCEPT !.pick = conn[c].sid]
    <3>1. conn' = [conn EXCEPT ![c] = r]
      BY <2>1
    <3>2. conn[c].sid \in Session
      BY <1>14, <1>b DEF Stamp
    <3>3. /\ r \in ConnRecord /\ r.at = "map" /\ r.pick = conn[c].sid
          /\ r.sid = conn[c].sid /\ r.ip = conn[c].ip
      BY <1>a, <3>2 DEF ConnRecord, Places, AccountSteps
    <3>. HIDE DEF r
    <3>4. Placed(r)
      BY <1>b, <3>2, <3>3 DEF Placed
    <3>. QED
      BY <3>1, <3>4, Replaced
  <2>2. CASE Go(c, "look")
    BY <1>14, <1>b, <2>2, GoneOn DEF Stamp, Places, Attributed, AccountSteps, DataSteps
  <2>. QED
    BY <1>14, <2>1, <2>2 DEF Stamp
<1>15. CASE Look(c)
  <2> DEFINE ip == conn[c].ip
             all == {s \in Session : Current(s)}
             best == First(all, ip)
  <2>1. CASE all = {}
    BY <1>15, <2>1, Dropped DEF Look
  <2>2. CASE all # {}
    <3>1. PICK at \in {"claim", "claim refused"}, pick \in Session, flag \in BOOLEAN :
            conn' = [conn EXCEPT ![c] = [[[conn[c] EXCEPT !.at = at] EXCEPT !.pick = pick]
                                                                  EXCEPT !.flag = flag]]
      <4>1. CASE Discriminates(ip) # {}
        <5>1. PICK s \in Discriminates(ip) :
                conn' = [conn EXCEPT ![c].at = "claim", ![c].pick = s]
          BY <1>15, <2>2, <4>1 DEF Look
        <5>2. s \in Session
          BY <5>1, Candidates
        <5>3. conn' = [conn EXCEPT ![c] = [[[conn[c] EXCEPT !.at = "claim"] EXCEPT !.pick = s]
                                                             EXCEPT !.flag = conn[c].flag]]
          BY <1>a, <5>1 DEF ConnRecord
        <5>. QED
          BY <1>a, <5>2, <5>3 DEF ConnRecord
      <4>2. CASE Discriminates(ip) = {}
        <5>1. best \in all
          BY <2>2, FirstIsOne
        <5>2. conn' = [conn EXCEPT
                         ![c].at = IF table[best].open THEN "claim" ELSE "claim refused",
                         ![c].pick = best, ![c].flag = Ambiguous(ip)]
          BY <1>15, <2>2, <4>2 DEF Look
        <5>3. Ambiguous(ip) \in BOOLEAN
          BY DEF Ambiguous
        <5>. HIDE DEF best
        <5>. QED
          BY <1>a, <5>1, <5>2, <5>3 DEF ConnRecord
      <4>. QED
        BY <4>1, <4>2
    <3> DEFINE r == [[[conn[c] EXCEPT !.at = at] EXCEPT !.pick = pick] EXCEPT !.flag = flag]
    <3>2. /\ r \in ConnRecord /\ r.at = at /\ r.pick = pick
          /\ r.sid = conn[c].sid /\ r.ip = conn[c].ip
      BY <1>a, <3>1 DEF ConnRecord, Places
    <3>3. conn[c].sid \in Session
      BY <1>15, <1>b DEF Look
    <3>. HIDE DEF r
    <3>4. Placed(r)
      BY <1>b, <3>1, <3>2, <3>3 DEF Placed
    <3>. QED
      BY <3>1, <3>4, Replaced DEF r
  <2>. QED
    BY <2>1, <2>2
<1>. QED
  BY <1>1, <1>2, <1>3, <1>4, <1>5, <1>6, <1>7, <1>8, <1>9, <1>10, <1>11, <1>12, <1>13,
     <1>14, <1>15 DEF Handle

(* A client that connects is accepted, whoever it is.                      *)
LEMMA Dialled ==
  ASSUME Ranked, ConnsOK, NEW c \in Conn, NEW s \in Session, Dial(c, s)
  PROVE  ConnsOK' /\ conn'[c].at = "accepted" /\ \A d \in Conn \ {c} : conn'[d] = conn[d]
<1>1. PICK stamp \in scene.stamps, w \in scene.worlds :
        conn' = [conn EXCEPT ![c] = [Idle EXCEPT !.at = "accepted", !.ip = AddressOf[s],
                                                 !.sid = s, !.stamp = stamp, !.world = w]]
  BY DEF Dial
<1> DEFINE r1 == [[Idle EXCEPT !.at = "accepted"] EXCEPT !.ip = AddressOf[s]]
           r2 == [[r1 EXCEPT !.sid = s] EXCEPT !.stamp = stamp]
           r == [r2 EXCEPT !.world = w]
<1>2. conn' = [conn EXCEPT ![c] = r]
  BY <1>1
<1>3. stamp \in BOOLEAN /\ w \in World /\ AddressOf[s] \in Address
  BY <1>1, LaunchAssumption DEF Ranked, Scene
<1>4. /\ r1 \in ConnRecord /\ r1.at = "accepted" /\ r1.ip = AddressOf[s] /\ ~r1.flag
  BY <1>3, IdleFields DEF ConnRecord, Places
<1>5. /\ r \in ConnRecord /\ r.at = "accepted" /\ r.ip = AddressOf[s] /\ ~r.flag
      /\ r.sid = s
  <2>. HIDE DEF r1
  <2>. QED
    BY <1>3, <1>4 DEF ConnRecord
<1>. HIDE DEF r
<1>6. Placed(r)
  BY <1>5, LaunchAssumption DEF Placed, Attributed, AccountSteps, DataSteps
<1>. QED
  BY <1>2, <1>5, <1>6, Replaced

(* And so is a peer that is no client.                                     *)
LEMMA Probed ==
  ASSUME ConnsOK, NEW c \in Conn, NEW ip \in Address, Probe(c, ip)
  PROVE  ConnsOK' /\ conn'[c].at = "accepted" /\ \A d \in Conn \ {c} : conn'[d] = conn[d]
<1> DEFINE r == [[Idle EXCEPT !.at = "accepted"] EXCEPT !.ip = ip]
<1>1. conn' = [conn EXCEPT ![c] = r]
  BY DEF Probe
<1>2. /\ r \in ConnRecord /\ r.at = "accepted" /\ r.sid = NoSession /\ ~r.flag
  BY IdleFields DEF ConnRecord, Places
<1>. HIDE DEF r
<1>3. Placed(r)
  BY <1>2, LaunchAssumption DEF Placed, Attributed, AccountSteps, DataSteps
<1>. QED
  BY <1>1, <1>2, <1>3, Replaced

(* Every step leaves the connections right.                                *)
LEMMA ConnsStep ==
  ASSUME Ranked, ConnsOK, [Next]_vars
  PROVE  ConnsOK'
<1>1. CASE UNCHANGED conn
  BY <1>1 DEF ConnsOK
<1>2. ASSUME NEW c \in Conn, NEW s \in Session, Dial(c, s)
      PROVE  ConnsOK'
  BY <1>2, Dialled
<1>3. ASSUME NEW c \in Conn, NEW ip \in Address, Probe(c, ip)
      PROVE  ConnsOK'
  BY <1>3, Probed
<1>4. ASSUME NEW c \in Conn, Handle(c) \/ Unreachable(c) \/ Teardown(c)
      PROVE  ConnsOK'
  BY <1>4, OwnStepPlaced
<1>5. CASE Restart
  <2>1. Placed(Idle) /\ Idle \in ConnRecord
    BY IdleFields, LaunchAssumption DEF Placed, Attributed, AccountSteps, DataSteps
  <2>. QED
    BY <1>5, <2>1 DEF Restart, ConnsOK
<1>6. ASSUME NEW c \in Conn, ReaderEnds(c) \/ CompanionEnds(c)
      PROVE  ConnsOK'
  BY <1>1, <1>6 DEF ReaderEnds, CompanionEnds
<1>7. CASE Reset
  BY <1>1, <1>7 DEF Reset
<1>8. CASE Pol
  BY <1>1, <1>8 DEF Pol, Tick, SignIn, Fetch, SignOut, Forget
<1>9. CASE UNCHANGED vars
  BY <1>1, <1>9 DEF vars
<1>. QED
  BY <1>2, <1>3, <1>4, <1>5, <1>6, <1>7, <1>8, <1>9 DEF Next

----------------------------------------------------------------------------
(* The types.                                                              *)

PolTypes ==
  /\ scene \in Scenes /\ now \in 1 .. scene.clock
  /\ table \in [Session -> [open : BOOLEAN, at : -2 .. now, chars : 0 .. now]]
  /\ claims \in [Session -> -1 .. now]

AccountTypes ==
  /\ accounts \subseteq World \X Member /\ reset \in BOOLEAN
  /\ acctmap \subseteq World \X Member /\ acctfile \subseteq World \X Member

DataTypes ==
  /\ companion \in [Conn -> {"none", "own", "old"}]
  /\ reader \in [Conn -> BOOLEAN]
  /\ played \subseteq Session

TypesInv == PolTypes /\ AccountTypes /\ DataTypes /\ ConnsOK

(* The clock and the activity of sessions are such that candidates can be  *)
(* ranked.                                                                 *)
LEMMA TypesRanked ==
  ASSUME PolTypes
  PROVE  Ranked
<1>1. scene \in Scene /\ scene.clock \in Nat
  BY LaunchAssumption DEF PolTypes, Scene
<1>2. now \in Nat
  BY <1>1 DEF PolTypes
<1>3. \A s \in Session : /\ table[s] \in [open : BOOLEAN, at : Int, chars : Int]
                         /\ table[s].at <= now /\ table[s].chars <= now
  BY <1>2 DEF PolTypes
<1>. QED
  BY <1>1, <1>2, <1>3 DEF PolTypes, Ranked

(* What LSB and its map hold of a settled launch.                          *)
LEMMA AccountTyped ==
  ASSUME ConnsOK, NEW c \in Conn, conn[c].at \in Attributed
  PROVE  Account(c) \in World \X Member
BY ConnPlaced, LaunchAssumption DEF Placed, ConnRecord, Account

(* The types hold when the bridge starts.                                  *)
LEMMA TypesHoldAtFirst == Init => TypesInv
<1>. SUFFICES ASSUME Init PROVE TypesInv
  OBVIOUS
<1>1. PolTypes
  BY LaunchAssumption DEF Init, PolTypes, Scene, Unknown, Unclaimed
<1>2. AccountTypes /\ DataTypes
  BY DEF Init, AccountTypes, DataTypes
<1>3. ConnsOK
  <2>1. Placed(Idle) /\ Idle \in ConnRecord
    BY IdleFields, LaunchAssumption DEF Placed, Attributed, AccountSteps, DataSteps
  <2>. QED
    BY <2>1 DEF Init, ConnsOK
<1>. QED
  BY <1>1, <1>2, <1>3 DEF TypesInv

(* POL writes one session's entry.                                         *)
LEMMA EntryWritten ==
  ASSUME PolTypes, NEW s \in Session, UNCHANGED <<scene, now, claims>>,
         NEW r \in [open : BOOLEAN, at : -2 .. now, chars : 0 .. now],
         table' = [table EXCEPT ![s] = r]
  PROVE  PolTypes'
BY DEF PolTypes

(* Every step leaves POL's table, the clock and the claims of their        *)
(* types.                                                                  *)
LEMMA PolTypesStep ==
  ASSUME TypesInv, [Next]_vars
  PROVE  PolTypes'
<1>a. PolTypes /\ scene.clock \in Nat /\ now \in Nat /\ 1 <= now
  BY LaunchAssumption DEF TypesInv, PolTypes, Scene
<1>1. CASE UNCHANGED <<scene, polVars, claims>>
  BY <1>a, <1>1 DEF PolTypes, polVars
<1>2. CASE Tick
  <2>1. /\ now' = now + 1 /\ now < scene.clock /\ scene' = scene
        /\ table' = table /\ claims' = claims
    BY <1>2 DEF Tick
  <2>2. -2 .. now \subseteq -2 .. now' /\ 0 .. now \subseteq 0 .. now'
        /\ -1 .. now \subseteq -1 .. now'
    BY <1>a, <2>1
  <2>3. [open : BOOLEAN, at : -2 .. now, chars : 0 .. now]
          \subseteq [open : BOOLEAN, at : -2 .. now', chars : 0 .. now']
    BY <2>2
  <2>. QED
    BY <1>a, <2>1, <2>2, <2>3 DEF PolTypes
<1>3. ASSUME NEW s \in Session, SignIn(s) \/ Fetch(s) \/ SignOut(s) \/ Forget(s)
      PROVE  PolTypes'
  <2>1. table[s] \in [open : BOOLEAN, at : -2 .. now, chars : 0 .. now]
    BY <1>a DEF PolTypes
  <2>2. now \in -2 .. now /\ now \in 0 .. now /\ 0 \in 0 .. now /\ -2 \in -2 .. now
    BY <1>a
  <2>3. CASE SignIn(s)
    <3> DEFINE r == [open |-> TRUE, at |-> now, chars |-> 0]
    <3>1. r \in [open : BOOLEAN, at : -2 .. now, chars : 0 .. now]
      BY <2>2
    <3>. QED
      BY <1>a, <2>3, <3>1, EntryWritten DEF SignIn
  <2>4. CASE Fetch(s)
    <3> DEFINE r == [[table[s] EXCEPT !.at = now] EXCEPT !.chars = now]
    <3>1. table' = [table EXCEPT ![s] = r] /\ UNCHANGED <<scene, now, claims>>
      BY <1>a, <2>4 DEF Fetch, PolTypes
    <3>2. r \in [open : BOOLEAN, at : -2 .. now, chars : 0 .. now]
      BY <2>1, <2>2
    <3>. HIDE DEF r
    <3>. QED
      BY <1>a, <3>1, <3>2, EntryWritten
  <2>5. CASE SignOut(s)
    <3> DEFINE r == [table[s] EXCEPT !.open = FALSE]
    <3>1. table' = [table EXCEPT ![s] = r] /\ UNCHANGED <<scene, now, claims>>
      BY <2>5 DEF SignOut
    <3>2. r \in [open : BOOLEAN, at : -2 .. now, chars : 0 .. now]
      BY <2>1
    <3>. HIDE DEF r
    <3>. QED
      BY <1>a, <3>1, <3>2, EntryWritten
  <2>6. CASE Forget(s)
    <3>1. Forgotten \in [open : BOOLEAN, at : -2 .. now, chars : 0 .. now]
      BY <2>2 DEF Forgotten
    <3>. QED
      BY <1>a, <2>6, <3>1, EntryWritten DEF Forget
  <2>. QED
    BY <1>3, <2>3, <2>4, <2>5, <2>6
<1>4. ASSUME NEW c \in Conn, Look(c)
      PROVE  PolTypes'
  <2>1. /\ UNCHANGED <<scene, now, table>>
        /\ claims' = [s \in Session |-> IF Claimed(s) THEN claims[s] ELSE -1]
    BY <1>4 DEF Look, polVars, Unclaimed
  <2>2. claims \in [Session -> -1 .. now] /\ -1 \in -1 .. now
    BY <1>a DEF PolTypes
  <2>3. \A s \in Session : (IF Claimed(s) THEN claims[s] ELSE -1) \in -1 .. now
    BY <2>2
  <2>4. claims' \in [Session -> -1 .. now]
    BY <2>1, <2>3
  <2>. QED
    BY <1>a, <2>1, <2>4 DEF PolTypes
<1>5. ASSUME NEW c \in Conn, Claim(c)
      PROVE  PolTypes'
  <2>1. UNCHANGED <<scene, now, table>> /\ claims' = [claims EXCEPT ![conn[c].pick] = now]
    BY <1>5 DEF Claim, polVars
  <2>2. claims \in [Session -> -1 .. now] /\ now \in -1 .. now
    BY <1>a DEF PolTypes
  <2>3. claims' \in [Session -> -1 .. now]
    BY <2>1, <2>2
  <2>. QED
    BY <1>a, <2>1, <2>3 DEF PolTypes
<1>6. CASE Restart
  BY <1>a, <1>6 DEF Restart, PolTypes, polVars, Unclaimed
<1>7. ASSUME NEW c \in Conn,
             \/ FirstBytes(c) \/ Stamp(c) \/ CheckMap(c) \/ Create(c) \/ Record(c)
             \/ Login(c) \/ Heal(c) \/ Relogin(c) \/ TakeCompanion(c) \/ Register(c)
             \/ Upstream(c) \/ Unreachable(c) \/ ReaderEnds(c) \/ CompanionEnds(c)
             \/ Teardown(c)
      PROVE  UNCHANGED <<scene, polVars, claims>>
  BY <1>7 DEF FirstBytes, Stamp, CheckMap, Create, Record, Login, Heal, Relogin,
              TakeCompanion, Register, Upstream, Unreachable, ReaderEnds, CompanionEnds,
              Teardown
<1>8. CASE Reset \/ (\E c \in Conn, s \in Session : Dial(c, s))
                \/ (\E c \in Conn, ip \in Address : Probe(c, ip))
  BY <1>1, <1>8 DEF Reset, Dial, Probe
<1>9. CASE UNCHANGED vars
  BY <1>1, <1>9 DEF vars
<1>. QED
  BY <1>1, <1>2, <1>3, <1>4, <1>5, <1>6, <1>7, <1>8, <1>9 DEF Next, Pol, Handle

(* Every step leaves the accounts and their map of their types.            *)
LEMMA AccountTypesStep ==
  ASSUME TypesInv, [Next]_vars
  PROVE  AccountTypes'
<1>a. AccountTypes /\ ConnsOK
  BY DEF TypesInv
<1>1. CASE UNCHANGED acctVars
  BY <1>a, <1>1 DEF AccountTypes, acctVars
<1>2. ASSUME NEW c \in Conn, Create(c) \/ Heal(c) \/ Record(c)
      PROVE  AccountTypes'
  <2>1. Account(c) \in World \X Member
    BY <1>a, <1>2, AccountTyped DEF Create, Heal, Record, Attributed, AccountSteps
  <2>. QED
    BY <1>a, <1>2, <2>1 DEF Create, Heal, Record, AccountTypes
<1>3. CASE Reset \/ Restart
  BY <1>a, <1>3 DEF Reset, Restart, AccountTypes
<1>4. ASSUME NEW c \in Conn,
             \/ FirstBytes(c) \/ Stamp(c) \/ Look(c) \/ Claim(c) \/ CheckMap(c)
             \/ Login(c) \/ Relogin(c) \/ TakeCompanion(c) \/ Register(c)
             \/ Upstream(c) \/ Unreachable(c) \/ ReaderEnds(c) \/ CompanionEnds(c)
             \/ Teardown(c)
      PROVE  UNCHANGED acctVars
  BY <1>4 DEF FirstBytes, Stamp, Look, Claim, CheckMap, Login, Relogin, TakeCompanion,
              Register, Upstream, Unreachable, ReaderEnds, CompanionEnds, Teardown
<1>5. CASE Pol \/ (\E c \in Conn, s \in Session : Dial(c, s))
              \/ (\E c \in Conn, ip \in Address : Probe(c, ip))
  BY <1>1, <1>5 DEF Pol, Tick, SignIn, Fetch, SignOut, Forget, Dial, Probe
<1>6. CASE UNCHANGED vars
  BY <1>1, <1>6 DEF vars
<1>. QED
  BY <1>1, <1>2, <1>3, <1>4, <1>5, <1>6 DEF Next, Handle

(* Every step leaves the data sessions of their types.                     *)
LEMMA DataTypesStep ==
  ASSUME TypesInv, [Next]_vars
  PROVE  DataTypes'
<1>a. DataTypes /\ ConnsOK
  BY DEF TypesInv
<1>1. CASE UNCHANGED <<dataVars, played>>
  BY <1>a, <1>1 DEF DataTypes, dataVars
<1>2. ASSUME NEW c \in Conn,
             \/ TakeCompanion(c) \/ Register(c) \/ ReaderEnds(c) \/ CompanionEnds(c)
             \/ (\E s \in Session : Dial(c, s)) \/ (\E ip \in Address : Probe(c, ip))
      PROVE  DataTypes'
  BY <1>a, <1>2
     DEF TakeCompanion, Register, ReaderEnds, CompanionEnds, Dial, Probe, DataTypes
<1>3. ASSUME NEW c \in Conn, Upstream(c)
      PROVE  DataTypes'
  <2>1. conn[c].sid \in Session
    BY <1>a, <1>3, ConnPlaced DEF Upstream, Placed
  <2>. QED
    BY <1>a, <1>3, <2>1 DEF Upstream, DataTypes, dataVars
<1>4. CASE Restart
  BY <1>a, <1>4 DEF Restart, DataTypes
<1>5. ASSUME NEW c \in Conn,
             \/ FirstBytes(c) \/ Stamp(c) \/ Look(c) \/ Claim(c) \/ CheckMap(c)
             \/ Create(c) \/ Record(c) \/ Login(c) \/ Heal(c) \/ Relogin(c)
             \/ Unreachable(c) \/ Teardown(c)
      PROVE  UNCHANGED <<dataVars, played>>
  BY <1>5 DEF FirstBytes, Stamp, Look, Claim, CheckMap, Create, Record, Login, Heal,
              Relogin, Unreachable, Teardown
<1>6. CASE Pol \/ Reset
  BY <1>1, <1>6 DEF Pol, Tick, SignIn, Fetch, SignOut, Forget, Reset
<1>7. CASE UNCHANGED vars
  BY <1>1, <1>7 DEF vars
<1>. QED
  BY <1>1, <1>2, <1>3, <1>4, <1>5, <1>6, <1>7 DEF Next, Handle

(* Every step leaves all types.                                            *)
LEMMA TypesStep ==
  ASSUME TypesInv, [Next]_vars
  PROVE  TypesInv'
BY PolTypesStep, AccountTypesStep, DataTypesStep, ConnsStep, TypesRanked DEF TypesInv

(* The types hold in every state.                                          *)
LEMMA TypesAlways == Spec => []TypesInv
<1>1. TypesInv /\ [Next]_vars => TypesInv'
  BY TypesStep
<1>. QED
  BY <1>1, TypesHoldAtFirst, PTL DEF Spec

(* Whoever a launch is attributed to is a session and dials for one, and   *)
(* every table, map and companion of the bridge keeps its shape.           *)
THEOREM LaunchTypeCorrect == Spec => []LaunchTypeOK
<1>1. TypesInv => LaunchTypeOK
  <2>. SUFFICES ASSUME TypesInv PROVE LaunchTypeOK
    OBVIOUS
  <2>1. conn \in [Conn -> ConnRecord]
    BY DEF TypesInv, ConnsOK
  <2>2. ASSUME NEW c \in Conn, conn[c].at \in Attributed
        PROVE  conn[c].pick # NoSession /\ conn[c].sid # NoSession
    BY <2>2, ConnPlaced, LaunchAssumption
       DEF TypesInv, Placed, Attributed, AccountSteps, DataSteps
  <2>. QED
    BY <2>1, <2>2
       DEF TypesInv, PolTypes, AccountTypes, DataTypes, LaunchTypeOK, ConnRecord, Attributed
<1>. QED
  BY <1>1, TypesAlways, PTL

----------------------------------------------------------------------------
(* Where the steps of a connection lead.                                   *)

(* To the place it goes to, or nowhere.                                    *)
LEMMA GoLeads ==
  ASSUME ConnsOK, NEW c \in Conn
  PROVE  /\ \A at : Go(c, at) => /\ conn'[c].at = at
                                /\ \A d \in Conn \ {c} : conn'[d] = conn[d]
         /\ Drop(c) => /\ conn'[c].at = "idle"
                       /\ \A d \in Conn \ {c} : conn'[d] = conn[d]
<1>1. conn[c] \in ConnRecord /\ conn \in [Conn -> ConnRecord]
  BY ConnPlaced
<1>2. ASSUME NEW at, Go(c, at)
      PROVE  conn'[c].at = at /\ \A d \in Conn \ {c} : conn'[d] = conn[d]
  BY <1>1, <1>2 DEF Go, ConnRecord
<1>3. ASSUME Drop(c)
      PROVE  conn'[c].at = "idle" /\ \A d \in Conn \ {c} : conn'[d] = conn[d]
  BY <1>3, Dropped
<1>. QED
  BY <1>2, <1>3

(* A stamp that POL knows settles the launch, any other answer leads to    *)
(* the look.                                                               *)
LEMMA StampLeads ==
  ASSUME ConnsOK, NEW c \in Conn, Stamp(c)
  PROVE  conn'[c].at \in {"map", "look"}
<1>a. conn[c] \in ConnRecord /\ conn \in [Conn -> ConnRecord]
  BY ConnPlaced
<1>1. CASE conn' = [conn EXCEPT ![c].at = "map", ![c].pick = conn[c].sid]
  BY <1>a, <1>1 DEF ConnRecord
<1>2. CASE Go(c, "look")
  BY <1>a, <1>2 DEF Go, ConnRecord
<1>. QED
  BY <1>1, <1>2 DEF Stamp

(* Nothing but the look picks a session by the table: a sure candidate if  *)
(* there is one, and otherwise the first, flagged if it is not clear.      *)
LEMMA LookLeads ==
  ASSUME Ranked, ConnsOK, NEW c \in Conn, Look(c)
  PROVE  \/ conn'[c].at = "idle" /\ {s \in Session : Current(s)} = {}
         \/ /\ conn'[c].at \in {"claim", "claim refused"}
            /\ conn'[c].pick \in Discriminates(conn[c].ip) /\ conn'[c].flag = conn[c].flag
         \/ /\ conn'[c].at \in {"claim", "claim refused"}
            /\ Discriminates(conn[c].ip) = {}
            /\ conn'[c].flag = Ambiguous(conn[c].ip)
<1> DEFINE ip == conn[c].ip
           all == {s \in Session : Current(s)}
           best == First(all, ip)
<1>a. conn[c] \in ConnRecord /\ conn \in [Conn -> ConnRecord]
  BY ConnPlaced
<1>1. CASE all = {}
  BY <1>1, Dropped DEF Look
<1>2. CASE all # {} /\ Discriminates(ip) # {}
  <2>1. PICK s \in Discriminates(ip) :
          conn' = [conn EXCEPT ![c].at = "claim", ![c].pick = s]
    BY <1>2 DEF Look
  <2>2. conn'[c].at = "claim" /\ conn'[c].pick = s /\ conn'[c].flag = conn[c].flag
    BY <1>a, <2>1 DEF ConnRecord
  <2>. QED
    BY <2>1, <2>2
<1>3. CASE all # {} /\ Discriminates(ip) = {}
  <2>1. conn' = [conn EXCEPT
                   ![c].at = IF table[best].open THEN "claim" ELSE "claim refused",
                   ![c].pick = best, ![c].flag = Ambiguous(ip)]
    BY <1>3 DEF Look
  <2>2. conn'[c].at \in {"claim", "claim refused"} /\ conn'[c].flag = Ambiguous(ip)
    BY <1>a, <2>1 DEF ConnRecord
  <2>. QED
    BY <1>3, <2>2
<1>. QED
  BY <1>1, <1>2, <1>3

----------------------------------------------------------------------------
(* The account map.                                                        *)

(* Until a database is reset, LSB has every account the map names and the  *)
(* one a launch is about to put there.                                     *)
MapOK ==
  ~reset => /\ MapIsTrue
            /\ \A c \in Conn : conn[c].at = "record" => Account(c) \in accounts

(* Accounts that only grow keep a map that did not change true.            *)
LEMMA MapKept ==
  ASSUME MapOK, reset' = reset, acctmap' = acctmap, acctfile' = acctfile,
         accounts \subseteq accounts',
         \A d \in Conn : conn'[d].at = "record" => \/ conn'[d] = conn[d]
                                                 \/ Account(d)' \in accounts'
  PROVE  MapOK'
<1>1. \A d \in Conn : conn'[d] = conn[d] => Account(d)' = Account(d)
  BY DEF Account
<1>. QED
  BY <1>1 DEF MapOK, MapIsTrue

(* Every step leaves the map true: what is recorded has been created or    *)
(* has logged in, and only a reset takes accounts away.                    *)
LEMMA MapStep ==
  ASSUME TypesInv, MapOK, [Next]_vars
  PROVE  MapOK'
<1>a. ConnsOK /\ Ranked
  BY TypesRanked DEF TypesInv
<1>b. \A c \in Conn : conn[c].at \notin {"idle", "accepted"} => conn[c].sid \in Session
  BY <1>a, ConnPlaced DEF Placed
<1>c. \A c \in Conn : /\ conn[c].at \in Attributed => conn[c].pick \in Session
                      /\ conn[c].at \in {"accepted", "stamp", "look"} => ~conn[c].flag
  BY <1>a, ConnPlaced DEF Placed
<1>1. CASE UNCHANGED <<conn, acctVars>>
  BY <1>1, MapKept DEF acctVars
<1>2. ASSUME NEW c \in Conn,
             \/ Stamp(c) \/ Look(c) \/ FirstBytes(c) \/ Claim(c) \/ CheckMap(c)
             \/ Login(c) \/ Heal(c) \/ Relogin(c) \/ TakeCompanion(c) \/ Register(c)
             \/ Upstream(c) \/ Unreachable(c) \/ Teardown(c)
      PROVE  MapOK'
  <2>1. conn'[c].at # "record"
    <3>1. CASE Stamp(c)
      BY <1>a, <3>1, StampLeads
    <3>2. CASE Look(c)
      BY <1>a, <3>2, LookLeads
    <3>3. CASE \/ FirstBytes(c) \/ Claim(c) \/ CheckMap(c) \/ Login(c) \/ Heal(c)
               \/ Relogin(c) \/ TakeCompanion(c) \/ Register(c) \/ Upstream(c)
               \/ Unreachable(c) \/ Teardown(c)
      <4>1. PICK at \in {"idle", "stamp", "map", "login", "create", "companion", "heal",
                         "relogin", "upstream", "register", "relay"} :
              Go(c, at) \/ Drop(c)
        BY <3>3 DEF FirstBytes, Claim, CheckMap, Login, Heal, Relogin, TakeCompanion,
                    Register, Upstream, Unreachable, Teardown
      <4>. QED
        BY <1>a, <4>1, GoLeads
    <3>. QED
      BY <1>2, <3>1, <3>2, <3>3
  <2>2. \A d \in Conn \ {c} : conn'[d] = conn[d]
    BY <1>a, <1>2, OwnStepPlaced DEF Handle
  <2>3. /\ reset' = reset /\ acctmap' = acctmap /\ acctfile' = acctfile
        /\ accounts \subseteq accounts'
    BY <1>2 DEF Stamp, Look, FirstBytes, Claim, CheckMap, Login, Heal, Relogin,
                TakeCompanion, Register, Upstream, Unreachable, Teardown, acctVars
  <2>. QED
    BY <2>1, <2>2, <2>3, MapKept
<1>3. ASSUME NEW c \in Conn, Create(c)
      PROVE  MapOK'
  <2>1. /\ \A d \in Conn \ {c} : conn'[d] = conn[d]
        /\ conn'[c].world = conn[c].world /\ conn'[c].pick = conn[c].pick
    BY <1>a, <1>b, <1>c, <1>3, GoneOn DEF Create, Places, Attributed, AccountSteps
  <2>2. Account(c)' = Account(c)
    BY <2>1 DEF Account
  <2>. QED
    BY <1>3, <2>1, <2>2, MapKept DEF Create
<1>4. ASSUME NEW c \in Conn, Record(c)
      PROVE  MapOK'
  <2>1. conn'[c].at # "record" /\ \A d \in Conn \ {c} : conn'[d] = conn[d]
    BY <1>a, <1>4, GoLeads DEF Record
  <2>2. \A d \in Conn : conn'[d].at = "record" => /\ conn[d].at = "record"
                                                /\ Account(d)' = Account(d)
    BY <2>1 DEF Account
  <2>3. /\ reset' = reset /\ accounts' = accounts /\ acctmap' = acctmap \cup {Account(c)}
        /\ acctfile' \in {acctmap', acctfile} /\ conn[c].at = "record"
    BY <1>4 DEF Record
  <2>. QED
    BY <2>2, <2>3 DEF MapOK, MapIsTrue
<1>5. ASSUME NEW c \in Conn, \/ \E s \in Session : Dial(c, s)
                            \/ \E ip \in Address : Probe(c, ip)
      PROVE  MapOK'
  <2>1. conn'[c].at = "accepted" /\ \A d \in Conn \ {c} : conn'[d] = conn[d]
    BY <1>a, <1>5, Dialled, Probed
  <2>. QED
    BY <1>5, <2>1, MapKept DEF Dial, Probe, acctVars
<1>6. CASE Reset
  BY <1>6 DEF Reset, MapOK
<1>7. CASE Restart
  <2>1. /\ reset' = reset /\ accounts' = accounts /\ acctmap' \in {acctfile, {}}
        /\ acctfile' = acctfile /\ \A d \in Conn : conn'[d].at # "record"
    BY <1>7, IdleFields DEF Restart
  <2>. QED
    BY <2>1 DEF MapOK, MapIsTrue
<1>8. CASE Pol
  BY <1>1, <1>8 DEF Pol, Tick, SignIn, Fetch, SignOut, Forget
<1>9. ASSUME NEW c \in Conn, ReaderEnds(c) \/ CompanionEnds(c)
      PROVE  MapOK'
  BY <1>1, <1>9 DEF ReaderEnds, CompanionEnds
<1>10. CASE UNCHANGED vars
  BY <1>1, <1>10 DEF vars
<1>. QED
  BY <1>2, <1>3, <1>4, <1>5, <1>6, <1>7, <1>8, <1>9, <1>10 DEF Next, Handle

(* Every account the map names, in memory and on disk, is one LSB has in   *)
(* the world it was made in: through restarts, a file that is not written  *)
(* or not read, and any order of the launches.                             *)
THEOREM LaunchMapIsTrue == Spec => []MapIsTrue
<1>1. Init => MapOK
  BY IdleFields DEF Init, MapOK, MapIsTrue
<1>2. TypesInv /\ MapOK /\ [Next]_vars => MapOK'
  BY MapStep
<1>3. MapOK => MapIsTrue
  BY DEF MapOK, MapIsTrue
<1>. QED
  BY <1>1, <1>2, <1>3, TypesAlways, PTL DEF Spec

----------------------------------------------------------------------------
(* The data session.                                                       *)

(* From its registration on a launch has one of its own, where data        *)
(* sessions do not fail.                                                   *)
DataOK ==
  "data" \notin scene.events =>
    \A c \in Conn : conn[c].at \in {"upstream", "relay"} => companion[c] = "own"

(* Every step leaves a relayed client its own data session.                *)
LEMMA DataStep ==
  ASSUME TypesInv, DataOK, [Next]_vars
  PROVE  DataOK'
<1>. SUFFICES ASSUME "data" \notin scene.events, scene' = scene
              PROVE  \A c \in Conn : conn'[c].at \in {"upstream", "relay"}
                                       => companion'[c] = "own"
  <2>1. scene' = scene
    BY DEF Next, Pol, Tick, SignIn, Fetch, SignOut, Forget, Dial, Probe, Handle, FirstBytes,
           Stamp, Look, Claim, CheckMap, Create, Record, Login, Heal, Relogin,
           TakeCompanion, Register, Upstream, Unreachable, ReaderEnds, CompanionEnds,
           Teardown, Reset, Restart, vars
  <2>. QED
    BY <2>1 DEF DataOK
<1>a. ConnsOK /\ Ranked /\ companion \in [Conn -> {"none", "own", "old"}]
  BY TypesRanked DEF TypesInv, DataTypes
<1>b. \A c \in Conn : conn[c].at \in {"upstream", "relay"} => companion[c] = "own"
  BY DEF DataOK
<1>1. CASE UNCHANGED <<conn, companion>>
  BY <1>b, <1>1
<1>2. ASSUME NEW c \in Conn,
             /\ conn'[c].at \notin {"upstream", "relay"}
             /\ \A d \in Conn \ {c} : conn'[d] = conn[d] /\ companion'[d] = companion[d]
      PROVE  \A d \in Conn : conn'[d].at \in {"upstream", "relay"} => companion'[d] = "own"
  BY <1>b, <1>2
<1>3. ASSUME NEW c \in Conn,
             \/ Stamp(c) \/ Look(c) \/ FirstBytes(c) \/ Claim(c) \/ CheckMap(c) \/ Create(c)
             \/ Record(c) \/ Login(c) \/ Heal(c) \/ Relogin(c) \/ Unreachable(c)
             \/ Teardown(c)
      PROVE  \A d \in Conn : conn'[d].at \in {"upstream", "relay"} => companion'[d] = "own"
  <2>1. conn'[c].at \notin {"upstream", "relay"}
    <3>1. CASE Stamp(c)
      BY <1>a, <3>1, StampLeads
    <3>2. CASE Look(c)
      BY <1>a, <3>2, LookLeads
    <3>3. CASE \/ FirstBytes(c) \/ Claim(c) \/ CheckMap(c) \/ Create(c) \/ Record(c)
               \/ Login(c) \/ Heal(c) \/ Relogin(c) \/ Unreachable(c) \/ Teardown(c)
      <4>1. PICK at \in {"stamp", "map", "login", "create", "record", "companion", "heal",
                         "relogin"} :
              Go(c, at) \/ Drop(c)
        BY <3>3 DEF FirstBytes, Claim, CheckMap, Create, Record, Login, Heal, Relogin,
                    Unreachable, Teardown
      <4>. QED
        BY <1>a, <4>1, GoLeads
    <3>. QED
      BY <1>3, <3>1, <3>2, <3>3
  <2>2. \A d \in Conn \ {c} : conn'[d] = conn[d]
    BY <1>a, <1>3, OwnStepPlaced DEF Handle
  <2>3. companion' = companion
    BY <1>3 DEF Stamp, Look, FirstBytes, Claim, CheckMap, Create, Record, Login, Heal,
                Relogin, Unreachable, Teardown, dataVars
  <2>. QED
    BY <1>2, <2>1, <2>2, <2>3
<1>4. ASSUME NEW c \in Conn, TakeCompanion(c)
      PROVE  \A d \in Conn : conn'[d].at \in {"upstream", "relay"} => companion'[d] = "own"
  <2>1. /\ conn'[c].at = IF companion[c] = "own" THEN "upstream" ELSE "register"
        /\ \A d \in Conn \ {c} : conn'[d] = conn[d]
    BY <1>a, <1>4, GoLeads DEF TakeCompanion
  <2>2. companion' = [companion EXCEPT ![c] = IF @ = "old" THEN "none" ELSE @]
    BY <1>4 DEF TakeCompanion
  <2>. QED
    BY <1>a, <1>b, <2>1, <2>2
<1>5. ASSUME NEW c \in Conn, Register(c)
      PROVE  \A d \in Conn : conn'[d].at \in {"upstream", "relay"} => companion'[d] = "own"
  <2>1. \A d \in Conn \ {c} : conn'[d] = conn[d]
    BY <1>a, <1>5, GoLeads DEF Register
  <2>2. companion' = [companion EXCEPT ![c] = "own"]
    BY <1>5 DEF Register
  <2>. QED
    BY <1>a, <1>b, <2>1, <2>2
<1>6. ASSUME NEW c \in Conn, Upstream(c)
      PROVE  \A d \in Conn : conn'[d].at \in {"upstream", "relay"} => companion'[d] = "own"
  <2>1. /\ conn[c].at = "upstream" /\ companion' = companion
        /\ \A d \in Conn \ {c} : conn'[d] = conn[d]
    BY <1>a, <1>6, GoLeads DEF Upstream, dataVars
  <2>. QED
    BY <1>b, <2>1
<1>7. ASSUME NEW c \in Conn, \/ \E s \in Session : Dial(c, s)
                            \/ \E ip \in Address : Probe(c, ip)
      PROVE  \A d \in Conn : conn'[d].at \in {"upstream", "relay"} => companion'[d] = "own"
  <2>1. conn'[c].at = "accepted" /\ \A d \in Conn \ {c} : conn'[d] = conn[d]
    BY <1>a, <1>7, Dialled, Probed
  <2>2. companion' = [companion EXCEPT ![c] = IF @ = "own" THEN "old" ELSE @]
    BY <1>7 DEF Dial, Probe
  <2>. QED
    BY <1>a, <1>2, <2>1, <2>2
<1>8. CASE Restart
  <2>1. \A c \in Conn : conn'[c].at = "idle"
    BY <1>8, IdleFields DEF Restart
  <2>. QED
    BY <2>1
<1>9. CASE Pol \/ Reset \/ (\E c \in Conn : ReaderEnds(c) \/ CompanionEnds(c))
  BY <1>1, <1>9
     DEF Pol, Tick, SignIn, Fetch, SignOut, Forget, Reset, ReaderEnds, CompanionEnds, dataVars
<1>10. CASE UNCHANGED vars
  BY <1>1, <1>10 DEF vars, dataVars
<1>. QED
  BY <1>3, <1>4, <1>5, <1>6, <1>7, <1>8, <1>9, <1>10 DEF Next, Handle

(* A client that is relayed has a data session, registered under the hash  *)
(* of its own launch: an earlier launch of the same address and port, and  *)
(* a reader that ends late, take nothing from it.                          *)
THEOREM LaunchDataSession == Spec => []DataSessionHeld
<1>1. Init => DataOK
  BY IdleFields DEF Init, DataOK
<1>2. TypesInv /\ DataOK /\ [Next]_vars => DataOK'
  BY DataStep
<1>3. DataOK => DataSessionHeld
  BY DEF DataOK, DataSessionHeld
<1>. QED
  BY <1>1, <1>2, <1>3, TypesAlways, PTL DEF Spec

----------------------------------------------------------------------------
(* The look.                                                               *)

(* A connection is moved by its own steps, by a client that takes it, or   *)
(* by a restart.                                                           *)
LEMMA WhoMoves ==
  ASSUME TypesInv, [Next]_vars, NEW c \in Conn, conn'[c] # conn[c]
  PROVE  \/ Handle(c) \/ Unreachable(c) \/ Teardown(c) \/ Restart
         \/ \E s \in Session : Dial(c, s)
         \/ \E ip \in Address : Probe(c, ip)
<1>a. ConnsOK /\ Ranked
  BY TypesRanked DEF TypesInv
<1>1. ASSUME NEW d \in Conn, d # c, Handle(d) \/ Unreachable(d) \/ Teardown(d)
      PROVE  FALSE
  BY <1>a, <1>1, OwnStepPlaced
<1>2. ASSUME NEW d \in Conn, d # c, \/ \E s \in Session : Dial(d, s)
                                   \/ \E ip \in Address : Probe(d, ip)
      PROVE  FALSE
  BY <1>a, <1>2, Dialled, Probed
<1>3. ASSUME UNCHANGED conn PROVE FALSE
  BY <1>3
<1>4. ~ Pol /\ ~ Reset /\ ~ UNCHANGED vars
  BY <1>3 DEF Pol, Tick, SignIn, Fetch, SignOut, Forget, Reset, vars
<1>5. \A d \in Conn : ~ ReaderEnds(d) /\ ~ CompanionEnds(d)
  BY <1>3 DEF ReaderEnds, CompanionEnds
<1>. QED
  BY <1>1, <1>2, <1>4, <1>5 DEF Next

(* A connection that goes from the look to a claim took the look's step.   *)
LEMMA LooksIsLook ==
  ASSUME TypesInv, [Next]_vars, NEW c \in Conn, Looks(c)
  PROVE  Look(c)
<1>a. ConnsOK
  BY DEF TypesInv
<1>1. conn[c].at = "look" /\ conn'[c].at \in {"claim", "claim refused"} /\ conn'[c] # conn[c]
  BY DEF Looks
<1>2. ~ Restart
  BY <1>1, IdleFields DEF Restart
<1>3. ~ FirstBytes(c) /\ ~ Stamp(c) /\ ~ Claim(c) /\ ~ CheckMap(c) /\ ~ Create(c)
      /\ ~ Record(c) /\ ~ Login(c) /\ ~ Heal(c) /\ ~ Relogin(c) /\ ~ TakeCompanion(c)
      /\ ~ Register(c) /\ ~ Upstream(c) /\ ~ Unreachable(c) /\ ~ Teardown(c)
  BY <1>1 DEF FirstBytes, Stamp, Claim, CheckMap, Create, Record, Login, Heal, Relogin,
              TakeCompanion, Register, Upstream, Unreachable, Teardown
<1>4. /\ \A s \in Session : ~ Dial(c, s)
      /\ \A ip \in Address : ~ Probe(c, ip)
  BY <1>1 DEF Dial, Probe
<1>. QED
  BY <1>1, <1>2, <1>3, <1>4, WhoMoves DEF Handle

(* A session in a set of one is that one.                                  *)
LEMMA OnlyOne ==
  ASSUME NEW S, IsFiniteSet(S), Cardinality(S) = 1, NEW a \in S, NEW b \in S
  PROVE  a = b
<1>1. PICK x : S = {x}
  BY FS_Singleton
<1>. QED
  BY <1>1

(* POL's sessions can be counted.                                          *)
LEMMA SessionsFinite ==
  ASSUME NEW S \in SUBSET Session
  PROVE  IsFiniteSet(S) /\ Cardinality(S) \in Nat
BY LaunchAssumption, FS_Subset, FS_CardinalityType

(* Whoever is alone at an address is sure.                                 *)
LEMMA AloneIsSure ==
  ASSUME NEW ip, NEW s \in Session, SignedExact(ip) = {s}
  PROVE  Discriminates(ip) = {s}
BY FS_Singleton DEF Discriminates

(* Whoever is sure is the only one signed in there, or the only one of     *)
(* those who have not launched.                                            *)
LEMMA SureIsOnly ==
  ASSUME NEW ip, NEW s \in SignedExact(ip), ~Claimed(s), NEW pick \in Discriminates(ip)
  PROVE  pick = s
<1> DEFINE exact == SignedExact(ip)
           fresh == {t \in exact : ~Claimed(t)}
<1>1. exact \in SUBSET Session /\ fresh \in SUBSET Session
  BY Candidates
<1>2. IsFiniteSet(exact) /\ IsFiniteSet(fresh)
  BY <1>1, SessionsFinite
<1>3. CASE Cardinality(exact) = 1
  BY <1>2, <1>3, OnlyOne DEF Discriminates
<1>4. CASE Cardinality(exact) # 1
  <2>1. Cardinality(fresh) = 1 /\ pick \in fresh /\ s \in fresh
    BY <1>4 DEF Discriminates
  <2>. QED
    BY <1>2, <2>1, OnlyOne
<1>. QED
  BY <1>3, <1>4

(* Two that were active within the window are ambiguous, in whichever      *)
(* order they rank.                                                        *)
LEMMA PairIsAmbiguous ==
  ASSUME Ranked, NEW ip, NEW s \in Session, NEW t \in Session, s # t, Live = {s, t},
         Distance(s, t) < AMBIGUOUS_WINDOW
  PROVE  Ambiguous(ip)
<1> DEFINE one == First(Live, ip)
           two == First(Live \ {one}, ip)
<1>1. Cardinality(Live) = 2
  <2>1. IsFiniteSet({s}) /\ Cardinality({s}) = 1 /\ t \notin {s} /\ Live = {s} \cup {t}
    BY FS_Singleton
  <2>. QED
    BY <2>1, FS_AddElement
<1>2. one \in Live
  BY FirstIsOne
<1>3. two \in Live \ {one}
  <2>1. Live \ {one} \in SUBSET Session /\ Live \ {one} # {}
    OBVIOUS
  <2>. HIDE DEF one
  <2>. QED
    BY <2>1, FirstIsOne
<1>4. Distance(one, two) = Distance(s, t)
  <2>. HIDE DEF one, two
  <2>1. (one = s /\ two = t) \/ (one = t /\ two = s)
    BY <1>2, <1>3
  <2>2. Distance(t, s) = Distance(s, t)
    BY DEF Distance, Ranked
  <2>. QED
    BY <2>1, <2>2
<1>. QED
  BY <1>1, <1>4 DEF Ambiguous

(* The only session signed in at an address is what a launch from there    *)
(* gets, unflagged: whatever else is signed in, claimed or launching.      *)
THEOREM LaunchAlone == Spec => AloneIsServedItsOwn
<1>1. TypesInv /\ [Next]_vars =>
        [\A c \in Conn : Looks(c) /\ SignedExact(conn[c].ip) = {conn[c].sid}
                         => conn'[c].pick = conn[c].sid /\ ~conn'[c].flag]_vars
  <2>. SUFFICES ASSUME TypesInv, [Next]_vars, NEW c \in Conn, Looks(c),
                       SignedExact(conn[c].ip) = {conn[c].sid}
                PROVE  conn'[c].pick = conn[c].sid /\ ~conn'[c].flag
    OBVIOUS
  <2>1. ConnsOK /\ Ranked /\ Look(c)
    BY LooksIsLook, TypesRanked DEF TypesInv
  <2>2. conn[c].sid \in Session /\ ~conn[c].flag
    BY <2>1, ConnPlaced, Candidates DEF Placed, Look
  <2>3. Discriminates(conn[c].ip) = {conn[c].sid}
    BY <2>2, AloneIsSure
  <2>. QED
    BY <2>1, <2>2, <2>3, LookLeads DEF Looks
<1>. QED
  BY <1>1, TypesAlways, PTL DEF Spec, AloneIsServedItsOwn

(* Of two sessions not launched yet, both active within the window and all *)
(* that is signed in, the one that is given the other's is flagged.        *)
THEOREM LaunchPairFlagged == Spec => PairIsFlagged
<1>1. TypesInv /\ [Next]_vars =>
        [\A c \in Conn, s \in Session :
           Looks(c) /\ s # conn[c].sid /\ Live = {s, conn[c].sid}
                    /\ Distance(s, conn[c].sid) < AMBIGUOUS_WINDOW
             => conn'[c].pick = conn[c].sid \/ conn'[c].flag]_vars
  <2>. SUFFICES ASSUME TypesInv, [Next]_vars, NEW c \in Conn, NEW s \in Session, Looks(c),
                       s # conn[c].sid, Live = {s, conn[c].sid},
                       Distance(s, conn[c].sid) < AMBIGUOUS_WINDOW
                PROVE  conn'[c].pick = conn[c].sid \/ conn'[c].flag
    OBVIOUS
  <2>1. ConnsOK /\ Ranked /\ Look(c)
    BY LooksIsLook, TypesRanked DEF TypesInv
  <2>2. conn[c].sid \in Session /\ conn[c].ip = AddressOf[conn[c].sid]
    BY <2>1, ConnPlaced, Candidates DEF Placed
  <2>3. conn[c].sid \in SignedExact(conn[c].ip) /\ ~Claimed(conn[c].sid)
    BY <2>2 DEF Live, SignedExact
  <2>4. \A pick \in Discriminates(conn[c].ip) : pick = conn[c].sid
    BY <2>3, SureIsOnly
  <2>5. Ambiguous(conn[c].ip)
    BY <2>1, <2>2, PairIsAmbiguous
  <2>. QED
    BY <2>1, <2>4, <2>5, LookLeads DEF Looks
<1>. QED
  BY <1>1, TypesAlways, PTL DEF Spec, PairIsFlagged

(* A peer that says nothing leaves nothing behind: no claim, no account,   *)
(* no entry of the map, no data session.                                   *)
THEOREM LaunchSilent == Spec => SilentTakesNothing
<1>1. TypesInv /\ [Next]_vars =>
        [\A c \in Conn :
           conn[c].at # "idle" /\ conn[c].sid = NoSession /\ conn'[c] # conn[c] /\ ~Restart
             => UNCHANGED <<claims, acctVars, dataVars>>]_vars
  <2>. SUFFICES ASSUME TypesInv, [Next]_vars, NEW c \in Conn, conn[c].at # "idle",
                       conn[c].sid = NoSession, conn'[c] # conn[c], ~Restart
                PROVE  UNCHANGED <<claims, acctVars, dataVars>>
    OBVIOUS
  <2>1. conn[c].at = "accepted"
    BY ConnPlaced, LaunchAssumption DEF TypesInv, Placed
  <2>2. ~ Stamp(c) /\ ~ Look(c) /\ ~ Claim(c) /\ ~ CheckMap(c) /\ ~ Create(c)
        /\ ~ Record(c) /\ ~ Login(c) /\ ~ Heal(c) /\ ~ Relogin(c) /\ ~ TakeCompanion(c)
        /\ ~ Register(c) /\ ~ Upstream(c) /\ ~ Unreachable(c) /\ ~ Teardown(c)
    BY <2>1 DEF Stamp, Look, Claim, CheckMap, Create, Record, Login, Heal, Relogin,
                TakeCompanion, Register, Upstream, Unreachable, Teardown
  <2>3. /\ \A s \in Session : ~ Dial(c, s)
        /\ \A ip \in Address : ~ Probe(c, ip)
    BY DEF Dial, Probe
  <2>4. FirstBytes(c)
    BY <2>2, <2>3, WhoMoves DEF Handle
  <2>. QED
    BY <2>4 DEF FirstBytes
<1>. QED
  BY <1>1, TypesAlways, PTL DEF Spec, SilentTakesNothing
=============================================================================
