--------------------------- MODULE FramingProofs ---------------------------
(***************************************************************************)
(* The cutting of a byte stream into packets, for streams of any number of *)
(* frames of any length, however recv returns them.                        *)
(***************************************************************************)
EXTENDS Framing, SequenceTheorems, WellFoundedInduction, TLAPS

----------------------------------------------------------------------------
(* Consecutive bytes.                                                      *)

(* A stretch of consecutive bytes, its length and its bytes.               *)
LEMMA SpanIs ==
  ASSUME NEW a \in Int, NEW b \in Int, a <= b + 1
  PROVE  /\ Span(a, b) \in Seq(Int) /\ Len(Span(a, b)) = b - a + 1
         /\ \A i \in 1 .. b - a + 1 : Span(a, b)[i] = a + i - 1
<1>1. b - a + 1 \in Nat /\ \A i \in 1 .. b - a + 1 : a + i - 1 \in Int
  OBVIOUS
<1> DEFINE n == b - a + 1
           e(i) == a + i - 1
           s == [i \in 1 .. n |-> e(i)]
<1>2. n \in Nat /\ \A i \in 1 .. n : e(i) \in Int
  BY <1>1
<1>. HIDE DEF n, e
<1>3. s \in Seq(Int) /\ Len(s) = n
  BY <1>2, IsASeq
<1>4. Span(a, b) = s
  BY DEF Span, n, e
<1>. QED
  BY <1>3, <1>4 DEF n, e

(* Two stretches, one after the other, are one.                            *)
LEMMA SpanJoined ==
  ASSUME NEW a \in Int, NEW b \in Int, NEW c \in Int, a <= b + 1, b <= c
  PROVE  Span(a, b) \o Span(b + 1, c) = Span(a, c)
<1> DEFINE s == Span(a, b)
           t == Span(b + 1, c)
           u == Span(a, c)
<1>1. /\ s \in Seq(Int) /\ Len(s) = b - a + 1
      /\ t \in Seq(Int) /\ Len(t) = c - b
      /\ u \in Seq(Int) /\ Len(u) = c - a + 1
      /\ \A i \in 1 .. Len(s) : s[i] = a + i - 1
      /\ \A i \in 1 .. Len(t) : t[i] = b + 1 + i - 1
      /\ \A i \in 1 .. Len(u) : u[i] = a + i - 1
  <2>1. c - (b + 1) + 1 = c - b /\ b + 1 <= c + 1 /\ a <= c + 1 /\ b + 1 \in Int
    OBVIOUS
  <2>. QED
    BY <2>1, SpanIs
<1>. HIDE DEF s, t, u
<1>2. /\ s \o t \in Seq(Int) /\ Len(s \o t) = Len(s) + Len(t)
      /\ \A i \in 1 .. Len(s) + Len(t) :
           (s \o t)[i] = IF i <= Len(s) THEN s[i] ELSE t[i - Len(s)]
  BY <1>1, ConcatProperties
<1>3. Len(s \o t) = Len(u)
  BY <1>1, <1>2
<1>4. ASSUME NEW i \in 1 .. Len(u) PROVE (s \o t)[i] = u[i]
  <2>1. i \in 1 .. Len(s) + Len(t)
    BY <1>1, <1>2, <1>3
  <2>2. CASE i <= Len(s)
    <3>1. (s \o t)[i] = s[i] /\ i \in 1 .. Len(s)
      BY <1>1, <1>2, <2>1, <2>2
    <3>. QED
      BY <1>1, <3>1
  <2>3. CASE ~ (i <= Len(s))
    <3>1. (s \o t)[i] = t[i - Len(s)] /\ i - Len(s) \in 1 .. Len(t)
      BY <1>1, <1>2, <2>1, <2>3
    <3>2. t[i - Len(s)] = b + 1 + (i - Len(s)) - 1
      BY <1>1, <3>1
    <3>. QED
      BY <1>1, <3>1, <3>2
  <2>. QED
    BY <2>2, <2>3
<1>5. s \o t = u
  BY <1>1, <1>2, <1>3, <1>4, SeqEqual
<1>. QED
  BY <1>5 DEF s, t, u

(* A stretch cut in two.                                                   *)
LEMMA SpanCut ==
  ASSUME NEW a \in Int, NEW b \in Int, NEW n \in Nat, a <= b + 1, n <= b - a + 1
  PROVE  /\ SubSeq(Span(a, b), 1, n) = Span(a, a + n - 1)
         /\ SubSeq(Span(a, b), n + 1, Len(Span(a, b))) = Span(a + n, b)
<1> DEFINE s == Span(a, b)
           t == Span(a, a + n - 1)
           u == Span(a + n, b)
<1>1. /\ s \in Seq(Int) /\ Len(s) = b - a + 1
      /\ t \in Seq(Int) /\ Len(t) = n
      /\ u \in Seq(Int) /\ Len(u) = b - a + 1 - n
      /\ \A i \in 1 .. Len(s) : s[i] = a + i - 1
      /\ \A i \in 1 .. Len(t) : t[i] = a + i - 1
      /\ \A i \in 1 .. Len(u) : u[i] = a + n + i - 1
  <2>1. /\ a + n - 1 \in Int /\ a + n \in Int /\ a + n <= b + 1 /\ a <= a + n - 1 + 1
        /\ (a + n - 1) - a + 1 = n /\ b - (a + n) + 1 = b - a + 1 - n
    OBVIOUS
  <2>2. s \in Seq(Int) /\ Len(s) = b - a + 1 /\ \A i \in 1 .. Len(s) : s[i] = a + i - 1
    BY SpanIs
  <2>3. t \in Seq(Int) /\ Len(t) = n /\ \A i \in 1 .. Len(t) : t[i] = a + i - 1
    <3> DEFINE c == a + n - 1
    <3>1. c \in Int /\ a <= c + 1 /\ c - a + 1 = n
      BY <2>1
    <3>. HIDE DEF c
    <3>. QED
      BY <3>1, SpanIs
  <2>4. u \in Seq(Int) /\ Len(u) = b - a + 1 - n /\ \A i \in 1 .. Len(u) : u[i] = a + n + i - 1
    <3> DEFINE c == a + n
    <3>1. c \in Int /\ c <= b + 1 /\ b - c + 1 = b - a + 1 - n
      BY <2>1
    <3>. HIDE DEF c
    <3>. QED
      BY <3>1, SpanIs
  <2>. HIDE DEF s, t, u
  <2>. QED
    BY <2>2, <2>3, <2>4
<1>. HIDE DEF s, t, u
<1>2. SubSeq(s, 1, n) = t
  <2>1. /\ SubSeq(s, 1, n) \in Seq(Int)
        /\ Len(SubSeq(s, 1, n)) = IF 1 <= n THEN n - 1 + 1 ELSE 0
        /\ \A i \in 1 .. n - 1 + 1 : SubSeq(s, 1, n)[i] = s[1 + i - 1]
    BY <1>1, SubSeqProperties
  <2>2. Len(SubSeq(s, 1, n)) = Len(t)
    BY <1>1, <2>1
  <2>3. \A i \in 1 .. Len(t) : SubSeq(s, 1, n)[i] = t[i]
    BY <1>1, <2>1
  <2>. QED
    BY <1>1, <2>1, <2>2, <2>3, SeqEqual
<1>3. SubSeq(s, n + 1, Len(s)) = u
  <2> DEFINE m == n + 1
             k == Len(s)
  <2>1. /\ m \in 1 .. Len(s) + 1 /\ k \in m - 1 .. Len(s)
    BY <1>1
  <2>2. /\ SubSeq(s, m, k) \in Seq(Int)
        /\ Len(SubSeq(s, m, k)) = IF m <= k THEN k - m + 1 ELSE 0
        /\ \A i \in 1 .. k - m + 1 : SubSeq(s, m, k)[i] = s[m + i - 1]
    <3>. HIDE DEF m, k
    <3>. QED
      BY <1>1, <2>1, SubSeqProperties
  <2>3. Len(SubSeq(s, m, k)) = Len(u)
    BY <1>1, <2>2
  <2>4. \A i \in 1 .. Len(u) : SubSeq(s, m, k)[i] = u[i]
    BY <1>1, <2>2
  <2>. HIDE DEF m, k
  <2>5. SubSeq(s, m, k) = u
    BY <1>1, <2>2, <2>3, <2>4, SeqEqual
  <2>. QED
    BY <2>5 DEF m, k
<1>. QED
  BY <1>2, <1>3 DEF s, t, u

----------------------------------------------------------------------------
(* Frames, one after the other.                                            *)

(* In a stream of packets every frame ends after those before it.          *)
LEMMA Rising ==
  ASSUME NEW s \in Seq(Frame), Laid(s), \A n \in DOMAIN s : WellFormed(s[n])
  PROVE  \A m, n \in 1 .. Len(s) : m < n => End(s[m]) < End(s[n]) /\ End(s[m]) < s[n].at
<1>1. \A n \in 1 .. Len(s) : /\ s[n] \in Frame /\ s[n].at \in Nat /\ s[n].length \in Nat
                             /\ 0 < s[n].length /\ End(s[n]) = s[n].at + s[n].length - 1
                             /\ End(s[n]) \in Int /\ s[n].at <= End(s[n])
  <2>. SUFFICES ASSUME NEW n \in 1 .. Len(s)
                PROVE  /\ s[n] \in Frame /\ s[n].at \in Nat /\ s[n].length \in Nat
                       /\ 0 < s[n].length /\ End(s[n]) = s[n].at + s[n].length - 1
                       /\ End(s[n]) \in Int /\ s[n].at <= End(s[n])
    OBVIOUS
  <2>1. s[n] \in Frame /\ n \in DOMAIN s
    BY ElementOfSeq
  <2>2. s[n].at \in Nat /\ s[n].length \in Nat
    BY <2>1 DEF Frame
  <2>3. 0 < s[n].length
    BY <2>1, <2>2, FramingAssumption DEF WellFormed
  <2>. QED
    BY <2>1, <2>2, <2>3 DEF End
<1>2. \A n \in 1 .. Len(s) : n # 1 => s[n].at = End(s[n - 1]) + 1
  BY DEF Laid
<1>. SUFFICES ASSUME NEW m \in 1 .. Len(s)
              PROVE  \A n \in 1 .. Len(s) : m < n => End(s[m]) < End(s[n]) /\ End(s[m]) < s[n].at
  OBVIOUS
<1> DEFINE bad == {n \in 1 .. Len(s) : m < n /\ ~(End(s[m]) < End(s[n]) /\ End(s[m]) < s[n].at)}
           R == OpToRel(<, Nat)
<1>3. bad = {}
  <2>. SUFFICES ASSUME bad # {} PROVE FALSE
    OBVIOUS
  <2>1. PICK n \in bad : \A k \in bad : ~ (<<k, n>> \in R)
    <3>1. IsWellFoundedOn(R, Nat)
      BY NatLessThanWellFounded
    <3>2. bad \subseteq Nat /\ bad # {}
      OBVIOUS
    <3>. HIDE DEF R, bad
    <3>. QED
      BY <3>1, <3>2, WFMin
  <2>2. n \in 1 .. Len(s) /\ m < n /\ n - 1 \in 1 .. Len(s) /\ n - 1 \in Nat /\ n \in Nat
        /\ n - 1 < n /\ n # 1
    OBVIOUS
  <2>3. n - 1 \notin bad
    <3>. HIDE DEF bad
    <3>1. n - 1 \in bad => <<n - 1, n>> \notin R
      BY <2>1
    <3>2. <<n - 1, n>> \in R
      BY <2>2, Zenon DEF OpToRel
    <3>. QED
      BY <3>1, <3>2
  <2>4. End(s[m]) <= End(s[n - 1])
    <3>1. CASE n - 1 = m
      <4>1. s[n - 1] = s[m] /\ End(s[m]) \in Int
        BY <1>1, <3>1
      <4>. HIDE DEF bad
      <4>. QED
        BY <4>1
    <3>2. CASE n - 1 # m
      <4>1. m < n - 1
        BY <2>2, <3>2
      <4>2. End(s[m]) < End(s[n - 1])
        BY <2>2, <2>3, <4>1
      <4>3. End(s[m]) \in Int /\ End(s[n - 1]) \in Int
        BY <1>1, <2>2
      <4>. HIDE DEF bad
      <4>. QED
        BY <4>2, <4>3
    <3>. QED
      BY <3>1, <3>2
  <2>5. s[n].at = End(s[n - 1]) + 1
    BY <1>2, <2>2
  <2>6. /\ End(s[m]) \in Int /\ End(s[n - 1]) \in Int /\ s[n].at \in Int
        /\ End(s[n]) \in Int /\ s[n].at <= End(s[n])
    BY <1>1, <2>2
  <2>7. End(s[m]) < End(s[n]) /\ End(s[m]) < s[n].at
    BY <2>4, <2>5, <2>6
  <2>. QED
    BY <2>1, <2>7
<1>. QED
  BY <1>3

----------------------------------------------------------------------------
(* The pump.                                                               *)

(* Whatever was received has been sent on or is in the buffer, in its      *)
(* order.  In a stream of packets the cut between the two lies where a     *)
(* frame ends, and the frames before it are those that were rewritten.     *)
CutAfter(n) == IF n = 0 THEN 0 ELSE End(stream[n])

FramingInv ==
  /\ stream \in Streams /\ got \in Nat /\ Length \in Int /\ (got = 0 \/ got <= Length)
  /\ Len(sent) \in 0 .. got
  /\ sent = Span(1, Len(sent)) /\ buf = Span(Len(sent) + 1, got)
  /\ (\A n \in DOMAIN stream : WellFormed(stream[n])) =>
       \E n \in 0 .. Len(stream) :
         /\ Len(sent) = CutAfter(n)
         /\ framed = 1 .. n /\ hashed = {m \in 1 .. n : stream[m].lobby}

(* A stream that a peer may send is a sequence of frames laid out one      *)
(* after the other, with numbers for lengths and ends.                     *)
LEMMA LengthIsInt ==
  ASSUME stream \in Streams
  PROVE  /\ Length \in Int /\ stream \in Seq(Frame) /\ Laid(stream)
         /\ DOMAIN stream = 1 .. Len(stream) /\ Len(stream) \in Nat
         /\ \A n \in 1 .. Len(stream) : /\ stream[n] \in Frame /\ stream[n].at \in Nat
                                        /\ stream[n].length \in Nat /\ stream[n].says \in Nat
                                        /\ End(stream[n]) \in Int
<1>1. stream \in Seq(Frame) /\ Laid(stream)
  BY FramingAssumption
<1>2. DOMAIN stream = 1 .. Len(stream) /\ Len(stream) \in Nat
  BY <1>1, LenProperties
<1>3. \A n \in 1 .. Len(stream) : stream[n] \in Frame
  BY <1>1, ElementOfSeq
<1>4. \A n \in 1 .. Len(stream) : /\ stream[n].at \in Nat /\ stream[n].length \in Nat
                                  /\ stream[n].says \in Nat
  BY <1>3 DEF Frame
<1>5. \A n \in 1 .. Len(stream) : End(stream[n]) \in Int
  BY <1>4 DEF End
<1>6. Length \in Int
  <2>1. CASE stream = <<>>
    BY <2>1 DEF Length
  <2>2. CASE stream # <<>>
    <3>1. Len(stream) \in 1 .. Len(stream)
      BY <1>1, <1>2, <2>2, EmptySeq
    <3>. QED
      BY <1>5, <2>2, <3>1 DEF Length
  <2>. QED
    BY <2>1, <2>2
<1>. QED
  BY <1>1, <1>2, <1>3, <1>4, <1>5, <1>6

(* What take_packet says of a buffer.                                      *)
LEMMA TakeIs ==
  ASSUME NEW b \in Seq(Int), b # <<>>
  PROVE  /\ TakePacket(b).is \in {"more", "foreign", "packet"}
         /\ TakePacket(b).is = "packet" =>
              /\ HeadOf(b) # 0
              /\ TakePacket(b).size = stream[HeadOf(b)].says
              /\ HDR_LEN <= TakePacket(b).size \/ ~(TakePacket(b).size < HDR_LEN)
              /\ ~(Len(b) < TakePacket(b).size)
BY DEF TakePacket

(* When the buffer begins with a header, it is that of the frame which     *)
(* begins there.                                                           *)
LEMMA HeadIs ==
  ASSUME NEW b, HeadOf(b) # 0
  PROVE  HeadOf(b) \in DOMAIN stream /\ stream[HeadOf(b)].ixff /\ stream[HeadOf(b)].at = b[1]
<1> DEFINE heads == {n \in DOMAIN stream : stream[n].ixff /\ stream[n].at = b[1]}
<1>1. HeadOf(b) = IF heads = {} THEN 0 ELSE CHOOSE n \in heads : TRUE
  BY DEF HeadOf
<1>. HIDE DEF heads
<1>2. HeadOf(b) \in heads
  BY <1>1
<1>. QED
  BY <1>2 DEF heads

(* A buffer not yet gone through that begins where a frame of a stream of  *)
(* packets begins: take_packet waits until the frame is whole, and then    *)
(* takes the frame, no less and no more.                                   *)
LEMMA PacketIsFrame ==
  ASSUME stream \in Streams, \A n \in DOMAIN stream : WellFormed(stream[n]),
         NEW n \in 1 .. Len(stream), NEW b \in Seq(Int), b # <<>>, b[1] = stream[n].at
  PROVE  IF Len(b) < stream[n].length
           THEN TakePacket(b).is = "more"
           ELSE /\ TakePacket(b).is = "packet" /\ TakePacket(b).size = stream[n].length
                /\ HeadOf(b) = n
<1>1. /\ DOMAIN stream = 1 .. Len(stream) /\ stream \in Seq(Frame) /\ Laid(stream)
      /\ stream[n].says \in Nat /\ stream[n].length \in Nat
      /\ \A m \in 1 .. Len(stream) : stream[m].at \in Nat /\ End(stream[m]) \in Int
  BY LengthIsInt
<1>2. /\ stream[n].ixff /\ stream[n].says = stream[n].length
      /\ HDR_LEN <= stream[n].length /\ stream[n].length <= MaxSize
  BY <1>1, FramingAssumption DEF WellFormed
<1>3. HeadOf(b) = n
  <2> DEFINE heads == {m \in DOMAIN stream : stream[m].ixff /\ stream[m].at = b[1]}
  <2>1. n \in heads
    BY <1>1, <1>2
  <2>2. ASSUME NEW m \in heads PROVE m = n
    <3>1. m \in 1 .. Len(stream) /\ stream[m].at = stream[n].at
      BY <1>1, <2>2
    <3>2. \A k \in 1 .. Len(stream) : stream[k].at <= End(stream[k])
      <4>1. \A k \in 1 .. Len(stream) : HDR_LEN <= stream[k].length /\ stream[k].length \in Nat
                                          /\ stream[k].at \in Nat
        <5>. SUFFICES ASSUME NEW k \in 1 .. Len(stream)
                      PROVE  /\ HDR_LEN <= stream[k].length /\ stream[k].length \in Nat
                             /\ stream[k].at \in Nat
          OBVIOUS
        <5>1. stream[k].length \in Nat /\ stream[k].at \in Nat
          BY LengthIsInt
        <5>2. WellFormed(stream[k])
          BY <1>1
        <5>. QED
          BY <5>1, <5>2, FramingAssumption DEF WellFormed
      <4>. QED
        BY <4>1, FramingAssumption DEF End
    <3>3. \A k, l \in 1 .. Len(stream) : k < l => stream[k].at < stream[l].at
      <4>. SUFFICES ASSUME NEW k \in 1 .. Len(stream), NEW l \in 1 .. Len(stream), k < l
                    PROVE  stream[k].at < stream[l].at
        OBVIOUS
      <4>1. End(stream[k]) < stream[l].at
        BY <1>1, Rising
      <4>. QED
        BY <1>1, <3>2, <4>1
    <3>. HIDE DEF heads
    <3>4. ~(m < n) /\ ~(n < m)
      BY <1>1, <3>1, <3>3
    <3>. QED
      BY <3>1, <3>4
  <2>3. HeadOf(b) = IF heads = {} THEN 0 ELSE CHOOSE m \in heads : TRUE
    BY DEF HeadOf
  <2>. HIDE DEF heads
  <2>. QED
    BY <2>1, <2>2, <2>3
<1>4. Len(b) \in Nat /\ n # 0
  BY LenProperties
<1>5. /\ MAGIC_END \in Nat /\ SIZE_SEEN \in Nat /\ HDR_LEN \in Nat /\ MaxSize \in Nat
      /\ MAGIC_END <= SIZE_SEEN /\ SIZE_SEEN <= HDR_LEN
  BY FramingAssumption
<1>6. CASE Len(b) < stream[n].length
  BY <1>2, <1>3, <1>1, <1>4, <1>5, <1>6 DEF TakePacket
<1>7. CASE ~(Len(b) < stream[n].length)
  <2>1. ~(Len(b) < MAGIC_END) /\ ~(Len(b) < SIZE_SEEN)
    BY <1>1, <1>2, <1>4, <1>5, <1>7
  <2>2. ~(stream[n].says < HDR_LEN \/ stream[n].says > MaxSize)
    BY <1>1, <1>2, <1>5
  <2>. QED
    BY <1>2, <1>3, <1>4, <1>7, <2>1, <2>2 DEF TakePacket
<1>. QED
  BY <1>6, <1>7

(* The cut lies where the next frame begins.                               *)
LEMMA NextFrame ==
  ASSUME stream \in Streams, NEW n \in 0 .. Len(stream), n # Len(stream)
  PROVE  /\ n + 1 \in 1 .. Len(stream) /\ stream[n + 1].at = CutAfter(n) + 1
         /\ CutAfter(n) \in Int
         /\ CutAfter(n + 1) = CutAfter(n) + stream[n + 1].length
<1>1. /\ DOMAIN stream = 1 .. Len(stream) /\ Len(stream) \in Nat /\ Laid(stream)
      /\ \A m \in 1 .. Len(stream) : /\ stream[m].at \in Nat /\ End(stream[m]) \in Int
                                     /\ stream[m].length \in Nat
  BY LengthIsInt
<1>2. n + 1 \in 1 .. Len(stream) /\ n + 1 # 0 /\ (n + 1) - 1 = n
  BY <1>1
<1>3. CutAfter(n) \in Int
  <2>1. n # 0 => End(stream[n]) \in Int
    <3>1. Len(stream) \in Nat
      BY <1>1
    <3>2. n # 0 => n \in 1 .. Len(stream)
      BY <3>1
    <3>. QED
      BY <1>1, <3>2
  <2>. QED
    BY <2>1 DEF CutAfter
<1>4. stream[n + 1].at = CutAfter(n) + 1
  <2>1. stream[n + 1].at = IF n + 1 = 1 THEN 1 ELSE End(stream[n]) + 1
    BY <1>1, <1>2 DEF Laid
  <2>. QED
    BY <2>1 DEF CutAfter
<1>5. CutAfter(n + 1) = CutAfter(n) + stream[n + 1].length
  <2>1. CutAfter(n + 1) = stream[n + 1].at + stream[n + 1].length - 1
    BY <1>2 DEF CutAfter, End
  <2>2. stream[n + 1].length \in Nat
    BY <1>1, <1>2
  <2>. QED
    BY <1>3, <1>4, <2>1, <2>2
<1>. QED
  BY <1>2, <1>3, <1>4, <1>5

(* Before anything arrived.                                                *)
LEMMA FramingInvAtFirst == FramingInit => FramingInv
<1>. SUFFICES ASSUME FramingInit PROVE FramingInv
  OBVIOUS
<1>1. /\ stream \in Streams /\ got = 0 /\ buf = <<>> /\ sent = <<>>
      /\ framed = {} /\ hashed = {}
  BY DEF FramingInit
<1>2. Len(sent) = 0
  BY <1>1
<1>3. Span(1, 0) = <<>>
  <2>1. Span(1, 0) \in Seq(Int) /\ Len(Span(1, 0)) = 0
    BY SpanIs
  <2>. QED
    BY <2>1, EmptySeq
<1>4. Len(stream) \in Nat /\ Length \in Int
  BY <1>1, LengthIsInt
<1>5. \E n \in 0 .. Len(stream) : /\ Len(sent) = CutAfter(n) /\ framed = 1 .. n
                                 /\ hashed = {m \in 1 .. n : stream[m].lobby}
  <2>1. 0 \in 0 .. Len(stream) /\ Len(sent) = CutAfter(0) /\ 1 .. 0 = {}
    BY <1>2, <1>4 DEF CutAfter
  <2>. QED
    BY <1>1, <2>1
<1>. QED
  BY <1>1, <1>2, <1>3, <1>4, <1>5 DEF FramingInv

(* The buffer of a state of the pump.                                      *)
LEMMA BufferIs ==
  ASSUME FramingInv
  PROVE  /\ sent \in Seq(Int) /\ buf \in Seq(Int) /\ Len(sent) \in Nat /\ got \in Nat
         /\ Len(buf) = got - Len(sent) /\ Len(buf) \in Nat
         /\ (buf # <<>>) <=> (0 < Len(buf))
         /\ buf # <<>> => buf[1] = Len(sent) + 1
<1>1. got \in Nat /\ Len(sent) \in Nat /\ Len(sent) <= got
  BY DEF FramingInv
<1> DEFINE k == Len(sent)
<1>2. sent = Span(1, k) /\ buf = Span(k + 1, got)
  BY DEF FramingInv
<1>. HIDE DEF k
<1>3. k \in Nat /\ k <= got
  BY <1>1 DEF k
<1>4. /\ 1 \in Int /\ k \in Int /\ 1 <= k + 1 /\ got \in Int /\ k + 1 \in Int
      /\ k + 1 <= got + 1 /\ got - (k + 1) + 1 = got - k
  BY <1>1, <1>3
<1>5. sent \in Seq(Int)
  BY <1>2, <1>4, SpanIs
<1>6. buf \in Seq(Int) /\ Len(buf) = got - k /\ \A i \in 1 .. got - k : buf[i] = k + 1 + i - 1
  BY <1>2, <1>4, SpanIs
<1>7. buf # <<>> <=> 0 < Len(buf)
  BY <1>6, EmptySeq, LenProperties
<1>8. 0 < Len(buf) => buf[1] = k + 1
  BY <1>3, <1>1, <1>6
<1>9. got - k \in Nat
  BY <1>1, <1>3
<1>. QED
  BY <1>1, <1>5, <1>6, <1>7, <1>8, <1>9 DEF k

(* One frame of a stream of packets at the head of the buffer.             *)
LEMMA AtTheCut ==
  ASSUME FramingInv, NEW n \in 0 .. Len(stream), Len(sent) = CutAfter(n), buf # <<>>
  PROVE  n # Len(stream) /\ n + 1 \in 1 .. Len(stream) /\ buf[1] = stream[n + 1].at
<1>1. stream \in Streams /\ Len(stream) \in Nat /\ Length \in Int
  BY LengthIsInt DEF FramingInv
<1>2. Len(sent) < got /\ got \in Nat /\ Len(sent) \in Nat /\ buf[1] = Len(sent) + 1
  BY BufferIs
<1>3. got <= Length
  BY <1>2 DEF FramingInv
<1>4. n # Len(stream)
  <2>. SUFFICES ASSUME n = Len(stream) PROVE FALSE
    OBVIOUS
  <2>1. Length = CutAfter(n)
    <3>1. stream = <<>> <=> Len(stream) = 0
      BY <1>1, LengthIsInt, EmptySeq
    <3>. QED
      BY <3>1 DEF Length, CutAfter
  <2>. QED
    BY <1>1, <1>2, <1>3, <2>1
<1>. QED
  BY <1>1, <1>2, <1>4, NextFrame

(* A step of the pump.                                                     *)
LEMMA FramingInvStep ==
  ASSUME FramingInv, [FramingNext]_framingVars
  PROVE  FramingInv'
<1> DEFINE k == Len(sent)
           Frames == \A n \in DOMAIN stream : WellFormed(stream[n])
<1>a. /\ stream \in Streams /\ got \in Nat /\ Length \in Int /\ (got = 0 \/ got <= Length)
      /\ k \in Nat /\ k <= got /\ sent = Span(1, k) /\ buf = Span(k + 1, got)
      /\ Frames => \E n \in 0 .. Len(stream) :
                     k = CutAfter(n) /\ framed = 1 .. n /\ hashed = {m \in 1 .. n : stream[m].lobby}
  BY DEF FramingInv
<1>b. stream' = stream
  BY DEF FramingNext, Receive, Packet, Verbatim, framingVars
<1>c. Length' = Length /\ Len(stream)' = Len(stream) /\ Frames' = Frames
      /\ \A n : CutAfter(n)' = CutAfter(n)
  BY <1>b DEF Length, CutAfter
<1>d. /\ sent \in Seq(Int) /\ buf \in Seq(Int) /\ Len(buf) = got - k
      /\ Len(stream) \in Nat /\ DOMAIN stream = 1 .. Len(stream)
  BY <1>a, BufferIs, LengthIsInt
<1>1. ASSUME NEW n \in 1 .. Length, Receive(n)
      PROVE  FramingInv'
  <2>1. /\ got' = got + n /\ got' <= Length /\ sent' = sent /\ framed' = framed
        /\ hashed' = hashed /\ buf' = Span(k + 1, got) \o Span(got + 1, got + n)
    BY <1>1, <1>a DEF Receive
  <2>2. n \in Nat /\ got' \in Nat /\ k <= got'
    BY <1>a, <2>1
  <2>3. Span(k + 1, got) \o Span(got + 1, got + n) = Span(k + 1, got + n)
    <3>. HIDE DEF k
    <3> DEFINE a == k + 1
               c == got + n
    <3>1. a \in Int /\ got \in Int /\ c \in Int /\ a <= got + 1 /\ got <= c
      BY <1>a, <2>2
    <3>. HIDE DEF a, c
    <3>2. Span(a, got) \o Span(got + 1, c) = Span(a, c)
      BY <3>1, SpanJoined
    <3>. QED
      BY <3>2 DEF a, c
  <2>4. k' = k /\ buf' = Span(k + 1, got')
    BY <2>1, <2>3
  <2>. QED
    BY <1>a, <1>b, <1>c, <2>1, <2>2, <2>4 DEF FramingInv
<1>2. CASE Packet
  <2> DEFINE size == TakePacket(buf).size
             head == HeadOf(buf)
  <2>1. /\ buf # <<>> /\ TakePacket(buf).is = "packet" /\ got' = got
        /\ buf' = SubSeq(buf, size + 1, Len(buf))
        /\ sent' = sent \o SubSeq(buf, 1, size)
        /\ framed' = IF size = stream[head].length THEN framed \cup {head} ELSE framed
        /\ hashed' = IF stream[head].lobby THEN hashed \cup {head} ELSE hashed
    BY <1>2 DEF Packet
  <2>2. size \in Nat /\ size <= got - k
    <3>1. /\ head # 0 /\ size = stream[head].says /\ ~(Len(buf) < size)
      BY <1>d, <2>1, TakeIs
    <3>2. head \in 1 .. Len(stream)
      BY <1>d, <3>1, HeadIs
    <3>3. size \in Nat
      BY <1>a, <3>1, <3>2, LengthIsInt
    <3>. HIDE DEF size, k
    <3>. QED
      BY <1>a, <1>d, <3>1, <3>3
  <2>3. /\ SubSeq(buf, 1, size) = Span(k + 1, k + size)
        /\ SubSeq(buf, size + 1, Len(buf)) = Span(k + size + 1, got)
    <3>. HIDE DEF size, k
    <3> DEFINE a == k + 1
    <3>1. a \in Int /\ got \in Int /\ a <= got + 1 /\ size <= got - a + 1
          /\ a + size - 1 = k + size /\ a + size = k + size + 1
      BY <1>a, <2>2
    <3>. HIDE DEF a
    <3>2. buf = Span(a, got)
      BY <1>a DEF a
    <3>3. /\ SubSeq(buf, 1, size) = Span(a, a + size - 1)
          /\ SubSeq(buf, size + 1, Len(buf)) = Span(a + size, got)
      BY <2>2, <3>1, <3>2, SpanCut
    <3>. QED
      BY <3>1, <3>3 DEF a
  <2>4. sent' = Span(1, k + size) /\ buf' = Span(k + size + 1, got)
    <3>. HIDE DEF size, k
    <3> DEFINE c == k + size
    <3>1. /\ 1 \in Int /\ k \in Int /\ c \in Int /\ 1 <= k + 1 /\ k <= c
      BY <1>a, <2>2
    <3>. HIDE DEF c
    <3>2. Span(1, k) \o Span(k + 1, c) = Span(1, c)
      BY <3>1, SpanJoined
    <3>. QED
      BY <1>a, <2>1, <2>3, <3>2 DEF c
  <2>5. k' = k + size
    <3>. HIDE DEF size
    <3> DEFINE c == k + size
    <3>1. c \in Int /\ 1 <= c + 1 /\ c - 1 + 1 = c
      BY <1>a, <2>2
    <3>. HIDE DEF c, k
    <3>2. Len(Span(1, c)) = c
      BY <3>1, SpanIs
    <3>. QED
      BY <2>4, <3>2 DEF c, k
  <2>6. k + size \in 0 .. got
    <3>. HIDE DEF size, k
    <3>. QED
      BY <1>a, <2>2
  <2>7. ASSUME Frames
        PROVE  \E n \in 0 .. Len(stream) : /\ k + size = CutAfter(n) /\ framed' = 1 .. n
                                          /\ hashed' = {m \in 1 .. n : stream[m].lobby}
    <3>1. PICK n \in 0 .. Len(stream) : /\ k = CutAfter(n) /\ framed = 1 .. n
                                       /\ hashed = {m \in 1 .. n : stream[m].lobby}
      BY <1>a, <2>7
    <3>2. n # Len(stream) /\ n + 1 \in 1 .. Len(stream) /\ buf[1] = stream[n + 1].at
      BY <2>1, <3>1, AtTheCut
    <3>3. size = stream[n + 1].length /\ head = n + 1
      <4>1. TakePacket(buf).is # "more"
        BY <2>1
      <4>. QED
        BY <1>a, <1>d, <2>1, <2>7, <3>2, <4>1, PacketIsFrame
    <3>4. CutAfter(n + 1) = k + size
      BY <1>a, <3>1, <3>2, <3>3, NextFrame
    <3>5. 1 .. n + 1 = (1 .. n) \cup {n + 1} /\ n + 1 \in 0 .. Len(stream)
      <4>1. n \in Nat
        BY <1>d, <3>1
      <4>2. 1 .. n + 1 = (1 .. n) \cup {n + 1}
        BY <4>1
      <4>3. n + 1 \in 0 .. Len(stream)
        BY <3>2
      <4>. QED
        BY <4>2, <4>3
    <3>6. framed' = 1 .. n + 1 /\ hashed' = {m \in 1 .. n + 1 : stream[m].lobby}
      <4>. HIDE DEF size, head
      <4>. QED
        BY <2>1, <3>1, <3>3, <3>5
    <3>. QED
      BY <3>4, <3>5, <3>6
  <2>. HIDE DEF size, head
  <2>. QED
    BY <1>a, <1>b, <1>c, <2>1, <2>4, <2>5, <2>6, <2>7 DEF FramingInv
<1>3. CASE Verbatim
  <2>1. /\ buf # <<>> /\ TakePacket(buf).is = "foreign" /\ sent' = sent \o buf /\ buf' = <<>>
        /\ got' = got /\ framed' = framed /\ hashed' = hashed
    BY <1>3 DEF Verbatim
  <2>2. sent' = Span(1, got)
    <3>. HIDE DEF k
    <3>1. 1 \in Int /\ k \in Int /\ got \in Int /\ 1 <= k + 1 /\ k <= got
      BY <1>a
    <3>. QED
      BY <1>a, <2>1, <3>1, SpanJoined
  <2>3. k' = got
    <3>1. got \in Int /\ 1 <= got + 1 /\ got - 1 + 1 = got
      BY <1>a
    <3>2. Len(Span(1, got)) = got
      BY <3>1, SpanIs
    <3>. QED
      BY <2>2, <3>2
  <2>4. buf' = Span(got + 1, got)
    <3> DEFINE a == got + 1
    <3>1. a \in Int /\ got \in Int /\ a <= got + 1 /\ got - a + 1 = 0
      BY <1>a
    <3>. HIDE DEF a
    <3>2. Span(a, got) \in Seq(Int) /\ Len(Span(a, got)) = 0
      BY <3>1, SpanIs
    <3>. QED
      BY <2>1, <3>2, EmptySeq DEF a
  <2>5. ~Frames
    <3>. SUFFICES ASSUME Frames PROVE FALSE
      OBVIOUS
    <3>1. PICK n \in 0 .. Len(stream) : k = CutAfter(n)
      BY <1>a
    <3>2. n + 1 \in 1 .. Len(stream) /\ buf[1] = stream[n + 1].at
      BY <2>1, <3>1, AtTheCut
    <3>3. TakePacket(buf).is \in {"more", "packet"}
      BY <1>a, <1>d, <2>1, <3>2, PacketIsFrame
    <3>. QED
      BY <2>1, <3>3
  <2>6. ~(\A n \in DOMAIN stream' : WellFormed(stream'[n]))
    BY <1>b, <2>5
  <2>7. /\ stream' \in Streams /\ got' \in Nat /\ Length' \in Int
        /\ (got' = 0 \/ got' <= Length')
    BY <1>a, <1>b, <1>c, <2>1
  <2>8. /\ Len(sent)' \in 0 .. got' /\ sent' = Span(1, Len(sent)')
        /\ buf' = Span(Len(sent)' + 1, got')
    <3>1. got \in 0 .. got
      BY <1>a
    <3>2. Len(sent)' = got
      BY <2>3
    <3>. HIDE DEF k
    <3>. QED
      BY <2>1, <2>2, <2>4, <3>1, <3>2
  <2>. HIDE DEF Frames, k
  <2>. QED
    BY <2>6, <2>7, <2>8 DEF FramingInv
<1>4. CASE UNCHANGED framingVars
  <2>1. UNCHANGED <<stream, got, buf, sent, framed, hashed>>
    BY <1>4 DEF framingVars
  <2>. QED
    BY <1>a, <1>c, <2>1 DEF FramingInv
<1>. QED
  BY <1>1, <1>2, <1>3, <1>4 DEF FramingNext

(* The cut is where the invariant says in every state a pump reaches.      *)
LEMMA FramingInvAlways == FramingSpec => []FramingInv
<1>1. FramingInv /\ [FramingNext]_framingVars => FramingInv'
  BY FramingInvStep
<1>. QED
  BY <1>1, FramingInvAtFirst, PTL DEF FramingSpec

(* However recv cuts a stream, no byte is lost, doubled or moved, and of a *)
(* stream of packets, of any number and any sizes, every one that arrived  *)
(* whole went through the rewrite as one packet.                           *)
THEOREM FramingCuts == FramingSpec => []CutsDoNotMatter
<1>1. FramingInv => CutsDoNotMatter
  <2>. SUFFICES ASSUME FramingInv PROVE CutsDoNotMatter
    OBVIOUS
  <2> DEFINE k == Len(sent)
  <2>a. /\ stream \in Streams /\ got \in Nat /\ Length \in Int
        /\ k \in Nat /\ k <= got /\ sent = Span(1, k) /\ buf = Span(k + 1, got)
    BY DEF FramingInv
  <2>b. /\ buf \in Seq(Int) /\ Len(buf) = got - k /\ (buf # <<>> <=> 0 < Len(buf))
        /\ Len(stream) \in Nat /\ DOMAIN stream = 1 .. Len(stream)
        /\ stream \in Seq(Frame) /\ Laid(stream)
        /\ \A n \in 1 .. Len(stream) : stream[n].at \in Nat /\ End(stream[n]) \in Int
    BY <2>a, BufferIs, LengthIsInt
  <2>1. sent \o buf = Span(1, got)
    <3>. HIDE DEF k
    <3>1. 1 \in Int /\ k \in Int /\ got \in Int /\ 1 <= k + 1 /\ k <= got
      BY <2>a
    <3>. QED
      BY <2>a, <3>1, SpanJoined
  <2>2. ASSUME \A n \in DOMAIN stream : WellFormed(stream[n]),
               buf = <<>> \/ TakePacket(buf).is = "more"
        PROVE  /\ framed = {n \in DOMAIN stream : End(stream[n]) <= got}
               /\ hashed = {n \in framed : stream[n].lobby}
               /\ \A n \in DOMAIN stream : stream[n].at - 1 <= k
                                             => n \in framed \/ stream[n].at - 1 = k
    <3>1. PICK n \in 0 .. Len(stream) : /\ k = CutAfter(n) /\ framed = 1 .. n
                                       /\ hashed = {m \in 1 .. n : stream[m].lobby}
      BY <2>2 DEF FramingInv
    <3>n. n \in Nat /\ n <= Len(stream)
      BY <2>b, <3>1
    <3>2. \A l, m \in 1 .. Len(stream) :
            l < m => End(stream[l]) < End(stream[m]) /\ End(stream[l]) < stream[m].at
      BY <2>2, <2>b, Rising
    <3>3. ASSUME NEW m \in 1 .. Len(stream), m <= n PROVE End(stream[m]) <= k
      <4>1. n \in 1 .. Len(stream) /\ n # 0
        BY <3>n, <3>3
      <4>2. k = End(stream[n])
        BY <3>1, <4>1 DEF CutAfter
      <4>3. m = n \/ End(stream[m]) < End(stream[n])
        BY <3>2, <3>3, <3>n, <4>1
      <4>4. End(stream[m]) \in Int /\ End(stream[n]) \in Int
        BY <2>b, <4>1
      <4>. HIDE DEF k
      <4>. QED
        BY <4>2, <4>3, <4>4
    <3>4. ASSUME NEW m \in 1 .. Len(stream), n < m
          PROVE  got < End(stream[m]) /\ (stream[m].at = k + 1 \/ k + 1 < stream[m].at)
      <4>1. n # Len(stream) /\ n + 1 \in 1 .. Len(stream)
        BY <3>n, <3>4
      <4>2. stream[n + 1].at = k + 1 /\ End(stream[n + 1]) = k + stream[n + 1].length
            /\ stream[n + 1].length \in Nat
        <5>1. stream[n + 1].at = CutAfter(n) + 1
          BY <2>a, <4>1, NextFrame
        <5>2. CutAfter(n + 1) = CutAfter(n) + stream[n + 1].length
          BY <2>a, <4>1, NextFrame
        <5>3. CutAfter(n + 1) = End(stream[n + 1])
          BY <3>n DEF CutAfter
        <5>4. stream[n + 1].length \in Nat
          BY <2>a, <4>1, LengthIsInt
        <5>. HIDE DEF k
        <5>. QED
          BY <3>1, <5>1, <5>2, <5>3, <5>4
      <4>3. got < End(stream[n + 1])
        <5>1. 0 < stream[n + 1].length
          <6>1. WellFormed(stream[n + 1])
            BY <2>2, <2>b, <4>1
          <6>. QED
            BY <4>2, <6>1, FramingAssumption DEF WellFormed
        <5>2. CASE buf = <<>>
          <6>1. got = k
            BY <2>a, <2>b, <5>2
          <6>. HIDE DEF k
          <6>. QED
            BY <2>a, <4>2, <5>1, <6>1
        <5>3. CASE buf # <<>>
          <6>1. buf[1] = stream[n + 1].at
            BY <3>1, <5>3, AtTheCut
          <6>2. Len(buf) < stream[n + 1].length
            <7>1. TakePacket(buf).is # "packet"
              BY <2>2, <5>3
            <7>. QED
              BY <2>a, <2>2, <2>b, <4>1, <5>3, <6>1, <7>1, PacketIsFrame
          <6>. HIDE DEF k
          <6>. QED
            BY <2>a, <2>b, <4>2, <6>2
        <5>. QED
          BY <5>2, <5>3
      <4>4. m = n + 1 \/ n + 1 < m
        BY <3>4, <3>n
      <4>5. CASE m = n + 1
        BY <4>2, <4>3, <4>5
      <4>6. CASE n + 1 < m
        <5>1. End(stream[n + 1]) < End(stream[m]) /\ End(stream[n + 1]) < stream[m].at
          BY <3>2, <4>1, <4>6
        <5>2. End(stream[n + 1]) \in Int /\ End(stream[m]) \in Int /\ stream[m].at \in Nat
          BY <2>b, <4>1
        <5>3. k < End(stream[n + 1])
          <6>. HIDE DEF k
          <6>. QED
            BY <2>a, <4>3, <5>2
        <5>. HIDE DEF k
        <5>. QED
          BY <2>a, <4>3, <5>1, <5>2, <5>3
      <4>. QED
        BY <4>4, <4>5, <4>6
    <3>5. framed = {m \in DOMAIN stream : End(stream[m]) <= got}
      <4>1. ASSUME NEW m \in 1 .. Len(stream) PROVE m \in framed <=> End(stream[m]) <= got
        <5>1. End(stream[m]) \in Int
          BY <2>b
        <5>. HIDE DEF k
        <5>2. CASE m <= n
          BY <2>a, <3>1, <3>3, <5>1, <5>2
        <5>3. CASE n < m
          BY <2>a, <3>1, <3>4, <5>1, <5>3
        <5>. QED
          BY <3>n, <5>2, <5>3
      <4>2. framed \subseteq 1 .. Len(stream)
        BY <3>1, <3>n, <2>b
      <4>. QED
        BY <2>b, <4>1, <4>2
    <3>6. hashed = {m \in framed : stream[m].lobby}
      BY <3>1
    <3>7. ASSUME NEW m \in 1 .. Len(stream), stream[m].at - 1 <= k
          PROVE  m \in framed \/ stream[m].at - 1 = k
      <4>1. CASE m <= n
        BY <3>1, <4>1
      <4>2. CASE n < m
        <5>1. stream[m].at = k + 1 \/ k + 1 < stream[m].at
          BY <3>4, <4>2
        <5>2. stream[m].at \in Nat
          BY <2>b
        <5>. HIDE DEF k
        <5>. QED
          BY <2>a, <3>7, <5>1, <5>2
      <4>. QED
        BY <3>n, <4>1, <4>2
    <3>. QED
      BY <2>b, <3>5, <3>6, <3>7
  <2>. QED
    BY <2>1, <2>2 DEF CutsDoNotMatter
<1>. QED
  BY <1>1, FramingInvAlways, PTL

=============================================================================
