------------------------------ MODULE Framing ------------------------------
(***************************************************************************)
(* How a pump of lsb/ffxi_bridge.py cuts the byte stream of one direction  *)
(* into IXFF packets: recv hands it any number of bytes at a time,         *)
(* take_packet takes whole packets off its buffer, and each is rewritten   *)
(* and sent on; what is not IXFF is passed on as it is.                    *)
(*                                                                         *)
(* A stream is a sequence of frames; a byte is its position in the stream, *)
(* and a frame begins at one.                                              *)
(***************************************************************************)
EXTENDS Integers, Sequences

CONSTANTS
  MAGIC_END,    (* bytes needed to see the magic (8 in the code)           *)
  SIZE_SEEN,    (* bytes asked for before the size is trusted (12)         *)
  HDR_LEN,      (* the smallest packet (28)                                *)
  MaxSize,      (* the largest (0x10000)                                   *)
  Streams       (* what a peer may send, each a sequence of frames         *)

Frame == [ixff : BOOLEAN, says : Nat, length : Nat, lobby : BOOLEAN, at : Nat]

(* The last byte of a frame, and frames one after the other.               *)
End(f) == f.at + f.length - 1
Laid(s) == \A n \in DOMAIN s : s[n].at = IF n = 1 THEN 1 ELSE End(s[n - 1]) + 1

ASSUME FramingAssumption ==
  /\ MAGIC_END \in Nat /\ SIZE_SEEN \in Nat /\ HDR_LEN \in Nat /\ MaxSize \in Nat
  /\ 0 < MAGIC_END /\ MAGIC_END <= SIZE_SEEN /\ SIZE_SEEN <= HDR_LEN
  /\ Streams \subseteq Seq(Frame) /\ \A s \in Streams : Laid(s)

VARIABLES
  stream,     (* what the peer sends                                       *)
  got,        (* how much of it recv has returned                          *)
  buf,        (* the pump's buffer                                         *)
  sent,       (* the bytes sent on                                         *)
  framed,     (* frames that went through the rewrite as one packet        *)
  hashed      (* frames the session hash was put in                        *)

framingVars == <<stream, got, buf, sent, framed, hashed>>

Length == IF stream = <<>> THEN 0 ELSE End(stream[Len(stream)])
Span(from, to) == [i \in 1 .. to - from + 1 |-> from + i - 1]

(* The frame whose header the buffer begins with; 0 when it is not one.    *)
HeadOf(b) ==
  LET at == {n \in DOMAIN stream : stream[n].ixff /\ stream[n].at = b[1]}
  IN  IF at = {} THEN 0 ELSE CHOOSE n \in at : TRUE

(* Mutant: whatever arrived in one piece is taken for one packet, as       *)
(* before packets were framed.                                             *)
PerRecv(b) ==
  IF Len(b) < MAGIC_END THEN [is |-> "more", size |-> 0]
  ELSE IF HeadOf(b) = 0 THEN [is |-> "foreign", size |-> 0]
  ELSE [is |-> "packet", size |-> Len(b)]

(* take_packet.                                                            *)
TakePacket(b) ==
  IF Len(b) < MAGIC_END THEN [is |-> "more", size |-> 0]
  ELSE IF HeadOf(b) = 0 THEN [is |-> "foreign", size |-> 0]
  ELSE LET size == stream[HeadOf(b)].says
       IN  IF Len(b) < SIZE_SEEN THEN [is |-> "more", size |-> 0]
           ELSE IF size < HDR_LEN \/ size > MaxSize THEN [is |-> "foreign", size |-> 0]
           ELSE IF Len(b) < size THEN [is |-> "more", size |-> 0]
           ELSE [is |-> "packet", size |-> size]

FramingInit ==
  /\ stream \in Streams
  /\ got = 0
  /\ buf = <<>> /\ sent = <<>>
  /\ framed = {} /\ hashed = {}

(* recv returns some more bytes, once the buffer was gone through.         *)
Receive(n) ==
  /\ buf = <<>> \/ TakePacket(buf).is = "more"
  /\ got + n <= Length
  /\ got' = got + n
  /\ buf' = buf \o Span(got + 1, got + n)
  /\ UNCHANGED <<stream, sent, framed, hashed>>

(* A whole packet: rewritten, its hash put in when it is a lobby command   *)
(* (inject_hash), and sent.                                                *)
Packet ==
  /\ buf # <<>> /\ TakePacket(buf).is = "packet"
  /\ LET size == TakePacket(buf).size
         n == HeadOf(buf)
     IN  /\ buf' = SubSeq(buf, size + 1, Len(buf))
         /\ sent' = sent \o SubSeq(buf, 1, size)
         /\ framed' = IF size = stream[n].length THEN framed \cup {n} ELSE framed
         /\ hashed' = IF stream[n].lobby THEN hashed \cup {n} ELSE hashed
  /\ UNCHANGED <<stream, got>>

(* Not IXFF: the whole buffer goes on untouched.                           *)
Verbatim ==
  /\ buf # <<>> /\ TakePacket(buf).is = "foreign"
  /\ sent' = sent \o buf
  /\ buf' = <<>>
  /\ UNCHANGED <<stream, got, framed, hashed>>

FramingNext == Packet \/ Verbatim \/ \E n \in 1 .. Length : Receive(n)

FramingSpec == FramingInit /\ [][FramingNext]_framingVars

----------------------------------------------------------------------------
WellFormed(f) == f.ixff /\ f.says = f.length /\ f.length \in HDR_LEN .. MaxSize

(* However recv cuts a stream, no byte is lost, doubled or moved; and of a *)
(* stream of packets every one that has arrived whole goes through the     *)
(* rewrite as one packet, with the session hash where it is a lobby        *)
(* command, while none is sent in part (pump, 1672-1690).                  *)
CutsDoNotMatter ==
  /\ sent \o buf = Span(1, got)
  /\ (\A n \in DOMAIN stream : WellFormed(stream[n]))
       /\ (buf = <<>> \/ TakePacket(buf).is = "more")
     => /\ framed = {n \in DOMAIN stream : End(stream[n]) <= got}
        /\ hashed = {n \in framed : stream[n].lobby}
        /\ \A n \in DOMAIN stream : stream[n].at - 1 <= Len(sent)
                                      => n \in framed \/ stream[n].at - 1 = Len(sent)
=============================================================================
