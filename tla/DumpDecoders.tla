---------------------------- MODULE DumpDecoders ----------------------------
(***************************************************************************)
(* What lsb/ffxi_import_core.py decodes: the key items of a polexport dump *)
(* and the packets its addon captured raw, into the bit arrays and columns *)
(* LSB keeps of them.  A bit array is the set of its bits that are set; an *)
(* array of bools has a cell per flag.  Sizes are constants, so that small *)
(* ones can be checked exhaustively.                                       *)
(***************************************************************************)
EXTENDS Integers, FiniteSets

CONSTANTS
  KEYITEM_TABLES,
  KEYITEM_BITS_PER_TABLE,
  KEYITEM_TABLE_BITS,     (* a table's keyList and seenList                *)
  WORD,                   (* bits of a packet's word (32)                  *)
  QuestArea,              (* the quest logs                                *)
  AhtUrghan,              (* the one whose packets carry more than quests  *)
  JP_CATEGORIES,
  MaxJob

ASSUME DecodersAssumption ==
  /\ KEYITEM_TABLES \in Nat /\ KEYITEM_BITS_PER_TABLE \in Nat \ {0}
  /\ KEYITEM_TABLE_BITS \in Nat /\ KEYITEM_TABLE_BITS >= 2 * KEYITEM_BITS_PER_TABLE
  /\ WORD \in Nat \ {0}
  /\ AhtUrghan \in QuestArea
  /\ JP_CATEGORIES \in Nat /\ MaxJob \in Nat

----------------------------------------------------------------------------
(* Key items (and mounts, which are key items).                            *)

KEYITEM_MAX == KEYITEM_TABLES * KEYITEM_BITS_PER_TABLE

(* Mutant: a flat array, as until 2026-08-26.                              *)
FlatBlob(ids) == {k \in ids : 0 <= k /\ k < KEYITEM_MAX}

(* keyitem_blob: an id's bit is in the keyList of its table.               *)
KeyitemBlob(ids) ==
  {(k \div KEYITEM_BITS_PER_TABLE) * KEYITEM_TABLE_BITS + (k % KEYITEM_BITS_PER_TABLE) :
     k \in {i \in ids : 0 <= i /\ i < KEYITEM_MAX}}

(* How LSB reads keyitems_t: tables, each a keyList and then a seenList.   *)
HasKeyItem(blob, table, index) == table * KEYITEM_TABLE_BITS + index \in blob
SeenKeyItem(blob, table, index) ==
  table * KEYITEM_TABLE_BITS + KEYITEM_BITS_PER_TABLE + index \in blob

----------------------------------------------------------------------------
(* The quest and mission log: packets of eight words and a Port.           *)

(* A flag of LSB's four blobs.                                             *)
Flag(blob, part, half, n) == [blob |-> blob, part |-> part, half |-> half, n |-> n]
Mission(log, n) == Flag("missions", log, "complete", n)

(* The mission logs that share one packet, in its order.                   *)
NationLog == <<"Sandoria", "Bastok", "Windurst", "Zilart">>

Port(kind, area) == [kind |-> kind, area |-> area]
None == "none"

(* The ports LSB sends the log under.                                      *)
LogPort ==
  {Port(kind, area) : kind \in {"offer", "complete"}, area \in QuestArea}
    \cup {Port(kind, None) :
            kind \in {"nations", "expansions", "campaign1", "campaign2", "mission"}}

(* A captured block, and what makes it fit to be read.                     *)
LogBlock ==
  [port : LogPort, whole : BOOLEAN, agrees : BOOLEAN, bits : SUBSET (0 .. 8 * WORD - 1),
   words : [0 .. 7 -> Nat]]
Fit(b) == b.whole /\ b.agrees

(* The flags a block sets.  Aht Urghan's offers have quests in the first   *)
(* four words only, its completions have Assault's after them; Campaign    *)
(* takes two blocks.                                                       *)
Flags(b) ==
  CASE b.port.kind = "offer" ->
         {Flag("quests", b.port.area, "current", n) :
            n \in {m \in b.bits : b.port.area = AhtUrghan => m < 4 * WORD}}
    [] b.port.kind = "complete" ->
         {IF b.port.area = AhtUrghan /\ n >= 4 * WORD
            THEN Flag("assault", None, "complete", n - 4 * WORD)
            ELSE Flag("quests", b.port.area, "complete", n) : n \in b.bits}
    [] b.port.kind = "nations" ->
         {Mission(NationLog[1 + (n \div (2 * WORD))], n % (2 * WORD)) : n \in b.bits}
    [] b.port.kind = "expansions" ->
         {Mission(IF n < 2 * WORD THEN "ToAU" ELSE "WoTG", n % (2 * WORD)) :
            n \in {m \in b.bits : m < 4 * WORD}}
    [] b.port.kind = "campaign1" -> {Flag("campaign", None, "complete", n) : n \in b.bits}
    [] b.port.kind = "campaign2" ->
         {Flag("campaign", None, "complete", 8 * WORD + n) : n \in b.bits}
    [] OTHER -> {}

(* The flags there are: LSB's own layout of its four blobs.                *)
LogFlags ==
  {Flag("quests", a, half, n) :
     a \in QuestArea, half \in {"current", "complete"}, n \in 0 .. 8 * WORD - 1}
    \cup {Flag("assault", None, "complete", n) : n \in 0 .. 4 * WORD - 1}
    \cup {Flag("campaign", None, "complete", n) : n \in 0 .. 16 * WORD - 1}
    \cup {Mission(NationLog[log], n) : log \in 1 .. 4, n \in 0 .. 2 * WORD - 1}
    \cup {Mission(log, n) : log \in {"ToAU", "WoTG"}, n \in 0 .. 2 * WORD - 1}

(* Where LSB's own builders put a flag: the port and the bit, or no port   *)
(* when no packet carries it.                                              *)
OnWire(f) ==
  CASE f.blob = "quests" ->
         [port |-> IF f.part = AhtUrghan /\ f.n >= 4 * WORD THEN Port(None, None)
                   ELSE Port(IF f.half = "current" THEN "offer" ELSE "complete", f.part),
          bit |-> f.n]
    [] f.blob = "assault" ->
         [port |-> Port("complete", AhtUrghan),
          bit |-> (4 + (f.n \div WORD)) * WORD + (f.n % WORD)]
    [] f.blob = "campaign" ->
         [port |-> Port(IF f.n < 8 * WORD THEN "campaign1" ELSE "campaign2", None),
          bit |-> f.n % (8 * WORD)]
    [] f.blob = "missions" /\ (\E log \in 0 .. 3 : NationLog[1 + log] = f.part) ->
         [port |-> Port("nations", None),
          bit |-> LET log == CHOOSE l \in 0 .. 3 : NationLog[1 + l] = f.part
                  IN  (log * 2 + (f.n \div WORD)) * WORD + (f.n % WORD)]
    [] OTHER ->
         [port |-> Port("expansions", None),
          bit |-> (IF f.part = "ToAU" THEN 0 ELSE 2 * WORD) + f.n]

(* The mission words of SoA and RoV are offset; one below the offset is a  *)
(* storyline declined, whose progress is not on the wire.                  *)
SoA(word) == IF word >= 110 /\ (word - 110) % 2 = 0 THEN {(word - 110) \div 2} ELSE {}
RoV(word) == IF word >= 108 THEN {word - 108} ELSE {}

(* A mission's number has 16 bits; a larger one is cut down to the largest. *)
Clamped(n) == IF n > 65535 THEN 65535 ELSE n

(* The current missions a block names, as pairs of a log and a number.     *)
Currents(b) ==
  CASE b.port = Port("offer", AhtUrghan) ->
         {<<"assault", Clamped(b.words[4])>>, <<"ToAU", Clamped(b.words[5])>>,
          <<"WoTG", Clamped(b.words[6])>>, <<"campaign", Clamped(b.words[7])>>}
    [] b.port.kind = "mission" ->
         {<<"nation", Clamped(b.words[1])>> : n \in {m \in {b.words[0]} : m < 15}}
           \cup {<<"Zilart", Clamped(b.words[2])>>, <<"CoP", Clamped(b.words[3])>>,
                 <<"CoP status", b.words[4]>>}
           \cup {<<"ACP", b.words[5] % 16>>, <<"AMK", (b.words[5] \div 16) % 16>>,
                 <<"ASA", (b.words[5] \div 256) % 16>>}
           \cup {<<"SoA", Clamped(n)>> : n \in SoA(b.words[6])}
           \cup {<<"RoV", Clamped(n)>> : n \in RoV(b.words[7])}
    [] OTHER -> {}

(* The blobs a block speaks to; the others are not written at all.         *)
Touched(b) ==
  (IF b.port.kind \in {"offer", "complete"} THEN {"quests"} ELSE {})
    \cup (IF b.port.area = AhtUrghan THEN {"assault"} ELSE {})
    \cup (IF b.port = Port("offer", AhtUrghan) THEN {"campaign", "missions"} ELSE {})
    \cup (IF b.port.kind \in {"campaign1", "campaign2"} THEN {"campaign"} ELSE {})
    \cup (IF b.port.kind = "mission" THEN {"missions"} ELSE {})
    \cup {f.blob : f \in Flags(b)}

(* decode_questlog, of blocks with a port each: one value per blob spoken  *)
(* to.                                                                     *)
DecodeQuestlog(blocks) ==
  LET fit == {b \in blocks : Fit(b)}
      value(blob) ==
        [flags |-> {f \in UNION {Flags(b) : b \in fit} : f.blob = blob},
         current |-> IF blob \in {"quests"} THEN {} ELSE
                       {c \in UNION {Currents(b) : b \in fit} :
                          blob = IF c[1] \in {"assault", "campaign"} THEN c[1] ELSE "missions"}]
  IN  [blob \in UNION {Touched(b) : b \in fit} |-> value(blob)]

----------------------------------------------------------------------------
(* Job points, teleports and currencies.                                   *)

(* The cells of a job's row: what it has earned and spent, taken together, *)
(* and a level per category.                                               *)
Cell(part, n) == [part |-> part, n |-> n]
JobPointCell == {Cell("points", 0)} \cup {Cell("level", i) : i \in 0 .. JP_CATEGORIES - 1}

(* decode_job_points: for each job, the cells one of the two packets has a *)
(* value for.                                                              *)
DecodeJobPoints(totals, levels) ==
  LET heard == {[job |-> t.job, cell |-> Cell("points", 0), value |-> t.spent] :
                  t \in {x \in totals : x.job \in 1 .. MaxJob /\ x.spent > 0}}
                 \cup
               {[job |-> c.job, cell |-> Cell("level", c.index), value |-> c.level] :
                  c \in {x \in levels : /\ x.job \in 1 .. MaxJob /\ x.level > 0
                                        /\ x.index \in 0 .. JP_CATEGORIES - 1}}
  IN  [j \in {h.job : h \in heard} |-> {h \in heard : h.job = j}]

(* decode_teleports: the masks LSB has room for; the rest is warned of.    *)
DecodeTeleports(body) ==
  IF body.whole
    THEN [unlocks |-> [homepoints |-> body.homepoints, survivals |-> body.survivals,
                       waypoints |-> {n \in body.waypoints : n < 2 * WORD}]]
    ELSE <<>>

(* decode_currencies: a block of another length is refused whole.  Columns *)
(* that come out as 0 are not written (1055-1062).                         *)
DecodeCurrencies(blocks) ==
  {c \in UNION {b.columns : b \in {x \in blocks : x.whole /\ x.known}} : c.value > 0}
=============================================================================
