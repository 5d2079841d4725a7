---------------------------- MODULE MCDataPaths ----------------------------
(* Instances of Framing and of ImportPlan.  They share nothing; a run      *)
(* checks both, one of them standing still in each behaviour.              *)
EXTENDS Framing, ImportPlan, FiniteSetsExt, TLC

(* Streams of up to three frames: lobby packets and others, bytes that are *)
(* not IXFF, and headers whose size is too small or too large.             *)
F(ixff, says, length, lobby) ==
  [ixff |-> ixff, says |-> says, length |-> length, lobby |-> lobby, at |-> 1]
Frames == {F(TRUE, 4, 4, TRUE), F(TRUE, 6, 6, FALSE), F(FALSE, 0, 1, FALSE),
           F(FALSE, 0, 5, FALSE), F(TRUE, 2, 4, TRUE), F(TRUE, 8, 5, TRUE)}
InARow(s) ==
  [n \in DOMAIN s |->
     [s[n] EXCEPT !.at = 1 + MapThenSumSet(LAMBDA i : s[i].length, 1 .. n - 1)]]
SmallStreams == {InARow(s) : s \in UNION {[1 .. n -> Frames] : n \in 1 .. 3}}

(* Containers by LSB's numbers; 1 and 9 share a column, 17 has none.       *)
Columns == 0 :> "inventory" @@ 1 :> "safe" @@ 9 :> "safe"
Defaults == [inventory |-> 1, safe |-> 2]

Item(slot, item) == [slot |-> slot, item |-> item]
Contents ==
  {{}, {Item(0, 7)}, {Item(1, 7)}, {Item(1, 7), Item(2, 8)}, {Item(3, 8)}, {Item(4, 7)}}
Boxes == [loc : {0, 1, 2, 3, 9, 17}, size : {0, 2}, items : Contents]
Wears(equip, loc, slot, item) == [equip |-> equip, loc |-> loc, slot |-> slot, item |-> item]
Worn == {{}, {Wears(0, 0, 1, 7)}, {Wears(0, 0, 1, 8), Wears(4, 9, 3, 8)}}
ItemDumps ==
  {("containers" :> {b, c} @@ "equipment" :> w @@ "currencies" :> {}) :
     b \in {x \in Boxes : x.loc \in {0, 1}},
     c \in {x \in Boxes : x.loc \in {2, 3, 9, 17}}, w \in Worn}

Section(readable, ids) == [readable |-> readable, ids |-> ids]
SpellDumps ==
  {<<>>} \cup {("spells" :> Section(b, s) @@ "abilities" :> Section(b, s)
                  @@ "weaponskills" :> s @@ "jobs" :> {[level |-> 75]}) :
                 b \in BOOLEAN, s \in SUBSET {1, 2, 5}}
Skill(id, skill) == [id |-> id, skill |-> skill]
Craft(id, skill, rank) == [id |-> id, skill |-> skill, rank |-> rank]
SkillDumps ==
  {("skills" :> s @@ "crafts" :> c @@ "title" :> t) :
     s \in SUBSET {Skill(1, 3), Skill(4, 3), Skill(5, 2)},
     c \in SUBSET {Craft(0, 1, 2), Craft(1, 2, 0)}, t \in {0, 9}}
KeyDumps == {("key_items" :> k) : k \in SUBSET {-1, 0, 5, 7, 8, 11, 15, 16}}

(* What LSB would have sent of a set of flags, and packets unfit to read.  *)
NoWords == [w \in 0 .. 7 |-> 0]
Block(port, bits, words) ==
  [port |-> port, whole |-> TRUE, agrees |-> TRUE, bits |-> bits, words |-> words]
Packets(flags) ==
  {Block(p, {OnWire(f).bit : f \in {g \in flags : OnWire(g).port = p}}, NoWords) :
     p \in {OnWire(f).port : f \in flags} \ {Port(None, None)}}
Sampled == {f \in LogFlags : f.n \in {0, 3, 4, 5, 7, 8, 15, 16, 31}}
Log(count, blocks) == ("questlog" :> [count |-> count, blocks |-> blocks])
LogDumps ==
  {Log(1, Packets({f, g})) : f, g \in Sampled}
    \cup {Log(0, {})}
    \cup {Log(1, {[b EXCEPT !.whole = w, !.agrees = a] : b \in Packets({f})}) :
            f \in Sampled, w \in BOOLEAN, a \in BOOLEAN}
    \cup {Log(1, {Block(Port("mission", None), {},
                        [NoWords EXCEPT ![0] = n, ![6] = s, ![7] = 109])}) :
            n \in {1, 99}, s \in {0, 111, 114}}

CaughtDumps ==
  {("teleports" :> [whole |-> b, homepoints |-> {1}, survivals |-> {}, waypoints |-> {0, 5}]
      @@ "currencies" :> {[whole |-> b, known |-> TRUE,
                           columns |-> {[name |-> "gp", value |-> v]}]}
      @@ "job points" :> {[job |-> 1, spent |-> v]}
      @@ "job point types" :> {[job |-> j, index |-> 0, level |-> 1]}
      @@ "homepoint" :> 3 @@ "rank" :> v @@ points @@ "merits" :> 300 * v) :
     b \in BOOLEAN, v \in {0, 1}, j \in {1, 2, 9}, points \in {<<>>, "rank points" :> 7}}

AllDumps ==
  ItemDumps \cup SpellDumps \cup SkillDumps \cup KeyDumps \cup LogDumps \cup CaughtDumps
Rolls == {2}
Unlocks == 5 :> 1
Points == {3}

Init ==
  \/ FramingInit /\ dump = <<>> /\ step = "idle" /\ rows = {} /\ sizes = STORAGE_DEFAULTS
       /\ todo = {} /\ columns = <<>> /\ failed = {}
  \/ PlanInit /\ stream = <<>> /\ got = 0 /\ buf = <<>> /\ sent = <<>>
       /\ framed = {} /\ hashed = {}

Next ==
  \/ FramingNext /\ UNCHANGED planVars
  \/ PlanNext /\ UNCHANGED framingVars

Spec == Init /\ [][Next]_<<framingVars, planVars>>
=============================================================================
