-------------------------- MODULE ImportPlanProofs --------------------------
(***************************************************************************)
(* The import of a dump, for dumps of any size and LSB tables of any       *)
(* shape: the sizes, rows and flags it writes are those of the dump.       *)
(***************************************************************************)
EXTENDS ImportPlan, FiniteSetTheorems, WellFoundedInduction, TLAPS

----------------------------------------------------------------------------
(* The plan depends on the dump alone.                                     *)

(* What is read of a section.                                              *)
LEMMA SectionsKept ==
  ASSUME dump' = dump
  PROVE  /\ \A section : Has(section)' = Has(section)
         /\ \A section : Ids(section)' = Ids(section)
         /\ \A section : Readable(section)' = Readable(section)
         /\ Containers' = Containers /\ Imported' = Imported
         /\ WsReadable' = WsReadable
BY DEF Has, Ids, Readable, Containers, Imported, WsReadable

(* What is planned of the items, their containers and the equipment.       *)
LEMMA ItemsKept ==
  ASSUME dump' = dump
  PROVE  ItemRows' = ItemRows /\ StorageSizes' = StorageSizes /\ EquipRows' = EquipRows
<1>1. ItemRows' = ItemRows
  BY SectionsKept DEF ItemRows
<1>2. \A column : Needed(column)' = Needed(column)
  BY SectionsKept DEF Needed
<1>3. StorageSizes' = StorageSizes
  BY <1>2 DEF StorageSizes
<1>4. EquipRows' = EquipRows
  BY <1>1, SectionsKept DEF EquipRows
<1>. QED
  BY <1>1, <1>3, <1>4

(* What is planned of the skills.                                          *)
LEMMA SkillsKept ==
  ASSUME dump' = dump
  PROVE  CraftRows' = CraftRows /\ CombatRows' = CombatRows /\ SkillRows' = SkillRows
BY SectionsKept DEF CraftRows, CombatRows, SkillRows

(* What is planned of everything else, and so the statements.              *)
LEMMA PlanKept ==
  ASSUME dump' = dump
  PROVE  Written' = Written /\ Best' = Best /\ Statements' = Statements
<1>1. /\ Spells' = Spells /\ Abilities' = Abilities /\ WeaponSkills' = WeaponSkills
      /\ Questlog' = Questlog /\ Teleports' = Teleports /\ JobPointRows' = JobPointRows
      /\ Currencies' = Currencies /\ Genkai' = Genkai
  <2>1. Spells' = Spells /\ Abilities' = Abilities /\ WeaponSkills' = WeaponSkills
    BY SectionsKept DEF Spells, Abilities, WeaponSkills
  <2>2. Questlog' = Questlog
    BY SectionsKept DEF Questlog
  <2>3. Teleports' = Teleports /\ Currencies' = Currencies
    BY SectionsKept DEF Teleports, Currencies
  <2>4. Ids("job points")' = Ids("job points") /\ Ids("job point types")' = Ids("job point types")
    BY SectionsKept
  <2>5. JobPointRows' = JobPointRows
    BY <2>4 DEF JobPoints, JobPointRows
  <2>6. Genkai' = Genkai
    <3>1. Ids("jobs")' = Ids("jobs")
      BY SectionsKept
    <3>. QED
      BY <3>1 DEF Genkai
  <2>. QED
    BY <2>1, <2>2, <2>3, <2>5, <2>6
<1>2. \A column : Value(column)' = Value(column)
  BY <1>1, ItemsKept, SkillsKept, SectionsKept DEF Value
<1>3. Written' = Written
  <2> DEFINE some == {column \in {"equipment", "skills", "spells", "abilities",
                                  "weaponskills", "currencies"} : Value(column) # {}}
             keys == {column \in {"keyitems"} : Ids("key_items") # {}}
             counts == {column \in {"rank", "merits"} : Has(column) /\ dump[column] > 0}
             cap == {column \in {"genkai"} : Genkai > 50}
             points == {column \in {"job points"} : DOMAIN JobPointRows # {}}
             home == {column \in {"home"} : Has("homepoint") /\ dump["homepoint"] \in HOMEPOINTS}
  <2>1. some' = some
    BY <1>2
  <2>2. keys' = keys
    BY SectionsKept
  <2>3. counts' = counts
    BY SectionsKept
  <2>4. cap' = cap /\ points' = points
    BY <1>1
  <2>5. home' = home
    BY SectionsKept
  <2>6. Written = some \cup keys \cup counts \cup cap \cup (Blobs \cap DOMAIN Questlog)
                    \cup ({"unlocks"} \cap DOMAIN Teleports) \cup points \cup home
    BY Zenon DEF Written
  <2>7. Written' = some' \cup keys' \cup counts' \cup cap' \cup (Blobs \cap DOMAIN Questlog')
                     \cup ({"unlocks"} \cap DOMAIN Teleports') \cup points' \cup home'
    BY Zenon DEF Written
  <2>. HIDE DEF some, keys, counts, cap, points, home
  <2>. QED
    BY <1>1, <2>1, <2>2, <2>3, <2>4, <2>5, <2>6, <2>7
<1>4. Statements' = Statements
  BY <1>3 DEF Statements
<1>. QED
  BY <1>2, <1>3, <1>4 DEF Best

----------------------------------------------------------------------------
(* The import, step by step.                                               *)

(* What was written is what was planned, in the transaction and after it,  *)
(* but for a table that was cleared and whose writing is still to come or  *)
(* has failed; every writing has been run, has failed, was refused or is   *)
(* still to come, and no clearing comes after its writing.                 *)
Steps == {"dump", "planned", "core", "loaded", "failed", "crashed"}

PlanInv ==
  /\ dump \in Dumps /\ step \in Steps
  /\ todo \subseteq Statements
  /\ step = "dump" => todo = {}
  /\ step = "planned" => todo = Statements
  /\ step = "loaded" => todo = {}
  /\ DOMAIN columns # {} => step \in {"core", "loaded"}
  /\ step \in {"core", "loaded"} =>
       /\ rows = ItemRows /\ sizes = StorageSizes
       /\ \A c \in Written :
            \/ <<"write", c>> \in todo \cup failed
            \/ c \in DOMAIN columns
            \/ Refused(c)
  /\ \A c : <<"clear", c>> \in todo => <<"write", c>> \in todo
  /\ DOMAIN columns \subseteq Written
  /\ \A c \in DOMAIN columns :
       \/ columns[c] = Best[c]
       \/ c \in Cleared /\ columns[c] = {} /\ <<"write", c>> \in todo \cup failed

(* What a statement is.                                                    *)
LEMMA StatementParts ==
  ASSUME NEW st \in Statements
  PROVE  /\ st = <<st[1], st[2]>> /\ st[1] \in {"write", "clear"} /\ st[2] \in Written
         /\ <<"write", st[2]>> \in Statements
         /\ st[1] = "clear" => st[2] \in Cleared
BY DEF Statements

(* Before the plan is made.                                                *)
LEMMA PlanInvAtFirst == PlanInit => PlanInv
BY DEF PlanInit, PlanInv, Steps

(* Everything the plan says stays as it is.                                *)
LEMMA SameDump ==
  ASSUME dump' = dump
  PROVE  /\ ItemRows' = ItemRows /\ StorageSizes' = StorageSizes /\ Written' = Written
         /\ Best' = Best /\ Statements' = Statements /\ \A c : Refused(c)' = Refused(c)
BY ItemsKept, SkillsKept, PlanKept DEF Refused

(* Every step of the import.                                               *)
LEMMA PlanInvStep ==
  ASSUME PlanInv, [PlanNext]_planVars
  PROVE  PlanInv'
<1>a. dump' = dump
  BY DEF PlanNext, Plan, RunCore, RunBest, Load, planVars
<1>b. /\ ItemRows' = ItemRows /\ StorageSizes' = StorageSizes /\ Written' = Written
      /\ Best' = Best /\ Statements' = Statements /\ \A c : Refused(c)' = Refused(c)
  BY <1>a, SameDump
<1>1. CASE Plan
  <2>1. /\ step = "dump" /\ UNCHANGED <<rows, sizes, columns, failed>>
        /\ (step' = "crashed" /\ todo' = todo) \/ (step' = "planned" /\ todo' = Statements)
    BY <1>1 DEF Plan
  <2>2. \A c : <<"clear", c>> \in Statements => <<"write", c>> \in Statements
    BY DEF Statements
  <2>. QED
    BY <1>a, <1>b, <2>1, <2>2 DEF PlanInv, Steps
<1>2. CASE RunCore
  <2>1. /\ step = "planned" /\ UNCHANGED <<todo, columns, failed>>
        /\ \/ step' = "core" /\ rows' = ItemRows /\ sizes' = StorageSizes
           \/ step' = "failed"
    BY <1>2 DEF RunCore
  <2>2. \A c \in Written : <<"write", c>> \in Statements
    BY DEF Statements
  <2>. QED
    BY <1>a, <1>b, <2>1, <2>2 DEF PlanInv, Steps
<1>3. ASSUME NEW st \in todo, RunBest(st[1], st[2])
      PROVE  PlanInv'
  <2> DEFINE does == st[1]
             c == st[2]
             left == todo \ {<<does, c>>}
  <2>1. /\ step = "core" /\ todo' = left /\ <<does, c>> \in todo /\ c \in Written
        /\ step' = step /\ rows' = rows /\ sizes' = sizes
        /\ does \in {"write", "clear"} /\ (does = "clear" => c \in Cleared)
        /\ does = "write" => <<"clear", c>> \notin todo
    BY <1>3, StatementParts DEF RunBest, PlanInv
  <2>2. \A d : <<"clear", d>> \in left => <<"write", d>> \in left
    BY <2>1 DEF PlanInv
  <2>. HIDE DEF does, c
  <2>3. \A x : <<"write", x>> \in todo => <<"write", x>> \in left \/ (x = c /\ does = "write")
    OBVIOUS
  <2>4. /\ dump' \in Dumps /\ step' \in Steps /\ step' = "core" /\ todo' \subseteq Statements'
        /\ rows' = ItemRows' /\ sizes' = StorageSizes'
        /\ \A d : <<"clear", d>> \in todo' => <<"write", d>> \in todo'
    BY <1>a, <1>b, <2>1, <2>2 DEF PlanInv
  <2>5. CASE columns' = columns /\ failed' = failed \cup {<<does, c>>}
    <3>1. \A x : <<"write", x>> \in todo \cup failed => <<"write", x>> \in todo' \cup failed'
      BY <2>1, <2>3, <2>5
    <3>2. \A x \in Written : <<"write", x>> \in todo' \cup failed' \/ x \in DOMAIN columns' \/ Refused(x)
      BY <2>1, <2>5, <3>1 DEF PlanInv
    <3>3. \A x \in DOMAIN columns' :
            \/ columns'[x] = Best[x]
            \/ x \in Cleared /\ columns'[x] = {} /\ <<"write", x>> \in todo' \cup failed'
      BY <2>5, <3>1 DEF PlanInv
    <3>. QED
      BY <1>b, <2>4, <2>5, <3>2, <3>3 DEF PlanInv
  <2>6. CASE columns' = columns /\ failed' = failed /\ does = "write" /\ Refused(c)
    <3>1. \A x \in Written : <<"write", x>> \in todo' \cup failed' \/ x \in DOMAIN columns' \/ Refused(x)
      BY <2>1, <2>3, <2>6 DEF PlanInv
    <3>2. c \notin Cleared
      BY <2>6 DEF Refused, Cleared
    <3>3. \A x \in DOMAIN columns' :
            \/ columns'[x] = Best[x]
            \/ x \in Cleared /\ columns'[x] = {} /\ <<"write", x>> \in todo' \cup failed'
      BY <2>1, <2>3, <2>6, <3>2 DEF PlanInv
    <3>. QED
      BY <1>b, <2>4, <2>6, <3>1, <3>3 DEF PlanInv
  <2>7. ASSUME NEW value, Leaves(c, value), failed' = failed,
               \/ does = "clear" /\ value = {}
               \/ does = "write" /\ value = Best[c]
        PROVE  PlanInv'
    <3>1. /\ DOMAIN columns' = DOMAIN columns \cup {c} /\ columns'[c] = value
          /\ \A x \in DOMAIN columns \ {c} : columns'[x] = columns[x]
      BY <2>7 DEF Leaves
    <3>2. \A x \in Written : <<"write", x>> \in todo' \cup failed' \/ x \in DOMAIN columns' \/ Refused(x)
      BY <2>1, <2>3, <2>7, <3>1 DEF PlanInv
    <3>3. ASSUME NEW x \in DOMAIN columns'
          PROVE  \/ columns'[x] = Best[x]
                 \/ x \in Cleared /\ columns'[x] = {} /\ <<"write", x>> \in todo' \cup failed'
      <4>1. CASE x # c
        <5>1. x \in DOMAIN columns /\ columns'[x] = columns[x]
          BY <3>1, <3>3, <4>1
        <5>. QED
          BY <2>1, <2>3, <2>7, <4>1, <5>1 DEF PlanInv
      <4>2. CASE x = c /\ does = "write"
        BY <2>7, <3>1, <4>2
      <4>3. CASE x = c /\ does = "clear"
        <5>1. <<"write", c>> \in todo
          BY <2>1, <4>3 DEF PlanInv
        <5>2. <<"write", c>> \in todo'
          BY <2>1, <2>3, <4>3, <5>1
        <5>. QED
          BY <2>1, <2>7, <3>1, <4>3, <5>2
      <4>. QED
        BY <2>1, <4>1, <4>2, <4>3
    <3>4. DOMAIN columns' \subseteq Written
      BY <2>1, <3>1 DEF PlanInv
    <3>. QED
      BY <1>b, <2>4, <3>2, <3>3, <3>4 DEF PlanInv
  <2>8. \/ columns' = columns /\ failed' = failed \cup {<<does, c>>}
        \/ columns' = columns /\ failed' = failed /\ does = "write" /\ Refused(c)
        \/ failed' = failed /\ does = "clear" /\ Leaves(c, {})
        \/ failed' = failed /\ does = "write" /\ Leaves(c, Best[c])
    BY <1>3, <2>1 DEF RunBest, does, c
  <2>. QED
    BY <2>5, <2>6, <2>7, <2>8
<1>4. CASE Load
  BY <1>a, <1>b, <1>4 DEF Load, PlanInv, Steps
<1>5. CASE UNCHANGED planVars
  BY <1>a, <1>b, <1>5 DEF planVars, PlanInv
<1>. QED
  BY <1>1, <1>2, <1>3, <1>4, <1>5 DEF PlanNext

(* Whatever ran is a part of the plan in every state an import reaches.    *)
LEMMA PlanInvAlways == PlanSpec => []PlanInv
<1>1. PlanInv /\ [PlanNext]_planVars => PlanInv'
  BY PlanInvStep
<1>. QED
  BY <1>1, PlanInvAtFirst, PTL DEF PlanSpec

(* A column that is written is one the dump has something for.             *)
LEMMA WrittenColumns ==
  ASSUME PlanInv, NEW c \in DOMAIN columns
  PROVE  /\ columns[c] = Value(c) \/ (c \in Cleared /\ columns[c] = {})
         /\ c \in Written
         /\ c \notin Cleared \/ <<"write", c>> \notin todo \cup failed => columns[c] = Value(c)
BY DEF PlanInv, Best

(* What the columns that the properties speak of are written with.         *)
LEMMA Values ==
  /\ Value("equipment") = EquipRows /\ Value("skills") = SkillRows
  /\ Value("keyitems") = KeyitemBlob(Ids("key_items"))
  /\ Value("spells") = Spells /\ Value("abilities") = Abilities
  /\ Value("weaponskills") = WeaponSkills /\ Value("currencies") = Currencies
  /\ Value("job points") = JobPointRows
  /\ Value("rank") =
       [rank |-> dump["rank"], points |-> IF Has("rank points") THEN dump["rank points"] ELSE 0]
  /\ \A blob \in Blobs : Value(blob) = Questlog[blob]
BY DEF Value, Blobs

(* A character wears only what lies in its own inventory, in the slot and  *)
(* with the item the player had on.                                        *)
THEOREM PlanEquipment == PlanSpec => []EquippedIsOwned
<1>1. PlanInv => EquippedIsOwned
  <2>. SUFFICES ASSUME PlanInv, "equipment" \in DOMAIN columns, NEW e \in columns["equipment"]
                PROVE  Row(e.loc, e.slot, e.item) \in rows
    BY DEF EquippedIsOwned
  <2>1. columns["equipment"] = EquipRows
    BY WrittenColumns, Values
  <2>2. rows = ItemRows
    BY DEF PlanInv
  <2>3. Row(e.loc, e.slot, e.item) \in ItemRows
    BY <2>1 DEF EquipRows
  <2>. QED
    BY <2>2, <2>3
<1>. QED
  BY <1>1, PlanInvAlways, PTL

(* Which cells of a job's row a dump says, and which are 0 for want of a   *)
(* word.                                                                   *)
LEMMA JobPointsHeard ==
  ASSUME NEW j \in DOMAIN JobPointRows
  PROVE  LET row == JobPointRows[j] IN
           /\ SaysPoints(j) \/ \E i \in 0 .. JP_CATEGORIES - 1 : SaysLevel(j, i)
           /\ SaysPoints(j) \/ row[Cell("points", 0)] = 0
           /\ \A i \in 0 .. JP_CATEGORIES - 1 : SaysLevel(j, i) \/ row[Cell("level", i)] = 0
<1> DEFINE earned == {[job |-> t.job, cell |-> Cell("points", 0), value |-> t.spent] :
                        t \in {x \in Ids("job points") : x.job \in 1 .. MaxJob /\ x.spent > 0}}
           levels == {[job |-> c.job, cell |-> Cell("level", c.index), value |-> c.level] :
                        c \in {x \in Ids("job point types") :
                                 /\ x.job \in 1 .. MaxJob /\ x.level > 0
                                 /\ x.index \in 0 .. JP_CATEGORIES - 1}}
           heard == earned \cup levels
           row == JobPointRows[j]
<1>1. /\ j \in {h.job : h \in heard}
      /\ JobPoints[j] = {h \in heard : h.job = j}
  BY DEF JobPointRows, JobPoints, DecodeJobPoints
<1>2. row = [cell \in JobPointCell |->
               IF \E h \in JobPoints[j] : h.cell = cell
                 THEN (CHOOSE h \in JobPoints[j] : h.cell = cell).value ELSE 0]
  BY DEF JobPointRows
<1>3. \A i : Cell("level", i) # Cell("points", 0)
  BY DEF Cell
<1>4. \A i, k : Cell("level", i) = Cell("level", k) => i = k
  BY DEF Cell
<1>5. ASSUME NEW h \in earned, h.job = j PROVE SaysPoints(j)
  <2>1. PICK t \in Ids("job points") :
          t.spent > 0 /\ h = [job |-> t.job, cell |-> Cell("points", 0), value |-> t.spent]
    BY <1>5
  <2>2. t.job = j
    BY <1>5, <2>1
  <2>. QED
    BY <2>1, <2>2 DEF SaysPoints
<1>6. ASSUME NEW h \in levels, h.job = j
      PROVE  \E i \in 0 .. JP_CATEGORIES - 1 : SaysLevel(j, i) /\ h.cell = Cell("level", i)
  <2>1. PICK c \in Ids("job point types") :
          /\ c.level > 0 /\ c.index \in 0 .. JP_CATEGORIES - 1
          /\ h = [job |-> c.job, cell |-> Cell("level", c.index), value |-> c.level]
    BY <1>6
  <2>2. c.job = j /\ h.cell = Cell("level", c.index)
    BY <1>6, <2>1
  <2>. QED
    BY <2>1, <2>2 DEF SaysLevel
<1>7. ASSUME NEW h \in earned PROVE h.cell = Cell("points", 0)
  <2>1. PICK t \in Ids("job points") :
          h = [job |-> t.job, cell |-> Cell("points", 0), value |-> t.spent]
    OBVIOUS
  <2>. QED
    BY <2>1
<1>. HIDE DEF earned, levels, row
<1>8. SaysPoints(j) \/ \E i \in 0 .. JP_CATEGORIES - 1 : SaysLevel(j, i)
  BY <1>1, <1>5, <1>6
<1>9. SaysPoints(j) \/ row[Cell("points", 0)] = 0
  <2>1. Cell("points", 0) \in JobPointCell
    BY DEF JobPointCell
  <2>2. ASSUME NEW h \in JobPoints[j], h.cell = Cell("points", 0) PROVE SaysPoints(j)
    BY <1>1, <1>3, <1>5, <1>6, <2>2
  <2>. QED
    BY <1>2, <2>1, <2>2
<1>10. ASSUME NEW i \in 0 .. JP_CATEGORIES - 1
       PROVE  SaysLevel(j, i) \/ row[Cell("level", i)] = 0
  <2>1. Cell("level", i) \in JobPointCell
    BY DEF JobPointCell
  <2>2. ASSUME NEW h \in JobPoints[j], h.cell = Cell("level", i) PROVE SaysLevel(j, i)
    BY <1>1, <1>3, <1>4, <1>6, <1>7, <2>2
  <2>. QED
    BY <1>2, <2>1, <2>2
<1>. QED
  BY <1>8, <1>9, <1>10 DEF row

(* A section that is missing, unreadable or was never captured leaves its  *)
(* column as it was; of a row that is written whole, what no packet says   *)
(* is 0, and there is no row of which no packet says anything.             *)
THEOREM PlanSilence == PlanSpec => []SilenceErasesNothing
<1>1. PlanInv => SilenceErasesNothing
  <2>. SUFFICES ASSUME PlanInv PROVE SilenceErasesNothing
    OBVIOUS
  <2>1. ~Readable("spells") => "spells" \notin DOMAIN columns
    <3>1. ~Readable("spells") => Spells = {}
      BY DEF Spells
    <3>2. "spells" \in Written => Value("spells") # {}
      BY DEF Written, Blobs
    <3>. QED
      BY <3>1, <3>2, WrittenColumns, Values
  <2>2. ~Readable("abilities") => "abilities" \notin DOMAIN columns
    <3>1. ~Readable("abilities") => Abilities = {}
      BY DEF Abilities
    <3>2. "abilities" \in Written => Value("abilities") # {}
      BY DEF Written, Blobs
    <3>. QED
      BY <3>1, <3>2, WrittenColumns, Values
  <2>3. ~WsReadable => "weaponskills" \notin DOMAIN columns
    <3>1. ~WsReadable => WeaponSkills = {}
      BY DEF WeaponSkills
    <3>2. "weaponskills" \in Written => Value("weaponskills") # {}
      BY DEF Written, Blobs
    <3>. QED
      BY <3>1, <3>2, WrittenColumns, Values
  <2>4. ASSUME NEW blob \in Blobs \cap DOMAIN columns
        PROVE  /\ Has("questlog") /\ dump["questlog"].count > 0
               /\ \E b \in dump["questlog"].blocks : Fit(b) /\ blob \in Touched(b)
    <3>1. blob \in DOMAIN Questlog
      BY WrittenColumns DEF Written, Blobs
    <3>2. Has("questlog") /\ dump["questlog"].count > 0
      BY <3>1 DEF Questlog
    <3>3. Questlog = DecodeQuestlog(dump["questlog"].blocks)
      BY <3>2 DEF Questlog
    <3>. QED
      BY <3>1, <3>2, <3>3 DEF DecodeQuestlog
  <2>5. ASSUME "currencies" \in DOMAIN columns
        PROVE  Has("currencies") /\ \E b \in dump["currencies"] : b.whole
    <3>1. Currencies # {}
      BY <2>5, WrittenColumns, Values DEF Written, Blobs
    <3>. QED
      BY <3>1 DEF Currencies, DecodeCurrencies
  <2>6. ASSUME "unlocks" \in DOMAIN columns
        PROVE  Has("teleports")
    <3>1. "unlocks" \in DOMAIN Teleports
      BY <2>6, WrittenColumns DEF Written, Blobs
    <3>. QED
      BY <3>1 DEF Teleports
  <2>7. ASSUME "job points" \in DOMAIN columns, NEW j \in DOMAIN columns["job points"]
        PROVE  LET row == columns["job points"][j] IN
                 /\ SaysPoints(j) \/ \E i \in 0 .. JP_CATEGORIES - 1 : SaysLevel(j, i)
                 /\ SaysPoints(j) \/ row[Cell("points", 0)] = 0
                 /\ \A i \in 0 .. JP_CATEGORIES - 1 : SaysLevel(j, i) \/ row[Cell("level", i)] = 0
    <3>1. columns["job points"] = JobPointRows
      BY <2>7, WrittenColumns, Values DEF Cleared
    <3>. QED
      BY <2>7, <3>1, JobPointsHeard
  <2>8. ASSUME "rank" \in DOMAIN columns
        PROVE  Has("rank") /\ (Has("rank points") \/ columns["rank"].points = 0)
    <3> DEFINE points == IF Has("rank points") THEN dump["rank points"] ELSE 0
    <3>1. columns["rank"] = [rank |-> dump["rank"], points |-> points]
      BY <2>8, WrittenColumns, Values DEF Cleared
    <3>2. Has("rank")
      BY <2>8, WrittenColumns DEF Written, Blobs
    <3>3. Has("rank points") \/ points = 0
      OBVIOUS
    <3>. HIDE DEF points
    <3>4. columns["rank"].points = points
      BY <3>1
    <3>. QED
      BY <3>2, <3>3, <3>4
  <2>. QED
    BY <2>1, <2>2, <2>3, <2>4, <2>5, <2>6, <2>7, <2>8 DEF SilenceErasesNothing
<1>. QED
  BY <1>1, PlanInvAlways, PTL

----------------------------------------------------------------------------
(* Bits in their places.                                                   *)

(* A number in blocks of m: which block, and where in it.                  *)
LEMMA Split ==
  ASSUME NEW n \in Nat, NEW m \in Nat \ {0}
  PROVE  n = (n \div m) * m + (n % m) /\ n \div m \in Nat /\ n % m \in 0 .. m - 1
OBVIOUS

(* And back: a block and a place in it are the number's.                   *)
LEMMA Joined ==
  ASSUME NEW q \in Nat, NEW m \in Nat \ {0}, NEW r \in 0 .. m - 1
  PROVE  (q * m + r) \div m = q /\ (q * m + r) % m = r /\ q * m + r \in Nat
OBVIOUS

(* Two places are one only when both block and index are.                  *)
LEMMA OnePlace ==
  ASSUME NEW q \in Nat, NEW p \in Nat, NEW m \in Nat \ {0},
         NEW r \in 0 .. m - 1, NEW s \in 0 .. m - 1, q * m + r = p * m + s
  PROVE  p = q /\ r = s
OBVIOUS

(* Read as LSB reads them, the key items of a blob are those it was made   *)
(* of, and none is seen.                                                   *)
LEMMA KeyItemsInPlace ==
  ASSUME NEW ids \in SUBSET Int, NEW t \in 0 .. KEYITEM_TABLES - 1,
         NEW i \in 0 .. KEYITEM_BITS_PER_TABLE - 1
  PROVE  /\ HasKeyItem(KeyitemBlob(ids), t, i) <=> t * KEYITEM_BITS_PER_TABLE + i \in ids
         /\ ~SeenKeyItem(KeyitemBlob(ids), t, i)
<1> DEFINE B == KEYITEM_BITS_PER_TABLE
           W == KEYITEM_TABLE_BITS
           T == KEYITEM_TABLES
           bit(k) == (k \div B) * W + (k % B)
<1>a. /\ B \in Nat \ {0} /\ W \in Nat \ {0} /\ T \in Nat /\ B <= W /\ 2 * B <= W
      /\ t \in Nat /\ t <= T - 1 /\ i \in Nat /\ i < B
  BY DecodersAssumption
<1>b. KeyitemBlob(ids) = {bit(k) : k \in {n \in ids : 0 <= n /\ n < T * B}}
  BY DEF KeyitemBlob, KEYITEM_MAX
<1>1. ASSUME NEW k \in ids, 0 <= k, k < T * B
      PROVE  k \in Nat /\ k = (k \div B) * B + (k % B) /\ k \div B \in Nat /\ k % B \in 0 .. B - 1
  <2>1. k \in Nat /\ B \in Nat \ {0}
    BY <1>a, <1>1
  <2>. HIDE DEF B, T
  <2>. QED
    BY <2>1, Split
<1>2. ASSUME t * B + i \in ids
      PROVE  t * W + i \in KeyitemBlob(ids)
  <2>1. (t * B + i) \div B = t /\ (t * B + i) % B = i /\ t * B + i \in Nat
    BY <1>a, Joined
  <2>2. t * B + i < T * B
    <3>1. t * B <= (T - 1) * B
      BY <1>a
    <3>2. (T - 1) * B = T * B - B /\ t * B \in Int /\ T * B \in Int
      BY <1>a
    <3>. QED
      BY <1>a, <3>1, <3>2
  <2>3. bit(t * B + i) = t * W + i
    BY <2>1
  <2>. HIDE DEF B, W, T, bit
  <2>. QED
    BY <1>a, <1>b, <1>2, <2>1, <2>2, <2>3
<1>3. ASSUME NEW k \in ids, 0 <= k, k < T * B, bit(k) = t * W + i
      PROVE  t * B + i \in ids
  <2>1. k \div B \in Nat /\ k % B \in 0 .. W - 1 /\ i \in 0 .. W - 1
    BY <1>a, <1>1, <1>3
  <2>2. k \div B = t /\ k % B = i
    <3> DEFINE q == k \div B
               r == k % B
    <3>1. q * W + r = t * W + i /\ q \in Nat /\ r \in 0 .. W - 1
      BY <1>3, <2>1
    <3>. HIDE DEF q, r, W
    <3>2. t = q /\ r = i
      BY <1>a, <2>1, <3>1, OnePlace
    <3>. QED
      BY <3>2 DEF q, r
  <2>. QED
    BY <1>1, <1>3, <2>2
<1>4. ASSUME NEW k \in ids, 0 <= k, k < T * B, bit(k) = t * W + (B + i)
      PROVE  FALSE
  <2>1. k \div B \in Nat /\ k % B \in 0 .. W - 1 /\ k % B < B /\ B + i \in 0 .. W - 1
    BY <1>a, <1>1, <1>4
  <2> DEFINE q == k \div B
             r == k % B
             s == B + i
  <2>2. q * W + r = t * W + s /\ q \in Nat /\ r \in 0 .. W - 1 /\ s \in 0 .. W - 1
    BY <1>4, <2>1
  <2>3. r < B /\ B <= s
    BY <1>a, <2>1
  <2>. HIDE DEF q, r, s, W, B
  <2>4. r = s
    BY <1>a, <2>2, OnePlace
  <2>. QED
    BY <1>a, <2>2, <2>3, <2>4
<1>5. t * W + B + i = t * W + (B + i)
  BY <1>a
<1>. HIDE DEF bit
<1>. QED
  BY <1>b, <1>2, <1>3, <1>4, <1>5 DEF HasKeyItem, SeenKeyItem

(* What LSB sends a flag as is what the decoder takes it from: a block     *)
(* sets the flags whose bit it carries under its port, and no others.      *)
LEMMA PortKinds ==
  ASSUME NEW b \in LogBlock
  PROVE  /\ b.port = Port(b.port.kind, b.port.area)
         /\ \A n \in b.bits : n \in Nat /\ n < 8 * WORD
         /\ b.port.kind \in {"offer", "complete"} => b.port.area \in QuestArea
         /\ b.port.kind \in {"nations", "expansions", "campaign1", "campaign2", "mission"}
              => b.port.area = None
<1>1. b.port \in LogPort /\ b.bits \subseteq 0 .. 8 * WORD - 1 /\ 8 * WORD \in Nat
  BY DecodersAssumption DEF LogBlock
<1>2. \A n \in b.bits : n \in Nat /\ n < 8 * WORD
  BY <1>1
<1>3. \A kind, area : Port(kind, area).kind = kind /\ Port(kind, area).area = area
  BY DEF Port
<1>4. \/ \E kind \in {"offer", "complete"}, area \in QuestArea : b.port = Port(kind, area)
      \/ \E kind \in {"nations", "expansions", "campaign1", "campaign2", "mission"} :
           b.port = Port(kind, None)
  <2> DEFINE quests == {Port(kind, area) : kind \in {"offer", "complete"}, area \in QuestArea}
             others == {Port(kind, None) :
                          kind \in {"nations", "expansions", "campaign1", "campaign2", "mission"}}
  <2>0. LogPort = quests \cup others
    BY DEF LogPort
  <2>2. b.port \in quests =>
          \E kind \in {"offer", "complete"}, area \in QuestArea : b.port = Port(kind, area)
    OBVIOUS
  <2>3. b.port \in others =>
          \E kind \in {"nations", "expansions", "campaign1", "campaign2", "mission"} :
            b.port = Port(kind, None)
    OBVIOUS
  <2>. HIDE DEF quests, others
  <2>1. b.port \in quests \/ b.port \in others
    BY <1>1, <2>0
  <2>. QED
    BY <2>1, <2>2, <2>3
<1>5. CASE \E kind \in {"offer", "complete"}, area \in QuestArea : b.port = Port(kind, area)
  <2>1. PICK kind \in {"offer", "complete"}, area \in QuestArea : b.port = Port(kind, area)
    BY <1>5
  <2>2. b.port.kind = kind /\ b.port.area = area
    BY <1>3, <2>1
  <2>. QED
    BY <1>2, <2>1, <2>2
<1>6. CASE \E kind \in {"nations", "expansions", "campaign1", "campaign2", "mission"} :
             b.port = Port(kind, None)
  <2>1. PICK kind \in {"nations", "expansions", "campaign1", "campaign2", "mission"} :
          b.port = Port(kind, None)
    BY <1>6
  <2>2. b.port.kind = kind /\ b.port.area = None
    BY <1>3, <2>1
  <2>. QED
    BY <1>2, <2>1, <2>2
<1>. QED
  BY <1>4, <1>5, <1>6

(* The parts of a flag.                                                    *)
LEMMA FlagFields ==
  ASSUME NEW blob, NEW part, NEW half, NEW n
  PROVE  /\ Flag(blob, part, half, n).blob = blob /\ Flag(blob, part, half, n).part = part
         /\ Flag(blob, part, half, n).half = half /\ Flag(blob, part, half, n).n = n
BY DEF Flag

(* The logs of the nations packet are four, all different, and none is     *)
(* one of the expansions'.                                                 *)
LEMMA Nations ==
  ASSUME NEW log \in 0 .. 3
  PROVE  /\ NationLog[1 + log] \notin {"ToAU", "WoTG"}
         /\ \A l \in 0 .. 3 : NationLog[1 + l] = NationLog[1 + log] => l = log
BY DEF NationLog

(* A bit of a mission packet, by word and by log.                          *)
LEMMA MissionBit ==
  ASSUME NEW log \in Nat, NEW m \in 0 .. 2 * WORD - 1
  PROVE  (log * 2 + (m \div WORD)) * WORD + (m % WORD) = log * (2 * WORD) + m
<1>1. WORD \in Nat \ {0} /\ m \in Nat
  BY DecodersAssumption
<1>2. m = (m \div WORD) * WORD + (m % WORD) /\ m \div WORD \in Nat
      /\ m % WORD \in 0 .. WORD - 1
  BY <1>1, Split
<1> DEFINE q == m \div WORD
           r == m % WORD
<1>3. m = q * WORD + r /\ q \in Nat /\ r \in Nat
  BY <1>1, <1>2
<1>. HIDE DEF q, r
<1>4. (log * 2 + q) * WORD + r = log * (2 * WORD) + m
  BY <1>1, <1>3
<1>. QED
  BY <1>4 DEF q, r

(* Where each kind of flag is on the wire.                                 *)
LEMMA QuestOnWire ==
  ASSUME NEW a, NEW half, NEW n
  PROVE  LET f == Flag("quests", a, half, n)
         IN  /\ OnWire(f).bit = n
             /\ OnWire(f).port = IF a = AhtUrghan /\ n >= 4 * WORD THEN Port(None, None)
                                 ELSE Port(IF half = "current" THEN "offer" ELSE "complete", a)
<1> DEFINE f == Flag("quests", a, half, n)
<1>1. f.blob = "quests" /\ f.part = a /\ f.half = half /\ f.n = n
  BY FlagFields
<1>. HIDE DEF f
<1>2. OnWire(f) = [port |-> IF f.part = AhtUrghan /\ f.n >= 4 * WORD THEN Port(None, None)
                            ELSE Port(IF f.half = "current" THEN "offer" ELSE "complete", f.part),
                   bit |-> f.n]
  BY <1>1 DEF OnWire
<1>. QED
  BY <1>1, <1>2 DEF f

(* Assault's flags follow Aht Urghan's completed quests.                   *)
LEMMA AssaultOnWire ==
  ASSUME NEW n \in Nat
  PROVE  LET f == Flag("assault", None, "complete", n)
         IN  OnWire(f).bit = 4 * WORD + n /\ OnWire(f).port = Port("complete", AhtUrghan)
<1> DEFINE f == Flag("assault", None, "complete", n)
<1>1. /\ OnWire(f).bit = (4 + (n \div WORD)) * WORD + (n % WORD)
      /\ OnWire(f).port = Port("complete", AhtUrghan)
  <2>1. f.blob = "assault" /\ f.n = n
    BY FlagFields
  <2>. HIDE DEF f
  <2>. QED
    BY <2>1 DEF OnWire
<1>2. n = (n \div WORD) * WORD + (n % WORD) /\ n \div WORD \in Nat /\ WORD \in Nat
      /\ n % WORD \in Nat
  BY DecodersAssumption, Split
<1> DEFINE q == n \div WORD
           r == n % WORD
<1>3. n = q * WORD + r /\ q \in Nat /\ r \in Nat
  BY <1>2
<1>4. OnWire(f).bit = (4 + q) * WORD + r
  BY <1>1
<1>. HIDE DEF q, r, f
<1>5. (4 + q) * WORD + r = 4 * WORD + n
  BY <1>2, <1>3
<1>. QED
  BY <1>1, <1>4, <1>5 DEF f

(* Campaign's take two packets.                                            *)
LEMMA CampaignOnWire ==
  ASSUME NEW n \in 0 .. 8 * WORD - 1
  PROVE  /\ OnWire(Flag("campaign", None, "complete", n)) =
              [port |-> Port("campaign1", None), bit |-> n]
         /\ OnWire(Flag("campaign", None, "complete", 8 * WORD + n)) =
              [port |-> Port("campaign2", None), bit |-> n]
<1>1. 8 * WORD \in Nat \ {0} /\ n \in Nat /\ n < 8 * WORD
  BY DecodersAssumption
<1> DEFINE size == 8 * WORD
<1>2. n % size = n /\ (size + n) % size = n
  <2>1. (0 * size + n) % size = n /\ (1 * size + n) % size = n
    <3>1. size \in Nat \ {0} /\ n \in 0 .. size - 1 /\ 0 \in Nat /\ 1 \in Nat
      BY <1>1
    <3>. HIDE DEF size
    <3>. QED
      BY <3>1, Joined
  <2>2. size \in Nat /\ n \in Nat
    BY <1>1
  <2>. HIDE DEF size
  <2>3. 0 * size + n = n /\ 1 * size + n = size + n
    BY <2>2
  <2>. QED
    BY <2>1, <2>3
<1>3. ASSUME NEW k
      PROVE  OnWire(Flag("campaign", None, "complete", k)) =
               [port |-> Port(IF k < 8 * WORD THEN "campaign1" ELSE "campaign2", None),
                bit |-> k % (8 * WORD)]
  <2> DEFINE f == Flag("campaign", None, "complete", k)
  <2>1. f.blob = "campaign" /\ f.n = k
    BY FlagFields
  <2>. HIDE DEF f
  <2>2. OnWire(f) = [port |-> Port(IF f.n < 8 * WORD THEN "campaign1" ELSE "campaign2", None),
                     bit |-> f.n % (8 * WORD)]
    BY <2>1 DEF OnWire
  <2>. QED
    BY <2>1, <2>2 DEF f
<1>4. n < 8 * WORD /\ ~ (8 * WORD + n < 8 * WORD)
  BY <1>1
<1>. QED
  BY <1>2, <1>3, <1>4

(* The nations' and Zilart's missions share one.                           *)
LEMMA NationOnWire ==
  ASSUME NEW log \in 0 .. 3, NEW m \in 0 .. 2 * WORD - 1
  PROVE  OnWire(Mission(NationLog[1 + log], m)) =
           [port |-> Port("nations", None), bit |-> log * (2 * WORD) + m]
<1> DEFINE f == Mission(NationLog[1 + log], m)
<1>1. f.blob = "missions" /\ f.part = NationLog[1 + log] /\ f.n = m
  BY FlagFields DEF Mission
<1>2. (CHOOSE l \in 0 .. 3 : NationLog[1 + l] = f.part) = log
  BY <1>1, Nations
<1>. HIDE DEF f
<1>3. OnWire(f) = [port |-> Port("nations", None),
                   bit |-> (log * 2 + (f.n \div WORD)) * WORD + (f.n % WORD)]
  BY <1>1, <1>2 DEF OnWire
<1>4. log \in Nat
  OBVIOUS
<1>. QED
  BY <1>1, <1>3, <1>4, MissionBit DEF f

(* And so do those of ToAU and WoTG.                                       *)
LEMMA ExpansionOnWire ==
  ASSUME NEW part \in {"ToAU", "WoTG"}, NEW m
  PROVE  OnWire(Mission(part, m)) =
           [port |-> Port("expansions", None),
            bit |-> (IF part = "ToAU" THEN 0 ELSE 2 * WORD) + m]
<1> DEFINE f == Mission(part, m)
<1>1. f.blob = "missions" /\ f.part = part /\ f.n = m
  BY FlagFields DEF Mission
<1>2. ~ \E log \in 0 .. 3 : NationLog[1 + log] = f.part
  BY <1>1, Nations
<1>. HIDE DEF f
<1>. QED
  BY <1>1, <1>2 DEF OnWire, f

(* What a block sets, by its kind.                                         *)
LEMMA OfferFlags ==
  ASSUME NEW b, b.port.kind = "offer", NEW f
  PROVE  f \in Flags(b) <=> \E n \in b.bits : /\ b.port.area = AhtUrghan => n < 4 * WORD
                                             /\ f = Flag("quests", b.port.area, "current", n)
<1>1. Flags(b) = {Flag("quests", b.port.area, "current", n) :
                    n \in {m \in b.bits : b.port.area = AhtUrghan => m < 4 * WORD}}
  BY DEF Flags
<1>. QED
  BY <1>1

(* A packet of completed quests.                                           *)
LEMMA CompleteFlags ==
  ASSUME NEW b, b.port.kind = "complete", NEW f
  PROVE  f \in Flags(b) <=>
           \E n \in b.bits : f = IF b.port.area = AhtUrghan /\ n >= 4 * WORD
                                  THEN Flag("assault", None, "complete", n - 4 * WORD)
                                  ELSE Flag("quests", b.port.area, "complete", n)
<1>1. Flags(b) = {IF b.port.area = AhtUrghan /\ n >= 4 * WORD
                    THEN Flag("assault", None, "complete", n - 4 * WORD)
                    ELSE Flag("quests", b.port.area, "complete", n) : n \in b.bits}
  BY DEF Flags
<1>. QED
  BY <1>1

(* The packet of the nations.                                              *)
LEMMA NationFlags ==
  ASSUME NEW b, b.port.kind = "nations", NEW f
  PROVE  f \in Flags(b) <=>
           \E n \in b.bits : f = Mission(NationLog[1 + (n \div (2 * WORD))], n % (2 * WORD))
<1>1. Flags(b) = {Mission(NationLog[1 + (n \div (2 * WORD))], n % (2 * WORD)) : n \in b.bits}
  BY DEF Flags
<1>. QED
  BY <1>1

(* The packet of ToAU and WoTG.                                            *)
LEMMA ExpansionFlags ==
  ASSUME NEW b, b.port.kind = "expansions", NEW f
  PROVE  f \in Flags(b) <=>
           \E n \in b.bits : /\ n < 4 * WORD
                            /\ f = Mission(IF n < 2 * WORD THEN "ToAU" ELSE "WoTG",
                                           n % (2 * WORD))
<1>1. Flags(b) = {Mission(IF n < 2 * WORD THEN "ToAU" ELSE "WoTG", n % (2 * WORD)) :
                    n \in {m \in b.bits : m < 4 * WORD}}
  BY DEF Flags
<1>. QED
  BY <1>1

(* Campaign's two packets.                                                 *)
LEMMA CampaignFlags ==
  ASSUME NEW b, b.port.kind \in {"campaign1", "campaign2"}, NEW f
  PROVE  f \in Flags(b) <=>
           \E n \in b.bits : f = Flag("campaign", None, "complete",
                                     IF b.port.kind = "campaign1" THEN n ELSE 8 * WORD + n)
<1>1. b.port.kind = "campaign1" =>
        Flags(b) = {Flag("campaign", None, "complete", n) : n \in b.bits}
  BY DEF Flags
<1>2. b.port.kind = "campaign2" =>
        Flags(b) = {Flag("campaign", None, "complete", 8 * WORD + n) : n \in b.bits}
  BY DEF Flags
<1>. QED
  BY <1>1, <1>2

(* The packet of current missions, which sets no flag.                     *)
LEMMA OtherFlags ==
  ASSUME NEW b, b.port.kind \notin {"offer", "complete", "nations", "expansions", "campaign1",
                                   "campaign2"}
  PROVE  Flags(b) = {}
BY DEF Flags

(* A flag a block sets is one LSB sends under the block's port, at a bit   *)
(* the block carries.                                                      *)
LEMMA FlagsOnWire ==
  ASSUME NEW b \in LogBlock, NEW f \in Flags(b)
  PROVE  b.port = OnWire(f).port /\ OnWire(f).bit \in b.bits
<1>a. WORD \in Nat /\ 0 < WORD /\ 2 * WORD \in Nat \ {0} /\ 4 * WORD = 2 * (2 * WORD)
      /\ 8 * WORD = 4 * (2 * WORD)
  BY DecodersAssumption
<1>b. b.port = Port(b.port.kind, b.port.area)
  BY PortKinds
<1>c. \A n \in b.bits : n \in Nat /\ n < 8 * WORD
  BY PortKinds
<1>d. b.port.kind \in {"nations", "expansions", "campaign1", "campaign2"} => b.port.area = None
  BY PortKinds
<1>1. CASE b.port.kind = "offer"
  <2>1. PICK n \in b.bits : /\ b.port.area = AhtUrghan => n < 4 * WORD
                           /\ f = Flag("quests", b.port.area, "current", n)
    BY <1>1, OfferFlags
  <2>2. ~ (b.port.area = AhtUrghan /\ n >= 4 * WORD)
    BY <1>a, <1>c, <2>1
  <2>3. OnWire(f).bit = n /\ OnWire(f).port = Port("offer", b.port.area)
    BY <2>1, <2>2, QuestOnWire
  <2>. QED
    BY <1>1, <1>b, <2>3
<1>2. CASE b.port.kind = "complete"
  <2>1. PICK n \in b.bits : f = IF b.port.area = AhtUrghan /\ n >= 4 * WORD
                                THEN Flag("assault", None, "complete", n - 4 * WORD)
                                ELSE Flag("quests", b.port.area, "complete", n)
    BY <1>2, CompleteFlags
  <2>2. CASE b.port.area = AhtUrghan /\ n >= 4 * WORD
    <3>1. n - 4 * WORD \in Nat /\ 4 * WORD + (n - 4 * WORD) = n
      BY <1>a, <1>c, <2>2
    <3>2. f = Flag("assault", None, "complete", n - 4 * WORD)
      BY <2>1, <2>2
    <3>3. OnWire(f).bit = n /\ OnWire(f).port = Port("complete", AhtUrghan)
      BY <3>1, <3>2, AssaultOnWire
    <3>. QED
      BY <1>2, <1>b, <2>2, <3>3
  <2>3. CASE ~ (b.port.area = AhtUrghan /\ n >= 4 * WORD)
    <3>1. f = Flag("quests", b.port.area, "complete", n)
      BY <2>1, <2>3
    <3>2. OnWire(f).bit = n /\ OnWire(f).port = Port("complete", b.port.area)
      BY <2>3, <3>1, QuestOnWire
    <3>. QED
      BY <1>2, <1>b, <3>2
  <2>. QED
    BY <2>2, <2>3
<1>3. CASE b.port.kind = "nations"
  <2>1. PICK n \in b.bits : f = Mission(NationLog[1 + (n \div (2 * WORD))], n % (2 * WORD))
    BY <1>3, NationFlags
  <2> DEFINE size == 2 * WORD
             log == n \div size
             m == n % size
  <2>2. /\ n \in Nat /\ n < 4 * size /\ size \in Nat \ {0}
    BY <1>a, <1>c
  <2>3. n = log * size + m /\ log \in Nat /\ m \in 0 .. size - 1
    <3>. HIDE DEF size
    <3>. QED
      BY <2>2, Split
  <2>4. log \in 0 .. 3
    <3>. HIDE DEF log, m, size
    <3>1. log * size < 4 * size
      BY <2>2, <2>3
    <3>2. ~ (log >= 4)
      BY <2>2, <2>3, <3>1
    <3>. QED
      BY <2>3, <3>2
  <2>5. f = Mission(NationLog[1 + log], m)
    BY <2>1
  <2>. HIDE DEF log, m
  <2>6. OnWire(f) = [port |-> Port("nations", None), bit |-> log * size + m]
    BY <2>3, <2>4, <2>5, NationOnWire
  <2>. QED
    BY <1>3, <1>b, <1>d, <2>3, <2>6
<1>4. CASE b.port.kind = "expansions"
  <2>1. PICK n \in b.bits : /\ f = Mission(IF n < 2 * WORD THEN "ToAU" ELSE "WoTG", n % (2 * WORD))
                           /\ n < 4 * WORD
    BY <1>4, ExpansionFlags
  <2> DEFINE size == 2 * WORD
             part == IF n < size THEN "ToAU" ELSE "WoTG"
             m == n % size
  <2>2. n \in Nat /\ n < size + size /\ size \in Nat \ {0}
    BY <1>a, <1>c, <2>1
  <2>3. (IF part = "ToAU" THEN 0 ELSE size) + m = n
    <3>1. CASE n < size
      <4>1. m = n
        <5>. HIDE DEF size
        <5>1. n \in 0 .. size - 1 /\ 0 * size + n = n
          BY <2>2, <3>1
        <5>. QED
          BY <2>2, <5>1, Joined
      <4>. QED
        BY <2>2, <3>1, <4>1
    <3>2. CASE ~ (n < size)
      <4>1. m = n - size
        <5>. HIDE DEF size
        <5> DEFINE r == n - size
        <5>1. r \in 0 .. size - 1 /\ 1 * size + r = n
          BY <2>2, <3>2
        <5>. HIDE DEF r
        <5>2. (1 * size + r) % size = r
          BY <2>2, <5>1, Joined
        <5>. QED
          BY <5>1, <5>2 DEF r
      <4>. QED
        BY <2>2, <3>2, <4>1
    <3>. QED
      BY <3>1, <3>2
  <2>4. f = Mission(part, m) /\ part \in {"ToAU", "WoTG"}
    BY <2>1
  <2>. HIDE DEF part, m
  <2>5. OnWire(f) = [port |-> Port("expansions", None), bit |-> n]
    BY <2>3, <2>4, ExpansionOnWire
  <2>6. OnWire(f).port = Port("expansions", None) /\ OnWire(f).bit = n
    BY <2>5
  <2>7. b.port.area = None
    BY <1>4, <1>d
  <2>8. b.port = Port("expansions", None)
    BY <1>4, <1>b, <2>7
  <2>. QED
    BY <2>1, <2>6, <2>8
<1>5. CASE b.port.kind \in {"campaign1", "campaign2"}
  <2>1. PICK n \in b.bits : f = Flag("campaign", None, "complete",
                                    IF b.port.kind = "campaign1" THEN n ELSE 8 * WORD + n)
    BY <1>5, CampaignFlags
  <2>2. n \in 0 .. 8 * WORD - 1
    BY <1>a, <1>c
  <2>3. OnWire(f) = [port |-> Port(b.port.kind, None), bit |-> n]
    BY <1>5, <2>1, <2>2, CampaignOnWire
  <2>4. OnWire(f).port = Port(b.port.kind, None) /\ OnWire(f).bit = n
    BY <2>3
  <2>5. b.port.area = None
    BY <1>5, <1>d
  <2>6. b.port = Port(b.port.kind, None)
    BY <1>b, <2>5
  <2>. QED
    BY <2>1, <2>4, <2>6
<1>. QED
  BY <1>1, <1>2, <1>3, <1>4, <1>5, OtherFlags

(* The flags there are, one kind at a time.                                *)
LEMMA LogFlagKinds ==
  ASSUME NEW f \in LogFlags
  PROVE  \/ \E a \in QuestArea, half \in {"current", "complete"}, n \in 0 .. 8 * WORD - 1 :
              f = Flag("quests", a, half, n)
         \/ \E n \in 0 .. 4 * WORD - 1 : f = Flag("assault", None, "complete", n)
         \/ \E n \in 0 .. 16 * WORD - 1 : f = Flag("campaign", None, "complete", n)
         \/ \E log \in 1 .. 4, n \in 0 .. 2 * WORD - 1 : f = Mission(NationLog[log], n)
         \/ \E log \in {"ToAU", "WoTG"}, n \in 0 .. 2 * WORD - 1 : f = Mission(log, n)
<1> DEFINE quests == {Flag("quests", a, half, n) :
                        a \in QuestArea, half \in {"current", "complete"},
                        n \in 0 .. 8 * WORD - 1}
           assault == {Flag("assault", None, "complete", n) : n \in 0 .. 4 * WORD - 1}
           campaign == {Flag("campaign", None, "complete", n) : n \in 0 .. 16 * WORD - 1}
           nations == {Mission(NationLog[log], n) : log \in 1 .. 4, n \in 0 .. 2 * WORD - 1}
           expansions == {Mission(log, n) : log \in {"ToAU", "WoTG"}, n \in 0 .. 2 * WORD - 1}
<1>0. LogFlags = quests \cup assault \cup campaign \cup nations \cup expansions
  BY DEF LogFlags
<1>1. f \in quests => \E a \in QuestArea, half \in {"current", "complete"},
                        n \in 0 .. 8 * WORD - 1 : f = Flag("quests", a, half, n)
  OBVIOUS
<1>2. f \in assault => \E n \in 0 .. 4 * WORD - 1 : f = Flag("assault", None, "complete", n)
  OBVIOUS
<1>3. f \in campaign => \E n \in 0 .. 16 * WORD - 1 : f = Flag("campaign", None, "complete", n)
  OBVIOUS
<1>4. f \in nations =>
        \E log \in 1 .. 4, n \in 0 .. 2 * WORD - 1 : f = Mission(NationLog[log], n)
  OBVIOUS
<1>5. f \in expansions =>
        \E log \in {"ToAU", "WoTG"}, n \in 0 .. 2 * WORD - 1 : f = Mission(log, n)
  OBVIOUS
<1>. HIDE DEF quests, assault, campaign, nations, expansions
<1>6. f \in quests \/ f \in assault \/ f \in campaign \/ f \in nations \/ f \in expansions
  BY <1>0
<1>. QED
  BY <1>1, <1>2, <1>3, <1>4, <1>5, <1>6

(* A flag whose bit a block carries under the flag's port is one the block *)
(* sets: none is decoded into another's place, or dropped.                 *)
LEMMA WireFlags ==
  ASSUME NEW b \in LogBlock, NEW f \in LogFlags,
         b.port = OnWire(f).port, OnWire(f).bit \in b.bits
  PROVE  f \in Flags(b)
<1>a. WORD \in Nat /\ 0 < WORD /\ 2 * WORD \in Nat \ {0} /\ 4 * WORD = 2 * (2 * WORD)
      /\ 8 * WORD \in Nat /\ 4 * WORD \in Nat
  BY DecodersAssumption
<1>b. \A kind, area : Port(kind, area).kind = kind /\ Port(kind, area).area = area
  BY DEF Port
<1>c. b.port.kind \in {"offer", "complete", "nations", "expansions", "campaign1", "campaign2",
                       "mission"}
  BY <1>b DEF LogBlock, LogPort
<1>1. ASSUME NEW a \in QuestArea, NEW half \in {"current", "complete"},
             NEW n \in 0 .. 8 * WORD - 1, f = Flag("quests", a, half, n)
      PROVE  f \in Flags(b)
  <2>1. /\ OnWire(f).bit = n
        /\ OnWire(f).port = IF a = AhtUrghan /\ n >= 4 * WORD THEN Port(None, None)
                            ELSE Port(IF half = "current" THEN "offer" ELSE "complete", a)
    BY <1>1, QuestOnWire
  <2>2. n \in b.bits
    BY <2>1
  <2>3. ~ (a = AhtUrghan /\ n >= 4 * WORD)
    <3>. SUFFICES ASSUME a = AhtUrghan /\ n >= 4 * WORD PROVE FALSE
      OBVIOUS
    <3>1. b.port = Port(None, None)
      BY <2>1
    <3>2. b.port.kind = "none"
      BY <1>b, <3>1 DEF None
    <3>. QED
      BY <1>c, <3>2
  <2>4. n \in Nat /\ (a = AhtUrghan => n < 4 * WORD)
    BY <1>a, <2>3
  <2>5. b.port = Port(IF half = "current" THEN "offer" ELSE "complete", a)
    BY <2>1, <2>3
  <2>6. b.port.kind = (IF half = "current" THEN "offer" ELSE "complete") /\ b.port.area = a
    BY <1>b, <2>5
  <2>7. CASE half = "current"
    <3>1. b.port.kind = "offer"
      BY <2>6, <2>7
    <3>. QED
      BY <1>1, <2>2, <2>4, <2>6, <2>7, <3>1, OfferFlags
  <2>8. CASE half = "complete"
    <3>1. b.port.kind = "complete"
      BY <2>6, <2>8
    <3>. QED
      BY <1>1, <2>2, <2>3, <2>6, <2>8, <3>1, CompleteFlags
  <2>. QED
    BY <2>7, <2>8
<1>2. ASSUME NEW n \in 0 .. 4 * WORD - 1, f = Flag("assault", None, "complete", n)
      PROVE  f \in Flags(b)
  <2> DEFINE k == 4 * WORD + n
  <2>1. n \in Nat /\ k \in Nat /\ k >= 4 * WORD /\ k - 4 * WORD = n
    BY <1>a
  <2>2. OnWire(f).bit = k /\ OnWire(f).port = Port("complete", AhtUrghan)
    BY <1>2, <2>1, AssaultOnWire
  <2>3. k \in b.bits /\ b.port.kind = "complete" /\ b.port.area = AhtUrghan
    BY <1>b, <2>2
  <2>4. f = Flag("assault", None, "complete", k - 4 * WORD)
    BY <1>2, <2>1
  <2>. HIDE DEF k
  <2>. QED
    BY <2>1, <2>3, <2>4, CompleteFlags
<1>3. ASSUME NEW n \in 0 .. 16 * WORD - 1, f = Flag("campaign", None, "complete", n)
      PROVE  f \in Flags(b)
  <2>1. CASE n < 8 * WORD
    <3>1. n \in 0 .. 8 * WORD - 1
      BY <1>a, <2>1
    <3>2. OnWire(f) = [port |-> Port("campaign1", None), bit |-> n]
      BY <1>3, <3>1, CampaignOnWire
    <3>3. OnWire(f).port = Port("campaign1", None) /\ OnWire(f).bit = n
      BY <3>2
    <3>4. n \in b.bits /\ b.port.kind = "campaign1"
      BY <1>b, <3>3
    <3>. QED
      BY <1>3, <3>4, CampaignFlags
  <2>2. CASE ~ (n < 8 * WORD)
    <3> DEFINE k == n - 8 * WORD
    <3>1. k \in 0 .. 8 * WORD - 1 /\ n = 8 * WORD + k
      BY <1>a, <2>2
    <3>. HIDE DEF k
    <3>2. f = Flag("campaign", None, "complete", 8 * WORD + k)
      BY <1>3, <3>1
    <3>3. OnWire(f) = [port |-> Port("campaign2", None), bit |-> k]
      BY <3>1, <3>2, CampaignOnWire
    <3>4. OnWire(f).port = Port("campaign2", None) /\ OnWire(f).bit = k
      BY <3>3
    <3>5. k \in b.bits /\ b.port.kind = "campaign2"
      BY <1>b, <3>4
    <3>. QED
      BY <3>2, <3>5, CampaignFlags
  <2>. QED
    BY <2>1, <2>2
<1>4. ASSUME NEW log \in 1 .. 4, NEW m \in 0 .. 2 * WORD - 1, f = Mission(NationLog[log], m)
      PROVE  f \in Flags(b)
  <2> DEFINE l == log - 1
             size == 2 * WORD
             n == l * size + m
  <2>1. l \in 0 .. 3 /\ 1 + l = log /\ l \in Nat
    OBVIOUS
  <2>2. size \in Nat \ {0} /\ m \in 0 .. size - 1
    BY <1>a
  <2>3. n \div size = l /\ n % size = m
    <3>. HIDE DEF l, size
    <3>. QED
      BY <2>1, <2>2, Joined
  <2>4. f = Mission(NationLog[1 + l], m)
    BY <1>4, <2>1
  <2>. HIDE DEF l
  <2>5. OnWire(f) = [port |-> Port("nations", None), bit |-> n]
    BY <2>1, <2>4, NationOnWire
  <2>6. f = Mission(NationLog[1 + (n \div (2 * WORD))], n % (2 * WORD))
    BY <2>3, <2>4
  <2>. HIDE DEF n, size
  <2>7. OnWire(f).port = Port("nations", None) /\ OnWire(f).bit = n
    BY <2>5
  <2>8. n \in b.bits /\ b.port.kind = "nations"
    BY <1>b, <2>7
  <2>. QED
    BY <2>6, <2>8, NationFlags
<1>5. ASSUME NEW part \in {"ToAU", "WoTG"}, NEW m \in 0 .. 2 * WORD - 1, f = Mission(part, m)
      PROVE  f \in Flags(b)
  <2> DEFINE size == 2 * WORD
             q == IF part = "ToAU" THEN 0 ELSE 1
             n == (IF part = "ToAU" THEN 0 ELSE size) + m
  <2>1. size \in Nat \ {0} /\ m \in 0 .. size - 1 /\ 4 * WORD = size + size
    BY <1>a
  <2>2. q \in Nat /\ n = q * size + m
    BY <2>1
  <2>3. n % size = m
    <3>. HIDE DEF q, n, size
    <3>. QED
      BY <2>1, <2>2, Joined
  <2>4. /\ n < 4 * WORD
        /\ (IF n < 2 * WORD THEN "ToAU" ELSE "WoTG") = part
    <3>1. CASE part = "ToAU"
      BY <2>1, <3>1
    <3>2. CASE part = "WoTG"
      BY <2>1, <3>2
    <3>. QED
      BY <3>1, <3>2
  <2>5. OnWire(f) = [port |-> Port("expansions", None), bit |-> n]
    BY <1>5, ExpansionOnWire
  <2>6. f = Mission(IF n < 2 * WORD THEN "ToAU" ELSE "WoTG", n % (2 * WORD))
    BY <1>5, <2>3, <2>4
  <2>. HIDE DEF n, size, q
  <2>7. OnWire(f).port = Port("expansions", None) /\ OnWire(f).bit = n
    BY <2>5
  <2>8. n \in b.bits /\ b.port.kind = "expansions"
    BY <1>b, <2>7
  <2>. QED
    BY <2>4, <2>6, <2>8, ExpansionFlags
<1>. QED
  BY <1>1, <1>2, <1>3, <1>4, <1>5, LogFlagKinds

(* Read back the way LSB reads them, the key items are the dump's, and the *)
(* flags those a packet of the dump carries, each in its own place.        *)
THEOREM PlanFlags == PlanSpec => []FlagsInPlace
<1>1. PlanInv => FlagsInPlace
  <2>. SUFFICES ASSUME PlanInv PROVE FlagsInPlace
    OBVIOUS
  <2>a. DumpOK(dump)
    BY PlanAssumption DEF PlanInv
  <2>1. ASSUME "keyitems" \in DOMAIN columns,
               NEW t \in 0 .. KEYITEM_TABLES - 1, NEW i \in 0 .. KEYITEM_BITS_PER_TABLE - 1
        PROVE  /\ HasKeyItem(columns["keyitems"], t, i)
                    <=> t * KEYITEM_BITS_PER_TABLE + i \in dump["key_items"]
               /\ ~SeenKeyItem(columns["keyitems"], t, i)
    <3>1. Ids("key_items") # {}
      BY <2>1, WrittenColumns DEF Written, Blobs
    <3>2. Ids("key_items") = dump["key_items"] /\ dump["key_items"] \in SUBSET Int
      BY <2>a, <3>1 DEF Ids, Has, DumpOK
    <3>3. columns["keyitems"] = KeyitemBlob(dump["key_items"])
      BY <2>1, <3>2, WrittenColumns, Values DEF Cleared
    <3>. QED
      BY <3>2, <3>3, KeyItemsInPlace
  <2>2. ASSUME NEW blob \in Blobs \cap DOMAIN columns
        PROVE  /\ \A f \in columns[blob].flags :
                    \E b \in dump["questlog"].blocks :
                      Fit(b) /\ b.port = OnWire(f).port /\ OnWire(f).bit \in b.bits
               /\ \A b \in dump["questlog"].blocks, f \in LogFlags :
                    Fit(b) /\ f.blob = blob /\ b.port = OnWire(f).port /\ OnWire(f).bit \in b.bits
                      => f \in columns[blob].flags
    <3> DEFINE blocks == dump["questlog"].blocks
               fit == {b \in blocks : Fit(b)}
               flags == {f \in UNION {Flags(b) : b \in fit} : f.blob = blob}
    <3>1. blob \in DOMAIN Questlog /\ columns[blob] = Questlog[blob]
      <4>1. blob \in DOMAIN Questlog
        BY WrittenColumns DEF Written, Blobs
      <4>2. blob \notin Cleared
        BY DEF Blobs, Cleared
      <4>. QED
        BY <4>1, <4>2, WrittenColumns, Values
    <3>2. Has("questlog") /\ Questlog = DecodeQuestlog(blocks)
      BY <3>1 DEF Questlog
    <3>3. columns[blob].flags = flags
      BY <3>1, <3>2 DEF DecodeQuestlog
    <3>4. blocks \subseteq LogBlock
      BY <2>a, <3>2 DEF DumpOK, Has
    <3>5. ASSUME NEW f \in columns[blob].flags
          PROVE  \E b \in blocks : Fit(b) /\ b.port = OnWire(f).port /\ OnWire(f).bit \in b.bits
      <4>1. PICK b \in fit : f \in Flags(b)
        BY <3>3, <3>5
      <4>. QED
        BY <3>4, <4>1, FlagsOnWire
    <3>6. ASSUME NEW b \in blocks, NEW f \in LogFlags,
                 Fit(b), f.blob = blob, b.port = OnWire(f).port, OnWire(f).bit \in b.bits
          PROVE  f \in columns[blob].flags
      <4>1. f \in Flags(b)
        BY <3>4, <3>6, WireFlags
      <4>. QED
        BY <3>3, <3>6, <4>1
    <3>. QED
      BY <3>5, <3>6
  <2>. QED
    BY <2>1, <2>2 DEF FlagsInPlace
<1>. QED
  BY <1>1, PlanInvAlways, PTL

----------------------------------------------------------------------------
(* Sizes.                                                                  *)

(* A finite set of numbers has a largest: the one with the fewest above it. *)
LEMMA LargestExists ==
  ASSUME NEW S \in SUBSET Int, S # {}, IsFiniteSet(S)
  PROVE  Largest(S) \in S /\ \A k \in S : k <= Largest(S)
<1> DEFINE Above(n) == {k \in S : n < k}
           counts == {Cardinality(Above(n)) : n \in S}
           R == OpToRel(<, Nat)
<1>1. ASSUME NEW n \in S PROVE IsFiniteSet(Above(n)) /\ Cardinality(Above(n)) \in Nat
  <2>1. Above(n) \in SUBSET S
    OBVIOUS
  <2>. HIDE DEF Above
  <2>2. IsFiniteSet(Above(n))
    BY <2>1, FS_Subset
  <2>. QED
    BY <2>2, FS_CardinalityType
<1>2. PICK x \in counts : \A y \in counts : ~ (<<y, x>> \in R)
  <2>1. IsWellFoundedOn(R, Nat)
    BY NatLessThanWellFounded
  <2>2. counts \subseteq Nat /\ counts # {}
    BY <1>1
  <2>. HIDE DEF R, counts
  <2>. QED
    BY <2>1, <2>2, WFMin
<1>3. PICK n \in S : x = Cardinality(Above(n))
  BY <1>2
<1>4. ASSUME NEW k \in S PROVE k <= n
  <2>. SUFFICES ASSUME n < k PROVE FALSE
    OBVIOUS
  <2>1. Above(k) \in SUBSET Above(n) /\ Above(k) # Above(n)
    <3>1. \A m \in S : k < m => n < m
      OBVIOUS
    <3>2. Above(k) \subseteq Above(n)
      BY <3>1
    <3>3. k \in Above(n) /\ k \notin Above(k)
      BY <1>4
    <3>. HIDE DEF Above
    <3>. QED
      BY <3>2, <3>3
  <2>2. IsFiniteSet(Above(n)) /\ IsFiniteSet(Above(k)) /\ Cardinality(Above(n)) \in Nat
        /\ Cardinality(Above(k)) \in Nat
    BY <1>1
  <2>3. Cardinality(Above(k)) \in counts
    OBVIOUS
  <2>. HIDE DEF Above, counts
  <2>4. Cardinality(Above(k)) <= Cardinality(Above(n)) /\ Cardinality(Above(k)) # Cardinality(Above(n))
    BY <2>1, <2>2, FS_Subset
  <2>5. Cardinality(Above(k)) < x
    BY <1>3, <2>2, <2>4
  <2>6. <<Cardinality(Above(k)), x>> \in R
    BY <1>3, <2>2, <2>5, Zenon DEF OpToRel
  <2>. QED
    BY <1>2, <2>3, <2>6
<1>5. \E m \in S : \A k \in S : k <= m
  BY <1>4
<1>. QED
  BY <1>5 DEF Largest

(* A container's size is at least its highest slot.                        *)
LEMMA WantedIsEnough ==
  ASSUME DumpOK(dump), NEW c \in Containers
  PROVE  Wanted(c) \in Nat /\ \A i \in c.items : i.slot \in Nat /\ i.slot <= Wanted(c)
<1>1. /\ c.size \in Nat /\ IsFiniteSet(c.items) /\ \A i \in c.items : i.slot \in Nat
  BY DEF Containers, Has, DumpOK
<1> DEFINE slots == {i.slot : i \in c.items}
           all == {0, c.size} \cup slots
           f == [i \in c.items |-> i.slot]
<1>2. IsFiniteSet(slots)
  <2>1. f \in Surjection(c.items, slots)
    BY DEF Surjection
  <2>. HIDE DEF f, slots
  <2>. QED
    BY <1>1, <2>1, FS_Surjection
<1>3. IsFiniteSet(all)
  <2>. HIDE DEF slots
  <2>1. IsFiniteSet({0}) /\ IsFiniteSet({c.size})
    BY FS_Singleton
  <2>2. IsFiniteSet({0} \cup {c.size})
    BY <2>1, FS_Union
  <2>3. IsFiniteSet(({0} \cup {c.size}) \cup slots)
    BY <1>2, <2>2, FS_Union
  <2>4. all = ({0} \cup {c.size}) \cup slots
    OBVIOUS
  <2>. QED
    BY <2>3, <2>4
<1>4. all \in SUBSET Int /\ all \in SUBSET Nat /\ all # {}
  BY <1>1
<1>5. Wanted(c) = Largest(all)
  BY DEF Wanted
<1>6. \A i \in c.items : i.slot \in all
  OBVIOUS
<1>. HIDE DEF all
<1>7. Largest(all) \in all /\ \A k \in all : k <= Largest(all)
  BY <1>3, <1>4, LargestExists
<1>. QED
  BY <1>1, <1>4, <1>5, <1>6, <1>7

(* And a column's size is at least that of the containers it is for, up to *)
(* what LSB allows.                                                        *)
LEMMA SizeIsEnough ==
  ASSUME DumpOK(dump), NEW c \in Imported, c.loc \in DOMAIN ColumnOf
  PROVE  LET column == ColumnOf[c.loc]
         IN  /\ column \in SizeColumn /\ Wanted(c) \in Needed(column)
             /\ StorageSizes[column] \in Int
             /\ Wanted(c) <= STORAGE_MAX => Wanted(c) <= StorageSizes[column]
<1> DEFINE column == ColumnOf[c.loc]
           some == {x \in Imported : x.loc \in DOMAIN ColumnOf /\ ColumnOf[x.loc] = column}
           f == [x \in some |-> Wanted(x)]
           most == Largest(Needed(column))
<1>1. column \in SizeColumn /\ STORAGE_DEFAULTS[column] \in Nat /\ STORAGE_MAX \in Nat
  BY PlanAssumption
<1>2. Needed(column) = {Wanted(x) : x \in some} /\ c \in some
  BY DEF Needed
<1>3. some \in SUBSET Containers
  BY DEF Imported
<1>4. IsFiniteSet(some)
  <2>1. IsFiniteSet(Containers)
    BY FS_EmptySet DEF Containers, Has, DumpOK
  <2>. HIDE DEF some
  <2>. QED
    BY <1>3, <2>1, FS_Subset
<1>. HIDE DEF some, column
<1>5. IsFiniteSet(Needed(column))
  <2>1. f \in Surjection(some, Needed(column))
    BY <1>2 DEF Surjection
  <2>. HIDE DEF f
  <2>. QED
    BY <1>4, <2>1, FS_Surjection
<1>6. Needed(column) \in SUBSET Int /\ Wanted(c) \in Needed(column) /\ Wanted(c) \in Nat
  BY <1>2, <1>3, WantedIsEnough
<1>7. most \in Int /\ Wanted(c) <= most
  BY <1>5, <1>6, LargestExists
<1>8. StorageSizes[column] =
        Smaller(Larger(most, STORAGE_DEFAULTS[column]), STORAGE_MAX)
  BY <1>1, <1>6 DEF StorageSizes
<1>. HIDE DEF most
<1>9. /\ StorageSizes[column] \in Int
      /\ Wanted(c) <= STORAGE_MAX => Wanted(c) <= StorageSizes[column]
  BY <1>1, <1>6, <1>7, <1>8 DEF Smaller, Larger
<1>. QED
  BY <1>1, <1>6, <1>9 DEF column

(* No two rows of char_skills are for one skill.                           *)
LEMMA SkillsDistinct ==
  ASSUME DumpOK(dump)
  PROVE  ~Refused("skills")
<1> DEFINE craft(x) == [id |-> CRAFT_SKILL_BASE + x.id, value |-> x.skill * 10, rank |-> x.rank]
           combat(x) == [id |-> x.id, value |-> x.skill * 10, rank |-> 0]
<1>1. Keyed(Ids("crafts")) /\ Keyed(Ids("skills")) /\ CRAFT_SKILL_BASE \in Int
  <2>1. "crafts" \in DOMAIN dump => Keyed(dump["crafts"])
    BY DEF DumpOK
  <2>2. "skills" \in DOMAIN dump => Keyed(dump["skills"])
    BY DEF DumpOK
  <2>3. Keyed({})
    BY DEF Keyed
  <2>. QED
    BY <2>1, <2>2, <2>3, PlanAssumption DEF Ids, Has
<1>2. \A r, s \in CraftRows : r.id = s.id => r = s
  <2>. SUFFICES ASSUME NEW r \in CraftRows, NEW s \in CraftRows, r.id = s.id PROVE r = s
    OBVIOUS
  <2>1. PICK x \in Ids("crafts") : r = craft(x)
    BY DEF CraftRows
  <2>2. PICK y \in Ids("crafts") : s = craft(y)
    BY DEF CraftRows
  <2>3. CRAFT_SKILL_BASE + x.id = CRAFT_SKILL_BASE + y.id /\ x.id \in Int /\ y.id \in Int
    BY <1>1, <2>1, <2>2 DEF Keyed
  <2>4. x = y
    BY <1>1, <2>3 DEF Keyed
  <2>. QED
    BY <2>1, <2>2, <2>4
<1>3. \A r, s \in CombatRows : r.id = s.id => r = s
  <2>. SUFFICES ASSUME NEW r \in CombatRows, NEW s \in CombatRows, r.id = s.id PROVE r = s
    OBVIOUS
  <2>1. PICK x \in Ids("skills") : r = combat(x)
    BY DEF CombatRows
  <2>2. PICK y \in Ids("skills") : s = combat(y)
    BY DEF CombatRows
  <2>3. x.id = y.id
    BY <2>1, <2>2
  <2>4. x = y
    BY <1>1, <2>3 DEF Keyed
  <2>. QED
    BY <2>1, <2>2, <2>4
<1>. QED
  BY <1>2, <1>3 DEF Refused, SkillRows

(* Four of the warnings.                                                   *)
LEMMA Warned ==
  /\ \A c \in Imported : c.loc = Storage /\ c.items # {} => <<"furniture">> \in Warnings
  /\ \A column \in SizeColumn : \A n \in Needed(column) :
       n > STORAGE_MAX => <<"container", column>> \in Warnings
  /\ ~Readable("spells") \/ Spells # dump["spells"].ids => <<"spells">> \in Warnings
  /\ \A k \in Ids("key_items") : k < 0 \/ k >= KEYITEM_MAX => <<"key items">> \in Warnings
<1> DEFINE small == {<<"container", column>> :
                       column \in {x \in SizeColumn : \E n \in Needed(x) : n > STORAGE_MAX}}
           placed == {<<"furniture">> : c \in {x \in Imported : x.loc = Storage /\ x.items # {}}}
           worn == IF EquipRows # Ids("equipment") THEN {<<"equipment">>} ELSE {}
           keys == IF \E k \in Ids("key_items") : k < 0 \/ k >= KEYITEM_MAX
                     THEN {<<"key items">>} ELSE {}
           spells == IF ~Readable("spells") THEN {<<"spells">>}
                     ELSE IF Spells # dump["spells"].ids THEN {<<"spells">>} ELSE {}
           log == IF Has("questlog") /\ dump["questlog"].count = 0
                    THEN {<<"questlog">>} ELSE {}
           money == IF Has("currencies") THEN {} ELSE {<<"currencies">>}
<1>1. Warnings = small \cup placed \cup worn \cup keys \cup spells \cup log \cup money
  BY Zenon DEF Warnings
<1>2. \A c \in Imported : c.loc = Storage /\ c.items # {} => <<"furniture">> \in placed
  OBVIOUS
<1>3. \A column \in SizeColumn : \A n \in Needed(column) :
        n > STORAGE_MAX => <<"container", column>> \in small
  OBVIOUS
<1>4. ~Readable("spells") \/ Spells # dump["spells"].ids => <<"spells">> \in spells
  OBVIOUS
<1>5. \A k \in Ids("key_items") : k < 0 \/ k >= KEYITEM_MAX => <<"key items">> \in keys
  OBVIOUS
<1>. HIDE DEF small, placed, worn, keys, spells, log, money
<1>. QED
  BY <1>1, <1>2, <1>3, <1>4, <1>5

(* An id LSB knows is found in its table.                                  *)
LEMMA KeyItemFound ==
  ASSUME NEW ids \in SUBSET Int, NEW k \in ids, k \in 0 .. KEYITEM_MAX - 1
  PROVE  HasKeyItem(KeyitemBlob(ids), k \div KEYITEM_BITS_PER_TABLE, k % KEYITEM_BITS_PER_TABLE)
<1> DEFINE B == KEYITEM_BITS_PER_TABLE
           W == KEYITEM_TABLE_BITS
           bit(n) == (n \div B) * W + (n % B)
<1>1. KEYITEM_MAX \in Int
  BY DecodersAssumption DEF KEYITEM_MAX
<1>2. k \in ids /\ 0 <= k /\ k < KEYITEM_MAX
  BY <1>1
<1>3. bit(k) \in {bit(n) : n \in {i \in ids : 0 <= i /\ i < KEYITEM_MAX}}
  BY <1>2
<1>. QED
  BY <1>3 DEF HasKeyItem, KeyitemBlob

(* What a dump has is in the game once it is loaded, or the player was     *)
(* warned, or the statement for it failed: every item in the slot it was   *)
(* in, but for those of a container without a size, of which only the row  *)
(* is sure; every skill, every spell and every key item; for dumps and     *)
(* containers of any size.                                                 *)
THEOREM PlanNothingLost == PlanSpec => []NothingSilentlyLost
<1>1. PlanInv => NothingSilentlyLost
  <2>. SUFFICES ASSUME PlanInv, step = "loaded" PROVE NothingSilentlyLost
    BY DEF NothingSilentlyLost
  <2>a. DumpOK(dump)
    BY PlanAssumption DEF PlanInv
  <2>b. /\ rows = ItemRows /\ sizes = StorageSizes
        /\ \A c \in Written : Failed(c) \/ c \in DOMAIN columns \/ Refused(c)
        /\ todo = {}
    BY DEF PlanInv, Failed
  <2>c. \A c \in DOMAIN columns : ~Failed(c) => columns[c] = Value(c)
    BY <2>b, WrittenColumns DEF Failed
  <2>1. ASSUME NEW c \in Containers, NEW i \in c.items,
               c.loc # Temporary, ~(c.loc = Gil /\ i.slot = 0)
        PROVE  \/ InGame(Row(c.loc, i.slot, i.item))
               \/ c.loc = Storage /\ <<"furniture">> \in Warnings
               \/ c.loc \in DOMAIN ColumnOf /\ <<"container", ColumnOf[c.loc]>> \in Warnings
               \/ /\ c.loc \notin DOMAIN ColumnOf \cup {Storage}
                  /\ Row(c.loc, i.slot, i.item) \in rows
    <3> DEFINE r == Row(c.loc, i.slot, i.item)
    <3>1. c \in Imported
      BY <2>1 DEF Imported
    <3>2. r.loc = c.loc /\ r.slot = i.slot
      BY DEF Row
    <3>3. r \in rows
      <4>1. r \in RowsOf(c)
        BY DEF RowsOf
      <4>. HIDE DEF r
      <4>. QED
        BY <2>b, <2>1, <3>1, <3>2, <4>1 DEF ItemRows
    <3>4. CASE c.loc = Storage
      BY <2>1, <3>1, <3>4, Warned
    <3>5. CASE c.loc \in DOMAIN ColumnOf
      <4> DEFINE column == ColumnOf[c.loc]
      <4>1. /\ column \in SizeColumn /\ Wanted(c) \in Needed(column)
            /\ sizes[column] \in Int
            /\ Wanted(c) <= STORAGE_MAX => Wanted(c) <= sizes[column]
        BY <2>a, <2>b, <3>1, <3>5, SizeIsEnough
      <4>2. Wanted(c) \in Nat /\ i.slot \in Nat /\ i.slot <= Wanted(c) /\ STORAGE_MAX \in Nat
        BY <2>a, WantedIsEnough, PlanAssumption
      <4>3. CASE Wanted(c) > STORAGE_MAX
        BY <3>5, <4>1, <4>3, Warned
      <4>4. CASE Wanted(c) <= STORAGE_MAX
        <5>1. i.slot <= sizes[column]
          BY <4>1, <4>2, <4>4
        <5>. QED
          BY <3>2, <3>3, <3>5, <5>1 DEF InGame
      <4>. QED
        BY <4>2, <4>3, <4>4
    <3>. QED
      BY <3>3, <3>4, <3>5
  <2>2. ASSUME ~Failed("skills"), NEW s \in CraftRows \cup CombatRows
        PROVE  /\ "skills" \in DOMAIN columns
               /\ \/ s \in columns["skills"]
                  \/ /\ s \in CombatRows
                     /\ \E c \in CraftRows : c.id = s.id /\ c \in columns["skills"]
    <3>1. SkillRows # {}
      BY DEF SkillRows
    <3>2. "skills" \in Written
      BY <3>1, Values DEF Written
    <3>3. "skills" \in DOMAIN columns /\ columns["skills"] = SkillRows
      BY <2>a, <2>b, <2>c, <2>2, <3>2, SkillsDistinct, Values
    <3>. QED
      BY <3>3 DEF SkillRows
  <2>3. ASSUME ~Failed("spells"), <<"spells">> \notin Warnings, dump["spells"].ids # {}
        PROVE  columns["spells"] = dump["spells"].ids
    <3>1. Spells = dump["spells"].ids
      BY <2>3, Warned
    <3>2. "spells" \in Written
      BY <2>3, <3>1, Values DEF Written
    <3>3. ~Refused("spells")
      BY DEF Refused
    <3>. QED
      BY <2>b, <2>c, <2>3, <3>1, <3>2, <3>3, Values
  <2>4. ASSUME ~Failed("keyitems"), NEW k \in Ids("key_items")
        PROVE  \/ k \notin 0 .. KEYITEM_MAX - 1 /\ <<"key items">> \in Warnings
               \/ /\ "keyitems" \in DOMAIN columns
                  /\ HasKeyItem(columns["keyitems"], k \div KEYITEM_BITS_PER_TABLE,
                                k % KEYITEM_BITS_PER_TABLE)
    <3>1. Ids("key_items") \in SUBSET Int
      BY <2>a DEF Ids, Has, DumpOK
    <3>2. "keyitems" \in Written
      BY <2>4 DEF Written
    <3>3. ~Refused("keyitems")
      BY DEF Refused
    <3>4. "keyitems" \in DOMAIN columns /\ columns["keyitems"] = KeyitemBlob(Ids("key_items"))
      BY <2>b, <2>c, <2>4, <3>2, <3>3, Values
    <3>5. CASE k \in 0 .. KEYITEM_MAX - 1
      BY <2>4, <3>1, <3>4, <3>5, KeyItemFound
    <3>6. CASE k \notin 0 .. KEYITEM_MAX - 1
      <4>1. KEYITEM_MAX \in Int
        BY DecodersAssumption DEF KEYITEM_MAX
      <4>2. k \in Int /\ (k < 0 \/ k >= KEYITEM_MAX)
        BY <2>4, <3>1, <3>6, <4>1
      <4>. QED
        BY <2>4, <3>6, <4>2, Warned
    <3>. QED
      BY <3>5, <3>6
  <2>. QED
    BY <2>1, <2>2, <2>3, <2>4 DEF NothingSilentlyLost
<1>. QED
  BY <1>1, PlanInvAlways, PTL

=============================================================================
