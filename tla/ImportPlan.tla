----------------------------- MODULE ImportPlan -----------------------------
(***************************************************************************)
(* What becomes of a polexport dump: build_statements of                   *)
(* lsb/ffxi_import_core.py plans core statements and best-effort ones, the *)
(* import (module Import) or an operator with the text ffxi_import.py      *)
(* writes runs the core ones in one transaction and each of the others on  *)
(* its own, and LSB loads the character.                                   *)
(*                                                                         *)
(* A dump maps the sections it has to their contents.                      *)
(***************************************************************************)
EXTENDS DumpDecoders

CONSTANTS
  Gil,                    (* the inventory, whose slot 0 is the gil        *)
  Temporary, Storage,     (* containers: not imported; sized by furniture  *)
                          (* (of those without a column the one named)     *)
  ColumnOf,               (* STORAGE_COLS: the column a container's size   *)
                          (* is in, for those that have one                *)
  STORAGE_DEFAULTS,
  STORAGE_MAX,
  CRAFT_SKILL_BASE,
  MAX_SPELL_ID,
  LEARNED_ABILITIES,
  WS_UNLOCKS,             (* the unlock bit of a weapon skill that has one *)
  HOMEPOINTS,
  MAX_TITLE,
  Dumps

SizeColumn == DOMAIN STORAGE_DEFAULTS

(* A dump: the sections the addon writes.  A container may be any the      *)
(* client has, also one the importer knows nothing of; skills and crafts   *)
(* are keyed by their ids, key items are numbers, and the log has one      *)
(* block to a port.                                                        *)
Keyed(entries) == \A r, s \in entries : r.id \in Int /\ (r.id = s.id => r = s)

DumpOK(d) ==
  /\ "containers" \in DOMAIN d =>
       /\ IsFiniteSet(d["containers"])
       /\ \A c \in d["containers"] :
            /\ c.size \in Nat
            /\ IsFiniteSet(c.items) /\ \A i \in c.items : i.slot \in Nat
  /\ \A section \in {"skills", "crafts"} \cap DOMAIN d : Keyed(d[section])
  /\ "key_items" \in DOMAIN d => d["key_items"] \subseteq Int
  /\ "questlog" \in DOMAIN d =>
       /\ d["questlog"].blocks \subseteq LogBlock
       /\ \A b, e \in d["questlog"].blocks : Fit(b) /\ Fit(e) /\ b.port = e.port => b = e

ASSUME PlanAssumption ==
  /\ \A loc \in DOMAIN ColumnOf : ColumnOf[loc] \in SizeColumn
  /\ Temporary # Storage /\ {Temporary, Storage} \cap DOMAIN ColumnOf = {}
  /\ STORAGE_MAX \in Nat /\ CRAFT_SKILL_BASE \in Int
  /\ \A column \in SizeColumn : STORAGE_DEFAULTS[column] \in Nat
  /\ \A d \in Dumps : DumpOK(d)

VARIABLES
  dump,
  step,       (* how far the import is                                     *)
  rows,       (* char_inventory, but for the gil row                       *)
  sizes,      (* char_storage                                              *)
  todo,       (* the best-effort statements still to run: what each does,  *)
              (* and to which column                                       *)
  columns,    (* what they left; a column not in it is as it was           *)
  failed      (* those that failed for no fault of the plan's (history)    *)

planVars == <<dump, step, rows, sizes, todo, columns, failed>>

Has(section) == section \in DOMAIN dump
Larger(a, b) == IF a < b THEN b ELSE a
Smaller(a, b) == IF a < b THEN a ELSE b
Largest(S) == CHOOSE n \in S : \A k \in S : k <= n

----------------------------------------------------------------------------
(* Items.                                                                  *)

Containers == IF Has("containers") THEN dump["containers"] ELSE {}
Imported == {c \in Containers : c.loc # Temporary}

Row(loc, slot, item) == [loc |-> loc, slot |-> slot, item |-> item]
RowsOf(c) == {Row(c.loc, i.slot, i.item) : i \in c.items}

(* The rows of char_inventory; slot 0 of the inventory is the gil.         *)
ItemRows == {r \in UNION {RowsOf(c) : c \in Imported} : ~(r.loc = Gil /\ r.slot = 0)}

(* The slots a container must have: what the client says, or enough for    *)
(* the highest item.                                                       *)
Wanted(c) == Largest({0, c.size} \cup {i.slot : i \in c.items})

Needed(column) ==
  {Wanted(c) : c \in {x \in Imported :
                         x.loc \in DOMAIN ColumnOf /\ ColumnOf[x.loc] = column}}

(* Mutant: the sizes LSB gives a new character.                            *)
SchemaSizes == STORAGE_DEFAULTS

(* Sizes only grow, up to what LSB allows.                                 *)
StorageSizes ==
  [column \in SizeColumn |->
     IF Needed(column) = {} THEN STORAGE_DEFAULTS[column]
     ELSE Smaller(Larger(Largest(Needed(column)), STORAGE_DEFAULTS[column]), STORAGE_MAX)]

(* Mutant: an equipment entry is believed.                                 *)
EquipUnchecked ==
  IF Has("equipment") THEN {e \in dump["equipment"] : e.equip \in 0 .. 15} ELSE {}

(* char_equip refers to inventory rows: an entry stays only when the row   *)
(* it names is imported and holds the item it names.                       *)
EquipRows ==
  IF Has("equipment")
    THEN {e \in dump["equipment"] :
            e.equip \in 0 .. 15 /\ Row(e.loc, e.slot, e.item) \in ItemRows}
    ELSE {}

----------------------------------------------------------------------------
(* Skills, spells and the other sections.                                  *)

Ids(section) == IF Has(section) THEN dump[section] ELSE {}

CraftRows ==
  {[id |-> CRAFT_SKILL_BASE + c.id, value |-> c.skill * 10, rank |-> c.rank] :
     c \in Ids("crafts")}
CombatRows == {[id |-> s.id, value |-> s.skill * 10, rank |-> 0] : s \in Ids("skills")}

(* One row per skill, the craft's where both sections have it.             *)
SkillRows == CraftRows \cup {s \in CombatRows : \A c \in CraftRows : c.id # s.id}

(* A section the client could not read is there, and says so.              *)
Readable(section) == Has(section) /\ dump[section].readable

Spells ==
  IF Readable("spells") THEN {v \in dump["spells"].ids : 0 < v /\ v < MAX_SPELL_ID} ELSE {}

Abilities ==
  IF Readable("abilities") THEN dump["abilities"].ids \cap LEARNED_ABILITIES ELSE {}

(* The weapon skills go by what the client said of the abilities.          *)
WsReadable == Has("weaponskills") /\ (Has("abilities") => dump["abilities"].readable)

WeaponSkills ==
  IF WsReadable
    THEN {WS_UNLOCKS[w] : w \in dump["weaponskills"] \cap DOMAIN WS_UNLOCKS} ELSE {}

Blobs == {"quests", "missions", "assault", "campaign"}

(* Mutant: the log is decoded whether it was captured or not, every blob.  *)
QuestlogAlways ==
  LET log == IF Has("questlog") THEN DecodeQuestlog(dump["questlog"].blocks) ELSE <<>>
  IN  [blob \in Blobs |->
         IF blob \in DOMAIN log THEN log[blob] ELSE [flags |-> {}, current |-> {}]]

(* Nothing is written of a log that was never captured.                    *)
Questlog ==
  IF Has("questlog") /\ dump["questlog"].count > 0
    THEN DecodeQuestlog(dump["questlog"].blocks) ELSE <<>>

Teleports == IF Has("teleports") THEN DecodeTeleports(dump["teleports"]) ELSE <<>>

(* What the packets say of each job.                                       *)
JobPoints ==
  DecodeJobPoints(Ids("job points"), Ids("job point types"))

(* Mutant: every job gets a row.                                           *)
JobPointRowsForAll ==
  [j \in 1 .. MaxJob |-> [cell \in JobPointCell |-> 0]]

(* A job's row is written whole: a cell no packet has a value for is 0.    *)
JobPointRows ==
  [j \in DOMAIN JobPoints |->
     [cell \in JobPointCell |->
        IF \E h \in JobPoints[j] : h.cell = cell
          THEN (CHOOSE h \in JobPoints[j] : h.cell = cell).value ELSE 0]]

Currencies == IF Has("currencies") THEN DecodeCurrencies(dump["currencies"]) ELSE {}

(* The cap is at least the highest level there is, from 50 to 99.          *)
Genkai == Smaller(Largest({50} \cup {j.level : j \in Ids("jobs")}), 99)

Title == IF Has("title") THEN dump["title"] ELSE 0

(* The best-effort statements, by the columns they write: what, and when   *)
(* there is anything to write.                                             *)
Value(column) ==
  CASE column = "equipment" -> EquipRows
    [] column = "skills" -> SkillRows
    [] column = "keyitems" -> KeyitemBlob(Ids("key_items"))
    [] column = "merits" -> Smaller(dump["merits"], 255)
    [] column = "genkai" -> Genkai
    [] column = "spells" -> Spells
    [] column = "abilities" -> Abilities
    [] column = "weaponskills" -> WeaponSkills
    [] column \in Blobs -> Questlog[column]
    [] column = "unlocks" -> Teleports[column]
    [] column = "job points" -> JobPointRows
    [] column = "currencies" -> Currencies
    [] column = "home" -> dump["homepoint"]
    [] column = "rank" ->
         [rank |-> dump["rank"], points |-> IF Has("rank points") THEN dump["rank points"] ELSE 0]

Written ==
  {column \in {"equipment", "skills", "spells", "abilities", "weaponskills", "currencies"} :
     Value(column) # {}}
    \cup {column \in {"keyitems"} : Ids("key_items") # {}}
    \cup {column \in {"rank", "merits"} : Has(column) /\ dump[column] > 0}
    \cup {column \in {"genkai"} : Genkai > 50}
    \cup (Blobs \cap DOMAIN Questlog)
    \cup ({"unlocks"} \cap DOMAIN Teleports)
    \cup {column \in {"job points"} : DOMAIN JobPointRows # {}}
    \cup {column \in {"home"} : Has("homepoint") /\ dump["homepoint"] \in HOMEPOINTS}

Best == [column \in Written |-> Value(column)]

(* Tables of which a statement of its own first clears the character's     *)
(* rows.                                                                   *)
Cleared == {"equipment", "spells"}

Statements ==
  {<<"write", column>> : column \in Written} \cup {<<"clear", column>> : column \in Written \cap Cleared}

(* What the player is told of the plan.                                    *)
Warnings ==
  {<<"container", column>> :
     column \in {x \in SizeColumn : \E n \in Needed(x) : n > STORAGE_MAX}}
    \cup {<<"furniture">> : c \in {x \in Imported : x.loc = Storage /\ x.items # {}}}
    \cup (IF EquipRows # Ids("equipment") THEN {<<"equipment">>} ELSE {})
    \cup (IF \E k \in Ids("key_items") : k < 0 \/ k >= KEYITEM_MAX
             THEN {<<"key items">>} ELSE {})
    \cup (IF ~Readable("spells") THEN {<<"spells">>}
          ELSE IF Spells # dump["spells"].ids THEN {<<"spells">>} ELSE {})
    \cup (IF Has("questlog") /\ dump["questlog"].count = 0 THEN {<<"questlog">>} ELSE {})
    \cup (IF Has("currencies") THEN {} ELSE {<<"currencies">>})

----------------------------------------------------------------------------
(* The import.                                                             *)

PlanInit ==
  /\ dump \in Dumps
  /\ step = "dump"
  /\ rows = {} /\ sizes = STORAGE_DEFAULTS
  /\ todo = {} /\ columns = <<>> /\ failed = {}

(* build_statements; a title in range ends it with an error, because       *)
(* keyitem_blob returns a pair and the title's statement takes it for the  *)
(* blob.                                                                   *)
Plan ==
  /\ step = "dump"
  /\ IF 0 < Title /\ Title < MAX_TITLE
       THEN step' = "crashed" /\ UNCHANGED todo
       ELSE step' = "planned" /\ todo' = Statements
  /\ UNCHANGED <<dump, rows, sizes, columns, failed>>

(* The core statements: all of them, or none.                              *)
RunCore ==
  /\ step = "planned"
  /\ \/ /\ step' = "core"
        /\ rows' = ItemRows
        /\ sizes' = StorageSizes
     \/ /\ step' = "failed"
        /\ UNCHANGED <<rows, sizes>>
  /\ UNCHANGED <<dump, todo, columns, failed>>

(* A second row of a skill violates char_skills' key, and the statement is *)
(* refused whole; any statement may fail for reasons of its own.           *)
Refused(c) == c = "skills" /\ \E r, s \in SkillRows : r # s /\ r.id = s.id

Leaves(column, value) ==
  columns' = [x \in DOMAIN columns \cup {column} |-> IF x = column THEN value ELSE columns[x]]

(* One best-effort statement, a column's clearing before its writing; no   *)
(* two others have to do with the same column.                             *)
RunBest(does, c) ==
  /\ step = "core" /\ <<does, c>> \in todo
  /\ does = "write" => <<"clear", c>> \notin todo
  /\ todo' = todo \ {<<does, c>>}
  /\ \/ /\ IF does = "clear" THEN Leaves(c, {})
           ELSE IF Refused(c) THEN UNCHANGED columns
           ELSE Leaves(c, Best[c])
        /\ UNCHANGED failed
     \/ /\ failed' = failed \cup {<<does, c>>}
        /\ UNCHANGED columns
  /\ UNCHANGED <<dump, step, rows, sizes>>

(* LSB loads the character.                                                *)
Load ==
  /\ step = "core" /\ todo = {}
  /\ step' = "loaded"
  /\ UNCHANGED <<dump, rows, sizes, todo, columns, failed>>

PlanNext == Plan \/ RunCore \/ Load \/ \E s \in todo : RunBest(s[1], s[2])

PlanSpec == PlanInit /\ [][PlanNext]_planVars

----------------------------------------------------------------------------
(* LSB: InsertItem refuses a slot past the container's size; the mog       *)
(* storage has whatever size its furniture gives, taken for none here.     *)
InGame(r) ==
  r \in rows /\ r.loc \in DOMAIN ColumnOf /\ r.slot <= sizes[ColumnOf[r.loc]]

Failed(column) == <<"write", column>> \in failed

(* What a dump has is in the game once it is loaded, or the player was     *)
(* warned, or the statement for it failed and is reported: every item, in  *)
(* the slot it was in; every skill, at the craft's value where two         *)
(* sections disagree; every spell; every key item, where LSB looks it up   *)
(* ("an import that lands silently short is the failure mode", module      *)
(* docstring, 20-23).  Two containers are exceptions.  The temporary one   *)
(* is not imported.  One that has no column and is not the mog storage is  *)
(* in the database and nothing is said of it: whether LSB finds room for   *)
(* its items the importer neither sees to nor warns of (652-663, 674).     *)
NothingSilentlyLost ==
  step = "loaded" =>
    /\ \A c \in Containers : \A i \in c.items :
         \/ c.loc = Temporary \/ (c.loc = Gil /\ i.slot = 0)
         \/ InGame(Row(c.loc, i.slot, i.item))
         \/ c.loc = Storage /\ <<"furniture">> \in Warnings
         \/ c.loc \in DOMAIN ColumnOf /\ <<"container", ColumnOf[c.loc]>> \in Warnings
         \/ c.loc \notin DOMAIN ColumnOf \cup {Storage} /\ Row(c.loc, i.slot, i.item) \in rows
    /\ Failed("skills") \/ \A s \in CraftRows \cup CombatRows :
         /\ "skills" \in DOMAIN columns
         /\ s \in columns["skills"]
              \/ (s \in CombatRows
                   /\ \E c \in CraftRows : c.id = s.id /\ c \in columns["skills"])
    /\ Failed("spells") \/ <<"spells">> \in Warnings
         \/ dump["spells"].ids = {} \/ columns["spells"] = dump["spells"].ids
    /\ Failed("keyitems") \/ \A k \in Ids("key_items") :
         \/ k \notin 0 .. KEYITEM_MAX - 1 /\ <<"key items">> \in Warnings
         \/ /\ "keyitems" \in DOMAIN columns
            /\ HasKeyItem(columns["keyitems"], k \div KEYITEM_BITS_PER_TABLE,
                          k % KEYITEM_BITS_PER_TABLE)

(* A character wears only what lies in its own inventory: every char_equip *)
(* row names a row that is there and holds the item the player had on (a   *)
(* stale reference equips the wrong item, 700-708).                        *)
EquippedIsOwned ==
  "equipment" \in DOMAIN columns =>
    \A e \in columns["equipment"] : Row(e.loc, e.slot, e.item) \in rows

(* Read back the way LSB reads them, the key items are the dump's and the  *)
(* quest and mission flags are those a packet of the dump carries, each in *)
(* its own place; no key item is marked seen.                              *)
FlagsInPlace ==
  /\ "keyitems" \in DOMAIN columns =>
       \A t \in 0 .. KEYITEM_TABLES - 1, i \in 0 .. KEYITEM_BITS_PER_TABLE - 1 :
         /\ HasKeyItem(columns["keyitems"], t, i)
              <=> t * KEYITEM_BITS_PER_TABLE + i \in dump["key_items"]
         /\ ~SeenKeyItem(columns["keyitems"], t, i)
  /\ \A blob \in Blobs \cap DOMAIN columns :
       /\ \A f \in columns[blob].flags :
            \E b \in dump["questlog"].blocks :
              Fit(b) /\ b.port = OnWire(f).port /\ OnWire(f).bit \in b.bits
       /\ \A b \in dump["questlog"].blocks, f \in LogFlags :
            Fit(b) /\ f.blob = blob /\ b.port = OnWire(f).port /\ OnWire(f).bit \in b.bits
              => f \in columns[blob].flags

(* What the packets of the dump say of a job's row.                        *)
SaysPoints(j) == \E t \in Ids("job points") : t.job = j /\ t.spent > 0
SaysLevel(j, i) ==
  \E c \in Ids("job point types") : c.job = j /\ c.index = i /\ c.level > 0

(* A section that is not in the dump, that the client could not read or    *)
(* that was never captured leaves its column as it was: missing is not     *)
(* empty (861-866, 984-988).  That is said of columns, not of what is in   *)
(* them, and with two exceptions.  The row of a job that one of the two    *)
(* job-point packets speaks of is written whole, and what only the other   *)
(* could have said is 0 (1022-1030); and a rank without rank points is     *)
(* written with 0 of them (798-799).  A job of which neither packet speaks *)
(* keeps its row.                                                          *)
SilenceErasesNothing ==
  /\ \A s \in {"spells", "abilities"} : ~Readable(s) => s \notin DOMAIN columns
  /\ ~WsReadable => "weaponskills" \notin DOMAIN columns
  /\ \A blob \in Blobs \cap DOMAIN columns :
       /\ Has("questlog") /\ dump["questlog"].count > 0
       /\ \E b \in dump["questlog"].blocks : Fit(b) /\ blob \in Touched(b)
  /\ "currencies" \in DOMAIN columns =>
       Has("currencies") /\ \E b \in dump["currencies"] : b.whole
  /\ "unlocks" \in DOMAIN columns => Has("teleports")
  /\ "job points" \in DOMAIN columns => \A j \in DOMAIN columns["job points"] :
       LET row == columns["job points"][j] IN
         /\ SaysPoints(j) \/ \E i \in 0 .. JP_CATEGORIES - 1 : SaysLevel(j, i)
         /\ SaysPoints(j) \/ row[Cell("points", 0)] = 0
         /\ \A i \in 0 .. JP_CATEGORIES - 1 : SaysLevel(j, i) \/ row[Cell("level", i)] = 0
  /\ "rank" \in DOMAIN columns =>
       Has("rank") /\ (Has("rank points") \/ columns["rank"].points = 0)
=============================================================================
