------------------------------- MODULE IdMap -------------------------------
(***************************************************************************)
(* The Content ID map of lsb/ffxi_bridge.py: which character (an LSB       *)
(* charid) is paired with which PlayOnline Content ID, in the bridge's     *)
(* memory and in FFXI_IDMAP_FILE.  One action per function that takes      *)
(* _idmap_lock and writes the map; whoever composes this module decides    *)
(* when each is called and with which arguments.                           *)
(*                                                                         *)
(* Abstracted: character names and the profile tail are values a record    *)
(* may change at any time, so only "did it move" is kept; of the world     *)
(* field only whether it has been recorded (a record without one carries   *)
(* 0 on disk, which the client's lookup never matches).                    *)
(***************************************************************************)
EXTENDS Integers, FiniteSets

CONSTANTS
  ContentId,     (* Content IDs POL has issued                             *)
  MaxChar,       (* bound on the charids the game server mints             *)
  SaveMayFail    (* whether writing FFXI_IDMAP_FILE may fail               *)

CharId == 1 .. MaxChar

(* "No Content ID" and "no charid": ffxi_id 0, or None, in the code.       *)
NoId == 0
NoChar == 0

(* The bridge tells the two kinds of id apart by looking a value up, so    *)
(* they must not overlap.                                                  *)
ASSUME MapAssumption ==
  /\ ContentId \subseteq Nat \ {0}
  /\ MaxChar \in Nat
  /\ ContentId \cap CharId = {}
  /\ SaveMayFail \in BOOLEAN

VARIABLES
  idmap,         (* _idmap: the Content ID of each charid, or NoId         *)
  released,      (* _released_ids: the id a charid held when it was        *)
                 (* released, until it is paired again                     *)
  field,         (* _worldfields: is the charid's world field recorded     *)
  file           (* what FFXI_IDMAP_FILE holds                             *)

mapVars == <<idmap, released, field, file>>

----------------------------------------------------------------------------
(* Reading the map.                                                        *)

(* The ids some character holds: set(_idmap.values()).                     *)
HeldIds == {idmap[k] : k \in CharId} \ {NoId}

Holders(i) == {k \in CharId : idmap[k] = i}

Lowest(S) == CHOOSE x \in S : \A y \in S : x <= y

(* The charid a Content ID stands for; NoChar for a value that is not the  *)
(* id of any paired character.                                             *)
CharidFor(i) == IF i = NoId \/ Holders(i) = {} THEN NoChar ELSE CHOOSE k \in Holders(i) : TRUE

(* The id a character's client named, unless another character holds it.   *)
Named(prefer) == IF prefer \in HeldIds THEN NoId ELSE prefer

(* Of the ids read for the member that are free, the one k gave up, or the *)
(* lowest.                                                                 *)
Allocated(k, ids) ==
  LET free == ids \ HeldIds IN
  IF free = {} THEN NoId ELSE IF released[k] \in free THEN released[k] ELSE Lowest(free)

(* Mutants: a named id is taken unchecked; a bound id is moved to the      *)
(* named one.                                                              *)
ContentIdForUnchecked(k, prefer, ids) ==
  IF idmap[k] # NoId THEN idmap[k] ELSE IF prefer # NoId THEN prefer ELSE Allocated(k, ids)

ContentIdForRebinding(k, prefer, ids) ==
  IF prefer # NoId /\ prefer # idmap[k] THEN Named(prefer)
  ELSE IF idmap[k] # NoId THEN idmap[k] ELSE Allocated(k, ids)

(* The id content_id_for returns for charid k: the one it has, else the    *)
(* named one, else one of the pool.                                        *)
ContentIdFor(k, prefer, ids) ==
  IF idmap[k] # NoId THEN idmap[k]
  ELSE IF prefer # NoId THEN Named(prefer) ELSE Allocated(k, ids)

----------------------------------------------------------------------------
(* Writing the map.                                                        *)

(* What save_idmap writes: a world field only for a paired charid.         *)
Image(m, f) == [pair |-> m, field |-> [k \in CharId |-> m[k] # NoId /\ f[k]]]

(* The file is replaced whole, or, the failure being logged and dropped,   *)
(* not at all.                                                             *)
Save ==
  \/ file' = Image(idmap', field')
  \/ SaveMayFail /\ UNCHANGED file

(* content_id_for(k, prefer, member), the member's pool having been read   *)
(* as ids.                                                                 *)
Pair(k, prefer, ids) ==
  LET id == ContentIdFor(k, prefer, ids) IN
  /\ idmap' = [idmap EXCEPT ![k] = id]
  /\ released' = [released EXCEPT ![k] = IF id = NoId THEN @ ELSE NoId]
  /\ UNCHANGED field
  /\ IF id = idmap[k] THEN UNCHANGED file ELSE Save

(* note_char_name, note_world_field and note_char_fields on one record of  *)
(* a character list.  Memory is written first and always; the file only if *)
(* something moved and the charid is paired.                               *)
Note(k) ==
  /\ field' = [field EXCEPT ![k] = TRUE]
  /\ UNCHANGED <<idmap, released>>
  /\ \/ idmap[k] # NoId /\ Save
     \/ (idmap[k] = NoId \/ field[k]) /\ UNCHANGED file

(* note_char_name alone, for the character a world handoff names.          *)
NoteName(k) ==
  /\ UNCHANGED <<idmap, released, field>>
  /\ \/ idmap[k] # NoId /\ Save
     \/ UNCHANGED file

(* release_charid(k).                                                      *)
Release(k) ==
  /\ idmap' = [idmap EXCEPT ![k] = NoId]
  /\ field' = [field EXCEPT ![k] = FALSE]
  /\ IF idmap[k] = NoId
       THEN UNCHANGED <<released, file>>
       ELSE released' = [released EXCEPT ![k] = idmap[k]] /\ Save

(* load_idmap in a new process: the pairings and world fields come back    *)
(* from the file, what the previous process had released does not.         *)
Reload ==
  /\ idmap' = file.pair
  /\ field' = file.field
  /\ released' = [k \in CharId |-> NoId]
  /\ UNCHANGED file

----------------------------------------------------------------------------
(* The map on its own, under any calls whatever.                           *)

MapInit ==
  /\ idmap = [k \in CharId |-> NoId]
  /\ released = [k \in CharId |-> NoId]
  /\ field = [k \in CharId |-> FALSE]
  /\ file = Image(idmap, field)

MapNext ==
  \/ \E k \in CharId, prefer \in ContentId \cup {NoId}, ids \in SUBSET ContentId :
       Pair(k, prefer, ids)
  \/ \E k \in CharId : Note(k) \/ NoteName(k) \/ Release(k)
  \/ Reload

MapSpec == MapInit /\ [][MapNext]_mapVars

----------------------------------------------------------------------------
Pairing == [CharId -> ContentId \cup {NoId}]

(* Type invariant of the map and of its file.                              *)
MapTypeOK ==
  /\ idmap \in Pairing
  /\ released \in Pairing
  /\ field \in [CharId -> BOOLEAN]
  /\ file \in [pair : Pairing, field : [CharId -> BOOLEAN]]

OneHolder(m) == \A j, k \in CharId : m[j] = m[k] /\ m[j] # NoId => j = k

(* No Content ID is held by two characters, in memory or in the file the   *)
(* lobby server reads (the duplicate content_id_for says is worth refusing *)
(* even at the cost of an unpaired character).                             *)
UniqueContentId == OneHolder(idmap) /\ OneHolder(file.pair)

(* "A BOUND ID NEVER MOVES": whatever happens, a restart of the bridge     *)
(* included, a character that has an id keeps it or loses it; it is never  *)
(* seen holding another one next.                                          *)
BoundIdNeverMoves ==
  [][\A k \in CharId : idmap[k] # NoId => idmap'[k] \in {idmap[k], NoId}]_mapVars

(* The pairings in force, as the abstract entitlement sees them.           *)
Spent == {<<k, idmap[k]>> : k \in {j \in CharId : idmap[j] # NoId}}

Promise == INSTANCE Entitlement WITH spent <- Spent

(* The map implements the entitlement: ids are spent and given back, never *)
(* handed over.                                                            *)
ImplementsEntitlement == Promise!Spec

=============================================================================
