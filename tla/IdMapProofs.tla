---------------------------- MODULE IdMapProofs ----------------------------
(***************************************************************************)
(* What holds of the Content ID map under any sequence of calls, for every *)
(* set of Content IDs and every bound on the charids.                      *)
(***************************************************************************)
EXTENDS IdMap, WellFoundedInduction, TLAPS

----------------------------------------------------------------------------
(* Choosing an id.                                                         *)

(* 0 is no Content ID, and every Content ID is a number.                   *)
LEMMA IdsAreNumbers == NoId \notin ContentId /\ ContentId \subseteq Nat
BY MapAssumption DEF NoId

(* The lowest of some numbers is one of them: what sorted()[0] returns.    *)
LEMMA LowestIsMember ==
  ASSUME NEW S, S \subseteq Nat, S # {}
  PROVE  Lowest(S) \in S
<1> DEFINE R == OpToRel(<, Nat)
<1>1. PICK x \in S : \A y \in S : ~ (<<y, x>> \in R)
  <2>1. IsWellFoundedOn(R, Nat)
    BY NatLessThanWellFounded
  <2>. HIDE DEF R
  <2>. QED
    BY <2>1, WFMin
<1>2. \A y \in S : x <= y
  <2>. SUFFICES ASSUME NEW y \in S PROVE x <= y
    OBVIOUS
  <2>1. ~ (y < x)
    BY <1>1, Zenon DEF OpToRel
  <2>. QED
    BY <2>1
<1>. QED
  BY <1>2, Zenon DEF Lowest

(* What content_id_for returns: nothing, or an id that is the character's  *)
(* own or nobody's.                                                        *)
LEMMA ContentIdForNobodysOrOwn ==
  ASSUME MapTypeOK, NEW k \in CharId, NEW prefer \in ContentId \cup {NoId},
         NEW ids \in SUBSET ContentId
  PROVE  LET id == ContentIdFor(k, prefer, ids) IN
         /\ id \in ContentId \cup {NoId}
         /\ id = NoId \/ id = idmap[k] \/ id \notin HeldIds
         /\ idmap[k] # NoId => id = idmap[k]
<1> DEFINE free == ids \ HeldIds
<1>1. idmap[k] \in ContentId \cup {NoId}
  BY DEF MapTypeOK, Pairing
<1>2. Named(prefer) \in ContentId \cup {NoId} /\ (Named(prefer) = NoId \/ Named(prefer) \notin HeldIds)
  BY DEF Named
<1>3. Allocated(k, ids) \in free \cup {NoId}
  <2>1. free # {} => Lowest(free) \in free
    BY IdsAreNumbers, LowestIsMember
  <2>. QED
    BY <2>1 DEF Allocated
<1>. QED
  BY <1>1, <1>2, <1>3 DEF ContentIdFor

----------------------------------------------------------------------------
(* Type correctness, and no Content ID on two characters.                  *)

(* The inductive invariant: UniqueContentId needs the types, and the file  *)
(* is part of it because a restart makes it the map.                       *)
Safe == MapTypeOK /\ UniqueContentId

(* Writing the file, or failing to, keeps it typed and free of duplicates. *)
LEMMA SaveSafe ==
  ASSUME Safe, Save, idmap' \in Pairing, OneHolder(idmap'), released' \in Pairing,
         field' \in [CharId -> BOOLEAN]
  PROVE  Safe'
<1>1. CASE UNCHANGED file
  BY <1>1 DEF Safe, MapTypeOK, UniqueContentId, OneHolder, Pairing
<1>2. CASE file' = Image(idmap', field')
  <2>1. file' \in [pair : Pairing, field : [CharId -> BOOLEAN]] /\ file'.pair = idmap'
    BY <1>2 DEF Image, Pairing
  <2>. QED
    BY <2>1 DEF Safe, MapTypeOK, UniqueContentId, OneHolder, Pairing
<1>. QED
  BY <1>1, <1>2 DEF Save

(* content_id_for keeps the map safe, whatever id the client names and     *)
(* whatever ids are read for its member.                                   *)
LEMMA PairSafe ==
  ASSUME Safe, NEW k \in CharId, NEW prefer \in ContentId \cup {NoId},
         NEW ids \in SUBSET ContentId, Pair(k, prefer, ids)
  PROVE  Safe'
<1> DEFINE id == ContentIdFor(k, prefer, ids)
<1>1. /\ id \in ContentId \cup {NoId}
      /\ id = NoId \/ id = idmap[k] \/ id \notin HeldIds
  BY ContentIdForNobodysOrOwn DEF Safe
<1>2. /\ idmap' = [idmap EXCEPT ![k] = id]
      /\ released' = [released EXCEPT ![k] = IF id = NoId THEN @ ELSE NoId]
      /\ field' = field
      /\ IF id = idmap[k] THEN UNCHANGED file ELSE Save
  BY DEF Pair
<1>. HIDE DEF id
<1>3. /\ idmap' \in Pairing /\ released' \in Pairing
      /\ field' \in [CharId -> BOOLEAN]
  BY <1>1, <1>2 DEF Safe, MapTypeOK, Pairing
<1>4. OneHolder(idmap')
  <2>. SUFFICES ASSUME NEW j1 \in CharId, NEW j2 \in CharId,
                       idmap'[j1] = idmap'[j2], idmap'[j1] # NoId
                PROVE  j1 = j2
    BY DEF OneHolder
  <2>1. \A j \in CharId : idmap'[j] = IF j = k THEN id ELSE idmap[j]
    BY <1>2 DEF Safe, MapTypeOK, Pairing
  <2>2. \A j \in CharId : idmap[j] # NoId => idmap[j] \in HeldIds
    BY DEF HeldIds
  <2>. QED
    BY <1>1, <2>1, <2>2 DEF Safe, UniqueContentId, OneHolder
<1>5. CASE id = idmap[k]
  BY <1>2, <1>3, <1>4, <1>5 DEF Safe, MapTypeOK, UniqueContentId, OneHolder
<1>6. CASE id # idmap[k]
  BY <1>2, <1>3, <1>4, <1>6, SaveSafe
<1>. QED
  BY <1>5, <1>6

(* Recording what a list says of a character keeps the map safe.           *)
LEMMA NoteSafe ==
  ASSUME Safe, NEW k \in CharId, Note(k) \/ NoteName(k)
  PROVE  Safe'
<1>1. /\ idmap' = idmap /\ released' = released
      /\ field' \in [CharId -> BOOLEAN]
      /\ Save \/ UNCHANGED file
  BY DEF Note, NoteName, Safe, MapTypeOK
<1>2. idmap' \in Pairing /\ released' \in Pairing /\ OneHolder(idmap')
  BY <1>1 DEF Safe, MapTypeOK, UniqueContentId
<1>3. CASE UNCHANGED file
  BY <1>1, <1>2, <1>3 DEF Safe, MapTypeOK, UniqueContentId, OneHolder
<1>. QED
  BY <1>1, <1>2, <1>3, SaveSafe

(* Releasing a charid keeps the map safe.                                  *)
LEMMA ReleaseSafe ==
  ASSUME Safe, NEW k \in CharId, Release(k)
  PROVE  Safe'
<1>1. /\ idmap' \in Pairing /\ released' \in Pairing
      /\ field' \in [CharId -> BOOLEAN]
  BY DEF Release, Safe, MapTypeOK, Pairing
<1>2. OneHolder(idmap')
  BY DEF Release, Safe, MapTypeOK, UniqueContentId, OneHolder, Pairing
<1>3. CASE UNCHANGED file
  BY <1>1, <1>2, <1>3 DEF Safe, MapTypeOK, UniqueContentId, OneHolder
<1>4. CASE Save
  BY <1>1, <1>2, <1>4, SaveSafe
<1>. QED
  BY <1>3, <1>4 DEF Release

(* A restarted bridge starts safe, for the file always is.                 *)
LEMMA ReloadSafe ==
  ASSUME Safe, Reload
  PROVE  Safe'
<1>1. /\ idmap' \in Pairing /\ released' \in Pairing
      /\ field' \in [CharId -> BOOLEAN] /\ file' = file
  BY DEF Reload, Safe, MapTypeOK, Pairing
<1>2. OneHolder(idmap')
  BY DEF Reload, Safe, UniqueContentId, OneHolder
<1>. QED
  BY <1>1, <1>2 DEF Safe, MapTypeOK, UniqueContentId, OneHolder

(* Every step of the map keeps it safe.                                    *)
LEMMA MapStepSafe == Safe /\ [MapNext]_mapVars => Safe'
<1>. SUFFICES ASSUME Safe, [MapNext]_mapVars PROVE Safe'
  OBVIOUS
<1>1. CASE UNCHANGED mapVars
  BY <1>1 DEF mapVars, Safe, MapTypeOK, UniqueContentId, OneHolder
<1>2. ASSUME NEW k \in CharId, NEW prefer \in ContentId \cup {NoId},
             NEW ids \in SUBSET ContentId, Pair(k, prefer, ids)
      PROVE  Safe'
  BY <1>2, PairSafe
<1>3. ASSUME NEW k \in CharId, Note(k) \/ NoteName(k)
      PROVE  Safe'
  BY <1>3, NoteSafe
<1>4. ASSUME NEW k \in CharId, Release(k)
      PROVE  Safe'
  BY <1>4, ReleaseSafe
<1>5. CASE Reload
  BY <1>5, ReloadSafe
<1>. QED
  BY <1>1, <1>2, <1>3, <1>4, <1>5 DEF MapNext

(* The empty map is safe.                                                  *)
LEMMA MapInitSafe == MapInit => Safe
BY DEF MapInit, Safe, MapTypeOK, UniqueContentId, OneHolder, Pairing, Image

(* However the map is called, its state and its file have their types.     *)
THEOREM MapTypeCorrect == MapSpec => []MapTypeOK
<1>1. Safe => MapTypeOK
  BY DEF Safe
<1>. QED
  BY <1>1, MapInitSafe, MapStepSafe, PTL DEF MapSpec

(* However the map is called, no Content ID has two holders, in memory or  *)
(* in the file, even when saves fail and the bridge restarts.              *)
THEOREM MapUnique == MapSpec => []UniqueContentId
<1>1. Safe => UniqueContentId
  BY DEF Safe
<1>. QED
  BY <1>1, MapInitSafe, MapStepSafe, PTL DEF MapSpec

----------------------------------------------------------------------------
(* A bound id never moves, when no save fails.                             *)

(* What makes a restart harmless: the file is always up to date, but for   *)
(* the world fields of characters it does not list.                        *)
FileIsImage == file = Image(idmap, field)

(* A restart that finds the file up to date brings the same pairings back. *)
LEMMA ReloadSamePairings ==
  ASSUME MapTypeOK, FileIsImage, Reload
  PROVE  idmap' = idmap
BY DEF Reload, FileIsImage, Image

(* Every step of the map keeps the file up to date, if no save fails.      *)
LEMMA MapStepFileIsImage ==
  ~SaveMayFail /\ MapTypeOK /\ FileIsImage /\ [MapNext]_mapVars => FileIsImage'
<1>. SUFFICES ASSUME ~SaveMayFail, MapTypeOK, FileIsImage, [MapNext]_mapVars
              PROVE  FileIsImage'
  OBVIOUS
<1>1. Save => FileIsImage'
  BY DEF Save, FileIsImage, Image
<1>2. CASE UNCHANGED mapVars
  BY <1>2 DEF mapVars, FileIsImage, Image
<1>3. ASSUME NEW k \in CharId, NEW prefer \in ContentId \cup {NoId},
             NEW ids \in SUBSET ContentId, Pair(k, prefer, ids)
      PROVE  FileIsImage'
  <2> DEFINE id == ContentIdFor(k, prefer, ids)
  <2>1. /\ idmap' = [idmap EXCEPT ![k] = id] /\ field' = field
        /\ IF id = idmap[k] THEN UNCHANGED file ELSE Save
    BY <1>3 DEF Pair
  <2>. HIDE DEF id
  <2>2. id = idmap[k] => idmap' = idmap
    BY <2>1 DEF MapTypeOK, Pairing
  <2>. QED
    BY <1>1, <2>1, <2>2 DEF FileIsImage, Image
<1>4. ASSUME NEW k \in CharId, Note(k) \/ NoteName(k)
      PROVE  FileIsImage'
  <2>1. CASE Save
    BY <1>1, <2>1
  <2>2. CASE UNCHANGED file
    <3>1. idmap' = idmap
      BY <1>4 DEF Note, NoteName
    <3>2. \A j \in CharId : idmap[j] # NoId => field'[j] = field[j]
      BY <1>4, <2>2, <3>1 DEF Note, NoteName, MapTypeOK, Save, FileIsImage, Image
    <3>3. [j \in CharId |-> idmap[j] # NoId /\ field'[j]]
            = [j \in CharId |-> idmap[j] # NoId /\ field[j]]
      BY <3>2
    <3>. QED
      BY <2>2, <3>1, <3>3 DEF FileIsImage, Image
  <2>. QED
    BY <1>4, <2>1, <2>2 DEF Note, NoteName
<1>5. ASSUME NEW k \in CharId, Release(k)
      PROVE  FileIsImage'
  <2>1. CASE idmap[k] = NoId
    <3>1. idmap' = idmap /\ file' = file
      BY <1>5, <2>1 DEF Release, MapTypeOK, Pairing
    <3>2. [j \in CharId |-> idmap[j] # NoId /\ field'[j]]
            = [j \in CharId |-> idmap[j] # NoId /\ field[j]]
      BY <1>5, <2>1 DEF Release, MapTypeOK
    <3>. QED
      BY <3>1, <3>2 DEF FileIsImage, Image
  <2>. QED
    BY <1>1, <1>5, <2>1 DEF Release
<1>6. CASE Reload
  <2>1. idmap' = idmap /\ file' = file /\ field' = file.field
    BY <1>6, ReloadSamePairings DEF Reload
  <2>. QED
    BY <2>1 DEF FileIsImage, Image
<1>. QED
  BY <1>2, <1>3, <1>4, <1>5, <1>6 DEF MapNext

(* What one step does to the pairings: nothing, or one character takes an  *)
(* id nobody holds, or one character gives its id up.                      *)
PairingStep ==
  \/ idmap' = idmap
  \/ \E k \in CharId, i \in ContentId :
       /\ idmap[k] = NoId /\ i \notin HeldIds
       /\ idmap' = [idmap EXCEPT ![k] = i]
  \/ \E k \in CharId :
       /\ idmap[k] # NoId
       /\ idmap' = [idmap EXCEPT ![k] = NoId]

(* What a step may do to one charid's pairing: keep it, lose it, or bind a *)
(* free id to a charid that had none.                                      *)
LEMMA MapStepPairings ==
  MapTypeOK /\ FileIsImage /\ [MapNext]_mapVars => PairingStep
<1>. SUFFICES ASSUME MapTypeOK, FileIsImage, [MapNext]_mapVars
              PROVE  PairingStep
  OBVIOUS
<1>1. CASE UNCHANGED mapVars
  BY <1>1 DEF mapVars, PairingStep
<1>2. ASSUME NEW k \in CharId, NEW prefer \in ContentId \cup {NoId},
             NEW ids \in SUBSET ContentId, Pair(k, prefer, ids)
      PROVE  PairingStep
  <2> DEFINE id == ContentIdFor(k, prefer, ids)
  <2>1. /\ id \in ContentId \cup {NoId}
        /\ id = NoId \/ id = idmap[k] \/ id \notin HeldIds
        /\ idmap[k] # NoId => id = idmap[k]
    BY ContentIdForNobodysOrOwn
  <2>2. idmap' = [idmap EXCEPT ![k] = id]
    BY <1>2 DEF Pair
  <2>. HIDE DEF id
  <2>3. CASE id = idmap[k]
    BY <2>2, <2>3 DEF PairingStep, MapTypeOK, Pairing
  <2>. QED
    BY <2>1, <2>2, <2>3 DEF PairingStep
<1>3. ASSUME NEW k \in CharId, Note(k) \/ NoteName(k)
      PROVE  PairingStep
  BY <1>3 DEF Note, NoteName, PairingStep
<1>4. ASSUME NEW k \in CharId, Release(k)
      PROVE  PairingStep
  BY <1>4 DEF Release, PairingStep, MapTypeOK, Pairing
<1>5. CASE Reload
  BY <1>5, ReloadSamePairings DEF PairingStep
<1>. QED
  BY <1>1, <1>2, <1>3, <1>4, <1>5 DEF MapNext

(* The empty file is up to date.                                           *)
LEMMA MapInitFileIsImage == MapInit => FileIsImage
BY DEF MapInit, FileIsImage

(* If no save fails, a character that has an id keeps it or loses it: no   *)
(* call and no restart shows it holding another one next.                  *)
THEOREM MapNeverMoves ==
  ASSUME ~SaveMayFail
  PROVE  MapSpec => BoundIdNeverMoves
<1>1. Safe => MapTypeOK
  BY DEF Safe
<1>2. MapTypeOK /\ FileIsImage /\ [MapNext]_mapVars => FileIsImage'
  BY MapStepFileIsImage
<1>3. MapTypeOK /\ FileIsImage /\ [MapNext]_mapVars
        => [\A k \in CharId : idmap[k] # NoId => idmap'[k] \in {idmap[k], NoId}]_mapVars
  BY MapStepPairings DEF PairingStep, MapTypeOK, Pairing
<1>. QED
  BY <1>1, <1>2, <1>3, MapInitSafe, MapStepSafe, MapInitFileIsImage, PTL
     DEF MapSpec, BoundIdNeverMoves

----------------------------------------------------------------------------
(* The map implements the entitlement, when no save fails.                 *)

(* An id is spent exactly when some character holds it.                    *)
LEMMA SpentPairs ==
  ASSUME MapTypeOK
  PROVE  \A p : p \in Spent <=> \E k \in CharId : idmap[k] # NoId /\ p = <<k, idmap[k]>>
BY DEF Spent

(* A step of the pairings is a step of the entitlement, or none.           *)
LEMMA PairingStepRefines ==
  MapTypeOK /\ PairingStep => [Promise!Next]_Spent
<1>. SUFFICES ASSUME MapTypeOK, PairingStep PROVE [Promise!Next]_Spent
  OBVIOUS
<1>1. CASE idmap' = idmap
  BY <1>1 DEF Spent
<1>2. ASSUME NEW k \in CharId, NEW i \in ContentId, idmap[k] = NoId, i \notin HeldIds,
             idmap' = [idmap EXCEPT ![k] = i]
      PROVE  Promise!Spend(k, i)
  <2>1. Spent' = Spent \cup {<<k, i>>}
    BY <1>2, IdsAreNumbers DEF Spent, MapTypeOK, Pairing
  <2>2. \A p \in Spent : Promise!CharOf(p) # k /\ Promise!IdOf(p) # i
    BY <1>2 DEF Spent, HeldIds, Promise!CharOf, Promise!IdOf
  <2>. QED
    BY <2>1, <2>2 DEF Promise!Spend
<1>3. ASSUME NEW k \in CharId, idmap[k] # NoId, idmap' = [idmap EXCEPT ![k] = NoId]
      PROVE  Promise!GiveBack(<<k, idmap[k]>>) /\ <<k, idmap[k]>> \in CharId \X ContentId
  <2>1. Spent' = Spent \ {<<k, idmap[k]>>}
    BY <1>3 DEF Spent, MapTypeOK, Pairing
  <2>2. <<k, idmap[k]>> \in Spent /\ idmap[k] \in ContentId
    BY <1>3 DEF Spent, MapTypeOK, Pairing
  <2>. QED
    BY <2>1, <2>2 DEF Promise!GiveBack
<1>. QED
  BY <1>1, <1>2, <1>3 DEF PairingStep, Promise!Next

(* If no save fails, the map is an entitlement: it spends free ids and     *)
(* takes them back, and never hands one over or swaps two.                 *)
THEOREM MapRefines ==
  ASSUME ~SaveMayFail
  PROVE  MapSpec => ImplementsEntitlement
<1>1. Safe => MapTypeOK
  BY DEF Safe
<1>2. MapInit => Promise!Init
  BY DEF MapInit, Promise!Init, Spent
<1>3. MapTypeOK /\ FileIsImage /\ [MapNext]_mapVars => FileIsImage'
  BY MapStepFileIsImage
<1>4. MapTypeOK /\ FileIsImage /\ [MapNext]_mapVars => [Promise!Next]_Spent
  BY MapStepPairings, PairingStepRefines
<1>. QED
  BY <1>1, <1>2, <1>3, <1>4, MapInitSafe, MapStepSafe, MapInitFileIsImage, PTL
     DEF MapSpec, ImplementsEntitlement, Promise!Spec

=============================================================================
