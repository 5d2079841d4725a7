---------------------------- MODULE ImportProofs ----------------------------
(***************************************************************************)
(* The import is type-correct, mints charids nobody else has, and never    *)
(* puts a character under another member's id; and while each member does  *)
(* one thing at a time no Content ID gets a second holder and the answers  *)
(* are true.  For any members, pools, workers and faults, failing saves    *)
(* included.                                                               *)
(***************************************************************************)
EXTENDS Import, IdMapProofs

----------------------------------------------------------------------------
(* The inductive invariant.                                                *)

(* Places at which a worker keeps the id it read as free, and those at     *)
(* which its character is there.                                           *)
Keeping == {"name", "mint", "core", "best", "bind"}
Committed == {"best", "bind"}

WorkerRecord ==
  [at : {"idle", "plan", "ids", "name", "mint", "core", "best", "bind",
         "ok", "failed", "failed late", "crashed"},
   member : Member \cup {NoMember},
   free : ContentId \cup {NoId}, char : CharId \cup {NoChar}]

(* A worker's locals: the id it keeps is its member's, the charid it has   *)
(* committed is its member's too, or was deleted since.                    *)
LocalsOK(w) ==
  /\ worker[w].at # "idle" => worker[w].member \in Member
  /\ worker[w].at \in {"idle", "plan", "ids", "name", "mint"} => worker[w].char = NoChar
  /\ worker[w].at \in Keeping => worker[w].free \in Pool[worker[w].member]
  /\ worker[w].at = "core" => worker[w].char = minted + 1
  /\ worker[w].at \in Committed =>
       /\ worker[w].char \in CharId /\ worker[w].char <= minted
       /\ owner[worker[w].char] \in {worker[w].member, NoMember}

(* The lock is held from the mint to the commit: "FOR UPDATE".             *)
LockHeld == \A w \in Worker : worker[w].at = "core" <=> lock = w

(* What a map that is read, written or loaded says: it pairs no character  *)
(* that is not there yet, and each only with an id of its owner's.         *)
ImageOK(m) ==
  \A k \in CharId :
    /\ k > minted => m[k] = NoId
    /\ owner[k] # NoMember => m[k] \in Pool[owner[k]] \cup {NoId}

ImagesOK == ImageOK(idmap) /\ ImageOK(file.pair) /\ ImageOK(cli.image.pair)

(* No row has an owner before it is there.                                 *)
UnbornUnowned == \A k \in CharId : k > minted => owner[k] = NoMember

ImportInv ==
  /\ ImportTypeOK
  /\ cli.image \in [pair : Pairing, field : [CharId -> BOOLEAN]]
  /\ \A w \in Worker : LocalsOK(w)
  /\ LockHeld
  /\ UnbornUnowned
  /\ ImagesOK

----------------------------------------------------------------------------
(* Values.                                                                 *)

(* The charids are numbers, and the absence of one is not a charid.        *)
LEMMA CharsAreNumbers == NoChar \notin CharId /\ CharId \subseteq Nat /\ MaxChar \in Nat
BY MapAssumption DEF CharId, NoChar

(* Whatever a read of accounts.db gives is part of the member's pool.      *)
LEMMA PoolReadsWithin ==
  ASSUME NEW m \in Member, NEW ids \in PoolReads(m)
  PROVE  ids \subseteq Pool[m] /\ Pool[m] \subseteq ContentId
BY ImportAssumption DEF PoolReads

(* Writing the file, or not, keeps its type.                               *)
LEMMA SaveTyped ==
  ASSUME MapTypeOK, Save \/ UNCHANGED file, idmap' \in Pairing, released' \in Pairing,
         field' \in [CharId -> BOOLEAN]
  PROVE  MapTypeOK'
<1>1. Image(idmap', field') \in [pair : Pairing, field : [CharId -> BOOLEAN]]
  BY DEF Image
<1>. QED
  BY <1>1 DEF Save, MapTypeOK

(* Every step of the map keeps its types.                                  *)
LEMMA MapStepTyped == MapTypeOK /\ [MapNext]_mapVars => MapTypeOK'
<1>. SUFFICES ASSUME MapTypeOK, [MapNext]_mapVars PROVE MapTypeOK'
  OBVIOUS
<1>2. CASE UNCHANGED mapVars
  BY <1>2 DEF mapVars, MapTypeOK
<1>3. ASSUME NEW k \in CharId, NEW prefer \in ContentId \cup {NoId},
             NEW ids \in SUBSET ContentId, Pair(k, prefer, ids)
      PROVE  MapTypeOK'
  <2> DEFINE id == ContentIdFor(k, prefer, ids)
  <2>1. id \in ContentId \cup {NoId}
    BY ContentIdForNobodysOrOwn
  <2>2. /\ idmap' = [idmap EXCEPT ![k] = id]
        /\ released' = [released EXCEPT ![k] = IF id = NoId THEN @ ELSE NoId]
        /\ field' = field
        /\ IF id = idmap[k] THEN UNCHANGED file ELSE Save
    BY <1>3 DEF Pair
  <2>. HIDE DEF id
  <2>3. idmap' \in Pairing /\ released' \in Pairing /\ field' \in [CharId -> BOOLEAN]
    BY <2>1, <2>2 DEF MapTypeOK, Pairing
  <2>. QED
    BY <2>2, <2>3, SaveTyped
<1>4. ASSUME NEW k \in CharId, Note(k) \/ NoteName(k)
      PROVE  MapTypeOK'
  <2>1. idmap' \in Pairing /\ released' \in Pairing /\ field' \in [CharId -> BOOLEAN]
    BY <1>4 DEF Note, NoteName, MapTypeOK
  <2>. QED
    BY <1>4, <2>1, SaveTyped DEF Note, NoteName
<1>5. ASSUME NEW k \in CharId, Release(k)
      PROVE  MapTypeOK'
  <2>1. idmap' \in Pairing /\ released' \in Pairing /\ field' \in [CharId -> BOOLEAN]
    BY <1>5 DEF Release, MapTypeOK, Pairing
  <2>. QED
    BY <1>5, <2>1, SaveTyped DEF Release
<1>6. CASE Reload
  BY <1>6 DEF Reload, MapTypeOK, Pairing
<1>. QED
  BY <1>2, <1>3, <1>4, <1>5, <1>6 DEF MapNext

(* What a list may do to a pairing: keep it, drop nothing, or bind an id   *)
(* of the member's that nobody holds.                                      *)
LEMMA PairWithin ==
  ASSUME MapTypeOK, NEW m \in Member, NEW k \in CharId, NEW prefer \in Pool[m] \cup {NoId},
         NEW ids \in PoolReads(m), Pair(k, prefer, ids)
  PROVE  \E id \in Pool[m] \cup {NoId, idmap[k]} :
           /\ idmap' = [idmap EXCEPT ![k] = id]
           /\ id = NoId \/ id = idmap[k] \/ id \notin HeldIds
           /\ Save \/ UNCHANGED file
<1> DEFINE id == ContentIdFor(k, prefer, ids)
<1>1. ids \subseteq Pool[m] /\ Pool[m] \subseteq ContentId
  BY PoolReadsWithin
<1>2. id = NoId \/ id = idmap[k] \/ id \notin HeldIds
  BY <1>1, ContentIdForNobodysOrOwn
<1>3. Allocated(k, ids) \in ids \cup {NoId}
  <2>1. ids \ HeldIds # {} => Lowest(ids \ HeldIds) \in ids
    BY <1>1, IdsAreNumbers, LowestIsMember
  <2>. QED
    BY <2>1 DEF Allocated
<1>4. id \in Pool[m] \cup {NoId, idmap[k]}
  BY <1>1, <1>3 DEF ContentIdFor, Named
<1>5. /\ idmap' = [idmap EXCEPT ![k] = id]
      /\ Save \/ UNCHANGED file
  BY DEF Pair
<1>. QED
  BY <1>2, <1>4, <1>5

----------------------------------------------------------------------------
(* The invariant survives every step.                                      *)

(* The highest charid is a number.                                         *)
LEMMA MintedIsNumber == ImportInv => minted \in Nat
<1>1. ImportInv => minted \in 0 .. MaxChar
  BY DEF ImportInv, ImportTypeOK
<1>. QED
  BY <1>1, CharsAreNumbers

(* The empty map and idle workers.                                         *)
LEMMA InitInv == Init => ImportInv
<1>. SUFFICES ASSUME Init PROVE ImportInv
  OBVIOUS
<1>1. MapTypeOK
  BY MapInitSafe DEF Init, Safe
<1>2. ImportTypeOK
  <2>1. Idle \in WorkerRecord
    BY DEF Idle, WorkerRecord
  <2>2. worker \in [Worker -> WorkerRecord]
    BY <2>1 DEF Init
  <2>3. minted \in 0 .. MaxChar
    BY CharsAreNumbers DEF Init
  <2>4. /\ owner \in [CharId -> Member \cup {NoMember}]
        /\ lock \in Worker \cup {NoWorker}
        /\ cli.member \in Member \cup {NoMember}
    BY DEF Init, NoCli
  <2>. QED
    BY <1>1, <2>2, <2>3, <2>4 DEF ImportTypeOK, WorkerRecord
<1>3. /\ cli.image \in [pair : Pairing, field : [CharId -> BOOLEAN]]
      /\ ImagesOK
  <2>1. idmap = [k \in CharId |-> NoId]
    BY DEF Init, MapInit
  <2>2. file.pair = [k \in CharId |-> NoId]
    BY DEF Init, MapInit, Image
  <2>3. cli.image.pair = [k \in CharId |-> NoId]
    BY DEF Init, NoCli, Image
  <2>4. cli.image \in [pair : Pairing, field : [CharId -> BOOLEAN]]
    BY DEF Init, NoCli, Image, Pairing
  <2>. QED
    BY <2>1, <2>2, <2>3, <2>4 DEF ImagesOK, ImageOK
<1>4. \A w \in Worker : LocalsOK(w)
  BY DEF Init, LocalsOK, Idle, Keeping, Committed
<1>5. LockHeld /\ UnbornUnowned
  BY ImportAssumption DEF Init, LockHeld, UnbornUnowned, Idle
<1>. QED
  BY <1>2, <1>3, <1>4, <1>5 DEF ImportInv

(* What a step to another place leaves: the worker's locals, and everybody *)
(* else's.                                                                 *)
LEMMA GoKeeps ==
  ASSUME worker \in [Worker -> WorkerRecord], NEW w \in Worker,
         NEW at \in {"idle", "plan", "ids", "name", "mint", "core", "best", "bind",
                     "ok", "failed", "failed late", "crashed"}, Go(w, at)
  PROVE  /\ worker' \in [Worker -> WorkerRecord]
         /\ worker'[w].at = at
         /\ worker'[w].member = worker[w].member
         /\ worker'[w].free = worker[w].free
         /\ worker'[w].char = worker[w].char
         /\ \A v \in Worker \ {w} : worker'[v] = worker[v]
<1>1. worker' = [worker EXCEPT ![w] = [worker[w] EXCEPT !.at = at]]
  BY DEF Go
<1>2. [worker[w] EXCEPT !.at = at] \in WorkerRecord
  BY DEF WorkerRecord
<1>. QED
  BY <1>1, <1>2 DEF WorkerRecord

(* A step of one worker that writes neither the map nor the database.      *)
LEMMA LocalStep ==
  ASSUME ImportInv, NEW w \in Worker, UNCHANGED <<mapVars, minted, owner, cli>>,
         worker' \in [Worker -> WorkerRecord], lock' \in Worker \cup {NoWorker},
         \A v \in Worker \ {w} : worker'[v] = worker[v] /\ (lock' = v <=> lock = v),
         LocalsOK(w)', worker'[w].at = "core" <=> lock' = w
  PROVE  ImportInv'
<1>1. /\ ImagesOK' /\ UnbornUnowned' /\ MapTypeOK'
      /\ cli'.image \in [pair : Pairing, field : [CharId -> BOOLEAN]]
  BY DEF ImportInv, ImportTypeOK, ImagesOK, ImageOK, UnbornUnowned, MapTypeOK, mapVars
<1>2. ImportTypeOK'
  BY <1>1 DEF ImportInv, ImportTypeOK, WorkerRecord
<1>3. \A v \in Worker : LocalsOK(v)'
  BY DEF ImportInv, LocalsOK
<1>4. LockHeld'
  BY DEF ImportInv, LockHeld
<1>. QED
  BY <1>1, <1>2, <1>3, <1>4 DEF ImportInv

(* A worker moves on without a commit and without the map: it fails, or    *)
(* goes on with the locals it has.                                         *)
LEMMA GoInv ==
  ASSUME ImportInv, NEW w \in Worker,
         \/ Plan(w) \/ Prepare(w) \/ MintFails(w) \/ OutOfCharids(w)
         \/ CoreFails(w) \/ Best(w) \/ LoseConnection(w)
  PROVE  ImportInv'
<1>1. /\ worker \in [Worker -> WorkerRecord] /\ lock \in Worker \cup {NoWorker}
      /\ LocalsOK(w)
      /\ worker[w].at = "core" <=> lock = w
  BY DEF ImportInv, ImportTypeOK, WorkerRecord, LockHeld
<1>2. NoWorker \notin Worker
  BY ImportAssumption
<1>3. CASE Plan(w) \/ Prepare(w) \/ MintFails(w) \/ OutOfCharids(w)
  <2>1. PICK at \in {"ids", "mint", "failed", "crashed"} :
           Go(w, at) /\ (at = "mint" => worker[w].at = "name")
                     /\ (at = "ids" => worker[w].at = "plan")
    BY <1>3 DEF Plan, Prepare, MintFails, OutOfCharids
  <2>2. /\ UNCHANGED <<mapVars, minted, owner, lock, cli>>
        /\ worker[w].at \in {"plan", "name", "mint"}
    BY <1>3 DEF Plan, Prepare, MintFails, OutOfCharids
  <2>3. LocalsOK(w)' /\ (worker'[w].at = "core" <=> lock' = w)
    BY <1>1, <2>1, <2>2, GoKeeps DEF LocalsOK, Keeping, Committed
  <2>. QED
    BY <1>1, <2>1, <2>2, <2>3, GoKeeps, LocalStep
<1>4. CASE CoreFails(w)
  <2>1. /\ UNCHANGED <<mapVars, minted, owner, cli>> /\ Go(w, "failed")
        /\ worker[w].at = "core" /\ lock' = NoWorker /\ lock = w
    BY <1>1, <1>4 DEF CoreFails
  <2>2. LocalsOK(w)' /\ (worker'[w].at = "core" <=> lock' = w)
    BY <1>1, <1>2, <2>1, GoKeeps DEF LocalsOK, Keeping, Committed
  <2>. QED
    BY <1>1, <1>2, <2>1, <2>2, GoKeeps, LocalStep
<1>5. CASE Best(w) \/ LoseConnection(w)
  <2>1. PICK at \in {"bind", "failed late"} : Go(w, at)
    BY <1>5 DEF Best, LoseConnection
  <2>2. UNCHANGED <<mapVars, minted, owner, lock, cli>> /\ worker[w].at = "best"
    BY <1>5 DEF Best, LoseConnection
  <2>3. LocalsOK(w)' /\ (worker'[w].at = "core" <=> lock' = w)
    BY <1>1, <2>1, <2>2, GoKeeps DEF LocalsOK, Keeping, Committed
  <2>. QED
    BY <1>1, <2>1, <2>2, <2>3, GoKeeps, LocalStep
<1>. QED
  BY <1>3, <1>4, <1>5

(* A worker starts, with the locals of nobody.                             *)
LEMMA StartInv ==
  ASSUME ImportInv, NEW w \in Worker, NEW m \in Member, Start(w, m)
  PROVE  ImportInv'
<1> DEFINE r == [Idle EXCEPT !.at = "plan", !.member = m]
<1>1. worker' = [worker EXCEPT ![w] = r] /\ UNCHANGED <<mapVars, minted, owner, lock, cli>>
  BY DEF Start
<1>2. worker \in [Worker -> WorkerRecord] /\ lock \in Worker \cup {NoWorker}
  BY DEF ImportInv, ImportTypeOK, WorkerRecord
<1>3. r.at = "plan" /\ r.member = m /\ r.free = NoId /\ r.char = NoChar
  BY DEF Idle
<1>4. r \in WorkerRecord
  BY DEF Idle, WorkerRecord
<1>. HIDE DEF r
<1>5. worker' \in [Worker -> WorkerRecord] /\ worker'[w] = r
  BY <1>1, <1>2, <1>4
<1>6. lock # w
  BY DEF ImportInv, LockHeld, Start, Busy, Replied
<1>7. LocalsOK(w)'
  BY <1>3, <1>5 DEF LocalsOK, Keeping, Committed
<1>. QED
  BY <1>1, <1>2, <1>3, <1>5, <1>6, <1>7, LocalStep

(* A worker reads the ids: what it keeps is one of its member's.           *)
LEMMA ReadIdsInv ==
  ASSUME ImportInv, NEW w \in Worker, ReadIds(w)
  PROVE  ImportInv'
<1>1. /\ worker \in [Worker -> WorkerRecord] /\ lock \in Worker \cup {NoWorker}
      /\ LocalsOK(w) /\ worker[w].at = "ids" /\ worker[w].member \in Member
      /\ lock # w
  BY DEF ImportInv, ImportTypeOK, WorkerRecord, LockHeld, LocalsOK, ReadIds
<1>2. PICK ids \in PoolReads(worker[w].member) :
        worker' = [worker EXCEPT
                    ![w].at = IF ids \ HeldIds = {} THEN "failed" ELSE "name",
                    ![w].free = IF ids \ HeldIds = {} THEN NoId ELSE Lowest(ids \ HeldIds)]
  BY DEF ReadIds
<1> DEFINE free == ids \ HeldIds
           at == IF free = {} THEN "failed" ELSE "name"
           id == IF free = {} THEN NoId ELSE Lowest(free)
           r == [[worker[w] EXCEPT !.at = at] EXCEPT !.free = id]
<1>3. \/ at = "failed"
      \/ at = "name" /\ id \in Pool[worker[w].member] /\ id \in ContentId
  <2>1. ids \subseteq Pool[worker[w].member] /\ Pool[worker[w].member] \subseteq ContentId
    BY <1>1, PoolReadsWithin
  <2>2. free # {} => Lowest(free) \in free
    <3>. HIDE DEF free
    <3>1. free \subseteq Nat
      BY <2>1, IdsAreNumbers DEF free
    <3>. QED
      BY <3>1, LowestIsMember
  <2>3. CASE free = {}
    BY <2>3
  <2>4. CASE free # {}
    <3>1. at = "name" /\ id \in free
      BY <2>2, <2>4
    <3>. QED
      BY <2>1, <3>1
  <2>. QED
    BY <2>3, <2>4
<1>4. at \in {"failed", "name"} /\ id \in ContentId \cup {NoId}
  BY <1>3
<1>. HIDE DEF at, id
<1>5. /\ r \in WorkerRecord
      /\ r.at = at /\ r.free = id /\ r.member = worker[w].member /\ r.char = worker[w].char
  BY <1>1, <1>4 DEF WorkerRecord
<1>6. worker' = [worker EXCEPT ![w] = r]
  BY <1>1, <1>2 DEF at, id
<1>. HIDE DEF r
<1>7. worker' \in [Worker -> WorkerRecord] /\ worker'[w] = r
  BY <1>1, <1>5, <1>6
<1>8. LocalsOK(w)'
  BY <1>1, <1>3, <1>4, <1>5, <1>7 DEF LocalsOK, Keeping, Committed
<1>9. UNCHANGED <<mapVars, minted, owner, lock, cli>>
  BY DEF ReadIds
<1>. QED
  BY <1>1, <1>4, <1>5, <1>6, <1>7, <1>8, <1>9, LocalStep

(* A worker mints the next charid and holds the lock.                      *)
LEMMA MintInv ==
  ASSUME ImportInv, NEW w \in Worker, Mint(w)
  PROVE  ImportInv'
<1>1. /\ worker \in [Worker -> WorkerRecord] /\ minted \in 0 .. MaxChar
      /\ LocalsOK(w) /\ worker[w].at = "mint" /\ lock = NoWorker /\ minted < MaxChar
  BY DEF ImportInv, ImportTypeOK, WorkerRecord, Mint
<1> DEFINE r == [[worker[w] EXCEPT !.at = "core"] EXCEPT !.char = minted + 1]
<1>2. worker' = [worker EXCEPT ![w] = r] /\ lock' = w /\ UNCHANGED <<mapVars, minted, owner, cli>>
  BY <1>1 DEF Mint
<1>3. /\ r \in WorkerRecord
      /\ r.at = "core" /\ r.char = minted + 1
      /\ r.member = worker[w].member /\ r.free = worker[w].free
  <2>1. minted + 1 \in CharId
    BY <1>1, CharsAreNumbers DEF CharId
  <2>. QED
    BY <1>1, <2>1 DEF WorkerRecord
<1>. HIDE DEF r
<1>4. worker' \in [Worker -> WorkerRecord] /\ worker'[w] = r
  BY <1>1, <1>2, <1>3
<1>5. LocalsOK(w)'
  BY <1>1, <1>2, <1>3, <1>4 DEF LocalsOK, Keeping, Committed
<1>6. NoWorker \notin Worker
  BY ImportAssumption
<1>. QED
  BY <1>1, <1>2, <1>3, <1>4, <1>5, <1>6, LocalStep

(* A character is born, by a commit of an import or by LSB: it is the next *)
(* one, so no image and no worker knew of it.                              *)
LEMMA Born ==
  ASSUME ImportInv, NEW m \in Member, minted < MaxChar, minted' = minted + 1,
         owner' = [owner EXCEPT ![minted + 1] = m], UNCHANGED <<mapVars, cli>>
  PROVE  /\ minted' \in 0 .. MaxChar /\ owner' \in [CharId -> Member \cup {NoMember}]
         /\ MapTypeOK' /\ UnbornUnowned' /\ ImagesOK'
         /\ \A v \in Worker : worker[v].at # "core" /\ worker'[v] = worker[v] => LocalsOK(v)'
<1>1. /\ minted \in 0 .. MaxChar /\ MaxChar \in Nat /\ CharId = 1 .. MaxChar
      /\ owner \in [CharId -> Member \cup {NoMember}]
  BY MapAssumption DEF ImportInv, ImportTypeOK, CharId
<1>2. MapTypeOK'
  BY DEF ImportInv, ImportTypeOK, MapTypeOK, mapVars
<1>3. \A k \in CharId : owner'[k] = IF k = minted + 1 THEN m ELSE owner[k]
  BY <1>1
<1>4. UnbornUnowned'
  BY <1>1, <1>3 DEF ImportInv, UnbornUnowned
<1>5. \A f : ImageOK(f) => \A k \in CharId :
        /\ k > minted' => f[k] = NoId
        /\ owner'[k] # NoMember => f[k] \in Pool[owner'[k]] \cup {NoId}
  BY <1>1, <1>3 DEF ImageOK
<1>6. ImagesOK'
  BY <1>5 DEF ImportInv, ImagesOK, ImageOK, mapVars
<1>7. ASSUME NEW v \in Worker, worker[v].at # "core", worker'[v] = worker[v]
      PROVE  LocalsOK(v)'
  <2>1. LocalsOK(v)
    BY DEF ImportInv
  <2>. QED
    BY <1>1, <1>3, <1>7, <2>1 DEF LocalsOK, Keeping, Committed
<1>. QED
  BY <1>1, <1>2, <1>4, <1>6, <1>7

(* The commit of an import.                                                *)
LEMMA CoreInv ==
  ASSUME ImportInv, NEW w \in Worker, Core(w)
  PROVE  ImportInv'
<1>1. /\ worker \in [Worker -> WorkerRecord] /\ minted \in 0 .. MaxChar
      /\ LocalsOK(w) /\ LockHeld /\ worker[w].at = "core"
      /\ worker[w].member \in Member /\ worker[w].char = minted + 1
      /\ lock = w /\ NoWorker \notin Worker
  BY ImportAssumption DEF ImportInv, ImportTypeOK, WorkerRecord, Core, LocalsOK, LockHeld
<1>2. minted < MaxChar /\ worker[w].char \in CharId
  <2>1. worker[w].char \in CharId \cup {NoChar}
    BY <1>1 DEF WorkerRecord
  <2>2. minted \in 0 .. MaxChar /\ MaxChar \in Nat /\ minted + 1 \in CharId \cup {NoChar}
    BY <1>1, <2>1, CharsAreNumbers
  <2>3. minted < MaxChar /\ minted + 1 \in CharId
    BY <2>2 DEF CharId, NoChar
  <2>. QED
    BY <1>1, <2>3
<1>3. /\ minted' = minted + 1 /\ owner' = [owner EXCEPT ![minted + 1] = worker[w].member]
      /\ UNCHANGED <<mapVars, cli>> /\ lock' = NoWorker /\ Go(w, "best")
  BY <1>1 DEF Core
<1>4. /\ minted' \in 0 .. MaxChar /\ owner' \in [CharId -> Member \cup {NoMember}]
      /\ MapTypeOK' /\ UnbornUnowned' /\ ImagesOK'
  BY <1>1, <1>2, <1>3, Born
<1>5. ASSUME NEW v \in Worker \ {w} PROVE LocalsOK(v)'
  <2>1. worker'[v] = worker[v] /\ worker[v].at # "core"
    BY <1>1, <1>3, GoKeeps DEF LockHeld
  <2>. QED
    BY <1>1, <1>2, <1>3, <2>1, Born
<1>6. LocalsOK(w)'
  <2>1. owner'[minted + 1] = worker[w].member
    BY <1>1, <1>2, <1>3 DEF ImportInv, ImportTypeOK
  <2>2. /\ worker'[w].at = "best" /\ worker'[w].member = worker[w].member
        /\ worker'[w].free = worker[w].free /\ worker'[w].char = minted + 1
    BY <1>1, <1>3, GoKeeps
  <2>3. minted + 1 \in CharId /\ minted + 1 <= minted'
    BY <1>1, <1>2, <1>3
  <2>4. worker[w].free \in Pool[worker[w].member]
    BY <1>1 DEF LocalsOK, Keeping
  <2>. QED
    BY <1>1, <2>1, <2>2, <2>3, <2>4 DEF LocalsOK, Keeping, Committed
<1>7. LockHeld'
  BY <1>1, <1>3, GoKeeps DEF LockHeld
<1>8. worker' \in [Worker -> WorkerRecord]
  BY <1>1, <1>3, GoKeeps
<1>. QED
  BY <1>3, <1>4, <1>5, <1>6, <1>7, <1>8 DEF ImportInv, ImportTypeOK, WorkerRecord

(* A character LSB creates for a member in the game; no import holds the   *)
(* lock, so none has a charid it counts on.                                *)
LEMMA LobbyCreateInv ==
  ASSUME ImportInv, NEW m \in Member, LobbyCreate(m)
  PROVE  ImportInv'
<1>1. /\ minted < MaxChar /\ minted' = minted + 1 /\ owner' = [owner EXCEPT ![minted + 1] = m]
      /\ UNCHANGED <<mapVars, cli>> /\ UNCHANGED <<lock, worker>> /\ lock = NoWorker
  BY DEF LobbyCreate
<1>2. \A v \in Worker : worker[v].at # "core"
  BY <1>1, ImportAssumption DEF ImportInv, LockHeld
<1>3. /\ minted' \in 0 .. MaxChar /\ owner' \in [CharId -> Member \cup {NoMember}]
      /\ MapTypeOK' /\ UnbornUnowned' /\ ImagesOK'
      /\ \A v \in Worker : LocalsOK(v)'
  BY <1>1, <1>2, Born
<1>. QED
  BY <1>1, <1>3 DEF ImportInv, ImportTypeOK, LockHeld

(* A map that pairs as it should is saved, or is not.                      *)
LEMMA SavedImages ==
  ASSUME ImagesOK, ImageOK(idmap)', Save \/ UNCHANGED file, minted' = minted, cli' = cli,
         \A k \in CharId : owner'[k] \in {owner[k], NoMember}
  PROVE  ImagesOK'
<1>1. \A f : ImageOK(f) => \A k \in CharId :
        /\ k > minted' => f[k] = NoId
        /\ owner'[k] # NoMember => f[k] \in Pool[owner'[k]] \cup {NoId}
  BY DEF ImageOK
<1>2. ImageOK(cli.image.pair)'
  BY <1>1 DEF ImagesOK, ImageOK
<1>3. CASE UNCHANGED file
  BY <1>1, <1>2, <1>3 DEF ImagesOK, ImageOK
<1>4. CASE file' = Image(idmap', field')
  <2>1. file'.pair = idmap'
    BY <1>4 DEF Image
  <2>. QED
    BY <1>2, <2>1 DEF ImagesOK, ImageOK
<1>. QED
  BY <1>3, <1>4 DEF Save

(* The bind gives a character an id of the member's, held or not.          *)
LEMMA BindInv ==
  ASSUME ImportInv, NEW w \in Worker, Bind(w)
  PROVE  ImportInv'
<1> DEFINE k == worker[w].char
           i == worker[w].free
<1>1. /\ worker \in [Worker -> WorkerRecord] /\ lock \in Worker \cup {NoWorker}
      /\ MapTypeOK /\ LocalsOK(w) /\ LockHeld /\ ImagesOK /\ worker[w].at = "bind"
      /\ minted \in 0 .. MaxChar
  BY DEF ImportInv, ImportTypeOK, WorkerRecord, Bind
<1>2. /\ worker[w].member \in Member /\ i \in Pool[worker[w].member]
      /\ k \in CharId /\ k <= minted /\ owner[k] \in {worker[w].member, NoMember}
  BY <1>1 DEF LocalsOK, Keeping, Committed
<1>3. /\ idmap' = [idmap EXCEPT ![k] = i] /\ UNCHANGED <<released, field>> /\ Save
      /\ Go(w, "ok") /\ UNCHANGED <<minted, owner, lock, cli>>
  BY DEF Bind
<1>4. i \in ContentId
  BY <1>2, ImportAssumption
<1>5. MapTypeOK'
  <2>1. /\ idmap' \in Pairing /\ released' \in Pairing /\ field' \in [CharId -> BOOLEAN]
    BY <1>1, <1>2, <1>3, <1>4 DEF MapTypeOK, Pairing
  <2>. QED
    BY <1>1, <1>3, <2>1, SaveTyped
<1>6. ImagesOK'
  <2>1. ImageOK(idmap)'
    <3>1. \A j \in CharId : idmap'[j] = IF j = k THEN i ELSE idmap[j]
      BY <1>1, <1>3 DEF MapTypeOK, Pairing
    <3>. HIDE DEF k, i
    <3>2. k \in Nat /\ k <= minted
      BY <1>2, CharsAreNumbers
    <3>3. minted \in Nat
      BY <1>1, CharsAreNumbers
    <3>4. ~(k > minted)
      BY <3>2, <3>3
    <3>. QED
      BY <1>1, <1>2, <1>3, <3>1, <3>4 DEF ImagesOK, ImageOK
  <2>. QED
    BY <1>1, <1>3, <2>1, SavedImages
<1>7. LocalsOK(w)' /\ \A v \in Worker \ {w} : LocalsOK(v)'
  <2>1. worker'[w].at = "ok" /\ worker'[w].member = worker[w].member
    BY <1>1, <1>3, GoKeeps
  <2>2. LocalsOK(w)'
    BY <1>2, <2>1 DEF LocalsOK, Keeping, Committed
  <2>3. ASSUME NEW v \in Worker \ {w} PROVE LocalsOK(v)'
    <3>1. worker'[v] = worker[v] /\ LocalsOK(v)
      BY <1>1, <1>3, GoKeeps DEF ImportInv
    <3>. QED
      BY <1>3, <3>1 DEF LocalsOK
  <2>. QED
    BY <2>2, <2>3
<1>8. LockHeld'
  BY <1>1, <1>3, GoKeeps DEF LockHeld
<1>9. worker' \in [Worker -> WorkerRecord]
  BY <1>1, <1>3, GoKeeps
<1>. QED
  BY <1>3, <1>5, <1>6, <1>7, <1>8, <1>9
     DEF ImportInv, ImportTypeOK, UnbornUnowned, WorkerRecord

(* A step of the map alone, or with an owner taken off a row, that leaves  *)
(* the map pairing as it should.                                           *)
LEMMA MapOnlyInv ==
  ASSUME ImportInv, [MapNext]_mapVars, ImageOK(idmap)', Save \/ UNCHANGED file,
         UNCHANGED <<minted, lock, worker, cli>>,
         owner' \in [CharId -> Member \cup {NoMember}],
         \A k \in CharId : owner'[k] \in {owner[k], NoMember}
  PROVE  ImportInv'
<1>1. MapTypeOK'
  BY MapStepTyped DEF ImportInv, ImportTypeOK
<1>2. ImagesOK'
  BY SavedImages DEF ImportInv
<1>3. UnbornUnowned' /\ LockHeld'
  BY DEF ImportInv, UnbornUnowned, LockHeld
<1>4. ASSUME NEW w \in Worker PROVE LocalsOK(w)'
  BY DEF ImportInv, LocalsOK
<1>. QED
  BY <1>1, <1>2, <1>3, <1>4 DEF ImportInv, ImportTypeOK

(* A list pairs a character of the account's.                              *)
LEMMA LobbyPairInv ==
  ASSUME ImportInv, NEW m \in Member, LobbyPair(m)
  PROVE  ImportInv'
<1>1. PICK k \in Owned(m), prefer \in Pool[m] \cup {NoId}, ids \in PoolReads(m) :
        Pair(k, prefer, ids)
  BY DEF LobbyPair
<1>2. k \in CharId /\ owner[k] = m /\ m # NoMember
  BY ImportAssumption DEF Owned
<1>3. MapTypeOK /\ ImagesOK /\ UnbornUnowned
  BY DEF ImportInv, ImportTypeOK
<1>4. PICK id \in Pool[m] \cup {NoId, idmap[k]} :
        /\ idmap' = [idmap EXCEPT ![k] = id]
        /\ Save \/ UNCHANGED file
  BY <1>1, <1>2, <1>3, PairWithin
<1>5. ids \subseteq ContentId /\ Pool[m] \subseteq ContentId
  BY PoolReadsWithin
<1>6. MapNext
  BY <1>1, <1>2, <1>5 DEF MapNext
<1>7. UNCHANGED <<minted, owner, lock, worker, cli>>
  BY DEF LobbyPair, importVars
<1>8. ImageOK(idmap)'
  <2>1. ~(k > minted) /\ id \in Pool[m] \cup {NoId}
    BY <1>2, <1>3 DEF UnbornUnowned, ImagesOK, ImageOK
  <2>2. \A j \in CharId : idmap'[j] = IF j = k THEN id ELSE idmap[j]
    BY <1>3, <1>4 DEF MapTypeOK, Pairing
  <2>. QED
    BY <1>2, <1>3, <1>7, <2>1, <2>2 DEF ImagesOK, ImageOK
<1>. QED
  BY <1>4, <1>6, <1>7, <1>8, MapOnlyInv DEF ImportInv, ImportTypeOK

(* A delete releases the character, and LSB takes the row off the account  *)
(* or refuses.                                                             *)
LEMMA LobbyDeleteInv ==
  ASSUME ImportInv, NEW m \in Member, LobbyDelete(m)
  PROVE  ImportInv'
<1>1. PICK k \in Owned(m) : /\ idmap[k] # NoId /\ Release(k)
                            /\ \/ owner' = [owner EXCEPT ![k] = NoMember]
                               \/ UNCHANGED owner
  BY DEF LobbyDelete
<1>2. /\ k \in CharId /\ MapTypeOK /\ ImagesOK
      /\ owner \in [CharId -> Member \cup {NoMember}]
  BY DEF ImportInv, ImportTypeOK, Owned
<1>3. UNCHANGED <<minted, lock, worker, cli>>
  BY DEF LobbyDelete
<1>4. idmap' = [idmap EXCEPT ![k] = NoId] /\ Save /\ MapNext
  BY <1>1, <1>2 DEF Release, MapNext
<1>5. /\ owner' \in [CharId -> Member \cup {NoMember}]
      /\ \A j \in CharId : owner'[j] \in {owner[j], NoMember}
  BY <1>1, <1>2
<1>6. ImageOK(idmap)'
  <2>1. \A j \in CharId : idmap'[j] \in {idmap[j], NoId}
    BY <1>2, <1>4 DEF MapTypeOK, Pairing
  <2>. QED
    BY <1>2, <1>3, <1>5, <2>1 DEF ImagesOK, ImageOK
<1>. QED
  BY <1>3, <1>4, <1>5, <1>6, MapOnlyInv

(* The operator's bind, which writes the image it loaded and one pairing.  *)
LEMMA CliInv ==
  ASSUME ImportInv, NEW m \in Member, CliLoad(m) \/ CliBind(m) \/ CliRefuse(m)
  PROVE  ImportInv'
<1>1. UNCHANGED <<idmap, released, field, minted, owner, lock, worker>>
  BY DEF CliLoad, CliBind, CliRefuse, mapVars
<1>2. \A f : ImageOK(f) => \A k \in CharId :
        /\ k > minted' => f[k] = NoId
        /\ owner'[k] # NoMember => f[k] \in Pool[owner'[k]] \cup {NoId}
  BY <1>1 DEF ImageOK
<1>3. /\ MapTypeOK /\ ImagesOK /\ UnbornUnowned
      /\ cli.image \in [pair : Pairing, field : [CharId -> BOOLEAN]]
  BY DEF ImportInv, ImportTypeOK
<1> DEFINE Mapped == /\ file' \in [pair : Pairing, field : [CharId -> BOOLEAN]]
                     /\ cli'.image \in [pair : Pairing, field : [CharId -> BOOLEAN]]
                     /\ cli'.member \in Member \cup {NoMember}
                     /\ ImagesOK'
<1>4. CASE CliLoad(m)
  <2>1. file' = file /\ cli' = [member |-> m, image |-> file]
    BY <1>4 DEF CliLoad, mapVars
  <2>. QED
    <3>1. Mapped
      BY <1>1, <1>2, <1>3, <2>1 DEF MapTypeOK, ImagesOK, ImageOK
    <3>. QED
      BY <1>1, <3>1 DEF ImportInv, ImportTypeOK, MapTypeOK, UnbornUnowned, LockHeld, LocalsOK
<1>5. /\ NoCli.image \in [pair : Pairing, field : [CharId -> BOOLEAN]]
      /\ NoCli.member = NoMember
      /\ \A k \in CharId : NoCli.image.pair[k] = NoId
  BY DEF NoCli, Image, Pairing
<1>6. CASE CliRefuse(m)
  <2>1. file' = file /\ cli' = NoCli
    BY <1>6 DEF CliRefuse, mapVars
  <2>. QED
    <3>1. Mapped
      BY <1>1, <1>2, <1>3, <1>5, <2>1 DEF MapTypeOK, ImagesOK, ImageOK
    <3>. QED
      BY <1>1, <3>1 DEF ImportInv, ImportTypeOK, MapTypeOK, UnbornUnowned, LockHeld, LocalsOK
<1>7. CASE CliBind(m)
  <2>1. PICK k \in Owned(m), i \in Pool[m] :
          file' = Image([cli.image.pair EXCEPT ![k] = i], cli.image.field)
    BY <1>7 DEF CliBind
  <2>2. cli' = NoCli
    BY <1>7 DEF CliBind
  <2>3. k \in CharId /\ owner[k] = m /\ i \in ContentId /\ m # NoMember /\ ~(k > minted)
    BY <1>3, ImportAssumption DEF Owned, UnbornUnowned
  <2>4. /\ file' \in [pair : Pairing, field : [CharId -> BOOLEAN]]
        /\ file'.pair = [cli.image.pair EXCEPT ![k] = i]
    <3>1. [cli.image.pair EXCEPT ![k] = i] \in Pairing
      BY <1>3, <2>3 DEF Pairing
    <3>. QED
      BY <1>3, <2>1, <3>1 DEF Image
  <2>5. \A j \in CharId : file'.pair[j] = IF j = k THEN i ELSE cli.image.pair[j]
    BY <1>3, <2>4 DEF Pairing
  <2>6. ImageOK(file.pair)'
    BY <1>1, <1>3, <2>3, <2>5 DEF ImagesOK, ImageOK
  <2>7. Mapped
    BY <1>1, <1>2, <1>3, <1>5, <2>2, <2>4, <2>6 DEF ImagesOK, ImageOK
  <2>. QED
    BY <1>1, <2>7 DEF ImportInv, ImportTypeOK, MapTypeOK, UnbornUnowned, LockHeld, LocalsOK
<1>. QED
  BY <1>4, <1>6, <1>7

(* A restart: every worker idle, the lock free, the file read back.        *)
LEMMA RestartInv ==
  ASSUME ImportInv, Restart
  PROVE  ImportInv'
<1>1. /\ Reload /\ worker' = [w \in Worker |-> Idle] /\ lock' = NoWorker
      /\ UNCHANGED <<minted, owner, cli>>
  BY DEF Restart
<1>2. MapTypeOK'
  BY <1>1, MapStepTyped DEF ImportInv, ImportTypeOK, MapNext
<1>3. ImagesOK' /\ UnbornUnowned'
  BY <1>1 DEF ImportInv, ImagesOK, ImageOK, UnbornUnowned, Reload
<1>4. worker' \in [Worker -> WorkerRecord]
  <2>1. Idle \in WorkerRecord
    BY DEF Idle, WorkerRecord
  <2>. QED
    BY <1>1, <2>1
<1>5. \A w \in Worker : worker'[w].at = "idle" /\ worker'[w].char = NoChar
  BY <1>1 DEF Idle
<1>6. LockHeld' /\ \A w \in Worker : LocalsOK(w)'
  BY <1>1, <1>5, ImportAssumption DEF LockHeld, LocalsOK, Keeping, Committed
<1>. QED
  BY <1>1, <1>2, <1>3, <1>4, <1>6 DEF ImportInv, ImportTypeOK, WorkerRecord

(* Every step.                                                             *)
LEMMA StepInv == ImportInv /\ [Next]_vars => ImportInv'
<1>. SUFFICES ASSUME ImportInv, [Next]_vars PROVE ImportInv'
  OBVIOUS
<1>1. ASSUME NEW w \in Worker, Working(w) PROVE ImportInv'
  BY <1>1, ReadIdsInv, GoInv, CoreInv, BindInv DEF Working
<1>2. ASSUME NEW w \in Worker, Mint(w) \/ MintFails(w) PROVE ImportInv'
  BY <1>2, MintInv, GoInv
<1>3. ASSUME NEW w \in Worker, NEW m \in Member, Start(w, m) PROVE ImportInv'
  BY <1>3, StartInv
<1>4. ASSUME NEW m \in Member, CliLoad(m) \/ CliBind(m) \/ CliRefuse(m) PROVE ImportInv'
  BY <1>4, CliInv
<1>5. ASSUME NEW m \in Member, LobbyCreate(m) \/ LobbyPair(m) \/ LobbyDelete(m)
      PROVE  ImportInv'
  BY <1>5, LobbyCreateInv, LobbyPairInv, LobbyDeleteInv
<1>6. CASE Restart
  BY <1>6, RestartInv
<1>7. CASE UNCHANGED vars
  <2>1. UNCHANGED <<idmap, released, field, file, minted, owner, lock, worker, cli>>
    BY <1>7 DEF vars, mapVars, importVars
  <2>. QED
    BY <2>1 DEF ImportInv, ImportTypeOK, MapTypeOK, LocalsOK, LockHeld, UnbornUnowned,
                ImagesOK, ImageOK
<1>. QED
  BY <1>1, <1>2, <1>3, <1>4, <1>5, <1>6, <1>7 DEF Next

(* The invariant holds throughout.                                         *)
LEMMA ImportInvariant == Spec => []ImportInv
BY InitInv, StepInv, PTL DEF Spec

----------------------------------------------------------------------------
(* What follows for any import, alone or not, and whatever fails.          *)

(* The import, the operator's bind and the lobby beside it keep their      *)
(* types.                                                                  *)
THEOREM ImportTypeCorrect == Spec => []ImportTypeOK
<1>1. ImportInv => ImportTypeOK
  BY DEF ImportInv
<1>. QED
  BY <1>1, ImportInvariant, PTL

(* No two imports, and no import and LSB itself, ever insert under one     *)
(* charid: the one an import minted is still the next when it inserts.     *)
THEOREM ImportMintsTheNext == Spec => []MintedIsNext
<1>1. ImportInv => MintedIsNext
  BY DEF ImportInv, LocalsOK, MintedIsNext
<1>. QED
  BY <1>1, ImportInvariant, PTL

(* No character is ever under an id of another member, whoever bound it,   *)
(* over whichever loss of the file, and in however many imports at once.   *)
THEOREM ImportStaysInPool == Spec => []PairedWithinPool
<1>1. ImportInv => PairedWithinPool
  BY DEF ImportInv, ImagesOK, ImageOK, PairedWithinPool
<1>. QED
  BY <1>1, ImportInvariant, PTL

----------------------------------------------------------------------------
(* While each member does one thing at a time.                             *)

(* An import is the only one of its member, and the operator is not        *)
(* binding for that member.                                                *)
Alone(w) ==
  Busy(w) => /\ cli.member # worker[w].member
             /\ \A v \in Worker \ {w} : Busy(v) => worker[v].member # worker[w].member

(* What an import read and did still stands: the id it keeps is free, the  *)
(* character it committed is still its member's.                           *)
Undisturbed(w) ==
  /\ worker[w].at \in Keeping => worker[w].free \notin HeldIds
  /\ worker[w].at \in Committed => owner[worker[w].char] = worker[w].member

NoDoubles == OneHolder(idmap) /\ OneHolder(file.pair) /\ OneHolder(cli.image.pair)

Apart ==
  /\ NoDoubles
  /\ \A w \in Worker : Alone(w) /\ Undisturbed(w)

(* Nobody at work on an empty map.                                         *)
LEMMA InitApart == Init => Apart
<1>. SUFFICES ASSUME Init PROVE Apart
  OBVIOUS
<1>1. NoDoubles
  BY DEF Init, MapInit, NoCli, Image, NoDoubles, OneHolder
<1>2. \A w \in Worker : worker[w].at = "idle"
  BY DEF Init, Idle
<1>. QED
  BY <1>1, <1>2 DEF Apart, Alone, Undisturbed, Busy, Replied, Keeping, Committed

(* A worker that goes on stays alone.                                      *)
LEMMA AloneStays ==
  ASSUME Apart, NEW w \in Worker, cli' = cli, worker'[w].member = worker[w].member, Busy(w),
         \A v \in Worker \ {w} : worker'[v] = worker[v]
  PROVE  \A v \in Worker : Alone(v)'
<1>1. \A v \in Worker \ {w} : Busy(v)' <=> Busy(v)
  BY DEF Busy, Replied
<1>2. \A v \in Worker : Busy(v)' => Busy(v)
  BY <1>1
<1>. QED
  BY <1>1, <1>2 DEF Apart, Alone

(* A worker moves on, without the map.                                     *)
LEMMA MovesApart ==
  ASSUME Apart, ImportInv, NEW w \in Worker,
         \/ Plan(w) \/ ReadIds(w) \/ Prepare(w) \/ Mint(w) \/ MintFails(w) \/ OutOfCharids(w)
         \/ Core(w) \/ CoreFails(w) \/ Best(w) \/ LoseConnection(w)
  PROVE  Apart'
<1>1. /\ worker \in [Worker -> WorkerRecord]
      /\ owner \in [CharId -> Member \cup {NoMember}]
      /\ LocalsOK(w) /\ Undisturbed(w) /\ NoDoubles
  BY DEF Apart, ImportInv, ImportTypeOK, WorkerRecord
<1>2. UNCHANGED <<idmap, file, cli>> /\ Busy(w)
  BY DEF Plan, ReadIds, Prepare, Mint, MintFails, OutOfCharids, Core, CoreFails, Best,
         LoseConnection, mapVars, Busy, Replied
<1>3. HeldIds' = HeldIds /\ NoDoubles'
  BY <1>1, <1>2 DEF HeldIds, NoDoubles, OneHolder
<1>4. \A v \in Worker \ {w} : worker'[v] = worker[v]
  BY <1>1 DEF Plan, ReadIds, Prepare, Mint, MintFails, OutOfCharids, Core, CoreFails, Best,
              LoseConnection, Go
<1>5. worker'[w].member = worker[w].member
  BY <1>1 DEF Plan, ReadIds, Prepare, Mint, MintFails, OutOfCharids, Core, CoreFails, Best,
              LoseConnection, Go, WorkerRecord
<1>6. ASSUME NEW k \in CharId, owner[k] # NoMember PROVE owner'[k] = owner[k]
  <2>1. CASE Core(w)
    <3>1. worker[w].char = minted + 1 /\ owner' = [owner EXCEPT ![minted + 1] = worker[w].member]
      BY <1>1, <2>1 DEF Core, LocalsOK
    <3>2. k # minted + 1
      <4>1. minted \in Nat
        BY MintedIsNumber
      <4>2. ~(k > minted)
        BY <1>6 DEF ImportInv, UnbornUnowned
      <4>3. k \in Nat
        BY CharsAreNumbers
      <4>. QED
        BY <4>1, <4>2, <4>3
    <3>. QED
      BY <1>1, <3>1, <3>2
  <2>2. CASE UNCHANGED owner
    BY <2>2
  <2>. QED
    BY <2>1, <2>2 DEF Plan, ReadIds, Prepare, Mint, MintFails, OutOfCharids, CoreFails, Best,
                      LoseConnection
<1>7. ASSUME NEW v \in Worker \ {w} PROVE Undisturbed(v)'
  <2>1. /\ LocalsOK(v) /\ Undisturbed(v) /\ worker'[v] = worker[v]
    BY <1>4 DEF ImportInv, Apart
  <2>2. worker[v].at \in Committed =>
          /\ worker[v].char \in CharId
          /\ owner[worker[v].char] = worker[v].member /\ worker[v].member \in Member
    BY <2>1 DEF LocalsOK, Undisturbed, Committed
  <2>3. worker[v].at \in Committed => owner'[worker[v].char] = worker[v].member
    BY <1>6, <2>2, ImportAssumption
  <2>. QED
    BY <1>3, <2>1, <2>3 DEF Undisturbed
<1>8. Undisturbed(w)'
  <2>1. CASE ReadIds(w)
    <3>1. PICK ids \in PoolReads(worker[w].member) :
            worker' = [worker EXCEPT
                    ![w].at = IF ids \ HeldIds = {} THEN "failed" ELSE "name",
                    ![w].free = IF ids \ HeldIds = {} THEN NoId ELSE Lowest(ids \ HeldIds)]
      BY <2>1 DEF ReadIds
    <3>2. CASE ids \ HeldIds = {}
      <4>1. worker'[w].at = "failed"
        BY <1>1, <3>1, <3>2 DEF WorkerRecord
      <4>. QED
        BY <4>1 DEF Undisturbed, Keeping, Committed
    <3>3. CASE ids \ HeldIds # {}
      <4>1. worker'[w].at = "name" /\ worker'[w].free = Lowest(ids \ HeldIds)
        BY <1>1, <3>1, <3>3 DEF WorkerRecord
      <4>2. ids \subseteq Nat
        <5>1. worker[w].member \in Member
          BY <1>1, <2>1 DEF LocalsOK, ReadIds
        <5>. QED
          BY <5>1, PoolReadsWithin, IdsAreNumbers
      <4>3. Lowest(ids \ HeldIds) \in ids \ HeldIds
        BY <3>3, <4>2, LowestIsMember
      <4>. QED
        BY <1>3, <4>1, <4>3 DEF Undisturbed, Keeping, Committed
    <3>. QED
      BY <3>2, <3>3
  <2>2. CASE Mint(w)
    <3>1. /\ worker[w].at = "mint"
          /\ worker'[w].at = "core" /\ worker'[w].free = worker[w].free
      BY <1>1, <2>2 DEF Mint, WorkerRecord
    <3>. QED
      BY <1>1, <1>3, <3>1 DEF Undisturbed, Keeping, Committed
  <2>3. CASE Core(w)
    <3>1. /\ worker[w].char = minted + 1 /\ worker[w].at = "core"
          /\ owner' = [owner EXCEPT ![minted + 1] = worker[w].member]
      BY <1>1, <2>3 DEF Core, LocalsOK
    <3>2. minted + 1 \in CharId
      <4>1. minted \in Nat
        BY MintedIsNumber
      <4>2. worker[w].char \in CharId \cup {NoChar}
        BY <1>1 DEF WorkerRecord
      <4>3. minted + 1 # 0
        BY <4>1
      <4>. QED
        BY <3>1, <4>2, <4>3 DEF NoChar
    <3>3. /\ worker'[w].at = "best" /\ worker'[w].member = worker[w].member
          /\ worker'[w].free = worker[w].free /\ worker'[w].char = minted + 1
      BY <1>1, <2>3, <3>1, GoKeeps DEF Core
    <3>. QED
      BY <1>1, <1>3, <3>1, <3>2, <3>3 DEF Undisturbed, Keeping, Committed
  <2>4. CASE Prepare(w)
    <3>1. PICK at \in {"mint", "failed"} : Go(w, at)
      BY <2>4 DEF Prepare
    <3>2. worker'[w].at \in {"mint", "failed"} /\ worker'[w].free = worker[w].free
      BY <1>1, <3>1, GoKeeps
    <3>. QED
      BY <1>1, <1>3, <2>4, <3>2 DEF Prepare, Undisturbed, Keeping, Committed
  <2>7. CASE Plan(w)
    <3>1. PICK at \in {"ids", "failed", "crashed"} : Go(w, at)
      BY <2>7 DEF Plan
    <3>2. worker'[w].at \in {"ids", "failed", "crashed"}
      BY <1>1, <3>1, GoKeeps
    <3>. QED
      BY <3>2 DEF Undisturbed, Keeping, Committed
  <2>5. CASE Best(w)
    <3>1. /\ worker'[w].at = "bind" /\ worker'[w].free = worker[w].free
          /\ worker'[w].char = worker[w].char /\ worker'[w].member = worker[w].member
      BY <1>1, <2>5, GoKeeps DEF Best
    <3>. QED
      BY <1>1, <1>3, <2>5, <3>1 DEF Best, Undisturbed, Keeping, Committed
  <2>6. CASE MintFails(w) \/ OutOfCharids(w) \/ CoreFails(w) \/ LoseConnection(w)
    <3>1. worker'[w].at \in {"failed", "failed late"}
      BY <1>1, <2>6, GoKeeps DEF MintFails, OutOfCharids, CoreFails, LoseConnection
    <3>. QED
      BY <3>1 DEF Undisturbed, Keeping, Committed
  <2>. QED
    BY <2>1, <2>2, <2>3, <2>4, <2>5, <2>6, <2>7
<1>. QED
  BY <1>2, <1>3, <1>4, <1>5, <1>7, <1>8, AloneStays DEF Apart

(* A worker starts for a member that does nothing else.                    *)
LEMMA StartApart ==
  ASSUME Apart, ImportInv, ~Overlap, NEW w \in Worker, NEW m \in Member, Start(w, m)
  PROVE  Apart'
<1>1. worker \in [Worker -> WorkerRecord]
  BY DEF ImportInv, ImportTypeOK, WorkerRecord
<1>2. /\ cli' = cli /\ idmap' = idmap /\ file' = file /\ owner' = owner
      /\ cli.member # m /\ \A v \in Worker : Busy(v) => worker[v].member # m
  BY DEF Start, Free, mapVars
<1>3. /\ worker'[w].at = "plan" /\ worker'[w].member = m
      /\ \A v \in Worker \ {w} : worker'[v] = worker[v]
  BY <1>1 DEF Start, Idle
<1>4. HeldIds' = HeldIds /\ NoDoubles'
  BY <1>2 DEF Apart, HeldIds, NoDoubles, OneHolder
<1>5. ASSUME NEW v \in Worker PROVE Undisturbed(v)'
  BY <1>2, <1>3, <1>4 DEF Apart, Undisturbed, Keeping, Committed
<1>6. /\ \A v \in Worker \ {w} : Busy(v)' <=> Busy(v)
      /\ worker'[w].member = m
  BY <1>3 DEF Busy, Replied
<1>7. ASSUME NEW v \in Worker PROVE Alone(v)'
  BY <1>2, <1>3, <1>6 DEF Apart, Alone
<1>. QED
  BY <1>4, <1>5, <1>7 DEF Apart

(* A save writes the pairings in memory, or nothing.                       *)
LEMMA SavedPairs == Save \/ UNCHANGED file => file'.pair \in {file.pair, idmap'}
BY DEF Save, Image

(* A character is given an id nobody else holds: no id is doubled, and no  *)
(* worker of another member was keeping it.                                *)
LEMMA FreeIdApart ==
  ASSUME Apart, ImportInv, NEW k \in CharId, NEW id,
         id = NoId \/ \A j \in CharId \ {k} : idmap[j] # id,
         idmap' = [idmap EXCEPT ![k] = id], Save \/ UNCHANGED file, cli' = cli
  PROVE  NoDoubles' /\ HeldIds' \subseteq HeldIds \cup {id}
<1>1. \A j \in CharId : idmap'[j] = IF j = k THEN id ELSE idmap[j]
  BY DEF ImportInv, ImportTypeOK, MapTypeOK, Pairing
<1>2. OneHolder(idmap')
  BY <1>1 DEF Apart, NoDoubles, OneHolder
<1>3. OneHolder(file'.pair)
  BY <1>2, SavedPairs DEF Apart, NoDoubles
<1>4. HeldIds' \subseteq HeldIds \cup {id}
  BY <1>1 DEF HeldIds
<1>. QED
  BY <1>2, <1>3, <1>4 DEF Apart, NoDoubles, OneHolder

(* The bind takes the id it kept, which nobody holds.                      *)
LEMMA BindApart ==
  ASSUME Apart, ImportInv, NEW w \in Worker, Bind(w)
  PROVE  Apart'
<1>1. /\ worker \in [Worker -> WorkerRecord] /\ LocalsOK(w) /\ Undisturbed(w)
      /\ worker[w].at = "bind"
  BY DEF Apart, ImportInv, ImportTypeOK, WorkerRecord, Bind
<1>2. /\ worker[w].char \in CharId /\ worker[w].free \in Pool[worker[w].member]
      /\ worker[w].free \notin HeldIds /\ worker[w].member \in Member
  BY <1>1 DEF LocalsOK, Undisturbed, Keeping, Committed
<1>3. /\ idmap' = [idmap EXCEPT ![worker[w].char] = worker[w].free] /\ Save
      /\ Go(w, "ok") /\ cli' = cli /\ owner' = owner
  BY DEF Bind
<1>4. /\ worker'[w].at = "ok" /\ worker'[w].member = worker[w].member
      /\ \A v \in Worker \ {w} : worker'[v] = worker[v]
  BY <1>1, <1>3, GoKeeps
<1>5. NoDoubles' /\ HeldIds' \subseteq HeldIds \cup {worker[w].free}
  <2>1. worker[w].free = NoId \/ \A j \in CharId : idmap[j] # worker[w].free
    BY <1>2 DEF HeldIds
  <2>. QED
    BY <1>2, <1>3, <2>1, FreeIdApart
<1>6. Busy(w)
  BY <1>1 DEF Busy, Replied
<1>7. ASSUME NEW v \in Worker \ {w} PROVE Undisturbed(v)'
  <2>1. LocalsOK(v) /\ Undisturbed(v) /\ worker'[v] = worker[v]
    BY <1>4 DEF ImportInv, Apart
  <2>2. worker[v].at \in Keeping => worker[v].free # worker[w].free
    <3>. SUFFICES ASSUME worker[v].at \in Keeping PROVE worker[v].free # worker[w].free
      OBVIOUS
    <3>1. Busy(v) /\ worker[v].member \in Member /\ worker[v].free \in Pool[worker[v].member]
      BY <2>1 DEF Busy, Replied, LocalsOK, Keeping
    <3>2. worker[v].member # worker[w].member
      BY <1>6, <3>1 DEF Apart, Alone
    <3>. QED
      BY <1>2, <3>1, <3>2, ImportAssumption
  <2>. QED
    BY <1>3, <1>5, <2>1, <2>2 DEF Undisturbed
<1>8. Undisturbed(w)'
  BY <1>4 DEF Undisturbed, Keeping, Committed
<1>. QED
  BY <1>3, <1>4, <1>5, <1>6, <1>7, <1>8, AloneStays DEF Apart

(* The lobby serves a member that has no import under way: what it binds   *)
(* or deletes is nothing an import keeps or has committed.                 *)
LEMMA LobbyApart ==
  ASSUME Apart, ImportInv, ~Overlap, NEW m \in Member,
         LobbyCreate(m) \/ LobbyPair(m) \/ LobbyDelete(m)
  PROVE  Apart'
<1>1. /\ \A v \in Worker : Busy(v) => worker[v].member # m
      /\ worker' = worker /\ cli' = cli /\ owner \in [CharId -> Member \cup {NoMember}]
      /\ NoDoubles /\ MapTypeOK
  BY DEF LobbyCreate, LobbyPair, LobbyDelete, Free, importVars, Apart, ImportInv, ImportTypeOK
<1>2. ASSUME NEW v \in Worker PROVE Alone(v)'
  BY <1>1 DEF Apart, Alone, Busy, Replied
<1>3. CASE LobbyCreate(m)
  <2>1. /\ idmap' = idmap /\ file' = file /\ owner' = [owner EXCEPT ![minted + 1] = m]
    BY <1>3 DEF LobbyCreate, mapVars
  <2>2. NoDoubles' /\ HeldIds' = HeldIds
    BY <1>1, <2>1 DEF NoDoubles, OneHolder, HeldIds
  <2>3. ASSUME NEW v \in Worker PROVE Undisturbed(v)'
    <3>1. worker[v].at \in Committed => /\ worker[v].char \in CharId /\ worker[v].char <= minted
                                        /\ owner[worker[v].char] = worker[v].member
      BY DEF ImportInv, LocalsOK, Apart, Undisturbed
    <3>2. worker[v].at \in Committed => owner'[worker[v].char] = worker[v].member
      <4>1. minted \in Nat /\ CharId \subseteq Nat
        BY MintedIsNumber, CharsAreNumbers
      <4>2. worker[v].at \in Committed => worker[v].char # minted + 1
        BY <3>1, <4>1
      <4>. QED
        BY <1>1, <2>1, <3>1, <4>2
    <3>. QED
      BY <1>1, <2>2, <3>2 DEF Apart, Undisturbed
  <2>. QED
    BY <1>2, <2>2, <2>3 DEF Apart
<1>4. CASE LobbyPair(m)
  <2>1. PICK k \in Owned(m), prefer \in Pool[m] \cup {NoId}, ids \in PoolReads(m) :
          Pair(k, prefer, ids)
    BY <1>4 DEF LobbyPair
  <2>2. k \in CharId /\ owner[k] = m /\ m # NoMember
    BY ImportAssumption DEF Owned
  <2>3. PICK id \in Pool[m] \cup {NoId, idmap[k]} :
          /\ idmap' = [idmap EXCEPT ![k] = id]
          /\ id = NoId \/ id = idmap[k] \/ id \notin HeldIds
          /\ Save \/ UNCHANGED file
    BY <1>1, <2>1, <2>2, PairWithin
  <2>4. id = NoId \/ id \in Pool[m]
    BY <2>2, <2>3 DEF ImportInv, ImagesOK, ImageOK
  <2>5. NoDoubles' /\ HeldIds' \subseteq HeldIds \cup {id}
    <3>1. id = NoId \/ \A j \in CharId \ {k} : idmap[j] # id
      BY <1>1, <2>2, <2>3 DEF HeldIds, NoDoubles, OneHolder
    <3>. QED
      BY <1>1, <2>2, <2>3, <3>1, FreeIdApart
  <2>6. ASSUME NEW v \in Worker PROVE Undisturbed(v)'
    <3>1. worker[v].at \in Keeping =>
            /\ worker[v].free \notin HeldIds /\ worker[v].free \in Pool[worker[v].member]
            /\ worker[v].member \in Member /\ worker[v].member # m
      BY <1>1 DEF ImportInv, LocalsOK, Apart, Undisturbed, Keeping, Busy, Replied
    <3>2. worker[v].at \in Keeping => worker[v].free # id
      <4>1. worker[v].at \in Keeping => worker[v].free \in ContentId
        BY <3>1, ImportAssumption
      <4>. QED
        BY <2>4, <3>1, <4>1, ImportAssumption, IdsAreNumbers
    <3>3. owner' = owner
      BY <1>4 DEF LobbyPair, importVars
    <3>. QED
      BY <1>1, <2>5, <3>1, <3>2, <3>3 DEF Apart, Undisturbed
  <2>. QED
    BY <1>2, <2>5, <2>6 DEF Apart
<1>5. CASE LobbyDelete(m)
  <2>1. PICK k \in Owned(m) : /\ idmap[k] # NoId /\ Release(k)
                              /\ \/ owner' = [owner EXCEPT ![k] = NoMember]
                                 \/ UNCHANGED owner
    BY <1>5 DEF LobbyDelete
  <2>2. /\ k \in CharId /\ owner[k] = m
        /\ idmap' = [idmap EXCEPT ![k] = NoId] /\ Save
    BY <2>1 DEF Release, Owned
  <2>3. NoDoubles' /\ HeldIds' \subseteq HeldIds \cup {NoId}
    BY <1>1, <2>2, FreeIdApart
  <2>4. HeldIds' \subseteq HeldIds
    BY <2>3 DEF HeldIds
  <2>5. ASSUME NEW v \in Worker PROVE Undisturbed(v)'
    <3>1. worker[v].at \in Committed =>
            /\ worker[v].char \in CharId /\ owner[worker[v].char] = worker[v].member
            /\ worker[v].member # m
      BY <1>1 DEF ImportInv, LocalsOK, Apart, Undisturbed, Committed, Busy, Replied
    <3>2. worker[v].at \in Committed => owner'[worker[v].char] = owner[worker[v].char]
      BY <1>1, <2>1, <2>2, <3>1
    <3>. QED
      BY <1>1, <2>4, <3>1, <3>2 DEF Apart, Undisturbed
  <2>. QED
    BY <1>2, <2>3, <2>5 DEF Apart
<1>. QED
  BY <1>3, <1>4, <1>5

(* The operator loads the file and writes it back with one pairing more,   *)
(* an id nobody has in it.                                                 *)
LEMMA CliApart ==
  ASSUME Apart, ImportInv, ~Overlap, NEW m \in Member,
         CliLoad(m) \/ CliBind(m) \/ CliRefuse(m)
  PROVE  Apart'
<1>1. UNCHANGED <<idmap, worker, owner>>
  BY DEF CliLoad, CliBind, CliRefuse, mapVars
<1>2. HeldIds' = HeldIds /\ NoDoubles
  BY <1>1 DEF HeldIds, Apart
<1>3. ASSUME NEW v \in Worker PROVE Undisturbed(v)'
  BY <1>1, <1>2 DEF Apart, Undisturbed
<1>4. ASSUME NEW v \in Worker, Busy(v) PROVE worker[v].member # cli'.member
  <2>1. worker[v].member \in Member
    BY <1>4 DEF ImportInv, LocalsOK, Busy, Replied
  <2>2. cli'.member = NoMember \/ (cli'.member = m /\ worker[v].member # m)
    BY <1>4 DEF CliLoad, CliBind, CliRefuse, NoCli, Free
  <2>. QED
    BY <2>1, <2>2, ImportAssumption
<1>5. ASSUME NEW v \in Worker PROVE Alone(v)'
  BY <1>1, <1>4 DEF Apart, Alone, Busy, Replied
<1>6. OneHolder(NoCli.image.pair)
  BY DEF NoCli, Image, OneHolder
<1>7. CASE CliLoad(m)
  <2>1. file' = file /\ cli'.image = file
    BY <1>7 DEF CliLoad, mapVars
  <2>. QED
    BY <1>1, <1>2, <1>3, <1>5, <2>1 DEF Apart, NoDoubles, OneHolder
<1>8. CASE CliRefuse(m)
  <2>1. file' = file /\ cli' = NoCli
    BY <1>8 DEF CliRefuse, mapVars
  <2>. QED
    BY <1>1, <1>2, <1>3, <1>5, <1>6, <2>1 DEF Apart, NoDoubles, OneHolder
<1>9. CASE CliBind(m)
  <2>1. PICK k \in Owned(m), i \in Pool[m] :
          /\ \A j \in CharId \ {k} : cli.image.pair[j] # i
          /\ file' = Image([cli.image.pair EXCEPT ![k] = i], cli.image.field)
    BY <1>9 DEF CliBind
  <2>2. cli' = NoCli
    BY <1>9 DEF CliBind
  <2>3. cli.image.pair \in Pairing
    BY DEF ImportInv
  <2>4. \A j \in CharId : file'.pair[j] = IF j = k THEN i ELSE cli.image.pair[j]
    BY <2>1, <2>3 DEF Image, Pairing
  <2>5. OneHolder(file'.pair)
    BY <1>2, <2>1, <2>4 DEF NoDoubles, OneHolder
  <2>. QED
    BY <1>1, <1>2, <1>3, <1>5, <1>6, <2>2, <2>5 DEF Apart, NoDoubles, OneHolder
<1>. QED
  BY <1>7, <1>8, <1>9

(* Every step, when members do one thing at a time.                        *)
LEMMA StepApart == ~Overlap /\ ImportInv /\ Apart /\ [Next]_vars => Apart'
<1>. SUFFICES ASSUME ~Overlap, ImportInv, Apart, [Next]_vars PROVE Apart'
  OBVIOUS
<1>1. ASSUME NEW w \in Worker, Working(w) \/ Mint(w) \/ MintFails(w) PROVE Apart'
  BY <1>1, MovesApart, BindApart DEF Working
<1>2. ASSUME NEW w \in Worker, NEW m \in Member, Start(w, m) PROVE Apart'
  BY <1>2, StartApart
<1>3. ASSUME NEW m \in Member, CliLoad(m) \/ CliBind(m) \/ CliRefuse(m) PROVE Apart'
  BY <1>3, CliApart
<1>4. ASSUME NEW m \in Member, LobbyCreate(m) \/ LobbyPair(m) \/ LobbyDelete(m)
      PROVE  Apart'
  BY <1>4, LobbyApart
<1>5. CASE Restart
  <2>1. /\ \A w \in Worker : worker'[w].at = "idle"
        /\ idmap' = file.pair /\ file' = file /\ cli' = cli
    BY <1>5 DEF Restart, Reload, Idle
  <2>2. NoDoubles'
    BY <2>1 DEF Apart, NoDoubles, OneHolder
  <2>. QED
    BY <2>1, <2>2 DEF Apart, Alone, Undisturbed, Busy, Replied, Keeping, Committed
<1>6. CASE UNCHANGED vars
  <2>1. UNCHANGED <<idmap, file, owner, worker, cli>>
    BY <1>6 DEF vars, mapVars, importVars
  <2>. QED
    BY <2>1 DEF Apart, Alone, Undisturbed, Busy, Replied, NoDoubles, OneHolder, HeldIds
<1>. QED
  BY <1>1, <1>2, <1>3, <1>4, <1>5, <1>6 DEF Next

(* A member who does one thing at a time never has a Content ID on two     *)
(* characters, in memory or in the file, although the import binds the id  *)
(* it read before the commit without looking again, and the operator's     *)
(* bind writes over whatever the bridge has saved since it loaded the map. *)
THEOREM ImportUnique ==
  ASSUME ~Overlap
  PROVE  Spec => []UniqueContentId
<1>1. Apart => UniqueContentId
  BY DEF Apart, NoDoubles, UniqueContentId
<1>2. ImportInv /\ Apart /\ [Next]_vars => Apart'
  BY StepApart
<1>. QED
  BY <1>1, <1>2, InitApart, ImportInvariant, PTL DEF Spec

(* Only the bind answers ok, and only the failures before a commit answer  *)
(* failed.                                                                 *)
LEMMA AnswersComeFrom ==
  ASSUME ImportInv, [Next]_vars, NEW w \in Worker
  PROVE  /\ Answered(w, "ok") => Bind(w)
         /\ Answered(w, "failed") =>
              Plan(w) \/ ReadIds(w) \/ Prepare(w) \/ MintFails(w) \/ OutOfCharids(w) \/ CoreFails(w)
<1>1. worker \in [Worker -> WorkerRecord]
  BY DEF ImportInv, ImportTypeOK, WorkerRecord
<1>2. ASSUME NEW v \in Worker,
             \/ \E m \in Member : Start(v, m)
             \/ Working(v) \/ Mint(v) \/ MintFails(v)
      PROVE  v # w => worker'[w] = worker[w]
  BY <1>1, <1>2 DEF Working, Start, Plan, ReadIds, Prepare, Mint, MintFails, OutOfCharids, Core,
                    CoreFails, Best, LoseConnection, Bind, Go
<1>3. ASSUME worker' = worker PROVE ~Answered(w, "ok") /\ ~Answered(w, "failed")
  BY <1>3 DEF Answered
<1>4. Core(w) \/ Best(w) \/ LoseConnection(w) => worker'[w].at \in {"best", "bind", "failed late"}
  BY <1>1, GoKeeps DEF Core, Best, LoseConnection
<1>5. Mint(w) => worker'[w].at = "core"
  BY <1>1 DEF Mint, WorkerRecord
<1>6. Bind(w) => worker'[w].at = "ok"
  BY <1>1, GoKeeps DEF Bind
<1>7. \A m \in Member : Start(w, m) => worker'[w].at = "plan"
  BY <1>1 DEF Start, Idle
<1>8. ReadIds(w) => worker'[w].at \in {"name", "failed"}
  BY <1>1 DEF ReadIds, WorkerRecord
<1>9. Plan(w) \/ Prepare(w) \/ MintFails(w) \/ OutOfCharids(w) \/ CoreFails(w)
        => worker'[w].at \in {"ids", "mint", "failed", "crashed"}
  BY <1>1, GoKeeps DEF Plan, Prepare, MintFails, OutOfCharids, CoreFails
<1>10. ASSUME NEW v \in Worker,
              \/ \E m \in Member : Start(v, m)
              \/ Working(v) \/ Mint(v) \/ MintFails(v)
       PROVE  /\ Answered(w, "ok") => Bind(w)
              /\ Answered(w, "failed") =>
                   \/ Plan(w) \/ ReadIds(w) \/ Prepare(w) \/ MintFails(w) \/ OutOfCharids(w)
                   \/ CoreFails(w)
  BY <1>2, <1>4, <1>5, <1>6, <1>7, <1>8, <1>9, <1>10 DEF Working, Answered
<1>11. CASE Restart
  BY <1>11 DEF Restart, Idle, Answered
<1>12. ASSUME NEW m \in Member,
              \/ CliLoad(m) \/ CliBind(m) \/ CliRefuse(m)
              \/ LobbyCreate(m) \/ LobbyPair(m) \/ LobbyDelete(m)
       PROVE  worker' = worker
  BY <1>12 DEF CliLoad, CliBind, CliRefuse, LobbyCreate, LobbyPair, LobbyDelete, importVars
<1>13. CASE UNCHANGED vars
  BY <1>3, <1>13 DEF vars, importVars
<1>. QED
  BY <1>3, <1>10, <1>11, <1>12, <1>13 DEF Next

(* While its member does nothing else, an import that answers ok leaves    *)
(* its character on the member's account under one of the member's ids,    *)
(* and one that answers failed has left no character there.                *)
THEOREM ImportRepliesTrue ==
  ASSUME ~Overlap
  PROVE  Spec => ReplyIsTrue
<1> DEFINE True ==
      \A w \in Worker : LET m == worker[w].member k == worker[w].char IN
        /\ Answered(w, "ok") => owner'[k] = m /\ idmap'[k] \in Pool[m]
        /\ Answered(w, "failed") => k = NoChar \/ k > minted' \/ owner'[k] # m
<1>1. ASSUME ImportInv, Apart, [Next]_vars PROVE True
  <2>. SUFFICES ASSUME NEW w \in Worker
                PROVE  LET m == worker[w].member k == worker[w].char IN
                       /\ Answered(w, "ok") => owner'[k] = m /\ idmap'[k] \in Pool[m]
                       /\ Answered(w, "failed") => k = NoChar \/ k > minted' \/ owner'[k] # m
    OBVIOUS
  <2>1. LocalsOK(w) /\ Undisturbed(w) /\ idmap \in Pairing
    BY <1>1 DEF ImportInv, Apart, ImportTypeOK, MapTypeOK
  <2>2. CASE Bind(w)
    <3>1. /\ worker[w].char \in CharId /\ worker[w].free \in Pool[worker[w].member]
          /\ owner[worker[w].char] = worker[w].member
      BY <2>1, <2>2 DEF Bind, LocalsOK, Undisturbed, Keeping, Committed
    <3>2. idmap' = [idmap EXCEPT ![worker[w].char] = worker[w].free] /\ owner' = owner
      BY <2>2 DEF Bind
    <3>3. idmap'[worker[w].char] = worker[w].free
      BY <2>1, <3>1, <3>2 DEF Pairing
    <3>4. ~Answered(w, "failed")
      <4>1. worker'[w].at = "ok"
        BY <1>1, <2>2, GoKeeps DEF Bind, ImportInv, ImportTypeOK, WorkerRecord
      <4>. QED
        BY <4>1 DEF Answered
    <3>. QED
      BY <3>1, <3>2, <3>3, <3>4
  <2>3. CASE Plan(w) \/ ReadIds(w) \/ Prepare(w) \/ MintFails(w) \/ OutOfCharids(w) \/ CoreFails(w)
    <3>1. worker[w].at \in {"plan", "ids", "name", "mint", "core"} /\ minted' = minted
      BY <2>3 DEF Plan, ReadIds, Prepare, MintFails, OutOfCharids, CoreFails
    <3>2. worker[w].char = NoChar \/ worker[w].char = minted + 1
      BY <2>1, <3>1 DEF LocalsOK
    <3>3. worker[w].char = NoChar \/ worker[w].char > minted'
      BY <1>1, <3>1, <3>2, MintedIsNumber
    <3>4. ~Bind(w)
      BY <3>1 DEF Bind
    <3>. QED
      BY <1>1, <3>3, <3>4, AnswersComeFrom
  <2>. QED
    BY <1>1, <2>2, <2>3, AnswersComeFrom
<1>2. ImportInv /\ Apart /\ [Next]_vars => Apart'
  BY StepApart
<1>3. ImportInv /\ Apart /\ [Next]_vars => [True]_vars
  BY <1>1
<1>. QED
  BY <1>2, <1>3, InitApart, ImportInvariant, PTL DEF Spec, ReplyIsTrue

=============================================================================
