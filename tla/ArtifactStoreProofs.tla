------------------------ MODULE ArtifactStoreProofs ------------------------
(***************************************************************************)
(* Proofs about ArtifactStore, for any set of requests and stores and with *)
(* any of the faults: what a put has returned survives, no two records     *)
(* meet, and the store implements ImmutableStore.                          *)
(***************************************************************************)
EXTENDS ArtifactStore, TLAPS

-----------------------------------------------------------------------------
(* The inductive invariant: what holds of the directories *)

FileTypes ==
    /\ pending \in [Id -> Request \cup {None, Torn}]
    /\ committed \in [Id -> Request \cup {None}]
    /\ target \in [Path -> Content \cup {None}]
    /\ idImages \subseteq IdDir
    /\ dirImages \subseteq [Path -> Content \cup {None}]

Claim(ids, i, r) == ids.pending[i] = r \/ ids.committed[i] = r

\* RecordsDistinct of one state of .artifact_ids
Distinct(ids) ==
    \A i, j \in Id : \A r, q \in Request :
        Claim(ids, i, r) /\ Claim(ids, j, q) /\ r.path = q.path =>
            i = j /\ (ids.pending[i] = None \/ ids.committed[i] = None)

\* Any state a power loss may leave has what was promised.
FilesOK ==
    /\ FileTypes
    /\ IdImage \in idImages /\ target \in dirImages
    /\ \A ids \in idImages : Distinct(ids)
    /\ AckedSurvives

-----------------------------------------------------------------------------
(* The inductive invariant: what the operation in progress knows *)

CallTypes ==
    /\ opened \subseteq Store
    /\ known \in [Store -> SUBSET Id]
    /\ pc \in {"idle", "recover", "recoverSync", "reserve", "mark", "markSync",
               "publish", "publishSync", "commit", "commitSync",
               "undoTarget", "undoTargetSync", "undoMarker", "undoMarkerSync"}
    /\ who \in Store \cup {None}
    /\ req \in Request \cup {None}
    /\ todo \subseteq Id
    /\ acked \subseteq Request
    /\ pc # "idle" => who \in Store

Settled(i) == pending[i] = None /\ (committed[i] # None => Whole(committed[i]))

RecoverOK == pc \in {"recover", "recoverSync"} => \A i \in Id \ todo : Settled(i)

Writing == {"mark", "markSync", "publish", "publishSync", "commit", "commitSync",
            "undoTarget", "undoTargetSync", "undoMarker", "undoMarkerSync"}

\* The id and the path belong to this put alone.
Exclusive ==
    /\ \A r \in acked : r.id # req.id /\ r.path # req.path
    /\ \A s \in Store : req.id \notin known[s]

\* No record but the empty marker stands in the way of this put.
Free ==
    /\ committed[req.id] = None
    /\ \A i \in Id : i # req.id => pending[i] = None
    /\ \A i \in Id : committed[i] \in Request => committed[i].path # req.path

PutOK ==
    /\ pc \in Writing \cup {"reserve"} => req \in Request
    /\ pc = "reserve" => \A i \in Id : Settled(i)
    /\ pc \in Writing => Exclusive
    /\ pc = "mark" => Free
    /\ pc \in {"markSync", "publish", "publishSync", "commit"} => pending[req.id] = req
    /\ pc \in {"publishSync", "commit", "commitSync"} => target[req.path] = req.content
    /\ pc \in {"commit", "commitSync"} => dirImages = {target}
    /\ pc = "commitSync" => committed[req.id] = req

IInv == FilesOK /\ CallTypes /\ KnownIsCommitted /\ RecoverOK /\ PutOK

USE StoreAssumption

\* The constants: a request has its id, path and content, and is no marker.
LEMMA Requests ==
    /\ \A r \in Request : r.id \in Id /\ r.path \in Path /\ r.content \in Content
    /\ None \notin Request /\ Torn \notin Request /\ None # Torn
    /\ None \notin Content /\ None \notin Store
BY DEF Id, Path, Content

LEMMA TypesFromIInv == IInv => TypeOK
BY DEF IInv, FilesOK, FileTypes, CallTypes, TypeOK

\* An id has a pending or a committed record, not both.
LEMMA OneRecord ==
    ASSUME IInv, NEW i \in Id
    PROVE  pending[i] = None \/ committed[i] = None
<1>1. Distinct(IdImage)
  BY DEF IInv, FilesOK
<1>2. committed[i] \in Request \cup {None}
  BY DEF IInv, FilesOK, FileTypes
<1>. QED
  BY <1>1, <1>2 DEF Distinct, Claim, IdImage

LEMMA InitIInv == Init => IInv
<1>. SUFFICES ASSUME Init PROVE IInv
  OBVIOUS
<1>1. FileTypes
  BY DEF Init, FileTypes, IdDir, Empty
<1>2. IdImage \in idImages /\ target \in dirImages /\ AckedSurvives
  BY DEF Init, IdImage, Empty, AckedSurvives
<1>3. \A ids \in idImages : Distinct(ids)
  BY Requests DEF Init, Distinct, Claim, Empty
<1>4. CallTypes /\ KnownIsCommitted /\ RecoverOK /\ PutOK
  BY DEF Init, CallTypes, KnownIsCommitted, RecoverOK, PutOK, Writing
<1>. QED
  BY <1>1, <1>2, <1>3, <1>4 DEF IInv, FilesOK

-----------------------------------------------------------------------------
(* The file system: what a change or an fsync of a directory preserves *)

LEMMA IdsChange ==
    ASSUME FilesOK, NEW p, NEW c, ChangeIds(p, c), acked' = acked,
           p \in [Id -> Request \cup {None, Torn}], c \in [Id -> Request \cup {None}],
           Distinct([pending |-> p, committed |-> c]),
           \A r \in acked : c[r.id] = r
    PROVE  FilesOK'
<1>. DEFINE new == [pending |-> p, committed |-> c]
<1>1. /\ pending' = p /\ committed' = c /\ idImages' = idImages \cup {new}
      /\ target' = target /\ dirImages' = dirImages
  BY DEF ChangeIds
<1>2. new \in IdDir /\ IdImage' = new
  BY <1>1 DEF IdDir, IdImage
<1>3. FileTypes'
  BY <1>1, <1>2 DEF FilesOK, FileTypes
<1>4. (\A ids \in idImages : Distinct(ids))'
  BY <1>1 DEF FilesOK, Distinct, Claim
<1>5. AckedSurvives'
  BY <1>1 DEF FilesOK, AckedSurvives
<1>. QED
  BY <1>1, <1>2, <1>3, <1>4, <1>5 DEF FilesOK

LEMMA TargetChange ==
    ASSUME FilesOK, NEW p \in Path, NEW x \in Content \cup {None}, ChangeTarget(p, x),
           acked' = acked, \A r \in acked : r.path # p
    PROVE  FilesOK'
<1>1. /\ target' = [target EXCEPT ![p] = x] /\ dirImages' = dirImages \cup {target'}
      /\ UNCHANGED <<pending, committed, idImages>>
  BY DEF ChangeTarget
<1>2. target' \in [Path -> Content \cup {None}]
  BY <1>1 DEF FilesOK, FileTypes
<1>3. FileTypes'
  BY <1>1, <1>2 DEF FilesOK, FileTypes
<1>4. (\A ids \in idImages : Distinct(ids))'
  BY <1>1 DEF FilesOK, Distinct, Claim
<1>5. AckedSurvives'
  <2>1. ASSUME NEW r \in acked PROVE target'[r.path] = r.content
    <3>1. target[r.path] = r.content
      BY DEF FilesOK, AckedSurvives
    <3>. QED
      BY <1>1, <3>1
  <2>. QED
    BY <1>1, <2>1 DEF FilesOK, AckedSurvives
<1>. QED
  BY <1>1, <1>3, <1>4, <1>5 DEF FilesOK, IdImage

LEMMA SyncIdsKeeps ==
    ASSUME FilesOK, SyncIds, acked' = acked
    PROVE  FilesOK' /\ UNCHANGED <<pending, committed, target, dirImages>>
<1>1. idImages' = {IdImage} /\ UNCHANGED <<pending, committed, target, dirImages>>
  BY DEF SyncIds
<1>2. IdImage \in idImages /\ IdImage' = IdImage
  BY <1>1 DEF FilesOK, IdImage
<1>3. FileTypes' /\ AckedSurvives'
  BY <1>1, <1>2 DEF FilesOK, FileTypes, AckedSurvives
<1>4. (\A ids \in idImages : Distinct(ids))'
  BY <1>1, <1>2 DEF FilesOK, Distinct, Claim
<1>. QED
  BY <1>1, <1>2, <1>3, <1>4 DEF FilesOK

LEMMA SyncTargetsKeeps ==
    ASSUME FilesOK, SyncTargets, acked' = acked
    PROVE  FilesOK' /\ UNCHANGED <<pending, committed, target, idImages>>
<1>1. dirImages' = {target} /\ UNCHANGED <<pending, committed, target, idImages>>
  BY DEF SyncTargets
<1>2. FileTypes' /\ AckedSurvives'
  BY <1>1 DEF FilesOK, FileTypes, AckedSurvives
<1>3. (\A ids \in idImages : Distinct(ids))'
  BY <1>1 DEF FilesOK, Distinct, Claim
<1>. QED
  BY <1>1, <1>2, <1>3 DEF FilesOK, IdImage

LEMMA FilesKeep ==
    ASSUME FilesOK, UNCHANGED fileVars, acked' = acked
    PROVE  FilesOK'
BY DEF fileVars, FilesOK, FileTypes, IdImage, Distinct, Claim, AckedSurvives

\* Taking a marker or a record away, or moving it, makes no new claim.
LEMMA NoNewClaim ==
    ASSUME NEW p, NEW c, Distinct(IdImage),
           \A i \in Id : \A r \in Request :
               p[i] = r \/ c[i] = r => pending[i] = r \/ committed[i] = r,
           \A i \in Id : pending[i] = None \/ committed[i] = None =>
                           p[i] = None \/ c[i] = None
    PROVE  Distinct([pending |-> p, committed |-> c])
BY DEF Distinct, Claim, IdImage

-----------------------------------------------------------------------------
(* Calls begin and recover *)

LEMMA EnterStep ==
    ASSUME IInv, NEW s \in Store, NEW r \in Request \cup {None}, Enter(s, r)
    PROVE  IInv'
<1>. USE DEF IInv, fileVars, storeVars
<1>1. FilesOK'
  BY FilesKeep DEF Enter
<1>2. CallTypes'
  BY DEF Enter, CallTypes, Recorded
<1>3. KnownIsCommitted'
  BY DEF Enter, KnownIsCommitted
<1>4. RecoverOK'
  BY DEF Enter, RecoverOK, Recorded, Settled
<1>5. PutOK'
  BY DEF Enter, PutOK, Writing
<1>. QED
  BY <1>1, <1>2, <1>3, <1>4, <1>5

LEMMA RecoverCommittedStep ==
    ASSUME IInv, NEW i \in Id, RecoverCommitted(i)
    PROVE  IInv'
<1>1. /\ pc = "recover" /\ pc' = "recover" /\ committed[i] # None /\ Whole(committed[i])
      /\ known' = [known EXCEPT ![who] = @ \cup {i}] /\ todo' = todo \ {i}
      /\ UNCHANGED <<pending, committed, target, idImages, dirImages,
                     opened, acked, who, req>>
  BY DEF RecoverCommitted, fileVars
<1>2. FilesOK'
  BY <1>1, FilesKeep DEF IInv, fileVars
<1>3. CallTypes' /\ KnownIsCommitted'
  BY <1>1 DEF IInv, CallTypes, KnownIsCommitted
<1>4. RecoverOK'
  <2>1. pending[i] = None
    BY <1>1, OneRecord
  <2>. QED
    BY <1>1, <2>1 DEF IInv, RecoverOK, Settled, Whole
<1>5. PutOK'
  BY <1>1 DEF PutOK, Writing
<1>. QED
  BY <1>2, <1>3, <1>4, <1>5 DEF IInv

LEMMA DropPendingStep ==
    ASSUME IInv, NEW i \in Id, DropPending(i)
    PROVE  IInv'
<1>. DEFINE p == [pending EXCEPT ![i] = None]
<1>1. /\ pc = "recover" /\ pc' = "recoverSync" /\ pending[i] \in Request
      /\ ChangeIds(p, committed)
      /\ todo' = todo \ {i} /\ UNCHANGED <<opened, known, acked, who, req>>
  BY DEF DropPending, SetPending, storeVars
<1>2. /\ p \in [Id -> Request \cup {None, Torn}]
      /\ committed \in [Id -> Request \cup {None}]
      /\ pending \in [Id -> Request \cup {None, Torn}]
  BY DEF IInv, FilesOK, FileTypes
<1>3. committed[i] = None
  BY <1>1, OneRecord, Requests
<1>4. FilesOK'
  <2>1. Distinct([pending |-> p, committed |-> committed])
    <3>1. Distinct(IdImage)
      BY DEF IInv, FilesOK
    <3>. QED
      BY <1>2, <3>1, NoNewClaim, Requests
  <2>2. \A r \in acked : committed[r.id] = r
    BY DEF IInv, FilesOK, AckedSurvives, IdImage
  <2>. QED
    BY <1>1, <1>2, <2>1, <2>2, IdsChange DEF IInv
<1>5. pending' = p /\ committed' = committed /\ target' = target
  BY <1>1 DEF ChangeIds
<1>6. CallTypes' /\ KnownIsCommitted'
  BY <1>1, <1>5 DEF IInv, CallTypes, KnownIsCommitted
<1>7. RecoverOK'
  BY <1>1, <1>2, <1>3, <1>5 DEF IInv, RecoverOK, Settled, Whole
<1>8. PutOK'
  BY <1>1 DEF PutOK, Writing
<1>. QED
  BY <1>4, <1>6, <1>7, <1>8 DEF IInv

LEMMA AdoptPendingStep ==
    ASSUME IInv, NEW i \in Id, AdoptPending(i)
    PROVE  IInv'
<1>. DEFINE p == [pending EXCEPT ![i] = None]
            c == [committed EXCEPT ![i] = pending[i]]
<1>1. /\ pc = "recover" /\ pc' = "recoverSync" /\ pending[i] \in Request
      /\ Whole(pending[i]) /\ committed[i] = None
      /\ ChangeIds(p, c)
      /\ todo' = todo \ {i} /\ UNCHANGED <<opened, known, acked, who, req>>
  BY DEF AdoptPending, Replace, storeVars
<1>2. /\ p \in [Id -> Request \cup {None, Torn}]
      /\ c \in [Id -> Request \cup {None}]
      /\ pending \in [Id -> Request \cup {None, Torn}]
      /\ committed \in [Id -> Request \cup {None}]
  BY <1>1 DEF IInv, FilesOK, FileTypes
<1>3. FilesOK'
  <2>1. Distinct([pending |-> p, committed |-> c])
    <3>1. Distinct(IdImage)
      BY DEF IInv, FilesOK
    <3>. QED
      BY <1>1, <1>2, <3>1, NoNewClaim, Requests
  <2>2. ASSUME NEW r \in acked PROVE c[r.id] = r
    <3>1. committed[r.id] = r /\ r \in Request
      BY DEF IInv, CallTypes, FilesOK, AckedSurvives, IdImage
    <3>. QED
      BY <1>1, <1>2, <3>1, Requests
  <2>. QED
    BY <1>1, <1>2, <2>1, <2>2, IdsChange, ZenonT(30) DEF IInv
<1>4. pending' = p /\ committed' = c /\ target' = target
  BY <1>1 DEF ChangeIds
<1>5. CallTypes'
  BY <1>1 DEF IInv, CallTypes
<1>6. KnownIsCommitted'
  <2>1. \A j \in Id : committed[j] # None => committed'[j] # None
    BY <1>1, <1>2, <1>4, Requests
  <2>. QED
    BY <1>1, <2>1 DEF IInv, CallTypes, KnownIsCommitted
<1>7. RecoverOK'
  BY <1>1, <1>2, <1>4 DEF IInv, RecoverOK, Settled, Whole
<1>8. PutOK'
  BY <1>1 DEF PutOK, Writing
<1>. QED
  BY <1>3, <1>5, <1>6, <1>7, <1>8 DEF IInv

LEMMA RecoverSyncedStep ==
    ASSUME IInv, RecoverSynced
    PROVE  IInv'
<1>1. /\ pc = "recoverSync" /\ pc' = "recover" /\ SyncIds
      /\ known' = [known EXCEPT ![who] = @ \cup {i \in Id \ todo : committed[i] # None}]
      /\ UNCHANGED <<who, req, todo, opened, acked>>
  BY DEF RecoverSynced, Goto
<1>2. FilesOK' /\ UNCHANGED <<pending, committed, target, dirImages>>
  BY <1>1, SyncIdsKeeps DEF IInv
<1>3. CallTypes' /\ KnownIsCommitted'
  BY <1>1, <1>2 DEF IInv, CallTypes, KnownIsCommitted
<1>4. RecoverOK'
  BY <1>1, <1>2 DEF IInv, RecoverOK, Settled, Whole
<1>5. PutOK'
  BY <1>1 DEF PutOK, Writing
<1>. QED
  BY <1>2, <1>3, <1>4, <1>5 DEF IInv

\* Wherever a call ends without changing a file, the invariant holds: nothing
\* is said of a store that is idle.
LEMMA ReturnKeeps ==
    ASSUME IInv, Return, UNCHANGED fileVars, acked' = acked,
           opened' \subseteq Store, known' \in [Store -> SUBSET Id],
           \A s \in Store : known'[s] \subseteq known[s]
    PROVE  IInv'
<1>1. FilesOK'
  BY FilesKeep DEF IInv
<1>2. CallTypes'
  BY DEF IInv, CallTypes, Return
<1>3. KnownIsCommitted'
  BY DEF IInv, KnownIsCommitted, fileVars
<1>4. RecoverOK' /\ PutOK'
  BY DEF RecoverOK, PutOK, Writing, Return
<1>. QED
  BY <1>1, <1>2, <1>3, <1>4 DEF IInv

LEMMA RaisesStep ==
    ASSUME IInv, RecoverRaises \/ Refuse \/ UndoFails
    PROVE  IInv'
<1>1. Return /\ UNCHANGED <<fileVars, storeVars>>
  BY DEF RecoverRaises, Refuse, UndoFails
<1>2. opened' = opened /\ known' = known /\ acked' = acked
  BY <1>1 DEF storeVars
<1>. QED
  BY <1>1, <1>2, ReturnKeeps DEF IInv, CallTypes

LEMMA OpenedStep ==
    ASSUME IInv, Opened
    PROVE  IInv'
<1>1. /\ pc = "recover" /\ opened' = opened \cup {who} /\ Return
      /\ UNCHANGED <<fileVars, known, acked>>
  BY DEF Opened
<1>2. who \in Store
  BY <1>1 DEF IInv, CallTypes
<1>. QED
  BY <1>1, <1>2, ReturnKeeps DEF IInv, CallTypes

LEMMA RecoveredStep ==
    ASSUME IInv, Recovered
    PROVE  IInv'
<1>1. /\ pc = "recover" /\ pc' = "reserve" /\ todo = {} /\ req # None
      /\ UNCHANGED <<pending, committed, target, idImages, dirImages,
                     opened, known, acked, who, req, todo>>
  BY DEF Recovered, Goto, fileVars, storeVars
<1>2. FilesOK'
  BY <1>1, FilesKeep DEF IInv, fileVars
<1>3. CallTypes' /\ KnownIsCommitted'
  BY <1>1 DEF IInv, CallTypes, KnownIsCommitted
<1>4. RecoverOK'
  BY <1>1 DEF RecoverOK
<1>5. PutOK'
  BY <1>1 DEF IInv, CallTypes, RecoverOK, PutOK, Writing, Settled, Whole
<1>. QED
  BY <1>2, <1>3, <1>4, <1>5 DEF IInv

-----------------------------------------------------------------------------
(* A put and its roll-back *)

ReqTypes ==
    /\ req \in Request /\ req.id \in Id /\ req.path \in Path
    /\ req.content \in Content
    /\ pending \in [Id -> Request \cup {None, Torn}]
    /\ committed \in [Id -> Request \cup {None}]
    /\ target \in [Path -> Content \cup {None}]

LEMMA InPut ==
    ASSUME IInv, pc \in Writing \cup {"reserve"}
    PROVE  ReqTypes /\ Distinct(IdImage) /\ \A r \in acked : committed[r.id] = r
<1>1. req \in Request
  BY DEF IInv, PutOK
<1>2. Distinct(IdImage) /\ \A r \in acked : committed[r.id] = r
  BY DEF IInv, FilesOK, AckedSurvives, IdImage
<1>. QED
  BY <1>1, <1>2, Requests DEF IInv, FilesOK, FileTypes, ReqTypes

\* A step that changes no table of the stores keeps what is said of them if
\* the id it may take away is one that no index has.
LEMMA StoresKeep ==
    ASSUME IInv, UNCHANGED <<who, req, todo, opened, known, acked>>,
           pc \in Writing \cup {"reserve"}, pc' \in Writing,
           \A i \in Id : committed[i] # None => committed'[i] # None \/ i = req.id,
           \A s \in Store : req.id \notin known[s]
    PROVE  CallTypes' /\ KnownIsCommitted' /\ RecoverOK'
<1>1. CallTypes'
  BY DEF IInv, CallTypes, Writing
<1>2. KnownIsCommitted'
  BY DEF IInv, CallTypes, KnownIsCommitted
<1>3. RecoverOK'
  BY DEF RecoverOK, Writing
<1>. QED
  BY <1>1, <1>2, <1>3

LEMMA ReserveStep ==
    ASSUME IInv, Reserve
    PROVE  IInv'
<1>. DEFINE p == [pending EXCEPT ![req.id] = Torn]
<1>1. /\ pc = "reserve" /\ pc' = "mark" /\ ~Conflict /\ ChangeIds(p, committed)
      /\ UNCHANGED <<who, req, todo, opened, known, acked>>
  BY DEF Reserve, SetPending, Goto, storeVars
<1>2. ReqTypes /\ Distinct(IdImage) /\ \A r \in acked : committed[r.id] = r
  BY <1>1, InPut
<1>3. /\ pending[req.id] = None /\ committed[req.id] = None /\ target[req.path] = None
      /\ \A i \in Id : Settled(i)
  BY <1>1 DEF Conflict, IInv, PutOK
<1>4. FilesOK'
  <2>1. Distinct([pending |-> p, committed |-> committed])
    BY <1>2, <1>3, Requests DEF Distinct, Claim, IdImage, ReqTypes
  <2>. QED
    BY <1>1, <1>2, <2>1, IdsChange DEF IInv, ReqTypes
<1>5. pending' = p /\ committed' = committed /\ target' = target
  BY <1>1 DEF ChangeIds
<1>6. Exclusive
  <2>1. ASSUME NEW r \in acked
        PROVE  r.id # req.id /\ r.path # req.path
    <3>1. r \in Request /\ r # None /\ r.content # None
      BY Requests DEF IInv, CallTypes
    <3>2. committed[r.id] = r /\ target[r.path] = r.content
      BY <1>2 DEF IInv, FilesOK, AckedSurvives
    <3>. QED
      BY <1>3, <3>1, <3>2
  <2>2. \A s \in Store : req.id \notin known[s]
    BY <1>2, <1>3 DEF IInv, KnownIsCommitted, ReqTypes
  <2>. QED
    BY <2>1, <2>2 DEF Exclusive
<1>7. Free'
  <2>1. ASSUME NEW i \in Id, committed[i] \in Request
        PROVE  committed[i].path # req.path
    BY <1>3, <2>1, Requests DEF Settled, Whole
  <2>2. \A i \in Id : i # req.id => p[i] = None
    BY <1>2, <1>3 DEF Settled, ReqTypes
  <2>. QED
    BY <1>1, <1>3, <1>5, <2>1, <2>2 DEF Free
<1>8. CallTypes' /\ KnownIsCommitted' /\ RecoverOK'
  BY <1>1, <1>5, <1>6, StoresKeep DEF Exclusive, Writing
<1>9. PutOK'
  BY <1>1, <1>2, <1>6, <1>7 DEF PutOK, Exclusive, Writing, ReqTypes
<1>. QED
  BY <1>4, <1>8, <1>9 DEF IInv

LEMMA MarkStep ==
    ASSUME IInv, Mark
    PROVE  IInv'
<1>. DEFINE p == [pending EXCEPT ![req.id] = req]
<1>1. /\ pc = "mark" /\ pc' = "markSync" /\ ChangeIds(p, committed)
      /\ UNCHANGED <<who, req, todo, opened, known, acked>>
  BY DEF Mark, SetPending, Goto, storeVars
<1>2. ReqTypes /\ Distinct(IdImage) /\ \A r \in acked : committed[r.id] = r
  BY <1>1, InPut DEF Writing
<1>3. Exclusive /\ Free
  BY <1>1 DEF IInv, PutOK, Writing
<1>4. FilesOK'
  <2>1. p[req.id] = req /\ \A i \in Id : i # req.id => p[i] = None
    BY <1>2, <1>3 DEF Free, ReqTypes
  <2>2. Distinct([pending |-> p, committed |-> committed])
    BY <1>2, <1>3, <2>1, Requests DEF Distinct, Claim, IdImage, Free, ReqTypes
  <2>3. p \in [Id -> Request \cup {None, Torn}]
    BY <1>2 DEF ReqTypes
  <2>. QED
    BY <1>1, <1>2, <2>2, <2>3, IdsChange DEF IInv, ReqTypes
<1>5. pending' = p /\ committed' = committed /\ target' = target
  BY <1>1 DEF ChangeIds
<1>6. CallTypes' /\ KnownIsCommitted' /\ RecoverOK'
  BY <1>1, <1>3, <1>5, StoresKeep DEF Exclusive, Writing
<1>7. pending'[req.id] = req
  BY <1>2, <1>5 DEF ReqTypes
<1>8. PutOK'
  BY <1>1, <1>2, <1>3, <1>7 DEF PutOK, Exclusive, Writing, ReqTypes
<1>. QED
  BY <1>4, <1>6, <1>8 DEF IInv

LEMMA MarkSyncedStep ==
    ASSUME IInv, MarkSynced
    PROVE  IInv'
<1>1. /\ pc = "markSync" /\ pc' = "publish" /\ SyncIds
      /\ UNCHANGED <<who, req, todo, opened, known, acked>>
  BY DEF MarkSynced, Goto, storeVars
<1>2. FilesOK' /\ UNCHANGED <<pending, committed, target, dirImages>>
  BY <1>1, SyncIdsKeeps DEF IInv
<1>3. Exclusive /\ req \in Request /\ pending[req.id] = req
  BY <1>1 DEF IInv, PutOK, Writing
<1>4. CallTypes' /\ KnownIsCommitted' /\ RecoverOK'
  BY <1>1, <1>2, <1>3, StoresKeep DEF Exclusive, Writing
<1>5. PutOK'
  BY <1>1, <1>2, <1>3 DEF PutOK, Exclusive, Writing
<1>. QED
  BY <1>2, <1>4, <1>5 DEF IInv

LEMMA PublishStep ==
    ASSUME IInv, Publish
    PROVE  IInv'
<1>1. /\ pc = "publish" /\ pc' = "publishSync" /\ ChangeTarget(req.path, req.content)
      /\ UNCHANGED <<who, req, todo, opened, known, acked>>
  BY DEF Publish, Goto, storeVars
<1>2. ReqTypes
  BY <1>1, InPut DEF Writing
<1>3. Exclusive /\ pending[req.id] = req
  BY <1>1 DEF IInv, PutOK, Writing
<1>4. FilesOK'
  BY <1>1, <1>2, <1>3, TargetChange DEF IInv, Exclusive, ReqTypes
<1>5. /\ UNCHANGED <<pending, committed>>
      /\ target'[req.path] = req.content
  BY <1>1, <1>2 DEF ChangeTarget, ReqTypes
<1>6. CallTypes' /\ KnownIsCommitted' /\ RecoverOK'
  BY <1>1, <1>3, <1>5, StoresKeep DEF Exclusive, Writing
<1>7. PutOK'
  BY <1>1, <1>2, <1>3, <1>5 DEF PutOK, Exclusive, Writing, ReqTypes
<1>. QED
  BY <1>4, <1>6, <1>7 DEF IInv

LEMMA FailsStep ==
    ASSUME IInv, Fails \/ FailsPublished
    PROVE  IInv'
<1>1. /\ pc \in Writing /\ pc' \in {"undoMarker", "undoTarget"}
      /\ UNCHANGED <<pending, committed, target, idImages, dirImages>>
      /\ UNCHANGED <<who, req, todo, opened, known, acked>>
  BY DEF Fails, FailsPublished, Goto, storeVars, fileVars, Writing
<1>2. FilesOK'
  BY <1>1, FilesKeep DEF IInv, fileVars
<1>3. Exclusive /\ req \in Request
  BY <1>1 DEF IInv, PutOK
<1>4. CallTypes' /\ KnownIsCommitted' /\ RecoverOK'
  BY <1>1, <1>3, StoresKeep DEF Exclusive, Writing
<1>5. PutOK'
  BY <1>1, <1>3 DEF PutOK, Exclusive, Writing
<1>. QED
  BY <1>2, <1>4, <1>5 DEF IInv

LEMMA PublishSyncedStep ==
    ASSUME IInv, PublishSynced
    PROVE  IInv'
<1>1. /\ pc = "publishSync" /\ pc' = "commit" /\ SyncTargets
      /\ UNCHANGED <<who, req, todo, opened, known, acked>>
  BY DEF PublishSynced, Goto, storeVars
<1>2. FilesOK' /\ UNCHANGED <<pending, committed, target, idImages>>
  BY <1>1, SyncTargetsKeeps DEF IInv
<1>3. /\ Exclusive /\ req \in Request /\ pending[req.id] = req
      /\ target[req.path] = req.content
  BY <1>1 DEF IInv, PutOK, Writing
<1>4. dirImages' = {target'}
  BY <1>1, <1>2 DEF SyncTargets
<1>5. CallTypes' /\ KnownIsCommitted' /\ RecoverOK'
  BY <1>1, <1>2, <1>3, StoresKeep DEF Exclusive, Writing
<1>6. PutOK'
  BY <1>1, <1>2, <1>3, <1>4 DEF PutOK, Exclusive, Writing
<1>. QED
  BY <1>2, <1>5, <1>6 DEF IInv

LEMMA CommitStep ==
    ASSUME IInv, Commit
    PROVE  IInv'
<1>. DEFINE p == [pending EXCEPT ![req.id] = None]
            c == [committed EXCEPT ![req.id] = req]
<1>1. /\ pc = "commit" /\ pc' = "commitSync" /\ committed[req.id] = None
      /\ UNCHANGED <<who, req, todo, opened, known, acked>>
  BY DEF Commit, Goto, storeVars
<1>2. ReqTypes /\ Distinct(IdImage) /\ \A r \in acked : committed[r.id] = r
  BY <1>1, InPut DEF Writing
<1>3. /\ Exclusive /\ pending[req.id] = req /\ target[req.path] = req.content
      /\ dirImages = {target}
  BY <1>1 DEF IInv, PutOK, Writing
<1>4. ChangeIds(p, c)
  BY <1>3 DEF Commit, Replace
<1>5. FilesOK'
  <2>1. p \in [Id -> Request \cup {None, Torn}] /\ c \in [Id -> Request \cup {None}]
    BY <1>2 DEF ReqTypes
  <2>2. Distinct([pending |-> p, committed |-> c])
    BY <1>1, <1>2, <1>3, NoNewClaim, Requests DEF ReqTypes
  <2>3. \A r \in acked : c[r.id] = r
    BY <1>2, <1>3 DEF Exclusive, ReqTypes
  <2>. QED
    BY <1>1, <1>4, <2>1, <2>2, <2>3, IdsChange DEF IInv
<1>6. /\ committed' = c /\ target' = target /\ dirImages' = dirImages
  BY <1>4 DEF ChangeIds
<1>7. \A i \in Id : committed[i] # None => committed'[i] # None \/ i = req.id
  BY <1>2, <1>6 DEF ReqTypes
<1>8. CallTypes' /\ KnownIsCommitted' /\ RecoverOK'
  BY <1>1, <1>3, <1>7, StoresKeep DEF Exclusive, Writing
<1>9. PutOK'
  <2>1. committed'[req.id] = req
    BY <1>2, <1>6 DEF ReqTypes
  <2>. QED
    BY <1>1, <1>2, <1>3, <1>6, <2>1 DEF PutOK, Exclusive, Writing, ReqTypes
<1>. QED
  BY <1>5, <1>8, <1>9 DEF IInv

\* What commitSync has found is all that put promises.
LEMMA CommitSyncedStep ==
    ASSUME IInv, CommitSynced
    PROVE  IInv' /\ Readable(req) /\ UNCHANGED <<pending, committed, target>>
<1>1. /\ pc = "commitSync" /\ SyncIds /\ opened' = opened
      /\ known' = [known EXCEPT ![who] = @ \cup {req.id}]
      /\ acked' = acked \cup {req} /\ Return
  BY DEF CommitSynced
<1>2. ReqTypes
  BY <1>1, InPut DEF Writing
<1>3. /\ target[req.path] = req.content /\ dirImages = {target}
      /\ committed[req.id] = req
  BY <1>1 DEF IInv, PutOK
<1>4. /\ idImages' = {IdImage} /\ IdImage' = IdImage
      /\ UNCHANGED <<pending, committed, target, dirImages>>
  BY <1>1 DEF SyncIds, IdImage
<1>5. FilesOK'
  <2>1. FileTypes'
    BY <1>4 DEF IInv, FilesOK, FileTypes
  <2>2. (\A ids \in idImages : Distinct(ids))'
    BY <1>4 DEF IInv, FilesOK, Distinct, Claim
  <2>3. AckedSurvives'
    BY <1>1, <1>3, <1>4 DEF IInv, FilesOK, AckedSurvives, IdImage
  <2>. QED
    BY <1>4, <2>1, <2>2, <2>3 DEF IInv, FilesOK
<1>6. CallTypes'
  BY <1>1, <1>2 DEF IInv, CallTypes, Return, ReqTypes
<1>7. KnownIsCommitted'
  <2>1. req # None
    BY <1>2, Requests DEF ReqTypes
  <2>. QED
    BY <1>1, <1>3, <1>4, <2>1 DEF IInv, CallTypes, KnownIsCommitted
<1>8. RecoverOK' /\ PutOK'
  BY <1>1 DEF RecoverOK, PutOK, Writing, Return
<1>. QED
  BY <1>3, <1>4, <1>5, <1>6, <1>7, <1>8 DEF IInv, Readable

LEMMA UndoTargetStep ==
    ASSUME IInv, UndoTarget
    PROVE  IInv'
<1>1. /\ pc = "undoTarget" /\ pc' = "undoTargetSync" /\ ChangeTarget(req.path, None)
      /\ UNCHANGED <<who, req, todo, opened, known, acked>>
  BY DEF UndoTarget, Goto, storeVars
<1>2. ReqTypes
  BY <1>1, InPut DEF Writing
<1>3. Exclusive
  BY <1>1 DEF IInv, PutOK, Writing
<1>4. FilesOK'
  BY <1>1, <1>2, <1>3, TargetChange DEF IInv, Exclusive, ReqTypes
<1>5. UNCHANGED <<pending, committed>>
  BY <1>1 DEF ChangeTarget
<1>6. CallTypes' /\ KnownIsCommitted' /\ RecoverOK'
  BY <1>1, <1>3, <1>5, StoresKeep DEF Exclusive, Writing
<1>7. PutOK'
  BY <1>1, <1>2, <1>3 DEF PutOK, Exclusive, Writing, ReqTypes
<1>. QED
  BY <1>4, <1>6, <1>7 DEF IInv

LEMMA UndoTargetSyncedStep ==
    ASSUME IInv, UndoTargetSynced
    PROVE  IInv'
<1>1. /\ pc = "undoTargetSync" /\ pc' = "undoMarker" /\ SyncTargets
      /\ UNCHANGED <<who, req, todo, opened, known, acked>>
  BY DEF UndoTargetSynced, Goto, storeVars
<1>2. FilesOK' /\ UNCHANGED <<pending, committed, target, idImages>>
  BY <1>1, SyncTargetsKeeps DEF IInv
<1>3. Exclusive /\ req \in Request
  BY <1>1 DEF IInv, PutOK, Writing
<1>4. CallTypes' /\ KnownIsCommitted' /\ RecoverOK'
  BY <1>1, <1>2, <1>3, StoresKeep DEF Exclusive, Writing
<1>5. PutOK'
  BY <1>1, <1>3 DEF PutOK, Exclusive, Writing
<1>. QED
  BY <1>2, <1>4, <1>5 DEF IInv

LEMMA UndoMarkerStep ==
    ASSUME IInv, UndoMarker
    PROVE  IInv'
<1>. DEFINE p == [pending EXCEPT ![req.id] = None]
            c == [committed EXCEPT ![req.id] = None]
<1>1. /\ pc = "undoMarker" /\ pc' = "undoMarkerSync" /\ ChangeIds(p, c)
      /\ UNCHANGED <<who, req, todo, opened, known, acked>>
  BY DEF UndoMarker, Goto, storeVars
<1>2. ReqTypes /\ Distinct(IdImage) /\ \A r \in acked : committed[r.id] = r
  BY <1>1, InPut DEF Writing
<1>3. Exclusive
  BY <1>1 DEF IInv, PutOK, Writing
<1>4. FilesOK'
  <2>1. p \in [Id -> Request \cup {None, Torn}] /\ c \in [Id -> Request \cup {None}]
    BY <1>2 DEF ReqTypes
  <2>2. Distinct([pending |-> p, committed |-> c])
    BY <1>2, NoNewClaim, Requests DEF ReqTypes
  <2>3. \A r \in acked : c[r.id] = r
    BY <1>2, <1>3 DEF Exclusive, ReqTypes
  <2>. QED
    BY <1>1, <2>1, <2>2, <2>3, IdsChange DEF IInv
<1>5. committed' = c
  BY <1>1 DEF ChangeIds
<1>6. \A i \in Id : committed[i] # None => committed'[i] # None \/ i = req.id
  BY <1>2, <1>5 DEF ReqTypes
<1>7. CallTypes' /\ KnownIsCommitted' /\ RecoverOK'
  BY <1>1, <1>3, <1>6, StoresKeep DEF Exclusive, Writing
<1>8. PutOK'
  BY <1>1, <1>2, <1>3 DEF PutOK, Exclusive, Writing, ReqTypes
<1>. QED
  BY <1>4, <1>7, <1>8 DEF IInv

LEMMA UndoSyncedStep ==
    ASSUME IInv, UndoSynced
    PROVE  IInv'
<1>1. SyncIds /\ Return /\ UNCHANGED <<opened, known, acked>>
  BY DEF UndoSynced, storeVars
<1>2. FilesOK' /\ UNCHANGED <<pending, committed, target, dirImages>>
  BY <1>1, SyncIdsKeeps DEF IInv
<1>3. CallTypes' /\ KnownIsCommitted'
  BY <1>1, <1>2 DEF IInv, CallTypes, KnownIsCommitted, Return
<1>4. RecoverOK' /\ PutOK'
  BY <1>1 DEF RecoverOK, PutOK, Writing, Return
<1>. QED
  BY <1>2, <1>3, <1>4 DEF IInv

-----------------------------------------------------------------------------
(* Faults *)

LEMMA CrashStep ==
    ASSUME IInv, NEW s \in Store, Crash(s)
    PROVE  IInv'
<1>1. /\ opened' = opened \ {s}
      /\ known' = [t \in Store |-> IF t \in {s} THEN {} ELSE known[t]]
      /\ UNCHANGED fileVars /\ acked' = acked
  BY DEF Crash, Forget
<1>2. /\ opened' \subseteq Store /\ known' \in [Store -> SUBSET Id]
      /\ \A t \in Store : known'[t] \subseteq known[t]
  BY <1>1 DEF IInv, CallTypes
<1>3. CASE who = s
  <2>1. Return
    BY <1>3 DEF Crash
  <2>. QED
    BY <1>1, <1>2, <2>1, ReturnKeeps
<1>4. CASE who # s
  <2>1. UNCHANGED <<pc, who, req, todo>>
    BY <1>4 DEF Crash, callVars
  <2>2. UNCHANGED <<pending, committed, target, idImages, dirImages>>
    BY <1>1 DEF fileVars
  <2>3. FilesOK'
    BY <1>1, FilesKeep DEF IInv
  <2>4. CallTypes' /\ KnownIsCommitted'
    BY <1>1, <1>2, <2>1, <2>2 DEF IInv, CallTypes, KnownIsCommitted
  <2>5. RecoverOK'
    BY <2>1, <2>2 DEF IInv, RecoverOK, Settled, Whole
  <2>6. Exclusive => Exclusive'
    BY <1>1, <1>2, <2>1 DEF Exclusive
  <2>7. PutOK'
    BY <2>1, <2>2, <2>6 DEF IInv, PutOK, Settled, Whole, Free
  <2>. QED
    BY <2>3, <2>4, <2>5, <2>7 DEF IInv
<1>. QED
  BY <1>3, <1>4

LEMMA PowerLossStep ==
    ASSUME IInv, PowerLoss
    PROVE  IInv'
<1>1. PICK ids \in idImages, dir \in dirImages :
         /\ pending' = ids.pending /\ committed' = ids.committed /\ target' = dir
         /\ idImages' = {ids} /\ dirImages' = {dir}
  BY DEF PowerLoss
<1>2. /\ Return /\ acked' = acked
      /\ opened' = opened \ Store
      /\ known' = [s \in Store |-> IF s \in Store THEN {} ELSE known[s]]
  BY DEF PowerLoss, Forget
<1>3. FilesOK'
  <2>1. ids \in IdDir /\ dir \in [Path -> Content \cup {None}]
    BY DEF IInv, FilesOK, FileTypes
  <2>2. IdImage' = ids
    BY <1>1, <2>1 DEF IdImage, IdDir
  <2>3. FileTypes'
    BY <1>1, <2>1 DEF FileTypes, IdDir
  <2>4. (\A d \in idImages : Distinct(d))'
    BY <1>1 DEF IInv, FilesOK, Distinct, Claim
  <2>5. AckedSurvives'
    BY <1>1, <1>2 DEF IInv, FilesOK, AckedSurvives
  <2>. QED
    BY <1>1, <2>2, <2>3, <2>4, <2>5 DEF FilesOK
<1>4. CallTypes' /\ KnownIsCommitted'
  BY <1>2 DEF IInv, CallTypes, KnownIsCommitted, Return
<1>5. RecoverOK' /\ PutOK'
  BY <1>2 DEF RecoverOK, PutOK, Writing, Return
<1>. QED
  BY <1>3, <1>4, <1>5 DEF IInv

-----------------------------------------------------------------------------
(* The invariants *)

LEMMA NextIInv == IInv /\ [Next]_vars => IInv'
<1>. SUFFICES ASSUME IInv, [Next]_vars PROVE IInv'
  OBVIOUS
<1>1. ASSUME NEW s \in Store, BeginOpen(s) \/ \E r \in Request : BeginPut(s, r)
      PROVE  IInv'
  BY <1>1, EnterStep DEF BeginOpen, BeginPut
<1>2. CASE Recovery
  BY <1>2, RecoverCommittedStep, DropPendingStep, AdoptPendingStep,
     RecoverSyncedStep, RaisesStep, OpenedStep, RecoveredStep DEF Recovery
<1>3. CASE Put
  BY <1>3, RaisesStep, ReserveStep, MarkStep, MarkSyncedStep, PublishStep, FailsStep,
     PublishSyncedStep, CommitStep, CommitSyncedStep DEF Put
<1>4. CASE Undo
  BY <1>4, RaisesStep, UndoTargetStep, UndoTargetSyncedStep, UndoMarkerStep,
     UndoSyncedStep DEF Undo
<1>5. CASE UNCHANGED vars
  <2>. USE <1>5 DEF vars
  <2>1. FilesOK'
    BY FilesKeep DEF IInv, fileVars
  <2>2. CallTypes' /\ KnownIsCommitted'
    BY DEF IInv, CallTypes, KnownIsCommitted
  <2>3. RecoverOK' /\ PutOK'
    BY DEF IInv, RecoverOK, PutOK, Settled, Whole, Exclusive, Free
  <2>. QED
    BY <2>1, <2>2, <2>3 DEF IInv
<1>. QED
  BY <1>1, <1>2, <1>3, <1>4, <1>5, CrashStep, PowerLossStep DEF Next

LEMMA AlwaysIInv == Spec => []IInv
BY InitIInv, NextIInv, PTL DEF Spec

\* The files, the indices and the call in progress have their types: no half
\* marker is ever committed.
THEOREM TypeCorrect == Spec => []TypeOK
BY AlwaysIInv, TypesFromIInv, PTL

\* What put has returned a reference for survives a power loss at any moment,
\* whatever other puts, recoveries and roll-backs did and left undone.
THEOREM AckedIsDurable == Spec => []AckedSurvives
<1>1. IInv => AckedSurvives
  BY DEF IInv, FilesOK
<1>. QED
  BY <1>1, AlwaysIInv, PTL

LEMMA RecordsFromIInv == IInv => RecordsDistinct
<1>. SUFFICES ASSUME IInv, NEW i \in Id, NEW j \in Id,
                     NEW r \in {pending[i], committed[i]} \ {None, Torn},
                     NEW q \in {pending[j], committed[j]} \ {None, Torn},
                     r.path = q.path
              PROVE  i = j /\ (pending[i] = None \/ committed[i] = None)
  BY DEF RecordsDistinct
<1>1. r \in Request /\ q \in Request
  BY DEF IInv, FilesOK, FileTypes
<1>2. Distinct(IdImage)
  BY DEF IInv, FilesOK
<1>. QED
  BY <1>1, <1>2 DEF Distinct, Claim, IdImage

\* No two records claim one id or one path, so that no roll-back can take away
\* what another put has published.
THEOREM RecordsStayDistinct == Spec => []RecordsDistinct
BY AlwaysIInv, RecordsFromIInv, PTL

\* Recovery has settled every record before a put writes its first byte.
THEOREM PutsStartClean == Spec => []PutStartsClean
<1>1. IInv => PutStartsClean
  BY DEF IInv, PutOK, PutStartsClean, Settled
<1>. QED
  BY <1>1, AlwaysIInv, PTL

\* The index of a store never claims an id that has no committed record.
THEOREM IndexIsHonest == Spec => []KnownIsCommitted
<1>1. IInv => KnownIsCommitted
  BY DEF IInv
<1>. QED
  BY <1>1, AlwaysIInv, PTL

-----------------------------------------------------------------------------
(* The refinement *)

Readables == {r \in Request : Readable(r)}

LEMMA ReadablesFit ==
    IInv => acked \subseteq Readables /\ Promise!Compatible(Readables)
<1>. SUFFICES ASSUME IInv PROVE acked \subseteq Readables /\ Promise!Compatible(Readables)
  OBVIOUS
<1>1. ASSUME NEW r \in acked PROVE r \in Readables
  BY DEF IInv, CallTypes, FilesOK, AckedSurvives, IdImage, Readables, Readable
<1>2. ASSUME NEW r \in Readables, NEW q \in Readables, r # q
      PROVE  r.id # q.id /\ r.path # q.path
  <2>1. /\ r \in Request /\ q \in Request
        /\ committed[r.id] = r /\ committed[q.id] = q
        /\ r.id \in Id /\ q.id \in Id
    BY <1>2, Requests DEF Readables, Readable
  <2>2. Distinct(IdImage)
    BY DEF IInv, FilesOK
  <2>. QED
    BY <1>2, <2>1, <2>2 DEF Distinct, Claim, IdImage
<1>. QED
  BY <1>1, <1>2 DEF Promise!Compatible

LEMMA InitPromise == Init => Promise!Init
<1>. SUFFICES ASSUME Init PROVE Promise!Init
  OBVIOUS
<1>1. ASSUME NEW r \in Request PROVE ~Readable(r)
  BY Requests DEF Init, Empty, Readable
<1>. QED
  BY <1>1 DEF Promise!Init, Init

\* A put that returns is Ack; every other step settles what is readable.
LEMMA NextPromise == IInv /\ IInv' /\ [Next]_vars => [Promise!Next]_Promise!vars
<1>. SUFFICES ASSUME IInv, IInv', [Next]_vars PROVE [Promise!Next]_Promise!vars
  OBVIOUS
<1>1. CASE CommitSynced
  <2>1. /\ Readable(req) /\ UNCHANGED <<pending, committed, target>>
        /\ acked' = acked \cup {req} /\ req \in Request
    BY <1>1, CommitSyncedStep DEF CommitSynced, IInv, PutOK, Writing
  <2>2. UNCHANGED {r \in Request : Readable(r)}
    BY <2>1 DEF Readable
  <2>3. Promise!Ack(req)
    BY <2>1, <2>2 DEF Promise!Ack
  <2>. QED
    BY <2>1, <2>3 DEF Promise!Next
<1>2. CASE acked' = acked
  <2>1. (acked \subseteq Readables /\ Promise!Compatible(Readables))'
    BY ReadablesFit, PTL
  <2>2. Promise!Settle
    BY <1>2, <2>1 DEF Promise!Settle, Promise!Compatible, Readables
  <2>. QED
    BY <2>2 DEF Promise!Next
<1>3. CommitSynced \/ acked' = acked
  BY DEF Next, Recovery, Put, Undo, vars, storeVars, BeginOpen, BeginPut, Enter,
     RecoverCommitted, DropPending, AdoptPending, RecoverSynced, RecoverRaises,
     Opened, Recovered, Refuse, Reserve, Mark, MarkSynced, Publish, Fails,
     PublishSynced, Commit, FailsPublished, UndoTarget, UndoTargetSynced,
     UndoMarker, UndoSynced, UndoFails, Crash, PowerLoss
<1>. QED
  BY <1>1, <1>2, <1>3

\* The file-system store implements ImmutableStore: references stay readable,
\* and no two readable artifacts share an id or a path.
THEOREM StoreImplementsPromise == Spec => StoreSpec
BY InitPromise, NextPromise, AlwaysIInv, PTL DEF Spec, StoreSpec, Promise!Spec
=============================================================================
