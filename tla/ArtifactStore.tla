---------------------------- MODULE ArtifactStore ----------------------------
(***************************************************************************)
(* adapters/filesystem/artifact_store.py: several store objects (Parent,   *)
(* Workers) over one run directory.  A put reserves its id with a pending  *)
(* marker, publishes the file with a hard link and commits by renaming the *)
(* marker; every put and every opening first recovers what a crash left.   *)
(*                                                                         *)
(* flock serialises the operations, so `pc' is where the one in progress   *)
(* stands.  Between any two of its steps the process may die, a system     *)
(* call may fail, or the machine may lose power: each directory then comes *)
(* back in one of the states it went through since its last fsync.         *)
(***************************************************************************)
CONSTANTS
    Request,       \* what callers may put: records with id, path and content
    Store,         \* store objects
    None,
    Torn,          \* an identity record that is not complete JSON
    IOMayFail,     \* open, write, link, rename and unlink may raise OSError
    SyncMayFail,   \* fsync of a directory may raise OSError
    MayCrash,      \* a process may die at any point
    MayLosePower   \* the machine may stop at any point

Id      == {r.id : r \in Request}
Path    == {r.path : r \in Request}
Content == {r.content : r \in Request}

ASSUME StoreAssumption ==
    /\ Request \subseteq [id : Id, path : Path, content : Content]
    /\ None \notin Request \cup Store \cup Content \cup {Torn}
    /\ Torn \notin Request
    /\ {IOMayFail, SyncMayFail, MayCrash, MayLosePower} \subseteq BOOLEAN

VARIABLES
    pending,    \* .artifact_ids/<id>.pending
    committed,  \* .artifact_ids/<id>.json
    target,     \* the artifact files
    idImages,   \* states of .artifact_ids that a power loss may leave
    dirImages,  \* states of the artifact directory that a power loss may leave
    opened,     \* store objects that exist
    known,      \* known[s]: _artifact_ids
    pc,         \* where the operation that holds the lock stands
    who,        \* its store
    req,        \* what it puts; None while a store is opened
    todo,       \* identity records it has still to recover
    acked       \* history: what put has returned a reference for

fileVars  == <<pending, committed, target, idImages, dirImages>>
storeVars == <<opened, known, acked>>
callVars  == <<pc, who, req, todo>>
vars == <<pending, committed, target, idImages, dirImages, opened, known,
          pc, who, req, todo, acked>>

\* .artifact_ids as a directory
IdDir == [pending   : [Id -> Request \cup {None, Torn}],
          committed : [Id -> Request \cup {None}]]

TypeOK ==
    /\ pending \in [Id -> Request \cup {None, Torn}]
    /\ committed \in [Id -> Request \cup {None}]
    /\ target \in [Path -> Content \cup {None}]
    /\ idImages \subseteq IdDir
    /\ dirImages \subseteq [Path -> Content \cup {None}]
    /\ opened \subseteq Store
    /\ known \in [Store -> SUBSET Id]
    /\ pc \in {"idle", "recover", "recoverSync", "reserve", "mark", "markSync",
               "publish", "publishSync", "commit", "commitSync",
               "undoTarget", "undoTargetSync", "undoMarker", "undoMarkerSync"}
    /\ who \in Store \cup {None}
    /\ req \in Request \cup {None}
    /\ todo \subseteq Id
    /\ acked \subseteq Request

Empty == [pending   |-> [i \in Id |-> None],
          committed |-> [i \in Id |-> None]]

Init ==
    /\ pending = Empty.pending
    /\ committed = Empty.committed
    /\ target = [p \in Path |-> None]
    /\ idImages = {Empty}
    /\ dirImages = {target}
    /\ opened = {}
    /\ known = [s \in Store |-> {}]
    /\ pc = "idle"
    /\ who = None
    /\ req = None
    /\ todo = {}
    /\ acked = {}

-----------------------------------------------------------------------------
(* The file system *)

IdImage == [pending |-> pending, committed |-> committed]

\* A change of a directory is in the cache at once and on disk eventually.
ChangeIds(p, c) ==
    /\ pending' = p
    /\ committed' = c
    /\ idImages' = idImages \cup {[pending |-> p, committed |-> c]}
    /\ UNCHANGED <<target, dirImages>>

SetPending(i, x) == ChangeIds([pending EXCEPT ![i] = x], committed)

\* os.replace(pending, committed)
Replace(i) == ChangeIds([pending EXCEPT ![i] = None],
                        [committed EXCEPT ![i] = pending[i]])

ChangeTarget(p, x) ==
    /\ target' = [target EXCEPT ![p] = x]
    /\ dirImages' = dirImages \cup {target'}
    /\ UNCHANGED <<pending, committed, idImages>>

\* _fsync_directory
SyncIds ==
    /\ idImages' = {IdImage}
    /\ UNCHANGED <<pending, committed, target, dirImages>>

SyncTargets ==
    /\ dirImages' = {target}
    /\ UNCHANGED <<pending, committed, target, idImages>>

-----------------------------------------------------------------------------
(* Calls *)

Goto(where) == pc' = where /\ UNCHANGED <<who, req, todo>>

\* The operation ends: the lock is released.
Return == pc' = "idle" /\ who' = None /\ req' = None /\ todo' = {}

Recorded == {i \in Id : pending[i] # None \/ committed[i] # None}

Enter(s, r) ==
    /\ pc = "idle"
    /\ pc' = "recover"
    /\ who' = s
    /\ req' = r
    /\ todo' = Recorded
    /\ UNCHANGED <<fileVars, storeVars>>

\* __init__
BeginOpen(s) == s \notin opened /\ Enter(s, None)

\* _put, once its arguments are validated
BeginPut(s, r) == s \in opened /\ Enter(s, r)

-----------------------------------------------------------------------------
(* _recover_identity_records *)

\* _verify_recorded_artifact
Whole(r) == target[r.path] = r.content

RecoverCommitted(i) ==
    /\ pc = "recover"
    /\ i \in todo
    /\ committed[i] # None
    /\ Whole(committed[i])
    /\ known' = [known EXCEPT ![who] = @ \cup {i}]
    /\ todo' = todo \ {i}
    /\ UNCHANGED <<fileVars, opened, acked, pc, who, req>>

\* The artifact of a pending marker was never published, or is gone.
DropPending(i) ==
    /\ pc = "recover"
    /\ i \in todo
    /\ pending[i] \in Request
    /\ target[pending[i].path] = None
    /\ SetPending(i, None)
    /\ pc' = "recoverSync"
    /\ todo' = todo \ {i}
    /\ UNCHANGED <<storeVars, who, req>>

\* MUTANT: what a crashed put left is committed without looking at its file.
AdoptUnverified(i) ==
    /\ pc = "recover"
    /\ i \in todo
    /\ pending[i] \in Request
    /\ committed[i] = None
    /\ Replace(i)
    /\ pc' = "recoverSync"
    /\ todo' = todo \ {i}
    /\ UNCHANGED <<storeVars, who, req>>

\* MUTANT: a marker is committed without being parsed.
AdoptUnparsed(i) ==
    /\ pc = "recover"
    /\ i \in todo
    /\ pending[i] # None
    /\ Replace(i)
    /\ pc' = "recoverSync"
    /\ todo' = todo \ {i}
    /\ UNCHANGED <<storeVars, who, req>>

AdoptPending(i) ==
    /\ pc = "recover"
    /\ i \in todo
    /\ pending[i] \in Request
    /\ Whole(pending[i])
    /\ committed[i] = None
    /\ Replace(i)
    /\ pc' = "recoverSync"
    /\ todo' = todo \ {i}
    /\ UNCHANGED <<storeVars, who, req>>

\* Every adopted id is remembered once its commit is durable.
RecoverSynced ==
    /\ pc = "recoverSync"
    /\ SyncIds
    /\ known' = [known EXCEPT ![who] = @ \cup
                   {i \in Id \ todo : committed[i] # None}]
    /\ Goto("recover")
    /\ UNCHANGED <<opened, acked>>

\* A record that recovery can make no sense of: half a marker, a path that
\* holds something else, or a committed artifact that is gone.
Unrecoverable(i) ==
    \/ pending[i] = Torn
    \/ /\ pending[i] \in Request
       /\ target[pending[i].path] # None
       /\ ~Whole(pending[i]) \/ committed[i] # None
    \/ committed[i] # None /\ ~Whole(committed[i])

RecoverRaises ==
    /\ \/ pc = "recover" /\ \E i \in todo : Unrecoverable(i)
       \/ pc = "recover" /\ IOMayFail
       \/ pc = "recoverSync" /\ SyncMayFail
    /\ Return
    /\ UNCHANGED <<fileVars, storeVars>>

\* The last step of __init__.
Opened ==
    /\ pc = "recover"
    /\ todo = {}
    /\ req = None
    /\ opened' = opened \cup {who}
    /\ Return
    /\ UNCHANGED <<fileVars, known, acked>>

Recovered ==
    /\ pc = "recover"
    /\ todo = {}
    /\ req # None
    /\ Goto("reserve")
    /\ UNCHANGED <<fileVars, storeVars>>

-----------------------------------------------------------------------------
(* _put *)

Conflict ==
    \/ req.id \in known[who]
    \/ target[req.path] # None
    \/ committed[req.id] # None
    \/ pending[req.id] # None

Refuse ==
    /\ pc = "reserve"
    /\ Conflict \/ IOMayFail
    /\ Return
    /\ UNCHANGED <<fileVars, storeVars>>

\* MUTANT: only the path is checked before the id is reserved.
ReserveByPath ==
    /\ pc = "reserve"
    /\ target[req.path] = None
    /\ SetPending(req.id, Torn)
    /\ Goto("mark")
    /\ UNCHANGED storeVars

\* MUTANT: the id is remembered as soon as it is reserved.
ReserveKnown ==
    /\ pc = "reserve"
    /\ ~Conflict
    /\ SetPending(req.id, Torn)
    /\ known' = [known EXCEPT ![who] = @ \cup {req.id}]
    /\ Goto("mark")
    /\ UNCHANGED <<opened, acked>>

\* _reserve_artifact_id: the checks, and open("xb") creates an empty marker.
Reserve ==
    /\ pc = "reserve"
    /\ ~Conflict
    /\ SetPending(req.id, Torn)
    /\ Goto("mark")
    /\ UNCHANGED storeVars

\* write, flush and fsync of the marker
Mark ==
    /\ pc = "mark"
    /\ SetPending(req.id, req)
    /\ Goto("markSync")
    /\ UNCHANGED storeVars

MarkSynced ==
    /\ pc = "markSync"
    /\ SyncIds
    /\ Goto("publish")
    /\ UNCHANGED storeVars

\* The temporary file is complete and read back; os.link publishes it.
Publish ==
    /\ pc = "publish"
    /\ target[req.path] = None
    /\ ChangeTarget(req.path, req.content)
    /\ Goto("publishSync")
    /\ UNCHANGED storeVars

\* Nothing is published: only the marker is taken back.
Fails ==
    /\ \/ pc \in {"mark", "publish"} /\ IOMayFail
       \/ pc = "markSync" /\ SyncMayFail
       \/ pc = "publish" /\ target[req.path] # None
    /\ Goto("undoMarker")
    /\ UNCHANGED <<fileVars, storeVars>>

\* MUTANT: the directory entry of the artifact is not made durable.
PublishUnsynced ==
    /\ pc = "publishSync"
    /\ Goto("commit")
    /\ UNCHANGED <<fileVars, storeVars>>

PublishSynced ==
    /\ pc = "publishSync"
    /\ SyncTargets
    /\ Goto("commit")
    /\ UNCHANGED storeVars

\* _commit_artifact_id
Commit ==
    /\ pc = "commit"
    /\ committed[req.id] = None
    /\ Replace(req.id)
    /\ Goto("commitSync")
    /\ UNCHANGED storeVars

CommitSynced ==
    /\ pc = "commitSync"
    /\ SyncIds
    /\ known' = [known EXCEPT ![who] = @ \cup {req.id}]
    /\ acked' = acked \cup {req}
    /\ Return
    /\ UNCHANGED opened

FailsPublished ==
    /\ \/ pc \in {"publishSync", "commit"} /\ IOMayFail
       \/ pc \in {"publishSync", "commitSync"} /\ SyncMayFail
       \/ pc = "commit" /\ committed[req.id] # None
    /\ Goto("undoTarget")
    /\ UNCHANGED <<fileVars, storeVars>>

-----------------------------------------------------------------------------
(* The except clause of _put *)

UndoTarget ==
    /\ pc = "undoTarget"
    /\ ChangeTarget(req.path, None)
    /\ Goto("undoTargetSync")
    /\ UNCHANGED storeVars

UndoTargetSynced ==
    /\ pc = "undoTargetSync"
    /\ SyncTargets
    /\ Goto("undoMarker")
    /\ UNCHANGED storeVars

\* The pending or the committed record, whichever is there.
UndoMarker ==
    /\ pc = "undoMarker"
    /\ ChangeIds([pending EXCEPT ![req.id] = None],
                 [committed EXCEPT ![req.id] = None])
    /\ Goto("undoMarkerSync")
    /\ UNCHANGED storeVars

\* The original exception is raised again, whether or not the fsync failed.
UndoSynced ==
    /\ pc = "undoMarkerSync"
    /\ SyncIds
    /\ Return
    /\ UNCHANGED storeVars

\* An unlink raised, or the removal of the target is not durable, so that its
\* record has to stay.
UndoFails ==
    /\ \/ pc \in {"undoTarget", "undoMarker"} /\ IOMayFail
       \/ pc \in {"undoTargetSync", "undoMarkerSync"} /\ SyncMayFail
    /\ Return
    /\ UNCHANGED <<fileVars, storeVars>>

-----------------------------------------------------------------------------
(* Faults *)

Forget(S) ==
    /\ opened' = opened \ S
    /\ known' = [s \in Store |-> IF s \in S THEN {} ELSE known[s]]

\* The process of store s dies, in the middle of an operation or not.
Crash(s) ==
    /\ MayCrash
    /\ s \in opened \cup {who}
    /\ Forget({s})
    /\ IF who = s THEN Return ELSE UNCHANGED callVars
    /\ UNCHANGED <<fileVars, acked>>

PowerLoss ==
    /\ MayLosePower
    /\ \E ids \in idImages, dir \in dirImages :
          /\ pending' = ids.pending
          /\ committed' = ids.committed
          /\ target' = dir
          /\ idImages' = {ids}
          /\ dirImages' = {dir}
    /\ Forget(Store)
    /\ Return
    /\ UNCHANGED acked

-----------------------------------------------------------------------------
Recovery ==
    \/ \E i \in Id : RecoverCommitted(i) \/ DropPending(i) \/ AdoptPending(i)
    \/ RecoverSynced \/ RecoverRaises \/ Opened \/ Recovered

Put ==
    \/ Refuse \/ Reserve \/ Mark \/ MarkSynced \/ Publish \/ Fails
    \/ PublishSynced \/ Commit \/ CommitSynced \/ FailsPublished

Undo ==
    UndoTarget \/ UndoTargetSynced \/ UndoMarker \/ UndoSynced \/ UndoFails

Next ==
    \/ \E s \in Store : BeginOpen(s) \/ (\E r \in Request : BeginPut(s, r))
    \/ Recovery
    \/ Put
    \/ Undo
    \/ \E s \in Store : Crash(s)
    \/ PowerLoss

Spec == Init /\ [][Next]_vars

-----------------------------------------------------------------------------
(* Properties *)

\* What read() would return: the record and the file both match.
Readable(r) == committed[r.id] = r /\ target[r.path] = r.content

\* The store keeps the promise of ImmutableStore: a reference that put has
\* returned is readable from then on, and no two readable artifacts share an
\* id or a path, through every failure, crash and recovery of other puts.
Promise == INSTANCE ImmutableStore
             WITH readable <- {r \in Request : Readable(r)}
StoreSpec == Promise!Spec

\* A returned reference survives a power loss at any moment after.
AckedSurvives ==
    \A r \in acked : /\ \A ids \in idImages : ids.committed[r.id] = r
                     /\ \A dir \in dirImages : dir[r.path] = r.content

\* No id is claimed by two records, and no path by the records of two ids.
\* Otherwise the roll-back of one put would delete the artifact of another.
RecordsDistinct ==
    LET Claims(i) == {pending[i], committed[i]} \ {None, Torn}
    IN  \A i, j \in Id : \A r \in Claims(i), q \in Claims(j) :
            r.path = q.path => i = j /\ (pending[i] = None \/ committed[i] = None)

\* A put starts to write only when recovery has settled every record: nothing
\* pending is left, and every committed artifact is there.
PutStartsClean ==
    pc = "reserve" =>
        \A i \in Id : pending[i] = None /\ (committed[i] # None => Whole(committed[i]))

\* The in-memory index never claims an id that is not committed, so a put that
\* failed and was rolled back can be tried again.
KnownIsCommitted ==
    \A s \in Store : \A i \in known[s] : committed[i] # None

\* A store that is not in use can be opened: no crash or failure leaves a
\* record that recovery cannot make sense of.
Reopens == pc = "idle" => \A i \in Id : ~Unrecoverable(i)
=============================================================================
