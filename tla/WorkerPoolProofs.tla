-------------------------- MODULE WorkerPoolProofs --------------------------
(***************************************************************************)
(* Theorems about WorkerPool for every number of executions, tasks, CDP    *)
(* URLs and processes, every set of assignments, every pipe capacity and   *)
(* both settings of each fault.                                            *)
(***************************************************************************)
EXTENDS WorkerPool, SequenceTheorems, TLAPS

Starting == {"spawn", "register", "abort", "unwind"}
OnTarget == Draining \cup {"classify", "join", "joinFor", "finalize"}

\* Which arguments an operation has at each of its steps.
CallShape ==
    /\ request # None <=> pc \in Starting
    /\ spawned # None <=> pc \in Starting \ {"spawn"}
    /\ target # None <=> pc \in OnTarget
    /\ todo \subseteq Slots
    /\ pc \notin {"stop", "finalDrain", "finalize"} => todo = {}

\* start() works on an execution without a slot and on its own process.
StartShape ==
    /\ request # None => slot[request.exec] = None
    /\ spawned # None => job[spawned] = request /\ pstate[spawned] # "none"
    /\ pc = "unwind" => pstate[spawned] \in Dead

\* reap, shutdown and the readers work on a slot that shutdown has left
\* behind; a slot is finalized only once its process is dead.
TargetShape ==
    /\ target # None => slot[target] # None /\ target \notin todo
    /\ pc \in {"finalDrain", "finalize"} => pstate[slot[target]] \in Dead

\* A slot holds an existing process spawned for that execution, which is not
\* the one start() is still working on.
SlotShape ==
    \A e \in Slots : /\ job[slot[e]] \in Assignment
                     /\ job[slot[e]].exec = e
                     /\ pstate[slot[e]] # "none"
                     /\ slot[e] # spawned

\* A process that has not run its bootstrap has sent nothing.
BootShape == \A p \in Pid : pstate[p] \in {"none", "boot"} => sent[p] = 0

\* No two owners compete.
OwnersDisjoint == \A a, b \in Owners : a # b => ~Lease!Conflict(a, b)

\* The part that is about control alone.
CInv ==
    /\ TypeOK
    /\ CallShape
    /\ StartShape
    /\ TargetShape
    /\ SlotShape
    /\ BootShape

\* The part about who owns what.
OInv == OwnersDisjoint /\ LeasesAreOwned /\ ProcessesAreOwned

\* An open lifecycle belongs to the slot of its execution, or to the process
\* start() is about to give that slot or to stop.
LInv ==
    \A e \in Exec : records[e] # None /\ ~records[e].exited =>
        \/ records[e].pid = slot[e]
        \/ spawned # None /\ request.exec = e /\ records[e].pid = spawned

\* The inductive invariant.
IInv == CInv /\ OInv /\ LInv

\* The steps below work on the level of single variables: the helpers of the
\* actions and the parts of CInv are expanded everywhere.
USE PoolAssumption DEF Record, Payload, Sentinel, Alive, Dead, Draining
USE DEF vars, workerVars, leaseVars, callVars
USE DEF Put, PutBeat, Kill, Forget, StartReturns, CallEnds, NextSlot, Begin,
        Register, Unregister, MarkExited, MayRegister, NewRecord,
        ReleaseAssignment, Reject, Accept, NoLifecycle, RecordPayload,
        RecordSentinel, Slots, Starting, OnTarget
USE DEF CInv, TypeOK, CallShape, StartShape, TargetShape, SlotShape, BootShape

\* Each way to change the monitor's table keeps it well-typed.
LEMMA RegisterType ==
  ASSUME TypeOK, NEW e \in Exec, NEW p \in Pid, Register(e, p)
  PROVE  records' \in [Exec -> Record \cup {None}]
<1>1. NewRecord(p) \in Record
  OBVIOUS
<1>. HIDE DEF Record, NewRecord
<1>. QED BY <1>1

LEMMA MarkExitedType ==
  ASSUME TypeOK, NEW e \in Exec, records[e] # None, MarkExited(e)
  PROVE  records' \in [Exec -> Record \cup {None}]
<1>1. records[e] \in Record
  OBVIOUS
<1>2. [records[e] EXCEPT !.exited = TRUE] \in Record
  BY <1>1
<1>. HIDE DEF Record
<1>. QED BY <1>2

LEMMA AcceptType ==
  ASSUME TypeOK, NEW e \in Exec, NEW p, NEW x \in 0 .. MaxBeats, Accept(e, p, x)
  PROVE  records' \in [Exec -> Record \cup {None}]
<1>1. records[e] \in Record
  OBVIOUS
<1>2. [records[e] EXCEPT !.latest = x] \in Record
  BY <1>1
<1>. HIDE DEF Record
<1>. QED BY <1>2

\* A queue or a process that is signalled stays well-typed.
LEMMA KillTypes ==
  ASSUME TypeOK, NEW p \in Pid, Kill(p)
  PROVE  /\ pstate' \in [Pid -> {"none"} \cup Alive \cup Dead]
         /\ feed' \in [Pid -> Seq(Payload)]
<1>1. <<>> \in Seq(Payload)
  OBVIOUS
<1>. HIDE DEF Payload
<1>. QED BY <1>1

LEMMA PutTypes ==
  ASSUME TypeOK, NEW p \in Pid, NEW x \in Payload, Put(p, x)
  PROVE  feed' \in [Pid -> Seq(Payload)]
<1>1. Append(feed[p], x) \in Seq(Payload)
  <2>. HIDE DEF Payload
  <2>. QED BY AppendProperties
<1>. HIDE DEF Payload
<1>. QED BY <1>1

LEMMA StepBeat == ASSUME CInv, NEW p \in Pid, Beat(p) PROVE CInv'
<1>1. TypeOK'
  <2>1. sent[p] + 1 \in 0 .. MaxBeats
    BY DEF Beat
  <2>2. feed' \in [Pid -> Seq(Payload)]
    <3>. HIDE DEF Put
    <3>. QED BY <2>1, PutTypes DEF Beat
  <2>3. sent' \in [Pid -> 0 .. MaxBeats]
    BY <2>1 DEF Beat
  <2>. QED BY <2>2, <2>3 DEF Beat
<1>2. CallShape' /\ StartShape' /\ TargetShape' /\ SlotShape'
  BY DEF Beat
<1>3. BootShape'
  BY DEF Beat
<1>. QED BY <1>1, <1>2, <1>3

LEMMA StepCrash == ASSUME CInv, NEW p \in Pid, Crash(p) PROVE CInv'
<1>1. TypeOK'
  BY SMTT(30) DEF Crash
<1>2. CallShape' /\ StartShape' /\ TargetShape'
  BY DEF Crash
<1>3. SlotShape' /\ BootShape'
  BY DEF Crash
<1>. QED BY <1>1, <1>2, <1>3

LEMMA StepRegisterFails == ASSUME CInv, RegisterFails PROVE CInv'
<1>1. request.exec \in Exec /\ spawned \in Pid
  BY DEF RegisterFails
<1>2. records' \in [Exec -> Record \cup {None}]
  <2>1. Register(request.exec, spawned) \/ UNCHANGED records
    BY DEF RegisterFails
  <2>2. CASE Register(request.exec, spawned)
    BY <1>1, <2>2, RegisterType
  <2>. QED BY <2>1, <2>2
<1>3. TypeOK'
  BY <1>2 DEF RegisterFails
<1>4. CallShape' /\ StartShape' /\ TargetShape' /\ SlotShape' /\ BootShape'
  BY DEF RegisterFails
<1>. QED BY <1>3, <1>4

LEMMA StepAbortStops == ASSUME CInv, AbortStops PROVE CInv'
<1>1. spawned \in Pid
  BY DEF AbortStops
<1>2. TypeOK'
  <2>1. Kill(spawned) \/ UNCHANGED <<pstate, feed>>
    BY DEF AbortStops
  <2>2. /\ pstate' \in [Pid -> {"none"} \cup Alive \cup Dead]
        /\ feed' \in [Pid -> Seq(Payload)]
    <3>1. CASE Kill(spawned)
      <4>. HIDE DEF Kill
      <4>. QED BY <1>1, <3>1, KillTypes
    <3>2. CASE UNCHANGED <<pstate, feed>>
      BY <3>2
    <3>. QED BY <2>1, <3>1, <3>2
  <2>. QED BY <2>2 DEF AbortStops
<1>3. CallShape' /\ StartShape' /\ TargetShape' /\ SlotShape' /\ BootShape'
  BY <1>1 DEF AbortStops
<1>. QED BY <1>2, <1>3

LEMMA StepAbortKeeps == ASSUME CInv, AbortKeeps PROVE CInv'
<1>1. request.exec \in Exec /\ spawned \in Pid
  BY DEF AbortKeeps
<1>2. records' \in [Exec -> Record \cup {None}]
  <2>1. Register(request.exec, spawned) \/ UNCHANGED records
    BY DEF AbortKeeps
  <2>2. CASE Register(request.exec, spawned)
    BY <1>1, <2>2, RegisterType
  <2>. QED BY <2>1, <2>2
<1>3. TypeOK'
  BY <1>1, <1>2 DEF AbortKeeps
<1>4. CallShape' /\ StartShape' /\ TargetShape' /\ SlotShape' /\ BootShape'
  BY <1>1 DEF AbortKeeps
<1>. QED BY <1>3, <1>4

LEMMA StepDrainOne == ASSUME CInv, DrainOne PROVE CInv'
<1>1. target \in Exec /\ slot[target] \in Pid
  BY DEF DrainOne
<1>2. /\ Head(pipe[slot[target]]) \in 0 .. MaxBeats
      /\ pipe' \in [Pid -> Seq(Payload)]
  BY <1>1, HeadTailProperties DEF DrainOne
<1>3. records' \in [Exec -> Record \cup {None}]
  <2>1. \/ UNCHANGED records
        \/ records[target] # None /\ MarkExited(target)
        \/ Accept(target, slot[target], Head(pipe[slot[target]]))
    BY DEF DrainOne
  <2>2. CASE records[target] # None /\ MarkExited(target)
    BY <1>1, <2>2, MarkExitedType
  <2>3. CASE Accept(target, slot[target], Head(pipe[slot[target]]))
    BY <1>1, <1>2, <2>3, AcceptType
  <2>. QED BY <2>1, <2>2, <2>3
<1>4. hbError' \in [Pid -> BOOLEAN]
  BY <1>1 DEF DrainOne
<1>5. TypeOK'
  BY <1>2, <1>3, <1>4 DEF DrainOne
<1>6. CallShape' /\ StartShape' /\ TargetShape' /\ SlotShape' /\ BootShape'
  BY <1>1, SMTT(30) DEF DrainOne
<1>. QED BY <1>5, <1>6

LEMMA StepClassify == ASSUME CInv, Classify PROVE CInv'
<1>1. target \in Exec
  BY DEF Classify
<1>2. records' \in [Exec -> Record \cup {None}]
  <2>1. (records[target] # None /\ MarkExited(target)) \/ UNCHANGED records
    BY DEF Classify
  <2>2. CASE records[target] # None /\ MarkExited(target)
    BY <1>1, <2>2, MarkExitedType
  <2>. QED BY <2>1, <2>2
<1>3. TypeOK'
  BY <1>2 DEF Classify
<1>4. CallShape' /\ StartShape' /\ TargetShape' /\ SlotShape' /\ BootShape'
  BY DEF Classify
<1>. QED BY <1>3, <1>4

LEMMA StepFinalize == ASSUME CInv, Finalize PROVE CInv'
<1>1. target \in Exec /\ slot[target] \in Pid
  BY DEF Finalize
<1>2. records' \in [Exec -> Record \cup {None}]
  <2>1. records[target] # None /\ MarkExited(target)
    BY DEF Finalize
  <2>. QED BY <1>1, <2>1, MarkExitedType
<1>3. TypeOK'
  <2>1. /\ feed' \in [Pid -> Seq(Payload)]
        /\ pipe' \in [Pid -> Seq(Payload)]
    BY <1>1 DEF Finalize
  <2>2. /\ pstate' \in [Pid -> {"none"} \cup Alive \cup Dead]
        /\ job' \in [Pid -> Assignment \cup {None}]
        /\ sent' \in [Pid -> 0 .. MaxBeats]
        /\ hbError' \in [Pid -> BOOLEAN]
        /\ slot' \in [Exec -> Pid \cup {None}]
    BY <1>1, SMTT(30) DEF Finalize
  <2>. QED BY <1>2, <2>1, <2>2 DEF Finalize
<1>4. \A e \in Exec \ {target} : slot[e] # None => slot[e] # slot[target]
  BY <1>1 DEF Finalize
<1>5. CallShape' /\ StartShape' /\ TargetShape'
  BY <1>1, <1>4 DEF Finalize
<1>6. SlotShape' /\ BootShape'
  BY <1>1, <1>4, SMTT(30) DEF Finalize
<1>. QED BY <1>3, <1>5, <1>6

LEMMA StepStopWorker ==
  ASSUME CInv, NEW e \in Exec, StopWorker(e) PROVE CInv'
<1>1. slot[e] \in Pid
  BY DEF StopWorker
<1>2. TypeOK'
  <2>1. Kill(slot[e]) \/ UNCHANGED <<pstate, feed>>
    BY DEF StopWorker
  <2>2. /\ pstate' \in [Pid -> {"none"} \cup Alive \cup Dead]
        /\ feed' \in [Pid -> Seq(Payload)]
    <3>1. CASE Kill(slot[e])
      <4>. HIDE DEF Kill
      <4>. QED BY <1>1, <3>1, KillTypes
    <3>2. CASE UNCHANGED <<pstate, feed>>
      BY <3>2
    <3>. QED BY <2>1, <3>1, <3>2
  <2>. QED BY <2>2 DEF StopWorker
<1>3. CallShape' /\ StartShape' /\ TargetShape' /\ SlotShape' /\ BootShape'
  BY <1>1 DEF StopWorker
<1>. QED BY <1>2, <1>3

LEMMA StepStatusNoSlot ==
  ASSUME CInv, NEW e \in Exec, StatusNoSlot(e) PROVE CInv'
<1>1. records' \in [Exec -> Record \cup {None}]
  <2>1. (records[e] # None /\ MarkExited(e)) \/ UNCHANGED records
    BY DEF StatusNoSlot
  <2>2. CASE records[e] # None /\ MarkExited(e)
    BY <2>2, MarkExitedType
  <2>. QED BY <2>1, <2>2
<1>2. TypeOK'
  BY <1>1 DEF StatusNoSlot
<1>3. CallShape' /\ StartShape' /\ TargetShape' /\ SlotShape' /\ BootShape'
  BY DEF StatusNoSlot
<1>. QED BY <1>2, <1>3

LEMMA StepBoot == ASSUME CInv, NEW p \in Pid, Boot(p) PROVE CInv'
  BY SMTT(30) DEF Boot

LEMMA StepFinish == ASSUME CInv, NEW p \in Pid, Finish(p) PROVE CInv'
  BY SMTT(30) DEF Finish

LEMMA StepFeed == ASSUME CInv, NEW p \in Pid, Feed(p) PROVE CInv'
  BY SMTT(30) DEF Feed

LEMMA StepExit == ASSUME CInv, NEW p \in Pid, Exit(p) PROVE CInv'
  BY DEF Exit

LEMMA StepSpawn == ASSUME CInv, NEW p \in Pid, Spawn(p) PROVE CInv'
  BY DEF Spawn

LEMMA StepSpawnFails == ASSUME CInv, SpawnFails PROVE CInv'
  BY DEF SpawnFails

LEMMA StepRegisterWorker == ASSUME CInv, RegisterWorker PROVE CInv'
  BY DEF RegisterWorker

LEMMA StepUnwind == ASSUME CInv, Unwind PROVE CInv'
  BY DEF Unwind

LEMMA StepDrainEnds == ASSUME CInv, DrainEnds PROVE CInv'
  BY DEF DrainEnds

LEMMA StepJoinReturns == ASSUME CInv, JoinReturns PROVE CInv'
  BY DEF JoinReturns

LEMMA StepJoinTimesOut == ASSUME CInv, JoinTimesOut PROVE CInv'
  BY DEF JoinTimesOut

LEMMA StepFinalizeFails == ASSUME CInv, FinalizeFails PROVE CInv'
  BY DEF FinalizeFails

LEMMA StepBeginShutdown == ASSUME CInv, BeginShutdown PROVE CInv'
  BY DEF BeginShutdown

LEMMA StepReserve == ASSUME CInv, NEW a \in Assignment, Reserve(a) PROVE CInv'
  BY DEF Reserve

LEMMA StepStopFails == ASSUME CInv, NEW e \in Exec, StopFails(e) PROVE CInv'
  BY DEF StopFails

LEMMA StepBeginDrain == ASSUME CInv, NEW e \in Exec, BeginDrain(e) PROVE CInv'
  BY DEF BeginDrain

LEMMA StepBeginStatus == ASSUME CInv, NEW e \in Exec, BeginStatus(e) PROVE CInv'
  BY DEF BeginStatus

LEMMA StepBeginReap == ASSUME CInv, NEW e \in Exec, BeginReap(e) PROVE CInv'
  BY DEF BeginReap

LEMMA StepBeginReapFor == ASSUME CInv, NEW e \in Exec, BeginReapFor(e) PROVE CInv'
  BY DEF BeginReapFor

-----------------------------------------------------------------------------
(* Ownership.  Every step keeps the set of owners, adds the assignment that *)
(* _reserve has checked, or removes one whose process is gone.              *)

USE DEF Owners, OwnersDisjoint, LeasesAreOwned, ProcessesAreOwned, Lease!Conflict

LEMMA SameOwners ==
  ASSUME OwnersDisjoint, LeasesAreOwned,
         Owners' = Owners, UNCHANGED <<taskLeases, cdpLeases>>
  PROVE  OwnersDisjoint' /\ LeasesAreOwned'
<1>. HIDE DEF Owners
<1>. QED OBVIOUS

LEMMA ReserveOwner ==
  ASSUME CInv, OInv, NEW a \in Assignment, Reserve(a)
  PROVE  /\ Owners' = Owners \cup {a}
         /\ \A b \in Owners : ~Lease!Conflict(a, b)
         /\ OwnersDisjoint' /\ LeasesAreOwned'
<1>1. Owners' = Owners \cup {a}
  BY DEF Reserve
<1>2. \A b \in Owners : ~Lease!Conflict(a, b)
  <2>1. \A b \in Owners : b.task \in taskLeases /\ b.url \in cdpLeases
    BY DEF OInv
  <2>2. \A b \in Owners : b.exec # a.exec
    BY DEF Reserve
  <2>. QED BY <2>1, <2>2 DEF Reserve
<1>3. OwnersDisjoint'
  <2>. HIDE DEF Owners
  <2>. QED BY <1>1, <1>2 DEF OInv
<1>4. LeasesAreOwned'
  <2>. HIDE DEF Owners
  <2>. QED BY <1>1 DEF OInv, Reserve
<1>. QED BY <1>1, <1>2, <1>3, <1>4

LEMMA ReleaseOwner ==
  ASSUME OwnersDisjoint, LeasesAreOwned, NEW x \in Owners,
         Owners' = Owners \ {x}, ReleaseAssignment(x)
  PROVE  OwnersDisjoint' /\ LeasesAreOwned'
<1>. HIDE DEF Owners
<1>1. \A b \in Owners \ {x} : b.task # x.task /\ b.url # x.url
  OBVIOUS
<1>2. OwnersDisjoint'
  OBVIOUS
<1>3. LeasesAreOwned'
  BY <1>1
<1>. QED BY <1>2, <1>3

\* The steps that give an owner up, and the owner they give up.
LEMMA SpawnFailsOwner ==
  ASSUME CInv, OInv, SpawnFails
  PROVE  request \in Owners /\ Owners' = Owners \ {request}
<1>1. \A e \in Slots : job[slot[e]] # request
  BY DEF SpawnFails
<1>. QED BY <1>1 DEF SpawnFails

LEMMA UnwindOwner ==
  ASSUME CInv, OInv, Unwind
  PROVE  request \in Owners /\ Owners' = Owners \ {request}
<1>1. \A e \in Slots : job[slot[e]] # request /\ slot[e] # spawned
  BY DEF Unwind
<1>2. \A e \in Slots : job'[slot[e]] = job[slot[e]]
  BY <1>1 DEF Unwind
<1>. QED BY <1>1, <1>2 DEF Unwind

LEMMA FinalizeOwner ==
  ASSUME CInv, OInv, Finalize
  PROVE  /\ job[slot[target]] \in Owners
         /\ Owners' = Owners \ {job[slot[target]]}
<1>1. target \in Slots /\ slot[target] \in Pid /\ request = None /\ request' = None
  BY DEF Finalize
<1>2. \A e \in Slots \ {target} : /\ slot[e] # slot[target]
                                  /\ job[slot[e]] # job[slot[target]]
  BY <1>1
<1>3. Slots' = Slots \ {target}
  BY <1>1 DEF Finalize
<1>4. \A e \in Slots \ {target} : job'[slot'[e]] = job[slot[e]]
  BY <1>1, <1>2 DEF Finalize
<1>5. Owners = {job[slot[e]] : e \in Slots}
  BY <1>1
<1>6. Owners' = {job[slot[e]] : e \in Slots \ {target}}
  <2>1. Owners' = {job'[slot'[e]] : e \in Slots \ {target}}
    <3>. HIDE DEF Slots
    <3>. QED BY <1>1, <1>3
  <2>. HIDE DEF Slots, Owners, CInv, OInv
  <2>2. ASSUME NEW x \in Owners' PROVE \E e \in Slots \ {target} : x = job[slot[e]]
    BY <1>4, <2>1
  <2>3. ASSUME NEW e \in Slots \ {target} PROVE job[slot[e]] \in Owners'
    BY <1>4, <2>1
  <2>. QED BY <2>2, <2>3
<1>. HIDE DEF Slots, Owners
<1>. QED BY <1>1, <1>2, <1>5, <1>6

\* The steps that keep the owners.
LEMMA SpawnOwners ==
  ASSUME CInv, OInv, NEW p \in Pid, Spawn(p) PROVE Owners' = Owners
<1>1. \A e \in Slots : slot[e] # p
  BY DEF Spawn
<1>2. \A e \in Slots : job'[slot'[e]] = job[slot[e]]
  BY <1>1 DEF Spawn
<1>. QED BY <1>2 DEF Spawn

LEMMA RegisterOwners ==
  ASSUME CInv, OInv, RegisterWorker \/ AbortKeeps PROVE Owners' = Owners
<1>1. /\ request \in Assignment /\ request.exec \in Exec /\ spawned \in Pid
      /\ request' = None /\ job' = job /\ job[spawned] = request
      /\ slot' = [slot EXCEPT ![request.exec] = spawned]
      /\ slot[request.exec] = None
  BY DEF RegisterWorker, AbortKeeps
<1>2. Slots' = Slots \cup {request.exec}
  BY <1>1
<1>3. \A e \in Slots : e # request.exec /\ slot'[e] = slot[e]
  BY <1>1
<1>4. Owners' = {job[slot'[e]] : e \in Slots \cup {request.exec}}
  <2>. HIDE DEF Slots
  <2>. QED BY <1>1, <1>2
<1>5. slot'[request.exec] = spawned
  BY <1>1
<1>6. Owners = {job[slot[e]] : e \in Slots} \cup {request}
  BY <1>1
<1>7. \A e \in Slots : job[slot'[e]] = job[slot[e]]
  BY <1>3
<1>. HIDE DEF Slots, Owners
<1>. QED BY <1>1, <1>4, <1>5, <1>6, <1>7

\* No other step touches slots, jobs, request or leases.
OtherStep ==
    \/ \E p \in Pid : WorkerStep(p) \/ Crash(p)
    \/ RegisterFails \/ AbortStops
    \/ DrainOne \/ DrainEnds \/ Classify
    \/ JoinReturns \/ JoinTimesOut \/ BeginShutdown \/ FinalizeFails
    \/ \E e \in Exec : \/ StopWorker(e) \/ StopFails(e)
                       \/ BeginDrain(e) \/ BeginStatus(e) \/ StatusNoSlot(e)
                       \/ BeginReap(e) \/ BeginReapFor(e)

LEMMA OtherOwners ==
  ASSUME CInv, OInv, OtherStep
  PROVE  /\ UNCHANGED <<slot, job, request, spawned, taskLeases, cdpLeases>>
         /\ \A p \in Pid : pstate'[p] # "none" => pstate[p] # "none"
<1>1. ASSUME NEW p \in Pid, WorkerStep(p) \/ Crash(p)
      PROVE  /\ UNCHANGED <<slot, job, request, spawned, taskLeases, cdpLeases>>
             /\ \A q \in Pid : pstate'[q] # "none" => pstate[q] # "none"
  BY <1>1 DEF WorkerStep, Boot, Beat, Finish, Feed, Exit, Crash
<1>2. ASSUME NEW e \in Exec,
             \/ StopWorker(e) \/ StopFails(e)
             \/ BeginDrain(e) \/ BeginStatus(e) \/ StatusNoSlot(e)
             \/ BeginReap(e) \/ BeginReapFor(e)
      PROVE  /\ UNCHANGED <<slot, job, request, spawned, taskLeases, cdpLeases>>
             /\ \A q \in Pid : pstate'[q] # "none" => pstate[q] # "none"
  BY <1>2 DEF StopWorker, StopFails, BeginDrain, BeginStatus, StatusNoSlot,
              BeginReap, BeginReapFor
<1>3. ASSUME \/ RegisterFails \/ AbortStops
             \/ DrainOne \/ DrainEnds \/ Classify
             \/ JoinReturns \/ JoinTimesOut \/ BeginShutdown \/ FinalizeFails
      PROVE  /\ UNCHANGED <<slot, job, request, spawned, taskLeases, cdpLeases>>
             /\ \A q \in Pid : pstate'[q] # "none" => pstate[q] # "none"
  BY <1>3 DEF RegisterFails, AbortStops, DrainOne, DrainEnds, Classify,
              JoinReturns, JoinTimesOut, BeginShutdown, FinalizeFails
<1>. QED BY <1>1, <1>2, <1>3 DEF OtherStep

LEMMA OwnershipStep == CInv /\ CInv' /\ OInv /\ [Next]_vars => OInv'
<1>. SUFFICES ASSUME CInv, CInv', OInv, [Next]_vars PROVE OInv'
  OBVIOUS
<1>1. ASSUME NEW a \in Assignment, Reserve(a) PROVE OInv'
  <2>1. ProcessesAreOwned'
    BY <1>1 DEF OInv, Reserve
  <2>. QED BY <1>1, <2>1, ReserveOwner DEF OInv
<1>2. CASE SpawnFails
  <2>1. ProcessesAreOwned'
    BY <1>2 DEF OInv, SpawnFails
  <2>2. ReleaseAssignment(request)
    BY <1>2 DEF SpawnFails
  <2>. QED BY <1>2, <2>1, <2>2, SpawnFailsOwner, ReleaseOwner DEF OInv
<1>3. CASE Unwind
  <2>1. ProcessesAreOwned'
    BY <1>3 DEF OInv, Unwind
  <2>2. ReleaseAssignment(request)
    BY <1>3 DEF Unwind
  <2>. QED BY <1>3, <2>1, <2>2, UnwindOwner, ReleaseOwner DEF OInv
<1>4. CASE Finalize
  <2>1. ProcessesAreOwned'
    BY <1>4, SMTT(30) DEF OInv, Finalize
  <2>2. ReleaseAssignment(job[slot[target]])
    BY <1>4 DEF Finalize
  <2>. QED BY <1>4, <2>1, <2>2, FinalizeOwner, ReleaseOwner DEF OInv
<1>5. ASSUME NEW p \in Pid, Spawn(p) PROVE OInv'
  <2>1. ProcessesAreOwned'
    BY <1>5 DEF OInv, Spawn
  <2>2. UNCHANGED <<taskLeases, cdpLeases>>
    BY <1>5 DEF Spawn
  <2>. QED BY <1>5, <2>1, <2>2, SpawnOwners, SameOwners DEF OInv
<1>6. CASE RegisterWorker \/ AbortKeeps
  <2>1. ProcessesAreOwned'
    <3>1. /\ request \in Assignment /\ request.exec \in Exec /\ spawned \in Pid
          /\ pstate' = pstate /\ job' = job /\ job[spawned] = request
          /\ slot' = [slot EXCEPT ![request.exec] = spawned]
          /\ slot[request.exec] = None
      BY <1>6 DEF RegisterWorker, AbortKeeps
    <3>2. SUFFICES ASSUME NEW p \in Pid, pstate[p] # "none"
                   PROVE  job[p] # None /\ slot'[job[p].exec] = p
      BY <3>1
    <3>3. CASE p = spawned
      BY <3>1, <3>3
    <3>4. CASE p # spawned
      <4>1. job[p] # None /\ slot[job[p].exec] = p
        BY <3>2, <3>4 DEF OInv
      <4>. QED BY <3>1, <4>1
    <3>. QED BY <3>3, <3>4
  <2>2. UNCHANGED <<taskLeases, cdpLeases>>
    BY <1>6 DEF RegisterWorker, AbortKeeps
  <2>. QED BY <1>6, <2>1, <2>2, RegisterOwners, SameOwners DEF OInv
<1>7. CASE OtherStep \/ UNCHANGED vars
  <2>1. /\ UNCHANGED <<slot, job, request, spawned, taskLeases, cdpLeases>>
        /\ \A p \in Pid : pstate'[p] # "none" => pstate[p] # "none"
    BY <1>7, OtherOwners
  <2>2. Owners' = Owners
    BY <2>1
  <2>3. ProcessesAreOwned'
    BY <2>1 DEF OInv
  <2>. QED BY <2>1, <2>2, <2>3, SameOwners DEF OInv
<1>. QED
  <2>. HIDE DEF CInv, vars
  <2>. QED BY <1>1, <1>2, <1>3, <1>4, <1>5, <1>6, <1>7
              DEF Next, CallStep, CallBegins, OtherStep

LEMMA ControlStep == CInv /\ [Next]_vars => CInv'
<1>. SUFFICES ASSUME CInv, [Next]_vars PROVE CInv'
  OBVIOUS
<1>1. CASE UNCHANGED vars
  BY <1>1
<1>2. ASSUME NEW p \in Pid, WorkerStep(p) \/ Crash(p) \/ Spawn(p) PROVE CInv'
  <2>. HIDE DEF CInv
  <2>. QED BY <1>2, StepBoot, StepBeat, StepFinish, StepFeed, StepExit,
              StepCrash, StepSpawn DEF WorkerStep
<1>3. ASSUME NEW e \in Exec,
             \/ StopWorker(e) \/ StopFails(e)
             \/ BeginDrain(e) \/ BeginStatus(e) \/ StatusNoSlot(e)
             \/ BeginReap(e) \/ BeginReapFor(e)
      PROVE  CInv'
  <2>. HIDE DEF CInv
  <2>. QED BY <1>3, StepStopWorker, StepStopFails, StepBeginDrain,
              StepBeginStatus, StepStatusNoSlot, StepBeginReap, StepBeginReapFor
<1>4. ASSUME NEW a \in Assignment, Reserve(a) PROVE CInv'
  <2>. HIDE DEF CInv
  <2>. QED BY <1>4, StepReserve
<1>. HIDE DEF CInv, vars
<1>. QED BY <1>1, <1>2, <1>3, <1>4, StepSpawnFails, StepRegisterWorker,
            StepRegisterFails, StepAbortStops, StepUnwind, StepAbortKeeps,
            StepDrainOne, StepDrainEnds, StepClassify, StepJoinReturns,
            StepJoinTimesOut, StepFinalize, StepFinalizeFails, StepBeginShutdown
         DEF Next, CallStep, CallBegins

-----------------------------------------------------------------------------
(* Heartbeat lifecycles.                                                    *)

LEMMA LifecycleStep == CInv /\ LInv /\ [Next]_vars => LInv'
<1>. SUFFICES ASSUME CInv, LInv, [Next]_vars PROVE LInv'
  OBVIOUS
<1>. USE DEF LInv
<1>1. CASE UNCHANGED <<records, slot, spawned, request>>
  BY <1>1
<1>2. ASSUME NEW e \in Exec, records[e] # None, MarkExited(e),
             UNCHANGED <<slot, spawned, request>>
      PROVE  LInv'
  BY <1>2
<1>3. ASSUME NEW a \in Assignment, Reserve(a) PROVE LInv'
  BY <1>3 DEF Reserve
<1>4. ASSUME NEW p \in Pid, Spawn(p) PROVE LInv'
  BY <1>4 DEF Spawn
<1>5. CASE SpawnFails
  BY <1>5 DEF SpawnFails
<1>6. CASE Unwind
  BY <1>6 DEF Unwind
<1>7. CASE RegisterFails
  <2>1. /\ request.exec \in Exec /\ spawned \in Pid
        /\ UNCHANGED <<slot, spawned, request>>
        /\ \/ UNCHANGED records
           \/ records' = [records EXCEPT ![request.exec] = NewRecord(spawned)]
    BY <1>7 DEF RegisterFails
  <2>2. CASE records' = [records EXCEPT ![request.exec] = NewRecord(spawned)]
    <3>1. \A e \in Exec : records'[e] = IF e = request.exec THEN NewRecord(spawned)
                                                             ELSE records[e]
      BY <2>1, <2>2
    <3>2. NewRecord(spawned).pid = spawned
      OBVIOUS
    <3>. QED BY <2>1, <3>1, <3>2
  <2>. QED BY <1>1, <2>1, <2>2
<1>8. CASE RegisterWorker \/ AbortKeeps
  <2>1. /\ request \in Assignment /\ request.exec \in Exec /\ spawned \in Pid
        /\ slot' = [slot EXCEPT ![request.exec] = spawned]
        /\ \/ records' = [records EXCEPT ![request.exec] = NewRecord(spawned)]
           \/ records' = records
        /\ slot[request.exec] = None
    BY <1>8 DEF RegisterWorker, AbortKeeps
  <2>2. SUFFICES ASSUME NEW e \in Exec, records'[e] # None, ~records'[e].exited
                 PROVE  records'[e].pid = slot'[e]
    OBVIOUS
  <2>3. CASE e = request.exec
    <3>1. CASE records' = records
      BY <2>1, <2>2, <2>3, <3>1
    <3>2. CASE records' = [records EXCEPT ![request.exec] = NewRecord(spawned)]
      BY <2>1, <2>3, <3>2
    <3>. QED BY <2>1, <3>1, <3>2
  <2>4. CASE e # request.exec
    BY <2>1, <2>2, <2>4
  <2>. QED BY <2>3, <2>4
<1>9. CASE DrainOne
  <2>1. /\ target \in Exec /\ UNCHANGED <<slot, spawned, request>>
        /\ \/ UNCHANGED records
           \/ records[target] # None /\ MarkExited(target)
           \/ Accept(target, slot[target], Head(pipe[slot[target]]))
    BY <1>9 DEF DrainOne
  <2>2. CASE Accept(target, slot[target], Head(pipe[slot[target]]))
    BY <2>1, <2>2
  <2>. QED BY <1>1, <1>2, <2>1, <2>2
<1>10. CASE Classify
  BY <1>1, <1>2, <1>10 DEF Classify
<1>11. CASE Finalize
  <2>1. /\ target \in Exec /\ records[target] # None
        /\ records' = [records EXCEPT ![target].exited = TRUE]
        /\ slot' = [slot EXCEPT ![target] = None]
        /\ UNCHANGED <<spawned, request>>
    BY <1>11 DEF Finalize
  <2>. QED BY <2>1
<1>12. ASSUME NEW p \in Pid, WorkerStep(p) \/ Crash(p) PROVE LInv'
  BY <1>1, <1>12 DEF WorkerStep, Boot, Beat, Finish, Feed, Exit, Crash
<1>13. ASSUME NEW e \in Exec, StopWorker(e) \/ StopFails(e) \/ BeginDrain(e)
                \/ BeginStatus(e) \/ BeginReap(e) \/ BeginReapFor(e)
       PROVE  LInv'
  BY <1>1, <1>13 DEF StopWorker, StopFails, BeginDrain, BeginStatus, BeginReap,
                     BeginReapFor
<1>14. ASSUME NEW e \in Exec, StatusNoSlot(e) PROVE LInv'
  BY <1>2, <1>14 DEF StatusNoSlot
<1>15. CASE \/ AbortStops \/ DrainEnds \/ JoinReturns \/ JoinTimesOut
            \/ BeginShutdown \/ FinalizeFails \/ UNCHANGED vars
  BY <1>1, <1>15 DEF AbortStops, DrainEnds, JoinReturns, JoinTimesOut,
                     BeginShutdown, FinalizeFails
<1>. HIDE DEF LInv, CInv, vars
<1>. QED BY <1>3, <1>4, <1>5, <1>6, <1>7, <1>8, <1>9, <1>10, <1>11, <1>12,
            <1>13, <1>14, <1>15 DEF Next, CallStep, CallBegins

-----------------------------------------------------------------------------
(* Refinement of WorkerLease.                                               *)

USE DEF Running

\* No two existing processes have the same assignment.
LEMMA JobUnique ==
  ASSUME CInv, OInv, NEW p \in Pid, NEW q \in Pid,
         pstate[p] # "none", pstate[q] # "none", job[p] = job[q]
  PROVE  p = q
<1>1. ASSUME NEW x \in Pid, pstate[x] # "none", x # spawned
      PROVE  slot[job[x].exec] = x
  BY <1>1 DEF OInv
<1>2. spawned # None => slot[job[spawned].exec] = None
  OBVIOUS
<1>3. CASE p # spawned /\ q # spawned
  <2>1. slot[job[p].exec] = p /\ slot[job[q].exec] = q
    BY <1>1, <1>3
  <2>. HIDE DEF CInv, OInv
  <2>. QED BY <2>1
<1>4. CASE p = spawned /\ q # spawned
  BY <1>1, <1>2, <1>4
<1>5. CASE p # spawned /\ q = spawned
  BY <1>1, <1>2, <1>5
<1>. QED BY <1>3, <1>4, <1>5

\* Process p, and no other, ends in this step.
Ends(p) == \A q \in Pid : pstate'[q] \in Alive <=> pstate[q] \in Alive /\ q # p

\* The end of a process takes its assignment, and no other, off the live ones.
LEMMA EndStops ==
  ASSUME CInv, OInv, NEW p \in Pid, pstate[p] \in Alive, Ends(p), UNCHANGED job
  PROVE  Running' = Running \ {job[p]}
<1>1. \A q \in Pid : pstate[q] \in Alive /\ q # p => job[q] # job[p]
  BY JobUnique
<1>. HIDE DEF Alive, CInv, OInv
<1>. QED BY <1>1 DEF Ends

\* Steps that neither start nor end a process keep the live ones.
LEMMA SameRunning ==
  ASSUME \A q \in Pid : /\ pstate'[q] \in Alive <=> pstate[q] \in Alive
                        /\ pstate[q] \in Alive => job'[q] = job[q]
  PROVE  Running' = Running
<1>. HIDE DEF Alive
<1>. QED OBVIOUS

\* Steps of WorkerLease: each is recognised by its effect on Owners and Running.
LEMMA LeaseStep == CInv /\ OInv /\ [Next]_vars => [Lease!Next]_(Lease!vars)
<1>. SUFFICES ASSUME CInv, OInv, [Next]_vars
              PROVE  Lease!Next \/ (Owners' = Owners /\ Running' = Running)
  BY DEF Lease!vars
<1>1. ASSUME NEW a \in Assignment, Reserve(a) PROVE Lease!Acquire(a)
  <2>1. Running' = Running
    BY <1>1 DEF Reserve
  <2>2. Owners' = Owners \cup {a} /\ \A b \in Owners : ~Lease!Conflict(a, b)
    BY <1>1, ReserveOwner
  <2>. HIDE DEF Owners, Running, CInv, OInv
  <2>. QED BY <2>1, <2>2 DEF Lease!Acquire
<1>2. ASSUME NEW a \in Owners, Owners' = Owners \ {a}, Running' = Running,
             a \notin Running
      PROVE  Lease!Next
  <2>1. a \in Assignment
    BY <1>2
  <2>. HIDE DEF Owners, Running, CInv, OInv
  <2>. QED BY <1>2, <2>1 DEF Lease!Next, Lease!Release
<1>3. ASSUME NEW p \in Pid, pstate[p] \in Alive, Ends(p),
             UNCHANGED <<job, slot, request>>
      PROVE  Lease!Next
  <2>1. Running' = Running \ {job[p]}
    BY <1>3, EndStops
  <2>2. Owners' = Owners
    BY <1>3
  <2>3. job[p] \in Assignment
    <3>1. CASE p = spawned
      BY <1>3, <3>1
    <3>2. CASE p # spawned
      BY <1>3, <3>2 DEF OInv
    <3>. QED BY <3>1, <3>2
  <2>. HIDE DEF Owners, Running, CInv, OInv
  <2>. QED BY <2>1, <2>2, <2>3 DEF Lease!Next, Lease!Stop
<1>4. ASSUME UNCHANGED <<slot, request, job>>,
             \A q \in Pid : pstate'[q] \in Alive <=> pstate[q] \in Alive
      PROVE  Owners' = Owners /\ Running' = Running
  <2>1. Running' = Running
    BY <1>4, SameRunning
  <2>. QED BY <1>4, <2>1
<1>5. CASE SpawnFails
  <2>1. Running' = Running
    BY <1>5, SameRunning DEF SpawnFails
  <2>2. request \notin Running
    <3>1. SUFFICES ASSUME NEW q \in Pid, pstate[q] \in Alive, job[q] = request
                   PROVE  FALSE
      OBVIOUS
    <3>2. spawned = None /\ request # None /\ slot[request.exec] = None
      BY <1>5 DEF SpawnFails
    <3>3. slot[request.exec] = q
      BY <3>1, <3>2 DEF OInv
    <3>. QED BY <3>2, <3>3
  <2>. HIDE DEF Owners, Running, CInv, OInv
  <2>. QED BY <1>2, <1>5, <2>1, <2>2, SpawnFailsOwner
<1>6. CASE Unwind
  <2>1. /\ spawned \in Pid /\ pstate[spawned] \in Dead /\ job[spawned] = request
        /\ pstate' = [pstate EXCEPT ![spawned] = "none"]
        /\ job' = [job EXCEPT ![spawned] = None]
    BY <1>6 DEF Unwind
  <2>2. Running' = Running
    <3>1. \A q \in Pid : /\ pstate'[q] \in Alive <=> pstate[q] \in Alive
                         /\ pstate[q] \in Alive => job'[q] = job[q]
      BY <2>1
    <3>. QED BY <3>1, SameRunning
  <2>3. request \notin Running
    <3>1. SUFFICES ASSUME NEW q \in Pid, pstate[q] \in Alive,
                          job[q] = job[spawned]
                   PROVE  FALSE
      BY <2>1
    <3>2. q = spawned
      BY <2>1, <3>1, JobUnique
    <3>. QED BY <2>1, <3>1, <3>2
  <2>. HIDE DEF Owners, Running, CInv, OInv
  <2>. QED BY <1>2, <1>6, <2>2, <2>3, UnwindOwner
<1>7. CASE Finalize
  <2>1. /\ slot[target] \in Pid /\ pstate[slot[target]] \in Dead
        /\ pstate' = [pstate EXCEPT ![slot[target]] = "none"]
        /\ job' = [job EXCEPT ![slot[target]] = None]
    BY <1>7 DEF Finalize
  <2>2. Running' = Running
    <3>1. \A q \in Pid : /\ pstate'[q] \in Alive <=> pstate[q] \in Alive
                         /\ pstate[q] \in Alive => job'[q] = job[q]
      BY <2>1
    <3>. QED BY <3>1, SameRunning
  <2>3. job[slot[target]] \notin Running
    <3>1. SUFFICES ASSUME NEW q \in Pid, pstate[q] \in Alive,
                          job[q] = job[slot[target]]
                   PROVE  FALSE
      BY <2>1
    <3>2. q = slot[target]
      BY <2>1, <3>1, JobUnique
    <3>. QED BY <2>1, <3>1, <3>2
  <2>. HIDE DEF Owners, Running, CInv, OInv
  <2>. QED BY <1>2, <1>7, <2>2, <2>3, FinalizeOwner
<1>8. ASSUME NEW p \in Pid, Spawn(p) PROVE Lease!Run(request) /\ request \in Assignment
  <2>1. request \in Assignment /\ request \in Owners
    BY <1>8 DEF Spawn
  <2>2. Running' = Running \cup {request}
    <3>1. /\ pstate[p] = "none" /\ pstate' = [pstate EXCEPT ![p] = "boot"]
          /\ job' = [job EXCEPT ![p] = request]
      BY <1>8 DEF Spawn
    <3>2. \A q \in Pid : pstate'[q] \in Alive <=> pstate[q] \in Alive \/ q = p
      BY <3>1
    <3>3. job'[p] = request /\ \A q \in Pid : q # p => job'[q] = job[q]
      BY <3>1
    <3>4. ASSUME NEW x \in Running' PROVE x \in Running \cup {request}
      <4>1. PICK q \in Pid : pstate'[q] \in Alive /\ x = job'[q]
        BY <3>4
      <4>2. CASE q = p
        BY <3>3, <4>1, <4>2
      <4>3. CASE q # p
        BY <3>2, <3>3, <4>1, <4>3
      <4>. QED BY <4>2, <4>3
    <3>5. ASSUME NEW x \in Running PROVE x \in Running'
      <4>1. PICK q \in Pid : pstate[q] \in Alive /\ x = job[q]
        BY <3>5
      <4>. QED BY <3>1, <3>2, <3>3, <4>1
    <3>6. request \in Running'
      BY <3>2, <3>3
    <3>. HIDE DEF Running, CInv, OInv
    <3>. QED BY <3>4, <3>5, <3>6
  <2>. HIDE DEF Owners, Running, CInv, OInv
  <2>. QED BY <1>8, <2>1, <2>2, SpawnOwners DEF Lease!Run
<1>9. CASE RegisterWorker \/ AbortKeeps
  <2>1. UNCHANGED <<pstate, job>>
    BY <1>9 DEF RegisterWorker, AbortKeeps
  <2>. HIDE DEF Owners, CInv, OInv
  <2>. QED BY <1>9, <2>1, SameRunning, RegisterOwners
<1>10. ASSUME NEW p \in Pid, WorkerStep(p) \/ Crash(p)
       PROVE  Lease!Next \/ (Owners' = Owners /\ Running' = Running)
  <2>1. CASE Boot(p) \/ Beat(p) \/ Finish(p) \/ Feed(p)
    <3>1. /\ UNCHANGED <<slot, request, job>>
          /\ \A q \in Pid : pstate'[q] \in Alive <=> pstate[q] \in Alive
      BY <2>1, SMTT(30) DEF Boot, Beat, Finish, Feed
    <3>. HIDE DEF Owners, Running, CInv, OInv
    <3>. QED BY <1>4, <3>1
  <2>2. CASE Exit(p) \/ Crash(p)
    <3>1. Ends(p)
      BY <2>2 DEF Exit, Crash, Ends
    <3>2. pstate[p] \in Alive /\ UNCHANGED <<job, slot, request>>
      BY <2>2 DEF Exit, Crash
    <3>. HIDE DEF Owners, Running, CInv, OInv
    <3>. QED BY <1>3, <3>1, <3>2
  <2>. QED BY <1>10, <2>1, <2>2 DEF WorkerStep
<1>11. ASSUME NEW p \in Pid, (pstate[p] \in Alive /\ Kill(p)) \/ UNCHANGED pstate,
              UNCHANGED <<job, slot, request>>
       PROVE  Lease!Next \/ (Owners' = Owners /\ Running' = Running)
  <2>1. CASE pstate[p] \in Alive /\ Kill(p)
    <3>1. Ends(p)
      BY <2>1 DEF Ends
    <3>. HIDE DEF Owners, Running, CInv, OInv
    <3>. QED BY <1>3, <1>11, <2>1, <3>1
  <2>2. CASE UNCHANGED pstate
    <3>. HIDE DEF Owners, Running, CInv, OInv
    <3>. QED BY <1>4, <1>11, <2>2
  <2>. QED BY <1>11, <2>1, <2>2
<1>12. ASSUME NEW e \in Exec, StopWorker(e)
       PROVE  Lease!Next \/ (Owners' = Owners /\ Running' = Running)
  <2>1. /\ slot[e] \in Pid /\ UNCHANGED <<job, slot, request>>
        /\ (pstate[slot[e]] \in Alive /\ Kill(slot[e])) \/ UNCHANGED pstate
    BY <1>12 DEF StopWorker
  <2>. HIDE DEF Owners, Running, CInv, OInv
  <2>. QED BY <1>11, <2>1
<1>13. CASE AbortStops
  <2>1. /\ spawned \in Pid /\ UNCHANGED <<job, slot, request>>
        /\ (pstate[spawned] \in Alive /\ Kill(spawned)) \/ UNCHANGED pstate
    BY <1>13 DEF AbortStops
  <2>. HIDE DEF Owners, Running, CInv, OInv
  <2>. QED BY <1>11, <2>1
<1>14. ASSUME \/ RegisterFails \/ DrainOne \/ DrainEnds \/ Classify
              \/ JoinReturns \/ JoinTimesOut \/ BeginShutdown \/ FinalizeFails
              \/ UNCHANGED vars
              \/ \E e \in Exec : \/ StopFails(e) \/ BeginDrain(e) \/ BeginStatus(e)
                                 \/ StatusNoSlot(e) \/ BeginReap(e) \/ BeginReapFor(e)
       PROVE  UNCHANGED <<slot, request, job, pstate>>
  BY <1>14 DEF RegisterFails, DrainOne, DrainEnds, Classify, JoinReturns,
               JoinTimesOut, BeginShutdown, FinalizeFails, StopFails, BeginDrain,
               BeginStatus, StatusNoSlot, BeginReap, BeginReapFor
<1>. HIDE DEF Owners, Running, CInv, OInv, vars
<1>15. (\E a \in Assignment : Reserve(a)) => Lease!Next
  BY <1>1 DEF Lease!Next
<1>16. (\E p \in Pid : Spawn(p)) => Lease!Next
  BY <1>8 DEF Lease!Next
<1>17. ASSUME UNCHANGED <<slot, request, job, pstate>>
       PROVE  Owners' = Owners /\ Running' = Running
  BY <1>4, <1>17
<1>18. CASE CallStep
  <2>1. CASE \E e \in Exec : StopWorker(e) \/ StopFails(e)
    BY <1>12, <1>14, <1>17, <2>1
  <2>. QED BY <1>5, <1>6, <1>7, <1>9, <1>13, <1>14, <1>16, <1>17, <1>18, <2>1
           DEF CallStep
<1>19. CASE CallBegins
  BY <1>14, <1>15, <1>17, <1>19 DEF CallBegins
<1>. QED BY <1>10, <1>14, <1>17, <1>18, <1>19 DEF Next

-----------------------------------------------------------------------------
(* The theorems.                                                            *)

LEMMA Initially == Init => CInv /\ OInv /\ LInv /\ Lease!Init
<1>. SUFFICES ASSUME Init PROVE CInv /\ OInv /\ LInv /\ Lease!Init
  OBVIOUS
<1>1. CInv
  BY DEF Init
<1>2. Owners = {} /\ Running = {}
  BY DEF Init
<1>3. OInv /\ LInv
  BY <1>2 DEF Init, OInv, LInv
<1>. QED BY <1>1, <1>2, <1>3 DEF Lease!Init

LEMMA Inductive == Spec => []IInv
<1>1. Init => IInv
  BY Initially DEF IInv
<1>2. IInv /\ [Next]_vars => IInv'
  <2>. HIDE DEF CInv, OInv, LInv, vars
  <2>. QED BY ControlStep, OwnershipStep, LifecycleStep DEF IInv
<1>. HIDE DEF IInv, vars
<1>. QED BY <1>1, <1>2, PTL DEF Spec

\* The state of the pool, its Workers and its monitor is always well-typed.
THEOREM TypeCorrect == Spec => []TypeOK
<1>1. IInv => TypeOK
  BY DEF IInv
<1>. HIDE DEF IInv, TypeOK, ProcessesAreOwned, LeasesAreOwned
<1>. QED BY <1>1, Inductive, PTL

\* Whatever fails and whenever Workers die, every process is owned by its slot
\* or by the start() in progress: the Parent never loses one.
THEOREM NoOrphan == Spec => []ProcessesAreOwned
<1>1. IInv => ProcessesAreOwned
  BY DEF IInv, OInv
<1>. HIDE DEF IInv, TypeOK, ProcessesAreOwned, LeasesAreOwned
<1>. QED BY <1>1, Inductive, PTL

\* The task and CDP leases are at every moment exactly those of the owned
\* Workers: none leaks and none is released early.
THEOREM LeaseAccounting == Spec => []LeasesAreOwned
<1>1. IInv => LeasesAreOwned
  BY DEF IInv, OInv
<1>. HIDE DEF IInv, TypeOK, ProcessesAreOwned, LeasesAreOwned
<1>. QED BY <1>1, Inductive, PTL

\* An open heartbeat lifecycle always belongs to an owned Worker.
THEOREM LifecycleOwnership == Spec => []OpenLifecycleIsOwned
<1>1. IInv => OpenLifecycleIsOwned
  BY DEF IInv, LInv, OpenLifecycleIsOwned
<1>. HIDE DEF IInv, TypeOK, ProcessesAreOwned, LeasesAreOwned
<1>. QED BY <1>1, Inductive, PTL

\* The pool implements the lease table: exclusive execution, task and CDP URL
\* for every live Worker, given back only after the process is gone.
THEOREM PoolImplementsLease == Spec => LeaseSpec
<1>1. IInv /\ [Next]_vars => [Lease!Next]_(Lease!vars)
  BY LeaseStep DEF IInv
<1>2. Init => Lease!Init
  BY Initially
<1>. HIDE DEF IInv, vars
<1>. QED BY <1>1, <1>2, Inductive, PTL DEF Spec, LeaseSpec, Lease!Spec
=============================================================================
