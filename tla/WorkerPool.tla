----------------------------- MODULE WorkerPool -----------------------------
(***************************************************************************)
(* supervisor/worker_process.py and supervisor/heartbeat.py: the Parent's  *)
(* SpawnWorkerPool with its HeartbeatMonitor, the spawned processes, and   *)
(* the multiprocessing.Queue that carries heartbeats from each of them.    *)
(*                                                                         *)
(* Every public method of the pool runs under one lock, so one operation   *)
(* is in progress at a time: `pc' is where it stands.  The Workers are     *)
(* processes of their own and step between any two steps of an operation.  *)
(* Ages and thresholds of the monitor are the subject of HeartbeatTiming.  *)
(***************************************************************************)
EXTENDS Naturals, Sequences

CONSTANTS
    Exec, Task, Url,  \* what an assignment names
    Assignment,       \* the assignments the Parent may start
    Pid,              \* process identities (the Process objects, not OS pids)
    None,
    MaxBeats,         \* bound: heartbeats one process sends
    PipeCap,          \* heartbeats the OS pipe of a queue holds
    ClockMayFail,     \* ClockPort.monotonic() may return no finite float
    Unkillable        \* a process may outlive terminate, kill and both joins

ASSUME PoolAssumption ==
    /\ MaxBeats \in Nat \ {0}
    /\ PipeCap \in Nat \ {0}
    /\ ClockMayFail \in BOOLEAN
    /\ Unkillable \in BOOLEAN
    /\ Assignment \subseteq [exec : Exec, task : Task, url : Url]
    /\ None \notin Exec \cup Pid \cup Assignment
    /\ None \notin [pid : Pid, latest : 0 .. MaxBeats, exited : BOOLEAN]

\* A payload of the queue: the n-th heartbeat of its sender, or the None
\* that _worker_bootstrap sends last.
Sentinel == 0
Payload == 0 .. MaxBeats

\* _HeartbeatRecord; latest = 0 stands for "no heartbeat received".
Record == [pid : Pid, latest : 0 .. MaxBeats, exited : BOOLEAN]

VARIABLES
    pstate,      \* pstate[p]: life of process p
    job,         \* job[p]: the assignment p was spawned for
    sent,        \* sent[p]: heartbeats put by p so far
    feed,        \* feed[p]: p's queue buffer, emptied by its feeder thread
    pipe,        \* pipe[p]: the pipe from p to the Parent
    hbError,     \* hbError[p]: the slot's sticky heartbeat_error
    slot,        \* _slots, by execution: the owned process
    taskLeases,  \* _task_leases
    cdpLeases,   \* _cdp_leases
    records,     \* HeartbeatMonitor._records
    pc,          \* where the operation that holds the lock stands
    request,     \* the assignment start() is working on
    spawned,     \* the process start() has spawned
    target,      \* the execution the operation is working on
    todo         \* executions shutdown() has still to stop

workerVars == <<pstate, job, sent, feed, pipe>>
leaseVars  == <<slot, taskLeases, cdpLeases>>
callVars   == <<pc, request, spawned, target, todo>>
vars == <<pstate, job, sent, feed, pipe, hbError, slot, taskLeases, cdpLeases,
          records, pc, request, spawned, target, todo>>

\* "exited" ended through _worker_bootstrap's finally, "killed" by a signal.
Alive == {"boot", "run", "closing"}
Dead  == {"exited", "killed"}
Draining == {"drain", "statusDrain", "finalDrain"}

TypeOK ==
    /\ pstate \in [Pid -> {"none"} \cup Alive \cup Dead]
    /\ job \in [Pid -> Assignment \cup {None}]
    /\ sent \in [Pid -> 0 .. MaxBeats]
    /\ feed \in [Pid -> Seq(Payload)]
    /\ pipe \in [Pid -> Seq(Payload)]
    /\ hbError \in [Pid -> BOOLEAN]
    /\ slot \in [Exec -> Pid \cup {None}]
    /\ taskLeases \subseteq Task
    /\ cdpLeases \subseteq Url
    /\ records \in [Exec -> Record \cup {None}]
    /\ pc \in Draining \cup {"idle", "spawn", "register", "abort", "unwind",
                             "classify", "join", "joinFor", "stop", "finalize"}
    /\ request \in Assignment \cup {None}
    /\ spawned \in Pid \cup {None}
    /\ target \in Exec \cup {None}
    /\ todo \subseteq Exec

Init ==
    /\ pstate = [p \in Pid |-> "none"]
    /\ job = [p \in Pid |-> None]
    /\ sent = [p \in Pid |-> 0]
    /\ feed = [p \in Pid |-> <<>>]
    /\ pipe = [p \in Pid |-> <<>>]
    /\ hbError = [p \in Pid |-> FALSE]
    /\ slot = [e \in Exec |-> None]
    /\ taskLeases = {}
    /\ cdpLeases = {}
    /\ records = [e \in Exec |-> None]
    /\ pc = "idle"
    /\ request = None
    /\ spawned = None
    /\ target = None
    /\ todo = {}

-----------------------------------------------------------------------------
(* HeartbeatMonitor *)

NewRecord(p) == [pid |-> p, latest |-> 0, exited |-> FALSE]

\* register() refuses a lifecycle that is still active.
MayRegister(e) == records[e] # None => records[e].exited

\* MUTANT: the pid is read from the slot, which start() fills only later.
RegisterFromSlot(e, p) == records' = [records EXCEPT ![e] = NewRecord(slot[e])]

\* MUTANT: a lifecycle already known for the execution is taken over.
RegisterTakesOver(e, p) ==
    records' = [records EXCEPT ![e] =
                  IF @ = None THEN NewRecord(p) ELSE [@ EXCEPT !.pid = p]]

Register(e, p) == records' = [records EXCEPT ![e] = NewRecord(p)]

\* MUTANT: a failed start leaves its lifecycle behind.
UnregisterNothing(e) == UNCHANGED records

Unregister(e) == records' = [records EXCEPT ![e] = None]

MarkExited(e) == records' = [records EXCEPT ![e].exited = TRUE]

-----------------------------------------------------------------------------
(* The Worker process: _worker_bootstrap and the feeder of its queue. *)

\* put_nowait.  The queue has no bound and its feeder runs, so that neither the
\* Full nor the OSError that the Worker swallows is met.
Put(p, x) == feed' = [feed EXCEPT ![p] = Append(@, x)]

PutBeat(p) ==
    /\ sent' = [sent EXCEPT ![p] = @ + 1]
    /\ Put(p, sent[p] + 1)

\* The first heartbeat precedes the emitter thread and the entrypoint.
Boot(p) ==
    /\ pstate[p] = "boot"
    /\ pstate' = [pstate EXCEPT ![p] = "run"]
    /\ PutBeat(p)
    /\ UNCHANGED <<job, pipe, hbError, leaseVars, records, callVars>>

\* MUTANT: the emitter thread is stopped but not joined.
BeatUnjoined(p) ==
    /\ pstate[p] \in {"run", "closing"}
    /\ sent[p] < MaxBeats
    /\ PutBeat(p)
    /\ UNCHANGED <<pstate, job, pipe, hbError, leaseVars, records, callVars>>

Beat(p) ==
    /\ pstate[p] = "run"
    /\ sent[p] < MaxBeats
    /\ PutBeat(p)
    /\ UNCHANGED <<pstate, job, pipe, hbError, leaseVars, records, callVars>>

\* The entrypoint returned or raised: stop and join the emitter, put None.
Finish(p) ==
    /\ pstate[p] = "run"
    /\ pstate' = [pstate EXCEPT ![p] = "closing"]
    /\ Put(p, Sentinel)
    /\ UNCHANGED <<job, sent, pipe, hbError, leaseVars, records, callVars>>

\* The feeder thread writes one payload and blocks while the pipe is full.
Feed(p) ==
    /\ pstate[p] \in Alive
    /\ feed[p] # <<>>
    /\ Len(pipe[p]) < PipeCap
    /\ pipe' = [pipe EXCEPT ![p] = Append(@, Head(feed[p]))]
    /\ feed' = [feed EXCEPT ![p] = Tail(@)]
    /\ UNCHANGED <<pstate, job, sent, hbError, leaseVars, records, callVars>>

\* join_thread() holds the process until its feeder has written everything.
Exit(p) ==
    /\ pstate[p] = "closing"
    /\ feed[p] = <<>>
    /\ pstate' = [pstate EXCEPT ![p] = "exited"]
    /\ UNCHANGED <<job, sent, feed, pipe, hbError, leaseVars, records, callVars>>

\* A signal ends the process; what its feeder had not written is lost.
Kill(p) ==
    /\ pstate' = [pstate EXCEPT ![p] = "killed"]
    /\ feed' = [feed EXCEPT ![p] = <<>>]

Crash(p) ==
    /\ pstate[p] \in Alive
    /\ Kill(p)
    /\ UNCHANGED <<job, sent, pipe, hbError, leaseVars, records, callVars>>

-----------------------------------------------------------------------------
(* SpawnWorkerPool.start *)

ReleaseAssignment(a) ==
    /\ taskLeases' = taskLeases \ {a.task}
    /\ cdpLeases' = cdpLeases \ {a.url}

\* The process object and its queue are closed: p stands for no process.
Forget(p) ==
    /\ pstate' = [pstate EXCEPT ![p] = "none"]
    /\ job' = [job EXCEPT ![p] = None]
    /\ sent' = [sent EXCEPT ![p] = 0]
    /\ feed' = [feed EXCEPT ![p] = <<>>]
    /\ pipe' = [pipe EXCEPT ![p] = <<>>]
    /\ hbError' = [hbError EXCEPT ![p] = FALSE]

StartReturns == pc' = "idle" /\ request' = None /\ spawned' = None

\* _reserve: a conflict raises before anything changes.
Reserve(a) ==
    /\ pc = "idle"
    /\ slot[a.exec] = None
    /\ a.task \notin taskLeases
    /\ a.url \notin cdpLeases
    /\ taskLeases' = taskLeases \cup {a.task}
    /\ cdpLeases' = cdpLeases \cup {a.url}
    /\ pc' = "spawn"
    /\ request' = a
    /\ UNCHANGED <<workerVars, hbError, slot, records, spawned, target, todo>>

Spawn(p) ==
    /\ pc = "spawn"
    /\ pstate[p] = "none"
    /\ pstate' = [pstate EXCEPT ![p] = "boot"]
    /\ job' = [job EXCEPT ![p] = request]
    /\ pc' = "register"
    /\ spawned' = p
    /\ UNCHANGED <<sent, feed, pipe, hbError, leaseVars, records, request,
                   target, todo>>

\* MUTANT: the failure path without a pid forgets the leases.
SpawnFailsLeaky ==
    /\ pc = "spawn"
    /\ Unregister(request.exec)
    /\ StartReturns
    /\ UNCHANGED <<workerVars, hbError, leaseVars, target, todo>>

\* Queue() or Process.start() raised and there is no pid.
SpawnFails ==
    /\ pc = "spawn"
    /\ Unregister(request.exec)
    /\ ReleaseAssignment(request)
    /\ StartReturns
    /\ UNCHANGED <<workerVars, hbError, slot, target, todo>>

RegisterWorker ==
    /\ pc = "register"
    /\ MayRegister(request.exec)
    /\ Register(request.exec, spawned)
    /\ slot' = [slot EXCEPT ![request.exec] = spawned]
    /\ StartReturns
    /\ UNCHANGED <<workerVars, hbError, taskLeases, cdpLeases, target, todo>>

\* An exception after the spawn: register() raised on the clock or on an
\* active lifecycle, or a later line raised once the record was in place.
RegisterFails ==
    /\ pc = "register"
    /\ \/ (ClockMayFail \/ ~MayRegister(request.exec)) /\ UNCHANGED records
       \/ MayRegister(request.exec) /\ Register(request.exec, spawned)
    /\ pc' = "abort"
    /\ UNCHANGED <<workerVars, hbError, leaseVars, request, spawned, target,
                   todo>>

\* _terminate_and_join stopped the process (or found it dead).
AbortStops ==
    /\ pc = "abort"
    /\ \/ pstate[spawned] \in Alive /\ Kill(spawned)
       \/ pstate[spawned] \in Dead /\ UNCHANGED <<pstate, feed>>
    /\ pc' = "unwind"
    /\ UNCHANGED <<job, sent, pipe, hbError, leaseVars, records, request,
                   spawned, target, todo>>

Unwind ==
    /\ pc = "unwind"
    /\ Unregister(request.exec)
    /\ ReleaseAssignment(request)
    /\ Forget(spawned)
    /\ StartReturns
    /\ UNCHANGED <<slot, target, todo>>

\* MUTANT: the survivor's leases are kept, its slot is not.
AbortDrops ==
    /\ pc = "abort"
    /\ Unkillable
    /\ pstate[spawned] \in Alive
    /\ StartReturns
    /\ UNCHANGED <<workerVars, hbError, leaseVars, records, target, todo>>

\* MUTANT: the lifecycle is removed before the outcome of the kill is known.
AbortUnregisters ==
    /\ pc = "abort"
    /\ Unkillable
    /\ pstate[spawned] \in Alive
    /\ Unregister(request.exec)
    /\ slot' = [slot EXCEPT ![request.exec] = spawned]
    /\ StartReturns
    /\ UNCHANGED <<workerVars, hbError, taskLeases, cdpLeases, target, todo>>

\* The process could not be stopped: the pool keeps the slot and the leases,
\* and _ensure_heartbeat_registered swallows whatever register() raises.
AbortKeeps ==
    /\ pc = "abort"
    /\ Unkillable
    /\ pstate[spawned] \in Alive
    /\ \/ MayRegister(request.exec) /\ Register(request.exec, spawned)
       \/ (ClockMayFail \/ ~MayRegister(request.exec)) /\ UNCHANGED records
    /\ slot' = [slot EXCEPT ![request.exec] = spawned]
    /\ StartReturns
    /\ UNCHANGED <<workerVars, hbError, taskLeases, cdpLeases, target, todo>>

-----------------------------------------------------------------------------
(* drain_heartbeats, latest_heartbeat, heartbeat_status *)

Begin(e, where) ==
    /\ pc = "idle"
    /\ slot[e] # None
    /\ pc' = where
    /\ target' = e
    /\ UNCHANGED <<workerVars, hbError, leaseVars, records, request, spawned,
                   todo>>

BeginDrain(e)  == Begin(e, "drain")
BeginStatus(e) == Begin(e, "statusDrain")

\* Without a slot the process counts as exited.
StatusNoSlot(e) ==
    /\ pc = "idle"
    /\ slot[e] = None
    /\ records[e] # None
    /\ MarkExited(e)
    /\ UNCHANGED <<workerVars, hbError, leaseVars, callVars>>

\* The operation ends, by returning or by raising.
CallEnds == pc' = "idle" /\ target' = None /\ todo' = {}

\* record_payload for heartbeat x of process p, under execution e.
Reject(p) ==
    /\ hbError' = [hbError EXCEPT ![p] = TRUE]
    /\ UNCHANGED <<records, pc, target, todo>>

Accept(e, p, x) ==
    /\ records[e] # None
    /\ records[e].pid = p
    /\ ~records[e].exited
    /\ records' = [records EXCEPT ![e].latest = x]
    /\ UNCHANGED <<hbError, pc, target, todo>>

\* HeartbeatNotFoundError is no HeartbeatProtocolError: it leaves the loop.
NoLifecycle(e) == records[e] = None /\ CallEnds /\ UNCHANGED <<records, hbError>>

RecordPayload(e, p, x) ==
    \/ ClockMayFail /\ Reject(p)
    \/ Accept(e, p, x)
    \/ NoLifecycle(e)
    \/ /\ records[e] # None
       /\ records[e].pid # p \/ records[e].exited
       /\ Reject(p)

RecordSentinel(e) ==
    \/ NoLifecycle(e)
    \/ /\ records[e] # None
       /\ MarkExited(e)
       /\ UNCHANGED <<hbError, pc, target, todo>>

\* One turn of the loop of _drain_heartbeats.
DrainOne ==
    LET e == target
        p == slot[target]
    IN  /\ pc \in Draining
        /\ pipe[p] # <<>>
        /\ pipe' = [pipe EXCEPT ![p] = Tail(@)]
        /\ IF Head(pipe[p]) = Sentinel
             THEN RecordSentinel(e)
             ELSE RecordPayload(e, p, Head(pipe[p]))
        /\ UNCHANGED <<pstate, job, sent, feed, leaseVars, request, spawned>>

\* get_nowait raised Empty; only reap and shutdown ignore a sticky error.
DrainEnds ==
    /\ pc \in Draining
    /\ pipe[slot[target]] = <<>>
    /\ \/ pc = "finalDrain" /\ pc' = "finalize" /\ UNCHANGED <<target, todo>>
       \/ /\ pc = "statusDrain"
          /\ ~hbError[slot[target]]
          /\ pc' = "classify"
          /\ UNCHANGED <<target, todo>>
       \/ /\ pc = "drain" \/ (pc = "statusDrain" /\ hbError[slot[target]])
          /\ CallEnds
    /\ UNCHANGED <<workerVars, hbError, leaseVars, records, request, spawned>>

\* is_alive() and HeartbeatMonitor.status, which reads the clock first.
Classify ==
    /\ pc = "classify"
    /\ \/ /\ records[target] # None
          /\ pstate[slot[target]] \in Dead
          /\ MarkExited(target)
       \/ /\ \/ ClockMayFail \/ records[target] = None
             \/ pstate[slot[target]] \in Alive
          /\ UNCHANGED records
    /\ CallEnds
    /\ UNCHANGED <<workerVars, hbError, leaseVars, request, spawned>>

-----------------------------------------------------------------------------
(* reap and shutdown *)

BeginReap(e)    == Begin(e, "join")       \* timeout_s=None, the default
BeginReapFor(e) == Begin(e, "joinFor")

\* MUTANT: reap does not look whether the process is still alive.
JoinUnchecked ==
    /\ pc \in {"join", "joinFor"}
    /\ pc' = "finalDrain"
    /\ UNCHANGED <<workerVars, hbError, leaseVars, records, request, spawned,
                   target, todo>>

\* MUTANT: what is still in the pipe is not read before the slot goes.
JoinUndrained ==
    /\ pc \in {"join", "joinFor"}
    /\ pstate[slot[target]] \in Dead
    /\ pc' = "finalize"
    /\ UNCHANGED <<workerVars, hbError, leaseVars, records, request, spawned,
                   target, todo>>

\* MUTANT: reap waits for the Worker's None instead of its process.
JoinOnSentinel ==
    /\ pc \in {"join", "joinFor"}
    /\ pstate[slot[target]] = "exited"
    /\ pc' = "finalDrain"
    /\ UNCHANGED <<workerVars, hbError, leaseVars, records, request, spawned,
                   target, todo>>

JoinReturns ==
    /\ pc \in {"join", "joinFor"}
    /\ pstate[slot[target]] \in Dead
    /\ pc' = "finalDrain"
    /\ UNCHANGED <<workerVars, hbError, leaseVars, records, request, spawned,
                   target, todo>>

JoinTimesOut ==
    /\ pc = "joinFor"
    /\ pstate[slot[target]] \in Alive
    /\ CallEnds
    /\ UNCHANGED <<workerVars, hbError, leaseVars, records, request, spawned>>

BeginShutdown ==
    /\ pc = "idle"
    /\ \E e \in Exec : slot[e] # None
    /\ todo' = {e \in Exec : slot[e] # None}
    /\ pc' = "stop"
    /\ UNCHANGED <<workerVars, hbError, leaseVars, records, request, spawned,
                   target>>

\* shutdown goes on with the slots it has not visited.
NextSlot(rest) ==
    /\ todo' = rest
    /\ target' = None
    /\ pc' = IF rest = {} THEN "idle" ELSE "stop"

\* _terminate_and_join of one slot, then _finalize_slot.
StopWorker(e) ==
    /\ pc = "stop"
    /\ e \in todo
    /\ \/ pstate[slot[e]] \in Alive /\ Kill(slot[e])
       \/ pstate[slot[e]] \in Dead /\ UNCHANGED <<pstate, feed>>
    /\ pc' = "finalDrain"
    /\ target' = e
    /\ todo' = todo \ {e}
    /\ UNCHANGED <<job, sent, pipe, hbError, leaseVars, records, request,
                   spawned>>

StopFails(e) ==
    /\ pc = "stop"
    /\ e \in todo
    /\ Unkillable
    /\ pstate[slot[e]] \in Alive
    /\ NextSlot(todo \ {e})
    /\ UNCHANGED <<workerVars, hbError, leaseVars, records, request, spawned>>

\* The rest of _finalize_slot, after the last drain.
Finalize ==
    /\ pc = "finalize"
    /\ records[target] # None
    /\ MarkExited(target)
    /\ ReleaseAssignment(job[slot[target]])
    /\ Forget(slot[target])
    /\ slot' = [slot EXCEPT ![target] = None]
    /\ NextSlot(todo)
    /\ UNCHANGED <<request, spawned>>

\* mark_exited raises HeartbeatNotFoundError: the slot and its leases stay.
FinalizeFails ==
    /\ pc = "finalize"
    /\ records[target] = None
    /\ CallEnds
    /\ UNCHANGED <<workerVars, hbError, leaseVars, records, request, spawned>>

-----------------------------------------------------------------------------
WorkerStep(p) == Boot(p) \/ Beat(p) \/ Finish(p) \/ Feed(p) \/ Exit(p)

\* What the thread that holds the lock does next.
CallStep ==
    \/ \E p \in Pid : Spawn(p)
    \/ SpawnFails \/ RegisterWorker \/ RegisterFails
    \/ AbortStops \/ Unwind \/ AbortKeeps
    \/ DrainOne \/ DrainEnds \/ Classify
    \/ JoinReturns \/ JoinTimesOut
    \/ \E e \in Exec : StopWorker(e) \/ StopFails(e)
    \/ Finalize \/ FinalizeFails

\* A caller enters the pool.
CallBegins ==
    \/ \E a \in Assignment : Reserve(a)
    \/ \E e \in Exec : BeginDrain(e) \/ BeginStatus(e) \/ StatusNoSlot(e)
                       \/ BeginReap(e) \/ BeginReapFor(e)
    \/ BeginShutdown

Next ==
    \/ \E p \in Pid : WorkerStep(p) \/ Crash(p)
    \/ CallStep
    \/ CallBegins

Spec == Init /\ [][Next]_vars

\* The operating system schedules each process and its feeder, entrypoints
\* return, and the thread inside the pool runs.  Nobody has to call the pool.
Fairness ==
    /\ \A p \in Pid : /\ WF_vars(Boot(p))
                      /\ WF_vars(Finish(p))
                      /\ WF_vars(Feed(p))
                      /\ WF_vars(Exit(p))
    /\ WF_vars(CallStep)

LiveSpec == Spec /\ Fairness

-----------------------------------------------------------------------------
(* Properties *)

\* The assignments whose leases somebody answers for: those of the slots and
\* the one start() is working on.
Slots  == {e \in Exec : slot[e] # None}
Owners == {job[slot[e]] : e \in Slots} \cup ({request} \ {None})

\* The leases are exactly those of the owned Workers: none leaks on any
\* failure path of start, reap or shutdown, and none is given back early.
LeasesAreOwned ==
    /\ taskLeases = {a.task : a \in Owners}
    /\ cdpLeases = {a.url : a \in Owners}

\* The assignments with a live process.
Running == {job[p] : p \in {q \in Pid : pstate[q] \in Alive}}

\* The pool keeps the promise of WorkerLease: a second Worker never starts on
\* an execution, task or CDP URL while a process that had it may still live.
Lease == INSTANCE WorkerLease WITH held <- Owners, running <- Running
LeaseSpec == Lease!Spec

\* Every process that exists is owned: by a slot, or by start().
ProcessesAreOwned ==
    \A p \in Pid : pstate[p] # "none" =>
        \/ p = spawned /\ job[p] = request
        \/ job[p] # None /\ slot[job[p].exec] = p

\* A heartbeat lifecycle that is still open belongs to a Worker the Parent
\* owns, so that a later start of the same execution can register.
OpenLifecycleIsOwned ==
    \A e \in Exec : records[e] # None /\ ~records[e].exited =>
        records[e].pid \in {slot[e], spawned}

\* While a Worker has its slot, the monitor follows that very process.
RecordOfSlot ==
    \A e \in Slots : records[e] # None /\ records[e].pid = slot[e]

\* The monitor calls a Worker exited only when its entrypoint has finished:
\* by its own None or by its death, never because of an earlier Worker.
ExitedVerdictSound ==
    \A e \in Slots : records[e].exited => pstate[slot[e]] \in Dead \cup {"closing"}

\* A running Worker never has a heartbeat rejected, however its payloads, its
\* None and the Parent's drains interleave.
NoRejectionWhileAlive ==
    \A p \in Pid : hbError[p] => pstate[p] \in Dead

\* When a Worker that ended by itself is reaped without a protocol error, the
\* record that outlives it holds the last heartbeat the Worker sent.
FinalHeartbeatKept ==
    [][\A e \in Slots :
          slot'[e] = None /\ pstate[slot[e]] = "exited" /\ ~hbError[slot[e]]
              => records'[e].latest = sent[slot[e]]]_vars

\* No call keeps the pool's lock for ever.
CallsReturn == pc # "idle" ~> pc = "idle"

\* A Worker that keeps to the protocol and ends by itself never has one of its
\* heartbeats rejected (HeartbeatProtocolError: "A wire payload or Worker
\* identity violates the protocol").
ConformantNeverRejected == \A p \in Pid : ~(hbError[p] /\ pstate[p] = "exited")
=============================================================================
