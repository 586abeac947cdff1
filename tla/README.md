# EverWeb: specifications, model checking and proofs

EverWeb runs web tasks in worker processes: a Parent spawns one process per
task, watches its heartbeats, and, when a Worker dies, turns what the Worker
has persisted into an output. This directory holds TLA+ modules for the parts
of `src/src/everweb` in which processes, crashes and failures meet, the TLC
configurations that check them, and proofs checked by TLAPS. `PROJECT.json`
lists components, runs, mutants, findings, hazards and theorems, and maps every
definition to the lines it translates. Paths below are relative to
`src/src/everweb` unless they start with `src/`.

## 1. Inventory

| Component | State | Operations | Meets | What makes it correct |
|---|---|---|---|---|
| Worker pool `supervisor/worker_process.py` | slots, task and CDP leases, a lock; per Worker a process and a queue | `start`, `drain_heartbeats`, `latest_heartbeat`, `heartbeat_status`, `reap`, `shutdown`; in the child `_worker_bootstrap` | spawned processes, `multiprocessing.Queue` feeders, the heartbeat monitor | one Worker per execution, task and CDP URL while its process lives; nothing leaks when a start, a kill or a clock fails; every call returns |
| Heartbeat monitor `supervisor/heartbeat.py` | a record per execution: pid, last payload and when it was read, exited | `register`, `unregister`, `record_payload`, `mark_exited`, `status` | called by the pool under its lock; reads a clock | the record is about the owned process; verdicts are justified and in time; no conforming payload is rejected |
| Artifact store `adapters/filesystem/artifact_store.py` | an identity directory with pending and committed records, the artifact files, an index per store object | open (with recovery), `put_*`, `read`, `recover` | several processes share the directory under `flock` | a returned reference stays readable through crashes and power loss; ids and paths are unique; a run directory stays usable |
| Emergency snapshot and emitter `supervisor/emergency_*.py` | one snapshot per execution; draft, report and receipt | `persist`, `load`, `emit` | written by the Worker, read by the Parent after its death; reads trace and evidence | a death leaves consistent files; the output is complete, the same for every retry, and always produced |
| Trace and evidence writers `report/*_writer.py` | an append-only file, its buffer, the next seq | `append` with one of three durabilities, `close`, `read_*` | Worker writes, Parent reads after the death | what was reported as persisted is read back, in order and without gaps; half a line at the end is tolerated; an id is taken once |
| Runtime loop `core/runtime.py` | phase, trace, four output files | `run`, `_enter_phase` | browser, model and trace, in one process; other processes through the run directory | the receipt last, and of one attempt with all else; a returned run is final |
| Action pipeline `act/`, `core/policy*.py`, `core/*meter*.py` | step total, last decision and receipt | `execute` through executor, policy gate, meter and browser | wraps a `BrowserPort` | no action touches a page uncounted; what is refused is free; an action touches what the model saw |
| Budget `core/budget.py` | none | `assess` | called with counters | its three lines are reached in order |
| Page perception `perceive/` | none | AX and DOM extraction, `merge`, `build` | browser snapshots | refs name one target; nothing is missing silently |
| Playwright adapter `adapters/playwright_browser/` | the connected session | create, observe, execute, goto, close | Playwright | no use without a session |
| Model adapter, null adapters, competition adapter, harness | none of their own | single requests, conversions, replay | HTTP, JSON | formats |

What is hard to test here: the Parent, each Worker, each Worker's heartbeat
thread and each queue's feeder thread run concurrently; a process may die
between any two system calls of a multi-file protocol; roll-backs may fail
themselves; a slow, frozen or dead Worker look alike from outside. Every such
place known to us is in `PROJECT.json` under `hazards`, with the properties
that watch it or the reason why none does yet.

## 2. Modules

| Module | What it is |
|---|---|
| `WorkerLease` | abstract: what the pool promises about executions, tasks and browsers |
| `WorkerPool` | the pool, its Workers, their queues and the monitor's records |
| `WorkerPoolProofs` | TLAPS proofs about `WorkerPool`: ownership and leases |
| `WorkerRecordProofs` | TLAPS proofs about `WorkerPool`: the monitor's records |
| `MCWorkerPool` | instances of `WorkerPool` for TLC |
| `HeartbeatTiming` | the monitor in time, for every policy it accepts |
| `HeartbeatTimingProofs` | TLAPS proofs about it |
| `ImmutableStore` | abstract: what an artifact store promises |
| `ArtifactStore`, `MCArtifactStore` | the file-system store, and its instances |
| `ArtifactStoreProofs` | TLAPS proofs about it |
| `Journal` | abstract: what an append-only file promises its reader |
| `Ledger`, `MCLedger` | the trace and evidence writers and readers, and their instances |
| `LedgerProofs` | TLAPS proofs about `Ledger`, and that it implements `Journal` |
| `EmergencyEmit`, `MCEmergencyEmit` | trace, snapshot and `emit`, and its instances |
| `EmergencyEmitProofs` | TLAPS proofs about `EmergencyEmit` |
| `PageView` | operators: the targets of a view, made of two reads of a page, and finding one by its ref |
| `ActionPipeline`, `MCActionPipeline` | an action through executor, policy, meter and browser, and its instances |
| `ActionPipelineProofs` | TLAPS proofs about it |
| `MinimalRuntime`, `MCMinimalRuntime` | `MinimalRuntime.run`, and its instances |
| `Budget` | operators: the three lines of a budget |
| `MinimalRuntimeProofs` | TLAPS proofs about `MinimalRuntime` and about `Budget` |

Operators introduced by a comment that starts with `MUTANT:` are not part of
any specification. Each is a plausible bug: TLC finds the property that
`PROJECT.json` lists with it violated once the operator takes the place of the
definition it imitates, which shows that the property depends on that code.

### WorkerPool

One variable per table of `SpawnWorkerPool` (`slot`, `taskLeases`, `cdpLeases`,
`hbError`) and of `HeartbeatMonitor` (`records`); per process its state, the
assignment it was given, how many heartbeats it has sent, its feeder's buffer
and its pipe. The pool's methods hold one `RLock` throughout, so at most one
call is in progress: `pc` says where it stands, `request` and `spawned` belong
to `start`, `target` and `todo` to the others. Everything a Worker or the
operating system does can happen between two steps of a call: that is where
the interleavings are. Each action is the code between two points at which
another process can be observed: `DrainOne` is one turn of the loop of
`_drain_heartbeats`, `Classify` the `is_alive()` and `status()` of
`heartbeat_status`, `JoinReturns` and `JoinTimesOut` the two outcomes of
`process.join`, `Unwind`, `AbortStops` and `AbortKeeps` the paths of `start`'s
exception handler.

The monitor is only ever used by the pool, so its methods are operators
(`Register`, `Accept`, `MarkExited`, ...) inside the actions that call them.

### HeartbeatTiming

Time as ages, in ticks; the policy is any that `_validate_contract` accepts. A
poll is one step. `Slack` bounds how late a payload may be, `BootTime` how late
the first one, `PollEvery` the time between two polls: these are assumptions
about the environment, not values the code has.

### ArtifactStore

The files are three functions (pending and committed records by id, artifacts
by path). `flock` lets one operation run at a time, so again `pc` says where it
stands; but the process that holds the lock can die at any step, and then
another store takes over. Each action is one system call that changes a
directory, or one fsync of it. For power loss, `idImages` and `dirImages` keep
the states a directory went through since its last fsync: the machine comes
back with any one of them. Recovery (`RecoverCommitted`, `AdoptPending`,
`DropPending`, ...) runs at every opening and before every put, as in the code.

### Ledger

`TraceWriter` and `EvidenceWriter` are one module: they differ in what the index
holds (the next seq, or the ids) and in whether a line can be refused. A line is
two units, so that a write can stop in the middle of it; `file` is a sequence of
units, `buffer` what the file object has not written, `disk` how much of the
file an fsync has covered, and `entry` whether the file's name in its directory
is on disk. The writers create the file (`open("xb")`) and fsync only the file,
so that a power loss may take it as a whole, fsynced lines and all, until
somebody fsyncs the directory (`SyncDirectory`: a snapshot, a manifest or a
summary is written into it) or a reboot has found it there. The file object is Python's `io.BufferedWriter` and
external: `Drain`, `Overflow`, `WriteLarge` and `Write` return the ways a call
may end, with what is then in the file and in the buffer and how far the line
has reached. A flush that raises may have written a part and keeps the rest; a
line longer than the buffer bypasses it and may be left half written.

`AppendLine` is the whole of `append`: the write, then what the durability asks
for. If the write raises, nothing was accepted (`Rejected`); if the flush or the
fsync raises, the line was (`Accepted`), and `append` raises all the same: the
caller of an evidence file who tries again is refused, since the line is there,
the caller of a trace writes another line. `Close`, `Die` and `PowerLoss` end a
writer. `Read` is `read_trace` and `read_evidence`, without their loop: the
lines of a file are those it is made of (`AreLines`: two halves each, at most a
half one with no newline behind them), and a file that is not made of lines is
refused.

Three variables are history: the lines accepted, how many of them had been
promised, and `health`. The last one carries the condition under which the
promises hold. An append that raises in the middle of a large line leaves half a
line without a newline; if the caller goes on and appends, the two run together
and the reader refuses the whole file. `MinimalRuntime` does not go on.
`EmergencyEmit` has the trace too, in less detail: it counts its lines.

### EmergencyEmit

The trace is counted in lines: in the Worker's buffer, in the file, on disk,
with possibly half a line at the end. The execution's directory and
`emergency_emit` are records of what they contain, with images as above. A
draft is a function of the snapshot, so it is represented by what the snapshot
says (`Fact`), and the receipt's digest by that draft. `emit` takes no lock:
calls overlap step by step.

### PageView and ActionPipeline

A page is a sequence of elements, each with its label (role and name) in the
accessibility tree and in the DOM, which differ for some; two elements may be
named alike. `PageView` has no
state: `AxTargets`, `DomTargets`, `Merge` and `BuildView` are what
`normalize_ax_snapshot`, `extract_dom_targets`, `merge_targets` and
`build_page_view` return; `Kept` takes the elements a loop keeps, in their order,
and `Unseen` the DOM targets whose label the accessibility tree does not have.
`Stale`, `Found` and `Resolve` are
`resolve_role_name_locator`. Of a view they keep what an action can depend on:
epoch, refs, labels, frames, unknowns.

In `ActionPipeline` the page changes whenever it likes (`PageChanges`), and
whenever the caller uses `goto`, which no wrapper has and nothing counts. `Observe`
makes a view of an accessibility snapshot of any page and the DOM of the page
that is there, since the two reads are apart. `Propose` is the model: any kind,
with the ref of a target, a made-up one, or none. `Execute` sends it through the
layers, each an operator that returns the set of ways a call may end:
`Executor`, `Guarded`, `Metered`, `Browser`, `Dispatch`. A layer that raises
lets the ones around it raise too, so no state is lost by making a call one
step: the only state it changes on the way is the count, and nothing else of the
process runs. `Dispatch` may fail before or after the element was touched,
because `action_dispatch.py:62` catches whatever Playwright raises.
`ExecuteDirectly` is a caller that leaves out the executor.

Assumed of the callers, which `src` does not have yet: they number views one up
and pass the latest; wrappers are stacked as the tests do, guard around meter
around browser; steps are counted per action. Assumed of Playwright:
`get_by_role` searches the main frame by role and a part of the name, and
refuses several matches.

### MinimalRuntime

`Path` is the order of everything `run` does; `at` says how far a run is. Each
step is one event, one call of a port, one rename or one fsync. A file is
represented by the number of the attempt that wrote it: what a property can ask
is whether files belong together. The trace and the two other files of
`run/<id>`, and the two of `run/<id>/emit`, have images for power loss like
those of `EmergencyEmit`. Events are fsynced one by one and the trace has no
other, so `phases` counts them. `Raise` ends a run at any point: it leaves the
files, and the task session of a browser that outlives the run. That session
stays open, as `run` has no `finally` for it, and the next run of that browser
ends at `create_task_session`. A session is represented by the run that made it,
so that `SessionIsOwn` can say that no run works in that of another.

### Budget

`Budget.assess` has no state: `Convergence`, `Seal`, `HardStop` and
`CallsExhausted` are what it returns, as functions of a budget and of what has
been used. The ratio is a fraction and the division exact, where the code has
floats; time is counted in ticks. There is no run: the runtime calls `assess`
once, with zeros (`core/runtime.py:254`), and nothing acts on the answer. What
can be said of it is said for all budgets by theorems, in `MinimalRuntimeProofs`,
whose system makes the call.

## 3. Runs

| Run | Question | Instance |
|---|---|---|
| `pool_leases` | Are leases, processes and lifecycles always owned, leases by one Worker each, and does the pool implement `WorkerLease`, although clocks fail and processes may resist being killed? | 2 executions, 2 tasks, 2 URLs in every combination, 2 processes, 1 heartbeat each, pipe of 1, symmetry |
| `pool_heartbeats` | Is what the monitor says about a Worker justified, is the last heartbeat kept, does every call return? | 2 Workers with disjoint assignments, 2 heartbeats each, a pipe that holds everything |
| `pool_late_heartbeat` | Can a conforming Worker have a heartbeat rejected? (Yes: finding 1) | 1 Worker |
| `pool_full_pipe` | Can a call hang when nobody drains? (Yes: finding 2) | 1 Worker, pipe of 1 |
| `timing_policies` | Are verdicts right and timely for every accepted policy? | thresholds 1 to 3 and 6, slack 1, boot 3, polls at least every 3 |
| `store_faults` | Does the store keep its promises through all faults, and implement `ImmutableStore`? | 2 stores; an artifact, one with its id, one with its path; every fault |
| `store_torn_marker` | Does a crash leave a store that can be opened? (No: finding 3) | 1 artifact, crashes only |
| `emit_faults` | Does `emit` give one complete and final output whatever dies when? | 2 snapshot contents, 2 overlapping calls, 2 events; I/O errors and power loss |
| `emit_no_snapshot` | Does a dead Worker always get an output? (No: finding 4) | 1 Worker, 1 call |
| `actions` | Is all but `goto` counted, is what is refused free, does an action touch what was meant, is a view complete or says it is not? | 4 pages of 2 or 3 elements, 2 frames, a limit of 2 targets, 2 views, 2 steps, 4 kinds |
| `ledgers` | Does the reader accept every file, is the index right, and do the writers implement `Journal`, whatever raises, is tried again or dies? | up to 4 lines, of 2 short ones and a large one; every durability, I/O errors, kills, power loss with and without the file itself, symmetry |
| `minimal_runs` | Is a receipt always the last file of its run, is a returned run final, and does each run work in its own task session? | 2 processes, 2 executions, 4 calls of `run`, power loss, symmetry |

Why these bounds. Competition in the pool is pairwise: two assignments in every
combination contain every conflict of execution, task and URL, and two
processes suffice for "an execution is started again while its first process
lives". Two heartbeats distinguish the last one from an earlier one; a pipe of
one is already full when a second payload comes. Conflicts between puts are
pairwise too: same id or same path. Four lines let one be lost or refused between
two others, or two follow a half one. Two trace events distinguish none, some and
all being persisted; two snapshot contents distinguish an old from a new one.
Ages up to 13 exceed every
threshold plus two poll intervals, and a grace of 6 every staleness of 2 plus one,
so that both parts of `SilenceIsSeenInTime` decide: it fails with a bound one
tick tighter. The four pages differ
in what the code tells apart: order, a name that is part of another, no name,
another frame, more targets than the limit, a role that differs between the two
reads, a heading only, two elements that are named alike in both reads or in one.
Two views make a ref stale, two steps a second action.
Four attempts let one execution be run again while and after another is run.

Symmetry is used only in runs without liveness properties. Only `minimal_runs`
switches off the deadlock check: once the attempts are used up and power loss
has nothing left to take, nothing happens any more, as in a system nobody calls.

### Fairness

`WorkerPool!LiveSpec`: weak fairness of booting, finishing, feeding and exiting
of each process, and of the thread inside the pool. The operating system
schedules them; that an entrypoint returns is the Worker's contract. Nobody is
assumed to call the pool: heartbeats and new calls are not fair.
`HeartbeatTiming!LiveSpec`: time passes and the Parent polls; of the Worker
nothing is assumed. The other modules have safety properties only, since faults
may recur for ever.

## 4. Proofs

`WorkerPoolProofs` proves, for any sets of executions, tasks, URLs and
processes, any assignments, any pipe capacity and number of heartbeats, from
`PoolAssumption` alone (the typing of the constants):

| Theorem | States |
|---|---|
| `TypeCorrect` | `TypeOK` always |
| `NoOrphan` | every process is owned, by a slot or by the `start` in progress; that it has only one is `SlotShape`, a part of `IInv` |
| `LeaseAccounting` | the leases are exactly those of the owned Workers |
| `LifecycleOwnership` | an open heartbeat lifecycle belongs to an owned process |
| `PoolImplementsLease` | `WorkerPool` implements `WorkerLease` |

None of these is inductive alone. The invariant `IInv` has three parts. `CInv`
ties the control state together: which of `request`, `spawned`, `target` and
`todo` are set at each `pc`, that a slot holds a process with the slot's
execution, that no process is in a state its call could not have left it in.
`OInv` adds that owners never share an execution, task or URL: without it,
releasing one owner's leases could take away another's, and `LeasesAreOwned`
would not be preserved by `ReleaseAssignment`. `LInv` says of an open lifecycle
whose it is in the middle of `start`, where neither the slot nor the record is
there yet. Each action has a lemma per part; the refinement maps `held` to the
owners and `running` to the live processes' assignments, `Reserve` to
`Acquire`, `Spawn` to `Run`, the end of a process to `Stop`, and the three
places that release to `Release`; everything else stutters.

`EmergencyEmitProofs` proves, for any number of trace events, snapshot contents
and overlapping calls, with I/O failures and power loss enabled, from
`EmitAssumption` alone:

| Theorem | States |
|---|---|
| `TypeCorrect` | `TypeOK` always |
| `TraceCovered` | `TraceCoversSnapshot`: no snapshot is ahead of the fsynced trace |
| `ReceiptComplete` | `ReceiptIsComplete`: a receipt has its draft and its report |
| `OutputFinal` | `OutputIsFinal`: the output a call has written is final |
| `NoCorruption` | `NeverCorrupt`: `emit` refuses only for want of a snapshot |

The invariant adds two parts to these. `TraceInv` says that, while the Worker
lives, the last event it believes persisted is on disk: this is what `persist`
relies on when it writes that number. `CallInv` says that a call of `emit` in
progress holds the very snapshot that is there (nobody replaces it, the Worker
is dead), and which files agree with that snapshot at each point of the call.
That is why overlapping calls do no harm: they write the same contents, so a
`Replace` by one call never changes a file another call has already written
(`WriteStep`), and an fsync by one only narrows what the others may lose
(`SyncStep`). A power loss may bring an older snapshot back, but ends all calls;
a receipt whose writing has been reported is by then in every image of the
directory.

`WorkerRecordProofs` adds, under the assumption that clocks do not fail, which
the code needs for these (`register` and `record_payload` read one):

| Theorem | States |
|---|---|
| `RecordFollowsSlot` | `RecordOfSlot`: an owned Worker has a record, about its own process |
| `ExitedIsSound` | `ExitedVerdictSound`: exited is said only of a Worker that is done |
| `LiveNeverRejected` | `NoRejectionWhileAlive`: no heartbeat of a live Worker is rejected |
| `LastBeatKept` | `FinalHeartbeatKept`: the last heartbeat of a Worker that ended by itself is kept |

The argument is about the two halves of a queue. `Queue` says that nothing
follows the sentinel and that the heartbeat nearest to the sender is the last
one sent; it is kept by every put, feed and read, whatever the length
(`Appended`, `Taken`). `EndedIsOver` adds that a Worker whose sentinel was read
has nothing left in either half, so what is still rejected comes from a dead
one, and `LatestIsLast` that a record is up to date with all that was read. With
`Starts`, which holds this for a process between its spawn and its registration,
they are inductive together with `IInv`.

`HeartbeatTimingProofs` proves, for every policy the class accepts and any
lateness, boot time and poll interval:

| Theorem | States |
|---|---|
| `TypeCorrect` | `TypeOK` always |
| `PunctualNeverExpires` | `NoFalseExpiry`: a Worker that keeps its interval is never expired |
| `AliveWasRecent` | `AliveIsRecent`: alive is said only of a Worker heard from lately |
| `SilenceIsSeen` | `SilenceIsSeenInTime`: a silent Worker stops being alive in time |

Its invariant relates the ages: `Punctual` bounds the age of the last payload of
a Worker that runs, `Polled` says that a payload in the pipe is younger than the
last poll and one that was read at most a poll older than the time it was read,
`Heard` that the last payload is in one of the two places. `Verdict` carries what
a poll has said on to the next one. `SilenceIsSeen` is the part of the liveness
property `FreezeIsSeen` that needs no fairness: time cannot pass the bound while
the verdict is alive. That time passes stays with TLC.

`ArtifactStoreProofs` proves, for any stores and requests and every combination
of faults:

| Theorem | States |
|---|---|
| `TypeCorrect` | `TypeOK` always |
| `AckedIsDurable` | `AckedSurvives`: what a put has returned stays readable |
| `RecordsStayDistinct` | `RecordsDistinct`: no two records share an id or a path |
| `PutsStartClean` | `PutStartsClean`: a put begins once leftovers are settled |
| `IndexIsHonest` | `KnownIsCommitted`: an id the index has is committed |
| `StoreImplementsPromise` | `ArtifactStore` implements `ImmutableStore` |

`FilesOK` holds of every image a power loss may leave, not only of the present
one: that is what makes `PowerLoss` harmless. `Exclusive` says that the id and
the path of a put in progress belong to nobody else, which is why its roll-back,
which removes by name, removes nothing that was acknowledged; `RecoverOK` that
what recovery has gone over is settled. The refinement maps `CommitSynced`, when
it returns, to `Ack`; whatever else becomes readable or stops being so was never
returned, and is `Settle`. The theorem does not say that a store can always be
opened: it cannot (finding 3).

`LedgerProofs` proves, for any lines, sizes and durabilities, with I/O errors,
kills and power loss:

| Theorem | States |
|---|---|
| `TypeCorrect` | `TypeOK` always |
| `FileAccepted` | `ReaderAccepts`: a writer that stops at an error leaves a file that can be read |
| `IndexIsRight` | `ClaimsAreWritten`: the index has the lines that are written, and no others |
| `LedgerKeepsJournal` | `Ledger` implements `Journal`: what was promised is read back, in order |

The reader is a statement about a whole file; the invariant is about its units.
`Placed` gives every accepted line the place of its second half in the file and
the buffer together; these places rise with the lines, and every unit elsewhere
is a first half. The first `good` lines have nothing between them, so a prefix of
the file reads as the lines it reaches; `good` never falls, and is less than the
number of lines only if a line was accepted after half a large one. `Laid` adds
that the promised lines lie within the file, and within what was fsynced if that
was promised; `Indexed` that the index is that of the accepted lines. What the
reader returns for a file follows (`ReadGiven`), and that a longer file gives no
fewer lines (`GivenMore`). The refinement maps `append`, `close` and a death to
`Write` and power loss to `PowerLoss`; the abstract `shown` is what `Read` returns,
or nothing once a power loss has taken the file (`Shown`). Fsynced lines survive
every power loss after the directory was fsynced, and one before it as long as
the file is there at all: that is all the writers can promise.

`ActionPipelineProofs` proves, for any pages, labels, kinds, epochs and limits:

| Theorem | States |
|---|---|
| `TypeCorrect` | `TypeOK` always |
| `TouchesCounted` | `OnlyGotoIsUncounted`: `execute` touches nothing uncounted |
| `RefusalsFree` | `RefusedIsFree`: what is refused is not counted |
| `OnlyTheMeantIsHit` | `HitsWhatWasMeant`: an action touches what its target stood for |
| `ViewsAreComplete` | `NothingSilentlyMissing`: every accessible element has a target of its own, every one of the DOM a target of its role, name and frame, or the view says that it lacks some |

The first three go through the layers from the page outwards: `Fair` says what an
action may have been through when it leaves the meter (a touch is counted once, a
count implies a session and no refusal), and each layer hands it on. Only `Goto`
changes the page without coming that way. The last two
are about how a view is made. `Kept` places the n-th element it keeps by counting
the kept ones before it, so that what it returns follows from facts about finite
sets (`KeptPlaces`, `KeptIs`) and not from an induction; where the code takes the
first of several, the proof takes the least (`LeastIn`). `ViewOK` says that the
refs of a view are distinct and of its epoch, `HasAll` that it has a target with
the label and frame of each element of the DOM and, if it has no unknowns, one
for each element of the accessibility tree (the places that `Kept` gives them),
and `Means` that as long as the model's ref is of the latest view, it names the very target the model saw: a ref of an
older view is refused as stale before the page is searched.

`MinimalRuntimeProofs` proves, for any processes, executions and attempts:

| Theorem | States |
|---|---|
| `TypeCorrect` | `TypeOK` always |
| `ReceiptLast` | `ReceiptIsLast`: a receipt has all else of its attempt beside it |
| `ReturnedStays` | `ReturnedIsFinal`: a returned run is never replaced or lost |
| `SessionOwn` | `SessionIsOwn`: a run works in the session it has created itself |

For each step of `Path`, `RunOK` says which files a run has written and which of
them are durable; `ExecOK` says that an execution with anything in `emit/` has
its other files settled in every image, of the attempt that made its trace.
`Alone` is the reason why attempts do not mix: `TraceWriter` refuses a trace that
is there, so no two runs are ever at work on one execution. `RetOK` says that
nobody works on one whose run has returned, `SessionsOK` that an open session is
of one run of that browser, which has not returned.

`MinimalRuntimeProofs` also proves of `Budget`, for any budget and use, that no line is taken back as more is used (`LinesStay`), that
the lines come in their order (`LinesInOrder`: the hard stop only behind the seal
line, unless `seal_steps_remaining` is 0), and which budgets are sealed before
the first step (`SealedFromTheStart`: those smaller than what they keep for the
end, which nothing rejects).

Every invariant, every action property and every refinement that a run checks is
also a theorem. Only model-checked are the two liveness properties, `CallsReturn`
and `FreezeIsSeen`, since the prover handles neither fairness nor ENABLED.

## 5. Findings

1. `heartbeat_status` drains before it looks at the process
   (`worker_process.py:320`). A Worker that sends and exits in between is
   marked exited, and its last heartbeat is then rejected as a protocol error
   that sticks to its slot. Run `pool_late_heartbeat`.
2. `reap` joins before it drains (`worker_process.py:343`), and a Worker does
   not end before its queue is written out: with a full pipe both wait for
   ever, holding the pool's lock. Run `pool_full_pipe`.
3. A crash between creating and writing a pending marker
   (`artifact_store.py:303`) leaves an empty marker, which recovery refuses:
   no store can be opened on that directory again. Run `store_torn_marker`.
   A put can leave such a directory without a crash: if the directory fsyncs
   fail from the commit on, the roll-back removes the artifact and keeps the
   committed record (`artifact_store.py:268`).
4. INV-7 of the architecture says the death of a Worker does not prevent an
   output; `emit` refuses without a snapshot, and the first checkpoint comes
   only when ANALYZE is complete. Run `emit_no_snapshot`.

Three more places fall short of what a reader may expect, two of them against a
document. They have no run of their own: a property names each as what it leaves
out, and a hazard quotes the line.

* Architecture 6.3 (`src/docs/architecture/EverWeb_Architecture_v2.2_Kimi_First.md:529`)
  has navigate pass the StepMeter. `goto` (`browser.py:104`) is no action and no
  wrapper has it, so it is never counted: `OnlyGotoIsUncounted`.
* Architecture 9.3 (line 740) closes the context of a task after the task. A run
  in which `observe` or `complete` raises leaves it open (`core/runtime.py:268`),
  and that browser refuses every later run: `SessionIsOwn` says only that nobody
  works in it.
* Of DOM elements with one role,
  name and frame (two "Delete" buttons, inputs without a name) `merge_targets`
  (`perceive/page_view.py:37`) keeps the first, and no unknown says that there are
  more: `NothingSilentlyMissing` asks for one target per role, name and frame there.

## 6. Assumptions and what is left out

* POSIX. On Windows the directory fsync is a no-op, which the execution plan
  records (`src/docs/execution/EverWeb_Execution_Plan_v1.0.md:381`); power loss
  is then not covered.
* Directories that the code creates are durable once they exist; the code does
  not fsync their parents. The files in them are not: each of `ArtifactStore`,
  `EmergencyEmit`, `Ledger` and `MinimalRuntime` may lose one whose directory was
  not fsynced since its creation. A directory returns from a power loss in a state it
  was in, an unsynced file as a prefix of what was written, and a failed fsync
  changes nothing.
* Exceptions that are not `Exception` (a `KeyboardInterrupt` in the middle of
  an operation) count as a crash. Temporary files left behind are ignored.
* A process that is asked whether it is alive answers truthfully, pids are not
  reused while the Parent holds a process object, and a signal that kills does
  so before `join` returns.
* `emit` is called only for a dead Worker, and an execution has one Worker.
  Nothing in the source wires either yet.
* What an action does to a page is any change of it. A name matches if it is part
  of an element's accessible name; elements that are hidden count as absent.
* `last_decision` and `last_step_receipt` are left out: nothing in `src` reads
  them. So are injected step policies: the code has only the action-based one.
* The queue of a Worker has no bound and its feeder runs: the `Full` and `OSError`
  that `_worker_bootstrap` swallows (`worker_process.py:143`, `:165`) would lose a
  payload and are left out.
* `emit` reads evidence too (`emergency_emitter.py:227`), and the status mapper or
  the clock may refuse (`:233`, `:259`): it then ends with nothing written, as
  after a failed write of the draft, which is in the model. What a torn evidence
  file reads as is in `Ledger`.
* The event about the budget that `run` fsyncs in ANALYZE (`core/runtime.py:253`)
  is left out of the phases `MinimalRuntime` counts. `scroll_mode` has one value.
* Validation of arguments, payloads and paths, encodings, checksums and the
  contents of receipts are not modelled. Formatting is not either: what a
  property compares is represented by model values.

## 7. Plan

Everything that was planned is modelled, and every safety property is proved. What would come next, as the code grows:

1. `Budget` as a part of the loop, once something acts on what `assess` returns:
   that a run stops, and has sealed before it stops.
2. `EmergencyEmit` over `Ledger`, in place of the lines it counts, once the
   source wires the Worker's trace to the Parent's `emit`.
3. The frame of a locator and names that contain others, once a document says
   what an action may touch.

Not modelled, and not planned: the model adapter (single requests, no protocol of
its own), model routes and the navigation policy (validation), the capability
probe, serializer and competition adapter (pure conversions), null adapters and
harness (constants and replays), and `src/.cursor/hooks` (a tool of the
developers).
