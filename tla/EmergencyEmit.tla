---------------------------- MODULE EmergencyEmit ----------------------------
(***************************************************************************)
(* What one execution leaves behind and what the Parent makes of it.  The  *)
(* Worker appends to trace.jsonl (report/trace_writer.py) and replaces its *)
(* emergency snapshot (supervisor/emergency_snapshot.py); once it is dead, *)
(* emit (supervisor/emergency_emitter.py) turns the last snapshot into a   *)
(* draft, a report and a receipt.                                          *)
(*                                                                         *)
(* A dead Worker loses what its file object has buffered.  A power loss    *)
(* also takes what was never fsynced: a directory comes back in one of the *)
(* states it went through since its last fsync, the trace as a prefix.     *)
(***************************************************************************)
EXTENDS Integers

CONSTANTS
    Fact,          \* what a snapshot tells of its task: last_url, references
    Emitter,       \* callers of emit: threads of the Parent, or its successors
    None,
    MaxEvents,     \* bound: trace events of the execution
    IOMayFail,     \* replace and directory fsync may raise OSError
    MayLosePower

ASSUME EmitAssumption ==
    /\ None \notin Fact
    /\ MaxEvents \in Nat
    /\ {IOMayFail, MayLosePower} \subseteq BOOLEAN

VARIABLES
    alive,        \* the Worker runs
    lines,        \* complete lines of trace.jsonl
    torn,         \* trace.jsonl ends in half a line
    disk,         \* complete lines that an fsync has made durable
    buffered,     \* events in the buffer of the Worker's file object
    persisted,    \* seq of the last event that append said was fsynced
    wpc,          \* "run", or "persist": the snapshot is not yet fsynced
    dir,          \* run/<execution_id>: its trace and its snapshot
    dirImages,    \* what a power loss may leave of it
    emit,         \* emergency_emit: draft, report and receipt
    emitImages,   \* what a power loss may leave of it
    pc,           \* pc[e]: where a call of emit stands
    seen,         \* seen[e]: the snapshot or the receipt it has read
    raised,       \* history: why calls have raised, I/O errors aside
    wrote         \* history: drafts whose receipt a call has written and returned

traceVars == <<lines, torn, disk, buffered, persisted>>
dirVars   == <<dir, dirImages>>
emitVars  == <<emit, emitImages>>
callVars  == <<pc, seen, raised, wrote>>
vars == <<alive, traceVars, wpc, dirVars, emitVars, callVars>>

Snapshot == [seq : 0..MaxEvents, fact : Fact]
Dir      == [trace : BOOLEAN, snap : Snapshot \cup {None}]

\* A draft is a function of the snapshot; the receipt holds its digest.
Emit == [draft   : Fact \cup {None},
         report  : Snapshot \cup {None},
         receipt : Fact \cup {None}]

TraceOK ==
    /\ lines \in 0..MaxEvents
    /\ disk \in 0..lines
    /\ buffered \in 0..(MaxEvents - lines)
    /\ persisted \in 0..MaxEvents

FilesOK ==
    /\ dirImages \subseteq Dir /\ dir \in dirImages
    /\ emitImages \subseteq Emit /\ emit \in emitImages

CallsOK ==
    /\ pc \in [Emitter -> {"idle", "compare", "load", "read",
                           "draft", "draftSync", "report", "reportSync",
                           "receipt", "receiptSync", "verify"}]
    /\ seen \in [Emitter -> Snapshot \cup Fact \cup {None}]
    /\ raised \subseteq {"no snapshot", "snapshot ahead of trace", "corrupt"}
    /\ wrote \subseteq Fact

TypeOK ==
    /\ alive \in BOOLEAN
    /\ torn \in BOOLEAN
    /\ wpc \in {"run", "persist"}
    /\ TraceOK
    /\ FilesOK
    /\ CallsOK

Init ==
    /\ alive = TRUE
    /\ lines = 0 /\ disk = 0 /\ buffered = 0 /\ persisted = 0
    /\ torn = FALSE
    /\ wpc = "run"
    /\ dir = [trace |-> FALSE, snap |-> None]
    /\ dirImages = {dir}
    /\ emit = [draft |-> None, report |-> None, receipt |-> None]
    /\ emitImages = {emit}
    /\ pc = [e \in Emitter |-> "idle"]
    /\ seen = [e \in Emitter |-> None]
    /\ raised = {}
    /\ wrote = {}

-----------------------------------------------------------------------------
(* The Worker: TraceWriter *)

ChangeDir(d) == dir' = d /\ dirImages' = dirImages \cup {d}

\* open("xb")
OpenTrace ==
    /\ alive /\ wpc = "run"
    /\ ~dir.trace
    /\ ChangeDir([dir EXCEPT !.trace = TRUE])
    /\ UNCHANGED <<alive, traceVars, wpc, emitVars, callVars>>

Appends ==
    /\ alive /\ wpc = "run"
    /\ dir.trace
    /\ lines + buffered < MaxEvents
    /\ UNCHANGED <<alive, wpc, dirVars, emitVars, callVars>>

\* MUTANT: what the buffer has spilled stays in it.
SpillTwice ==
    /\ Appends
    /\ \E n \in 0..(buffered + 1) : lines' = lines + n
    /\ buffered' = buffered + 1
    /\ torn' \in BOOLEAN
    /\ UNCHANGED <<disk, persisted>>

\* BUFFERED.  The file object writes when its buffer is full, wherever in a
\* line that falls; a Worker killed inside a flush leaves the same files.
AppendBuffered ==
    /\ Appends
    /\ \E n \in 0..(buffered + 1) :
          /\ lines' = lines + n
          /\ buffered' = buffered + 1 - n
          /\ torn' \in IF buffered' = 0 THEN {FALSE}
                       ELSE IF n = 0 /\ torn THEN {TRUE} ELSE BOOLEAN
    /\ UNCHANGED <<disk, persisted>>

WritesOut ==
    /\ lines' = lines + buffered + 1
    /\ buffered' = 0
    /\ torn' = FALSE

\* FLUSH
AppendFlush ==
    /\ Appends
    /\ WritesOut
    /\ UNCHANGED <<disk, persisted>>

\* MUTANT: FSYNC without the flush.
AppendUnflushed ==
    /\ Appends
    /\ buffered' = buffered + 1
    /\ disk' = lines
    /\ persisted' = lines + buffered + 1
    /\ UNCHANGED <<lines, torn>>

\* FSYNC
AppendFsync ==
    /\ Appends
    /\ WritesOut
    /\ disk' = lines'
    /\ persisted' = lines'

-----------------------------------------------------------------------------
(* The Worker: EmergencySnapshotStore.persist *)

\* The temporary file is complete and fsynced; os.replace publishes it.  The
\* Worker records the last event it knows to be persisted.
Persist(f) ==
    /\ alive /\ wpc = "run"
    /\ ChangeDir([dir EXCEPT !.snap = [seq |-> persisted, fact |-> f]])
    /\ wpc' = "persist"
    /\ UNCHANGED <<alive, traceVars, emitVars, callVars>>

PersistSynced ==
    /\ alive /\ wpc = "persist"
    /\ dirImages' = {dir}
    /\ wpc' = "run"
    /\ UNCHANGED <<alive, traceVars, dir, emitVars, callVars>>

\* EmergencySnapshotError: the new snapshot is there, and may not last.
PersistRaises ==
    /\ IOMayFail
    /\ alive /\ wpc = "persist"
    /\ wpc' = "run"
    /\ UNCHANGED <<alive, traceVars, dirVars, emitVars, callVars>>

\* The Worker exits, crashes or is killed.
Die ==
    /\ alive
    /\ alive' = FALSE
    /\ wpc' = "run"
    /\ buffered' = 0
    /\ UNCHANGED <<lines, torn, disk, persisted, dirVars, emitVars, callVars>>

-----------------------------------------------------------------------------
(* EmergencyEmitter.emit *)

Goto(e, where) == pc' = [pc EXCEPT ![e] = where]

Finish(e) == Goto(e, "idle") /\ seen' = [seen EXCEPT ![e] = None]

Raise(e, why) ==
    /\ Finish(e)
    /\ raised' = raised \cup {why}
    /\ UNCHANGED <<emitVars, wrote>>

Reads == UNCHANGED <<alive, traceVars, wpc, dirVars>>

\* MUTANT: a receipt that is already there is not looked at.
BeginAnew(e) ==
    /\ ~alive
    /\ pc[e] = "idle"
    /\ Goto(e, "load")
    /\ Reads
    /\ UNCHANGED <<emitVars, seen, raised, wrote>>

\* emit is for a dead Worker.  _load_existing_receipt
Begin(e) ==
    /\ ~alive
    /\ pc[e] = "idle"
    /\ Goto(e, IF emit.receipt = None THEN "load" ELSE "compare")
    /\ seen' = [seen EXCEPT ![e] = emit.receipt]
    /\ Reads
    /\ UNCHANGED <<emitVars, raised, wrote>>

\* A receipt that fits its draft is returned as it is.
Compare(e) ==
    /\ pc[e] = "compare"
    /\ IF emit.draft = seen[e]
       THEN Finish(e) /\ UNCHANGED <<emitVars, raised, wrote>>
       ELSE Raise(e, "corrupt")
    /\ Reads

\* EmergencySnapshotStore.load.  What a rename put there is never malformed.
Loaded == dir.snap

Load(e) ==
    /\ pc[e] = "load"
    /\ IF Loaded = None
       THEN Raise(e, "no snapshot")
       ELSE /\ seen' = [seen EXCEPT ![e] = Loaded]
            /\ Goto(e, "read")
            /\ UNCHANGED <<emitVars, raised, wrote>>
    /\ Reads

\* read_trace takes the whole lines, half a line at the end only as a warning.
WholeLines == lines

\* _read_trace: a missing trace holds no event.
Recovered == IF dir.trace THEN WholeLines ELSE 0

\* MUTANT: half a line at the end of the trace is an error.
ReadStrict(e) ==
    /\ pc[e] = "read"
    /\ IF torn
       THEN Raise(e, "corrupt")
       ELSE /\ Goto(e, "draft")
            /\ UNCHANGED <<emitVars, seen, raised, wrote>>
    /\ Reads

\* _read_trace and its comparison with the snapshot.  _read_evidence, the status
\* mapper and the clock may refuse behind it, and emit then ends with nothing
\* written: as it does where WriteRaises ends it at the draft.
ReadTrace(e) ==
    /\ pc[e] = "read"
    /\ IF seen[e].seq > Recovered
       THEN Raise(e, "snapshot ahead of trace")
       ELSE /\ Goto(e, "draft")
            /\ UNCHANGED <<emitVars, seen, raised, wrote>>
    /\ Reads

\* MUTANT: the receipt is written before the report.
ReceiptBeforeReport(stage) ==
    CASE stage = "draft"       -> "draftSync"
      [] stage = "draftSync"   -> "receipt"
      [] stage = "receipt"     -> "receiptSync"
      [] stage = "receiptSync" -> "report"
      [] stage = "report"      -> "reportSync"
      [] stage = "reportSync"  -> "verify"

After(stage) ==
    CASE stage = "draft"       -> "draftSync"
      [] stage = "draftSync"   -> "report"
      [] stage = "report"      -> "reportSync"
      [] stage = "reportSync"  -> "receipt"
      [] stage = "receipt"     -> "receiptSync"
      [] stage = "receiptSync" -> "verify"

\* os.replace of a temporary file that is complete and fsynced
Replace(e) ==
    /\ pc[e] \in {"draft", "report", "receipt"}
    /\ emit' = [emit EXCEPT ![pc[e]] =
                  IF pc[e] = "report" THEN seen[e] ELSE seen[e].fact]
    /\ emitImages' = emitImages \cup {emit'}
    /\ Goto(e, After(pc[e]))
    /\ Reads
    /\ UNCHANGED <<seen, raised, wrote>>

\* MUTANT: the directory is not fsynced.
SkipSync(e) ==
    /\ pc[e] \in {"draftSync", "reportSync", "receiptSync"}
    /\ Goto(e, After(pc[e]))
    /\ Reads
    /\ UNCHANGED <<emitVars, seen, raised, wrote>>

\* _fsync_directory
Sync(e) ==
    /\ pc[e] \in {"draftSync", "reportSync", "receiptSync"}
    /\ emitImages' = {emit}
    /\ Goto(e, After(pc[e]))
    /\ Reads
    /\ UNCHANGED <<emit, seen, raised, wrote>>

\* EmergencyEmitError
WriteRaises(e) ==
    /\ IOMayFail
    /\ pc[e] \in {"draft", "draftSync", "report", "reportSync",
                  "receipt", "receiptSync"}
    /\ Finish(e)
    /\ Reads
    /\ UNCHANGED <<emitVars, raised, wrote>>

\* _verify_written_draft, and the receipt is returned
Verify(e) ==
    /\ pc[e] = "verify"
    /\ IF emit.draft = seen[e].fact
       THEN /\ wrote' = wrote \cup {emit.draft}
            /\ Finish(e)
            /\ UNCHANGED <<emitVars, raised>>
       ELSE Raise(e, "corrupt")
    /\ Reads

-----------------------------------------------------------------------------
(* Faults *)

\* The process that runs the call dies.
CrashEmitter(e) ==
    /\ pc[e] # "idle"
    /\ Finish(e)
    /\ Reads
    /\ UNCHANGED <<emitVars, raised, wrote>>

PowerLoss ==
    /\ MayLosePower
    /\ alive' = FALSE
    /\ wpc' = "run"
    /\ buffered' = 0
    /\ dir' \in dirImages
    /\ dirImages' = {dir'}
    /\ lines' \in IF dir'.trace THEN disk..lines ELSE {0}
    /\ disk' = lines'
    /\ torn' \in IF dir'.trace /\ (torn \/ lines' < lines) THEN BOOLEAN ELSE {FALSE}
    /\ emit' \in emitImages
    /\ emitImages' = {emit'}
    /\ pc' = [e \in Emitter |-> "idle"]
    /\ seen' = [e \in Emitter |-> None]
    /\ UNCHANGED <<persisted, raised, wrote>>

-----------------------------------------------------------------------------
Worker ==
    \/ OpenTrace \/ AppendBuffered \/ AppendFlush \/ AppendFsync
    \/ \E f \in Fact : Persist(f)
    \/ PersistSynced \/ PersistRaises \/ Die

EmitStep(e) ==
    \/ Begin(e) \/ Compare(e) \/ Load(e) \/ ReadTrace(e)
    \/ Replace(e) \/ Sync(e) \/ WriteRaises(e) \/ Verify(e)

Next ==
    \/ Worker
    \/ \E e \in Emitter : EmitStep(e) \/ CrashEmitter(e)
    \/ PowerLoss

Spec == Init /\ [][Next]_vars

-----------------------------------------------------------------------------
(* Properties *)

\* Whatever dies and whenever, the trace that is left holds every event the
\* snapshot that is left speaks of: a snapshot never outlives its events.
TraceCoversSnapshot ==
    \A d \in dirImages : d.snap # None /\ d.snap.seq > 0 =>
        d.trace /\ d.snap.seq <= disk

\* Wherever emit is interrupted, in the files as they are and in every state a
\* power loss may leave: a receipt has its draft and its report beside it, and
\* they are those of one snapshot, even when two calls of emit overlap.
ReceiptIsComplete ==
    \A d \in emitImages : d.receipt # None =>
        /\ d.draft = d.receipt
        /\ d.report # None /\ d.report.fact = d.receipt

\* The output a call has written and reported is the output for good: no later
\* call, crash or power loss replaces or removes it, not even one that brings
\* an older snapshot back.  (A call that returns a receipt it found promises
\* less: the fsync of the call that wrote the receipt may have failed.)
OutputIsFinal ==
    \A f \in wrote : \A d \in emitImages : d.receipt = f /\ d.draft = f

\* Once a snapshot is there emit never refuses: no crash of the Worker or of an
\* earlier emit leaves files that it takes for corrupt or inconsistent.
NeverCorrupt == raised \subseteq {"no snapshot"}

\* Architecture INV-7: the death of the Worker does not prevent an output.
DeathNeverPreventsOutput == raised = {}
=============================================================================
