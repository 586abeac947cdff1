------------------------- MODULE EmergencyEmitProofs -------------------------
(***************************************************************************)
(* Proofs about EmergencyEmit, for any number of trace events, snapshot    *)
(* contents and overlapping calls of emit, with every fault enabled.       *)
(***************************************************************************)
EXTENDS EmergencyEmit, TLAPS

Active == {"load", "read", "draft", "draftSync", "report", "reportSync",
           "receipt", "receiptSync", "verify"}
Holding    == Active \ {"load"}
HasDraft   == Holding \ {"read", "draft"}
HasReport  == HasDraft \ {"draftSync", "report"}
HasReceipt == {"receiptSync", "verify"}

\* While the Worker lives, what append has reported as persisted is on disk,
\* and the trace has its entry before the snapshot that speaks of it.
TraceInv ==
    /\ TraceCoversSnapshot
    /\ alive => persisted <= disk /\ (persisted > 0 => dir.trace)

\* A call in progress works on the snapshot that is there, for the Worker is
\* dead; whatever another call has written meanwhile is made of the same one.
CallOK(e) ==
    /\ pc[e] # "idle" => ~alive
    /\ pc[e] = "compare" => emit.receipt # None /\ seen[e] = emit.receipt
    /\ pc[e] \in Active => \/ emit.receipt = None
                           \/ dir.snap # None /\ emit.receipt = dir.snap.fact
    /\ pc[e] \in Holding => dir.snap # None /\ seen[e] = dir.snap
    /\ pc[e] \in HasDraft => emit.draft = dir.snap.fact
    /\ pc[e] \in HasReport => emit.report = dir.snap
    /\ pc[e] \in HasReceipt => emit.receipt = dir.snap.fact
    /\ pc[e] = "verify" => \A d \in emitImages : /\ d.draft = dir.snap.fact
                                                 /\ d.receipt = dir.snap.fact

CallInv == \A e \in Emitter : CallOK(e)

\* The inductive invariant.
IInv ==
    /\ TypeOK
    /\ TraceInv
    /\ CallInv
    /\ ReceiptIsComplete
    /\ OutputIsFinal
    /\ NeverCorrupt

USE EmitAssumption
USE DEF traceVars, dirVars, emitVars, callVars, Reads, Goto, Finish

-----------------------------------------------------------------------------
(* The initial states *)

LEMMA InitInv == Init => IInv
<1>. SUFFICES ASSUME Init PROVE IInv
  OBVIOUS
<1>. USE DEF Init
<1>1. dir \in Dir /\ emit \in Emit
  BY DEF Dir, Emit
<1>2. FilesOK
  BY <1>1 DEF FilesOK
<1>3. TraceOK
  BY DEF TraceOK
<1>4. CallsOK
  BY DEF CallsOK
<1>5. TraceInv
  BY DEF TraceInv, TraceCoversSnapshot
<1>6. CallInv
  BY DEF CallInv, CallOK, Active, Holding, HasDraft, HasReport, HasReceipt
<1>7. ReceiptIsComplete /\ OutputIsFinal /\ NeverCorrupt
  BY DEF ReceiptIsComplete, OutputIsFinal, NeverCorrupt
<1>. QED BY <1>2, <1>3, <1>4, <1>5, <1>6, <1>7 DEF IInv, TypeOK

-----------------------------------------------------------------------------
(* The Worker: while it lives, no call of emit is in progress. *)

\* The steps of a living Worker leave the calls and their files alone.
LEMMA WorkerLeavesCalls ==
  ASSUME IInv, alive, UNCHANGED <<emitVars, callVars>>
  PROVE  CallsOK' /\ CallInv' /\ ReceiptIsComplete' /\ OutputIsFinal' /\ NeverCorrupt'
<1>1. \A e \in Emitter : pc[e] = "idle"
  BY DEF IInv, CallInv, CallOK
<1>2. CallInv'
  BY <1>1 DEF CallInv, CallOK, Active, Holding, HasDraft, HasReport, HasReceipt
<1>3. CallsOK'
  BY DEF IInv, TypeOK, CallsOK
<1>. QED BY <1>2, <1>3 DEF IInv, ReceiptIsComplete, OutputIsFinal, NeverCorrupt

LEMMA OpenTraceStep == ASSUME IInv, OpenTrace PROVE IInv'
<1>. USE DEF OpenTrace, ChangeDir
<1>1. TraceOK' /\ UNCHANGED <<disk, persisted>>
  BY DEF IInv, TypeOK, TraceOK
<1>2. dir' \in Dir /\ dir'.trace /\ dir'.snap = dir.snap
  BY DEF IInv, TypeOK, FilesOK, Dir
<1>3. FilesOK'
  BY <1>2 DEF IInv, TypeOK, FilesOK
<1>4. TraceInv'
  BY <1>2 DEF IInv, TypeOK, FilesOK, TraceInv, TraceCoversSnapshot
<1>. QED BY <1>1, <1>3, <1>4, WorkerLeavesCalls DEF IInv, TypeOK

\* What the three kinds of append share: the files stay as they are.
LEMMA AppendStep ==
  ASSUME IInv, Appends, TraceOK', torn' \in BOOLEAN, disk <= disk',
         persisted' <= disk' \/ UNCHANGED persisted
  PROVE  IInv'
<1>. USE DEF Appends
<1>1. FilesOK'
  BY DEF IInv, TypeOK, FilesOK
<1>2. disk \in Int /\ disk' \in Int /\ persisted \in Int
  BY DEF IInv, TypeOK, TraceOK
<1>3. TraceCoversSnapshot'
  <2>. SUFFICES ASSUME NEW d \in dirImages, d.snap # None, d.snap.seq > 0
                PROVE  d.trace /\ d.snap.seq <= disk'
    BY DEF TraceCoversSnapshot
  <2>1. d.snap.seq \in Int
    BY DEF IInv, TypeOK, FilesOK, Dir, Snapshot
  <2>2. d.trace /\ d.snap.seq <= disk
    BY DEF IInv, TraceInv, TraceCoversSnapshot
  <2>. QED BY <2>1, <2>2, <1>2
<1>4. TraceInv'
  BY <1>2, <1>3 DEF IInv, TraceInv
<1>. QED BY <1>1, <1>4, WorkerLeavesCalls DEF IInv, TypeOK

LEMMA AppendBufferedStep == ASSUME IInv, AppendBuffered PROVE IInv'
<1>. USE DEF AppendBuffered
<1>1. PICK n \in 0..(buffered + 1) : lines' = lines + n /\ buffered' = buffered + 1 - n
  OBVIOUS
<1>2. TraceOK /\ lines + buffered < MaxEvents /\ UNCHANGED <<disk, persisted>>
  BY DEF IInv, TypeOK, Appends
<1>3. TraceOK' /\ disk <= disk'
  BY <1>1, <1>2 DEF TraceOK
<1>4. torn' \in BOOLEAN
  OBVIOUS
<1>. QED BY <1>2, <1>3, <1>4, AppendStep

LEMMA AppendFlushStep == ASSUME IInv, AppendFlush PROVE IInv'
<1>. USE DEF AppendFlush, WritesOut
<1>1. TraceOK /\ lines + buffered < MaxEvents /\ UNCHANGED <<disk, persisted>>
  BY DEF IInv, TypeOK, Appends
<1>2. TraceOK' /\ disk <= disk'
  BY <1>1 DEF TraceOK
<1>. QED BY <1>1, <1>2, AppendStep

LEMMA AppendFsyncStep == ASSUME IInv, AppendFsync PROVE IInv'
<1>. USE DEF AppendFsync, WritesOut
<1>1. TraceOK /\ lines + buffered < MaxEvents
  BY DEF IInv, TypeOK, Appends
<1>2. TraceOK' /\ disk <= disk' /\ persisted' <= disk'
  BY <1>1 DEF TraceOK
<1>. QED BY <1>2, AppendStep

LEMMA PersistStep == ASSUME IInv, NEW f \in Fact, Persist(f) PROVE IInv'
<1>. USE DEF Persist, ChangeDir
<1>. DEFINE new == [seq |-> persisted, fact |-> f]
<1>1. new \in Snapshot
  BY DEF IInv, TypeOK, TraceOK, Snapshot
<1>2. dir' \in Dir /\ dir'.snap = new /\ dir'.trace = dir.trace
  BY <1>1 DEF IInv, TypeOK, FilesOK, Dir
<1>3. FilesOK' /\ TraceOK'
  BY <1>2 DEF IInv, TypeOK, FilesOK, TraceOK
<1>4. TraceInv'
  <2>1. dir'.snap.seq > 0 => dir'.trace /\ dir'.snap.seq <= disk
    BY <1>2 DEF IInv, TraceInv
  <2>. QED BY <1>2, <2>1 DEF IInv, TraceInv, TraceCoversSnapshot
<1>. QED BY <1>3, <1>4, WorkerLeavesCalls DEF IInv, TypeOK

\* The steps that change at most whether the Worker lives, its buffer and the
\* images of its directory.
LEMMA QuietStep ==
  ASSUME IInv, alive, UNCHANGED <<lines, torn, disk, persisted, dir, emitVars, callVars>>,
         alive' \in BOOLEAN, wpc' \in {"run", "persist"},
         buffered' \in {0, buffered}, dirImages' \in {dirImages, {dir}}
  PROVE  IInv'
<1>1. TraceOK'
  BY DEF IInv, TypeOK, TraceOK
<1>2. FilesOK'
  BY DEF IInv, TypeOK, FilesOK
<1>3. TraceInv'
  BY DEF IInv, TypeOK, FilesOK, TraceInv, TraceCoversSnapshot
<1>. QED BY <1>1, <1>2, <1>3, WorkerLeavesCalls DEF IInv, TypeOK

-----------------------------------------------------------------------------
(* Calls of emit *)

\* A call changes nothing that belongs to the Worker.
LEMMA CallLeavesTrace ==
  ASSUME IInv, Reads
  PROVE  TraceOK' /\ TraceInv' /\ dirImages' \subseteq Dir /\ dir' \in dirImages'
  BY DEF IInv, TypeOK, TraceOK, FilesOK, TraceInv, TraceCoversSnapshot

\* A step that leaves the three output files alone has to answer for the
\* state of its own call only.
LEMMA ReadStep ==
  ASSUME IInv, Reads, UNCHANGED <<emitVars, raised, wrote>>, CallsOK', CallInv'
  PROVE  IInv'
<1>1. FilesOK'
  BY DEF IInv, TypeOK, FilesOK
<1>. QED BY <1>1, CallLeavesTrace
         DEF IInv, TypeOK, ReceiptIsComplete, OutputIsFinal, NeverCorrupt

LEMMA FinishType == ASSUME CallsOK, NEW e \in Emitter, Finish(e),
                           UNCHANGED <<raised, wrote>>
                    PROVE  CallsOK'
  BY DEF CallsOK

\* Where call e stands after a step of its own.
LEMMA OwnStep ==
  ASSUME IInv, NEW e \in Emitter, NEW w, Goto(e, w)
  PROVE  /\ pc'[e] = w
         /\ \A x \in Emitter \ {e} : pc'[x] = pc[x]
  BY DEF IInv, TypeOK, CallsOK

\* seen changes for call e only.
OwnSeen(e) == \/ UNCHANGED seen
              \/ \E v : seen' = [seen EXCEPT ![e] = v]

LEMMA OthersStay ==
  ASSUME IInv, NEW e \in Emitter, NEW w, Goto(e, w), OwnSeen(e),
         UNCHANGED <<alive, dir, emitVars>>, CallOK(e)'
  PROVE  CallInv'
<1>. SUFFICES ASSUME NEW x \in Emitter, x # e PROVE CallOK(x)'
  BY DEF CallInv
<1>1. pc'[x] = pc[x] /\ seen'[x] = seen[x]
  BY DEF IInv, TypeOK, CallsOK, OwnSeen
<1>. QED BY <1>1 DEF IInv, CallInv, CallOK

LEMMA FinishCalls ==
  ASSUME IInv, NEW e \in Emitter, Finish(e), Reads, UNCHANGED emitVars
  PROVE  CallInv'
<1>1. pc'[e] = "idle"
  BY OwnStep
<1>2. CallOK(e)'
  BY <1>1 DEF CallOK, Active, Holding, HasDraft, HasReport, HasReceipt
<1>. QED BY <1>2, OthersStay DEF OwnSeen

LEMMA BeginStep == ASSUME IInv, NEW e \in Emitter, Begin(e) PROVE IInv'
<1>. USE DEF Begin
<1>1. emit.receipt \in Fact \cup {None}
  BY DEF IInv, TypeOK, FilesOK, Emit
<1>2. CallsOK'
  BY <1>1 DEF IInv, TypeOK, CallsOK
<1>3. CallOK(e)'
  BY DEF IInv, TypeOK, CallsOK, CallOK, Active, Holding, HasDraft, HasReport, HasReceipt
<1>4. CallInv'
  BY <1>3, OthersStay DEF OwnSeen
<1>. QED BY <1>2, <1>4, ReadStep

\* A receipt that is found fits its draft, so the call returns.
LEMMA CompareStep == ASSUME IInv, NEW e \in Emitter, Compare(e) PROVE IInv'
<1>. USE DEF Compare
<1>1. emit.draft = seen[e]
  BY DEF IInv, TypeOK, FilesOK, CallInv, CallOK, ReceiptIsComplete
<1>. QED BY <1>1, FinishType, FinishCalls, ReadStep DEF IInv, TypeOK

\* Raising for want of a snapshot is the one refusal NeverCorrupt allows.
LEMMA LoadStep == ASSUME IInv, NEW e \in Emitter, Load(e) PROVE IInv'
<1>. USE DEF Load, Loaded, Raise
<1>1. CASE dir.snap = None
  <2>1. Finish(e) /\ raised' = raised \cup {"no snapshot"} /\ UNCHANGED <<emitVars, wrote>>
    BY <1>1
  <2>2. CallsOK'
    BY <2>1 DEF IInv, TypeOK, CallsOK
  <2>3. CallInv'
    BY <2>1, FinishCalls
  <2>4. FilesOK' /\ NeverCorrupt'
    BY <2>1 DEF IInv, TypeOK, FilesOK, NeverCorrupt
  <2>. QED BY <2>1, <2>2, <2>3, <2>4, CallLeavesTrace
           DEF IInv, TypeOK, ReceiptIsComplete, OutputIsFinal
<1>2. CASE dir.snap # None
  <2>1. dir.snap \in Snapshot
    BY <1>2 DEF IInv, TypeOK, FilesOK, Dir
  <2>2. seen' = [seen EXCEPT ![e] = dir.snap] /\ Goto(e, "read")
        /\ UNCHANGED <<emitVars, raised, wrote>>
    BY <1>2
  <2>3. CallsOK'
    BY <2>1, <2>2 DEF IInv, TypeOK, CallsOK
  <2>4. CallOK(e)'
    BY <1>2, <2>2 DEF IInv, TypeOK, CallsOK, CallInv, CallOK,
                      Active, Holding, HasDraft, HasReport, HasReceipt
  <2>5. CallInv'
    BY <2>2, <2>4, OthersStay DEF OwnSeen
  <2>. QED BY <2>2, <2>3, <2>5, ReadStep
<1>. QED BY <1>1, <1>2

LEMMA Counts == ASSUME TraceOK
                PROVE  lines \in Nat /\ disk \in Nat /\ disk <= lines
  BY DEF TraceOK

LEMMA SnapshotIsCovered ==
  ASSUME IInv, dir.snap # None PROVE ~(dir.snap.seq > Recovered)
<1>. DEFINE n == dir.snap.seq
<1>1. dir \in Dir /\ dir \in dirImages
  BY DEF IInv, TypeOK, FilesOK
<1>2. dir.snap \in Snapshot
  BY <1>1 DEF Dir
<1>3. n \in 0..MaxEvents
  BY <1>2 DEF Snapshot
<1>4. n > 0 => dir.trace /\ n <= disk
  BY <1>1 DEF IInv, TraceInv, TraceCoversSnapshot
<1>5. lines \in Nat /\ disk \in Nat /\ disk <= lines
  BY Counts DEF IInv, TypeOK
<1>. HIDE DEF n
<1>6. n <= Recovered
  BY <1>3, <1>4, <1>5 DEF Recovered, WholeLines
<1>7. Recovered \in Nat
  BY <1>5 DEF Recovered, WholeLines
<1>8. ~(n > Recovered)
  BY <1>3, <1>6, <1>7
<1>. QED BY <1>8 DEF n

\* The trace covers the snapshot, so the call goes on.
LEMMA ReadTraceStep == ASSUME IInv, NEW e \in Emitter, ReadTrace(e) PROVE IInv'
<1>. USE DEF ReadTrace
<1>1. dir.snap # None /\ seen[e] = dir.snap
  BY DEF IInv, CallInv, CallOK, Holding, Active
<1>2. ~(seen[e].seq > Recovered)
  BY <1>1, SnapshotIsCovered
<1>3. Goto(e, "draft") /\ UNCHANGED <<emitVars, seen, raised, wrote>>
  BY <1>2
<1>4. CallsOK'
  BY <1>3 DEF IInv, TypeOK, CallsOK
<1>5. CallOK(e)'
  BY <1>3 DEF IInv, TypeOK, CallsOK, CallInv, CallOK,
              Active, Holding, HasDraft, HasReport, HasReceipt
<1>6. CallInv'
  BY <1>3, <1>5, OthersStay DEF OwnSeen
<1>. QED BY <1>3, <1>4, <1>6, ReadStep

\* A call that writes one of the files writes what the snapshot says, so for
\* every other call, and for every receipt, nothing changes.
LEMMA WriteStep ==
  ASSUME IInv, NEW e \in Emitter, NEW w, Goto(e, w), Reads,
         UNCHANGED <<seen, raised, wrote>>, CallsOK',
         pc[e] \in Holding,
         emit' \in Emit, emitImages' = emitImages \cup {emit'},
         emit'.draft \in {emit.draft, dir.snap.fact},
         emit'.report \in {emit.report, dir.snap},
         emit'.receipt \in {emit.receipt, dir.snap.fact},
         emit'.receipt # None => /\ emit'.draft = dir.snap.fact
                                 /\ emit'.report # None
                                 /\ emit'.report.fact = dir.snap.fact,
         CallOK(e)'
  PROVE  IInv'
<1>. DEFINE fact == dir.snap.fact
<1>1. dir.snap # None /\ emit.receipt \in {None, fact}
  BY DEF IInv, CallInv, CallOK, Holding, Active
<1>. HIDE DEF fact
<1>2. emit'.receipt \in {None, fact}
  BY <1>1 DEF fact
<1>3. emit \in emitImages
  BY DEF IInv, TypeOK, FilesOK
<1>4. FilesOK'
  BY DEF IInv, TypeOK, FilesOK
<1>5. ReceiptIsComplete'
  <2>1. emit'.receipt # None => /\ emit'.draft = emit'.receipt
                                /\ emit'.report # None
                                /\ emit'.report.fact = emit'.receipt
    BY <1>2 DEF fact
  <2>. QED BY <2>1 DEF IInv, ReceiptIsComplete
<1>6. OutputIsFinal'
  <2>. SUFFICES ASSUME NEW f \in wrote, NEW d \in emitImages'
                PROVE  d.receipt = f /\ d.draft = f
    BY DEF OutputIsFinal
  <2>1. CASE d \in emitImages
    BY <2>1 DEF IInv, OutputIsFinal
  <2>2. CASE d = emit'
    <3>1. emit.receipt = f /\ emit.draft = f
      BY <1>3 DEF IInv, OutputIsFinal
    <3>2. f # None
      BY ZenonT(30) DEF IInv, TypeOK, CallsOK
    <3>3. f = fact
      BY <1>1, <3>1, <3>2
    <3>. QED BY <2>2, <3>1, <3>3 DEF fact
  <2>. QED BY <2>1, <2>2
<1>7. CallInv'
  <2>. SUFFICES ASSUME NEW x \in Emitter, x # e PROVE CallOK(x)'
    BY DEF CallInv
  <2>1. pc'[x] = pc[x] /\ seen'[x] = seen[x] /\ CallOK(x)
    BY OwnStep DEF IInv, CallInv
  <2>2. pc[x] = "compare" => emit'.receipt # None /\ seen[x] = emit'.receipt
    BY <1>1, <2>1 DEF CallOK, fact
  <2>3. pc[x] \in HasDraft => emit'.draft = fact
    BY <2>1 DEF CallOK, fact
  <2>4. pc[x] \in HasReport => emit'.report = dir.snap
    BY <2>1 DEF CallOK
  <2>5. pc[x] \in HasReceipt => emit'.receipt = fact
    BY <2>1 DEF CallOK, fact
  <2>6. pc[x] = "verify" => \A d \in emitImages' : d.draft = fact /\ d.receipt = fact
    <3>1. pc[x] = "verify" => pc[x] \in HasDraft /\ pc[x] \in HasReceipt
      BY DEF HasDraft, Holding, Active, HasReceipt
    <3>. QED BY <2>1, <2>3, <2>5, <3>1 DEF CallOK, fact
  <2>. QED BY <1>1, <1>2, <2>1, <2>2, <2>3, <2>4, <2>5, <2>6 DEF CallOK, fact
<1>. QED BY <1>4, <1>5, <1>6, <1>7, CallLeavesTrace DEF IInv, TypeOK, NeverCorrupt

LEMMA ReplaceStep == ASSUME IInv, NEW e \in Emitter, Replace(e) PROVE IInv'
<1>. USE DEF Replace
<1>1. pc[e] \in Holding /\ dir.snap # None /\ seen[e] = dir.snap
  BY DEF IInv, CallInv, CallOK, Holding, Active
<1>2. dir.snap \in Snapshot
  BY <1>1 DEF IInv, TypeOK, FilesOK, Dir
<1>3. dir.snap.fact \in Fact
  BY <1>2 DEF Snapshot
<1>4. /\ emit \in Emit
      /\ emit.receipt \in {None, dir.snap.fact}
  BY <1>1 DEF IInv, TypeOK, FilesOK, CallInv, CallOK, Holding
<1>5. CallOK(e) /\ emit \in emitImages
  BY DEF IInv, TypeOK, FilesOK, CallInv
<1>6. CASE pc[e] = "draft"
  <2>1. Goto(e, "draftSync") /\ emit' = [emit EXCEPT !.draft = dir.snap.fact]
    BY <1>1, <1>6 DEF After
  <2>2. /\ emit' \in Emit /\ emit'.draft = dir.snap.fact
        /\ emit'.report = emit.report /\ emit'.receipt = emit.receipt
    BY <1>3, <1>4, <2>1 DEF Emit
  <2>3. CallsOK'
    BY <2>1 DEF IInv, TypeOK, CallsOK
  <2>4. emit.receipt # None => emit.report # None /\ emit.report.fact = emit.receipt
    BY <1>5 DEF IInv, ReceiptIsComplete
  <2>5. CallOK(e)'
    BY <1>1, <1>4, <1>5, <2>1, <2>2, OwnStep
       DEF CallOK, Active, Holding, HasDraft, HasReport, HasReceipt
  <2>. QED BY <1>1, <1>4, <2>1, <2>2, <2>3, <2>4, <2>5, WriteStep
<1>7. CASE pc[e] = "report"
  <2>1. Goto(e, "reportSync") /\ emit' = [emit EXCEPT !.report = dir.snap]
    BY <1>1, <1>7 DEF After
  <2>2. /\ emit' \in Emit /\ emit'.report = dir.snap
        /\ emit'.draft = emit.draft /\ emit'.receipt = emit.receipt
    BY <1>2, <1>4, <2>1 DEF Emit
  <2>3. CallsOK'
    BY <2>1 DEF IInv, TypeOK, CallsOK
  <2>4. emit.draft = dir.snap.fact
    BY <1>5, <1>7 DEF CallOK, HasDraft, Holding, Active
  <2>5. CallOK(e)'
    BY <1>1, <1>4, <1>5, <2>1, <2>2, <2>4, OwnStep
       DEF CallOK, Active, Holding, HasDraft, HasReport, HasReceipt
  <2>. QED BY <1>1, <1>4, <2>1, <2>2, <2>3, <2>4, <2>5, WriteStep
<1>8. CASE pc[e] = "receipt"
  <2>1. Goto(e, "receiptSync") /\ emit' = [emit EXCEPT !.receipt = dir.snap.fact]
    BY <1>1, <1>8 DEF After
  <2>2. /\ emit' \in Emit /\ emit'.receipt = dir.snap.fact
        /\ emit'.draft = emit.draft /\ emit'.report = emit.report
    BY <1>3, <1>4, <2>1 DEF Emit
  <2>3. CallsOK'
    BY <2>1 DEF IInv, TypeOK, CallsOK
  <2>4. emit.draft = dir.snap.fact /\ emit.report = dir.snap
    BY <1>5, <1>8 DEF CallOK, HasDraft, HasReport, Holding, Active
  <2>5. CallOK(e)'
    BY <1>1, <1>5, <2>1, <2>2, <2>4, OwnStep
       DEF CallOK, Active, Holding, HasDraft, HasReport, HasReceipt
  <2>. QED BY <1>1, <2>1, <2>2, <2>3, <2>4, <2>5, WriteStep
<1>. QED BY <1>6, <1>7, <1>8

\* An fsync narrows what a power loss may leave to the files as they are.
LEMMA SyncStep == ASSUME IInv, NEW e \in Emitter, Sync(e) PROVE IInv'
<1>. USE DEF Sync
<1>1. Goto(e, After(pc[e])) /\ emit \in emitImages /\ emitImages' \subseteq emitImages
  BY DEF IInv, TypeOK, FilesOK
<1>2. After(pc[e]) \in {"report", "receipt", "verify"}
  BY DEF After
<1>3. CallsOK'
  BY <1>1, <1>2 DEF IInv, TypeOK, CallsOK
<1>4. FilesOK' /\ ReceiptIsComplete' /\ OutputIsFinal'
  BY <1>1 DEF IInv, TypeOK, FilesOK, ReceiptIsComplete, OutputIsFinal
<1>5. CallOK(e)'
  <2>1. CallOK(e) /\ pc'[e] = After(pc[e])
    BY <1>1, OwnStep DEF IInv, CallInv
  <2>2. CASE pc[e] = "draftSync"
    <3>1. pc'[e] = "report"
      BY <2>1, <2>2 DEF After
    <3>. QED BY <2>1, <2>2, <3>1
             DEF CallOK, Active, Holding, HasDraft, HasReport, HasReceipt
  <2>3. CASE pc[e] = "reportSync"
    <3>1. pc'[e] = "receipt"
      BY <2>1, <2>3 DEF After
    <3>. QED BY <2>1, <2>3, <3>1
             DEF CallOK, Active, Holding, HasDraft, HasReport, HasReceipt
  <2>4. CASE pc[e] = "receiptSync"
    <3>1. pc'[e] = "verify"
      BY <2>1, <2>4 DEF After
    <3>. QED BY <2>1, <2>4, <3>1
             DEF CallOK, Active, Holding, HasDraft, HasReport, HasReceipt
  <2>. QED BY <2>2, <2>3, <2>4
<1>6. CallInv'
  <2>. SUFFICES ASSUME NEW x \in Emitter, x # e PROVE CallOK(x)'
    BY <1>5 DEF CallInv
  <2>1. pc'[x] = pc[x] /\ CallOK(x)
    BY <1>1, OwnStep DEF IInv, CallInv
  <2>. QED BY <1>1, <2>1 DEF CallOK
<1>. QED BY <1>3, <1>4, <1>6, CallLeavesTrace DEF IInv, TypeOK, NeverCorrupt

\* A call that fails or dies leaves the files where they are.
LEMMA AbandonStep ==
  ASSUME IInv, NEW e \in Emitter, Finish(e), Reads, UNCHANGED <<emitVars, raised, wrote>>
  PROVE  IInv'
  BY FinishType, FinishCalls, ReadStep DEF IInv, TypeOK

\* The draft that is read back is the one the receipt stands for, and every
\* image of the directory holds both.
LEMMA VerifyStep == ASSUME IInv, NEW e \in Emitter, Verify(e) PROVE IInv'
<1>. USE DEF Verify
<1>1. CallOK(e) /\ pc[e] \in Holding /\ pc[e] \in HasDraft
  BY DEF IInv, CallInv, HasDraft, Holding, Active
<1>2. /\ dir.snap # None /\ seen[e] = dir.snap /\ emit.draft = dir.snap.fact
      /\ \A d \in emitImages : d.draft = emit.draft /\ d.receipt = emit.draft
  BY <1>1 DEF CallOK
<1>3. Finish(e) /\ wrote' = wrote \cup {emit.draft} /\ UNCHANGED <<emitVars, raised>>
  BY <1>2
<1>4. emit.draft \in Fact
  BY <1>2 DEF IInv, TypeOK, FilesOK, Dir, Snapshot
<1>5. CallsOK'
  BY <1>3, <1>4 DEF IInv, TypeOK, CallsOK
<1>6. OutputIsFinal'
  BY <1>2, <1>3 DEF IInv, OutputIsFinal
<1>7. FilesOK' /\ CallInv'
  BY <1>3, FinishCalls DEF IInv, TypeOK, FilesOK
<1>. QED BY <1>3, <1>5, <1>6, <1>7, CallLeavesTrace
         DEF IInv, TypeOK, ReceiptIsComplete, NeverCorrupt

-----------------------------------------------------------------------------
(* Faults, and the next-state relation *)

\* The trace a power loss leaves is a prefix that has all that was on disk.
LEMMA TraceAfterPowerLoss ==
  ASSUME TraceOK, disk' = lines', buffered' = 0, UNCHANGED persisted,
         lines' \in disk..lines \/ lines' = 0
  PROVE  TraceOK' /\ (lines' \in disk..lines => disk <= disk')
  BY DEF TraceOK

\* What a power loss leaves is one of the images, and the trace keeps all that
\* was on disk.
LEMMA PowerLossStep == ASSUME IInv, PowerLoss PROVE IInv'
<1>. USE DEF PowerLoss
<1>1. FilesOK'
  BY DEF IInv, TypeOK, FilesOK
<1>2. CallsOK'
  BY DEF IInv, TypeOK, CallsOK
<1>3. TraceOK
  BY DEF IInv, TypeOK
<1>4. disk' = lines' /\ buffered' = 0 /\ UNCHANGED persisted
      /\ lines' \in IF dir'.trace THEN disk..lines ELSE {0}
  OBVIOUS
<1>5. TraceOK' /\ (dir'.trace => disk <= disk')
  BY <1>3, <1>4, TraceAfterPowerLoss
<1>6. TraceInv'
  <2>. SUFFICES ASSUME dir'.snap # None, dir'.snap.seq > 0
                PROVE  dir'.trace /\ dir'.snap.seq <= disk'
    BY DEF TraceInv, TraceCoversSnapshot
  <2>1. dir'.trace /\ dir'.snap.seq <= disk
    BY DEF IInv, TraceInv, TraceCoversSnapshot
  <2>2. dir'.snap.seq \in Int
    BY DEF IInv, TypeOK, FilesOK, Dir, Snapshot
  <2>3. disk \in Int /\ disk' \in Int
    BY <1>3, <1>5 DEF TraceOK
  <2>. QED BY ONLY <1>5, <2>1, <2>2, <2>3
<1>7. CallInv'
  BY DEF CallInv, CallOK, Active, Holding, HasDraft, HasReport, HasReceipt
<1>8. ReceiptIsComplete' /\ OutputIsFinal' /\ NeverCorrupt'
  BY DEF IInv, ReceiptIsComplete, OutputIsFinal, NeverCorrupt
<1>9. alive' \in BOOLEAN /\ torn' \in BOOLEAN /\ wpc' \in {"run", "persist"}
  OBVIOUS
<1>. QED BY <1>1, <1>2, <1>5, <1>6, <1>7, <1>8, <1>9 DEF IInv, TypeOK

LEMMA StutterStep == ASSUME IInv, UNCHANGED vars PROVE IInv'
<1>. USE DEF vars
<1>1. CallsOK'
  BY DEF IInv, TypeOK, CallsOK
<1>2. CallInv'
  BY DEF IInv, CallInv, CallOK
<1>. QED BY <1>1, <1>2, ReadStep

LEMMA NextInv == IInv /\ [Next]_vars => IInv'
<1>. SUFFICES ASSUME IInv, [Next]_vars PROVE IInv'
  OBVIOUS
<1>1. CASE Worker
  <2>1. CASE OpenTrace
    BY <2>1, OpenTraceStep
  <2>2. CASE AppendBuffered
    BY <2>2, AppendBufferedStep
  <2>3. CASE AppendFlush
    BY <2>3, AppendFlushStep
  <2>4. CASE AppendFsync
    BY <2>4, AppendFsyncStep
  <2>5. ASSUME NEW f \in Fact, Persist(f) PROVE IInv'
    BY <2>5, PersistStep
  <2>6. CASE PersistSynced
    BY <2>6, QuietStep DEF PersistSynced
  <2>7. CASE PersistRaises
    BY <2>7, QuietStep DEF PersistRaises
  <2>8. CASE Die
    BY <2>8, QuietStep DEF Die
  <2>. QED BY <1>1, <2>1, <2>2, <2>3, <2>4, <2>5, <2>6, <2>7, <2>8 DEF Worker
<1>2. ASSUME NEW e \in Emitter, EmitStep(e) PROVE IInv'
  <2>1. CASE Begin(e)
    BY <2>1, BeginStep
  <2>2. CASE Compare(e)
    BY <2>2, CompareStep
  <2>3. CASE Load(e)
    BY <2>3, LoadStep
  <2>4. CASE ReadTrace(e)
    BY <2>4, ReadTraceStep
  <2>5. CASE Replace(e)
    BY <2>5, ReplaceStep
  <2>6. CASE Sync(e)
    BY <2>6, SyncStep
  <2>7. CASE WriteRaises(e)
    BY <2>7, AbandonStep DEF WriteRaises
  <2>8. CASE Verify(e)
    BY <2>8, VerifyStep
  <2>. QED BY <1>2, <2>1, <2>2, <2>3, <2>4, <2>5, <2>6, <2>7, <2>8 DEF EmitStep
<1>3. ASSUME NEW e \in Emitter, CrashEmitter(e) PROVE IInv'
  BY <1>3, AbandonStep DEF CrashEmitter
<1>4. CASE PowerLoss
  BY <1>4, PowerLossStep
<1>5. CASE UNCHANGED vars
  BY <1>5, StutterStep
<1>. QED BY <1>1, <1>2, <1>3, <1>4, <1>5 DEF Next

\* The invariant the theorems below are read off: every reachable state of the
\* Worker's files and of all calls of emit satisfies IInv.
THEOREM Inductive == Spec => []IInv
<1>. QED BY InitInv, NextInv, PTL DEF Spec

\* Every variable keeps its type (the state the dataclasses of
\* emergency_snapshot.py and emergency_emitter.py describe).
THEOREM TypeCorrect == Spec => []TypeOK
<1>1. IInv => TypeOK
  BY DEF IInv
<1>. QED BY <1>1, Inductive, PTL

\* EmergencySnapshotStore.persist never publishes, and no crash or power loss
\* ever leaves, a snapshot that is ahead of the fsynced trace.
THEOREM TraceCovered == Spec => []TraceCoversSnapshot
<1>1. IInv => TraceCoversSnapshot
  BY DEF IInv, TraceInv
<1>. QED BY <1>1, Inductive, PTL

\* EmergencyEmitter.emit writes the receipt last: wherever any number of calls
\* are interrupted, a receipt that is there has its draft and its report.
THEOREM ReceiptComplete == Spec => []ReceiptIsComplete
<1>1. IInv => ReceiptIsComplete
  BY DEF IInv
<1>. QED BY <1>1, Inductive, PTL

\* The output whose receipt a call of emit has written and returned is never
\* replaced and never lost.
THEOREM OutputFinal == Spec => []OutputIsFinal
<1>1. IInv => OutputIsFinal
  BY DEF IInv
<1>. QED BY <1>1, Inductive, PTL

\* emit never takes what a crash has left for corrupt: a missing snapshot is
\* the one reason for which it refuses.
THEOREM NoCorruption == Spec => []NeverCorrupt
<1>1. IInv => NeverCorrupt
  BY DEF IInv
<1>. QED BY <1>1, Inductive, PTL
=============================================================================
