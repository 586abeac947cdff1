--------------------------- MODULE MinimalRuntime ---------------------------
(***************************************************************************)
(* MinimalRuntime.run (core/runtime.py): the phases of a run, its trace,   *)
(* its browser session, and the four files it ends with.  Several          *)
(* processes have a runtime each and share the run directory; a call or a  *)
(* write may raise, a process may die, power may fail.                     *)
(*                                                                         *)
(* A file, or a task session, is represented by the attempt that made it,  *)
(* 0 if there is none.                                                     *)
(* After a power loss a directory is in one of the states it went through  *)
(* since its last fsync; the directories themselves are there.             *)
(***************************************************************************)
EXTENDS Integers, Sequences

CONSTANTS
    Runner,        \* processes with a runtime and a browser
    Execution,
    MaxAttempts,   \* bound: calls of run
    MayLosePower

ASSUME RuntimeAssumption ==
    /\ MaxAttempts \in Nat
    /\ MayLosePower \in BOOLEAN

VARIABLES
    attempts,     \* calls of run so far
    at,           \* at[r]: how far along Path the run of r is, 0 if there is none
    run,          \* run[r]: its execution and its number
    session,      \* session[r]: the run whose task session the browser of r has
    phases,       \* phases[x]: phase events in the trace of x
    top,          \* top[x]: the files in run/<x>
    topImages,
    out,          \* out[x]: the files in run/<x>/emit
    outImages,
    returned      \* history: the runs that have returned a result

runVars == <<at, run, session>>
topVars == <<top, topImages>>
outVars == <<out, outImages>>
vars == <<attempts, runVars, phases, topVars, outVars, returned>>

Phases == <<"ANALYZE", "NAVIGATE", "PREPARE_FINAL_STATE", "TERMINAL_DECISION",
            "SERIALIZE", "EMIT">>

\* MUTANT: the receipt is written before the draft.
ReceiptFirst ==
    <<"ANALYZE", "NAVIGATE", "create", "work", "close",
      "PREPARE_FINAL_STATE", "TERMINAL_DECISION", "SERIALIZE", "EMIT",
      "manifest", "topSync", "summary", "topSync",
      "receipt", "outSync", "draft", "outSync", "verify">>

Path ==
    <<"ANALYZE", "NAVIGATE", "create", "work", "close",
      "PREPARE_FINAL_STATE", "TERMINAL_DECISION", "SERIALIZE", "EMIT",
      "manifest", "topSync", "summary", "topSync",
      "draft", "outSync", "receipt", "outSync", "verify">>

Attempt == 0..MaxAttempts
Top == [trace : Attempt, manifest : Attempt, summary : Attempt]
Out == [draft : Attempt, receipt : Attempt]

TypeOK ==
    /\ attempts \in Attempt
    /\ at \in [Runner -> 0..Len(Path)]
    /\ run \in [Runner -> [x : Execution, n : Attempt]]
    /\ session \in [Runner -> Attempt]
    /\ phases \in [Execution -> 0..Len(Phases)]
    /\ top \in [Execution -> Top] /\ topImages \in [Execution -> SUBSET Top]
    /\ out \in [Execution -> Out] /\ outImages \in [Execution -> SUBSET Out]
    /\ returned \subseteq Execution \X Attempt

NoTop == [trace |-> 0, manifest |-> 0, summary |-> 0]
NoOut == [draft |-> 0, receipt |-> 0]

Init ==
    /\ attempts = 0
    /\ at = [r \in Runner |-> 0]
    /\ run \in [Runner -> [x : Execution, n : {0}]]
    /\ session = [r \in Runner |-> 0]
    /\ phases = [x \in Execution |-> 0]
    /\ top = [x \in Execution |-> NoTop]
    /\ topImages = [x \in Execution |-> {NoTop}]
    /\ out = [x \in Execution |-> NoOut]
    /\ outImages = [x \in Execution |-> {NoOut}]
    /\ returned = {}

-----------------------------------------------------------------------------
(* run *)

ChangeTop(x, t) ==
    /\ top' = [top EXCEPT ![x] = t]
    /\ topImages' = [topImages EXCEPT ![x] = @ \cup {t}]

\* MUTANT: the trace is opened for appending, whether it is there or not.
AppendToTrace(r, x) ==
    /\ at[r] = 0
    /\ attempts < MaxAttempts
    /\ attempts' = attempts + 1
    /\ run' = [run EXCEPT ![r] = [x |-> x, n |-> attempts']]
    /\ at' = [at EXCEPT ![r] = 1]
    /\ ChangeTop(x, [top[x] EXCEPT !.trace = attempts'])
    /\ UNCHANGED <<session, phases, outVars, returned>>

\* TraceWriter opens the trace with "xb": if it is there, run raises.
Start(r, x) ==
    /\ at[r] = 0
    /\ attempts < MaxAttempts
    /\ attempts' = attempts + 1
    /\ IF top[x].trace = 0
       THEN /\ run' = [run EXCEPT ![r] = [x |-> x, n |-> attempts']]
            /\ at' = [at EXCEPT ![r] = 1]
            /\ ChangeTop(x, [top[x] EXCEPT !.trace = attempts'])
            /\ phases' = [phases EXCEPT ![x] = 0]
       ELSE UNCHANGED <<run, at, topVars, phases>>
    /\ UNCHANGED <<session, outVars, returned>>

Reached(r, steps) == at[r] # 0 /\ Path[at[r]] \in steps

Advance(r) == at' = [at EXCEPT ![r] = @ + 1]

\* _enter_phase: the event is fsynced.  ANALYZE also asks for capabilities and,
\* if there is a budget, fsyncs an event about it, which is not in the model.
EnterPhase(r) ==
    /\ Reached(r, {Phases[i] : i \in DOMAIN Phases})
    /\ Advance(r)
    /\ phases' = [phases EXCEPT ![run[r].x] = @ + 1]
    /\ UNCHANGED <<attempts, run, session, topVars, outVars, returned>>

HasSession(r, n) == session' = [session EXCEPT ![r] = n]

\* MUTANT: a session that is there already is taken for the run's own.
ReuseSession(r) ==
    /\ Reached(r, {"create", "work", "close"})
    /\ HasSession(r, CASE Path[at[r]] = "create" /\ session[r] = 0 -> run[r].n
                       [] Path[at[r]] = "close" -> 0
                       [] OTHER -> session[r])
    /\ Advance(r)
    /\ UNCHANGED <<attempts, run, phases, topVars, outVars, returned>>

\* create_task_session, observe and complete, close_task_session
Browse(r) ==
    /\ Reached(r, {"create", "work", "close"})
    /\ CASE Path[at[r]] = "create" -> session[r] = 0 /\ HasSession(r, run[r].n)
         [] Path[at[r]] = "work" -> session[r] # 0 /\ UNCHANGED session
         [] Path[at[r]] = "close" -> HasSession(r, 0)
    /\ Advance(r)
    /\ UNCHANGED <<attempts, run, phases, topVars, outVars, returned>>

\* os.replace of a temporary file that is complete and fsynced
WriteTop(r) ==
    /\ Reached(r, {"manifest", "summary"})
    /\ Advance(r)
    /\ ChangeTop(run[r].x, [top[run[r].x] EXCEPT ![Path[at[r]]] = run[r].n])
    /\ UNCHANGED <<attempts, run, session, phases, outVars, returned>>

WriteOut(r) ==
    /\ Reached(r, {"draft", "receipt"})
    /\ Advance(r)
    /\ LET x == run[r].x
       IN  /\ out' = [out EXCEPT ![x][Path[at[r]]] = run[r].n]
           /\ outImages' = [outImages EXCEPT ![x] = @ \cup {out'[x]}]
    /\ UNCHANGED <<attempts, run, session, phases, topVars, returned>>

\* MUTANT: the directory is not fsynced.
SkipSync(r) ==
    /\ Reached(r, {"topSync", "outSync"})
    /\ Advance(r)
    /\ UNCHANGED <<attempts, run, session, phases, topVars, outVars, returned>>

\* _fsync_directory
Sync(r) ==
    /\ Reached(r, {"topSync", "outSync"})
    /\ Advance(r)
    /\ LET x == run[r].x
       IN  IF Path[at[r]] = "topSync"
           THEN topImages' = [topImages EXCEPT ![x] = {top[x]}] /\ UNCHANGED outImages
           ELSE outImages' = [outImages EXCEPT ![x] = {out[x]}] /\ UNCHANGED topImages
    /\ UNCHANGED <<attempts, run, session, phases, top, out, returned>>

\* _verify_written_draft, and the result is returned
Return(r) ==
    /\ Reached(r, {"verify"})
    /\ out[run[r].x].draft = run[r].n
    /\ at' = [at EXCEPT ![r] = 0]
    /\ returned' = returned \cup {<<run[r].x, run[r].n>>}
    /\ UNCHANGED <<attempts, run, session, phases, topVars, outVars>>

\* A port or a file raises, wherever the run stands: it ends there, and there is
\* no finally that would close the task session.  A close that raises has closed
\* it; a create that raises in the capability probe has made one.
Raise(r) ==
    /\ at[r] # 0
    /\ at' = [at EXCEPT ![r] = 0]
    /\ \/ Path[at[r]] # "close" /\ UNCHANGED session
       \/ Path[at[r]] = "close" /\ HasSession(r, 0)
       \/ Path[at[r]] = "create" /\ session[r] = 0 /\ HasSession(r, run[r].n)
    /\ UNCHANGED <<attempts, run, phases, topVars, outVars, returned>>

-----------------------------------------------------------------------------
(* Faults *)

\* The process dies, its successor has a new browser.
Crash(r) ==
    /\ at[r] # 0 \/ session[r] # 0
    /\ at' = [at EXCEPT ![r] = 0]
    /\ HasSession(r, 0)
    /\ UNCHANGED <<attempts, run, phases, topVars, outVars, returned>>

OneOfEach(images) ==
    {f \in [Execution -> UNION {images[x] : x \in Execution}] :
        \A x \in Execution : f[x] \in images[x]}

PowerLoss ==
    /\ MayLosePower
    /\ at' = [r \in Runner |-> 0]
    /\ session' = [r \in Runner |-> 0]
    /\ top' \in OneOfEach(topImages)
    /\ topImages' = [x \in Execution |-> {top'[x]}]
    /\ out' \in OneOfEach(outImages)
    /\ outImages' = [x \in Execution |-> {out'[x]}]
    /\ UNCHANGED <<attempts, run, phases, returned>>

Next ==
    \/ \E r \in Runner :
          \/ \E x \in Execution : Start(r, x)
          \/ EnterPhase(r) \/ Browse(r)
          \/ WriteTop(r) \/ WriteOut(r) \/ Sync(r) \/ Return(r)
          \/ Raise(r) \/ Crash(r)
    \/ PowerLoss

Spec == Init /\ [][Next]_vars

-----------------------------------------------------------------------------
(* Properties *)

\* A receipt is the last thing a run leaves: wherever it, or anything else,
\* was interrupted, and whatever a power loss takes, the receipt has beside it
\* the trace with every phase, the manifest, the summary and the draft, all of
\* the same run, never of an earlier attempt at the same execution.
ReceiptIsLast ==
    \A x \in Execution : \A o \in outImages[x] : o.receipt # 0 =>
        /\ o.draft = o.receipt
        /\ \A t \in topImages[x] : t = [trace |-> o.receipt, manifest |-> o.receipt,
                                        summary |-> o.receipt]
        /\ phases[x] = Len(Phases)

\* What run has returned stays on disk: nothing that happens later, another
\* run of the same execution or a power loss, replaces or removes it.
ReturnedIsFinal ==
    \A p \in returned : \A o \in outImages[p[1]] : o.receipt = p[2]

\* A run works in the task session it has created itself, never in one that an
\* earlier run with the same browser has left open, and a run that returns leaves
\* none.  A run that raises does leave its own: architecture 9.3 asks for the
\* context to be closed after the task, but run closes it only behind complete,
\* and as long as that session is open every later run of the browser ends at
\* create_task_session.
SessionIsOwn ==
    \A r \in Runner :
        /\ Reached(r, {"work", "close"}) => session[r] = run[r].n
        /\ \A x \in Execution : <<x, session[r]>> \notin returned
=============================================================================
