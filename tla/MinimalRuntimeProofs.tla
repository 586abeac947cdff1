------------------------ MODULE MinimalRuntimeProofs ------------------------
(***************************************************************************)
(* Proofs about MinimalRuntime, for any processes, executions and number   *)
(* of attempts, with and without power losses; and, at the end, about the  *)
(* lines of the budget that a run asks for (Budget).                       *)
(***************************************************************************)
EXTENDS MinimalRuntime, Budget, TLAPS

-----------------------------------------------------------------------------
(* The path, step by step *)

\* The phase events in the trace when a run stands before step k.
Done(k) == CASE k <= 1 -> 0
             [] k = 2 -> 1
             [] k \in 3..6 -> 2
             [] k \in 7..9 -> k - 4
             [] OTHER -> 6

LEMMA PathIs ==
    /\ Len(Path) = 18
    /\ Path[1] = "ANALYZE" /\ Path[2] = "NAVIGATE" /\ Path[3] = "create"
    /\ Path[4] = "work" /\ Path[5] = "close"
    /\ Path[6] = "PREPARE_FINAL_STATE" /\ Path[7] = "TERMINAL_DECISION"
    /\ Path[8] = "SERIALIZE" /\ Path[9] = "EMIT"
    /\ Path[10] = "manifest" /\ Path[11] = "topSync"
    /\ Path[12] = "summary" /\ Path[13] = "topSync"
    /\ Path[14] = "draft" /\ Path[15] = "outSync"
    /\ Path[16] = "receipt" /\ Path[17] = "outSync" /\ Path[18] = "verify"
BY DEF Path

LEMMA PhasesAre ==
    /\ Len(Phases) = 6
    /\ {Phases[i] : i \in DOMAIN Phases} =
         {"ANALYZE", "NAVIGATE", "PREPARE_FINAL_STATE", "TERMINAL_DECISION",
          "SERIALIZE", "EMIT"}
<1>1. Len(Phases) = 6 /\ DOMAIN Phases = 1..6
  BY DEF Phases
<1>2. /\ Phases[1] = "ANALYZE" /\ Phases[2] = "NAVIGATE"
      /\ Phases[3] = "PREPARE_FINAL_STATE" /\ Phases[4] = "TERMINAL_DECISION"
      /\ Phases[5] = "SERIALIZE" /\ Phases[6] = "EMIT"
  BY DEF Phases
<1>3. 1..6 = {1, 2, 3, 4, 5, 6}
  OBVIOUS
<1>. QED
  BY <1>1, <1>2, <1>3

\* The number of a step from its name.
LEMMA StepOf ==
    ASSUME NEW k \in 1..18
    PROVE  /\ Path[k] \in {Phases[i] : i \in DOMAIN Phases} <=> k \in {1, 2, 6, 7, 8, 9}
           /\ Path[k] = "create" <=> k = 3
           /\ Path[k] = "work" <=> k = 4
           /\ Path[k] = "close" <=> k = 5
           /\ Path[k] = "manifest" <=> k = 10
           /\ Path[k] = "summary" <=> k = 12
           /\ Path[k] = "topSync" <=> k \in {11, 13}
           /\ Path[k] = "draft" <=> k = 14
           /\ Path[k] = "receipt" <=> k = 16
           /\ Path[k] = "outSync" <=> k \in {15, 17}
           /\ Path[k] = "verify" <=> k = 18
<1>1. k \in {1,2,3,4,5,6,7,8,9,10,11,12,13,14,15,16,17,18}
  OBVIOUS
<1>. QED
  BY <1>1, PathIs, PhasesAre

-----------------------------------------------------------------------------
(* The inductive invariant *)

\* Whatever a power loss leaves, the three files of the run directory of x are
\* those of attempt n.
Settled(x, n) ==
    \A t \in topImages[x] : t.trace = n /\ t.manifest = n /\ t.summary = n

\* Whatever a power loss leaves, emit/ holds these two attempts.
OutIs(x, draft, receipt) ==
    \A o \in outImages[x] : o.draft = draft /\ o.receipt = receipt

\* What a run in progress knows of its own files.
RunOK(r) ==
    LET k == at[r]
        x == run[r].x
        n == run[r].n
    IN  k # 0 =>
          /\ n # 0
          /\ phases[x] = Done(k)
          /\ top[x].trace = n
          /\ k > 10 => top[x].manifest = n
          /\ k > 12 => top[x].summary = n
          /\ k > 13 => Settled(x, n)
          /\ k <= 14 => OutIs(x, 0, 0)
          /\ k = 15 => out[x].draft = n /\ \A o \in outImages[x] : o.receipt = 0
          /\ k = 16 => OutIs(x, n, 0)
          /\ k = 17 => out[x].receipt = n /\ \A o \in outImages[x] : o.draft = n
          /\ k = 18 => OutIs(x, n, n)
          /\ k \in {4, 5} => session[r] = n
          /\ k > 5 => session[r] = 0

\* What is on disk for x, whether a run of it is in progress or not: as soon
\* as emit/ holds anything, the rest is there, all phases included.
ExecOK(x) ==
    /\ top[x] \in topImages[x]
    /\ out[x] \in outImages[x]
    /\ \A o \in outImages[x] : o.draft # 0 \/ o.receipt # 0 =>
         /\ phases[x] = 6
         /\ top[x].trace # 0
         /\ Settled(x, top[x].trace)
         /\ o.draft = top[x].trace
         /\ o.receipt = 0 \/ o.receipt = top[x].trace

\* An execution is run by one process at a time, under a number of its own.
Alone ==
    \A r, q \in Runner : r # q =>
        /\ at[r] # 0 /\ at[q] # 0 => run[r].x # run[q].x
        /\ run[r].n = run[q].n => run[r].n = 0

Numbered == \A r \in Runner : run[r].n <= attempts

\* The execution of a run that has returned is not run again.
RetOK ==
    \A p \in returned :
        /\ p[2] # 0 /\ p[2] <= attempts
        /\ \A o \in outImages[p[1]] : o.receipt = p[2]
        /\ \A r \in Runner : at[r] # 0 => run[r].x # p[1] /\ run[r].n # p[2]

\* An open session is that of a run of the same browser, which has not returned.
SessionsOK ==
    \A r \in Runner :
        /\ session[r] <= attempts
        /\ \A q \in Runner : session[r] # 0 /\ run[q].n = session[r] => q = r
        /\ \A p \in returned : p[2] # session[r]

IInv ==
    /\ TypeOK
    /\ \A r \in Runner : RunOK(r)
    /\ \A x \in Execution : ExecOK(x)
    /\ Alone /\ Numbered /\ RetOK
    /\ SessionsOK

USE RuntimeAssumption

LEMMA AtBound == ASSUME TypeOK PROVE at \in [Runner -> 0..18]
BY PathIs DEF TypeOK

LEMMA NoAttempt == 0 \in Attempt
BY DEF Attempt

LEMMA InProgress ==
    ASSUME IInv, NEW r \in Runner, at[r] # 0
    PROVE  /\ at[r] \in 1..18
           /\ run[r].x \in Execution /\ run[r].n \in Attempt
<1>1. at[r] \in 0..18
  BY AtBound DEF IInv
<1>. QED
  BY <1>1 DEF IInv, TypeOK

LEMMA InitIInv == Init => IInv
<1>. SUFFICES ASSUME Init PROVE IInv
  OBVIOUS
<1>1. TypeOK
  BY PathIs, PhasesAre DEF Init, TypeOK, Attempt, Top, Out, NoTop, NoOut
<1>2. \A r \in Runner : RunOK(r)
  BY DEF Init, RunOK
<1>3. \A x \in Execution : ExecOK(x)
  BY DEF Init, ExecOK, NoTop, NoOut
<1>4. Alone /\ Numbered /\ RetOK /\ SessionsOK
  BY DEF Init, Alone, Numbered, RetOK, SessionsOK
<1>. QED
  BY <1>1, <1>2, <1>3, <1>4 DEF IInv

-----------------------------------------------------------------------------
(* A step of one run disturbs only what is its own *)

Local(r) ==
    /\ attempts' = attempts /\ run' = run
    /\ \A q \in Runner \ {r} : at'[q] = at[q] /\ session'[q] = session[q]
    /\ \A x \in Execution \ {run[r].x} :
         /\ phases'[x] = phases[x]
         /\ top'[x] = top[x] /\ topImages'[x] = topImages[x]
         /\ out'[x] = out[x] /\ outImages'[x] = outImages[x]

LEMMA OthersKeep ==
    ASSUME IInv, NEW r \in Runner, at[r] # 0, Local(r)
    PROVE  /\ \A q \in Runner \ {r} : RunOK(q)'
           /\ \A x \in Execution \ {run[r].x} : ExecOK(x)'
<1>1. ASSUME NEW q \in Runner \ {r} PROVE RunOK(q)'
  <2>1. CASE at[q] = 0
    BY <2>1 DEF RunOK, Local
  <2>2. CASE at[q] # 0
    <3>1. run[q].x # run[r].x /\ run[q].x \in Execution
      BY <2>2 DEF IInv, Alone, TypeOK
    <3>2. RunOK(q)
      BY DEF IInv
    <3>. QED
      BY <3>1, <3>2 DEF RunOK, Local, Settled, OutIs
  <2>. QED
    BY <2>1, <2>2
<1>2. ASSUME NEW x \in Execution \ {run[r].x} PROVE ExecOK(x)'
  <2>1. ExecOK(x)
    BY DEF IInv
  <2>. QED
    BY <2>1 DEF ExecOK, Settled, Local
<1>. QED
  BY <1>1, <1>2

\* A step of a run that does not return keeps the invariant if it keeps what
\* is said of this run and of its execution.
LEMMA LocalKeeps ==
    ASSUME IInv, NEW r \in Runner, at[r] # 0, Local(r), returned' = returned,
           session'[r] \in {session[r], 0, run[r].n},
           TypeOK', RunOK(r)', NEW x, x = run[r].x, ExecOK(x)'
    PROVE  IInv'
<1>1. (\A q \in Runner : RunOK(q))' /\ (\A y \in Execution : ExecOK(y))'
  <2>1. ASSUME NEW q \in Runner PROVE RunOK(q)'
    BY OthersKeep
  <2>2. ASSUME NEW y \in Execution PROVE ExecOK(y)'
    BY OthersKeep
  <2>. QED
    BY <2>1, <2>2
<1>2. Alone' /\ Numbered'
  BY DEF IInv, Alone, Numbered, Local
<1>3. \A p \in returned : p[1] \in Execution \ {run[r].x}
  BY DEF IInv, RetOK, TypeOK
<1>4. RetOK'
  BY <1>3 DEF IInv, RetOK, Local
<1>5. SessionsOK'
  <2>1. run[r].n # 0 /\ run[r].n <= attempts /\ attempts \in Nat
    BY DEF IInv, RunOK, Numbered, TypeOK, Attempt
  <2>2. \A p \in returned : p[2] # run[r].n /\ p[2] # 0
    BY DEF IInv, RetOK
  <2>3. \A q \in Runner : run[q].n = run[r].n => q = r
    BY <2>1 DEF IInv, Alone
  <2>4. ASSUME NEW q \in Runner
        PROVE  /\ session'[q] <= attempts
               /\ \A s \in Runner : session'[q] # 0 /\ run[s].n = session'[q] => s = q
               /\ \A p \in returned : p[2] # session'[q]
    <3>1. session'[q] = session[q] \/ (q = r /\ session'[q] \in {0, run[r].n})
      BY DEF Local
    <3>. QED
      BY <2>1, <2>2, <2>3, <3>1 DEF IInv, SessionsOK
  <2>. QED
    BY <2>4 DEF SessionsOK, Local
<1>. QED
  BY <1>1, <1>2, <1>4, <1>5 DEF IInv

-----------------------------------------------------------------------------
(* The actions *)

LEMMA StartStep ==
    ASSUME IInv, NEW r \in Runner, NEW x \in Execution, Start(r, x)
    PROVE  IInv'
<1>1. CASE top[x].trace # 0
  <2>. attempts' = attempts + 1 /\ UNCHANGED <<run, at, topVars, phases>>
    BY <1>1 DEF Start
  <2>. UNCHANGED <<session, outVars, returned>>
    BY DEF Start
  <2>1. TypeOK'
    <3>1. attempts' \in Attempt
      BY DEF IInv, TypeOK, Start, Attempt
    <3>2. UNCHANGED <<top, topImages, out, outImages>>
      BY DEF topVars, outVars
    <3>. QED
      BY <3>1, <3>2 DEF IInv, TypeOK
  <2>2. \A q \in Runner : RunOK(q)'
    BY SMTT(30) DEF IInv, RunOK, Settled, OutIs, topVars, outVars
  <2>3. \A y \in Execution : ExecOK(y)'
    BY DEF IInv, ExecOK, Settled, topVars, outVars
  <2>4. attempts \in Nat /\ attempts' = attempts + 1
    BY DEF IInv, TypeOK, Attempt
  <2>5. Alone' /\ Numbered'
    <3>1. Alone'
      BY DEF IInv, Alone
    <3>2. \A q \in Runner : run[q].n \in Nat /\ run[q].n <= attempts
      BY DEF IInv, TypeOK, Attempt, Numbered
    <3>3. Numbered'
      BY <2>4, <3>2 DEF Numbered
    <3>. QED
      BY <3>1, <3>3
  <2>6. RetOK'
    BY <2>4 DEF IInv, TypeOK, Attempt, RetOK, outVars
  <2>7. SessionsOK'
    BY <2>4 DEF IInv, TypeOK, Attempt, SessionsOK
  <2>. QED
    BY <2>1, <2>2, <2>3, <2>5, <2>6, <2>7 DEF IInv
<1>2. CASE top[x].trace = 0
  <2>. DEFINE n == attempts + 1
              t == [top[x] EXCEPT !.trace = n]
  <2>1. /\ at[r] = 0 /\ attempts < MaxAttempts /\ attempts' = n
        /\ run' = [run EXCEPT ![r] = [x |-> x, n |-> n]]
        /\ at' = [at EXCEPT ![r] = 1]
        /\ top' = [top EXCEPT ![x] = t]
        /\ topImages' = [topImages EXCEPT ![x] = @ \cup {t}]
        /\ phases' = [phases EXCEPT ![x] = 0]
        /\ session' = session /\ out' = out /\ outImages' = outImages
        /\ returned' = returned
    BY <1>2 DEF Start, ChangeTop, outVars
  <2>2. n \in Attempt /\ n # 0 /\ t \in Top /\ t.trace = n
    <3>1. n \in Attempt /\ n # 0
      BY <2>1 DEF IInv, TypeOK, Attempt
    <3>2. top[x] \in Top
      BY DEF IInv, TypeOK
    <3>. QED
      BY <3>1, <3>2 DEF Top
  <2>3. OutIs(x, 0, 0)
    BY <1>2 DEF IInv, ExecOK, OutIs
  <2>4. \A q \in Runner : at[q] # 0 => run[q].x # x
    BY <1>2 DEF IInv, RunOK
  <2>5. \A p \in returned : p[1] # x
    <3>1. out[x] \in outImages[x] /\ out[x].receipt = 0
      BY <2>3 DEF IInv, ExecOK, OutIs
    <3>. QED
      BY <3>1 DEF IInv, RetOK
  <2>6. TypeOK'
    <3>1. [x |-> x, n |-> n] \in [x : Execution, n : Attempt]
      BY <2>2
    <3>2. at' \in [Runner -> 0..Len(Path)] /\ phases' \in [Execution -> 0..Len(Phases)]
      BY <2>1, PathIs, PhasesAre DEF IInv, TypeOK
    <3>3. top' \in [Execution -> Top] /\ topImages' \in [Execution -> SUBSET Top]
      BY <2>1, <2>2 DEF IInv, TypeOK
    <3>4. run' \in [Runner -> [x : Execution, n : Attempt]]
      BY <2>1, <3>1 DEF IInv, TypeOK
    <3>. QED
      BY <2>1, <2>2, <3>2, <3>3, <3>4 DEF IInv, TypeOK
  <2>7. ASSUME NEW q \in Runner PROVE RunOK(q)'
    <3>1. CASE q = r
      <4>1. at'[r] = 1 /\ run'[r].x = x /\ run'[r].n = n
        BY <2>1 DEF IInv, TypeOK
      <4>2. phases'[x] = 0 /\ top'[x].trace = n /\ outImages'[x] = outImages[x]
        BY <2>1, <2>2 DEF IInv, TypeOK
      <4>. QED
        BY <3>1, <4>1, <4>2, <2>2, <2>3 DEF RunOK, Done, OutIs
    <3>2. CASE q # r
      <4>1. at'[q] = at[q] /\ run'[q] = run[q] /\ RunOK(q)
        BY <3>2, <2>1 DEF IInv, TypeOK
      <4>2. CASE at[q] # 0
        <5>1. run[q].x # x /\ run[q].x \in Execution
          BY <2>4, <4>2 DEF IInv, TypeOK
        <5>. QED
          BY <4>1, <5>1, <2>1 DEF IInv, TypeOK, RunOK, Settled, OutIs
      <4>3. CASE at[q] = 0
        BY <4>1, <4>3 DEF RunOK
      <4>. QED
        BY <4>2, <4>3
    <3>. QED
      BY <3>1, <3>2
  <2>8. ASSUME NEW y \in Execution PROVE ExecOK(y)'
    <3>1. ExecOK(y)
      BY DEF IInv
    <3>2. CASE y = x
      BY <3>1, <3>2, <2>1, <2>3 DEF IInv, TypeOK, ExecOK, OutIs
    <3>3. CASE y # x
      BY <3>1, <3>3, <2>1 DEF IInv, TypeOK, ExecOK, Settled
    <3>. QED
      BY <3>2, <3>3
  <2>9. Alone' /\ Numbered'
    <3>1. /\ run'[r].x = x /\ run'[r].n = n
          /\ \A q \in Runner \ {r} : run'[q] = run[q] /\ at'[q] = at[q]
      BY <2>1 DEF IInv, TypeOK
    <3>2. \A q \in Runner : run[q].n \in Nat /\ run[q].n <= attempts /\ run[q].n # n
      BY <2>1 DEF IInv, TypeOK, Attempt, Numbered
    <3>3. attempts \in Nat
      BY DEF IInv, TypeOK, Attempt
    <3>4. Numbered'
      BY <2>1, <3>1, <3>2, <3>3 DEF Numbered
    <3>5. Alone'
      BY <2>4, <3>1, <3>2 DEF IInv, Alone
    <3>. QED
      BY <3>4, <3>5
  <2>10. RetOK'
    BY <2>1, <2>5 DEF IInv, TypeOK, Attempt, RetOK
  <2>11. SessionsOK'
    <3>1. /\ \A q \in Runner : session[q] \in Nat /\ session[q] <= attempts
          /\ attempts \in Nat
      BY DEF IInv, TypeOK, Attempt, SessionsOK
    <3>2. \A q \in Runner : run'[q].n = run[q].n \/ (q = r /\ run'[q].n = attempts + 1)
      BY <2>1 DEF IInv, TypeOK
    <3>3. ASSUME NEW q \in Runner, NEW p \in Runner, session[q] # 0, run'[p].n = session[q]
          PROVE  p = q
      <4>1. run'[p].n = run[p].n
        BY <3>1, <3>2, <3>3
      <4>. QED
        BY <3>3, <4>1 DEF IInv, SessionsOK
    <3>4. \A q \in Runner : session[q] <= attempts'
      BY <2>1, <3>1
    <3>. QED
      BY <2>1, <3>3, <3>4 DEF IInv, SessionsOK
  <2>. QED
    BY <2>6, <2>7, <2>8, <2>9, <2>10, <2>11 DEF IInv
<1>. QED
  BY <1>1, <1>2

LEMMA EnterPhaseStep ==
    ASSUME IInv, NEW r \in Runner, EnterPhase(r)
    PROVE  IInv'
<1>. DEFINE k == at[r]
            x == run[r].x
<1>1. k \in 1..18 /\ x \in Execution
  BY InProgress DEF EnterPhase, Reached
<1>2. k \in {1, 2, 6, 7, 8, 9}
  BY <1>1, StepOf DEF EnterPhase, Reached
<1>3. /\ at' = [at EXCEPT ![r] = k + 1]
      /\ phases' = [phases EXCEPT ![x] = @ + 1]
      /\ UNCHANGED <<attempts, run, session, top, topImages, out, outImages, returned>>
  BY DEF EnterPhase, Advance, topVars, outVars
<1>4. RunOK(r) /\ ExecOK(x)
  BY <1>1 DEF IInv
<1>5. phases[x] = Done(k) /\ OutIs(x, 0, 0)
  BY <1>2, <1>4 DEF RunOK
<1>6. at'[r] = k + 1 /\ phases'[x] = Done(k) + 1
  BY <1>1, <1>3, <1>5 DEF IInv, TypeOK
<1>7. Done(k) + 1 = Done(k + 1) /\ Done(k) + 1 \in 0..6
  BY <1>2 DEF Done
<1>8. TypeOK'
  BY <1>1, <1>2, <1>3, <1>6, <1>7, PathIs, PhasesAre DEF IInv, TypeOK
<1>9. RunOK(r)'
  BY <1>2, <1>3, <1>4, <1>6, <1>7 DEF RunOK, Settled, OutIs
<1>10. ExecOK(x)'
  BY <1>3, <1>4, <1>5 DEF ExecOK, OutIs
<1>11. Local(r)
  BY <1>3 DEF IInv, TypeOK, Local
<1>. QED
  BY <1>1, <1>3, <1>8, <1>9, <1>10, <1>11, LocalKeeps

LEMMA BrowseStep ==
    ASSUME IInv, NEW r \in Runner, Browse(r)
    PROVE  IInv'
<1>. DEFINE k == at[r]
            x == run[r].x
<1>1. k \in 1..18 /\ x \in Execution
  BY InProgress DEF Browse, Reached
<1>2. k \in {3, 4, 5}
  BY <1>1, StepOf DEF Browse, Reached
<1>3. /\ at' = [at EXCEPT ![r] = k + 1]
      /\ UNCHANGED <<attempts, run, phases, top, topImages, out, outImages, returned>>
  BY DEF Browse, Advance, topVars, outVars
<1>4. RunOK(r) /\ ExecOK(x)
  BY <1>1 DEF IInv
<1>5. /\ at'[r] = k + 1 /\ run[r].n \in Attempt
      /\ \E m \in {session[r], 0, run[r].n} : session' = [session EXCEPT ![r] = m]
      /\ k = 3 => session'[r] = run[r].n
      /\ k = 4 => session'[r] = session[r]
      /\ k = 5 => session'[r] = 0
  <2>1. session \in [Runner -> Attempt] /\ run[r].n \in Attempt /\ at'[r] = k + 1
    BY <1>3 DEF IInv, TypeOK
  <2>2. CASE k = 3
    <3>1. session' = [session EXCEPT ![r] = run[r].n]
      BY <2>2, PathIs DEF Browse, HasSession
    <3>. QED
      BY <2>1, <2>2, <3>1
  <2>3. CASE k = 4
    <3>1. session' = session
      BY <2>3, PathIs DEF Browse
    <3>2. \E m \in {session[r], 0, run[r].n} : session' = [session EXCEPT ![r] = m]
      <4>1. session' = [session EXCEPT ![r] = session[r]]
        BY <2>1, <3>1
      <4>. QED
        BY <4>1
    <3>3. session'[r] = session[r]
      BY <3>1
    <3>. QED
      BY <2>1, <2>3, <3>2, <3>3
  <2>4. CASE k = 5
    <3>1. session' = [session EXCEPT ![r] = 0]
      BY <2>4, PathIs DEF Browse, HasSession
    <3>. QED
      BY <2>1, <2>4, <3>1
  <2>. QED
    BY <1>2, <2>2, <2>3, <2>4
<1>6. Done(k) = 2 /\ Done(k + 1) = 2
  BY <1>2 DEF Done
<1>7. TypeOK'
  <2>1. at' \in [Runner -> 0..Len(Path)]
    BY <1>2, <1>3, PathIs, SMTT(30) DEF IInv, TypeOK
  <2>2. session' \in [Runner -> Attempt]
    BY <1>5, NoAttempt DEF IInv, TypeOK
  <2>. QED
    BY <1>3, <2>1, <2>2 DEF IInv, TypeOK
<1>8. RunOK(r)'
  BY <1>2, <1>3, <1>4, <1>5, <1>6 DEF RunOK, Settled, OutIs
<1>9. ExecOK(x)'
  BY <1>3, <1>4 DEF ExecOK, Settled
<1>10. Local(r) /\ session'[r] \in {session[r], 0, run[r].n}
  BY <1>2, <1>3, <1>5 DEF IInv, TypeOK, Local
<1>. QED
  BY <1>1, <1>3, <1>7, <1>8, <1>9, <1>10, LocalKeeps

LEMMA WriteTopStep ==
    ASSUME IInv, NEW r \in Runner, WriteTop(r)
    PROVE  IInv'
<1>. DEFINE k == at[r]
            x == run[r].x
            n == run[r].n
            t == [top[x] EXCEPT ![Path[k]] = n]
<1>1. k \in 1..18 /\ x \in Execution /\ n \in Attempt
  BY InProgress DEF WriteTop, Reached
<1>2. k \in {10, 12}
  BY <1>1, StepOf DEF WriteTop, Reached
<1>3. /\ at' = [at EXCEPT ![r] = k + 1]
      /\ top' = [top EXCEPT ![x] = t]
      /\ topImages' = [topImages EXCEPT ![x] = @ \cup {t}]
      /\ UNCHANGED <<attempts, run, session, phases, out, outImages, returned>>
  BY DEF WriteTop, Advance, ChangeTop, outVars
<1>4. RunOK(r) /\ ExecOK(x)
  BY <1>1 DEF IInv
<1>5. OutIs(x, 0, 0)
  BY <1>2, <1>4 DEF RunOK
<1>6. t \in Top /\ t.trace = n /\ t.manifest = n /\ (k = 12 => t.summary = n)
  <2>1. top[x] \in Top /\ top[x].trace = n /\ (k = 12 => top[x].manifest = n)
    BY <1>1, <1>2, <1>4 DEF IInv, TypeOK, RunOK
  <2>2. CASE k = 10
    <3>1. Path[k] = "manifest"
      BY <2>2, PathIs
    <3>. QED
      BY <1>1, <2>1, <2>2, <3>1 DEF Top
  <2>3. CASE k = 12
    <3>1. Path[k] = "summary"
      BY <2>3, PathIs
    <3>. QED
      BY <1>1, <2>1, <2>3, <3>1 DEF Top
  <2>. QED
    BY <1>2, <2>2, <2>3
<1>7. /\ at'[r] = k + 1 /\ top'[x] = t /\ topImages'[x] = topImages[x] \cup {t}
      /\ outImages'[x] = outImages[x]
  BY <1>1, <1>3 DEF IInv, TypeOK
<1>8. Done(k) = 6 /\ Done(k + 1) = 6
  BY <1>2 DEF Done
<1>9. TypeOK'
  <2>1. at' \in [Runner -> 0..Len(Path)]
    BY <1>2, <1>3, PathIs DEF IInv, TypeOK
  <2>2. top' \in [Execution -> Top] /\ topImages' \in [Execution -> SUBSET Top]
    BY <1>3, <1>6 DEF IInv, TypeOK
  <2>. QED
    BY <1>3, <2>1, <2>2 DEF IInv, TypeOK
<1>10. RunOK(r)'
  <2>1. /\ run' = run /\ session' = session /\ phases' = phases
        /\ at'[r] = k + 1 /\ top'[x] = t
    BY <1>3, <1>7
  <2>2. n # 0 /\ phases[x] = 6 /\ session[r] = 0
    BY <1>2, <1>4, <1>8 DEF RunOK
  <2>3. OutIs(x, 0, 0)'
    BY <1>5, <1>7, <2>1 DEF OutIs
  <2>4. CASE k = 10
    BY <1>6, <1>8, <2>1, <2>2, <2>3, <2>4 DEF RunOK
  <2>5. CASE k = 12
    BY <1>6, <1>8, <2>1, <2>2, <2>3, <2>5 DEF RunOK
  <2>. QED
    BY <1>2, <2>4, <2>5
<1>11. ExecOK(x)'
  BY <1>3, <1>4, <1>5, <1>7 DEF ExecOK, OutIs
<1>12. Local(r)
  BY <1>3 DEF IInv, TypeOK, Local
<1>. QED
  BY <1>1, <1>3, <1>9, <1>10, <1>11, <1>12, LocalKeeps

LEMMA WriteOutStep ==
    ASSUME IInv, NEW r \in Runner, WriteOut(r)
    PROVE  IInv'
<1>. DEFINE k == at[r]
            x == run[r].x
            n == run[r].n
            o == [out[x] EXCEPT ![Path[k]] = n]
<1>1. k \in 1..18 /\ x \in Execution /\ n \in Attempt
  BY InProgress DEF WriteOut, Reached
<1>2. k \in {14, 16}
  BY <1>1, StepOf DEF WriteOut, Reached
<1>3. out[x] \in Out
  BY <1>1 DEF IInv, TypeOK
<1>4. /\ at' = [at EXCEPT ![r] = k + 1]
      /\ out' = [out EXCEPT ![x] = o]
      /\ outImages' = [outImages EXCEPT ![x] = @ \cup {o}]
      /\ UNCHANGED <<attempts, run, session, phases, top, topImages, returned>>
  <2>1. out' = [out EXCEPT ![x] = o]
    BY <1>1, <1>3 DEF WriteOut
  <2>2. out'[x] = o
    BY <1>1, <2>1 DEF IInv, TypeOK
  <2>. QED
    BY <2>1, <2>2 DEF WriteOut, Advance, topVars
<1>5. RunOK(r) /\ ExecOK(x)
  BY <1>1 DEF IInv
<1>6. phases[x] = 6 /\ top[x].trace = n /\ n # 0 /\ Settled(x, n)
  BY <1>2, <1>5 DEF RunOK, Done
<1>7. /\ o \in Out /\ o.draft = n /\ o.receipt = (IF k = 14 THEN 0 ELSE n)
      /\ k = 14 => OutIs(x, 0, 0)
      /\ k = 16 => OutIs(x, n, 0)
  <2>1. (k = 14 => OutIs(x, 0, 0)) /\ (k = 16 => OutIs(x, n, 0))
    BY <1>5 DEF RunOK
  <2>2. (k = 14 => out[x].receipt = 0) /\ (k = 16 => out[x].draft = n)
    BY <1>5, <2>1 DEF OutIs, ExecOK
  <2>3. CASE k = 14
    <3>1. Path[k] = "draft"
      BY <2>3, PathIs
    <3>. QED
      BY <1>1, <1>3, <2>1, <2>2, <2>3, <3>1 DEF Out
  <2>4. CASE k = 16
    <3>1. Path[k] = "receipt"
      BY <2>4, PathIs
    <3>. QED
      BY <1>1, <1>3, <2>1, <2>2, <2>4, <3>1 DEF Out
  <2>. QED
    BY <1>2, <2>3, <2>4
<1>8. /\ at'[r] = k + 1 /\ out'[x] = o /\ outImages'[x] = outImages[x] \cup {o}
  BY <1>1, <1>4 DEF IInv, TypeOK
<1>9. Done(k) = 6 /\ Done(k + 1) = 6
  BY <1>2 DEF Done
<1>10. TypeOK'
  <2>1. at' \in [Runner -> 0..Len(Path)]
    BY <1>2, <1>4, PathIs DEF IInv, TypeOK
  <2>2. out' \in [Execution -> Out] /\ outImages' \in [Execution -> SUBSET Out]
    BY <1>4, <1>7 DEF IInv, TypeOK
  <2>. QED
    BY <1>4, <2>1, <2>2 DEF IInv, TypeOK
<1>11. RunOK(r)'
  <2>1. top[x].manifest = n /\ top[x].summary = n /\ session[r] = 0
    BY <1>2, <1>5 DEF RunOK
  <2>2. CASE k = 14
    <3>1. \A i \in outImages'[x] : i.receipt = 0
      BY <1>7, <1>8, <2>2 DEF OutIs
    <3>2. at'[r] = 15 /\ out'[x].draft = n
      BY <1>7, <1>8, <2>2
    <3>3. /\ run' = run /\ session' = session /\ phases' = phases /\ top' = top
          /\ topImages' = topImages
      BY <1>4
    <3>4. Done(15) = 6
      BY DEF Done
    <3>. QED
      BY <1>6, <2>1, <3>1, <3>2, <3>3, <3>4 DEF RunOK, Settled
  <2>3. CASE k = 16
    <3>1. \A i \in outImages'[x] : i.draft = n
      BY <1>7, <1>8, <2>3 DEF OutIs
    <3>2. at'[r] = 17 /\ out'[x].receipt = n
      BY <1>7, <1>8, <2>3
    <3>3. /\ run' = run /\ session' = session /\ phases' = phases /\ top' = top
          /\ topImages' = topImages
      BY <1>4
    <3>4. Done(17) = 6
      BY DEF Done
    <3>. QED
      BY <1>6, <2>1, <3>1, <3>2, <3>3, <3>4 DEF RunOK, Settled
  <2>. QED
    BY <1>2, <2>2, <2>3
<1>12. ExecOK(x)'
  <2>1. /\ top' = top /\ topImages' = topImages /\ phases' = phases /\ run' = run
        /\ top[x] \in topImages[x] /\ out'[x] \in outImages'[x]
    BY <1>4, <1>5, <1>8 DEF ExecOK
  <2>2. ASSUME NEW i \in outImages'[x], i.draft # 0 \/ i.receipt # 0
        PROVE  i.draft = n /\ (i.receipt = 0 \/ i.receipt = n)
    <3>1. CASE i = o
      BY <1>7, <3>1
    <3>2. CASE i \in outImages[x]
      BY <1>5, <1>6, <2>2, <3>2 DEF ExecOK
    <3>. QED
      BY <1>8, <3>1, <3>2
  <2>3. Settled(x, n)'
    BY <1>6, <2>1 DEF Settled
  <2>. QED
    BY <1>6, <2>1, <2>2, <2>3 DEF ExecOK
<1>13. Local(r)
  BY <1>4 DEF IInv, TypeOK, Local
<1>. QED
  BY <1>1, <1>4, <1>10, <1>11, <1>12, <1>13, LocalKeeps

LEMMA SyncStep ==
    ASSUME IInv, NEW r \in Runner, Sync(r)
    PROVE  IInv'
<1>. DEFINE k == at[r]
            x == run[r].x
            n == run[r].n
<1>1. k \in 1..18 /\ x \in Execution /\ n \in Attempt
  BY InProgress DEF Sync, Reached
<1>2. k \in {11, 13, 15, 17} /\ (Path[k] = "topSync" <=> k \in {11, 13})
  BY <1>1, StepOf DEF Sync, Reached
<1>3. /\ at' = [at EXCEPT ![r] = k + 1]
      /\ UNCHANGED <<attempts, run, session, phases, top, out, returned>>
  BY DEF Sync, Advance
<1>4. at'[r] = k + 1
  BY <1>3 DEF IInv, TypeOK
<1>5. RunOK(r) /\ ExecOK(x)
  BY <1>1 DEF IInv
<1>6. Done(k) = 6 /\ Done(k + 1) = 6
  BY <1>2 DEF Done
<1>7. at' \in [Runner -> 0..Len(Path)]
  BY <1>2, <1>3, PathIs, SMTT(30) DEF IInv, TypeOK
<1>8. CASE k \in {11, 13}
  <2>1. topImages' = [topImages EXCEPT ![x] = {top[x]}] /\ outImages' = outImages
    BY <1>2, <1>8 DEF Sync
  <2>2. topImages'[x] = {top[x]}
    BY <1>1, <2>1 DEF IInv, TypeOK
  <2>3. OutIs(x, 0, 0)
    BY <1>5, <1>8 DEF RunOK
  <2>4. TypeOK'
    BY <1>1, <1>3, <1>7, <2>1 DEF IInv, TypeOK
  <2>5. RunOK(r)'
    BY <1>3, <1>4, <1>5, <1>6, <1>8, <2>1, <2>2, <2>3 DEF RunOK, Settled, OutIs
  <2>6. ExecOK(x)'
    BY <1>3, <1>5, <2>1, <2>2, <2>3 DEF ExecOK, OutIs
  <2>7. Local(r)
    BY <1>3, <2>1 DEF IInv, TypeOK, Local
  <2>. QED
    BY <1>1, <1>3, <2>4, <2>5, <2>6, <2>7, LocalKeeps
<1>9. CASE k \in {15, 17}
  <2>1. outImages' = [outImages EXCEPT ![x] = {out[x]}] /\ topImages' = topImages
    BY <1>2, <1>9 DEF Sync
  <2>2. outImages'[x] = {out[x]}
    BY <1>1, <2>1 DEF IInv, TypeOK
  <2>3. TypeOK'
    BY <1>1, <1>3, <1>7, <2>1 DEF IInv, TypeOK
  <2>4. RunOK(r)'
    <3>1. out[x] \in outImages[x]
      BY <1>5 DEF ExecOK
    <3>. QED
      BY <1>3, <1>4, <1>5, <1>6, <1>9, <2>1, <2>2, <3>1 DEF RunOK, Settled, OutIs
  <2>5. ExecOK(x)'
    BY <1>3, <1>5, <2>1, <2>2 DEF ExecOK, Settled
  <2>6. Local(r)
    BY <1>3, <2>1 DEF IInv, TypeOK, Local
  <2>. QED
    BY <1>1, <1>3, <2>3, <2>4, <2>5, <2>6, LocalKeeps
<1>. QED
  BY <1>2, <1>8, <1>9

LEMMA ReturnStep ==
    ASSUME IInv, NEW r \in Runner, Return(r)
    PROVE  IInv'
<1>. DEFINE x == run[r].x
            n == run[r].n
<1>1. at[r] \in 1..18 /\ x \in Execution /\ n \in Attempt
  BY InProgress DEF Return, Reached
<1>2. at[r] = 18
  BY <1>1, StepOf DEF Return, Reached
<1>3. /\ at' = [at EXCEPT ![r] = 0]
      /\ returned' = returned \cup {<<x, n>>}
      /\ UNCHANGED <<attempts, run, session, phases, top, topImages, out, outImages>>
  BY DEF Return, topVars, outVars
<1>4. RunOK(r)
  BY DEF IInv
<1>5. n # 0 /\ n <= attempts /\ OutIs(x, n, n) /\ session[r] = 0
  BY <1>2, <1>4 DEF RunOK, IInv, Numbered
<1>6. TypeOK'
  BY <1>1, <1>3 DEF IInv, TypeOK
<1>7. Local(r)
  BY <1>3 DEF IInv, TypeOK, Local
<1>8. (\A q \in Runner : RunOK(q))'
  <2>1. ASSUME NEW q \in Runner PROVE RunOK(q)'
    <3>1. CASE q = r
      BY <1>3, <3>1 DEF IInv, TypeOK, RunOK
    <3>2. CASE q # r
      BY <1>2, <1>7, <3>2, OthersKeep
    <3>. QED
      BY <3>1, <3>2
  <2>. QED
    BY <2>1
<1>9. (\A y \in Execution : ExecOK(y))'
  BY <1>3 DEF IInv, ExecOK, Settled
<1>10. Alone' /\ Numbered'
  BY <1>3 DEF IInv, TypeOK, Alone, Numbered
<1>11. RetOK'
  <2>1. ASSUME NEW q \in Runner, at'[q] # 0
        PROVE  at[q] # 0 /\ run[q].x # x /\ run[q].n # n
    BY <1>2, <1>3, <1>5, <2>1 DEF IInv, TypeOK, Alone
  <2>2. ASSUME NEW p \in returned'
        PROVE  /\ p[2] # 0 /\ p[2] <= attempts
               /\ \A o \in outImages[p[1]] : o.receipt = p[2]
               /\ \A q \in Runner : at'[q] # 0 => run[q].x # p[1] /\ run[q].n # p[2]
    <3>1. CASE p = <<x, n>>
      BY <1>5, <2>1, <3>1 DEF OutIs
    <3>2. CASE p \in returned
      BY <2>1, <3>2 DEF IInv, RetOK
    <3>. QED
      BY <1>3, <3>1, <3>2
  <2>. QED
    BY <1>3, <2>2 DEF RetOK
<1>12. SessionsOK'
  <2>1. ASSUME NEW q \in Runner
        PROVE  \A p \in returned' : p[2] # session[q]
    <3>1. n # session[q]
      BY <1>5 DEF IInv, SessionsOK
    <3>. QED
      BY <1>3, <3>1 DEF IInv, SessionsOK
  <2>. QED
    BY <1>3, <2>1 DEF IInv, SessionsOK
<1>. QED
  BY <1>6, <1>8, <1>9, <1>10, <1>11, <1>12 DEF IInv

LEMMA RaiseStep ==
    ASSUME IInv, NEW r \in Runner, Raise(r)
    PROVE  IInv'
<1>. DEFINE x == run[r].x
<1>1. /\ at[r] # 0
      /\ at' = [at EXCEPT ![r] = 0]
      /\ UNCHANGED <<attempts, run, phases, top, topImages, out, outImages, returned>>
  BY DEF Raise, topVars, outVars
<1>2. /\ \E m \in {session[r], 0, run[r].n} : session' = [session EXCEPT ![r] = m]
      /\ session' \in [Runner -> Attempt]
  <2>1. /\ session = [session EXCEPT ![r] = session[r]]
        /\ session \in [Runner -> Attempt] /\ run[r].n \in Attempt
    BY DEF IInv, TypeOK
  <2>2. PICK m \in {session[r], 0, run[r].n} : session' = [session EXCEPT ![r] = m]
    BY <2>1 DEF Raise, HasSession
  <2>3. m \in Attempt
    BY <2>1, NoAttempt
  <2>. QED
    BY <2>1, <2>2, <2>3
<1>3. TypeOK'
  BY <1>1, <1>2 DEF IInv, TypeOK
<1>4. RunOK(r)'
  BY <1>1 DEF IInv, TypeOK, RunOK
<1>5. ExecOK(x)'
  <2>1. ExecOK(x)
    BY <1>1, InProgress DEF IInv
  <2>. QED
    BY <1>1, <2>1 DEF ExecOK, Settled
<1>6. Local(r) /\ session'[r] \in {session[r], 0, run[r].n}
  BY <1>1, <1>2 DEF IInv, TypeOK, Local
<1>. QED
  BY <1>1, <1>3, <1>4, <1>5, <1>6, LocalKeeps

LEMMA CrashStep ==
    ASSUME IInv, NEW r \in Runner, Crash(r)
    PROVE  IInv'
<1>1. /\ at' = [at EXCEPT ![r] = 0]
      /\ session' = [session EXCEPT ![r] = 0]
      /\ UNCHANGED <<attempts, run, phases, top, topImages, out, outImages, returned>>
  BY DEF Crash, HasSession, topVars, outVars
<1>2. TypeOK'
  BY <1>1, NoAttempt DEF IInv, TypeOK
<1>3. ASSUME NEW q \in Runner
      PROVE  at'[q] # 0 => at'[q] = at[q] /\ session'[q] = session[q]
  BY <1>1 DEF IInv, TypeOK
<1>4. (\A q \in Runner : RunOK(q))'
  BY <1>1, <1>3 DEF IInv, RunOK, Settled, OutIs
<1>5. (\A x \in Execution : ExecOK(x))'
  BY <1>1 DEF IInv, ExecOK, Settled
<1>6. Alone' /\ Numbered' /\ RetOK'
  BY <1>1, <1>3 DEF IInv, Alone, Numbered, RetOK
<1>7. SessionsOK'
  <2>1. \A q \in Runner : session'[q] \in {session[q], 0}
    BY <1>1 DEF IInv, TypeOK
  <2>2. attempts \in Nat /\ \A p \in returned : p[2] # 0
    BY DEF IInv, TypeOK, Attempt, RetOK
  <2>. QED
    BY <1>1, <2>1, <2>2 DEF IInv, SessionsOK
<1>. QED
  BY <1>2, <1>4, <1>5, <1>6, <1>7 DEF IInv

\* A power loss chooses one of the images that were possible before.
LEMMA PowerLossStep ==
    ASSUME IInv, PowerLoss
    PROVE  IInv'
<1>1. /\ at' = [r \in Runner |-> 0] /\ session' = [r \in Runner |-> 0]
      /\ topImages' = [x \in Execution |-> {top'[x]}]
      /\ outImages' = [x \in Execution |-> {out'[x]}]
      /\ UNCHANGED <<attempts, run, phases, returned>>
  BY DEF PowerLoss
<1>2. ASSUME NEW x \in Execution
      PROVE  top'[x] \in topImages[x] /\ out'[x] \in outImages[x]
  BY DEF PowerLoss, OneOfEach
<1>3. TypeOK'
  <2>1. DOMAIN top' = Execution /\ DOMAIN out' = Execution
    BY DEF PowerLoss, OneOfEach
  <2>2. top' \in [Execution -> Top] /\ out' \in [Execution -> Out]
    <3>1. \A x \in Execution : top'[x] \in Top /\ out'[x] \in Out
      BY <1>2 DEF IInv, TypeOK
    <3>. QED
      BY <2>1, <3>1 DEF PowerLoss, OneOfEach
  <2>. QED
    BY <1>1, <2>2, NoAttempt DEF IInv, TypeOK
<1>4. (\A r \in Runner : RunOK(r))'
  BY <1>1 DEF RunOK
<1>5. (\A x \in Execution : ExecOK(x))'
  <2>1. ASSUME NEW x \in Execution PROVE ExecOK(x)'
    <3>1. ExecOK(x) /\ top'[x] \in topImages[x] /\ out'[x] \in outImages[x]
      BY <1>2 DEF IInv
    <3>. QED
      BY <1>1, <3>1 DEF ExecOK, Settled
  <2>. QED
    BY <2>1
<1>6. Alone' /\ Numbered'
  BY <1>1 DEF IInv, Alone, Numbered
<1>7. SessionsOK'
  <2>1. attempts \in Nat /\ \A p \in returned : p[2] # 0
    BY DEF IInv, TypeOK, Attempt, RetOK
  <2>. QED
    BY <1>1, <2>1 DEF SessionsOK
<1>8. RetOK'
  <2>1. \A p \in returned : p[1] \in Execution
    BY DEF IInv, TypeOK
  <2>. QED
    BY <1>1, <1>2, <2>1 DEF IInv, RetOK
<1>. QED
  BY <1>3, <1>4, <1>5, <1>6, <1>7, <1>8 DEF IInv

-----------------------------------------------------------------------------
(* The theorems *)

LEMMA NextIInv == IInv /\ [Next]_vars => IInv'
<1>. SUFFICES ASSUME IInv, [Next]_vars PROVE IInv'
  OBVIOUS
<1>1. ASSUME NEW r \in Runner,
             \/ \E x \in Execution : Start(r, x)
             \/ EnterPhase(r) \/ Browse(r)
             \/ WriteTop(r) \/ WriteOut(r) \/ Sync(r) \/ Return(r)
             \/ Raise(r) \/ Crash(r)
      PROVE  IInv'
  BY <1>1, StartStep, EnterPhaseStep, BrowseStep, WriteTopStep, WriteOutStep,
     SyncStep, ReturnStep, RaiseStep, CrashStep
<1>2. CASE PowerLoss
  BY <1>2, PowerLossStep
<1>3. CASE UNCHANGED vars
  <2>. USE <1>3 DEF vars, runVars, topVars, outVars
  <2>1. TypeOK'
    BY DEF IInv, TypeOK
  <2>2. (\A r \in Runner : RunOK(r))' /\ (\A x \in Execution : ExecOK(x))'
    BY DEF IInv, RunOK, ExecOK, Settled, OutIs
  <2>3. Alone' /\ Numbered' /\ RetOK' /\ SessionsOK'
    BY DEF IInv, Alone, Numbered, RetOK, SessionsOK
  <2>. QED
    BY <2>1, <2>2, <2>3 DEF IInv
<1>. QED
  BY <1>1, <1>2, <1>3 DEF Next

LEMMA AlwaysIInv == Spec => []IInv
BY InitIInv, NextIInv, PTL DEF Spec

\* The runs, the sessions and the files have their types, and no run stands
\* outside its path.
THEOREM TypeCorrect == Spec => []TypeOK
<1>1. IInv => TypeOK
  BY DEF IInv
<1>. QED
  BY <1>1, AlwaysIInv, PTL

\* A receipt has everything else of its run beside it: the order of the
\* writes and of the fsyncs in run, under faults and repeated attempts.
THEOREM ReceiptLast == Spec => []ReceiptIsLast
<1>1. IInv => ReceiptIsLast
  <2>. SUFFICES ASSUME IInv, NEW x \in Execution, NEW o \in outImages[x],
                       o.receipt # 0
                PROVE  /\ o.draft = o.receipt
                       /\ \A t \in topImages[x] :
                            t = [trace |-> o.receipt, manifest |-> o.receipt,
                                 summary |-> o.receipt]
                       /\ phases[x] = Len(Phases)
    BY DEF ReceiptIsLast
  <2>1. /\ phases[x] = 6 /\ o.draft = o.receipt
        /\ Settled(x, o.receipt)
    BY DEF IInv, ExecOK
  <2>2. ASSUME NEW t \in topImages[x]
        PROVE  t = [trace |-> o.receipt, manifest |-> o.receipt, summary |-> o.receipt]
    <3>1. t \in Top
      BY DEF IInv, TypeOK
    <3>. QED
      BY <2>1, <3>1 DEF Settled, Top
  <2>. QED
    BY <2>1, <2>2, PhasesAre
<1>. QED
  BY <1>1, AlwaysIInv, PTL

\* The result of a run that has returned is never replaced or lost.
THEOREM ReturnedStays == Spec => []ReturnedIsFinal
<1>1. IInv => ReturnedIsFinal
  BY DEF IInv, RetOK, ReturnedIsFinal
<1>. QED
  BY <1>1, AlwaysIInv, PTL

\* A run works in the session it has created, and leaves none if it returns.
THEOREM SessionOwn == Spec => []SessionIsOwn
<1>1. IInv => SessionIsOwn
  <2>. SUFFICES ASSUME IInv, NEW r \in Runner
                PROVE  /\ Reached(r, {"work", "close"}) => session[r] = run[r].n
                       /\ \A x \in Execution : <<x, session[r]>> \notin returned
    BY DEF SessionIsOwn
  <2>1. ASSUME Reached(r, {"work", "close"}) PROVE session[r] = run[r].n
    <3>1. at[r] \in 1..18
      BY <2>1, InProgress DEF Reached
    <3>2. at[r] \in {4, 5}
      BY <2>1, <3>1, StepOf DEF Reached
    <3>. QED
      BY <3>2 DEF IInv, RunOK
  <2>2. \A x \in Execution : <<x, session[r]>> \notin returned
    BY DEF IInv, SessionsOK
  <2>. QED
    BY <2>1, <2>2
<1>. QED
  BY <1>1, AlwaysIInv, PTL

-----------------------------------------------------------------------------
(* The budget: what a loop that asks before every step can rely on *)

NotLess(u, v) == u.steps <= v.steps /\ u.calls <= v.calls /\ u.elapsed <= v.elapsed

\* The lines stay behind: none that was reached is taken back as more is used.
THEOREM LinesStay ==
    ASSUME NEW b, Configured(b), NEW u \in Usage, NEW v \in Usage, NotLess(u, v)
    PROVE  /\ Convergence(b, u) => Convergence(b, v)
           /\ Seal(b, u) => Seal(b, v)
           /\ HardStop(b, u) => HardStop(b, v)
           /\ CallsExhausted(b, u) => CallsExhausted(b, v)
<1>. USE DEF Configured, Positive
<1>1. /\ u.steps \in Nat /\ u.calls \in Nat /\ u.elapsed \in Nat
      /\ v.steps \in Nat /\ v.calls \in Nat /\ v.elapsed \in Nat
      /\ u.steps <= v.steps /\ u.calls <= v.calls /\ u.elapsed <= v.elapsed
      /\ b.steps \in Nat /\ b.calls \in Nat /\ b.clock \in Nat \cup {None}
  BY DEF Usage, NotLess
<1>2. /\ RemainingSteps(b, v) \in Nat /\ RemainingSteps(b, u) \in Nat
      /\ RemainingSteps(b, v) <= RemainingSteps(b, u)
  BY <1>1 DEF RemainingSteps, Remaining
<1>3. CallsExhausted(b, u) => CallsExhausted(b, v)
  BY <1>1 DEF CallsExhausted, Remaining
<1>4. b.clock # None =>
         /\ RemainingClock(b, v) \in Nat /\ RemainingClock(b, u) \in Nat
         /\ RemainingClock(b, v) <= RemainingClock(b, u)
  BY <1>1 DEF RemainingClock, Remaining
<1>5. Convergence(b, u) => Convergence(b, v)
  <2>1. RemainingSteps(b, v) * b.ratio.den <= RemainingSteps(b, u) * b.ratio.den
    BY <1>2
  <2>. QED
    BY <1>2, <2>1 DEF Convergence
<1>6. Seal(b, u) => Seal(b, v)
  BY <1>2, <1>4 DEF Seal
<1>7. HardStop(b, u) => HardStop(b, v)
  BY <1>2, <1>4 DEF HardStop
<1>. QED
  BY <1>3, <1>5, <1>6, <1>7

\* The lines are reached in their order, so a loop that asks in time converges
\* and prepares its final state before it has to stop: steps run out only
\* behind the convergence line, and the hard stop comes only behind the seal
\* line, unless a budget keeps no steps for it (seal_steps_remaining may be 0).
THEOREM LinesInOrder ==
    ASSUME NEW b, Configured(b), NEW u \in Usage, HardStop(b, u)
    PROVE  /\ RemainingSteps(b, u) = 0 => Convergence(b, u)
           /\ b.sealSteps > 0 => Seal(b, u)
<1>1. b.ratio.den \in Nat /\ b.ratio.num * b.steps > 0
  BY DEF Configured, Positive
<1>2. RemainingSteps(b, u) = 0 => Convergence(b, u)
  BY <1>1 DEF Convergence
<1>3. b.sealSteps > 0 => Seal(b, u)
  BY DEF Configured, HardStop, Seal
<1>. QED
  BY <1>2, <1>3

\* A budget smaller than what it keeps for the end is sealed before the first
\* step: max_official_steps is not compared with seal_steps_remaining, nor
\* task_wall_clock_s with the reserves.
THEOREM SealedFromTheStart ==
    ASSUME NEW b, Configured(b)
    PROVE  Seal(b, [steps |-> 0, calls |-> 0, elapsed |-> 0]) <=>
             \/ b.steps < b.sealSteps
             \/ b.clock # None /\ b.clock <= b.emitReserve + b.serializeReserve
BY DEF Configured, Positive, Seal, RemainingSteps, RemainingClock, Remaining
=============================================================================
