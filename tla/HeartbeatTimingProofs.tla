----------------------- MODULE HeartbeatTimingProofs -----------------------
(***************************************************************************)
(* Proofs about HeartbeatTiming, for every policy the class accepts and    *)
(* any lateness, boot time and poll interval.                              *)
(***************************************************************************)
EXTENDS HeartbeatTiming, TLAPS

-----------------------------------------------------------------------------
(* The inductive invariant: how the ages are related *)

\* A Worker that runs is not later than it may be; before its first payload it
\* is as old as its lifecycle.
Punctual ==
    /\ proc = "boot" => sinceBeat = started /\ sinceBeat <= BootTime
    /\ proc = "up" => sinceBeat <= policy.interval + Slack

\* A payload that is still in the pipe was sent after the last poll, and one
\* that was read is at most a poll older than the time it was read at.
Polled ==
    /\ sincePoll <= PollEvery
    /\ inPipe => sinceBeat <= sincePoll
    /\ received # None => sinceBeat <= received + PollEvery

\* The last payload of a running Worker is in the pipe or was read after it
\* was sent.
Heard == proc = "up" /\ ~inPipe => received # None /\ received <= sinceBeat

\* What a verdict said at the poll that gave it, as many ticks later as that
\* poll is ago; there is none only until the first poll.
Verdict ==
    /\ verdict = None => started = sincePoll
    /\ verdict = "alive" =>
          \/ sinceBeat <= policy.stale + PollEvery + sincePoll
          \/ started <= policy.grace + sincePoll

IInv ==
    /\ TypeOK
    /\ Punctual /\ Polled /\ Heard /\ Verdict
    /\ NoFalseExpiry /\ AliveIsRecent

USE TimingAssumption

\* The bound on ages is never reached by one that decides a verdict.
LEMMA CapIsFar ==
    ASSUME policy \in Policy
    PROVE  /\ policy.interval \in Nat /\ policy.stale \in Nat /\ policy.grace \in Nat
           /\ policy.stale + 2 * PollEvery < AgeCap /\ policy.grace + 2 * PollEvery < AgeCap
BY DEF Policy

LEMMA InitIInv == Init => IInv
<1>. SUFFICES ASSUME Init PROVE IInv
  OBVIOUS
<1>1. TypeOK
  <2>1. 0 \in Age
    BY DEF Age
  <2>. QED
    BY <2>1 DEF Init, TypeOK
<1>2. Punctual /\ Polled /\ Heard /\ Verdict
  BY DEF Init, Punctual, Polled, Heard, Verdict
<1>3. NoFalseExpiry /\ AliveIsRecent
  <2>1. verdict \notin {"alive", "expired"}
    BY DEF Init
  <2>. QED
    BY <2>1 DEF NoFalseExpiry, AliveIsRecent
<1>. QED
  BY <1>1, <1>2, <1>3 DEF IInv

LEMMA WorkerStep ==
    ASSUME IInv, Beat \/ Freeze \/ Exit
    PROVE  IInv'
<1>. USE DEF IInv, TypeOK, Age, workerVars, parentVars
<1>1. CASE Beat
  <2>1. TypeOK'
    BY <1>1 DEF Beat
  <2>2. Punctual' /\ Polled' /\ Heard' /\ Verdict'
    BY <1>1, CapIsFar DEF Beat, Punctual, Polled, Heard, Verdict
  <2>3. NoFalseExpiry' /\ AliveIsRecent'
    BY <1>1, CapIsFar DEF Beat, NoFalseExpiry, AliveIsRecent
  <2>. QED
    BY <2>1, <2>2, <2>3
<1>2. CASE Freeze \/ Exit
  <2>1. TypeOK' /\ Punctual' /\ Polled' /\ Heard' /\ Verdict'
    BY <1>2 DEF Freeze, Exit, Punctual, Polled, Heard, Verdict
  <2>2. NoFalseExpiry' /\ AliveIsRecent'
    BY <1>2 DEF Freeze, Exit, NoFalseExpiry, AliveIsRecent
  <2>. QED
    BY <2>1, <2>2
<1>. QED
  BY <1>1, <1>2

LEMMA DrainStep ==
    ASSUME IInv, Drain
    PROVE  IInv'
<1>. USE DEF IInv, TypeOK, Age, Drain, Stamp
<1>1. TypeOK'
  <2>1. received' \in Age \cup {None} /\ (received' # None => received' <= started)
    OBVIOUS
  <2>2. proc = "boot" => ~inPipe' /\ received' = None
    OBVIOUS
  <2>3. 0 \in Age
    OBVIOUS
  <2>. QED
    BY <2>1, <2>2, <2>3
<1>. Punctual'
  BY DEF Punctual
<1>2. Polled' /\ Heard' /\ Verdict'
  BY DEF Polled, Heard, Verdict
<1>3. NoFalseExpiry' /\ AliveIsRecent'
  BY DEF NoFalseExpiry, AliveIsRecent
<1>. QED
  BY <1>1, <1>2, <1>3

\* What a poll reads decides its verdict.
LEMMA PollStep ==
    ASSUME IInv, Poll
    PROVE  IInv'
<1>. USE DEF IInv, TypeOK, Age, Poll, Stamp
<1>1. TypeOK'
  <2>1. verdict' \in {"alive", "expired", "exited"}
    BY DEF Status
  <2>2. received' \in Age \cup {None} /\ (received' # None => received' <= started)
    OBVIOUS
  <2>3. proc = "boot" => ~inPipe' /\ received' = None
    OBVIOUS
  <2>4. 0 \in Age
    OBVIOUS
  <2>. QED
    BY <2>1, <2>2, <2>3, <2>4
<1>. Punctual'
  BY DEF Punctual
<1>2. Polled' /\ Heard'
  BY DEF Polled, Heard
<1>3. NoFalseExpiry'
  <2>. SUFFICES ASSUME policy.stale >= policy.interval + Slack,
                       policy.grace >= BootTime, proc \in {"boot", "up"}
                PROVE  verdict' # "expired"
    BY DEF NoFalseExpiry
  <2>1. CASE proc = "boot"
    <3>1. received' = None /\ started <= policy.grace
      BY <2>1, CapIsFar DEF Punctual
    <3>. QED
      BY <2>1, <3>1 DEF Status
  <2>2. CASE proc = "up"
    <3>1. received' \in Nat /\ received' <= policy.stale
      BY <2>2, CapIsFar DEF Punctual, Heard
    <3>. QED
      BY <2>2, <3>1 DEF Status
  <2>. QED
    BY <2>1, <2>2
<1>4. AliveIsRecent'
  <2>. SUFFICES ASSUME verdict' = "alive", ~ started <= policy.grace
                PROVE  sinceBeat <= policy.stale + PollEvery
    BY DEF AliveIsRecent
  <2>1. received' # None /\ received' <= policy.stale
    BY DEF Status
  <2>. QED
    BY <2>1, CapIsFar DEF Polled
<1>5. Verdict'
  <2>1. verdict' # None /\ sincePoll' = 0
    BY DEF Status
  <2>. QED
    BY <1>4, <2>1, CapIsFar DEF AliveIsRecent, Verdict
<1>. QED
  BY <1>1, <1>2, <1>3, <1>4, <1>5

LEMMA TickStep ==
    ASSUME IInv, Tick
    PROVE  IInv'
<1>. USE DEF IInv, TypeOK, Age
<1>1. /\ sinceBeat' \in Age /\ started' \in Age /\ sincePoll' = sincePoll + 1
      /\ received = None => received' = None
      /\ received # None => received' \in Age
      /\ UNCHANGED <<policy, proc, inPipe, verdict>>
  BY CapIsFar DEF Tick, Older, Polled
<1>2. TypeOK'
  BY <1>1, CapIsFar DEF Tick, Older, Polled
<1>3. Punctual' /\ Heard'
  BY <1>1, CapIsFar DEF Tick, Older, Punctual, Heard
<1>4. Polled'
  BY <1>1, CapIsFar DEF Tick, Older, Polled
<1>5. NoFalseExpiry' /\ AliveIsRecent'
  BY <1>1 DEF NoFalseExpiry, AliveIsRecent
<1>6. Verdict'
  BY <1>1, CapIsFar DEF Tick, Older, Verdict, Polled
<1>. QED
  BY <1>2, <1>3, <1>4, <1>5, <1>6

-----------------------------------------------------------------------------
(* The theorems *)

LEMMA NextIInv == IInv /\ [Next]_vars => IInv'
<1>1. ASSUME IInv, UNCHANGED vars PROVE IInv'
  BY <1>1 DEF vars, workerVars, parentVars, IInv, TypeOK, Punctual, Polled, Heard,
     Verdict, NoFalseExpiry, AliveIsRecent
<1>. QED
  BY <1>1, WorkerStep, DrainStep, PollStep, TickStep DEF Next

LEMMA AlwaysIInv == Spec => []IInv
BY InitIInv, NextIInv, PTL DEF Spec

\* The ages, the policy and the verdict have their types, and nothing has been
\* received from a Worker that is still booting.
THEOREM TypeCorrect == Spec => []TypeOK
<1>1. IInv => TypeOK
  BY DEF IInv
<1>. QED
  BY <1>1, AlwaysIInv, PTL

\* heartbeat_status never calls a Worker expired that sends in time, however
\* the polls and the drains fall, if the policy leaves room for its lateness.
THEOREM PunctualNeverExpires == Spec => []NoFalseExpiry
<1>1. IInv => NoFalseExpiry
  BY DEF IInv
<1>. QED
  BY <1>1, AlwaysIInv, PTL

\* A Worker that heartbeat_status calls alive was heard from at most
\* stale_after_s and one poll ago, or is within its grace period.
THEOREM AliveWasRecent == Spec => []AliveIsRecent
<1>1. IInv => AliveIsRecent
  BY DEF IInv
<1>. QED
  BY <1>1, AlwaysIInv, PTL

\* A Worker that has been silent for stale_after_s and two polls, and is out of
\* its grace period by one, is not called alive: what liveness says of a freeze
\* (FreezeIsSeen), with the time it takes at most.
THEOREM SilenceIsSeen == Spec => []SilenceIsSeenInTime
<1>1. IInv => SilenceIsSeenInTime
  <2>. SUFFICES ASSUME IInv, sinceBeat > policy.stale + 2 * PollEvery,
                       started > policy.grace + PollEvery
                PROVE  verdict \in {"expired", "exited"}
    BY DEF SilenceIsSeenInTime
  <2>. USE DEF IInv, TypeOK, Age
  <2>1. verdict # "alive"
    BY CapIsFar DEF Verdict, Polled
  <2>2. verdict # None
    BY CapIsFar DEF Verdict, Polled
  <2>. QED
    BY <2>1, <2>2
<1>. QED
  BY <1>1, AlwaysIInv, PTL
=============================================================================
