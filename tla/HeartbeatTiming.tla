--------------------------- MODULE HeartbeatTiming ---------------------------
(***************************************************************************)
(* supervisor/heartbeat.py in time: whether the verdicts of heartbeat_status *)
(* on one Worker are right, for every HeartbeatPolicy the class accepts.   *)
(* WorkerPool has the interleavings of one poll; here a poll is one step   *)
(* and what counts is how long things take, in ticks.                      *)
(***************************************************************************)
EXTENDS Integers

CONSTANTS
    Seconds,     \* thresholds a policy may have
    Slack,       \* lateness of a payload: thread wake-up, feeder and pipe
    BootTime,    \* from registration to the first payload, at most
    PollEvery,   \* the Parent polls at least this often
    AgeCap,      \* bound: ages beyond it are not told apart
    None

ASSUME TimingAssumption ==
    /\ Seconds \subseteq Nat
    /\ {Slack, BootTime, PollEvery, AgeCap} \subseteq Nat
    /\ PollEvery > 0
    /\ \A s \in Seconds : s + 2 * PollEvery < AgeCap
    /\ None \notin Nat /\ None \notin {"alive", "expired", "exited"}

VARIABLES
    policy,       \* interval_s, stale_after_s and startup_grace_s
    proc,         \* the Worker's process
    inPipe,       \* a payload can be read from the queue
    sinceBeat,    \* age of the last payload, of the process if there is none
    started,      \* age of the lifecycle
    received,     \* age of last_received_at_monotonic, or None
    sincePoll,    \* age of the last poll
    verdict       \* what the last poll returned

workerVars == <<proc, inPipe, sinceBeat>>
parentVars == <<started, received, sincePoll, verdict>>
vars == <<policy, workerVars, parentVars>>

Age == 0..AgeCap

\* HeartbeatPolicy._validate_contract
Policy ==
    {p \in [interval : Seconds \cap 2..5, stale : Seconds, grace : Seconds] :
        p.stale >= p.interval /\ p.grace >= p.interval}

TypeOK ==
    /\ policy \in Policy
    /\ proc \in {"boot", "up", "frozen", "gone"}
    /\ inPipe \in BOOLEAN
    /\ {sinceBeat, started, sincePoll} \subseteq Age
    /\ received \in Age \cup {None}
    /\ verdict \in {None, "alive", "expired", "exited"}
    /\ received # None => received <= started
    /\ proc = "boot" => ~inPipe /\ received = None

Init ==
    /\ policy \in Policy
    /\ proc = "boot"
    /\ inPipe = FALSE
    /\ sinceBeat = 0
    /\ started = 0
    /\ received = None
    /\ sincePoll = 0
    /\ verdict = None

-----------------------------------------------------------------------------
(* The Worker: emit_heartbeat and its thread *)

Beat ==
    /\ \/ proc = "boot"
       \/ proc = "up" /\ sinceBeat >= policy.interval
    /\ proc' = "up"
    /\ inPipe' = TRUE
    /\ sinceBeat' = 0
    /\ UNCHANGED <<policy, parentVars>>

\* Every thread of the Worker stops: SIGSTOP, swapping, a lock held in C code.
Freeze ==
    /\ proc \in {"boot", "up"}
    /\ proc' = "frozen"
    /\ UNCHANGED <<policy, inPipe, sinceBeat, parentVars>>

Exit ==
    /\ proc # "gone"
    /\ proc' = "gone"
    /\ UNCHANGED <<policy, inPipe, sinceBeat, parentVars>>

-----------------------------------------------------------------------------
(* The Parent *)

\* MUTANT: every drain counts as a sign of life.
StampAlways == received' = 0 /\ inPipe' = FALSE

\* _drain_heartbeats: what it reads is stamped with the time of the drain.
Stamp ==
    /\ received' = IF inPipe THEN 0 ELSE received
    /\ inPipe' = FALSE

\* MUTANT: no grace period: a Worker that has never been heard is alive.
StatusUngraced(heard) ==
    IF proc = "gone" THEN "exited"
    ELSE IF heard = None \/ heard <= policy.stale THEN "alive" ELSE "expired"

\* HeartbeatMonitor.status, where `heard' is the age of the last payload
Status(heard) ==
    IF proc = "gone" THEN "exited"
    ELSE IF heard = None
         THEN IF started <= policy.grace THEN "alive" ELSE "expired"
         ELSE IF heard <= policy.stale THEN "alive" ELSE "expired"

\* latest_heartbeat and drain_heartbeats
Drain ==
    /\ Stamp
    /\ UNCHANGED <<policy, proc, sinceBeat, started, sincePoll, verdict>>

\* MUTANT: the verdict is given before the queue is drained.
PollUndrained ==
    /\ Stamp
    /\ verdict' = Status(received)
    /\ sincePoll' = 0
    /\ UNCHANGED <<policy, proc, sinceBeat, started>>

\* heartbeat_status
Poll ==
    /\ Stamp
    /\ verdict' = Status(received')
    /\ sincePoll' = 0
    /\ UNCHANGED <<policy, proc, sinceBeat, started>>

-----------------------------------------------------------------------------
Older(age) == IF age = None \/ age = AgeCap THEN age ELSE age + 1

\* A Worker that runs is never later than it may be, nor is the Parent.
Tick ==
    /\ proc = "boot" => sinceBeat < BootTime
    /\ proc = "up" => sinceBeat < policy.interval + Slack
    /\ sincePoll < PollEvery
    /\ sinceBeat' = Older(sinceBeat)
    /\ started' = Older(started)
    /\ received' = Older(received)
    /\ sincePoll' = Older(sincePoll)
    /\ UNCHANGED <<policy, proc, inPipe, verdict>>

Next == Beat \/ Freeze \/ Exit \/ Drain \/ Poll \/ Tick

Spec == Init /\ [][Next]_vars

\* Time passes and the Parent polls.  Of the Worker nothing is assumed.
LiveSpec == Spec /\ WF_vars(Tick) /\ WF_vars(Poll)

-----------------------------------------------------------------------------
(* Properties *)

\* A Worker that sends in time is never called expired, however seldom the
\* Parent looks, when stale_after_s and startup_grace_s leave room for the
\* lateness of a payload.  (The class itself only asks for stale_after_s >=
\* interval_s, which is enough if nothing is ever late.)
NoFalseExpiry ==
    policy.stale >= policy.interval + Slack /\ policy.grace >= BootTime =>
        (verdict = "expired" => proc \in {"frozen", "gone"})

\* "alive" is no older than stale_after_s plus the time between two polls:
\* payloads are stamped when they are drained, not when they were sent, so a
\* Worker that froze long ago is alive once more on the first poll after it.
AliveIsRecent ==
    verdict = "alive" /\ sincePoll = 0 =>
        sinceBeat <= policy.stale + PollEvery \/ started <= policy.grace

\* A Worker that falls silent, before its first payload or after any, is no
\* longer called alive when stale_after_s and two intervals between polls are
\* over: one until its last payload is stamped, one until the next look.
SilenceIsSeenInTime ==
    sinceBeat > policy.stale + 2 * PollEvery /\ started > policy.grace + PollEvery =>
        verdict \in {"expired", "exited"}

\* A Worker that freezes is found out, even before its first payload.
FreezeIsSeen == proc = "frozen" ~> verdict \in {"expired", "exited"}
=============================================================================
