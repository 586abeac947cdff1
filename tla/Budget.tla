------------------------------- MODULE Budget -------------------------------
(***************************************************************************)
(* Budget.assess (core/budget.py): the three lines of a task's budget as   *)
(* functions of what has been used.  No state: a budget and a usage are    *)
(* values.  A task without a wall clock has clock = None.  The ratio of    *)
(* the convergence line is a fraction, and the division it is compared     *)
(* with is exact: rounding can move that line, not its direction.  Time is *)
(* counted in ticks.                                                       *)
(***************************************************************************)
EXTENDS Integers

CONSTANT None

Positive == Nat \ {0}

\* What the validators of Budget accept.
Configured(b) ==
    /\ {b.steps, b.calls} \subseteq Positive
    /\ b.clock \in Positive \cup {None}
    /\ {b.ratio.num, b.ratio.den} \subseteq Positive /\ b.ratio.num < b.ratio.den
    /\ {b.sealSteps, b.emitReserve, b.serializeReserve} \subseteq Nat

\* What assess accepts.
Usage == [steps : Nat, calls : Nat, elapsed : Nat]

Remaining(limit, used) == IF used < limit THEN limit - used ELSE 0

RemainingSteps(b, u) == Remaining(b.steps, u.steps)
RemainingClock(b, u) == Remaining(b.clock, u.elapsed)

\* Less than the ratio of the steps is left.
Convergence(b, u) == RemainingSteps(b, u) * b.ratio.den < b.ratio.num * b.steps

Seal(b, u) ==
    \/ RemainingSteps(b, u) < b.sealSteps
    \/ b.clock # None /\ RemainingClock(b, u) <= b.emitReserve + b.serializeReserve

HardStop(b, u) ==
    \/ RemainingSteps(b, u) = 0
    \/ b.clock # None /\ RemainingClock(b, u) = 0

CallsExhausted(b, u) == Remaining(b.calls, u.calls) = 0
=============================================================================
