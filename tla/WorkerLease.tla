---------------------------- MODULE WorkerLease ----------------------------
(***************************************************************************)
(* What the Parent promises its Workers (architecture 7.3): an assignment  *)
(* names an execution, a task and a CDP URL, at most one Worker owns each  *)
(* of the three at a time, and the ownership ends only after the Worker's  *)
(* process is confirmed gone.  WorkerPool is shown to implement this.      *)
(***************************************************************************)
CONSTANT Assignment   \* records with the fields exec, task and url

VARIABLES held,      \* assignments whose leases are reserved
          running    \* assignments with a live Worker process

vars == <<held, running>>

\* Two assignments that compete for the same execution, task or browser.
Conflict(a, b) == a.exec = b.exec \/ a.task = b.task \/ a.url = b.url

Init == held = {} /\ running = {}

Acquire(a) ==
    /\ \A h \in held : ~Conflict(a, h)
    /\ held' = held \cup {a}
    /\ UNCHANGED running

Run(a) ==
    /\ a \in held
    /\ running' = running \cup {a}
    /\ UNCHANGED held

Stop(a) ==
    /\ running' = running \ {a}
    /\ UNCHANGED held

Release(a) ==
    /\ a \notin running
    /\ held' = held \ {a}
    /\ UNCHANGED running

Next == \E a \in Assignment : Acquire(a) \/ Run(a) \/ Stop(a) \/ Release(a)

Spec == Init /\ [][Next]_vars

\* Two distinct live Workers never share an execution, a task or a browser,
\* and every live Worker holds its leases.
Exclusive ==
    /\ running \subseteq held
    /\ \A a, b \in held : a # b => ~Conflict(a, b)
=============================================================================
