---------------------------- MODULE MCWorkerPool ----------------------------
(* Small instances of WorkerPool. *)
EXTENDS WorkerPool, TLC

AllAssignments == [exec : Exec, task : Task, url : Url]

\* Assignments that never compete: e1 with t1 and u1, e2 with t2 and u2.
CONSTANTS e1, e2, t1, t2, u1, u2
Disjoint == {[exec |-> e1, task |-> t1, url |-> u1],
             [exec |-> e2, task |-> t2, url |-> u2]}

\* Executions, tasks, CDP URLs and processes are interchangeable.
Symmetry == Permutations(Exec) \cup Permutations(Task) \cup Permutations(Url)
            \cup Permutations(Pid)
=============================================================================
