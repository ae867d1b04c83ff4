----------------------------- MODULE SchedAbs -----------------------------
(***************************************************************************)
(* What the scheduler of kernel/proc.c promises its callers, without       *)
(* saying how: the CPU is granted to one ready process at a time, a        *)
(* process gives it up by waiting (ready again) or by blocking, a blocked  *)
(* process only becomes ready, and no process waits for the CPU for ever.  *)
(***************************************************************************)
CONSTANT Procs

VARIABLE phase      \* phase[p] \in {"ready", "run", "blocked"}

Init == phase = [p \in Procs |-> "ready"]

Grant(p) == /\ phase[p] = "ready"
            /\ \A q \in Procs : phase[q] # "run"
            /\ phase' = [phase EXCEPT ![p] = "run"]

\* The process that has the CPU gives it up; the interrupt that preempts it
\* may make the processes of S ready in the same step.
Release(p, S, to) ==
    /\ phase[p] = "run"
    /\ phase' = [q \in Procs |-> IF q = p THEN to
                                 ELSE IF q \in S THEN "ready" ELSE phase[q]]

Wake(S) == phase' = [q \in Procs |-> IF q \in S THEN "ready" ELSE phase[q]]

Blocked == {q \in Procs : phase[q] = "blocked"}

Next == \/ \E p \in Procs : Grant(p)
        \/ \E p \in Procs, S \in SUBSET Blocked, to \in {"ready", "blocked"} :
              Release(p, S, to)
        \/ \E S \in SUBSET Blocked : Wake(S)

\* The promise of progress: a process that is ready again and again while the
\* CPU is free is granted the CPU.
Fairness == \A p \in Procs : SF_phase(Grant(p))

Spec == Init /\ [][Next]_phase /\ Fairness
=============================================================================
