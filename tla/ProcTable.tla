----------------------------- MODULE ProcTable -----------------------------
(***************************************************************************)
(* The process table of kernel/proc.c as a value: the states a slot can    *)
(* be in, the slot scheduler() picks next, and the effect of wakeup().     *)
(* The scan of the table runs with interrupts off, so each operator below  *)
(* is one atomic piece of the handlers that use it.                        *)
(***************************************************************************)
EXTENDS Integers

CONSTANT N          \* MAX_PROC_COUNT, the number of slots of proc_table

ASSUME NAssumption == N \in Nat \ {0}

Slots == 0 .. N - 1

\* enum Proc_State (the spelling is the source's).
States == {"UNUSED", "BUILDING", "NEW", "READY", "RUNING", "SLEEPING", "ZOMBIE"}

\* Mutant: a process under construction is run.
RunnableBuilding(st) == {p \in Slots : st[p] \in {"READY", "NEW", "BUILDING"}}

\* The slots scheduler() may switch to: a READY process, or a NEW one.
Runnable(st) == {p \in Slots : st[p] \in {"READY", "NEW"}}

\* How many other slots the scan starting at round_robin_index = rr looks at
\* before it looks at slot p.
Distance(rr, p) == IF p >= rr THEN p - rr ELSE p - rr + N

\* p is the slot the round-robin scan finds first.
IsNext(st, rr, p) == /\ p \in Runnable(st)
                     /\ \A q \in Runnable(st) : Distance(rr, p) <= Distance(rr, q)

\* Mutants: every scan begins at slot 0; the index stays where it found p.
AfterRestarts(p) == 0
AfterStays(p) == p

\* round_robin_index after the scan stopped at slot p.
After(p) == IF p + 1 >= N THEN 0 ELSE p + 1

\* wakeup() for each channel of C: every process asleep on one becomes READY.
Woken(st, chan, C) ==
    [p \in Slots |-> IF st[p] = "SLEEPING" /\ chan[p] \in C THEN "READY" ELSE st[p]]

\* proc_alloc() takes the first UNUSED slot, sys_wait() the first zombie child.
IsFirst(S, p) == p \in S /\ \A q \in S : p <= q
=============================================================================
