----------------------------- MODULE SleepTimer -----------------------------
(***************************************************************************)
(* sys_sleep() of kernel/proc.c against timer_interrupt() of               *)
(* kernel/timer.c.  The two share systicks and next_wakeup_call: the       *)
(* system call computes its deadline and lowers next_wakeup_call with      *)
(* interrupts off, up to the switch in sleep(); the timer only calls       *)
(* wakeup(), for all sleepers at once, when next_wakeup_call has come.     *)
(*                                                                         *)
(* When a woken process gets the CPU back is left open (module Sched).     *)
(***************************************************************************)
EXTENDS Integers

CONSTANTS Procs,
          TMAX,         \* 2^32 - 1: systicks is a uint32_t
          Requests      \* the numbers of ticks user programs ask for

ASSUME TimerAssumption == TMAX \in Nat \ {0} /\ Requests \subseteq 0 .. TMAX

VARIABLES systicks,     \* ticks since boot
          next,         \* next_wakeup_call
          st,           \* "user", "asleep" on &systicks, or "ready": in the loop
          total,        \* the local total of the process's sys_sleep()
          want,         \* history: the tick asked for, with no limit of width
          panicked

vars == <<systicks, next, st, total, want, panicked>>

Init == /\ systicks = 0
        /\ next = TMAX
        /\ st = [p \in Procs |-> "user"]
        /\ total = [p \in Procs |-> 0]
        /\ want = [p \in Procs |-> 0]
        /\ panicked = FALSE

\* ticks + systicks as a uint32_t; a sum below systicks is an overflow, and the
\* deadline is capped.
Deadline(t) == LET sum == IF t + systicks > TMAX THEN t + systicks - (TMAX + 1)
                                                 ELSE t + systicks
               IN  IF sum < systicks THEN TMAX ELSE sum

\* Mutant: the last sleeper's deadline replaces an earlier one.
RoundReplaces(p, tot) ==
    IF systicks >= tot
    THEN st' = [st EXCEPT ![p] = "user"] /\ UNCHANGED next
    ELSE st' = [st EXCEPT ![p] = "asleep"] /\ next' = tot

\* One round of the loop: the deadline tot has come, or the process makes sure
\* the timer will call wakeup() by then and sleeps.
Round(p, tot) ==
    IF systicks >= tot
    THEN st' = [st EXCEPT ![p] = "user"] /\ UNCHANGED next
    ELSE /\ st' = [st EXCEPT ![p] = "asleep"]
         /\ next' = IF tot < next THEN tot ELSE next

SysSleep(p, t) ==
    /\ ~panicked /\ st[p] = "user"
    /\ total' = [total EXCEPT ![p] = Deadline(t)]
    /\ want' = [want EXCEPT ![p] = systicks + t]
    /\ Round(p, Deadline(t))
    /\ UNCHANGED <<systicks, panicked>>

\* Mutant: the condition is not checked again.
ResumeReturns(p) ==
    /\ ~panicked /\ st[p] = "ready"
    /\ st' = [st EXCEPT ![p] = "user"]
    /\ UNCHANGED <<systicks, next, total, want, panicked>>

\* sleep() returns after a wakeup() or a sys_kill(); the loop checks again.
Resume(p) ==
    /\ ~panicked /\ st[p] = "ready"
    /\ Round(p, total[p])
    /\ UNCHANGED <<systicks, total, want, panicked>>

\* ++systicks == 0: the clock has run out.
TimerPanics ==
    /\ ~panicked /\ systicks = TMAX
    /\ systicks' = 0
    /\ panicked' = TRUE
    /\ UNCHANGED <<next, st, total, want>>

\* wakeup(&systicks).
WakeSleepers == [p \in Procs |-> IF st[p] = "asleep" THEN "ready" ELSE st[p]]

TimerTicks ==
    /\ ~panicked /\ systicks < TMAX
    /\ systicks' = systicks + 1
    /\ IF systicks + 1 >= next
       THEN st' = WakeSleepers /\ next' = TMAX
       ELSE UNCHANGED <<st, next>>
    /\ UNCHANGED <<total, want, panicked>>

\* sys_kill() of a sleeper makes it ready and leaves next_wakeup_call alone.
SysKill(p) ==
    /\ ~panicked /\ st[p] = "asleep"
    /\ st' = [st EXCEPT ![p] = "ready"]
    /\ UNCHANGED <<systicks, next, total, want, panicked>>

Halted == panicked /\ UNCHANGED vars

Next == \/ \E p \in Procs, t \in Requests : SysSleep(p, t)
        \/ \E p \in Procs : Resume(p) \/ SysKill(p)
        \/ TimerPanics \/ TimerTicks
        \/ Halted

Spec == Init /\ [][Next]_vars

-----------------------------------------------------------------------------
\* Every variable has its type.
TypeOK == /\ systicks \in 0 .. TMAX
          /\ next \in 0 .. TMAX
          /\ st \in [Procs -> {"user", "asleep", "ready"}]
          /\ total \in [Procs -> 0 .. TMAX]
          /\ want \in [Procs -> Nat]
          /\ panicked \in BOOLEAN

\* No process is left asleep past its deadline: for every sleeper the shared
\* next_wakeup_call, which any other sleeper, the timer or a kill may have
\* changed since, lies ahead and not after the sleeper's own deadline.
SleepersCovered == ~panicked => \A p \in Procs : st[p] = "asleep" =>
                                   systicks < next /\ next <= total[p]

\* sys_sleep() never returns before the tick the program asked for, not even
\* after a kill or another sleeper's wakeup(); only a deadline beyond the range
\* of the clock is cut to its end.
NoEarlyReturn ==
    [][\A p \in Procs : st[p] # "user" /\ st'[p] = "user" =>
          systicks >= want[p] \/ systicks = TMAX]_vars
=============================================================================
