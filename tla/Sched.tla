------------------------------- MODULE Sched -------------------------------
(***************************************************************************)
(* The preemptive round-robin scheduler: scheduler(), yield(), sleep() and *)
(* wakeup() of kernel/proc.c, kernel_irq() of kernel/trap.c with its       *)
(* accounting of the time quantum, and the two context switches of         *)
(* kernel/trampoline.s.  What a process computes is left out: in user mode *)
(* it may at any time trap into a system call that yields or sleeps, or be *)
(* interrupted.                                                            *)
(*                                                                         *)
(* The kernel is not preemptive: an interrupt taken in kernel mode runs    *)
(* device_interrupt() and returns (kernel_vector), so a process gives up   *)
(* the CPU in scheduler() only.  The scan of proc_table runs with          *)
(* interrupts off and is one step; they are on in the idle loop.           *)
(***************************************************************************)
EXTENDS ProcTable

CONSTANTS QUANTUM,      \* timer ticks a process is given when it is dispatched
          TICKMOD,      \* 2^8: pcb->ticks is a uint8_t
          Chans,        \* the channels interrupt handlers wake (&systicks, ...)
          Null          \* NULL: no process, no channel

ASSUME TicksAssumption == /\ TICKMOD \in Nat /\ QUANTUM \in 1 .. TICKMOD - 1
                          /\ Null \notin Chans /\ Null \notin Slots

VARIABLES state,        \* proc_table[p].state
          channel,      \* pcb->channel
          ticks,        \* pcb->ticks
          current,      \* current_process
          rr,           \* round_robin_index
          cpu,          \* "user", "kernel": where current runs; "sched": in scheduler()
          pc,           \* where p goes on when it has the CPU
          ran           \* history: user ticks of current since it was dispatched

vars == <<state, channel, ticks, current, rr, cpu, pc, ran>>

\* The system as main() hands it over: every process waits for its first run.
\* (All N exist from the start; their creation and end are module Proc.)
Init == /\ state = [p \in Slots |-> "NEW"]
        /\ channel = [p \in Slots |-> Null]
        /\ ticks = [p \in Slots |-> 0]
        /\ current = Null
        /\ rr = 0
        /\ cpu = "sched"
        /\ pc = [p \in Slots |-> "trapret"]
        /\ ran = 0

\* device_interrupt() wakes the processes that sleep on the channels C of the
\* devices it finds pending.
WokenBy(C) == Woken(state, channel, C)

\* scheduler() found a process: it gets a fresh quantum and the context switch
\* resumes it (sleep() clears the channel when it resumes).
Dispatch ==
    /\ cpu = "sched"
    /\ \E p \in Slots :
          /\ IsNext(state, rr, p)
          /\ state' = [state EXCEPT ![p] = "RUNING"]
          /\ current' = p
          /\ rr' = After(p)
          /\ ticks' = [ticks EXCEPT ![p] = QUANTUM]
          /\ channel' = [channel EXCEPT ![p] = Null]
    /\ cpu' = "kernel"
    /\ ran' = 0
    /\ UNCHANGED pc

\* The idle kernel takes an interrupt, in the window scheduler() opens when no slot
\* is runnable: kernel_vector calls device_interrupt() only.  In the other windows
\* of the kernel it wakes what the same interrupt wakes in user mode, a moment
\* earlier (KernelIrqDevice).
KernelVector ==
    /\ cpu = "sched" /\ Runnable(state) = {}
    /\ \E C \in SUBSET Chans : state' = WokenBy(C)
    /\ UNCHANGED <<channel, ticks, current, rr, cpu, pc, ran>>

\* kernel_irq() for an interrupt in user mode that is not the timer's.
KernelIrqDevice ==
    /\ cpu = "user"
    /\ \E C \in SUBSET Chans : state' = WokenBy(C)
    /\ UNCHANGED <<channel, ticks, current, rr, cpu, pc, ran>>

\* --ticks in kernel_irq(): the arithmetic of a uint8_t.
Decremented(t) == IF t = 0 THEN TICKMOD - 1 ELSE t - 1

\* Mutant: the decremented value is not stored.
KernelIrqTickNotStored ==
    /\ cpu = "user"
    /\ Decremented(ticks[current]) # 0
    /\ \E C \in SUBSET Chans : state' = WokenBy(C)
    /\ ran' = ran + 1
    /\ UNCHANGED <<channel, ticks, current, rr, cpu, pc>>

\* kernel_irq() for a timer tick that leaves the process some of its quantum.
KernelIrqTick ==
    /\ cpu = "user"
    /\ Decremented(ticks[current]) # 0
    /\ \E C \in SUBSET Chans : state' = WokenBy(C)
    /\ ticks' = [ticks EXCEPT ![current] = Decremented(@)]
    /\ ran' = ran + 1
    /\ UNCHANGED <<channel, current, rr, cpu, pc>>

\* kernel_irq() for the tick that ends the quantum, up to the switch in yield().
KernelIrqExpire ==
    /\ cpu = "user"
    /\ Decremented(ticks[current]) = 0
    /\ \E C \in SUBSET Chans : state' = [WokenBy(C) EXCEPT ![current] = "READY"]
    /\ ran' = ran + 1
    /\ cpu' = "sched"
    /\ pc' = [pc EXCEPT ![current] = "irq"]
    /\ UNCHANGED <<channel, ticks, current, rr>>

\* kernel_irq() goes on after yield() returned: it stores its local ticks, which
\* is still the 0 that made it yield, and returns to user mode.
KernelIrqResume ==
    /\ cpu = "kernel" /\ pc[current] = "irq"
    /\ ticks' = [ticks EXCEPT ![current] = 0]
    /\ cpu' = "user"
    /\ UNCHANGED <<state, channel, current, rr, pc, ran>>

\* Mutant: yield() does not make the process READY.
SysYieldKeepsState ==
    /\ \/ cpu = "user"
       \/ cpu = "kernel" /\ pc[current] = "syscall"
    /\ cpu' = "sched"
    /\ pc' = [pc EXCEPT ![current] = "syscall"]
    /\ UNCHANGED <<state, channel, ticks, current, rr, ran>>

\* A system call that calls yield() (uart_putc(), sys_fork()).
SysYield ==
    /\ \/ cpu = "user"
       \/ cpu = "kernel" /\ pc[current] = "syscall"
    /\ state' = [state EXCEPT ![current] = "READY"]
    /\ cpu' = "sched"
    /\ pc' = [pc EXCEPT ![current] = "syscall"]
    /\ UNCHANGED <<channel, ticks, current, rr, ran>>

\* A system call that sleeps on a channel, for the first time or once more.
SysSleepOn(c) ==
    /\ \/ cpu = "user"
       \/ cpu = "kernel" /\ pc[current] = "syscall"
    /\ channel' = [channel EXCEPT ![current] = c]
    /\ state' = [state EXCEPT ![current] = "SLEEPING"]
    /\ cpu' = "sched"
    /\ pc' = [pc EXCEPT ![current] = "syscall"]
    /\ UNCHANGED <<ticks, current, rr, ran>>

\* The system call, or the first switch to a new process, returns to user mode.
ReturnFromTrap ==
    /\ cpu = "kernel" /\ pc[current] \in {"syscall", "trapret"}
    /\ cpu' = "user"
    /\ UNCHANGED <<state, channel, ticks, current, rr, pc, ran>>

KernelIrqTimer == KernelIrqTick \/ KernelIrqExpire

Next == \/ Dispatch \/ KernelVector \/ KernelIrqDevice
        \/ KernelIrqTick \/ KernelIrqExpire \/ KernelIrqResume
        \/ SysYield \/ ReturnFromTrap
        \/ \E c \in Chans : SysSleepOn(c)

(***************************************************************************)
(* Fairness: the CPU executes kernel code to its next switch (Dispatch,    *)
(* and the two ways a resumed handler returns), and the timer, which       *)
(* reloads itself, interrupts user code that never traps by itself.  When  *)
(* a sleeper is woken is up to the device: nothing is assumed.             *)
(***************************************************************************)
Fairness == /\ WF_vars(Dispatch)
            /\ WF_vars(KernelIrqTimer)
            /\ WF_vars(KernelIrqResume \/ ReturnFromTrap)

Spec == Init /\ [][Next]_vars /\ Fairness

-----------------------------------------------------------------------------
(***************************************************************************)
(* Properties.                                                             *)
(***************************************************************************)

\* Every variable has its type.
TypeOK == /\ state \in [Slots -> {"NEW", "READY", "RUNING", "SLEEPING"}]
          /\ channel \in [Slots -> Chans \cup {Null}]
          /\ ticks \in [Slots -> 0 .. TICKMOD - 1]
          /\ current \in Slots \cup {Null}
          /\ rr \in Slots
          /\ cpu \in {"user", "kernel", "sched"}
          /\ pc \in [Slots -> {"trapret", "irq", "syscall"}]
          /\ ran \in Nat

\* A process is RUNING exactly when it is current_process and scheduler() is
\* not looking for another one: two processes never both have the CPU, and
\* scheduler() is never entered by a process it would not pick again.
OneRunning == \A p \in Slots :
                 state[p] = "RUNING" <=> cpu # "sched" /\ current = p

\* kernel_irq() preempts a process that never traps by itself after at most
\* 2^8 ticks, whatever value pcb->ticks is left with.
SliceBound == ran <= TICKMOD

\* The documented length of a time slice: QUANTUM is the number of timer ticks
\* until the context switch (common.h).  kernel_irq() breaks it by storing,
\* after yield(), the 0 it computed before.
QuantumRespected == ran <= QUANTUM

\* Round robin: each dispatch of scheduler() brings every other process that
\* waits for the CPU strictly nearer to the front of the scan, so none is
\* passed over more than N - 1 times.
WaitersAdvance ==
    [][cpu = "sched" /\ cpu' # "sched" =>
          \A q \in Runnable(state) : q # current' => Distance(rr', q) < Distance(rr, q)]_vars

\* The scheduler implements its abstract specification, progress included.
Phase(s) == CASE s \in {"NEW", "READY"} -> "ready"
              [] s = "RUNING"           -> "run"
              [] s = "SLEEPING"         -> "blocked"

Abs == INSTANCE SchedAbs WITH Procs <- Slots,
                              phase <- [p \in Slots |-> Phase(state[p])]

ImplementsSchedAbs == Abs!Spec
=============================================================================
