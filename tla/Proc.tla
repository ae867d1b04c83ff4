-------------------------------- MODULE Proc --------------------------------
(***************************************************************************)
(* The life of a process: kernel/proc.c (proc_alloc, proc_free, sys_fork,  *)
(* sys_exit, sys_wait, sys_kill, sys_sbrk, run_init_process), the pool of  *)
(* physical frames of kernel/kalloc.c, and the entry to and exit from the  *)
(* kernel of kernel/trap.c.                                                *)
(*                                                                         *)
(* One action runs from one point where the process may lose the CPU to    *)
(* the next: the kernel is not preemptive, and what interrupt handlers     *)
(* share with it (state, channel) is touched with interrupts off.  pc[p]   *)
(* is where p goes on when it next has the CPU.                            *)
(*                                                                         *)
(* Abstracted: frame contents, the time quantum (module Sched: here the    *)
(* timer may end it at any tick), the conditions sys_sleep, sys_read and   *)
(* sys_write wait for (one channel IO, woken at any time), the uid, which  *)
(* nothing ever sets, and the order in which the pool hands frames out.    *)
(* Frame 0xff, which kalloc_init() also pushes, reads as FRAME_UNUSED when *)
(* popped and is not a frame here.                                         *)
(***************************************************************************)
EXTENDS ProcTable, Functions, FiniteSets

CONSTANTS Frames,       \* the frames of the pool when run_init_process() is called
          NoFrame,      \* FRAME_UNUSED
          SEGS,         \* PAGE_TABLE_SIZE
          PAGE,         \* bytes of a segment
          INITTOP,      \* end of the code of init
          PIDMOD,       \* 2^16, the range of next_pid
          IO,           \* a channel woken by interrupt handlers
          Calls,        \* what programs do: the system calls of KernelBrk they use
          Null

Segs == 0 .. SEGS - 1
Syscalls == {"fork", "exit", "wait", "kill", "sbrk", "io", "write", "open",
             "epilogue"}
MEM == SEGS * PAGE      \* 2^16, the bytes of an address space
Pids == 0 .. PIDMOD - 1
InitProc == 0           \* init_process: the first slot proc_alloc() finds

ASSUME ProcAssumption ==
    /\ SEGS \in Nat \ {0} /\ PAGE \in Nat \ {0} /\ INITTOP \in 1 .. PAGE
    /\ INITTOP < SEGS * PAGE
    /\ PIDMOD \in Nat /\ PIDMOD >= 2
    /\ NoFrame \notin Frames /\ Calls \subseteq Syscalls
    /\ IO \notin Slots /\ Null \notin Slots /\ IO # Null

VARIABLES state, channel, parent, pid, killed,  \* Proc and PCB of each slot
          pt, top, kstk,    \* pcb->page_table, pcb->top, kernel_low_memory[0]
          pc, seg, child,   \* where p goes on; the locals of its sys_fork()
          current, rr, cpu, \* current_process, round_robin_index, "run" or "sched"
          free, nextPid,    \* the frames of the pool, next_pid
          panicked,         \* panic() was called
          faults            \* history: what went wrong with the frames, see below

procVars == <<state, channel, parent, pid, killed>>
memVars == <<pt, top, kstk, free, faults>>
ctlVars == <<pc, seg, child, current, rr, cpu>>
vars == <<procVars, memVars, ctlVars, nextPid, panicked>>

NoPages == [s \in Segs |-> NoFrame]
Mapped(p) == {s \in Segs : pt[p][s] # NoFrame}
Alive(p) == state[p] \notin {"UNUSED", "ZOMBIE"}

\* Mutant: zombies are left out.
ChildrenAlive(p) == {c \in Slots : Alive(c) /\ parent[c] = p}

Children(p) == {c \in Slots : state[c] # "UNUSED" /\ parent[c] = p}

\* run_init_process(): init has its kernel stack and one frame.
Init ==
    /\ state = [p \in Slots |-> IF p = InitProc THEN "NEW" ELSE "UNUSED"]
    /\ channel = [p \in Slots |-> Null]
    /\ parent = [p \in Slots |-> Null]
    /\ pid = [p \in Slots |-> IF p = InitProc THEN 1 ELSE 0]
    /\ killed = [p \in Slots |-> FALSE]
    /\ \E k, f \in Frames :
          /\ k # f
          /\ kstk = [p \in Slots |-> IF p = InitProc THEN k ELSE NoFrame]
          /\ pt = [p \in Slots |->
                      IF p = InitProc THEN [NoPages EXCEPT ![0] = f] ELSE NoPages]
          /\ free = Frames \ {k, f}
    /\ top = [p \in Slots |-> IF p = InitProc THEN INITTOP ELSE 0]
    /\ pc = [p \in Slots |-> IF p = InitProc THEN "epilogue" ELSE "none"]
    /\ seg = [p \in Slots |-> 0]
    /\ child = [p \in Slots |-> Null]
    /\ current = Null /\ rr = 0 /\ cpu = "sched"
    /\ nextPid = 2 % PIDMOD
    /\ panicked = FALSE
    /\ faults = {}

(***************************************************************************)
(* History of faults: "double", a frame of the pool was freed; "leak", a   *)
(* frame was dropped without being freed; "shared", a frame in use was     *)
(* freed; "wrap", an sbrk left the address space.                          *)
(***************************************************************************)
DoubleFree(F) == IF F \cap free # {} THEN {"double"} ELSE {}

\* kfree() of each frame of F (kfree() ignores FRAME_UNUSED).
KFree(F, more) == /\ free' = free \cup (F \ {NoFrame})
                  /\ faults' = faults \cup more \cup DoubleFree(F)

Goto(p, l) == pc' = [pc EXCEPT ![p] = l]

\* The kernel has stopped.  The model also ends where a frame in use is freed:
\* kfree() fills it with junk, be it a kernel stack with its PCB, and the next
\* kalloc() hands it out again.
Stopped == panicked \/ "shared" \in faults

\* The running process is at l.
At(l) == ~Stopped /\ cpu = "run" /\ pc[current] = l

\* The system call returns and kernel_epilogue() comes next.
Return == Goto(current, "epilogue") /\ UNCHANGED <<seg, child, current, rr, cpu>>

Panic == panicked' = TRUE

\* yield(), up to the switch.
Yield(p) == state' = [state EXCEPT ![p] = "READY"] /\ cpu' = "sched"

\* sleep(c), up to the switch.
Sleep(p, c) == /\ state' = [state EXCEPT ![p] = "SLEEPING"]
               /\ channel' = [channel EXCEPT ![p] = c]
               /\ cpu' = "sched"

-----------------------------------------------------------------------------
(***************************************************************************)
(* Scheduling and traps.                                                   *)
(***************************************************************************)

\* scheduler() switches to the next runnable process; a sleep() it returns to
\* clears the channel.
Dispatch ==
    /\ ~Stopped /\ cpu = "sched"
    /\ \E p \in Slots :
          /\ IsNext(state, rr, p)
          /\ state' = [state EXCEPT ![p] = "RUNING"]
          /\ channel' = [channel EXCEPT ![p] = Null]
          /\ current' = p
          /\ rr' = After(p)
    /\ cpu' = "run"
    /\ UNCHANGED <<parent, pid, killed, memVars, pc, seg, child, nextPid, panicked>>

\* A device interrupt where the kernel has them enabled: in the idle loop, and
\* between two pages of a fork.
KernelVector ==
    /\ ~Stopped
    /\ \/ cpu = "sched" /\ Runnable(state) = {}
       \/ cpu = "run" /\ pc[current] = "copy"
    /\ state' = Woken(state, channel, {IO})
    /\ UNCHANGED <<channel, parent, pid, killed, memVars, ctlVars, nextPid, panicked>>

\* The checks of kernel_prologue() and kernel_epilogue() for a killed process.
MustDie(p) == killed[p] /\ pid[p] # 1

\* kernel_brk(): kernel_prologue(), then the system call of the table ("epilogue":
\* sys_getpid(), which changes nothing); an unknown number, and kernel_nmi() after
\* a fault, end in sys_exit().
KernelBrk ==
    /\ At("user")
    /\ \E call \in Calls :
          Goto(current, IF MustDie(current) THEN "exit" ELSE call)
    /\ UNCHANGED <<procVars, memVars, seg, child, current, rr, cpu, nextPid, panicked>>

\* kernel_irq() in user mode: the devices are served; the timer may find the
\* quantum used up and yield().
KernelIrq(wake, expired) ==
    /\ At("user")
    /\ LET st == IF wake THEN Woken(state, channel, {IO}) ELSE state IN
       IF MustDie(current)
       THEN Goto(current, "exit") /\ UNCHANGED <<state, cpu>>
       ELSE /\ Goto(current, "epilogue")
            /\ state' = IF expired THEN [st EXCEPT ![current] = "READY"] ELSE st
            /\ cpu' = IF expired THEN "sched" ELSE cpu
    /\ UNCHANGED <<channel, parent, pid, killed, memVars, seg, child, current, rr,
                   nextPid, panicked>>

\* Mutant: no check for a killed process.
KernelEpilogueUnchecked ==
    /\ At("epilogue")
    /\ Goto(current, "user")
    /\ UNCHANGED <<procVars, memVars, seg, child, current, rr, cpu, nextPid, panicked>>

\* kernel_epilogue(): a killed process exits, any other returns to user mode.
KernelEpilogue ==
    /\ At("epilogue")
    /\ Goto(current, IF MustDie(current) THEN "exit" ELSE "user")
    /\ UNCHANGED <<procVars, memVars, seg, child, current, rr, cpu, nextPid, panicked>>

\* sys_sleep() or sys_read(): done, or the condition does not hold (yet) and the
\* loop sleeps on the channel.
SysIO ==
    /\ At("io")
    /\ \/ Return /\ UNCHANGED <<state, channel>>
       \/ Sleep(current, IO) /\ UNCHANGED <<pc, seg, child, current, rr>>
    /\ UNCHANGED <<parent, pid, killed, memVars, nextPid, panicked>>

\* sys_write(): done, or the transmitter is busy and uart_putc() yields.
SysWrite ==
    /\ At("write")
    /\ \/ Return /\ UNCHANGED state
       \/ Yield(current) /\ UNCHANGED <<pc, seg, child, current, rr>>
    /\ UNCHANGED <<channel, parent, pid, killed, memVars, nextPid, panicked>>

\* sys_open(), sys_close() and sys_ioctl() are not written yet: they panic.
SysOpen ==
    /\ At("open")
    /\ Panic
    /\ UNCHANGED <<procVars, memVars, ctlVars, nextPid>>

\* proc_free(c).  The PCB is in the kernel stack frame and is gone with it.
ProcFree(c) == /\ state' = [state EXCEPT ![c] = "UNUSED"]
               /\ kstk' = [kstk EXCEPT ![c] = NoFrame]
               /\ pt' = [pt EXCEPT ![c] = NoPages]
               /\ top' = [top EXCEPT ![c] = 0]
               /\ parent' = [parent EXCEPT ![c] = Null]
               /\ pid' = [pid EXCEPT ![c] = 0]
               /\ killed' = [killed EXCEPT ![c] = FALSE]

-----------------------------------------------------------------------------
(***************************************************************************)
(* sys_fork().                                                             *)
(***************************************************************************)
Unused == {p \in Slots : state[p] = "UNUSED"}

\* Mutant: pids are handed out again.
PidsLeftAlways == TRUE

\* pid_alloc() has a pid.
PidsLeft == nextPid # 0

\* proc_alloc() finds no slot or no frame for the kernel stack: fork returns -1.
ForkFails ==
    /\ At("fork")
    /\ Unused = {} \/ free = {}
    /\ Return
    /\ UNCHANGED <<procVars, memVars, nextPid, panicked>>

\* pid_alloc() has handed out every pid.
ForkPanics ==
    /\ At("fork")
    /\ Unused # {} /\ free # {} /\ ~PidsLeft
    /\ Panic
    /\ UNCHANGED <<procVars, memVars, ctlVars, nextPid>>

\* proc_alloc(), the copy of the parent's PCB with the child's pid, parent and
\* empty page table, and the first yield().
ForkStart ==
    /\ At("fork") /\ PidsLeft
    /\ \E c \in Slots, k \in free :
          /\ IsFirst(Unused, c)
          /\ free' = free \ {k}
          /\ kstk' = [kstk EXCEPT ![c] = k]
          /\ state' = [state EXCEPT ![c] = "BUILDING", ![current] = "READY"]
          /\ pid' = [pid EXCEPT ![c] = nextPid]
          /\ parent' = [parent EXCEPT ![c] = current]
          /\ killed' = [killed EXCEPT ![c] = killed[current]]
          /\ channel' = [channel EXCEPT ![c] = channel[current]]
          /\ top' = [top EXCEPT ![c] = top[current]]
          /\ pt' = [pt EXCEPT ![c] = NoPages]
          /\ child' = [child EXCEPT ![current] = c]
    /\ nextPid' = (nextPid + 1) % PIDMOD
    /\ seg' = [seg EXCEPT ![current] = 0]
    /\ cpu' = "sched"
    /\ Goto(current, "copy")
    /\ UNCHANGED <<current, rr, faults, panicked>>

\* The segments of the parent the loop has still to clone.  The loop reads the
\* table copied at the start; only the parent itself could have changed it.
ToCopy == {s \in Mapped(current) : s >= seg[current]}

\* Mutant: the child shares the parent's frame.
ForkCopyShares ==
    /\ At("copy")
    /\ \E s \in Segs :
          /\ IsFirst(ToCopy, s)
          /\ pt' = [pt EXCEPT ![child[current]][s] = pt[current][s]]
          /\ seg' = [seg EXCEPT ![current] = s + 1]
    /\ Yield(current)
    /\ UNCHANGED <<channel, parent, pid, killed, top, kstk, free, faults, pc, child, current,
                   rr, nextPid, panicked>>

\* The loop takes the next mapped segment, gives the child a frame for it and
\* yields.
ForkCopy ==
    /\ At("copy")
    /\ \E s \in Segs, f \in free :
          /\ IsFirst(ToCopy, s)
          /\ free' = free \ {f}
          /\ pt' = [pt EXCEPT ![child[current]][s] = f]
          /\ seg' = [seg EXCEPT ![current] = s + 1]
    /\ Yield(current)
    /\ UNCHANGED <<channel, parent, pid, killed, top, kstk, faults, pc, child, current, rr,
                   nextPid, panicked>>

\* kalloc() fails at segment s.  The loop that rolls back runs from s down to 1
\* and never looks at segment 0, whose frame is lost.  When s is 0 the uint8_t
\* counter wraps to 255, and the bytes of the PCB behind page_table are freed
\* as if they were frames; the pool being empty, these are frames in use.
ForkRollback ==
    /\ At("copy") /\ free = {}
    /\ \E s \in Segs :
       LET c == child[current] IN
          /\ IsFirst(ToCopy, s)
          /\ \E junk \in IF s = 0 THEN SUBSET Frames ELSE {{}} :
                KFree({pt[c][r] : r \in Segs \ {0}} \cup junk \cup {kstk[c]},
                      IF s # 0 THEN {"leak"} ELSE IF junk = {} THEN {} ELSE {"shared"})
          /\ ProcFree(c)
    /\ child' = [child EXCEPT ![current] = Null]
    /\ seg' = [seg EXCEPT ![current] = 0]
    /\ Goto(current, "epilogue")
    /\ UNCHANGED <<channel, current, rr, cpu, nextPid, panicked>>

\* Every segment is cloned: the child may run.
ForkDone ==
    /\ At("copy") /\ ToCopy = {}
    /\ state' = [state EXCEPT ![child[current]] = "NEW"]
    /\ pc' = [pc EXCEPT ![child[current]] = "epilogue", ![current] = "epilogue"]
    /\ child' = [child EXCEPT ![current] = Null]
    /\ seg' = [seg EXCEPT ![current] = 0]
    /\ UNCHANGED <<channel, parent, pid, killed, memVars, current, rr, cpu,
                   nextPid, panicked>>

-----------------------------------------------------------------------------
(***************************************************************************)
(* sys_exit(), sys_wait() and sys_kill().                                  *)
(***************************************************************************)
ExitPanics ==
    /\ At("exit") /\ current = InitProc
    /\ Panic
    /\ UNCHANGED <<procVars, memVars, ctlVars, nextPid>>

\* Mutants: the parent is not woken; init is not, when it inherits a zombie.
ExitStatesNoParent(p) ==
    LET st == [state EXCEPT ![p] = "ZOMBIE"]
    IN  IF \E c \in Children(p) : st[c] = "ZOMBIE"
        THEN Woken(st, channel, {InitProc}) ELSE st
ExitStatesNoInit(p) == [Woken(state, channel, {parent[p]}) EXCEPT ![p] = "ZOMBIE"]

\* The states after sys_exit(): the parent is woken, the process is a zombie,
\* and init is woken when it inherits a zombie.
ExitStates(p) ==
    LET st == [Woken(state, channel, {parent[p]}) EXCEPT ![p] = "ZOMBIE"]
    IN  IF \E c \in Children(p) : st[c] = "ZOMBIE"
        THEN Woken(st, channel, {InitProc}) ELSE st

SysExit ==
    /\ At("exit") /\ current # InitProc
    /\ KFree(Range(pt[current]), {})
    /\ pt' = [pt EXCEPT ![current] = NoPages]
    /\ state' = ExitStates(current)
    /\ parent' = [c \in Slots |-> IF c \in Children(current) THEN InitProc ELSE parent[c]]
    /\ cpu' = "sched"
    /\ Goto(current, "none")
    /\ UNCHANGED <<channel, pid, killed, top, kstk, seg, child, current, rr,
                   nextPid, panicked>>

\* Mutant: whose child it is does not matter.
ZombiesAll(p) == {c \in Slots : state[c] = "ZOMBIE"}

Zombies(p) == {c \in Children(p) : state[c] = "ZOMBIE"}

\* sys_wait() finds a zombie child and frees it.
WaitReaps ==
    /\ At("wait") \/ At("rewait")
    /\ \E z \in Slots :
          /\ IsFirst(Zombies(current), z)
          /\ KFree({kstk[z]}, {})
          /\ ProcFree(z)
    /\ Return
    /\ UNCHANGED <<channel, nextPid, panicked>>

\* It finds one, but copy_to_user() of the exit code fails: -1, nothing freed.
WaitBadPointer ==
    /\ At("wait") \/ At("rewait")
    /\ Zombies(current) # {}
    /\ Return
    /\ UNCHANGED <<procVars, memVars, nextPid, panicked>>

\* No zombie.  has_children is set once and never cleared, so at "rewait", after
\* a first round that found a child, the call can only sleep again.
WaitSleeps ==
    /\ (At("wait") /\ Children(current) # {}) \/ At("rewait")
    /\ Zombies(current) = {}
    /\ Sleep(current, current)
    /\ Goto(current, "rewait")
    /\ UNCHANGED <<parent, pid, killed, memVars, seg, child, current, rr, nextPid, panicked>>

\* No child at all: -1.
WaitFails ==
    /\ At("wait") /\ Children(current) = {}
    /\ Return
    /\ UNCHANGED <<procVars, memVars, nextPid, panicked>>

\* sys_kill() of the first live process with pid k.
KillHits ==
    /\ At("kill")
    /\ \E k \in Pids, q \in Slots :
          /\ k > 1
          /\ IsFirst({r \in Slots : Alive(r) /\ pid[r] = k}, q)
          /\ killed' = [killed EXCEPT ![q] = TRUE]
          /\ state' = [state EXCEPT ![q] = IF @ = "SLEEPING" THEN "READY" ELSE @]
    /\ Return
    /\ UNCHANGED <<channel, parent, pid, memVars, nextPid, panicked>>

\* The pid is 0, that of init, or that of no live process: -1.
KillMisses ==
    /\ At("kill")
    /\ Return
    /\ UNCHANGED <<procVars, memVars, nextPid, panicked>>
-----------------------------------------------------------------------------
(***************************************************************************)
(* sys_sbrk().                                                             *)
(***************************************************************************)
Segment(t) == IF t = 0 THEN 0 ELSE (t - 1) \div PAGE

\* old_top + increment.  Both are 16 bits wide and so is their sum, before it
\* is widened to the int32_t that is compared with the limits: the comparison
\* never fails.
NewTop(t, inc) == (t + inc) % MEM
Wraps(t, inc) == IF t + inc \in 0 .. MEM - 1 THEN {} ELSE {"wrap"}

Increments == -(MEM \div 2) .. (MEM \div 2) - 1         \* int16_t

\* Mutant: segments that have a frame get another.
MissingAll(p, inc) == Segment(top[p]) .. Segment(NewTop(top[p], inc))

\* The unmapped segments from that of the old top to that of the new one.
Missing(p, inc) ==
    {s \in Segment(top[p]) .. Segment(NewTop(top[p], inc)) : pt[p][s] = NoFrame}

SbrkGrows ==
    /\ At("sbrk")
    /\ \E inc \in Increments :
       LET need == Missing(current, inc) IN
          /\ inc > 0
          /\ \E g \in Injection(need, free) :
                /\ pt' = [pt EXCEPT ![current] =
                             [s \in Segs |-> IF s \in need THEN g[s] ELSE @[s]]]
                /\ free' = free \ Range(g)
          /\ top' = [top EXCEPT ![current] = NewTop(@, inc)]
          /\ faults' = faults \cup Wraps(top[current], inc)
    /\ Return
    /\ UNCHANGED <<procVars, kstk, nextPid, panicked>>

\* The pool is empty at segment s, g being what was allocated below it.  The
\* loop that rolls back frees every frame above the old segment in the local
\* copy of the table, which is then dropped.
SbrkFails ==
    /\ At("sbrk")
    /\ \E inc \in Increments :
       LET need == Missing(current, inc) IN
          /\ inc > 0
          /\ \E s \in need : \E g \in Bijection({r \in need : r < s}, free) :
             LET local == [r \in Segs |-> IF r \in DOMAIN g THEN g[r] ELSE pt[current][r]]
                 undone == {local[r] : r \in Segment(top[current]) + 1 .. s} \ {NoFrame}
             IN  /\ free' = undone
                 /\ faults' = faults \cup Wraps(top[current], inc)
                       \cup (IF undone \subseteq free THEN {} ELSE {"shared"})
                       \cup (IF free \subseteq undone THEN {} ELSE {"leak"})
    /\ Return
    /\ UNCHANGED <<procVars, pt, top, kstk, nextPid, panicked>>

\* Mutant: the segment of the new top goes, too.
GoneMore(p, inc) == Segment(NewTop(top[p], inc)) .. Segment(top[p])

\* The segments above the new top.
Gone(p, inc) == Segment(NewTop(top[p], inc)) + 1 .. Segment(top[p])

SbrkShrinks ==
    /\ At("sbrk")
    /\ \E inc \in Increments :
       LET gone == Gone(current, inc) IN
          /\ inc <= 0
          /\ KFree({pt[current][s] : s \in gone}, Wraps(top[current], inc))
          /\ pt' = [pt EXCEPT ![current] =
                       [s \in Segs |-> IF s \in gone THEN NoFrame ELSE @[s]]]
          /\ top' = [top EXCEPT ![current] = NewTop(@, inc)]
    /\ Return
    /\ UNCHANGED <<procVars, kstk, nextPid, panicked>>

-----------------------------------------------------------------------------
\* panic() never returns.
Halted == Stopped /\ UNCHANGED vars

SysCall == \/ ForkFails \/ ForkPanics \/ ForkStart \/ ForkCopy \/ ForkRollback \/ ForkDone
           \/ ExitPanics \/ SysExit
           \/ WaitReaps \/ WaitBadPointer \/ WaitSleeps \/ WaitFails
           \/ KillHits \/ KillMisses
           \/ SbrkGrows \/ SbrkFails \/ SbrkShrinks
           \/ SysIO \/ SysWrite \/ SysOpen

Next == \/ Dispatch \/ KernelVector \/ KernelBrk \/ KernelEpilogue
        \/ \E wake, expired \in BOOLEAN : KernelIrq(wake, expired)
        \/ SysCall
        \/ Halted

(***************************************************************************)
(* Fairness: the CPU goes on executing kernel code, and the timer ends the *)
(* quantum of a process that is in user mode again and again: its ticks    *)
(* are not synchronised with the program, so they do not all fall into the *)
(* system calls, where they are not charged (Sched!SliceBound then bounds  *)
(* the number of ticks needed).                                            *)
(***************************************************************************)
Fairness == /\ WF_vars(Dispatch)
            /\ WF_vars(SysCall \/ KernelEpilogue)
            /\ SF_vars(\E wake \in BOOLEAN : KernelIrq(wake, TRUE))

Spec == Init /\ [][Next]_vars /\ Fairness
-----------------------------------------------------------------------------
(***************************************************************************)
(* Properties: processes.                                                  *)
(***************************************************************************)
Labels == {"none", "user", "epilogue", "fork", "copy", "exit", "wait", "rewait",
           "kill", "sbrk", "io", "write", "open"}

\* Every variable has its type.
TypeOK ==
    /\ state \in [Slots -> States]
    /\ channel \in [Slots -> Slots \cup {IO, Null}]
    /\ parent \in [Slots -> Slots \cup {Null}]
    /\ pid \in [Slots -> Pids]
    /\ killed \in [Slots -> BOOLEAN]
    /\ pt \in [Slots -> [Segs -> Frames \cup {NoFrame}]]
    /\ top \in [Slots -> 0 .. MEM - 1]
    /\ kstk \in [Slots -> Frames \cup {NoFrame}]
    /\ pc \in [Slots -> Labels]
    /\ seg \in [Slots -> 0 .. SEGS]
    /\ child \in [Slots -> Slots \cup {Null}]
    /\ current \in Slots \cup {Null}
    /\ rr \in Slots
    /\ cpu \in {"run", "sched"}
    /\ free \in SUBSET Frames
    /\ nextPid \in Pids
    /\ panicked \in BOOLEAN
    /\ faults \in SUBSET {"double", "leak", "shared", "wrap"}

\* Every process but init has a parent that is alive: sys_exit() hands all its
\* children over in the step that makes it a zombie, so pcb->parent never
\* points to a slot that was freed or reused.
ParentAlive == \A p \in Slots : state[p] # "UNUSED" /\ p # InitProc =>
                  parent[p] \in Slots /\ parent[p] # p /\ Alive(parent[p])

\* No exit is missed: a process asleep in sys_wait() has no zombie child, whether
\* the child exited while it was asleep or was inherited from another process.
NoLostExit == \A p \in Slots : state[p] = "SLEEPING" /\ channel[p] = p => Zombies(p) = {}

\* A process that waits in sys_wait() still has a child to wait for, although
\* has_children is never cleared between two rounds of the loop.
WaiterHasChild == \A p \in Slots : pc[p] = "rewait" => Children(p) # {}

\* No user instruction is executed by a process that was killed: between any
\* sys_kill() and the return to user mode there is a kernel_epilogue().
NoKilledUser == At("user") => ~MustDie(current)

\* The process under construction by a sys_fork() is that fork's alone: it has
\* its own slot, its parent is the forking process, and no other process ever
\* runs it, reaps it or hands it over while the fork yields.
BuildingHasBuilder ==
    /\ \A p \in Slots : pc[p] = "copy" =>
          child[p] \in Slots /\ state[child[p]] = "BUILDING" /\ parent[child[p]] = p
    /\ \A c \in Slots : state[c] = "BUILDING" =>
          \E p \in Slots : pc[p] = "copy" /\ child[p] = c

\* Pids identify processes: sys_kill() and the parent of a zombie never meet two
\* processes with one pid.
UniquePids == \A p, q \in Slots :
                 state[p] # "UNUSED" /\ state[q] # "UNUSED" /\ pid[p] = pid[q] => p = q

\* A zombie stays one until its parent, running sys_wait(), frees the slot.
ZombieUntilReaped ==
    [][\A p \in Slots : state[p] = "ZOMBIE" /\ state'[p] # "ZOMBIE" =>
          /\ state'[p] = "UNUSED"
          /\ current = parent[p] /\ pc[current] \in {"wait", "rewait"}]_vars

\* A process asleep in sys_wait() whose child exits comes back from the call.
WaitReturns ==
    \A p \in Slots : (pc[p] = "rewait" /\ Zombies(p) # {}) ~> (pc[p] # "rewait" \/ Stopped)

\* A killed process that is not waiting for an event ends.
KilledRunnableEnds ==
    \A p \in Slots : (MustDie(p) /\ pc[p] \in {"user", "epilogue", "exit", "kill", "sbrk", "copy"})
                         ~> (~Alive(p) \/ Stopped)

-----------------------------------------------------------------------------
(***************************************************************************)
(* Properties: memory.                                                     *)
(***************************************************************************)
Owned(p) == (Range(pt[p]) \cup {kstk[p]}) \ {NoFrame}

\* No frame has two uses: page tables map different frames to different
\* segments, none maps a kernel stack or a frame of the pool, and no frame is
\* freed twice.
FramesExclusive ==
    /\ "double" \notin faults
    /\ \A p, q \in Slots : p # q => Owned(p) \cap Owned(q) = {}
    /\ \A p \in Slots : /\ Owned(p) \cap free = {}
                        /\ \A s \in Segs : pt[p][s] # NoFrame => pt[p][s] # kstk[p]
                        /\ \A s, t \in Mapped(p) : pt[p][s] = pt[p][t] => s = t

\* ... as long as neither rollback, of a fork at segment 0 or of an sbrk after one
\* that wrapped, has freed a frame in use: no other path breaks it.
FramesExclusiveUnlessShared == "shared" \notin faults => FramesExclusive

\* No frame is lost: each is in the pool or belongs to a process.
FramesConserved == Frames = free \cup UNION {Owned(p) : p \in Slots}

\* ... as long as no rollback of sys_fork() or sys_sbrk() dropped one: exit, wait
\* and a shrinking sbrk, in any interleaving, give every frame back.
FramesConservedUnlessLeak == faults \cap {"leak", "shared"} = {} => FramesConserved

\* A process that can run has frames exactly for the segments below its top,
\* which is what the rollback of sys_sbrk() and the copy loop of sys_fork() rely
\* on ... as long as no sbrk wrapped.
HeapMapped == \A p \in Slots : Alive(p) /\ state[p] # "BUILDING" =>
                 Mapped(p) = 0 .. Segment(top[p])

HeapMappedUnlessWrap == "wrap" \notin faults => HeapMapped
=============================================================================
