------------------------------- MODULE Trap -------------------------------
(***************************************************************************)
(* Crossing between user and kernel: the MMU's traps (machine.c), the      *)
(* interrupt sequence of the CPU (MCS6502.c), the trampolines, the         *)
(* prologue and epilogue of a trap (kernel/trampoline.s, trap.c), and the  *)
(* memory windows (kernel/mmu.c), all of which work on the page table of   *)
(* the MMU.                                                                *)
(*                                                                         *)
(* Of the sixteen segments three are told apart: 0 has the zero page and   *)
(* the stack, 2 is a window of the kernel, and 15, the last, has the       *)
(* vectors and the devices; user code runs when it is not the kernel's.    *)
(* A step of the CPU is one instruction; instructions that run with        *)
(* interrupts masked and touch nothing shared are taken together.          *)
(***************************************************************************)
EXTENDS Integers, Sequences

CONSTANTS Procs,        \* slots of the process table, strings
          InitProc,     \* init_process
          DEPTH         \* bound: interrupts nested in the kernel

ASSUME TrapAssumption == InitProc \in Procs /\ DEPTH \in Nat

Segs == {0, 2, 15}
K15 == <<"kernel", 15>>         \* MMU_LAST_SEGMENT, mapped to itself
Home == <<"kernel", 2>>         \* the window's own frame
NoFrame == <<"none">>           \* MMU_FRAME_INVALID
KStack(p) == <<"kstack", p>>    \* kernel_low_memory[0] of p
UFrame(p, s) == <<"user", p, s>>
Page(l) == <<"page", l>>        \* a PCB or a buffer that code at l looks at

VARIABLES m,            \* MMU, CPU, PLIC and the stack in every frame of segment 0
          kpt,          \* kernel_page_table
          raft,         \* user_context and user_page_table
          pcb,          \* ctx and page_table of each PCB
          low,          \* kernel_low_memory[0] and [2] of each Proc
          state, cur,   \* process states and current_process
          first,        \* the file system is not mounted yet
          own,          \* history: the frames each process was given
          pos,          \* history: where each process is in its user code
          leaked, twice,        \* history: frames lost at exit; last segments of
                                \* processes that ended in two traps at once
          dropped,      \* history: an interrupt was taken but not served
          panicked

vars == <<m, kpt, raft, pcb, low, state, cur, first, own, pos,
          leaked, twice, dropped, panicked>>
memory == <<kpt, raft, pcb, low, state, cur, first, own, pos,
            leaked, twice, dropped, panicked>>

User(p, n, w) == [at |-> "user", proc |-> p, pos |-> n, wild |-> w]

\* Kernel code at label l, not using the window.
Code(l) == [at |-> l, win |-> "idle", want |-> Home, old |-> Home, torn |-> FALSE]

Table(p, o) == [s \in Segs |-> IF UFrame(p, s) \in o THEN UFrame(p, s) ELSE NoFrame]
KernelTable(p) == [s \in Segs |-> CASE s = 0 -> KStack(p) [] s = 2 -> Home [] s = 15 -> K15]

\* main() has run init up to its first return_from_trap().
Init ==
    /\ own = [p \in Procs |-> IF p = InitProc THEN {UFrame(p, 0)} ELSE {}]
    /\ m = [pt |-> Table(InitProc, own[InitProc]), prev |-> NoFrame, cause |-> "none",
            v |-> FALSE, timing |-> FALSE, latch |-> {}, pending |-> FALSE, line |-> FALSE,
            i |-> FALSE, pc |-> User(InitProc, 0, FALSE), vec |-> "irq_handler",
            stk |-> [f \in {KStack(p) : p \in Procs} \cup {UFrame(p, 0) : p \in Procs} |-> <<>>]]
    /\ kpt = KernelTable(InitProc)
    /\ raft = [ctx |-> [pc |-> m.pc, i |-> FALSE], pt |-> m.pt]
    /\ pcb = [p \in Procs |-> raft]
    /\ low = [p \in Procs |-> [s \in {0, 2} |-> KernelTable(p)[s]]]
    /\ state = [p \in Procs |-> IF p = InitProc THEN "running" ELSE "unused"]
    /\ cur = InitProc /\ first = TRUE
    /\ pos = [p \in Procs |-> 0]
    /\ leaked = {} /\ twice = {} /\ dropped = FALSE /\ panicked = FALSE

-----------------------------------------------------------------------------
(* The CPU and the MMU. *)

\* PushByte() of the return address and the flags, on the stack that is mapped.
Push(s, x) == [s EXCEPT !.stk[s.pt[0]] = <<x>> \o @]
Pull(s) == [s EXCEPT !.stk[s.pt[0]] = Tail(@)]
Pulled(s) == Head(s.stk[s.pt[0]])

\* The interrupt sequence: return address and flags, interrupts off, vector.
Vectored(s, l, b) ==
    [Push(s, [pc |-> s.pc, i |-> s.i, b |-> b]) EXCEPT !.i = TRUE, !.pc = Code(l)]

HandleIRQ(s) == [Vectored(s, s.vec, FALSE) EXCEPT !.latch = @ \ {"irq"}, !.timing = TRUE]
HandleNMI(s) == [Vectored(s, "nmi_handler", FALSE) EXCEPT !.latch = @ \ {"nmi"}, !.timing = TRUE]

\* While the cycles of another interrupt are pending, the request is latched.
MCS6502IRQ(s) == IF s.i THEN s
                 ELSE IF s.timing THEN [s EXCEPT !.latch = @ \cup {"irq"}] ELSE HandleIRQ(s)
MCS6502NMI(s) == IF s.timing THEN [s EXCEPT !.latch = @ \cup {"nmi"}] ELSE HandleNMI(s)

\* The last segment goes to the kernel's; prev keeps what was there.
EnterKernel(s) == [s EXCEPT !.prev = s.pt[15], !.pt[15] = K15]

InUser(s) == s.pt[15] # K15

\* Mutant: the violation maps the kernel's segment before it saves the user's.
MMU_pre_execLate(s, op) ==
    LET a == IF s.pending /\ ~s.i
             THEN MCS6502IRQ([EnterKernel(s) EXCEPT !.pending = FALSE])
             ELSE IF op = "brk" THEN EnterKernel(s) ELSE s
        b == IF InUser(s) /\ op \in {"privilege", "invalid"}
             THEN MCS6502NMI([EnterKernel(a) EXCEPT !.cause = op]) ELSE a
    IN  IF b.v THEN MCS6502NMI([b EXCEPT !.pt[15] = K15, !.prev = K15, !.cause = "V", !.v = FALSE])
        ELSE b

\* Mutant: the request is lowered whether or not the CPU can take it.
MMU_pre_execMasked(s, op) ==
    LET a == IF s.pending
             THEN IF s.i THEN [s EXCEPT !.pending = FALSE]
                  ELSE MCS6502IRQ([EnterKernel(s) EXCEPT !.pending = FALSE])
             ELSE IF op = "brk" THEN EnterKernel(s) ELSE s
        b == IF InUser(s) /\ op \in {"privilege", "invalid"}
             THEN MCS6502NMI([EnterKernel(a) EXCEPT !.cause = op]) ELSE a
    IN  IF b.v THEN MCS6502NMI([EnterKernel(b) EXCEPT !.cause = "V", !.v = FALSE]) ELSE b

\* MMU_pre_exec() with opcode op on the bus: the interrupt or the BRK, then the
\* privileged or invalid opcode, then the violation left by an access.
MMU_pre_exec(s, op) ==
    LET a == IF s.pending /\ ~s.i
             THEN MCS6502IRQ([EnterKernel(s) EXCEPT !.pending = FALSE])
             ELSE IF op = "brk" THEN EnterKernel(s) ELSE s
        b == IF InUser(s) /\ op \in {"privilege", "invalid"}
             THEN MCS6502NMI([EnterKernel(a) EXCEPT !.cause = op]) ELSE a
    IN  IF b.v THEN MCS6502NMI([EnterKernel(b) EXCEPT !.cause = "V", !.v = FALSE]) ELSE b

\* MCS6502ExecNext() after it: a latched interrupt; or, when one has just been
\* taken, the first instruction of its handler; or the instruction itself,
\* whose effect is e.
MCS6502ExecNext(s, e) ==
    [CASE "nmi" \in s.latch -> HandleNMI(s)
       [] "irq" \in s.latch -> HandleIRQ(s)
       [] s.latch = {} /\ s.timing -> s
       [] OTHER -> e
     EXCEPT !.timing = FALSE]

\* MMU_post_exec(): RTI in the kernel goes back to the segment in prev.
MMU_post_exec(s, op, user) == IF op = "rti" /\ ~user THEN [s EXCEPT !.pt[15] = s.prev] ELSE s

-----------------------------------------------------------------------------
(* User code and the devices. *)

\* A device raises its line at the PLIC, up already or not.
Raise ==
    /\ ~panicked
    /\ m' = [m EXCEPT !.line = TRUE, !.pending = TRUE]
    /\ UNCHANGED memory

\* The traps one MMU_pre_exec() takes.
Traps(s, op) ==
    (IF (s.pending /\ ~s.i) \/ op = "brk" THEN {"irq"} ELSE {})
    \cup (IF op \in {"privilege", "invalid"} THEN {"watchdog"} ELSE {})
    \cup (IF s.v THEN {"violation"} ELSE {})

Several(traps) == \E a, b \in traps : a # b

\* What instruction op does when nothing comes before it: a "touch" goes to an
\* unmapped segment, a "jump" leaves for one.
UserEffect(s, op) ==
    LET next == User(cur, 1 - s.pc.pos, op = "jump") IN
    CASE op = "brk" -> Vectored([s EXCEPT !.pc = next], s.vec, TRUE)
      [] op \in {"plain", "jump"} -> [s EXCEPT !.pc = next]
      [] op = "touch" -> [s EXCEPT !.pc = next, !.v = TRUE]
      [] OTHER -> s

\* CPU_step() in user code. A fetch from an unmapped segment reads 0xFF, an
\* opcode the watchdog does not know.
UserExec(o) ==
    LET op == IF m.pc.wild THEN "invalid" ELSE o
        s == IF m.pc.wild THEN [m EXCEPT !.v = TRUE] ELSE m
        pre == MMU_pre_exec(s, op)
        traps == Traps(s, op)
    IN  /\ ~panicked /\ m.pc.at = "user"
        /\ m' = MMU_post_exec(MCS6502ExecNext(pre, UserEffect(pre, op)), op, InUser(s))
        /\ pos' = [pos EXCEPT ![cur] = IF pre.timing THEN @ ELSE 1 - @]
        /\ twice' = IF Several(traps) THEN twice \cup {UFrame(cur, 15)} ELSE twice
        /\ dropped' = (dropped \/ (s.pending /\ Several(traps)))
        /\ UNCHANGED <<kpt, raft, pcb, low, state, cur, first, own, leaked, panicked>>

-----------------------------------------------------------------------------
(* Entering the kernel from user code. *)

\* irq_handler and nmi_handler up to the call: the return address and the flags
\* go to the life raft, the kernel's segments are mapped, and a nested RTI will
\* find the kernel's last segment in prev.
RaftAfter(s) == [ctx |-> [pc |-> Pulled(s).pc, i |-> Pulled(s).i],
                 pt |-> [raft.pt EXCEPT ![15] = s.prev]]

\* Mutant: prev keeps the user's last segment.
TrampolineKeepsPrev(s) == [Pull(s) EXCEPT !.pt = [kpt EXCEPT ![15] = s.pt[15]],
                                          !.vec = "kernel_vector"]

Trampoline(s) == [Pull(s) EXCEPT !.pt = [kpt EXCEPT ![15] = s.pt[15]],
                                 !.prev = kpt[15], !.vec = "kernel_vector"]

\* kernel_prologue(): the raft and the kernel's low segments go to the process.
\* The first one mounts the file system, which leaves interrupts on.
kernel_prologue ==
    /\ raft' = RaftAfter(m)
    /\ pcb' = [pcb EXCEPT ![cur] = RaftAfter(m)]
    /\ low' = [low EXCEPT ![cur] = [s \in {0, 2} |-> kpt[s]]]
    /\ first' = FALSE

\* kernel_brk() turns interrupts on; kernel_irq() goes on to its top half.
IrqHandler ==
    /\ ~panicked /\ m.pc.at = "irq_handler"
    /\ kernel_prologue
    /\ m' = [Trampoline(m) EXCEPT !.pc = Code(IF Pulled(m).b THEN "kernel" ELSE "prologue"),
                                  !.i = ~(Pulled(m).b \/ first)]
    /\ UNCHANGED <<kpt, state, cur, own, pos, leaked, twice, dropped, panicked>>

Quiet == ~(m.pending /\ ~m.i)
Busy == {"kernel", "prologue", "top", "nested"}

\* History: an interrupt between the stores of a mapping tears it; between the
\* stores of an unmapping it tears the mappings of the code that waits below.
Torn(s) ==
    [s EXCEPT !.pc.torn = @ \/ s.pc.win = "hw",
              !.stk[s.pt[0]] = [n \in DOMAIN @ |-> IF s.pc.win = "unhw"
                                                   THEN [@[n] EXCEPT !.pc.torn = TRUE] ELSE @[n]]]

\* The CPU takes an interrupt in the kernel, between two instructions.
TakeIrq ==
    /\ ~panicked /\ m.pc.at \in Busy /\ ~Quiet
    /\ LET s == Torn(m)
           pre == MMU_pre_exec(s, "other")
       IN  m' = MMU_post_exec(MCS6502ExecNext(pre, pre), "other", InUser(s))
    /\ UNCHANGED memory

\* kernel_irq() or kernel_vector calls device_interrupt(), which reads the lines.
DeviceInterrupt ==
    /\ ~panicked /\ m.pc.at \in {"prologue", "kernel_vector"} /\ m.pc.win = "idle" /\ Quiet
    /\ m' = [m EXCEPT !.pc = Code(IF @.at = "prologue" THEN "top" ELSE "nested"), !.line = FALSE]
    /\ dropped' = FALSE
    /\ UNCHANGED <<kpt, raft, pcb, low, state, cur, first, own, pos, leaked, twice, panicked>>

\* Ctrl-D: uart_rx_interrupt() calls proc_dump(), whose last line is INTER_ON.
proc_dump ==
    /\ ~panicked /\ m.pc.at \in {"top", "nested"} /\ m.pc.win = "idle" /\ m.i
    /\ Len(m.stk[m.pt[0]]) < DEPTH
    /\ m' = [m EXCEPT !.i = FALSE]
    /\ UNCHANGED memory

\* device_interrupt() returns: kernel_irq() turns interrupts on and goes on to
\* its bottom half, kernel_vector goes on to its RTI.
DeviceDone ==
    /\ ~panicked /\ m.pc.at \in {"top", "nested"} /\ m.pc.win = "idle" /\ Quiet
    /\ m' = IF m.pc.at = "top" THEN [m EXCEPT !.pc = Code("kernel"), !.i = FALSE]
            ELSE [m EXCEPT !.pc = Code("vector_rti")]
    /\ UNCHANGED memory

\* The RTI of kernel_vector and of return_from_trap, an instruction like any
\* other: an interrupt may come before it when interrupts are on.
Rti ==
    /\ ~panicked /\ m.pc.at \in {"vector_rti", "trap_rti"}
    /\ LET pre == MMU_pre_exec(m, "rti")
           back == [Pull(pre) EXCEPT !.pc = Pulled(pre).pc, !.i = Pulled(pre).i]
       IN  m' = MMU_post_exec(MCS6502ExecNext(pre, back), "rti", InUser(m))
    /\ UNCHANGED memory

-----------------------------------------------------------------------------
(* Memory windows: mmu_map_window() and mmu_unmap_window(), store by store. *)

\* The mount in the first prologue uses the window like any kernel code.
Using(w) == /\ ~panicked /\ Quiet
            /\ m.pc.at \in {"kernel", "top", "nested"} \/ (m.pc.at = "prologue" /\ ~m.i)
            /\ m.pc.win = w
AtWindow(w) == [m EXCEPT !.pc.win = w]

\* The old frame is read from the kernel's table, the new one goes to the MMU.
MapHw ==
    /\ Using("idle")
    /\ m' = [m EXCEPT !.pc = [@ EXCEPT !.win = "hw", !.want = Page(m.pc.at), !.old = kpt[2]],
                      !.pt[2] = Page(m.pc.at)]
    /\ UNCHANGED memory

\* Mutant: the table is not told.
MapTableForgets ==
    /\ Using("hw")
    /\ m' = AtWindow("table")
    /\ UNCHANGED memory

\* The frame goes to the table, then to the process.
MapTable ==
    /\ Using("hw")
    /\ m' = AtWindow("table") /\ kpt' = [kpt EXCEPT ![2] = m.pc.want]
    /\ UNCHANGED <<raft, pcb, low, state, cur, first, own, pos, leaked, twice, dropped, panicked>>
MapLow ==
    /\ Using("table")
    /\ m' = AtWindow("mapped") /\ low' = [low EXCEPT ![cur][2] = m.pc.want]
    /\ UNCHANGED <<kpt, raft, pcb, state, cur, first, own, pos, leaked, twice, dropped, panicked>>

\* The accessor has used the window ("mapped") and gives it back.
UnmapHw ==
    /\ Using("mapped")
    /\ m' = [AtWindow("unhw") EXCEPT !.pt[2] = m.pc.old]
    /\ UNCHANGED memory
UnmapTable ==
    /\ Using("unhw")
    /\ m' = AtWindow("untable") /\ kpt' = [kpt EXCEPT ![2] = m.pc.old]
    /\ UNCHANGED <<raft, pcb, low, state, cur, first, own, pos, leaked, twice, dropped, panicked>>
UnmapLow ==
    /\ Using("untable")
    /\ m' = [m EXCEPT !.pc = Code(m.pc.at)] /\ low' = [low EXCEPT ![cur][2] = m.pc.old]
    /\ UNCHANGED <<kpt, raft, pcb, state, cur, first, own, pos, leaked, twice, dropped, panicked>>

-----------------------------------------------------------------------------
(* Switching processes and leaving the kernel. *)

\* context_switch() and first_context_switch() from machine state s: OLD keeps
\* the kernel's low segments, NEW's go to the MMU and to the table; NEW goes on
\* where it was, in yield(), which turns interrupts on, or starts at the epilogue.
context_switch(s, q) ==
    LET saved == [low EXCEPT ![cur] = [n \in {0, 2} |-> kpt[n]]]
        there == [s EXCEPT !.pt[0] = saved[q][0], !.pt[2] = saved[q][2]]
    IN  /\ low' = saved
        /\ kpt' = [kpt EXCEPT ![0] = saved[q][0], ![2] = saved[q][2]]
        /\ cur' = q
        /\ m' = IF state[q] = "new" THEN [there EXCEPT !.pc = Code("epilogue"), !.i = TRUE]
                ELSE [Pull(there) EXCEPT !.pc = Pulled(there).pc, !.i = FALSE]

\* yield() of a process in the kernel; the scheduler may pick it again.
yield(q) ==
    /\ Using("idle") /\ m.pc.at = "kernel"
    /\ q = cur \/ state[q] \in {"ready", "new"}
    /\ context_switch(Push(m, [pc |-> m.pc, i |-> TRUE, b |-> FALSE]), q)
    /\ state' = [[state EXCEPT ![cur] = "ready"] EXCEPT ![q] = "running"]
    /\ UNCHANGED <<raft, pcb, first, own, pos, leaked, twice, dropped, panicked>>

\* nmi_handler and kernel_nmi(): the cause is read and cleared; the process ends
\* in sys_exit(), which gives back the frames of its page table. init's end and
\* an unknown cause are panics.
NmiHandler(q) ==
    /\ ~panicked /\ m.pc.at = "nmi_handler" /\ m.cause # "none" /\ cur # InitProc
    /\ state[q] \in {"ready", "new"}
    /\ raft' = RaftAfter(m) /\ pcb' = [pcb EXCEPT ![cur] = RaftAfter(m)] /\ first' = FALSE
    /\ leaked' = leaked \cup (own[cur] \ {RaftAfter(m).pt[s] : s \in Segs})
    /\ own' = [own EXCEPT ![cur] = {}]
    /\ state' = [state EXCEPT ![cur] = "unused", ![q] = "running"]
    /\ context_switch([Trampoline(m) EXCEPT !.cause = "none", !.stk[UFrame(cur, 0)] = <<>>], q)
    /\ UNCHANGED <<pos, twice, dropped, panicked>>

NmiPanic ==
    /\ ~panicked /\ m.pc.at = "nmi_handler" /\ (m.cause = "none" \/ cur = InitProc)
    /\ panicked' = TRUE
    /\ UNCHANGED <<m, kpt, raft, pcb, low, state, cur, first, own, pos, leaked, twice, dropped>>

\* sys_fork() by init: the child gets frames of its own, its last segment too
\* when the parent's heap reaches that far, and the parent's context.
sys_fork(p, o) ==
    /\ Using("idle") /\ m.pc.at = "kernel" /\ cur = InitProc /\ state[p] = "unused"
    /\ state' = [state EXCEPT ![p] = "new"]
    /\ own' = [own EXCEPT ![p] = o]
    /\ pos' = [pos EXCEPT ![p] = pos[cur]]
    /\ pcb' = [pcb EXCEPT ![p] = [ctx |-> [pcb[cur].ctx EXCEPT !.pc.proc = p], pt |-> Table(p, o)]]
    /\ low' = [low EXCEPT ![p] = [s \in {0, 2} |-> KernelTable(p)[s]]]
    /\ UNCHANGED <<m, kpt, raft, cur, first, leaked, twice, dropped, panicked>>

\* Mutant: interrupts stay on.
INTER_OFFNot(s) == s

\* INTER_OFF, at the start of kernel_epilogue().
INTER_OFF(s) == [s EXCEPT !.i = TRUE]

\* kernel_epilogue() and return_from_trap: the process's context and page table
\* go to the raft and to the MMU, its last segment to prev, its return address
\* and flags to its own stack.
kernel_epilogue ==
    LET r == pcb[cur]
        s == [INTER_OFF(m) EXCEPT !.vec = "irq_handler", !.pt = [r.pt EXCEPT ![15] = m.pt[15]],
                                  !.prev = r.pt[15], !.pc = Code("trap_rti")]
    IN  /\ ~panicked /\ m.pc.at \in {"kernel", "epilogue"} /\ m.pc.win = "idle" /\ Quiet
        /\ raft' = r
        /\ kpt' = [kpt EXCEPT ![0] = low[cur][0], ![2] = low[cur][2]]
        /\ m' = Push(s, [pc |-> r.ctx.pc, i |-> r.ctx.i, b |-> FALSE])
        /\ UNCHANGED <<pcb, low, state, cur, first, own, pos, leaked, twice, dropped, panicked>>

-----------------------------------------------------------------------------
Ops == {"plain", "brk", "touch", "jump", "privilege", "invalid"}
Gifts(p) == {{UFrame(p, 0)}, {UFrame(p, 0), UFrame(p, 15)}}

Halted == panicked /\ UNCHANGED vars

Next ==
    \/ Raise \/ (\E op \in Ops : UserExec(op)) \/ IrqHandler \/ TakeIrq
    \/ DeviceInterrupt \/ proc_dump \/ DeviceDone \/ Rti
    \/ MapHw \/ MapTable \/ MapLow
    \/ UnmapHw \/ UnmapTable \/ UnmapLow
    \/ (\E q \in Procs : yield(q) \/ NmiHandler(q)) \/ NmiPanic
    \/ (\E p \in Procs : \E o \in Gifts(p) : sys_fork(p, o))
    \/ kernel_epilogue \/ Halted

Spec == Init /\ [][Next]_vars

-----------------------------------------------------------------------------
(* Properties. *)

\* User code always runs as it was left: at the instruction it had reached, in
\* its own segments, the last one included, with interrupts on and the vector
\* of user traps, and with nothing left on its stack or on its kernel stack.
\* Every trap passes through one life raft and one prev register, which other
\* processes and nested interrupts use in between (trampoline.s, trap.c).
UserAsLeft ==
    m.pc.at = "user" =>
        /\ m.pc.proc = cur /\ m.pc.pos = pos[cur]
        /\ \A s \in Segs : m.pt[s] = Table(cur, own[cur])[s]
        /\ ~m.i /\ m.vec = "irq_handler"
        /\ m.stk[KStack(cur)] = <<>> /\ m.stk[UFrame(cur, 0)] = <<>>

\* Kernel code always runs on the kernel stack of the current process, in the
\* MMU and in the kernel's table, with the kernel's last segment both mapped
\* and in prev, so that the RTI of a nested interrupt comes back to the kernel,
\* and outside a window access the table has the window's own frame.
KernelMapped ==
    m.pc.at \in Busy \cup {"vector_rti"} =>
        /\ m.pt[0] = KStack(cur) /\ kpt[0] = KStack(cur) /\ low[cur][0] = KStack(cur)
        /\ m.pt[15] = K15 /\ m.prev = K15 /\ m.vec = "kernel_vector"
        /\ m.pc.at = "kernel" /\ m.pc.win = "idle" => kpt[2] = Home /\ low[cur][2] = Home

\* A window shows the frame asked for: when the accessor uses it, the MMU maps
\* that frame.
WindowRight == m.pc.at \in Busy /\ m.pc.win = "mapped" => m.pt[2] = m.pc.want

\* The window goes wrong in one case only: an interrupt came between the store
\* to the MMU and the store to the table (mmu.c lines 30 and 31). Whoever
\* interrupts, however deep, and whichever process runs in between, an access
\* whose two stores were not parted reaches the frame it asked for.
WindowRightUnlessTorn == WindowRight \/ m.pc.torn

\* A process that a trap ends gives back every frame it owns, unless two traps
\* came at one instruction: the second then saves the kernel's last segment in
\* prev over the user's (machine.c lines 172 to 209), and the frame is lost.
LeakOnlyInTwoTraps == leaked \subseteq twice

\* An interrupt the CPU takes is served: with interrupts on, a line that is up
\* is pending, unless a trap at the same instruction ended the process before
\* irq_handler ran (machine.c lines 172 to 209).
TakenIrqServed ==
    m.line /\ ~m.i /\ m.pc.at # "prologue" /\ ~panicked => m.pending \/ dropped
=============================================================================
