--------------------------- MODULE TrapInvariants ---------------------------
(***************************************************************************)
(* The inductive invariant of module Trap: what holds of the machine, of   *)
(* the stacks, of the window and of the saved contexts at every step of a  *)
(* trap, at any depth of nested interrupts.                                *)
(***************************************************************************)
EXTENDS Trap

Labels == {"irq_handler", "nmi_handler", "prologue", "kernel", "top", "epilogue", "trap_rti",
           "kernel_vector", "nested", "vector_rti"}

Frame == {K15, Home, NoFrame} \cup {KStack(p) : p \in Procs}
         \cup (UNION {{UFrame(p, s) : p \in Procs} : s \in Segs}) \cup {Page(l) : l \in Labels}
Stacks == {KStack(p) : p \in Procs} \cup {UFrame(p, 0) : p \in Procs}
Windows == {"idle", "hw", "table", "mapped", "unhw", "untable"}
CodeAt == [at : Labels, win : Windows, want : Frame, old : Frame, torn : BOOLEAN]
UserAt == [at : {"user"}, proc : Procs, pos : {0, 1}, wild : BOOLEAN]
Entry == [pc : CodeAt \cup UserAt, i : BOOLEAN, b : BOOLEAN]
Context == [ctx : [pc : CodeAt \cup UserAt, i : BOOLEAN], pt : [Segs -> Frame]]
Fields == {"pt", "prev", "cause", "v", "timing", "latch", "pending", "line", "i", "pc", "vec", "stk"}

IsMachine(s) ==
    /\ DOMAIN s = Fields
    /\ s.pt \in [Segs -> Frame] /\ s.prev \in Frame
    /\ s.cause \in {"none", "V", "privilege", "invalid"} /\ s.v \in BOOLEAN
    /\ s.timing \in BOOLEAN /\ s.latch \subseteq {"irq", "nmi"} /\ s.pending \in BOOLEAN
    /\ s.line \in BOOLEAN /\ s.i \in BOOLEAN /\ s.pc \in CodeAt \cup UserAt
    /\ s.vec \in {"irq_handler", "kernel_vector"} /\ s.stk \in [Stacks -> Seq(Entry)]

\* The types of the variables.
TypeOK ==
    /\ IsMachine(m) /\ kpt \in [Segs -> Frame] /\ raft \in Context
    /\ pcb \in [Procs -> Context] /\ low \in [Procs -> [{0, 2} -> Frame]]
    /\ state \in [Procs -> {"unused", "new", "ready", "running"}] /\ cur \in Procs
    /\ first \in BOOLEAN /\ own \in [Procs -> SUBSET Frame] /\ pos \in [Procs -> {0, 1}]
    /\ leaked \subseteq Frame /\ twice \subseteq Frame
    /\ dropped \in BOOLEAN /\ panicked \in BOOLEAN

-----------------------------------------------------------------------------
(***************************************************************************)
(* The levels of nested interrupts: 0 is the code c that runs, and n the   *)
(* code that waits in entry n of the kernel stack k.                       *)
(***************************************************************************)
Level(c, k, n) == IF n = 0 THEN c ELSE k[n].pc

\* The table of a level that has stored its frame there shows that frame; the
\* MMU, when the level goes on, must show the frame of one that has it mapped.
Tabled(c, k, n) == Level(c, k, n).win \in {"table", "mapped", "unhw"}
Maps(c, k, n) == Level(c, k, n).win \in {"hw", "table", "mapped"}

\* Table entry x is what level n sees: the frame of the first level from n on
\* that has one in the table, or the window's own frame.
Sees(c, k, n, x) ==
    /\ \A j \in n .. Len(k) :
          Tabled(c, k, j) /\ (\A l \in n .. j - 1 : ~Tabled(c, k, l)) => x = Level(c, k, j).want
    /\ (\A j \in n .. Len(k) : ~Tabled(c, k, j)) => x = Home

\* MMU entry x is right for the first level from n on that has a frame mapped,
\* unless an interrupt tore that level's mapping.
Shown(c, k, n, x) ==
    \A j \in n .. Len(k) :
        Maps(c, k, j) /\ (\A l \in n .. j - 1 : ~Maps(c, k, l)) =>
            Level(c, k, j).torn \/ x = Level(c, k, j).want

\* Every level will restore what the next one sees.
Restores(c, k) ==
    \A n \in 0 .. Len(k) : Level(c, k, n).win # "idle" => Sees(c, k, n + 1, Level(c, k, n).old)

\* What an interrupt between two stores has done to the levels that wait.
TornBelow(c, k) ==
    \A n \in 1 .. Len(k) :
        /\ Level(c, k, n).win = "hw" => Level(c, k, n).torn
        /\ Level(c, k, n).win = "unhw" => \A j \in n + 1 .. Len(k) : Level(c, k, j).torn

\* Windows of code c above stack k with x in the MMU, y in the table and z in
\* the process's low memory.
WindowsOK(c, k, x, y, z) ==
    /\ Sees(c, k, 0, y) /\ Shown(c, k, 0, x) /\ Restores(c, k) /\ TornBelow(c, k)
    /\ (\A n \in 0 .. Len(k) : Level(c, k, n).win = "idle") => z = Home
Base == {"prologue", "kernel", "top", "epilogue"}
Above == {"kernel_vector", "nested", "vector_rti"}

\* Code c runs, and what waits in k was interrupted where it can be.
LevelsOK(c, k) ==
    /\ c.at \in Base => k = <<>>
    /\ c.at \in Above => k # <<>>
    /\ c.at \in {"epilogue", "kernel_vector", "vector_rti"} => c.win = "idle"
    /\ \A n \in 1 .. Len(k) :
          /\ k[n].pc \in CodeAt
          /\ k[n].pc.at \in IF n = Len(k) THEN {"prologue", "kernel", "top"}
                            ELSE {"nested", "vector_rti"}
          /\ k[n].pc.at = "vector_rti" => k[n].pc.win = "idle"

-----------------------------------------------------------------------------
(* The inductive invariant. *)

\* Interrupt requests and violations do not wait inside the CPU.
Calm == ~m.timing /\ m.latch = {} /\ (m.v => m.pc.at = "user") /\ kpt[15] = K15

\* A process that is not running has nothing on its stacks but, when it gave up
\* the CPU in yield(), the place where.
Waiting(p) == \E c \in CodeAt : /\ c.at = "kernel" /\ c.win = "idle"
                                /\ m.stk[KStack(p)] = <<[pc |-> c, i |-> TRUE, b |-> FALSE]>>

Others ==
    /\ state[cur] = "running"
    /\ \A p \in Procs : p # cur =>
          /\ state[p] # "running" /\ m.stk[UFrame(p, 0)] = <<>>
          /\ state[p] = "ready" => Waiting(p)
          /\ state[p] # "ready" => m.stk[KStack(p)] = <<>>

\* The context of a process, saved at its last trap, is what it goes on from.
SavedAs(r, p) == /\ r.pt = Table(p, own[p])
                 /\ \E w \in BOOLEAN : r.ctx = [pc |-> User(p, pos[p], w), i |-> FALSE]

Saved == /\ \A p \in Procs : state[p] # "unused" => own[p] \in Gifts(p)
         /\ \A p \in Procs : state[p] \in {"ready", "new"} =>
               SavedAs(pcb[p], p) /\ low[p][0] = KStack(p) /\ low[p][2] = Home

\* User code, and the trampolines with the user's low segments.
OnUserStack == {"user", "irq_handler", "nmi_handler", "trap_rti"}

UserSide ==
    m.pc.at \in OnUserStack =>
        /\ kpt = KernelTable(cur) /\ raft.pt = Table(cur, own[cur])
        /\ m.stk[KStack(cur)] = <<>> /\ m.vec = "irq_handler"
        /\ m.pt[0] = UFrame(cur, 0) /\ m.pt[2] = NoFrame

UserCode ==
    m.pc.at = "user" =>
        /\ \E w \in BOOLEAN : m.pc = User(cur, pos[cur], w)
        /\ m.pt[15] = Table(cur, own[cur])[15] /\ ~m.i /\ m.stk[UFrame(cur, 0)] = <<>>

OneEntry(b) == \E w \in BOOLEAN : m.stk[UFrame(cur, 0)] =
                    <<[pc |-> User(cur, pos[cur], w), i |-> FALSE, b |-> b]>>

Trampolines ==
    /\ m.pc.at \in {"irq_handler", "nmi_handler", "trap_rti"} => m.pt[15] = K15 /\ m.i
    /\ m.pc.at \in {"irq_handler", "trap_rti"} =>
          m.prev = Table(cur, own[cur])[15] /\ \E b \in BOOLEAN : OneEntry(b)
    /\ m.pc.at = "nmi_handler" =>
          /\ m.prev = Table(cur, own[cur])[15] \/ UFrame(cur, 15) \in twice
          /\ m.stk[UFrame(cur, 0)] # <<>>

\* Kernel code.
KernelSide ==
    m.pc.at \in Base \cup Above =>
        /\ m.pt[0] = KStack(cur) /\ kpt[0] = KStack(cur) /\ low[cur][0] = KStack(cur)
        /\ m.pt[15] = K15 /\ m.prev = K15 /\ m.vec = "kernel_vector"
        /\ m.stk[UFrame(cur, 0)] = <<>> /\ SavedAs(pcb[cur], cur)
        /\ LevelsOK(m.pc, m.stk[KStack(cur)])
        /\ WindowsOK(m.pc, m.stk[KStack(cur)], m.pt[2], kpt[2], low[cur][2])

\* A line that is up is pending unless its interrupt is about to be served.
Served == m.line => m.pending \/ dropped

Serving == /\ m.pc.at \notin {"irq_handler", "prologue", "kernel_vector"} => Served
           /\ m.pc.at = "irq_handler" => Served \/ OneEntry(FALSE)
           /\ m.pc.at = "kernel_vector" => m.i

TrapInv == /\ TypeOK /\ Calm /\ Others /\ Saved /\ UserSide /\ UserCode /\ Trampolines
           /\ KernelSide /\ Serving /\ LeakOnlyInTwoTraps

-----------------------------------------------------------------------------
(* What the lemmas say of a level, and of the machine after a step. *)

\* Two chains of levels, of which one is the other from its level d on.
Same(c, k, n, e, g, q) == /\ Level(c, k, n).win = Level(e, g, q).win
                          /\ Level(c, k, n).want = Level(e, g, q).want

\* WindowsOK, with the running code apart from the levels below it.
TopOK(c, k, x, y, z) ==
    /\ IF c.win \in {"table", "mapped", "unhw"} THEN y = c.want ELSE Sees(c, k, 1, y)
    /\ IF c.win \in {"hw", "table", "mapped"} THEN c.torn \/ x = c.want ELSE Shown(c, k, 1, x)
    /\ c.win # "idle" => Sees(c, k, 1, c.old)
    /\ \A n \in 1 .. Len(k) : k[n].pc.win # "idle" => Sees(c, k, n + 1, k[n].pc.old)
    /\ TornBelow(c, k)
    /\ c.win = "idle" /\ (\A n \in 1 .. Len(k) : k[n].pc.win = "idle") => z = Home

\* The stores of a window access, one by one: from code c, with x in the MMU, y in
\* the table and z in low memory, to code e, with u, v and w there.
Moves(c, e, x, y, z, u, v, w) ==
    \/ c.win = "idle" /\ e.win = "idle" /\ u = x /\ v = y /\ w = z
    \/ c.win = "idle" /\ e.win = "hw" /\ e.old = y /\ u = e.want /\ v = y
    \/ /\ e.want = c.want /\ e.old = c.old /\ e.torn = c.torn
       /\ \/ c.win = "hw" /\ e.win = "table" /\ u = x /\ v = c.want
          \/ c.win = "table" /\ e.win = "mapped" /\ u = x /\ v = y
          \/ c.win = "mapped" /\ e.win = "unhw" /\ u = c.old /\ v = y
          \/ c.win = "unhw" /\ e.win = "untable" /\ u = x /\ v = c.old
    \/ c.win = "untable" /\ e.win = "idle" /\ u = x /\ v = y /\ w = c.old

\* r differs from s at most in the fields F.
Differ(r, s, F) == DOMAIN r = Fields /\ \A f \in Fields \ F : r[f] = s[f]

\* What s becomes when the CPU takes an interrupt and nothing else.
AfterIrq(r, s) ==
    /\ IsMachine(r) /\ Differ(r, s, {"stk", "i", "pc", "prev", "pending", "pt"})
    /\ r.pt[0] = s.pt[0] /\ r.pt[2] = s.pt[2] /\ r.pt[15] = K15
    /\ r.prev = s.pt[15] /\ r.i = TRUE /\ r.pc = Code(s.vec) /\ r.pending = FALSE
    /\ r.stk = [s.stk EXCEPT ![s.pt[0]] = <<[pc |-> s.pc, i |-> s.i, b |-> FALSE]>> \o @]

\* Between the three questions of MMU_pre_exec(): t is what s has become.
Mid(t, s) ==
    /\ IsMachine(t) /\ t.vec = s.vec /\ t.line = s.line
    /\ t.pt[0] = s.pt[0] /\ t.pt[2] = s.pt[2]
    /\ \A f \in Stacks \ {s.pt[0]} : t.stk[f] = s.stk[f]
    /\ t.latch \subseteq {"nmi"} /\ (t.timing \/ t.latch = {})

\* The NMI is taken, or will be before any instruction.
Struck(u, s) ==
    /\ Mid(u, s) /\ u.pt[15] = K15 /\ u.timing
    /\ \/ "nmi" \in u.latch
       \/ u.latch = {} /\ u.pc = Code("nmi_handler") /\ u.i /\ u.stk[s.pt[0]] # <<>>

\* What s becomes when the CPU takes an NMI in user code, after an interrupt or not.
AfterNmi(r, s, op) ==
    /\ IsMachine(r) /\ r.vec = s.vec /\ r.line = s.line
    /\ r.pt[0] = s.pt[0] /\ r.pt[2] = s.pt[2] /\ r.pt[15] = K15
    /\ \A f \in Stacks \ {s.pt[0]} : r.stk[f] = s.stk[f]
    /\ r.stk[s.pt[0]] # <<>> /\ r.latch = {} /\ ~r.timing /\ ~r.v /\ r.i
    /\ r.pc = Code("nmi_handler")
    /\ \/ r.prev = s.pt[15]
       \/ (s.pending /\ ~s.i) \/ op = "brk"
       \/ op \in {"privilege", "invalid"} /\ s.v

\* What s becomes when an RTI of the kernel is executed.
AfterRti(r, s) ==
    /\ IsMachine(r) /\ Differ(r, s, {"stk", "i", "pc", "pt"})
    /\ r.pt[0] = s.pt[0] /\ r.pt[2] = s.pt[2] /\ r.pt[15] = s.prev
    /\ r.pc = Head(s.stk[s.pt[0]]).pc /\ r.i = Head(s.stk[s.pt[0]]).i
    /\ r.stk = [s.stk EXCEPT ![s.pt[0]] = Tail(@)]

\* Where a process goes on that a switch picks: on its own stack, in yield() or at
\* the epilogue, with the window's own frame.
AfterSwitch(r, s, q) ==
    /\ IsMachine(r) /\ Differ(r, s, {"pt", "pc", "i", "stk"})
    /\ r.pt[0] = KStack(q) /\ r.pt[2] = Home /\ r.pt[15] = s.pt[15]
    /\ r.stk[KStack(q)] = <<>> /\ \A f \in Stacks \ {KStack(q)} : r.stk[f] = s.stk[f]
    /\ r.pc.at \in {"kernel", "epilogue"} /\ r.pc.win = "idle"

Resumable(s, q) ==
    IF state[q] = "new" THEN s.stk[KStack(q)] = <<>>
    ELSE \E c \in CodeAt : /\ c.at = "kernel" /\ c.win = "idle"
                           /\ s.stk[KStack(q)] = <<[pc |-> c, i |-> TRUE, b |-> FALSE]>>

\* What the switch makes of the machine, a being the low segments of the next one.
Landed(s, a) == [s EXCEPT !.pt[0] = a[0], !.pt[2] = a[2]]

Switched(s, a, q) ==
    IF state[q] = "new" THEN [Landed(s, a) EXCEPT !.pc = Code("epilogue"), !.i = TRUE]
    ELSE [Pull(Landed(s, a)) EXCEPT !.pc = Pulled(Landed(s, a)).pc, !.i = FALSE]

\* The machine a switch starts from: kernel code, with the next process's stacks
\* as it left them.
SwitchFrom(s, q) ==
    /\ IsMachine(s) /\ s.pt[15] = K15 /\ s.prev = K15 /\ s.vec = "kernel_vector"
    /\ ~s.v /\ ~s.timing /\ s.latch = {} /\ (s.line => s.pending \/ dropped)
    /\ s.stk[UFrame(q, 0)] = <<>> /\ Resumable(s, q)
=============================================================================
