----------------------------- MODULE TrapProofs -----------------------------
(***************************************************************************)
(* The crossings between user and kernel of module Trap, for every number  *)
(* of processes and every depth of nested interrupts.                      *)
(***************************************************************************)
EXTENDS TrapLemmas

\* Zenon proves the leaves that do not say SMT.
USE ZenonT(30)

-----------------------------------------------------------------------------
(* The devices, and the last trap of a process. *)

\* panic(), which stops the machine and changes nothing else, and no step at all.
LEMMA TrapSame ==
    ASSUME TrapInv, UNCHANGED <<m, kpt, raft, pcb, low, state, cur, first, own, pos, leaked, twice, dropped>>,
           panicked' \in BOOLEAN
    PROVE  TrapInv'
<1>1. TypeOK' /\ Calm' /\ LeakOnlyInTwoTraps'
  BY DEF TrapInv, TypeOK, Calm, LeakOnlyInTwoTraps
<1>2. Others' /\ Saved'
  BY DEF TrapInv, Others, Waiting, Saved, SavedAs
<1>3. UserSide' /\ UserCode' /\ Trampolines'
  BY DEF TrapInv, UserSide, UserCode, Trampolines, OneEntry
<1>4. KernelSide' /\ Serving'
  BY DEF TrapInv, KernelSide, SavedAs, Serving, Served, OneEntry
<1>. QED  BY <1>1, <1>2, <1>3, <1>4 DEF TrapInv

\* A device raises its line, in user and in kernel code.
LEMMA RaiseStep ==
    ASSUME TrapInv, Raise PROVE TrapInv'
<1>1. m' = [m EXCEPT !.line = TRUE, !.pending = TRUE] /\ UNCHANGED memory /\ IsMachine(m)
  BY DEF Raise, TrapInv, TypeOK
<1>2. Differ(m', m, {"line", "pending"}) /\ m'.line = TRUE /\ m'.pending = TRUE
  BY <1>1 DEF IsMachine, Differ, Fields
<1>3. IsMachine(m')
  BY <1>1, <1>2 DEF IsMachine, Differ, Fields
<1>4. /\ m'.pt = m.pt /\ m'.prev = m.prev /\ m'.vec = m.vec /\ m'.v = m.v /\ m'.timing = m.timing
      /\ m'.latch = m.latch /\ m'.pc = m.pc /\ m'.i = m.i /\ m'.stk = m.stk
  BY <1>2 DEF Differ, Fields
<1>5. UNCHANGED <<kpt, raft, pcb, low, state, cur, first, own, pos, leaked, twice, dropped, panicked>>
  BY <1>1 DEF memory
<1>6. TypeOK' /\ LeakOnlyInTwoTraps'
  BY <1>3, <1>5 DEF TrapInv, TypeOK, LeakOnlyInTwoTraps
<1>7. Calm' /\ Saved'
  BY <1>4, <1>5 DEF TrapInv, Calm, Saved, SavedAs
<1>8. Others'
  <2>1. Others
    BY DEF TrapInv
  <2>2. \A p : m'.stk[KStack(p)] = m.stk[KStack(p)] /\ m'.stk[UFrame(p, 0)] = m.stk[UFrame(p, 0)]
    BY <1>4
  <2>. QED  BY ONLY <1>5, <2>1, <2>2, ZenonT(30) DEF Others, Waiting
<1>9. UserSide' /\ UserCode'
  BY <1>4, <1>5 DEF TrapInv, UserSide, UserCode
<1>10. Trampolines'
  BY <1>4, <1>5 DEF TrapInv, Trampolines, OneEntry
<1>11. KernelSide'
  BY <1>4, <1>5 DEF TrapInv, KernelSide, SavedAs
<1>12. Serving'
  BY <1>2, <1>4 DEF TrapInv, Serving, Served
<1>. QED  BY <1>6, <1>7, <1>8, <1>9, <1>10, <1>11, <1>12 DEF TrapInv

\* What sys_exit() fails to give back is the last segment, after two traps.
LEMMA ExitLeaks ==
    ASSUME TrapInv, m.pc.at = "nmi_handler"
    PROVE  own[cur] \ {RaftAfter(m).pt[n] : n \in Segs} \subseteq twice
<1>. DEFINE t == [raft.pt EXCEPT ![15] = m.prev]
            S == {RaftAfter(m).pt[n] : n \in Segs}
<1>1. /\ cur \in Procs /\ raft.pt = Table(cur, own[cur])
      /\ m.prev = Table(cur, own[cur])[15] \/ UFrame(cur, 15) \in twice
      /\ state[cur] = "running"
  BY DEF TrapInv, TypeOK, UserSide, OnUserStack, Trampolines, Others
<1>2. own[cur] \in Gifts(cur)
  <2>1. state[cur] # "unused"
    BY <1>1
  <2>. QED  BY <1>1, <2>1 DEF TrapInv, Saved
<1>3. /\ Table(cur, own[cur]) \in [Segs -> Frame] /\ Table(cur, own[cur])[0] = UFrame(cur, 0)
      /\ Table(cur, own[cur])[15] = IF UFrame(cur, 15) \in own[cur] THEN UFrame(cur, 15) ELSE NoFrame
      /\ own[cur] \subseteq {UFrame(cur, 0), UFrame(cur, 15)}
  BY <1>1, <1>2, TableFrames
<1>4. t[0] = UFrame(cur, 0) /\ t[15] = m.prev
  <2>1. t = [Table(cur, own[cur]) EXCEPT ![15] = m.prev]
    BY <1>1
  <2>. HIDE DEF t
  <2>. QED  BY ONLY <1>3, <2>1, SMT DEF Segs
<1>5. RaftAfter(m).pt = t
  BY DEF RaftAfter
<1>. HIDE DEF t
<1>6. UFrame(cur, 0) \in S /\ m.prev \in S
  <2>1. 0 \in Segs /\ 15 \in Segs
    BY DEF Segs
  <2>. QED  BY <1>4, <1>5, <2>1
<1>. HIDE DEF S
<1>7. ASSUME NEW f \in own[cur], f \notin S PROVE f \in twice
  <2>1. f = UFrame(cur, 15)
    BY <1>3, <1>6, <1>7
  <2>2. m.prev # UFrame(cur, 15) /\ Table(cur, own[cur])[15] = UFrame(cur, 15)
    BY <1>3, <1>6, <1>7, <2>1
  <2>. QED  BY <1>1, <2>1, <2>2
<1>. QED  BY <1>7 DEF S

\* nmi_handler ends the process with what the life raft has and switches to another.
LEMMA NmiHandlerStep ==
    ASSUME TrapInv, NEW q \in Procs, NmiHandler(q) PROVE TrapInv'
<1>. DEFINE u == Trampoline(m)
            s == [u EXCEPT !.cause = "none", !.stk[UFrame(cur, 0)] = <<>>]
<1>1. /\ m.pc.at = "nmi_handler" /\ state[q] \in {"ready", "new"}
      /\ raft' = RaftAfter(m) /\ pcb' = [pcb EXCEPT ![cur] = RaftAfter(m)] /\ first' = FALSE
      /\ leaked' = leaked \cup (own[cur] \ {RaftAfter(m).pt[n] : n \in Segs})
      /\ own' = [own EXCEPT ![cur] = {}]
      /\ state' = [state EXCEPT ![cur] = "unused", ![q] = "running"]
      /\ context_switch(s, q)
      /\ UNCHANGED <<pos, twice, dropped, panicked>>
  BY DEF NmiHandler
<1>2. /\ IsMachine(m) /\ cur \in Procs /\ kpt \in [Segs -> Frame] /\ raft \in Context
      /\ pcb \in [Procs -> Context] /\ own \in [Procs -> SUBSET Frame]
      /\ state \in [Procs -> {"unused", "new", "ready", "running"}]
      /\ kpt = KernelTable(cur) /\ m.stk[KStack(cur)] = <<>>
      /\ m.pt[0] = UFrame(cur, 0) /\ m.pt[15] = K15 /\ m.stk[UFrame(cur, 0)] # <<>>
      /\ ~m.timing /\ m.latch = {} /\ ~m.v /\ state[cur] = "running" /\ Served
      /\ leaked \subseteq twice /\ twice \subseteq Frame
  BY <1>1 DEF TrapInv, TypeOK, UserSide, OnUserStack, Trampolines, Calm, Others, Serving, LeakOnlyInTwoTraps
<1>3. /\ UFrame(cur, 0) \in Stacks /\ KStack(cur) \in Stacks \ {UFrame(cur, 0)}
      /\ kpt[0] = KStack(cur) /\ kpt[2] = Home /\ kpt[15] = K15 /\ q # cur
  BY <1>1, <1>2, FrameTypes, FramesDistinct, KernelTableFrames
<1>4. /\ IsMachine(u) /\ Differ(u, m, {"stk", "pt", "prev", "vec"})
      /\ u.stk = [m.stk EXCEPT ![m.pt[0]] = Tail(@)] /\ u.pt[15] = m.pt[15]
      /\ u.prev = kpt[15] /\ u.vec = "kernel_vector" /\ Pulled(m) \in Entry
  <2>1. m.pt[0] \in Stacks /\ m.stk[m.pt[0]] # <<>>
    BY <1>2, <1>3
  <2>. QED  BY <1>2, <2>1, TrampolineType
<1>. HIDE DEF u
<1>5. Differ(s, u, {"cause", "stk"}) /\ s.cause = "none" /\ s.stk = [u.stk EXCEPT ![UFrame(cur, 0)] = <<>>]
  <2>1. DOMAIN u = Fields
    BY <1>4 DEF IsMachine
  <2>. QED  BY <2>1 DEF Differ, Fields
<1>. HIDE DEF s
<1>6. IsMachine(s)
  <2>1. u.stk \in [Stacks -> Seq(Entry)] /\ <<>> \in Seq(Entry)
    BY <1>4, EntrySeqs DEF IsMachine
  <2>2. s.stk \in [Stacks -> Seq(Entry)]
    BY <1>5, <2>1
  <2>. QED  BY <1>4, <1>5, <2>2 DEF IsMachine, Differ, Fields
<1>7. s.stk[UFrame(cur, 0)] = <<>> /\ \A f \in Stacks \ {UFrame(cur, 0)} : s.stk[f] = m.stk[f]
  <2>1. m.stk \in [Stacks -> Seq(Entry)] /\ u.stk \in [Stacks -> Seq(Entry)]
    BY <1>2, <1>4 DEF IsMachine
  <2>2. u.stk = [m.stk EXCEPT ![UFrame(cur, 0)] = Tail(@)]
    BY <1>2, <1>4
  <2>3. \A f \in Stacks \ {UFrame(cur, 0)} : u.stk[f] = m.stk[f]
    BY <2>1, <2>2
  <2>. QED  BY <1>3, <1>5, <2>1, <2>3
<1>8. ASSUME NEW p \in Procs, p # cur
      PROVE  s.stk[KStack(p)] = m.stk[KStack(p)] /\ s.stk[UFrame(p, 0)] = m.stk[UFrame(p, 0)]
  <2>1. KStack(p) \in Stacks \ {UFrame(cur, 0)} /\ UFrame(p, 0) \in Stacks \ {UFrame(cur, 0)}
    BY <1>8, FramesDistinct, FrameTypes
  <2>. QED  BY <1>7, <2>1
<1>9. SwitchFrom(s, q) /\ SavedAs(pcb[q], q)
  <2>1. /\ s.pt[15] = K15 /\ s.prev = K15 /\ s.vec = "kernel_vector"
    BY <1>2, <1>3, <1>4, <1>5, ZenonT(120) DEF Differ, Fields
  <2>2. ~s.v /\ ~s.timing /\ s.latch = {} /\ (s.line => s.pending \/ dropped)
    <3>1. s.v = u.v /\ s.timing = u.timing /\ s.latch = u.latch /\ s.line = u.line /\ s.pending = u.pending
      BY <1>5 DEF Differ, Fields
    <3>2. u.v = m.v /\ u.timing = m.timing /\ u.latch = m.latch /\ u.line = m.line /\ u.pending = m.pending
      BY <1>4 DEF Differ, Fields
    <3>. QED  BY <1>2, <3>1, <3>2 DEF Served
  <2>3. s.stk[UFrame(q, 0)] = <<>>
    BY <1>3, <1>8 DEF TrapInv, Others
  <2>4. Resumable(s, q)
    <3>1. s.stk[KStack(q)] = m.stk[KStack(q)]
      BY <1>3, <1>8
    <3>2. Others
      BY DEF TrapInv
    <3>. QED  BY ONLY <1>1, <1>3, <3>1, <3>2, q \in Procs, SMTT(30) DEF Resumable, Others, Waiting
  <2>5. SavedAs(pcb[q], q)
    BY <1>1 DEF TrapInv, Saved
  <2>. QED  BY <1>6, <2>1, <2>2, <2>3, <2>4, <2>5 DEF SwitchFrom
<1>10. /\ \A p \in Procs \ {cur} : pcb'[p] = pcb[p] /\ own'[p] = own[p]
       /\ own'[cur] = {} /\ own' \in [Procs -> SUBSET Frame]
  <2>1. \A p \in Procs \ {cur} : pcb'[p] = pcb[p]
    <3>. HIDE DEF Context
    <3>. QED  BY <1>1, <1>2
  <2>. QED  BY <1>1, <1>2, <2>1
<1>11. /\ IsMachine(m') /\ kpt' \in [Segs -> Frame] /\ low' \in [Procs -> [{0, 2} -> Frame]] /\ cur' = q
       /\ Calm' /\ UserSide' /\ UserCode' /\ Trampolines' /\ KernelSide' /\ Serving'
       /\ \A f \in Stacks \ {KStack(q)} : m'.stk[f] = s.stk[f]
       /\ \A p \in Procs \ {cur} : low'[p] = low[p]
  <2>1. pcb'[q] = pcb[q] /\ own'[q] = own[q]
    BY <1>3, <1>10
  <2>. QED  BY <1>1, <1>3, <1>9, <2>1, SwitchInv
<1>12. /\ state' \in [Procs -> {"unused", "new", "ready", "running"}] /\ state'[q] = "running"
       /\ state'[cur] = "unused" /\ \A p \in Procs : p # q /\ p # cur => state'[p] = state[p]
  BY <1>1, <1>2, <1>3
<1>13. TypeOK'
  <2>1. RaftAfter(m) \in Context
    <3>. DEFINE t == [raft.pt EXCEPT ![15] = m.prev]
                c == [pc |-> Pulled(m).pc, i |-> Pulled(m).i]
    <3>1. raft.pt \in [Segs -> Frame] /\ m.prev \in Frame
      BY <1>2 DEF Context, IsMachine
    <3>2. t \in [Segs -> Frame]
      BY <3>1
    <3>3. c \in [pc : CodeAt \cup UserAt, i : BOOLEAN]
      BY <1>4 DEF Entry
    <3>4. RaftAfter(m) = [ctx |-> c, pt |-> t]
      BY DEF RaftAfter
    <3>. HIDE DEF t, c
    <3>5. [ctx |-> c, pt |-> t] \in Context
      BY ONLY <3>2, <3>3 DEF Context
    <3>. QED  BY <3>4, <3>5
  <2>2. pcb' \in [Procs -> Context]
    BY <1>1, <1>2, <2>1
  <2>3. leaked' \subseteq Frame
    BY <1>1, <1>2
  <2>. QED  BY <1>1, <1>10, <1>11, <1>12, <2>1, <2>2, <2>3 DEF TrapInv, TypeOK
<1>14. Others'
  <2>1. ASSUME NEW p \in Procs, p # q
        PROVE  m'.stk[KStack(p)] = s.stk[KStack(p)] /\ m'.stk[UFrame(p, 0)] = s.stk[UFrame(p, 0)]
    <3>1. KStack(p) \in Stacks \ {KStack(q)} /\ UFrame(p, 0) \in Stacks \ {KStack(q)}
      BY <2>1, FramesDistinct, FrameTypes
    <3>. QED  BY <1>11, <3>1
  <2>2. Others /\ cur' = q /\ state'[q] = "running"
    BY <1>11, <1>12 DEF TrapInv
  <2>3. ASSUME NEW p \in Procs, p # q
        PROVE  /\ state'[p] # "running" /\ m'.stk[UFrame(p, 0)] = <<>>
               /\ state'[p] = "ready" => Waiting(p)'
               /\ state'[p] # "ready" => m'.stk[KStack(p)] = <<>>
    <3>1. CASE p = cur
      <4>1. m'.stk[KStack(p)] = <<>> /\ m'.stk[UFrame(p, 0)] = <<>>
        BY <1>2, <1>3, <1>7, <2>1, <2>3, <3>1
      <4>. QED  BY <1>12, <3>1, <4>1
    <3>2. CASE p # cur
      <4>1. /\ state'[p] = state[p] /\ m'.stk[UFrame(p, 0)] = m.stk[UFrame(p, 0)]
            /\ m'.stk[KStack(p)] = m.stk[KStack(p)]
        BY <1>8, <1>12, <2>1, <2>3, <3>2
      <4>. QED  BY ONLY <2>2, <2>3, <3>2, <4>1, ZenonT(30) DEF Others, Waiting
    <3>. QED  BY <3>1, <3>2
  <2>. QED  BY ONLY <2>2, <2>3 DEF Others
<1>15. Saved'
  <2>1. ASSUME NEW p \in Procs, state'[p] # "unused" PROVE (own[p] \in Gifts(p))'
    <3>1. p # cur /\ state[p] # "unused"
      BY <1>1, <1>12, <2>1
    <3>. QED  BY <1>10, <3>1 DEF TrapInv, Saved, Gifts
  <2>2. ASSUME NEW p \in Procs, state'[p] \in {"ready", "new"}
        PROVE  SavedAs(pcb[p], p)' /\ low'[p][0] = KStack(p) /\ low'[p][2] = Home
    <3>1. p # q /\ p # cur
      BY <1>12, <2>2
    <3>2. state[p] \in {"ready", "new"} /\ low'[p] = low[p] /\ pcb'[p] = pcb[p] /\ own'[p] = own[p]
      BY <1>10, <1>11, <1>12, <2>2, <3>1
    <3>3. SavedAs(pcb[p], p) /\ low[p][0] = KStack(p) /\ low[p][2] = Home
      BY <3>2 DEF TrapInv, Saved
    <3>. QED  BY <1>1, <3>2, <3>3 DEF SavedAs
  <2>. QED  BY <2>1, <2>2 DEF Saved
<1>16. LeakOnlyInTwoTraps'
  <2>1. own[cur] \ {RaftAfter(m).pt[n] : n \in Segs} \subseteq twice
    BY <1>1, ExitLeaks
  <2>. QED  BY <1>1, <1>2, <2>1 DEF LeakOnlyInTwoTraps
<1>. QED  BY <1>11, <1>13, <1>14, <1>15, <1>16 DEF TrapInv

-----------------------------------------------------------------------------
(* The kernel: nested interrupts, driver calls and the window. *)

\* The CPU takes an interrupt in kernel code that has interrupts on.
LEMMA TakeIrqStep ==
    ASSUME TrapInv, TakeIrq PROVE TrapInv'
<1>. DEFINE k == m.stk[KStack(cur)]
            e == [m.pc EXCEPT !.torn = @ \/ m.pc.win = "hw"]
            g == [n \in DOMAIN k |-> IF m.pc.win = "unhw"
                                     THEN [k[n] EXCEPT !.pc = [k[n].pc EXCEPT !.torn = TRUE]] ELSE k[n]]
            f == [m.stk EXCEPT ![KStack(cur)] = g]
            s == [m EXCEPT !.pc = e, !.stk = f]
<1>1. m.pc.at \in Busy /\ m.pending /\ ~m.i /\ UNCHANGED memory
  BY DEF TakeIrq, Quiet
<1>2. m.pc.at \in Base \cup Above /\ m.pc.at \in Busy \cup {"vector_rti"}
  BY <1>1 DEF Busy, Base, Above
<1>3. /\ IsMachine(m) /\ cur \in Procs /\ m.pt[0] = KStack(cur) /\ KStack(cur) \in Stacks
      /\ m.pt[15] = K15 /\ ~m.timing /\ m.latch = {} /\ ~m.v /\ k \in Seq(Entry)
      /\ LevelsOK(m.pc, k) /\ WindowsOK(m.pc, k, m.pt[2], kpt[2], low[cur][2]) /\ m.pc \in CodeAt
  BY <1>2, KernelFacts, CodeHere
<1>4. Torn(m) = s
  BY <1>3 DEF Torn
<1>5. m' = MMU_post_exec(MCS6502ExecNext(MMU_pre_exec(s, "other"), MMU_pre_exec(s, "other")), "other", InUser(s))
  BY <1>4 DEF TakeIrq
<1>6. /\ e \in CodeAt /\ e.at = m.pc.at /\ e.win = m.pc.win /\ e.want = m.pc.want /\ e.old = m.pc.old
      /\ (m.pc.torn => e.torn) /\ (m.pc.win = "hw" => e.torn)
  BY <1>3 DEF CodeAt
<1>. HIDE DEF e
<1>7. DOMAIN k = 1 .. Len(k) /\ Len(k) \in Nat
  <2>1. k \in Seq(Entry)
    BY <1>3
  <2>. HIDE DEF k, Entry
  <2>. QED  BY ONLY <2>1, SMT
<1>8. ASSUME NEW n \in 1 .. Len(k)
      PROVE  /\ g[n] \in Entry /\ g[n].pc \in CodeAt /\ g[n].pc.at = k[n].pc.at
             /\ g[n].pc.win = k[n].pc.win /\ g[n].pc.want = k[n].pc.want /\ g[n].pc.old = k[n].pc.old
             /\ (k[n].pc.torn => g[n].pc.torn) /\ (m.pc.win = "unhw" => g[n].pc.torn)
  <2>. DEFINE t == [k[n].pc EXCEPT !.torn = TRUE]
              w == [k[n] EXCEPT !.pc = t]
  <2>1. g[n] = IF m.pc.win = "unhw" THEN w ELSE k[n]
    BY <1>7
  <2>2. k[n] \in Entry /\ k[n].pc \in CodeAt
    <3>1. k[n] \in Entry
      BY <1>3, EntrySeqs
    <3>. QED  BY <1>3, <3>1 DEF LevelsOK
  <2>. HIDE DEF k, g
  <2>3. /\ t \in CodeAt /\ t.at = k[n].pc.at /\ t.win = k[n].pc.win /\ t.want = k[n].pc.want
        /\ t.old = k[n].pc.old /\ t.torn
    BY <2>2 DEF CodeAt
  <2>. HIDE DEF t
  <2>4. w \in Entry /\ w.pc = t
    BY <2>2, <2>3 DEF Entry
  <2>. HIDE DEF w
  <2>. QED  BY <2>1, <2>2, <2>3, <2>4
<1>9. g \in Seq(Entry) /\ Len(g) = Len(k)
  <2>1. DOMAIN g = 1 .. Len(k)
    BY <1>7
  <2>2. g = [n \in 1 .. Len(k) |-> g[n]]
    BY <1>7
  <2>. HIDE DEF g, k
  <2>3. g \in [1 .. Len(k) -> Entry]
    BY <1>8, <2>2
  <2>. QED  BY <1>7, <2>3, SMTT(30)
<1>. HIDE DEF g, k
<1>10. f \in [Stacks -> Seq(Entry)] /\ f[KStack(cur)] = g /\ \A h \in Stacks \ {KStack(cur)} : f[h] = m.stk[h]
  BY <1>3, <1>9 DEF IsMachine
<1>. HIDE DEF f
<1>11. Differ(s, m, {"pc", "stk"}) /\ s.pc = e /\ s.stk = f
  BY <1>3 DEF IsMachine, Differ, Fields
<1>. HIDE DEF s
<1>12. IsMachine(s)
  BY <1>3, <1>6, <1>10, <1>11 DEF IsMachine, Differ, Fields
<1>13. LevelsOK(e, g)
  <2>1. k = <<>> <=> g = <<>>
    <3>1. k = <<>> <=> Len(k) = 0
      BY <1>3, EntrySeqs
    <3>2. g = <<>> <=> Len(g) = 0
      BY <1>9, EntrySeqs
    <3>. QED  BY <1>9, <3>1, <3>2
  <2>2. LevelsOK(m.pc, k)
    BY <1>3
  <2>3. /\ e.at \in Base => g = <<>>
        /\ e.at \in Above => g # <<>>
        /\ e.at \in {"epilogue", "kernel_vector", "vector_rti"} => e.win = "idle"
    BY ONLY <1>6, <2>1, <2>2, SMTT(30) DEF LevelsOK
  <2>4. ASSUME NEW n \in 1 .. Len(g)
        PROVE  /\ g[n].pc \in CodeAt
               /\ g[n].pc.at \in IF n = Len(g) THEN {"prologue", "kernel", "top"}
                                 ELSE {"nested", "vector_rti"}
               /\ g[n].pc.at = "vector_rti" => g[n].pc.win = "idle"
    <3>1. /\ g[n].pc \in CodeAt /\ g[n].pc.at = k[n].pc.at /\ g[n].pc.win = k[n].pc.win
          /\ n \in 1 .. Len(k) /\ Len(g) = Len(k)
      BY <1>8, <1>9
    <3>. QED  BY ONLY <2>2, <3>1 DEF LevelsOK
  <2>. QED  BY ONLY <2>3, <2>4 DEF LevelsOK
<1>14. WindowsOK(e, g, m.pt[2], kpt[2], low[cur][2])
  <2>1. ASSUME NEW n \in 0 .. Len(k)
        PROVE  /\ Same(m.pc, k, n, e, g, n) /\ Level(m.pc, k, n).old = Level(e, g, n).old
               /\ Level(m.pc, k, n).torn => Level(e, g, n).torn
    <3>1. CASE n = 0
      BY <1>6, <3>1 DEF Level, Same
    <3>2. CASE n # 0
      <4>1. n \in 1 .. Len(k)
        BY <1>7, <3>2, SMTT(30)
      <4>. QED  BY <1>8, <3>2, <4>1 DEF Level, Same
    <3>. QED  BY <3>1, <3>2
  <2>2. k \in Seq(Entry) /\ WindowsOK(m.pc, k, m.pt[2], kpt[2], low[cur][2])
    BY <1>3
  <2>. QED  BY ONLY <1>9, <2>1, <2>2, Tear, SMTT(30)
<1>15. AfterIrq(m', s)
  <2>1. s.pt = m.pt /\ s.timing = m.timing /\ s.latch = m.latch /\ s.v = m.v /\ s.pending = m.pending /\ s.i = m.i
    BY <1>11 DEF Differ, Fields
  <2>2. /\ ~s.timing /\ s.latch = {} /\ ~s.v /\ s.pending /\ ~s.i /\ s.pt[0] \in Stacks
        /\ "other" \notin {"privilege", "invalid"} /\ ("other" = "rti" => s.pt[15] = K15)
    BY <1>1, <1>3, <2>1
  <2>. DEFINE q == MMU_pre_exec(s, "other")
  <2>3. AfterIrq(MMU_post_exec(MCS6502ExecNext(MMU_pre_exec(s, "other"), q), "other", InUser(s)), s)
    <3>. HIDE DEF q
    <3>. QED  BY ONLY <1>12, <2>2, TakenIrq, SMTT(30)
  <2>. QED  BY <1>5, <2>3
<1>16. /\ s.pc \in CodeAt /\ s.pc.at = m.pc.at /\ s.stk[KStack(cur)] = g
       /\ \A h \in Stacks \ {KStack(cur)} : s.stk[h] = m.stk[h]
       /\ s.pc.win = "hw" => s.pc.torn
       /\ s.pc.win = "unhw" => \A n \in 1 .. Len(g) : g[n].pc.torn
  BY <1>6, <1>8, <1>9, <1>10, <1>11, ZenonT(120)
<1>17. LevelsOK(s.pc, s.stk[KStack(cur)]) /\ WindowsOK(s.pc, s.stk[KStack(cur)], m.pt[2], kpt[2], low[cur][2])
  BY <1>10, <1>11, <1>13, <1>14
<1>18. m.i \in BOOLEAN
  BY <1>3 DEF IsMachine
<1>. QED  BY <1>1, <1>2, <1>11, <1>12, <1>15, <1>16, <1>17, <1>18, KernelIrq

\* The device handlers: kernel_irq() and kernel_vector before and after
\* device_interrupt(), and proc_dump().
LEMMA DeviceSteps ==
    ASSUME TrapInv, DeviceInterrupt \/ proc_dump \/ DeviceDone
    PROVE  TrapInv'
<1>1. /\ m.pc.at \in Base \cup Above /\ m.pc.win = "idle"
      /\ UNCHANGED <<kpt, raft, pcb, low, state, cur, first, own, pos, leaked, twice, panicked>>
  BY DEF DeviceInterrupt, proc_dump, DeviceDone, memory, Base, Above
<1>2. /\ IsMachine(m) /\ cur \in Procs /\ m.stk[KStack(cur)] \in Seq(Entry) /\ m.pc \in CodeAt
      /\ WindowsOK(m.pc, m.stk[KStack(cur)], m.pt[2], kpt[2], low[cur][2])
  BY <1>1, KernelFacts, CodeHere
<1>3. /\ Differ(m', m, {"pc", "i", "line"}) /\ m'.pc \in CodeAt /\ m'.pc.win = "idle"
      /\ m'.pc.at \in IF m.pc.at \in Base THEN Base ELSE Above
      /\ m'.i \in BOOLEAN /\ m'.line \in BOOLEAN /\ dropped' \in BOOLEAN /\ Serving'
  <2>0. dropped \in BOOLEAN
    BY DEF TrapInv, TypeOK
  <2>1. CASE DeviceInterrupt
    <3>. DEFINE l == IF m.pc.at = "prologue" THEN "top" ELSE "nested"
    <3>1. m' = [m EXCEPT !.pc = Code(l), !.line = FALSE] /\ dropped' = FALSE
      BY <2>1 DEF DeviceInterrupt
    <3>2. Code(l) \in CodeAt /\ Code(l).at = l /\ Code(l).win = "idle"
      BY CodeType DEF Labels
    <3>3. Differ(m', m, {"pc", "line"}) /\ m'.pc = Code(l) /\ m'.line = FALSE
      BY <1>2, <3>1 DEF IsMachine, Differ, Fields
    <3>4. l \in (IF m.pc.at \in Base THEN Base ELSE Above) /\ l \in {"top", "nested"}
      BY <2>1 DEF DeviceInterrupt, Base, Above
    <3>. HIDE DEF l
    <3>5. m'.i = m.i /\ m'.i \in BOOLEAN
      BY <1>2, <3>3 DEF Differ, Fields, IsMachine
    <3>6. Served' /\ m'.pc.at \notin {"irq_handler", "prologue", "kernel_vector"}
      BY <3>2, <3>3, <3>4 DEF Served
    <3>7. Serving'
      BY <3>6 DEF Serving
    <3>. QED  BY <3>1, <3>2, <3>3, <3>4, <3>5, <3>7 DEF Differ
  <2>2. CASE proc_dump
    <3>1. m' = [m EXCEPT !.i = FALSE] /\ dropped' = dropped /\ m.pc.at \in {"top", "nested"}
      BY <2>2 DEF proc_dump, memory
    <3>2. Differ(m', m, {"i"}) /\ m'.i = FALSE
      BY <1>2, <3>1 DEF IsMachine, Differ, Fields
    <3>3. m'.pc = m.pc /\ m'.line = m.line /\ m'.pending = m.pending
      BY <3>2 DEF Differ, Fields
    <3>4. Serving'
      BY <3>1, <3>3 DEF TrapInv, Serving, Served
    <3>5. Differ(m', m, {"pc", "i", "line"}) /\ m'.line \in BOOLEAN
      BY <1>2, <3>2, <3>3 DEF Differ, IsMachine
    <3>6. m'.pc.at \in IF m.pc.at \in Base THEN Base ELSE Above
      BY <1>1, <3>3
    <3>. QED  BY <1>1, <1>2, <2>0, <3>1, <3>2, <3>3, <3>4, <3>5, <3>6
  <2>3. CASE DeviceDone
    <3>. DEFINE l == IF m.pc.at = "top" THEN "kernel" ELSE "vector_rti"
    <3>1. /\ m' = IF m.pc.at = "top" THEN [m EXCEPT !.pc = Code("kernel"), !.i = FALSE]
                  ELSE [m EXCEPT !.pc = Code("vector_rti")]
          /\ dropped' = dropped /\ m.pc.at \in {"top", "nested"}
      BY <2>3 DEF DeviceDone, memory
    <3>2. Code(l) \in CodeAt /\ Code(l).at = l /\ Code(l).win = "idle"
      BY CodeType DEF Labels
    <3>3. Differ(m', m, {"pc", "i"}) /\ m'.pc = Code(l) /\ (m'.i = m.i \/ m'.i = FALSE)
      BY <1>2, <3>1 DEF IsMachine, Differ, Fields
    <3>4. l \in (IF m.pc.at \in Base THEN Base ELSE Above) /\ l \in {"kernel", "vector_rti"}
      BY <3>1 DEF Base, Above
    <3>. HIDE DEF l
    <3>5. m'.line = m.line /\ m'.pending = m.pending
      BY <3>3 DEF Differ, Fields
    <3>6. Served' /\ m'.pc.at \notin {"irq_handler", "prologue", "kernel_vector"}
      BY <3>1, <3>2, <3>3, <3>4, <3>5 DEF TrapInv, Serving, Served
    <3>7. Serving'
      BY <3>6 DEF Serving
    <3>8. m'.i \in BOOLEAN /\ m'.line \in BOOLEAN
      BY <1>2, <3>3, <3>5 DEF IsMachine
    <3>. QED  BY <2>0, <3>1, <3>2, <3>3, <3>4, <3>7, <3>8 DEF Differ
  <2>. QED  BY <2>1, <2>2, <2>3
<1>4. m'.pt = m.pt /\ m.pt \in [Segs -> Frame] /\ Differ(m', m, {"pc", "pt", "i", "line"})
  BY <1>2, <1>3 DEF Differ, Fields, IsMachine
<1>5. WindowsOK(m'.pc, m.stk[KStack(cur)], m'.pt[2], kpt[2], low[cur][2])
  <2>1. Moves(m.pc, m'.pc, m.pt[2], kpt[2], low[cur][2], m.pt[2], kpt[2], low[cur][2])
    BY <1>1, <1>3 DEF Moves
  <2>2. WindowsOK(m'.pc, m.stk[KStack(cur)], m.pt[2], kpt[2], low[cur][2])
    BY ONLY <1>2, <2>1, WindowStep
  <2>. QED  BY <1>4, <2>2
<1>6. kpt \in [Segs -> Frame] /\ low \in [Procs -> [{0, 2} -> Frame]]
  BY DEF TrapInv, TypeOK
<1>. QED  BY <1>1, <1>3, <1>4, <1>5, <1>6, SameStack

\* A place in the window code, the other fields kept.
LEMMA AtWindowType ==
    ASSUME IsMachine(m), m.pc \in CodeAt, NEW w \in Windows
    PROVE  /\ Differ(AtWindow(w), m, {"pc"}) /\ AtWindow(w).pc \in CodeAt
           /\ AtWindow(w).pc.at = m.pc.at /\ AtWindow(w).pc.win = w
           /\ AtWindow(w).pc.want = m.pc.want /\ AtWindow(w).pc.old = m.pc.old
           /\ AtWindow(w).pc.torn = m.pc.torn
<1>. DEFINE e == [m.pc EXCEPT !.win = w]
<1>1. /\ e \in CodeAt /\ e.at = m.pc.at /\ e.win = w /\ e.want = m.pc.want /\ e.old = m.pc.old
      /\ e.torn = m.pc.torn
  BY DEF CodeAt
<1>2. AtWindow(w) = [m EXCEPT !.pc = e]
  BY DEF AtWindow
<1>. HIDE DEF e
<1>3. Differ(AtWindow(w), m, {"pc"}) /\ AtWindow(w).pc = e
  BY <1>2 DEF IsMachine, Differ, Fields
<1>. QED  BY <1>1, <1>3

\* A step of mmu_map_window() or mmu_unmap_window().
LEMMA WindowAct ==
    ASSUME TrapInv, m.pc.at \in {"kernel", "top", "nested", "prologue"},
           UNCHANGED <<raft, pcb, state, cur, first, own, pos, leaked, twice, dropped, panicked>>,
           Differ(m', m, {"pc", "pt"}), m'.pc \in CodeAt, m'.pc.at = m.pc.at,
           m'.pt = m.pt \/ \E f \in Frame : m'.pt = [m.pt EXCEPT ![2] = f],
           kpt' = kpt \/ \E f \in Frame : kpt' = [kpt EXCEPT ![2] = f],
           low' = low \/ \E f \in Frame : low' = [low EXCEPT ![cur][2] = f],
           Moves(m.pc, m'.pc, m.pt[2], kpt[2], low[cur][2], m'.pt[2], kpt'[2], low'[cur][2])
    PROVE  TrapInv'
<1>1. m.pc.at \in Base \cup Above /\ m.pc.at \notin {"epilogue", "kernel_vector", "vector_rti", "irq_handler"}
  BY DEF Base, Above
<1>2. /\ IsMachine(m) /\ cur \in Procs /\ m.stk[KStack(cur)] \in Seq(Entry)
      /\ WindowsOK(m.pc, m.stk[KStack(cur)], m.pt[2], kpt[2], low[cur][2])
  BY <1>1, KernelFacts
<1>3. /\ kpt \in [Segs -> Frame] /\ low \in [Procs -> [{0, 2} -> Frame]] /\ m.pt \in [Segs -> Frame]
      /\ dropped \in BOOLEAN
  BY <1>2 DEF TrapInv, TypeOK, IsMachine
<1>4. ASSUME NEW t \in [Segs -> Frame], NEW f \in Frame, NEW u, u = [t EXCEPT ![2] = f]
      PROVE  u \in [Segs -> Frame] /\ u[0] = t[0] /\ u[15] = t[15]
  BY <1>4, SMT DEF Segs
<1>5. m'.pt \in [Segs -> Frame] /\ m'.pt[0] = m.pt[0] /\ m'.pt[15] = m.pt[15]
  BY <1>3, <1>4
<1>6. kpt' \in [Segs -> Frame] /\ kpt'[0] = kpt[0] /\ kpt'[15] = kpt[15]
  BY <1>3, <1>4
<1>7. /\ low' \in [Procs -> [{0, 2} -> Frame]] /\ low'[cur][0] = low[cur][0]
      /\ \A p \in Procs \ {cur} : low'[p] = low[p]
  <2>1. CASE low' = low
    BY <1>3, <2>1
  <2>2. CASE \E f \in Frame : low' = [low EXCEPT ![cur][2] = f]
    <3>1. PICK f \in Frame : low' = [low EXCEPT ![cur] = [low[cur] EXCEPT ![2] = f]]
      BY <2>2
    <3>. DEFINE t == [low[cur] EXCEPT ![2] = f]
    <3>2. t \in [{0, 2} -> Frame] /\ t[0] = low[cur][0]
      BY <1>2, <1>3, SMTT(30)
    <3>. HIDE DEF t
    <3>3. low' = [low EXCEPT ![cur] = t]
      BY <3>1 DEF t
    <3>. QED  BY <1>2, <1>3, <3>2, <3>3
  <2>. QED  BY <2>1, <2>2
<1>8. WindowsOK(m'.pc, m.stk[KStack(cur)], m'.pt[2], kpt'[2], low'[cur][2])
  <2>1. Moves(m.pc, m'.pc, m.pt[2], kpt[2], low[cur][2], m'.pt[2], kpt'[2], low'[cur][2])
    OBVIOUS
  <2>. QED  BY ONLY <1>2, <2>1, WindowStep, SMTT(30)
<1>9. m'.i \in BOOLEAN /\ m'.line \in BOOLEAN /\ m'.line = m.line /\ m'.pending = m.pending
  BY <1>2 DEF Differ, Fields, IsMachine
<1>10. Serving'
  BY <1>1, <1>9 DEF TrapInv, Serving, Served
<1>11. Differ(m', m, {"pc", "pt", "i", "line"})
  BY DEF Differ
<1>12. m'.pc.at \in IF m.pc.at \in Base THEN Base ELSE Above
  BY <1>1
<1>. QED  BY <1>1, <1>3, <1>5, <1>6, <1>7, <1>8, <1>9, <1>10, <1>11, <1>12, SameStack

\* The stores of mmu_map_window() and mmu_unmap_window().
LEMMA WindowSteps ==
    ASSUME TrapInv, MapHw \/ MapTable \/ MapLow \/ UnmapHw \/ UnmapTable \/ UnmapLow
    PROVE  TrapInv'
<1>1. /\ m.pc.at \in {"kernel", "top", "nested", "prologue"}
      /\ UNCHANGED <<raft, pcb, state, cur, first, own, pos, leaked, twice, dropped, panicked>>
  BY DEF MapHw, MapTable, MapLow, UnmapHw, UnmapTable, UnmapLow, Using, memory
<1>2. m.pc.at \in Base \cup Above
  BY <1>1 DEF Base, Above
<1>3. IsMachine(m) /\ m.pc \in CodeAt /\ cur \in Procs
  BY <1>2, KernelFacts, CodeHere
<1>4. m.pc.want \in Frame /\ m.pc.old \in Frame /\ m.pc.at \in Labels /\ m.pc.torn \in BOOLEAN
  BY <1>3 DEF CodeAt
<1>5. /\ kpt \in [Segs -> Frame] /\ low \in [Procs -> [{0, 2} -> Frame]] /\ m.pt \in [Segs -> Frame]
  BY <1>3 DEF TrapInv, TypeOK, IsMachine
<1>6. CASE MapHw
  <2>. DEFINE e == [m.pc EXCEPT !.win = "hw", !.want = Page(m.pc.at), !.old = kpt[2]]
              t == [m.pt EXCEPT ![2] = Page(m.pc.at)]
  <2>1. m.pc.win = "idle" /\ m' = [m EXCEPT !.pc = e, !.pt = t] /\ kpt' = kpt /\ low' = low
    BY <1>6 DEF MapHw, Using, memory
  <2>2. kpt[2] \in Frame /\ Page(m.pc.at) \in Frame
    BY <1>4, <1>5, FrameTypes DEF Segs
  <2>3. /\ e \in CodeAt /\ e.at = m.pc.at /\ e.win = "hw" /\ e.want = Page(m.pc.at) /\ e.old = kpt[2]
    BY <1>3, <2>2 DEF CodeAt, Windows
  <2>4. t[2] = Page(m.pc.at)
    BY <1>5 DEF Segs
  <2>. HIDE DEF e
  <2>5. Differ(m', m, {"pc", "pt"}) /\ m'.pc = e /\ m'.pt = t
    <3>. HIDE DEF t
    <3>. QED  BY <1>3, <2>1 DEF IsMachine, Differ, Fields
  <2>6. Moves(m.pc, m'.pc, m.pt[2], kpt[2], low[cur][2], m'.pt[2], kpt'[2], low'[cur][2])
    BY <2>1, <2>3, <2>4, <2>5 DEF Moves
  <2>7. \E f \in Frame : m'.pt = [m.pt EXCEPT ![2] = f]
    BY <2>2, <2>5
  <2>. QED  BY <1>1, <2>1, <2>3, <2>5, <2>6, <2>7, WindowAct
<1>7. ASSUME NEW w \in Windows
      PROVE  /\ Differ(AtWindow(w), m, {"pc"}) /\ AtWindow(w).pc \in CodeAt /\ AtWindow(w).pt = m.pt
             /\ AtWindow(w).pc.at = m.pc.at /\ AtWindow(w).pc.win = w
             /\ AtWindow(w).pc.want = m.pc.want /\ AtWindow(w).pc.old = m.pc.old
             /\ AtWindow(w).pc.torn = m.pc.torn /\ Differ(AtWindow(w), m, {"pc", "pt"})
  <2>1. /\ Differ(AtWindow(w), m, {"pc"}) /\ AtWindow(w).pc \in CodeAt
        /\ AtWindow(w).pc.at = m.pc.at /\ AtWindow(w).pc.win = w
        /\ AtWindow(w).pc.want = m.pc.want /\ AtWindow(w).pc.old = m.pc.old
        /\ AtWindow(w).pc.torn = m.pc.torn
    BY <1>3, AtWindowType
  <2>. QED  BY <2>1 DEF Differ, Fields
<1>8. CASE MapTable
  <2>1. m.pc.win = "hw" /\ m' = AtWindow("table") /\ kpt' = [kpt EXCEPT ![2] = m.pc.want] /\ low' = low
    BY <1>8 DEF MapTable, Using
  <2>2. kpt'[2] = m.pc.want
    BY <1>5, <2>1 DEF Segs
  <2>3. "table" \in Windows
    BY DEF Windows
  <2>4. Moves(m.pc, m'.pc, m.pt[2], kpt[2], low[cur][2], m'.pt[2], kpt'[2], low'[cur][2])
    BY <1>7, <2>1, <2>2, <2>3 DEF Moves
  <2>. QED  BY <1>1, <1>4, <1>7, <2>1, <2>3, <2>4, WindowAct
<1>9. CASE MapLow
  <2>1. m.pc.win = "table" /\ m' = AtWindow("mapped") /\ low' = [low EXCEPT ![cur][2] = m.pc.want] /\ kpt' = kpt
    BY <1>9 DEF MapLow, Using
  <2>3. "mapped" \in Windows
    BY DEF Windows
  <2>4. Moves(m.pc, m'.pc, m.pt[2], kpt[2], low[cur][2], m'.pt[2], kpt'[2], low'[cur][2])
    BY <1>7, <2>1, <2>3 DEF Moves
  <2>. QED  BY <1>1, <1>4, <1>7, <2>1, <2>3, <2>4, WindowAct
<1>10. CASE UnmapHw
  <2>. DEFINE s == AtWindow("unhw")
              t == [s.pt EXCEPT ![2] = m.pc.old]
  <2>0. "unhw" \in Windows
    BY DEF Windows
  <2>1. m.pc.win = "mapped" /\ m' = [s EXCEPT !.pt = t] /\ kpt' = kpt /\ low' = low
    BY <1>10 DEF UnmapHw, Using, memory
  <2>. HIDE DEF s
  <2>2. /\ Differ(s, m, {"pc"}) /\ s.pc \in CodeAt /\ s.pt = m.pt
        /\ s.pc.at = m.pc.at /\ s.pc.win = "unhw" /\ s.pc.want = m.pc.want /\ s.pc.old = m.pc.old
        /\ s.pc.torn = m.pc.torn
    BY <1>7, <2>0 DEF s
  <2>3. t[2] = m.pc.old /\ t = [m.pt EXCEPT ![2] = m.pc.old]
    BY <1>5, <2>2 DEF Segs
  <2>. HIDE DEF t
  <2>4. Differ(m', s, {"pt"}) /\ m'.pt = t
    BY <2>1, <2>2 DEF Differ, Fields
  <2>5. Differ(m', m, {"pc", "pt"}) /\ m'.pc = s.pc
    BY <2>2, <2>4 DEF Differ, Fields
  <2>6. Moves(m.pc, m'.pc, m.pt[2], kpt[2], low[cur][2], m'.pt[2], kpt'[2], low'[cur][2])
    BY <2>1, <2>2, <2>3, <2>4, <2>5 DEF Moves
  <2>7. \E f \in Frame : m'.pt = [m.pt EXCEPT ![2] = f]
    BY <1>4, <2>3, <2>4
  <2>. QED  BY <1>1, <2>1, <2>2, <2>5, <2>6, <2>7, WindowAct
<1>11. CASE UnmapTable
  <2>1. m.pc.win = "unhw" /\ m' = AtWindow("untable") /\ kpt' = [kpt EXCEPT ![2] = m.pc.old] /\ low' = low
    BY <1>11 DEF UnmapTable, Using
  <2>2. kpt'[2] = m.pc.old
    BY <1>5, <2>1 DEF Segs
  <2>3. "untable" \in Windows
    BY DEF Windows
  <2>4. Moves(m.pc, m'.pc, m.pt[2], kpt[2], low[cur][2], m'.pt[2], kpt'[2], low'[cur][2])
    BY <1>7, <2>1, <2>2, <2>3 DEF Moves
  <2>. QED  BY <1>1, <1>4, <1>7, <2>1, <2>3, <2>4, WindowAct
<1>12. CASE UnmapLow
  <2>. DEFINE e == Code(m.pc.at)
  <2>1. m.pc.win = "untable" /\ m' = [m EXCEPT !.pc = e] /\ low' = [low EXCEPT ![cur][2] = m.pc.old] /\ kpt' = kpt
    BY <1>12 DEF UnmapLow, Using
  <2>2. e \in CodeAt /\ e.at = m.pc.at /\ e.win = "idle"
    BY <1>4, CodeType
  <2>. HIDE DEF e
  <2>3. Differ(m', m, {"pc"}) /\ m'.pc = e
    BY <1>3, <2>1 DEF IsMachine, Differ, Fields
  <2>4. m'.pt = m.pt /\ Differ(m', m, {"pc", "pt"})
    BY <2>3 DEF Differ, Fields
  <2>5. low'[cur][2] = m.pc.old
    BY <1>3, <1>5, <2>1
  <2>6. Moves(m.pc, m'.pc, m.pt[2], kpt[2], low[cur][2], m'.pt[2], kpt'[2], low'[cur][2])
    BY <2>1, <2>2, <2>3, <2>4, <2>5 DEF Moves
  <2>. QED  BY <1>1, <1>4, <2>1, <2>2, <2>3, <2>4, <2>6, WindowAct
<1>. QED  BY <1>6, <1>8, <1>9, <1>10, <1>11, <1>12

-----------------------------------------------------------------------------
(* User code, and the way back to it. *)

\* What a step of user code, or the RTI back to it, cannot disturb.
LEMMA UserKeeps ==
    ASSUME TrapInv, m.pc.at \in OnUserStack,
           UNCHANGED <<kpt, raft, pcb, low, state, cur, first, own, leaked, panicked>>,
           IsMachine(m'), pos' \in [Procs -> {0, 1}], \A p \in Procs \ {cur} : pos'[p] = pos[p],
           twice \subseteq twice', twice' \subseteq twice \cup {UFrame(cur, 15)}, dropped' \in BOOLEAN,
           m'.vec = m.vec, m'.pt[0] = m.pt[0], m'.pt[2] = m.pt[2],
           \A f \in Stacks \ {UFrame(cur, 0)} : m'.stk[f] = m.stk[f],
           m'.latch = {}, ~m'.timing, m'.v => m'.pc.at = "user", m'.pc.at \in OnUserStack
    PROVE  TypeOK' /\ Calm' /\ Others' /\ Saved' /\ UserSide' /\ KernelSide' /\ LeakOnlyInTwoTraps'
<1>1. TypeOK'
  <2>1. cur \in Procs /\ twice' \subseteq Frame
    BY FrameTypes DEF TrapInv, TypeOK
  <2>. QED  BY <2>1 DEF TrapInv, TypeOK
<1>2. Calm'
  BY DEF TrapInv, Calm
<1>3. ASSUME NEW p \in Procs, p # cur
      PROVE  m'.stk[KStack(p)] = m.stk[KStack(p)] /\ m'.stk[UFrame(p, 0)] = m.stk[UFrame(p, 0)]
  <2>1. KStack(p) \in Stacks \ {UFrame(cur, 0)} /\ UFrame(p, 0) \in Stacks \ {UFrame(cur, 0)}
    BY <1>3, FramesDistinct, FrameTypes
  <2>. QED  BY <2>1
<1>4. Others'
  <2>1. Others /\ state' = state /\ cur' = cur
    BY DEF TrapInv
  <2>. QED  BY ONLY <1>3, <2>1, ZenonT(30) DEF Others, Waiting
<1>5. Saved'
  <2>1. state[cur] = "running"
    BY DEF TrapInv, Others
  <2>2. \A p \in Procs : state[p] \in {"ready", "new"} => p # cur /\ pos'[p] = pos[p]
    BY <2>1
  <2>. QED  BY <2>2 DEF TrapInv, Saved, SavedAs
<1>6. UserSide'
  <2>0. cur \in Procs
    BY DEF TrapInv, TypeOK
  <2>1. KStack(cur) \in Stacks \ {UFrame(cur, 0)}
    BY <2>0, FramesDistinct, FrameTypes
  <2>2. m'.stk[KStack(cur)] = m.stk[KStack(cur)]
    BY <2>1
  <2>. QED  BY <2>2 DEF TrapInv, UserSide
<1>7. KernelSide'
  BY DEF KernelSide, OnUserStack, Base, Above
<1>8. LeakOnlyInTwoTraps'
  BY DEF TrapInv, LeakOnlyInTwoTraps
<1>. QED  BY <1>1, <1>2, <1>4, <1>5, <1>6, <1>7, <1>8

\* RTI: back to user code, or to the kernel code that was interrupted.
LEMMA RtiStep ==
    ASSUME TrapInv, Rti PROVE TrapInv'
<1>. DEFINE pre == MMU_pre_exec(m, "rti")
            back == [Pull(pre) EXCEPT !.pc = Pulled(pre).pc, !.i = Pulled(pre).i]
<1>1. m.pc.at \in {"vector_rti", "trap_rti"} /\ UNCHANGED memory
  BY DEF Rti
<1>2. m' = MMU_post_exec(MCS6502ExecNext(pre, back), "rti", InUser(m))
  BY DEF Rti
<1>0. UNCHANGED <<kpt, raft, pcb, low, state, cur, first, own, pos, leaked, twice, dropped, panicked>>
  BY <1>1 DEF memory
<1>00. kpt \in [Segs -> Frame] /\ low \in [Procs -> [{0, 2} -> Frame]] /\ dropped \in BOOLEAN
  BY DEF TrapInv, TypeOK
<1>3. CASE m.pc.at = "vector_rti"
  <2>. DEFINE k == m.stk[KStack(cur)]
  <2>1. m.pc.at \in Base \cup Above /\ m.pc.at \in Above /\ m.pc.at \in Busy \cup {"vector_rti"}
    BY <1>3 DEF Above
  <2>2. /\ IsMachine(m) /\ cur \in Procs /\ m.pt[0] = KStack(cur) /\ KStack(cur) \in Stacks
        /\ m.pt[15] = K15 /\ m.prev = K15 /\ ~m.timing /\ m.latch = {} /\ ~m.v /\ k \in Seq(Entry)
        /\ LevelsOK(m.pc, k) /\ WindowsOK(m.pc, k, m.pt[2], kpt[2], low[cur][2]) /\ m.pc \in CodeAt
    BY <2>1, KernelFacts, CodeHere
  <2>3. k # <<>> /\ m.pc.win = "idle"
    BY <1>3, <2>1, <2>2 DEF LevelsOK
  <2>4. CASE m.pending /\ ~m.i
    <3>1. AfterIrq(MMU_post_exec(MCS6502ExecNext(MMU_pre_exec(m, "rti"), back), "rti", InUser(m)), m)
      <4>1. "rti" \notin {"privilege", "invalid"} /\ ("rti" = "rti" => m.pt[15] = K15) /\ m.pt[0] \in Stacks
        BY <2>2
      <4>. HIDE DEF back
      <4>. QED  BY ONLY <2>2, <2>4, <4>1, TakenIrq, SMTT(30)
    <3>2. AfterIrq(m', m)
      BY <1>2, <3>1
    <3>3. Differ(m, m, {"pc", "stk"}) /\ m.i \in BOOLEAN
      BY <2>2 DEF Differ, IsMachine
    <3>. QED  BY <1>1, <2>1, <2>2, <2>3, <3>2, <3>3, KernelIrq
  <2>5. CASE ~(m.pending /\ ~m.i)
    <3>1. AfterRti(m', m)
      <4>1. m.pt[0] \in Stacks /\ m.stk[m.pt[0]] # <<>>
        BY <2>2, <2>3
      <4>. QED  BY <1>2, <2>2, <2>5, <4>1, RtiBack
    <3>2. /\ IsMachine(m') /\ Differ(m', m, {"stk", "i", "pc", "pt"})
          /\ m'.pt[0] = m.pt[0] /\ m'.pt[2] = m.pt[2] /\ m'.pt[15] = m.pt[15] /\ m'.pc = Head(k).pc
          /\ m'.stk = [m.stk EXCEPT ![KStack(cur)] = Tail(k)]
      BY <2>2, <3>1 DEF AfterRti
    <3>3. /\ m'.prev = m.prev /\ m'.vec = m.vec /\ m'.v = m.v /\ m'.timing = m.timing /\ m'.latch = m.latch
          /\ m'.line = m.line /\ m'.pending = m.pending
      BY <3>2 DEF Differ, Fields
    <3>4. m.stk \in [Stacks -> Seq(Entry)]
      BY <2>2 DEF IsMachine
    <3>. HIDE DEF k
    <3>5. m'.stk[KStack(cur)] = Tail(k) /\ \A f \in Stacks \ {KStack(cur)} : m'.stk[f] = m.stk[f]
      BY <2>2, <3>2, <3>4
    <3>6. /\ Head(k).pc.at \in Base \cup Above /\ LevelsOK(Head(k).pc, Tail(k))
          /\ WindowsOK(Head(k).pc, Tail(k), m.pt[2], kpt[2], low[cur][2])
      BY ONLY <2>1, <2>2, <2>3, IrqBelow, SMTT(30)
    <3>7. Serving'
      <4>1. Served
        BY <1>3 DEF TrapInv, Serving
      <4>2. Served'
        BY <1>0, <3>3, <4>1 DEF Served
      <4>3. 1 \in 1 .. Len(k) /\ Head(k) = k[1]
        BY ONLY <2>2, <2>3, SMTT(30)
      <4>4. k[1].pc.at \in {"prologue", "kernel", "top", "nested", "vector_rti"}
        BY <2>2, <4>3 DEF LevelsOK
      <4>5. m'.pc.at # "kernel_vector"
        BY <3>2, <4>3, <4>4
      <4>. QED  BY <4>2, <4>5 DEF Serving
    <3>8. /\ m'.pc.at \in Base \cup Above /\ LevelsOK(m'.pc, m'.stk[KStack(cur)])
          /\ WindowsOK(m'.pc, m'.stk[KStack(cur)], m'.pt[2], kpt'[2], low'[cur][2])
      BY <1>0, <3>2, <3>5, <3>6
    <3>. QED  BY <1>0, <1>00, <2>1, <3>2, <3>3, <3>5, <3>7, <3>8, KernelStep
  <2>. QED  BY <2>4, <2>5
<1>4. CASE m.pc.at = "trap_rti"
  <2>1. /\ IsMachine(m) /\ cur \in Procs /\ m.pt[0] = UFrame(cur, 0) /\ m.pt[15] = K15 /\ m.i
        /\ m.prev = Table(cur, own[cur])[15] /\ ~m.timing /\ m.latch = {} /\ ~m.v
        /\ m.vec = "irq_handler"
    BY <1>4 DEF TrapInv, TypeOK, UserSide, OnUserStack, Trampolines, Calm
  <2>2. \E b \in BOOLEAN : \E w \in BOOLEAN : m.stk[UFrame(cur, 0)] =
                    <<[pc |-> User(cur, pos[cur], w), i |-> FALSE, b |-> b]>>
    BY <1>4 DEF TrapInv, Trampolines, OneEntry
  <2>3. PICK b \in BOOLEAN : \E w \in BOOLEAN : m.stk[UFrame(cur, 0)] =
                    <<[pc |-> User(cur, pos[cur], w), i |-> FALSE, b |-> b]>>
    BY <2>2
  <2>4. PICK w \in BOOLEAN : m.stk[UFrame(cur, 0)] =
                    <<[pc |-> User(cur, pos[cur], w), i |-> FALSE, b |-> b]>>
    BY <2>3
  <2>. DEFINE k == m.stk[UFrame(cur, 0)]
              x == [pc |-> User(cur, pos[cur], w), i |-> FALSE, b |-> b]
  <2>5. x.pc = User(cur, pos[cur], w) /\ x.i = FALSE
    OBVIOUS
  <2>6. k # <<>> /\ Head(k) = x /\ Tail(k) = <<>>
    <3>1. k = <<x>>
      BY <2>4
    <3>. HIDE DEF x, k
    <3>. QED  BY ONLY <3>1, SMT
  <2>7. UFrame(cur, 0) \in Stacks
    BY <2>1, FrameTypes
  <2>8. AfterRti(m', m)
    <3>1. m.pt[0] \in Stacks /\ m.stk[m.pt[0]] # <<>> /\ ~(m.pending /\ ~m.i)
      BY <2>1, <2>6, <2>7
    <3>. QED  BY <1>2, <2>1, <3>1, RtiBack
  <2>. HIDE DEF x, k
  <2>9. /\ IsMachine(m') /\ Differ(m', m, {"stk", "i", "pc", "pt"})
        /\ m'.pt[0] = m.pt[0] /\ m'.pt[2] = m.pt[2] /\ m'.pt[15] = m.prev /\ m'.pc = Head(k).pc
        /\ m'.i = Head(k).i /\ m'.stk = [m.stk EXCEPT ![UFrame(cur, 0)] = Tail(k)]
    BY <2>1, <2>8 DEF AfterRti, k
  <2>10. m'.pc = User(cur, pos[cur], w) /\ m'.i = FALSE
    BY <2>5, <2>6, <2>9
  <2>11. m'.pc.at = "user"
    <3>1. User(cur, pos[cur], w).at = "user"
      BY ONLY UserRecord
    <3>. QED  BY ONLY <2>10, <3>1, SMTT(30)
  <2>12. /\ m'.vec = m.vec /\ m'.v = m.v /\ m'.timing = m.timing /\ m'.latch = m.latch
         /\ m'.line = m.line /\ m'.pending = m.pending
    BY <2>9 DEF Differ, Fields
  <2>13. m'.stk[UFrame(cur, 0)] = <<>> /\ \A f \in Stacks \ {UFrame(cur, 0)} : m'.stk[f] = m.stk[f]
    <3>1. m.stk \in [Stacks -> Seq(Entry)]
      BY <2>1 DEF IsMachine
    <3>. QED  BY <2>6, <2>7, <2>9, <3>1
  <2>14. UserCode'
    BY <1>0, <2>1, <2>9, <2>10, <2>13 DEF UserCode
  <2>15. Trampolines'
    BY <2>11 DEF Trampolines
  <2>16. Serving'
    <3>1. Served
      BY <1>4 DEF TrapInv, Serving
    <3>2. Served'
      BY <1>0, <2>12, <3>1 DEF Served
    <3>. QED  BY <2>11, <3>2 DEF Serving
  <2>17. TypeOK' /\ Calm' /\ Others' /\ Saved' /\ UserSide' /\ KernelSide' /\ LeakOnlyInTwoTraps'
    <3>1. m.pc.at \in OnUserStack /\ m'.pc.at \in OnUserStack
      BY <1>4, <2>11 DEF OnUserStack
    <3>2. pos' \in [Procs -> {0, 1}] /\ \A p \in Procs \ {cur} : pos'[p] = pos[p]
      BY <1>0 DEF TrapInv, TypeOK
    <3>3. twice \subseteq twice' /\ twice' \subseteq twice \cup {UFrame(cur, 15)} /\ dropped' \in BOOLEAN
      BY <1>0, <1>00
    <3>4. m'.latch = {} /\ ~m'.timing
      BY <2>1, <2>12
    <3>. QED  BY <1>0, <2>9, <2>11, <2>12, <2>13, <3>1, <3>2, <3>3, <3>4, UserKeeps
  <2>. QED  BY <2>14, <2>15, <2>16, <2>17 DEF TrapInv
<1>. QED  BY <1>1, <1>3, <1>4

\* A step of user code that is no trap and no interrupt.
LEMMA UserQuiet ==
    ASSUME TrapInv, m.pc.at = "user", ~m.pending, ~m.v,
           NEW op \in {"plain", "jump", "touch"}, NEW r,
           r = MMU_post_exec(MCS6502ExecNext(MMU_pre_exec(m, op), UserEffect(MMU_pre_exec(m, op), op)),
                             op, InUser(m))
    PROVE  /\ IsMachine(r) /\ Differ(r, m, {"pc", "v"}) /\ ~MMU_pre_exec(m, op).timing
           /\ \E w \in BOOLEAN : r.pc = User(cur, 1 - pos[cur], w)
<1>1. MMU_pre_exec(m, op) = m
  BY DEF MMU_pre_exec
<1>2. IsMachine(m) /\ ~m.timing /\ m.latch = {} /\ m.pc.pos = pos[cur] /\ m.timing = FALSE
  <2>1. IsMachine(m) /\ ~m.timing /\ m.latch = {} /\ \E w \in BOOLEAN : m.pc = User(cur, pos[cur], w)
    BY UserFacts
  <2>2. m.pc.pos = pos[cur]
    <3>1. PICK w \in BOOLEAN : m.pc = User(cur, pos[cur], w)
      BY <2>1
    <3>2. User(cur, pos[cur], w).pos = pos[cur]
      BY ONLY UserRecord
    <3>. QED  BY ONLY <3>1, <3>2, SMTT(30)
  <2>. QED  BY <2>1, <2>2 DEF IsMachine
<1>. DEFINE e == UserEffect(m, op)
            next == User(cur, 1 - m.pc.pos, op = "jump")
<1>3. r = [e EXCEPT !.timing = FALSE]
  BY <1>1, <1>2, ExecNextCases DEF MMU_post_exec
<1>4. e = [m EXCEPT !.pc = next] \/ e = [m EXCEPT !.pc = next, !.v = TRUE]
  BY DEF UserEffect
<1>. HIDE DEF e, next
<1>5. Differ(e, m, {"pc", "v"}) /\ e.pc = next /\ e.v \in BOOLEAN
  BY <1>2, <1>4 DEF Differ, Fields, IsMachine
<1>6. Differ(r, e, {"timing"}) /\ r.timing = FALSE
  BY <1>3, <1>5 DEF Differ, Fields
<1>7. Differ(r, m, {"pc", "v"}) /\ r.pc = next /\ r.v \in BOOLEAN
  BY <1>2, <1>5, <1>6 DEF Differ, Fields
<1>8. next \in UserAt /\ \E w \in BOOLEAN : next = User(cur, 1 - pos[cur], w)
  <2>1. cur \in Procs /\ pos[cur] \in {0, 1}
    BY UserFacts DEF TrapInv, TypeOK
  <2>2. 1 - pos[cur] \in {0, 1}
    BY <2>1, SMTT(30)
  <2>. QED  BY <1>2, <2>1, <2>2 DEF next, User, UserAt
<1>9. IsMachine(r)
  BY <1>2, <1>7, <1>8 DEF IsMachine, Differ, Fields
<1>. QED  BY <1>1, <1>2, <1>7, <1>8, <1>9

\* BRK in user code, with no interrupt before it.
LEMMA UserBrk ==
    ASSUME TrapInv, m.pc.at = "user", ~m.pending, ~m.v, NEW r,
           r = MMU_post_exec(MCS6502ExecNext(MMU_pre_exec(m, "brk"),
                                             UserEffect(MMU_pre_exec(m, "brk"), "brk")),
                             "brk", InUser(m))
    PROVE  /\ IsMachine(r) /\ Differ(r, m, {"pc", "i", "stk", "pt", "prev"})
           /\ ~MMU_pre_exec(m, "brk").timing
           /\ r.pt[0] = m.pt[0] /\ r.pt[2] = m.pt[2] /\ r.pt[15] = K15 /\ r.prev = m.pt[15]
           /\ r.i = TRUE /\ r.pc = Code("irq_handler")
           /\ \E w \in BOOLEAN : r.stk = [m.stk EXCEPT ![m.pt[0]] =
                   <<[pc |-> User(cur, 1 - pos[cur], w), i |-> FALSE, b |-> TRUE]>> \o @]
<1>. DEFINE z == EnterKernel(m)
            next == User(cur, 1 - z.pc.pos, FALSE)
            y == [z EXCEPT !.pc = next]
            e == Vectored(y, z.vec, TRUE)
<1>1. IsMachine(m) /\ ~m.timing /\ m.latch = {} /\ m.pc.pos = pos[cur] /\ m.timing = FALSE
  <2>1. IsMachine(m) /\ ~m.timing /\ m.latch = {} /\ \E w \in BOOLEAN : m.pc = User(cur, pos[cur], w)
    BY UserFacts
  <2>2. m.pc.pos = pos[cur]
    <3>1. PICK w \in BOOLEAN : m.pc = User(cur, pos[cur], w)
      BY <2>1
    <3>2. User(cur, pos[cur], w).pos = pos[cur]
      BY ONLY UserRecord
    <3>. QED  BY ONLY <3>1, <3>2, SMTT(30)
  <2>. QED  BY <2>1, <2>2 DEF IsMachine
<1>2. /\ IsMachine(z) /\ Differ(z, m, {"pt", "prev"}) /\ z.pt[0] = m.pt[0] /\ z.pt[2] = m.pt[2]
      /\ z.pt[15] = K15 /\ z.prev = m.pt[15]
  BY <1>1, EnterType
<1>3. z.v = m.v /\ z.timing = FALSE /\ z.latch = {} /\ z.pc = m.pc
  BY <1>1, <1>2 DEF Differ, Fields
<1>4. MMU_pre_exec(m, "brk") = z
  BY <1>3 DEF MMU_pre_exec
<1>5. UserEffect(z, "brk") = e
  BY DEF UserEffect
<1>. HIDE DEF z
<1>6. r = [e EXCEPT !.timing = FALSE]
  <2>1. MCS6502ExecNext(z, e) = [e EXCEPT !.timing = FALSE]
    <3>. HIDE DEF e
    <3>. QED  BY <1>3, ExecNextCases
  <2>. QED  BY <1>4, <1>5, <2>1 DEF MMU_post_exec
<1>7. next \in UserAt /\ next = User(cur, 1 - pos[cur], FALSE)
  <2>1. cur \in Procs /\ pos[cur] \in {0, 1}
    BY UserFacts DEF TrapInv, TypeOK
  <2>2. 1 - pos[cur] \in {0, 1}
    BY <2>1, SMTT(30)
  <2>. QED  BY <1>1, <1>3, <2>1, <2>2 DEF User, UserAt
<1>. HIDE DEF next
<1>8. Differ(y, z, {"pc"}) /\ y.pc = next
  BY <1>2 DEF Differ, Fields, IsMachine
<1>. HIDE DEF y
<1>9. IsMachine(y)
  BY <1>2, <1>7, <1>8 DEF IsMachine, Differ, Fields
<1>10. y.pt = z.pt /\ y.stk = m.stk /\ y.i = FALSE /\ y.vec = z.vec /\ z.vec = "irq_handler" /\ y.timing = FALSE
  <2>1. m.vec = "irq_handler" /\ m.i = FALSE
    BY <1>1, UserFacts DEF IsMachine
  <2>. QED  BY <1>2, <1>3, <1>8, <2>1 DEF Differ, Fields
<1>11. /\ IsMachine(e) /\ Differ(e, y, {"stk", "i", "pc"}) /\ e.i = TRUE /\ e.pc = Code(z.vec)
       /\ e.stk = [y.stk EXCEPT ![y.pt[0]] = <<[pc |-> y.pc, i |-> y.i, b |-> TRUE]>> \o @]
  <2>1. z.vec \in Labels
    BY <1>10 DEF Labels
  <2>2. y.pt[0] \in Stacks
    BY <1>2, <1>10, UserFacts
  <2>. QED  BY <1>9, <2>1, <2>2, VectoredType
<1>. HIDE DEF e
<1>12. Differ(r, e, {"timing"}) /\ r.timing = FALSE
  BY <1>6, <1>11 DEF IsMachine, Differ, Fields
<1>13. IsMachine(r)
  BY <1>11, <1>12 DEF IsMachine, Differ, Fields
<1>14. r.pt = z.pt /\ r.prev = z.prev /\ r.i = TRUE /\ r.pc = e.pc /\ r.stk = e.stk
  <2>1. Differ(e, y, {"stk", "i", "pc"})
    BY <1>11
  <2>2. r.i = e.i /\ r.pc = e.pc /\ r.stk = e.stk /\ r.pt = e.pt /\ r.prev = e.prev
    BY <1>12 DEF Differ, Fields
  <2>3. e.pt = y.pt /\ e.prev = y.prev /\ y.pt = z.pt /\ y.prev = z.prev
    BY <1>8, <2>1 DEF Differ, Fields
  <2>. QED  BY <1>11, <2>2, <2>3
<1>15. Differ(r, m, {"pc", "i", "stk", "pt", "prev"})
  <2>1. Differ(e, y, {"stk", "i", "pc"})
    BY <1>11
  <2>2. Differ(r, z, {"pc", "i", "stk"})
    <3>1. r.timing = z.timing
      BY <1>3, <1>12
    <3>. QED  BY ONLY <1>8, <1>12, <2>1, <3>1, SMTT(30) DEF Differ, Fields
  <2>. QED  BY <1>2, <2>2 DEF Differ, Fields
<1>16. r.stk = [m.stk EXCEPT ![m.pt[0]] =
                   <<[pc |-> User(cur, 1 - pos[cur], FALSE), i |-> FALSE, b |-> TRUE]>> \o @]
  BY <1>2, <1>7, <1>8, <1>10, <1>11, <1>14
<1>. QED  BY <1>2, <1>3, <1>4, <1>10, <1>11, <1>13, <1>14, <1>15, <1>16

\* An instruction of user code: plain, BRK, a violation, or not executed because of
\* an interrupt.
LEMMA UserStep ==
    ASSUME TrapInv, NEW o \in Ops, UserExec(o)
    PROVE  TrapInv'
<1>. DEFINE op == IF m.pc.wild THEN "invalid" ELSE o
            s == IF m.pc.wild THEN [m EXCEPT !.v = TRUE] ELSE m
            pre == MMU_pre_exec(s, op)
            traps == Traps(s, op)
<1>1. /\ m.pc.at = "user"
      /\ m' = MMU_post_exec(MCS6502ExecNext(pre, UserEffect(pre, op)), op, InUser(s))
      /\ pos' = [pos EXCEPT ![cur] = IF pre.timing THEN @ ELSE 1 - @]
      /\ twice' = IF Several(traps) THEN twice \cup {UFrame(cur, 15)} ELSE twice
      /\ dropped' = (dropped \/ (s.pending /\ Several(traps)))
      /\ UNCHANGED <<kpt, raft, pcb, low, state, cur, first, own, leaked, panicked>>
  BY DEF UserExec
<1>2. /\ IsMachine(m) /\ cur \in Procs /\ pos \in [Procs -> {0, 1}] /\ dropped \in BOOLEAN
      /\ pos[cur] \in {0, 1}
  BY DEF TrapInv, TypeOK
<1>3. /\ pos' \in [Procs -> {0, 1}] /\ \A p \in Procs \ {cur} : pos'[p] = pos[p]
      /\ pos'[cur] = IF pre.timing THEN pos[cur] ELSE 1 - pos[cur]
  <2>. HIDE DEF pre
  <2>1. \A p \in Procs \ {cur} : pos'[p] = pos[p]
    BY <1>1, <1>2
  <2>2. pos'[cur] = IF pre.timing THEN pos[cur] ELSE 1 - pos[cur]
    BY <1>1, <1>2
  <2>3. 1 - pos[cur] \in {0, 1}
    BY <1>2, SMT
  <2>. QED  BY <1>1, <1>2, <2>1, <2>2, <2>3
<1>4. twice \subseteq twice' /\ twice' \subseteq twice \cup {UFrame(cur, 15)} /\ dropped' \in BOOLEAN
  BY <1>1, <1>2
<1>5. op \in Ops /\ (s = m \/ (s = [m EXCEPT !.v = TRUE] /\ op = "invalid"))
  BY DEF Ops
<1>6. Differ(s, m, {"v"}) /\ IsMachine(s)
  <2>1. CASE s = m
    BY <1>2, <2>1 DEF IsMachine, Differ
  <2>2. CASE s = [m EXCEPT !.v = TRUE]
    <3>. HIDE DEF s
    <3>1. Differ(s, m, {"v"}) /\ s.v = TRUE
      BY <1>2, <2>2 DEF IsMachine, Differ, Fields
    <3>. QED  BY <1>2, <3>1 DEF IsMachine, Differ, Fields
  <2>. QED  BY <1>5, <2>1, <2>2
<1>7. m.pc.at = "user" /\ m.pc.at \in OnUserStack
  BY <1>1 DEF OnUserStack
<1>8. UNCHANGED <<kpt, raft, pcb, low, state, cur, first, own, leaked, panicked>>
  BY <1>1
<1>9. m' = MMU_post_exec(MCS6502ExecNext(pre, UserEffect(pre, op)), op, InUser(s))
  BY <1>1
<1>10. /\ m.pt[0] = UFrame(cur, 0) /\ UFrame(cur, 0) \in Stacks /\ KStack(cur) \in Stacks
       /\ m.vec = "irq_handler" /\ m.pt[15] = Table(cur, own[cur])[15] /\ InUser(m) /\ m.i = FALSE
       /\ ~m.timing /\ m.latch = {} /\ m.stk[UFrame(cur, 0)] = <<>> /\ Served
  BY <1>2, <1>7, UserFacts DEF IsMachine
<1>11. PICK w \in BOOLEAN : m.pc = User(cur, pos[cur], w)
  BY <1>7, UserFacts
<1>12. twice' = IF Several(Traps(s, op)) THEN twice \cup {UFrame(cur, 15)} ELSE twice
  BY <1>1
<1>13. dropped' = (dropped \/ (s.pending /\ Several(Traps(s, op))))
  BY <1>1
<1>. HIDE DEF op, s
<1>14. /\ s.pt = m.pt /\ s.vec = m.vec /\ s.line = m.line /\ s.stk = m.stk /\ s.pending = m.pending
       /\ s.i = m.i /\ s.timing = m.timing /\ s.latch = m.latch /\ s.pc = m.pc
  BY <1>6 DEF Differ, Fields
<1>15. CASE op \in {"privilege", "invalid"} \/ s.v
  <2>1. /\ IsMachine(s) /\ ~s.timing /\ s.latch = {} /\ s.pt[0] \in Stacks /\ InUser(s)
        /\ s.pt[0] = UFrame(cur, 0)
    BY <1>6, <1>10, <1>14 DEF InUser
  <2>2. /\ IsMachine(m') /\ m'.vec = s.vec /\ m'.line = s.line
        /\ m'.pt[0] = s.pt[0] /\ m'.pt[2] = s.pt[2] /\ m'.pt[15] = K15
        /\ \A f \in Stacks \ {s.pt[0]} : m'.stk[f] = s.stk[f]
        /\ m'.stk[s.pt[0]] # <<>> /\ m'.latch = {} /\ ~m'.timing /\ ~m'.v /\ m'.i
        /\ m'.pc = Code("nmi_handler") /\ pre.timing
        /\ \/ m'.prev = s.pt[15]
           \/ (s.pending /\ ~s.i) \/ op = "brk"
           \/ op \in {"privilege", "invalid"} /\ s.v
    <3>. DEFINE e == UserEffect(pre, op)
    <3>1. m' = MMU_post_exec(MCS6502ExecNext(MMU_pre_exec(s, op), e), op, InUser(s))
      BY <1>9
    <3>. HIDE DEF e
    <3>2. op \in Ops
      BY <1>5
    <3>3. /\ AfterNmi(MMU_post_exec(MCS6502ExecNext(MMU_pre_exec(s, op), e), op, InUser(s)), s, op)
          /\ MMU_pre_exec(s, op).timing
      BY ONLY <3>2, <1>15, <2>1, TakenNmi, ZenonT(30)
    <3>. QED  BY <3>1, <3>3 DEF AfterNmi
  <2>3. m'.pc.at = "nmi_handler"
    <3>1. m'.pc = Code("nmi_handler") /\ Code("nmi_handler").at = "nmi_handler"
      BY <2>2 DEF Code
    <3>. QED  BY ONLY <3>1
  <2>4. \A f \in Stacks \ {UFrame(cur, 0)} : m'.stk[f] = m.stk[f]
    BY <1>14, <2>1, <2>2
  <2>5. TypeOK' /\ Calm' /\ Others' /\ Saved' /\ UserSide' /\ KernelSide' /\ LeakOnlyInTwoTraps'
    <3>1. m'.vec = m.vec /\ m'.pt[0] = m.pt[0] /\ m'.pt[2] = m.pt[2]
      BY <1>14, <2>2
    <3>2. m'.pc.at \in OnUserStack
      BY <2>3 DEF OnUserStack
    <3>. QED  BY <1>3, <1>4, <1>7, <1>8, <2>2, <2>4, <3>1, <3>2, UserKeeps
  <2>6. (s.pending /\ ~s.i) \/ op = "brk" \/ (op \in {"privilege", "invalid"} /\ s.v) =>
           Several(Traps(s, op))
    <3>1. op \in {"privilege", "invalid"} => "watchdog" \in Traps(s, op)
      BY DEF Traps
    <3>2. s.v => "violation" \in Traps(s, op)
      BY DEF Traps
    <3>3. (s.pending /\ ~s.i) \/ op = "brk" => "irq" \in Traps(s, op)
      BY DEF Traps
    <3>4. "irq" # "watchdog" /\ "irq" # "violation" /\ "watchdog" # "violation"
      OBVIOUS
    <3>. QED  BY <1>15, <3>1, <3>2, <3>3, <3>4 DEF Several
  <2>7. UserCode'
    BY <2>3 DEF UserCode
  <2>8. Trampolines'
    <3>1. m'.prev = Table(cur, own[cur])[15] \/ UFrame(cur, 15) \in twice'
      BY <1>10, <1>12, <1>14, <2>2, <2>6
    <3>. QED  BY <1>8, <2>1, <2>2, <2>3, <3>1 DEF Trampolines
  <2>9. Serving'
    <3>1. m'.line => dropped'
      BY <1>10, <1>13, <1>14, <2>2, <2>6 DEF Served
    <3>. QED  BY <2>3, <3>1 DEF Serving, Served
  <2>. QED  BY <2>5, <2>7, <2>8, <2>9 DEF TrapInv
<1>16. CASE op \notin {"privilege", "invalid"} /\ ~s.v /\ m.pending
  <2>1. /\ IsMachine(s) /\ ~s.timing /\ s.latch = {} /\ s.pt[0] \in Stacks /\ s.pending /\ ~s.i
        /\ s.pt[0] = UFrame(cur, 0) /\ op # "rti"
    BY <1>5, <1>6, <1>10, <1>14, <1>16 DEF Ops
  <2>2. /\ IsMachine(m') /\ Differ(m', s, {"stk", "i", "pc", "prev", "pending", "pt"})
        /\ m'.pt[0] = s.pt[0] /\ m'.pt[2] = s.pt[2] /\ m'.pt[15] = K15
        /\ m'.prev = s.pt[15] /\ m'.i = TRUE /\ m'.pc = Code(s.vec) /\ m'.pending = FALSE
        /\ m'.stk = [s.stk EXCEPT ![s.pt[0]] = <<[pc |-> s.pc, i |-> s.i, b |-> FALSE]>> \o @]
        /\ pre.timing
    <3>. DEFINE e == UserEffect(pre, op)
    <3>1. m' = MMU_post_exec(MCS6502ExecNext(MMU_pre_exec(s, op), e), op, InUser(s))
      BY <1>9
    <3>. HIDE DEF e
    <3>2. op \notin {"privilege", "invalid"} /\ ~s.v /\ (op = "rti" => s.pt[15] = K15)
      BY <1>16, <2>1
    <3>3. /\ AfterIrq(MMU_post_exec(MCS6502ExecNext(MMU_pre_exec(s, op), e), op, InUser(s)), s)
          /\ MMU_pre_exec(s, op).timing
      BY ONLY <3>2, <2>1, TakenIrq, SMTT(30)
    <3>. QED  BY <3>1, <3>3 DEF AfterIrq
  <2>3. m'.pc.at = "irq_handler"
    <3>1. m'.pc = Code("irq_handler") /\ Code("irq_handler").at = "irq_handler"
      BY <1>10, <1>14, <2>2 DEF Code
    <3>. QED  BY ONLY <3>1
  <2>4. /\ \A f \in Stacks \ {UFrame(cur, 0)} : m'.stk[f] = m.stk[f]
        /\ m'.stk[UFrame(cur, 0)] = <<[pc |-> m.pc, i |-> FALSE, b |-> FALSE]>>
    <3>. DEFINE x == [pc |-> m.pc, i |-> FALSE, b |-> FALSE]
    <3>1. m'.stk = [m.stk EXCEPT ![UFrame(cur, 0)] = <<x>> \o @]
      BY <1>10, <1>14, <2>1, <2>2
    <3>2. m.stk \in [Stacks -> Seq(Entry)] /\ x \in Entry
      BY <1>2, EntryType DEF IsMachine
    <3>. HIDE DEF x
    <3>3. m'.stk[UFrame(cur, 0)] = <<x>> \o m.stk[UFrame(cur, 0)]
      BY <1>10, <3>1, <3>2
    <3>4. \A f \in Stacks \ {UFrame(cur, 0)} : m'.stk[f] = m.stk[f]
      BY <1>10, <3>1, <3>2
    <3>. QED  BY <1>10, <3>3, <3>4, PushEmpty DEF x
  <2>5. /\ m'.vec = m.vec /\ m'.latch = {} /\ ~m'.timing /\ ~m'.v
        /\ m'.pt[0] = m.pt[0] /\ m'.pt[2] = m.pt[2]
    <3>1. Differ(m', s, {"stk", "i", "pc", "prev", "pending", "pt"})
      BY <2>2
    <3>2. m'.vec = s.vec /\ m'.latch = s.latch /\ m'.timing = s.timing /\ m'.v = s.v
      BY ONLY <3>1 DEF Differ, Fields
    <3>. QED  BY <1>10, <1>14, <1>16, <2>2, <3>2
  <2>6. TypeOK' /\ Calm' /\ Others' /\ Saved' /\ UserSide' /\ KernelSide' /\ LeakOnlyInTwoTraps'
    <3>2. m'.pc.at \in OnUserStack
      BY <2>3 DEF OnUserStack
    <3>. QED  BY <1>3, <1>4, <1>7, <1>8, <2>2, <2>4, <2>5, <3>2, UserKeeps
  <2>7. UserCode'
    BY <2>3 DEF UserCode
  <2>8. OneEntry(FALSE)'
    <3>1. pos'[cur] = pos[cur]
      BY <1>3, <2>2
    <3>. QED  BY <1>8, <1>11, <2>4, <3>1 DEF OneEntry
  <2>9. Trampolines'
    <3>1. m'.prev = Table(cur, own[cur])[15]
      BY <1>10, <1>14, <2>2
    <3>. QED  BY <1>8, <2>2, <2>3, <2>8, <3>1 DEF Trampolines
  <2>10. Serving'
    BY <2>3, <2>8 DEF Serving
  <2>. QED  BY <2>6, <2>7, <2>9, <2>10 DEF TrapInv
<1>17. CASE op = "brk" /\ ~s.v /\ ~m.pending
  <2>1. s = m /\ ~m.v
    BY <1>5, <1>17
  <2>2. /\ IsMachine(m') /\ Differ(m', m, {"pc", "i", "stk", "pt", "prev"}) /\ ~pre.timing
        /\ m'.pt[0] = m.pt[0] /\ m'.pt[2] = m.pt[2] /\ m'.pt[15] = K15 /\ m'.prev = m.pt[15]
        /\ m'.i = TRUE /\ m'.pc = Code("irq_handler")
        /\ \E u \in BOOLEAN : m'.stk = [m.stk EXCEPT ![m.pt[0]] =
                <<[pc |-> User(cur, 1 - pos[cur], u), i |-> FALSE, b |-> TRUE]>> \o @]
    BY <1>7, <1>9, <1>17, <2>1, UserBrk, ZenonT(120)
  <2>3. m'.pc.at = "irq_handler"
    <3>1. m'.pc = Code("irq_handler") /\ Code("irq_handler").at = "irq_handler"
      BY <2>2 DEF Code
    <3>. QED  BY ONLY <3>1
  <2>4. /\ \A f \in Stacks \ {UFrame(cur, 0)} : m'.stk[f] = m.stk[f]
        /\ \E u \in BOOLEAN : m'.stk[UFrame(cur, 0)] =
                <<[pc |-> User(cur, 1 - pos[cur], u), i |-> FALSE, b |-> TRUE]>>
    <3>1. PICK u \in BOOLEAN : m'.stk = [m.stk EXCEPT ![m.pt[0]] =
                <<[pc |-> User(cur, 1 - pos[cur], u), i |-> FALSE, b |-> TRUE]>> \o @]
      BY <2>2
    <3>. DEFINE x == [pc |-> User(cur, 1 - pos[cur], u), i |-> FALSE, b |-> TRUE]
    <3>2. m'.stk = [m.stk EXCEPT ![UFrame(cur, 0)] = <<x>> \o @]
      BY <1>10, <3>1
    <3>3. m.stk \in [Stacks -> Seq(Entry)]
      BY <1>2 DEF IsMachine
    <3>. HIDE DEF x
    <3>4. m'.stk[UFrame(cur, 0)] = <<x>> \o m.stk[UFrame(cur, 0)]
      BY <1>10, <3>2, <3>3
    <3>5. \A f \in Stacks \ {UFrame(cur, 0)} : m'.stk[f] = m.stk[f]
      BY <1>10, <3>2, <3>3
    <3>6. m'.stk[UFrame(cur, 0)] = <<x>>
      BY <1>10, <3>4, PushEmpty
    <3>. QED  BY <3>5, <3>6 DEF x
  <2>5. /\ m'.vec = m.vec /\ m'.latch = {} /\ ~m'.timing /\ ~m'.v /\ m'.line = m.line
    BY <1>10, <2>1, <2>2 DEF Differ, Fields
  <2>6. TypeOK' /\ Calm' /\ Others' /\ Saved' /\ UserSide' /\ KernelSide' /\ LeakOnlyInTwoTraps'
    <3>2. m'.pc.at \in OnUserStack
      BY <2>3 DEF OnUserStack
    <3>. QED  BY <1>3, <1>4, <1>7, <1>8, <2>2, <2>4, <2>5, <3>2, UserKeeps
  <2>7. UserCode'
    BY <2>3 DEF UserCode
  <2>8. OneEntry(TRUE)'
    <3>1. pos'[cur] = 1 - pos[cur]
      BY <1>3, <2>2
    <3>. QED  BY <1>8, <2>4, <3>1 DEF OneEntry
  <2>9. Trampolines'
    <3>1. m'.prev = Table(cur, own[cur])[15]
      BY <1>10, <2>2
    <3>. QED  BY <1>8, <2>2, <2>3, <2>8, <3>1 DEF Trampolines
  <2>10. Serving'
    <3>1. m'.line => dropped'
      BY <1>10, <1>13, <1>17, <2>5 DEF Served
    <3>. QED  BY <2>3, <3>1 DEF Serving, Served
  <2>. QED  BY <2>6, <2>7, <2>9, <2>10 DEF TrapInv
<1>18. CASE op \in {"plain", "jump", "touch"} /\ ~s.v /\ ~m.pending
  <2>1. s = m /\ ~m.v
    BY <1>5, <1>18
  <2>2. /\ IsMachine(m') /\ Differ(m', m, {"pc", "v"}) /\ ~pre.timing
        /\ \E u \in BOOLEAN : m'.pc = User(cur, 1 - pos[cur], u)
    BY <1>7, <1>9, <1>18, <2>1, UserQuiet
  <2>3. m'.pc.at = "user"
    <3>1. PICK u \in BOOLEAN : m'.pc = User(cur, 1 - pos[cur], u)
      BY <2>2
    <3>2. User(cur, 1 - pos[cur], u).at = "user"
      BY ONLY UserRecord
    <3>. QED  BY ONLY <3>1, <3>2, SMTT(30)
  <2>4. /\ m'.vec = m.vec /\ m'.latch = {} /\ ~m'.timing /\ m'.line = m.line
        /\ m'.pt = m.pt /\ m'.stk = m.stk /\ m'.i = FALSE
    BY <1>10, <2>2 DEF Differ, Fields
  <2>5. TypeOK' /\ Calm' /\ Others' /\ Saved' /\ UserSide' /\ KernelSide' /\ LeakOnlyInTwoTraps'
    <3>1. \A f \in Stacks \ {UFrame(cur, 0)} : m'.stk[f] = m.stk[f]
      BY <2>4
    <3>2. m'.pc.at \in OnUserStack
      BY <2>3 DEF OnUserStack
    <3>3. m'.pt[0] = m.pt[0] /\ m'.pt[2] = m.pt[2]
      BY <2>4
    <3>. QED  BY <1>3, <1>4, <1>7, <1>8, <2>2, <2>3, <2>4, <3>1, <3>2, <3>3, UserKeeps
  <2>6. UserCode'
    <3>1. pos'[cur] = 1 - pos[cur]
      BY <1>3, <2>2
    <3>. QED  BY <1>8, <1>10, <2>2, <2>4, <3>1 DEF UserCode
  <2>7. Trampolines'
    BY <2>3 DEF Trampolines
  <2>8. Serving'
    <3>1. m'.line => dropped'
      BY <1>10, <1>13, <1>18, <2>4 DEF Served
    <3>. QED  BY <2>3, <3>1 DEF Serving, Served
  <2>. QED  BY <2>5, <2>6, <2>7, <2>8 DEF TrapInv
<1>. QED  BY <1>5, <1>15, <1>16, <1>17, <1>18 DEF Ops

-----------------------------------------------------------------------------
(* The theorems. *)

\* Every step keeps the crossings in order: the life raft, prev, the pages of
\* the window and the stacks, through the devices' interrupts, the traps, the
\* switches, the exits and the forks (trampoline.s, trap.c, machine.c).
THEOREM TrapInductive == TrapInv /\ [Next]_vars => TrapInv'
<1>. SUFFICES ASSUME TrapInv, [Next]_vars PROVE TrapInv'
  OBVIOUS
<1>1. CASE Raise
  BY <1>1, RaiseStep
<1>2. ASSUME NEW op \in Ops, UserExec(op) PROVE TrapInv'
  BY <1>2, UserStep
<1>3. CASE IrqHandler
  BY <1>3, IrqHandlerStep
<1>4. CASE TakeIrq
  BY <1>4, TakeIrqStep
<1>5. CASE DeviceInterrupt \/ proc_dump \/ DeviceDone
  BY <1>5, DeviceSteps
<1>6. CASE Rti
  BY <1>6, RtiStep
<1>7. CASE MapHw \/ MapTable \/ MapLow \/ UnmapHw \/ UnmapTable \/ UnmapLow
  BY <1>7, WindowSteps
<1>8. ASSUME NEW q \in Procs, yield(q) PROVE TrapInv'
  BY <1>8, YieldStep
<1>9. ASSUME NEW q \in Procs, NmiHandler(q) PROVE TrapInv'
  BY <1>9, NmiHandlerStep
<1>10. CASE NmiPanic
  BY <1>10, TrapSame DEF NmiPanic
<1>11. ASSUME NEW p \in Procs, NEW o \in Gifts(p), sys_fork(p, o) PROVE TrapInv'
  BY <1>11, ForkStep
<1>12. CASE kernel_epilogue
  BY <1>12, EpilogueStep
<1>13. CASE UNCHANGED vars
  BY <1>13, TrapSame DEF vars, TrapInv, TypeOK
<1>14. CASE Halted
  BY <1>13, <1>14 DEF Halted
<1>. QED  BY <1>1, <1>2, <1>3, <1>4, <1>5, <1>6, <1>7, <1>8, <1>9, <1>10, <1>11, <1>12, <1>13, <1>14 DEF Next

\* The inductive invariant holds in every behaviour of the traps.
THEOREM TrapInvariant == Spec => []TrapInv
<1>1. Init => TrapInv
  BY TrapInit
<1>. QED  BY <1>1, TrapInductive, PTL DEF Spec

\* The machine, the tables, the life raft and the process table always have
\* values of their types: no step pulls from an empty stack.
THEOREM TypeCorrect == Spec => []TypeOK
<1>1. TrapInv => TypeOK
  BY DEF TrapInv
<1>. QED  BY <1>1, TrapInvariant, PTL

\* For any number of processes, user code runs as it was left: at the instruction
\* its last trap saved, in its own segments, with interrupts on and empty stacks,
\* whatever passed through the one life raft and prev in between (trampoline.s).
THEOREM UserResumes == Spec => []UserAsLeft
<1>1. ASSUME TrapInv PROVE UserAsLeft
  <2>. SUFFICES ASSUME m.pc.at = "user"
                PROVE  /\ m.pc.proc = cur /\ m.pc.pos = pos[cur]
                       /\ \A s \in Segs : m.pt[s] = Table(cur, own[cur])[s]
                       /\ ~m.i /\ m.vec = "irq_handler"
                       /\ m.stk[KStack(cur)] = <<>> /\ m.stk[UFrame(cur, 0)] = <<>>
    BY DEF UserAsLeft
  <2>1. /\ cur \in Procs /\ own[cur] \in Gifts(cur) /\ m.pt[0] = UFrame(cur, 0) /\ m.vec = "irq_handler"
        /\ m.pt[15] = Table(cur, own[cur])[15] /\ ~m.i
        /\ m.stk[UFrame(cur, 0)] = <<>> /\ m.stk[KStack(cur)] = <<>>
        /\ \E w \in BOOLEAN : m.pc = User(cur, pos[cur], w)
    BY <1>1, UserFacts
  <2>2. PICK w \in BOOLEAN : m.pc = User(cur, pos[cur], w)
    BY <2>1
  <2>3. m.pc.proc = cur /\ m.pc.pos = pos[cur]
    <3>1. User(cur, pos[cur], w).proc = cur /\ User(cur, pos[cur], w).pos = pos[cur]
      BY ONLY UserRecord
    <3>. QED  BY ONLY <2>2, <3>1, SMTT(30)
  <2>4. m.pt[2] = NoFrame
    BY <1>1 DEF TrapInv, UserSide, OnUserStack
  <2>5. Table(cur, own[cur])[0] = UFrame(cur, 0) /\ Table(cur, own[cur])[2] = NoFrame
    BY <2>1, TableFrames
  <2>6. \A s \in Segs : m.pt[s] = Table(cur, own[cur])[s]
    BY <2>1, <2>4, <2>5 DEF Segs
  <2>. QED  BY <2>1, <2>3, <2>6
<1>. QED  BY <1>1, TrapInvariant, PTL

\* At every depth of nested interrupts, kernel code runs on the kernel stack of
\* the current process with the kernel's last segment mapped and in prev, so that
\* each RTI comes back to the kernel; outside a window access the tables of
\* paging have the window's own frame (trampoline.s, memory.c).
THEOREM KernelStaysMapped == Spec => []KernelMapped
<1>1. ASSUME TrapInv PROVE KernelMapped
  <2>. SUFFICES ASSUME m.pc.at \in Busy \cup {"vector_rti"}
                PROVE  /\ m.pt[0] = KStack(cur) /\ kpt[0] = KStack(cur) /\ low[cur][0] = KStack(cur)
                       /\ m.pt[15] = K15 /\ m.prev = K15 /\ m.vec = "kernel_vector"
                       /\ m.pc.at = "kernel" /\ m.pc.win = "idle" => kpt[2] = Home /\ low[cur][2] = Home
    BY DEF KernelMapped
  <2>1. m.pc.at \in Base \cup Above /\ (m.pc.at = "kernel" => m.pc.at \in Base)
    BY DEF Busy, Base, Above
  <2>2. /\ m.pt[0] = KStack(cur) /\ kpt[0] = KStack(cur) /\ low[cur][0] = KStack(cur)
        /\ m.pt[15] = K15 /\ m.prev = K15 /\ m.vec = "kernel_vector"
        /\ LevelsOK(m.pc, m.stk[KStack(cur)])
        /\ WindowsOK(m.pc, m.stk[KStack(cur)], m.pt[2], kpt[2], low[cur][2])
    BY <1>1, <2>1 DEF TrapInv, KernelSide
  <2>3. ASSUME m.pc.at = "kernel", m.pc.win = "idle" PROVE kpt[2] = Home /\ low[cur][2] = Home
    <3>1. m.stk[KStack(cur)] = <<>>
      BY <2>1, <2>2, <2>3 DEF LevelsOK
    <3>2. WindowsOK(m.pc, <<>>, m.pt[2], kpt[2], low[cur][2]) /\ m.pc.win = "idle"
      BY <2>2, <2>3, <3>1
    <3>. QED  BY ONLY <3>2, NoLevelsHome, SMTT(30)
  <2>. QED  BY <2>2, <2>3
<1>. QED  BY <1>1, TrapInvariant, PTL

\* At every depth of nested interrupts and after any switches, an access through
\* the window reaches the frame it asked for, unless an interrupt came between
\* the two stores of mmu_map() (mmu.c).
THEOREM WindowOnlyTorn == Spec => []WindowRightUnlessTorn
<1>1. ASSUME TrapInv PROVE WindowRightUnlessTorn
  <2>. SUFFICES ASSUME m.pc.at \in Busy, m.pc.win = "mapped" PROVE m.pt[2] = m.pc.want \/ m.pc.torn
    BY DEF WindowRightUnlessTorn, WindowRight
  <2>. DEFINE k == m.stk[KStack(cur)]
              c == m.pc
  <2>1. m.pc.at \in Base \cup Above
    BY DEF Busy, Base, Above
  <2>2. k \in Seq(Entry) /\ WindowsOK(c, k, m.pt[2], kpt[2], low[cur][2])
    BY <1>1, <2>1, KernelFacts
  <2>3. c.win = "mapped"
    OBVIOUS
  <2>. HIDE DEF k, c
  <2>4. 0 \in 0 .. Len(k)
    <3>1. Len(k) \in Nat
      BY <2>2, EntrySeqs
    <3>. QED  BY ONLY <3>1, SMTT(30)
  <2>5. Level(c, k, 0) = c /\ Maps(c, k, 0) /\ Shown(c, k, 0, m.pt[2])
    BY <2>2, <2>3 DEF Level, Maps, WindowsOK
  <2>6. c.torn \/ m.pt[2] = c.want
    <3>1. \A l : l \notin 0 .. 0 - 1
      BY SMTT(30)
    <3>. QED  BY <2>4, <2>5, <3>1 DEF Shown
  <2>. QED  BY <2>6 DEF c
<1>. QED  BY <1>1, TrapInvariant, PTL

\* A process that a trap ends gives back every frame it owns, unless two traps
\* came at one instruction (machine.c, proc.c).
THEOREM LeaksOnlyInTwoTraps == Spec => []LeakOnlyInTwoTraps
<1>1. TrapInv => LeakOnlyInTwoTraps
  BY DEF TrapInv
<1>. QED  BY <1>1, TrapInvariant, PTL

\* An interrupt the CPU takes is served, in every nesting of interrupts and traps,
\* unless a trap at the same instruction ended the process first (machine.c).
THEOREM IrqsAreServed == Spec => []TakenIrqServed
<1>1. ASSUME TrapInv PROVE TakenIrqServed
  <2>. SUFFICES ASSUME m.line, ~m.i, m.pc.at # "prologue" PROVE m.pending \/ dropped
    BY DEF TakenIrqServed
  <2>1. m.pc.at # "irq_handler" /\ m.pc.at # "kernel_vector"
    BY <1>1 DEF TrapInv, Trampolines, Serving
  <2>. QED  BY <1>1, <2>1 DEF TrapInv, Serving, Served
<1>. QED  BY <1>1, TrapInvariant, PTL
=============================================================================
