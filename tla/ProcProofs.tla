----------------------------- MODULE ProcProofs -----------------------------
(***************************************************************************)
(* Proofs about module Proc, for a process table of any size, any number   *)
(* of frames and segments and any use of the system calls: type            *)
(* correctness, the invariants about parents, zombies, waiting, kills,     *)
(* pids and processes under construction, and those about frames.          *)
(***************************************************************************)
EXTENDS Proc, TLAPS

\* Zenon proves the leaves that do not say SMT.
USE ZenonT(30)

-----------------------------------------------------------------------------
(***************************************************************************)
(* Types.                                                                  *)
(***************************************************************************)

\* current_process is only used while a process runs.
CurrentSet == cpu = "run" => current \in Slots

\* sys_fork() has a child while it copies.
ChildSet == \A p \in Slots : pc[p] = "copy" => child[p] \in Slots

TypeInv == TypeOK /\ CurrentSet /\ ChildSet

LEMMA MemFacts == MEM \in Nat \ {0} /\ INITTOP \in 0 .. MEM - 1 /\ 0 \in Segs /\ SEGS \in Nat
<1>1. SEGS \in Nat /\ SEGS >= 1 /\ PAGE \in Nat /\ PAGE >= 1
  BY ProcAssumption, SMT
<1>2. SEGS * PAGE \in Nat /\ INITTOP < SEGS * PAGE /\ INITTOP \in Nat
  BY <1>1, ProcAssumption, SMT
<1>. QED  BY <1>1, <1>2, SMT DEF MEM, Segs

LEMMA NewTopType ==
    ASSUME NEW t \in 0 .. MEM - 1, NEW inc \in Increments
    PROVE  NewTop(t, inc) \in 0 .. MEM - 1
<1>1. inc \in Int /\ t \in Int
  BY MemFacts, SMT DEF Increments
<1>. QED  BY <1>1, MemFacts, SMT DEF NewTop

LEMMA SegmentType == ASSUME NEW t \in 0 .. MEM - 1 PROVE Segment(t) \in Segs
<1>1. CASE t = 0
  BY <1>1, MemFacts DEF Segment
<1>2. CASE t # 0
  <2>. DEFINE d == (t - 1) \div PAGE
  <2>1. /\ SEGS \in Nat /\ PAGE \in Nat /\ PAGE > 0
        /\ t \in Nat /\ t - 1 \in Nat /\ t < SEGS * PAGE
    BY <1>2, ProcAssumption, MemFacts, SMT DEF MEM
  <2>2. d \in Nat /\ d * PAGE <= t - 1
    BY <2>1, SMT
  <2>3. ASSUME d >= SEGS PROVE FALSE
    <3>. HIDE DEF d
    <3>1. d * PAGE >= SEGS * PAGE
      BY <2>1, <2>2, <2>3, SMT
    <3>. QED  BY <3>1, <2>1, <2>2, SMT
  <2>4. d \in Segs
    BY <2>1, <2>2, <2>3, SMT DEF Segs
  <2>. QED  BY <1>2, <2>4 DEF Segment
<1>. QED  BY <1>1, <1>2

\* Whatever sbrk does to the top, the segments it looks at are in the page table.
LEMMA SbrkRange ==
    ASSUME TypeOK, NEW p \in Slots, NEW inc \in Increments
    PROVE  /\ Missing(p, inc) \subseteq Segs
           /\ Gone(p, inc) \subseteq Segs
           /\ \A s \in Segs : Segment(top[p]) + 1 .. s \subseteq Segs
<1>1. Segment(top[p]) \in Segs /\ Segment(NewTop(top[p], inc)) \in Segs
  BY SegmentType, NewTopType DEF TypeOK
<1>. QED  BY <1>1, MemFacts, SMT DEF Missing, Gone, Segs

LEMMA SlotFacts == InitProc \in Slots /\ \A p \in Slots : After(p) \in Slots
BY NAssumption, SMT DEF InitProc, Slots, After

LEMMA WokenType ==
    ASSUME NEW st \in [Slots -> States], NEW chan, NEW C
    PROVE  Woken(st, chan, C) \in [Slots -> States]
BY DEF Woken, States

LEMMA InitTypeInv == Init => TypeInv
<1>. SUFFICES ASSUME Init PROVE TypeInv
  OBVIOUS
<1>1. PICK k \in Frames, f \in Frames :
          /\ kstk = [p \in Slots |-> IF p = InitProc THEN k ELSE NoFrame]
          /\ pt = [p \in Slots |->
                      IF p = InitProc THEN [NoPages EXCEPT ![0] = f] ELSE NoPages]
          /\ free = Frames \ {k, f}
  BY DEF Init
<1>2. NoPages \in [Segs -> Frames \cup {NoFrame}]
  BY DEF NoPages
<1>3. [NoPages EXCEPT ![0] = f] \in [Segs -> Frames \cup {NoFrame}]
  BY <1>2
<1>4. /\ pt \in [Slots -> [Segs -> Frames \cup {NoFrame}]]
      /\ kstk \in [Slots -> Frames \cup {NoFrame}]
      /\ free \in SUBSET Frames
  BY <1>1, <1>2, <1>3
<1>5. nextPid \in Pids /\ pid \in [Slots -> Pids] /\ top \in [Slots -> 0 .. MEM - 1]
  BY ProcAssumption, MemFacts, SMT DEF Init, Pids
<1>6. seg \in [Slots -> 0 .. SEGS] /\ rr \in Slots
  BY MemFacts, SlotFacts, SMT DEF Init, InitProc
<1>7. /\ state \in [Slots -> States] /\ channel \in [Slots -> Slots \cup {IO, Null}]
      /\ parent \in [Slots -> Slots \cup {Null}] /\ pc \in [Slots -> Labels]
      /\ child \in [Slots -> Slots \cup {Null}] /\ current \in Slots \cup {Null}
      /\ cpu \in {"run", "sched"} /\ faults \in SUBSET {"double", "leak", "shared", "wrap"}
      /\ CurrentSet /\ ChildSet
  BY DEF Init, States, Labels, CurrentSet, ChildSet
<1>8. killed \in [Slots -> BOOLEAN] /\ panicked \in BOOLEAN
  BY DEF Init
<1>. QED  BY <1>4, <1>5, <1>6, <1>7, <1>8 DEF TypeOK, TypeInv

\* What ProcFree(c) and KFree(F, more) leave behind.
LEMMA ProcFreeType ==
    ASSUME TypeOK, NEW c, ProcFree(c)
    PROVE  /\ state' \in [Slots -> States]
           /\ kstk' \in [Slots -> Frames \cup {NoFrame}]
           /\ pt' \in [Slots -> [Segs -> Frames \cup {NoFrame}]]
           /\ top' \in [Slots -> 0 .. MEM - 1]
           /\ parent' \in [Slots -> Slots \cup {Null}]
           /\ pid' \in [Slots -> Pids]
           /\ killed' \in [Slots -> BOOLEAN]
<1>1. NoPages \in [Segs -> Frames \cup {NoFrame}] /\ 0 \in 0 .. MEM - 1 /\ 0 \in Pids
  BY MemFacts, ProcAssumption, SMT DEF NoPages, Pids
<1>2. killed' \in [Slots -> BOOLEAN]
  BY DEF ProcFree, TypeOK
<1>. QED  BY <1>1, <1>2 DEF ProcFree, TypeOK, States

LEMMA KFreeType ==
    ASSUME TypeOK, NEW F, F \subseteq Frames \cup {NoFrame},
           NEW more \in SUBSET {"double", "leak", "shared", "wrap"}, KFree(F, more)
    PROVE  free' \in SUBSET Frames /\ faults' \in SUBSET {"double", "leak", "shared", "wrap"}
BY DEF TypeOK, KFree, DoubleFree

\* Steps that only move the running process to another label.
LEMMA ReturnType ==
    ASSUME TypeInv, cpu = "run", NEW l \in Labels, Goto(current, l)
    PROVE  /\ pc' \in [Slots -> Labels]
           /\ l # "copy" /\ child' = child => ChildSet'
BY DEF TypeInv, TypeOK, Goto, ChildSet

LEMMA NextTypeInv == TypeInv /\ [Next]_vars => TypeInv'
<1>. SUFFICES ASSUME TypeInv, [Next]_vars PROVE TypeInv'
  OBVIOUS
<1>. USE DEF procVars, memVars, ctlVars
<1>1. CASE Dispatch
  BY <1>1, SlotFacts, SMT DEF Dispatch, TypeInv, TypeOK, CurrentSet, ChildSet, States, IsNext, Runnable
<1>2. CASE KernelVector
  <2>1. state' \in [Slots -> States]
    BY <1>2, WokenType DEF KernelVector, TypeInv, TypeOK
  <2>. QED  BY <1>2, <2>1 DEF KernelVector, TypeInv, TypeOK, CurrentSet, ChildSet
<1>3. CASE KernelBrk \/ KernelEpilogue
  <2>1. pc' \in [Slots -> Labels] /\ ChildSet'
    BY <1>3, ReturnType, ProcAssumption
    DEF KernelBrk, KernelEpilogue, At, Labels, Syscalls
  <2>. QED  BY <1>3, <2>1 DEF KernelBrk, KernelEpilogue, TypeInv, TypeOK, CurrentSet
<1>4. ASSUME NEW wake \in BOOLEAN, NEW expired \in BOOLEAN, KernelIrq(wake, expired)
      PROVE  TypeInv'
  <2>1. pc' \in [Slots -> Labels] /\ ChildSet'
    BY <1>4, ReturnType DEF KernelIrq, At, Labels
  <2>2. state' \in [Slots -> States]
    <3>1. PICK st \in [Slots -> States] :
             state' = st \/ state' = [st EXCEPT ![current] = "READY"]
      BY <1>4, WokenType DEF KernelIrq, TypeInv, TypeOK
    <3>. QED  BY <3>1 DEF States
  <2>3. cpu' \in {"run", "sched"} /\ (cpu' = "run" => cpu = "run")
    BY <1>4 DEF KernelIrq, At, TypeInv, TypeOK
  <2>. QED  BY <1>4, <2>1, <2>2, <2>3 DEF KernelIrq, TypeInv, TypeOK, CurrentSet
<1>5. CASE SysIO \/ SysWrite
  <2>1. pc' \in [Slots -> Labels] /\ ChildSet'
    BY <1>5, ReturnType DEF SysIO, SysWrite, Return, At, Labels, TypeInv, TypeOK, ChildSet
  <2>2. state' \in [Slots -> States]
    BY <1>5 DEF SysIO, SysWrite, Sleep, Yield, TypeInv, TypeOK, States
  <2>3. channel' \in [Slots -> Slots \cup {IO, Null}]
    BY <1>5 DEF SysIO, SysWrite, Sleep, TypeInv, TypeOK
  <2>4. child' = child /\ seg' = seg /\ rr' = rr /\ current' = current /\ (cpu' = "sched" \/ cpu' = cpu)
    BY <1>5 DEF SysIO, SysWrite, Return, Sleep, Yield
  <2>. QED  BY <1>5, <2>1, <2>2, <2>3, <2>4 DEF SysIO, SysWrite, TypeInv, TypeOK, CurrentSet
<1>6. CASE ForkFails \/ WaitBadPointer \/ WaitFails \/ KillMisses
  <2>1. pc' \in [Slots -> Labels] /\ ChildSet'
    BY <1>6, ReturnType DEF ForkFails, WaitBadPointer, WaitFails, KillMisses, Return, At, Labels
  <2>. QED  BY <1>6, <2>1
            DEF ForkFails, WaitBadPointer, WaitFails, KillMisses, Return, TypeInv, TypeOK, CurrentSet
<1>7. CASE ForkPanics \/ ExitPanics \/ SysOpen
  BY <1>7 DEF ForkPanics, ExitPanics, SysOpen, Panic, TypeInv, TypeOK, CurrentSet, ChildSet
<1>8. CASE ForkStart
  <2>1. PICK c \in Slots, k \in free :
          /\ free' = free \ {k}
          /\ kstk' = [kstk EXCEPT ![c] = k]
          /\ state' = [state EXCEPT ![c] = "BUILDING", ![current] = "READY"]
          /\ pid' = [pid EXCEPT ![c] = nextPid]
          /\ parent' = [parent EXCEPT ![c] = current]
          /\ killed' = [killed EXCEPT ![c] = killed[current]]
          /\ channel' = [channel EXCEPT ![c] = channel[current]]
          /\ top' = [top EXCEPT ![c] = top[current]]
          /\ pt' = [pt EXCEPT ![c] = NoPages]
          /\ child' = [child EXCEPT ![current] = c]
    BY <1>8 DEF ForkStart
  <2>2. current \in Slots
    BY <1>8 DEF ForkStart, At, TypeInv, CurrentSet, ChildSet
  <2>3. /\ free' \in SUBSET Frames /\ kstk' \in [Slots -> Frames \cup {NoFrame}]
        /\ state' \in [Slots -> States] /\ pid' \in [Slots -> Pids]
        /\ parent' \in [Slots -> Slots \cup {Null}]
        /\ channel' \in [Slots -> Slots \cup {IO, Null}]
        /\ child' \in [Slots -> Slots \cup {Null}]
    BY <2>1, <2>2 DEF TypeInv, TypeOK, States
  <2>4. killed' \in [Slots -> BOOLEAN]
    BY <2>1, <2>2 DEF TypeInv, TypeOK
  <2>5. pt' \in [Slots -> [Segs -> Frames \cup {NoFrame}]] /\ top' \in [Slots -> 0 .. MEM - 1]
    BY <2>1, <2>2 DEF TypeInv, TypeOK, NoPages
  <2>6. nextPid' \in Pids /\ seg' \in [Slots -> 0 .. SEGS]
    <3>1. nextPid \in Int /\ PIDMOD \in Nat \ {0}
      BY ProcAssumption, SMT DEF TypeInv, TypeOK, Pids
    <3>2. (nextPid + 1) % PIDMOD \in 0 .. PIDMOD - 1
      BY <3>1, SMT
    <3>3. nextPid' \in Pids
      BY <1>8, <3>2 DEF ForkStart, Pids
    <3>4. 0 \in 0 .. SEGS
      BY MemFacts, SMT
    <3>. QED  BY <1>8, <3>3, <3>4 DEF ForkStart, TypeInv, TypeOK
  <2>7. pc' \in [Slots -> Labels]
    BY <1>8, ReturnType DEF ForkStart, At, Labels
  <2>8. ChildSet'
    BY <1>8, <2>1, <2>2, SMT DEF ForkStart, Goto, TypeInv, TypeOK, ChildSet
  <2>. QED  BY <1>8, <2>3, <2>4, <2>5, <2>6, <2>7, <2>8 DEF ForkStart, TypeInv, TypeOK, CurrentSet
<1>9. CASE ForkCopy
  <2>1. PICK s \in Segs, f \in free :
          /\ free' = free \ {f}
          /\ pt' = [pt EXCEPT ![child[current]][s] = f]
          /\ seg' = [seg EXCEPT ![current] = s + 1]
    BY <1>9 DEF ForkCopy
  <2>2. pt' \in [Slots -> [Segs -> Frames \cup {NoFrame}]] /\ free' \in SUBSET Frames
    BY <2>1 DEF TypeInv, TypeOK
  <2>3. seg' \in [Slots -> 0 .. SEGS]
    <3>1. s + 1 \in 0 .. SEGS
      BY MemFacts, SMT DEF Segs
    <3>. QED  BY <2>1, <3>1 DEF TypeInv, TypeOK
  <2>4. state' \in [Slots -> States] /\ cpu' = "sched"
    BY <1>9 DEF ForkCopy, Yield, TypeInv, TypeOK, States
  <2>. QED  BY <1>9, <2>2, <2>3, <2>4 DEF ForkCopy, TypeInv, TypeOK, CurrentSet, ChildSet
<1>10. CASE ForkRollback
  <2>. DEFINE c == child[current]
              F(junk) == {pt[c][r] : r \in Segs \ {0}} \cup junk \cup {kstk[c]}
  <2>1. PICK junk \in SUBSET Frames, more \in SUBSET {"double", "leak", "shared", "wrap"} :
             KFree(F(junk), more) /\ ProcFree(c)
    BY <1>10 DEF ForkRollback
  <2>2. c \in Slots
    BY <1>10 DEF ForkRollback, At, TypeInv, CurrentSet, ChildSet
  <2>3. F(junk) \subseteq Frames \cup {NoFrame}
    BY <2>2, SMT DEF TypeInv, TypeOK
  <2>4. free' \in SUBSET Frames /\ faults' \in SUBSET {"double", "leak", "shared", "wrap"}
    BY <2>1, <2>3, KFreeType DEF TypeInv
  <2>5. /\ child' \in [Slots -> Slots \cup {Null}]
        /\ pc' \in [Slots -> Labels] /\ ChildSet'
    BY <1>10 DEF ForkRollback, At, Goto, Labels, TypeInv, TypeOK, ChildSet
  <2>6. seg' \in [Slots -> 0 .. SEGS]
    <3>1. seg' = [seg EXCEPT ![current] = 0] /\ 0 \in 0 .. SEGS
      BY <1>10, MemFacts, SMT DEF ForkRollback
    <3>. QED  BY <3>1 DEF TypeInv, TypeOK
  <2>. QED  BY <1>10, <2>1, <2>4, <2>5, <2>6, ProcFreeType DEF ForkRollback, TypeInv, TypeOK, CurrentSet
<1>11. CASE ForkDone
  BY <1>11, MemFacts, SMTT(30) DEF ForkDone, At, Labels, States, TypeInv, TypeOK, CurrentSet, ChildSet
<1>12. CASE SysExit
  <2>1. current \in Slots
    BY <1>12 DEF SysExit, At, TypeInv, CurrentSet
  <2>2. state' \in [Slots -> States]
    <3>. DEFINE st == [Woken(state, channel, {parent[current]}) EXCEPT ![current] = "ZOMBIE"]
    <3>1. st \in [Slots -> States]
      BY WokenType DEF TypeInv, TypeOK, States
    <3>2. state' = st \/ state' = Woken(st, channel, {InitProc})
      BY <1>12 DEF SysExit, ExitStates
    <3>. HIDE DEF st
    <3>. QED  BY <3>1, <3>2, WokenType, SMT
  <2>3. Range(pt[current]) \subseteq Frames \cup {NoFrame}
    BY <2>1, SMT DEF Range, TypeInv, TypeOK
  <2>4. free' \in SUBSET Frames /\ faults' \in SUBSET {"double", "leak", "shared", "wrap"}
    BY <1>12, <2>3, KFreeType DEF SysExit, TypeInv
  <2>5. /\ pt' \in [Slots -> [Segs -> Frames \cup {NoFrame}]]
        /\ parent' \in [Slots -> Slots \cup {Null}]
    BY <1>12, <2>1, SlotFacts DEF SysExit, NoPages, TypeInv, TypeOK
  <2>6. pc' \in [Slots -> Labels] /\ ChildSet'
    BY <1>12, ReturnType DEF SysExit, At, Labels
  <2>. QED  BY <1>12, <2>2, <2>4, <2>5, <2>6 DEF SysExit, TypeInv, TypeOK, CurrentSet
<1>13. CASE WaitReaps
  <2>1. PICK z \in Slots : KFree({kstk[z]}, {}) /\ ProcFree(z)
    BY <1>13 DEF WaitReaps
  <2>2. free' \in SUBSET Frames /\ faults' \in SUBSET {"double", "leak", "shared", "wrap"}
    <3>1. {kstk[z]} \subseteq Frames \cup {NoFrame}
      BY DEF TypeInv, TypeOK
    <3>. QED  BY <2>1, <3>1, KFreeType DEF TypeInv
  <2>3. pc' \in [Slots -> Labels] /\ ChildSet'
    BY <1>13, ReturnType DEF WaitReaps, Return, At, Labels
  <2>. QED  BY <1>13, <2>1, <2>2, <2>3, ProcFreeType
            DEF WaitReaps, Return, TypeInv, TypeOK, CurrentSet
<1>14. CASE WaitSleeps
  <2>1. pc' \in [Slots -> Labels] /\ ChildSet'
    BY <1>14, ReturnType DEF WaitSleeps, At, Labels
  <2>. QED  BY <1>14, <2>1 DEF WaitSleeps, Sleep, TypeInv, TypeOK, CurrentSet, States
<1>15. CASE KillHits
  <2>1. pc' \in [Slots -> Labels] /\ ChildSet'
    BY <1>15, ReturnType DEF KillHits, Return, At, Labels
  <2>2. killed' \in [Slots -> BOOLEAN]
    BY <1>15 DEF KillHits, TypeInv, TypeOK
  <2>3. state' \in [Slots -> States]
    BY <1>15, SMT DEF KillHits, TypeInv, TypeOK, States
  <2>. QED  BY <1>15, <2>1, <2>2, <2>3 DEF KillHits, Return, TypeInv, TypeOK, CurrentSet
<1>16. CASE SbrkGrows
  <2>0. PICK inc \in Increments : \E g \in Injection(Missing(current, inc), free) :
          /\ pt' = [pt EXCEPT ![current] =
                       [s \in Segs |-> IF s \in Missing(current, inc) THEN g[s] ELSE @[s]]]
          /\ free' = free \ Range(g)
          /\ top' = [top EXCEPT ![current] = NewTop(@, inc)]
          /\ faults' = faults \cup Wraps(top[current], inc)
    BY <1>16 DEF SbrkGrows
  <2>1. PICK g \in Injection(Missing(current, inc), free) :
          /\ pt' = [pt EXCEPT ![current] =
                       [s \in Segs |-> IF s \in Missing(current, inc) THEN g[s] ELSE @[s]]]
          /\ free' = free \ Range(g)
          /\ top' = [top EXCEPT ![current] = NewTop(@, inc)]
          /\ faults' = faults \cup Wraps(top[current], inc)
    BY <2>0
  <2>2. current \in Slots
    BY <1>16 DEF SbrkGrows, At, TypeInv, CurrentSet
  <2>3. \A s \in Missing(current, inc) : g[s] \in Frames
    BY DEF Injection, TypeInv, TypeOK
  <2>4. pt' \in [Slots -> [Segs -> Frames \cup {NoFrame}]]
    BY <2>1, <2>2, <2>3, SMT DEF TypeInv, TypeOK
  <2>5. top' \in [Slots -> 0 .. MEM - 1]
    BY <2>1, <2>2, NewTopType DEF TypeInv, TypeOK
  <2>6. free' \in SUBSET Frames /\ faults' \in SUBSET {"double", "leak", "shared", "wrap"}
    BY <2>1 DEF Wraps, TypeInv, TypeOK
  <2>7. pc' \in [Slots -> Labels] /\ ChildSet'
    BY <1>16, ReturnType DEF SbrkGrows, Return, At, Labels
  <2>. QED  BY <1>16, <2>4, <2>5, <2>6, <2>7 DEF SbrkGrows, Return, TypeInv, TypeOK, CurrentSet
<1>17. CASE SbrkFails
  <2>1. PICK inc \in Increments : \E s \in Missing(current, inc) :
             \E g \in Bijection({r \in Missing(current, inc) : r < s}, free) :
             LET local == [r \in Segs |-> IF r \in DOMAIN g THEN g[r] ELSE pt[current][r]]
                 undone == {local[r] : r \in Segment(top[current]) + 1 .. s} \ {NoFrame}
             IN  /\ free' = undone
                 /\ faults' = faults \cup Wraps(top[current], inc)
                       \cup (IF undone \subseteq free THEN {} ELSE {"shared"})
                       \cup (IF free \subseteq undone THEN {} ELSE {"leak"})
    BY <1>17 DEF SbrkFails
  <2>2. PICK s \in Missing(current, inc) :
             \E g \in Bijection({r \in Missing(current, inc) : r < s}, free) :
             LET local == [r \in Segs |-> IF r \in DOMAIN g THEN g[r] ELSE pt[current][r]]
                 undone == {local[r] : r \in Segment(top[current]) + 1 .. s} \ {NoFrame}
             IN  /\ free' = undone
                 /\ faults' \subseteq faults \cup {"wrap", "shared", "leak"}
    BY <2>1 DEF Wraps
  <2>3. PICK g \in Bijection({r \in Missing(current, inc) : r < s}, free) :
             LET local == [r \in Segs |-> IF r \in DOMAIN g THEN g[r] ELSE pt[current][r]]
                 undone == {local[r] : r \in Segment(top[current]) + 1 .. s} \ {NoFrame}
             IN  /\ free' = undone
                 /\ faults' \subseteq faults \cup {"wrap", "shared", "leak"}
    BY <2>2
  <2>4. current \in Slots
    BY <1>17 DEF SbrkFails, At, TypeInv, CurrentSet
  <2>5. \A r \in DOMAIN g : g[r] \in Frames
    BY DEF Bijection, Injection, TypeInv, TypeOK
  <2>6. Segment(top[current]) + 1 .. s \subseteq Segs
    BY <2>4, SbrkRange DEF TypeInv
  <2>7. free' \in SUBSET Frames /\ faults' \in SUBSET {"double", "leak", "shared", "wrap"}
    <3>. DEFINE local == [r \in Segs |-> IF r \in DOMAIN g THEN g[r] ELSE pt[current][r]]
    <3>1. \A r \in Segs : local[r] \in Frames \cup {NoFrame}
      BY <2>4, <2>5, SMT DEF TypeInv, TypeOK
    <3>2. free' = {local[r] : r \in Segment(top[current]) + 1 .. s} \ {NoFrame}
      BY <2>3
    <3>3. faults' \subseteq faults \cup {"wrap", "shared", "leak"}
      BY <2>3
    <3>. HIDE DEF local
    <3>4. free' \in SUBSET Frames
      BY <3>1, <3>2, <2>6
    <3>. QED  BY <3>3, <3>4 DEF TypeInv, TypeOK
  <2>8. pc' \in [Slots -> Labels] /\ ChildSet'
    BY <1>17, ReturnType DEF SbrkFails, Return, At, Labels
  <2>. QED  BY <1>17, <2>7, <2>8 DEF SbrkFails, Return, TypeInv, TypeOK, CurrentSet
<1>18. CASE SbrkShrinks
  <2>1. PICK inc \in Increments :
          /\ KFree({pt[current][s] : s \in Gone(current, inc)}, Wraps(top[current], inc))
          /\ pt' = [pt EXCEPT ![current] =
                       [s \in Segs |-> IF s \in Gone(current, inc) THEN NoFrame ELSE @[s]]]
          /\ top' = [top EXCEPT ![current] = NewTop(@, inc)]
    BY <1>18 DEF SbrkShrinks
  <2>2. current \in Slots
    BY <1>18 DEF SbrkShrinks, At, TypeInv, CurrentSet
  <2>3. {pt[current][s] : s \in Gone(current, inc)} \subseteq Frames \cup {NoFrame}
    BY <2>2, SbrkRange, SMT DEF TypeInv, TypeOK
  <2>4. Wraps(top[current], inc) \in SUBSET {"double", "leak", "shared", "wrap"}
    BY DEF Wraps
  <2>5. free' \in SUBSET Frames /\ faults' \in SUBSET {"double", "leak", "shared", "wrap"}
    BY <2>1, <2>3, <2>4, KFreeType DEF TypeInv
  <2>6. pt' \in [Slots -> [Segs -> Frames \cup {NoFrame}]]
    BY <2>1, <2>2, SMT DEF TypeInv, TypeOK
  <2>7. top' \in [Slots -> 0 .. MEM - 1]
    BY <2>1, <2>2, NewTopType DEF TypeInv, TypeOK
  <2>8. pc' \in [Slots -> Labels] /\ ChildSet'
    BY <1>18, ReturnType DEF SbrkShrinks, Return, At, Labels
  <2>. QED  BY <1>18, <2>5, <2>6, <2>7, <2>8 DEF SbrkShrinks, Return, TypeInv, TypeOK, CurrentSet
<1>19. CASE Halted \/ UNCHANGED vars
  BY <1>19 DEF Halted, vars, TypeInv, TypeOK, CurrentSet, ChildSet
<1>. QED
  BY <1>1, <1>2, <1>3, <1>4, <1>5, <1>6, <1>7, <1>8, <1>9, <1>10, <1>11, <1>12, <1>13,
     <1>14, <1>15, <1>16, <1>17, <1>18, <1>19 DEF Next, SysCall

\* Every variable of the process layer keeps its type: labels, page tables and
\* tops included, whatever the programs call.
THEOREM TypeCorrect == Spec => []TypeOK
<1>1. TypeInv => TypeOK
  BY DEF TypeInv
<1>. QED  BY <1>1, InitTypeInv, NextTypeInv, PTL DEF Spec

-----------------------------------------------------------------------------
(***************************************************************************)
(* The life of processes.  The invariants hold together: that sys_wait()   *)
(* reaps only zombies nobody calls their parent rests on ParentAlive,      *)
(* which rests on processes under construction having no children, which   *)
(* rests on only the current process running, and so on.  LifeInv is their *)
(* inductive conjunction.                                                  *)
(***************************************************************************)
Active(p) == state[p] \in {"NEW", "READY", "RUNING", "SLEEPING"}

\* The process that runs, and only it, is RUNING.
OneRuns == /\ cpu = "run" => state[current] = "RUNING"
           /\ \A p \in Slots : state[p] = "RUNING" => cpu = "run" /\ p = current

\* A slot that holds no complete process is at no label.
IdleSlots == \A p \in Slots : ~Active(p) => pc[p] = "none"

\* ParentAlive, and the parent is not under construction itself.
ParentActive == \A p \in Slots : state[p] # "UNUSED" /\ p # InitProc =>
                   parent[p] \in Slots /\ parent[p] # p /\ Active(parent[p])

\* Only the running process is in user mode, and it was not killed.
UserRuns == \A p \in Slots : pc[p] = "user" => cpu = "run" /\ p = current /\ ~MustDie(p)

\* next_pid is above every pid in use, until it wraps to 0.
PidsBelow == \A p \in Slots : state[p] # "UNUSED" /\ nextPid # 0 => pid[p] < nextPid

LifeInv == /\ TypeInv /\ OneRuns /\ Active(InitProc) /\ parent[InitProc] = Null
           /\ IdleSlots /\ ParentActive /\ UserRuns
           /\ BuildingHasBuilder /\ NoLostExit /\ WaiterHasChild
           /\ PidsBelow /\ UniquePids

LEMMA InitLifeInv == Init => LifeInv
<1>. SUFFICES ASSUME Init PROVE LifeInv
  OBVIOUS
<1>1. TypeInv /\ InitProc \in Slots
  BY InitTypeInv, SlotFacts
<1>2. PidsBelow /\ UniquePids
  <2>1. nextPid # 0 => 1 < nextPid
    BY ProcAssumption, SMT DEF Init
  <2>. QED  BY <2>1 DEF Init, PidsBelow, UniquePids
<1>3. /\ OneRuns /\ Active(InitProc) /\ parent[InitProc] = Null /\ IdleSlots /\ ParentActive
      /\ BuildingHasBuilder /\ NoLostExit /\ WaiterHasChild
  BY <1>1 DEF Init, OneRuns, Active, IdleSlots, ParentActive,
     BuildingHasBuilder, NoLostExit, WaiterHasChild, Zombies, Children
<1>4. UserRuns
  BY DEF Init, UserRuns
<1>. QED  BY <1>1, <1>2, <1>3, <1>4 DEF LifeInv

-----------------------------------------------------------------------------
(***************************************************************************)
(* Most steps leave the family tree alone: the running process goes on,    *)
(* yields or goes to sleep, and others are woken.                          *)
(***************************************************************************)
Moves ==
    /\ UNCHANGED <<parent, pid, child, nextPid, current>>
    /\ \A p \in Slots : (cpu = "run" => p # current) =>
          /\ pc'[p] = pc[p] /\ channel'[p] = channel[p]
          /\ state'[p] = state[p] \/ (state[p] = "SLEEPING" /\ state'[p] = "READY")
    /\ cpu = "sched" => cpu' = "sched"
    /\ cpu = "run" =>
          /\ \/ state'[current] = "RUNING" /\ cpu' = "run"
             \/ state'[current] = "READY" /\ cpu' = "sched"
             \/ /\ state'[current] = "SLEEPING" /\ cpu' = "sched"
                /\ channel'[current] = current => Zombies(current) = {}
          /\ pc'[current] = "copy" <=> pc[current] = "copy"
          /\ pc'[current] = "user" => cpu' = "run" /\ ~MustDie(current) /\ killed' = killed
          /\ pc'[current] = "rewait" => Children(current) # {}

LEMMA MovesLife ==
    ASSUME LifeInv, TypeInv', Moves
    PROVE  LifeInv'
<1>1. TypeOK /\ (cpu = "run" => current \in Slots) /\ InitProc \in Slots
  BY SlotFacts DEF LifeInv, TypeInv, CurrentSet
<1>2. \A p \in Slots : /\ state'[p] = "UNUSED" <=> state[p] = "UNUSED"
                       /\ state'[p] = "ZOMBIE" <=> state[p] = "ZOMBIE"
                       /\ state'[p] = "BUILDING" <=> state[p] = "BUILDING"
                       /\ Active(p)' <=> Active(p)
  BY <1>1 DEF LifeInv, Moves, OneRuns, Active, TypeOK
<1>3. \A p \in Slots : Children(p)' = Children(p) /\ Zombies(p)' = Zombies(p)
  BY <1>2 DEF Moves, Children, Zombies
<1>4. OneRuns'
  BY <1>1, SMT DEF LifeInv, Moves, OneRuns, TypeOK
<1>5. Active(InitProc)' /\ (parent[InitProc] = Null)' /\ ParentActive'
  BY <1>1, <1>2 DEF LifeInv, Moves, ParentActive
<1>6. IdleSlots'
  BY <1>1, <1>2 DEF LifeInv, Moves, IdleSlots, Active, OneRuns
<1>7. UserRuns'
  BY <1>1 DEF LifeInv, Moves, UserRuns, MustDie
<1>8. BuildingHasBuilder'
  BY <1>1, <1>2, SMT DEF LifeInv, Moves, BuildingHasBuilder
<1>9. NoLostExit' /\ WaiterHasChild'
  BY <1>1, <1>3 DEF LifeInv, Moves, NoLostExit, WaiterHasChild
<1>10. PidsBelow' /\ UniquePids'
  BY <1>2 DEF LifeInv, Moves, PidsBelow, UniquePids
<1>. QED  BY <1>4, <1>5, <1>6, <1>7, <1>8, <1>9, <1>10 DEF LifeInv

\* The steps of the running process that end at label l without giving up the CPU.
LEMMA ReturnMoves ==
    ASSUME LifeInv, NEW l, NEW m, At(l), l # "copy", Goto(current, m), m # "copy", m # "rewait",
           m = "user" => ~MustDie(current),
           UNCHANGED <<procVars, child, current, cpu, nextPid>>
    PROVE  Moves
<1>1. cpu = "run" /\ pc[current] # "copy" /\ current \in Slots /\ state[current] = "RUNING"
  BY DEF At, LifeInv, TypeInv, CurrentSet, OneRuns
<1>. QED  BY <1>1 DEF Goto, Moves, procVars, LifeInv, TypeInv, TypeOK

LEMMA QuietMoves ==
    ASSUME LifeInv,
           \/ KernelVector \/ KernelBrk \/ KernelEpilogue
           \/ \E wake, expired \in BOOLEAN : KernelIrq(wake, expired)
           \/ SysIO \/ SysWrite \/ ForkFails \/ ForkPanics \/ ForkCopy \/ ExitPanics \/ SysOpen
           \/ WaitBadPointer \/ WaitSleeps \/ WaitFails \/ KillHits \/ KillMisses
           \/ SbrkGrows \/ SbrkFails \/ SbrkShrinks \/ Halted \/ UNCHANGED vars
    PROVE  Moves
<1>. USE DEF procVars, ctlVars
<1>0. TypeOK /\ OneRuns /\ CurrentSet
  BY DEF LifeInv, TypeInv
<1>1. CASE KernelVector
  BY <1>0, <1>1 DEF KernelVector, Woken, Moves, TypeOK, OneRuns, CurrentSet, WaiterHasChild
<1>2. CASE KernelBrk
  <2>1. PICK call \in Calls : Goto(current, IF MustDie(current) THEN "exit" ELSE call)
    BY <1>2 DEF KernelBrk
  <2>2. call \notin {"copy", "rewait", "user"}
    BY ProcAssumption DEF Syscalls
  <2>. QED  BY <1>2, <2>1, <2>2, ReturnMoves DEF KernelBrk
<1>3. CASE KernelEpilogue
  BY <1>3, ReturnMoves DEF KernelEpilogue
<1>4. ASSUME NEW wake \in BOOLEAN, NEW expired \in BOOLEAN, KernelIrq(wake, expired)
      PROVE  Moves
  <2>1. CASE MustDie(current)
    BY <1>4, <2>1, ReturnMoves DEF KernelIrq
  <2>2. CASE ~MustDie(current)
    <3>1. PICK st \in {state, Woken(state, channel, {IO})} :
             /\ state' = IF expired THEN [st EXCEPT ![current] = "READY"] ELSE st
             /\ cpu' = IF expired THEN "sched" ELSE cpu
             /\ pc' = [pc EXCEPT ![current] = "epilogue"]
      BY <1>4, <2>2 DEF KernelIrq, Goto
    <3>2. cpu = "run" /\ current \in Slots /\ pc[current] = "user"
      BY <1>0, <1>4 DEF KernelIrq, At, CurrentSet
    <3>3. /\ DOMAIN st = Slots /\ st[current] = "RUNING"
          /\ \A p \in Slots : st[p] = state[p] \/ (state[p] = "SLEEPING" /\ st[p] = "READY")
      BY <1>0, <3>2 DEF Woken, TypeOK, OneRuns
    <3>4. UNCHANGED <<parent, pid, child, nextPid, current, killed, channel>>
      BY <1>4 DEF KernelIrq
    <3>. QED  BY <1>0, <3>1, <3>2, <3>3, <3>4 DEF Moves, TypeOK
  <2>. QED  BY <2>1, <2>2
<1>5. CASE SysIO
  <2>1. CASE Return /\ UNCHANGED <<state, channel>>
    BY <1>5, <2>1, ReturnMoves DEF SysIO, Return
  <2>2. CASE Sleep(current, IO) /\ UNCHANGED <<pc, seg, child, current, rr>>
    BY <1>0, <1>5, <2>2, ProcAssumption, SMT
    DEF SysIO, At, Sleep, Moves, TypeOK, CurrentSet
  <2>. QED  BY <1>5, <2>1, <2>2 DEF SysIO
<1>6. CASE SysWrite
  <2>1. CASE Return /\ UNCHANGED state
    BY <1>6, <2>1, ReturnMoves DEF SysWrite, Return
  <2>2. CASE Yield(current) /\ UNCHANGED <<pc, seg, child, current, rr>>
    BY <1>0, <1>6, <2>2 DEF SysWrite, At, Yield, Moves, TypeOK, CurrentSet
  <2>. QED  BY <1>6, <2>1, <2>2 DEF SysWrite
<1>7. CASE ForkCopy
  BY <1>0, <1>7 DEF ForkCopy, At, Yield, Moves, TypeOK, CurrentSet
<1>8. CASE WaitSleeps
  <2>1. cpu = "run" /\ current \in Slots /\ Children(current) # {} /\ Zombies(current) = {}
    BY <1>0, <1>8 DEF WaitSleeps, At, CurrentSet, LifeInv, WaiterHasChild
  <2>. QED  BY <1>0, <1>8, <2>1 DEF WaitSleeps, At, Sleep, Goto, Moves, TypeOK
<1>9. CASE KillHits
  <2>1. cpu = "run" /\ current \in Slots /\ pc[current] = "kill" /\ state[current] = "RUNING"
    BY <1>0, <1>9 DEF KillHits, At, CurrentSet, OneRuns
  <2>2. \A p \in Slots : state'[p] = state[p] \/ (state[p] = "SLEEPING" /\ state'[p] = "READY")
    BY <1>0, <1>9, SMT DEF KillHits, TypeOK
  <2>3. /\ UNCHANGED <<parent, pid, child, nextPid, current, channel, cpu>>
        /\ pc' = [pc EXCEPT ![current] = "epilogue"]
    BY <1>9 DEF KillHits, Return, Goto
  <2>. QED  BY <1>0, <2>1, <2>2, <2>3 DEF Moves, TypeOK
<1>10. CASE ForkFails \/ WaitBadPointer \/ WaitFails \/ KillMisses
  BY <1>10, ReturnMoves DEF ForkFails, WaitBadPointer, WaitFails, KillMisses, Return
<1>11. CASE SbrkGrows \/ SbrkFails \/ SbrkShrinks
  BY <1>11, ReturnMoves DEF SbrkGrows, SbrkFails, SbrkShrinks, Return
<1>12. CASE ForkPanics \/ ExitPanics \/ SysOpen \/ Halted \/ UNCHANGED vars
  <2>1. UNCHANGED <<procVars, ctlVars, nextPid>>
    BY <1>12 DEF ForkPanics, ExitPanics, SysOpen, Halted, vars
  <2>. QED  BY <1>0, <2>1 DEF Moves, OneRuns, CurrentSet, LifeInv, WaiterHasChild, UserRuns
<1>. QED
  BY <1>1, <1>2, <1>3, <1>4, <1>5, <1>6, <1>7, <1>8, <1>9, <1>10, <1>11, <1>12

-----------------------------------------------------------------------------
(***************************************************************************)
(* The steps that switch to a process, make one, or bury one.              *)
(***************************************************************************)
LEMMA DispatchLife == ASSUME LifeInv, TypeInv', Dispatch PROVE LifeInv'
<1>0. TypeOK /\ InitProc \in Slots
  BY SlotFacts DEF LifeInv, TypeInv
<1>1. PICK p \in Slots : /\ state[p] \in {"READY", "NEW"}
                         /\ state' = [state EXCEPT ![p] = "RUNING"]
                         /\ channel' = [channel EXCEPT ![p] = Null]
                         /\ current' = p
  BY DEF Dispatch, IsNext, Runnable
<1>2. /\ cpu = "sched" /\ cpu' = "run"
      /\ UNCHANGED <<parent, pid, killed, pc, child, nextPid>>
  BY DEF Dispatch
<1>3. \A q \in Slots : /\ state'[q] = "UNUSED" <=> state[q] = "UNUSED"
                       /\ state'[q] = "ZOMBIE" <=> state[q] = "ZOMBIE"
                       /\ state'[q] = "BUILDING" <=> state[q] = "BUILDING"
                       /\ Active(q)' <=> Active(q)
  BY <1>0, <1>1 DEF Active, TypeOK
<1>4. \A q \in Slots : Children(q)' = Children(q) /\ Zombies(q)' = Zombies(q)
  BY <1>2, <1>3 DEF Children, Zombies
<1>5. OneRuns'
  BY <1>0, <1>1, <1>2 DEF LifeInv, OneRuns, TypeOK
<1>6. Active(InitProc)' /\ (parent[InitProc] = Null)' /\ ParentActive' /\ IdleSlots'
  BY <1>0, <1>2, <1>3 DEF LifeInv, ParentActive, IdleSlots
<1>7. UserRuns'
  BY <1>2 DEF LifeInv, UserRuns
<1>8. BuildingHasBuilder'
  BY <1>2, <1>3, SMT DEF LifeInv, BuildingHasBuilder
<1>9. NoLostExit' /\ WaiterHasChild'
  BY <1>0, <1>1, <1>2, <1>4 DEF LifeInv, NoLostExit, WaiterHasChild, TypeOK
<1>10. PidsBelow' /\ UniquePids'
  BY <1>2, <1>3 DEF LifeInv, PidsBelow, UniquePids
<1>. QED  BY <1>5, <1>6, <1>7, <1>8, <1>9, <1>10 DEF LifeInv

LEMMA ForkStartLife == ASSUME LifeInv, TypeInv', ForkStart PROVE LifeInv'
<1>0. /\ TypeOK /\ InitProc \in Slots /\ current \in Slots
      /\ state[current] = "RUNING" /\ cpu = "run" /\ pc[current] = "fork"
  BY SlotFacts DEF ForkStart, At, LifeInv, TypeInv, CurrentSet, OneRuns
<1>1. PICK c \in Slots :
          /\ state[c] = "UNUSED"
          /\ state' = [state EXCEPT ![c] = "BUILDING", ![current] = "READY"]
          /\ pid' = [pid EXCEPT ![c] = nextPid]
          /\ parent' = [parent EXCEPT ![c] = current]
          /\ channel' = [channel EXCEPT ![c] = channel[current]]
          /\ child' = [child EXCEPT ![current] = c]
  BY DEF ForkStart, IsFirst, Unused
<1>2. /\ cpu' = "sched" /\ pc' = [pc EXCEPT ![current] = "copy"] /\ current' = current
      /\ nextPid # 0 /\ nextPid' = (nextPid + 1) % PIDMOD
  BY DEF ForkStart, Goto, PidsLeft
<1>3. c # current /\ c # InitProc /\ ~Active(c) /\ pc[c] = "none"
  BY <1>0, <1>1 DEF LifeInv, Active, IdleSlots
<1>4. \A q \in Slots : /\ state'[q] = "UNUSED" <=> state[q] = "UNUSED" /\ q # c
                       /\ state'[q] = "ZOMBIE" <=> state[q] = "ZOMBIE"
                       /\ state'[q] = "BUILDING" <=> state[q] = "BUILDING" \/ q = c
                       /\ Active(q)' <=> Active(q)
                       /\ q # c /\ q # current => state'[q] = state[q]
  BY <1>0, <1>1, <1>3 DEF Active, TypeOK
<1>5. \A q \in Slots : Children(q) \subseteq Children(q)' /\ Zombies(q)' = Zombies(q)
  BY <1>0, <1>1, <1>4, SMT DEF Children, Zombies, TypeOK
<1>6. OneRuns'
  BY <1>0, <1>1, <1>2, <1>3 DEF LifeInv, OneRuns, TypeOK
<1>7. Active(InitProc)' /\ (parent[InitProc] = Null)' /\ ParentActive'
  <2>1. \A q \in Slots : parent'[q] = IF q = c THEN current ELSE parent[q]
    BY <1>0, <1>1 DEF TypeOK
  <2>2. Active(current)
    BY <1>0 DEF Active
  <2>3. Active(InitProc)' /\ (parent[InitProc] = Null)'
    BY <1>0, <1>3, <1>4, <2>1 DEF LifeInv
  <2>. QED  BY <1>0, <1>3, <1>4, <2>1, <2>2, <2>3, SMT DEF LifeInv, ParentActive
<1>8. IdleSlots'
  BY <1>0, <1>2, <1>3, <1>4 DEF LifeInv, IdleSlots, Active, TypeOK
<1>9. UserRuns'
  BY <1>0, <1>2 DEF LifeInv, UserRuns, TypeOK
<1>10. BuildingHasBuilder'
  BY <1>0, <1>1, <1>2, <1>3, <1>4, SMTT(30) DEF LifeInv, BuildingHasBuilder, TypeOK
<1>11. NoLostExit'
  BY <1>0, <1>1, <1>4, <1>5, SMT DEF LifeInv, NoLostExit, TypeOK
<1>12. WaiterHasChild'
  BY <1>0, <1>2, <1>5 DEF LifeInv, WaiterHasChild, TypeOK
<1>13. PidsBelow' /\ UniquePids'
  <2>1. nextPid \in Nat /\ PIDMOD \in Nat /\ nextPid < PIDMOD /\ \A q \in Slots : pid[q] \in Nat
    BY <1>0, ProcAssumption, SMT DEF TypeOK, Pids
  <2>2. nextPid' = 0 \/ nextPid' = nextPid + 1
    BY <1>2, <2>1, SMT
  <2>. QED  BY <1>0, <1>1, <1>2, <1>4, <2>1, <2>2, SMTT(30) DEF LifeInv, PidsBelow, UniquePids, TypeOK
<1>. QED  BY <1>6, <1>7, <1>8, <1>9, <1>10, <1>11, <1>12, <1>13 DEF LifeInv

LEMMA ForkDoneLife == ASSUME LifeInv, TypeInv', ForkDone PROVE LifeInv'
<1>. DEFINE c == child[current]
<1>0. /\ TypeOK /\ InitProc \in Slots /\ current \in Slots
      /\ state[current] = "RUNING" /\ cpu = "run" /\ pc[current] = "copy"
  BY SlotFacts DEF ForkDone, At, LifeInv, TypeInv, CurrentSet, OneRuns
<1>1. c \in Slots /\ state[c] = "BUILDING" /\ parent[c] = current /\ c # current /\ c # InitProc
  BY <1>0 DEF LifeInv, BuildingHasBuilder, Active
<1>2. /\ state' = [state EXCEPT ![c] = "NEW"]
      /\ pc' = [pc EXCEPT ![c] = "epilogue", ![current] = "epilogue"]
      /\ child' = [child EXCEPT ![current] = Null]
      /\ UNCHANGED <<channel, parent, pid, killed, current, cpu, nextPid>>
  BY DEF ForkDone
<1>. HIDE DEF c
<1>3. \A q \in Slots : /\ state'[q] = "UNUSED" <=> state[q] = "UNUSED"
                       /\ state'[q] = "ZOMBIE" <=> state[q] = "ZOMBIE"
                       /\ state'[q] = "BUILDING" <=> state[q] = "BUILDING" /\ q # c
                       /\ Active(q)' <=> Active(q) \/ q = c
                       /\ q # c => state'[q] = state[q]
  BY <1>0, <1>1, <1>2 DEF Active, TypeOK
<1>4. \A q \in Slots : Children(q)' = Children(q) /\ Zombies(q)' = Zombies(q)
  BY <1>2, <1>3 DEF Children, Zombies
<1>5. OneRuns'
  BY <1>0, <1>1, <1>2 DEF LifeInv, OneRuns, TypeOK
<1>6. Active(InitProc)' /\ (parent[InitProc] = Null)' /\ ParentActive'
  BY <1>0, <1>1, <1>2, <1>3 DEF LifeInv, ParentActive
<1>7. IdleSlots'
  BY <1>0, <1>1, <1>2, <1>3, SMT DEF LifeInv, IdleSlots, Active, TypeOK
<1>8. UserRuns'
  BY <1>0, <1>2 DEF LifeInv, UserRuns, MustDie, TypeOK
<1>9. BuildingHasBuilder'
  <2>1. pc[c] = "none"
    BY <1>1 DEF LifeInv, IdleSlots, Active
  <2>2. \A p \in Slots : /\ pc'[p] = "copy" <=> pc[p] = "copy" /\ p # current
                         /\ p # current => child'[p] = child[p]
    BY <1>0, <1>1, <1>2, <2>1 DEF TypeOK
  <2>3. \A p \in Slots : pc[p] = "copy" /\ p # current => child[p] # c
    <3>1. \A p \in Slots : pc[p] = "copy" => parent[child[p]] = p
      BY DEF LifeInv, BuildingHasBuilder
    <3>. QED  BY <1>1, <3>1
  <2>4. \A p \in Slots : pc[p] = "copy" /\ child[p] # c => p # current
    BY DEF c
  <2>5. parent' = parent /\ \A q \in Slots : state'[q] = "BUILDING" <=> state[q] = "BUILDING" /\ q # c
    BY <1>2, <1>3
  <2>. QED  BY <2>2, <2>3, <2>4, <2>5, SMT DEF LifeInv, BuildingHasBuilder
<1>10. NoLostExit'
  BY <1>0, <1>1, <1>2, <1>4 DEF LifeInv, NoLostExit, TypeOK
<1>11. WaiterHasChild'
  BY <1>0, <1>2, <1>4 DEF LifeInv, WaiterHasChild, TypeOK
<1>12. PidsBelow' /\ UniquePids'
  BY <1>2, <1>3 DEF LifeInv, PidsBelow, UniquePids
<1>. QED  BY <1>5, <1>6, <1>7, <1>8, <1>9, <1>10, <1>11, <1>12 DEF LifeInv

\* A slot c that is nobody's parent is freed by its own parent.
LEMMA FreeLife ==
    ASSUME LifeInv, TypeInv', NEW c \in Slots,
           cpu = "run", c # current, c # InitProc, state[c] \in {"BUILDING", "ZOMBIE"},
           parent[c] = current, ProcFree(c), Goto(current, "epilogue"),
           UNCHANGED <<channel, current, cpu, nextPid>>,
           \/ state[c] = "ZOMBIE" /\ pc[current] # "copy" /\ child' = child
           \/ /\ pc[current] = "copy" /\ child[current] = c
              /\ child' = [child EXCEPT ![current] = Null]
    PROVE  LifeInv'
<1>0. TypeOK /\ InitProc \in Slots /\ current \in Slots /\ state[current] = "RUNING"
  BY SlotFacts DEF LifeInv, TypeInv, CurrentSet, OneRuns
<1>1. /\ state' = [state EXCEPT ![c] = "UNUSED"]
      /\ parent' = [parent EXCEPT ![c] = Null]
      /\ pid' = [pid EXCEPT ![c] = 0]
      /\ killed' = [killed EXCEPT ![c] = FALSE]
      /\ pc' = [pc EXCEPT ![current] = "epilogue"]
  BY DEF ProcFree, Goto
<1>2. ~Active(c) /\ pc[c] = "none"
  BY DEF LifeInv, IdleSlots, Active
<1>3. \A q \in Slots : /\ state'[q] = "UNUSED" <=> state[q] = "UNUSED" \/ q = c
                       /\ Active(q)' <=> Active(q)
                       /\ q # c => state'[q] = state[q] /\ parent'[q] = parent[q]
  BY <1>0, <1>1 DEF Active, TypeOK
<1>4. \A q \in Slots : /\ q # current => Children(q)' = Children(q)
                       /\ Zombies(q)' \subseteq Zombies(q)
  BY <1>0, <1>1, <1>3, SMT DEF Children, Zombies, TypeOK
<1>5. OneRuns'
  BY <1>0, <1>1 DEF LifeInv, OneRuns, TypeOK
<1>6. Active(InitProc)' /\ (parent[InitProc] = Null)' /\ ParentActive'
  BY <1>0, <1>1, <1>2, <1>3, SMTT(30) DEF LifeInv, ParentActive
<1>7. IdleSlots'
  BY <1>0, <1>1, <1>2, <1>3, SMT DEF LifeInv, IdleSlots, Active, TypeOK
<1>8. UserRuns'
  BY <1>0, <1>1 DEF LifeInv, UserRuns, TypeOK
<1>9. BuildingHasBuilder'
  <2>1. \A p \in Slots : /\ pc'[p] = "copy" <=> pc[p] = "copy" /\ p # current
                         /\ pc'[p] = "copy" => child'[p] = child[p]
    BY <1>0, <1>1 DEF TypeOK
  <2>2. \A p \in Slots : pc[p] = "copy" /\ p # current => child[p] # c
    <3>1. \A p \in Slots : pc[p] = "copy" => parent[child[p]] = p
      BY DEF LifeInv, BuildingHasBuilder
    <3>. QED  BY <3>1
  <2>3. \A p \in Slots : pc[p] = "copy" /\ child[p] # c => p # current
    OBVIOUS
  <2>4. \A q \in Slots : state'[q] = "BUILDING" <=> state[q] = "BUILDING" /\ q # c
    BY <1>0, <1>1 DEF TypeOK
  <2>. QED  BY <1>3, <2>1, <2>2, <2>3, <2>4, SMT DEF LifeInv, BuildingHasBuilder
<1>10. NoLostExit'
  BY <1>0, <1>1, <1>4 DEF LifeInv, NoLostExit, TypeOK
<1>11. WaiterHasChild'
  BY <1>0, <1>1, <1>4, SMTT(30) DEF LifeInv, WaiterHasChild, TypeOK
<1>12. PidsBelow' /\ UniquePids'
  BY <1>0, <1>1, <1>3, SMT DEF LifeInv, PidsBelow, UniquePids, TypeOK
<1>. QED  BY <1>5, <1>6, <1>7, <1>8, <1>9, <1>10, <1>11, <1>12 DEF LifeInv

LEMMA ForkRollbackLife == ASSUME LifeInv, TypeInv', ForkRollback PROVE LifeInv'
<1>1. cpu = "run" /\ pc[current] = "copy" /\ current \in Slots /\ state[current] = "RUNING"
  BY DEF ForkRollback, At, LifeInv, TypeInv, CurrentSet, OneRuns
<1>2. PICK c \in Slots : c = child[current] /\ state[c] = "BUILDING" /\ parent[c] = current
  BY <1>1 DEF LifeInv, BuildingHasBuilder
<1>3. c # current /\ c # InitProc
  BY <1>1, <1>2 DEF LifeInv, Active
<1>4. /\ ProcFree(c) /\ Goto(current, "epilogue") /\ child' = [child EXCEPT ![current] = Null]
      /\ UNCHANGED <<channel, current, cpu, nextPid>>
  BY <1>2 DEF ForkRollback
<1>. QED  BY <1>1, <1>2, <1>3, <1>4, FreeLife

LEMMA WaitReapsLife == ASSUME LifeInv, TypeInv', WaitReaps PROVE LifeInv'
<1>1. cpu = "run" /\ pc[current] # "copy" /\ current \in Slots /\ state[current] = "RUNING"
  BY DEF WaitReaps, At, LifeInv, TypeInv, CurrentSet, OneRuns
<1>2. PICK z \in Slots : state[z] = "ZOMBIE" /\ parent[z] = current /\ ProcFree(z)
  BY DEF WaitReaps, IsFirst, Zombies, Children
<1>3. z # current /\ z # InitProc
  BY <1>1, <1>2 DEF LifeInv, Active
<1>4. Goto(current, "epilogue") /\ child' = child /\ UNCHANGED <<channel, current, cpu, nextPid>>
  BY DEF WaitReaps, Return
<1>. QED  BY <1>1, <1>2, <1>3, <1>4, FreeLife

\* What ExitStates() does to the table.
LEMMA SysExitStates ==
    ASSUME LifeInv, SysExit
    PROVE  /\ state'[current] = "ZOMBIE"
           /\ \A q \in Slots \ {current} :
                 state'[q] = state[q] \/ (state[q] = "SLEEPING" /\ state'[q] = "READY")
           /\ \A q \in Slots \ {current} : channel[q] = parent[current] => state'[q] # "SLEEPING"
           /\ (\E z \in Children(current) : state[z] = "ZOMBIE") =>
                 \A q \in Slots \ {current} : channel[q] = InitProc => state'[q] # "SLEEPING"
<1>0. TypeOK /\ current \in Slots
  BY DEF SysExit, At, LifeInv, TypeInv, CurrentSet
<1>. DEFINE W == Woken(state, channel, {parent[current]})
            st == [W EXCEPT ![current] = "ZOMBIE"]
<1>1. /\ st[current] = "ZOMBIE" /\ DOMAIN st = Slots
      /\ \A q \in Slots \ {current} :
            st[q] = IF state[q] = "SLEEPING" /\ channel[q] = parent[current]
                    THEN "READY" ELSE state[q]
  BY <1>0 DEF Woken, TypeOK
<1>2. state' = IF \E c \in Children(current) : st[c] = "ZOMBIE"
               THEN Woken(st, channel, {InitProc}) ELSE st
  BY DEF SysExit, ExitStates
<1>. HIDE DEF st
<1>3. \A z \in Children(current) : z \in Slots /\ (state[z] = "ZOMBIE" => st[z] = "ZOMBIE")
  BY <1>1 DEF Children
<1>4. CASE \E c \in Children(current) : st[c] = "ZOMBIE"
  BY <1>0, <1>1, <1>2, <1>4 DEF Woken
<1>5. CASE ~\E c \in Children(current) : st[c] = "ZOMBIE"
  BY <1>0, <1>1, <1>2, <1>3, <1>5
<1>. QED  BY <1>4, <1>5

LEMMA SysExitLife == ASSUME LifeInv, TypeInv', SysExit PROVE LifeInv'
<1>0. /\ TypeOK /\ InitProc \in Slots /\ current \in Slots /\ current # InitProc
      /\ state[current] = "RUNING" /\ cpu = "run" /\ pc[current] = "exit"
  BY SlotFacts DEF SysExit, At, LifeInv, TypeInv, CurrentSet, OneRuns
<1>1. /\ cpu' = "sched" /\ pc' = [pc EXCEPT ![current] = "none"]
      /\ parent' = [c \in Slots |-> IF c \in Children(current) THEN InitProc ELSE parent[c]]
      /\ UNCHANGED <<channel, pid, killed, child, current, nextPid>>
  BY DEF SysExit, Goto
<1>2. parent[current] \in Slots /\ parent[current] # current
  BY <1>0 DEF LifeInv, ParentActive
<1>3. /\ state'[current] = "ZOMBIE"
      /\ \A q \in Slots \ {current} :
            state'[q] = state[q] \/ (state[q] = "SLEEPING" /\ state'[q] = "READY")
      /\ \A q \in Slots \ {current} : channel[q] = parent[current] => state'[q] # "SLEEPING"
      /\ (\E z \in Children(current) : state[z] = "ZOMBIE") =>
            \A q \in Slots \ {current} : channel[q] = InitProc => state'[q] # "SLEEPING"
  BY SysExitStates
<1>4. \A q \in Slots : /\ state'[q] = "UNUSED" <=> state[q] = "UNUSED"
                       /\ state'[q] = "ZOMBIE" <=> state[q] = "ZOMBIE" \/ q = current
                       /\ state'[q] = "BUILDING" <=> state[q] = "BUILDING"
                       /\ Active(q)' <=> Active(q) /\ q # current
  BY <1>0, <1>3 DEF Active, TypeOK
<1>5. OneRuns'
  BY <1>0, <1>1, <1>3 DEF LifeInv, OneRuns
<1>6. Active(InitProc)' /\ (parent[InitProc] = Null)'
  BY <1>0, <1>1, <1>4, ProcAssumption DEF LifeInv, Children
<1>7. ParentActive'
  BY <1>0, <1>1, <1>4, <1>6 DEF LifeInv, ParentActive, Children
<1>8. IdleSlots'
  BY <1>0, <1>1, <1>4 DEF LifeInv, IdleSlots, TypeOK
<1>9. UserRuns'
  BY <1>0, <1>1 DEF LifeInv, UserRuns, TypeOK
<1>10. BuildingHasBuilder'
  <2>1. \A p \in Slots : /\ pc'[p] = "copy" <=> pc[p] = "copy"
                         /\ pc[p] = "copy" => p # current
    BY <1>0, <1>1 DEF TypeOK
  <2>2. \A c \in Slots : parent[c] # current => parent'[c] = parent[c]
    BY <1>1 DEF Children
  <2>. QED  BY <1>1, <1>4, <2>1, <2>2, SMT DEF LifeInv, BuildingHasBuilder
<1>11. NoLostExit'
  <2>. SUFFICES ASSUME NEW p \in Slots, state'[p] = "SLEEPING", channel'[p] = p,
                       NEW z \in Slots, state'[z] = "ZOMBIE", parent'[z] = p
                PROVE  FALSE
    BY DEF NoLostExit, Zombies, Children
  <2>1. p # current /\ state[p] = "SLEEPING" /\ channel[p] = p
    BY <1>0, <1>1, <1>3
  <2>2. CASE z = current
    BY <1>0, <1>1, <1>2, <1>3, <2>1, <2>2 DEF Children
  <2>3. CASE z # current
    <3>1. state[z] = "ZOMBIE" /\ parent[z] # p
      BY <1>4, <2>1, <2>3 DEF LifeInv, NoLostExit, Zombies, Children
    <3>2. z \in Children(current) /\ p = InitProc
      BY <1>1, <3>1
    <3>. QED  BY <1>3, <2>1, <3>1, <3>2
  <2>. QED  BY <2>2, <2>3
<1>12. WaiterHasChild'
  <2>1. \A p \in Slots \ {current} : Children(p) \subseteq Children(p)'
    BY <1>1, <1>4 DEF Children
  <2>. QED  BY <1>0, <1>1, <2>1 DEF LifeInv, WaiterHasChild, TypeOK
<1>13. PidsBelow' /\ UniquePids'
  BY <1>1, <1>4 DEF LifeInv, PidsBelow, UniquePids
<1>. QED  BY <1>5, <1>6, <1>7, <1>8, <1>9, <1>10, <1>11, <1>12, <1>13 DEF LifeInv

LEMMA NextLifeInv == LifeInv /\ [Next]_vars => LifeInv'
<1>. SUFFICES ASSUME LifeInv, [Next]_vars PROVE LifeInv'
  OBVIOUS
<1>1. TypeInv'
  BY NextTypeInv DEF LifeInv
<1>2. CASE Dispatch \/ ForkStart \/ ForkRollback \/ ForkDone \/ SysExit \/ WaitReaps
  BY <1>1, <1>2, DispatchLife, ForkStartLife, ForkRollbackLife, ForkDoneLife,
     SysExitLife, WaitReapsLife
<1>3. CASE ~(Dispatch \/ ForkStart \/ ForkRollback \/ ForkDone \/ SysExit \/ WaitReaps)
  <2>1. Moves
    BY <1>3, QuietMoves DEF Next, SysCall
  <2>. QED  BY <1>1, <2>1, MovesLife
<1>. QED  BY <1>2, <1>3

LEMMA Life == Spec => []LifeInv
BY InitLifeInv, NextLifeInv, PTL DEF Spec

-----------------------------------------------------------------------------
\* pcb->parent of a process never points to a zombie or to a free slot: sys_exit()
\* hands over all children, for any shape of the family tree.
THEOREM ParentsAreAlive == Spec => []ParentAlive
<1>1. LifeInv => ParentAlive
  BY DEF LifeInv, ParentActive, ParentAlive, Active, Alive
<1>. QED  BY <1>1, Life, PTL

\* No process sleeps in sys_wait() while it has a zombie to reap.
THEOREM ExitsAreSeen == Spec => []NoLostExit
<1>1. LifeInv => NoLostExit
  BY DEF LifeInv
<1>. QED  BY <1>1, Life, PTL

\* The loop of sys_wait() never waits for children that are gone.
THEOREM WaitersHaveChildren == Spec => []WaiterHasChild
<1>1. LifeInv => WaiterHasChild
  BY DEF LifeInv
<1>. QED  BY <1>1, Life, PTL

\* The half-built child of a sys_fork() belongs to that fork alone.
THEOREM BuildersKeepTheirChild == Spec => []BuildingHasBuilder
<1>1. LifeInv => BuildingHasBuilder
  BY DEF LifeInv
<1>. QED  BY <1>1, Life, PTL

\* A killed process never executes another user instruction.
THEOREM KilledNeverInUser == Spec => []NoKilledUser
<1>1. LifeInv => NoKilledUser
  BY DEF LifeInv, UserRuns, NoKilledUser, At, TypeInv, CurrentSet
<1>. QED  BY <1>1, Life, PTL

\* pid_alloc() never hands a pid out twice, up to the panic at the end of the range.
THEOREM PidsAreUnique == Spec => []UniquePids
<1>1. LifeInv => UniquePids
  BY DEF LifeInv
<1>. QED  BY <1>1, Life, PTL

\* Only sys_wait() of its parent ends a zombie.
THEOREM ZombiesWait == Spec => ZombieUntilReaped
<1>. DEFINE Step == \A p \in Slots : state[p] = "ZOMBIE" /\ state'[p] # "ZOMBIE" =>
                       /\ state'[p] = "UNUSED"
                       /\ current = parent[p] /\ pc[current] \in {"wait", "rewait"}
<1>1. LifeInv /\ [Next]_vars => [Step]_vars
  <2>. SUFFICES ASSUME LifeInv, Next, NEW p \in Slots, state[p] = "ZOMBIE", state'[p] # "ZOMBIE"
                PROVE  /\ state'[p] = "UNUSED"
                       /\ current = parent[p] /\ pc[current] \in {"wait", "rewait"}
    OBVIOUS
  <2>0. /\ TypeOK /\ (cpu = "run" => current \in Slots /\ state[current] = "RUNING")
        /\ pc[current] = "copy" /\ cpu = "run" => state[child[current]] = "BUILDING"
    BY DEF LifeInv, TypeInv, CurrentSet, OneRuns, BuildingHasBuilder
  <2>1. ~Moves
    BY <2>0 DEF Moves
  <2>2. ~(Dispatch \/ ForkStart \/ ForkRollback \/ ForkDone \/ SysExit)
    <3>1. ~Dispatch
      BY <2>0 DEF Dispatch, IsNext, Runnable, TypeOK
    <3>2. ~ForkStart
      BY <2>0 DEF ForkStart, At, IsFirst, Unused, TypeOK
    <3>3. ~ForkRollback
      BY <2>0 DEF ForkRollback, At, ProcFree, TypeOK
    <3>4. ~ForkDone
      BY <2>0 DEF ForkDone, At, TypeOK
    <3>5. ~SysExit
      BY <2>0 DEF SysExit, At, ExitStates, Woken, TypeOK
    <3>. QED  BY <3>1, <3>2, <3>3, <3>4, <3>5
  <2>3. WaitReaps
    BY <2>1, <2>2, QuietMoves DEF Next, SysCall
  <2>4. PICK z \in Slots : z \in Zombies(current) /\ ProcFree(z)
    BY <2>3 DEF WaitReaps, IsFirst
  <2>5. z = p
    BY <2>4 DEF ProcFree, LifeInv, TypeInv, TypeOK
  <2>6. state'[p] = "UNUSED" /\ parent[p] = current
    BY <2>4, <2>5 DEF ProcFree, Zombies, Children, LifeInv, TypeInv, TypeOK
  <2>. QED  BY <2>3, <2>6 DEF WaitReaps, At
<1>. QED  BY <1>1, Life, PTL DEF Spec, ZombieUntilReaped

-----------------------------------------------------------------------------
(***************************************************************************)
(* Frames: while no rollback has freed a frame in use, no frame has two    *)
(* uses; while none has dropped a frame, each frame is in the pool or      *)
(* belongs to a process; and while no sbrk has wrapped, a process has      *)
(* frames exactly for the segments up to its top.                          *)
(*                                                                         *)
(* They need to know what a slot without a process still holds and how far *)
(* the copy loop of a sys_fork() has come.  MemInv is the inductive        *)
(* conjunction.                                                            *)
(***************************************************************************)
\* A free slot holds nothing, a zombie only its kernel stack.
Emptied == \A p \in Slots : /\ state[p] = "UNUSED" => kstk[p] = NoFrame
                            /\ state[p] \in {"UNUSED", "ZOMBIE"} => pt[p] = NoPages

\* The child of a sys_fork() has frames for the segments the loop has passed.
Copied == \A p \in Slots : pc[p] = "copy" =>
             /\ Mapped(child[p]) = {s \in Mapped(p) : s < seg[p]}
             /\ top[child[p]] = top[p]

MemInv == /\ LifeInv /\ Emptied /\ Copied
          /\ FramesExclusiveUnlessShared /\ FramesConservedUnlessLeak
          /\ HeapMappedUnlessWrap

-----------------------------------------------------------------------------
(***************************************************************************)
(* Lemmas about the operators.                                             *)
(***************************************************************************)
LEMMA SegmentMonotone ==
    ASSUME NEW t \in 0 .. MEM - 1, NEW u \in 0 .. MEM - 1, t <= u
    PROVE  Segment(t) <= Segment(u)
<1>1. Segment(t) \in Nat /\ Segment(u) \in Nat /\ t \in Nat /\ u \in Nat
  BY SegmentType, MemFacts, SMT DEF Segs
<1>2. CASE t = 0
  BY <1>1, <1>2, SMT DEF Segment
<1>3. CASE t # 0
  <2>. DEFINE d == (t - 1) \div PAGE
              e == (u - 1) \div PAGE
  <2>1. Segment(t) = d /\ Segment(u) = e /\ PAGE \in Nat /\ PAGE > 0
    BY <1>1, <1>3, ProcAssumption, SMT DEF Segment
  <2>2. d \in Nat /\ e \in Nat /\ d * PAGE <= t - 1 /\ u - 1 < (e + 1) * PAGE
    BY <1>1, <1>3, <2>1, SMT
  <2>. HIDE DEF d, e
  <2>3. ASSUME d >= e + 1 PROVE FALSE
    <3>. DEFINE m == d * PAGE
                n == (e + 1) * PAGE
    <3>1. m \in Nat /\ n \in Nat /\ m >= n
      BY <2>1, <2>2, <2>3, SMT
    <3>2. m <= t - 1 /\ u - 1 < n
      BY <2>2
    <3>. HIDE DEF m, n
    <3>. QED  BY <1>1, <3>1, <3>2, SMT
  <2>. QED  BY <2>1, <2>2, <2>3, SMTT(30)
<1>. QED  BY <1>2, <1>3

\* The frames of a slot, one by one.
LEMMA OwnedIs ==
    ASSUME TypeOK, NEW p \in Slots, NEW f
    PROVE  f \in Owned(p) <=> f # NoFrame /\ (f = kstk[p] \/ \E s \in Segs : pt[p][s] = f)
BY DEF Owned, Range, TypeOK

LEMMA OwnedIsPrimed ==
    ASSUME TypeOK', NEW p \in Slots, NEW f
    PROVE  f \in Owned(p)' <=> f # NoFrame /\ (f = kstk'[p] \/ \E s \in Segs : pt'[p][s] = f)
BY DEF Owned, Range, TypeOK

\* The tables of processes, as far as looking into them after an update needs it.
LEMMA Tables ==
    ASSUME TypeOK
    PROVE  /\ DOMAIN pt = Slots /\ DOMAIN top = Slots /\ DOMAIN kstk = Slots
           /\ DOMAIN state = Slots /\ DOMAIN pc = Slots /\ DOMAIN seg = Slots /\ DOMAIN child = Slots
           /\ \A p \in Slots : DOMAIN pt[p] = Segs
BY DEF TypeOK

\* The frames of slot x are all different.
Distinct(x) == /\ \A s \in Segs : pt[x][s] # NoFrame => pt[x][s] # kstk[x]
               /\ \A s, t \in Mapped(x) : pt[x][s] = pt[x][t] => s = t

\* A step that exchanges frames between the pool and one slot.
LEMMA TransferExclusive ==
    ASSUME FramesExclusive, NEW x \in Slots,
           \A q \in Slots \ {x} : pt'[q] = pt[q] /\ kstk'[q] = kstk[q],
           "double" \notin faults', Distinct(x)',
           Owned(x)' \subseteq Owned(x) \cup free, free' \subseteq free \cup Owned(x),
           Owned(x)' \cap free' = {}
    PROVE  FramesExclusive'
<1>1. \A q \in Slots \ {x} : Owned(q)' = Owned(q) /\ Mapped(q)' = Mapped(q)
  BY DEF Owned, Mapped
<1>2. \A q \in Slots \ {x} : Owned(q) \cap Owned(x) = {} /\ Owned(q) \cap free = {}
  BY DEF FramesExclusive
<1>3. \A q \in Slots \ {x} : Owned(q)' \cap Owned(x)' = {} /\ Owned(q)' \cap free' = {}
  BY <1>1, <1>2, SMTT(30)
<1>4. \A p, q \in Slots : p # q => Owned(p)' \cap Owned(q)' = {}
  BY <1>1, <1>3, SMT DEF FramesExclusive
<1>5. \A q \in Slots : Owned(q)' \cap free' = {}
  BY <1>3
<1>6. \A q \in Slots : Distinct(q)'
  BY <1>1, SMT DEF FramesExclusive, Distinct
<1>. QED  BY <1>4, <1>5, <1>6 DEF FramesExclusive, Distinct

LEMMA TransferConserved ==
    ASSUME TypeOK', FramesConserved, NEW x \in Slots,
           \A q \in Slots \ {x} : pt'[q] = pt[q] /\ kstk'[q] = kstk[q],
           free \cup Owned(x) \subseteq free' \cup Owned(x)'
    PROVE  FramesConserved'
<1>1. \A q \in Slots \ {x} : Owned(q)' = Owned(q)
  BY DEF Owned
<1>2. free' \subseteq Frames /\ \A q \in Slots : Owned(q)' \subseteq Frames
  BY OwnedIsPrimed, SMTT(30) DEF TypeOK
<1>3. ASSUME NEW f \in Frames
      PROVE  f \in free' \/ \E q \in Slots : f \in Owned(q)'
  <2>1. f \in free \/ \E q \in Slots : f \in Owned(q)
    BY DEF FramesConserved
  <2>. QED  BY <1>1, <2>1
<1>. QED  BY <1>2, <1>3 DEF FramesConserved

-----------------------------------------------------------------------------
(***************************************************************************)
(* The first state, and the steps that touch no frame.                     *)
(***************************************************************************)
LEMMA InitMemInv == Init => MemInv
<1>. SUFFICES ASSUME Init PROVE MemInv
  OBVIOUS
<1>0. LifeInv /\ TypeOK /\ InitProc \in Slots /\ 0 \in Segs
  BY InitLifeInv, SlotFacts, MemFacts DEF LifeInv, TypeInv
<1>1. PICK k \in Frames, f \in Frames :
          /\ k # f
          /\ kstk = [p \in Slots |-> IF p = InitProc THEN k ELSE NoFrame]
          /\ pt = [p \in Slots |->
                      IF p = InitProc THEN [NoPages EXCEPT ![0] = f] ELSE NoPages]
          /\ free = Frames \ {k, f}
  BY DEF Init
<1>2. NoFrame # k /\ NoFrame # f
  BY ProcAssumption
<1>3. /\ kstk[InitProc] = k
      /\ \A s \in Segs : pt[InitProc][s] = IF s = 0 THEN f ELSE NoFrame
      /\ \A p \in Slots \ {InitProc} : kstk[p] = NoFrame /\ pt[p] = NoPages
      /\ \A p \in Slots \ {InitProc}, s \in Segs : pt[p][s] = NoFrame
  BY <1>0, <1>1 DEF NoPages
<1>4. Owned(InitProc) = {k, f} /\ \A p \in Slots \ {InitProc} : Owned(p) = {}
  BY <1>0, <1>2, <1>3, OwnedIs, SMT
<1>5. Mapped(InitProc) = {0} /\ \A p \in Slots \ {InitProc} : Mapped(p) = {}
  BY <1>0, <1>2, <1>3 DEF Mapped
<1>6. Emptied /\ Copied
  BY <1>3 DEF Init, Emptied, Copied
<1>7. FramesExclusive
  BY <1>0, <1>1, <1>2, <1>3, <1>4, <1>5, SMTT(30) DEF FramesExclusive, Init
<1>8. FramesConserved
  BY <1>0, <1>1, <1>4, SMT DEF FramesConserved
<1>9. HeapMapped
  <2>1. Segment(INITTOP) = 0
    <3>1. INITTOP - 1 \in 0 .. PAGE - 1 /\ PAGE \in Nat \ {0} /\ INITTOP # 0
      BY ProcAssumption, SMT
    <3>2. (INITTOP - 1) \div PAGE = 0
      BY <3>1, SMT
    <3>. QED  BY <3>1, <3>2 DEF Segment
  <2>2. top[InitProc] = INITTOP /\ \A p \in Slots \ {InitProc} : ~Alive(p)
    BY <1>0 DEF Init, Alive
  <2>3. 0 .. 0 = {0}
    BY SMT
  <2>. QED  BY <1>5, <2>1, <2>2, <2>3 DEF HeapMapped
<1>. QED  BY <1>0, <1>6, <1>7, <1>8, <1>9
          DEF MemInv, FramesExclusiveUnlessShared, FramesConservedUnlessLeak, HeapMappedUnlessWrap

LEMMA FramesKept ==
    ASSUME MemInv, UNCHANGED <<pt, kstk, free, faults>>
    PROVE  FramesExclusiveUnlessShared' /\ FramesConservedUnlessLeak'
<1>1. \A q \in Slots : Owned(q)' = Owned(q) /\ Mapped(q)' = Mapped(q)
  BY DEF Owned, Mapped
<1>2. FramesExclusive => FramesExclusive'
  BY <1>1, SMTT(30) DEF FramesExclusive
<1>3. FramesConserved => FramesConserved'
  <2>. SUFFICES ASSUME FramesConserved
                PROVE  Frames = free' \cup UNION {Owned(q)' : q \in Slots}
    BY DEF FramesConserved
  <2>1. \A f : (\E q \in Slots : f \in Owned(q)') <=> (\E q \in Slots : f \in Owned(q))
    BY <1>1
  <2>2. \A f : f \in UNION {Owned(q)' : q \in Slots} <=> f \in UNION {Owned(q) : q \in Slots}
    BY <2>1
  <2>. QED  BY <2>2 DEF FramesConserved
<1>. QED  BY <1>2, <1>3 DEF MemInv, FramesExclusiveUnlessShared, FramesConservedUnlessLeak

LEMMA QuietMem ==
    ASSUME MemInv, LifeInv', UNCHANGED memVars,
           \A p \in Slots : /\ state'[p] = "UNUSED" <=> state[p] = "UNUSED"
                            /\ state'[p] = "ZOMBIE" <=> state[p] = "ZOMBIE"
                            /\ state'[p] = "BUILDING" <=> state[p] = "BUILDING"
                            /\ pc'[p] = "copy" => /\ pc[p] = "copy"
                                                  /\ child'[p] = child[p] /\ seg'[p] = seg[p]
    PROVE  MemInv'
<1>1. UNCHANGED <<pt, top, kstk, free, faults>>
  BY DEF memVars
<1>2. Emptied'
  BY <1>1 DEF MemInv, Emptied
<1>3. Copied'
  BY <1>1, SMT DEF MemInv, Copied, Mapped
<1>4. FramesExclusiveUnlessShared' /\ FramesConservedUnlessLeak'
  BY <1>1, FramesKept
<1>5. HeapMappedUnlessWrap'
  BY <1>1 DEF MemInv, HeapMappedUnlessWrap, HeapMapped, Mapped, Alive
<1>. QED  BY <1>2, <1>3, <1>4, <1>5 DEF MemInv

\* The slots a step of Moves may change.
LEMMA MovesStates ==
    ASSUME LifeInv, Moves
    PROVE  /\ \A p \in Slots : /\ state'[p] = "UNUSED" <=> state[p] = "UNUSED"
                               /\ state'[p] = "ZOMBIE" <=> state[p] = "ZOMBIE"
                               /\ state'[p] = "BUILDING" <=> state[p] = "BUILDING"
                               /\ pc'[p] = "copy" <=> pc[p] = "copy"
           /\ child' = child
BY DEF LifeInv, TypeInv, CurrentSet, Moves, OneRuns, TypeOK

LEMMA QuietSteps ==
    ASSUME MemInv, LifeInv',
           \/ KernelVector \/ KernelBrk \/ KernelEpilogue
           \/ \E wake, expired \in BOOLEAN : KernelIrq(wake, expired)
           \/ SysIO \/ SysWrite \/ ForkFails \/ ForkPanics \/ ExitPanics \/ SysOpen
           \/ WaitBadPointer \/ WaitSleeps \/ WaitFails \/ KillHits \/ KillMisses
           \/ Halted \/ UNCHANGED vars
    PROVE  MemInv'
<1>1. Moves
  BY QuietMoves DEF MemInv
<1>2. UNCHANGED memVars /\ seg' = seg
  BY DEF KernelVector, KernelBrk, KernelEpilogue, KernelIrq, SysIO, SysWrite, ForkFails,
         ForkPanics, ExitPanics, SysOpen, WaitBadPointer, WaitSleeps, WaitFails, KillHits,
         KillMisses, Halted, Return, vars, ctlVars
<1>. QED  BY <1>1, <1>2, MovesStates, QuietMem DEF MemInv

LEMMA DispatchMem == ASSUME MemInv, LifeInv', Dispatch PROVE MemInv'
<1>1. PICK p \in Slots : /\ state[p] \in {"READY", "NEW"}
                         /\ state' = [state EXCEPT ![p] = "RUNING"]
  BY DEF Dispatch, IsNext, Runnable
<1>2. UNCHANGED <<memVars, pc, seg, child>>
  BY DEF Dispatch
<1>3. \A q \in Slots : /\ state'[q] = "UNUSED" <=> state[q] = "UNUSED"
                       /\ state'[q] = "ZOMBIE" <=> state[q] = "ZOMBIE"
                       /\ state'[q] = "BUILDING" <=> state[q] = "BUILDING"
  BY <1>1 DEF MemInv, LifeInv, TypeInv, TypeOK
<1>. QED  BY <1>2, <1>3, QuietMem

-----------------------------------------------------------------------------
(***************************************************************************)
(* The steps that move frames.                                             *)
(***************************************************************************)
LEMMA Transfer ==
    ASSUME MemInv, TypeOK', ~Stopped, NEW x \in Slots,
           \A q \in Slots \ {x} : pt'[q] = pt[q] /\ kstk'[q] = kstk[q],
           faults \subseteq faults',
           "shared" \notin faults' => /\ "double" \notin faults' /\ Distinct(x)'
                                      /\ Owned(x)' \subseteq Owned(x) \cup free
                                      /\ free' \subseteq free \cup Owned(x)
                                      /\ Owned(x)' \cap free' = {},
           faults' \cap {"leak", "shared"} = {} => free \cup Owned(x) \subseteq free' \cup Owned(x)'
    PROVE  FramesExclusiveUnlessShared' /\ FramesConservedUnlessLeak'
<1>1. FramesExclusive
  BY DEF MemInv, Stopped, FramesExclusiveUnlessShared
<1>2. FramesExclusiveUnlessShared'
  BY <1>1, TransferExclusive DEF FramesExclusiveUnlessShared
<1>3. FramesConservedUnlessLeak'
  BY TransferConserved DEF MemInv, FramesConservedUnlessLeak
<1>. QED  BY <1>2, <1>3

\* What FramesExclusive says of one slot.
LEMMA Exclusive ==
    ASSUME MemInv, ~Stopped, NEW p \in Slots
    PROVE  /\ "double" \notin faults /\ "shared" \notin faults /\ Distinct(p)
           /\ Owned(p) \cap free = {} /\ NoFrame \notin free /\ free \subseteq Frames
BY ProcAssumption DEF MemInv, LifeInv, TypeInv, TypeOK, Stopped, FramesExclusiveUnlessShared,
   FramesExclusive, Distinct

\* The running process in a system call other than sys_fork().
LEMMA CallerMem ==
    ASSUME MemInv, NEW l, At(l)
    PROVE  /\ ~Stopped /\ TypeOK /\ LifeInv /\ cpu = "run" /\ pc[current] = l
           /\ current \in Slots /\ state[current] = "RUNING"
           /\ \A p \in Slots : pc[p] = "copy" => child[p] \in Slots /\ state[child[p]] = "BUILDING"
BY DEF MemInv, LifeInv, TypeInv, CurrentSet, At, OneRuns, BuildingHasBuilder

\* sbrk keeps the tables of all others.
LEMMA SbrkOthers ==
    ASSUME MemInv, At("sbrk"), Return, UNCHANGED <<procVars, kstk>>,
           \A q \in Slots \ {current} : pt'[q] = pt[q] /\ top'[q] = top[q]
    PROVE  /\ Emptied' /\ Copied'
           /\ \A q \in Slots \ {current} : Alive(q)' /\ state'[q] # "BUILDING" =>
                 (HeapMapped => Mapped(q)' = 0 .. Segment(top'[q]))
<1>1. /\ TypeOK /\ current \in Slots /\ state[current] = "RUNING"
      /\ \A p \in Slots : pc[p] = "copy" => child[p] \in Slots /\ state[child[p]] = "BUILDING"
  BY CallerMem
<1>2. /\ state' = state /\ kstk' = kstk /\ child' = child /\ seg' = seg
      /\ pc' = [pc EXCEPT ![current] = "epilogue"]
  BY DEF procVars, Return, Goto
<1>3. \A q \in Slots \ {current} : Mapped(q)' = Mapped(q)
  BY DEF Mapped
<1>4. Emptied'
  BY <1>1, <1>2 DEF MemInv, Emptied
<1>5. \A p \in Slots : pc'[p] = "copy" => p # current /\ pc[p] = "copy" /\ child[p] # current
  BY <1>1, <1>2 DEF TypeOK
<1>6. Copied'
  BY <1>1, <1>2, <1>3, <1>5, SMT DEF MemInv, Copied
<1>. QED  BY <1>2, <1>3, <1>4, <1>6 DEF HeapMapped, Alive

\* Intervals of segments.
LEMMA IntervalsJoin ==
    ASSUME NEW a \in Segs, NEW b \in Segs, a <= b, NEW M, M \subseteq Segs,
           \A s \in Segs : s \in M <=> s \in 0 .. a \/ s \in a .. b
    PROVE  M = 0 .. b
<1>1. 0 .. b \subseteq Segs
  BY MemFacts, SMT DEF Segs
<1>2. \A s \in Segs : s \in 0 .. b <=> s \in 0 .. a \/ s \in a .. b
  BY MemFacts, SMT DEF Segs
<1>. QED  BY <1>1, <1>2

LEMMA IntervalsSplit ==
    ASSUME NEW a \in Segs, NEW b \in Segs, a <= b, NEW M, M \subseteq Segs,
           \A s \in Segs : s \in M <=> s \in 0 .. b /\ s \notin a + 1 .. b
    PROVE  M = 0 .. a
<1>1. 0 .. a \subseteq Segs
  BY MemFacts, SMT DEF Segs
<1>2. \A s \in Segs : s \in 0 .. a <=> s \in 0 .. b /\ s \notin a + 1 .. b
  BY MemFacts, SMT DEF Segs
<1>. QED  BY <1>1, <1>2

\* The tops around an sbrk that does not wrap.
LEMMA SbrkTops ==
    ASSUME NEW t \in 0 .. MEM - 1, NEW inc \in Increments, Wraps(t, inc) = {}
    PROVE  /\ NewTop(t, inc) \in 0 .. MEM - 1
           /\ inc >= 0 => Segment(t) <= Segment(NewTop(t, inc))
           /\ inc <= 0 => Segment(NewTop(t, inc)) <= Segment(t)
           /\ Segment(t) \in Segs /\ Segment(NewTop(t, inc)) \in Segs
<1>1. MEM \in Nat \ {0} /\ inc \in Int /\ t \in Nat /\ t + inc \in 0 .. MEM - 1
  BY MemFacts, SMT DEF Increments, Wraps
<1>2. NewTop(t, inc) = t + inc
  <2>. DEFINE n == t + inc
  <2>1. n \in 0 .. MEM - 1
    BY <1>1
  <2>. HIDE DEF n
  <2>2. n % MEM = n
    BY <1>1, <2>1, SMT
  <2>. QED  BY <2>2 DEF NewTop, n
<1>3. (inc >= 0 => t <= t + inc) /\ (inc <= 0 => t + inc <= t)
  BY <1>1, SMT
<1>. QED  BY <1>1, <1>2, <1>3, SegmentMonotone, SegmentType

LEMMA SbrkGrowsMem == ASSUME MemInv, LifeInv', SbrkGrows PROVE MemInv'
<1>0. /\ ~Stopped /\ TypeOK /\ TypeOK' /\ At("sbrk")
      /\ current \in Slots /\ state[current] = "RUNING"
  BY CallerMem DEF SbrkGrows, LifeInv, TypeInv
<1>1. PICK x \in Slots : x = current
  BY <1>0
<1>2. PICK inc \in Increments : \E g \in Injection(Missing(x, inc), free) :
          /\ inc > 0
          /\ pt' = [pt EXCEPT ![x] =
                       [s \in Segs |-> IF s \in Missing(x, inc) THEN g[s] ELSE @[s]]]
          /\ free' = free \ Range(g)
          /\ top' = [top EXCEPT ![x] = NewTop(@, inc)]
          /\ faults' = faults \cup Wraps(top[x], inc)
  BY <1>1 DEF SbrkGrows
<1>3. PICK g \in Injection(Missing(x, inc), free) :
          /\ inc > 0
          /\ pt' = [pt EXCEPT ![x] =
                       [s \in Segs |-> IF s \in Missing(x, inc) THEN g[s] ELSE @[s]]]
          /\ free' = free \ Range(g)
          /\ top' = [top EXCEPT ![x] = NewTop(@, inc)]
          /\ faults' = faults \cup Wraps(top[x], inc)
  BY <1>2
<1>. DEFINE need == Missing(x, inc)
<1>4. need \subseteq Segs /\ \A s \in need : pt[x][s] = NoFrame
  BY <1>0, SbrkRange DEF Missing
<1>5. /\ DOMAIN g = need /\ \A s \in need : g[s] \in free
      /\ \A s, t \in need : g[s] = g[t] => s = t
  BY DEF Injection, IsInjective
<1>6. \A f : f \in free' <=> f \in free /\ ~\E s \in need : g[s] = f
  BY <1>3, <1>5 DEF Range
<1>7. /\ \A s \in Segs : pt'[x][s] = IF s \in need THEN g[s] ELSE pt[x][s]
      /\ \A q \in Slots \ {x} : pt'[q] = pt[q] /\ top'[q] = top[q]
      /\ top'[x] = NewTop(top[x], inc)
      /\ UNCHANGED <<procVars, kstk>> /\ Return
  BY <1>0, <1>3, Tables DEF SbrkGrows
<1>8. Emptied' /\ Copied'
  BY <1>0, <1>1, <1>7, SbrkOthers
<1>. HIDE DEF need
<1>9. FramesExclusiveUnlessShared' /\ FramesConservedUnlessLeak'
  <2>1. /\ "double" \notin faults /\ Distinct(x) /\ NoFrame \notin free
        /\ Owned(x) \cap free = {} /\ kstk' = kstk
    BY <1>0, <1>7, Exclusive
  <2>2. faults \subseteq faults' /\ "double" \notin faults'
    BY <1>3, <2>1 DEF Wraps
  <2>3. ASSUME NEW f
        PROVE  f \in Owned(x)' <=> f \in Owned(x) \/ \E s \in need : f = g[s]
    <3>1. f \in Owned(x) <=> f # NoFrame /\ (f = kstk[x] \/ \E s \in Segs : pt[x][s] = f)
      BY <1>0, OwnedIs
    <3>2. f \in Owned(x)' <=> f # NoFrame /\ (f = kstk[x] \/ \E s \in Segs : pt'[x][s] = f)
      BY <1>0, <2>1, OwnedIsPrimed
    <3>. QED  BY <1>4, <1>5, <1>7, <2>1, <3>1, <3>2, SMTT(30)
  <2>4. /\ Owned(x)' \subseteq Owned(x) \cup free
        /\ free' \subseteq free \cup Owned(x)
        /\ Owned(x)' \cap free' = {}
        /\ free \cup Owned(x) \subseteq free' \cup Owned(x)'
    BY <1>5, <1>6, <2>1, <2>3, SMTT(30)
  <2>5. Distinct(x)'
    <3>1. \A s \in Segs : pt[x][s] # NoFrame => pt[x][s] \notin free
      BY <1>0, <2>1, OwnedIs
    <3>2. kstk[x] \notin free
      BY <1>0, <2>1, OwnedIs
    <3>. QED  BY <1>4, <1>5, <1>7, <2>1, <3>1, <3>2, SMTT(30) DEF Distinct, Mapped
  <2>. QED  BY <1>0, <1>7, <2>1, <2>2, <2>4, <2>5, Transfer
<1>10. HeapMappedUnlessWrap'
  <2>. SUFFICES ASSUME "wrap" \notin faults' PROVE HeapMapped'
    BY DEF HeapMappedUnlessWrap
  <2>1. Wraps(top[x], inc) = {} /\ HeapMapped
    BY <1>3 DEF Wraps, MemInv, HeapMappedUnlessWrap
  <2>2. top[x] \in 0 .. MEM - 1 /\ inc >= 0 /\ SEGS \in Nat /\ inc \in Int
    BY <1>0, <1>3, MemFacts, SMTT(30) DEF TypeOK, Increments
  <2>3. /\ Segment(top[x]) <= Segment(top'[x])
        /\ Segment(top[x]) \in Segs /\ Segment(top'[x]) \in Segs
    BY <1>7, <2>1, <2>2, SbrkTops
  <2>4. Mapped(x) = 0 .. Segment(top[x])
    BY <1>0, <1>1, <2>1 DEF HeapMapped, Alive
  <2>5. \A s \in Segs : s \in need <=> /\ s \in Segment(top[x]) .. Segment(top'[x])
                                       /\ s \notin Mapped(x)
    BY <1>7 DEF need, Missing, Mapped
  <2>6. \A s \in Segs : s \in Mapped(x)' <=> s \in need \/ s \in Mapped(x)
    <3>1. NoFrame \notin free
      BY <1>0, Exclusive
    <3>. QED  BY <1>5, <1>7, <3>1, SMTT(30) DEF Mapped
  <2>7. Mapped(x)' = 0 .. Segment(top'[x])
    <3>1. \A s \in Segs : s \in Mapped(x)' <=> \/ s \in 0 .. Segment(top[x])
                                               \/ s \in Segment(top[x]) .. Segment(top'[x])
      BY <2>4, <2>5, <2>6
    <3>. QED  BY <2>3, <3>1, IntervalsJoin DEF Mapped
  <2>8. \A q \in Slots \ {x} : Alive(q)' /\ state'[q] # "BUILDING" => Mapped(q)' = 0 .. Segment(top'[q])
    BY <1>0, <1>1, <1>7, <2>1, SbrkOthers
  <2>. QED  BY <2>7, <2>8 DEF HeapMapped
<1>. QED  BY <1>8, <1>9, <1>10 DEF MemInv

LEMMA SbrkShrinksMem == ASSUME MemInv, LifeInv', SbrkShrinks PROVE MemInv'
<1>0. /\ ~Stopped /\ TypeOK /\ TypeOK' /\ At("sbrk")
      /\ current \in Slots /\ state[current] = "RUNING"
  BY CallerMem DEF SbrkShrinks, LifeInv, TypeInv
<1>1. PICK x \in Slots : x = current
  BY <1>0
<1>2. PICK inc \in Increments :
          /\ inc <= 0
          /\ KFree({pt[current][s] : s \in Gone(current, inc)}, Wraps(top[current], inc))
          /\ pt' = [pt EXCEPT ![current] =
                       [s \in Segs |-> IF s \in Gone(current, inc) THEN NoFrame ELSE @[s]]]
          /\ top' = [top EXCEPT ![current] = NewTop(@, inc)]
  BY DEF SbrkShrinks
<1>. DEFINE gone == Gone(current, inc)
<1>3. gone \subseteq Segs
  BY <1>0, SbrkRange
<1>4. /\ \A s \in Segs : pt'[x][s] = IF s \in gone THEN NoFrame ELSE pt[x][s]
      /\ \A q \in Slots \ {x} : pt'[q] = pt[q] /\ top'[q] = top[q]
      /\ top'[x] = NewTop(top[x], inc)
      /\ UNCHANGED <<procVars, kstk>> /\ Return
  BY <1>0, <1>1, <1>2, Tables DEF SbrkShrinks
<1>5. Emptied' /\ Copied'
  BY <1>0, <1>1, <1>4, SbrkOthers
<1>6. /\ free' = free \cup ({pt[current][s] : s \in gone} \ {NoFrame})
      /\ faults' = faults \cup Wraps(top[current], inc) \cup DoubleFree({pt[current][s] : s \in gone})
  BY <1>2 DEF KFree
<1>. HIDE DEF gone
<1>7. FramesExclusiveUnlessShared' /\ FramesConservedUnlessLeak'
  <2>1. /\ "double" \notin faults /\ Distinct(x) /\ NoFrame \notin free
        /\ Owned(x) \cap free = {} /\ kstk' = kstk
    BY <1>0, <1>4, Exclusive
  <2>2. \A s \in Segs : pt[x][s] # NoFrame => pt[x][s] \in Owned(x) /\ pt[x][s] \notin free
    BY <1>0, <2>1, OwnedIs
  <2>3. faults \subseteq faults' /\ "double" \notin faults'
    BY <1>1, <1>3, <1>6, <2>1, <2>2 DEF Wraps, DoubleFree
  <2>4. \A f : f \in free' <=> f \in free \/ (f # NoFrame /\ \E s \in gone : f = pt[x][s])
    BY <1>1, <1>6, <2>1
  <2>5. ASSUME NEW f
        PROVE  f \in Owned(x)' <=> f \in Owned(x) /\ ~\E s \in gone : f = pt[x][s]
    <3>1. f \in Owned(x) <=> f # NoFrame /\ (f = kstk[x] \/ \E s \in Segs : pt[x][s] = f)
      BY <1>0, OwnedIs
    <3>2. f \in Owned(x)' <=> f # NoFrame /\ (f = kstk[x] \/ \E s \in Segs : pt'[x][s] = f)
      BY <1>0, <2>1, OwnedIsPrimed
    <3>3. /\ \A s \in Segs : pt[x][s] # NoFrame => pt[x][s] # kstk[x]
          /\ \A s, t \in Segs : pt[x][s] # NoFrame /\ pt[x][s] = pt[x][t] => s = t
      BY <2>1 DEF Distinct, Mapped
    <3>. QED  BY <1>3, <1>4, <3>1, <3>2, <3>3, SMTT(30)
  <2>6. /\ Owned(x)' \subseteq Owned(x) \cup free
        /\ free' \subseteq free \cup Owned(x)
        /\ Owned(x)' \cap free' = {}
        /\ free \cup Owned(x) \subseteq free' \cup Owned(x)'
    <3>1. \A f \in Owned(x) : f # NoFrame /\ f \notin free
      BY <1>0, <2>1, OwnedIs
    <3>. QED  BY <1>3, <2>2, <2>4, <2>5, <3>1
  <2>7. Distinct(x)'
    BY <1>4, <2>1, SMT DEF Distinct, Mapped
  <2>. QED  BY <1>0, <1>4, <2>1, <2>3, <2>6, <2>7, Transfer
<1>8. HeapMappedUnlessWrap'
  <2>. SUFFICES ASSUME "wrap" \notin faults' PROVE HeapMapped'
    BY DEF HeapMappedUnlessWrap
  <2>1. Wraps(top[x], inc) = {} /\ HeapMapped
    BY <1>1, <1>6 DEF Wraps, MemInv, HeapMappedUnlessWrap
  <2>2. top[x] \in 0 .. MEM - 1
    BY <1>0 DEF TypeOK
  <2>3. /\ Segment(top'[x]) <= Segment(top[x])
        /\ Segment(top[x]) \in Segs /\ Segment(top'[x]) \in Segs
    BY <1>2, <1>4, <2>1, <2>2, SbrkTops
  <2>4. Mapped(x) = 0 .. Segment(top[x])
    BY <1>0, <1>1, <2>1 DEF HeapMapped, Alive
  <2>5. \A s \in Segs : s \in Mapped(x)' <=> s \in Mapped(x) /\ s \notin gone
    BY <1>4 DEF Mapped
  <2>6. gone = Segment(top'[x]) + 1 .. Segment(top[x])
    BY <1>1, <1>4 DEF gone, Gone
  <2>7. Mapped(x)' = 0 .. Segment(top'[x])
    BY <2>3, <2>4, <2>5, <2>6, IntervalsSplit DEF Mapped
  <2>8. \A q \in Slots \ {x} : Alive(q)' /\ state'[q] # "BUILDING" => Mapped(q)' = 0 .. Segment(top'[q])
    BY <1>0, <1>1, <1>4, <2>1, SbrkOthers
  <2>. QED  BY <2>7, <2>8 DEF HeapMapped
<1>. QED  BY <1>5, <1>7, <1>8 DEF MemInv

LEMMA SbrkFailsMem == ASSUME MemInv, LifeInv', SbrkFails PROVE MemInv'
<1>0. ~Stopped /\ TypeOK /\ TypeOK' /\ At("sbrk") /\ current \in Slots
  BY CallerMem DEF SbrkFails, LifeInv, TypeInv
<1>1. PICK inc \in Increments :
          faults' = faults \cup Wraps(top[current], inc)
                       \cup (IF free' \subseteq free THEN {} ELSE {"shared"})
                       \cup (IF free \subseteq free' THEN {} ELSE {"leak"})
  BY DEF SbrkFails
<1>2. UNCHANGED <<procVars, pt, top, kstk>> /\ Return
  BY DEF SbrkFails
<1>3. Emptied' /\ Copied'
  BY <1>0, <1>2, SbrkOthers
<1>4. FramesExclusiveUnlessShared' /\ FramesConservedUnlessLeak'
  <2>1. PICK x \in Slots : x = current
    BY <1>0
  <2>2. /\ "double" \notin faults /\ "shared" \notin faults
        /\ Distinct(x) /\ Owned(x) \cap free = {}
    BY <1>0, Exclusive
  <2>3. Owned(x)' = Owned(x) /\ Distinct(x)'
    BY <1>2, <2>2 DEF Owned, Distinct, Mapped
  <2>4. /\ faults \subseteq faults' /\ "double" \notin faults'
        /\ "shared" \notin faults' => free' \subseteq free
        /\ "leak" \notin faults' => free \subseteq free'
    BY <1>1, <2>2 DEF Wraps
  <2>. QED  BY <1>0, <1>2, <2>2, <2>3, <2>4, Transfer
<1>5. HeapMappedUnlessWrap'
  <2>1. faults \subseteq faults'
    BY <1>1
  <2>. QED  BY <1>2, <2>1 DEF MemInv, HeapMappedUnlessWrap, HeapMapped, Mapped, Alive, procVars
<1>. QED  BY <1>3, <1>4, <1>5 DEF MemInv

LEMMA SysExitMem == ASSUME MemInv, LifeInv', SysExit PROVE MemInv'
<1>0. /\ ~Stopped /\ TypeOK /\ TypeOK' /\ LifeInv /\ pc[current] = "exit"
      /\ current \in Slots /\ state[current] = "RUNING"
      /\ \A p \in Slots : pc[p] = "copy" => child[p] \in Slots /\ state[child[p]] = "BUILDING"
  BY CallerMem DEF SysExit, LifeInv, TypeInv
<1>1. PICK x \in Slots : x = current
  BY <1>0
<1>2. /\ KFree(Range(pt[current]), {}) /\ pt' = [pt EXCEPT ![current] = NoPages]
      /\ pc' = [pc EXCEPT ![current] = "none"]
      /\ UNCHANGED <<top, kstk, seg, child>>
  BY DEF SysExit, Goto
<1>3. /\ pt'[x] = NoPages /\ \A q \in Slots \ {x} : pt'[q] = pt[q]
      /\ \A s \in Segs : pt'[x][s] = NoFrame
      /\ \A p \in Slots : pc'[p] = "copy" => p # x /\ pc[p] = "copy"
  BY <1>0, <1>1, <1>2 DEF TypeOK, NoPages
<1>4. \A q \in Slots \ {x} : Mapped(q)' = Mapped(q)
  BY <1>3 DEF Mapped
<1>5. \A q \in Slots : /\ state'[q] = "UNUSED" <=> state[q] = "UNUSED"
                       /\ state'[q] = "ZOMBIE" <=> state[q] = "ZOMBIE" \/ q = x
                       /\ state'[q] = "BUILDING" <=> state[q] = "BUILDING"
  BY <1>0, <1>1, SysExitStates
<1>6. Emptied'
  BY <1>2, <1>3, <1>5 DEF MemInv, Emptied
<1>7. Copied'
  <2>1. \A p \in Slots : pc'[p] = "copy" => child[p] \in Slots \ {x}
    BY <1>0, <1>1, <1>3
  <2>. QED  BY <1>2, <1>3, <1>4, <2>1, SMTT(30) DEF MemInv, Copied
<1>8. FramesExclusiveUnlessShared' /\ FramesConservedUnlessLeak'
  <2>1. /\ "double" \notin faults /\ Distinct(x) /\ NoFrame \notin free
        /\ Owned(x) \cap free = {}
    BY <1>0, Exclusive
  <2>2. \A f : f \in Range(pt[current]) <=> \E s \in Segs : f = pt[x][s]
    BY <1>0, <1>1, SMTT(30) DEF Range, TypeOK
  <2>3. \A f : f \in Owned(x) <=> f # NoFrame /\ (f = kstk[x] \/ f \in Range(pt[current]))
    BY <1>0, <2>2, OwnedIs, SMTT(30)
  <2>4. \A f : f \in Owned(x)' <=> f # NoFrame /\ f = kstk[x]
    BY <1>0, <1>2, <1>3, OwnedIsPrimed, SMTT(30)
  <2>5. \A f : f \in free' <=> f \in free \/ (f # NoFrame /\ f \in Range(pt[current]))
    BY <1>2 DEF KFree
  <2>6. faults' = faults
    <3>1. Range(pt[current]) \cap free = {}
      BY <2>1, <2>3
    <3>. QED  BY <1>2, <3>1 DEF KFree, DoubleFree
  <2>7. \A s \in Segs : pt[x][s] # NoFrame => pt[x][s] # kstk[x]
    BY <2>1 DEF Distinct
  <2>8. /\ Owned(x)' \subseteq Owned(x) \cup free
        /\ free' \subseteq free \cup Owned(x)
        /\ Owned(x)' \cap free' = {}
        /\ free \cup Owned(x) \subseteq free' \cup Owned(x)'
    BY <2>1, <2>2, <2>3, <2>4, <2>5, <2>7
  <2>9. Distinct(x)'
    BY <1>3 DEF Distinct, Mapped
  <2>. QED  BY <1>0, <1>2, <1>3, <2>1, <2>6, <2>8, <2>9, Transfer
<1>9. HeapMappedUnlessWrap'
  <2>1. faults \subseteq faults'
    BY <1>2 DEF KFree
  <2>2. \A q \in Slots : Alive(q)' => q # x /\ Alive(q)
    BY <1>5 DEF Alive
  <2>. QED  BY <1>2, <1>4, <1>5, <2>1, <2>2 DEF MemInv, HeapMappedUnlessWrap, HeapMapped
<1>. QED  BY <1>6, <1>7, <1>8, <1>9 DEF MemInv

\* proc_free(c), by sys_wait() or at the end of a failed sys_fork().
LEMMA ProcFreeMem ==
    ASSUME MemInv, LifeInv', ~Stopped, NEW c \in Slots, state[c] \in {"ZOMBIE", "BUILDING"},
           ProcFree(c), faults \subseteq faults',
           \A p \in Slots : pc'[p] = "copy" => /\ pc[p] = "copy" /\ child[p] # c
                                               /\ child'[p] = child[p] /\ seg'[p] = seg[p],
           "shared" \notin faults' => /\ "double" \notin faults'
                                      /\ free' \subseteq free \cup Owned(c),
           faults' \cap {"leak", "shared"} = {} => free \cup Owned(c) \subseteq free'
    PROVE  MemInv'
<1>0. TypeOK /\ TypeOK' /\ LifeInv
  BY DEF MemInv, LifeInv, TypeInv
<1>1. /\ state' = [state EXCEPT ![c] = "UNUSED"] /\ kstk' = [kstk EXCEPT ![c] = NoFrame]
      /\ pt' = [pt EXCEPT ![c] = NoPages] /\ top' = [top EXCEPT ![c] = 0]
  BY DEF ProcFree
<1>2. /\ state'[c] = "UNUSED" /\ kstk'[c] = NoFrame /\ pt'[c] = NoPages
      /\ \A s \in Segs : pt'[c][s] = NoFrame
      /\ \A q \in Slots \ {c} : /\ state'[q] = state[q] /\ kstk'[q] = kstk[q]
                                /\ pt'[q] = pt[q] /\ top'[q] = top[q]
  BY <1>0, <1>1, Tables DEF NoPages
<1>3. \A q \in Slots \ {c} : Mapped(q)' = Mapped(q)
  BY <1>2 DEF Mapped
<1>4. Emptied'
  BY <1>2 DEF MemInv, Emptied
<1>5. Copied'
  <2>1. \A p \in Slots : pc[p] = "copy" => p # c /\ child[p] \in Slots
    BY <1>0 DEF LifeInv, IdleSlots, Active, BuildingHasBuilder
  <2>. QED  BY <1>2, <1>3, <2>1, SMTT(30) DEF MemInv, Copied
<1>6. FramesExclusiveUnlessShared' /\ FramesConservedUnlessLeak'
  <2>1. Owned(c)' = {}
    BY <1>0, <1>2, OwnedIsPrimed, SMT
  <2>2. Distinct(c)'
    BY <1>2 DEF Distinct, Mapped
  <2>. QED  BY <1>0, <1>2, <2>1, <2>2, Transfer
<1>7. HeapMappedUnlessWrap'
  BY <1>2, <1>3 DEF MemInv, HeapMappedUnlessWrap, HeapMapped, Alive
<1>. QED  BY <1>4, <1>5, <1>6, <1>7 DEF MemInv

LEMMA WaitReapsMem == ASSUME MemInv, LifeInv', WaitReaps PROVE MemInv'
<1>0. /\ ~Stopped /\ TypeOK /\ LifeInv /\ pc[current] \in {"wait", "rewait"} /\ current \in Slots
      /\ \A p \in Slots : pc[p] = "copy" => state[child[p]] = "BUILDING"
  BY CallerMem DEF WaitReaps
<1>1. PICK z \in Slots : state[z] = "ZOMBIE" /\ KFree({kstk[z]}, {}) /\ ProcFree(z)
  BY DEF WaitReaps, IsFirst, Zombies
<1>2. pc' = [pc EXCEPT ![current] = "epilogue"] /\ UNCHANGED <<seg, child>>
  BY DEF WaitReaps, Return, Goto
<1>3. \A p \in Slots : pc'[p] = "copy" => pc[p] = "copy" /\ child[p] # z
  BY <1>0, <1>1, <1>2 DEF TypeOK
<1>4. \A s \in Segs : pt[z][s] = NoFrame
  BY <1>1 DEF MemInv, Emptied, NoPages
<1>5. \A f : f \in Owned(z) <=> f # NoFrame /\ f = kstk[z]
  BY <1>0, <1>4, OwnedIs, SMTT(30)
<1>6. "double" \notin faults /\ Owned(z) \cap free = {} /\ NoFrame \notin free
  BY <1>0, Exclusive
<1>7. free' = free \cup Owned(z) /\ faults' = faults
  <2>1. kstk[z] \notin free
    BY <1>5, <1>6
  <2>2. Owned(z) = {kstk[z]} \ {NoFrame} /\ {kstk[z]} \cap free = {}
    BY <1>5, <2>1, SMTT(30)
  <2>. QED  BY <1>1, <2>2 DEF KFree, DoubleFree
<1>. QED  BY <1>0, <1>1, <1>2, <1>3, <1>6, <1>7, ProcFreeMem

LEMMA ForkStartMem == ASSUME MemInv, LifeInv', ForkStart PROVE MemInv'
<1>0. /\ ~Stopped /\ TypeOK /\ TypeOK' /\ LifeInv /\ pc[current] = "fork"
      /\ current \in Slots /\ state[current] = "RUNING"
      /\ \A p \in Slots : pc[p] = "copy" => child[p] \in Slots /\ state[child[p]] = "BUILDING"
  BY CallerMem DEF ForkStart, LifeInv, TypeInv
<1>1. PICK c \in Slots, k \in free :
          /\ state[c] = "UNUSED"
          /\ free' = free \ {k}
          /\ kstk' = [kstk EXCEPT ![c] = k]
          /\ state' = [state EXCEPT ![c] = "BUILDING", ![current] = "READY"]
          /\ top' = [top EXCEPT ![c] = top[current]]
          /\ pt' = [pt EXCEPT ![c] = NoPages]
          /\ child' = [child EXCEPT ![current] = c]
  BY DEF ForkStart, IsFirst, Unused
<1>2. pc' = [pc EXCEPT ![current] = "copy"] /\ seg' = [seg EXCEPT ![current] = 0] /\ faults' = faults
  BY DEF ForkStart, Goto
<1>3. c # current /\ pc[c] # "copy" /\ k # NoFrame
  <2>1. ~Active(c) /\ c # current
    BY <1>0, <1>1 DEF Active
  <2>2. pc[c] = "none"
    BY <1>0, <2>1 DEF LifeInv, IdleSlots
  <2>3. k # NoFrame
    BY <1>0, Exclusive
  <2>. QED  BY <2>1, <2>2, <2>3
<1>4. /\ kstk'[c] = k /\ pt'[c] = NoPages /\ top'[c] = top[current]
      /\ \A s \in Segs : pt'[c][s] = NoFrame
      /\ \A q \in Slots \ {c} : kstk'[q] = kstk[q] /\ pt'[q] = pt[q] /\ top'[q] = top[q]
      /\ state'[c] = "BUILDING" /\ state'[current] = "READY"
      /\ \A q \in Slots \ {c, current} : state'[q] = state[q]
  BY <1>0, <1>1, <1>3, Tables, SMTT(30) DEF NoPages
<1>5. /\ child'[current] = c /\ seg'[current] = 0
      /\ \A p \in Slots \ {current} : pc'[p] = pc[p] /\ child'[p] = child[p] /\ seg'[p] = seg[p]
  BY <1>0, <1>1, <1>2, Tables, SMTT(30)
<1>6. Mapped(c)' = {} /\ \A q \in Slots \ {c} : Mapped(q)' = Mapped(q)
  BY <1>4 DEF Mapped
<1>7. Emptied'
  BY <1>0, <1>4, SMTT(30) DEF MemInv, Emptied
<1>8. Copied'
  <2>1. ASSUME NEW p \in Slots, p # current, pc'[p] = "copy"
        PROVE  Mapped(child[p])' = {s \in Mapped(p)' : s < seg'[p]} /\ top'[child'[p]] = top'[p]
    <3>1. pc[p] = "copy" /\ child'[p] = child[p] /\ p # c /\ child[p] \in Slots \ {c}
      BY <1>0, <1>1, <1>3, <1>5, <2>1
    <3>. QED  BY <1>4, <1>5, <1>6, <2>1, <3>1, SMTT(30) DEF MemInv, Copied
  <2>2. {s \in Mapped(current) : s < 0} = {}
    BY MemFacts, SMT DEF Mapped, Segs
  <2>. QED  BY <1>3, <1>4, <1>5, <1>6, <2>1, <2>2, SMTT(30) DEF Copied
<1>9. FramesExclusiveUnlessShared' /\ FramesConservedUnlessLeak'
  <2>1. "double" \notin faults /\ Owned(c) \cap free = {}
    BY <1>0, Exclusive
  <2>2. \A f : f \in Owned(c)' <=> f = k
    BY <1>0, <1>3, <1>4, OwnedIsPrimed, SMTT(30)
  <2>3. Owned(c) = {}
    <3>1. kstk[c] = NoFrame /\ \A s \in Segs : pt[c][s] = NoFrame
      BY <1>1 DEF MemInv, Emptied, NoPages
    <3>. QED  BY <1>0, <3>1, OwnedIs, SMTT(30)
  <2>4. Distinct(c)'
    BY <1>4 DEF Distinct, Mapped
  <2>5. /\ Owned(c)' \subseteq Owned(c) \cup free
        /\ free' \subseteq free \cup Owned(c)
        /\ Owned(c)' \cap free' = {}
        /\ free \cup Owned(c) \subseteq free' \cup Owned(c)'
    BY <1>1, <2>2, <2>3
  <2>. QED  BY <1>0, <1>2, <1>4, <2>1, <2>4, <2>5, Transfer
<1>10. HeapMappedUnlessWrap'
  <2>1. \A q \in Slots : Alive(q)' /\ state'[q] # "BUILDING" => q # c /\ Alive(q) /\ state[q] # "BUILDING"
    BY <1>0, <1>4 DEF Alive
  <2>. QED  BY <1>2, <1>4, <1>6, <2>1 DEF MemInv, HeapMappedUnlessWrap, HeapMapped
<1>. QED  BY <1>7, <1>8, <1>9, <1>10 DEF MemInv

\* The running process in the copy loop of sys_fork().
LEMMA CopierMem ==
    ASSUME MemInv, At("copy")
    PROVE  /\ ~Stopped /\ TypeOK /\ LifeInv /\ current \in Slots /\ state[current] = "RUNING"
           /\ child[current] \in Slots /\ child[current] # current
           /\ state[child[current]] = "BUILDING" /\ pc[child[current]] = "none"
           /\ \A p \in Slots : pc[p] = "copy" /\ p # current => child[p] \in Slots \ {child[current]}
           /\ Mapped(child[current]) = {s \in Mapped(current) : s < seg[current]}
           /\ top[child[current]] = top[current]
<1>1. /\ ~Stopped /\ TypeOK /\ LifeInv /\ pc[current] = "copy"
      /\ current \in Slots /\ state[current] = "RUNING"
  BY CallerMem
<1>2. \A p \in Slots : pc[p] = "copy" =>
          child[p] \in Slots /\ state[child[p]] = "BUILDING" /\ parent[child[p]] = p
  BY <1>1 DEF LifeInv, BuildingHasBuilder
<1>3. pc[child[current]] = "none" /\ child[current] # current
  BY <1>1, <1>2 DEF LifeInv, IdleSlots, Active
<1>4. /\ Mapped(child[current]) = {s \in Mapped(current) : s < seg[current]}
      /\ top[child[current]] = top[current]
  BY <1>1 DEF MemInv, Copied
<1>5. \A p \in Slots : pc[p] = "copy" /\ p # current => child[p] # child[current]
  <2>1. parent[child[current]] = current
    BY <1>1, <1>2
  <2>. QED  BY <1>2, <2>1
<1>. QED  BY <1>1, <1>2, <1>3, <1>4, <1>5

LEMMA ForkCopyMem == ASSUME MemInv, LifeInv', ForkCopy PROVE MemInv'
<1>0. TypeOK' /\ At("copy")
  BY DEF ForkCopy, LifeInv, TypeInv
<1>1. PICK c \in Slots, x \in Slots : c = child[current] /\ x = current
  BY <1>0, CopierMem
<1>2. /\ ~Stopped /\ TypeOK /\ LifeInv /\ state[x] = "RUNING" /\ state[c] = "BUILDING" /\ c # x
      /\ pc[c] = "none"
      /\ \A p \in Slots : pc[p] = "copy" /\ p # x => child[p] \in Slots \ {c}
      /\ Mapped(c) = {r \in Mapped(x) : r < seg[x]} /\ top[c] = top[x]
  BY <1>0, <1>1, CopierMem
<1>3. PICK s \in Segs, f \in free :
          /\ IsFirst({r \in Mapped(x) : r >= seg[x]}, s)
          /\ free' = free \ {f}
          /\ pt' = [pt EXCEPT ![c][s] = f]
          /\ seg' = [seg EXCEPT ![x] = s + 1]
  BY <1>1 DEF ForkCopy, ToCopy
<1>4. /\ state' = [state EXCEPT ![x] = "READY"] /\ UNCHANGED <<top, kstk, faults, pc, child>>
  BY <1>1 DEF ForkCopy, Yield
<1>5. /\ \A r \in Segs : pt'[c][r] = IF r = s THEN f ELSE pt[c][r]
      /\ \A q \in Slots \ {c} : pt'[q] = pt[q]
      /\ seg'[x] = s + 1 /\ \A q \in Slots \ {x} : seg'[q] = seg[q] /\ state'[q] = state[q]
      /\ state'[x] = "READY"
  BY <1>2, <1>3, <1>4, Tables
<1>6. /\ f # NoFrame /\ s \in Mapped(x) /\ s \notin Mapped(c) /\ pt[c][s] = NoFrame
      /\ s >= seg[x] /\ \A r \in Mapped(x) : r >= seg[x] => r >= s
  <2>1. s \in Mapped(x) /\ s >= seg[x] /\ \A r \in Mapped(x) : r >= seg[x] => r >= s
    BY <1>3 DEF IsFirst
  <2>2. seg[x] \in Int /\ s \in Int
    BY <1>2, MemFacts, SMTT(30) DEF TypeOK, Segs
  <2>3. ~(s < seg[x])
    BY <2>1, <2>2, SMTT(30)
  <2>4. s \notin Mapped(c)
    BY <1>2, <2>3
  <2>. QED  BY <1>2, <2>1, <2>4, ProcAssumption DEF Mapped, TypeOK
<1>7. \A q \in Slots \ {c} : Mapped(q)' = Mapped(q)
  BY <1>5 DEF Mapped
<1>8. Mapped(c)' = {r \in Mapped(x) : r < s + 1}
  <2>1. \A r \in Segs : r \in Mapped(c)' <=> r \in Mapped(c) \/ r = s
    BY <1>5, <1>6 DEF Mapped
  <2>2. \A r \in Segs : r \in Int
    BY MemFacts, SMTT(30) DEF Segs
  <2>3. \A r \in Mapped(x) : r < s + 1 <=> r < seg[x] \/ r = s
    <3>1. Mapped(x) \subseteq Segs /\ seg[x] \in Int
      BY <1>2, MemFacts, SMTT(30) DEF Mapped, TypeOK
    <3>. QED  BY <1>6, <2>2, <3>1, SMTT(30)
  <2>4. Mapped(c)' \subseteq Segs /\ Mapped(x) \subseteq Segs
    BY DEF Mapped
  <2>. QED  BY <1>2, <1>6, <2>1, <2>3, <2>4
<1>9. Emptied'
  BY <1>2, <1>4, <1>5, SMTT(30) DEF MemInv, Emptied
<1>10. Copied'
  <2>1. ASSUME NEW p \in Slots, p # x, pc[p] = "copy"
        PROVE  Mapped(child[p])' = {r \in Mapped(p)' : r < seg'[p]} /\ top'[child'[p]] = top'[p]
    <3>1. child'[p] = child[p] /\ p # c /\ child[p] \in Slots \ {c}
      BY <1>2, <1>4, <2>1
    <3>. QED  BY <1>4, <1>5, <1>7, <2>1, <3>1, SMTT(30) DEF MemInv, Copied
  <2>2. child'[x] = c
    BY <1>1, <1>4
  <2>. QED  BY <1>2, <1>4, <1>5, <1>7, <1>8, <2>1, <2>2, SMTT(30) DEF Copied
<1>11. FramesExclusiveUnlessShared' /\ FramesConservedUnlessLeak'
  <2>1. "double" \notin faults /\ Distinct(c) /\ Owned(c) \cap free = {}
    BY <1>2, Exclusive
  <2>2. ASSUME NEW g
        PROVE  g \in Owned(c)' <=> g \in Owned(c) \/ g = f
    <3>1. g \in Owned(c) <=> g # NoFrame /\ (g = kstk[c] \/ \E r \in Segs : pt[c][r] = g)
      BY <1>2, OwnedIs
    <3>2. g \in Owned(c)' <=> g # NoFrame /\ (g = kstk[c] \/ \E r \in Segs : pt'[c][r] = g)
      BY <1>0, <1>4, OwnedIsPrimed
    <3>. QED  BY <1>5, <1>6, <3>1, <3>2
  <2>3. Distinct(c)'
    <3>1. \A r \in Segs : pt[c][r] # f
      BY <1>2, <1>6, <2>1, OwnedIs
    <3>2. kstk[c] # f
      BY <1>2, <1>6, <2>1, OwnedIs
    <3>. QED  BY <1>4, <1>5, <2>1, <3>1, <3>2, SMTT(30) DEF Distinct, Mapped
  <2>. QED  BY <1>0, <1>2, <1>3, <1>4, <1>5, <2>1, <2>2, <2>3, Transfer
<1>12. HeapMappedUnlessWrap'
  <2>1. \A q \in Slots : Alive(q)' /\ state'[q] # "BUILDING" => q # c /\ Alive(q) /\ state[q] # "BUILDING"
    BY <1>2, <1>5 DEF Alive
  <2>. QED  BY <1>4, <1>7, <2>1 DEF MemInv, HeapMappedUnlessWrap, HeapMapped
<1>. QED  BY <1>9, <1>10, <1>11, <1>12 DEF MemInv

LEMMA ForkRollbackMem == ASSUME MemInv, LifeInv', ForkRollback PROVE MemInv'
<1>0. At("copy") /\ free = {}
  BY DEF ForkRollback
<1>1. PICK c \in Slots, x \in Slots : c = child[current] /\ x = current
  BY <1>0, CopierMem
<1>2. /\ ~Stopped /\ TypeOK /\ state[c] = "BUILDING"
      /\ \A p \in Slots : pc[p] = "copy" /\ p # x => child[p] \in Slots \ {c}
      /\ Mapped(c) = {r \in Mapped(x) : r < seg[x]}
  BY <1>0, <1>1, CopierMem
<1>. DEFINE Rest == {pt[child[current]][r] : r \in Segs \ {0}}
<1>3. PICK s \in Segs, junk \in SUBSET Frames :
          /\ IsFirst(ToCopy, s)
          /\ s # 0 => junk = {}
          /\ KFree(Rest \cup junk \cup {kstk[child[current]]},
                   IF s # 0 THEN {"leak"} ELSE IF junk = {} THEN {} ELSE {"shared"})
          /\ ProcFree(child[current])
  BY DEF ForkRollback
<1>4. /\ child' = [child EXCEPT ![x] = Null] /\ seg' = [seg EXCEPT ![x] = 0]
      /\ pc' = [pc EXCEPT ![x] = "epilogue"]
  BY <1>1 DEF ForkRollback, Goto
<1>5. \A p \in Slots : pc'[p] = "copy" => /\ pc[p] = "copy" /\ child[p] # c
                                          /\ child'[p] = child[p] /\ seg'[p] = seg[p]
  BY <1>2, <1>4 DEF TypeOK
<1>6. \A f : f \in Rest <=> \E r \in Segs \ {0} : f = pt[c][r]
  BY <1>1
<1>. HIDE DEF Rest
<1>7. /\ free' = (Rest \cup junk \cup {kstk[c]}) \ {NoFrame}
      /\ faults' = faults \cup (IF s # 0 THEN {"leak"} ELSE IF junk = {} THEN {} ELSE {"shared"})
  BY <1>0, <1>1, <1>3 DEF KFree, DoubleFree
<1>8. faults \subseteq faults' /\ "double" \notin faults'
  <2>1. "double" \notin faults
    BY <1>2, Exclusive
  <2>. QED  BY <1>7, <2>1
<1>9. "shared" \notin faults' => free' \subseteq free \cup Owned(c)
  <2>. SUFFICES ASSUME "shared" \notin faults' PROVE free' \subseteq Owned(c)
    BY <1>0
  <2>1. junk = {}
    BY <1>3, <1>7
  <2>. QED  BY <1>2, <1>6, <1>7, <2>1, OwnedIs
<1>10. faults' \cap {"leak", "shared"} = {} => free \cup Owned(c) \subseteq free'
  <2>. SUFFICES ASSUME faults' \cap {"leak", "shared"} = {}, NEW f \in Owned(c) PROVE f \in free'
    BY <1>0
  <2>1. s = 0
    BY <1>7
  <2>2. seg[x] <= 0
    BY <1>1, <1>3, <2>1 DEF IsFirst, ToCopy, TypeOK
  <2>3. Mapped(c) = {}
    <3>1. \A r \in Mapped(x) : ~(r < seg[x])
      BY <1>2, <2>2, MemFacts, SMTT(30) DEF Mapped, Segs, TypeOK
    <3>. QED  BY <1>2, <3>1
  <2>4. f = kstk[c] /\ f # NoFrame
    <3>1. \A r \in Segs : pt[c][r] = NoFrame
      BY <2>3 DEF Mapped
    <3>. QED  BY <1>2, <3>1, OwnedIs, SMTT(30)
  <2>. QED  BY <1>7, <2>4
<1>. QED  BY <1>1, <1>2, <1>3, <1>5, <1>8, <1>9, <1>10, ProcFreeMem

LEMMA ForkDoneMem == ASSUME MemInv, LifeInv', ForkDone PROVE MemInv'
<1>0. At("copy") /\ ToCopy = {}
  BY DEF ForkDone
<1>1. PICK c \in Slots, x \in Slots : c = child[current] /\ x = current
  BY <1>0, CopierMem
<1>2. /\ TypeOK /\ state[x] = "RUNING" /\ state[c] = "BUILDING" /\ c # x
      /\ Mapped(c) = {r \in Mapped(x) : r < seg[x]} /\ top[c] = top[x]
  BY <1>0, <1>1, CopierMem
<1>3. /\ state' = [state EXCEPT ![c] = "NEW"]
      /\ pc' = [pc EXCEPT ![c] = "epilogue", ![x] = "epilogue"]
      /\ child' = [child EXCEPT ![x] = Null] /\ seg' = [seg EXCEPT ![x] = 0]
      /\ UNCHANGED <<pt, top, kstk, free, faults>>
  BY <1>1 DEF ForkDone, memVars
<1>4. /\ \A p \in Slots : pc'[p] = "copy" => p # x /\ pc[p] = "copy"
      /\ \A p \in Slots \ {x} : child'[p] = child[p] /\ seg'[p] = seg[p]
      /\ state'[c] = "NEW" /\ \A q \in Slots \ {c} : state'[q] = state[q]
  BY <1>2, <1>3 DEF TypeOK
<1>5. \A q \in Slots : Mapped(q)' = Mapped(q)
  BY <1>3 DEF Mapped
<1>6. Emptied'
  BY <1>3, <1>4, SMTT(30) DEF MemInv, Emptied
<1>7. Copied'
  <2>1. \A p \in Slots : pc[p] = "copy" => child[p] \in Slots
    BY DEF MemInv, LifeInv, TypeInv, ChildSet
  <2>. QED  BY <1>3, <1>4, <1>5, <2>1, SMTT(30) DEF MemInv, Copied
<1>8. FramesExclusiveUnlessShared' /\ FramesConservedUnlessLeak'
  BY <1>3, FramesKept
<1>9. HeapMappedUnlessWrap'
  <2>1. Mapped(c) = Mapped(x)
    <3>1. \A r \in Mapped(x) : r < seg[x]
      BY <1>0, <1>1, <1>2, MemFacts, SMTT(30) DEF ToCopy, Mapped, Segs, TypeOK
    <3>. QED  BY <1>2, <3>1
  <2>2. Alive(x) /\ state[x] # "BUILDING"
    BY <1>2 DEF Alive
  <2>3. ASSUME HeapMapped, NEW q \in Slots, Alive(q)', state'[q] # "BUILDING"
        PROVE  Mapped(q)' = 0 .. Segment(top'[q])
    <3>1. CASE q = c
      BY <1>2, <1>3, <1>5, <2>1, <2>2, <2>3, <3>1 DEF HeapMapped
    <3>2. CASE q # c
      BY <1>3, <1>4, <1>5, <2>3, <3>2 DEF HeapMapped, Alive
    <3>. QED  BY <3>1, <3>2
  <2>. QED  BY <1>3, <2>3 DEF MemInv, HeapMappedUnlessWrap, HeapMapped
<1>. QED  BY <1>6, <1>7, <1>8, <1>9 DEF MemInv

LEMMA NextMemInv == MemInv /\ [Next]_vars => MemInv'
<1>. SUFFICES ASSUME MemInv, [Next]_vars PROVE MemInv'
  OBVIOUS
<1>1. LifeInv'
  BY NextLifeInv DEF MemInv
<1>2. CASE Dispatch \/ ForkStart \/ ForkCopy \/ ForkRollback \/ ForkDone \/ SysExit \/ WaitReaps
           \/ SbrkGrows \/ SbrkFails \/ SbrkShrinks
  BY <1>1, <1>2, DispatchMem, ForkStartMem, ForkCopyMem, ForkRollbackMem, ForkDoneMem,
     SysExitMem, WaitReapsMem, SbrkGrowsMem, SbrkFailsMem, SbrkShrinksMem
<1>3. CASE ~(Dispatch \/ ForkStart \/ ForkCopy \/ ForkRollback \/ ForkDone \/ SysExit \/ WaitReaps
             \/ SbrkGrows \/ SbrkFails \/ SbrkShrinks)
  BY <1>1, <1>3, QuietSteps DEF Next, SysCall
<1>. QED  BY <1>2, <1>3

LEMMA Mem == Spec => []MemInv
BY InitMemInv, NextMemInv, PTL DEF Spec

-----------------------------------------------------------------------------
\* No frame is in two page tables, twice in one, a kernel stack and a page, or in
\* use and in the pool, until a rollback of sys_fork() or sys_sbrk() frees a
\* frame in use; kfree() never sees a free frame.
THEOREM FramesAreExclusive == Spec => []FramesExclusiveUnlessShared
<1>1. MemInv => FramesExclusiveUnlessShared
  BY DEF MemInv
<1>. QED  BY <1>1, Mem, PTL

\* sys_exit(), sys_wait(), sys_fork() and sys_sbrk() together lose no frame, unless
\* one of the two rollbacks drops it.
THEOREM FramesAreConserved == Spec => []FramesConservedUnlessLeak
<1>1. MemInv => FramesConservedUnlessLeak
  BY DEF MemInv
<1>. QED  BY <1>1, Mem, PTL

\* What sys_sbrk() and the copy loop of sys_fork() rely on: the page table of a
\* process that can run has exactly the segments up to its top, until an sbrk
\* wraps around the address space.
THEOREM HeapsAreMapped == Spec => []HeapMappedUnlessWrap
<1>1. MemInv => HeapMappedUnlessWrap
  BY DEF MemInv
<1>. QED  BY <1>1, Mem, PTL
=============================================================================
