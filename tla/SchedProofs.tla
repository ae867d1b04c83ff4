---------------------------- MODULE SchedProofs ----------------------------
(***************************************************************************)
(* Proofs about Sched for every number of slots, every quantum and every   *)
(* width of the tick counter.  The inductive invariant IInv says besides   *)
(* what is to be shown that somebody is current while the scheduler is not *)
(* looking, that the user ticks of the slice and the ticks it has left     *)
(* never exceed the range of the counter (0 left counts as the whole       *)
(* range: the counter wraps), and that no tick is charged in the kernel.   *)
(***************************************************************************)
EXTENDS Sched, TLAPS

\* Zenon proves the leaves that do not say SMT.
USE ZenonT(30)

Left(t) == IF t = 0 THEN TICKMOD ELSE t

IInv == /\ TypeOK
        /\ OneRunning
        /\ cpu # "sched" => current \in Slots
        /\ SliceBound
        /\ cpu = "kernel" => ran = 0
        /\ cpu = "user" => ran + Left(ticks[current]) <= TICKMOD

\* wakeup() only makes sleeping processes READY.
LEMMA WokenByFacts ==
    ASSUME TypeOK, NEW C \in SUBSET Chans
    PROVE  /\ WokenBy(C) \in [Slots -> {"NEW", "READY", "RUNING", "SLEEPING"}]
           /\ \A p \in Slots : \/ WokenBy(C)[p] = state[p]
                               \/ state[p] = "SLEEPING" /\ WokenBy(C)[p] = "READY"
BY DEF WokenBy, Woken, TypeOK

\* The round_robin_index stays in the table.
LEMMA AfterFacts == \A p \in Slots : After(p) \in Slots
BY NAssumption, SMT DEF After, Slots

LEMMA InitIInv == Init => IInv
<1>. SUFFICES ASSUME Init PROVE IInv
  OBVIOUS
<1>1. 0 \in Slots /\ 0 \in 0 .. TICKMOD - 1 /\ 0 <= TICKMOD
  BY NAssumption, TicksAssumption, SMT DEF Slots
<1>. QED  BY <1>1 DEF Init, IInv, TypeOK, OneRunning, SliceBound

LEMMA NextIInv == IInv /\ [Next]_vars => IInv'
<1>. SUFFICES ASSUME IInv, [Next]_vars PROVE IInv'
  OBVIOUS
<1>. USE TicksAssumption
<1>0. TypeOK /\ Null \notin Slots
  BY DEF IInv
<1>1. CASE Dispatch
  <2>1. PICK p \in Slots : /\ state' = [state EXCEPT ![p] = "RUNING"]
                           /\ current' = p /\ rr' = After(p)
                           /\ ticks' = [ticks EXCEPT ![p] = QUANTUM]
                           /\ channel' = [channel EXCEPT ![p] = Null]
    BY <1>1 DEF Dispatch
  <2>2. cpu = "sched" /\ cpu' = "kernel" /\ ran' = 0 /\ pc' = pc
    BY <1>1 DEF Dispatch
  <2>3. TypeOK'
    BY <1>0, <2>1, <2>2, AfterFacts, SMT DEF TypeOK
  <2>4. OneRunning'
    BY <2>1, <2>2, <1>0 DEF IInv, OneRunning, TypeOK
  <2>. QED  BY <2>1, <2>2, <2>3, <2>4, SMT DEF IInv, SliceBound
<1>2. CASE KernelVector
  <2>1. PICK C \in SUBSET Chans : state' = WokenBy(C)
    BY <1>2 DEF KernelVector
  <2>2. UNCHANGED <<channel, ticks, current, rr, cpu, pc, ran>>
    BY <1>2 DEF KernelVector
  <2>. QED  BY <2>1, <2>2, <1>0, WokenByFacts DEF IInv, TypeOK, OneRunning, SliceBound
<1>3. CASE KernelIrqDevice
  <2>1. PICK C \in SUBSET Chans : state' = WokenBy(C)
    BY <1>3 DEF KernelIrqDevice
  <2>2. UNCHANGED <<channel, ticks, current, rr, cpu, pc, ran>>
    BY <1>3 DEF KernelIrqDevice
  <2>. QED  BY <2>1, <2>2, <1>0, WokenByFacts DEF IInv, TypeOK, OneRunning, SliceBound
<1>4. CASE KernelIrqTick
  <2>1. PICK C \in SUBSET Chans : state' = WokenBy(C)
    BY <1>4 DEF KernelIrqTick
  <2>2. /\ cpu = "user" /\ current \in Slots
        /\ Decremented(ticks[current]) # 0
        /\ ticks' = [ticks EXCEPT ![current] = Decremented(ticks[current])]
        /\ ran' = ran + 1
        /\ UNCHANGED <<channel, current, rr, cpu, pc>>
    BY <1>4 DEF KernelIrqTick, IInv
  <2>3. /\ Decremented(ticks[current]) \in 0 .. TICKMOD - 1
        /\ ran' + Left(Decremented(ticks[current])) <= TICKMOD
        /\ ran' \in Nat /\ ran' <= TICKMOD
    BY <2>2, <1>0, SMT DEF IInv, TypeOK, Decremented, Left
  <2>4. TypeOK'
    BY <2>1, <2>2, <2>3, <1>0, WokenByFacts DEF TypeOK
  <2>5. OneRunning'
    BY <2>1, <2>2, <1>0, WokenByFacts DEF IInv, OneRunning, TypeOK
  <2>6. ticks'[current'] = Decremented(ticks[current])
    BY <2>2, <1>0 DEF TypeOK
  <2>. QED  BY <2>2, <2>3, <2>4, <2>5, <2>6 DEF IInv, SliceBound
<1>5. CASE KernelIrqExpire
  <2>1. PICK C \in SUBSET Chans : state' = [WokenBy(C) EXCEPT ![current] = "READY"]
    BY <1>5 DEF KernelIrqExpire
  <2>2. /\ cpu = "user" /\ cpu' = "sched" /\ current \in Slots
        /\ Decremented(ticks[current]) = 0
        /\ ran' = ran + 1
        /\ pc' = [pc EXCEPT ![current] = "irq"]
        /\ UNCHANGED <<channel, ticks, current, rr>>
    BY <1>5 DEF KernelIrqExpire, IInv
  <2>3. ran' \in Nat /\ ran' <= TICKMOD
    BY <2>2, <1>0, SMT DEF IInv, TypeOK, Decremented, Left
  <2>4. TypeOK'
    BY <2>1, <2>2, <2>3, <1>0, WokenByFacts DEF TypeOK
  <2>5. OneRunning'
    BY <2>1, <2>2, <1>0, WokenByFacts DEF IInv, OneRunning, TypeOK
  <2>. QED  BY <2>2, <2>3, <2>4, <2>5 DEF IInv, SliceBound
<1>6. CASE KernelIrqResume
  <2>1. /\ cpu = "kernel" /\ cpu' = "user" /\ current \in Slots /\ ran = 0
        /\ ticks' = [ticks EXCEPT ![current] = 0]
        /\ UNCHANGED <<state, channel, current, rr, pc, ran>>
    BY <1>6 DEF KernelIrqResume, IInv
  <2>2. ticks'[current'] = 0 /\ 0 \in 0 .. TICKMOD - 1
    BY <2>1, <1>0, SMT DEF TypeOK
  <2>3. TypeOK'
    BY <2>1, <2>2, <1>0 DEF TypeOK
  <2>4. OneRunning'
    BY <2>1 DEF IInv, OneRunning
  <2>. QED  BY <2>1, <2>2, <2>3, <2>4, SMT DEF IInv, SliceBound, Left
<1>7. CASE SysYield
  <2>1. /\ cpu # "sched" /\ cpu' = "sched" /\ current \in Slots
        /\ state' = [state EXCEPT ![current] = "READY"]
        /\ pc' = [pc EXCEPT ![current] = "syscall"]
        /\ UNCHANGED <<channel, ticks, current, rr, ran>>
    BY <1>7 DEF SysYield, IInv
  <2>2. TypeOK'
    BY <2>1, <1>0 DEF TypeOK
  <2>3. OneRunning'
    BY <2>1, <1>0 DEF IInv, OneRunning, TypeOK
  <2>. QED  BY <2>1, <2>2, <2>3 DEF IInv, SliceBound
<1>8. ASSUME NEW c \in Chans, SysSleepOn(c) PROVE IInv'
  <2>1. /\ cpu # "sched" /\ cpu' = "sched" /\ current \in Slots
        /\ channel' = [channel EXCEPT ![current] = c]
        /\ state' = [state EXCEPT ![current] = "SLEEPING"]
        /\ pc' = [pc EXCEPT ![current] = "syscall"]
        /\ UNCHANGED <<ticks, current, rr, ran>>
    BY <1>8 DEF SysSleepOn, IInv
  <2>2. TypeOK'
    BY <2>1, <1>0 DEF TypeOK
  <2>3. OneRunning'
    BY <2>1, <1>0 DEF IInv, OneRunning, TypeOK
  <2>. QED  BY <2>1, <2>2, <2>3 DEF IInv, SliceBound
<1>9. CASE ReturnFromTrap
  <2>1. /\ cpu = "kernel" /\ cpu' = "user" /\ current \in Slots /\ ran = 0
        /\ UNCHANGED <<state, channel, ticks, current, rr, pc, ran>>
    BY <1>9 DEF ReturnFromTrap, IInv
  <2>2. ran + Left(ticks[current]) <= TICKMOD
    BY <2>1, <1>0, SMT DEF TypeOK, Left
  <2>3. TypeOK'
    BY <2>1, <1>0 DEF TypeOK
  <2>4. OneRunning'
    BY <2>1 DEF IInv, OneRunning
  <2>. QED  BY <2>1, <2>2, <2>3, <2>4 DEF IInv, SliceBound
<1>10. CASE UNCHANGED vars
  BY <1>10 DEF IInv, TypeOK, OneRunning, SliceBound, Left, vars
<1>. QED  BY <1>1, <1>2, <1>3, <1>4, <1>5, <1>6, <1>7, <1>8, <1>9, <1>10 DEF Next

LEMMA Inductive == Spec => []IInv
BY InitIInv, NextIInv, PTL DEF Spec

\* Every variable of the scheduler keeps its type, the uint8_t ticks included.
THEOREM TypeCorrect == Spec => []TypeOK
<1>1. IInv => TypeOK
  BY DEF IInv
<1>. QED  BY <1>1, Inductive, PTL

\* One process at most has the CPU, and it is current_process.
THEOREM OneHasTheCpu == Spec => []OneRunning
<1>1. IInv => OneRunning
  BY DEF IInv
<1>. QED  BY <1>1, Inductive, PTL

\* kernel_irq() preempts every process after at most TICKMOD user ticks, in spite
\* of the 0 it stores when it comes back from yield().
THEOREM SlicesAreBounded == Spec => []SliceBound
<1>1. IInv => SliceBound
  BY DEF IInv
<1>. QED  BY <1>1, Inductive, PTL

\* When the scan that starts at rr stops at p, every slot q it would have reached
\* later is nearer to where the next scan starts.
LEMMA ScanAdvances ==
    ASSUME NEW r \in Slots, NEW p \in Slots, NEW q \in Slots, p # q,
           Distance(r, p) <= Distance(r, q)
    PROVE  Distance(After(p), q) < Distance(r, q)
BY NAssumption, SMT DEF Slots, Distance, After

\* Round robin: a dispatch brings every other waiting process nearer to the front
\* of scheduler()'s scan, for any size of the table.
THEOREM RoundRobin == Spec => WaitersAdvance
<1>. DEFINE Step == cpu = "sched" /\ cpu' # "sched" =>
                       \A q \in Runnable(state) :
                          q # current' => Distance(rr', q) < Distance(rr, q)
<1>1. IInv /\ [Next]_vars => [Step]_vars
  <2>. SUFFICES ASSUME IInv, Next, cpu = "sched", cpu' # "sched",
                       NEW q \in Runnable(state), q # current'
                PROVE  Distance(rr', q) < Distance(rr, q)
    OBVIOUS
  <2>1. Dispatch
    BY DEF Next, KernelVector, KernelIrqDevice, KernelIrqTick, KernelIrqExpire,
           KernelIrqResume, SysYield, SysSleepOn, ReturnFromTrap
  <2>2. PICK p \in Slots : IsNext(state, rr, p) /\ current' = p /\ rr' = After(p)
    BY <2>1 DEF Dispatch
  <2>3. rr \in Slots /\ q \in Slots /\ Distance(rr, p) <= Distance(rr, q)
    BY <2>2 DEF IInv, TypeOK, IsNext, Runnable
  <2>. QED  BY <2>2, <2>3, ScanAdvances
<1>. QED  BY <1>1, Inductive, PTL DEF Spec, WaitersAdvance

-----------------------------------------------------------------------------
(***************************************************************************)
(* The safety part of the refinement: every step of the scheduler is a     *)
(* step of SchedAbs or none.  (That the fairness assumed implies the       *)
(* promise of progress is left to TLC.)                                    *)
(***************************************************************************)
Phases == [p \in Slots |-> Phase(state[p])]

\* What ImplementsSchedAbs says without the promise of progress.
SafeSchedAbs == Abs!Init /\ [][Abs!Next]_Phases

\* A wakeup() of devices is a Wake step of the abstract scheduler.
LEMMA WokenPhases ==
    ASSUME TypeOK, NEW C \in SUBSET Chans
    PROVE  \E S \in SUBSET Abs!Blocked : \A p \in Slots :
              Phase(WokenBy(C)[p]) = IF p \in S THEN "ready" ELSE Phase(state[p])
<1>. DEFINE S == {p \in Slots : state[p] = "SLEEPING" /\ WokenBy(C)[p] = "READY"}
<1>1. \A p \in S : Phase(state[p]) = "blocked"
  BY DEF Phase
<1>2. S \in SUBSET Abs!Blocked
  BY <1>1 DEF Abs!Blocked
<1>3. \A p \in Slots : Phase(WokenBy(C)[p]) = IF p \in S THEN "ready" ELSE Phase(state[p])
  BY WokenByFacts DEF Phase, TypeOK
<1>. QED  BY <1>2, <1>3

\* The scheduler implements what SchedAbs says a step may do: a process is granted
\* the CPU only when it is ready and nobody has it, gives it up by waiting or by
\* blocking, and leaves the blocked processes only by a wakeup.
THEOREM RefinesSchedAbs == Spec => SafeSchedAbs
<1>1. Init => Abs!Init
  BY DEF Init, Abs!Init, Phase
<1>2. IInv /\ [Next]_vars => [Abs!Next]_Phases
  <2>. SUFFICES ASSUME IInv, [Next]_vars PROVE [Abs!Next]_Phases
    OBVIOUS
  <2>0. TypeOK /\ OneRunning
    BY DEF IInv
  <2>1. CASE Dispatch
    <3>1. PICK p \in Slots : IsNext(state, rr, p) /\ state' = [state EXCEPT ![p] = "RUNING"]
      BY <2>1 DEF Dispatch
    <3>2. Phase(state[p]) = "ready" /\ \A q \in Slots : Phase(state[q]) # "run"
      BY <2>0, <2>1, <3>1 DEF Dispatch, OneRunning, IsNext, Runnable, Phase, TypeOK
    <3>3. Phases' = [Phases EXCEPT ![p] = "run"]
      BY <3>1, <2>0 DEF Phases, Phase, TypeOK
    <3>4. Abs!Grant(p)
      BY <3>2, <3>3 DEF Abs!Grant, Phases
    <3>. QED  BY <3>4 DEF Abs!Next
  <2>2. ASSUME NEW C \in SUBSET Chans, state' = WokenBy(C) PROVE Abs!Next
    <3>1. PICK S \in SUBSET Abs!Blocked : \A p \in Slots :
             Phase(state'[p]) = IF p \in S THEN "ready" ELSE Phase(state[p])
      BY <2>0, <2>2, WokenPhases
    <3>2. Abs!Wake(S)
      BY <3>1 DEF Abs!Wake
    <3>. QED  BY <3>1, <3>2 DEF Abs!Next
  <2>3. CASE KernelVector \/ KernelIrqDevice \/ KernelIrqTick
    BY <2>2, <2>3 DEF KernelVector, KernelIrqDevice, KernelIrqTick
  <2>4. ASSUME NEW S \in SUBSET Abs!Blocked, NEW to \in {"ready", "blocked"},
               cpu # "sched",
               \A p \in Slots : Phase(state'[p]) = IF p = current THEN to
                                                   ELSE IF p \in S THEN "ready"
                                                   ELSE Phase(state[p])
        PROVE  Abs!Next
    <3>1. current \in Slots /\ Phase(state[current]) = "run"
      BY <2>0, <2>4 DEF IInv, OneRunning, Phase
    <3>2. Abs!Release(current, S, to)
      BY <3>1, <2>4 DEF Abs!Release
    <3>. QED  BY <3>1, <3>2 DEF Abs!Next
  <2>5. CASE KernelIrqExpire
    <3>1. PICK C \in SUBSET Chans : state' = [WokenBy(C) EXCEPT ![current] = "READY"]
      BY <2>5 DEF KernelIrqExpire
    <3>2. PICK S \in SUBSET Abs!Blocked : \A p \in Slots :
             Phase(WokenBy(C)[p]) = IF p \in S THEN "ready" ELSE Phase(state[p])
      BY <2>0, WokenPhases
    <3>3. \A p \in Slots : Phase(state'[p]) = IF p = current THEN "ready"
                                               ELSE IF p \in S THEN "ready"
                                               ELSE Phase(state[p])
      BY <3>1, <3>2, <2>0, WokenByFacts, SMT DEF Phase
    <3>. QED  BY <3>3, <2>4, <2>5 DEF KernelIrqExpire
  <2>6. CASE SysYield
    <3>1. \A p \in Slots : Phase(state'[p]) = IF p = current THEN "ready"
                                               ELSE IF p \in {} THEN "ready"
                                               ELSE Phase(state[p])
      BY <2>6, <2>0 DEF SysYield, Phase, TypeOK
    <3>2. {} \in SUBSET Abs!Blocked /\ cpu # "sched"
      BY <2>6 DEF SysYield
    <3>. QED  BY <3>1, <3>2, <2>4
  <2>7. ASSUME NEW c \in Chans, SysSleepOn(c) PROVE Abs!Next
    <3>1. \A p \in Slots : Phase(state'[p]) = IF p = current THEN "blocked"
                                               ELSE IF p \in {} THEN "ready"
                                               ELSE Phase(state[p])
      BY <2>7, <2>0 DEF SysSleepOn, Phase, TypeOK
    <3>2. {} \in SUBSET Abs!Blocked /\ cpu # "sched"
      BY <2>7 DEF SysSleepOn
    <3>. QED  BY <3>1, <3>2, <2>4
  <2>8. CASE KernelIrqResume \/ ReturnFromTrap \/ UNCHANGED vars
    <3>1. state' = state
      BY <2>8 DEF KernelIrqResume, ReturnFromTrap, vars
    <3>. QED  BY <3>1 DEF Phases
  <2>. QED  BY <2>1, <2>3, <2>5, <2>6, <2>7, <2>8 DEF Next
<1>. QED  BY <1>1, <1>2, Inductive, PTL DEF Spec, SafeSchedAbs
=============================================================================
