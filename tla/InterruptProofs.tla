-------------------------- MODULE InterruptProofs --------------------------
(***************************************************************************)
(* What the timer interrupt owes sys_sleep() (module SleepTimer), and how  *)
(* interrupts reach their handlers (module Plic).                          *)
(*                                                                         *)
(* SleepTimer, for every number of processes and every width of the clock. *)
(* SleepersCovered is not inductive by itself: a process that goes to      *)
(* sleep when nobody else does relies on next_wakeup_call not being left   *)
(* in the past, which NextAhead adds.  Whoever changes it then (a sleeper, *)
(* the timer) either lowers it to a tick still ahead or wakes everybody.   *)
(* NoEarlyReturn needs what the local total is worth (Deadlines).          *)
(***************************************************************************)
EXTENDS SleepTimer, Plic, TLAPS

\* Zenon proves the leaves that do not say SMT.
USE ZenonT(30)

\* The capped sum of sys_sleep() fits a uint32_t and is not in the past, and it
\* is what was asked for or the end of the clock.
LEMMA DeadlineFacts ==
    ASSUME TypeOK, NEW t \in Requests
    PROVE  /\ Deadline(t) \in 0 .. TMAX
           /\ Deadline(t) >= systicks
           /\ Deadline(t) = systicks + t \/ Deadline(t) = TMAX
<1>1. TMAX \in Nat /\ t \in 0 .. TMAX /\ systicks \in 0 .. TMAX
  BY TimerAssumption DEF TypeOK
<1>. QED  BY <1>1, SMT DEF Deadline

\* Every variable of sys_sleep() and of the timer keeps its type: the uint32_t
\* arithmetic of the deadline stays in range.
THEOREM TypeCorrect == Spec => []TypeOK
<1>1. Init => TypeOK
  <2>. SUFFICES ASSUME Init PROVE TypeOK
    OBVIOUS
  <2>1. 0 \in 0 .. TMAX /\ TMAX \in 0 .. TMAX /\ 0 \in Nat
    BY TimerAssumption, SMT
  <2>. QED  BY <2>1 DEF Init, TypeOK
<1>2. TypeOK /\ [Next]_vars => TypeOK'
  <2>. SUFFICES ASSUME TypeOK, [Next]_vars PROVE TypeOK'
    OBVIOUS
  <2>. USE TimerAssumption
  <2>1. ASSUME NEW p \in Procs, NEW t \in Requests, SysSleep(p, t) PROVE TypeOK'
    <3>1. Deadline(t) \in 0 .. TMAX
      BY DeadlineFacts
    <3>2. systicks + t \in Nat
      BY SMT DEF TypeOK
    <3>. QED  BY <2>1, <3>1, <3>2 DEF SysSleep, Round, TypeOK
  <2>2. ASSUME NEW p \in Procs, Resume(p) PROVE TypeOK'
    BY <2>2 DEF Resume, Round, TypeOK
  <2>3. ASSUME NEW p \in Procs, SysKill(p) PROVE TypeOK'
    BY <2>3 DEF SysKill, TypeOK
  <2>4. CASE TimerPanics
    BY <2>4, SMT DEF TimerPanics, TypeOK
  <2>5. CASE TimerTicks
    BY <2>5, SMT DEF TimerTicks, WakeSleepers, TypeOK
  <2>6. CASE Halted \/ UNCHANGED vars
    BY <2>6 DEF Halted, vars, TypeOK
  <2>. QED  BY <2>1, <2>2, <2>3, <2>4, <2>5, <2>6 DEF Next
<1>. QED  BY <1>1, <1>2, PTL DEF Spec

\* next_wakeup_call is never left in the past.
NextAhead == ~panicked => systicks < next \/ next = TMAX

LEMMA NextStaysAhead == Spec => []NextAhead
<1>1. Init => NextAhead
  BY DEF Init, NextAhead
<1>2. TypeOK /\ NextAhead /\ [Next]_vars => NextAhead'
  <2>. SUFFICES ASSUME TypeOK, NextAhead, [Next]_vars PROVE NextAhead'
    OBVIOUS
  <2>. USE TimerAssumption
  <2>1. ASSUME NEW p \in Procs, NEW t \in Requests, SysSleep(p, t) PROVE NextAhead'
    <3>1. Deadline(t) \in 0 .. TMAX
      BY DeadlineFacts
    <3>. QED  BY <2>1, <3>1, SMT DEF SysSleep, Round, NextAhead, TypeOK
  <2>2. ASSUME NEW p \in Procs, Resume(p) PROVE NextAhead'
    BY <2>2, SMT DEF Resume, Round, NextAhead, TypeOK
  <2>3. ASSUME NEW p \in Procs, SysKill(p) PROVE NextAhead'
    BY <2>3 DEF SysKill, NextAhead
  <2>4. CASE TimerPanics
    BY <2>4 DEF TimerPanics, NextAhead
  <2>5. CASE TimerTicks
    BY <2>5, SMT DEF TimerTicks, NextAhead, TypeOK
  <2>6. CASE Halted \/ UNCHANGED vars
    BY <2>6 DEF Halted, vars, NextAhead
  <2>. QED  BY <2>1, <2>2, <2>3, <2>4, <2>5, <2>6 DEF Next
<1>. QED  BY <1>1, <1>2, TypeCorrect, PTL DEF Spec

\* One round of the loop of sys_sleep(), with the deadline tot, leaves every
\* sleeper covered: those that were, and the one it puts to sleep.
LEMMA RoundCovers ==
    ASSUME TypeOK, NextAhead, SleepersCovered, ~panicked, NEW p \in Procs, NEW tot \in 0 .. TMAX,
           Round(p, tot), systicks' = systicks, total'[p] = tot,
           \A q \in Procs : q # p => total'[q] = total[q]
    PROVE  SleepersCovered'
<1>. SUFFICES ASSUME NEW q \in Procs, st'[q] = "asleep"
              PROVE  systicks < next' /\ next' <= total'[q]
  BY DEF SleepersCovered
<1>. USE TimerAssumption
<1>1. systicks \in Nat /\ next \in Nat /\ total[q] \in Nat /\ tot \in Nat
  BY SMT DEF TypeOK
<1>2. CASE systicks >= tot
  <2>1. q # p /\ st[q] = "asleep" /\ next' = next
    BY <1>2 DEF Round, TypeOK
  <2>. QED  BY <2>1, <1>1 DEF SleepersCovered
<1>3. CASE ~(systicks >= tot)
  <2>1. next' = IF tot < next THEN tot ELSE next
    BY <1>3 DEF Round
  <2>2. CASE q = p
    BY <2>1, <2>2, <1>1, <1>3, SMT DEF NextAhead
  <2>3. CASE q # p
    <3>1. st[q] = "asleep"
      BY <1>3, <2>3 DEF Round, TypeOK
    <3>2. systicks < next /\ next <= total[q]
      BY <3>1 DEF SleepersCovered
    <3>. QED  BY <2>1, <2>3, <3>2, <1>1, <1>3, SMT
  <2>. QED  BY <2>2, <2>3
<1>. QED  BY <1>2, <1>3

\* No sleeper is ever left behind by next_wakeup_call, however many processes
\* sleep, are killed and sleep again, and whatever their deadlines.
THEOREM NobodyOversleeps == Spec => []SleepersCovered
<1>1. Init => SleepersCovered
  BY DEF Init, SleepersCovered
<1>2. TypeOK /\ NextAhead /\ SleepersCovered /\ [Next]_vars => SleepersCovered'
  <2>. SUFFICES ASSUME TypeOK, NextAhead, SleepersCovered, [Next]_vars PROVE SleepersCovered'
    OBVIOUS
  <2>. USE TimerAssumption
  <2>1. ASSUME NEW p \in Procs, NEW t \in Requests, SysSleep(p, t) PROVE SleepersCovered'
    <3>1. Deadline(t) \in 0 .. TMAX
      BY DeadlineFacts
    <3>2. /\ ~panicked /\ Round(p, Deadline(t))
          /\ systicks' = systicks /\ total'[p] = Deadline(t)
          /\ \A q \in Procs : q # p => total'[q] = total[q]
      BY <2>1 DEF SysSleep, TypeOK
    <3>. QED  BY <3>1, <3>2, RoundCovers
  <2>2. ASSUME NEW p \in Procs, Resume(p) PROVE SleepersCovered'
    <3>1. total[p] \in 0 .. TMAX
      BY DEF TypeOK
    <3>. QED  BY <2>2, <3>1, RoundCovers DEF Resume
  <2>3. ASSUME NEW p \in Procs, SysKill(p) PROVE SleepersCovered'
    BY <2>3 DEF SysKill, SleepersCovered, TypeOK
  <2>4. CASE TimerPanics
    BY <2>4 DEF TimerPanics, SleepersCovered
  <2>5. CASE TimerTicks
    <3>1. CASE systicks + 1 >= next
      BY <2>5, <3>1 DEF TimerTicks, WakeSleepers, SleepersCovered, TypeOK
    <3>2. CASE ~(systicks + 1 >= next)
      BY <2>5, <3>2, SMT DEF TimerTicks, SleepersCovered, TypeOK
    <3>. QED  BY <3>1, <3>2
  <2>6. CASE Halted \/ UNCHANGED vars
    BY <2>6 DEF Halted, vars, SleepersCovered
  <2>. QED  BY <2>1, <2>2, <2>3, <2>4, <2>5, <2>6 DEF Next
<1>. QED  BY <1>1, <1>2, TypeCorrect, NextStaysAhead, PTL DEF Spec

\* The local total of a process in sys_sleep() is the tick it asked for, or the
\* end of the clock when that is out of range.
Deadlines == \A p \in Procs : st[p] # "user" => total[p] >= want[p] \/ total[p] = TMAX

LEMMA DeadlinesHold == Spec => []Deadlines
<1>1. Init => Deadlines
  BY DEF Init, Deadlines
<1>2. TypeOK /\ Deadlines /\ [Next]_vars => Deadlines'
  <2>. SUFFICES ASSUME TypeOK, Deadlines, [Next]_vars PROVE Deadlines'
    OBVIOUS
  <2>. USE TimerAssumption
  <2>1. ASSUME NEW p \in Procs, NEW t \in Requests, SysSleep(p, t) PROVE Deadlines'
    <3>1. /\ Deadline(t) \in 0 .. TMAX
          /\ Deadline(t) = systicks + t \/ Deadline(t) = TMAX
      BY DeadlineFacts
    <3>2. systicks + t \in Nat
      BY SMT DEF TypeOK
    <3>. QED  BY <2>1, <3>1, <3>2, SMT DEF SysSleep, Round, Deadlines, TypeOK
  <2>2. ASSUME NEW p \in Procs, Resume(p) PROVE Deadlines'
    BY <2>2 DEF Resume, Round, Deadlines, TypeOK
  <2>3. ASSUME NEW p \in Procs, SysKill(p) PROVE Deadlines'
    BY <2>3 DEF SysKill, Deadlines, TypeOK
  <2>4. CASE TimerPanics \/ Halted \/ UNCHANGED vars
    BY <2>4 DEF TimerPanics, Halted, vars, Deadlines
  <2>5. CASE TimerTicks
    BY <2>5 DEF TimerTicks, WakeSleepers, Deadlines, TypeOK
  <2>. QED  BY <2>1, <2>2, <2>3, <2>4, <2>5 DEF Next
<1>. QED  BY <1>1, <1>2, TypeCorrect, PTL DEF Spec

\* sys_sleep() never returns early, for any number of sleepers that share
\* &systicks and next_wakeup_call.
THEOREM NeverEarly == Spec => NoEarlyReturn
<1>. DEFINE Step == \A p \in Procs : st[p] # "user" /\ st'[p] = "user" =>
                       systicks >= want[p] \/ systicks = TMAX
<1>1. TypeOK /\ Deadlines /\ [Next]_vars => [Step]_vars
  <2>. SUFFICES ASSUME TypeOK, Deadlines, Next, NEW p \in Procs,
                       st[p] # "user", st'[p] = "user"
                PROVE  systicks >= want[p] \/ systicks = TMAX
    OBVIOUS
  <2>. USE TimerAssumption
  <2>1. CASE \E q \in Procs, t \in Requests : SysSleep(q, t)
    BY <2>1 DEF SysSleep, Round, TypeOK
  <2>2. CASE \E q \in Procs : Resume(q)
    BY <2>2, SMT DEF Resume, Round, Deadlines, TypeOK
  <2>3. CASE \E q \in Procs : SysKill(q)
    BY <2>3 DEF SysKill, TypeOK
  <2>4. CASE TimerPanics \/ Halted
    BY <2>4 DEF TimerPanics, Halted, vars
  <2>5. CASE TimerTicks
    BY <2>5 DEF TimerTicks, WakeSleepers, TypeOK
  <2>. QED  BY <2>1, <2>2, <2>3, <2>4, <2>5 DEF Next
<1>. QED  BY <1>1, TypeCorrect, DeadlinesHold, PTL DEF Spec, NoEarlyReturn

-----------------------------------------------------------------------------
(***************************************************************************)
(* Plic, for every list of devices.  LostOnlyInAck needs where each device *)
(* with work stands while a handler runs (WorkKnown), QuietMeansServed     *)
(* where each line that is up stands (LinesRequested).                     *)
(***************************************************************************)

PlicTypeOK ==
    /\ lines \in SUBSET Devices /\ pending \in BOOLEAN /\ work \in SUBSET Devices
    /\ at \in {"run", "which", "ask", "store", "serve"} /\ i \in 1 .. Len(Order)
    /\ which \in SUBSET Devices /\ lost \in SUBSET Devices /\ loaded \in SUBSET Devices

\* A device with work has its line up, has lost it, or is the one whose handler
\* has acknowledged and not yet looked.
WorkKnown == work \subseteq lines \cup lost \cup (IF at = "serve" THEN {Order[i]} ELSE {})

\* The devices that device_interrupt() has still to acknowledge, of the lines it
\* read.
Asked == {Order[j] : j \in {n \in 1 .. Len(Order) : IF at = "serve" THEN n > i ELSE n >= i}}
            \cap which

\* Without a request pending, every line that is up, in the register or in the
\* copy an acknowledgement has of it, is one that device_interrupt() will get to.
LinesRequested ==
    ~pending => CASE at = "run"   -> lines = {}
                  [] at = "which" -> TRUE
                  [] at = "store" -> lines \subseteq Asked /\ loaded \subseteq Asked
                  [] OTHER        -> lines \subseteq Asked

PlicIInv == PlicTypeOK /\ WorkKnown /\ LinesRequested

\* With interrupts enabled and none requested, no device is left with work but
\* those whose line was lost: the CPU does not go on with a device waiting.
QuietMeansServed == at = "run" /\ ~pending => work \subseteq lost

-----------------------------------------------------------------------------
LEMMA OrderFacts == /\ Len(Order) \in Nat \ {0}
                    /\ \A n \in 1 .. Len(Order) : Order[n] \in Devices
  BY OrderAssumption, SMT DEF Devices

LEMMA PlicNextTypeOK == PlicTypeOK /\ [PlicNext]_plicVars => PlicTypeOK'
<1>. SUFFICES ASSUME PlicTypeOK, [PlicNext]_plicVars PROVE PlicTypeOK'
  OBVIOUS
<1>. USE OrderFacts DEF PlicTypeOK
<1>1. ASSUME NEW d \in Devices, PLIC_raise(d) PROVE PlicTypeOK'
  BY <1>1 DEF PLIC_raise
<1>2. CASE TakeIrq
  BY <1>2 DEF TakeIrq
<1>3. CASE ReadLines
  BY <1>3, SMT DEF ReadLines
<1>4. CASE Skip
  BY <1>4, SMT DEF Skip, Advance
<1>5. CASE AckLoad
  BY <1>5 DEF AckLoad
<1>6. CASE AckStore
  BY <1>6 DEF AckStore
<1>7. CASE Serve
  BY <1>7, SMT DEF Serve, Advance
<1>. QED  BY <1>1, <1>2, <1>3, <1>4, <1>5, <1>6, <1>7 DEF PlicNext, plicVars

\* No step loses sight of a device with work: the line an acknowledgement writes
\* down is its own or goes to lost.
LEMMA NextWorkKnown == PlicTypeOK /\ WorkKnown /\ [PlicNext]_plicVars => WorkKnown'
<1>. SUFFICES ASSUME PlicTypeOK, WorkKnown, [PlicNext]_plicVars PROVE WorkKnown'
  OBVIOUS
<1>1. ASSUME NEW d \in Devices, PLIC_raise(d) PROVE WorkKnown'
  BY <1>1 DEF PLIC_raise, WorkKnown
<1>2. CASE TakeIrq \/ ReadLines \/ AckLoad
  BY <1>2 DEF TakeIrq, ReadLines, AckLoad, WorkKnown
<1>3. CASE Skip
  BY <1>3 DEF Skip, Advance, WorkKnown
<1>4. CASE AckStore
  BY <1>4 DEF AckStore, WorkKnown
<1>5. CASE Serve
  BY <1>5 DEF Serve, Advance, WorkKnown
<1>. QED  BY <1>1, <1>2, <1>3, <1>4, <1>5 DEF PlicNext, plicVars, WorkKnown

\* Since the request that device_interrupt() answers was taken, each line that is
\* up was read by it and not yet acknowledged, or requests again.
LEMMA NextLinesRequested == PlicTypeOK /\ LinesRequested /\ [PlicNext]_plicVars => LinesRequested'
<1>. SUFFICES ASSUME PlicTypeOK, LinesRequested, [PlicNext]_plicVars, ~pending' PROVE LinesRequested'
  BY DEF LinesRequested
<1>. USE OrderFacts DEF PlicTypeOK
<1>1. ASSUME NEW d \in Devices, PLIC_raise(d) PROVE LinesRequested'
  BY <1>1 DEF PLIC_raise
<1>2. CASE TakeIrq
  BY <1>2 DEF TakeIrq, LinesRequested
<1>3. CASE ReadLines
  <2>1. lines \subseteq Asked'
    BY <1>3 DEF ReadLines, Asked, Devices
  <2>. QED  BY <1>3, <2>1 DEF ReadLines, LinesRequested
<1>4. CASE Skip
  <2>1. lines \subseteq Asked /\ lines' = lines
    BY <1>4 DEF Skip, LinesRequested
  <2>2. CASE i < Len(Order)
    <3>1. Asked \subseteq Asked'
      BY <1>4, <2>2 DEF Skip, Advance, Asked
    <3>. QED  BY <1>4, <2>1, <2>2, <3>1 DEF Skip, Advance, LinesRequested
  <2>3. CASE ~(i < Len(Order))
    <3>1. Asked = {}
      BY <1>4, <2>3, SMT DEF Skip, Asked
    <3>. QED  BY <1>4, <2>1, <2>3, <3>1 DEF Skip, Advance, LinesRequested
  <2>. QED  BY <2>2, <2>3
<1>5. CASE AckLoad
  <2>1. lines \subseteq Asked /\ Asked' = Asked
    BY <1>5 DEF AckLoad, LinesRequested, Asked
  <2>. QED  BY <1>5, <2>1 DEF AckLoad, LinesRequested
<1>6. CASE AckStore
  <2>1. loaded \subseteq Asked
    BY <1>6 DEF AckStore, LinesRequested
  <2>2. Asked \ {Order[i]} \subseteq Asked'
    BY <1>6 DEF AckStore, Asked
  <2>. QED  BY <1>6, <2>1, <2>2 DEF AckStore, LinesRequested
<1>7. CASE Serve
  <2>1. lines \subseteq Asked /\ lines' = lines
    BY <1>7 DEF Serve, LinesRequested
  <2>2. CASE i < Len(Order)
    <3>1. Asked \subseteq Asked'
      BY <1>7, <2>2 DEF Serve, Advance, Asked
    <3>. QED  BY <1>7, <2>1, <2>2, <3>1 DEF Serve, Advance, LinesRequested
  <2>3. CASE ~(i < Len(Order))
    <3>1. Asked = {}
      BY <1>7, <2>3, SMT DEF Serve, Asked
    <3>. QED  BY <1>7, <2>1, <2>3, <3>1 DEF Serve, Advance, LinesRequested
  <2>. QED  BY <2>2, <2>3
<1>8. CASE UNCHANGED plicVars
  BY <1>8 DEF plicVars, LinesRequested, Asked
<1>. QED  BY <1>1, <1>2, <1>3, <1>4, <1>5, <1>6, <1>7, <1>8 DEF PlicNext

LEMMA PlicInvariance == PlicSpec => []PlicIInv
<1>1. PlicInit => PlicIInv
  <2>1. PlicInit => PlicTypeOK
    <3>. SUFFICES ASSUME PlicInit PROVE PlicTypeOK
      OBVIOUS
    <3>1. i \in 1 .. Len(Order)
      BY OrderFacts, SMT DEF PlicInit
    <3>2. pending \in BOOLEAN /\ at = "run"
      BY DEF PlicInit
    <3>. QED  BY <3>1, <3>2 DEF PlicInit, PlicTypeOK
  <2>2. PlicInit => WorkKnown /\ LinesRequested
    BY DEF PlicInit, WorkKnown, LinesRequested
  <2>. QED  BY <2>1, <2>2 DEF PlicIInv
<1>2. PlicIInv /\ [PlicNext]_plicVars => PlicIInv'
  BY PlicNextTypeOK, NextWorkKnown, NextLinesRequested DEF PlicIInv
<1>. QED  BY <1>1, <1>2, PTL DEF PlicSpec

-----------------------------------------------------------------------------
\* However many devices there are and whenever they raise their lines, a line is
\* lost only between the read and the write of another handler's
\* acknowledgement.
THEOREM LostOnlyInAcknowledge == PlicSpec => []LostOnlyInAck
<1>1. PlicIInv => LostOnlyInAck
  BY DEF PlicIInv, PlicTypeOK, WorkKnown, LostOnlyInAck
<1>. QED  BY <1>1, PlicInvariance, PTL

\* device_interrupt() never returns with a line up and no request: one request
\* for several devices, or for a device that raises its line again while its
\* handler runs, is enough.
THEOREM NoForgottenRequest == PlicSpec => []QuietMeansServed
<1>1. PlicIInv => QuietMeansServed
  BY DEF PlicIInv, PlicTypeOK, WorkKnown, LinesRequested, QuietMeansServed
<1>. QED  BY <1>1, PlicInvariance, PTL
=============================================================================
