------------------------------- MODULE Plic -------------------------------
(***************************************************************************)
(* Interrupt delivery: PLIC_raise(), the interrupt sequence of             *)
(* MMU_pre_exec() and the register PLIC_INTERRUPT_LINES (machine.c), and   *)
(* device_interrupt() with the acknowledgement that every device handler   *)
(* begins with (kernel/trap.c, timer.c, uart.c, disk.c).                   *)
(*                                                                         *)
(* A handler acknowledges with LINES &= ~PIN: a read and a write of the    *)
(* register.  Machine_step() runs the devices after every CPU_PER_STEP     *)
(* instructions of the CPU; nothing keeps that from being between the two. *)
(***************************************************************************)
EXTENDS Integers, Sequences

CONSTANTS Order         \* the devices, in the order device_interrupt() asks for them

Devices == {Order[i] : i \in 1 .. Len(Order)}

ASSUME OrderAssumption == Order \in Seq(Devices) /\ Len(Order) > 0

VARIABLES lines,        \* interrupts_lines
          pending,      \* pending_irq
          work,         \* devices with something no handler has looked at yet
          at,           \* "run": interrupts enabled; "which", "ask", "store", "serve":
                        \* in device_interrupt()
          i,            \* the device it is at, a place of Order
          which,        \* which_device
          lost,         \* history: devices whose line another handler wrote down
          loaded        \* the value of the lines in the acknowledgement

plicVars == <<lines, pending, work, at, i, which, lost, loaded>>

PlicInit == /\ lines = {} /\ pending = FALSE /\ work = {}
            /\ at = "run" /\ i = 1 /\ which = {} /\ lost = {} /\ loaded = {}

\* Mutant: the line goes up without an interrupt request.
PLIC_raiseSilent(d) ==
    /\ work' = work \cup {d}
    /\ lines' = lines \cup {d}
    /\ lost' = lost \ {d}
    /\ UNCHANGED <<pending, at, i, which, loaded>>

\* PLIC_raise() by Uart_step(), Disk_step() or Timer_step(): the device has work.
PLIC_raise(d) ==
    /\ work' = work \cup {d}
    /\ lines' = lines \cup {d}
    /\ pending' = TRUE
    /\ lost' = lost \ {d}
    /\ UNCHANGED <<at, i, which, loaded>>

\* MMU_pre_exec(): the interrupt is taken, which lowers pending_irq only.
TakeIrq ==
    /\ at = "run" /\ pending
    /\ pending' = FALSE
    /\ at' = "which"
    /\ UNCHANGED <<lines, work, i, which, lost, loaded>>

\* device_interrupt() reads the lines once.
ReadLines ==
    /\ at = "which"
    /\ which' = lines
    /\ i' = 1
    /\ at' = "ask"
    /\ UNCHANGED <<lines, pending, work, lost, loaded>>

\* On to the next device, or back from the interrupt.
Advance == IF i < Len(Order) THEN at' = "ask" /\ i' = i + 1
                             ELSE at' = "run" /\ i' = 1

\* The device did not raise its line.
Skip ==
    /\ at = "ask" /\ Order[i] \notin which
    /\ Advance
    /\ UNCHANGED <<lines, pending, work, which, lost, loaded>>

\* Its handler acknowledges: reads the lines ...
AckLoad ==
    /\ at = "ask" /\ Order[i] \in which
    /\ loaded' = lines
    /\ at' = "store"
    /\ UNCHANGED <<lines, pending, work, i, which, lost>>

\* Mutant: every line is acknowledged.
AckStoreAll ==
    /\ at = "store"
    /\ lines' = {}
    /\ lost' = lost \cup (lines \ (loaded \cup {Order[i]}))
    /\ at' = "serve"
    /\ UNCHANGED <<pending, work, i, which, loaded>>

\* ... and writes them back without its own.
AckStore ==
    /\ at = "store"
    /\ lines' = loaded \ {Order[i]}
    /\ lost' = lost \cup (lines \ (loaded \cup {Order[i]}))
    /\ at' = "serve"
    /\ UNCHANGED <<pending, work, i, which, loaded>>

\* Then it looks at its device and does what there is to do.
Serve ==
    /\ at = "serve"
    /\ work' = work \ {Order[i]}
    /\ lost' = lost \ {Order[i]}
    /\ Advance
    /\ UNCHANGED <<lines, pending, which, loaded>>

Handler == ReadLines \/ Skip \/ AckLoad \/ AckStore \/ Serve

PlicNext == \/ \E d \in Devices : PLIC_raise(d)
            \/ TakeIrq \/ ReadLines \/ Skip \/ AckLoad \/ AckStore \/ Serve

\* The CPU goes on; the devices need never raise anything.
PlicSpec == PlicInit /\ [][PlicNext]_plicVars /\ WF_plicVars(TakeIrq \/ Handler)

-----------------------------------------------------------------------------
\* With interrupts enabled, every device with work has its line up, so its
\* handler will be called, unless the line was lost: it went up between the read
\* and the write of another device's acknowledgement, which wrote back the old
\* value of the lines.  There is no other way to lose one.
LostOnlyInAck == at = "run" => work \subseteq lines \cup lost

\* A device with work is served, unless its line was lost, until it raises it
\* again.
WorkServed == \A d \in Devices : d \in work ~> (d \notin work \/ d \in lost)
=============================================================================
