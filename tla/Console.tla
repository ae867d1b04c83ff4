------------------------------ MODULE Console ------------------------------
(***************************************************************************)
(* Console input: the receiver of the UART (machine.c), uart_rx_interrupt()*)
(* and uart_getc() with the ring buffer between them (kernel/uart.c), and  *)
(* the readers of console_read() (kernel/console.c).                       *)
(*                                                                         *)
(* A byte is <<kind, serial>>: an ordinary character "c", an erase "b", a  *)
(* line end "n" or Ctrl-D "d", and its number in the input.  The echo and  *)
(* the copy of the finished line to user space are left out.  The kernel   *)
(* is not preemptive: a reader that does not sleep is only interrupted by  *)
(* the UART, outside its INTER_OFF sections.                               *)
(***************************************************************************)
EXTENDS Integers, Sequences

CONSTANTS Readers,      \* processes that read the console
          RING,         \* 2^8: the ring buffer and the range of its uint8_t indices
          LINE,         \* sizeof(buffer) in console_read()
          Sizes,        \* the n of the read calls
          Kinds,        \* the kinds of bytes typed, a subset of {"c", "b", "n", "d"}
          MAXIN         \* bound: bytes typed in a behaviour

ASSUME ConsoleAssumption ==
    /\ RING \in Nat /\ RING > 1 /\ LINE \in Nat \ {0} /\ MAXIN \in Nat
    /\ Sizes \subseteq Nat /\ Kinds \subseteq {"c", "b", "n", "d"}

NoByte == <<"none", 0>>

VARIABLES typed,        \* number of bytes the UART has received
          rx, rxReady,  \* UART_RX and UART_STATUS_RX_READY
          irq,          \* PLIC_PIN_UART_RX
          buffer, head, tail,       \* ring_buffer
          rpc,          \* "user", "loop": runs console_read(), "asleep", "ready"
          line, max,    \* the local buffer (with bytes_read) and max_read
          last          \* history: the serial of the byte uart_getc() returned last

ringVars == <<buffer, head, tail>>
readVars == <<rpc, line, max, last>>
uartVars == <<typed, rx, rxReady, irq>>
vars == <<uartVars, ringVars, readVars>>

Init == /\ typed = 0 /\ rx = NoByte /\ rxReady = FALSE /\ irq = FALSE
        /\ buffer = [i \in 0 .. RING - 1 |-> NoByte] /\ head = 0 /\ tail = 0
        /\ rpc = [p \in Readers |-> "user"]
        /\ line = [p \in Readers |-> <<>>]
        /\ max = [p \in Readers |-> 0]
        /\ last = 0

\* Uart_step(): a byte arrives; one not yet taken from the register is lost ...
Received(k) ==
    /\ typed < MAXIN
    /\ typed' = typed + 1
    /\ rx' = <<k, typed + 1>>
    /\ rxReady' = TRUE
    /\ UNCHANGED <<ringVars, readVars>>

\* ... and the line is raised.
UartStep(k) == Received(k) /\ irq' = TRUE

\* The line is raised between the read and the write of PLIC_INTERRUPT_LINES with
\* which timer_interrupt() or disk_interrupt() acknowledges its own line: the
\* write puts the UART's line down again (module Plic).
UartStepLost(k) == Received(k) /\ ~irq /\ irq' = FALSE

\* ++ of a uint8_t index.
Inc(j) == (j + 1) % RING

\* head + 1 != tail, computed in int: 255 + 1 is not 0.
HasRoom == head + 1 # tail

\* Mutant: the byte is stored behind the advanced head.
StoredBehind == [buffer EXCEPT ![Inc(head)] = rx]

Stored == [buffer EXCEPT ![head] = rx]

\* Mutant: no wakeup.
WakeNobody == rpc

\* wakeup(&ring_buffer).
WakeReaders == [p \in Readers |-> IF rpc[p] = "asleep" THEN "ready" ELSE rpc[p]]

\* uart_rx_interrupt(), with the UART's line acknowledged.
UartRxInterrupt ==
    /\ irq
    /\ irq' = FALSE
    /\ rxReady' = FALSE         \* reading UART_RX clears it
    /\ IF rxReady /\ rx[1] # "d" /\ HasRoom
       THEN /\ buffer' = Stored
            /\ head' = Inc(head)
            /\ rpc' = WakeReaders
       ELSE UNCHANGED <<buffer, head, rpc>>
    /\ UNCHANGED <<typed, rx, tail, line, max, last>>

CpuFree == \A q \in Readers : rpc[q] # "loop"

\* A process calls console_read() ...
ReadCall(p, n) ==
    /\ rpc[p] = "user" /\ CpuFree
    /\ rpc' = [rpc EXCEPT ![p] = "loop"]
    /\ line' = [line EXCEPT ![p] = <<>>]
    /\ max' = [max EXCEPT ![p] = IF n < LINE THEN n ELSE LINE]
    /\ UNCHANGED <<uartVars, ringVars, last>>

\* ... or the scheduler lets one go on that sleep() had put to sleep.
ReadResume(p) ==
    /\ rpc[p] = "ready" /\ CpuFree
    /\ rpc' = [rpc EXCEPT ![p] = "loop"]
    /\ UNCHANGED <<uartVars, ringVars, line, max, last>>

\* uart_getc() finds the ring buffer empty: sleep, with interrupts off since
\* before the check.
ReadSleeps(p) ==
    /\ rpc[p] = "loop" /\ Len(line[p]) < max[p]
    /\ head = tail
    /\ rpc' = [rpc EXCEPT ![p] = "asleep"]
    /\ UNCHANGED <<uartVars, ringVars, line, max, last>>

\* sys_kill() by a process of the system: a sleeping reader is made runnable.
SysKill(p) ==
    /\ rpc[p] = "asleep" /\ CpuFree
    /\ rpc' = [rpc EXCEPT ![p] = "ready"]
    /\ UNCHANGED <<uartVars, ringVars, line, max, last>>

\* The line after byte b: erase takes the last character back.
Edited(l, b) == CASE b[1] = "b" -> IF l = <<>> THEN l ELSE SubSeq(l, 1, Len(l) - 1)
                  [] OTHER      -> Append(l, b)

\* Mutant: the byte stays in the ring buffer.
ReadByteKeeps(p) ==
    /\ rpc[p] = "loop" /\ Len(line[p]) < max[p]
    /\ head # tail
    /\ line' = [line EXCEPT ![p] = Edited(@, buffer[tail])]
    /\ last' = buffer[tail][2]
    /\ UNCHANGED <<uartVars, ringVars, rpc, max>>

\* uart_getc() returns a byte.
ReadByte(p) ==
    /\ rpc[p] = "loop" /\ Len(line[p]) < max[p]
    /\ head # tail
    /\ LET b == buffer[tail] IN
          /\ line' = [line EXCEPT ![p] = Edited(@, b)]
          /\ rpc' = [rpc EXCEPT ![p] = IF b[1] = "n" THEN "user" ELSE "loop"]
          /\ last' = b[2]
    /\ tail' = Inc(tail)
    /\ UNCHANGED <<uartVars, buffer, head, max>>

\* bytes_read = max_read: the loop ends without a line end.
ReadFull(p) ==
    /\ rpc[p] = "loop" /\ Len(line[p]) >= max[p]
    /\ rpc' = [rpc EXCEPT ![p] = "user"]
    /\ UNCHANGED <<uartVars, ringVars, line, max, last>>

Reading(p) == ReadResume(p) \/ ReadSleeps(p) \/ ReadByte(p) \/ ReadFull(p)

Next == \/ \E k \in Kinds : UartStep(k) \/ UartStepLost(k)
        \/ UartRxInterrupt
        \/ \E p \in Readers : \/ \E n \in Sizes : ReadCall(p, n)
                              \/ SysKill(p)
                              \/ ReadResume(p) \/ ReadSleeps(p) \/ ReadByte(p) \/ ReadFull(p)

\* A line that is up is taken (one that was erased is not), the kernel goes on and every ready process gets
\* the CPU; nobody has to type and no process has to read.
Fairness == /\ WF_vars(UartRxInterrupt)
            /\ \A p \in Readers : SF_vars(ReadResume(p)) /\ WF_vars(Reading(p))

Spec == Init /\ [][Next]_vars /\ Fairness

-----------------------------------------------------------------------------
\* The bytes between tail and head, oldest first.
Contents == [i \in 1 .. (head - tail + RING) % RING |-> buffer[(tail + i - 1) % RING]]

\* No wakeup is lost: a reader never sleeps while the ring buffer has a byte for
\* it, although console_read() checks and sleeps in two steps and the interrupt
\* may come at any time.
NoLostWakeup == \A p \in Readers : rpc[p] = "asleep" => head = tail

\* Readers get the bytes in the order they were typed, each once: what is in the
\* ring buffer is in order, and newer than what was handed out.
InOrder == /\ \A i \in 1 .. Len(Contents) : Contents[i][2] > last
           /\ \A i, j \in 1 .. Len(Contents) : i < j => Contents[i][2] < Contents[j][2]

\* Until the buffer is full, every byte the interrupt takes from the receiver goes
\* to its end, and nothing else but taking the oldest byte changes it.  (When it
\* is full with head 255 and tail 0, HasRoom does not see it, and the interrupt
\* overruns the buffer, which then looks empty.)
LosesNothingUntilFull ==
    [][IF rxReady /\ ~rxReady' /\ rx[1] # "d"
       THEN Len(Contents) < RING - 1 => Contents' = Append(Contents, rx)
       ELSE Contents' = Contents \/ (Contents # <<>> /\ Contents' = Tail(Contents))]_vars

\* A byte in the receiver gets the sleeping readers up, unless its line was erased
\* by the acknowledgement of another (timer.c line 24, disk.c line 85): the readers
\* then sleep on until the next byte comes, which replaces it.
ReadersWake == \A p \in Readers :
    (rpc[p] = "asleep" /\ rxReady /\ irq /\ rx[1] # "d") ~> (rpc[p] # "asleep" \/ rx[1] = "d")
=============================================================================
