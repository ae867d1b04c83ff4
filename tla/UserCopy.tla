------------------------------ MODULE UserCopy ------------------------------
(***************************************************************************)
(* How the kernel reads the memory of the process it works for:            *)
(* copy_from_user() (kernel/proc.c; copy_to_user() has the same loop with  *)
(* source and destination exchanged), and console_write()                  *)
(* (kernel/console.c), which calls it once per buffer.                     *)
(*                                                                         *)
(* A byte of memory is <<frame, offset>>; what the console prints is the   *)
(* sequence of bytes it was printed from.  The page table is that of       *)
(* module Proc, after any system calls.  Only the process itself changes   *)
(* it, so it stays the same during a call, although uart_putc() may yield. *)
(***************************************************************************)
EXTENDS Proc, Sequences, FiniteSetsExt

CONSTANT BUFFER         \* sizeof(buffer) in console_write()

ASSUME BufferAssumption == BUFFER \in Nat \ {0}

Byte(a) == <<pt[current][a \div PAGE], a % PAGE>>

\* Mutant: a whole page, whatever the offset.
ChunkPage(a, n) == Min({n, PAGE})

\* The bytes of one round of the loop: up to the end of the page.
Chunk(a, n) == Min({n, PAGE - (a % PAGE)})

\* The loop, from address a, with n bytes to go.  user_src is 16 bits wide.
RECURSIVE CopyLoop(_, _)
CopyLoop(a, n) ==
    CASE n = 0 -> [ok |-> TRUE, bytes |-> <<>>]
      [] n > 0 /\ pt[current][a \div PAGE] = NoFrame -> [ok |-> FALSE, bytes |-> <<>>]
      [] OTHER ->
            LET c == Chunk(a, n)
                rest == CopyLoop((a + c) % MEM, n - c)
                window == [i \in 1 .. c |-> <<pt[current][a \div PAGE], (a % PAGE) + i - 1>>]
            IN  [ok |-> rest.ok, bytes |-> window \o rest.bytes]

copy_from_user(a, n) == IF a >= top[current] THEN [ok |-> FALSE, bytes |-> <<>>]
                                             ELSE CopyLoop(a, n)

\* A uint16_t returned as an int, which has as many bits: MEM is 2^16.
AsInt(x) == IF 2 * x < MEM THEN x ELSE x - MEM

\* The loop of console_write(), with `out' printed so far.
RECURSIVE WriteLoop(_, _, _)
WriteLoop(a, n, out) ==
    LET copy == copy_from_user((a + Len(out)) % MEM, Min({n - Len(out), BUFFER}))
    IN  CASE Len(out) >= n -> [ret |-> AsInt(Len(out)), out |-> out]
          [] Len(out) < n /\ ~copy.ok ->
                [ret |-> IF out = <<>> THEN -1 ELSE AsInt(Len(out)), out |-> out]
          [] OTHER -> WriteLoop(a, n, out \o copy.bytes)

console_write(a, n) == WriteLoop(a, n, <<>>)

\* A write() that returns r has printed the first r bytes of the caller's buffer,
\* in order, from the caller's own frames, and nothing else, also when it runs
\* into an unmapped page half way (r < 0 stands for 2^16 + r bytes: int has 16
\* bits); -1 means that nothing was printed, or 65535 bytes; and it stops short
\* only if some byte it was asked for is outside the caller's pages or a buffer
\* begins at or above the caller's top.
WriteExact == At("write") =>
    \A a \in 0 .. MEM - 1, n \in 0 .. MEM - 1 :
       LET w == console_write(a, n)
           Addr(i) == (a + i) % MEM
       IN  /\ w.ret = AsInt(Len(w.out)) \/ (w.ret = -1 /\ w.out = <<>>)
           /\ w.out = [i \in 1 .. Len(w.out) |-> Byte(Addr(i - 1))]
           /\ \A i \in 1 .. Len(w.out) : w.out[i][1] \in Owned(current)
           /\ Len(w.out) < n => \E i \in Len(w.out) .. n - 1 :
                                   \/ Byte(Addr(i))[1] = NoFrame
                                   \/ i % BUFFER = 0 /\ Addr(i) >= top[current]
=============================================================================
