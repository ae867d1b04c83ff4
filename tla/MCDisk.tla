------------------------------- MODULE MCDisk -------------------------------
(* Instances of Disk for TLC. *)
EXTENDS Disk, TLC
\* Which client is which, and which block is which, does not matter.
BlockSymmetry == Permutations(Clients) \cup Permutations(Blocks)
\* No step depends on the data of the disk and the buffers, nor on what only says
\* where data goes (the DIRTY flags, the disk's command and sector), and nothing is
\* claimed of them once a transfer was cut short, nor of lost lines: states that
\* differ in no more are then one.
CutView == IF cut = "no" THEN vars
           ELSE <<lru, block, busy, valid, refcount, queueVars, offset, hw.status, irq,
                  clientVars>>
\* Once the queue is no list, only LockedByOne is claimed.
QueueIsList == cut # "twice"
=============================================================================
