------------------------------- MODULE Blocks -------------------------------
(***************************************************************************)
(* The block layer: block_alloc(), block_zero() and block_free()           *)
(* (kernel/buffer.c), the mount that uses them (fs_init(), kernel/fs.c),   *)
(* and the disk image they start from (mkfs/mkfs.c).                       *)
(*                                                                         *)
(* The buffer cache writes through, block by block, and locks a buffer     *)
(* from buffer_read() to buffer_release(): module Disk.  No client is      *)
(* killed while it waits for the disk, which would end its wait too early. *)
(* The power may fail between any two steps; the disk keeps what was       *)
(* written.                                                                *)
(***************************************************************************)
EXTENDS Integers, FiniteSets, FiniteSetsExt

CONSTANTS Clients,              \* processes that allocate, besides the mount
          Fs,                   \* the mount, in the first process
          SuperBlock,           \* SUPER_BLOCK_BLOCK; boot and kernel are before it
          InodeBlocks,          \* blocks of the inode table
          BitsPerBlock,         \* BITS_PER_BLOCK
          Size                  \* sb.size, the blocks of the disk

Users == Clients \cup {Fs}
NoOne == "none"

ASSUME BlocksAssumption ==
    /\ SuperBlock \in Nat /\ InodeBlocks \in Nat \ {0} /\ BitsPerBlock \in Nat \ {0}
    /\ Size \in Nat /\ Fs \notin Clients /\ NoOne \notin Users

\* main() of mkfs: superblock, inode table, bitmap, root directory.
BitmapBlocks == (Size + (BitsPerBlock - 1)) \div BitsPerBlock
BitmapStart == SuperBlock + 1 + InodeBlocks
RootDataBlock == BitmapStart + BitmapBlocks
Bits == 0 .. (BitmapBlocks * BitsPerBlock) - 1

\* Mutant: the root directory's block is left free.
write_bitmapShort == (0 .. RootDataBlock - 1) \cup {b \in Bits : b >= Size}

\* write_bitmap(): the system's blocks, and the bits beyond the disk.
write_bitmap == (0 .. RootDataBlock) \cup {b \in Bits : b >= Size}

ASSUME Room == RootDataBlock < Size

VARIABLES used,         \* the bitmap on disk, as the set of its ones
          buf,          \* the bitmap in its buffers
          lock,         \* holder of the buffer of each bitmap block
          data,         \* what is in each block
          pc, k, got,   \* of each user: place, bitmap block it is at, block it is about
          held,         \* blocks allocated on disk to each user
          mounted,      \* block_alloc() calls that fs_init() has behind it
          full          \* history: fs_init() was told there is no space

vars == <<used, buf, lock, data, pc, k, got, held, mounted, full>>

Init ==
    /\ used = write_bitmap /\ buf = used
    /\ lock = [n \in 0 .. BitmapBlocks - 1 |-> NoOne]
    /\ data = [b \in 0 .. Size - 1 |-> IF b <= RootDataBlock THEN "system" ELSE "zero"]
    /\ pc = [u \in Users |-> "idle"] /\ k = [u \in Users |-> 0] /\ got = [u \in Users |-> 0]
    /\ held = [u \in Users |-> {}]
    /\ mounted = 0 /\ full = FALSE

\* BIT_B_BLOCK(), from the start of the bitmap, and the bits of that block.
BIT_B_BLOCK(b) == b \div BitsPerBlock
BitsOf(n) == {b \in Bits : BIT_B_BLOCK(b) = n}

Goto(u, l) == pc' = [pc EXCEPT ![u] = l]
Locked(u) == lock[k[u]] = NoOne /\ lock' = [lock EXCEPT ![k[u]] = u]
Released(u) == lock' = [lock EXCEPT ![k[u]] = NoOne]

-----------------------------------------------------------------------------
(* block_alloc() *)

\* fs_init() allocates twice after every start; the others come after it.
Call(u) ==
    /\ pc[u] = "idle" /\ (IF u = Fs THEN mounted < 2 ELSE mounted = 2)
    /\ Goto(u, "lock") /\ k' = [k EXCEPT ![u] = 0]
    /\ UNCHANGED <<used, buf, lock, data, got, held, mounted, full>>

\* buffer_read() of the bitmap block.
Lock(u) ==
    /\ pc[u] = "lock" /\ k[u] * BitsPerBlock < Size
    /\ Locked(u) /\ Goto(u, "scan")
    /\ UNCHANGED <<used, buf, data, k, got, held, mounted, full>>

\* The bits the scan stops at: the clear ones, below sb.size.
ClearBits(n) == {b \in BitsOf(n) \ buf : b < Size}

\* The first of them is set in the buffer; without one, on to the next block.
Mark(u) ==
    /\ pc[u] = "scan"
    /\ IF ClearBits(k[u]) # {}
       THEN /\ buf' = buf \cup {Min(ClearBits(k[u]))}
            /\ got' = [got EXCEPT ![u] = Min(ClearBits(k[u]))]
            /\ Goto(u, "write") /\ UNCHANGED <<lock, k>>
       ELSE /\ Released(u) /\ Goto(u, "lock") /\ k' = [k EXCEPT ![u] = @ + 1]
            /\ UNCHANGED <<buf, got>>
    /\ UNCHANGED <<used, data, held, mounted, full>>

\* buffer_write() of the bitmap block.
Flushed(n) == used' = (used \ BitsOf(n)) \cup (buf \cap BitsOf(n))
WriteMark(u) ==
    /\ pc[u] = "write"
    /\ Flushed(k[u]) /\ Goto(u, "release")
    /\ held' = [held EXCEPT ![u] = @ \cup {got[u]}]
    /\ UNCHANGED <<buf, lock, data, k, got, mounted, full>>

Release(u) ==
    /\ pc[u] = "release"
    /\ Released(u) /\ Goto(u, "zero")
    /\ UNCHANGED <<used, buf, data, k, got, held, mounted, full>>

\* Mutant: the block keeps what was in it.
block_zeroNot(u) == UNCHANGED data

block_zero(u) == data' = [data EXCEPT ![got[u]] = "zero"]
Zero(u) ==
    /\ pc[u] = "zero"
    /\ block_zero(u) /\ Goto(u, "done")
    /\ UNCHANGED <<used, buf, lock, k, got, held, mounted, full>>

\* Out of disk space: block_alloc() returns 0.
NoSpace(u) ==
    /\ pc[u] = "lock" /\ k[u] * BitsPerBlock >= Size
    /\ got' = [got EXCEPT ![u] = 0] /\ Goto(u, "done")
    /\ full' = (full \/ u = Fs)
    /\ UNCHANGED <<used, buf, lock, data, k, held, mounted>>

\* Back in the caller. fs_init() writes its message to the block it was given,
\* whatever its number; the others write to a block they did get.
Return(u) ==
    /\ pc[u] = "done" /\ Goto(u, "idle")
    /\ data' = IF u = Fs \/ got[u] # 0 THEN [data EXCEPT ![got[u]] = "file"] ELSE data
    /\ mounted' = IF u = Fs THEN mounted + 1 ELSE mounted
    /\ UNCHANGED <<used, buf, lock, k, got, held, full>>

-----------------------------------------------------------------------------
(* block_free(); freeing a block that is not in use panics, which a holder    *)
(* cannot do.                                                                 *)

Free(u, b) ==
    /\ pc[u] = "idle" /\ u # Fs /\ b \in held[u]
    /\ got' = [got EXCEPT ![u] = b] /\ k' = [k EXCEPT ![u] = BIT_B_BLOCK(b)] /\ Goto(u, "free")
    /\ UNCHANGED <<used, buf, lock, data, held, mounted, full>>

\* Mutant: the byte is read before the buffer is locked.
ClearUnlocked(u) ==
    /\ pc[u] = "free" /\ got[u] \in buf
    /\ buf' = buf \ {got[u]} /\ Goto(u, "clear") /\ UNCHANGED lock
    /\ UNCHANGED <<used, data, k, got, held, mounted, full>>

Clear(u) ==
    /\ pc[u] = "free" /\ got[u] \in buf
    /\ Locked(u) /\ buf' = buf \ {got[u]} /\ Goto(u, "clear")
    /\ UNCHANGED <<used, data, k, got, held, mounted, full>>

WriteClear(u) ==
    /\ pc[u] = "clear"
    /\ Flushed(k[u]) /\ Goto(u, "freed")
    /\ held' = [held EXCEPT ![u] = @ \ {got[u]}]
    /\ UNCHANGED <<buf, lock, data, k, got, mounted, full>>

Freed(u) ==
    /\ pc[u] = "freed"
    /\ Released(u) /\ Goto(u, "idle")
    /\ UNCHANGED <<used, buf, data, k, got, held, mounted, full>>

-----------------------------------------------------------------------------
\* The power fails and the machine starts again, with the disk as it is.
PowerOff ==
    /\ buf' = used
    /\ lock' = [n \in DOMAIN lock |-> NoOne]
    /\ pc' = [u \in Users |-> "idle"] /\ k' = [u \in Users |-> 0] /\ got' = [u \in Users |-> 0]
    /\ held' = [u \in Users |-> {}] /\ mounted' = 0
    /\ UNCHANGED <<used, data, full>>

Next ==
    \/ \E u \in Users : \/ Call(u) \/ Lock(u) \/ Mark(u) \/ WriteMark(u) \/ Release(u)
                        \/ Zero(u) \/ NoSpace(u) \/ Return(u)
                        \/ Clear(u) \/ WriteClear(u) \/ Freed(u)
                        \/ \E b \in held[u] : Free(u, b)
    \/ PowerOff

Spec == Init /\ [][Next]_vars

-----------------------------------------------------------------------------
(* Properties. *)

\* The allocator does what BlocksAbs says, with the bitmap on disk for the free
\* blocks: no block is ever given to two holders, or given while it is in use,
\* whoever allocates and frees at the same time, wherever the power fails.
Abs == INSTANCE BlocksAbs WITH Clients <- Users, Blocks <- 0 .. Size - 1,
                               free <- {b \in 0 .. Size - 1 : b \notin used}, held <- held
ImplementsBlocksAbs == Abs!Spec

\* A block that block_alloc() returns is all zero: nothing of what an earlier
\* holder wrote is left, and no one writes to it before the caller does.
AllocatedIsZero == \A u \in Users : pc[u] = "done" /\ got[u] # 0 => data[got[u]] = "zero"

\* The blocks that mkfs put in use stay as it wrote them, however often the
\* machine is started, save block 0, the boot block, once the disk is full: fs_init() then
\* writes its message to the block number 0 that block_alloc() returns for "no
\* space" (fs.c lines 36 and 44).
SystemBlocksKeptUnlessFull ==
    \A b \in 0 .. RootDataBlock : data[b] = "system" \/ (b = 0 /\ full)
=============================================================================
