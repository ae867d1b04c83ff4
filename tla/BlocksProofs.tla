---------------------------- MODULE BlocksProofs ----------------------------
(***************************************************************************)
(* The block allocator of module Blocks, for every size of the disk and    *)
(* every number of processes.                                              *)
(***************************************************************************)
EXTENDS Blocks, WellFoundedInduction, TLAPS

\* Zenon proves the leaves that do not say SMT.
USE ZenonT(30)

DiskBlocks == 0 .. Size - 1
System == 0 .. RootDataBlock
Maps == 0 .. BitmapBlocks - 1
Labels == {"idle", "lock", "scan", "write", "release", "zero", "done", "free", "clear", "freed"}

TypeOK ==
    /\ used \in SUBSET Bits /\ buf \in SUBSET Bits
    /\ lock \in [Maps -> Users \cup {NoOne}]
    /\ data \in [DiskBlocks -> {"system", "zero", "file"}]
    /\ pc \in [Users -> Labels] /\ k \in [Users -> Nat] /\ got \in [Users -> DiskBlocks]
    /\ held \in [Users -> SUBSET DiskBlocks]
    /\ mounted \in Nat /\ full \in BOOLEAN

\* From buffer_read() to buffer_release() of a bitmap block its user has the lock.
Inside == {"scan", "write", "release", "clear", "freed"}
Locking == \A u \in Users : pc[u] \in Inside => k[u] \in Maps /\ lock[k[u]] = u

\* The bit a user changes is in the bitmap block it locks.  The buffers and the
\* disk differ by just the bits that were changed and not yet written.
AtBit == \A u \in Users : pc[u] \in {"write", "free", "clear"} =>
            got[u] \in Bits /\ BIT_B_BLOCK(got[u]) = k[u]
Marked(b) == \E u \in Users : pc[u] = "write" /\ got[u] = b
Cleared(b) == \E u \in Users : pc[u] = "clear" /\ got[u] = b
BufferAhead == /\ \A b \in Bits : b \in buf <=> (b \in used \/ Marked(b)) /\ ~Cleared(b)
               /\ \A u \in Users : pc[u] = "write" => got[u] \notin used

\* Who holds a block has its bit, alone, and it is none of the system's.
Holders == /\ \A u \in Users : held[u] \subseteq used \ System
           /\ \A u, v \in Users : held[u] \cap held[v] # {} => u = v
           /\ \A u \in Users : pc[u] \in {"release", "zero", "free", "clear"} => got[u] \in held[u]
           /\ \A u \in Users : pc[u] = "done" => got[u] \in held[u] \/ got[u] = 0

\* The bits of the system's blocks stay set.
SystemUsed == System \subseteq used

\* fs_init() gets 0 only from a full disk.
ToldFull == pc[Fs] = "done" /\ got[Fs] = 0 => full

IInv == /\ TypeOK /\ Locking /\ AtBit /\ BufferAhead /\ Holders /\ SystemUsed /\ ToldFull
        /\ AllocatedIsZero /\ SystemBlocksKeptUnlessFull

-----------------------------------------------------------------------------
(* Sizes. *)

\* A set of natural numbers has its minimum, and Min chooses it.
LEMMA MinIsElement ==
    ASSUME NEW S \in SUBSET Nat, S # {}
    PROVE  Min(S) \in S /\ \A x \in S : Min(S) <= x
<1>. DEFINE R == {ss \in Nat \X Nat : ss[1] < ss[2]}
<1>1. IsWellFoundedOn(R, Nat)
  BY NatLessThanWellFounded DEF OpToRel
<1>2. PICK x \in S : \A y \in S : ~(<<y, x>> \in R)
  BY <1>1, WFMin
<1>3. ASSUME NEW y \in S PROVE x <= y
  <2>1. x \in Nat /\ y \in Nat /\ ~(<<y, x>> \in R)
    BY <1>2
  <2>2. <<y, x>> \in Nat \X Nat /\ <<y, x>>[1] = y /\ <<y, x>>[2] = x
    BY <2>1
  <2>3. ~(y < x)
    BY <2>1, <2>2
  <2>. QED  BY <2>1, <2>3, SMT
<1>. QED  BY <1>3 DEF Min

LEMMA Quotient ==
    ASSUME NEW a \in Nat, NEW d \in Nat \ {0}
    PROVE  /\ a \div d \in Nat /\ d * (a \div d) <= a /\ a < d * (a \div d) + d
  BY SMT

LEMMA Sizes ==
    /\ BitmapBlocks \in Nat /\ Size <= BitmapBlocks * BitsPerBlock
    /\ RootDataBlock \in Nat /\ Bits \subseteq Nat
<1>1. /\ Size \in Nat /\ BitsPerBlock \in Nat \ {0} /\ SuperBlock \in Nat /\ InodeBlocks \in Nat
  BY BlocksAssumption
<1>2. Size + (BitsPerBlock - 1) \in Nat
  BY <1>1, SMT
<1>3. /\ BitmapBlocks \in Nat
      /\ Size + (BitsPerBlock - 1) < BitsPerBlock * BitmapBlocks + BitsPerBlock
  BY <1>1, <1>2, Quotient DEF BitmapBlocks
<1>4. BitsPerBlock * BitmapBlocks = BitmapBlocks * BitsPerBlock /\ BitmapBlocks * BitsPerBlock \in Nat
  BY <1>1, <1>3, SMT
<1>5. Size <= BitmapBlocks * BitsPerBlock
  BY <1>1, <1>3, <1>4, SMT
<1>6. RootDataBlock \in Nat
  BY <1>1, <1>3, SMT DEF RootDataBlock, BitmapStart
<1>. QED  BY <1>3, <1>4, <1>5, <1>6, SMT DEF Bits

LEMMA Sets == /\ System \subseteq DiskBlocks /\ 0 \in System /\ Fs \in Users
              /\ DiskBlocks \subseteq Bits /\ DiskBlocks \subseteq Nat /\ Bits \subseteq Nat
<1>1. Size \in Nat /\ RootDataBlock \in Nat /\ RootDataBlock < Size
  BY BlocksAssumption, Sizes, Room
<1>2. System \subseteq DiskBlocks /\ 0 \in System /\ DiskBlocks \subseteq Nat
  BY <1>1, SMT DEF System, DiskBlocks
<1>3. ASSUME NEW b \in DiskBlocks PROVE b \in Bits
  <2>. DEFINE T == BitmapBlocks * BitsPerBlock
  <2>1. T \in Nat /\ Size <= T
    BY BlocksAssumption, Sizes, SMT
  <2>2. b \in 0 .. T - 1
    <3>. HIDE DEF T
    <3>. QED  BY <1>1, <2>1, SMT DEF DiskBlocks
  <2>. QED  BY <2>2 DEF Bits
<1>. QED  BY <1>2, <1>3, Sizes DEF Users

\* The block of the bitmap that a bit is in is one of the bitmap's.
LEMMA BitInMap == ASSUME NEW b \in Bits PROVE BIT_B_BLOCK(b) \in Maps
<1>1. BitsPerBlock \in Nat \ {0} /\ b \in Nat /\ BitmapBlocks \in Nat
  BY Sizes, BlocksAssumption
<1>2. b < BitmapBlocks * BitsPerBlock
  BY <1>1, SMT DEF Bits
<1>3. b \div BitsPerBlock \in Nat /\ BitsPerBlock * (b \div BitsPerBlock) <= b
  BY <1>1, Quotient
<1>4. b \div BitsPerBlock < BitmapBlocks
  <2>. DEFINE q == b \div BitsPerBlock
  <2>1. SUFFICES ASSUME BitmapBlocks <= q PROVE FALSE
    BY <1>1, <1>3, SMT
  <2>2. BitmapBlocks * BitsPerBlock <= q * BitsPerBlock
    BY <1>1, <1>3, <2>1, SMT
  <2>. QED  BY <1>1, <1>2, <1>3, <2>2, SMT
<1>. QED  BY <1>1, <1>3, <1>4, SMT DEF BIT_B_BLOCK, Maps

\* The scan stays within the bitmap.
LEMMA ScanInMap ==
    ASSUME NEW n \in Nat, n * BitsPerBlock < Size PROVE n \in Maps
<1>1. BitsPerBlock \in Nat \ {0} /\ BitmapBlocks \in Nat /\ Size \in Nat
  BY Sizes, BlocksAssumption
<1>2. n * BitsPerBlock < BitmapBlocks * BitsPerBlock
  BY <1>1, Sizes, SMT
<1>3. SUFFICES ASSUME BitmapBlocks <= n PROVE FALSE
  BY <1>1, SMT DEF Maps
<1>4. BitmapBlocks * BitsPerBlock <= n * BitsPerBlock
  BY <1>1, <1>3, SMT
<1>. QED  BY <1>1, <1>2, <1>4, SMT

-----------------------------------------------------------------------------
(* Types. *)

\* The bits the scan stops at are blocks of the disk, in the bitmap block scanned.
LEMMA ClearBitsFacts ==
    ASSUME NEW n, ClearBits(n) # {}
    PROVE  Min(ClearBits(n)) \in ClearBits(n) /\ ClearBits(n) \subseteq DiskBlocks
<1>1. ASSUME NEW b \in ClearBits(n) PROVE b \in DiskBlocks
  <2>1. b \in Bits /\ b < Size
    BY DEF ClearBits, BitsOf
  <2>2. b \in Nat /\ Size \in Nat
    BY <2>1, Sets, BlocksAssumption
  <2>. QED  BY <2>1, <2>2, SMT DEF DiskBlocks
<1>2. ClearBits(n) \in SUBSET Nat
  BY <1>1, Sets
<1>. QED  BY <1>1, <1>2, MinIsElement

LEMMA InitTypeOK == Init => TypeOK
<1>1. write_bitmap \subseteq Bits /\ 0 \in DiskBlocks
  BY Sets DEF write_bitmap, System
<1>. SUFFICES ASSUME Init PROVE TypeOK
  OBVIOUS
<1>2. lock \in [Maps -> Users \cup {NoOne}] /\ used \in SUBSET Bits /\ buf \in SUBSET Bits
  BY <1>1 DEF Init, Maps
<1>3. data \in [DiskBlocks -> {"system", "zero", "file"}]
  BY DEF Init, DiskBlocks
<1>. QED  BY <1>1, <1>2, <1>3 DEF Init, TypeOK, Labels

LEMMA NextTypeOK == TypeOK /\ Locking /\ [Next]_vars => TypeOK'
<1>. SUFFICES ASSUME TypeOK, Locking, [Next]_vars PROVE TypeOK'
  OBVIOUS
<1>. USE DEF TypeOK, Goto, Labels
<1>0. 0 \in DiskBlocks
  BY Sets
<1>1. ASSUME NEW u \in Users, Call(u) PROVE TypeOK'
  BY <1>1 DEF Call
<1>2. ASSUME NEW u \in Users, Lock(u) PROVE TypeOK'
  <2>1. k[u] \in Maps
    BY <1>2, ScanInMap DEF Lock
  <2>. QED  BY <1>2, <2>1 DEF Lock, Locked
<1>3. ASSUME NEW u \in Users, Mark(u) PROVE TypeOK'
  <2>1. CASE ClearBits(k[u]) # {}
    <3>. DEFINE m == Min(ClearBits(k[u]))
    <3>1. m \in DiskBlocks /\ m \in Bits
      BY <2>1, ClearBitsFacts, Sets
    <3>2. buf' = buf \cup {m} /\ got' = [got EXCEPT ![u] = m]
      BY <1>3, <2>1 DEF Mark
    <3>. HIDE DEF m
    <3>3. buf' \in SUBSET Bits /\ got' \in [Users -> DiskBlocks]
      BY <3>1, <3>2
    <3>. QED  BY <1>3, <2>1, <3>3 DEF Mark
  <2>2. CASE ClearBits(k[u]) = {}
    BY <1>3, <2>2, SMT DEF Mark, Released
  <2>. QED  BY <2>1, <2>2
<1>4. ASSUME NEW u \in Users, WriteMark(u) PROVE TypeOK'
  BY <1>4 DEF WriteMark, Flushed
<1>5. ASSUME NEW u \in Users, Release(u) PROVE TypeOK'
  BY <1>5 DEF Release, Released
<1>6. ASSUME NEW u \in Users, Zero(u) PROVE TypeOK'
  BY <1>6 DEF Zero, block_zero
<1>7. ASSUME NEW u \in Users, NoSpace(u) PROVE TypeOK'
  BY <1>0, <1>7 DEF NoSpace
<1>8. ASSUME NEW u \in Users, Return(u) PROVE TypeOK'
  BY <1>8, SMT DEF Return
<1>9. ASSUME NEW u \in Users, NEW b \in held[u], Free(u, b) PROVE TypeOK'
  <2>1. BIT_B_BLOCK(b) \in Nat
    BY <1>9, BitInMap, Sets, SMT DEF Maps
  <2>. QED  BY <1>9, <2>1 DEF Free
<1>10. ASSUME NEW u \in Users, Clear(u) PROVE TypeOK'
  BY <1>10 DEF Clear, Locked
<1>11. ASSUME NEW u \in Users, WriteClear(u) PROVE TypeOK'
  BY <1>11 DEF WriteClear, Flushed
<1>12. ASSUME NEW u \in Users, Freed(u) PROVE TypeOK'
  BY <1>12 DEF Freed, Released
<1>13. CASE PowerOff
  BY <1>0, <1>13 DEF PowerOff
<1>14. CASE UNCHANGED vars
  BY <1>14 DEF vars
<1>. QED  BY <1>1, <1>2, <1>3, <1>4, <1>5, <1>6, <1>7, <1>8, <1>9, <1>10, <1>11, <1>12,
          <1>13, <1>14 DEF Next

-----------------------------------------------------------------------------
(* What a write of a bitmap block does to the disk. *)

\* The lock: no two users are inside one bitmap block.
LEMMA Exclusion ==
    ASSUME Locking, NEW u \in Users, NEW v \in Users,
           pc[u] \in Inside, pc[v] \in Inside, k[u] = k[v]
    PROVE  u = v
  BY DEF Locking

\* WriteMark() sets the bit of the block found, and no other.
LEMMA MarkFlushed ==
    ASSUME IInv, NEW u \in Users, WriteMark(u)
    PROVE  used' = used \cup {got[u]} /\ got[u] \notin used /\ got[u] \in Bits
<1>. USE DEF IInv
<1>1. pc[u] = "write" /\ got[u] \in Bits /\ BIT_B_BLOCK(got[u]) = k[u] /\ got[u] \notin used
  BY DEF WriteMark, AtBit, BufferAhead
<1>2. ASSUME NEW b \in Bits, BIT_B_BLOCK(b) = k[u]
      PROVE  b \in buf <=> b \in used \/ b = got[u]
  <2>1. ASSUME NEW v \in Users, pc[v] \in {"write", "clear"}, got[v] = b PROVE v = u
    BY <1>1, <1>2, <2>1, Exclusion DEF AtBit, Inside
  <2>2. Marked(b) <=> b = got[u]
    BY <1>1, <2>1 DEF Marked
  <2>3. ~Cleared(b)
    BY <1>1, <2>1 DEF Cleared
  <2>. QED  BY <2>2, <2>3 DEF BufferAhead
<1>3. used \subseteq Bits /\ buf \subseteq Bits
  BY DEF TypeOK
<1>4. used' = (used \ BitsOf(k[u])) \cup (buf \cap BitsOf(k[u]))
  BY DEF WriteMark, Flushed
<1>. QED  BY <1>1, <1>2, <1>3, <1>4 DEF BitsOf

\* WriteClear() clears the bit of the block freed, and no other.
LEMMA ClearFlushed ==
    ASSUME IInv, NEW u \in Users, WriteClear(u)
    PROVE  used' = used \ {got[u]}
<1>. USE DEF IInv
<1>1. pc[u] = "clear" /\ got[u] \in Bits /\ BIT_B_BLOCK(got[u]) = k[u]
  BY DEF WriteClear, AtBit
<1>2. ASSUME NEW b \in Bits, BIT_B_BLOCK(b) = k[u]
      PROVE  b \in buf <=> b \in used /\ b # got[u]
  <2>1. ASSUME NEW v \in Users, pc[v] \in {"write", "clear"}, got[v] = b PROVE v = u
    BY <1>1, <1>2, <2>1, Exclusion DEF AtBit, Inside
  <2>2. ~Marked(b)
    BY <1>1, <2>1 DEF Marked
  <2>3. Cleared(b) <=> b = got[u]
    BY <1>1, <2>1 DEF Cleared
  <2>. QED  BY <2>2, <2>3 DEF BufferAhead
<1>3. used \subseteq Bits /\ buf \subseteq Bits
  BY DEF TypeOK
<1>4. used' = (used \ BitsOf(k[u])) \cup (buf \cap BitsOf(k[u]))
  BY DEF WriteClear, Flushed
<1>. QED  BY <1>1, <1>2, <1>3, <1>4 DEF BitsOf

\* The scan finds a block of the disk whose bit is clear on the disk too.
LEMMA MarkFinds ==
    ASSUME IInv, NEW u \in Users, Mark(u), ClearBits(k[u]) # {}
    PROVE  \E m \in DiskBlocks :
              /\ m \in Bits /\ BIT_B_BLOCK(m) = k[u] /\ m \notin buf /\ m \notin used
              /\ buf' = buf \cup {m} /\ got' = [got EXCEPT ![u] = m]
<1>. USE DEF IInv
<1>. DEFINE m == Min(ClearBits(k[u]))
<1>1. m \in ClearBits(k[u]) /\ m \in DiskBlocks
  BY ClearBitsFacts
<1>2. m \in Bits /\ BIT_B_BLOCK(m) = k[u] /\ m \notin buf
  BY <1>1 DEF ClearBits, BitsOf
<1>3. pc[u] = "scan" /\ buf' = buf \cup {m} /\ got' = [got EXCEPT ![u] = m]
  BY DEF Mark
<1>. HIDE DEF m
<1>4. ~Cleared(m)
  BY <1>2, <1>3, Exclusion DEF Cleared, AtBit, Inside
<1>5. m \notin used
  BY <1>2, <1>4 DEF BufferAhead
<1>. QED  BY <1>1, <1>2, <1>3, <1>5

-----------------------------------------------------------------------------
(* The invariant is inductive. *)

LEMMA InitIInv == Init => IInv
<1>. SUFFICES ASSUME Init PROVE IInv
  OBVIOUS
<1>1. TypeOK
  BY InitTypeOK
<1>2. Locking /\ AtBit /\ Holders /\ ToldFull /\ AllocatedIsZero
  BY Sets DEF Init, Locking, AtBit, Holders, ToldFull, AllocatedIsZero, Inside
<1>3. BufferAhead
  BY DEF Init, BufferAhead, Marked, Cleared
<1>4. SystemUsed
  BY DEF Init, SystemUsed, write_bitmap, System
<1>5. SystemBlocksKeptUnlessFull
  BY Sets, SMT DEF Init, SystemBlocksKeptUnlessFull, System, DiskBlocks
<1>. QED  BY <1>1, <1>2, <1>3, <1>4, <1>5 DEF IInv

\* block_alloc() sets a bit in the buffer, or gives the bitmap block back.
LEMMA MarkStep == ASSUME IInv, TypeOK', NEW u \in Users, Mark(u) PROVE IInv'
<1>. USE DEF IInv
<1>1. CASE ClearBits(k[u]) # {}
  <2>1. PICK m \in DiskBlocks :
           /\ m \in Bits /\ BIT_B_BLOCK(m) = k[u] /\ m \notin buf /\ m \notin used
           /\ buf' = buf \cup {m} /\ got' = [got EXCEPT ![u] = m]
    BY <1>1, MarkFinds
  <2>2. /\ pc[u] = "scan" /\ pc' = [pc EXCEPT ![u] = "write"]
        /\ UNCHANGED <<used, lock, k, data, held, mounted, full>>
    BY <1>1 DEF Mark, Goto
  <2>3. Locking' /\ AtBit'
    BY <2>1, <2>2 DEF TypeOK, Locking, AtBit, Inside
  <2>4. BufferAhead'
    <3>1. \A b \in Bits : /\ Marked(b)' <=> Marked(b) \/ b = m
                          /\ Cleared(b)' <=> Cleared(b)
      BY <2>1, <2>2 DEF TypeOK, Marked, Cleared
    <3>2. ~Cleared(m)
      BY <2>1, <2>2, Exclusion, SMT DEF Cleared, AtBit, Inside
    <3>3. \A b \in Bits : b \in buf' <=> (b \in used' \/ Marked(b)') /\ ~Cleared(b)'
      BY <2>1, <2>2, <3>1, <3>2 DEF BufferAhead
    <3>4. \A v \in Users : pc'[v] = "write" => got'[v] \notin used'
      BY <2>1, <2>2 DEF TypeOK, BufferAhead
    <3>. QED  BY <3>3, <3>4 DEF BufferAhead
  <2>5. Holders' /\ ToldFull' /\ AllocatedIsZero'
    BY <2>1, <2>2, Sets, SMT DEF TypeOK, Holders, ToldFull, AllocatedIsZero
  <2>6. SystemUsed' /\ SystemBlocksKeptUnlessFull'
    BY <2>2 DEF SystemUsed, SystemBlocksKeptUnlessFull
  <2>. QED  BY <2>3, <2>4, <2>5, <2>6
<1>2. CASE ClearBits(k[u]) = {}
  <2>1. /\ pc[u] = "scan" /\ pc' = [pc EXCEPT ![u] = "lock"]
        /\ lock' = [lock EXCEPT ![k[u]] = NoOne] /\ k' = [k EXCEPT ![u] = @ + 1]
        /\ UNCHANGED <<used, buf, data, got, held, mounted, full>>
    BY <1>2 DEF Mark, Goto, Released
  <2>2. Locking'
    BY <2>1, Exclusion, SMTT(30) DEF TypeOK, Locking, Inside
  <2>3. AtBit' /\ Holders' /\ ToldFull' /\ AllocatedIsZero'
    BY <2>1, Sets, SMTT(30) DEF TypeOK, AtBit, Holders, ToldFull, AllocatedIsZero
  <2>4. BufferAhead'
    BY <2>1, SMT DEF TypeOK, BufferAhead, Marked, Cleared
  <2>5. SystemUsed' /\ SystemBlocksKeptUnlessFull'
    BY <2>1 DEF SystemUsed, SystemBlocksKeptUnlessFull
  <2>. QED  BY <2>2, <2>3, <2>4, <2>5
<1>. QED  BY <1>1, <1>2

\* buffer_write() puts the bit on disk: the block is the caller's.
LEMMA WriteMarkStep == ASSUME IInv, TypeOK', NEW u \in Users, WriteMark(u) PROVE IInv'
<1>. USE DEF IInv
<1>1. used' = used \cup {got[u]} /\ got[u] \notin used /\ got[u] \in Bits
  BY MarkFlushed
<1>2. /\ pc[u] = "write" /\ pc' = [pc EXCEPT ![u] = "release"]
      /\ held' = [held EXCEPT ![u] = @ \cup {got[u]}]
      /\ UNCHANGED <<buf, lock, data, k, got, mounted, full>>
  BY DEF WriteMark, Goto
<1>3. Locking' /\ AtBit' /\ ToldFull' /\ AllocatedIsZero'
  BY <1>2, Sets, SMT DEF TypeOK, Locking, AtBit, Inside, ToldFull, AllocatedIsZero
<1>4. BufferAhead'
  <2>1. ASSUME NEW v \in Users, v # u, pc[v] \in {"write", "clear"} PROVE got[v] # got[u]
    BY <1>2, <2>1, Exclusion DEF AtBit, Inside
  <2>2. \A b \in Bits : /\ Marked(b)' <=> Marked(b) /\ b # got[u]
                        /\ Cleared(b)' <=> Cleared(b)
    BY <1>2, <2>1 DEF TypeOK, Marked, Cleared
  <2>3. Marked(got[u]) /\ ~Cleared(got[u])
    BY <1>2, <2>1 DEF Marked, Cleared
  <2>4. \A b \in Bits : b \in buf' <=> (b \in used' \/ Marked(b)') /\ ~Cleared(b)'
    BY <1>1, <1>2, <2>2, <2>3 DEF BufferAhead
  <2>5. \A v \in Users : pc'[v] = "write" => got'[v] \notin used'
    BY <1>1, <1>2, <2>1 DEF TypeOK, BufferAhead
  <2>. QED  BY <2>4, <2>5 DEF BufferAhead
<1>5. Holders'
  BY <1>1, <1>2, SMT DEF TypeOK, Holders, SystemUsed
<1>6. SystemUsed' /\ SystemBlocksKeptUnlessFull'
  BY <1>1, <1>2 DEF SystemUsed, SystemBlocksKeptUnlessFull
<1>. QED  BY <1>3, <1>4, <1>5, <1>6

\* block_free() locks the bitmap block and clears the bit in the buffer.
LEMMA ClearStep == ASSUME IInv, TypeOK', NEW u \in Users, Clear(u) PROVE IInv'
<1>. USE DEF IInv
<1>1. /\ pc[u] = "free" /\ pc' = [pc EXCEPT ![u] = "clear"] /\ lock[k[u]] = NoOne
      /\ lock' = [lock EXCEPT ![k[u]] = u] /\ buf' = buf \ {got[u]}
      /\ UNCHANGED <<used, data, k, got, held, mounted, full>>
  BY DEF Clear, Goto, Locked
<1>2. got[u] \in Bits /\ k[u] \in Maps /\ got[u] \in held[u]
  BY <1>1, BitInMap, SMTT(30) DEF AtBit, Holders
<1>3. Locking'
  BY <1>1, <1>2, BlocksAssumption, SMTT(30) DEF TypeOK, Locking, Inside
<1>4. AtBit' /\ ToldFull' /\ AllocatedIsZero' /\ Holders'
  BY <1>1, Sets, SMT DEF TypeOK, AtBit, Holders, ToldFull, AllocatedIsZero
<1>5. BufferAhead'
  <2>1. \A b \in Bits : /\ Marked(b)' <=> Marked(b)
                        /\ Cleared(b)' <=> Cleared(b) \/ b = got[u]
    BY <1>1 DEF TypeOK, Marked, Cleared
  <2>2. \A b \in Bits : b \in buf' <=> (b \in used' \/ Marked(b)') /\ ~Cleared(b)'
    BY <1>1, <2>1 DEF BufferAhead
  <2>3. \A v \in Users : pc'[v] = "write" => got'[v] \notin used'
    BY <1>1 DEF TypeOK, BufferAhead
  <2>. QED  BY <2>2, <2>3 DEF BufferAhead
<1>6. SystemUsed' /\ SystemBlocksKeptUnlessFull'
  BY <1>1 DEF SystemUsed, SystemBlocksKeptUnlessFull
<1>. QED  BY <1>3, <1>4, <1>5, <1>6

\* buffer_write() takes the bit off the disk.
LEMMA WriteClearStep == ASSUME IInv, TypeOK', NEW u \in Users, WriteClear(u) PROVE IInv'
<1>. USE DEF IInv
<1>1. used' = used \ {got[u]}
  BY ClearFlushed
<1>2. /\ pc[u] = "clear" /\ pc' = [pc EXCEPT ![u] = "freed"]
      /\ held' = [held EXCEPT ![u] = @ \ {got[u]}]
      /\ UNCHANGED <<buf, lock, data, k, got, mounted, full>>
  BY DEF WriteClear, Goto
<1>3. got[u] \in held[u] /\ \A v \in Users : v # u => got[u] \notin held[v]
  BY <1>2 DEF Holders
<1>4. Locking' /\ AtBit' /\ ToldFull' /\ AllocatedIsZero'
  BY <1>2, Sets, SMT DEF TypeOK, Locking, AtBit, Inside, ToldFull, AllocatedIsZero
<1>5. BufferAhead'
  <2>1. ASSUME NEW v \in Users, v # u, pc[v] \in {"write", "clear"} PROVE got[v] # got[u]
    BY <1>2, <2>1, Exclusion DEF AtBit, Inside
  <2>2. \A b \in Bits : /\ Marked(b)' <=> Marked(b)
                        /\ Cleared(b)' <=> Cleared(b) /\ b # got[u]
    BY <1>2, <2>1 DEF TypeOK, Marked, Cleared
  <2>3. Cleared(got[u]) /\ ~Marked(got[u])
    BY <1>2, <2>1 DEF Marked, Cleared
  <2>4. \A b \in Bits : b \in buf' <=> (b \in used' \/ Marked(b)') /\ ~Cleared(b)'
    BY <1>1, <1>2, <2>2, <2>3 DEF BufferAhead
  <2>5. \A v \in Users : pc'[v] = "write" => got'[v] \notin used'
    BY <1>1, <1>2 DEF TypeOK, BufferAhead
  <2>. QED  BY <2>4, <2>5 DEF BufferAhead
<1>6. Holders'
  BY <1>1, <1>2, <1>3, SMTT(30) DEF TypeOK, Holders
<1>7. SystemUsed'
  BY <1>1, <1>3, SMT DEF SystemUsed, Holders
<1>8. SystemBlocksKeptUnlessFull'
  BY <1>2 DEF SystemBlocksKeptUnlessFull
<1>. QED  BY <1>4, <1>5, <1>6, <1>7, <1>8

\* A step that changes neither bitmap, nor the bit a user is about to write,
\* leaves the two bitmaps related as they were.
LEMMA BitmapsKept ==
    ASSUME IInv, NEW u \in Users, NEW l \in Labels, pc' = [pc EXCEPT ![u] = l],
           pc[u] \notin {"write", "clear"}, l \notin {"write", "clear"},
           NEW g, got' = [got EXCEPT ![u] = g],
           UNCHANGED <<used, buf>>
    PROVE  BufferAhead'
<1>1. \A b \in Bits : (Marked(b)' <=> Marked(b)) /\ (Cleared(b)' <=> Cleared(b))
  BY DEF IInv, TypeOK, Marked, Cleared
<1>2. \A v \in Users : pc'[v] = "write" => got'[v] \notin used'
  BY DEF IInv, TypeOK, BufferAhead
<1>. QED  BY <1>1, <1>2 DEF IInv, BufferAhead

\* A step that leaves the blocks, the bitmap and their holders alone.
LEMMA BlocksKept ==
    ASSUME IInv, UNCHANGED <<used, data, full>>
    PROVE  SystemUsed' /\ SystemBlocksKeptUnlessFull'
  BY DEF IInv, SystemUsed, SystemBlocksKeptUnlessFull

\* The start of a call, and the lock of a bitmap block.
LEMMA CallStep == ASSUME IInv, TypeOK', NEW u \in Users, Call(u) PROVE IInv'
<1>. USE DEF IInv
<1>1. /\ pc[u] = "idle" /\ pc' = [pc EXCEPT ![u] = "lock"] /\ k' = [k EXCEPT ![u] = 0]
      /\ UNCHANGED <<used, buf, lock, data, got, held, mounted, full>>
  BY DEF Call, Goto
<1>2. Locking' /\ AtBit' /\ Holders' /\ ToldFull' /\ AllocatedIsZero'
  BY <1>1, Sets, SMTT(30) DEF TypeOK, Locking, AtBit, Inside, Holders, ToldFull, AllocatedIsZero
<1>3. BufferAhead'
  BY <1>1, SMT DEF TypeOK, BufferAhead, Marked, Cleared
<1>. QED  BY <1>1, <1>2, <1>3, BlocksKept

LEMMA LockStep == ASSUME IInv, TypeOK', NEW u \in Users, Lock(u) PROVE IInv'
<1>. USE DEF IInv
<1>1. /\ pc[u] = "lock" /\ pc' = [pc EXCEPT ![u] = "scan"] /\ lock[k[u]] = NoOne
      /\ lock' = [lock EXCEPT ![k[u]] = u] /\ k[u] * BitsPerBlock < Size
      /\ UNCHANGED <<used, buf, data, k, got, held, mounted, full>>
  BY DEF Lock, Goto, Locked
<1>2. k[u] \in Maps
  BY <1>1, ScanInMap DEF TypeOK
<1>3. Locking'
  BY <1>1, <1>2, BlocksAssumption, SMTT(30) DEF TypeOK, Locking, Inside
<1>4. AtBit' /\ Holders' /\ ToldFull' /\ AllocatedIsZero'
  BY <1>1, Sets, SMTT(30) DEF TypeOK, AtBit, Holders, ToldFull, AllocatedIsZero
<1>5. BufferAhead'
  BY <1>1, SMT DEF TypeOK, BufferAhead, Marked, Cleared
<1>. QED  BY <1>1, <1>3, <1>4, <1>5, BlocksKept

\* The bitmap block is given back, after block_alloc() and after block_free().
LEMMA ReleaseStep == ASSUME IInv, TypeOK', NEW u \in Users, Release(u) \/ Freed(u) PROVE IInv'
<1>. USE DEF IInv
<1>1. PICK l \in {"zero", "idle"} :
         /\ pc[u] = (IF l = "zero" THEN "release" ELSE "freed") /\ pc' = [pc EXCEPT ![u] = l]
         /\ lock' = [lock EXCEPT ![k[u]] = NoOne]
         /\ UNCHANGED <<used, buf, data, k, got, held, mounted, full>>
  BY DEF Release, Freed, Goto, Released
<1>2. Locking'
  BY <1>1, Exclusion, SMTT(30) DEF TypeOK, Locking, Inside
<1>3. AtBit' /\ Holders' /\ ToldFull' /\ AllocatedIsZero'
  BY <1>1, Sets, SMTT(30) DEF TypeOK, AtBit, Holders, ToldFull, AllocatedIsZero
<1>4. BufferAhead'
  BY <1>1, SMT DEF TypeOK, BufferAhead, Marked, Cleared
<1>. QED  BY <1>1, <1>2, <1>3, <1>4, BlocksKept

\* block_zero() clears a block of the caller's, which nobody else has.
LEMMA ZeroStep == ASSUME IInv, TypeOK', NEW u \in Users, Zero(u) PROVE IInv'
<1>. USE DEF IInv
<1>1. /\ pc[u] = "zero" /\ pc' = [pc EXCEPT ![u] = "done"]
      /\ data' = [data EXCEPT ![got[u]] = "zero"]
      /\ UNCHANGED <<used, buf, lock, k, got, held, mounted, full>>
  BY DEF Zero, Goto, block_zero
<1>2. got[u] \in held[u] /\ got[u] \notin System
  BY <1>1 DEF Holders
<1>3. Locking' /\ AtBit' /\ Holders' /\ SystemUsed'
  BY <1>1, <1>2, SMTT(30) DEF TypeOK, Locking, AtBit, Inside, Holders, SystemUsed
<1>4. ToldFull'
  BY <1>1, <1>2, Sets, SMTT(30) DEF TypeOK, ToldFull
<1>5. BufferAhead'
  BY <1>1, SMT DEF TypeOK, BufferAhead, Marked, Cleared
<1>6. AllocatedIsZero'
  BY <1>1 DEF TypeOK, AllocatedIsZero
<1>7. SystemBlocksKeptUnlessFull'
  BY <1>1, <1>2, Sets, SMT DEF TypeOK, SystemBlocksKeptUnlessFull, System
<1>. QED  BY <1>3, <1>4, <1>5, <1>6, <1>7

LEMMA NoSpaceStep == ASSUME IInv, TypeOK', NEW u \in Users, NoSpace(u) PROVE IInv'
<1>. USE DEF IInv
<1>1. /\ pc[u] = "lock" /\ pc' = [pc EXCEPT ![u] = "done"] /\ got' = [got EXCEPT ![u] = 0]
      /\ full' = (full \/ u = Fs)
      /\ UNCHANGED <<used, buf, lock, data, k, held, mounted>>
  BY DEF NoSpace, Goto
<1>2. Locking' /\ AtBit' /\ Holders' /\ SystemUsed' /\ AllocatedIsZero'
  BY <1>1, SMT DEF TypeOK, Locking, AtBit, Inside, Holders, SystemUsed, AllocatedIsZero
<1>3. ToldFull'
  BY <1>1, Sets DEF TypeOK, ToldFull
<1>4. BufferAhead'
  BY <1>1, BitmapsKept DEF Labels
<1>5. SystemBlocksKeptUnlessFull'
  BY <1>1 DEF SystemBlocksKeptUnlessFull
<1>. QED  BY <1>2, <1>3, <1>4, <1>5

\* The caller writes to the block it was given, and fs_init() to block 0 of a
\* disk it was told is full.
LEMMA ReturnStep == ASSUME IInv, TypeOK', NEW u \in Users, Return(u) PROVE IInv'
<1>. USE DEF IInv
<1>1. /\ pc[u] = "done" /\ pc' = [pc EXCEPT ![u] = "idle"]
      /\ data' = IF u = Fs \/ got[u] # 0 THEN [data EXCEPT ![got[u]] = "file"] ELSE data
      /\ UNCHANGED <<used, buf, lock, k, got, held, full>>
  BY DEF Return, Goto
<1>2. Locking' /\ AtBit' /\ Holders' /\ SystemUsed'
  BY <1>1, SMT DEF TypeOK, Locking, AtBit, Inside, Holders, SystemUsed
<1>3. ToldFull'
  BY <1>1, Sets DEF TypeOK, ToldFull
<1>4. BufferAhead'
  BY <1>1, SMT DEF TypeOK, BufferAhead, Marked, Cleared
<1>5. ASSUME NEW v \in Users, v # u, pc[v] = "done", got[v] # 0 PROVE got[v] # got[u]
  BY <1>1, <1>5 DEF Holders
<1>6. AllocatedIsZero'
  BY <1>1, <1>5 DEF TypeOK, AllocatedIsZero
<1>7. SystemBlocksKeptUnlessFull'
  <2>1. got[u] \in System => got[u] = 0
    BY <1>1 DEF Holders
  <2>2. u = Fs /\ got[u] = 0 => full
    BY <1>1 DEF ToldFull
  <2>. QED  BY <1>1, <2>1, <2>2, Sets DEF TypeOK, SystemBlocksKeptUnlessFull, System
<1>. QED  BY <1>2, <1>3, <1>4, <1>6, <1>7

\* block_free() is called for a block of the caller's.
LEMMA FreeStep ==
    ASSUME IInv, TypeOK', NEW u \in Users, NEW b \in held[u], Free(u, b) PROVE IInv'
<1>. USE DEF IInv
<1>1. /\ pc[u] = "idle" /\ pc' = [pc EXCEPT ![u] = "free"]
      /\ got' = [got EXCEPT ![u] = b] /\ k' = [k EXCEPT ![u] = BIT_B_BLOCK(b)]
      /\ UNCHANGED <<used, buf, lock, data, held, mounted, full>>
  BY DEF Free, Goto
<1>2. b \in Bits
  BY DEF TypeOK, Holders
<1>3. Locking' /\ Holders' /\ AllocatedIsZero'
  BY <1>1, SMT DEF TypeOK, Locking, Inside, Holders, AllocatedIsZero
<1>4. AtBit' /\ ToldFull'
  BY <1>1, <1>2, Sets DEF TypeOK, AtBit, ToldFull, BIT_B_BLOCK
<1>5. BufferAhead'
  BY <1>1, BitmapsKept DEF Labels
<1>. QED  BY <1>1, <1>3, <1>4, <1>5, BlocksKept

\* After a power failure the buffers are read again from the disk.
LEMMA PowerOffStep == ASSUME IInv, TypeOK', PowerOff PROVE IInv'
<1>. USE DEF IInv
<1>1. /\ buf' = used /\ used' = used /\ data' = data /\ full' = full
      /\ \A u \in Users : pc'[u] = "idle" /\ held'[u] = {}
  BY DEF PowerOff
<1>2. Locking' /\ AtBit' /\ Holders' /\ ToldFull' /\ AllocatedIsZero'
  BY <1>1, Sets DEF Locking, AtBit, Inside, Holders, ToldFull, AllocatedIsZero
<1>3. BufferAhead'
  BY <1>1 DEF BufferAhead, Marked, Cleared
<1>. QED  BY <1>1, <1>2, <1>3, BlocksKept

LEMMA NextIInv == IInv /\ [Next]_vars => IInv'
<1>. SUFFICES ASSUME IInv, [Next]_vars PROVE IInv'
  OBVIOUS
<1>1. TypeOK'
  BY NextTypeOK DEF IInv
<1>2. CASE UNCHANGED vars
  BY <1>2, SMT DEF vars, IInv, TypeOK, Locking, AtBit, BufferAhead, Marked, Cleared, Holders,
              SystemUsed, ToldFull, AllocatedIsZero, SystemBlocksKeptUnlessFull
<1>3. CASE PowerOff
  BY <1>1, <1>3, PowerOffStep
<1>4. ASSUME NEW u \in Users, Call(u) \/ Lock(u) \/ Mark(u) \/ WriteMark(u) PROVE IInv'
  BY <1>1, <1>4, CallStep, LockStep, MarkStep, WriteMarkStep
<1>5. ASSUME NEW u \in Users, Release(u) \/ Zero(u) \/ NoSpace(u) \/ Return(u) PROVE IInv'
  BY <1>1, <1>5, ReleaseStep, ZeroStep, NoSpaceStep, ReturnStep
<1>6. ASSUME NEW u \in Users, Clear(u) \/ WriteClear(u) \/ Freed(u) PROVE IInv'
  BY <1>1, <1>6, ClearStep, WriteClearStep, ReleaseStep
<1>7. ASSUME NEW u \in Users, NEW b \in held[u], Free(u, b) PROVE IInv'
  BY <1>1, <1>7, FreeStep
<1>. QED  BY <1>2, <1>3, <1>4, <1>5, <1>6, <1>7 DEF Next

LEMMA Invariance == Spec => []IInv
<1>1. Init => IInv
  BY InitIInv
<1>2. IInv /\ [Next]_vars => IInv'
  BY NextIInv
<1>. QED  BY <1>1, <1>2, PTL DEF Spec

-----------------------------------------------------------------------------
(* What holds of every disk, every number of processes and every power      *)
(* failure.                                                                 *)

\* A block that block_alloc() returns is all zero: block_zero() clears a block
\* that nobody else can have been given, and so nobody else writes to.
THEOREM AllocatedZero == Spec => []AllocatedIsZero
<1>1. IInv => AllocatedIsZero
  BY DEF IInv
<1>. QED  BY <1>1, Invariance, PTL

\* The blocks mkfs wrote stay as they are, but for the boot block after the
\* mount was told that the disk is full: block_alloc() hands out no block of
\* the system's, and fs_init() is the only one to write to the 0 it returns.
THEOREM SystemKept == Spec => []SystemBlocksKeptUnlessFull
<1>1. IInv => SystemBlocksKeptUnlessFull
  BY DEF IInv
<1>. QED  BY <1>1, Invariance, PTL

\* The allocator implements BlocksAbs.  The write of a bitmap block in
\* block_alloc() takes a block that is free on disk, the write in block_free()
\* gives back one the caller has, and every other step is a stutter.
THEOREM RefinesBlocksAbs == Spec => ImplementsBlocksAbs
<1>1. Init => Abs!Init
  BY DEF Init, Abs!Init
<1>2. IInv /\ [Next]_vars => [Abs!Next]_(Abs!vars)
  <2>. SUFFICES ASSUME IInv, [Next]_vars PROVE Abs!Next \/ UNCHANGED Abs!vars
    OBVIOUS
  <2>. USE DEF IInv
  <2>1. CASE UNCHANGED <<used, held>>
    BY <2>1 DEF Abs!vars
  <2>2. ASSUME NEW u \in Users, WriteMark(u) PROVE Abs!Next
    <3>1. used' = used \cup {got[u]} /\ got[u] \notin used /\ got[u] \in 0 .. Size - 1
      BY <2>2, MarkFlushed DEF TypeOK, DiskBlocks
    <3>2. held' = [held EXCEPT ![u] = @ \cup {got[u]}]
      BY <2>2 DEF WriteMark
    <3>3. Abs!Take(u, got[u])
      BY <3>1, <3>2 DEF Abs!Take
    <3>. QED  BY <3>1, <3>3 DEF Abs!Next, Abs!Take
  <2>3. ASSUME NEW u \in Users, WriteClear(u) PROVE Abs!Next
    <3>1. used' = used \ {got[u]} /\ got[u] \in 0 .. Size - 1 /\ got[u] \in held[u]
      BY <2>3, ClearFlushed DEF TypeOK, DiskBlocks, Holders, WriteClear
    <3>2. held' = [held EXCEPT ![u] = @ \ {got[u]}]
      BY <2>3 DEF WriteClear
    <3>3. Abs!Give(u, got[u])
      BY <3>1, <3>2 DEF Abs!Give
    <3>. QED  BY <3>1, <3>3 DEF Abs!Next, Abs!Give
  <2>4. CASE PowerOff
    BY <2>4 DEF PowerOff, Abs!Next, Abs!PowerOff
  <2>. QED
    BY <2>1, <2>2, <2>3, <2>4 DEF Next, vars, Call, Lock, Mark, Release, Zero, NoSpace, Return,
                                   Free, Clear, Freed
<1>. QED  BY <1>1, <1>2, Invariance, PTL DEF Spec, ImplementsBlocksAbs, Abs!Spec
=============================================================================
