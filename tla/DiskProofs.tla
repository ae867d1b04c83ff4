----------------------------- MODULE DiskProofs -----------------------------
(***************************************************************************)
(* The invariant of module Disk, for every number of processes, buffers,   *)
(* blocks and sectors of a block, and with transfers that fail: its types, *)
(* its preservation by the steps of the buffer cache and by those of the   *)
(* driver and the disk, and what follows from it.                          *)
(***************************************************************************)
EXTENDS Disk, TLAPS

\* Zenon proves the leaves that do not say SMT.
USE ZenonT(30)

Labels == {"user", "get", "waiting"} \cup Holding
Numbered == Blocks \cup {NoBlock}
Queued == {"reading", "writing"}

Hardware == [status : {"ready", "busy", "error"}, cmd : {"none", "read", "write"},
             lba : Numbered \X Nat, buffer : Nat]

\* l is a list of all the buffers.
Lists(l) == l \in Seq(Buffers) /\ \A b \in Buffers : \E n \in 1 .. Len(l) : l[n] = b

TypeOK ==
    /\ Lists(lru)
    /\ block \in [Buffers -> Numbered]
    /\ busy \in [Buffers -> BOOLEAN] /\ valid \in [Buffers -> BOOLEAN]
    /\ dirty \in [Buffers -> BOOLEAN] /\ refcount \in [Buffers -> Int]
    /\ frame \in [Buffers -> [Offsets -> Nat]]
    /\ head \in Buffers \cup {NoBuffer} /\ tail \in Buffers \cup {NoBuffer}
    /\ link \in [Buffers -> Buffers \cup {NoBuffer}] /\ queue \in Seq(Buffers)
    /\ offset \in Nat /\ irq \in BOOLEAN
    /\ hw \in Hardware
    /\ image \in [Blocks -> [Offsets -> Nat]]
    /\ pc \in [Clients -> Labels] /\ want \in [Clients -> Numbered]
    /\ buf \in [Clients -> Buffers \cup {NoBuffer}]
    /\ run \in Clients \cup {NoClient} /\ changed \in [Blocks -> Nat] /\ panicked \in BOOLEAN

\* The types of the variables that locking is about.
LockTypeOK ==
    /\ Lists(lru) /\ block \in [Buffers -> Numbered] /\ busy \in [Buffers -> BOOLEAN]
    /\ pc \in [Clients -> Labels] /\ want \in [Clients -> Numbered]
    /\ buf \in [Clients -> Buffers \cup {NoBuffer}]

\* A client past buffer_read() asks for a block; past buffer_get() it has a buffer.
Asking == \A p \in Clients : /\ pc[p] # "user" => want[p] \in Blocks
                             /\ pc[p] \in Holding \cup {"waiting"} => buf[p] \in Buffers

\* LockedByOne, with BUSY as a predicate.
OneHolder ==
    /\ \A b, c \in Buffers : block[b] = block[c] /\ block[b] # NoBlock => b = c
    /\ \A b \in Buffers : busy[b] <=> \E p \in Clients : pc[p] \in Holding /\ buf[p] = b
    /\ \A p, q \in Clients :
          pc[p] \in Holding /\ pc[q] \in Holding /\ buf[p] = buf[q] => p = q
    /\ \A p \in Clients : pc[p] \in Holding => block[buf[p]] = want[p]

\* What holds whatever sys_kill() does: the locks.
LockInv == LockTypeOK /\ Asking /\ OneHolder

\* ... and the queue, until a buffer is submitted that is in it: its links make a
\* list of the requests, each of another buffer.
ListTypeOK ==
    /\ head \in Buffers \cup {NoBuffer} /\ tail \in Buffers \cup {NoBuffer}
    /\ link \in [Buffers -> Buffers \cup {NoBuffer}] /\ queue \in Seq(Buffers)

ListInv ==
    cut # "twice" => /\ ListTypeOK /\ QueueLinked
                     /\ \A m, n \in 1 .. Len(queue) : queue[m] = queue[n] => m = n

\* The queue: no transfer was cut short, the links make a list of the requests,
\* and their clients sleep.
QueueOK == cut = "no" /\ QueueLinked /\ QueueHasSleepers

\* The DIRTY flag is on the buffers that wait to be written.
DirtyIsWriting ==
    \A b \in Buffers : dirty[b] <=> \E p \in Clients : pc[p] = "writing" /\ buf[p] = b

\* What is known of the block a client holds, on disk and in its buffer.
HeldData == \A p \in Clients : pc[p] \in Holding =>
    /\ pc[p] # "writing" => \A s \in Offsets : image[want[p]][s] = changed[want[p]]
    /\ \/ pc[p] \in {"read", "held", "writing", "written"}
       \/ pc[p] = "got" /\ valid[buf[p]]
       => \A s \in Offsets : frame[buf[p]][s] = changed[want[p]]

\* A free block is on disk as it was last changed, and so in the cache.
FreeData ==
    /\ \A k \in Blocks : (\A p \in Clients : pc[p] \in Holding => want[p] # k)
                            => \A s \in Offsets : image[k][s] = changed[k]
    /\ \A b \in Buffers : valid[b] /\ ~busy[b] =>
          block[b] \in Blocks /\ \A s \in Offsets : frame[b][s] = image[block[b]][s]

\* The transfer the disk is at is for the buffer at the head of the queue.  The
\* sectors before offset are done; the one at offset is when the disk is ready.
Transfer ==
    IF queue = <<>> THEN hw.status = "ready"
    ELSE LET b == Head(queue)  k == block[b] IN
         /\ offset \in Offsets /\ hw.lba = <<k, offset>>
         /\ hw.cmd = IF dirty[b] THEN "write" ELSE "read"
         /\ ~dirty[b] => /\ \A s \in Offsets : s < offset => frame[b][s] = changed[k]
                         /\ hw.status = "ready" => hw.buffer = changed[k]
         /\ dirty[b] => /\ \A s \in Offsets : s < offset => image[k][s] = changed[k]
                        /\ hw.status = "busy" => hw.buffer = changed[k]
                        /\ hw.status = "ready" => image[k][offset] = changed[k]

\* What holds until a kill cuts a transfer short.
IInv == TypeOK /\ Asking /\ OneHolder /\ QueueOK /\ DirtyIsWriting /\ HeldData
        /\ FreeData /\ Transfer

\* The invariant.
Inv == LockInv /\ ListInv /\ (cut = "no" => IInv)

\* The invariant from its parts, and back: the proofs expand only the parts they
\* are about.
LEMMA IInvParts ==
    ASSUME IInv
    PROVE  /\ TypeOK /\ Asking /\ OneHolder /\ DirtyIsWriting /\ HeldData /\ FreeData
           /\ Transfer /\ QueueHasSleepers /\ QueueLinked /\ cut = "no" /\ LockInv
           /\ ListTypeOK
  BY DEF IInv, QueueOK, TypeOK, LockInv, LockTypeOK, ListTypeOK

LEMMA IInvFromParts ==
    ASSUME TypeOK', LockInv', QueueOK', DirtyIsWriting', HeldData', FreeData', Transfer'
    PROVE  IInv'
  BY DEF IInv, LockInv

-----------------------------------------------------------------------------
(* The queue as a sequence. *)

LEMMA AppendFacts ==
    ASSUME NEW q \in Seq(Buffers), NEW b \in Buffers
    PROVE  /\ Append(q, b) \in Seq(Buffers) /\ Append(q, b) # <<>>
           /\ Len(Append(q, b)) = Len(q) + 1 /\ Append(q, b)[Len(q) + 1] = b
           /\ \A n \in 1 .. Len(q) : Append(q, b)[n] = q[n]
           /\ Head(Append(q, b)) = IF q = <<>> THEN b ELSE Head(q)
  BY SMT

LEMMA TailFacts ==
    ASSUME NEW q \in Seq(Buffers), q # <<>>
    PROVE  /\ Head(q) \in Buffers /\ Head(q) = q[1] /\ 1 \in 1 .. Len(q)
           /\ Tail(q) \in Seq(Buffers) /\ Len(Tail(q)) = Len(q) - 1
           /\ \A n \in 1 .. Len(q) - 1 : Tail(q)[n] = q[n + 1]
  BY SMT

LEMMA NullIsNoBuffer == NoBuffer \notin Buffers
  BY DiskAssumption, SMT DEF Buffers, NoBuffer

\* The list that disk.head and the links make, from its ends ...
LEMMA ListTypes == TypeOK => ListTypeOK
  BY DEF TypeOK, ListTypeOK

LEMMA ListEnds ==
    ASSUME ListTypeOK, QueueLinked
    PROVE  /\ queue = <<>> => head = NoBuffer
           /\ queue # <<>> => /\ head = Head(queue) /\ head \in Buffers /\ head # NoBuffer
                              /\ head \in Range(queue) /\ tail \in Range(queue)
<1>1. queue \in Seq(Buffers) /\ NoBuffer \notin Buffers
  BY NullIsNoBuffer DEF ListTypeOK
<1>2. ASSUME queue # <<>>
      PROVE  /\ 1 \in DOMAIN queue /\ Len(queue) \in DOMAIN queue
             /\ Head(queue) = queue[1] /\ Head(queue) \in Buffers
  BY <1>1, <1>2, SMT
<1>. QED  BY <1>1, <1>2 DEF QueueLinked, Range

\* ... and when its first element is taken.
LEMMA ListNext ==
    ASSUME ListTypeOK, QueueLinked, queue # <<>>
    PROVE  link[head] = IF Tail(queue) = <<>> THEN NoBuffer ELSE Head(Tail(queue))
<1>1. /\ queue \in Seq(Buffers) /\ head = queue[1] /\ tail = queue[Len(queue)]
      /\ link[tail] = NoBuffer
      /\ \A n \in 1 .. Len(queue) - 1 : link[queue[n]] = queue[n + 1]
  BY SMT DEF ListTypeOK, QueueLinked
<1>2. CASE Tail(queue) = <<>>
  <2>1. Len(Tail(queue)) = Len(queue) - 1 /\ Len(queue) \in Nat
    BY <1>1, TailFacts, SMT
  <2>2. Len(queue) = 1
    BY <1>2, <2>1, SMT
  <2>. QED  BY <1>1, <1>2, <2>2
<1>3. CASE Tail(queue) # <<>>
  <2>1. 1 \in 1 .. Len(queue) - 1 /\ Head(Tail(queue)) = queue[1 + 1]
    BY <1>1, <1>3, SMT
  <2>. QED  BY <1>1, <1>3, <2>1
<1>. QED  BY <1>2, <1>3

LEMMA ListShrinks ==
    ASSUME ListTypeOK, QueueLinked, queue # <<>>, queue' = Tail(queue), head' = link[head],
           UNCHANGED <<tail, link>>
    PROVE  QueueLinked'
<1>. DEFINE N == Len(queue)
<1>1. /\ queue \in Seq(Buffers) /\ N \in Nat /\ N > 0 /\ tail = queue[N] /\ link[tail] = NoBuffer
      /\ \A n \in 1 .. N - 1 : link[queue[n]] = queue[n + 1]
  BY SMT DEF ListTypeOK, QueueLinked
<1>2. Len(queue') = N - 1 /\ \A n \in 1 .. N - 1 : queue'[n] = queue[n + 1]
  BY TailFacts DEF ListTypeOK
<1>3. head' = IF queue' = <<>> THEN NoBuffer ELSE Head(queue')
  BY ListNext
<1>. HIDE DEF N
<1>4. CASE queue' = <<>>
  BY <1>3, <1>4 DEF QueueLinked
<1>5. CASE queue' # <<>>
  <2>1. N - 1 \in 1 .. N - 1 /\ (N - 1) + 1 = N
    BY <1>1, <1>2, <1>5, TailFacts, SMT DEF ListTypeOK
  <2>2. tail' = queue'[Len(queue')] /\ link'[tail'] = NoBuffer
    BY <1>1, <1>2, <2>1
  <2>3. ASSUME NEW n \in 1 .. Len(queue') - 1 PROVE link'[queue'[n]] = queue'[n + 1]
    <3>1. n \in 1 .. N - 1 /\ n + 1 \in 1 .. N - 1
      BY <1>1, <1>2, SMT
    <3>. QED  BY <1>1, <1>2, <3>1
  <2>. QED  BY <1>3, <1>5, <2>2, <2>3 DEF QueueLinked
<1>. QED  BY <1>4, <1>5

\* disk_submit() appends a buffer that is not in the list.
LEMMA ListGrows ==
    ASSUME ListTypeOK, QueueLinked, \A m, n \in 1 .. Len(queue) : queue[m] = queue[n] => m = n,
           NEW b \in Buffers, b \notin Range(queue), queue' = Append(queue, b),
           link' = Linked(b), tail' = b, head' = IF queue = <<>> THEN b ELSE head
    PROVE  QueueLinked'
<1>. DEFINE N == Len(queue)
<1>1. /\ queue \in Seq(Buffers) /\ N \in Nat /\ link \in [Buffers -> Buffers \cup {NoBuffer}]
      /\ DOMAIN queue = 1 .. N
  BY SMT DEF ListTypeOK
<1>2. /\ queue' # <<>> /\ Len(queue') = N + 1 /\ queue'[N + 1] = b
      /\ \A n \in 1 .. N : queue'[n] = queue[n]
      /\ Head(queue') = IF queue = <<>> THEN b ELSE Head(queue)
  BY <1>1, AppendFacts
<1>3. \A n \in 1 .. N : queue[n] \in Buffers /\ queue[n] # b
  BY <1>1, SMT DEF Range
<1>. HIDE DEF N
<1>4. CASE queue = <<>>
  <2>1. N = 0 /\ head = NoBuffer
    BY <1>4, ListEnds, SMT DEF N
  <2>2. link'[b] = NoBuffer
    BY <1>1, <2>1 DEF Linked
  <2>3. 1 .. (N + 1) - 1 = {}
    BY <2>1, SMT
  <2>. QED  BY <1>2, <1>4, <2>2, <2>3 DEF QueueLinked
<1>5. CASE queue # <<>>
  <2>1. /\ head = Head(queue) /\ head # NoBuffer /\ tail = queue[N]
        /\ \A n \in 1 .. N - 1 : link[queue[n]] = queue[n + 1]
    BY <1>5, ListEnds DEF QueueLinked, N
  <2>2. N \in 1 .. N
    BY <1>1, <1>5, SMT DEF N
  <2>3. tail \in Buffers /\ tail # b
    BY <1>3, <2>1, <2>2
  <2>4. link' = [[link EXCEPT ![b] = NoBuffer] EXCEPT ![tail] = b]
    BY <2>1 DEF Linked
  <2>5. /\ link'[b] = NoBuffer /\ link'[tail] = b
        /\ \A c \in Buffers : c # b /\ c # tail => link'[c] = link[c]
    BY <1>1, <2>3, <2>4
  <2>6. ASSUME NEW n \in 1 .. Len(queue') - 1 PROVE link'[queue'[n]] = queue'[n + 1]
    <3>1. n \in 1 .. N
      BY <1>1, <1>2, SMT
    <3>2. CASE n = N
      BY <1>2, <2>1, <2>2, <2>5, <3>2
    <3>3. CASE n # N
      <4>1. n \in 1 .. N - 1 /\ n + 1 \in 1 .. N
        BY <1>1, <3>1, <3>3, SMT
      <4>2. queue[n] # tail
        BY <2>1, <2>2, <3>1, <3>3 DEF N
      <4>3. link'[queue[n]] = link[queue[n]]
        BY <1>3, <2>5, <3>1, <4>2
      <4>4. link[queue[n]] = queue[n + 1]
        BY <2>1, <4>1
      <4>5. queue'[n] = queue[n] /\ queue'[n + 1] = queue[n + 1]
        BY <1>2, <3>1, <4>1
      <4>. QED  BY <4>3, <4>4, <4>5
    <3>. QED  BY <3>2, <3>3
  <2>. QED  BY <1>2, <1>5, <2>1, <2>5, <2>6 DEF QueueLinked
<1>. QED  BY <1>4, <1>5

LEMMA LinkedType ==
    ASSUME ListTypeOK, NEW b \in Buffers
    PROVE  Linked(b) \in [Buffers -> Buffers \cup {NoBuffer}]
  BY DEF ListTypeOK, Linked

-----------------------------------------------------------------------------
(* The cache's list. *)

\* buffer_init() puts every buffer into the list.
LEMMA InitLists == Init => Lists(lru)
<1>. SUFFICES ASSUME Init PROVE Lists(lru)
  OBVIOUS
<1>1. CACHE_SIZE \in Nat /\ lru = [n \in 1 .. CACHE_SIZE |-> CACHE_SIZE + 1 - n]
  BY DiskAssumption DEF Init
<1>2. lru \in Seq(Buffers) /\ Len(lru) = CACHE_SIZE
  BY <1>1, SMT DEF Buffers
<1>3. ASSUME NEW b \in Buffers PROVE \E n \in 1 .. CACHE_SIZE : lru[n] = b
  <2>1. CACHE_SIZE + 1 - b \in 1 .. CACHE_SIZE /\ CACHE_SIZE + 1 - (CACHE_SIZE + 1 - b) = b
    BY <1>1, SMT DEF Buffers
  <2>. QED  BY <1>1, <2>1
<1>. QED  BY <1>2, <1>3 DEF Lists

\* buffer_release() moves a buffer within the list.
LEMMA MovedLists == ASSUME Lists(lru), NEW b \in Buffers PROVE Lists(MovedToFront(b))
<1>. DEFINE r == CHOOSE n \in 1 .. Len(lru) : lru[n] = b
            l == [n \in 1 .. Len(lru) |-> IF n = 1 THEN b ELSE IF n <= r THEN lru[n - 1] ELSE lru[n]]
<1>1. lru \in Seq(Buffers) /\ Len(lru) \in Nat
  BY SMT DEF Lists
<1>2. r \in 1 .. Len(lru) /\ lru[r] = b
  BY DEF Lists
<1>3. MovedToFront(b) = l
  BY DEF MovedToFront
<1>. HIDE DEF r
<1>4. ASSUME NEW n \in 1 .. Len(lru) PROVE l[n] \in Buffers
  BY <1>1, <1>2, SMT
<1>5. l \in Seq(Buffers) /\ Len(l) = Len(lru)
  BY <1>1, <1>4, SMT
<1>6. ASSUME NEW c \in Buffers PROVE \E n \in 1 .. Len(lru) : l[n] = c
  <2>1. PICK j \in 1 .. Len(lru) : lru[j] = c
    BY DEF Lists
  <2>2. CASE j = r
    <3>1. l[1] = b /\ 1 \in 1 .. Len(lru)
      BY <1>1, <1>2, SMT
    <3>. QED  BY <1>2, <2>1, <2>2, <3>1
  <2>3. CASE j < r
    <3>1. j + 1 \in 1 .. Len(lru) /\ j + 1 # 1 /\ j + 1 <= r /\ (j + 1) - 1 = j
      BY <1>1, <1>2, <2>3, SMT
    <3>2. l[j + 1] = lru[j]
      BY <3>1
    <3>. QED  BY <2>1, <3>1, <3>2
  <2>4. CASE j > r
    <3>1. j # 1 /\ ~(j <= r)
      BY <1>1, <1>2, <2>4, SMT
    <3>. QED  BY <2>1, <3>1
  <2>. QED  BY <1>1, <1>2, <2>2, <2>3, <2>4, SMT
<1>. QED  BY <1>3, <1>5, <1>6 DEF Lists

\* What buffer_get() finds in the list.
LEMMA HitBuffer == ASSUME NEW k, NEW b, FirstHit(k, b) PROVE block[b] = k
  BY DEF FirstHit, Hits

LEMMA UnusedBuffer == ASSUME NEW b, LastUnused(b) PROVE ~busy[b]
  BY DEF LastUnused, Unused

LEMMA NoHit == ASSUME LockTypeOK, NEW k, Hits(k) = {}, NEW b \in Buffers PROVE block[b] # k
  BY DEF LockTypeOK, Lists, Hits

-----------------------------------------------------------------------------
(* Types. *)

LEMMA OffsetFacts == SECTORS \in Nat \ {0} /\ 0 \in Offsets /\ Offsets \subseteq Nat
  BY DiskAssumption, SMT DEF Offsets

\* disk_submit() of a buffer that is not in the queue.
LEMMA SubmitFacts ==
    ASSUME TypeOK, QueueLinked, cut = "no", NEW p \in Clients, NEW b \in Buffers,
           b \notin Range(queue), NEW w \in BOOLEAN,
           NEW f \in [Buffers -> [Offsets -> Nat]], NEW l \in Labels, Submit(p, b, w, f, l)
    PROVE  /\ dirty' = [dirty EXCEPT ![b] = w] /\ pc' = [pc EXCEPT ![p] = l]
           /\ cut' = "no" /\ queue' = Append(queue, b) /\ link' = Linked(b)
           /\ tail' = b /\ head' = (IF queue = <<>> THEN b ELSE head)
           /\ offset' \in Nat /\ hw' \in Hardware
           /\ queue = <<>> => /\ offset' = 0 /\ hw'.status = "busy" /\ hw'.lba = <<block[b], 0>>
                              /\ hw'.cmd = IF dirty'[b] THEN "write" ELSE "read"
                              /\ dirty'[b] => hw'.buffer = f[b][0]
           /\ queue # <<>> => offset' = offset /\ hw' = hw
<1>1. /\ dirty' = [dirty EXCEPT ![b] = w] /\ pc' = [pc EXCEPT ![p] = l]
      /\ cut' = "no" /\ queue' = Append(queue, b) /\ link' = Linked(b) /\ tail' = b
      /\ head' = IF head = NoBuffer THEN b ELSE head
      /\ head' = b => offset' = 0 /\ hw' = Started(b, 0, dirty', f)
      /\ head' # b => offset' = offset /\ hw' = hw
  BY DEF Submit
<1>2. dirty' \in [Buffers -> BOOLEAN] /\ dirty'[b] = w
  BY <1>1 DEF TypeOK
<1>3. CASE queue = <<>>
  <2>1. head' = b
    BY <1>1, <1>3, ListEnds, ListTypes
  <2>2. hw' = [status |-> "busy", cmd |-> IF dirty'[b] THEN "write" ELSE "read",
               lba |-> <<block[b], 0>>, buffer |-> IF dirty'[b] THEN f[b][0] ELSE hw.buffer]
    BY <1>1, <2>1 DEF Started
  <2>3. <<block[b], 0>> \in Numbered \X Nat /\ (IF dirty'[b] THEN f[b][0] ELSE hw.buffer) \in Nat
    BY OffsetFacts, SMT DEF TypeOK, Hardware
  <2>4. hw' \in Hardware
    BY <2>2, <2>3 DEF Hardware
  <2>5. /\ hw'.status = "busy" /\ hw'.lba = <<block[b], 0>>
        /\ hw'.cmd = (IF dirty'[b] THEN "write" ELSE "read")
        /\ dirty'[b] => hw'.buffer = f[b][0]
    BY <2>2
  <2>6. offset' = 0 /\ offset' \in Nat
    BY <1>1, <2>1, SMT
  <2>. QED  BY <1>1, <1>3, <2>1, <2>4, <2>5, <2>6
<1>4. CASE queue # <<>>
  <2>1. head # NoBuffer /\ head # b
    BY <1>4, ListEnds, ListTypes
  <2>. QED  BY <1>1, <1>4, <2>1 DEF TypeOK
<1>. QED  BY <1>3, <1>4

LEMMA LabelsAre == Labels = {"user", "get", "waiting", "got", "reading", "read", "held", "writing", "written"}
  BY DEF Labels, Holding

\* Who is woken stays a holder, or does not become one.
LEMMA AwakeFacts ==
    ASSUME LockTypeOK, NEW p \in Clients
    PROVE  /\ Awake(p) \in Labels /\ Awake(p) # "waiting"
           /\ Awake(p) \in Holding <=> pc[p] \in Holding
           /\ Awake(p) = "user" <=> pc[p] = "user"
  BY LabelsAre DEF LockTypeOK, Awake, Holding

LEMMA WakeupFacts ==
    ASSUME LockTypeOK, NEW b
    PROVE  /\ Wakeup(b) \in [Clients -> Labels]
           /\ \A q \in Clients : /\ Wakeup(b)[q] \in Holding <=> pc[q] \in Holding
                                 /\ Wakeup(b)[q] = "user" <=> pc[q] = "user"
                                 /\ Wakeup(b)[q] = "waiting" => pc[q] = "waiting"
<1>1. \A q \in Clients : Wakeup(b)[q] = IF buf[q] = b THEN Awake(q) ELSE pc[q]
  BY DEF Wakeup
<1>2. Wakeup(b) \in [Clients -> Labels]
  BY AwakeFacts DEF Wakeup, LockTypeOK
<1>. QED  BY <1>1, <1>2, AwakeFacts

\* What disk_interrupt() does when a transfer is done: to sector offset of the
\* buffer at the head of the queue, ...
LEMMA InterruptFacts ==
    ASSUME TypeOK, QueueLinked, DiskInterrupt, hw.status = "ready", queue # <<>>,
           offset \in Offsets
    PROVE  /\ Head(queue) \in Buffers /\ Tail(queue) \in Seq(Buffers)
           /\ frame' = IF dirty[Head(queue)] THEN frame
                       ELSE [frame EXCEPT ![Head(queue)][offset] = hw.buffer]
           /\ frame' \in [Buffers -> [Offsets -> Nat]] /\ irq' = FALSE
           /\ UNCHANGED <<lru, block, busy, refcount, tail, link, cut, image, want, buf, run, changed, panicked>>
<1>1. /\ Head(queue) \in Buffers /\ Tail(queue) \in Seq(Buffers)
      /\ head = Head(queue) /\ head # NoBuffer
  BY TailFacts, ListEnds, ListTypes DEF TypeOK
<1>2. /\ frame' = (IF dirty[Head(queue)] THEN frame
                  ELSE [frame EXCEPT ![Head(queue)][offset] = hw.buffer])
      /\ UNCHANGED <<lru, block, busy, refcount, tail, link, cut, image, want, buf, run, changed, panicked>>
      /\ irq' = FALSE
  BY <1>1 DEF DiskInterrupt
<1>3. frame' \in [Buffers -> [Offsets -> Nat]]
  BY <1>1, <1>2 DEF TypeOK, Hardware
<1>. QED  BY <1>1, <1>2, <1>3

\* ... then it starts the next sector, ...
LEMMA InterruptNext ==
    ASSUME TypeOK, QueueLinked, DiskInterrupt, hw.status = "ready", queue # <<>>,
           offset \in Offsets, ~LastSector
    PROVE  /\ UNCHANGED <<valid, dirty, head, queue, pc>>
           /\ offset' = offset + 1 /\ offset + 1 \in Offsets /\ hw' \in Hardware
           /\ hw'.status = "busy" /\ hw'.lba = <<block[Head(queue)], offset + 1>>
           /\ hw'.cmd = IF dirty[Head(queue)] THEN "write" ELSE "read"
           /\ dirty[Head(queue)] => hw'.buffer = frame[Head(queue)][offset + 1]
<1>. DEFINE b == Head(queue)
<1>1. /\ b \in Buffers /\ frame' \in [Buffers -> [Offsets -> Nat]] /\ (dirty[b] => frame' = frame)
      /\ head = b /\ head # NoBuffer
  BY InterruptFacts, ListEnds, ListTypes
<1>2. /\ UNCHANGED <<valid, dirty, head, queue, pc>> /\ offset' = offset + 1
      /\ hw' = Started(b, offset + 1, dirty, frame')
  BY <1>1 DEF DiskInterrupt, NextOffset
<1>3. offset + 1 \in Offsets /\ offset + 1 \in Nat
  BY OffsetFacts, SMT DEF LastSector, NextOffset, Offsets
<1>4. hw' = [status |-> "busy", cmd |-> IF dirty[b] THEN "write" ELSE "read",
             lba |-> <<block[b], offset + 1>>,
             buffer |-> IF dirty[b] THEN frame'[b][offset + 1] ELSE hw.buffer]
  BY <1>2 DEF Started
<1>. HIDE DEF b
<1>5. <<block[b], offset + 1>> \in Numbered \X Nat
  BY <1>1, <1>3 DEF TypeOK
<1>5a. frame'[b][offset + 1] \in Nat /\ hw.buffer \in Nat
  BY <1>1, <1>3, SMT DEF TypeOK, Hardware
<1>6. hw' \in Hardware
  BY <1>4, <1>5, <1>5a DEF Hardware
<1>7. /\ hw'.status = "busy" /\ hw'.lba = <<block[b], offset + 1>>
      /\ hw'.cmd = (IF dirty[b] THEN "write" ELSE "read")
      /\ dirty[b] => hw'.buffer = frame[b][offset + 1]
  BY <1>1, <1>4
<1>. QED  BY <1>2, <1>3, <1>6, <1>7 DEF b

\* ... or finishes the request and starts the next one, if there is one.
LEMMA InterruptLast ==
    ASSUME TypeOK, QueueLinked, DiskInterrupt, hw.status = "ready", queue # <<>>,
           offset \in Offsets, LastSector
    PROVE  /\ offset + 1 = SECTORS
           /\ valid' = [valid EXCEPT ![Head(queue)] = TRUE]
           /\ dirty' = [dirty EXCEPT ![Head(queue)] = FALSE]
           /\ queue' = Tail(queue) /\ pc' = Wakeup(Head(queue))
           /\ head' = link[head]
           /\ head' = IF Tail(queue) = <<>> THEN NoBuffer ELSE Head(Tail(queue))
<1>1. offset + 1 = SECTORS
  BY OffsetFacts, SMT DEF LastSector, NextOffset, Offsets
<1>2. head = Head(queue) /\ head # NoBuffer
  BY ListEnds, ListTypes
<1>3. /\ valid' = [valid EXCEPT ![head] = TRUE] /\ dirty' = [dirty EXCEPT ![head] = FALSE]
      /\ queue' = Tail(queue) /\ pc' = Wakeup(head) /\ head' = link[head]
  BY <1>2 DEF DiskInterrupt
<1>. QED  BY <1>1, <1>2, <1>3, ListNext, ListTypes

LEMMA InterruptStarts ==
    ASSUME TypeOK, QueueLinked, DiskInterrupt, hw.status = "ready", queue # <<>>,
           offset \in Offsets, LastSector
    PROVE  /\ offset' \in Nat /\ hw' \in Hardware
           /\ Tail(queue) = <<>> => hw' = hw
           /\ Tail(queue) # <<>> =>
                 /\ Head(Tail(queue)) \in Buffers /\ offset' = 0 /\ hw'.status = "busy"
                 /\ hw'.lba = <<block[Head(Tail(queue))], 0>>
                 /\ hw'.cmd = IF dirty'[Head(Tail(queue))] THEN "write" ELSE "read"
                 /\ dirty'[Head(Tail(queue))] => hw'.buffer = frame'[Head(Tail(queue))][0]
<1>1. queue' = Tail(queue) /\ Tail(queue) \in Seq(Buffers) /\ frame' \in [Buffers -> [Offsets -> Nat]]
  BY InterruptLast, InterruptFacts
<1>2. /\ head' = NoBuffer => offset' = offset + 1 /\ hw' = hw
      /\ head' # NoBuffer => offset' = 0 /\ hw' = Started(head', 0, dirty', frame')
  BY ListEnds, ListTypes DEF DiskInterrupt, NextOffset
<1>2a. head' = IF Tail(queue) = <<>> THEN NoBuffer ELSE Head(Tail(queue))
  BY InterruptLast
<1>3. CASE Tail(queue) = <<>>
  BY <1>2, <1>2a, <1>3, SMTT(30) DEF TypeOK
<1>4. CASE Tail(queue) # <<>>
  <2>. DEFINE c == Head(Tail(queue))
  <2>1. c \in Buffers /\ head' = c /\ head' # NoBuffer
    <3>1. c \in Buffers
      BY <1>1, <1>4, TailFacts
    <3>2. c # NoBuffer
      BY <3>1, NullIsNoBuffer
    <3>. QED  BY <1>2a, <1>4, <3>1, <3>2
  <2>2. hw' = [status |-> "busy", cmd |-> IF dirty'[c] THEN "write" ELSE "read",
               lba |-> <<block[c], 0>>,
               buffer |-> IF dirty'[c] THEN frame'[c][0] ELSE hw.buffer]
    BY <1>2, <2>1 DEF Started
  <2>. HIDE DEF c
  <2>3. <<block[c], 0>> \in Numbered \X Nat
    BY <2>1 DEF TypeOK
  <2>4. frame'[c][0] \in Nat /\ hw.buffer \in Nat
    BY <1>1, <2>1, OffsetFacts, SMT DEF TypeOK, Hardware
  <2>5. hw' \in Hardware
    BY <2>2, <2>3, <2>4 DEF Hardware
  <2>6. /\ hw'.status = "busy" /\ hw'.lba = <<block[c], 0>>
        /\ hw'.cmd = (IF dirty'[c] THEN "write" ELSE "read")
        /\ dirty'[c] => hw'.buffer = frame'[c][0]
    BY <2>2
  <2>7. offset' = 0
    BY <1>2, <2>1
  <2>. QED  BY <1>4, <2>1, <2>5, <2>6, <2>7 DEF c
<1>. QED  BY <1>3, <1>4

-----------------------------------------------------------------------------
(* The locks, whatever sys_kill() does. *)

\* Whoever holds a block holds it alone.
LEMMA LockOwner ==
    ASSUME LockInv, NEW p \in Clients, NEW q \in Clients, pc[p] \in Holding, pc[q] \in Holding
    PROVE  /\ buf[p] \in Buffers /\ want[p] \in Blocks /\ block[buf[p]] = want[p] /\ busy[buf[p]]
           /\ buf[p] = buf[q] => p = q
           /\ want[p] = want[q] => p = q
<1>1. buf[p] \in Buffers /\ buf[q] \in Buffers /\ want[p] \in Blocks
  BY DEF LockInv, Asking, Holding
<1>2. /\ block[buf[p]] = want[p] /\ block[buf[q]] = want[q] /\ busy[buf[p]]
      /\ buf[p] = buf[q] => p = q
  BY <1>1 DEF LockInv, OneHolder
<1>3. want[p] # NoBlock
  BY <1>1, DiskAssumption
<1>4. want[p] = want[q] => buf[p] = buf[q]
  BY <1>1, <1>2, <1>3, SMT DEF LockInv, OneHolder
<1>. QED  BY <1>1, <1>2, <1>4

\* Nobody holds the buffer that buffer_get() takes.
LEMMA LockUnheld ==
    ASSUME LockInv, NEW b \in Buffers, ~busy[b], NEW q \in Clients
    PROVE  pc[q] \in Holding => buf[q] # b /\ (block[b] \in Blocks => want[q] # block[b])
<1>1. pc[q] \in Holding => buf[q] # b
  BY SMT DEF LockInv, OneHolder
<1>2. ASSUME pc[q] \in Holding, block[b] \in Blocks, want[q] = block[b] PROVE FALSE
  <2>1. buf[q] \in Buffers /\ block[buf[q]] = want[q]
    BY <1>2, LockOwner
  <2>2. block[b] # NoBlock
    BY <1>2, DiskAssumption
  <2>3. buf[q] = b
    BY <1>2, <2>1, <2>2, SMT DEF LockInv, OneHolder
  <2>. QED  BY <1>1, <1>2, <2>3
<1>. QED  BY <1>1, <1>2

\* The holders stay the holders.
LEMMA LockKept ==
    ASSUME LockInv, UNCHANGED <<lru, block, busy, want, buf>>, pc' \in [Clients -> Labels],
           \A q \in Clients : /\ pc'[q] \in Holding <=> pc[q] \in Holding
                              /\ pc'[q] = "user" <=> pc[q] = "user"
                              /\ pc'[q] = "waiting" => pc[q] = "waiting"
    PROVE  LockInv'
<1>1. Asking'
  BY DEF LockInv, Asking
<1>2. OneHolder'
  BY DEF LockInv, OneHolder
<1>3. LockTypeOK'
  BY DEF LockInv, LockTypeOK
<1>. QED  BY <1>1, <1>2, <1>3 DEF LockInv

\* A client goes on where it is, or sleeps with what it holds.
LEMMA LockMoves ==
    ASSUME LockInv, UNCHANGED <<lru, block, busy, want, buf>>, NEW p \in Clients, NEW l \in Labels,
           pc' = [pc EXCEPT ![p] = l], l # "waiting",
           l \in Holding <=> pc[p] \in Holding, l = "user" <=> pc[p] = "user"
    PROVE  LockInv'
<1>1. /\ pc' \in [Clients -> Labels] /\ pc'[p] = l
      /\ \A q \in Clients : q # p => pc'[q] = pc[q]
  BY DEF LockInv, LockTypeOK
<1>. QED  BY <1>1, LockKept

\* What the steps that lock and unlock do to the clients and the flags.
LEMMA BufferReadFacts ==
    ASSUME LockInv, NEW p \in Clients, NEW k \in Blocks, BufferRead(p, k)
    PROVE  /\ pc[p] = "user" /\ pc'[p] = "get" /\ want'[p] = k
           /\ pc' \in [Clients -> Labels] /\ want' \in [Clients -> Numbered]
           /\ \A q \in Clients : q # p => pc'[q] = pc[q] /\ want'[q] = want[q]
           /\ UNCHANGED <<lru, block, busy, valid, dirty, refcount, frame,
                          head, tail, link, queue, cut, offset, hw, image, buf, changed>>
  BY LabelsAre DEF BufferRead, LockInv, LockTypeOK, Numbered, cacheVars, diskVars, queueVars

LEMMA GetSleepsFacts ==
    ASSUME LockInv, NEW p \in Clients, GetSleeps(p)
    PROVE  /\ pc[p] = "get" /\ pc'[p] = "waiting" /\ buf'[p] \in Buffers /\ busy[buf'[p]]
           /\ pc' \in [Clients -> Labels] /\ buf' \in [Clients -> Buffers \cup {NoBuffer}]
           /\ \A q \in Clients : q # p => pc'[q] = pc[q] /\ buf'[q] = buf[q]
           /\ UNCHANGED <<lru, block, busy, valid, dirty, refcount, frame,
                          head, tail, link, queue, cut, offset, hw, image, want, changed>>
<1>1. PICK b \in Buffers :
         /\ pc[p] = "get" /\ pc' = [pc EXCEPT ![p] = "waiting"] /\ busy[b]
         /\ buf' = [buf EXCEPT ![p] = b]
         /\ UNCHANGED <<lru, block, busy, valid, dirty, refcount, frame,
                        head, tail, link, queue, cut, offset, hw, image, want, changed>>
  BY DEF GetSleeps, cacheVars, diskVars, queueVars
<1>. QED  BY <1>1, LabelsAre DEF LockInv, LockTypeOK

\* buffer_get() locked buffer b, which has the block.
Hit(p, b) ==
    /\ pc[p] = "get" /\ pc'[p] = "got" /\ buf'[p] = b
    /\ ~busy[b] /\ block[b] = want[p] /\ want[p] \in Blocks /\ busy'[b]
    /\ pc' \in [Clients -> Labels] /\ buf' \in [Clients -> Buffers \cup {NoBuffer}]
    /\ busy' \in [Buffers -> BOOLEAN]
    /\ \A q \in Clients : q # p => pc'[q] = pc[q] /\ buf'[q] = buf[q]
    /\ \A c \in Buffers : c # b => busy'[c] = busy[c]
    /\ \A q \in Clients : pc[q] \in Holding => buf[q] # b /\ want[q] # want[p]
    /\ UNCHANGED <<lru, block, valid, dirty, frame,
                   head, tail, link, queue, cut, offset, hw, image, want, changed>>

LEMMA GetHitsFacts ==
    ASSUME LockInv, NEW p \in Clients, GetHits(p)
    PROVE  \E b \in Buffers : Hit(p, b)
<1>1. PICK b \in Buffers :
         /\ pc[p] = "get" /\ pc' = [pc EXCEPT ![p] = "got"] /\ ~busy[b] /\ block[b] = want[p]
         /\ buf' = [buf EXCEPT ![p] = b] /\ busy' = [busy EXCEPT ![b] = TRUE]
         /\ UNCHANGED <<lru, block, valid, dirty, frame,
                        head, tail, link, queue, cut, offset, hw, image, want, changed>>
  BY HitBuffer DEF GetHits, diskVars, queueVars
<1>2. want[p] \in Blocks
  BY <1>1 DEF LockInv, Asking
<1>3. \A q \in Clients : pc[q] \in Holding => buf[q] # b /\ want[q] # want[p]
  BY <1>1, <1>2, LockUnheld
<1>4. /\ pc' \in [Clients -> Labels] /\ buf' \in [Clients -> Buffers \cup {NoBuffer}]
      /\ busy' \in [Buffers -> BOOLEAN] /\ pc'[p] = "got" /\ buf'[p] = b /\ busy'[b]
      /\ \A q \in Clients : q # p => pc'[q] = pc[q] /\ buf'[q] = buf[q]
      /\ \A c \in Buffers : c # b => busy'[c] = busy[c]
  BY <1>1, LabelsAre DEF LockInv, LockTypeOK
<1>. QED  BY <1>1, <1>2, <1>3, <1>4 DEF Hit

\* buffer_get() took the free buffer b for a block that no buffer has.
Recycled(p, b) ==
    /\ pc[p] = "get" /\ pc'[p] = "got" /\ buf'[p] = b
    /\ ~busy[b] /\ want[p] \in Blocks /\ busy'[b] /\ block'[b] = want[p]
    /\ pc' \in [Clients -> Labels] /\ buf' \in [Clients -> Buffers \cup {NoBuffer}]
    /\ busy' \in [Buffers -> BOOLEAN] /\ block' \in [Buffers -> Numbered]
    /\ valid' = [valid EXCEPT ![b] = FALSE] /\ dirty' = [dirty EXCEPT ![b] = FALSE]
    /\ \A q \in Clients : q # p => pc'[q] = pc[q] /\ buf'[q] = buf[q]
    /\ \A c \in Buffers : c # b => busy'[c] = busy[c] /\ block'[c] = block[c]
    /\ \A c \in Buffers : block[c] # want[p]
    /\ \A q \in Clients : pc[q] \in Holding => buf[q] # b
    /\ UNCHANGED <<lru, frame, head, tail, link, queue, cut, offset, hw, image, want,
                   changed>>

LEMMA GetRecyclesFacts ==
    ASSUME LockInv, NEW p \in Clients, GetRecycles(p)
    PROVE  \E b \in Buffers : Recycled(p, b)
<1>1. PICK b \in Buffers :
         /\ pc[p] = "get" /\ pc' = [pc EXCEPT ![p] = "got"] /\ ~busy[b]
         /\ block' = [block EXCEPT ![b] = want[p]] /\ valid' = [valid EXCEPT ![b] = FALSE]
         /\ dirty' = [dirty EXCEPT ![b] = FALSE]
         /\ buf' = [buf EXCEPT ![p] = b] /\ busy' = [busy EXCEPT ![b] = TRUE]
         /\ UNCHANGED <<lru, frame, head, tail, link, queue, cut, offset, hw, image, want, changed>>
  BY UnusedBuffer DEF GetRecycles, diskVars, queueVars
<1>2. want[p] \in Blocks
  BY <1>1 DEF LockInv, Asking
<1>3. \A q \in Clients : pc[q] \in Holding => buf[q] # b
  BY <1>1, LockUnheld
<1>4. \A c \in Buffers : block[c] # want[p]
  BY NoHit DEF GetRecycles, LockInv
<1>5. /\ pc' \in [Clients -> Labels] /\ buf' \in [Clients -> Buffers \cup {NoBuffer}]
      /\ busy' \in [Buffers -> BOOLEAN] /\ block' \in [Buffers -> Numbered]
      /\ pc'[p] = "got" /\ buf'[p] = b /\ busy'[b] /\ block'[b] = want[p]
      /\ \A q \in Clients : q # p => pc'[q] = pc[q] /\ buf'[q] = buf[q]
      /\ \A c \in Buffers : c # b => busy'[c] = busy[c] /\ block'[c] = block[c]
  BY <1>1, LabelsAre DEF LockInv, LockTypeOK
<1>. QED  BY <1>1, <1>2, <1>3, <1>4, <1>5 DEF Recycled

LEMMA ReleaseFacts ==
    ASSUME LockInv, NEW p \in Clients, BufferRelease(p)
    PROVE  /\ pc[p] \in {"held", "written"} /\ pc[p] \in Holding
           /\ buf[p] \in Buffers /\ want[p] \in Blocks /\ block[buf[p]] = want[p] /\ busy[buf[p]]
           /\ pc'[p] = "user" /\ buf'[p] = NoBuffer
           /\ pc' \in [Clients -> Labels] /\ buf' \in [Clients -> Buffers \cup {NoBuffer}]
           /\ busy' \in [Buffers -> BOOLEAN] /\ Lists(lru')
           /\ ~busy'[buf[p]] /\ \A c \in Buffers : c # buf[p] => busy'[c] = busy[c]
           /\ \A q \in Clients : q # p =>
                 /\ buf'[q] = buf[q]
                 /\ pc'[q] = IF buf[q] = buf[p] /\ pc[q] = "waiting" THEN "get" ELSE pc[q]
           /\ \A q \in Clients : q # p /\ pc[q] \in Holding =>
                 buf[q] # buf[p] /\ buf[q] \in Buffers /\ want[q] # want[p]
           /\ UNCHANGED <<block, valid, dirty, frame, head, tail, link, queue, cut, offset, hw,
                          image, want, changed>>
<1>. DEFINE b == buf[p]
<1>1. /\ pc[p] \in {"held", "written"} /\ pc' = [Wakeup(b) EXCEPT ![p] = "user"]
      /\ busy' = [busy EXCEPT ![b] = FALSE] /\ buf' = [buf EXCEPT ![p] = NoBuffer]
      /\ lru' = MovedToFront(b) \/ lru' = lru
      /\ UNCHANGED <<block, valid, dirty, frame, head, tail, link, queue, cut, offset, hw,
                     image, want, changed>>
  BY DEF BufferRelease, diskVars, queueVars
<1>2. pc[p] \in Holding /\ b \in Buffers /\ want[p] \in Blocks /\ block[b] = want[p] /\ busy[b]
  BY <1>1, LockOwner DEF Holding
<1>3. ASSUME NEW q \in Clients, q # p
      PROVE  /\ buf'[q] = buf[q]
             /\ pc'[q] = IF buf[q] = b /\ pc[q] = "waiting" THEN "get" ELSE pc[q]
  <2>1. pc[q] \in Holding => buf[q] # b
    BY <1>2, <1>3, LockOwner
  <2>2. pc'[q] = IF buf[q] = b THEN Awake(q) ELSE pc[q]
    BY <1>1, <1>3 DEF Wakeup
  <2>. QED  BY <1>1, <1>3, <2>1, <2>2 DEF LockInv, LockTypeOK, Awake, Holding
<1>4. Lists(lru')
  BY <1>1, <1>2, MovedLists DEF LockInv, LockTypeOK
<1>5. Wakeup(b) \in [Clients -> Labels]
  BY WakeupFacts DEF LockInv
<1>. HIDE DEF b
<1>6. /\ pc'[p] = "user" /\ buf'[p] = NoBuffer
      /\ ~busy'[b] /\ \A c \in Buffers : c # b => busy'[c] = busy[c]
      /\ pc' \in [Clients -> Labels] /\ buf' \in [Clients -> Buffers \cup {NoBuffer}]
      /\ busy' \in [Buffers -> BOOLEAN]
  BY <1>1, <1>2, <1>5, LabelsAre DEF LockInv, LockTypeOK
<1>7. \A q \in Clients : q # p /\ pc[q] \in Holding =>
         buf[q] # b /\ buf[q] \in Buffers /\ want[q] # want[p]
  BY <1>2, LockOwner DEF b
<1>. QED  BY <1>1, <1>2, <1>3, <1>4, <1>6, <1>7 DEF b

\* They keep the locks.
LEMMA LockTakes ==
    ASSUME LockInv, NEW p \in Clients,
           \/ \E k \in Blocks : BufferRead(p, k)
           \/ GetSleeps(p) \/ GetHits(p) \/ GetRecycles(p)
    PROVE  LockInv'
<1>. USE DEF LockInv
<1>1. ASSUME NEW k \in Blocks, BufferRead(p, k) PROVE LockInv'
  <2>1. Asking'
    BY <1>1, BufferReadFacts DEF Asking, Holding
  <2>2. OneHolder'
    BY <1>1, BufferReadFacts, SMTT(30) DEF OneHolder, Holding
  <2>3. LockTypeOK'
    BY <1>1, BufferReadFacts DEF LockTypeOK
  <2>. QED  BY <2>1, <2>2, <2>3
<1>2. CASE GetSleeps(p)
  <2>1. Asking'
    BY <1>2, GetSleepsFacts, SMTT(30) DEF Asking, Holding
  <2>2. OneHolder'
    BY <1>2, GetSleepsFacts, SMTT(30) DEF OneHolder, Holding
  <2>3. LockTypeOK'
    BY <1>2, GetSleepsFacts DEF LockTypeOK
  <2>. QED  BY <2>1, <2>2, <2>3
<1>3. CASE GetHits(p)
  <2>0. PICK b \in Buffers : Hit(p, b)
    BY <1>3, GetHitsFacts
  <2>1. /\ pc[p] = "get" /\ pc'[p] = "got" /\ buf'[p] = b
        /\ ~busy[b] /\ block[b] = want[p] /\ want[p] \in Blocks /\ busy'[b]
        /\ pc' \in [Clients -> Labels] /\ buf' \in [Clients -> Buffers \cup {NoBuffer}]
        /\ busy' \in [Buffers -> BOOLEAN]
        /\ \A q \in Clients : q # p => pc'[q] = pc[q] /\ buf'[q] = buf[q]
        /\ \A c \in Buffers : c # b => busy'[c] = busy[c]
        /\ \A q \in Clients : pc[q] \in Holding => buf[q] # b /\ want[q] # want[p]
        /\ UNCHANGED <<lru, block, want>>
    BY <2>0 DEF Hit
  <2>2. Asking'
    BY <2>1, SMTT(30) DEF Asking, Holding
  <2>3. OneHolder'
    BY <2>1, SMT DEF OneHolder, Holding
  <2>4. LockTypeOK'
    BY <2>1 DEF LockTypeOK
  <2>. QED  BY <2>2, <2>3, <2>4
<1>4. CASE GetRecycles(p)
  <2>0. PICK b \in Buffers : Recycled(p, b)
    BY <1>4, GetRecyclesFacts
  <2>1. /\ pc[p] = "get" /\ pc'[p] = "got" /\ buf'[p] = b
        /\ ~busy[b] /\ want[p] \in Blocks /\ busy'[b] /\ block'[b] = want[p]
        /\ pc' \in [Clients -> Labels] /\ buf' \in [Clients -> Buffers \cup {NoBuffer}]
        /\ busy' \in [Buffers -> BOOLEAN] /\ block' \in [Buffers -> Numbered]
        /\ \A q \in Clients : q # p => pc'[q] = pc[q] /\ buf'[q] = buf[q]
        /\ \A c \in Buffers : c # b => busy'[c] = busy[c] /\ block'[c] = block[c]
        /\ \A c \in Buffers : block[c] # want[p]
        /\ \A q \in Clients : pc[q] \in Holding => buf[q] # b
        /\ UNCHANGED <<lru, want>>
    BY <2>0 DEF Recycled
  <2>2. \A q \in Clients : pc[q] \in Holding => buf[q] \in Buffers /\ block[buf[q]] = want[q]
    BY LockOwner
  <2>3. Asking'
    BY <2>1 DEF Asking, Holding
  <2>4. OneHolder'
    <3>1. \A c, d \in Buffers : block'[c] = block'[d] /\ block'[c] # NoBlock => c = d
      BY <2>1, SMTT(30) DEF OneHolder
    <3>2. \A c \in Buffers : busy'[c] <=> \E q \in Clients : pc'[q] \in Holding /\ buf'[q] = c
      BY <2>1, SMTT(30) DEF OneHolder, Holding
    <3>3. \A q, t \in Clients : pc'[q] \in Holding /\ pc'[t] \in Holding /\ buf'[q] = buf'[t] => q = t
      BY <2>1, SMTT(30) DEF OneHolder
    <3>4. \A q \in Clients : pc'[q] \in Holding => block'[buf'[q]] = want'[q]
      BY <2>1, <2>2, SMT
    <3>. QED  BY <3>1, <3>2, <3>3, <3>4 DEF OneHolder
  <2>5. LockTypeOK'
    BY <2>1 DEF LockTypeOK
  <2>. QED  BY <2>3, <2>4, <2>5
<1>. QED  BY <1>1, <1>2, <1>3, <1>4

LEMMA LockReleases == ASSUME LockInv, NEW p \in Clients, BufferRelease(p) PROVE LockInv'
<1>. USE DEF LockInv
<1>1. Asking'
  BY ReleaseFacts DEF Asking, Holding
<1>2. \A q \in Clients : q # p => (pc'[q] \in Holding <=> pc[q] \in Holding)
  BY ReleaseFacts DEF Holding
<1>3. OneHolder'
  BY <1>2, ReleaseFacts, SMTT(30) DEF OneHolder, Holding
<1>4. LockTypeOK'
  BY ReleaseFacts DEF LockTypeOK
<1>. QED  BY <1>1, <1>3, <1>4

\* Every step keeps the locks.
LEMMA NextLock == LockInv /\ [Next]_vars => LockInv'
<1>. SUFFICES ASSUME LockInv, [Next]_vars PROVE LockInv'
  OBVIOUS
<1>1. CASE UNCHANGED <<lru, block, busy, want, buf, pc>>
  BY <1>1, LockKept DEF LockInv, LockTypeOK
<1>2. CASE DiskInterrupt
  <2>1. UNCHANGED <<lru, block, busy, want, buf>> /\ (pc' = pc \/ pc' = Wakeup(head))
    BY <1>2 DEF DiskInterrupt
  <2>2. CASE pc' = pc
    BY <1>1, <2>1, <2>2
  <2>3. CASE pc' = Wakeup(head)
    BY <2>1, <2>3, WakeupFacts, LockKept DEF LockInv
  <2>. QED  BY <2>1, <2>2, <2>3
<1>3. ASSUME NEW p \in Clients,
             \/ \E k \in Blocks : BufferRead(p, k)
             \/ GetSleeps(p) \/ GetHits(p) \/ GetRecycles(p)
      PROVE  LockInv'
  BY <1>3, LockTakes
<1>4. ASSUME NEW p \in Clients, GetPanics(p) PROVE LockInv'
  BY <1>1, <1>4 DEF GetPanics, cacheVars
<1>5. ASSUME NEW p \in Clients, ReadCached(p) \/ ReadDone(p) PROVE LockInv'
  <2>1. /\ pc[p] \in {"got", "read"} /\ pc' = [pc EXCEPT ![p] = "held"]
        /\ UNCHANGED <<lru, block, busy, want, buf>>
    BY <1>5 DEF ReadCached, ReadDone, cacheVars
  <2>. QED  BY <2>1, LockMoves, LabelsAre DEF Holding
<1>6. ASSUME NEW p \in Clients, ReadSubmits(p) \/ BufferWrite(p) PROVE LockInv'
  <2>1. /\ pc[p] \in {"got", "held"} /\ UNCHANGED <<lru, block, busy, want, buf>>
        /\ \/ pc' = [pc EXCEPT ![p] = "reading"]
           \/ pc' = [pc EXCEPT ![p] = "writing"]
    BY <1>6 DEF ReadSubmits, BufferWrite, Submit
  <2>. QED  BY <2>1, LockMoves, LabelsAre DEF Holding
<1>7. ASSUME NEW p \in Clients, BufferRelease(p) PROVE LockInv'
  BY <1>7, LockReleases
<1>8. ASSUME NEW p \in Clients, SysKill(p) PROVE LockInv'
  <2>1. pc' = [pc EXCEPT ![p] = Awake(p)] /\ UNCHANGED <<lru, block, busy, want, buf>>
    BY <1>8 DEF SysKill, cacheVars
  <2>. QED  BY <2>1, AwakeFacts, LockMoves DEF LockInv
<1>9. CASE DiskStep \/ DiskStepLost \/ DiskStepFails \/ UNCHANGED vars
  BY <1>1, <1>9 DEF DiskStep, DiskStepLost, DiskStepFails, Transferred, vars, cacheVars, clientVars
<1>. QED
  BY <1>2, <1>3, <1>4, <1>5, <1>6, <1>7, <1>8, <1>9 DEF Next, Halted

-----------------------------------------------------------------------------
(* The types of all variables, until a transfer is cut short. *)

LEMMA InitTypeOK == Init => TypeOK
<1>. SUFFICES ASSUME Init PROVE TypeOK
  OBVIOUS
<1>1. Lists(lru)
  BY InitLists
<1>2. <<NoBlock, 0>> \in Numbered \X Nat
  BY DEF Numbered
<1>3. hw \in Hardware
  BY <1>2 DEF Init, Hardware
<1>4. irq \in BOOLEAN /\ panicked \in BOOLEAN
  BY DEF Init
<1>5. "user" \in Labels /\ NoBlock \in Numbered
  BY DEF Labels, Numbered
<1>6. queue \in Seq(Buffers) /\ offset \in Nat
  BY SMT DEF Init
<1>7. /\ head \in Buffers \cup {NoBuffer} /\ tail \in Buffers \cup {NoBuffer}
      /\ link \in [Buffers -> Buffers \cup {NoBuffer}]
  BY DEF Init
<1>. QED  BY <1>1, <1>3, <1>4, <1>5, <1>6, <1>7, SMT DEF Init, TypeOK

\* Whoever holds a block holds it alone, and nobody holds a buffer that
\* buffer_get() takes.
LEMMA Owner ==
    ASSUME IInv, NEW p \in Clients, NEW q \in Clients, pc[p] \in Holding, pc[q] \in Holding
    PROVE  /\ buf[p] \in Buffers /\ want[p] \in Blocks /\ block[buf[p]] = want[p] /\ busy[buf[p]]
           /\ buf[p] = buf[q] => p = q
           /\ want[p] = want[q] => p = q
  BY IInvParts, LockOwner

LEMMA Unheld ==
    ASSUME IInv, NEW b \in Buffers, ~busy[b], NEW q \in Clients
    PROVE  pc[q] \in Holding => buf[q] # b /\ (block[b] \in Blocks => want[q] # block[b])
  BY IInvParts, LockUnheld

\* A client that is not asleep in disk_submit() has its buffer not in the queue.
LEMMA NotQueued ==
    ASSUME IInv, NEW p \in Clients, pc[p] \in Holding, pc[p] \notin Queued
    PROVE  buf[p] \in Buffers /\ buf[p] \notin Range(queue)
<1>1. queue \in Seq(Buffers) /\ DOMAIN queue = 1 .. Len(queue)
  BY IInvParts, SMT DEF TypeOK
<1>2. ASSUME NEW n \in 1 .. Len(queue) PROVE queue[n] # buf[p]
  <2>1. PICK q \in Clients : pc[q] \in Queued /\ buf[q] = queue[n]
    BY IInvParts DEF QueueHasSleepers, Queued
  <2>2. pc[q] \in Holding /\ q # p
    BY <2>1 DEF Queued, Holding
  <2>. QED  BY <2>1, <2>2, Owner
<1>3. buf[p] \in Buffers
  BY Owner
<1>4. buf[p] \notin Range(queue)
  BY <1>1, <1>2 DEF Range
<1>. QED  BY <1>3, <1>4

\* The client whose transfer the disk is at.
LEMMA HeadClient ==
    ASSUME IInv, queue # <<>>
    PROVE  /\ Head(queue) \in Buffers /\ Head(queue) = queue[1] /\ 1 \in 1 .. Len(queue)
           /\ block[Head(queue)] \in Blocks
           /\ \E p \in Clients : /\ pc[p] \in Queued /\ buf[p] = Head(queue)
                                 /\ want[p] = block[Head(queue)]
<1>1. /\ queue \in Seq(Buffers) /\ Head(queue) = queue[1] /\ 1 \in 1 .. Len(queue)
      /\ Head(queue) \in Buffers
  BY IInvParts, SMT DEF TypeOK
<1>2. PICK p \in Clients : pc[p] \in Queued /\ buf[p] = queue[1]
  BY <1>1, IInvParts DEF QueueHasSleepers, Queued
<1>3. pc[p] \in Holding /\ pc[p] # "user"
  BY <1>2 DEF Queued, Holding
<1>4. want[p] = block[queue[1]] /\ want[p] \in Blocks
  BY <1>2, <1>3, IInvParts DEF OneHolder, Asking
<1>. QED  BY <1>1, <1>2, <1>4

LEMMA ImageSector ==
    ASSUME IInv, hw.status = "busy"
    PROVE  /\ queue # <<>> /\ hw.lba = <<block[Head(queue)], offset>>
           /\ hw.lba[1] = block[Head(queue)] /\ hw.lba[2] = offset
           /\ hw.lba[1] \in Blocks /\ hw.lba[2] \in Offsets
<1>1. queue # <<>>
  BY IInvParts DEF Transfer
<1>2. hw.lba = <<block[Head(queue)], offset>> /\ offset \in Offsets
  BY <1>1, IInvParts DEF Transfer
<1>. QED  BY <1>1, <1>2, HeadClient, SMT

\* What a client writes before it calls buffer_write().
LEMMA WriteFrames ==
    ASSUME IInv, NEW p \in Clients, BufferWrite(p)
    PROVE  /\ buf[p] \in Buffers /\ want[p] \in Blocks /\ pc[p] = "held"
           /\ frame' \in [Buffers -> [Offsets -> Nat]]
           /\ \A b \in Buffers : b # buf[p] => frame'[b] = frame[b]
           /\ \A s \in Offsets : frame'[buf[p]][s] = frame[buf[p]][s] + 1
           /\ changed' = [changed EXCEPT ![want[p]] = @ + 1] /\ changed' \in [Blocks -> Nat]
           /\ Submit(p, buf[p], TRUE, frame', "writing")
<1>1. /\ pc[p] = "held" /\ changed' = [changed EXCEPT ![want[p]] = @ + 1]
      /\ frame' = [frame EXCEPT ![buf[p]] = [s \in Offsets |-> frame[buf[p]][s] + 1]]
      /\ Submit(p, buf[p], TRUE, frame', "writing")
  BY DEF BufferWrite
<1>2. buf[p] \in Buffers /\ want[p] \in Blocks
  BY <1>1, IInvParts DEF Asking, Holding
<1>3. [s \in Offsets |-> frame[buf[p]][s] + 1] \in [Offsets -> Nat]
  BY <1>2, IInvParts, SMT DEF TypeOK
<1>4. changed' \in [Blocks -> Nat]
  BY <1>1, <1>2, IInvParts, SMT DEF TypeOK
<1>5. frame' \in [Buffers -> [Offsets -> Nat]]
  BY <1>1, <1>2, <1>3, IInvParts DEF TypeOK
<1>6. /\ \A b \in Buffers : b # buf[p] => frame'[b] = frame[b]
      /\ \A s \in Offsets : frame'[buf[p]][s] = frame[buf[p]][s] + 1
  BY <1>1, <1>2, IInvParts DEF TypeOK
<1>. QED  BY <1>1, <1>2, <1>4, <1>5, <1>6

LEMMA NextTypeOK == IInv /\ [Next]_vars => TypeOK'
<1>. SUFFICES ASSUME IInv, [Next]_vars PROVE TypeOK'
  OBVIOUS
<1>1. TypeOK /\ Asking /\ Transfer /\ QueueLinked /\ cut = "no" /\ LockTypeOK'
  BY IInvParts, NextLock DEF LockInv
<1>. USE <1>1, LabelsAre DEF TypeOK, LockTypeOK
<1>2. CASE DiskStep \/ DiskStepLost
  <2>0. Transferred /\ irq' \in BOOLEAN
    BY <1>2 DEF DiskStep, DiskStepLost
  <2>1. CASE hw.cmd = "read"
    <3>1. /\ hw' = [hw EXCEPT !.status = "ready", !.buffer = image[hw.lba[1]][hw.lba[2]]]
          /\ image' = image /\ UNCHANGED <<cacheVars, queueVars, offset, clientVars>>
      BY <2>0, <2>1 DEF Transferred
    <3>2. image[hw.lba[1]][hw.lba[2]] \in Nat
      BY <2>0, ImageSector, SMT DEF Transferred
    <3>3. hw' \in Hardware
      BY <3>1, <3>2 DEF Hardware
    <3>. QED  BY <2>0, <3>1, <3>3 DEF cacheVars, queueVars, clientVars
  <2>2. CASE hw.cmd # "read"
    <3>1. /\ hw' = [hw EXCEPT !.status = "ready"]
          /\ image' = [image EXCEPT ![hw.lba[1]][hw.lba[2]] = hw.buffer]
          /\ UNCHANGED <<cacheVars, queueVars, offset, clientVars>>
      BY <2>0, <2>2 DEF Transferred
    <3>2. hw' \in Hardware /\ hw.buffer \in Nat
      BY <3>1 DEF Hardware
    <3>3. image' \in [Blocks -> [Offsets -> Nat]]
      BY <2>0, <3>1, <3>2, ImageSector DEF Transferred
    <3>. QED  BY <2>0, <3>1, <3>2, <3>3 DEF cacheVars, queueVars, clientVars
  <2>. QED  BY <2>1, <2>2
<1>3. CASE DiskStepFails
  <2>1. hw' \in Hardware
    BY <1>3 DEF DiskStepFails, Hardware
  <2>. QED  BY <1>3, <2>1 DEF DiskStepFails, cacheVars, queueVars, clientVars
<1>4. CASE DiskInterrupt
  <2>1. CASE hw.status # "ready" \/ queue = <<>>
    BY <1>4, <2>1, ListEnds, ListTypes DEF DiskInterrupt
  <2>2. CASE hw.status = "ready" /\ queue # <<>>
    <3>1. offset \in Offsets
      BY <2>2 DEF Transfer
    <3>2. /\ Head(queue) \in Buffers /\ Tail(queue) \in Seq(Buffers)
          /\ frame' \in [Buffers -> [Offsets -> Nat]] /\ irq' = FALSE
          /\ UNCHANGED <<lru, block, busy, refcount, tail, link, image, want, buf, run, changed, panicked>>
      BY <1>4, <2>2, <3>1, InterruptFacts
    <3>3. CASE ~LastSector
      <4>1. offset' \in Nat /\ hw' \in Hardware /\ UNCHANGED <<valid, dirty, head, queue, pc>>
        BY <1>4, <2>2, <3>1, <3>3, InterruptNext, SMTT(30)
      <4>. QED  BY <3>2, <4>1
    <3>4. CASE LastSector
      <4>1. offset' \in Nat /\ hw' \in Hardware
        BY <1>4, <2>2, <3>1, <3>4, InterruptStarts
      <4>2. /\ valid' = [valid EXCEPT ![Head(queue)] = TRUE]
            /\ dirty' = [dirty EXCEPT ![Head(queue)] = FALSE]
            /\ queue' = Tail(queue) /\ head' = link[head]
        BY <1>4, <2>2, <3>1, <3>4, InterruptLast
      <4>3. valid' \in [Buffers -> BOOLEAN] /\ dirty' \in [Buffers -> BOOLEAN]
        BY <3>2, <4>2
      <4>4. head' \in Buffers \cup {NoBuffer}
        BY <2>2, <4>2, ListEnds, ListTypes
      <4>. QED  BY <3>2, <4>1, <4>2, <4>3, <4>4
    <3>. QED  BY <3>3, <3>4
  <2>. QED  BY <2>1, <2>2
<1>5. ASSUME NEW p \in Clients,
             \/ \E k \in Blocks : BufferRead(p, k)
             \/ GetSleeps(p) \/ GetPanics(p) \/ ReadCached(p)
      PROVE  TypeOK'
  <2>1. /\ UNCHANGED <<valid, dirty, refcount, frame, head, tail, link, queue, offset, hw, irq,
                       image, changed>>
        /\ run' \in Clients \cup {NoClient} /\ panicked' \in BOOLEAN
    BY <1>5 DEF BufferRead, GetSleeps, GetPanics, ReadCached, cacheVars, diskVars, queueVars
  <2>. QED  BY <2>1
<1>6. ASSUME NEW p \in Clients, GetHits(p) PROVE TypeOK'
  BY <1>6, SMTT(30) DEF GetHits, diskVars, queueVars
<1>7. ASSUME NEW p \in Clients, GetRecycles(p) PROVE TypeOK'
  BY <1>7, SMTT(30) DEF GetRecycles, diskVars, queueVars
<1>8. ASSUME NEW p \in Clients, ReadSubmits(p) PROVE TypeOK'
  <2>1. buf[p] \in Buffers /\ buf[p] \notin Range(queue)
    BY <1>8, NotQueued DEF ReadSubmits, Holding, Queued
  <2>2. Submit(p, buf[p], FALSE, frame, "reading")
    BY <1>8 DEF ReadSubmits
  <2>3. /\ dirty' = [dirty EXCEPT ![buf[p]] = FALSE] /\ link' = Linked(buf[p]) /\ tail' = buf[p]
        /\ head' = (IF queue = <<>> THEN buf[p] ELSE head)
        /\ queue' = Append(queue, buf[p]) /\ offset' \in Nat /\ hw' \in Hardware
    BY <2>1, <2>2, SubmitFacts
  <2>4. queue' \in Seq(Buffers) /\ link' \in [Buffers -> Buffers \cup {NoBuffer}]
    BY <2>1, <2>3, AppendFacts, LinkedType, ListTypes
  <2>. QED  BY <1>8, <2>1, <2>3, <2>4 DEF ReadSubmits
<1>9. ASSUME NEW p \in Clients, ReadDone(p) PROVE TypeOK'
  BY <1>9 DEF ReadDone, diskVars, queueVars
<1>10. ASSUME NEW p \in Clients, BufferWrite(p) PROVE TypeOK'
  <2>1. buf[p] \in Buffers /\ want[p] \in Blocks /\ buf[p] \notin Range(queue)
    BY <1>10, WriteFrames, NotQueued DEF Holding, Queued
  <2>2. Submit(p, buf[p], TRUE, frame', "writing") /\ frame' \in [Buffers -> [Offsets -> Nat]]
    BY <1>10, WriteFrames
  <2>3. /\ dirty' = [dirty EXCEPT ![buf[p]] = TRUE] /\ link' = Linked(buf[p]) /\ tail' = buf[p]
        /\ head' = (IF queue = <<>> THEN buf[p] ELSE head)
        /\ queue' = Append(queue, buf[p]) /\ offset' \in Nat /\ hw' \in Hardware
    BY <2>1, <2>2, SubmitFacts
  <2>4. queue' \in Seq(Buffers) /\ link' \in [Buffers -> Buffers \cup {NoBuffer}]
    BY <2>1, <2>3, AppendFacts, LinkedType, ListTypes
  <2>5. changed' \in [Blocks -> Nat]
    BY <1>10, WriteFrames
  <2>. QED  BY <1>10, <2>1, <2>2, <2>3, <2>4, <2>5 DEF BufferWrite
<1>11. ASSUME NEW p \in Clients, BufferRelease(p) PROVE TypeOK'
  <2>1. buf[p] \in Buffers
    BY <1>11 DEF BufferRelease, Asking, Holding
  <2>2. refcount' \in [Buffers -> Int]
    BY <1>11, <2>1, SMT DEF BufferRelease
  <2>. QED  BY <1>11, <2>2 DEF BufferRelease, diskVars, queueVars
<1>12. ASSUME NEW p \in Clients, SysKill(p) PROVE TypeOK'
  BY <1>12 DEF SysKill, cacheVars
<1>13. CASE UNCHANGED vars
  BY <1>13 DEF vars, cacheVars, diskVars, queueVars, clientVars
<1>. QED
  BY <1>2, <1>3, <1>4, <1>5, <1>6, <1>7, <1>8, <1>9, <1>10, <1>11, <1>12, <1>13 DEF Next, Halted

-----------------------------------------------------------------------------
(* What a step leaves alone. *)

LEMMA HolderDirty ==
    ASSUME IInv, NEW p \in Clients, pc[p] \in Holding
    PROVE  dirty[buf[p]] <=> pc[p] = "writing"
<1>1. buf[p] \in Buffers
  BY Owner
<1>2. \A q \in Clients : pc[q] = "writing" /\ buf[q] = buf[p] => q = p
  BY Owner DEF Holding
<1>. QED  BY <1>1, <1>2, IInvParts, SMT DEF DirtyIsWriting

\* The queue and its sleepers stay.
LEMMA SleepersKept ==
    ASSUME IInv, UNCHANGED <<head, tail, link, queue, cut>>,
           \A q \in Clients : /\ pc'[q] \in Queued <=> pc[q] \in Queued
                              /\ pc[q] \in Queued => buf'[q] = buf[q]
                              /\ pc'[q] = "waiting" => busy'[buf'[q]]
    PROVE  QueueOK'
<1>1. \A q \in Clients : pc'[q] \in Queued => buf'[q] \in Range(queue')
  BY IInvParts DEF QueueHasSleepers, Queued
<1>2. \A n \in 1 .. Len(queue') : \E q \in Clients : pc'[q] \in Queued /\ buf'[q] = queue'[n]
  <2>1. ASSUME NEW n \in 1 .. Len(queue) PROVE \E q \in Clients : pc'[q] \in Queued /\ buf'[q] = queue[n]
    <3>1. PICK q \in Clients : pc[q] \in Queued /\ buf[q] = queue[n]
      BY IInvParts DEF QueueHasSleepers, Queued
    <3>. QED  BY <3>1
  <2>. QED  BY <2>1
<1>3. \A m, n \in 1 .. Len(queue') : queue'[m] = queue'[n] => m = n
  BY IInvParts DEF QueueHasSleepers
<1>4. QueueLinked' /\ cut' = "no"
  BY IInvParts DEF QueueLinked
<1>5. QueueHasSleepers'
  BY <1>1, <1>2, <1>3 DEF QueueHasSleepers, Queued
<1>. QED  BY <1>4, <1>5 DEF QueueOK

\* The transfer the disk is at stays.
LEMMA TransferKept ==
    ASSUME IInv, UNCHANGED <<offset, hw, image>>,
           queue = <<>> <=> queue' = <<>>, queue # <<>> => Head(queue') = Head(queue),
           queue # <<>> => LET b == Head(queue) IN
               /\ block'[b] = block[b] /\ (dirty'[b] <=> dirty[b]) /\ frame'[b] = frame[b]
               /\ changed'[block[b]] = changed[block[b]]
    PROVE  Transfer'
  BY IInvParts, SMT DEF Transfer

\* The flags stay, and so do the writers.
LEMMA DirtyKept ==
    ASSUME IInv, \A b \in Buffers : dirty'[b] <=> dirty[b],
           \A q \in Clients : /\ pc'[q] = "writing" <=> pc[q] = "writing"
                              /\ pc[q] = "writing" => buf'[q] = buf[q]
    PROVE  DirtyIsWriting'
<1>1. DirtyIsWriting
  BY IInvParts
<1>2. ASSUME NEW b \in Buffers
      PROVE  dirty'[b] <=> \E q \in Clients : pc'[q] = "writing" /\ buf'[q] = b
  <2>1. ASSUME dirty'[b] PROVE \E q \in Clients : pc'[q] = "writing" /\ buf'[q] = b
    <3>1. PICK q \in Clients : pc[q] = "writing" /\ buf[q] = b
      BY <1>1, <2>1 DEF DirtyIsWriting
    <3>. QED  BY <3>1
  <2>2. ASSUME NEW q \in Clients, pc'[q] = "writing", buf'[q] = b PROVE dirty'[b]
    <3>1. pc[q] = "writing" /\ buf[q] = b
      BY <2>2
    <3>. QED  BY <1>1, <3>1 DEF DirtyIsWriting
  <2>. QED  BY <2>1, <2>2
<1>. QED  BY <1>2 DEF DirtyIsWriting

\* One client moves; the data of the others stay.
LEMMA HeldKept ==
    ASSUME IInv, NEW p \in Clients, UNCHANGED <<image, changed>>,
           \A q \in Clients : q # p /\ pc'[q] \in Holding =>
              /\ pc'[q] = pc[q] /\ want'[q] = want[q] /\ buf'[q] = buf[q]
              /\ valid'[buf[q]] <=> valid[buf[q]]
              /\ frame'[buf[q]] = frame[buf[q]],
           pc'[p] \in Holding =>
              /\ pc'[p] # "writing" => \A s \in Offsets : image[want'[p]][s] = changed[want'[p]]
              /\ \/ pc'[p] \in {"read", "held", "writing", "written"}
                 \/ pc'[p] = "got" /\ valid'[buf'[p]]
                 => \A s \in Offsets : frame'[buf'[p]][s] = changed[want'[p]]
    PROVE  HeldData'
<1>1. HeldData
  BY IInvParts
<1>2. ASSUME NEW q \in Clients, pc'[q] \in Holding, pc'[q] # "writing"
      PROVE  \A s \in Offsets : image'[want'[q]][s] = changed'[want'[q]]
  <2>1. CASE q = p
    BY <1>2, <2>1
  <2>2. CASE q # p
    <3>1. pc[q] \in Holding /\ pc[q] # "writing" /\ want'[q] = want[q]
      BY <1>2, <2>2
    <3>2. \A s \in Offsets : image[want[q]][s] = changed[want[q]]
      BY <1>1, <3>1 DEF HeldData
    <3>. QED  BY <3>1, <3>2
  <2>. QED  BY <2>1, <2>2
<1>3. ASSUME NEW q \in Clients, pc'[q] \in Holding,
             \/ pc'[q] \in {"read", "held", "writing", "written"}
             \/ pc'[q] = "got" /\ valid'[buf'[q]]
      PROVE  \A s \in Offsets : frame'[buf'[q]][s] = changed'[want'[q]]
  <2>1. CASE q = p
    BY <1>3, <2>1
  <2>2. CASE q # p
    <3>1. /\ pc[q] \in Holding /\ want'[q] = want[q] /\ frame'[buf'[q]] = frame[buf[q]]
          /\ \/ pc[q] \in {"read", "held", "writing", "written"}
             \/ pc[q] = "got" /\ valid[buf[q]]
      BY <1>3, <2>2
    <3>2. \A s \in Offsets : frame[buf[q]][s] = changed[want[q]]
      BY <1>1, <3>1 DEF HeldData
    <3>. QED  BY <3>1, <3>2
  <2>. QED  BY <2>1, <2>2
<1>. QED  BY <1>2, <1>3 DEF HeldData

\* The data of the free blocks stay.
LEMMA DataKept ==
    ASSUME IInv, UNCHANGED <<block, busy, image, changed>>,
           \A q \in Clients : /\ pc'[q] \in Holding <=> pc[q] \in Holding
                              /\ pc[q] \in Holding => want'[q] = want[q],
           \A b \in Buffers : ~busy[b] => (valid'[b] <=> valid[b]) /\ frame'[b] = frame[b]
    PROVE  FreeData'
<1>1. FreeData
  BY IInvParts
<1>2. ASSUME NEW k \in Blocks, \A q \in Clients : pc'[q] \in Holding => want'[q] # k
      PROVE  \A s \in Offsets : image'[k][s] = changed'[k]
  <2>1. \A q \in Clients : pc[q] \in Holding => want[q] # k
    BY <1>2
  <2>. QED  BY <1>1, <2>1 DEF FreeData
<1>3. ASSUME NEW b \in Buffers, valid'[b], ~busy'[b]
      PROVE  block'[b] \in Blocks /\ \A s \in Offsets : frame'[b][s] = image'[block'[b]][s]
  <2>1. valid[b] /\ ~busy[b] /\ frame'[b] = frame[b]
    BY <1>3
  <2>2. block[b] \in Blocks /\ \A s \in Offsets : frame[b][s] = image[block[b]][s]
    BY <1>1, <2>1 DEF FreeData
  <2>. QED  BY <2>1, <2>2
<1>. QED  BY <1>2, <1>3 DEF FreeData

-----------------------------------------------------------------------------
(* The steps of the buffer cache. *)

\* buffer_read() is called; the place of the client is all that changes.
LEMMA ReadStep ==
    ASSUME IInv, TypeOK', LockInv', NEW p \in Clients, NEW k \in Blocks, BufferRead(p, k)
    PROVE  IInv'
<1>1. /\ pc[p] = "user" /\ pc'[p] = "get" /\ want'[p] = k
      /\ \A q \in Clients : q # p => pc'[q] = pc[q] /\ want'[q] = want[q]
      /\ UNCHANGED <<lru, block, busy, valid, dirty, refcount, frame,
                     head, tail, link, queue, cut, offset, hw, image, buf, changed>>
  BY IInvParts, BufferReadFacts
<1>2. QueueOK'
  <2>1. \A q \in Clients : pc'[q] \in Queued <=> pc[q] \in Queued
    BY <1>1 DEF Queued
  <2>2. \A q \in Clients : pc'[q] = "waiting" => busy'[buf'[q]]
    BY <1>1, IInvParts DEF QueueHasSleepers
  <2>. QED  BY <1>1, <2>1, <2>2, SleepersKept DEF Queued
<1>3. DirtyIsWriting'
  <2>1. \A q \in Clients : /\ pc'[q] = "writing" <=> pc[q] = "writing"
                           /\ pc[q] = "writing" => buf'[q] = buf[q]
    BY <1>1
  <2>. QED  BY <1>1, <2>1, DirtyKept
<1>4. HeldData'
  <2>1. pc'[p] \notin Holding
    BY <1>1 DEF Holding
  <2>. QED  BY <1>1, <2>1, HeldKept
<1>5. FreeData'
  <2>1. \A q \in Clients : /\ pc'[q] \in Holding <=> pc[q] \in Holding
                           /\ pc[q] \in Holding => want'[q] = want[q]
    BY <1>1 DEF Holding
  <2>. QED  BY <1>1, <2>1, DataKept
<1>6. Transfer'
  BY <1>1, TransferKept
<1>. QED  BY <1>2, <1>3, <1>4, <1>5, <1>6, IInvFromParts

\* buffer_get() waits for a buffer that is locked.
LEMMA GetSleepsStep ==
    ASSUME IInv, TypeOK', LockInv', NEW p \in Clients, GetSleeps(p)
    PROVE  IInv'
<1>1. /\ pc[p] = "get" /\ pc'[p] = "waiting" /\ buf'[p] \in Buffers /\ busy[buf'[p]]
      /\ \A q \in Clients : q # p => pc'[q] = pc[q] /\ buf'[q] = buf[q]
      /\ UNCHANGED <<lru, block, busy, valid, dirty, refcount, frame,
                     head, tail, link, queue, cut, offset, hw, image, want, changed>>
  BY IInvParts, GetSleepsFacts
<1>2. QueueOK'
  <2>1. \A q \in Clients : pc'[q] \in Queued <=> pc[q] \in Queued
    BY <1>1 DEF Queued
  <2>2. \A q \in Clients : pc'[q] = "waiting" => busy'[buf'[q]]
    BY <1>1, IInvParts DEF QueueHasSleepers
  <2>. QED  BY <1>1, <2>1, <2>2, SleepersKept DEF Queued
<1>3. DirtyIsWriting'
  <2>1. \A q \in Clients : /\ pc'[q] = "writing" <=> pc[q] = "writing"
                           /\ pc[q] = "writing" => buf'[q] = buf[q]
    BY <1>1
  <2>. QED  BY <1>1, <2>1, DirtyKept
<1>4. HeldData'
  <2>1. pc'[p] \notin Holding
    BY <1>1 DEF Holding
  <2>. QED  BY <1>1, <2>1, HeldKept
<1>5. FreeData'
  <2>1. \A q \in Clients : /\ pc'[q] \in Holding <=> pc[q] \in Holding
                           /\ pc[q] \in Holding => want'[q] = want[q]
    BY <1>1 DEF Holding
  <2>. QED  BY <1>1, <2>1, DataKept
<1>6. Transfer'
  BY <1>1, TransferKept
<1>. QED  BY <1>2, <1>3, <1>4, <1>5, <1>6, IInvFromParts

\* The buffer at the head of the queue is held, so it is not one that
\* buffer_get() takes.
LEMMA HeadBusy == ASSUME IInv, queue # <<>> PROVE busy[Head(queue)]
<1>1. PICK p \in Clients : pc[p] \in Queued /\ buf[p] = Head(queue)
  BY HeadClient
<1>. QED  BY <1>1, Owner DEF Queued, Holding

\* buffer_get() locks a buffer that has the block and is free.
LEMMA GetHitsStep ==
    ASSUME IInv, TypeOK', LockInv', NEW p \in Clients, GetHits(p)
    PROVE  IInv'
<1>0. PICK b \in Buffers : Hit(p, b)
  <2>1. LockInv
    BY IInvParts
  <2>. QED  BY <2>1, GetHitsFacts
<1>1. /\ pc[p] = "get" /\ pc'[p] = "got" /\ buf'[p] = b
      /\ ~busy[b] /\ block[b] = want[p] /\ want[p] \in Blocks /\ busy'[b]
      /\ \A q \in Clients : q # p => pc'[q] = pc[q] /\ buf'[q] = buf[q]
      /\ \A c \in Buffers : c # b => busy'[c] = busy[c]
      /\ \A q \in Clients : pc[q] \in Holding => buf[q] # b /\ want[q] # want[p]
      /\ UNCHANGED <<lru, block, valid, dirty, frame,
                     head, tail, link, queue, cut, offset, hw, image, want, changed>>
  BY <1>0 DEF Hit
<1>2. QueueOK'
  <2>1. \A q \in Clients : pc'[q] = "waiting" => busy'[buf'[q]]
    <3>1. ASSUME NEW q \in Clients, pc'[q] = "waiting" PROVE busy'[buf'[q]]
      <4>1. q # p /\ pc[q] = "waiting" /\ buf'[q] = buf[q]
        BY <1>1, <3>1
      <4>2. busy[buf[q]] /\ buf[q] \in Buffers
        BY <4>1, IInvParts DEF QueueHasSleepers, Asking
      <4>. QED  BY <1>1, <4>1, <4>2
    <3>. QED  BY <3>1
  <2>. QED  BY <1>1, <2>1, SleepersKept DEF Queued
<1>3. DirtyIsWriting'
  <2>1. \A q \in Clients : /\ pc'[q] = "writing" <=> pc[q] = "writing"
                           /\ pc[q] = "writing" => buf'[q] = buf[q]
    BY <1>1
  <2>. QED  BY <1>1, <2>1, DirtyKept
<1>4. HeldData'
  <2>1. \A s \in Offsets : image[want[p]][s] = changed[want[p]]
    BY <1>1, IInvParts DEF FreeData
  <2>2. valid[b] => \A s \in Offsets : frame[b][s] = changed[want[p]]
    <3>1. valid[b] => \A s \in Offsets : frame[b][s] = image[block[b]][s]
      BY <1>1, IInvParts DEF FreeData
    <3>2. image[block[b]] = image[want[p]]
      BY <1>1
    <3>. QED  BY <2>1, <3>1, <3>2
  <2>. QED  BY <1>1, <2>1, <2>2, HeldKept
<1>5. FreeData'
  <2>1. ASSUME NEW k \in Blocks, \A q \in Clients : pc'[q] \in Holding => want'[q] # k
        PROVE  \A s \in Offsets : image'[k][s] = changed'[k]
    <3>1. \A q \in Clients : pc[q] \in Holding => want[q] # k
      BY <1>1, <2>1 DEF Holding
    <3>. QED  BY <1>1, <3>1, IInvParts DEF FreeData
  <2>2. ASSUME NEW c \in Buffers, valid'[c], ~busy'[c]
        PROVE  block'[c] \in Blocks /\ \A s \in Offsets : frame'[c][s] = image'[block'[c]][s]
    <3>1. c # b /\ valid[c] /\ ~busy[c] /\ block'[c] = block[c]
      BY <1>1, <2>2
    <3>2. block[c] \in Blocks /\ \A s \in Offsets : frame[c][s] = image[block[c]][s]
      BY <3>1, IInvParts DEF FreeData
    <3>. QED  BY <1>1, <3>1, <3>2
  <2>. QED  BY <2>1, <2>2 DEF FreeData
<1>6. Transfer'
  BY <1>1, TransferKept
<1>. QED  BY <1>2, <1>3, <1>4, <1>5, <1>6, IInvFromParts

\* buffer_get() recycles a buffer that is free, for a block no buffer has.
LEMMA GetRecyclesStep ==
    ASSUME IInv, TypeOK', LockInv', NEW p \in Clients, GetRecycles(p)
    PROVE  IInv'
<1>0. PICK b \in Buffers : Recycled(p, b)
  <2>1. LockInv
    BY IInvParts
  <2>. QED  BY <2>1, GetRecyclesFacts
<1>1. /\ pc[p] = "get" /\ pc'[p] = "got" /\ buf'[p] = b
      /\ ~busy[b] /\ want[p] \in Blocks /\ busy'[b] /\ block'[b] = want[p]
      /\ valid' = [valid EXCEPT ![b] = FALSE] /\ dirty' = [dirty EXCEPT ![b] = FALSE]
      /\ \A q \in Clients : q # p => pc'[q] = pc[q] /\ buf'[q] = buf[q]
      /\ \A c \in Buffers : c # b => busy'[c] = busy[c] /\ block'[c] = block[c]
      /\ \A c \in Buffers : block[c] # want[p]
      /\ \A q \in Clients : pc[q] \in Holding => buf[q] # b
      /\ UNCHANGED <<lru, frame, head, tail, link, queue, cut, offset, hw, image, want, changed>>
  BY <1>0 DEF Recycled
<1>2. /\ ~valid'[b] /\ ~dirty'[b]
      /\ \A c \in Buffers : c # b => valid'[c] = valid[c] /\ dirty'[c] = dirty[c]
  BY <1>1, IInvParts DEF TypeOK
<1>3. \A q \in Clients : pc[q] \in Holding => buf[q] \in Buffers /\ block[buf[q]] = want[q]
  BY Owner
<1>4. \A q \in Clients : pc[q] \in Holding => want[q] # want[p]
  BY <1>1, <1>3, SMT
<1>5. QueueOK'
  <2>1. \A q \in Clients : pc'[q] = "waiting" => busy'[buf'[q]]
    <3>1. ASSUME NEW q \in Clients, pc'[q] = "waiting" PROVE busy'[buf'[q]]
      <4>1. q # p /\ pc[q] = "waiting" /\ buf'[q] = buf[q]
        BY <1>1, <3>1
      <4>2. busy[buf[q]] /\ buf[q] \in Buffers
        BY <4>1, IInvParts DEF QueueHasSleepers, Asking
      <4>. QED  BY <1>1, <4>1, <4>2
    <3>. QED  BY <3>1
  <2>. QED  BY <1>1, <2>1, SleepersKept DEF Queued
<1>6. DirtyIsWriting'
  <2>1. ~dirty[b]
    <3>1. ~\E q \in Clients : pc[q] = "writing" /\ buf[q] = b
      BY <1>1 DEF Holding
    <3>. QED  BY <3>1, IInvParts DEF DirtyIsWriting
  <2>2. \A c \in Buffers : dirty'[c] <=> dirty[c]
    BY <1>2, <2>1
  <2>3. \A q \in Clients : /\ pc'[q] = "writing" <=> pc[q] = "writing"
                           /\ pc[q] = "writing" => buf'[q] = buf[q]
    BY <1>1
  <2>. QED  BY <2>2, <2>3, DirtyKept
<1>7. HeldData'
  <2>1. \A s \in Offsets : image[want[p]][s] = changed[want[p]]
    BY <1>1, <1>4, IInvParts DEF FreeData
  <2>2. \A q \in Clients : q # p /\ pc[q] \in Holding => valid'[buf[q]] = valid[buf[q]]
    BY <1>1, <1>2, <1>3
  <2>3. pc'[p] = "got" /\ ~valid'[buf'[p]]
    BY <1>1, <1>2
  <2>4. \A q \in Clients : q # p /\ pc'[q] \in Holding =>
           /\ pc'[q] = pc[q] /\ want'[q] = want[q] /\ buf'[q] = buf[q]
           /\ valid'[buf[q]] <=> valid[buf[q]]
           /\ frame'[buf[q]] = frame[buf[q]]
    BY <1>1, <2>2
  <2>5. UNCHANGED <<image, changed>> /\ want'[p] = want[p]
    BY <1>1
  <2>6. \A s \in Offsets : image[want'[p]][s] = changed[want'[p]]
    BY <2>1, <2>5
  <2>7. ~(\/ pc'[p] \in {"read", "held", "writing", "written"}
          \/ pc'[p] = "got" /\ valid'[buf'[p]])
    BY <2>3
  <2>. QED  BY <2>4, <2>5, <2>6, <2>7, HeldKept
<1>8. FreeData'
  <2>1. ASSUME NEW k \in Blocks, \A q \in Clients : pc'[q] \in Holding => want'[q] # k
        PROVE  \A s \in Offsets : image'[k][s] = changed'[k]
    <3>1. \A q \in Clients : pc[q] \in Holding => want[q] # k
      BY <1>1, <2>1 DEF Holding
    <3>. QED  BY <1>1, <3>1, IInvParts DEF FreeData
  <2>2. ASSUME NEW c \in Buffers, valid'[c], ~busy'[c]
        PROVE  block'[c] \in Blocks /\ \A s \in Offsets : frame'[c][s] = image'[block'[c]][s]
    <3>1. c # b /\ valid[c] /\ ~busy[c] /\ block'[c] = block[c]
      BY <1>1, <1>2, <2>2
    <3>2. block[c] \in Blocks /\ \A s \in Offsets : frame[c][s] = image[block[c]][s]
      BY <3>1, IInvParts DEF FreeData
    <3>. QED  BY <1>1, <3>1, <3>2
  <2>. QED  BY <2>1, <2>2 DEF FreeData
<1>9. Transfer'
  <2>1. queue # <<>> => Head(queue) \in Buffers /\ Head(queue) # b
    BY <1>1, HeadBusy, HeadClient
  <2>. QED  BY <1>1, <1>2, <2>1, TransferKept
<1>. QED  BY <1>5, <1>6, <1>7, <1>8, <1>9, IInvFromParts

\* Steps that only move the client on: a read that is cached, a read that is
\* done, and panic().
LEMMA MoveStep ==
    ASSUME IInv, TypeOK', LockInv', NEW p \in Clients, GetPanics(p) \/ ReadCached(p) \/ ReadDone(p)
    PROVE  IInv'
<1>1. /\ UNCHANGED <<block, busy, dirty, frame, head, tail, link, queue, cut, offset, hw, image, want, buf, changed>>
      /\ \/ pc' = pc /\ valid' = valid
         \/ pc[p] = "got" /\ valid[buf[p]] /\ pc' = [pc EXCEPT ![p] = "held"] /\ valid' = valid
         \/ /\ pc[p] = "read" /\ pc' = [pc EXCEPT ![p] = "held"]
            /\ valid' = [valid EXCEPT ![buf[p]] = TRUE]
  BY DEF GetPanics, ReadCached, ReadDone, cacheVars, diskVars, queueVars
<1>2. /\ \A q \in Clients : q # p => pc'[q] = pc[q]
      /\ \/ pc'[p] = pc[p]
         \/ pc'[p] = "held" /\ pc[p] \in {"got", "read"} /\ (pc[p] = "got" => valid[buf[p]])
  BY <1>1, IInvParts DEF TypeOK
<1>3. \A b \in Buffers : pc[p] \notin Holding \/ b # buf[p] => valid'[b] = valid[b]
  BY <1>1, IInvParts DEF TypeOK, Holding
<1>4. QueueOK'
  <2>1. \A q \in Clients : pc'[q] \in Queued <=> pc[q] \in Queued
    BY <1>1, <1>2 DEF Queued
  <2>2. \A q \in Clients : pc'[q] = "waiting" => busy'[buf'[q]]
    BY <1>1, <1>2, IInvParts DEF QueueHasSleepers
  <2>. QED  BY <1>1, <2>1, <2>2, SleepersKept DEF Queued
<1>5. DirtyIsWriting'
  <2>1. \A q \in Clients : /\ pc'[q] = "writing" <=> pc[q] = "writing"
                           /\ pc[q] = "writing" => buf'[q] = buf[q]
    BY <1>1, <1>2
  <2>. QED  BY <1>1, <2>1, DirtyKept
<1>6. HeldData'
  <2>1. ASSUME NEW q \in Clients, q # p, pc[q] \in Holding PROVE valid'[buf[q]] = valid[buf[q]]
    BY <1>3, <2>1, Owner
  <2>2. HeldData
    BY IInvParts
  <2>3. CASE pc'[p] = pc[p]
    <3>1. pc'[p] \in Holding /\ pc'[p] # "writing" => \A s \in Offsets : image[want[p]][s] = changed[want[p]]
      BY <2>2, <2>3 DEF HeldData
    <3>2. pc[p] = "got" /\ valid'[buf[p]] => valid[buf[p]]
      BY <1>1, <2>3
    <3>3. /\ pc'[p] \in Holding
          /\ \/ pc'[p] \in {"read", "held", "writing", "written"}
             \/ pc'[p] = "got" /\ valid'[buf[p]]
          => \A s \in Offsets : frame[buf[p]][s] = changed[want[p]]
      BY <2>2, <2>3, <3>2 DEF HeldData
    <3>. QED  BY <1>1, <1>2, <2>1, <3>1, <3>3, HeldKept
  <2>4. CASE pc'[p] = "held" /\ pc[p] \in {"got", "read"} /\ (pc[p] = "got" => valid[buf[p]])
    <3>1. pc[p] \in Holding /\ pc[p] # "writing"
      BY <2>4 DEF Holding
    <3>2. \A s \in Offsets : image[want[p]][s] = changed[want[p]]
      BY <2>2, <3>1 DEF HeldData
    <3>3. \A s \in Offsets : frame[buf[p]][s] = changed[want[p]]
      BY <2>2, <2>4, <3>1 DEF HeldData
    <3>4. \A q \in Clients : q # p /\ pc'[q] \in Holding => pc[q] \in Holding
      BY <1>2
    <3>. QED  BY <1>1, <1>2, <2>1, <3>2, <3>3, <3>4, HeldKept
  <2>. QED  BY <1>2, <2>3, <2>4
<1>7. FreeData'
  <2>1. \A b \in Buffers : ~busy[b] => (valid'[b] <=> valid[b])
    BY <1>3, Unheld
  <2>. QED  BY <1>1, <1>2, <2>1, DataKept DEF Holding
<1>8. Transfer'
  BY <1>1, TransferKept
<1>. QED  BY <1>4, <1>5, <1>6, <1>7, <1>8, IInvFromParts

\* sys_kill() of a client that waits in buffer_get(): it looks again.
LEMMA KillStep ==
    ASSUME IInv, TypeOK', LockInv', NEW p \in Clients, SysKill(p), cut' = "no"
    PROVE  IInv'
<1>1. /\ pc[p] = "waiting" /\ pc' = [pc EXCEPT ![p] = Awake(p)]
      /\ UNCHANGED <<block, busy, valid, dirty, frame, head, tail, link, queue, cut, offset, hw,
                     image, want, buf, changed>>
  BY IInvParts DEF SysKill, cacheVars
<1>2. pc'[p] = "get" /\ \A q \in Clients : q # p => pc'[q] = pc[q]
  BY <1>1, IInvParts DEF TypeOK, Awake
<1>3. QueueOK'
  <2>1. \A q \in Clients : pc'[q] \in Queued <=> pc[q] \in Queued
    BY <1>1, <1>2 DEF Queued
  <2>2. \A q \in Clients : pc'[q] = "waiting" => busy'[buf'[q]]
    BY <1>1, <1>2, IInvParts DEF QueueHasSleepers
  <2>. QED  BY <1>1, <2>1, <2>2, SleepersKept DEF Queued
<1>4. DirtyIsWriting'
  <2>1. \A q \in Clients : pc'[q] = "writing" <=> pc[q] = "writing"
    BY <1>1, <1>2
  <2>. QED  BY <1>1, <2>1, DirtyKept
<1>5. pc[p] \notin Holding /\ pc'[p] \notin Holding
  BY <1>1, <1>2 DEF Holding
<1>6. HeldData'
  BY <1>1, <1>2, <1>5, HeldKept
<1>7. FreeData'
  BY <1>1, <1>2, <1>5, DataKept
<1>8. Transfer'
  BY <1>1, TransferKept
<1>. QED  BY <1>3, <1>4, <1>6, <1>7, <1>8, IInvFromParts

\* buffer_release(): the block and its buffer agree, and whoever waits for the
\* buffer is awake.
LEMMA ReleaseStep ==
    ASSUME IInv, TypeOK', LockInv', NEW p \in Clients, BufferRelease(p)
    PROVE  IInv'
<1>. DEFINE b == buf[p]
<1>1. /\ pc[p] \in {"held", "written"}
      /\ UNCHANGED <<block, valid, dirty, frame, head, tail, link, queue, cut, offset, hw,
                     image, want, changed>>
  BY IInvParts, ReleaseFacts
<1>2. pc[p] \in Holding /\ b \in Buffers /\ want[p] \in Blocks /\ block[b] = want[p] /\ busy[b]
  BY IInvParts, ReleaseFacts
<1>3. \A q \in Clients : q # p =>
         /\ buf'[q] = buf[q]
         /\ pc'[q] = IF buf[q] = b /\ pc[q] = "waiting" THEN "get" ELSE pc[q]
  BY IInvParts, ReleaseFacts
<1>4. /\ pc'[p] = "user" /\ buf'[p] = NoBuffer
      /\ ~busy'[b] /\ \A c \in Buffers : c # b => busy'[c] = busy[c]
  BY IInvParts, ReleaseFacts
<1>. HIDE DEF b
<1>5. \A q \in Clients : q # p => (pc'[q] \in Holding <=> pc[q] \in Holding)
  BY <1>3 DEF Holding
<1>6. QueueOK'
  <2>1. \A q \in Clients : pc'[q] = "waiting" => busy'[buf'[q]]
    <3>1. ASSUME NEW q \in Clients, pc'[q] = "waiting" PROVE busy'[buf'[q]]
      <4>1. q # p
        BY <1>4, <3>1
      <4>2. pc[q] = "waiting" /\ buf[q] # b /\ buf'[q] = buf[q]
        BY <1>3, <3>1, <4>1
      <4>3. busy[buf[q]] /\ buf[q] \in Buffers
        BY <4>2, IInvParts DEF QueueHasSleepers, Asking
      <4>. QED  BY <1>4, <4>2, <4>3
    <3>. QED  BY <3>1
  <2>2. \A q \in Clients : /\ (pc'[q] \in Queued <=> pc[q] \in Queued)
                           /\ (pc[q] \in Queued => buf'[q] = buf[q])
    <3>1. pc'[p] \notin Queued /\ pc[p] \notin Queued
      BY <1>1, <1>4 DEF Queued
    <3>2. \A q \in Clients : q # p => (pc'[q] \in Queued <=> pc[q] \in Queued) /\ buf'[q] = buf[q]
      BY <1>3 DEF Queued
    <3>. QED  BY <3>1, <3>2
  <2>. QED  BY <1>1, <2>1, <2>2, SleepersKept
<1>7. DirtyIsWriting'
  <2>1. pc'[p] # "writing" /\ pc[p] # "writing"
    BY <1>1, <1>4
  <2>2. \A q \in Clients : q # p => (pc'[q] = "writing" <=> pc[q] = "writing") /\ buf'[q] = buf[q]
    BY <1>3
  <2>. QED  BY <1>1, <2>1, <2>2, DirtyKept
<1>8. HeldData'
  <2>1. pc'[p] \notin Holding
    BY <1>4 DEF Holding
  <2>2. \A q \in Clients : q # p /\ pc'[q] \in Holding => pc'[q] = pc[q] /\ buf'[q] = buf[q]
    BY <1>3 DEF Holding
  <2>. QED  BY <1>1, <2>1, <2>2, HeldKept
<1>9. FreeData'
  <2>1. \A s \in Offsets : image[want[p]][s] = changed[want[p]] /\ frame[b][s] = changed[want[p]]
    BY <1>1, <1>2, IInvParts DEF HeldData, b
  <2>2. ASSUME NEW k \in Blocks, \A q \in Clients : pc'[q] \in Holding => want'[q] # k
        PROVE  \A s \in Offsets : image'[k][s] = changed'[k]
    <3>1. CASE k = want[p]
      BY <1>1, <2>1, <3>1
    <3>2. CASE k # want[p]
      BY <1>1, <1>5, <2>2, <3>2, IInvParts DEF FreeData
    <3>. QED  BY <3>1, <3>2
  <2>3. ASSUME NEW c \in Buffers, valid'[c], ~busy'[c]
        PROVE  block'[c] \in Blocks /\ \A s \in Offsets : frame'[c][s] = image'[block'[c]][s]
    <3>1. CASE c = b
      BY <1>1, <1>2, <2>1, <3>1
    <3>2. CASE c # b
      BY <1>1, <1>4, <2>3, <3>2, IInvParts DEF FreeData
    <3>. QED  BY <3>1, <3>2
  <2>. QED  BY <2>2, <2>3 DEF FreeData
<1>10. Transfer'
  BY <1>1, TransferKept
<1>. QED  BY <1>6, <1>7, <1>8, <1>9, <1>10, IInvFromParts

-----------------------------------------------------------------------------
(* disk_submit(). *)

\* The queue gets a buffer its client goes to sleep on.
LEMMA QueueGrows ==
    ASSUME IInv, NEW p \in Clients, NEW l \in Queued, pc[p] \in Holding, pc[p] \notin Queued,
           pc' = [pc EXCEPT ![p] = l], queue' = Append(queue, buf[p]), cut' = "no",
           link' = Linked(buf[p]), tail' = buf[p],
           head' = IF queue = <<>> THEN buf[p] ELSE head,
           UNCHANGED <<busy, buf>>
    PROVE  QueueOK'
<1>. DEFINE N == Len(queue)
<1>1. buf[p] \in Buffers /\ queue \in Seq(Buffers) /\ N \in Nat
  BY Owner, IInvParts, SMT DEF TypeOK
<1>2. /\ queue' \in Seq(Buffers) /\ Len(queue') = N + 1 /\ queue'[N + 1] = buf[p]
      /\ \A n \in 1 .. N : queue'[n] = queue[n]
  BY <1>1, AppendFacts
<1>3. /\ pc'[p] = l /\ \A q \in Clients : q # p => pc'[q] = pc[q]
  BY IInvParts DEF TypeOK
<1>. HIDE DEF N
<1>4. ASSUME NEW n \in 1 .. N PROVE \E q \in Clients : q # p /\ pc[q] \in Queued /\ buf[q] = queue[n]
  BY IInvParts DEF QueueHasSleepers, Queued, N
<1>5. buf[p] \notin Range(queue) /\ \A n \in 1 .. N : queue[n] # buf[p]
  BY <1>1, NotQueued, SMT DEF Range, N
<1>6. \A q \in Clients : pc'[q] = "waiting" => busy'[buf'[q]]
  BY <1>3, IInvParts DEF QueueHasSleepers, Queued
<1>7. ASSUME NEW q \in Clients, pc'[q] \in Queued PROVE buf'[q] \in Range(queue')
  <2>1. CASE q = p
    <3>1. N + 1 \in DOMAIN queue'
      BY <1>1, <1>2, SMT
    <3>. QED  BY <1>2, <2>1, <3>1 DEF Range
  <2>2. CASE q # p
    <3>0. pc[q] \in Queued /\ buf'[q] = buf[q]
      BY <1>3, <1>7, <2>2
    <3>1. buf[q] \in Range(queue) /\ DOMAIN queue = 1 .. N
      BY <1>1, <3>0, IInvParts, SMT DEF QueueHasSleepers, Queued, N
    <3>2. PICK n \in 1 .. N : queue[n] = buf[q]
      BY <3>1 DEF Range
    <3>3. n \in DOMAIN queue'
      BY <1>1, <1>2, SMT
    <3>. QED  BY <1>2, <3>0, <3>2, <3>3 DEF Range
  <2>. QED  BY <2>1, <2>2
<1>8. ASSUME NEW n \in 1 .. N + 1 PROVE \E q \in Clients : pc'[q] \in Queued /\ buf'[q] = queue'[n]
  <2>1. CASE n = N + 1
    BY <1>2, <1>3, <2>1
  <2>2. CASE n # N + 1
    <3>1. n \in 1 .. N
      BY <1>1, <2>2, SMT
    <3>. QED  BY <1>2, <1>3, <1>4, <3>1, SMTT(30)
  <2>. QED  BY <2>1, <2>2
<1>9. ASSUME NEW m \in 1 .. N + 1, NEW n \in 1 .. N + 1, queue'[m] = queue'[n] PROVE m = n
  <2>1. m # N + 1 => m \in 1 .. N
    BY <1>1, SMT
  <2>2. n # N + 1 => n \in 1 .. N
    BY <1>1, SMTT(30)
  <2>3. m \in 1 .. N /\ n \in 1 .. N => m = n
    BY <1>2, <1>9, IInvParts, SMT DEF QueueHasSleepers, N
  <2>. QED  BY <1>2, <1>5, <1>9, <2>1, <2>2, <2>3
<1>10. QueueHasSleepers'
  BY <1>2, <1>6, <1>7, <1>8, <1>9, SMTT(30) DEF QueueHasSleepers, Queued
<1>11. QueueLinked'
  <2>1. TypeOK /\ QueueLinked /\ \A m, n \in 1 .. Len(queue) : queue[m] = queue[n] => m = n
    BY IInvParts DEF QueueHasSleepers
  <2>. QED  BY <1>1, <1>5, <2>1, ListGrows, ListTypes
<1>. QED  BY <1>10, <1>11 DEF QueueOK

\* The disk is started for the first request, and goes on with the one it is at
\* when there are others.
LEMMA SubmitTransfer ==
    ASSUME IInv, TypeOK', LockInv', NEW p \in Clients, NEW w \in BOOLEAN,
           pc[p] \in Holding, pc[p] \notin Queued,
           block' = block, image' = image,
           queue' = Append(queue, buf[p]), dirty' = [dirty EXCEPT ![buf[p]] = w],
           \A b \in Buffers : b # buf[p] => frame'[b] = frame[b],
           \A k \in Blocks : k # want[p] => changed'[k] = changed[k],
           w => \A s \in Offsets : frame'[buf[p]][s] = changed'[want[p]],
           queue = <<>> => /\ offset' = 0 /\ hw'.status = "busy" /\ hw'.lba = <<block[buf[p]], 0>>
                           /\ hw'.cmd = IF w THEN "write" ELSE "read"
                           /\ w => hw'.buffer = frame'[buf[p]][0],
           queue # <<>> => offset' = offset /\ hw' = hw
    PROVE  Transfer'
<1>1. buf[p] \in Buffers /\ want[p] \in Blocks /\ block[buf[p]] = want[p] /\ queue \in Seq(Buffers)
  BY Owner, IInvParts DEF TypeOK
<1>2. queue' # <<>> /\ Head(queue') = (IF queue = <<>> THEN buf[p] ELSE Head(queue))
  BY <1>1, SMT
<1>3. (dirty'[buf[p]] <=> w) /\ \A b \in Buffers : b # buf[p] => (dirty'[b] <=> dirty[b])
  BY <1>1, IInvParts DEF TypeOK
<1>4. CASE queue = <<>>
  <2>1. Head(queue') = buf[p] /\ 0 \in Offsets /\ \A s \in Offsets : ~(s < 0)
    BY <1>2, <1>4, OffsetFacts, SMT DEF Offsets
  <2>2. w => hw'.buffer = changed'[want[p]]
    BY <1>4, <2>1
  <2>. QED  BY <1>1, <1>2, <1>3, <1>4, <2>1, <2>2, SMTT(30) DEF Transfer
<1>5. CASE queue # <<>>
  <2>1. PICK q \in Clients : pc[q] \in Queued /\ buf[q] = Head(queue) /\ want[q] = block[Head(queue)]
    BY <1>5, HeadClient
  <2>2. q # p /\ pc[q] \in Holding
    BY <2>1 DEF Queued, Holding
  <2>3. buf[q] # buf[p] /\ want[q] # want[p] /\ buf[q] \in Buffers /\ want[q] \in Blocks
    BY <2>2, Owner
  <2>4. Head(queue') = Head(queue) /\ offset' = offset /\ hw' = hw
    BY <1>2, <1>5
  <2>5. LET b == Head(queue) IN
          /\ block'[b] = block[b] /\ (dirty'[b] <=> dirty[b]) /\ frame'[b] = frame[b]
          /\ changed'[block[b]] = changed[block[b]]
    BY <1>3, <2>1, <2>3, SMT
  <2>. QED  BY <1>2, <1>5, <2>4, <2>5, TransferKept
<1>. QED  BY <1>4, <1>5

\* disk_block_read(): the buffer waits for its block.
LEMMA ReadSubmitsStep ==
    ASSUME IInv, TypeOK', LockInv', NEW p \in Clients, ReadSubmits(p)
    PROVE  IInv'
<1>1. /\ pc[p] = "got" /\ Submit(p, buf[p], FALSE, frame, "reading")
      /\ UNCHANGED <<block, busy, valid, frame, image, want, buf, changed>>
  BY DEF ReadSubmits
<1>2. /\ pc[p] \in Holding /\ pc[p] \notin Queued /\ "reading" \in Queued /\ "reading" \in Labels
      /\ buf[p] \in Buffers /\ want[p] \in Blocks /\ block[buf[p]] = want[p]
      /\ buf[p] \notin Range(queue)
  BY <1>1, Owner, NotQueued, LabelsAre DEF Holding, Queued
<1>3. frame \in [Buffers -> [Offsets -> Nat]] /\ TypeOK /\ QueueLinked /\ cut = "no"
  BY IInvParts DEF TypeOK
<1>4. /\ dirty' = [dirty EXCEPT ![buf[p]] = FALSE] /\ pc' = [pc EXCEPT ![p] = "reading"]
      /\ queue' = Append(queue, buf[p]) /\ cut' = "no" /\ link' = Linked(buf[p])
      /\ tail' = buf[p] /\ head' = (IF queue = <<>> THEN buf[p] ELSE head)
      /\ queue = <<>> => offset' = 0 /\ hw'.status = "busy" /\ hw'.lba = <<block[buf[p]], 0>>
                         /\ hw'.cmd = "read"
      /\ queue # <<>> => offset' = offset /\ hw' = hw
  <2>1. /\ dirty' = [dirty EXCEPT ![buf[p]] = FALSE] /\ pc' = [pc EXCEPT ![p] = "reading"]
        /\ queue' = Append(queue, buf[p]) /\ cut' = "no" /\ link' = Linked(buf[p])
        /\ tail' = buf[p] /\ head' = (IF queue = <<>> THEN buf[p] ELSE head)
        /\ queue # <<>> => offset' = offset /\ hw' = hw
    <3>1. dirty' = [dirty EXCEPT ![buf[p]] = FALSE] /\ pc' = [pc EXCEPT ![p] = "reading"]
      BY <1>1 DEF Submit
    <3>2. queue' = Append(queue, buf[p]) /\ cut' = "no" /\ link' = Linked(buf[p]) /\ tail' = buf[p]
      BY <1>1, <1>2, <1>3 DEF Submit
    <3>3. head' = (IF queue = <<>> THEN buf[p] ELSE head)
      BY <1>1, <1>2, <1>3, SubmitFacts
    <3>4. queue # <<>> => offset' = offset /\ hw' = hw
      BY <1>1, <1>2, <1>3, SubmitFacts
    <3>. QED  BY <3>1, <3>2, <3>3, <3>4
  <2>3. queue = <<>> => offset' = 0 /\ hw'.status = "busy" /\ hw'.lba = <<block[buf[p]], 0>>
                        /\ hw'.cmd = IF dirty'[buf[p]] THEN "write" ELSE "read"
    BY <1>1, <1>2, <1>3, SubmitFacts
  <2>2. ~dirty'[buf[p]]
    BY <1>2, <2>1, IInvParts DEF TypeOK
  <2>. QED  BY <2>1, <2>2, <2>3
<1>5. pc'[p] = "reading" /\ \A q \in Clients : q # p => pc'[q] = pc[q]
  BY <1>4, IInvParts DEF TypeOK
<1>6. QueueOK'
  BY <1>1, <1>2, <1>4, QueueGrows
<1>7. DirtyIsWriting'
  <2>1. \A b \in Buffers : dirty'[b] <=> dirty[b]
    <3>1. ~dirty[buf[p]]
      BY <1>1, <1>2, HolderDirty
    <3>. QED  BY <1>2, <1>4, <3>1, IInvParts DEF TypeOK
  <2>2. \A q \in Clients : pc'[q] = "writing" <=> pc[q] = "writing"
    BY <1>1, <1>5
  <2>. QED  BY <1>1, <2>1, <2>2, DirtyKept
<1>8. HeldData'
  <2>1. pc[p] \in Holding /\ pc[p] # "writing"
    BY <1>1 DEF Holding
  <2>2. \A s \in Offsets : image[want[p]][s] = changed[want[p]]
    BY <2>1, IInvParts DEF HeldData
  <2>. QED  BY <1>1, <1>5, <2>2, HeldKept
<1>9. FreeData'
  BY <1>1, <1>5, DataKept DEF Holding
<1>10. Transfer'
  BY <1>1, <1>2, <1>4, SubmitTransfer
<1>. QED  BY <1>6, <1>7, <1>8, <1>9, <1>10, IInvFromParts

\* buffer_write(): the changed buffer waits to be written.
LEMMA WriteStep ==
    ASSUME IInv, TypeOK', LockInv', NEW p \in Clients, BufferWrite(p)
    PROVE  IInv'
<1>1. UNCHANGED <<block, busy, valid, image, want, buf>>
  BY DEF BufferWrite
<1>2. /\ pc[p] = "held" /\ pc[p] \in Holding /\ pc[p] \notin Queued
      /\ "writing" \in Queued /\ "writing" \in Labels
      /\ buf[p] \in Buffers /\ want[p] \in Blocks /\ block[buf[p]] = want[p] /\ busy[buf[p]]
      /\ buf[p] \notin Range(queue)
  BY WriteFrames, Owner, NotQueued, LabelsAre DEF Holding, Queued
<1>3. /\ frame' \in [Buffers -> [Offsets -> Nat]] /\ Submit(p, buf[p], TRUE, frame', "writing")
      /\ \A b \in Buffers : b # buf[p] => frame'[b] = frame[b]
      /\ \A s \in Offsets : frame'[buf[p]][s] = frame[buf[p]][s] + 1
      /\ changed' = [changed EXCEPT ![want[p]] = @ + 1]
  BY WriteFrames
<1>4. /\ dirty' = [dirty EXCEPT ![buf[p]] = TRUE] /\ pc' = [pc EXCEPT ![p] = "writing"]
      /\ queue' = Append(queue, buf[p]) /\ cut' = "no" /\ link' = Linked(buf[p])
      /\ tail' = buf[p] /\ head' = (IF queue = <<>> THEN buf[p] ELSE head)
      /\ queue = <<>> => offset' = 0 /\ hw'.status = "busy" /\ hw'.lba = <<block[buf[p]], 0>>
                         /\ hw'.cmd = "write" /\ hw'.buffer = frame'[buf[p]][0]
      /\ queue # <<>> => offset' = offset /\ hw' = hw
  <2>1. TypeOK /\ QueueLinked /\ cut = "no"
    BY IInvParts
  <2>2. /\ dirty' = [dirty EXCEPT ![buf[p]] = TRUE] /\ pc' = [pc EXCEPT ![p] = "writing"]
        /\ queue' = Append(queue, buf[p]) /\ cut' = "no" /\ link' = Linked(buf[p])
        /\ tail' = buf[p] /\ head' = (IF queue = <<>> THEN buf[p] ELSE head)
        /\ queue # <<>> => offset' = offset /\ hw' = hw
    BY <1>2, <1>3, <2>1, SubmitFacts
  <2>3. queue = <<>> => offset' = 0 /\ hw'.status = "busy" /\ hw'.lba = <<block[buf[p]], 0>>
                        /\ hw'.cmd = (IF dirty'[buf[p]] THEN "write" ELSE "read")
                        /\ (dirty'[buf[p]] => hw'.buffer = frame'[buf[p]][0])
    BY <1>2, <1>3, <2>1, SubmitFacts
  <2>4. dirty'[buf[p]]
    BY <1>2, <2>2, IInvParts DEF TypeOK
  <2>. QED  BY <2>2, <2>3, <2>4
<1>5. pc'[p] = "writing" /\ \A q \in Clients : q # p => pc'[q] = pc[q]
  BY <1>4, IInvParts DEF TypeOK
<1>6. /\ changed'[want[p]] = changed[want[p]] + 1
      /\ \A k \in Blocks : k # want[p] => changed'[k] = changed[k]
  BY <1>2, <1>3, IInvParts DEF TypeOK
<1>7. \A s \in Offsets : frame'[buf[p]][s] = changed'[want[p]]
  BY <1>2, <1>3, <1>6, IInvParts, SMT DEF HeldData
<1>8. QueueOK'
  BY <1>1, <1>2, <1>4, QueueGrows
<1>9. DirtyIsWriting'
  <2>1. dirty'[buf[p]] /\ \A b \in Buffers : b # buf[p] => (dirty'[b] <=> dirty[b])
    BY <1>2, <1>4, IInvParts DEF TypeOK
  <2>. QED  BY <1>1, <1>2, <1>5, <2>1, IInvParts, SMT DEF DirtyIsWriting
<1>10. \A q \in Clients : q # p /\ pc[q] \in Holding =>
          buf[q] # buf[p] /\ want[q] # want[p] /\ buf[q] \in Buffers /\ want[q] \in Blocks
  BY <1>2, Owner
<1>11. HeldData'
  <2>1. ASSUME NEW q \in Clients, q # p, pc'[q] \in Holding
        PROVE  pc[q] \in Holding /\ frame'[buf[q]] = frame[buf[q]] /\ changed'[want[q]] = changed[want[q]]
    BY <1>3, <1>5, <1>6, <1>10, <2>1
  <2>. QED  BY <1>1, <1>5, <1>7, <2>1, IInvParts, SMT DEF HeldData
<1>12. FreeData'
  <2>1. \A q \in Clients : pc'[q] \in Holding <=> pc[q] \in Holding
    BY <1>2, <1>5 DEF Holding
  <2>2. ASSUME NEW k \in Blocks, \A q \in Clients : pc'[q] \in Holding => want'[q] # k
        PROVE  \A s \in Offsets : image'[k][s] = changed'[k]
    <3>1. k # want[p]
      BY <1>1, <1>2, <2>1, <2>2
    <3>. QED  BY <1>1, <1>6, <2>1, <2>2, <3>1, IInvParts DEF FreeData
  <2>3. ASSUME NEW b \in Buffers, valid'[b], ~busy'[b]
        PROVE  block'[b] \in Blocks /\ \A s \in Offsets : frame'[b][s] = image'[block'[b]][s]
    <3>1. b # buf[p]
      BY <1>1, <1>2, <2>3
    <3>. QED  BY <1>1, <1>3, <2>3, <3>1, IInvParts, SMT DEF FreeData
  <2>. QED  BY <2>2, <2>3 DEF FreeData
<1>13. Transfer'
  BY <1>1, <1>2, <1>3, <1>4, <1>6, <1>7, SubmitTransfer
<1>. QED  BY <1>8, <1>9, <1>11, <1>12, <1>13, IInvFromParts

-----------------------------------------------------------------------------
(* The disk. *)

\* Where no data and nobody moves, what is known of the data stays.
LEMMA SameData ==
    ASSUME IInv, UNCHANGED <<block, busy, valid, frame, image, pc, want, buf, changed>>
    PROVE  HeldData' /\ FreeData'
<1>1. HeldData'
  BY IInvParts DEF HeldData
<1>2. FreeData'
  BY DataKept
<1>. QED  BY <1>1, <1>2

\* A sector is transferred: it is read as it was last changed, or becomes that.
LEMMA DiskStepStep ==
    ASSUME IInv, TypeOK', LockInv', Transferred
    PROVE  IInv'
<1>. DEFINE b == Head(queue)
            k == block[b]
<1>1. /\ hw.status = "busy" /\ queue # <<>> /\ hw.lba = <<k, offset>> /\ k \in Blocks
      /\ hw.lba[1] = k /\ hw.lba[2] = offset /\ offset \in Offsets /\ b \in Buffers
  BY ImageSector, HeadClient DEF Transferred
<1>2. UNCHANGED <<block, busy, valid, dirty, frame, head, tail, link, queue, cut, offset, pc, want, buf, changed>>
  BY DEF Transferred, queueVars, cacheVars, clientVars
<1>3. PICK p \in Clients : pc[p] \in Queued /\ buf[p] = b /\ want[p] = k
  BY <1>1, HeadClient
<1>4. pc[p] \in Holding /\ (dirty[b] <=> pc[p] = "writing")
  BY <1>3, HolderDirty DEF Queued, Holding
<1>5. hw.cmd = IF dirty[b] THEN "write" ELSE "read"
  BY <1>1, IInvParts DEF Transfer
<1>6. QueueOK'
  BY <1>2, SleepersKept, IInvParts DEF QueueHasSleepers
<1>7. DirtyIsWriting'
  BY <1>2, IInvParts DEF DirtyIsWriting
<1>. HIDE DEF b, k
<1>8. CASE ~dirty[b]
  <2>1. hw' = [hw EXCEPT !.status = "ready", !.buffer = image[k][offset]] /\ image' = image
    BY <1>1, <1>5, <1>8 DEF Transferred
  <2>2. image[k][offset] = changed[k]
    BY <1>1, <1>3, <1>4, <1>8, IInvParts DEF HeldData
  <2>3. hw'.status = "ready" /\ hw'.buffer = changed[k] /\ hw'.lba = hw.lba /\ hw'.cmd = hw.cmd
    BY <2>1, <2>2, IInvParts DEF TypeOK, Hardware
  <2>4. Transfer'
    BY <1>1, <1>2, <1>8, <2>1, <2>3, IInvParts DEF Transfer, b, k
  <2>5. HeldData' /\ FreeData'
    BY <1>2, <2>1, SameData
  <2>. QED  BY <1>6, <1>7, <2>4, <2>5, IInvFromParts
<1>9. CASE dirty[b]
  <2>1. /\ hw' = [hw EXCEPT !.status = "ready"]
        /\ image' = [image EXCEPT ![k][offset] = hw.buffer]
    BY <1>1, <1>5, <1>9 DEF Transferred
  <2>2. hw'.status = "ready" /\ hw'.lba = hw.lba /\ hw'.cmd = hw.cmd
    BY <2>1, IInvParts DEF TypeOK, Hardware
  <2>3. hw.buffer = changed[k]
    BY <1>1, <1>9, IInvParts DEF Transfer, b, k
  <2>4. /\ \A m \in Blocks : m # k => image'[m] = image[m]
        /\ image'[k][offset] = changed[k]
        /\ \A s \in Offsets : s # offset => image'[k][s] = image[k][s]
    BY <1>1, <2>1, <2>3, IInvParts, SMT DEF TypeOK
  <2>5. Transfer'
    <3>1. \A s \in Offsets : s < offset => image[k][s] = changed[k]
      BY <1>1, <1>9, IInvParts DEF Transfer, b, k
    <3>2. \A s \in Offsets : s < offset => image'[k][s] = changed[k]
      BY <2>4, <3>1
    <3>. QED  BY <1>1, <1>2, <1>5, <1>9, <2>2, <2>4, <3>2 DEF Transfer, b, k
  <2>6. \A q \in Clients : pc[q] \in Holding /\ q # p => want[q] \in Blocks /\ want[q] # k
    BY <1>3, <1>4, Owner
  <2>7. HeldData'
    <3>1. pc[p] = "writing"
      BY <1>4, <1>9
    <3>. QED  BY <1>2, <1>3, <2>4, <2>6, <3>1, IInvParts, SMT DEF HeldData
  <2>8. FreeData'
    <3>1. ASSUME NEW m \in Blocks, \A q \in Clients : pc'[q] \in Holding => want'[q] # m
          PROVE  \A s \in Offsets : image'[m][s] = changed'[m]
      <4>1. m # k
        BY <1>2, <1>3, <1>4, <3>1
      <4>2. \A s \in Offsets : image[m][s] = changed[m]
        BY <1>2, <3>1, IInvParts DEF FreeData
      <4>. QED  BY <1>2, <2>4, <4>1, <4>2
    <3>2. ASSUME NEW c \in Buffers, valid'[c], ~busy'[c]
          PROVE  block'[c] \in Blocks /\ \A s \in Offsets : frame'[c][s] = image'[block'[c]][s]
      <4>1. block[c] \in Blocks /\ \A s \in Offsets : frame[c][s] = image[block[c]][s]
        BY <1>2, <3>2, IInvParts DEF FreeData
      <4>2. block[c] # k
        BY <1>2, <1>3, <1>4, <3>2, <4>1, Unheld
      <4>. QED  BY <1>2, <2>4, <4>1, <4>2
    <3>. QED  BY <3>1, <3>2 DEF FreeData
  <2>. QED  BY <1>6, <1>7, <2>5, <2>7, <2>8, IInvFromParts
<1>. QED  BY <1>8, <1>9

\* A transfer the host fails leaves all data as they are.
LEMMA DiskFailsStep ==
    ASSUME IInv, TypeOK', LockInv', DiskStepFails
    PROVE  IInv'
<1>1. /\ hw' = [hw EXCEPT !.status = "error"] /\ hw.status = "busy"
      /\ UNCHANGED <<block, busy, valid, dirty, frame, head, tail, link, queue, cut, offset, image, pc, want, buf, changed>>
  BY DEF DiskStepFails, cacheVars, queueVars, clientVars
<1>2. hw'.status = "error" /\ hw'.lba = hw.lba /\ hw'.cmd = hw.cmd
  BY <1>1, IInvParts DEF TypeOK, Hardware
<1>3. queue # <<>>
  BY <1>1, ImageSector
<1>4. QueueOK'
  BY <1>1, SleepersKept, IInvParts DEF QueueHasSleepers
<1>5. DirtyIsWriting' /\ HeldData' /\ FreeData'
  <2>1. UNCHANGED <<block, busy, valid, dirty, frame, head, tail, link, queue, cut, offset, image, pc, want, buf, changed>>
    BY <1>1
  <2>. QED  BY <2>1, DirtyKept, SameData
<1>6. Transfer'
  BY <1>1, <1>2, <1>3, IInvParts DEF Transfer
<1>. QED  BY <1>4, <1>5, <1>6, IInvFromParts

\* An interrupt with nothing to do, and a step of something else.
LEMMA KeptStep ==
    ASSUME IInv, TypeOK', LockInv',
           UNCHANGED <<block, busy, valid, dirty, frame, head, tail, link, queue, cut, offset, hw, image, pc, want, buf, changed>>
    PROVE  IInv'
<1>1. QueueOK'
  BY SleepersKept, IInvParts DEF QueueHasSleepers
<1>2. DirtyIsWriting' /\ HeldData' /\ FreeData'
  BY DirtyKept, SameData
<1>3. Transfer'
  BY TransferKept
<1>. QED  BY <1>1, <1>2, <1>3, IInvFromParts

-----------------------------------------------------------------------------
(* disk_interrupt(). *)

\* After the interrupt, in the buffer and on the disk, one more sector of the
\* block is as it was last changed; other buffers are left alone.
LEMMA SectorDone ==
    ASSUME IInv, DiskInterrupt, hw.status = "ready", queue # <<>>
    PROVE  LET b == Head(queue)  k == block[b] IN
           /\ \A c \in Buffers : c # b => frame'[c] = frame[c]
           /\ dirty[b] => /\ frame' = frame
                          /\ \A s \in Offsets : s <= offset => image[k][s] = changed[k]
           /\ ~dirty[b] => \A s \in Offsets : s <= offset => frame'[b][s] = changed[k]
<1>. DEFINE b == Head(queue)
            k == block[b]
<1>1. /\ offset \in Offsets /\ b \in Buffers /\ k \in Blocks
      /\ frame' = IF dirty[b] THEN frame ELSE [frame EXCEPT ![b][offset] = hw.buffer]
  <2>1. offset \in Offsets /\ TypeOK /\ QueueLinked
    BY IInvParts DEF Transfer
  <2>. QED  BY <2>1, HeadClient, InterruptFacts
<1>2. /\ ~dirty[b] => /\ \A s \in Offsets : s < offset => frame[b][s] = changed[k]
                      /\ hw.buffer = changed[k]
      /\ dirty[b] => /\ \A s \in Offsets : s < offset => image[k][s] = changed[k]
                     /\ image[k][offset] = changed[k]
  BY IInvParts DEF Transfer
<1>. HIDE DEF b, k
<1>3. \A s \in Offsets : s <= offset => s < offset \/ s = offset
  BY <1>1, OffsetFacts, SMT
<1>4. \A c \in Buffers : c # b => frame'[c] = frame[c]
  BY <1>1, IInvParts DEF TypeOK
<1>5. ASSUME ~dirty[b], NEW s \in Offsets, s <= offset PROVE frame'[b][s] = changed[k]
  <2>1. frame'[b][offset] = hw.buffer /\ (s # offset => frame'[b][s] = frame[b][s])
    BY <1>1, <1>5, IInvParts DEF TypeOK
  <2>. QED  BY <1>2, <1>3, <1>5, <2>1
<1>6. dirty[b] => frame' = frame /\ \A s \in Offsets : s <= offset => image[k][s] = changed[k]
  BY <1>1, <1>2, <1>3
<1>. QED  BY <1>4, <1>5, <1>6 DEF b, k

\* The next sector of the block is started.
LEMMA InterruptNextStep ==
    ASSUME IInv, TypeOK', LockInv', DiskInterrupt, hw.status = "ready", queue # <<>>, ~LastSector
    PROVE  IInv'
<1>. DEFINE b == Head(queue)
            k == block[b]
<1>1. TypeOK /\ QueueLinked /\ offset \in Offsets
  BY IInvParts DEF Transfer
<1>2. /\ UNCHANGED <<valid, dirty, head, tail, link, queue, cut, pc, block, busy, image, want, buf,
                     changed>>
      /\ offset' = offset + 1 /\ offset + 1 \in Offsets
      /\ hw'.status = "busy" /\ hw'.lba = <<k, offset + 1>>
      /\ hw'.cmd = (IF dirty[b] THEN "write" ELSE "read")
      /\ dirty[b] => hw'.buffer = frame[b][offset + 1]
  BY <1>1, InterruptNext, InterruptFacts
<1>3. /\ \A c \in Buffers : c # b => frame'[c] = frame[c]
      /\ dirty[b] => frame' = frame /\ \A s \in Offsets : s <= offset => image[k][s] = changed[k]
      /\ ~dirty[b] => \A s \in Offsets : s <= offset => frame'[b][s] = changed[k]
  BY SectorDone
<1>4. PICK p \in Clients : pc[p] \in Queued /\ buf[p] = b /\ want[p] = k
  BY HeadClient
<1>5. pc[p] \in Holding /\ b \in Buffers /\ (dirty[b] <=> pc[p] = "writing") /\ busy[b]
  BY <1>4, HeadClient, HeadBusy, HolderDirty DEF Queued, Holding
<1>6. QueueOK'
  BY <1>2, SleepersKept, IInvParts DEF QueueHasSleepers
<1>7. DirtyIsWriting'
  BY <1>2, IInvParts DEF DirtyIsWriting
<1>8. FreeData'
  BY <1>2, <1>3, <1>5, DataKept
<1>9. Transfer'
  <2>1. \A s \in Offsets : s < offset + 1 => s <= offset
    BY <1>1, OffsetFacts, SMT
  <2>2. dirty[b] => frame[b][offset + 1] = changed[k]
    BY <1>2, <1>4, <1>5, IInvParts DEF HeldData
  <2>. QED  BY <1>2, <1>3, <2>1, <2>2 DEF Transfer
<1>. HIDE DEF b, k
<1>10. HeldData'
  <2>1. ASSUME NEW q \in Clients, q # p, pc[q] \in Holding PROVE frame'[buf[q]] = frame[buf[q]]
    BY <1>3, <1>4, <1>5, <2>1, Owner
  <2>2. pc[p] = "reading" \/ (pc[p] = "writing" /\ frame' = frame)
    BY <1>3, <1>4, <1>5 DEF Queued
  <2>. QED  BY <1>2, <2>1, <2>2, IInvParts, SMT DEF HeldData
<1>. QED  BY <1>6, <1>7, <1>8, <1>9, <1>10, IInvFromParts

\* The queue loses its head, and the head's client its place in disk_submit().
LEMMA QueueShrinks ==
    ASSUME IInv, queue # <<>>, NEW p \in Clients, pc[p] \in Queued, buf[p] = Head(queue),
           queue' = Tail(queue), head' = link[head], UNCHANGED <<tail, link, cut, busy, buf>>,
           \A q \in Clients : /\ pc'[q] = "waiting" => pc[q] = "waiting"
                              /\ pc'[q] \in Queued <=> pc[q] \in Queued /\ q # p
    PROVE  QueueOK'
<1>. DEFINE N == Len(queue)
<1>1. queue \in Seq(Buffers) /\ N \in Nat /\ N > 0 /\ Head(queue) = queue[1] /\ DOMAIN queue = 1 .. N
  BY IInvParts, SMT DEF TypeOK
<1>2. /\ queue' \in Seq(Buffers) /\ Len(queue') = N - 1
      /\ \A n \in 1 .. N - 1 : queue'[n] = queue[n + 1]
  BY <1>1, TailFacts
<1>3. /\ \A q \in Clients : pc[q] \in Queued => buf[q] \in Range(queue)
      /\ \A n \in 1 .. N : \E q \in Clients : pc[q] \in Queued /\ buf[q] = queue[n]
      /\ \A m, n \in 1 .. N : queue[m] = queue[n] => m = n
  BY IInvParts DEF QueueHasSleepers, Queued
<1>. HIDE DEF N
<1>4. \A q \in Clients : pc'[q] = "waiting" => busy'[buf'[q]]
  BY IInvParts DEF QueueHasSleepers
<1>5. ASSUME NEW q \in Clients, pc'[q] \in Queued PROVE buf'[q] \in Range(queue')
  <2>1. pc[q] \in Queued /\ q # p /\ buf[q] # queue[1]
    BY <1>1, <1>5, Owner, SMTT(30) DEF Queued, Holding
  <2>2. PICK n \in 1 .. N : queue[n] = buf[q]
    BY <1>1, <1>3, <2>1, SMTT(30) DEF Range
  <2>3. n - 1 \in 1 .. N - 1 /\ (n - 1) + 1 = n
    BY <1>1, <2>1, <2>2, SMTT(30)
  <2>4. queue'[n - 1] = buf[q] /\ n - 1 \in DOMAIN queue'
    BY <1>2, <2>2, <2>3, SMT
  <2>. QED  BY <2>4 DEF Range
<1>6. ASSUME NEW n \in 1 .. N - 1 PROVE \E q \in Clients : pc'[q] \in Queued /\ buf'[q] = queue'[n]
  <2>1. n + 1 \in 1 .. N /\ 1 \in 1 .. N /\ n + 1 # 1
    BY <1>1, SMT
  <2>2. PICK q \in Clients : pc[q] \in Queued /\ buf[q] = queue[n + 1]
    BY <1>3, <2>1
  <2>3. queue[n + 1] # queue[1]
    BY <1>3, <2>1
  <2>. QED  BY <1>1, <1>2, <2>2, <2>3
<1>7. ASSUME NEW m \in 1 .. N - 1, NEW n \in 1 .. N - 1, queue'[m] = queue'[n] PROVE m = n
  <2>1. m + 1 \in 1 .. N /\ n + 1 \in 1 .. N /\ queue[m + 1] = queue[n + 1]
    BY <1>1, <1>2, <1>7, SMT
  <2>. QED  BY <1>1, <1>3, <2>1, SMTT(30)
<1>8. QueueHasSleepers'
  BY <1>2, <1>4, <1>5, <1>6, <1>7 DEF QueueHasSleepers, Queued
<1>9. QueueLinked' /\ cut' = "no"
  BY IInvParts, ListShrinks, ListTypes
<1>. QED  BY <1>8, <1>9 DEF QueueOK

\* The request is done: its client goes on, and the next request is started.
LEMMA InterruptLastStep ==
    ASSUME IInv, TypeOK', LockInv', DiskInterrupt, hw.status = "ready", queue # <<>>, LastSector
    PROVE  IInv'
<1>. DEFINE b == Head(queue)
            k == block[b]
<1>1. TypeOK /\ QueueLinked /\ offset \in Offsets
  BY IInvParts DEF Transfer
<1>2. /\ UNCHANGED <<block, busy, tail, link, cut, image, want, buf, changed>>
      /\ offset + 1 = SECTORS
      /\ valid' = [valid EXCEPT ![b] = TRUE] /\ dirty' = [dirty EXCEPT ![b] = FALSE]
      /\ queue' = Tail(queue) /\ pc' = Wakeup(b) /\ head' = link[head]
  BY <1>1, InterruptLast, InterruptFacts
<1>3. PICK p \in Clients : pc[p] \in Queued /\ buf[p] = b /\ want[p] = k
  BY HeadClient
<1>4. pc[p] \in Holding /\ b \in Buffers /\ (dirty[b] <=> pc[p] = "writing") /\ busy[b]
  BY <1>3, HeadClient, HeadBusy, HolderDirty DEF Queued, Holding
<1>5. \A s \in Offsets : s <= offset
  BY <1>1, <1>2, SMT DEF Offsets
<1>6. /\ \A c \in Buffers : c # b => frame'[c] = frame[c]
      /\ dirty[b] => frame' = frame /\ \A s \in Offsets : image[k][s] = changed[k]
      /\ ~dirty[b] => \A s \in Offsets : frame'[b][s] = changed[k]
  BY <1>5, SectorDone
<1>7. \A s \in Offsets : frame'[b][s] = changed[k] /\ image[k][s] = changed[k]
  <2>1. CASE pc[p] = "writing"
    <3>1. \A s \in Offsets : frame[b][s] = changed[k]
      BY <1>3, <1>4, <2>1, IInvParts DEF HeldData
    <3>. QED  BY <1>4, <1>6, <2>1, <3>1
  <2>2. CASE pc[p] # "writing"
    <3>1. \A s \in Offsets : image[want[p]][s] = changed[want[p]]
      <4>1. HeldData
        BY IInvParts
      <4>. QED  BY <1>4, <2>2, <4>1 DEF HeldData
    <3>. QED  BY <1>3, <1>4, <1>6, <2>2, <3>1
  <2>. QED  BY <2>1, <2>2
<1>8. pc'[p] = IF pc[p] = "writing" THEN "written" ELSE "read"
  BY <1>2, <1>3 DEF Wakeup, Awake, Queued
<1>9. ASSUME NEW q \in Clients, q # p
      PROVE  pc'[q] = IF buf[q] = b /\ pc[q] = "waiting" THEN "get" ELSE pc[q]
  <2>1. pc[q] \in Holding => buf[q] # b
    BY <1>3, <1>4, <1>9, Owner, SMT
  <2>2. pc'[q] = IF buf[q] = b THEN Awake(q) ELSE pc[q]
    BY <1>2 DEF Wakeup
  <2>. QED  BY <2>1, <2>2 DEF Awake, Holding
<1>10. \A q \in Clients : q # p /\ pc[q] \in Holding => buf[q] \in Buffers /\ buf[q] # b
  BY <1>3, <1>4, Owner, SMT
<1>11. /\ valid'[b] /\ ~dirty'[b]
       /\ \A c \in Buffers : c # b => (valid'[c] <=> valid[c]) /\ (dirty'[c] <=> dirty[c])
  BY <1>2, <1>4, IInvParts DEF TypeOK
<1>12. QueueOK'
  <2>1. \A q \in Clients : /\ pc'[q] = "waiting" => pc[q] = "waiting"
                           /\ pc'[q] \in Queued <=> pc[q] \in Queued /\ q # p
    BY <1>8, <1>9 DEF Queued
  <2>. QED  BY <1>2, <1>3, <2>1, QueueShrinks
<1>13. Transfer'
  <2>1. CASE Tail(queue) = <<>>
    <3>1. hw' = hw
      BY <1>1, <2>1, InterruptStarts
    <3>. QED  BY <1>2, <2>1, <3>1 DEF Transfer
  <2>2. CASE Tail(queue) # <<>>
    <3>. DEFINE c == Head(Tail(queue))
    <3>1. /\ c \in Buffers /\ offset' = 0 /\ hw'.status = "busy" /\ hw'.lba = <<block[c], 0>>
          /\ hw'.cmd = (IF dirty'[c] THEN "write" ELSE "read")
          /\ dirty'[c] => hw'.buffer = frame'[c][0]
      BY <1>1, <2>2, InterruptStarts
    <3>2. 0 \in Offsets /\ \A s \in Offsets : ~(s < 0)
      BY OffsetFacts, SMT DEF Offsets
    <3>3. dirty'[c] => frame'[c][0] = changed[block[c]]
      <4>. SUFFICES ASSUME dirty'[c] PROVE frame'[c][0] = changed[block[c]]
        OBVIOUS
      <4>. HIDE DEF b, c
      <4>1. c # b /\ dirty[c]
        BY <1>11, <3>1
      <4>2. PICK r \in Clients : pc[r] = "writing" /\ buf[r] = c
        BY <3>1, <4>1, IInvParts DEF DirtyIsWriting
      <4>3. pc[r] \in Holding /\ block[c] = want[r]
        BY <4>2, Owner DEF Holding
      <4>4. frame[c][0] = changed[want[r]]
        BY <3>2, <4>2, <4>3, IInvParts DEF HeldData
      <4>. QED  BY <1>6, <3>1, <4>1, <4>3, <4>4
    <3>4. queue' # <<>> /\ Head(queue') = c
      BY <1>2, <2>2
    <3>. HIDE DEF c
    <3>. QED  BY <1>2, <3>1, <3>2, <3>3, <3>4 DEF Transfer
  <2>. QED  BY <2>1, <2>2
<1>. HIDE DEF b, k
<1>14. \A q \in Clients : /\ pc'[q] \in Holding <=> pc[q] \in Holding
                          /\ pc'[q] = "user" <=> pc[q] = "user"
                          /\ pc'[q] = "waiting" => pc[q] = "waiting"
  BY <1>3, <1>8, <1>9 DEF Holding, Queued
<1>15. DirtyIsWriting'
  <2>1. \A q \in Clients : pc'[q] = "writing" <=> pc[q] = "writing" /\ q # p
    BY <1>8, <1>9
  <2>2. ASSUME NEW c \in Buffers PROVE dirty'[c] <=> \E q \in Clients : pc'[q] = "writing" /\ buf'[q] = c
    <3>1. CASE c = b
      BY <1>2, <1>10, <1>11, <2>1, <3>1 DEF Holding
    <3>2. CASE c # b
      <4>1. dirty[c] <=> \E q \in Clients : pc[q] = "writing" /\ buf[q] = c
        BY IInvParts DEF DirtyIsWriting
      <4>2. \A q \in Clients : (pc[q] = "writing" /\ buf[q] = c) <=> (pc'[q] = "writing" /\ buf'[q] = c)
        BY <1>2, <1>3, <2>1, <3>2
      <4>. QED  BY <1>11, <3>2, <4>1, <4>2
    <3>. QED  BY <3>1, <3>2
  <2>. QED  BY <2>2 DEF DirtyIsWriting
<1>16. HeldData'
  <2>1. ASSUME NEW q \in Clients, q # p, pc'[q] \in Holding
        PROVE  /\ pc[q] \in Holding /\ pc'[q] = pc[q]
               /\ frame'[buf[q]] = frame[buf[q]] /\ (valid'[buf[q]] <=> valid[buf[q]])
    BY <1>6, <1>9, <1>10, <1>11, <1>14, <2>1 DEF Holding
  <2>2. ASSUME NEW q \in Clients, pc'[q] \in Holding
        PROVE  /\ pc'[q] # "writing" => \A s \in Offsets : image'[want'[q]][s] = changed'[want'[q]]
               /\ \/ pc'[q] \in {"read", "held", "writing", "written"}
                  \/ pc'[q] = "got" /\ valid'[buf'[q]]
                  => \A s \in Offsets : frame'[buf'[q]][s] = changed'[want'[q]]
    <3>1. CASE q = p
      BY <1>2, <1>3, <1>7, <3>1
    <3>2. CASE q # p
      <4>1. /\ pc[q] \in Holding /\ pc'[q] = pc[q]
            /\ frame'[buf[q]] = frame[buf[q]] /\ (valid'[buf[q]] <=> valid[buf[q]])
        BY <2>1, <2>2, <3>2
      <4>2. /\ pc[q] # "writing" => \A s \in Offsets : image[want[q]][s] = changed[want[q]]
            /\ \/ pc[q] \in {"read", "held", "writing", "written"}
               \/ pc[q] = "got" /\ valid[buf[q]]
               => \A s \in Offsets : frame[buf[q]][s] = changed[want[q]]
        BY <4>1, IInvParts DEF HeldData
      <4>. QED  BY <1>2, <4>1, <4>2
    <3>. QED  BY <3>1, <3>2
  <2>. QED  BY <2>2 DEF HeldData
<1>17. FreeData'
  <2>1. \A c \in Buffers : ~busy[c] => (valid'[c] <=> valid[c]) /\ frame'[c] = frame[c]
    BY <1>4, <1>6, <1>11
  <2>. QED  BY <1>2, <1>14, <2>1, DataKept
<1>. QED  BY <1>12, <1>13, <1>15, <1>16, <1>17, IInvFromParts

LEMMA InterruptStep == ASSUME IInv, TypeOK', LockInv', DiskInterrupt PROVE IInv'
<1>1. CASE hw.status # "ready" \/ queue = <<>>
  <2>1. UNCHANGED <<block, busy, valid, dirty, frame, head, tail, link, queue, cut, offset, hw, image, pc, want, buf, changed>>
    BY <1>1, IInvParts, ListEnds, ListTypes DEF DiskInterrupt
  <2>. QED  BY <2>1, KeptStep
<1>2. CASE hw.status = "ready" /\ queue # <<>>
  BY <1>2, InterruptNextStep, InterruptLastStep
<1>. QED  BY <1>1, <1>2

-----------------------------------------------------------------------------
(* The results. *)

LEMMA InitIInv == Init => IInv
<1>. SUFFICES ASSUME Init PROVE IInv
  OBVIOUS
<1>1. TypeOK
  BY InitTypeOK
<1>2. /\ \A p \in Clients : pc[p] = "user" /\ pc[p] \notin Holding
      /\ \A b \in Buffers : ~busy[b] /\ ~valid[b] /\ ~dirty[b] /\ block[b] = NoBlock
      /\ queue = <<>> /\ head = NoBuffer /\ cut = "no" /\ hw.status = "ready"
      /\ \A k \in Blocks : changed[k] = 0 /\ \A s \in Offsets : image[k][s] = 0
  BY DEF Init, Holding
<1>3. Asking /\ OneHolder /\ DirtyIsWriting /\ HeldData /\ FreeData /\ Transfer
  BY <1>2 DEF Asking, OneHolder, DirtyIsWriting, HeldData, FreeData, Transfer
<1>4. QueueHasSleepers
  BY <1>2, SMT DEF QueueHasSleepers
<1>5. QueueLinked
  BY <1>2 DEF QueueLinked
<1>. QED  BY <1>1, <1>2, <1>3, <1>4, <1>5 DEF IInv, QueueOK

\* Every step keeps the data, unless it is a kill that cuts a transfer short.
LEMMA NextIInv ==
    ASSUME IInv, [Next]_vars, ~(\E p \in Clients : SysKill(p)) \/ cut' = "no"
    PROVE  IInv'
<1>1. TypeOK' /\ LockInv'
  BY IInvParts, NextTypeOK, NextLock
<1>2. CASE DiskStep \/ DiskStepLost
  BY <1>1, <1>2, DiskStepStep DEF DiskStep, DiskStepLost
<1>3. CASE DiskStepFails
  BY <1>1, <1>3, DiskFailsStep
<1>4. CASE DiskInterrupt
  BY <1>1, <1>4, InterruptStep
<1>5. ASSUME NEW p \in Clients, NEW k \in Blocks, BufferRead(p, k) PROVE IInv'
  BY <1>1, <1>5, ReadStep
<1>6. ASSUME NEW p \in Clients, GetSleeps(p) PROVE IInv'
  BY <1>1, <1>6, GetSleepsStep
<1>7. ASSUME NEW p \in Clients, GetHits(p) PROVE IInv'
  BY <1>1, <1>7, GetHitsStep
<1>8. ASSUME NEW p \in Clients, GetRecycles(p) PROVE IInv'
  BY <1>1, <1>8, GetRecyclesStep
<1>9. ASSUME NEW p \in Clients, GetPanics(p) \/ ReadCached(p) \/ ReadDone(p) PROVE IInv'
  BY <1>1, <1>9, MoveStep
<1>10. ASSUME NEW p \in Clients, ReadSubmits(p) PROVE IInv'
  BY <1>1, <1>10, ReadSubmitsStep
<1>11. ASSUME NEW p \in Clients, BufferWrite(p) PROVE IInv'
  BY <1>1, <1>11, WriteStep
<1>12. ASSUME NEW p \in Clients, BufferRelease(p) PROVE IInv'
  BY <1>1, <1>12, ReleaseStep
<1>13. ASSUME NEW p \in Clients, SysKill(p) PROVE IInv'
  BY <1>1, <1>13, KillStep
<1>14. CASE UNCHANGED vars
  <2>1. UNCHANGED <<block, busy, valid, dirty, frame, head, tail, link, queue, cut, offset, hw,
                    image, pc, want, buf, changed>>
    BY <1>14 DEF vars, cacheVars, diskVars, queueVars, clientVars
  <2>. QED  BY <1>1, <2>1, KeptStep
<1>. QED
  BY <1>2, <1>3, <1>4, <1>5, <1>6, <1>7, <1>8, <1>9, <1>10, <1>11, <1>12, <1>13, <1>14
  DEF Next, Halted

\* A transfer that was cut short stays so.
LEMMA CutStays == cut # "no" /\ [Next]_vars => cut' # "no"
<1>. SUFFICES ASSUME cut # "no", [Next]_vars PROVE cut' # "no"
  OBVIOUS
<1>1. ASSUME NEW p \in Clients, ReadSubmits(p) \/ BufferWrite(p) \/ SysKill(p) PROVE cut' # "no"
  BY <1>1 DEF ReadSubmits, BufferWrite, Submit, SysKill
<1>2. ASSUME NEW p \in Clients,
             \/ \E k \in Blocks : BufferRead(p, k)
             \/ GetSleeps(p) \/ GetHits(p) \/ GetRecycles(p) \/ GetPanics(p)
             \/ ReadCached(p) \/ ReadDone(p) \/ BufferRelease(p)
      PROVE  cut' = cut
  BY <1>2 DEF BufferRead, GetSleeps, GetHits, GetRecycles, GetPanics, ReadCached, ReadDone,
              BufferRelease, diskVars, queueVars
<1>3. CASE DiskStep \/ DiskStepLost \/ DiskStepFails \/ DiskInterrupt
  BY <1>3 DEF DiskStep, DiskStepLost, DiskStepFails, DiskInterrupt, Transferred, queueVars
<1>4. CASE UNCHANGED vars
  BY <1>4 DEF vars, diskVars, queueVars
<1>. QED  BY <1>1, <1>2, <1>3, <1>4 DEF Next, Halted

\* The list of the requests, also after a transfer was cut short.
LEMMA SubmitList ==
    ASSUME ListInv, NEW p \in Clients, NEW b \in Buffers, NEW w, NEW f, NEW l, Submit(p, b, w, f, l)
    PROVE  ListInv'
<1>. SUFFICES ASSUME cut' # "twice"
              PROVE  /\ ListTypeOK' /\ QueueLinked'
                     /\ \A m, n \in 1 .. Len(queue') : queue'[m] = queue'[n] => m = n
  BY DEF ListInv
<1>1. /\ b \notin Range(queue) /\ cut # "twice" /\ queue' = Append(queue, b)
      /\ link' = Linked(b) /\ tail' = b /\ head' = IF head = NoBuffer THEN b ELSE head
  BY DEF Submit
<1>2. /\ ListTypeOK /\ QueueLinked
      /\ \A m, n \in 1 .. Len(queue) : queue[m] = queue[n] => m = n
  BY <1>1 DEF ListInv
<1>3. head' = IF queue = <<>> THEN b ELSE head
  BY <1>1, <1>2, ListEnds
<1>4. QueueLinked'
  BY <1>1, <1>2, <1>3, ListGrows
<1>. DEFINE N == Len(queue)
<1>5. N \in Nat /\ queue \in Seq(Buffers) /\ DOMAIN queue = 1 .. N
  BY <1>2, SMT DEF ListTypeOK
<1>6. /\ queue' \in Seq(Buffers) /\ Len(queue') = N + 1 /\ queue'[N + 1] = b
      /\ \A n \in 1 .. N : queue'[n] = queue[n]
  BY <1>1, <1>5, AppendFacts
<1>7. ListTypeOK'
  BY <1>1, <1>2, <1>6, LinkedType DEF ListTypeOK
<1>8. \A n \in 1 .. N : queue[n] # b
  BY <1>1, <1>5 DEF Range
<1>. HIDE DEF N
<1>9. \A m \in 1 .. N + 1 : m = N + 1 \/ m \in 1 .. N
  BY <1>5, SMT
<1>10. ASSUME NEW m \in 1 .. Len(queue'), NEW n \in 1 .. Len(queue'), queue'[m] = queue'[n]
       PROVE  m = n
  <2>1. /\ m = N + 1 \/ m \in 1 .. N
        /\ n = N + 1 \/ n \in 1 .. N
    BY <1>6, <1>9
  <2>. QED  BY <1>2, <1>6, <1>8, <1>10, <2>1 DEF N
<1>. QED  BY <1>4, <1>7, <1>10

LEMMA InterruptList ==
    ASSUME ListInv, DiskInterrupt
    PROVE  ListInv'
<1>. SUFFICES ASSUME cut # "twice"
              PROVE  /\ ListTypeOK' /\ QueueLinked'
                     /\ \A m, n \in 1 .. Len(queue') : queue'[m] = queue'[n] => m = n
  BY DEF ListInv, DiskInterrupt
<1>1. /\ ListTypeOK /\ QueueLinked
      /\ \A m, n \in 1 .. Len(queue) : queue[m] = queue[n] => m = n
  BY DEF ListInv
<1>2. CASE UNCHANGED <<head, queue>>
  <2>1. UNCHANGED <<head, tail, link, queue>>
    BY <1>2 DEF DiskInterrupt
  <2>. QED  BY <1>1, <2>1 DEF ListTypeOK, QueueLinked
<1>3. CASE ~UNCHANGED <<head, queue>>
  <2>1. head # NoBuffer
    BY <1>3 DEF DiskInterrupt
  <2>2. queue # <<>> /\ head \in Buffers
    BY <1>1, <2>1, ListEnds
  <2>3. head' = link[head] /\ queue' = Tail(queue) /\ UNCHANGED <<tail, link>>
    BY <1>3, <2>2 DEF DiskInterrupt
  <2>4. QueueLinked'
    BY <1>1, <2>2, <2>3, ListShrinks
  <2>5. /\ queue' \in Seq(Buffers) /\ Len(queue') = Len(queue) - 1 /\ Len(queue) \in Nat
        /\ \A n \in 1 .. Len(queue) - 1 : queue'[n] = queue[n + 1]
    BY <1>1, <2>2, <2>3, TailFacts, SMT DEF ListTypeOK
  <2>6. ListTypeOK'
    BY <1>1, <2>2, <2>3, <2>5 DEF ListTypeOK
  <2>7. ASSUME NEW m \in 1 .. Len(queue'), NEW n \in 1 .. Len(queue'), queue'[m] = queue'[n]
        PROVE  m = n
    <3>1. /\ m \in 1 .. Len(queue) - 1 /\ m + 1 \in 1 .. Len(queue)
          /\ n \in 1 .. Len(queue) - 1 /\ n + 1 \in 1 .. Len(queue)
      BY <2>5, SMT
    <3>2. m + 1 = n + 1
      BY <1>1, <2>5, <2>7, <3>1
    <3>. QED  BY <3>1, <3>2, SMT
  <2>. QED  BY <2>4, <2>6, <2>7
<1>. QED  BY <1>2, <1>3

LEMMA NextList ==
    ASSUME LockInv, ListInv, [Next]_vars
    PROVE  ListInv'
<1>1. ASSUME NEW p \in Clients, ReadSubmits(p) PROVE ListInv'
  <2>1. buf[p] \in Buffers
    BY <1>1 DEF ReadSubmits, LockInv, Asking, Holding
  <2>. QED  BY <1>1, <2>1, SubmitList DEF ReadSubmits
<1>2. ASSUME NEW p \in Clients, BufferWrite(p) PROVE ListInv'
  <2>1. buf[p] \in Buffers
    BY <1>2 DEF BufferWrite, LockInv, Asking, Holding
  <2>. QED  BY <1>2, <2>1, SubmitList DEF BufferWrite
<1>3. CASE DiskInterrupt
  BY <1>3, InterruptList
<1>4. ASSUME UNCHANGED <<head, tail, link, queue>>, cut' # "twice" => cut # "twice" PROVE ListInv'
  BY <1>4 DEF ListInv, ListTypeOK, QueueLinked
<1>5. ASSUME NEW p \in Clients,
             \/ \E k \in Blocks : BufferRead(p, k)
             \/ GetSleeps(p) \/ GetHits(p) \/ GetRecycles(p) \/ GetPanics(p)
             \/ ReadCached(p) \/ ReadDone(p) \/ BufferRelease(p)
      PROVE  UNCHANGED <<head, tail, link, queue, cut>>
  BY <1>5 DEF BufferRead, GetSleeps, GetHits, GetRecycles, GetPanics, ReadCached, ReadDone,
              BufferRelease, diskVars, queueVars
<1>6. ASSUME NEW p \in Clients, SysKill(p)
      PROVE  UNCHANGED <<head, tail, link, queue>> /\ (cut' # "twice" => cut # "twice")
  BY <1>6 DEF SysKill
<1>7. CASE DiskStep \/ DiskStepLost \/ DiskStepFails
  <2>1. UNCHANGED <<head, tail, link, queue, cut>>
    BY <1>7 DEF DiskStep, DiskStepLost, DiskStepFails, Transferred, queueVars
  <2>. QED  BY <1>4, <2>1
<1>8. CASE UNCHANGED vars
  <2>1. UNCHANGED <<head, tail, link, queue, cut>>
    BY <1>8 DEF vars, diskVars, queueVars
  <2>. QED  BY <1>4, <2>1
<1>. QED  BY <1>1, <1>2, <1>3, <1>4, <1>5, <1>6, <1>7, <1>8 DEF Next, Halted

LEMMA Invariance == Spec => []Inv
<1>1. Init => Inv
  BY InitIInv, IInvParts DEF Inv, ListInv, QueueHasSleepers
<1>2. Inv /\ [Next]_vars => Inv'
  BY NextLock, NextList, NextIInv, CutStays DEF Inv
<1>. QED  BY <1>1, <1>2, PTL DEF Spec

\* Where nobody is killed, as when init is the only client, no transfer is cut short.
LEMMA NeverCut == ASSUME Killable = {} PROVE Spec => []IInv
<1>1. IInv /\ [Next]_vars => IInv'
  BY NextIInv DEF SysKill
<1>. QED  BY InitIInv, <1>1, PTL DEF Spec

\* The BUSY flag that buffer_get() sets and buffer_release() clears is a lock: a
\* buffer is busy just when one client holds it, with the block it asked for,
\* and no block is in two buffers; also when sys_kill() ends sleeps in buffer_get()
\* and in disk_submit().
THEOREM BusyIsALock == Spec => []LockedByOne
<1>1. ASSUME LockInv PROVE LockedByOne
  <2>. DEFINE Held(b) == \E p \in Clients : pc[p] \in Holding /\ buf[p] = b
  <2>1. \A b \in Buffers : busy[b] \in BOOLEAN /\ (busy[b] <=> Held(b))
    BY <1>1, SMT DEF LockInv, LockTypeOK, OneHolder
  <2>2. \A b \in Buffers : Held(b) \in BOOLEAN
    OBVIOUS
  <2>3. \A b \in Buffers : busy[b] = Held(b)
    <3>. HIDE DEF Held
    <3>. QED  BY <2>1, <2>2
  <2>4. \A b \in Buffers : busy[b] = (\E p \in Clients : pc[p] \in Holding /\ buf[p] = b)
    BY <2>3
  <2>. QED  BY <1>1, <2>4 DEF LockInv, OneHolder, LockedByOne
<1>2. Inv => LockedByOne
  BY <1>1 DEF Inv
<1>. QED  BY <1>2, Invariance, PTL

LEMMA IInvReadsLatest == IInv => ReadsLatest
<1>. SUFFICES ASSUME IInv PROVE ReadsLatest
  OBVIOUS
<1>1. ASSUME NEW p \in Clients, pc[p] = "held"
      PROVE  frame[buf[p]] = [s \in Offsets |-> changed[want[p]]]
  <2>1. pc[p] \in Holding
    BY <1>1 DEF Holding
  <2>2. frame[buf[p]] \in [Offsets -> Nat]
    BY <2>1, Owner, IInvParts DEF TypeOK
  <2>3. \A s \in Offsets : frame[buf[p]][s] = changed[want[p]]
    BY <1>1, <2>1, IInvParts DEF HeldData
  <2>. QED  BY <2>2, <2>3
<1>2. ASSUME NEW b \in Buffers, valid[b], ~busy[b] PROVE frame[b] = image[block[b]]
  <2>1. block[b] \in Blocks /\ \A s \in Offsets : frame[b][s] = image[block[b]][s]
    BY <1>2, IInvParts DEF FreeData
  <2>2. frame[b] \in [Offsets -> Nat] /\ image[block[b]] \in [Offsets -> Nat]
    BY <2>1, IInvParts DEF TypeOK
  <2>. QED  BY <2>1, <2>2, SMT
<1>. QED  BY <1>1, <1>2 DEF ReadsLatest

LEMMA IInvNoLostUpdate == IInv => NoLostUpdate
<1>. SUFFICES ASSUME IInv PROVE NoLostUpdate
  OBVIOUS
<1>1. ASSUME NEW k \in Blocks, \A p \in Clients : pc[p] \in Holding => want[p] # k
      PROVE  image[k] = [s \in Offsets |-> changed[k]]
  <2>1. image[k] \in [Offsets -> Nat] /\ \A s \in Offsets : image[k][s] = changed[k]
    BY <1>1, IInvParts DEF TypeOK, FreeData
  <2>. QED  BY <2>1
<1>. QED  BY <1>1 DEF NoLostUpdate

\* Until a kill ends a sleep in disk_submit(), a client that holds a block sees it
\* with every change made so far, in all its sectors, and what the cache keeps of
\* a free block is what is on disk: hits, recycling, the sectors of a transfer,
\* their interrupts, lost lines and host errors notwithstanding.
THEOREM HoldersReadLatest == Spec => []ReadsLatestUnlessCut
<1>1. Inv => ReadsLatestUnlessCut
  BY IInvReadsLatest DEF Inv, ReadsLatestUnlessCut
<1>. QED  BY <1>1, Invariance, PTL

\* Until a kill ends a sleep in disk_submit(), a block that no client holds is on
\* the disk with every change made to it, in all its sectors: no buffer_write() is
\* lost or torn.
THEOREM NoUpdateLost == Spec => []NoLostUpdateUnlessCut
<1>1. Inv => NoLostUpdateUnlessCut
  BY IInvNoLostUpdate DEF Inv, NoLostUpdateUnlessCut
<1>. QED  BY <1>1, Invariance, PTL

\* Until a kill ends a sleep in disk_submit(), the queue holds the buffers of the
\* clients asleep there, each once, and no others; and until a buffer is submitted
\* that is in it, disk.head, the links and disk.tail make a list of the requests.
THEOREM SleepersQueued == Spec => []QueueUnlessCut
<1>1. Inv => QueueUnlessCut
  BY IInvParts DEF Inv, ListInv, QueueUnlessCut
<1>. QED  BY <1>1, Invariance, PTL

\* Where sys_kill() refuses every client, as it refuses init, the only one so far,
\* the cache is exact without exception: what a client reads is the latest, no
\* change is lost, and disk.head, the links and disk.tail make a list of the
\* buffers of the clients asleep in disk_submit(), each once, and of no others.
THEOREM ExactUnlessKilled ==
    ASSUME Killable = {}
    PROVE  Spec => [](ReadsLatest /\ NoLostUpdate /\ QueueHasSleepers /\ QueueLinked)
<1>1. IInv => ReadsLatest /\ NoLostUpdate /\ QueueHasSleepers /\ QueueLinked
  BY IInvReadsLatest, IInvNoLostUpdate, IInvParts
<1>. QED  BY <1>1, NeverCut, PTL
=============================================================================
