------------------------------- MODULE Disk -------------------------------
(***************************************************************************)
(* The block layer: the buffer cache (kernel/buffer.c), the request queue  *)
(* and the interrupt handler of the disk driver (kernel/disk.c), and the   *)
(* disk itself (machine.c), one sector at a time.                          *)
(*                                                                         *)
(* A client reads a block, may change it and write it back, and releases   *)
(* it, as block_alloc(), block_zero(), block_free() and fs_init() do.  The *)
(* contents of a sector are the number of changes made to it.  The kernel  *)
(* is not preemptive: at most one client is in the kernel and not asleep;  *)
(* the disk and its interrupt run between any two steps.                   *)
(*                                                                         *)
(* Two things cut a transfer short.  sys_kill() makes a client that sleeps *)
(* in disk_submit() runnable, which then takes its transfer for done; its  *)
(* buffer is still in the queue.  And the acknowledgement of another       *)
(* device's interrupt may erase the line the disk raises (module Plic).    *)
(***************************************************************************)
EXTENDS Integers, Sequences, Functions

CONSTANTS Clients,      \* processes that use the block layer
          Killable,     \* those sys_kill() accepts: not init, which has pid 1
          CACHE_SIZE,   \* buffers in the cache
          Blocks,       \* block numbers
          NoBlock,      \* not a block: the drive of an unused buffer is 0
          SECTORS,      \* BLOCK_SIZE / DISK_SECTOR_SIZE
          NoClient,     \* nobody
          FAULTS,       \* whether the host may fail a transfer
          CHANGES       \* bound: changes made to the blocks in a behaviour

ASSUME DiskAssumption ==
    /\ SECTORS \in Nat \ {0} /\ CHANGES \in Nat /\ FAULTS \in BOOLEAN
    /\ CACHE_SIZE \in Nat /\ Killable \subseteq Clients
    /\ NoBlock \notin Blocks /\ NoClient \notin Clients

Buffers == 1 .. CACHE_SIZE      \* buffer_cache.buffers
NoBuffer == 0                   \* NULL
Offsets == 0 .. SECTORS - 1

VARIABLES lru,          \* the cache's list, most recently used first
          block,        \* block_number (with drive)
          busy, valid, dirty, refcount, frame,  \* flags, refcount, contents
          head, tail,   \* disk.head, disk.tail
          link,         \* b->queue
          queue,        \* history: the requests not yet done, in order; <<>> for good
                        \* once a buffer was submitted that was in it
          offset,       \* disk.sector_offset
          hw,           \* the disk: status, cmd, lba, buffer
          irq,          \* PLIC_PIN_DISK
          image,        \* the disk's contents
          pc, want, buf,        \* per client: where it is, its block, its buffer
          run,          \* the client in the kernel and not asleep
          changed,      \* history: changes made to each block
          panicked,     \* panic("full cache")
          cut,          \* history: "cut" since a kill ended a sleep in disk_submit(),
                        \* "twice" since a buffer was submitted that was in the queue
          lost          \* history: the line the disk raised was erased

cacheVars == <<lru, block, busy, valid, dirty, refcount, frame>>
queueVars == <<head, tail, link, queue, cut>>
diskVars == <<queueVars, offset, hw, irq, image, lost>>
clientVars == <<pc, want, buf, run, changed, panicked>>
vars == <<cacheVars, diskVars, clientVars>>

Init == /\ lru = [i \in 1 .. CACHE_SIZE |-> CACHE_SIZE + 1 - i]
        /\ block = [b \in Buffers |-> NoBlock]
        /\ busy = [b \in Buffers |-> FALSE]
        /\ valid = [b \in Buffers |-> FALSE]
        /\ dirty = [b \in Buffers |-> FALSE]
        /\ refcount = [b \in Buffers |-> 0]
        /\ frame = [b \in Buffers |-> [s \in Offsets |-> 0]]
        /\ head = NoBuffer /\ tail = NoBuffer /\ link = [b \in Buffers |-> NoBuffer]
        /\ queue = <<>> /\ cut = "no"
        /\ offset = 0 /\ irq = FALSE /\ lost = FALSE
        /\ hw = [status |-> "ready", cmd |-> "none", lba |-> <<NoBlock, 0>>, buffer |-> 0]
        /\ image = [k \in Blocks |-> [s \in Offsets |-> 0]]
        /\ pc = [p \in Clients |-> "user"]
        /\ want = [p \in Clients |-> NoBlock]
        /\ buf = [p \in Clients |-> NoBuffer]
        /\ run = NoClient
        /\ changed = [k \in Blocks |-> 0]
        /\ panicked = FALSE

-----------------------------------------------------------------------------
(* The driver. *)

\* Mutant: always the first sector of the block.
StartedFirst(b, s, d, f) ==
    [status |-> "busy", cmd |-> IF d[b] THEN "write" ELSE "read",
     lba |-> <<block[b], 0>>, buffer |-> IF d[b] THEN f[b][s] ELSE hw.buffer]

\* disk_start_operation() for sector s of buffer b, the one at disk.head; a write
\* puts the sector into DISK_BUF first.  A disk that is busy starts afresh.
Started(b, s, d, f) ==
    [status |-> "busy", cmd |-> IF d[b] THEN "write" ELSE "read",
     lba |-> <<block[b], s>>, buffer |-> IF d[b] THEN f[b][s] ELSE hw.buffer]

\* Mutant: the link of b itself is not cleared.
LinkedKeeps(b) == IF head = NoBuffer THEN link ELSE [link EXCEPT ![tail] = b]

\* The links after b is appended to the queue.
Linked(b) == LET l == [link EXCEPT ![b] = NoBuffer]
             IN  IF head = NoBuffer THEN l ELSE [l EXCEPT ![tail] = b]

\* disk_submit(b) with the DIRTY flag set to w and frames f: append to the queue,
\* start the disk if b is the first, sleep on b.  Interrupts are off.
Submit(p, b, w, f, l) ==
    /\ dirty' = [dirty EXCEPT ![b] = w]
    /\ link' = Linked(b)
    /\ head' = IF head = NoBuffer THEN b ELSE head
    /\ tail' = b
    /\ IF head' = b
       THEN offset' = 0 /\ hw' = Started(b, 0, dirty', f)
       ELSE UNCHANGED <<offset, hw>>
    /\ pc' = [pc EXCEPT ![p] = l]
    /\ cut' = IF b \in Range(queue) THEN "twice" ELSE cut
    /\ queue' = IF cut' = "twice" THEN <<>> ELSE Append(queue, b)

\* wakeup(b): in buffer_get() and in disk_submit() processes sleep on b.
Awake(p) == CASE pc[p] = "waiting" -> "get"
              [] pc[p] = "reading" -> "read"
              [] pc[p] = "writing" -> "written"
              [] OTHER -> pc[p]

\* Mutant: sleepers on every buffer are woken.
WakeupAll(b) == [p \in Clients |-> Awake(p)]

Wakeup(b) == [p \in Clients |-> IF buf[p] = b THEN Awake(p) ELSE pc[p]]

\* Mutant: the offset is not advanced.
NextOffsetStays == offset

\* disk.sector_offset++
NextOffset == offset + 1

\* The sector transferred was the last of its block.
LastSector == NextOffset >= SECTORS

\* disk_interrupt(), with the disk's line acknowledged.
DiskInterrupt ==
    /\ irq
    /\ irq' = FALSE
    /\ IF hw.status # "ready" \/ head = NoBuffer
       THEN UNCHANGED <<head, queue, offset, hw, valid, dirty, frame, pc>>
       ELSE LET b == head IN
            /\ frame' = IF dirty[b] THEN frame ELSE [frame EXCEPT ![b][offset] = hw.buffer]
            /\ IF LastSector
               THEN /\ valid' = [valid EXCEPT ![b] = TRUE]
                    /\ dirty' = [dirty EXCEPT ![b] = FALSE]
                    /\ head' = link[b]
                    /\ queue' = IF queue = <<>> THEN queue ELSE Tail(queue)
                    /\ pc' = Wakeup(b)
                    /\ IF head' = NoBuffer
                       THEN offset' = NextOffset /\ hw' = hw
                       ELSE offset' = 0 /\ hw' = Started(head', 0, dirty', frame')
               ELSE /\ offset' = NextOffset
                    /\ hw' = Started(b, NextOffset, dirty, frame')
                    /\ UNCHANGED <<valid, dirty, head, queue, pc>>
    /\ UNCHANGED <<lru, block, busy, refcount, tail, link, cut, image, lost,
                   want, buf, run, changed, panicked>>

\* Disk_step(): the sector is transferred, ...
Transferred ==
    /\ hw.status = "busy"
    /\ LET k == hw.lba[1]  s == hw.lba[2] IN
       IF hw.cmd = "read"
       THEN hw' = [hw EXCEPT !.status = "ready", !.buffer = image[k][s]] /\ image' = image
       ELSE hw' = [hw EXCEPT !.status = "ready"] /\ image' = [image EXCEPT ![k][s] = hw.buffer]
    /\ UNCHANGED <<cacheVars, queueVars, offset, clientVars>>

\* ... and the line raised.
DiskStep == Transferred /\ irq' = TRUE /\ UNCHANGED lost

\* The line is raised between the read and the write of PLIC_INTERRUPT_LINES with
\* which timer_interrupt() or uart_rx_interrupt() acknowledges its own line: the
\* write puts the disk's line down again.
DiskStepLost == Transferred /\ ~irq /\ irq' = FALSE /\ lost' = TRUE

\* Disk_step(): the host's fread() or fwrite() falls short; no interrupt.
DiskStepFails ==
    /\ FAULTS /\ hw.status = "busy"
    /\ hw' = [hw EXCEPT !.status = "error"]
    /\ UNCHANGED <<cacheVars, queueVars, offset, irq, image, lost, clientVars>>

-----------------------------------------------------------------------------
(* The buffer cache. *)

\* p has the CPU, or gets it from the scheduler because nobody has.
Runs(p) == ~panicked /\ run \in {p, NoClient}

\* Mutant: buffers in use are recycled.
UnusedAny == 1 .. Len(lru)
\* The places in the cache's list of the buffers that hold block k, and of those
\* buffer_get() may recycle.
Hits(k) == {i \in 1 .. Len(lru) : block[lru[i]] = k}
Unused == {i \in 1 .. Len(lru) : refcount[lru[i]] = 0 /\ ~busy[lru[i]]}

\* b is the first buffer of the list with block k; the last one of no use.
FirstHit(k, b) == \E i \in Hits(k) : b = lru[i] /\ \A j \in Hits(k) : i <= j
LastUnused(b) == \E i \in Unused : b = lru[i] /\ \A j \in Unused : j <= i

\* A client calls buffer_read() for block k.
BufferRead(p, k) ==
    /\ Runs(p) /\ pc[p] = "user"
    /\ want' = [want EXCEPT ![p] = k]
    /\ pc' = [pc EXCEPT ![p] = "get"]
    /\ run' = p
    /\ UNCHANGED <<cacheVars, diskVars, buf, changed, panicked>>

\* buffer_get(): the first buffer with the block is locked by another client.
GetSleeps(p) ==
    /\ Runs(p) /\ pc[p] = "get"
    /\ \E b \in Buffers :
          /\ FirstHit(want[p], b)
          /\ busy[b]
          /\ buf' = [buf EXCEPT ![p] = b]
    /\ pc' = [pc EXCEPT ![p] = "waiting"]
    /\ run' = NoClient
    /\ UNCHANGED <<cacheVars, diskVars, want, changed, panicked>>

\* buffer_get(): it is free, and locked.
GetHits(p) ==
    /\ Runs(p) /\ pc[p] = "get"
    /\ \E b \in Buffers :
          /\ FirstHit(want[p], b)
          /\ ~busy[b]
          /\ busy' = [busy EXCEPT ![b] = TRUE]
          /\ refcount' = [refcount EXCEPT ![b] = @ + 1]
          /\ buf' = [buf EXCEPT ![p] = b]
    /\ pc' = [pc EXCEPT ![p] = "got"]
    /\ run' = p
    /\ UNCHANGED <<lru, block, valid, dirty, frame, diskVars, want, changed, panicked>>

\* buffer_get(): the block is not in the cache, the least recently used buffer is
\* recycled.
GetRecycles(p) ==
    /\ Runs(p) /\ pc[p] = "get" /\ Hits(want[p]) = {}
    /\ \E b \in Buffers :
          /\ LastUnused(b)
          /\ block' = [block EXCEPT ![b] = want[p]]
          /\ refcount' = [refcount EXCEPT ![b] = 1]
          /\ busy' = [busy EXCEPT ![b] = TRUE]
          /\ valid' = [valid EXCEPT ![b] = FALSE]
          /\ dirty' = [dirty EXCEPT ![b] = FALSE]
          /\ buf' = [buf EXCEPT ![p] = b]
    /\ pc' = [pc EXCEPT ![p] = "got"]
    /\ run' = p
    /\ UNCHANGED <<lru, frame, diskVars, want, changed, panicked>>

\* buffer_get(): panic("full cache").
GetPanics(p) ==
    /\ Runs(p) /\ pc[p] = "get" /\ Hits(want[p]) = {} /\ Unused = {}
    /\ panicked' = TRUE
    /\ run' = p
    /\ UNCHANGED <<cacheVars, diskVars, pc, want, buf, changed>>

\* buffer_read(): the cached contents are good ...
ReadCached(p) ==
    /\ Runs(p) /\ pc[p] = "got" /\ valid[buf[p]]
    /\ pc' = [pc EXCEPT ![p] = "held"]
    /\ UNCHANGED <<cacheVars, diskVars, want, buf, changed, panicked, run>>

\* ... or disk_block_read() gets them.
ReadSubmits(p) ==
    /\ Runs(p) /\ pc[p] = "got" /\ ~valid[buf[p]]
    /\ Submit(p, buf[p], FALSE, frame, "reading")
    /\ run' = NoClient
    /\ UNCHANGED <<lru, block, busy, valid, refcount, frame, irq, image, lost,
                   want, buf, changed, panicked>>

\* buffer_read() goes on after the sleep.
ReadDone(p) ==
    /\ Runs(p) /\ pc[p] = "read"
    /\ valid' = [valid EXCEPT ![buf[p]] = TRUE]
    /\ pc' = [pc EXCEPT ![p] = "held"]
    /\ run' = p
    /\ UNCHANGED <<lru, block, busy, dirty, refcount, frame, diskVars,
                   want, buf, changed, panicked>>

\* The client changes every sector of its block and calls buffer_write().
BufferWrite(p) ==
    /\ Runs(p) /\ pc[p] = "held" /\ changed[want[p]] < CHANGES
    /\ frame' = [frame EXCEPT ![buf[p]] = [s \in Offsets |-> @[s] + 1]]
    /\ changed' = [changed EXCEPT ![want[p]] = @ + 1]
    /\ Submit(p, buf[p], TRUE, frame', "writing")
    /\ run' = NoClient
    /\ UNCHANGED <<lru, block, busy, valid, refcount, irq, image, lost, want, buf, panicked>>

\* The list after the last reference to b is gone: b first.
MovedToFront(b) ==
    LET n == CHOOSE i \in 1 .. Len(lru) : lru[i] = b
    IN  [i \in 1 .. Len(lru) |-> IF i = 1 THEN b ELSE IF i <= n THEN lru[i - 1] ELSE lru[i]]

\* buffer_release(), after a read or after a write.
BufferRelease(p) ==
    /\ Runs(p) /\ pc[p] \in {"held", "written"}
    /\ LET b == buf[p] IN
          /\ pc' = [Wakeup(b) EXCEPT ![p] = "user"]
          /\ busy' = [busy EXCEPT ![b] = FALSE]
          /\ refcount' = [refcount EXCEPT ![b] = @ - 1]
          /\ lru' = IF refcount'[b] = 0 THEN MovedToFront(b) ELSE lru
    /\ buf' = [buf EXCEPT ![p] = NoBuffer]
    /\ run' = NoClient
    /\ UNCHANGED <<block, valid, dirty, frame, diskVars, want, changed, panicked>>

\* sys_kill() of a client by the process that has the CPU: asleep in buffer_get()
\* or in disk_submit(), it becomes runnable and goes on where it slept.  It exits
\* on its way back to user space; its entry may then serve another process.
SysKill(p) ==
    /\ ~panicked /\ run = NoClient
    /\ p \in Killable /\ pc[p] \in {"waiting", "reading", "writing"}
    /\ pc' = [pc EXCEPT ![p] = Awake(p)]
    /\ cut' = IF pc[p] # "waiting" /\ cut = "no" THEN "cut" ELSE cut
    /\ UNCHANGED <<cacheVars, head, tail, link, queue, offset, hw, irq, image, lost,
                   want, buf, run, changed, panicked>>

\* panic() stops the CPU; the model stops with it.
Halted == panicked /\ UNCHANGED vars

Kernel(p) == \/ GetSleeps(p) \/ GetHits(p) \/ GetRecycles(p) \/ GetPanics(p)
             \/ ReadCached(p) \/ ReadSubmits(p) \/ ReadDone(p)
             \/ BufferWrite(p) \/ BufferRelease(p)

Next == \/ DiskStep \/ DiskStepLost \/ DiskStepFails \/ DiskInterrupt
        \/ \E p \in Clients : \/ \E k \in Blocks : BufferRead(p, k)
                              \/ GetSleeps(p) \/ GetHits(p) \/ GetRecycles(p)
                              \/ GetPanics(p) \/ ReadCached(p) \/ ReadSubmits(p)
                              \/ ReadDone(p) \/ BufferWrite(p) \/ BufferRelease(p)
                              \/ SysKill(p)
        \/ Halted

\* The disk finishes its transfers, a line that is up is taken (one that was
\* erased is not), the running client goes on and the round-robin scheduler comes
\* to every runnable one.  Nobody has to be killed.
Fairness == /\ WF_vars(DiskStep) /\ WF_vars(DiskInterrupt)
            /\ \A p \in Clients : SF_vars(Kernel(p))

Spec == Init /\ [][Next]_vars /\ Fairness

-----------------------------------------------------------------------------
Holding == {"got", "reading", "read", "held", "writing", "written"}

\* BUSY is a lock on the block: a buffer is busy just when one client holds it,
\* no two clients hold the same buffer, it still has the block its client asked
\* for, and no block is in two buffers, whatever hits, waits, recycling and kills
\* went before.
LockedByOne ==
    /\ \A b, c \in Buffers : block[b] = block[c] /\ block[b] # NoBlock => b = c
    /\ \A b \in Buffers : busy[b] = (\E p \in Clients : pc[p] \in Holding /\ buf[p] = b)
    /\ \A p, q \in Clients :
          pc[p] \in Holding /\ pc[q] \in Holding /\ buf[p] = buf[q] => p = q
    /\ \A p \in Clients : pc[p] \in Holding => block[buf[p]] = want[p]

\* What a client sees in a buffer it holds, and what the cache keeps of a free
\* one, is the block with every change made so far, in all its sectors.
ReadsLatest ==
    /\ \A p \in Clients : pc[p] = "held" =>
          frame[buf[p]] = [s \in Offsets |-> changed[want[p]]]
    /\ \A b \in Buffers : valid[b] /\ ~busy[b] => frame[b] = image[block[b]]

\* No change is lost and no write is torn: a block no client holds is on the
\* disk with every change made to it, in all its sectors.
NoLostUpdate == \A k \in Blocks :
    (\A p \in Clients : pc[p] \in Holding => want[p] # k)
        => image[k] = [s \in Offsets |-> changed[k]]

\* disk.head, the links and disk.tail make a list of the requests not yet done.
QueueLinked ==
    IF queue = <<>> THEN head = NoBuffer
    ELSE /\ head = Head(queue) /\ tail = queue[Len(queue)] /\ link[tail] = NoBuffer
         /\ \A i \in 1 .. Len(queue) - 1 : link[queue[i]] = queue[i + 1]

\* The queue and the sleepers of disk_submit() agree: each of them has its
\* buffer in the queue, once, and nothing else is there; so the wakeup for a
\* buffer finds its client asleep.  A client in buffer_get() sleeps only on a
\* buffer somebody will release.
QueueHasSleepers ==
    /\ \A p \in Clients : pc[p] = "waiting" => busy[buf[p]]
    /\ \A p \in Clients : pc[p] \in {"reading", "writing"} => buf[p] \in Range(queue)
    /\ \A i \in 1 .. Len(queue) : \E p \in Clients :
          pc[p] \in {"reading", "writing"} /\ buf[p] = queue[i]
    /\ \A i, j \in 1 .. Len(queue) : queue[i] = queue[j] => i = j

\* disk_submit() sleeps once and does not look whether its transfer is done.  So
\* ReadsLatest, NoLostUpdate and QueueHasSleepers hold until a kill ends a sleep in
\* it.  The client then works on a buffer that the disk still reads or writes, and
\* releases it: the cache keeps contents that are not the block's, ...
ReadsLatestUnlessCut == cut = "no" => ReadsLatest

\* ... a change that is not on the disk yet is lost when the buffer is recycled, ...
NoLostUpdateUnlessCut == cut = "no" => NoLostUpdate

\* ... and the queue holds a buffer nobody waits for.  It is still the list of the
\* requests, until the next holder of that buffer submits it a second time.
QueueUnlessCut ==
    /\ cut = "no" => QueueHasSleepers
    /\ cut # "twice" => QueueLinked

\* Every transfer a client waits for ends, unless the host failed one: the disk
\* then raises no interrupt (machine.c lines 636 and 646); or the line of one was
\* erased by the acknowledgement of another (timer.c line 24, uart.c line 24): the
\* queue then stands still; or a buffer was submitted while it was in the queue:
\* disk_submit() clears its link and the requests behind it are not reached.
TransfersEnd == \A p \in Clients :
    pc[p] \in {"reading", "writing"} ~>
        \/ pc[p] \notin {"reading", "writing"}
        \/ panicked \/ hw.status = "error" \/ lost \/ cut = "twice"
=============================================================================
