# A TLA+ model of xv6502

xv6502 is a small UNIX-like kernel for a 6502 computer with an MMU, and the
emulator of that computer. This directory models the two in TLA+, checks them
with TLC on small instances, and proves the main invariants of the scheduler, of
processes and their memory, of the traps and the memory windows, of the timer,
interrupt, console and disk drivers, of the buffer cache and of the block
allocator with TLAPS for all values of the constants. `PROJECT.json` lists the
runs, the lines each definition stands for, the hazards of the code, the findings
and the theorems.

## The system

| Part | Source | Module |
| --- | --- | --- |
| process life cycle, system calls on processes | `kernel/proc.c` | `Proc` (on `ProcTable`) |
| pool of frames | `kernel/kalloc.c` | `Proc` |
| scheduler, quantum | `kernel/proc.c`, `trap.c`, `trampoline.s` | `Sched`, `SchedAbs` |
| trap entry and exit | `kernel/trap.c`, `trampoline.s`, `syscall.c` | `Trap`, `Proc`, `Sched` |
| sleep and timer | `kernel/proc.c`, `timer.c` | `SleepTimer` |
| console input | `kernel/uart.c`, `console.c`, UART of `machine/machine.c` | `Console` |
| disk driver, buffer cache, disk | `kernel/disk.c`, `buffer.c`, disk of `machine.c` | `Disk` |
| interrupt delivery | PLIC and IRQ of `machine.c`, `device_interrupt()` | `Plic` |
| block bitmap, disk image | `kernel/buffer.c`, `fs.c`, `mkfs/mkfs.c` | `Blocks`, `BlocksAbs` |
| memory windows | `kernel/mmu.c` | `Trap` |
| copies from user memory, console output | `kernel/proc.c`, `console.c` | `UserCopy` (on `Proc`) |
| MMU traps (IRQ, BRK, NMI), trap frame | `machine.c`, `trampoline.s`, `trap.c` | `Trap` |
| CPU core | `machine/MCS6502.c` | `Cpu`, `Opcodes`, `CpuRun` |
| machine registers, file layer, printing, boot | see `PROJECT.json` | not modelled |

How they interact: there is one CPU and the kernel is not preemptive. A
process leaves the CPU only in `scheduler()`, which `yield()`, `sleep()` and
`sys_exit()` call. An interrupt taken in user mode goes to `kernel_irq()`,
which serves the devices and may yield; one taken in kernel mode goes to
`kernel_vector`, which serves the devices and returns. So an action of a model
extends from one point where the process can lose the CPU, or where an
interrupt can make a difference, to the next. Interrupt handlers and system
calls meet in few places: process states and channels (`wakeup()`),
`next_wakeup_call`, the ring buffer, the queue of the disk. Each has its model.

## Modules

**ProcTable** has the process table as a value: the state names, the scan of
the scheduler (`IsNext`, `After`, `Distance`), `wakeup()` (`Woken`).

**SchedAbs** says what a scheduler promises: at most one process runs, a
running process is released or blocks, a ready one runs in the end. **Sched**
is `scheduler()`, `yield()`, `sleep()` and `kernel_irq()` with `pcb->ticks`.
`cpu` is "user", "kernel" or "sched"; `pc` says how a process goes on when it
is resumed: `kernel_irq()` after its `yield()` ("irq"), a system call
("syscall") or the first return to user mode ("trapret").

**Proc** is the life of a process. `state`, `channel`, `parent`, `pid`,
`killed`, `pt`, `top`, `kstk` are the fields of `Proc` and `PCB`; `free` is the
pool. `pc[p]` names the system call, or the point in it, at which `p` goes on:
`sys_fork()` gives up the CPU after each page ("copy"), `sys_wait()` after each
round ("rewait"). Every call of the table has its action or actions;
`sys_sleep()`, `sys_read()` and `sys_write()` are reduced to the ways they lose
the CPU. `faults` records the paths on which the code mishandles frames, so
that the invariants can be stated for everything else.

**SleepTimer** is `sys_sleep()` against `timer_interrupt()`. **Console** goes
from the receiver through the ring buffer to readers in `console_read()`.
**Disk** is the buffer cache, the queue, the interrupt handler and the disk,
sector by sector. The queue is as in the code: `head`, `tail` and a `link` in
each buffer; `queue` is a history of the requests that the list should have.
Today its only client is `fs_init()`, run by init; the model has several, which
is what the locks, the queue and the wakeups of the code are written for.
`Killable` are the clients that `sys_kill()` accepts: it refuses init. `cut`
and `lost` record a kill that ended a sleep in `disk_submit()`, a buffer that
was submitted while in the queue, and an erased line.

**Plic** is the path of an interrupt: lines, `pending_irq`, the one read of the
lines in `device_interrupt()`, and the acknowledgement of each handler as a read
and a write. It shows that the acknowledgement of one device may erase the line
that another raises. `Console` and `Disk` have that as the actions
`UartStepLost` and `DiskStepLost`: the device does its work and its line does
not go up. The liveness of `Sched` and `Proc` rests on the timer alone, which
raises its line again; in `SleepTimer` an erased line is a tick that is not
counted, and no liveness is claimed.

**Trap** is every crossing between user and kernel. `m` is the machine: page
table, `prev`, `cause`, latched requests, flags, vector, and a stack in each
frame of segment 0. `kpt` is `kernel_page_table`, `raft` the life raft of the
trampolines, `low` the `kernel_low_memory` of each process. `UserExec` is one
`CPU_step()` of user code: `MMU_pre_exec()`, the CPU, `MMU_post_exec()`.
`IrqHandler`, `NmiHandler`, `kernel_epilogue` and `Rti` are the trampolines with
the C code they call. `MapHw` to `UnmapLow` are the stores of
`mmu_map_window()` and `mmu_unmap_window()`, with an interrupt (`TakeIrq`)
possible between any two. `proc_dump` is the one place where a handler turns
interrupts on. Three of the sixteen segments are kept, and of a process's
registers only the place it is at.

**UserCopy** extends `Proc` with `copy_from_user()`, page by page, and
`console_write()`, buffer by buffer, as functions of the page table. The count
it returns is a `uint16_t` in a 16-bit `int` (`AsInt`), so that a long write
looks like an error. `copy_to_user()` is the same loop in the other direction.

**Cpu** is the interpreter of instructions as a function on its context:
addressing modes, flags, decimal mode, stack, reset and interrupts. **Opcodes**
has the table of instructions, compared with the MMU's `valid_opcode_table`.
**CpuRun** runs six programs that use every instruction and every addressing
mode, on operands at the edges of a byte, with interrupts between any two
instructions.

**BlocksAbs** says what a block allocator promises: a block is free, has one
holder, or was left behind when the power failed. **Blocks** is the image
`mkfs` writes, `block_alloc()`, `block_zero()`, `block_free()` and the mount of
`fs_init()`, with the power failing between any two steps. `used` is the bitmap
on disk and `buf` the one in the locked buffer. The buffer cache appears by its
locks and its write-through, which `Disk` establishes for clients that are not
killed while they wait for the disk; `Blocks` leaves such kills out. Today only
`fs_init()` allocates and nothing calls `block_free()`; as in `Disk`, the clients
`p` and `q` stand for the callers the locks are written for.

The modules `MC*` instantiate these for TLC. Definitions marked "Mutant" are
wrong variants of the definition that follows them; each makes one property
fail, which shows that the property depends on that code.

## Runs

| Run | What it checks | Instance | States |
| --- | --- | --- | --- |
| `MCSched.cfg` | `OneRunning`, `SliceBound`, `WaitersAdvance`, `ImplementsSchedAbs` | 3 processes, quantum 2 modulo 4, 2 channels | 38,280 |
| `MCProc.cfg` | `BuildingHasBuilder`, frames, heap, `WriteExact` | 3 slots, 2 segments of 2 bytes, 5 frames, all calls | 464,044 |
| `MCProcLife.cfg` | parents, zombies, waits, kills, pids; `WaitReturns`, `KilledRunnableEnds` | 4 slots, 1 segment, 8 frames, 6 pids | 138,462 |
| `MCSleepTimer.cfg` | `SleepersCovered`, `NoEarlyReturn` | clock up to its overflow | 114,743 |
| `MCConsole.cfg` | wakeups, order, losses, `ReadersWake` | 2 readers, ring of 4, 4 bytes, lost lines | 234,214 |
| `MCDisk.cfg` | locks, contents, queue | 3 clients, all killable, 2 buffers, 3 blocks, 2 sectors, errors, lost lines | 953,003 |
| `MCDiskLive.cfg` | `TransfersEnd` | 2 clients, 2 blocks, kills, errors, lost lines | 251,425 |
| `MCPlic.cfg` | `LostOnlyInAck`, `WorkServed` | 3 devices | 3,440 |
| `MCTrap.cfg` | `UserAsLeft`, `KernelMapped`, `WindowRightUnlessTorn`, `LeakOnlyInTwoTraps`, `TakenIrqServed` | 2 processes, 2 nested interrupts | 3,360,872 |
| `MCCpu.cfg` | `ProgramsCorrect`, `CausesTold` | 6 programs, 6 binary and 5 decimal operands | 1,136,611 |
| `MCBlocks.cfg` | `AllocatedIsZero`, `SystemBlocksKeptUnlessFull`, `ImplementsBlocksAbs` | 2 clients and the mount, 11 blocks, 2 bitmap blocks | 40,066 |

One more run, `MCSchedQuantum.cfg`, ends in a counterexample against a statement
in the repository (quoted in `PROJECT.json`): after a preemption the quantum is
256 ticks and not 10, because `kernel_irq()` stores its old `ticks` after
`yield()`.

Some properties are stated with an exception, because the code has a path on
which the plain property fails. The exception says how far the damage goes:

- `SliceBound`: slices are bounded by the width of the counter only.
- `FramesConservedUnlessLeak`, `FramesExclusiveUnlessShared`: a fork that fails
  for want of frames loses the frame of segment 0, or, when it fails at segment
  0, wraps its 8-bit counter and frees what lies behind the page table.
- `HeapMappedUnlessWrap`: the overflow test of `sys_sbrk()` is made on a 16-bit
  sum and never fails, so that the top can wrap.
- `LosesNothingUntilFull`: the full test of the ring buffer is made in `int` and
  misses head 255 with tail 0.
- `LostOnlyInAck`: an acknowledgement can write down another device's line.
- `WindowRightUnlessTorn`: an interrupt between the stores to the MMU and to the
  shadow table (`mmu.c` lines 30 and 31, or 45 and 46) whose handler uses the
  window leaves another frame mapped.
- `LeakOnlyInTwoTraps`, `TakenIrqServed`: two traps at one instruction save the
  kernel's last segment over the user's in `prev`, so that the frame is lost
  when the process ends; an interrupt that came with them may go unserved until
  the next one.
- `SystemBlocksKeptUnlessFull`: on a full disk `fs_init()` takes the 0 of
  `block_alloc()` for a block and writes to the boot block.
- `ReadsLatestUnlessCut`, `NoLostUpdateUnlessCut`, `QueueUnlessCut`: a kill ends
  the one sleep of `disk_submit()`, whose caller takes its transfer for done and
  releases a buffer that the disk still works on. The block may then be stale or
  torn. The links remain the list of the requests until that buffer is submitted
  a second time. `LockedByOne` has no exception.
- `TransfersEnd`: no transfer ends after an error of the host, after the disk's
  line was erased (nothing else starts the next sector), or for the requests
  behind a buffer that was submitted twice.
- `ReadersWake`: a byte whose line was erased wakes nobody; the next one does.

### Known disagreements

Beside the quantum, five of these paths contradict a comment in the code:

- `proc.c` line 498, "if the victim is asleep, wake it up, so the kernel can
  kill it": the loop of `sys_wait()` does not test `killed` and sleeps again
  (line 545). `KilledRunnableEnds` therefore leaves waiters out.
- `proc.c` line 644, "rolling everything back": the rollback of `sys_fork()`
  ends before segment 0 (line 651).
- `disk.c` line 62, "sleep until the interrupt handler wakeup()": `sys_kill()`
  ends the sleep too (`proc.c` line 500), and `disk_submit()` does not look again.
- `trap.c` line 168, "designed to be re-entrant and safe to call from both
  user-space traps and nested kernel-space interrupts": the torn window above.
- `mkfs.c` line 35, "this protects: boot, kernel, superblock": block 0 of a full
  disk, above. Each start of the machine takes two more blocks.

`Cpu` also keeps what the interpreter does with a pointer at zero-page address
255: its high byte comes from address 256, where the 6502 wraps to 0.

**Bounds.** Widths are constants (`TICKMOD`, `PIDMOD`, `TMAX`, `RING`, `SEGS *
PAGE`) made small so that every wrap is reached. Three slots allow a process,
its parent and init; four allow an orphan with a sibling. Five frames let a
fork and an sbrk run out at each segment; eight frames let four processes live.
Two buffers for three blocks force recycling, two sectors make a block torn if
it can be. The history bounds are `MAXIN` (bytes typed) and `CHANGES` (writes
per block). `DEPTH` bounds nested interrupts: two let a handler that was
interrupted be interrupted again. Eleven blocks with seven bits to a bitmap
block need a second bitmap block with bits beyond the end of the disk, and fill
up within a few starts. The symmetry sets are used only with invariants.

`FrameView` identifies states of `MCProcLife.cfg` that differ in the names of
frames. Its properties and its fairness do not mention frames. The instance has
two frames for each of its four slots, so no allocation fails and no frame ever
has two uses (checked: `faults` stays empty and `FramesExclusive` holds). States
with one view then have the same steps up to the names of frames, so the view
is sound for the liveness properties too.

`CutView` identifies states of `MCDisk.cfg` in which a transfer was cut short and
which differ only in data, in what directs data (the DIRTY flags, the command and
the sector of the disk) and in `lost`. No step depends on these, and the
invariants claim nothing of them there. `QueueIsList` ends a behaviour when a
buffer is submitted twice. Of what follows only `LockedByOne` is claimed, and
there its proof stands for it; `MCDiskLive.cfg` has neither view nor constraint.

**Fairness.** The CPU goes on executing kernel code (weak fairness of
`Dispatch` and of the handlers), because `Machine_step()` always runs it. The
timer reloads itself, so user code that never traps is interrupted (`Sched`);
in `Proc` the timer ends the quantum of a process that is in user mode again
and again (strong fairness: ticks that fall into system calls are not
charged). In `Console` and `Disk` a runnable process gets the CPU (strong
fairness, justified by `WaitersAdvance`). There a line that is up is taken; one
that was erased never is, and nobody has to be killed. Nothing is assumed of users, of
programs, of when devices raise interrupts, or of the host's file operations.
A client in `buffer_get()` may be overtaken
for ever, and no progress is claimed for it.

Deadlock is not checked in `MCConsole.cfg` (nobody has to type), `MCDisk.cfg`
and `MCDiskLive.cfg` (a host error or an erased line stops the disk for
good).

## Proofs

All theorems hold for every value of the constants that satisfies the named
assumptions (`NAssumption`, `TicksAssumption`, `ProcAssumption`,
`TimerAssumption`, `OrderAssumption`, `ConsoleAssumption`, `DiskAssumption`,
`BlocksAssumption`, `TrapAssumption`), which TLC evaluates for the instances. The assumptions say
that sizes are numbers, that there is at least one device, sector and so on,
and that the values that stand for "none" are not members of the sets.

- **SchedProofs**: `TypeOK`, `OneRunning`, `SliceBound`, `WaitersAdvance`, and
  the safety part of the refinement of `SchedAbs`. The inductive invariant adds
  to `OneRunning` that there is a current process once the scheduler has been
  left, and relates the ticks used to those left: `ran` alone is not bounded by
  an inductive argument, its sum with `ticks` is. Round robin rests on the
  lemma `ScanAdvances` about the distance from the index.
- **ProcProofs**: `TypeOK`, strengthened by the facts that a running CPU has a
  current process and that a fork in progress has a child; then `ParentAlive`,
  `NoLostExit`, `WaiterHasChild`, `BuildingHasBuilder`, `NoKilledUser`,
  `UniquePids`, `ZombieUntilReaped`. These need each other: `LifeInv` is their
  conjunction with what is known of unused slots, of init, of who may be in user
  mode, and that all pids are below the next one. Most actions only move a
  process along; the action `Moves` abstracts them, and only dispatch, fork, exit
  and the two ways to free a slot need their own argument.

  Its second part has `FramesExclusiveUnlessShared`, `FramesConservedUnlessLeak`
  and `HeapMappedUnlessWrap`. `MemInv` is their conjunction with `LifeInv` and two
  facts: a slot without a process holds no frame but, as a zombie, its kernel
  stack (`Emptied`), and the child of a fork has frames for exactly the segments
  its copy loop has passed (`Copied`). The loop gives up the CPU after each page,
  so `Copied` must survive every step of the other processes; that the child
  belongs to its fork alone (`BuildingHasBuilder`) is what makes it. Frames move
  between the pool and one slot at a time: the lemmas `TransferExclusive` and
  `TransferConserved` turn each action into a statement about that slot.
- **InterruptProofs**, on `SleepTimer`: `TypeOK`, `SleepersCovered`,
  `NoEarlyReturn`, from the invariant that `next_wakeup_call` lies ahead of the
  clock. On `Plic`: `LostOnlyInAck`, from where a device with work stands while
  a handler runs (`WorkKnown`); and `QuietMeansServed`, that the CPU never goes
  on without a request while a device has work whose line was not lost. For
  that, every line that is up without a request is one that
  `device_interrupt()` has read and not yet come to (`LinesRequested`).
- **ConsoleProofs**: `NoLostWakeup`, `InOrder` and `LosesNothingUntilFull`. The
  indices of the ring are numbers modulo `RING`, so the proof first shows, for
  every `RING`, what storing and taking a byte do to `Contents`, the bytes
  between tail and head. The inductive invariant is that `Contents` is in order
  and older than the byte in the receiver. A ring that overruns becomes empty,
  which keeps the order.
- **DiskProofs**: `LockedByOne`, `ReadsLatestUnlessCut`, `NoLostUpdateUnlessCut`,
  `QueueUnlessCut`, with kills, host errors and lost lines; and
  `ExactUnlessKilled`: if `Killable` is empty, as it is today, `ReadsLatest`,
  `NoLostUpdate`, `QueueHasSleepers` and `QueueLinked` hold without exception. The
  invariant has three layers. `LockInv`, the locks and the cache, holds always.
  `ListInv`, that the links make a list of distinct buffers, holds until a buffer
  is submitted twice. `IInv` holds until a kill cuts a transfer short. It
  relates four parts of the state that change at different times: the flags of
  a buffer and the place of its client (`OneHolder`, `DirtyIsWriting`); the
  queue and the sleepers (`QueueHasSleepers`); a block and its buffer, held
  (`HeldData`) or free (`FreeData`); and the transfer in progress
  (`Transfer`): the sectors before `offset` are done, and the disk's registers
  have the one at `offset`. The last is what makes the block right when
  `disk_interrupt()` finds its last sector done. The steps of the
  buffer cache, which leave the transfer alone, come first; then
  `disk_submit()`, the disk and the interrupt.
- **TrapProofs**, on the lemmas of **TrapLemmas** and the invariant of
  **TrapInvariants**: `UserAsLeft`, `KernelMapped`, `WindowRightUnlessTorn`,
  `LeakOnlyInTwoTraps` and `TakenIrqServed`, for any number of processes and any
  depth of nested interrupts. `TrapInv` says of each place of the machine what
  the life raft, `prev`, the saved context and the two stacks hold there: in
  user code and in the trampolines (`UserSide`, `UserCode`, `Trampolines`), in
  the kernel (`KernelSide`), for the processes that do not run (`Others`,
  `Saved`) and for the interrupt lines (`Serving`).

  The windows are the hard part. The code that runs and the codes that wait on
  the kernel stack, each interrupted at some store of `mmu_map_window()` or
  `mmu_unmap_window()`, are *levels*. `Sees` is the frame that the table must
  have for a level: that of the first level from there on which has stored one.
  `WindowsOK` asks that the table is what level 0 sees, that every level will
  restore what the next one sees, that the MMU has the frame of the first level
  with a mapping, and that the levels an interrupt has torn are marked. All are
  stated with quantifiers over the levels, without recursion, so that a store
  changes level 0 only (`WindowsTop`) and an interrupt or its RTI moves all levels
  by one (`WindowsShift`).

  The lemmas of the machine say what `MMU_pre_exec()`, the CPU and
  `MMU_post_exec()` do together when an IRQ is taken, when a violation strikes
  with or without an IRQ at the same instruction, and at an RTI (`TakenIrq`,
  `TakenNmi`, `RtiBack`).
- **BlocksProofs**: `AllocatedIsZero`, `SystemBlocksKeptUnlessFull` and the
  refinement of `BlocksAbs`, for every size of the disk and of a bitmap block.
  The invariant says that the bitmap in a buffer differs from the one on disk
  only in the bit its holder is about to write, and that nobody's block looks
  free on disk, so that a power failure leaves a state the abstract
  specification allows.

The invariants of the proofs were checked with TLC on the instances of the runs
before they were proved.

Only model-checked: liveness and the fairness part of the refinement of
`SchedAbs`, which are out of the prover's reach; `UserCopy`, which is recursive;
and `Cpu`, a computation on data, which the prover cannot do by induction.

## Not modelled

- File layer: `sys_read()` and `sys_write()` forward to a device. Pipes, inodes
  and the operations of the disk file system are stubs that panic.
- The echo of the console, `printk()`, strings and the debugger: formatting and
  polled output.
- Address decoding of the machine, its construction, the terminal and the core
  dump: host input and output, and the registers in use are variables of the
  modules.
- Cycle counts of the CPU and its disassembler: timing only decides when an
  interrupt comes, which the models leave open.
- `timer_pause()` and `timer_resume()`: nothing calls them.
- The pid `sys_wait()` returns goes through a `uint8_t` (`proc.c` line 514);
  return values to user code are not carried by `Proc`.
- `block_alloc()` counts blocks in 16 bits, 32768 to a bitmap block. That is
  enough for the 8192 blocks of the disk (`machine.h` line 43), which need one
  bitmap block. On a disk of more than 32768 blocks the counter would wrap
  instead of ending the scan of a full disk; `Blocks` does not model the wrap,
  and its instance has two bitmap blocks to take the loop to its second round.

## Running

    tlc -config MCSched.cfg MCSched
    tlapm SchedProofs.tla
