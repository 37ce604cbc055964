# A TLA+ verification of the Raspberry Pi 3B+ kernel

The repository is a small AArch64 kernel: one core, C and assembly, no locks.
This directory holds TLA+ models of its core (memory, tasks, signals, file
systems, serial line), the TLC configurations that check them on small
instances, and TLAPS proofs, for every value of the constants, of every safety
property that the passing runs check. Paths are relative to the repository's root (`src/`
here is the repository, so the kernel's C files are in `src/src/`).

## 1. Inventory

| Component | State | Operations | Hard part |
|---|---|---|---|
| Buddy allocator (`mm.c` 20-331) | `mem_map[].flags/private`, `zone.free_area[]`, counters | boot loop, `__alloc_pages`, `free_one_page` | decisions taken from flags that merging and splitting leave stale; exhaustion; uninitialised `mem_map` |
| kmalloc / slab (`mm.c` 344-378, `slab.c`) | `kmem_caches[]`, `slab->freelist`, free pointers inside objects | `kmalloc`, `kfree` | free list threaded through memory callers own; sizes at class boundaries |
| Tasks and scheduler (`sched.c`, `exception.c` 205-242, `syscall.c` 80-193) | `task_pool[]`, `kstack_pool[]`, `current`, `num_running_task` | timer tick, `schedule`, fork, exec, exit, kill, `privilege_task_create` | preemption between any two system calls; two ways to stop the same task; full pool; task 0 |
| Signals (`signal.c`, `sched.c` 51-68, `syscall.c` 195-247) | `pending`, `process_sig`, `sighand`, `tss.sp_backup` | `signal`, `sigkill`, delivery, `sigreturn` | delivery abandons a kernel frame and must find it again; handlers run on a stack of the kernel's |
| Asynchronous UART (`queue.c`, `uart.c` 177-221, `exception.c` 149-185) | two rings, `AUX_MU_IER_REG` | puts/gets, interrupt handler | program and handler share rings and a register with no lock |
| memblock (`memblock.c`, `initrd.c` 196-218, `dtb.c` 24-33) | arrays of regions, `total_size` | reserve, merge, find, alloc | ranges that overlap, a full array, a search with no end of its own |
| Page tables, exec, fork (`mm.c` 411-484, `exec.c`, `syscall.c` 91-143) | multi-level tables, `tss.pgd`, `mm` of a task | `map_pages`, `walk`, `simulate_walk`, exec, fork | tables that are reused by later programs; sizes that are no power of two |
| Timers, tasklets (`timer.c`, `interrupt.c`) | `timer_pool`, `tl_head` | set/update, add/run | nested interrupts (off in the default build) |
| VFS, tmpfs, initramfs (`vfs.c`, `tmpfs.c`, `initramfs.c`, `syscall.c` 250-391) | mounts, vnode trees, per-task `fd_table`, `struct file` | mount, lookup, open, close, read, write, mkdir, chdir | mounts on mounts, failed create, fork sharing files, unsigned lengths |
| FAT32 and SD card (`fat32.c`, `sd.c`) | FAT, directory and data blocks on the card; inodes in memory | mount, create, mkdir, read, write | power lost between two block writes; cluster numbers; full directories |
| Boot, shell, dtb, mailbox, strings | - | straight-line code | - |

**Interaction.** `mm_init` runs memblock, then the buddy allocator over what
memblock left, then the slab allocator over the buddy allocator. Everything
else calls `kmalloc`/`kfree`. The core timer interrupt charges the current task
and calls `schedule`; system calls run with interrupts masked (exceptions mask
them, and only `sys_uart_read` unmasks), so a system call and a timer tick are
atomic with respect to each other, and what interleaves is user code of
different tasks. Code that task 0 runs at EL1 before it enters user mode has
interrupts enabled: that is where the asynchronous UART functions are
interrupted by their own handler. A signal is only a number in the target's
task structure until `context_switch` resumes the target.

**What correctness means.** Allocators: nothing is handed out twice, nothing is
lost, legal frees never hang. Scheduler: the CPU goes to a running task whenever
there is one, everyone gets a turn, the counts are exact. Signals: a handler
returns to the context it interrupted. UART: characters arrive once and in
order, and neither direction gets stuck. Address spaces: no task reaches memory
of another, and a program finds its code and stack where it expects them. File
systems: a path means the same to everyone, no handle is past its data,
and what a call wrote before it returned survives a loss of power. PROJECT.json lists the hazards line by
line and which property watches each of them.

## 2. The modules

| Module | What it is |
|---|---|
| `PageAlloc` | abstract page allocator: a set of aligned, disjoint blocks of usable pages |
| `Buddy` | `mm.c`'s allocator in detail; implements `PageAlloc` |
| `Heap` | abstract `kmalloc`/`kfree`: allocations with bytes of their own |
| `Slab` | `kmalloc`, `kfree` and `slab.c` in detail, taking pages from `PageAlloc`; implements `Heap` |
| `Sched` | tasks, scheduler, timer, signals |
| `AsyncUart` | rings, interrupt handler and program |
| `Memblock` | the allocator of the boot |
| `AddrSpace` | page tables and the memory side of exec and fork |
| `Vfs` | VFS, tmpfs, initramfs and the system calls on descriptors |
| `Fat32` | FAT32 on a card that can lose power |
| `SchedProofs`, `AsyncUartProofs`, `BuddyProofs`, `SlabProofs`, `VfsProofs`, `Fat32Proofs` | TLAPS proofs about the module each is named after |
| `MemoryProofs` | TLAPS proofs about `AddrSpace` and about `Memblock` |
| `NatLemmas` | facts about numbers and bounded loops that the proofs share |
| `MC*` | values of constants for TLC |

### Buddy

`flags`, `private`, `free_list`, `nr_free`, `managed_pages` are the fields of
`struct page` and `struct zone`. `pc`, `i`, `page`, `order`, `low` are the
locals of the function that is running; `held` is the set of blocks callers
have. One action is one loop iteration: `BootSkip`/`BootFree` the loop of
`page_frame_init`, `MergeStep`/`MergeDone` `__free_one_page`,
`ScanNext`/`ScanTake`/`ScanFail` `__rmqueue_smallest`, `ExpandStep` `expand`,
`AllocDone` its last assignments, `FreeOnePage` the entry of `kfree`. There is
no locking in the code and none in the model: an operation runs to its end
before the next begins, since the kernel calls it with interrupts masked or from
task 0 alone. A free list is a set: which element is first is a choice, a
superset of what the FIFO order does. Powers of two come in as the constant
function `Pow2`, and `pfn ^ (1 << order)` is written for a pfn aligned to the
order, which is how it is called. What RAM holds before `mem_map` is written is
the constant `StalePages`.

### Slab

Memory is an array of addresses; a free object's first word is `freeptr[a]`, and
a live object's is `Junk`, since its owner has overwritten it. `KmallocPartial`
takes an object from the first slab of the list that has one, `KmallocNewSlab`
is `allocate_slab`, `KmallocPages` the branch for a page or more, `KmallocBeyond`
what `get_object` does for a size no cache serves (after which the kernel's
state is undefined, so the model stops). `KfreeObject` and `KfreePages` are the
two branches of `kfree`. Sizes are those for which the loop `size >>= 1` loses
no bit; see section 6. With memory exhausted, `kmalloc` changes nothing and
returns an address that is not backed by an allocation; the model has no step
for it.

### Sched

One action is one system call, one timer interrupt, or one step of user code
that ends in the kernel's exception handler (`HandlerFaults`).
`kstack[t]` is the sequence of user contexts saved by `save_all` on task `t`'s
kernel stack, so that its length plays the part of `sp_el1`; `ctx[t]` is the
context the task is executing: its program, a handler it has registered, or a
default handler. The stack `context_switch` gives a handler is kernel memory
that user mode cannot reach. A default handler pushes to it at once, so the only
thing it does in the model, apart from being preempted before, is to abort
(`fault` "abort", the endless loop of `exc_handler`); a registered handler may
abort, or get through without its stack and call `sigreturn`.
`Schedule` is `schedule()` together with `context_switch`, `switch_to` and
what comes after it: `Deliver` if a signal is pending, the further `schedule()`
of a stopped task, or the unwinding to user mode. A fresh task (`tss.lr` is
`exit_kernel` or a kernel function) does not pass through the code after
`switch_to`, so a signal pending for it waits for its next switch.
`sigsp` is a history variable: for each handler that has not returned, the
stack depth at which it was entered, i.e. what `sp_backup` should be.
`fault` records that the kernel has stopped, or wrote or read outside its
structures; the model ends there. `SysSigreturnStale` is `sys_sigreturn` where it
cannot come back to the interrupted context: with another `sp_backup`, or called
outside of a handler. `privilege_task_create` has no caller in the repository;
`KernelCaller` is the hypothesis that one would be a running task in its own
code.

Abstracted: the memory that fork and exec allocate (see `AddrSpace`), register contents other than `sp` and `elr`, `exit_state` (never read), the file
descriptor table. A counter below -1 belongs to a stopped task and is held at -1.

### AsyncUart

The n-th character is the number n. Each access of the program to a ring field
or to `AUX_MU_IER_REG` is an action, `|=` being a read and a write; the handler
is atomic except for its transmit loop, during which the transmitter may take
characters out of the FIFO. `Transmit` and `Arrive` are the hardware. The
tasklet variant (`ENABLE_TASKLET`) is off in the Makefile and not modelled. The
handler reads `AUX_MU_IIR_REG` after it has masked the receive interrupt
(`exception.c:155`); the model takes the register to go on naming the receiver,
and only when `AUX_MU_LSR_REG` has a byte, so that the branch for an unknown
interrupt (`exception.c:180`) and a receive interrupt without data
(`exception.c:167`) are left out. `Arrive` waits for room in the FIFO: overruns of
the receiver are the line's.

### Memblock

`reserved` is `memblock.reserved`. `Reserve` is `memblock_reserve` with the
whole of `memblock_add_range`: the aligned size, the dummy first region, the
pieces between existing regions (`InsertPieces`, a loop of `AddStep` up to the
region it breaks at), the uncounted insertion while `cnt * 2 + 1 < max`, the hang
in `memblock_double_array` (`stage` "hung") and `MergeRegions` (a loop of
`MergeStep`). `memblock_init` is three steps, with archive and device tree at
any address the firmware may choose. The search of `memblock_find_in_range` is a
step per range, because `__next_mem_range` leaves its iterator alone when
nothing is left and the loop then repeats for ever. What it leaves reserved is
what `Buddy` takes as `ReservedRegions`.

### AddrSpace

Frames, tables and words of RAM with fewer levels and entries than the MMU's.
`ProgSizes` are the sizes of files as `_initrd_usr_prog` pads them, to a multiple
of `FileAlign` (`initrd.c:147`).
`DoExec` and `SysFork` are the code up to the first `map_pages`; `WalkNewTable`,
`WalkDown` and `WalkLeaf` are the loop of `walk` inside that of `map_pages`;
`LaunchEnds` is what follows. `BlockLen`, a loop of `Halve`, has the truncation
of `size >>= 1`; `SimulateWalk` is a loop of `Below`, one level at a time.
Pages come from an allocator that hands out the next aligned block, which
`PageAlloc` allows and which puts blocks side by side as the buddy allocator
does with fresh memory; nothing of a task's memory is ever given back in the
code. `Store` is a user program writing through its own table.

### Vfs

A vnode with its inode is an element of `nodes`, a path a sequence of
components out of `Names`, a `struct file` an element of `Files` that `kmalloc` may return when
it is free. The operations of a file system are chosen by the vnode's `fs`, as
`v_ops` and `f_ops` do. A system call is one step. `SysFork` copies the
descriptors over whatever the slot's last task left in its table. `wild` records
that `vfs_open` went on with a `target_node` nobody set, or that a descriptor was
used whose `struct file` another task has freed (`UseFreed`); the model stops
there.

### Fat32

`fat`, `dirs` and `data` are on the card and survive `Reboot`; `nodes` is what
`setup_fat32` builds from them. `fat32_create` is two steps, one per block it
writes (directory first, then table); `Reboot` may fall between them, and
`torn` remembers the cluster. `acked` is a history variable: what every file
whose creation returned should hold. The conversion of names keeps the stem and
gives every file a dot. `GetFreeFatCluster` returns the index within the block,
as the code does.

## 3. What TLC checks

| Run | Instance | Shows |
|---|---|---|
| `buddy` | 12 pages, the last 4 reserved, orders 0-2 | no page shared (`NoOverlap`) or lost (`NoPageLost`); reserved memory never handed out; the buddy test, made on stale flags, never accepts a page that is not on that list (`BuddyCheckSound`); blocks coalesce; failure only when nothing is large enough; every operation ends; refines `PageAlloc` |
| `sched` | 3 tasks, no signals, 3 creations | exact count, bounded counters, never a switch to a stopped task, no starvation |
| `signal` | 2 tasks, one signal, 2 forks, up to 4 frames | types; frames of interrupted contexts intact (`HandlerAboveItsFrame`); a stale `sp_backup` never below the frame of the innermost handler (`NoFrameSkipped`); a pending signal reaches its target (`SignalDelivered`) |
| `slab` | 3 pages of 8 addresses, 2 caches, sizes 1, 3, 5, 8, 16, at most 4 allocations | free lists exact, no hang, freed objects reused, refines `Heap` |
| `uart` | rings of 3, FIFO of 1, 5 characters each way | RX and TX streams exact until a ring is lapped or the FIFO refuses; nothing repeated even then; both directions keep moving |
| `memblock` | 14 addresses, words of 2, 4 regions, 2 calls after the boot | the array covers exactly what was reserved, sorted, merged and counted once (`ReservedExact`), and never outgrows its elements; the lowest free hole is handed out (`AllocIsFresh`); a search with a hole to find ends |
| `vfs` | 2 tasks, 1 descriptor each, 2 handles, 4 paths, 7 vnodes, directories of 2, forks with open files | vnodes form a tree within their arrays; no handle is past its data; open, creation, lookup and mounts agree |
| `fat32` | one table block of 7 entries, a root of two clusters, directories of 2 childs, 3 mounts, 5 vnodes | acknowledged creates and writes survive a loss of power (`AckedDurable`); only creates cut in half cross-link (`CrossLinksTorn`); a mount stays in its arrays |
| `addrspace` | 3 tasks, 44 frames of 4 words, 3 levels of 4 entries, programs of 3 and 5 words padded to 4 and 6, 1 store | no frame reached by two tasks, no page table reachable (`Isolation`); exec and fork show the right contents (`LaunchSees`) |

Three runs find a disagreement between the code and a comment beside it (each is
described in PROJECT.json under "findings"):

| Run | Found |
|---|---|
| `signal_nested` | a second delivery overwrites `sp_backup`; the outer `sigreturn` resumes at the depth of the inner one, not at the frame its handler interrupted (`syscall.c:243`) |
| `fat32_cluster` | with the free entry in the second block of the table, the new file gets a cluster in use (`fat32.c:331`, `342`) |
| `addrspace_size` | a program of eight pages and four bytes gets a block of eight pages; exec maps the page behind it, which is the task's page table (`mm.c:355`, `exec.c:9`) |

`buddy` assumes zeroed RAM, which is what QEMU gives; `sched` and `signal`
include `SysForkFull`, `HandlerFaults` and `SysSigreturnStale`, and `vfs`
includes `UseFreed`: their properties hold up to and at the point where the
kernel stops or corrupts itself. The `fat32` run keeps the table in one block,
where the index and the cluster number are the same, and the `addrspace` run the
sizes whose halves are exact or that fit a block anyway. In `addrspace_size` a
page has 8 words and files are padded to 4, so that the smallest size that fails
is the code's: eight pages and one unit of padding (68, halved to 34, 17 and 8;
in bytes 32772). Smaller sizes do not fail, because the bits lost are fewer than
the padding.

**Bounds and why they are enough.** `buddy`: the eight
usable pages are two blocks of the largest order that are each other's buddies,
so that merges go two levels deep and have to stop at the top; a page passes
through every kind of block and carries the flags of its earlier lives. `MaxForks`
bounds task creations: with a pool of three, three creations reuse a slot. The
bound also matters to `NoStarvation`, which is false without it: a program that
forks for ever always has a new task with a full counter. `MaxFrames` bounds
`exec`, which leaks a frame each time, and nested deliveries; 3 allows a handler
in a handler, 4 another one in that. `MinRunning` bounds how often a stopped task 0
can exit again. `MaxLive` = 4 fills one slab of the small class, or two slabs of
the large one. Rings of 3 hold two characters, so 5 characters lap them;
`FifoSize` 1 makes a full FIFO reachable. `memblock`: four regions make the
array full (and the boot hang) after the three reservations of the boot, with
one call more; 14 addresses leave room for gaps on both sides of each. `vfs`:
two tasks with a descriptor each, shared by a fork or opened apart, give handles
that grow one file behind each other's back, a table of descriptors of one is full at once,
seven vnodes a mount on a directory with contents and one inside a mount, and a
directory of two fills up. `fat32`: three mounts allow a create to be
cut, another to take its cluster and a third boot to look at both. `addrspace`:
with the stack in the last pages and the peripherals in between, each of the
three regions needs tables of its own, and program and stack each cross from one
page to the next; three tasks and 44 frames allow a fork, an exit and a reuse of
the slot.

**Fairness.** `Sched`: weak fairness of the timer interrupt only, which user code
cannot mask; nothing forces a task to make any system call. `NoStarvation` and
`SignalDelivered` rest on it; both allow for a kernel that has stopped. `Buddy`: an
operation that has begun goes on, nothing forces one to begin. `Memblock`: the
loop of a search goes on, as nothing else runs during the boot. `AsyncUart`: the
program keeps executing, an enabled and pending interrupt is taken, the
transmitter sends; nothing makes characters arrive. `Vfs`, `Fat32` and
`AddrSpace` assume none.

**Deadlock** is checked for `Buddy`. Elsewhere the model may stop: after
corruption or a hang, with every task exited, or when the bounds are used up.

## 4. What is proved

Each theorem holds for every value of the constants that satisfies the named
assumptions of its module (which TLC evaluates on the instances), and, where the
table says so, under a stated hypothesis about the environment. The shape of
every argument is the same: an inductive invariant, one lemma per action saying
that the action keeps it, and theorems that read the checked properties off it.
TLC checked each invariant on the instance of its run before it was proved,
except those of `MemoryProofs`: the one about `AddrSpace` says that a placement
of all tables exists, which TLC cannot enumerate, so TLC checked what follows
from it.

| Module | Theorem | States | Hypothesis |
|---|---|---|---|
| `SchedProofs` | `Invariance` | `[]SchedInv` | |
| | `TypeCorrect` | `[]TypeOK` | |
| | `CountIsExact` | `[]NumRunningExact` | |
| | `CountersStayBounded` | `[]CountersBounded` | |
| | `FramesSurvive` | `[]HandlerAboveItsFrame` | |
| | `NeverSkipsFrame` | `[]NoFrameSkipped` | |
| | `SwitchesToRunning` | `NeverSwitchToStopped`, an action property | |
| `AsyncUartProofs` | `UartInvariance` | `[]UartInv` | |
| | `ReceivesExactly` | `[]RxExact` | |
| | `SendsExactly` | `[]TxExact` | |
| | `NeverRepeats` | `[]NothingRepeated` | |
| `BuddyProofs` | `BuddyInvariance` | `[]BuddyInv` | `RamClean` |
| | `BlocksDisjoint` | `[]NoOverlap` | `RamClean` |
| | `PagesAccounted` | `[]NoPageLost` | `RamClean` |
| | `ReservedStaysReserved` | `[]ReservedNeverHeld` | `RamClean` |
| | `BuddyTestSound` | `[]BuddyCheckSound` | `RamClean` |
| | `AlwaysCoalesced` | `[]Coalesced` | `RamClean` |
| | `NullMeansEmpty` | `FailsOnlyWhenEmpty`, an action property | `RamClean` |
| | `ImplementsPageAlloc` | the refinement of `PageAlloc` | `RamClean` |
| `SlabProofs` | `SlabInvariance` | `[]SlabInv` | |
| | `FreelistsExact` | `[]FreelistExact` | |
| | `KfreeReturns` | `[]KfreeNeverHangs` | |
| | `FreedIsReused` | `ReusesFreed`, an action property | |
| | `ImplementsHeap` | the refinement of `Heap` | `SizesExact` |
| `VfsProofs` | `VfsInvariance` | `[]VfsInv` | |
| | `TreeStaysTree` | `[]TreeSound` | |
| | `PositionsStayWithin` | `[]PosWithinSize` | |
| | `OpenAgreesWithLookup` | `OpenMeetsLookup`, an action property | |
| | `MountsTakeEffect` | `MountTakesEffect`, an action property | |
| `Fat32Proofs` | `FatInvariance` | `[]FatInv` | `[]FirstBlockServes` |
| | `AckedStaysDurable` | `[]AckedDurable` | `[]FirstBlockServes` |
| | `CrossLinksOnlyTorn` | `[]CrossLinksTorn` | `[]FirstBlockServes` |
| | `ScansFit` | `[]ScanFits` | `[]FirstBlockServes` |
| | `OneBlockServes` | `FatBlocks = 1 => FirstBlockServes` | |
| `MemoryProofs` | `IsolationHolds` | `[]Isolation` of `AddrSpace` | `SizesFit` |
| | `LaunchSeesHolds` | `LaunchSees`, an action property | `SizesFit` |
| | `BootInvHolds` | `[]BootInv`, about `Memblock` | |
| | `ReservedExactHolds` | `[]ReservedExact` | |
| | `ArrayBoundedHolds` | `[]ArrayBounded` | |
| | `AllocIsFreshHolds` | `AllocIsFresh`, an action property | |

**The hypotheses**, each of which some instance satisfies and the code does not
guarantee:

- `RamClean`: no word of RAM under `mem_map` reads as `PG_buddy` or
  `PG_RESERVED` before it is written, as when RAM is zeroed.
- `SizesExact`: the block of the order `kmalloc` computes is as large as the
  request, i.e. `size >>= 1` loses no bit that matters. `addrspace_size` shows
  what happens otherwise. Only the refinement needs it: lists and slabs are
  sound without.
- `SizesFit`: the same for the sizes of programs and of the stack. The sizes of
  the `addrspace` run satisfy it; those of `addrspace_size` do not.
- `[]FirstBlockServes`: while the table has a free entry, its first block has
  one. `get_free_fat_cluster` returns an index within a block, so the index is
  the cluster only there; a table of one block satisfies it (`OneBlockServes`),
  and `fat32_cluster` is the counterexample without it.

The theorems about `Memblock` have no hypothesis beyond its `ASSUME` (positive
sizes and alignments). Its `BootInit`, `BootNext` and `BootSpec` have names of their
own, so that `MemoryProofs` can extend it together with `AddrSpace`.

**Bounds.** The constants that bound the runs (`MaxForks`, `MaxFrames`, `MaxPut`,
`MaxRecv`, `MaxLive`, `MaxNodes`, `MaxBoots`...) are arbitrary in the proofs.

### The inductive invariants

`SchedInv` adds to the checked properties two facts without which they are not
inductive:

- `StoppedCurrent`: a stopped task is current only as task 0 with no task
  running, so an exit or a kill is never counted against a task that is counted
  out already;
- `PriorityPositive`: a refill makes every counter positive; with
  `CountersBounded` it shows that `schedule`'s outer loop refills at most once.

Its lemmas (`DoTimerInv`, `SysForkInv`, ...) share `ScheduleLands` (what
`schedule` leaves behind, whichever branch it takes), `ChoosesRunning` (the scan
finds a running task if there is one) and the stack lemmas `TrapSuspends`,
`UnwindResumes`, `DeliverResumes` and `SigreturnSuspends`, which say how saving,
popping, delivering and returning move a stack between the two shapes `OnCpu` and
`Suspended`. `RunningCount` is the cardinality argument for the counter.
`NeverSkipsFrame` needs one invariant more, `BackupAbove`, which says the same of
a `sp_backup` onto another task's stack, as a fork inside a handler copies it.

`UartInv` describes each ring by how many characters were put into it
(`HoldsLast`: whatever the tail is, the slots behind the head hold the last
`Size - 1` of them) and the streams by how many left it. `ReadInv` and `WriteInv`
also cover the middle of a function: between the two statements of
`dequeue_char` the program has a character in `c` while the handler may lap the
tail, and between those of `enqueue_char` a slot is written that the head does
not count yet. The arithmetic is in `ModSize` and the lemmas after it.

`BuddyInv` says that the blocks (held, free, in flight) partition the usable
pages boot has reached (`Partition`), that heads carry the flags of their block
(`HeadsMarked`) and, for the pages inside a block, what their earlier lives left
(`StaleMarks`): a page that still reads `PG_buddy` does so with an order below
that of the block around it. Merging asks for a buddy of the same order, so the
stale flag is never taken for a block; that is `BuddyCheckSound`, and
`NoOverlap` is not inductive without it. Merges and splits are the lemmas
`Halves` and those on `Partition`. `NoFreePair` gives `Coalesced`.

`SlabInv` has the free list of a slab as a sequence `g` of addresses, without
repetition and ending in NULL, that enumerates the objects not in use
(`ListsSound`); `kfree` puts an address in front and `get_object` takes the
first. `LiveSound` ties every allocation to a slot of its slab or to the start of
its block, which is what `kfree` recomputes from the address alone.

`VfsInv`: pointers lead to younger vnodes (`EdgesDown`) and no vnode is entered
twice (`OnePlace`), which makes the vnodes a tree and the loop through stacked
mounts end; `PosWithinSize` is inductive with these because files only grow, and
holds for every `struct file` in use, whichever descriptors name it.
`OpenMeetsLookup` and `MountTakesEffect` compare a lookup before and after a
step: the proof follows the two loops component by component.

`FatInv` relates card and memory: the chains of the directories never change
(`ChainsKept`); a cluster that no torn create ever had is in one directory entry
and one inode, is taken in the table and holds what the inode holds
(`EntriesInv`, `InodesInv`); what was acknowledged has its entry (`AckedOnCard`);
a directory's inode has at least the childs a scan of the card would find
(`ScanInv`), so that `create`'s test against the array in memory bounds the card
too. `SetupMount` is shown to establish the part about memory from the part about
the card alone, which is what a loss of power leaves.

`MemoryProofs`, for `AddrSpace`: `IndInv` says that there is a placement `where`
of the tables, which gives each the root it belongs to, its level, and the
digits of the addresses that lead to it. No two tables have the same place, an
entry of an inner table is the table placed below it, and an entry of a last
level is a page that this root alone maps (`Trees`); each task has a root of its
own (`RootsOwned`), what is left of a launch fits into the tree it builds
(`RequestsFit`), and the walk under way stands at the table its address leads to
(`WalkPlaced`). That frames are not shared is not inductive without the places:
`walk` may reuse a table, and it must be one of the same root and of the same
digits. `SizesFit` is used once, where exec and fork allocate: the pages mapped
lie inside the block. `SeesInv` is a second layer on top: every user task's
program and stack are where its table says (`UsersPlaced`), and what a launch
has mapped so far shows the block it copied (`LaunchPlaced`). A later entry never
changes an earlier one, because two addresses with the same digits are the same
page.

For `Memblock`: `Kept` is `ReservedExact` with the regions apart pairwise and none
empty. `Adding` is the invariant of the loop of `memblock_add_range`: what is
behind it is in order, covers the regions gone past and the new range up to
`base`, and has at most one piece more per region; hence `Inserted`, at most
`2 * cnt + 1` regions, from which `ArrayBounded` follows. `Merging` is that of
`memblock_merge_regions`. `TotalIs` shows that the sizes of ordered regions add up
to the number of addresses, so that `total_size` is exact although it is kept by
differences. `SearchInv` says that the search stands at a gap of the array
(`AtGap`) and that no hole for the request lies below it (`Above`): a gap whose
candidate does not fit holds none (`SearchGoesOn`), and every hole is in some gap
(`HoleGap`).

**Loops.** The loops of `Vfs`, `Fat32`, `AddrSpace` and `Memblock` (`VfsLookup`,
`Chain`, `ScanDir`, `SetupMount`, `BlockLen`, `SimulateWalk`, `InsertPieces`,
`MergeRegions`) are recursive functions over the number of steps, with a bound from
the state. The library's induction theorems take an operator as a parameter and
cannot be used, so `NatLemmas` derives from the least element of a set of numbers
(`LeastElement`) that such functions exist (`Iteration`, `LoopExists`) and keep an invariant
given as a function of the step (`LoopInvariant`).

## 5. What is only model-checked

- Liveness (`NoStarvation`, `SignalDelivered`, `OperationsEnd`, `WritesTaken`,
  `ReceiverServed`, `SearchEnds`) is out of the proof system's reach.
- Every invariant and every action property of the passing runs is proved, in the
  cases marked in section 4 under a hypothesis; outside those hypotheses nothing
  is claimed.
- The three runs that find a violation are counterexamples and need no proof;
  where a theorem has the opposite as its hypothesis, section 4 says so.

## 6. Not modelled, and known limits

- The components marked `not_modelled` in PROJECT.json, with the reason there.
- `sys_uart_read` enables interrupts inside a system call; the models assume
  system calls are atomic.
- `get_absolute_path` and `sys_chdir`: `Vfs` starts from the components of an
  absolute path. `lseek64` is in the tables of operations, but nothing calls it.
- Double frees: the models free only what is held.
- Failed page allocations: `kmalloc` turns NULL into a non-NULL address.
- Uninitialised `mem_map`: with other than zeroed RAM `page_is_buddy` can accept a
  page nobody freed while `page_frame_init` runs.
- `kmalloc` of 2049 to 4095 bytes selects no cache (`KmallocBeyond`); the model
  stops there.
- `privilege_task_create` hangs on a full pool (the action is not enabled);
  `sys_fork` does not look and writes past the pool (`SysForkFull`).
- A signal without a registered handler stops the kernel: the default handler
  aborts on a stack that user mode cannot reach (`sched.c:62`, `mm.c:402`), and
  `exc_handler` never returns. `signal.c:7` says "Do nothing in user space".
- Task 0, exiting last, gets the CPU back from `schedule`, although
  `syscall.c:153` says "this function never return".
- Open, fork, close, open: the second open may return the `struct file` that the
  other task's descriptor still names (`syscall.c:106` counts no references). The
  properties of `vfs` hold of shared handles as well, up to the first use of a
  freed one; that a handle belongs to one descriptor is not among them.
- `sys_sigreturn` frees the page that the program's `sp` names; from a handler
  that has moved its `sp` off its stack, or outside of one, that is any page. The
  first is left out, the second is part of `SysSigreturnStale`.
- The transmit loop drops a character it dequeues while the FIFO is full; the
  streams of `AsyncUart` are exact up to there.
- `Memblock`: a search while everything is reserved reads a range nobody has set
  (`memblock.c:102`); the model's callers ask while something is left.
- `Vfs`: a mount on the root has no effect and one on a mount point goes to the
  mounted root, as in the code; `tmpfs_write` has no bound check, the model
  writes within the buffer. A descriptor is used as an index without a check
  (`syscall.c:288`, `314`, `333`); the model's are in range. An archive of more than 16 files overflows
  `childs[]`; the constant `Archive` is shorter. FAT32 is not among the file
  systems of `Vfs`.
- `Fat32`: a create without a free slot or cluster succeeds in memory only; a
  directory made by `fat32_mkdir` is gone after a mount; a name without a dot has
  one after the next mount. `fat32_write` checks neither the type nor the length:
  a write through a directory's handle, or past a block, is left out. Free clusters
  start as zeros; on a used card they hold old data, which a file created and never
  written (`fat32.c:100` clears the inode only) shows after the next mount. A name
  that starts with a dot has a blank stem and is skipped by `setup_fat32`
  (`fat32.c:266`, `430`); `Stems` has none. The loops also call `read_fat_entry` on
  the end mark (`fat32.c:482`, `550`), a read outside of the table without effect
  on what follows.
- `AddrSpace`: programs smaller than a page come from the slab allocator and
  share their page with other objects; they are left out.
- Comments without a run of their own: `mm.h:118` says the tail pages of a free
  block are `PG_AVAIL` (they keep any earlier flags), `mm.h:155` that
  `managed_pages` counts pages (it counts blocks).

## 7. Plan

Done: `Buddy`, `Slab` and their abstractions, `Sched`, `AsyncUart`, `Memblock`,
`AddrSpace`, `Vfs`, `Fat32`; proofs of all their safety properties and of both
refinements. What would extend the models, in this order:

1. `Sched`: a kernel context for `sys_uart_read`, so that tasks can be preempted
   and signalled inside a system call.
2. Path normalisation as a recursive definition, checked by TLC against a
   reference, and `chdir` in `Vfs`.
3. Tasklets and timers: nested interrupts as the tasklet build has them.
