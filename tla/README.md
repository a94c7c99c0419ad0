# Multiplix: TLA+ verification project

Multiplix is a small monolithic kernel with a monitor below it, written in D and
assembly for RISC-V and Armv8. This directory models its core in TLA+: TLC checks
the models on small instances and TLAPS proves the most important results for
every size. Paths below are relative to `src/src/` unless they start with `lib/`,
`tools/` or `coremark/`; the riscv64 port is the one that is modelled.

Check a module with `tlc -config X.cfg M`, prove one with `tlapm MProofs.tla`.

## 1. Inventory

| Component | State | Operations | Works with |
|---|---|---|---|
| Process queues (`plix/schedule.d`, `Queue`) | front, back, size; one pair `next`, `prev` in each `Proc`, shared by all queues | push_front, remove, pop_back, wake, wake_all, foreach | everything that blocks |
| Scheduler (`plix/schedule.d`) | `runq`, `exit_queue`, `ticks_queue`, `wait_queue` | runnable_proc, schedule, kswitch | processes, timer interrupt |
| Processes (`plix/proc.d`, `plix/syscall.d`) | `Proc`: state, wq, parent, children, page table, open files, cwd | fork, wait, exit, usleep, yield, block, ~this | scheduler, memory, files |
| Traps (`plix/trap.d`, `plix/arch/riscv64/trap.d`, monitor `trap.d`) | sstatus.SIE, pending timer | usertrap, kerneltrap, irq_handler, pgflt_handler, monitortrap | scheduler, memory |
| Copy-on-write memory (`plix/page.d`, `plix/vm.d`, `plix/trap.d`) | page tables, `pages[].refcnt`, `pages[].lock_` | mappg, fork, write fault, ~this | allocator, scheduler (blocks for memory) |
| Page tables (`plix/vm.d`, `plix/arch/riscv64/vm.d`) | three levels of Pte | walk, map, lookup, PtIter, free | allocator |
| ELF loader (`plix/elf.d`) | none | loadelf | page tables, allocator |
| Boot (`monitor.s`, `kernel.s`, `plix/start.d`, `boot/main.d`, `kernel/main.d`, `plix/monitor.d`) | boot_lock, primary (twice), wakeup, BSS, image | start, kmain (monitor), kmain (kernel), wakeup_cores | all cores |
| Spinlock, printer (`plix/spinlock.d`, `plix/print.d`) | locked | lock, unlock, printf | all cores, interrupts |
| Kernel heap (`plix/alloc/`) | buddy free lists; per size full and partial blocks | kalloc, knew, kfree | everything |
| File table, file system calls (`plix/sysfile.d`, `plix/fs/file.d`) | 128 `File`s with refcnt; 16 descriptors per process | open, close, dup, fork, read, write, fstat, chdir | inodes, processes |
| Inodes, directories (`plix/fs/file.d`, `plix/fs/fs.d`) | 50-entry inode table with refcnt; disk inodes, bitmap | iget, put, lock, trunc, bmap, link, namex, balloc | buffer cache |
| Buffer cache, RAM disk (`plix/fs/bcache.d`) | 30 buffers in an LRU list | bread, brelease, bwrite | disk |
| Image builder (`tools/mkfs/mkfs.c`) | the next free inode and block, the image | ialloc, iappend, balloc | the image is the RAM disk |
| CoreMark (`coremark/`) | list, matrices and state input in one static memory; results; timer | find, sort, reverse, remove, the three benchmarks, calibration, validation | timer |
| UART boot protocol (`boot/main.d`, `tools/plboot/prog.go`) | words in flight | recv, prog | boot |
| Pipes, sleeplocks, checkers, devices, boards, plboot, core library | | | see PROJECT.json |

**What is hard here.** One core runs processes (the others print once and halt), and
kernel code entered from user mode runs with interrupts off until it yields, so the
interleaving is between *parts of system calls separated by yields*, the timer
interrupt, and, in the scheduler loop, single statements. Kernel objects refer to each
other by address and are freed and reused. Memory can run out in the middle of a
handler. During boot several cores execute the same code on shared flags without
interrupts or locks. `hazards` in PROJECT.json lists each such place with its line.

**What makes each part correct.** Queues: the links agree with the states, nobody is
in two queues or in none; FIFO gives every runnable process a turn; no wakeup is lost.
Processes: a child is reaped once, by its parent; the walk over `exit_queue` never
touches freed memory. Memory: no process sees another's stores. Boot: one core is
primary, and nobody uses what it has not finished preparing. Heap: no overlap, no loss.
Files and inodes: an object is freed when, and only when, the last reference goes.
Buffer cache: one buffer per block, and what was written is read back. File system: a
block belongs to one place, the bitmap agrees, and a call changes its own file only.
CoreMark: what an iteration changes is undone, so that every iteration does the same
work, and the checksums are the published ones.

## 2. Modules and how they correspond to the code

`map` in PROJECT.json gives the source lines of every definition.

* **ProcQueue** – `struct Queue`. The value of all links is one record; `PushFront` and
  `Remove` are functions on it (with the code's behaviour that a removed process keeps
  its own stale links). `LinksAgree` and `WalkMeetsMembers` say what consistency means.
* **Sched** – processes, scheduler, process system calls, timer interrupt. `cur` is the
  process switched to, `pc` the place inside a system call where it will resume. A
  handler is one action up to its yield; the loops of `sys_wait` and `wake_all` are one
  action per iteration, with nothing else enabled in between. `links` holds the
  intrusive lists themselves, so a wrong `next` is a wrong `next` in the model.
  `kids` is a history variable (the unreaped children), used by one property.
  A freed `Proc` keeps its contents until the address is used for a new one, so a
  child's dangling `parent` is read as the code reads it; that the page is not reused
  for something other than a `Proc` in between is an assumption. `children` is a `uint`:
  the model's -1 stands for 2^32-1, and the code only compares it with zero.
* **RunqIrq** – `runnable_proc` against the timer interrupt, statement by statement.
  Sched takes the pop as atomic; this module shows what that leaves out.
* **PrivateMem** – the abstract specification: every live process has a memory of its
  own; a store changes one page of one process, fork copies, exit removes.
* **Cow** – what the kernel does instead: frames shared by reference count, write
  permission removed at fork, `pgflt_handler` (take over, copy, or drop the reference
  and block for memory with the page's lock held, then resume), a fork that fails
  half-way, exit, reaping with `~this`. `kalloc` may fail at any time, because page
  tables, files and blocks come from the same heap. `mode` records how the kernel
  stopped (spinning with interrupts off, or panic). `Seen` maps Cow to PrivateMem.
  PrivateMem lets a process store anything at any time, so a wrong copy would pass for a
  store of the process itself; `FaultsInvisible` therefore says in addition that the
  kernel's own steps change nothing that anyone sees.
* **Boot** – every core from reset to `schedule()` or halt, one action per access to a
  shared variable: the monitor's assembly, `start`, the monitor's `kmain`, the kernel's
  assembly, `start`, `kmain` and its `printf`. Before the image is copied the kernel's
  memory holds anything (`Init` leaves it open). Memory is sequentially consistent in
  the model; the fences of `monitor_wakeup_cores` are what justifies this, and weaker
  orders are not examined.
* **Buddy** – `BuddyAlloc` as functions on its free lists: the loops of `allocate` and
  `dealloc` in closed form, free lists as sets (the model may pop any block of a list).
  Sizes are powers of two that a `usize` of `Width` bits can hold.
* **Kalloc** – the kernel heap: `kalloc` and `kfree` with `BlockAlloc`'s headers, slot
  lists (in order, including the slot that crosses the block's end), partial and full
  blocks. A request that fails returns null and changes nothing, so it is no step.
* **Files** – the File table, descriptors, the inode table, path lookup and the system
  calls on them; one action per system call, because none of them yields. A lookup is
  `Walk`, a recursive function that takes one `Step` per element of the path and carries
  the table with it, since every element gets and puts inodes and may fail an assertion. `panic` is the assertion that stopped the
  kernel. `odd` is a history variable: it counts calls of the three kinds that miscount
  references (section 4), and the positive properties speak of states where it is 0.
  A new entry takes the first free slot of its directory or the end, with the name that
  was read last (`Link`).
* **Mkfs** – the disk image as a function of the files given on the command line, block by
  block: inode blocks, bitmap, directory and data, with the root's size rounded up.
* **Bcache** – `bget`, `bread`, `brelease` and the single-block operations of `fs.d` on a
  world `w`: the buffers in LRU order and the image. `w.lost` is a history variable: a
  changed buffer was recycled, and with it the change, because nothing calls `bwrite`.
* **Fs** – inodes with block maps, directory entries and the system calls that open,
  create, read, write and truncate, all through Bcache on an image of Mkfs. It is the
  composition of the three; a call is one action (it cannot yield) and carries the world
  through every `bread`, `balloc` and `brelease` in the order of the code, so a disk or a
  cache that is full in the middle of a call is the code's own error path. Data are words:
  an address, a directory entry or a word of a file. Files (above) has the reference counts
  and deeper paths; Fs has the contents. A behaviour is followed until `lost`.
* **CoreUtil, CoreState, CoreMatrix, CoreList** – CoreMark's algorithms as operators:
  checksums over C's integer widths, the state machine, the matrix kernels with their
  bit fields, and the linked list in its memory (cells by number; the merge sort compares
  with a function that may run the other two benchmarks and change their data).
* **CoreMark** – `coremark_main` around them: seeds, the division of the memory, trials
  until a second has passed, the iterations, and the verdict. `core_bench_list` is taken
  apart into its steps, one action each; `clock` is the port's 32-bit timer.
* **SchedProofs, CowProofs, BootProofs, FilesProofs, KallocProofs, FsProofs, BlocksProofs** – the
  theorems; **NatFacts** – the facts about natural numbers they share. **MC\*** – instances
  for TLC (symmetry sets, names of queues).

Definitions whose comment starts with "Faulty" are the mutated forms used to show that
each property can fail; nothing else refers to them.

## 3. Runs

| Run | Instance | Shows |
|---|---|---|
| `sched_safety` | 4 processes, sleeps of 1 slice, symmetric; about 1 million states | `QueuesConsistent`, `NoneLost`, `AssertionsHold`, `ScanOnZombies` |
| `sched_live` | 3 processes, sleeps up to 2 slices, with fairness | `RunnableRuns`, `SleepReturns`, `WaitReturns` |
| `sched_orphan` | 4 processes | violated: wait says "no child processes" to a process that has one |
| `runq_irq` | 2 processes | violated: the loop waits although a process is runnable |
| `cow` | 3 processes, 2 pages, 4 frames, 2 values, counts up to 3 | `WritableExclusive`, `RefcntCovers`, `LocksMatchFaults`, `IsPrivate` (refinement), `FaultsInvisible` |
| `cow_spin` | the same | violated: a process spins for ever on a lock whose holder is blocked |
| `boot` | 4 cores, one without S-mode, with fairness | `OnePrimary`, `PublishedBeforeUse`, `PrintExclusive`, `AllCoresBoot` |
| `heap` | 4 minimal blocks, pages of 8 words, 6 sizes, 3 live allocations | `HeapTiled`, `NoOverlap`, `SlotsCounted`, `RefusesOnlyWhenFragmented` |
| `files` | 2 processes, 5 Files, 4 descriptors, 3 inode slots, 7 paths, a free directory entry | `FilesCounted`, `InodesCounted`, `OneCopyPerInode`, `CleanAssertsHold` |
| `files_assert` | the same, up to 4 odd calls | violated: a reference count assertion fails |
| `fs` | two images, 12 blocks, 5 buffers, 4 inodes | `BlocksAccounted`, `BuffersReleased`, `ReadsSound`, `ContentsKept` |
| `coremark` | the three runs of the port, 18 with small data, 219 data sizes, 289 boards with two positions of the timer each | `DataRestored`, `SortsStable`, `MemoryApart`, `KnownCrcs`, `RunsLongEnough` |

**Bounds.** Four processes give a parent, a child, a grandchild and a fourth that reuses
a freed address: the smallest instance with orphans, dangling parents and queues of
three. `MaxSleep` only has to distinguish "sleep on" from "return". In `cow`, two pages
make the order in which fork shares them matter, three processes make a frame shared by
three, and four frames are too few for everyone, so waiting for memory happens.
`MaxRef` caps the counts, which the code never lowers when a process is reaped; with 3
every comparison the code makes (with 0 and 1) is decided both ways. Three cores that
race through boot cover primary, woken, and woken while another is half-way.
In `heap` three orders are the fewest in which a merge cascades; the proportions
(minimal block of two pages, header of three words) are the kernel's, with the page scaled
to 8 words: classes of 1, 2 and 4 words have 5, 2 and 1 slots, the first exactly and the
others with a crossing slot; `Width` = 31 is what TLC's integers hold. In `files` all three tables can be filled, a fork shares
Files and directories, and inode slots are recycled. `MaxOdd` ends a behaviour after that
many miscounting calls: with 1 the passing run covers everything before the first one.
In `fs` a block is two words, with one direct address and two indirect ones, so that
three words need the indirect block and six fill a file; seven blocks of data are too few
for two full files, so `balloc` fails in all its places; two inodes share a block. Five
buffers are the fewest with which calls on two files complete before something is lost.
One image is empty (its root ends exactly at a block's end), the other has a file and a
root with a free entry. `MaxCount` (words of one call) lets one write cross a block's
end and reach the indirect block, `MaxRef` = 1 opens each file once (Files does more).
In `coremark` the known runs are executed with their real seeds and 2000 or 1200 bytes,
which is what `KnownCrcs` compares with the constants in the source. The small ones have
lists of a few cells, with negative and large seeds and up to four searches. The data
sizes are those that three matrices and their alignment fill to the last byte, for N
from 4 to 9, and for N = 4 all from there to the next dimension. For the boards, `Freq` =
200 and `TickMod` = 15900 keep the proportion of a timer of 54 MHz, whose 2^32 ticks last
79.5 s. An iteration costs from 1 tick up to the most for which ten iterations, the
shortest trial, take less than a period (1589); above 60 ticks the costs are those around
which the seconds read from a trial of ten change. There are one to three trials, of which
the last takes 1 to 79 seconds. The timer starts at 0 or at its last value: from the last
value the first trial wraps, and of the costs from 799 ticks on most make the real run
wrap, which is at most 79 s long. Slower boards are outside `RunsLongEnough`: a trial of a
whole period reads as none (section 4).
`MaxIterations` = 2 executed iterations suffice because a third starts from the same list
and buffers (`DataRestored`).

Deadlock is checked except in `cow` (the kernel may stop, spinning as `cow_spin` shows or
in a panic), `boot` (all cores end halted or in the scheduler, or the image
was refused), `heap` (it can be exhausted for good, see section 4), `files` (all
processes may exit), `fs` (a behaviour ends when a change is lost) and `coremark` (the
program ends).

**Fairness.** In Sched, kernel code that has started goes on (WF of the steps of wait,
usleep and the interrupt handler). The timer is armed again by every handler and its
interrupt stays pending while masked, hence SF of `TimerIrq`. A slice is far longer than
one turn of the scheduler loop, so the loop pops between two interrupts, hence SF of
`Dispatch`. User programs owe nothing: none has to exit, wait or ever leave user mode.
In Boot every core keeps executing (WF per core). The printer's lock is a plain
test-and-set without queueing, but each core takes it once, so weak fairness is enough.
The other specifications state none: their properties are about what may never happen.

## 4. Findings

1. `plix/schedule.d:80` – `runnable_proc` turns interrupts on and then unlinks from `runq`.
   A tick between two statements of `remove` pushes a woken sleeper onto the list, and
   `remove` finishes with what it saw before: the sleeper is runnable and in no queue.
2. `plix/syscall.d:132,149` – nobody clears or changes the `parent` of an orphan. When the
   parent's `Proc` is freed and its address reused, the orphan counts as a child of the
   new process: it is reaped by it and lowers its `children`, so that its `wait` later
   returns `Err.child` with a child still running.
3. `plix/trap.d:74` – the page-fault handler yields with the page's spinlock held.
4. `plix/fs/fs.d:133` – a relative path starts at `cwd` without a reference and puts it
   all the same: the second relative lookup fails the assertion of `Inode.lock`. dup
   followed by two closes fails the one of `File.close` (`plix/sysfile.d:177`).

**Known behaviour, stated by no run.** These are modelled as the code has them; the
properties hold all the same or speak of the other cases.

* `plix/sysfile.d:100` – `checkaddr` accepts copy-on-write pages, and `sys_read` then
  faults in kernel mode, on which `kerneltrap` panics.
* `plix/alloc/block.d:93` – a block of slots that was full once is never used again:
  `free` leaves it in `full_blocks`. With one slot per block, allocating and freeing one
  object in a loop uses up the heap. (The slot that `make_block` links beyond the
  block's end is harmless, because `alloc_slots` is compared with `total_slots`.)
* `plix/proc.d:77` – fork takes two Files for console descriptors and then overwrites
  them, and exit closes nothing: the File table fills up and `assert(p.ofile[0])` fails.
* `plix/fs/file.d:54` – closing or fstat of a console descriptor dereferences a null inode.
* `plix/fs/file.d:379` – a created file gets the name of the entry read last (empty in a
  free entry), so it is not found by the name it was created with.
* `plix/fs/bcache.d:58` – a changed buffer is lost when its buffer is needed for another
  block: nothing calls `bwrite`.
* `tools/mkfs/mkfs.c:166,223,270` – the root's size may include a block that does not
  exist (the kernel allocates it in the first lookup that fails, and `BlocksAccounted`
  holds through that); inodes and blocks are not compared with the sizes of the image.
* `coremark/core_main.c:322,377` – with unknown seeds the error count starts at -1, so
  a run below ten seconds makes it 0 and prints "Correct operation validated".
* `coremark/core_matrix.c:196` – the dimension N is the largest with 8·N·N below the size
  of the block; that A and C are then moved to a multiple of four is not counted. Where
  the block is 8·N·N + 1 bytes long (513 bytes of 1539, 649 of 1947), it starts at an odd
  address and C ends in the first two bytes of the state input. The builds of the port
  (2000 and 1200 bytes) are not affected, and `coremark` leaves these sizes out: the model
  keeps the three blocks apart, which is right only where `MemoryApart` holds.
* `coremark/core_main.c:251` – calibration has no protection against a trial of one timer
  period or more: ten iterations of 80 s on a timer of 79.5 s read as 0 s, and ten times
  as many follow.
* `coremark/core_list_join.c:156`, `core_state.c:99` – the comments promise that list and
  state input are restored. They are for the seeds of all known runs and those of the run
  `coremark`. With seeds 15, 15 the indices of two items collide after the removal, and
  the list comes back in another order; with seeds 25, 25 a character of the state input
  turns into a comma, which the undoing pass skips.

Despite 3, memory stays private in all reachable states (`IsPrivate`): the early
`pg.refcnt--` is harmless *because* the lock stays held, which keeps others from taking
the frame over until the copy is made. Releasing the lock before the yield without
moving the decrement would break the refinement.

## 5. Proofs

All theorems hold for every value of the constants; no bound of section 3 is used.

* **SchedProofs**: `TypeCorrect`, `QueuesStayConsistent`, `NoneIsLost`,
  `AssertionsNeverFail`, `ScanStaysOnZombies`. Assumptions: finitely many processes, the
  null pointer is no process, the four queue names. They are theorems about Sched, which pops
  `runq` in one step: what the real pop loses to an interrupt is finding 1, not theirs. The inductive invariant adds to `TypeOK` and `QueuesConsistent` the conjunct
  `StateAgrees` (what `state`, `wq`, `pc` and `cur` say of each other): without it one
  cannot know that a process about to be pushed is in no queue, or that the parent woken
  by `sys_exit`, possibly through a dangling pointer, really is in `wait_queue`.
  `PushFrontLinks`, `RemoveLinks` and `WakeLinks` lift the list operations from one
  process to the whole of `LinksAgree`; there is one lemma per action.
  Consistent links do not exclude a ring of processes beside the queue, which no walk
  would reach. `QueuesInLine` does: every member has a rank, its distance from the front,
  below `size`. `push_front` raises all ranks of the queue by one and `remove` lowers those
  behind the process; that a walk meets the member with rank n in its nth step then
  follows by induction on n (`WalkMeets`).
* **CowProofs**: `TypeCorrect`, `NoSharedWritablePage`, `RefcntAlwaysCovers`,
  `CowImplementsPrivateMem`, `FaultsStayInvisible`, `LocksStayMatched`. Assumptions: finitely many processes, at least one page.
  The inductive invariant is the conjunction of the four invariants and `PagesDistinct`
  (two pages of a process never share a frame), without which one mapping could
  account for two. Counting uses the cardinality theorems; `UnlockedCounted` says that
  a frame whose lock is free has every mapping counted, so refcnt = 1 means sole user.
  The refinement is then step by step: stores map to stores, fork to fork, exit to exit,
  and take-over, copy, blocking and reaping to stuttering.
* **BootProofs**: `TypeCorrect`, `PrimaryIsUnique`, `PreparedBeforeUse`, `PrinterExcludes`, for any set
  of cores. The invariant says what holds before wakeup is written (one core is past
  boot_lock and has prepared exactly what its location says) and after (everything is
  prepared, both flags are clear).
* **FilesProofs**: `TypeCorrect`, `FilesStayCounted`, `InodesStayCounted`,
  `OneCopyInTable`, `CleanAssertsNeverFail`. Assumptions: tables that are not empty, two
  descriptors at least, a disk whose root is a directory and whose directories have an
  entry and, like the root's name, lead to inodes in use (`Leads`). `Shape` adds to
  `TypeOK` that there are finitely many processes, that no directory becomes empty (`link`
  reads the last entry) and that entries keep leading to inodes in use, without which the
  second assertion of `lock` could fail. `Counts` is what holds while
  `odd` is 0: each of the properties needs the others and two more facts. Descriptors 0
  and 1 of every process are open and are devices, so a child gets exactly what its parent
  has, and the two Files that fork takes for it have no descriptor; and an open File has
  an inode in the table, so no `close` or `fstat` finds a null pointer. A lookup on its
  way is described by `Covers`: every inode is counted for its holders and once more for
  the lookup. That a whole path keeps this is an induction over its elements, done with the least element
  of the set of counter-examples (`MinIsLeast`, `Closed`); `WalkSteps` shows that the
  recursive function exists.

* **KallocProofs**, first part: no theorem of a specification but the lemmas about the
  operators of Buddy. `Holds` says that a block of an order holds a word, `Tiled` that the free blocks
  and those in use are aligned, that each word of the heap is held by exactly one of them,
  and that of two buddies at most one is free. Aligned blocks are nested or apart
  (`Nested`), every block has two halves (`Halves`, `Buddies`), and merging up to an order
  finds the block of that order around the address (`MergedAligned`, `MergedTwice`). `Cut`
  and `Join` say that one step down or up keeps the tiling; `AllocTiles` and `DeallocTiles`
  that a whole `allocate` or `dealloc` does, by induction over the orders passed.
  `FreeWordsAreJoined`: an aligned run of free words lies in one free block.
* **KallocProofs**, second part: `TypeCorrect`, `HeapStaysTiled`, `AllocationsStayApart`,
  `SlotsStayCounted`, `RefusesFragmentedOnly`. Assumptions: heap, minimal block and page
  are powers of two that the width holds; the page divides the heap's address and the
  minimal block; a header is shorter than half a page (so that every class of slots has
  one); requests are powers of two or have one above them. The inductive invariant `Heap`
  is the tiling, with the large allocations and the pages of slots as the blocks in use,
  and three facts about slots. `BlockOK`: the list and the slots in use are the slots of
  the block, each once, and the count is right; *the slot that crosses the end stays last
  in the list*, so that as long as `alloc_slots` is below `total_slots` the head of the list
  is a proper slot. `PartialOK`: a class has at most one partial block, and that is not
  full. `LiveOK`: an allocation is a large block of the order its size
  asks for, hence `kfree` computes the order `kalloc` did, or a proper slot of one block.
  `HeapAllocLarge`, `HeapFreeLarge`, `HeapAddBlock`, `HeapTakeSlot` and `HeapFreeSlot`
  change one part of the heap each, and the actions are compositions of them.

* **FsProofs**: `BuffersStayReleased`. Assumptions: at least two buffers; sizes that are
  positive. Nothing is assumed of the image: any words, inodes and addresses may be on the
  disk. `Ok(v, x, y)` says of a world in the middle of a call that the buffers of the
  blocks x and y are held and no other (each may also be nobody, and both the same block):
  every reference count is exactly that, no block is in two buffers, and what is held is
  there. `BreadOk` and `BreleaseOk` are the steps from one holder to two and back, and
  every operation of fs.d and file.d is proved to lead back to where it started. The
  allocator and `bfree` are proved with x arbitrary, because `bmap` and `trunc` call them
  while they hold an indirect block; that two buffers suffice rests on `balloc` giving the
  bitmap back before it zeroes the block. Each loop (`FreeAll`, `ReadOn`, `WriteOn`,
  `LookupOn`, `FreeEntryOn`, `InodeAlloc`) is a recursive function on numbers, of which its
  lemma shows that it exists and that no turn keeps a buffer. The second half of the module
  are the lemmas about contents that BlocksProofs builds on, up to `bmap`, `trunc` and `lock`.
* **BlocksProofs**: `BlocksStayAccounted`, `FsTypes`, `ReadsStaySound`, all from
  `StaysConsistent`. Assumptions: those of FsProofs, more than one inode, and
  `ImagesAssumption`, which says of the files given to mkfs what mkfs asserts or takes for
  granted (names and words, no file or root larger than an inode maps, enough inodes and
  blocks). TLC evaluates it for the two images of the run `fs`.
  The inductive invariant `Consistent` has three parts. Nobody holds a buffer (`Have`, with
  the `Ok` of FsProofs), and every buffer in use is filled. Unless something was lost or an assertion
  has failed (`Live`), references are at most `MaxRef`, and the whole is `Sound`: with
  `Disk(v)`, the blocks as a reader gets them from buffers and RAM disk, and `Inodes(v)`, the
  inodes from memory where they are in use and from the disk otherwise,
  - `Unshared` and `Marked`: an address belongs to one place of one inode, and the bitmap
    has the metadata and the addresses, nothing else. That is the property; it is not
    inductive without
  - `Shaped` and `Linked`: addresses and the words of indirect blocks are 0 or data blocks,
    so no store through one hits an inode or the bitmap;
  - `Gapless`: files are mapped up to their size. A read of a gap would allocate, as `bmap`
    does, in memory only, and the inode on the disk would not know of the block;
  - `Entries`: an entry of the root names an inode in use that has a link, so `lock` does
    not find a free one. The root itself may have a gap at its end (mkfs rounds its size
    up) and is therefore excepted from `Gapless`;
  - `Memory`: a copy that is referred to is valid, not free, and agrees with the disk. The
    root's is excepted: a lookup that reads its gap allocates a block without `update`,
    and the root is never let go.

  In the middle of a call some of this is false, so `Sound(v, X, U)` names the inodes X whose
  copy is ahead of the disk (between `bmap` and `update`) and the inodes U that no entry
  names yet (between `ialloc` and `link`). What each function of fs.d and file.d
  leaves behind is an operator (`Took`, `Unmarked`, `Mapped`, `Saved`, `Restated`, `Emptied`,
  `WasRead`, `WroteFile`, `LinkSet`, `Allocated`, ...) and a lemma; calls are compositions of
  them. Errors half-way are part of it: a `write` that finds no block in the indirect
  block leaves what it mapped so far, and `create` without room for an entry gives its inode
  back. Loops go turn by turn (`Reached`).
  The initial state is the image of mkfs, block by block. `ImageSane` is an induction over
  the files, and in each over the words `iappend` adds: `Extended` says that the block it
  writes to is the inode's own, already or newly handed out; what is not handed out is zero.
  `ReadsSound` quantifies over reads that do not happen, so `ReadInodeTame` shows beside it
  that a read can fail of nothing but a missing buffer or a block number too large.

`TypeOK` and the assertions of `ReadsSound` are stated for calls that lose nothing. A call
that recycles a changed buffer and goes on may read old contents of an indirect block, take
a word of another file for an address, and end anywhere; the model follows it no further.

Only model-checked: the liveness properties, the violations, `ContentsKept` (a call changes
the contents of its own file only), and everything about CoreMark. CoreMark's operators are recursive, and CoreUtil uses
bit operations: both are out of the prover's reach.

## 6. Not modelled, and the plan

Left out for good: devices and boards (register accesses), plboot's image conversion and
compiler support, the K&R allocator (instantiated nowhere), debugging checkers, the
text of CoreMark's report, the aarch64 port (same protocols).

Next, in this order:

1. **PageTable** – walk, map, lookup and `PtIter` against a plain map from pages to
   frames; this justifies the function Cow uses.
2. **BootProto** – `recv` against `prog` over a serial line; **TimerIrq** – the monitor's
   `mtie`/`stip` hand-over, which is what the fairness of Sched rests on.
3. Proofs: `ContentsKept`. The lemmas of BlocksProofs say where each word of a file is, and
   which blocks a function changes; what is missing is to carry the words of all other files
   through them.
