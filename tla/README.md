# A TLA+ model of the fizzos kernel

fizzos is a small Unix-like kernel for one x86 CPU: threads and processes with
copy-on-write fork, a buddy allocator and a heap, an IDE disk with a file
system, a keyboard and a console.  This directory models it as TLA+ modules,
checks them with TLC on small instances, and proves the main results with TLAPS
for every value of the constants.

Paths below are relative to the repository's `src/`.

## 1. The system

### What interleaves

There is one CPU.  Every gate is an interrupt gate (`kernel/interrupt.c:79`), so
interrupt handlers and system calls begin with interrupts off (`README.md:26` says
that system calls do not disable them; the models follow the code); `intr_disable`
and `intr_set_status` nest.  A kernel thread (`kthread_start`, `kernel/main.c`)
runs with interrupts on, and the timer may preempt it, or a device interrupt it,
between any two instructions outside an `intr_disable` section.  A system call
can still interleave with everything, at the points where it blocks; for the
file system these are its transfers from and to the disk.  A handler runs on the
stack of the thread it interrupts, and `get_current()`, which looks at the stack
pointer, answers with that thread: what a handler does to a mutex it does in the
name of that thread, and a handler that blocks blocks it.  The machine may be
reset at any time; what then counts is what is on the disk.

In the models an action is what nobody can interrupt: a section with interrupts
off up to the next `thread_block`, or one access to shared memory.

### The components

| component | source | state | operations | correct means |
|---|---|---|---|---|
| scheduler | `kernel/kthread.c`, `device/timer.c`, `kernel/fork.c`, `kernel/exit.c`, `user/process.c` | `ready_list`, `task_struct.state/ticks/pid`, pid bitmap, `idle` | create, yield, block, unblock, tick, fork, exit | a thread is in one list at most and never lost; every ready thread runs; pids are unique |
| list | `lib/kernel/list.c` | head, tail, prev, next | push, pop, insert, delete, find | the links form one sequence, forwards and backwards |
| mutex | `kernel/sync.c:71-137` | `is_lock`, `wait_list`, `holder`, `repeat` | acquire (recursive), release | exclusion, no lost wake-up, the assertions hold |
| semaphore | `kernel/sync.c:25-69`, `atomic.h` | `count`, `wait_list` | wait, trywait, post, post by the disk's handler | permits are neither lost nor made, waiters are served in turn |
| readers-writer lock | `kernel/sync.c:192-266` | `count`, `ready_write`, two wait lists | four operations | exclusion, writers first, nobody stranded |
| condition variable | `kernel/sync.c:139-190` | `wait_list` | wait, signal, broadcast | who waits for input that is there goes on |
| buddy allocator | `kernel/buddy.c` | free lists, `nr_free`, bitmaps, `page.count/private` | alloc, free, share | every page in one block, nothing given out twice |
| heap | `kernel/memory.c:146-267` | `mblock_part`, `mblock_full`, block descriptors | kmalloc, kfree | blocks do not overlap; a page goes back when its last block does |
| address spaces | `kernel/memory.c:274-350`, `kernel/fork.c`, `kernel/exec.c` | page tables, `page.count` | fork, page faults, exec, exit | a shared page is never writable; the count is the number of owners |
| IDE driver | `device/ide.c` | channel lock, `disk_done`, `expecting_intr`, controller | read, write, handler | a request is completed by its own interrupt, with its own sectors |
| I/O queue, keyboard | `device/ioqueue.c`, `device/keyboard.c` | ring buffer, conditions | putchar, getchar, getline, backspace | characters come out as they went in; a line that is there is read |
| inodes | `fs/inode.c` | inode list, block and inode bitmaps | open, allocate, write back | a block has one owner; what is in memory gets to the disk |
| directories | `fs/dir.c` | dentry cache, current directory, entries on disk | search, mkdir, chdir | the cache says what the disk says; a name has one inode |
| files | `fs/file.c`, `fs/fs.c` | descriptors, open files, positions | open, close, read, write, mount | a tree of names with contents, also after a reset |
| the others | | | | not modelled, see section 7 |

### How they interact

* All blocking ends in `thread_block`/`thread_unblock`: a component links
  `task_tag` into its own wait list and gives the CPU to `schedule`.
* `schedule` gives a dead thread's page back to the buddy allocator and its pid
  to the pid bitmap.  `kthread_create` and `fork` take both.
* Every bitmap has a mutex; pids and disk blocks use bitmaps.
* The heap takes its pages from the buddy allocator, and links page descriptors
  and free blocks with the intrusive list.
* `keyboard_handler` takes the console's and the queue's mutex inside an
  interrupt.  `intr_hd_handler` posts the semaphore an `ide_read` waits on.
* `fork` raises page counts which `__free_pages` lowers, and copies the pointers
  to the table of descriptors and to the current directory: processes share both.
* Every call of the file system is a sequence of `ide_read` and `ide_write`;
  between two of them other processes' calls run.

The hard behaviour is therefore: preemption between two accesses that belong
together (mutex, semaphore, buddy free, kmalloc), a handler in the middle of the
code it calls itself, a single `task_tag` shared by all lists, wake-ups that do
not hand over what was waited for, counters and bitmaps that replace looking
things up, file system calls that overlap at every transfer, and a reset between
two of the writes that one call makes.  `PROJECT.json` lists these hazards one
by one at their lines.

## 2. Plan

Done, in this order: list as a sequence, scheduler, mutex, semaphore,
readers-writer lock, buddy allocator, IDE driver, copy on write, I/O queue with
keyboard and condition variables, linked list and heap, file system (inodes,
directories, files, resets).  Nine of them implement an abstract specification.
Proved: scheduler, mutex, semaphore, readers-writer lock, buddy allocator, IDE
driver, copy on write, and of the file system that no block is of two inodes and no
inode has two names.

Left, most important first:

1. A proof of `Heap!ListsTell` over the pointers of `LinkedList`.
2. `Vma`: `do_mmap`, `dup_mmap` as algorithms on lists of intervals.
3. Reads and writes through descriptors that two processes share, as a property.

## 3. The modules and the code

| module | models | abstracts |
|---|---|---|
| `KList` | `list_push_back`, `list_push_front`, `list_pop_front`, `list_find` as operations on a sequence | links |
| `KThread` | scheduler, timer, fork, exit, pids | what threads compute; page tables |
| `Mutex` | `mutex_acquire`, `mutex_release`, one step per uninterruptible access, and a handler using the same mutex | which handler |
| `RecursiveLock` | what a mutex promises | |
| `Semaphore` | `sema_*`; `sema_post` in two steps | |
| `FifoSemaphore` | what a semaphore promises: permits reserved for the queue | |
| `RWLock` | `rwlock_*`, and the assertion that stops the machine | |
| `ReadersWriter` | what a readers-writer lock promises | |
| `Buddy` | `alloc_pages`, `__free_pages` in two steps, `buddy_init`, sharing by fork | page contents, addresses |
| `PageAllocator` | what a page allocator promises | |
| `LinkedList` | the pointer level of `list.c`, as the heap uses it | |
| `Heap` | `kmalloc` in two steps for kernel threads, `kfree`; the seven size classes as a parameter | the buddy allocator: any free aligned run |
| `BlockAllocator` | what a heap promises | |
| `IDE` | `ide_read`, `ide_write`, `intr_hd_handler` of one channel, and the controller | sector contents; the addresses of registers |
| `SequentialDisk` | what the driver promises: one request at a time, its sectors in order | |
| `IOQueue` | the ring, `getchar`, `getline`, `putchar`, `pop_back_char`, the keyboard's handler, `cond_wait`, `cond_signal` | scan codes, echo |
| `LineQueue` | what the queue promises: a bounded sequence of characters, lines taken whole | |
| `CopyOnWrite` | `copy_pt`, `page_not_present`, `page_protect_fault`, `exec_mmap`, exit; writes in user and kernel mode | page tables as a function of pages; contents as their origin |
| `PrivateMemories` | what they promise together: every process has a memory of its own | |
| `Inode` | inodes in memory and on disk, both bitmaps, their writing back, mount | sizes in bytes; the lock of a bitmap |
| `Directory` | `parse_path`, `search_dentry`, `dir_write`, `mkdir`, `chdir` | names are values, a path a sequence of them |
| `File` | `open`, `close`, `read`, `write`, the tables of descriptors and of open files | a block holds `Units` data |
| `FileSystem` | the three together, with resets | |
| `Files` | what calls that do not overlap promise: a tree of names, contents, descriptors with positions | |
| `MutexMC`, `BuddyMC`, `CopyOnWriteMC`, `HeapMC`, `FileSystemMC` | definitions for the runs | |
| `*_proofs` | theorems | |

Correspondence worth knowing:

* **KThread.**  `state[t] = "FREE"` stands for a page without a descriptor.
  `schedule(st, rl, tk)` is the C function, called with what the caller has
  already changed.  A recycled page is not cleared, so the ticks of a new thread
  are arbitrary.  A blocked thread is in one of `WaitList`, the lists of the
  synchronisation objects, or has been popped by `mutex_release` and not yet unblocked
  (`kernel/sync.c:123`, `:127`; interrupts are on in between): `elem[t]` is whom `t` has
  popped.  The other wake-ups pop and unblock in one section (`WakeFirst`).  Idle
  blocks outside every list.
* **Mutex.**  `pc` names the places between uninterruptible accesses; `hpc` says
  whether a handler on this thread's stack is blocked in `mutex_acquire`.  With
  interrupts off the handler's acquire and release are one step.  `IntrOn` is the
  set of places where the caller has interrupts on.
* **Semaphore.**  `count` is `sem->count`, negative when threads wait.  "pop" is
  the place between the increment and the section with interrupts off.
* **RWLock.**  Each function is one step per turn of its loop.  `assertions` is
  the build (`ASSERT` compiled in or not) and becomes "failed" on `panic()`.
* **Buddy.**  Blocks are named by their first page.  `freeing` holds the blocks
  whose count has reached 0 and which are not merged yet.  `alloc_pages` panics
  when the pool is exhausted: there the action is disabled.  `1 << o` is the entry `o`
  of the function `PowerOf2`.
* **Heap.**  Lengths are in units of a descriptor (32 bytes).  The lists are
  pointers (`mem`), because a new page is pushed twice (`kernel/memory.c:183`,
  `:194`): the second push leaves the page its own successor for a moment, and whether
  the list survives is a question about pointers.  `taken` holds the kernel threads that have
  counted a block and not popped it yet.  An address is a number, and free runs of
  pages are what no descriptor covers.
* **IDE.**  The controller is external and modelled from what the driver relies
  on: a command takes time before its first sector and none between sectors, the
  interrupt line is edge-triggered (`pic_init`), reading the status register or
  giving a command lowers it.  The mutex and the semaphore are used as
  `RecursiveLock` and `FifoSemaphore` describe them; a request is chosen when its
  thread gets the mutex, since nothing depends on it before.  The sector count
  register loses its ninth bit (`% MaxOp`), and 0 means `MaxOp`.
* **IOQueue.**  Readers are system calls: a call runs from its start or its
  wake-up to its end or to where it blocks, without the handler or another reader in
  between.  It blocks in `cond_wait`, where it has given the mutex up, and in `getline`
  with the mutex, when the user's buffer is in a page that must be read from its file
  (`Faults`, `PageIn`); `lock` is who does, and `mutex_list` who waits for it: readers, and
  the handler, which blocks whatever thread it has interrupted (`key` is what it
  still has to put in).  A thread that was signalled or woken is "ready", and others may
  take the mutex and read before it runs.  Only the first access to the buffer faults: a
  line lies in one page.
* **CopyOnWrite.**  Faults and system calls start with interrupts off and are one
  action up to the point where they read the disk: a file-backed `page_not_present`
  and `do_exec` are two, with a frame `in_hand` between them.  A dead process keeps
  its page table, as `sys_exit` frees nothing of it.  `SharedBuffers` says whether a
  process may hand a system call a buffer it shares since fork.
* **File system.**  One action runs from one transfer to the next.  `cpu` is the
  process that runs in the kernel; `pc[p]` names the transfer (or the call of a
  static function) that p is at, `loc[p]` holds the local variables, and `panic`
  the assertion that has failed.  `disk` has the bitmaps, the inode table and the
  blocks; an inode has `NDIRECT` pointers and one to an index block of `TabLen`.
  `Reset` may come between any two actions and mounts the partition again.
  A block that has never been written is `Dirty`.  Read as a table or as a directory it
  holds zeros, or anything: `TableAt` and `DirAt` are the former, and `Misread` is the
  latter, after which the code goes on with garbage for pointers or entries and the run is
  followed no further.
  `bitmap_sync` divides the number of a bit by the bytes of a sector where it means its
  bits, and its assertion fails beyond `SyncInodes` and `SyncBlocks`.

Comments marked "a wrong variant of" introduce operators that are not part of
the model: they are changes a plausible bug would make, kept to show that each
property notices (listed under `mutants` in `PROJECT.json`).

## 4. The runs

| run | instance | states | shows |
|---|---|---|---|
| `KThread` | main, idle, 3 more pages, a wait list, 4 pids | 140 704 | `TagLinkedOnce`, `StateAgrees`, `PidsUnique`, `NoOvertaking`, `ReadyRuns` |
| `MutexMC` | 4 threads, nesting 2, interrupts where they do no harm | 32 424 | `ReleaseAsserts`, `NoLostWakeup`, `WaitersLinked`, `ImplementsLock`, `SleeperWakes` |
| `Semaphore` | 5 threads, count up to 2 | 928 | `CountMatches`, `BlockedQueued`, `ImplementsSemaphore` |
| `RWLock` | 4 threads | 4 236 | `CountHolds`, `ReadyWriteMeant`, `NoLostWakeup`, `WritersFirst`, `WriterWakes`, `ImplementsLock` |
| `BuddyMC` | 4 blocks of 4 pages, 3 blocks held, 2 owners | 165 328 | `EachPageOnce`, `BitmapTells`, `ImplementsAllocator` |
| `Heap` | 3 pages of 7 units, two sizes, 2 kernel threads | 219 866 | `ListsTell`, `ImplementsHeap` |
| `IDE` | 2 threads, 2 disks of 3 sectors, 2 sectors per command | 133 233 | `NothingLeftOver`, `WaiterWillBePosted`, `NoPanic`, `ImplementsDisk` |
| `CopyOnWrite` | 3 processes, 1 file page and 1 stack page, 4 frames | 52 402 | `CountIsOwners`, `WritableIsPrivate`, `ImplementsPrivate` |
| `CopyOnWriteKernel` | the same, with shared buffers | | `ImplementsPrivate` is violated |
| `IOQueue` | 2 readers of lines, 2 of characters (one of both), a ring of 3 places, a letter and the newline | 215 474 | `ImplementsQueue`, `LineServed` |
| `FileSystem` | 1 process, a directory and files in it and beside it, 4 inodes, 8 blocks, 1 reset | 579 079 | `AtRestSynced`, `ReadsTrue`, `CacheTrue`, `StructureHolds`, `ImplementsFiles` |
| `FileRaces` | 2 processes, the same names and the same file, 1 reset | 1 904 068 | `BlocksOwnedOnce`, `EntriesDistinct` |

Bounds.  *Threads*: a holder, a thread on its way in, one popped and one queued
is the most a step of a lock looks at; four threads, five for the semaphore,
have all of these at once.  `KThread` has main, idle and three pages that
are created, forked, freed and recycled, and a wait list besides the ready list,
which is what a double link needs.  `MAX_PID` is one less than the pages, so that pids run
out and are reused at once; `Prio` and `MaxTicks` are 1: a slice that is over and one that is not.
`MaxRepeat` 2 tells nested from plain.  `MaxCount` 2 lets posts outrun waits.
`MAX_ORDER` 2 gives splits and merges over two levels, `MaxHeld` 3 lets two
buddies and a third block be out together, `MaxRefs` 2 is a page shared by fork;
of the four blocks one is the kernel's; none is reserved, which only makes the
first list shorter.  `BuddyMC`
explores states up to the contents of `private` that nobody will read (`View`).

In `Heap`, pages of seven units are cut into three blocks of two or two of three: pages
are empty, partly used and full in either size, three pages link in the middle of a list,
and length 13 is a run of two pages.  Two kernel threads can both be between
the count and the pop, on one page.

In `IDE`, `MaxOp` 2 stands for 256: with three sectors there are requests of less
than a command, of exactly one, whose count wraps to 0, and of two commands.  A
second thread is enough, for only the holder acts.  In `IOQueue` the ring of three
wraps, fills and overflows; three threads are one that was signalled, one that
overtakes it and one that sleeps, with the mutex or without, and any that is not
reading may be the one the keyboard interrupts; a count of 1 ends a line in the middle.

`CopyOnWrite` has three processes because a page with three owners is the first
whose copy leaves it shared; four frames let each have a stack of its own and all
share the text, and run out in the end.  Processes and frames are symmetric, and
the contents of free frames are not told apart (`Meaningful`): only safety is
checked.

`FileSystem` has inodes with two direct pointers and a table of three, two units
to a block: a file of ten units needs them all, a fourth write asks for more,
and writes of three units begin and end in the middle of blocks, and cross from the
direct pointers to the table.  Of four inodes three have a bit that `bitmap_sync`
takes, so that its assertion fails before the bitmap is full; it takes those of all
eight blocks, which run out.  Paths enter a file, open `.`, and end in a slash.
Two data values tell an overwritten unit from one that was not.  A reset may come
between any two steps, of a write or of a creation; afterwards the process goes on
with what is on the disk.  `FileRaces` leaves out the tree and reads, and lets two
processes create and write the same file block by block, with one direct pointer
and a table of two, so that both are in the middle of allocating a data block,
or the table, at once, and one takes for a table what the other has not yet
cleared.  A reset may come between any two of these steps too.  The directory's entries of one block (`DirSlots`), the use
count of an entry (`MaxRef`) and file sizes (`MaxSize`) are bounds of the instance.

The deadlock check is off where the machine may stop: after `panic()` (`RWLock`,
the file system) or a misread block, when all processes have exited (`CopyOnWrite`), and
when the keyboard's handler has blocked on idle's stack (`IOQueue`).

Fairness.
* `KThread`: weak fairness of the timer alone.  The PIT fires whatever the
  threads do, and every section with interrupts off ends.
* `MutexMC`, `Semaphore`, `RWLock`: a thread in the middle of an operation goes
  on, which is `KThread!ReadyRuns`; holders release.  For the mutex the last
  release of a nested holder is strongly fair: a holder that nests for ever does
  come to its outermost release again and again.  Calling an operation is
  never assumed.
* `IDE`: the thread inside goes on, the controller finishes its commands, and a
  pending interrupt is taken.  Nothing is assumed of who gets the mutex.
* `IOQueue`: whoever was signalled or woken runs in the end, and the page that a
  faulting reader waits for comes.  Nobody need type or read anything.
* `SleeperWakes` is claimed with interrupts outside the wake-up only: a thread
  that is interrupted between popping a waiter and unblocking it, and whose
  handler then blocks on the same mutex, holds up that waiter for as long as the
  handler loses the race for the lock.

## 5. What was found

`CopyOnWriteKernel`: the loader leaves `CR0.WP` clear, so a system call that
fills a user buffer does not fault on a page shared since fork: the other process
sees the data too.  In `CopyOnWrite` buffers are pages the process has already
written to, and memories are private.

Other behaviour of the code that the models contain, or stop at, and that the
passing runs except by name:

* **Mutex, `kernel/sync.c:105`.**  `holder` and `repeat` are set after interrupts are
  on again.  A keyboard interrupt between the two assignments acquires the mutex as
  the same thread, counts `repeat` from 0 to 1 and back, and unlocks; the thread goes
  on without the lock, and its own release fails the assertion at line 112.  The
  windows in `mutex_release` (before line 114 and before the exchange) are alike, and
  between the exchange and line 105 the handler blocks on a lock that its own thread
  holds.  Exposed are kernel threads; system calls keep interrupts off.
  `MutexMC` has interrupts outside these four `Windows`, and the theorems assume it.
* **Readers-writer lock, `kernel/sync.c:252`.**  The assertion of
  `rwlock_write_release` wants `ready_write`, which only a writer that had to wait
  has set: an uncontended write acquire and release panics.
* **Copy on write, `kernel/memory.c:339`.**  `page_protect_fault` asserts that the
  page it copied had two owners; with three, after two forks, the write panics.
* **Heap, `kernel/memory.c:153`.**  The order of a large block is the highest bit of
  its page count, so a count that is no power of two gets too few pages.
  `partition_format` asks for 262144 bytes, with the descriptor 65 pages, and gets 64.
  `Heap` asks for lengths whose pages are a power of two.
* **Directories, `fs/file.c:222`, `fs/dir.c:149`.**  A creation changes two inodes
  and writes one.  The parent's new block is never written back, so the names in it
  are lost at the next start.  `Files!Reset` may lose names for this reason.
* **Creation, `fs/file.c:224`.**  The inode's bit is written after the entry that
  names it.  A reset in between leaves a name for a free inode: `inode_open`
  panics, or the inode is given away under a second name.  `torn` tells a run in
  which it has happened, and afterwards names are only looked up.
* **Overlapping calls, `fs/inode.c:48`, `:59`.**  Two processes may both link an
  inode, each with a copy of its own; and `inode_sync` writes back a sector of eight
  inodes read before it waited, undoing a neighbour's write in between.  Hence
  `AtRestSynced`, `ReadsTrue`, `CacheTrue` and `ImplementsFiles` are checked for calls that do not overlap, while
  `BlocksOwnedOnce` and `EntriesDistinct` hold for those that do.
* **What a client can ask for.**  `open(".")` does not count the use of the directory that
  its close gives back (`fs/dir.c:219`); `chdir` asserts that a path leads to a directory
  (`:400`) and `mkdir` that it leads nowhere (`:370`); a name that exists is opened with a
  slash after it (`fs/file.c:258`); a write goes past what the table can point to (`:131`).
  Each stops the machine.  `StructureHolds` names these five (`Asked`) and no others.
* **Bitmaps, `fs/inode.c:172`, `:176`.**  The assertions divide by `SECTOR_SIZE`, 512, where
  the lines before them divide by `BITS_PER_SECTOR`: with one sector of bits the 513th
  inode, or block, of 4096 stops the machine (`Exhausted`).
* **An unwritten table, `fs/file.c:103`, an unwritten directory, `fs/dir.c:149`.**  A block is
  pointed to before it has been cleared or written, with waits in between.  A second
  process that writes to the same file, or searches the same directory, then takes what the disk
  happened to hold for pointers or entries (`Misread`).  `BlocksOwnedOnce` and
  `EntriesDistinct` hold until then; calls that do not overlap never do so, as
  `StructureHolds` says.
* **The keyboard on idle's stack, `device/ioqueue.c:110`.**  A reader asleep in the fault
  of its buffer's page has the queue's mutex.  If a key is then typed while idle runs, the
  handler blocks idle, `schedule` finds the ready list empty and chooses idle
  again (`kernel/kthread.c:146`), and idle goes round the loop of `mutex_acquire` with
  interrupts off: the disk's answer is never heard.  `LineServed` excepts this state
  (`stuck`).

## 6. What is proved

All proofs hold for every value of the constants under the named assumptions.

The four proofs about queues begin with what a push or a pop does to the set of
linked elements and to the absence of duplicates (`InitLinks`, `PushBackLinks`,
`PopFrontUnlinks`); the rest of each uses only these lemmas about lists.

* `KThread_proofs`: `TypeCorrect`, `LinkedOnce` (`TagLinkedOnce`), `StatesTell`
  (`StateAgrees`), `PidsTell` (`PidsUnique`).  `StateAgrees` says that a blocked thread is
  in one wait list or in one releaser's hand, and not in both.  The first two properties are inductive
  only together: that a thread is pushed once follows from its state saying that it
  is in no list, and the state is kept right because the lists are disjoint.
  `schedule` is treated by one lemma per way of calling it.  `PidsUnique` is then
  inductive by itself: it also says that the bitmap has exactly the pids of the live
  threads.  `Fifo` (`NoOvertaking`) is about steps: each is a few pushes and pops, and a
  thread that stays in the list has the same place or an earlier one after them.
* `Mutex_proofs`: assumption: no interrupt in the four windows
  (`IntrOn \cap Windows = {}`), which is what the code needs from its callers.
  The invariant adds to exclusion: `is_lock` is set exactly when a thread is in
  `Owning`, `holder` names it except in the windows, `repeat` is its depth.
  From it `Exclusion`, `AssertsHold`, `RepeatIsDepth`; with the bookkeeping of
  `elem`, `WakeupsArrive` and `SleepersQueued`; and `Implements`, the safety part of the
  refinement of `RecursiveLock` (the lock is taken at the exchange, and given back at the
  exchange of the last release).
* `Semaphore_proofs`: the invariant is `CountMatches` with `BlockedQueued`; the
  former is about cardinalities, so each step says how the set of posters
  changes.  `Implements` is the safety part of the refinement: `Sem!Init` and
  `[][Sem!Next]`.
* `RWLock_proofs`: `CountTellsHolders`, `WakeupsArrive`, `ReadyWriteTells`,
  `NobodyStranded`, `WritersGoFirst` (`WritersFirst`), and `Implements`, the refinement of
  `ReadersWriter`.
* `IDE_proofs`: `LeavesNothing` (`NothingLeftOver`), `WaitEnds`
  (`WaiterWillBePosted`), `NeverPanics` (`NoPanic`), and `Implements`, the safety part
  of the refinement of `SequentialDisk`.  The invariant says, for each place where
  the holder may be, where the one permit of its command is (expected or posted, never
  both and never neither: an interrupt that an earlier command left pending may post it
  early), what the controller is doing, that the line is low while the controller is
  busy, and which sectors are left.  From the last, the controller's address is always
  the next one of the request, also when the 8-bit count has wrapped (`CountMeant`).
* `CopyOnWrite_proofs`: `CountsExact` (`CountIsOwners`) and `WritersAlone`
  (`WritableIsPrivate`), for finite sets of processes and pages and any frames.  The
  two are inductive only together: a fault gives out a frame that counts 0 and makes
  one writable that counts 1, and exact counts tell that nobody else has it.  The
  invariant adds `Places`: a frame in hand (from a process's `alloc_page` until its
  disk read is over) is in no page table and in no other hand, the page it is for
  is still not mapped, and a process not yet forked maps nothing.  Counts are
  cardinalities, so each step says how the set of entries changes; for `do_fork` a
  bijection shows that the child's entries are as many as the parent's.  `Implements` is
  the refinement of `PrivateMemories`, under the assumption that no buffer of a system
  call is shared (`~ SharedBuffers`; with such buffers it is false, see section 5).  A write changes
  the memory of one process because a writable frame is private, and every other step
  leaves what each process finds in its pages: a copy is made before the original is
  unmapped, and a frame that is given out is in nobody's page table.

* `Buddy_proofs`: `EachPageOnceAlways` (`EachPageOnce`), `BitmapTellsAlways`
  (`BitmapTells`), and `Implements`, the whole refinement of `PageAllocator`, which
  promises no liveness; for any `MAX_ORDER`, any number of blocks of that order from 4
  (`BuddyAssumption`) and any numbers of blocks held and of owners.  That each page is in
  one block is not inductive: a merge looks at bits only, and joins two blocks because a
  bit is set.  The invariant `IInv` adds that blocks are aligned and lie within one pool
  (`Placed`), that no list has a block twice and `nr_free` is its length (`Listed`), and
  that a bit is set exactly when one of two buddies is free at that order (`BitsTell`).
  With these the blocks that a merge joins are there, adjacent, and together the aligned
  block it puts on the list (`Whole`, `MergePages`), and the parts of a split cover what
  was split (`SplitPages`).  The bits of `MAX_ORDER` mean nothing but stay within the
  bitmap (`TopBits`); that the others do, although they are counted from page 0 in both
  pools, is `BitInside`: the user pool is the larger one.  Sizes are a recursive function,
  `PowerOf2`; that they double, and every other statement about all orders up to one, is
  shown by a smallest counterexample (`Least`, from the well-foundedness of `<`), which
  takes the place of induction.

* `FileSystem_proofs`: `OwnedOnceAlways` (`BlocksOwnedOnce`), for any processes, blocks,
  inodes, descriptors and paths, however calls overlap and whenever the machine is
  reset, under the assumptions on sizes (`InodeAssumption`, `FileAssumption`).  That no
  block is of two inodes is not inductive: a step that writes a table back, or an inode
  read before a wait, needs to know where those pointers came from.  The invariant
  `IInv` says that there is an owner for each block, and a kind - data or table - such
  that every pointer there is agrees with it: those on the disk, in memory, in the
  tables that calls will write back, in the copies and the sectors of inodes that they
  carry across waits, and the block that a call has allocated and not linked yet.
  Owners are quantified, as a step chooses one for the block it allocates, and no
  other step changes any.  A pointer is to a block whose bit is already on the disk,
  which is why a reset loses blocks but never gives one out twice (`OwnersReset`);
  and a block whose bit is not there has never been written.  A block with a bit may be
  unwritten too: what it says as a table or a directory is not claimed (`misread`), which
  is the condition in both properties.  What a call holds is stated for each label at which it may wait
  (`LocalsOf`).  Where a call gets its inode from adds `Descriptors`: a descriptor that a
  call has returned, or is about to, has a slot of its own, in use, with an entry; there
  is a free slot for a new one, as there are as many slots as descriptors.  A table that
  a call only reads is not counted as the inode's: it is never written, and `open` lets
  a directory be read, which may be long without having a table.

  `EntriesDistinctAlways` (`EntriesDistinct`) has a hypothesis on what clients do,
  `KindsRespected`: they write to no directory that they have opened, and no path leads
  through a file.  The kernel checks neither (`sys_write` and `search` take any inode),
  and a write to a directory could put any entry there; the paths and calls of the runs
  satisfy it, as TLC finds when it is made an invariant of them.  The inductive
  invariant `NamesInv` rests on the owners: an entry of directory `k` is in a block of
  `k`.  Quantified like the owners is `g`, which says of each inode whether it is a
  directory (`dir`), under which name and where it was created (`named`), and whether the
  disk speaks of it, by its bit or by an entry (`kept`).  Every entry in a block of a
  directory, and in a block that a call carries to the disk, names a kept inode by the
  name it was created under, so that two names of one inode are one.  A creation takes
  an inode that is not in use and chooses its `named`; it is kept once its entry is
  written.  An inode that is kept and has no bit is of a call that has written its entry
  and not yet its bit (`Underway`).  When no reset has cut such a call all that is kept
  is in the bitmap, and that is why no later creation takes it again (`NamesReset`).
  What is known at each label is `Marks`.

Only model-checked: liveness (`ReadyRuns`, `SleeperWakes`, `WriterWakes`,
`LineServed`, and the fairness in the refinements), which is out of the prover's
reach; `Heap` and `IOQueue`; and of the file system `AtRestSynced`, `ReadsTrue`,
`CacheTrue`, `StructureHolds` and `ImplementsFiles`.

## 7. What is not modelled

* The boot loader, interrupt and paging set-up, `switch_to` (taken to resume a thread
  where it stopped), formatting, the string library, the dispatch of system calls, user
  programs: machine code, or functions without state of their own.
* The spin lock: nothing uses it.  `cond_broadcast`, `inode_close`, `inode_delete`, the
  `bitmap_*_series` functions: no caller.
* The console: a mutex around output, and so the keyboard's echo, which the handler
  prints under that mutex.
* `vma.c`: algorithms on lists of intervals, in the plan.  Linear areas that meet
  within a page (`kernel/exec.c:100`).
* What idle does after a handler has blocked on its stack: in `IOQueue` that is the end
  (section 5); `KThread` leaves such handlers out.
* The disk driver's `identify_disk` and `partition_scan`, which run once at boot
  without a competitor; the second channel, whose interrupt `pic_init` masks
  (`kernel/interrupt.c:61`); a drive that pauses between the sectors of one command.
* The TLB; the headers and arguments `do_exec` reads.
* In the file system: the console's descriptors, `dup`, close-on-exec, printing a
  directory, paths that lead through a file, directories beyond their direct blocks,
  two inodes in a sector told apart when one is written.
* In the heap: `kmalloc` during boot, where there is one thread.
* What happens after `panic()` and after `Misread`, and exhaustion of memory or pids: the code
  panics, the actions are disabled.
* The 32-bit width of `count`, `repeat` and the tick counters: they would need
  2^31 nested or waiting threads.  `ticks` of a thread is compared with 0 before
  it is decremented, so it stays a natural number (`KThread_proofs!TypeCorrect`).
