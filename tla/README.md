# TLA+ models of the Pintos kernel

This directory models the Pintos kernel of this repository, with its user
programs (project 2) and its file system (project 3), in TLA+. The modules are
model-checked with TLC on small instances. The thread and synchronization layer
and the life of processes are also proved with TLAPS, for every number of threads,
semaphores, locks and processes.

Paths of source files are relative to `src/pintos/src/` unless they start with
`src/`. `PROJECT.json` maps each definition to the lines it models.

## The system

Pintos is a uniprocessor kernel. The timer interrupt may take the CPU away from
a thread wherever interrupts are on, so kernel code interleaves at every
instruction outside of `intr_disable()`, and the locks of `synch.c` are the only
other means of exclusion. Above them:

| Part | Source | State | Who runs concurrently |
|---|---|---|---|
| scheduler | `threads/thread.c` | `ready_list`, `all_list`, `status`, time slice, `next_tid` | threads, timer interrupt |
| primitives | `threads/synch.c`, `threads/interrupt.c` | `value`, `waiters`, `holder` | threads, device interrupts |
| buffer cache | `filesys/buffer.c` | list of 64 slots, counters | all file system users, crash |
| exec, wait, exit | `userprog/process.c`, `exception.c` | `struct wait_status`, list of children | parent and children |
| descriptors | `userprog/syscall.c` | `fd_list` of each process | nobody: one thread per process |
| inodes, free map | `filesys/inode.c`, `free-map.c` | index, length, bitmap | readers and writers of a file |
| directories, paths | `filesys/directory.c`, `filesys.c` | entries, `curr_dir` | processes |
| memory | `threads/palloc.c`, `malloc.c`, `userprog/pagedir.c` | bitmaps, free lists, page tables | threads |
| devices | `devices/ide.c`, `intq.c`, `serial.c`, `kbd.c`, `timer.c`, `block.c`, `partition.c`, `lib/kernel/console.c` | queues, completion semaphores, ticks | threads, interrupts |
| containers | `lib/kernel/list.c`, `hash.c`, `bitmap.c` | data structures | their callers' discipline |

System calls enter through `syscall_handler()`. A call about names goes to
`filesys.c` and `directory.c`, one about a descriptor to `file.c` and `inode.c`,
and both end in `buffer_read()` and `buffer_write()`, which sleep in the disk
driver. `exec`, `wait` and `exit` go to `process.c`, which uses `thread.c` and
`synch.c`.

## Modules

| Module | Models |
|---|---|
| `Sched` | run queue, blocking, unblocking, yielding, `schedule()` and the time slice |
| `Synch` | semaphores, locks, condition variables, `thread_create()`, identifiers, the idle thread, interrupts |
| `Mutex`, `SynchMutex` | an abstract mutex, and the mapping of `struct lock` to it |
| `SynchInv` | the inductive invariant of `Synch` |
| `QueueLemmas` | facts about queues without repetitions, for the proofs |
| `SynchLocks`, `SynchLocal`, `SynchSwitch`, `SynchProofs` | the proofs about `Synch`, and that locks implement the abstract mutex |
| `SectorStore` | what the buffer cache promises: a store of sectors over a disk that lags behind |
| `BufferCache` | `filesys/buffer.c`, step by step |
| `BufferStore` | the cache implements the store |
| `ProcessWait` | `exec`, `wait`, `exit` and `struct wait_status` |
| `ProcessInv` | the inductive invariant of `ProcessWait` |
| `ProcessSteps`, `ProcessProofs` | the proofs about `ProcessWait` |
| `FdTable` | the descriptors of a process |
| `InodeIndex` | the multilevel index and the free map |
| `InodeGrow` | one file that is read, written and grown by several threads |
| `DirTree` | directories, paths, current directories, system calls on names, the life of open inodes |
| `Console`, `Keyboard` | the console lock, the serial port and its ring buffers, the input buffer; the keyboard's state |
| `Disk` | one ATA channel with two drives, block devices, partitions |
| `Memory` | the page allocator and the heap |
| `AddressSpace` | loading an executable, page tables, the end of an address space |
| `Lists`, `HashTable`, `Bitmap` | the containers of `lib/kernel`, with their pointers, buckets and words |
| `Algorithms` | division, sorting, searching, strings, the argument stack, calibration of the timer |
| `MCSynch`, `MCBuffer`, `MCProcess`, `MCFiles`, `MCNames`, `MCDevices`, `MCLibrary` | instances for TLC |

Modules that share no state are model-checked side by side: in `MCFiles`,
`MCDevices` and `MCLibrary` a variable `part` says which module a behaviour
exercises, and the variables of the others keep their initial values.

### Sched and Synch

`running`, `status`, `ready_list`, `idle_thread` and `thread_ticks` are the
variables of `thread.c`; `value`, `waiters`, `holder` and `cond_waiters` are the
fields of the primitives. `pc[t]` is the point a thread has reached. Only the
running thread takes steps, and a step is a stretch of code with interrupts off
or the code between two points where another thread can see a difference.
`sema_down()` is split at `thread_block()`, `lock_acquire()` before it sets the
holder, `lock_release()` between clearing the holder and `sema_up()`,
`cond_wait()` at each of its four calls, `allocate_tid()` between its read and
its write of `next_tid`. A thread in its own code (`"call"`) may call any
primitive whose assertions hold. `timer_interrupt` and `interrupt_up` (a device
handler that ups a semaphore) may come whenever interrupts are on.

The semaphore that `cond_wait()` puts on its stack is named by the waiting
thread. Priorities are left out: nothing in the code reads them.

### BufferCache

A call is taken apart at the disk transfers, during which the holder of
`list_revise_lock` sleeps, and at the release of the lock. A sector consists of
parts, so that a write can be to part of a sector. `Crash` resets memory and
keeps the disk. Between `buffer_clean()`'s two critical sections, and in
`buffer_performance()`, which takes no lock, other threads run. `IntRange` is
the number of values of a counter, which wraps around. `PartialMiss` says
whether callers write to part of a sector that is not cached. It is `FALSE` in
the runs that show the cache to be a store and `TRUE` in the run that shows why
it has to be. `recent` is a history variable: the sectors in order of their last
use, kept apart from the list of slots.

### ProcessWait

A wait status is named by its child. Each access of `process_wait()` and
`process_exit()` to shared memory is a step: the unlocked test of `ref_cnt`,
`sema_down()`, the reaping, and in the exit path the lock, the write of the
decrement, the unlock, the step to the next element and the test for the last
reference. Semaphores and `ref_cnt_lock` are abstract, as `Synch` establishes.
The first use of a freed wait status ends the behaviour, as the program is
undefined from there on. A null pointer is a page fault, and `page_fault()`
makes any process exit with -1; for `main`, which has no wait status, it ends the
behaviour. `kill()` ends a program without setting `exit_code`. `parent`, `ended`
and `result` are history variables for the properties.

### FdTable

`fd_list` is a sequence of descriptor and handle. `find_free_fd()` is modelled by
what its loop computes: the descriptor and the position of the insertion, which
for a gap is before the element below the gap. Each call that takes a
descriptor is an action if it changes anything, also when it does so by killing
the process. A program ends in `sys_exit_handler()`, which closes its files, or in
`kill()`, which does not.

### InodeIndex and InodeGrow

`InodeIndex` keeps `inode->data` of each file, the content of index sectors and
the set of marked sectors, over an index with `DIR_LEN` direct pointers, two
single and one double indirect sector with `ENTRIES` pointers, and `BYTES` bytes
per sector; in the code these are 123, 128 and 512. `NewPointers(o, n)` is the
sequence of pointers that is allocated when the last index goes from `o` to `n`,
in the order of the code, `Indexed` what the inode and the index sectors hold
afterwards, including what a new index sector held before it was allocated. When
there are too few sectors creation and growth go on, with pointers to sector 0, and
the behaviour ends there. One thread at a time works on files here.

`InodeGrow` is about several threads on one file with direct pointers.
`extend_lock` is a lock; each section under `length_lock` is a step. A thread is
preempted between its allocation of a sector, the zeroing of that sector, its
copy of data and its update of the length.

### DirTree

A directory is a function from slots to entries, an inode is named by its
sector, and `inode` holds `open_cnt`, `removed` and `deny_write_cnt` of the open
ones. A call on a name starts with `enter`, which resolves the path and opens the
directory it ends in. It then goes through the steps of its system call: the
allocation of a sector, the check for the name, the entry, the dots, the removal.
No lock protects these, and the calls of two processes overlap at every step. A
path is `[abs, parts, slash]`; `slash` says that it ends in one, because
`get_next_part()` then leaves the last name in its buffer.

`dirs` has the struct dirs that are current directories, each with the processes
that point to it: `process_execute()` gives the child its parent's pointer, and what
the child had opened before is lost. `chdir` in one process frees the struct of all
of them; the others are then in `dangling`. `lost` counts the handles that the code
drops without closing: current directories at exit, directories whose descriptor
is closed, the files of a process that is killed, the root opened by the path `/`.
`failed` counts the creations that fail in `dir_add()` and keep their data blocks,
`orphans` is what was created in a directory that had been removed or found empty.

`fault` says why a behaviour has ended. Following a freed struct dir or an entry to a
released sector, a creation that finds one sector only, and a child that is gone are
undefined, or outside of this module. The other two reasons are defined, and what
follows them is not explored: an entry `.` or `..` has been created or removed by
its name (`"dots"`), or one has been written where another call had put one since the
place and the name were looked up (`"race"`). `TreeSound` and `SectorsInUse` are
about the states before these two; `CountsExact` is about all states.

### Console, Disk and Keyboard

What runs with interrupts off is one step. The UART, the drives and the keys are
external: the UART raises its line when the enable register allows it, a drive
answers in time. In `Console` a thread sleeps in `wait()` with the queue's lock,
and handlers print without the console lock. `shutdown_power_off()` is two steps,
the flush and the power-off, with interrupts on in between; `shutdown_reboot()` does
not flush. A false assertion ends the behaviour. `Disk` begins with the
identification of the drives and the partition scan in `ide_init()`. A transfer
is split at the channel lock, the selection, the command, the data and the
completion semaphore. Sector numbers are taken modulo `UintRange`.

### Memory and AddressSpace

`Memory` splits `palloc_get_multiple()` into the search and the marking, which
the pool's lock covers, and `palloc_free_multiple()` into one step per page,
which no lock covers. Blocks have addresses, so that overlap is about bytes.
`AddressSpace` switches processes at any step, as the timer does, and loads
executables page by page; each allocation can find its pool empty. `process_exit()`
is split at the three statements whose order its comment calls crucial.

### Lists, HashTable, Bitmap and Algorithms

The containers keep the representation of the code next to a history variable
with the sequence or the set that it stands for, and the result of each operation
is compared with the one on that value. `Algorithms` applies each function to
every member of a set of inputs, in one step, and compares the result with a
reference definition. Word sizes are scaled down: a half word has 4 bits, a
bitmap's word 3.

## Runs

Runs that pass:

| Run | Instance | Shows | States |
|---|---|---|---|
| `synch` | initial, idle and two more threads, two locks, a device semaphore, a condition variable | `LockExclusive`; `NoLostWakeup`, `NoLostSignal`; `Inductive`, which includes exact queues and unique identifiers; `LocksAreMutexes`: refinement of `Mutex`; `ReadyRuns`: every ready thread gets the CPU; `LockHandedOn`: a free lock that threads sleep on is taken | 355,861 |
| `buffer` | two threads, three sectors of two parts, two slots, crashes | `CacheIsStore`: refinement of `SectorStore`; `LRUOrder`, `FlushMakesDurable` | 506,351 |
| `process` | `main` and three processes | `WaitGetsStatus`, `RefCntExact`, `NoLeak`, `ExecKnowsLoad` | 2,728,300 |
| `process_live` | `main` and two processes | `CallsEnd`: `exec` and `wait` return | 79,632 |
| `files` | two files on 18 sectors; one writer and two readers of a file; six handles | `SectorsAccounted`, `BytesStay`; `ReadersSeeWrites`, `WritesSurvive`; `FilesAccounted` | 903,317 |
| `names` | two processes with overlapping calls, two names, four sectors for inodes, five paths | `TreeSound`: one entry per name, and the directories form a tree; `SectorsInUse`: every sector in use has a reason; `CountsExact`: `open_cnt` and `deny_write_cnt` | 1,160,084 |
| `devices` | two printing threads; one and two readers; two threads on two drives; five keys | `BytesInOrder`, `NobodyForgotten`, `LinesNotMixed`; `TransfersExact`, `InsidePartition`; `KeysAsHeld`; `DriversFinish`: lines, transfers and start-up end | 861,030 |
| `library` | two threads on four pages; two processes, nine executables; lists of four, hash tables of six elements, four bits; inputs of `Algorithms` | `BlocksDisjoint`, `PagesAccounted`; `ActiveIsAlive`, `FramesAccounted`, `ImageAsElf`; `ListsAsSequences`, `HashAsSet`, `BitmapAsSet`; `LibraryAgrees` | 786,449 |

Each property has a mutant in `PROJECT.json`: a plausible mistake in the code for
which TLC finds the property violated.

### Departures

Four runs show a disagreement between the code and what a comment or a document
of the repository says (quoted under "findings" in `PROJECT.json`):

| Run | What TLC finds |
|---|---|
| `buffer_partial_write` | a write to part of an uncached sector replaces the rest of the sector (`filesys/buffer.c:203`) |
| `process_killed` | `wait` returns 0 for a process that `kill()` ended (`userprog/exception.c:93`) |
| `process_freed` | a wait status is used after it was freed (`userprog/process.c:123`) |
| `inode_grow_race` | of two writers that grow a file, one loses the other's bytes (`filesys/inode.c:484`) |

The models have further ones that no run is kept for. Each of the first group has
a formula in its module, with the line that it quotes; TLC refutes it when it is
put in place of the properties of the configuration named here:

| Formula | Configuration | What happens |
|---|---|---|
| `CleanLosesNothing` | `MCBuffer.cfg` with `TestsAlone = FALSE` | a write between the two halves of `buffer_clean()` is lost (`filesys/buffer.c:231`) |
| `HitsAreAccesses` | the same, with `IntRange = 8` | more hits than accesses are reported (`filesys/buffer.c:218`) |
| `FreedIsUnlisted` | `MCProcess.cfg` | a child frees a wait status that is still on its parent's list (`userprog/process.c:168`) |
| `TidErrorReturned` | `MCProcess.cfg` | a null pointer is followed when no thread can be created (`userprog/process.c:56`) |
| `ChildMayExitFirst` | `MCProcess.cfg` | the same when the child has already exited (`userprog/process.c:56`) |
| `SmallestFd` | `MCFiles.cfg` | after a gap was filled, `open` returns a descriptor that is in use (`userprog/syscall.c:665`) |
| `FileNotNull` | `MCFiles.cfg` | `filesize`, `seek` and `tell` of a directory stop the kernel (`userprog/syscall.c:157`) |
| `FullIsReported` | `MCFiles.cfg` | `inode_create()` reports success on a full device (`filesys/inode.c:221`) |
| `MaxIsSupported` | `MCFiles.cfg` with a length of 18 | a file of `MAX_LEN` bytes needs a pointer past the end of an index sector (`filesys/inode.c:165`) |
| `ClosedAtEnd` | `MCFiles.cfg` | the files of a process that `kill()` ends stay open (`userprog/exception.c:93`) |
| `OnlyOneSucceeds` | `MCNames.cfg` | two processes both create, or both remove, one name (`filesys/directory.c:207`) |
| `RemovedIsUnused` | `MCNames.cfg` | the current directory of another process is removed (`filesys/directory.c:257`) |
| `WaitAsserts` | `MCDevices.cfg` | of two readers, one waits on a queue that is not empty any more (`devices/intq.c:91`) |
| `NoBitsAtZero` | `MCLibrary.cfg` | `bitmap_scan_and_flip()` of no bits returns its start, not 0 (`lib/kernel/bitmap.c:322`) |
| `RemainderReturned` | `MCLibrary.cfg` | the 64-bit remainders are cut to 32 bits (`lib/arithmetic.c:134`) |
| `MoveReturnsDst` | `MCLibrary.cfg` | `memmove()` returns a pointer that it has advanced (`lib/string.c:45`) |
| `CatTerminates` | `MCLibrary.cfg` | `strlcat()` to a string that fills its buffer writes no terminator (`lib/string.c:365`) |

The second group was met while reading the code and is outside of the models:

- a part of a path that is too long leaves its buffer unterminated;
- `read_partition_table()` reads sector 0 whatever its argument, so an extended
  partition would make it call itself again;
- `timer_calibrate()` tests each bit against the highest one alone, so that the
  result can exceed the limit; `wait_until_idle()` waits for 10 ms where its comment
  says 10 seconds.

The passing runs say how far the code is right all the same: for instance the
growth of a file by one writer with any readers, wait statuses up to the first
use after free, and calls on names that overlap up to the first entry that is
written over another one.

### Bounds

- `synch`: two threads next to the initial and the idle one are enough for a
  thread that is overtaken after it was woken, a waiter and a signaller, a
  creator and an exiting thread. `MaxValue` bounds how often a semaphore is
  raised unseen, `MaxTid` how many threads are ever created. There is never more
  than one creator at a time in this instance, so that contention for
  `tid_lock` is left to the proof of `TidsUnique`. A time slice of 2
  ticks lets a thread be interrupted with and without being preempted.
- `buffer`: two slots and three sectors force evictions; two parts tell a
  partial write from a whole one. `buffer_clean()` and `buffer_performance()`,
  which only tests call, run while no other call does (`TestsAlone`); what happens
  otherwise is `CleanLosesNothing` above.
- `process`: three processes allow a grandchild, or two children on a list of
  which one is freed while the other is walked over. At most one of them ends
  abruptly (`MaxAbrupt`); every process may still fail to load.
- `files`: the lengths lie on both sides of each boundary of the index,
  17 bytes being the largest file that the index has room for. With 18
  sectors the device also runs full. `MaxRemovals` bounds the reuse of sectors.
  The writer makes two writes of up to three bytes, with holes. Two gaps at
  different places need at least four descriptors; six are open at most.
- `names`: four sectors for inodes hold the root, a program and two more, so that a
  directory can have a child and creation can fail; of eight sectors in all, failed
  creations use up the rest. The paths lead to the root, to both levels below it, to
  a name in the current directory and to its parent. Each behaviour keeps to one of
  six sets of calls (`Scope`): in four of them calls overlap in any way, in two they
  follow one another and the stories are longer. Each process has one descriptor
  (`MaxFds`), at most two handles are lost (`MaxLost`).
- `devices`: a ring buffer of three, with room for two bytes, is full in the
  middle of a line and its positions wrap around; one nested line and one
  handler that prints. The console is taken twice, with two threads that print and
  no input, and with one that prints and two that read two bytes of input. Two
  drives of two sectors, with partitions that fit, wrap around, start or end past
  the end, or are foreign.
- `library`: arenas of two blocks in a pool of four pages, which runs out; two
  pools of four frames, which run out at every step of a load. The executables
  have segments that begin inside a page, share one, wrap around, lie past the
  user's addresses, or are longer than their file. Lists hold equal values, hash
  tables equal keys and colliding hashes; the last word of the bitmap is used in
  part.

Threads, sectors, slots, files and processes that nothing tells apart are
symmetry sets; runs with liveness properties use no symmetry.

### Fairness

`synch` assumes, for its two liveness properties, weak fairness of each thread's
code inside a primitive, of start-up, of the idle loop and of the timer
interrupt. The code of a primitive has no unbounded loop of its own, the
processor executes the running thread, and the timer is periodic. Nothing is
assumed of the threads' own code: they may keep a lock for ever or never call a
primitive again. `process_live` assumes weak fairness of the kernel code of each
process, which is what `ReadyRuns` gives, and nothing of the programs:
`CallsEnd` is only about children that are on their way out.

`devices` assumes weak fairness of the hardware (the UART sends, a drive answers),
of the delivery of interrupts and of threads that have begun to print or hold the
channel. Nothing is assumed of threads that wait for the channel or the console.

Deadlock is checked in `synch`, `buffer` and `buffer_partial_write`. It is not
checked where the system may stop: all processes may have exited, all files may
be at the largest length, a bounded environment may have nothing left to do, and
behaviours end at the first undefined step.

## Proofs

### Threads, semaphores and locks

The theorems of `SynchProofs` are about `Synch!Spec` with arbitrary sets of threads,
semaphores, locks and condition variables, under the named assumptions
`ThreadAssumption`, `SliceAssumption` and `SynchAssumption` of the modules that declare the constants:
the sets are disjoint, the special elements belong to them, the bounds are natural
numbers.

| Theorem | Statement |
|---|---|
| `InductiveHolds` | `Spec => []Inductive` |
| `TypeCorrect` | `Spec => []TypeOK` |
| `ElemExclusive` | `Spec => []ElemInOneList` |
| `RunQueueExact` | `Spec => []ReadyQueueExact` |
| `MutualExclusion` | `Spec => []LockExclusive` |
| `TidsUnique` | `Spec => []UniqueTids` |
| `LocksRefineMutex` | `Spec => LocksAreMutexes` |

None of these invariants is inductive alone. `Inductive` (module `SynchInv`) adds

- `QueueInv`: a thread on a wait list is blocked, inside `sema_down()`, on that
  very semaphore. Without it `sema_up()` could put a thread on the run queue that
  is already there, and `ElemInOneList` would fail.
- `IdleInv`: before the idle thread has run it is on the run queue or running,
  afterwards `idle_thread` is set. So `schedule()` always finds a thread.
- `ArgInv`: what a call in progress is about, by its program point: for instance
  only code of `allocate_tid()` is about `tid_lock`.
- `NewInv`: the thread being created is blocked, on no list, and made by one
  thread only.
- `HolderInv`: a thread inside `lock_release()`, `cond_wait()` or
  `allocate_tid()` holds its lock up to the point where it clears the holder, and
  between clearing and `sema_up()`, as between `sema_down()` and setting the
  holder, nobody does. With it each step of a lock changes who owns it and the
  semaphore's value together.
- `TidInv`: the copy of `next_tid` a thread has read is current while it has
  `tid_lock`, and all identifiers are smaller.

`QueueLemmas` has the facts about appending to and removing from queues without
repetitions. `SynchLocks` proves what `thread_block()`, `thread_unblock()`,
`schedule()`, `sema_up()` and the operations of a lock do to the state, and that a
step keeps a conjunct whose variables it leaves alone. Then comes one lemma per
action, with a step per conjunct the action can disturb: `SynchLocks` and
`SynchLocal` have the actions that leave the scheduler alone, `SynchSwitch` those
that switch threads or make one, `SynchProofs` the first steps of a thread and
the theorems.

For the refinement `SynchProofs` shows that each step of `Synch` is a step of `Mutex`
or leaves the mapped state alone, under `Inductive`. The owner of the abstract mutex
is the thread between the decrement of the semaphore and its increment, so that
`HolderInv` is what makes taking and releasing a lock single abstract steps.

### Processes

The theorems of `ProcessProofs` are about `ProcessWait!Spec` with an arbitrary set of
processes and exit codes, under `ProcAssumption`. Executions end at the first use
of a wait status that was freed (run `process_freed`), so they say what
holds up to there.

| Theorem | Statement |
|---|---|
| `ProcessInductive` | `Spec => []Inductive` |
| `WaitStatus` | `Spec => []WaitGetsStatus` |
| `RefCounted` | `Spec => []RefCntExact` |
| `NothingLeaks` | `Spec => []NoLeak` |
| `ExecLoadKnown` | `Spec => []ExecKnowsLoad` |

`Inductive` (module `ProcessInv`) consists of

- `ListInv`: a list of children has no repetitions and holds processes that its
  owner executed, and an allocated wait status is on its parent's list. The walk in
  `process_exit()` thus meets every status once, which the count relies on.
- `AtInv`: a call in progress is about an element of the caller's list, and in the
  walk the successor it has read is still the successor.
- `LockInv`: `ref_cnt_lock` is held exactly between its acquisition and release, and
  the value its holder has read is current, so that no decrement is lost.
- `CountInv`: `RefCntExact` without cardinalities: the count is the sum of what
  parent and child still keep.
- `FreeInv`: when both have dropped an allocated status, one of them is still
  before its test for the last reference. `NoLeak` follows when both are gone.
- `LoadInv`, `EndInv`: each semaphore is raised only after the value it announces
  is final, and a parent past `sema_down()` is past that point. What `wait` has
  returned is what the program's end left in `exit_code` (`CodeReturned`), from which
  `WaitStatus` takes the ends by `exit()` and by a page fault; after `kill()` it is 0.

`ProcessSteps` has lemmas
on how a step of one process changes the places of others, on removal from the list
and on groups of steps that end a program, move within a call or do not touch counts;
`ProcessSteps` and `ProcessProofs` then have one lemma per action.

### Only model-checked

- `NoLostWakeup` and `NoLostSignal`, the refinement `CacheIsStore` with the other
  properties of the buffer cache, and everything about the other modules.
- Liveness (`ReadyRuns`, `LockHandedOn`, `CallsEnd`, `DriversFinish`), which is out of
  the prover's reach.
- `Lists`, `HashTable`, `Bitmap` and `Algorithms`, which use recursive operators that
  the prover does not support.

## Not modelled

- Formats and bytes: printing, archives, random numbers, most of `string.c`, the
  validation of user pointers.
- Static tables and pure device input and output: `gdt.c`, `tss.c`, `vga.c`,
  `rtc.c`, `pit.c`, `speaker.c`; most start-up code, `fsutil.c`; the user
  library and the example programs, which are the environment of the models;
  assembly code.
- Races that need finer steps than the modules take: two threads inside
  `inode_open()` or `free_map_allocate()`, which no lock protects. They are listed
  under "hazards" with a note.
- `dir_readdir()` and file positions, `timer_sleep()`, extended partitions, time-outs
  of the hardware, accessed and dirty bits, `calloc()`, and heaps with several
  descriptors.
- In modelled parts: `bitmap_write()` that fails in `free_map_allocate()`,
  failed `calloc()` in `inode.c`, and the content of data sectors in
  `InodeIndex`. The modules of the file system are not composed with each other:
  `InodeIndex` has the sectors of a file, `DirTree` its names, `BufferCache` what
  is stored.
