# A TLA+ model of the os192 kernel (xv6 with kernel-level threads)

The repository is a fork of xv6 for x86. Its own additions are **kernel-level
threads** (every process has a table of `NTHREAD` threads that share its memory,
files and directory), **mutexes for them**, and a user-level **tournament tree**
built on the mutexes. This directory models the parts in which those additions
meet the concurrency of the kernel, and what lies under them: locks and
interrupts, memory, pipes and files, the file system, the log and the console.
It checks them with TLC on small instances. With TLAPS it proves for all sizes
mutual exclusion of the spin locks, of the mutexes, of the tree and of buffers,
the state of the interrupt flag, that no wakeup of the buffer cache and of the
console is lost, and that the mutexes, the log (with crashes) and the ring of the
console implement their abstract specifications.

## 1. The system

| part | files | what it does |
|---|---|---|
| process and thread table | `proc.c`, `proc.h`, `kthread.h` | slots, `fork`, `exit`, `wait`, `kill`, `kthread_create/exit/join`, `sleep`/`wakeup`, all under `ptable.lock` |
| scheduler, context switch | `proc.c`, `swtch.S`, `vm.c` | one `scheduler()` per CPU; `ptable.lock` is handed through `swtch` |
| traps, system calls | `trap.c`, `syscall.c`, `sysproc.c` | timer preemption, the `killed` checks, dispatch |
| exec | `exec.c` | `kill_threads` ends the siblings of the caller, then the image is replaced |
| kthread mutexes | `proc.c` 881-1087, `kthread_mutex.h` | one table of `MAX_MUTEXES` for all processes, under `mtable.lock` |
| tournament tree | `tournament_tree.c` | a lock for 2^depth threads from one mutex per inner node |
| log | `log.c` | write-ahead log with group commit and recovery |
| buffer cache, disk driver | `bio.c`, `ide.c`, `memide.c` | cached blocks, sleep locks, the IDE request queue |
| spin locks, sleep locks | `spinlock.c`, `sleeplock.c` | mutual exclusion of CPUs, with interrupts off; of threads |
| file table, descriptors, pipes | `file.c`, `sysfile.c`, `pipe.c` | reference counts; descriptors are shared by threads |
| inodes, names | `fs.c`, `sysfile.c` | inode cache, reference and link counts, path lookup, `create`, `link`, `unlink` |
| blocks, contents | `fs.c`, `file.c`, `mkfs.c` | block allocation, `readi`, `writei`, `filewrite` |
| memory | `kalloc.c`, `vm.c`, `exec.c`, `proc.c` | page free list, page tables, `sbrk`, `fork`, `exec` |
| console | `console.c`, `kbd.c`, `uart.c` | the input ring, line editing, output |
| start-up, interrupt hardware | `main.c`, `mp.c`, `lapic.c`, `ioapic.c`, ... | boot |
| user side | `ulib.c`, `umalloc.c`, `sh.c`, `sanity.c`, `usertests.c`, ... | library, programs, tests |

How they interact: a thread enters the kernel by a trap, which looks at `killed`
on the way in and out; system calls of the thread table change thread and
process states under `ptable.lock`, release the lock at a few points in the
middle (`allocproc`, `kthread_exit`, `fork`, `kthread_create`) and give up the
CPU through `sched()`. The mutexes have a lock of their own and use `sleep()`
to wait, so everything that wakes or ends sleeping threads (`kill`, `exit`,
`exec`, `wakeup`) also reaches threads that wait for a mutex. The tournament
tree only sees the four mutex calls. The log is the lowest layer that has to
survive a crash; the file system calls run inside `begin_op ... end_op`, and a
thread can be ended by a sibling's `exit()` in between. Everything stands on the
spin locks, which share the interrupt flag of a CPU with the interrupt handlers
and with `swtch`; the console is where all three meet.

## 2. Modules

| module | models | states its properties about |
|---|---|---|
| `ProcTable` | process and thread table, scheduler, traps, `kill_threads` | scheduling, lost wakeups, exit and reaping, hand-over of `ptable.lock` |
| `MCProcTable` | instances: which calls the programs make | |
| `ProcTableProofs` | TLAPS proofs | `TypeOK`, `LockHandover` |
| `KMutex` | the mutex calls, and what exit, kill, exec, join and wait do to holders and waiters | exclusion, hand-over, starvation |
| `HandoffMutex` | what a kthread mutex promises (abstract) | |
| `MCKMutex`, `KMutexProofs` | instances; TLAPS proofs | `TypeOK`, `MutualExclusion`, `UnlockedHasNoWaiters`, `HandOverReserved`, `NoMutexPanic`, `ImplementsHandoff`, `NoOvertaking` |
| `TournamentTree` | the tree, on the mutexes of `HandoffMutex` | exclusion, progress, accounting of mutexes |
| `TournamentTreeProofs` | TLAPS proofs | `TreeExclusion`, `MutexesAccounted`, `NoTreeError`, `TidIsWinner` |
| `Log` | log, commit, recovery, crashes | atomicity, space, wakeups |
| `AtomicDisk` | what the log promises (abstract) | |
| `MCLog`, `LogProofs` | instances; TLAPS proofs | `ImplementsAtomicDisk`, `LogSuffices`, `OutstandingExact`, `NothingLost` |
| `BufferCache`, `MCBufferCache` | `bio.c`, `sleeplock.c`, `ide.c`; instances | one buffer per block, exclusive holders, latest contents, lost wakeups |
| `BufferCacheProofs` | TLAPS proofs | `HolderAlone`, `ReadsLatest`, `NothingLost`, `NoLostWakeup` |
| `Files`, `MCFiles` | `file.c`, `pipe.c`, the descriptor calls of `sysfile.c`, what fork, exit and kill do to files; instances | reference counts, pipe order and wakeups |
| `Inodes`, `MCInodes` | the inode cache of `fs.c`, path lookup, the calls of `sysfile.c` on names; instances | link and reference counts, lock order |
| `Blocks`, `MCBlocks` | the bitmap, `bmap`, `itrunc`, `readi`, `writei`, `filewrite`; instances | use of blocks, contents of files, size of operations |
| `Memory`, `MCMemory` | `kalloc.c`, `vm.c`, `sbrk`, and what fork, exec, exit and wait do to memory; instances | accounting of pages, sizes, loaded page directories |
| `SpinLock` | `spinlock.c`, the interrupt flag, `sched` and `swtch` | one holder, the flag, assertions |
| `SpinLockInv` | the inductive invariant of `SpinLock` | |
| `SpinLockProofs` | TLAPS proofs | `OneHolder`, `InterruptsMatch`, `NoLockPanic`; of the console `ImplementsSpinLock`, `NoLostInput` |
| `Console`, `MCConsole` | `console.c` on the locks of `SpinLock`, with interrupts; instances | rules of the locks, the ring, lost input |
| `Terminal` | what the console promises about its input (abstract) | |
| `ConsoleRules` | TLAPS proofs: the steps of the console | used by `SpinLockProofs` |
| `TerminalProofs` | TLAPS proofs | `ImplementsTerminal` |

`PROJECT.json` maps every definition that models code to its lines.

### ProcTable

State: `pstate, pid, parent, pkilled, cwd` (struct proc), `tstate, tid, tkilled,
chan, kstack` (struct thread; `kstack` is whether the stack is there), `ctx` (the
kernel frame saved by `swtch`), and per CPU `cur` (`c->thread`) and `pc` (the
frame being executed: a point in the code and up to two local variables), `lk`
(the CPU that has `ptable.lock`), `nextpid`, `panic`.

Grain: a critical section of `ptable.lock` is one step, as it excludes every
other access under the lock; the code between two critical sections is a step
for each access to shared state. So `allocproc` is three steps (find a slot;
write `EMBRYO`; count `nextpid`), `kthread_exit` two, `exit` four, `fork` eight with those of
`allocproc`, and `sys_sleep` two: the test of `killed` under `tickslock`, and the sleep.
`lk` outlives a step only when a context switch hands the lock over. A thread
whose stack was freed (`kfree` fills it with junk) may fault at any moment
(action `junk`); a thread that runs on without a stack otherwise goes on, so
the model explores what a CPU may do after the damage.

`Prog` says which calls a program may make; a timer interrupt is possible
whenever a thread is in user mode or in the kernel without the lock. `panic`
stops the machine: `Next` has the guard `panic = ""`.

Actions keep the names of the functions. A function of several steps is a
disjunction of actions (`exit == exitMark \/ exitWait \/ exitClose \/ exitSched`).

### KMutex and HandoffMutex

A mutex is `allocated, locked, mtid` (struct kthread_mutex); `mid[p]` is the
set of mutexes whose bit is set in `p->mid`; a thread has `blocked` and `chan`.
`at` is the call a thread is in. Two history variables, which no guard reads,
say what the programs have done: `holds` (who has returned from `lock` and not
unlocked) and `home` (who allocated a mutex).

Entering a call and executing it are different steps, as others may get
`mtable.lock` first. `lock` ends in `lockEnd`, with the panic of the code
for a caller still marked `blocked`. The life of threads (`kthread_create`,
`exitMark`, `execMark`, ...) is there in coarser steps than in `ProcTable`.

`HandoffMutex` has the actions `Acquire`, `Wait`, `Release` and `Leave`, for
threads that are ended while they wait, and no fairness; the owner is a thread,
where `KMutex` has a slot index.

### TournamentTree

Each thread has an ID, and walks the node indices from its leaf to the root
(`path`), locking a mutex at each; release unlocks from the root down.
The mutexes are instances of `HandoffMutex`, which `KMutex` implements
(`ImplementsHandoff`); no thread is killed here, and none leaves. Other processes take and
return mutexes of the same table (`otherAlloc`, `otherDealloc`), so an
allocation can run out half-way. Assumed, as in `sanity.c`: no two threads use
the same ID, an ID has a leaf, and a tree is freed when no thread uses it.

### Log and AtomicDisk

On disk: `home` (file system blocks), `dlog` (log blocks), `head` (log header).
In memory: `cache` and `dirty` (the buffers), `lh, outstanding, committing`
(struct log). Every `bwrite` is a step and `crash` is possible between any two
steps, in recovery too. `OpBlocks` is how many blocks an operation really
writes (`<= MAXOPBLOCKS`). `Kills` allows `exit()` of a sibling to end a thread
inside an operation (`dead`). `recycle` is `bget` reusing a clean buffer.

`AtomicDisk` keeps the current contents and the last committed contents; its
steps are a write, a commit (only when no operation is in progress) and a crash
that goes back to the last commit. `ImplementsAtomicDisk` maps `home` overlaid
with the logged blocks (when the header is on disk) to the committed contents.

### BufferCache

A buffer has `dev/blockno` (one model value, `Blocks`), `refcnt`, `flags`, a
sleep lock (`locked`, and the pid of the holder, which the threads of a process
share) and its place in the list from most to least recently used. A client
gets a block (`bget`, `acquiresleep`, `bread`), may change it, writes it
directly (`bwrite`) or leaves it to the log (`log_write`, which keeps at most
`LogPins` buffers dirty), and releases it (`brelse`). `iderw` puts the buffer
on `idequeue`, starts the disk if it is the first and sleeps; `ideintr`, an
action of its own, finishes the first request and starts the next. Contents are
versions: a block's latest version, the disk's and the buffer's. `kill` wakes
any sleeper, and `exit` of a sibling ends a client anywhere, with its locks held.

### Files

Open files (`file`, with `ref`), the descriptors of processes (`ofile`), pipes and
the references to inodes (`iref`, one count for all: `Inodes` has the inodes).
Steps are critical sections of `ftable.lock` and of a pipe's lock, and single
accesses to `ofile`, which has no lock. Counters of a pipe are taken modulo
`UINT`, a multiple of `PIPESIZE`, as `uint` is in the code. A byte is named by its
position in the stream, modulo `UINT`, so that `PipeFIFO` can say that a read
gets the bytes in order. `exit` closes the descriptors one by one. `Calls` says
which calls each process makes. A read or a write tests `killed` and goes to
sleep in two steps, as `kill` may come in between. `cut` is a history variable of
a pipe: a killed writer has left it full with a reader asleep, and nobody has
woken the readers since.

### Inodes

`dinode` is the disk: type, link count, and for a directory a function from names
to inode numbers and its "..". `icache` is the table of slots, `lock` the sleep
locks, `held` the inode a thread has open, `pc` the call it is in. A step is a
critical section of `icache.lock`, or the acquisition of an inode's lock with
what is done until the next one; in particular `iput` is three steps (take the
lock and read `ref`; free the inode; count `ref` down), as in the code. The
calls run inside transactions, which `Log` models; `log_write`s are therefore
plain assignments here. Paths begin at the root. `Calls` says which calls a thread
makes, and with which paths.

### Blocks

`bitmap` is the set of blocks marked in use, `data` the contents of the blocks,
`inode` and `dinode` the inodes in memory and on disk, with a size and addresses.
A block is an array of `BSIZE` words, either bytes of a file or addresses, so
that an indirect block is a block like the others. A byte is named by its file
and its place, which says at once whether a read gives what was written; what a
free block holds is anything but zeros. An inode is locked while it is read or
written, so the steps are the critical sections of the blocks of the bitmap:
`balloc` looks at one of them a step, `itrunc` frees a block a step. `filewrite`
cuts a write into operations by the formula of the code, and `logged` collects
what an operation has passed to `log_write`. `readi` has the loop of the code,
block by block; offsets wrap around at `UINT`, which no offset in a file reaches.

### Memory

Free pages are alike, so they are counted (`free`); an address space is its set of
page tables and its set of pages (`space`). `allocuvm` and `copyuvm` take a page
a step, so that others compete for the pages meanwhile and memory runs out at
every point; `growproc` keeps `ptable.lock` throughout (`lock`). `exec` is a step
each for opening, a segment, loading, the stack, the arguments, the commit, the
switch and the freeing. `cr3` is the directory that the CPU of a thread has
loaded. Sizes are unsigned and wrap around at `UINT`. `exit` and `exec` end their
siblings as in the code: they set `killed`; `exit` makes those that do not run
zombies at once, wherever they are in a call, and sleeps for each of the others;
`kill_threads` wakes its siblings and clears them as they become zombies. A thread
with `killed` set goes to `kthread_exit` at its next trap. That is two critical
sections, and between them the thread is a zombie on a CPU that still has the
directory loaded.

### SpinLock, Console and Terminal

`SpinLock` is instruction by instruction: `acquire` disables interrupts and
counts, spins with `xchg`, and then records its CPU; `release` clears `cpu` before
`locked`. A context is a thread or the scheduler of a CPU, and an interrupt runs
on top of it whenever the flag is set. `swtch` takes `ptable.lock`, which belongs
to the CPU, and `intena`, which `sched` saves for the thread, from one context to
another. Its specification lets every CPU take and drop locks in any order that
the rules allow (no lock taken twice, `sched` with `ptable.lock` alone).

`Console` is the program on top: `consoleintr` at any moment a CPU can be
interrupted, `consoleread` with its sleep, `consolewrite`, `kill`, the timer and
the scheduler. That it keeps to the rules is the refinement `ImplementsSpinLock`.
The ring has the three indices `r`, `w`, `e` of the code, which wrap around;
`ImplementsTerminal` maps it to a line that is edited and a queue of characters
that the readers take.

## 3. What TLC checks

Deadlock is checked except where the system really may stop: when every thread
of the only process is gone (`mutexes`), when all clients have been ended or wait
for a lock of one that was (`buffers`), when all processes have exited or wait at
a pipe for one another (`files`), when `balloc` has panicked because the disk is
full (`blocks`), and in the circle of section 5 (`inodes`, where
`DeadlockOnlyInIput` takes its place).

| run | instance | shows |
|---|---|---|
| `procs2` | 3 processes of one thread (and a second slot for a fork that finds the first taken), 2 CPUs | `OneCpuPerThread`, `NoLostWait`: a thread is on one CPU, `wait()` misses no exit, explored as long as `allocproc` has not given a slot twice (constraint `SlotsIntact`) |
| `threads2` | init and a process of 2 threads, 2 CPUs | `NoPanic`, `ZombieProcHasNoThreads`, `FreedOnlyInExitWindow`, `NoLostJoin`, explored as long as nothing has gone wrong in the window of `kthread_exit` and no thread is made while `exit()` waits (constraint `ExitIntact`) |
| `kill1` | the same on 1 CPU, init kills, `kalloc` fails; fair | `KillWakes`, and the liveness `RunnableRuns` |
| `mutexes` | 3 threads, 1 mutex, with exit, kill, exec, join | `MutualExclusion`, `NoMutexPanic`, `NoOvertaking`, and the refinement `ImplementsHandoff` |
| `tree` | 4 threads, depth 2, 3 mutexes; fair | `TreeExclusion`, `MutexesAccounted`, `Wins` |
| `log_crash` | 2 threads, 3 blocks, 2 values, a log of 4, crashes and kills; fair | `LogSuffices`, the refinement `ImplementsAtomicDisk`, and `BeginWakes` |
| `buffers` | 3 threads of a process, 3 blocks, 2 buffers, kills | `HolderAlone`, `ReadsLatest`, `NoLostWakeup` (of sleepers, and of the disk) |
| `files` | 2 processes, 2 descriptors, 3 files, a pipe of 2 bytes with counters modulo 4, a kill | `NoFileLeak`: whatever fails half-way, counts are exact when no call is half done; `PipeFIFO`, `NoLostPipeWakeup` |
| `blocks` | 2 threads, 2 files of up to 3 blocks of 2 bytes, 4 blocks in 2 blocks of bitmap | `BlocksAccounted`, `ReadsWritten`, `OperationFits` |
| `inodes` | 2 threads that create, open, link and remove, names in the root and in a directory | `NoFsPanic`, `LinkCounts`, `RefsExact`, `DeadlockOnlyInIput`, explored as long as no inode has been lost by the race in `iput` (constraint `NoOrphan`) |
| `memory` | 3 processes, 2 with threads, 17 pages | `NoVmPanic`, `PagesAccounted`, `SizeMapped`, `LoadedDirLive`, explored as long as no zombie that is still on its CPU has been cleared (constraint `ExitIntact`) |
| `console` | 2 CPUs, a reader, a writer that kills, keyboard and timer | `OneHolder`, `InterruptsMatch`, `NoLostInput`, the refinements `ImplementsSpinLock` and `ImplementsTerminal` |

The modules define further invariants, which hold on the same instances and are
not listed with the runs: the type invariant of every module, `NoPanic`, `FreeSlotIsClean`
and `SleepingProcAllAsleep` in `procs2`, the last two in `threads2` as well,
`HandOverReserved` and `UnlockedHasNoWaiters`, `OutstandingExact` and
`NothingLost` of `Log`, `TidIsWinner` and `NoTreeError`, `OneBufferPerBlock`
and `NothingLost` of `BufferCache` (`NoBufferPanic` with a buffer for each client and
one for each that the log keeps), `PipeAlive`,
`OneSlotPerInode` and `WriteThrough`, `NoLockPanic`. With the calls `MCCalls` of
`MCKMutex` (no thread ends) `HolderUnlocks` and, under `FairSpec`, `NoStarvation`
hold too. They say how the others come to hold and are the material for inductive
invariants.

Why the bounds are enough to meet the interesting cases. Two CPUs are what a
race needs. On two CPUs, two threads of one process run at the same time
only if something sets `p->state` to RUNNABLE while one of them is RUNNING (a
wakeup of the other, the end of `kthread_exit`, a sleep), as `scheduler()` takes
RUNNABLE processes only; therefore the programs of `threads2` also call
`sleep`. Two slots beside init's are needed for a race in `allocproc`, and two
thread slots for the second caller to get one; pids up
to `MaxPid` let a slot be used twice. Three threads and one mutex are the
smallest case in which the order of the scan in `unlock` matters. A tree of
depth two is the smallest in which the order of the unlocks matters. Two
operations that reserve two blocks each fill a log of four: with a block in the
log they do not fit together, so one waits, and without the wait they overflow
it. Three threads and three blocks compete for two
buffers, of which the log may keep one, so `bget` recycles all the time and runs out. Two
descriptors and three files make `open`, `dup` and `pipe` fail at each of their
points; a pipe of two bytes is full, empty and half full, a write of three bytes
sleeps in the middle, and counters modulo four wrap at once. `Killable` and
`Modes` cut down what is symmetric. In `files` a process has
one thread: section 5 has what two do. In `inodes` one thread creates, opens,
closes and removes a name, while the other removes it too, links it into a
directory and back, and makes and removes the directory, so that `link` meets
`unlink`, and `unlink` another one, at every point; six inodes and slots are what
these calls can need at once. A file of one direct and
two indirect blocks has every kind of address; writes of one and of four bytes
begin and end inside blocks and are cut into several operations; with
`MAXOPBLOCKS = 6` the slop of `filewrite` is just enough; two blocks of bitmap
make `balloc` go on to the next. Seventeen pages are too few for three processes
at their largest, and sizes and arguments are not multiples of the page. In
`console` the ring of two characters is full after one line, its indices wrap
after four, and one key of each kind (a character, an end of line, an editing key) is typed.

Larger instances that pass, beyond what is convenient to run each time:
`KillWakes` of `kill1` with three threads (563,000 states), `inodes` with
`MCOpens` (5 million), and, in random simulation,
`buffers` with five blocks and four buffers, `files` with two pipes, four
descriptors and six files, `blocks` with three threads, three files and nine
blocks, `console` with a ring of four.

Fairness. `scheduler()` goes on and the timer keeps interrupting (weak
fairness). A thread that is dispatched again and again gets its kernel code
done (strong fairness: a clock tick is long against a step of the kernel). In
`KMutex` (for `NoStarvation`) a RUNNABLE thread is dispatched, which is
`RunnableRuns` of `ProcTable`, and a program that has a mutex unlocks it. In
`TournamentTree` a thread goes on with the call it is in and leaves its
critical section. In `Log` a thread goes on with its operation; crashes and
kills are never fair. No program is assumed to make a call it need not make.

Each property of a passing run comes with a mutant of the model, a small change
to one definition as a slip in the code would make, under which TLC finds that
property violated (`mutants` in `PROJECT.json`).

## 4. What TLAPS proves

For every number of CPUs, processes, threads, locks, mutexes, trees, blocks and
buffers, and every size of the log and of the ring:

* `ProcTableProofs!TypeCorrect`: `Spec => []TypeOK`, and `HandoverCorrect`:
  `Spec => []LockHandover`, both from the inductive invariant
  `IInv == ProcOK /\ ThreadOK /\ CtxOK /\ CpuOK /\ panic \in Message`. Neither is
  inductive alone: where a thread resumes, and so whether its CPU then has the
  lock, is read from the frame saved in its slot, so `CtxOK` says what the saved
  frames are (points of a thread, never of the scheduler). A CPU moves by `Jump`
  (release the lock and go on) or `SwitchOut` (hand it to the scheduler); there
  is one lemma for each and one for every action.
* `KMutexProofs!TypeCorrect`, `MutualExclusionHolds`, `NoForgottenWaiters`,
  `HandOverCorrect`, all from one inductive invariant
  `IInv == TypeOK /\ SlotsOK /\ MutexesOK /\ HoldersOK /\ HandOverReserved /\ QueueOK`.
  `MutualExclusion` alone is not inductive: `unlock` decides by slot index, so one
  needs that ids are slot indices (`SlotsOK`), that a process's `mid` holds only
  mutexes it allocated (`MutexesOK`), that whoever holds a mutex is its recorded
  owner and alive (`HoldersOK`), that a mutex on its way to a woken thread is
  recorded as that thread's (`HandOverReserved`), and that a blocked thread
  waits for a locked mutex (`QueueOK`). The proof has one lemma per action.
  `PanicsOnlyWhenKilled` (`NoMutexPanic`) adds that a thread that is awake in `lock`
  and still marked `blocked` has been told to end (`BlockedOK`).
* `KMutexProofs!HandoffImplemented`: `Spec => ImplementsHandoff`, and
  `NobodyOvertaken`: `Spec => NoOvertaking`, from the same invariant. Three kinds of
  steps are told apart: `lock` and `unlock` are `Acquire`, `Wait` and `Release`;
  `alloc`, `dealloc` and the end of a `lock` that was handed over change neither
  owner nor waiters (a free mutex has no waiters, by `QueueOK`); every other
  action leaves the mutexes alone and adds no waiter (`Thinned`), which is
  `Leave`. For `NoOvertaking` only `unlock` matters: the scan begins behind the
  old owner, so the heir is the waiter with the fewest turns to go.
* `TournamentTreeProofs!TreeExclusionHolds`: `Spec => []TreeExclusion`, for every
  depth. The winner owns the mutex of the root (`WinnerOK`); this is
  inductive only with the facts that the array of a tree does not change while
  somebody competes (`UsersOK`, `BuilderAlone`) and has its entries (`SizeOK`).
  The mutexes are those of `HandoffMutex`, which `HandoffImplemented` has proved
  the kernel to provide. `MutexesAreAccounted` and `CallsSucceed` rest on a second
  invariant, `ArraysOK /\ OwnersOK`: entries of arrays are different mutexes, also
  of an array that is half built or half freed (`FreedOK`, `ApartOK`), and a
  thread owns exactly the mutexes of the nodes on its path, which lead upwards
  (`PathsOK`, `OwnsOK`, `OwnedOK`), so it unlocks what it has locked. `TidCorrect`
  is `TidIsWinner`.
* `BufferCacheProofs!HolderIsAlone` and `WakeupsArrive` (`HolderAlone`,
  `NoLostWakeup`), from `IInv == CacheTypeOK /\ RefsOK /\ LocksOK /\
  OneBufferPerBlock /\ QueueOK`: `refcnt` is the number of users, so `bget` does not
  recycle a buffer under a thread that has found and not yet locked it, and the
  requests in `idequeue` are those of holders that wait in `iderw`. `LatestRead` and
  `ContentsSurvive` (`ReadsLatest`, `NothingLost`) need `ContentsOK` as well: what
  is valid or dirty is the latest, and what is in no dirty buffer is on the disk.
  They assume `~DiskErrors`: section 5 has what happens otherwise. One buffer is all
  that is asked of `NBUF`: when there are too few, `bget` panics, and until then the
  four hold.
* `LogProofs!CrashesAreAtomic`: `Spec => ImplementsAtomicDisk`, with a crash between
  any two writes, in `commit` and in recovery too; `OutstandingCounts` and
  `ChangesKept` (`OutstandingExact`, `NothingLost`). All from `IInv == LogTypeOK /\
  CommitOK /\ OpsOK /\ SpaceOK /\ ContentsOK`. `ContentsOK` says what the disk holds
  at each point of `commit`: before the header is written a block outside the log
  is at home what it is in the cache, so writing the header changes what a crash
  leaves from the last commit to the present at once; until the header is erased,
  installing a block changes nothing of what recovery would give.
  `SpaceReserved` (`LogSuffices`) is an accounting of reservations (`SpaceOK`): an
  operation in progress has `MAXOPBLOCKS`, uses one when it first changes a block
  and gets it back when the block turns out to be in the log. It assumes
  `RoomOnDisk`: operations write at least one block less than they reserve, and as
  many less as the log on disk is shorter than `begin_op` reckons with. With the
  sizes of the code (30 and 10) they may write eight. Section 5 has what happens
  when they write all they reserve.
* `SpinLockProofs!LocksHaveOneHolder`, `InterruptsRestored` and `LocksDoNotPanic`
  (`OneHolder`, `InterruptsMatch`, `NoLockPanic`), from `IInv == LockTypeOK /\
  LocksOK /\ CountOK /\ FlagsOK /\ ContextsOK /\ NoLockPanic`. `ncli` is the number
  of locks that the CPU is taking, has, or is dropping (`CountOK`); the flag that
  the last `popcli` will restore fits the running context (`FlagsOK`); and for a
  thread that does not run, what `sched` has saved says whether it is in a
  handler (`ContextsOK`), which is what makes it right to restore the flag on
  another CPU. They hold of every program that keeps the rules of `SpinSpec`.
* `SpinLockProofs!ConsoleKeepsRules`: `Spec => ImplementsSpinLock`, so that the three
  hold of the console (`ConsoleLocksSafe`). `ConsoleRules` has the lemmas: a step of the console is one of
  `SpinNext` because the point where a context is says which locks its CPU has
  (`LabelsOK`), also while `acquire` spins or has just begun (`PushedOK`,
  `SpinsOK`), and because a context that does not run is in `swtch` (`OffOK`); these,
  `RulesOK`, are inductive together with the invariant of the locks.
  `InputIsNotLost`: `Spec => []NoLostInput`, from `InputOK`: `cons.lock` keeps the
  ring empty from the test in `consoleread` until `sleep` has `ptable.lock`, and
  from then on `wakeup` waits for that lock.
* `TerminalProofs!RingIsTerminal`: `Spec => ImplementsTerminal`, for every ring whose
  size divides the range of `uint`. `RingOK`, with the differences of the wrapping
  indices, is inductive: `(w - r) + (e - w) = e - r <= INPUT_BUF`. From it follows
  that the next slot is in none of the two slices (`FreeSlot`), so that typing
  appends to one and changes nothing of the other.

The assumptions are `SizeAssumption`, `CallAssumption`, `TreeAssumption`,
`LockAssumption`, `RingAssumption` and the like, named in the modules that declare
the constants: sizes are positive, the calls are those of the system, IDs have
leaves, CPUs are not threads, the sets of threads are finite where they are
counted.

Only model-checked: liveness (`RunnableRuns`, `NoStarvation`, `BeginWakes`,
`Wins`), which with `ENABLED` is out of the prover's reach; all of `Files`,
`Inodes`, `Blocks` and `Memory`; and the properties of `ProcTable` other than the two
above, most of which hold only up to the states named in section 3, so that they
are not invariants of its specification. What the loops of `Blocks` and `Memory`
compute for every size would take an induction over data, which the provers do
not do.

The proof modules leave a step to Zenon unless it names another prover: `SMT`
for arithmetic, sequences and what Zenon does not find. `SpinLockInv` and
`ConsoleRules` are modules of their own to keep the library of finite sets out of
sight of the proofs that do not count anything; without both the provers take
several times as long and run into their limits.

## 5. Where the code departs from its comments

TLC finds these with the property and the instance named here. They are kept out
of the runs by the choice of the programs, by a constraint or by an exception in
the property, which is said there.

| property | code | comment | instance |
|---|---|---|---|
| `RunningHasStack` | `kthread_exit` is a zombie before it calls `sched()`; `kthread_join` on another CPU frees the stack it runs on (proc.c:786) | kthread.h:15 "Bottom of kernel stack for this thread" | as `threads2` without the constraint |
| `SlotAllocatedOnce` | `allocproc` marks the slot it found after it has released the lock: two forks take one slot (proc.c:173) | proc.c:150 "Look in the process table for an UNUSED proc. If found, change state to EMBRYO" | as `procs2` without the constraint |
| `OneCpuPerThread`, `NoPanic` | of two forks with one slot the second sets its first thread RUNNABLE again while it runs, and a second CPU takes it, or dispatches one that has no stack yet (proc.c:173) | the same | the same |
| `ZombieIsFinal` | `kthread_exit` sets `p->state = RUNNABLE` unconditionally in its second critical section (proc.c:791), also over a sibling's ZOMBIE | proc.c:343 "remains in the zombie state until its parent calls wait()" | the same as for `RunningHasStack` |
| `UniquePids` | `nextpid++` outside the lock (proc.c:180) | Notes:65 "proc_table_lock / also protects next_pid" | the same, NPROC = 4 |
| `FreeSlotIsClean` | `kill_threads` frees a slot and leaves `killed` set (exec.c:45): the next thread there exits at its first trap | exec.c:38 "once a thread is zombie make it available again" | NPROC = NTHREAD = 2, 1 CPU, `MCExec` |
| `JoinerHasTarget` | of two joiners of a thread the second sleeps for a free slot (proc.c:852) | proc.c:845 "if there is no thread with that id its an error." | NPROC = 2, NTHREAD = 3, 1 CPU, `MCThreads` |
| `KillWakes` | after `kthread_exit` the process is RUNNABLE although all threads sleep; kill wakes nobody (proc.c:704) | proc.c:706 "we wake the first thread that is sleeping so that at trap the process could go to exit" | NTHREAD = 3, 1 CPU, `MCWorker` |
| `ExitCompletes` | `exit()` ends a thread that is inside `kthread_create` and waits for ever for the EMBRYO it was making (proc.c:369) | proc.c:366 "wait until all threads are zombies" | NTHREAD = 3, 1 CPU, `MCThreads`, `FairSpec` |
| `ZombieProcHasNoThreads` | `exit()` sleeps once per sibling and does not look again, so a wakeup by kill lets it go on (proc.c:368) | as above | `threads2` with `MCKill`, without the constraint |
| `ZombieProcHasNoThreads` | a sibling that is in `kthread_create` when `exit()` begins makes a thread in a slot that the loop has passed; the process is a zombie and the thread runs on (proc.c:363) | as above | `threads2` with NTHREAD = 3 and `ExitWindowIntact` |
| `FreeProcIsClean` | free slots have pid 0, and `kill(0)` marks one killed (proc.c:701) | proc.c:691 "Kill the process with the given pid." | NTHREAD = 1, `MCKill`, KillPids = {0, 2} |
| `ExecCompletes` | two threads in `exec` spin for each other (exec.c:31) | exec.c:30 "wait until all other threads are killed" | NTHREAD = 2, 1 CPU, `MCExecs`, `FairSpec` |
| `HolderUnlocks` | ids are slot indices: the next thread in the slot of one that ended can unlock its mutex (proc.c:1047) | proc.c:1046 "make sure calling thread is holding thread" | `MCThreads` of `MCKMutex`, NTHREAD = 2 |
| `MutexesFreed` | `wait()` resets `mid` and not the mutexes (proc.c:446) | proc.c:445 "reset all mutexes that are owned by the proc" | the same |
| `KMutex!DeadThreadStaysDead` | `exit()` leaves `blocked` and `chan` of a waiter it ends; a sibling's `unlock` makes it RUNNABLE (proc.c:1063) | proc.c:366 "wait until all threads are zombies" | `mutexes` |
| `LogSuffices` | `log_write` panics at `log.size - 1` blocks, one less than `begin_op` counts with, if operations write all the blocks they reserve (log.c:218) | log.c:133 "this op might exhaust log space; wait for commit." | 3 threads, MAXOPBLOCKS = OpBlocks = 1, LOGSIZE = nlog = 3 |
| `LockNeverPanics` | a thread waiting for a mutex is woken by `kill` or by another's `exec` and resumes still marked `blocked`: `lock()` panics (proc.c:1004) | exec.c:22 "wake the thread if he is sleeping so he will be killed;" | `mutexes` with NTHREAD = 2 |
| `ReadsLatest` | a read that failed is marked valid (ide.c:121) | bio.c:95 "Return a locked buf with the contents of the indicated block." | `buffers` with DiskErrors = TRUE |
| `NoFileLeak` | two threads in `fdalloc` take one descriptor and a file is lost (sysfile.c:48) | sysfile.c:40 "Takes over file reference from caller on success." | Procs = {1}, NTHREAD = 2, NOFILE = NFILE = 2, nobody killed, the rest as `files`, `MCOpens` |
| `NoFileLeak` | two threads close one descriptor; `fileclose` panics (sysfile.c:94) | file.c:55 "Close file f. (Decrement ref count, close when reaches 0.)" | the same, `MCCloses` |
| `NoFileLeak` | `open` publishes the descriptor before the file has its type (sysfile.c:319); `fileread` by a sibling panics | sysfile.c:39 "Allocate a file descriptor for the given file." | the same, `MCUsers` |
| `PipeAlive` | a close by a sibling frees the pipe under a reader (pipe.c:71) | the same as for `fileclose` | the same, `MCReaders` |
| `NoReaderBesideData` | a killed writer returns from a full pipe without the wakeup (pipe.c:87) | pipe.c:96 "DOC: pipewrite-wakeup1" | `files` |
| `KilledAwake` of `Files` and of `Console` | a process killed after `piperead`, `pipewrite` or `consoleread` has tested `killed`, and before it sleeps, is not woken: `kill` sees it RUNNING (pipe.c:87, console.c:247) | proc.c:703 "Wake process from sleep if necessary." | `files`, `console` |
| `NoOrphan` | `iput` reads `ref` under the lock and counts it down later: when two threads put the last two references, neither frees the inode (fs.c:339) | fs.c:121 "ialloc() allocates, and iput() frees if the reference and link counts have fallen to zero." | `inodes` without the constraint |
| `NoCircle` | `create` (and `unlink`) put the directory, and `iput` takes its lock, with the inode locked; `unlink` of that name has the directory and waits for the inode (sysfile.c:282, 226) | fs.c:151 "The separation also helps avoid deadlock and races during pathname lookup." | `inodes` |
| `LinkCounts` | `create` makes a file in a directory that was removed after it was found; the file is lost with it (sysfile.c:251) | fs.h:33 "Number of links to inode in file system" | `inodes` with `MCInDirectory` |
| `NoVmPanic` | `fork` copies `sz` bytes without a lock while a sibling returns memory: "copyuvm: page not present" (proc.c:287) | vm.c:318 "Given a parent process's page table, create a copy of it for a child." | `memory` with `MCFork` |
| `SizeMapped` | the child gets the size that the parent has after the copy, which a sibling may have changed (proc.c:294) | proc.h:46 "Size of process memory (bytes)" | the same, without the check for deadlock |
| `SbrkReturnsGrowth` | `sys_sbrk` reads `sz` before `growproc` takes the lock: two threads get one address (sysproc.c:57) | usertests.c:1428 `b = sbrk(1); if(b != a)` ... "sbrk test failed" | the same, without the check for deadlock |
| `PagesAccounted` | `exit()` ends a thread inside `fork`, and the memory it was copying is lost (proc.c:363) | as for `ExitCompletes` | the same |
| `NoDirFreedLoaded` | in `kthread_exit` a thread is a zombie with the page directory of its process loaded until it calls `sched()`; `wait()` or a sibling's `exec` frees the directory meanwhile (proc.c:786) | exec.c:30 "wait until all other threads are killed" | `memory` without the constraint |
| deadlock of `GrowSpec` | `growproc` holds `ptable.lock` while `allocuvm` prints, which takes `cons.lock`; `consoleintr` holds `cons.lock` while `wakeup` takes `ptable.lock` (console.c:224) | Notes:77 "lock order / ... proc_table_lock ... / console_lock" | `console` with `GrowSpec` |

A thread that `exit()` ends inside an operation stays counted in
`log.outstanding` (proc.c:363), so nothing commits any more; `BeginWakes`
therefore makes an exception for `dead # {}`. `sbrk` of minus the size frees
everything and returns -1, with the old size left in `sz`, as `growproc` takes the
size 0 for a failure (proc.c:257); `SizeMapped` makes an exception for such a
process, which ends by a fault at its next instruction.

## 6. Not modelled

* `chdir`, paths from the current directory or through `.` and `..`: a reference
  per process and the same steps of a lookup; with them the instance of `Inodes`
  is out of TLC's reach. `mknod` is `create` with another type.
* `fstat`, `uptime` and the fetching of arguments from user memory: they copy
  values and change no state.
* `kbd.c`, `uart.c`, the CGA screen and `cprintf`: tables and pure output. What a
  key means to `consoleintr` is modelled, what is echoed is not, and neither is the
  lock of the console's inode, which `consoleread` and `consolewrite` do not hold.
* Entries and permissions of page tables, segments, the registers of `swtch`:
  hardware data. `mp.c`, `lapic.c`, `ioapic.c`, `picirq.c`, `main.c`, the boot code:
  start-up, before there is concurrency.
* `memide.c`: an alternative to `ide.c` that the default build does not link.
* `ulib.c`, `umalloc.c`, `printf.c`, `string.c`: sequential user-side code, or
  helpers without state.
* `sh.c`, `init.c` and the other programs, `mkfs.c`: clients of the system calls.
  `sanity.c` and `usertests.c` are read for what they expect.
