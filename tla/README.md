# Verification of the sis-op laboratories

TLA+ specifications of the kernels and programs of this repository, model-checked
with TLC and, where a theorem is stated, proved with TLAPS. Every definition is
translated from the C source; `PROJECT.json` maps it to its file and lines.

The repository holds the laboratories of an operating-systems course: a shell
(`lab01`), an xv6-riscv kernel with named semaphores (`lab02`), an xv6-riscv
kernel whose round-robin scheduler was replaced by a multi-level feedback queue
(`lab03`), and exercises. The kernels are copies of one code base. What is common
to them is modelled once, from the newest copy,
`src/lab03/so22lab3g02/final/kernel`, called `kernel/` below; the semaphores are
modelled from `src/lab02/xv6-riscv-bit`.

## 1. The system

| Component | State | Operations | Who calls it, and how they interact |
|---|---|---|---|
| Run queues (`kernel/queue.c`) | `priority_queues[NPRIO]`: ring, first index, size; `aux_lock`; `inited` | `queue_empty`, `enque`, `deque` | Every CPU: `scheduler()` takes processes out under `queue_lock`; `fork`, `yield`, `wakeup`, `kill` put them in under `p->lock` |
| Processes and scheduler (`kernel/proc.c`) | `proc[NPROC]` (state, priority, channel, killed, parent), `wait_lock`, `queue_lock`, `cpus[]` | `userinit`, `allocproc`, `freeproc`, `fork`, `exit`, `wait`, `kill`, `yield`, `sleep`, `wakeup`, `scheduler`, `sched`, `reparent` | System calls, the timer interrupt, and everything that sleeps; `p->lock` is handed over between two stacks by `swtch()` |
| Sleep locks (`kernel/sleeplock.c`) | `locked`, a spin lock | `acquiresleep`, `releasesleep`, `holdingsleep` | Buffers and inodes; built from `sleep` and `wakeup` |
| Spin locks (`kernel/spinlock.c`) | `locked`, `cpu`; `noff` and `intena` of each CPU | `initlock`, `acquire`, `release`, `holding`, `push_off`, `pop_off` | Everything |
| Boot (`kernel/main.c`, `start.c`) | `started` | `main` | CPU 0 initialises, the others wait for `started` |
| Traps and timer (`kernel/trap.c`) | `ticks` and its lock, interrupt bit of each CPU | `usertrap`, `kerneltrap`, `clockintr`, `devintr` | Preempt processes, deliver device interrupts, wake who sleeps for the clock |
| Semaphores (`lab02/.../kernel/semaphore.c`) | `sems[NSEM]` (id, value, lock), `general_lock`, `lock_set`, `sem_are_set` | `sem_open`, `sem_close`, `sem_up`, `sem_down`, `decrease`, `set_sems` | System calls of any process; `sleep` and `wakeup` on a slot |
| `pingpong` (`lab02/.../user/pingpong.c`) | two semaphores | two loops after a `fork` | Uses the semaphores |
| Log (`kernel/log.c`) | in memory: header, `outstanding`, `committing`; on disk: header and blocks | `begin_op`, `end_op`, `log_write`, `commit`, `recover_from_log` | Every system call that changes files; a crash ends everything but the disk |
| Buffer cache (`kernel/bio.c`) | `bcache`: buffers with identity, validity and references, in LRU order | `bread`, `bwrite`, `brelse`, `bpin`, `bunpin` | Log, inodes; sleeps on buffer locks |
| Disk (`kernel/virtio_disk.c`) | descriptors, two rings, `used_idx`, what is in flight | `virtio_disk_rw`, `virtio_disk_intr` | Buffer cache; shares memory with the device |
| Files (`kernel/fs.c`, `file.c`, `sysfile.c`) | inode table, bitmap and blocks, `ftable`, descriptors | `iget`, `ilock`, `iput`, `balloc`, `bmap`, `itrunc`, `writei`, `fileclose`, `create`, `unlink`, ... | System calls; the log |
| Pipes (`kernel/pipe.c`) | ring of bytes, `readopen`, `writeopen` | `pipealloc`, `piperead`, `pipewrite`, `pipeclose` | `file.c`; `sleep` and `wakeup` |
| Console and UART (`kernel/console.c`, `uart.c`) | input ring with three indices, transmit ring | `consoleread`, `consoleintr`, `uartputc`, `uartintr`, ... | Device interrupts against system calls |
| Memory (`kernel/kalloc.c`, `vm.c`, `exec.c`) | free list, page tables | `kalloc`, `kfree`, `uvmalloc`, `exec`, ... | Everything |
| System calls (`kernel/syscall.c`, `sysproc.c`) | none of their own | `sys_sleep`, `sys_kill`, ... | User programs |
| Allocator of user programs (`user/umalloc.c`) | `freep`, headers in a ring of free blocks | `malloc`, `free`, `morecore` | Any program; asks the kernel with `sbrk` |
| Round-robin scheduler (`lab03/.../original/kernel/proc.c`) | `proc[NPROC]`, an index for each CPU | `scheduler`, `yield`, `sleep`, `exit`, ... | What the queues replaced |
| `mybash` (`src/lab01/principal`) | the pipeline to run, its children, the input | `parse_pipeline`, `execute_pipeline`, `main` | `fork`, `pipe`, `dup2`, `waitpid` of Linux; the calls of `parser.h` |
| Copies, drafts, exercises | | | Not part of the laboratories' results |

What makes each of them correct, and what is hard about it:

* **Run queues.** Processes come out in the order they went in, none is lost or
  doubled, `panic` is never reached. Hard: `size` is read without the lock, and
  `enque` raises it before it stores the pointer.
* **Processes.** Each process runs on one CPU at a time and is queued exactly when
  it is runnable, whatever preempts, wakes, kills and collects it at once; an
  entry is freed only when nobody uses its stack; no exit is missed; what is
  queued runs in the end. Hard: `p->lock` protects an invariant that is broken
  between two stacks; `fork` publishes a child in three critical sections; locks
  are taken in an order that no comment states for `queue_lock`.
* **Sleep locks.** Mutual exclusion, no lost wakeup; a third process may take
  the lock before the one that was woken.
* **Interrupts and the clock.** Interrupts are off wherever a lock is held or a
  trap is handled, on again afterwards, and a sleeper wakes at its tick. Hard: what
  `push_off` saves belongs to a process that may go on on another CPU; the counter
  wraps around; the tick may come between a test and a sleep.
* **Boot.** Locks that are initialised late must not be in use already.
* **Semaphores.** Each call takes effect once, no unit is lost or taken twice,
  whoever can go on is woken.
* **Log.** A crash leaves all or nothing of the calls that overlap; `begin_op`
  keeps enough space; nobody sleeps in it for ever. Hard: a crash between any two
  disk writes, also of the recovery; the buffer cache may recycle what is not
  pinned.
* **Buffer cache and disk.** One buffer per block, no buffer in use recycled;
  descriptors neither lost nor shared, and each completion reaches the process
  that waits for it. Together: an array of blocks. Hard: `brelse` reuses buffers
  by age and references, pinned ones must stay; the interrupt races the next request.
* **Inodes.** References are counted right; links and directory entries on the
  disk agree after any crash; an unlinked inode is freed by the last one who uses it, and
  only then. Hard: `iput` gives up `itable.lock` in the middle; `create`, `link`
  and `unlink` change two inodes.
* **Blocks of files.** Whatever is on the disk when the machine stops, a block is
  free or in one place of one file, and no file shows what another one held. Hard: a
  call is cut into transactions, a transaction is shared with other calls, and the
  disk fills or an address is bad in the middle.
* **Pipes and open files.** Bytes arrive once and in order; readers and writers
  see the other end close, however many share it; the page is freed once.
* **Console.** Lines come complete and in order, a full ring loses nothing that
  was accepted, and no reader sleeps on a line that is there.
* **Memory.** A call that fails half-way has given back every page, and no page
  is in two places.
* **`mybash`.** As many children are waited for as were forked, no pipe end stays
  open, and the prompt comes back. A line is understood as it stands or refused, and
  the next one is found, whatever was wrong with it.
* **Allocator.** No memory is lost or given twice, and what is free is found again.
  Hard: the ring begins anywhere, two blocks may be joined at once, and the heap
  has gaps when a program calls `sbrk` itself.
* **Round robin.** Nobody who can run is passed over for long: the property that the
  queues gave up (see the first of "also seen" in section 4).

`PROJECT.json` lists the hazards one by one, at their lines, with the properties
that watch them.

## 2. The modules

```
Fifo         <--implements--  RunQueue    \
                              Boot         |
                              Ticks        > Kernel <- MCKernel   KernelProofs <- TicksProofs, MemoryProofs
                              Memory       |
                              RoundRobin  /
                              Proc         -- MCProc              ProcProofs
Counting     <--implements--  Semaphore <- PingPong \
ByteStream   <--implements--  Pipe <- Files          > User <- MCUser   UserProofs <- FilesProofs
LineInput    <--implements--  Console                |
                              Shell, Parsing, Heap  /
Transactions <--implements--  Log          -- MCLog  \             LogProofs
BlockStore   <--implements--  VirtioDisk <- BufferCache > MCStorage   StoreProofs
                              InodeCalls <- Inodes      |
                              FileBlocks               /
                 MCInodes: what the processes do to inodes, in MCStorage and MCInodeRace
                 MCBoot, MCSemaphore, MCShell, MCInodeRace: the instances of the findings
```

**RunQueue** models one ring with its locks, one memory access a step. `elems`,
`begin` and `size` are the fields of the C structure; `EnqueReserve` is
`enque()` up to `size++`, `EnqueStore` the store of the pointer, `QueueEmpty` the
read of the size without `aux_lock`, `Deque` the critical section of
`deque()`. It implements **Fifo**, a queue without array and locks.
That is what allows Proc to take `enque()` and `deque()` as one step.

**Proc** models `kernel/proc.c` and the sleep lock on several CPUs. Its
variables are the fields of the process table, the queues, who holds each lock,
and for each CPU the stack it is on (`ctx`), the level it scans and the process
it has dequeued. A step is one critical section, except where a lock stays held
while others act: `queue_lock` during a scan and while the scheduler waits for
`p->lock`; `wait_lock` during `exit` and `wait`; the spin lock of the sleep lock;
and `p->lock` from `yield`, `sleep` or `exit` on one stack to the `release` in
`scheduler` on the other, and back. So a context switch is two steps, `Swtch` and
`Dispatch`/`Resume`, with the process already in a queue between them. The loops
of `allocproc`, `wakeup`, `reparent` and `wait` go one entry a step. `CONSTANT
Ops` chooses which system calls the processes of an instance make.

**Boot** models the start of three CPUs down to the words `locked` and `cpu` of
`queue_lock` and `aux_lock`, which are initialised by a running system.

**Ticks** models interrupts: for each CPU the interrupt bit (`sie`), `noff` and
`intena`, for each lock its CPU, and for each stack where it is. `acquire()` is two
steps, `PushOff` and the swap, and a step runs until the next lock is wanted; the
`release()`s in it call `Popped`. `Interrupt` can come wherever the bit is set, on the
scheduler's stack, in a system call or in user space; `ClockIntr` and `Wake` are
CPU 0's part, `Ack` decides whether the process yields or ends, `SRet` restores the
bit. `Leave` and `Resume` are the two halves of `sched()`, with the `intena` that it
keeps on the stack in `saved`. On it run `sleep`, `uptime` and `kill`.

**Memory** models who has which page. A page table is a function from nodes to
pages: the three levels of `walk()` above, the pages of the process below.
Every `kalloc()` of `fork`, `exec` and `sbrk` is a step of its own (`TakeTrapframe`,
`Root`, `Walk`, `SetEntry`, `Alloc`), in the order of the code, and finds a
page or not: `OutOfMemory` and `Fail` undo what that place in the code undoes.
`exec` builds its table under `Local(p)` while the old one stands, and `Commit`
replaces it. What `uvmunmap` and `freewalk` give back is given back in one step,
with their panics as conditions.

**Semaphore** models the table of lab02 one load or store a step, since a
value is written under two different locks. `CONSTANT CPUS` says how many
processes can be inside critical sections at once: a CPU whose process holds a
spin lock has interrupts off. Each process works through a script of calls.
It implements **Counting**, in which each call is one step. **PingPong** gives
the two processes the calls of `user/pingpong.c`.

**Log** models `kernel/log.c`: a step is a critical section of `log.lock` or one
write of a disk block, and `Crash` can come between any two. The buffer cache is
what `bread` would return for a block (`data`), and the references that keep its
buffer (`pins`): `Recycle` gives a block without references the content that the
disk has. `begin_op`, `log_write` and `end_op` are `BeginOp`, `LogWrite` and
`EndOp`; `commit` is `WriteLog`, `WriteHead`, `InstallTrans` and `ClearHead`;
`initlog` is `ReadHead`, `RecoverInstall` and `RecoverClear`. A block contains
the number of the call that wrote it last. It implements **Transactions**: calls
that overlap become permanent at once, a crash goes back to the last such moment,
and the `end_op` that commits returns after it.

**VirtioDisk** models `virtio_disk_rw` with its free descriptors, the two
rings and `virtio_disk_intr`, against a device that takes requests from the ring
and completes them in any order. A section under `vdisk_lock` is one step, a
turn of the handler's loop another. **BufferCache** adds `kernel/bio.c`: `BGet`
with its two passes, `Lock`, `BUnpin` and `Put` (`brelse`, with the move to the
head of the list), and the four ways in which the file system and the log use a
block. Together they implement **BlockStore**: an array of blocks, each for
one process at a time, that nobody changes in between. That is the `data`
and `pins` which Log assumes.

**Inodes** models `iget`, `iput`, `ilock` and `ialloc`, path lookup (`Walking`)
and the calls `open`, `create`, `mkdir`, `link`, `unlink` and `close`, each a
transaction. The table in memory (`itable`), the inodes in the cache (`dinode`)
and those on the disk (`saved`) are separate; the last `end_op` of overlapping
calls copies the second to the third and `Crash` the third to the second.
Three actions stand for one `iput()` (`Put`, `Free`, `Freed`), because it releases
`itable.lock` twice. `InodeCalls` holds the types of an inode and of a call. Once `ilock()`
has met an inode that is not allocated (`Panicked`) only a crash is left. `late` is
bookkeeping: how many entries an inode got in directories already removed.

**FileBlocks** models the blocks under an inode: the bitmap (`used`), the addresses
in an inode and in its indirect block, and contents, once in the buffers (`cache`) and once on
the disk (`saved`). `AllocAddr` is one `balloc()` that `bmap()` makes, `CopyIn` a turn of
the loop in `writei()`, `CopyInFails` and `NoSpace` its two ways to stop early,
`BFree` and `Truncated` are `itrunc()`. `Begin`, `Lock` and `End` are the
transactions into which `filewrite()` cuts a call; the last `End` of overlapping calls brings
to the disk what `log_write()` was told (`logged`), and that only. `Recycle` reads a
buffer again that the log was not told of.

**Pipe** models the handlers of `kernel/pipe.c`, a byte a step where they look
at something that `pi->lock` does not protect. **Files** adds the table of open
files and the descriptors, with `pipe`, `dup`, `close`, `read` and `write`, and what
`fork`, `exit` and `kill` do to them; so an end is shared and closes with the
last of its references. They implement **ByteStream**, in which a reader is told of the
end only when the stream is empty and has no writer.

**Console** models the input ring (`r`, `w` and `e` of the C structure, modulo
`WORD`), the transmit ring and the UART's interrupt, which serves both.
`ReadWaits`, `Copies` and `ReadReturns` are `consoleread()`; `Store` and `Erase`
are `consoleintr()`, which spins for the transmitter with `cons.lock` held. It
implements **LineInput**, in which a line is typed, erased or complete.

**Shell** models `execute_pipeline_rec()` and the loop of `main()`: the local
variables `read`, `fd` and `pids` of the recursion, the descriptors of the shell
(`ends`), and children with the descriptors they inherit. Commands read and write
pipes with `CAP` bytes of room until end-of-file or a broken pipe ends them. A
command can be redirected to files: what cannot be opened leaves the descriptor as it is,
and only the last command redirects its output.

**Parsing** models `parsing.c` and the loop of `main()`. A text is a sequence of
tokens without the blanks; a step is one call of `parser.h` with what the code does with
its answer: `Command` is the beginning of `parse_scommand()`, `Argument` and
`NoArgument` the turns of its loop, `Reject` the error, `Piped` and `LastCommand` the loop of
`parse_pipeline()`, `Garbage` the rest of the line, `Run` the loop of the shell. The
library `parser.o` is described by what it does. `Meaning` says what a line means at
once, without steps, and `LinesUnderstood` compares.

**Heap** models `umalloc.c`. An address counts in headers, so a block of `n` units is `n`
addresses; `ptr` and `size` are the two words of the header at an address. `Nth` walks the
ring from `freep` as both loops do, `Take` is the loop of `malloc()` when it finds a block,
`MoreCore` when it comes round, `Insert` the body of `free()`. What nobody reads any more is
forgotten (`Forget`).

**RoundRobin** models the scheduler of the original kernel: on each CPU `Pass` and `Run` are
the turns of its loop, `Leave` what brings a process back to it. `turns` counts who was run
while somebody waits.

**Kernel**, **User** and **MCStorage** put several modules side by side, for one run each: the
variable `part` says which of them moves, the others stay in their initial
states. Nothing is claimed about the product of their states; where one
module stands on another, the link is the refinement of the abstract module
(RunQueue under Proc, the buffer cache under the log, sleep locks under buffers
and inodes).

## 3. The runs

| Run | Instance | Question |
|---|---|---|
| `kernel` | 3 CPUs, 3 processes, ring of 3; Boot with 3 CPUs; Memory with 2 processes and 8 to 19 pages; Ticks with 2 CPUs and 2 processes; RoundRobin with 2 CPUs and 3 processes | Is the ring a FIFO queue in spite of the unlocked test? Does the late `aux_lock` exclude? Is a page lost where memory runs out? Are interrupts off exactly where they must be, and does a sleeper wake at its tick? Did everybody get a turn before the queues? |
| `lifecycle` | 2 CPUs, table of 3, 3 levels; fork, exit, wait, preemption | Who is in which queue and on which CPU, and who collects whom? |
| `sleepers` | 2 CPUs, table of 3, 3 levels; fork, wait, kill, a sleep lock | Are sleepers woken once, and does the sleep lock exclude? Is the inductive invariant of section 5 (`ProcInv`) true? |
| `compute` | 2 CPUs, table of 3; fork, preemption; fair | Does everybody who computes get the CPU? |
| `programs` | semaphores and `pingpong`, pipes, console, shell and its lines, `malloc` (bounds below); fair | Are calls atomic, bytes and lines in order, is nobody left asleep, is every line understood and all memory accounted for, do the programs end? |
| `log` | 3 processes, 5 blocks, 3 calls of up to 2 blocks, 2 crashes | Are commits atomic, also when recovery crashes; does the space suffice? |
| `storage` | buffer cache on the disk, log, inodes, blocks of files (bounds below); fair | Is the cache an array of blocks? Do links and blocks match after a crash? Does every call return? |
| `boot_queue_lock` | 3 CPUs | Finding: `queue_lock` is initialised while it is held |
| `semaphore_wakeup` | 2 processes, 1 slot, 2 CPUs | Finding: a lost wakeup |
| `semaphore_close` | 2 processes, 1 slot, 1 CPU | Finding: a negative value |
| `inode_orphan` | 2 processes, 3 inodes | Finding: an inode that is neither linked nor open nor free |
| `shell_ends` | one pipeline of three commands | Finding: a pipe end stays open in the shell |

Every property of a passing run has a mutant in `PROJECT.json`, a plausible bug in
the code (a dropped lock, a missing retest, a buffer not pinned) that the
property detects; the mutated definitions stand before the ones they change.

### Why the bounds are enough

* *Three processes, two CPUs (Proc).* The conflicts are between a process on its
  way off a CPU, a CPU that dequeues it, and a third process that wakes, kills or
  collects it: init, a child and a grandchild, or a sibling. Three is also the
  least with which an exiting process leaves a child to init. The theorems
  below hold for any number of either. `Victims` bounds whom `kill` is aimed at;
  in `lifecycle` nobody is killed and in `sleepers` nobody is preempted, because
  both together exceed what can be explored in minutes; the theorems have both.
* *Three levels* are those of `param.h`; `yield` counts to level 2 whatever
  `NPRIO` is, and `ProcAssumption` says so.
* *Ring of three.* It is full, empty and wrapped in the run; at most as many
  processes exist as places, as in the C program (`RingAssumption`).
* *Boot.* One CPU boots, two race. One process beyond init makes the queue
  non-empty.
* *Memory.* `ENTRIES` 3 and `PGSIZE` 2 make a table grow a node with the fourth
  page and a size end inside a page. Machines of 8, 10, 12, 14, 16 and 19 pages put
  the end of the memory at different places of `fork`, `exec` and `sbrk`; on the
  largest, two processes both succeed. Programs of one segment, of two, and one whose segment is
  empty; `sbrk` by 3, -1 and -9; `MaxCalls` 4 bounds the calls.
* *Ticks.* Two CPUs, of which one counts, and two processes: a process goes on on
  another CPU than it left, and both sleep at once. `WORD` 4 and `FirstTick` 3 make the
  counter wrap at the first tick; `MaxTicks` 2 bounds the interrupts of CPU 0, while
  those of CPU 1 are not bounded. A sleeper is killed; sleeps of 1, 2 and -3 (which is 1, unsigned).
* *Semaphores.* Two sleepers and one `up`, two ids and two slots, and a full table
  all occur. The scripts have up to three calls; `pingpong` plays four rounds.
* *Pipes.* Three processes, one pipe page, a ring of 2 and counters modulo
  4, so that both wrap; transfers up to 3 bytes exceed the ring; three descriptors and
  three files, so that both tables fill; one `kill`. The three scripts: a writer
  and a reader that may each keep the end they do not use; two writers and a
  reader; a program at the limits of its tables.
* *Console.* An input ring of 2 and a transmit ring of 1 with indices modulo 4:
  four keys wrap around, fill the ring and are erased again. Two readers, or a reader that is killed
  and a writer.
* *Shell.* Pipelines of up to three commands (the recursion goes one deep beyond
  its base), foreground and background, four children, room for one byte, two
  failures of `fork` or `pipe` anywhere. Five sessions of two lines: a writer without end and
  a reader that does not read, redirected or not; a background job before a line; two chains of
  three. In one of these the first command writes without end, and the shell hangs (finding 5):
  it is the exception that `AllFinish` states, `WaitsForItself`.
* *Lines.* Every text of up to four tokens, so that every sign stands before, after and between
  words and ends of lines; and every three tokens behind a word, before a second line.
* *Allocator.* Nine units of memory, at least three from the kernel at a time, requests of
  one, two and four units: smaller, larger and equal to what is there. Up to three blocks
  at once; one call of `sbrk` by the program makes a gap.
* *Round robin.* Two CPUs on a table of three: one process waits while the others take turns on
  two CPUs. Nothing is bounded besides; the bound of `TakesTurns` is the number of CPUs.
* *Buffer cache and disk.* Four blocks for three buffers, so that one is recycled
  under pressure while another is pinned; seven descriptors, enough for two of three requests with
  one left over, as 8 leave two in the code.
* *Inodes.* Two processes, four inodes, four slots of the table, one crash, and a
  `dirlink` that may fail; ten pairs of scripts (a file removed while open and made
  again, two names, a directory that goes while it is looked into, no inode left, a name in use).
  Four of them are there for the exceptions that `LinksMatch` and `NoPanic` state, and reach them: `create`,
  `mkdir` and `link` in a directory while it is removed; a path with `..` while both directories go.
* *Blocks of files.* Two files and three open files (two of one file), four data
  blocks of two bytes, one direct and two indirect addresses: a file can have every
  kind of block and both together fill the disk. With `MAXOPBLOCKS` 6 a part of a write is
  one block's worth, which touches two if it is not aligned. Three pairs of
  scripts, a bad address at any place, one crash.
* *Log.* `LOGSIZE` is twice `MAXOPBLOCKS` and not three times, so two calls
  overlap and a third sleeps for space. Two calls of two blocks fill four of the
  five blocks that fit beside the header; with five blocks in the file system a
  third call would exceed them, as the mutant of `NoPanic` shows. Two crashes are
  one in a commit and one in the recovery. `MaxOps` and `MaxCrashes` are the
  bounds on counters. `storage` has calls of one block and one crash, for liveness.

Symmetry is used among the CPUs and processes of RunQueue in `kernel` and among
the blocks of `log`, whose modules do not distinguish them, and in no run
of a liveness property. Deadlock is checked except where the system may really stop:
when every script is at its end or asleep (`programs`, `storage`) and when
the bound on calls is reached (`log`). In `kernel` only a panic of Boot and
processes with nothing more to do may stop; a stutter says so explicitly.

### Fairness

* Proc: weak fairness, for each CPU, of its scheduler and context switches, of
  going on with a system call that was entered, and of the timer interrupt
  (`start.c` programs it again and again). A spin lock that stays free is taken;
  no fairness makes a process *enter* a call.
* Semaphores and shell (`programs`), buffer cache, log, inodes and blocks (`storage`):
  only that *somebody* goes on when somebody can, one weak fairness over all
  processes, interrupts and devices. A CPU with something to run runs
  it, the device answers and Linux schedules its processes; that is less than
  fairness to each of them. In the log it covers the processes inside a call and the
  recovery: nothing makes a process call, or the machine crash. It suffices
  because the scripts are finite: the properties say that no process is left
  asleep and that no retry goes in circles.
* Pipes, console, lines, allocator, memory, interrupts, round robin: none. A program may stop reading for ever; the safety
  property `NoMissedWakeup` says that nobody sleeps on what is there.

## 4. Findings

1. `boot_queue_lock`: `scheduler()` initialises `queue_lock` on CPU 0 (`proc.c:466-468`)
   after `main()` has set `started` (`main.c:33`). Another CPU can hold it, and the
   assertion in its `release()` then fails (`spinlock.c:48-49`). The window is short,
   and `aux_lock`, initialised just as late, is safe only because CPU 0 queues
   the first process before it (`kernel`, `AuxExclusion`).
2. `semaphore_wakeup`: `decrease()` tests the value and sleeps under the lock of
   the slot, `sem_up()` adds and wakes under `general_lock`. On two CPUs the
   wakeup can come between test and sleep (`semaphore.c:33`). On one CPU it cannot,
   because interrupts are off: the semaphores of `programs` hold there only. The
   Makefile starts three CPUs.
3. `semaphore_close`: a process that `sem_close()` wakes finds the -1 of the closed
   slot and decrements it (`semaphore.c:97`); lab02's README says that `decrease`
   keeps the value from becoming negative. The slot, neither open nor -1, is then
   never reused.
4. `inode_orphan`: `iput()` frees an unlinked inode with `itable.lock` released and
   counts its own reference until afterwards (`fs.c:341-360`). Another process can allocate
   the same inode in between and find `ref` 2 when it gives it up; then neither
   frees it, and an inode without link or reference stays allocated.
5. `shell_ends`: in a pipeline of three or more commands the recursion overwrites
   `read` without closing the end it held (`execute.c:130`). The shell, and every
   later command, keeps it open. A test of the repository asserts that both ends
   are closed; it has pipelines of two commands. So `yes | true | cat` hangs: `yes` has closed
   its own copy of the read end, `true` and `cat` end, but the shell has one left, so that
   `yes` gets no SIGPIPE and waits for room while the shell waits for `yes`. That is
   the exception in `AllFinish`; with two commands, or with the endless writer in the
   second place, the shell comes back.

Also seen, without a run of its own:

* Processes that sink to the last level starve while others keep sleeping and
  waking (`proc.c:479`). lab03's README admits it, so nothing contradicts it;
  `EverybodyRuns` is stated for processes that only compute.
* `mkfs` makes `nlog` equal to `LOGSIZE`, header included, so the log holds
  `LOGSIZE - 1` blocks, although `param.h` calls `LOGSIZE` the "max data blocks in
  on-disk log" and `begin_op` reserves as if there were `LOGSIZE`. Three calls that
  each changed `MAXOPBLOCKS` blocks would panic in `log_write`. The calls of this
  kernel change fewer (`filewrite` writes at most three blocks' worth of bytes,
  which touches four data blocks, an indirect block, the bitmap and the inode);
  `LogAssumption` states `OpBlocks < MAXOPBLOCKS`, and under it the run finds
  `NoPanic` to hold.
* `kill()` queues its victim in level 0 without changing its priority, and `fork`
  overwrites the priority that `allocproc` gave the child; `QueueOfPriority` says
  exactly when queue and priority agree.
* `wait()` tests `killed` before it sleeps, without `p->lock`: a process
  killed in between sleeps until its next wakeup.
* Path lookup through `..` can meet a directory that was just freed and reach
  `panic("ilock: no type")` (`fs.c:315`): a process that has come to `a/a` looks up `..`
  after another one has removed `a/a` and `a`. A script of `storage` does it; `NoPanic` says
  that only a call with `..` in its path gets there. Nothing in the repository
  promises more.
* `create()` and `link()` may put an entry into a directory that has just been
  removed; the inode keeps a link count of 1 and no name. Scripts of `storage` do it;
  `LinksMatch` says that `nlink` exceeds the number of links only by such entries, and is never below it.
* `virtio_disk_rw()`: two processes that wait while one or two descriptors are
  free wake each other in turn, since `free_desc()` wakes whoever waits after a
  failed `alloc3_desc()`. It ends with the next completed request.
* `mybash`: after a failed `fork()` the child's pid is -1 and `waitpid(-1)` may wait for a
  background job; after a failed `pipe()` the descriptors are not
  initialised.
* `writei()`: when `either_copyin()` fails in the middle of a block, what it has copied
  stays in the buffer and is not logged (`fs.c:522-525`), although `bio.c:8-9` asks for a
  `bwrite` after a change. Readers see it until the buffer is recycled. On the
  disk nothing is wrong (`BlocksAccounted`).
* `sleep(-n)` compares unsigned (`sysproc.c:60`) and sleeps for almost 2^32 ticks.
* Pipes: a killed writer returns without waking the readers; a byte whose
  `copyout()` fails is lost (as in `consoleread()`); a `kill` between the test of
  `killed()` and `sleep()` leaves the process asleep until the next wakeup.
* `mybash`: `ls < | wc` runs `ls`; a redirection without a file name is dropped when the command
  ends there, although `parsing.h` promises NULL on errors. The output redirection of a
  command that is not the last is ignored (`execute.c:77`), and a file is written over but not
  shortened (`execute.c:23`). A test expects `parse_pipeline` to abort at the end of the input; it
  returns NULL.
* `malloc()` of 2^31 bytes or more: `sbrk()` takes an `int`, so that the
  heap does not grow by what `morecore()` then frees.
* Memory: `sbrk(-n)` with `n` beyond the size succeeds and does nothing; a program
  whose first segment is empty is refused, since `uvmalloc()` returns its size, 0.

## 5. Proofs

| Module | Theorem | What it states of every instance |
|---|---|---|
| KernelProofs | `TypeCorrect`, `RingCorrect` | `TypeOK` of the ring, and the inductive `RingInv` |
| | `QueueNeverPanics` | `NeverPanics` |
| | `RingIsFifo` | the ring implements Fifo, step by step |
| | `AuxLockExcludes` | `AuxExclusion`, by the inductive `BootInv` |
| | `RoundCorrect`, `EverybodyHasTurns` | the inductive `RoundInv`; `TakesTurns` |
| | `InterruptsAreOff`, `SleepEndsAtItsTick` | `InterruptsMatch`, `SleepsExactly` |
| | `EveryPageAccounted` | `PagesAccounted` |
| TicksProofs | `TicksInvariant` | `TypeOK` and the inductive `TicksInv` |
| MemoryProofs | `PagesCorrect` | `PagesAccounted`, by the inductive `MemoryInv` |
| ProcProofs | `TypeCorrect`, `DispatchCorrect` | `TypeOK`, and the inductive `DispatchInv` |
| | `OneCpu`, `QueuedExactlyOnce`, `FreedOffCpu` | `OneCpuPerProcess`, `QueuedOnce`, `FreedIsOffCpu` |
| | `LifeCycleFollowed` | the action property `FollowsLifeCycle` |
| | `PriorityOfQueue` | `QueueOfPriority` |
| | `ProcCorrect` | the inductive `ProcInv` |
| | `OneInside`, `WakeupReachesAll` | `MutualExclusion`, `NoLostWakeup` |
| | `ExitIsSeen`, `ParentsAlive` | `NoLostExit`, `NoDeadParent` |
| | `SchedAssertions` | `SchedHoldsOnlyPlock` |
| FilesProofs | `FilesInvariant`, `FilesTypes` | of Files: the inductive `FilesInv`; `TypeOK` |
| | `ReferencesCounted`, `EndsAndPages` | `RefsMatch`, `EndsMatch` |
| | `NoWakeupLost` | `NoLostWakeup` |
| | `StreamOfBytes` | pipes implement ByteStream, step by step |
| UserProofs | `SemaphoresCorrect` | on one CPU, `TypeOK` and the inductive `SemInv` |
| | `SleepersAreWoken` | on one CPU, `NoLostWakeup` |
| | `SemaphoresCount` | on one CPU, the table implements Counting, step by step |
| | `PingPongAlternates` | `Alternates`, on any number of CPUs |
| | `PipesAreStreams`, `PipesAreCounted` | of User: `ImplementsStream`; the half of `ResourcesAccounted` that is about pipes |
| | `ConsoleCorrect`, `ConsoleReadsLines` | the inductive `ConsoleInv`; `ImplementsLines` |
| | `NobodyOversleeps` | `NoMissedWakeup`: semaphores, pipes and the console |
| LogProofs | `LogCorrect` | `TypeOK` and the inductive `LogInv` |
| | `LogNeverPanics`, `PinsBalance` | `NoPanic`, `PinsBalanced` |
| | `LogIsTransactional` | the log implements Transactions, crashes included |
| StoreProofs | `DriverCorrect` | the inductive `DriverInv` |
| | `RequestsStayAccounted` | `RequestsAccounted` |
| | `CacheCorrect`, `StoreCorrect` | the inductive `BlocksInv` and `StoreInv` |
| | `EveryBlockHasOneBuffer` | `OneBufferPerBlock` |
| | `CacheIsAStore` | the cache over driver and disk implements BlockStore |

So everything the runs say of the run queues, of the process table, of the boot locks, of memory, of
interrupts and the clock, of the semaphores, of pipes and the file table, of the console, of the log, of
the buffer cache with its disk and of the round-robin scheduler, liveness apart, is proved for any number of
CPUs, processes, levels, queue places, pages, semaphores, files, pipes, blocks, log blocks, buffers, descriptors and ticks.

The theorems about the parts of Kernel are of `KernelSpec`, those about pipes and the console of `UserSpec`, the
specifications that the runs check. Those of the clock, of memory and of pipes are proved in modules of
their own and reach Kernel and User through an instance of the whole proof module:
the parts start as their modules say and each step of Kernel is a step of one part or leaves it alone.

### Assumptions

They are the named `ASSUME`s of the modules; TLC evaluates each on a run.

* `RingAssumption`: the ring has a place for every process (`NPROC` both in `queue.c` and
  `proc.c`).
* `ProcAssumption`: the table has an entry for init, at least three levels; `None` and the
  sleep lock's channel are not processes; nobody kills init, whose exit panics.
* `LogAssumption`: the sizes of `param.h` and `mkfs.c`, that a call changes fewer blocks than
  `MAXOPBLOCKS` (section 4 says why this is more than `begin_op` asks for), and that there are
  finitely many processes.
* `DiskAssumption`: a chain of three fits into the descriptors (`NUM >= 3`), there is a buffer, finitely many
  processes, none with the number 0.
* `KernelAssumption` is about the parts of Kernel:
  * `RoundRobinAssumption`: a table with entries and finitely many CPUs.
  * `BootAssumption`: one of the CPUs boots, and there is room for a process.
  * `MemoryAssumption`: pages and tables have entries; the machine has the seven pages at least that the first process
    takes, and fewer than there are below the trap frame (in the code 128 MB, far below `MAXVA`); a program's
    segments have sizes. It is a hypothesis of `PagesCorrect`, and of nothing else in MemoryProofs.
  * `TicksAssumption`: the scripts are sequences of calls, `kill` gets the pid of a process that
    exists (for another one `kill()` returns -1 and changes nothing), there are two processes at least, init and the
    shell, and the bound on ticks is below the word size: the counter passes its end at most once, and does not
    come all the way round, which would take 2^32 ticks. Nothing is assumed of the counter's first value or of the argument of `sleep`.
* `OneCpu` is the hypothesis of what is proved of the semaphores: one CPU (without it, finding 2 refutes the
  statement), and programs that are `Orderly`, in which a process closes only what nobody else takes from
  (without it, finding 3). `PingPongAlternates` has as its only hypothesis that the programs are pingpong or
  keep to other ids than pingpong's; it does not need one CPU, because the value that a player adds to is 0 and nobody takes from it.
  The run `programs` evaluates both hypotheses (`UserAssumption`).
* `PipeAssumption`, `FilesAssumption`: the tables and the ring have places, and the counters' word size is a
  multiple of the ring's and larger (2^32 and 512 in the code). They are the only hypothesis (`Dimensions`) of
  FilesProofs; scripts, the number of kills and the order of the steps are free.
* `ConsoleAssumption`: the same of the input ring (128 in the code); the transmit ring has a place; a
  program is a sequence of reads and writes of any lengths.
* `CacheAssumption` is about what the callers of `bio.c` do, which `bio.c` itself cannot see. It says of
  each set of scripts that a process pins a block only when it is not pinned by itself and unpins
  only what is (`log_write` pins what is not in the log yet, `install_trans` unpins what is), and
  that at no moment the blocks called for and the pinned blocks together are more than `NBUF`.
  The second is a dimensioning: `param.h` sizes `NBUF` and the log alike with
  `MAXOPBLOCKS*3`, and nothing in the code enforces the sum: the log may pin up to
  `LOGSIZE - 1` blocks while others read. Where it fails, `bget` panics (`bio.c:88`), so
  `EveryBlockHasOneBuffer` is the statement that there is no other reason for that panic.
  In the scripts a process unpins what it pinned itself; a commit that
  unpins what another call has logged is in Log, where `PinsBalance` is proved.

### Arguments

An invariant that the runs check is seldom inductive. Each proof has a
strengthening, a lemma per action that keeps it, and lemmas on the operators that several
actions use.

**The ring.** `EachOnce`: nobody is twice in the ring, in the ring and in a CPU's hands, or in two
CPUs' hands. So whoever is to be queued finds a slot (`RoomLeft`, a pigeonhole
argument), and the slot that `EnqueStore` fills is outside of what `deque` moves. `SizeSeen`: what the
unlocked `queue_empty` saw stays true, because only the holder of `queue_lock` takes a process
out. In the refinement `EnqueStore` is the abstract `enque` and `Deque` the abstract `deque`;
all other steps stutter.

**Dispatching.** `OneCpuPerProcess` is not inductive: that a dequeued process is
on no other CPU follows from where it was before. Likewise `QueuedOnce`
depends on who may change a state. `DispatchInv` adds what the code relies on:

* `ScansLocked`: a CPU that has dequeued a process holds `queue_lock` and is on its
  own stack, so it hands the process to nobody else;
* `LockedOnItsCpu` and `OnCpu`: a `p->lock` that is held over a context switch
  belongs to the CPU that is on the stack of `p`, and a process on a CPU is RUNNING, or is
  on its way off *with its lock held*. So a scheduler that has dequeued `p` and
  acquires `p->lock` knows that the former CPU has left the stack;
* `OwnChild`: the entry that `fork` has allocated stays USED and belongs to one
  `fork` while its lock is released twice.

The proof has a lemma per action (`YieldKeeps`, `WakeupKeeps`, ...), over lemmas on what
`enque` and `deque` do to membership and uniqueness in the queues (`EnqueEffect`,
`DequeEffect`) and on who can be on a CPU (`RunningAlone`, `FreeIsOffCpu`).
Actions that touch neither queues nor states nor locks of processes are proved
together (`QuietMoveKeeps`).

**Locks and sleepers.** `LockInv` says who is between which `acquire()` and `release()`:
a lock that is held across steps is held by the CPU that runs a process in its
section, and by no other (`HeldIn`). Loops over the table begin at its first entry
(`CursorsReset`). On this stand three arguments about what a loop has still to pass:

* `SleepersHaveWaker`: who sleeps on a sleep lock without owner is at or behind the cursor
  of a `wakeup()` under way;
* `ParentsLive`: the children of a process in `reparent()` are at or behind its cursor, and
  nobody has a parent that is beyond it;
* `WaitersTold`: the parent of a zombie does not sleep in `wait()`, except for init, which
  `reparent()` is about to wake; the parent of a process in `exit()` does not sleep once
  `wakeup()` has passed it; and a scan of `wait()` has not passed a zombie.

Each property is `ProcInv` at a moment when its lock is free. TLC checks `ProcInv` in
`sleepers`.

**The log.** `Exclusive`: one process commits, and while it does nobody is in a
call. `Reserved` counts places: what is logged, and what each open call may still
add (`Unused`, pairs of a call and a number), fits; an added block moves one place from the
second to the first, and a call that enters brings `MAXOPBLOCKS - 1`. `Walks` keeps the loops over the
header inside of it. `Pinned` says which blocks are pinned at every turn of
a commit, `Copied` which of the four places (cache, home, log, header in memory and on disk) agree in each
of its phases and in each phase of the recovery; it is why a crash at any turn is either before the
commit or after it. In the refinement `BeginOp`, `LogWrite`,
`EndOp` and `EndCommit` are the abstract `Begin`, `Write`, `End` and `Return`; everything becomes
permanent in `WriteHead`, by one write of the header; the rest of commit and recovery stutters.

**Turns.** A CPU stands at the entry that it looks at next. `PassedOver`: for a waiting `p` and any `q`, the turns
that `q` has had, and the CPUs that find `q` before `p` on their way round, are together at most as many
as the CPUs. A CPU that runs `q` leaves the second number as it adds to the first, and
no CPU comes back to it without finding `p`.

**Interrupts.** `HeldExactly`: between two steps a CPU holds at most one spin lock, and its place in the code says
which one. So `noff` is the number of locks held and the one it spins for (`Bits`), and `intena` is
the bit as the outermost `acquire()` found it: on in a system call, off in a handler. A
process that switches away takes `intena` along (`saved`), since it belongs to the thread and
not to the CPU that it comes back on: on after `sleep()`, off after the `yield()` of a handler. `OnStack` and
`Apart` say that the process that a scheduler switches to is the one whose lock it holds and is
on no other CPU.

**The boot locks.** `BootFirst`: until CPU 0 has queued the first process, which initialises `aux_lock`, the
others wait for `started`. So nobody initialises the lock while somebody is between its `acquire()` and the end of
its `release()` (`AuxLocked`), although nothing in `queue.c` sees to it.

**Memory.** `MemoryInv` has every page free or at exactly one address: a trap frame, the page that a loop has
taken and not mapped yet, or a node of a table that is not one of the two that all tables share
(`HeldBy`, `Accounts`). `Where` says whose table a call works on, `Built` what a table under construction has
at each place of `fork` and `exec`, `Counted` how far the loop is: a table
that a failure gives back has exactly the pages `0..a-1`, so `uvmunmap()` finds each of them
mapped, and `freewalk()` finds none left. What `OutOfMemory` frees is then what the call took and no page of another table.

**Semaphores.** Who has interrupts off has the only CPU (`Alone`), and a lock has a holder exactly
between its `acquire` and `release` (`Locked`). So a value that was loaded is the value until the store (`OfSlot`),
and who sleeps has found 0 and nobody added since, or the `wakeup()` is under way (`Sleepers`). In the refinement
each of the four calls is abstract at the step that stores the value; every other step stutters.

**Pipes and files.** `Counted`: the references of a file are the descriptors and calls that have it (`InFds`,
`InCalls`, two sets of pairs that each action changes by one element or, in `fork`, by one for each descriptor).
`Ends`: an end is open if and only if one file stands for it or one process is closing it, never both and
never two; so whoever reads has a reference (`Works`), the end stays open under it, and `Page` says that
the last to close frees the page, once. `Sleeps`: a sleeper's reason holds, unless its waker has
`pi->lock` and has not got to its `wakeup()`. For the refinement, `Rings` adds that the two
counters are at most `PIPESIZE` apart modulo the word; as the word is a multiple of `PIPESIZE`, the place of a byte
in the ring does not change when a counter wraps. `WriteByte` is the abstract `Put`, `ReadReturns` is `Take`.

**The console.** `Indices`: from `r` round to `w`, and from there to `e`, is at most `INPUT_BUF_SIZE` characters,
counted modulo the word. With the arithmetic of the pipes (an instance of FilesProofs with the console's sizes)
a character that is stored, erased or read changes the typed line by one at its end, or takes a prefix of it.
How many characters a reader copies is the least of four numbers: what is there, what is asked for, and the
places of the first end of line and the first end of file (`CopiedIs`).

**pingpong.** The two scripts say how often a player has had its turn. `sem_up` by a player comes when both values are 0:
its own was just taken and the other's is added only by itself. So of the two calls and the two
values, exactly one has the turn, wherever the two processes are interrupted, and an unlocked store overwrites nothing.

**The clock.** `ticks` is its first value plus the ticks there were, modulo the word, and
`ticks0` is an earlier reading; so the unsigned difference in `sys_sleep` is the number of
ticks in between, even when the counter wraps (`Readings`). Nobody is between the test and
`sleep()` when the clock ticks, because `tickslock` is held there. A sleeper that is due is
at or behind the cursor of the `wakeup()` of that tick, which passes the entries in order (`NextIs`).

**The driver.** `Chained`: every descriptor is free or in one chain of three. `Awaited`: a chain
belongs to one buffer and to a process that waits for it. `Rings`: the two rings hold exactly the
requests of the busy buffers, once each, wherever the device takes one out. `Signalled`: an
entry of the used ring has its interrupt pending or handled, and who sleeps for a buffer
sleeps for a busy one.

**The cache.** `Counted`: `b->refcnt` is the number of processes between `bget` and `brelse` on
the buffer plus the number of those that have pinned its block. So a victim of `bget` (no references)
is nobody's, and `Unique` and `Engaged` stay true. If there were none, every
buffer would be somebody's, and so would the block asked for: more than `NBUF` blocks
(`CacheAssumption`).

**The array of blocks.** A block's content is its valid buffer, else the disk; its user is whoever
comes back from `bread`. `Clean`: an unpinned valid buffer that is not on its way to the disk has what the disk
has, so recycling it loses nothing. `Transferred`: a request that the device is done with has been
carried out. `Directed`: valid buffers are written, invalid ones read. `Lock` of a valid buffer and
`Complete` of a read are the abstract `Get`; `ChangeAndWrite`, `ChangeAndPin` and the `ReleaseSleep` of a
reader are `Use`; every other step of the processes, of the device and of its interrupt stutters.

### Only model-checked

* Liveness under fairness and ENABLED are outside the prover's reach: `EverybodyRuns`,
  `AllFinish`, `AllCallsReturn`.
* Shell, Inodes and FileBlocks have no theorem: `NothingLeft`, `CountsMatch`, `NoPanic` of `storage` and
  `BlocksAccounted` hold on the instances above; section 7 says which come next.
* `LinesUnderstood` compares a loop with a definition by recursion over the line, and
  `HeapAccounted` follows a ring of any length: both are inductions over data, for
  which the library's theorems cannot be used here.

No module declares a RECURSIVE operator, so none is closed to proofs.

## 6. What is abstracted, and what is not modelled

* Proc: pids, names and the working directory. A process is its table entry, so
  overflow of `nextpid` does not show. Its memory and its files are in the modules of
  their own.
* Weak memory: `__sync_synchronize()` and the atomic swap of `acquire` are taken
  to work.
* Semaphore: `general_lock` is initialised by whichever process finds `lock_set`
  0, as in the code; what a second initialisation would break is the matter that
  Boot checks for `queue_lock`.
* Disk: a block is written entirely or not at all. In Log writes come in the
  order of `bwrite`, which waits for the device; in VirtioDisk requests of
  several processes complete in any order. The device reports no error.
  A block is a call's number in Log and a bit in BufferCache.
* Inodes: absolute paths only (no `idup` of a current directory, no `chdir`), files
  and directories but no devices. Freeing the blocks is one step there. A full
  inode table, where `iget` panics, is a step that cannot be taken: `AllCallsReturn`
  would show it.
* FileBlocks: one block of bitmap, one inode in a block; a byte tells whose it is,
  and a block of a directory is one like any other. The files exist and stay; a crash ends the call that was under way.
  The log's space is the matter of Log.
* Ticks: `aux_lock`, and `p->lock` where `killed()` and `kill()` only look at an entry, are taken inside a
  step; queues have no levels; of `exit()` only the end, whose rest is in Proc. Device
  interrupts, which neither count nor yield, are left out. A system call is one of three.
* Files: the files are pipes. A call whose descriptor or table entry is missing
  returns -1 and changes nothing (`Refused`).
* Console: of the echo and of output only the amount; a receive register of one
  character; no `^P`, which prints a table.
* Memory: what pages hold, permissions, `copyin` and `copyout`, and the kernel's own
  page table. The order of the free list does not matter to any property.
* Shell: no internal commands; of files only whether they can be opened, and
  one that is read is empty; a pid is not used again.
* Parsing: blanks, and which word it is, unless it is `exit`; `cd` and `help`.
* Heap: what memory holds besides headers, requests whose size overflows.
* RoundRobin: `p->lock`, which is held from one stack to the other, so that a change of state is one
  step; who waits for what, hence a `wakeup()` of anybody.

Not modelled, and why:

* The trap frame, faults of user programs and `trampoline.S`: one process and one CPU.
* Devices as files (`devsw`), `mknod`, `chdir`: they add a pointer to what Files and Inodes have.
* Machine start, `plic.c`, `printf.c`, `string.c`, `virtio_disk_init`: they
  program devices or copy bytes and have no protocol of their own.
* Argument fetching (`argint`, `argaddr`, `fetchstr`), `fstat`, `getpid`: no
  shared state.
* `mybash`'s `command.c` and `strextra.c`, beyond what a command and a pipeline are:
  sequential code over a library's lists of strings. Of `builtin.c` only what ends the
  shell.
* The exercises, the first draft of the semaphores, the earlier copy of
  `mybash`, the measurements of the two schedulers: superseded or
  independent of the laboratories' results.
* The user programs of xv6 (`usertests.c`, `sh.c`, `grind.c`, ...), which are test
  drivers of the teaching kernel, and three more copies of that kernel. They
  are most of the lines of the repository: what a module says of one copy of
  `fs.c` holds for the other three, and is mapped to one.

## 7. Plan

Done, in the order of importance: the run queues, processes and scheduler, the
semaphores, boot, the log, then the disk with the buffer cache, inodes, pipes
with the file table, the console, memory, the shell, the blocks of files,
interrupts with the clock, and the lines of the shell, the allocator and the
scheduler that the queues replaced. What section 6 lists stays out.

Next, to prove:

1. Inodes: `RefsMatch`, by counting references as `Counted` does in FilesProofs.
2. FileBlocks: `BlocksAccounted`, over the disk and the cache.
