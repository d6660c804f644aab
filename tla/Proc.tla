-------------------------------- MODULE Proc --------------------------------
(***************************************************************************)
(* The process table, the MLFQ scheduler and the sleeping lock of the      *)
(* kernel in lab03/so22lab3g02/final (kernel/proc.c, kernel/sleeplock.c):  *)
(* how a process is created, dispatched, preempted, put to sleep, woken,   *)
(* killed, turned into a zombie and collected, on several CPUs.            *)
(*                                                                         *)
(* A step is one critical section of a p->lock, of wait_lock or of         *)
(* aux_lock (module RunQueue justifies taking enque() and deque() as one   *)
(* step each), except where a lock stays held while other CPUs can act:    *)
(* queue_lock during a scan, wait_lock during exit() and wait(), a sleep   *)
(* lock's spin lock during acquiresleep() and releasesleep(), and p->lock  *)
(* across the two halves of a context switch.                              *)
(*                                                                         *)
(* Not here: memory, open files and the working directory of a process,    *)
(* and the numbers handed out as pids (a process is its table entry).      *)
(***************************************************************************)
EXTENDS Integers, Sequences, FiniteSets

CONSTANTS
  CPUs,        \* the CPUs, each in scheduler() or in a process
  NPROC,       \* entries of the process table
  NPRIO,       \* levels of the MLFQ, 0 is served first
  Ops,         \* what the processes of an instance do, see UserCalls
  Victims,     \* the processes that kill() is aimed at
  SleepChan,   \* the address of the sleep lock, used as a channel
  None         \* no process, no CPU, no channel

UserCalls == {"fork", "exit", "wait", "kill", "lock", "yield"}

Procs == 1..NPROC          \* &proc[0] .. &proc[NPROC-1]
Levels == 0..(NPRIO - 1)
INIT == 1                  \* initproc: userinit() gets the first entry

\* yield() lowers a process as far as level 2 whatever NPRIO is.  init
\* panics the machine when it exits, so nobody kills it here.
ASSUME ProcAssumption ==
  /\ NPROC \in Nat /\ NPROC >= 1
  /\ NPRIO \in Nat /\ NPRIO >= 3
  /\ Ops \subseteq UserCalls
  /\ Victims \subseteq Procs \ {INIT}
  /\ None \notin Procs \cup CPUs \cup {SleepChan}
  /\ SleepChan \notin Procs

VARIABLES
  state,       \* p->state
  priority,    \* p->priority
  chan,        \* p->chan; the channel of wait() is the process itself
  killed,      \* p->killed
  parent,      \* p->parent
  pc,          \* where each process is in the kernel
  cur,         \* its cursor in a walk over proc[], or the child it makes
  wcur,        \* its cursor in wakeup()
  queues,      \* priority_queues, the oldest entry first
  plock,       \* the CPU that holds each p->lock
  queue_lock,  \* the CPU that holds queue_lock
  wait_lock,   \* the CPU that holds wait_lock
  spin,        \* the CPU that holds the spin lock of the sleep lock
  owner,       \* the process that has the sleep lock
  ctx,         \* the process on whose stack each CPU runs, or None: its own
  lvl,         \* scheduler(): the level it looks at
  picked       \* scheduler(): the process it has dequeued

entry == <<state, priority, chan, killed, parent>>
cursors == <<cur, wcur>>
local == <<pc, cursors>>
services == <<wait_lock, spin, owner>>
cpu == <<ctx, lvl, picked>>
scheduling == <<queue_lock, cpu>>
vars == <<entry, local, queues, plock, services, scheduling>>

States == {"UNUSED", "USED", "SLEEPING", "RUNNABLE", "RUNNING", "ZOMBIE"}

\* Inside wakeup(), by caller.
Waking == {"wake_init", "wake_parent", "wake_lock"}

\* No spin lock is held here: the timer can interrupt and yield() run.
\* (Mutant: interrupts stay on while wait() holds wait_lock.)
Interruptible_InWait == {"user", "alloc", "fork_parent", "fork_queue",
                         "critical", "wait_relock", "lock_relock", "wait_scan"}
Interruptible == {"user", "alloc", "fork_parent", "fork_queue", "critical",
                  "wait_relock", "lock_relock"}

Steps == Waking \cup Interruptible \cup
  {"reparent", "zombie", "exited", "wait_scan", "wait_sleep",
   "lock_test", "lock_sleep", "unlock"}

TypeOK ==
  /\ state \in [Procs -> States]
  /\ priority \in [Procs -> Levels]
  /\ chan \in [Procs -> Procs \cup {SleepChan, None}]
  /\ killed \in [Procs -> BOOLEAN]
  /\ parent \in [Procs -> Procs \cup {None}]
  /\ pc \in [Procs -> Steps]
  /\ cur \in [Procs -> Procs]
  /\ wcur \in [Procs -> Procs]
  /\ queues \in [Levels -> Seq(Procs)]
  /\ plock \in [Procs -> CPUs \cup {None}]
  /\ queue_lock \in CPUs \cup {None}
  /\ wait_lock \in CPUs \cup {None}
  /\ spin \in CPUs \cup {None}
  /\ owner \in Procs \cup {None}
  /\ ctx \in [CPUs -> Procs \cup {None}]
  /\ lvl \in [CPUs -> Levels]
  /\ picked \in [CPUs -> Procs \cup {None}]

-----------------------------------------------------------------------------
\* CPU c executes process p outside a context switch.
Runs(c, p) == ctx[c] = p /\ plock[p] = None
At(c, p, step) == Runs(c, p) /\ pc[p] = step

\* When acquire() returns, on each lock.  (Mutants: the code without it.)
PlockFree_Unlocked(q) == TRUE
PlockFree(q) == plock[q] = None

WaitLockFree_Unlocked == TRUE
WaitLockFree == wait_lock = None

SpinFree_Unlocked == TRUE
SpinFree == spin = None

QueueLockFree == queue_lock = None

\* A process that is not killed enters a system call of the instance.
Call(c, p, op) == op \in Ops /\ At(c, p, "user") /\ ~killed[p]

Goto(p, step) == pc' = [pc EXCEPT ![p] = step]

\* Processes change their place in the queues only here and in Scan.
Enque(l, p) == queues' = [queues EXCEPT ![l] = Append(@, p)]

HasKids(p) == \E q \in Procs : parent[q] = p

\* The table after userinit(): init waits in queue 0, with the priority
\* that allocproc() gave it.
Init ==
  /\ state = [p \in Procs |-> IF p = INIT THEN "RUNNABLE" ELSE "UNUSED"]
  /\ priority = [p \in Procs |-> IF p = INIT THEN NPRIO - 1 ELSE 0]
  /\ chan = [p \in Procs |-> None]
  /\ killed = [p \in Procs |-> FALSE]
  /\ parent = [p \in Procs |-> None]
  /\ pc = [p \in Procs |-> "user"]
  /\ cur = [p \in Procs |-> 1]
  /\ wcur = [p \in Procs |-> 1]
  /\ queues = [l \in Levels |-> IF l = 0 THEN <<INIT>> ELSE << >>]
  /\ plock = [p \in Procs |-> None]
  /\ queue_lock = None
  /\ wait_lock = None
  /\ spin = None
  /\ owner = None
  /\ ctx = [c \in CPUs |-> None]
  /\ lvl = [c \in CPUs |-> 0]
  /\ picked = [c \in CPUs |-> None]

-----------------------------------------------------------------------------
(* scheduler() *)

\* acquire(&queue_lock).
ScanBegin(c) ==
  /\ ctx[c] = None
  /\ queue_lock # c
  /\ QueueLockFree
  /\ queue_lock' = c
  /\ UNCHANGED <<entry, local, queues, plock, services, cpu>>

\* One turn of the loop over the levels: dequeue from the first level that
\* is not empty when it is looked at, or give up after the last one.
Scan(c) ==
  /\ queue_lock = c
  /\ picked[c] = None
  /\ \/ /\ queues[lvl[c]] # << >>
        /\ picked' = [picked EXCEPT ![c] = Head(queues[lvl[c]])]
        /\ queues' = [queues EXCEPT ![lvl[c]] = Tail(@)]
        /\ UNCHANGED <<queue_lock, lvl>>
     \/ /\ queues[lvl[c]] = << >>
        /\ lvl' = [lvl EXCEPT ![c] = (@ + 1) % NPRIO]
        /\ queue_lock' = IF lvl[c] = NPRIO - 1 THEN None ELSE c
        /\ UNCHANGED <<queues, picked>>
  /\ UNCHANGED <<entry, local, plock, services, ctx>>

\* acquire(&p->lock) with queue_lock still held; release(&queue_lock);
\* mark the process and swtch() to it.  p->lock stays held.
Dispatch(c) ==
  LET p == picked[c] IN
  /\ p # None
  /\ PlockFree(p)
  /\ plock' = [plock EXCEPT ![p] = c]
  /\ queue_lock' = None
  /\ state' = [state EXCEPT ![p] = "RUNNING"]
  /\ ctx' = [ctx EXCEPT ![c] = p]
  /\ picked' = [picked EXCEPT ![c] = None]
  /\ lvl' = [lvl EXCEPT ![c] = 0]
  /\ UNCHANGED <<priority, chan, killed, parent, local, queues, services>>

\* The process side of that swtch(): forkret(), or the end of yield() or
\* sleep(), which releases the lock the scheduler took.  Only sleep() left
\* a channel to tidy up.
Resume(c, p) ==
  /\ ctx[c] = p
  /\ plock[p] = c
  /\ state[p] = "RUNNING"
  /\ chan' = [chan EXCEPT ![p] = None]
  /\ plock' = [plock EXCEPT ![p] = None]
  /\ UNCHANGED <<state, priority, killed, parent, local, queues, scheduling,
                  services>>

\* (Mutant: the scheduler takes queue_lock before it lets go of p->lock.)
Swtch_UnderQueueLock(c, p) ==
  /\ ctx[c] = p
  /\ plock[p] = c
  /\ state[p] # "RUNNING"
  /\ QueueLockFree
  /\ ctx' = [ctx EXCEPT ![c] = None]
  /\ plock' = [plock EXCEPT ![p] = None]
  /\ UNCHANGED <<entry, local, queues, queue_lock, services, lvl, picked>>

\* sched() and the second half of scheduler(): save the context, go back
\* to the scheduler's stack, release(&p->lock).
Swtch(c, p) ==
  /\ ctx[c] = p
  /\ plock[p] = c
  /\ state[p] # "RUNNING"
  /\ ctx' = [ctx EXCEPT ![c] = None]
  /\ plock' = [plock EXCEPT ![p] = None]
  /\ UNCHANGED <<entry, local, queues, queue_lock, services, lvl, picked>>

-----------------------------------------------------------------------------
(* yield(), sleep(), wakeup(), kill() *)

\* Two levels down at most.  (Mutant: the test is off by one.)
LowerLevel_OffByOne(p) == IF priority[p] <= 2 THEN priority[p] + 1 ELSE priority[p]
LowerLevel(p) == IF priority[p] <= 1 THEN priority[p] + 1 ELSE priority[p]

\* Timer interrupt: one level down, to the tail of that queue.
Yield(c, p) ==
  /\ "yield" \in Ops
  /\ Runs(c, p)
  /\ pc[p] \in Interruptible
  /\ plock' = [plock EXCEPT ![p] = c]
  /\ state' = [state EXCEPT ![p] = "RUNNABLE"]
  /\ priority' = [priority EXCEPT ![p] = LowerLevel(p)]
  /\ Enque(LowerLevel(p), p)
  /\ UNCHANGED <<chan, killed, parent, local, scheduling, services>>

\* Where the caller goes on, to take its lock again.  (Mutant: after sleep()
\* acquiresleep() believes that the lock is free, "if" for "while".)
SleepReturn_NoRetest(p) ==
  IF pc[p] = "wait_sleep" THEN "wait_relock" ELSE "critical"
SleepReturn(p) ==
  IF pc[p] = "wait_sleep" THEN "wait_relock" ELSE "lock_relock"

\* sleep(p, &wait_lock) and sleep(lk, &lk->lk): take p->lock, release the
\* caller's lock, one level up.
Sleep(c, p) ==
  /\ Runs(c, p)
  /\ \/ /\ pc[p] = "wait_sleep"
        /\ chan' = [chan EXCEPT ![p] = p]
        /\ wait_lock' = None
        /\ UNCHANGED spin
     \/ /\ pc[p] = "lock_sleep"
        /\ chan' = [chan EXCEPT ![p] = SleepChan]
        /\ spin' = None
        /\ UNCHANGED wait_lock
  /\ Goto(p, SleepReturn(p))
  /\ plock' = [plock EXCEPT ![p] = c]
  /\ state' = [state EXCEPT ![p] = "SLEEPING"]
  /\ priority' = [priority EXCEPT ![p] = IF @ > 0 THEN @ - 1 ELSE 0]
  /\ UNCHANGED <<killed, parent, cursors, queues, scheduling, owner>>

\* The channel that p wakes: reparent() calls wakeup(initproc), exit()
\* wakeup(p->parent), releasesleep() wakeup(lk).
WakeupChan(p) ==
  CASE pc[p] = "wake_init" -> INIT
    [] pc[p] = "wake_parent" -> parent[p]
    [] pc[p] = "wake_lock" -> SleepChan

WakeupReturn(p) ==
  CASE pc[p] = "wake_init" -> "reparent"
    [] pc[p] = "wake_parent" -> "zombie"
    [] pc[p] = "wake_lock" -> "unlock"

\* What wakeup() looks for, under the lock of the entry.  (Mutant: the
\* channel alone, which a woken process keeps until it runs.)
Wakes_ChanOnly(p, q) == chan[q] = WakeupChan(p)
Wakes(p, q) == state[q] = "SLEEPING" /\ chan[q] = WakeupChan(p)

\* One turn of the loop of wakeup(), on entry q of the table.
Wakeup(c, p) ==
  LET q == wcur[p] IN
  /\ Runs(c, p)
  /\ pc[p] \in Waking
  /\ PlockFree(q)
  /\ \/ /\ q # p
        /\ Wakes(p, q)
        /\ state' = [state EXCEPT ![q] = "RUNNABLE"]
        /\ Enque(priority[q], q)
     \/ /\ q = p \/ ~Wakes(p, q)
        /\ UNCHANGED <<state, queues>>
  /\ \/ /\ q < NPROC
        /\ wcur' = [wcur EXCEPT ![p] = q + 1]
        /\ UNCHANGED pc
     \/ /\ q = NPROC
        /\ wcur' = [wcur EXCEPT ![p] = 1]
        /\ Goto(p, WakeupReturn(p))
  /\ UNCHANGED <<priority, chan, killed, parent, cur, plock, scheduling,
                  services>>

\* (Mutant: kill() wakes whatever does not run.)
KillWakes_NotRunning(t) == state[t] # "RUNNING"
KillWakes(t) == state[t] = "SLEEPING"

\* kill() finds its victim and, if it sleeps, puts it in the first queue.
Kill(c, p, t) ==
  /\ Call(c, p, "kill")
  /\ PlockFree(t)
  /\ state[t] # "UNUSED"
  /\ killed' = [killed EXCEPT ![t] = TRUE]
  /\ \/ /\ KillWakes(t)
        /\ state' = [state EXCEPT ![t] = "RUNNABLE"]
        /\ Enque(0, t)
     \/ /\ ~KillWakes(t)
        /\ UNCHANGED <<state, queues>>
  /\ UNCHANGED <<priority, chan, parent, local, plock, scheduling, services>>

-----------------------------------------------------------------------------
(* fork(), exit(), wait() *)

ForkCall(c, p) ==
  /\ Call(c, p, "fork")
  /\ Goto(p, "alloc")
  /\ UNCHANGED <<entry, cursors, queues, plock, scheduling, services>>

\* One turn of the loop of allocproc(): the first entry found UNUSED is
\* the child, with a context that starts at forkret(), unless there is no
\* memory for it; fork() fails then, and at the end of the table.
AllocProc(c, p) ==
  LET q == cur[p] IN
  /\ At(c, p, "alloc")
  /\ PlockFree(q)
  /\ \/ /\ state[q] = "UNUSED"
        /\ state' = [state EXCEPT ![q] = "USED"]
        /\ priority' = [priority EXCEPT ![q] = NPRIO - 1]
        /\ pc' = [pc EXCEPT ![p] = "fork_parent", ![q] = "user"]
        /\ UNCHANGED cur
     \/ /\ state[q] # "UNUSED"
        /\ q < NPROC
        /\ cur' = [cur EXCEPT ![p] = q + 1]
        /\ UNCHANGED <<state, priority, pc>>
     \/ /\ state[q] = "UNUSED" \/ q = NPROC
        /\ cur' = [cur EXCEPT ![p] = 1]
        /\ Goto(p, "user")
        /\ UNCHANGED <<state, priority>>
  /\ UNCHANGED <<chan, killed, parent, wcur, queues, plock, scheduling,
                  services>>

\* np->parent = p under wait_lock.
ForkParent(c, p) ==
  /\ At(c, p, "fork_parent")
  /\ WaitLockFree
  /\ parent' = [parent EXCEPT ![cur[p]] = p]
  /\ Goto(p, "fork_queue")
  /\ UNCHANGED <<state, priority, chan, killed, cursors, queues, plock,
                  scheduling, services>>

\* The queue fork() puts the child in.  (Mutant: by the priority that
\* allocproc() gave the child.)
ChildLevel_OfChild(p) == priority[cur[p]]
ChildLevel(p) == priority[p]

\* The child enters the queue of its parent's level and is RUNNABLE.
ForkQueue(c, p) ==
  LET q == cur[p] IN
  /\ At(c, p, "fork_queue")
  /\ PlockFree(q)
  /\ Enque(ChildLevel(p), q)
  /\ priority' = [priority EXCEPT ![q] = priority[p]]
  /\ state' = [state EXCEPT ![q] = "RUNNABLE"]
  /\ cur' = [cur EXCEPT ![p] = 1]
  /\ Goto(p, "user")
  /\ UNCHANGED <<chan, killed, parent, wcur, plock, scheduling, services>>

\* exit(), of its own accord or on the way out of the kernel when killed:
\* acquire(&wait_lock).
Exit(c, p) ==
  /\ p # INIT
  /\ At(c, p, "user")
  /\ killed[p] \/ "exit" \in Ops
  /\ WaitLockFree
  /\ wait_lock' = c
  /\ Goto(p, "reparent")
  /\ UNCHANGED <<entry, cursors, queues, plock, scheduling, spin, owner>>

\* Whom reparent() gives to init.  (Mutant: not the zombies.)
Abandoned_Alive(p, q) == parent[q] = p /\ state[q] # "ZOMBIE"
Abandoned(p, q) == parent[q] = p

\* One turn of the loop of reparent().  After wakeup() the entry is no
\* longer a child of p, so the loop goes past it.
Reparent(c, p) ==
  LET q == cur[p] IN
  /\ At(c, p, "reparent")
  /\ \/ /\ Abandoned(p, q)
        /\ parent' = [parent EXCEPT ![q] = INIT]
        /\ Goto(p, "wake_init")
        /\ UNCHANGED cur
     \/ /\ ~Abandoned(p, q)
        /\ cur' = [cur EXCEPT ![p] = IF q < NPROC THEN q + 1 ELSE 1]
        /\ Goto(p, IF q < NPROC THEN "reparent" ELSE "wake_parent")
        /\ UNCHANGED parent
  /\ UNCHANGED <<state, priority, chan, killed, wcur, queues, plock,
                  scheduling, services>>

\* The end of exit(): ZOMBIE under p->lock, release(&wait_lock), sched().
BecomeZombie(c, p) ==
  /\ At(c, p, "zombie")
  /\ plock' = [plock EXCEPT ![p] = c]
  /\ state' = [state EXCEPT ![p] = "ZOMBIE"]
  /\ wait_lock' = None
  /\ Goto(p, "exited")
  /\ UNCHANGED <<priority, chan, killed, parent, cursors, queues, scheduling,
                  spin, owner>>

\* wait(): acquire(&wait_lock), the first time or after a sleep.
WaitBegin(c, p) ==
  /\ Call(c, p, "wait") \/ At(c, p, "wait_relock")
  /\ WaitLockFree
  /\ wait_lock' = c
  /\ Goto(p, "wait_scan")
  /\ UNCHANGED <<entry, cursors, queues, plock, scheduling, spin, owner>>

\* wait() returns: a zombie's entry is freed (freeproc), or its status
\* cannot be copied to the caller.
WaitReturn(c, p) ==
  LET q == cur[p] IN
  /\ At(c, p, "wait_scan")
  /\ parent[q] = p
  /\ PlockFree(q)
  /\ state[q] = "ZOMBIE"
  /\ \/ /\ state' = [state EXCEPT ![q] = "UNUSED"]
        /\ parent' = [parent EXCEPT ![q] = None]
        /\ chan' = [chan EXCEPT ![q] = None]
        /\ killed' = [killed EXCEPT ![q] = FALSE]
     \/ UNCHANGED <<state, parent, chan, killed>>
  /\ cur' = [cur EXCEPT ![p] = 1]
  /\ wait_lock' = None
  /\ Goto(p, "user")
  /\ UNCHANGED <<priority, wcur, queues, plock, scheduling, spin, owner>>

\* One turn of the loop of wait() that collects nothing; at the end of the
\* table it fails, or goes to sleep.
WaitNext(c, p) ==
  LET q == cur[p] IN
  /\ At(c, p, "wait_scan")
  /\ parent[q] = p => (PlockFree(q) /\ state[q] # "ZOMBIE")
  /\ cur' = [cur EXCEPT ![p] = IF q < NPROC THEN q + 1 ELSE 1]
  /\ \/ /\ q < NPROC
        /\ UNCHANGED <<pc, wait_lock>>
     \/ /\ q = NPROC
        /\ ~HasKids(p) \/ killed[p]
        /\ wait_lock' = None
        /\ Goto(p, "user")
     \/ /\ q = NPROC
        /\ HasKids(p) /\ ~killed[p]
        /\ Goto(p, "wait_sleep")
        /\ UNCHANGED wait_lock
  /\ UNCHANGED <<entry, wcur, queues, plock, scheduling, spin, owner>>

-----------------------------------------------------------------------------
(* A sleep lock (kernel/sleeplock.c) that the processes share. *)

\* acquiresleep(): acquire(&lk->lk), the first time or after a sleep.
LockBegin(c, p) ==
  /\ Call(c, p, "lock") \/ At(c, p, "lock_relock")
  /\ SpinFree
  /\ spin' = c
  /\ Goto(p, "lock_test")
  /\ UNCHANGED <<entry, cursors, queues, plock, scheduling, wait_lock, owner>>

\* while (lk->locked): sleep, or take the lock and release(&lk->lk).
LockTest(c, p) ==
  /\ At(c, p, "lock_test")
  /\ \/ /\ owner = None
        /\ owner' = p
        /\ spin' = None
        /\ Goto(p, "critical")
     \/ /\ owner # None
        /\ Goto(p, "lock_sleep")
        /\ UNCHANGED <<spin, owner>>
  /\ UNCHANGED <<entry, cursors, queues, plock, scheduling, wait_lock>>

\* releasesleep(): acquire(&lk->lk); lk->locked = 0; wakeup(lk).
Unlock(c, p) ==
  /\ At(c, p, "critical")
  /\ SpinFree
  /\ spin' = c
  /\ owner' = None
  /\ Goto(p, "wake_lock")
  /\ UNCHANGED <<entry, cursors, queues, plock, scheduling, wait_lock>>

\* releasesleep(): release(&lk->lk).
UnlockEnd(c, p) ==
  /\ At(c, p, "unlock")
  /\ spin' = None
  /\ Goto(p, "user")
  /\ UNCHANGED <<entry, cursors, queues, plock, scheduling, wait_lock, owner>>

-----------------------------------------------------------------------------
\* The scheduler of CPU c, and both halves of a context switch.
SchedulerStep(c) ==
  \/ ScanBegin(c) \/ Scan(c) \/ Dispatch(c)
  \/ \E p \in Procs : Resume(c, p) \/ Swtch(c, p)

\* A process goes on with a system call it has entered.
KernelStep(c) ==
  \E p \in Procs :
    \/ Sleep(c, p) \/ Wakeup(c, p)
    \/ AllocProc(c, p) \/ ForkParent(c, p) \/ ForkQueue(c, p)
    \/ Reparent(c, p) \/ BecomeZombie(c, p)
    \/ WaitReturn(c, p) \/ WaitNext(c, p)
    \/ LockTest(c, p) \/ Unlock(c, p) \/ UnlockEnd(c, p)

\* A process enters a system call, or waits for its first lock again.
EntryStep(c) ==
  \E p \in Procs :
    \/ ForkCall(c, p) \/ Exit(c, p) \/ WaitBegin(c, p) \/ LockBegin(c, p)
    \/ \E t \in Victims : Kill(c, p, t)

Preempt(c) == \E p \in Procs : Yield(c, p)

Next ==
  \E c \in CPUs :
    SchedulerStep(c) \/ KernelStep(c) \/ EntryStep(c) \/ Preempt(c)

Spec == Init /\ [][Next]_vars

\* A CPU goes on executing what it executes, a spin lock that stays free
\* is taken, and the timer interrupt keeps coming.  Nothing makes a process
\* enter a system call.
Fairness ==
  \A c \in CPUs :
    WF_vars(SchedulerStep(c)) /\ WF_vars(KernelStep(c)) /\ WF_vars(Preempt(c))

FairSpec == Spec /\ Fairness

-----------------------------------------------------------------------------
(* Safety *)

\* p waits in the queue of some level.
Queued(p) == \E l \in Levels : \E i \in 1..Len(queues[l]) : queues[l][i] = p

Picked(p) == \E c \in CPUs : picked[c] = p

\* Two CPUs never run on the stack of the same process: a process that
\* yields or sleeps is in a queue, and can be dequeued by another CPU, before
\* its own CPU has switched away from its stack.
OneCpuPerProcess == \A c, d \in CPUs : ctx[c] # None /\ ctx[c] = ctx[d] => c = d

\* No process is in the queues twice.
NoDuplicates ==
  \A l, m \in Levels : \A i \in 1..Len(queues[l]), j \in 1..Len(queues[m]) :
    queues[l][i] = queues[m][j] => l = m /\ i = j

\* A process is in the queues once when it is RUNNABLE and not in the hands
\* of a scheduler, and otherwise not at all, whoever wakes, kills, forks or
\* preempts it at the same time.  So no queue overflows (enque() panics),
\* none hands out a process that sleeps or is gone, and nobody is lost.
QueuedOnce ==
  /\ NoDuplicates
  /\ \A p \in Procs : state[p] = "RUNNABLE" <=> Queued(p) \/ Picked(p)
  /\ \A p \in Procs : ~(Queued(p) /\ Picked(p))

\* The queue a process waits in is the one of its priority, except for the
\* first start of init and after kill(), which use queue 0.
QueueOfPriority ==
  \A l \in Levels : \A i \in 1..Len(queues[l]) :
    LET p == queues[l][i] IN
    l = priority[p] \/ (l = 0 /\ (p = INIT \/ killed[p]))

\* The assertions of sched(): a CPU that leaves a process for its scheduler
\* holds the lock of that process and no other (noff == 1).
SchedHoldsOnlyPlock ==
  \A c \in CPUs : \A p \in Procs :
    ctx[c] = p /\ plock[p] = c /\ state[p] # "RUNNING" =>
      /\ queue_lock # c /\ wait_lock # c /\ spin # c
      /\ \A q \in Procs \ {p} : plock[q] # c

\* The entry that wait() frees is off every CPU: a new process that gets it
\* finds the stack unused ("make sure the child isn't still in exit() or
\* swtch()").
FreedIsOffCpu ==
  \A c \in CPUs : ctx[c] # None => state[ctx[c]] \notin {"UNUSED", "USED"}

\* A scheduler that scans or has dequeued holds queue_lock, on its own stack.
ScansLocked ==
  \A c \in CPUs : /\ queue_lock = c => ctx[c] = None
                  /\ picked[c] # None => queue_lock = c

\* A p->lock held over a context switch belongs to the process of the CPU
\* that holds it; a process on a CPU is RUNNING, or on its way off it with
\* its lock held.
LockedOnItsCpu == \A c \in CPUs, p \in Procs : plock[p] = c => ctx[c] = p
OnCpu ==
  \A c \in CPUs, p \in Procs :
    ctx[c] = p =>
      \/ state[p] = "RUNNING" /\ plock[p] \in {None, c}
      \/ state[p] \in {"RUNNABLE", "SLEEPING", "ZOMBIE"} /\ plock[p] = c

\* The entry that fork() has allocated stays USED, and is nobody else's,
\* while its lock is released to set its parent.
Forking == {p \in Procs : pc[p] \in {"fork_parent", "fork_queue"}}
OwnChild ==
  /\ \A p \in Forking : state[cur[p]] = "USED"
  /\ \A p, q \in Forking : cur[p] = cur[q] => p = q

\* What makes OneCpuPerProcess, QueuedOnce and FreedIsOffCpu inductive.
DispatchInv ==
  /\ QueuedOnce /\ ScansLocked /\ LockedOnItsCpu /\ OnCpu
  /\ OneCpuPerProcess /\ OwnChild

\* No exit is missed: with wait_lock free, a process asleep in wait() has a
\* child, and none of its children is a zombie it should have collected.
NoLostExit ==
  wait_lock = None =>
    \A p \in Procs :
      state[p] = "SLEEPING" /\ chan[p] = p =>
        /\ HasKids(p)
        /\ \A q \in Procs : parent[q] = p => state[q] # "ZOMBIE"

\* Every process has a parent that can still collect it: with wait_lock
\* free, nobody's parent is a zombie or a free entry.
NoDeadParent ==
  wait_lock = None =>
    \A q \in Procs :
      parent[q] # None => state[parent[q]] \notin {"UNUSED", "USED", "ZOMBIE"}

\* The life of a table entry: only the scheduler makes a process RUNNING,
\* and out of RUNNABLE; a zombie is never woken, only freed.
LifeCycle ==
  {<<"UNUSED", "USED">>, <<"USED", "RUNNABLE">>, <<"RUNNABLE", "RUNNING">>,
   <<"RUNNING", "RUNNABLE">>, <<"RUNNING", "SLEEPING">>,
   <<"SLEEPING", "RUNNABLE">>, <<"RUNNING", "ZOMBIE">>,
   <<"ZOMBIE", "UNUSED">>}

FollowsLifeCycle ==
  [][\A p \in Procs : state'[p] # state[p] => <<state[p], state'[p]>> \in LifeCycle]_state

\* At most one process is inside the sleep lock, although a woken process
\* can find that a third one took it first.
MutualExclusion ==
  \A p, q \in Procs : pc[p] = "critical" /\ pc[q] = "critical" => p = q

\* No wakeup is missed: with the spin lock free, nobody sleeps on a sleep
\* lock that nobody has.
NoLostWakeup ==
  spin = None /\ owner = None =>
    \A p \in Procs : ~(state[p] = "SLEEPING" /\ chan[p] = SleepChan)

-----------------------------------------------------------------------------
(* What makes the properties of wait_lock and of the sleep lock inductive. *)

\* A lock that is held across steps is held by the CPU that executes a
\* process between acquire() and release(), and by no other.
WaitSection ==
  {"reparent", "wake_init", "wake_parent", "zombie", "wait_scan", "wait_sleep"}
SpinSection == {"lock_test", "lock_sleep", "wake_lock", "unlock"}

HeldIn(lock, section) ==
  /\ \A p \in Procs : pc[p] \in section => \E c \in CPUs : Runs(c, p) /\ lock = c
  /\ \A c \in CPUs : lock = c => \E p \in Procs : Runs(c, p) /\ pc[p] \in section

\* Walks over the table begin at its first entry, and an entry without a
\* process is in no system call.
Walking == {"alloc", "fork_parent", "fork_queue", "reparent", "wake_init", "wait_scan"}
Dead == {"UNUSED", "USED", "ZOMBIE"}
CursorsReset ==
  \A p \in Procs : /\ pc[p] \notin Walking => cur[p] = 1
                   /\ pc[p] \notin Waking => wcur[p] = 1
DeadOutside == \A p \in Procs : state[p] \in Dead => pc[p] \in {"user", "exited"}

\* The owner of the sleep lock is inside; who sleeps for it sleeps because
\* of an owner, or will still be found by the wakeup() under way.
OwnerInside == \A p \in Procs : pc[p] = "critical" <=> owner = p
SleepsOnLock(q) == state[q] = "SLEEPING" /\ chan[q] = SleepChan
SleepersHaveWaker ==
  /\ \A p \in Procs : pc[p] = "lock_sleep" => owner # None
  /\ \A q \in Procs : SleepsOnLock(q) /\ owner = None =>
       \E p \in Procs : pc[p] = "wake_lock" /\ wcur[p] <= q

\* A free entry has no parent until fork() sets one, and a process that
\* exits gives away the children it has passed.
Exiting == {"reparent", "wake_init", "wake_parent", "zombie", "exited"}
ParentsLive ==
  /\ state[INIT] \notin Dead /\ pc[INIT] \notin Exiting
  /\ \A q \in Procs : state[q] = "UNUSED" => parent[q] = None
  /\ \A p \in Procs : pc[p] = "fork_parent" => parent[cur[p]] = None
  /\ \A p, q \in Procs :
       parent[q] = p =>
         /\ state[p] \notin Dead
         /\ pc[p] \notin {"wake_parent", "zombie"}
         /\ pc[p] \in {"reparent", "wake_init"} => cur[p] <= q

\* Who waits has a child.  A zombie's parent does not wait, unless it is
\* init, which reparent() is about to wake; the parent of a process that is
\* about to become a zombie does not wait once wakeup() has passed it.
Waits(p) == state[p] = "SLEEPING" /\ chan[p] = p
WaitersTold ==
  /\ \A p \in Procs : Waits(p) \/ pc[p] = "wait_sleep" => HasKids(p)
  /\ \A p, q \in Procs :
       Waits(p) /\ parent[q] = p =>
         /\ pc[q] # "zombie"
         /\ pc[q] = "wake_parent" => wcur[q] <= p
         /\ state[q] = "ZOMBIE" =>
              p = INIT /\ \E x \in Procs : pc[x] = "wake_init" /\ wcur[x] <= p
  /\ \A p, q \in Procs :
       parent[q] = p /\ state[q] = "ZOMBIE" =>
         /\ pc[p] # "wait_sleep"
         /\ pc[p] = "wait_scan" => cur[p] <= q

LockInv ==
  /\ HeldIn(wait_lock, WaitSection) /\ HeldIn(spin, SpinSection)
  /\ CursorsReset /\ DeadOutside
  /\ OwnerInside /\ SleepersHaveWaker
  /\ ParentsLive /\ WaitersTold

ProcInv == DispatchInv /\ LockInv

-----------------------------------------------------------------------------
(* Liveness, of FairSpec *)

\* Processes that only compute, and fork, all get the CPU again and again:
\* they sink to the last level and share it in turn.
EverybodyRuns ==
  \A p \in Procs : state[p] = "RUNNABLE" ~> state[p] = "RUNNING"
=============================================================================
