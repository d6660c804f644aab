------------------------------- MODULE Ticks -------------------------------
(***************************************************************************)
(* Spin locks, interrupts and the clock: push_off and pop_off              *)
(* (kernel/spinlock.c), the timer interrupt in user and kernel mode        *)
(* (kernel/trap.c), and sleep(), uptime() and kill() (kernel/sysproc.c),   *)
(* on CPUs whose processes move (kernel/proc.c).                           *)
(*                                                                         *)
(* A spin lock is taken in two steps: push_off(), after which the CPU is   *)
(* deaf, and the swap, with what is done until the next lock is wanted.    *)
(* aux_lock of the run queues is taken and released inside such a step, as *)
(* is p->lock where killed() and kill() only look at an entry.             *)
(***************************************************************************)
EXTENDS Integers, Sequences, FiniteSets

CONSTANTS
  NCPU, NPROC,
  WORD,        \* ticks is counted modulo WORD (2^32 in the code)
  FirstTick,   \* the first value of ticks
  MaxTicks,    \* bound on the interrupts of CPU 0
  Scripts      \* what the processes call: 1..NPROC -> Seq(calls),
               \* a call being [op, arg]

Cpus == 0..(NCPU - 1)
Users == 1..NPROC
Scheduler(c) == -1 - c            \* the stack of scheduler() on c
Threads == Users \cup {Scheduler(c) : c \in Cpus}
None == -1

TicksLock == <<"tickslock", 0>>
QueueLock == <<"queue_lock", 0>>
Plock(p) == <<"lock", p>>
Locks == {TicksLock, QueueLock} \cup {Plock(p) : p \in Users}

\* The calls; kill() gets the pid of a process that exists.  There are two
\* processes at least, init and the shell.
SysCalls == [op : {"sleep", "uptime"}, arg : Int] \cup [op : {"kill"}, arg : Users]
TicksAssumption ==
  /\ NCPU \in Nat /\ NPROC \in Nat /\ NPROC >= 2
  /\ WORD \in Nat /\ MaxTicks \in Nat /\ MaxTicks < WORD /\ FirstTick \in 0..(WORD - 1)
  /\ \A g \in Scripts : g \in [Users -> Seq(SysCalls)]

VARIABLES
  cpu,       \* sstatus.SIE, noff and intena of each CPU, and whether it spins
  holder,    \* lk->cpu
  on,        \* the stack that each CPU is on
  chosen,    \* p of each scheduler()
  next,      \* p of each wakeup()
  pc,        \* where each thread is
  back,      \* where an interrupted thread goes on
  state, killed, queued,
  saved,     \* intena of each sched()
  ticks, ticks0,
  beats,     \* how often CPU 0 was interrupted
  since,     \* beats when a sleep() began
  script

procs == <<state, killed, queued>>
clock == <<ticks, beats>>
sleeps == <<ticks0, since>>
vars == <<cpu, holder, on, chosen, next, pc, back, procs, saved, clock, sleeps, script>>

\* Steps that begin with acquire().
Acquiring ==
  {"sleep", "resleep", "uptime", "kill", "park", "exit", "clock", "wake", "yield", "scan", "pick"}
\* Steps of usertrap() and kerneltrap() until they return.
Handler == {"clock", "wake", "ack", "yield", "yielded", "sret"}

TypeOK ==
  /\ cpu \in [Cpus -> [sie : BOOLEAN, noff : 0..3, intena : BOOLEAN, spins : BOOLEAN]]
  /\ holder \in [Locks -> Cpus \cup {None}]
  /\ on \in [Cpus -> Threads]
  /\ chosen \in [Cpus -> 0..NPROC] /\ next \in [Cpus -> 0..NPROC]
  /\ pc \in [Threads -> Acquiring \cup Handler
                          \cup {"user", "forkret", "slept", "done", "zombie", "loop", "running"}]
  /\ back \in [Threads -> {"user", "sleep", "uptime", "kill", "resleep", "done", "exit", "loop", "scan"}]
  /\ state \in [Users -> {"RUNNABLE", "RUNNING", "SLEEPING", "ZOMBIE"}]
  /\ killed \in [Users -> BOOLEAN] /\ queued \subseteq Users
  /\ saved \in [Users -> BOOLEAN]
  /\ ticks \in 0..(WORD - 1) /\ ticks0 \in [Users -> 0..(WORD - 1)]
  /\ beats \in 0..MaxTicks /\ since \in [Users -> 0..MaxTicks]
  /\ script \in [Users -> Seq(SysCalls)]

Init ==
  /\ cpu = [c \in Cpus |-> [sie |-> FALSE, noff |-> 0, intena |-> FALSE, spins |-> FALSE]]
  /\ holder = [l \in Locks |-> None]
  /\ on = [c \in Cpus |-> Scheduler(c)]
  /\ chosen = [c \in Cpus |-> 0] /\ next = [c \in Cpus |-> 0]
  /\ pc = [t \in Threads |-> IF t \in Users THEN "forkret" ELSE "loop"]
  /\ back = [t \in Threads |-> "user"]
  /\ state = [p \in Users |-> "RUNNABLE"]
  /\ killed = [p \in Users |-> FALSE]
  /\ queued = Users
  /\ saved = [p \in Users |-> FALSE]
  /\ ticks = FirstTick /\ ticks0 = [p \in Users |-> 0]
  /\ beats = 0 /\ since = [p \in Users |-> 0]
  /\ script \in Scripts

Goto(t, step) == pc' = [pc EXCEPT ![t] = step]

-----------------------------------------------------------------------------
(* kernel/spinlock.c *)

LockAt(c) ==
  LET t == on[c] IN
  CASE pc[t] \in {"sleep", "resleep", "uptime", "clock"} -> TicksLock
    [] pc[t] \in {"park", "exit", "yield"} -> Plock(t)
    [] pc[t] = "kill" -> Plock(Head(script[t]).arg)
    [] pc[t] = "wake" -> Plock(next[c])
    [] pc[t] = "pick" -> Plock(chosen[c])
    [] pc[t] = "scan" -> QueueLock

PushOff(c) ==
  /\ pc[on[c]] \in Acquiring /\ ~cpu[c].spins
  /\ cpu' = [cpu EXCEPT ![c] =
       [sie |-> FALSE, noff |-> @.noff + 1, spins |-> TRUE,
        intena |-> IF @.noff = 0 THEN @.sie ELSE @.intena]]
  /\ UNCHANGED <<holder, on, chosen, next, pc, back, procs, saved, clock, sleeps, script>>

\* pop_off() k times: the last one turns interrupts on if they were on
\* before the first push_off().
Popped_Always(r, k) == [r EXCEPT !.noff = @ - k, !.sie = k > 0 /\ r.noff = k, !.spins = FALSE]
Popped(r, k) ==
  [r EXCEPT !.noff = @ - k, !.sie = (k > 0 /\ r.noff = k /\ r.intena), !.spins = FALSE]

\* The rest of acquire(), and release() of the locks in L before the next
\* lock is wanted.
TakeAndRelease(c, L) ==
  /\ pc[on[c]] \in Acquiring
  /\ cpu[c].spins /\ holder[LockAt(c)] = None
  /\ holder' = [l \in Locks |-> IF l \in L THEN None ELSE IF l = LockAt(c) THEN c ELSE holder[l]]
  /\ cpu' = [cpu EXCEPT ![c] = Popped(@, Cardinality(L))]

\* release() after a swtch(), which leaves intena as sched() says.
ReleaseOnly(c, l, intena) ==
  /\ holder' = [holder EXCEPT ![l] = None]
  /\ cpu' = [cpu EXCEPT ![c] = Popped([@ EXCEPT !.intena = intena], 1)]

-----------------------------------------------------------------------------
(* kernel/proc.c *)

\* scheduler() turns interrupts on and takes a process out of the queues.
Loop(c) ==
  /\ pc[on[c]] = "loop"
  /\ cpu' = [cpu EXCEPT ![c].sie = TRUE]
  /\ Goto(on[c], "scan")
  /\ UNCHANGED <<holder, on, chosen, next, back, procs, saved, clock, sleeps, script>>

Scan(c) ==
  /\ pc[on[c]] = "scan"
  /\ \/ /\ queued = {}
        /\ TakeAndRelease(c, {QueueLock})
        /\ Goto(on[c], "loop")
        /\ UNCHANGED <<chosen, queued>>
     \/ \E p \in queued :
          /\ TakeAndRelease(c, {})
          /\ chosen' = [chosen EXCEPT ![c] = p]
          /\ queued' = queued \ {p}
          /\ Goto(on[c], "pick")
  /\ UNCHANGED <<on, next, back, state, killed, saved, clock, sleeps, script>>

Dispatch(c) ==
  /\ pc[on[c]] = "pick"
  /\ TakeAndRelease(c, {QueueLock})
  /\ state' = [state EXCEPT ![chosen[c]] = "RUNNING"]
  /\ on' = [on EXCEPT ![c] = chosen[c]]
  /\ Goto(on[c], "running")
  /\ UNCHANGED <<chosen, next, back, killed, queued, saved, clock, sleeps, script>>

\* The scheduler goes on when its process has left: release(&p->lock).
Returned(c) ==
  /\ pc[on[c]] = "running"
  /\ ReleaseOnly(c, Plock(chosen[c]), cpu[c].intena)
  /\ chosen' = [chosen EXCEPT ![c] = 0]
  /\ Goto(on[c], "loop")
  /\ UNCHANGED <<on, next, back, procs, saved, clock, sleeps, script>>

\* The end of sleep(), yield() and exit(): acquire(&p->lock), the new state,
\* and sched(), which keeps intena.
Leave(c, L, newstate, step) ==
  LET p == on[c] IN
  /\ TakeAndRelease(c, L)
  /\ state' = [state EXCEPT ![p] = newstate]
  /\ saved' = [saved EXCEPT ![p] = cpu[c].intena]
  /\ on' = [on EXCEPT ![c] = Scheduler(c)]
  /\ Goto(p, step)
  /\ UNCHANGED <<chosen, next, back, killed, clock, sleeps, script>>

Park(c) == pc[on[c]] = "park" /\ Leave(c, {TicksLock}, "SLEEPING", "slept") /\ UNCHANGED queued
Exit(c) == pc[on[c]] = "exit" /\ Leave(c, {}, "ZOMBIE", "zombie") /\ UNCHANGED queued
Yield(c) ==
  pc[on[c]] = "yield" /\ Leave(c, {}, "RUNNABLE", "yielded") /\ queued' = queued \cup {on[c]}

\* A process has the CPU again: the end of sched(), and release(&p->lock).
AfterSched_Cpu(c) == cpu[c].intena
AfterSched(c) == saved[on[c]]

Resume(c) ==
  LET p == on[c] IN
  /\ \/ pc[p] = "slept" /\ Goto(p, "resleep")
     \/ pc[p] = "yielded" /\ Goto(p, "sret")
  /\ ReleaseOnly(c, Plock(p), AfterSched(c))
  /\ saved' = [saved EXCEPT ![p] = FALSE]
  /\ UNCHANGED <<on, chosen, next, back, procs, clock, sleeps, script>>

\* The first time it comes from forkret(), and goes to user space.
ForkRet(c) ==
  LET p == on[c] IN
  /\ pc[p] = "forkret"
  /\ holder' = [holder EXCEPT ![Plock(p)] = None]
  /\ cpu' = [cpu EXCEPT ![c] = [Popped(@, 1) EXCEPT !.sie = TRUE]]
  /\ Goto(p, "user")
  /\ UNCHANGED <<on, chosen, next, back, procs, saved, clock, sleeps, script>>

-----------------------------------------------------------------------------
(* kernel/trap.c *)

\* A system call: interrupts are on while it runs, unless the process is
\* killed.
Call(c) ==
  LET p == on[c] IN
  /\ pc[p] = "user" /\ script[p] # << >>
  /\ cpu' = [cpu EXCEPT ![c].sie = ~killed[p]]
  /\ Goto(p, IF killed[p] THEN "exit" ELSE Head(script[p]).op)
  /\ UNCHANGED <<holder, on, chosen, next, back, procs, saved, clock, sleeps, script>>

\* It returns to user space.
Return(c) ==
  LET p == on[c] IN
  /\ pc[p] = "done"
  /\ cpu' = [cpu EXCEPT ![c].sie = TRUE]
  /\ Goto(p, IF killed[p] THEN "exit" ELSE "user")
  /\ script' = [script EXCEPT ![p] = Tail(@)]
  /\ ticks0' = [ticks0 EXCEPT ![p] = 0] /\ since' = [since EXCEPT ![p] = 0]
  /\ UNCHANGED <<holder, on, chosen, next, back, procs, saved, clock>>

\* The timer interrupts a CPU that listens.  CPU 0 counts.
Interrupt(c) ==
  LET t == on[c] IN
  /\ cpu[c].sie /\ (c = 0 => beats < MaxTicks)
  /\ cpu' = [cpu EXCEPT ![c].sie = FALSE]
  /\ back' = [back EXCEPT ![t] = pc[t]]
  /\ Goto(t, IF c = 0 THEN "clock" ELSE "ack")
  /\ UNCHANGED <<holder, on, chosen, next, procs, saved, clock, sleeps, script>>

\* clockintr() and its wakeup(&ticks), which passes over the process that
\* was interrupted.
Following(c, q) == {p \in Users : p > q /\ p # on[c]}
NextOf(c, q) ==
  IF Following(c, q) = {} THEN 0
  ELSE CHOOSE p \in Following(c, q) : \A r \in Following(c, q) : p <= r

ClockIntr(c) ==
  /\ pc[on[c]] = "clock"
  /\ TakeAndRelease(c, {})
  /\ ticks' = (ticks + 1) % WORD
  /\ beats' = beats + 1
  /\ next' = [next EXCEPT ![c] = NextOf(c, 0)]
  /\ Goto(on[c], "wake")
  /\ UNCHANGED <<on, chosen, back, procs, saved, sleeps, script>>

\* p is queued if it sleeps; p->lock is held.
MakeRunnable(p) ==
  IF state[p] = "SLEEPING"
  THEN state' = [state EXCEPT ![p] = "RUNNABLE"] /\ queued' = queued \cup {p}
  ELSE UNCHANGED <<state, queued>>

Wake(c) ==
  LET p == next[c]
      q == NextOf(c, p)
  IN
  /\ pc[on[c]] = "wake"
  /\ TakeAndRelease(c, {Plock(p)} \cup (IF q = 0 THEN {TicksLock} ELSE {}))
  /\ MakeRunnable(p)
  /\ next' = [next EXCEPT ![c] = q]
  /\ Goto(on[c], IF q = 0 THEN "ack" ELSE "wake")
  /\ UNCHANGED <<on, chosen, back, killed, saved, clock, sleeps, script>>

\* A process gives up the CPU, or ends if it was killed in user space.
Ack(c) ==
  LET t == on[c] IN
  /\ pc[t] = "ack"
  /\ Goto(t, CASE t \notin Users -> "sret"
               [] t \in Users /\ back[t] = "user" /\ killed[t] -> "exit"
               [] OTHER -> "yield")
  /\ UNCHANGED <<cpu, holder, on, chosen, next, back, procs, saved, clock, sleeps, script>>

SRet(c) ==
  LET t == on[c] IN
  /\ pc[t] = "sret"
  /\ cpu' = [cpu EXCEPT ![c].sie = TRUE]
  /\ Goto(t, back[t])
  /\ back' = [back EXCEPT ![t] = "user"]
  /\ UNCHANGED <<holder, on, chosen, next, procs, saved, clock, sleeps, script>>

-----------------------------------------------------------------------------
(* kernel/sysproc.c *)

\* sys_sleep(): the loop, at its start and after each sleep().  Unsigned
\* arithmetic: a negative n is large.
Waits_Sum(p, from) == ticks < from + Head(script[p]).arg
Waits(p, from) == (ticks - from) % WORD < Head(script[p]).arg % WORD

SysSleep(c) ==
  LET p == on[c]
      from == IF pc[p] = "sleep" THEN ticks ELSE ticks0[p]
  IN
  /\ pc[p] \in {"sleep", "resleep"}
  /\ ticks0' = [ticks0 EXCEPT ![p] = from]
  /\ since' = [since EXCEPT ![p] = IF pc[p] = "sleep" THEN beats ELSE @]
  /\ IF Waits(p, from) /\ ~killed[p]
     THEN TakeAndRelease(c, {}) /\ Goto(p, "park")
     ELSE TakeAndRelease(c, {TicksLock}) /\ Goto(p, "done")
  /\ UNCHANGED <<on, chosen, next, back, procs, saved, clock, script>>

SysUptime(c) ==
  /\ pc[on[c]] = "uptime"
  /\ TakeAndRelease(c, {TicksLock})
  /\ Goto(on[c], "done")
  /\ UNCHANGED <<on, chosen, next, back, procs, saved, clock, sleeps, script>>

SysKill(c) ==
  LET victim == Head(script[on[c]]).arg IN
  /\ pc[on[c]] = "kill"
  /\ TakeAndRelease(c, {Plock(victim)})
  /\ killed' = [killed EXCEPT ![victim] = TRUE]
  /\ MakeRunnable(victim)
  /\ Goto(on[c], "done")
  /\ UNCHANGED <<on, chosen, next, back, saved, clock, sleeps, script>>

-----------------------------------------------------------------------------
Step(c) ==
  \/ PushOff(c)
  \/ Loop(c) \/ Scan(c) \/ Dispatch(c) \/ Returned(c)
  \/ Park(c) \/ Exit(c) \/ Yield(c) \/ Resume(c) \/ ForkRet(c)
  \/ Call(c) \/ Return(c)
  \/ Interrupt(c) \/ ClockIntr(c) \/ Wake(c) \/ Ack(c) \/ SRet(c)
  \/ SysSleep(c) \/ SysUptime(c) \/ SysKill(c)

Next == \E c \in Cpus : Step(c)

Spec == Init /\ [][Next]_vars

-----------------------------------------------------------------------------
HeldBy(c) == {l \in Locks : holder[l] = c}

\* What the panics of acquire(), pop_off(), sched() and kerneltrap() ask:
\* interrupts are off exactly where they must be.  noff counts the locks
\* that a CPU holds or wants; a CPU with a lock and a trap handler are not
\* interrupted, although intena travels with the process from CPU to CPU;
\* only p->lock is held when stacks are switched; no CPU wants what it has;
\* and a system call outside of its critical sections can be preempted.
InterruptsMatch ==
  \A c \in Cpus :
    LET step == pc[on[c]] IN
    /\ cpu[c].noff = Cardinality(HeldBy(c)) + (IF cpu[c].spins THEN 1 ELSE 0)
    /\ cpu[c].sie => cpu[c].noff = 0 /\ step \notin Handler
    /\ step = "running" => HeldBy(c) = {Plock(chosen[c])}
    /\ cpu[c].spins => holder[LockAt(c)] # c
    /\ step \in {"user", "done", "sleep", "uptime", "kill", "resleep"} /\ ~cpu[c].spins => cpu[c].sie

\* sleep(n) returns after n interrupts of the clock and not earlier, also
\* when the counter wraps around, and nobody sleeps on after that: the
\* interrupt comes before the test of the loop or finds the process asleep.
SleepsExactly ==
  \A p \in Users :
    LET n == Head(script[p]).arg % WORD IN
    /\ pc[p] = "done" /\ Head(script[p]).op = "sleep" => killed[p] \/ beats - since[p] >= n
    /\ state[p] = "SLEEPING" /\ holder[TicksLock] = None => beats - since[p] < n
=============================================================================
