-------------------------------- MODULE Boot --------------------------------
(***************************************************************************)
(* The start of the MLFQ kernel on several CPUs (kernel/main.c), down to   *)
(* the words of the two spin locks that are initialised late: aux_lock by  *)
(* the first enque() or deque() that finds inited == 0 (kernel/queue.c),   *)
(* queue_lock by CPU 0 when it enters scheduler() (kernel/proc.c), which   *)
(* is after it let the other CPUs go with started = 1.                     *)
(*                                                                         *)
(* A step is one access to memory shared by the CPUs.  The processes are   *)
(* only counted: the queues hold "size" of them.                           *)
(***************************************************************************)
EXTENDS Integers, FiniteSets

CONSTANTS
  CPUs,     \* the CPUs of the machine
  BOOT,     \* cpuid() == 0, one of CPUs
  NPROC,    \* capacity of the queue
  None      \* no CPU: struct cpu *cpu == 0

BootAssumption == BOOT \in CPUs /\ None \notin CPUs /\ NPROC \in Nat \ {0}

VARIABLES
  locked,   \* lk->locked of each lock
  holder,   \* lk->cpu of each lock
  inited,   \* inited of queue.c
  started,  \* started of main.c
  size,     \* how many processes are queued
  total,    \* how many processes exist
  op,       \* for what each CPU has called queue.c
  pc        \* where each CPU is

vars == <<locked, holder, inited, started, size, total, op, pc>>

Locks == {"queue_lock", "aux_lock"}

\* Where a CPU is with each of the locks: before the swap, after it, at the
\* release and before the last store of the release.
Phases == {"acquire", "own", "release", "unlock"}

\* userinit(), yield() and fork() call enque(), scheduler() calls deque().
Callers == {"none", "userinit", "yield", "fork", "deque"}

\* Where in which part of the code.
Steps ==
  {<<"main", s>> : s \in {"boot", "start", "wait"}}
  \cup {<<"scheduler", s>> : s \in {"init_locked", "init_cpu", "scan", "picked"}}
  \cup {<<"queue", s>> : s \in {"test_inited", "init_aux", "body"}}
  \cup {<<"proc", "run">>, <<"machine", "panic">>}
  \cup (Locks \X Phases)

TypeOK ==
  /\ locked \in [Locks -> BOOLEAN]
  /\ holder \in [Locks -> CPUs \cup {None}]
  /\ inited \in BOOLEAN
  /\ started \in BOOLEAN
  /\ size \in 0..NPROC
  /\ total \in 0..NPROC
  /\ op \in [CPUs -> Callers]
  /\ pc \in [CPUs -> Steps]

Goto(c, step) == pc' = [pc EXCEPT ![c] = step]

\* The whole of .bss is zero, so both locks look free and initialised.
Init ==
  /\ locked = [l \in Locks |-> FALSE]
  /\ holder = [l \in Locks |-> None]
  /\ inited = FALSE
  /\ started = FALSE
  /\ size = 0
  /\ total = 0
  /\ op = [c \in CPUs |-> "none"]
  /\ pc = [c \in CPUs |-> IF c = BOOT THEN <<"main", "boot">> ELSE <<"main", "wait">>]

-----------------------------------------------------------------------------
(* kernel/spinlock.c *)

Holding(c, l) == locked[l] /\ holder[l] = c

\* acquire(): panic when held already, else spin on the atomic swap.
Acquire(c, l) ==
  /\ pc[c] = <<l, "acquire">>
  /\ IF Holding(c, l)
     THEN /\ Goto(c, <<"machine", "panic">>)
          /\ UNCHANGED locked
     ELSE /\ ~locked[l]
          /\ locked' = [locked EXCEPT ![l] = TRUE]
          /\ Goto(c, <<l, "own">>)
  /\ UNCHANGED <<holder, inited, started, size, total, op>>

\* The end of acquire(), lk->cpu = mycpu(), and where the caller goes on.
Own(c, l) ==
  /\ pc[c] = <<l, "own">>
  /\ holder' = [holder EXCEPT ![l] = c]
  /\ Goto(c, IF l = "queue_lock" THEN <<"scheduler", "scan">> ELSE <<"queue", "body">>)
  /\ UNCHANGED <<locked, inited, started, size, total, op>>

\* release(): panic unless held, lk->cpu = 0.
Release(c, l) ==
  /\ pc[c] = <<l, "release">>
  /\ \/ /\ Holding(c, l)
        /\ holder' = [holder EXCEPT ![l] = None]
        /\ Goto(c, <<l, "unlock">>)
     \/ /\ ~Holding(c, l)
        /\ Goto(c, <<"machine", "panic">>)
        /\ UNCHANGED holder
  /\ UNCHANGED <<locked, inited, started, size, total, op>>

\* Where a CPU goes on after a release().
AfterRelease(c, l) ==
  CASE l = "queue_lock" /\ op[c] = "deque" -> <<"proc", "run">>
    [] l = "queue_lock" /\ op[c] # "deque" -> <<"queue_lock", "acquire">>
    [] l = "aux_lock" /\ op[c] = "userinit" -> <<"main", "start">>
    [] l = "aux_lock" /\ op[c] = "yield" -> <<"queue_lock", "acquire">>
    [] l = "aux_lock" /\ op[c] = "fork" -> <<"proc", "run">>
    [] l = "aux_lock" /\ op[c] = "deque" -> <<"scheduler", "picked">>

\* The end of release(), lk->locked = 0.
Unlock(c, l) ==
  /\ pc[c] = <<l, "unlock">>
  /\ locked' = [locked EXCEPT ![l] = FALSE]
  /\ Goto(c, AfterRelease(c, l))
  /\ op' = [op EXCEPT ![c] = IF AfterRelease(c, l) = <<"scheduler", "picked">> THEN @ ELSE "none"]
  /\ UNCHANGED <<holder, inited, started, size, total>>

-----------------------------------------------------------------------------
(* kernel/main.c *)

\* CPU 0 sets up the kernel; userinit() calls enque() for the first process.
UserInit(c) ==
  /\ pc[c] = <<"main", "boot">>
  /\ c = BOOT
  /\ total' = total + 1
  /\ op' = [op EXCEPT ![c] = "userinit"]
  /\ Goto(c, <<"queue", "test_inited">>)
  /\ UNCHANGED <<locked, holder, inited, started, size>>

\* started = 1; CPU 0 goes on to scheduler().
Start(c) ==
  /\ pc[c] = <<"main", "start">>
  /\ started' = TRUE
  /\ Goto(c, <<"scheduler", "init_locked">>)
  /\ UNCHANGED <<locked, holder, inited, size, total, op>>

\* while(started == 0); the other CPUs enter scheduler().
AwaitStarted(c) ==
  /\ pc[c] = <<"main", "wait">>
  /\ started
  /\ Goto(c, <<"queue_lock", "acquire">>)
  /\ UNCHANGED <<locked, holder, inited, started, size, total, op>>

-----------------------------------------------------------------------------
(* scheduler() *)

\* if(cpuid() == 0) initlock(&queue_lock): lk->locked = 0; lk->cpu = 0.
InitQueueLock(c) ==
  \/ /\ pc[c] = <<"scheduler", "init_locked">>
     /\ locked' = [locked EXCEPT !["queue_lock"] = FALSE]
     /\ Goto(c, <<"scheduler", "init_cpu">>)
     /\ UNCHANGED <<holder, inited, started, size, total, op>>
  \/ /\ pc[c] = <<"scheduler", "init_cpu">>
     /\ holder' = [holder EXCEPT !["queue_lock"] = None]
     /\ Goto(c, <<"queue_lock", "acquire">>)
     /\ UNCHANGED <<locked, inited, started, size, total, op>>

\* queue_empty(): either call deque() or release(&queue_lock) and try again.
Scan(c) ==
  /\ pc[c] = <<"scheduler", "scan">>
  /\ \/ /\ size > 0
        /\ op' = [op EXCEPT ![c] = "deque"]
        /\ Goto(c, <<"queue", "test_inited">>)
     \/ /\ size = 0
        /\ Goto(c, <<"queue_lock", "release">>)
        /\ UNCHANGED op
  /\ UNCHANGED <<locked, holder, inited, started, size, total>>

\* The process is locked; release(&queue_lock), then run it.
Picked(c) ==
  /\ pc[c] = <<"scheduler", "picked">>
  /\ Goto(c, <<"queue_lock", "release">>)
  /\ UNCHANGED <<locked, holder, inited, started, size, total, op>>

\* The process on this CPU queues itself and gives up the CPU, or queues a
\* child and goes on.
Run(c) ==
  /\ pc[c] = <<"proc", "run">>
  /\ \/ /\ op' = [op EXCEPT ![c] = "yield"]
        /\ UNCHANGED total
     \/ /\ total < NPROC
        /\ total' = total + 1
        /\ op' = [op EXCEPT ![c] = "fork"]
  /\ Goto(c, <<"queue", "test_inited">>)
  /\ UNCHANGED <<locked, holder, inited, started, size>>

-----------------------------------------------------------------------------
(* kernel/queue.c *)

\* if (!inited).
TestInited(c) ==
  /\ pc[c] = <<"queue", "test_inited">>
  /\ Goto(c, IF inited THEN <<"aux_lock", "acquire">> ELSE <<"queue", "init_aux">>)
  /\ UNCHANGED <<locked, holder, inited, started, size, total, op>>

\* initlock(&aux_lock, "aux"); inited = 1.  (Mutant: inited stays 0.)
InitAuxLock_Again(c) ==
  /\ pc[c] = <<"queue", "init_aux">>
  /\ locked' = [locked EXCEPT !["aux_lock"] = FALSE]
  /\ holder' = [holder EXCEPT !["aux_lock"] = None]
  /\ Goto(c, <<"aux_lock", "acquire">>)
  /\ UNCHANGED <<inited, started, size, total, op>>
InitAuxLock(c) ==
  /\ pc[c] = <<"queue", "init_aux">>
  /\ locked' = [locked EXCEPT !["aux_lock"] = FALSE]
  /\ holder' = [holder EXCEPT !["aux_lock"] = None]
  /\ inited' = TRUE
  /\ Goto(c, <<"aux_lock", "acquire">>)
  /\ UNCHANGED <<started, size, total, op>>

\* The tests of enque() and deque().
Possible(c) == IF op[c] = "deque" THEN size > 0 ELSE size < NPROC

\* The body of enque() and deque() under aux_lock.  Both release the lock
\* before they panic.
Body(c) ==
  /\ pc[c] = <<"queue", "body">>
  /\ \/ /\ Possible(c)
        /\ size' = IF op[c] = "deque" THEN size - 1 ELSE size + 1
        /\ Goto(c, <<"aux_lock", "release">>)
        /\ UNCHANGED <<locked, holder>>
     \/ /\ ~Possible(c)
        /\ locked' = [locked EXCEPT !["aux_lock"] = FALSE]
        /\ holder' = [holder EXCEPT !["aux_lock"] = None]
        /\ Goto(c, <<"machine", "panic">>)
        /\ UNCHANGED size
  /\ UNCHANGED <<inited, started, total, op>>

Next ==
  \E c \in CPUs :
    \/ \E l \in Locks : Acquire(c, l) \/ Own(c, l) \/ Release(c, l) \/ Unlock(c, l)
    \/ UserInit(c) \/ Start(c) \/ AwaitStarted(c)
    \/ InitQueueLock(c) \/ Scan(c) \/ Picked(c) \/ Run(c)
    \/ TestInited(c) \/ InitAuxLock(c) \/ Body(c)

Spec == Init /\ [][Next]_vars

-----------------------------------------------------------------------------
Inside(c, l) == pc[c] \in {<<l, "own">>, <<l, "release">>, <<l, "unlock">>}

\* At most one CPU is in the ring buffers, although aux_lock is initialised
\* by an unprotected test of inited: until the first process is queued, by
\* the CPU that boots, no other CPU has a reason to call queue.c.
AuxExclusion ==
  \A c, d \in CPUs :
    /\ Inside(c, "aux_lock") \/ pc[c] = <<"queue", "body">>
    /\ Inside(d, "aux_lock") \/ pc[d] = <<"queue", "body">>
    => c = d

\* What release() asserts (kernel/spinlock.c): the CPU that releases
\* queue_lock holds it.  The code does not keep it: CPU 0 initialises
\* queue_lock while another CPU can be between its acquire() and release().
QueueLockHeld ==
  \A c \in CPUs :
    pc[c] = <<"queue_lock", "release">> => Holding(c, "queue_lock")
=============================================================================
