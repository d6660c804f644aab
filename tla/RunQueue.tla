------------------------------ MODULE RunQueue ------------------------------
(***************************************************************************)
(* One run queue of the MLFQ kernel (kernel/queue.c): a ring buffer of     *)
(* NPROC pointers with its first index and its size.                       *)
(*                                                                         *)
(* enque() and deque() run under aux_lock.  The scheduler's emptiness test *)
(* does not: queue_empty() reads the size while another CPU may be inside  *)
(* enque(), which raises the size before it stores the pointer.  What      *)
(* makes the test usable is queue_lock, which every scheduler holds from   *)
(* the test until it has taken a process out.                              *)
(*                                                                         *)
(* A step is one access to memory another CPU can see.                     *)
(***************************************************************************)
EXTENDS Integers, Sequences, FiniteSets

CONSTANTS
  CPUs,     \* the CPUs that call enque() and scheduler()
  Procs,    \* the entries of the process table
  NPROC,    \* capacity of the ring
  NULL      \* the null pointer; also "nobody holds the lock"

\* The ring has a place for every entry of the process table:
\* struct proc proc[NPROC] and struct proc *elems[NPROC].
ASSUME RingAssumption ==
  /\ NPROC \in Nat \ {0}
  /\ IsFiniteSet(Procs)
  /\ Cardinality(Procs) <= NPROC
  /\ NULL \notin Procs
  /\ NULL \notin CPUs

VARIABLES
  elems,        \* q->elems
  begin,        \* q->begin
  size,         \* q->size
  aux_lock,     \* the CPU that holds aux_lock
  queue_lock,   \* the CPU that holds queue_lock
  pc,           \* what each CPU is doing
  arg           \* the process it queues, or the one it has taken out

vars == <<elems, begin, size, aux_lock, queue_lock, pc, arg>>

Steps == {"idle", "enque", "store", "scan", "deque", "picked", "panic"}

TypeOK ==
  /\ elems \in [0..(NPROC - 1) -> Procs \cup {NULL}]
  /\ begin \in 0..(NPROC - 1)
  /\ size \in 0..NPROC
  /\ aux_lock \in CPUs \cup {NULL}
  /\ queue_lock \in CPUs \cup {NULL}
  /\ pc \in [CPUs -> Steps]
  /\ arg \in [CPUs -> Procs \cup {NULL}]

-----------------------------------------------------------------------------
\* The i-th slot after the first one, around the end of the array.
Slot(i) == (begin + i) % NPROC

\* A CPU between size++ and the store of the pointer.
Storing == \E c \in CPUs : pc[c] = "store"

\* How many slots hold a process that was completely queued.
Stored == IF Storing THEN size - 1 ELSE size

\* The queued processes, the oldest first.
Contents == [i \in 1..Stored |-> elems[Slot(i - 1)]]

\* Processes that a CPU is moving in or out of the queue.
Moving == {arg[c] : c \in {d \in CPUs : pc[d] \in {"enque", "store", "picked"}}}

\* The processes that enque() may be called with: proc.c queues a process
\* only when it is in no queue and in no scheduler's hands.
Absent == {p \in Procs : p \notin Moving /\ \A i \in 1..Stored : Contents[i] # p}

\* What acquire() waits for, on each of the two locks.  (Mutant: the
\* scheduler does without.)
AuxLockFree == aux_lock = NULL

QueueLockFree_Unlocked == TRUE
QueueLockFree == queue_lock = NULL

\* Where the claimed place is, once the size has been raised.
Position_OffByOne == Slot(size)
Position == Slot(size - 1)

\* The new first index after a deque().
NextBegin_NoWrap == begin + 1
NextBegin == Slot(1)

Init ==
  /\ elems = [i \in 0..(NPROC - 1) |-> NULL]
  /\ begin = 0
  /\ size = 0
  /\ aux_lock = NULL
  /\ queue_lock = NULL
  /\ pc = [c \in CPUs |-> "idle"]
  /\ arg = [c \in CPUs |-> NULL]

-----------------------------------------------------------------------------
\* A caller in proc.c enters enque().
EnqueCall(c, p) ==
  /\ pc[c] = "idle"
  /\ p \in Absent
  /\ pc' = [pc EXCEPT ![c] = "enque"]
  /\ arg' = [arg EXCEPT ![c] = p]
  /\ UNCHANGED <<elems, begin, size, aux_lock, queue_lock>>

\* acquire(&aux_lock); claim the place after the last one, or panic.
EnqueReserve(c) ==
  /\ pc[c] = "enque"
  /\ AuxLockFree
  /\ IF size < NPROC
     THEN /\ aux_lock' = c
          /\ size' = size + 1
          /\ pc' = [pc EXCEPT ![c] = "store"]
     ELSE /\ pc' = [pc EXCEPT ![c] = "panic"]
          /\ UNCHANGED <<aux_lock, size>>
  /\ UNCHANGED <<elems, begin, queue_lock, arg>>

\* Store the pointer in the claimed place; release(&aux_lock).
EnqueStore(c) ==
  /\ pc[c] = "store"
  /\ elems' = [elems EXCEPT ![Position] = arg[c]]
  /\ aux_lock' = NULL
  /\ pc' = [pc EXCEPT ![c] = "idle"]
  /\ UNCHANGED <<begin, size, queue_lock, arg>>

\* scheduler(): acquire(&queue_lock).
ScanBegin(c) ==
  /\ pc[c] = "idle"
  /\ QueueLockFree
  /\ queue_lock' = c
  /\ pc' = [pc EXCEPT ![c] = "scan"]
  /\ UNCHANGED <<elems, begin, size, aux_lock, arg>>

\* queue_empty(), without aux_lock: either give up or go on to deque().
QueueEmpty(c) ==
  /\ pc[c] = "scan"
  /\ \/ /\ size = 0
        /\ queue_lock' = NULL
        /\ pc' = [pc EXCEPT ![c] = "idle"]
     \/ /\ size # 0
        /\ pc' = [pc EXCEPT ![c] = "deque"]
        /\ UNCHANGED queue_lock
  /\ UNCHANGED <<elems, begin, size, aux_lock, arg>>

\* deque(): take the first process out, or panic when there is none.
Deque(c) ==
  /\ pc[c] = "deque"
  /\ AuxLockFree
  /\ IF size > 0
     THEN /\ arg' = [arg EXCEPT ![c] = elems[begin]]
          /\ begin' = NextBegin
          /\ size' = size - 1
          /\ pc' = [pc EXCEPT ![c] = "picked"]
     ELSE /\ pc' = [pc EXCEPT ![c] = "panic"]
          /\ UNCHANGED <<arg, begin, size>>
  /\ UNCHANGED <<elems, aux_lock, queue_lock>>

\* The scheduler has the lock of the process it took and lets go of
\* queue_lock.
ScanEnd(c) ==
  /\ pc[c] = "picked"
  /\ queue_lock' = NULL
  /\ pc' = [pc EXCEPT ![c] = "idle"]
  /\ UNCHANGED <<elems, begin, size, aux_lock, arg>>

Next ==
  \E c \in CPUs :
    \/ \E p \in Procs : EnqueCall(c, p)
    \/ EnqueReserve(c)
    \/ EnqueStore(c)
    \/ ScanBegin(c)
    \/ QueueEmpty(c)
    \/ Deque(c)
    \/ ScanEnd(c)

Spec == Init /\ [][Next]_vars

-----------------------------------------------------------------------------
\* Neither panic() of queue.c is ever reached.  Overflow needs more calls
\* than processes; the empty deque() needs a second scheduler that takes the
\* last process between queue_empty() and deque().
NeverPanics == \A c \in CPUs : pc[c] # "panic"

\* The ring behaves as a first-in first-out queue in which no process is
\* lost, doubled or overtaken, although size and pointer are written in two
\* steps and the size is read without the lock.
Abstract == INSTANCE Fifo WITH waiting <- Contents
ImplementsFifo == Abstract!FifoSpec
=============================================================================
