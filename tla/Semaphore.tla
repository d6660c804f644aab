----------------------------- MODULE Semaphore -----------------------------
(***************************************************************************)
(* The named semaphores of lab02 (lab02/xv6-riscv-bit/kernel/semaphore.c): *)
(* a table of slots under general_lock, each with an id, a value and a     *)
(* lock of its own, and the calls sem_open, sem_close, sem_up, sem_down.   *)
(*                                                                         *)
(* The value of a slot is written under general_lock by sem_open, sem_up   *)
(* and sem_close, and under the lock of the slot by sem_down, so a step    *)
(* here is one load or one store of it.  A process that holds or waits     *)
(* for a spin lock has interrupts off and keeps its CPU: that is all       *)
(* that one CPU and several differ in.                                     *)
(*                                                                         *)
(* Every process works through a script, a sequence of calls.              *)
(***************************************************************************)
EXTENDS Integers, Sequences, FiniteSets

CONSTANTS
  NPROC,    \* processes; also the value that sem_close() sets first
  NSEM,     \* slots of the table
  CPUS,     \* how many CPUs the machine has
  Programs  \* what may run: records of the semaphores opened before the processes
            \* start, as <<id, value>>, and of the calls of each process

Procs == 1..NPROC
Slots == 1..NSEM
Closed == -1

\* The calls of user/user.h.
Open(id, v) == [op |-> "open", id |-> id, value |-> v]
Close(id) == [op |-> "close", id |-> id, value |-> 0]
Up(id) == [op |-> "up", id |-> id, value |-> 0]
Down(id) == [op |-> "down", id |-> id, value |-> 0]

ASSUME SemaphoreAssumption ==
  /\ NPROC \in Nat \ {0} /\ NSEM \in Nat \ {0} /\ CPUS \in Nat \ {0}
  /\ \A g \in Programs : Len(g.opened) <= NSEM

\* Programs in which a process closes only what nobody else takes from, and
\* whose semaphores have other ids than the 0 of a slot that was never used.
SemCalls == [op : {"open", "close", "up", "down"}, id : Int \ {0}, value : Int]
Orderly(g) ==
  /\ g.opened \in Seq((Int \ {0}) \X Nat) /\ g.calls \in [Procs -> Seq(SemCalls)]
  /\ \A p, q \in Procs : \A j \in DOMAIN g.calls[p], k \in DOMAIN g.calls[q] :
       p # q /\ g.calls[p][j].op = "close" /\ g.calls[q][k].op = "down" =>
         g.calls[p][j].id # g.calls[q][k].id

VARIABLES
  sem_id,        \* sems[i].sem_id
  value,         \* sems[i].value
  lock,          \* who holds sems[i].lock, 0 for nobody
  general_lock,  \* who holds general_lock
  lock_set,      \* general_lock has been initialised
  sem_are_set,   \* the table has been initialised
  script,        \* the calls that each process has still to make
  pc,            \* where each process is
  slot,          \* its aux_sem
  reg            \* the value it has loaded

table == <<sem_id, value>>
spinlocks == <<lock, general_lock>>
flags == <<lock_set, sem_are_set>>
vars == <<table, spinlocks, flags, script, pc, slot, reg>>

Interruptible == {"user", "open_init", "open", "close", "up", "down",
                  "asleep", "woken"}
Steps == Interruptible \cup
  {"open_scan", "close_scan", "close_wake", "close_mark", "up_scan",
   "up_store", "up_wake", "down_scan", "down_enter", "down_load",
   "down_store", "down_sleep", "down_exit", "release", "panic"}

TypeOK ==
  /\ value \in [Slots -> Nat \cup {Closed}]
  /\ lock \in [Slots -> 0..NPROC]
  /\ general_lock \in 0..NPROC
  /\ lock_set \in BOOLEAN /\ sem_are_set \in BOOLEAN
  /\ pc \in [Procs -> Steps]
  /\ slot \in [Procs -> Slots]
  /\ reg \in [Procs -> Int]

Goto(p, step) == pc' = [pc EXCEPT ![p] = step]
call(p) == Head(script[p])

\* push_off() succeeds: a CPU is free for a process that will keep it.
CpuFree ==
  Cardinality({p \in Procs : pc[p] \notin Interruptible}) < CPUS

\* acquire() returns.
GeneralFree == general_lock = 0
SlotFree(i) == lock[i] = 0

\* The loops over sems[] stop at the first slot they look for.
FirstOf(S) == CHOOSE i \in S : \A j \in S : i <= j
OpenSlots(id) == {i \in Slots : sem_id[i] = id /\ value[i] >= 0}

\* .bss is zero; the semaphores of the program were opened by the only
\* process there was.
Init ==
  \E g \in Programs :
  /\ script = g.calls
  /\ sem_id = [i \in Slots |-> IF i <= Len(g.opened) THEN g.opened[i][1] ELSE 0]
  /\ value = [i \in Slots |-> IF i <= Len(g.opened) THEN g.opened[i][2]
                              ELSE IF g.opened = << >> THEN 0 ELSE Closed]
  /\ lock = [i \in Slots |-> 0]
  /\ general_lock = 0
  /\ lock_set = (g.opened # << >>)
  /\ sem_are_set = (g.opened # << >>)
  /\ pc = [p \in Procs |-> "user"]
  /\ slot = [p \in Procs |-> 1]
  /\ reg = [p \in Procs |-> 0]

-----------------------------------------------------------------------------
(* What the four calls share *)

\* The call returns.
Return(p) ==
  /\ script' = [script EXCEPT ![p] = Tail(@)]
  /\ slot' = [slot EXCEPT ![p] = 1]
  /\ reg' = [reg EXCEPT ![p] = 0]
  /\ Goto(p, "user")

\* sem_open() refuses a negative value before anything else.
Valid(v) == v >= 0

OpenNegative(p) ==
  /\ pc[p] = "user"
  /\ script[p] # << >>
  /\ ~Valid(call(p).value)
  /\ Return(p)
  /\ UNCHANGED <<table, spinlocks, flags>>

\* The system call of the script.  sem_open() looks at lock_set before it
\* takes general_lock.
Enter(p) ==
  /\ pc[p] = "user"
  /\ script[p] # << >>
  /\ Valid(call(p).value)
  /\ Goto(p, IF call(p).op = "open" /\ ~lock_set THEN "open_init" ELSE call(p).op)
  /\ UNCHANGED <<table, spinlocks, flags, script, slot, reg>>

\* acquire(&general_lock).
Scanning == [open |-> "open_scan", close |-> "close_scan",
             up |-> "up_scan", down |-> "down_scan"]
AcquireGeneral(p) ==
  /\ pc[p] \in {"open", "close", "up", "down"}
  /\ CpuFree
  /\ GeneralFree
  /\ general_lock' = p
  /\ Goto(p, Scanning[pc[p]])
  /\ UNCHANGED <<table, lock, flags, script, slot, reg>>

\* release(&general_lock) at the end of a call, or the panic in release().
ReleaseGeneral(p) ==
  /\ pc[p] = "release"
  /\ IF general_lock = p
     THEN /\ general_lock' = 0
          /\ Return(p)
     ELSE /\ Goto(p, "panic")
          /\ UNCHANGED <<general_lock, script, slot, reg>>
  /\ UNCHANGED <<table, lock, flags>>

\* wakeup(&aux_sem->sem_id), at the end of sem_up() and inside sem_close().
\* The walk over the processes is one step: whoever comes to this sleep()
\* after the value was raised finds it raised.
Wakeup(p) ==
  LET woken == {q \in Procs : pc[q] = "asleep" /\ slot[q] = slot[p]} IN
  /\ pc[p] \in {"up_wake", "close_wake"}
  /\ pc' = [q \in Procs |->
              IF q \in woken THEN "woken"
              ELSE IF q # p THEN pc[q]
              ELSE IF pc[p] = "close_wake" THEN "close_mark" ELSE "release"]
  /\ UNCHANGED <<table, spinlocks, flags, script, slot, reg>>

-----------------------------------------------------------------------------
(* sem_open() *)

\* initlock(&general_lock); lock_set = true, by everyone who found it unset
\* and has a CPU.
OpenInit(p) ==
  /\ pc[p] = "open_init"
  /\ CpuFree
  /\ general_lock' = 0
  /\ lock_set' = TRUE
  /\ Goto(p, "open")
  /\ UNCHANGED <<table, lock, sem_are_set, script, slot, reg>>

\* set_sems() the first time; the first closed slot gets the id, the value
\* and a fresh lock.
OpenScan(p) ==
  LET old == IF sem_are_set THEN value ELSE [i \in Slots |-> Closed]
      free == {i \in Slots : old[i] = Closed}
      i == FirstOf(free)
  IN
  /\ pc[p] = "open_scan"
  /\ sem_are_set' = TRUE
  /\ \/ /\ free # {}
        /\ sem_id' = [sem_id EXCEPT ![i] = call(p).id]
        /\ value' = [old EXCEPT ![i] = call(p).value]
        /\ lock' = [lock EXCEPT ![i] = 0]
     \/ /\ free = {}
        /\ UNCHANGED <<sem_id, value, lock>>
  /\ Goto(p, "release")
  /\ UNCHANGED <<general_lock, lock_set, script, slot, reg>>

-----------------------------------------------------------------------------
(* sem_close() *)

\* The first slot with this id, if it is open: value = NPROC.  Without such
\* a slot the loop ends one past the table; what is there is taken not to
\* have the id.
CloseScan(p) ==
  LET found == {i \in Slots : sem_id[i] = call(p).id}
      i == FirstOf(found)
  IN
  /\ pc[p] = "close_scan"
  /\ \/ /\ found # {} /\ value[i] # Closed
        /\ value' = [value EXCEPT ![i] = NPROC]
        /\ slot' = [slot EXCEPT ![p] = i]
        /\ Goto(p, "close_wake")
     \/ /\ found = {} \/ value[i] = Closed
        /\ Goto(p, "release")
        /\ UNCHANGED <<value, slot>>
  /\ UNCHANGED <<sem_id, spinlocks, flags, script, reg>>

\* value = -1, once everybody has been woken.
CloseMark(p) ==
  /\ pc[p] = "close_mark"
  /\ value' = [value EXCEPT ![slot[p]] = Closed]
  /\ Goto(p, "release")
  /\ UNCHANGED <<sem_id, spinlocks, flags, script, slot, reg>>

-----------------------------------------------------------------------------
(* sem_up() *)

\* The first open slot with this id; its value is loaded for the test and
\* for the increment.
UpScan(p) ==
  LET i == FirstOf(OpenSlots(call(p).id)) IN
  /\ pc[p] = "up_scan"
  /\ \/ /\ OpenSlots(call(p).id) # {}
        /\ slot' = [slot EXCEPT ![p] = i]
        /\ reg' = [reg EXCEPT ![p] = value[i]]
        /\ Goto(p, "up_store")
     \/ /\ OpenSlots(call(p).id) = {}
        /\ Goto(p, "release")
        /\ UNCHANGED <<slot, reg>>
  /\ UNCHANGED <<table, spinlocks, flags, script>>

\* value += 1; wakeup() when it was 0.  (Mutant: the wakeup is forgotten.)
UpStore_NoWakeup(p) ==
  /\ pc[p] = "up_store"
  /\ value' = [value EXCEPT ![slot[p]] = reg[p] + 1]
  /\ Goto(p, "release")
  /\ UNCHANGED <<sem_id, spinlocks, flags, script, slot, reg>>
UpStore(p) ==
  /\ pc[p] = "up_store"
  /\ value' = [value EXCEPT ![slot[p]] = reg[p] + 1]
  /\ Goto(p, IF reg[p] = 0 THEN "up_wake" ELSE "release")
  /\ UNCHANGED <<sem_id, spinlocks, flags, script, slot, reg>>

-----------------------------------------------------------------------------
(* sem_down() *)

DownScan(p) ==
  /\ pc[p] = "down_scan"
  /\ \/ /\ OpenSlots(call(p).id) # {}
        /\ slot' = [slot EXCEPT ![p] = FirstOf(OpenSlots(call(p).id))]
        /\ Goto(p, "down_enter")
     \/ /\ OpenSlots(call(p).id) = {}
        /\ Goto(p, "release")
        /\ UNCHANGED slot
  /\ UNCHANGED <<table, spinlocks, flags, script, reg>>

\* acquire(&aux_sem->lock); release(&general_lock).
DownEnter(p) ==
  /\ pc[p] = "down_enter"
  /\ SlotFree(slot[p])
  /\ lock' = [lock EXCEPT ![slot[p]] = p]
  /\ IF general_lock = p
     THEN general_lock' = 0 /\ Goto(p, "down_load")
     ELSE Goto(p, "panic") /\ UNCHANGED general_lock
  /\ UNCHANGED <<table, flags, script, slot, reg>>

\* decrease(): the test for 0.  (Mutant: it sleeps only below 0.)
Blocks_Negative(v) == v < 0
Blocks(v) == v = 0

DownLoad(p) ==
  /\ pc[p] = "down_load"
  /\ reg' = [reg EXCEPT ![p] = value[slot[p]]]
  /\ Goto(p, IF Blocks(value[slot[p]]) THEN "down_sleep" ELSE "down_store")
  /\ UNCHANGED <<table, spinlocks, flags, script, slot>>

\* value -= 1.
DownStore(p) ==
  /\ pc[p] = "down_store"
  /\ value' = [value EXCEPT ![slot[p]] = reg[p] - 1]
  /\ Goto(p, "down_exit")
  /\ UNCHANGED <<sem_id, spinlocks, flags, script, slot, reg>>

\* sleep(&aux_sem->sem_id, &aux_sem->lock), which releases the lock.
DownSleep(p) ==
  /\ pc[p] = "down_sleep"
  /\ IF lock[slot[p]] = p
     THEN lock' = [lock EXCEPT ![slot[p]] = 0] /\ Goto(p, "asleep")
     ELSE Goto(p, "panic") /\ UNCHANGED lock
  /\ UNCHANGED <<table, general_lock, flags, script, slot, reg>>

\* The end of sleep() takes the lock of the slot again; decrease() calls
\* itself.  (Mutant: it goes on to decrement.)
AfterSleep_NoRetest == "down_store"
AfterSleep == "down_load"

DownAgain(p) ==
  /\ pc[p] = "woken"
  /\ CpuFree
  /\ SlotFree(slot[p])
  /\ lock' = [lock EXCEPT ![slot[p]] = p]
  /\ Goto(p, AfterSleep)
  /\ UNCHANGED <<table, general_lock, flags, script, slot, reg>>

\* release(&aux_sem->lock), return.
DownExit(p) ==
  /\ pc[p] = "down_exit"
  /\ IF lock[slot[p]] = p
     THEN lock' = [lock EXCEPT ![slot[p]] = 0] /\ Return(p)
     ELSE Goto(p, "panic") /\ UNCHANGED <<lock, script, slot, reg>>
  /\ UNCHANGED <<table, general_lock, flags>>

-----------------------------------------------------------------------------
Step(p) ==
  \/ OpenNegative(p) \/ Enter(p) \/ AcquireGeneral(p) \/ ReleaseGeneral(p)
  \/ Wakeup(p)
  \/ OpenInit(p) \/ OpenScan(p)
  \/ CloseScan(p) \/ CloseMark(p)
  \/ UpScan(p) \/ UpStore(p)
  \/ DownScan(p) \/ DownEnter(p) \/ DownLoad(p) \/ DownStore(p)
  \/ DownSleep(p) \/ DownAgain(p) \/ DownExit(p)

Next == \E p \in Procs : Step(p)

Spec == Init /\ [][Next]_vars

\* The CPUs do not stop while a process can run.  No more is needed for
\* programs that end: round robin gives every RUNNABLE process its turn.
FairSpec == Spec /\ WF_vars(Next)

-----------------------------------------------------------------------------
\* Nobody is in the middle of a critical section.
Quiet == \A p \in Procs : pc[p] \in Interruptible

\* sleep() promises that no wakeup is missed: when nobody is inside a call,
\* a process asleep in sem_down() finds nothing to take.  It holds on one
\* CPU.  On two, sem_up() can add and wake between the test of decrease()
\* and its sleep(), for it holds another lock.
NoLostWakeup ==
  Quiet => \A p \in Procs : pc[p] = "asleep" => value[slot[p]] = 0

\* What the README of lab02 says of decrease(): the value never becomes
\* negative (-1 marks a closed slot).  A process that sem_close() wakes
\* decrements the -1.
NeverNegative == \A i \in Slots : value[i] >= Closed

\* The values that count: a slot that is being closed has none any more.
Counts ==
  [i \in Slots |->
     IF ~sem_are_set \/ \E p \in Procs : pc[p] \in {"close_wake", "close_mark"} /\ slot[p] = i
     THEN Closed ELSE value[i]]

\* The calls that have not taken effect.
Unserved ==
  [p \in Procs |->
     IF pc[p] \in {"user", "release", "up_wake", "close_wake", "close_mark",
                  "down_exit", "panic"}
     THEN [op |-> "none"] ELSE call(p)]

\* The calls are single steps on a table of counting semaphores: each takes
\* effect at most once, and no unit is taken twice, nor lost.
Abstract == INSTANCE Counting WITH count <- Counts, calls <- Unserved
ImplementsCounting == Abstract!CountingSpec
=============================================================================
