------------------------------ MODULE ProcProofs ------------------------------
(* The types of the process table and of the scheduler; why two CPUs never *)
(* run the same process (DispatchInv of module Proc is inductive); what    *)
(* wait_lock and the spin lock of a sleep lock protect (LockInv), and what *)
(* follows.  For every number of CPUs, table entries and levels, and every *)
(* set of calls.                                                           *)
EXTENDS Proc, SequenceTheorems, TLAPS

-----------------------------------------------------------------------------
(* The types *)

LEMMA InitInProcs == INIT \in Procs /\ 1 \in Procs
  BY ProcAssumption DEF INIT, Procs

LEMMA LevelBounds ==
  /\ 0 \in Levels /\ (NPRIO - 1) \in Levels
  /\ \A l \in Levels : ((l + 1) % NPRIO) \in Levels
  /\ \A l \in Levels : (IF l > 0 THEN l - 1 ELSE 0) \in Levels
  /\ \A l \in Levels : (IF l <= 1 THEN l + 1 ELSE l) \in Levels
  BY ProcAssumption DEF Levels

LEMMA NextEntry == \A q \in Procs : q < NPROC => q + 1 \in Procs
  BY ProcAssumption DEF Procs

LEMMA StateNames ==
  {"UNUSED", "USED", "SLEEPING", "RUNNABLE", "RUNNING", "ZOMBIE"} \subseteq States
  BY DEF States

LEMMA StepNames ==
  {"user", "alloc", "fork_parent", "fork_queue", "critical", "wait_relock",
   "lock_relock", "reparent", "zombie", "exited", "wait_scan", "wait_sleep",
   "lock_test", "lock_sleep", "unlock", "wake_init", "wake_parent",
   "wake_lock"} \subseteq Steps
  BY DEF Steps, Interruptible, Waking

\* Queues stay sequences of processes.
LEMMA EnqueType ==
  ASSUME queues \in [Levels -> Seq(Procs)], NEW l \in Levels, NEW p \in Procs,
         Enque(l, p)
  PROVE  queues' \in [Levels -> Seq(Procs)]
  BY DEF Enque

\* The first of a queue is a process, the rest is a queue.
LEMMA DequeType ==
  ASSUME queues \in [Levels -> Seq(Procs)], NEW l \in Levels, queues[l] # << >>
  PROVE  /\ Head(queues[l]) \in Procs
         /\ [queues EXCEPT ![l] = Tail(@)] \in [Levels -> Seq(Procs)]
  <1>1. queues[l] \in Seq(Procs)
    OBVIOUS
  <1>2. Head(queues[l]) \in Procs /\ Tail(queues[l]) \in Seq(Procs)
    BY <1>1, HeadTailProperties
  <1>3. QED
    BY <1>2

\* The type invariant holds whatever the processes call and wherever they
\* are preempted; in particular no priority leaves the levels that have a
\* queue (yield() and sleep() in proc.c).
THEOREM TypeCorrect == Spec => []TypeOK
<1> USE InitInProcs, StateNames, StepNames DEF TypeOK
<1>1. Init => TypeOK
  BY LevelBounds DEF Init
<1>2. TypeOK /\ [Next]_vars => TypeOK'
  <2> SUFFICES ASSUME TypeOK, [Next]_vars PROVE TypeOK'
    OBVIOUS
  <2> USE DEF Goto
  <2>1. ASSUME NEW c \in CPUs, ScanBegin(c) PROVE TypeOK'
    BY <2>1 DEF ScanBegin, entry, local, cursors, services, cpu
  <2>2. ASSUME NEW c \in CPUs, Scan(c) PROVE TypeOK'
    <3>1. lvl[c] \in Levels
      OBVIOUS
    <3>2. CASE queues[lvl[c]] # << >>
      <4>1. /\ queues' \in [Levels -> Seq(Procs)]
            /\ picked' \in [CPUs -> Procs \cup {None}]
            /\ UNCHANGED <<queue_lock, lvl>>
        <5>1. /\ picked' = [picked EXCEPT ![c] = Head(queues[lvl[c]])]
              /\ queues' = [queues EXCEPT ![lvl[c]] = Tail(@)]
              /\ UNCHANGED <<queue_lock, lvl>>
          BY <2>2, <3>2 DEF Scan
        <5>2. QED
          BY <3>1, <3>2, <5>1, DequeType
      <4>2. QED
        BY <2>2, <4>1 DEF Scan, entry, local, cursors, services
    <3>3. CASE queues[lvl[c]] = << >>
      BY <2>2, <3>1, <3>3, LevelBounds DEF Scan, entry, local, cursors, services
    <3>4. QED
      BY <3>2, <3>3
  <2>3. ASSUME NEW c \in CPUs, Dispatch(c) PROVE TypeOK'
    <3>1. picked[c] \in Procs
      BY <2>3 DEF Dispatch
    <3>2. QED
      BY <2>3, <3>1, LevelBounds DEF Dispatch, local, cursors, services
  <2>4. ASSUME NEW c \in CPUs, NEW p \in Procs, Resume(c, p) PROVE TypeOK'
    BY <2>4 DEF Resume, local, cursors, services, scheduling, cpu
  <2>5. ASSUME NEW c \in CPUs, NEW p \in Procs, Swtch(c, p) PROVE TypeOK'
    BY <2>5 DEF Swtch, entry, local, cursors, services
  <2>6. ASSUME NEW c \in CPUs, NEW p \in Procs, Yield(c, p) PROVE TypeOK'
    <3>1. LowerLevel(p) \in Levels
      BY LevelBounds DEF LowerLevel
    <3>2. queues' \in [Levels -> Seq(Procs)]
      BY <2>6, <3>1, EnqueType DEF Yield
    <3>3. QED
      BY <2>6, <3>1, <3>2
         DEF Yield, local, cursors, services, scheduling, cpu
  <2>7. ASSUME NEW c \in CPUs, NEW p \in Procs, Sleep(c, p) PROVE TypeOK'
    <3>1. SleepReturn(p) \in Steps
      BY DEF SleepReturn
    <3>2. priority' \in [Procs -> Levels]
      BY <2>7, LevelBounds DEF Sleep
    <3>3. chan' \in [Procs -> Procs \cup {SleepChan, None}]
      <4>1. CASE pc[p] = "wait_sleep"
        BY <2>7, <4>1 DEF Sleep
      <4>2. CASE pc[p] = "lock_sleep"
        BY <2>7, <4>2 DEF Sleep
      <4>3. QED
        BY <2>7, <4>1, <4>2 DEF Sleep
    <3>4. /\ wait_lock' \in CPUs \cup {None}
          /\ spin' \in CPUs \cup {None}
      BY <2>7 DEF Sleep
    <3>5. QED
      BY <2>7, <3>1, <3>2, <3>3, <3>4 DEF Sleep, cursors, scheduling, cpu
  <2>8. ASSUME NEW c \in CPUs, NEW p \in Procs, Wakeup(c, p) PROVE TypeOK'
    <3>1. wcur[p] \in Procs
      OBVIOUS
    <3>2. state' \in [Procs -> States] /\ queues' \in [Levels -> Seq(Procs)]
      <4>1. CASE wcur[p] # p /\ Wakes(p, wcur[p])
        <5>1. /\ Enque(priority[wcur[p]], wcur[p])
              /\ state' = [state EXCEPT ![wcur[p]] = "RUNNABLE"]
          BY <2>8, <4>1 DEF Wakeup
        <5>2. QED
          BY <3>1, <5>1, EnqueType
      <4>2. CASE ~(wcur[p] # p /\ Wakes(p, wcur[p]))
        BY <2>8, <4>2 DEF Wakeup
      <4>3. QED
        BY <4>1, <4>2
    <3>3. WakeupReturn(p) \in Steps
      BY <2>8 DEF Wakeup, Waking, WakeupReturn
    <3>4. wcur' \in [Procs -> Procs] /\ pc' \in [Procs -> Steps]
      <4>1. CASE wcur[p] < NPROC
        <5>1. wcur' = [wcur EXCEPT ![p] = wcur[p] + 1] /\ pc' = pc
          BY <2>8, <4>1, ProcAssumption DEF Wakeup
        <5>2. QED
          BY <3>1, <4>1, <5>1, NextEntry
      <4>2. CASE wcur[p] = NPROC
        <5>1. wcur' = [wcur EXCEPT ![p] = 1] /\ Goto(p, WakeupReturn(p))
          BY <2>8, <4>2, ProcAssumption DEF Wakeup
        <5>2. QED
          BY <3>3, <5>1
      <4>3. QED
        BY <2>8, <4>1, <4>2 DEF Wakeup
    <3>5. QED
      BY <2>8, <3>2, <3>4 DEF Wakeup, services, scheduling, cpu
  <2>9. ASSUME NEW c \in CPUs, NEW p \in Procs, NEW t \in Victims, Kill(c, p, t)
        PROVE TypeOK'
    <3>1. t \in Procs
      BY ProcAssumption
    <3>2. state' \in [Procs -> States] /\ queues' \in [Levels -> Seq(Procs)]
      <4>1. CASE KillWakes(t)
        <5>1. Enque(0, t) /\ state' = [state EXCEPT ![t] = "RUNNABLE"]
          BY <2>9, <4>1 DEF Kill
        <5>2. QED
          BY <3>1, <5>1, EnqueType, LevelBounds
      <4>2. CASE ~KillWakes(t)
        BY <2>9, <4>2 DEF Kill
      <4>3. QED
        BY <4>1, <4>2
    <3>3. QED
      BY <2>9, <3>1, <3>2 DEF Kill, local, cursors, services, scheduling, cpu
  <2>10. ASSUME NEW c \in CPUs, NEW p \in Procs, ForkCall(c, p) PROVE TypeOK'
    BY <2>10 DEF ForkCall, entry, cursors, services, scheduling, cpu
  <2>11. ASSUME NEW c \in CPUs, NEW p \in Procs, AllocProc(c, p) PROVE TypeOK'
    <3> DEFINE q == cur[p]
    <3>1. q \in Procs
      OBVIOUS
    <3>2. CASE /\ state' = [state EXCEPT ![q] = "USED"]
               /\ priority' = [priority EXCEPT ![q] = NPRIO - 1]
               /\ pc' = [pc EXCEPT ![p] = "fork_parent", ![q] = "user"]
               /\ UNCHANGED cur
      BY <2>11, <3>1, <3>2, LevelBounds DEF AllocProc, services, scheduling, cpu
    <3>3. CASE /\ q < NPROC
               /\ cur' = [cur EXCEPT ![p] = q + 1]
               /\ UNCHANGED <<state, priority, pc>>
      BY <2>11, <3>1, <3>3, NextEntry DEF AllocProc, services, scheduling, cpu
    <3>4. CASE /\ cur' = [cur EXCEPT ![p] = 1]
               /\ Goto(p, "user")
               /\ UNCHANGED <<state, priority>>
      BY <2>11, <3>4 DEF AllocProc, services, scheduling, cpu
    <3>5. QED
      BY <2>11, <3>2, <3>3, <3>4 DEF AllocProc
  <2>12. ASSUME NEW c \in CPUs, NEW p \in Procs, ForkParent(c, p) PROVE TypeOK'
    BY <2>12 DEF ForkParent, cursors, services, scheduling, cpu
  <2>13. ASSUME NEW c \in CPUs, NEW p \in Procs, ForkQueue(c, p) PROVE TypeOK'
    <3>1. cur[p] \in Procs /\ priority[p] \in Levels
      OBVIOUS
    <3>2. queues' \in [Levels -> Seq(Procs)]
      BY <2>13, <3>1, EnqueType DEF ForkQueue, ChildLevel
    <3>3. QED
      BY <2>13, <3>1, <3>2 DEF ForkQueue, services, scheduling, cpu
  <2>14. ASSUME NEW c \in CPUs, NEW p \in Procs, Exit(c, p) PROVE TypeOK'
    BY <2>14 DEF Exit, entry, cursors, scheduling, cpu
  <2>15. ASSUME NEW c \in CPUs, NEW p \in Procs, Reparent(c, p) PROVE TypeOK'
    <3> DEFINE q == cur[p]
    <3>1. q \in Procs /\ (IF q < NPROC THEN q + 1 ELSE 1) \in Procs
      BY NextEntry
    <3>2. CASE Abandoned(p, q)
      <4>1. /\ parent' = [parent EXCEPT ![q] = INIT]
            /\ Goto(p, "wake_init") /\ cur' = cur
        BY <2>15, <3>2 DEF Reparent
      <4>2. QED
        BY <2>15, <3>1, <4>1 DEF Reparent, services, scheduling, cpu
    <3>3. CASE ~Abandoned(p, q)
      <4>1. /\ cur' = [cur EXCEPT ![p] = IF q < NPROC THEN q + 1 ELSE 1]
            /\ Goto(p, IF q < NPROC THEN "reparent" ELSE "wake_parent")
            /\ parent' = parent
        BY <2>15, <3>3 DEF Reparent
      <4>2. cur' \in [Procs -> Procs] /\ pc' \in [Procs -> Steps]
        BY <3>1, <4>1
      <4>3. QED
        BY <2>15, <4>1, <4>2 DEF Reparent, services, scheduling, cpu
    <3>4. QED
      BY <3>2, <3>3
  <2>16. ASSUME NEW c \in CPUs, NEW p \in Procs, BecomeZombie(c, p) PROVE TypeOK'
    BY <2>16 DEF BecomeZombie, cursors, scheduling, cpu
  <2>17. ASSUME NEW c \in CPUs, NEW p \in Procs, WaitBegin(c, p) PROVE TypeOK'
    BY <2>17 DEF WaitBegin, entry, cursors, scheduling, cpu
  <2>18. ASSUME NEW c \in CPUs, NEW p \in Procs, WaitReturn(c, p) PROVE TypeOK'
    <3>1. /\ state' \in [Procs -> States]
          /\ parent' \in [Procs -> Procs \cup {None}]
          /\ chan' \in [Procs -> Procs \cup {SleepChan, None}]
          /\ killed' \in [Procs -> BOOLEAN]
      <4>1. CASE /\ state' = [state EXCEPT ![cur[p]] = "UNUSED"]
                 /\ parent' = [parent EXCEPT ![cur[p]] = None]
                 /\ chan' = [chan EXCEPT ![cur[p]] = None]
                 /\ killed' = [killed EXCEPT ![cur[p]] = FALSE]
        BY <4>1
      <4>2. CASE UNCHANGED <<state, parent, chan, killed>>
        BY <4>2
      <4>3. QED
        BY <2>18, <4>1, <4>2 DEF WaitReturn
    <3>2. QED
      BY <2>18, <3>1 DEF WaitReturn, scheduling, cpu
  <2>19. ASSUME NEW c \in CPUs, NEW p \in Procs, WaitNext(c, p) PROVE TypeOK'
    <3>1. cur' \in [Procs -> Procs]
      BY <2>19, NextEntry DEF WaitNext
    <3>2. pc' \in [Procs -> Steps] /\ wait_lock' \in CPUs \cup {None}
      <4>1. CASE UNCHANGED <<pc, wait_lock>>
        BY <4>1
      <4>2. CASE wait_lock' = None /\ Goto(p, "user")
        BY <4>2
      <4>3. CASE Goto(p, "wait_sleep") /\ UNCHANGED wait_lock
        BY <4>3
      <4>4. QED
        BY <2>19, <4>1, <4>2, <4>3 DEF WaitNext
    <3>3. QED
      BY <2>19, <3>1, <3>2 DEF WaitNext, entry, scheduling, cpu
  <2>20. ASSUME NEW c \in CPUs, NEW p \in Procs, LockBegin(c, p) PROVE TypeOK'
    BY <2>20 DEF LockBegin, entry, cursors, scheduling, cpu
  <2>21. ASSUME NEW c \in CPUs, NEW p \in Procs, LockTest(c, p) PROVE TypeOK'
    <3>1. /\ owner' \in {p, owner} /\ spin' \in {spin, None}
          /\ Goto(p, "critical") \/ Goto(p, "lock_sleep")
      BY <2>21 DEF LockTest
    <3>2. /\ owner' \in Procs \cup {None} /\ spin' \in CPUs \cup {None}
          /\ pc' \in [Procs -> Steps]
      <4>1. CASE Goto(p, "critical")
        BY <3>1, <4>1
      <4>2. CASE Goto(p, "lock_sleep")
        BY <3>1, <4>2
      <4>3. QED
        BY <3>1, <4>1, <4>2
    <3>3. QED
      BY <2>21, <3>2 DEF LockTest, entry, cursors, scheduling, cpu
  <2>22. ASSUME NEW c \in CPUs, NEW p \in Procs, Unlock(c, p) PROVE TypeOK'
    BY <2>22 DEF Unlock, entry, cursors, scheduling, cpu
  <2>23. ASSUME NEW c \in CPUs, NEW p \in Procs, UnlockEnd(c, p) PROVE TypeOK'
    BY <2>23 DEF UnlockEnd, entry, cursors, scheduling, cpu
  <2>24. CASE UNCHANGED vars
    BY <2>24 DEF vars, entry, local, cursors, services, scheduling, cpu
  <2>25. QED
    BY <2>1, <2>2, <2>3, <2>4, <2>5, <2>6, <2>7, <2>8, <2>9, <2>10, <2>11,
       <2>12, <2>13, <2>14, <2>15, <2>16, <2>17, <2>18, <2>19, <2>20, <2>21,
       <2>22, <2>23, <2>24
       DEF Next, SchedulerStep, KernelStep, EntryStep, Preempt
<1>3. QED
  BY <1>1, <1>2, PTL DEF Spec

-----------------------------------------------------------------------------
(* The queues *)

\* What enque() changes for everybody.
LEMMA EnqueEffect ==
  ASSUME queues \in [Levels -> Seq(Procs)], NEW l \in Levels, NEW p \in Procs,
         Enque(l, p)
  PROVE  /\ \A q \in Procs : Queued(q)' <=> Queued(q) \/ q = p
         /\ NoDuplicates /\ ~Queued(p) => NoDuplicates'
<1> DEFINE s == queues[l]
<1>1. s \in Seq(Procs) /\ Len(s) \in Nat
  OBVIOUS
<1>2. /\ Len(queues'[l]) = Len(s) + 1
      /\ queues'[l][Len(s) + 1] = p
      /\ \A i \in 1..Len(s) : queues'[l][i] = s[i]
      /\ \A m \in Levels \ {l} : queues'[m] = queues[m]
  BY <1>1 DEF Enque
<1>3. \A m \in Levels : Len(queues[m]) \in Nat
  OBVIOUS
<1>4. ASSUME NEW q \in Procs PROVE Queued(q)' <=> Queued(q) \/ q = p
  <2>1. ASSUME Queued(q) PROVE Queued(q)'
    <3>1. PICK m \in Levels : \E i \in 1..Len(queues[m]) : queues[m][i] = q
      BY <2>1 DEF Queued
    <3>2. PICK i \in 1..Len(queues[m]) : queues[m][i] = q
      BY <3>1
    <3>3. i \in 1..Len(queues'[m]) /\ queues'[m][i] = q
      BY <1>1, <1>2, <1>3, <3>2
    <3>4. QED
      BY <3>3 DEF Queued
  <2>2. ASSUME q = p PROVE Queued(q)'
    <3>1. Len(s) + 1 \in 1..Len(queues'[l])
      BY <1>1, <1>2
    <3>2. QED
      BY <1>2, <2>2, <3>1 DEF Queued
  <2>3. ASSUME Queued(q)', q # p PROVE Queued(q)
    <3>1. PICK m \in Levels : \E i \in 1..Len(queues'[m]) : queues'[m][i] = q
      BY <2>3 DEF Queued
    <3>2. PICK i \in 1..Len(queues'[m]) : queues'[m][i] = q
      BY <3>1
    <3>3. i \in 1..Len(queues[m]) /\ queues[m][i] = q
      BY <1>1, <1>2, <2>3, <3>2
    <3>4. QED
      BY <3>3 DEF Queued
  <2>4. QED
    BY <2>1, <2>2, <2>3
<1>5. ASSUME NoDuplicates, ~Queued(p) PROVE NoDuplicates'
  <2>1. SUFFICES ASSUME NEW a \in Levels, NEW b \in Levels,
                        NEW i \in 1..Len(queues'[a]), NEW j \in 1..Len(queues'[b]),
                        queues'[a][i] = queues'[b][j]
                 PROVE  a = b /\ i = j
    BY DEF NoDuplicates
  <2> DEFINE New(m, k) == m = l /\ k = Len(s) + 1
  <2>2. ASSUME NEW m \in Levels, NEW k \in 1..Len(queues'[m]), ~New(m, k)
        PROVE  k \in 1..Len(queues[m]) /\ queues'[m][k] = queues[m][k]
    BY <1>1, <1>2, <2>2
  <2>3. ASSUME NEW m \in Levels, NEW k \in 1..Len(queues'[m]), ~New(m, k)
        PROVE  queues'[m][k] # p
    BY <1>5, <2>2, <2>3 DEF Queued
  <2>4. CASE New(a, i) /\ New(b, j)
    BY <2>4
  <2>5. CASE New(a, i) /\ ~New(b, j)
    <3>1. queues'[a][i] = p
      BY <1>2, <2>5
    <3>2. QED
      BY <2>1, <2>3, <2>5, <3>1
  <2>6. CASE ~New(a, i) /\ New(b, j)
    <3>1. queues'[b][j] = p
      BY <1>2, <2>6
    <3>2. QED
      BY <2>1, <2>3, <2>6, <3>1
  <2>7. CASE ~New(a, i) /\ ~New(b, j)
    <3>1. /\ i \in 1..Len(queues[a]) /\ queues'[a][i] = queues[a][i]
          /\ j \in 1..Len(queues[b]) /\ queues'[b][j] = queues[b][j]
      BY <2>2, <2>7
    <3>2. queues[a][i] = queues[b][j]
      BY <2>1, <3>1
    <3>3. QED
      BY <1>5, <3>1, <3>2 DEF NoDuplicates
  <2>8. QED
    BY <2>4, <2>5, <2>6, <2>7
<1>6. QED
  BY <1>4, <1>5

\* What deque() changes for everybody: the head leaves, for good when it
\* was in the queues once.
LEMMA DequeEffect ==
  ASSUME queues \in [Levels -> Seq(Procs)], NEW l \in Levels,
         queues[l] # << >>, queues' = [queues EXCEPT ![l] = Tail(@)],
         NoDuplicates
  PROVE  /\ Head(queues[l]) \in Procs /\ Queued(Head(queues[l]))
         /\ \A q \in Procs : Queued(q)' <=> Queued(q) /\ q # Head(queues[l])
         /\ NoDuplicates'
<1> DEFINE s == queues[l]
           h == Head(s)
           Shift(m) == IF m = l THEN 1 ELSE 0
<1>1. s \in Seq(Procs) /\ Len(s) \in Nat /\ Len(s) >= 1
  BY EmptySeq
<1>2. h = s[1] /\ h \in Procs
  BY <1>1, HeadTailProperties
<1>3. Len(Tail(s)) = Len(s) - 1 /\ \A i \in 1..(Len(s) - 1) : Tail(s)[i] = s[i + 1]
  BY <1>1, HeadTailProperties
<1>4. \A m \in Levels : Len(queues[m]) \in Nat
  OBVIOUS
<1>5. \A m \in Levels \ {l} : queues'[m] = queues[m]
  OBVIOUS
<1>6. queues'[l] = Tail(s)
  OBVIOUS
<1>7. ASSUME NEW m \in Levels, NEW i \in 1..Len(queues'[m])
      PROVE  /\ i + Shift(m) \in 1..Len(queues[m])
             /\ queues'[m][i] = queues[m][i + Shift(m)]
             /\ ~(m = l /\ i + Shift(m) = 1)
  <2>1. CASE m = l
    BY <1>1, <1>3, <1>6, <2>1
  <2>2. CASE m # l
    BY <1>4, <1>5, <2>2
  <2>3. QED
    BY <2>1, <2>2
<1>8. ASSUME NEW m \in Levels, NEW i \in 1..Len(queues[m]), ~(m = l /\ i = 1)
      PROVE  /\ i - Shift(m) \in 1..Len(queues'[m])
             /\ queues'[m][i - Shift(m)] = queues[m][i]
  <2>1. CASE m = l
    BY <1>1, <1>3, <1>6, <1>8, <2>1
  <2>2. CASE m # l
    BY <1>4, <1>5, <2>2
  <2>3. QED
    BY <2>1, <2>2
<1>9. Queued(h)
  BY <1>1, <1>2 DEF Queued
<1>10. ASSUME NEW q \in Procs PROVE Queued(q)' <=> Queued(q) /\ q # h
  <2>1. ASSUME Queued(q)' PROVE Queued(q) /\ q # h
    <3>1. PICK m \in Levels : \E i \in 1..Len(queues'[m]) : queues'[m][i] = q
      BY <2>1 DEF Queued
    <3>2. PICK i \in 1..Len(queues'[m]) : queues'[m][i] = q
      BY <3>1
    <3> DEFINE k == i + Shift(m)
    <3>3. k \in 1..Len(queues[m]) /\ queues[m][k] = q /\ ~(m = l /\ k = 1)
      BY <1>7, <3>2
    <3> HIDE DEF k
    <3>4. q # h
      BY <1>1, <1>2, <3>3 DEF NoDuplicates
    <3>5. QED
      BY <3>3, <3>4 DEF Queued
  <2>2. ASSUME Queued(q), q # h PROVE Queued(q)'
    <3>1. PICK m \in Levels : \E i \in 1..Len(queues[m]) : queues[m][i] = q
      BY <2>2 DEF Queued
    <3>2. PICK i \in 1..Len(queues[m]) : queues[m][i] = q
      BY <3>1
    <3>3. ~(m = l /\ i = 1)
      BY <1>2, <2>2, <3>2
    <3>4. i - Shift(m) \in 1..Len(queues'[m]) /\ queues'[m][i - Shift(m)] = q
      BY <1>8, <3>2, <3>3
    <3>5. QED
      BY <3>4 DEF Queued
  <2>3. QED
    BY <2>1, <2>2
<1>11. NoDuplicates'
  <2>1. SUFFICES ASSUME NEW a \in Levels, NEW b \in Levels,
                        NEW i \in 1..Len(queues'[a]), NEW j \in 1..Len(queues'[b]),
                        queues'[a][i] = queues'[b][j]
                 PROVE  a = b /\ i = j
    BY DEF NoDuplicates
  <2>2. a = b /\ i + Shift(a) = j + Shift(b)
    BY <1>7, <2>1 DEF NoDuplicates
  <2>3. i \in Int /\ j \in Int
    BY <1>3, <1>1, <1>4, <1>5, <1>6
  <2>4. QED
    BY <2>2, <2>3
<1>12. QED
  BY <1>2, <1>9, <1>10, <1>11
-----------------------------------------------------------------------------
(* What a step keeps *)

\* fork() keeps its child as long as the caller stays where it is.
LEMMA OwnChildKept ==
  ASSUME OwnChild, Forking' \subseteq Forking,
         \A q \in Forking' :
           cur'[q] = cur[q] /\ (state[cur[q]] = "USED" => state'[cur[q]] = "USED")
  PROVE  OwnChild'
  BY DEF OwnChild

\* The caller p moves to a step that is not one of fork()'s.
LEMMA LocalMove ==
  ASSUME TypeOK, OwnChild, NEW p \in Procs, NEW step \in Steps,
         step \notin {"fork_parent", "fork_queue"}, Goto(p, step),
         \A q \in Procs \ {p} : cur'[q] = cur[q],
         \A q \in Procs : state[q] = "USED" => state'[q] = "USED"
  PROVE  OwnChild'
<1>1. Forking' \subseteq Forking \ {p}
  BY DEF Forking, Goto, TypeOK
<1>2. \A q \in Forking' : q \in Procs /\ cur[q] \in Procs
  BY <1>1 DEF Forking, TypeOK
<1>3. QED
  BY <1>1, <1>2, OwnChildKept DEF Forking

\* Steps that touch neither the queues nor the CPUs.
LEMMA QuietStep ==
  ASSUME DispatchInv, OwnChild',
         UNCHANGED <<state, queues, plock, queue_lock, ctx, picked>>
  PROVE  DispatchInv'
<1>1. QueuedOnce'
  BY DEF DispatchInv, QueuedOnce, NoDuplicates, Queued, Picked
<1>2. (ScansLocked /\ LockedOnItsCpu /\ OnCpu /\ OneCpuPerProcess)'
  BY DEF DispatchInv, ScansLocked, LockedOnItsCpu, OnCpu, OneCpuPerProcess
<1>3. QED
  BY <1>1, <1>2 DEF DispatchInv

\* The process a CPU executes is RUNNING, so in no queue and in no
\* scheduler's hands.
LEMMA RunningAlone ==
  ASSUME TypeOK, DispatchInv, NEW c \in CPUs, NEW p \in Procs, Runs(c, p)
  PROVE  /\ state[p] = "RUNNING" /\ ~Queued(p) /\ ~Picked(p)
         /\ c # None /\ p # None
<1>1. c # None /\ p # None
  BY ProcAssumption
<1>2. state[p] = "RUNNING"
  BY <1>1 DEF Runs, DispatchInv, OnCpu
<1>3. QED
  BY <1>1, <1>2 DEF DispatchInv, QueuedOnce

\* An entry whose lock is free is on no CPU, unless it is RUNNING.
LEMMA FreeIsOffCpu ==
  ASSUME TypeOK, DispatchInv, NEW q \in Procs, PlockFree(q), state[q] # "RUNNING"
  PROVE  \A d \in CPUs : ctx[d] # q
  BY ProcAssumption DEF PlockFree, DispatchInv, OnCpu

\* Under its lock, an entry that is on no CPU and in no queue becomes
\* something that is in no queue either.
LEMMA EntryChanges ==
  ASSUME TypeOK, DispatchInv, NEW q \in Procs, PlockFree(q),
         state[q] \in {"UNUSED", "ZOMBIE"}, NEW s \in {"UNUSED", "USED"},
         state' = [state EXCEPT ![q] = s], OwnChild',
         UNCHANGED <<queues, plock, queue_lock, ctx, picked>>
  PROVE  DispatchInv'
<1>1. \A p \in Procs : state'[p] = "RUNNABLE" <=> state[p] = "RUNNABLE"
  BY DEF TypeOK
<1>2. \A p \in Procs : (Queued(p)' <=> Queued(p)) /\ (Picked(p)' <=> Picked(p))
  BY DEF Queued, Picked
<1>3. QueuedOnce'
  BY <1>1, <1>2 DEF DispatchInv, QueuedOnce, NoDuplicates
<1>4. \A d \in CPUs : ctx[d] # q
  BY FreeIsOffCpu
<1>5. OnCpu'
  BY <1>4 DEF DispatchInv, OnCpu, TypeOK
<1>6. (ScansLocked /\ LockedOnItsCpu /\ OneCpuPerProcess)'
  BY DEF DispatchInv, ScansLocked, LockedOnItsCpu, OneCpuPerProcess
<1>7. QED
  BY <1>3, <1>5, <1>6 DEF DispatchInv

\* Under its lock, an entry that is not on a CPU becomes RUNNABLE and is
\* put in a queue: wakeup(), kill() and fork().
LEMMA MadeRunnable ==
  ASSUME TypeOK, DispatchInv, NEW q \in Procs, NEW l \in Levels, PlockFree(q),
         state[q] \in {"SLEEPING", "USED"}, Enque(l, q),
         state' = [state EXCEPT ![q] = "RUNNABLE"], OwnChild',
         UNCHANGED <<plock, queue_lock, ctx, picked>>
  PROVE  DispatchInv'
<1>1. ~Queued(q) /\ ~Picked(q)
  BY DEF DispatchInv, QueuedOnce
<1>2. /\ \A p \in Procs : Queued(p)' <=> Queued(p) \/ p = q
      /\ NoDuplicates'
  BY <1>1, EnqueEffect DEF DispatchInv, QueuedOnce, TypeOK
<1>3. \A p \in Procs : Picked(p)' <=> Picked(p)
  BY DEF Picked
<1>4. \A p \in Procs : state'[p] = "RUNNABLE" <=> state[p] = "RUNNABLE" \/ p = q
  BY DEF TypeOK
<1>5. QueuedOnce'
  BY <1>1, <1>2, <1>3, <1>4 DEF DispatchInv, QueuedOnce
<1>6. \A d \in CPUs : ctx[d] # q
  BY FreeIsOffCpu
<1>7. OnCpu'
  BY <1>6 DEF DispatchInv, OnCpu, TypeOK
<1>8. (ScansLocked /\ LockedOnItsCpu /\ OneCpuPerProcess)'
  BY DEF DispatchInv, ScansLocked, LockedOnItsCpu, OneCpuPerProcess
<1>9. QED
  BY <1>5, <1>7, <1>8 DEF DispatchInv

\* The process of a CPU is about to leave it: its lock is held until the
\* scheduler runs, so that no other CPU can dispatch it before.
LEMMA ProcessLeaves ==
  ASSUME TypeOK, DispatchInv, NEW c \in CPUs, NEW p \in Procs, Runs(c, p),
         NEW s \in {"RUNNABLE", "SLEEPING", "ZOMBIE"},
         state' = [state EXCEPT ![p] = s], plock' = [plock EXCEPT ![p] = c],
         QueuedOnce', OwnChild', UNCHANGED <<queue_lock, ctx, picked>>
  PROVE  DispatchInv'
<1>1. c # None /\ p # None
  BY RunningAlone
<1>2. LockedOnItsCpu'
  BY DEF DispatchInv, LockedOnItsCpu, Runs, TypeOK
<1>3. \A d \in CPUs : ctx[d] = p => d = c
  BY <1>1 DEF DispatchInv, OneCpuPerProcess, Runs
<1>4. OnCpu'
  BY <1>3 DEF DispatchInv, OnCpu, TypeOK
<1>5. (ScansLocked /\ OneCpuPerProcess)'
  BY DEF DispatchInv, ScansLocked, OneCpuPerProcess
<1>6. QED
  BY <1>2, <1>4, <1>5 DEF DispatchInv

\* It leaves without being queued: sleep() and exit().
LEMMA LeavesUnqueued ==
  ASSUME TypeOK, DispatchInv, NEW c \in CPUs, NEW p \in Procs, Runs(c, p),
         NEW s \in {"SLEEPING", "ZOMBIE"},
         state' = [state EXCEPT ![p] = s], UNCHANGED <<queues, picked>>
  PROVE  QueuedOnce'
<1>1. state[p] = "RUNNING"
  BY RunningAlone
<1>2. \A q \in Procs : state'[q] = "RUNNABLE" <=> state[q] = "RUNNABLE"
  BY <1>1 DEF TypeOK
<1>3. \A q \in Procs : (Queued(q)' <=> Queued(q)) /\ (Picked(q)' <=> Picked(q))
  BY DEF Queued, Picked
<1>4. QED
  BY <1>2, <1>3 DEF DispatchInv, QueuedOnce, NoDuplicates
-----------------------------------------------------------------------------
(* The scheduler *)

LEMMA ScanBeginKeeps ==
  ASSUME TypeOK, DispatchInv, NEW c \in CPUs, ScanBegin(c)
  PROVE  DispatchInv'
<1> USE DEF ScanBegin
<1>1. QueuedOnce'
  BY DEF DispatchInv, QueuedOnce, NoDuplicates, Queued, Picked, entry, cpu
<1>2. ScansLocked'
  <2>1. \A d \in CPUs : picked[d] = None
    BY ProcAssumption DEF DispatchInv, ScansLocked, QueueLockFree
  <2>2. QED
    BY <2>1 DEF ScansLocked, cpu
<1>3. OwnChild'
  BY DEF DispatchInv, OwnChild, Forking, entry, local, cursors
<1>4. (LockedOnItsCpu /\ OnCpu /\ OneCpuPerProcess)'
  BY DEF DispatchInv, LockedOnItsCpu, OnCpu, OneCpuPerProcess, entry, cpu
<1>5. QED
  BY <1>1, <1>2, <1>3, <1>4 DEF DispatchInv

LEMMA ScanKeeps ==
  ASSUME TypeOK, DispatchInv, NEW c \in CPUs, Scan(c)
  PROVE  DispatchInv'
<1> DEFINE h == Head(queues[lvl[c]])
<1>1. queue_lock = c /\ picked[c] = None /\ c # None
  BY ProcAssumption DEF Scan
<1>2. \A d \in CPUs : picked[d] = None
  BY <1>1 DEF DispatchInv, ScansLocked
<1>3. UNCHANGED <<state, pc, cur, plock, ctx>>
  BY DEF Scan, entry, local, cursors
<1>4. (LockedOnItsCpu /\ OnCpu /\ OneCpuPerProcess /\ OwnChild)'
  BY <1>3 DEF DispatchInv, LockedOnItsCpu, OnCpu, OneCpuPerProcess, OwnChild, Forking
<1>5. CASE queues[lvl[c]] # << >>
  <2>1. /\ picked' = [picked EXCEPT ![c] = h]
        /\ queues' = [queues EXCEPT ![lvl[c]] = Tail(@)]
        /\ queue_lock' = queue_lock
    BY <1>5 DEF Scan
  <2>2. lvl[c] \in Levels
    BY DEF TypeOK
  <2>3. NoDuplicates /\ queues \in [Levels -> Seq(Procs)]
    BY DEF DispatchInv, QueuedOnce, TypeOK
  <2>4. /\ h \in Procs /\ Queued(h)
        /\ \A q \in Procs : Queued(q)' <=> Queued(q) /\ q # h
        /\ NoDuplicates'
    BY <1>5, <2>1, <2>2, <2>3, DequeEffect
  <2>5. \A q \in Procs : q # None
    BY ProcAssumption
  <2>6. picked'[c] = h /\ \A d \in CPUs \ {c} : picked'[d] = None
    BY <1>2, <2>1 DEF TypeOK
  <2>7. \A q \in Procs : (Picked(q)' <=> q = h) /\ ~Picked(q)
    BY <1>2, <2>5, <2>6 DEF Picked
  <2> HIDE DEF h
  <2>8. QueuedOnce'
    BY <1>3, <2>4, <2>7 DEF DispatchInv, QueuedOnce
  <2>9. ScansLocked'
    BY <1>1, <1>3, <2>1, <2>6 DEF DispatchInv, ScansLocked
  <2>10. QED
    BY <1>4, <2>8, <2>9 DEF DispatchInv
<1>6. CASE queues[lvl[c]] = << >>
  <2>1. queues' = queues /\ picked' = picked /\ queue_lock' \in {None, c}
    BY <1>6 DEF Scan
  <2>2. QueuedOnce'
    BY <1>3, <2>1 DEF DispatchInv, QueuedOnce, NoDuplicates, Queued, Picked
  <2>3. ScansLocked'
    BY <1>1, <1>2, <1>3, <2>1, ProcAssumption DEF DispatchInv, ScansLocked
  <2>4. QED
    BY <1>4, <2>2, <2>3 DEF DispatchInv
<1>7. QED
  BY <1>5, <1>6

\* The one step that puts a process on a CPU.
LEMMA DispatchKeeps ==
  ASSUME TypeOK, DispatchInv, NEW c \in CPUs, Dispatch(c)
  PROVE  DispatchInv'
<1> DEFINE p == picked[c]
<1>1. /\ p # None /\ PlockFree(p) /\ queue_lock' = None
      /\ plock' = [plock EXCEPT ![p] = c]
      /\ state' = [state EXCEPT ![p] = "RUNNING"]
      /\ ctx' = [ctx EXCEPT ![c] = p]
      /\ picked' = [picked EXCEPT ![c] = None]
      /\ UNCHANGED <<pc, cur, queues>>
  BY DEF Dispatch, local, cursors
<1>2. p \in Procs /\ c # None
  BY <1>1, ProcAssumption DEF TypeOK
<1>3. queue_lock = c /\ ctx[c] = None
  BY <1>1 DEF DispatchInv, ScansLocked
<1>4. \A d \in CPUs \ {c} : picked[d] = None
  BY <1>3 DEF DispatchInv, ScansLocked
<1>5. Picked(p) /\ state[p] = "RUNNABLE" /\ ~Queued(p)
  <2>1. Picked(p)
    BY DEF Picked
  <2>2. QED
    BY <1>2, <2>1 DEF DispatchInv, QueuedOnce
<1>6. \A d \in CPUs : ctx[d] # p
  BY <1>1, <1>2, <1>5, FreeIsOffCpu
<1>7. \A d \in CPUs : picked'[d] = None
  BY <1>1, <1>4 DEF TypeOK
<1>8. \A q \in Procs : q # None
  BY ProcAssumption
<1>9. \A q \in Procs : (Picked(q) <=> q = p) /\ ~Picked(q)'
  BY <1>2, <1>4, <1>7, <1>8 DEF Picked
<1>10. p \in Procs /\ plock[p] = None
  BY <1>1, <1>2 DEF PlockFree
<1> HIDE DEF p
<1>11. \A q \in Procs : state'[q] = IF q = p THEN "RUNNING" ELSE state[q]
  BY <1>1 DEF TypeOK
<1>12. QueuedOnce'
  <2>1. NoDuplicates' /\ \A q \in Procs : Queued(q)' <=> Queued(q)
    BY <1>1 DEF DispatchInv, QueuedOnce, NoDuplicates, Queued
  <2>2. QED
    BY <1>5, <1>9, <1>11, <2>1 DEF DispatchInv, QueuedOnce
<1>13. ScansLocked'
  BY <1>1, <1>7, ProcAssumption DEF ScansLocked
<1>14. LockedOnItsCpu'
  BY <1>1, <1>3, <1>8 DEF DispatchInv, LockedOnItsCpu, TypeOK
<1>15. OnCpu'
  BY <1>1, <1>6, <1>10, <1>11 DEF DispatchInv, OnCpu, TypeOK
<1>16. OneCpuPerProcess'
  BY <1>1, <1>6 DEF DispatchInv, OneCpuPerProcess, TypeOK
<1>17. OwnChild'
  BY <1>1, <1>5, <1>11 DEF DispatchInv, OwnChild, Forking, TypeOK
<1>18. QED
  BY <1>12, <1>13, <1>14, <1>15, <1>16, <1>17 DEF DispatchInv

LEMMA ResumeKeeps ==
  ASSUME TypeOK, DispatchInv, NEW c \in CPUs, NEW p \in Procs, Resume(c, p)
  PROVE  DispatchInv'
<1>1. /\ ctx[c] = p /\ plock[p] = c /\ state[p] = "RUNNING"
      /\ plock' = [plock EXCEPT ![p] = None]
      /\ UNCHANGED <<state, pc, cur, queues, queue_lock, ctx, picked>>
  BY DEF Resume, local, cursors, scheduling, cpu
<1>2. (QueuedOnce /\ ScansLocked /\ OneCpuPerProcess /\ OwnChild)'
  BY <1>1 DEF DispatchInv, QueuedOnce, NoDuplicates, Queued, Picked,
              ScansLocked, OneCpuPerProcess, OwnChild, Forking
<1>3. \A d \in CPUs : d # None
  BY ProcAssumption
<1>4. LockedOnItsCpu'
  BY <1>1, <1>3 DEF DispatchInv, LockedOnItsCpu, TypeOK
<1>5. OnCpu'
  BY <1>1 DEF DispatchInv, OnCpu, TypeOK
<1>6. QED
  BY <1>2, <1>4, <1>5 DEF DispatchInv

LEMMA SwtchKeeps ==
  ASSUME TypeOK, DispatchInv, NEW c \in CPUs, NEW p \in Procs, Swtch(c, p)
  PROVE  DispatchInv'
<1>1. /\ ctx[c] = p /\ plock[p] = c
      /\ ctx' = [ctx EXCEPT ![c] = None]
      /\ plock' = [plock EXCEPT ![p] = None]
      /\ UNCHANGED <<state, pc, cur, queues, queue_lock, picked>>
  BY DEF Swtch, entry, local, cursors
<1>2. (QueuedOnce /\ OwnChild)'
  BY <1>1 DEF DispatchInv, QueuedOnce, NoDuplicates, Queued, Picked, OwnChild,
              Forking
<1>3. \A d \in CPUs : d # None
  BY ProcAssumption
<1>4. \A q \in Procs : q # None
  BY ProcAssumption
<1>5. ScansLocked'
  BY <1>1 DEF DispatchInv, ScansLocked, TypeOK
<1>6. LockedOnItsCpu'
  BY <1>1, <1>3 DEF DispatchInv, LockedOnItsCpu, TypeOK
<1>7. \A d \in CPUs : ctx[d] = p => d = c
  BY <1>1, <1>4 DEF DispatchInv, OneCpuPerProcess
<1>8. OnCpu'
  BY <1>1, <1>4, <1>7 DEF DispatchInv, OnCpu, TypeOK
<1>9. OneCpuPerProcess'
  BY <1>1 DEF DispatchInv, OneCpuPerProcess, TypeOK
<1>10. QED
  BY <1>2, <1>5, <1>6, <1>8, <1>9 DEF DispatchInv
-----------------------------------------------------------------------------
(* The processes *)

LEMMA YieldKeeps ==
  ASSUME TypeOK, DispatchInv, NEW c \in CPUs, NEW p \in Procs, Yield(c, p)
  PROVE  DispatchInv'
<1> DEFINE l == LowerLevel(p)
<1>1. /\ Runs(c, p) /\ Enque(l, p)
      /\ plock' = [plock EXCEPT ![p] = c]
      /\ state' = [state EXCEPT ![p] = "RUNNABLE"]
      /\ UNCHANGED <<pc, cur, queue_lock, ctx, picked>>
  BY DEF Yield, local, cursors, scheduling, cpu
<1>2. l \in Levels
  BY LevelBounds DEF LowerLevel, TypeOK
<1> HIDE DEF l
<1>3. state[p] = "RUNNING" /\ ~Queued(p) /\ ~Picked(p)
  BY <1>1, RunningAlone
<1>4. QueuedOnce'
  <2>1. /\ \A q \in Procs : Queued(q)' <=> Queued(q) \/ q = p
        /\ NoDuplicates'
    BY <1>1, <1>2, <1>3, EnqueEffect DEF DispatchInv, QueuedOnce, TypeOK
  <2>2. \A q \in Procs : Picked(q)' <=> Picked(q)
    BY <1>1 DEF Picked
  <2>3. \A q \in Procs : state'[q] = "RUNNABLE" <=> state[q] = "RUNNABLE" \/ q = p
    BY <1>1 DEF TypeOK
  <2>4. QED
    BY <1>3, <2>1, <2>2, <2>3 DEF DispatchInv, QueuedOnce
<1>5. OwnChild'
  BY <1>1, <1>3 DEF DispatchInv, OwnChild, Forking, TypeOK
<1>6. QED
  BY <1>1, <1>4, <1>5, ProcessLeaves

LEMMA SleepKeeps ==
  ASSUME TypeOK, DispatchInv, NEW c \in CPUs, NEW p \in Procs, Sleep(c, p)
  PROVE  DispatchInv'
<1>1. /\ Runs(c, p) /\ Goto(p, SleepReturn(p))
      /\ plock' = [plock EXCEPT ![p] = c]
      /\ state' = [state EXCEPT ![p] = "SLEEPING"]
      /\ UNCHANGED <<cur, queues, queue_lock, ctx, picked>>
  BY DEF Sleep, cursors, scheduling, cpu
<1>2. /\ SleepReturn(p) \in Steps
      /\ SleepReturn(p) \notin {"fork_parent", "fork_queue"}
  BY StepNames DEF SleepReturn
<1>3. state[p] = "RUNNING"
  BY <1>1, RunningAlone
<1>4. OwnChild'
  BY <1>1, <1>2, <1>3, LocalMove DEF DispatchInv, TypeOK
<1>5. QueuedOnce'
  BY <1>1, LeavesUnqueued
<1>6. QED
  BY <1>1, <1>4, <1>5, ProcessLeaves

LEMMA WakeupKeeps ==
  ASSUME TypeOK, DispatchInv, NEW c \in CPUs, NEW p \in Procs, Wakeup(c, p)
  PROVE  DispatchInv'
<1> DEFINE q == wcur[p]
<1>1. /\ pc[p] \in Waking /\ PlockFree(q)
      /\ UNCHANGED <<cur, plock, queue_lock, ctx, picked>>
  BY DEF Wakeup, scheduling, cpu
<1>2. pc' = pc \/ Goto(p, WakeupReturn(p))
  BY DEF Wakeup
<1>3. /\ WakeupReturn(p) \in Steps
      /\ WakeupReturn(p) \notin {"fork_parent", "fork_queue"}
  BY <1>1, StepNames DEF WakeupReturn, Waking
<1>4. \/ /\ state[q] = "SLEEPING"
         /\ state' = [state EXCEPT ![q] = "RUNNABLE"]
         /\ Enque(priority[q], q)
      \/ UNCHANGED <<state, queues>>
  BY DEF Wakeup, Wakes
<1>5. q \in Procs /\ priority[q] \in Levels
  BY DEF TypeOK
<1> HIDE DEF q
<1>6. \A r \in Procs : state[r] = "USED" => state'[r] = "USED"
  BY <1>4, <1>5 DEF TypeOK
<1>7. OwnChild'
  <2>1. CASE pc' = pc
    BY <1>1, <1>6, <2>1, OwnChildKept DEF DispatchInv, Forking, TypeOK
  <2>2. CASE Goto(p, WakeupReturn(p))
    BY <1>1, <1>3, <1>6, <2>2, LocalMove DEF DispatchInv
  <2>3. QED
    BY <1>2, <2>1, <2>2
<1>8. CASE UNCHANGED <<state, queues>>
  BY <1>1, <1>7, <1>8, QuietStep
<1>9. CASE ~UNCHANGED <<state, queues>>
  BY <1>1, <1>4, <1>5, <1>7, <1>9, MadeRunnable
<1>10. QED
  BY <1>8, <1>9

LEMMA KillKeeps ==
  ASSUME TypeOK, DispatchInv, NEW c \in CPUs, NEW p \in Procs, NEW t \in Victims,
         Kill(c, p, t)
  PROVE  DispatchInv'
<1>1. t \in Procs /\ 0 \in Levels
  BY ProcAssumption, LevelBounds
<1>2. /\ PlockFree(t) /\ UNCHANGED <<pc, cur, plock, queue_lock, ctx, picked>>
  BY DEF Kill, local, cursors, scheduling, cpu
<1>3. \/ /\ state[t] = "SLEEPING"
         /\ state' = [state EXCEPT ![t] = "RUNNABLE"]
         /\ Enque(0, t)
      \/ UNCHANGED <<state, queues>>
  BY DEF Kill, KillWakes
<1>4. OwnChild'
  BY <1>1, <1>2, <1>3, OwnChildKept DEF DispatchInv, Forking, TypeOK
<1>5. CASE UNCHANGED <<state, queues>>
  BY <1>2, <1>4, <1>5, QuietStep
<1>6. CASE ~UNCHANGED <<state, queues>>
  BY <1>1, <1>2, <1>3, <1>4, <1>6, MadeRunnable
<1>7. QED
  BY <1>5, <1>6

LEMMA AllocProcKeeps ==
  ASSUME TypeOK, DispatchInv, NEW c \in CPUs, NEW p \in Procs, AllocProc(c, p)
  PROVE  DispatchInv'
<1> DEFINE q == cur[p]
<1>1. /\ Runs(c, p) /\ pc[p] = "alloc" /\ PlockFree(q)
      /\ UNCHANGED <<queues, plock, queue_lock, ctx, picked>>
  BY DEF AllocProc, At, scheduling, cpu
<1>2. q \in Procs
  BY DEF TypeOK
<1>3. state[p] = "RUNNING"
  BY <1>1, RunningAlone
<1>4. p \notin Forking
  BY <1>1 DEF Forking
<1>5. CASE /\ state[q] = "UNUSED"
           /\ state' = [state EXCEPT ![q] = "USED"]
           /\ pc' = [pc EXCEPT ![p] = "fork_parent", ![q] = "user"]
           /\ UNCHANGED cur
  <2>1. Forking' = (Forking \cup {p}) \ {q}
    BY <1>2, <1>3, <1>5 DEF Forking, TypeOK
  <2>2. \A r \in Forking : cur[r] # q /\ state[cur[r]] = "USED"
    BY <1>5 DEF DispatchInv, OwnChild
  <2>3. \A r \in Forking' : state'[cur[r]] = "USED"
    BY <1>2, <1>5, <2>1, <2>2 DEF Forking, TypeOK
  <2>4. \A r, s \in Forking' : cur[r] = cur[s] => r = s
    <3> SUFFICES ASSUME NEW r \in Forking', NEW s \in Forking', cur[r] = cur[s]
                 PROVE  r = s
      OBVIOUS
    <3>1. CASE r \in Forking /\ s \in Forking
      BY <3>1 DEF DispatchInv, OwnChild
    <3>2. CASE r = p \/ s = p
      BY <2>1, <2>2, <3>2
    <3>3. QED
      BY <2>1, <3>1, <3>2
  <2>5. OwnChild'
    BY <1>5, <2>3, <2>4 DEF OwnChild
  <2> HIDE DEF q
  <2>6. QED
    BY <1>1, <1>2, <1>5, <2>5, EntryChanges
<1>6. CASE UNCHANGED <<state, pc>> /\ cur' = [cur EXCEPT ![p] = q + 1]
  BY <1>1, <1>4, <1>6, OwnChildKept, QuietStep DEF DispatchInv, Forking, TypeOK
<1>7. CASE UNCHANGED state /\ Goto(p, "user") /\ cur' = [cur EXCEPT ![p] = 1]
  <2>1. OwnChild'
    BY <1>7, LocalMove, StepNames DEF DispatchInv, TypeOK
  <2>2. QED
    BY <1>1, <1>7, <2>1, QuietStep
<1>8. QED
  BY <1>5, <1>6, <1>7 DEF AllocProc

LEMMA ForkQueueKeeps ==
  ASSUME TypeOK, DispatchInv, NEW c \in CPUs, NEW p \in Procs, ForkQueue(c, p)
  PROVE  DispatchInv'
<1> DEFINE q == cur[p]
<1>1. /\ p \in Forking /\ PlockFree(q) /\ Enque(priority[p], q)
      /\ state' = [state EXCEPT ![q] = "RUNNABLE"]
      /\ cur' = [cur EXCEPT ![p] = 1]
      /\ Goto(p, "user")
      /\ UNCHANGED <<plock, queue_lock, ctx, picked>>
  BY DEF ForkQueue, At, ChildLevel, Forking, scheduling, cpu
<1>2. q \in Procs /\ priority[p] \in Levels
  BY DEF TypeOK
<1>3. state[q] = "USED"
  BY <1>1 DEF DispatchInv, OwnChild
<1>4. Forking' = Forking \ {p}
  BY <1>1 DEF Forking, Goto, TypeOK
<1>5. \A r \in Forking' : cur'[r] = cur[r] /\ cur[r] # q
  BY <1>1, <1>4 DEF DispatchInv, OwnChild, Forking, TypeOK
<1>6. \A r \in Forking' : cur[r] \in Procs
  BY <1>4 DEF Forking, TypeOK
<1>7. OwnChild'
  BY <1>1, <1>4, <1>5, <1>6, OwnChildKept DEF DispatchInv, TypeOK
<1> HIDE DEF q
<1>8. QED
  BY <1>1, <1>2, <1>3, <1>7, MadeRunnable

LEMMA BecomeZombieKeeps ==
  ASSUME TypeOK, DispatchInv, NEW c \in CPUs, NEW p \in Procs, BecomeZombie(c, p)
  PROVE  DispatchInv'
<1>1. /\ Runs(c, p) /\ Goto(p, "exited")
      /\ plock' = [plock EXCEPT ![p] = c]
      /\ state' = [state EXCEPT ![p] = "ZOMBIE"]
      /\ UNCHANGED <<cur, queues, queue_lock, ctx, picked>>
  BY DEF BecomeZombie, At, cursors, scheduling, cpu
<1>2. state[p] = "RUNNING"
  BY <1>1, RunningAlone
<1>3. OwnChild'
  BY <1>1, <1>2, LocalMove, StepNames DEF DispatchInv, TypeOK
<1>4. QueuedOnce'
  BY <1>1, LeavesUnqueued
<1>5. QED
  BY <1>1, <1>3, <1>4, ProcessLeaves

LEMMA WaitReturnKeeps ==
  ASSUME TypeOK, DispatchInv, NEW c \in CPUs, NEW p \in Procs, WaitReturn(c, p)
  PROVE  DispatchInv'
<1> DEFINE q == cur[p]
<1>1. /\ PlockFree(q) /\ state[q] = "ZOMBIE" /\ Goto(p, "user")
      /\ cur' = [cur EXCEPT ![p] = 1]
      /\ UNCHANGED <<queues, plock, queue_lock, ctx, picked>>
  BY DEF WaitReturn, scheduling, cpu
<1>2. q \in Procs
  BY DEF TypeOK
<1>3. state' = [state EXCEPT ![q] = "UNUSED"] \/ state' = state
  BY DEF WaitReturn
<1> HIDE DEF q
<1>4. \A r \in Procs : state[r] = "USED" => state'[r] = "USED"
  BY <1>1, <1>2, <1>3 DEF TypeOK
<1>5. OwnChild'
  BY <1>1, <1>4, LocalMove, StepNames DEF DispatchInv, TypeOK
<1>6. CASE state' = state
  BY <1>1, <1>5, <1>6, QuietStep
<1>7. CASE state' = [state EXCEPT ![q] = "UNUSED"]
  BY <1>1, <1>2, <1>5, <1>7, EntryChanges
<1>8. QED
  BY <1>3, <1>6, <1>7
\* System calls that change neither a state nor a queue.
QuietMove(c, p) ==
  \/ ForkCall(c, p) \/ ForkParent(c, p) \/ Exit(c, p) \/ Reparent(c, p)
  \/ WaitBegin(c, p) \/ WaitNext(c, p)
  \/ LockBegin(c, p) \/ LockTest(c, p) \/ Unlock(c, p) \/ UnlockEnd(c, p)

LEMMA QuietMoveKeeps ==
  ASSUME TypeOK, DispatchInv, NEW c \in CPUs, NEW p \in Procs, QuietMove(c, p)
  PROVE  DispatchInv'
<1> USE StepNames DEF entry, cursors, scheduling, cpu
<1>1. UNCHANGED <<state, queues, plock, queue_lock, ctx, picked>>
  <2>1. CASE ForkCall(c, p) \/ ForkParent(c, p) \/ Exit(c, p) \/ Reparent(c, p)
    BY <2>1 DEF ForkCall, ForkParent, Exit, Reparent
  <2>2. CASE WaitBegin(c, p) \/ WaitNext(c, p)
    BY <2>2 DEF WaitBegin, WaitNext
  <2>3. CASE LockBegin(c, p) \/ LockTest(c, p) \/ Unlock(c, p) \/ UnlockEnd(c, p)
    BY <2>3 DEF LockBegin, LockTest, Unlock, UnlockEnd
  <2>4. QED
    BY <2>1, <2>2, <2>3 DEF QuietMove
<1>2. OwnChild'
  <2>1. CASE ForkParent(c, p)
    <3>1. /\ pc[p] = "fork_parent" /\ pc' = [pc EXCEPT ![p] = "fork_queue"]
          /\ cur' = cur
      BY <2>1 DEF ForkParent, At, Goto
    <3>2. Forking' = Forking
      BY <3>1 DEF Forking, TypeOK
    <3>3. QED
      BY <1>1, <3>1, <3>2, OwnChildKept DEF DispatchInv
  <2>2. CASE WaitNext(c, p) \/ Reparent(c, p)
    <3>1. \/ UNCHANGED pc /\ pc[p] = "wait_scan"
          \/ \E step \in {"user", "wait_sleep", "wake_init", "reparent",
                          "wake_parent"} : Goto(p, step)
      BY <2>2 DEF WaitNext, Reparent, At
    <3>2. \A q \in Procs \ {p} : cur'[q] = cur[q]
      BY <2>2 DEF WaitNext, Reparent, TypeOK
    <3>3. CASE UNCHANGED pc /\ pc[p] = "wait_scan"
      <4>1. Forking' = Forking /\ p \notin Forking
        BY <3>3 DEF Forking
      <4>2. QED
        BY <1>1, <3>2, <4>1, OwnChildKept DEF DispatchInv, Forking
    <3>4. CASE \E step \in {"user", "wait_sleep", "wake_init", "reparent",
                            "wake_parent"} : Goto(p, step)
      BY <1>1, <3>2, <3>4, LocalMove DEF DispatchInv
    <3>5. QED
      BY <3>1, <3>3, <3>4
  <2>3. CASE \/ ForkCall(c, p) \/ Exit(c, p) \/ WaitBegin(c, p)
             \/ LockBegin(c, p) \/ LockTest(c, p)
             \/ Unlock(c, p) \/ UnlockEnd(c, p)
    <3>1. \E step \in {"alloc", "reparent", "wait_scan", "lock_test", "critical",
                       "lock_sleep", "wake_lock", "user"} : Goto(p, step)
      BY <2>3 DEF ForkCall, Exit, WaitBegin, LockBegin, LockTest, Unlock, UnlockEnd
    <3>2. cur' = cur
      BY <2>3 DEF ForkCall, Exit, WaitBegin, LockBegin, LockTest, Unlock, UnlockEnd
    <3>3. QED
      BY <1>1, <3>1, <3>2, LocalMove DEF DispatchInv
  <2>4. QED
    BY <2>1, <2>2, <2>3 DEF QuietMove
<1>3. QED
  BY <1>1, <1>2, QuietStep

-----------------------------------------------------------------------------
(* The theorems *)

LEMMA InitDispatch == Init => DispatchInv
<1> SUFFICES ASSUME Init PROVE DispatchInv
  OBVIOUS
<1>1. 0 \in Levels /\ INIT \in Procs
  BY LevelBounds, InitInProcs
<1>2. /\ \A l \in Levels : queues[l] = IF l = 0 THEN <<INIT>> ELSE << >>
      /\ \A p \in Procs : state[p] = IF p = INIT THEN "RUNNABLE" ELSE "UNUSED"
      /\ \A c \in CPUs : picked[c] = None /\ ctx[c] = None
      /\ \A p \in Procs : plock[p] = None /\ pc[p] = "user"
      /\ queue_lock = None
  BY DEF Init
<1>3. \A l \in Levels : \A i \in 1..Len(queues[l]) : l = 0 /\ i = 1 /\ queues[l][i] = INIT
  <2>1. ASSUME NEW l \in Levels, NEW i \in 1..Len(queues[l])
        PROVE  l = 0 /\ i = 1 /\ queues[l][i] = INIT
    <3>1. CASE l = 0
      <4>1. queues[l] = <<INIT>>
        BY <1>2, <3>1
      <4>2. QED
        BY <3>1, <4>1
    <3>2. CASE l # 0
      <4>1. queues[l] = << >>
        BY <1>2, <3>2
      <4>2. QED
        BY <4>1
    <3>3. QED
      BY <3>1, <3>2
  <2>2. QED
    BY <2>1
<1>4. 1 \in 1..Len(queues[0]) /\ queues[0][1] = INIT
  BY <1>1, <1>2
<1>5. \A p \in Procs : Queued(p) <=> p = INIT
  BY <1>1, <1>3, <1>4 DEF Queued
<1>6. \A p \in Procs : p # None
  BY ProcAssumption
<1>7. \A c \in CPUs : c # None
  BY ProcAssumption
<1>8. QueuedOnce
  BY <1>2, <1>3, <1>5, <1>6 DEF QueuedOnce, NoDuplicates, Picked
<1>9. ScansLocked /\ LockedOnItsCpu /\ OnCpu /\ OneCpuPerProcess
  BY <1>2, <1>6, <1>7 DEF ScansLocked, LockedOnItsCpu, OnCpu, OneCpuPerProcess
<1>10. OwnChild
  BY <1>2 DEF OwnChild, Forking
<1>11. QED
  BY <1>8, <1>9, <1>10 DEF DispatchInv

LEMMA NextDispatch == TypeOK /\ DispatchInv /\ [Next]_vars => DispatchInv'
<1> SUFFICES ASSUME TypeOK, DispatchInv, [Next]_vars PROVE DispatchInv'
  OBVIOUS
<1>1. ASSUME NEW c \in CPUs, SchedulerStep(c) PROVE DispatchInv'
  BY <1>1, ScanBeginKeeps, ScanKeeps, DispatchKeeps, ResumeKeeps, SwtchKeeps
     DEF SchedulerStep
<1>2. ASSUME NEW c \in CPUs, KernelStep(c) PROVE DispatchInv'
  BY <1>2, SleepKeeps, WakeupKeeps, AllocProcKeeps, ForkQueueKeeps,
     BecomeZombieKeeps, WaitReturnKeeps, QuietMoveKeeps
     DEF KernelStep, QuietMove
<1>3. ASSUME NEW c \in CPUs, EntryStep(c) PROVE DispatchInv'
  BY <1>3, KillKeeps, QuietMoveKeeps DEF EntryStep, QuietMove
<1>4. ASSUME NEW c \in CPUs, Preempt(c) PROVE DispatchInv'
  BY <1>4, YieldKeeps DEF Preempt
<1>5. CASE UNCHANGED vars
  <2>1. UNCHANGED <<state, pc, cur, queues, plock, queue_lock, ctx, picked>>
    BY <1>5 DEF vars, entry, local, cursors, scheduling, cpu
  <2>2. OwnChild'
    BY <2>1 DEF DispatchInv, OwnChild, Forking
  <2>3. QED
    BY <2>1, <2>2, QuietStep
<1>6. QED
  BY <1>1, <1>2, <1>3, <1>4, <1>5 DEF Next

\* DispatchInv holds in every state: the argument is the hand-over of
\* p->lock from sched() to scheduler() and back (proc.c, sched() and
\* scheduler()).
THEOREM DispatchCorrect == Spec => []DispatchInv
<1>1. Init => DispatchInv
  BY InitDispatch
<1>2. TypeOK /\ DispatchInv /\ [Next]_vars => DispatchInv'
  BY NextDispatch
<1>3. QED
  BY <1>1, <1>2, TypeCorrect, PTL DEF Spec

\* Two CPUs never run on the stack of one process, for any number of CPUs.
THEOREM OneCpu == Spec => []OneCpuPerProcess
<1>1. DispatchInv => OneCpuPerProcess
  BY DEF DispatchInv
<1>2. QED
  BY <1>1, DispatchCorrect, PTL

\* The queues and the hands of the schedulers hold the RUNNABLE processes,
\* each of them once: enque() has room and nobody is forgotten.
THEOREM QueuedExactlyOnce == Spec => []QueuedOnce
<1>1. DispatchInv => QueuedOnce
  BY DEF DispatchInv
<1>2. QED
  BY <1>1, DispatchCorrect, PTL

\* wait() frees an entry, and allocproc() hands it out, only when no CPU is
\* on its stack any more.
THEOREM FreedOffCpu == Spec => []FreedIsOffCpu
<1>1. TypeOK /\ DispatchInv => FreedIsOffCpu
  <2> SUFFICES ASSUME TypeOK, DispatchInv, NEW c \in CPUs, ctx[c] # None
               PROVE  state[ctx[c]] \notin {"UNUSED", "USED"}
    BY DEF FreedIsOffCpu
  <2>1. ctx[c] \in Procs
    BY DEF TypeOK
  <2>2. QED
    BY <2>1 DEF DispatchInv, OnCpu
<1>2. QED
  BY <1>1, DispatchCorrect, TypeCorrect, PTL
-----------------------------------------------------------------------------
(* The life of a table entry *)

\* A step moves the state of one entry along its life cycle.
OneEntryMoves ==
  \E q \in Procs, s \in States :
    <<state[q], s>> \in LifeCycle /\ state' = [state EXCEPT ![q] = s]

LEMMA NextLifeCycle ==
  ASSUME TypeOK, DispatchInv, [Next]_vars
  PROVE  UNCHANGED state \/ OneEntryMoves
<1> USE StateNames DEF OneEntryMoves, LifeCycle
<1>1. ASSUME NEW c \in CPUs, Dispatch(c) PROVE OneEntryMoves
  <2>1. picked[c] \in Procs /\ Picked(picked[c])
    BY <1>1 DEF Dispatch, TypeOK, Picked
  <2>2. state[picked[c]] = "RUNNABLE"
    BY <2>1 DEF DispatchInv, QueuedOnce
  <2>3. QED
    BY <1>1, <2>1, <2>2 DEF Dispatch
<1>2. ASSUME NEW c \in CPUs, NEW p \in Procs, Runs(c, p),
             NEW s \in {"RUNNABLE", "SLEEPING", "ZOMBIE"},
             state' = [state EXCEPT ![p] = s]
      PROVE  OneEntryMoves
  <2>1. state[p] = "RUNNING"
    BY <1>2, RunningAlone
  <2>2. QED
    BY <1>2, <2>1
<1>3. ASSUME NEW c \in CPUs, NEW p \in Procs, Wakeup(c, p)
      PROVE  UNCHANGED state \/ OneEntryMoves
  BY <1>3 DEF Wakeup, Wakes, TypeOK
<1>4. ASSUME NEW c \in CPUs, NEW p \in Procs, NEW t \in Victims, Kill(c, p, t)
      PROVE  UNCHANGED state \/ OneEntryMoves
  BY <1>4, ProcAssumption DEF Kill, KillWakes
<1>5. ASSUME NEW c \in CPUs, NEW p \in Procs, AllocProc(c, p)
      PROVE  UNCHANGED state \/ OneEntryMoves
  BY <1>5 DEF AllocProc, TypeOK
<1>6. ASSUME NEW c \in CPUs, NEW p \in Procs, ForkQueue(c, p) PROVE OneEntryMoves
  <2>1. cur[p] \in Procs /\ state[cur[p]] = "USED"
    BY <1>6 DEF ForkQueue, At, Forking, DispatchInv, OwnChild, TypeOK
  <2>2. QED
    BY <1>6, <2>1 DEF ForkQueue
<1>7. ASSUME NEW c \in CPUs, NEW p \in Procs, WaitReturn(c, p)
      PROVE  UNCHANGED state \/ OneEntryMoves
  <2>1. cur[p] \in Procs /\ state[cur[p]] = "ZOMBIE"
    BY <1>7 DEF WaitReturn, TypeOK
  <2>2. state' = [state EXCEPT ![cur[p]] = "UNUSED"] \/ UNCHANGED state
    BY <1>7 DEF WaitReturn
  <2>3. QED
    BY <2>1, <2>2
<1>8. ASSUME NEW c \in CPUs, SchedulerStep(c)
      PROVE  UNCHANGED state \/ OneEntryMoves
  BY <1>1, <1>8
     DEF SchedulerStep, ScanBegin, Scan, Resume, Swtch, entry
<1>9. ASSUME NEW c \in CPUs, KernelStep(c)
      PROVE  UNCHANGED state \/ OneEntryMoves
  <2>1. PICK p \in Procs :
          \/ Sleep(c, p) \/ Wakeup(c, p)
          \/ AllocProc(c, p) \/ ForkParent(c, p) \/ ForkQueue(c, p)
          \/ Reparent(c, p) \/ BecomeZombie(c, p)
          \/ WaitReturn(c, p) \/ WaitNext(c, p)
          \/ LockTest(c, p) \/ Unlock(c, p) \/ UnlockEnd(c, p)
    BY <1>9 DEF KernelStep
  <2>2. CASE Sleep(c, p) \/ BecomeZombie(c, p)
    BY <1>2, <2>2 DEF Sleep, BecomeZombie, At
  <2>3. CASE \/ ForkParent(c, p) \/ Reparent(c, p) \/ WaitNext(c, p)
             \/ LockTest(c, p) \/ Unlock(c, p) \/ UnlockEnd(c, p)
    BY <2>3 DEF ForkParent, Reparent, WaitNext, LockTest, Unlock, UnlockEnd, entry
  <2>4. QED
    BY <1>3, <1>5, <1>6, <1>7, <2>1, <2>2, <2>3
<1>10. ASSUME NEW c \in CPUs, EntryStep(c)
       PROVE  UNCHANGED state \/ OneEntryMoves
  <2>1. PICK p \in Procs :
          \/ ForkCall(c, p) \/ Exit(c, p) \/ WaitBegin(c, p) \/ LockBegin(c, p)
          \/ \E t \in Victims : Kill(c, p, t)
    BY <1>10 DEF EntryStep
  <2>2. QED
    BY <1>4, <2>1 DEF ForkCall, Exit, WaitBegin, LockBegin, entry
<1>11. ASSUME NEW c \in CPUs, Preempt(c) PROVE OneEntryMoves
  BY <1>2, <1>11 DEF Preempt, Yield
<1>12. CASE UNCHANGED vars
  BY <1>12 DEF vars, entry
<1>13. QED
  BY <1>8, <1>9, <1>10, <1>11, <1>12 DEF Next

\* A state changes only along the life cycle: a zombie is never woken, a
\* process that sleeps is never dispatched, an entry in use never handed out.
THEOREM LifeCycleFollowed == Spec => FollowsLifeCycle
<1> DEFINE Follows ==
      \A p \in Procs : state'[p] # state[p] => <<state[p], state'[p]>> \in LifeCycle
<1>1. TypeOK /\ DispatchInv /\ [Next]_vars => [Follows]_state
  <2> SUFFICES ASSUME TypeOK, DispatchInv, [Next]_vars, OneEntryMoves PROVE Follows
    BY NextLifeCycle
  <2>1. PICK q \in Procs, s \in States :
          <<state[q], s>> \in LifeCycle /\ state' = [state EXCEPT ![q] = s]
    BY DEF OneEntryMoves
  <2>2. QED
    BY <2>1 DEF TypeOK
<1>2. QED
  BY <1>1, TypeCorrect, DispatchCorrect, PTL DEF Spec, FollowsLifeCycle
-----------------------------------------------------------------------------
(* The queue a process waits in *)

InQueue(l, p) == \E i \in 1..Len(queues[l]) : queues[l][i] = p

LEMMA EnqueElements ==
  ASSUME queues \in [Levels -> Seq(Procs)], NEW l \in Levels, NEW p \in Procs,
         Enque(l, p), NEW m \in Levels, NEW q, InQueue(m, q)'
  PROVE  InQueue(m, q) \/ (m = l /\ q = p)
<1>1. PICK i \in 1..Len(queues'[m]) : queues'[m][i] = q
  BY DEF InQueue
<1>2. CASE m = l
  <2>1. /\ Len(queues'[l]) = Len(queues[l]) + 1 /\ Len(queues[l]) \in Nat
        /\ queues'[l][Len(queues[l]) + 1] = p
        /\ \A j \in 1..Len(queues[l]) : queues'[l][j] = queues[l][j]
    BY DEF Enque
  <2>2. QED
    BY <1>1, <1>2, <2>1 DEF InQueue
<1>3. CASE m # l
  BY <1>1, <1>3 DEF Enque, InQueue
<1>4. QED
  BY <1>2, <1>3

LEMMA DequeElements ==
  ASSUME queues \in [Levels -> Seq(Procs)], NEW l \in Levels,
         queues[l] # << >>, queues' = [queues EXCEPT ![l] = Tail(@)],
         NEW m \in Levels, NEW q, InQueue(m, q)'
  PROVE  InQueue(m, q)
<1>1. PICK i \in 1..Len(queues'[m]) : queues'[m][i] = q
  BY DEF InQueue
<1>2. CASE m = l
  <2>1. /\ queues'[l] = Tail(queues[l]) /\ queues[l] \in Seq(Procs)
        /\ Len(queues[l]) \in Nat /\ Len(queues[l]) >= 1
    BY EmptySeq
  <2>2. /\ Len(Tail(queues[l])) = Len(queues[l]) - 1
        /\ \A j \in 1..(Len(queues[l]) - 1) : Tail(queues[l])[j] = queues[l][j + 1]
    BY <2>1, HeadTailProperties
  <2>3. i + 1 \in 1..Len(queues[l]) /\ queues[l][i + 1] = q
    BY <1>1, <1>2, <2>1, <2>2
  <2>4. QED
    BY <1>2, <2>3 DEF InQueue
<1>3. CASE m # l
  BY <1>1, <1>3 DEF InQueue
<1>4. QED
  BY <1>2, <1>3

\* Level l is right for p: what QueueOfPriority asks of each entry.
RightLevel(l, p) == l = priority[p] \/ (l = 0 /\ (p = INIT \/ killed[p]))

LEMMA NextLevels ==
  ASSUME TypeOK, DispatchInv, QueueOfPriority, [Next]_vars
  PROVE  QueueOfPriority'
<1> DEFINE SameQueued ==
             \A q \in Procs : Queued(q) => priority'[q] = priority[q] /\ (killed[q] => killed'[q])
<1>1. ASSUME NEW l \in Levels, NEW q, InQueue(l, q)
      PROVE  q \in Procs /\ Queued(q) /\ RightLevel(l, q)
  <2>1. PICK i \in 1..Len(queues[l]) : queues[l][i] = q
    BY <1>1 DEF InQueue
  <2>2. queues[l] \in Seq(Procs)
    BY DEF TypeOK
  <2>3. q \in Procs
    BY <2>1, <2>2
  <2>4. QED
    BY <2>1, <2>3 DEF Queued, QueueOfPriority, RightLevel
<1>2. ASSUME SameQueued,
             \A l \in Levels : \A q : InQueue(l, q)' => InQueue(l, q) \/ RightLevel(l, q)'
      PROVE  QueueOfPriority'
  <2>1. ASSUME NEW l \in Levels, NEW q, InQueue(l, q)' PROVE RightLevel(l, q)'
    BY <1>1, <1>2, <2>1 DEF RightLevel
  <2>2. ASSUME NEW l \in Levels, NEW i \in 1..Len(queues'[l]), NEW q, q = queues'[l][i]
        PROVE  RightLevel(l, q)'
    BY <2>1, <2>2 DEF InQueue
  <2>3. QED
    BY <2>2 DEF QueueOfPriority, RightLevel
<1>3. ASSUME UNCHANGED queues, SameQueued PROVE QueueOfPriority'
  BY <1>2, <1>3 DEF InQueue
<1>4. ASSUME NEW k \in Levels, NEW p \in Procs, Enque(k, p), SameQueued, RightLevel(k, p)'
      PROVE  QueueOfPriority'
  <2>1. ASSUME NEW l \in Levels, NEW q, InQueue(l, q)' PROVE InQueue(l, q) \/ RightLevel(l, q)'
    <3>1. InQueue(l, q) \/ (l = k /\ q = p)
      BY <1>4, <2>1, EnqueElements DEF TypeOK
    <3>2. QED
      BY <1>4, <3>1 DEF RightLevel
  <2>2. QED
    BY <1>2, <1>4, <2>1
<1>5. ASSUME NEW p \in Procs, ~Queued(p),
             \A q \in Procs \ {p} : priority'[q] = priority[q] /\ (killed[q] => killed'[q])
      PROVE  SameQueued
  BY <1>5
<1>6. ASSUME UNCHANGED <<priority, killed>> PROVE SameQueued
  BY <1>6
<1>7. 0 \in Levels
  BY ProcAssumption DEF Levels
<1>8. ASSUME NEW c \in CPUs, Scan(c) PROVE QueueOfPriority'
  <2>1. UNCHANGED <<priority, killed>>
    BY <1>8 DEF Scan, entry
  <2>2. CASE queues[lvl[c]] # << >> /\ queues' = [queues EXCEPT ![lvl[c]] = Tail(@)]
    <3>1. lvl[c] \in Levels
      BY DEF TypeOK
    <3>2. \A l \in Levels : \A q : InQueue(l, q)' => InQueue(l, q)
      BY <2>2, <3>1, DequeElements DEF TypeOK
    <3>3. QED
      BY <1>2, <1>6, <2>1, <3>2
  <2>3. CASE UNCHANGED queues
    BY <1>3, <1>6, <2>1, <2>3
  <2>4. QED
    BY <1>8, <2>2, <2>3 DEF Scan
<1>9. ASSUME NEW c \in CPUs, SchedulerStep(c) PROVE QueueOfPriority'
  BY <1>3, <1>6, <1>8, <1>9
     DEF SchedulerStep, ScanBegin, Dispatch, Resume, Swtch, entry
<1>10. ASSUME NEW c \in CPUs, NEW p \in Procs, Yield(c, p) PROVE QueueOfPriority'
  <2>1. PICK k \in Levels : k = LowerLevel(p)
    BY ProcAssumption DEF LowerLevel, Levels, TypeOK
  <2>2. ~Queued(p)
    BY <1>10, RunningAlone DEF Yield
  <2>3. RightLevel(k, p)'
    BY <1>10, <2>1 DEF Yield, RightLevel, TypeOK
  <2>4. SameQueued
    <3>1. priority' = [priority EXCEPT ![p] = k] /\ UNCHANGED killed
      BY <1>10, <2>1 DEF Yield
    <3>2. QED
      BY <1>5, <2>2, <3>1 DEF TypeOK
  <2>5. QED
    BY <1>4, <1>10, <2>1, <2>3, <2>4 DEF Yield
<1>11. ASSUME NEW c \in CPUs, NEW p \in Procs, Sleep(c, p) PROVE QueueOfPriority'
  <2>1. ~Queued(p)
    BY <1>11, RunningAlone DEF Sleep
  <2>2. SameQueued
    BY <1>5, <1>11, <2>1 DEF Sleep, TypeOK
  <2>3. QED
    BY <1>3, <1>11, <2>2 DEF Sleep
<1>12. ASSUME NEW c \in CPUs, NEW p \in Procs, Wakeup(c, p) PROVE QueueOfPriority'
  <2>1. wcur[p] \in Procs /\ priority[wcur[p]] \in Levels
    BY DEF TypeOK
  <2>2. UNCHANGED <<priority, killed>>
    BY <1>12 DEF Wakeup
  <2>3. CASE Enque(priority[wcur[p]], wcur[p])
    BY <1>4, <1>6, <2>1, <2>2, <2>3 DEF RightLevel
  <2>4. CASE UNCHANGED queues
    BY <1>3, <1>6, <2>2, <2>4
  <2>5. QED
    BY <1>12, <2>3, <2>4 DEF Wakeup
<1>13. ASSUME NEW c \in CPUs, NEW p \in Procs, NEW t \in Victims, Kill(c, p, t)
       PROVE  QueueOfPriority'
  <2>1. t \in Procs
    BY ProcAssumption
  <2>2. SameQueued /\ killed'[t]
    BY <1>13, <2>1 DEF Kill, TypeOK
  <2>3. CASE Enque(0, t)
    BY <1>4, <1>7, <2>1, <2>2, <2>3 DEF RightLevel
  <2>4. CASE UNCHANGED queues
    BY <1>3, <2>2, <2>4
  <2>5. QED
    BY <1>13, <2>3, <2>4 DEF Kill
<1>14. ASSUME NEW c \in CPUs, NEW p \in Procs, AllocProc(c, p) PROVE QueueOfPriority'
  <2>1. UNCHANGED <<killed, queues>> /\ cur[p] \in Procs
    BY <1>14 DEF AllocProc, TypeOK
  <2>2. CASE state[cur[p]] = "UNUSED" /\ priority' = [priority EXCEPT ![cur[p]] = NPRIO - 1]
    <3>1. ~Queued(cur[p])
      BY <2>1, <2>2 DEF DispatchInv, QueuedOnce
    <3>2. QED
      BY <1>3, <1>5, <2>1, <2>2, <3>1 DEF TypeOK
  <2>3. CASE UNCHANGED priority
    BY <1>3, <1>6, <2>1, <2>3
  <2>4. QED
    BY <1>14, <2>2, <2>3 DEF AllocProc
<1>15. ASSUME NEW c \in CPUs, NEW p \in Procs, ForkQueue(c, p) PROVE QueueOfPriority'
  <2> PICK q \in Procs : q = cur[p]
    BY DEF TypeOK
  <2>1. /\ UNCHANGED killed /\ priority' = [priority EXCEPT ![q] = priority[p]]
        /\ Enque(priority[p], q) /\ priority[p] \in Levels
    BY <1>15 DEF ForkQueue, ChildLevel, TypeOK
  <2>2. state[q] = "USED"
    BY <1>15 DEF ForkQueue, At, DispatchInv, OwnChild, Forking
  <2>3. ~Queued(q)
    BY <2>2 DEF DispatchInv, QueuedOnce
  <2>4. SameQueued
    BY <1>5, <2>1, <2>3 DEF TypeOK
  <2>5. RightLevel(priority[p], q)'
    BY <2>1 DEF RightLevel, TypeOK
  <2>6. QED
    BY <1>4, <2>1, <2>4, <2>5
<1>16. ASSUME NEW c \in CPUs, NEW p \in Procs, WaitReturn(c, p) PROVE QueueOfPriority'
  <2> PICK q \in Procs : q = cur[p]
    BY DEF TypeOK
  <2>1. /\ UNCHANGED <<priority, queues>> /\ state[q] = "ZOMBIE"
        /\ killed' = [killed EXCEPT ![q] = FALSE] \/ UNCHANGED killed
    BY <1>16 DEF WaitReturn
  <2>2. ~Queued(q)
    BY <2>1 DEF DispatchInv, QueuedOnce
  <2>3. SameQueued
    BY <1>5, <2>1, <2>2 DEF TypeOK
  <2>4. QED
    BY <1>3, <2>1, <2>3
<1>17. ASSUME NEW c \in CPUs, NEW p \in Procs,
              \/ ForkParent(c, p) \/ Reparent(c, p) \/ BecomeZombie(c, p) \/ WaitNext(c, p)
              \/ LockTest(c, p) \/ Unlock(c, p) \/ UnlockEnd(c, p)
              \/ ForkCall(c, p) \/ Exit(c, p) \/ WaitBegin(c, p) \/ LockBegin(c, p)
       PROVE  QueueOfPriority'
  <2>1. UNCHANGED <<priority, killed, queues>>
    BY <1>17
       DEF ForkParent, Reparent, BecomeZombie, WaitNext, LockTest, Unlock, UnlockEnd,
           ForkCall, Exit, WaitBegin, LockBegin, entry
  <2>2. QED
    BY <1>3, <1>6, <2>1
<1>18. CASE UNCHANGED vars
  BY <1>3, <1>6, <1>18 DEF vars, entry
<1>19. QED
  BY <1>9, <1>10, <1>11, <1>12, <1>13, <1>14, <1>15, <1>16, <1>17, <1>18
     DEF Next, KernelStep, EntryStep, Preempt

\* A process waits in the queue of its priority, at every level: whoever
\* changes a priority has the process in its hands and out of the queues.
THEOREM PriorityOfQueue == Spec => []QueueOfPriority
<1>1. Init => QueueOfPriority
  <2> SUFFICES ASSUME Init, NEW l \in Levels, NEW i \in 1..Len(queues[l])
               PROVE  RightLevel(l, queues[l][i])
    BY DEF QueueOfPriority, RightLevel
  <2>1. queues[l] = IF l = 0 THEN <<INIT>> ELSE << >>
    BY DEF Init
  <2>2. l = 0 /\ queues[l][i] = INIT
    BY <2>1
  <2>3. QED
    BY <2>2 DEF RightLevel
<1>2. TypeOK /\ DispatchInv /\ QueueOfPriority /\ [Next]_vars => QueueOfPriority'
  BY NextLevels
<1>3. QED
  BY <1>1, <1>2, TypeCorrect, DispatchCorrect, PTL DEF Spec

-----------------------------------------------------------------------------
(* Who holds a lock *)

\* The process that a CPU executes is executed by no other, and its lock is
\* free.
LEMMA RunsAlone ==
  ASSUME TypeOK, DispatchInv, NEW c \in CPUs, NEW p \in Procs, Runs(c, p)
  PROVE  /\ ctx[c] = p /\ plock[p] = None /\ state[p] = "RUNNING"
         /\ c # None /\ p # None
         /\ \A d \in CPUs : ctx[d] = p => d = c
  BY RunningAlone DEF Runs, DispatchInv, OneCpuPerProcess

\* A step of the process p on CPU c, which acquires or releases a lock when
\* it enters or leaves the section of that lock.
CallerMoves(S, c, p, l, m) ==
  /\ UNCHANGED ctx
  /\ plock' = plock \/ (pc'[p] \notin S /\ plock' = [plock EXCEPT ![p] = c])
  /\ \A q \in Procs \ {p} :
       pc'[q] = pc[q] \/ (pc'[q] \notin S /\ state[q] # "RUNNING")
  /\ \/ m = l /\ (pc[p] \in S <=> pc'[p] \in S)
     \/ l = None /\ m = c /\ pc'[p] \in S
     \/ pc[p] \in S /\ m = None /\ pc'[p] \notin S

LEMMA CallerKeepsHeld ==
  ASSUME TypeOK, DispatchInv, NEW S, NEW l, NEW m, HeldIn(l, S),
         NEW c \in CPUs, NEW p \in Procs, Runs(c, p), CallerMoves(S, c, p, l, m)
  PROVE  HeldIn(m, S)'
<1> USE DEF CallerMoves
<1>1. /\ ctx[c] = p /\ plock[p] = None /\ c # None /\ p # None
      /\ \A d \in CPUs : ctx[d] = p => d = c
  BY RunsAlone
<1>2. \A q \in Procs \ {p} : plock'[q] = plock[q]
  BY DEF TypeOK
<1>3. \A q \in Procs : pc[q] \in S => \E d \in CPUs : Runs(d, q) /\ l = d
  BY DEF HeldIn
<1>4. \A q \in Procs : pc[q] \in S => state[q] = "RUNNING"
  BY <1>3, RunningAlone
<1>5. \A d \in CPUs : l = d => \E q \in Procs : Runs(d, q) /\ pc[q] \in S
  BY DEF HeldIn
<1>6. \A d \in CPUs : d # None
  BY ProcAssumption
<1>7. pc[p] \in S => l = c
  BY <1>1, <1>3 DEF Runs
<1>8. ASSUME NEW q \in Procs, pc'[q] \in S PROVE \E d \in CPUs : Runs(d, q)' /\ m = d
  <2>1. CASE q = p
    <3>1. plock' = plock
      BY <1>8, <2>1
    <3>2. m = c
      BY <1>7, <1>8, <2>1
    <3>3. QED
      BY <1>1, <2>1, <3>1, <3>2 DEF Runs
  <2>2. CASE q # p
    <3>1. pc[q] \in S
      BY <1>8, <2>2
    <3>2. PICK d \in CPUs : Runs(d, q) /\ l = d
      BY <1>3, <3>1
    <3>3. pc[p] \notin S /\ l # None
      BY <1>1, <1>6, <1>7, <2>2, <3>2 DEF Runs
    <3>4. m = l
      BY <3>3
    <3>5. QED
      BY <1>2, <2>2, <3>2, <3>4 DEF Runs
  <2>3. QED
    BY <2>1, <2>2
<1>9. ASSUME NEW d \in CPUs, m = d PROVE \E q \in Procs : Runs(d, q)' /\ pc'[q] \in S
  <2>1. CASE m = l
    <3>1. PICK q \in Procs : Runs(d, q) /\ pc[q] \in S
      BY <1>5, <1>9, <2>1
    <3>2. CASE q = p
      BY <1>1, <1>6, <1>7, <1>9, <2>1, <3>1, <3>2 DEF Runs
    <3>3. CASE q # p
      <4>1. pc'[q] = pc[q]
        BY <1>4, <3>1, <3>3
      <4>2. QED
        BY <1>2, <3>1, <3>3, <4>1 DEF Runs
    <3>4. QED
      BY <3>2, <3>3
  <2>2. CASE l = None /\ m = c /\ pc'[p] \in S
    BY <1>1, <1>9, <2>2 DEF Runs
  <2>3. QED
    BY <1>6, <1>9, <2>1, <2>2
<1>10. QED
  BY <1>8, <1>9 DEF HeldIn

\* A context switch: p, which is in no section, gets to CPU c or off it.
LEMMA SwitchKeepsHeld ==
  ASSUME TypeOK, NEW S, NEW l, HeldIn(l, S), UNCHANGED pc,
         NEW c \in CPUs, NEW p \in Procs, \A d \in CPUs : ~Runs(d, p),
         \A d \in CPUs \ {c} : ctx'[d] = ctx[d],
         ctx'[c] = ctx[c] \/ ctx[c] \in {p, None},
         \A q \in Procs \ {p} : plock'[q] = plock[q]
  PROVE  HeldIn(l, S)'
<1>1. \A q \in Procs, d \in CPUs : Runs(d, q) => q # p /\ Runs(d, q)'
  BY ProcAssumption DEF Runs
<1>2. QED
  BY <1>1 DEF HeldIn

LEMMA CallerKeepsLocks ==
  ASSUME TypeOK, DispatchInv, LockInv, NEW c \in CPUs, NEW p \in Procs, Runs(c, p),
         CallerMoves(WaitSection, c, p, wait_lock, wait_lock'),
         CallerMoves(SpinSection, c, p, spin, spin')
  PROVE  HeldIn(wait_lock, WaitSection)' /\ HeldIn(spin, SpinSection)'
<1>1. \A m : CallerMoves(WaitSection, c, p, wait_lock, m) => HeldIn(m, WaitSection)'
  BY CallerKeepsHeld DEF LockInv
<1>2. \A m : CallerMoves(SpinSection, c, p, spin, m) => HeldIn(m, SpinSection)'
  BY CallerKeepsHeld DEF LockInv
<1>3. HeldIn(wait_lock, WaitSection)'
  BY <1>1 DEF HeldIn
<1>4. HeldIn(spin, SpinSection)'
  BY <1>2 DEF HeldIn
<1>5. QED
  BY <1>3, <1>4

LEMMA SwitchKeepsLocks ==
  ASSUME TypeOK, LockInv, UNCHANGED <<pc, wait_lock, spin>>,
         NEW c \in CPUs, NEW p \in Procs, \A d \in CPUs : ~Runs(d, p),
         \A d \in CPUs \ {c} : ctx'[d] = ctx[d],
         ctx'[c] = ctx[c] \/ ctx[c] \in {p, None},
         \A q \in Procs \ {p} : plock'[q] = plock[q]
  PROVE  HeldIn(wait_lock, WaitSection)' /\ HeldIn(spin, SpinSection)'
<1>1. \A S, l : HeldIn(l, S) => HeldIn(l, S)'
  BY SwitchKeepsHeld
<1>2. HeldIn(wait_lock, WaitSection)'
  BY <1>1 DEF HeldIn, LockInv
<1>3. HeldIn(spin, SpinSection)'
  BY <1>1 DEF HeldIn, LockInv
<1>4. QED
  BY <1>2, <1>3

LEMMA LocksStayHeld ==
  ASSUME TypeOK, DispatchInv, LockInv, [Next]_vars
  PROVE  HeldIn(wait_lock, WaitSection)' /\ HeldIn(spin, SpinSection)'
<1> DEFINE Goal == HeldIn(wait_lock, WaitSection)' /\ HeldIn(spin, SpinSection)'
<1> USE DEF WaitSection, SpinSection, Goto, At
<1>1. ASSUME UNCHANGED <<pc, ctx, plock, wait_lock, spin>> PROVE Goal
  BY <1>1 DEF LockInv, HeldIn, Runs
<1>2. ASSUME NEW c \in CPUs, ScanBegin(c) \/ Scan(c) PROVE Goal
  BY <1>1, <1>2 DEF ScanBegin, Scan, local, services, cpu
<1>3. ASSUME NEW c \in CPUs, Dispatch(c) PROVE Goal
  <2>1. picked[c] \in Procs /\ Picked(picked[c])
    BY <1>3 DEF Dispatch, Picked, TypeOK
  <2>2. state[picked[c]] = "RUNNABLE" /\ ctx[c] = None
    BY <1>3, <2>1 DEF DispatchInv, QueuedOnce, ScansLocked, Dispatch, TypeOK
  <2>3. \A d \in CPUs : ~Runs(d, picked[c])
    BY <2>1, <2>2, RunsAlone
  <2>4. QED
    BY <1>3, <2>1, <2>2, <2>3, SwitchKeepsLocks DEF Dispatch, local, services, TypeOK
<1>4. ASSUME NEW c \in CPUs, NEW p \in Procs, Resume(c, p) \/ Swtch(c, p) PROVE Goal
  <2>1. \A d \in CPUs : ~Runs(d, p)
    BY <1>4, ProcAssumption DEF Resume, Swtch, Runs
  <2>2. QED
    BY <1>4, <2>1, SwitchKeepsLocks
       DEF Resume, Swtch, local, services, scheduling, cpu, TypeOK
<1>5. ASSUME NEW c \in CPUs, NEW p \in Procs, Yield(c, p) PROVE Goal
  BY <1>5, CallerKeepsLocks
     DEF Yield, Interruptible, CallerMoves, local, scheduling, cpu, services
<1>6. ASSUME NEW c \in CPUs, NEW p \in Procs, Sleep(c, p) PROVE Goal
  BY <1>6, CallerKeepsLocks
     DEF Sleep, SleepReturn, CallerMoves, scheduling, cpu, TypeOK
<1>7. ASSUME NEW c \in CPUs, NEW p \in Procs, Wakeup(c, p) PROVE Goal
  BY <1>7, CallerKeepsLocks
     DEF Wakeup, Waking, WakeupReturn, CallerMoves, scheduling, cpu, services, TypeOK
<1>8. ASSUME NEW c \in CPUs, NEW p \in Procs, NEW t \in Victims, Kill(c, p, t) PROVE Goal
  BY <1>1, <1>8 DEF Kill, local, scheduling, cpu, services
<1>9. ASSUME NEW c \in CPUs, NEW p \in Procs, AllocProc(c, p) PROVE Goal
  BY <1>9, CallerKeepsLocks
     DEF AllocProc, CallerMoves, scheduling, cpu, services, TypeOK
<1>10. ASSUME NEW c \in CPUs, NEW p \in Procs,
              ForkCall(c, p) \/ ForkParent(c, p) \/ ForkQueue(c, p)
       PROVE  Goal
  BY <1>10, CallerKeepsLocks
     DEF ForkCall, Call, ForkParent, ForkQueue, CallerMoves, scheduling, cpu, services, TypeOK
<1>11. ASSUME NEW c \in CPUs, NEW p \in Procs,
              Exit(c, p) \/ Reparent(c, p) \/ BecomeZombie(c, p)
       PROVE  Goal
  <2>1. CASE Exit(c, p)
    BY <2>1, CallerKeepsLocks DEF Exit, WaitLockFree, CallerMoves, scheduling, cpu, TypeOK
  <2>2. CASE Reparent(c, p)
    BY <2>2, CallerKeepsLocks
       DEF Reparent, CallerMoves, scheduling, cpu, services, TypeOK
  <2>3. CASE BecomeZombie(c, p)
    BY <2>3, CallerKeepsLocks DEF BecomeZombie, CallerMoves, scheduling, cpu, TypeOK
  <2>4. QED
    BY <1>11, <2>1, <2>2, <2>3
<1>12. ASSUME NEW c \in CPUs, NEW p \in Procs,
              WaitBegin(c, p) \/ WaitReturn(c, p) \/ WaitNext(c, p)
       PROVE  Goal
  <2>1. CASE WaitBegin(c, p)
    BY <2>1, CallerKeepsLocks
       DEF WaitBegin, Call, WaitLockFree, CallerMoves, scheduling, cpu, TypeOK
  <2>2. CASE WaitReturn(c, p)
    BY <2>2, CallerKeepsLocks DEF WaitReturn, CallerMoves, scheduling, cpu, TypeOK
  <2>3. CASE WaitNext(c, p)
    BY <2>3, CallerKeepsLocks DEF WaitNext, CallerMoves, scheduling, cpu, TypeOK
  <2>4. QED
    BY <1>12, <2>1, <2>2, <2>3
<1>13. ASSUME NEW c \in CPUs, NEW p \in Procs,
              LockBegin(c, p) \/ LockTest(c, p) \/ Unlock(c, p) \/ UnlockEnd(c, p)
       PROVE  Goal
  <2>1. CASE LockBegin(c, p)
    BY <2>1, CallerKeepsLocks
       DEF LockBegin, Call, SpinFree, CallerMoves, scheduling, cpu, TypeOK
  <2>2. CASE LockTest(c, p)
    BY <2>2, CallerKeepsLocks DEF LockTest, CallerMoves, scheduling, cpu, TypeOK
  <2>3. CASE Unlock(c, p) \/ UnlockEnd(c, p)
    BY <2>3, CallerKeepsLocks
       DEF Unlock, UnlockEnd, SpinFree, CallerMoves, scheduling, cpu, TypeOK
  <2>4. QED
    BY <1>13, <2>1, <2>2, <2>3
<1>14. CASE UNCHANGED vars
  BY <1>1, <1>14 DEF vars, local, services, scheduling, cpu
<1>15. QED
  BY <1>2, <1>3, <1>4, <1>5, <1>6, <1>7, <1>8, <1>9, <1>10, <1>11, <1>12, <1>13, <1>14
     DEF Next, SchedulerStep, KernelStep, EntryStep, Preempt

-----------------------------------------------------------------------------
(* Cursors, and entries without a process *)

LEMMA CursorsStayReset ==
  ASSUME TypeOK, DispatchInv, LockInv, [Next]_vars
  PROVE  CursorsReset' /\ DeadOutside'
<1> DEFINE Goal == CursorsReset' /\ DeadOutside'
<1> USE DEF LockInv, CursorsReset, DeadOutside, Goto, At, Walking, Waking, Dead, TypeOK
<1>1. ASSUME UNCHANGED local, \A q \in Procs : state'[q] \in Dead => state[q] \in Dead
      PROVE  Goal
  BY <1>1 DEF local, cursors
<1>2. ASSUME NEW c \in CPUs, ScanBegin(c) \/ Scan(c) \/ Dispatch(c) PROVE Goal
  BY <1>1, <1>2 DEF ScanBegin, Scan, Dispatch, entry
<1>3. ASSUME NEW c \in CPUs, NEW p \in Procs, Resume(c, p) \/ Swtch(c, p) \/ Yield(c, p)
      PROVE  Goal
  BY <1>1, <1>3 DEF Resume, Swtch, Yield, entry
<1>4. ASSUME NEW c \in CPUs, NEW p \in Procs, NEW t \in Victims, Kill(c, p, t) PROVE Goal
  BY <1>1, <1>4 DEF Kill
<1>5. ASSUME NEW c \in CPUs, NEW p \in Procs, Sleep(c, p) PROVE Goal
  BY <1>5 DEF Sleep, SleepReturn, cursors
<1>6. ASSUME NEW c \in CPUs, NEW p \in Procs, Wakeup(c, p) PROVE Goal
  <2>1. state[p] = "RUNNING" /\ pc[p] \in Waking
    BY <1>6, RunsAlone DEF Wakeup
  <2>2. QED
    BY <1>6, <2>1 DEF Wakeup, WakeupReturn
<1>7. ASSUME NEW c \in CPUs, NEW p \in Procs, AllocProc(c, p) PROVE Goal
  <2>1. state[p] = "RUNNING"
    BY <1>7, RunsAlone DEF AllocProc
  <2> DEFINE q == cur[p]
  <2>2. CASE /\ state[q] = "UNUSED"
             /\ state' = [state EXCEPT ![q] = "USED"]
             /\ pc' = [pc EXCEPT ![p] = "fork_parent", ![q] = "user"]
             /\ UNCHANGED cur
    <3>1. q \in Procs /\ q # p /\ pc[q] \in {"user", "exited"}
      BY <2>1, <2>2
    <3>2. /\ pc'[p] = "fork_parent" /\ pc'[q] = "user"
          /\ \A r \in Procs \ {p, q} : pc'[r] = pc[r]
      BY <2>2, <3>1
    <3>3. UNCHANGED cursors /\ pc[p] = "alloc"
      BY <1>7, <2>2 DEF AllocProc, cursors
    <3>4. ASSUME NEW r \in Procs
          PROVE  /\ pc'[r] \notin Walking => cur'[r] = 1
                 /\ pc'[r] \notin Waking => wcur'[r] = 1
      <4>1. /\ pc[r] \notin Walking => cur'[r] = 1
            /\ pc[r] \notin Waking => wcur'[r] = 1
        BY <3>3 DEF cursors
      <4>2. QED
        BY <3>1, <3>2, <3>3, <4>1
    <3>5. DeadOutside'
      BY <2>1, <2>2, <3>1, <3>2
    <3>6. QED
      BY <3>4, <3>5 DEF CursorsReset
  <2>3. CASE /\ cur' = [cur EXCEPT ![p] = q + 1]
             /\ UNCHANGED <<state, pc>>
    BY <1>7, <2>1, <2>3 DEF AllocProc
  <2>4. CASE cur' = [cur EXCEPT ![p] = 1] /\ Goto(p, "user") /\ UNCHANGED state
    BY <1>7, <2>1, <2>4 DEF AllocProc
  <2>5. QED
    BY <1>7, <2>2, <2>3, <2>4 DEF AllocProc
<1>8. ASSUME NEW c \in CPUs, NEW p \in Procs,
             ForkCall(c, p) \/ ForkParent(c, p) \/ ForkQueue(c, p)
      PROVE  Goal
  <2>1. state[p] = "RUNNING"
    BY <1>8, RunsAlone DEF ForkCall, Call, ForkParent, ForkQueue
  <2>2. CASE ForkCall(c, p) \/ ForkParent(c, p)
    BY <2>1, <2>2 DEF ForkCall, ForkParent, Call, entry, cursors
  <2>3. CASE ForkQueue(c, p)
    BY <2>1, <2>3 DEF ForkQueue
  <2>4. QED
    BY <1>8, <2>2, <2>3
<1>9. ASSUME NEW c \in CPUs, NEW p \in Procs,
             Exit(c, p) \/ Reparent(c, p) \/ BecomeZombie(c, p)
      PROVE  Goal
  <2>1. state[p] = "RUNNING"
    BY <1>9, RunsAlone DEF Exit, Reparent, BecomeZombie
  <2>2. QED
    BY <1>9, <2>1 DEF Exit, Reparent, BecomeZombie, entry, cursors
<1>10. ASSUME NEW c \in CPUs, NEW p \in Procs,
              WaitBegin(c, p) \/ WaitReturn(c, p) \/ WaitNext(c, p)
       PROVE  Goal
  <2>1. state[p] = "RUNNING"
    BY <1>10, RunsAlone DEF WaitBegin, Call, WaitReturn, WaitNext
  <2>2. CASE WaitBegin(c, p)
    BY <2>1, <2>2 DEF WaitBegin, Call, entry, cursors
  <2>3. CASE WaitReturn(c, p)
    BY <2>1, <2>3 DEF WaitReturn
  <2>4. CASE WaitNext(c, p)
    <3>1. UNCHANGED <<state, wcur>> /\ \A r \in Procs \ {p} : cur'[r] = cur[r] /\ pc'[r] = pc[r]
      BY <2>4 DEF WaitNext, entry
    <3>2. /\ pc'[p] \in {"wait_scan", "wait_sleep", "user"}
          /\ pc[p] = "wait_scan" /\ (pc'[p] # "wait_scan" => cur'[p] = 1)
      BY <2>4, ProcAssumption DEF WaitNext
    <3>3. QED
      BY <2>1, <3>1, <3>2
  <2>5. QED
    BY <1>10, <2>2, <2>3, <2>4
<1>11. ASSUME NEW c \in CPUs, NEW p \in Procs,
              LockBegin(c, p) \/ LockTest(c, p) \/ Unlock(c, p) \/ UnlockEnd(c, p)
       PROVE  Goal
  <2>1. state[p] = "RUNNING"
    BY <1>11, RunsAlone DEF LockBegin, Call, LockTest, Unlock, UnlockEnd
  <2>2. QED
    BY <1>11, <2>1 DEF LockBegin, Call, LockTest, Unlock, UnlockEnd, entry, cursors
<1>12. CASE UNCHANGED vars
  BY <1>1, <1>12 DEF vars, entry
<1>13. QED
  BY <1>2, <1>3, <1>4, <1>5, <1>6, <1>7, <1>8, <1>9, <1>10, <1>11, <1>12
     DEF Next, SchedulerStep, KernelStep, EntryStep, Preempt

-----------------------------------------------------------------------------
(* The sleep lock *)

LEMMA OwnerStaysInside ==
  ASSUME TypeOK, DispatchInv, LockInv, [Next]_vars
  PROVE  OwnerInside'
<1> USE DEF LockInv, OwnerInside, Goto, At, TypeOK
<1>1. ASSUME UNCHANGED <<pc, owner>> PROVE OwnerInside'
  BY <1>1
<1>2. ASSUME UNCHANGED owner, NEW p \in Procs, pc[p] # "critical",
             NEW step, step # "critical", Goto(p, step)
      PROVE  OwnerInside'
  BY <1>2
<1>3. ASSUME NEW c \in CPUs, SchedulerStep(c) PROVE OwnerInside'
  BY <1>1, <1>3
     DEF SchedulerStep, ScanBegin, Scan, Dispatch, Resume, Swtch, local, services
<1>4. ASSUME NEW c \in CPUs, NEW p \in Procs, Sleep(c, p) PROVE OwnerInside'
  BY <1>4 DEF Sleep, SleepReturn
<1>5. ASSUME NEW c \in CPUs, NEW p \in Procs, Wakeup(c, p) PROVE OwnerInside'
  BY <1>5 DEF Wakeup, WakeupReturn, Waking, services
<1>6. ASSUME NEW c \in CPUs, NEW p \in Procs, AllocProc(c, p) PROVE OwnerInside'
  BY <1>6 DEF AllocProc, services, DeadOutside, Dead
<1>7. ASSUME NEW c \in CPUs, NEW p \in Procs,
             ForkCall(c, p) \/ ForkParent(c, p) \/ ForkQueue(c, p)
      PROVE  OwnerInside'
  BY <1>7 DEF ForkCall, Call, ForkParent, ForkQueue, services
<1>8. ASSUME NEW c \in CPUs, NEW p \in Procs,
             Exit(c, p) \/ Reparent(c, p) \/ BecomeZombie(c, p)
      PROVE  OwnerInside'
  BY <1>8 DEF Exit, Reparent, BecomeZombie, services
<1>9. ASSUME NEW c \in CPUs, NEW p \in Procs,
             WaitBegin(c, p) \/ WaitReturn(c, p) \/ WaitNext(c, p)
      PROVE  OwnerInside'
  BY <1>9 DEF WaitBegin, Call, WaitReturn, WaitNext
<1>10. ASSUME NEW c \in CPUs, NEW p \in Procs,
              LockBegin(c, p) \/ LockTest(c, p) \/ Unlock(c, p) \/ UnlockEnd(c, p)
       PROVE  OwnerInside'
  BY <1>10, ProcAssumption DEF LockBegin, Call, LockTest, Unlock, UnlockEnd
<1>11. ASSUME NEW c \in CPUs, NEW p \in Procs,
              Yield(c, p) \/ \E t \in Victims : Kill(c, p, t)
       PROVE  OwnerInside'
  BY <1>1, <1>11 DEF Yield, Kill, local, services
<1>12. CASE UNCHANGED vars
  BY <1>1, <1>12 DEF vars, local, services
<1>13. QED
  BY <1>3, <1>4, <1>5, <1>6, <1>7, <1>8, <1>9, <1>10, <1>11, <1>12
     DEF Next, KernelStep, EntryStep, Preempt

\* Whoever is in the spin section is alone in it, and no other enters it while
\* the lock is held.
LEMMA AloneInSection ==
  ASSUME TypeOK, DispatchInv, NEW S, NEW l, HeldIn(l, S)
  PROVE  /\ \A p, q \in Procs : pc[p] \in S /\ pc[q] \in S => p = q
         /\ l = None => \A p \in Procs : pc[p] \notin S
  BY ProcAssumption DEF HeldIn, Runs

LEMMA SleepersKeepWaker ==
  ASSUME TypeOK, DispatchInv, LockInv, [Next]_vars
  PROVE  SleepersHaveWaker'
<1> DEFINE SameWakers ==
      \A p \in Procs :
        /\ pc'[p] = "lock_sleep" => pc[p] = "lock_sleep"
        /\ pc[p] = "wake_lock" => pc'[p] = "wake_lock" /\ wcur'[p] = wcur[p]
<1> USE DEF LockInv, SleepersHaveWaker, SleepsOnLock, Goto, At, TypeOK
<1>1. ASSUME UNCHANGED owner, SameWakers, \A q \in Procs : SleepsOnLock(q)' => SleepsOnLock(q)
      PROVE  SleepersHaveWaker'
  BY <1>1
<1> HIDE DEF SleepersHaveWaker
<1>2. /\ \A p, q \in Procs : pc[p] \in SpinSection /\ pc[q] \in SpinSection => p = q
      /\ spin = None => \A p \in Procs : pc[p] \notin SpinSection
  BY AloneInSection
<1>3. ASSUME NEW c \in CPUs, SchedulerStep(c) PROVE SleepersHaveWaker'
  <2>1. CASE ScanBegin(c) \/ Scan(c)
    BY <1>1, <2>1 DEF ScanBegin, Scan, entry, local, cursors, services
  <2>2. CASE Dispatch(c)
    BY <1>1, <2>2 DEF Dispatch, local, cursors, services
  <2>3. ASSUME NEW p \in Procs, Resume(c, p) \/ Swtch(c, p) PROVE SleepersHaveWaker'
    BY <1>1, <2>3, ProcAssumption DEF Resume, Swtch, entry, local, cursors, services
  <2>4. QED
    BY <1>3, <2>1, <2>2, <2>3 DEF SchedulerStep
<1>4. ASSUME NEW c \in CPUs, NEW p \in Procs, Sleep(c, p) PROVE SleepersHaveWaker'
  <2>1. UNCHANGED <<owner, wcur>> /\ pc[p] \in {"wait_sleep", "lock_sleep"}
    BY <1>4 DEF Sleep, cursors
  <2>2. pc'[p] \in {"wait_relock", "lock_relock"} /\ \A q \in Procs \ {p} : pc'[q] = pc[q]
    BY <1>4 DEF Sleep, SleepReturn
  <2>3. SameWakers
    BY <2>1, <2>2
  <2>4. CASE pc[p] = "wait_sleep"
    BY <1>1, <1>4, <2>1, <2>3, <2>4, ProcAssumption DEF Sleep
  <2>5. CASE pc[p] = "lock_sleep"
    BY <2>1, <2>3, <2>5 DEF SleepersHaveWaker
  <2>6. QED
    BY <2>1, <2>4, <2>5
<1>5. ASSUME NEW c \in CPUs, NEW p \in Procs, Wakeup(c, p) PROVE SleepersHaveWaker'
  <2> PICK q \in Procs : q = wcur[p]
    OBVIOUS
  <2>1. UNCHANGED <<owner, chan>> /\ \A r \in Procs \ {p} : pc'[r] = pc[r] /\ wcur'[r] = wcur[r]
    BY <1>5 DEF Wakeup, services
  <2>2. \A r \in Procs : SleepsOnLock(r)' => SleepsOnLock(r)
    BY <1>5, <2>1 DEF Wakeup
  <2>3. pc[p] \in Waking /\ pc'[p] \in {pc[p], "reparent", "zombie", "unlock"}
    BY <1>5 DEF Wakeup, WakeupReturn, Waking
  <2>4. CASE pc[p] # "wake_lock"
    BY <1>1, <2>1, <2>2, <2>3, <2>4 DEF Waking
  <2>5. CASE pc[p] = "wake_lock"
    <3>1. ~SleepsOnLock(q)'
      <4>1. state[p] = "RUNNING"
        BY <1>5, RunsAlone DEF Wakeup
      <4>2. q = p \/ ~Wakes(p, q) => ~SleepsOnLock(q)
        BY <2>5, <4>1 DEF Wakes, WakeupChan
      <4>3. QED
        BY <1>5, <2>1, <4>2 DEF Wakeup
    <3>2. \/ q < NPROC /\ pc'[p] = "wake_lock" /\ wcur'[p] = q + 1
          \/ q = NPROC
      BY <1>5, <2>5 DEF Wakeup
    <3>3. \A r \in Procs : pc'[r] = "lock_sleep" => owner' # None
      BY <2>1, <2>3 DEF SleepersHaveWaker, Waking
    <3>4. ASSUME NEW r \in Procs, SleepsOnLock(r)', owner' = None
          PROVE  \E x \in Procs : pc'[x] = "wake_lock" /\ wcur'[x] <= r
      <4>1. SleepsOnLock(r) /\ owner = None
        BY <2>1, <2>2, <3>4
      <4>2. PICK x \in Procs : pc[x] = "wake_lock" /\ wcur[x] <= r
        BY <4>1 DEF SleepersHaveWaker
      <4>3. x = p
        BY <1>2, <2>5, <4>2 DEF SpinSection
      <4>4. q # r /\ q <= r
        BY <3>1, <3>4, <4>2, <4>3
      <4>5. q \in Int /\ r \in Int /\ r <= NPROC /\ NPROC \in Int
        BY ProcAssumption DEF Procs
      <4>6. q < NPROC /\ q + 1 <= r
        BY <4>4, <4>5
      <4>7. QED
        BY <3>2, <4>5, <4>6
    <3>5. QED
      BY <3>3, <3>4 DEF SleepersHaveWaker
  <2>6. QED
    BY <2>4, <2>5
<1>6. ASSUME NEW c \in CPUs, NEW p \in Procs, AllocProc(c, p) PROVE SleepersHaveWaker'
  <2>1. UNCHANGED <<owner, wcur, chan>> /\ pc[p] = "alloc"
    BY <1>6 DEF AllocProc, services
  <2>2. \A r \in Procs : SleepsOnLock(r)' => SleepsOnLock(r)
    BY <1>6, <2>1 DEF AllocProc
  <2>3. \A r \in Procs : pc'[r] = pc[r] \/ pc[r] = "alloc" \/ state[r] = "UNUSED"
    BY <1>6 DEF AllocProc
  <2>4. \A r \in Procs : pc'[r] # pc[r] => pc'[r] \in {"user", "fork_parent"}
    BY <1>6 DEF AllocProc
  <2>5. SameWakers
    BY <2>1, <2>3, <2>4 DEF DeadOutside, Dead
  <2>6. QED
    BY <1>1, <2>1, <2>2, <2>5
<1>7. ASSUME NEW c \in CPUs, NEW p \in Procs,
             ForkCall(c, p) \/ ForkParent(c, p) \/ ForkQueue(c, p)
      PROVE  SleepersHaveWaker'
  BY <1>1, <1>7 DEF ForkCall, Call, ForkParent, ForkQueue, entry, cursors, services
<1>8. ASSUME NEW c \in CPUs, NEW p \in Procs,
             Exit(c, p) \/ Reparent(c, p) \/ BecomeZombie(c, p)
      PROVE  SleepersHaveWaker'
  BY <1>1, <1>8 DEF Exit, Reparent, BecomeZombie, entry, cursors, services
<1>9. ASSUME NEW c \in CPUs, NEW p \in Procs,
             WaitBegin(c, p) \/ WaitReturn(c, p) \/ WaitNext(c, p)
      PROVE  SleepersHaveWaker'
  <2>1. CASE WaitBegin(c, p)
    BY <1>1, <2>1 DEF WaitBegin, Call, entry, cursors
  <2>2. CASE WaitReturn(c, p)
    BY <1>1, <2>2 DEF WaitReturn
  <2>3. CASE WaitNext(c, p)
    BY <1>1, <2>3 DEF WaitNext, entry
  <2>4. QED
    BY <1>9, <2>1, <2>2, <2>3
<1>10. ASSUME NEW c \in CPUs, NEW p \in Procs, LockBegin(c, p) \/ UnlockEnd(c, p)
       PROVE  SleepersHaveWaker'
  BY <1>1, <1>10 DEF LockBegin, Call, UnlockEnd, entry, cursors
<1>11. ASSUME NEW c \in CPUs, NEW p \in Procs, LockTest(c, p) PROVE SleepersHaveWaker'
  BY <1>11, ProcAssumption DEF SleepersHaveWaker, LockTest, entry
<1>12. ASSUME NEW c \in CPUs, NEW p \in Procs, Unlock(c, p) PROVE SleepersHaveWaker'
  <2>1. \A r \in Procs : pc[r] # "lock_sleep"
    BY <1>2, <1>12 DEF Unlock, SpinFree, SpinSection
  <2>2. pc'[p] = "wake_lock" /\ wcur'[p] = 1
    BY <1>12 DEF Unlock, cursors, CursorsReset, Waking
  <2>3. \A r \in Procs : pc'[r] # "lock_sleep"
    BY <1>12, <2>1 DEF Unlock
  <2>4. QED
    BY <2>2, <2>3 DEF SleepersHaveWaker, Procs
<1>13. ASSUME NEW c \in CPUs, NEW p \in Procs,
              Yield(c, p) \/ \E t \in Victims : Kill(c, p, t)
       PROVE  SleepersHaveWaker'
  BY <1>1, <1>13 DEF Yield, Kill, local, cursors, services
<1>14. CASE UNCHANGED vars
  BY <1>1, <1>14 DEF vars, entry, local, cursors, services
<1>15. QED
  BY <1>3, <1>4, <1>5, <1>6, <1>7, <1>8, <1>9, <1>10, <1>11, <1>12, <1>13, <1>14
     DEF Next, KernelStep, EntryStep, Preempt

-----------------------------------------------------------------------------
(* Parents and children *)

LEMMA ParentsStayLive ==
  ASSUME TypeOK, DispatchInv, LockInv, [Next]_vars
  PROVE  ParentsLive'
<1> DEFINE Same(S) == \A r \in Procs : pc'[r] \in S => pc[r] \in S
           SamePlaces ==
             /\ Same({"reparent", "wake_init"}) /\ Same({"wake_parent", "zombie"})
             /\ Same({"fork_parent"}) /\ Same(Exiting)
             /\ \A r \in Procs :
                  pc'[r] \in {"reparent", "wake_init", "fork_parent"} => cur'[r] = cur[r]
           SameDead ==
             \A r \in Procs : /\ state'[r] \in Dead => state[r] \in Dead
                              /\ state'[r] = "UNUSED" => state[r] = "UNUSED"
<1> USE DEF LockInv, ParentsLive, Dead, Goto, At, TypeOK
<1>1. ASSUME UNCHANGED parent, SamePlaces, SameDead PROVE ParentsLive'
  <2>1. INIT \in Procs
    BY ProcAssumption DEF INIT, Procs
  <2>2. QED
    BY <1>1, <2>1
<1> HIDE DEF ParentsLive
<1>2. ASSUME NEW p \in Procs, state[p] = "RUNNING", \A r \in Procs \ {p} : pc'[r] = pc[r] /\ cur'[r] = cur[r],
             pc'[p] \notin Exiting \cup {"fork_parent"}
      PROVE  SamePlaces
  BY <1>2 DEF Exiting
<1>3. INIT \in Procs /\ state[INIT] \notin Dead /\ pc[INIT] \notin Exiting
  BY ProcAssumption DEF INIT, Procs, ParentsLive
<1>4. ASSUME UNCHANGED <<pc, cur>> PROVE SamePlaces
  BY <1>4
<1>5. ASSUME NEW c \in CPUs, SchedulerStep(c) PROVE ParentsLive'
  <2>1. CASE ScanBegin(c) \/ Scan(c)
    BY <1>1, <2>1 DEF ScanBegin, Scan, entry, local, cursors
  <2>2. CASE Dispatch(c)
    BY <1>1, <2>2 DEF Dispatch, local, cursors
  <2>3. ASSUME NEW p \in Procs, Resume(c, p) \/ Swtch(c, p) PROVE ParentsLive'
    BY <1>1, <2>3 DEF Resume, Swtch, entry, local, cursors
  <2>4. QED
    BY <1>5, <2>1, <2>2, <2>3 DEF SchedulerStep
<1>6. ASSUME NEW c \in CPUs, NEW p \in Procs, Sleep(c, p) PROVE ParentsLive'
  BY <1>1, <1>6 DEF Sleep, SleepReturn, cursors, Exiting
<1>7. ASSUME NEW c \in CPUs, NEW p \in Procs, Wakeup(c, p) PROVE ParentsLive'
  <2>1. SameDead /\ UNCHANGED <<parent, cur>>
    BY <1>7 DEF Wakeup, Wakes
  <2>2. /\ \A r \in Procs \ {p} : pc'[r] = pc[r]
        /\ \/ pc'[p] = pc[p]
           \/ pc[p] = "wake_init" /\ pc'[p] = "reparent"
           \/ pc[p] = "wake_parent" /\ pc'[p] = "zombie"
           \/ pc[p] = "wake_lock" /\ pc'[p] = "unlock"
    BY <1>7 DEF Wakeup, WakeupReturn, Waking
  <2>3. SamePlaces
    BY <2>1, <2>2 DEF Exiting
  <2>4. QED
    BY <1>1, <2>1, <2>3
<1>8. ASSUME NEW c \in CPUs, NEW p \in Procs, AllocProc(c, p) PROVE ParentsLive'
  <2> PICK q \in Procs : q = cur[p]
    OBVIOUS
  <2>1. UNCHANGED parent /\ pc[p] = "alloc" /\ state[p] = "RUNNING"
    BY <1>8, RunsAlone DEF AllocProc
  <2>2. CASE /\ state[q] = "UNUSED"
             /\ state' = [state EXCEPT ![q] = "USED"]
             /\ pc' = [pc EXCEPT ![p] = "fork_parent", ![q] = "user"]
             /\ UNCHANGED cur
    <3>1. /\ pc'[p] = "fork_parent" /\ pc'[q] = "user" /\ parent[q] = None
          /\ \A r \in Procs \ {p, q} : pc'[r] = pc[r]
      BY <2>1, <2>2 DEF ParentsLive
    <3>2. SameDead
      BY <2>2
    <3>3. state'[INIT] \notin Dead /\ pc'[INIT] \notin Exiting
      BY <1>3, <3>1, <3>2 DEF Exiting
    <3>4. \A r \in Procs : pc'[r] = "fork_parent" => parent'[cur'[r]] = None
      BY <2>1, <2>2, <3>1 DEF ParentsLive
    <3>5. QED
      BY <2>1, <2>2, <3>1, <3>2, <3>3, <3>4 DEF ParentsLive
  <2>3. CASE cur' = [cur EXCEPT ![p] = q + 1] /\ UNCHANGED <<state, pc>>
    BY <1>1, <2>1, <2>3
  <2>4. CASE cur' = [cur EXCEPT ![p] = 1] /\ Goto(p, "user") /\ UNCHANGED state
    BY <1>1, <2>1, <2>4 DEF Exiting
  <2>5. QED
    BY <1>8, <2>2, <2>3, <2>4 DEF AllocProc
<1>9. ASSUME NEW c \in CPUs, NEW p \in Procs, ForkCall(c, p) \/ ForkQueue(c, p)
      PROVE  ParentsLive'
  BY <1>1, <1>9 DEF ForkCall, Call, ForkQueue, entry, cursors, Exiting
<1>10. ASSUME NEW c \in CPUs, NEW p \in Procs, ForkParent(c, p) PROVE ParentsLive'
  <2> PICK q \in Procs : q = cur[p]
    OBVIOUS
  <2>1. /\ UNCHANGED <<state, cur>> /\ pc[p] = "fork_parent" /\ state[p] = "RUNNING"
        /\ parent' = [parent EXCEPT ![q] = p] /\ pc' = [pc EXCEPT ![p] = "fork_queue"]
    BY <1>10, RunsAlone DEF ForkParent, cursors
  <2>2. /\ state[q] = "USED"
        /\ \A r \in Procs : pc[r] = "fork_parent" /\ cur[r] = q => r = p
    BY <2>1 DEF DispatchInv, OwnChild, Forking
  <2>3. state'[INIT] \notin Dead /\ pc'[INIT] \notin Exiting
    BY <1>3, <2>1 DEF Exiting
  <2>4. QED
    BY <2>1, <2>2, <2>3 DEF ParentsLive
<1>11. ASSUME NEW c \in CPUs, NEW p \in Procs, Exit(c, p) PROVE ParentsLive'
  <2>1. /\ UNCHANGED <<state, parent, cur>> /\ pc[p] = "user" /\ p # INIT
        /\ pc' = [pc EXCEPT ![p] = "reparent"]
    BY <1>11 DEF Exit, entry, cursors
  <2>2. cur[p] = 1
    BY <2>1 DEF CursorsReset, Walking
  <2>3. state'[INIT] \notin Dead /\ pc'[INIT] \notin Exiting
    BY <1>3, <2>1
  <2>4. \A r \in Procs : 1 <= r
    BY DEF Procs
  <2>5. QED
    BY <2>1, <2>2, <2>3, <2>4 DEF ParentsLive
<1>12. ASSUME NEW c \in CPUs, NEW p \in Procs, Reparent(c, p) PROVE ParentsLive'
  <2> PICK q \in Procs : q = cur[p]
    OBVIOUS
  <2>1. UNCHANGED state /\ pc[p] = "reparent" /\ p # INIT
    BY <1>3, <1>12 DEF Reparent, Exiting
  <2>2. CASE /\ parent[q] = p
             /\ parent' = [parent EXCEPT ![q] = INIT]
             /\ pc' = [pc EXCEPT ![p] = "wake_init"]
             /\ UNCHANGED cur
    <3>1. state'[INIT] \notin Dead /\ pc'[INIT] \notin Exiting
      BY <1>3, <2>1, <2>2
    <3>2. \A r \in Procs : pc[r] = "fork_parent" => cur[r] # q
      BY <2>2, ProcAssumption DEF ParentsLive
    <3>3. state[q] # "UNUSED"
      BY <2>2, ProcAssumption DEF ParentsLive
    <3>4. QED
      BY <1>3, <2>1, <2>2, <3>1, <3>2, <3>3 DEF ParentsLive, Exiting
  <2>3. CASE /\ parent[q] # p
             /\ cur' = [cur EXCEPT ![p] = IF q < NPROC THEN q + 1 ELSE 1]
             /\ pc' = [pc EXCEPT ![p] = IF q < NPROC THEN "reparent" ELSE "wake_parent"]
             /\ UNCHANGED parent
    <3>1. state'[INIT] \notin Dead /\ pc'[INIT] \notin Exiting
      BY <1>3, <2>1, <2>3
    <3>2. \A r \in Procs : parent[r] = p => q < NPROC /\ q + 1 <= r
      <4>1. \A r \in Procs : parent[r] = p => q <= r /\ q # r
        BY <2>1, <2>3 DEF ParentsLive
      <4>2. q \in Int /\ \A r \in Procs : r \in Int /\ r <= NPROC
        BY ProcAssumption DEF Procs
      <4>3. QED
        BY <4>1, <4>2, ProcAssumption
    <3>3. \A r \in Procs : pc'[r] = "fork_parent" => parent'[cur'[r]] = None
      BY <2>1, <2>3 DEF ParentsLive
    <3>4. QED
      BY <2>1, <2>3, <3>1, <3>2, <3>3 DEF ParentsLive
  <2>4. QED
    BY <1>12, <2>2, <2>3 DEF Reparent, Abandoned
<1>13. ASSUME NEW c \in CPUs, NEW p \in Procs, BecomeZombie(c, p) PROVE ParentsLive'
  <2>1. /\ UNCHANGED <<parent, cur>> /\ pc[p] = "zombie" /\ p # INIT
        /\ state' = [state EXCEPT ![p] = "ZOMBIE"]
        /\ pc' = [pc EXCEPT ![p] = "exited"]
    BY <1>3, <1>13 DEF BecomeZombie, cursors, Exiting
  <2>2. state'[INIT] \notin Dead /\ pc'[INIT] \notin Exiting
    BY <1>3, <2>1
  <2>3. QED
    BY <2>1, <2>2 DEF ParentsLive
<1>14. ASSUME NEW c \in CPUs, NEW p \in Procs, WaitBegin(c, p) \/ WaitNext(c, p)
       PROVE  ParentsLive'
  <2>1. CASE WaitBegin(c, p)
    BY <1>1, <2>1 DEF WaitBegin, Call, entry, cursors, Exiting
  <2>2. CASE WaitNext(c, p)
    BY <1>1, <2>2 DEF WaitNext, entry, Exiting
  <2>3. QED
    BY <1>14, <2>1, <2>2
<1>15. ASSUME NEW c \in CPUs, NEW p \in Procs, WaitReturn(c, p) PROVE ParentsLive'
  <2> PICK q \in Procs : q = cur[p]
    OBVIOUS
  <2>1. /\ pc[p] = "wait_scan" /\ parent[q] = p /\ state[q] = "ZOMBIE"
        /\ cur' = [cur EXCEPT ![p] = 1] /\ pc' = [pc EXCEPT ![p] = "user"]
    BY <1>15 DEF WaitReturn
  <2>2. \A r \in Procs : parent[r] # q
    BY <2>1 DEF ParentsLive
  <2>3. CASE UNCHANGED <<state, parent>>
    BY <1>1, <2>1, <2>3 DEF Exiting
  <2>4. CASE /\ state' = [state EXCEPT ![q] = "UNUSED"]
             /\ parent' = [parent EXCEPT ![q] = None]
    <3>1. state'[INIT] \notin Dead /\ pc'[INIT] \notin Exiting
      BY <1>3, <2>1, <2>4 DEF Exiting
    <3>2. QED
      BY <2>1, <2>2, <2>4, <3>1, ProcAssumption DEF ParentsLive
  <2>5. QED
    BY <1>15, <2>3, <2>4 DEF WaitReturn
<1>16. ASSUME NEW c \in CPUs, NEW p \in Procs,
              LockBegin(c, p) \/ LockTest(c, p) \/ Unlock(c, p) \/ UnlockEnd(c, p)
       PROVE  ParentsLive'
  BY <1>1, <1>16 DEF LockBegin, Call, LockTest, Unlock, UnlockEnd, entry, cursors, Exiting
<1>17. ASSUME NEW c \in CPUs, NEW p \in Procs,
              Yield(c, p) \/ \E t \in Victims : Kill(c, p, t)
       PROVE  ParentsLive'
  BY <1>1, <1>17 DEF Yield, Kill, KillWakes, local, cursors
<1>18. CASE UNCHANGED vars
  BY <1>1, <1>18 DEF vars, entry, local, cursors
<1>19. QED
  BY <1>5, <1>6, <1>7, <1>8, <1>9, <1>10, <1>11, <1>12, <1>13, <1>14, <1>15, <1>16, <1>17, <1>18
     DEF Next, KernelStep, EntryStep, Preempt

LEMMA WaitersStayTold ==
  ASSUME TypeOK, DispatchInv, LockInv, [Next]_vars
  PROVE  WaitersTold'
<1> DEFINE Same(s) == \A r \in Procs : pc'[r] = s => pc[r] = s
           SameWalks ==
             /\ Same("wait_sleep") /\ Same("zombie")
             /\ \A r \in Procs : /\ pc'[r] = "wake_parent" => pc[r] = "wake_parent" /\ wcur'[r] = wcur[r]
                                 /\ pc[r] = "wake_init" => pc'[r] = "wake_init" /\ wcur'[r] = wcur[r]
                                 /\ pc'[r] = "wait_scan" => pc[r] = "wait_scan" /\ cur'[r] = cur[r]
           SameWaiters ==
             \A r \in Procs : /\ Waits(r)' => Waits(r)
                              /\ state'[r] = "ZOMBIE" => state[r] = "ZOMBIE"
           NotPassed ==
             \A r, k \in Procs :
               Waits(r) /\ parent[k] = r =>
                 pc[k] # "zombie" /\ (pc[k] = "wake_parent" => wcur[k] <= r)
           Woken(r) == r = INIT /\ \E x \in Procs : pc[x] = "wake_init" /\ wcur[x] <= r
           Told ==
             \A r, k \in Procs :
               Waits(r) /\ parent[k] = r /\ state[k] = "ZOMBIE" => Woken(r)
           Found ==
             \A r, k \in Procs :
               parent[k] = r /\ state[k] = "ZOMBIE" =>
                 /\ pc[r] # "wait_sleep"
                 /\ pc[r] = "wait_scan" => cur[r] <= k
<1> USE DEF LockInv, HasKids, Waits, Goto, At, TypeOK
<1>1. ASSUME UNCHANGED parent, SameWalks, SameWaiters PROVE WaitersTold'
  <2>1. \A r \in Procs : Waits(r)' \/ pc'[r] = "wait_sleep" => HasKids(r)'
    BY <1>1 DEF WaitersTold
  <2>2. NotPassed'
    BY <1>1 DEF WaitersTold
  <2>3. \A r \in Procs : Woken(r) => Woken(r)'
    BY <1>1
  <2>4. Told
    BY DEF WaitersTold
  <2>5. Told'
    <3> HIDE DEF Woken
    <3> QED
      BY <1>1, <2>3, <2>4
  <2>6. Found'
    BY <1>1 DEF WaitersTold
  <2>7. QED
    BY <2>1, <2>2, <2>5, <2>6 DEF WaitersTold
<1>2. ASSUME UNCHANGED <<pc, cur, wcur>> PROVE SameWalks
  BY <1>2
<1>3. INIT \in Procs /\ INIT = 1 /\ pc[INIT] \notin Exiting /\ \A r \in Procs : 1 <= r
  BY ProcAssumption DEF INIT, Procs, ParentsLive
<1>4. \A p, q \in Procs : pc[p] \in WaitSection /\ pc[q] \in WaitSection => p = q
  BY AloneInSection
<1>5. ASSUME NEW c \in CPUs, SchedulerStep(c) PROVE WaitersTold'
  <2>1. CASE ScanBegin(c) \/ Scan(c)
    BY <1>1, <2>1 DEF ScanBegin, Scan, entry, local, cursors
  <2>2. CASE Dispatch(c)
    BY <1>1, <2>2 DEF Dispatch, local, cursors
  <2>3. ASSUME NEW p \in Procs, Resume(c, p) \/ Swtch(c, p) PROVE WaitersTold'
    BY <1>1, <2>3, ProcAssumption DEF Resume, Swtch, entry, local, cursors
  <2>4. QED
    BY <1>5, <2>1, <2>2, <2>3 DEF SchedulerStep
<1>6. ASSUME NEW c \in CPUs, NEW p \in Procs, Sleep(c, p) PROVE WaitersTold'
  <2>1. /\ UNCHANGED <<parent, cur, wcur>> /\ pc[p] \in {"wait_sleep", "lock_sleep"}
        /\ state' = [state EXCEPT ![p] = "SLEEPING"]
    BY <1>6 DEF Sleep, cursors
  <2>2. pc'[p] \in {"wait_relock", "lock_relock"} /\ \A q \in Procs \ {p} : pc'[q] = pc[q]
    BY <1>6 DEF Sleep, SleepReturn
  <2>3. SameWalks
    BY <2>1, <2>2
  <2>4. CASE pc[p] = "lock_sleep"
    BY <1>1, <1>6, <2>1, <2>3, <2>4, ProcAssumption DEF Sleep
  <2>5. CASE pc[p] = "wait_sleep"
    <3>1. chan' = [chan EXCEPT ![p] = p]
      BY <1>6, <2>5 DEF Sleep
    <3>2. \A q \in Procs : pc[q] \notin {"wake_init", "wake_parent", "zombie"}
      BY <1>4, <2>5 DEF WaitSection
    <3>3. \A q \in Procs : parent[q] = p => state[q] # "ZOMBIE"
      BY <2>5 DEF WaitersTold
    <3>4. \A r \in Procs \ {p} : Waits(r)' => Waits(r)
      BY <2>1, <3>1
    <3>5. \A r \in Procs : Waits(r)' \/ pc'[r] = "wait_sleep" => HasKids(r)'
      BY <2>1, <2>3, <2>5, <3>4 DEF WaitersTold
    <3>6. \A r, q \in Procs : Waits(r)' /\ parent[q] = r => state[q] # "ZOMBIE"
      BY <2>1, <3>2, <3>3, <3>4 DEF WaitersTold
    <3>7. QED
      BY <2>1, <2>3, <3>2, <3>5, <3>6 DEF WaitersTold
  <2>6. QED
    BY <2>1, <2>4, <2>5
<1>7. ASSUME NEW c \in CPUs, NEW p \in Procs, Wakeup(c, p) PROVE WaitersTold'
  <2> PICK q \in Procs : q = wcur[p]
    OBVIOUS
  <2>1. /\ UNCHANGED <<parent, chan, cur>> /\ pc[p] \in Waking /\ state[p] = "RUNNING"
        /\ \A r \in Procs \ {p} : pc'[r] = pc[r] /\ wcur'[r] = wcur[r]
    BY <1>7, RunsAlone DEF Wakeup
  <2>2. SameWaiters
    BY <1>7, <2>1 DEF Wakeup
  <2>3. \/ q < NPROC /\ pc'[p] = pc[p] /\ wcur'[p] = q + 1
        \/ q = NPROC /\ pc'[p] = WakeupReturn(p)
    BY <1>7 DEF Wakeup
  <2>4. pc'[p] \notin {"wait_sleep", "wait_scan"}
    BY <2>1, <2>3 DEF WakeupReturn, Waking
  <2>5. chan[q] = WakeupChan(p) => ~(state'[q] = "SLEEPING")
    BY <1>7, <2>1 DEF Wakeup, Wakes
  <2>6. /\ \A r \in Procs : Waits(r)' \/ pc'[r] = "wait_sleep" => HasKids(r)'
        /\ \A r, k \in Procs :
             parent'[k] = r /\ state'[k] = "ZOMBIE" =>
               pc'[r] # "wait_sleep" /\ (pc'[r] = "wait_scan" => cur'[r] <= k)
    BY <2>1, <2>2, <2>4 DEF WaitersTold
  <2>7. CASE pc[p] = "wake_lock"
    BY <1>1, <2>1, <2>2, <2>3, <2>7 DEF WakeupReturn
  <2>8. CASE pc[p] = "wake_init"
    <3>1. \A r \in Procs \ {p} : pc[r] \notin WaitSection
      BY <1>4, <2>8 DEF WaitSection
    <3>2. pc'[p] \notin {"wake_parent", "zombie"}
      BY <2>3, <2>8 DEF WakeupReturn
    <3>3. \A r \in Procs : pc'[r] \notin {"wake_parent", "zombie"}
      BY <2>1, <3>1, <3>2 DEF WaitSection
    <3>4. ASSUME NEW r \in Procs, NEW k \in Procs, Waits(r)', parent'[k] = r, state'[k] = "ZOMBIE"
          PROVE  FALSE
      <4>1. Waits(r) /\ parent[k] = r /\ state[k] = "ZOMBIE"
        BY <2>1, <2>2, <3>4
      <4>2. PICK x \in Procs : r = INIT /\ pc[x] = "wake_init" /\ wcur[x] <= r
        BY <4>1 DEF WaitersTold
      <4>3. x = p
        BY <3>1, <4>2 DEF WaitSection
      <4>4. q = INIT
        BY <1>3, <4>2, <4>3 DEF Procs
      <4>5. QED
        BY <2>5, <2>8, <3>4, <4>1, <4>2, <4>4 DEF WakeupChan
    <3>5. QED
      BY <2>6, <3>3, <3>4 DEF WaitersTold
  <2>9. CASE pc[p] = "wake_parent"
    <3>1. \A r \in Procs \ {p} : pc[r] \notin WaitSection
      BY <1>4, <2>9 DEF WaitSection
    <3>2. \A r, k \in Procs : Waits(r) /\ parent[k] = r => state[k] # "ZOMBIE"
      BY <2>9, <3>1 DEF WaitersTold, WaitSection
    <3>3. \A r \in Procs : Waits(r)' /\ parent[p] = r => q <= r
      BY <2>2, <2>9 DEF WaitersTold
    <3>4. \A r \in Procs : Waits(r)' /\ parent[p] = r => q # r
      BY <2>1, <2>5, <2>9 DEF WakeupChan
    <3>5. q \in Int /\ \A r \in Procs : r \in Int /\ r <= NPROC
      BY ProcAssumption DEF Procs
    <3>6. \A r \in Procs : Waits(r)' /\ parent[p] = r => q < NPROC /\ q + 1 <= r
      BY <3>3, <3>4, <3>5, ProcAssumption
    <3>7. \A r \in Procs : Waits(r)' /\ parent[p] = r => pc'[p] = "wake_parent" /\ wcur'[p] <= r
      BY <2>3, <2>9, <3>5, <3>6, ProcAssumption
    <3>8. \A k \in Procs \ {p} : pc'[k] \notin {"wake_parent", "zombie"}
      BY <2>1, <3>1 DEF WaitSection
    <3>9. \A r, k \in Procs : Waits(r)' /\ parent'[k] = r =>
             pc'[k] # "zombie" /\ (pc'[k] = "wake_parent" => wcur'[k] <= r)
      BY <2>1, <3>7, <3>8
    <3>10. \A r, k \in Procs : Waits(r)' /\ parent'[k] = r => state'[k] # "ZOMBIE"
      BY <2>1, <2>2, <3>2
    <3>11. QED
      BY <2>6, <3>9, <3>10 DEF WaitersTold
  <2>10. QED
    BY <2>1, <2>7, <2>8, <2>9 DEF Waking
<1>8. ASSUME NEW c \in CPUs, NEW p \in Procs, AllocProc(c, p) PROVE WaitersTold'
  <2>1. UNCHANGED <<parent, wcur, chan>> /\ pc[p] = "alloc"
    BY <1>8 DEF AllocProc
  <2>2. SameWaiters
    BY <1>8, <2>1 DEF AllocProc
  <2>3. \A r \in Procs : pc'[r] = pc[r] \/ pc[r] = "alloc" \/ state[r] = "UNUSED"
    BY <1>8 DEF AllocProc
  <2>4. \A r \in Procs : pc'[r] # pc[r] => pc'[r] \in {"user", "fork_parent"}
    BY <1>8 DEF AllocProc
  <2>5. \A r \in Procs : cur'[r] # cur[r] => pc[r] = "alloc"
    BY <1>8 DEF AllocProc
  <2>6. SameWalks
    BY <2>1, <2>3, <2>4, <2>5 DEF DeadOutside, Dead
  <2>7. QED
    BY <1>1, <2>1, <2>2, <2>6
<1>9. ASSUME NEW c \in CPUs, NEW p \in Procs, ForkCall(c, p) \/ ForkQueue(c, p)
      PROVE  WaitersTold'
  BY <1>1, <1>9 DEF ForkCall, Call, ForkQueue, entry, cursors
<1>10. ASSUME NEW c \in CPUs, NEW p \in Procs, ForkParent(c, p) PROVE WaitersTold'
  <2> PICK q \in Procs : q = cur[p]
    OBVIOUS
  <2>1. /\ UNCHANGED <<state, chan, cur, wcur>> /\ pc[p] = "fork_parent" /\ state[p] = "RUNNING"
        /\ parent' = [parent EXCEPT ![q] = p] /\ pc' = [pc EXCEPT ![p] = "fork_queue"]
    BY <1>10, RunsAlone DEF ForkParent, cursors
  <2>2. state[q] = "USED" /\ parent[q] = None
    BY <2>1 DEF DispatchInv, OwnChild, Forking, ParentsLive
  <2>3. \A r \in Procs : HasKids(r) => HasKids(r)'
    BY <2>1, <2>2, ProcAssumption
  <2>4. SameWalks /\ SameWaiters
    BY <2>1
  <2>5. \A r \in Procs : Waits(r)' \/ pc'[r] = "wait_sleep" => HasKids(r)'
    BY <2>3, <2>4 DEF WaitersTold
  <2>6. \A r, k \in Procs : parent'[k] = r => parent[k] = r \/ (r = p /\ k = q)
    BY <2>1
  <2>7. \A r, k \in Procs :
          Waits(r)' /\ parent'[k] = r =>
            /\ pc'[k] # "zombie"
            /\ pc'[k] = "wake_parent" => wcur'[k] <= r
            /\ state'[k] = "ZOMBIE" =>
                 r = INIT /\ \E x \in Procs : pc'[x] = "wake_init" /\ wcur'[x] <= r
    BY <2>1, <2>4, <2>6 DEF WaitersTold
  <2>8. \A r, k \in Procs :
          parent'[k] = r /\ state'[k] = "ZOMBIE" =>
            pc'[r] # "wait_sleep" /\ (pc'[r] = "wait_scan" => cur'[r] <= k)
    BY <2>1, <2>2, <2>6 DEF WaitersTold
  <2>9. QED
    BY <2>5, <2>7, <2>8 DEF WaitersTold
<1>11. ASSUME NEW c \in CPUs, NEW p \in Procs, Exit(c, p) PROVE WaitersTold'
  BY <1>1, <1>11 DEF Exit, entry, cursors
<1>12. ASSUME NEW c \in CPUs, NEW p \in Procs, Reparent(c, p) PROVE WaitersTold'
  <2> PICK q \in Procs : q = cur[p]
    OBVIOUS
  <2>1. /\ UNCHANGED <<state, chan, wcur>> /\ pc[p] = "reparent" /\ state[p] = "RUNNING"
        /\ p # INIT /\ wcur[p] = 1
    BY <1>3, <1>12, RunsAlone DEF Reparent, Exiting, CursorsReset, Waking
  <2>2. \A r \in Procs \ {p} : pc[r] \notin WaitSection
    BY <1>4, <2>1 DEF WaitSection
  <2>3. \A r, k \in Procs : Waits(r) /\ parent[k] = r => state[k] # "ZOMBIE"
    BY <2>1, <2>2 DEF WaitersTold, WaitSection
  <2>4. CASE /\ parent[q] = p
             /\ parent' = [parent EXCEPT ![q] = INIT]
             /\ pc' = [pc EXCEPT ![p] = "wake_init"]
             /\ UNCHANGED cur
    <3>1. \A r \in Procs : pc'[r] \notin {"zombie", "wake_parent", "wait_scan", "wait_sleep"}
      BY <2>2, <2>4 DEF WaitSection
    <3>2. \A r \in Procs \ {p} : HasKids(r) => HasKids(r)'
      BY <2>4
    <3>3. \A r \in Procs : Waits(r)' => Waits(r) /\ r # p
      BY <2>1
    <3>4. \A r \in Procs : Waits(r)' => HasKids(r)'
      BY <3>2, <3>3 DEF WaitersTold
    <3>5. \A r, k \in Procs : Waits(r)' /\ parent'[k] = r /\ state'[k] = "ZOMBIE" => r = INIT
      BY <2>1, <2>3, <2>4, <3>3
    <3>6. pc'[p] = "wake_init" /\ wcur'[p] <= INIT
      BY <1>3, <2>1, <2>4
    <3>7. QED
      BY <3>1, <3>4, <3>5, <3>6 DEF WaitersTold
  <2>5. CASE /\ UNCHANGED parent
             /\ \A r \in Procs \ {p} : pc'[r] = pc[r] /\ cur'[r] = cur[r]
             /\ pc'[p] \in {"reparent", "wake_parent"}
    <3>1. \A r \in Procs : pc'[r] \notin {"zombie", "wait_scan", "wait_sleep"}
      BY <2>2, <2>5 DEF WaitSection
    <3>2. \A r \in Procs : pc'[r] = "wake_parent" => wcur'[r] = 1
      BY <2>1, <2>2, <2>5 DEF WaitSection
    <3>3. \A r \in Procs : Waits(r)' => HasKids(r)'
      BY <2>1, <2>5 DEF WaitersTold
    <3>4. \A r, k \in Procs : Waits(r)' /\ parent'[k] = r => state'[k] # "ZOMBIE"
      BY <2>1, <2>3, <2>5
    <3>5. QED
      BY <1>3, <3>1, <3>2, <3>3, <3>4 DEF WaitersTold
  <2>6. QED
    BY <1>12, <2>4, <2>5 DEF Reparent, Abandoned
<1>13. ASSUME NEW c \in CPUs, NEW p \in Procs, BecomeZombie(c, p) PROVE WaitersTold'
  <2>1. /\ UNCHANGED <<parent, chan, cur, wcur>> /\ pc[p] = "zombie"
        /\ state' = [state EXCEPT ![p] = "ZOMBIE"]
        /\ pc' = [pc EXCEPT ![p] = "exited"]
    BY <1>13 DEF BecomeZombie, cursors
  <2>2. \A r \in Procs : pc'[r] \notin WaitSection
    BY <1>4, <2>1 DEF WaitSection
  <2>3. \A r \in Procs : Waits(r)' => Waits(r)
    BY <2>1
  <2>4. \A r, k \in Procs : Waits(r)' /\ parent'[k] = r => state'[k] # "ZOMBIE"
    <3>1. \A r \in Procs : pc[r] # "wake_init"
      BY <1>4, <2>1 DEF WaitSection
    <3>2. QED
      BY <2>1, <2>3, <3>1 DEF WaitersTold
  <2>5. \A r \in Procs : Waits(r)' => HasKids(r)'
    BY <2>1, <2>3 DEF WaitersTold
  <2>6. QED
    BY <2>2, <2>4, <2>5 DEF WaitersTold, WaitSection
<1>14. ASSUME NEW c \in CPUs, NEW p \in Procs, WaitBegin(c, p) PROVE WaitersTold'
  <2>1. /\ UNCHANGED <<state, parent, chan, cur, wcur>> /\ pc[p] \in {"user", "wait_relock"}
        /\ pc' = [pc EXCEPT ![p] = "wait_scan"]
    BY <1>14 DEF WaitBegin, Call, entry, cursors
  <2>2. cur[p] = 1
    BY <2>1 DEF CursorsReset, Walking
  <2>3. /\ pc'[p] = "wait_scan" /\ \A r \in Procs \ {p} : pc'[r] = pc[r]
        /\ \A r \in Procs : pc[r] = "wake_init" => r # p
    BY <2>1
  <2>4. QED
    BY <1>3, <2>1, <2>2, <2>3 DEF WaitersTold
<1>15. ASSUME NEW c \in CPUs, NEW p \in Procs, WaitNext(c, p) PROVE WaitersTold'
  <2> PICK q \in Procs : q = cur[p]
    OBVIOUS
  <2>1. /\ UNCHANGED <<state, parent, chan, wcur>> /\ pc[p] = "wait_scan"
        /\ \A r \in Procs \ {p} : pc'[r] = pc[r] /\ cur'[r] = cur[r]
    BY <1>15 DEF WaitNext, entry
  <2>2. \/ pc'[p] = "wait_scan" /\ q < NPROC /\ cur'[p] = q + 1
        \/ pc'[p] = "user"
        \/ pc'[p] = "wait_sleep" /\ q = NPROC /\ HasKids(p)
    BY <1>15 DEF WaitNext
  <2>3. \A k \in Procs : parent[k] = p /\ state[k] = "ZOMBIE" => q <= k /\ q # k
    BY <1>15, <2>1 DEF WaitersTold, WaitNext
  <2>4. q \in Int /\ \A k \in Procs : k \in Int /\ k <= NPROC
    BY ProcAssumption DEF Procs
  <2>5. \A k \in Procs : parent[k] = p /\ state[k] = "ZOMBIE" => q < NPROC /\ q + 1 <= k
    BY <2>3, <2>4, ProcAssumption
  <2>6. \A k \in Procs : parent[k] = p /\ state[k] = "ZOMBIE" =>
          pc'[p] # "wait_sleep" /\ (pc'[p] = "wait_scan" => cur'[p] <= k)
    BY <2>2, <2>4, <2>5, ProcAssumption
  <2>7. \A r, k \in Procs : parent'[k] = r /\ state'[k] = "ZOMBIE" =>
          pc'[r] # "wait_sleep" /\ (pc'[r] = "wait_scan" => cur'[r] <= k)
    BY <2>1, <2>6 DEF WaitersTold
  <2>8. \A r \in Procs : Waits(r)' \/ pc'[r] = "wait_sleep" => HasKids(r)'
    BY <2>1, <2>2 DEF WaitersTold
  <2>9. \A x \in Procs : /\ pc[x] = "wake_init" => pc'[x] = "wake_init"
                        /\ pc'[x] \in {"zombie", "wake_parent"} => pc'[x] = pc[x]
    BY <2>1, <2>2
  <2>10. NotPassed'
    BY <2>1, <2>9 DEF WaitersTold
  <2>11. \A r \in Procs : Woken(r) => Woken(r)'
    BY <2>1, <2>9
  <2>12. Told
    BY DEF WaitersTold
  <2>13. Told'
    <3> HIDE DEF Woken
    <3> QED
      BY <2>1, <2>11, <2>12
  <2>14. QED
    BY <2>7, <2>8, <2>10, <2>13 DEF WaitersTold
<1>16. ASSUME NEW c \in CPUs, NEW p \in Procs, WaitReturn(c, p) PROVE WaitersTold'
  <2> PICK q \in Procs : q = cur[p]
    OBVIOUS
  <2>1. /\ pc[p] = "wait_scan" /\ parent[q] = p /\ state[p] = "RUNNING" /\ UNCHANGED wcur
        /\ cur' = [cur EXCEPT ![p] = 1] /\ pc' = [pc EXCEPT ![p] = "user"]
    BY <1>16, RunsAlone DEF WaitReturn
  <2>2. SameWalks
    BY <2>1
  <2>3. CASE UNCHANGED <<state, parent, chan>>
    BY <1>1, <2>2, <2>3
  <2>4. CASE /\ state' = [state EXCEPT ![q] = "UNUSED"]
             /\ parent' = [parent EXCEPT ![q] = None]
             /\ chan' = [chan EXCEPT ![q] = None]
    <3>1. SameWaiters
      BY <2>4
    <3>2. \A r, k \in Procs : parent'[k] = r => parent[k] = r
      BY <2>4, ProcAssumption
    <3>3. \A r \in Procs \ {p} : HasKids(r) => HasKids(r)'
      BY <2>1, <2>4
    <3>4. \A r \in Procs : Waits(r)' \/ pc'[r] = "wait_sleep" => r # p
      BY <2>1, <2>4
    <3>5. \A r \in Procs : Waits(r)' \/ pc'[r] = "wait_sleep" => HasKids(r)'
      BY <2>2, <3>1, <3>3, <3>4 DEF WaitersTold
    <3>6. NotPassed'
      BY <2>2, <3>1, <3>2 DEF WaitersTold
    <3>7. \A r \in Procs : Woken(r) => Woken(r)'
      BY <2>2
    <3>8. Told
      BY DEF WaitersTold
    <3>9. Told'
      <4> HIDE DEF Woken
      <4> QED
        BY <3>1, <3>2, <3>7, <3>8
    <3>10. Found'
      BY <2>2, <3>1, <3>2 DEF WaitersTold
    <3>11. QED
      BY <3>5, <3>6, <3>9, <3>10 DEF WaitersTold
  <2>5. QED
    BY <1>16, <2>3, <2>4 DEF WaitReturn
<1>17. ASSUME NEW c \in CPUs, NEW p \in Procs,
              LockBegin(c, p) \/ LockTest(c, p) \/ Unlock(c, p) \/ UnlockEnd(c, p)
       PROVE  WaitersTold'
  BY <1>1, <1>17 DEF LockBegin, Call, LockTest, Unlock, UnlockEnd, entry, cursors
<1>18. ASSUME NEW c \in CPUs, NEW p \in Procs,
              Yield(c, p) \/ \E t \in Victims : Kill(c, p, t)
       PROVE  WaitersTold'
  BY <1>1, <1>18 DEF Yield, Kill, KillWakes, local, cursors
<1>19. CASE UNCHANGED vars
  BY <1>1, <1>19 DEF vars, entry, local, cursors
<1>20. QED
  BY <1>5, <1>6, <1>7, <1>8, <1>9, <1>10, <1>11, <1>12, <1>13, <1>14, <1>15, <1>16, <1>17, <1>18, <1>19
     DEF Next, KernelStep, EntryStep, Preempt

-----------------------------------------------------------------------------
(* The inductive invariant, and what follows *)

LEMMA InitLocks == Init => LockInv
<1> SUFFICES ASSUME Init PROVE LockInv
  OBVIOUS
<1>1. /\ \A p \in Procs : /\ pc[p] = "user" /\ cur[p] = 1 /\ wcur[p] = 1
                          /\ parent[p] = None /\ state[p] \in {"RUNNABLE", "UNUSED"}
      /\ INIT \in Procs /\ state[INIT] = "RUNNABLE"
      /\ wait_lock = None /\ spin = None /\ owner = None
      /\ \A p \in Procs : p # None
      /\ \A c \in CPUs : c # None
  BY ProcAssumption DEF Init, INIT, Procs
<1>2. HeldIn(wait_lock, WaitSection) /\ HeldIn(spin, SpinSection)
  BY <1>1 DEF HeldIn, WaitSection, SpinSection
<1>3. CursorsReset /\ DeadOutside /\ OwnerInside
  BY <1>1 DEF CursorsReset, DeadOutside, OwnerInside
<1>4. SleepersHaveWaker
  BY <1>1 DEF SleepersHaveWaker, SleepsOnLock
<1>5. ParentsLive /\ WaitersTold
  BY <1>1 DEF ParentsLive, WaitersTold, Waits, Dead, Exiting
<1>6. QED
  BY <1>2, <1>3, <1>4, <1>5 DEF LockInv

LEMMA NextLocks == TypeOK /\ ProcInv /\ [Next]_vars => ProcInv'
<1> SUFFICES ASSUME TypeOK, DispatchInv, LockInv, [Next]_vars PROVE ProcInv'
  BY DEF ProcInv
<1>1. DispatchInv'
  BY NextDispatch
<1>2. HeldIn(wait_lock, WaitSection)' /\ HeldIn(spin, SpinSection)'
  BY LocksStayHeld
<1>3. CursorsReset' /\ DeadOutside'
  BY CursorsStayReset
<1>4. OwnerInside' /\ SleepersHaveWaker'
  BY OwnerStaysInside, SleepersKeepWaker
<1>5. ParentsLive' /\ WaitersTold'
  BY ParentsStayLive, WaitersStayTold
<1>6. QED
  BY <1>1, <1>2, <1>3, <1>4, <1>5 DEF ProcInv, LockInv

\* The whole invariant of the process table: dispatching and the queues, and
\* what wait_lock and the sleep lock protect.
THEOREM ProcCorrect == Spec => []ProcInv
<1>1. Init => ProcInv
  BY InitDispatch, InitLocks DEF ProcInv
<1>2. TypeOK /\ ProcInv /\ [Next]_vars => ProcInv'
  BY NextLocks
<1>3. QED
  BY <1>1, <1>2, TypeCorrect, PTL DEF Spec

\* acquiresleep() and releasesleep() let one process at a time inside, for
\* any number of processes that sleep, are woken and find another one first.
THEOREM OneInside == Spec => []MutualExclusion
<1>1. ProcInv => MutualExclusion
  BY DEF ProcInv, LockInv, OwnerInside, MutualExclusion
<1>2. QED
  BY <1>1, ProcCorrect, PTL

\* releasesleep() leaves nobody asleep: sleep() gives up lk->lk only when it
\* has p->lock, so wakeup() comes before the test of lk->locked or finds the
\* sleeper.
THEOREM WakeupReachesAll == Spec => []NoLostWakeup
<1>1. TypeOK /\ ProcInv => NoLostWakeup
  <2> SUFFICES ASSUME TypeOK, ProcInv, spin = None, owner = None,
                      NEW p \in Procs, SleepsOnLock(p)
               PROVE  FALSE
    BY DEF NoLostWakeup, SleepsOnLock
  <2>1. PICK q \in Procs : pc[q] = "wake_lock"
    BY DEF ProcInv, LockInv, SleepersHaveWaker
  <2>2. QED
    BY <2>1, AloneInSection DEF ProcInv, LockInv, SpinSection
<1>2. QED
  BY <1>1, TypeCorrect, ProcCorrect, PTL

\* exit() and wait() never miss each other: who sleeps in wait() while
\* wait_lock is free has children, and no zombie among them.
THEOREM ExitIsSeen == Spec => []NoLostExit
<1>1. TypeOK /\ ProcInv => NoLostExit
  <2> SUFFICES ASSUME TypeOK, ProcInv, wait_lock = None, NEW p \in Procs, Waits(p)
               PROVE  /\ HasKids(p)
                      /\ \A q \in Procs : parent[q] = p => state[q] # "ZOMBIE"
    BY DEF NoLostExit, Waits
  <2>1. \A x \in Procs : pc[x] # "wake_init"
    BY AloneInSection DEF ProcInv, LockInv, WaitSection
  <2>2. QED
    BY <2>1 DEF ProcInv, LockInv, WaitersTold
<1>2. QED
  BY <1>1, TypeCorrect, ProcCorrect, PTL

\* reparent() leaves no child to a parent that is gone.
THEOREM ParentsAlive == Spec => []NoDeadParent
<1>1. TypeOK /\ ProcInv => NoDeadParent
  BY DEF TypeOK, ProcInv, LockInv, ParentsLive, Dead, NoDeadParent
<1>2. QED
  BY <1>1, TypeCorrect, ProcCorrect, PTL

\* sched() finds what it asserts, whichever of its callers comes to it.
THEOREM SchedAssertions == Spec => []SchedHoldsOnlyPlock
<1>1. TypeOK /\ ProcInv => SchedHoldsOnlyPlock
  <2> SUFFICES ASSUME TypeOK, DispatchInv, LockInv, NEW c \in CPUs, NEW p \in Procs,
                      ctx[c] = p, plock[p] = c
               PROVE  /\ queue_lock # c /\ wait_lock # c /\ spin # c
                      /\ \A q \in Procs \ {p} : plock[q] # c
    BY DEF ProcInv, SchedHoldsOnlyPlock
  <2>1. c # None /\ p # None
    BY ProcAssumption
  <2>2. queue_lock # c /\ \A q \in Procs \ {p} : plock[q] # c
    BY <2>1 DEF DispatchInv, ScansLocked, LockedOnItsCpu
  <2>3. wait_lock # c /\ spin # c
    BY <2>1 DEF LockInv, HeldIn, Runs
  <2>4. QED
    BY <2>2, <2>3
<1>2. QED
  BY <1>1, TypeCorrect, ProcCorrect, PTL
=============================================================================
