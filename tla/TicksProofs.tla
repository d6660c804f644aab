----------------------------- MODULE TicksProofs -----------------------------
(* Why interrupts are off exactly where they must be and why sleep(n) ends *)
(* at its tick, for every number of CPUs and processes.                    *)
EXTENDS Ticks, FiniteSetTheorems, WellFoundedInduction, TLAPS

-----------------------------------------------------------------------------
(* The stacks *)

\* The steps of a system call where it holds no lock, where a process is
\* that has the CPU not yet or no longer, and those on the two kinds of
\* stacks.
InSystemCall == {"sleep", "resleep", "uptime", "kill"}
Away == {"slept", "yielded", "forkret"}
Traps == {"clock", "wake", "ack", "sret"}
OfProcess == {"user", "done", "exit", "park", "yield"} \cup InSystemCall \cup Away \cup Traps
OfScheduler == {"loop", "scan", "pick", "running"} \cup Traps
Interrupted == {"user", "done", "exit"} \cup InSystemCall

\* A CPU is on the stack of its scheduler, or on that of the process which
\* the scheduler has chosen.
At(c) == pc[on[c]]
OnStack(c) ==
  /\ \/ on[c] = Scheduler(c) /\ At(c) \in OfScheduler
     \/ /\ on[c] \in Users /\ At(c) \in OfProcess
        /\ chosen[c] = on[c] /\ state[on[c]] = "RUNNING" /\ pc[Scheduler(c)] = "running"
  /\ pc[Scheduler(c)] \in {"pick", "running"} => chosen[c] \in Users
  /\ pc[Scheduler(c)] = "pick" => state[chosen[c]] = "RUNNABLE" /\ chosen[c] \notin queued
  /\ pc[Scheduler(c)] \in Handler => back[Scheduler(c)] \in {"loop", "scan"}
  /\ At(c) = "wake" => next[c] \in Users

\* No process is on two CPUs, nor is it chosen by two.
Apart ==
  \A c, d \in Cpus :
    /\ on[c] = on[d] => c = d
    /\ pc[Scheduler(c)] = "pick" /\ pc[Scheduler(d)] = "pick" /\ chosen[c] = chosen[d] => c = d

\* Where a process is while it waits, and the call that it is in.
CallStep(p) == IF pc[p] \in Handler THEN back[p] ELSE pc[p]
Process(p) ==
  /\ p \in queued => state[p] = "RUNNABLE"
  /\ state[p] = "RUNNABLE" => pc[p] \in Away
  /\ state[p] = "SLEEPING" => pc[p] = "slept"
  /\ back[p] \in Interrupted
  /\ pc[p] = "slept" => saved[p]
  /\ pc[p] = "yielded" => ~saved[p]
  /\ CallStep(p) \in InSystemCall \cup {"park", "slept", "done"} => script[p] # << >>
  /\ CallStep(p) = "kill" => Head(script[p]).op = "kill"

-----------------------------------------------------------------------------
(* The locks and the interrupt bit *)

\* The lock that a CPU holds; it never has two but in the middle of a step.
Held(c) ==
  CASE At(c) = "pick" -> {QueueLock}
    [] At(c) \in {"park", "wake"} -> {TicksLock}
    [] At(c) = "running" -> {Plock(chosen[c])}
    [] At(c) \in Away -> {Plock(on[c])}
    [] OTHER -> {}
HeldExactly == \A l \in Locks, c \in Cpus : holder[l] = c <=> l \in Held(c)

Keeping == {"pick", "park", "wake", "running"} \cup Away
Count(c) == (IF At(c) \in Keeping THEN 1 ELSE 0) + (IF cpu[c].spins THEN 1 ELSE 0)
Bits(c) ==
  /\ cpu[c].noff = Count(c)
  /\ cpu[c].spins => At(c) \in Acquiring
  /\ cpu[c].sie => cpu[c].noff = 0 /\ At(c) \notin Handler
  /\ At(c) \in InSystemCall \cup {"user", "done"} /\ ~cpu[c].spins => cpu[c].sie
  /\ (At(c) \in InSystemCall /\ cpu[c].spins) \/ At(c) = "park" => cpu[c].intena
  /\ At(c) \in Handler \ {"yielded"} /\ cpu[c].noff > 0 => ~cpu[c].intena

\* Only CPU 0 counts its interrupts.
Beating == \A c \in Cpus : At(c) = "clock" => c = 0 /\ beats < MaxTicks

-----------------------------------------------------------------------------
(* The clock *)

\* The counter of the ticks, and what sleep() has read of it.
Turned(k) == IF FirstTick + k < WORD THEN FirstTick + k ELSE FirstTick + k - WORD
Wanted(p) == Head(script[p]).arg % WORD
Asleep(p) ==
  /\ since[p] <= beats
  /\ CallStep(p) \in {"sleep", "resleep", "park", "slept"} => Head(script[p]).op = "sleep"
  /\ CallStep(p) = "uptime" => Head(script[p]).op # "sleep"
  /\ CallStep(p) \in {"resleep", "park", "slept"} => ticks0[p] = Turned(since[p])
  /\ CallStep(p) = "park" => beats - since[p] < Wanted(p) /\ \E c \in Cpus : on[c] = p
  /\ CallStep(p) = "done" /\ Head(script[p]).op = "sleep" => killed[p] \/ beats - since[p] >= Wanted(p)
  /\ state[p] = "SLEEPING" =>
       beats - since[p] < Wanted(p) \/ \E c \in Cpus : At(c) = "wake" /\ next[c] <= p
Clock ==
  /\ ticks = Turned(beats)
  /\ \A p \in Users : Asleep(p)

TicksInv ==
  /\ TypeOK /\ Apart /\ HeldExactly /\ Beating
  /\ \A c \in Cpus : OnStack(c) /\ Bits(c)
  /\ \A p \in Users : Process(p)
SleepInv == TicksInv /\ Clock

-----------------------------------------------------------------------------
(* The parts of the system *)

LEMMA Threaded ==
  ASSUME TicksAssumption
  PROVE  /\ NCPU \in Nat /\ NPROC \in Nat /\ NPROC >= 2 /\ None \notin Cpus
         /\ \A p \in Users : p \in Nat /\ p > 0 /\ p \in Threads
         /\ \A c \in Cpus : Scheduler(c) \in Threads /\ Scheduler(c) \notin Users
         /\ \A c, d \in Cpus : Scheduler(c) = Scheduler(d) => c = d
         /\ \A t \in Threads : t \in Users \/ \E c \in Cpus : t = Scheduler(c)
BY DEF TicksAssumption, Cpus, Users, Threads, Scheduler, None

LEMMA Distinct ==
  /\ TicksLock \in Locks /\ QueueLock \in Locks /\ TicksLock # QueueLock
  /\ \A p \in Users : Plock(p) \in Locks
  /\ \A p : Plock(p) # TicksLock /\ Plock(p) # QueueLock
  /\ \A p, q : Plock(p) = Plock(q) => p = q
BY DEF Locks, TicksLock, QueueLock, Plock

LEMMA HeldOnce ==
  ASSUME NEW c \in Cpus
  PROVE  /\ At(c) = "pick" => Held(c) = {QueueLock}
         /\ At(c) \in {"park", "wake"} => Held(c) = {TicksLock}
         /\ At(c) = "running" => Held(c) = {Plock(chosen[c])}
         /\ At(c) \in Away => Held(c) = {Plock(on[c])}
         /\ At(c) \notin Keeping => Held(c) = {}
BY DEF Held, Keeping, Away

\* What a step of one CPU leaves to the others.
Alone(c) ==
  /\ \A d \in Cpus : d # c =>
       cpu'[d] = cpu[d] /\ on'[d] = on[d] /\ chosen'[d] = chosen[d] /\ next'[d] = next[d]
  /\ \A t \in Threads : t # on[c] => pc'[t] = pc[t] /\ back'[t] = back[t]
  /\ \A p \in Users : p # on[c] => script'[p] = script[p] /\ saved'[p] = saved[p]
Gentle(c) ==
  \A p \in Users :
    /\ p \in queued' => state'[p] = "RUNNABLE"
    /\ state[p] = "RUNNING" /\ p # on[c] => state'[p] = "RUNNING"
    /\ state[p] = "RUNNABLE" /\ p \notin queued /\ ~(At(c) = "pick" /\ chosen[c] = p) =>
         state'[p] = "RUNNABLE" /\ p \notin queued'
    /\ p # on[c] =>
         state'[p] \in {state[p], "RUNNING"} \/ (state[p] = "SLEEPING" /\ state'[p] = "RUNNABLE")

\* It disturbs none of them.
LEMMA OthersKept ==
  ASSUME TicksAssumption, TicksInv, NEW c \in Cpus, Alone(c), Gentle(c), NEW d \in Cpus, d # c
  PROVE  /\ OnStack(d)' /\ Bits(d)' /\ Held(d)' = Held(d)
         /\ At(d)' = At(d) /\ pc'[Scheduler(d)] = pc[Scheduler(d)]
         /\ on'[d] = on[d] /\ chosen'[d] = chosen[d]
<1>1. on[d] \in Threads /\ on[d] # on[c] /\ Scheduler(d) \in Threads
  BY Threaded DEF TicksInv, TypeOK, Apart
<1>2. on'[d] = on[d] /\ chosen'[d] = chosen[d] /\ next'[d] = next[d] /\ cpu'[d] = cpu[d]
  BY DEF Alone
<1>3. pc'[on[d]] = pc[on[d]] /\ back'[on[d]] = back[on[d]] /\ At(d)' = At(d)
  BY <1>1, <1>2 DEF Alone, At
<1>4. OnStack(d) /\ OnStack(c) /\ Bits(d)
  BY DEF TicksInv
<1>5. Scheduler(d) # on[c]
  BY <1>4, Threaded DEF OnStack
<1>6. pc'[Scheduler(d)] = pc[Scheduler(d)] /\ back'[Scheduler(d)] = back[Scheduler(d)]
  BY <1>1, <1>5 DEF Alone
<1>7. on[d] \in Users => (state[on[d]] = "RUNNING" => state'[on[d]] = "RUNNING")
  BY <1>1 DEF Gentle
<1>8. pc[Scheduler(d)] = "pick" => state'[chosen[d]] = "RUNNABLE" /\ chosen[d] \notin queued'
  <2>1. SUFFICES ASSUME pc[Scheduler(d)] = "pick"
                 PROVE  state'[chosen[d]] = "RUNNABLE" /\ chosen[d] \notin queued'
    OBVIOUS
  <2>2. chosen[d] \in Users /\ state[chosen[d]] = "RUNNABLE" /\ chosen[d] \notin queued
    BY <1>4, <2>1 DEF OnStack
  <2>3. At(c) = "pick" => pc[Scheduler(c)] = "pick"
    BY <1>4 DEF OnStack, OfProcess, InSystemCall, Away, Traps, At
  <2>4. ~(At(c) = "pick" /\ chosen[c] = chosen[d])
    BY <2>1, <2>3 DEF TicksInv, Apart
  <2>5. QED
    BY <2>2, <2>4 DEF Gentle
<1>9. OnStack(d)'
  BY <1>2, <1>3, <1>4, <1>6, <1>7, <1>8 DEF OnStack
<1>10. Bits(d)' /\ Held(d)' = Held(d)
  BY <1>2, <1>3, <1>4 DEF Bits, Count, Held
<1>11. QED
  BY <1>2, <1>3, <1>6, <1>9, <1>10

\* So the invariant holds again if it holds of that CPU and its process.
LEMMA Combined ==
  ASSUME TicksAssumption, TicksInv, NEW c \in Cpus, Alone(c), Gentle(c), TypeOK',
         OnStack(c)', Bits(c)',
         \A l \in Locks : holder'[l] = c <=> l \in Held(c)',
         \A l \in Locks, d \in Cpus : d # c => (holder'[l] = d <=> holder[l] = d),
         \A p \in Users : p = on[c] => Process(p)',
         on'[c] \in {on[c], Scheduler(c)} \/ (At(c) = "pick" /\ on'[c] = chosen[c]),
         pc'[Scheduler(c)] = "pick" =>
           (pc[Scheduler(c)] = "pick" /\ chosen'[c] = chosen[c]) \/ chosen'[c] \in queued,
         \/ beats' = beats /\ (At(c)' = "clock" => c = 0 /\ beats < MaxTicks)
         \/ At(c) = "clock" /\ At(c)' # "clock"
  PROVE  TicksInv'
<1>1. /\ \A d \in Cpus : OnStack(d) /\ Bits(d)
      /\ \A p \in Users : Process(p)
      /\ TypeOK /\ Apart /\ HeldExactly /\ Beating
  BY DEF TicksInv
<1>2. \A d \in Cpus : OnStack(d)' /\ Bits(d)'
  BY OthersKept
<1>3. HeldExactly'
  <2>1. ASSUME NEW d \in Cpus, d # c, NEW l \in Locks
        PROVE  holder'[l] = d <=> l \in Held(d)'
    <3>1. holder'[l] = d <=> l \in Held(d)
      BY <1>1, <2>1 DEF HeldExactly
    <3>2. QED
      BY <2>1, <3>1, OthersKept
  <2>2. QED
    BY <2>1 DEF HeldExactly
<1>4. ASSUME NEW p \in Users
      PROVE  Process(p)'
  <2>1. CASE p = on[c]
    BY <2>1
  <2>2. CASE p # on[c]
    <3>1. /\ pc'[p] = pc[p] /\ back'[p] = back[p] /\ script'[p] = script[p] /\ saved'[p] = saved[p]
          /\ CallStep(p)' = CallStep(p)
      BY <2>2, Threaded DEF Alone, CallStep
    <3>2. Process(p)
      BY <1>1
    <3>3. p \in queued' => state'[p] = "RUNNABLE"
      BY DEF Gentle
    <3>4. state'[p] = "RUNNABLE" => pc[p] \in Away
      BY <2>2, <3>2 DEF Gentle, Process, Away
    <3>5. state'[p] = "SLEEPING" => pc[p] = "slept"
      BY <2>2, <3>2 DEF Gentle, Process
    <3>6. QED
      BY <3>1, <3>2, <3>3, <3>4, <3>5 DEF Process
  <2>3. QED
    BY <2>1, <2>2
<1>5. ASSUME NEW d \in Cpus, d # c
      PROVE  /\ on'[d] # on'[c]
             /\ pc'[Scheduler(c)] = "pick" /\ pc'[Scheduler(d)] = "pick" => chosen'[c] # chosen'[d]
  <2>1. /\ on'[d] = on[d] /\ chosen'[d] = chosen[d] /\ pc'[Scheduler(d)] = pc[Scheduler(d)]
        /\ on[d] # on[c]
    BY <1>1, <1>5, OthersKept DEF Apart
  <2>2. on[d] # Scheduler(c)
    BY <1>1, <1>5, Threaded DEF OnStack
  <2>3. At(c) = "pick" => on[d] # chosen[c]
    <3>1. At(c) = "pick" => pc[Scheduler(c)] = "pick"
      BY <1>1 DEF OnStack, OfProcess, InSystemCall, Away, Traps, At
    <3>2. At(c) = "pick" => chosen[c] \in Users /\ state[chosen[c]] = "RUNNABLE"
      BY <1>1, <3>1 DEF OnStack
    <3>3. on[d] \in Users => state[on[d]] = "RUNNING"
      BY <1>1, <1>5, Threaded DEF OnStack
    <3>4. QED
      BY <3>2, <3>3
  <2>4. on'[d] # on'[c]
    BY <2>1, <2>2, <2>3
  <2>5. ASSUME pc'[Scheduler(c)] = "pick", pc[Scheduler(d)] = "pick"
        PROVE  chosen'[c] # chosen[d]
    <3>1. chosen[d] \notin queued
      BY <1>1, <1>5, <2>5 DEF OnStack
    <3>2. pc[Scheduler(c)] = "pick" => chosen[c] # chosen[d]
      BY <1>1, <1>5, <2>5 DEF Apart
    <3>3. QED
      BY <2>5, <3>1, <3>2
  <2>6. QED
    BY <2>1, <2>4, <2>5
<1>6. ASSUME NEW d \in Cpus, d # c, NEW e \in Cpus, e # c
      PROVE  /\ on'[d] = on'[e] => d = e
             /\ pc'[Scheduler(d)] = "pick" /\ pc'[Scheduler(e)] = "pick" /\ chosen'[d] = chosen'[e] => d = e
  <2>1. \A k \in Cpus : k # c => /\ on'[k] = on[k] /\ chosen'[k] = chosen[k]
                               /\ pc'[Scheduler(k)] = pc[Scheduler(k)]
    BY OthersKept
  <2>2. QED
    BY <1>1, <1>6, <2>1 DEF Apart
<1>7. Apart'
  BY <1>5, <1>6 DEF Apart
<1>8. Beating'
  <2>1. ASSUME NEW d \in Cpus, d # c PROVE At(d)' = At(d)
    BY <2>1, OthersKept
  <2>2. QED
    BY <1>1, <2>1 DEF Beating
<1>9. QED
  BY <1>2, <1>3, <1>4, <1>7, <1>8 DEF TicksInv

-----------------------------------------------------------------------------
(* acquire() and release() *)

\* The lock that a CPU wants exists, and it is not the one that it holds.
LEMMA Wanting ==
  ASSUME TicksAssumption, TicksInv, NEW c \in Cpus, At(c) \in Acquiring
  PROVE  LockAt(c) \in Locks /\ LockAt(c) \notin Held(c)
<1>1. OnStack(c) /\ on[c] \in Threads
  BY DEF TicksInv, TypeOK
<1>2. on[c] \in Users => Process(on[c])
  BY DEF TicksInv
<1>3. CASE At(c) \in {"sleep", "resleep", "uptime", "clock"}
  <2>1. LockAt(c) = TicksLock /\ Held(c) = {}
    BY <1>3 DEF LockAt, At, Held, Away
  <2>2. QED
    BY <2>1, Distinct
<1>4. CASE At(c) \in {"park", "exit", "yield"}
  <2>1. LockAt(c) = Plock(on[c]) /\ Held(c) \subseteq {TicksLock} /\ on[c] \in Users
    BY <1>1, <1>4 DEF LockAt, At, Held, Away, OnStack, OfScheduler, Traps
  <2>2. QED
    BY <2>1, Distinct
<1>5. CASE At(c) = "kill"
  <2>1. LockAt(c) = Plock(Head(script[on[c]]).arg) /\ Held(c) = {} /\ on[c] \in Users
    BY <1>1, <1>5 DEF LockAt, At, Held, Away, OnStack, OfScheduler, Traps
  <2>2. CallStep(on[c]) = "kill"
    BY <1>5 DEF CallStep, At, Handler
  <2>3. script[on[c]] \in Seq(SysCalls) /\ script[on[c]] # << >> /\ Head(script[on[c]]).op = "kill"
    BY <1>2, <2>1, <2>2 DEF Process, InSystemCall, TicksInv, TypeOK
  <2>4. Head(script[on[c]]) \in SysCalls
    BY <2>3
  <2>5. Head(script[on[c]]).arg \in Users
    BY <2>3, <2>4 DEF SysCalls
  <2>6. QED
    BY <2>1, <2>5, Distinct
<1>6. CASE At(c) = "wake"
  <2>1. LockAt(c) = Plock(next[c]) /\ Held(c) = {TicksLock} /\ next[c] \in Users
    BY <1>1, <1>6 DEF LockAt, At, Held, Away, OnStack
  <2>2. QED
    BY <2>1, Distinct
<1>7. CASE At(c) = "pick"
  <2>1. LockAt(c) = Plock(chosen[c]) /\ Held(c) = {QueueLock} /\ chosen[c] \in Users
    BY <1>1, <1>7 DEF LockAt, At, Held, Away, OnStack, OfProcess, InSystemCall, Traps
  <2>2. QED
    BY <2>1, Distinct
<1>8. CASE At(c) = "scan"
  <2>1. LockAt(c) = QueueLock /\ Held(c) = {}
    BY <1>8 DEF LockAt, At, Held, Away
  <2>2. QED
    BY <2>1, Distinct
<1>9. QED
  BY <1>3, <1>4, <1>5, <1>6, <1>7, <1>8 DEF Acquiring

LEMMA TakeEffect ==
  ASSUME TicksAssumption, TicksInv, NEW c \in Cpus, NEW L \in SUBSET Locks,
         TakeAndRelease(c, L), L \subseteq Held(c) \cup {LockAt(c)}
  PROVE  /\ holder' \in [Locks -> Cpus \cup {None}]
         /\ \A l \in Locks : holder'[l] = c <=> l \in (Held(c) \cup {LockAt(c)}) \ L
         /\ \A l \in Locks, d \in Cpus : d # c => (holder'[l] = d <=> holder[l] = d)
         /\ cpu[c].spins /\ At(c) \in Acquiring
<1>1. /\ holder \in [Locks -> Cpus \cup {None}] /\ None \notin Cpus
      /\ \A l \in Locks : holder[l] = c <=> l \in Held(c)
  BY Threaded DEF TicksInv, TypeOK, HeldExactly
<1>2. /\ holder[LockAt(c)] = None /\ cpu[c].spins /\ At(c) \in Acquiring
      /\ holder' = [l \in Locks |-> IF l \in L THEN None ELSE IF l = LockAt(c) THEN c ELSE holder[l]]
  BY DEF TakeAndRelease, At
<1>3. LockAt(c) \in Locks
  BY <1>2, Wanting
<1>4. QED
  BY <1>1, <1>2, <1>3

LEMMA ReleaseEffect ==
  ASSUME TicksAssumption, TicksInv, NEW c \in Cpus, NEW l \in Locks, Held(c) = {l},
         holder' = [holder EXCEPT ![l] = None]
  PROVE  /\ holder' \in [Locks -> Cpus \cup {None}]
         /\ \A k \in Locks : holder'[k] # c
         /\ \A k \in Locks, d \in Cpus : d # c => (holder'[k] = d <=> holder[k] = d)
<1>1. /\ holder \in [Locks -> Cpus \cup {None}] /\ None \notin Cpus
      /\ \A k \in Locks : holder[k] = c <=> k \in Held(c)
  BY Threaded DEF TicksInv, TypeOK, HeldExactly
<1>2. QED
  BY <1>1

\* pop_off() in the record of a CPU.
CpuRecords == [sie : BOOLEAN, noff : 0..3, intena : BOOLEAN, spins : BOOLEAN]
LEMMA PoppedFields ==
  ASSUME NEW r \in CpuRecords, NEW k \in 0..2, k <= r.noff
  PROVE  /\ Popped(r, k) \in CpuRecords
         /\ Popped(r, k).noff = r.noff - k
         /\ Popped(r, k).intena = r.intena
         /\ Popped(r, k).spins = FALSE
         /\ Popped(r, k).sie = (k > 0 /\ r.noff = k /\ r.intena)
<1>1. ASSUME NEW n \in 0..3, NEW b \in BOOLEAN
      PROVE  [r EXCEPT !.noff = n, !.sie = b, !.spins = FALSE] \in CpuRecords
  BY DEF CpuRecords
<1> DEFINE n == r.noff - k
           b == (k > 0 /\ r.noff = k /\ r.intena)
<1>2. n \in 0..3
  BY DEF CpuRecords
<1>3. b \in BOOLEAN
  OBVIOUS
<1>4. Popped(r, k) = [r EXCEPT !.noff = n, !.sie = b, !.spins = FALSE]
  BY DEF Popped
<1> HIDE DEF n, b
<1>5. [r EXCEPT !.noff = n, !.sie = b, !.spins = FALSE] \in CpuRecords
  BY ONLY <1>1, <1>2, <1>3
<1>6. Popped(r, k) \in CpuRecords
  BY <1>4, <1>5
<1> USE DEF n, b
<1>7. Popped(r, k).noff = r.noff - k
  BY DEF Popped, CpuRecords
<1>8. Popped(r, k).intena = r.intena
  BY DEF Popped, CpuRecords
<1>9. Popped(r, k).spins = FALSE
  BY DEF Popped, CpuRecords
<1>10. Popped(r, k).sie = (k > 0 /\ r.noff = k /\ r.intena)
  BY DEF Popped, CpuRecords
<1>11. QED
  BY <1>6, <1>7, <1>8, <1>9, <1>10

LEMMA TakeBits ==
  ASSUME TicksAssumption, TicksInv, NEW c \in Cpus, NEW k \in 0..2, k <= Count(c),
         cpu' = [cpu EXCEPT ![c] = Popped(cpu[c], k)]
  PROVE  /\ cpu' \in [Cpus -> CpuRecords]
         /\ \A d \in Cpus : d # c => cpu'[d] = cpu[d]
         /\ cpu'[c].noff = Count(c) - k
         /\ cpu'[c].intena = cpu[c].intena
         /\ ~cpu'[c].spins
         /\ (cpu'[c].sie <=> k > 0 /\ Count(c) = k /\ cpu[c].intena)
<1>1. cpu \in [Cpus -> CpuRecords] /\ cpu[c] \in CpuRecords /\ cpu[c].noff = Count(c)
  BY DEF TicksInv, TypeOK, CpuRecords, Bits
<1>2. Popped(cpu[c], k) \in CpuRecords
  BY <1>1, PoppedFields
<1>3. cpu'[c] = Popped(cpu[c], k) /\ cpu' \in [Cpus -> CpuRecords]
      /\ \A d \in Cpus : d # c => cpu'[d] = cpu[d]
  BY <1>1, <1>2
<1>4. /\ Popped(cpu[c], k).noff = Count(c) - k /\ Popped(cpu[c], k).intena = cpu[c].intena
      /\ Popped(cpu[c], k).spins = FALSE
      /\ Popped(cpu[c], k).sie = (k > 0 /\ Count(c) = k /\ cpu[c].intena)
  BY <1>1, PoppedFields
<1>5. QED
  BY <1>3, <1>4

LEMMA ReleaseBits ==
  ASSUME TicksAssumption, TicksInv, NEW c \in Cpus, NEW i \in BOOLEAN, Count(c) = 1,
         cpu' = [cpu EXCEPT ![c] = Popped([@ EXCEPT !.intena = i], 1)]
  PROVE  /\ cpu' \in [Cpus -> CpuRecords]
         /\ \A d \in Cpus : d # c => cpu'[d] = cpu[d]
         /\ cpu'[c].noff = 0 /\ cpu'[c].intena = i
         /\ cpu'[c].spins = FALSE /\ cpu'[c].sie = i
<1> DEFINE r == [cpu[c] EXCEPT !.intena = i]
<1>1. cpu \in [Cpus -> CpuRecords] /\ cpu[c] \in CpuRecords /\ cpu[c].noff = 1
  BY DEF TicksInv, TypeOK, CpuRecords, Bits
<1>2. r \in CpuRecords
  BY <1>1 DEF CpuRecords
<1>3. r.noff = 1 /\ r.intena = i /\ 1 \in 0..2 /\ 1 <= r.noff
  BY <1>1 DEF CpuRecords
<1>4. cpu' = [cpu EXCEPT ![c] = Popped(r, 1)]
  OBVIOUS
<1> HIDE DEF r
<1>5. Popped(r, 1) \in CpuRecords
  BY <1>2, <1>3, PoppedFields
<1>6. cpu'[c] = Popped(r, 1) /\ cpu' \in [Cpus -> CpuRecords]
      /\ \A d \in Cpus : d # c => cpu'[d] = cpu[d]
  BY <1>1, <1>4, <1>5
<1>7. /\ Popped(r, 1).noff = r.noff - 1 /\ Popped(r, 1).intena = r.intena
      /\ Popped(r, 1).spins = FALSE /\ Popped(r, 1).sie = (1 > 0 /\ r.noff = 1 /\ r.intena)
  BY <1>2, <1>3, PoppedFields
<1>8. (1 > 0 /\ r.noff = 1 /\ r.intena) = i
  BY <1>3
<1>9. QED
  BY <1>3, <1>6, <1>7, <1>8

LEMMA Sizes ==
  /\ Cardinality({}) = 0
  /\ \A x : Cardinality({x}) = 1
  /\ \A x, y : x # y => Cardinality({x, y}) = 2
<1>1. ASSUME NEW x, NEW y, x # y PROVE Cardinality({x, y}) = 2
  <2>1. Cardinality({x}) = 1 /\ IsFiniteSet({x}) /\ {x, y} = {x} \cup {y} /\ y \notin {x}
    BY <1>1, FS_Singleton
  <2>2. QED
    BY <2>1, FS_AddElement
<1>2. QED
  BY <1>1, FS_EmptySet, FS_Singleton

\* The interrupt bit after a step that takes a lock and releases none, one or
\* two.
Kept(c) ==
  cpu' \in [Cpus -> CpuRecords] /\ \A d \in Cpus : d # c => cpu'[d] = cpu[d]
LEMMA TakeNone ==
  ASSUME TicksAssumption, TicksInv, NEW c \in Cpus, TakeAndRelease(c, {})
  PROVE  /\ Kept(c) /\ cpu'[c].noff = Count(c) /\ cpu'[c].intena = cpu[c].intena
         /\ ~cpu'[c].spins /\ ~cpu'[c].sie
<1>1. Cardinality({}) = 0
  BY Sizes
<1>2. cpu' = [cpu EXCEPT ![c] = Popped(cpu[c], 0)]
  BY <1>1 DEF TakeAndRelease
<1>3. Count(c) \in 0..2 /\ 0 <= Count(c) /\ 0 \in 0..2
  BY DEF Count
<1> DEFINE k == 0
<1>4. k = 0 /\ k \in 0..2 /\ k <= Count(c) /\ cpu' = [cpu EXCEPT ![c] = Popped(cpu[c], k)]
  BY <1>2, <1>3
<1> HIDE DEF k
<1>5. /\ cpu' \in [Cpus -> CpuRecords]
      /\ \A d \in Cpus : d # c => cpu'[d] = cpu[d]
      /\ cpu'[c].noff = Count(c) - k
      /\ cpu'[c].intena = cpu[c].intena
      /\ ~cpu'[c].spins
      /\ (cpu'[c].sie <=> k > 0 /\ Count(c) = k /\ cpu[c].intena)
  BY <1>4, TakeBits
<1>6. QED
  BY <1>3, <1>4, <1>5 DEF Kept

LEMMA TakeOne ==
  ASSUME TicksAssumption, TicksInv, NEW c \in Cpus, NEW l, TakeAndRelease(c, {l}), 1 <= Count(c)
  PROVE  /\ Kept(c) /\ cpu'[c].noff = Count(c) - 1 /\ cpu'[c].intena = cpu[c].intena
         /\ ~cpu'[c].spins /\ (cpu'[c].sie <=> Count(c) = 1 /\ cpu[c].intena)
<1>1. Cardinality({l}) = 1
  BY Sizes
<1>2. cpu' = [cpu EXCEPT ![c] = Popped(cpu[c], 1)]
  BY <1>1 DEF TakeAndRelease
<1>3. Count(c) \in 0..2 /\ 1 <= Count(c) /\ 1 \in 0..2
  BY DEF Count
<1> DEFINE k == 1
<1>4. k = 1 /\ k \in 0..2 /\ k <= Count(c) /\ cpu' = [cpu EXCEPT ![c] = Popped(cpu[c], k)]
  BY <1>2, <1>3
<1> HIDE DEF k
<1>5. /\ cpu' \in [Cpus -> CpuRecords]
      /\ \A d \in Cpus : d # c => cpu'[d] = cpu[d]
      /\ cpu'[c].noff = Count(c) - k
      /\ cpu'[c].intena = cpu[c].intena
      /\ ~cpu'[c].spins
      /\ (cpu'[c].sie <=> k > 0 /\ Count(c) = k /\ cpu[c].intena)
  BY <1>4, TakeBits
<1>6. QED
  BY <1>3, <1>4, <1>5 DEF Kept

LEMMA TakeTwo ==
  ASSUME TicksAssumption, TicksInv, NEW c \in Cpus, NEW l, NEW m, l # m,
         TakeAndRelease(c, {l, m}), 2 <= Count(c)
  PROVE  /\ Kept(c) /\ cpu'[c].noff = Count(c) - 2 /\ cpu'[c].intena = cpu[c].intena
         /\ ~cpu'[c].spins /\ (cpu'[c].sie <=> Count(c) = 2 /\ cpu[c].intena)
<1>1. Cardinality({l, m}) = 2
  BY Sizes
<1>2. cpu' = [cpu EXCEPT ![c] = Popped(cpu[c], 2)]
  BY <1>1 DEF TakeAndRelease
<1>3. Count(c) \in 0..2 /\ 2 <= Count(c) /\ 2 \in 0..2
  BY DEF Count
<1> DEFINE k == 2
<1>4. k = 2 /\ k \in 0..2 /\ k <= Count(c) /\ cpu' = [cpu EXCEPT ![c] = Popped(cpu[c], k)]
  BY <1>2, <1>3
<1> HIDE DEF k
<1>5. /\ cpu' \in [Cpus -> CpuRecords]
      /\ \A d \in Cpus : d # c => cpu'[d] = cpu[d]
      /\ cpu'[c].noff = Count(c) - k
      /\ cpu'[c].intena = cpu[c].intena
      /\ ~cpu'[c].spins
      /\ (cpu'[c].sie <=> k > 0 /\ Count(c) = k /\ cpu[c].intena)
  BY <1>4, TakeBits
<1>6. QED
  BY <1>3, <1>4, <1>5 DEF Kept

-----------------------------------------------------------------------------
(* Steps on one stack *)

LEMMA StaysOnStack ==
  ASSUME TicksAssumption, TicksInv, NEW c \in Cpus, NEW s,
         on' = on, chosen' = chosen, pc' = [pc EXCEPT ![on[c]] = s],
         on[c] \in Users => s \in OfProcess /\ state'[on[c]] = "RUNNING",
         on[c] \notin Users =>
           s \in {"loop", "scan"} \cup Traps /\ (s \in Traps => back'[on[c]] \in {"loop", "scan"}),
         s = "wake" => next'[c] \in Users
  PROVE  /\ OnStack(c)' /\ At(c)' = s /\ on'[c] = on[c] /\ pc'[Scheduler(c)] # "pick"
         /\ s \in {"park", "wake"} => Held(c)' = {TicksLock}
         /\ s \in Away => Held(c)' = {Plock(on[c])}
         /\ s \notin {"park", "wake"} \cup Away => Held(c)' = {}
<1>1. OnStack(c) /\ on[c] \in Threads /\ Scheduler(c) \in Threads /\ Scheduler(c) \notin Users
  BY Threaded DEF TicksInv, TypeOK
<1>2. pc'[on[c]] = s /\ \A t \in Threads : t # on[c] => pc'[t] = pc[t]
  BY <1>1 DEF TicksInv, TypeOK
<1>3. At(c)' = s /\ on'[c] = on[c]
  BY <1>2 DEF At
<1>4. CASE on[c] \in Users
  <2>1. pc[Scheduler(c)] = "running" /\ chosen[c] = on[c] /\ pc'[Scheduler(c)] = "running"
    BY <1>1, <1>2, <1>4 DEF OnStack
  <2>2. OnStack(c)'
    BY <1>1, <1>3, <1>4, <2>1 DEF OnStack, Handler
  <2>3. s \notin {"pick", "running"}
    BY <1>4 DEF OfProcess, InSystemCall, Away, Traps
  <2>4. pc'[Scheduler(c)] # "pick"
    BY <2>1
  <2>5. /\ s \in {"park", "wake"} => Held(c)' = {TicksLock}
        /\ s \in Away => Held(c)' = {Plock(on[c])}
        /\ s \notin {"park", "wake"} \cup Away => Held(c)' = {}
    BY <1>3, <2>3 DEF Held, Away
  <2>6. QED
    BY <1>3, <2>2, <2>4, <2>5
<1>5. CASE on[c] \notin Users
  <2>1. on[c] = Scheduler(c) /\ s \in OfScheduler /\ s \notin {"pick", "running"} /\ s \notin Away
    BY <1>1, <1>5 DEF OnStack, OfScheduler, Traps, Away
  <2>2. s \in Handler => s \in Traps
    BY <2>1 DEF Handler, OfScheduler, Traps
  <2>3. OnStack(c)'
    BY <1>2, <1>3, <1>5, <2>1, <2>2 DEF OnStack
  <2>4. QED
    BY <1>2, <1>3, <2>1, <2>3 DEF Held
<1>6. QED
  BY <1>4, <1>5

\* The invariant after a step that leaves the stacks and the queues alone.
LEMMA SameStack ==
  ASSUME TicksAssumption, TicksInv, NEW c \in Cpus, NEW s, NEW H,
         on' = on, chosen' = chosen, pc' = [pc EXCEPT ![on[c]] = s], Alone(c), Gentle(c), TypeOK',
         on[c] \in Users => s \in OfProcess /\ state'[on[c]] = "RUNNING",
         on[c] \notin Users =>
           s \in {"loop", "scan"} \cup Traps /\ (s \in Traps => back'[on[c]] \in {"loop", "scan"}),
         s = "wake" => next'[c] \in Users,
         s \in {"park", "wake"} => H = {TicksLock},
         s \in Away => H = {Plock(on[c])},
         s \notin {"park", "wake"} \cup Away => H = {},
         \A l \in Locks : holder'[l] = c <=> l \in H,
         \A l \in Locks, d \in Cpus : d # c => (holder'[l] = d <=> holder[l] = d),
         \/ beats' = beats /\ (s = "clock" => c = 0 /\ beats < MaxTicks)
         \/ At(c) = "clock" /\ s # "clock",
         At(c)' = s => Bits(c)',
         \A p \in Users : p = on[c] => Process(p)'
  PROVE  TicksInv'
<1>1. /\ OnStack(c)' /\ At(c)' = s /\ on'[c] = on[c] /\ pc'[Scheduler(c)] # "pick"
      /\ s \in {"park", "wake"} => Held(c)' = {TicksLock}
      /\ s \in Away => Held(c)' = {Plock(on[c])}
      /\ s \notin {"park", "wake"} \cup Away => Held(c)' = {}
  BY StaysOnStack
<1>2. Held(c)' = H /\ Bits(c)'
  BY <1>1
<1>3. QED
  BY <1>1, <1>2, Combined

\* Where a process in a system call is.
LEMMA CallerAt ==
  ASSUME TicksAssumption, TicksInv, NEW c \in Cpus,
         At(c) \in OfProcess \ Traps
  PROVE  /\ on[c] \in Users /\ on[c] \in Threads /\ pc[on[c]] = At(c)
         /\ state[on[c]] = "RUNNING" /\ chosen[c] = on[c] /\ Process(on[c]) /\ Bits(c)
<1>1. OnStack(c) /\ on[c] \in Threads
  BY DEF TicksInv, TypeOK
<1>2. At(c) \notin OfScheduler
  BY DEF OfProcess, OfScheduler, Traps, InSystemCall, Away
<1>3. on[c] \in Users /\ state[on[c]] = "RUNNING" /\ chosen[c] = on[c]
  BY <1>1, <1>2 DEF OnStack
<1>4. QED
  BY <1>1, <1>3 DEF TicksInv, At

LEMMA AloneOf ==
  ASSUME TicksInv, NEW c \in Cpus, NEW s, pc' = [pc EXCEPT ![on[c]] = s],
         \A d \in Cpus : d # c => cpu'[d] = cpu[d],
         UNCHANGED <<on, chosen, next, back, script, saved>>
  PROVE  Alone(c)
<1>1. \A t \in Threads : t # on[c] => pc'[t] = pc[t]
  BY DEF TypeOK, TicksInv
<1>2. QED
  BY <1>1 DEF Alone

LEMMA UptimeKeeps ==
  ASSUME TicksAssumption, TicksInv, NEW c \in Cpus, SysUptime(c)
  PROVE  TicksInv' /\ Alone(c) /\ Gentle(c)
<1> DEFINE t == on[c]
<1>1. At(c) = "uptime"
  BY DEF SysUptime, At
<1>2. t \in Users /\ t \in Threads /\ pc[t] = "uptime" /\ state[t] = "RUNNING" /\ Process(t) /\ Bits(c)
  BY <1>1, CallerAt DEF OfProcess, InSystemCall, Traps
<1>3. /\ TakeAndRelease(c, {TicksLock}) /\ pc' = [pc EXCEPT ![t] = "done"]
      /\ UNCHANGED <<on, next, chosen, back, state, killed, queued, saved, ticks, beats, ticks0, since, script>>
  BY DEF SysUptime, Goto, procs, clock, sleeps
<1>4. Held(c) = {} /\ LockAt(c) = TicksLock
  BY <1>1 DEF Held, LockAt, At, Away
<1>5. /\ holder' \in [Locks -> Cpus \cup {None}]
      /\ \A l \in Locks : holder'[l] = c <=> l \in {}
      /\ \A l \in Locks, d \in Cpus : d # c => (holder'[l] = d <=> holder[l] = d)
      /\ cpu[c].spins
  BY <1>3, <1>4, TakeEffect, Distinct
<1>6. Count(c) = 1 /\ 1 <= Count(c) /\ cpu[c].intena /\ TakeAndRelease(c, {TicksLock})
  BY <1>1, <1>2, <1>3, <1>5 DEF Count, Keeping, Away, Bits, InSystemCall
<1>7. Kept(c) /\ cpu'[c].noff = 0 /\ ~cpu'[c].spins /\ cpu'[c].sie
  <2>1. /\ Kept(c) /\ cpu'[c].noff = Count(c) - 1 /\ cpu'[c].intena = cpu[c].intena
        /\ ~cpu'[c].spins /\ (cpu'[c].sie <=> Count(c) = 1 /\ cpu[c].intena)
    BY <1>6, TakeOne
  <2>2. QED
    BY <1>6, <2>1
<1>8. Alone(c) /\ Gentle(c) /\ TypeOK'
  BY <1>2, <1>3, <1>5, <1>7 DEF Kept, Alone, Gentle, TypeOK, TicksInv, CpuRecords, Process
<1>9. At(c)' = "done" => Bits(c)'
  BY <1>7 DEF Bits, Count, Keeping, Away, Handler, InSystemCall
<1>10. ASSUME NEW p \in Users, p = t PROVE Process(p)'
  BY <1>2, <1>3, <1>10 DEF Process, CallStep, Handler, InSystemCall, Interrupted, Away
<1>11. TicksInv'
  <2> DEFINE s == "done" H == {}
  <2>1. s \in OfProcess /\ s \notin {"wake"} /\ s \notin {"park", "wake"} \cup Away
    BY DEF OfProcess, Away
  <2>2. pc' = [pc EXCEPT ![on[c]] = s] /\ (At(c)' = s => Bits(c)')
    BY <1>3, <1>9
  <2>3. \A l \in Locks : holder'[l] = c <=> l \in H
    BY <1>5
  <2>4. \A p \in Users : p = on[c] => Process(p)'
    BY <1>10
  <2>5. H = {} /\ state'[on[c]] = "RUNNING" /\ on[c] \in Users /\ on' = on /\ chosen' = chosen
    BY <1>2, <1>3
  <2>6. beats' = beats /\ s # "clock"
    BY <1>3
  <2> HIDE DEF s, H
  <2>7. QED
    BY <1>5, <1>8, <2>1, <2>2, <2>3, <2>4, <2>5, <2>6, SameStack
<1>12. QED
  BY <1>8, <1>11

LEMMA PushOffKeeps ==
  ASSUME TicksAssumption, TicksInv, NEW c \in Cpus, PushOff(c)
  PROVE  TicksInv' /\ Alone(c) /\ Gentle(c)
<1>1. /\ At(c) \in Acquiring /\ ~cpu[c].spins
      /\ cpu' = [cpu EXCEPT ![c] =
           [sie |-> FALSE, noff |-> cpu[c].noff + 1, spins |-> TRUE,
            intena |-> IF cpu[c].noff = 0 THEN cpu[c].sie ELSE cpu[c].intena]]
      /\ UNCHANGED <<holder, on, next, chosen, pc, back, state, killed, queued, saved>>
      /\ UNCHANGED <<ticks, beats, ticks0, since, script>>
  BY DEF PushOff, At, procs, clock, sleeps
<1>2. /\ OnStack(c) /\ Bits(c) /\ TypeOK /\ HeldExactly /\ Beating
      /\ \A p \in Users : Process(p)
  BY DEF TicksInv
<1>3. cpu \in [Cpus -> CpuRecords] /\ cpu[c] \in CpuRecords
  BY <1>2 DEF TypeOK, CpuRecords
<1>4. cpu[c].noff \in 0..1
  BY <1>1, <1>2 DEF Bits, Count
<1>5. /\ cpu' \in [Cpus -> CpuRecords] /\ \A d \in Cpus : d # c => cpu'[d] = cpu[d]
      /\ cpu'[c].noff = cpu[c].noff + 1 /\ cpu'[c].spins /\ ~cpu'[c].sie
      /\ cpu[c].noff = 0 => (cpu'[c].intena <=> cpu[c].sie)
      /\ cpu[c].noff # 0 => (cpu'[c].intena <=> cpu[c].intena)
  BY <1>1, <1>3, <1>4 DEF CpuRecords
<1>6. TypeOK' /\ Alone(c) /\ Gentle(c)
  BY <1>1, <1>2, <1>5 DEF TypeOK, CpuRecords, Alone, Gentle, Process
<1>7. At(c)' = At(c) /\ on'[c] = on[c]
  BY <1>1 DEF At
<1>8. OnStack(c)' /\ Held(c)' = Held(c)
  BY <1>1, <1>2, <1>7 DEF OnStack, Held
<1>9. Bits(c)'
  BY <1>1, <1>2, <1>4, <1>5, <1>7
     DEF Bits, Count, Keeping, Away, Handler, InSystemCall, Acquiring
<1>10. /\ \A l \in Locks : holder'[l] = c <=> l \in Held(c)'
       /\ \A l \in Locks, d \in Cpus : d # c => (holder'[l] = d <=> holder[l] = d)
  BY <1>1, <1>2, <1>8 DEF HeldExactly
<1>11. \A p \in Users : p = on[c] => Process(p)'
  BY <1>1, <1>2 DEF Process, CallStep
<1>12. /\ pc'[Scheduler(c)] = "pick" => pc[Scheduler(c)] = "pick" /\ chosen'[c] = chosen[c]
       /\ beats' = beats /\ (At(c)' = "clock" => c = 0 /\ beats < MaxTicks)
  BY <1>1, <1>2, <1>7 DEF Beating
<1>13. QED
  BY <1>6, <1>7, <1>8, <1>9, <1>10, <1>11, <1>12, Combined

LEMMA SleepKeeps ==
  ASSUME TicksAssumption, TicksInv, NEW c \in Cpus, SysSleep(c)
  PROVE  TicksInv' /\ Alone(c) /\ Gentle(c)
<1> DEFINE p == on[c]
           from == IF pc[p] = "sleep" THEN ticks ELSE ticks0[p]
<1>1. At(c) \in {"sleep", "resleep"}
  BY DEF SysSleep, At
<1>2. p \in Users /\ p \in Threads /\ pc[p] = At(c) /\ state[p] = "RUNNING" /\ Process(p) /\ Bits(c)
  BY <1>1, CallerAt DEF OfProcess, InSystemCall, Traps
<1>3. /\ \/ TakeAndRelease(c, {}) /\ pc' = [pc EXCEPT ![p] = "park"]
         \/ TakeAndRelease(c, {TicksLock}) /\ pc' = [pc EXCEPT ![p] = "done"]
      /\ ticks0' = [ticks0 EXCEPT ![p] = from]
      /\ since' = [since EXCEPT ![p] = IF pc[p] = "sleep" THEN beats ELSE @]
      /\ UNCHANGED <<on, next, chosen, back, state, killed, queued, saved, ticks, beats, script>>
  BY DEF SysSleep, Goto, procs, clock
<1>4. Held(c) = {} /\ LockAt(c) = TicksLock
  BY <1>1 DEF Held, LockAt, At, Away
<1>5. cpu[c].spins
  BY <1>3 DEF TakeAndRelease
<1>6. Count(c) = 1 /\ 1 <= Count(c) /\ cpu[c].intena
  BY <1>1, <1>2, <1>5 DEF Count, Keeping, Away, Bits, InSystemCall
<1>7. Gentle(c) /\ ticks0' \in [Users -> 0..(WORD - 1)] /\ since' \in [Users -> 0..MaxTicks]
  BY <1>2, <1>3 DEF Gentle, Process, TypeOK, TicksInv
<1>8. CASE TakeAndRelease(c, {}) /\ pc' = [pc EXCEPT ![p] = "park"]
  <2>1. /\ holder' \in [Locks -> Cpus \cup {None}]
        /\ \A l \in Locks : holder'[l] = c <=> l \in {TicksLock}
        /\ \A l \in Locks, d \in Cpus : d # c => (holder'[l] = d <=> holder[l] = d)
    BY <1>4, <1>8, TakeEffect, Distinct
  <2>2. /\ Kept(c) /\ cpu'[c].noff = Count(c) /\ cpu'[c].intena = cpu[c].intena
        /\ ~cpu'[c].spins /\ ~cpu'[c].sie
    BY <1>8, TakeNone
  <2>3. Alone(c)
    BY <1>3, <1>8, <2>2, AloneOf DEF Kept
  <2>11. TypeOK'
    BY <1>2, <1>3, <1>7, <1>8, <2>1, <2>2 DEF Kept, TypeOK, TicksInv, CpuRecords, Acquiring
  <2>4. At(c)' = "park" => Bits(c)'
    BY <1>6, <2>2 DEF Bits, Count, Keeping, Away, Handler, InSystemCall, Acquiring
  <2>5. \A q \in Users : q = on[c] => Process(q)'
    BY <1>1, <1>2, <1>3, <1>8 DEF Process, CallStep, Handler, InSystemCall, Interrupted, Away
  <2> DEFINE s == "park" H == {TicksLock}
  <2>6. s \in OfProcess /\ s \notin {"wake"} \cup Away /\ H = {TicksLock} /\ s # "clock"
        /\ s \in {"park", "wake"}
    BY DEF OfProcess, Away
  <2>7. pc' = [pc EXCEPT ![on[c]] = s] /\ (At(c)' = s => Bits(c)')
    BY <1>8, <2>4
  <2>8. \A l \in Locks : holder'[l] = c <=> l \in H
    BY <2>1
  <2>9. state'[on[c]] = "RUNNING" /\ on[c] \in Users /\ on' = on /\ chosen' = chosen /\ beats' = beats
    BY <1>2, <1>3
  <2> HIDE DEF s, H
  <2>10. QED
    BY <1>7, <2>1, <2>3, <2>11, <2>5, <2>6, <2>7, <2>8, <2>9, SameStack
<1>9. CASE TakeAndRelease(c, {TicksLock}) /\ pc' = [pc EXCEPT ![p] = "done"]
  <2>1. /\ holder' \in [Locks -> Cpus \cup {None}]
        /\ \A l \in Locks : holder'[l] = c <=> l \in {}
        /\ \A l \in Locks, d \in Cpus : d # c => (holder'[l] = d <=> holder[l] = d)
    BY <1>4, <1>9, TakeEffect, Distinct
  <2>2. /\ Kept(c) /\ cpu'[c].noff = Count(c) - 1 /\ cpu'[c].intena = cpu[c].intena
        /\ ~cpu'[c].spins /\ (cpu'[c].sie <=> Count(c) = 1 /\ cpu[c].intena)
    BY <1>6, <1>9, TakeOne
  <2>3. Alone(c) /\ TypeOK'
    BY <1>2, <1>3, <1>7, <1>9, <2>1, <2>2 DEF Kept, Alone, TypeOK, TicksInv, CpuRecords
  <2>4. At(c)' = "done" => Bits(c)'
    BY <1>6, <2>2 DEF Bits, Count, Keeping, Away, Handler, InSystemCall, Acquiring
  <2>5. \A q \in Users : q = on[c] => Process(q)'
    BY <1>1, <1>2, <1>3, <1>9 DEF Process, CallStep, Handler, InSystemCall, Interrupted, Away
  <2> DEFINE s == "done" H == {}
  <2>6. s \in OfProcess /\ s \notin {"park", "wake"} \cup Away /\ s # "wake" /\ H = {} /\ s # "clock"
    BY DEF OfProcess, Away
  <2>7. pc' = [pc EXCEPT ![on[c]] = s] /\ (At(c)' = s => Bits(c)')
    BY <1>9, <2>4
  <2>8. \A l \in Locks : holder'[l] = c <=> l \in H
    BY <2>1
  <2>9. state'[on[c]] = "RUNNING" /\ on[c] \in Users /\ on' = on /\ chosen' = chosen /\ beats' = beats
    BY <1>2, <1>3
  <2> HIDE DEF s, H
  <2>10. QED
    BY <1>7, <2>1, <2>3, <2>5, <2>6, <2>7, <2>8, <2>9, SameStack
<1>10. QED
  BY <1>3, <1>8, <1>9

\* A process that sleeps becomes runnable and is queued, the others stay.
LEMMA MadeRunnable ==
  ASSUME TicksInv, NEW p \in Users, MakeRunnable(p)
  PROVE  /\ state' \in [Users -> {"RUNNABLE", "RUNNING", "SLEEPING", "ZOMBIE"}]
         /\ queued' \subseteq Users
         /\ \A q \in Users :
              /\ state'[q] = state[q] \/ (state[q] = "SLEEPING" /\ state'[q] = "RUNNABLE")
              /\ q \in queued' => q \in queued \/ state[q] = "SLEEPING"
              /\ q \in queued' => state'[q] = "RUNNABLE"
<1>1. /\ state \in [Users -> {"RUNNABLE", "RUNNING", "SLEEPING", "ZOMBIE"}] /\ queued \subseteq Users
      /\ \A q \in Users : q \in queued => state[q] = "RUNNABLE"
  BY DEF TicksInv, TypeOK, Process
<1>2. CASE state[p] = "SLEEPING"
  <2>1. state' = [state EXCEPT ![p] = "RUNNABLE"] /\ queued' = queued \cup {p}
    BY <1>2 DEF MakeRunnable
  <2>2. QED
    BY <1>1, <1>2, <2>1
<1>3. CASE state[p] # "SLEEPING"
  <2>1. state' = state /\ queued' = queued
    BY <1>3 DEF MakeRunnable
  <2>2. QED
    BY <1>1, <2>1
<1>4. QED
  BY <1>2, <1>3
LEMMA GentleWake ==
  ASSUME TicksInv, NEW c \in Cpus, NEW p \in Users, MakeRunnable(p)
  PROVE  Gentle(c)
BY MadeRunnable DEF Gentle

LEMMA KillKeeps ==
  ASSUME TicksAssumption, TicksInv, NEW c \in Cpus, SysKill(c)
  PROVE  TicksInv' /\ Alone(c) /\ Gentle(c)
<1> DEFINE t == on[c]
           v == Head(script[t]).arg
<1>1. At(c) = "kill"
  BY DEF SysKill, At
<1>2. t \in Users /\ t \in Threads /\ pc[t] = At(c) /\ state[t] = "RUNNING" /\ Process(t) /\ Bits(c)
  BY <1>1, CallerAt DEF OfProcess, InSystemCall, Traps
<1>3. /\ TakeAndRelease(c, {Plock(v)}) /\ pc' = [pc EXCEPT ![t] = "done"]
      /\ killed' = [killed EXCEPT ![v] = TRUE] /\ MakeRunnable(v)
      /\ UNCHANGED <<on, next, chosen, back, saved, ticks, beats, ticks0, since, script>>
  BY DEF SysKill, Goto, clock, sleeps
<1>4. Held(c) = {} /\ LockAt(c) = Plock(v)
  BY <1>1 DEF Held, LockAt, At, Away
<1>5. v \in Users
  <2>1. CallStep(t) = "kill"
    BY <1>1, <1>2 DEF CallStep, Handler
  <2>2. script[t] \in Seq(SysCalls) /\ script[t] # << >> /\ Head(script[t]).op = "kill"
    BY <1>2, <2>1 DEF Process, InSystemCall, TicksInv, TypeOK
  <2>3. Head(script[t]) \in SysCalls
    BY <2>2
  <2>4. QED
    BY <2>2, <2>3 DEF SysCalls
<1>6. Count(c) = 1 /\ 1 <= Count(c) /\ cpu[c].intena
  <2>1. cpu[c].spins
    BY <1>3 DEF TakeAndRelease
  <2>2. QED
    BY <1>1, <1>2, <2>1 DEF Count, Keeping, Away, Bits, InSystemCall
<1>7. /\ holder' \in [Locks -> Cpus \cup {None}]
      /\ \A l \in Locks : holder'[l] = c <=> l \in {}
      /\ \A l \in Locks, d \in Cpus : d # c => (holder'[l] = d <=> holder[l] = d)
  BY <1>3, <1>4, <1>5, TakeEffect, Distinct
<1>8. /\ Kept(c) /\ cpu'[c].noff = Count(c) - 1 /\ cpu'[c].intena = cpu[c].intena
      /\ ~cpu'[c].spins /\ (cpu'[c].sie <=> Count(c) = 1 /\ cpu[c].intena)
  BY <1>3, <1>6, TakeOne
<1>9. Alone(c)
  BY <1>3, <1>8, AloneOf DEF Kept
<1>10. /\ Gentle(c) /\ state'[t] = "RUNNING" /\ t \notin queued'
       /\ state' \in [Users -> {"RUNNABLE", "RUNNING", "SLEEPING", "ZOMBIE"}] /\ queued' \subseteq Users
  BY <1>2, <1>3, <1>5, MadeRunnable, GentleWake
<1>11. TypeOK'
  <2>1. killed' \in [Users -> BOOLEAN]
    BY <1>3, <1>5 DEF TypeOK, TicksInv
  <2>2. pc' \in [Threads -> Acquiring \cup Handler
                          \cup {"user", "forkret", "slept", "done", "zombie", "loop", "running"}]
    BY <1>2, <1>3 DEF TypeOK, TicksInv
  <2>3. QED
    BY <1>3, <1>7, <1>8, <1>10, <2>1, <2>2 DEF Kept, TypeOK, TicksInv, CpuRecords
<1>12. At(c)' = "done" => Bits(c)'
  BY <1>6, <1>8 DEF Bits, Count, Keeping, Away, Handler, InSystemCall, Acquiring
<1>13. ASSUME NEW q \in Users, q = on[c] PROVE Process(q)'
  BY <1>1, <1>2, <1>3, <1>10, <1>13 DEF Process, CallStep, Handler, InSystemCall, Interrupted, Away
<1> DEFINE s == "done" H == {}
<1>14. s \in OfProcess /\ s \notin {"park", "wake"} \cup Away /\ s # "wake" /\ H = {} /\ s # "clock"
  BY DEF OfProcess, Away
<1>15. pc' = [pc EXCEPT ![on[c]] = s] /\ (At(c)' = s => Bits(c)')
  BY <1>3, <1>12
<1>16. \A l \in Locks : holder'[l] = c <=> l \in H
  BY <1>7
<1>17. state'[on[c]] = "RUNNING" /\ on[c] \in Users /\ on' = on /\ chosen' = chosen /\ beats' = beats
  BY <1>2, <1>3, <1>10
<1> HIDE DEF s, H
<1>18. QED
  BY <1>7, <1>9, <1>10, <1>11, <1>13, <1>14, <1>15, <1>16, <1>17, SameStack

\* Where the scheduler is.
LEMMA SchedulerAt ==
  ASSUME TicksAssumption, TicksInv, NEW c \in Cpus,
         At(c) \in OfScheduler \ Traps
  PROVE  /\ on[c] = Scheduler(c) /\ on[c] \notin Users /\ on[c] \in Threads /\ pc[on[c]] = At(c)
         /\ At(c) \in {"pick", "running"} => chosen[c] \in Users
         /\ At(c) = "pick" => state[chosen[c]] = "RUNNABLE" /\ chosen[c] \notin queued
         /\ Bits(c)
<1>1. OnStack(c) /\ on[c] \in Threads
  BY DEF TicksInv, TypeOK
<1>2. At(c) \notin OfProcess
  BY DEF OfProcess, OfScheduler, Traps, InSystemCall, Away
<1>3. on[c] = Scheduler(c)
  BY <1>1, <1>2 DEF OnStack
<1>4. QED
  BY <1>1, <1>3, Threaded DEF TicksInv, At, OnStack

LEMMA LoopKeeps ==
  ASSUME TicksAssumption, TicksInv, NEW c \in Cpus, Loop(c)
  PROVE  TicksInv' /\ Alone(c) /\ Gentle(c)
<1>1. At(c) = "loop"
  BY DEF Loop, At
<1>2. on[c] \notin Users /\ on[c] \in Threads /\ Bits(c)
  BY <1>1, SchedulerAt DEF OfScheduler, Traps
<1>3. /\ cpu' = [cpu EXCEPT ![c].sie = TRUE] /\ pc' = [pc EXCEPT ![on[c]] = "scan"]
      /\ UNCHANGED <<holder, on, next, chosen, back, state, killed, queued, saved>>
      /\ UNCHANGED <<ticks, beats, ticks0, since, script>>
  BY DEF Loop, Goto, procs, clock, sleeps
<1>4. cpu \in [Cpus -> CpuRecords] /\ cpu[c] \in CpuRecords
  BY DEF TicksInv, TypeOK, CpuRecords
<1>5. /\ cpu' \in [Cpus -> CpuRecords] /\ \A d \in Cpus : d # c => cpu'[d] = cpu[d]
      /\ cpu'[c].noff = cpu[c].noff /\ cpu'[c].sie
      /\ cpu'[c].spins = cpu[c].spins /\ cpu'[c].intena = cpu[c].intena
  BY <1>3, <1>4 DEF CpuRecords
<1>6. Count(c) = 0 /\ ~cpu[c].spins /\ cpu[c].noff = 0
  BY <1>1, <1>2 DEF Bits, Count, Keeping, Away, Acquiring
<1>7. Alone(c)
  BY <1>3, <1>5, AloneOf
<1>8. Gentle(c) /\ TypeOK'
  BY <1>2, <1>3, <1>5 DEF Gentle, Process, TypeOK, TicksInv, CpuRecords, Acquiring
<1>9. At(c)' = "scan" => Bits(c)'
  BY <1>5, <1>6 DEF Bits, Count, Keeping, Away, Handler, InSystemCall, Acquiring
<1>10. /\ \A l \in Locks : holder'[l] = c <=> l \in {}
       /\ \A l \in Locks, d \in Cpus : d # c => (holder'[l] = d <=> holder[l] = d)
  BY <1>1, <1>3 DEF TicksInv, HeldExactly, Held, Away
<1> DEFINE s == "scan" H == {}
<1>11. s \in {"loop", "scan"} /\ s \notin Traps /\ s \notin {"park", "wake"} \cup Away /\ s # "wake"
       /\ H = {} /\ s # "clock"
  BY DEF Traps, Away
<1>12. pc' = [pc EXCEPT ![on[c]] = s] /\ (At(c)' = s => Bits(c)')
  BY <1>3, <1>9
<1>13. \A l \in Locks : holder'[l] = c <=> l \in H
  BY <1>10
<1>14. /\ on[c] \notin Users /\ on' = on /\ chosen' = chosen /\ beats' = beats
       /\ \A p \in Users : p = on[c] => Process(p)'
  BY <1>2, <1>3
<1> HIDE DEF s, H
<1>15. QED
  BY <1>7, <1>8, <1>10, <1>11, <1>12, <1>13, <1>14, SameStack

\* The interrupt bit set or cleared.
LEMMA SieSet ==
  ASSUME TicksInv, NEW c \in Cpus, NEW b \in BOOLEAN, cpu' = [cpu EXCEPT ![c].sie = b]
  PROVE  /\ Kept(c) /\ cpu'[c].noff = cpu[c].noff /\ (cpu'[c].sie <=> b)
         /\ (cpu'[c].spins <=> cpu[c].spins) /\ (cpu'[c].intena <=> cpu[c].intena)
<1>1. cpu \in [Cpus -> CpuRecords] /\ cpu[c] \in CpuRecords
  BY DEF TicksInv, TypeOK, CpuRecords
<1>2. QED
  BY <1>1 DEF CpuRecords, Kept

\* A step that leaves the locks alone where none is held.
LEMMA NoLocks ==
  ASSUME TicksInv, NEW c \in Cpus, holder' = holder, At(c) \notin Keeping
  PROVE  /\ \A l \in Locks : holder'[l] = c <=> l \in {}
         /\ \A l \in Locks, d \in Cpus : d # c => (holder'[l] = d <=> holder[l] = d)
BY HeldOnce DEF TicksInv, HeldExactly

LEMMA CallKeeps ==
  ASSUME TicksAssumption, TicksInv, NEW c \in Cpus, Call(c)
  PROVE  TicksInv' /\ Alone(c) /\ Gentle(c)
<1> DEFINE t == on[c]
           s == IF killed[t] THEN "exit" ELSE Head(script[t]).op
<1>1. At(c) = "user"
  BY DEF Call, At
<1>2. t \in Users /\ t \in Threads /\ pc[t] = At(c) /\ state[t] = "RUNNING" /\ Process(t) /\ Bits(c)
  BY <1>1, CallerAt DEF OfProcess, InSystemCall, Traps
<1>3. /\ script[t] # << >> /\ cpu' = [cpu EXCEPT ![c].sie = ~killed[t]] /\ pc' = [pc EXCEPT ![t] = s]
      /\ UNCHANGED <<holder, on, next, chosen, back, state, killed, queued, saved>>
      /\ UNCHANGED <<ticks, beats, ticks0, since, script>>
  BY DEF Call, Goto, procs, clock, sleeps
<1>4. Head(script[t]).op \in {"sleep", "uptime", "kill"}
  <2>1. script[t] \in Seq(SysCalls)
    BY <1>2 DEF TicksInv, TypeOK
  <2>2. Head(script[t]) \in SysCalls
    BY <1>3, <2>1
  <2>3. QED
    BY <2>2 DEF SysCalls
<1>5. /\ Kept(c) /\ cpu'[c].noff = cpu[c].noff /\ (cpu'[c].sie <=> ~killed[t])
      /\ (cpu'[c].spins <=> cpu[c].spins) /\ (cpu'[c].intena <=> cpu[c].intena)
  <2>1. (~killed[t]) \in BOOLEAN
    OBVIOUS
  <2>2. QED
    BY <1>3, <2>1, SieSet
<1>6. ~cpu[c].spins /\ cpu[c].noff = 0
  BY <1>1, <1>2 DEF Bits, Count, Keeping, Away, Acquiring
<1>7. /\ s \in OfProcess /\ s \notin {"park", "wake"} \cup Away /\ s # "wake" /\ s # "clock"
      /\ s \in InSystemCall \cup {"exit"} /\ (s # "exit" <=> ~killed[t])
      /\ s \in Acquiring /\ (s = "kill" => Head(script[t]).op = "kill")
  BY <1>4 DEF OfProcess, InSystemCall, Away, Acquiring
<1> HIDE DEF s
<1>8. Alone(c)
  BY <1>3, <1>5, AloneOf DEF Kept
<1>9. Gentle(c)
  BY <1>2, <1>3 DEF Gentle, Process, TicksInv
<1>10. TypeOK'
  BY <1>2, <1>3, <1>5, <1>7 DEF Kept, TypeOK, TicksInv, CpuRecords
<1>11. At(c)' = s => Bits(c)'
  BY <1>5, <1>6, <1>7 DEF Bits, Count, Keeping, Away, Handler, InSystemCall, Acquiring
<1>12. /\ \A l \in Locks : holder'[l] = c <=> l \in {}
       /\ \A l \in Locks, d \in Cpus : d # c => (holder'[l] = d <=> holder[l] = d)
  BY <1>1, <1>3, NoLocks DEF Keeping, Away
<1>13. ASSUME NEW q \in Users, q = on[c] PROVE Process(q)'
  <2>1. pc'[q] = s
    BY <1>2, <1>3, <1>13 DEF TypeOK, TicksInv
  <2>2. CallStep(q)' = s
    BY <1>7, <2>1 DEF CallStep, Handler, InSystemCall
  <2>3. QED
    BY <1>2, <1>3, <1>7, <1>13, <2>1, <2>2 DEF Process, InSystemCall
<1>14. on[c] \in Users /\ state'[on[c]] = "RUNNING" /\ on' = on /\ chosen' = chosen /\ beats' = beats
  BY <1>2, <1>3
<1> DEFINE H == {}
<1>15. H = {} /\ \A l \in Locks : holder'[l] = c <=> l \in H
  BY <1>12
<1>16. pc' = [pc EXCEPT ![on[c]] = s]
  BY <1>3
<1> HIDE DEF H
<1>17. QED
  BY <1>7, <1>8, <1>9, <1>10, <1>11, <1>12, <1>13, <1>14, <1>15, <1>16, SameStack

LEMMA ReturnKeeps ==
  ASSUME TicksAssumption, TicksInv, NEW c \in Cpus, Return(c)
  PROVE  TicksInv' /\ Alone(c) /\ Gentle(c)
<1> DEFINE t == on[c]
           s == IF killed[t] THEN "exit" ELSE "user"
<1>1. At(c) = "done"
  BY DEF Return, At
<1>2. t \in Users /\ t \in Threads /\ pc[t] = At(c) /\ state[t] = "RUNNING" /\ Process(t) /\ Bits(c)
  BY <1>1, CallerAt DEF OfProcess, InSystemCall, Traps
<1>3. /\ cpu' = [cpu EXCEPT ![c].sie = TRUE] /\ pc' = [pc EXCEPT ![t] = s]
      /\ script' = [script EXCEPT ![t] = Tail(@)]
      /\ ticks0' = [ticks0 EXCEPT ![t] = 0] /\ since' = [since EXCEPT ![t] = 0]
      /\ UNCHANGED <<holder, on, next, chosen, back, state, killed, queued, saved, ticks, beats>>
  BY DEF Return, Goto, procs, clock
<1>4. script[t] \in Seq(SysCalls) /\ script[t] # << >> /\ Tail(script[t]) \in Seq(SysCalls)
  <2>1. CallStep(t) = "done"
    BY <1>1, <1>2 DEF CallStep, Handler
  <2>2. script[t] \in Seq(SysCalls) /\ script[t] # << >>
    BY <1>2, <2>1 DEF Process, InSystemCall, TicksInv, TypeOK
  <2>3. QED
    BY <2>2
<1>5. /\ Kept(c) /\ cpu'[c].noff = cpu[c].noff /\ (cpu'[c].sie <=> TRUE)
      /\ (cpu'[c].spins <=> cpu[c].spins) /\ (cpu'[c].intena <=> cpu[c].intena)
  BY <1>3, SieSet
<1>6. ~cpu[c].spins /\ cpu[c].noff = 0
  BY <1>1, <1>2 DEF Bits, Count, Keeping, Away, Acquiring
<1>7. /\ s \in OfProcess /\ s \notin {"park", "wake"} \cup Away /\ s # "wake" /\ s # "clock"
      /\ s \in {"user", "exit"}
  BY DEF OfProcess, Away
<1> HIDE DEF s
<1>8. Alone(c)
  <2>1. \A p \in Threads : p # on[c] => pc'[p] = pc[p]
    BY <1>3 DEF TypeOK, TicksInv
  <2>2. \A p \in Users : p # on[c] => script'[p] = script[p]
    BY <1>3
  <2>3. QED
    BY <1>3, <1>5, <2>1, <2>2 DEF Alone, Kept
<1>9. Gentle(c)
  BY <1>2, <1>3 DEF Gentle, Process, TicksInv
<1>10. TypeOK'
  <2>1. 0 \in 0..(WORD - 1) /\ 0 \in 0..MaxTicks
    BY DEF TicksAssumption
  <2>2. ticks0' \in [Users -> 0..(WORD - 1)] /\ since' \in [Users -> 0..MaxTicks]
    BY <1>2, <1>3, <2>1 DEF TypeOK, TicksInv
  <2>3. pc' \in [Threads -> Acquiring \cup Handler
                          \cup {"user", "forkret", "slept", "done", "zombie", "loop", "running"}]
    BY <1>2, <1>3, <1>7 DEF TypeOK, TicksInv, Acquiring
  <2>4. script' \in [Users -> Seq(SysCalls)]
    BY <1>2, <1>3, <1>4 DEF TypeOK, TicksInv
  <2>5. QED
    BY <1>3, <1>5, <2>2, <2>3, <2>4 DEF Kept, TypeOK, TicksInv, CpuRecords
<1>11. At(c)' = s => Bits(c)'
  BY <1>5, <1>6, <1>7 DEF Bits, Count, Keeping, Away, Handler, InSystemCall, Acquiring
<1>12. /\ \A l \in Locks : holder'[l] = c <=> l \in {}
       /\ \A l \in Locks, d \in Cpus : d # c => (holder'[l] = d <=> holder[l] = d)
  BY <1>1, <1>3, NoLocks DEF Keeping, Away
<1>13. ASSUME NEW q \in Users, q = on[c] PROVE Process(q)'
  <2>1. pc'[q] = s
    BY <1>2, <1>3, <1>13 DEF TypeOK, TicksInv
  <2>2. CallStep(q)' = s
    BY <1>7, <2>1 DEF CallStep, Handler
  <2>3. QED
    BY <1>2, <1>3, <1>7, <1>13, <2>1, <2>2 DEF Process, InSystemCall
<1>14. on[c] \in Users /\ state'[on[c]] = "RUNNING" /\ on' = on /\ chosen' = chosen /\ beats' = beats
  BY <1>2, <1>3
<1> DEFINE H == {}
<1>15. H = {} /\ \A l \in Locks : holder'[l] = c <=> l \in H
  BY <1>12
<1>16. pc' = [pc EXCEPT ![on[c]] = s]
  BY <1>3
<1> HIDE DEF H
<1>17. QED
  BY <1>7, <1>8, <1>9, <1>10, <1>11, <1>12, <1>13, <1>14, <1>15, <1>16, SameStack

\* Where a handler is.
LEMMA HandlerAt ==
  ASSUME TicksAssumption, TicksInv, NEW c \in Cpus, At(c) \in Traps \cup {"yield"}
  PROVE  /\ on[c] \in Threads /\ pc[on[c]] = At(c) /\ Bits(c)
         /\ on[c] \in Users =>
              state[on[c]] = "RUNNING" /\ Process(on[c]) /\ CallStep(on[c]) = back[on[c]]
         /\ on[c] \notin Users => on[c] = Scheduler(c) /\ back[on[c]] \in {"loop", "scan"}
<1>1. OnStack(c) /\ on[c] \in Threads /\ Bits(c)
  BY DEF TicksInv, TypeOK
<1>2. At(c) \in Handler /\ pc[on[c]] = At(c)
  BY DEF Traps, Handler, At
<1>3. CASE on[c] \in Users
  BY <1>1, <1>2, <1>3, Threaded DEF OnStack, CallStep, TicksInv
<1>4. CASE on[c] \notin Users
  BY <1>1, <1>2, <1>4 DEF OnStack
<1>5. QED
  BY <1>1, <1>2, <1>3, <1>4

LEMMA AckKeeps ==
  ASSUME TicksAssumption, TicksInv, NEW c \in Cpus, Ack(c)
  PROVE  TicksInv' /\ Alone(c) /\ Gentle(c)
<1> DEFINE t == on[c]
           s == CASE t \notin Users -> "sret"
                  [] t \in Users /\ back[t] = "user" /\ killed[t] -> "exit"
                  [] OTHER -> "yield"
<1>1. At(c) = "ack"
  BY DEF Ack, At
<1>2. /\ t \in Threads /\ pc[t] = At(c) /\ Bits(c)
      /\ t \in Users => state[t] = "RUNNING" /\ Process(t) /\ CallStep(t) = back[t]
      /\ t \notin Users => back[t] \in {"loop", "scan"}
  BY <1>1, HandlerAt DEF Traps
<1>3. /\ pc' = [pc EXCEPT ![t] = s]
      /\ UNCHANGED <<cpu, holder, on, next, chosen, back, state, killed, queued, saved>>
      /\ UNCHANGED <<ticks, beats, ticks0, since, script>>
  BY DEF Ack, Goto, procs, clock, sleeps
<1>4. /\ s \notin {"park", "wake"} \cup Away /\ s # "wake" /\ s # "clock"
      /\ t \in Users => s \in {"exit", "yield"} /\ s \in OfProcess
      /\ t \notin Users => s = "sret" /\ s \in {"loop", "scan"} \cup Traps
      /\ s \in {"exit", "yield", "sret"}
  BY DEF OfProcess, Away, Traps
<1> HIDE DEF s
<1>5. Alone(c)
  BY <1>3, AloneOf
<1>6. Gentle(c)
  BY <1>2, <1>3 DEF Gentle, Process, TicksInv
<1>7. TypeOK'
  BY <1>2, <1>3, <1>4 DEF TypeOK, TicksInv, Acquiring, Handler
<1>8. At(c)' = s => Bits(c)'
  <2>1. ~cpu[c].spins /\ cpu[c].noff = 0 /\ ~cpu[c].sie
    BY <1>1, <1>2 DEF Bits, Count, Keeping, Away, Acquiring, Handler
  <2>2. QED
    BY <1>3, <1>4, <2>1 DEF Bits, Count, Keeping, Away, Handler, InSystemCall, Acquiring
<1>9. /\ \A l \in Locks : holder'[l] = c <=> l \in {}
      /\ \A l \in Locks, d \in Cpus : d # c => (holder'[l] = d <=> holder[l] = d)
  BY <1>1, <1>3, NoLocks DEF Keeping, Away
<1>10. ASSUME NEW q \in Users, q = on[c] PROVE Process(q)'
  <2>1. pc'[q] = s
    BY <1>2, <1>3, <1>10 DEF TypeOK, TicksInv
  <2>2. CallStep(q)' = CallStep(q) \/ CallStep(q)' = "exit"
    BY <1>2, <1>3, <1>4, <1>10, <2>1 DEF CallStep, Handler
  <2>3. QED
    BY <1>2, <1>3, <1>4, <1>10, <2>1, <2>2 DEF Process, InSystemCall, Away
<1>11. /\ on' = on /\ chosen' = chosen /\ beats' = beats
       /\ on[c] \in Users => s \in OfProcess /\ state'[on[c]] = "RUNNING"
       /\ on[c] \notin Users => s \in {"loop", "scan"} \cup Traps /\ back'[on[c]] \in {"loop", "scan"}
  BY <1>2, <1>3, <1>4
<1> DEFINE H == {}
<1>12. H = {} /\ \A l \in Locks : holder'[l] = c <=> l \in H
  BY <1>9
<1>13. pc' = [pc EXCEPT ![on[c]] = s]
  BY <1>3
<1> HIDE DEF H
<1>14. QED
  BY <1>4, <1>5, <1>6, <1>7, <1>8, <1>9, <1>10, <1>11, <1>12, <1>13, SameStack

LEMMA SRetKeeps ==
  ASSUME TicksAssumption, TicksInv, NEW c \in Cpus, SRet(c)
  PROVE  TicksInv' /\ Alone(c) /\ Gentle(c)
<1> DEFINE t == on[c]
           s == back[t]
<1>1. At(c) = "sret"
  BY DEF SRet, At
<1>2. /\ t \in Threads /\ pc[t] = At(c) /\ Bits(c)
      /\ t \in Users => state[t] = "RUNNING" /\ Process(t) /\ CallStep(t) = back[t]
      /\ t \notin Users => back[t] \in {"loop", "scan"}
  BY <1>1, HandlerAt DEF Traps
<1>3. /\ cpu' = [cpu EXCEPT ![c].sie = TRUE] /\ pc' = [pc EXCEPT ![t] = s]
      /\ back' = [back EXCEPT ![t] = "user"]
      /\ UNCHANGED <<holder, on, next, chosen, state, killed, queued, saved>>
      /\ UNCHANGED <<ticks, beats, ticks0, since, script>>
  BY DEF SRet, Goto, procs, clock, sleeps
<1>4. /\ Kept(c) /\ cpu'[c].noff = cpu[c].noff /\ (cpu'[c].sie <=> TRUE)
      /\ (cpu'[c].spins <=> cpu[c].spins) /\ (cpu'[c].intena <=> cpu[c].intena)
  BY <1>3, SieSet
<1>5. /\ s \notin {"park", "wake"} \cup Away /\ s # "wake" /\ s # "clock" /\ s \notin Handler
      /\ t \in Users => s \in OfProcess
      /\ t \notin Users => s \in {"loop", "scan"} /\ s \notin Traps
      /\ s \in Interrupted \cup {"loop", "scan"}
  BY <1>2 DEF Process, Interrupted, InSystemCall, OfProcess, Away, Traps, Handler
<1>6. t \in Users => s \in Interrupted /\ s = CallStep(t)
  BY <1>2 DEF Process
<1> HIDE DEF s
<1>7. Alone(c)
  <2>1. \A p \in Threads : p # on[c] => pc'[p] = pc[p] /\ back'[p] = back[p]
    BY <1>3 DEF TypeOK, TicksInv
  <2>2. QED
    BY <1>3, <1>4, <2>1 DEF Alone, Kept
<1>8. Gentle(c)
  BY <1>2, <1>3 DEF Gentle, Process, TicksInv
<1>9. TypeOK'
  BY <1>2, <1>3, <1>4, <1>5 DEF Kept, CpuRecords, TypeOK, TicksInv, Acquiring, Interrupted, InSystemCall
<1>10. At(c)' = s => Bits(c)'
  <2>1. ~cpu[c].spins /\ cpu[c].noff = 0
    BY <1>1, <1>2 DEF Bits, Count, Keeping, Away, Acquiring, Handler
  <2>2. s \notin Keeping
    BY <1>5 DEF Keeping, Interrupted, InSystemCall, Away
  <2>3. QED
    BY <1>4, <1>5, <2>1, <2>2 DEF Bits, Count
<1>11. /\ \A l \in Locks : holder'[l] = c <=> l \in {}
       /\ \A l \in Locks, d \in Cpus : d # c => (holder'[l] = d <=> holder[l] = d)
  BY <1>1, <1>3, NoLocks DEF Keeping, Away
<1>12. ASSUME NEW q \in Users, q = on[c] PROVE Process(q)'
  <2>1. pc'[q] = s /\ back'[q] = "user"
    BY <1>2, <1>3, <1>12 DEF TypeOK, TicksInv
  <2>2. CallStep(q)' = CallStep(q)
    BY <1>2, <1>5, <1>6, <1>12, <2>1 DEF CallStep
  <2>3. QED
    BY <1>2, <1>3, <1>5, <1>6, <1>12, <2>1, <2>2 DEF Process, Interrupted, InSystemCall, Away
<1>13. /\ on' = on /\ chosen' = chosen /\ beats' = beats
       /\ on[c] \in Users => s \in OfProcess /\ state'[on[c]] = "RUNNING"
       /\ on[c] \notin Users => s \in {"loop", "scan"} \cup Traps /\ s \notin Traps
  BY <1>2, <1>3, <1>5
<1> DEFINE H == {}
<1>14. H = {} /\ \A l \in Locks : holder'[l] = c <=> l \in H
  BY <1>11
<1>15. pc' = [pc EXCEPT ![on[c]] = s]
  BY <1>3
<1> HIDE DEF H
<1>16. QED
  BY <1>5, <1>7, <1>8, <1>9, <1>10, <1>11, <1>12, <1>13, <1>14, <1>15, SameStack

\* A CPU that listens is where it may be interrupted.
LEMMA InterruptKeeps ==
  ASSUME TicksAssumption, TicksInv, NEW c \in Cpus, Interrupt(c)
  PROVE  TicksInv' /\ Alone(c) /\ Gentle(c)
<1> DEFINE t == on[c]
           s == IF c = 0 THEN "clock" ELSE "ack"
<1>1. /\ cpu[c].sie /\ (c = 0 => beats < MaxTicks)
      /\ cpu' = [cpu EXCEPT ![c].sie = FALSE] /\ pc' = [pc EXCEPT ![t] = s]
      /\ back' = [back EXCEPT ![t] = pc[t]]
      /\ UNCHANGED <<holder, on, next, chosen, state, killed, queued, saved>>
      /\ UNCHANGED <<ticks, beats, ticks0, since, script>>
  BY DEF Interrupt, Goto, procs, clock, sleeps
<1>2. /\ t \in Threads /\ pc[t] = At(c) /\ Bits(c) /\ OnStack(c)
      /\ t \in Users => state[t] = "RUNNING" /\ Process(t)
      /\ beats \in 0..MaxTicks
  BY Threaded DEF TicksInv, TypeOK, At, OnStack
<1>3. cpu[c].noff = 0 /\ ~cpu[c].spins /\ At(c) \notin Handler \cup Keeping
  BY <1>1, <1>2 DEF Bits, Count
<1>4. /\ t \in Users => At(c) \in Interrupted
      /\ t \notin Users => At(c) \in {"loop", "scan"}
  BY <1>2, <1>3, Threaded DEF OnStack, OfProcess, OfScheduler, Traps, Handler, Keeping, Away, Interrupted
<1>5. /\ Kept(c) /\ cpu'[c].noff = cpu[c].noff /\ (cpu'[c].sie <=> FALSE)
      /\ (cpu'[c].spins <=> cpu[c].spins) /\ (cpu'[c].intena <=> cpu[c].intena)
  BY <1>1, SieSet
<1>6. /\ s \notin {"park", "wake"} \cup Away /\ s # "wake" /\ s \in Handler /\ s \in {"clock", "ack"}
      /\ s \in OfProcess /\ s \in Traps /\ (s = "clock" => c = 0 /\ beats < MaxTicks)
  BY <1>1 DEF OfProcess, Away, Traps, Handler
<1> HIDE DEF s
<1>7. Alone(c)
  <2>1. \A p \in Threads : p # on[c] => pc'[p] = pc[p] /\ back'[p] = back[p]
    BY <1>1 DEF TypeOK, TicksInv
  <2>2. QED
    BY <1>1, <1>5, <2>1 DEF Alone, Kept
<1>8. Gentle(c)
  BY <1>1, <1>2 DEF Gentle, Process, TicksInv
<1>9. TypeOK'
  BY <1>1, <1>2, <1>4, <1>5, <1>6
     DEF Kept, CpuRecords, TypeOK, TicksInv, Interrupted, InSystemCall
<1>10. At(c)' = s => Bits(c)'
  BY <1>3, <1>5, <1>6 DEF Bits, Count, Keeping, Away, Handler, InSystemCall
<1>11. /\ \A l \in Locks : holder'[l] = c <=> l \in {}
       /\ \A l \in Locks, d \in Cpus : d # c => (holder'[l] = d <=> holder[l] = d)
  BY <1>1, <1>3, NoLocks
<1>12. ASSUME NEW q \in Users, q = on[c] PROVE Process(q)'
  <2>1. pc'[q] = s /\ back'[q] = pc[q]
    BY <1>1, <1>2, <1>12 DEF TypeOK, TicksInv
  <2>2. CallStep(q)' = CallStep(q)
    BY <1>2, <1>3, <1>6, <1>12, <2>1 DEF CallStep
  <2>3. QED
    BY <1>1, <1>2, <1>4, <1>6, <1>12, <2>1, <2>2 DEF Process, Interrupted, InSystemCall, Away
<1>13. /\ on' = on /\ chosen' = chosen /\ beats' = beats
       /\ on[c] \in Users => s \in OfProcess /\ state'[on[c]] = "RUNNING"
       /\ on[c] \notin Users => s \in {"loop", "scan"} \cup Traps /\ back'[on[c]] \in {"loop", "scan"}
  BY <1>1, <1>2, <1>4, <1>6 DEF TicksInv, TypeOK
<1> DEFINE H == {}
<1>14. H = {} /\ \A l \in Locks : holder'[l] = c <=> l \in H
  BY <1>11
<1>15. pc' = [pc EXCEPT ![on[c]] = s]
  BY <1>1
<1> HIDE DEF H
<1>16. QED
  BY <1>6, <1>7, <1>8, <1>9, <1>10, <1>11, <1>12, <1>13, <1>14, <1>15, SameStack

LEMMA ResumeKeeps ==
  ASSUME TicksAssumption, TicksInv, NEW c \in Cpus, Resume(c)
  PROVE  TicksInv' /\ Alone(c) /\ Gentle(c)
<1> DEFINE t == on[c]
           s == IF pc[t] = "slept" THEN "resleep" ELSE "sret"
<1>1. At(c) \in {"slept", "yielded"}
  BY DEF Resume, At
<1>2. t \in Users /\ t \in Threads /\ pc[t] = At(c) /\ state[t] = "RUNNING" /\ Process(t) /\ Bits(c)
  BY <1>1, CallerAt DEF OfProcess, Away, Traps
<1>3. /\ pc' = [pc EXCEPT ![t] = s]
      /\ holder' = [holder EXCEPT ![Plock(t)] = None]
      /\ cpu' = [cpu EXCEPT ![c] = Popped([@ EXCEPT !.intena = saved[t]], 1)]
      /\ saved' = [saved EXCEPT ![t] = FALSE]
      /\ UNCHANGED <<on, next, chosen, back, state, killed, queued>>
      /\ UNCHANGED <<ticks, beats, ticks0, since, script>>
  BY DEF Resume, ReleaseOnly, AfterSched, Goto, procs, clock, sleeps
<1>4. Held(c) = {Plock(t)} /\ Count(c) = 1 /\ saved[t] \in BOOLEAN
      /\ (At(c) = "slept" <=> saved[t])
  <2>1. ~cpu[c].spins
    BY <1>1, <1>2 DEF Bits, Acquiring
  <2>2. Held(c) = {Plock(t)}
    BY <1>1, HeldOnce DEF Away
  <2>3. saved[t] \in BOOLEAN
    BY <1>2 DEF TicksInv, TypeOK
  <2>4. QED
    BY <1>1, <1>2, <2>1, <2>2, <2>3 DEF Count, Keeping, Away, Process
<1>5. /\ holder' \in [Locks -> Cpus \cup {None}]
      /\ \A k \in Locks : holder'[k] # c
      /\ \A k \in Locks, d \in Cpus : d # c => (holder'[k] = d <=> holder[k] = d)
  <2>1. Plock(t) \in Locks
    BY <1>2, Distinct
  <2>2. QED
    BY <1>3, <1>4, <2>1, ReleaseEffect
<1>6. /\ cpu' \in [Cpus -> CpuRecords]
      /\ \A d \in Cpus : d # c => cpu'[d] = cpu[d]
      /\ cpu'[c].noff = 0 /\ ~cpu'[c].spins /\ (cpu'[c].sie <=> saved[t])
  BY <1>3, <1>4, ReleaseBits
<1>7. /\ s \notin {"park", "wake"} \cup Away /\ s # "wake" /\ s # "clock" /\ s \in OfProcess
      /\ s \in {"resleep", "sret"} /\ (s = "resleep" <=> At(c) = "slept")
  BY <1>1, <1>2 DEF OfProcess, Away, Traps, InSystemCall
<1> HIDE DEF s
<1>8. Alone(c)
  <2>1. \A p \in Threads : p # on[c] => pc'[p] = pc[p]
    BY <1>3 DEF TypeOK, TicksInv
  <2>2. \A p \in Users : p # on[c] => saved'[p] = saved[p]
    BY <1>3 DEF TypeOK, TicksInv
  <2>3. QED
    BY <1>3, <1>6, <2>1, <2>2 DEF Alone
<1>9. Gentle(c)
  BY <1>2, <1>3 DEF Gentle, Process, TicksInv
<1>10. TypeOK'
  BY <1>2, <1>3, <1>5, <1>6, <1>7 DEF CpuRecords, TypeOK, TicksInv, Acquiring, Handler
<1>11. At(c)' = s => Bits(c)'
  BY <1>4, <1>6, <1>7 DEF Bits, Count, Keeping, Away, Handler, InSystemCall
<1>12. ASSUME NEW q \in Users, q = on[c] PROVE Process(q)'
  <2>1. pc'[q] = s /\ pc[q] = At(c)
    BY <1>2, <1>3, <1>12 DEF TypeOK, TicksInv
  <2>2. \/ CallStep(q)' = "resleep" /\ CallStep(q) = "slept"
        \/ CallStep(q)' = back[q] /\ CallStep(q) = back[q]
    BY <1>1, <1>3, <1>7, <2>1 DEF CallStep, Handler
  <2>3. QED
    BY <1>2, <1>3, <1>7, <1>12, <2>1, <2>2 DEF Process, InSystemCall, Away
<1>13. /\ on' = on /\ chosen' = chosen /\ beats' = beats
       /\ on[c] \in Users /\ state'[on[c]] = "RUNNING"
  BY <1>2, <1>3
<1> DEFINE H == {}
<1>14. H = {} /\ \A l \in Locks : holder'[l] = c <=> l \in H
  BY <1>5
<1>15. pc' = [pc EXCEPT ![on[c]] = s]
  BY <1>3
<1> HIDE DEF H
<1>16. QED
  BY <1>5, <1>7, <1>8, <1>9, <1>10, <1>11, <1>12, <1>13, <1>14, <1>15, SameStack

LEMMA ForkRetKeeps ==
  ASSUME TicksAssumption, TicksInv, NEW c \in Cpus, ForkRet(c)
  PROVE  TicksInv' /\ Alone(c) /\ Gentle(c)
<1> DEFINE t == on[c]
<1>1. At(c) = "forkret"
  BY DEF ForkRet, At
<1>2. t \in Users /\ t \in Threads /\ pc[t] = At(c) /\ state[t] = "RUNNING" /\ Process(t) /\ Bits(c)
  BY <1>1, CallerAt DEF OfProcess, Away, Traps
<1>3. /\ pc' = [pc EXCEPT ![t] = "user"]
      /\ holder' = [holder EXCEPT ![Plock(t)] = None]
      /\ cpu' = [cpu EXCEPT ![c] = [Popped(cpu[c], 1) EXCEPT !.sie = TRUE]]
      /\ UNCHANGED <<on, next, chosen, back, state, killed, queued, saved>>
      /\ UNCHANGED <<ticks, beats, ticks0, since, script>>
  BY DEF ForkRet, Goto, procs, clock, sleeps
<1>4. Held(c) = {Plock(t)} /\ Count(c) = 1
  <2>1. ~cpu[c].spins
    BY <1>1, <1>2 DEF Bits, Acquiring
  <2>2. QED
    BY <1>1, <2>1, HeldOnce DEF Away, Count, Keeping
<1>5. /\ holder' \in [Locks -> Cpus \cup {None}]
      /\ \A k \in Locks : holder'[k] # c
      /\ \A k \in Locks, d \in Cpus : d # c => (holder'[k] = d <=> holder[k] = d)
  <2>1. Plock(t) \in Locks
    BY <1>2, Distinct
  <2>2. QED
    BY <1>3, <1>4, <2>1, ReleaseEffect
<1>6. /\ cpu' \in [Cpus -> CpuRecords]
      /\ \A d \in Cpus : d # c => cpu'[d] = cpu[d]
      /\ cpu'[c].noff = 0 /\ ~cpu'[c].spins /\ cpu'[c].sie
  <2> DEFINE r == Popped(cpu[c], 1)
  <2>1. cpu \in [Cpus -> CpuRecords] /\ cpu[c] \in CpuRecords /\ cpu[c].noff = 1 /\ 1 \in 0..2
        /\ 1 <= cpu[c].noff
    BY <1>2, <1>4 DEF TicksInv, TypeOK, CpuRecords, Bits
  <2>2. r \in CpuRecords /\ r.noff = cpu[c].noff - 1 /\ r.spins = FALSE
    BY <2>1, PoppedFields
  <2> HIDE DEF r
  <2>3. [r EXCEPT !.sie = TRUE] \in CpuRecords /\ [r EXCEPT !.sie = TRUE].sie = TRUE
        /\ [r EXCEPT !.sie = TRUE].noff = r.noff /\ [r EXCEPT !.sie = TRUE].spins = FALSE
    BY <2>2 DEF CpuRecords
  <2>4. cpu' = [cpu EXCEPT ![c] = [r EXCEPT !.sie = TRUE]]
    BY <1>3 DEF r
  <2>5. cpu'[c] = [r EXCEPT !.sie = TRUE] /\ cpu' \in [Cpus -> CpuRecords]
        /\ \A d \in Cpus : d # c => cpu'[d] = cpu[d]
    BY <2>1, <2>3, <2>4
  <2>6. cpu'[c].noff = 0 /\ ~cpu'[c].spins /\ cpu'[c].sie
    BY <2>1, <2>2, <2>3, <2>5
  <2>7. QED
    BY <2>5, <2>6
<1>7. Alone(c)
  BY <1>3, <1>6, AloneOf
<1>8. Gentle(c)
  BY <1>2, <1>3 DEF Gentle, Process, TicksInv
<1>9. TypeOK'
  BY <1>2, <1>3, <1>5, <1>6 DEF CpuRecords, TypeOK, TicksInv
<1>10. At(c)' = "user" => Bits(c)'
  BY <1>6 DEF Bits, Count, Keeping, Away, Handler, InSystemCall
<1>11. ASSUME NEW q \in Users, q = on[c] PROVE Process(q)'
  <2>1. pc'[q] = "user"
    BY <1>2, <1>3, <1>11 DEF TypeOK, TicksInv
  <2>2. CallStep(q)' = "user"
    BY <2>1 DEF CallStep, Handler
  <2>3. QED
    BY <1>2, <1>3, <1>11, <2>1, <2>2 DEF Process, InSystemCall, Away
<1> DEFINE s == "user" H == {}
<1>12. /\ s \notin {"park", "wake"} \cup Away /\ s # "wake" /\ s # "clock" /\ s \in OfProcess
       /\ H = {} /\ (At(c)' = s => Bits(c)') /\ pc' = [pc EXCEPT ![on[c]] = s]
  BY <1>3, <1>10 DEF Away, OfProcess
<1>13. /\ on' = on /\ chosen' = chosen /\ beats' = beats
       /\ on[c] \in Users /\ state'[on[c]] = "RUNNING"
  BY <1>2, <1>3
<1>14. \A l \in Locks : holder'[l] = c <=> l \in H
  BY <1>5
<1> HIDE DEF s, H
<1>15. QED
  BY <1>5, <1>7, <1>8, <1>9, <1>11, <1>12, <1>13, <1>14, SameStack

-----------------------------------------------------------------------------
(* Steps between the stacks *)

\* The scheduler takes a process out of the queues, or finds none.
LEMMA ScanKeeps ==
  ASSUME TicksAssumption, TicksInv, NEW c \in Cpus, Scan(c)
  PROVE  TicksInv' /\ Alone(c) /\ Gentle(c)
<1>1. At(c) = "scan"
  BY DEF Scan, At
<1>2. /\ on[c] = Scheduler(c) /\ on[c] \notin Users /\ on[c] \in Threads /\ pc[on[c]] = At(c) /\ Bits(c)
  BY <1>1, SchedulerAt DEF OfScheduler, Traps
<1>3. /\ \/ /\ TakeAndRelease(c, {QueueLock}) /\ pc' = [pc EXCEPT ![on[c]] = "loop"]
            /\ chosen' = chosen /\ queued' = queued
         \/ \E p \in queued :
              /\ TakeAndRelease(c, {}) /\ pc' = [pc EXCEPT ![on[c]] = "pick"]
              /\ chosen' = [chosen EXCEPT ![c] = p]
              /\ queued' = queued \ {p}
      /\ UNCHANGED <<on, next, back, state, killed, saved, ticks, beats, ticks0, since, script>>
  BY DEF Scan, Goto, clock, sleeps
<1>4. Held(c) = {} /\ LockAt(c) = QueueLock
  BY <1>1 DEF Held, LockAt, At, Away
<1>5. cpu[c].spins
  BY <1>3 DEF TakeAndRelease
<1>6. Count(c) = 1 /\ 1 <= Count(c)
  BY <1>1, <1>5 DEF Count, Keeping, Away
<1>7. CASE /\ TakeAndRelease(c, {QueueLock}) /\ pc' = [pc EXCEPT ![on[c]] = "loop"]
           /\ chosen' = chosen /\ queued' = queued
  <2>1. /\ holder' \in [Locks -> Cpus \cup {None}]
        /\ \A l \in Locks : holder'[l] = c <=> l \in {}
        /\ \A l \in Locks, d \in Cpus : d # c => (holder'[l] = d <=> holder[l] = d)
    BY <1>4, <1>7, TakeEffect, Distinct
  <2>2. /\ Kept(c) /\ cpu'[c].noff = Count(c) - 1 /\ cpu'[c].intena = cpu[c].intena
        /\ ~cpu'[c].spins /\ (cpu'[c].sie <=> Count(c) = 1 /\ cpu[c].intena)
    BY <1>6, <1>7, TakeOne
  <2>3. Alone(c)
    BY <1>3, <1>7, <2>2, AloneOf DEF Kept
  <2>4. Gentle(c) /\ TypeOK'
    BY <1>2, <1>3, <1>7, <2>1, <2>2 DEF Gentle, Process, TypeOK, TicksInv, CpuRecords, Kept
  <2>5. At(c)' = "loop" => Bits(c)'
    BY <1>6, <2>2 DEF Bits, Count, Keeping, Away, Handler, InSystemCall, Acquiring
  <2> DEFINE s == "loop" H == {}
  <2>6. /\ s \in {"loop", "scan"} /\ s \notin Traps /\ s \notin {"park", "wake"} \cup Away
        /\ s # "wake" /\ H = {} /\ s # "clock" /\ pc' = [pc EXCEPT ![on[c]] = s]
        /\ (At(c)' = s => Bits(c)')
    BY <1>7, <2>5 DEF Traps, Away
  <2>7. /\ on[c] \notin Users /\ on' = on /\ chosen' = chosen /\ beats' = beats
        /\ \A p \in Users : p = on[c] => Process(p)'
    BY <1>2, <1>3, <1>7
  <2>8. \A l \in Locks : holder'[l] = c <=> l \in H
    BY <2>1
  <2> HIDE DEF s, H
  <2>9. QED
    BY <2>1, <2>3, <2>4, <2>6, <2>7, <2>8, SameStack
<1>8. ASSUME NEW p \in queued, TakeAndRelease(c, {}), pc' = [pc EXCEPT ![on[c]] = "pick"],
             chosen' = [chosen EXCEPT ![c] = p], queued' = queued \ {p}
      PROVE  TicksInv' /\ Alone(c) /\ Gentle(c)
  <2>1. /\ holder' \in [Locks -> Cpus \cup {None}]
        /\ \A l \in Locks : holder'[l] = c <=> l \in {QueueLock}
        /\ \A l \in Locks, d \in Cpus : d # c => (holder'[l] = d <=> holder[l] = d)
    BY <1>4, <1>8, TakeEffect, Distinct
  <2>2. /\ Kept(c) /\ cpu'[c].noff = Count(c) /\ cpu'[c].intena = cpu[c].intena
        /\ ~cpu'[c].spins /\ ~cpu'[c].sie
    BY <1>8, TakeNone
  <2>3. /\ p \in Users /\ state[p] = "RUNNABLE" /\ p \in 0..NPROC
        /\ chosen'[c] = p /\ \A d \in Cpus : d # c => chosen'[d] = chosen[d]
    BY <1>8, Threaded DEF TicksInv, TypeOK, Process, Users
  <2>4. pc'[on[c]] = "pick" /\ \A t \in Threads : t # on[c] => pc'[t] = pc[t]
    BY <1>2, <1>8 DEF TicksInv, TypeOK
  <2>5. Alone(c)
    BY <1>3, <2>2, <2>3, <2>4 DEF Alone, Kept
  <2>6. Gentle(c)
    BY <1>2, <1>3, <1>8 DEF Gentle, Process, TicksInv
  <2>7. TypeOK'
    BY <1>2, <1>3, <1>8, <2>1, <2>2, <2>3 DEF TypeOK, TicksInv, CpuRecords, Kept, Acquiring
  <2>8. At(c)' = "pick" /\ on'[c] = on[c]
    BY <1>3, <2>4 DEF At
  <2>9. OnStack(c)' /\ Held(c)' = {QueueLock}
    BY <1>2, <1>3, <1>8, <2>3, <2>4, <2>8 DEF OnStack, Held, OfScheduler, Handler, Away
  <2>10. Bits(c)'
    BY <1>6, <2>2, <2>8 DEF Bits, Count, Keeping, Acquiring, Handler, InSystemCall
  <2>11. \A l \in Locks : holder'[l] = c <=> l \in Held(c)'
    BY <2>1, <2>9
  <2>12. /\ chosen'[c] \in queued /\ beats' = beats /\ At(c)' # "clock"
         /\ \A q \in Users : q = on[c] => Process(q)'
    BY <1>2, <1>3, <1>8, <2>3, <2>8
  <2>13. QED
    BY <2>1, <2>5, <2>6, <2>7, <2>8, <2>9, <2>10, <2>11, <2>12, Combined
<1>9. QED
  BY <1>3, <1>7, <1>8

\* It switches to the process, which goes on inside sched() or forkret().
LEMMA DispatchKeeps ==
  ASSUME TicksAssumption, TicksInv, NEW c \in Cpus, Dispatch(c)
  PROVE  TicksInv' /\ Alone(c) /\ Gentle(c)
<1> DEFINE p == chosen[c]
<1>1. At(c) = "pick"
  BY DEF Dispatch, At
<1>2. /\ on[c] = Scheduler(c) /\ on[c] \notin Users /\ on[c] \in Threads /\ pc[on[c]] = At(c) /\ Bits(c)
      /\ p \in Users /\ state[p] = "RUNNABLE" /\ p \notin queued
  BY <1>1, SchedulerAt DEF OfScheduler, Traps
<1>3. /\ TakeAndRelease(c, {QueueLock}) /\ pc' = [pc EXCEPT ![on[c]] = "running"]
      /\ state' = [state EXCEPT ![p] = "RUNNING"] /\ on' = [on EXCEPT ![c] = p]
      /\ UNCHANGED <<next, chosen, back, killed, queued, saved, ticks, beats, ticks0, since, script>>
  BY DEF Dispatch, Goto, clock, sleeps
<1>4. Held(c) = {QueueLock} /\ LockAt(c) = Plock(p)
  BY <1>1 DEF Held, LockAt, At, Away
<1>5. Count(c) = 2 /\ 1 <= Count(c)
  <2>1. cpu[c].spins
    BY <1>3 DEF TakeAndRelease
  <2>2. QED
    BY <1>1, <2>1 DEF Count, Keeping
<1>6. /\ holder' \in [Locks -> Cpus \cup {None}]
      /\ \A l \in Locks : holder'[l] = c <=> l \in {Plock(p)}
      /\ \A l \in Locks, d \in Cpus : d # c => (holder'[l] = d <=> holder[l] = d)
  BY <1>3, <1>4, TakeEffect, Distinct
<1>7. /\ Kept(c) /\ cpu'[c].noff = Count(c) - 1 /\ cpu'[c].intena = cpu[c].intena
      /\ ~cpu'[c].spins /\ (cpu'[c].sie <=> Count(c) = 1 /\ cpu[c].intena)
  BY <1>3, <1>5, TakeOne
<1>8. pc'[Scheduler(c)] = "running" /\ \A t \in Threads : t # on[c] => pc'[t] = pc[t]
  BY <1>2, <1>3 DEF TicksInv, TypeOK
<1>9. p \in Threads /\ p # on[c] /\ pc[p] \in Away /\ pc'[p] = pc[p]
  BY <1>2, <1>8, Threaded DEF TicksInv, Process
<1>10. on'[c] = p /\ At(c)' = pc[p]
  BY <1>3, <1>9 DEF At, TicksInv, TypeOK
<1>11. Alone(c)
  BY <1>3, <1>7, <1>8 DEF Alone, Kept
<1>12. Gentle(c)
  BY <1>1, <1>2, <1>3 DEF Gentle, Process, TicksInv, TypeOK
<1>13. TypeOK'
  BY <1>2, <1>3, <1>6, <1>7, <1>9 DEF TypeOK, TicksInv, CpuRecords, Kept
<1>14. OnStack(c)' /\ Held(c)' = {Plock(p)}
  <2>1. state'[p] = "RUNNING"
    BY <1>2, <1>3 DEF TypeOK, TicksInv
  <2>2. QED
    BY <1>2, <1>3, <1>8, <1>9, <1>10, <2>1 DEF OnStack, Held, OfProcess, Away, Handler
<1>15. Bits(c)'
  BY <1>5, <1>7, <1>9, <1>10 DEF Bits, Count, Keeping, Away, Acquiring, Handler, InSystemCall
<1>16. \A l \in Locks : holder'[l] = c <=> l \in Held(c)'
  BY <1>6, <1>14
<1>17. /\ pc'[Scheduler(c)] # "pick" /\ beats' = beats /\ At(c)' # "clock" /\ on'[c] = chosen[c]
       /\ \A q \in Users : q = on[c] => Process(q)'
  BY <1>2, <1>3, <1>8, <1>9, <1>10 DEF Away
<1>18. QED
  BY <1>1, <1>6, <1>11, <1>12, <1>13, <1>14, <1>15, <1>16, <1>17, Combined

LEMMA ReturnedKeeps ==
  ASSUME TicksAssumption, TicksInv, NEW c \in Cpus, Returned(c)
  PROVE  TicksInv' /\ Alone(c) /\ Gentle(c)
<1> DEFINE p == chosen[c]
<1>1. At(c) = "running"
  BY DEF Returned, At
<1>2. /\ on[c] = Scheduler(c) /\ on[c] \notin Users /\ on[c] \in Threads /\ pc[on[c]] = At(c) /\ Bits(c)
      /\ p \in Users
  BY <1>1, SchedulerAt DEF OfScheduler, Traps
<1>3. /\ pc' = [pc EXCEPT ![on[c]] = "loop"] /\ chosen' = [chosen EXCEPT ![c] = 0]
      /\ holder' = [holder EXCEPT ![Plock(p)] = None]
      /\ cpu' = [cpu EXCEPT ![c] = Popped([@ EXCEPT !.intena = cpu[c].intena], 1)]
      /\ UNCHANGED <<on, next, back, state, killed, queued, saved>>
      /\ UNCHANGED <<ticks, beats, ticks0, since, script>>
  BY DEF Returned, ReleaseOnly, Goto, procs, clock, sleeps
<1>4. Held(c) = {Plock(p)} /\ Count(c) = 1 /\ cpu[c].intena \in BOOLEAN
  <2>1. ~cpu[c].spins
    BY <1>1, <1>2 DEF Bits, Acquiring
  <2>2. QED
    BY <1>1, <2>1, HeldOnce DEF Count, Keeping, TicksInv, TypeOK
<1>5. /\ holder' \in [Locks -> Cpus \cup {None}]
      /\ \A k \in Locks : holder'[k] # c
      /\ \A k \in Locks, d \in Cpus : d # c => (holder'[k] = d <=> holder[k] = d)
  <2>1. Plock(p) \in Locks
    BY <1>2, Distinct
  <2>2. QED
    BY <1>3, <1>4, <2>1, ReleaseEffect
<1>6. /\ cpu' \in [Cpus -> CpuRecords]
      /\ \A d \in Cpus : d # c => cpu'[d] = cpu[d]
      /\ cpu'[c].noff = 0 /\ ~cpu'[c].spins
  BY <1>3, <1>4, ReleaseBits
<1>7. /\ pc'[Scheduler(c)] = "loop" /\ \A t \in Threads : t # on[c] => pc'[t] = pc[t]
      /\ \A d \in Cpus : d # c => chosen'[d] = chosen[d]
  BY <1>2, <1>3 DEF TicksInv, TypeOK
<1>8. Alone(c)
  BY <1>3, <1>6, <1>7 DEF Alone
<1>9. Gentle(c)
  BY <1>2, <1>3 DEF Gentle, Process, TicksInv
<1>10. TypeOK'
  BY <1>2, <1>3, <1>5, <1>6, Threaded DEF TypeOK, TicksInv, CpuRecords
<1>11. At(c)' = "loop" /\ on'[c] = on[c]
  BY <1>2, <1>3, <1>7 DEF At
<1>12. OnStack(c)' /\ Held(c)' = {}
  BY <1>2, <1>3, <1>7, <1>11 DEF OnStack, Held, OfScheduler, Handler, Away
<1>13. Bits(c)'
  BY <1>6, <1>11 DEF Bits, Count, Keeping, Away, Acquiring, Handler, InSystemCall
<1>14. \A l \in Locks : holder'[l] = c <=> l \in Held(c)'
  BY <1>5, <1>12
<1>15. /\ pc'[Scheduler(c)] # "pick" /\ beats' = beats /\ At(c)' # "clock"
       /\ \A q \in Users : q = on[c] => Process(q)'
  BY <1>2, <1>3, <1>7, <1>11
<1>16. QED
  BY <1>5, <1>8, <1>9, <1>10, <1>11, <1>12, <1>13, <1>14, <1>15, Combined

\* sched(): the process keeps its lock for the scheduler, and intena.
LEMMA LeaveKeeps ==
  ASSUME TicksAssumption, TicksInv, NEW c \in Cpus, Park(c) \/ Exit(c) \/ Yield(c)
  PROVE  TicksInv' /\ Alone(c) /\ Gentle(c)
<1> DEFINE p == on[c]
<1>1. At(c) \in {"park", "exit", "yield"}
  BY DEF Park, Exit, Yield, At
<1>2. /\ p \in Users /\ p \in Threads /\ pc[p] = At(c) /\ state[p] = "RUNNING" /\ chosen[c] = p
      /\ Process(p) /\ Bits(c)
  BY <1>1, CallerAt DEF OfProcess, Traps
<1>3. PICK L \in {{}, {TicksLock}}, st \in {"SLEEPING", "ZOMBIE", "RUNNABLE"},
           step \in {"slept", "zombie", "yielded"} :
        /\ TakeAndRelease(c, L) /\ pc' = [pc EXCEPT ![p] = step]
        /\ state' = [state EXCEPT ![p] = st] /\ saved' = [saved EXCEPT ![p] = cpu[c].intena]
        /\ on' = [on EXCEPT ![c] = Scheduler(c)]
        /\ UNCHANGED <<chosen, next, back, killed, ticks, beats, ticks0, since, script>>
        /\ \/ At(c) = "park" /\ L = {TicksLock} /\ st = "SLEEPING" /\ step = "slept" /\ queued' = queued
           \/ At(c) = "exit" /\ L = {} /\ st = "ZOMBIE" /\ step = "zombie" /\ queued' = queued
           \/ At(c) = "yield" /\ L = {} /\ st = "RUNNABLE" /\ step = "yielded"
                /\ queued' = queued \cup {p}
  <2>1. CASE Park(c)
    BY <2>1 DEF Park, Leave, Goto, At, clock, sleeps
  <2>2. CASE Exit(c)
    BY <2>2 DEF Exit, Leave, Goto, At, clock, sleeps
  <2>3. CASE Yield(c)
    BY <2>3 DEF Yield, Leave, Goto, At, clock, sleeps
  <2>4. QED
    BY <2>1, <2>2, <2>3
<1>4. Held(c) = L /\ LockAt(c) = Plock(p)
  BY <1>1, <1>3 DEF Held, LockAt, At, Away
<1>5. cpu[c].spins /\ cpu[c].intena \in BOOLEAN
  BY <1>3 DEF TakeAndRelease, TicksInv, TypeOK
<1>6. /\ holder' \in [Locks -> Cpus \cup {None}]
      /\ \A l \in Locks : holder'[l] = c <=> l \in {Plock(p)}
      /\ \A l \in Locks, d \in Cpus : d # c => (holder'[l] = d <=> holder[l] = d)
  <2>1. L \in SUBSET Locks /\ Plock(p) \notin L
    BY Distinct
  <2>2. QED
    BY <1>3, <1>4, <2>1, TakeEffect
<1>7. /\ Kept(c) /\ cpu'[c].noff = 1 /\ ~cpu'[c].spins /\ ~cpu'[c].sie
  <2>1. CASE L = {}
    <3>1. Count(c) = 1
      BY <1>1, <1>3, <1>5, <2>1 DEF Count, Keeping, Away
    <3>2. /\ Kept(c) /\ cpu'[c].noff = Count(c) /\ cpu'[c].intena = cpu[c].intena
          /\ ~cpu'[c].spins /\ ~cpu'[c].sie
      BY <1>3, <2>1, TakeNone
    <3>3. QED
      BY <3>1, <3>2
  <2>2. CASE L = {TicksLock}
    <3>1. Count(c) = 2 /\ 1 <= Count(c)
      BY <1>1, <1>3, <1>5, <2>2 DEF Count, Keeping, Away
    <3>2. /\ Kept(c) /\ cpu'[c].noff = Count(c) - 1 /\ cpu'[c].intena = cpu[c].intena
          /\ ~cpu'[c].spins /\ (cpu'[c].sie <=> Count(c) = 1 /\ cpu[c].intena)
      BY <1>3, <2>2, <3>1, TakeOne
    <3>3. QED
      BY <3>1, <3>2
  <2>3. QED
    BY <2>1, <2>2
<1>8. /\ pc'[p] = step /\ \A t \in Threads : t # on[c] => pc'[t] = pc[t]
      /\ \A q \in Users : q # p => state'[q] = state[q] /\ saved'[q] = saved[q]
      /\ state'[p] = st /\ saved'[p] = cpu[c].intena
      /\ on'[c] = Scheduler(c) /\ \A d \in Cpus : d # c => on'[d] = on[d]
  BY <1>2, <1>3 DEF TicksInv, TypeOK
<1>9. pc[Scheduler(c)] = "running" /\ pc'[Scheduler(c)] = "running" /\ At(c)' = "running"
  <2>1. OnStack(c) /\ Scheduler(c) \in Threads /\ Scheduler(c) # p
    BY <1>2, Threaded DEF TicksInv
  <2>2. QED
    BY <1>2, <1>8, <2>1 DEF OnStack, At
<1>10. Alone(c)
  BY <1>3, <1>7, <1>8 DEF Alone, Kept
<1>11. Gentle(c)
  <2>1. ASSUME NEW q \in Users, q \in queued' PROVE state'[q] = "RUNNABLE"
    BY <1>2, <1>3, <1>8, <2>1 DEF TicksInv, Process
  <2>2. ASSUME NEW q \in Users, state[q] = "RUNNABLE", q \notin queued PROVE q \notin queued' /\ q # p
    BY <1>2, <1>3, <2>2
  <2>3. QED
    BY <1>8, <2>1, <2>2 DEF Gentle
<1>12. TypeOK'
  <2>1. /\ on' \in [Cpus -> Threads] /\ saved' \in [Users -> BOOLEAN] /\ queued' \subseteq Users
        /\ state' \in [Users -> {"RUNNABLE", "RUNNING", "SLEEPING", "ZOMBIE"}]
    BY <1>2, <1>3, <1>5, Threaded DEF TypeOK, TicksInv
  <2>2. pc' \in [Threads -> Acquiring \cup Handler
                          \cup {"user", "forkret", "slept", "done", "zombie", "loop", "running"}]
    BY <1>2, <1>3 DEF TypeOK, TicksInv, Handler
  <2>3. QED
    BY <1>3, <1>6, <1>7, <2>1, <2>2 DEF TypeOK, TicksInv, CpuRecords, Kept
<1>13. OnStack(c)' /\ Held(c)' = {Plock(p)}
  BY <1>2, <1>3, <1>8, <1>9 DEF OnStack, Held, OfScheduler, Handler, Away
<1>14. Bits(c)'
  BY <1>7, <1>9 DEF Bits, Count, Keeping, Away, Acquiring, Handler, InSystemCall
<1>15. \A l \in Locks : holder'[l] = c <=> l \in Held(c)'
  BY <1>6, <1>13
<1>16. ASSUME NEW q \in Users, q = on[c] PROVE Process(q)'
  <2>1. pc[q] = At(c) /\ pc'[q] = step /\ back'[q] = back[q] /\ script'[q] = script[q]
        /\ state'[q] = st /\ saved'[q] = cpu[c].intena /\ Process(q)
    BY <1>2, <1>3, <1>8, <1>16
  <2>2. step = "slept" => cpu[c].intena
    BY <1>2, <1>3 DEF Bits
  <2>3. step = "yielded" => ~cpu[c].intena
    <3>1. cpu[c].noff > 0
      BY <1>2, <1>5 DEF Bits, Count
    <3>2. QED
      BY <1>2, <1>3, <3>1 DEF Bits, Handler
  <2>4. CallStep(q)' = IF step = "yielded" THEN CallStep(q) ELSE step
    BY <1>3, <2>1 DEF CallStep, Handler
  <2>5. step = "slept" => script[q] # << >>
    BY <1>3, <2>1 DEF Process, CallStep, Handler
  <2>6. q \in queued' => st = "RUNNABLE"
    BY <1>2, <1>3, <2>1 DEF Process
  <2>7. QED
    BY <1>3, <2>1, <2>2, <2>3, <2>4, <2>5, <2>6 DEF Process, Away, InSystemCall
<1>17. /\ pc'[Scheduler(c)] # "pick" /\ beats' = beats /\ At(c)' # "clock"
       /\ \A q \in Users : q = on[c] => Process(q)'
  BY <1>3, <1>9, <1>16
<1>18. QED
  BY <1>6, <1>8, <1>10, <1>11, <1>12, <1>13, <1>14, <1>15, <1>17, Combined

-----------------------------------------------------------------------------
(* The interrupt of the clock *)

LEMMA LeastOf ==
  ASSUME NEW S \in SUBSET Nat, S # { }
  PROVE  \E x \in S : \A y \in S : x <= y
<1> DEFINE R == {ss \in Nat \X Nat : ss[1] < ss[2]}
<1>1. IsWellFoundedOn(R, Nat)
  BY NatLessThanWellFounded DEF OpToRel
<1>2. \A x, y \in Nat : <<x, y>> \in R <=> x < y
  OBVIOUS
<1> HIDE DEF R
<1>3. PICK x \in S : \A y \in S : ~(<<y, x>> \in R)
  BY <1>1, WFMin
<1>4. \A y \in S : x \in Nat /\ y \in Nat /\ ~(y < x)
  BY <1>2, <1>3
<1>5. QED
  BY <1>4

\* The next process of wakeup(), if there is one, is the least that follows.
LEMMA NextIs ==
  ASSUME TicksAssumption, NEW c \in Cpus, NEW q \in Nat
  PROVE  /\ NextOf(c, q) = 0 <=> Following(c, q) = {}
         /\ Following(c, q) # {} =>
              /\ NextOf(c, q) \in Following(c, q) /\ NextOf(c, q) \in Users
              /\ \A r \in Following(c, q) : NextOf(c, q) <= r
<1>1. Following(c, q) \in SUBSET Nat /\ Following(c, q) \subseteq Users
  BY Threaded DEF Following
<1>2. CASE Following(c, q) = {}
  BY <1>2 DEF NextOf
<1>3. CASE Following(c, q) # {}
  <2>1. \E p \in Following(c, q) : \A r \in Following(c, q) : p <= r
    BY <1>1, <1>3, LeastOf
  <2>2. /\ NextOf(c, q) \in Following(c, q)
        /\ \A r \in Following(c, q) : NextOf(c, q) <= r
    BY <1>3, <2>1 DEF NextOf
  <2>3. NextOf(c, q) # 0 /\ NextOf(c, q) \in Users
    BY <1>1, <2>2, Threaded
  <2>4. QED
    BY <1>3, <2>2, <2>3
<1>4. QED
  BY <1>2, <1>3

LEMMA ClockIntrKeeps ==
  ASSUME TicksAssumption, TicksInv, NEW c \in Cpus, ClockIntr(c)
  PROVE  TicksInv' /\ Alone(c) /\ Gentle(c)
<1> DEFINE t == on[c]
<1>1. At(c) = "clock"
  BY DEF ClockIntr, At
<1>2. /\ t \in Threads /\ pc[t] = At(c) /\ Bits(c)
      /\ t \in Users => state[t] = "RUNNING" /\ Process(t) /\ CallStep(t) = back[t]
      /\ t \notin Users => back[t] \in {"loop", "scan"}
  BY <1>1, HandlerAt DEF Traps
<1>3. /\ TakeAndRelease(c, {}) /\ pc' = [pc EXCEPT ![t] = "wake"]
      /\ ticks' = (ticks + 1) % WORD /\ beats' = beats + 1
      /\ next' = [next EXCEPT ![c] = NextOf(c, 0)]
      /\ UNCHANGED <<on, chosen, back, state, killed, queued, saved, ticks0, since, script>>
  BY DEF ClockIntr, Goto, procs, sleeps
<1>4. Held(c) = {} /\ LockAt(c) = TicksLock
  BY <1>1 DEF Held, LockAt, At, Away
<1>5. Count(c) = 1 /\ ~cpu[c].intena
  <2>1. cpu[c].spins
    BY <1>3 DEF TakeAndRelease
  <2>2. Count(c) = 1
    BY <1>1, <2>1 DEF Count, Keeping, Away
  <2>3. QED
    BY <1>1, <1>2, <2>2 DEF Bits, Handler
<1>6. /\ holder' \in [Locks -> Cpus \cup {None}]
      /\ \A l \in Locks : holder'[l] = c <=> l \in {TicksLock}
      /\ \A l \in Locks, d \in Cpus : d # c => (holder'[l] = d <=> holder[l] = d)
  BY <1>3, <1>4, TakeEffect, Distinct
<1>7. /\ Kept(c) /\ cpu'[c].noff = Count(c) /\ cpu'[c].intena = cpu[c].intena
      /\ ~cpu'[c].spins /\ ~cpu'[c].sie
  BY <1>3, TakeNone
<1>8. NextOf(c, 0) \in Users
  <2>1. 1 \in Users /\ 2 \in Users /\ 0 \in Nat
    BY DEF TicksAssumption, Users
  <2>2. 1 \in Following(c, 0) \/ 2 \in Following(c, 0)
    BY <2>1 DEF Following
  <2>3. QED
    BY <2>1, <2>2, NextIs
<1>9. next'[c] = NextOf(c, 0) /\ \A d \in Cpus : d # c => next'[d] = next[d]
  BY <1>3 DEF TicksInv, TypeOK
<1>10. Alone(c)
  <2>1. \A q \in Threads : q # on[c] => pc'[q] = pc[q]
    BY <1>3 DEF TicksInv, TypeOK
  <2>2. QED
    BY <1>3, <1>7, <1>9, <2>1 DEF Alone, Kept
<1>11. Gentle(c)
  BY <1>2, <1>3 DEF Gentle, Process, TicksInv
<1>12. TypeOK'
  <2>1. ticks' \in 0..(WORD - 1)
    BY <1>3 DEF TicksAssumption, TypeOK, TicksInv
  <2>2. beats' \in 0..MaxTicks
    BY <1>1, <1>3 DEF TicksAssumption, TypeOK, TicksInv, Beating
  <2>3. next' \in [Cpus -> 0..NPROC]
    BY <1>3, <1>8 DEF TypeOK, TicksInv, Users
  <2>4. pc' \in [Threads -> Acquiring \cup Handler
                          \cup {"user", "forkret", "slept", "done", "zombie", "loop", "running"}]
    BY <1>2, <1>3 DEF TypeOK, TicksInv, Handler
  <2>5. QED
    BY <1>3, <1>6, <1>7, <2>1, <2>2, <2>3, <2>4 DEF Kept, TypeOK, TicksInv, CpuRecords
<1>13. At(c)' = "wake" => Bits(c)'
  BY <1>5, <1>7 DEF Bits, Count, Keeping, Away, Handler, InSystemCall, Acquiring
<1>14. ASSUME NEW q \in Users, q = on[c] PROVE Process(q)'
  <2>1. pc'[q] = "wake"
    BY <1>2, <1>3, <1>14 DEF TypeOK, TicksInv
  <2>2. CallStep(q)' = CallStep(q)
    BY <1>2, <1>3, <1>14, <2>1 DEF CallStep, Handler
  <2>3. QED
    BY <1>2, <1>3, <1>14, <2>1, <2>2 DEF Process, InSystemCall, Away
<1> DEFINE s == "wake" H == {TicksLock}
<1>15. /\ s \in {"park", "wake"} /\ s \notin Away /\ H = {TicksLock} /\ s # "clock"
       /\ s \in OfProcess /\ s \in {"loop", "scan"} \cup Traps
       /\ (At(c)' = s => Bits(c)') /\ pc' = [pc EXCEPT ![on[c]] = s]
  BY <1>3, <1>13 DEF Traps, Away, OfProcess
<1>16. /\ on' = on /\ chosen' = chosen /\ next'[c] \in Users
       /\ on[c] \in Users => state'[on[c]] = "RUNNING"
       /\ on[c] \notin Users => back'[on[c]] \in {"loop", "scan"}
  BY <1>2, <1>3, <1>8, <1>9
<1>17. \A l \in Locks : holder'[l] = c <=> l \in H
  BY <1>6
<1> HIDE DEF s, H
<1>18. QED
  BY <1>1, <1>6, <1>10, <1>11, <1>12, <1>14, <1>15, <1>16, <1>17, SameStack

LEMMA WakeKeeps ==
  ASSUME TicksAssumption, TicksInv, NEW c \in Cpus, Wake(c)
  PROVE  TicksInv' /\ Alone(c) /\ Gentle(c)
<1> DEFINE t == on[c]
           p == next[c]
           q == NextOf(c, p)
           s == IF q = 0 THEN "ack" ELSE "wake"
           H == IF q = 0 THEN {} ELSE {TicksLock}
<1>1. At(c) = "wake"
  BY DEF Wake, At
<1>2. /\ t \in Threads /\ pc[t] = At(c) /\ Bits(c)
      /\ t \in Users => state[t] = "RUNNING" /\ Process(t) /\ CallStep(t) = back[t]
      /\ t \notin Users => back[t] \in {"loop", "scan"}
  BY <1>1, HandlerAt DEF Traps
<1>3. /\ TakeAndRelease(c, {Plock(p)} \cup (IF q = 0 THEN {TicksLock} ELSE {}))
      /\ pc' = [pc EXCEPT ![t] = s] /\ MakeRunnable(p)
      /\ next' = [next EXCEPT ![c] = q]
      /\ UNCHANGED <<on, chosen, back, killed, saved, ticks, beats, ticks0, since, script>>
  BY DEF Wake, Goto, clock, sleeps
<1>4. Held(c) = {TicksLock} /\ LockAt(c) = Plock(p)
  BY <1>1 DEF Held, LockAt, At, Away
<1>5. Count(c) = 2 /\ 1 <= Count(c) /\ 2 <= Count(c) /\ ~cpu[c].intena
  <2>1. cpu[c].spins
    BY <1>3 DEF TakeAndRelease
  <2>2. Count(c) = 2
    BY <1>1, <2>1 DEF Count, Keeping, Away
  <2>3. QED
    BY <1>1, <1>2, <2>2 DEF Bits, Handler
<1>6. p \in Users /\ p \in Nat
  BY <1>1, Threaded DEF TicksInv, OnStack
<1>7. q = 0 \/ q \in Users
  BY <1>6, NextIs
<1>8. /\ s \notin Away /\ s # "clock" /\ s \in OfProcess /\ s \in Traps /\ s \in {"ack", "wake"}
      /\ s \in {"park", "wake"} => H = {TicksLock}
      /\ s \notin {"park", "wake"} \cup Away => H = {}
      /\ (s = "wake" <=> q # 0) /\ (s = "wake" <=> TicksLock \in H)
  BY DEF Away, OfProcess, Traps
<1>9. /\ holder' \in [Locks -> Cpus \cup {None}]
      /\ \A l \in Locks : holder'[l] = c <=> l \in H
      /\ \A l \in Locks, d \in Cpus : d # c => (holder'[l] = d <=> holder[l] = d)
      /\ Kept(c) /\ ~cpu'[c].spins /\ ~cpu'[c].sie /\ cpu'[c].intena = cpu[c].intena
      /\ cpu'[c].noff = IF q = 0 THEN 0 ELSE 1
  <2>1. Plock(p) \in Locks /\ TicksLock \in Locks /\ Plock(p) # TicksLock
    BY <1>6, Distinct
  <2>2. CASE q = 0
    <3>1. TakeAndRelease(c, {Plock(p), TicksLock})
      <4>1. {Plock(p)} \cup {TicksLock} = {Plock(p), TicksLock}
        OBVIOUS
      <4>2. QED
        BY <1>3, <2>2, <4>1
    <3>2. /\ holder' \in [Locks -> Cpus \cup {None}]
          /\ \A l \in Locks : holder'[l] = c <=> l \in {}
          /\ \A l \in Locks, d \in Cpus : d # c => (holder'[l] = d <=> holder[l] = d)
      BY <1>4, <2>1, <3>1, TakeEffect
    <3>3. /\ Kept(c) /\ cpu'[c].noff = Count(c) - 2 /\ cpu'[c].intena = cpu[c].intena
          /\ ~cpu'[c].spins /\ (cpu'[c].sie <=> Count(c) = 2 /\ cpu[c].intena)
      BY <1>5, <2>1, <3>1, TakeTwo
    <3>4. QED
      BY <1>5, <2>2, <3>2, <3>3
  <2>3. CASE q # 0
    <3>1. TakeAndRelease(c, {Plock(p)})
      <4>1. {Plock(p)} \cup {} = {Plock(p)}
        OBVIOUS
      <4>2. QED
        BY <1>3, <2>3, <4>1
    <3>2. /\ holder' \in [Locks -> Cpus \cup {None}]
          /\ \A l \in Locks : holder'[l] = c <=> l \in {TicksLock}
          /\ \A l \in Locks, d \in Cpus : d # c => (holder'[l] = d <=> holder[l] = d)
      BY <1>4, <2>1, <3>1, TakeEffect
    <3>3. /\ Kept(c) /\ cpu'[c].noff = Count(c) - 1 /\ cpu'[c].intena = cpu[c].intena
          /\ ~cpu'[c].spins /\ (cpu'[c].sie <=> Count(c) = 1 /\ cpu[c].intena)
      BY <1>5, <3>1, TakeOne
    <3>4. QED
      BY <1>5, <2>3, <3>2, <3>3
  <2>4. QED
    BY <2>2, <2>3
<1> HIDE DEF s, H
<1>10. /\ Gentle(c) /\ state' \in [Users -> {"RUNNABLE", "RUNNING", "SLEEPING", "ZOMBIE"}]
       /\ queued' \subseteq Users
       /\ t \in Users => state'[t] = "RUNNING" /\ t \notin queued'
  BY <1>2, <1>3, <1>6, MadeRunnable, GentleWake
<1>11. next'[c] = q /\ \A d \in Cpus : d # c => next'[d] = next[d]
  BY <1>3 DEF TicksInv, TypeOK
<1>12. Alone(c)
  <2>1. \A r \in Threads : r # on[c] => pc'[r] = pc[r]
    BY <1>3 DEF TicksInv, TypeOK
  <2>2. QED
    BY <1>3, <1>9, <1>11, <2>1 DEF Alone, Kept
<1>13. TypeOK'
  <2>1. next' \in [Cpus -> 0..NPROC]
    BY <1>3, <1>7, Threaded DEF TypeOK, TicksInv, Users
  <2>2. pc' \in [Threads -> Acquiring \cup Handler
                          \cup {"user", "forkret", "slept", "done", "zombie", "loop", "running"}]
    BY <1>2, <1>3, <1>8 DEF TypeOK, TicksInv, Handler
  <2>3. QED
    BY <1>3, <1>9, <1>10, <2>1, <2>2 DEF Kept, TypeOK, TicksInv, CpuRecords
<1>14. At(c)' = s => Bits(c)'
  BY <1>5, <1>8, <1>9 DEF Bits, Count, Keeping, Away, Handler, InSystemCall, Acquiring
<1>15. ASSUME NEW r \in Users, r = on[c] PROVE Process(r)'
  <2>1. pc'[r] = s
    BY <1>2, <1>3, <1>15 DEF TypeOK, TicksInv
  <2>2. CallStep(r)' = CallStep(r)
    BY <1>2, <1>3, <1>8, <1>15, <2>1 DEF CallStep, Handler
  <2>3. QED
    BY <1>2, <1>3, <1>8, <1>10, <1>15, <2>1, <2>2 DEF Process, InSystemCall, Away
<1>16. /\ on' = on /\ chosen' = chosen /\ beats' = beats
       /\ s = "wake" => next'[c] \in Users
       /\ on[c] \in Users => s \in OfProcess /\ state'[on[c]] = "RUNNING"
       /\ on[c] \notin Users => s \in {"loop", "scan"} \cup Traps /\ back'[on[c]] \in {"loop", "scan"}
  BY <1>2, <1>3, <1>7, <1>8, <1>10, <1>11
<1>17. pc' = [pc EXCEPT ![on[c]] = s]
  BY <1>3
<1>18. QED
  BY <1>8, <1>9, <1>10, <1>12, <1>13, <1>14, <1>15, <1>16, <1>17, SameStack

-----------------------------------------------------------------------------
(* What sleep() sees of the clock *)

\* The difference of two readings is the number of ticks between them, also
\* when the counter wraps around.
LEMMA Readings ==
  ASSUME TicksAssumption
  PROVE  /\ \A k \in 0..MaxTicks, j \in 0..MaxTicks :
              j <= k => (Turned(k) - Turned(j)) % WORD = k - j
         /\ \A k \in 0..MaxTicks : k < MaxTicks => (Turned(k) + 1) % WORD = Turned(k + 1)
         /\ Turned(0) = FirstTick
<1>1. WORD \in Nat /\ MaxTicks \in Nat /\ MaxTicks < WORD /\ FirstTick \in 0..(WORD - 1)
  BY DEF TicksAssumption
<1>2. \A r \in 0..(WORD - 1) : r % WORD = r
  BY <1>1
<1>3. \A r \in Int : -WORD <= r /\ r < 0 => r % WORD = r + WORD
  BY <1>1
<1>4. WORD % WORD = 0
  BY <1>1
<1>5. ASSUME NEW k \in 0..MaxTicks, NEW j \in 0..MaxTicks, j <= k
      PROVE  (Turned(k) - Turned(j)) % WORD = k - j
  <2>1. k - j \in 0..(WORD - 1)
    BY <1>1, <1>5
  <2>2. Turned(k) - Turned(j) \in Int
        /\ (Turned(k) - Turned(j) = k - j \/ Turned(k) - Turned(j) = k - j - WORD)
    BY <1>1, <1>5 DEF Turned
  <2>3. CASE Turned(k) - Turned(j) = k - j
    BY <1>2, <2>1, <2>3
  <2>4. CASE Turned(k) - Turned(j) = k - j - WORD
    <3>1. k - j - WORD \in Int /\ -WORD <= k - j - WORD /\ k - j - WORD < 0
      BY <1>1, <2>1
    <3>2. (k - j - WORD) % WORD = k - j - WORD + WORD
      BY <1>3, <3>1
    <3>3. QED
      BY <1>1, <2>1, <2>4, <3>2
  <2>5. QED
    BY <2>2, <2>3, <2>4
<1>6. ASSUME NEW k \in 0..MaxTicks, k < MaxTicks
      PROVE  (Turned(k) + 1) % WORD = Turned(k + 1)
  <2>1. Turned(k) + 1 \in 0..(WORD - 1) \/ Turned(k) + 1 = WORD
    BY <1>1, <1>6 DEF Turned
  <2>2. CASE Turned(k) + 1 \in 0..(WORD - 1)
    <3>1. Turned(k) + 1 = Turned(k + 1)
      BY <1>1, <1>6, <2>2 DEF Turned
    <3>2. QED
      BY <1>2, <2>2, <3>1
  <2>3. CASE Turned(k) + 1 = WORD
    <3>1. Turned(k + 1) = 0
      BY <1>1, <1>6, <2>3 DEF Turned
    <3>2. QED
      BY <1>4, <2>3, <3>1
  <2>4. QED
    BY <2>1, <2>2, <2>3
<1>7. Turned(0) = FirstTick
  BY <1>1 DEF Turned
<1>8. QED
  BY <1>5, <1>6, <1>7

\* A step that does not move the clock and wakes nobody.
Silent(c) ==
  /\ beats' = beats /\ ticks' = ticks
  /\ At(c) = "wake" => At(c)' = "wake" /\ next'[c] = next[c]
  /\ \A p \in Users : p # on[c] => since'[p] = since[p] /\ ticks0'[p] = ticks0[p]
  /\ \A p \in Users : killed[p] => killed'[p]
LEMMA SilentKeeps ==
  ASSUME TicksAssumption, TicksInv, Clock, NEW c \in Cpus, Alone(c), Gentle(c), Silent(c),
         \A p \in Users : p = on[c] => Asleep(p)'
  PROVE  Clock'
<1>1. ASSUME NEW d \in Cpus, d # c
      PROVE  At(d)' = At(d) /\ on'[d] = on[d] /\ next'[d] = next[d]
  <2>1. At(d)' = At(d) /\ on'[d] = on[d]
    BY <1>1, OthersKept
  <2>2. QED
    BY <1>1, <2>1 DEF Alone
<1>2. ASSUME NEW p \in Users, p # on[c]
      PROVE  Asleep(p)'
  <2>1. /\ CallStep(p)' = CallStep(p) /\ script'[p] = script[p] /\ Wanted(p)' = Wanted(p)
        /\ since'[p] = since[p] /\ ticks0'[p] = ticks0[p] /\ beats' = beats
        /\ killed[p] => killed'[p]
    BY <1>2, Threaded DEF Alone, Silent, CallStep, Wanted
  <2>2. Asleep(p)
    BY DEF Clock
  <2>3. state'[p] = "SLEEPING" => state[p] = "SLEEPING"
    BY <1>2 DEF Gentle
  <2>4. (\E d \in Cpus : on[d] = p) => \E d \in Cpus : on'[d] = p
    BY <1>1, <1>2
  <2>5. (\E d \in Cpus : At(d) = "wake" /\ next[d] <= p)
          => \E d \in Cpus : At(d)' = "wake" /\ next'[d] <= p
    BY <1>1 DEF Silent
  <2>6. QED
    BY <2>1, <2>2, <2>3, <2>4, <2>5 DEF Asleep, Turned
<1>3. QED
  BY <1>2 DEF Clock, Silent, Turned

\* The process itself, where it stays in its call or is in none of these.
LEMMA StillAsleep ==
  ASSUME NEW c \in Cpus, NEW p \in Users, p = on[c], Asleep(p), Silent(c), TicksInv,
         since'[p] = since[p], ticks0'[p] = ticks0[p], script'[p] = script[p],
         state'[p] # "SLEEPING",
         \/ CallStep(p)' = CallStep(p) /\ on' = on
         \/ CallStep(p)' = CallStep(p) /\ CallStep(p) # "park"
         \/ CallStep(p)' \in {"user", "exit", "zombie"}
         \/ CallStep(p)' \in {"sleep", "uptime", "kill"} /\ CallStep(p)' = Head(script[p]).op
         \/ CallStep(p)' = "done" /\ Head(script[p]).op # "sleep"
         \/ CallStep(p)' = "resleep" /\ CallStep(p) = "slept"
  PROVE  Asleep(p)'
<1>1. /\ Wanted(p)' = Wanted(p) /\ beats' = beats /\ (killed[p] => killed'[p])
      /\ Head(script'[p]) = Head(script[p])
  BY DEF Wanted, Silent
<1>2. QED
  BY <1>1 DEF Asleep, Turned

LEMMA SchedulerClock ==
  ASSUME TicksAssumption, TicksInv, Clock, NEW c \in Cpus,
         Loop(c) \/ Scan(c) \/ Dispatch(c) \/ Returned(c)
  PROVE  Clock'
<1>1. Alone(c) /\ Gentle(c)
  BY LoopKeeps, ScanKeeps, DispatchKeeps, ReturnedKeeps
<1>2. At(c) \in {"loop", "scan", "pick", "running"}
  BY DEF Loop, Scan, Dispatch, Returned, At
<1>3. on[c] \notin Users
  BY <1>2, SchedulerAt DEF OfScheduler, Traps
<1>4. Silent(c)
  BY <1>2 DEF Loop, Scan, Dispatch, Returned, Silent, clock, sleeps, procs
<1>5. QED
  BY <1>1, <1>3, <1>4, SilentKeeps

LEMMA PushOffClock ==
  ASSUME TicksAssumption, TicksInv, Clock, NEW c \in Cpus, PushOff(c)
  PROVE  Clock'
BY DEF PushOff, procs, clock, sleeps, Clock, Asleep, CallStep, Wanted, Turned, At

LEMMA HandlerClock ==
  ASSUME TicksAssumption, TicksInv, Clock, NEW c \in Cpus,
         Interrupt(c) \/ Ack(c) \/ SRet(c)
  PROVE  Clock'
<1>1. Alone(c) /\ Gentle(c)
  BY InterruptKeeps, AckKeeps, SRetKeeps
<1>2. /\ At(c) # "wake" /\ on[c] \in Threads /\ on' = on
      /\ UNCHANGED <<beats, ticks, ticks0, since, script, state, killed>>
  <2>1. on[c] \in Threads /\ Bits(c)
    BY DEF TicksInv, TypeOK
  <2>2. CASE Interrupt(c)
    <3>1. At(c) \notin Handler
      BY <2>1, <2>2 DEF Interrupt, Bits
    <3>2. QED
      BY <2>1, <2>2, <3>1 DEF Interrupt, Handler, procs, clock, sleeps
  <2>3. CASE Ack(c) \/ SRet(c)
    BY <2>1, <2>3 DEF Ack, SRet, At, procs, clock, sleeps
  <2>4. QED
    BY <2>2, <2>3
<1>3. Silent(c)
  BY <1>2 DEF Silent
<1>4. ASSUME NEW p \in Users, p = on[c]
      PROVE  CallStep(p)' \in {CallStep(p), "exit"} /\ state[p] = "RUNNING"
  <2>1. pc[p] = At(c) /\ Process(p) /\ state[p] = "RUNNING" /\ p \in Threads
        /\ pc \in [Threads -> Acquiring \cup Handler
                                \cup {"user", "forkret", "slept", "done", "zombie", "loop", "running"}]
        /\ back \in [Threads -> {"user", "sleep", "uptime", "kill", "resleep", "done", "exit", "loop", "scan"}]
    BY <1>4, Threaded DEF TicksInv, TypeOK, OnStack, At
  <2>2. CASE Interrupt(c)
    <3>1. pc[p] \notin Handler
      BY <2>1, <2>2 DEF Interrupt, Bits, TicksInv
    <3>2. back'[p] = pc[p] /\ pc'[p] \in {"clock", "ack"}
      BY <1>4, <2>1, <2>2 DEF Interrupt, Goto
    <3>3. QED
      BY <2>1, <3>1, <3>2 DEF CallStep, Handler
  <2>3. CASE Ack(c)
    <3>1. pc[p] = "ack" /\ back'[p] = back[p] /\ pc'[p] \in {"exit", "yield"}
      BY <1>4, <2>1, <2>3 DEF Ack, Goto
    <3>2. QED
      BY <2>1, <3>1 DEF CallStep, Handler
  <2>4. CASE SRet(c)
    <3>1. pc[p] = "sret" /\ pc'[p] = back[p]
      BY <1>4, <2>1, <2>4 DEF SRet, Goto
    <3>2. back[p] \notin Handler
      BY <2>1 DEF Process, Interrupted, InSystemCall, Handler
    <3>3. QED
      BY <2>1, <3>1, <3>2 DEF CallStep, Handler
  <2>5. QED
    BY <2>2, <2>3, <2>4
<1>5. ASSUME NEW p \in Users, p = on[c] PROVE Asleep(p)'
  <2>1. Asleep(p) /\ CallStep(p)' \in {CallStep(p), "exit"} /\ state'[p] # "SLEEPING"
        /\ since'[p] = since[p] /\ ticks0'[p] = ticks0[p] /\ script'[p] = script[p] /\ on' = on
    BY <1>2, <1>4, <1>5 DEF Clock
  <2>2. QED
    BY <1>3, <1>5, <2>1, StillAsleep
<1>6. QED
  BY <1>1, <1>3, <1>5, SilentKeeps

LEMMA LeaveClock ==
  ASSUME TicksAssumption, TicksInv, Clock, NEW c \in Cpus,
         Park(c) \/ Exit(c) \/ Yield(c)
  PROVE  Clock'
<1>1. Alone(c) /\ Gentle(c)
  BY LeaveKeeps
<1>2. At(c) \in {"park", "exit", "yield"}
  BY DEF Park, Exit, Yield, At
<1>3. on[c] \in Users /\ on[c] \in Threads /\ pc[on[c]] = At(c) /\ Process(on[c]) /\ Asleep(on[c])
  BY <1>2, CallerAt DEF OfProcess, Traps, Clock
<1>4. UNCHANGED <<beats, ticks, ticks0, since, script, killed, back>>
  BY DEF Park, Exit, Yield, Leave, clock, sleeps
<1>5. Silent(c)
  BY <1>2, <1>4 DEF Silent
<1>6. ASSUME NEW p \in Users, p = on[c] PROVE Asleep(p)'
  <2>1. /\ pc \in [Threads -> Acquiring \cup Handler
                                \cup {"user", "forkret", "slept", "done", "zombie", "loop", "running"}]
        /\ state \in [Users -> {"RUNNABLE", "RUNNING", "SLEEPING", "ZOMBIE"}]
    BY DEF TicksInv, TypeOK
  <2>2. CASE Park(c)
    <3>1. pc[p] = "park" /\ pc'[p] = "slept"
      BY <1>3, <1>6, <2>1, <2>2 DEF Park, Leave, Goto
    <3>2. CallStep(p) = "park" /\ CallStep(p)' = "slept" /\ Asleep(p)
      BY <1>3, <1>6, <3>1 DEF CallStep, Handler
    <3>3. Wanted(p)' = Wanted(p) /\ script' = script
      BY <1>4 DEF Wanted
    <3>4. QED
      BY <1>4, <3>2, <3>3 DEF Asleep, Turned
  <2>3. CASE Exit(c)
    <3>1. pc'[p] = "zombie" /\ state'[p] = "ZOMBIE"
      BY <1>3, <1>6, <2>1, <2>3 DEF Exit, Leave, Goto
    <3>2. CallStep(p)' = "zombie" /\ Asleep(p) /\ state'[p] # "SLEEPING"
          /\ since'[p] = since[p] /\ ticks0'[p] = ticks0[p] /\ script'[p] = script[p]
      BY <1>3, <1>4, <1>6, <3>1 DEF CallStep, Handler
    <3>3. QED
      BY <1>5, <1>6, <3>2, StillAsleep
  <2>4. CASE Yield(c)
    <3>1. pc[p] = "yield" /\ pc'[p] = "yielded" /\ state'[p] = "RUNNABLE"
      BY <1>3, <1>6, <2>1, <2>4 DEF Yield, Leave, Goto
    <3>2. CallStep(p)' = CallStep(p) /\ CallStep(p) # "park" /\ Asleep(p) /\ state'[p] # "SLEEPING"
          /\ since'[p] = since[p] /\ ticks0'[p] = ticks0[p] /\ script'[p] = script[p]
      BY <1>3, <1>4, <1>6, <3>1 DEF CallStep, Handler, Process, Interrupted, InSystemCall
    <3>3. QED
      BY <1>5, <1>6, <3>2, StillAsleep
  <2>5. QED
    BY <2>2, <2>3, <2>4
<1>7. QED
  BY <1>1, <1>5, <1>6, SilentKeeps

\* The steps of a system call, but the loop of sleep().
LEMMA CallerClock ==
  ASSUME TicksAssumption, TicksInv, Clock, NEW c \in Cpus,
         Resume(c) \/ ForkRet(c) \/ Call(c) \/ Return(c) \/ SysUptime(c) \/ SysKill(c)
  PROVE  Clock'
<1>1. Alone(c) /\ Gentle(c)
  BY ResumeKeeps, ForkRetKeeps, CallKeeps, ReturnKeeps, UptimeKeeps, KillKeeps
<1>2. At(c) \in {"slept", "yielded", "forkret", "user", "done", "uptime", "kill"}
  BY DEF Resume, ForkRet, Call, Return, SysUptime, SysKill, At
<1>3. /\ on[c] \in Users /\ on[c] \in Threads /\ pc[on[c]] = At(c) /\ Process(on[c])
      /\ Asleep(on[c]) /\ state[on[c]] = "RUNNING"
  BY <1>2, CallerAt DEF OfProcess, Traps, Away, InSystemCall, Clock
<1>4. UNCHANGED <<beats, ticks, back, on>>
  BY DEF Resume, ForkRet, Call, Return, SysUptime, SysKill, clock
<1>5. \A p \in Users : killed[p] => killed'[p]
  BY DEF Resume, ForkRet, Call, Return, SysUptime, SysKill, procs, TicksInv, TypeOK
<1>6. \A p \in Users : p # on[c] => since'[p] = since[p] /\ ticks0'[p] = ticks0[p]
  BY DEF Resume, ForkRet, Call, Return, SysUptime, SysKill, sleeps, TicksInv, TypeOK
<1>7. Silent(c)
  BY <1>2, <1>4, <1>5, <1>6 DEF Silent
<1>8. state'[on[c]] # "SLEEPING"
  BY <1>3, <1>4 DEF Resume, ForkRet, Call, Return, SysUptime, SysKill, procs, MakeRunnable, TicksInv, TypeOK
<1>9. ASSUME NEW p \in Users, p = on[c] PROVE Asleep(p)'
  <2>1. /\ pc \in [Threads -> Acquiring \cup Handler
                                \cup {"user", "forkret", "slept", "done", "zombie", "loop", "running"}]
        /\ Asleep(p) /\ p \in Threads /\ state'[p] # "SLEEPING" /\ pc[p] = At(c) /\ Process(p)
        /\ back'[p] = back[p]
    BY <1>3, <1>4, <1>8, <1>9 DEF TicksInv, TypeOK
  <2>2. CASE Return(c)
    <3>1. pc'[p] \in {"user", "exit"} /\ since'[p] = 0 /\ beats' = beats
      BY <1>9, <2>1, <2>2, <1>4 DEF Return, Goto, TicksInv, TypeOK
    <3>2. CallStep(p)' \in {"user", "exit"}
      BY <3>1 DEF CallStep, Handler
    <3>3. 0 <= beats
      BY DEF TicksInv, TypeOK, TicksAssumption
    <3>4. QED
      BY <2>1, <3>1, <3>2, <3>3 DEF Asleep
  <2>3. CASE ~Return(c)
    <3>1. since'[p] = since[p] /\ ticks0'[p] = ticks0[p] /\ script'[p] = script[p]
      BY <2>3 DEF Resume, ForkRet, Call, SysUptime, SysKill, sleeps
    <3>2. \/ CallStep(p)' = CallStep(p) /\ on' = on
          \/ CallStep(p)' \in {"user", "exit", "zombie"}
          \/ CallStep(p)' \in {"sleep", "uptime", "kill"} /\ CallStep(p)' = Head(script[p]).op
          \/ CallStep(p)' = "done" /\ Head(script[p]).op # "sleep"
          \/ CallStep(p)' = "resleep" /\ CallStep(p) = "slept"
      <4>1. CASE Resume(c)
        <5>1. (pc[p] = "slept" /\ pc'[p] = "resleep") \/ (pc[p] = "yielded" /\ pc'[p] = "sret")
          BY <1>9, <2>1, <4>1 DEF Resume, Goto
        <5>2. QED
          BY <1>4, <2>1, <5>1 DEF CallStep, Handler
      <4>2. CASE ForkRet(c)
        <5>1. pc'[p] = "user"
          BY <1>9, <2>1, <4>2 DEF ForkRet, Goto
        <5>2. QED
          BY <5>1 DEF CallStep, Handler
      <4>3. CASE Call(c)
        <5>1. script[p] # << >> /\ (pc'[p] = "exit" \/ pc'[p] = Head(script[p]).op)
          BY <1>9, <2>1, <4>3 DEF Call, Goto
        <5>2. script[p] \in Seq(SysCalls)
          BY DEF TicksInv, TypeOK
        <5>3. Head(script[p]) \in SysCalls
          BY <5>1, <5>2
        <5>4. Head(script[p]).op \in {"sleep", "uptime", "kill"}
          BY <5>3 DEF SysCalls
        <5>5. QED
          BY <5>1, <5>4 DEF CallStep, Handler
      <4>4. CASE SysUptime(c)
        <5>1. pc[p] = "uptime" /\ pc'[p] = "done"
          BY <1>9, <2>1, <4>4 DEF SysUptime, Goto
        <5>2. QED
          BY <2>1, <5>1 DEF CallStep, Handler, Asleep
      <4>5. CASE SysKill(c)
        <5>1. pc[p] = "kill" /\ pc'[p] = "done"
          BY <1>9, <2>1, <4>5 DEF SysKill, Goto
        <5>2. QED
          BY <2>1, <5>1 DEF CallStep, Handler, Process
      <4>6. QED
        BY <2>3, <4>1, <4>2, <4>3, <4>4, <4>5
    <3>3. QED
      BY <1>7, <1>9, <2>1, <3>1, <3>2, StillAsleep
  <2>4. QED
    BY <2>2, <2>3
<1>10. QED
  BY <1>1, <1>7, <1>9, SilentKeeps

\* The loop of sys_sleep() tests what has passed since it began.
LEMMA SleepClock ==
  ASSUME TicksAssumption, TicksInv, Clock, NEW c \in Cpus, SysSleep(c)
  PROVE  Clock'
<1>1. Alone(c) /\ Gentle(c)
  BY SleepKeeps
<1>2. At(c) \in {"sleep", "resleep"}
  BY DEF SysSleep, At
<1>3. /\ on[c] \in Users /\ on[c] \in Threads /\ pc[on[c]] = At(c) /\ Process(on[c])
      /\ Asleep(on[c]) /\ state[on[c]] = "RUNNING"
  BY <1>2, CallerAt DEF OfProcess, Traps, InSystemCall, Clock
<1>4. UNCHANGED <<beats, ticks, back, on, script, killed, state>>
  BY DEF SysSleep, procs, clock
<1>5. \A p \in Users : p # on[c] => since'[p] = since[p] /\ ticks0'[p] = ticks0[p]
  BY DEF SysSleep, TicksInv, TypeOK
<1>6. Silent(c)
  BY <1>2, <1>4, <1>5 DEF Silent
<1>7. ASSUME NEW p \in Users, p = on[c] PROVE Asleep(p)'
  <2> DEFINE from == IF pc[p] = "sleep" THEN ticks ELSE ticks0[p]
             b == IF pc[p] = "sleep" THEN beats ELSE since[p]
  <2>1. /\ pc \in [Threads -> Acquiring \cup Handler
                                \cup {"user", "forkret", "slept", "done", "zombie", "loop", "running"}]
        /\ Asleep(p) /\ p \in Threads /\ pc[p] \in {"sleep", "resleep"}
        /\ beats \in 0..MaxTicks /\ since \in [Users -> 0..MaxTicks] /\ ticks0 \in [Users -> 0..(WORD - 1)]
        /\ ticks = Turned(beats)
    BY <1>2, <1>3, <1>7 DEF TicksInv, TypeOK, Clock
  <2>2. CallStep(p) = pc[p] /\ Head(script[p]).op = "sleep"
    BY <2>1 DEF CallStep, Handler, Asleep
  <2>3. b \in 0..MaxTicks /\ b <= beats /\ from = Turned(b)
    BY <2>1, <2>2 DEF Asleep, TicksAssumption
  <2>4. since'[p] = b /\ ticks0'[p] = from
    BY <1>7, <2>1 DEF SysSleep
  <2>5. (ticks - from) % WORD = beats - b
    BY <2>1, <2>3, Readings
  <2>6. Waits(p, from) <=> beats - b < Wanted(p)
    BY <2>5 DEF Waits, Wanted
  <2>7. \/ pc'[p] = "park" /\ Waits(p, from) /\ ~killed[p]
        \/ pc'[p] = "done" /\ (~Waits(p, from) \/ killed[p])
    BY <1>7, <2>1 DEF SysSleep, Goto
  <2>8. CallStep(p)' = pc'[p]
    BY <2>7 DEF CallStep, Handler
  <2>9. /\ Wanted(p)' = Wanted(p) /\ script' = script /\ beats' = beats /\ killed' = killed
        /\ state'[p] # "SLEEPING" /\ on'[c] = p
    BY <1>3, <1>4, <1>7 DEF Wanted
  <2>10. Turned(since[p])' = Turned(b)
    BY <2>4 DEF Turned
  <2>11. Wanted(p) \in Int
    <3>1. script[p] \in Seq(SysCalls) /\ script[p] # << >>
      BY <1>3, <1>7, <2>1, <2>2 DEF TicksInv, TypeOK, Process, InSystemCall
    <3>2. Head(script[p]) \in SysCalls
      BY <3>1
    <3>3. Head(script[p]).arg \in Int
      BY <3>2 DEF SysCalls, Users
    <3>4. QED
      BY <3>3 DEF Wanted, TicksAssumption
  <2> HIDE DEF from, b
  <2>12. CASE pc'[p] = "park"
    BY <2>2, <2>3, <2>4, <2>6, <2>7, <2>8, <2>9, <2>10, <2>12 DEF Asleep
  <2>13. CASE pc'[p] = "done"
    <3>1. killed[p] \/ beats - b >= Wanted(p)
      BY <2>1, <2>3, <2>6, <2>7, <2>11, <2>13
    <3>2. QED
      BY <2>2, <2>3, <2>4, <2>8, <2>9, <2>13, <3>1 DEF Asleep
  <2>14. QED
    BY <2>7, <2>12, <2>13
<1>8. QED
  BY <1>1, <1>6, <1>7, SilentKeeps

\* A tick: whoever has slept long enough is found by the wakeup() that
\* follows, and nobody is between the test of the loop and sleep().
LEMMA ClockIntrClock ==
  ASSUME TicksAssumption, TicksInv, Clock, NEW c \in Cpus, ClockIntr(c)
  PROVE  Clock'
<1>1. Alone(c) /\ Gentle(c)
  BY ClockIntrKeeps
<1>2. At(c) = "clock" /\ on[c] \in Threads /\ beats \in 0..MaxTicks /\ beats < MaxTicks
  BY DEF ClockIntr, At, TicksInv, TypeOK, Beating
<1>3. /\ beats' = beats + 1 /\ ticks' = (ticks + 1) % WORD /\ holder[TicksLock] = None
      /\ UNCHANGED <<on, back, ticks0, since, script, killed, state>>
  BY <1>2 DEF ClockIntr, TakeAndRelease, LockAt, At, procs, sleeps
<1>4. pc' = [pc EXCEPT ![on[c]] = "wake"] /\ At(c)' = "wake" /\ next'[c] = NextOf(c, 0)
  BY <1>2, <1>3 DEF ClockIntr, Goto, At, TicksInv, TypeOK
<1>5. ticks' = Turned(beats') /\ beats' = beats + 1
  <2>1. (Turned(beats) + 1) % WORD = Turned(beats + 1)
    BY <1>2, Readings
  <2>2. QED
    BY <1>3, <2>1 DEF Clock
<1>6. ASSUME NEW p \in Users PROVE Asleep(p)'
  <2>1. /\ Asleep(p) /\ p \in Threads /\ since[p] \in 0..MaxTicks /\ p \in Nat
        /\ pc \in [Threads -> Acquiring \cup Handler
                                \cup {"user", "forkret", "slept", "done", "zombie", "loop", "running"}]
    BY Threaded DEF Clock, TicksInv, TypeOK
  <2>2. CallStep(p)' = CallStep(p)
    <3>1. CASE p = on[c]
      <4>1. pc[p] = "clock" /\ pc'[p] = "wake"
        BY <1>2, <1>4, <2>1, <3>1 DEF At
      <4>2. QED
        BY <1>3, <4>1 DEF CallStep, Handler
    <3>2. CASE p # on[c]
      BY <1>3, <1>4, <2>1, <3>2 DEF CallStep
    <3>3. QED
      BY <3>1, <3>2
  <2>3. CallStep(p) # "park"
    <3>1. SUFFICES ASSUME CallStep(p) = "park" PROVE FALSE
      OBVIOUS
    <3>2. PICK d \in Cpus : on[d] = p
      BY <2>1, <3>1 DEF Asleep
    <3>3. pc[p] = "park"
      BY <3>1 DEF CallStep, TicksInv, Process, Interrupted, InSystemCall
    <3>4. At(d) = "park"
      BY <3>2, <3>3 DEF At
    <3>5. holder[TicksLock] = d
      BY <3>4, HeldOnce, Distinct DEF TicksInv, HeldExactly
    <3>6. QED
      BY <1>3, <3>5, Threaded
  <2>4. state[p] = "SLEEPING" => next'[c] <= p
    <3>1. SUFFICES ASSUME state[p] = "SLEEPING" PROVE next'[c] <= p
      OBVIOUS
    <3>2. p # on[c]
      BY <1>2, <3>1, HandlerAt DEF Traps
    <3>3. p \in Following(c, 0)
      BY <2>1, <3>2, Threaded DEF Following
    <3>4. QED
      BY <1>4, <3>3, NextIs
  <2>5. Wanted(p)' = Wanted(p) /\ Turned(since[p])' = Turned(since[p])
    BY <1>3 DEF Wanted, Turned
  <2>6. (CallStep(p) = "done" /\ Head(script[p]).op = "sleep") =>
          (killed[p] \/ beats + 1 - since[p] >= Wanted(p))
    <3>1. Wanted(p) \in Int \/ ~(CallStep(p) = "done")
      <4>1. ASSUME CallStep(p) = "done" PROVE Wanted(p) \in Int
        <5>1. script[p] \in Seq(SysCalls) /\ script[p] # << >>
          BY <4>1 DEF TicksInv, TypeOK, Process
        <5>2. Head(script[p]) \in SysCalls
          BY <5>1
        <5>3. Head(script[p]).arg \in Int
          BY <5>2 DEF SysCalls, Users
        <5>4. QED
          BY <5>3 DEF Wanted, TicksAssumption
      <4>2. QED
        BY <4>1
    <3>2. QED
      BY <1>2, <2>1, <3>1 DEF Asleep
  <2>7. since[p] <= beats + 1
    BY <1>2, <2>1 DEF Asleep
  <2>8. state'[p] = "SLEEPING" => \E d \in Cpus : At(d)' = "wake" /\ next'[d] <= p
    BY <1>3, <1>4, <2>4
  <2>9. /\ ticks0'[p] = ticks0[p] /\ since'[p] = since[p] /\ script'[p] = script[p]
        /\ (killed'[p] <=> killed[p]) /\ beats' = beats + 1
    BY <1>3
  <2>10. since'[p] <= beats'
    BY <2>7, <2>9
  <2>11. /\ CallStep(p)' \in {"sleep", "resleep", "park", "slept"} => Head(script'[p]).op = "sleep"
         /\ CallStep(p)' = "uptime" => Head(script'[p]).op # "sleep"
    BY <2>1, <2>2, <2>9 DEF Asleep
  <2>12. CallStep(p)' \in {"resleep", "park", "slept"} => ticks0'[p] = Turned(since[p])'
    BY <2>1, <2>2, <2>5, <2>9 DEF Asleep
  <2>13. CallStep(p)' # "park"
    BY <2>2, <2>3
  <2>14. (CallStep(p)' = "done" /\ Head(script'[p]).op = "sleep") =>
           (killed'[p] \/ beats' - since'[p] >= Wanted(p)')
    <3>1. beats' - since'[p] = beats + 1 - since[p]
      BY <1>2, <2>1, <2>9
    <3>2. Head(script'[p]) = Head(script[p])
      BY <2>9
    <3>3. QED
      BY <2>2, <2>5, <2>6, <2>9, <3>1, <3>2
  <2>15. QED
    BY <2>8, <2>10, <2>11, <2>12, <2>13, <2>14 DEF Asleep
<1>7. QED
  BY <1>5, <1>6 DEF Clock, Turned

\* wakeup() leaves nobody behind.
LEMMA WakeClock ==
  ASSUME TicksAssumption, TicksInv, Clock, NEW c \in Cpus, Wake(c)
  PROVE  Clock'
<1> DEFINE n == next[c]
           q == NextOf(c, n)
<1>1. Alone(c) /\ Gentle(c)
  BY WakeKeeps
<1>2. At(c) = "wake" /\ on[c] \in Threads
  BY DEF Wake, At, TicksInv, TypeOK
<1>3. /\ MakeRunnable(n)
      /\ UNCHANGED <<on, back, ticks0, since, script, killed, beats, ticks>>
  BY DEF Wake, clock, sleeps
<1>4. n \in Users /\ n \in Nat
  BY <1>2, Threaded DEF TicksInv, OnStack
<1>5. At(c)' = (IF q = 0 THEN "ack" ELSE "wake") /\ next'[c] = q
      /\ pc' = [pc EXCEPT ![on[c]] = IF q = 0 THEN "ack" ELSE "wake"]
  BY <1>2, <1>3 DEF Wake, Goto, At, TicksInv, TypeOK
<1>6. ASSUME NEW d \in Cpus, d # c PROVE At(d)' = At(d) /\ next'[d] = next[d]
  <2>1. At(d)' = At(d)
    BY <1>1, <1>6, OthersKept
  <2>2. QED
    BY <1>1, <1>6, <2>1 DEF Alone
<1>7. ASSUME NEW p \in Users PROVE Asleep(p)'
  <2>1. /\ Asleep(p) /\ p \in Threads /\ p \in Nat
        /\ pc \in [Threads -> Acquiring \cup Handler
                                \cup {"user", "forkret", "slept", "done", "zombie", "loop", "running"}]
    BY Threaded DEF Clock, TicksInv, TypeOK
  <2>2. CallStep(p)' = CallStep(p)
    <3>1. CASE p = on[c]
      <4>1. pc[p] = "wake" /\ pc'[p] \in {"ack", "wake"}
        BY <1>2, <1>5, <2>1, <3>1 DEF At
      <4>2. QED
        BY <1>3, <4>1 DEF CallStep, Handler
    <3>2. CASE p # on[c]
      BY <1>3, <1>5, <2>1, <3>2 DEF CallStep
    <3>3. QED
      BY <3>1, <3>2
  <2>3. Wanted(p)' = Wanted(p) /\ Turned(since[p])' = Turned(since[p])
    BY <1>3 DEF Wanted, Turned
  <2>4. ASSUME state'[p] = "SLEEPING", NEW d \in Cpus, At(d) = "wake", next[d] <= p
        PROVE  \E e \in Cpus : At(e)' = "wake" /\ next'[e] <= p
    <3>1. CASE d # c
      BY <1>6, <2>4, <3>1
    <3>2. CASE d = c
      <4>1. state[p] = "SLEEPING" /\ p # n
        BY <1>3, <1>4, <2>4, MadeRunnable DEF MakeRunnable, TicksInv, TypeOK
      <4>2. p # on[c]
        BY <1>2, <4>1, HandlerAt DEF Traps
      <4>3. p \in Following(c, n)
        BY <1>4, <2>1, <2>4, <3>2, <4>1, <4>2 DEF Following
      <4>4. q # 0 /\ q <= p
        BY <1>4, <4>3, NextIs
      <4>5. QED
        BY <1>5, <4>4
    <3>3. QED
      BY <3>1, <3>2
  <2>5. state'[p] = "SLEEPING" => state[p] = "SLEEPING"
    BY <1>3, <1>4, MadeRunnable
  <2>6. QED
    BY <1>3, <2>1, <2>2, <2>3, <2>4, <2>5 DEF Asleep
<1>8. QED
  BY <1>3, <1>7 DEF Clock, Turned

-----------------------------------------------------------------------------
(* The theorems *)

LEMMA InitHolds ==
  ASSUME TicksAssumption, Init
  PROVE  TicksInv
<1>1. /\ \A c \in Cpus : on[c] = Scheduler(c) /\ At(c) = "loop" /\ pc[Scheduler(c)] = "loop"
      /\ \A c \in Cpus : ~cpu[c].spins /\ ~cpu[c].sie /\ cpu[c].noff = 0
  BY Threaded DEF Init, At
<1>2. \A p \in Users : pc[p] = "forkret" /\ back[p] = "user" /\ state[p] = "RUNNABLE"
  BY Threaded DEF Init
<1>3. TypeOK
  <2>1. script \in [Users -> Seq(SysCalls)] /\ ticks \in 0..(WORD - 1) /\ 0 \in 0..(WORD - 1)
        /\ 0 \in 0..MaxTicks /\ beats = 0 /\ 0 \in 0..NPROC /\ 0 \in 0..3
    BY DEF Init, TicksAssumption
  <2>2. /\ holder \in [Locks -> Cpus \cup {None}] /\ on \in [Cpus -> Threads]
        /\ cpu \in [Cpus -> [sie : BOOLEAN, noff : 0..3, intena : BOOLEAN, spins : BOOLEAN]]
    BY <2>1, Threaded DEF Init
  <2>3. QED
    BY <2>1, <2>2 DEF Init, TypeOK
<1>4. Apart
  BY <1>1, Threaded DEF Apart
<1>5. HeldExactly
  BY <1>1, Threaded DEF HeldExactly, Held, Away, Init
<1>6. Beating
  BY <1>1 DEF Beating
<1>7. \A c \in Cpus : OnStack(c) /\ Bits(c)
  BY <1>1 DEF OnStack, OfScheduler, Handler, Bits, Count, Keeping, Away, InSystemCall
<1>8. \A p \in Users : Process(p)
  BY <1>2 DEF Process, CallStep, Handler, Away, Interrupted, InSystemCall
<1>9. QED
  BY <1>3, <1>4, <1>5, <1>6, <1>7, <1>8 DEF TicksInv

LEMMA StepKeeps ==
  ASSUME TicksAssumption, TicksInv, [Next]_vars
  PROVE  TicksInv'
<1>1. ASSUME NEW c \in Cpus, Step(c) PROVE TicksInv'
  BY <1>1, PushOffKeeps, LoopKeeps, ScanKeeps, DispatchKeeps, ReturnedKeeps, LeaveKeeps,
     ResumeKeeps, ForkRetKeeps, CallKeeps, ReturnKeeps, InterruptKeeps, ClockIntrKeeps,
     WakeKeeps, AckKeeps, SRetKeeps, SleepKeeps, UptimeKeeps, KillKeeps DEF Step
<1>2. ASSUME UNCHANGED vars PROVE TicksInv'
  BY <1>2 DEF vars, procs, clock, sleeps, TicksInv, TypeOK, Apart, HeldExactly, Held, Beating,
     OnStack, Bits, Count, Process, CallStep, At
<1>3. QED
  BY <1>1, <1>2 DEF Next

\* The locks and the interrupt bit of every CPU agree with where it is.
THEOREM TicksInvariant ==
  ASSUME TicksAssumption
  PROVE  Spec => [](TypeOK /\ TicksInv)
<1>1. Init => TicksInv
  BY InitHolds
<1>2. TicksInv /\ [Next]_vars => TicksInv'
  BY StepKeeps
<1>3. TicksInv => TypeOK
  BY DEF TicksInv
<1>4. QED
  BY <1>1, <1>2, <1>3, PTL DEF Spec

\* No panic of acquire(), pop_off(), sched() or kerneltrap(): push_off() and
\* pop_off() leave interrupts off exactly where they must be.
THEOREM InterruptsAreOff ==
  ASSUME TicksAssumption
  PROVE  Spec => []InterruptsMatch
<1>1. ASSUME TicksInv PROVE InterruptsMatch
  <2>1. ASSUME NEW c \in Cpus
        PROVE  LET step == pc[on[c]] IN
               /\ cpu[c].noff = Cardinality(HeldBy(c)) + (IF cpu[c].spins THEN 1 ELSE 0)
               /\ cpu[c].sie => cpu[c].noff = 0 /\ step \notin Handler
               /\ step = "running" => HeldBy(c) = {Plock(chosen[c])}
               /\ cpu[c].spins => holder[LockAt(c)] # c
               /\ step \in {"user", "done", "sleep", "uptime", "kill", "resleep"} /\ ~cpu[c].spins
                    => cpu[c].sie
    <3>1. Bits(c) /\ OnStack(c) /\ on[c] \in Threads
      BY <1>1 DEF TicksInv, TypeOK
    <3>2. Held(c) \subseteq Locks
      <4>1. At(c) = "running" => chosen[c] \in Users
        BY <1>1, SchedulerAt DEF OfScheduler, Traps
      <4>2. At(c) \in Away => on[c] \in Users
        BY <1>1, CallerAt DEF OfProcess, Traps, Away
      <4>3. QED
        BY <4>1, <4>2, HeldOnce, Distinct DEF Keeping
    <3>3. HeldBy(c) = Held(c)
      BY <1>1, <3>2 DEF TicksInv, HeldExactly, HeldBy
    <3>4. Cardinality(Held(c)) = IF At(c) \in Keeping THEN 1 ELSE 0
      BY HeldOnce, Sizes DEF Keeping
    <3>5. cpu[c].spins => holder[LockAt(c)] # c
      BY <1>1, <3>1, Wanting DEF TicksInv, HeldExactly, Bits
    <3>6. At(c) = "running" => HeldBy(c) = {Plock(chosen[c])}
      BY <3>3, HeldOnce
    <3>7. QED
      BY <3>1, <3>3, <3>4, <3>5, <3>6 DEF Bits, Count, At, InSystemCall
  <2>2. QED
    BY <2>1 DEF InterruptsMatch
<1>2. QED
  BY <1>1, TicksInvariant, PTL

LEMMA SleepInitHolds ==
  ASSUME TicksAssumption, Init
  PROVE  SleepInv
<1>1. TicksInv
  BY InitHolds
<1>2. \A p \in Users : pc[p] = "forkret" /\ since[p] = 0 /\ state[p] = "RUNNABLE"
  BY Threaded DEF Init
<1>3. beats = 0 /\ ticks = Turned(0)
  BY Readings DEF Init
<1>4. \A p \in Users : Asleep(p)
  BY <1>2, <1>3 DEF Asleep, CallStep, Handler
<1>5. QED
  BY <1>1, <1>3, <1>4 DEF SleepInv, Clock

LEMMA SleepStepKeeps ==
  ASSUME TicksAssumption, SleepInv, [Next]_vars
  PROVE  SleepInv'
<1>1. TicksInv /\ Clock
  BY DEF SleepInv
<1>2. TicksInv'
  BY <1>1, StepKeeps
<1>3. ASSUME NEW c \in Cpus, Step(c) PROVE Clock'
  BY <1>1, <1>3, PushOffClock, SchedulerClock, LeaveClock, CallerClock, HandlerClock, ClockIntrClock,
     WakeClock, SleepClock DEF Step
<1>4. ASSUME UNCHANGED vars PROVE Clock'
  BY <1>1, <1>4 DEF vars, procs, clock, sleeps, Clock, Asleep, CallStep, Wanted, Turned, At
<1>5. QED
  BY <1>2, <1>3, <1>4 DEF Next, SleepInv

\* sleep(n) ends after n ticks and not before, also when ticks wraps around,
\* and no sleeper is left behind by the wakeup() of its tick.
THEOREM SleepEndsAtItsTick ==
  ASSUME TicksAssumption
  PROVE  Spec => []SleepsExactly
<1>1. Init => SleepInv
  BY SleepInitHolds
<1>2. SleepInv /\ [Next]_vars => SleepInv'
  BY SleepStepKeeps
<1>3. ASSUME SleepInv PROVE SleepsExactly
  <2>1. ASSUME NEW p \in Users
        PROVE  /\ pc[p] = "done" /\ Head(script[p]).op = "sleep" =>
                    killed[p] \/ beats - since[p] >= Wanted(p)
               /\ state[p] = "SLEEPING" /\ holder[TicksLock] = None => beats - since[p] < Wanted(p)
    <3>1. Asleep(p)
      BY <1>3 DEF SleepInv, Clock
    <3>2. pc[p] = "done" => CallStep(p) = "done"
      BY DEF CallStep, Handler
    <3>3. ASSUME NEW c \in Cpus, At(c) = "wake" PROVE holder[TicksLock] = c /\ c # None
      BY <1>3, <3>3, HeldOnce, Distinct, Threaded DEF SleepInv, TicksInv, HeldExactly
    <3>4. QED
      BY <3>1, <3>2, <3>3 DEF Asleep
  <2>2. QED
    BY <2>1 DEF SleepsExactly, Wanted
<1>4. QED
  BY <1>1, <1>2, <1>3, PTL DEF Spec

\* All that Ticks promises, in one formula for a composition to cite.
COROLLARY ClockCorrect ==
  TicksAssumption => (Spec => [](TypeOK /\ InterruptsMatch /\ SleepsExactly))
<1>1. ASSUME TicksAssumption
      PROVE  Spec => [](TypeOK /\ InterruptsMatch /\ SleepsExactly)
  <2>1. Spec => [](TypeOK /\ TicksInv)
    BY <1>1, TicksInvariant
  <2>2. (Spec => []InterruptsMatch) /\ (Spec => []SleepsExactly)
    BY <1>1, InterruptsAreOff, SleepEndsAtItsTick
  <2>3. QED
    BY <2>1, <2>2, PTL
<1>2. QED
  BY <1>1
=============================================================================
