----------------------------- MODULE UserProofs -----------------------------
(***************************************************************************)
(* Why the semaphores of lab02 count on one CPU, for every number of       *)
(* processes and slots and all programs in which nobody closes what others *)
(* take from; why pingpong alternates, on any number of CPUs; that pipes   *)
(* are streams, by what FilesProofs shows of module Files; and why the     *)
(* console hands on whole lines and leaves nobody asleep, for every size   *)
(* of its rings and all programs.                                          *)
(***************************************************************************)
EXTENDS User, FiniteSetTheorems, FunctionTheorems, WellFoundedInduction, TLAPS

-----------------------------------------------------------------------------
(* One CPU *)

\* The sections of general_lock and of the lock of a slot, and where a
\* process is on its way to take a unit.
InGeneral == {"open_scan", "close_scan", "close_wake", "close_mark", "up_scan", "up_store",
              "up_wake", "down_scan", "down_enter", "release"}
InSlot == {"down_load", "down_store", "down_sleep", "down_exit"}
AtSlot == InSlot \cup {"down_enter", "asleep", "woken"}
Closing == {"close_wake", "close_mark"}

Typed ==
  /\ TypeOK
  /\ sem_id \in [Slots -> Int] /\ script \in [Procs -> Seq(SemCalls)]

\* Who has interrupts off has the only CPU.
Alone ==
  \A p, q \in Procs : pc[p] \notin Interruptible /\ pc[q] \notin Interruptible => p = q
Locked ==
  /\ \A p \in Procs : general_lock = p <=> pc[p] \in InGeneral
  /\ \A p \in Procs, i \in Slots : lock[i] = p <=> pc[p] \in InSlot /\ slot[p] = i
  /\ \A p \in Procs : pc[p] # "panic"

\* The call that a process is in.
InCall(p) ==
  /\ pc[p] # "user" => script[p] # << >> /\ call(p).value >= 0
  /\ pc[p] \in {"open_init", "open", "open_scan"} => call(p).op = "open"
  /\ pc[p] \in {"close", "close_scan"} \cup Closing => call(p).op = "close"
  /\ pc[p] \in {"up", "up_scan", "up_store", "up_wake"} => call(p).op = "up"
  /\ pc[p] \in {"down", "down_scan"} \cup AtSlot => call(p).op = "down"

\* The slot that it has found is open, and the value that it has loaded is
\* the value still.
OfSlot(p) ==
  /\ pc[p] \in AtSlot \cup Closing \cup {"up_store", "up_wake"} =>
       sem_are_set /\ value[slot[p]] >= 0
  /\ pc[p] \in AtSlot \cup Closing => sem_id[slot[p]] = call(p).id
  /\ pc[p] \in {"up_store", "down_store"} => reg[p] = value[slot[p]]
  /\ pc[p] = "down_store" => reg[p] > 0
  /\ pc[p] = "down_sleep" => value[slot[p]] = 0

Unset == ~sem_are_set => \A i \in Slots : sem_id[i] = 0

\* What Orderly says of the calls that are left.
ClosesAlone ==
  \A p, q \in Procs : \A j \in DOMAIN script[p], k \in DOMAIN script[q] :
    p # q /\ script[p][j].op = "close" /\ script[q][k].op = "down" =>
      script[p][j].id # script[q][k].id

\* Whoever sleeps has nothing to take, or is about to be woken.
Sleepers ==
  \A p \in Procs : pc[p] = "asleep" =>
    value[slot[p]] = 0 \/ \E q \in Procs : pc[q] = "up_wake" /\ slot[q] = slot[p]

SemInv ==
  /\ Typed /\ Alone /\ Locked /\ Unset /\ ClosesAlone /\ Sleepers
  /\ \A p \in Procs : InCall(p) /\ OfSlot(p)

-----------------------------------------------------------------------------
(* The operators *)

LEMMA LeastOf ==
  ASSUME NEW Z \in SUBSET Nat, Z # {}
  PROVE  \E x \in Z : \A y \in Z : x <= y
<1> DEFINE R == {ss \in Nat \X Nat : ss[1] < ss[2]}
<1>1. IsWellFoundedOn(R, Nat)
  BY NatLessThanWellFounded DEF OpToRel
<1>2. \A x, y \in Nat : <<x, y>> \in R <=> x < y
  OBVIOUS
<1> HIDE DEF R
<1>3. PICK x \in Z : \A y \in Z : ~(<<y, x>> \in R)
  BY <1>1, WFMin
<1>4. \A y \in Z : x \in Nat /\ y \in Nat /\ ~(y < x)
  BY <1>2, <1>3
<1>5. QED
  BY <1>4

\* FirstOf of a set of slots that is not empty is one of them.
LEMMA FirstIn ==
  ASSUME NEW Z \in SUBSET Slots, Z # {}
  PROVE  FirstOf(Z) \in Z
<1>1. Z \in SUBSET Nat /\ Z # {}
  BY DEF Slots
<1>2. PICK i \in Z : \A j \in Z : i <= j
  BY <1>1, LeastOf
<1>3. QED
  BY <1>2 DEF FirstOf

\* A CPU is free on a machine with one: everybody can be interrupted.
LEMMA NobodyElse ==
  ASSUME CPUS = 1, CpuFree, pc \in [Procs -> Steps]
  PROVE  \A q \in Procs : pc[q] \in Interruptible
<1> DEFINE Z == {q \in Procs : pc[q] \notin Interruptible}
<1>1. IsFiniteSet(Procs)
  BY SemaphoreAssumption, FS_Interval DEF Procs
<1>2. IsFiniteSet(Z)
  BY <1>1, FS_Subset
<1>3. Cardinality(Z) \in Nat /\ Cardinality(Z) < 1
  BY <1>2, FS_CardinalityType DEF CpuFree
<1>4. Z = {}
  BY <1>2, <1>3, FS_EmptySet
<1>5. QED
  BY <1>4

OthersOutside(p) == \A q \in Procs \ {p} : pc[q] \in Interruptible

LEMMA OthersWait ==
  ASSUME CPUS = 1, SemInv, NEW p \in Procs, CpuFree \/ pc[p] \notin Interruptible
  PROVE  OthersOutside(p)
  BY NobodyElse DEF SemInv, Typed, TypeOK, Alone, OthersOutside

LEMMA Sizes == NPROC \in Nat /\ 1 \in Slots /\ 0 \notin Procs /\ 0 \in 0..NPROC /\ Procs \subseteq 0..NPROC
  BY SemaphoreAssumption DEF Slots, Procs

\* What the locks are when only p can have one.
OwnLocks(p) ==
  /\ pc[p] # "panic" /\ general_lock \in {0, p} /\ \A i \in Slots : lock[i] \in {0, p}
  /\ general_lock = p <=> pc[p] \in InGeneral
  /\ \A i \in Slots : lock[i] = p <=> pc[p] \in InSlot /\ slot[p] = i

LEMMA OnlyOwn ==
  ASSUME SemInv, NEW p \in Procs, OthersOutside(p)
  PROVE  OwnLocks(p)
<1>1. \A q \in Procs \ {p} : pc[q] \notin InGeneral \cup InSlot
  BY DEF OthersOutside, Interruptible, InGeneral, InSlot
<1>2. \A x \in 0..NPROC : x = 0 \/ x \in Procs
  BY DEF Procs
<1>3. general_lock \in {0, p} /\ \A i \in Slots : lock[i] \in {0, p}
  BY <1>1, <1>2 DEF SemInv, Typed, TypeOK, Locked
<1>4. QED
  BY <1>3 DEF SemInv, Locked, OwnLocks

LEMMA LocksKept ==
  ASSUME NEW p \in Procs, OthersOutside(p)', OwnLocks(p)'
  PROVE  Alone' /\ Locked'
<1>1. \A q \in Procs \ {p} : pc'[q] \notin InGeneral \cup InSlot \cup {"panic"}
  BY DEF OthersOutside, Interruptible, InGeneral, InSlot
<1>2. Alone'
  BY DEF Alone, OthersOutside
<1>3. \A q \in Procs : general_lock' = q <=> pc'[q] \in InGeneral
  BY <1>1, Sizes DEF OwnLocks
<1>4. \A q \in Procs, i \in Slots : lock'[i] = q <=> pc'[q] \in InSlot /\ slot'[q] = i
  BY <1>1, Sizes DEF OwnLocks
<1>5. QED
  BY <1>1, <1>2, <1>3, <1>4 DEF Locked, OwnLocks

LEMMA CallType ==
  ASSUME SemInv, NEW p \in Procs, script[p] # << >>
  PROVE  /\ call(p) \in SemCalls /\ script[p] \in Seq(SemCalls)
         /\ 1 \in DOMAIN script[p] /\ call(p) = script[p][1]
         /\ Tail(script[p]) \in Seq(SemCalls)
         /\ \A j \in DOMAIN Tail(script[p]) :
              j + 1 \in DOMAIN script[p] /\ Tail(script[p])[j] = script[p][j + 1]
<1>1. script[p] \in Seq(SemCalls)
  BY DEF SemInv, Typed
<1>2. QED
  BY <1>1 DEF call

\* Whoever closes a semaphore finds nobody at its slot.
LEMMA NobodyAtSlot ==
  ASSUME SemInv, NEW p \in Procs, NEW q \in Procs, p # q, pc[p] # "user",
         call(p).op = "close", pc[q] \in AtSlot, NEW i \in Slots,
         sem_id[i] = call(p).id
  PROVE  slot[q] # i
<1>1. script[p] # << >> /\ script[q] # << >> /\ call(q).op = "down"
  BY DEF SemInv, InCall, AtSlot, InSlot
<1>2. 1 \in DOMAIN script[p] /\ 1 \in DOMAIN script[q]
      /\ call(p) = script[p][1] /\ call(q) = script[q][1]
  BY <1>1, CallType
<1>3. call(p).id # call(q).id
  BY <1>1, <1>2 DEF SemInv, ClosesAlone
<1>4. sem_id[slot[q]] = call(q).id
  BY DEF SemInv, OfSlot
<1>5. QED
  BY <1>3, <1>4

\* The calls that are left of a script are calls of it.
LEMMA ReturnCalls ==
  ASSUME SemInv, NEW p \in Procs, script[p] # << >>, script' = [script EXCEPT ![p] = Tail(@)]
  PROVE  script' \in [Procs -> Seq(SemCalls)] /\ ClosesAlone'
<1>1. script \in [Procs -> Seq(SemCalls)]
  BY DEF SemInv, Typed
<1>2. script' \in [Procs -> Seq(SemCalls)]
  BY <1>1, CallType
<1>3. ASSUME NEW q \in Procs, NEW j \in DOMAIN script'[q]
      PROVE  \E k \in DOMAIN script[q] : script'[q][j] = script[q][k]
  BY <1>1, <1>3, CallType
<1>4. ClosesAlone'
  BY <1>3 DEF SemInv, ClosesAlone
<1>5. QED
  BY <1>2, <1>4

-----------------------------------------------------------------------------
(* The steps *)

LEMMA EnterKeeps ==
  ASSUME SemInv, NEW p \in Procs, Enter(p)
  PROVE  SemInv'
<1> USE DEF Enter, Goto, vars, table, spinlocks, flags
<1>1. call(p) \in SemCalls /\ script[p] # << >> /\ call(p).value >= 0
  BY CallType DEF Valid
<1>2. /\ pc \in [Procs -> Steps] /\ pc[p] = "user"
      /\ pc' = [pc EXCEPT ![p] = pc'[p]] /\ pc'[p] \in {"open_init", "open", "close", "up", "down"}
      /\ pc'[p] = "open_init" \/ pc'[p] = "open" => call(p).op = "open"
      /\ pc'[p] \notin {"open_init", "open"} => pc'[p] = call(p).op
  BY <1>1 DEF SemInv, Typed, TypeOK, SemCalls
<1> HIDE DEF Enter
<1>3. UNCHANGED <<sem_id, value, lock, general_lock, lock_set, sem_are_set, script, slot, reg>>
  BY DEF Enter
<1>4. Typed'
  BY <1>2, <1>3 DEF SemInv, Typed, TypeOK, Steps, Interruptible
<1>5. Alone' /\ Locked'
  BY <1>2, <1>3 DEF SemInv, Alone, Locked, Interruptible, InGeneral, InSlot
<1>6. Unset' /\ ClosesAlone'
  BY <1>3 DEF SemInv, Unset, ClosesAlone
<1>7. Sleepers'
  BY <1>2, <1>3 DEF SemInv, Sleepers
<1>8. ASSUME NEW q \in Procs PROVE (InCall(q) /\ OfSlot(q))'
  BY <1>1, <1>2, <1>3 DEF SemInv, InCall, OfSlot, call, AtSlot, InSlot, Closing
<1>9. QED
  BY <1>4, <1>5, <1>6, <1>7, <1>8 DEF SemInv
LEMMA OpenNegativeKeeps ==
  ASSUME SemInv, NEW p \in Procs, OpenNegative(p)
  PROVE  SemInv'
<1>1. script[p] # << >> /\ pc[p] = "user"
  BY DEF OpenNegative
<1>2. /\ script' = [script EXCEPT ![p] = Tail(@)] /\ slot' = [slot EXCEPT ![p] = 1]
      /\ reg' = [reg EXCEPT ![p] = 0] /\ pc' = [pc EXCEPT ![p] = "user"]
      /\ UNCHANGED <<sem_id, value, lock, general_lock, lock_set, sem_are_set>>
  BY DEF OpenNegative, Return, Goto, table, spinlocks, flags
<1>3. script' \in [Procs -> Seq(SemCalls)] /\ ClosesAlone'
  BY <1>1, <1>2, ReturnCalls
<1>4. Typed'
  BY <1>2, <1>3, Sizes DEF SemInv, Typed, TypeOK, Steps, Interruptible
<1>5. Alone' /\ Locked' /\ Unset'
  BY <1>1, <1>2 DEF SemInv, Typed, TypeOK, Alone, Locked, Interruptible, InGeneral, InSlot, Unset
<1>6. Sleepers'
  BY <1>1, <1>2 DEF SemInv, Typed, TypeOK, Sleepers
<1>7. ASSUME NEW q \in Procs PROVE (InCall(q) /\ OfSlot(q))'
  BY <1>1, <1>2 DEF SemInv, Typed, TypeOK, InCall, OfSlot, call, AtSlot, InSlot, Closing
<1>8. QED
  BY <1>3, <1>4, <1>5, <1>6, <1>7 DEF SemInv

LEMMA AcquireGeneralKeeps ==
  ASSUME CPUS = 1, SemInv, NEW p \in Procs, AcquireGeneral(p)
  PROVE  SemInv'
<1>1. /\ general_lock' = p /\ pc' = [pc EXCEPT ![p] = Scanning[pc[p]]]
      /\ pc[p] \in {"open", "close", "up", "down"}
      /\ UNCHANGED <<sem_id, value, lock, lock_set, sem_are_set, script, slot, reg>>
  BY DEF AcquireGeneral, Goto, table, flags
<1>2. /\ pc[p] = "open" => Scanning[pc[p]] = "open_scan"
      /\ pc[p] = "close" => Scanning[pc[p]] = "close_scan"
      /\ pc[p] = "up" => Scanning[pc[p]] = "up_scan"
      /\ pc[p] = "down" => Scanning[pc[p]] = "down_scan"
  BY DEF Scanning
<1>3. OthersOutside(p)
  BY OthersWait DEF AcquireGeneral
<1>4. Typed'
  BY <1>1, <1>2 DEF SemInv, Typed, TypeOK, Steps, Interruptible, Procs
<1>5. Alone' /\ Locked'
  <2>1. OthersOutside(p)'
    BY <1>1, <1>2, <1>3 DEF SemInv, Typed, TypeOK, OthersOutside, Interruptible
  <2>2. OwnLocks(p)
    BY <1>3, OnlyOwn
  <2>3. OwnLocks(p)'
    BY <1>1, <1>2, <1>3, <2>2, Sizes DEF SemInv, Typed, TypeOK, OwnLocks, InGeneral, InSlot
  <2>4. QED
    BY <2>1, <2>3, LocksKept
<1>9. Unset' /\ ClosesAlone'
  BY <1>1 DEF SemInv, Unset, ClosesAlone
<1>6. Sleepers'
  BY <1>1, <1>2 DEF SemInv, Typed, TypeOK, Sleepers
<1>7. ASSUME NEW q \in Procs PROVE (InCall(q) /\ OfSlot(q))'
  BY <1>1, <1>2 DEF SemInv, Typed, TypeOK, InCall, OfSlot, call, AtSlot, InSlot, Closing
<1>8. QED
  BY <1>4, <1>5, <1>6, <1>7, <1>9 DEF SemInv

LEMMA ReleaseGeneralKeeps ==
  ASSUME CPUS = 1, SemInv, NEW p \in Procs, ReleaseGeneral(p)
  PROVE  SemInv'
<1>1. pc[p] = "release" /\ general_lock = p /\ script[p] # << >>
  BY DEF ReleaseGeneral, SemInv, Locked, InGeneral, InCall
<1>2. /\ script' = [script EXCEPT ![p] = Tail(@)] /\ slot' = [slot EXCEPT ![p] = 1]
      /\ reg' = [reg EXCEPT ![p] = 0] /\ pc' = [pc EXCEPT ![p] = "user"] /\ general_lock' = 0
      /\ UNCHANGED <<sem_id, value, lock, lock_set, sem_are_set>>
  BY <1>1 DEF ReleaseGeneral, Return, Goto, table, flags
<1>3. script' \in [Procs -> Seq(SemCalls)] /\ ClosesAlone'
  BY <1>1, <1>2, ReturnCalls
<1>4. OthersOutside(p)
  BY <1>1, OthersWait DEF Interruptible
<1>5. Typed'
  BY <1>2, <1>3, Sizes DEF SemInv, Typed, TypeOK, Steps, Interruptible
<1>6. Alone' /\ Locked'
  <2>1. OthersOutside(p)'
    BY <1>1, <1>2, <1>4 DEF SemInv, Typed, TypeOK, OthersOutside, Interruptible
  <2>2. OwnLocks(p)
    BY <1>4, OnlyOwn
  <2>3. OwnLocks(p)'
    BY <1>1, <1>2, <1>4, <2>2, Sizes DEF SemInv, Typed, TypeOK, OwnLocks, InGeneral, InSlot
  <2>4. QED
    BY <2>1, <2>3, LocksKept
<1>7. Sleepers'
  BY <1>1, <1>2 DEF SemInv, Typed, TypeOK, Sleepers
<1>8. ASSUME NEW q \in Procs PROVE (InCall(q) /\ OfSlot(q))'
  BY <1>1, <1>2 DEF SemInv, Typed, TypeOK, InCall, OfSlot, call, AtSlot, InSlot, Closing
<1>9. Unset'
  BY <1>2 DEF SemInv, Unset
<1>10. QED
  BY <1>3, <1>5, <1>6, <1>7, <1>8, <1>9 DEF SemInv

LEMMA WakeupKeeps ==
  ASSUME CPUS = 1, SemInv, NEW p \in Procs, Wakeup(p)
  PROVE  SemInv'
<1>1. /\ pc[p] \in {"up_wake", "close_wake"} /\ pc' \in [Procs -> Steps]
      /\ pc'[p] = IF pc[p] = "close_wake" THEN "close_mark" ELSE "release"
      /\ \A q \in Procs \ {p} :
           pc'[q] = IF pc[q] = "asleep" /\ slot[q] = slot[p] THEN "woken" ELSE pc[q]
      /\ UNCHANGED <<sem_id, value, lock, general_lock, lock_set, sem_are_set, script, slot, reg>>
  BY DEF Wakeup, table, spinlocks, flags, SemInv, Typed, TypeOK, Steps, Interruptible
<1>2. OthersOutside(p)
  BY <1>1, OthersWait DEF Interruptible
<1>3. Typed'
  BY <1>1 DEF SemInv, Typed, TypeOK
<1>4. Alone' /\ Locked'
  <2>1. OthersOutside(p)'
    BY <1>1, <1>2 DEF SemInv, Typed, TypeOK, OthersOutside, Interruptible
  <2>2. OwnLocks(p)
    BY <1>2, OnlyOwn
  <2>3. OwnLocks(p)'
    BY <1>1, <1>2, <2>2, Sizes DEF SemInv, Typed, TypeOK, OwnLocks, InGeneral, InSlot
  <2>4. QED
    BY <2>1, <2>3, LocksKept
<1>5. Unset' /\ ClosesAlone'
  BY <1>1 DEF SemInv, Unset, ClosesAlone
<1>6. Sleepers'
  <2> SUFFICES ASSUME NEW q \in Procs, pc'[q] = "asleep"
               PROVE  value'[slot'[q]] = 0 \/ \E z \in Procs : pc'[z] = "up_wake" /\ slot'[z] = slot'[q]
    BY DEF Sleepers
  <2>1. q # p /\ pc[q] = "asleep" /\ slot[q] # slot[p]
    BY <1>1
  <2>2. \A z \in Procs \ {p} : pc[z] # "up_wake"
    BY <1>2 DEF OthersOutside, Interruptible
  <2>3. value[slot[q]] = 0
    BY <2>1, <2>2 DEF SemInv, Sleepers
  <2>4. QED
    BY <1>1, <2>3
<1>7. ASSUME NEW q \in Procs PROVE (InCall(q) /\ OfSlot(q))'
  BY <1>1 DEF SemInv, Typed, TypeOK, InCall, OfSlot, call, AtSlot, InSlot, Closing
<1>8. QED
  BY <1>3, <1>4, <1>5, <1>6, <1>7 DEF SemInv

LEMMA OpenInitKeeps ==
  ASSUME CPUS = 1, SemInv, NEW p \in Procs, OpenInit(p)
  PROVE  SemInv'
<1>1. /\ pc[p] = "open_init" /\ general_lock' = 0 /\ lock_set' = TRUE
      /\ pc' = [pc EXCEPT ![p] = "open"]
      /\ UNCHANGED <<sem_id, value, lock, sem_are_set, script, slot, reg>>
  BY DEF OpenInit, Goto, table
<1>2. OthersOutside(p)
  BY OthersWait DEF OpenInit
<1>3. Typed'
  BY <1>1, Sizes DEF SemInv, Typed, TypeOK, Steps, Interruptible
<1>4. Alone' /\ Locked'
  <2>1. OthersOutside(p)'
    BY <1>1, <1>2 DEF SemInv, Typed, TypeOK, OthersOutside, Interruptible
  <2>2. OwnLocks(p)
    BY <1>2, OnlyOwn
  <2>3. OwnLocks(p)'
    BY <1>1, <1>2, <2>2, Sizes DEF SemInv, Typed, TypeOK, OwnLocks, InGeneral, InSlot
  <2>4. QED
    BY <2>1, <2>3, LocksKept
<1>8. Unset' /\ ClosesAlone'
  BY <1>1 DEF SemInv, Unset, ClosesAlone
<1>5. Sleepers'
  BY <1>1 DEF SemInv, Typed, TypeOK, Sleepers
<1>6. ASSUME NEW q \in Procs PROVE (InCall(q) /\ OfSlot(q))'
  BY <1>1 DEF SemInv, Typed, TypeOK, InCall, OfSlot, call, AtSlot, InSlot, Closing
<1>7. QED
  BY <1>3, <1>4, <1>5, <1>6, <1>8 DEF SemInv

\* The slot that sem_open() takes is closed, so nobody is at it.
LEMMA OpenScanKeeps ==
  ASSUME CPUS = 1, SemInv, NEW p \in Procs, OpenScan(p)
  PROVE  SemInv'
<1> DEFINE old == IF sem_are_set THEN value ELSE [i \in Slots |-> Closed]
           free == {i \in Slots : old[i] = Closed}
           first == FirstOf(free)
<1>1. /\ pc[p] = "open_scan" /\ pc' = [pc EXCEPT ![p] = "release"] /\ sem_are_set' = TRUE
      /\ UNCHANGED <<general_lock, lock_set, script, slot, reg>>
  BY DEF OpenScan, Goto
<1>2. call(p) \in SemCalls /\ call(p).value >= 0
  BY <1>1, CallType DEF SemInv, InCall
<1>3. call(p).id \in Int \ {0} /\ call(p).value \in Nat
  BY <1>2 DEF SemCalls
<1>4. OthersOutside(p)
  BY <1>1, OthersWait DEF Interruptible
<1>5. old \in [Slots -> Nat \cup {Closed}]
  BY DEF SemInv, Typed, TypeOK
<1>6. PICK i \in Slots :
        \/ /\ old[i] = Closed /\ sem_id' = [sem_id EXCEPT ![i] = call(p).id]
           /\ value' = [old EXCEPT ![i] = call(p).value] /\ lock' = [lock EXCEPT ![i] = 0]
        \/ /\ old = value /\ UNCHANGED <<sem_id, value, lock>>
  <2>1. CASE free # {}
    <3>1. first \in free
      BY <2>1, FirstIn
    <3>2. /\ sem_id' = [sem_id EXCEPT ![first] = call(p).id] /\ lock' = [lock EXCEPT ![first] = 0]
          /\ value' = [old EXCEPT ![first] = call(p).value]
      BY <2>1 DEF OpenScan
    <3>3. QED
      BY <3>1, <3>2
  <2>2. CASE free = {}
    <3>1. 1 \in Slots
      BY SemaphoreAssumption DEF Slots
    <3>2. sem_are_set
      BY <2>2, <3>1
    <3>3. UNCHANGED <<sem_id, value, lock>>
      BY <2>2 DEF OpenScan
    <3>4. QED
      BY <3>1, <3>2, <3>3
  <2>3. QED
    BY <2>1, <2>2
<1>7. ~sem_are_set => \A q \in Procs : pc[q] \notin AtSlot \cup Closing \cup {"up_store", "up_wake"}
  BY DEF SemInv, OfSlot
<1>8. sem_are_set => old = value
  OBVIOUS
<1> HIDE DEF old
<1>9. Typed'
  <2>1. sem_id' \in [Slots -> Int]
    BY <1>3, <1>6 DEF SemInv, Typed
  <2>2. value' \in [Slots -> Nat \cup {Closed}]
    BY <1>3, <1>5, <1>6
  <2>3. lock' \in [Slots -> 0..NPROC]
    BY <1>6, Sizes DEF SemInv, Typed, TypeOK
  <2>4. QED
    BY <1>1, <2>1, <2>2, <2>3 DEF SemInv, Typed, TypeOK, Steps
<1>10. Alone' /\ Locked'
  <2>1. OthersOutside(p)'
    BY <1>1, <1>4, <1>6 DEF SemInv, Typed, TypeOK, OthersOutside, Interruptible
  <2>2. OwnLocks(p)
    BY <1>4, OnlyOwn
  <2>3. OwnLocks(p)'
    BY <1>1, <1>4, <1>6, <2>2, Sizes DEF SemInv, Typed, TypeOK, OwnLocks, InGeneral, InSlot
  <2>4. QED
    BY <2>1, <2>3, LocksKept
<1>11. Unset' /\ ClosesAlone'
  BY <1>1 DEF SemInv, Unset, ClosesAlone
<1>12. \A q \in Procs : pc[q] \in AtSlot \cup Closing \cup {"up_store", "up_wake"} =>
         value'[slot[q]] = value[slot[q]] /\ sem_id'[slot[q]] = sem_id[slot[q]] /\ sem_are_set
  BY <1>6, <1>7, <1>8 DEF SemInv, Typed, TypeOK, OfSlot, Closed
<1>13. Sleepers'
  BY <1>1, <1>12 DEF SemInv, Typed, TypeOK, Sleepers, AtSlot
<1>14. ASSUME NEW q \in Procs PROVE (InCall(q) /\ OfSlot(q))'
  BY <1>1, <1>12 DEF SemInv, Typed, TypeOK, InCall, OfSlot, call, AtSlot, InSlot, Closing
<1>15. QED
  BY <1>9, <1>10, <1>11, <1>13, <1>14 DEF SemInv

\* Nobody is at the slot that sem_close() closes.
LEMMA CloseScanKeeps ==
  ASSUME CPUS = 1, SemInv, NEW p \in Procs, CloseScan(p)
  PROVE  SemInv'
<1> DEFINE found == {i \in Slots : sem_id[i] = call(p).id}
           first == FirstOf(found)
<1>1. pc[p] = "close_scan" /\ UNCHANGED <<sem_id, lock, general_lock, lock_set, sem_are_set, script, reg>>
  BY DEF CloseScan, spinlocks, flags
<1>2. call(p) \in SemCalls /\ call(p).op = "close"
  BY <1>1, CallType DEF SemInv, InCall
<1>3. call(p).id \in Int \ {0}
  BY <1>2 DEF SemCalls
<1>4. OthersOutside(p)
  BY <1>1, OthersWait DEF Interruptible
<1>5. \/ \E i \in Slots :
           /\ sem_id[i] = call(p).id /\ value[i] # Closed /\ value' = [value EXCEPT ![i] = NPROC]
           /\ slot' = [slot EXCEPT ![p] = i] /\ pc' = [pc EXCEPT ![p] = "close_wake"]
      \/ pc' = [pc EXCEPT ![p] = "release"] /\ UNCHANGED <<value, slot>>
  <2>1. found # {} => first \in found
    BY FirstIn
  <2>2. QED
    BY <2>1 DEF CloseScan, Goto
<1>6. CASE pc' = [pc EXCEPT ![p] = "release"] /\ UNCHANGED <<value, slot>>
  <2>1. Typed'
    BY <1>1, <1>6 DEF SemInv, Typed, TypeOK, Steps
  <2>2. Alone' /\ Locked'
    <3>1. OthersOutside(p)'
      BY <1>1, <1>4, <1>6 DEF SemInv, Typed, TypeOK, OthersOutside, Interruptible
    <3>2. OwnLocks(p)
      BY <1>4, OnlyOwn
    <3>3. OwnLocks(p)'
      BY <1>1, <1>4, <1>6, <3>2, Sizes DEF SemInv, Typed, TypeOK, OwnLocks, InGeneral, InSlot
    <3>4. QED
      BY <3>1, <3>3, LocksKept
  <2>6. Unset' /\ ClosesAlone'
    BY <1>1 DEF SemInv, Unset, ClosesAlone
  <2>3. Sleepers'
    BY <1>1, <1>6 DEF SemInv, Typed, TypeOK, Sleepers
  <2>4. ASSUME NEW q \in Procs PROVE (InCall(q) /\ OfSlot(q))'
    BY <1>1, <1>6 DEF SemInv, Typed, TypeOK, InCall, OfSlot, call, AtSlot, InSlot, Closing
  <2>5. QED
    BY <2>1, <2>2, <2>3, <2>4, <2>6 DEF SemInv
<1>7. CASE \E i \in Slots :
        /\ sem_id[i] = call(p).id /\ value[i] # Closed /\ value' = [value EXCEPT ![i] = NPROC]
        /\ slot' = [slot EXCEPT ![p] = i] /\ pc' = [pc EXCEPT ![p] = "close_wake"]
  <2>1. PICK i \in Slots :
          /\ sem_id[i] = call(p).id /\ value[i] # Closed /\ value' = [value EXCEPT ![i] = NPROC]
          /\ slot' = [slot EXCEPT ![p] = i] /\ pc' = [pc EXCEPT ![p] = "close_wake"]
    BY <1>7
  <2>2. \A q \in Procs \ {p} : pc[q] \in AtSlot => slot[q] # i
    BY <1>1, <1>2, <2>1, NobodyAtSlot
  <2>3. sem_are_set /\ NPROC \in Nat
    BY <1>3, <2>1, SemaphoreAssumption DEF SemInv, Unset
  <2>4. Typed'
    BY <1>1, <2>1, <2>3 DEF SemInv, Typed, TypeOK, Steps
  <2>5. Alone' /\ Locked'
    <3>1. OthersOutside(p)'
      BY <1>1, <1>4, <2>1 DEF SemInv, Typed, TypeOK, OthersOutside, Interruptible
    <3>2. OwnLocks(p)
      BY <1>4, OnlyOwn
    <3>3. OwnLocks(p)'
      BY <1>1, <1>4, <2>1, <3>2, Sizes DEF SemInv, Typed, TypeOK, OwnLocks, InGeneral, InSlot
    <3>4. QED
      BY <3>1, <3>3, LocksKept
  <2>11. Unset' /\ ClosesAlone'
    BY <1>1 DEF SemInv, Unset, ClosesAlone
  <2>6. Sleepers'
    BY <1>1, <1>4, <2>1, <2>2 DEF SemInv, Typed, TypeOK, Sleepers, AtSlot, OthersOutside, Interruptible
  <2>7. ASSUME NEW q \in Procs PROVE InCall(q)'
    BY <1>1, <2>1 DEF SemInv, Typed, TypeOK, InCall, call, AtSlot, InSlot, Closing
  <2>8. ASSUME NEW q \in Procs \ {p} PROVE OfSlot(q)'
    BY <1>1, <1>4, <2>1, <2>2
       DEF SemInv, Typed, TypeOK, OfSlot, call, OthersOutside, Interruptible, AtSlot, InSlot, Closing
  <2>9. OfSlot(p)'
    BY <1>1, <2>1, <2>3 DEF SemInv, Typed, TypeOK, OfSlot, call, AtSlot, InSlot, Closing
  <2>10. QED
    BY <2>4, <2>5, <2>6, <2>7, <2>8, <2>9, <2>11 DEF SemInv
<1>8. QED
  BY <1>5, <1>6, <1>7

LEMMA CloseMarkKeeps ==
  ASSUME CPUS = 1, SemInv, NEW p \in Procs, CloseMark(p)
  PROVE  SemInv'
<1>1. /\ pc[p] = "close_mark" /\ pc' = [pc EXCEPT ![p] = "release"]
      /\ value' = [value EXCEPT ![slot[p]] = Closed]
      /\ UNCHANGED <<sem_id, lock, general_lock, lock_set, sem_are_set, script, slot, reg>>
  BY DEF CloseMark, Goto, spinlocks, flags
<1>2. /\ call(p).op = "close" /\ sem_id[slot[p]] = call(p).id /\ sem_are_set
      /\ slot[p] \in Slots
  BY <1>1 DEF SemInv, Typed, TypeOK, InCall, OfSlot, Closing
<1>3. OthersOutside(p)
  BY <1>1, OthersWait DEF Interruptible
<1>4. \A q \in Procs \ {p} : pc[q] \in AtSlot => slot[q] # slot[p]
  BY <1>1, <1>2, NobodyAtSlot
<1>5. Typed'
  BY <1>1 DEF SemInv, Typed, TypeOK, Steps
<1>6. Alone' /\ Locked'
  <2>1. OthersOutside(p)'
    BY <1>1, <1>3 DEF SemInv, Typed, TypeOK, OthersOutside, Interruptible
  <2>2. OwnLocks(p)
    BY <1>3, OnlyOwn
  <2>3. OwnLocks(p)'
    BY <1>1, <1>3, <2>2, Sizes DEF SemInv, Typed, TypeOK, OwnLocks, InGeneral, InSlot
  <2>4. QED
    BY <2>1, <2>3, LocksKept
<1>11. Unset' /\ ClosesAlone'
  BY <1>1 DEF SemInv, Unset, ClosesAlone
<1>7. Sleepers'
  BY <1>1, <1>4 DEF SemInv, Typed, TypeOK, Sleepers, AtSlot
<1>8. ASSUME NEW q \in Procs PROVE InCall(q)'
  BY <1>1 DEF SemInv, Typed, TypeOK, InCall, call, AtSlot, InSlot, Closing
<1>9. ASSUME NEW q \in Procs PROVE OfSlot(q)'
  BY <1>1, <1>3, <1>4
     DEF SemInv, Typed, TypeOK, OfSlot, call, OthersOutside, Interruptible, AtSlot, InSlot, Closing
<1>10. QED
  BY <1>5, <1>6, <1>7, <1>8, <1>9, <1>11 DEF SemInv
LEMMA UpScanKeeps ==
  ASSUME CPUS = 1, SemInv, NEW p \in Procs, UpScan(p)
  PROVE  SemInv'
<1>1. OthersOutside(p)
  BY OthersWait DEF UpScan, Interruptible
<1>2. OwnLocks(p)
  BY <1>1, OnlyOwn
<1>3. \/ \E i \in Slots :
           /\ sem_id[i] = call(p).id /\ value[i] >= 0 /\ slot' = [slot EXCEPT ![p] = i]
           /\ reg' = [reg EXCEPT ![p] = value[i]] /\ pc' = [pc EXCEPT ![p] = "up_store"]
      \/ pc' = [pc EXCEPT ![p] = "release"] /\ UNCHANGED <<slot, reg>>
  <2>1. OpenSlots(call(p).id) # {} => FirstOf(OpenSlots(call(p).id)) \in OpenSlots(call(p).id)
    BY FirstIn DEF OpenSlots
  <2>2. QED
    BY <2>1 DEF UpScan, Goto, OpenSlots
<1>4. /\ pc[p] = "up_scan" /\ call(p).id # 0 /\ call(p).op = "up"
      /\ UNCHANGED <<sem_id, value, lock, general_lock, lock_set, sem_are_set, script>>
  <2>1. pc[p] = "up_scan"
    BY DEF UpScan
  <2>2. call(p) \in SemCalls /\ call(p).op = "up"
    BY <2>1, CallType DEF SemInv, InCall
  <2>3. QED
    BY <2>1, <2>2 DEF UpScan, SemCalls, table, spinlocks, flags
<1>5. Typed'
  <2>1. slot' \in [Procs -> Slots] /\ reg' \in [Procs -> Int] /\ pc' \in [Procs -> Steps]
    <3>1. \A i \in Slots : value[i] \in Int
      BY DEF SemInv, Typed, TypeOK, Closed
    <3>2. QED
      BY <1>3, <3>1 DEF SemInv, Typed, TypeOK, Steps
  <2>2. QED
    BY <1>4, <2>1 DEF SemInv, Typed, TypeOK
<1>6. Alone' /\ Locked'
  <2>1. OthersOutside(p)'
    BY <1>1, <1>3, <1>4 DEF SemInv, Typed, TypeOK, OthersOutside, Interruptible
  <2>2. OwnLocks(p)'
    BY <1>2, <1>3, <1>4, Sizes DEF SemInv, Typed, TypeOK, OwnLocks, InGeneral, InSlot
  <2>3. QED
    BY <2>1, <2>2, LocksKept
<1>7. Unset' /\ ClosesAlone'
  BY <1>3, <1>4 DEF SemInv, Unset, ClosesAlone
<1>8. Sleepers'
  BY <1>1, <1>3, <1>4 DEF SemInv, Typed, TypeOK, Sleepers, OthersOutside, Interruptible
<1>9. ASSUME NEW q \in Procs \ {p} PROVE (InCall(q) /\ OfSlot(q))'
  BY <1>3, <1>4 DEF SemInv, Typed, TypeOK, InCall, OfSlot, call
<1>10. InCall(p)'
  BY <1>3, <1>4 DEF SemInv, Typed, TypeOK, InCall, call, AtSlot, InSlot, Closing
<1>11. OfSlot(p)'
  <2>1. \A i \in Slots : sem_id[i] = call(p).id => sem_are_set
    BY <1>4 DEF SemInv, Unset
  <2>2. QED
    BY <1>3, <1>4, <2>1 DEF SemInv, Typed, TypeOK, OfSlot, call, AtSlot, InSlot, Closing
<1>12. QED
  BY <1>5, <1>6, <1>7, <1>8, <1>9, <1>10, <1>11 DEF SemInv

LEMMA DownScanKeeps ==
  ASSUME CPUS = 1, SemInv, NEW p \in Procs, DownScan(p)
  PROVE  SemInv'
<1>1. OthersOutside(p)
  BY OthersWait DEF DownScan, Interruptible
<1>2. OwnLocks(p)
  BY <1>1, OnlyOwn
<1>3. \/ \E i \in Slots :
           /\ sem_id[i] = call(p).id /\ value[i] >= 0 /\ slot' = [slot EXCEPT ![p] = i]
           /\ reg' = reg /\ pc' = [pc EXCEPT ![p] = "down_enter"]
      \/ pc' = [pc EXCEPT ![p] = "release"] /\ UNCHANGED <<slot, reg>>
  <2>1. OpenSlots(call(p).id) # {} => FirstOf(OpenSlots(call(p).id)) \in OpenSlots(call(p).id)
    BY FirstIn DEF OpenSlots
  <2>2. QED
    BY <2>1 DEF DownScan, Goto, OpenSlots
<1>4. /\ pc[p] = "down_scan" /\ call(p).id # 0 /\ call(p).op = "down"
      /\ UNCHANGED <<sem_id, value, lock, general_lock, lock_set, sem_are_set, script>>
  <2>1. pc[p] = "down_scan"
    BY DEF DownScan
  <2>2. call(p) \in SemCalls /\ call(p).op = "down"
    BY <2>1, CallType DEF SemInv, InCall
  <2>3. QED
    BY <2>1, <2>2 DEF DownScan, SemCalls, table, spinlocks, flags
<1>5. Typed'
  <2>1. slot' \in [Procs -> Slots] /\ reg' \in [Procs -> Int] /\ pc' \in [Procs -> Steps]
    <3>1. \A i \in Slots : value[i] \in Int
      BY DEF SemInv, Typed, TypeOK, Closed
    <3>2. QED
      BY <1>3, <3>1 DEF SemInv, Typed, TypeOK, Steps
  <2>2. QED
    BY <1>4, <2>1 DEF SemInv, Typed, TypeOK
<1>6. Alone' /\ Locked'
  <2>1. OthersOutside(p)'
    BY <1>1, <1>3, <1>4 DEF SemInv, Typed, TypeOK, OthersOutside, Interruptible
  <2>2. OwnLocks(p)'
    BY <1>2, <1>3, <1>4, Sizes DEF SemInv, Typed, TypeOK, OwnLocks, InGeneral, InSlot
  <2>3. QED
    BY <2>1, <2>2, LocksKept
<1>7. Unset' /\ ClosesAlone'
  BY <1>3, <1>4 DEF SemInv, Unset, ClosesAlone
<1>8. Sleepers'
  BY <1>1, <1>3, <1>4 DEF SemInv, Typed, TypeOK, Sleepers, OthersOutside, Interruptible
<1>9. ASSUME NEW q \in Procs \ {p} PROVE (InCall(q) /\ OfSlot(q))'
  BY <1>3, <1>4 DEF SemInv, Typed, TypeOK, InCall, OfSlot, call
<1>10. InCall(p)'
  BY <1>3, <1>4 DEF SemInv, Typed, TypeOK, InCall, call, AtSlot, InSlot, Closing
<1>11. OfSlot(p)'
  <2>1. \A i \in Slots : sem_id[i] = call(p).id => sem_are_set
    BY <1>4 DEF SemInv, Unset
  <2>2. QED
    BY <1>3, <1>4, <2>1 DEF SemInv, Typed, TypeOK, OfSlot, call, AtSlot, InSlot, Closing
<1>12. QED
  BY <1>5, <1>6, <1>7, <1>8, <1>9, <1>10, <1>11 DEF SemInv

LEMMA UpStoreKeeps ==
  ASSUME CPUS = 1, SemInv, NEW p \in Procs, UpStore(p)
  PROVE  SemInv'
<1>1. OthersOutside(p)
  BY OthersWait DEF UpStore, Interruptible
<1>2. OwnLocks(p)
  BY <1>1, OnlyOwn
<1>3. /\ pc[p] = "up_store" /\ reg[p] = value[slot[p]] /\ reg[p] \in Nat /\ slot[p] \in Slots
      /\ value' = [value EXCEPT ![slot[p]] = reg[p] + 1]
      /\ pc' = [pc EXCEPT ![p] = IF reg[p] = 0 THEN "up_wake" ELSE "release"]
      /\ UNCHANGED <<sem_id, lock, general_lock, lock_set, sem_are_set, script, slot, reg>>
  BY DEF UpStore, Goto, spinlocks, flags, SemInv, Typed, TypeOK, OfSlot, Closed
<1>5. Typed'
  BY <1>3, Sizes DEF SemInv, Typed, TypeOK, Steps, Interruptible
<1>6. Alone' /\ Locked'
  <2>1. OthersOutside(p)'
    BY <1>1, <1>3 DEF SemInv, Typed, TypeOK, OthersOutside, Interruptible
  <2>2. OwnLocks(p)'
    BY <1>2, <1>3, Sizes DEF SemInv, Typed, TypeOK, OwnLocks, InGeneral, InSlot
  <2>3. QED
    BY <2>1, <2>2, LocksKept
<1>7. Unset' /\ ClosesAlone'
  BY <1>3 DEF SemInv, Unset, ClosesAlone
<1>8. Sleepers'
  BY <1>1, <1>3 DEF SemInv, Typed, TypeOK, Sleepers, OthersOutside, Interruptible
<1>9. ASSUME NEW q \in Procs PROVE (InCall(q) /\ OfSlot(q))'
  BY <1>1, <1>3 DEF SemInv, Typed, TypeOK, InCall, OfSlot, call, OthersOutside, Interruptible, AtSlot, InSlot, Closing
<1>10. QED
  BY <1>5, <1>6, <1>7, <1>8, <1>9 DEF SemInv

LEMMA DownEnterKeeps ==
  ASSUME CPUS = 1, SemInv, NEW p \in Procs, DownEnter(p)
  PROVE  SemInv'
<1>1. OthersOutside(p)
  BY OthersWait DEF DownEnter, Interruptible
<1>2. OwnLocks(p)
  BY <1>1, OnlyOwn
<1>3. /\ pc[p] = "down_enter" /\ general_lock = p /\ slot[p] \in Slots
      /\ lock' = [lock EXCEPT ![slot[p]] = p] /\ general_lock' = 0
      /\ pc' = [pc EXCEPT ![p] = "down_load"]
      /\ UNCHANGED <<sem_id, value, lock_set, sem_are_set, script, slot, reg>>
  BY <1>2 DEF DownEnter, Goto, table, flags, SemInv, Typed, TypeOK, OwnLocks, InGeneral
<1>5. Typed'
  BY <1>3, Sizes DEF SemInv, Typed, TypeOK, Steps, Interruptible
<1>6. Alone' /\ Locked'
  <2>1. OthersOutside(p)'
    BY <1>1, <1>3 DEF SemInv, Typed, TypeOK, OthersOutside, Interruptible
  <2>2. OwnLocks(p)'
    BY <1>2, <1>3, Sizes DEF SemInv, Typed, TypeOK, OwnLocks, InGeneral, InSlot
  <2>3. QED
    BY <2>1, <2>2, LocksKept
<1>7. Unset' /\ ClosesAlone'
  BY <1>3 DEF SemInv, Unset, ClosesAlone
<1>8. Sleepers'
  BY <1>1, <1>3 DEF SemInv, Typed, TypeOK, Sleepers, OthersOutside, Interruptible
<1>9. ASSUME NEW q \in Procs PROVE (InCall(q) /\ OfSlot(q))'
  BY <1>1, <1>3 DEF SemInv, Typed, TypeOK, InCall, OfSlot, call, OthersOutside, Interruptible, AtSlot, InSlot, Closing
<1>10. QED
  BY <1>5, <1>6, <1>7, <1>8, <1>9 DEF SemInv

LEMMA DownLoadKeeps ==
  ASSUME CPUS = 1, SemInv, NEW p \in Procs, DownLoad(p)
  PROVE  SemInv'
<1>1. OthersOutside(p)
  BY OthersWait DEF DownLoad, Interruptible
<1>2. OwnLocks(p)
  BY <1>1, OnlyOwn
<1>3. /\ pc[p] = "down_load" /\ slot[p] \in Slots /\ value[slot[p]] \in Nat
      /\ reg' = [reg EXCEPT ![p] = value[slot[p]]]
      /\ pc' = [pc EXCEPT ![p] = IF value[slot[p]] = 0 THEN "down_sleep" ELSE "down_store"]
      /\ UNCHANGED <<sem_id, value, lock, general_lock, lock_set, sem_are_set, script, slot>>
  BY DEF DownLoad, Goto, Blocks, table, spinlocks, flags, SemInv, Typed, TypeOK, OfSlot, Closed, AtSlot, InSlot
<1>5. Typed'
  BY <1>3, Sizes DEF SemInv, Typed, TypeOK, Steps, Interruptible
<1>6. Alone' /\ Locked'
  <2>1. OthersOutside(p)'
    BY <1>1, <1>3 DEF SemInv, Typed, TypeOK, OthersOutside, Interruptible
  <2>2. OwnLocks(p)'
    BY <1>2, <1>3, Sizes DEF SemInv, Typed, TypeOK, OwnLocks, InGeneral, InSlot
  <2>3. QED
    BY <2>1, <2>2, LocksKept
<1>7. Unset' /\ ClosesAlone'
  BY <1>3 DEF SemInv, Unset, ClosesAlone
<1>8. Sleepers'
  BY <1>1, <1>3 DEF SemInv, Typed, TypeOK, Sleepers, OthersOutside, Interruptible
<1>9. ASSUME NEW q \in Procs PROVE (InCall(q) /\ OfSlot(q))'
  BY <1>1, <1>3 DEF SemInv, Typed, TypeOK, InCall, OfSlot, call, OthersOutside, Interruptible, AtSlot, InSlot, Closing
<1>10. QED
  BY <1>5, <1>6, <1>7, <1>8, <1>9 DEF SemInv

LEMMA DownStoreKeeps ==
  ASSUME CPUS = 1, SemInv, NEW p \in Procs, DownStore(p)
  PROVE  SemInv'
<1>1. OthersOutside(p)
  BY OthersWait DEF DownStore, Interruptible
<1>2. OwnLocks(p)
  BY <1>1, OnlyOwn
<1>3. /\ pc[p] = "down_store" /\ reg[p] = value[slot[p]] /\ reg[p] \in Nat \ {0} /\ slot[p] \in Slots
      /\ value' = [value EXCEPT ![slot[p]] = reg[p] - 1]
      /\ pc' = [pc EXCEPT ![p] = "down_exit"]
      /\ UNCHANGED <<sem_id, lock, general_lock, lock_set, sem_are_set, script, slot, reg>>
  BY DEF DownStore, Goto, spinlocks, flags, SemInv, Typed, TypeOK, OfSlot, Closed
<1>5. Typed'
  BY <1>3, Sizes DEF SemInv, Typed, TypeOK, Steps, Interruptible
<1>6. Alone' /\ Locked'
  <2>1. OthersOutside(p)'
    BY <1>1, <1>3 DEF SemInv, Typed, TypeOK, OthersOutside, Interruptible
  <2>2. OwnLocks(p)'
    BY <1>2, <1>3, Sizes DEF SemInv, Typed, TypeOK, OwnLocks, InGeneral, InSlot
  <2>3. QED
    BY <2>1, <2>2, LocksKept
<1>7. Unset' /\ ClosesAlone'
  BY <1>3 DEF SemInv, Unset, ClosesAlone
<1>8. Sleepers'
  BY <1>1, <1>3 DEF SemInv, Typed, TypeOK, Sleepers, OthersOutside, Interruptible
<1>9. ASSUME NEW q \in Procs PROVE (InCall(q) /\ OfSlot(q))'
  BY <1>1, <1>3 DEF SemInv, Typed, TypeOK, InCall, OfSlot, call, OthersOutside, Interruptible, AtSlot, InSlot, Closing
<1>10. QED
  BY <1>5, <1>6, <1>7, <1>8, <1>9 DEF SemInv

LEMMA DownSleepKeeps ==
  ASSUME CPUS = 1, SemInv, NEW p \in Procs, DownSleep(p)
  PROVE  SemInv'
<1>1. OthersOutside(p)
  BY OthersWait DEF DownSleep, Interruptible
<1>2. OwnLocks(p)
  BY <1>1, OnlyOwn
<1>3. /\ pc[p] = "down_sleep" /\ slot[p] \in Slots /\ value[slot[p]] = 0
      /\ lock' = [lock EXCEPT ![slot[p]] = 0]
      /\ pc' = [pc EXCEPT ![p] = "asleep"]
      /\ UNCHANGED <<sem_id, value, general_lock, lock_set, sem_are_set, script, slot, reg>>
  BY <1>2 DEF DownSleep, Goto, table, flags, SemInv, Typed, TypeOK, OfSlot, OwnLocks, InSlot
<1>5. Typed'
  BY <1>3, Sizes DEF SemInv, Typed, TypeOK, Steps, Interruptible
<1>6. Alone' /\ Locked'
  <2>1. OthersOutside(p)'
    BY <1>1, <1>3 DEF SemInv, Typed, TypeOK, OthersOutside, Interruptible
  <2>2. OwnLocks(p)'
    BY <1>2, <1>3, Sizes DEF SemInv, Typed, TypeOK, OwnLocks, InGeneral, InSlot
  <2>3. QED
    BY <2>1, <2>2, LocksKept
<1>7. Unset' /\ ClosesAlone'
  BY <1>3 DEF SemInv, Unset, ClosesAlone
<1>8. Sleepers'
  BY <1>1, <1>3 DEF SemInv, Typed, TypeOK, Sleepers, OthersOutside, Interruptible
<1>9. ASSUME NEW q \in Procs PROVE (InCall(q) /\ OfSlot(q))'
  BY <1>1, <1>3 DEF SemInv, Typed, TypeOK, InCall, OfSlot, call, OthersOutside, Interruptible, AtSlot, InSlot, Closing
<1>10. QED
  BY <1>5, <1>6, <1>7, <1>8, <1>9 DEF SemInv

LEMMA DownAgainKeeps ==
  ASSUME CPUS = 1, SemInv, NEW p \in Procs, DownAgain(p)
  PROVE  SemInv'
<1>1. OthersOutside(p)
  BY OthersWait DEF DownAgain, Interruptible
<1>2. OwnLocks(p)
  BY <1>1, OnlyOwn
<1>3. /\ pc[p] = "woken" /\ slot[p] \in Slots
      /\ lock' = [lock EXCEPT ![slot[p]] = p]
      /\ pc' = [pc EXCEPT ![p] = "down_load"]
      /\ UNCHANGED <<sem_id, value, general_lock, lock_set, sem_are_set, script, slot, reg>>
  BY DEF DownAgain, Goto, AfterSleep, table, flags, SemInv, Typed, TypeOK
<1>5. Typed'
  BY <1>3, Sizes DEF SemInv, Typed, TypeOK, Steps, Interruptible
<1>6. Alone' /\ Locked'
  <2>1. OthersOutside(p)'
    BY <1>1, <1>3 DEF SemInv, Typed, TypeOK, OthersOutside, Interruptible
  <2>2. OwnLocks(p)'
    BY <1>2, <1>3, Sizes DEF SemInv, Typed, TypeOK, OwnLocks, InGeneral, InSlot
  <2>3. QED
    BY <2>1, <2>2, LocksKept
<1>7. Unset' /\ ClosesAlone'
  BY <1>3 DEF SemInv, Unset, ClosesAlone
<1>8. Sleepers'
  BY <1>1, <1>3 DEF SemInv, Typed, TypeOK, Sleepers, OthersOutside, Interruptible
<1>9. ASSUME NEW q \in Procs PROVE (InCall(q) /\ OfSlot(q))'
  BY <1>1, <1>3 DEF SemInv, Typed, TypeOK, InCall, OfSlot, call, OthersOutside, Interruptible, AtSlot, InSlot, Closing
<1>10. QED
  BY <1>5, <1>6, <1>7, <1>8, <1>9 DEF SemInv

LEMMA DownExitKeeps ==
  ASSUME CPUS = 1, SemInv, NEW p \in Procs, DownExit(p)
  PROVE  SemInv'
<1>1. OthersOutside(p)
  BY OthersWait DEF DownExit, Interruptible
<1>2. OwnLocks(p)
  BY <1>1, OnlyOwn
<1>3. /\ pc[p] = "down_exit" /\ slot[p] \in Slots /\ script[p] # << >>
      /\ lock' = [lock EXCEPT ![slot[p]] = 0]
      /\ pc' = [pc EXCEPT ![p] = "user"] /\ script' = [script EXCEPT ![p] = Tail(@)]
      /\ slot' = [slot EXCEPT ![p] = 1] /\ reg' = [reg EXCEPT ![p] = 0]
      /\ UNCHANGED <<sem_id, value, general_lock, lock_set, sem_are_set>>
  BY <1>2 DEF DownExit, Goto, Return, table, flags, SemInv, Typed, TypeOK, OwnLocks, InSlot, InCall, AtSlot
<1>4. script' \in [Procs -> Seq(SemCalls)] /\ ClosesAlone'
  BY <1>3, ReturnCalls
<1>5. Typed'
  BY <1>3, <1>4, Sizes DEF SemInv, Typed, TypeOK, Steps, Interruptible
<1>6. Alone' /\ Locked'
  <2>1. OthersOutside(p)'
    BY <1>1, <1>3, <1>4 DEF SemInv, Typed, TypeOK, OthersOutside, Interruptible
  <2>2. OwnLocks(p)'
    BY <1>2, <1>3, <1>4, Sizes DEF SemInv, Typed, TypeOK, OwnLocks, InGeneral, InSlot
  <2>3. QED
    BY <2>1, <2>2, LocksKept
<1>7. Unset' /\ ClosesAlone'
  BY <1>3, <1>4 DEF SemInv, Unset, ClosesAlone
<1>8. Sleepers'
  BY <1>1, <1>3, <1>4 DEF SemInv, Typed, TypeOK, Sleepers, OthersOutside, Interruptible
<1>9. ASSUME NEW q \in Procs PROVE (InCall(q) /\ OfSlot(q))'
  BY <1>1, <1>3, <1>4 DEF SemInv, Typed, TypeOK, InCall, OfSlot, call, OthersOutside, Interruptible, AtSlot, InSlot, Closing
<1>10. QED
  BY <1>5, <1>6, <1>7, <1>8, <1>9 DEF SemInv

\* What every run starts with.
OneCpu == CPUS = 1 /\ \A g \in Programs : Orderly(g)

LEMMA InitHolds ==
  ASSUME OneCpu, Init
  PROVE  SemInv
<1>1. PICK g \in Programs :
        /\ script = g.calls
        /\ sem_id = [i \in Slots |-> IF i <= Len(g.opened) THEN g.opened[i][1] ELSE 0]
        /\ value = [i \in Slots |-> IF i <= Len(g.opened) THEN g.opened[i][2]
                                    ELSE IF g.opened = << >> THEN 0 ELSE Closed]
        /\ lock = [i \in Slots |-> 0] /\ general_lock = 0
        /\ lock_set = (g.opened # << >>) /\ sem_are_set = (g.opened # << >>)
        /\ pc = [p \in Procs |-> "user"] /\ slot = [p \in Procs |-> 1] /\ reg = [p \in Procs |-> 0]
  BY DEF Init
<1>2. g.opened \in Seq((Int \ {0}) \X Nat) /\ g.calls \in [Procs -> Seq(SemCalls)]
  BY DEF OneCpu, Orderly
<1>3. \A i \in Slots : i <= Len(g.opened) => g.opened[i] \in (Int \ {0}) \X Nat
  BY <1>2 DEF Slots
<1>4. sem_id \in [Slots -> Int] /\ value \in [Slots -> Nat \cup {Closed}]
  BY <1>1, <1>3
<1>5. Typed
  BY <1>1, <1>2, <1>4, Sizes DEF Typed, TypeOK, Steps, Interruptible
<1>6. Alone /\ Locked /\ Sleepers
  BY <1>1, Sizes DEF Alone, Locked, Sleepers, Interruptible, InGeneral, InSlot
<1>7. Unset
  <2>1. g.opened = << >> => \A i \in Slots : ~(i <= Len(g.opened))
    BY DEF Slots
  <2>2. QED
    BY <1>1, <2>1 DEF Unset
<1>8. ClosesAlone
  BY <1>1 DEF ClosesAlone, OneCpu, Orderly
<1>9. \A p \in Procs : InCall(p) /\ OfSlot(p)
  BY <1>1 DEF InCall, OfSlot, AtSlot, InSlot, Closing
<1>10. QED
  BY <1>5, <1>6, <1>7, <1>8, <1>9 DEF SemInv

LEMMA StepKeeps ==
  ASSUME OneCpu, SemInv, [Next]_vars
  PROVE  SemInv'
<1>1. CPUS = 1
  BY DEF OneCpu
<1>2. ASSUME NEW p \in Procs, Step(p) PROVE SemInv'
  BY <1>1, <1>2, OpenNegativeKeeps, EnterKeeps, AcquireGeneralKeeps, ReleaseGeneralKeeps, WakeupKeeps,
     OpenInitKeeps, OpenScanKeeps, CloseScanKeeps, CloseMarkKeeps, UpScanKeeps, UpStoreKeeps, DownScanKeeps,
     DownEnterKeeps, DownLoadKeeps, DownStoreKeeps, DownSleepKeeps, DownAgainKeeps, DownExitKeeps
     DEF Step
<1>3. CASE UNCHANGED vars
  BY <1>3 DEF vars, table, spinlocks, flags, SemInv, Typed, TypeOK, Alone, Locked, Unset, ClosesAlone,
       Sleepers, InCall, OfSlot, call
<1>4. QED
  BY <1>2, <1>3 DEF Next
\* On one CPU the semaphores keep their invariant: a value is what was
\* loaded when it is stored, nobody decrements a closed slot, and no
\* release() finds its lock taken away.
THEOREM SemaphoresCorrect ==
  ASSUME OneCpu
  PROVE  Spec => []SemInv
<1>1. Init => SemInv
  BY InitHolds
<1>2. SemInv /\ [Next]_vars => SemInv'
  BY StepKeeps
<1>3. QED
  BY <1>1, <1>2, PTL DEF Spec

\* On one CPU no process sleeps in sem_down() with a unit to take: between
\* its test and its sleep() nobody runs.  Nor does a value get negative.
THEOREM SleepersAreWoken ==
  ASSUME OneCpu
  PROVE  Spec => [](NoLostWakeup /\ NeverNegative)
<1>1. SemInv => NoLostWakeup
  BY DEF SemInv, Sleepers, NoLostWakeup, Quiet, Interruptible
<1>2. SemInv => NeverNegative
  <2>1. SemInv => value \in [Slots -> Nat \cup {-1}]
    BY DEF SemInv, Typed, TypeOK, Closed
  <2>2. \A x \in Nat \cup {-1} : x >= -1
    OBVIOUS
  <2>3. QED
    BY <2>1, <2>2 DEF NeverNegative, Closed
<1>3. QED
  BY <1>1, <1>2, SemaphoresCorrect, PTL

-----------------------------------------------------------------------------
(* The calls are steps of Counting *)

\* What the value of a slot counts as while only p has interrupts off.
CountedBy(p) ==
  [i \in Slots |-> IF ~sem_are_set \/ (pc[p] \in Closing /\ slot[p] = i) THEN Closed ELSE value[i]]

LEMMA CountsAre ==
  ASSUME NEW p \in Procs, OthersOutside(p)
  PROVE  Counts = CountedBy(p)
<1>1. \A i \in Slots : (\E q \in Procs : pc[q] \in Closing /\ slot[q] = i) <=> pc[p] \in Closing /\ slot[p] = i
  BY DEF OthersOutside, Interruptible, Closing
<1>2. QED
  BY <1>1 DEF Counts, CountedBy, Closing

\* A process goes on, and no value changes.
LEMMA SameCounts ==
  ASSUME UNCHANGED <<value, sem_are_set>>,
         \A q \in Procs : (pc'[q] \in Closing <=> pc[q] \in Closing) /\ (pc[q] \in Closing => slot'[q] = slot[q])
  PROVE  UNCHANGED Counts
<1>1. \A i \in Slots : (\E q \in Procs : pc[q] \in Closing /\ slot[q] = i)'
        <=> \E q \in Procs : pc[q] \in Closing /\ slot[q] = i
  OBVIOUS
<1>2. QED
  BY <1>1 DEF Counts, Closing

LEMMA StepCounts ==
  ASSUME OneCpu, SemInv, SemInv', NEW p \in Procs, Step(p)
  PROVE  Abstract!NextCounting \/ UNCHANGED Counts
<1> USE DEF Goto, table, spinlocks, flags
<1>1. CASE OpenNegative(p) \/ Enter(p)
  <2>1. /\ pc[p] = "user" /\ UNCHANGED <<value, sem_are_set>> /\ pc' = [pc EXCEPT ![p] = pc'[p]]
        /\ pc'[p] \notin Closing /\ \A q \in Procs \ {p} : slot'[q] = slot[q]
    <3>1. script[p] # << >>
      BY <1>1 DEF OpenNegative, Enter
    <3>2. call(p).op \in {"open", "close", "up", "down"}
      BY <3>1, CallType DEF SemCalls
    <3>3. QED
      BY <1>1, <3>2 DEF OpenNegative, Enter, Return, Closing, SemInv, Typed, TypeOK
  <2>2. QED
    BY <2>1, SameCounts DEF Closing, SemInv, Typed, TypeOK
<1>2. CPUS = 1
  BY DEF OneCpu
<1> DEFINE Rest == Step(p) /\ ~(OpenNegative(p) \/ Enter(p))
<1>4. ASSUME Rest PROVE OthersOutside(p) /\ OthersOutside(p)'
  <2>1. CpuFree \/ pc[p] \notin Interruptible
    BY <1>4 DEF Step, AcquireGeneral, ReleaseGeneral, Wakeup, OpenInit, OpenScan, CloseScan, CloseMark,
         UpScan, UpStore, DownScan, DownEnter, DownLoad, DownStore, DownSleep, DownAgain, DownExit, Interruptible
  <2>2. OthersOutside(p)
    BY <1>2, <2>1, OthersWait
  <2>3. ASSUME NEW q \in Procs \ {p} PROVE pc'[q] \in Interruptible
    <3>1. pc'[q] = pc[q] \/ pc'[q] = "woken"
      BY <1>4 DEF Step, AcquireGeneral, ReleaseGeneral, Wakeup, OpenInit, OpenScan, CloseScan, CloseMark,
         UpScan, UpStore, DownScan, DownEnter, DownLoad, DownStore, DownSleep, DownAgain, DownExit, Return,
         SemInv, Typed, TypeOK
    <3>2. QED
      BY <2>2, <3>1 DEF OthersOutside, Interruptible
  <2>4. QED
    BY <2>2, <2>3 DEF OthersOutside
<1> HIDE DEF Rest
<1>3. Rest => /\ Counts = CountedBy(p)
              /\ Counts' = [i \in Slots |-> IF ~sem_are_set' \/ (pc'[p] \in Closing /\ slot'[p] = i)
                                            THEN Closed ELSE value'[i]]
  <2>1. Rest => \A i \in Slots : (\E q \in Procs : pc'[q] \in Closing /\ slot'[q] = i) <=> pc'[p] \in Closing /\ slot'[p] = i
    BY <1>4 DEF OthersOutside, Interruptible, Closing
  <2>2. Rest => Counts = CountedBy(p)
    BY <1>4, CountsAre
  <2>3. QED
    BY <2>1, <2>2 DEF Counts, Closing
\* Where a call has had its effect.
<1> DEFINE Served == pc'[p] \in {"user", "release", "up_wake", "close_wake", "down_exit"}
           Waiting == pc[p] \in {"open_scan", "close_scan", "up_store", "down_store"}
<1>12. Served => Unserved'[p].op = "none"
  BY DEF Unserved
<1>13. Waiting => Unserved[p] = call(p)
  BY DEF Unserved
<1> HIDE DEF Served, Waiting
<1>14. ASSUME NEW i \in Slots,
             \/ Abstract!OpenSlot(p, i) \/ Abstract!UpSlot(p, i)
             \/ Abstract!DownSlot(p, i) \/ Abstract!CloseSlot(p, i),
             Served
      PROVE  Abstract!NextCounting
  BY <1>12, <1>14 DEF Abstract!NextCounting
<1>5. CASE Rest /\ OpenScan(p)
  <2> DEFINE old == IF sem_are_set THEN value ELSE [i \in Slots |-> Closed]
             free == {i \in Slots : old[i] = Closed}
  <2>1. pc[p] = "open_scan" /\ Served /\ Waiting /\ pc'[p] = "release" /\ sem_are_set'
    BY <1>5 DEF OpenScan, Served, Waiting, SemInv, Typed, TypeOK
  <2>2. Counts = old
    BY <1>3, <1>5, <2>1 DEF CountedBy, Closing, SemInv, Typed, TypeOK
  <2>3. Counts' = value'
    BY <1>3, <1>5, <2>1 DEF Closing, SemInv, Typed, TypeOK
  <2>4. CASE free # {} /\ value' = [old EXCEPT ![FirstOf(free)] = call(p).value]
    <3>1. FirstOf(free) \in Slots /\ old[FirstOf(free)] = -1
      BY <2>4, FirstIn DEF Closed
    <3>2. call(p).op = "open"
      BY <2>1 DEF SemInv, InCall
    <3>3. Abstract!OpenSlot(p, FirstOf(free))
      BY <1>13, <2>1, <2>2, <2>3, <2>4, <3>1, <3>2 DEF Abstract!OpenSlot
    <3>4. QED
      BY <1>14, <2>1, <3>1, <3>3
  <2>5. CASE free = {} /\ UNCHANGED value
    <3>1. sem_are_set
      BY <2>5, Sizes
    <3>2. QED
      BY <2>2, <2>3, <2>5, <3>1
  <2>6. QED
    BY <1>5, <2>4, <2>5 DEF OpenScan
<1>6. CASE Rest /\ CloseScan(p)
  <2> DEFINE found == {i \in Slots : sem_id[i] = call(p).id}
             i == FirstOf(found)
  <2>1. /\ pc[p] = "close_scan" /\ Waiting /\ Served /\ UNCHANGED sem_are_set
        /\ call(p).op = "close" /\ call(p).id # 0
    <3>1. pc[p] = "close_scan"
      BY <1>6 DEF CloseScan
    <3>2. call(p) \in SemCalls
      BY <3>1, CallType DEF SemInv, InCall
    <3>3. QED
      BY <1>6, <3>1, <3>2 DEF CloseScan, Served, Waiting, SemInv, Typed, TypeOK, InCall, SemCalls
  <2>2. CASE /\ found # {} /\ value[i] # Closed /\ value' = [value EXCEPT ![i] = NPROC]
             /\ slot' = [slot EXCEPT ![p] = i] /\ pc'[p] = "close_wake"
    <3>1. i \in Slots /\ sem_id[i] = call(p).id
      BY <2>2, FirstIn
    <3>2. sem_are_set
      BY <2>1, <3>1 DEF SemInv, Unset
    <3>3. value[i] >= 0
      BY <2>2, <3>1 DEF SemInv, Typed, TypeOK, Closed
    <3>4. Counts = value
      BY <1>3, <1>6, <2>1, <3>2 DEF CountedBy, Closing, SemInv, Typed, TypeOK
    <3>5. slot'[p] = i /\ \A k \in Slots \ {i} : value'[k] = value[k]
      BY <2>2 DEF SemInv, Typed, TypeOK
    <3>6. Counts' = [value EXCEPT ![i] = -1]
      BY <1>3, <1>6, <2>1, <2>2, <3>1, <3>2, <3>5 DEF Closing, Closed, SemInv, Typed, TypeOK
    <3>7. Abstract!CloseSlot(p, i)
      BY <1>13, <2>1, <3>1, <3>3, <3>4, <3>6 DEF Abstract!CloseSlot
    <3>8. QED
      BY <1>14, <2>1, <3>1, <3>7
  <2>3. CASE pc'[p] = "release" /\ UNCHANGED value
    BY <1>3, <1>6, <2>1, <2>3 DEF CountedBy, Closing
  <2>4. QED
    BY <1>6, <2>2, <2>3 DEF CloseScan, SemInv, Typed, TypeOK
<1>7. CASE Rest /\ CloseMark(p)
  <2>1. /\ pc[p] = "close_mark" /\ pc'[p] = "release" /\ slot[p] \in Slots /\ UNCHANGED sem_are_set
        /\ value' = [value EXCEPT ![slot[p]] = Closed] /\ value \in [Slots -> Nat \cup {Closed}]
    BY <1>7 DEF CloseMark, SemInv, Typed, TypeOK
  <2>2. QED
    BY <1>3, <1>7, <2>1 DEF CountedBy, Closing
<1>8. CASE Rest /\ UpStore(p)
  <2>1. /\ pc[p] = "up_store" /\ pc'[p] \in {"up_wake", "release"} /\ slot[p] \in Slots /\ UNCHANGED sem_are_set
        /\ value' = [value EXCEPT ![slot[p]] = reg[p] + 1] /\ value \in [Slots -> Nat \cup {Closed}]
    BY <1>8 DEF UpStore, SemInv, Typed, TypeOK
  <2>2. /\ sem_are_set /\ value[slot[p]] >= 0 /\ reg[p] = value[slot[p]] /\ call(p).op = "up"
        /\ Served /\ Waiting
    BY <2>1 DEF SemInv, InCall, OfSlot, Served, Waiting
  <2>3. Counts = value /\ Counts' = value'
    BY <1>3, <1>8, <2>1, <2>2 DEF CountedBy, Closing
  <2>4. Abstract!UpSlot(p, slot[p])
    BY <1>13, <2>1, <2>2, <2>3 DEF Abstract!UpSlot
  <2>5. QED
    BY <1>14, <2>1, <2>2, <2>4
<1>9. CASE Rest /\ DownStore(p)
  <2>1. /\ pc[p] = "down_store" /\ pc'[p] = "down_exit" /\ slot[p] \in Slots /\ UNCHANGED sem_are_set
        /\ value' = [value EXCEPT ![slot[p]] = reg[p] - 1] /\ value \in [Slots -> Nat \cup {Closed}]
    BY <1>9 DEF DownStore, SemInv, Typed, TypeOK
  <2>2. /\ sem_are_set /\ reg[p] > 0 /\ reg[p] = value[slot[p]] /\ call(p).op = "down"
        /\ Served /\ Waiting
    BY <2>1 DEF SemInv, InCall, OfSlot, AtSlot, InSlot, Served, Waiting
  <2>3. Counts = value /\ Counts' = value'
    BY <1>3, <1>9, <2>1, <2>2 DEF CountedBy, Closing
  <2>4. Abstract!DownSlot(p, slot[p])
    BY <1>13, <2>1, <2>2, <2>3 DEF Abstract!DownSlot
  <2>5. QED
    BY <1>14, <2>1, <2>2, <2>4
<1>10. CASE Rest /\ (AcquireGeneral(p) \/ ReleaseGeneral(p) \/ Wakeup(p) \/ OpenInit(p) \/ UpScan(p) \/ DownScan(p)
         \/ DownEnter(p) \/ DownLoad(p) \/ DownSleep(p) \/ DownAgain(p) \/ DownExit(p))
  <2>1. /\ UNCHANGED <<value, sem_are_set>>
        /\ pc'[p] \in Closing => pc[p] \in Closing /\ slot'[p] = slot[p]
        /\ pc[p] \in Closing => pc'[p] \in Closing
    <3>1. CASE AcquireGeneral(p)
      BY <3>1 DEF AcquireGeneral, Scanning, Closing, SemInv, Typed, TypeOK
    <3>2. CASE ReleaseGeneral(p) \/ DownExit(p)
      BY <3>2 DEF ReleaseGeneral, DownExit, Return, Closing, SemInv, Typed, TypeOK
    <3>3. CASE Wakeup(p)
      BY <3>3 DEF Wakeup, Closing
    <3>4. CASE OpenInit(p) \/ UpScan(p) \/ DownScan(p)
      BY <3>4 DEF OpenInit, UpScan, DownScan, Closing, SemInv, Typed, TypeOK
    <3>5. CASE DownEnter(p) \/ DownLoad(p) \/ DownSleep(p) \/ DownAgain(p)
      BY <3>5 DEF DownEnter, DownLoad, DownSleep, DownAgain, AfterSleep, Closing, SemInv, Typed, TypeOK
    <3>6. QED
      BY <1>10, <3>1, <3>2, <3>3, <3>4, <3>5
  <2>2. QED
    BY <1>3, <1>10, <2>1 DEF CountedBy
<1>11. QED
  BY <1>1, <1>5, <1>6, <1>7, <1>8, <1>9, <1>10 DEF Step, Rest

\* On one CPU sem_open(), sem_up(), sem_down() and sem_close() take effect
\* in one step each, at most once, and nothing else changes what a slot
\* counts: the table is a table of counting semaphores.
THEOREM SemaphoresCount ==
  ASSUME OneCpu
  PROVE  Spec => ImplementsCounting
<1>1. SemInv => Abstract!InitCounting
  BY DEF SemInv, Typed, TypeOK, Abstract!InitCounting, Counts, Closed
<1>2. ASSUME SemInv, SemInv', [Next]_vars PROVE [Abstract!NextCounting]_Counts
  <2>1. CASE UNCHANGED vars
    BY <2>1 DEF vars, table, spinlocks, flags, Counts
  <2>2. ASSUME NEW p \in Procs, Step(p) PROVE [Abstract!NextCounting]_Counts
    BY <1>2, <2>2, StepCounts
  <2>3. QED
    BY <1>2, <2>1, <2>2 DEF Next
<1>3. QED
  BY <1>1, <1>2, SemaphoresCorrect, PTL DEF Spec, ImplementsCounting, Abstract!CountingSpec
-----------------------------------------------------------------------------
(* pingpong *)

Players == {Child, Parent}
Other(p) == IF p = Child THEN Parent ELSE Child

\* The semaphore of a player, which is in the slot of its number, and the
\* units that it was opened with.
IdOf(p) == IF p = Child THEN id1 ELSE id2
Units(p) == IF p = Child THEN 1 ELSE 0

\* How many calls a player has to make, and the one with n calls after it.
Left(p) == Len(script[p])
CallBefore(p, n) ==
  IF n = 0 THEN Close(IdOf(p)) ELSE IF n % 2 = 0 THEN Down(IdOf(p)) ELSE Up(IdOf(Other(p)))

\* The units that a player has taken from its semaphore, and those that it
\* has given to the other's; a sem_up() that finds it closed gives one, too.
DownsLeft(p) == IF Left(p) = 0 THEN 0 ELSE (Left(p) - 1) \div 2
Taken(p) == Rounds - DownsLeft(p) + (IF pc[p] = "down_exit" THEN 1 ELSE 0)
InUp(p) == Left(p) >= 2 /\ Left(p) % 2 = 0
Given(p) ==
  Rounds - Left(p) \div 2 + (IF InUp(p) /\ pc[p] \in {"up_wake", "release"} THEN 1 ELSE 0)

PlayTyped ==
  /\ NSEM >= 2 /\ TypeOK /\ lock_set /\ sem_are_set
  /\ sem_id = [i \in Slots |-> IF i = Child THEN id1 ELSE IF i = Parent THEN id2 ELSE 0]
  /\ script \in [Procs -> Seq(SemCalls)]
  /\ \A p \in Procs \ Players : pc[p] = "user" /\ script[p] = << >>
Scripts ==
  \A p \in Players : Left(p) <= 2 * Rounds + 1
    /\ \A k \in 1..Left(p) : script[p][k] = CallBefore(p, Left(p) - k)

\* Where a player is in its program.
Phase(p) ==
  /\ pc[p] \in {"down", "down_scan"} \cup AtSlot => Left(p) >= 3 /\ Left(p) % 2 = 1
  /\ pc[p] \in {"up", "up_scan", "up_store", "up_wake"} => InUp(p)
  /\ pc[p] \in {"close", "close_scan"} \cup Closing => Left(p) = 1
  /\ pc[p] = "release" => Left(p) = 1 \/ InUp(p)
  /\ pc[p] \notin {"open_init", "open", "open_scan", "panic"}
  /\ pc[p] \in AtSlot \cup Closing => slot[p] = p
  /\ pc[p] \in {"up_store", "up_wake"} => slot[p] = Other(p)
  /\ pc[p] \in InGeneral => general_lock = p
  /\ pc[p] \in InSlot => lock[p] = p

\* sem_close() marks the semaphore of a player after all its sem_down().
Ended(p) == Left(p) = 0 \/ (Left(p) = 1 /\ pc[p] = "release")

\* Nobody takes a unit that was not given; what is in a slot is what was
\* given and not taken; a player that adds finds nothing, and one that takes
\* finds what it has loaded.
Accounts(p) ==
  /\ Taken(p) <= Units(p) + Given(Other(p))
  /\ Ended(p) => value[p] = Closed
  /\ ~Ended(p) /\ pc[p] \notin Closing => value[p] = Units(p) + Given(Other(p)) - Taken(p)
  /\ pc[p] = "up_store" => reg[p] = 0 /\ value[Other(p)] = 0
  /\ pc[p] = "down_store" => reg[p] > 0 /\ value[p] = reg[p]

InPlay == PlayTyped /\ Scripts /\ \A p \in Players : Phase(p) /\ Accounts(p)

\* Nothing to do with pingpong.
Strange ==
  /\ sem_id \in [Slots -> Int \ {id1}]
  /\ pc \in [Procs -> Steps] /\ script \in [Procs -> Seq(SemCalls)]
  /\ \A p \in Procs : pc[p] # "user" => script[p] # << >>
  /\ \A p \in Procs : \A j \in DOMAIN script[p] : script[p][j].id # id1

-----------------------------------------------------------------------------
(* Its calls *)

LEMMA Pair ==
  ASSUME InPlay, NEW p \in Players
  PROVE  /\ Other(p) \in Players /\ Other(p) # p /\ Other(Other(p)) = p
         /\ \A q \in Players : q = p \/ q = Other(p)
         /\ p \in Procs /\ p \in Slots /\ p # 0 /\ Other(p) \in Procs /\ Other(p) \in Slots
         /\ Units(p) + Units(Other(p)) = 1 /\ Units(p) \in {0, 1} /\ Units(Other(p)) \in {0, 1}
<1>1. Child \in Procs /\ Parent \in Procs
  BY SemaphoreAssumption, PingPongAssumption DEF Procs, Child, Parent
<1>2. Child \in Slots /\ Parent \in Slots
  BY SemaphoreAssumption DEF InPlay, PlayTyped, Slots, Child, Parent
<1>3. QED
  BY <1>1, <1>2 DEF Players, Other, Units, Child, Parent

\* Only players make calls, none of which is a sem_open().
LEMMA OnlyPlayers ==
  ASSUME InPlay, NEW p \in Procs, pc[p] # "user" \/ script[p] # << >>
  PROVE  p \in Players
  BY DEF InPlay, PlayTyped

LEMMA NextCall ==
  ASSUME InPlay, NEW p \in Players, Left(p) > 0
  PROVE  /\ script[p] # << >> /\ call(p) = CallBefore(p, Left(p) - 1) /\ Left(p) \in Nat
         /\ Left(p) <= 2 * Rounds + 1
         /\ call(p).value = 0
         /\ Left(p) = 1 => call(p).op = "close" /\ call(p).id = IdOf(p)
         /\ InUp(p) => call(p).op = "up" /\ call(p).id = IdOf(Other(p))
         /\ Left(p) >= 3 /\ Left(p) % 2 = 1 => call(p).op = "down" /\ call(p).id = IdOf(p)
         /\ Left(p) = 1 \/ InUp(p) \/ (Left(p) >= 3 /\ Left(p) % 2 = 1)
<1>1. p \in Procs
  BY Pair
<1>2. script[p] \in Seq(SemCalls)
  BY <1>1 DEF InPlay, PlayTyped
<1>3. Left(p) \in Nat /\ 1 \in 1..Left(p) /\ script[p] # << >> /\ call(p) = script[p][1]
  BY <1>2 DEF Left, call
<1>4. call(p) = CallBefore(p, Left(p) - 1) /\ Left(p) <= 2 * Rounds + 1
  BY <1>3 DEF InPlay, Scripts
<1>5. \/ Left(p) = 1 /\ Left(p) - 1 = 0
      \/ InUp(p) /\ Left(p) - 1 # 0 /\ (Left(p) - 1) % 2 = 1
      \/ Left(p) >= 3 /\ Left(p) % 2 = 1 /\ Left(p) - 1 # 0 /\ (Left(p) - 1) % 2 = 0
  BY <1>3 DEF InUp
<1>6. QED
  BY <1>3, <1>4, <1>5 DEF CallBefore, Close, Up, Down, InUp

LEMMA ReturnLeft ==
  ASSUME InPlay, NEW p \in Players, Left(p) > 0,
         script' = [script EXCEPT ![p] = Tail(@)]
  PROVE  /\ script' \in [Procs -> Seq(SemCalls)]
         /\ \A q \in Procs \ Players : script'[q] = script[q]
         /\ Left(p)' = Left(p) - 1
         /\ Left(Other(p))' = Left(Other(p))
         /\ script'[Other(p)] = script[Other(p)]
         /\ Scripts'
<1>1. p \in Procs /\ Other(p) \in Procs /\ Other(p) # p /\ \A q \in Players : q = p \/ q = Other(p)
  BY Pair
<1>2. script \in [Procs -> Seq(SemCalls)]
  BY DEF InPlay, PlayTyped
<1>3. script[p] \in Seq(SemCalls) /\ script[p] # << >> /\ Left(p) \in Nat /\ Len(script[p]) = Left(p)
  BY <1>1, <1>2 DEF Left
<1>4. script'[p] = Tail(script[p]) /\ script'[Other(p)] = script[Other(p)]
  BY <1>1, <1>2
<1>5. Tail(script[p]) \in Seq(SemCalls) /\ Len(Tail(script[p])) = Len(script[p]) - 1
      /\ \A k \in 1..(Left(p) - 1) : Tail(script[p])[k] = script[p][k + 1] /\ k + 1 \in 1..Left(p)
  BY <1>3
<1>6. Left(p)' = Left(p) - 1 /\ Left(Other(p))' = Left(Other(p))
  BY <1>4, <1>5, <1>3 DEF Left
<1>7. \A k \in 1..(Left(p) - 1) : script'[p][k] = CallBefore(p, Left(p) - (k + 1))
  BY <1>4, <1>5 DEF InPlay, Scripts
<1>8. \A k \in 1..(Left(p) - 1) : script'[p][k] = CallBefore(p, (Left(p) - 1) - k)
  <2>1. \A k \in 1..(Left(p) - 1) : Left(p) - (k + 1) = (Left(p) - 1) - k
    BY <1>3
  <2>2. QED
    BY <1>7, <2>1
<1>9. Left(p)' <= 2 * Rounds + 1 /\ \A k \in 1..Left(p)' : script'[p][k] = CallBefore(p, Left(p)' - k)
  BY <1>3, <1>6, <1>8, PingPongAssumption DEF InPlay, Scripts
<1>10. Left(Other(p))' <= 2 * Rounds + 1
       /\ \A k \in 1..Left(Other(p))' : script'[Other(p)][k] = CallBefore(Other(p), Left(Other(p))' - k)
  BY <1>1, <1>4, <1>6, Pair DEF InPlay, Scripts
<1>11. Scripts'
  BY <1>1, <1>9, <1>10 DEF Scripts, CallBefore
<1>12. QED
  BY <1>1, <1>2, <1>4, <1>5, <1>6, <1>11

\* A player that does not move keeps its place and its accounts.
LEMMA Stays ==
  ASSUME InPlay, NEW p \in Players,
         script'[p] = script[p], slot'[p] = slot[p], reg'[p] = reg[p],
         pc'[p] = pc[p] \/ (pc[p] = "asleep" /\ pc'[p] = "woken"),
         pc[p] \in InGeneral => general_lock' = p,
         pc[p] \in InSlot => lock'[p] = p
  PROVE  /\ Phase(p)' /\ Left(p)' = Left(p) /\ (InUp(p)' <=> InUp(p))
         /\ Taken(p)' = Taken(p) /\ Given(p)' = Given(p)
         /\ (Ended(p)' <=> Ended(p)) /\ (pc'[p] \in Closing <=> pc[p] \in Closing)
         /\ (pc'[p] = "up_store" <=> pc[p] = "up_store")
         /\ (pc'[p] = "down_store" <=> pc[p] = "down_store")
<1>1. Left(p)' = Left(p) /\ (InUp(p)' <=> InUp(p)) /\ DownsLeft(p)' = DownsLeft(p)
  BY DEF Left, InUp, DownsLeft
<1>2. Taken(p)' = Taken(p) /\ Given(p)' = Given(p) /\ (Ended(p)' <=> Ended(p))
  BY <1>1 DEF Taken, Given, Ended
<1>3. Phase(p)
  BY DEF InPlay
<1>4. Phase(p)'
  BY <1>1, <1>3 DEF Phase, AtSlot, InSlot, InGeneral, Closing
<1>5. QED
  BY <1>1, <1>2, <1>4 DEF Closing

\* A player that moves keeps the calls that it has to make.
LEMMA SameScripts ==
  ASSUME InPlay, UNCHANGED script
  PROVE  /\ Scripts'
         /\ \A p \in Players : Left(p)' = Left(p) /\ (InUp(p)' <=> InUp(p)) /\ DownsLeft(p)' = DownsLeft(p)
  BY DEF InPlay, Scripts, Left, InUp, DownsLeft

\* A player takes before it gives.
LEMMA TakesAndGives ==
  ASSUME InPlay, NEW p \in Players
  PROVE  /\ Taken(p) \in Int /\ Given(p) \in Int /\ Given(p) <= Taken(p)
         /\ InUp(p) => Taken(p) \in {Given(p), Given(p) + 1}
         /\ InUp(p) /\ pc[p] \notin {"up_wake", "release"} => Taken(p) = Given(p) + 1
<1>1. Left(p) \in Nat /\ Rounds \in Nat
  BY Pair, PingPongAssumption DEF InPlay, PlayTyped, Left
<1>2. Phase(p)
  BY DEF InPlay
<1>3. pc[p] = "down_exit" => Left(p) >= 3 /\ Left(p) % 2 = 1
  BY <1>2 DEF Phase, AtSlot, InSlot
<1>4. InUp(p) => pc[p] # "down_exit"
  BY <1>1, <1>3 DEF InUp
<1>5. InUp(p) => DownsLeft(p) = Left(p) \div 2 - 1
  BY <1>1 DEF InUp, DownsLeft
<1>6. ~InUp(p) => DownsLeft(p) = Left(p) \div 2
  BY <1>1 DEF InUp, DownsLeft
<1>7. Left(p) \div 2 \in Int /\ DownsLeft(p) \in Int
  BY <1>1, <1>5, <1>6
<1>8. QED
  BY <1>1, <1>4, <1>5, <1>6, <1>7 DEF Taken, Given

\* The semaphore of a player is the only one with its id, in its own slot.
LEMMA SlotOf ==
  ASSUME InPlay, NEW p \in Players
  PROVE  /\ {i \in Slots : sem_id[i] = IdOf(p)} = {p}
         /\ FirstOf({p}) = p
         /\ value[p] >= 0 => OpenSlots(IdOf(p)) = {p}
         /\ ~(value[p] >= 0) => OpenSlots(IdOf(p)) = {}
<1>1. p \in Slots
  BY Pair
<1>2. \A i \in Slots : sem_id[i] = IdOf(p) <=> i = p
  BY DEF InPlay, PlayTyped, IdOf, Players, Child, Parent, id1, id2
<1>3. FirstOf({p}) = p
  <2>1. p <= p
    BY <1>1 DEF Slots
  <2>2. QED
    BY <2>1 DEF FirstOf
<1>4. QED
  BY <1>1, <1>2, <1>3 DEF OpenSlots

\* As long as a semaphore counts it has no negative value, and a player
\* that is going to add finds nothing there.
LEMMA FindsNothing ==
  ASSUME InPlay, NEW p \in Players
  PROVE  /\ ~Ended(p) /\ pc[p] \notin Closing => value[p] >= 0
         /\ /\ InUp(p) /\ pc[p] \notin {"up_wake", "release"}
            /\ value[Other(p)] >= 0 /\ pc[Other(p)] \notin Closing
            => value[Other(p)] = 0 /\ ~Ended(Other(p))
<1> DEFINE o == Other(p)
<1>1. /\ o \in Players /\ Other(o) = p /\ o # p /\ Units(p) + Units(o) = 1
      /\ Units(p) \in {0, 1} /\ Units(o) \in {0, 1}
  BY Pair
<1>2. Accounts(p) /\ Accounts(o)
  BY <1>1 DEF InPlay
<1>3. /\ Taken(p) \in Int /\ Given(p) \in Int /\ Taken(o) \in Int /\ Given(o) \in Int
      /\ Given(o) <= Taken(o)
  BY <1>1, TakesAndGives
<1>4. ~Ended(p) /\ pc[p] \notin Closing => value[p] >= 0
  BY <1>1, <1>2, <1>3 DEF Accounts
<1>5. ASSUME InUp(p), pc[p] \notin {"up_wake", "release"}, value[o] >= 0, pc[o] \notin Closing
      PROVE  value[o] = 0 /\ ~Ended(o)
  <2>1. Taken(p) = Given(p) + 1
    BY <1>5, TakesAndGives
  <2>2. ~Ended(o)
    BY <1>2, <1>5 DEF Accounts, Closed
  <2>3. value[o] = Units(o) + Given(p) - Taken(o)
    BY <1>1, <1>2, <1>5, <2>2 DEF Accounts
  <2>4. Taken(p) <= Units(p) + Given(o)
    BY <1>2 DEF Accounts
  <2>5. QED
    BY <1>1, <1>3, <1>5, <2>1, <2>2, <2>3, <2>4
<1>6. QED
  BY <1>4, <1>5

\* What is left to show of a step of p that changes no call.
LEMMA Moves ==
  ASSUME InPlay, NEW p \in Players,
         PlayTyped', UNCHANGED <<script, value>>,
         slot'[Other(p)] = slot[Other(p)], reg'[Other(p)] = reg[Other(p)],
         pc'[Other(p)] = pc[Other(p)] \/ (pc[Other(p)] = "asleep" /\ pc'[Other(p)] = "woken"),
         pc[Other(p)] \in InGeneral => general_lock' = Other(p),
         pc[Other(p)] \in InSlot => lock'[Other(p)] = Other(p),
         Phase(p)',
         pc[p] \notin Closing, pc'[p] \notin Closing,
         pc[p] = "down_exit" <=> pc'[p] = "down_exit",
         pc[p] = "release" => pc'[p] = "release",
         pc'[p] = "release" /\ InUp(p) =>
           pc[p] \in {"release", "up_wake"} \/ Ended(Other(p)) \/ pc[Other(p)] \in Closing,
         pc'[p] = "release" /\ Left(p) = 1 => pc[p] = "release",
         pc[p] = "up_wake" => pc'[p] \in {"up_wake", "release"},
         pc'[p] = "up_wake" => pc[p] = "up_wake",
         pc'[p] = "up_store" => reg'[p] = 0 /\ value[Other(p)] = 0,
         pc'[p] = "down_store" => reg'[p] > 0 /\ value[p] = reg'[p]
  PROVE  InPlay'
<1> DEFINE o == Other(p)
<1>1. o \in Players /\ Other(o) = p /\ o # p /\ \A q \in Players : q = p \/ q = o
  BY Pair
<1>2. /\ Scripts' /\ Left(p)' = Left(p) /\ (InUp(p)' <=> InUp(p)) /\ DownsLeft(p)' = DownsLeft(p)
  BY SameScripts
<1>3. script'[o] = script[o]
  OBVIOUS
<1>4. /\ Phase(o)' /\ Left(o)' = Left(o) /\ (InUp(o)' <=> InUp(o))
      /\ Taken(o)' = Taken(o) /\ Given(o)' = Given(o)
      /\ (Ended(o)' <=> Ended(o)) /\ (pc'[o] \in Closing <=> pc[o] \in Closing)
      /\ (pc'[o] = "up_store" <=> pc[o] = "up_store")
      /\ (pc'[o] = "down_store" <=> pc[o] = "down_store")
  BY <1>1, <1>3, Stays
<1>5. Taken(p)' = Taken(p)
  BY <1>2 DEF Taken
<1>6. Ended(p)' <=> Ended(p)
  BY <1>2 DEF Ended
<1>7. /\ Given(p) \in Int /\ Taken(o) \in Int /\ Units(o) \in {0, 1}
      /\ Given(p)' = Given(p) \/ (Given(p)' = Given(p) + 1 /\ (Ended(o) \/ pc[o] \in Closing))
  <2>1. Given(p) \in Int /\ Taken(o) \in Int /\ Units(o) \in {0, 1}
    BY <1>1, TakesAndGives, Pair
  <2>2. /\ InUp(p) /\ pc[p] \in {"up_wake", "release"} => pc'[p] \in {"up_wake", "release"}
        /\ InUp(p) /\ pc'[p] \in {"up_wake", "release"} /\ pc[p] \notin {"up_wake", "release"} =>
             Ended(o) \/ pc[o] \in Closing
    OBVIOUS
  <2>3. CASE (InUp(p) /\ pc[p] \in {"up_wake", "release"}) <=> (InUp(p)' /\ pc'[p] \in {"up_wake", "release"})
    BY <1>2, <2>1, <2>3 DEF Given
  <2>4. CASE /\ ~(InUp(p) /\ pc[p] \in {"up_wake", "release"}) /\ InUp(p)' /\ pc'[p] \in {"up_wake", "release"}
             /\ Ended(o) \/ pc[o] \in Closing
    <3>1. Given(p) = Rounds - Left(p) \div 2 + 0 /\ Given(p)' = Rounds - Left(p)' \div 2 + 1
      BY <2>4 DEF Given
    <3>2. Rounds - Left(p) \div 2 \in Int
      <4>1. Left(p) \in Nat
        BY Pair DEF InPlay, PlayTyped, Left
      <4>2. QED
        BY <4>1, PingPongAssumption
    <3>3. QED
      BY <1>2, <2>1, <2>4, <3>1, <3>2
  <2>5. QED
    BY <1>2, <2>2, <2>3, <2>4
<1>8. Accounts(p)'
  <2>1. Accounts(p)
    BY DEF InPlay
  <2>2. QED
    BY <1>1, <1>4, <1>5, <1>6, <2>1 DEF Accounts, Units, Other
<1>9. Accounts(o)'
  <2>1. Accounts(o) /\ (reg'[o] = reg[o]) /\ value'[o] = value[o] /\ value'[p] = value[p]
    BY <1>1 DEF InPlay
  <2>2. Taken(o)' <= Units(o) + Given(p)'
    BY <1>1, <1>4, <1>7, <2>1 DEF Accounts
  <2>3. ~Ended(o)' /\ pc'[o] \notin Closing => value'[o] = Units(o) + Given(p)' - Taken(o)'
    BY <1>1, <1>4, <1>7, <2>1 DEF Accounts
  <2>4. QED
    BY <1>1, <1>4, <2>1, <2>2, <2>3 DEF Accounts, Units, Other
<1>10. QED
  BY <1>1, <1>2, <1>4, <1>8, <1>9 DEF InPlay

\* A player that does not move has not the lock that the other takes.
LEMMA GeneralOf ==
  ASSUME InPlay, NEW p \in Players,
         general_lock \in {0, p} 
  PROVE  /\ pc[Other(p)] \notin InGeneral /\ pc[Other(p)] \notin Closing
         /\ pc[Other(p)] # "up_store"
<1>1. Other(p) \in Players /\ Other(p) # p /\ Other(p) # 0
  BY Pair
<1>2. Phase(Other(p))
  BY <1>1 DEF InPlay
<1>3. QED
  BY <1>1, <1>2 DEF Phase, InGeneral, Closing

LEMMA PlayEnter ==
  ASSUME InPlay, NEW p \in Players, Enter(p)
  PROVE  InPlay'
<1> USE DEF Goto, table, spinlocks, flags
<1> DEFINE o == Other(p)
<1>1. /\ o \in Players /\ Other(o) = p /\ o # p /\ p \in Procs /\ o \in Procs
  BY Pair
<1>2. Left(p) > 0 /\ Left(p) \in Nat
  BY <1>1 DEF Enter, InPlay, PlayTyped, Left
<1>3. call(p).op \in {"close", "up", "down"}
  BY <1>2, NextCall
<1>4. /\ pc[p] = "user" /\ pc' = [pc EXCEPT ![p] = call(p).op]
      /\ UNCHANGED <<sem_id, value, lock, general_lock, lock_set, sem_are_set, script, slot, reg>>
  BY <1>3 DEF Enter
<1>5. PlayTyped'
  BY <1>1, <1>3, <1>4 DEF InPlay, PlayTyped, TypeOK, Steps, Interruptible
<1>6. pc'[p] = call(p).op /\ pc'[o] = pc[o]
  BY <1>1, <1>4 DEF InPlay, PlayTyped, TypeOK
<1>7. Left(p)' = Left(p) /\ (InUp(p)' <=> InUp(p))
  BY <1>4, SameScripts
<1>8. Phase(p)'
  BY <1>2, <1>3, <1>6, <1>7, NextCall DEF Phase, AtSlot, InSlot, InGeneral, Closing
<1>9. Phase(o)
  BY <1>1 DEF InPlay
<1>10. QED
  BY <1>1, <1>3, <1>4, <1>5, <1>6, <1>8, <1>9, Moves DEF Phase, Closing

LEMMA PlayAcquireGeneral ==
  ASSUME InPlay, NEW p \in Players, AcquireGeneral(p)
  PROVE  InPlay'
<1> USE DEF Goto, table, spinlocks, flags
<1> DEFINE o == Other(p)
<1>1. /\ o \in Players /\ Other(o) = p /\ o # p /\ p \in Procs /\ o \in Procs /\ p # 0
  BY Pair
<1>2. Phase(p) /\ Phase(o) /\ pc[p] # "open"
  BY <1>1 DEF InPlay, Phase
<1>3. /\ pc[p] \in {"close", "up", "down"} /\ pc' = [pc EXCEPT ![p] = Scanning[pc[p]]]
      /\ general_lock = 0 /\ general_lock' = p
      /\ UNCHANGED <<sem_id, value, lock, lock_set, sem_are_set, script, slot, reg>>
  BY <1>2 DEF AcquireGeneral, GeneralFree
<1>4. /\ \/ pc[p] = "close" /\ pc'[p] = "close_scan"
         \/ pc[p] = "up" /\ pc'[p] = "up_scan"
         \/ pc[p] = "down" /\ pc'[p] = "down_scan"
      /\ pc'[o] = pc[o]
  <2>1. Scanning["close"] = "close_scan" /\ Scanning["up"] = "up_scan" /\ Scanning["down"] = "down_scan"
    BY DEF Scanning
  <2>2. pc'[p] = Scanning[pc[p]] /\ pc'[o] = pc[o]
    <3>1. pc \in [Procs -> Steps]
      BY DEF InPlay, PlayTyped, TypeOK
    <3>2. QED
      BY <1>1, <1>3, <3>1
  <2>3. QED
    BY <1>3, <2>1, <2>2
<1>5. PlayTyped'
  <2>1. p \in 0..NPROC /\ pc' \in [Procs -> Steps]
    BY <1>1, <1>3, <1>4, Sizes DEF InPlay, PlayTyped, TypeOK, Steps, Scanning
  <2>2. \A q \in Procs \ Players : pc'[q] = pc[q]
    BY <1>3 DEF InPlay, PlayTyped, TypeOK
  <2>3. QED
    BY <1>3, <2>1, <2>2 DEF InPlay, PlayTyped, TypeOK
<1>6. Left(p)' = Left(p) /\ (InUp(p)' <=> InUp(p))
  BY <1>3, SameScripts
<1>7. Phase(p)'
  BY <1>2, <1>3, <1>4, <1>6 DEF Phase, AtSlot, InSlot, InGeneral, Closing
<1>8. pc[o] \notin InGeneral
  BY <1>3, GeneralOf
<1>9. QED
  BY <1>1, <1>2, <1>3, <1>4, <1>5, <1>7, <1>8, Moves DEF Phase, Closing

\* The types after a step that moves p and, maybe, wakes the other player.
LEMMA TypesKept ==
  ASSUME InPlay, NEW p \in Players,
         NEW step \in Steps, pc' = [pc EXCEPT ![p] = step],
         UNCHANGED <<sem_id, lock_set, sem_are_set>>,
         value' \in [Slots -> Nat \cup {Closed}], lock' \in [Slots -> 0..NPROC],
         general_lock' \in 0..NPROC, slot' \in [Procs -> Slots], reg' \in [Procs -> Int],
         script' \in [Procs -> Seq(SemCalls)],
         \A q \in Procs \ Players : script'[q] = script[q]
  PROVE  /\ PlayTyped' /\ pc'[p] = step /\ pc'[Other(p)] = pc[Other(p)]
<1>1. p \in Procs /\ Other(p) \in Procs /\ Other(p) # p
  BY Pair
<1>2. pc \in [Procs -> Steps]
  BY DEF InPlay, PlayTyped, TypeOK
<1>3. pc' \in [Procs -> Steps] /\ pc'[p] = step /\ \A q \in Procs \ {p} : pc'[q] = pc[q]
  BY <1>1, <1>2
<1>4. \A q \in Procs \ Players : pc'[q] = "user" /\ script'[q] = << >>
  BY <1>3 DEF InPlay, PlayTyped
<1>5. QED
  BY <1>1, <1>3, <1>4 DEF InPlay, PlayTyped, TypeOK

LEMMA OldTypes ==
  ASSUME InPlay
  PROVE  /\ value \in [Slots -> Nat \cup {Closed}] /\ lock \in [Slots -> 0..NPROC]
         /\ general_lock \in 0..NPROC /\ slot \in [Procs -> Slots] /\ reg \in [Procs -> Int]
         /\ script \in [Procs -> Seq(SemCalls)] /\ pc \in [Procs -> Steps]
         /\ NPROC \in Nat /\ NPROC > 0 /\ 0 \in 0..NPROC /\ Procs \subseteq 0..NPROC /\ 1 \in Slots
  BY Sizes, SemaphoreAssumption DEF InPlay, PlayTyped, TypeOK

\* A call returns.
LEMMA PlayReturn ==
  ASSUME InPlay, NEW p \in Players, Return(p), Left(p) > 0,
         UNCHANGED <<sem_id, value, lock_set, sem_are_set>>,
         lock' \in [Slots -> 0..NPROC], general_lock' \in 0..NPROC,
         pc[Other(p)] \in InGeneral => general_lock' = Other(p),
         pc[Other(p)] \in InSlot => lock'[Other(p)] = Other(p),
         pc[p] \in {"release", "down_exit"}
  PROVE  InPlay'
<1> DEFINE o == Other(p)
<1>1. /\ o \in Players /\ Other(o) = p /\ o # p /\ p \in Procs /\ o \in Procs
      /\ \A q \in Players : q = p \/ q = o
  BY Pair
<1>2. /\ pc' = [pc EXCEPT ![p] = "user"] /\ script' = [script EXCEPT ![p] = Tail(@)]
      /\ slot' = [slot EXCEPT ![p] = 1] /\ reg' = [reg EXCEPT ![p] = 0]
  BY DEF Return, Goto
<1>3. /\ script' \in [Procs -> Seq(SemCalls)] /\ \A q \in Procs \ Players : script'[q] = script[q]
      /\ Left(p)' = Left(p) - 1 /\ script'[o] = script[o] /\ Scripts'
  BY <1>2, ReturnLeft
<1>4. slot'[o] = slot[o] /\ reg'[o] = reg[o]
  BY <1>1, <1>2, OldTypes
<1>5. PlayTyped' /\ pc'[p] = "user" /\ pc'[o] = pc[o]
  <2>1. slot' \in [Procs -> Slots] /\ reg' \in [Procs -> Int] /\ "user" \in Steps
    BY <1>1, <1>2, OldTypes DEF Steps, Interruptible
  <2>2. value' \in [Slots -> Nat \cup {Closed}]
    BY OldTypes
  <2>3. QED
    BY <1>2, <1>3, <2>1, <2>2, TypesKept
<1>6. Phase(p)'
  BY <1>5 DEF Phase, AtSlot, InSlot, InGeneral, Closing
<1>7. /\ Phase(o)' /\ Left(o)' = Left(o) /\ (InUp(o)' <=> InUp(o))
      /\ Taken(o)' = Taken(o) /\ Given(o)' = Given(o)
      /\ (Ended(o)' <=> Ended(o)) /\ (pc'[o] \in Closing <=> pc[o] \in Closing)
      /\ (pc'[o] = "up_store" <=> pc[o] = "up_store")
      /\ (pc'[o] = "down_store" <=> pc[o] = "down_store")
  BY <1>1, <1>3, <1>4, <1>5, Stays
<1>8. Left(p) \in Nat /\ Rounds \in Nat /\ Phase(p)
  BY <1>1, OldTypes, PingPongAssumption DEF Left, InPlay
<1>9. Taken(p)' = Taken(p) /\ Given(p)' = Given(p) /\ (Ended(p)' <=> Ended(p))
  <2>1. CASE pc[p] = "down_exit"
    <3>1. Left(p) >= 3 /\ Left(p) % 2 = 1
      BY <1>8, <2>1 DEF Phase, AtSlot, InSlot
    <3>2. (Left(p) - 2) \div 2 = (Left(p) - 1) \div 2 - 1 /\ (Left(p) - 1) \div 2 = Left(p) \div 2
          /\ (Left(p) - 1) \div 2 \in Int
      BY <1>8, <3>1
    <3>3. DownsLeft(p) = (Left(p) - 1) \div 2 /\ DownsLeft(p)' = (Left(p) - 2) \div 2
      BY <1>3, <1>8, <3>1 DEF DownsLeft
    <3>4. Taken(p) = Rounds - DownsLeft(p) + 1 /\ Taken(p)' = Rounds - DownsLeft(p)' + 0
      BY <1>5, <2>1 DEF Taken
    <3>5. Given(p) = Rounds - Left(p) \div 2 + 0 /\ Given(p)' = Rounds - Left(p)' \div 2 + 0
      BY <1>5, <2>1 DEF Given
    <3>6. Ended(p)' <=> Ended(p)
      BY <1>3, <1>8, <3>1 DEF Ended
    <3>7. Taken(p)' = Taken(p)
      <4>1. DownsLeft(p)' = DownsLeft(p) - 1 /\ DownsLeft(p) \in Int
        BY <3>2, <3>3
      <4>2. QED
        BY <1>8, <3>4, <4>1
    <3>8. Given(p)' = Given(p)
      BY <1>3, <3>2, <3>5
    <3>9. QED
      BY <3>6, <3>7, <3>8
  <2>2. CASE pc[p] = "release" /\ Left(p) = 1
    BY <1>3, <1>5, <1>8, <2>2 DEF Taken, Given, Ended, InUp, DownsLeft
  <2>3. CASE pc[p] = "release" /\ InUp(p)
    <3>1. (Left(p) - 2) \div 2 = (Left(p) - 1) \div 2 /\ (Left(p) - 1) \div 2 = Left(p) \div 2 - 1
          /\ Left(p) \div 2 \in Int
      BY <1>8, <2>3 DEF InUp
    <3>2. DownsLeft(p) = (Left(p) - 1) \div 2 /\ DownsLeft(p)' = (Left(p) - 2) \div 2
      BY <1>3, <1>8, <2>3 DEF DownsLeft, InUp
    <3>3. QED
      BY <1>3, <1>5, <1>8, <2>3, <3>1, <3>2 DEF Taken, Given, Ended, InUp
  <2>4. QED
    BY <1>8, <2>1, <2>2, <2>3 DEF Phase
<1>10. Accounts(p)' /\ Accounts(o)'
  <2>1. Accounts(p) /\ Accounts(o) /\ pc[p] \notin Closing
    BY <1>1 DEF InPlay, Closing
  <2>2. QED
    BY <1>1, <1>4, <1>5, <1>7, <1>9, <2>1 DEF Accounts, Units, Other, Closing
<1>11. QED
  BY <1>1, <1>3, <1>5, <1>6, <1>7, <1>10 DEF InPlay

LEMMA PlayReleaseGeneral ==
  ASSUME InPlay, NEW p \in Players, ReleaseGeneral(p)
  PROVE  InPlay'
<1>1. Phase(p) /\ pc[p] = "release"
  BY DEF InPlay, ReleaseGeneral
<1>2. general_lock = p /\ Left(p) > 0
  <2>1. Left(p) \in Nat
    BY Pair, OldTypes DEF Left
  <2>2. QED
    BY <1>1, <2>1 DEF Phase, InGeneral, InUp
<1>3. general_lock' = 0 /\ Return(p) /\ UNCHANGED <<sem_id, value, lock, lock_set, sem_are_set>>
  BY <1>2 DEF ReleaseGeneral, table, flags
<1>4. pc[Other(p)] \notin InGeneral
  BY <1>2, GeneralOf
<1>5. Phase(Other(p))
  BY Pair DEF InPlay
<1>6. QED
  BY <1>1, <1>2, <1>3, <1>4, <1>5, OldTypes, PlayReturn DEF Phase

LEMMA PlayDownExit ==
  ASSUME InPlay, NEW p \in Players, DownExit(p)
  PROVE  InPlay'
<1>0. Other(p) \in Players /\ Other(p) # p /\ p \in Procs /\ p \in Slots /\ Other(p) \in Slots
  BY Pair
<1>1. Phase(p) /\ Phase(Other(p)) /\ pc[p] = "down_exit"
  BY <1>0 DEF InPlay, DownExit
<1>2. lock[p] = p /\ slot[p] = p /\ Left(p) > 0
  <2>1. Left(p) >= 3
    BY <1>1 DEF Phase, AtSlot, InSlot
  <2>2. Left(p) \in Nat
    BY <1>0, OldTypes DEF Left
  <2>3. QED
    BY <1>1, <2>1, <2>2 DEF Phase, AtSlot, InSlot
<1>3. lock' = [lock EXCEPT ![p] = 0] /\ Return(p) /\ UNCHANGED <<sem_id, value, general_lock, lock_set, sem_are_set>>
  BY <1>2 DEF DownExit, table, flags
<1>4. lock' \in [Slots -> 0..NPROC] /\ lock'[Other(p)] = lock[Other(p)]
  BY <1>0, <1>3, OldTypes
<1>5. QED
  BY <1>1, <1>2, <1>3, <1>4, OldTypes, PlayReturn DEF Phase

LEMMA PlayWakeup ==
  ASSUME InPlay, NEW p \in Players, Wakeup(p)
  PROVE  InPlay'
<1> USE DEF Goto, table, spinlocks, flags
<1> DEFINE o == Other(p)
<1>1. /\ o \in Players /\ Other(o) = p /\ o # p /\ p \in Procs /\ o \in Procs
      /\ \A q \in Players : q = p \/ q = o
  BY Pair
<1>2. Phase(p) /\ Phase(o) /\ pc[p] \in {"up_wake", "close_wake"}
  BY <1>1 DEF InPlay, Wakeup
<1>3. UNCHANGED <<sem_id, value, lock, general_lock, lock_set, sem_are_set, script, slot, reg>>
  BY DEF Wakeup
<1>4. /\ \/ pc[p] = "up_wake" /\ pc'[p] = "release"
         \/ pc[p] = "close_wake" /\ pc'[p] = "close_mark"
      /\ \A q \in Procs \ {p} : pc'[q] = pc[q] \/ (pc[q] = "asleep" /\ pc'[q] = "woken")
      /\ pc' \in [Procs -> Steps]
  <2>1. pc \in [Procs -> Steps]
    BY OldTypes
  <2>2. pc' \in [Procs -> Steps]
    BY <2>1 DEF Wakeup, Steps, Interruptible
  <2>3. QED
    BY <1>1, <1>2, <2>2 DEF Wakeup
<1>5. PlayTyped'
  <2>1. \A q \in Procs \ Players : pc'[q] = "user"
    BY <1>4, <1>1 DEF InPlay, PlayTyped
  <2>2. QED
    BY <1>3, <1>4, <2>1 DEF InPlay, PlayTyped, TypeOK
<1>6. Left(p)' = Left(p) /\ (InUp(p)' <=> InUp(p)) /\ DownsLeft(p)' = DownsLeft(p)
      /\ Left(o)' = Left(o) /\ Scripts'
  BY <1>1, <1>3, SameScripts
<1>7. Phase(p)'
  BY <1>2, <1>3, <1>4, <1>6 DEF Phase, AtSlot, InSlot, InGeneral, Closing
<1>8. pc[o] \notin InGeneral
  BY <1>2, GeneralOf DEF Phase, InGeneral
<1>9. CASE pc[p] = "up_wake"
  <2>1. pc'[p] = "release" /\ InUp(p)
    BY <1>2, <1>4, <1>9 DEF Phase
  <2>2. Left(p) # 1
    BY <2>1 DEF InUp
  <2>3. pc'[o] = pc[o] \/ (pc[o] = "asleep" /\ pc'[o] = "woken")
    BY <1>1, <1>4
  <2>4. QED
    BY <1>1, <1>2, <1>3, <1>5, <1>7, <1>8, <1>9, <2>1, <2>2, <2>3, Moves DEF Phase, Closing
<1>10. CASE pc[p] = "close_wake"
  <2>1. pc'[p] = "close_mark" /\ Left(p) = 1 /\ pc'[p] \in Closing
    BY <1>2, <1>4, <1>10 DEF Phase, Closing
  <2>2. /\ Phase(o)' /\ (InUp(o)' <=> InUp(o))
        /\ Taken(o)' = Taken(o) /\ Given(o)' = Given(o)
        /\ (Ended(o)' <=> Ended(o)) /\ (pc'[o] \in Closing <=> pc[o] \in Closing)
        /\ (pc'[o] = "up_store" <=> pc[o] = "up_store")
        /\ (pc'[o] = "down_store" <=> pc[o] = "down_store")
    <3>1. pc'[o] = pc[o] \/ (pc[o] = "asleep" /\ pc'[o] = "woken")
      BY <1>1, <1>4
    <3>2. QED
      BY <1>1, <1>2, <1>3, <1>8, <3>1, Stays DEF Phase
  <2>3. Taken(p)' = Taken(p) /\ Given(p)' = Given(p) /\ ~Ended(p) /\ ~Ended(p)'
    BY <1>6, <1>10, <2>1 DEF Taken, Given, Ended, InUp
  <2>4. Accounts(p)' /\ Accounts(o)'
    <3>1. Accounts(p) /\ Accounts(o)
      BY <1>1 DEF InPlay
    <3>2. QED
      BY <1>1, <1>3, <2>1, <2>2, <2>3, <3>1 DEF Accounts, Units, Other
  <2>5. QED
    BY <1>1, <1>5, <1>6, <1>7, <2>2, <2>4 DEF InPlay
<1>11. QED
  BY <1>2, <1>9, <1>10

LEMMA PlayUpScan ==
  ASSUME InPlay, NEW p \in Players, UpScan(p)
  PROVE  InPlay'
<1> USE DEF Goto, table, spinlocks, flags
<1> DEFINE o == Other(p)
<1>1. /\ o \in Players /\ Other(o) = p /\ o # p /\ p \in Procs /\ o \in Procs /\ o \in Slots
  BY Pair
<1>2. Phase(p) /\ Phase(o) /\ Accounts(o) /\ pc[p] = "up_scan" /\ InUp(p)
  BY <1>1 DEF InPlay, UpScan, Phase
<1>3. general_lock = p /\ pc[o] \notin InGeneral
  BY <1>2, GeneralOf DEF Phase, InGeneral
<1>4. call(p).id = IdOf(o) /\ Left(p) # 1
  <2>1. Left(p) > 0 /\ Left(p) # 1
    <3>1. Left(p) \in Nat
      BY <1>1, OldTypes DEF Left
    <3>2. QED
      BY <1>2, <3>1 DEF InUp
  <2>2. QED
    BY <1>2, <2>1, NextCall
<1>5. UNCHANGED <<sem_id, value, lock, general_lock, lock_set, sem_are_set, script>>
  BY DEF UpScan
<1>6. Left(p)' = Left(p) /\ (InUp(p)' <=> InUp(p))
  BY <1>5, SameScripts
<1>7. CASE value[o] >= 0
  <2>1. OpenSlots(IdOf(o)) = {o} /\ FirstOf({o}) = o
    BY <1>1, <1>7, SlotOf
  <2>2. value[o] = 0
    BY <1>2, <1>3, <1>7, FindsNothing DEF InGeneral, Closing
  <2>3. /\ slot' = [slot EXCEPT ![p] = o] /\ reg' = [reg EXCEPT ![p] = 0]
        /\ pc' = [pc EXCEPT ![p] = "up_store"]
    BY <1>4, <2>1, <2>2 DEF UpScan
  <2>4. slot' \in [Procs -> Slots] /\ reg' \in [Procs -> Int] /\ "up_store" \in Steps
    BY <1>1, <2>3, OldTypes DEF Steps
  <2>5. PlayTyped' /\ pc'[p] = "up_store" /\ pc'[o] = pc[o]
    BY <1>5, <2>3, <2>4, OldTypes, TypesKept
  <2>6. slot'[p] = o /\ reg'[p] = 0 /\ slot'[o] = slot[o] /\ reg'[o] = reg[o]
    BY <1>1, <2>3, OldTypes
  <2>7. Phase(p)'
    BY <1>2, <1>3, <1>5, <1>6, <2>5, <2>6 DEF Phase, AtSlot, InSlot, InGeneral, Closing
  <2>8. QED
    BY <1>1, <1>2, <1>3, <1>5, <2>2, <2>5, <2>6, <2>7, Moves DEF Phase, Closing
<1>8. CASE ~(value[o] >= 0)
  <2>1. OpenSlots(IdOf(o)) = {}
    BY <1>1, <1>8, SlotOf
  <2>2. slot' = slot /\ reg' = reg /\ pc' = [pc EXCEPT ![p] = "release"]
    BY <1>4, <2>1 DEF UpScan
  <2>3. PlayTyped' /\ pc'[p] = "release" /\ pc'[o] = pc[o]
    <3>1. "release" \in Steps
      BY DEF Steps
    <3>2. QED
      BY <1>5, <2>2, <3>1, OldTypes, TypesKept
  <2>4. Ended(o) \/ pc[o] \in Closing
    BY <1>1, <1>8, FindsNothing
  <2>5. Phase(p)'
    BY <1>2, <1>3, <1>5, <1>6, <2>3 DEF Phase, AtSlot, InSlot, InGeneral, Closing
  <2>6. QED
    BY <1>1, <1>2, <1>3, <1>4, <1>5, <2>2, <2>3, <2>4, <2>5, Moves DEF Phase, Closing
<1>9. QED
  BY <1>7, <1>8

LEMMA PlayDownScan ==
  ASSUME InPlay, NEW p \in Players, DownScan(p)
  PROVE  InPlay'
<1> USE DEF Goto, table, spinlocks, flags
<1> DEFINE o == Other(p)
<1>1. /\ o \in Players /\ Other(o) = p /\ o # p /\ p \in Procs /\ o \in Procs /\ p \in Slots
  BY Pair
<1>2. Phase(p) /\ Phase(o) /\ pc[p] = "down_scan" /\ Left(p) >= 3 /\ Left(p) % 2 = 1
  BY <1>1 DEF InPlay, DownScan, Phase
<1>3. general_lock = p /\ pc[o] \notin InGeneral
  BY <1>2, GeneralOf DEF Phase, InGeneral
<1>4. call(p).id = IdOf(p) /\ ~InUp(p) /\ ~Ended(p)
  <2>1. Left(p) > 0 /\ ~InUp(p) /\ ~Ended(p)
    <3>1. Left(p) \in Nat
      BY <1>1, OldTypes DEF Left
    <3>2. QED
      BY <1>2, <3>1 DEF InUp, Ended
  <2>2. QED
    BY <1>2, <2>1, NextCall
<1>5. UNCHANGED <<sem_id, value, lock, general_lock, lock_set, sem_are_set, script, reg>>
  BY DEF DownScan
<1>6. OpenSlots(IdOf(p)) = {p} /\ FirstOf({p}) = p
  BY <1>2, <1>4, SlotOf, FindsNothing DEF Closing
<1>7. slot' = [slot EXCEPT ![p] = p] /\ pc' = [pc EXCEPT ![p] = "down_enter"]
  BY <1>4, <1>6 DEF DownScan
<1>8. slot' \in [Procs -> Slots] /\ "down_enter" \in Steps /\ slot'[p] = p /\ slot'[o] = slot[o]
  BY <1>1, <1>7, OldTypes DEF Steps
<1>9. PlayTyped' /\ pc'[p] = "down_enter" /\ pc'[o] = pc[o]
  BY <1>5, <1>7, <1>8, OldTypes, TypesKept
<1>10. Left(p)' = Left(p) /\ (InUp(p)' <=> InUp(p))
  BY <1>5, SameScripts
<1>11. Phase(p)'
  BY <1>2, <1>3, <1>5, <1>8, <1>9, <1>10 DEF Phase, AtSlot, InSlot, InGeneral, Closing
<1>12. QED
  BY <1>1, <1>2, <1>3, <1>5, <1>8, <1>9, <1>11, Moves DEF Phase, Closing

\* What holds from down_enter on.
LEMMA AtOwnSlot ==
  ASSUME InPlay, NEW p \in Players, pc[p] \in AtSlot
  PROVE  /\ slot[p] = p /\ Left(p) >= 3 /\ Left(p) % 2 = 1 /\ ~InUp(p) /\ ~Ended(p) /\ Left(p) \in Nat
         /\ value[p] >= 0 /\ Phase(p) /\ Phase(Other(p)) /\ Accounts(p) /\ Accounts(Other(p))
         /\ Other(p) \in Players /\ Other(Other(p)) = p /\ Other(p) # p
         /\ p \in Procs /\ Other(p) \in Procs /\ p \in Slots /\ Other(p) \in Slots
         /\ p \in 0..NPROC /\ p # 0
<1>1. /\ Other(p) \in Players /\ Other(Other(p)) = p /\ Other(p) # p /\ p # 0
      /\ p \in Procs /\ Other(p) \in Procs /\ p \in Slots /\ Other(p) \in Slots
  BY Pair
<1>2. Phase(p) /\ Phase(Other(p)) /\ Accounts(p) /\ Accounts(Other(p))
  BY <1>1 DEF InPlay
<1>3. slot[p] = p /\ Left(p) >= 3 /\ Left(p) % 2 = 1
  BY <1>2 DEF Phase
<1>4. Left(p) \in Nat
  BY <1>1, OldTypes DEF Left
<1>5. ~InUp(p) /\ ~Ended(p)
  BY <1>3, <1>4 DEF InUp, Ended
<1>6. value[p] >= 0
  BY <1>5, FindsNothing DEF AtSlot, InSlot, Closing
<1>7. p \in 0..NPROC
  BY <1>1, OldTypes
<1>8. QED
  BY <1>1, <1>2, <1>3, <1>4, <1>5, <1>6, <1>7

LEMMA PlayDownEnter ==
  ASSUME InPlay, NEW p \in Players, DownEnter(p)
  PROVE  InPlay'
<1> USE DEF Goto, table, spinlocks, flags
<1> DEFINE o == Other(p)
<1>1. pc[p] = "down_enter" /\ pc[p] \in AtSlot
  BY DEF DownEnter, AtSlot
<1>2. /\ slot[p] = p /\ Left(p) >= 3 /\ Left(p) % 2 = 1 /\ ~InUp(p) /\ Phase(p) /\ Phase(o)
      /\ o \in Players /\ Other(o) = p /\ o # p /\ p \in Procs /\ o \in Procs /\ p \in Slots /\ o \in Slots
      /\ p \in 0..NPROC /\ p # 0
  BY <1>1, AtOwnSlot
<1>3. general_lock = p /\ pc[o] \notin InGeneral
  BY <1>1, <1>2, GeneralOf DEF Phase, InGeneral
<1>4. /\ lock' = [lock EXCEPT ![p] = p] /\ general_lock' = 0 /\ pc' = [pc EXCEPT ![p] = "down_load"]
      /\ UNCHANGED <<sem_id, value, lock_set, sem_are_set, script, slot, reg>>
  BY <1>2, <1>3 DEF DownEnter
<1>5. lock' \in [Slots -> 0..NPROC] /\ "down_load" \in Steps /\ lock'[p] = p /\ lock'[o] = lock[o]
  BY <1>2, <1>4, OldTypes DEF Steps
<1>6. PlayTyped' /\ pc'[p] = "down_load" /\ pc'[o] = pc[o]
  BY <1>4, <1>5, OldTypes, TypesKept
<1>7. Left(p)' = Left(p) /\ (InUp(p)' <=> InUp(p))
  BY <1>4, SameScripts
<1>8. Phase(p)'
  BY <1>2, <1>4, <1>5, <1>6, <1>7 DEF Phase, AtSlot, InSlot, InGeneral, Closing
<1>9. QED
  BY <1>1, <1>2, <1>3, <1>4, <1>5, <1>6, <1>8, Moves DEF Phase, Closing

LEMMA PlayDownLoad ==
  ASSUME InPlay, NEW p \in Players, DownLoad(p)
  PROVE  InPlay'
<1> USE DEF Goto, table, spinlocks, flags
<1> DEFINE o == Other(p)
           step == IF Blocks(value[p]) THEN "down_sleep" ELSE "down_store"
<1>1. pc[p] = "down_load" /\ pc[p] \in AtSlot
  BY DEF DownLoad, AtSlot, InSlot
<1>2. /\ slot[p] = p /\ Left(p) >= 3 /\ Left(p) % 2 = 1 /\ ~InUp(p) /\ Phase(p) /\ Phase(o) /\ value[p] >= 0
      /\ o \in Players /\ Other(o) = p /\ o # p /\ p \in Procs /\ o \in Procs /\ p \in Slots /\ o \in Slots
  BY <1>1, AtOwnSlot
<1>3. /\ reg' = [reg EXCEPT ![p] = value[p]] /\ pc' = [pc EXCEPT ![p] = step]
      /\ UNCHANGED <<sem_id, value, lock, general_lock, lock_set, sem_are_set, script, slot>>
  BY <1>2 DEF DownLoad
<1>4. reg' \in [Procs -> Int] /\ reg'[p] = value[p] /\ reg'[o] = reg[o] /\ value[p] \in Nat
  BY <1>2, <1>3, OldTypes DEF Closed
<1>5. step \in {"down_sleep", "down_store"} /\ step \in Steps /\ (step = "down_store" => value[p] > 0)
  BY <1>4 DEF Steps, Blocks
<1> HIDE DEF step
<1>6. PlayTyped' /\ pc'[p] = step /\ pc'[o] = pc[o]
  BY <1>3, <1>4, <1>5, OldTypes, TypesKept
<1>7. Left(p)' = Left(p) /\ (InUp(p)' <=> InUp(p))
  BY <1>3, SameScripts
<1>8. Phase(p)'
  BY <1>1, <1>2, <1>3, <1>5, <1>6, <1>7 DEF Phase, AtSlot, InSlot, InGeneral, Closing
<1>9. pc'[p] \in {"down_sleep", "down_store"} /\ (pc'[p] = "down_store" => reg'[p] > 0 /\ value[p] = reg'[p])
  BY <1>4, <1>5, <1>6
<1>10. QED
  BY <1>1, <1>2, <1>3, <1>4, <1>6, <1>8, <1>9, Moves DEF Phase, Closing

LEMMA PlayDownSleep ==
  ASSUME InPlay, NEW p \in Players, DownSleep(p)
  PROVE  InPlay'
<1> USE DEF Goto, table, spinlocks, flags
<1> DEFINE o == Other(p)
<1>1. pc[p] = "down_sleep" /\ pc[p] \in AtSlot
  BY DEF DownSleep, AtSlot, InSlot
<1>2. /\ slot[p] = p /\ Left(p) >= 3 /\ Left(p) % 2 = 1 /\ ~InUp(p) /\ Phase(p) /\ Phase(o)
      /\ o \in Players /\ Other(o) = p /\ o # p /\ p \in Procs /\ o \in Procs /\ p \in Slots /\ o \in Slots
  BY <1>1, AtOwnSlot
<1>3. lock[p] = p
  BY <1>1, <1>2 DEF Phase, InSlot
<1>4. /\ lock' = [lock EXCEPT ![p] = 0] /\ pc' = [pc EXCEPT ![p] = "asleep"]
      /\ UNCHANGED <<sem_id, value, general_lock, lock_set, sem_are_set, script, slot, reg>>
  BY <1>2, <1>3 DEF DownSleep
<1>5. lock' \in [Slots -> 0..NPROC] /\ "asleep" \in Steps /\ lock'[o] = lock[o]
  BY <1>2, <1>4, OldTypes DEF Steps, Interruptible
<1>6. PlayTyped' /\ pc'[p] = "asleep" /\ pc'[o] = pc[o]
  BY <1>4, <1>5, OldTypes, TypesKept
<1>7. Left(p)' = Left(p) /\ (InUp(p)' <=> InUp(p))
  BY <1>4, SameScripts
<1>8. Phase(p)'
  BY <1>2, <1>4, <1>6, <1>7 DEF Phase, AtSlot, InSlot, InGeneral, Closing
<1>9. QED
  BY <1>1, <1>2, <1>4, <1>5, <1>6, <1>8, Moves DEF Phase, Closing

LEMMA PlayDownAgain ==
  ASSUME InPlay, NEW p \in Players, DownAgain(p)
  PROVE  InPlay'
<1> USE DEF Goto, table, spinlocks, flags
<1> DEFINE o == Other(p)
<1>1. pc[p] = "woken" /\ pc[p] \in AtSlot
  BY DEF DownAgain, AtSlot
<1>2. /\ slot[p] = p /\ Left(p) >= 3 /\ Left(p) % 2 = 1 /\ ~InUp(p) /\ Phase(p) /\ Phase(o)
      /\ o \in Players /\ Other(o) = p /\ o # p /\ p \in Procs /\ o \in Procs /\ p \in Slots /\ o \in Slots
      /\ p \in 0..NPROC
  BY <1>1, AtOwnSlot
<1>3. /\ lock' = [lock EXCEPT ![p] = p] /\ pc' = [pc EXCEPT ![p] = "down_load"]
      /\ UNCHANGED <<sem_id, value, general_lock, lock_set, sem_are_set, script, slot, reg>>
  BY <1>2 DEF DownAgain, AfterSleep
<1>4. lock' \in [Slots -> 0..NPROC] /\ "down_load" \in Steps /\ lock'[p] = p /\ lock'[o] = lock[o]
  BY <1>2, <1>3, OldTypes DEF Steps
<1>5. PlayTyped' /\ pc'[p] = "down_load" /\ pc'[o] = pc[o]
  BY <1>3, <1>4, OldTypes, TypesKept
<1>6. Left(p)' = Left(p) /\ (InUp(p)' <=> InUp(p))
  BY <1>3, SameScripts
<1>7. Phase(p)'
  BY <1>2, <1>3, <1>4, <1>5, <1>6 DEF Phase, AtSlot, InSlot, InGeneral, Closing
<1>8. QED
  BY <1>1, <1>2, <1>3, <1>4, <1>5, <1>7, Moves DEF Phase, Closing

LEMMA PlayDownStore ==
  ASSUME InPlay, NEW p \in Players, DownStore(p)
  PROVE  InPlay'
<1> USE DEF Goto, table, spinlocks, flags
<1> DEFINE o == Other(p)
<1>1. pc[p] = "down_store" /\ pc[p] \in AtSlot
  BY DEF DownStore, AtSlot, InSlot
<1>2. /\ slot[p] = p /\ Left(p) >= 3 /\ Left(p) % 2 = 1 /\ ~InUp(p) /\ ~Ended(p)
      /\ Phase(p) /\ Phase(o) /\ Accounts(p) /\ Accounts(o)
      /\ o \in Players /\ Other(o) = p /\ o # p /\ p \in Procs /\ o \in Procs /\ p \in Slots /\ o \in Slots
      /\ \A q \in Players : q = p \/ q = o
  BY <1>1, AtOwnSlot, Pair
<1>3. reg[p] = value[p] /\ reg[p] > 0 /\ reg[p] \in Int /\ value[p] = Units(p) + Given(o) - Taken(p)
  BY <1>1, <1>2, OldTypes DEF Accounts, Closing
<1>4. /\ value' = [value EXCEPT ![p] = reg[p] - 1] /\ pc' = [pc EXCEPT ![p] = "down_exit"]
      /\ UNCHANGED <<sem_id, lock, general_lock, lock_set, sem_are_set, script, slot, reg>>
  BY <1>2 DEF DownStore
<1>5. /\ value' \in [Slots -> Nat \cup {Closed}] /\ value'[p] = value[p] - 1 /\ value'[o] = value[o]
      /\ "down_exit" \in Steps
  <2>1. reg[p] - 1 \in Nat
    BY <1>3
  <2>2. QED
    BY <1>2, <1>3, <1>4, <2>1, OldTypes DEF Steps
<1>6. PlayTyped' /\ pc'[p] = "down_exit" /\ pc'[o] = pc[o]
  BY <1>4, <1>5, OldTypes, TypesKept
<1>7. Left(p)' = Left(p) /\ (InUp(p)' <=> InUp(p)) /\ DownsLeft(p)' = DownsLeft(p) /\ Scripts'
  BY <1>4, SameScripts
<1>8. Phase(p)'
  BY <1>1, <1>2, <1>4, <1>6, <1>7 DEF Phase, AtSlot, InSlot, InGeneral, Closing
<1>9. /\ Phase(o)' /\ Taken(o)' = Taken(o) /\ Given(o)' = Given(o)
      /\ (Ended(o)' <=> Ended(o)) /\ (pc'[o] \in Closing <=> pc[o] \in Closing)
      /\ (pc'[o] = "up_store" <=> pc[o] = "up_store")
      /\ (pc'[o] = "down_store" <=> pc[o] = "down_store")
  BY <1>2, <1>4, <1>6, Stays DEF Phase
<1>10. Given(p)' = Given(p) /\ ~Ended(p)'
  BY <1>1, <1>2, <1>6, <1>7 DEF Given, Ended
<1>11. Taken(p)' = Taken(p) + 1
  <2>1. Taken(p) \in Int /\ Taken(p) = Rounds - DownsLeft(p) + 0 /\ Taken(p)' = Rounds - DownsLeft(p) + 1
    BY <1>1, <1>6, <1>7, TakesAndGives DEF Taken
  <2>2. (Left(p) - 1) \div 2 \in Int /\ Rounds \in Int
    BY <1>1, AtOwnSlot, PingPongAssumption
  <2>3. DownsLeft(p) \in Int
    BY <1>2, <2>2 DEF DownsLeft
  <2>4. QED
    BY <2>1, <2>2, <2>3
<1>12. pc[o] # "up_store"
  BY <1>2, <1>3 DEF Accounts
<1>13. Accounts(p)'
  <2>1. Taken(p) \in Int /\ Given(o) \in Int /\ Units(p) \in {0, 1}
    BY <1>2, TakesAndGives, Pair
  <2>2. Taken(p)' <= Units(p) + Given(o)' /\ value'[p] = Units(p) + Given(o)' - Taken(p)'
    BY <1>3, <1>5, <1>9, <1>11, <2>1
  <2>3. QED
    BY <1>6, <1>10, <2>2 DEF Accounts, Units, Other
<1>14. Accounts(o)'
  BY <1>2, <1>4, <1>5, <1>9, <1>10, <1>12 DEF Accounts, Units, Other
<1>15. QED
  BY <1>2, <1>6, <1>7, <1>8, <1>9, <1>13, <1>14 DEF InPlay

LEMMA PlayUpStore ==
  ASSUME InPlay, NEW p \in Players, UpStore(p)
  PROVE  InPlay'
<1> USE DEF Goto, table, spinlocks, flags
<1> DEFINE o == Other(p)
<1>1. /\ o \in Players /\ Other(o) = p /\ o # p /\ p \in Procs /\ o \in Procs /\ p \in Slots /\ o \in Slots
      /\ \A q \in Players : q = p \/ q = o
  BY Pair
<1>2. Phase(p) /\ Phase(o) /\ Accounts(p) /\ Accounts(o) /\ pc[p] = "up_store"
  BY <1>1 DEF InPlay, UpStore
<1>3. slot[p] = o /\ general_lock = p /\ InUp(p) /\ reg[p] = 0 /\ value[o] = 0
  BY <1>1, <1>2 DEF Phase, Accounts, InGeneral
<1>4. pc[o] \notin InGeneral /\ pc[o] \notin Closing /\ pc[o] # "up_store"
  BY <1>3, GeneralOf
<1>5. /\ value' = [value EXCEPT ![o] = 1] /\ pc' = [pc EXCEPT ![p] = "up_wake"]
      /\ UNCHANGED <<sem_id, lock, general_lock, lock_set, sem_are_set, script, slot, reg>>
  BY <1>3 DEF UpStore
<1>6. /\ value' \in [Slots -> Nat \cup {Closed}] /\ value'[o] = 1 /\ value'[p] = value[p]
      /\ "up_wake" \in Steps
  BY <1>1, <1>5, OldTypes DEF Steps
<1>7. PlayTyped' /\ pc'[p] = "up_wake" /\ pc'[o] = pc[o]
  BY <1>5, <1>6, OldTypes, TypesKept
<1>8. Left(p)' = Left(p) /\ (InUp(p)' <=> InUp(p)) /\ DownsLeft(p)' = DownsLeft(p) /\ Scripts'
  BY <1>5, SameScripts
<1>9. Phase(p)'
  BY <1>1, <1>2, <1>3, <1>5, <1>7, <1>8 DEF Phase, AtSlot, InSlot, InGeneral, Closing
<1>10. /\ Phase(o)' /\ Taken(o)' = Taken(o) /\ Given(o)' = Given(o)
       /\ (Ended(o)' <=> Ended(o)) /\ (pc'[o] \in Closing <=> pc[o] \in Closing)
       /\ (pc'[o] = "up_store" <=> pc[o] = "up_store")
       /\ (pc'[o] = "down_store" <=> pc[o] = "down_store")
  BY <1>1, <1>2, <1>5, <1>7, Stays DEF Phase
<1>11. Taken(p)' = Taken(p) /\ (Ended(p)' <=> Ended(p)) /\ pc[p] \notin Closing /\ pc'[p] \notin Closing
  BY <1>2, <1>7, <1>8 DEF Taken, Ended, Closing
<1>12. Given(p)' = Given(p) + 1
  <2>1. Given(p) = Rounds - Left(p) \div 2 + 0 /\ Given(p)' = Rounds - Left(p) \div 2 + 1
    BY <1>2, <1>3, <1>7, <1>8 DEF Given
  <2>2. Left(p) \in Nat /\ Rounds \in Nat
    BY <1>1, OldTypes, PingPongAssumption DEF Left
  <2>3. QED
    BY <2>1, <2>2
<1>13. Accounts(p)'
  <2>1. Accounts(p) /\ value'[p] = value[p] /\ pc'[p] # "up_store" /\ pc'[p] # "down_store"
    BY <1>2, <1>6, <1>7
  <2>2. QED
    BY <1>1, <1>10, <1>11, <2>1 DEF Accounts, Units, Other
<1>14. Accounts(o)'
  <2>1. ~Ended(o) /\ pc[o] # "down_store"
    BY <1>2, <1>3 DEF Accounts, Closed
  <2>2. Taken(o) \in Int /\ Given(p) \in Int /\ Units(o) \in {0, 1} /\ value[o] = Units(o) + Given(p) - Taken(o)
    BY <1>1, <1>2, <1>4, <2>1, TakesAndGives, Pair DEF Accounts
  <2>3. Taken(o)' <= Units(o) + Given(p)' /\ value'[o] = Units(o) + Given(p)' - Taken(o)'
    BY <1>3, <1>6, <1>10, <1>12, <2>2
  <2>4. QED
    BY <1>1, <1>4, <1>10, <2>1, <2>3 DEF Accounts, Units, Other
<1>15. QED
  BY <1>1, <1>7, <1>8, <1>9, <1>10, <1>13, <1>14 DEF InPlay

\* sem_close(): the semaphore of a player that has taken all its units.
LEMMA PlayClose ==
  ASSUME InPlay, NEW p \in Players, CloseScan(p) \/ CloseMark(p)
  PROVE  InPlay'
<1> USE DEF Goto, table, spinlocks, flags
<1> DEFINE o == Other(p)
<1>1. /\ o \in Players /\ Other(o) = p /\ o # p /\ p \in Procs /\ o \in Procs /\ p \in Slots /\ o \in Slots
      /\ \A q \in Players : q = p \/ q = o
  BY Pair
<1>2. Phase(p) /\ Phase(o) /\ Accounts(p) /\ Accounts(o) /\ pc[p] \in {"close_scan", "close_mark"}
  BY <1>1 DEF InPlay, CloseScan, CloseMark
<1>3. general_lock = p /\ Left(p) = 1 /\ ~Ended(p) /\ ~InUp(p)
  BY <1>2 DEF Phase, InGeneral, Closing, Ended, InUp
<1>4. pc[o] \notin InGeneral /\ pc[o] \notin Closing /\ pc[o] # "up_store"
  BY <1>3, GeneralOf
<1>5. UNCHANGED <<sem_id, lock, general_lock, lock_set, sem_are_set, script, reg>>
  BY DEF CloseScan, CloseMark
<1>6. \E v \in Nat \cup {Closed}, step \in {"close_wake", "release"} :
        /\ value' = [value EXCEPT ![p] = v] /\ pc' = [pc EXCEPT ![p] = step]
        /\ step = "close_wake" => slot' = [slot EXCEPT ![p] = p]
        /\ step = "release" => slot' = slot /\ v = Closed
  <2>1. CASE CloseScan(p)
    <3>1. pc[p] = "close_scan" /\ pc[p] \notin Closing
      BY <2>1 DEF CloseScan, Closing
    <3>2. value[p] >= 0
      BY <1>3, <3>1, FindsNothing
    <3>3. call(p).id = IdOf(p)
      BY <1>3, NextCall
    <3>4. {i \in Slots : sem_id[i] = call(p).id} = {p} /\ FirstOf({p}) = p
      BY <3>3, SlotOf
    <3>5. /\ value' = [value EXCEPT ![p] = NPROC] /\ slot' = [slot EXCEPT ![p] = p]
          /\ pc' = [pc EXCEPT ![p] = "close_wake"]
      BY <2>1, <3>2, <3>4 DEF CloseScan, Closed
    <3>6. QED
      BY <3>5, OldTypes
  <2>2. CASE CloseMark(p)
    <3>1. pc[p] = "close_mark" /\ slot[p] = p
      BY <1>2, <2>2 DEF CloseMark, Phase, Closing
    <3>2. QED
      BY <2>2, <3>1 DEF CloseMark
  <2>3. QED
    BY <2>1, <2>2
<1>7. PICK v \in Nat \cup {Closed}, step \in {"close_wake", "release"} :
        /\ value' = [value EXCEPT ![p] = v] /\ pc' = [pc EXCEPT ![p] = step]
        /\ step = "close_wake" => slot' = [slot EXCEPT ![p] = p]
        /\ step = "release" => slot' = slot /\ v = Closed
  BY <1>6
<1>8. /\ value' \in [Slots -> Nat \cup {Closed}] /\ value'[p] = v /\ value'[o] = value[o]
      /\ slot' \in [Procs -> Slots] /\ slot'[o] = slot[o] /\ step \in Steps
      /\ step = "close_wake" => slot'[p] = p
  BY <1>1, <1>7, OldTypes DEF Steps
<1>9. PlayTyped' /\ pc'[p] = step /\ pc'[o] = pc[o]
  BY <1>5, <1>7, <1>8, OldTypes, TypesKept
<1>10. Left(p)' = Left(p) /\ (InUp(p)' <=> InUp(p)) /\ DownsLeft(p)' = DownsLeft(p) /\ Scripts'
  BY <1>5, SameScripts
<1>11. Phase(p)'
  BY <1>2, <1>3, <1>5, <1>8, <1>9, <1>10 DEF Phase, AtSlot, InSlot, InGeneral, Closing
<1>12. /\ Phase(o)' /\ Taken(o)' = Taken(o) /\ Given(o)' = Given(o)
       /\ (Ended(o)' <=> Ended(o)) /\ (pc'[o] \in Closing <=> pc[o] \in Closing)
       /\ (pc'[o] = "up_store" <=> pc[o] = "up_store")
       /\ (pc'[o] = "down_store" <=> pc[o] = "down_store")
  BY <1>1, <1>2, <1>5, <1>8, <1>9, Stays DEF Phase
<1>13. Taken(p)' = Taken(p) /\ Given(p)' = Given(p)
  BY <1>2, <1>3, <1>9, <1>10 DEF Taken, Given
<1>14. Ended(p)' => v = Closed
  BY <1>3, <1>7, <1>9, <1>10 DEF Ended
<1>15. pc'[p] \in Closing \/ Ended(p)'
  BY <1>3, <1>9, <1>10 DEF Closing, Ended
<1>16. Accounts(p)'
  <2>1. Accounts(p) /\ pc'[p] # "up_store" /\ pc'[p] # "down_store"
    BY <1>2, <1>9
  <2>2. QED
    BY <1>1, <1>8, <1>12, <1>13, <1>14, <1>15, <2>1 DEF Accounts, Units, Other
<1>17. Accounts(o)'
  <2>1. Accounts(o) /\ value'[o] = value[o] /\ reg'[o] = reg[o]
    BY <1>2, <1>5, <1>8
  <2>2. QED
    BY <1>1, <1>4, <1>12, <1>13, <2>1 DEF Accounts, Units, Other
<1>18. QED
  BY <1>1, <1>9, <1>10, <1>11, <1>12, <1>16, <1>17 DEF InPlay

LEMMA PlayStep ==
  ASSUME InPlay, [Next]_vars
  PROVE  InPlay'
<1>1. ASSUME NEW p \in Procs, Step(p) PROVE InPlay'
  <2>1. pc[p] # "user" \/ script[p] # << >>
    BY <1>1 DEF Step, OpenNegative, Enter, AcquireGeneral, ReleaseGeneral, Wakeup, OpenInit, OpenScan,
         CloseScan, CloseMark, UpScan, UpStore, DownScan, DownEnter, DownLoad, DownStore, DownSleep,
         DownAgain, DownExit
  <2>2. p \in Players
    BY <2>1, OnlyPlayers
  <2>3. Phase(p)
    BY <2>2 DEF InPlay
  <2>4. ~OpenInit(p) /\ ~OpenScan(p)
    BY <2>3 DEF Phase, OpenInit, OpenScan
  <2>5. ~OpenNegative(p)
    <3>1. ASSUME OpenNegative(p) PROVE FALSE
      <4>1. script[p] # << >> /\ ~(call(p).value >= 0)
        BY <3>1 DEF OpenNegative, Valid
      <4>2. script[p] \in Seq(SemCalls)
        BY OldTypes
      <4>3. Left(p) > 0
        BY <4>1, <4>2 DEF Left
      <4>4. QED
        BY <2>2, <4>1, <4>3, NextCall
    <3>2. QED
      BY <3>1
  <2>6. QED
    BY <1>1, <2>2, <2>4, <2>5, PlayEnter, PlayAcquireGeneral, PlayReleaseGeneral, PlayWakeup, PlayClose,
       PlayUpScan, PlayUpStore, PlayDownScan, PlayDownEnter, PlayDownLoad, PlayDownStore, PlayDownSleep,
       PlayDownAgain, PlayDownExit DEF Step
<1>2. CASE UNCHANGED vars
  <2>1. UNCHANGED <<sem_id, value, lock, general_lock, lock_set, sem_are_set, script, pc, slot, reg>>
    BY <1>2 DEF vars, table, spinlocks, flags
  <2>2. PlayTyped' /\ Scripts'
    BY <2>1, SameScripts DEF InPlay, PlayTyped, TypeOK
  <2>3. ASSUME NEW p \in Players PROVE Phase(p)' /\ Accounts(p)'
    <3>1. Other(p) \in Players /\ Accounts(p)
      BY Pair DEF InPlay
    <3>2. /\ Phase(p)' /\ Taken(p)' = Taken(p) /\ (Ended(p)' <=> Ended(p))
      BY <2>1, Stays DEF Phase, InPlay
    <3>3. Given(Other(p))' = Given(Other(p))
      BY <2>1 DEF Given, Left, InUp, Other
    <3>4. QED
      BY <2>1, <3>1, <3>2, <3>3 DEF Accounts, Units, Other
  <2>4. QED
    BY <2>2, <2>3 DEF InPlay
<1>3. QED
  BY <1>1, <1>2 DEF Next

\* The calls of the other programs do not get at the semaphores of pingpong.
LEMMA StrangeStep ==
  ASSUME Strange, [Next]_vars
  PROVE  Strange'
<1> USE DEF Goto, table, spinlocks, flags
<1>1. ASSUME NEW p \in Procs, Step(p) PROVE Strange'
  <2>1. script[p] # << >> /\ pc \in [Procs -> Steps] /\ script \in [Procs -> Seq(SemCalls)]
    BY <1>1 DEF Strange, Step, OpenNegative, Enter, AcquireGeneral, ReleaseGeneral, Wakeup, OpenInit, OpenScan,
         CloseScan, CloseMark, UpScan, UpStore, DownScan, DownEnter, DownLoad, DownStore, DownSleep,
         DownAgain, DownExit
  <2>2. /\ call(p).id \in Int \ {id1} /\ Tail(script[p]) \in Seq(SemCalls)
        /\ \A j \in DOMAIN Tail(script[p]) : Tail(script[p])[j].id # id1
    <3>1. script[p] \in Seq(SemCalls) /\ 1 \in DOMAIN script[p] /\ call(p) = script[p][1]
      BY <2>1 DEF call
    <3>2. \A j \in DOMAIN Tail(script[p]) : j + 1 \in DOMAIN script[p] /\ Tail(script[p])[j] = script[p][j + 1]
      BY <2>1, <3>1
    <3>3. call(p) \in SemCalls
      BY <3>1
    <3>4. QED
      BY <2>1, <3>1, <3>2, <3>3 DEF Strange, SemCalls
  <2>3. sem_id' \in [Slots -> Int \ {id1}]
    <3>1. CASE sem_id' = sem_id
      BY <3>1 DEF Strange
    <3>2. CASE OpenScan(p)
      BY <2>2, <3>2 DEF OpenScan, Strange
    <3>3. QED
      BY <1>1, <3>1, <3>2 DEF Step, OpenNegative, Enter, AcquireGeneral, ReleaseGeneral, Wakeup, OpenInit,
         CloseScan, CloseMark, UpScan, UpStore, DownScan, DownEnter, DownLoad, DownStore, DownSleep,
         DownAgain, DownExit
  <2>4. \/ UNCHANGED script /\ \A q \in Procs : pc[q] = "user" /\ q # p => pc'[q] = "user"
        \/ /\ script' = [script EXCEPT ![p] = Tail(@)]
           /\ pc' = [pc EXCEPT ![p] = "user"]
    BY <1>1, <2>1 DEF Step, OpenNegative, Enter, AcquireGeneral, ReleaseGeneral, Wakeup, OpenInit, OpenScan,
         CloseScan, CloseMark, UpScan, UpStore, DownScan, DownEnter, DownLoad, DownStore, DownSleep,
         DownAgain, DownExit, Return
  <2>8. pc' \in [Procs -> Steps]
    <3>1. CASE Enter(p)
      <4>1. script[p] \in Seq(SemCalls) /\ call(p) = script[p][1]
        BY <2>1 DEF call
      <4>2. call(p) \in SemCalls
        BY <2>1, <4>1
      <4>3. call(p).op \in Steps /\ "open_init" \in Steps
        BY <4>2 DEF SemCalls, Steps, Interruptible
      <4>4. QED
        BY <2>1, <3>1, <4>3 DEF Enter
    <3>2. CASE AcquireGeneral(p)
      BY <2>1, <3>2 DEF AcquireGeneral, Scanning, Steps
    <3>3. CASE Wakeup(p)
      BY <2>1, <3>3 DEF Wakeup, Steps, Interruptible
    <3>4. CASE \E step \in Steps : pc' = [pc EXCEPT ![p] = step]
      BY <2>1, <3>4
    <3>5. QED
      BY <1>1, <3>1, <3>2, <3>3, <3>4 DEF Step, OpenNegative, ReleaseGeneral, OpenInit, OpenScan,
         CloseScan, CloseMark, UpScan, UpStore, DownScan, DownEnter, DownLoad, DownStore, DownSleep,
         DownAgain, DownExit, Return, Steps, Interruptible, AfterSleep
  <2>5. CASE UNCHANGED script /\ \A q \in Procs : pc[q] = "user" /\ q # p => pc'[q] = "user"
    BY <2>1, <2>3, <2>5, <2>8 DEF Strange
  <2>6. CASE /\ script' = [script EXCEPT ![p] = Tail(@)]
             /\ pc' = [pc EXCEPT ![p] = "user"]
    <3>1. /\ script' \in [Procs -> Seq(SemCalls)] /\ script'[p] = Tail(script[p]) /\ pc'[p] = "user"
          /\ \A q \in Procs \ {p} : script'[q] = script[q] /\ pc'[q] = pc[q]
      BY <2>1, <2>2, <2>6
    <3>2. QED
      BY <2>2, <2>3, <2>8, <3>1 DEF Strange
  <2>7. QED
    BY <2>4, <2>5, <2>6
<1>2. CASE UNCHANGED vars
  BY <1>2 DEF vars, Strange
<1>3. QED
  BY <1>1, <1>2 DEF Next

-----------------------------------------------------------------------------
(* Its turns *)

\* Every second one of n calls, without the last.
LEMMA EverySecond ==
  ASSUME NEW n \in Nat, NEW d \in Nat, n = 0 => d = 0, n > 0 => n - 2 * d \in {1, 2}
  PROVE  Cardinality({k \in 1..n : n - k # 0 /\ (n - k) % 2 = 0}) = d
<1> DEFINE D == {k \in 1..n : n - k # 0 /\ (n - k) % 2 = 0}
           f == [i \in 1..d |-> n - 2 * i]
<1>1. \A k \in 1..n : k \in D <=> n - k # 0 /\ (n - k) % 2 = 0
  OBVIOUS
<1>2. DOMAIN f = 1..d /\ (\A i \in 1..d : f[i] = n - 2 * i) /\ f = [i \in 1..d |-> f[i]]
  OBVIOUS
<1> HIDE DEF f
<1>3. \A i \in 1..d : f[i] \in D
  <2>1. ASSUME NEW i \in 1..d PROVE f[i] \in D
    <3>1. i \in Nat /\ i >= 1 /\ i <= d
      OBVIOUS
    <3>2. n - 2 * d >= 1
      <4>1. n > 0
        BY <3>1
      <4>2. n - 2 * d \in {1, 2}
        BY <4>1
      <4>3. QED
        BY <4>2
    <3>3. n - 2 * i \in 1..n
      BY <3>1, <3>2
    <3>4. n - (n - 2 * i) = 2 * i /\ 2 * i # 0 /\ (2 * i) % 2 = 0
      BY <3>1
    <3>5. QED
      BY <1>1, <1>2, <3>3, <3>4
  <2>2. QED
    BY <2>1
<1>4. f \in [1..d -> D]
  BY <1>2, <1>3
<1>5. \A i, j \in 1..d : f[i] = f[j] => i = j
  BY <1>2
<1>6. ASSUME NEW k \in D PROVE \E i \in 1..d : f[i] = k
  <2>1. k \in 1..n /\ n - k # 0 /\ (n - k) % 2 = 0 /\ n - k \in Nat
    OBVIOUS
  <2>2. \A x \in Nat : x % 2 = 0 => \E i \in Nat : x = 2 * i
    BY SMTT(30)
  <2>3. PICK i \in Nat : n - k = 2 * i
    BY <2>1, <2>2
  <2>4. i \in 1..d
    BY <2>1, <2>3
  <2>5. QED
    BY <1>2, <2>1, <2>3, <2>4
<1>7. f \in Bijection(1..d, D)
  BY <1>4, <1>5, <1>6, Fun_IsBij
<1>8. ExistsBijection(1..d, D)
  BY <1>7, Fun_ExistsBij
<1>9. QED
  BY <1>8, FS_CountingElements

LEMMA Halves ==
  ASSUME NEW n \in Nat
  PROVE  /\ n \div 2 \in Nat
         /\ n > 0 => (n - 1) \div 2 \in Nat /\ n - 2 * ((n - 1) \div 2) \in {1, 2}
         /\ n >= 2 /\ n % 2 = 0 => (n - 1) \div 2 = n \div 2 - 1
         /\ n = 0 => n \div 2 = 0
         /\ n # 0 /\ ~(n >= 2 /\ n % 2 = 0) => (n - 1) \div 2 = n \div 2
  OBVIOUS

\* The turns that a player has had lie between what it has given and taken.
LEMMA TurnsAre ==
  ASSUME InPlay, NEW p \in Players
  PROVE  /\ TurnsOf(p) \in Int
         /\ TurnsOf(p) <= Taken(p)
         /\ Given(p) <= TurnsOf(p)
<1>1. p \in Procs /\ Left(p) \in Nat /\ Rounds \in Nat /\ Left(p) = Len(script[p])
  <2>1. p \in Procs
    BY Pair
  <2>2. script[p] \in Seq(SemCalls)
    BY <2>1, OldTypes
  <2>3. QED
    BY <2>1, <2>2, PingPongAssumption DEF Left
<1>2. /\ DownsLeft(p) \in Nat /\ (Left(p) = 0 => DownsLeft(p) = 0)
      /\ Left(p) > 0 => Left(p) - 2 * DownsLeft(p) \in {1, 2}
  <2>1. /\ Left(p) > 0 => (Left(p) - 1) \div 2 \in Nat /\ Left(p) - 2 * ((Left(p) - 1) \div 2) \in {1, 2}
    BY <1>1, Halves
  <2>2. Left(p) = 0 => DownsLeft(p) = 0
    BY DEF DownsLeft
  <2>3. Left(p) > 0 => DownsLeft(p) = (Left(p) - 1) \div 2
    <3>1. Left(p) > 0 => Left(p) # 0
      BY <1>1
    <3>2. QED
      BY <3>1 DEF DownsLeft
  <2>4. Left(p) = 0 \/ Left(p) > 0
    BY <1>1
  <2>5. QED
    BY <2>1, <2>2, <2>3, <2>4
<1>3. \A k \in 1..Left(p) : script[p][k].op = "down" <=> Left(p) - k # 0 /\ (Left(p) - k) % 2 = 0
  <2>1. \A k \in 1..Left(p) : script[p][k] = CallBefore(p, Left(p) - k)
    BY DEF InPlay, Scripts
  <2>2. QED
    BY <2>1 DEF CallBefore, Close, Down, Up
<1>4. {k \in 1..Len(script[p]) : script[p][k].op = "down"}
        = {k \in 1..Left(p) : Left(p) - k # 0 /\ (Left(p) - k) % 2 = 0}
  BY <1>1, <1>3
<1>5. TurnsOf(p) = Rounds - DownsLeft(p)
  BY <1>1, <1>2, <1>4, EverySecond DEF TurnsOf
<1>6. TurnsOf(p) <= Taken(p)
  BY <1>1, <1>2, <1>5 DEF Taken
<1>7. Given(p) <= TurnsOf(p)
  <2>1. /\ InUp(p) => DownsLeft(p) = Left(p) \div 2 - 1
        /\ ~InUp(p) => DownsLeft(p) = Left(p) \div 2
        /\ Left(p) \div 2 \in Int
    <3>1. /\ Left(p) \div 2 \in Nat
          /\ Left(p) >= 2 /\ Left(p) % 2 = 0 => (Left(p) - 1) \div 2 = Left(p) \div 2 - 1
          /\ Left(p) = 0 => Left(p) \div 2 = 0
          /\ Left(p) # 0 /\ ~(Left(p) >= 2 /\ Left(p) % 2 = 0) => (Left(p) - 1) \div 2 = Left(p) \div 2
      BY <1>1, Halves
    <3>2. /\ Left(p) = 0 => DownsLeft(p) = 0
          /\ Left(p) # 0 => DownsLeft(p) = (Left(p) - 1) \div 2
      BY DEF DownsLeft
    <3>3. Left(p) >= 2 => Left(p) # 0
      BY <1>1
    <3>4. QED
      BY <3>1, <3>2, <3>3 DEF InUp
  <2>2. Given(p) <= Rounds - Left(p) \div 2 + (IF InUp(p) THEN 1 ELSE 0)
    BY <1>1, <2>1 DEF Given
  <2>3. Given(p) \in Int /\ DownsLeft(p) \in Int
    BY <1>2, TakesAndGives
  <2>4. PICK h \in Int : h = Left(p) \div 2
    BY <2>1
  <2>5. CASE InUp(p)
    <3>1. DownsLeft(p) = h - 1 /\ Given(p) <= Rounds - h + 1
      BY <2>1, <2>2, <2>4, <2>5
    <3>2. QED
      BY <1>1, <1>5, <2>3, <3>1
  <2>6. CASE ~InUp(p)
    <3>1. DownsLeft(p) = h /\ Given(p) <= Rounds - h + 0
      BY <2>1, <2>2, <2>4, <2>6
    <3>2. QED
      BY <1>1, <1>5, <2>3, <3>1
  <2>7. QED
    BY <2>5, <2>6
<1>8. QED
  BY <1>1, <1>2, <1>5, <1>6, <1>7

LEMMA PlayInit ==
  ASSUME \A g \in Programs : g = TheProgram \/ Apart(g), Init
  PROVE  InPlay \/ Strange
<1>1. PICK g \in Programs :
        /\ script = g.calls
        /\ sem_id = [i \in Slots |-> IF i <= Len(g.opened) THEN g.opened[i][1] ELSE 0]
        /\ value = [i \in Slots |-> IF i <= Len(g.opened) THEN g.opened[i][2]
                                    ELSE IF g.opened = << >> THEN 0 ELSE Closed]
        /\ lock = [i \in Slots |-> 0] /\ general_lock = 0
        /\ lock_set = (g.opened # << >>) /\ sem_are_set = (g.opened # << >>)
        /\ pc = [p \in Procs |-> "user"] /\ slot = [p \in Procs |-> 1] /\ reg = [p \in Procs |-> 0]
  BY DEF Init
<1>2. CASE Apart(g)
  <2>1. \A i \in Slots : i <= Len(g.opened) => g.opened[i] \in (Int \ {0, id1}) \X Nat
    BY <1>2 DEF Apart, Slots
  <2>2. 0 \in Int \ {id1} /\ "user" \in Steps
    BY DEF id1, Steps, Interruptible
  <2>3. QED
    BY <1>1, <1>2, <2>1, <2>2 DEF Strange, Apart
<1>3. CASE g = TheProgram
  <2>1. g.opened = <<<<id1, 1>>, <<id2, 0>>>> /\ g.opened # << >> /\ Len(g.opened) = 2
        /\ g.opened[1] = <<id1, 1>> /\ g.opened[2] = <<id2, 0>>
    BY <1>3 DEF TheProgram, OpenedBefore
  <2>2. NSEM \in Nat /\ NSEM >= 2 /\ Rounds \in Nat /\ NPROC \in Nat /\ NPROC >= 2
    BY <1>1, <1>3, <2>1, SemaphoreAssumption, PingPongAssumption
  <2>3. \A i \in Slots : (i <= 2 <=> i \in {1, 2}) /\ (i \in {1, 2} <=> i = 1 \/ i = 2)
    BY <2>2 DEF Slots
  <2>4. sem_id = [i \in Slots |-> IF i = Child THEN id1 ELSE IF i = Parent THEN id2 ELSE 0]
    BY <1>1, <2>1, <2>3 DEF Child, Parent
  <2>5. value = [i \in Slots |-> IF i = 1 THEN 1 ELSE IF i = 2 THEN 0 ELSE Closed]
    BY <1>1, <2>1, <2>3
  <2>6. \A p \in Procs : script[p] = CASE p = Child -> Turns(id1, id2) [] p = Parent -> Turns(id2, id1) [] OTHER -> << >>
    BY <1>1, <1>3 DEF TheProgram
  <2>7. ASSUME NEW a \in {id1, id2}, NEW b \in {id1, id2}
        PROVE  /\ Turns(a, b) \in Seq(SemCalls) /\ Len(Turns(a, b)) = 2 * Rounds + 1
               /\ \A k \in 1..(2 * Rounds + 1) :
                    Turns(a, b)[k] = IF 2 * Rounds + 1 - k = 0 THEN Close(a)
                                     ELSE IF (2 * Rounds + 1 - k) % 2 = 0 THEN Down(a) ELSE Up(b)
    <3> DEFINE t == [k \in 1..(2 * Rounds) |-> IF k % 2 = 1 THEN Down(a) ELSE Up(b)]
    <3>1. Down(a) \in SemCalls /\ Up(b) \in SemCalls /\ Close(a) \in SemCalls
      BY DEF Down, Up, Close, SemCalls, id1, id2
    <3>2. t \in Seq(SemCalls) /\ Len(t) = 2 * Rounds
      BY <2>2, <3>1
    <3>3. <<Close(a)>> \in Seq(SemCalls) /\ Len(<<Close(a)>>) = 1 /\ <<Close(a)>>[1] = Close(a)
      BY <3>1
    <3>4. Turns(a, b) = t \o <<Close(a)>>
      BY DEF Turns
    <3> HIDE DEF t
    <3>5. /\ Turns(a, b) \in Seq(SemCalls) /\ Len(Turns(a, b)) = 2 * Rounds + 1
          /\ \A k \in 1..(2 * Rounds) : Turns(a, b)[k] = t[k]
          /\ Turns(a, b)[2 * Rounds + 1] = Close(a)
      BY <2>2, <3>2, <3>3, <3>4
    <3>6. \A k \in 1..(2 * Rounds) : t[k] = IF k % 2 = 1 THEN Down(a) ELSE Up(b)
      BY DEF t
    <3>7. \A k \in 1..(2 * Rounds) : (k % 2 = 1 <=> (2 * Rounds + 1 - k) % 2 = 0) /\ 2 * Rounds + 1 - k # 0
      BY <2>2
    <3>8. \A k \in 1..(2 * Rounds + 1) : k \in 1..(2 * Rounds) \/ (k = 2 * Rounds + 1 /\ 2 * Rounds + 1 - k = 0)
      BY <2>2
    <3>9. QED
      BY <3>5, <3>6, <3>7, <3>8
  <2>8. /\ script[Child] = Turns(id1, id2) /\ script[Parent] = Turns(id2, id1)
        /\ \A p \in Procs \ Players : script[p] = << >>
    BY <2>2, <2>6 DEF Child, Parent, Procs, Players
  <2>9. script \in [Procs -> Seq(SemCalls)]
    <3>1. script = [p \in Procs |-> script[p]]
      BY <1>1, <1>3 DEF TheProgram
    <3>2. /\ Turns(id1, id2) \in Seq(SemCalls) /\ Turns(id2, id1) \in Seq(SemCalls) /\ << >> \in Seq(SemCalls)
          /\ \A p \in Procs : script[p] \in {Turns(id1, id2), Turns(id2, id1), << >>}
      BY <2>7, <2>8 DEF Players
    <3>3. QED
      BY <3>1, <3>2
  <2>10. \A p \in Players : Left(p) = 2 * Rounds + 1 /\ \A k \in 1..Left(p) : script[p][k] = CallBefore(p, Left(p) - k)
    <3>1. /\ IdOf(Child) = id1 /\ IdOf(Parent) = id2 /\ Other(Child) = Parent /\ Other(Parent) = Child
      BY DEF IdOf, Other, Child, Parent
    <3>2. /\ Len(script[Child]) = 2 * Rounds + 1
          /\ \A k \in 1..(2 * Rounds + 1) : script[Child][k] = CallBefore(Child, 2 * Rounds + 1 - k)
      BY <2>7, <2>8, <3>1 DEF CallBefore
    <3>3. /\ Len(script[Parent]) = 2 * Rounds + 1
          /\ \A k \in 1..(2 * Rounds + 1) : script[Parent][k] = CallBefore(Parent, 2 * Rounds + 1 - k)
      BY <2>7, <2>8, <3>1 DEF CallBefore
    <3>4. QED
      <4>1. ASSUME NEW p \in Players
            PROVE  Left(p) = 2 * Rounds + 1 /\ \A k \in 1..Left(p) : script[p][k] = CallBefore(p, Left(p) - k)
        <5>1. p = Child \/ p = Parent
          BY DEF Players
        <5>2. Left(p) = 2 * Rounds + 1
          BY <3>2, <3>3, <5>1 DEF Left
        <5>3. ASSUME NEW k \in 1..(2 * Rounds + 1) PROVE script[p][k] = CallBefore(p, 2 * Rounds + 1 - k)
          BY <3>2, <3>3, <5>1
        <5>4. ASSUME NEW k \in 1..Left(p) PROVE script[p][k] = CallBefore(p, Left(p) - k)
          <6>1. k \in 1..(2 * Rounds + 1) /\ Left(p) - k = 2 * Rounds + 1 - k
            BY <2>2, <5>2
          <6>2. QED
            BY <5>3, <6>1
        <5>5. QED
          BY <5>2, <5>4
      <4>2. QED
        BY <4>1
  <2>11. Scripts
    BY <2>10, <2>2 DEF Scripts
  <2>12. PlayTyped
    <3>1. TypeOK
      BY <1>1, <2>1, <2>2, <2>5, Sizes DEF TypeOK, Steps, Interruptible
    <3>2. QED
      BY <1>1, <2>1, <2>2, <2>4, <2>8, <2>9, <3>1 DEF PlayTyped
  <2>13. ASSUME NEW p \in Players PROVE Phase(p) /\ Accounts(p)
    <3>1. p \in Procs /\ Other(p) \in Players /\ p \in Slots /\ p \in {1, 2}
      BY <2>2 DEF Players, Other, Child, Parent, Procs, Slots
    <3>2. pc[p] = "user" /\ pc[Other(p)] = "user"
      BY <1>1, <2>2, <3>1 DEF Players, Child, Parent, Procs
    <3>3. (2 * Rounds + 1) \div 2 = Rounds /\ (2 * Rounds + 1 - 1) \div 2 = Rounds /\ 2 * Rounds + 1 # 0
      BY <2>2
    <3>4. Taken(p) = 0 /\ Given(Other(p)) = 0
      <4>1. /\ Left(p) = 2 * Rounds + 1 /\ Left(Other(p)) = 2 * Rounds + 1
            /\ DownsLeft(p) = Rounds
        <5>1. Left(p) = 2 * Rounds + 1 /\ Left(Other(p)) = 2 * Rounds + 1 /\ Left(p) # 0
          <6>1. Left(p) = 2 * Rounds + 1 /\ Left(Other(p)) = 2 * Rounds + 1
            BY <2>10, <3>1
          <6>2. 2 * Rounds + 1 # 0
            BY <2>2
          <6>3. QED
            BY <6>1, <6>2
        <5>2. DownsLeft(p) = (Left(p) - 1) \div 2
          BY <5>1 DEF DownsLeft
        <5>3. Left(p) - 1 = 2 * Rounds + 1 - 1
          BY <2>2, <5>1
        <5>4. DownsLeft(p) = Rounds
          BY <3>3, <5>2, <5>3
        <5>5. QED
          BY <5>1, <5>4
      <4>2. Taken(p) = Rounds - Rounds + 0 /\ Given(Other(p)) = Rounds - Rounds + 0
        BY <3>2, <3>3, <4>1 DEF Taken, Given
      <4>3. QED
        BY <2>2, <4>2
    <3>5. value[p] = Units(p)
      BY <2>5, <3>1 DEF Units, Child, Parent
    <3>6. ~Ended(p)
      BY <2>2, <2>10, <3>2 DEF Ended
    <3>7. Units(p) \in {0, 1}
      BY DEF Units
    <3>8. QED
      BY <3>2, <3>4, <3>5, <3>6, <3>7 DEF Phase, Accounts, AtSlot, InSlot, InGeneral, Closing
  <2>14. QED
    BY <2>11, <2>12, <2>13 DEF InPlay
<1>4. QED
  BY <1>1, <1>2, <1>3

\* ping and pong alternate, ping first, for every number of rounds, of
\* processes and of CPUs: a player that adds to a semaphore finds nothing
\* there, so that sem_up() and sem_down() never meet at a value.
THEOREM PingPongAlternates ==
  ASSUME \A g \in Programs : g = TheProgram \/ Apart(g)
  PROVE  Spec => []Alternates
<1> DEFINE PlayInv == InPlay \/ Strange
<1>1. Init => PlayInv
  BY PlayInit
<1>2. PlayInv /\ [Next]_vars => PlayInv'
  BY PlayStep, StrangeStep
<1>3. ASSUME PlayInv PROVE Alternates
  <2>1. CASE Strange
    BY <2>1, Sizes DEF Strange, Alternates, Playing
  <2>2. CASE InPlay
    <3>1. /\ Child \in Players /\ Parent \in Players /\ Other(Child) = Parent /\ Other(Parent) = Child
          /\ Units(Child) = 1 /\ Units(Parent) = 0
      BY DEF Players, Other, Units, Child, Parent
    <3>2. Taken(Child) <= 1 + Given(Parent) /\ Taken(Parent) <= 0 + Given(Child)
      BY <2>2, <3>1 DEF InPlay, Accounts
    <3>3. /\ TurnsOf(Child) \in Int /\ TurnsOf(Child) <= Taken(Child) /\ Given(Child) <= TurnsOf(Child)
          /\ TurnsOf(Parent) \in Int /\ TurnsOf(Parent) <= Taken(Parent) /\ Given(Parent) <= TurnsOf(Parent)
          /\ Taken(Child) \in Int /\ Taken(Parent) \in Int /\ Given(Child) \in Int /\ Given(Parent) \in Int
      BY <2>2, <3>1, TurnsAre, TakesAndGives
    <3>4. QED
      BY <3>2, <3>3 DEF Alternates
  <2>3. QED
    BY <1>3, <2>1, <2>2
<1>4. QED
  BY <1>1, <1>2, <1>3, PTL DEF Spec

-----------------------------------------------------------------------------
(* The pipes: what FilesProofs shows of Files *)

X == INSTANCE FilesProofs WITH
  NPROC <- PipeProcs, WORD <- PipeWord, Scripts <- PipePrograms, pc <- fpc, script <- todo

\* The operators of the two instances are the same, down to Cardinality.
LEMMA SamePipes == [UserNext]_uservars => [X!Next]_(X!vars)
<1>1. [UserNext]_uservars => [F!Next]_(F!vars)
  BY DEF UserNext, uservars, Others, filevars, F!vars, F!thread, SemaphoreStep, ShellStep,
     LineStep, PipeStep, ConsoleStep, HeapStep
<1>2. \A A : F!Cardinality(A) = X!Cardinality(A)
  BY DEF F!Cardinality, X!Cardinality
<1>3. ASSUME NEW p \in F!Procs, F!PipeStep(p) PROVE X!PipeStep(p)
  <2>1. F!AcquirePipe(p) => X!AcquirePipe(p)
    BY <1>2 DEF
       F!AcquirePipe, X!AcquirePipe, F!Locked, X!Locked, F!Goto, X!Goto, F!thread,
       X!thread
  <2>2. F!WriteGivesUp(p) => X!WriteGivesUp(p)
    BY <1>2 DEF
       F!WriteGivesUp, X!WriteGivesUp, F!GivesUp, X!GivesUp, F!Count, X!Count,
       F!Release, X!Release, F!Goto, X!Goto, F!thread, X!thread
  <2>3. F!WriteSleeps(p) => X!WriteSleeps(p)
    BY <1>2 DEF
       F!WriteSleeps, X!WriteSleeps, F!GivesUp, X!GivesUp, F!Full, X!Full, F!Inc, X!Inc,
       F!WakeupAndGoto, X!WakeupAndGoto, F!Procs, X!Procs, F!Woken, X!Woken, F!Release,
       X!Release, F!thread, X!thread
  <2>4. F!WriteByte(p) => X!WriteByte(p)
    BY <1>2 DEF
       F!WriteByte, X!WriteByte, F!GivesUp, X!GivesUp, F!Full, X!Full, F!Inc, X!Inc
  <2>5. F!WriteReturns(p) => X!WriteReturns(p)
    BY <1>2 DEF
       F!WriteReturns, X!WriteReturns, F!GivesUp, X!GivesUp, F!Full, X!Full, F!Inc,
       X!Inc, F!WakeupAndGoto, X!WakeupAndGoto, F!Procs, X!Procs, F!Woken, X!Woken,
       F!Release, X!Release, F!thread, X!thread
  <2>6. F!ReadWaits(p) => X!ReadWaits(p)
    BY <1>2 DEF
       F!ReadWaits, X!ReadWaits, F!MustWait, X!MustWait, F!Count, X!Count, F!Goto,
       X!Goto, F!Release, X!Release, F!thread, X!thread
  <2>7. F!ReadReturns(p) => X!ReadReturns(p)
    BY <1>2 DEF
       F!ReadReturns, X!ReadReturns, F!Count, X!Count, F!Content, X!Content, F!Inc,
       X!Inc, F!MustWait, X!MustWait, F!WakeupAndGoto, X!WakeupAndGoto, F!Procs,
       X!Procs, F!Woken, X!Woken
  <2>8. F!CloseRead(p) => X!CloseRead(p)
    BY <1>2 DEF
       F!CloseRead, X!CloseRead, F!WakeupAndGoto, X!WakeupAndGoto, F!Procs, X!Procs,
       F!Woken, X!Woken, F!thread, X!thread
  <2>9. F!CloseWrite(p) => X!CloseWrite(p)
    BY <1>2 DEF
       F!CloseWrite, X!CloseWrite, F!WakeupAndGoto, X!WakeupAndGoto, F!Procs, X!Procs,
       F!Woken, X!Woken, F!thread, X!thread
  <2>10. F!FreePipe(p) => X!FreePipe(p)
    BY <1>2 DEF
       F!FreePipe, X!FreePipe, F!Pipe, X!Pipe, F!Goto, X!Goto, F!thread, X!thread
  <2>11. QED
    BY <1>3, <2>1, <2>2, <2>3, <2>4, <2>5, <2>6, <2>7, <2>8, <2>9, <2>10 DEF F!PipeStep,
       X!PipeStep
<1>4. ASSUME NEW p \in F!Procs, F!FileStep(p) PROVE X!FileStep(p)
  <2>1. F!CloseHeld(p) => X!CloseHeld(p)
    BY <1>2 DEF
       F!CloseHeld, X!CloseHeld, F!FileClose, X!FileClose, F!TypeAfter, X!TypeAfter,
       F!ClosesEnd, X!ClosesEnd, F!Goto, X!Goto, F!Inside, X!Inside
  <2>2. F!CloseOpen(p) => X!CloseOpen(p)
    BY <1>2 DEF
       F!CloseOpen, X!CloseOpen, F!OpenFds, X!OpenFds, F!Descriptors, X!Descriptors,
       F!FreeFds, X!FreeFds, F!NoFile, X!NoFile, F!FileClose, X!FileClose, F!TypeAfter,
       X!TypeAfter, F!ClosesEnd, X!ClosesEnd, F!Goto, X!Goto, F!Inside, X!Inside,
       F!First, X!First
  <2>3. F!Return(p) => X!Return(p)
    BY <1>2 DEF
       F!Return, X!Return, F!OpenFds, X!OpenFds, F!Descriptors, X!Descriptors,
       F!FreeFds, X!FreeFds, F!NoFile, X!NoFile, F!Goto, X!Goto, F!Inside, X!Inside
  <2>4. F!SysPipe(p) => X!SysPipe(p)
    BY <1>2 DEF
       F!SysPipe, X!SysPipe, F!Calls, X!Calls, F!Goto, X!Goto
  <2>5. F!AllocFile(p) => X!AllocFile(p)
    BY <1>2 DEF
       F!AllocFile, X!AllocFile, F!FreeFiles, X!FreeFiles, F!FileSlots, X!FileSlots,
       F!First, X!First, F!Goto, X!Goto, F!Inside, X!Inside
  <2>6. F!AllocFails(p) => X!AllocFails(p)
    BY <1>2 DEF
       F!AllocFails, X!AllocFails, F!FreeFiles, X!FreeFiles, F!FileSlots, X!FileSlots,
       F!FreePages, X!FreePages, F!Pipes, X!Pipes, F!Goto, X!Goto, F!Inside, X!Inside
  <2>7. F!MakePipe(p) => X!MakePipe(p)
    BY <1>2 DEF
       F!MakePipe, X!MakePipe, F!First, X!First, F!FreePages, X!FreePages, F!Pipes,
       X!Pipes, F!FreeFds, X!FreeFds, F!Descriptors, X!Descriptors, F!NoFile, X!NoFile,
       F!Pipe, X!Pipe, F!Goto, X!Goto, F!Inside, X!Inside
  <2>8. F!SysDup(p) => X!SysDup(p)
    BY <1>2 DEF
       F!SysDup, X!SysDup, F!Calls, X!Calls, F!Fitting, X!Fitting, F!OpenFds, X!OpenFds,
       F!Descriptors, X!Descriptors, F!FreeFds, X!FreeFds, F!NoFile, X!NoFile, F!Procs,
       X!Procs, F!First, X!First
  <2>9. F!SysClose(p) => X!SysClose(p)
    BY <1>2 DEF
       F!SysClose, X!SysClose, F!Calls, X!Calls, F!Fitting, X!Fitting, F!OpenFds,
       X!OpenFds, F!Descriptors, X!Descriptors, F!FreeFds, X!FreeFds, F!NoFile,
       X!NoFile, F!Procs, X!Procs, F!Goto, X!Goto
  <2>10. F!Refused(p) => X!Refused(p)
    BY <1>2 DEF
       F!Refused, X!Refused, F!Calls, X!Calls, F!Fitting, X!Fitting, F!OpenFds,
       X!OpenFds, F!Descriptors, X!Descriptors, F!FreeFds, X!FreeFds, F!NoFile,
       X!NoFile, F!Procs, X!Procs
  <2>11. F!Fork(p) => X!Fork(p)
    BY <1>2 DEF
       F!Fork, X!Fork, F!Calls, X!Calls, F!Fitting, X!Fitting, F!OpenFds, X!OpenFds,
       F!Descriptors, X!Descriptors, F!FreeFds, X!FreeFds, F!NoFile, X!NoFile, F!Procs,
       X!Procs, F!Goto, X!Goto, F!FileSlots, X!FileSlots, F!ForkRef, X!ForkRef
  <2>12. F!Exit(p) => X!Exit(p)
    BY <1>2 DEF
       F!Exit, X!Exit, F!Goto, X!Goto, F!thread, X!thread
  <2>13. F!Kill(p) => X!Kill(p)
    BY <1>2 DEF
       F!Kill, X!Kill, F!Sleeping, X!Sleeping, F!Woken, X!Woken
  <2>14. \A name : F!SysReadWrite(p, name) => X!SysReadWrite(p, name)
    BY <1>2 DEF
       F!SysReadWrite, X!SysReadWrite, F!Calls, X!Calls, F!Fitting, X!Fitting,
       F!OpenFds, X!OpenFds, F!Descriptors, X!Descriptors, F!FreeFds, X!FreeFds,
       F!NoFile, X!NoFile, F!Procs, X!Procs, F!Goto, X!Goto
  <2>15. QED
    BY <1>4, <2>1, <2>2, <2>3, <2>4, <2>5, <2>6, <2>7, <2>8, <2>9, <2>10, <2>11, <2>12,
       <2>13, <2>14 DEF F!FileStep, X!FileStep
<1>5. F!Procs = X!Procs /\ F!vars = X!vars
  BY DEF F!Procs, X!Procs, F!vars, X!vars, F!thread, X!thread
<1>6. [F!Next]_(F!vars) => [X!Next]_(X!vars)
  BY <1>3, <1>4, <1>5 DEF F!Next, X!Next, F!vars, X!vars, F!thread, X!thread
<1>7. QED
  BY <1>1, <1>6

LEMMA PipesInit == UserInit => X!Init
BY DEF UserInit,
  F!Init, X!Init, F!InitPipe, X!InitPipe, F!Pipes, X!Pipes, F!Pipe, X!Pipe, F!Procs,
  X!Procs, F!FileSlots, X!FileSlots, F!Descriptors, X!Descriptors, F!NoFile, X!NoFile

LEMMA PipesDimensions == X!Dimensions
BY UserAssumption DEF X!Dimensions, F!PipeAssumption, X!PipeAssumption, F!FilesAssumption,
   X!FilesAssumption

\* The bytes come out of a pipe as they went in, for every size of the ring and
\* width of its counters (pipewrite(), piperead() and pipeclose()).
THEOREM PipesAreStreams == UserSpec => ImplementsStream
<1>1. UserSpec => X!Init /\ [][X!Next]_(X!vars)
  BY PipesInit, SamePipes, PTL DEF UserSpec
<1>2. X!Init /\ [][X!Next]_(X!vars) => X!ImplementsStream
  BY PipesDimensions, X!StreamOfBytes DEF X!Spec
<1>3. X!Stream!InitStream => F!Stream!InitStream
  BY DEF
     F!Stream!InitStream, X!Stream!InitStream, F!Stream!NextStream, X!Stream!NextStream,
     F!Stream!Put, X!Stream!Put, F!Stream!Take, X!Stream!Take, F!Stream!TakeUpToFault,
     X!Stream!TakeUpToFault, F!Stream!Return, X!Stream!Return, F!Stream!Open,
     X!Stream!Open, F!Stream!CloseWriters, X!Stream!CloseWriters, F!Stream!Free,
     X!Stream!Free, F!Content, X!Content, F!Count, X!Count, F!Inc, X!Inc, F!Pipes,
     X!Pipes, F!Procs, X!Procs, F!Bytes, X!Bytes
<1>4. X!Stream!NextStream => F!Stream!NextStream
  BY DEF
     F!Stream!InitStream, X!Stream!InitStream, F!Stream!NextStream, X!Stream!NextStream,
     F!Stream!Put, X!Stream!Put, F!Stream!Take, X!Stream!Take, F!Stream!TakeUpToFault,
     X!Stream!TakeUpToFault, F!Stream!Return, X!Stream!Return, F!Stream!Open,
     X!Stream!Open, F!Stream!CloseWriters, X!Stream!CloseWriters, F!Stream!Free,
     X!Stream!Free, F!Content, X!Content, F!Count, X!Count, F!Inc, X!Inc, F!Pipes,
     X!Pipes, F!Procs, X!Procs, F!Bytes, X!Bytes
<1> DEFINE xvars == <<[pi \in X!Pipes |-> X!Content(pi)], [pi \in X!Pipes |-> pipes[pi].writeopen], result>>
           fvars == <<[pi \in F!Pipes |-> F!Content(pi)], [pi \in F!Pipes |-> pipes[pi].writeopen], result>>
<1>5. [X!Stream!NextStream]_xvars => [F!Stream!NextStream]_fvars
  BY <1>4 DEF F!Content, X!Content, F!Count, X!Count, F!Inc, X!Inc, F!Pipes, X!Pipes
<1>6. X!ImplementsStream => ImplementsStream
  BY <1>3, <1>5, PTL
     DEF ImplementsStream, F!ImplementsStream, X!ImplementsStream, F!Stream!StreamSpec,
         X!Stream!StreamSpec
<1>7. QED
  BY <1>1, <1>2, <1>6, PTL

-----------------------------------------------------------------------------
(* The console: who sleeps, and the two rings *)

\* The arithmetic of FilesProofs, for the indices of the console.
K == INSTANCE FilesProofs WITH
  NPROC <- PipeProcs, Scripts <- PipePrograms, pc <- fpc, script <- todo,
  PIPESIZE <- INPUT_BUF_SIZE, WORD <- ConsoleWord

ConsoleSteps == {"user", "read", "sleep_r", "put", "sleep_tx", "return"}
ConsoleTyped ==
  /\ cpc \in [ConsoleProcs -> ConsoleSteps] /\ moving \in [ConsoleProcs -> Nat]
  /\ typing \in [ConsoleProcs -> Seq(C!Calls)] /\ got \in [ConsoleProcs -> Seq(C!Chars)]
  /\ buf \in [0..(INPUT_BUF_SIZE - 1) -> C!Chars] /\ key \in C!Keys \cup {C!NoKey}
  /\ r \in 0..(ConsoleWord - 1) /\ w \in 0..(ConsoleWord - 1) /\ e \in 0..(ConsoleWord - 1)
  /\ tx \in 0..UART_TX_BUF_SIZE

\* Whoever reads or writes has something left to move.
Busy == \A p \in ConsoleProcs : cpc[p] \notin {"user", "return"} => moving[p] > 0

\* Complete lines are part of what has been typed, which fits into the ring.
Indices == (w - r) % ConsoleWord <= (e - r) % ConsoleWord /\ (e - r) % ConsoleWord <= INPUT_BUF_SIZE

ConsoleInv == ConsoleTyped /\ Busy /\ Indices /\ C!NoLostWakeup

LEMMA ConsoleSizes ==
  /\ INPUT_BUF_SIZE \in Nat \ {0} /\ UART_TX_BUF_SIZE \in Nat \ {0}
  /\ ConsoleWord \in Nat /\ ConsoleWord > 1 /\ INPUT_BUF_SIZE < ConsoleWord
  /\ K!Dimensions
<1>1. F!PipeAssumption /\ F!FilesAssumption /\ C!ConsoleAssumption
  BY UserAssumption
<1>2. K!PipeAssumption
  BY <1>1 DEF F!PipeAssumption, C!ConsoleAssumption, K!PipeAssumption
<1>3. K!FilesAssumption
  BY <1>1 DEF F!FilesAssumption, K!FilesAssumption
<1>4. QED
  BY <1>1, <1>2, <1>3 DEF K!Dimensions, C!ConsoleAssumption

LEMMA SamePlus == \A n, k : C!Plus(n, k) = K!Inc(n, k)
BY DEF C!Plus, K!Inc

\* A stretch of the ring.
LEMMA Stretch ==
  ASSUME buf \in [0..(INPUT_BUF_SIZE - 1) -> C!Chars],
         NEW i \in 0..(ConsoleWord - 1), NEW j \in 0..(ConsoleWord - 1),
         NEW m, m = (j - i) % ConsoleWord
  PROVE  /\ m \in 0..(ConsoleWord - 1) /\ m \in Nat /\ j = C!Plus(i, m)
         /\ C!From(i, j) \in Seq(C!Chars) /\ Len(C!From(i, j)) = m
         /\ DOMAIN C!From(i, j) = 1..m
         /\ \A k \in 1..m : C!Plus(i, k - 1) % INPUT_BUF_SIZE \in 0..(INPUT_BUF_SIZE - 1)
         /\ \A k \in 1..m : C!From(i, j)[k] = buf[C!Plus(i, k - 1) % INPUT_BUF_SIZE]
<1>0. K!Dimensions
  BY ConsoleSizes
<1>1. m \in 0..(ConsoleWord - 1) /\ j = K!Inc(i, m)
  BY <1>0, K!Ring
<1>2. m \in Nat
  BY <1>1, ConsoleSizes
<1>3. \A k \in 1..m : C!Plus(i, k - 1) % INPUT_BUF_SIZE \in 0..(INPUT_BUF_SIZE - 1)
  <2>1. SUFFICES ASSUME NEW k \in 1..m
                 PROVE  K!Inc(i, k - 1) % INPUT_BUF_SIZE \in 0..(INPUT_BUF_SIZE - 1)
    BY SamePlus
  <2>2. k - 1 \in Nat /\ i \in Nat
    BY <1>2, ConsoleSizes
  <2>3. K!Inc(i, k - 1) \in 0..(ConsoleWord - 1)
    BY <2>2, ConsoleSizes, K!Unsigned
  <2>4. K!Inc(i, k - 1) \in Nat
    BY <2>3
  <2>5. QED
    BY <2>4, ConsoleSizes, K!Unsigned
<1>4. C!From(i, j) = [k \in 1..m |-> buf[C!Plus(i, k - 1) % INPUT_BUF_SIZE]]
  BY DEF C!From
<1>5. C!From(i, j) \in [1..m -> C!Chars]
  BY <1>3, <1>4
<1>6. C!From(i, j) \in Seq(C!Chars) /\ Len(C!From(i, j)) = m /\ DOMAIN C!From(i, j) = 1..m
  BY <1>2, <1>5
<1>7. QED
  BY <1>1, <1>2, <1>3, <1>4, <1>6, SamePlus

\* How many characters a reader copies, and what they are.
LEMMA CopiedIs ==
  ASSUME ConsoleInv, NEW p \in ConsoleProcs, NEW k, k = C!Copied(p)
  PROVE  /\ k \in 0..Len(C!From(r, w)) /\ k <= moving[p]
         /\ k \in {Len(C!From(r, w)), moving[p]} \cup
                    {i \in 1..Len(C!From(r, w)) : C!From(r, w)[i] = "nl"} \cup
                    {i \in 0..(Len(C!From(r, w)) - 1) : C!From(r, w)[i + 1] = "eof"}
         /\ \A i \in 1..k : /\ C!From(r, w)[i] # "eof"
                            /\ C!From(r, w)[i] = "nl" => i = k
<1>1. PICK ready \in Seq(C!Chars), n \in Nat : ready = C!From(r, w) /\ n = Len(ready)
  BY Stretch DEF ConsoleInv, ConsoleTyped
<1>2. PICK m \in Nat : m = moving[p]
  BY DEF ConsoleInv, ConsoleTyped
<1> DEFINE nls == {i \in 1..n : ready[i] = "nl"}
           eofs == {i \in 0..(n - 1) : ready[i + 1] = "eof"}
           all == (nls \cup eofs) \cup {n, m}
<1>3. k = CHOOSE x \in all : \A y \in all : x <= y
  BY <1>1, <1>2 DEF C!Copied
<1>4. all \in SUBSET Nat /\ all # {}
  OBVIOUS
<1>5. \E x \in all : \A y \in all : x <= y
  <2> HIDE DEF all
  <2>1. QED
    BY <1>4, LeastOf
<1>6. k \in all /\ \A y \in all : k <= y
  BY <1>3, <1>5
<1>7. k \in Nat /\ k <= n /\ k <= m
  BY <1>6
<1>8. ASSUME NEW i \in 1..k PROVE ready[i] # "eof" /\ (ready[i] = "nl" => i = k)
  <2>1. i \in 1..n /\ i \in Nat /\ i - 1 \in 0..(n - 1) /\ (i - 1) + 1 = i /\ ~(k <= i - 1)
    BY <1>7
  <2>2. ready[i] = "eof" => i - 1 \in all
    BY <2>1
  <2>3. ready[i] = "nl" => i \in all
    BY <2>1
  <2>4. ready[i] = "nl" => k <= i
    BY <1>6, <2>3
  <2>5. QED
    BY <1>6, <1>7, <2>1, <2>2, <2>4
<1>9. QED
  BY <1>1, <1>2, <1>6, <1>7, <1>8

\* Sequences by their elements.
LEMMA Elements ==
  ASSUME NEW T, NEW s \in Seq(T), NEW n \in Nat, n = Len(s), NEW d \in 0..n
  PROVE  /\ SubSeq(s, d + 1, n) = [k \in 1..(n - d) |-> s[k + d]]
         /\ SubSeq(s, 1, d) = [k \in 1..d |-> s[k]]
<1>1. ASSUME NEW u \in Seq(T), NEW m \in Nat, Len(u) = m, NEW t, \A k \in 1..m : u[k] = t[k]
      PROVE  u = [k \in 1..m |-> t[k]]
  <2>1. u = [k \in 1..Len(u) |-> u[k]]
    OBVIOUS
  <2>2. QED
    BY <1>1, <2>1
<1>2. SubSeq(s, 1, d) = [k \in 1..d |-> s[k]]
  <2>1. /\ SubSeq(s, 1, d) \in Seq(T) /\ Len(SubSeq(s, 1, d)) = d
        /\ \A k \in 1..d : SubSeq(s, 1, d)[k] = s[k]
    OBVIOUS
  <2>2. d \in Nat
    OBVIOUS
  <2>3. QED
    BY <1>1, <2>1, <2>2
<1>3. SubSeq(s, d + 1, n) = [k \in 1..(n - d) |-> s[k + d]]
  <2>0. d \in Nat /\ d <= n
    OBVIOUS
  <2>1. PICK m \in Nat : m = n - d
    <3>1. n - d \in Nat
      BY <2>0
    <3>2. QED
      BY <3>1
  <2>2. /\ SubSeq(s, d + 1, n) \in Seq(T) /\ Len(SubSeq(s, d + 1, n)) = m
        /\ \A k \in 1..m : SubSeq(s, d + 1, n)[k] = s[k + d]
    BY <2>0, <2>1
  <2>3. PICK u \in Seq(T) : u = SubSeq(s, d + 1, n)
    BY <2>2
  <2>4. u = [k \in 1..Len(u) |-> u[k]]
    OBVIOUS
  <2>5. [k \in 1..m |-> u[k]] = [k \in 1..m |-> s[k + d]]
    BY <2>2, <2>3
  <2>6. QED
    BY <2>1, <2>2, <2>3, <2>4, <2>5
<1>4. QED
  BY <1>2, <1>3

LEMMA Appended ==
  ASSUME NEW T, NEW s \in Seq(T), NEW n \in Nat, n = Len(s), NEW x \in T
  PROVE  /\ Append(s, x) \in Seq(T) /\ Len(Append(s, x)) = n + 1
         /\ Append(s, x) = [k \in 1..(n + 1) |-> IF k = n + 1 THEN x ELSE s[k]]
<1>1. /\ Append(s, x) \in Seq(T) /\ Len(Append(s, x)) = n + 1
      /\ \A k \in 1..n : Append(s, x)[k] = s[k]
      /\ Append(s, x)[n + 1] = x
  OBVIOUS
<1>2. PICK y \in Seq(T) : y = Append(s, x)
  BY <1>1
<1>3. y = [k \in 1..Len(y) |-> y[k]]
  OBVIOUS
<1>4. ASSUME NEW k \in 1..(n + 1) PROVE y[k] = IF k = n + 1 THEN x ELSE s[k]
  <2>1. CASE k = n + 1
    BY <1>1, <1>2, <2>1
  <2>2. CASE k # n + 1
    <3>1. k \in 1..n
      BY <2>2
    <3>2. QED
      BY <1>1, <1>2, <2>2, <3>1
  <2>3. QED
    BY <2>1, <2>2
<1>5. QED
  BY <1>1, <1>2, <1>3, <1>4

LEMMA Joined ==
  ASSUME NEW T, NEW s \in Seq(T), NEW n \in Nat, n = Len(s),
         NEW u \in Seq(T), NEW m \in Nat, m = Len(u)
  PROVE  \A k \in 1..(n + m) : (s \o u)[k] = IF k <= n THEN s[k] ELSE u[k - n]
OBVIOUS

\* The place of a character behind the index i.
Place(i, k) == K!Inc(i, k - 1) % INPUT_BUF_SIZE

\* The ring as it is: a characters to read and c in all.
View(a, c) ==
  /\ a <= c /\ c <= INPUT_BUF_SIZE /\ c < ConsoleWord
  /\ w = K!Inc(r, a) /\ e = K!Inc(r, c)
  /\ a = (w - r) % ConsoleWord /\ c = (e - r) % ConsoleWord /\ c - a = (e - w) % ConsoleWord
  /\ C!From(r, w) \in Seq(C!Chars) /\ Len(C!From(r, w)) = a
  /\ C!From(w, e) \in Seq(C!Chars) /\ Len(C!From(w, e)) = c - a
  /\ \A k \in 1..a : C!From(r, w)[k] = buf[Place(r, k)]
  /\ \A k \in 1..(c - a) : C!From(w, e)[k] = buf[Place(r, a + k)]
  /\ \A k \in 1..c : Place(r, k) \in 0..(INPUT_BUF_SIZE - 1)

LEMMA PlaceIs ==
  ASSUME NEW i \in 0..(ConsoleWord - 1), NEW k \in Nat, k > 0
  PROVE  Place(i, k) \in 0..(INPUT_BUF_SIZE - 1)
<1>1. i \in Nat /\ k - 1 \in Nat
  BY ConsoleSizes
<1>2. K!Inc(i, k - 1) \in 0..(ConsoleWord - 1)
  BY <1>1, ConsoleSizes, K!Unsigned
<1>3. K!Inc(i, k - 1) \in Nat
  BY <1>2, ConsoleSizes
<1>4. QED
  BY <1>3, ConsoleSizes, K!Unsigned DEF Place

\* Different characters have different places.
LEMMA Places ==
  ASSUME NEW i \in 0..(ConsoleWord - 1), NEW c \in Nat, c <= INPUT_BUF_SIZE,
         NEW k \in 1..c, NEW l \in 1..c, k < l
  PROVE  Place(i, k) # Place(i, l)
<1>1. k - 1 \in 0..(ConsoleWord - 1) /\ l - 1 \in 0..(ConsoleWord - 1)
  BY ConsoleSizes
<1>2. /\ Place(i, k) = (i + (k - 1)) % INPUT_BUF_SIZE
      /\ Place(i, l) = (i + (l - 1)) % INPUT_BUF_SIZE
  BY <1>1, ConsoleSizes, K!Slots DEF Place
<1>3. /\ i + (k - 1) \in Nat /\ i + (l - 1) \in Nat /\ i + (k - 1) < i + (l - 1)
      /\ (i + (l - 1)) - (i + (k - 1)) < INPUT_BUF_SIZE
  BY ConsoleSizes
<1>4. QED
  BY <1>2, <1>3, ConsoleSizes, K!Apart

LEMMA Further ==
  ASSUME NEW i \in 0..(ConsoleWord - 1), NEW d \in Nat, NEW k \in Nat, k > 0, d + k <= ConsoleWord
  PROVE  Place(K!Inc(i, d), k) = Place(i, d + k)
<1>1. /\ d \in 0..(ConsoleWord - 1) /\ k - 1 \in 0..(ConsoleWord - 1)
      /\ d + (k - 1) < ConsoleWord /\ d + (k - 1) = (d + k) - 1
  BY ConsoleSizes
<1>2. K!Inc(K!Inc(i, d), k - 1) = K!Inc(i, (d + k) - 1)
  BY <1>1, ConsoleSizes, K!TwiceOn
<1>3. QED
  BY <1>2 DEF Place

LEMMA Onward ==
  ASSUME NEW i \in 0..(ConsoleWord - 1), NEW j \in 0..(ConsoleWord - 1),
         NEW m, m = (j - i) % ConsoleWord
  PROVE  /\ m \in 0..(ConsoleWord - 1)
         /\ \A d \in 0..m : (j - K!Inc(i, d)) % ConsoleWord = m - d
         /\ m + 1 < ConsoleWord => (K!Inc(j, 1) - i) % ConsoleWord = m + 1
<1>1. K!Dimensions
  BY ConsoleSizes
<1>2. m \in 0..(ConsoleWord - 1)
  BY <1>1, K!Ring
<1>3. \A d \in 0..m : (j - K!Inc(i, d)) % ConsoleWord = m - d
  BY <1>1, K!Ring
<1>4. m + 1 < ConsoleWord => (K!Inc(j, 1) - i) % ConsoleWord = m + 1
  BY <1>1, K!Ring
<1>5. QED
  BY <1>2, <1>3, <1>4

LEMMA Section ==
  ASSUME buf \in [0..(INPUT_BUF_SIZE - 1) -> C!Chars],
         NEW i \in 0..(ConsoleWord - 1), NEW j \in 0..(ConsoleWord - 1)
  PROVE  \E m \in Nat :
           /\ m = (j - i) % ConsoleWord /\ j = K!Inc(i, m) /\ m < ConsoleWord
           /\ C!From(i, j) \in Seq(C!Chars) /\ Len(C!From(i, j)) = m
           /\ \A k \in 1..m : C!From(i, j)[k] = buf[Place(i, k)]
<1>1. PICK m : m = (j - i) % ConsoleWord
  OBVIOUS
<1>2. /\ m \in 0..(ConsoleWord - 1) /\ m \in Nat /\ j = C!Plus(i, m)
      /\ C!From(i, j) \in Seq(C!Chars) /\ Len(C!From(i, j)) = m
      /\ \A k \in 1..m : C!From(i, j)[k] = buf[C!Plus(i, k - 1) % INPUT_BUF_SIZE]
  BY <1>1, Stretch
<1>3. m < ConsoleWord
  BY <1>2, ConsoleSizes
<1>4. \A k \in 1..m : C!From(i, j)[k] = buf[Place(i, k)]
  BY <1>2, SamePlus DEF Place
<1>5. j = K!Inc(i, m)
  BY <1>2, SamePlus
<1>6. QED
  BY <1>1, <1>2, <1>3, <1>4, <1>5

LEMMA Viewed ==
  ASSUME ConsoleInv
  PROVE  \E a, c \in Nat : View(a, c)
<1>0. /\ K!Dimensions /\ buf \in [0..(INPUT_BUF_SIZE - 1) -> C!Chars]
      /\ r \in 0..(ConsoleWord - 1) /\ w \in 0..(ConsoleWord - 1) /\ e \in 0..(ConsoleWord - 1)
  BY ConsoleSizes DEF ConsoleInv, ConsoleTyped
<1>1. PICK a \in Nat :
        /\ a = (w - r) % ConsoleWord /\ w = K!Inc(r, a) /\ a < ConsoleWord
        /\ C!From(r, w) \in Seq(C!Chars) /\ Len(C!From(r, w)) = a
        /\ \A k \in 1..a : C!From(r, w)[k] = buf[Place(r, k)]
  BY <1>0, Section
<1>2. PICK c \in Nat : c = (e - r) % ConsoleWord /\ e = K!Inc(r, c) /\ c < ConsoleWord
  BY <1>0, Section
<1>3. a <= c /\ c <= INPUT_BUF_SIZE
  BY <1>1, <1>2 DEF ConsoleInv, Indices
<1>4. c - a = (e - w) % ConsoleWord
  <2>1. c \in Nat /\ a \in 0..c
    BY <1>3
  <2>2. \A d \in 0..c : (e - K!Inc(r, d)) % ConsoleWord = c - d
    BY <1>0, <1>2, K!Ring
  <2>3. QED
    BY <1>1, <2>1, <2>2
<1>5. PICK m \in Nat :
        /\ m = (e - w) % ConsoleWord
        /\ C!From(w, e) \in Seq(C!Chars) /\ Len(C!From(w, e)) = m
        /\ \A k \in 1..m : C!From(w, e)[k] = buf[Place(w, k)]
  BY <1>0, Section
<1>6. m = c - a
  BY <1>4, <1>5
<1>7. \A k \in 1..(c - a) : Place(w, k) = Place(r, a + k)
  <2>1. SUFFICES ASSUME NEW k \in 1..(c - a) PROVE Place(w, k) = Place(r, a + k)
    OBVIOUS
  <2>2. k \in Nat /\ k > 0 /\ a + k <= ConsoleWord
    BY <1>2, <1>3, ConsoleSizes
  <2>3. QED
    BY <1>0, <1>1, <2>2, Further
<1>8. \A k \in 1..c : Place(r, k) \in 0..(INPUT_BUF_SIZE - 1)
  BY <1>0, PlaceIs
<1>9. View(a, c)
  BY <1>1, <1>2, <1>3, <1>5, <1>6, <1>7, <1>8 DEF View
<1>10. QED
  BY <1>9

LEMMA RingRead ==
  ASSUME ConsoleInv, NEW a \in Nat, NEW c \in Nat, View(a, c), NEW d \in 0..a,
         r' = C!Plus(r, d), UNCHANGED <<buf, w, e>>
  PROVE  /\ r' \in 0..(ConsoleWord - 1) /\ Indices'
         /\ C!From(r, w)' = SubSeq(C!From(r, w), d + 1, Len(C!From(r, w)))
         /\ C!From(w, e)' = C!From(w, e)
<1>0. /\ K!Dimensions /\ r \in 0..(ConsoleWord - 1) /\ w \in 0..(ConsoleWord - 1)
      /\ e \in 0..(ConsoleWord - 1) /\ ConsoleWord \in Nat /\ d \in Nat /\ r \in Nat
  BY ConsoleSizes DEF ConsoleInv, ConsoleTyped
<1>a. a <= c /\ c <= INPUT_BUF_SIZE /\ c < ConsoleWord
  BY DEF View
<1>b. a = (w - r) % ConsoleWord /\ c = (e - r) % ConsoleWord
  BY DEF View
<1>c. \A k \in 1..a : C!From(r, w)[k] = buf[Place(r, k)]
  BY DEF View
<1>1. r' = K!Inc(r, d) /\ r' \in 0..(ConsoleWord - 1)
  <2>1. K!Inc(r, d) \in 0..(ConsoleWord - 1)
    BY <1>0, K!Unsigned
  <2>2. QED
    BY <2>1, SamePlus
<1>2. (w - r') % ConsoleWord = a - d
  <2>1. \A x \in 0..a : (w - K!Inc(r, x)) % ConsoleWord = a - x
    <3>1. r \in 0..(ConsoleWord - 1) /\ w \in 0..(ConsoleWord - 1) /\ a = (w - r) % ConsoleWord
      BY <1>0, <1>b
    <3>2. QED
      BY <3>1, Onward
  <2>2. QED
    BY <1>1, <2>1
<1>3. (e - r') % ConsoleWord = c - d
  <2>1. \A x \in 0..c : (e - K!Inc(r, x)) % ConsoleWord = c - x
    <3>1. r \in 0..(ConsoleWord - 1) /\ e \in 0..(ConsoleWord - 1) /\ c = (e - r) % ConsoleWord
      BY <1>0, <1>b
    <3>2. QED
      BY <3>1, Onward
  <2>2. d \in 0..c
    BY <1>0, <1>a
  <2>3. QED
    BY <1>1, <2>1, <2>2
<1>4. Indices'
  <2>1. a <= c /\ c <= INPUT_BUF_SIZE
    BY <1>a
  <2>2. a - d <= c - d /\ c - d <= INPUT_BUF_SIZE
    BY <1>0, <2>1, ConsoleSizes
  <2>3. QED
    BY <1>2, <1>3, <2>2 DEF Indices
<1>5. C!From(w, e)' = C!From(w, e)
  BY DEF C!From
<1>6. C!From(r, w)' = [k \in 1..(a - d) |-> buf[Place(r', k)]]
  BY <1>2, SamePlus DEF C!From, Place
<1>7. SubSeq(C!From(r, w), d + 1, a) = [k \in 1..(a - d) |-> C!From(r, w)[k + d]]
  <2>1. PICK s \in Seq(C!Chars) : s = C!From(r, w) /\ Len(s) = a
    BY DEF View
  <2>2. QED
    BY <2>1, Elements
<1>8. ASSUME NEW k \in 1..(a - d) PROVE buf[Place(r', k)] = C!From(r, w)[k + d]
  <2>1. k \in Nat /\ k > 0 /\ d + k <= ConsoleWord /\ d + k = k + d /\ k + d \in 1..a
    BY <1>0, <1>a
  <2>2. Place(K!Inc(r, d), k) = Place(r, d + k)
    BY <1>0, <2>1, Further
  <2>3. C!From(r, w)[k + d] = buf[Place(r, k + d)]
    BY <1>c, <2>1
  <2>4. QED
    BY <1>1, <2>1, <2>2, <2>3
<1>9. Len(C!From(r, w)) = a
  BY DEF View
<1>10. QED
  BY <1>1, <1>4, <1>5, <1>6, <1>7, <1>8, <1>9

\* consoleintr() stores a character behind the others, and may complete the line.
LEMMA RingStore ==
  ASSUME ConsoleInv, NEW a \in Nat, NEW c \in Nat, View(a, c), C!HasRoom,
         NEW x \in C!Chars, buf' = [buf EXCEPT ![e % INPUT_BUF_SIZE] = x],
         e' = C!Plus(e, 1), r' = r, w' \in {w, C!Plus(e, 1)}
  PROVE  /\ e' \in 0..(ConsoleWord - 1) /\ w' \in 0..(ConsoleWord - 1) /\ Indices'
         /\ buf' \in [0..(INPUT_BUF_SIZE - 1) -> C!Chars]
         /\ c < INPUT_BUF_SIZE /\ (e + 1 - r) % ConsoleWord = c + 1 /\ w # C!Plus(e, 1)
         /\ \/ /\ w' = w
               /\ C!From(r, w)' = C!From(r, w)
               /\ C!From(w, e)' = Append(C!From(w, e), x)
            \/ /\ w' = C!Plus(e, 1)
               /\ C!From(r, w)' = C!From(r, w) \o Append(C!From(w, e), x)
               /\ C!From(w, e)' = << >>
<1>0. /\ K!Dimensions /\ r \in 0..(ConsoleWord - 1) /\ w \in 0..(ConsoleWord - 1)
      /\ e \in 0..(ConsoleWord - 1) /\ ConsoleWord \in Nat /\ r \in Nat /\ e \in Nat
      /\ buf \in [0..(INPUT_BUF_SIZE - 1) -> C!Chars]
  BY ConsoleSizes DEF ConsoleInv, ConsoleTyped
<1>a. /\ a <= c /\ c <= INPUT_BUF_SIZE /\ c < ConsoleWord
      /\ w = K!Inc(r, a) /\ e = K!Inc(r, c)
  BY DEF View
<1>b. /\ a = (w - r) % ConsoleWord /\ c = (e - r) % ConsoleWord
      /\ c - a = (e - w) % ConsoleWord
  BY DEF View
<1>c. /\ \A k \in 1..a : C!From(r, w)[k] = buf[Place(r, k)]
      /\ \A k \in 1..(c - a) : C!From(w, e)[k] = buf[Place(r, a + k)]
  BY DEF View
<1>d. /\ C!From(r, w) \in Seq(C!Chars) /\ Len(C!From(r, w)) = a
      /\ C!From(w, e) \in Seq(C!Chars) /\ Len(C!From(w, e)) = c - a
  BY DEF View
<1>1. /\ a <= c /\ c < INPUT_BUF_SIZE /\ c + 1 < ConsoleWord /\ c + 1 <= INPUT_BUF_SIZE
      /\ w = K!Inc(r, a) /\ e = K!Inc(r, c) /\ c \in 0..(ConsoleWord - 1)
  <2>1. c < INPUT_BUF_SIZE
    BY <1>b DEF C!HasRoom
  <2>2. QED
    BY <1>0, <1>a, <2>1, ConsoleSizes
<1>2. PICK f \in 0..(ConsoleWord - 1) : f = e' /\ f = K!Inc(e, 1) /\ f = K!Inc(r, c + 1)
  <2>1. K!Inc(e, 1) \in 0..(ConsoleWord - 1)
    BY <1>0, K!Unsigned
  <2>2. c \in 0..(ConsoleWord - 1) /\ 1 \in 0..(ConsoleWord - 1)
    BY <1>0, <1>1, ConsoleSizes
  <2>3. K!Inc(K!Inc(r, c), 1) = K!Inc(r, c + 1)
    BY <1>0, <1>1, <2>2, K!TwiceOn
  <2>4. QED
    BY <1>1, <2>1, <2>3, SamePlus
<1>3. (f - r) % ConsoleWord = c + 1
  <2>1. (K!Inc(e, 1) - r) % ConsoleWord = c + 1
    <3>1. /\ r \in 0..(ConsoleWord - 1) /\ e \in 0..(ConsoleWord - 1)
          /\ c = (e - r) % ConsoleWord /\ c + 1 < ConsoleWord
      BY <1>0, <1>1, <1>b
    <3>2. QED
      BY <3>1, Onward
  <2>2. QED
    BY <1>2, <2>1
<1>4. (f - w) % ConsoleWord = (c - a) + 1
  <2>1. PICK m \in Nat : m = c - a
    BY <1>1
  <2>2. m + 1 < ConsoleWord
    BY <1>0, <1>1, <2>1
  <2>3. m = (e - w) % ConsoleWord
    BY <1>b, <2>1
  <2>4. (K!Inc(e, 1) - w) % ConsoleWord = m + 1
    BY <1>0, <2>2, <2>3, Onward
  <2>5. QED
    BY <1>2, <2>1, <2>4
<1>5. (w - r) % ConsoleWord = a
  BY <1>b
<1>6. (e + 1 - r) % ConsoleWord = c + 1
  <2>1. \/ e = r + c
        \/ e = r + c - ConsoleWord
    BY <1>0, <1>1, K!Turns
  <2>2. PICK y \in 0..(ConsoleWord - 1) : y = c + 1
    BY <1>0, <1>1
  <2>3. e + 1 - r = y \/ e + 1 - r = y - ConsoleWord
    BY <1>0, <2>1, <2>2
  <2>4. ConsoleWord \in Nat \ {0}
    BY ConsoleSizes
  <2>5. y % ConsoleWord = y /\ (y - ConsoleWord) % ConsoleWord = y
    BY <2>4, K!Wrap
  <2>6. QED
    BY <2>2, <2>3, <2>5
<1>e. w # C!Plus(e, 1)
  BY <1>1, <1>2, <1>3, <1>5, SamePlus
\* The characters.
<1>7. e % INPUT_BUF_SIZE = Place(r, c + 1)
  <2>1. (c + 1) - 1 = c
    OBVIOUS
  <2>2. QED
    BY <1>1, <2>1 DEF Place
<1>8. buf'[Place(r, c + 1)] = x /\ Place(r, c + 1) \in 0..(INPUT_BUF_SIZE - 1)
  <2>1. Place(r, c + 1) \in 0..(INPUT_BUF_SIZE - 1)
    BY <1>0, PlaceIs
  <2>2. QED
    BY <1>0, <1>7, <2>1
<1>9. buf' \in [0..(INPUT_BUF_SIZE - 1) -> C!Chars]
  BY <1>0, <1>7, <1>8
<1>10. \A k \in 1..c : buf'[Place(r, k)] = buf[Place(r, k)]
  <2>1. SUFFICES ASSUME NEW k \in 1..c PROVE buf'[Place(r, k)] = buf[Place(r, k)]
    OBVIOUS
  <2>2. k \in 1..(c + 1) /\ c + 1 \in 1..(c + 1) /\ k < c + 1 /\ k \in Nat /\ k > 0
    OBVIOUS
  <2>3. Place(r, k) # Place(r, c + 1)
    BY <1>0, <1>1, <2>2, Places
  <2>4. Place(r, k) \in 0..(INPUT_BUF_SIZE - 1)
    BY <1>0, <2>2, PlaceIs
  <2>5. QED
    BY <1>0, <1>7, <2>3, <2>4
<1>11. \A k \in 1..a : C!From(r, w)[k] = buf'[Place(r, k)]
  <2>1. \A k \in 1..a : k \in 1..c
    BY <1>a
  <2>2. QED
    BY <1>10, <1>c, <2>1
<1>12. \A k \in 1..(c - a) : C!From(w, e)[k] = buf'[Place(r, a + k)]
  <2>1. SUFFICES ASSUME NEW k \in 1..(c - a) PROVE C!From(w, e)[k] = buf'[Place(r, a + k)]
    OBVIOUS
  <2>2. a + k \in 1..c
    BY <1>1
  <2>3. QED
    BY <1>10, <1>c, <2>2
<1>13. PICK s \in Seq(C!Chars), t \in Seq(C!Chars), m \in Nat :
         /\ s = C!From(r, w) /\ t = C!From(w, e) /\ m = c - a /\ Len(s) = a /\ Len(t) = m
         /\ s = [k \in 1..a |-> buf'[Place(r, k)]]
  <2>1. PICK s \in Seq(C!Chars), t \in Seq(C!Chars) : s = C!From(r, w) /\ t = C!From(w, e)
    BY <1>d
  <2>2. PICK m \in Nat : m = c - a
    BY <1>1
  <2>3. Len(s) = a /\ Len(t) = m
    BY <1>d, <2>1, <2>2
  <2>4. s = [k \in 1..a |-> s[k]]
    BY <2>3
  <2>5. s = [k \in 1..a |-> buf'[Place(r, k)]]
    BY <1>11, <2>1, <2>4
  <2>6. QED
    BY <2>1, <2>2, <2>3, <2>5
<1>m. m = c - a /\ Len(s) = a /\ Len(t) = m /\ s = C!From(r, w) /\ t = C!From(w, e)
  BY <1>13
<1>t. \A k \in 1..m : t[k] = buf'[Place(r, a + k)]
  BY <1>12, <1>m
<1>14. Append(t, x) = [k \in 1..(m + 1) |-> buf'[Place(r, a + k)]]
  <2>1. Append(t, x) = [k \in 1..(m + 1) |-> IF k = m + 1 THEN x ELSE t[k]]
    <3>1. t \in Seq(C!Chars) /\ m \in Nat /\ m = Len(t)
      BY <1>13
    <3>2. QED
      BY <3>1, Appended
  <2>2. ASSUME NEW k \in 1..(m + 1)
        PROVE  (IF k = m + 1 THEN x ELSE t[k]) = buf'[Place(r, a + k)]
    <3>1. CASE k = m + 1
      <4>1. a + k = c + 1
        BY <1>m, <3>1
      <4>2. QED
        BY <1>8, <3>1, <4>1
    <3>2. CASE k # m + 1
      <4>1. k \in 1..m
        BY <3>2
      <4>2. QED
        BY <1>t, <3>2, <4>1
    <3>3. QED
      BY <3>1, <3>2
  <2>3. QED
    BY <2>1, <2>2
<1>15. CASE w' = w
  <2>1. Indices'
    <3>1. a <= c + 1 /\ c + 1 <= INPUT_BUF_SIZE
      BY <1>1
    <3>2. (w' - r') % ConsoleWord = a /\ (e' - r') % ConsoleWord = c + 1
      BY <1>2, <1>3, <1>5, <1>15
    <3>3. QED
      BY <3>1, <3>2 DEF Indices
  <2>2. C!From(r, w)' = [k \in 1..a |-> buf'[Place(r, k)]]
    BY <1>5, <1>15, SamePlus DEF C!From, Place
  <2>3. C!From(w, e)' = [k \in 1..(m + 1) |-> buf'[Place(w, k)]]
    <3>1. (e' - w') % ConsoleWord = m + 1
      BY <1>2, <1>4, <1>m, <1>15
    <3>2. QED
      BY <1>15, <3>1, SamePlus DEF C!From, Place
  <2>4. \A k \in 1..(m + 1) : Place(w, k) = Place(r, a + k)
    <3>1. SUFFICES ASSUME NEW k \in 1..(m + 1) PROVE Place(w, k) = Place(r, a + k)
      OBVIOUS
    <3>2. k \in Nat /\ k > 0 /\ a + k <= ConsoleWord
      BY <1>0, <1>1, <1>m
    <3>3. QED
      BY <1>0, <1>1, <3>2, Further
  <2>5. C!From(w, e)' = Append(C!From(w, e), x)
    BY <1>14, <1>m, <2>3, <2>4
  <2>6. C!From(r, w)' = C!From(r, w)
    BY <1>13, <2>2
  <2>7. QED
    BY <1>0, <1>1, <1>2, <1>6, <1>9, <1>e, <1>15, <2>1, <2>5, <2>6
<1>16. CASE w' = C!Plus(e, 1)
  <2>1. w' = f
    BY <1>2, <1>16
  <2>2. (f - f) % ConsoleWord = 0
    <3>1. f - f = 0 /\ 0 \in 0..(ConsoleWord - 1) /\ ConsoleWord \in Nat \ {0}
      BY <1>0, ConsoleSizes
    <3>2. QED
      BY <3>1, K!Wrap
  <2>3. Indices'
    <3>1. (w' - r') % ConsoleWord = c + 1 /\ (e' - r') % ConsoleWord = c + 1
      BY <1>2, <1>3, <2>1
    <3>2. QED
      BY <1>1, <3>1 DEF Indices
  <2>4. C!From(w, e)' = << >>
    BY <1>2, <2>1, <2>2 DEF C!From
  <2>5. C!From(r, w)' = [k \in 1..(c + 1) |-> buf'[Place(r, k)]]
    BY <1>3, <2>1, SamePlus DEF C!From, Place
  <2>6. PICK u \in Seq(C!Chars) : u = Append(t, x) /\ Len(u) = m + 1
    <3>1. t \in Seq(C!Chars) /\ m \in Nat /\ m = Len(t)
      BY <1>13
    <3>2. Append(t, x) \in Seq(C!Chars) /\ Len(Append(t, x)) = m + 1
      BY <3>1, Appended
    <3>3. QED
      BY <3>2
  <2>7. PICK y \in Seq(C!Chars) :
          /\ y = s \o u /\ Len(y) = c + 1
          /\ \A k \in 1..(c + 1) : y[k] = IF k <= a THEN s[k] ELSE u[k - a]
    <3>1. /\ s \o u \in Seq(C!Chars) /\ Len(s \o u) = a + (m + 1)
          /\ \A k \in 1..(a + (m + 1)) : (s \o u)[k] = IF k <= a THEN s[k] ELSE u[k - a]
      <4>1. PICK l \in Nat : l = m + 1
        OBVIOUS
      <4>2. s \in Seq(C!Chars) /\ u \in Seq(C!Chars) /\ Len(s) = a /\ Len(u) = l
        BY <1>13, <2>6, <4>1
      <4>3. s \o u \in Seq(C!Chars) /\ Len(s \o u) = a + l
        BY <4>2
      <4>4. \A k \in 1..(a + l) : (s \o u)[k] = IF k <= a THEN s[k] ELSE u[k - a]
        BY <4>2, Joined, SMTT(60)
      <4>5. QED
        BY <4>1, <4>3, <4>4
    <3>2. a + (m + 1) = c + 1
      BY <1>m
    <3>3. QED
      BY <3>1, <3>2
  <2>8. y = [k \in 1..(c + 1) |-> y[k]]
    <3>1. y = [k \in 1..Len(y) |-> y[k]]
      OBVIOUS
    <3>2. QED
      BY <2>7, <3>1
  <2>9. ASSUME NEW k \in 1..(c + 1)
        PROVE  buf'[Place(r, k)] = y[k]
    <3>1. CASE k <= a
      <4>1. k \in 1..a
        BY <3>1
      <4>2. QED
        BY <1>13, <2>7, <3>1, <4>1
    <3>2. CASE ~(k <= a)
      <4>1. PICK h \in 1..(m + 1) : h = k - a /\ a + h = k
        BY <1>m, <3>2
      <4>2. y[k] = u[h]
        BY <2>7, <3>2, <4>1
      <4>3. u[h] = buf'[Place(r, a + h)]
        BY <1>14, <2>6
      <4>4. QED
        BY <4>1, <4>2, <4>3
    <3>3. QED
      BY <3>1, <3>2
  <2>10. C!From(r, w)' = s \o u
    BY <2>5, <2>7, <2>8, <2>9
  <2>11. QED
    BY <1>0, <1>1, <1>2, <1>6, <1>9, <1>e, <1>m, <1>16, <2>1, <2>3, <2>4, <2>6, <2>10
<1>17. QED
  BY <1>15, <1>16

LEMMA Behind ==
  ASSUME NEW i \in 0..(ConsoleWord - 1), NEW b \in 0..(ConsoleWord - 1)
  PROVE  K!Inc(i, b) \in 0..(ConsoleWord - 1) /\ (K!Inc(i, b) - i) % ConsoleWord = b
<1>0. K!Dimensions /\ ConsoleWord \in Nat /\ i \in Nat /\ b \in Nat
  BY ConsoleSizes
<1>1. PICK j \in 0..(ConsoleWord - 1) : j = K!Inc(i, b)
  BY <1>0, K!Unsigned
<1>2. \/ i + b < ConsoleWord /\ j = i + b
      \/ i + b >= ConsoleWord /\ j = i + b - ConsoleWord
  BY <1>0, <1>1, K!Turns
<1>3. (j - i) % ConsoleWord = IF j >= i THEN j - i ELSE j - i + ConsoleWord
  BY <1>0, K!Difference
<1>4. (j - i) % ConsoleWord = b
  BY <1>0, <1>2, <1>3
<1>5. QED
  BY <1>1, <1>4

\* consoleintr() takes characters of the incomplete line, from its end.
LEMMA RingErase ==
  ASSUME ConsoleInv, NEW a \in Nat, NEW c \in Nat, View(a, c), e # w,
         e' \in {C!Plus(e, ConsoleWord - 1), w}, UNCHANGED <<buf, r, w>>
  PROVE  /\ e' \in 0..(ConsoleWord - 1) /\ Indices'
         /\ C!From(r, w)' = C!From(r, w)
         /\ \E d \in 0..(Len(C!From(w, e)) - 1) : C!From(w, e)' = SubSeq(C!From(w, e), 1, d)
<1>0. /\ K!Dimensions /\ r \in 0..(ConsoleWord - 1) /\ w \in 0..(ConsoleWord - 1)
      /\ e \in 0..(ConsoleWord - 1) /\ ConsoleWord \in Nat /\ ConsoleWord > 1
      /\ INPUT_BUF_SIZE \in Nat /\ r \in Nat /\ e \in Nat
  BY ConsoleSizes DEF ConsoleInv, ConsoleTyped
<1>a. /\ a <= c /\ c <= INPUT_BUF_SIZE /\ c < ConsoleWord
      /\ w = K!Inc(r, a) /\ e = K!Inc(r, c)
  BY DEF View
<1>b. a = (w - r) % ConsoleWord
  BY DEF View
<1>c. \A k \in 1..(c - a) : C!From(w, e)[k] = buf[Place(r, a + k)]
  BY DEF View
<1>d. C!From(w, e) \in Seq(C!Chars) /\ Len(C!From(w, e)) = c - a
  BY DEF View
<1>1. a < c
  <2>1. a # c
    BY <1>a
  <2>2. QED
    BY <1>a, <2>1
<1>2. \E b \in Nat : a <= b /\ b < c /\ e' = K!Inc(r, b)
  <2>1. CASE e' = w
    BY <1>1, <1>a, <2>1
  <2>2. CASE e' = C!Plus(e, ConsoleWord - 1)
    <3>1. PICK b \in Nat : b = c - 1
      BY <1>1
    <3>2. /\ b \in 0..(ConsoleWord - 1) /\ c \in 0..(ConsoleWord - 1) /\ c = b + 1
          /\ ConsoleWord - 1 \in 0..(ConsoleWord - 1)
      BY <1>0, <1>a, <3>1
    <3>3. PICK f \in 0..(ConsoleWord - 1) : f = e /\ f = K!Inc(r, c)
      BY <1>0, <1>a
    <3>4. \/ r + c < ConsoleWord /\ f = r + c
          \/ r + c >= ConsoleWord /\ f = r + c - ConsoleWord
      BY <1>0, <3>2, <3>3, K!Turns
    <3>5. \/ r + b < ConsoleWord /\ K!Inc(r, b) = r + b
          \/ r + b >= ConsoleWord /\ K!Inc(r, b) = r + b - ConsoleWord
      BY <1>0, <3>2, K!Turns
    <3>6. PICK l \in 0..(ConsoleWord - 1) : l = ConsoleWord - 1
      BY <3>2
    <3>7. \/ f + l < ConsoleWord /\ K!Inc(f, l) = f + l
          \/ f + l >= ConsoleWord /\ K!Inc(f, l) = f + l - ConsoleWord
      BY <1>0, K!Turns
    <3>8. K!Inc(f, l) = K!Inc(r, b)
      BY <1>0, <3>2, <3>4, <3>5, <3>6, <3>7
    <3>9. e' = K!Inc(r, b)
      BY <2>2, <3>3, <3>6, <3>8, SamePlus
    <3>10. a <= b /\ b < c
      BY <1>1, <3>1
    <3>11. QED
      BY <3>9, <3>10
  <2>3. QED
    BY <2>1, <2>2
<1>3. PICK b \in Nat : a <= b /\ b < c /\ e' = K!Inc(r, b)
  BY <1>2
<1>4. PICK d \in Nat : d = b - a
  BY <1>3
<1>5. /\ b \in 0..(ConsoleWord - 1) /\ a \in 0..(ConsoleWord - 1) /\ d \in 0..(ConsoleWord - 1)
      /\ a + d < ConsoleWord /\ a + d = b /\ d <= c - a - 1 /\ d <= c - a
      /\ d \in 0..((c - a) - 1)
  BY <1>0, <1>3, <1>4, <1>a
<1>6. e' \in 0..(ConsoleWord - 1) /\ (e' - r) % ConsoleWord = b
  BY <1>0, <1>3, <1>5, Behind
<1>7. e' = K!Inc(w, d)
  <2>1. K!Inc(K!Inc(r, a), d) = K!Inc(r, a + d)
    BY <1>0, <1>5, K!TwiceOn
  <2>2. QED
    BY <1>3, <1>5, <1>a, <2>1
<1>8. (e' - w) % ConsoleWord = d
  BY <1>0, <1>5, <1>7, Behind
<1>9. Indices'
  <2>1. a <= b /\ b <= INPUT_BUF_SIZE
    BY <1>0, <1>3, <1>a
  <2>2. (w' - r') % ConsoleWord = a /\ (e' - r') % ConsoleWord = b
    BY <1>6, <1>b
  <2>3. QED
    BY <2>1, <2>2 DEF Indices
<1>10. C!From(r, w)' = C!From(r, w)
  BY DEF C!From
<1>11. C!From(w, e)' = [k \in 1..d |-> buf[Place(w, k)]]
  BY <1>8, SamePlus DEF C!From, Place
<1>12. ASSUME NEW k \in 1..d PROVE buf[Place(w, k)] = C!From(w, e)[k]
  <2>1. k \in Nat /\ k > 0 /\ a + k <= ConsoleWord /\ k \in 1..(c - a)
    BY <1>0, <1>5
  <2>2. Place(K!Inc(r, a), k) = Place(r, a + k)
    BY <1>0, <2>1, Further
  <2>3. QED
    BY <1>a, <1>c, <2>1, <2>2
<1>13. SubSeq(C!From(w, e), 1, d) = [k \in 1..d |-> C!From(w, e)[k]]
  <2>1. PICK s \in Seq(C!Chars) : s = C!From(w, e) /\ Len(s) = c - a
    BY <1>d
  <2>2. PICK m \in Nat : m = c - a
    BY <1>1
  <2>3. d \in 0..m
    BY <1>5, <2>2
  <2>4. SubSeq(s, 1, d) = [k \in 1..d |-> s[k]]
    BY <2>1, <2>2, <2>3, Elements
  <2>5. QED
    BY <2>1, <2>4
<1>14. C!From(w, e)' = SubSeq(C!From(w, e), 1, d)
  BY <1>11, <1>12, <1>13
<1>15. d \in 0..(Len(C!From(w, e)) - 1)
  BY <1>5, <1>d
<1>16. QED
  BY <1>6, <1>9, <1>10, <1>14, <1>15

-----------------------------------------------------------------------------
(* The console: its steps *)

\* A step of the lines, or none.
SameLines == C!From(r, w)' = C!From(r, w) /\ C!From(w, e)' = C!From(w, e) /\ got' = got
InLines == C!Lines!NextLines \/ SameLines

LEMMA RingStays ==
  ASSUME ConsoleInv, UNCHANGED <<buf, r, w, e>>
  PROVE  /\ Indices' /\ C!From(r, w)' = C!From(r, w) /\ C!From(w, e)' = C!From(w, e)
         /\ buf' \in [0..(INPUT_BUF_SIZE - 1) -> C!Chars]
         /\ r' \in 0..(ConsoleWord - 1) /\ w' \in 0..(ConsoleWord - 1) /\ e' \in 0..(ConsoleWord - 1)
BY DEF ConsoleInv, ConsoleTyped, Indices, C!From, C!Plus

LEMMA CallStep ==
  ASSUME ConsoleInv, NEW p \in ConsoleProcs, C!Call(p)
  PROVE  ConsoleInv' /\ InLines
<1>1. PICK s \in Seq(C!Calls), n \in Nat, step \in {"read", "put"} :
        /\ s = typing[p] /\ s # << >> /\ n = Head(s).n /\ step = Head(s).step
  <2>1. typing[p] \in Seq(C!Calls) /\ typing[p] # << >>
    BY DEF ConsoleInv, ConsoleTyped, C!Call
  <2>2. Head(typing[p]) \in C!Calls
    BY <2>1
  <2>3. QED
    BY <2>1, <2>2 DEF C!Calls
<1>2. /\ cpc[p] = "user" /\ moving' = [moving EXCEPT ![p] = n]
      /\ cpc' = [cpc EXCEPT ![p] = IF moving'[p] = 0 THEN "return" ELSE step]
      /\ typing' = [typing EXCEPT ![p] = Tail(@)]
      /\ UNCHANGED <<buf, r, w, e, got, key, tx, sending, irq, intr>>
  BY <1>1 DEF C!Call, C!Goto, C!cons, C!uart
<1>3. moving' \in [ConsoleProcs -> Nat] /\ moving'[p] = n
  BY <1>2 DEF ConsoleInv, ConsoleTyped
<1>4. cpc' = [cpc EXCEPT ![p] = IF n = 0 THEN "return" ELSE step]
  BY <1>2, <1>3
<1>5. Tail(s) \in Seq(C!Calls)
  BY <1>1
<1>6. ConsoleTyped'
  <2>1. cpc' \in [ConsoleProcs -> ConsoleSteps]
    BY <1>4 DEF ConsoleInv, ConsoleTyped, ConsoleSteps
  <2>2. typing' \in [ConsoleProcs -> Seq(C!Calls)]
    BY <1>1, <1>2, <1>5 DEF ConsoleInv, ConsoleTyped
  <2>3. QED
    BY <1>2, <1>3, <2>1, <2>2 DEF ConsoleInv, ConsoleTyped
<1>7. Busy'
  BY <1>1, <1>2, <1>3, <1>4 DEF ConsoleInv, ConsoleTyped, Busy
<1>8. C!NoLostWakeup'
  BY <1>1, <1>2, <1>4 DEF ConsoleInv, ConsoleTyped, C!NoLostWakeup
<1>9. QED
  BY <1>2, <1>6, <1>7, <1>8, RingStays DEF ConsoleInv, InLines, SameLines

LEMMA ReturnStep ==
  ASSUME ConsoleInv, NEW p \in ConsoleProcs, C!Return(p)
  PROVE  ConsoleInv' /\ InLines
<1>1. /\ cpc' = [cpc EXCEPT ![p] = "user"] /\ moving' = [moving EXCEPT ![p] = 0]
      /\ got' = [got EXCEPT ![p] = << >>]
      /\ typing' = [typing EXCEPT ![p] = IF marked[p] THEN << >> ELSE @]
      /\ UNCHANGED <<buf, r, w, e, key, tx, sending, irq, intr>>
  BY DEF C!Return, C!Goto, C!cons, C!uart
<1>2. ConsoleTyped'
  <2>1. cpc' \in [ConsoleProcs -> ConsoleSteps] /\ moving' \in [ConsoleProcs -> Nat]
    BY <1>1 DEF ConsoleInv, ConsoleTyped, ConsoleSteps
  <2>2. << >> \in Seq(C!Calls) /\ << >> \in Seq(C!Chars)
    OBVIOUS
  <2>3. typing' \in [ConsoleProcs -> Seq(C!Calls)] /\ got' \in [ConsoleProcs -> Seq(C!Chars)]
    BY <1>1, <2>2 DEF ConsoleInv, ConsoleTyped
  <2>4. QED
    BY <1>1, <2>1, <2>3 DEF ConsoleInv, ConsoleTyped
<1>3. Busy'
  BY <1>1 DEF ConsoleInv, ConsoleTyped, Busy
<1>4. C!NoLostWakeup'
  BY <1>1 DEF ConsoleInv, ConsoleTyped, C!NoLostWakeup
<1>5. C!Lines!Return(p)
  BY <1>1, RingStays DEF C!Lines!Return
<1>6. QED
  BY <1>1, <1>2, <1>3, <1>4, <1>5, RingStays DEF ConsoleInv, InLines, C!Lines!NextLines

LEMMA KillStep ==
  ASSUME ConsoleInv, NEW p \in ConsoleProcs, C!Kill(p)
  PROVE  ConsoleInv' /\ InLines
<1>1. /\ cpc' = [cpc EXCEPT ![p] = CASE cpc[p] = "sleep_r" -> "read" [] cpc[p] = "sleep_tx" -> "put"
                                     [] OTHER -> cpc[p]]
      /\ UNCHANGED <<buf, r, w, e, key, tx, sending, irq, intr, moving, got, typing>>
  BY DEF C!Kill, C!Goto, C!cons, C!uart
<1>2. PICK step \in ConsoleSteps :
        /\ cpc' = [cpc EXCEPT ![p] = step]
        /\ step \notin {"user", "return"} => cpc[p] \notin {"user", "return"}
        /\ step \notin {"sleep_r", "sleep_tx"}
  BY <1>1 DEF ConsoleInv, ConsoleTyped, ConsoleSteps
<1>3. ConsoleTyped'
  BY <1>1, <1>2 DEF ConsoleInv, ConsoleTyped
<1>4. Busy'
  BY <1>1, <1>2 DEF ConsoleInv, ConsoleTyped, Busy
<1>5. C!NoLostWakeup'
  BY <1>1, <1>2 DEF ConsoleInv, ConsoleTyped, C!NoLostWakeup
<1>6. QED
  BY <1>1, <1>3, <1>4, <1>5, RingStays DEF ConsoleInv, InLines, SameLines

LEMMA WireStep ==
  ASSUME ConsoleInv, C!Keyboard \/ C!Sent \/ C!IntrEnter
  PROVE  ConsoleInv' /\ InLines
<1>1. UNCHANGED <<buf, r, w, e, tx, cpc, moving, got, typing>>
  BY DEF C!Keyboard, C!Sent, C!IntrEnter, C!cons, C!uart, C!calls
<1>2. key' \in C!Keys \cup {C!NoKey}
  BY DEF C!Keyboard, C!Sent, C!IntrEnter, ConsoleInv, ConsoleTyped
<1>3. ConsoleTyped'
  BY <1>1, <1>2 DEF ConsoleInv, ConsoleTyped
<1>4. Busy'
  BY <1>1 DEF ConsoleInv, Busy
<1>5. (sending \/ irq \/ intr) => (sending' \/ irq' \/ intr')
  BY DEF C!Keyboard, C!Sent, C!IntrEnter
<1>6. C!NoLostWakeup'
  BY <1>1, <1>5 DEF ConsoleInv, C!NoLostWakeup
<1>7. QED
  BY <1>1, <1>3, <1>4, <1>6, RingStays DEF ConsoleInv, InLines, SameLines

LEMMA PutcStep ==
  ASSUME ConsoleInv, NEW p \in ConsoleProcs, C!UartPutc(p)
  PROVE  ConsoleInv' /\ InLines
<1>1. /\ cpc[p] = "put" /\ moving[p] \in Nat /\ moving[p] > 0
      /\ UNCHANGED <<buf, r, w, e, irq, intr, key, got, typing>>
  BY DEF C!UartPutc, C!cons, ConsoleInv, ConsoleTyped, Busy
<1>2. CASE tx = UART_TX_BUF_SIZE
  <2>1. cpc' = [cpc EXCEPT ![p] = "sleep_tx"] /\ UNCHANGED <<tx, sending, moving>>
    BY <1>2 DEF C!UartPutc, C!Goto
  <2>2. ConsoleTyped'
    BY <1>1, <2>1 DEF ConsoleInv, ConsoleTyped, ConsoleSteps
  <2>3. Busy'
    BY <1>1, <2>1 DEF ConsoleInv, ConsoleTyped, Busy
  <2>4. C!NoLostWakeup'
    BY <1>1, <1>2, <2>1 DEF ConsoleInv, ConsoleTyped, C!NoLostWakeup
  <2>5. QED
    BY <1>1, <2>2, <2>3, <2>4, RingStays DEF ConsoleInv, InLines, SameLines
<1>3. CASE tx # UART_TX_BUF_SIZE
  <2>1. PICK n \in Nat, step \in {"return", "put"} :
          /\ moving' = [moving EXCEPT ![p] = n] /\ (step = "put" => n > 0)
          /\ C!UartStart(tx + 1, [cpc EXCEPT ![p] = step])
    <3>1. /\ C!UartStart(tx + 1, [cpc EXCEPT ![p] = IF moving[p] = 1 THEN "return" ELSE "put"])
          /\ moving' = [moving EXCEPT ![p] = moving[p] - 1]
      BY <1>3 DEF C!UartPutc
    <3>2. moving[p] - 1 \in Nat /\ (moving[p] # 1 => moving[p] - 1 > 0)
      BY <1>1
    <3>3. CASE moving[p] = 1
      BY <3>1, <3>2, <3>3
    <3>4. CASE moving[p] # 1
      BY <3>1, <3>2, <3>4
    <3>5. QED
      BY <3>3, <3>4
  <2>2. tx \in Nat /\ tx + 1 \in 0..UART_TX_BUF_SIZE /\ tx + 1 > 0
    BY <1>3, ConsoleSizes DEF ConsoleInv, ConsoleTyped
  <2>3. tx' = (IF ~sending THEN tx ELSE tx + 1) /\ sending'
    <3>1. PICK k \in Nat : k = tx + 1 /\ k > 0 /\ k - 1 = tx
      BY <2>2
    <3>2. C!UartStart(k, [cpc EXCEPT ![p] = step])
      BY <2>1, <3>1
    <3>3. tx' = IF ~sending THEN k - 1 ELSE k
      BY <3>1, <3>2 DEF C!UartStart, C!Starts
    <3>4. sending'
      BY <3>1, <3>2 DEF C!UartStart
    <3>5. QED
      BY <3>1, <3>3, <3>4
  <2>4. /\ cpc' \in [ConsoleProcs -> ConsoleSteps] /\ cpc'[p] = step
        /\ \A q \in ConsoleProcs : q # p =>
             \/ cpc'[q] = cpc[q]
             \/ cpc[q] = "sleep_tx" /\ cpc'[q] = "put"
    BY <2>1 DEF C!UartStart, ConsoleInv, ConsoleTyped, ConsoleSteps
  <2>5. ConsoleTyped'
    <3>1. tx' \in 0..UART_TX_BUF_SIZE
      BY <2>2, <2>3 DEF ConsoleInv, ConsoleTyped
    <3>2. moving' \in [ConsoleProcs -> Nat]
      BY <2>1 DEF ConsoleInv, ConsoleTyped
    <3>3. QED
      BY <1>1, <2>4, <3>1, <3>2 DEF ConsoleInv, ConsoleTyped
  <2>6. Busy'
    <3>1. SUFFICES ASSUME NEW q \in ConsoleProcs, cpc'[q] \notin {"user", "return"}
                   PROVE  moving'[q] > 0
      BY DEF Busy
    <3>2. CASE q = p
      BY <2>1, <2>4, <3>1, <3>2 DEF ConsoleInv, ConsoleTyped
    <3>3. CASE q # p
      BY <2>1, <2>4, <3>1, <3>3 DEF ConsoleInv, ConsoleTyped, Busy
    <3>4. QED
      BY <3>2, <3>3
  <2>7. C!NoLostWakeup'
    <3>1. ASSUME NEW q \in ConsoleProcs
          PROVE  cpc'[q] # "sleep_tx" /\ (cpc'[q] = "sleep_r" => r' = w')
      BY <1>1, <1>3, <2>4 DEF ConsoleInv, C!NoLostWakeup
    <3>2. QED
      BY <2>3, <3>1 DEF C!NoLostWakeup
  <2>8. QED
    BY <1>1, <2>5, <2>6, <2>7, RingStays DEF ConsoleInv, InLines, SameLines
<1>4. QED
  BY <1>2, <1>3

LEMMA ExitStep ==
  ASSUME ConsoleInv, C!IntrExit
  PROVE  ConsoleInv' /\ InLines
<1>1. /\ C!UartStart(tx, cpc)
      /\ UNCHANGED <<buf, r, w, e, irq, key, got, typing, moving>>
  BY DEF C!IntrExit, C!cons, C!calls
<1>2. tx \in Nat /\ tx \in 0..UART_TX_BUF_SIZE
  BY ConsoleSizes DEF ConsoleInv, ConsoleTyped
<1>3. /\ tx' = (IF tx > 0 /\ ~sending THEN tx - 1 ELSE tx)
      /\ tx > 0 => sending'
  BY <1>1 DEF C!UartStart, C!Starts
<1>4. /\ cpc' \in [ConsoleProcs -> ConsoleSteps]
      /\ \A q \in ConsoleProcs :
           \/ cpc'[q] = cpc[q] /\ (cpc[q] = "sleep_tx" => ~(tx > 0 /\ ~sending))
           \/ cpc[q] = "sleep_tx" /\ cpc'[q] = "put"
  BY <1>1 DEF C!UartStart, C!Starts, ConsoleInv, ConsoleTyped, ConsoleSteps
<1>5. ConsoleTyped'
  BY <1>1, <1>2, <1>3, <1>4, ConsoleSizes DEF ConsoleInv, ConsoleTyped
<1>6. Busy'
  BY <1>1, <1>4 DEF ConsoleInv, Busy
<1>7. C!NoLostWakeup'
  <2>1. ASSUME NEW q \in ConsoleProcs
        PROVE  /\ cpc'[q] = "sleep_r" => r' = w'
               /\ cpc'[q] = "sleep_tx" => tx' = UART_TX_BUF_SIZE
    BY <1>1, <1>3, <1>4 DEF ConsoleInv, C!NoLostWakeup
  <2>2. tx' > 0 => sending'
    BY <1>2, <1>3
  <2>3. QED
    BY <2>1, <2>2 DEF C!NoLostWakeup
<1>8. QED
  BY <1>1, <1>5, <1>6, <1>7, RingStays DEF ConsoleInv, InLines, SameLines

LEMMA EraseStep ==
  ASSUME ConsoleInv, C!Erase
  PROVE  ConsoleInv' /\ InLines
<1>1. /\ key' = C!NoKey /\ UNCHANGED <<buf, r, w, tx, cpc, moving, got, typing, irq, intr>>
      /\ sending => sending'
  BY DEF C!Erase, C!calls
<1>2. \/ e # w /\ e' \in {C!Plus(e, ConsoleWord - 1), w}
      \/ e' = e
  BY DEF C!Erase
<1>3. /\ Indices' /\ e' \in 0..(ConsoleWord - 1)
      /\ C!Lines!Erase \/ SameLines
  <2>1. CASE e' = e
    BY <1>1, <2>1, RingStays DEF SameLines
  <2>2. CASE e # w /\ e' \in {C!Plus(e, ConsoleWord - 1), w}
    <3>1. PICK a \in Nat, c \in Nat : View(a, c)
      BY Viewed
    <3>2. /\ e' \in 0..(ConsoleWord - 1) /\ Indices'
          /\ C!From(r, w)' = C!From(r, w)
          /\ \E d \in 0..(Len(C!From(w, e)) - 1) : C!From(w, e)' = SubSeq(C!From(w, e), 1, d)
      BY <1>1, <2>2, <3>1, RingErase
    <3>3. C!Lines!Erase
      BY <1>1, <3>2 DEF C!Lines!Erase
    <3>4. QED
      BY <3>2, <3>3
  <2>3. QED
    BY <1>2, <2>1, <2>2
<1>4. ConsoleTyped'
  BY <1>1, <1>3 DEF ConsoleInv, ConsoleTyped
<1>5. Busy'
  BY <1>1 DEF ConsoleInv, Busy
<1>6. C!NoLostWakeup'
  BY <1>1 DEF ConsoleInv, C!NoLostWakeup
<1>7. QED
  BY <1>3, <1>4, <1>5, <1>6 DEF ConsoleInv, InLines, C!Lines!NextLines

LEMMA StoreStep ==
  ASSUME ConsoleInv, C!Store
  PROVE  ConsoleInv' /\ InLines
<1>1. /\ key \in C!Chars /\ key' = C!NoKey
      /\ UNCHANGED <<r, tx, moving, got, typing, irq, intr>>
  BY DEF C!Store, C!calls
<1>2. CASE ~C!HasRoom
  <2>1. UNCHANGED <<sending, buf, e, w, cpc>>
    BY <1>2 DEF C!Store
  <2>2. ConsoleTyped'
    BY <1>1, <2>1 DEF ConsoleInv, ConsoleTyped
  <2>3. Busy' /\ C!NoLostWakeup'
    BY <1>1, <2>1 DEF ConsoleInv, Busy, C!NoLostWakeup
  <2>4. QED
    BY <1>1, <2>1, <2>2, <2>3, RingStays DEF ConsoleInv, InLines, SameLines
<1>3. CASE C!HasRoom
  <2>1. PICK a \in Nat, c \in Nat : View(a, c)
    BY Viewed
  <2>2. PICK x \in C!Chars : x = key
    BY <1>1
  <2>3. /\ sending' /\ buf' = [buf EXCEPT ![e % INPUT_BUF_SIZE] = x] /\ e' = C!Plus(e, 1)
        /\ \/ /\ x \in {"nl", "eof"} \/ (e + 1 - r) % ConsoleWord = INPUT_BUF_SIZE
              /\ w' = C!Plus(e, 1) /\ cpc' = C!Wakeup("sleep_r", "read")
           \/ /\ ~(x \in {"nl", "eof"} \/ (e + 1 - r) % ConsoleWord = INPUT_BUF_SIZE)
              /\ w' = w /\ cpc' = cpc
    BY <1>3, <2>2 DEF C!Store
  <2>4. w' \in {w, C!Plus(e, 1)}
    BY <2>3
  <2>5. /\ e' \in 0..(ConsoleWord - 1) /\ w' \in 0..(ConsoleWord - 1) /\ Indices'
        /\ buf' \in [0..(INPUT_BUF_SIZE - 1) -> C!Chars]
        /\ c < INPUT_BUF_SIZE /\ (e + 1 - r) % ConsoleWord = c + 1 /\ w # C!Plus(e, 1)
        /\ \/ /\ w' = w
              /\ C!From(r, w)' = C!From(r, w)
              /\ C!From(w, e)' = Append(C!From(w, e), x)
           \/ /\ w' = C!Plus(e, 1)
              /\ C!From(r, w)' = C!From(r, w) \o Append(C!From(w, e), x)
              /\ C!From(w, e)' = << >>
    BY <1>1, <1>3, <2>1, <2>3, <2>4, RingStore
  <2>6. /\ cpc' \in [ConsoleProcs -> ConsoleSteps]
        /\ \A q \in ConsoleProcs :
             \/ cpc'[q] = cpc[q]
             \/ cpc[q] = "sleep_r" /\ cpc'[q] = "read"
        /\ w' # w => \A q \in ConsoleProcs : cpc'[q] # "sleep_r"
    BY <2>3 DEF C!Wakeup, ConsoleInv, ConsoleTyped, ConsoleSteps
  <2>7. ConsoleTyped'
    BY <1>1, <2>5, <2>6 DEF ConsoleInv, ConsoleTyped
  <2>8. Busy'
    BY <1>1, <2>6 DEF ConsoleInv, Busy
  <2>9. C!NoLostWakeup'
    <3>1. \A q \in ConsoleProcs : cpc'[q] = "sleep_r" => r' = w'
      BY <1>1, <2>6 DEF ConsoleInv, C!NoLostWakeup
    <3>2. \A q \in ConsoleProcs : cpc'[q] = "sleep_tx" => tx' = UART_TX_BUF_SIZE
      BY <1>1, <2>6 DEF ConsoleInv, C!NoLostWakeup
    <3>3. QED
      BY <2>3, <3>1, <3>2 DEF C!NoLostWakeup
  <2>10. C!Lines!Type(x)
    <3>1. a <= c
      BY <2>1 DEF View
    <3>2. /\ C!From(w, e) \in Seq(C!Chars) /\ Len(C!From(w, e)) = c - a
          /\ Len(C!From(r, w)) = a
      BY <2>1 DEF View
    <3>3. PICK t \in Seq(C!Chars), m \in Nat : t = C!From(w, e) /\ m = Len(t) /\ m = c - a
      BY <3>1, <3>2
    <3>4. Len(Append(t, x)) = m + 1
      <4>1. t \in Seq(C!Chars) /\ m = Len(t)
        BY <3>3
      <4>2. QED
        BY <4>1, Appended
    <3>5. Len(C!From(r, w)) + Len(Append(C!From(w, e), x)) = c + 1
      BY <3>2, <3>3, <3>4
    <3>6. Len(C!From(r, w)) + Len(C!From(w, e)) < INPUT_BUF_SIZE
      BY <2>5, <3>2
    <3>7. \/ /\ x \in {"nl", "eof"} \/ c + 1 = INPUT_BUF_SIZE
             /\ w' = C!Plus(e, 1)
          \/ /\ ~(x \in {"nl", "eof"} \/ c + 1 = INPUT_BUF_SIZE)
             /\ w' = w
      BY <2>3, <2>5
    <3>8. QED
      BY <1>1, <2>5, <3>5, <3>6, <3>7 DEF C!Lines!Type
  <2>11. QED
    BY <2>2, <2>5, <2>7, <2>8, <2>9, <2>10 DEF ConsoleInv, InLines, C!Lines!NextLines, C!Chars
<1>4. QED
  BY <1>2, <1>3

\* A reader takes k characters.
LEMMA Takes ==
  ASSUME ConsoleInv, NEW p \in ConsoleProcs, NEW a \in Nat, NEW c \in Nat, View(a, c),
         NEW k \in 0..a,
         \A i \in 1..k : C!From(r, w)[i] # "eof" /\ (C!From(r, w)[i] = "nl" => i = k),
         got' = [got EXCEPT ![p] = @ \o SubSeq(C!From(r, w), 1, k)],
         r' = C!Plus(r, k), UNCHANGED <<buf, w, e>>
  PROVE  InLines /\ Indices' /\ r' \in 0..(ConsoleWord - 1)
<1>1. /\ r' \in 0..(ConsoleWord - 1) /\ Indices'
      /\ C!From(r, w)' = SubSeq(C!From(r, w), k + 1, Len(C!From(r, w)))
      /\ C!From(w, e)' = C!From(w, e)
  BY RingRead
<1>2. PICK s \in Seq(C!Chars) : s = C!From(r, w) /\ Len(s) = a
  BY DEF View
<1>3. got \in [ConsoleProcs -> Seq(C!Chars)]
  BY DEF ConsoleInv, ConsoleTyped
<1>4. CASE k = 0
  <2>1. SubSeq(s, 1, 0) = << >> /\ SubSeq(s, 1, Len(s)) = s
    OBVIOUS
  <2>2. got' = got
    <3>1. got[p] \o << >> = got[p]
      BY <1>3
    <3>2. QED
      BY <1>2, <1>3, <1>4, <2>1, <3>1
  <2>3. C!From(r, w)' = C!From(r, w)
    BY <1>1, <1>2, <1>4, <2>1
  <2>4. QED
    BY <1>1, <2>2, <2>3 DEF InLines, SameLines
<1>5. CASE k # 0
  <2>1. k \in 1..Len(s) /\ k \in Nat
    BY <1>2, <1>5
  <2>2. \A i \in 1..k : SubSeq(s, 1, k)[i] = s[i]
    BY <2>1
  <2>3. C!Lines!Take(p, k, FALSE)
    BY <1>1, <1>2, <2>2 DEF C!Lines!Take
  <2>4. QED
    BY <1>1, <1>2, <2>1, <2>3 DEF InLines, C!Lines!NextLines
<1>6. QED
  BY <1>4, <1>5

\* The characters that a reader has got.
LEMMA GotSome ==
  ASSUME ConsoleInv, NEW p \in ConsoleProcs, NEW k \in 0..Len(C!From(r, w)), C!Copies(p, k),
         k <= moving[p]
  PROVE  /\ got' \in [ConsoleProcs -> Seq(C!Chars)]
         /\ moving' \in [ConsoleProcs -> Nat] /\ moving'[p] = moving[p] - k
         /\ got' = [got EXCEPT ![p] = @ \o SubSeq(C!From(r, w), 1, k)]
         /\ \A q \in ConsoleProcs : q # p => moving'[q] = moving[q]
<1>1. PICK s \in Seq(C!Chars) : s = C!From(r, w)
  BY Stretch DEF ConsoleInv, ConsoleTyped
<1>2. SubSeq(s, 1, k) \in Seq(C!Chars)
  BY <1>1
<1>3. got[p] \o SubSeq(s, 1, k) \in Seq(C!Chars)
  BY <1>2 DEF ConsoleInv, ConsoleTyped
<1>4. moving[p] \in Nat /\ k \in Nat /\ moving[p] - k \in Nat
  BY <1>1 DEF ConsoleInv, ConsoleTyped
<1>5. /\ got' = [got EXCEPT ![p] = got[p] \o SubSeq(s, 1, k)]
      /\ moving' = [moving EXCEPT ![p] = moving[p] - k]
  BY <1>1 DEF C!Copies
<1>6. QED
  BY <1>1, <1>3, <1>4, <1>5 DEF ConsoleInv, ConsoleTyped

LEMMA WaitStep ==
  ASSUME ConsoleInv, NEW p \in ConsoleProcs, C!ReadWaits(p)
  PROVE  ConsoleInv' /\ InLines
<1>1. PICK a \in Nat, c \in Nat : View(a, c)
  BY Viewed
<1>2. Len(C!From(r, w)) = a /\ w = C!Plus(r, a)
  BY <1>1, SamePlus DEF View
<1>3. PICK k : k = C!Copied(p)
  OBVIOUS
<1>4. /\ k \in 0..a /\ k <= moving[p]
      /\ \A i \in 1..k : C!From(r, w)[i] # "eof" /\ (C!From(r, w)[i] = "nl" => i = k)
  BY <1>2, <1>3, CopiedIs
<1>5. /\ cpc[p] = "read" /\ k = a /\ k < moving[p] /\ C!Copies(p, k) /\ r' = w
      /\ cpc' = [cpc EXCEPT ![p] = IF marked[p] THEN "return" ELSE "sleep_r"]
      /\ UNCHANGED <<buf, w, e, tx, sending, irq, intr, key, typing>>
  BY <1>2, <1>3 DEF C!ReadWaits, C!Goto, C!uart
<1>6. /\ got' \in [ConsoleProcs -> Seq(C!Chars)]
      /\ moving' \in [ConsoleProcs -> Nat] /\ moving'[p] = moving[p] - k
      /\ got' = [got EXCEPT ![p] = @ \o SubSeq(C!From(r, w), 1, k)]
      /\ \A q \in ConsoleProcs : q # p => moving'[q] = moving[q]
  BY <1>2, <1>4, <1>5, GotSome
<1>7. InLines /\ Indices' /\ r' \in 0..(ConsoleWord - 1)
  BY <1>1, <1>2, <1>4, <1>5, <1>6, Takes
<1>8. ConsoleTyped'
  BY <1>5, <1>6, <1>7 DEF ConsoleInv, ConsoleTyped, ConsoleSteps
<1>9. Busy'
  <2>1. SUFFICES ASSUME NEW q \in ConsoleProcs, cpc'[q] \notin {"user", "return"}
                 PROVE  moving'[q] > 0
    BY DEF Busy
  <2>2. CASE q = p
    <3>1. moving[p] \in Nat /\ k \in Nat
      BY <1>4 DEF ConsoleInv, ConsoleTyped
    <3>2. QED
      BY <1>5, <1>6, <2>2, <3>1
  <2>3. CASE q # p
    BY <1>5, <1>6, <2>1, <2>3 DEF ConsoleInv, ConsoleTyped, Busy
  <2>4. QED
    BY <2>2, <2>3
<1>10. C!NoLostWakeup'
  BY <1>5 DEF ConsoleInv, ConsoleTyped, C!NoLostWakeup
<1>11. QED
  BY <1>7, <1>8, <1>9, <1>10 DEF ConsoleInv

LEMMA ReadStep ==
  ASSUME ConsoleInv, NEW p \in ConsoleProcs, C!ReadReturns(p)
  PROVE  ConsoleInv' /\ InLines
<1>1. PICK a \in Nat, c \in Nat : View(a, c)
  BY Viewed
<1>2. Len(C!From(r, w)) = a /\ a = (w - r) % ConsoleWord
  BY <1>1 DEF View
<1>3. PICK k : k = C!Copied(p)
  OBVIOUS
<1>4. /\ k \in 0..a /\ k <= moving[p]
      /\ \A i \in 1..k : C!From(r, w)[i] # "eof" /\ (C!From(r, w)[i] = "nl" => i = k)
  BY <1>2, <1>3, CopiedIs
<1>5. /\ cpc[p] = "read" /\ cpc' = [cpc EXCEPT ![p] = "return"]
      /\ UNCHANGED <<buf, w, e, tx, sending, irq, intr, key, typing>>
      /\ moving[p] \in Nat /\ moving[p] > 0
  BY DEF C!ReadReturns, C!Goto, C!uart, ConsoleInv, ConsoleTyped, Busy
<1>6. PICK s \in Seq(C!Chars) : s = C!From(r, w) /\ Len(s) = a
  BY <1>1 DEF View
<1>7. \/ /\ \/ k = moving[p]
            \/ k > 0 /\ s[k] = "nl"
            \/ k < a /\ s[k + 1] = "eof"
         /\ C!Copies(p, k)
         /\ r' = C!Plus(r, IF got'[p] = << >> THEN 1 ELSE k)
      \/ \E j \in 0..(k - 1) : C!Copies(p, j) /\ r' = C!Plus(r, j + 1)
  BY <1>2, <1>3, <1>6 DEF C!ReadReturns
<1>8. a > 0
  <2>1. CASE a = 0
    <3>1. k = 0
      BY <1>4, <2>1
    <3>2. QED
      BY <1>5, <1>7, <2>1, <3>1
  <2>2. QED
    BY <2>1
<1>9. r # w
  <2>1. r \in Int /\ (r - r) % ConsoleWord = 0
    <3>1. r \in Int /\ r - r = 0 /\ 0 \in 0..(ConsoleWord - 1) /\ ConsoleWord \in Nat \ {0}
      BY ConsoleSizes DEF ConsoleInv, ConsoleTyped
    <3>2. QED
      BY <3>1, K!Wrap
  <2>2. QED
    BY <1>2, <1>8, <2>1
<1>10. C!NoLostWakeup'
  BY <1>5, <1>9 DEF ConsoleInv, ConsoleTyped, C!NoLostWakeup
<1>11. /\ InLines /\ Indices' /\ r' \in 0..(ConsoleWord - 1)
       /\ got' \in [ConsoleProcs -> Seq(C!Chars)] /\ moving' \in [ConsoleProcs -> Nat]
       /\ \A q \in ConsoleProcs : q # p => moving'[q] = moving[q]
  <2>1. CASE \E j \in 0..(k - 1) : C!Copies(p, j) /\ r' = C!Plus(r, j + 1)
    <3>1. PICK j \in 0..(k - 1) : C!Copies(p, j) /\ r' = C!Plus(r, j + 1)
      BY <2>1
    <3>2. j \in 0..a /\ j \in 0..(a - 1) /\ j <= moving[p] /\ j + 1 \in 0..a /\ j \in Nat
      BY <1>4, <1>5
    <3>3. /\ got' \in [ConsoleProcs -> Seq(C!Chars)]
          /\ moving' \in [ConsoleProcs -> Nat]
          /\ got' = [got EXCEPT ![p] = @ \o SubSeq(C!From(r, w), 1, j)]
          /\ \A q \in ConsoleProcs : q # p => moving'[q] = moving[q]
      BY <1>2, <3>1, <3>2, GotSome
    <3>4. /\ r' \in 0..(ConsoleWord - 1) /\ Indices'
          /\ C!From(r, w)' = SubSeq(C!From(r, w), (j + 1) + 1, Len(C!From(r, w)))
          /\ C!From(w, e)' = C!From(w, e)
      BY <1>1, <1>5, <3>1, <3>2, RingRead
    <3>5. \A i \in 1..j : SubSeq(s, 1, j)[i] = s[i] /\ i \in 1..k /\ i # k
      BY <1>4, <1>6, <3>1, <3>2
    <3>6. (j + 1) + 1 = j + 2
      BY <3>2
    <3>7. C!Lines!Take(p, j, TRUE)
      BY <1>4, <1>6, <3>3, <3>4, <3>5, <3>6 DEF C!Lines!Take
    <3>8. QED
      BY <1>2, <3>2, <3>3, <3>4, <3>7 DEF InLines, C!Lines!NextLines
  <2>2. CASE /\ \/ k = moving[p]
                \/ k > 0 /\ s[k] = "nl"
                \/ k < a /\ s[k + 1] = "eof"
             /\ C!Copies(p, k)
             /\ r' = C!Plus(r, IF got'[p] = << >> THEN 1 ELSE k)
    <3>1. /\ got' \in [ConsoleProcs -> Seq(C!Chars)]
          /\ moving' \in [ConsoleProcs -> Nat]
          /\ got' = [got EXCEPT ![p] = @ \o SubSeq(C!From(r, w), 1, k)]
          /\ \A q \in ConsoleProcs : q # p => moving'[q] = moving[q]
      BY <1>2, <1>4, <2>2, GotSome
    <3>2. CASE got'[p] # << >>
      <4>1. r' = C!Plus(r, k)
        BY <2>2, <3>2
      <4>2. InLines /\ Indices' /\ r' \in 0..(ConsoleWord - 1)
        BY <1>1, <1>4, <1>5, <3>1, <4>1, Takes
      <4>3. QED
        BY <3>1, <4>2
    <3>3. CASE got'[p] = << >>
      <4>1. r' = C!Plus(r, 1) /\ 1 \in 0..a
        BY <1>8, <2>2, <3>3
      <4>2. got[p] \in Seq(C!Chars) /\ got'[p] = got[p] \o SubSeq(s, 1, k)
        BY <1>6, <3>1 DEF ConsoleInv, ConsoleTyped
      <4>3. SubSeq(s, 1, k) \in Seq(C!Chars) /\ Len(SubSeq(s, 1, k)) = k
        BY <1>4, <1>6
      <4>4. PICK g \in Seq(C!Chars), h \in Seq(C!Chars) : g = got[p] /\ h = SubSeq(s, 1, k)
        BY <4>2, <4>3
      <4>5. g \o h = << >>
        BY <3>3, <4>2, <4>4
      <4>6. Len(g \o h) = Len(g) + Len(h) /\ Len(g \o h) = 0 /\ Len(g) \in Nat /\ Len(h) \in Nat
        BY <4>5
      <4>7. Len(g) = 0 /\ Len(h) = 0
        BY <4>6
      <4>8. g = << >> /\ k = 0
        BY <4>3, <4>4, <4>7
      <4>9. got' = got
        <5>1. got[p] = << >> /\ got'[p] = << >>
          BY <3>3, <4>4, <4>8
        <5>2. QED
          BY <3>1, <5>1 DEF ConsoleInv, ConsoleTyped
      <4>10. s[1] = "eof"
        BY <1>5, <2>2, <4>8
      <4>11. /\ r' \in 0..(ConsoleWord - 1) /\ Indices'
             /\ C!From(r, w)' = SubSeq(C!From(r, w), 1 + 1, Len(C!From(r, w)))
             /\ C!From(w, e)' = C!From(w, e)
        BY <1>1, <1>5, <4>1, RingRead
      <4>12. s # << >> /\ Head(s) = "eof" /\ Tail(s) = SubSeq(s, 1 + 1, Len(s))
        BY <1>6, <1>8, <4>10
      <4>13. C!Lines!TakeEof(p)
        BY <1>6, <4>4, <4>8, <4>9, <4>11, <4>12 DEF C!Lines!TakeEof
      <4>14. QED
        BY <1>6, <3>1, <4>11, <4>12, <4>13 DEF InLines, C!Lines!NextLines
    <3>4. QED
      BY <3>2, <3>3
  <2>3. QED
    BY <1>7, <2>1, <2>2
<1>12. ConsoleTyped'
  BY <1>5, <1>11 DEF ConsoleInv, ConsoleTyped, ConsoleSteps
<1>13. Busy'
  BY <1>5, <1>11 DEF ConsoleInv, ConsoleTyped, Busy
<1>14. QED
  BY <1>10, <1>11, <1>12, <1>13 DEF ConsoleInv

-----------------------------------------------------------------------------
(* The console: what follows *)

LEMMA ConsoleStarts == C!Init => ConsoleInv /\ C!Lines!InitLines
<1> SUFFICES ASSUME C!Init PROVE ConsoleInv /\ C!Lines!InitLines
  OBVIOUS
<1>1. /\ r = 0 /\ w = 0 /\ e = 0 /\ tx = 0
      /\ cpc = [p \in ConsoleProcs |-> "user"] /\ moving = [p \in ConsoleProcs |-> 0]
      /\ got = [p \in ConsoleProcs |-> << >>] /\ key = C!NoKey
      /\ buf = [i \in 0..(INPUT_BUF_SIZE - 1) |-> "x"]
  BY DEF C!Init
<1>2. typing \in [ConsoleProcs -> Seq(C!Calls)]
  <2>1. PICK g \in ConsolePrograms : typing = g.calls
    BY DEF C!Init
  <2>2. QED
    BY <2>1, UserAssumption DEF C!ConsoleAssumption
<1>3. 0 % ConsoleWord = 0 /\ 0 - 0 = 0
  <2>1. 0 \in 0..(ConsoleWord - 1) /\ ConsoleWord \in Nat \ {0}
    BY ConsoleSizes
  <2>2. QED
    BY <2>1, K!Wrap
<1>4. ConsoleTyped
  <2>1. << >> \in Seq(C!Chars) /\ "x" \in C!Chars
    BY DEF C!Chars
  <2>2. 0 \in 0..(ConsoleWord - 1) /\ 0 \in 0..UART_TX_BUF_SIZE
    BY ConsoleSizes
  <2>3. QED
    BY <1>1, <1>2, <2>1, <2>2 DEF ConsoleTyped, ConsoleSteps
<1>5. Busy
  BY <1>1 DEF Busy
<1>6. Indices
  BY <1>1, <1>3, ConsoleSizes DEF Indices
<1>7. C!NoLostWakeup
  BY <1>1 DEF C!NoLostWakeup
<1>8. C!From(r, w) = << >> /\ C!From(w, e) = << >>
  BY <1>1, <1>3 DEF C!From
<1>9. C!Lines!InitLines
  BY <1>1, <1>8 DEF C!Lines!InitLines
<1>10. QED
  BY <1>4, <1>5, <1>6, <1>7, <1>9 DEF ConsoleInv

LEMMA ConsoleKeeps ==
  ASSUME ConsoleInv, [C!Next]_(C!vars)
  PROVE  ConsoleInv' /\ InLines
<1>1. ASSUME NEW p \in ConsoleProcs,
             C!Call(p) \/ C!ReadReturns(p) \/ C!ReadWaits(p) \/ C!Return(p) \/ C!Kill(p) \/ C!UartPutc(p)
      PROVE  ConsoleInv' /\ InLines
  BY <1>1, CallStep, ReadStep, WaitStep, ReturnStep, KillStep, PutcStep
<1>2. CASE C!Keyboard \/ C!Sent \/ C!IntrEnter
  BY <1>2, WireStep
<1>3. CASE C!Store \/ C!Erase \/ C!IntrExit
  BY <1>3, StoreStep, EraseStep, ExitStep
<1>4. CASE UNCHANGED C!vars
  <2>1. /\ UNCHANGED <<buf, r, w, e>> /\ UNCHANGED <<cpc, moving, typing, got, key, tx>>
        /\ UNCHANGED <<sending, irq, intr>>
    BY <1>4 DEF C!vars, C!cons, C!uart, C!calls
  <2>2. ConsoleTyped' /\ Busy' /\ C!NoLostWakeup'
    BY <2>1 DEF ConsoleInv, ConsoleTyped, Busy, C!NoLostWakeup
  <2>3. QED
    BY <2>1, <2>2, RingStays DEF ConsoleInv, InLines, SameLines
<1>5. QED
  BY <1>1, <1>2, <1>3, <1>4 DEF C!Next

\* A step of a user program is a step of the console or leaves it alone.
LEMMA SameConsole == [UserNext]_uservars => [C!Next]_(C!vars)
BY DEF UserNext, uservars, Others, consolevars, C!vars, C!cons, C!uart, C!calls, SemaphoreStep,
   ShellStep, LineStep, PipeStep, ConsoleStep, HeapStep

LEMMA SameSemaphores == [UserNext]_uservars => [Next]_vars
BY DEF UserNext, uservars, Others, SemaphoreStep, ShellStep, LineStep, PipeStep, ConsoleStep,
   HeapStep

\* The console keeps its invariant: the indices of its ring are in order, also
\* past 2^32, and who sleeps has nothing to read or no room to write
\* (consoleread(), consoleintr(), uartputc() and uartintr()).
THEOREM ConsoleCorrect == UserSpec => []ConsoleInv
<1>1. UserInit => ConsoleInv
  BY ConsoleStarts DEF UserInit
<1>2. ConsoleInv /\ [UserNext]_uservars => ConsoleInv'
  BY SameConsole, ConsoleKeeps
<1>3. QED
  BY <1>1, <1>2, PTL DEF UserSpec

\* What is typed comes to the readers in order, once and by lines, and can be
\* erased until its line is complete, for every size of the ring and width of
\* its indices (consoleread() and consoleintr()).
THEOREM ConsoleReadsLines == UserSpec => ImplementsLines
<1>1. UserInit => C!Lines!InitLines
  BY ConsoleStarts DEF UserInit
<1>2. ConsoleInv /\ [UserNext]_uservars =>
        [C!Lines!NextLines]_<<C!From(r, w), C!From(w, e), got>>
  BY SameConsole, ConsoleKeeps DEF InLines, SameLines
<1>3. QED
  BY <1>1, <1>2, ConsoleCorrect, PTL DEF UserSpec, ImplementsLines, C!ImplementsLines, C!Lines!LinesSpec

-----------------------------------------------------------------------------
(* What holds of every part *)

\* No wakeup is missed, in sem_down(), in piperead() and pipewrite(), and in
\* consoleread() and uartputc(): who sleeps has nothing to be woken for, or the
\* wakeup is still to come.
THEOREM NobodyOversleeps == UserSpec => []NoMissedWakeup
<1>1. OneCpu
  BY UserAssumption DEF OneCpu
<1>2. UserSpec => Init /\ [][Next]_vars
  BY SameSemaphores, PTL DEF UserSpec, UserInit
<1>3. UserSpec => [](TypeOK /\ NoLostWakeup)
  <2>1. Spec => [](NoLostWakeup /\ NeverNegative)
    BY <1>1, SleepersAreWoken
  <2>2. Spec => []SemInv
    BY <1>1, SemaphoresCorrect
  <2>3. SemInv => TypeOK
    BY DEF SemInv, Typed
  <2>4. QED
    BY <1>2, <2>1, <2>2, <2>3, PTL DEF Spec
<1>4. UserSpec => [](X!TypeOK /\ X!NoLostWakeup)
  <2>1. UserSpec => X!Init /\ [][X!Next]_(X!vars)
    BY PipesInit, SamePipes, PTL DEF UserSpec
  <2>2. X!Spec => []X!TypeOK
    BY PipesDimensions, X!FilesTypes
  <2>3. X!Spec => []X!NoLostWakeup
    BY PipesDimensions, X!NoWakeupLost
  <2>4. QED
    BY <2>1, <2>2, <2>3, PTL DEF X!Spec
<1>5. X!TypeOK /\ X!NoLostWakeup => F!TypeOK /\ F!NoLostWakeup
  <2>1. X!TypeOK => F!TypeOK
    BY DEF F!TypeOK, X!TypeOK, F!Pipes, X!Pipes, F!Bytes, X!Bytes, F!Procs, X!Procs, F!Steps,
       X!Steps, F!Sleeping, X!Sleeping, F!Woken, X!Woken, F!Locked, X!Locked, F!FileSlots,
       X!FileSlots, F!Descriptors, X!Descriptors, F!NoFile, X!NoFile
  <2>2. X!NoLostWakeup => F!NoLostWakeup
    BY DEF F!NoLostWakeup, X!NoLostWakeup, F!Procs, X!Procs, F!Count, X!Count, F!Full, X!Full,
       F!Inc, X!Inc
  <2>3. QED
    BY <2>1, <2>2
<1>6. ConsoleInv => C!NoLostWakeup
  BY DEF ConsoleInv
<1>7. QED
  BY <1>3, <1>4, <1>5, <1>6, ConsoleCorrect, PTL DEF NoMissedWakeup

\* References to files and ends of pipes are counted, and the page of a pipe is
\* there while somebody uses it (filealloc(), filedup(), fileclose(),
\* pipealloc(), pipeclose(), fork() and exit()).
THEOREM PipesAreCounted == UserSpec => [](F!RefsMatch /\ F!EndsMatch)
<1>1. UserSpec => X!Init /\ [][X!Next]_(X!vars)
  BY PipesInit, SamePipes, PTL DEF UserSpec
<1>2. X!Spec => []X!RefsMatch
  BY PipesDimensions, X!ReferencesCounted
<1>3. X!Spec => []X!EndsMatch
  BY PipesDimensions, X!EndsAndPages
<1>4. \A A : F!Cardinality(A) = X!Cardinality(A)
  BY DEF F!Cardinality, X!Cardinality
<1>5. X!RefsMatch => F!RefsMatch
  BY <1>4 DEF F!RefsMatch, X!RefsMatch, F!FileSlots, X!FileSlots, F!Procs, X!Procs,
     F!Descriptors, X!Descriptors
<1>6. X!EndsMatch => F!EndsMatch
  BY <1>4 DEF F!EndsMatch, X!EndsMatch, F!Pipes, X!Pipes, F!Procs, X!Procs, F!FileSlots,
     X!FileSlots, F!Steps, X!Steps, F!Sleeping, X!Sleeping, F!Woken, X!Woken, F!Locked, X!Locked
<1>7. QED
  BY <1>1, <1>2, <1>3, <1>5, <1>6, PTL DEF X!Spec
=============================================================================
