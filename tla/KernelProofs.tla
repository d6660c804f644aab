----------------------------- MODULE KernelProofs -----------------------------
(* Theorems about the parts of Kernel, for every number of CPUs, processes *)
(* and pages and every capacity: the ring buffer of queue.c, the kernel    *)
(* that takes turns and the boot of the CPUs are proved here, the clock    *)
(* and the memory in TicksProofs and MemoryProofs.                         *)
EXTENDS Kernel, FiniteSetTheorems, FunctionTheorems, SequenceTheorems, TLAPS

\* The variables stay in their types: begin is an index of the array and
\* size never leaves 0..NPROC, whatever the callers do (queue.c).
THEOREM TypeCorrect == Spec => []TypeOK
<1> USE RingAssumption DEF TypeOK, Steps
<1>1. Init => TypeOK
  BY DEF Init
<1>2. TypeOK /\ [Next]_vars => TypeOK'
  <2> SUFFICES ASSUME TypeOK, [Next]_vars PROVE TypeOK'
    OBVIOUS
  <2>1. ASSUME NEW c \in CPUs, NEW p \in Procs, EnqueCall(c, p) PROVE TypeOK'
    BY <2>1 DEF EnqueCall
  <2>2. ASSUME NEW c \in CPUs, EnqueReserve(c) PROVE TypeOK'
    BY <2>2 DEF EnqueReserve, AuxLockFree
  <2>3. ASSUME NEW c \in CPUs, EnqueStore(c) PROVE TypeOK'
    BY <2>3 DEF EnqueStore
  <2>4. ASSUME NEW c \in CPUs, ScanBegin(c) PROVE TypeOK'
    BY <2>4 DEF ScanBegin
  <2>5. ASSUME NEW c \in CPUs, QueueEmpty(c) PROVE TypeOK'
    BY <2>5 DEF QueueEmpty
  <2>6. ASSUME NEW c \in CPUs, Deque(c) PROVE TypeOK'
    BY <2>6 DEF Deque, NextBegin, Slot
  <2>7. ASSUME NEW c \in CPUs, ScanEnd(c) PROVE TypeOK'
    BY <2>7 DEF ScanEnd
  <2>8. CASE UNCHANGED vars
    BY <2>8 DEF vars
  <2>9. QED
    BY <2>1, <2>2, <2>3, <2>4, <2>5, <2>6, <2>7, <2>8 DEF Next
<1>3. QED
  BY <1>1, <1>2, PTL DEF Spec

-----------------------------------------------------------------------------
(* Around the end of the array *)

\* The slots of NPROC places are different, and the ring that begins one slot
\* later has the same slots, one place earlier.
LEMMA Slots ==
  ASSUME begin \in 0..(NPROC - 1)
  PROVE  /\ \A i \in 0..(NPROC - 1) : Slot(i) \in 0..(NPROC - 1)
         /\ \A i, j \in 0..(NPROC - 1) : Slot(i) = Slot(j) => i = j
         /\ NextBegin \in 0..(NPROC - 1)
         /\ \A i \in 0..(NPROC - 1) : (NextBegin + i) % NPROC = Slot(i + 1)
<1> DEFINE Around(k) == IF k < NPROC THEN k ELSE k - NPROC
<1>1. \A b \in 0..(NPROC - 1), i \in 0..NPROC : (b + i) % NPROC = Around(b + i)
  <2> TAKE b \in 0..(NPROC - 1), i \in 0..NPROC
  <2> QED
    BY RingAssumption
<1>2. \A i \in 0..NPROC : Slot(i) = Around(begin + i)
  BY <1>1 DEF Slot
<1> USE RingAssumption
<1>3. NextBegin = Around(begin + 1)
  BY <1>2 DEF NextBegin
<1>4. NextBegin \in 0..(NPROC - 1)
  BY <1>3
<1>5. \A i \in 0..(NPROC - 1) : (NextBegin + i) % NPROC = Around(NextBegin + i)
  BY <1>1, <1>4
<1>6. \A i \in 0..(NPROC - 1) : (NextBegin + i) % NPROC = Slot(i + 1)
  <2> TAKE i \in 0..(NPROC - 1)
  <2>1. (NextBegin + i) % NPROC = Around(NextBegin + i) /\ Slot(i + 1) = Around(begin + (i + 1))
    BY <1>2, <1>5
  <2>2. Around(NextBegin + i) = Around(begin + (i + 1))
    BY <1>3
  <2>3. QED
    BY <2>1, <2>2
<1>7. \A i \in 0..(NPROC - 1) : Slot(i) \in 0..(NPROC - 1)
  BY <1>2
<1>8. \A i, j \in 0..(NPROC - 1) : Slot(i) = Slot(j) => i = j
  <2> TAKE i, j \in 0..(NPROC - 1)
  <2>1. Slot(i) = Around(begin + i) /\ Slot(j) = Around(begin + j)
    BY <1>2
  <2>2. Around(begin + i) = Around(begin + j) => i = j
    OBVIOUS
  <2>3. QED
    BY <2>1, <2>2
<1>9. QED
  BY <1>4, <1>6, <1>7, <1>8

-----------------------------------------------------------------------------
(* The inductive invariant of the ring *)

\* A CPU that has a process in its hands.
Busy == {"enque", "store", "picked"}

\* aux_lock is held across the two halves of enque(), queue_lock from the
\* emptiness test to the end of the scan.
LocksHeld ==
  \A c \in CPUs :
    /\ pc[c] = "store" <=> aux_lock = c
    /\ pc[c] \in {"scan", "deque", "picked"} <=> queue_lock = c

\* What queue_empty() has seen stays true until deque(): only the holder of
\* queue_lock takes a process out.
SizeSeen == \A c \in CPUs : pc[c] \in {"deque", "store"} => size >= 1

\* Nobody is in the ring twice, in the ring and in somebody's hands, or in
\* the hands of two CPUs.
EachOnce ==
  /\ \A i \in 1..Stored : Contents[i] \in Procs
  /\ \A i, j \in 1..Stored : Contents[i] = Contents[j] => i = j
  /\ \A c \in CPUs : pc[c] \in Busy =>
       arg[c] \in Procs /\ \A i \in 1..Stored : Contents[i] # arg[c]
  /\ \A c, d \in CPUs : pc[c] \in Busy /\ pc[d] \in Busy /\ arg[c] = arg[d] => c = d

RingInv == LocksHeld /\ SizeSeen /\ EachOnce /\ NeverPanics

LEMMA StoredType ==
  ASSUME TypeOK, RingInv
  PROVE  /\ Stored \in 0..NPROC /\ Stored <= size /\ size - 1 <= Stored
         /\ Contents \in Seq(Procs) /\ Len(Contents) = Stored
         /\ DOMAIN Contents = 1..Stored
         /\ \A i \in 1..Stored : Contents[i] = elems[Slot(i - 1)]
<1>1. Stored \in 0..NPROC /\ Stored <= size /\ size - 1 <= Stored
  BY RingAssumption DEF TypeOK, RingInv, SizeSeen, Stored, Storing
<1>2. /\ DOMAIN Contents = 1..Stored
      /\ \A i \in 1..Stored : Contents[i] = elems[Slot(i - 1)]
  BY DEF Contents
<1>3. Contents \in [1..Stored -> Procs]
  BY <1>2 DEF RingInv, EachOnce, Contents
<1>4. Contents \in Seq(Procs) /\ Len(Contents) = Stored
  BY <1>1, <1>3
<1>5. QED
  BY <1>1, <1>2, <1>4

\* A process that is not in the ring finds a free slot, because the ring has
\* as many slots as there are processes.
LEMMA RoomLeft ==
  ASSUME TypeOK, RingInv, NEW p \in Procs, \A i \in 1..Stored : Contents[i] # p
  PROVE  Stored < NPROC
<1> DEFINE f == [i \in 1..(Stored + 1) |-> IF i \in 1..Stored THEN Contents[i] ELSE p]
<1>1. Stored \in Nat /\ NPROC \in Nat
  BY RingAssumption, StoredType
<1>2. f \in [1..(Stored + 1) -> Procs]
  BY DEF RingInv, EachOnce
<1>3. \A i, j \in 1..(Stored + 1) : f[i] = f[j] => i = j
  BY <1>1 DEF RingInv, EachOnce
<1>4. f \in Injection(1..(Stored + 1), Procs)
  BY <1>2, <1>3, Fun_IsInj
<1>5. Cardinality(1..(Stored + 1)) <= Cardinality(Procs)
  BY <1>4, FS_Injection, RingAssumption
<1>6. Cardinality(1..(Stored + 1)) = Stored + 1
  BY <1>1, FS_Interval
<1>7. Cardinality(Procs) \in Nat
  BY FS_CardinalityType, RingAssumption
<1>8. QED
  BY <1>1, <1>5, <1>6, <1>7, RingAssumption

-----------------------------------------------------------------------------
(* What the steps do to the ring *)

\* A step that stores and takes nothing, and lets no CPU into or out of the
\* second half of enque(), leaves the contents alone.
LEMMA SameContents ==
  ASSUME UNCHANGED <<elems, begin, size>>, Storing' <=> Storing
  PROVE  Stored' = Stored /\ Contents' = Contents
  BY DEF Stored, Contents, Slot

LEMMA ReserveEffect ==
  ASSUME TypeOK, RingInv, NEW c \in CPUs, EnqueReserve(c)
  PROVE  /\ aux_lock = NULL /\ aux_lock' = c /\ size' = size + 1
         /\ pc' = [pc EXCEPT ![c] = "store"]
         /\ Stored' = Stored /\ Contents' = Contents
<1>1. ~Storing /\ aux_lock = NULL
  BY RingAssumption DEF EnqueReserve, AuxLockFree, RingInv, LocksHeld, Storing
<1>2. size < NPROC
  <2>1. Stored < NPROC
    BY RoomLeft DEF EnqueReserve, RingInv, EachOnce, Busy
  <2>2. QED
    BY <1>1, <2>1 DEF Stored
<1>3. /\ aux_lock' = c /\ size' = size + 1 /\ UNCHANGED <<elems, begin>>
      /\ pc' = [pc EXCEPT ![c] = "store"]
  BY <1>2 DEF EnqueReserve
<1>4. Storing'
  BY <1>3 DEF Storing, TypeOK
<1>5. Stored' = Stored
  BY <1>1, <1>3, <1>4, RingAssumption DEF Stored, TypeOK
<1>6. Contents' = Contents
  BY <1>3, <1>5 DEF Contents, Slot
<1>7. QED
  BY <1>1, <1>3, <1>5, <1>6

LEMMA StoreEffect ==
  ASSUME TypeOK, RingInv, NEW c \in CPUs, EnqueStore(c)
  PROVE  Stored' = Stored + 1 /\ Contents' = Append(Contents, arg[c])
<1>1. /\ pc[c] = "store" /\ size >= 1 /\ arg[c] \in Procs /\ NPROC \in Nat
      /\ UNCHANGED <<begin, size>> /\ elems' = [elems EXCEPT ![Position] = arg[c]]
      /\ pc' = [pc EXCEPT ![c] = "idle"]
  BY RingAssumption DEF EnqueStore, RingInv, SizeSeen, EachOnce, Busy
<1>2. Storing /\ ~Storing'
  BY <1>1 DEF Storing, TypeOK, RingInv, LocksHeld
<1>3. size \in 1..NPROC /\ Stored = size - 1 /\ Stored' = size
  BY <1>1, <1>2 DEF Stored, TypeOK
<1>4. Position = Slot(Stored) /\ Position \in 0..(NPROC - 1)
  BY <1>1, <1>3, Slots DEF Position, TypeOK
<1>5. ASSUME NEW i \in 1..Stored PROVE Contents'[i] = Contents[i]
  <2>1. i - 1 \in 0..(NPROC - 1) /\ Stored \in 0..(NPROC - 1) /\ i - 1 # Stored
    BY <1>1, <1>3
  <2>2. Slot(i - 1) \in 0..(NPROC - 1) /\ Slot(i - 1) # Position
    BY <1>4, <2>1, Slots DEF TypeOK
  <2>3. Contents'[i] = elems'[Slot(i - 1)]
    BY <1>1, <1>3 DEF Contents, Slot
  <2>4. QED
    BY <1>1, <2>2, <2>3 DEF Contents, TypeOK
<1>6. Contents'[Stored + 1] = arg[c]
  <2>1. Contents'[Stored + 1] = elems'[Slot((Stored + 1) - 1)]
    BY <1>1, <1>3 DEF Contents, Slot
  <2>2. (Stored + 1) - 1 = Stored
    BY <1>3
  <2>3. QED
    BY <1>1, <1>4, <2>1, <2>2 DEF TypeOK
<1>7. Contents \in Seq(Procs) /\ Len(Contents) = Stored
  BY StoredType
<1>8. Contents' = [i \in 1..(Stored + 1) |-> Contents'[i]]
  <2>1. Stored' = Stored + 1
    BY <1>1, <1>3
  <2>2. QED
    BY <2>1 DEF Contents
<1>9. Append(Contents, arg[c]) = [i \in 1..(Stored + 1) |-> IF i = Stored + 1 THEN arg[c] ELSE Contents[i]]
  BY <1>7
<1>10. QED
  BY <1>1, <1>3, <1>5, <1>6, <1>8, <1>9

LEMMA DequeEffect ==
  ASSUME TypeOK, RingInv, NEW c \in CPUs, Deque(c)
  PROVE  /\ aux_lock = NULL /\ Stored >= 1 /\ Contents # << >>
         /\ size' = size - 1 /\ pc' = [pc EXCEPT ![c] = "picked"]
         /\ arg' = [arg EXCEPT ![c] = Contents[1]]
         /\ Stored' = Stored - 1 /\ Contents' = Tail(Contents)
<1>1. ~Storing /\ aux_lock = NULL
  BY RingAssumption DEF Deque, AuxLockFree, RingInv, LocksHeld, Storing
<1>2. size \in 1..NPROC /\ Stored = size /\ NPROC \in Nat
  BY <1>1, RingAssumption DEF Deque, RingInv, SizeSeen, Stored, TypeOK
<1>3. /\ arg' = [arg EXCEPT ![c] = elems[begin]] /\ begin' = NextBegin
      /\ size' = size - 1 /\ pc' = [pc EXCEPT ![c] = "picked"] /\ UNCHANGED elems
  BY <1>2 DEF Deque
<1>4. ~Storing' /\ Stored' = size - 1
  <2>1. ~Storing'
    BY <1>1, <1>3 DEF Storing, TypeOK
  <2>2. QED
    BY <1>3, <2>1 DEF Stored
<1>5. /\ Slot(0) = begin
      /\ \A i \in 0..(NPROC - 1) : (NextBegin + i) % NPROC = Slot(i + 1)
  <2>1. begin % NPROC = begin
    BY RingAssumption DEF TypeOK
  <2>2. begin + 0 = begin
    BY RingAssumption DEF TypeOK
  <2>3. QED
    BY <2>1, <2>2, Slots DEF TypeOK, Slot
<1>6. /\ Contents \in Seq(Procs) /\ Len(Contents) = Stored
      /\ \A i \in 1..Stored : Contents[i] = elems[Slot(i - 1)]
  BY StoredType
<1>7. Contents[1] = elems[begin] /\ Contents # << >>
  BY <1>2, <1>5, <1>6
<1>8. ASSUME NEW i \in 1..(Stored - 1) PROVE Contents'[i] = Contents[i + 1]
  <2>1. Contents'[i] = elems[(NextBegin + (i - 1)) % NPROC]
    BY <1>2, <1>3, <1>4 DEF Contents, Slot
  <2>2. i - 1 \in 0..(NPROC - 1) /\ i + 1 \in 1..Stored /\ (i - 1) + 1 = (i + 1) - 1
    BY <1>2
  <2>3. (NextBegin + (i - 1)) % NPROC = Slot((i - 1) + 1)
    BY <1>5, <2>2
  <2>4. Contents[i + 1] = elems[Slot((i + 1) - 1)]
    BY <1>6, <2>2
  <2>5. QED
    BY <2>1, <2>2, <2>3, <2>4
<1>9. Contents' = [i \in 1..(Stored - 1) |-> Contents'[i]]
  <2>1. Stored' = Stored - 1
    BY <1>2, <1>4
  <2>2. QED
    BY <2>1 DEF Contents
<1>10. Tail(Contents) = [i \in 1..(Stored - 1) |-> Contents[i + 1]]
  <2>1. ASSUME NEW s \in Seq(Procs), s # << >>
        PROVE  Tail(s) = [i \in 1..(Len(s) - 1) |-> s[i + 1]]
    <3>1. /\ Tail(s) \in [1..(Len(s) - 1) -> Procs]
          /\ \A i \in 1..(Len(s) - 1) : Tail(s)[i] = s[i + 1]
      BY <2>1, HeadTailProperties, LenProperties
    <3>2. QED
      BY <3>1
  <2>2. QED
    BY <1>6, <1>7, <2>1
<1>11. QED
  BY <1>1, <1>2, <1>3, <1>4, <1>7, <1>8, <1>9, <1>10

LEMMA RingKept ==
  ASSUME TypeOK, RingInv, [Next]_vars
  PROVE  RingInv'
<1> USE DEF RingInv, LocksHeld, SizeSeen, EachOnce, NeverPanics, Busy, TypeOK
<1>1. ASSUME NEW c \in CPUs, NEW p \in Procs, EnqueCall(c, p) PROVE RingInv'
  <2>1. Stored' = Stored /\ Contents' = Contents
    BY <1>1, SameContents DEF EnqueCall, Storing
  <2>2. \A d \in CPUs : pc[d] \in Busy => arg[d] # p
    BY <1>1 DEF EnqueCall, Absent, Moving
  <2>3. \A i \in 1..Stored : Contents[i] # p
    BY <1>1 DEF EnqueCall, Absent
  <2>4. /\ pc[c] = "idle" /\ pc' = [pc EXCEPT ![c] = "enque"] /\ arg' = [arg EXCEPT ![c] = p]
        /\ UNCHANGED <<size, aux_lock, queue_lock>>
    BY <1>1 DEF EnqueCall
  <2>5. EachOnce'
    BY <2>1, <2>2, <2>3, <2>4
  <2>6. (LocksHeld /\ SizeSeen /\ NeverPanics)'
    BY <2>4
  <2>7. QED
    BY <2>5, <2>6
<1>2. ASSUME NEW c \in CPUs, EnqueReserve(c) PROVE RingInv'
  <2>1. /\ aux_lock = NULL /\ aux_lock' = c /\ size' = size + 1
        /\ pc' = [pc EXCEPT ![c] = "store"] /\ pc[c] = "enque"
        /\ Stored' = Stored /\ Contents' = Contents /\ UNCHANGED <<queue_lock, arg>>
    BY <1>2, ReserveEffect DEF EnqueReserve
  <2>2. EachOnce'
    BY <2>1
  <2>3. (LocksHeld /\ SizeSeen /\ NeverPanics)'
    BY <2>1, RingAssumption
  <2>4. QED
    BY <2>2, <2>3
<1>3. ASSUME NEW c \in CPUs, EnqueStore(c) PROVE RingInv'
  <2>1. /\ pc' = [pc EXCEPT ![c] = "idle"] /\ pc[c] = "store" /\ arg[c] \in Procs
        /\ aux_lock' = NULL /\ UNCHANGED <<size, queue_lock, arg>>
    BY <1>3 DEF EnqueStore
  <2>2. Stored' = Stored + 1 /\ Contents' = Append(Contents, arg[c])
    BY <1>3, StoreEffect
  <2>3. /\ Contents \in Seq(Procs) /\ Len(Contents) = Stored /\ Stored \in Nat
        /\ \A i \in 1..Stored : Contents[i] # arg[c]
    BY <2>1, StoredType, RingAssumption
  <2>4. /\ \A i \in 1..Stored : Contents'[i] = Contents[i]
        /\ Contents'[Stored + 1] = arg[c]
    <3>1. \A s \in Seq(Procs), e \in Procs :
             /\ Append(s, e)[Len(s) + 1] = e
             /\ \A i \in 1..Len(s) : Append(s, e)[i] = s[i]
      BY AppendProperties
    <3> HIDE DEF RingInv, LocksHeld, SizeSeen, EachOnce, NeverPanics, Busy, TypeOK
    <3>2. QED
      BY <2>1, <2>2, <2>3, <3>1
  <2>5. EachOnce'
    <3>1. \A i \in 1..Stored' : Contents'[i] \in Procs
      BY <2>1, <2>2, <2>3, <2>4
    <3>2. \A i, j \in 1..Stored' : Contents'[i] = Contents'[j] => i = j
      BY <2>1, <2>2, <2>3, <2>4
    <3>3. \A d \in CPUs : pc'[d] \in Busy => arg'[d] # arg[c] /\ pc[d] \in Busy
      BY <2>1
    <3>4. \A d \in CPUs : pc'[d] \in Busy =>
             arg'[d] \in Procs /\ \A i \in 1..Stored' : Contents'[i] # arg'[d]
      <4>1. SUFFICES ASSUME NEW d \in CPUs, pc'[d] \in Busy
                     PROVE  arg'[d] \in Procs /\ \A i \in 1..Stored' : Contents'[i] # arg'[d]
        OBVIOUS
      <4>2. arg'[d] = arg[d] /\ arg[d] # arg[c] /\ pc[d] \in Busy
        BY <2>1, <3>3, <4>1
      <4>3. arg[d] \in Procs /\ \A i \in 1..Stored : Contents[i] # arg[d]
        BY <4>2
      <4> HIDE DEF RingInv, LocksHeld, SizeSeen, EachOnce, NeverPanics, Busy, TypeOK
      <4>4. QED
        BY <2>2, <2>3, <2>4, <4>2, <4>3
    <3>5. QED
      BY <2>1, <3>1, <3>2, <3>3, <3>4
  <2>6. (LocksHeld /\ SizeSeen /\ NeverPanics)'
    BY <2>1, RingAssumption
  <2>7. QED
    BY <2>5, <2>6
<1>4. ASSUME NEW c \in CPUs, ScanBegin(c) PROVE RingInv'
  <2>1. /\ pc' = [pc EXCEPT ![c] = "scan"] /\ pc[c] = "idle" /\ queue_lock = NULL
        /\ queue_lock' = c /\ UNCHANGED <<elems, begin, size, aux_lock, arg>>
    BY <1>4 DEF ScanBegin, QueueLockFree
  <2>2. Stored' = Stored /\ Contents' = Contents
    BY <2>1, SameContents DEF Storing
  <2>3. QED
    BY <2>1, <2>2, RingAssumption
<1>5. ASSUME NEW c \in CPUs, QueueEmpty(c) PROVE RingInv'
  <2>1. /\ UNCHANGED <<elems, begin, size, aux_lock, arg>> /\ pc[c] = "scan"
        /\ \/ queue_lock' = NULL /\ pc' = [pc EXCEPT ![c] = "idle"]
           \/ size # 0 /\ pc' = [pc EXCEPT ![c] = "deque"] /\ UNCHANGED queue_lock
    BY <1>5 DEF QueueEmpty
  <2>2. Stored' = Stored /\ Contents' = Contents
    BY <2>1, SameContents DEF Storing
  <2>3. EachOnce'
    BY <2>1, <2>2
  <2>4. (LocksHeld /\ SizeSeen /\ NeverPanics)'
    BY <2>1, RingAssumption
  <2>5. QED
    BY <2>3, <2>4
<1>6. ASSUME NEW c \in CPUs, Deque(c) PROVE RingInv'
  <2>1. /\ aux_lock = NULL /\ Stored >= 1 /\ Contents # << >>
        /\ size' = size - 1 /\ pc' = [pc EXCEPT ![c] = "picked"] /\ pc[c] = "deque"
        /\ arg' = [arg EXCEPT ![c] = Contents[1]]
        /\ Stored' = Stored - 1 /\ Contents' = Tail(Contents)
        /\ UNCHANGED <<aux_lock, queue_lock>>
    BY <1>6, DequeEffect DEF Deque
  <2>2. Contents \in Seq(Procs) /\ Len(Contents) = Stored /\ Stored \in Nat
    BY StoredType, RingAssumption
  <2>3. \A i \in 1..Stored' : Contents'[i] = Contents[i + 1]
    BY <2>1, <2>2, HeadTailProperties
  <2>4. EachOnce'
    <3>1. \A i \in 1..Stored' : i + 1 \in 1..Stored /\ i + 1 # 1
      BY <2>1, <2>2
    <3>2. 1 \in 1..Stored
      BY <2>1, <2>2
    <3>3. \A i, j \in 1..Stored' : Contents'[i] = Contents'[j] => i = j
      BY <2>1, <2>2, <2>3, <3>1
    <3>4. \A d \in CPUs : pc'[d] \in Busy =>
             arg'[d] \in Procs /\ \A i \in 1..Stored' : Contents'[i] # arg'[d]
      <4>1. \A d \in CPUs \ {c} : pc'[d] \in Busy => pc[d] \in Busy /\ arg'[d] = arg[d]
        BY <2>1
      <4>2. arg'[c] = Contents[1] /\ arg'[c] \in Procs
        BY <2>1, <3>2
      <4>3. \A i \in 1..Stored' : Contents'[i] # Contents[1]
        BY <2>3, <3>1, <3>2
      <4>4. \A d \in CPUs \ {c} : pc'[d] \in Busy =>
               arg'[d] \in Procs /\ \A i \in 1..Stored' : Contents'[i] # arg'[d]
        BY <2>3, <3>1, <4>1
      <4>5. QED
        BY <4>2, <4>3, <4>4
    <3>5. \A d, e \in CPUs : pc'[d] \in Busy /\ pc'[e] \in Busy /\ arg'[d] = arg'[e] => d = e
      BY <2>1, <3>2
    <3>6. \A i \in 1..Stored' : Contents'[i] \in Procs
      BY <2>3, <3>1
    <3>7. QED
      BY <3>3, <3>4, <3>5, <3>6
  <2>5. (LocksHeld /\ SizeSeen /\ NeverPanics)'
    BY <2>1, RingAssumption
  <2>6. QED
    BY <2>4, <2>5
<1>7. ASSUME NEW c \in CPUs, ScanEnd(c) PROVE RingInv'
  <2>1. /\ UNCHANGED <<elems, begin, size, aux_lock, arg>> /\ pc[c] = "picked"
        /\ queue_lock' = NULL /\ pc' = [pc EXCEPT ![c] = "idle"]
    BY <1>7 DEF ScanEnd
  <2>2. Stored' = Stored /\ Contents' = Contents
    BY <2>1, SameContents DEF Storing
  <2>3. EachOnce'
    BY <2>1, <2>2
  <2>4. (LocksHeld /\ SizeSeen /\ NeverPanics)'
    BY <2>1, RingAssumption
  <2>5. QED
    BY <2>3, <2>4
<1>8. CASE UNCHANGED vars
  <2>1. Stored' = Stored /\ Contents' = Contents
    BY <1>8, SameContents DEF vars, Storing
  <2>2. QED
    BY <1>8, <2>1 DEF vars
<1>9. QED
  BY <1>1, <1>2, <1>3, <1>4, <1>5, <1>6, <1>7, <1>8 DEF Next

LEMMA EmptyAtFirst ==
  ASSUME Init
  PROVE  Stored = 0 /\ Contents = << >>
<1>1. Stored = 0
  BY DEF Init, Stored, Storing
<1>2. QED
  BY <1>1 DEF Contents

\* queue.c keeps its ring: each queued process is stored once, and what
\* queue_empty() has seen holds until deque().
THEOREM RingCorrect == Spec => []RingInv
<1>1. Init => RingInv
  BY EmptyAtFirst, RingAssumption
     DEF Init, RingInv, LocksHeld, SizeSeen, EachOnce, NeverPanics, Busy
<1>2. TypeOK /\ RingInv /\ [Next]_vars => RingInv'
  BY RingKept
<1>3. QED
  BY <1>1, <1>2, TypeCorrect, PTL DEF Spec

\* Neither panic() of queue.c is reached, for every capacity that has a slot
\* for each process and every number of CPUs.
THEOREM QueueNeverPanics == Spec => []NeverPanics
<1>1. RingInv => NeverPanics
  BY DEF RingInv
<1>2. QED
  BY <1>1, RingCorrect, PTL

\* The ring implements the first-in first-out queue: every step of it puts
\* the process at the tail, takes the one at the head, or changes nothing
\* that a caller can see.
THEOREM RingIsFifo == Spec => ImplementsFifo
<1>1. Init => Abstract!InitFifo
  BY EmptyAtFirst DEF Abstract!InitFifo
<1>2. TypeOK /\ RingInv /\ [Next]_vars => [Abstract!NextFifo]_Contents
  <2> SUFFICES ASSUME TypeOK, RingInv, [Next]_vars PROVE [Abstract!NextFifo]_Contents
    OBVIOUS
  <2>1. ASSUME NEW c \in CPUs, EnqueStore(c) PROVE Abstract!NextFifo
    <3>1. Contents' = Append(Contents, arg[c])
      BY <2>1, StoreEffect
    <3>2. arg[c] \in Procs /\ \A i \in 1..Len(Contents) : Contents[i] # arg[c]
      BY <2>1, StoredType DEF EnqueStore, RingInv, EachOnce, Busy
    <3>3. QED
      BY <3>1, <3>2 DEF Abstract!NextFifo, Abstract!Put
  <2>2. ASSUME NEW c \in CPUs, Deque(c) PROVE Abstract!NextFifo
    BY <2>2, DequeEffect DEF Abstract!NextFifo, Abstract!Take
  <2>3. ASSUME NEW c \in CPUs, EnqueReserve(c) PROVE Contents' = Contents
    BY <2>3, ReserveEffect
  <2>4. ASSUME NEW c \in CPUs, NEW p \in Procs, EnqueCall(c, p) PROVE Contents' = Contents
    BY <2>4, SameContents DEF EnqueCall, Storing, TypeOK
  <2>5. ASSUME NEW c \in CPUs, ScanBegin(c) \/ QueueEmpty(c) \/ ScanEnd(c)
        PROVE  Contents' = Contents
    BY <2>5, SameContents DEF ScanBegin, QueueEmpty, ScanEnd, Storing, TypeOK
  <2>6. CASE UNCHANGED vars
    BY <2>6, SameContents DEF vars, Storing
  <2>7. QED
    BY <2>1, <2>2, <2>3, <2>4, <2>5, <2>6 DEF Next
<1>3. QED
  BY <1>1, <1>2, TypeCorrect, RingCorrect, PTL DEF Spec, ImplementsFifo, Abstract!FifoSpec

-----------------------------------------------------------------------------
(* The scheduler before the MLFQ *)

RoundStates == {"UNUSED", "RUNNABLE", "RUNNING", "SLEEPING", "ZOMBIE"}

RoundTypes ==
  /\ rstate \in [R!Entries -> RoundStates]
  /\ entry \in [Cores -> R!Entries]
  /\ runs \in [Cores -> R!Entries \cup {R!Nobody}]
  /\ turns \in [R!Entries -> [R!Entries -> Nat]]

\* A process is on one CPU at most, and then it is RUNNING.
OnOneCpu ==
  /\ \A c \in Cores : runs[c] # R!Nobody => rstate[runs[c]] = "RUNNING"
  /\ \A c, d \in Cores : runs[c] # R!Nobody /\ runs[c] = runs[d] => c = d

\* Only who waits is passed over.
CountsWaiting == \A p \in R!Entries : rstate[p] # "RUNNABLE" => turns[p] = R!NoTurns

\* Where a CPU looks next, how far an entry is from there, and the CPUs that
\* find q before they find p.
Following(x) == IF x = TableSize - 1 THEN 0 ELSE x + 1
Place(c) == IF runs[c] = R!Nobody THEN entry[c] ELSE Following(entry[c])
Distance(x, y) == IF x <= y THEN y - x ELSE (y - x) + TableSize
Before(q, p) == {c \in Cores : Distance(Place(c), q) < Distance(Place(c), p)}

\* Each CPU that has run q ahead of p is behind q now, and finds p first.
PassedOver ==
  \A p, q \in R!Entries :
    rstate[p] = "RUNNABLE" => turns[p][q] + Cardinality(Before(q, p)) <= Cardinality(Cores)

RoundInv == RoundTypes /\ OnOneCpu /\ CountsWaiting /\ PassedOver

-----------------------------------------------------------------------------
(* The round *)

LEMMA Counts ==
  ASSUME R!RoundRobinAssumption, NEW S \in SUBSET Cores
  PROVE  /\ IsFiniteSet(S) /\ Cardinality(S) \in Nat /\ Cardinality(Cores) \in Nat
         /\ Cardinality(S) <= Cardinality(Cores)
         /\ \A U \in SUBSET S : Cardinality(U) <= Cardinality(S)
         /\ \A c \in S : Cardinality(S \ {c}) = Cardinality(S) - 1
<1>1. IsFiniteSet(Cores)
  BY DEF R!RoundRobinAssumption, R!IsFiniteSet, IsFiniteSet
<1>2. IsFiniteSet(S) /\ Cardinality(S) <= Cardinality(Cores)
  BY <1>1, FS_Subset
<1>3. Cardinality(S) \in Nat /\ Cardinality(Cores) \in Nat
  BY <1>1, <1>2, FS_CardinalityType
<1>4. \A U \in SUBSET S : Cardinality(U) <= Cardinality(S)
  BY <1>2, FS_Subset
<1>5. \A c \in S : Cardinality(S \ {c}) = Cardinality(S) - 1
  BY <1>2, FS_RemoveElement
<1>6. QED
  BY <1>2, <1>3, <1>4, <1>5

LEMMA NextEntry ==
  ASSUME R!RoundRobinAssumption, NEW c \in Cores, entry[c] \in R!Entries
  PROVE  R!After(c) = Following(entry[c]) /\ R!After(c) \in R!Entries
<1>1. TableSize \in Nat /\ TableSize > 0 /\ entry[c] \in Nat /\ entry[c] <= TableSize - 1
  BY DEF R!RoundRobinAssumption, R!Entries
<1>2. (entry[c] + 1) % TableSize = Following(entry[c])
  BY <1>1 DEF Following
<1>3. Following(entry[c]) \in 0..(TableSize - 1)
  BY <1>1 DEF Following
<1>4. QED
  BY <1>2, <1>3 DEF R!After, R!Entries

\* A step past an entry that is not p brings no q before p, and a step past
\* q puts q behind.
LEMMA PastAnother ==
  ASSUME R!RoundRobinAssumption, NEW x \in R!Entries, NEW p \in R!Entries, NEW q \in R!Entries, x # p
  PROVE  /\ Distance(Following(x), q) < Distance(Following(x), p) => Distance(x, q) < Distance(x, p)
         /\ Distance(x, x) < Distance(x, p)
         /\ ~(Distance(Following(x), x) < Distance(Following(x), p))
<1>1. /\ TableSize \in Nat /\ TableSize > 0
      /\ x \in Nat /\ x <= TableSize - 1 /\ p \in Nat /\ p <= TableSize - 1 /\ q \in Nat /\ q <= TableSize - 1
  BY DEF R!RoundRobinAssumption, R!Entries
<1>2. QED
  BY <1>1 DEF Distance, Following

LEMMA RoundStarts == ASSUME R!RoundRobinAssumption, R!Init PROVE RoundInv
<1>1. 0 \in R!Entries /\ R!Nobody \notin R!Entries /\ TableSize \in Nat
  BY DEF R!RoundRobinAssumption, R!Entries, R!Nobody
<1>2. RoundTypes /\ OnOneCpu /\ CountsWaiting
  BY <1>1 DEF R!Init, RoundTypes, OnOneCpu, CountsWaiting, RoundStates, R!NoTurns
<1>3. ASSUME NEW p \in R!Entries, NEW q \in R!Entries
      PROVE  turns[p][q] + Cardinality(Before(q, p)) <= Cardinality(Cores)
  <2>1. turns[p][q] = 0
    BY DEF R!Init, R!NoTurns
  <2>2. Before(q, p) \in SUBSET Cores
    BY DEF Before
  <2>3. QED
    BY <2>1, <2>2, Counts
<1>4. QED
  BY <1>2, <1>3 DEF RoundInv, PassedOver

-----------------------------------------------------------------------------
(* The steps *)

\* A step keeps PassedOver when it counts nobody and no CPU comes to find
\* another process before one that waits.
LEMMA NobodyPasses ==
  ASSUME R!RoundRobinAssumption, RoundInv, NEW p \in R!Entries, NEW q \in R!Entries,
         turns'[p][q] = 0 \/ (turns'[p][q] = turns[p][q] /\ rstate[p] = "RUNNABLE"),
         turns'[p][q] = 0 \/ \A c \in Cores : c \in Before(q, p)' => c \in Before(q, p)
  PROVE  turns'[p][q] + Cardinality(Before(q, p)') <= Cardinality(Cores)
<1>1. Before(q, p)' \in SUBSET Cores /\ Before(q, p) \in SUBSET Cores
  BY DEF Before
<1>2. CASE turns'[p][q] = 0
  BY <1>1, <1>2, Counts
<1>3. CASE turns'[p][q] # 0
  <2>1. turns[p][q] + Cardinality(Before(q, p)) <= Cardinality(Cores)
    BY <1>3 DEF RoundInv, PassedOver
  <2>2. Before(q, p)' \in SUBSET Before(q, p)
    BY <1>1, <1>3
  <2>3. Cardinality(Before(q, p)') <= Cardinality(Before(q, p))
    BY <1>1, <2>2, Counts
  <2>4. turns[p][q] \in Nat
    BY DEF RoundInv, RoundTypes
  <2>5. /\ Cardinality(Before(q, p)') \in Nat /\ Cardinality(Before(q, p)) \in Nat
        /\ Cardinality(Cores) \in Nat
    BY <1>1, Counts
  <2>6. QED
    BY <1>3, <2>1, <2>3, <2>4, <2>5
<1>4. QED
  BY <1>2, <1>3

\* The CPU goes on to the next entry, behind one that cannot run.
LEMMA PassKeeps == ASSUME R!RoundRobinAssumption, RoundInv, NEW c \in Cores, R!Pass(c) PROVE RoundInv'
<1>1. /\ runs[c] = R!Nobody /\ rstate[entry[c]] # "RUNNABLE" /\ entry[c] \in R!Entries
      /\ entry' = [entry EXCEPT ![c] = Following(entry[c])] /\ Following(entry[c]) \in R!Entries
      /\ UNCHANGED <<rstate, runs, turns>>
  BY NextEntry DEF R!Pass, RoundInv, RoundTypes
<1>2. RoundTypes' /\ OnOneCpu' /\ CountsWaiting'
  BY <1>1 DEF RoundInv, RoundTypes, OnOneCpu, CountsWaiting
<1>3. \A d \in Cores : Place(d)' = IF d = c THEN Following(Place(c)) ELSE Place(d)
  BY <1>1 DEF Place, RoundInv, RoundTypes
<1>4. ASSUME NEW p \in R!Entries, NEW q \in R!Entries, rstate[p] = "RUNNABLE"
      PROVE  turns'[p][q] + Cardinality(Before(q, p)') <= Cardinality(Cores)
  <2>1. Place(c) = entry[c] /\ entry[c] # p
    BY <1>1, <1>4 DEF Place
  <2>2. Distance(Following(Place(c)), q) < Distance(Following(Place(c)), p)
          => Distance(Place(c), q) < Distance(Place(c), p)
    BY <1>1, <2>1, PastAnother
  <2>3. \A d \in Cores : d \in Before(q, p)' => d \in Before(q, p)
    BY <1>3, <2>2 DEF Before, Distance
  <2>4. QED
    BY <1>1, <1>4, <2>3, NobodyPasses
<1>5. PassedOver'
  BY <1>1, <1>4 DEF PassedOver
<1>6. QED
  BY <1>2, <1>5 DEF RoundInv

\* It runs the process that it finds: one turn more for those who wait, and
\* the CPU is behind that process.
LEMMA RunKeeps == ASSUME R!RoundRobinAssumption, RoundInv, NEW c \in Cores, R!Run(c) PROVE RoundInv'
<1> DEFINE r == entry[c]
<1>1. /\ runs[c] = R!Nobody /\ r \in R!Entries /\ rstate[r] = "RUNNABLE" /\ r # R!Nobody
      /\ rstate' = [rstate EXCEPT ![r] = "RUNNING"] /\ runs' = [runs EXCEPT ![c] = r]
      /\ turns' = R!Counted(r) /\ entry' = entry
  BY DEF R!Run, RoundInv, RoundTypes, R!Entries, R!Nobody, R!RoundRobinAssumption
<1>2. \A p, q \in R!Entries :
        /\ turns'[p] \in [R!Entries -> Nat]
        /\ p = r => turns'[p] = R!NoTurns
        /\ p # r /\ rstate[p] = "RUNNABLE" => turns'[p][q] = IF q = r THEN turns[p][q] + 1 ELSE turns[p][q]
        /\ p # r /\ rstate[p] # "RUNNABLE" => turns'[p] = turns[p]
  BY <1>1 DEF R!Counted, RoundInv, RoundTypes, R!NoTurns
<1>3. turns' \in [R!Entries -> [R!Entries -> Nat]]
  BY <1>1, <1>2 DEF R!Counted
<1> HIDE DEF r
<1>4. RoundTypes'
  BY <1>1, <1>3 DEF RoundInv, RoundTypes, RoundStates
<1>5. OnOneCpu'
  BY <1>1 DEF RoundInv, RoundTypes, OnOneCpu
<1>6. CountsWaiting'
  BY <1>1, <1>2 DEF RoundInv, RoundTypes, CountsWaiting
<1>7. \A d \in Cores : Place(d)' = IF d = c THEN Following(r) ELSE Place(d)
  BY <1>1 DEF Place, RoundInv, RoundTypes, r
<1>8. Place(c) = r
  BY <1>1 DEF Place, r
<1>9. ASSUME NEW p \in R!Entries, NEW q \in R!Entries, rstate[p] = "RUNNABLE", p # r
      PROVE  turns'[p][q] + Cardinality(Before(q, p)') <= Cardinality(Cores)
  <2>1. /\ Distance(Following(r), q) < Distance(Following(r), p) => Distance(r, q) < Distance(r, p)
        /\ Distance(r, r) < Distance(r, p)
        /\ ~(Distance(Following(r), r) < Distance(Following(r), p))
    BY <1>1, <1>9, PastAnother
  <2>2. CASE q # r
    <3>1. \A d \in Cores : d \in Before(q, p)' => d \in Before(q, p)
      BY <1>7, <1>8, <2>1 DEF Before, Distance
    <3>2. turns'[p][q] = turns[p][q]
      BY <1>2, <1>9, <2>2
    <3>3. QED
      BY <1>9, <3>1, <3>2, NobodyPasses
  <2>3. CASE q = r
    <3>1. Before(q, p)' = Before(q, p) \ {c} /\ c \in Before(q, p) /\ Before(q, p) \in SUBSET Cores
      BY <1>7, <1>8, <2>1, <2>3 DEF Before, Distance
    <3>2. turns'[p][q] = turns[p][q] + 1
      BY <1>2, <1>9, <2>3
    <3>3. turns[p][q] + Cardinality(Before(q, p)) <= Cardinality(Cores) /\ turns[p][q] \in Nat
      BY <1>9 DEF RoundInv, PassedOver, RoundTypes
    <3>4. /\ Cardinality(Before(q, p)) \in Nat /\ Cardinality(Cores) \in Nat
          /\ Cardinality(Before(q, p)') = Cardinality(Before(q, p)) - 1
      BY <3>1, Counts
    <3>5. QED
      BY <3>2, <3>3, <3>4
  <2>4. QED
    BY <2>2, <2>3
<1>10. \A p \in R!Entries : rstate'[p] = "RUNNABLE" => rstate[p] = "RUNNABLE" /\ p # r
  BY <1>1 DEF RoundInv, RoundTypes
<1>11. PassedOver'
  BY <1>9, <1>10 DEF PassedOver
<1>12. QED
  BY <1>4, <1>5, <1>6, <1>11 DEF RoundInv

\* The process gives up the CPU, which goes on behind it.
LEMMA LeaveKeeps ==
  ASSUME R!RoundRobinAssumption, RoundInv, NEW c \in Cores, NEW s \in RoundStates \ {"RUNNING"}, R!Leave(c, s)
  PROVE  RoundInv'
<1> DEFINE r == runs[c]
<1>1. /\ r \in R!Entries /\ r # R!Nobody /\ rstate[r] = "RUNNING" /\ turns[r] = R!NoTurns
      /\ \A d \in Cores : d # c => runs[d] # r
      /\ rstate' = [rstate EXCEPT ![r] = s] /\ runs' = [runs EXCEPT ![c] = R!Nobody]
      /\ entry[c] \in R!Entries /\ Following(entry[c]) \in R!Entries
      /\ entry' = [entry EXCEPT ![c] = Following(entry[c])] /\ turns' = turns
  BY NextEntry DEF R!Leave, RoundInv, RoundTypes, OnOneCpu, CountsWaiting
<1>2. Place(c) = Following(entry[c])
  BY <1>1 DEF Place
<1> HIDE DEF r
<1>3. RoundTypes' /\ OnOneCpu'
  BY <1>1 DEF RoundInv, RoundTypes, OnOneCpu
<1>4. CountsWaiting'
  BY <1>1 DEF RoundInv, RoundTypes, CountsWaiting
<1>5. \A d \in Cores : Place(d)' = Place(d)
  BY <1>1, <1>2 DEF Place, RoundInv, RoundTypes
<1>6. ASSUME NEW p \in R!Entries, NEW q \in R!Entries, rstate'[p] = "RUNNABLE"
      PROVE  turns'[p][q] + Cardinality(Before(q, p)') <= Cardinality(Cores)
  <2>1. \A d \in Cores : d \in Before(q, p)' => d \in Before(q, p)
    BY <1>5 DEF Before, Distance
  <2>2. p = r \/ rstate[p] = "RUNNABLE"
    BY <1>1, <1>6 DEF RoundInv, RoundTypes
  <2>3. turns'[p][q] = turns[p][q] /\ (p = r => turns'[p][q] = 0)
    BY <1>1 DEF R!NoTurns
  <2>4. QED
    BY <2>1, <2>2, <2>3, NobodyPasses
<1>7. QED
  BY <1>3, <1>4, <1>6 DEF RoundInv, PassedOver

\* Who begins to wait has not been passed over.
LEMMA ChangeKeeps ==
  ASSUME R!RoundRobinAssumption, RoundInv, NEW r \in R!Entries,
         NEW from \in RoundStates \ {"RUNNING", "RUNNABLE"}, NEW to \in RoundStates \ {"RUNNING"},
         R!Change(r, from, to)
  PROVE  RoundInv'
<1>1. /\ rstate[r] = from /\ rstate' = [rstate EXCEPT ![r] = to] /\ turns[r] = R!NoTurns
      /\ UNCHANGED <<entry, runs, turns>>
  BY DEF R!Change, RoundInv, CountsWaiting
<1>2. RoundTypes' /\ OnOneCpu' /\ CountsWaiting'
  BY <1>1 DEF RoundInv, RoundTypes, OnOneCpu, CountsWaiting
<1>3. \A d \in Cores : Place(d)' = Place(d)
  BY <1>1 DEF Place
<1>4. ASSUME NEW p \in R!Entries, NEW q \in R!Entries, rstate'[p] = "RUNNABLE"
      PROVE  turns'[p][q] + Cardinality(Before(q, p)') <= Cardinality(Cores)
  <2>1. \A d \in Cores : d \in Before(q, p)' => d \in Before(q, p)
    BY <1>3 DEF Before, Distance
  <2>2. p = r \/ rstate[p] = "RUNNABLE"
    BY <1>1, <1>4 DEF RoundInv, RoundTypes
  <2>3. turns'[p][q] = turns[p][q] /\ (p = r => turns'[p][q] = 0)
    BY <1>1 DEF R!NoTurns
  <2>4. QED
    BY <2>1, <2>2, <2>3, NobodyPasses
<1>5. QED
  BY <1>2, <1>4 DEF RoundInv, PassedOver

LEMMA RoundStep == ASSUME R!RoundRobinAssumption, RoundInv, [R!Next]_(R!vars) PROVE RoundInv'
<1>1. CASE UNCHANGED (R!vars)
  BY <1>1 DEF R!vars, RoundInv, RoundTypes, OnOneCpu, CountsWaiting, PassedOver, Before, Place
<1>2. ASSUME NEW c \in Cores, R!Pass(c) \/ R!Run(c) \/ R!Yield(c) \/ R!Sleep(c) \/ R!Exit(c)
      PROVE  RoundInv'
  BY <1>2, PassKeeps, RunKeeps, LeaveKeeps DEF R!Yield, R!Sleep, R!Exit, RoundStates
<1>3. ASSUME NEW c \in Cores, NEW q \in R!Entries, R!Fork(c, q) \/ R!Wait(c, q)
      PROVE  RoundInv'
  BY <1>3, ChangeKeeps DEF R!Fork, R!Wait, RoundStates
<1>4. ASSUME NEW q \in R!Entries, R!Wakeup(q)
      PROVE  RoundInv'
  BY <1>4, ChangeKeeps DEF R!Wakeup, RoundStates
<1>5. QED
  BY <1>1, <1>2, <1>3, <1>4 DEF R!Next

\* The inductive invariant: a process is on one CPU at most, only who waits
\* is passed over, and the turns that q had ahead of p, together with the
\* CPUs that find q before p, are no more than the CPUs.
THEOREM RoundCorrect == ASSUME R!RoundRobinAssumption PROVE R!Spec => []RoundInv
<1>1. R!Init => RoundInv
  BY RoundStarts
<1>2. RoundInv /\ [R!Next]_(R!vars) => RoundInv'
  BY RoundStep
<1>3. QED
  BY <1>1, <1>2, PTL DEF R!Spec

\* A process that can run is passed over by any other at most once for each
\* CPU, for every number of CPUs and entries of the table.
THEOREM EverybodyHasTurns == KernelSpec => []TakesTurns
<1> USE KernelAssumption
<1>1. RoundInv => R!TakesTurns
  <2>1. SUFFICES ASSUME RoundInv, NEW p \in R!Entries, NEW q \in R!Entries
                 PROVE  turns[p][q] <= Cardinality(Cores)
    BY DEF R!TakesTurns, R!Cardinality, Cardinality
  <2>2. Before(q, p) \in SUBSET Cores /\ turns[p][q] \in Nat
    BY <2>1 DEF Before, RoundInv, RoundTypes
  <2>3. Cardinality(Before(q, p)) \in Nat /\ Cardinality(Cores) \in Nat
    BY <2>1, <2>2, Counts
  <2>4. CASE rstate[p] = "RUNNABLE"
    BY <2>1, <2>2, <2>3, <2>4 DEF RoundInv, PassedOver
  <2>5. CASE rstate[p] # "RUNNABLE"
    BY <2>1, <2>3, <2>5 DEF RoundInv, CountsWaiting, R!NoTurns
  <2>6. QED
    BY <2>4, <2>5
<1>2. RoundInv => TakesTurns
  BY <1>1 DEF TakesTurns
<1>3. KernelInit => R!Init
  BY DEF KernelInit
<1>4. [KernelNext]_kernelvars => [R!Next]_(R!vars)
  BY DEF KernelNext, kernelvars, Others, turnvars, R!vars
<1>5. R!Spec => []RoundInv
  BY KernelAssumption, RoundCorrect
<1>6. QED
  BY <1>2, <1>3, <1>4, <1>5, PTL DEF KernelSpec, R!Spec

-----------------------------------------------------------------------------
(* The start of the kernel *)

\* A CPU between the acquire() of aux_lock and the end of its release().
Critical(c) == B!Inside(c, "aux_lock") \/ at[c] = <<"queue", "body">>

\* Where a CPU is inside a call of queue.c.
InCall == {<<"queue", s>> : s \in {"test_inited", "init_aux", "body"}}
            \cup {<<"aux_lock", s>> : s \in B!Phases}

\* As long as CPU 0 has not set started, the others wait; it has started
\* them with its own enque() done, and inited set.
OthersWait == ~started => \A c \in Harts : c # BOOT => at[c] = <<"main", "wait">>
BootFirst ==
  /\ started => inited
  /\ ~inited => at[BOOT] \in {<<"main", "boot">>, <<"queue", "test_inited">>, <<"queue", "init_aux">>}
  /\ at[BOOT] = <<"main", "boot">> => ~inited /\ total = 0
  /\ \A c \in Harts :
       /\ at[c] \in {<<"main", "boot">>, <<"main", "start">>} => c = BOOT /\ ~started /\ op[c] = "none"
       /\ at[c] = <<"queue", "init_aux">> => ~inited
       /\ op[c] = "userinit" => c = BOOT /\ ~started
       /\ at[c] \in InCall => op[c] # "none"

AuxLocked ==
  /\ \A c \in Harts : Critical(c) => locked["aux_lock"]
  /\ \A c, d \in Harts : Critical(c) /\ Critical(d) => c = d

BootInv == B!TypeOK /\ OthersWait /\ BootFirst /\ AuxLocked

LEMMA BootStarts == B!Init => BootInv
<1> USE KernelAssumption DEF B!BootAssumption, B!Init
<1>1. ASSUME B!Init PROVE B!TypeOK
  <2> USE DEF B!TypeOK, B!Steps, B!Callers, B!Locks
  <2>1. at \in [Harts -> B!Steps]
    BY <1>1
  <2>2. locked \in [B!Locks -> BOOLEAN] /\ holder \in [B!Locks -> Harts \cup {NULL}]
    BY <1>1
  <2>3. /\ 0 \in 0..BootProcs
        /\ op \in [Harts -> B!Callers]
    BY <1>1
  <2>4. QED
    BY <1>1, <2>1, <2>2, <2>3
<1>2. ASSUME B!Init PROVE OthersWait /\ BootFirst
  BY <1>2 DEF OthersWait, BootFirst, InCall, B!Phases
<1>3. ASSUME B!Init PROVE AuxLocked
  BY <1>3 DEF AuxLocked, Critical, B!Inside
<1>4. QED
  BY <1>1, <1>2, <1>3 DEF BootInv

LEMMA BootStep == BootInv /\ [B!Next]_(B!vars) => BootInv'
<1> SUFFICES ASSUME BootInv, [B!Next]_(B!vars) PROVE BootInv'
  OBVIOUS
<1> USE KernelAssumption
    DEF BootInv, B!BootAssumption, B!TypeOK, B!Steps, B!Callers, B!Locks, B!Phases, OthersWait,
        BootFirst, InCall, AuxLocked, Critical, B!Inside, B!Goto
<1>0. B!TypeOK
  OBVIOUS
<1>1. ASSUME NEW c \in Harts, NEW l \in B!Locks, B!Acquire(c, l) PROVE BootInv'
  <2>1. B!TypeOK'
    <3>1. at' \in [Harts -> B!Steps] /\ op' \in [Harts -> B!Callers]
      BY <1>1 DEF B!Acquire
    <3>2. locked' \in [B!Locks -> BOOLEAN] /\ holder' \in [B!Locks -> Harts \cup {NULL}]
      <4> HIDE DEF BootInv
      <4>1. locked' \in [B!Locks -> BOOLEAN]
        <5>1. locked' = locked \/ locked' = [locked EXCEPT ![l] = TRUE]
          BY <1>1 DEF B!Acquire
        <5>2. locked \in [B!Locks -> BOOLEAN]
          BY <1>0
        <5> HIDE DEF B!TypeOK
        <5>3. QED
          BY <5>1, <5>2
      <4>2. holder' \in [B!Locks -> Harts \cup {NULL}]
        BY <1>0, <1>1 DEF B!Acquire
      <4>3. QED
        BY <4>1, <4>2
    <3>3. total' \in 0..BootProcs
      BY <1>1 DEF B!Acquire
    <3>4. inited' \in BOOLEAN /\ started' \in BOOLEAN /\ queued' \in 0..BootProcs
      BY <1>1 DEF B!Acquire
    <3>5. QED
      BY <3>1, <3>2, <3>3, <3>4
  <2>2. OthersWait'
    BY <1>1 DEF B!Acquire
  <2>3. BootFirst'
    BY <1>1 DEF B!Acquire
  <2>4. AuxLocked'
    BY <1>1 DEF B!Acquire
  <2>5. QED
    BY <2>1, <2>2, <2>3, <2>4
<1>2. ASSUME NEW c \in Harts, NEW l \in B!Locks, B!Own(c, l) PROVE BootInv'
  BY <1>2 DEF B!Own
<1>3. ASSUME NEW c \in Harts, NEW l \in B!Locks, B!Release(c, l) PROVE BootInv'
  <2>1. B!TypeOK'
    BY <1>3 DEF B!Release
  <2>2. OthersWait'
    BY <1>3 DEF B!Release
  <2>3. BootFirst'
    BY <1>3 DEF B!Release
  <2>4. AuxLocked'
    BY <1>3 DEF B!Release
  <2>5. QED
    BY <2>1, <2>2, <2>3, <2>4
<1>4. ASSUME NEW c \in Harts, NEW l \in B!Locks, B!Unlock(c, l) PROVE BootInv'
  <2>1. B!TypeOK'
    BY <1>4 DEF B!Unlock, B!AfterRelease
  <2>2. OthersWait'
    BY <1>4 DEF B!Unlock, B!AfterRelease
  <2>3. BootFirst'
    BY <1>4 DEF B!Unlock, B!AfterRelease
  <2>4. AuxLocked'
    BY <1>4 DEF B!Unlock, B!AfterRelease
  <2>5. QED
    BY <2>1, <2>2, <2>3, <2>4
<1>5. ASSUME NEW c \in Harts, B!UserInit(c) \/ B!Start(c) \/ B!AwaitStarted(c) PROVE BootInv'
  <2>1. B!TypeOK'
    <3>1. at' \in [Harts -> B!Steps] /\ op' \in [Harts -> B!Callers]
      BY <1>5 DEF B!UserInit, B!Start, B!AwaitStarted
    <3>2. locked' \in [B!Locks -> BOOLEAN] /\ holder' \in [B!Locks -> Harts \cup {NULL}]
      BY <1>5 DEF B!UserInit, B!Start, B!AwaitStarted
    <3>3. total' \in 0..BootProcs
      BY <1>5 DEF B!UserInit, B!Start, B!AwaitStarted
    <3>4. inited' \in BOOLEAN /\ started' \in BOOLEAN /\ queued' \in 0..BootProcs
      BY <1>5 DEF B!UserInit, B!Start, B!AwaitStarted
    <3>5. QED
      BY <3>1, <3>2, <3>3, <3>4
  <2>2. OthersWait'
    BY <1>5 DEF B!UserInit, B!Start, B!AwaitStarted
  <2>3. BootFirst'
    BY <1>5 DEF B!UserInit, B!Start, B!AwaitStarted
  <2>4. AuxLocked'
    BY <1>5 DEF B!UserInit, B!Start, B!AwaitStarted
  <2>5. QED
    BY <2>1, <2>2, <2>3, <2>4
<1>6. ASSUME NEW c \in Harts, B!InitQueueLock(c) PROVE BootInv'
  <2>1. B!TypeOK'
    <3>1. at' \in [Harts -> B!Steps] /\ op' \in [Harts -> B!Callers]
      <4> HIDE DEF BootInv
      <4>1. QED
        BY <1>0, <1>6 DEF B!InitQueueLock
    <3>2. locked' \in [B!Locks -> BOOLEAN] /\ holder' \in [B!Locks -> Harts \cup {NULL}]
      <4> HIDE DEF BootInv
      <4>1. locked' \in [B!Locks -> BOOLEAN]
        <5>1. locked' = locked \/ locked' = [locked EXCEPT !["queue_lock"] = FALSE]
          BY <1>6 DEF B!InitQueueLock
        <5>2. locked \in [B!Locks -> BOOLEAN]
          BY <1>0
        <5> HIDE DEF B!TypeOK
        <5>3. QED
          BY <5>1, <5>2
      <4>2. holder' \in [B!Locks -> Harts \cup {NULL}]
        BY <1>0, <1>6 DEF B!InitQueueLock
      <4>3. QED
        BY <4>1, <4>2
    <3>3. total' \in 0..BootProcs
      BY <1>6 DEF B!InitQueueLock
    <3>4. inited' \in BOOLEAN /\ started' \in BOOLEAN /\ queued' \in 0..BootProcs
      BY <1>6 DEF B!InitQueueLock
    <3>5. QED
      BY <3>1, <3>2, <3>3, <3>4
  <2>2. OthersWait'
    BY <1>6 DEF B!InitQueueLock
  <2>3. BootFirst'
    BY <1>6 DEF B!InitQueueLock
  <2>4. AuxLocked'
    BY <1>6 DEF B!InitQueueLock
  <2>5. QED
    BY <2>1, <2>2, <2>3, <2>4
<1>7. ASSUME NEW c \in Harts, B!Scan(c) \/ B!Picked(c) PROVE BootInv'
  BY <1>7 DEF B!Scan, B!Picked
<1>8. ASSUME NEW c \in Harts, B!Run(c) PROVE BootInv'
  BY <1>8 DEF B!Run
<1>9. ASSUME NEW c \in Harts, B!TestInited(c) PROVE BootInv'
  BY <1>9 DEF B!TestInited
<1>10. ASSUME NEW c \in Harts, B!InitAuxLock(c) PROVE BootInv'
  BY <1>10 DEF B!InitAuxLock
<1>11. ASSUME NEW c \in Harts, B!Body(c) PROVE BootInv'
  <2>1. B!TypeOK'
    <3>1. at' \in [Harts -> B!Steps] /\ op' \in [Harts -> B!Callers]
      BY <1>11 DEF B!Body, B!Possible
    <3>2. locked' \in [B!Locks -> BOOLEAN] /\ holder' \in [B!Locks -> Harts \cup {NULL}]
      <4> HIDE DEF BootInv
      <4>1. locked' \in [B!Locks -> BOOLEAN]
        <5>1. locked' = locked \/ locked' = [locked EXCEPT !["aux_lock"] = FALSE]
          BY <1>11 DEF B!Body, B!Possible
        <5>2. locked \in [B!Locks -> BOOLEAN]
          BY <1>0
        <5> HIDE DEF B!TypeOK
        <5>3. QED
          BY <5>1, <5>2
      <4>2. holder' \in [B!Locks -> Harts \cup {NULL}]
        BY <1>0, <1>11 DEF B!Body, B!Possible
      <4>3. QED
        BY <4>1, <4>2
    <3>3. total' \in 0..BootProcs
      BY <1>11 DEF B!Body, B!Possible
    <3>4. inited' \in BOOLEAN /\ started' \in BOOLEAN /\ queued' \in 0..BootProcs
      BY <1>11 DEF B!Body, B!Possible
    <3>5. QED
      BY <3>1, <3>2, <3>3, <3>4
  <2>2. OthersWait'
    BY <1>11 DEF B!Body, B!Possible
  <2>3. BootFirst'
    BY <1>11 DEF B!Body, B!Possible
  <2>4. AuxLocked'
    BY <1>11 DEF B!Body, B!Possible
  <2>5. QED
    BY <2>1, <2>2, <2>3, <2>4
<1>12. CASE UNCHANGED (B!vars)
  BY <1>12 DEF B!vars
<1> HIDE DEF BootInv
<1>13. QED
  BY <1>1, <1>2, <1>3, <1>4, <1>5, <1>6, <1>7, <1>8, <1>9, <1>10, <1>11, <1>12 DEF B!Next

\* Only one CPU at a time is in the ring buffers, with aux_lock initialised
\* by the first that finds inited at 0 (kernel/queue.c): for every number of
\* CPUs, the enque() of CPU 0 has returned before another CPU leaves its wait
\* for started (kernel/main.c).
THEOREM AuxLockExcludes == KernelSpec => []AuxExclusion
<1>1. KernelInit => BootInv
  BY BootStarts DEF KernelInit
<1>2. BootInv /\ [KernelNext]_kernelvars => BootInv'
  <2>1. [KernelNext]_kernelvars => [B!Next]_(B!vars)
    BY DEF KernelNext, kernelvars, Others, bootvars, B!vars
  <2>2. QED
    BY <2>1, BootStep
<1>3. BootInv => AuxExclusion
  BY DEF BootInv, AuxLocked, Critical, AuxExclusion, B!AuxExclusion
<1>4. QED
  BY <1>1, <1>2, <1>3, PTL DEF KernelSpec

-----------------------------------------------------------------------------
(* The clock: what TicksProofs shows of Ticks *)

C == INSTANCE TicksProofs WITH
  NPROC <- ClockProcs, holder <- lk, pc <- tpc, state <- tstate, queued <- waiting

\* The operators of the two instances are the same, down to Cardinality.
LEMMA SameTake ==
  ASSUME NEW c, NEW L
  PROVE  T!TakeAndRelease(c, L) <=> C!TakeAndRelease(c, L)
<1>1. T!Cardinality(L) = C!Cardinality(L)
  BY DEF T!Cardinality, C!Cardinality
<1>2. T!LockAt(c) = C!LockAt(c)
  BY DEF T!LockAt, C!LockAt, T!TicksLock, C!TicksLock, T!QueueLock, C!QueueLock, T!Plock, C!Plock
<1>3. QED
  BY <1>1, <1>2 DEF
       T!TakeAndRelease, C!TakeAndRelease, T!None, C!None, T!Locks, C!Locks, T!Users,
       C!Users, T!TicksLock, C!TicksLock, T!QueueLock, C!QueueLock, T!Plock, C!Plock,
       T!Acquiring, C!Acquiring, T!Popped, C!Popped

LEMMA ClockPart == KernelSpec => [](C!TypeOK /\ C!InterruptsMatch /\ C!SleepsExactly)
<1>1. C!TicksAssumption
  BY KernelAssumption
  DEF T!TicksAssumption, C!TicksAssumption, T!SysCalls, C!SysCalls, T!Users, C!Users
<1>2. KernelInit => C!Init
  BY DEF KernelInit,
       T!Cpus, C!Cpus, T!Users, C!Users, T!Scheduler, C!Scheduler, T!Threads, C!Threads,
       T!None, C!None, T!TicksLock, C!TicksLock, T!QueueLock, C!QueueLock, T!Plock,
       C!Plock, T!Locks, C!Locks, T!SysCalls, C!SysCalls, T!procs, C!procs, T!clock,
       C!clock, T!sleeps, C!sleeps, T!vars, C!vars, T!Acquiring, C!Acquiring, T!Handler,
       C!Handler, T!Init, C!Init, T!Goto, C!Goto, T!LockAt, C!LockAt, T!PushOff, C!PushOff,
       T!Popped, C!Popped, T!TakeAndRelease, C!TakeAndRelease, T!ReleaseOnly,
       C!ReleaseOnly, T!Loop, C!Loop, T!Scan, C!Scan, T!Dispatch, C!Dispatch, T!Returned,
       C!Returned, T!Leave, C!Leave, T!Park, C!Park, T!Exit, C!Exit, T!Yield, C!Yield,
       T!AfterSched, C!AfterSched, T!Resume, C!Resume, T!ForkRet, C!ForkRet, T!Call,
       C!Call, T!Return, C!Return, T!Interrupt, C!Interrupt, T!Following, C!Following,
       T!NextOf, C!NextOf, T!ClockIntr, C!ClockIntr, T!MakeRunnable, C!MakeRunnable,
       T!Wake, C!Wake, T!Ack, C!Ack, T!SRet, C!SRet, T!Waits, C!Waits, T!SysSleep,
       C!SysSleep, T!SysUptime, C!SysUptime, T!SysKill, C!SysKill, T!Step, C!Step, T!Next,
       C!Next
<1>3. [KernelNext]_kernelvars => [C!Next]_(C!vars)
  <2>1. [KernelNext]_kernelvars => [T!Next]_(T!vars)
    BY DEF KernelNext, kernelvars, Others, tickvars, T!vars, T!procs, T!clock, T!sleeps
  <2>2. ASSUME NEW c \in T!Cpus, T!Step(c) PROVE C!Step(c)
    <3>1. T!PushOff(c) => C!PushOff(c)
      BY SameTake DEF
         T!PushOff, C!PushOff, T!procs, C!procs, T!clock, C!clock, T!sleeps, C!sleeps,
         T!Acquiring, C!Acquiring
    <3>2. T!Loop(c) => C!Loop(c)
      BY SameTake DEF
         T!Loop, C!Loop, T!procs, C!procs, T!clock, C!clock, T!sleeps, C!sleeps, T!Goto,
         C!Goto
    <3>3. T!Scan(c) => C!Scan(c)
      BY SameTake DEF
         T!Scan, C!Scan, T!QueueLock, C!QueueLock, T!clock, C!clock, T!sleeps, C!sleeps,
         T!Goto, C!Goto
    <3>4. T!Dispatch(c) => C!Dispatch(c)
      BY SameTake DEF
         T!Dispatch, C!Dispatch, T!QueueLock, C!QueueLock, T!clock, C!clock, T!sleeps,
         C!sleeps, T!Goto, C!Goto
    <3>5. T!Returned(c) => C!Returned(c)
      BY SameTake DEF
         T!Returned, C!Returned, T!Plock, C!Plock, T!procs, C!procs, T!clock, C!clock,
         T!sleeps, C!sleeps, T!Goto, C!Goto, T!ReleaseOnly, C!ReleaseOnly, T!None, C!None,
         T!Popped, C!Popped
    <3>6. T!Park(c) => C!Park(c)
      BY SameTake DEF
         T!Park, C!Park, T!TicksLock, C!TicksLock, T!Leave, C!Leave, T!Scheduler,
         C!Scheduler, T!clock, C!clock, T!sleeps, C!sleeps, T!Goto, C!Goto
    <3>7. T!Exit(c) => C!Exit(c)
      BY SameTake DEF
         T!Exit, C!Exit, T!Leave, C!Leave, T!Scheduler, C!Scheduler, T!clock, C!clock,
         T!sleeps, C!sleeps, T!Goto, C!Goto
    <3>8. T!Yield(c) => C!Yield(c)
      BY SameTake DEF
         T!Yield, C!Yield, T!Leave, C!Leave, T!Scheduler, C!Scheduler, T!clock, C!clock,
         T!sleeps, C!sleeps, T!Goto, C!Goto
    <3>9. T!Resume(c) => C!Resume(c)
      BY SameTake DEF
         T!Resume, C!Resume, T!Plock, C!Plock, T!procs, C!procs, T!clock, C!clock,
         T!sleeps, C!sleeps, T!Goto, C!Goto, T!ReleaseOnly, C!ReleaseOnly, T!None, C!None,
         T!Popped, C!Popped, T!AfterSched, C!AfterSched
    <3>10. T!ForkRet(c) => C!ForkRet(c)
      BY SameTake DEF
         T!ForkRet, C!ForkRet, T!None, C!None, T!Plock, C!Plock, T!procs, C!procs, T!clock,
         C!clock, T!sleeps, C!sleeps, T!Goto, C!Goto, T!Popped, C!Popped
    <3>11. T!Call(c) => C!Call(c)
      BY SameTake DEF
         T!Call, C!Call, T!procs, C!procs, T!clock, C!clock, T!sleeps, C!sleeps, T!Goto,
         C!Goto
    <3>12. T!Return(c) => C!Return(c)
      BY SameTake DEF
         T!Return, C!Return, T!procs, C!procs, T!clock, C!clock, T!Goto, C!Goto
    <3>13. T!Interrupt(c) => C!Interrupt(c)
      BY SameTake DEF
         T!Interrupt, C!Interrupt, T!procs, C!procs, T!clock, C!clock, T!sleeps, C!sleeps,
         T!Goto, C!Goto
    <3>14. T!ClockIntr(c) => C!ClockIntr(c)
      BY SameTake DEF
         T!ClockIntr, C!ClockIntr, T!procs, C!procs, T!sleeps, C!sleeps, T!Goto, C!Goto,
         T!NextOf, C!NextOf, T!Following, C!Following, T!Users, C!Users
    <3>15. T!Wake(c) => C!Wake(c)
      BY SameTake DEF
         T!Wake, C!Wake, T!TicksLock, C!TicksLock, T!Plock, C!Plock, T!clock, C!clock,
         T!sleeps, C!sleeps, T!Goto, C!Goto, T!NextOf, C!NextOf, T!Following, C!Following,
         T!Users, C!Users, T!MakeRunnable, C!MakeRunnable
    <3>16. T!Ack(c) => C!Ack(c)
      BY SameTake DEF
         T!Ack, C!Ack, T!Users, C!Users, T!procs, C!procs, T!clock, C!clock, T!sleeps,
         C!sleeps, T!Goto, C!Goto
    <3>17. T!SRet(c) => C!SRet(c)
      BY SameTake DEF
         T!SRet, C!SRet, T!procs, C!procs, T!clock, C!clock, T!sleeps, C!sleeps, T!Goto,
         C!Goto
    <3>18. T!SysSleep(c) => C!SysSleep(c)
      BY SameTake DEF
         T!SysSleep, C!SysSleep, T!TicksLock, C!TicksLock, T!procs, C!procs, T!clock,
         C!clock, T!Goto, C!Goto, T!Waits, C!Waits
    <3>19. T!SysUptime(c) => C!SysUptime(c)
      BY SameTake DEF
         T!SysUptime, C!SysUptime, T!TicksLock, C!TicksLock, T!procs, C!procs, T!clock,
         C!clock, T!sleeps, C!sleeps, T!Goto, C!Goto
    <3>20. T!SysKill(c) => C!SysKill(c)
      BY SameTake DEF
         T!SysKill, C!SysKill, T!Plock, C!Plock, T!clock, C!clock, T!sleeps, C!sleeps,
         T!Goto, C!Goto, T!MakeRunnable, C!MakeRunnable
    <3>21. QED
      BY <2>2,
         <3>1, <3>2, <3>3, <3>4, <3>5, <3>6, <3>7, <3>8, <3>9, <3>10, <3>11, <3>12, <3>13,
         <3>14, <3>15, <3>16, <3>17, <3>18, <3>19, <3>20
      DEF T!Step, C!Step
  <2>3. T!Cpus = C!Cpus /\ T!vars = C!vars
    BY DEF T!Cpus, C!Cpus, T!vars, C!vars, T!procs, C!procs, T!clock, C!clock, T!sleeps, C!sleeps
  <2>4. [T!Next]_(T!vars) => [C!Next]_(C!vars)
    BY <2>2, <2>3 DEF T!Next, C!Next, T!vars, C!vars, T!procs, C!procs, T!clock, C!clock,
       T!sleeps, C!sleeps
  <2>5. QED
    BY <2>1, <2>4
<1>4. C!Init /\ [][C!Next]_(C!vars) => [](C!TypeOK /\ C!InterruptsMatch /\ C!SleepsExactly)
  BY <1>1, C!ClockCorrect DEF C!Spec
<1>5. QED
  BY <1>2, <1>3, <1>4, PTL DEF KernelSpec

\* The panics of acquire(), pop_off(), sched() and kerneltrap() are out of
\* reach: noff counts the locks of a CPU, interrupts are off while it has one
\* or runs a handler, and only p->lock is held where stacks are switched.
THEOREM InterruptsAreOff == KernelSpec => []InterruptsMatch
<1>1. C!TypeOK /\ C!InterruptsMatch => InterruptsMatch
  BY DEF InterruptsMatch,
       T!TypeOK, C!TypeOK, T!InterruptsMatch, C!InterruptsMatch, T!SleepsExactly,
       C!SleepsExactly, T!HeldBy, C!HeldBy, T!LockAt, C!LockAt, T!Acquiring, C!Acquiring,
       T!Handler, C!Handler, T!Threads, C!Threads, T!Scheduler, C!Scheduler, T!Users,
       C!Users, T!Cpus, C!Cpus, T!Locks, C!Locks, T!Plock, C!Plock, T!TicksLock,
       C!TicksLock, T!QueueLock, C!QueueLock, T!None, C!None, T!SysCalls, C!SysCalls,
       T!Cardinality, C!Cardinality
<1>2. QED
  BY <1>1, ClockPart, PTL

\* sleep(n) of sysproc.c ends after n ticks and not before, also when ticks
\* wraps around, and the wakeup() of its tick leaves no sleeper behind.
THEOREM SleepEndsAtItsTick == KernelSpec => []SleepsExactly
<1>1. C!SleepsExactly => SleepsExactly
  BY DEF SleepsExactly, T!SleepsExactly, C!SleepsExactly, T!TicksLock, C!TicksLock,
         T!Users, C!Users, T!None, C!None
<1>2. QED
  BY <1>1, ClockPart, PTL

-----------------------------------------------------------------------------
(* Memory: what MemoryProofs shows of it *)

P == INSTANCE MemoryProofs WITH NPROC <- MemoryProcs, pc <- mpc, at <- of

LEMMA MemoryPart == KernelSpec => []P!PagesAccounted
<1>1. P!MemoryAssumption
  BY KernelAssumption
  DEF M!MemoryAssumption, P!MemoryAssumption, M!TRAPFRAME, P!TRAPFRAME, M!MAXVA, P!MAXVA
<1>2. KernelInit => P!Init
  BY DEF KernelInit,
       M!Init, P!Init, M!Processes, P!Processes, M!NoPage, P!NoPage, M!Tables, P!Tables,
       M!NoTable, P!NoTable, M!FirstTable, P!FirstTable, M!TRAMPOLINE, P!TRAMPOLINE,
       M!MAXVA, P!MAXVA, M!TRAPFRAME, P!TRAPFRAME, M!Trampoline, P!Trampoline, M!Leaf,
       P!Leaf, M!With, P!With, M!Way, P!Way
<1>3. [KernelNext]_kernelvars => [P!Next]_(P!vars)
  <2>1. [KernelNext]_kernelvars => [M!Next]_(M!vars)
    BY DEF KernelNext, kernelvars, Others, memoryvars, M!vars
  <2>2. ASSUME NEW p \in M!Processes, M!Step(p) PROVE P!Step(p)
    <3>1. M!Fork(p) => P!Fork(p)
      BY DEF
         M!Fork, P!Fork, M!Processes, P!Processes, M!loop, P!loop, M!Goto, P!Goto, M!Calls,
         P!Calls
    <3>2. M!Exec(p) => P!Exec(p)
      BY DEF
         M!Exec, P!Exec, M!Local, P!Local, M!Goto, P!Goto, M!Calls, P!Calls, M!Stack,
         P!Stack
    <3>3. M!Grow(p) => P!Grow(p)
      BY DEF
         M!Grow, P!Grow, M!PagesOf, P!PagesOf, M!Goto, P!Goto, M!Calls, P!Calls
    <3>4. M!Shrink(p) => P!Shrink(p)
      BY DEF
         M!Shrink, P!Shrink, M!PagesOf, P!PagesOf, M!loop, P!loop, M!Leaf, P!Leaf,
         M!Without, P!Without, M!Calls, P!Calls, M!Panic, P!Panic, M!Goto, P!Goto
    <3>5. M!Exit(p) => P!Exit(p)
      BY DEF
         M!Exit, P!Exit, M!loop, P!loop, M!Calls, P!Calls
    <3>6. M!Wait(p) => P!Wait(p)
      BY DEF
         M!Wait, P!Wait, M!NoPage, P!NoPage, M!loop, P!loop, M!NoTable, P!NoTable,
         M!Inside, P!Inside, M!CanFree, P!CanFree, M!PagesOf, P!PagesOf, M!UserLeaves,
         P!UserLeaves, M!TRAPFRAME, P!TRAPFRAME, M!MAXVA, P!MAXVA, M!Leaf, P!Leaf,
         M!PagesIn, P!PagesIn, M!KernelLeaves, P!KernelLeaves, M!TRAMPOLINE, P!TRAMPOLINE,
         M!Panic, P!Panic, M!Goto, P!Goto
    <3>7. M!TakeTrapframe(p) => P!TakeTrapframe(p)
      BY DEF
         M!TakeTrapframe, P!TakeTrapframe, M!loop, P!loop, M!Lowest, P!Lowest, M!Goto,
         P!Goto, M!Inside, P!Inside, M!Return, P!Return, M!NoPage, P!NoPage
    <3>8. M!Root(p) => P!Root(p)
      BY DEF
         M!Root, P!Root, M!loop, P!loop, M!With, P!With, M!Lowest, P!Lowest, M!Goto,
         P!Goto, M!Inside, P!Inside
    <3>9. M!Walk(p) => P!Walk(p)
      BY DEF
         M!Walk, P!Walk, M!loop, P!loop, M!With, P!With, M!Lowest, P!Lowest, M!Missing,
         P!Missing, M!Way, P!Way, M!NextNode, P!NextNode, M!Inside, P!Inside, M!Mapping,
         P!Mapping, M!Va, P!Va, M!TRAMPOLINE, P!TRAMPOLINE, M!MAXVA, P!MAXVA, M!TRAPFRAME,
         P!TRAPFRAME
    <3>10. M!SetEntry(p) => P!SetEntry(p)
      BY DEF
         M!SetEntry, P!SetEntry, M!Processes, P!Processes, M!NoPage, P!NoPage, M!Leaf,
         P!Leaf, M!With, P!With, M!Missing, P!Missing, M!Way, P!Way, M!Goto, P!Goto,
         M!Inside, P!Inside, M!Panic, P!Panic, M!loop, P!loop, M!Mapping, P!Mapping, M!Va,
         P!Va, M!TRAMPOLINE, P!TRAMPOLINE, M!MAXVA, P!MAXVA, M!TRAPFRAME, P!TRAPFRAME,
         M!What, P!What, M!Trampoline, P!Trampoline, M!Owner, P!Owner, M!NextGoal,
         P!NextGoal, M!PagesOf, P!PagesOf, M!Stack, P!Stack
    <3>11. M!Alloc(p) => P!Alloc(p)
      BY DEF
         M!Alloc, P!Alloc, M!Lowest, P!Lowest, M!Goto, P!Goto, M!Inside, P!Inside, M!More,
         P!More
    <3>12. M!OutOfMemory(p) => P!OutOfMemory(p)
      BY DEF
         M!OutOfMemory, P!OutOfMemory, M!Missing, P!Missing, M!Way, P!Way, M!Inside,
         P!Inside, M!Fail, P!Fail, M!Processes, P!Processes, M!NoPage, P!NoPage, M!NoTable,
         P!NoTable, M!Without, P!Without, M!Return, P!Return, M!Goto, P!Goto, M!CanFree,
         P!CanFree, M!PagesOf, P!PagesOf, M!UserLeaves, P!UserLeaves, M!TRAPFRAME,
         P!TRAPFRAME, M!MAXVA, P!MAXVA, M!Leaf, P!Leaf, M!PagesIn, P!PagesIn,
         M!KernelLeaves, P!KernelLeaves, M!TRAMPOLINE, P!TRAMPOLINE, M!Panic, P!Panic,
         M!loop, P!loop, M!Undone, P!Undone, M!Mapping, P!Mapping, M!Va, P!Va, M!More,
         P!More
    <3>13. M!BadProgram(p) => P!BadProgram(p)
      BY DEF
         M!BadProgram, P!BadProgram, M!Processes, P!Processes, M!PagesOf, P!PagesOf,
         M!Inside, P!Inside, M!Fail, P!Fail, M!NoPage, P!NoPage, M!NoTable, P!NoTable,
         M!Without, P!Without, M!Return, P!Return, M!Goto, P!Goto, M!CanFree, P!CanFree,
         M!UserLeaves, P!UserLeaves, M!TRAPFRAME, P!TRAPFRAME, M!MAXVA, P!MAXVA, M!Leaf,
         P!Leaf, M!PagesIn, P!PagesIn, M!KernelLeaves, P!KernelLeaves, M!TRAMPOLINE,
         P!TRAMPOLINE, M!Panic, P!Panic, M!loop, P!loop, M!Undone, P!Undone
    <3>14. M!SbrkReturns(p) => P!SbrkReturns(p)
      BY DEF
         M!SbrkReturns, P!SbrkReturns, M!Inside, P!Inside, M!Return, P!Return, M!NoPage,
         P!NoPage, M!Goto, P!Goto, M!More, P!More
    <3>15. M!ForkReturns(p) => P!ForkReturns(p)
      BY DEF
         M!ForkReturns, P!ForkReturns, M!Processes, P!Processes, M!Inside, P!Inside,
         M!Return, P!Return, M!NoPage, P!NoPage, M!Goto, P!Goto, M!More, P!More
    <3>16. M!Loaded(p) => P!Loaded(p)
      BY DEF
         M!Loaded, P!Loaded, M!Processes, P!Processes, M!PagesOf, P!PagesOf, M!Goto,
         P!Goto, M!Inside, P!Inside, M!Fail, P!Fail, M!NoPage, P!NoPage, M!NoTable,
         P!NoTable, M!Without, P!Without, M!Return, P!Return, M!CanFree, P!CanFree,
         M!UserLeaves, P!UserLeaves, M!TRAPFRAME, P!TRAPFRAME, M!MAXVA, P!MAXVA, M!Leaf,
         P!Leaf, M!PagesIn, P!PagesIn, M!KernelLeaves, P!KernelLeaves, M!TRAMPOLINE,
         P!TRAMPOLINE, M!Panic, P!Panic, M!loop, P!loop, M!Undone, P!Undone, M!Stack,
         P!Stack, M!More, P!More, M!Grown, P!Grown
    <3>17. M!Commit(p) => P!Commit(p)
      BY DEF
         M!Commit, P!Commit, M!Local, P!Local, M!NoTable, P!NoTable, M!NoPage, P!NoPage,
         M!Inside, P!Inside, M!Return, P!Return, M!Goto, P!Goto, M!CanFree, P!CanFree,
         M!PagesOf, P!PagesOf, M!UserLeaves, P!UserLeaves, M!TRAPFRAME, P!TRAPFRAME,
         M!MAXVA, P!MAXVA, M!Leaf, P!Leaf, M!PagesIn, P!PagesIn, M!KernelLeaves,
         P!KernelLeaves, M!TRAMPOLINE, P!TRAMPOLINE, M!Panic, P!Panic, M!loop, P!loop,
         M!OldSize, P!OldSize
    <3>18. QED
      BY <2>2,
         <3>1, <3>2, <3>3, <3>4, <3>5, <3>6, <3>7, <3>8, <3>9, <3>10, <3>11, <3>12, <3>13,
         <3>14, <3>15, <3>16, <3>17
      DEF M!Step, P!Step
  <2>3. M!Processes = P!Processes /\ M!vars = P!vars
    BY DEF M!Processes, P!Processes, M!vars, P!vars, M!loop, P!loop
  <2>4. [M!Next]_(M!vars) => [P!Next]_(P!vars)
    BY <2>2, <2>3 DEF M!Next, P!Next, M!vars, P!vars, M!loop, P!loop
  <2>5. QED
    BY <2>1, <2>4
<1>4. P!Init /\ [][P!Next]_(P!vars) => []P!PagesAccounted
  BY <1>1, P!PagesCorrect DEF P!Spec
<1>5. QED
  BY <1>2, <1>3, <1>4, PTL DEF KernelSpec

\* Every page of the machine is free or in one place, wherever a call of
\* fork(), exec() or sbrk() finds none left, and vm.c does not panic.
THEOREM EveryPageAccounted == KernelSpec => []PagesAccounted
<1>1. P!PagesAccounted => PagesAccounted
  BY DEF PagesAccounted, M!Cardinality, P!Cardinality,
       M!PagesAccounted, P!PagesAccounted, M!Processes, P!Processes, M!TRAPFRAME,
       P!TRAPFRAME, M!MAXVA, P!MAXVA, M!NoPage, P!NoPage, M!Local, P!Local, M!Leaf, P!Leaf,
       M!NoTable, P!NoTable, M!CanFree, P!CanFree, M!PagesOf, P!PagesOf, M!UserLeaves,
       P!UserLeaves, M!Held, P!Held, M!Tables, P!Tables, M!KernelLeaves, P!KernelLeaves,
       M!TRAMPOLINE, P!TRAMPOLINE, M!InTrapframe, P!InTrapframe, M!InMem, P!InMem
<1>2. QED
  BY <1>1, MemoryPart, PTL
=============================================================================
