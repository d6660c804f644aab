----------------------------- MODULE StoreProofs -----------------------------
(* Why no request to the disk, and no descriptor, is lost or served twice; *)
(* why a block has one buffer, why nobody recycles a buffer that somebody  *)
(* wants, why there is a buffer for whoever asks, and why the cache over   *)
(* the disk is an array of blocks (kernel/bio.c over virtio_disk.c): for   *)
(* every number of processes, buffers and descriptors.                     *)
EXTENDS BufferCache, FiniteSetTheorems, SequenceTheorems,
        WellFoundedInduction, TLAPS

-----------------------------------------------------------------------------
(* The driver: what holds whatever the processes call *)

\* The steps between acquiresleep() and releasesleep() of a buffer, those
\* inside virtio_disk_rw() after the request was made, and the others there.
Waiting == {"sleep_buf", "woken_buf"}
Holding == Waiting \cup {"rw", "sleep_free", "written", "have", "release"}

Fields == {"blockno", "valid", "refcnt", "data", "owner"}
Chains == {<<d, e, f>> : d, e, f \in Descs}

DriverTypes ==
  /\ DOMAIN buf = Bufs /\ \A i \in Bufs : DOMAIN buf[i] = Fields
  /\ pc \in [Procs -> Steps] /\ b \in [Procs -> Bufs] /\ write \in [Procs -> BOOLEAN]
  /\ request \in [Descs -> [chain : Chains \cup {<< >>}, b : 0..NBUF, write : BOOLEAN]]
  /\ avail \in Seq(Descs) /\ used \in Seq(Descs) /\ irq \in BOOLEAN /\ handler \in BOOLEAN
  /\ free \subseteq Descs /\ busy \subseteq Bufs /\ lru \in [Bufs -> Bufs]

\* The lock of a buffer excludes.
Owners == \A p \in Procs : pc[p] \in Holding => buf[b[p]].owner = p

\* A request has the chain of three descriptors that starts with its own.
Heads == {d \in Descs : request[d] # NoRequest}
Chained ==
  /\ \A d \in Heads : request[d].chain \in Chains /\ request[d].chain[1] = d /\ request[d].b \in Bufs
  /\ \A d, e \in Heads : d # e => Chain(d) \cap Chain(e) = { }
  /\ free = Descs \ UNION {Chain(d) : d \in Heads}

\* It is the only one for its buffer, and somebody waits for it.
Awaited ==
  /\ \A d, e \in Heads : request[d].b = request[e].b => d = e
  /\ \A d \in Heads : \E p \in Procs : b[p] = request[d].b /\ pc[p] \in Waiting

\* The rings hold the requests of the busy buffers, once each.
Entries(s) == {s[k] : k \in 1..Len(s)}
Once(s) == \A j, k \in 1..Len(s) : s[j] = s[k] => j = k
InRings == Entries(avail) \cup Entries(used)
Rings ==
  /\ Once(avail) /\ Once(used) /\ Entries(avail) \cap Entries(used) = { }
  /\ InRings \subseteq Heads
  /\ busy = {request[d].b : d \in InRings}
  /\ Cardinality(busy) = Len(avail) + Len(used)

\* No interrupt and no wakeup is lost.
Signalled ==
  /\ used # << >> => irq \/ handler
  /\ \A p \in Procs : pc[p] = "sleep_buf" => b[p] \in busy

DriverInv == DriverTypes /\ Owners /\ Chained /\ Awaited /\ Rings /\ Signalled

-----------------------------------------------------------------------------
(* Sets of numbers, and sequences of the rings *)

LEMMA LeastOf ==
  ASSUME NEW S \in SUBSET Nat, S # { }
  PROVE  \E x \in S : \A y \in S : x <= y
<1> DEFINE R == {ss \in Nat \X Nat : ss[1] < ss[2]}
<1>1. IsWellFoundedOn(R, Nat)
  BY NatLessThanWellFounded DEF OpToRel
<1>2. \A x, y \in Nat : <<x, y>> \in R <=> x < y
  OBVIOUS
<1> HIDE DEF R
<1>3. PICK x \in S : \A y \in S : ~(<<y, x>> \in R)
  BY <1>1, WFMin
<1>4. \A y \in S : x \in Nat /\ y \in Nat /\ ~(y < x)
  BY <1>2, <1>3
<1>5. \A y \in S : x <= y
  BY <1>4
<1>6. QED
  BY <1>5

LEMMA LowestIsIn ==
  ASSUME NEW S \in SUBSET Nat, S # { }
  PROVE  Lowest(S) \in S
BY LeastOf DEF Lowest

LEMMA GreatestOf ==
  ASSUME NEW S \in SUBSET Bufs, S # { }
  PROVE  \E x \in S : \A y \in S : y <= x
<1> DEFINE T == {NBUF - x : x \in S}
<1>1. NBUF \in Nat /\ \A x \in S : x \in Nat /\ x <= NBUF /\ NBUF - x \in Nat
  BY DiskAssumption DEF Bufs
<1>2. T \in SUBSET Nat /\ T # { }
  BY <1>1
<1>3. PICK t \in T : \A y \in T : t <= y
  BY <1>2, LeastOf
<1>4. PICK x \in S : t = NBUF - x
  BY <1>3
<1>5. \A y \in S : NBUF - x <= NBUF - y
  BY <1>3, <1>4
<1>6. \A y \in S : y <= x
  BY <1>1, <1>5
<1>7. QED
  BY <1>6

LEMMA BufsAndDescs ==
  /\ Bufs \subseteq Nat /\ Descs \subseteq Nat /\ IsFiniteSet(Bufs) /\ IsFiniteSet(Descs)
  /\ 1 \in Bufs /\ 0 \notin Bufs /\ Bufs \subseteq 0..NBUF
BY DiskAssumption, FS_Interval DEF Bufs, Descs

\* Three descriptors that are free, as alloc3_desc() takes them.
LEMMA ThreeFree ==
  ASSUME NEW S \in SUBSET Descs, Cardinality(S) >= 3
  PROVE  /\ Lowest(S) \in S
         /\ Lowest(S \ {Lowest(S)}) \in S \ {Lowest(S)}
         /\ Lowest(S \ {Lowest(S), Lowest(S \ {Lowest(S)})}) \in
               S \ {Lowest(S), Lowest(S \ {Lowest(S)})}
<1> DEFINE d0 == Lowest(S)
           S1 == S \ {d0}
           d1 == Lowest(S1)
           S2 == S1 \ {d1}
<1>1. IsFiniteSet(S) /\ Cardinality(S) \in Nat /\ S \subseteq Nat
  BY BufsAndDescs, FS_Subset, FS_CardinalityType
<1>2. S # { }
  BY <1>1, FS_EmptySet
<1>3. d0 \in S
  BY <1>1, <1>2, LowestIsIn
<1>4. IsFiniteSet(S1) /\ Cardinality(S1) = Cardinality(S) - 1
  BY <1>1, <1>3, FS_RemoveElement
<1>5. S1 # { } /\ S1 \subseteq Nat
  <2>1. Cardinality(S1) # 0
    BY <1>1, <1>4
  <2>2. S1 \subseteq Nat
    BY <1>1
  <2>3. QED
    BY <2>1, <2>2, FS_EmptySet
<1> HIDE DEF d0, S1
<1>6. d1 \in S1
  BY <1>5, LowestIsIn
<1>7. IsFiniteSet(S2) /\ Cardinality(S2) = Cardinality(S1) - 1
  BY <1>4, <1>6, FS_RemoveElement
<1>8. S2 # { } /\ S2 \subseteq Nat
  <2>1. Cardinality(S2) # 0
    BY <1>1, <1>4, <1>7
  <2>2. S2 \subseteq Nat
    BY <1>5
  <2>3. QED
    BY <2>1, <2>2, FS_EmptySet
<1>9. Lowest(S2) \in S2
  BY <1>8, LowestIsIn
<1>10. S2 = S \ {d0, d1}
  BY DEF S1
<1>11. QED
  BY <1>3, <1>6, <1>9, <1>10 DEF d0, S1

\* A ring without its k-th request.
Without(s, k) == SubSeq(s, 1, k - 1) \o SubSeq(s, k + 1, Len(s))

LEMMA WithoutOne ==
  ASSUME NEW S, NEW s \in Seq(S), NEW k \in 1..Len(s)
  PROVE  /\ Without(s, k) \in Seq(S) /\ Len(Without(s, k)) = Len(s) - 1
         /\ \A j \in 1..(Len(s) - 1) :
              Without(s, k)[j] = IF j < k THEN s[j] ELSE s[j + 1]
<1> DEFINE t == Without(s, k)
           left == SubSeq(s, 1, k - 1)
           right == SubSeq(s, k + 1, Len(s))
<1>1. /\ Len(s) \in Nat /\ k \in Nat /\ 1 <= k /\ k <= Len(s)
      /\ \A j \in 1..Len(s) : s[j] \in S
  BY ElementOfSeq, LenProperties
<1>2. /\ left \in Seq(S) /\ Len(left) = k - 1
      /\ \A j \in 1..(k - 1) : left[j] = s[j]
  <2>1. 1 \in Int /\ k - 1 \in Int /\ \A j \in 1..(k - 1) : s[j] \in S
    BY <1>1
  <2>2. /\ left \in Seq(S) /\ Len(left) = IF 1 <= k - 1 THEN k - 1 - 1 + 1 ELSE 0
        /\ \A j \in 1..(k - 1 - 1 + 1) : left[j] = s[1 + j - 1]
    BY <2>1, SubSeqProperties
  <2>3. QED
    BY <1>1, <2>2
<1>3. /\ right \in Seq(S) /\ Len(right) = Len(s) - k
      /\ \A j \in 1..(Len(s) - k) : right[j] = s[k + j]
  <2>1. k + 1 \in Int /\ Len(s) \in Int /\ \A j \in (k + 1)..Len(s) : s[j] \in S
    BY <1>1
  <2>2. /\ right \in Seq(S)
        /\ Len(right) = IF k + 1 <= Len(s) THEN Len(s) - (k + 1) + 1 ELSE 0
        /\ \A j \in 1..(Len(s) - (k + 1) + 1) : right[j] = s[(k + 1) + j - 1]
    BY <2>1, SubSeqProperties
  <2>3. QED
    BY <1>1, <2>2
<1> HIDE DEF left, right
<1>4. /\ left \o right \in Seq(S) /\ Len(left \o right) = Len(left) + Len(right)
      /\ \A j \in 1..(Len(left) + Len(right)) :
           (left \o right)[j] = IF j <= Len(left) THEN left[j] ELSE right[j - Len(left)]
  BY <1>2, <1>3, ConcatProperties
<1>5. t = left \o right
  BY DEF left, right, Without
<1> HIDE DEF t
<1>6. /\ t \in Seq(S) /\ Len(t) = Len(left) + Len(right)
      /\ \A j \in 1..(Len(left) + Len(right)) :
           t[j] = IF j <= Len(left) THEN left[j] ELSE right[j - Len(left)]
  BY <1>4, <1>5, Zenon
<1> HIDE DEF left, right
<1>7. Len(t) = Len(s) - 1
  <2>1. (k - 1) + (Len(s) - k) = Len(s) - 1
    BY <1>1
  <2>2. QED
    BY <1>2, <1>3, <1>6, <2>1
<1>8. \A j \in 1..(Len(s) - 1) : t[j] = IF j <= k - 1 THEN left[j] ELSE right[j - (k - 1)]
  <2>1. Len(left) + Len(right) = Len(s) - 1 /\ Len(left) = k - 1
    BY <1>2, <1>6, <1>7
  <2>2. QED
    BY <1>6, <2>1
<1>9. ASSUME NEW j \in 1..(Len(s) - 1)
      PROVE  t[j] = IF j < k THEN s[j] ELSE s[j + 1]
  <2>1. j \in Nat /\ 1 <= j /\ j <= Len(s) - 1
    BY <1>1
  <2>2. CASE j < k
    <3>1. j \in 1..(k - 1) /\ j <= k - 1
      BY <1>1, <2>1, <2>2
    <3>2. QED
      BY <1>2, <1>8, <2>2, <3>1
  <2>3. CASE ~(j < k)
    <3>1. j - (k - 1) \in 1..(Len(s) - k) /\ ~(j <= k - 1) /\ k + (j - (k - 1)) = j + 1
      BY <1>1, <2>1, <2>3
    <3>2. right[j - (k - 1)] = s[j + 1]
      BY <1>3, <3>1
    <3>3. QED
      BY <1>8, <2>3, <3>1, <3>2
  <2>4. QED
    BY <2>2, <2>3
<1>10. QED
  BY <1>1, <1>6, <1>7, <1>9 DEF t

\* A ring that gets a request, and one that loses its first or its k-th.
LEMMA RingGets ==
  ASSUME NEW S, NEW s \in Seq(S), NEW d \in S \ Entries(s), Once(s)
  PROVE  /\ Append(s, d) \in Seq(S) /\ Len(Append(s, d)) = Len(s) + 1
         /\ Entries(Append(s, d)) = Entries(s) \cup {d} /\ Once(Append(s, d))
<1> DEFINE t == Append(s, d)
<1>1. /\ t \in Seq(S) /\ Len(t) = Len(s) + 1 /\ Len(s) \in Nat
      /\ \A k \in 1..Len(s) : t[k] = s[k]
      /\ t[Len(s) + 1] = d
  BY AppendProperties, LenProperties
<1> HIDE DEF t
<1>2. 1..Len(t) = 1..Len(s) \cup {Len(s) + 1}
  BY <1>1
<1>3. Entries(t) = Entries(s) \cup {d}
  BY <1>1, <1>2 DEF Entries
<1>4. Once(t)
  <2>1. \A k \in 1..Len(s) : t[k] # d
    BY <1>1 DEF Entries
  <2>2. QED
    BY <1>1, <1>2, <2>1 DEF Once
<1>5. QED
  BY <1>1, <1>3, <1>4 DEF t

LEMMA RingLoses ==
  ASSUME NEW S, NEW s \in Seq(S), NEW k \in 1..Len(s), Once(s)
  PROVE  /\ Without(s, k) \in Seq(S) /\ Len(Without(s, k)) = Len(s) - 1
         /\ Entries(Without(s, k)) = Entries(s) \ {s[k]} /\ Once(Without(s, k))
<1> DEFINE t == Without(s, k)
           n == Len(s)
<1>1. t \in Seq(S) /\ Len(t) = n - 1
  BY WithoutOne
<1>2. n \in Nat /\ k \in 1..n
  BY LenProperties
<1>3. \A j \in 1..(n - 1) : t[j] = IF j < k THEN s[j] ELSE s[j + 1]
  BY WithoutOne
<1>4. \A i, j \in 1..n : s[i] = s[j] => i = j
  BY DEF Once
<1>5. Entries(s) = {s[i] : i \in 1..n} /\ Entries(t) = {t[j] : j \in 1..(n - 1)}
  BY <1>1 DEF Entries
<1> HIDE DEF t, n
<1>6. \A i, j \in 1..(n - 1) : t[i] = t[j] => i = j
  BY <1>2, <1>3, <1>4
<1>7. \A j \in 1..(n - 1) : t[j] \in {s[i] : i \in 1..n} \ {s[k]}
  BY <1>2, <1>3, <1>4
<1>8. \A i \in 1..n : i # k => \E j \in 1..(n - 1) : t[j] = s[i]
  <2> SUFFICES ASSUME NEW i \in 1..n, i # k
               PROVE  \E j \in 1..(n - 1) : t[j] = s[i]
    OBVIOUS
  <2>1. CASE i < k
    <3>1. i \in 1..(n - 1) /\ t[i] = s[i]
      BY <1>2, <1>3, <2>1
    <3>2. QED
      BY <3>1
  <2>2. CASE i > k
    <3>1. i - 1 \in 1..(n - 1) /\ ~(i - 1 < k) /\ (i - 1) + 1 = i
      BY <1>2, <2>2
    <3>2. t[i - 1] = s[i]
      BY <1>3, <3>1
    <3>3. QED
      BY <3>1, <3>2
  <2>3. QED
    BY <1>2, <2>1, <2>2
<1>9. Entries(t) = Entries(s) \ {s[k]}
  BY <1>2, <1>5, <1>7, <1>8
<1>10. Once(t)
  BY <1>1, <1>6 DEF Once
<1>11. QED
  BY <1>1, <1>9, <1>10 DEF t, n

LEMMA RingLosesFirst ==
  ASSUME NEW S, NEW s \in Seq(S), s # << >>, Once(s)
  PROVE  /\ Tail(s) \in Seq(S) /\ Len(Tail(s)) = Len(s) - 1
         /\ Entries(Tail(s)) = Entries(s) \ {Head(s)} /\ Once(Tail(s))
         /\ Head(s) \in Entries(s)
<1> DEFINE t == Tail(s)
           n == Len(s)
<1>1. n \in Nat \ {0} /\ Head(s) = s[1]
  BY EmptySeq
<1>2. /\ t \in Seq(S) /\ Len(t) = n - 1
      /\ \A i \in 1..(n - 1) : t[i] = s[i + 1]
  <2>1. /\ t \in Seq(S) /\ Len(t) = n - 1
        /\ \A i \in 1..Len(t) : t[i] = s[i + 1]
    BY HeadTailProperties
  <2>2. QED
    BY <2>1
<1>3. \A i, j \in 1..n : s[i] = s[j] => i = j
  BY DEF Once
<1>4. Entries(s) = {s[i] : i \in 1..n} /\ Entries(t) = {t[j] : j \in 1..(n - 1)}
  BY <1>2 DEF Entries
<1> HIDE DEF t, n
<1>5. \A i, j \in 1..(n - 1) : t[i] = t[j] => i = j
  BY <1>1, <1>2, <1>3
<1>6. \A j \in 1..(n - 1) : t[j] \in {s[i] : i \in 1..n} \ {s[1]}
  BY <1>1, <1>2, <1>3
<1>7. \A i \in 1..n : i # 1 => \E j \in 1..(n - 1) : t[j] = s[i]
  <2> SUFFICES ASSUME NEW i \in 1..n, i # 1
               PROVE  \E j \in 1..(n - 1) : t[j] = s[i]
    OBVIOUS
  <2>1. i - 1 \in 1..(n - 1) /\ (i - 1) + 1 = i
    BY <1>1
  <2>2. t[i - 1] = s[i]
    BY <1>2, <2>1
  <2>3. QED
    BY <2>1, <2>2
<1>8. Entries(t) = Entries(s) \ {s[1]} /\ s[1] \in Entries(s)
  BY <1>1, <1>4, <1>6, <1>7
<1>9. Once(t)
  BY <1>2, <1>5 DEF Once
<1>10. QED
  BY <1>1, <1>2, <1>8, <1>9 DEF n, t

-----------------------------------------------------------------------------
(* The invariant holds at first *)

LEMMA DriverStarts == Init => DriverInv
<1> SUFFICES ASSUME Init
             PROVE  DriverInv
  OBVIOUS
<1> USE DEF Init, InitDriver
<1>1. DriverTypes
  <2>1. DOMAIN buf = Bufs /\ \A i \in Bufs : DOMAIN buf[i] = Fields
    BY DEF Fields
  <2>2. request \in [Descs -> [chain : Chains \cup {<< >>}, b : 0..NBUF, write : BOOLEAN]]
    BY DiskAssumption DEF NoRequest
  <2>3. avail \in Seq(Descs) /\ used \in Seq(Descs)
    BY EmptySeq
  <2>4. lru \in [Bufs -> Bufs]
    BY DiskAssumption DEF Bufs
  <2>5. pc \in [Procs -> Steps] /\ b \in [Procs -> Bufs] /\ write \in [Procs -> BOOLEAN]
    BY BufsAndDescs DEF Steps
  <2>6. QED
    BY <2>1, <2>2, <2>3, <2>4, <2>5 DEF DriverTypes
<1>2. Heads = { }
  BY DEF Heads
<1>3. Owners /\ Signalled
  BY DEF Owners, Holding, Waiting, Signalled
<1>4. Chained /\ Awaited
  BY <1>2 DEF Chained, Awaited
<1>5. Rings
  <2>1. Len(avail) = 0 /\ Len(used) = 0
    BY EmptySeq
  <2>2. Cardinality(busy) = 0
    BY FS_EmptySet
  <2>3. 1..0 = { }
    OBVIOUS
  <2>4. Entries(avail) = { } /\ Entries(used) = { }
    BY <2>1, <2>3 DEF Entries
  <2>5. Once(avail) /\ Once(used)
    BY <2>1, <2>3 DEF Once
  <2>6. QED
    BY <2>1, <2>2, <2>4, <2>5 DEF Rings, InRings
<1>6. QED
  BY <1>1, <1>3, <1>4, <1>5 DEF DriverInv

-----------------------------------------------------------------------------
(* The calls of bio.c leave the driver alone *)

\* A step of a process that is not inside a request, before and after.
LEMMA Outside ==
  ASSUME DriverInv, NEW p \in Procs, pc[p] \notin Waiting, pc'[p] \notin Waiting,
         \A q \in Procs \ {p} : pc'[q] = pc[q] /\ b'[q] = b[q],
         Cache, DriverTypes', Owners'
  PROVE  DriverInv'
<1> USE DEF DriverInv, Cache, rings
<1>1. UNCHANGED <<busy, free, request, avail, used, irq, handler>>
  OBVIOUS
<1>2. Heads' = Heads
  BY <1>1 DEF Heads
<1>3. Chained'
  <2>1. \A d : Chain(d)' = Chain(d)
    BY <1>1 DEF Chain
  <2>2. {Chain(d)' : d \in Heads} = {Chain(d) : d \in Heads}
    BY <2>1
  <2>3. free' = Descs \ UNION {Chain(d)' : d \in Heads'}
    BY <1>1, <1>2, <2>2 DEF Chained
  <2>4. QED
    BY <1>1, <1>2, <2>1, <2>3 DEF Chained
<1>4. Awaited'
  <2>1. ASSUME NEW d \in Heads
        PROVE  \E q \in Procs : b'[q] = request[d].b /\ pc'[q] \in Waiting
    BY DEF Awaited
  <2>2. QED
    BY <1>1, <1>2, <2>1 DEF Awaited
<1>5. Rings'
  <2>1. InRings' = InRings
    BY <1>1 DEF InRings, Entries
  <2>2. Once(avail) /\ Once(used) /\ Entries(avail) \cap Entries(used) = { }
    BY DEF Rings
  <2>3. Once(avail)' /\ Once(used)'
    BY <1>1, <2>2 DEF Once
  <2>4. Entries(avail)' = Entries(avail) /\ Entries(used)' = Entries(used)
    BY <1>1 DEF Entries
  <2>5. InRings' \subseteq Heads'
    BY <1>2, <2>1 DEF Rings
  <2>6. busy' = {request'[d].b : d \in InRings'}
    BY <1>1, <2>1 DEF Rings
  <2>7. Cardinality(busy') = Len(avail') + Len(used')
    BY <1>1 DEF Rings
  <2>8. QED
    BY <2>2, <2>3, <2>4, <2>5, <2>6, <2>7 DEF Rings
<1>6. Signalled'
  BY <1>1, <1>2 DEF Signalled, Waiting
<1>7. QED
  BY <1>3, <1>4, <1>5, <1>6

\* Buffers change in other fields than those of their owners.
LEMMA OwnersKept ==
  ASSUME Owners, b \in [Procs -> Bufs],
         \A q \in Procs : pc'[q] \in Holding => pc[q] \in Holding /\ b'[q] = b[q],
         \A i \in Bufs : buf'[i].owner = buf[i].owner
  PROVE  Owners'
BY DEF Owners

LEMMA VictimIsBuf ==
  ASSUME lru \in [Bufs -> Bufs], Unused # { }
  PROVE  Victim \in Bufs
<1>1. Unused \in SUBSET Bufs
  BY DEF Unused
<1>2. \E k \in Unused : \A j \in Unused : j <= k
  BY <1>1, GreatestOf
<1>3. QED
  BY <1>1, <1>2 DEF Victim

LEMMA CacheKeepsDriver ==
  ASSUME DriverInv, NEW p \in Procs, CacheStep(p)
  PROVE  DriverInv'
<1> USE DEF DriverInv, Goto, Cache, rings
<1>1. /\ DOMAIN buf = Bufs /\ \A i \in Bufs : DOMAIN buf[i] = Fields
      /\ pc \in [Procs -> Steps] /\ b \in [Procs -> Bufs] /\ write \in [Procs -> BOOLEAN]
      /\ lru \in [Bufs -> Bufs] /\ b[p] \in Bufs /\ 1 \in Bufs
      /\ p # 0 /\ Owners
  BY BufsAndDescs, DiskAssumption DEF DriverTypes
<1>2. ASSUME Cache, pc' \in [Procs -> Steps], b' \in [Procs -> Bufs],
             write' \in [Procs -> BOOLEAN], lru' \in [Bufs -> Bufs],
             DOMAIN buf' = Bufs, \A i \in Bufs : DOMAIN buf'[i] = Fields
      PROVE  DriverTypes'
  BY <1>2 DEF DriverTypes
<1>3. CASE BGet(p)
  <2> DEFINE n == call(p).block
             i == IF Found(n) # {} THEN CHOOSE j \in Found(n) : TRUE ELSE Victim
  <2>1. CASE Found(n) = {} /\ Unused = {}
    <3>1. pc' = [pc EXCEPT ![p] = "panic"] /\ UNCHANGED <<buf, b, write, lru>> /\ Cache
      BY <1>3, <2>1 DEF BGet
    <3>2. DriverTypes'
      BY <1>1, <1>2, <3>1 DEF Steps
    <3>3. Owners'
      BY <1>1, <3>1, OwnersKept DEF Holding, Waiting
    <3>4. QED
      BY <1>1, <1>3, <3>1, <3>2, <3>3, Outside DEF BGet, Waiting
  <2>2. CASE ~(Found(n) = {} /\ Unused = {})
    <3>1. i \in Bufs
      BY <1>1, <2>2, VictimIsBuf DEF Found
    <3>2. /\ pc' = [pc EXCEPT ![p] = "lock"] /\ b' = [b EXCEPT ![p] = i]
          /\ UNCHANGED <<write, lru>> /\ Cache /\ pc[p] = "user"
          /\ buf' = IF Found(n) # {} THEN [buf EXCEPT ![i].refcnt = @ + RefOnGet]
                    ELSE [buf EXCEPT ![i].refcnt = RefOnGet, ![i].blockno = n,
                                     ![i].valid = FALSE]
      BY <1>3, <2>2 DEF BGet
    <3> HIDE DEF i, n
    <3>3. DOMAIN buf' = Bufs /\ \A j \in Bufs : DOMAIN buf'[j] = Fields
      BY <1>1, <3>1, <3>2 DEF Fields
    <3>4. \A j \in Bufs : buf'[j].owner = buf[j].owner
      BY <1>1, <3>1, <3>2 DEF Fields
    <3>5. DriverTypes'
      BY <1>1, <1>2, <3>1, <3>2, <3>3 DEF Steps
    <3>6. Owners'
      BY <1>1, <3>2, <3>4, OwnersKept DEF Holding, Waiting
    <3>7. QED
      BY <1>1, <3>2, <3>5, <3>6, Outside DEF Waiting
  <2>3. QED
    BY <2>1, <2>2
<1>4. CASE Lock(p)
  <2>1. /\ pc[p] = "lock" /\ buf[b[p]].owner = 0 /\ UNCHANGED <<b, lru>> /\ Cache
        /\ write' = [write EXCEPT ![p] = FALSE]
        /\ \E s \in {"have", "rw"} : pc' = [pc EXCEPT ![p] = s]
        /\ buf' = [buf EXCEPT ![b[p]].owner = p, ![b[p]].refcnt = @ + 1 - RefOnGet]
    BY <1>4 DEF Lock
  <2>2. /\ DOMAIN buf' = Bufs /\ \A j \in Bufs : DOMAIN buf'[j] = Fields
        /\ \A j \in Bufs : buf'[j].owner = IF j = b[p] THEN p ELSE buf[j].owner
    BY <1>1, <2>1 DEF Fields
  <2>3. DriverTypes'
    BY <1>1, <1>2, <2>1, <2>2 DEF Steps
  <2>4. Owners'
    <3>1. ASSUME NEW q \in Procs, q # p, pc'[q] \in Holding
          PROVE  buf'[b'[q]].owner = q
      <4>1. buf[b[q]].owner = q /\ b[q] \in Bufs /\ b'[q] = b[q] /\ q # 0
        BY <1>1, <2>1, <3>1, DiskAssumption DEF Owners
      <4>2. QED
        BY <2>1, <2>2, <4>1
    <3>2. buf'[b'[p]].owner = p
      BY <1>1, <2>1, <2>2
    <3>3. QED
      BY <3>1, <3>2 DEF Owners
  <2>5. QED
    BY <1>1, <2>1, <2>3, <2>4, Outside DEF Waiting
<1>5. CASE ChangeAndWrite(p) \/ ChangeAndPin(p) \/ BUnpin(p)
  <2>1. /\ pc[p] \in {"have", "written"} /\ UNCHANGED <<b, lru>> /\ Cache
        /\ write' \in [Procs -> BOOLEAN]
        /\ \E s \in {"rw", "release"} : pc' = [pc EXCEPT ![p] = s]
    BY <1>1, <1>5 DEF ChangeAndWrite, ChangeAndPin, BUnpin
  <2>2. /\ DOMAIN buf' = Bufs /\ \A j \in Bufs : DOMAIN buf'[j] = Fields
        /\ \A j \in Bufs : buf'[j].owner = buf[j].owner
    <3>1. CASE ChangeAndWrite(p)
      <4> DEFINE r == Changed(b[p])
      <4>1. DOMAIN r = Fields /\ r.owner = buf[b[p]].owner
        BY <1>1 DEF Changed, Fields
      <4>2. \/ buf' = [buf EXCEPT ![b[p]] = r]
            \/ buf' = [buf EXCEPT ![b[p]].valid = TRUE]
        BY <3>1 DEF ChangeAndWrite
      <4> HIDE DEF r
      <4>3. QED
        BY <1>1, <4>1, <4>2 DEF Fields
    <3>2. CASE ChangeAndPin(p)
      BY <1>1, <3>2 DEF ChangeAndPin, Changed, Fields
    <3>3. CASE BUnpin(p)
      BY <1>1, <3>3 DEF BUnpin, Fields
    <3>4. QED
      BY <1>5, <3>1, <3>2, <3>3
  <2>3. DriverTypes'
    BY <1>1, <1>2, <2>1, <2>2 DEF Steps
  <2>4. Owners'
    BY <1>1, <2>1, <2>2, OwnersKept DEF Holding
  <2>5. QED
    BY <1>1, <2>1, <2>3, <2>4, Outside DEF Waiting
<1>6. CASE ReleaseSleep(p)
  <2>1. /\ pc[p] \in {"release", "have", "written"} /\ UNCHANGED <<b, write, lru>> /\ Cache
        /\ pc' = [pc EXCEPT ![p] = "put"]
        /\ buf' = [buf EXCEPT ![b[p]].owner = 0, ![b[p]].valid = TRUE]
    BY <1>6 DEF ReleaseSleep
  <2>2. /\ DOMAIN buf' = Bufs /\ \A j \in Bufs : DOMAIN buf'[j] = Fields
        /\ \A j \in Bufs : buf'[j].owner = IF j = b[p] THEN 0 ELSE buf[j].owner
    BY <1>1, <2>1 DEF Fields
  <2>3. DriverTypes'
    BY <1>1, <1>2, <2>1, <2>2 DEF Steps
  <2>4. Owners'
    <3>1. buf[b[p]].owner = p
      BY <1>1, <2>1 DEF Owners, Holding
    <3>2. ASSUME NEW q \in Procs, pc'[q] \in Holding
          PROVE  buf'[b'[q]].owner = q
      <4>1. q # p
        BY <1>1, <2>1, <3>2 DEF Holding, Waiting
      <4>2. buf[b[q]].owner = q /\ b[q] \in Bufs /\ b'[q] = b[q]
        BY <1>1, <2>1, <3>2, <4>1 DEF Owners
      <4>3. QED
        BY <2>2, <3>1, <4>1, <4>2
    <3>3. QED
      BY <3>2 DEF Owners
  <2>5. QED
    BY <1>1, <2>1, <2>3, <2>4, Outside DEF Waiting
<1>7. CASE Put(p)
  <2>1. /\ pc[p] = "put" /\ Cache
        /\ pc' = [pc EXCEPT ![p] = "user"] /\ b' = [b EXCEPT ![p] = 1]
        /\ write' = [write EXCEPT ![p] = FALSE]
        /\ buf' = [buf EXCEPT ![b[p]].refcnt = @ - 1]
        /\ lru' = ToFront(b[p]) \/ lru' = lru
    BY <1>7 DEF Put
  <2>2. /\ DOMAIN buf' = Bufs /\ \A j \in Bufs : DOMAIN buf'[j] = Fields
        /\ \A j \in Bufs : buf'[j].owner = buf[j].owner
    BY <1>1, <2>1 DEF Fields
  <2>3. ToFront(b[p]) \in [Bufs -> Bufs]
    <3>1. \A k \in Bufs : k = 1 \/ k - 1 \in Bufs
      BY DiskAssumption DEF Bufs
    <3>2. QED
      BY <1>1, <3>1 DEF ToFront
  <2>4. DriverTypes'
    BY <1>1, <1>2, <2>1, <2>2, <2>3 DEF Steps
  <2>5. Owners'
    BY <1>1, <2>1, <2>2, OwnersKept DEF Holding, Waiting
  <2>6. QED
    BY <1>1, <2>1, <2>4, <2>5, Outside DEF Waiting
<1>8. QED
  BY <1>3, <1>4, <1>5, <1>6, <1>7 DEF CacheStep

-----------------------------------------------------------------------------
(* Steps of the driver that make and end no request *)

LEMMA RingsStay ==
  ASSUME Rings, UNCHANGED <<busy, request, avail, used>>, Heads' = Heads
  PROVE  Rings'
<1>1. Entries(avail)' = Entries(avail) /\ Entries(used)' = Entries(used)
  BY DEF Entries
<1>2. Once(avail)' /\ Once(used)'
  BY DEF Rings, Once
<1>3. InRings' = InRings
  BY <1>1 DEF InRings
<1>4. busy' = {request'[d].b : d \in InRings'}
  BY <1>3 DEF Rings
<1>5. QED
  BY <1>1, <1>2, <1>3, <1>4 DEF Rings

\* Processes fall asleep and wake, and no request is made or ended.
LEMMA SleepAndWake ==
  ASSUME DriverInv, UNCHANGED <<buf, busy, rings, b, write, lru, irq, handler>>,
         pc' \in [Procs -> Steps],
         \A q \in Procs : pc'[q] \in Waiting <=> pc[q] \in Waiting,
         \A q \in Procs : pc'[q] \in Holding => pc[q] \in Holding,
         \A q \in Procs : pc'[q] = "sleep_buf" => b[q] \in busy
  PROVE  DriverInv'
<1> USE DEF DriverInv, rings
<1>1. UNCHANGED <<buf, busy, free, request, avail, used, b, write, lru, irq, handler>>
  OBVIOUS
<1>2. Heads' = Heads
  BY <1>1 DEF Heads
<1>3. DriverTypes'
  BY <1>1 DEF DriverTypes
<1>4. Owners'
  BY <1>1 DEF Owners
<1>5. Chained'
  <2>1. \A d : Chain(d)' = Chain(d)
    BY <1>1 DEF Chain
  <2>2. {Chain(d)' : d \in Heads} = {Chain(d) : d \in Heads}
    BY <2>1
  <2>3. free' = Descs \ UNION {Chain(d)' : d \in Heads'}
    BY <1>1, <1>2, <2>2 DEF Chained
  <2>4. QED
    BY <1>1, <1>2, <2>1, <2>3 DEF Chained
<1>6. Awaited'
  BY <1>1, <1>2 DEF Awaited
<1>7. Rings'
  BY <1>1, <1>2, RingsStay
<1>8. Signalled'
  BY <1>1 DEF Signalled
<1>9. QED
  BY <1>3, <1>4, <1>5, <1>6, <1>7, <1>8

LEMMA NoDescriptorsKeeps ==
  ASSUME DriverInv, NEW p \in Procs, NoDescriptors(p), UNCHANGED lru
  PROVE  DriverInv'
<1>1. pc \in [Procs -> Steps] /\ pc[p] = "rw"
      /\ UNCHANGED <<buf, busy, rings, b, write, lru, irq, handler>>
  BY DEF NoDescriptors, DriverInv, DriverTypes
<1>2. \/ pc' = [pc EXCEPT ![p] = "sleep_free"]
      \/ pc' = [q \in Procs |-> IF q = p THEN "sleep_free"
                                ELSE IF pc[q] = "sleep_free" THEN "rw" ELSE pc[q]]
  BY DEF NoDescriptors, WakeWaitersAndGoto
<1>3. \A q \in Procs : \/ pc'[q] = pc[q] /\ q # p
                       \/ pc'[q] = "sleep_free" /\ q = p
                       \/ pc'[q] = "rw" /\ pc[q] = "sleep_free" /\ q # p
  BY <1>1, <1>2
<1>4. pc' \in [Procs -> Steps]
  BY <1>1, <1>2 DEF Steps
<1>5. /\ \A q \in Procs : pc'[q] \in Waiting <=> pc[q] \in Waiting
      /\ \A q \in Procs : pc'[q] \in Holding => pc[q] \in Holding
      /\ \A q \in Procs : pc'[q] = "sleep_buf" => pc[q] = "sleep_buf"
  BY <1>1, <1>3 DEF Waiting, Holding
<1>6. QED
  BY <1>1, <1>4, <1>5, SleepAndWake DEF DriverInv, Signalled

\* The interrupt and the completion of the device change neither requests
\* nor processes.
LEMMA RequestsStay ==
  ASSUME DriverInv, UNCHANGED <<free, request, pc, b>>
  PROVE  Heads' = Heads /\ Chained' /\ Awaited'
<1> USE DEF DriverInv
<1>1. Heads' = Heads
  BY DEF Heads
<1>2. Chained'
  <2>1. \A d : Chain(d)' = Chain(d)
    BY DEF Chain
  <2>2. {Chain(d)' : d \in Heads} = {Chain(d) : d \in Heads}
    BY <2>1
  <2>3. free' = Descs \ UNION {Chain(d)' : d \in Heads'}
    BY <1>1, <2>2 DEF Chained
  <2>4. QED
    BY <1>1, <2>1, <2>3 DEF Chained
<1>3. Awaited'
  BY <1>1 DEF Awaited
<1>4. QED
  BY <1>1, <1>2, <1>3

LEMMA InterruptBounds ==
  ASSUME DriverInv, IntrEnter \/ IntrExit, UNCHANGED lru
  PROVE  DriverInv'
<1> USE DEF DriverInv
<1>1. /\ UNCHANGED <<buf, busy, free, request, avail, used, pc, b, write, lru>>
      /\ irq' \in BOOLEAN /\ handler' \in BOOLEAN
      /\ used # << >> => irq' \/ handler'
  BY DEF IntrEnter, IntrExit, rings, DriverTypes
<1>2. DriverTypes'
  BY <1>1 DEF DriverTypes
<1>3. Owners'
  BY <1>1 DEF Owners
<1>4. Heads' = Heads /\ Chained' /\ Awaited'
  BY <1>1, RequestsStay
<1>5. Rings'
  BY <1>1, <1>4, RingsStay
<1>6. Signalled'
  BY <1>1 DEF Signalled
<1>7. QED
  BY <1>2, <1>3, <1>4, <1>5, <1>6

LEMMA DeviceKeeps ==
  ASSUME DriverInv, Device, UNCHANGED lru
  PROVE  DriverInv'
<1> USE DEF DriverInv
<1>1. PICK k \in 1..Len(avail) :
        /\ avail' = Without(avail, k) /\ used' = Append(used, avail[k])
        /\ \/ UNCHANGED buf
           \/ buf' = [buf EXCEPT ![request[avail[k]].b].data = disk[buf[request[avail[k]].b].blockno]]
  BY DEF Device, Without
<1>2. UNCHANGED <<busy, free, request, pc, b, write, handler, lru>> /\ irq' = TRUE
  BY DEF Device
<1> DEFINE d == avail[k]
<1>3. /\ avail \in Seq(Descs) /\ used \in Seq(Descs) /\ d \in Descs /\ d \in Entries(avail)
      /\ Len(avail) \in Nat /\ Len(used) \in Nat
  BY LenProperties DEF DriverTypes, Entries
<1>4. Once(avail) /\ Once(used) /\ d \notin Entries(used)
  BY <1>3 DEF Rings
<1>5. /\ avail' \in Seq(Descs) /\ Len(avail') = Len(avail) - 1
      /\ Entries(avail') = Entries(avail) \ {d} /\ Once(avail')
  BY <1>1, <1>3, <1>4, RingLoses
<1>6. /\ used' \in Seq(Descs) /\ Len(used') = Len(used) + 1
      /\ Entries(used') = Entries(used) \cup {d} /\ Once(used')
  BY <1>1, <1>3, <1>4, RingGets
<1>7. /\ DOMAIN buf' = Bufs /\ \A i \in Bufs : DOMAIN buf'[i] = Fields
      /\ \A i \in Bufs : buf'[i].owner = buf[i].owner
  <2> DEFINE c == disk[buf[request[d].b].blockno]
             x == request[d].b
  <2>1. buf' = buf \/ buf' = [buf EXCEPT ![x].data = c]
    BY <1>1
  <2>2. x \in Bufs
    BY <1>3 DEF Rings, InRings, Chained
  <2>3. DOMAIN buf = Bufs /\ \A i \in Bufs : DOMAIN buf[i] = Fields
    BY DEF DriverTypes
  <2> HIDE DEF c, x
  <2>4. QED
    BY <2>1, <2>2, <2>3 DEF Fields
<1> HIDE DEF d
<1>8. DriverTypes'
  BY <1>2, <1>5, <1>6, <1>7 DEF DriverTypes
<1>9. Owners'
  BY <1>2, <1>7, OwnersKept DEF DriverTypes
<1>10. Heads' = Heads /\ Chained' /\ Awaited'
  BY <1>2, RequestsStay
<1>11. Rings'
  <2>1. InRings' = InRings
    BY <1>3, <1>5, <1>6 DEF InRings
  <2>2. Len(avail') + Len(used') = Len(avail) + Len(used)
    BY <1>3, <1>5, <1>6
  <2>3. Entries(avail)' \cap Entries(used)' = { }
    <3>1. Entries(avail) \cap Entries(used) = { }
      BY DEF Rings
    <3>2. Entries(avail') \cap Entries(used') = { }
      BY <1>5, <1>6, <3>1
    <3>3. QED
      BY <3>2
  <2>4. busy' = {request'[e].b : e \in InRings'}
    BY <1>2, <2>1 DEF Rings
  <2>5. Once(avail)' /\ Once(used)' /\ InRings' \subseteq Heads'
    BY <1>5, <1>6, <1>10, <2>1 DEF Rings
  <2>6. Cardinality(busy') = Len(avail') + Len(used')
    BY <1>2, <2>2 DEF Rings
  <2>7. QED
    BY <2>3, <2>4, <2>5, <2>6 DEF Rings
<1>12. Signalled'
  BY <1>2 DEF Signalled
<1>13. QED
  BY <1>8, <1>9, <1>10, <1>11, <1>12

LEMMA IntrEntryKeeps ==
  ASSUME DriverInv, IntrEntry, UNCHANGED lru
  PROVE  DriverInv'
<1> USE DEF DriverInv
<1> DEFINE h == Head(used)
           i == request[h].b
<1>1. /\ handler /\ used # << >> /\ busy' = busy \ {i} /\ used' = Tail(used)
      /\ pc' = [q \in Procs |-> IF pc[q] = "sleep_buf" /\ b[q] = i THEN "woken_buf" ELSE pc[q]]
      /\ UNCHANGED <<buf, free, request, avail, irq, handler, b, write, lru>>
  BY DEF IntrEntry
<1>2. /\ avail \in Seq(Descs) /\ used \in Seq(Descs) /\ pc \in [Procs -> Steps]
      /\ Len(avail) \in Nat /\ Len(used) \in Nat /\ busy \subseteq Bufs
  BY LenProperties DEF DriverTypes
<1>3. /\ used' \in Seq(Descs) /\ Len(used') = Len(used) - 1
      /\ Entries(used') = Entries(used) \ {h} /\ Once(used') /\ h \in Entries(used)
  BY <1>1, <1>2, RingLosesFirst DEF Rings
<1>4. h \in InRings /\ h \in Heads /\ i \in busy
  BY <1>3 DEF Rings, InRings
<1>5. InRings' = InRings \ {h}
  <2>1. Entries(avail') = Entries(avail) /\ h \notin Entries(avail)
    BY <1>1, <1>3 DEF Rings
  <2>2. QED
    BY <1>3, <2>1 DEF InRings
<1> HIDE DEF h
<1>6. \A q \in Procs : /\ pc'[q] \in Waiting <=> pc[q] \in Waiting
                       /\ pc'[q] \in Holding => pc[q] \in Holding
                       /\ pc'[q] = "sleep_buf" => pc[q] = "sleep_buf" /\ b[q] # i
                       /\ pc'[q] \in Steps
  BY <1>1, <1>2 DEF Waiting, Holding, Steps
<1> HIDE DEF i
<1>7. DriverTypes'
  <2>1. pc' \in [Procs -> Steps]
    BY <1>1, <1>6
  <2>2. QED
    BY <1>1, <1>2, <1>3, <2>1 DEF DriverTypes
<1>8. Owners'
  BY <1>1, <1>6 DEF Owners
<1>9. Heads' = Heads
  BY <1>1 DEF Heads
<1>10. Chained'
  <2>1. \A d : Chain(d)' = Chain(d)
    BY <1>1 DEF Chain
  <2>2. {Chain(d)' : d \in Heads} = {Chain(d) : d \in Heads}
    BY <2>1
  <2>3. free' = Descs \ UNION {Chain(d)' : d \in Heads'}
    BY <1>1, <1>9, <2>2 DEF Chained
  <2>4. QED
    BY <1>1, <1>9, <2>1, <2>3 DEF Chained
<1>11. Awaited'
  BY <1>1, <1>6, <1>9 DEF Awaited
<1>12. Rings'
  <2>1. busy' = {request'[d].b : d \in InRings'}
    <3>1. \A d \in InRings : request[d].b = i => d = h
      BY <1>4 DEF Rings, Awaited, i
    <3>2. QED
      BY <1>1, <1>4, <1>5, <3>1 DEF Rings, i
  <2>2. Cardinality(busy') = Cardinality(busy) - 1
    <3>1. IsFiniteSet(busy)
      BY <1>2, BufsAndDescs, FS_Subset
    <3>2. QED
      BY <1>1, <1>4, <3>1, FS_RemoveElement
  <2>3. Cardinality(busy') = Len(avail') + Len(used')
    BY <1>1, <1>2, <1>3, <2>2 DEF Rings
  <2>4. Once(avail)' /\ Entries(avail)' \cap Entries(used)' = { } /\ InRings' \subseteq Heads'
    <3>1. Entries(avail)' = Entries(avail) /\ Once(avail)'
      BY <1>1 DEF Rings, Once, Entries
    <3>2. QED
      BY <1>3, <1>5, <1>9, <3>1 DEF Rings
  <2>5. QED
    BY <1>3, <2>1, <2>3, <2>4 DEF Rings, Once
<1>13. Signalled'
  BY <1>1, <1>6 DEF Signalled
<1>14. QED
  BY <1>7, <1>8, <1>10, <1>11, <1>12, <1>13

-----------------------------------------------------------------------------
(* A request is made, and ended *)

LEMMA SubmitKeeps ==
  ASSUME DriverInv, NEW p \in Procs, Submit(p), UNCHANGED lru
  PROVE  DriverInv'
<1> USE DEF DriverInv
<1>1. PICK d0 \in free, d1 \in free, d2 \in free :
        /\ d0 # d1 /\ d0 # d2 /\ d1 # d2
        /\ pc[p] = "rw" /\ free' = free \ {d0, d1, d2}
        /\ request' = [request EXCEPT ![d0] =
                         [chain |-> <<d0, d1, d2>>, b |-> b[p], write |-> write[p]]]
        /\ busy' = busy \cup {b[p]} /\ avail' = Append(avail, d0)
        /\ pc' = [pc EXCEPT ![p] = "sleep_buf"]
        /\ UNCHANGED <<buf, used, irq, handler, b, write, lru>>
  <2> DEFINE e0 == Lowest(free)
             e1 == Lowest(free \ {e0})
             e2 == Lowest(free \ {e0, e1})
  <2>1. free \in SUBSET Descs /\ Cardinality(free) >= 3
    BY DEF Submit, DriverTypes
  <2>2. e0 \in free /\ e1 \in free \ {e0} /\ e2 \in free \ {e0, e1}
    BY <2>1, ThreeFree
  <2>3. /\ pc[p] = "rw" /\ free' = free \ {e0, e1, e2}
        /\ request' = [request EXCEPT ![e0] = [chain |-> <<e0, e1, e2>>, b |-> b[p], write |-> write[p]]]
        /\ busy' = busy \cup {b[p]} /\ avail' = Append(avail, e0)
        /\ pc' = [pc EXCEPT ![p] = "sleep_buf"]
        /\ UNCHANGED <<buf, used, irq, handler, b, write, lru>>
    BY DEF Submit
  <2> HIDE DEF e0, e1, e2
  <2>4. QED
    BY <2>2, <2>3
<1> DEFINE r == [chain |-> <<d0, d1, d2>>, b |-> b[p], write |-> write[p]]
<1>2. /\ d0 \in free /\ d1 \in free /\ d2 \in free /\ d0 # d1 /\ d0 # d2 /\ d1 # d2
      /\ free \subseteq Descs
  BY <1>1 DEF DriverTypes
<1>3. /\ avail \in Seq(Descs) /\ used \in Seq(Descs) /\ pc \in [Procs -> Steps]
      /\ b \in [Procs -> Bufs] /\ write \in [Procs -> BOOLEAN]
      /\ request \in [Descs -> [chain : Chains \cup {<< >>}, b : 0..NBUF, write : BOOLEAN]]
      /\ Len(avail) \in Nat /\ Len(used) \in Nat /\ busy \subseteq Bufs
      /\ b[p] \in Bufs /\ 0 \notin Bufs /\ d0 \in Descs
  BY <1>2, LenProperties, BufsAndDescs DEF DriverTypes
<1>4. r.chain \in Chains /\ r.chain[1] = d0 /\ r.b = b[p] /\ r # NoRequest
      /\ r \in [chain : Chains \cup {<< >>}, b : 0..NBUF, write : BOOLEAN]
      /\ {r.chain[k] : k \in 1..3} = {d0, d1, d2}
  <2>1. <<d0, d1, d2>> \in Chains
    BY <1>2 DEF Chains
  <2>2. r # NoRequest
    BY <1>1, <1>3 DEF NoRequest
  <2>3. 1..3 = {1, 2, 3}
    OBVIOUS
  <2>4. {r.chain[k] : k \in 1..3} = {d0, d1, d2}
    BY <1>1, <2>3
  <2>5. r \in [chain : Chains \cup {<< >>}, b : 0..NBUF, write : BOOLEAN]
    BY <1>1, <1>3, <2>1, BufsAndDescs
  <2>6. QED
    BY <1>1, <2>1, <2>2, <2>4, <2>5
<1>5. request' = [request EXCEPT ![d0] = r]
  BY <1>1
<1> HIDE DEF r
<1>6. d0 \notin Heads
  <2>1. \A d \in Heads : d \in Chain(d)
    BY DEF Chained, Chain
  <2>2. QED
    BY <1>2, <2>1 DEF Chained
<1>7. /\ Heads' = Heads \cup {d0} /\ request'[d0] = r
      /\ \A d \in Descs : d # d0 => request'[d] = request[d]
  BY <1>5, <1>3, <1>4 DEF Heads
<1>8. \A d \in Heads : request[d].b # b[p]
  <2> SUFFICES ASSUME NEW d \in Heads, request[d].b = b[p]
               PROVE  FALSE
    OBVIOUS
  <2>1. PICK q \in Procs : b[q] = b[p] /\ pc[q] \in Waiting
    BY DEF Awaited
  <2>2. buf[b[p]].owner = q /\ buf[b[p]].owner = p
    BY <1>1, <2>1 DEF Owners, Holding
  <2>3. QED
    BY <1>1, <2>1, <2>2 DEF Waiting
<1>9. b[p] \notin busy /\ d0 \notin Entries(avail) /\ d0 \notin Entries(used)
  BY <1>6, <1>8 DEF Rings, InRings
<1>10. /\ avail' \in Seq(Descs) /\ Len(avail') = Len(avail) + 1
      /\ Entries(avail') = Entries(avail) \cup {d0} /\ Once(avail')
  BY <1>1, <1>3, <1>9, RingGets DEF Rings
<1>11. DriverTypes'
  <2>1. pc' \in [Procs -> Steps] /\ busy' \subseteq Bufs /\ free' \subseteq Descs
    BY <1>1, <1>2, <1>3 DEF Steps
  <2>2. request' \in [Descs -> [chain : Chains \cup {<< >>}, b : 0..NBUF, write : BOOLEAN]]
    BY <1>3, <1>4, <1>5
  <2>3. QED
    BY <1>1, <1>3, <1>10, <2>1, <2>2 DEF DriverTypes
<1>12. Owners'
  <2>1. \A q \in Procs : pc'[q] \in Holding => pc[q] \in Holding
    BY <1>1, <1>3 DEF Holding
  <2>2. QED
    BY <1>1, <1>3, <2>1, OwnersKept
<1>13. Chained'
  <2>1. (\A d \in Heads : Chain(d)' = Chain(d)) /\ Chain(d0)' = {d0, d1, d2}
    <3>1. \A d \in Heads : request'[d] = request[d]
      BY <1>6, <1>7 DEF Heads
    <3>2. \A d \in Heads : Chain(d)' = Chain(d)
      BY <3>1 DEF Chain
    <3>3. Chain(d0)' = {r.chain[k] : k \in 1..3}
      BY <1>7 DEF Chain
    <3>4. QED
      BY <1>4, <3>2, <3>3
  <2>2. \A d \in Heads : Chain(d) \cap {d0, d1, d2} = { }
    BY <1>2 DEF Chained
  <2>3. \A d \in Heads' : request'[d].chain \in Chains /\ request'[d].chain[1] = d /\ request'[d].b \in Bufs
    BY <1>3, <1>4, <1>6, <1>7 DEF Chained, Heads
  <2>4. ASSUME NEW d \in Heads', NEW e \in Heads', d # e
        PROVE  Chain(d)' \cap Chain(e)' = { }
    <3>1. CASE d \in Heads /\ e \in Heads
      BY <2>1, <2>4, <3>1 DEF Chained
    <3>2. CASE d = d0 /\ e \in Heads
      BY <2>1, <2>2, <3>2
    <3>3. CASE d \in Heads /\ e = d0
      BY <2>1, <2>2, <3>3
    <3>4. QED
      BY <1>7, <2>4, <3>1, <3>2, <3>3
  <2>5. UNION {Chain(d)' : d \in Heads'} = (UNION {Chain(d) : d \in Heads}) \cup {d0, d1, d2}
    <3>1. {Chain(d)' : d \in Heads'} = {Chain(d)' : d \in Heads} \cup {Chain(d0)'}
      BY <1>7
    <3>2. {Chain(d)' : d \in Heads} = {Chain(d) : d \in Heads}
      BY <2>1
    <3>3. QED
      BY <2>1, <3>1, <3>2
  <2>6. free' = Descs \ UNION {Chain(d)' : d \in Heads'}
    BY <1>1, <2>5 DEF Chained
  <2>7. QED
    BY <2>3, <2>4, <2>6 DEF Chained
<1>14. Awaited'
  <2>1. \A d, e \in Heads' : request'[d].b = request'[e].b => d = e
    BY <1>4, <1>6, <1>7, <1>8 DEF Awaited, Heads
  <2>2. ASSUME NEW d \in Heads'
        PROVE  \E q \in Procs : b'[q] = request'[d].b /\ pc'[q] \in Waiting
    <3>1. CASE d = d0
      BY <1>1, <1>3, <1>4, <1>7, <3>1 DEF Waiting
    <3>2. CASE d # d0
      <4>1. PICK q \in Procs : b[q] = request[d].b /\ pc[q] \in Waiting
        BY <1>7, <3>2 DEF Awaited
      <4>2. pc'[q] \in Waiting /\ b'[q] = request'[d].b
        BY <1>1, <1>3, <1>7, <3>2, <4>1 DEF Waiting, Heads
      <4>3. QED
        BY <4>2
    <3>3. QED
      BY <3>1, <3>2
  <2>3. QED
    BY <2>1, <2>2 DEF Awaited
<1>15. Rings'
  <2>1. InRings' = InRings \cup {d0}
    <3>1. Entries(used') = Entries(used)
      BY <1>1
    <3>2. QED
      BY <1>10, <3>1 DEF InRings
  <2>2. busy' = {request'[d].b : d \in InRings'}
    <3>1. \A d \in InRings : request'[d].b = request[d].b
      BY <1>6, <1>7 DEF Rings, Heads
    <3>2. {request'[d].b : d \in InRings'} = {request[d].b : d \in InRings} \cup {b[p]}
      BY <1>4, <1>7, <2>1, <3>1
    <3>3. QED
      BY <1>1, <3>2 DEF Rings
  <2>3. Cardinality(busy') = Cardinality(busy) + 1
    <3>1. IsFiniteSet(busy)
      BY <1>3, BufsAndDescs, FS_Subset
    <3>2. QED
      BY <1>1, <1>9, <3>1, FS_AddElement
  <2>4. Cardinality(busy') = Len(avail') + Len(used')
    BY <1>1, <1>3, <1>10, <2>3 DEF Rings
  <2>5. Once(used)' /\ Entries(avail)' \cap Entries(used)' = { }
    <3>1. Entries(used)' = Entries(used) /\ Once(used)'
      BY <1>1 DEF Rings, Once, Entries
    <3>2. QED
      BY <1>9, <1>10, <3>1 DEF Rings
  <2>6. Once(avail)' /\ InRings' \subseteq Heads'
    BY <1>7, <1>10, <2>1 DEF Rings
  <2>7. QED
    BY <2>2, <2>4, <2>5, <2>6 DEF Rings
<1>16. Signalled'
  BY <1>1, <1>3 DEF Signalled
<1>17. QED
  BY <1>11, <1>12, <1>13, <1>14, <1>15, <1>16

LEMMA CompleteKeeps ==
  ASSUME DriverInv, NEW p \in Procs, Complete(p), UNCHANGED lru
  PROVE  DriverInv'
<1> USE DEF DriverInv
<1>1. /\ pc \in [Procs -> Steps] /\ pc[p] = "woken_buf" /\ b \in [Procs -> Bufs]
      /\ b[p] \in Bufs /\ 0 \notin Bufs
      /\ UNCHANGED <<buf, busy, avail, used, irq, handler, b, write, lru>>
  BY BufsAndDescs DEF Complete, DriverTypes
<1>2. CASE b[p] \in busy
  <2>1. pc' = [pc EXCEPT ![p] = "sleep_buf"] /\ UNCHANGED <<free, request>>
    BY <1>2 DEF Complete
  <2>2. /\ \A q \in Procs : pc'[q] \in Waiting <=> pc[q] \in Waiting
        /\ \A q \in Procs : pc'[q] \in Holding => pc[q] \in Holding
        /\ \A q \in Procs : pc'[q] = "sleep_buf" => b[q] \in busy
    BY <1>1, <1>2, <2>1 DEF Waiting, Holding, Signalled
  <2>3. pc' \in [Procs -> Steps] /\ UNCHANGED rings
    BY <1>1, <2>1 DEF Steps, rings
  <2>4. QED
    BY <1>1, <2>2, <2>3, SleepAndWake
<1>3. CASE b[p] \notin busy
  <2>1. PICK d \in Descs :
          /\ request[d].b = b[p] /\ free' = free \cup Chain(d)
          /\ request' = [request EXCEPT ![d] = NoRequest]
          /\ WakeWaitersAndGoto(p, IF write[p] THEN "written" ELSE "have")
    BY <1>3 DEF Complete
  <2>2. /\ \A q \in Procs \ {p} : \/ pc'[q] = pc[q]
                                  \/ pc'[q] = "rw" /\ pc[q] = "sleep_free"
        /\ pc'[p] \in {"written", "have"} /\ pc' \in [Procs -> Steps]
    BY <1>1, <2>1 DEF WakeWaitersAndGoto, Steps
  <2>3. d \in Heads
    BY <1>1, <2>1 DEF Heads, NoRequest
  <2>4. request \in [Descs -> [chain : Chains \cup {<< >>}, b : 0..NBUF, write : BOOLEAN]]
    BY DEF DriverTypes
  <2>5. /\ Heads' = Heads \ {d}
        /\ \A e \in Descs : e # d => request'[e] = request[e]
    BY <2>1, <2>4 DEF Heads
  <2>6. d \notin InRings
    BY <1>3, <2>1 DEF Rings
  <2>7. DriverTypes'
    <3>1. Chain(d) \subseteq Descs
      <4>1. request[d].chain \in Chains
        BY <2>3 DEF Chained
      <4>2. QED
        BY <4>1 DEF Chain, Chains
    <3>2. free' \subseteq Descs
      BY <2>1, <3>1 DEF DriverTypes
    <3>3. NoRequest \in [chain : Chains \cup {<< >>}, b : 0..NBUF, write : BOOLEAN]
      BY DiskAssumption DEF NoRequest
    <3>4. request' \in [Descs -> [chain : Chains \cup {<< >>}, b : 0..NBUF, write : BOOLEAN]]
      BY <2>1, <2>4, <3>3
    <3>5. QED
      BY <1>1, <2>2, <3>2, <3>4 DEF DriverTypes
  <2>8. Owners'
    <3>1. \A q \in Procs : pc'[q] \in Holding => pc[q] \in Holding
      BY <1>1, <2>2 DEF Holding, Waiting
    <3>2. QED
      BY <1>1, <3>1, OwnersKept
  <2>9. Chained'
    <3>1. \A e \in Heads' : Chain(e)' = Chain(e)
      BY <2>5 DEF Chain, Heads
    <3>2. \A e \in Heads' : request'[e].chain \in Chains /\ request'[e].chain[1] = e /\ request'[e].b \in Bufs
      BY <2>5 DEF Chained, Heads
    <3>3. \A e, f \in Heads' : e # f => Chain(e)' \cap Chain(f)' = { }
      BY <2>5, <3>1 DEF Chained
    <3>4. UNION {Chain(e)' : e \in Heads'} = UNION {Chain(e) : e \in Heads \ {d}}
      BY <2>5, <3>1
    <3>5. UNION {Chain(e) : e \in Heads} = (UNION {Chain(e) : e \in Heads \ {d}}) \cup Chain(d)
      BY <2>3
    <3>6. \A e \in Heads \ {d} : Chain(e) \cap Chain(d) = { }
      BY <2>3 DEF Chained
    <3>7. (UNION {Chain(e) : e \in Heads \ {d}}) \cap Chain(d) = { }
      BY <3>6
    <3>8. Chain(d) \subseteq Descs
      <4>1. request[d].chain \in Chains
        BY <2>3 DEF Chained
      <4>2. QED
        BY <4>1 DEF Chain, Chains
    <3>9. free' = Descs \ UNION {Chain(e)' : e \in Heads'}
      BY <2>1, <3>4, <3>5, <3>7, <3>8 DEF Chained
    <3>10. QED
      BY <3>2, <3>3, <3>9 DEF Chained
  <2>10. Awaited'
    <3>1. \A e, f \in Heads' : request'[e].b = request'[f].b => e = f
      BY <2>5 DEF Awaited, Heads
    <3>2. ASSUME NEW e \in Heads'
          PROVE  \E q \in Procs : b'[q] = request'[e].b /\ pc'[q] \in Waiting
      <4>1. e \in Heads /\ e # d /\ request'[e] = request[e]
        BY <2>5 DEF Heads
      <4>2. PICK q \in Procs : b[q] = request[e].b /\ pc[q] \in Waiting
        BY <4>1 DEF Awaited
      <4>3. q # p
        BY <2>1, <2>3, <4>1, <4>2 DEF Awaited
      <4>4. pc'[q] \in Waiting
        BY <2>2, <4>2, <4>3 DEF Waiting
      <4>5. QED
        BY <1>1, <4>1, <4>2, <4>4
    <3>3. QED
      BY <3>1, <3>2 DEF Awaited
  <2>11. Rings'
    <3>1. Entries(avail)' = Entries(avail) /\ Entries(used)' = Entries(used)
          /\ Once(avail)' /\ Once(used)'
      BY <1>1 DEF Rings, Once, Entries
    <3>2. InRings' = InRings
      BY <3>1 DEF InRings
    <3>3. \A e \in InRings : request'[e].b = request[e].b
      BY <2>5, <2>6 DEF Rings, Heads
    <3>4. busy' = {request'[e].b : e \in InRings'}
      BY <1>1, <3>2, <3>3 DEF Rings
    <3>5. InRings' \subseteq Heads'
      BY <2>5, <2>6, <3>2 DEF Rings
    <3>6. QED
      BY <1>1, <3>1, <3>4, <3>5 DEF Rings
  <2>12. Signalled'
    BY <1>1, <2>2 DEF Signalled
  <2>13. QED
    BY <2>7, <2>8, <2>9, <2>10, <2>11, <2>12
<1>4. QED
  BY <1>2, <1>3

-----------------------------------------------------------------------------
(* The theorem *)

LEMMA DriverStep ==
  ASSUME DriverInv, [Next]_vars
  PROVE  DriverInv'
<1>1. CASE UNCHANGED vars
  <2>1. UNCHANGED <<buf, busy, rings, b, write, lru, irq, handler>> /\ pc' = pc
    BY <1>1 DEF vars, diskvars
  <2>2. pc \in [Procs -> Steps] /\ \A q \in Procs : pc[q] = "sleep_buf" => b[q] \in busy
    BY DEF DriverInv, DriverTypes, Signalled
  <2>3. QED
    BY <2>1, <2>2, SleepAndWake
<1>2. ASSUME NEW p \in Procs, Step(p)
      PROVE  DriverInv'
  <2>1. CASE CacheStep(p)
    BY <2>1, CacheKeepsDriver
  <2>2. CASE RwStep(p) /\ UNCHANGED lru
    BY <2>2, SubmitKeeps, NoDescriptorsKeeps, CompleteKeeps DEF RwStep
  <2>3. QED
    BY <1>2, <2>1, <2>2 DEF Step
<1>3. CASE Interrupt
  <2>1. UNCHANGED lru
    BY <1>3 DEF Interrupt
  <2>2. QED
    BY <1>3, <2>1, DeviceKeeps, IntrEntryKeeps, InterruptBounds DEF Interrupt, InterruptStep
<1>4. QED
  BY <1>1, <1>2, <1>3 DEF Next

LEMMA DriverAccounts == DriverInv => RequestsAccounted
<1> SUFFICES ASSUME DriverInv
             PROVE  RequestsAccounted
  OBVIOUS
<1> USE DEF DriverInv
<1> DEFINE ring == avail \o used
<1>1. avail \in Seq(Descs) /\ used \in Seq(Descs) /\ Len(avail) \in Nat /\ Len(used) \in Nat
  BY LenProperties DEF DriverTypes
<1>2. /\ Len(ring) = Len(avail) + Len(used)
      /\ \A k \in 1..(Len(avail) + Len(used)) :
           ring[k] = IF k <= Len(avail) THEN avail[k] ELSE used[k - Len(avail)]
  BY <1>1, ConcatProperties
<1> HIDE DEF ring
<1>3. ASSUME NEW k \in 1..Len(ring)
      PROVE  ring[k] \in Heads /\ request[ring[k]].b \in busy
  <2>1. CASE k <= Len(avail)
    <3>1. k \in 1..Len(avail) /\ ring[k] = avail[k]
      BY <1>1, <1>2, <1>3, <2>1
    <3>2. QED
      BY <3>1 DEF Rings, InRings, Entries
  <2>2. CASE k > Len(avail)
    <3>1. k - Len(avail) \in 1..Len(used) /\ ring[k] = used[k - Len(avail)]
      BY <1>1, <1>2, <1>3, <2>2
    <3>2. QED
      BY <3>1 DEF Rings, InRings, Entries
  <2>3. QED
    BY <1>1, <1>2, <2>1, <2>2
<1>4. Cardinality(busy) = Len(ring)
  BY <1>2 DEF Rings
<1>5. \A d \in Heads : \E p \in Procs : b[p] = request[d].b /\ pc[p] \in {"sleep_buf", "woken_buf"}
  BY DEF Awaited, Waiting
<1>6. /\ \A d, e \in Heads : d # e => Chain(d) \cap Chain(e) = { }
      /\ free = Descs \ UNION {Chain(d) : d \in Heads}
  BY DEF Chained
<1>7. /\ used # << >> => irq \/ handler
      /\ \A p \in Procs : pc[p] = "sleep_buf" => b[p] \in busy
  BY DEF Signalled
<1>8. QED
  BY <1>3, <1>4, <1>5, <1>6, <1>7 DEF RequestsAccounted, Heads, ring

\* The inductive invariant of the driver holds of every run.
THEOREM DriverCorrect == Spec => []DriverInv
<1>1. Init => DriverInv
  BY DriverStarts
<1>2. DriverInv /\ [Next]_vars => DriverInv'
  BY DriverStep
<1>3. QED
  BY <1>1, <1>2, PTL DEF Spec

\* Whatever the processes call and the order in which the device and the
\* scheduler serve, every descriptor of virtio_disk.c is free or in exactly
\* one chain that somebody waits for, a buffer is busy as long as its
\* request is in a ring, and no completion and no wakeup is lost.
THEOREM RequestsStayAccounted == Spec => []RequestsAccounted
<1>1. DriverInv => RequestsAccounted
  BY DriverAccounts
<1>2. QED
  BY <1>1, DriverCorrect, PTL

-----------------------------------------------------------------------------
(* What is true of the cache when the processes follow the scripts g *)

\* Where a process is in its script, and what it has pinned there: a call
\* to log_write() or install_trans() counts from bpin() or bunpin() on.
InCall == Steps \ {"user", "panic"}
Made(g, p) == Len(g[p]) - Len(script[p])
Passed(g, p) == IF pc[p] \in {"release", "put"} THEN Made(g, p) + 1 ELSE Made(g, p)
PinsOf(g, p) == PinnedAfter(g[p], Passed(g, p))

Following(g) ==
  /\ script \in [Procs -> Seq(Calls)]
  /\ \A p \in Procs :
    /\ Len(script[p]) <= Len(g[p])
    /\ \A j \in 1..Len(script[p]) : script[p][j] = g[p][Made(g, p) + j]

Typed ==
  /\ TypeOK /\ lru \in [Bufs -> Bufs]
  /\ \A i \in Bufs : \E k \in Bufs : lru[k] = i

Unique == \A i, j \in Bufs : buf[i].blockno = buf[j].blockno /\ buf[i].blockno # NoBlock => i = j

\* Whoever is in a call has the buffer of its block.
Engaged ==
  \A p \in Procs : pc[p] # "user" =>
    pc[p] # "panic" /\ script[p] # << >> /\ buf[b[p]].blockno = call(p).block

\* b->refcnt counts those who use the buffer and those who have pinned its
\* block; a pinned block stays in the cache.
Users(i) == {q \in Procs : pc[q] \in InCall /\ b[q] = i}
Pinners(g, i) == {q \in Procs : buf[i].blockno \in PinsOf(g, q)}
Counted(g) == \A i \in Bufs : buf[i].refcnt = Cardinality(Users(i)) + Cardinality(Pinners(g, i))
Kept(g) == \A p \in Procs : \A n \in PinsOf(g, p) : \E i \in Bufs : buf[i].blockno = n

CacheInv(g) == Typed /\ Following(g) /\ Unique /\ Engaged /\ Counted(g) /\ Kept(g)
BlocksInv == \E g \in Scripts : CacheInv(g)

-----------------------------------------------------------------------------
(* The scripts *)

\* What one more call does to the pinned blocks.
LEMMA PinsStep ==
  ASSUME NEW s \in Seq(Calls), NEW k \in Nat, k + 1 <= Len(s)
  PROVE  /\ s[k + 1] \in Calls
         /\ PinnedAfter(s, k + 1) =
              IF s[k + 1].op = "log" THEN PinnedAfter(s, k) \cup {s[k + 1].block}
              ELSE IF s[k + 1].op = "install" THEN PinnedAfter(s, k) \ {s[k + 1].block}
              ELSE PinnedAfter(s, k)
<1>1. Len(s) \in Nat /\ \A j \in 1..Len(s) : s[j] \in Calls
  BY LenProperties, ElementOfSeq
<1> DEFINE c == s[k + 1]
<1>2. c \in Calls /\ c.block \in Blocks /\ c.op \in {"read", "write", "log", "install"}
  BY <1>1 DEF Calls
<1>3. \A n : (c = LogWrite(n) <=> c.op = "log" /\ c.block = n)
             /\ (c = Install(n) <=> c.op = "install" /\ c.block = n)
  BY <1>2 DEF LogWrite, Install, Calls
<1>4. 1..(k + 1) = 1..k \cup {k + 1} /\ \A j \in 1..k : (j + 1)..(k + 1) = (j + 1)..k \cup {k + 1}
  OBVIOUS
<1>5. (k + 2)..(k + 1) = { } /\ k + 1 + 1 = k + 2
  OBVIOUS
<1> HIDE DEF c
<1>6. ASSUME NEW n \in Blocks
      PROVE  n \in PinnedAfter(s, k + 1) <=>
               c = LogWrite(n) \/ (n \in PinnedAfter(s, k) /\ c # Install(n))
  <2>1. n \in PinnedAfter(s, k + 1) <=>
          \E j \in 1..k \cup {k + 1} :
            s[j] = LogWrite(n) /\ \A i \in (j + 1)..(k + 1) : s[i] # Install(n)
    BY <1>4 DEF PinnedAfter
  <2>2. (s[k + 1] = LogWrite(n) /\ \A i \in ((k + 1) + 1)..(k + 1) : s[i] # Install(n))
          <=> c = LogWrite(n)
    BY <1>5 DEF c
  <2>3. \A j \in 1..k : (\A i \in (j + 1)..(k + 1) : s[i] # Install(n)) <=>
                        (\A i \in (j + 1)..k : s[i] # Install(n)) /\ c # Install(n)
    BY <1>4 DEF c
  <2>4. n \in PinnedAfter(s, k) <=>
          \E j \in 1..k : s[j] = LogWrite(n) /\ \A i \in (j + 1)..k : s[i] # Install(n)
    BY DEF PinnedAfter
  <2>5. QED
    BY <2>1, <2>2, <2>3, <2>4
<1>7. \A m : PinnedAfter(s, m) \subseteq Blocks
  BY DEF PinnedAfter
<1>8. QED
  BY <1>2, <1>3, <1>6, <1>7 DEF c

LEMMA NoPinsAtFirst == \A s : PinnedAfter(s, 0) = { }
BY DEF PinnedAfter

\* The next call of a process, in its script and in what is left of it.
LEMMA NextCall ==
  ASSUME NEW g \in Scripts, Following(g), NEW p \in Procs, script[p] # << >>
  PROVE  /\ g[p] \in Seq(Calls) /\ Made(g, p) \in Nat /\ Made(g, p) + 1 <= Len(g[p])
         /\ call(p) = g[p][Made(g, p) + 1] /\ call(p) \in Calls
         /\ Tail(script[p]) \in Seq(Calls) /\ Len(Tail(script[p])) = Len(script[p]) - 1
         /\ Len(script[p]) \in Nat \ {0} /\ Len(g[p]) \in Nat
         /\ \A j \in 1..(Len(script[p]) - 1) : Tail(script[p])[j] = g[p][Made(g, p) + 1 + j]
<1>1. /\ g[p] \in Seq(Calls) /\ script[p] \in Seq(Calls) /\ Len(script[p]) <= Len(g[p])
      /\ \A j \in 1..Len(script[p]) : script[p][j] = g[p][Made(g, p) + j]
  BY CacheAssumption DEF Following
<1>2. Len(g[p]) \in Nat /\ Len(script[p]) \in Nat \ {0}
  BY <1>1, LenProperties, EmptySeq
<1>3. Made(g, p) \in Nat /\ Made(g, p) + 1 <= Len(g[p])
  BY <1>1, <1>2 DEF Made
<1>4. call(p) = script[p][1] /\ 1 \in 1..Len(script[p])
  BY <1>1, <1>2 DEF call
<1>5. call(p) = g[p][Made(g, p) + 1]
  BY <1>1, <1>4
<1>6. call(p) \in Calls
  BY <1>3, <1>1, <1>5, PinsStep
<1>7. /\ Tail(script[p]) \in Seq(Calls) /\ Len(Tail(script[p])) = Len(script[p]) - 1
      /\ \A j \in 1..Len(Tail(script[p])) : Tail(script[p])[j] = script[p][j + 1]
  BY <1>1, HeadTailProperties
<1>8. ASSUME NEW j \in 1..(Len(script[p]) - 1)
      PROVE  Tail(script[p])[j] = g[p][Made(g, p) + 1 + j]
  <2>1. j + 1 \in 1..Len(script[p]) /\ Made(g, p) + (j + 1) = Made(g, p) + 1 + j
    BY <1>2, <1>3
  <2>2. Tail(script[p])[j] = script[p][j + 1]
    BY <1>7
  <2>3. QED
    BY <1>1, <2>1, <2>2
<1>9. QED
  BY <1>1, <1>2, <1>3, <1>5, <1>6, <1>7, <1>8

LEMMA Position ==
  ASSUME NEW g \in Scripts, Following(g), NEW p \in Procs
  PROVE  /\ g[p] \in Seq(Calls) /\ Len(g[p]) \in Nat /\ Made(g, p) \in 0..Len(g[p])
         /\ script[p] # << >> => Made(g, p) < Len(g[p])
<1>1. g[p] \in Seq(Calls) /\ script[p] \in Seq(Calls) /\ Len(script[p]) <= Len(g[p])
  BY CacheAssumption DEF Following
<1>2. /\ Len(g[p]) \in Nat /\ Len(script[p]) \in Nat
      /\ script[p] # << >> => Len(script[p]) # 0
  BY <1>1, LenProperties, EmptySeq
<1>3. Made(g, p) = Len(g[p]) - Len(script[p])
  BY DEF Made
<1>4. Made(g, p) \in 0..Len(g[p]) /\ (Len(script[p]) # 0 => Made(g, p) < Len(g[p]))
  <2>1. \A x, y \in Nat : y <= x => x - y \in 0..x /\ (y # 0 => x - y < x)
    OBVIOUS
  <2>2. QED
    BY <1>1, <1>2, <1>3, <2>1, Zenon
<1>5. QED
  BY <1>1, <1>2, <1>4

\* The buffers, when a field of one of them changes.
Buffers ==
  [Bufs -> [blockno : Blocks \cup {NoBlock}, valid : BOOLEAN, refcnt : Nat,
            data : Data, owner : Procs \cup {0}]]

LEMMA BufferTypes ==
  ASSUME NEW f \in Buffers, NEW i \in Bufs
  PROVE  /\ \A x \in Blocks : [f EXCEPT ![i].blockno = x] \in Buffers
         /\ \A x \in BOOLEAN : [f EXCEPT ![i].valid = x] \in Buffers
         /\ \A x \in Nat : [f EXCEPT ![i].refcnt = x] \in Buffers
         /\ \A x \in Data : [f EXCEPT ![i].data = x] \in Buffers
         /\ \A x \in Procs \cup {0} : [f EXCEPT ![i].owner = x] \in Buffers
<1>1. \A x \in Blocks : [f EXCEPT ![i].blockno = x] \in Buffers
  BY DEF Buffers
<1>2. \A x \in BOOLEAN : [f EXCEPT ![i].valid = x] \in Buffers
  BY DEF Buffers
<1>3. \A x \in Nat : [f EXCEPT ![i].refcnt = x] \in Buffers
  BY DEF Buffers
<1>4. \A x \in Data : [f EXCEPT ![i].data = x] \in Buffers
  BY DEF Buffers
<1>5. \A x \in Procs \cup {0} : [f EXCEPT ![i].owner = x] \in Buffers
  BY DEF Buffers
<1>6. QED
  BY <1>1, <1>2, <1>3, <1>4, <1>5

LEMMA FewProcs ==
  ASSUME NEW S \in SUBSET Procs
  PROVE  IsFiniteSet(S) /\ Cardinality(S) \in Nat /\ (Cardinality(S) = 0 <=> S = { })
BY DiskAssumption, FS_Subset, FS_CardinalityType, FS_EmptySet

\* The pins of a process that does not come to "release" or "put" stay.
LEMMA PinsStay ==
  ASSUME NEW g \in Scripts, NEW q \in Procs, script'[q] = script[q],
         pc'[q] \in {"release", "put"} <=> pc[q] \in {"release", "put"}
  PROVE  PinsOf(g, q)' = PinsOf(g, q) /\ Made(g, q)' = Made(g, q)
BY DEF PinsOf, Passed, Made

\* Steps after which everybody uses and has pinned what they did before.
LEMMA AlikeKeeps ==
  ASSUME NEW g \in Scripts, CacheInv(g), UNCHANGED <<script, lru, b>>, TypeOK',
         \A i \in Bufs : buf'[i].blockno = buf[i].blockno /\ buf'[i].refcnt = buf[i].refcnt,
         \A q \in Procs : pc[q] \in Steps /\ pc'[q] \in Steps \ {"panic"},
         \A q \in Procs : pc'[q] = "user" <=> pc[q] = "user",
         \A q \in Procs : PinsOf(g, q)' = PinsOf(g, q)
  PROVE  CacheInv(g)'
<1> USE DEF CacheInv
<1>1. Typed' /\ Following(g)' /\ Unique'
  <2>1. Typed'
    BY DEF Typed
  <2>2. Following(g)'
    BY DEF Following, Made
  <2>3. Unique'
    BY DEF Unique
  <2>4. QED
    BY <2>1, <2>2, <2>3
<1>2. b \in [Procs -> Bufs] /\ \A q \in Procs : pc[q] # "panic" /\ b[q] \in Bufs
  BY DEF Typed, TypeOK, Engaged
<1>3. Engaged'
  BY <1>2 DEF Engaged, call
<1>4. ASSUME NEW i \in Bufs
      PROVE  buf'[i].refcnt = Cardinality(Users(i)') + Cardinality(Pinners(g, i)')
  <2>1. Users(i)' = Users(i)
    BY <1>2 DEF Users, InCall
  <2>2. Pinners(g, i)' = Pinners(g, i)
    BY DEF Pinners
  <2>3. QED
    BY <2>1, <2>2 DEF Counted
<1>5. Counted(g)'
  BY <1>4 DEF Counted
<1>6. Kept(g)'
  BY DEF Kept
<1>7. QED
  BY <1>1, <1>3, <1>5, <1>6

-----------------------------------------------------------------------------
(* There is a buffer for whoever asks *)

LEMMA UsedInUse ==
  ASSUME NEW g \in Scripts, CacheInv(g), NEW i \in Bufs,
         Users(i) # { } \/ Pinners(g, i) # { }
  PROVE  buf[i].blockno \in InUse(g, [q \in Procs |-> Made(g, q)])
<1> USE DEF CacheInv
<1> DEFINE K == [q \in Procs |-> Made(g, q)]
<1>1. ASSUME NEW q \in Procs, pc[q] # "user"
      PROVE  call(q).block \in InUse(g, K) /\ buf[b[q]].blockno = call(q).block
  <2>1. script[q] # << >> /\ buf[b[q]].blockno = call(q).block
    BY <1>1 DEF Engaged
  <2>2. call(q) = g[q][K[q] + 1] /\ K[q] < Len(g[q])
    BY <2>1, NextCall, Position
  <2>3. QED
    BY <2>1, <2>2 DEF InUse
<1>2. ASSUME NEW q \in Users(i)
      PROVE  buf[i].blockno \in InUse(g, K)
  BY <1>1 DEF Users, InCall
<1>3. ASSUME NEW q \in Pinners(g, i)
      PROVE  buf[i].blockno \in InUse(g, K)
  <2>1. q \in Procs /\ buf[i].blockno \in PinnedAfter(g[q], Passed(g, q))
    BY DEF Pinners, PinsOf
  <2>2. CASE Passed(g, q) = Made(g, q)
    BY <2>1, <2>2 DEF InUse
  <2>3. CASE Passed(g, q) # Made(g, q)
    <3>1. pc[q] \in {"release", "put"} /\ Passed(g, q) = Made(g, q) + 1
      BY <2>3 DEF Passed
    <3>2. script[q] # << >>
      BY <2>1, <3>1 DEF Engaged
    <3>3. buf[i].blockno \in PinnedAfter(g[q], Made(g, q)) \cup {call(q).block}
      <4>1. /\ g[q] \in Seq(Calls) /\ Made(g, q) \in Nat /\ Made(g, q) + 1 <= Len(g[q])
            /\ call(q) = g[q][Made(g, q) + 1]
        BY <2>1, <3>2, NextCall
      <4>2. PinnedAfter(g[q], Made(g, q) + 1) \subseteq PinnedAfter(g[q], Made(g, q)) \cup {call(q).block}
        BY <4>1, PinsStep
      <4>3. QED
        BY <2>1, <3>1, <4>2
    <3>4. PinnedAfter(g[q], Made(g, q)) \subseteq InUse(g, K)
      BY <2>1 DEF InUse
    <3>5. QED
      BY <1>1, <2>1, <3>1, <3>3, <3>4
  <2>4. QED
    BY <2>2, <2>3
<1>4. QED
  BY <1>2, <1>3

LEMMA BufferForAll ==
  ASSUME NEW g \in Scripts, CacheInv(g), NEW p \in Procs, script[p] # << >>,
         Found(call(p).block) = { }
  PROVE  Unused # { }
<1> USE DEF CacheInv
<1> SUFFICES ASSUME Unused = { }
             PROVE  FALSE
  OBVIOUS
<1> DEFINE K == [q \in Procs |-> Made(g, q)]
           T == InUse(g, K)
           n == call(p).block
           f == [i \in Bufs |-> buf[i].blockno]
<1>1. ASSUME NEW i \in Bufs
      PROVE  buf[i].blockno \in T /\ buf[i].blockno # n
  <2>1. PICK k \in Bufs : lru[k] = i
    BY DEF Typed
  <2>2. buf[i].refcnt # 0
    BY <2>1 DEF Unused
  <2>3. Users(i) \subseteq Procs /\ Pinners(g, i) \subseteq Procs
    BY DEF Users, Pinners
  <2>4. Users(i) # { } \/ Pinners(g, i) # { }
    <3>1. SUFFICES ASSUME Users(i) = { }, Pinners(g, i) = { }
                   PROVE  FALSE
      OBVIOUS
    <3>2. Cardinality(Users(i)) = 0 /\ Cardinality(Pinners(g, i)) = 0
      BY <3>1, FS_EmptySet
    <3>3. QED
      BY <2>2, <3>2 DEF Counted
  <2>5. QED
    BY <2>4, UsedInUse DEF Found
<1>2. T \subseteq Blocks
  <2>1. ASSUME NEW q \in Procs, K[q] < Len(g[q])
        PROVE  g[q][K[q] + 1].block \in Blocks
    <3>1. g[q] \in Seq(Calls) /\ K[q] \in Nat /\ K[q] + 1 <= Len(g[q])
      BY <2>1, Position
    <3>2. g[q][K[q] + 1] \in Calls
      BY <3>1, PinsStep
    <3>3. QED
      BY <3>2 DEF Calls
  <2>2. \A s, m : PinnedAfter(s, m) \subseteq Blocks
    BY DEF PinnedAfter
  <2>3. \A x \in T : \/ \E q \in Procs : K[q] < Len(g[q]) /\ x = g[q][K[q] + 1].block
                    \/ \E q \in Procs : x \in PinnedAfter(g[q], K[q])
    BY DEF InUse
  <2> HIDE DEF K, T
  <2>4. QED
    BY <2>1, <2>2, <2>3
<1>3. n \in T
  <2>1. call(p) = g[p][K[p] + 1] /\ K[p] < Len(g[p])
    BY NextCall, Position
  <2>2. QED
    BY <2>1 DEF InUse
<1>4. IsFiniteSet(T) /\ Cardinality(T) \in Nat /\ Cardinality(T) <= NBUF
  <2>1. IsFiniteSet(T) /\ Cardinality(T) \in Nat
    BY <1>2, CacheAssumption, FS_Subset, FS_CardinalityType
  <2>2. \A q \in Procs : K[q] \in 0..Len(g[q]) /\ K[q] <= Len(g[q])
    BY Position
  <2>3. K \in [Procs -> UNION {0..Len(g[q]) : q \in Procs}]
    BY <2>2
  <2>4. QED
    BY <2>1, <2>2, <2>3, CacheAssumption
<1>5. /\ IsFiniteSet(T \ {n}) /\ Cardinality(T \ {n}) = Cardinality(T) - 1
  BY <1>3, <1>4, FS_RemoveElement
<1>6. Cardinality(Bufs) = NBUF
  <2>1. NBUF \in Nat /\ NBUF >= 1 /\ NBUF - 1 + 1 = NBUF
    BY DiskAssumption
  <2>2. Cardinality(1..NBUF) = IF 1 > NBUF THEN 0 ELSE NBUF - 1 + 1
    BY <2>1, FS_Interval
  <2>3. QED
    BY <2>1, <2>2 DEF Bufs
<1>7. f \in Injection(Bufs, T \ {n})
  <2>1. f \in [Bufs -> T \ {n}]
    BY <1>1
  <2>2. \A i \in Bufs : buf[i].blockno # NoBlock
    BY <1>1, <1>2, CacheAssumption
  <2>3. \A i, j \in Bufs : f[i] = f[j] => i = j
    BY <2>2 DEF Unique
  <2> HIDE DEF f, T, n
  <2>4. QED
    BY <2>1, <2>3 DEF Injection, IsInjective
<1>8. Cardinality(Bufs) <= Cardinality(T \ {n})
  BY <1>5, <1>7, FS_Injection
<1>9. QED
  BY <1>4, <1>5, <1>6, <1>8, DiskAssumption

-----------------------------------------------------------------------------
(* The calls that take, give back, pin and unpin a buffer *)

\* A buffer without references is nobody's.
LEMMA NobodysBuffer ==
  ASSUME NEW g \in Scripts, CacheInv(g), NEW i \in Bufs, buf[i].refcnt = 0
  PROVE  Users(i) = { } /\ Pinners(g, i) = { }
<1>1. Users(i) \in SUBSET Procs /\ Pinners(g, i) \in SUBSET Procs
  BY DEF Users, Pinners
<1>2. Cardinality(Users(i)) + Cardinality(Pinners(g, i)) = 0
  BY DEF CacheInv, Counted
<1>3. Cardinality(Users(i)) \in Nat /\ Cardinality(Pinners(g, i)) \in Nat
  BY <1>1, FewProcs
<1>4. Cardinality(Users(i)) = 0 /\ Cardinality(Pinners(g, i)) = 0
  BY <1>2, <1>3
<1>5. QED
  BY <1>1, <1>4, FewProcs

\* What bget() does with the buffer that it finds or recycles.
LEMMA BGetEffect ==
  ASSUME NEW g \in Scripts, CacheInv(g), NEW p \in Procs, BGet(p)
  PROVE  \E i \in Bufs, n \in Blocks :
           /\ n = call(p).block /\ n # NoBlock /\ pc[p] = "user" /\ script[p] # << >>
           /\ b' = [b EXCEPT ![p] = i] /\ pc' = [pc EXCEPT ![p] = "lock"]
           /\ UNCHANGED <<disk, busy, free, request, avail, write, lru, script>>
           /\ \/ buf[i].blockno = n /\ buf' = [buf EXCEPT ![i].refcnt = @ + 1]
              \/ /\ Found(n) = { } /\ buf[i].refcnt = 0
                 /\ buf' = [buf EXCEPT ![i].refcnt = 1, ![i].blockno = n, ![i].valid = FALSE]
<1> USE DEF CacheInv
<1>1. pc[p] = "user" /\ script[p] # << >> /\ call(p).block \in Blocks
  BY NextCall DEF BGet, Calls
<1>2. PICK n \in Blocks : n = call(p).block /\ n # NoBlock
  BY <1>1, CacheAssumption
<1>3. CASE Found(n) = { }
  <2>1. Unused # { }
    BY <1>1, <1>2, <1>3, BufferForAll
  <2>2. Victim \in Bufs /\ buf[Victim].refcnt = 0
    <3>1. \E k \in Unused : \A j \in Unused : j <= k
      BY <2>1, GreatestOf DEF Unused
    <3>2. PICK k \in Unused : Victim = lru[k]
      BY <3>1 DEF Victim
    <3>3. QED
      BY <3>2 DEF Unused, Typed
  <2>3. QED
    BY <1>1, <1>2, <1>3, <2>1, <2>2 DEF BGet, Goto, Cache, rings, RefOnGet
<1>4. CASE Found(n) # { }
  <2>1. (CHOOSE j \in Found(n) : TRUE) \in Found(n)
    BY <1>4
  <2>2. QED
    BY <1>1, <1>2, <1>4, <2>1 DEF BGet, Goto, Cache, rings, RefOnGet, Found
<1>5. QED
  BY <1>3, <1>4

LEMMA BGetCounts ==
  ASSUME NEW g \in Scripts, CacheInv(g), NEW p \in Procs, BGet(p)
  PROVE  CacheInv(g)'
<1> USE DEF CacheInv
<1>1. PICK i \in Bufs, n \in Blocks :
        /\ n = call(p).block /\ n # NoBlock /\ pc[p] = "user" /\ script[p] # << >>
        /\ b' = [b EXCEPT ![p] = i] /\ pc' = [pc EXCEPT ![p] = "lock"]
        /\ UNCHANGED <<disk, busy, free, request, avail, write, lru, script>>
        /\ \/ buf[i].blockno = n /\ buf' = [buf EXCEPT ![i].refcnt = @ + 1]
           \/ /\ Found(n) = { } /\ buf[i].refcnt = 0
              /\ buf' = [buf EXCEPT ![i].refcnt = 1, ![i].blockno = n, ![i].valid = FALSE]
  BY BGetEffect
<1>3. /\ pc \in [Procs -> Steps] /\ b \in [Procs -> Bufs] /\ TypeOK
      /\ buf \in Buffers
  BY DEF Typed, TypeOK, Buffers
<1>4. /\ \A j \in Bufs : buf'[j].blockno = IF j = i THEN n ELSE buf[j].blockno
      /\ \A j \in Bufs : buf'[j].refcnt = IF j = i THEN buf[i].refcnt + 1 ELSE buf[j].refcnt
      /\ \A j \in Bufs : j # i => buf[j].blockno # n
      /\ buf' \in Buffers
  <2>1. CASE buf[i].blockno = n /\ buf' = [buf EXCEPT ![i].refcnt = @ + 1]
    <3>1. buf[i].refcnt + 1 \in Nat
      BY <1>3 DEF Buffers
    <3>2. buf' \in Buffers
      BY <1>3, <2>1, <3>1, BufferTypes
    <3>3. QED
      BY <1>1, <1>3, <2>1, <3>2 DEF Unique, Buffers
  <2>2. CASE /\ Found(n) = { } /\ buf[i].refcnt = 0
             /\ buf' = [buf EXCEPT ![i].refcnt = 1, ![i].blockno = n, ![i].valid = FALSE]
    <3>1. /\ \A j \in Bufs : buf'[j].blockno = IF j = i THEN n ELSE buf[j].blockno
          /\ \A j \in Bufs : buf'[j].refcnt = IF j = i THEN 1 ELSE buf[j].refcnt
      BY <1>3, <2>2 DEF Buffers
    <3>2. buf' \in Buffers
      <4> DEFINE f1 == [buf EXCEPT ![i].refcnt = 1]
                 f2 == [f1 EXCEPT ![i].blockno = n]
      <4>1. f1 \in Buffers
        BY <1>3, BufferTypes
      <4>2. f2 \in Buffers
        BY <1>1, <4>1, BufferTypes
      <4>3. [f2 EXCEPT ![i].valid = FALSE] \in Buffers
        BY <4>2, BufferTypes
      <4>4. buf' = [f2 EXCEPT ![i].valid = FALSE]
        BY <2>2
      <4>5. QED
        BY <4>3, <4>4
    <3>3. (\A j \in Bufs : buf[j].blockno # n) /\ buf[i].refcnt + 1 = 1
      BY <2>2 DEF Found
    <3>4. QED
      BY <3>1, <3>2, <3>3
  <2>3. QED
    BY <1>1, <2>1, <2>2
<1>5. \A q \in Procs : PinsOf(g, q)' = PinsOf(g, q)
  BY <1>1, <1>3, PinsStay
\* A buffer that is recycled was nobody's.
<1>6. ASSUME buf[i].blockno # n
      PROVE  Users(i) = { } /\ Pinners(g, i) = { } /\ \A q \in Procs : n \notin PinsOf(g, q)
  <2>1. Found(n) = { } /\ buf[i].refcnt = 0
    BY <1>1, <1>6
  <2>2. Users(i) = { } /\ Pinners(g, i) = { }
    BY <2>1, NobodysBuffer
  <2>3. \A q \in Procs : n \notin PinsOf(g, q)
    BY <2>1 DEF Kept, Found
  <2>4. QED
    BY <2>2, <2>3
<1>7. Typed' /\ Following(g)' /\ Unique'
  <2>1. Typed'
    BY <1>1, <1>3, <1>4 DEF Typed, TypeOK, Steps, Buffers
  <2>2. Following(g)'
    BY <1>1 DEF Following, Made
  <2>3. Unique'
    BY <1>4 DEF Unique
  <2>4. QED
    BY <2>1, <2>2, <2>3
<1>8. Engaged'
  <2>1. ASSUME NEW q \in Procs, q # p, pc[q] # "user"
        PROVE  pc[q] # "panic" /\ script[q] # << >> /\ buf'[b[q]].blockno = call(q).block
    <3>1. pc[q] # "panic" /\ script[q] # << >> /\ buf[b[q]].blockno = call(q).block /\ b[q] \in Bufs
      BY <1>3, <2>1 DEF Engaged
    <3>2. CASE b[q] # i
      BY <1>4, <3>1, <3>2
    <3>3. CASE b[q] = i
      <4>1. q \in Users(i)
        BY <1>3, <2>1, <3>1, <3>3 DEF Users, InCall
      <4>2. QED
        BY <1>4, <1>6, <3>1, <3>3, <4>1
    <3>4. QED
      BY <3>2, <3>3
  <2>2. pc'[p] = "lock" /\ script'[p] # << >> /\ buf'[b'[p]].blockno = call(p)'.block
    BY <1>1, <1>3, <1>4 DEF call
  <2>3. QED
    BY <1>1, <1>3, <2>1, <2>2 DEF Engaged, call
<1>9. Counted(g)'
  <2>1. Users(i)' = Users(i) \cup {p} /\ p \notin Users(i)
    BY <1>1, <1>3 DEF Users, InCall, Steps
  <2>2. \A j \in Bufs : j # i => Users(j)' = Users(j)
    BY <1>1, <1>3 DEF Users, InCall
  <2>3. \A j \in Bufs : Pinners(g, j)' = Pinners(g, j)
    <3>1. \A j \in Bufs : j # i => Pinners(g, j)' = Pinners(g, j)
      BY <1>4, <1>5 DEF Pinners
    <3>2. Pinners(g, i)' = Pinners(g, i)
      <4>1. Pinners(g, i)' = {q \in Procs : n \in PinsOf(g, q)}
        BY <1>4, <1>5 DEF Pinners
      <4>2. CASE buf[i].blockno = n
        BY <4>1, <4>2 DEF Pinners
      <4>3. CASE buf[i].blockno # n
        BY <1>6, <4>1, <4>3
      <4>4. QED
        BY <4>2, <4>3
    <3>3. QED
      BY <3>1, <3>2
  <2>4. Cardinality(Users(i)') = Cardinality(Users(i)) + 1 /\ Cardinality(Users(i)) \in Nat
        /\ Cardinality(Pinners(g, i)) \in Nat
    <3>1. Users(i) \in SUBSET Procs /\ Pinners(g, i) \in SUBSET Procs
      BY DEF Users, Pinners
    <3>2. IsFiniteSet(Users(i)) /\ Cardinality(Users(i)) \in Nat /\ Cardinality(Pinners(g, i)) \in Nat
      BY <3>1, FewProcs
    <3>3. Cardinality(Users(i) \cup {p}) = Cardinality(Users(i)) + 1
      BY <2>1, <3>2, FS_AddElement
    <3>4. QED
      BY <2>1, <3>2, <3>3
  <2>5. ASSUME NEW j \in Bufs
        PROVE  buf'[j].refcnt = Cardinality(Users(j)') + Cardinality(Pinners(g, j)')
    <3>1. buf[j].refcnt = Cardinality(Users(j)) + Cardinality(Pinners(g, j))
      BY DEF Counted
    <3>2. CASE j # i
      BY <1>4, <2>2, <2>3, <3>1, <3>2
    <3>3. CASE j = i
      <4>1. buf'[i].refcnt = buf[i].refcnt + 1 /\ Pinners(g, i)' = Pinners(g, i)
        BY <1>4, <2>3
      <4>2. QED
        BY <2>4, <3>1, <3>3, <4>1
    <3>4. QED
      BY <3>2, <3>3
  <2>6. QED
    BY <2>5 DEF Counted
<1>10. Kept(g)'
  <2>1. ASSUME NEW q \in Procs, NEW m \in PinsOf(g, q)
        PROVE  \E j \in Bufs : buf'[j].blockno = m
    <3>1. PICK j \in Bufs : buf[j].blockno = m
      BY DEF Kept
    <3>2. CASE j # i
      BY <1>4, <3>1, <3>2
    <3>3. CASE j = i
      <4>1. q \in Pinners(g, i)
        BY <3>1, <3>3 DEF Pinners
      <4>2. QED
        BY <1>4, <1>6, <3>1, <3>3, <4>1
    <3>4. QED
      BY <3>2, <3>3
  <2>2. QED
    BY <1>5, <2>1 DEF Kept
<1>11. QED
  BY <1>7, <1>8, <1>9, <1>10

\* A process comes to "release" or "put", where its call counts as made.
LEMMA PinsMove ==
  ASSUME NEW g \in Scripts, CacheInv(g), NEW p \in Procs, UNCHANGED script,
         pc[p] \notin {"user", "release", "put"}, pc'[p] \in {"release", "put"}
  PROVE  /\ call(p).block \in Blocks
         /\ PinsOf(g, p)' = IF call(p).op = "log" THEN PinsOf(g, p) \cup {call(p).block}
                            ELSE IF call(p).op = "install" THEN PinsOf(g, p) \ {call(p).block}
                            ELSE PinsOf(g, p)
         /\ call(p).op = "log" => call(p).block \notin PinsOf(g, p)
         /\ call(p).op = "install" => call(p).block \in PinsOf(g, p)
<1> USE DEF CacheInv
<1>1. script[p] # << >>
  BY DEF Engaged
<1> DEFINE k == Made(g, p)
<1>2. /\ g[p] \in Seq(Calls) /\ k \in Nat /\ k + 1 <= Len(g[p]) /\ Len(g[p]) \in Nat
      /\ call(p) = g[p][k + 1] /\ call(p) \in Calls
  BY <1>1, NextCall
<1>3. PinsOf(g, p) = PinnedAfter(g[p], k)
  BY DEF PinsOf, Passed
<1>4. PinsOf(g, p)' = PinnedAfter(g[p], k + 1)
  BY DEF PinsOf, Passed, Made
<1>5. /\ call(p).op = "log" => call(p).block \notin PinnedAfter(g[p], k)
      /\ call(p).op = "install" => call(p).block \in PinnedAfter(g[p], k)
  <2>1. k + 1 \in 1..Len(g[p]) /\ (k + 1) - 1 = k
    BY <1>2
  <2>2. PinsInTurn(g[p])
    BY CacheAssumption
  <2>3. /\ g[p][k + 1].op = "log" => g[p][k + 1].block \notin PinnedAfter(g[p], (k + 1) - 1)
        /\ g[p][k + 1].op = "install" => g[p][k + 1].block \in PinnedAfter(g[p], (k + 1) - 1)
    BY <2>1, <2>2 DEF PinsInTurn
  <2>4. QED
    BY <1>2, <2>1, <2>3
<1>6. call(p).block \in Blocks
  BY <1>2 DEF Calls
<1> HIDE DEF k
<1>7. PinnedAfter(g[p], k + 1) =
        IF call(p).op = "log" THEN PinnedAfter(g[p], k) \cup {call(p).block}
        ELSE IF call(p).op = "install" THEN PinnedAfter(g[p], k) \ {call(p).block}
        ELSE PinnedAfter(g[p], k)
  BY <1>2, PinsStep
<1>8. QED
  BY <1>3, <1>4, <1>5, <1>6, <1>7

LEMMA LockCounts ==
  ASSUME NEW g \in Scripts, CacheInv(g), NEW p \in Procs, Lock(p) \/ ChangeAndWrite(p)
  PROVE  CacheInv(g)'
<1> USE DEF CacheInv
<1>1. TypeOK /\ pc \in [Procs -> Steps] /\ b[p] \in Bufs /\ buf \in Buffers
  BY DEF Typed, TypeOK, Buffers
<1>2. /\ UNCHANGED <<disk, busy, free, b, lru, script>> /\ pc[p] \in {"lock", "have"}
      /\ \E s \in {"have", "rw"} : pc' = [pc EXCEPT ![p] = s]
  BY DEF Lock, ChangeAndWrite, Goto, Cache, rings
<1>3. /\ buf' \in Buffers
      /\ \A i \in Bufs : buf'[i].blockno = buf[i].blockno /\ buf'[i].refcnt = buf[i].refcnt
  <2>1. CASE Lock(p)
    <3>1. buf[b[p]].refcnt + 1 - 1 = buf[b[p]].refcnt /\ buf[b[p]].refcnt \in Nat
      BY <1>1 DEF Buffers
    <3> DEFINE f == [buf EXCEPT ![b[p]].owner = p]
    <3>2. f \in Buffers
      BY <1>1, BufferTypes
    <3>3. f[b[p]].refcnt = buf[b[p]].refcnt
      BY <1>1 DEF Buffers
    <3>4. buf' = [f EXCEPT ![b[p]].refcnt = buf[b[p]].refcnt + 1 - 1]
      BY <2>1, <3>3 DEF Lock, RefOnGet
    <3>5. buf' = [f EXCEPT ![b[p]].refcnt = buf[b[p]].refcnt]
      BY <3>1, <3>4
    <3>6. buf' \in Buffers
      BY <1>1, <3>1, <3>2, <3>5, BufferTypes
    <3>7. QED
      BY <1>1, <3>5, <3>6 DEF Buffers
  <2>2. CASE ChangeAndWrite(p)
    <3>1. CASE buf' = [buf EXCEPT ![b[p]].valid = TRUE]
      <4>1. buf' \in Buffers
        BY <1>1, <3>1, BufferTypes
      <4>2. QED
        BY <1>1, <3>1, <4>1 DEF Buffers
    <3>2. CASE buf' = [buf EXCEPT ![b[p]] = Changed(b[p])]
      <4> DEFINE f == [buf EXCEPT ![b[p]].data = 1 - buf[b[p]].data]
      <4>1. 1 - buf[b[p]].data \in Data
        BY <1>1 DEF Buffers, Data
      <4>2. f \in Buffers
        BY <1>1, <4>1, BufferTypes
      <4>3. [f EXCEPT ![b[p]].valid = TRUE] \in Buffers
        BY <1>1, <4>2, BufferTypes
      <4>4. buf' = [f EXCEPT ![b[p]].valid = TRUE]
        BY <1>1, <3>2 DEF Changed, Buffers
      <4>5. QED
        BY <1>1, <4>3, <4>4 DEF Buffers
    <3>3. QED
      BY <2>2, <3>1, <3>2 DEF ChangeAndWrite
  <2>3. QED
    BY <2>1, <2>2
<1>4. TypeOK'
  BY <1>1, <1>2, <1>3 DEF TypeOK, Buffers, Steps
<1>5. /\ \A q \in Procs : pc[q] \in Steps /\ pc'[q] \in Steps \ {"panic"}
      /\ \A q \in Procs : pc'[q] = "user" <=> pc[q] = "user"
      /\ \A q \in Procs : pc'[q] \in {"release", "put"} <=> pc[q] \in {"release", "put"}
  BY <1>1, <1>2 DEF Steps, Engaged
<1>6. \A q \in Procs : PinsOf(g, q)' = PinsOf(g, q)
  BY <1>2, <1>5, PinsStay
<1>7. QED
  BY <1>2, <1>3, <1>4, <1>5, <1>6, AlikeKeeps

LEMMA ReleasePins ==
  ASSUME NEW g \in Scripts, CacheInv(g), NEW p \in Procs, ReleaseSleep(p)
  PROVE  \A q \in Procs : PinsOf(g, q)' = PinsOf(g, q)
<1>1. /\ pc \in [Procs -> Steps] /\ UNCHANGED script
      /\ pc' = [pc EXCEPT ![p] = "put"]
      /\ \/ pc[p] = "release"
         \/ pc[p] \in {"have", "written"} /\ call(p).op \in {"read", "write"}
  BY DEF ReleaseSleep, Goto, CacheInv, Typed, TypeOK
<1>2. pc'[p] = "put" /\ \A q \in Procs : q # p => pc'[q] = pc[q]
  BY <1>1
<1>3. \A q \in Procs : q # p => PinsOf(g, q)' = PinsOf(g, q)
  BY <1>1, <1>2, PinsStay
<1>4. PinsOf(g, p)' = PinsOf(g, p)
  <2>1. CASE pc[p] = "release"
    BY <1>1, <1>2, <2>1, PinsStay
  <2>2. CASE pc[p] # "release"
    BY <1>1, <1>2, <2>2, PinsMove
  <2>3. QED
    BY <2>1, <2>2
<1>5. QED
  BY <1>3, <1>4

LEMMA ReleaseCounts ==
  ASSUME NEW g \in Scripts, CacheInv(g), NEW p \in Procs, ReleaseSleep(p)
  PROVE  CacheInv(g)'
<1> USE DEF CacheInv
<1>1. TypeOK /\ pc \in [Procs -> Steps] /\ b[p] \in Bufs /\ buf \in Buffers
  BY DEF Typed, TypeOK, Buffers
<1>2. /\ UNCHANGED <<disk, busy, free, b, lru, script>>
      /\ pc' = [pc EXCEPT ![p] = "put"]
      /\ \/ pc[p] = "release"
         \/ pc[p] \in {"have", "written"} /\ call(p).op \in {"read", "write"}
  BY DEF ReleaseSleep, Goto, Cache, rings
<1>3. /\ buf' \in Buffers
      /\ \A i \in Bufs : buf'[i].blockno = buf[i].blockno /\ buf'[i].refcnt = buf[i].refcnt
  <2> DEFINE f == [buf EXCEPT ![b[p]].owner = 0]
  <2>1. f \in Buffers
    BY <1>1, BufferTypes
  <2>2. buf' = [f EXCEPT ![b[p]].valid = TRUE]
    BY DEF ReleaseSleep
  <2>3. buf' \in Buffers
    BY <1>1, <2>1, <2>2, BufferTypes
  <2>4. QED
    BY <1>1, <2>2, <2>3 DEF Buffers
<1>4. TypeOK'
  BY <1>1, <1>2, <1>3 DEF TypeOK, Buffers, Steps
<1>5. /\ \A q \in Procs : pc[q] \in Steps /\ pc'[q] \in Steps \ {"panic"}
      /\ \A q \in Procs : pc'[q] = "user" <=> pc[q] = "user"
      /\ \A q \in Procs : q # p => pc'[q] = pc[q]
  BY <1>1, <1>2 DEF Steps, Engaged
<1>6. \A q \in Procs : PinsOf(g, q)' = PinsOf(g, q)
  BY ReleasePins
<1>7. QED
  BY <1>2, <1>3, <1>4, <1>5, <1>6, AlikeKeeps

LEMMA OneMoreOrLess ==
  ASSUME NEW S \in SUBSET Procs, NEW x
  PROVE  /\ x \notin S => Cardinality(S \cup {x}) = Cardinality(S) + 1
         /\ x \in S => Cardinality(S \ {x}) = Cardinality(S) - 1 /\ Cardinality(S) >= 1
<1>1. IsFiniteSet(S) /\ Cardinality(S) \in Nat /\ (Cardinality(S) = 0 <=> S = { })
  BY FewProcs
<1>2. x \notin S => Cardinality(S \cup {x}) = Cardinality(S) + 1
  BY <1>1, FS_AddElement
<1>3. x \in S => Cardinality(S \ {x}) = Cardinality(S) - 1
  BY <1>1, FS_RemoveElement
<1>4. x \in S => Cardinality(S) >= 1
  BY <1>1
<1>5. QED
  BY <1>2, <1>3, <1>4

\* Who has pinned a block, when a process pins or unpins the block it has.
LEMMA PinnersMove ==
  ASSUME NEW g \in Scripts, CacheInv(g), NEW p \in Procs, UNCHANGED script,
         pc[p] \in {"have", "written"}, pc' = [pc EXCEPT ![p] = "release"],
         call(p).op \in {"log", "install"}, NEW i \in Bufs, i = b[p],
         \A j \in Bufs : buf'[j].blockno = buf[j].blockno
  PROVE  /\ buf[i].blockno = call(p).block /\ call(p).block \in Blocks
         /\ \A q \in Procs : q # p => PinsOf(g, q)' = PinsOf(g, q)
         /\ PinsOf(g, p)' \subseteq PinsOf(g, p) \cup {call(p).block}
         /\ \A j \in Bufs : j # i => Pinners(g, j)' = Pinners(g, j)
         /\ call(p).op = "log" =>
              Pinners(g, i)' = Pinners(g, i) \cup {p} /\ p \notin Pinners(g, i)
         /\ call(p).op = "install" =>
              Pinners(g, i)' = Pinners(g, i) \ {p} /\ p \in Pinners(g, i)
<1> USE DEF CacheInv
<1>1. /\ pc \in [Procs -> Steps] /\ pc'[p] = "release"
      /\ \A q \in Procs : q # p => pc'[q] = pc[q]
  BY DEF Typed, TypeOK
<1>2. PICK n \in Blocks : n = call(p).block
  BY <1>1, PinsMove
<1>3. buf[i].blockno = n /\ n # NoBlock
  BY <1>2, CacheAssumption DEF Engaged
<1>4. \A q \in Procs : q # p => PinsOf(g, q)' = PinsOf(g, q)
  BY <1>1, PinsStay
<1>5. \/ /\ call(p).op = "log" /\ PinsOf(g, p)' = PinsOf(g, p) \cup {n}
         /\ n \notin PinsOf(g, p)
      \/ /\ call(p).op = "install" /\ PinsOf(g, p)' = PinsOf(g, p) \ {n}
         /\ n \in PinsOf(g, p)
  BY <1>1, <1>2, PinsMove
<1>6. \A j \in Bufs : j # i => Pinners(g, j)' = Pinners(g, j)
  <2>1. \A j \in Bufs : j # i => buf[j].blockno # n
    BY <1>3 DEF Unique
  <2>2. QED
    BY <1>4, <1>5, <2>1 DEF Pinners
<1>7. Pinners(g, i)' = {q \in Procs : n \in PinsOf(g, q)'}
  BY <1>3 DEF Pinners
<1>8. Pinners(g, i) = {q \in Procs : n \in PinsOf(g, q)}
  BY <1>3 DEF Pinners
<1>9. QED
  BY <1>2, <1>3, <1>4, <1>5, <1>6, <1>7, <1>8

\* bpin() and bunpin() of the buffer that the process has.
LEMMA PinCounts ==
  ASSUME NEW g \in Scripts, CacheInv(g), NEW p \in Procs, UNCHANGED script,
         pc[p] \in {"have", "written"}, pc' = [pc EXCEPT ![p] = "release"],
         call(p).op \in {"log", "install"}, NEW i \in Bufs, i = b[p],
         \A j \in Bufs : buf'[j].blockno = buf[j].blockno,
         UNCHANGED lru, UNCHANGED b, TypeOK',
         \A j \in Bufs : j # i => buf'[j].refcnt = buf[j].refcnt,
         call(p).op = "log" => buf'[i].refcnt = buf[i].refcnt + 1,
         call(p).op = "install" => buf'[i].refcnt = buf[i].refcnt - 1
  PROVE  CacheInv(g)'
<1>1. /\ pc \in [Procs -> Steps] /\ b \in [Procs -> Bufs] /\ pc'[p] = "release"
      /\ \A q \in Procs : q # p => pc'[q] = pc[q]
  BY DEF CacheInv, Typed, TypeOK
<1>2. /\ buf[i].blockno = call(p).block /\ call(p).block \in Blocks
      /\ \A q \in Procs : q # p => PinsOf(g, q)' = PinsOf(g, q)
      /\ PinsOf(g, p)' \subseteq PinsOf(g, p) \cup {call(p).block}
      /\ \A j \in Bufs : j # i => Pinners(g, j)' = Pinners(g, j)
      /\ call(p).op = "log" =>
           Pinners(g, i)' = Pinners(g, i) \cup {p} /\ p \notin Pinners(g, i)
      /\ call(p).op = "install" =>
           Pinners(g, i)' = Pinners(g, i) \ {p} /\ p \in Pinners(g, i)
  BY PinnersMove
<1> USE DEF CacheInv
<1>3. Typed' /\ Following(g)' /\ Unique' /\ Engaged'
  <2>1. Typed'
    BY DEF Typed
  <2>2. Following(g)'
    BY DEF Following, Made
  <2>3. Unique'
    BY DEF Unique
  <2>4. Engaged'
    <3>1. ASSUME NEW q \in Procs, pc'[q] # "user"
          PROVE  pc'[q] # "panic" /\ script[q] # << >> /\ buf[b[q]].blockno = Head(script[q]).block
      BY <1>1, <3>1 DEF Engaged, call
    <3>2. \A q \in Procs : b[q] \in Bufs
      BY <1>1
    <3>3. QED
      BY <3>1, <3>2 DEF Engaged, call
  <2>5. QED
    BY <2>1, <2>2, <2>3, <2>4
<1>4. \A j \in Bufs : Users(j)' = Users(j)
  BY <1>1 DEF Users, InCall, Steps
<1>5. Counted(g)'
  <2>1. Users(i) \in SUBSET Procs /\ Pinners(g, i) \in SUBSET Procs
    BY DEF Users, Pinners
  <2>2. Cardinality(Users(i)) \in Nat /\ Cardinality(Pinners(g, i)) \in Nat
    BY <2>1, FewProcs
  <2>3. buf[i].refcnt = Cardinality(Users(i)) + Cardinality(Pinners(g, i))
    BY DEF Counted
  <2>4. buf'[i].refcnt = Cardinality(Users(i)) + Cardinality(Pinners(g, i)')
    <3>1. CASE call(p).op = "log"
      <4>1. Cardinality(Pinners(g, i)') = Cardinality(Pinners(g, i)) + 1
        BY <1>2, <2>1, <3>1, OneMoreOrLess
      <4>2. buf'[i].refcnt = buf[i].refcnt + 1
        BY <3>1
      <4>3. QED
        BY <2>2, <2>3, <4>1, <4>2
    <3>2. CASE call(p).op = "install"
      <4>1. Cardinality(Pinners(g, i)') = Cardinality(Pinners(g, i)) - 1
        <5>1. Pinners(g, i)' = Pinners(g, i) \ {p} /\ p \in Pinners(g, i)
          BY <1>2, <3>2
        <5>2. Cardinality(Pinners(g, i) \ {p}) = Cardinality(Pinners(g, i)) - 1
          BY <2>1, <5>1, OneMoreOrLess
        <5>3. QED
          BY <5>1, <5>2
      <4>2. buf'[i].refcnt = buf[i].refcnt - 1
        BY <3>2
      <4>3. QED
        BY <2>2, <2>3, <4>1, <4>2
    <3>3. QED
      BY <3>1, <3>2
  <2>5. \A j \in Bufs : j # i => buf'[j].refcnt = Cardinality(Users(j)) + Cardinality(Pinners(g, j))
    BY DEF Counted
  <2>6. ASSUME NEW j \in Bufs
        PROVE  buf'[j].refcnt = Cardinality(Users(j)') + Cardinality(Pinners(g, j)')
    <3>1. CASE j = i
      BY <1>4, <2>4, <3>1
    <3>2. CASE j # i
      BY <1>2, <1>4, <2>5, <3>2
    <3>3. QED
      BY <3>1, <3>2
  <2>7. QED
    BY <2>6 DEF Counted
<1>6. Kept(g)'
  <2>1. ASSUME NEW q \in Procs, NEW m \in PinsOf(g, q)'
        PROVE  \E j \in Bufs : buf'[j].blockno = m
    <3>1. m \in PinsOf(g, q) \/ m = call(p).block
      BY <1>2
    <3>2. \E j \in Bufs : buf[j].blockno = m
      BY <1>2, <3>1 DEF Kept
    <3>3. QED
      BY <3>2
  <2>2. QED
    BY <2>1 DEF Kept
<1>7. QED
  BY <1>3, <1>5, <1>6

LEMMA UserCounts ==
  ASSUME NEW g \in Scripts, CacheInv(g), NEW p \in Procs, pc[p] \in InCall
  PROVE  buf[b[p]].refcnt - 1 \in Nat /\ p \in Users(b[p])
<1> USE DEF CacheInv
<1>1. PICK i \in Bufs : i = b[p]
  BY DEF Typed, TypeOK
<1>2. Users(i) \in SUBSET Procs /\ Pinners(g, i) \in SUBSET Procs /\ p \in Users(i)
  BY <1>1 DEF Users, Pinners
<1>3. Cardinality(Users(i)) \in Nat /\ Cardinality(Pinners(g, i)) \in Nat
  BY <1>2, FewProcs
<1>4. Cardinality(Users(i)) >= 1
  BY <1>2, OneMoreOrLess
<1>5. buf[i].refcnt = Cardinality(Users(i)) + Cardinality(Pinners(g, i))
  BY DEF Counted
<1>6. buf[i].refcnt - 1 \in Nat
  BY <1>3, <1>4, <1>5
<1>7. QED
  BY <1>1, <1>2, <1>6

LEMMA PinKeeps ==
  ASSUME NEW g \in Scripts, CacheInv(g), NEW p \in Procs, ChangeAndPin(p) \/ BUnpin(p)
  PROVE  CacheInv(g)'
<1> USE DEF CacheInv
<1>0. PICK i \in Bufs : i = b[p]
  BY DEF Typed, TypeOK
<1>1. TypeOK /\ pc \in [Procs -> Steps] /\ buf \in Buffers
  BY DEF Typed, TypeOK, Buffers
<1>2. buf[i].refcnt \in Nat /\ buf[i].data \in Data
  BY <1>1 DEF Buffers
<1>3. /\ UNCHANGED <<disk, busy, free, b, lru, script>>
      /\ pc[p] \in {"have", "written"} /\ pc' = [pc EXCEPT ![p] = "release"]
  BY DEF ChangeAndPin, BUnpin, Goto, Cache, rings
<1>4. buf' \in Buffers => TypeOK'
  BY <1>1, <1>3 DEF TypeOK, Buffers, Steps
<1>5. CASE ChangeAndPin(p)
  <2> DEFINE f == [buf EXCEPT ![i].data = 1 - buf[i].data]
             h == [f EXCEPT ![i].valid = TRUE]
  <2>1. 1 - buf[i].data \in Data /\ buf[i].refcnt + 1 \in Nat
    BY <1>2 DEF Data
  <2>2. f \in Buffers
    BY <1>1, <2>1, BufferTypes
  <2>3. h \in Buffers
    <3> HIDE DEF f
    <3>1. QED
      BY <2>2, BufferTypes
  <2>4. buf' = [h EXCEPT ![i].refcnt = buf[i].refcnt + 1]
    BY <1>0, <1>1, <1>5 DEF ChangeAndPin, Changed, Pin, Buffers
  <2>5. \A j \in Bufs : h[j].blockno = buf[j].blockno /\ h[j].refcnt = buf[j].refcnt
    BY <1>1 DEF Buffers
  <2> HIDE DEF h
  <2>6. buf' \in Buffers
    BY <2>1, <2>3, <2>4, BufferTypes
  <2>7. TypeOK'
    BY <1>4, <2>6
  <2>8. \A j \in Bufs : buf'[j].blockno = buf[j].blockno
    BY <2>3, <2>4, <2>5 DEF Buffers
  <2>9. \A j \in Bufs : j # i => buf'[j].refcnt = buf[j].refcnt
    BY <2>3, <2>4, <2>5 DEF Buffers
  <2>10. call(p).op = "log" /\ buf'[i].refcnt = buf[i].refcnt + 1
    <3>1. buf'[i].refcnt = buf[i].refcnt + 1
      BY <2>3, <2>4 DEF Buffers
    <3>2. QED
      BY <1>5, <3>1 DEF ChangeAndPin
  <2>11. QED
    BY <1>0, <1>3, <2>7, <2>8, <2>9, <2>10, PinCounts
<1>6. CASE BUnpin(p)
  <2>1. buf' = [buf EXCEPT ![i].refcnt = buf[i].refcnt - 1] /\ call(p).op = "install"
    BY <1>0, <1>6 DEF BUnpin, Pin
  <2>2. buf[i].refcnt - 1 \in Nat
    BY <1>0, <1>3, UserCounts DEF InCall, Steps
  <2>3. buf' \in Buffers
    BY <1>1, <2>1, <2>2, BufferTypes
  <2>4. TypeOK'
    BY <1>4, <2>3
  <2>5. /\ \A j \in Bufs : buf'[j].blockno = buf[j].blockno
        /\ \A j \in Bufs : j # i => buf'[j].refcnt = buf[j].refcnt
        /\ buf'[i].refcnt = buf[i].refcnt - 1
    BY <1>1, <2>1 DEF Buffers
  <2>6. QED
    BY <1>0, <1>3, <2>1, <2>4, <2>5, PinCounts
<1>7. QED
  BY <1>5, <1>6

\* brelse(): the call is made, and the buffer may move in the list.
LEMMA FrontKeeps ==
  ASSUME Typed, NEW i \in Bufs
  PROVE  /\ ToFront(i) \in [Bufs -> Bufs]
         /\ \A j \in Bufs : \E k \in Bufs : ToFront(i)[k] = j
<1> DEFINE place == CHOOSE k \in Bufs : lru[k] = i
<1>1. /\ NBUF \in Nat /\ 1 \in Bufs /\ Bufs = 1..NBUF
      /\ lru \in [Bufs -> Bufs] /\ \A j \in Bufs : \E k \in Bufs : lru[k] = j
  <2>1. NBUF \in Nat /\ 1 \in Bufs /\ Bufs = 1..NBUF
    BY DiskAssumption DEF Bufs
  <2>2. QED
    BY <2>1 DEF Typed
<1>2. place \in Bufs /\ lru[place] = i
  BY <1>1
<1> HIDE DEF place
<1>3. \A k \in Bufs : ToFront(i)[k] = IF k = 1 THEN i ELSE IF k <= place THEN lru[k - 1] ELSE lru[k]
  BY DEF ToFront, place
<1>4. ToFront(i) \in [Bufs -> Bufs]
  <2>1. \A k \in Bufs : k # 1 => k - 1 \in Bufs
    BY <1>1
  <2>2. \A k \in Bufs :
          (IF k = 1 THEN i ELSE IF k <= place THEN lru[k - 1] ELSE lru[k]) \in Bufs
    BY <1>1, <2>1
  <2>3. QED
    BY <2>2 DEF ToFront, place
<1>5. ASSUME NEW j \in Bufs
      PROVE  \E k \in Bufs : ToFront(i)[k] = j
  <2>1. PICK m \in Bufs : lru[m] = j
    BY <1>1
  <2>2. CASE j = i
    BY <1>1, <1>3, <2>2
  <2>3. CASE j # i /\ m < place
    <3>1. m + 1 \in Bufs /\ m + 1 # 1 /\ m + 1 <= place /\ (m + 1) - 1 = m
      BY <1>1, <1>2, <2>3
    <3>2. ToFront(i)[m + 1] = j
      BY <1>3, <2>1, <3>1
    <3>3. QED
      BY <3>1, <3>2
  <2>4. CASE j # i /\ m > place
    <3>1. m # 1 /\ ~(m <= place)
      BY <1>1, <1>2, <2>4
    <3>2. ToFront(i)[m] = j
      BY <1>3, <2>1, <3>1
    <3>3. QED
      BY <3>2
  <2>5. m # place => m < place \/ m > place
    BY <1>1, <1>2
  <2>6. QED
    BY <1>2, <2>1, <2>2, <2>3, <2>4, <2>5
<1>6. QED
  BY <1>4, <1>5

LEMMA PutPins ==
  ASSUME NEW g \in Scripts, CacheInv(g), NEW p \in Procs, Put(p)
  PROVE  /\ Made(g, p)' = Made(g, p) + 1 /\ \A q \in Procs : q # p => Made(g, q)' = Made(g, q)
         /\ \A q \in Procs : PinsOf(g, q)' = PinsOf(g, q)
<1> USE DEF CacheInv
<1>1. /\ pc \in [Procs -> Steps] /\ pc[p] = "put" /\ script \in [Procs -> Seq(Calls)]
      /\ pc' = [pc EXCEPT ![p] = "user"] /\ script' = [script EXCEPT ![p] = Tail(script[p])]
  BY DEF Put, Goto, Typed, TypeOK, Following
<1>2. /\ pc'[p] = "user" /\ script'[p] = Tail(script[p])
      /\ \A q \in Procs : q # p => pc'[q] = pc[q] /\ script'[q] = script[q]
  BY <1>1
<1>3. /\ Len(Tail(script[p])) = Len(script[p]) - 1
      /\ Len(script[p]) \in Nat /\ Len(g[p]) \in Nat
  <2>1. script[p] # << >>
    BY <1>1 DEF Engaged
  <2>2. QED
    BY <2>1, NextCall
<1>4. Made(g, p)' = Made(g, p) + 1
  <2>1. Made(g, p)' = Len(g[p]) - (Len(script[p]) - 1)
    BY <1>2, <1>3 DEF Made
  <2>2. Made(g, p) = Len(g[p]) - Len(script[p])
    BY DEF Made
  <2>3. \A x, y \in Nat : x - (y - 1) = (x - y) + 1
    OBVIOUS
  <2>4. QED
    BY <1>3, <2>1, <2>2, <2>3
<1>5. PinsOf(g, p)' = PinsOf(g, p)
  <2>1. PinsOf(g, p) = PinnedAfter(g[p], Made(g, p) + 1)
    BY <1>1 DEF PinsOf, Passed
  <2>2. PinsOf(g, p)' = PinnedAfter(g[p], Made(g, p)')
    BY <1>2 DEF PinsOf, Passed
  <2>3. QED
    BY <1>4, <2>1, <2>2
<1>6. \A q \in Procs : q # p => PinsOf(g, q)' = PinsOf(g, q) /\ Made(g, q)' = Made(g, q)
  BY <1>2, PinsStay
<1>7. QED
  BY <1>4, <1>5, <1>6

LEMMA PutCounts ==
  ASSUME NEW g \in Scripts, CacheInv(g), NEW p \in Procs, Put(p)
  PROVE  CacheInv(g)'
<1> USE DEF CacheInv
<1>0. PICK i \in Bufs : i = b[p]
  BY DEF Typed, TypeOK
<1>1. /\ pc \in [Procs -> Steps] /\ b \in [Procs -> Bufs] /\ buf \in Buffers
      /\ script \in [Procs -> Seq(Calls)]
  BY DEF Typed, TypeOK, Buffers, Following
<1>2. /\ UNCHANGED <<disk, busy, free>> /\ pc[p] = "put"
      /\ pc' = [pc EXCEPT ![p] = "user"] /\ b' = [b EXCEPT ![p] = 1]
      /\ script' = [script EXCEPT ![p] = Tail(script[p])]
      /\ buf' = [buf EXCEPT ![i].refcnt = buf[i].refcnt - 1]
      /\ lru' \in {ToFront(i), lru}
  BY <1>0, <1>1 DEF Put, Goto, Cache, rings
<1>3. buf[i].refcnt - 1 \in Nat /\ p \in Users(i)
  BY <1>0, <1>2, UserCounts DEF InCall, Steps
<1>4. /\ script[p] # << >> /\ Made(g, p) \in Nat /\ Made(g, p) + 1 <= Len(g[p])
      /\ Tail(script[p]) \in Seq(Calls) /\ Len(Tail(script[p])) = Len(script[p]) - 1
      /\ Len(script[p]) \in Nat \ {0} /\ Len(g[p]) \in Nat
      /\ \A j \in 1..(Len(script[p]) - 1) : Tail(script[p])[j] = g[p][Made(g, p) + 1 + j]
  <2>1. script[p] # << >>
    BY <1>2 DEF Engaged
  <2>2. QED
    BY <2>1, NextCall
<1>5. /\ pc'[p] = "user" /\ script'[p] = Tail(script[p])
      /\ \A q \in Procs : q # p => pc'[q] = pc[q] /\ script'[q] = script[q] /\ b'[q] = b[q]
  BY <1>1, <1>2
<1>6. /\ buf' \in Buffers /\ buf'[i].refcnt = buf[i].refcnt - 1
      /\ \A j \in Bufs : buf'[j].blockno = buf[j].blockno
      /\ \A j \in Bufs : j # i => buf'[j].refcnt = buf[j].refcnt
  <2>1. buf' \in Buffers
    BY <1>1, <1>2, <1>3, BufferTypes
  <2>2. QED
    BY <1>1, <1>2, <2>1 DEF Buffers
<1>7. Typed'
  <2>1. 1 \in Bufs
    BY DiskAssumption DEF Bufs
  <2>2. TypeOK'
    <3>1. disk \in [Blocks -> Data] /\ free \subseteq Descs /\ busy \subseteq Bufs
      BY DEF Typed, TypeOK
    <3>2. pc' \in [Procs -> Steps] /\ b' \in [Procs -> Bufs]
      BY <1>1, <1>2, <2>1 DEF Steps
    <3>3. QED
      BY <1>2, <1>6, <3>1, <3>2 DEF TypeOK, Buffers
  <2>3. lru' \in [Bufs -> Bufs] /\ \A j \in Bufs : \E k \in Bufs : lru'[k] = j
    <3>1. /\ ToFront(i) \in [Bufs -> Bufs]
          /\ \A j \in Bufs : \E k \in Bufs : ToFront(i)[k] = j
      BY FrontKeeps
    <3>2. CASE lru' = ToFront(i)
      BY <3>1, <3>2
    <3>3. CASE lru' = lru
      BY <3>3 DEF Typed
    <3>4. QED
      BY <1>2, <3>2, <3>3
  <2>4. QED
    BY <2>2, <2>3 DEF Typed
<1>8. /\ Made(g, p)' = Made(g, p) + 1 /\ \A q \in Procs : q # p => Made(g, q)' = Made(g, q)
      /\ \A q \in Procs : PinsOf(g, q)' = PinsOf(g, q)
  BY PutPins
<1>9. Following(g)'
  <2>1. script' \in [Procs -> Seq(Calls)]
    BY <1>1, <1>2, <1>4
  <2>2. ASSUME NEW q \in Procs
        PROVE  /\ Len(script'[q]) <= Len(g[q])
               /\ \A j \in 1..Len(script'[q]) : script'[q][j] = g[q][Made(g, q)' + j]
    <3>1. CASE q = p
      <4>1. Len(script'[p]) <= Len(g[p])
        <5>1. Len(script[p]) <= Len(g[p])
          BY DEF Following
        <5>2. QED
          BY <1>4, <1>5, <5>1
      <4>2. \A j \in 1..Len(script'[p]) : script'[p][j] = g[p][Made(g, p)' + j]
        BY <1>4, <1>5, <1>8
      <4>3. QED
        BY <3>1, <4>1, <4>2
    <3>2. CASE q # p
      BY <1>5, <1>8, <3>2 DEF Following
    <3>3. QED
      BY <3>1, <3>2
  <2>3. QED
    BY <2>1, <2>2 DEF Following
<1>10. Unique'
  BY <1>6 DEF Unique
<1>11. Engaged'
  <2>1. ASSUME NEW q \in Procs, pc'[q] # "user"
        PROVE  pc'[q] # "panic" /\ script'[q] # << >> /\ buf'[b'[q]].blockno = Head(script'[q]).block
    <3>1. q # p
      BY <1>5, <2>1
    <3>2. pc[q] # "user" /\ b[q] \in Bufs
      BY <1>1, <1>5, <2>1, <3>1
    <3>3. pc[q] # "panic" /\ script[q] # << >> /\ buf[b[q]].blockno = Head(script[q]).block
      BY <3>2 DEF Engaged, call
    <3>4. QED
      BY <1>5, <1>6, <3>1, <3>2, <3>3
  <2>2. QED
    BY <2>1 DEF Engaged, call
<1>12. Counted(g)'
  <2>1. Users(i)' = Users(i) \ {p}
    BY <1>0, <1>1, <1>2, <1>5 DEF Users, InCall
  <2>2. \A j \in Bufs : j # i => Users(j)' = Users(j)
    BY <1>0, <1>1, <1>2, <1>5 DEF Users, InCall
  <2>3. \A j \in Bufs : Pinners(g, j)' = Pinners(g, j)
    BY <1>6, <1>8 DEF Pinners
  <2>4. Users(i) \in SUBSET Procs /\ Pinners(g, i) \in SUBSET Procs
    BY DEF Users, Pinners
  <2>5. Cardinality(Users(i)) \in Nat /\ Cardinality(Pinners(g, i)) \in Nat
    BY <2>4, FewProcs
  <2>6. Cardinality(Users(i)') = Cardinality(Users(i)) - 1
    BY <1>3, <2>1, <2>4, OneMoreOrLess
  <2>7. \A j \in Bufs : buf[j].refcnt = Cardinality(Users(j)) + Cardinality(Pinners(g, j))
    BY DEF Counted
  <2>8. buf'[i].refcnt = Cardinality(Users(i)') + Cardinality(Pinners(g, i))
    BY <1>6, <2>5, <2>6, <2>7
  <2>9. ASSUME NEW j \in Bufs
        PROVE  buf'[j].refcnt = Cardinality(Users(j)') + Cardinality(Pinners(g, j)')
    <3>1. CASE j = i
      BY <2>3, <2>8, <3>1
    <3>2. CASE j # i
      BY <1>6, <2>2, <2>3, <2>7, <3>2
    <3>3. QED
      BY <3>1, <3>2
  <2>10. QED
    BY <2>9 DEF Counted
<1>13. Kept(g)'
  BY <1>6, <1>8 DEF Kept
<1>14. QED
  BY <1>7, <1>9, <1>10, <1>11, <1>12, <1>13

-----------------------------------------------------------------------------
(* The driver moves processes between its own steps, and data *)

InDriver == {"rw", "sleep_free", "sleep_buf", "woken_buf"}

LEMMA DriverMoves ==
  ASSUME NEW g \in Scripts, CacheInv(g), DriverInv', UNCHANGED <<script, lru, b>>,
         disk' \in [Blocks -> Data], buf' \in Buffers,
         \A i \in Bufs : buf'[i].blockno = buf[i].blockno /\ buf'[i].refcnt = buf[i].refcnt,
         \A q \in Procs : \/ pc'[q] = pc[q]
                          \/ pc[q] \in InDriver /\ pc'[q] \in InDriver \cup {"have", "written"}
  PROVE  CacheInv(g)'
<1> USE DEF CacheInv
<1>1. TypeOK'
  BY DEF DriverInv, DriverTypes, TypeOK, Buffers
<1>2. pc \in [Procs -> Steps]
  BY DEF Typed, TypeOK
<1>3. /\ \A q \in Procs : pc[q] \in Steps /\ pc'[q] \in Steps \ {"panic"}
      /\ \A q \in Procs : pc'[q] = "user" <=> pc[q] = "user"
      /\ \A q \in Procs : pc'[q] \in {"release", "put"} <=> pc[q] \in {"release", "put"}
  BY <1>2 DEF InDriver, Engaged, Steps
<1>4. \A q \in Procs : PinsOf(g, q)' = PinsOf(g, q)
  BY <1>3, PinsStay
<1>5. QED
  BY <1>1, <1>3, <1>4, AlikeKeeps

LEMMA RwMoves ==
  ASSUME NEW g \in Scripts, CacheInv(g), DriverInv', NEW p \in Procs, RwStep(p),
         UNCHANGED <<lru, script>>
  PROVE  CacheInv(g)'
<1> USE DEF CacheInv
<1>1. disk \in [Blocks -> Data] /\ buf \in Buffers /\ pc \in [Procs -> Steps]
  BY DEF Typed, TypeOK, Buffers
<1>2. UNCHANGED <<disk, buf, b>>
  BY DEF RwStep, Submit, NoDescriptors, Complete
<1>3. \A q \in Procs : \/ pc'[q] = pc[q]
                       \/ pc[q] \in InDriver /\ pc'[q] \in InDriver \cup {"have", "written"}
  BY <1>1 DEF RwStep, Submit, NoDescriptors, Complete, WakeWaitersAndGoto, InDriver
<1>4. QED
  BY <1>1, <1>2, <1>3, DriverMoves

LEMMA InterruptMoves ==
  ASSUME NEW g \in Scripts, CacheInv(g), DriverInv, DriverInv', Interrupt
  PROVE  CacheInv(g)'
<1> USE DEF CacheInv
<1>1. disk \in [Blocks -> Data] /\ buf \in Buffers /\ pc \in [Procs -> Steps]
  BY DEF Typed, TypeOK, Buffers
<1>2. UNCHANGED <<script, lru, b>>
  BY DEF Interrupt, InterruptStep, Device, IntrEnter, IntrEntry, IntrExit
<1>3. \A q \in Procs : \/ pc'[q] = pc[q]
                       \/ pc[q] \in InDriver /\ pc'[q] \in InDriver \cup {"have", "written"}
  BY <1>1 DEF Interrupt, InterruptStep, Device, IntrEnter, IntrEntry, IntrExit, InDriver
<1>4. /\ disk' \in [Blocks -> Data] /\ buf' \in Buffers
      /\ \A i \in Bufs : buf'[i].blockno = buf[i].blockno /\ buf'[i].refcnt = buf[i].refcnt
  <2>1. CASE Device
    <3>1. PICK d \in Entries(avail) :
            \/ /\ disk' = [disk EXCEPT ![buf[request[d].b].blockno] = buf[request[d].b].data]
               /\ UNCHANGED buf
            \/ /\ buf' = [buf EXCEPT ![request[d].b].data = disk[buf[request[d].b].blockno]]
               /\ UNCHANGED disk
      BY <2>1 DEF Device, Entries
    <3>2. PICK i \in Bufs : i = request[d].b
      BY DEF DriverInv, Rings, InRings, Chained
    <3>3. PICK q \in Procs : b[q] = i /\ pc[q] \in Waiting
      BY <3>2 DEF DriverInv, Rings, InRings, Awaited
    <3>4. script[q] # << >> /\ buf[i].blockno = call(q).block
      BY <3>3 DEF Engaged, Waiting
    <3>5. PICK n \in Blocks : n = buf[i].blockno
      BY <3>4, NextCall DEF Calls
    <3>6. buf[i].data \in Data /\ disk[n] \in Data
      BY <1>1 DEF Buffers
    <3>7. CASE disk' = [disk EXCEPT ![n] = buf[i].data] /\ UNCHANGED buf
      BY <1>1, <3>6, <3>7
    <3>8. CASE buf' = [buf EXCEPT ![i].data = disk[n]] /\ UNCHANGED disk
      <4>1. buf' \in Buffers
        BY <1>1, <3>6, <3>8, BufferTypes
      <4>2. QED
        BY <1>1, <3>8, <4>1 DEF Buffers
    <3>9. QED
      BY <3>1, <3>2, <3>5, <3>7, <3>8
  <2>2. CASE UNCHANGED <<disk, buf>>
    BY <1>1, <2>2
  <2>3. QED
    BY <2>1, <2>2 DEF Interrupt, InterruptStep, IntrEnter, IntrEntry, IntrExit
<1>5. QED
  BY <1>2, <1>3, <1>4, DriverMoves

-----------------------------------------------------------------------------
(* The theorem *)

LEMMA CacheStarts == Init => BlocksInv
<1> SUFFICES ASSUME Init
             PROVE  BlocksInv
  OBVIOUS
<1>1. PICK g \in Scripts : script = g
  BY DEF Init
<1>2. /\ g \in [Procs -> Seq(Calls)] /\ NBUF \in Nat /\ 1 \in Bufs /\ Bufs = 1..NBUF
      /\ InitDisk \in [Blocks -> Data]
  <2>1. NBUF \in Nat /\ 1 \in Bufs /\ Bufs = 1..NBUF
    BY DiskAssumption DEF Bufs
  <2>2. QED
    BY <2>1, CacheAssumption
<1>3. /\ \A i \in Bufs : buf[i].blockno = NoBlock /\ buf[i].refcnt = 0
      /\ \A p \in Procs : pc[p] = "user"
  BY DEF Init, InitDriver
<1>4. Typed
  <2>1. lru \in [Bufs -> Bufs] /\ \A i \in Bufs : lru[NBUF + 1 - i] = i /\ NBUF + 1 - i \in Bufs
    <3>1. \A i \in Bufs : NBUF + 1 - i \in Bufs /\ NBUF + 1 - (NBUF + 1 - i) = i
      BY <1>2
    <3>2. lru = [k \in Bufs |-> NBUF + 1 - k]
      BY DEF Init
    <3>3. QED
      BY <3>1, <3>2
  <2>2. TypeOK
    <3>1. buf \in Buffers
      BY DEF Init, InitDriver, Buffers, Data
    <3>2. QED
      BY <1>2, <3>1 DEF Init, InitDriver, TypeOK, Buffers, Steps
  <2>3. QED
    BY <2>1, <2>2 DEF Typed
<1>5. Following(g)
  <2>1. ASSUME NEW p \in Procs
        PROVE  /\ Len(script[p]) <= Len(g[p])
               /\ \A j \in 1..Len(script[p]) : script[p][j] = g[p][Made(g, p) + j]
    <3>1. Len(g[p]) \in Nat
      BY <1>2, LenProperties
    <3>2. Made(g, p) = 0
      BY <1>1, <3>1 DEF Made
    <3>3. QED
      BY <1>1, <3>1, <3>2
  <2>2. QED
    BY <1>1, <1>2, <2>1 DEF Following
<1>6. \A p \in Procs : PinsOf(g, p) = { }
  <2>1. ASSUME NEW p \in Procs
        PROVE  Passed(g, p) = 0
    <3>1. Len(g[p]) \in Nat
      BY <1>2, LenProperties
    <3>2. QED
      BY <1>1, <1>3, <3>1 DEF Passed, Made
  <2>2. QED
    BY <2>1, NoPinsAtFirst DEF PinsOf
<1>7. Unique /\ Engaged /\ Kept(g)
  BY <1>3, <1>6 DEF Unique, Engaged, Kept
<1>8. Counted(g)
  <2>1. ASSUME NEW i \in Bufs
        PROVE  buf[i].refcnt = Cardinality(Users(i)) + Cardinality(Pinners(g, i))
    <3>1. Users(i) = { } /\ Pinners(g, i) = { }
      BY <1>3, <1>6 DEF Users, Pinners, InCall
    <3>2. Cardinality(Users(i)) = 0 /\ Cardinality(Pinners(g, i)) = 0
      BY <3>1, FS_EmptySet
    <3>3. QED
      BY <1>3, <3>2
  <2>2. QED
    BY <2>1 DEF Counted
<1>9. QED
  BY <1>4, <1>5, <1>7, <1>8 DEF BlocksInv, CacheInv

LEMMA CacheKeeps ==
  ASSUME NEW g \in Scripts, CacheInv(g), DriverInv, DriverInv', [Next]_vars
  PROVE  CacheInv(g)'
<1>1. CASE UNCHANGED vars
  <2>1. UNCHANGED <<script, lru, b, disk, buf>> /\ pc' = pc
    BY <1>1 DEF vars, diskvars
  <2>2. disk \in [Blocks -> Data] /\ buf \in Buffers
    BY DEF CacheInv, Typed, TypeOK, Buffers
  <2>3. QED
    BY <2>1, <2>2, DriverMoves
<1>2. ASSUME NEW p \in Procs, Step(p)
      PROVE  CacheInv(g)'
  <2>1. CASE CacheStep(p)
    BY <2>1, BGetCounts, LockCounts, PinKeeps, ReleaseCounts, PutCounts DEF CacheStep
  <2>2. CASE RwStep(p) /\ UNCHANGED <<lru, script>>
    BY <2>2, RwMoves
  <2>3. QED
    BY <1>2, <2>1, <2>2 DEF Step
<1>3. CASE Interrupt
  BY <1>3, InterruptMoves
<1>4. QED
  BY <1>1, <1>2, <1>3 DEF Next

\* The inductive invariant of the cache holds of every run: b->refcnt is
\* the number of the processes and of the pins that keep the buffer.
THEOREM CacheCorrect == Spec => [](DriverInv /\ BlocksInv)
<1>1. Init => DriverInv /\ BlocksInv
  BY DriverStarts, CacheStarts
<1>2. DriverInv /\ BlocksInv /\ [Next]_vars => DriverInv' /\ BlocksInv'
  <2> SUFFICES ASSUME DriverInv, BlocksInv, [Next]_vars
               PROVE  DriverInv' /\ BlocksInv'
    OBVIOUS
  <2>1. DriverInv'
    BY DriverStep
  <2>2. PICK g \in Scripts : CacheInv(g)
    BY DEF BlocksInv
  <2>3. CacheInv(g)'
    BY <2>1, <2>2, CacheKeeps
  <2>4. QED
    BY <2>1, <2>3 DEF BlocksInv
<1>3. QED
  BY <1>1, <1>2, PTL DEF Spec

LEMMA CacheHasOne == BlocksInv => OneBufferPerBlock
<1> SUFFICES ASSUME NEW g \in Scripts, CacheInv(g)
             PROVE  OneBufferPerBlock
  BY DEF BlocksInv
<1> USE DEF CacheInv
<1>1. TypeOK
  BY DEF Typed
<1>2. \A i, j \in Bufs : i # j /\ buf[i].blockno = buf[j].blockno => buf[i].blockno = NoBlock
  BY DEF Unique
<1>3. \A p \in Procs : pc[p] # "user" => pc[p] # "panic" /\ buf[b[p]].blockno = call(p).block
  BY DEF Engaged
<1>4. QED
  BY <1>1, <1>2, <1>3 DEF OneBufferPerBlock

\* Whatever the order in which the processes and the device move, a block
\* has at most one buffer, whoever waits for a buffer or has it finds its
\* own block there, and bget() does not panic, in a cache of any size that
\* holds the blocks that are called for and pinned at one time.
THEOREM EveryBlockHasOneBuffer == Spec => []OneBufferPerBlock
<1>1. DriverInv /\ BlocksInv => OneBufferPerBlock
  BY CacheHasOne
<1>2. QED
  BY <1>1, CacheCorrect, PTL

-----------------------------------------------------------------------------
(* Why the cache and the disk together are an array of blocks *)

\* A buffer that is valid has what the disk has, unless its block is pinned
\* or its write is under way.
Synced(i) == buf[i].data = disk[buf[i].blockno]
Clean(g) ==
  \A i \in Bufs :
    buf[i].valid /\ Pinners(g, i) = { } /\ (\A p \in Procs : pc[p] \in InDriver => b[p] # i)
      => Synced(i)

\* Whoever comes back from the driver has what the disk has; so has the
\* buffer of a request that the device is done with.
Transferred ==
  /\ \A p \in Procs :
       pc[p] = "written" \/ (pc[p] = "have" /\ ~buf[b[p]].valid) => Synced(b[p])
  /\ \A d \in Heads \ Entries(avail) : Synced(request[d].b)

\* Buffers that are valid are written, the others read.
Directed ==
  /\ \A i \in Bufs : buf[i].valid \in BOOLEAN /\ (buf[i].valid => buf[i].blockno \in Blocks)
  /\ \A p \in Procs : pc[p] \in InDriver => buf[b[p]].valid = write[p]
  /\ \A p \in Procs : pc[p] \in {"written", "release"} => buf[b[p]].valid
  /\ \A d \in Heads : \A p \in Procs :
       pc[p] \in Waiting /\ b[p] = request[d].b => request[d].write = write[p]

Serves(g) == Clean(g) /\ Transferred /\ Directed
StoreInv == DriverInv /\ \E g \in Scripts : CacheInv(g) /\ Serves(g)

\* A buffer keeps its block and what it holds.
Alike(i) ==
  buf'[i].blockno = buf[i].blockno /\ buf'[i].valid = buf[i].valid /\ buf'[i].data = buf[i].data

LEMMA StoreTypes ==
  ASSUME NEW g \in Scripts, CacheInv(g), DriverInv
  PROVE  /\ pc \in [Procs -> Steps] /\ b \in [Procs -> Bufs] /\ buf \in Buffers
         /\ \A d \in Heads : request[d].b \in Bufs /\ d \in Descs
         /\ \A p, q \in Procs : pc[p] \in Holding /\ pc[q] \in Holding /\ b[p] = b[q] => p = q
         /\ InDriver \subseteq Holding /\ Waiting \subseteq InDriver
<1>1. pc \in [Procs -> Steps] /\ b \in [Procs -> Bufs] /\ buf \in Buffers
  BY DEF CacheInv, Typed, TypeOK, Buffers
<1>2. \A d \in Heads : request[d].b \in Bufs /\ d \in Descs
  BY DEF DriverInv, Chained, Heads
<1>3. \A p, q \in Procs : pc[p] \in Holding /\ pc[q] \in Holding /\ b[p] = b[q] => p = q
  BY DEF DriverInv, Owners
<1>4. InDriver \subseteq Holding /\ Waiting \subseteq InDriver
  BY DEF InDriver, Holding, Waiting
<1>5. QED
  BY <1>1, <1>2, <1>3, <1>4

\* Steps that change neither what the disk and the buffers hold nor who is
\* in the driver, and end no request.
LEMMA QuietServes ==
  ASSUME NEW g \in Scripts, CacheInv(g), DriverInv, Serves(g),
         UNCHANGED disk, \A i \in Bufs : Alike(i),
         \A i \in Bufs : Pinners(g, i)' = Pinners(g, i),
         \A q \in Procs : pc'[q] \in InDriver <=> pc[q] \in InDriver,
         \A q \in Procs : pc'[q] \in InDriver \cup {"written", "have", "release"} =>
                            b'[q] = b[q] /\ write'[q] = write[q],
         \A q \in Procs : pc'[q] \in {"written", "release"} => pc'[q] = pc[q],
         \A q \in Procs : pc'[q] = "have" => pc[q] = "have" \/ buf[b[q]].valid,
         \A d \in Heads' \ Entries(avail)' : d \in Heads \ Entries(avail) /\ request'[d] = request[d],
         \A d \in Heads' : \A q \in Procs :
           pc'[q] \in Waiting /\ b[q] = request'[d].b => request'[d].write = write[q]
  PROVE  Serves(g)'
<1>1. b \in [Procs -> Bufs] /\ \A d \in Heads : request[d].b \in Bufs
  BY StoreTypes
<1>2. Clean(g)'
  <2>1. ASSUME NEW i \in Bufs, buf'[i].valid, Pinners(g, i)' = { },
               \A q \in Procs : pc'[q] \in InDriver => b'[q] # i
        PROVE  buf'[i].data = disk'[buf'[i].blockno]
    <3>1. buf[i].valid /\ Pinners(g, i) = { } /\ \A q \in Procs : pc[q] \in InDriver => b[q] # i
      BY <2>1 DEF Alike
    <3>2. Synced(i)
      BY <3>1 DEF Serves, Clean
    <3>3. QED
      BY <3>2 DEF Synced, Alike
  <2>2. QED
    BY <2>1 DEF Clean, Synced
<1>3. Transferred'
  <2>1. \A q \in Procs : pc'[q] = "written" \/ (pc'[q] = "have" /\ ~buf'[b'[q]].valid) =>
                           buf'[b'[q]].data = disk'[buf'[b'[q]].blockno]
    <3>1. ASSUME NEW q \in Procs, pc'[q] = "written" \/ (pc'[q] = "have" /\ ~buf'[b'[q]].valid)
          PROVE  buf'[b'[q]].data = disk'[buf'[b'[q]].blockno]
      <4>1. b'[q] = b[q] /\ b[q] \in Bufs /\ Alike(b[q])
        BY <1>1, <3>1
      <4>2. pc[q] = "written" \/ (pc[q] = "have" /\ ~buf[b[q]].valid)
        BY <3>1, <4>1 DEF Alike
      <4>3. Synced(b[q])
        BY <4>2 DEF Serves, Transferred
      <4>4. QED
        BY <4>1, <4>3 DEF Synced, Alike
    <3>2. QED
      BY <3>1
  <2>2. \A d \in Heads' \ Entries(avail)' :
          buf'[request'[d].b].data = disk'[buf'[request'[d].b].blockno]
    <3>1. ASSUME NEW d \in Heads' \ Entries(avail)'
          PROVE  buf'[request'[d].b].data = disk'[buf'[request'[d].b].blockno]
      <4>1. d \in Heads \ Entries(avail) /\ request'[d] = request[d]
        BY <3>1
      <4>2. Synced(request[d].b) /\ request[d].b \in Bufs /\ Alike(request[d].b)
        BY <1>1, <4>1 DEF Serves, Transferred
      <4>3. QED
        BY <4>1, <4>2 DEF Synced, Alike
    <3>2. QED
      BY <3>1
  <2>3. QED
    BY <2>1, <2>2 DEF Transferred, Synced
<1>4. Directed'
  <2>1. \A i \in Bufs : buf'[i].valid \in BOOLEAN /\ (buf'[i].valid => buf'[i].blockno \in Blocks)
    BY DEF Serves, Directed, Alike
  <2>2. ASSUME NEW q \in Procs
        PROVE  /\ pc'[q] \in InDriver => buf'[b'[q]].valid = write'[q]
               /\ pc'[q] \in {"written", "release"} => buf'[b'[q]].valid
    BY <1>1 DEF Serves, Directed, Alike
  <2>3. \A q \in Procs : pc'[q] \in Waiting => pc'[q] \in InDriver
    BY DEF Waiting, InDriver
  <2>4. \A d \in Heads' : \A q \in Procs :
          pc'[q] \in Waiting /\ b'[q] = request'[d].b => request'[d].write = write'[q]
    BY <2>3
  <2>5. QED
    BY <2>1, <2>2, <2>4 DEF Directed
<1>5. QED
  BY <1>2, <1>3, <1>4 DEF Serves

\* Steps of a process outside the driver that change a buffer which nobody
\* else has.
LEMMA OwnServes ==
  ASSUME NEW g \in Scripts, CacheInv(g), DriverInv, Serves(g),
         NEW p \in Procs, NEW i \in Bufs, UNCHANGED <<disk, request, avail>>,
         \A j \in Bufs : j # i => Alike(j) /\ Pinners(g, j)' = Pinners(g, j),
         \A q \in Procs : q # p => pc'[q] = pc[q] /\ b'[q] = b[q] /\ write'[q] = write[q],
         \A q \in Procs : q # p /\ pc[q] \in Holding => b[q] # i,
         pc[p] \notin InDriver, pc'[p] \notin Waiting \cup {"written"},
         pc'[p] \in Holding => b'[p] = i,
         buf'[i].valid \in BOOLEAN, buf'[i].valid => buf'[i].blockno \in Blocks,
         buf'[i].valid /\ Pinners(g, i)' = { } /\ pc'[p] \notin InDriver =>
           buf'[i].data = disk[buf'[i].blockno],
         pc'[p] \in {"have", "release"} => buf'[i].valid,
         pc'[p] \in InDriver => buf'[i].valid = write'[p]
  PROVE  Serves(g)'
<1>1. /\ b \in [Procs -> Bufs] /\ \A d \in Heads : request[d].b \in Bufs
      /\ InDriver \subseteq Holding /\ Waiting \subseteq InDriver
      /\ "have" \notin InDriver /\ "written" \notin InDriver
      /\ "have" \in Holding /\ "written" \in Holding /\ "release" \in Holding
  BY StoreTypes DEF InDriver, Holding
<1>2. /\ Heads' = Heads /\ Entries(avail)' = Entries(avail)
  BY DEF Heads, Entries
<1>3. \A d \in Heads : request[d].b # i
  <2> SUFFICES ASSUME NEW d \in Heads, request[d].b = i
               PROVE  FALSE
    OBVIOUS
  <2>1. PICK q \in Procs : b[q] = i /\ pc[q] \in Waiting
    BY DEF DriverInv, Awaited
  <2>2. QED
    BY <1>1, <2>1
<1>4. \A j \in Bufs : j # i /\ Synced(j) => buf'[j].data = disk'[buf'[j].blockno]
  BY DEF Synced, Alike
<1>5. Clean(g)'
  <2>1. ASSUME NEW j \in Bufs, buf'[j].valid, Pinners(g, j)' = { },
               \A q \in Procs : pc'[q] \in InDriver => b'[q] # j
        PROVE  buf'[j].data = disk'[buf'[j].blockno]
    <3>1. CASE j = i
      BY <1>1, <2>1, <3>1
    <3>2. CASE j # i
      <4>1. buf[j].valid /\ Pinners(g, j) = { } /\ \A q \in Procs : pc[q] \in InDriver => b[q] # j
        BY <2>1, <3>2 DEF Alike
      <4>2. Synced(j)
        BY <4>1 DEF Serves, Clean
      <4>3. QED
        BY <1>4, <3>2, <4>2
    <3>3. QED
      BY <3>1, <3>2
  <2>2. QED
    BY <2>1 DEF Clean, Synced
<1>6. Transferred'
  <2>1. ASSUME NEW q \in Procs, pc'[q] = "written" \/ (pc'[q] = "have" /\ ~buf'[b'[q]].valid)
        PROVE  buf'[b'[q]].data = disk'[buf'[b'[q]].blockno]
    <3>1. q # p /\ b'[q] = b[q] /\ pc'[q] = pc[q] /\ b[q] \in Bufs
      BY <1>1, <2>1
    <3>2. b[q] # i
      BY <2>1, <3>1 DEF Holding
    <3>3. Synced(b[q])
      BY <2>1, <3>1, <3>2 DEF Serves, Transferred, Alike
    <3>4. QED
      BY <1>4, <3>1, <3>2, <3>3
  <2>2. ASSUME NEW d \in Heads' \ Entries(avail)'
        PROVE  buf'[request'[d].b].data = disk'[buf'[request'[d].b].blockno]
    <3>1. Synced(request[d].b) /\ request[d].b \in Bufs /\ request[d].b # i
      BY <1>1, <1>2, <1>3 DEF Serves, Transferred
    <3>2. QED
      BY <1>4, <3>1
  <2>3. QED
    BY <2>1, <2>2 DEF Transferred, Synced
<1>7. Directed'
  <2>1. \A j \in Bufs : buf'[j].valid \in BOOLEAN /\ (buf'[j].valid => buf'[j].blockno \in Blocks)
    BY DEF Serves, Directed, Alike
  <2>2. ASSUME NEW q \in Procs
        PROVE  /\ pc'[q] \in InDriver => buf'[b'[q]].valid = write'[q]
               /\ pc'[q] \in {"written", "release"} => buf'[b'[q]].valid
    <3>1. CASE q = p
      BY <1>1, <3>1 DEF Holding
    <3>2. CASE q # p
      <4>1. /\ pc[q] \in InDriver => buf[b[q]].valid = write[q]
            /\ pc[q] \in {"written", "release"} => buf[b[q]].valid
        BY DEF Serves, Directed
      <4>2. pc[q] \in Holding => b[q] # i /\ Alike(b[q])
        BY <1>1, <3>2
      <4>3. QED
        BY <1>1, <3>2, <4>1, <4>2 DEF Alike, Holding
    <3>3. QED
      BY <3>1, <3>2
  <2>3. ASSUME NEW d \in Heads', NEW q \in Procs, pc'[q] \in Waiting, b'[q] = request'[d].b
        PROVE  request'[d].write = write'[q]
    <3>1. q # p
      BY <2>3
    <3>2. pc[q] \in Waiting /\ b[q] = request[d].b /\ d \in Heads
      BY <1>2, <2>3, <3>1
    <3>3. request[d].write = write[q]
      BY <3>2 DEF Serves, Directed
    <3>4. QED
      BY <3>1, <3>3
  <2>4. QED
    BY <2>1, <2>2, <2>3 DEF Directed
<1>8. QED
  BY <1>5, <1>6, <1>7 DEF Serves

LEMMA PinnersStay ==
  ASSUME NEW g, \A q \in Procs : PinsOf(g, q)' = PinsOf(g, q),
         NEW i, buf'[i].blockno = buf[i].blockno
  PROVE  Pinners(g, i)' = Pinners(g, i)
BY DEF Pinners

\* bget() and brelse() at a distance from the driver.
LEMMA IdleServes ==
  ASSUME NEW g \in Scripts, CacheInv(g), DriverInv, Serves(g), NEW p \in Procs,
         UNCHANGED <<disk, request, avail>>, \A i \in Bufs : Alike(i),
         \A q \in Procs : PinsOf(g, q)' = PinsOf(g, q),
         pc[p] \in {"user", "put"}, pc'[p] \in {"user", "lock"},
         \A q \in Procs : q # p => pc'[q] = pc[q] /\ b'[q] = b[q] /\ write'[q] = write[q]
  PROVE  Serves(g)'
<1>1. Heads' = Heads /\ Entries(avail)' = Entries(avail)
  BY DEF Heads, Entries
<1>2. \A i \in Bufs : Pinners(g, i)' = Pinners(g, i)
  BY PinnersStay DEF Alike
<1>3. \A q \in Procs : pc'[q] \in InDriver \cup {"written", "have", "release"} => q # p
  BY DEF InDriver
<1>4. \A q \in Procs : pc[q] \in InDriver => q # p
  BY DEF InDriver
<1>5. \A q \in Procs : pc'[q] \in Waiting => pc[q] \in Waiting
  <2>1. pc'[p] \notin Waiting
    BY DEF Waiting
  <2>2. QED
    BY <2>1
<1>6. \A d \in Heads' : \A q \in Procs :
        pc'[q] \in Waiting /\ b[q] = request'[d].b => request'[d].write = write[q]
  BY <1>1, <1>5 DEF Serves, Directed
<1>7. QED
  BY <1>1, <1>2, <1>3, <1>4, <1>6, QuietServes

LEMMA BGetServes ==
  ASSUME NEW g \in Scripts, CacheInv(g), DriverInv, Serves(g), NEW p \in Procs, BGet(p)
  PROVE  Serves(g)'
<1>0. /\ pc \in [Procs -> Steps] /\ b \in [Procs -> Bufs] /\ buf \in Buffers
      /\ Waiting \subseteq InDriver
  BY StoreTypes
<1>1. PICK i \in Bufs, n \in Blocks :
        /\ n = call(p).block /\ n # NoBlock /\ pc[p] = "user" /\ script[p] # << >>
        /\ b' = [b EXCEPT ![p] = i] /\ pc' = [pc EXCEPT ![p] = "lock"]
        /\ UNCHANGED <<disk, busy, free, request, avail, write, lru, script>>
        /\ \/ buf[i].blockno = n /\ buf' = [buf EXCEPT ![i].refcnt = @ + 1]
           \/ /\ Found(n) = { } /\ buf[i].refcnt = 0
              /\ buf' = [buf EXCEPT ![i].refcnt = 1, ![i].blockno = n, ![i].valid = FALSE]
  BY BGetEffect
<1>2. /\ pc'[p] = "lock" /\ b'[p] = i
      /\ \A q \in Procs : q # p => pc'[q] = pc[q] /\ b'[q] = b[q] /\ write'[q] = write[q]
  BY <1>0, <1>1
<1>3. \A q \in Procs : PinsOf(g, q)' = PinsOf(g, q)
  BY <1>1, <1>2, PinsStay
<1>4. CASE buf' = [buf EXCEPT ![i].refcnt = @ + 1]
  <2>1. \A j \in Bufs : Alike(j)
    BY <1>0, <1>4 DEF Alike, Buffers
  <2>2. QED
    BY <1>1, <1>2, <1>3, <2>1, IdleServes
<1>5. CASE /\ Found(n) = { } /\ buf[i].refcnt = 0
           /\ buf' = [buf EXCEPT ![i].refcnt = 1, ![i].blockno = n, ![i].valid = FALSE]
  <2>1. Users(i) = { }
    BY <1>5, NobodysBuffer
  <2>2. \A q \in Procs : q # p /\ pc[q] \in Holding => b[q] # i
    BY <2>1 DEF Users, InCall, Holding, Waiting, Steps
  <2>3. buf'[i].valid = FALSE /\ \A j \in Bufs : j # i => Alike(j)
    BY <1>0, <1>5 DEF Alike, Buffers
  <2>4. \A j \in Bufs : j # i => Pinners(g, j)' = Pinners(g, j)
    BY <1>3, <2>3, PinnersStay DEF Alike
  <2>5. /\ pc[p] \notin InDriver /\ pc'[p] \notin Waiting \cup {"written"}
        /\ pc'[p] \notin {"have", "release"} /\ pc'[p] \notin InDriver
        /\ pc'[p] \in Holding => b'[p] = i
    BY <1>1, <1>2 DEF InDriver, Waiting
  <2>6. /\ buf'[i].valid \in BOOLEAN /\ (buf'[i].valid => buf'[i].blockno \in Blocks)
        /\ buf'[i].valid /\ Pinners(g, i)' = { } /\ pc'[p] \notin InDriver =>
             buf'[i].data = disk[buf'[i].blockno]
        /\ pc'[p] \in {"have", "release"} => buf'[i].valid
        /\ pc'[p] \in InDriver => buf'[i].valid = write'[p]
    BY <2>3, <2>5
  <2>7. \A j \in Bufs : j # i => Alike(j) /\ Pinners(g, j)' = Pinners(g, j)
    BY <2>3, <2>4
  <2>8. UNCHANGED <<disk, request, avail>>
    BY <1>1
  <2>9. QED
    BY <1>2, <2>2, <2>5, <2>6, <2>7, <2>8, OwnServes
<1>6. QED
  BY <1>1, <1>4, <1>5

LEMMA LockServes ==
  ASSUME NEW g \in Scripts, CacheInv(g), DriverInv, Serves(g), NEW p \in Procs, Lock(p)
  PROVE  Serves(g)'
<1>0. PICK i \in Bufs : i = b[p]
  BY StoreTypes
<1>1. /\ pc \in [Procs -> Steps] /\ b \in [Procs -> Bufs] /\ buf \in Buffers
      /\ write \in [Procs -> BOOLEAN] /\ 0 \notin Procs
  BY StoreTypes, DiskAssumption DEF DriverInv, DriverTypes
<1>2. /\ UNCHANGED <<disk, request, avail, script, b>> /\ pc[p] = "lock" /\ buf[i].owner = 0
      /\ pc' = [pc EXCEPT ![p] = IF buf[i].valid THEN "have" ELSE "rw"]
      /\ write' = [write EXCEPT ![p] = FALSE]
  BY <1>0 DEF Lock, Goto, Cache, rings
<1>3. \A j \in Bufs : Alike(j)
  BY <1>0, <1>1 DEF Lock, Alike, Buffers
<1>4. /\ pc'[p] = (IF buf[i].valid THEN "have" ELSE "rw") /\ write'[p] = FALSE /\ b'[p] = i
      /\ \A q \in Procs : q # p => pc'[q] = pc[q] /\ b'[q] = b[q] /\ write'[q] = write[q]
  BY <1>0, <1>1, <1>2
<1>5. \A q \in Procs : q # p /\ pc[q] \in Holding => b[q] # i
  BY <1>1, <1>2 DEF DriverInv, Owners
<1>6. \A q \in Procs : PinsOf(g, q)' = PinsOf(g, q)
  BY <1>2, <1>4, PinsStay
<1>7. \A j \in Bufs : Pinners(g, j)' = Pinners(g, j)
  BY <1>3, <1>6, PinnersStay DEF Alike
<1>8. /\ buf'[i].valid = buf[i].valid /\ buf'[i].blockno = buf[i].blockno
      /\ buf'[i].data = buf[i].data
      /\ buf[i].valid \in BOOLEAN /\ (buf[i].valid => buf[i].blockno \in Blocks)
  BY <1>3 DEF Alike, Serves, Directed
<1>9. buf[i].valid /\ Pinners(g, i) = { } => Synced(i)
  <2>1. \A q \in Procs : pc[q] \in InDriver => b[q] # i
    BY <1>2, <1>5 DEF InDriver, Holding, Waiting
  <2>2. QED
    BY <2>1 DEF Serves, Clean
<1>10. /\ pc[p] \notin InDriver /\ pc'[p] \notin Waiting \cup {"written"}
       /\ pc'[p] \in {"have", "release"} => buf'[i].valid
       /\ pc'[p] \in InDriver => buf'[i].valid = write'[p]
       /\ pc'[p] \in Holding => b'[p] = i
  <2>1. CASE buf[i].valid
    <3>1. pc'[p] = "have" /\ buf'[i].valid
      BY <1>4, <1>8, <2>1
    <3>2. QED
      BY <1>2, <1>4, <3>1 DEF InDriver, Waiting
  <2>2. CASE ~buf[i].valid
    <3>1. pc'[p] = "rw" /\ buf'[i].valid = FALSE /\ write'[p] = FALSE
      BY <1>4, <1>8, <2>2
    <3>2. QED
      BY <1>2, <1>4, <3>1 DEF InDriver, Waiting
  <2>3. QED
    BY <2>1, <2>2
<1>11. /\ buf'[i].valid \in BOOLEAN /\ (buf'[i].valid => buf'[i].blockno \in Blocks)
       /\ buf'[i].valid /\ Pinners(g, i)' = { } /\ pc'[p] \notin InDriver =>
            buf'[i].data = disk[buf'[i].blockno]
  BY <1>7, <1>8, <1>9 DEF Synced
<1>12. UNCHANGED <<disk, request, avail>>
  BY <1>2
<1>13. QED
  BY <1>3, <1>4, <1>5, <1>7, <1>10, <1>11, <1>12, OwnServes

\* The buffer that a process has locked and used.
LEMMA HeldBuffer ==
  ASSUME NEW g \in Scripts, CacheInv(g), DriverInv, Serves(g),
         NEW p \in Procs, pc[p] \in {"have", "written", "release"}
  PROVE  \E i \in Bufs, n \in Blocks :
           /\ i = b[p] /\ n = call(p).block /\ buf[i].blockno = n
           /\ \A q \in Procs : q # p /\ pc[q] \in Holding => b[q] # i
           /\ \A q \in Procs : pc[q] \in InDriver => b[q] # i
           /\ pc[p] \notin InDriver
<1>1. /\ pc \in [Procs -> Steps] /\ b \in [Procs -> Bufs] /\ buf \in Buffers
      /\ InDriver \subseteq Holding
      /\ \A q \in Procs : pc[q] \in Holding /\ b[q] = b[p] => q = p
  <2>1. pc[p] \in Holding
    BY DEF Holding
  <2>2. QED
    BY <2>1, StoreTypes
<1>2. script[p] # << >> /\ buf[b[p]].blockno = call(p).block
  BY DEF CacheInv, Engaged
<1>3. call(p).block \in Blocks
  BY <1>2, NextCall DEF CacheInv, Calls
<1>4. pc[p] \notin InDriver
  BY DEF InDriver
<1>5. QED
  BY <1>1, <1>2, <1>3, <1>4

\* What the caller does to the buffer: its block stays.
LEMMA ChangeEffect ==
  ASSUME buf \in Buffers, NEW p \in Procs, NEW i \in Bufs, i = b[p],
         ChangeAndWrite(p) \/ ChangeAndPin(p)
  PROVE  /\ \A j \in Bufs : buf'[j].blockno = buf[j].blockno
         /\ \A j \in Bufs : j # i => Alike(j)
         /\ buf'[i].valid = TRUE /\ buf'[i].data \in Data
<1> DEFINE r == buf[i]
           x == [r EXCEPT !.data = 1 - @, !.valid = TRUE]
           y == [x EXCEPT !.refcnt = @ + 1]
           z == [r EXCEPT !.valid = TRUE]
<1>1. r \in [blockno : Blocks \cup {NoBlock}, valid : BOOLEAN, refcnt : Nat, data : Data,
             owner : Procs \cup {0}]
  BY DEF Buffers
<1>2. buf' = [buf EXCEPT ![i] = x] \/ buf' = [buf EXCEPT ![i] = y] \/ buf' = [buf EXCEPT ![i] = z]
  BY DEF ChangeAndWrite, ChangeAndPin, Changed, Pin
<1>3. 1 - r.data \in Data /\ r.data \in Data
  <2>1. r.data \in {0, 1}
    BY <1>1 DEF Data
  <2>2. QED
    BY <2>1 DEF Data
<1> HIDE DEF r
<1>4. x.blockno = r.blockno /\ x.valid = TRUE /\ x.data \in Data
  BY <1>1, <1>3
<1>5. z.blockno = r.blockno /\ z.valid = TRUE /\ z.data \in Data
  BY <1>1, <1>3
<1>6. y.blockno = x.blockno /\ y.valid = x.valid /\ y.data = x.data
  BY <1>1
<1> HIDE DEF x, y, z
<1>7. \A w : buf' = [buf EXCEPT ![i] = w] =>
        buf'[i] = w /\ \A j \in Bufs : j # i => buf'[j] = buf[j]
  BY DEF Buffers
<1>8. PICK w \in {x, y, z} : buf' = [buf EXCEPT ![i] = w]
  BY <1>2
<1>9. w.blockno = r.blockno /\ w.valid = TRUE /\ w.data \in Data
  BY <1>4, <1>5, <1>6
<1>10. buf'[i] = w /\ \A j \in Bufs : j # i => buf'[j] = buf[j]
  BY <1>7, <1>8
<1>11. QED
  BY <1>9, <1>10 DEF Alike, r

LEMMA WriteServes ==
  ASSUME NEW g \in Scripts, CacheInv(g), DriverInv, Serves(g), NEW p \in Procs,
         ChangeAndWrite(p)
  PROVE  Serves(g)'
<1>1. /\ pc \in [Procs -> Steps] /\ b \in [Procs -> Bufs] /\ buf \in Buffers
      /\ write \in [Procs -> BOOLEAN]
  BY StoreTypes DEF DriverInv, DriverTypes
<1>2. pc[p] = "have"
  BY DEF ChangeAndWrite
<1>3. PICK i \in Bufs, n \in Blocks :
        /\ i = b[p] /\ n = call(p).block /\ buf[i].blockno = n
        /\ \A q \in Procs : q # p /\ pc[q] \in Holding => b[q] # i
        /\ pc[p] \notin InDriver
  BY <1>2, HeldBuffer
<1>4. /\ UNCHANGED <<disk, request, avail, script, b>>
      /\ pc' = [pc EXCEPT ![p] = "rw"] /\ write' = [write EXCEPT ![p] = TRUE]
  BY DEF ChangeAndWrite, Goto, Cache, rings
<1>5. /\ buf'[i].valid = TRUE /\ buf'[i].blockno = n
      /\ \A j \in Bufs : buf'[j].blockno = buf[j].blockno
      /\ \A j \in Bufs : j # i => Alike(j)
  BY <1>1, <1>3, ChangeEffect
<1>6. /\ pc'[p] = "rw" /\ write'[p] = TRUE /\ b'[p] = i
      /\ \A q \in Procs : q # p => pc'[q] = pc[q] /\ b'[q] = b[q] /\ write'[q] = write[q]
  BY <1>1, <1>3, <1>4
<1>7. \A q \in Procs : PinsOf(g, q)' = PinsOf(g, q)
  BY <1>2, <1>4, <1>6, PinsStay
<1>8. \A j \in Bufs : j # i => Alike(j) /\ Pinners(g, j)' = Pinners(g, j)
  BY <1>5, <1>7, PinnersStay
<1>9. /\ pc'[p] \notin Waiting \cup {"written"} /\ pc'[p] \in InDriver
      /\ pc'[p] \notin {"have", "release"} /\ buf'[i].valid = write'[p]
  BY <1>5, <1>6 DEF InDriver, Waiting
<1>10. /\ buf'[i].valid \in BOOLEAN /\ (buf'[i].valid => buf'[i].blockno \in Blocks)
       /\ UNCHANGED <<disk, request, avail>>
  BY <1>4, <1>5
<1>11. QED
  BY <1>3, <1>6, <1>8, <1>9, <1>10, OwnServes

LEMMA PinServes ==
  ASSUME NEW g \in Scripts, CacheInv(g), DriverInv, Serves(g), NEW p \in Procs,
         ChangeAndPin(p) \/ BUnpin(p)
  PROVE  Serves(g)'
<1>1. /\ pc \in [Procs -> Steps] /\ b \in [Procs -> Bufs] /\ buf \in Buffers
  BY StoreTypes
<1>2. pc[p] \in {"have", "written"} /\ call(p).op \in {"log", "install"}
  BY DEF ChangeAndPin, BUnpin
<1>3. PICK i \in Bufs, n \in Blocks :
        /\ i = b[p] /\ n = call(p).block /\ buf[i].blockno = n
        /\ \A q \in Procs : q # p /\ pc[q] \in Holding => b[q] # i
        /\ pc[p] \notin InDriver
  BY <1>2, HeldBuffer
<1>4. /\ UNCHANGED <<disk, request, avail>> /\ UNCHANGED script /\ UNCHANGED <<b, write>>
      /\ pc' = [pc EXCEPT ![p] = "release"]
  BY DEF ChangeAndPin, BUnpin, Goto, Cache, rings
<1>5. /\ \A j \in Bufs : buf'[j].blockno = buf[j].blockno
      /\ \A j \in Bufs : j # i => Alike(j)
  <2>1. CASE ChangeAndPin(p)
    BY <1>1, <1>3, <2>1, ChangeEffect
  <2>2. CASE BUnpin(p)
    BY <1>1, <1>3, <2>2 DEF BUnpin, Alike, Buffers
  <2>3. QED
    BY <2>1, <2>2
<1>6. /\ pc'[p] = "release" /\ b'[p] = i
      /\ \A q \in Procs : q # p => pc'[q] = pc[q] /\ b'[q] = b[q] /\ write'[q] = write[q]
  BY <1>1, <1>3, <1>4
<1>7. /\ \A j \in Bufs : j # i => Pinners(g, j)' = Pinners(g, j)
      /\ call(p).op = "log" => Pinners(g, i)' # { }
  <2>1. UNCHANGED script /\ pc' = [pc EXCEPT ![p] = "release"] /\ i = b[p]
        /\ \A j \in Bufs : buf'[j].blockno = buf[j].blockno
    BY <1>3, <1>4, <1>5
  <2>2. /\ \A j \in Bufs : j # i => Pinners(g, j)' = Pinners(g, j)
        /\ call(p).op = "log" => Pinners(g, i)' = Pinners(g, i) \cup {p}
    BY <1>2, <2>1, PinnersMove
  <2>3. QED
    BY <2>2
<1>8. buf'[i].valid = TRUE /\ (Pinners(g, i)' = { } => buf'[i].data = disk[buf'[i].blockno])
  <2>1. CASE ChangeAndPin(p)
    <3>1. buf'[i].valid = TRUE /\ call(p).op = "log"
      BY <1>1, <1>3, <2>1, ChangeEffect DEF ChangeAndPin
    <3>2. QED
      BY <1>7, <3>1
  <2>2. CASE BUnpin(p)
    <3>1. pc[p] = "written" /\ Alike(i)
      BY <1>1, <1>3, <2>2 DEF BUnpin, Alike, Buffers
    <3>2. buf[i].valid /\ buf[i].valid \in BOOLEAN /\ Synced(i)
      BY <1>3, <3>1 DEF Serves, Directed, Transferred
    <3>3. QED
      BY <3>1, <3>2 DEF Alike, Synced
  <2>3. QED
    BY <2>1, <2>2
<1>9. \A j \in Bufs : j # i => Alike(j) /\ Pinners(g, j)' = Pinners(g, j)
  BY <1>5, <1>7
<1>10. /\ pc'[p] \notin Waiting \cup {"written"} /\ pc'[p] \notin InDriver
  BY <1>6 DEF InDriver, Waiting
<1>11. buf'[i].valid \in BOOLEAN /\ buf'[i].blockno \in Blocks
  BY <1>3, <1>5, <1>8
<1>12. QED
  BY <1>3, <1>4, <1>6, <1>8, <1>9, <1>10, <1>11, OwnServes

LEMMA ReleaseServes ==
  ASSUME NEW g \in Scripts, CacheInv(g), DriverInv, Serves(g), NEW p \in Procs,
         ReleaseSleep(p)
  PROVE  Serves(g)'
<1>1. /\ pc \in [Procs -> Steps] /\ b \in [Procs -> Bufs] /\ buf \in Buffers
  BY StoreTypes
<1>2. pc[p] \in {"have", "written", "release"}
  BY DEF ReleaseSleep
<1>3. PICK i \in Bufs, n \in Blocks :
        /\ i = b[p] /\ n = call(p).block /\ buf[i].blockno = n
        /\ \A q \in Procs : q # p /\ pc[q] \in Holding => b[q] # i
        /\ \A q \in Procs : pc[q] \in InDriver => b[q] # i
        /\ pc[p] \notin InDriver
  BY <1>2, HeldBuffer
<1>4. /\ UNCHANGED <<disk, request, avail>> /\ UNCHANGED <<b, write>>
      /\ pc' = [pc EXCEPT ![p] = "put"]
  BY DEF ReleaseSleep, Goto, Cache, rings
<1>5. /\ buf'[i].valid = TRUE /\ buf'[i].data = buf[i].data
      /\ \A j \in Bufs : buf'[j].blockno = buf[j].blockno
      /\ \A j \in Bufs : j # i => Alike(j)
  BY <1>1, <1>3 DEF ReleaseSleep, Alike, Buffers
<1>6. /\ pc'[p] = "put" /\ b'[p] = i
      /\ \A q \in Procs : q # p => pc'[q] = pc[q] /\ b'[q] = b[q] /\ write'[q] = write[q]
  BY <1>1, <1>3, <1>4
<1>7. \A q \in Procs : PinsOf(g, q)' = PinsOf(g, q)
  BY ReleasePins
<1>8. \A j \in Bufs : Pinners(g, j)' = Pinners(g, j)
  BY <1>5, <1>7, PinnersStay
<1>9. Pinners(g, i)' = { } => buf'[i].data = disk[buf'[i].blockno]
  <2>1. SUFFICES ASSUME Pinners(g, i) = { }
                 PROVE  Synced(i)
    BY <1>5, <1>8 DEF Synced
  <2>2. CASE buf[i].valid
    BY <1>3, <2>1, <2>2 DEF Serves, Clean
  <2>3. CASE ~buf[i].valid
    BY <1>2, <1>3, <2>3 DEF Serves, Directed, Transferred
  <2>4. QED
    BY <2>2, <2>3
<1>10. \A j \in Bufs : j # i => Alike(j) /\ Pinners(g, j)' = Pinners(g, j)
  BY <1>5, <1>8
<1>11. /\ pc'[p] \notin Waiting \cup {"written"} /\ pc'[p] \notin InDriver
       /\ pc'[p] \notin {"have", "release"}
  BY <1>6 DEF InDriver, Waiting
<1>12. buf'[i].valid \in BOOLEAN /\ buf'[i].blockno \in Blocks
  BY <1>3, <1>5
<1>13. QED
  BY <1>3, <1>4, <1>6, <1>9, <1>10, <1>11, <1>12, OwnServes

LEMMA PutServes ==
  ASSUME NEW g \in Scripts, CacheInv(g), DriverInv, Serves(g), NEW p \in Procs, Put(p)
  PROVE  Serves(g)'
<1>1. /\ pc \in [Procs -> Steps] /\ b \in [Procs -> Bufs] /\ buf \in Buffers
      /\ write \in [Procs -> BOOLEAN]
  BY StoreTypes DEF DriverInv, DriverTypes
<1>2. /\ UNCHANGED <<disk, request, avail>> /\ pc[p] = "put"
      /\ pc' = [pc EXCEPT ![p] = "user"] /\ b' = [b EXCEPT ![p] = 1]
      /\ write' = [write EXCEPT ![p] = FALSE]
  BY DEF Put, Goto, Cache, rings
<1>3. \A i \in Bufs : Alike(i)
  BY <1>1 DEF Put, Alike, Buffers
<1>4. /\ pc'[p] = "user"
      /\ \A q \in Procs : q # p => pc'[q] = pc[q] /\ b'[q] = b[q] /\ write'[q] = write[q]
  BY <1>1, <1>2
<1>5. \A q \in Procs : PinsOf(g, q)' = PinsOf(g, q)
  BY PutPins
<1>6. QED
  BY <1>2, <1>3, <1>4, <1>5, IdleServes

\* The steps of the driver and of its interrupt that only move processes.
LEMMA MovesServe ==
  ASSUME NEW g \in Scripts, CacheInv(g), DriverInv, Serves(g),
         UNCHANGED <<disk, buf, request, b, write, script>>,
         Heads \ Entries(avail)' \subseteq Heads \ Entries(avail),
         \A q \in Procs : pc'[q] = pc[q] \/ (pc[q] \in InDriver /\ pc'[q] \in InDriver),
         \A q \in Procs : pc'[q] \in Waiting => pc[q] \in Waiting
  PROVE  Serves(g)'
<1>1. Heads' = Heads
  BY DEF Heads
<1>2. \A q \in Procs : PinsOf(g, q)' = PinsOf(g, q)
  <2>1. \A q \in Procs : pc'[q] \in {"release", "put"} <=> pc[q] \in {"release", "put"}
    BY DEF InDriver
  <2>2. QED
    BY <2>1, PinsStay
<1>3. \A i \in Bufs : Alike(i) /\ Pinners(g, i)' = Pinners(g, i)
  BY <1>2, PinnersStay DEF Alike
<1>4. /\ \A q \in Procs : pc'[q] \in InDriver <=> pc[q] \in InDriver
      /\ \A q \in Procs : pc'[q] \in {"written", "release"} => pc'[q] = pc[q]
      /\ \A q \in Procs : pc'[q] = "have" => pc[q] = "have"
  BY DEF InDriver
<1>5. \A d \in Heads' \ Entries(avail)' : d \in Heads \ Entries(avail) /\ request'[d] = request[d]
  BY <1>1
<1>6. \A d \in Heads' : \A q \in Procs :
        pc'[q] \in Waiting /\ b[q] = request'[d].b => request'[d].write = write[q]
  BY <1>1 DEF Serves, Directed
<1>7. QED
  BY <1>3, <1>4, <1>5, <1>6, QuietServes

LEMMA SubmitServes ==
  ASSUME NEW g \in Scripts, CacheInv(g), DriverInv, Serves(g), NEW p \in Procs, Submit(p),
         UNCHANGED script
  PROVE  Serves(g)'
<1>0. /\ pc \in [Procs -> Steps] /\ b \in [Procs -> Bufs]
      /\ \A q \in Procs : pc[q] \in Holding /\ pc[p] \in Holding /\ b[q] = b[p] => q = p
      /\ InDriver \subseteq Holding /\ Waiting \subseteq InDriver
  BY StoreTypes
<1>1. PICK d0 \in Descs :
        /\ pc[p] = "rw" /\ request'[d0].b = b[p] /\ request'[d0].write = write[p]
        /\ \A d \in Descs : d # d0 => request'[d] = request[d]
        /\ avail' = Append(avail, d0) /\ pc' = [pc EXCEPT ![p] = "sleep_buf"]
        /\ UNCHANGED <<disk, buf, b, write>>
  <2>1. free \in SUBSET Descs /\ Cardinality(free) >= 3 /\ DOMAIN request = Descs
    BY DEF Submit, DriverInv, DriverTypes
  <2>2. PICK d0 \in Descs : d0 = Lowest(free)
    BY <2>1, ThreeFree
  <2>3. request' = [request EXCEPT ![d0] =
                      [chain |-> <<d0, Lowest(free \ {d0}), Lowest(free \ {d0, Lowest(free \ {d0})})>>,
                       b |-> b[p], write |-> write[p]]]
    BY <2>2 DEF Submit
  <2>4. /\ request'[d0].b = b[p] /\ request'[d0].write = write[p]
        /\ \A d \in Descs : d # d0 => request'[d] = request[d]
    BY <2>1, <2>3
  <2>5. QED
    BY <2>2, <2>4 DEF Submit
<1>2. /\ pc'[p] = "sleep_buf" /\ \A q \in Procs : q # p => pc'[q] = pc[q]
      /\ pc[p] \in InDriver /\ pc[p] \in Holding
  BY <1>0, <1>1 DEF InDriver
<1>3. \A d \in Descs : d # d0 => request'[d] = request[d]
  BY <1>1
<1>4. Entries(avail)' = Entries(avail) \cup {d0}
  <2>1. /\ avail \in Seq(Descs) /\ Len(avail) \in Nat
    BY LenProperties DEF DriverInv, DriverTypes
  <2>2. /\ Len(avail') = Len(avail) + 1
        /\ \A k \in 1..Len(avail) : avail'[k] = avail[k]
        /\ avail'[Len(avail) + 1] = d0
    BY <1>1, <2>1, AppendProperties
  <2>3. 1..Len(avail') = 1..Len(avail) \cup {Len(avail) + 1}
    BY <2>1, <2>2
  <2>4. {avail'[k] : k \in 1..Len(avail')} = {avail[k] : k \in 1..Len(avail)} \cup {d0}
    BY <2>2, <2>3
  <2>5. QED
    BY <2>4 DEF Entries
<1>5. \A d \in Heads' : d \in Descs /\ (d # d0 => d \in Heads /\ request'[d] = request[d])
  BY <1>3 DEF Heads
<1>6. \A q \in Procs : PinsOf(g, q)' = PinsOf(g, q)
  <2>1. \A q \in Procs : pc'[q] \in {"release", "put"} <=> pc[q] \in {"release", "put"}
    BY <1>1, <1>2
  <2>2. QED
    BY <2>1, PinsStay
<1>7. \A i \in Bufs : Alike(i) /\ Pinners(g, i)' = Pinners(g, i)
  BY <1>1, <1>6, PinnersStay DEF Alike
<1>8. /\ \A q \in Procs : pc'[q] \in InDriver <=> pc[q] \in InDriver
      /\ \A q \in Procs : pc'[q] \in {"written", "release"} => pc'[q] = pc[q]
      /\ \A q \in Procs : pc'[q] = "have" => pc[q] = "have"
  BY <1>2 DEF InDriver
<1>9. \A d \in Heads' \ Entries(avail)' : d \in Heads \ Entries(avail) /\ request'[d] = request[d]
  BY <1>4, <1>5
<1>10. ASSUME NEW d \in Heads', NEW q \in Procs, pc'[q] \in Waiting, b[q] = request'[d].b
       PROVE  request'[d].write = write[q]
  <2>1. CASE d = d0
    <3>1. b[q] = b[p] /\ request'[d].write = write[p]
      BY <1>1, <1>3, <1>10, <2>1
    <3>2. q = p
      BY <1>0, <1>2, <1>10, <3>1
    <3>3. QED
      BY <3>1, <3>2
  <2>2. CASE d # d0
    <3>1. d \in Heads /\ request'[d] = request[d]
      BY <1>5, <2>2
    <3>2. PICK w \in Procs : b[w] = request[d].b /\ pc[w] \in Waiting
      BY <3>1 DEF DriverInv, Awaited
    <3>3. q # p
      BY <1>0, <1>1, <1>2, <1>10, <3>1, <3>2 DEF Waiting
    <3>4. QED
      BY <1>2, <1>10, <3>1, <3>3 DEF Serves, Directed
  <2>3. QED
    BY <2>1, <2>2
<1>11. UNCHANGED disk /\ UNCHANGED <<b, write>>
  BY <1>1
<1>12. QED
  BY <1>7, <1>8, <1>9, <1>10, <1>11, QuietServes

LEMMA CompleteServes ==
  ASSUME NEW g \in Scripts, CacheInv(g), DriverInv, Serves(g), NEW p \in Procs, Complete(p),
         UNCHANGED script
  PROVE  Serves(g)'
<1>0. /\ pc \in [Procs -> Steps] /\ b \in [Procs -> Bufs] /\ pc[p] = "woken_buf"
      /\ UNCHANGED <<disk, buf, avail, b, write>> /\ 0 \notin Bufs
      /\ pc[p] \in InDriver
  BY StoreTypes, BufsAndDescs DEF Complete, InDriver
<1>1. CASE b[p] \in busy
  <2>1. pc' = [pc EXCEPT ![p] = "sleep_buf"] /\ UNCHANGED request
    BY <1>1 DEF Complete
  <2>2. /\ \A q \in Procs : pc'[q] = pc[q] \/ (pc[q] \in InDriver /\ pc'[q] \in InDriver)
        /\ \A q \in Procs : pc'[q] \in Waiting => pc[q] \in Waiting
    BY <1>0, <2>1 DEF InDriver, Waiting
  <2>3. Entries(avail)' = Entries(avail)
    BY <1>0 DEF Entries
  <2>4. UNCHANGED <<disk, buf, request, b, write, script>>
    BY <1>0, <2>1
  <2>5. QED
    BY <2>2, <2>3, <2>4, MovesServe
<1>2. CASE b[p] \notin busy
  <2>1. PICK d \in Descs :
          /\ request[d].b = b[p] /\ request' = [request EXCEPT ![d] = NoRequest]
          /\ WakeWaitersAndGoto(p, IF write[p] THEN "written" ELSE "have")
    BY <1>2 DEF Complete
  <2>2. /\ \A q \in Procs : q # p => \/ pc'[q] = pc[q]
                                     \/ pc'[q] = "rw" /\ pc[q] = "sleep_free"
        /\ pc'[p] = IF write[p] THEN "written" ELSE "have"
    BY <1>0, <2>1 DEF WakeWaitersAndGoto
  <2>3. /\ d \in Heads /\ DOMAIN request = Descs
    BY <1>0, <2>1 DEF Heads, NoRequest, DriverInv, DriverTypes
  <2>4. /\ Heads' = Heads \ {d}
        /\ \A e \in Descs : e # d => request'[e] = request[e]
    BY <2>1, <2>3 DEF Heads
  <2>5. d \notin Entries(avail) /\ Entries(avail)' = Entries(avail)
    BY <1>0, <1>2, <2>1 DEF DriverInv, Rings, InRings, Entries
  <2>6. PICK i \in Bufs : i = b[p]
    BY <1>0
  <2>7. Synced(i)
    BY <2>1, <2>3, <2>5, <2>6 DEF Serves, Transferred
  <2>8. buf[i].valid = write[p] /\ write[p] \in BOOLEAN
    BY <1>0, <2>6 DEF Serves, Directed, DriverInv, DriverTypes
  <2>9. \A q \in Procs : PinsOf(g, q)' = PinsOf(g, q)
    <3>1. \A q \in Procs : pc'[q] \in {"release", "put"} <=> pc[q] \in {"release", "put"}
      BY <1>0, <2>2
    <3>2. QED
      BY <3>1, PinsStay
  <2>10. \A j \in Bufs : Pinners(g, j)' = Pinners(g, j)
    BY <1>0, <2>9, PinnersStay
  <2>11. Clean(g)'
    <3>1. ASSUME NEW j \in Bufs, buf[j].valid, Pinners(g, j) = { },
                 \A q \in Procs : pc'[q] \in InDriver => b[q] # j
          PROVE  Synced(j)
      <4>1. CASE j = i
        BY <2>7, <4>1
      <4>2. CASE j # i
        <5>1. \A q \in Procs : pc[q] \in InDriver => b[q] # j
          BY <2>2, <2>6, <3>1, <4>2 DEF InDriver
        <5>2. QED
          BY <3>1, <5>1 DEF Serves, Clean
      <4>3. QED
        BY <4>1, <4>2
    <3>2. QED
      BY <1>0, <2>10, <3>1 DEF Clean, Synced
  <2>12. Transferred'
    <3>1. ASSUME NEW q \in Procs, pc'[q] = "written" \/ (pc'[q] = "have" /\ ~buf[b[q]].valid)
          PROVE  Synced(b[q])
      <4>1. CASE q = p
        BY <2>6, <2>7, <4>1
      <4>2. CASE q # p
        BY <2>2, <3>1, <4>2 DEF Serves, Transferred
      <4>3. QED
        BY <4>1, <4>2
    <3>2. ASSUME NEW e \in Heads' \ Entries(avail)'
          PROVE  Synced(request'[e].b)
      <4>1. e \in Heads \ Entries(avail) /\ request'[e] = request[e]
        BY <2>4, <2>5 DEF Heads
      <4>2. QED
        BY <4>1 DEF Serves, Transferred
    <3>3. QED
      BY <1>0, <3>1, <3>2 DEF Transferred, Synced
  <2>13. Directed'
    <3>1. \A j \in Bufs : buf[j].valid \in BOOLEAN /\ (buf[j].valid => buf[j].blockno \in Blocks)
      BY DEF Serves, Directed
    <3>2. ASSUME NEW q \in Procs
          PROVE  /\ pc'[q] \in InDriver => buf[b[q]].valid = write[q]
                 /\ pc'[q] \in {"written", "release"} => buf[b[q]].valid
      <4>1. CASE q = p
        BY <2>2, <2>6, <2>8, <4>1 DEF InDriver
      <4>2. CASE q # p
        BY <2>2, <4>2 DEF Serves, Directed, InDriver
      <4>3. QED
        BY <4>1, <4>2
    <3>3. ASSUME NEW e \in Heads', NEW q \in Procs, pc'[q] \in Waiting, b[q] = request'[e].b
          PROVE  request'[e].write = write[q]
      <4>1. e \in Heads /\ request'[e] = request[e]
        BY <2>4 DEF Heads
      <4>2. pc[q] \in Waiting
        BY <2>2, <3>3 DEF Waiting
      <4>3. QED
        BY <3>3, <4>1, <4>2 DEF Serves, Directed
    <3>4. QED
      BY <1>0, <3>1, <3>2, <3>3 DEF Directed
  <2>14. QED
    BY <2>11, <2>12, <2>13 DEF Serves
<1>3. QED
  BY <1>1, <1>2

LEMMA IntrServes ==
  ASSUME NEW g \in Scripts, CacheInv(g), DriverInv, Serves(g),
         UNCHANGED <<disk, buf, request, avail, b, write, script>>,
         \A q \in Procs : \/ pc'[q] = pc[q]
                          \/ pc'[q] = "woken_buf" /\ pc[q] = "sleep_buf"
                          \/ pc'[q] \in {"rw", "sleep_free"} /\ pc[q] \in {"rw", "sleep_free"}
  PROVE  Serves(g)'
<1>1. /\ \A q \in Procs : pc'[q] = pc[q] \/ (pc[q] \in InDriver /\ pc'[q] \in InDriver)
      /\ \A q \in Procs : pc'[q] \in Waiting => pc[q] \in Waiting
  BY DEF InDriver, Waiting
<1>2. Entries(avail)' = Entries(avail)
  BY DEF Entries
<1>3. QED
  BY <1>1, <1>2, MovesServe

LEMMA InCallBlock ==
  ASSUME NEW g \in Scripts, CacheInv(g), NEW q \in Procs, pc[q] # "user"
  PROVE  buf[b[q]].blockno = call(q).block /\ buf[b[q]].blockno \in Blocks
<1>1. script[q] # << >> /\ buf[b[q]].blockno = call(q).block
  BY DEF CacheInv, Engaged
<1>2. call(q) \in Calls
  BY <1>1, NextCall DEF CacheInv
<1>3. QED
  BY <1>1, <1>2 DEF Calls

\* The device copies a block to or from a buffer that somebody waits for.
LEMMA DeviceEffect ==
  ASSUME NEW g \in Scripts, CacheInv(g), DriverInv, Serves(g), Device
  PROVE  \E d \in Heads, i \in Bufs, n \in Blocks, q \in Procs :
           /\ i = request[d].b /\ n = buf[i].blockno /\ b[q] = i /\ pc[q] \in Waiting
           /\ Entries(avail)' = Entries(avail) \ {d}
           /\ \/ /\ buf[i].valid
                 /\ disk' = [disk EXCEPT ![n] = buf[i].data] /\ UNCHANGED buf
              \/ /\ ~buf[i].valid
                 /\ buf' = [buf EXCEPT ![i].data = disk[n]] /\ UNCHANGED disk
<1>1. PICK k \in 1..Len(avail) :
        /\ avail' = Without(avail, k)
        /\ IF request[avail[k]].write
           THEN /\ disk' = [disk EXCEPT ![buf[request[avail[k]].b].blockno] =
                              buf[request[avail[k]].b].data]
                /\ UNCHANGED buf
           ELSE /\ buf' = [buf EXCEPT ![request[avail[k]].b].data =
                             disk[buf[request[avail[k]].b].blockno]]
                /\ UNCHANGED disk
  BY DEF Device, Without
<1>2. PICK d \in Heads : d = avail[k]
  BY DEF DriverInv, Rings, InRings, Entries
<1>3. PICK i \in Bufs : i = request[d].b
  BY StoreTypes
<1>4. PICK q \in Procs : b[q] = i /\ pc[q] \in Waiting
  BY <1>3 DEF DriverInv, Awaited
<1>5. PICK n \in Blocks : n = buf[i].blockno
  BY <1>4, InCallBlock DEF Waiting
<1>6. request[d].write = write[q] /\ buf[i].valid = write[q]
  BY <1>3, <1>4, StoreTypes DEF Serves, Directed
<1>7. Entries(avail)' = Entries(avail) \ {d}
  <2>1. avail \in Seq(Descs) /\ Once(avail)
    BY DEF DriverInv, DriverTypes, Rings
  <2>2. Entries(avail') = Entries(avail) \ {avail[k]}
    BY <1>1, <2>1, RingLoses
  <2>3. QED
    BY <1>2, <2>2 DEF Entries
<1>8. QED
  BY <1>1, <1>2, <1>3, <1>4, <1>5, <1>6, <1>7

LEMMA DeviceServes ==
  ASSUME NEW g \in Scripts, CacheInv(g), DriverInv, Serves(g), Device, UNCHANGED script
  PROVE  Serves(g)'
<1>1. PICK d \in Heads, i \in Bufs, n \in Blocks, q \in Procs :
        /\ i = request[d].b /\ n = buf[i].blockno /\ b[q] = i /\ pc[q] \in Waiting
        /\ Entries(avail)' = Entries(avail) \ {d}
        /\ \/ /\ buf[i].valid
              /\ disk' = [disk EXCEPT ![n] = buf[i].data] /\ UNCHANGED buf
           \/ /\ ~buf[i].valid
              /\ buf' = [buf EXCEPT ![i].data = disk[n]] /\ UNCHANGED disk
  BY DeviceEffect
<1>2. UNCHANGED <<request, pc, b, write, script>>
  BY DEF Device
<1>3. /\ buf \in Buffers /\ b \in [Procs -> Bufs] /\ disk \in [Blocks -> Data]
      /\ \A x, y \in Procs : pc[x] \in Holding /\ pc[y] \in Holding /\ b[x] = b[y] => x = y
      /\ InDriver \subseteq Holding /\ Waiting \subseteq InDriver
      /\ \A j \in Bufs : j # i => buf[j].blockno # n
  <2>1. disk \in [Blocks -> Data]
    BY DEF CacheInv, Typed, TypeOK
  <2>2. n # NoBlock
    BY CacheAssumption
  <2>3. \A j \in Bufs : j # i => buf[j].blockno # n
    BY <1>1, <2>2 DEF CacheInv, Unique
  <2>4. QED
    BY <2>1, <2>3, StoreTypes
<1>4. /\ \A j \in Bufs : buf'[j].blockno = buf[j].blockno /\ buf'[j].valid = buf[j].valid
      /\ buf'[i].data = disk'[buf'[i].blockno]
      /\ \A j \in Bufs : j # i /\ buf[j].blockno \in Blocks /\ Synced(j) =>
           buf'[j].data = disk'[buf'[j].blockno]
  <2>1. CASE disk' = [disk EXCEPT ![n] = buf[i].data] /\ UNCHANGED buf
    BY <1>1, <1>3, <2>1 DEF Synced
  <2>2. CASE buf' = [buf EXCEPT ![i].data = disk[n]] /\ UNCHANGED disk
    BY <1>1, <1>3, <2>2 DEF Synced, Buffers
  <2>3. QED
    BY <1>1, <2>1, <2>2
<1>5. \A j \in Bufs : Pinners(g, j)' = Pinners(g, j)
  BY <1>2, <1>4, PinsStay, PinnersStay
<1>6. Clean(g)'
  <2>1. ASSUME NEW j \in Bufs, buf[j].valid, Pinners(g, j) = { },
               \A x \in Procs : pc[x] \in InDriver => b[x] # j
        PROVE  buf'[j].data = disk'[buf'[j].blockno]
    <3>1. j # i /\ buf[j].blockno \in Blocks
      BY <1>1, <1>3, <2>1 DEF Serves, Directed
    <3>2. Synced(j)
      BY <2>1 DEF Serves, Clean
    <3>3. QED
      BY <1>4, <3>1, <3>2
  <2>2. QED
    BY <1>2, <1>4, <1>5, <2>1 DEF Clean, Synced
<1>7. Transferred'
  <2>1. ASSUME NEW x \in Procs, pc[x] = "written" \/ (pc[x] = "have" /\ ~buf[b[x]].valid)
        PROVE  buf'[b[x]].data = disk'[buf'[b[x]].blockno]
    <3>1. b[x] # i
      BY <1>1, <1>3, <2>1 DEF Holding, Waiting
    <3>2. Synced(b[x]) /\ buf[b[x]].blockno \in Blocks
      BY <2>1, InCallBlock DEF Serves, Transferred
    <3>3. QED
      BY <1>3, <1>4, <3>1, <3>2
  <2>2. ASSUME NEW e \in Heads \ (Entries(avail) \ {d})
        PROVE  buf'[request[e].b].data = disk'[buf'[request[e].b].blockno]
    <3>1. CASE e = d
      BY <1>1, <1>4, <3>1
    <3>2. CASE e # d
      <4>1. request[e].b \in Bufs /\ request[e].b # i
        BY <1>1, <3>2, StoreTypes DEF DriverInv, Awaited
      <4>2. Synced(request[e].b)
        BY <3>2 DEF Serves, Transferred
      <4>3. buf[request[e].b].blockno \in Blocks
        <5>1. PICK x \in Procs : b[x] = request[e].b /\ pc[x] \in Waiting
          BY DEF DriverInv, Awaited
        <5>2. QED
          BY <5>1, InCallBlock DEF Waiting
      <4>4. QED
        BY <1>4, <4>1, <4>2, <4>3
    <3>3. QED
      BY <3>1, <3>2
  <2>3. Heads' = Heads
    BY <1>2 DEF Heads
  <2>4. \A x \in Procs : b[x] \in Bufs /\ buf'[b[x]].valid = buf[b[x]].valid
    BY <1>3, <1>4
  <2>5. QED
    BY <1>1, <1>2, <2>1, <2>2, <2>3, <2>4 DEF Transferred, Synced
<1>8. Directed'
  <2>1. Heads' = Heads
    BY <1>2 DEF Heads
  <2>2. \A x \in Procs : b[x] \in Bufs
    BY <1>3
  <2>3. QED
    BY <1>2, <1>4, <2>1, <2>2 DEF Serves, Directed
<1>9. QED
  BY <1>6, <1>7, <1>8 DEF Serves

-----------------------------------------------------------------------------
(* The invariant *)

LEMMA StoreStarts == Init => StoreInv
<1> SUFFICES ASSUME Init
             PROVE  StoreInv
  OBVIOUS
<1>1. DriverInv
  BY DriverStarts
<1>2. PICK g \in Scripts : CacheInv(g)
  BY CacheStarts DEF BlocksInv
<1>3. /\ \A i \in Bufs : buf[i].valid = FALSE
      /\ \A p \in Procs : pc[p] = "user"
      /\ Heads = { }
  BY DEF Init, InitDriver, Heads
<1>4. Clean(g)
  BY <1>3 DEF Clean
<1>5. Transferred
  BY <1>3 DEF Transferred
<1>6. Directed
  BY <1>3 DEF Directed, InDriver
<1>7. QED
  BY <1>1, <1>2, <1>4, <1>5, <1>6 DEF StoreInv, Serves

LEMMA StoreKeeps ==
  ASSUME NEW g \in Scripts, CacheInv(g), DriverInv, Serves(g), [Next]_vars
  PROVE  Serves(g)'
<1>1. CASE UNCHANGED vars
  <2>1. UNCHANGED <<disk, buf, request, avail, b, write, script>> /\ pc' = pc
    BY <1>1 DEF vars, diskvars, rings
  <2>2. QED
    BY <2>1, IntrServes
<1>2. ASSUME NEW p \in Procs, CacheStep(p)
      PROVE  Serves(g)'
  BY <1>2, BGetServes, LockServes, WriteServes, PinServes, ReleaseServes, PutServes
     DEF CacheStep
<1>3. ASSUME NEW p \in Procs, RwStep(p), UNCHANGED script
      PROVE  Serves(g)'
  <2>1. CASE NoDescriptors(p)
    <3>1. UNCHANGED <<disk, buf, request, avail, b, write, script>>
      BY <1>3, <2>1 DEF NoDescriptors, rings
    <3>2. \A q \in Procs : \/ pc'[q] = pc[q]
                           \/ pc'[q] \in {"rw", "sleep_free"} /\ pc[q] \in {"rw", "sleep_free"}
      BY <2>1, StoreTypes DEF NoDescriptors, WakeWaitersAndGoto
    <3>3. QED
      BY <3>1, <3>2, IntrServes
  <2>2. QED
    BY <1>3, <2>1, SubmitServes, CompleteServes DEF RwStep
<1>4. CASE Interrupt
  <2>1. UNCHANGED script
    BY <1>4 DEF Interrupt
  <2>2. CASE Device
    BY <2>1, <2>2, DeviceServes
  <2>3. CASE IntrEnter \/ IntrEntry \/ IntrExit
    <3>1. UNCHANGED <<disk, buf, request, avail, b, write, script>>
      BY <2>1, <2>3 DEF IntrEnter, IntrEntry, IntrExit, rings
    <3>2. \A q \in Procs : pc'[q] = pc[q] \/ (pc'[q] = "woken_buf" /\ pc[q] = "sleep_buf")
      BY <2>3, StoreTypes DEF IntrEnter, IntrEntry, IntrExit
    <3>3. QED
      BY <3>1, <3>2, IntrServes
  <2>4. QED
    BY <1>4, <2>2, <2>3 DEF Interrupt, InterruptStep
<1>5. QED
  BY <1>1, <1>2, <1>3, <1>4 DEF Next, Step

LEMMA StoreStep == StoreInv /\ [Next]_vars => StoreInv'
<1> SUFFICES ASSUME StoreInv, [Next]_vars
             PROVE  StoreInv'
  OBVIOUS
<1>1. DriverInv /\ DriverInv'
  BY DriverStep DEF StoreInv
<1>2. PICK g \in Scripts : CacheInv(g) /\ Serves(g)
  BY DEF StoreInv
<1>3. CacheInv(g)' /\ Serves(g)'
  BY <1>1, <1>2, CacheKeeps, StoreKeeps
<1>4. QED
  BY <1>1, <1>3 DEF StoreInv

-----------------------------------------------------------------------------
(* What a block holds, and who uses it *)

\* The contents of block n when f are the buffers and dk is the disk.
View(f, dk, n) ==
  IF \E i \in {j \in Bufs : f[j].blockno = n} : f[i].valid
  THEN f[CHOOSE i \in {j \in Bufs : f[j].blockno = n} : TRUE].data
  ELSE dk[n]

LEMMA ContentsAre ==
  /\ Contents = [n \in Blocks |-> View(buf, disk, n)]
  /\ Contents' = [n \in Blocks |-> View(buf', disk', n)]
<1>1. Contents = [n \in Blocks |-> View(buf, disk, n)]
  BY DEF Contents, View, Found
<1>2. Contents' = [n \in Blocks |-> View(buf', disk', n)]
  BY DEF Contents, View, Found
<1>3. QED
  BY <1>1, <1>2

LEMMA ViewOf ==
  ASSUME NEW f, NEW dk, NEW n, NEW i \in Bufs, f[i].blockno = n,
         \A j \in Bufs : f[j].blockno = n => j = i
  PROVE  View(f, dk, n) = IF f[i].valid THEN f[i].data ELSE dk[n]
<1>1. {j \in Bufs : f[j].blockno = n} = {i}
  OBVIOUS
<1>2. (CHOOSE j \in {i} : TRUE) = i
  OBVIOUS
<1>3. View(f, dk, n) = IF \E j \in {i} : f[j].valid THEN f[CHOOSE j \in {i} : TRUE].data ELSE dk[n]
  BY <1>1 DEF View
<1>4. QED
  BY <1>2, <1>3

LEMMA ViewValid ==
  ASSUME NEW f, NEW dk, NEW n, NEW i \in Bufs, f[i].blockno = n,
         \A j \in Bufs : f[j].blockno = n => j = i
  PROVE  /\ f[i].valid => View(f, dk, n) = f[i].data
         /\ ~f[i].valid => View(f, dk, n) = dk[n]
BY ViewOf

LEMMA ViewNone ==
  ASSUME NEW f, NEW dk, NEW n, \A j \in Bufs : f[j].blockno # n
  PROVE  View(f, dk, n) = dk[n]
BY DEF View

LEMMA ViewSame ==
  ASSUME NEW f, NEW h, NEW dk, NEW n,
         \A j \in Bufs : h[j].blockno = n <=> f[j].blockno = n,
         \A j \in Bufs : f[j].blockno = n => h[j].valid = f[j].valid /\ h[j].data = f[j].data
  PROVE  View(h, dk, n) = View(f, dk, n)
<1> DEFINE S == {j \in Bufs : f[j].blockno = n}
<1>1. {j \in Bufs : h[j].blockno = n} = S
  OBVIOUS
<1>2. \A j \in S : h[j].valid = f[j].valid /\ h[j].data = f[j].data
  OBVIOUS
<1>3. /\ View(f, dk, n) = IF \E i \in S : f[i].valid THEN f[CHOOSE i \in S : TRUE].data ELSE dk[n]
      /\ View(h, dk, n) = IF \E i \in S : h[i].valid THEN h[CHOOSE i \in S : TRUE].data ELSE dk[n]
  BY <1>1 DEF View
<1>4. S # { } => (CHOOSE i \in S : TRUE) \in S
  OBVIOUS
<1> HIDE DEF S
<1>5. CASE \E i \in S : f[i].valid
  BY <1>2, <1>3, <1>4, <1>5
<1>6. CASE ~\E i \in S : f[i].valid
  BY <1>2, <1>3, <1>6
<1>7. QED
  BY <1>5, <1>6

LEMMA ViewElsewhere ==
  ASSUME NEW f, NEW dk, NEW dk2, NEW n, dk2[n] = dk[n]
  PROVE  View(f, dk2, n) = View(f, dk, n)
BY DEF View

\* Nothing that the store shows changes with other fields of the buffers.
LEMMA ContentsStay ==
  ASSUME UNCHANGED disk, \A i \in Bufs : Alike(i)
  PROVE  Contents' = Contents
<1>1. \A n \in Blocks : View(buf', disk, n) = View(buf, disk, n)
  BY ViewSame DEF Alike
<1>2. QED
  BY <1>1, ContentsAre

\* A step that changes one buffer, and perhaps its block on the disk.
LEMMA ContentsMove ==
  ASSUME Unique, NEW i \in Bufs, NEW n \in Blocks, n # NoBlock, buf[i].blockno = n,
         \A j \in Bufs : buf'[j].blockno = buf[j].blockno,
         \A j \in Bufs : j # i => Alike(j),
         \A m \in Blocks : m # n => disk'[m] = disk[m]
  PROVE  /\ Contents[n] = IF buf[i].valid THEN buf[i].data ELSE disk[n]
         /\ Contents' = [Contents EXCEPT ![n] = IF buf'[i].valid THEN buf'[i].data ELSE disk'[n]]
<1>1. \A j \in Bufs : buf[j].blockno = n => j = i
  BY DEF Unique
<1>2. View(buf, disk, n) = IF buf[i].valid THEN buf[i].data ELSE disk[n]
  BY <1>1, ViewOf
<1>3. View(buf', disk', n) = IF buf'[i].valid THEN buf'[i].data ELSE disk'[n]
  <2>1. buf'[i].blockno = n /\ \A j \in Bufs : buf'[j].blockno = n => j = i
    BY <1>1
  <2>2. QED
    BY <2>1, ViewOf
<1>4. ASSUME NEW m \in Blocks, m # n
      PROVE  View(buf', disk', m) = View(buf, disk, m)
  <2>1. \A j \in Bufs : buf[j].blockno = m => buf'[j].valid = buf[j].valid /\ buf'[j].data = buf[j].data
    BY <1>4 DEF Alike
  <2>2. View(buf', disk, m) = View(buf, disk, m)
    BY <2>1, ViewSame
  <2>3. View(buf', disk', m) = View(buf', disk, m)
    BY <1>4, ViewElsewhere
  <2>4. QED
    BY <2>2, <2>3
<1>5. QED
  BY <1>2, <1>3, <1>4, ContentsAre

\* A buffer is recycled for a block that is not in the cache.
LEMMA ContentsRecycled ==
  ASSUME Unique, UNCHANGED disk, NEW i \in Bufs, NEW n \in Blocks,
         \A j \in Bufs : buf[j].blockno # n,
         buf[i].valid => Synced(i),
         buf'[i].blockno = n, buf'[i].valid = FALSE,
         \A j \in Bufs : j # i => Alike(j), NoBlock \notin Blocks
  PROVE  Contents' = Contents
<1>1. View(buf', disk, n) = disk[n] /\ View(buf, disk, n) = disk[n]
  <2>1. View(buf, disk, n) = disk[n]
    BY ViewNone
  <2>2. \A j \in Bufs : buf'[j].blockno = n => j = i
    BY DEF Alike
  <2>3. View(buf', disk, n) = disk[n]
    <3>1. buf'[i].blockno = n
      OBVIOUS
    <3>2. /\ buf'[i].valid => View(buf', disk, n) = buf'[i].data
          /\ ~buf'[i].valid => View(buf', disk, n) = disk[n]
      BY <2>2, <3>1, ViewValid
    <3>3. QED
      BY <3>2
  <2>4. QED
    BY <2>1, <2>3
<1>2. ASSUME NEW m \in Blocks, m # n
      PROVE  View(buf', disk, m) = View(buf, disk, m)
  <2>1. CASE buf[i].blockno = m
    <3>1. \A j \in Bufs : buf[j].blockno = m => j = i
      BY <2>1 DEF Unique
    <3>2. /\ buf[i].valid => View(buf, disk, m) = buf[i].data
          /\ ~buf[i].valid => View(buf, disk, m) = disk[m]
      <4>1. buf[i].blockno = m
        BY <2>1
      <4>2. QED
        BY <3>1, <4>1, ViewValid
    <3>3. \A j \in Bufs : buf'[j].blockno # m
      BY <1>2, <3>1 DEF Alike
    <3>4. View(buf', disk, m) = disk[m]
      BY <3>3, ViewNone
    <3>5. QED
      BY <2>1, <3>2, <3>4 DEF Synced
  <2>2. CASE buf[i].blockno # m
    <3>1. \A j \in Bufs : buf'[j].blockno = m <=> buf[j].blockno = m
      BY <1>2, <2>2 DEF Alike
    <3>2. \A j \in Bufs : buf[j].blockno = m => buf'[j].valid = buf[j].valid /\ buf'[j].data = buf[j].data
      BY <2>2 DEF Alike
    <3>3. QED
      BY <3>1, <3>2, ViewSame
  <2>3. QED
    BY <2>1, <2>2
<1>3. QED
  BY <1>1, <1>2, ContentsAre

LEMMA HoldersStay ==
  ASSUME \A q \in Procs : pc'[q] = "have" <=> pc[q] = "have",
         \A q \in Procs : pc[q] = "have" => buf'[b'[q]].blockno = buf[b[q]].blockno
  PROVE  Holders' = Holders
<1>1. \A n : {q \in Procs : pc'[q] = "have" /\ buf'[b'[q]].blockno = n} =
             {q \in Procs : pc[q] = "have" /\ buf[b[q]].blockno = n}
  OBVIOUS
<1>2. QED
  BY <1>1 DEF Holders

\* One process gets a block, or gives it back.
LEMMA HoldersMove ==
  ASSUME NEW p \in Procs, NEW n \in Blocks,
         \A q \in Procs : q # p => (pc'[q] = "have" <=> pc[q] = "have"),
         \A q \in Procs : q # p /\ pc[q] = "have" =>
                            buf'[b'[q]].blockno = buf[b[q]].blockno /\ buf[b[q]].blockno # n,
         buf[b[p]].blockno = n, buf'[b'[p]].blockno = n
  PROVE  /\ Holders[n] = IF pc[p] = "have" THEN {p} ELSE { }
         /\ Holders' = [Holders EXCEPT ![n] = IF pc'[p] = "have" THEN {p} ELSE { }]
<1>1. \A m : m # n => {q \in Procs : pc'[q] = "have" /\ buf'[b'[q]].blockno = m} =
                      {q \in Procs : pc[q] = "have" /\ buf[b[q]].blockno = m}
  OBVIOUS
<1>2. {q \in Procs : pc[q] = "have" /\ buf[b[q]].blockno = n} = IF pc[p] = "have" THEN {p} ELSE { }
  OBVIOUS
<1>3. {q \in Procs : pc'[q] = "have" /\ buf'[b'[q]].blockno = n} = IF pc'[p] = "have" THEN {p} ELSE { }
  OBVIOUS
<1>4. Holders' = [m \in Blocks |-> {q \in Procs : pc'[q] = "have" /\ buf'[b'[q]].blockno = m}]
  BY DEF Holders
<1>5. Holders = [m \in Blocks |-> {q \in Procs : pc[q] = "have" /\ buf[b[q]].blockno = m}]
  BY DEF Holders
<1> DEFINE x == IF pc'[p] = "have" THEN {p} ELSE { }
<1> HIDE DEF x
<1>6. \A m \in Blocks : Holders'[m] = IF m = n THEN x ELSE Holders[m]
  BY <1>1, <1>3, <1>4, <1>5 DEF x
<1>7. Holders' = [Holders EXCEPT ![n] = x]
  BY <1>4, <1>5, <1>6
<1>8. Holders[n] = IF pc[p] = "have" THEN {p} ELSE { }
  BY <1>2, <1>5
<1>9. QED
  BY <1>7, <1>8 DEF x

-----------------------------------------------------------------------------
(* Every step is one of the store, or none *)

LEMMA ToGet ==
  ASSUME NEW p \in Procs, NEW n \in Blocks, Holders[n] = { }, Contents' = Contents,
         Holders' = [Holders EXCEPT ![n] = {p}]
  PROVE  Store!NextStore
BY DEF Store!NextStore, Store!Get

LEMMA ToUse ==
  ASSUME NEW p \in Procs, NEW n \in Blocks, NEW d \in Data, Holders[n] = {p},
         Contents' = [Contents EXCEPT ![n] = d],
         Holders' = [Holders EXCEPT ![n] = { }]
  PROVE  Store!NextStore
<1>1. Store!Use(p, n)
  BY DEF Store!Use
<1>2. QED
  BY <1>1 DEF Store!NextStore

\* Nobody else has the buffer of the block, under its lock or otherwise.
LEMMA OthersElsewhere ==
  ASSUME NEW g \in Scripts, CacheInv(g), NEW p \in Procs, NEW i \in Bufs, NEW n \in Blocks,
         buf[i].blockno = n, \A q \in Procs : q # p /\ pc[q] \in Holding => b[q] # i
  PROVE  \A q \in Procs : q # p /\ pc[q] = "have" => buf[b[q]].blockno # n
<1>1. b \in [Procs -> Bufs] /\ n # NoBlock
  BY CacheAssumption DEF CacheInv, Typed, TypeOK
<1>2. \A j \in Bufs : buf[j].blockno = n => j = i
  BY <1>1 DEF CacheInv, Unique
<1>3. QED
  BY <1>1, <1>2 DEF Holding

\* A process starts to use the block of its valid or just read buffer.
LEMMA GetsBlock ==
  ASSUME NEW g \in Scripts, CacheInv(g), NEW p \in Procs, pc[p] \in {"lock", "woken_buf"},
         NEW i \in Bufs, i = b[p], \A q \in Procs : q # p /\ pc[q] \in Holding => b[q] # i,
         UNCHANGED <<disk, b>>, \A j \in Bufs : Alike(j), pc'[p] = "have",
         \A q \in Procs : q # p => (pc'[q] = "have" <=> pc[q] = "have")
  PROVE  Store!NextStore
<1>1. b \in [Procs -> Bufs] /\ \A j \in Bufs : buf'[j].blockno = buf[j].blockno
  BY DEF CacheInv, Typed, TypeOK, Alike
<1>2. PICK n \in Blocks : n = buf[i].blockno
  BY InCallBlock
<1>3. \A q \in Procs : q # p /\ pc[q] = "have" => buf[b[q]].blockno # n
  BY <1>2, OthersElsewhere
<1>4. /\ \A q \in Procs : q # p /\ pc[q] = "have" =>
           buf'[b'[q]].blockno = buf[b[q]].blockno /\ buf[b[q]].blockno # n
      /\ buf[b[p]].blockno = n /\ buf'[b'[p]].blockno = n
  BY <1>1, <1>2, <1>3
<1>5. /\ Holders[n] = IF pc[p] = "have" THEN {p} ELSE { }
      /\ Holders' = [Holders EXCEPT ![n] = IF pc'[p] = "have" THEN {p} ELSE { }]
  BY <1>4, HoldersMove
<1>6. Holders[n] = { } /\ Holders' = [Holders EXCEPT ![n] = {p}]
  BY <1>5
<1>7. Contents' = Contents
  BY ContentsStay
<1>8. QED
  BY <1>6, <1>7, ToGet

\* It ends its use of the block, which it may have changed.
LEMMA UsesBlock ==
  ASSUME NEW g \in Scripts, CacheInv(g), DriverInv, Serves(g),
         NEW p \in Procs, pc[p] = "have", UNCHANGED <<disk, b>>,
         NEW i \in Bufs, i = b[p], buf'[i].valid = TRUE, buf'[i].data \in Data,
         \A j \in Bufs : buf'[j].blockno = buf[j].blockno,
         \A j \in Bufs : j # i => Alike(j), pc'[p] # "have",
         \A q \in Procs : q # p => pc'[q] = pc[q]
  PROVE  Store!NextStore
<1>1. b \in [Procs -> Bufs]
  BY DEF CacheInv, Typed, TypeOK
<1>2. PICK k \in Bufs, n \in Blocks :
        /\ k = b[p] /\ n = call(p).block /\ buf[k].blockno = n
        /\ \A q \in Procs : q # p /\ pc[q] \in Holding => b[q] # k
  BY HeldBuffer
<1>3. buf[i].blockno = n /\ \A q \in Procs : q # p /\ pc[q] \in Holding => b[q] # i
  BY <1>2
<1>4. \A q \in Procs : q # p /\ pc[q] = "have" => buf[b[q]].blockno # n
  BY <1>3, OthersElsewhere
<1>5. /\ \A q \in Procs : q # p => (pc'[q] = "have" <=> pc[q] = "have")
      /\ \A q \in Procs : q # p /\ pc[q] = "have" =>
           buf'[b'[q]].blockno = buf[b[q]].blockno /\ buf[b[q]].blockno # n
      /\ buf[b[p]].blockno = n /\ buf'[b'[p]].blockno = n
  BY <1>1, <1>3, <1>4
<1>6. /\ Holders[n] = IF pc[p] = "have" THEN {p} ELSE { }
      /\ Holders' = [Holders EXCEPT ![n] = IF pc'[p] = "have" THEN {p} ELSE { }]
  BY <1>5, HoldersMove
<1>7. Holders[n] = {p} /\ Holders' = [Holders EXCEPT ![n] = { }]
  BY <1>6
<1>8. Unique /\ n # NoBlock /\ \A m \in Blocks : m # n => disk'[m] = disk[m]
  BY CacheAssumption DEF CacheInv
<1>9. Contents' = [Contents EXCEPT ![n] = IF buf'[i].valid THEN buf'[i].data ELSE disk'[n]]
  BY <1>3, <1>8, ContentsMove
<1>10. PICK d \in Data : d = buf'[i].data
  OBVIOUS
<1>11. Contents' = [Contents EXCEPT ![n] = d]
  BY <1>9, <1>10
<1>12. QED
  BY <1>7, <1>11, ToUse

\* The steps that the store does not see.
LEMMA Unseen ==
  ASSUME UNCHANGED disk, \A j \in Bufs : Alike(j), b \in [Procs -> Bufs],
         \A q \in Procs : pc'[q] = "have" <=> pc[q] = "have",
         \A q \in Procs : pc[q] = "have" => b'[q] = b[q]
  PROVE  UNCHANGED <<Contents, Holders>>
<1>1. Contents' = Contents
  BY ContentsStay
<1>2. \A q \in Procs : pc[q] = "have" => buf'[b'[q]].blockno = buf[b[q]].blockno
  BY DEF Alike
<1>3. Holders' = Holders
  BY <1>2, HoldersStay
<1>4. QED
  BY <1>1, <1>3

LEMMA BGetUnseen ==
  ASSUME NEW g \in Scripts, CacheInv(g), DriverInv, Serves(g), NEW p \in Procs, BGet(p)
  PROVE  UNCHANGED <<Contents, Holders>>
<1>0. /\ pc \in [Procs -> Steps] /\ b \in [Procs -> Bufs] /\ buf \in Buffers
      /\ NoBlock \notin Blocks /\ Unique /\ InDriver \subseteq Holding
  BY StoreTypes, CacheAssumption DEF CacheInv
<1>1. PICK i \in Bufs, n \in Blocks :
        /\ n = call(p).block /\ n # NoBlock /\ pc[p] = "user" /\ script[p] # << >>
        /\ b' = [b EXCEPT ![p] = i] /\ pc' = [pc EXCEPT ![p] = "lock"]
        /\ UNCHANGED <<disk, busy, free, request, avail, write, lru, script>>
        /\ \/ buf[i].blockno = n /\ buf' = [buf EXCEPT ![i].refcnt = @ + 1]
           \/ /\ Found(n) = { } /\ buf[i].refcnt = 0
              /\ buf' = [buf EXCEPT ![i].refcnt = 1, ![i].blockno = n, ![i].valid = FALSE]
  BY BGetEffect
<1>2. /\ UNCHANGED disk
      /\ \A q \in Procs : pc'[q] = "have" <=> pc[q] = "have"
      /\ \A q \in Procs : pc[q] = "have" => b'[q] = b[q]
  BY <1>0, <1>1
<1>3. CASE buf' = [buf EXCEPT ![i].refcnt = @ + 1]
  <2>1. \A j \in Bufs : Alike(j)
    BY <1>0, <1>3 DEF Alike, Buffers
  <2>2. QED
    BY <1>0, <1>2, <2>1, Unseen
<1>4. CASE /\ Found(n) = { } /\ buf[i].refcnt = 0
           /\ buf' = [buf EXCEPT ![i].refcnt = 1, ![i].blockno = n, ![i].valid = FALSE]
  <2>1. Users(i) = { } /\ Pinners(g, i) = { }
    BY <1>4, NobodysBuffer
  <2>2. \A q \in Procs : pc[q] \in Holding => b[q] # i
    BY <2>1 DEF Users, InCall, Holding, Waiting, Steps
  <2>3. /\ buf'[i].valid = FALSE /\ buf'[i].blockno = n
        /\ \A j \in Bufs : j # i => Alike(j)
    BY <1>0, <1>4 DEF Alike, Buffers
  <2>4. \A j \in Bufs : buf[j].blockno # n
    BY <1>4 DEF Found
  <2>5. buf[i].valid => Synced(i)
    BY <1>0, <2>1, <2>2 DEF Serves, Clean
  <2>6. Contents' = Contents
    BY <1>0, <1>2, <2>3, <2>4, <2>5, ContentsRecycled
  <2>7. \A q \in Procs : pc[q] = "have" => buf'[b'[q]].blockno = buf[b[q]].blockno
    BY <1>0, <1>2, <2>2, <2>3 DEF Holding, Alike
  <2>8. Holders' = Holders
    BY <1>2, <2>7, HoldersStay
  <2>9. QED
    BY <2>6, <2>8
<1>5. QED
  BY <1>1, <1>3, <1>4

LEMMA LockSeen ==
  ASSUME NEW g \in Scripts, CacheInv(g), DriverInv, Serves(g), NEW p \in Procs, Lock(p)
  PROVE  Store!NextStore \/ UNCHANGED <<Contents, Holders>>
<1>1. PICK i \in Bufs : i = b[p]
  BY StoreTypes
<1>2. /\ pc \in [Procs -> Steps] /\ b \in [Procs -> Bufs] /\ buf \in Buffers /\ 0 \notin Procs
  BY StoreTypes, DiskAssumption
<1>3. /\ UNCHANGED <<disk, b>> /\ pc[p] = "lock" /\ buf[i].owner = 0
      /\ pc' = [pc EXCEPT ![p] = IF buf[i].valid THEN "have" ELSE "rw"]
  BY <1>1 DEF Lock, Goto, Cache
<1>4. \A j \in Bufs : Alike(j)
  BY <1>1, <1>2 DEF Lock, Alike, Buffers
<1>5. \A q \in Procs : q # p /\ pc[q] \in Holding => b[q] # i
  BY <1>2, <1>3 DEF DriverInv, Owners
<1>6. /\ pc'[p] = (IF buf[i].valid THEN "have" ELSE "rw")
      /\ \A q \in Procs : q # p => (pc'[q] = "have" <=> pc[q] = "have")
  BY <1>2, <1>3
<1>7. CASE buf[i].valid
  <2>1. pc'[p] = "have" /\ pc[p] \in {"lock", "woken_buf"}
    BY <1>3, <1>6, <1>7
  <2>2. UNCHANGED <<disk, b>>
    BY <1>3
  <2>3. Store!NextStore
    BY <1>1, <1>4, <1>5, <1>6, <2>1, <2>2, GetsBlock
  <2>4. QED
    BY <2>3
<1>8. CASE ~buf[i].valid
  <2>1. \A q \in Procs : pc'[q] = "have" <=> pc[q] = "have"
    BY <1>3, <1>6, <1>8
  <2>2. UNCHANGED <<Contents, Holders>>
    BY <1>2, <1>3, <1>4, <2>1, Unseen
  <2>3. QED
    BY <2>2
<1>9. QED
  BY <1>7, <1>8

LEMMA ChangeSeen ==
  ASSUME NEW g \in Scripts, CacheInv(g), DriverInv, Serves(g), NEW p \in Procs,
         ChangeAndWrite(p) \/ ChangeAndPin(p)
  PROVE  Store!NextStore
<1>1. PICK i \in Bufs : i = b[p]
  BY StoreTypes
<1>2. pc \in [Procs -> Steps] /\ buf \in Buffers
  BY StoreTypes
<1>3. /\ \A j \in Bufs : buf'[j].blockno = buf[j].blockno
      /\ \A j \in Bufs : j # i => Alike(j)
      /\ buf'[i].valid = TRUE /\ buf'[i].data \in Data
  BY <1>1, <1>2, ChangeEffect
<1>4. /\ pc[p] = "have" /\ UNCHANGED <<disk, b>>
      /\ \E s \in {"rw", "release"} : pc' = [pc EXCEPT ![p] = s]
  BY DEF ChangeAndWrite, ChangeAndPin, Goto, Cache
<1>5. pc'[p] # "have" /\ \A q \in Procs : q # p => pc'[q] = pc[q]
  BY <1>2, <1>4
<1>6. pc[p] = "have" /\ UNCHANGED <<disk, b>>
  BY <1>4
<1>7. QED
  BY <1>1, <1>3, <1>5, <1>6, UsesBlock

LEMMA ReleaseSeen ==
  ASSUME NEW g \in Scripts, CacheInv(g), DriverInv, Serves(g), NEW p \in Procs,
         BUnpin(p) \/ ReleaseSleep(p) \/ Put(p)
  PROVE  Store!NextStore \/ UNCHANGED <<Contents, Holders>>
<1>1. PICK i \in Bufs : i = b[p]
  BY StoreTypes
<1>2. pc \in [Procs -> Steps] /\ b \in [Procs -> Bufs] /\ buf \in Buffers
  BY StoreTypes
<1>3. /\ UNCHANGED disk /\ pc[p] \in {"have", "written", "release", "put"}
      /\ \E s \in {"release", "put", "user"} : pc' = [pc EXCEPT ![p] = s]
      /\ \A q \in Procs : q # p => b'[q] = b[q]
  BY <1>2 DEF BUnpin, ReleaseSleep, Put, Goto, Cache
<1>4. /\ pc'[p] # "have" /\ \A q \in Procs : q # p => pc'[q] = pc[q]
  BY <1>2, <1>3
<1>5. CASE ReleaseSleep(p) /\ pc[p] = "have"
  <2>1. /\ buf'[i].valid = TRUE /\ buf'[i].data \in Data
        /\ \A j \in Bufs : buf'[j].blockno = buf[j].blockno
        /\ \A j \in Bufs : j # i => Alike(j)
    BY <1>1, <1>2, <1>5 DEF ReleaseSleep, Alike, Buffers
  <2>2. pc[p] = "have" /\ UNCHANGED <<disk, b>>
    BY <1>5 DEF ReleaseSleep, Cache
  <2>3. Store!NextStore
    BY <1>1, <1>4, <2>1, <2>2, UsesBlock
  <2>4. QED
    BY <2>3
<1>6. CASE pc[p] # "have"
  <2>1. \A j \in Bufs : Alike(j)
    <3>1. CASE ReleaseSleep(p)
      <4>1. pc[p] \in {"written", "release"}
        BY <1>6, <3>1 DEF ReleaseSleep
      <4>2. buf[i].valid = TRUE
        BY <1>1, <4>1 DEF Serves, Directed
      <4>3. QED
        BY <1>1, <1>2, <3>1, <4>2 DEF ReleaseSleep, Alike, Buffers
    <3>2. CASE BUnpin(p)
      BY <1>1, <1>2, <3>2 DEF BUnpin, Alike, Buffers
    <3>3. CASE Put(p)
      BY <1>1, <1>2, <3>3 DEF Put, Alike, Buffers
    <3>4. QED
      BY <3>1, <3>2, <3>3
  <2>2. /\ \A q \in Procs : pc'[q] = "have" <=> pc[q] = "have"
        /\ \A q \in Procs : pc[q] = "have" => b'[q] = b[q]
    BY <1>3, <1>4, <1>6
  <2>3. UNCHANGED <<Contents, Holders>>
    BY <1>2, <1>3, <2>1, <2>2, Unseen
  <2>4. QED
    BY <2>3
<1>7. QED
  BY <1>5, <1>6 DEF BUnpin, Put

LEMMA RwSeen ==
  ASSUME NEW g \in Scripts, CacheInv(g), DriverInv, Serves(g), NEW p \in Procs, RwStep(p)
  PROVE  Store!NextStore \/ UNCHANGED <<Contents, Holders>>
<1>1. PICK i \in Bufs : i = b[p]
  BY StoreTypes
<1>2. /\ pc \in [Procs -> Steps] /\ b \in [Procs -> Bufs] /\ UNCHANGED <<disk, buf, b>>
      /\ \A j \in Bufs : Alike(j)
  BY StoreTypes DEF RwStep, Submit, NoDescriptors, Complete, Alike
<1>3. /\ pc[p] \in {"rw", "woken_buf"}
      /\ \A q \in Procs : q # p => (pc'[q] = "have" <=> pc[q] = "have")
      /\ pc'[p] = "have" => pc[p] = "woken_buf"
  BY <1>2 DEF RwStep, Submit, NoDescriptors, Complete, WakeWaitersAndGoto
<1>4. UNCHANGED <<disk, b>>
  BY <1>2
<1>5. CASE pc'[p] = "have"
  <2>1. pc[p] \in {"lock", "woken_buf"} /\ pc[p] \in Holding
    BY <1>3, <1>5 DEF Holding, Waiting
  <2>2. \A q \in Procs : q # p /\ pc[q] \in Holding => b[q] # i
    BY <1>1, <2>1, StoreTypes
  <2>3. Store!NextStore
    BY <1>1, <1>2, <1>3, <1>4, <1>5, <2>1, <2>2, GetsBlock
  <2>4. QED
    BY <2>3
<1>6. CASE pc'[p] # "have"
  <2>1. /\ \A q \in Procs : pc'[q] = "have" <=> pc[q] = "have"
        /\ \A q \in Procs : pc[q] = "have" => b'[q] = b[q]
    BY <1>2, <1>3, <1>6
  <2>2. UNCHANGED <<Contents, Holders>>
    BY <1>2, <2>1, Unseen
  <2>3. QED
    BY <2>2
<1>7. QED
  BY <1>5, <1>6

LEMMA InterruptUnseen ==
  ASSUME NEW g \in Scripts, CacheInv(g), DriverInv, Serves(g), Interrupt
  PROVE  UNCHANGED <<Contents, Holders>>
<1>1. /\ pc \in [Procs -> Steps] /\ b \in [Procs -> Bufs] /\ buf \in Buffers /\ UNCHANGED b
      /\ \A q \in Procs : pc'[q] = "have" <=> pc[q] = "have"
      /\ \A q \in Procs : pc[q] = "have" => b'[q] = b[q]
  BY StoreTypes DEF Interrupt, InterruptStep, Device, IntrEnter, IntrEntry, IntrExit
<1>2. CASE Device
  <2>1. PICK d \in Heads, i \in Bufs, n \in Blocks, q \in Procs :
          /\ i = request[d].b /\ n = buf[i].blockno /\ b[q] = i /\ pc[q] \in Waiting
          /\ Entries(avail)' = Entries(avail) \ {d}
          /\ \/ /\ buf[i].valid
                /\ disk' = [disk EXCEPT ![n] = buf[i].data] /\ UNCHANGED buf
             \/ /\ ~buf[i].valid
                /\ buf' = [buf EXCEPT ![i].data = disk[n]] /\ UNCHANGED disk
    BY <1>2, DeviceEffect
  <2>2. /\ Unique /\ n # NoBlock /\ disk \in [Blocks -> Data]
    BY CacheAssumption DEF CacheInv, Typed, TypeOK
  <2>3. /\ \A j \in Bufs : buf'[j].blockno = buf[j].blockno
        /\ \A j \in Bufs : j # i => Alike(j)
        /\ \A m \in Blocks : m # n => disk'[m] = disk[m]
        /\ buf'[i].valid = buf[i].valid
        /\ IF buf[i].valid THEN buf'[i].data = buf[i].data ELSE disk'[n] = disk[n]
    BY <1>1, <2>1, <2>2 DEF Alike, Buffers
  <2>4. /\ Contents[n] = IF buf[i].valid THEN buf[i].data ELSE disk[n]
        /\ Contents' = [Contents EXCEPT ![n] = IF buf'[i].valid THEN buf'[i].data ELSE disk'[n]]
    BY <2>1, <2>2, <2>3, ContentsMove
  <2>5. Contents' = [Contents EXCEPT ![n] = Contents[n]]
    BY <2>3, <2>4
  <2>6. Contents' = Contents
    BY <2>5 DEF Contents
  <2>7. Holders' = Holders
    BY <1>1, <2>3, HoldersStay
  <2>8. QED
    BY <2>6, <2>7
<1>3. CASE UNCHANGED <<disk, buf>>
  <2>1. \A j \in Bufs : Alike(j)
    BY <1>3 DEF Alike
  <2>2. QED
    BY <1>1, <1>3, <2>1, Unseen
<1>4. QED
  BY <1>2, <1>3 DEF Interrupt, InterruptStep, IntrEnter, IntrEntry, IntrExit

LEMMA StoreStartsWell == Init => Store!InitStore
<1> SUFFICES ASSUME Init
             PROVE  Store!InitStore
  OBVIOUS
<1>1. InitDisk \in [Blocks -> Data] /\ NoBlock \notin Blocks
  BY CacheAssumption
<1>2. /\ disk = InitDisk /\ \A p \in Procs : pc[p] = "user"
      /\ \A i \in Bufs : buf[i].blockno = NoBlock
  BY DEF Init, InitDriver
<1>3. \A n \in Blocks : Contents[n] = InitDisk[n] /\ Holders[n] = { }
  BY <1>1, <1>2 DEF Contents, Holders, Found
<1>4. Contents \in [Blocks -> Data]
  BY <1>1, <1>3 DEF Contents
<1>5. Holders = [n \in Blocks |-> { }]
  BY <1>3 DEF Holders
<1>6. QED
  BY <1>4, <1>5 DEF Store!InitStore

LEMMA StoreStepsWell ==
  ASSUME StoreInv, [Next]_vars
  PROVE  [Store!NextStore]_<<Contents, Holders>>
<1>1. PICK g \in Scripts : CacheInv(g) /\ Serves(g)
  BY DEF StoreInv
<1>2. DriverInv
  BY DEF StoreInv
<1>3. CASE UNCHANGED vars
  <2>1. UNCHANGED <<disk, buf, b, pc>>
    BY <1>3 DEF vars, diskvars
  <2>2. (\A j \in Bufs : Alike(j)) /\ b \in [Procs -> Bufs]
    BY <1>1, <1>2, <2>1, StoreTypes DEF Alike
  <2>3. UNCHANGED <<Contents, Holders>>
    BY <2>1, <2>2, Unseen
  <2>4. QED
    BY <2>3
<1>4. ASSUME NEW p \in Procs, CacheStep(p)
      PROVE  Store!NextStore \/ UNCHANGED <<Contents, Holders>>
  BY <1>1, <1>2, <1>4, BGetUnseen, LockSeen, ChangeSeen, ReleaseSeen DEF CacheStep
<1>5. ASSUME NEW p \in Procs, RwStep(p)
      PROVE  Store!NextStore \/ UNCHANGED <<Contents, Holders>>
  BY <1>1, <1>2, <1>5, RwSeen
<1>6. CASE Interrupt
  BY <1>1, <1>2, <1>6, InterruptUnseen
<1>7. QED
  BY <1>3, <1>4, <1>5, <1>6 DEF Next, Step

\* The invariant behind it: a buffer that is valid has what the disk has,
\* unless its block is pinned or its write is under way.
THEOREM StoreCorrect == Spec => []StoreInv
<1>1. QED
  BY StoreStarts, StoreStep, PTL DEF Spec

\* Whatever the order in which processes, device and interrupt move, the
\* cache over the disk is an array of blocks: one process uses a block at a
\* time and finds there what was written last; bget(), which recycles
\* buffers, and the device, which copies them, change nothing that a
\* process could see.
THEOREM CacheIsAStore == Spec => ImplementsStore
<1>1. Init => Store!InitStore
  BY StoreStartsWell
<1>2. StoreInv /\ [Next]_vars => [Store!NextStore]_<<Contents, Holders>>
  BY StoreStepsWell
<1>3. QED
  BY <1>1, <1>2, StoreCorrect, PTL DEF Spec, ImplementsStore, Store!StoreSpec
=============================================================================
