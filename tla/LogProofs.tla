------------------------------ MODULE LogProofs ------------------------------
(* Why the log never panics, pins what it must and implements              *)
(* Transactions: the inductive invariant of log.c and what follows, for    *)
(* every number of processes and blocks and every size of the log.         *)
EXTENDS Log, FiniteSetTheorems, SequenceTheorems, TLAPS

-----------------------------------------------------------------------------
(* The inductive invariant *)

\* Nobody runs before recovery ends; one process commits, and while it does
\* nobody is between begin_op() and end_op().
Exclusive ==
  /\ booting # "up" => ~committing /\ \A p \in Procs : pc[p] = "user"
  /\ \A p \in Procs : pc[p] \in Committing => committing
  /\ \A p, q \in Procs : pc[p] \in Committing /\ pc[q] \in Committing => p = q
  /\ committing => InOp = { }
  /\ outstanding = Cardinality(InOp)

\* What a call has changed is in the log, until the call ends.
Written ==
  \A p \in Procs :
    /\ IsFiniteSet(wrote[p]) /\ Cardinality(wrote[p]) <= OpBlocks
    /\ pc[p] # "op" => wrote[p] = { }
    /\ \A b \in wrote[p] : Logged(b)

\* The blocks that the calls under way may still add, MAXOPBLOCKS - 1 for
\* each of them at first.
Unused ==
  {x \in InOp \X (1..(MAXOPBLOCKS - 1)) : x[2] > Cardinality(wrote[x[1]])}

\* They have place in the log, whose last two blocks are never used.
Reserved ==
  /\ Len(lh) <= LOGSIZE - 2 /\ Len(dhead) <= LOGSIZE - 2
  /\ InOp # { } => Len(lh) + Cardinality(Unused) <= LOGSIZE - 2
  /\ booting = "up" /\ ~committing /\ InOp = { } => lh = << >>

\* The step of the commit under way; there is at most one.
Underway == {pc[p] : p \in Procs} \cap Committing

\* No block is twice in a log, and the walks stay inside it.
NoRepeats(s) == \A i, j \in 1..Len(s) : s[i] = s[j] => i = j
Walking == "write_log" \in Underway \/ "install" \in Underway \/ booting = "install"
Walks ==
  /\ NoRepeats(lh) /\ NoRepeats(dhead)
  /\ Walking => tail <= Len(lh)
  /\ ~Walking => tail = 1
  /\ "write_head" \in Underway => lh # << >>
  /\ "wake" \in Underway => lh = << >>

\* The logged blocks that are not home yet are pinned, and no others are.
Pending(b) ==
  /\ booting = "up" /\ "clear_head" \notin Underway
  /\ \E i \in 1..Len(lh) : lh[i] = b /\ ("install" \in Underway => i >= tail)
Pinned == \A b \in Blocks : pins[b] = IF Pending(b) THEN 1 ELSE 0

\* What is not pinned is as on the disk.  A header is on the disk from its
\* write to its erasure, and the blocks it names are then in the log.
Headed == "install" \in Underway \/ "clear_head" \in Underway
Copied ==
  /\ \A b \in Blocks : ~Pending(b) => data[b] = disk[b]
  /\ booting = "up" => dhead = IF Headed THEN lh ELSE << >>
  /\ booting = "read_head" => lh = << >>
  /\ booting \in {"install", "clear_head"} => lh = dhead
  /\ \A i \in 1..Len(lh) :
       /\ "write_log" \in Underway /\ i < tail => dlog[i] = data[lh[i]]
       /\ "write_head" \in Underway \/ Headed => dlog[i] = data[lh[i]]
       /\ booting = "install" /\ i < tail => disk[lh[i]] = dlog[i]
       /\ booting = "clear_head" => disk[lh[i]] = dlog[i]

LogInv == Exclusive /\ Written /\ Reserved /\ Walks /\ Pinned /\ Copied

-----------------------------------------------------------------------------
(* The sizes, and the step that a commit is in *)

LEMMA Bounds ==
  /\ MAXOPBLOCKS \in Nat \ {0} /\ LOGSIZE \in Nat /\ LOGSIZE >= 2
  /\ MAXOPBLOCKS - 1 \in Nat /\ MAXOPBLOCKS - 1 <= LOGSIZE - 2
  /\ OpBlocks <= MAXOPBLOCKS - 1 /\ OpBlocks \in Nat
  /\ 1 \in Slots /\ MaxOps \in Nat /\ MaxCrashes \in Nat
BY LogAssumption DEF Slots

LEMMA OneCommit ==
  ASSUME Exclusive, NEW p \in Procs, pc[p] \in Committing
  PROVE  Underway = {pc[p]} /\ committing /\ booting = "up" /\ InOp = { }
BY DEF Exclusive, Underway, Committing

LEMMA NoCommit ==
  ASSUME Exclusive, ~committing
  PROVE  Underway = { } /\ \A p \in Procs : pc[p] \notin Committing
BY DEF Exclusive, Underway

\* The places in the log that are reserved can be counted.
LEMMA Countable ==
  ASSUME NEW S \in SUBSET Procs, NEW T \in SUBSET (S \X (1..(MAXOPBLOCKS - 1)))
  PROVE  /\ IsFiniteSet(S) /\ Cardinality(S) \in Nat
         /\ IsFiniteSet(T) /\ Cardinality(T) \in Nat
         /\ Cardinality(T) <= Cardinality(S) * (MAXOPBLOCKS - 1)
<1>1. IsFiniteSet(S)
  BY LogAssumption, FS_Subset
<1>2. \A n \in Nat : IsFiniteSet(1..n) /\ Cardinality(1..n) = n
  <2> TAKE n \in Nat
  <2>1. IsFiniteSet(1..n) /\ Cardinality(1..n) = IF 1 > n THEN 0 ELSE n - 1 + 1
    BY FS_Interval
  <2>2. QED
    BY <2>1
<1>3. /\ IsFiniteSet(S \X (1..(MAXOPBLOCKS - 1)))
      /\ Cardinality(S \X (1..(MAXOPBLOCKS - 1))) = Cardinality(S) * (MAXOPBLOCKS - 1)
  <2> DEFINE R == 1..(MAXOPBLOCKS - 1)
  <2>1. IsFiniteSet(R) /\ Cardinality(R) = MAXOPBLOCKS - 1
    BY <1>2, Bounds
  <2> HIDE DEF R
  <2>2. IsFiniteSet(S \X R) /\ Cardinality(S \X R) = Cardinality(S) * Cardinality(R)
    BY <1>1, <2>1, FS_Product
  <2>3. QED
    BY <2>1, <2>2 DEF R
<1>4. IsFiniteSet(T) /\ Cardinality(T) <= Cardinality(S) * (MAXOPBLOCKS - 1)
  BY <1>3, FS_Subset
<1>5. QED
  BY <1>1, <1>4, FS_CardinalityType

-----------------------------------------------------------------------------
(* The steps of the system calls *)

LEMMA CallKeeps ==
  ASSUME TypeOK, LogInv, NEW p \in Procs, Call(p)
  PROVE  TypeOK' /\ LogInv'
<1> USE DEF LogInv
<1>1. TypeOK'
  BY Bounds DEF TypeOK, Call, Steps, Contents, buffers, log, ondisk
<1>2. InOp' = InOp /\ Unused' = Unused /\ Underway' = Underway
  BY DEF TypeOK, Call, InOp, Unused, Underway, Committing
<1>3. Exclusive'
  BY <1>2 DEF TypeOK, Exclusive, Call, Committing, log
<1>4. Written' /\ Reserved'
  BY <1>2 DEF TypeOK, Call, Written, Reserved, Logged, InOp, log, ondisk
<1>5. Walks' /\ Pinned' /\ Copied'
  BY <1>2 DEF Call, Walks, Walking, Pinned, Pending, Copied, Headed, NoRepeats, log, ondisk,
              buffers
<1>6. QED
  BY <1>1, <1>3, <1>4, <1>5

LEMMA BeginOpKeeps ==
  ASSUME TypeOK, LogInv, NEW p \in Procs, BeginOp(p)
  PROVE  TypeOK' /\ LogInv'
<1> USE DEF LogInv
<1>1. TypeOK'
  <2>1. outstanding' \in Nat
    BY DEF TypeOK, BeginOp
  <2>2. \E step \in {"asleep", "op"} : pc' = [pc EXCEPT ![p] = step]
    BY DEF BeginOp
  <2>3. pc' \in [Procs -> Steps]
    BY <2>2 DEF TypeOK, Steps
  <2>4. QED
    BY <2>1, <2>3 DEF TypeOK, BeginOp, buffers, ondisk
<1>2. Underway' = Underway /\ booting = "up" /\ p \notin InOp
  BY DEF TypeOK, BeginOp, Underway, Committing, Exclusive, InOp
<1>3. CASE committing \/ NoSpace
  <2>1. InOp' = InOp /\ Unused' = Unused /\ UNCHANGED outstanding
    BY <1>3 DEF TypeOK, BeginOp, InOp, Unused
  <2>2. Exclusive'
    BY <1>2, <1>3, <2>1 DEF TypeOK, Exclusive, BeginOp, Committing
  <2>3. Written' /\ Reserved'
    BY <1>3, <2>1 DEF TypeOK, BeginOp, Written, Reserved, Logged, ondisk
  <2>4. Walks' /\ Pinned' /\ Copied'
    BY <1>2 DEF BeginOp, Walks, Walking, Pinned, Pending, Copied, Headed, NoRepeats, ondisk,
                buffers
  <2>5. QED
    BY <1>1, <2>2, <2>3, <2>4
<1>4. CASE ~committing /\ ~NoSpace
  <2>1. InOp' = InOp \cup {p} /\ outstanding' = outstanding + 1
    BY <1>4 DEF TypeOK, BeginOp, InOp
  <2>2. IsFiniteSet(InOp) /\ Cardinality(InOp) \in Nat
    BY Countable DEF InOp
  <2>3. Cardinality(InOp') = outstanding + 1
    BY <1>2, <2>1, <2>2, FS_AddElement DEF Exclusive
  <2>4. Exclusive'
    BY <1>2, <1>4, <2>1, <2>3 DEF TypeOK, Exclusive, BeginOp, Committing, InOp
  <2>5. Len(lh) + Cardinality(Unused') <= LOGSIZE - 2
    <3>1. /\ Cardinality(Unused') \in Nat
          /\ Cardinality(Unused') <= (outstanding + 1) * (MAXOPBLOCKS - 1)
      BY <2>3, Countable DEF InOp, Unused
    <3>2. Len(lh) \in Nat /\ Len(lh) + (outstanding + 1) * MAXOPBLOCKS <= LOGSIZE
      BY <1>4, Bounds DEF NoSpace, TypeOK
    <3>3. CASE outstanding = 0
      <4>1. lh = << >>
        BY <1>2, <1>4, <2>2, <3>3, FS_EmptySet DEF Exclusive, Reserved
      <4>2. QED
        BY <3>1, <3>3, <4>1, Bounds
    <3>4. CASE outstanding >= 1
      <4>1. (outstanding + 1) * MAXOPBLOCKS =
              (outstanding + 1) * (MAXOPBLOCKS - 1) + outstanding + 1
        BY Bounds DEF TypeOK
      <4>2. QED
        BY <3>1, <3>2, <3>4, <4>1, Bounds DEF TypeOK
    <3>5. QED
      BY <3>3, <3>4 DEF TypeOK
  <2>6. Reserved'
    BY <1>4, <2>1, <2>5 DEF Reserved, BeginOp, ondisk
  <2>7. Written'
    BY <1>4 DEF TypeOK, BeginOp, Written, Logged
  <2>8. Walks' /\ Pinned' /\ Copied'
    BY <1>2 DEF BeginOp, Walks, Walking, Pinned, Pending, Copied, Headed, NoRepeats, ondisk,
                buffers
  <2>9. QED
    BY <1>1, <2>4, <2>6, <2>7, <2>8
<1>5. QED
  BY <1>3, <1>4 DEF BeginOp

\* log_write() of a block that is in the log already.
LEMMA RewriteKeeps ==
  ASSUME TypeOK, LogInv, NEW p \in Procs, NEW b \in Blocks, LogWrite(p, b), Logged(b)
  PROVE  TypeOK' /\ LogInv'
<1> USE DEF LogInv
<1>1. /\ ~committing /\ booting = "up" /\ p \in InOp /\ Underway = { }
      /\ UNCHANGED <<pc, lh, pins, booting, committing, outstanding, tail, disk, dlog, dhead>>
  BY NoCommit DEF LogWrite, InOp, Exclusive, ondisk
<1>2. TypeOK'
  BY <1>1, Bounds DEF TypeOK, LogWrite, Contents
<1>3. InOp' = InOp /\ Underway' = Underway
  BY <1>1 DEF InOp, Underway
<1>4. Exclusive'
  BY <1>1, <1>3 DEF Exclusive
<1>5. /\ IsFiniteSet(wrote'[p]) /\ Cardinality(wrote'[p]) <= OpBlocks
      /\ Cardinality(wrote[p]) <= Cardinality(wrote'[p])
  <2>1. wrote'[p] = wrote[p] \cup {b} /\ IsFiniteSet(wrote[p])
    BY DEF TypeOK, LogWrite, Written
  <2>2. Cardinality(wrote[p]) \in Nat
    BY <2>1, FS_CardinalityType
  <2>3. /\ IsFiniteSet(wrote'[p])
        /\ Cardinality(wrote'[p]) =
             IF b \in wrote[p] THEN Cardinality(wrote[p]) ELSE Cardinality(wrote[p]) + 1
    BY <2>1, FS_AddElement
  <2>4. /\ Cardinality(wrote[p]) <= OpBlocks
        /\ b \in wrote[p] \/ Cardinality(wrote[p]) < OpBlocks
    BY DEF LogWrite, Written
  <2>5. QED
    BY <2>2, <2>3, <2>4, Bounds
<1>6. Written'
  BY <1>1, <1>5 DEF TypeOK, LogWrite, Written, Logged, InOp
<1>7. Unused' \subseteq Unused
  BY <1>3, <1>5, FS_CardinalityType DEF Unused, LogWrite, TypeOK, Written, InOp
<1>8. Reserved'
  <2>1. IsFiniteSet(Unused) /\ Cardinality(Unused) \in Nat
    BY Countable DEF InOp, Unused
  <2>2. Cardinality(Unused') \in Nat /\ Cardinality(Unused') <= Cardinality(Unused)
    BY <1>7, <2>1, FS_Subset, FS_CardinalityType
  <2>3. QED
    BY <1>1, <1>3, <2>1, <2>2, Bounds DEF Reserved, TypeOK
<1>9. \A c \in Blocks : Pending(c)' <=> Pending(c)
  BY <1>1, <1>3 DEF Pending
<1>10. Walks' /\ Pinned'
  BY <1>1, <1>3, <1>9 DEF Walks, Walking, Pinned, NoRepeats
<1>11. Copied'
  BY <1>1, <1>3, <1>9 DEF Copied, Headed, LogWrite, TypeOK, Logged, Pending
<1>12. QED
  BY <1>2, <1>4, <1>6, <1>8, <1>10, <1>11

\* log_write() of a block that is not: the place that the call reserved for
\* it becomes a block of the log.
LEMMA AppendKeeps ==
  ASSUME TypeOK, LogInv, NEW p \in Procs, NEW b \in Blocks, LogWrite(p, b), ~Logged(b)
  PROVE  TypeOK' /\ LogInv'
<1> USE DEF LogInv
<1>1. /\ ~committing /\ booting = "up" /\ p \in InOp /\ Underway = { } /\ tail = 1
      /\ UNCHANGED <<pc, booting, committing, outstanding, tail, disk, dlog, dhead>>
  BY NoCommit DEF LogWrite, InOp, Exclusive, Walks, Walking, ondisk
<1>2. /\ lh' = Append(lh, b) /\ lh' \in Seq(Blocks) /\ Len(lh) \in Nat
      /\ Len(lh') = Len(lh) + 1 /\ lh'[Len(lh) + 1] = b
      /\ \A i \in 1..Len(lh) : lh'[i] = lh[i]
      /\ pins' = [pins EXCEPT ![b] = @ + 1] /\ data' = [data EXCEPT ![b] = ticket[p]]
  <2>1. /\ lh' = Append(lh, b) /\ pins' = [pins EXCEPT ![b] = @ + 1]
        /\ data' = [data EXCEPT ![b] = ticket[p]] /\ lh \in Seq(Blocks)
    BY DEF LogWrite, TypeOK, Pin
  <2>2. /\ Append(lh, b) \in Seq(Blocks) /\ Len(lh) \in Nat
        /\ Len(Append(lh, b)) = Len(lh) + 1 /\ Append(lh, b)[Len(lh) + 1] = b
        /\ \A i \in 1..Len(lh) : Append(lh, b)[i] = lh[i]
    BY <2>1, AppendProperties, LenProperties
  <2>3. QED
    BY <2>1, <2>2
<1>3. Len(lh) < LOGSIZE
  BY <1>2, Bounds DEF LogWrite, LogFull
<1>4. TypeOK'
  <2>1. pins' \in [Blocks -> Nat] /\ data' \in [Blocks -> Contents]
    BY <1>2 DEF TypeOK
  <2>2. wrote' \in [Procs -> SUBSET Blocks] /\ UNCHANGED <<ticket, ops, crashes>>
    BY DEF TypeOK, LogWrite
  <2>3. Len(lh') <= LOGSIZE
    BY <1>2, <1>3, Bounds
  <2>4. QED
    BY <1>1, <1>2, <2>1, <2>2, <2>3 DEF TypeOK
<1>5. InOp' = InOp /\ Underway' = Underway
  BY <1>1 DEF InOp, Underway
<1>6. Exclusive'
  BY <1>1, <1>5 DEF Exclusive
<1>7. \A c : Logged(c)' <=> Logged(c) \/ c = b
  BY <1>2 DEF Logged
<1>8. /\ b \notin wrote[p] /\ IsFiniteSet(wrote[p]) /\ Cardinality(wrote[p]) \in Nat
      /\ wrote' = [wrote EXCEPT ![p] = @ \cup {b}] /\ Cardinality(wrote[p]) < OpBlocks
  BY FS_CardinalityType DEF Written, LogWrite
<1>9. IsFiniteSet(wrote'[p]) /\ Cardinality(wrote'[p]) = Cardinality(wrote[p]) + 1
  <2>1. wrote'[p] = wrote[p] \cup {b}
    BY <1>8 DEF TypeOK
  <2>2. /\ IsFiniteSet(wrote[p] \cup {b})
        /\ Cardinality(wrote[p] \cup {b}) =
             IF b \in wrote[p] THEN Cardinality(wrote[p]) ELSE Cardinality(wrote[p]) + 1
    BY <1>8, FS_AddElement
  <2>3. QED
    BY <1>8, <2>1, <2>2
<1>10. Written'
  BY <1>1, <1>7, <1>8, <1>9, Bounds DEF TypeOK, Written, InOp
<1>11. Reserved'
  <2> DEFINE place == <<p, Cardinality(wrote[p]) + 1>>
  <2>1. IsFiniteSet(Unused) /\ Cardinality(Unused) \in Nat
    BY Countable DEF InOp, Unused
  <2>2. place \in Unused
    BY <1>1, <1>8, Bounds DEF Unused
  <2>3. Unused' \subseteq Unused \ {place}
    <3> SUFFICES ASSUME NEW x \in Unused'
                 PROVE  x \in Unused \ {place}
      OBVIOUS
    <3>1. x \in InOp \X (1..(MAXOPBLOCKS - 1)) /\ x[2] > Cardinality(wrote'[x[1]])
      BY <1>5 DEF Unused
    <3>2. CASE x[1] = p
      BY <1>8, <1>9, <3>1, <3>2 DEF Unused
    <3>3. CASE x[1] # p
      BY <1>8, <3>1, <3>3 DEF Unused, TypeOK, InOp
    <3>4. QED
      BY <3>2, <3>3
  <2>4. Cardinality(Unused \ {place}) = Cardinality(Unused) - 1 /\ IsFiniteSet(Unused \ {place})
    BY <2>1, <2>2, FS_RemoveElement
  <2>5. Cardinality(Unused') <= Cardinality(Unused) - 1 /\ Cardinality(Unused') \in Nat
    BY <2>3, <2>4, FS_Subset, FS_CardinalityType
  <2>6. Len(lh) + Cardinality(Unused) <= LOGSIZE - 2 /\ Len(dhead) <= LOGSIZE - 2
    BY <1>1 DEF Reserved
  <2>7. QED
    BY <1>1, <1>2, <1>5, <2>1, <2>5, <2>6, Bounds DEF Reserved
<1>12. Walks'
  BY <1>1, <1>2, <1>5 DEF Walks, Walking, NoRepeats, Logged
<1>13. \A c \in Blocks : (Pending(c) <=> Logged(c)) /\ (Pending(c)' <=> Logged(c)')
  BY <1>1, <1>5 DEF Pending, Logged
<1>14. Pinned'
  BY <1>2, <1>7, <1>13 DEF Pinned, TypeOK
<1>15. Copied'
  BY <1>1, <1>2, <1>5, <1>7, <1>13 DEF Copied, Headed, TypeOK
<1>16. QED
  BY <1>4, <1>6, <1>10, <1>11, <1>12, <1>14, <1>15

LEMMA EndOpKeeps ==
  ASSUME TypeOK, LogInv, NEW p \in Procs, EndOp(p)
  PROVE  TypeOK' /\ LogInv'
<1> USE DEF LogInv
<1>1. /\ ~committing /\ booting = "up" /\ p \in InOp /\ Underway = { } /\ tail = 1
      /\ UNCHANGED <<lh, data, pins, booting, tail, disk, dlog, dhead>>
  BY NoCommit DEF EndOp, InOp, Exclusive, Walks, Walking, ondisk, buffers
<1>2. /\ IsFiniteSet(InOp) /\ Cardinality(InOp) \in Nat /\ outstanding = Cardinality(InOp)
      /\ Cardinality(InOp \ {p}) = outstanding - 1
      /\ InOp \ {p} = { } <=> outstanding = 1
  <2>1. IsFiniteSet(InOp) /\ Cardinality(InOp) \in Nat /\ outstanding = Cardinality(InOp)
    BY Countable DEF InOp, Exclusive
  <2>2. /\ IsFiniteSet(InOp \ {p})
        /\ Cardinality(InOp \ {p}) =
             IF p \in InOp THEN Cardinality(InOp) - 1 ELSE Cardinality(InOp)
    BY <2>1, FS_RemoveElement
  <2>3. Cardinality(InOp \ {p}) = 0 <=> InOp \ {p} = { }
    BY <2>2, FS_EmptySet
  <2>4. QED
    BY <1>1, <2>1, <2>2, <2>3
<1>3. outstanding # 0
  BY <1>1, <1>2, FS_EmptySet
<1>4. InOp' = InOp \ {p}
  BY DEF EndOp, InOp, TypeOK, WakeAnd, FirstStep
<1>5. TypeOK'
  <2>1. pc' \in [Procs -> Steps]
    BY DEF TypeOK, EndOp, WakeAnd, FirstStep, Steps, Committing
  <2>2. ticket' \in [Procs -> Contents] /\ wrote' \in [Procs -> SUBSET Blocks]
    BY Bounds DEF TypeOK, EndOp, Contents
  <2>3. QED
    BY <1>1, <1>3, <2>1, <2>2 DEF TypeOK, EndOp
<1>6. Underway' = IF outstanding = 1 THEN {FirstStep} ELSE { }
  BY <1>1, NoCommit DEF EndOp, Underway, TypeOK, WakeAnd, FirstStep, Committing
<1>7. Exclusive'
  <2>1. InOp' = { } <=> outstanding = 1
    BY <1>2, <1>4
  <2>2. outstanding' = Cardinality(InOp')
    BY <1>2, <1>4 DEF EndOp
  <2>3. \A q \in Procs : pc'[q] \in Committing => q = p /\ outstanding = 1
    BY <1>1, NoCommit DEF EndOp, TypeOK, WakeAnd, FirstStep, Committing
  <2>4. QED
    BY <1>1, <2>1, <2>2, <2>3 DEF Exclusive, EndOp
<1>8. Written'
  <2>1. wrote' = [wrote EXCEPT ![p] = { }] /\ IsFiniteSet({ }) /\ Cardinality({ }) = 0
    BY FS_EmptySet DEF EndOp
  <2>2. \A q \in Procs \ {p} : pc'[q] = "op" <=> pc[q] = "op"
    BY <1>4 DEF InOp
  <2>3. QED
    BY <1>1, <2>1, <2>2, Bounds DEF Written, TypeOK, Logged
<1>9. Reserved'
  <2>1. Unused' \subseteq Unused
    BY <1>4 DEF Unused, EndOp, TypeOK, InOp
  <2>2. IsFiniteSet(Unused) /\ Cardinality(Unused) \in Nat
    BY Countable DEF InOp, Unused
  <2>3. Cardinality(Unused') \in Nat /\ Cardinality(Unused') <= Cardinality(Unused)
    BY <2>1, <2>2, FS_Subset, FS_CardinalityType
  <2>4. InOp' = { } => committing'
    BY <1>2, <1>4 DEF EndOp
  <2>5. QED
    BY <1>1, <1>4, <2>2, <2>3, <2>4, Bounds DEF Reserved, TypeOK
<1>10. Walks'
  <2>1. lh # << >> => Len(lh) >= 1
    BY DEF TypeOK
  <2>2. QED
    BY <1>1, <1>6, <2>1 DEF Walks, Walking, NoRepeats, FirstStep
<1>11. \A c \in Blocks : Pending(c)' <=> Pending(c)
  BY <1>1, <1>6 DEF Pending, FirstStep
<1>12. Pinned' /\ Copied'
  BY <1>1, <1>6, <1>11 DEF Pinned, Copied, Headed, FirstStep, TypeOK
<1>13. QED
  BY <1>5, <1>7, <1>8, <1>9, <1>10, <1>12

-----------------------------------------------------------------------------
(* The steps of a commit *)

\* What all of them have in common until the last.
LEMMA CommitGoesOn ==
  ASSUME TypeOK, LogInv, NEW p \in Procs, pc[p] \in Committing, NEW step \in Committing,
         Goto(p, step), UNCHANGED <<ticket, wrote, ops, outstanding, committing, booting, crashes>>
  PROVE  /\ pc' \in [Procs -> Steps] /\ Underway' = {step} /\ InOp' = { }
         /\ booting = "up" /\ committing /\ Underway = {pc[p]} /\ InOp = { }
         /\ Exclusive' /\ Written'
<1>1. Underway = {pc[p]} /\ committing /\ booting = "up" /\ InOp = { }
  BY OneCommit DEF LogInv
<1>2. pc' \in [Procs -> Steps]
  BY DEF Goto, TypeOK, Steps
<1>3. pc'[p] = step /\ \A q \in Procs \ {p} : pc'[q] = pc[q] /\ pc[q] \notin Committing
  BY DEF Goto, TypeOK, LogInv, Exclusive
<1>4. InOp' = InOp
  BY <1>3 DEF InOp, Committing
<1>5. Underway' = {step}
  BY <1>3 DEF Underway
<1>6. Exclusive'
  BY <1>1, <1>3, <1>4 DEF Exclusive, LogInv, Committing
<1>7. Written'
  <2>1. \A q \in Procs : wrote[q] = { } /\ IsFiniteSet(wrote[q]) /\ Cardinality(wrote[q]) <= OpBlocks
    BY <1>1 DEF Written, LogInv, InOp
  <2>2. QED
    BY <2>1 DEF Written
<1>8. QED
  BY <1>1, <1>2, <1>4, <1>5, <1>6, <1>7

LEMMA WriteLogKeeps ==
  ASSUME TypeOK, LogInv, NEW p \in Procs, WriteLog(p)
  PROVE  TypeOK' /\ LogInv'
<1> USE DEF LogInv
<1> DEFINE n == Len(lh)
           step == IF AtEnd(n) THEN "write_head" ELSE "write_log"
<1>1. /\ pc[p] = "write_log" /\ step \in Committing /\ Goto(p, step)
      /\ UNCHANGED <<ticket, wrote, ops, lh, data, pins, outstanding, committing, booting, disk,
                     dhead, crashes>>
  BY DEF WriteLog, Committing, buffers, log
<1>2. /\ pc' \in [Procs -> Steps] /\ Underway' = {step} /\ InOp' = { }
      /\ booting = "up" /\ committing /\ Underway = {"write_log"} /\ InOp = { }
      /\ Exclusive' /\ Written'
  BY <1>1, CommitGoesOn DEF Committing
<1>3. n \in Nat /\ tail \in 1..n /\ n <= LOGSIZE
  BY <1>2 DEF Walks, Walking, TypeOK, Slots
<1>4. /\ tail = n => tail' = 1 /\ step = "write_head"
      /\ tail # n => tail' = tail + 1 /\ tail < n /\ step = "write_log"
  BY <1>3 DEF WriteLog, Turn, AtEnd
<1>5. dlog' = [dlog EXCEPT ![tail] = data[lh[tail]]] /\ tail \in Slots /\ tail' \in Slots
  BY <1>3, <1>4, Bounds DEF WriteLog, Slots
<1>6. TypeOK'
  <2>1. lh[tail] \in Blocks
    BY <1>3 DEF TypeOK
  <2>2. dlog' \in [Slots -> Contents]
    BY <2>1, <1>5 DEF TypeOK
  <2>3. QED
    BY <2>2, <1>1, <1>2, <1>5 DEF TypeOK
<1>7. Reserved'
  BY <1>1, <1>2 DEF Reserved
<1>8. Walks'
  BY <1>1, <1>2, <1>3, <1>4 DEF Walks, Walking, NoRepeats
<1>9. \A c \in Blocks : Pending(c)' <=> Pending(c)
  BY <1>1, <1>2, <1>4 DEF Pending
<1>10. Pinned'
  BY <1>1, <1>9 DEF Pinned
<1>11. Copied'
  <2>1. dlog'[tail] = data[lh[tail]] /\ \A i \in 1..n : i # tail => dlog'[i] = dlog[i]
    BY <1>3, <1>5 DEF TypeOK, Slots
  <2>2. \A i \in 1..n : i < tail => dlog[i] = data[lh[i]]
    BY <1>2 DEF Copied
  <2>3. \A i \in 1..n : i <= tail => dlog'[i] = data[lh[i]]
    BY <1>3, <2>1, <2>2
  <2>4. \A i \in 1..n : "write_log" \in Underway' /\ i < tail' => dlog'[i] = data[lh[i]]
    BY <1>2, <1>3, <1>4, <2>3
  <2>5. \A i \in 1..n : "write_head" \in Underway' => dlog'[i] = data[lh[i]]
    BY <1>2, <1>3, <1>4, <2>3
  <2>6. ~Headed /\ ~Headed'
    BY <1>2, <1>4 DEF Headed
  <2>7. QED
    BY <1>1, <1>2, <1>9, <2>4, <2>5, <2>6 DEF Copied
<1>12. QED
  BY <1>2, <1>6, <1>7, <1>8, <1>10, <1>11

LEMMA WriteHeadKeeps ==
  ASSUME TypeOK, LogInv, NEW p \in Procs, WriteHead(p)
  PROVE  TypeOK' /\ LogInv'
<1> USE DEF LogInv
<1>1. /\ pc[p] = "write_head" /\ Goto(p, "install") /\ dhead' = lh
      /\ UNCHANGED <<ticket, wrote, ops, lh, data, pins, outstanding, committing, tail, booting,
                     disk, dlog, crashes>>
  BY DEF WriteHead, buffers, log
<1>2. /\ pc' \in [Procs -> Steps] /\ Underway' = {"install"} /\ InOp' = { }
      /\ booting = "up" /\ committing /\ Underway = {"write_head"} /\ InOp = { }
      /\ Exclusive' /\ Written'
  BY <1>1, CommitGoesOn DEF Committing
<1>3. tail = 1 /\ Len(lh) \in Nat /\ 1 <= Len(lh)
  <2>1. lh # << >> => Len(lh) \in Nat /\ 1 <= Len(lh)
    BY DEF TypeOK
  <2>2. QED
    BY <1>2, <2>1 DEF Walks, Walking
<1>4. TypeOK'
  BY <1>1, <1>2 DEF TypeOK
<1>5. Reserved' /\ Walks'
  BY <1>1, <1>2, <1>3 DEF Reserved, Walks, Walking, NoRepeats
<1>6. \A c \in Blocks : Pending(c)' <=> Pending(c)
  BY <1>1, <1>2, <1>3 DEF Pending
<1>7. Pinned' /\ Copied'
  BY <1>1, <1>2, <1>3, <1>6 DEF Pinned, Copied, Headed
<1>8. QED
  BY <1>2, <1>4, <1>5, <1>7

LEMMA InstallTransKeeps ==
  ASSUME TypeOK, LogInv, NEW p \in Procs, InstallTrans(p)
  PROVE  TypeOK' /\ LogInv'
<1> USE DEF LogInv
<1> DEFINE n == Len(lh)
           b == lh[tail]
           step == IF AtEnd(n) THEN "clear_head" ELSE "install"
<1>1. /\ pc[p] = "install" /\ step \in Committing /\ Goto(p, step)
      /\ data' = [data EXCEPT ![b] = dlog[tail]] /\ disk' = [disk EXCEPT ![b] = dlog[tail]]
      /\ pins' = [pins EXCEPT ![b] = @ - 1]
      /\ UNCHANGED <<ticket, wrote, ops, lh, outstanding, committing, booting, dlog, dhead,
                     crashes>>
  BY DEF InstallTrans, Install, Unpin, Committing, log
<1>2. /\ pc' \in [Procs -> Steps] /\ Underway' = {step} /\ InOp' = { }
      /\ booting = "up" /\ committing /\ Underway = {"install"} /\ InOp = { }
      /\ Exclusive' /\ Written'
  BY <1>1, CommitGoesOn DEF Committing
<1>3. n \in Nat /\ tail \in 1..n /\ n <= LOGSIZE /\ b \in Blocks
  BY <1>2 DEF Walks, Walking, TypeOK, Slots
<1>4. /\ tail = n => tail' = 1 /\ step = "clear_head"
      /\ tail # n => tail' = tail + 1 /\ tail < n /\ step = "install"
  BY <1>3 DEF InstallTrans, Install, Turn, AtEnd
<1>5. dlog[tail] = data[b] /\ data' = data
  <2>1. dlog[tail] = data[b]
    BY <1>2, <1>3 DEF Copied, Headed
  <2>2. QED
    BY <1>1, <1>3, <2>1 DEF TypeOK
<1>6. Pending(b) /\ \A c \in Blocks : Pending(c)' <=> Pending(c) /\ c # b
  <2>1. Pending(b)
    BY <1>2, <1>3 DEF Pending
  <2>2. \A i \in 1..n : lh[i] = b => i = tail
    BY <1>3 DEF Walks, NoRepeats
  <2>3. \A c \in Blocks : Pending(c) <=> \E i \in 1..n : lh[i] = c /\ i >= tail
    BY <1>2 DEF Pending
  <2>4. CASE tail = n
    <3>1. \A c \in Blocks : ~Pending(c)'
      BY <1>2, <1>4, <2>4 DEF Pending
    <3>2. \A i \in 1..n : i >= tail => i = tail
      BY <1>3, <2>4
    <3>3. QED
      BY <2>1, <2>3, <3>1, <3>2
  <2>5. CASE tail # n
    <3>1. \A c \in Blocks : Pending(c)' <=> \E i \in 1..n : lh[i] = c /\ i >= tail + 1
      BY <1>1, <1>2, <1>4, <2>5 DEF Pending
    <3>2. \A i \in 1..n : i >= tail + 1 <=> i >= tail /\ i # tail
      BY <1>3
    <3>3. QED
      BY <1>3, <2>1, <2>2, <2>3, <3>1, <3>2
  <2>6. QED
    BY <2>4, <2>5
<1>7. Pinned'
  BY <1>1, <1>3, <1>6 DEF Pinned, TypeOK
<1>8. TypeOK'
  <2>1. pins' \in [Blocks -> Nat]
    BY <1>1, <1>3, <1>6 DEF Pinned, TypeOK
  <2>2. tail \in Slots /\ tail' \in Slots
    BY <1>3, <1>4, Bounds DEF Slots
  <2>3. disk' \in [Blocks -> Contents]
    BY <1>1, <2>2 DEF TypeOK
  <2>4. QED
    BY <1>1, <1>2, <1>5, <2>1, <2>2, <2>3 DEF TypeOK
<1>9. Reserved' /\ Walks'
  BY <1>1, <1>2, <1>3, <1>4 DEF Reserved, Walks, Walking, NoRepeats
<1>10. Copied'
  <2>1. disk'[b] = data[b] /\ \A c \in Blocks \ {b} : disk'[c] = disk[c]
    BY <1>1, <1>3, <1>5 DEF TypeOK
  <2>2. \A c \in Blocks : ~Pending(c)' => data'[c] = disk'[c]
    BY <1>5, <1>6, <2>1 DEF Copied
  <2>3. \A i \in 1..n : dlog[i] = data[lh[i]]
    BY <1>2 DEF Copied, Headed
  <2>4. Headed /\ Headed' /\ "write_log" \notin Underway'
    BY <1>2, <1>4 DEF Headed
  <2>5. QED
    BY <1>1, <1>2, <1>5, <2>2, <2>3, <2>4 DEF Copied
<1>11. QED
  BY <1>2, <1>7, <1>8, <1>9, <1>10

LEMMA ClearHeadKeeps ==
  ASSUME TypeOK, LogInv, NEW p \in Procs, ClearHead(p)
  PROVE  TypeOK' /\ LogInv'
<1> USE DEF LogInv
<1>1. /\ pc[p] = "clear_head" /\ Goto(p, "wake") /\ lh' = << >> /\ dhead' = << >>
      /\ UNCHANGED <<ticket, wrote, ops, data, pins, outstanding, committing, tail, booting,
                     disk, dlog, crashes>>
  BY DEF ClearHead, buffers
<1>2. /\ pc' \in [Procs -> Steps] /\ Underway' = {"wake"} /\ InOp' = { }
      /\ booting = "up" /\ committing /\ Underway = {"clear_head"} /\ InOp = { }
      /\ Exclusive' /\ Written'
  BY <1>1, CommitGoesOn DEF Committing
<1>3. TypeOK'
  BY <1>1, <1>2, Bounds DEF TypeOK
<1>4. Reserved' /\ Walks'
  BY <1>1, <1>2, Bounds DEF Reserved, Walks, Walking, NoRepeats
<1>5. \A c \in Blocks : ~Pending(c)' /\ ~Pending(c)
  BY <1>1, <1>2 DEF Pending
<1>6. Pinned' /\ Copied'
  BY <1>1, <1>2, <1>5 DEF Pinned, Copied, Headed
<1>7. QED
  BY <1>2, <1>3, <1>4, <1>6

LEMMA EndCommitKeeps ==
  ASSUME TypeOK, LogInv, NEW p \in Procs, EndCommit(p)
  PROVE  TypeOK' /\ LogInv'
<1> USE DEF LogInv
<1>1. /\ pc[p] = "wake" /\ pc' = WakeAnd(p, "user") /\ committing' = FALSE
      /\ UNCHANGED <<ticket, wrote, ops, data, pins, lh, outstanding, tail, booting, disk, dlog,
                     dhead, crashes>>
  BY DEF EndCommit, buffers, ondisk
<1>2. booting = "up" /\ committing /\ Underway = {"wake"} /\ InOp = { }
  BY <1>1, OneCommit DEF Committing
<1>3. lh = << >> /\ Len(lh) = 0 /\ tail = 1
  BY <1>2 DEF Walks, Walking
<1>4. \A q \in Procs : pc'[q] \in {"user", "begin"}
  <2>1. \A q \in Procs \ {p} : pc[q] \in {"user", "begin", "asleep"}
    BY <1>1, <1>2 DEF TypeOK, Steps, InOp, Exclusive, Committing
  <2>2. QED
    BY <1>1, <2>1 DEF WakeAnd
<1>5. Underway' = { } /\ InOp' = { } /\ pc' \in [Procs -> Steps]
  <2>1. pc' \in [Procs -> Steps]
    BY <1>1, <1>4 DEF WakeAnd, Steps
  <2>2. QED
    BY <2>1, <1>4 DEF Underway, InOp, Committing
<1>6. TypeOK'
  BY <1>1, <1>5 DEF TypeOK
<1>7. Exclusive'
  BY <1>1, <1>2, <1>4, <1>5 DEF Exclusive, Committing
<1>8. Written'
  <2>1. \A q \in Procs : wrote[q] = { }
    BY <1>2 DEF Written, InOp
  <2>2. QED
    BY <1>1, <2>1 DEF Written
<1>9. Reserved' /\ Walks'
  BY <1>1, <1>2, <1>3, <1>5 DEF Reserved, Walks, Walking, NoRepeats
<1>10. \A c \in Blocks : ~Pending(c)' /\ ~Pending(c)
  BY <1>1, <1>3 DEF Pending
<1>11. Pinned' /\ Copied'
  BY <1>1, <1>2, <1>3, <1>5, <1>10 DEF Pinned, Copied, Headed
<1>12. QED
  BY <1>6, <1>7, <1>8, <1>9, <1>11

-----------------------------------------------------------------------------
(* The cache, a crash and the recovery *)

\* A buffer without references holds what the disk has.
LEMMA RecycleChangesNothing ==
  ASSUME TypeOK, LogInv, NEW b \in Blocks, Recycle(b)
  PROVE  UNCHANGED vars
<1>1. ~Pending(b)
  BY DEF Recycle, LogInv, Pinned
<1>2. data[b] = disk[b]
  BY <1>1 DEF LogInv, Copied
<1>3. data' = data
  BY <1>2 DEF Recycle, TypeOK
<1>4. QED
  BY <1>3 DEF Recycle, vars, buffers

LEMMA CrashKeeps ==
  ASSUME TypeOK, LogInv, Crash
  PROVE  TypeOK' /\ LogInv'
<1> USE DEF LogInv
<1>1. /\ pc' = [p \in Procs |-> "user"] /\ ticket' = [p \in Procs |-> 0]
      /\ wrote' = [p \in Procs |-> { }] /\ data' = disk /\ pins' = [b \in Blocks |-> 0]
      /\ lh' = << >> /\ outstanding' = 0 /\ committing' = FALSE /\ tail' = 1
      /\ booting' = "read_head" /\ UNCHANGED <<ops, disk, dlog, dhead>>
      /\ crashes' = crashes + 1 /\ crashes < MaxCrashes
  BY DEF Crash, ondisk
<1>2. InOp' = { } /\ Underway' = { } /\ Cardinality({ }) = 0 /\ IsFiniteSet({ })
  BY <1>1, FS_EmptySet DEF InOp, Underway, Committing
<1>3. TypeOK'
  <2>1. 0 \in Contents /\ tail' \in Slots /\ crashes' \in 0..MaxCrashes
        /\ lh' \in Seq(Blocks) /\ Len(lh') <= LOGSIZE
    BY <1>1, Bounds DEF Contents, TypeOK
  <2>2. /\ pc' \in [Procs -> Steps] /\ ticket' \in [Procs -> Contents]
        /\ wrote' \in [Procs -> SUBSET Blocks] /\ pins' \in [Blocks -> Nat]
    BY <1>1, <2>1 DEF Steps
  <2>3. QED
    BY <1>1, <2>1, <2>2 DEF TypeOK, Recovery
<1>4. Exclusive' /\ Written'
  BY <1>1, <1>2, Bounds DEF Exclusive, Written, Committing
<1>5. Reserved' /\ Walks'
  BY <1>1, <1>2, Bounds DEF Reserved, Walks, Walking, NoRepeats
<1>6. Pinned' /\ Copied'
  BY <1>1 DEF Pinned, Pending, Copied
<1>7. QED
  BY <1>3, <1>4, <1>5, <1>6

\* What the steps of the recovery have in common: nobody else is there.
LEMMA RecoveryGoesOn ==
  ASSUME TypeOK, LogInv, booting # "up",
         UNCHANGED <<pc, wrote, outstanding, committing>>
  PROVE  /\ Underway = { } /\ Underway' = { } /\ InOp = { } /\ InOp' = { } /\ ~committing
         /\ Exclusive' /\ Written'
<1>1. \A p \in Procs : pc[p] = "user" /\ wrote[p] = { }
  BY DEF LogInv, Exclusive, Written
<1>2. Underway = { } /\ Underway' = { } /\ InOp = { } /\ InOp' = { }
  BY <1>1 DEF Underway, InOp, Committing
<1>3. Exclusive'
  BY <1>1, <1>2 DEF LogInv, Exclusive, Committing
<1>4. Written'
  BY <1>1 DEF LogInv, Written
<1>5. QED
  BY <1>2, <1>3, <1>4 DEF LogInv, Exclusive

LEMMA ReadHeadKeeps ==
  ASSUME TypeOK, LogInv, ReadHead
  PROVE  TypeOK' /\ LogInv'
<1> USE DEF LogInv
<1>1. /\ booting = "read_head" /\ lh' = dhead
      /\ booting' = IF dhead = << >> THEN "clear_head" ELSE "install"
      /\ UNCHANGED <<pc, ticket, wrote, ops, data, pins, outstanding, committing, tail, disk,
                     dlog, dhead, crashes>>
  BY DEF ReadHead, calls, buffers, ondisk
<1>2. /\ Underway = { } /\ Underway' = { } /\ InOp = { } /\ InOp' = { } /\ ~committing
      /\ Exclusive' /\ Written'
  BY <1>1, RecoveryGoesOn
<1>3. tail = 1 /\ Len(dhead) \in Nat /\ (dhead # << >> => 1 <= Len(dhead))
  BY <1>1, <1>2 DEF TypeOK, Walks, Walking
<1>4. TypeOK'
  BY <1>1 DEF TypeOK, Recovery
<1>5. Reserved' /\ Walks'
  BY <1>1, <1>2, <1>3 DEF Reserved, Walks, Walking, NoRepeats
<1>6. \A c \in Blocks : ~Pending(c)' /\ ~Pending(c)
  BY <1>1 DEF Pending
<1>7. Pinned' /\ Copied'
  BY <1>1, <1>2, <1>3, <1>6 DEF Pinned, Copied, Headed
<1>8. QED
  BY <1>2, <1>4, <1>5, <1>7

LEMMA RecoverInstallKeeps ==
  ASSUME TypeOK, LogInv, RecoverInstall
  PROVE  TypeOK' /\ LogInv'
<1> USE DEF LogInv
<1> DEFINE n == Len(lh)
           b == lh[tail]
<1>1. /\ booting = "install" /\ booting' = IF AtEnd(n) THEN "clear_head" ELSE "install"
      /\ data' = [data EXCEPT ![b] = dlog[tail]] /\ disk' = [disk EXCEPT ![b] = dlog[tail]]
      /\ UNCHANGED <<pc, ticket, wrote, ops, pins, lh, outstanding, committing, dlog, dhead,
                     crashes>>
  BY DEF RecoverInstall, Install, calls, log
<1>2. /\ Underway = { } /\ Underway' = { } /\ InOp = { } /\ InOp' = { } /\ ~committing
      /\ Exclusive' /\ Written'
  BY <1>1, RecoveryGoesOn
<1>3. n \in Nat /\ tail \in 1..n /\ n <= LOGSIZE /\ b \in Blocks
  BY <1>1 DEF Walks, Walking, TypeOK, Slots
<1>4. /\ tail = n => tail' = 1 /\ booting' = "clear_head"
      /\ tail # n => tail' = tail + 1 /\ tail < n /\ booting' = "install"
  BY <1>1, <1>3 DEF RecoverInstall, Install, Turn, AtEnd
<1>5. TypeOK'
  <2>1. tail \in Slots /\ tail' \in Slots
    BY <1>3, <1>4, Bounds DEF Slots
  <2>2. disk' \in [Blocks -> Contents] /\ data' \in [Blocks -> Contents]
    BY <1>1, <2>1 DEF TypeOK
  <2>3. QED
    BY <1>1, <2>1, <2>2 DEF TypeOK, Recovery
<1>6. Reserved' /\ Walks'
  BY <1>1, <1>2, <1>3, <1>4 DEF Reserved, Walks, Walking, NoRepeats
<1>7. \A c \in Blocks : ~Pending(c)' /\ ~Pending(c)
  BY <1>1, <1>4 DEF Pending
<1>8. Pinned'
  BY <1>1, <1>7 DEF Pinned
<1>9. Copied'
  <2>1. \A c \in Blocks : data'[c] = disk'[c]
    BY <1>1, <1>7 DEF Copied, TypeOK
  <2>2. disk'[b] = dlog[tail] /\ \A c \in Blocks \ {b} : disk'[c] = disk[c]
    BY <1>1, <1>3 DEF TypeOK
  <2>3. \A i \in 1..n : lh[i] \in Blocks /\ (i # tail => lh[i] # b)
    BY <1>3 DEF TypeOK, Walks, NoRepeats
  <2>4. \A i \in 1..n : i <= tail => disk'[lh[i]] = dlog[i]
    BY <1>1, <1>3, <2>2, <2>3 DEF Copied
  <2>5. \A i \in 1..n : booting' = "clear_head" \/ i < tail' => disk'[lh[i]] = dlog[i]
    BY <1>3, <1>4, <2>4
  <2>6. booting' # "up" /\ booting' # "read_head" /\ lh = dhead
    BY <1>1, <1>4 DEF Copied
  <2>7. QED
    BY <1>1, <1>2, <2>1, <2>5, <2>6 DEF Copied, Headed
<1>10. QED
  BY <1>2, <1>5, <1>6, <1>8, <1>9

LEMMA RecoverClearKeeps ==
  ASSUME TypeOK, LogInv, RecoverClear
  PROVE  TypeOK' /\ LogInv'
<1> USE DEF LogInv
<1>1. /\ booting = "clear_head" /\ booting' = "up" /\ lh' = << >> /\ dhead' = << >>
      /\ UNCHANGED <<pc, ticket, wrote, ops, data, pins, outstanding, committing, tail, disk,
                     dlog, crashes>>
  BY DEF RecoverClear, calls, buffers
<1>2. /\ Underway = { } /\ Underway' = { } /\ InOp = { } /\ InOp' = { } /\ ~committing
      /\ Exclusive' /\ Written'
  BY <1>1, RecoveryGoesOn
<1>3. TypeOK'
  BY <1>1, Bounds DEF TypeOK, Recovery
<1>4. Reserved' /\ Walks'
  BY <1>1, <1>2, Bounds DEF Reserved, Walks, Walking, NoRepeats
<1>5. \A c \in Blocks : ~Pending(c)' /\ ~Pending(c)
  BY <1>1 DEF Pending
<1>6. Pinned' /\ Copied'
  BY <1>1, <1>2, <1>5 DEF Pinned, Copied, Headed
<1>7. QED
  BY <1>2, <1>3, <1>4, <1>6

-----------------------------------------------------------------------------
(* The theorems *)

LEMMA InitiallyInv ==
  ASSUME Init
  PROVE  TypeOK /\ LogInv
<1>1. InOp = { } /\ Underway = { } /\ Cardinality({ }) = 0 /\ IsFiniteSet({ })
  BY FS_EmptySet DEF Init, InOp, Underway, Committing
<1>2. TypeOK
  <2>1. 0 \in Contents /\ tail \in Slots /\ crashes \in 0..MaxCrashes /\ ops \in Contents
        /\ lh \in Seq(Blocks) /\ Len(lh) <= LOGSIZE /\ dhead \in Seq(Blocks) /\ Len(dhead) <= LOGSIZE
    BY Bounds DEF Contents, Init
  <2>2. /\ pc \in [Procs -> Steps] /\ ticket \in [Procs -> Contents]
        /\ wrote \in [Procs -> SUBSET Blocks] /\ pins \in [Blocks -> Nat]
        /\ data \in [Blocks -> Contents] /\ disk \in [Blocks -> Contents]
        /\ dlog \in [Slots -> Contents]
    BY <2>1 DEF Init, Steps
  <2>3. QED
    BY <2>1, <2>2 DEF Init, TypeOK, Recovery
<1>3. Exclusive /\ Written
  BY <1>1, Bounds DEF Init, Exclusive, Written, Committing
<1>4. Reserved /\ Walks
  BY <1>1, Bounds DEF Init, Reserved, Walks, Walking, NoRepeats
<1>5. Pinned /\ Copied
  BY DEF Init, Pinned, Pending, Copied
<1>6. QED
  BY <1>2, <1>3, <1>4, <1>5 DEF LogInv

LEMMA StutterKeeps ==
  ASSUME TypeOK, LogInv, UNCHANGED vars
  PROVE  TypeOK' /\ LogInv'
<1>1. UNCHANGED <<InOp, Underway, Unused>>
  BY DEF vars, calls, InOp, Underway, Unused
<1>2. TypeOK' /\ Exclusive' /\ Written' /\ Reserved'
  BY <1>1 DEF vars, calls, buffers, log, ondisk, TypeOK, LogInv, Exclusive, Written, Logged,
              Reserved
<1>3. Walks' /\ Pinned' /\ Copied'
  BY <1>1 DEF vars, calls, buffers, log, ondisk, LogInv, Walks, Walking, NoRepeats, Pinned,
              Pending, Copied, Headed
<1>4. QED
  BY <1>2, <1>3 DEF LogInv

LEMMA NextKeeps ==
  ASSUME TypeOK, LogInv, [Next]_vars
  PROVE  TypeOK' /\ LogInv'
<1>1. CASE \E p \in Procs : Call(p) \/ BeginOp(p) \/ EndOp(p)
  BY <1>1, CallKeeps, BeginOpKeeps, EndOpKeeps
<1>2. CASE \E p \in Procs : Commits(p)
  BY <1>2, WriteLogKeeps, WriteHeadKeeps, InstallTransKeeps, ClearHeadKeeps, EndCommitKeeps
     DEF Commits
<1>3. CASE \E p \in Procs, b \in Blocks : LogWrite(p, b)
  BY <1>3, RewriteKeeps, AppendKeeps
<1>4. CASE \E b \in Blocks : Recycle(b)
  BY <1>4, RecycleChangesNothing, StutterKeeps
<1>5. CASE Crash \/ Recover
  BY <1>5, CrashKeeps, ReadHeadKeeps, RecoverInstallKeeps, RecoverClearKeeps DEF Recover
<1>6. CASE UNCHANGED vars
  BY <1>6, StutterKeeps
<1>7. QED
  BY <1>1, <1>2, <1>3, <1>4, <1>5, <1>6 DEF Next

\* The inductive invariant holds for every number of processes and blocks,
\* every reservation and every size of the log that has place for two.
THEOREM LogCorrect == Spec => [](TypeOK /\ LogInv)
<1>1. Init => TypeOK /\ LogInv
  BY InitiallyInv
<1>2. TypeOK /\ LogInv /\ [Next]_vars => (TypeOK /\ LogInv)'
  BY NextKeeps
<1>3. QED
  BY <1>1, <1>2, PTL DEF Spec

\* log_write() and end_op() never panic: a system call finds the place in
\* the log that begin_op() reserved for it, and no commit runs beside it.
THEOREM LogNeverPanics == Spec => []NoPanic
<1>1. TypeOK /\ LogInv => NoPanic
  <2> SUFFICES ASSUME TypeOK, LogInv, InOp # { }
               PROVE  ~LogFull /\ ~committing
    BY DEF NoPanic
  <2>1. Len(lh) \in Nat /\ Len(lh) <= LOGSIZE - 2 /\ nlog = LOGSIZE
    BY LogAssumption DEF TypeOK, LogInv, Reserved
  <2>2. ~LogFull
    BY <2>1, Bounds DEF LogFull
  <2>3. QED
    BY <2>2 DEF LogInv, Exclusive
<1>2. QED
  BY <1>1, LogCorrect, PTL

\* bpin() of log_write() and bunpin() of install_trans() balance: outside
\* of a commit exactly the logged blocks are pinned, and once.
THEOREM PinsBalance == Spec => []PinsBalanced
<1>1. TypeOK /\ LogInv => PinsBalanced
  <2> SUFFICES ASSUME TypeOK, LogInv, booting = "up", ~committing, NEW b \in Blocks
               PROVE  pins[b] = IF Logged(b) THEN 1 ELSE 0
    BY DEF PinsBalanced
  <2>1. Pending(b) <=> Logged(b)
    BY NoCommit DEF LogInv, Pending, Logged
  <2>2. QED
    BY <2>1 DEF LogInv, Pinned
<1>2. QED
  BY <1>1, LogCorrect, PTL

-----------------------------------------------------------------------------
(* The log implements Transactions *)

\* What recovery makes of a header, a log and a disk.
Restored(h, l, d) ==
  [b \in Blocks |->
     IF \E i \in 1..Len(h) : h[i] = b
     THEN l[CHOOSE i \in 1..Len(h) : h[i] = b]
     ELSE d[b]]

LEMMA Restores ==
  ASSUME NEW h \in Seq(Blocks), NoRepeats(h), Len(h) <= LOGSIZE,
         NEW l \in [Slots -> Contents], NEW d \in [Blocks -> Contents]
  PROVE  /\ Restored(h, l, d) \in [Blocks -> Contents]
         /\ \A i \in 1..Len(h) : Restored(h, l, d)[h[i]] = l[i]
         /\ \A b \in Blocks :
              (\A i \in 1..Len(h) : h[i] # b) => Restored(h, l, d)[b] = d[b]
<1>1. Len(h) \in Nat /\ 1..Len(h) \subseteq Slots /\ \A i \in 1..Len(h) : h[i] \in Blocks
  BY Bounds DEF Slots
<1> DEFINE at(b) == CHOOSE i \in 1..Len(h) : h[i] = b
<1>2. \A b \in Blocks : (\E i \in 1..Len(h) : h[i] = b) => at(b) \in 1..Len(h) /\ h[at(b)] = b
  OBVIOUS
<1>3. \A b \in Blocks : (\E i \in 1..Len(h) : h[i] = b) => l[at(b)] \in Contents
  BY <1>1, <1>2
<1>4. \A i \in 1..Len(h) : at(h[i]) = i
  BY <1>1, <1>2 DEF NoRepeats
<1> HIDE DEF at
<1>5. Restored(h, l, d) =
        [b \in Blocks |-> IF \E i \in 1..Len(h) : h[i] = b THEN l[at(b)] ELSE d[b]]
  BY DEF Restored, at
<1>6. QED
  BY <1>1, <1>3, <1>4, <1>5

\* Without a header, what is at home.
LEMMA RestoresNothing ==
  ASSUME NEW l \in [Slots -> Contents], NEW d \in [Blocks -> Contents]
  PROVE  Restored(<< >>, l, d) = d
BY DEF Restored

\* A disk that differs at most in the blocks of the header is restored to
\* the same.
LEMMA RestoresTheSame ==
  ASSUME NEW h \in Seq(Blocks), NoRepeats(h), Len(h) <= LOGSIZE,
         NEW l \in [Slots -> Contents], NEW d \in [Blocks -> Contents],
         NEW e \in [Blocks -> Contents],
         \A b \in Blocks : (\A i \in 1..Len(h) : h[i] # b) => e[b] = d[b]
  PROVE  Restored(h, l, e) = Restored(h, l, d)
<1>1. \A b \in Blocks : Restored(h, l, e)[b] = Restored(h, l, d)[b]
  <2> TAKE b \in Blocks
  <2>1. CASE \E i \in 1..Len(h) : h[i] = b
    BY <2>1, Restores
  <2>2. CASE \A i \in 1..Len(h) : h[i] # b
    BY <2>2, Restores
  <2>3. QED
    BY <2>1, <2>2
<1>2. QED
  BY <1>1, Restores

\* And one that has the log's content in all of them is as after recovery.
LEMMA RestoresInstalled ==
  ASSUME NEW h \in Seq(Blocks), NoRepeats(h), Len(h) <= LOGSIZE,
         NEW l \in [Slots -> Contents], NEW d \in [Blocks -> Contents],
         NEW m \in [Blocks -> Contents],
         \A i \in 1..Len(h) : m[h[i]] = l[i],
         \A b \in Blocks : (\A i \in 1..Len(h) : h[i] # b) => m[b] = d[b]
  PROVE  Restored(h, l, d) = m
<1>1. \A b \in Blocks : Restored(h, l, d)[b] = m[b]
  <2> TAKE b \in Blocks
  <2>1. CASE \E i \in 1..Len(h) : h[i] = b
    <3>1. PICK i \in 1..Len(h) : h[i] = b
      BY <2>1
    <3>2. Restored(h, l, d)[h[i]] = l[i] /\ m[h[i]] = l[i]
      BY Restores
    <3>3. QED
      BY <3>1, <3>2
  <2>2. CASE \A i \in 1..Len(h) : h[i] # b
    BY <2>2, Restores
  <2>3. QED
    BY <2>1, <2>2
<1>2. QED
  BY <1>1, Restores

LEMMA DurableIs ==
  /\ Durable = Restored(dhead, dlog, disk)
  /\ Durable' = Restored(dhead', dlog', disk')
BY DEF Durable, Restored

LEMMA CommitterIs ==
  ASSUME Exclusive
  PROVE  /\ \A p \in Procs : pc[p] \in Committing => Committer = p
         /\ (\A p \in Procs : pc[p] \notin Committing) => Committer = Nobody
BY DEF Committer, Exclusive

LEMMA CommitterIsNext ==
  ASSUME Exclusive'
  PROVE  /\ \A p \in Procs : pc'[p] \in Committing => Committer' = p
         /\ (\A p \in Procs : pc'[p] \notin Committing) => Committer' = Nobody
BY DEF Committer, Exclusive

\* What a process reads, and what does not change in a step that
\* Transactions does not see.
View == IF booting = "up" THEN data ELSE Durable
Unseen == UNCHANGED <<View, Durable, InOp, Committer>>

LEMMA CallIsUnseen ==
  ASSUME TypeOK, LogInv, LogInv', NEW p \in Procs,
         Call(p) \/ (BeginOp(p) /\ UNCHANGED outstanding)
  PROVE  Unseen
<1>1. /\ UNCHANGED <<data, booting, disk, dlog, dhead>>
      /\ pc' = [pc EXCEPT ![p] = "begin"] \/ pc' = [pc EXCEPT ![p] = "asleep"]
      /\ pc[p] \in {"user", "begin"}
  BY DEF Call, BeginOp, buffers, ondisk, TypeOK
<1>2. UNCHANGED Durable
  BY <1>1, DurableIs
<1>3. UNCHANGED InOp /\ \A q \in Procs : pc'[q] \in Committing <=> pc'[q] = pc[q] /\ pc[q] \in Committing
  BY <1>1 DEF InOp, TypeOK, Committing
<1>4. UNCHANGED Committer
  <2>1. Exclusive /\ Exclusive'
    BY DEF LogInv
  <2>2. CASE \E q \in Procs : pc[q] \in Committing
    <3>1. PICK q \in Procs : pc[q] \in Committing
      BY <2>2
    <3>2. pc'[q] \in Committing
      BY <1>1, <3>1 DEF Committing, TypeOK
    <3>3. QED
      BY <2>1, <3>1, <3>2, CommitterIs, CommitterIsNext
  <2>3. CASE \A q \in Procs : pc[q] \notin Committing
    BY <1>3, <2>1, <2>3, CommitterIs, CommitterIsNext
  <2>4. QED
    BY <2>2, <2>3
<1>5. QED
  BY <1>1, <1>2, <1>3, <1>4 DEF Unseen, View

LEMMA BeginOpBegins ==
  ASSUME TypeOK, LogInv, LogInv', NEW p \in Procs, BeginOp(p), outstanding' # outstanding
  PROVE  Abstract!Begin(p)
<1>1. /\ ~committing /\ p \notin InOp /\ pc' = [pc EXCEPT ![p] = "op"]
      /\ UNCHANGED <<data, booting, disk, dlog, dhead>>
  BY DEF BeginOp, InOp, buffers, ondisk
<1>2. UNCHANGED Durable
  BY <1>1, DurableIs
<1>3. \A q \in Procs : pc[q] \notin Committing /\ pc'[q] \notin Committing
  BY <1>1, NoCommit DEF LogInv, TypeOK, Committing
<1>4. Committer = Nobody /\ Committer' = Nobody
  BY <1>3, CommitterIs, CommitterIsNext DEF LogInv
<1>5. InOp' = InOp \cup {p}
  BY <1>1 DEF InOp, TypeOK
<1>6. QED
  BY <1>1, <1>2, <1>4, <1>5 DEF Abstract!Begin

LEMMA LogWriteWrites ==
  ASSUME TypeOK, LogInv, LogInv', NEW p \in Procs, NEW b \in Blocks, LogWrite(p, b)
  PROVE  Abstract!Write(p, b, ticket[p])
<1>1. /\ p \in InOp /\ booting = "up" /\ data' = [data EXCEPT ![b] = ticket[p]]
      /\ UNCHANGED <<pc, booting, disk, dlog, dhead>>
  BY DEF LogWrite, InOp, LogInv, Exclusive, ondisk
<1>2. UNCHANGED Durable
  BY <1>1, DurableIs
<1>3. UNCHANGED <<InOp, Committer>>
  BY <1>1 DEF InOp, Committer
<1>4. QED
  BY <1>1, <1>2, <1>3 DEF Abstract!Write

LEMMA EndOpEnds ==
  ASSUME TypeOK, LogInv, LogInv', NEW p \in Procs, EndOp(p)
  PROVE  Abstract!End(p)
<1>1. /\ ~committing /\ p \in InOp /\ UNCHANGED <<data, booting, disk, dlog, dhead>>
      /\ committing' = (outstanding = 1)
  BY DEF EndOp, InOp, buffers, ondisk
<1>2. UNCHANGED Durable
  BY <1>1, DurableIs
<1>3. InOp' = InOp \ {p}
  BY DEF EndOp, InOp, TypeOK, WakeAnd, FirstStep
<1>4. InOp = {p} <=> outstanding = 1
  <2>1. IsFiniteSet(InOp) /\ outstanding = Cardinality(InOp)
    BY Countable DEF InOp, LogInv, Exclusive
  <2>2. outstanding = 1 <=> \E x : InOp = {x}
    BY <2>1, FS_Singleton
  <2>3. QED
    BY <1>1, <2>2
<1>5. CASE outstanding = 1
  <2>1. pc'[p] \in Committing
    BY <1>5 DEF EndOp, TypeOK, FirstStep, Committing
  <2>2. Committer' = p
    BY <2>1, CommitterIsNext DEF LogInv
  <2>3. QED
    BY <1>1, <1>2, <1>3, <1>4, <1>5, <2>2 DEF Abstract!End
<1>6. CASE outstanding # 1
  <2>1. \A q \in Procs : pc'[q] \notin Committing
    BY <1>1, <1>6 DEF LogInv, Exclusive
  <2>2. Committer' = Nobody
    BY <2>1, CommitterIsNext DEF LogInv
  <2>3. QED
    BY <1>1, <1>2, <1>3, <1>4, <1>6, <2>2 DEF Abstract!End
<1>7. QED
  BY <1>5, <1>6

LEMMA WriteLogIsUnseen ==
  ASSUME TypeOK, TypeOK', LogInv, LogInv', NEW p \in Procs, WriteLog(p)
  PROVE  Unseen
<1>1. /\ pc[p] = "write_log" /\ pc[p] \in Committing /\ pc'[p] \in Committing
      /\ UNCHANGED <<data, booting, disk, dhead>>
  BY DEF WriteLog, Goto, TypeOK, Committing, buffers
<1>2. Underway = {"write_log"} /\ booting = "up" /\ InOp = { } /\ committing
  BY <1>1, OneCommit DEF LogInv
<1>3. dhead = << >>
  BY <1>2 DEF LogInv, Copied, Headed
<1>4. UNCHANGED Durable
  BY <1>1, <1>3, DurableIs, RestoresNothing DEF TypeOK
<1>5. InOp' = { }
  BY <1>2 DEF WriteLog, log, LogInv, Exclusive
<1>6. Committer = p /\ Committer' = p
  BY <1>1, CommitterIs, CommitterIsNext DEF LogInv
<1>7. QED
  BY <1>1, <1>2, <1>4, <1>5, <1>6 DEF Unseen, View

LEMMA WriteHeadCommits ==
  ASSUME TypeOK, TypeOK', LogInv, LogInv', NEW p \in Procs, WriteHead(p)
  PROVE  Abstract!Commit
<1>1. /\ pc[p] = "write_head" /\ pc[p] \in Committing /\ pc'[p] \in Committing
      /\ UNCHANGED <<lh, data, booting, disk, dlog>> /\ dhead' = lh /\ committing' = committing
  BY DEF WriteHead, Goto, TypeOK, Committing, buffers, log
<1>2. Underway = {"write_head"} /\ booting = "up" /\ InOp = { } /\ committing
  BY <1>1, OneCommit DEF LogInv
<1>3. \A i \in 1..Len(lh) : data[lh[i]] = dlog[i]
  BY <1>2 DEF LogInv, Copied
<1>4. \A b \in Blocks : (\A i \in 1..Len(lh) : lh[i] # b) => data[b] = disk[b]
  BY DEF LogInv, Copied, Pending
<1>5. Durable' = data
  <2>1. NoRepeats(lh)
    BY DEF LogInv, Walks
  <2>2. /\ lh \in Seq(Blocks) /\ Len(lh) <= LOGSIZE /\ dlog \in [Slots -> Contents]
        /\ disk \in [Blocks -> Contents] /\ data \in [Blocks -> Contents]
    BY DEF TypeOK
  <2>3. Restored(lh, dlog, disk) = data
    BY <1>3, <1>4, <2>1, <2>2, RestoresInstalled
  <2>4. QED
    BY <1>1, <2>3, DurableIs
<1>6. InOp' = { }
  BY <1>1, <1>2 DEF LogInv, Exclusive
<1>7. Committer = p /\ Committer' = p /\ p # Nobody
  BY <1>1, CommitterIs, CommitterIsNext, LogAssumption DEF LogInv
<1>8. QED
  BY <1>1, <1>2, <1>5, <1>6, <1>7 DEF Abstract!Commit

LEMMA InstallTransIsUnseen ==
  ASSUME TypeOK, TypeOK', LogInv, LogInv', NEW p \in Procs, InstallTrans(p)
  PROVE  Unseen
<1>1. /\ pc[p] = "install" /\ pc[p] \in Committing /\ pc'[p] \in Committing
      /\ disk' = [disk EXCEPT ![lh[tail]] = dlog[tail]]
      /\ data' = [data EXCEPT ![lh[tail]] = dlog[tail]]
      /\ UNCHANGED <<lh, booting, dlog, dhead, committing>>
  BY DEF InstallTrans, Install, Goto, TypeOK, Committing, log
<1>2. Underway = {"install"} /\ booting = "up" /\ InOp = { } /\ committing
  BY <1>1, OneCommit DEF LogInv
<1>3. dhead = lh /\ tail \in 1..Len(lh)
  BY <1>2 DEF LogInv, Copied, Headed, Walks, Walking, TypeOK, Slots
<1>4. data' = data
  BY <1>1, <1>2, <1>3 DEF LogInv, Copied, Headed, TypeOK
<1>5. UNCHANGED Durable
  <2>1. NoRepeats(dhead)
    BY DEF LogInv, Walks
  <2>2. \A b \in Blocks : (\A i \in 1..Len(dhead) : dhead[i] # b) => disk'[b] = disk[b]
    BY <1>1, <1>3 DEF TypeOK
  <2>3. /\ dhead \in Seq(Blocks) /\ Len(dhead) <= LOGSIZE /\ dlog \in [Slots -> Contents]
        /\ disk \in [Blocks -> Contents] /\ disk' \in [Blocks -> Contents]
    BY DEF TypeOK
  <2>4. Restored(dhead, dlog, disk') = Restored(dhead, dlog, disk)
    BY <2>1, <2>2, <2>3, RestoresTheSame
  <2>5. QED
    BY <1>1, <2>4, DurableIs
<1>6. InOp' = { }
  BY <1>1, <1>2 DEF LogInv, Exclusive
<1>7. Committer = p /\ Committer' = p
  BY <1>1, CommitterIs, CommitterIsNext DEF LogInv
<1>8. QED
  BY <1>1, <1>2, <1>4, <1>5, <1>6, <1>7 DEF Unseen, View

LEMMA ClearHeadIsUnseen ==
  ASSUME TypeOK, TypeOK', LogInv, LogInv', NEW p \in Procs, ClearHead(p)
  PROVE  Unseen
<1>1. /\ pc[p] = "clear_head" /\ pc[p] \in Committing /\ pc'[p] \in Committing
      /\ UNCHANGED <<data, booting, dlog, disk, committing>> /\ dhead' = << >>
  BY DEF ClearHead, Goto, TypeOK, Committing, buffers
<1>2. Underway = {"clear_head"} /\ booting = "up" /\ InOp = { } /\ committing
  BY <1>1, OneCommit DEF LogInv
<1>3. dhead = lh /\ \A i \in 1..Len(lh) : dlog[i] = data[lh[i]]
  BY <1>2 DEF LogInv, Copied, Headed
<1>4. \A b \in Blocks : data[b] = disk[b]
  BY <1>2 DEF LogInv, Copied, Pending
<1>5. UNCHANGED Durable
  <2>1. NoRepeats(dhead) /\ \A i \in 1..Len(dhead) : dhead[i] \in Blocks
    BY DEF LogInv, Walks, TypeOK
  <2>2. \A i \in 1..Len(dhead) : disk[dhead[i]] = dlog[i]
    BY <1>3, <1>4, <2>1
  <2>3. Restored(dhead, dlog, disk) = disk
    BY <2>1, <2>2, RestoresInstalled DEF TypeOK
  <2>4. QED
    BY <1>1, <2>3, DurableIs, RestoresNothing DEF TypeOK
<1>6. InOp' = { }
  BY <1>1, <1>2 DEF LogInv, Exclusive
<1>7. Committer = p /\ Committer' = p
  BY <1>1, CommitterIs, CommitterIsNext DEF LogInv
<1>8. QED
  BY <1>1, <1>2, <1>5, <1>6, <1>7 DEF Unseen, View

LEMMA EndCommitReturns ==
  ASSUME TypeOK, TypeOK', LogInv, LogInv', NEW p \in Procs, EndCommit(p)
  PROVE  Abstract!Return(p)
<1>1. /\ pc[p] = "wake" /\ pc[p] \in Committing /\ pc' = WakeAnd(p, "user") /\ ~committing'
      /\ UNCHANGED <<data, booting, dlog, disk, dhead>>
  BY DEF EndCommit, Committing, buffers, ondisk
<1>2. Underway = {"wake"} /\ booting = "up" /\ InOp = { }
  BY <1>1, OneCommit DEF LogInv
<1>3. lh = << >> /\ dhead = << >>
  BY <1>2 DEF LogInv, Walks, Copied, Headed
<1>4. Durable = disk /\ Durable' = disk
  BY <1>1, <1>3, DurableIs, RestoresNothing DEF TypeOK
<1>5. data = disk
  <2>1. \A b \in Blocks : data[b] = disk[b]
    BY <1>3 DEF LogInv, Copied, Pending
  <2>2. QED
    BY <2>1 DEF TypeOK
<1>6. InOp' = { }
  BY <1>1, <1>2 DEF InOp, WakeAnd
<1>7. Committer = p /\ Committer' = Nobody
  <2>1. \A q \in Procs : pc'[q] \notin Committing
    BY <1>1 DEF LogInv, Exclusive
  <2>2. QED
    BY <1>1, <2>1, CommitterIs, CommitterIsNext DEF LogInv
<1>8. QED
  BY <1>1, <1>2, <1>4, <1>5, <1>6, <1>7 DEF Abstract!Return

LEMMA CrashCrashes ==
  ASSUME TypeOK, LogInv, LogInv', Crash
  PROVE  Abstract!Crash
<1>1. /\ pc' = [p \in Procs |-> "user"] /\ booting' = "read_head"
      /\ UNCHANGED <<dlog, disk, dhead>>
  BY DEF Crash, ondisk
<1>2. UNCHANGED Durable
  BY <1>1, DurableIs
<1>3. InOp' = { }
  BY <1>1 DEF InOp
<1>4. Committer' = Nobody
  BY <1>1, CommitterIsNext DEF LogInv, Committing
<1>5. QED
  BY <1>1, <1>2, <1>3, <1>4 DEF Abstract!Crash

LEMMA RecoveryIsUnseen ==
  ASSUME TypeOK, TypeOK', LogInv, LogInv', Recover
  PROVE  Unseen
<1>1. booting # "up" /\ UNCHANGED <<pc, dlog>>
  BY DEF Recover, ReadHead, RecoverInstall, RecoverClear, calls, ondisk
<1>2. UNCHANGED <<InOp, Committer>>
  BY <1>1 DEF InOp, Committer
<1>3. CASE ReadHead
  <2>1. UNCHANGED <<disk, dhead>> /\ booting' # "up"
    BY <1>3 DEF ReadHead, ondisk
  <2>2. UNCHANGED Durable
    BY <1>1, <2>1, DurableIs
  <2>3. QED
    BY <1>1, <1>2, <2>1, <2>2 DEF Unseen, View
<1>4. CASE RecoverInstall
  <2>1. /\ booting = "install" /\ booting' # "up" /\ dhead' = dhead /\ lh = dhead
        /\ disk' = [disk EXCEPT ![lh[tail]] = dlog[tail]]
    BY <1>4 DEF RecoverInstall, Install, LogInv, Copied
  <2>2. tail \in 1..Len(dhead) /\ NoRepeats(dhead)
    BY <2>1 DEF LogInv, Walks, Walking, TypeOK, Slots
  <2>3. \A b \in Blocks : (\A i \in 1..Len(dhead) : dhead[i] # b) => disk'[b] = disk[b]
    BY <2>1, <2>2 DEF TypeOK
  <2>4. /\ dhead \in Seq(Blocks) /\ Len(dhead) <= LOGSIZE /\ dlog \in [Slots -> Contents]
        /\ disk \in [Blocks -> Contents] /\ disk' \in [Blocks -> Contents]
    BY DEF TypeOK
  <2>5. Restored(dhead, dlog, disk') = Restored(dhead, dlog, disk)
    BY <2>2, <2>3, <2>4, RestoresTheSame
  <2>6. UNCHANGED Durable
    BY <1>1, <2>1, <2>5, DurableIs
  <2>7. QED
    BY <1>1, <1>2, <2>1, <2>6 DEF Unseen, View
<1>5. CASE RecoverClear
  <2>1. /\ booting = "clear_head" /\ booting' = "up" /\ dhead' = << >> /\ lh = dhead
        /\ UNCHANGED <<disk, data>>
    BY <1>5 DEF RecoverClear, LogInv, Copied, buffers
  <2>2. NoRepeats(dhead) /\ \A i \in 1..Len(dhead) : disk[dhead[i]] = dlog[i]
    BY <2>1 DEF LogInv, Walks, Copied
  <2>3. Restored(dhead, dlog, disk) = disk
    BY <2>2, RestoresInstalled DEF TypeOK
  <2>4. Durable = disk /\ Durable' = disk
    BY <1>1, <2>1, <2>3, DurableIs, RestoresNothing DEF TypeOK
  <2>5. data = disk
    <3>1. \A b \in Blocks : data[b] = disk[b]
      BY <1>1 DEF LogInv, Copied, Pending
    <3>2. QED
      BY <3>1 DEF TypeOK
  <2>6. QED
    BY <1>2, <2>1, <2>4, <2>5 DEF Unseen, View
<1>6. QED
  BY <1>3, <1>4, <1>5 DEF Recover

LEMMA InitIsInit ==
  ASSUME Init
  PROVE  Abstract!Init
<1>1. TypeOK /\ LogInv
  BY InitiallyInv
<1>2. Durable = disk
  BY <1>1, DurableIs, RestoresNothing DEF Init, TypeOK
<1>3. Committer = Nobody
  BY <1>1, CommitterIs DEF Init, Committing, LogInv
<1>4. InOp = { } /\ booting # "up" /\ disk \in [Blocks -> Contents]
  BY <1>1 DEF Init, InOp, TypeOK
<1>5. QED
  BY <1>2, <1>3, <1>4 DEF Abstract!Init

\* All or nothing, for every number of calls that overlap and every crash
\* and repeated recovery: begin_op(), a change with log_write(), end_op(),
\* the write of the header, the return of the end_op() that commits and a
\* crash are the steps of Transactions; all other steps change nothing that
\* a process can read or that a crash would leave.
THEOREM LogIsTransactional == Spec => ImplementsTransactions
<1>1. Init => Abstract!Init
  BY InitIsInit
<1>2. TypeOK /\ LogInv /\ TypeOK' /\ LogInv' /\ [Next]_vars
        => [Abstract!Next]_<<View, Durable, InOp, Committer>>
  <2> SUFFICES ASSUME TypeOK, LogInv, TypeOK', LogInv', [Next]_vars
               PROVE  Abstract!Next \/ Unseen
    BY DEF Unseen
  <2>1. ASSUME NEW p \in Procs, Call(p) \/ BeginOp(p) \/ EndOp(p)
        PROVE  Abstract!Next \/ Unseen
    BY <2>1, CallIsUnseen, BeginOpBegins, EndOpEnds DEF Abstract!Next
  <2>2. ASSUME NEW p \in Procs, Commits(p)
        PROVE  Abstract!Next \/ Unseen
    BY <2>2, WriteLogIsUnseen, WriteHeadCommits, InstallTransIsUnseen, ClearHeadIsUnseen,
       EndCommitReturns DEF Commits, Abstract!Next
  <2>3. ASSUME NEW p \in Procs, NEW b \in Blocks, LogWrite(p, b)
        PROVE  Abstract!Next \/ Unseen
    <3>1. Abstract!Write(p, b, ticket[p]) /\ ticket[p] \in Contents
      BY <2>3, LogWriteWrites DEF TypeOK
    <3>2. QED
      BY <3>1 DEF Abstract!Next
  <2>4. ASSUME UNCHANGED vars
        PROVE  Unseen
    BY <2>4 DEF vars, calls, buffers, ondisk, Unseen, View, Durable, InOp, Committer
  <2>5. CASE \E b \in Blocks : Recycle(b)
    BY <2>4, <2>5, RecycleChangesNothing
  <2>6. CASE Crash \/ Recover
    BY <2>6, CrashCrashes, RecoveryIsUnseen DEF Abstract!Next
  <2>7. QED
    BY <2>1, <2>2, <2>3, <2>4, <2>5, <2>6 DEF Next
<1>3. QED
  BY <1>1, <1>2, LogCorrect, PTL DEF Spec, ImplementsTransactions, Abstract!Spec, View
=============================================================================
