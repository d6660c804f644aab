---------------------------- MODULE FilesProofs ----------------------------
(***************************************************************************)
(* Proofs about Files, that is, pipes in the hands of processes: the       *)
(* references to files are counted right, an end of a pipe is open as long *)
(* as somebody has it, no wakeup is missed, and bytes come out as they     *)
(* went in.                                                                *)
(***************************************************************************)
EXTENDS Files, FiniteSetTheorems, FunctionTheorems, SequenceTheorems, WellFoundedInduction,
        TLAPS

Dimensions == PipeAssumption /\ FilesAssumption

-----------------------------------------------------------------------------
(* The invariant *)

\* Where a process works on a pipe: with the read end, with the write end, as
\* the one that closes an end, with pi->lock.
Reading == {"read", "reading", "sleep_nread"}
Writing == {"write", "writing", "sleep_nwrite"}
Closing(w) == IF w THEN {"close_write", "closing_write"} ELSE {"close_read", "closing_read"}
Locking == {"reading", "writing", "closing_read", "closing_write"}

\* Where a call holds no file.
Idle == {"user", "unused", "zombie", "alloc1", "return"} \cup Reading \cup Writing

\* A call holds two different files at most.
Short ==
  {<< >>} \cup {<<f>> : f \in FileSlots}
    \cup {<<x[1], x[2]>> : x \in {y \in FileSlots \X FileSlots : y[1] # y[2]}}

Typed == TypeOK /\ held \in [Procs -> Short]

\* The references that descriptors and calls have to a file.
InFds(o, f) == {x \in Procs \X Descriptors : o[x[1]][x[2]] = f}
InCalls(h, f) == {x \in Procs \X (1..2) : x[2] \in DOMAIN h[x[1]] /\ h[x[1]][x[2]] = f}
Counted ==
  \A f \in FileSlots :
    ftable[f].ref = Cardinality(InFds(ofile, f)) + Cardinality(InCalls(held, f))

\* A free file, and one that pipealloc() has not filled in yet.
FilesTyped ==
  \A f \in FileSlots :
    /\ ftable[f].ref = 0 => ftable[f].type = "FD_NONE"
    /\ ftable[f].type = "FD_NONE" => ftable[f].ref <= 1

\* What a call holds, and the descriptors of a process.
Holds(p) ==
  /\ pc[p] \in Idle => held[p] = << >>
  /\ pc[p] = "alloc2" => \E f \in FileSlots : held[p] = <<f>>
  /\ pc[p] = "alloc_page" => \E f, g \in FileSlots : f # g /\ held[p] = <<f, g>>
  /\ pc[p] \in {"alloc2", "alloc_page"} =>
       \A k \in DOMAIN held[p] : ftable[held[p][k]].type = "FD_NONE"
Has(p) ==
  /\ \A fd \in Descriptors :
       ofile[p][fd] # NoFile => ftable[ofile[p][fd]].type = "FD_PIPE"
  /\ pc[p] = "unused" => \A fd \in Descriptors : ofile[p][fd] = NoFile

\* An end of a pipe is open exactly if one file stands for it or one process
\* closes it.
IsEnd(f, pi, w) == ftable[f].type = "FD_PIPE" /\ ftable[f].pipe = pi /\ ftable[f].writable = w
Closes(p, pi, w) == cur[p] = pi /\ pc[p] \in Closing(w)
IsOpen(pi, w) == IF w THEN pipes[pi].writeopen ELSE pipes[pi].readopen
OneEach(pi, w) ==
  /\ \A f, g \in FileSlots : IsEnd(f, pi, w) /\ IsEnd(g, pi, w) => f = g
  /\ \A p, q \in Procs : Closes(p, pi, w) /\ Closes(q, pi, w) => p = q
  /\ \A f \in FileSlots, p \in Procs : ~(IsEnd(f, pi, w) /\ Closes(p, pi, w))
  /\ IsOpen(pi, w) <=> (\E f \in FileSlots : IsEnd(f, pi, w)) \/ \E p \in Procs : Closes(p, pi, w)
Ends == \A pi \in Pipes : OneEach(pi, FALSE) /\ OneEach(pi, TRUE)

\* A pipe has its page as long as an end is open, or the last to close one
\* has still to free it.
Frees(p, pi) == cur[p] = pi /\ pc[p] = "kfree"
Page(pi) ==
  /\ pipes[pi].page <=>
       pipes[pi].readopen \/ pipes[pi].writeopen \/ \E p \in Procs : Frees(p, pi)
  /\ \A p \in Procs : Frees(p, pi) => ~pipes[pi].readopen /\ ~pipes[pi].writeopen
  /\ \A p, q \in Procs : Frees(p, pi) /\ Frees(q, pi) => p = q

\* Who reads or writes has a descriptor for it.
Uses(p, w) == \E fd \in Descriptors :
  ofile[p][fd] # NoFile /\ ftable[ofile[p][fd]].pipe = cur[p]
    /\ ftable[ofile[p][fd]].writable = w
Works(p) ==
  /\ pc[p] \in Reading => Uses(p, FALSE) /\ left[p] > 0
  /\ pc[p] \in Writing => Uses(p, TRUE)

LocksHeld ==
  \A p \in Procs, pi \in Pipes : pipes[pi].lock = p <=> pc[p] \in Locking /\ cur[p] = pi

\* Whoever sleeps does so for a reason; the one who keeps a reader from its
\* bytes has the lock and is about to wake it.
Sleeps(p) ==
  LET pi == cur[p] IN
  /\ pc[p] = "sleep_nread" =>
       /\ pipes[pi].writeopen
       /\ Count(pi) = 0 \/ pi \in gaveup
            \/ \E q \in Procs : pc[q] = "writing" /\ cur[q] = pi
  /\ pc[p] = "sleep_nwrite" => pipes[pi].readopen /\ Full(pi)

FilesInv ==
  /\ Typed /\ Counted /\ FilesTyped /\ Ends /\ LocksHeld
  /\ \A pi \in Pipes : Page(pi)
  /\ \A p \in Procs : Holds(p) /\ Has(p) /\ Works(p) /\ Sleeps(p)

-----------------------------------------------------------------------------
(* The operators *)

LEMMA Least ==
  ASSUME NEW T \in SUBSET Nat, T # {}
  PROVE  First(T) \in T
<1> DEFINE R == {ss \in Nat \X Nat : ss[1] < ss[2]}
<1>1. IsWellFoundedOn(R, Nat)
  BY NatLessThanWellFounded DEF OpToRel
<1>2. \A x, y \in Nat : <<x, y>> \in R <=> x < y
  OBVIOUS
<1> HIDE DEF R
<1>3. PICK x \in T : \A y \in T : ~(<<y, x>> \in R)
  BY <1>1, WFMin
<1>4. \A y \in T : x \in Nat /\ y \in Nat /\ ~(y < x)
  BY <1>2, <1>3
<1>5. \A y \in T : x <= y
  BY <1>4
<1>6. QED
  BY <1>5 DEF First

\* The first free file and page, and the first descriptors.
LEMMA FirstOnes ==
  ASSUME Dimensions
  PROVE  /\ FreeFiles # {} => First(FreeFiles) \in FreeFiles
         /\ FreePages # {} => First(FreePages) \in FreePages
         /\ \A p \in Procs, T \in SUBSET Descriptors : T # {} => First(T) \in T
<1>1. FreeFiles \subseteq Nat /\ FreePages \subseteq Nat
  BY DEF Dimensions, FilesAssumption, PipeAssumption, FreeFiles, FreePages, FileSlots, Pipes
<1>2. Descriptors \subseteq Nat
  BY DEF Dimensions, FilesAssumption, Descriptors
<1>3. QED
  BY <1>1, <1>2, Least

LEMMA Finite ==
  ASSUME Dimensions
  PROVE  /\ IsFiniteSet(Procs \X Descriptors) /\ IsFiniteSet(Procs \X (1..2))
         /\ IsFiniteSet(Descriptors)
<1>1. NPROC \in Int /\ NOFILE - 1 \in Int /\ 0 \in Int /\ 1 \in Int /\ 2 \in Int
  BY DEF Dimensions, PipeAssumption, FilesAssumption
<1>2. IsFiniteSet(1..NPROC) /\ IsFiniteSet(0..(NOFILE - 1)) /\ IsFiniteSet(1..2)
  BY <1>1, FS_Interval
<1>3. QED
  BY <1>2, FS_Product DEF Procs, Descriptors

LEMMA RefsFinite ==
  ASSUME Dimensions, NEW o, NEW f
  PROVE  /\ IsFiniteSet(InFds(o, f)) /\ Cardinality(InFds(o, f)) \in Nat
         /\ IsFiniteSet(InCalls(o, f)) /\ Cardinality(InCalls(o, f)) \in Nat
<1>1. IsFiniteSet(InFds(o, f)) /\ IsFiniteSet(InCalls(o, f))
  BY Finite, FS_Subset DEF InFds, InCalls
<1>2. QED
  BY <1>1, FS_CardinalityType

\* A descriptor is set.
Here(o, p, fd, f) == IF o[p][fd] = f THEN 1 ELSE 0
SetsFd(o, o2, p, fd) ==
  \A q \in Procs, d \in Descriptors : <<q, d>> # <<p, fd>> => o2[q][d] = o[q][d]

LEMMA FdCount ==
  ASSUME Dimensions, NEW o, NEW o2, NEW p \in Procs, NEW fd \in Descriptors, NEW f,
         SetsFd(o, o2, p, fd)
  PROVE  Cardinality(InFds(o2, f)) + Here(o, p, fd, f)
           = Cardinality(InFds(o, f)) + Here(o2, p, fd, f)
<1> DEFINE A == InFds(o, f)
           B == InFds(o2, f)
           x == <<p, fd>>
<1>1. IsFiniteSet(A) /\ IsFiniteSet(B) /\ Cardinality(A) \in Nat /\ Cardinality(B) \in Nat
  BY RefsFinite
<1>2. x \in A <=> o[p][fd] = f
  BY DEF InFds
<1>3. x \in B <=> o2[p][fd] = f
  BY DEF InFds
<1>4. A \ {x} = B \ {x}
  <2>1. \A y \in Procs \X Descriptors : y # x => (y \in A <=> y \in B)
    BY DEF InFds, SetsFd
  <2>2. A \subseteq Procs \X Descriptors /\ B \subseteq Procs \X Descriptors
    BY DEF InFds
  <2>3. QED
    BY <2>1, <2>2
<1> HIDE DEF A, B, x
<1>5. /\ Cardinality(A \ {x}) = IF x \in A THEN Cardinality(A) - 1 ELSE Cardinality(A)
      /\ Cardinality(B \ {x}) = IF x \in B THEN Cardinality(B) - 1 ELSE Cardinality(B)
  BY <1>1, FS_RemoveElement
<1>6. PICK a \in Int, b \in Int : a = Cardinality(A) /\ b = Cardinality(B)
  BY <1>1
<1>7. (IF x \in A THEN a - 1 ELSE a) = (IF x \in B THEN b - 1 ELSE b)
  BY <1>4, <1>5, <1>6
<1>8. b + (IF x \in A THEN 1 ELSE 0) = a + (IF x \in B THEN 1 ELSE 0)
  BY <1>7
<1>9. QED
  BY <1>2, <1>3, <1>6, <1>8 DEF A, B, Here

\* What a call holds.
In(s, f) == IF \E k \in DOMAIN s : s[k] = f THEN 1 ELSE 0
Own(p, s, f) == {x \in {p} \X (1..2) : x[2] \in DOMAIN s /\ s[x[2]] = f}

LEMMA ShortIs ==
  ASSUME NEW s \in Short
  PROVE  \/ s = << >>
         \/ \E f \in FileSlots : s = <<f>>
         \/ \E f, g \in FileSlots : f # g /\ s = <<f, g>>
<1>1. CASE s \in {<<x[1], x[2]>> : x \in {y \in FileSlots \X FileSlots : y[1] # y[2]}}
  BY <1>1
<1>2. QED
  BY <1>1 DEF Short

LEMMA Pairs ==
  ASSUME NEW f \in FileSlots, NEW g \in FileSlots, f # g
  PROVE  <<f, g>> \in Short
<1>1. <<f, g>> \in {y \in FileSlots \X FileSlots : y[1] # y[2]}
  OBVIOUS
<1>2. <<f, g>> = <<<<f, g>>[1], <<f, g>>[2]>>
  OBVIOUS
<1>3. <<f, g>> \in {<<x[1], x[2]>> : x \in {y \in FileSlots \X FileSlots : y[1] # y[2]}}
  BY <1>1, <1>2
<1>4. QED
  BY <1>3 DEF Short

LEMMA Appended ==
  ASSUME NEW f, NEW g
  PROVE  Append(<<f>>, g) = <<f, g>>
<1>1. <<f>> \in Seq({f, g}) /\ Len(<<f>>) = 1 /\ <<f>>[1] = f
  OBVIOUS
<1>2. /\ Append(<<f>>, g) \in Seq({f, g}) /\ Len(Append(<<f>>, g)) = 2
      /\ Append(<<f>>, g)[1] = f /\ Append(<<f>>, g)[2] = g
  BY <1>1, AppendProperties
<1>3. \A s \in Seq({f, g}) : Len(s) = 2 /\ s[1] = f /\ s[2] = g => s = <<f, g>>
  OBVIOUS
<1>4. QED
  BY <1>2, <1>3

LEMMA InShort ==
  ASSUME NEW f
  PROVE  /\ In(<< >>, f) = 0
         /\ \A x : In(<<x>>, f) = IF x = f THEN 1 ELSE 0
         /\ \A x, y : In(<<x, y>>, f) = IF x = f \/ y = f THEN 1 ELSE 0
<1>1. In(<< >>, f) = 0
  BY DEF In
<1>2. ASSUME NEW x PROVE In(<<x>>, f) = IF x = f THEN 1 ELSE 0
  <2>1. DOMAIN <<x>> = {1} /\ <<x>>[1] = x
    OBVIOUS
  <2>2. QED
    BY <2>1 DEF In
<1>3. ASSUME NEW x, NEW y PROVE In(<<x, y>>, f) = IF x = f \/ y = f THEN 1 ELSE 0
  <2>1. DOMAIN <<x, y>> = {1, 2} /\ <<x, y>>[1] = x /\ <<x, y>>[2] = y
    OBVIOUS
  <2>2. QED
    BY <2>1 DEF In
<1>4. QED
  BY <1>1, <1>2, <1>3

LEMMA Mine ==
  ASSUME NEW s \in Short, NEW p, NEW f
  PROVE  IsFiniteSet(Own(p, s, f)) /\ Cardinality(Own(p, s, f)) = In(s, f)
<1> DEFINE M == Own(p, s, f)
<1> USE DEF Own
<1>1. CASE \E k \in DOMAIN s : s[k] = f
  <2>1. PICK k \in DOMAIN s : s[k] = f
    BY <1>1
  <2>2. k \in 1..2 /\ \A j \in DOMAIN s : s[j] = f => j = k
    BY <2>1, ShortIs
  <2>3. M = {<<p, k>>}
    BY <2>1, <2>2
  <2>4. QED
    BY <1>1, <2>3, FS_Singleton DEF In
<1>2. CASE ~\E k \in DOMAIN s : s[k] = f
  <2>1. M = {}
    BY <1>2
  <2>2. QED
    BY <1>2, <2>1, FS_EmptySet DEF In
<1>3. QED
  BY <1>1, <1>2

SetsCall(h, h2, p) ==
  /\ h[p] \in Short /\ h2[p] \in Short
  /\ \A q \in Procs : q # p => h2[q] = h[q]

LEMMA CallCount ==
  ASSUME Dimensions, NEW h, NEW h2, NEW p \in Procs, NEW f, SetsCall(h, h2, p)
  PROVE  Cardinality(InCalls(h2, f)) + In(h[p], f) = Cardinality(InCalls(h, f)) + In(h2[p], f)
<1> DEFINE M(s) == Own(p, s, f)
           R == {x \in InCalls(h, f) : x[1] # p}
<1>0. h[p] \in Short /\ h2[p] \in Short /\ \A q \in Procs : q # p => h2[q] = h[q]
  BY DEF SetsCall
<1>1. IsFiniteSet(R) /\ Cardinality(R) \in Nat
  <2>1. IsFiniteSet(R)
    BY RefsFinite, FS_Subset
  <2>2. QED
    BY <2>1, FS_CardinalityType
<1>2. InCalls(h, f) = R \cup M(h[p])
  BY DEF InCalls, Own
<1>3. InCalls(h2, f) = R \cup M(h2[p])
  BY <1>0 DEF InCalls, Own
<1>4. R \cap M(h[p]) = {} /\ R \cap M(h2[p]) = {}
  BY DEF Own
<1>5. /\ IsFiniteSet(M(h[p])) /\ Cardinality(M(h[p])) = In(h[p], f)
      /\ IsFiniteSet(M(h2[p])) /\ Cardinality(M(h2[p])) = In(h2[p], f)
  BY <1>0, Mine
<1>6. In(h[p], f) \in Nat /\ In(h2[p], f) \in Nat
  BY DEF In
<1> HIDE DEF M, R
<1>7. /\ Cardinality(R \cup M(h[p])) = Cardinality(R) + In(h[p], f) - Cardinality({})
      /\ Cardinality(R \cup M(h2[p])) = Cardinality(R) + In(h2[p], f) - Cardinality({})
  BY <1>1, <1>4, <1>5, FS_Union
<1>8. Cardinality({}) = 0
  BY FS_EmptySet
<1>9. QED
  BY <1>1, <1>2, <1>3, <1>6, <1>7, <1>8

\* A process gets the descriptors of another.
Copied(o, o2, p, np) ==
  /\ \A d \in Descriptors : o[np][d] = NoFile /\ o2[np][d] = o[p][d]
  /\ \A q \in Procs : q # np => o2[q] = o[q]
Fds(o, p, f) == {fd \in Descriptors : o[p][fd] = f}

LEMMA ForkCount ==
  ASSUME Dimensions, NEW o, NEW o2, NEW p \in Procs, NEW np \in Procs, NEW f \in FileSlots,
         Copied(o, o2, p, np)
  PROVE  Cardinality(InFds(o2, f))
           = Cardinality(InFds(o, f)) + Cardinality(Fds(o, p, f))
<1> DEFINE A == InFds(o, f)
           B == Fds(o, p, f)
           M == {np} \X B
<1>0. f # NoFile
  BY DEF FileSlots, NoFile, Dimensions, FilesAssumption
<1>1. InFds(o2, f) = A \cup M
  BY <1>0 DEF InFds, Fds, Copied
<1>2. A \cap M = {}
  BY <1>0 DEF InFds, Fds, Copied
<1>3. IsFiniteSet(A) /\ Cardinality(A) \in Nat
  BY RefsFinite
<1>4. IsFiniteSet(B) /\ Cardinality(B) \in Nat
  <2>1. IsFiniteSet(B)
    BY Finite, FS_Subset DEF Fds
  <2>2. QED
    BY <2>1, FS_CardinalityType
<1> HIDE DEF A, B
<1>5. IsFiniteSet({np}) /\ Cardinality({np}) = 1
  BY FS_Singleton
<1>6. IsFiniteSet(M) /\ Cardinality(M) = 1 * Cardinality(B)
  BY <1>4, <1>5, FS_Product
<1> HIDE DEF M
<1>7. Cardinality(A \cup M) = Cardinality(A) + Cardinality(M) - Cardinality({})
  BY <1>2, <1>3, <1>6, FS_Union
<1>8. Cardinality({}) = 0
  BY FS_EmptySet
<1>9. QED
  BY <1>1, <1>3, <1>4, <1>6, <1>7, <1>8 DEF A, B

\* Whoever has a reference to a file is counted; one reference is nobody
\* else's.
LEMMA Referenced ==
  ASSUME Dimensions, NEW o, NEW h, NEW f, NEW r,
         r = Cardinality(InFds(o, f)) + Cardinality(InCalls(h, f))
  PROVE  /\ r \in Nat
         /\ InFds(o, f) # {} \/ InCalls(h, f) # {} => r >= 1
         /\ r <= 1 =>
              /\ \A x, y \in InFds(o, f) : x = y
              /\ \A x, y \in InCalls(h, f) : x = y
              /\ InFds(o, f) = {} \/ InCalls(h, f) = {}
         /\ r = 0 => InFds(o, f) = {} /\ InCalls(h, f) = {}
<1> DEFINE A == InFds(o, f)
           B == InCalls(h, f)
<1>1. /\ IsFiniteSet(A) /\ Cardinality(A) \in Nat
      /\ IsFiniteSet(B) /\ Cardinality(B) \in Nat
  BY RefsFinite
<1> HIDE DEF A, B
<1>2. (Cardinality(A) = 0 <=> A = {}) /\ (Cardinality(B) = 0 <=> B = {})
  BY <1>1, FS_EmptySet
<1>3. (Cardinality(A) = 1 <=> \E x : A = {x}) /\ (Cardinality(B) = 1 <=> \E x : B = {x})
  BY <1>1, FS_Singleton
<1>4. PICK a \in Nat, b \in Nat : a = Cardinality(A) /\ b = Cardinality(B)
  BY <1>1
<1>5. r = a + b
  BY <1>4 DEF A, B
<1>6. r <= 1 => a = 0 \/ b = 0
  BY <1>5
<1>7. r <= 1 => (a = 0 \/ a = 1) /\ (b = 0 \/ b = 1)
  BY <1>5
<1>8. \A x, y \in A : r <= 1 => x = y
  BY <1>2, <1>3, <1>4, <1>7
<1>9. \A x, y \in B : r <= 1 => x = y
  BY <1>2, <1>3, <1>4, <1>7
<1>10. r <= 1 => A = {} \/ B = {}
  BY <1>2, <1>4, <1>6
<1>11. r \in Nat /\ (A # {} \/ B # {} => r >= 1) /\ (r = 0 => A = {} /\ B = {})
  <2>1. r \in Nat
    BY <1>5
  <2>2. A # {} => a # 0
    BY <1>2, <1>4
  <2>3. B # {} => b # 0
    BY <1>2, <1>4
  <2>4. r = 0 => a = 0 /\ b = 0
    BY <1>5
  <2>5. a # 0 \/ b # 0 => r >= 1
    BY <1>5
  <2>6. r = 0 => A = {} /\ B = {}
    BY <1>2, <1>4, <2>4
  <2>7. QED
    BY <2>1, <2>2, <2>3, <2>5, <2>6
<1>12. QED
  BY <1>8, <1>9, <1>10, <1>11 DEF A, B

\* Unsigned arithmetic stays in range.
LEMMA Unsigned ==
  ASSUME Dimensions
  PROVE  /\ \A n, k \in Nat : Inc(n, k) \in 0..(WORD - 1)
         /\ \A n \in Nat : n % PIPESIZE \in 0..(PIPESIZE - 1)
         /\ \A m, n \in Nat : (m - n) % WORD \in 0..(WORD - 1)
<1>1. WORD \in Nat \ {0} /\ PIPESIZE \in Nat \ {0}
  BY DEF Dimensions, PipeAssumption
<1>2. \A n \in Int, d \in Nat \ {0} : n % d \in 0..(d - 1)
  OBVIOUS
<1>3. \A n, k \in Nat : n + k \in Int /\ n - k \in Int
  OBVIOUS
<1>4. QED
  BY <1>1, <1>2, <1>3 DEF Inc

-----------------------------------------------------------------------------
(* What stays *)

\* Nobody opens or closes an end.
SameEnds ==
  /\ \A f \in FileSlots :
       /\ ftable'[f].type = ftable[f].type /\ ftable'[f].pipe = ftable[f].pipe
       /\ ftable'[f].writable = ftable[f].writable
  /\ \A pi \in Pipes :
       /\ pipes'[pi].page = pipes[pi].page /\ pipes'[pi].readopen = pipes[pi].readopen
       /\ pipes'[pi].writeopen = pipes[pi].writeopen
SameRole(p) ==
  /\ \A w \in BOOLEAN : pc'[p] \in Closing(w) <=> pc[p] \in Closing(w)
  /\ pc'[p] = "kfree" <=> pc[p] = "kfree"
  /\ pc[p] \in Closing(FALSE) \cup Closing(TRUE) \cup {"kfree"} => cur'[p] = cur[p]

LEMMA EndsStay ==
  ASSUME Ends, \A pi \in Pipes : Page(pi), SameEnds, \A p \in Procs : SameRole(p)
  PROVE  Ends' /\ \A pi \in Pipes : Page(pi)'
<1>1. \A f \in FileSlots, pi \in Pipes, w \in BOOLEAN : IsEnd(f, pi, w)' <=> IsEnd(f, pi, w)
  BY DEF SameEnds, IsEnd
<1>2. \A p \in Procs, pi \in Pipes, w \in BOOLEAN : Closes(p, pi, w)' <=> Closes(p, pi, w)
  BY DEF SameRole, Closes
<1>3. \A p \in Procs, pi \in Pipes : Frees(p, pi)' <=> Frees(p, pi)
  BY DEF SameRole, Frees
<1>4. \A pi \in Pipes, w \in BOOLEAN : IsOpen(pi, w)' = IsOpen(pi, w)
  BY DEF SameEnds, IsOpen
<1>5. \A pi \in Pipes, w \in BOOLEAN : OneEach(pi, w) => OneEach(pi, w)'
  BY <1>1, <1>2, <1>4 DEF OneEach
<1>6. Ends'
  BY <1>5 DEF Ends
<1>7. \A pi \in Pipes : Page(pi)'
  BY <1>3 DEF Page, SameEnds
<1>8. QED
  BY <1>6, <1>7

\* A handler of pipe.c moves bytes: who works on a pipe goes on with it or
\* returns, and who closes an end goes on closing it.
Continues(p) ==
  \/ pc'[p] = pc[p]
  \/ pc[p] \in Reading /\ pc'[p] \in Reading \cup {"return"}
  \/ pc[p] \in Writing /\ pc'[p] \in Writing \cup {"return"}
  \/ pc[p] = "close_read" /\ pc'[p] = "closing_read"
  \/ pc[p] = "close_write" /\ pc'[p] = "closing_write"

LEMMA HandlerKeeps ==
  ASSUME FilesInv, TypeOK', UNCHANGED <<cur, ftable, ofile, held>>, SameEnds,
         \A p \in Procs : Continues(p) /\ (pc'[p] \in Reading => left'[p] = left[p]),
         LocksHeld', \A p \in Procs : Sleeps(p)'
  PROVE  FilesInv'
<1> USE DEF FilesInv, Continues, Reading, Writing
<1>1. Typed' /\ Counted' /\ FilesTyped'
  BY DEF Typed, Counted, FilesTyped
<1>2. \A p \in Procs : SameRole(p)
  BY DEF SameRole, Closing
<1>3. Ends' /\ \A pi \in Pipes : Page(pi)'
  BY <1>2, EndsStay
<1>4. \A p \in Procs : Holds(p)'
  BY DEF Holds, Idle
<1>5. \A p \in Procs : Has(p)'
  BY DEF Has
<1>6. \A p \in Procs : Works(p)'
  BY DEF Works, Uses
<1>7. QED
  BY <1>1, <1>3, <1>4, <1>5, <1>6

-----------------------------------------------------------------------------
(* pipewrite() and piperead() *)

PipeRecords ==
  [page : BOOLEAN, lock : 0..NPROC, readopen : BOOLEAN, writeopen : BOOLEAN,
   nread : 0..(WORD - 1), nwrite : 0..(WORD - 1), data : [0..(PIPESIZE - 1) -> Bytes]]

\* The pipe of one process changes.
OnPipe(pi, rec) == pipes' = [pipes EXCEPT ![pi] = rec]

LEMMA PipeChanges ==
  ASSUME FilesInv, NEW pi \in Pipes, NEW rec \in PipeRecords, OnPipe(pi, rec)
  PROVE  /\ pipes' \in [Pipes -> PipeRecords]
         /\ pipes'[pi] = rec
         /\ \A qi \in Pipes : qi # pi => pipes'[qi] = pipes[qi]
<1>1. pipes \in [Pipes -> PipeRecords]
  BY DEF FilesInv, Typed, TypeOK, PipeRecords
<1>2. QED
  BY <1>1 DEF OnPipe

\* What a handler may do to a pipe.
LEMMA FieldsOf ==
  ASSUME Dimensions, NEW rec \in PipeRecords
  PROVE  /\ \A l \in 0..NPROC : [rec EXCEPT !.lock = l] \in PipeRecords
         /\ \A n \in 0..(WORD - 1), l \in 0..NPROC :
              [rec EXCEPT !.nread = n, !.lock = l] \in PipeRecords
         /\ \A n \in 0..(WORD - 1), d \in [0..(PIPESIZE - 1) -> Bytes] :
              [rec EXCEPT !.data = d, !.nwrite = n] \in PipeRecords
         /\ \A b \in BOOLEAN, l \in 0..NPROC :
              /\ [rec EXCEPT !.readopen = b, !.lock = l] \in PipeRecords
              /\ [rec EXCEPT !.writeopen = b, !.lock = l] \in PipeRecords
<1> USE DEF PipeRecords
<1>1. \A l \in 0..NPROC : [rec EXCEPT !.lock = l] \in PipeRecords
  OBVIOUS
<1>2. \A n \in 0..(WORD - 1), l \in 0..NPROC : [rec EXCEPT !.nread = n, !.lock = l] \in PipeRecords
  OBVIOUS
<1>3. \A n \in 0..(WORD - 1), d \in [0..(PIPESIZE - 1) -> Bytes] :
        [rec EXCEPT !.data = d, !.nwrite = n] \in PipeRecords
  OBVIOUS
<1>4. \A b \in BOOLEAN, l \in 0..NPROC :
        /\ [rec EXCEPT !.readopen = b, !.lock = l] \in PipeRecords
        /\ [rec EXCEPT !.writeopen = b, !.lock = l] \in PipeRecords
  OBVIOUS
<1>5. QED
  BY <1>1, <1>2, <1>3, <1>4

\* Everybody works on a pipe that there is.
LEMMA Basics ==
  ASSUME Dimensions, FilesInv
  PROVE  /\ \A p \in Procs : cur[p] \in Pipes /\ pc[p] \in Steps /\ left[p] \in 0..MaxN
         /\ \A p \in Procs : p # 0 /\ p \in 0..NPROC
         /\ \A pi \in Pipes : /\ pipes[pi].lock \in 0..NPROC
                              /\ pipes[pi].nread \in Nat /\ pipes[pi].nwrite \in Nat
                              /\ pipes[pi] \in PipeRecords
         /\ 0 \in 0..NPROC
BY DEF FilesInv, Typed, TypeOK, Dimensions, PipeAssumption, Procs, PipeRecords

LEMMA StepNames ==
  /\ {"sleep_nread", "sleep_nwrite", "read", "write", "close_read", "close_write", "unused",
      "user", "alloc1", "alloc2", "alloc_page", "return", "reading", "writing",
      "closing_read", "closing_write", "kfree", "close", "zombie"} = Steps
  /\ Sleeping = {"sleep_nread", "sleep_nwrite"}
  /\ DOMAIN Locked = {"read", "write", "close_read", "close_write"}
BY DEF Steps, Sleeping, Woken, Locked

LEMMA AcquireKeeps ==
  ASSUME Dimensions, FilesInv, NEW p \in Procs, AcquirePipe(p),
         UNCHANGED <<ftable, ofile, held, leaving, script, kills>>
  PROVE  FilesInv'
<1> USE Basics DEF AcquirePipe, Goto, thread
<1>1. /\ pc[p] \in {"read", "write", "close_read", "close_write"}
      /\ pc'[p] = Locked[pc[p]] /\ pc'[p] \in Locking
      /\ pc[p] = "read" => pc'[p] = "reading"
      /\ pc[p] = "write" => pc'[p] = "writing"
      /\ pc[p] = "close_read" => pc'[p] = "closing_read"
      /\ pc[p] = "close_write" => pc'[p] = "closing_write"
      /\ \A q \in Procs : q # p => pc'[q] = pc[q]
      /\ pc' \in [Procs -> Steps]
  BY DEF Locked, FilesInv, Typed, TypeOK, Locking, Steps
<1>2. /\ \A pi \in Pipes : pi # cur[p] => pipes'[pi] = pipes[pi]
      /\ pipes'[cur[p]] = [pipes[cur[p]] EXCEPT !.lock = p]
      /\ pipes[cur[p]].lock = 0
      /\ pipes' \in [Pipes -> PipeRecords]
  <2>1. [pipes[cur[p]] EXCEPT !.lock = p] \in PipeRecords
    BY FieldsOf
  <2>2. OnPipe(cur[p], [pipes[cur[p]] EXCEPT !.lock = p])
    BY DEF OnPipe
  <2>3. QED
    BY <2>1, <2>2, PipeChanges
<1>3. TypeOK'
  BY <1>1, <1>2 DEF FilesInv, Typed, TypeOK, PipeRecords
<1>4. SameEnds
  BY <1>2 DEF SameEnds
<1>5. \A q \in Procs : Continues(q) /\ (pc'[q] \in Reading => left'[q] = left[q])
  BY <1>1 DEF Continues, Reading, Writing
<1>6. LocksHeld'
  BY <1>1, <1>2 DEF FilesInv, LocksHeld, Locking
<1>7. \A pi \in Pipes : Count(pi)' = Count(pi) /\ Full(pi)' = Full(pi)
  BY <1>2 DEF Count, Full
<1>8. \A q \in Procs : Sleeps(q)'
  <2>1. SUFFICES ASSUME NEW q \in Procs PROVE Sleeps(q)'
    OBVIOUS
  <2>2. Sleeps(q)
    BY DEF FilesInv
  <2>3. \A s \in Procs : pc[s] = "writing" => pc'[s] = "writing"
    BY <1>1
  <2>4. pc'[q] \in {"sleep_nread", "sleep_nwrite"} => pc'[q] = pc[q]
    BY <1>1
  <2>5. QED
    BY <1>2, <1>7, <2>2, <2>3, <2>4 DEF Sleeps
<1>9. QED
  BY <1>3, <1>4, <1>5, <1>6, <1>8, HandlerKeeps

\* The end of a critical section that opens and closes nothing.
LEMMA ReleaseKeeps ==
  ASSUME Dimensions, FilesInv, NEW p \in Procs, pc[p] \in {"reading", "writing"},
         NEW rec \in PipeRecords, OnPipe(cur[p], rec), rec.lock = 0,
         rec.page = pipes[cur[p]].page, rec.readopen = pipes[cur[p]].readopen,
         rec.writeopen = pipes[cur[p]].writeopen,
         UNCHANGED <<cur, left, killed, ftable, ofile, held, leaving>>,
         gaveup' \subseteq Pipes, pc' \in [Procs -> Steps],
         pc'[p] = "return" \/ pc'[p] = (IF pc[p] = "reading" THEN "sleep_nread" ELSE "sleep_nwrite"),
         \A q \in Procs \ {p} :
           \/ pc'[q] = pc[q]
           \/ pc[q] = "sleep_nread" /\ pc'[q] = "read"
           \/ pc[q] = "sleep_nwrite" /\ pc'[q] = "write",
         \A q \in Procs : Sleeps(q)'
  PROVE  FilesInv'
<1>1. /\ pipes' \in [Pipes -> PipeRecords]
      /\ pipes'[cur[p]] = rec
      /\ \A qi \in Pipes : qi # cur[p] => pipes'[qi] = pipes[qi]
  BY Basics, PipeChanges
<1>2. TypeOK'
  BY <1>1 DEF FilesInv, Typed, TypeOK, PipeRecords
<1>3. SameEnds
  BY <1>1 DEF SameEnds
<1>4. \A q \in Procs : Continues(q) /\ (pc'[q] \in Reading => left'[q] = left[q])
  BY DEF Continues, Reading, Writing
<1>5. pipes[cur[p]].lock = p /\ \A q \in Procs : q # p => pipes[cur[p]].lock # q
  BY Basics DEF FilesInv, LocksHeld, Locking
<1>6. LocksHeld'
  <2>1. SUFFICES ASSUME NEW q \in Procs, NEW pi \in Pipes
                 PROVE  pipes'[pi].lock = q <=> pc'[q] \in Locking /\ cur'[q] = pi
    BY DEF LocksHeld
  <2>2. pipes[pi].lock = q <=> pc[q] \in Locking /\ cur[q] = pi
    BY DEF FilesInv, LocksHeld
  <2>3. CASE pi = cur[p]
    BY <1>1, <1>5, <2>2, <2>3, Basics DEF Locking
  <2>4. CASE pi # cur[p]
    BY <1>1, <2>2, <2>4, Basics DEF Locking
  <2>5. QED
    BY <2>3, <2>4
<1>7. QED
  BY <1>2, <1>3, <1>4, <1>6, HandlerKeeps

\* The one who has the lock is alone.
LEMMA LockHolder ==
  ASSUME Dimensions, FilesInv, NEW p \in Procs, pc[p] \in Locking
  PROVE  /\ pipes[cur[p]].lock = p
         /\ \A q \in Procs : pc[q] \in Locking /\ cur[q] = cur[p] => q = p
BY Basics DEF FilesInv, LocksHeld

LEMMA CountType ==
  ASSUME Dimensions, FilesInv, NEW pi \in Pipes
  PROVE  Count(pi) \in 0..(WORD - 1) /\ Count(pi) \in Nat
<1>1. WORD \in Nat
  BY DEF Dimensions, PipeAssumption
<1>2. PICK m \in Nat, n \in Nat : m = pipes[pi].nwrite /\ n = pipes[pi].nread
  BY Basics
<1>3. (m - n) % WORD \in 0..(WORD - 1)
  BY Unsigned
<1>4. Count(pi) \in 0..(WORD - 1)
  BY <1>2, <1>3 DEF Count
<1>5. QED
  BY <1>1, <1>4

LEMMA WriteGivesUpKeeps ==
  ASSUME Dimensions, FilesInv, NEW p \in Procs, WriteGivesUp(p),
         UNCHANGED <<ftable, ofile, held, leaving, script, kills>>
  PROVE  FilesInv'
<1> USE Basics DEF WriteGivesUp, Goto, Release, thread
<1> DEFINE rec == [pipes[cur[p]] EXCEPT !.lock = 0]
<1>1. rec \in PipeRecords /\ OnPipe(cur[p], rec)
  BY FieldsOf DEF OnPipe
<1>2. /\ pc' \in [Procs -> Steps] /\ pc'[p] = "return"
      /\ \A q \in Procs \ {p} : pc'[q] = pc[q]
  BY DEF FilesInv, Typed, TypeOK, Steps
<1>3. gaveup' \subseteq Pipes
  BY DEF FilesInv, Typed, TypeOK
<1>4. \A pi \in Pipes : Count(pi)' = Count(pi) /\ Full(pi)' = Full(pi)
                        /\ pipes'[pi].writeopen = pipes[pi].writeopen
                        /\ pipes'[pi].readopen = pipes[pi].readopen
  BY <1>1, PipeChanges DEF Count, Full
<1>5. \A q \in Procs : Sleeps(q)'
  <2>1. SUFFICES ASSUME NEW q \in Procs PROVE Sleeps(q)'
    OBVIOUS
  <2>2. (Sleeps(q) /\ q # p) \/ q = p
    BY DEF FilesInv
  <2>3. CASE q = p
    BY <1>2, <2>3 DEF Sleeps
  <2>4. CASE q # p /\ cur[q] = cur[p]
    <3>1. Count(cur[p]) > 0 => cur[p] \in gaveup'
      OBVIOUS
    <3>2. Count(cur[p]) \in Nat
      BY CountType
    <3>3. QED
      BY <1>2, <1>4, <2>2, <2>4, <3>1, <3>2 DEF Sleeps
  <2>5. CASE q # p /\ cur[q] # cur[p]
    <3>1. \A s \in Procs : pc[s] = "writing" /\ cur[s] = cur[q] => pc'[s] = "writing"
      BY <1>2, <2>5
    <3>2. QED
      BY <1>2, <1>4, <2>2, <2>5, <3>1 DEF Sleeps
  <2>6. QED
    BY <2>3, <2>4, <2>5
<1>6. rec.lock = 0 /\ rec.page = pipes[cur[p]].page /\ rec.readopen = pipes[cur[p]].readopen
      /\ rec.writeopen = pipes[cur[p]].writeopen
  BY DEF PipeRecords
<1> HIDE DEF rec
<1>7. QED
  BY <1>1, <1>2, <1>3, <1>5, <1>6, ReleaseKeeps

\* Who works on another pipe sleeps on.
LEMMA OthersSleep ==
  ASSUME FilesInv, NEW p \in Procs, UNCHANGED cur,
         \A pi \in Pipes \ {cur[p]} :
           pipes'[pi] = pipes[pi] /\ (pi \in gaveup' <=> pi \in gaveup),
         \A q \in Procs : cur[q] # cur[p] => pc'[q] = pc[q],
         NEW q \in Procs, cur[q] \in Pipes \ {cur[p]}
  PROVE  Sleeps(q)'
<1>1. Sleeps(q)
  BY DEF FilesInv
<1>2. Count(cur[q])' = Count(cur[q]) /\ Full(cur[q])' = Full(cur[q])
  BY DEF Count, Full
<1>3. QED
  BY <1>1, <1>2 DEF Sleeps

LEMMA WriteSleepsKeeps ==
  ASSUME Dimensions, FilesInv, NEW p \in Procs, WriteSleeps(p),
         UNCHANGED <<ftable, ofile, held, leaving, script, kills>>
  PROVE  FilesInv'
<1> USE Basics DEF WriteSleeps, WakeupAndGoto, Release, thread, Woken
<1> DEFINE rec == [pipes[cur[p]] EXCEPT !.lock = 0]
<1>1. rec \in PipeRecords /\ OnPipe(cur[p], rec)
  BY FieldsOf DEF OnPipe
<1>2. /\ pc' \in [Procs -> Steps] /\ pc'[p] = "sleep_nwrite"
      /\ \A q \in Procs \ {p} :
           pc'[q] = IF pc[q] = "sleep_nread" /\ cur[q] = cur[p] THEN "read" ELSE pc[q]
  BY StepNames
<1>3. gaveup' \subseteq Pipes
  BY DEF FilesInv, Typed, TypeOK
<1>4. /\ \A pi \in Pipes \ {cur[p]} : pipes'[pi] = pipes[pi]
      /\ Count(cur[p])' = Count(cur[p]) /\ Full(cur[p])' = Full(cur[p])
      /\ pipes'[cur[p]].readopen = pipes[cur[p]].readopen
  BY <1>1, PipeChanges DEF Count, Full
<1>5. \A q \in Procs : Sleeps(q)'
  <2>1. SUFFICES ASSUME NEW q \in Procs PROVE Sleeps(q)'
    OBVIOUS
  <2>2. Sleeps(q)
    BY DEF FilesInv
  <2>3. CASE q = p
    BY <1>2, <1>4, <2>3 DEF Sleeps, GivesUp
  <2>4. CASE q # p /\ cur[q] = cur[p]
    BY <1>2, <1>4, <2>2, <2>4 DEF Sleeps
  <2>5. CASE cur[q] # cur[p]
    BY <1>2, <1>4, <2>5, OthersSleep
  <2>6. QED
    BY <2>3, <2>4, <2>5
<1>6. rec.lock = 0 /\ rec.page = pipes[cur[p]].page /\ rec.readopen = pipes[cur[p]].readopen
      /\ rec.writeopen = pipes[cur[p]].writeopen
  BY DEF PipeRecords
<1> HIDE DEF rec
<1>7. QED
  BY <1>1, <1>2, <1>3, <1>5, <1>6, ReleaseKeeps

LEMMA WriteReturnsKeeps ==
  ASSUME Dimensions, FilesInv, NEW p \in Procs, WriteReturns(p),
         UNCHANGED <<ftable, ofile, held, leaving, script, kills>>
  PROVE  FilesInv'
<1> USE Basics DEF WriteReturns, WakeupAndGoto, Release, thread, Woken
<1> DEFINE rec == [pipes[cur[p]] EXCEPT !.lock = 0]
<1>1. rec \in PipeRecords /\ OnPipe(cur[p], rec)
  BY FieldsOf DEF OnPipe
<1>2. /\ pc' \in [Procs -> Steps] /\ pc'[p] = "return"
      /\ \A q \in Procs \ {p} :
           pc'[q] = IF pc[q] = "sleep_nread" /\ cur[q] = cur[p] THEN "read" ELSE pc[q]
  BY StepNames
<1>3. gaveup' \subseteq Pipes
  BY DEF FilesInv, Typed, TypeOK
<1>4. /\ \A pi \in Pipes \ {cur[p]} : pipes'[pi] = pipes[pi]
      /\ Count(cur[p])' = Count(cur[p]) /\ Full(cur[p])' = Full(cur[p])
      /\ pipes'[cur[p]].readopen = pipes[cur[p]].readopen
  BY <1>1, PipeChanges DEF Count, Full
<1>5. \A q \in Procs : Sleeps(q)'
  <2>1. SUFFICES ASSUME NEW q \in Procs PROVE Sleeps(q)'
    OBVIOUS
  <2>2. Sleeps(q)
    BY DEF FilesInv
  <2>3. CASE q = p
    BY <1>2, <2>3 DEF Sleeps
  <2>4. CASE q # p /\ cur[q] = cur[p]
    BY <1>2, <1>4, <2>2, <2>4 DEF Sleeps
  <2>5. CASE cur[q] # cur[p]
    BY <1>2, <1>4, <2>5, OthersSleep
  <2>6. QED
    BY <2>3, <2>4, <2>5
<1>6. rec.lock = 0 /\ rec.page = pipes[cur[p]].page /\ rec.readopen = pipes[cur[p]].readopen
      /\ rec.writeopen = pipes[cur[p]].writeopen
  BY DEF PipeRecords
<1> HIDE DEF rec
<1>7. QED
  BY <1>1, <1>2, <1>3, <1>5, <1>6, ReleaseKeeps

LEMMA ReadWaitsKeeps ==
  ASSUME Dimensions, FilesInv, NEW p \in Procs, ReadWaits(p),
         UNCHANGED <<ftable, ofile, held, leaving, script, kills>>
  PROVE  FilesInv'
<1> USE Basics DEF ReadWaits, Goto, Release, thread
<1> DEFINE rec == [pipes[cur[p]] EXCEPT !.lock = 0]
<1>1. rec \in PipeRecords /\ OnPipe(cur[p], rec)
  BY FieldsOf DEF OnPipe
<1>2. /\ pc' \in [Procs -> Steps] /\ pc'[p] \in {"return", "sleep_nread"}
      /\ \A q \in Procs \ {p} : pc'[q] = pc[q]
  BY StepNames DEF FilesInv, Typed, TypeOK
<1>3. gaveup' \subseteq Pipes
  BY DEF FilesInv, Typed, TypeOK
<1>4. /\ \A pi \in Pipes \ {cur[p]} : pipes'[pi] = pipes[pi]
      /\ Count(cur[p])' = Count(cur[p]) /\ Full(cur[p])' = Full(cur[p])
      /\ pipes'[cur[p]].readopen = pipes[cur[p]].readopen
      /\ pipes'[cur[p]].writeopen = pipes[cur[p]].writeopen
  BY <1>1, PipeChanges DEF Count, Full
<1>5. \A q \in Procs : Sleeps(q)'
  <2>1. SUFFICES ASSUME NEW q \in Procs PROVE Sleeps(q)'
    OBVIOUS
  <2>2. Sleeps(q)
    BY DEF FilesInv
  <2>3. CASE q = p
    BY <1>2, <1>4, <2>3 DEF Sleeps, MustWait
  <2>4. CASE q # p /\ cur[q] = cur[p]
    <3>1. \A s \in Procs : pc[s] = "writing" => pc'[s] = "writing"
      BY <1>2
    <3>2. QED
      BY <1>2, <1>4, <2>2, <2>4, <3>1 DEF Sleeps
  <2>5. CASE cur[q] # cur[p]
    BY <1>2, <1>4, <2>5, OthersSleep
  <2>6. QED
    BY <2>3, <2>4, <2>5
<1>6. rec.lock = 0 /\ rec.page = pipes[cur[p]].page /\ rec.readopen = pipes[cur[p]].readopen
      /\ rec.writeopen = pipes[cur[p]].writeopen
  BY DEF PipeRecords
<1> HIDE DEF rec
<1>7. QED
  BY <1>1, <1>2, <1>3, <1>5, <1>6, ReleaseKeeps

LEMMA ReadReturnsKeeps ==
  ASSUME Dimensions, FilesInv, NEW p \in Procs, ReadReturns(p),
         UNCHANGED <<ftable, ofile, held, leaving, script, kills>>
  PROVE  FilesInv'
<1> USE Basics
<1>1. PICK d \in Nat :
        /\ OnPipe(cur[p], [pipes[cur[p]] EXCEPT !.nread = Inc(pipes[cur[p]].nread, d), !.lock = 0])
        /\ Count(cur[p]) = 0 => d = 0
  <2> DEFINE most == IF Count(cur[p]) < left[p] THEN Count(cur[p]) ELSE left[p]
             Moves(d) == OnPipe(cur[p],
                 [pipes[cur[p]] EXCEPT !.nread = Inc(pipes[cur[p]].nread, d), !.lock = 0])
  <2>1. Count(cur[p]) \in Nat /\ left[p] \in Nat /\ most \in Nat /\ most <= Count(cur[p])
    BY CountType DEF Dimensions, PipeAssumption
  <2>2. Moves(most) \/ \E k \in 0..(most - 1) : Moves(k + 1)
    <3>1. CASE \E k \in 0..(most - 1) :
                 pipes' = [pipes EXCEPT ![cur[p]].nread = Inc(@, k + 1), ![cur[p]].lock = 0]
      BY <3>1 DEF OnPipe, FilesInv, Typed, TypeOK
    <3>2. CASE pipes' = [pipes EXCEPT ![cur[p]].nread = Inc(@, most), ![cur[p]].lock = 0]
      BY <3>2 DEF OnPipe, FilesInv, Typed, TypeOK
    <3>3. QED
      BY <3>1, <3>2 DEF ReadReturns
  <2>3. \A k \in 0..(most - 1) : k + 1 \in Nat /\ Count(cur[p]) # 0
    BY <2>1
  <2>4. most \in Nat /\ (Count(cur[p]) = 0 => most = 0)
    BY <2>1
  <2>5. QED
    BY <2>2, <2>3, <2>4
<1> DEFINE n == Inc(pipes[cur[p]].nread, d)
           rec == [pipes[cur[p]] EXCEPT !.nread = n, !.lock = 0]
<1>2. n \in 0..(WORD - 1)
  BY Unsigned
<1>3. rec \in PipeRecords /\ OnPipe(cur[p], rec)
  BY <1>1, <1>2, FieldsOf
<1>4. /\ pc' \in [Procs -> Steps] /\ pc'[p] = "return"
      /\ \A q \in Procs \ {p} :
           pc'[q] = IF pc[q] = "sleep_nwrite" /\ cur[q] = cur[p] THEN "write" ELSE pc[q]
  BY StepNames DEF ReadReturns, WakeupAndGoto, Woken
<1>5. pc[p] = "reading" /\ UNCHANGED <<cur, left, killed, gaveup>>
  BY DEF ReadReturns
<1>6. gaveup' \subseteq Pipes
  BY <1>5 DEF FilesInv, Typed, TypeOK
<1>7. /\ rec.lock = 0 /\ rec.page = pipes[cur[p]].page /\ rec.readopen = pipes[cur[p]].readopen
      /\ rec.writeopen = pipes[cur[p]].writeopen /\ rec.nwrite = pipes[cur[p]].nwrite
      /\ rec.nread = n
  BY DEF PipeRecords
<1> HIDE DEF rec
<1>8. \A pi \in Pipes \ {cur[p]} : pipes'[pi] = pipes[pi]
  BY <1>3, PipeChanges
<1>9. Count(cur[p]) = 0 => Count(cur[p])' = 0
  <2>1. \A m \in 0..(WORD - 1) : Inc(m, 0) = m
    BY DEF Inc, Dimensions, PipeAssumption
  <2>2. pipes[cur[p]].nread \in 0..(WORD - 1)
    BY DEF PipeRecords
  <2>3. Count(cur[p]) = 0 => rec.nread = pipes[cur[p]].nread
    BY <1>1, <1>7, <2>1, <2>2
  <2>4. pipes'[cur[p]] = rec
    BY <1>3, PipeChanges
  <2>5. QED
    BY <1>5, <1>7, <2>3, <2>4 DEF Count
<1>10. \A q \in Procs : Sleeps(q)'
  <2>1. SUFFICES ASSUME NEW q \in Procs PROVE Sleeps(q)'
    OBVIOUS
  <2>2. Sleeps(q)
    BY DEF FilesInv
  <2>3. CASE q = p
    BY <1>4, <2>3 DEF Sleeps
  <2>4. CASE q # p /\ cur[q] = cur[p]
    <3>1. \A s \in Procs : ~(pc[s] = "writing" /\ cur[s] = cur[p])
      BY <1>5, LockHolder DEF Locking
    <3>2. pipes'[cur[p]].writeopen = pipes[cur[p]].writeopen
      BY <1>3, <1>7, PipeChanges
    <3>3. QED
      BY <1>4, <1>5, <1>9, <2>2, <2>4, <3>1, <3>2 DEF Sleeps
  <2>5. CASE cur[q] # cur[p]
    BY <1>4, <1>5, <1>8, <2>5, OthersSleep
  <2>6. QED
    BY <2>3, <2>4, <2>5
<1>11. QED
  BY <1>3, <1>4, <1>5, <1>6, <1>7, <1>10, ReleaseKeeps

LEMMA WriteByteKeeps ==
  ASSUME Dimensions, FilesInv, NEW p \in Procs, WriteByte(p),
         UNCHANGED <<ftable, ofile, held, leaving, script, kills>>
  PROVE  FilesInv'
<1> USE Basics
<1> DEFINE d == [pipes[cur[p]].data EXCEPT ![pipes[cur[p]].nwrite % PIPESIZE] = left[p]]
           n == Inc(pipes[cur[p]].nwrite, 1)
           rec == [pipes[cur[p]] EXCEPT !.data = d, !.nwrite = n]
<1>1. /\ pc[p] = "writing" /\ left[p] > 0 /\ ~Full(cur[p])
      /\ left' = [left EXCEPT ![p] = @ - 1]
      /\ UNCHANGED <<pc, cur, killed, result, gaveup>>
  BY DEF WriteByte
<1>2. left[p] \in Bytes /\ left[p] \in Nat /\ left' \in [Procs -> 0..MaxN]
  <2>1. left \in [Procs -> 0..MaxN]
    BY DEF FilesInv, Typed, TypeOK
  <2>2. left[p] \in 1..MaxN /\ left[p] \in Nat /\ left[p] - 1 \in 0..MaxN
    BY <1>1, <2>1 DEF Dimensions, PipeAssumption
  <2>3. QED
    BY <1>1, <2>1, <2>2 DEF Bytes
<1>3. n \in 0..(WORD - 1)
  BY Unsigned
<1>4. d \in [0..(PIPESIZE - 1) -> Bytes]
  BY <1>2 DEF PipeRecords
<1>5. OnPipe(cur[p], rec)
  BY DEF WriteByte, OnPipe, FilesInv, Typed, TypeOK
<1>6. rec \in PipeRecords
  <2> HIDE DEF d, n
  <2>1. QED
    BY <1>3, <1>4, FieldsOf
<1>7. /\ rec.lock = pipes[cur[p]].lock /\ rec.page = pipes[cur[p]].page
      /\ rec.readopen = pipes[cur[p]].readopen /\ rec.writeopen = pipes[cur[p]].writeopen
  BY DEF PipeRecords
<1> HIDE DEF rec
<1>8. /\ pipes' \in [Pipes -> PipeRecords]
      /\ pipes'[cur[p]] = rec
      /\ \A pi \in Pipes : pi # cur[p] => pipes'[pi] = pipes[pi]
  BY <1>5, <1>6, PipeChanges
<1>9. TypeOK'
  BY <1>1, <1>2, <1>8 DEF FilesInv, Typed, TypeOK, PipeRecords
<1>10. SameEnds
  BY <1>7, <1>8 DEF SameEnds
<1>11. \A q \in Procs : Continues(q) /\ (pc'[q] \in Reading => left'[q] = left[q])
  BY <1>1 DEF Continues, Reading, FilesInv, Typed, TypeOK
<1>12. LocksHeld'
  BY <1>1, <1>7, <1>8 DEF FilesInv, LocksHeld
<1>13. \A q \in Procs : Sleeps(q)'
  <2>1. SUFFICES ASSUME NEW q \in Procs PROVE Sleeps(q)'
    OBVIOUS
  <2>2. Sleeps(q)
    BY DEF FilesInv
  <2>3. CASE cur[q] = cur[p]
    BY <1>1, <1>7, <1>8, <2>2, <2>3 DEF Sleeps
  <2>4. CASE cur[q] # cur[p]
    BY <1>1, <1>8, <2>4, OthersSleep
  <2>5. QED
    BY <2>3, <2>4
<1>14. QED
  BY <1>1, <1>9, <1>10, <1>11, <1>12, <1>13, HandlerKeeps

-----------------------------------------------------------------------------
(* pipeclose() *)

\* Who has a descriptor for an end keeps it open.
LEMMA UsesOpen ==
  ASSUME FilesInv, NEW p \in Procs, NEW w \in BOOLEAN, Uses(p, w), cur[p] \in Pipes
  PROVE  /\ \E f \in FileSlots : IsEnd(f, cur[p], w)
         /\ IsOpen(cur[p], w)
<1>1. PICK fd \in Descriptors :
        /\ ofile[p][fd] # NoFile /\ ftable[ofile[p][fd]].pipe = cur[p]
        /\ ftable[ofile[p][fd]].writable = w
  BY DEF Uses
<1>2. ofile[p][fd] \in FileSlots
  BY <1>1 DEF FilesInv, Typed, TypeOK
<1>3. IsEnd(ofile[p][fd], cur[p], w)
  BY <1>1 DEF IsEnd, FilesInv, Has
<1>4. OneEach(cur[p], w)
  BY DEF FilesInv, Ends
<1>5. QED
  BY <1>2, <1>3, <1>4 DEF OneEach

\* What the end of pipeclose() leaves of the ends and the page of a pipe.
LEMMA CloseEnds ==
  ASSUME FilesInv, NEW p \in Procs, NEW w \in BOOLEAN, cur[p] \in Pipes,
         pc[p] = (IF w THEN "closing_write" ELSE "closing_read"),
         UNCHANGED <<ftable, cur>>,
         pc'[p] = (IF IsOpen(cur[p], ~w) THEN "close" ELSE "kfree"),
         \A q \in Procs \ {p} : Continues(q),
         \A pi \in Pipes \ {cur[p]} : pipes'[pi] = pipes[pi],
         pipes'[cur[p]].page = pipes[cur[p]].page,
         ~IsOpen(cur[p], w)', IsOpen(cur[p], ~w)' = IsOpen(cur[p], ~w)
  PROVE  Ends' /\ \A pi \in Pipes : Page(pi)'
<1>1. Closes(p, cur[p], w) /\ ~Closes(p, cur[p], w)' /\ ~Closes(p, cur[p], ~w)
        /\ ~Closes(p, cur[p], ~w)'
  BY DEF Closes, Closing
<1>2. \A q \in Procs, pi \in Pipes, v \in BOOLEAN :
        q # p \/ pi # cur[p] \/ v # w => (Closes(q, pi, v)' <=> Closes(q, pi, v))
  <2>1. \A q \in Procs \ {p}, v \in BOOLEAN : pc'[q] \in Closing(v) <=> pc[q] \in Closing(v)
    BY DEF Continues, Closing, Reading, Writing
  <2>2. \A v \in BOOLEAN : v # w => v = ~w
    OBVIOUS
  <2>3. QED
    BY <1>1, <2>1, <2>2 DEF Closes
<1>3. \A q \in Procs, pi \in Pipes : q # p \/ pi # cur[p] => (Frees(q, pi)' <=> Frees(q, pi))
  BY DEF Frees, Continues, Reading, Writing
<1>4. \A f \in FileSlots, pi \in Pipes, v \in BOOLEAN : IsEnd(f, pi, v)' <=> IsEnd(f, pi, v)
  BY DEF IsEnd
<1>5. \A pi \in Pipes, v \in BOOLEAN : pi # cur[p] \/ v # w => IsOpen(pi, v)' = IsOpen(pi, v)
  <2>1. \A v \in BOOLEAN : v # w => v = ~w
    OBVIOUS
  <2>2. QED
    BY <2>1 DEF IsOpen
<1>6. \A pi \in Pipes, v \in BOOLEAN : OneEach(pi, v)
  BY DEF FilesInv, Ends
<1>7. \A pi \in Pipes, v \in BOOLEAN : pi # cur[p] \/ v # w => OneEach(pi, v)'
  BY <1>2, <1>4, <1>5, <1>6 DEF OneEach
<1>8. OneEach(cur[p], w)'
  <2>1. \A q \in Procs : ~Closes(q, cur[p], w)'
    BY <1>1, <1>2, <1>6 DEF OneEach
  <2>2. \A f \in FileSlots : ~IsEnd(f, cur[p], w)'
    BY <1>1, <1>4, <1>6 DEF OneEach
  <2>3. QED
    BY <2>1, <2>2 DEF OneEach
<1>9. Ends'
  BY <1>7, <1>8 DEF Ends
<1>10. IsOpen(cur[p], w)
  BY <1>1, <1>6 DEF OneEach
<1>11. ASSUME NEW pi \in Pipes PROVE Page(pi)'
  <2>1. Page(pi)
    BY DEF FilesInv
  <2>2. CASE pi # cur[p]
    BY <1>3, <2>1, <2>2 DEF Page
  <2>3. CASE pi = cur[p]
    <3>1. pipes[pi].page /\ \A q \in Procs : ~Frees(q, pi)
      BY <1>10, <2>1, <2>3 DEF Page, IsOpen
    <3>2. \A q \in Procs \ {p} : ~Frees(q, pi)'
      BY <1>3, <3>1
    <3>3. Frees(p, pi)' <=> ~IsOpen(cur[p], ~w)
      BY <2>3 DEF Frees
    <3>4. pipes'[pi].readopen \/ pipes'[pi].writeopen <=> IsOpen(cur[p], ~w)
      BY <2>3 DEF IsOpen
    <3>5. QED
      BY <2>3, <3>1, <3>2, <3>3, <3>4 DEF Page
  <2>4. QED
    BY <2>2, <2>3
<1>12. QED
  BY <1>9, <1>11

LEMMA ClosingKeeps ==
  ASSUME FilesInv, TypeOK', UNCHANGED <<cur, left, ftable, ofile, held>>,
         Ends', \A pi \in Pipes : Page(pi)',
         \A p \in Procs : Continues(p) \/ pc'[p] \in {"close", "kfree"},
         LocksHeld', \A p \in Procs : Sleeps(p)'
  PROVE  FilesInv'
<1> USE DEF FilesInv, Continues, Reading, Writing
<1>1. Typed' /\ Counted' /\ FilesTyped'
  BY DEF Typed, Counted, FilesTyped
<1>2. \A p \in Procs : Holds(p)'
  BY DEF Holds, Idle
<1>3. \A p \in Procs : Has(p)'
  BY DEF Has
<1>4. \A p \in Procs : Works(p)'
  BY DEF Works, Uses
<1>5. QED
  BY <1>1, <1>2, <1>3, <1>4

LEMMA CloseReadKeeps ==
  ASSUME Dimensions, FilesInv, NEW p \in Procs, CloseRead(p),
         UNCHANGED <<ftable, ofile, held, leaving, script, kills>>
  PROVE  FilesInv'
<1> USE Basics
<1> DEFINE rec == [pipes[cur[p]] EXCEPT !.readopen = FALSE, !.lock = 0]
<1>1. rec \in PipeRecords /\ OnPipe(cur[p], rec)
  BY FieldsOf DEF OnPipe, CloseRead, FilesInv, Typed, TypeOK
<1>2. /\ pc' \in [Procs -> Steps]
      /\ pc[p] = "closing_read"
      /\ pc'[p] = IF pipes[cur[p]].writeopen THEN "close" ELSE "kfree"
      /\ \A q \in Procs \ {p} :
           pc'[q] = IF pc[q] = "sleep_nwrite" /\ cur[q] = cur[p] THEN "write" ELSE pc[q]
  BY StepNames DEF CloseRead, WakeupAndGoto, Woken
<1>3. UNCHANGED <<cur, left, killed, gaveup>>
  BY DEF CloseRead, thread
<1>4. /\ rec.lock = 0 /\ rec.page = pipes[cur[p]].page /\ rec.readopen = FALSE
      /\ rec.writeopen = pipes[cur[p]].writeopen /\ rec.nwrite = pipes[cur[p]].nwrite
      /\ rec.nread = pipes[cur[p]].nread
  BY DEF PipeRecords
<1> HIDE DEF rec
<1>5. /\ pipes' \in [Pipes -> PipeRecords]
      /\ pipes'[cur[p]] = rec
      /\ \A pi \in Pipes : pi # cur[p] => pipes'[pi] = pipes[pi]
  BY <1>1, PipeChanges
<1>6. TypeOK'
  BY <1>2, <1>3, <1>5 DEF FilesInv, Typed, TypeOK, PipeRecords, CloseRead
<1>7. \A q \in Procs \ {p} : Continues(q)
  BY <1>2 DEF Continues, Writing
<1>8. Ends' /\ \A pi \in Pipes : Page(pi)'
  <2>1. pc[p] = (IF FALSE THEN "closing_write" ELSE "closing_read")
    BY <1>2
  <2>2. /\ IsOpen(cur[p], ~FALSE) = pipes[cur[p]].writeopen
        /\ IsOpen(cur[p], ~FALSE)' = IsOpen(cur[p], ~FALSE)
        /\ ~IsOpen(cur[p], FALSE)'
    BY <1>3, <1>4, <1>5 DEF IsOpen
  <2>3. pc'[p] = (IF IsOpen(cur[p], ~FALSE) THEN "close" ELSE "kfree")
    BY <1>2, <2>2
  <2>4. pipes'[cur[p]].page = pipes[cur[p]].page
    BY <1>4, <1>5
  <2>5. FALSE \in BOOLEAN
    OBVIOUS
  <2>6. QED
    BY <1>3, <1>5, <1>7, <2>1, <2>2, <2>3, <2>4, <2>5, CloseEnds
<1>9. LocksHeld'
  <2>1. pipes[cur[p]].lock = p
    BY <1>2, LockHolder DEF Locking
  <2>2. \A q \in Procs \ {p} : pc'[q] \in Locking <=> pc[q] \in Locking
    BY <1>2 DEF Locking
  <2>3. ~(pc'[p] \in Locking)
    BY <1>2 DEF Locking
  <2>4. \A q \in Procs : pipes[cur[p]].lock = q => q = p
    BY <2>1
  <2>5. QED
    BY <1>3, <1>4, <1>5, <2>1, <2>2, <2>3, <2>4 DEF FilesInv, LocksHeld
<1>10. \A q \in Procs : Sleeps(q)'
  <2>1. SUFFICES ASSUME NEW q \in Procs PROVE Sleeps(q)'
    OBVIOUS
  <2>2. Sleeps(q)
    BY DEF FilesInv
  <2>3. CASE q = p
    BY <1>2, <2>3 DEF Sleeps
  <2>4. CASE q # p /\ cur[q] = cur[p]
    <3>1. \A s \in Procs : pc[s] = "writing" => pc'[s] = "writing"
      BY <1>2
    <3>2. Count(cur[q])' = Count(cur[q])
      BY <1>3, <1>4, <1>5, <2>4 DEF Count
    <3>3. pc'[q] # "sleep_nwrite" /\ (pc'[q] = "sleep_nread" => pc[q] = "sleep_nread")
      BY <1>2, <2>4
    <3>4. QED
      BY <1>3, <1>4, <1>5, <2>2, <2>4, <3>1, <3>2, <3>3 DEF Sleeps
  <2>5. CASE cur[q] # cur[p]
    BY <1>2, <1>3, <1>5, <2>5, OthersSleep
  <2>6. QED
    BY <2>3, <2>4, <2>5
<1>11. QED
  BY <1>2, <1>3, <1>6, <1>7, <1>8, <1>9, <1>10, ClosingKeeps

LEMMA CloseWriteKeeps ==
  ASSUME Dimensions, FilesInv, NEW p \in Procs, CloseWrite(p),
         UNCHANGED <<ftable, ofile, held, leaving, script, kills>>
  PROVE  FilesInv'
<1> USE Basics
<1> DEFINE rec == [pipes[cur[p]] EXCEPT !.writeopen = FALSE, !.lock = 0]
<1>1. rec \in PipeRecords /\ OnPipe(cur[p], rec)
  BY FieldsOf DEF OnPipe, CloseWrite, FilesInv, Typed, TypeOK
<1>2. /\ pc' \in [Procs -> Steps]
      /\ pc[p] = "closing_write"
      /\ pc'[p] = IF pipes[cur[p]].readopen THEN "close" ELSE "kfree"
      /\ \A q \in Procs \ {p} :
           pc'[q] = IF pc[q] = "sleep_nread" /\ cur[q] = cur[p] THEN "read" ELSE pc[q]
  BY StepNames DEF CloseWrite, WakeupAndGoto, Woken
<1>3. UNCHANGED <<cur, left, killed>> /\ gaveup' = gaveup \ {cur[p]}
  BY DEF CloseWrite, thread
<1>4. /\ rec.lock = 0 /\ rec.page = pipes[cur[p]].page /\ rec.writeopen = FALSE
      /\ rec.readopen = pipes[cur[p]].readopen /\ rec.nwrite = pipes[cur[p]].nwrite
      /\ rec.nread = pipes[cur[p]].nread
  BY DEF PipeRecords
<1> HIDE DEF rec
<1>5. /\ pipes' \in [Pipes -> PipeRecords]
      /\ pipes'[cur[p]] = rec
      /\ \A pi \in Pipes : pi # cur[p] => pipes'[pi] = pipes[pi]
  BY <1>1, PipeChanges
<1>6. TypeOK'
  BY <1>2, <1>3, <1>5 DEF FilesInv, Typed, TypeOK, PipeRecords, CloseWrite
<1>7. \A q \in Procs \ {p} : Continues(q)
  BY <1>2 DEF Continues, Reading
<1>8. Ends' /\ \A pi \in Pipes : Page(pi)'
  <2>1. pc[p] = (IF TRUE THEN "closing_write" ELSE "closing_read")
    BY <1>2
  <2>2. /\ IsOpen(cur[p], ~TRUE) = pipes[cur[p]].readopen
        /\ IsOpen(cur[p], ~TRUE)' = IsOpen(cur[p], ~TRUE)
        /\ ~IsOpen(cur[p], TRUE)'
    BY <1>3, <1>4, <1>5 DEF IsOpen
  <2>3. pc'[p] = (IF IsOpen(cur[p], ~TRUE) THEN "close" ELSE "kfree")
    BY <1>2, <2>2
  <2>4. pipes'[cur[p]].page = pipes[cur[p]].page
    BY <1>4, <1>5
  <2>5. TRUE \in BOOLEAN
    OBVIOUS
  <2>6. QED
    BY <1>3, <1>5, <1>7, <2>1, <2>2, <2>3, <2>4, <2>5, CloseEnds
<1>9. LocksHeld'
  <2>1. pipes[cur[p]].lock = p
    BY <1>2, LockHolder DEF Locking
  <2>2. \A q \in Procs \ {p} : pc'[q] \in Locking <=> pc[q] \in Locking
    BY <1>2 DEF Locking
  <2>3. ~(pc'[p] \in Locking)
    BY <1>2 DEF Locking
  <2>4. \A q \in Procs : pipes[cur[p]].lock = q => q = p
    BY <2>1
  <2>5. QED
    BY <1>3, <1>4, <1>5, <2>1, <2>2, <2>3, <2>4 DEF FilesInv, LocksHeld
<1>10. \A q \in Procs : Sleeps(q)'
  <2>1. SUFFICES ASSUME NEW q \in Procs PROVE Sleeps(q)'
    OBVIOUS
  <2>2. Sleeps(q)
    BY DEF FilesInv
  <2>3. CASE q = p
    BY <1>2, <2>3 DEF Sleeps
  <2>4. CASE q # p /\ cur[q] = cur[p]
    <3>1. Full(cur[q])' = Full(cur[q])
      BY <1>3, <1>4, <1>5, <2>4 DEF Full
    <3>2. pc'[q] # "sleep_nread" /\ (pc'[q] = "sleep_nwrite" => pc[q] = "sleep_nwrite")
      BY <1>2, <2>4
    <3>3. QED
      BY <1>3, <1>4, <1>5, <2>2, <2>4, <3>1, <3>2 DEF Sleeps
  <2>5. CASE cur[q] # cur[p]
    BY <1>2, <1>3, <1>5, <2>5, OthersSleep
  <2>6. QED
    BY <2>3, <2>4, <2>5
<1>11. QED
  BY <1>2, <1>3, <1>6, <1>7, <1>8, <1>9, <1>10, ClosingKeeps

LEMMA FreePipeKeeps ==
  ASSUME Dimensions, FilesInv, NEW p \in Procs, FreePipe(p),
         UNCHANGED <<ftable, ofile, held, leaving, script, kills>>
  PROVE  FilesInv'
<1> USE Basics
<1>1. Pipe(FALSE, FALSE, FALSE) \in PipeRecords /\ OnPipe(cur[p], Pipe(FALSE, FALSE, FALSE))
  <2>1. 0 \in 0..(WORD - 1) /\ 1 \in Bytes /\ 0 \in 0..NPROC
    BY DEF Bytes, Dimensions, PipeAssumption
  <2>2. QED
    BY <2>1 DEF Pipe, PipeRecords, OnPipe, FreePipe
<1>2. /\ pc' \in [Procs -> Steps]
      /\ pc[p] = "kfree" /\ pc'[p] = "close"
      /\ \A q \in Procs \ {p} : pc'[q] = pc[q]
  BY StepNames DEF FreePipe, Goto, FilesInv, Typed, TypeOK
<1>3. UNCHANGED <<cur, left, killed, result>> /\ gaveup' = gaveup \ {cur[p]}
  BY DEF FreePipe, thread
<1>4. /\ pipes' \in [Pipes -> PipeRecords]
      /\ \A pi \in Pipes : pi # cur[p] => pipes'[pi] = pipes[pi]
      /\ pipes'[cur[p]].lock = 0 /\ ~pipes'[cur[p]].page
      /\ ~pipes'[cur[p]].readopen /\ ~pipes'[cur[p]].writeopen
  BY <1>1, PipeChanges DEF Pipe
<1>5. TypeOK'
  BY <1>2, <1>3, <1>4 DEF FilesInv, Typed, TypeOK, PipeRecords
<1>6. \A q \in Procs \ {p} : Continues(q)
  BY <1>2 DEF Continues
<1>7. /\ ~pipes[cur[p]].readopen /\ ~pipes[cur[p]].writeopen
      /\ \A q \in Procs : Frees(q, cur[p]) => q = p
  BY <1>2 DEF FilesInv, Page, Frees
<1>8. \A w \in BOOLEAN : ~IsOpen(cur[p], w)
  BY <1>7 DEF IsOpen
<1>9. \A q \in Procs : cur[q] = cur[p] =>
        ~(pc[q] \in Reading) /\ ~(pc[q] \in Writing) /\ ~(pc[q] \in Locking)
  <2>1. SUFFICES ASSUME NEW q \in Procs, cur[q] = cur[p]
                 PROVE  ~(pc[q] \in Reading) /\ ~(pc[q] \in Writing) /\ ~(pc[q] \in Locking)
    OBVIOUS
  <2>2. ~(pc[q] \in Reading) /\ ~(pc[q] \in Writing)
    <3>1. FALSE \in BOOLEAN /\ TRUE \in BOOLEAN
      OBVIOUS
    <3>2. ~Uses(q, FALSE) /\ ~Uses(q, TRUE)
      BY <1>8, <2>1, <3>1, UsesOpen
    <3>3. QED
      BY <3>2 DEF FilesInv, Works
  <2>3. \A w \in BOOLEAN : ~Closes(q, cur[p], w)
    BY <1>8 DEF FilesInv, Ends, OneEach
  <2>4. QED
    BY <2>1, <2>2, <2>3 DEF Closes, Closing, Locking, Reading, Writing
<1>10. Ends' /\ \A pi \in Pipes : Page(pi)'
  <2>1. \A f \in FileSlots, pi \in Pipes, w \in BOOLEAN : IsEnd(f, pi, w)' <=> IsEnd(f, pi, w)
    BY DEF IsEnd
  <2>2. \A q \in Procs, pi \in Pipes, w \in BOOLEAN : Closes(q, pi, w)' <=> Closes(q, pi, w)
    BY <1>2, <1>3 DEF Closes, Closing
  <2>3. \A pi \in Pipes, w \in BOOLEAN : IsOpen(pi, w)' <=> IsOpen(pi, w)
    BY <1>4, <1>8 DEF IsOpen
  <2>4. \A pi \in Pipes, w \in BOOLEAN : OneEach(pi, w) => OneEach(pi, w)'
    BY <2>1, <2>2, <2>3 DEF OneEach
  <2>5. Ends'
    BY <2>4 DEF FilesInv, Ends
  <2>6. \A q \in Procs : ~Frees(q, cur[p])'
    BY <1>2, <1>3, <1>7 DEF Frees
  <2>7. \A q \in Procs, pi \in Pipes : pi # cur[p] => (Frees(q, pi)' <=> Frees(q, pi))
    BY <1>2, <1>3 DEF Frees
  <2>8. ASSUME NEW pi \in Pipes PROVE Page(pi)'
    <3>1. CASE pi = cur[p]
      BY <1>3, <1>4, <2>6, <3>1 DEF Page
    <3>2. CASE pi # cur[p]
      BY <1>4, <2>7, <3>2 DEF FilesInv, Page
    <3>3. QED
      BY <3>1, <3>2
  <2>9. QED
    BY <2>5, <2>8
<1>11. LocksHeld'
  <2>1. \A q \in Procs : pipes[cur[p]].lock # q
    BY <1>9 DEF FilesInv, LocksHeld
  <2>2. \A q \in Procs : pc'[q] \in Locking <=> pc[q] \in Locking
    BY <1>2 DEF Locking
  <2>3. QED
    BY <1>3, <1>4, <1>9, <2>1, <2>2 DEF FilesInv, LocksHeld
<1>12. \A q \in Procs : Sleeps(q)'
  <2>1. SUFFICES ASSUME NEW q \in Procs PROVE Sleeps(q)'
    OBVIOUS
  <2>2. CASE cur[q] = cur[p]
    BY <1>2, <1>3, <1>9, <2>2 DEF Sleeps, Reading, Writing
  <2>3. CASE cur[q] # cur[p]
    BY <1>2, <1>3, <1>4, <2>3, OthersSleep
  <2>4. QED
    BY <2>2, <2>3
<1>13. QED
  BY <1>2, <1>3, <1>5, <1>6, <1>10, <1>11, <1>12, ClosingKeeps

LEMMA PipeStepKeeps ==
  ASSUME Dimensions, FilesInv, NEW p \in Procs, PipeStep(p),
         UNCHANGED <<ftable, ofile, held, leaving, script, kills>>
  PROVE  FilesInv'
BY AcquireKeeps, WriteGivesUpKeeps, WriteSleepsKeeps, WriteByteKeeps, WriteReturnsKeeps,
   ReadWaitsKeeps, ReadReturnsKeeps, CloseReadKeeps, CloseWriteKeeps, FreePipeKeeps DEF PipeStep

-----------------------------------------------------------------------------
(* The table of files *)

\* Outside pipe.c, or on the way into it.
Outside == {"user", "unused", "zombie", "return", "alloc1", "alloc2", "alloc_page", "close",
            "read", "write"}

\* A step of p outside pipe.c.
Moves(p) ==
  /\ UNCHANGED gaveup
  /\ pc[p] \in Outside \cup Sleeping
  /\ pc'[p] \in Outside \cup {"close_read", "close_write"}
  /\ \A q \in Procs \ {p} : pc'[q] = pc[q] /\ cur'[q] = cur[q] /\ left'[q] = left[q]

LEMMA Quiet ==
  ASSUME FilesInv, NEW p \in Procs, Moves(p), UNCHANGED pipes
  PROVE  LocksHeld' /\ \A q \in Procs : Sleeps(q)'
<1> USE StepNames DEF Moves, Outside
<1>1. LocksHeld'
  <2>1. ~(pc[p] \in Locking) /\ ~(pc'[p] \in Locking)
    BY DEF Locking
  <2>2. QED
    BY <2>1 DEF FilesInv, LocksHeld
<1>2. ASSUME NEW q \in Procs PROVE Sleeps(q)'
  <2>1. CASE q = p
    BY <2>1 DEF Sleeps
  <2>2. CASE q # p
    <3>1. \A s \in Procs : pc[s] = "writing" => pc'[s] = "writing" /\ cur'[s] = cur[s]
      OBVIOUS
    <3>2. Sleeps(q)
      BY DEF FilesInv
    <3>3. Count(cur[q])' = Count(cur[q]) /\ Full(cur[q])' = Full(cur[q])
      BY <2>2 DEF Count, Full
    <3>4. pc'[q] = pc[q] /\ cur'[q] = cur[q]
      BY <2>2
    <3>5. QED
      BY <3>1, <3>2, <3>3, <3>4 DEF Sleeps
  <2>3. QED
    BY <2>1, <2>2
<1>3. QED
  BY <1>1, <1>2

\* What a process has is touched by nobody else.
SameFile(f) ==
  /\ ftable'[f].type = ftable[f].type /\ ftable'[f].pipe = ftable[f].pipe
  /\ ftable'[f].writable = ftable[f].writable

LEMMA OthersKeep ==
  ASSUME FilesInv, NEW p \in Procs, NEW q \in Procs \ {p},
         pc'[q] = pc[q], cur'[q] = cur[q], left'[q] = left[q],
         ofile'[q] = ofile[q], held'[q] = held[q],
         \A fd \in Descriptors : ofile[q][fd] # NoFile => SameFile(ofile[q][fd]),
         \A k \in DOMAIN held[q] : SameFile(held[q][k])
  PROVE  Holds(q)' /\ Has(q)' /\ Works(q)'
<1> USE DEF SameFile
<1>1. Holds(q) /\ Has(q) /\ Works(q)
  BY DEF FilesInv
<1>2. Holds(q)'
  BY <1>1 DEF Holds
<1>3. Has(q)'
  BY <1>1 DEF Has
<1>4. Works(q)'
  BY <1>1 DEF Works, Uses
<1>5. QED
  BY <1>2, <1>3, <1>4

\* A step that leaves the files alone.
LEMMA FilesStay ==
  ASSUME FilesInv, NEW p \in Procs, Moves(p), TypeOK',
         UNCHANGED <<pipes, ftable, ofile, held>>, pc'[p] \in Outside,
         Holds(p)', Has(p)', Works(p)'
  PROVE  FilesInv'
<1>1. Typed' /\ Counted' /\ FilesTyped'
  BY DEF FilesInv, Typed, Counted, FilesTyped
<1>2. LocksHeld' /\ \A q \in Procs : Sleeps(q)'
  BY Quiet
<1>3. Ends' /\ \A pi \in Pipes : Page(pi)'
  <2>1. SameEnds
    BY DEF SameEnds
  <2>2. \A q \in Procs : SameRole(q)
    BY StepNames DEF SameRole, Moves, Outside, Closing
  <2>3. QED
    BY <2>1, <2>2, EndsStay DEF FilesInv
<1>4. \A q \in Procs : Holds(q)' /\ Has(q)' /\ Works(q)'
  BY OthersKeep DEF SameFile, Moves
<1>5. QED
  BY <1>1, <1>2, <1>3, <1>4 DEF FilesInv

LEMMA ReturnKeeps ==
  ASSUME Dimensions, FilesInv, NEW p \in Procs, Return(p)
  PROVE  FilesInv'
<1> USE Basics
<1>1. pc[p] \in {"return", "close"} /\ pc'[p] \in {"zombie", "user"} /\ held[p] = << >>
      /\ pc' \in [Procs -> Steps] /\ \A q \in Procs \ {p} : pc'[q] = pc[q]
  <2>1. pc[p] \in {"return", "close"} /\ held[p] = << >>
    BY DEF Return, FilesInv, Holds, Idle
  <2>2. pc \in [Procs -> Steps]
    BY DEF FilesInv, Typed, TypeOK
  <2>3. QED
    BY <2>1, <2>2, StepNames DEF Return, Goto
<1>2. UNCHANGED <<pipes, ftable, ofile, held, gaveup, killed, leaving>>
  BY DEF Return, Inside
<1>3. cur' = [cur EXCEPT ![p] = 1] /\ left' = [left EXCEPT ![p] = 0]
  BY DEF Return
<1>4. Moves(p) /\ pc'[p] \in Outside
  BY <1>1, <1>2, <1>3 DEF Moves, Outside, FilesInv, Typed, TypeOK
<1>5. TypeOK'
  <2>1. 1 \in Pipes /\ 0 \in 0..MaxN
    BY DEF Pipes, Dimensions, PipeAssumption
  <2>2. QED
    BY <1>1, <1>2, <1>3, <2>1 DEF FilesInv, Typed, TypeOK
<1>6. Holds(p)' /\ Has(p)' /\ Works(p)'
  BY <1>1, <1>2 DEF Holds, Has, Works, Reading, Writing, FilesInv
<1>7. QED
  BY <1>2, <1>4, <1>5, <1>6, FilesStay

LEMMA SysPipeKeeps ==
  ASSUME Dimensions, FilesInv, NEW p \in Procs, SysPipe(p)
  PROVE  FilesInv'
<1> USE Basics
<1>1. /\ pc[p] = "user" /\ pc'[p] = "alloc1"
      /\ pc' \in [Procs -> Steps] /\ \A q \in Procs \ {p} : pc'[q] = pc[q]
  BY StepNames DEF SysPipe, Calls, Goto, FilesInv, Typed, TypeOK
<1>2. UNCHANGED <<pipes, ftable, ofile, held, gaveup, killed, leaving, cur, left>>
  BY DEF SysPipe, Calls
<1>3. Moves(p) /\ pc'[p] \in Outside
  BY <1>1, <1>2 DEF Moves, Outside
<1>4. TypeOK'
  BY <1>1, <1>2 DEF FilesInv, Typed, TypeOK
<1>5. Holds(p)' /\ Has(p)' /\ Works(p)'
  BY <1>1, <1>2 DEF Holds, Has, Works, Reading, Writing, FilesInv, Idle
<1>6. QED
  BY <1>2, <1>3, <1>4, <1>5, FilesStay

LEMMA AllocFailsKeeps ==
  ASSUME Dimensions, FilesInv, NEW p \in Procs, AllocFails(p)
  PROVE  FilesInv'
<1> USE Basics
<1>1. /\ pc[p] \in {"alloc1", "alloc2", "alloc_page"} /\ pc'[p] = "close"
      /\ pc' \in [Procs -> Steps] /\ \A q \in Procs \ {p} : pc'[q] = pc[q]
  BY StepNames DEF AllocFails, Goto, FilesInv, Typed, TypeOK
<1>2. UNCHANGED <<pipes, ftable, ofile, held, gaveup, killed, leaving, cur, left>>
  BY DEF AllocFails, Inside
<1>3. Moves(p) /\ pc'[p] \in Outside
  BY <1>1, <1>2 DEF Moves, Outside
<1>4. TypeOK'
  BY <1>1, <1>2 DEF FilesInv, Typed, TypeOK
<1>5. Holds(p)' /\ Has(p)' /\ Works(p)'
  BY <1>1, <1>2 DEF Holds, Has, Works, Reading, Writing, FilesInv, Idle
<1>6. QED
  BY <1>2, <1>3, <1>4, <1>5, FilesStay

LEMMA SysReadWriteKeeps ==
  ASSUME Dimensions, FilesInv, NEW p \in Procs, NEW name \in {"read", "write"},
         SysReadWrite(p, name)
  PROVE  FilesInv'
<1> USE Basics
<1>1. /\ pc[p] = "user" /\ pc'[p] = name
      /\ pc' \in [Procs -> Steps] /\ \A q \in Procs \ {p} : pc'[q] = pc[q]
  BY StepNames DEF SysReadWrite, Calls, Goto, FilesInv, Typed, TypeOK
<1>2. UNCHANGED <<pipes, ftable, ofile, held, gaveup, killed, leaving>>
  BY DEF SysReadWrite, Calls
<1>3. PICK fd \in Fitting(p, name), n \in 1..MaxN :
        /\ cur' = [cur EXCEPT ![p] = ftable[ofile[p][fd]].pipe]
        /\ left' = [left EXCEPT ![p] = n]
  BY DEF SysReadWrite
<1>4. /\ fd \in Descriptors /\ ofile[p][fd] \in FileSlots
      /\ ofile[p][fd] # NoFile
      /\ ftable[ofile[p][fd]].writable = (name = "write")
      /\ ftable[ofile[p][fd]].pipe \in Pipes
  <2>1. Fitting(p, name) =
          {d \in OpenFds(p) : ftable[ofile[p][d]].writable = (name = "write")}
    BY DEF Fitting
  <2>2. fd \in Descriptors /\ ofile[p][fd] # NoFile
    BY <2>1 DEF OpenFds, FreeFds
  <2>3. ofile[p][fd] \in FileSlots
    BY <2>2 DEF FilesInv, Typed, TypeOK
  <2>4. ftable[ofile[p][fd]].pipe \in Pipes
    BY <2>3 DEF FilesInv, Typed, TypeOK
  <2>5. QED
    BY <2>1, <2>2, <2>3, <2>4
<1>5. /\ cur'[p] = ftable[ofile[p][fd]].pipe /\ left'[p] = n /\ n > 0
      /\ n \in 0..MaxN /\ cur' \in [Procs -> Pipes] /\ left' \in [Procs -> 0..MaxN]
      /\ \A q \in Procs \ {p} : cur'[q] = cur[q] /\ left'[q] = left[q]
  BY <1>3, <1>4 DEF FilesInv, Typed, TypeOK, Dimensions, PipeAssumption
<1>6. Moves(p) /\ pc'[p] \in Outside
  BY <1>1, <1>2, <1>5 DEF Moves, Outside
<1>7. TypeOK'
  BY <1>1, <1>2, <1>5 DEF FilesInv, Typed, TypeOK
<1>8. Holds(p)' /\ Has(p)' /\ Works(p)'
  <2>1. Holds(p)' /\ Has(p)'
    BY <1>1, <1>2 DEF Holds, Has, FilesInv, Idle
  <2>2. Uses(p, name = "write")'
    BY <1>2, <1>4, <1>5 DEF Uses
  <2>3. Works(p)'
    BY <1>1, <1>5, <2>2 DEF Works, Reading, Writing
  <2>4. QED
    BY <2>1, <2>3
<1>9. QED
  BY <1>2, <1>6, <1>7, <1>8, FilesStay

LEMMA RefusedKeeps ==
  ASSUME Dimensions, FilesInv, NEW p \in Procs, Refused(p)
  PROVE  FilesInv'
<1>1. UNCHANGED <<pipes, pc, cur, left, ftable, ofile, held, gaveup, killed, leaving>>
  BY DEF Refused, Calls
<1>2. pc[p] = "user"
  BY DEF Refused, Calls
<1>3. Moves(p) /\ pc'[p] \in Outside
  BY <1>1, <1>2 DEF Moves, Outside
<1>4. TypeOK'
  BY <1>1 DEF FilesInv, Typed, TypeOK
<1>5. Holds(p)' /\ Has(p)' /\ Works(p)'
  BY <1>1, <1>2 DEF Holds, Has, Works, Reading, Writing, FilesInv
<1>6. QED
  BY <1>1, <1>3, <1>4, <1>5, FilesStay

LEMMA ExitKeeps ==
  ASSUME Dimensions, FilesInv, NEW p \in Procs, Exit(p)
  PROVE  FilesInv'
<1> USE Basics
<1>1. /\ pc[p] = "user" /\ pc'[p] = "close"
      /\ pc' \in [Procs -> Steps] /\ \A q \in Procs \ {p} : pc'[q] = pc[q]
  BY StepNames DEF Exit, Goto, FilesInv, Typed, TypeOK
<1>2. UNCHANGED <<pipes, ftable, ofile, held, gaveup, killed, cur, left>>
      /\ leaving' \in [Procs -> BOOLEAN]
  BY DEF Exit, thread, FilesInv, Typed, TypeOK
<1>3. Moves(p) /\ pc'[p] \in Outside
  BY <1>1, <1>2 DEF Moves, Outside
<1>4. TypeOK'
  BY <1>1, <1>2 DEF FilesInv, Typed, TypeOK
<1>5. Holds(p)' /\ Has(p)' /\ Works(p)'
  BY <1>1, <1>2 DEF Holds, Has, Works, Reading, Writing, FilesInv, Idle
<1>6. QED
  BY <1>2, <1>3, <1>4, <1>5, FilesStay

\* kill() sends a sleeper back to the test of its loop.
LEMMA KillKeeps ==
  ASSUME Dimensions, FilesInv, NEW p \in Procs, Kill(p)
  PROVE  FilesInv'
<1> USE Basics
<1>1. UNCHANGED <<pipes, ftable, ofile, held, gaveup, leaving, cur, left>>
      /\ killed' \in [Procs -> BOOLEAN]
  BY DEF Kill, FilesInv, Typed, TypeOK
<1>2. CASE pc[p] \in Sleeping
  <2>1. /\ pc[p] = "sleep_nread" => pc'[p] = "read"
        /\ pc[p] = "sleep_nwrite" => pc'[p] = "write"
        /\ pc[p] \in {"sleep_nread", "sleep_nwrite"}
        /\ pc' \in [Procs -> Steps] /\ \A q \in Procs \ {p} : pc'[q] = pc[q]
    BY <1>2, StepNames DEF Kill, Woken, FilesInv, Typed, TypeOK
  <2>2. Moves(p) /\ pc'[p] \in Outside
    BY <1>1, <1>2, <2>1 DEF Moves, Outside
  <2>3. TypeOK'
    BY <1>1, <2>1 DEF FilesInv, Typed, TypeOK
  <2>4. Holds(p)' /\ Has(p)' /\ Works(p)'
    <3>1. Holds(p) /\ Has(p) /\ Works(p)
      BY DEF FilesInv
    <3>2. QED
      BY <1>1, <2>1, <3>1 DEF Holds, Has, Works, Uses, Reading, Writing, Idle
  <2>5. QED
    BY <1>1, <2>2, <2>3, <2>4, FilesStay
<1>3. CASE ~(pc[p] \in Sleeping)
  <2>1. UNCHANGED pc
    BY <1>3 DEF Kill
  <2>2. TypeOK' /\ SameEnds /\ LocksHeld'
    BY <1>1, <2>1 DEF FilesInv, Typed, TypeOK, SameEnds, LocksHeld
  <2>3. \A q \in Procs : Continues(q) /\ (pc'[q] \in Reading => left'[q] = left[q])
    BY <1>1, <2>1 DEF Continues
  <2>4. ASSUME NEW q \in Procs PROVE Sleeps(q)'
    <3>1. Count(cur[q])' = Count(cur[q]) /\ Full(cur[q])' = Full(cur[q]) /\ Sleeps(q)
      BY <1>1 DEF FilesInv, Count, Full
    <3>2. QED
      BY <1>1, <2>1, <3>1 DEF Sleeps
  <2>5. QED
    BY <1>1, <2>2, <2>3, <2>4, HandlerKeeps
<1>4. QED
  BY <1>2, <1>3

\* A step that moves references and opens or closes no end.
LEMMA TableKeeps ==
  ASSUME FilesInv, NEW p \in Procs, Moves(p), pc'[p] \in Outside, UNCHANGED pipes,
         TypeOK', held' \in [Procs -> Short], Counted', FilesTyped',
         \A f \in FileSlots : SameFile(f),
         \A q \in Procs \ {p} : ofile'[q] = ofile[q] /\ held'[q] = held[q],
         Holds(p)', Has(p)', Works(p)'
  PROVE  FilesInv'
<1>1. Typed' /\ Counted' /\ FilesTyped'
  BY DEF Typed
<1>2. LocksHeld' /\ \A q \in Procs : Sleeps(q)'
  BY Quiet
<1>3. Ends' /\ \A pi \in Pipes : Page(pi)'
  <2>1. SameEnds
    BY DEF SameEnds, SameFile
  <2>2. \A q \in Procs : SameRole(q)
    BY StepNames DEF SameRole, Moves, Outside, Closing
  <2>3. QED
    BY <2>1, <2>2, EndsStay DEF FilesInv
<1>4. ASSUME NEW q \in Procs \ {p} PROVE Holds(q)' /\ Has(q)' /\ Works(q)'
  <2>1. \A fd \in Descriptors : ofile[q][fd] # NoFile => SameFile(ofile[q][fd])
    BY DEF FilesInv, Typed, TypeOK
  <2>2. \A k \in DOMAIN held[q] : SameFile(held[q][k])
    BY ShortIs DEF FilesInv, Typed
  <2>3. QED
    BY <2>1, <2>2, OthersKeep DEF Moves
<1>5. QED
  BY <1>1, <1>2, <1>3, <1>4 DEF FilesInv

FileRecords ==
  [ref : Nat, type : {"FD_NONE", "FD_PIPE"}, pipe : Pipes, writable : BOOLEAN]

\* What somebody has is counted.
LEMMA Referring ==
  ASSUME Dimensions, FilesInv, NEW f \in FileSlots
  PROVE  /\ ftable[f] \in FileRecords /\ ftable[f].ref \in Nat
         /\ \A p \in Procs, fd \in Descriptors : ofile[p][fd] = f => ftable[f].ref >= 1
         /\ \A p \in Procs : \A k \in DOMAIN held[p] : held[p][k] = f => ftable[f].ref >= 1
         /\ ftable[f].ref <= 1 =>
              /\ \A p, q \in Procs, d, e \in Descriptors :
                   ofile[p][d] = f /\ ofile[q][e] = f => p = q /\ d = e
              /\ \A p, q \in Procs : \A j \in DOMAIN held[p], k \in DOMAIN held[q] :
                   held[p][j] = f /\ held[q][k] = f => p = q /\ j = k
              /\ \A p, q \in Procs, d \in Descriptors : \A k \in DOMAIN held[q] :
                   ~(ofile[p][d] = f /\ held[q][k] = f)
<1> DEFINE A == InFds(ofile, f)
           B == InCalls(held, f)
<1>1. ftable[f].ref = Cardinality(A) + Cardinality(B)
  BY DEF FilesInv, Counted
<1>2. /\ ftable[f].ref \in Nat
      /\ A # {} \/ B # {} => ftable[f].ref >= 1
      /\ ftable[f].ref <= 1 =>
           (\A x, y \in A : x = y) /\ (\A x, y \in B : x = y) /\ (A = {} \/ B = {})
  BY <1>1, Referenced
<1>3. \A p \in Procs, d \in Descriptors : ofile[p][d] = f => <<p, d>> \in A
  BY DEF InFds
<1>4. \A p \in Procs : \A k \in DOMAIN held[p] : held[p][k] = f => <<p, k>> \in B
  <2>1. \A p \in Procs : DOMAIN held[p] \subseteq 1..2
    BY ShortIs DEF FilesInv, Typed
  <2>2. QED
    BY <2>1 DEF InCalls
<1> HIDE DEF A, B
<1>5. ftable[f] \in FileRecords
  BY DEF FilesInv, Typed, TypeOK, FileRecords
<1>6. \A p \in Procs, fd \in Descriptors : ofile[p][fd] = f => ftable[f].ref >= 1
  BY <1>2, <1>3
<1>7. \A p \in Procs : \A k \in DOMAIN held[p] : held[p][k] = f => ftable[f].ref >= 1
  BY <1>2, <1>4
<1>8. ASSUME ftable[f].ref <= 1
      PROVE  /\ \A p, q \in Procs, d, e \in Descriptors :
                  ofile[p][d] = f /\ ofile[q][e] = f => p = q /\ d = e
             /\ \A p, q \in Procs : \A j \in DOMAIN held[p], k \in DOMAIN held[q] :
                  held[p][j] = f /\ held[q][k] = f => p = q /\ j = k
             /\ \A p, q \in Procs, d \in Descriptors : \A k \in DOMAIN held[q] :
                  ~(ofile[p][d] = f /\ held[q][k] = f)
  <2>1. \A p, q \in Procs, d, e \in Descriptors :
          ofile[p][d] = f /\ ofile[q][e] = f => <<p, d>> = <<q, e>>
    BY <1>2, <1>3, <1>8
  <2>2. \A p, q \in Procs : \A j \in DOMAIN held[p], k \in DOMAIN held[q] :
          held[p][j] = f /\ held[q][k] = f => <<p, j>> = <<q, k>>
    BY <1>2, <1>4, <1>8
  <2>3. \A p, q \in Procs, d \in Descriptors : \A k \in DOMAIN held[q] :
          ~(ofile[p][d] = f /\ held[q][k] = f)
    BY <1>2, <1>3, <1>4, <1>8
  <2>4. QED
    BY <2>1, <2>2, <2>3
<1>9. QED
  BY <1>2, <1>5, <1>6, <1>7, <1>8

\* How the references add up.
LEMMA RefSum ==
  ASSUME Dimensions, FilesInv, NEW o, NEW h, NEW f \in FileSlots, NEW d \in Int,
         Cardinality(InFds(o, f)) + Cardinality(InCalls(h, f))
           = Cardinality(InFds(ofile, f)) + Cardinality(InCalls(held, f)) + d
  PROVE  ftable[f].ref + d = Cardinality(InFds(o, f)) + Cardinality(InCalls(h, f))
<1>1. /\ Cardinality(InFds(o, f)) \in Nat /\ Cardinality(InCalls(h, f)) \in Nat
      /\ Cardinality(InFds(ofile, f)) \in Nat /\ Cardinality(InCalls(held, f)) \in Nat
  BY RefsFinite
<1>2. ftable[f].ref = Cardinality(InFds(ofile, f)) + Cardinality(InCalls(held, f))
  BY DEF FilesInv, Counted
<1>3. QED
  BY <1>1, <1>2

LEMMA AllocFileKeeps ==
  ASSUME Dimensions, FilesInv, NEW p \in Procs, AllocFile(p)
  PROVE  FilesInv'
<1> USE Basics
<1> DEFINE g == First(FreeFiles)
<1>1. g \in FileSlots /\ ftable[g].ref = 0
  BY FirstOnes DEF FreeFiles, AllocFile
<1>2. /\ pc[p] \in {"alloc1", "alloc2"}
      /\ ftable' = [ftable EXCEPT ![g].ref = 1]
      /\ held' = [held EXCEPT ![p] = Append(@, g)]
      /\ UNCHANGED <<pipes, cur, left, ofile, gaveup, killed, leaving>>
  BY DEF AllocFile, Inside
<1>3. /\ pc'[p] = IF pc[p] = "alloc1" THEN "alloc2" ELSE "alloc_page"
      /\ pc' \in [Procs -> Steps] /\ \A q \in Procs \ {p} : pc'[q] = pc[q]
  BY StepNames DEF AllocFile, Goto, FilesInv, Typed, TypeOK
<1> HIDE DEF g
<1>4. /\ \A k \in DOMAIN held[p] : held[p][k] # g
      /\ ftable[g].type = "FD_NONE"
  BY <1>1, Referring DEF FilesInv, FilesTyped
<1>5. \/ pc[p] = "alloc1" /\ held[p] = << >> /\ held'[p] = <<g>>
      \/ pc[p] = "alloc2" /\ \E f \in FileSlots : held[p] = <<f>> /\ f # g /\ held'[p] = <<f, g>>
  <2>1. held \in [Procs -> Short]
    BY DEF FilesInv, Typed
  <2>2. held'[p] = Append(held[p], g)
    BY <1>2, <2>1
  <2>3. CASE pc[p] = "alloc1"
    <3>1. held[p] = << >>
      BY <2>3 DEF FilesInv, Holds, Idle
    <3>2. Append(<< >>, g) = <<g>>
      OBVIOUS
    <3>3. QED
      BY <2>2, <2>3, <3>1, <3>2
  <2>4. CASE pc[p] = "alloc2"
    <3>1. PICK f \in FileSlots : held[p] = <<f>>
      BY <2>4 DEF FilesInv, Holds
    <3>2. f # g
      BY <1>4, <3>1
    <3>3. Append(<<f>>, g) = <<f, g>>
      BY Appended
    <3>4. QED
      BY <2>2, <2>4, <3>1, <3>2, <3>3
  <2>5. QED
    BY <1>2, <2>3, <2>4
<1>6. held' \in [Procs -> Short] /\ \A q \in Procs \ {p} : held'[q] = held[q]
  <2>1. held'[p] \in Short
    <3>1. <<g>> \in Short
      BY <1>1 DEF Short
    <3>2. \A f \in FileSlots : f # g => <<f, g>> \in Short
      BY <1>1, Pairs
    <3>3. QED
      BY <1>5, <3>1, <3>2
  <2>2. held \in [Procs -> Short]
    BY DEF FilesInv, Typed
  <2>3. QED
    BY <1>2, <2>1, <2>2
<1>7. \A f \in FileSlots : /\ SameFile(f) /\ ftable'[f] \in FileRecords
                           /\ ftable'[f].ref = ftable[f].ref + (IF f = g THEN 1 ELSE 0)
  <2>1. SUFFICES ASSUME NEW f \in FileSlots
                 PROVE  /\ SameFile(f) /\ ftable'[f] \in FileRecords
                        /\ ftable'[f].ref = ftable[f].ref + (IF f = g THEN 1 ELSE 0)
    OBVIOUS
  <2>2. ftable[f] \in FileRecords
    BY Referring
  <2>3. ftable'[f] = IF f = g THEN [ftable[f] EXCEPT !.ref = 1] ELSE ftable[f]
    BY <1>1, <1>2 DEF FilesInv, Typed, TypeOK
  <2>4. QED
    BY <1>1, <2>2, <2>3 DEF FileRecords, SameFile
<1>8. TypeOK'
  <2>1. ftable' \in [FileSlots -> FileRecords]
    BY <1>2, <1>7 DEF FilesInv, Typed, TypeOK
  <2>2. held' \in [Procs -> Seq(FileSlots)]
    <3>1. held[p] \in Seq(FileSlots) /\ Append(held[p], g) \in Seq(FileSlots)
      BY <1>1 DEF FilesInv, Typed, TypeOK
    <3>2. QED
      BY <1>2, <3>1 DEF FilesInv, Typed, TypeOK
  <2>3. QED
    BY <1>2, <1>3, <2>1, <2>2 DEF FilesInv, Typed, TypeOK, FileRecords
<1>9. Counted'
  <2>1. SUFFICES ASSUME NEW f \in FileSlots
                 PROVE  ftable'[f].ref
                          = Cardinality(InFds(ofile', f)) + Cardinality(InCalls(held', f))
    BY DEF Counted, InFds, InCalls
  <2>2. DEFINE d == IF f = g THEN 1 ELSE 0
  <2>3. In(held'[p], f) = In(held[p], f) + d /\ In(held[p], f) \in Nat /\ d \in Int
    <3>1. CASE held[p] = << >> /\ held'[p] = <<g>>
      BY <3>1, InShort
    <3>2. CASE \E e \in FileSlots : held[p] = <<e>> /\ e # g /\ held'[p] = <<e, g>>
      <4>1. PICK e \in FileSlots : held[p] = <<e>> /\ e # g /\ held'[p] = <<e, g>>
        BY <3>2
      <4>2. In(<<e>>, f) = IF e = f THEN 1 ELSE 0
        BY InShort
      <4>3. In(<<e, g>>, f) = IF e = f \/ g = f THEN 1 ELSE 0
        BY InShort
      <4>4. QED
        BY <4>1, <4>2, <4>3
    <3>3. QED
      BY <1>5, <3>1, <3>2
  <2>4. Cardinality(InCalls(held', f)) + In(held[p], f)
          = Cardinality(InCalls(held, f)) + In(held'[p], f)
    <3>1. SetsCall(held, held', p)
      BY <1>6 DEF SetsCall, FilesInv, Typed
    <3>2. QED
      BY <3>1, CallCount
  <2>5. /\ Cardinality(InFds(ofile, f)) \in Nat /\ Cardinality(InCalls(held, f)) \in Nat
        /\ Cardinality(InCalls(held', f)) \in Nat
    BY RefsFinite
  <2> HIDE DEF d
  <2>6. Cardinality(InCalls(held', f)) = Cardinality(InCalls(held, f)) + d
    BY <2>3, <2>4, <2>5
  <2>7. Cardinality(InFds(ofile, f)) + Cardinality(InCalls(held', f))
          = Cardinality(InFds(ofile, f)) + Cardinality(InCalls(held, f)) + d
    BY <2>3, <2>5, <2>6
  <2>8. ftable[f].ref + d = Cardinality(InFds(ofile, f)) + Cardinality(InCalls(held', f))
    BY <2>3, <2>7, RefSum
  <2>9. QED
    BY <1>2, <1>7, <2>8 DEF d
<1>10. FilesTyped'
  <2>1. SUFFICES ASSUME NEW f \in FileSlots
                 PROVE  /\ ftable'[f].ref = 0 => ftable'[f].type = "FD_NONE"
                        /\ ftable'[f].type = "FD_NONE" => ftable'[f].ref <= 1
    BY DEF FilesTyped
  <2>2. ftable[f].ref \in Nat
    BY Referring
  <2>3. ftable'[f].type = ftable[f].type
    BY <1>7 DEF SameFile
  <2>4. QED
    BY <1>1, <1>7, <2>2, <2>3 DEF FilesInv, FilesTyped
<1>11. Holds(p)' /\ Has(p)' /\ Works(p)'
  <2>1. Holds(p)'
    <3>1. pc'[p] \in {"alloc2", "alloc_page"} /\ ~(pc'[p] \in Idle)
      BY <1>2, <1>3 DEF Idle, Reading, Writing
    <3>2. /\ pc'[p] = "alloc2" => held'[p] = <<g>>
          /\ pc'[p] = "alloc_page" => \E f, h \in FileSlots : f # h /\ held'[p] = <<f, h>>
      BY <1>1, <1>3, <1>5
    <3>3. \A k \in DOMAIN held'[p] : ftable'[held'[p][k]].type = "FD_NONE"
      <4>1. \A k \in DOMAIN held[p] : ftable[held[p][k]].type = "FD_NONE"
        BY <1>5 DEF FilesInv, Holds
      <4>2. ftable'[g].type = "FD_NONE"
        BY <1>1, <1>4, <1>7 DEF SameFile
      <4>3. CASE held'[p] = <<g>>
        BY <4>2, <4>3
      <4>4. CASE \E f \in FileSlots : held[p] = <<f>> /\ held'[p] = <<f, g>>
        <5>1. PICK f \in FileSlots : held[p] = <<f>> /\ held'[p] = <<f, g>>
          BY <4>4
        <5>2. ftable'[f].type = "FD_NONE"
          BY <1>7, <4>1, <5>1 DEF SameFile
        <5>3. QED
          BY <4>2, <5>1, <5>2
      <4>5. QED
        BY <1>5, <4>3, <4>4
    <3>4. QED
      BY <1>1, <3>1, <3>2, <3>3 DEF Holds
  <2>2. Has(p)'
    <3>1. ofile[p] \in [Descriptors -> FileSlots \cup {NoFile}]
      BY DEF FilesInv, Typed, TypeOK
    <3>2. QED
      BY <1>2, <1>3, <1>7, <3>1 DEF Has, SameFile, FilesInv
  <2>3. Works(p)'
    BY <1>2, <1>3 DEF Works, Reading, Writing
  <2>4. QED
    BY <2>1, <2>2, <2>3
<1>12. Moves(p) /\ pc'[p] \in Outside
  BY <1>2, <1>3 DEF Moves, Outside
<1>13. QED
  BY <1>2, <1>6, <1>7, <1>8, <1>9, <1>10, <1>11, <1>12, TableKeeps

LEMMA SysDupKeeps ==
  ASSUME Dimensions, FilesInv, NEW p \in Procs, SysDup(p)
  PROVE  FilesInv'
<1> USE Basics
<1>1. PICK fd \in Fitting(p, "dup") :
        /\ ofile' = [ofile EXCEPT ![p][First(FreeFds(p))] = ofile[p][fd]]
        /\ ftable' = [ftable EXCEPT ![ofile[p][fd]].ref = @ + 1]
  BY DEF SysDup
<1>2. /\ FreeFds(p) # {} /\ fd \in Descriptors /\ ofile[p][fd] # NoFile
  BY DEF Fitting, OpenFds, FreeFds
<1>3. PICK e \in Descriptors : e = First(FreeFds(p)) /\ ofile[p][e] = NoFile
  BY <1>2, FirstOnes DEF FreeFds
<1>4. PICK g \in FileSlots : g = ofile[p][fd]
  BY <1>2 DEF FilesInv, Typed, TypeOK
<1>5. /\ pc[p] = "user"
      /\ UNCHANGED <<pipes, pc, cur, left, held, gaveup, killed, leaving>>
  BY DEF SysDup, Calls
<1>6. /\ ofile' \in [Procs -> [Descriptors -> FileSlots \cup {NoFile}]]
      /\ ofile'[p][e] = g
      /\ \A q \in Procs, d \in Descriptors : <<q, d>> # <<p, e>> => ofile'[q][d] = ofile[q][d]
      /\ \A q \in Procs \ {p} : ofile'[q] = ofile[q]
  BY <1>1, <1>3, <1>4 DEF FilesInv, Typed, TypeOK
<1>7. ftable[g].type = "FD_PIPE" /\ ftable[g].ref \in Nat
  <2>1. ftable[g].type = "FD_PIPE"
    BY <1>2, <1>4 DEF FilesInv, Has
  <2>2. QED
    BY <2>1, Referring
<1>8. \A f \in FileSlots : /\ SameFile(f) /\ ftable'[f] \in FileRecords
                           /\ ftable'[f].ref = ftable[f].ref + (IF f = g THEN 1 ELSE 0)
  <2>1. SUFFICES ASSUME NEW f \in FileSlots
                 PROVE  /\ SameFile(f) /\ ftable'[f] \in FileRecords
                        /\ ftable'[f].ref = ftable[f].ref + (IF f = g THEN 1 ELSE 0)
    OBVIOUS
  <2>2. ftable[f] \in FileRecords
    BY Referring
  <2>3. ftable'[f] = IF f = g THEN [ftable[f] EXCEPT !.ref = @ + 1] ELSE ftable[f]
    BY <1>1, <1>4 DEF FilesInv, Typed, TypeOK
  <2>4. QED
    BY <2>2, <2>3 DEF FileRecords, SameFile
<1>9. TypeOK'
  <2>1. ftable' \in [FileSlots -> FileRecords]
    BY <1>1, <1>8 DEF FilesInv, Typed, TypeOK
  <2>2. QED
    BY <1>5, <1>6, <2>1 DEF FilesInv, Typed, TypeOK, FileRecords
<1>10. Counted'
  <2>1. SUFFICES ASSUME NEW f \in FileSlots
                 PROVE  ftable'[f].ref
                          = Cardinality(InFds(ofile', f)) + Cardinality(InCalls(held, f))
    BY <1>5 DEF Counted, InFds, InCalls
  <2>2. DEFINE d == IF f = g THEN 1 ELSE 0
  <2>3. /\ Cardinality(InFds(ofile, f)) \in Nat /\ Cardinality(InFds(ofile', f)) \in Nat
        /\ Cardinality(InCalls(held, f)) \in Nat
    BY RefsFinite
  <2>4. Cardinality(InFds(ofile', f)) + Here(ofile, p, e, f)
          = Cardinality(InFds(ofile, f)) + Here(ofile', p, e, f)
    <3>1. SetsFd(ofile, ofile', p, e)
      BY <1>6 DEF SetsFd
    <3>2. e \in Descriptors
      BY <1>3
    <3> HIDE DEF d
    <3>3. QED
      BY <3>1, <3>2, FdCount
  <2>5. f # NoFile
    BY DEF FileSlots, NoFile
  <2>6. d \in Int /\ Here(ofile, p, e, f) = 0 /\ Here(ofile', p, e, f) = d
    BY <1>3, <1>6, <2>5 DEF Here
  <2> HIDE DEF d
  <2>7. Cardinality(InFds(ofile', f)) + Cardinality(InCalls(held, f))
          = Cardinality(InFds(ofile, f)) + Cardinality(InCalls(held, f)) + d
    BY <2>3, <2>4, <2>6
  <2>8. ftable[f].ref + d = Cardinality(InFds(ofile', f)) + Cardinality(InCalls(held, f))
    BY <2>6, <2>7, RefSum
  <2>9. QED
    BY <1>8, <2>8 DEF d
<1>11. FilesTyped'
  <2>1. SUFFICES ASSUME NEW f \in FileSlots
                 PROVE  /\ ftable'[f].ref = 0 => ftable'[f].type = "FD_NONE"
                        /\ ftable'[f].type = "FD_NONE" => ftable'[f].ref <= 1
    BY DEF FilesTyped
  <2>2. ftable[f].ref \in Nat
    BY Referring
  <2>3. ftable'[f].type = ftable[f].type
    BY <1>8 DEF SameFile
  <2>4. QED
    BY <1>7, <1>8, <2>2, <2>3 DEF FilesInv, FilesTyped
<1>12. Holds(p)' /\ Has(p)' /\ Works(p)'
  <2>1. Holds(p)' /\ Works(p)'
    BY <1>5 DEF Holds, Works, Reading, Writing, FilesInv, Idle
  <2>2. ASSUME NEW d \in Descriptors, ofile'[p][d] # NoFile
        PROVE  ftable'[ofile'[p][d]].type = "FD_PIPE"
    <3>1. CASE d = e
      BY <1>6, <1>7, <1>8, <3>1 DEF SameFile
    <3>2. CASE d # e
      <4>1. ofile'[p][d] = ofile[p][d] /\ ofile[p][d] \in FileSlots
        BY <1>6, <2>2, <3>2 DEF FilesInv, Typed, TypeOK
      <4>2. ftable[ofile[p][d]].type = "FD_PIPE"
        BY <2>2, <4>1 DEF FilesInv, Has
      <4>3. QED
        BY <1>8, <4>1, <4>2 DEF SameFile
    <3>3. QED
      BY <3>1, <3>2
  <2>3. Has(p)'
    BY <1>5, <2>2 DEF Has
  <2>4. QED
    BY <2>1, <2>3
<1>13. Moves(p) /\ pc'[p] \in Outside
  BY <1>5 DEF Moves, Outside
<1>14. held' \in [Procs -> Short]
  BY <1>5 DEF FilesInv, Typed
<1>15. QED
  BY <1>5, <1>6, <1>8, <1>9, <1>10, <1>11, <1>12, <1>13, <1>14, TableKeeps

\* The reference of a descriptor goes to the call that closes it.
LEMMA SysCloseKeeps ==
  ASSUME Dimensions, FilesInv, NEW p \in Procs, SysClose(p)
  PROVE  FilesInv'
<1> USE Basics
<1>1. PICK fd \in Fitting(p, "close") :
        /\ held' = [held EXCEPT ![p] = <<ofile[p][fd]>>]
        /\ ofile' = [ofile EXCEPT ![p][fd] = NoFile]
  BY DEF SysClose
<1>2. fd \in Descriptors /\ ofile[p][fd] # NoFile
  BY DEF Fitting, OpenFds, FreeFds
<1>3. PICK g \in FileSlots : g = ofile[p][fd]
  BY <1>2 DEF FilesInv, Typed, TypeOK
<1>4. /\ pc[p] = "user" /\ pc'[p] = "close"
      /\ pc' \in [Procs -> Steps] /\ \A q \in Procs \ {p} : pc'[q] = pc[q]
      /\ UNCHANGED <<pipes, cur, left, ftable, gaveup, killed, leaving>>
  BY StepNames DEF SysClose, Calls, Goto, FilesInv, Typed, TypeOK
<1>5. /\ ofile' \in [Procs -> [Descriptors -> FileSlots \cup {NoFile}]]
      /\ ofile'[p][fd] = NoFile
      /\ \A q \in Procs, d \in Descriptors : <<q, d>> # <<p, fd>> => ofile'[q][d] = ofile[q][d]
      /\ \A q \in Procs \ {p} : ofile'[q] = ofile[q]
  BY <1>1, <1>2 DEF FilesInv, Typed, TypeOK
<1>6. /\ held[p] = << >> /\ held'[p] = <<g>> /\ held' \in [Procs -> Short]
      /\ \A q \in Procs \ {p} : held'[q] = held[q]
  <2>1. held[p] = << >>
    BY <1>4 DEF FilesInv, Holds, Idle
  <2>2. held \in [Procs -> Short] /\ <<g>> \in Short
    BY DEF FilesInv, Typed, Short
  <2>3. QED
    BY <1>1, <1>3, <2>1, <2>2
<1>7. TypeOK'
  <2>1. <<g>> \in Seq(FileSlots)
    OBVIOUS
  <2>2. held' \in [Procs -> Seq(FileSlots)]
    BY <1>1, <1>3, <2>1 DEF FilesInv, Typed, TypeOK
  <2>3. QED
    BY <1>4, <1>5, <2>2 DEF FilesInv, Typed, TypeOK
<1>8. Counted'
  <2>1. SUFFICES ASSUME NEW f \in FileSlots
                 PROVE  ftable'[f].ref
                          = Cardinality(InFds(ofile', f)) + Cardinality(InCalls(held', f))
    BY DEF Counted, InFds, InCalls
  <2>2. DEFINE d == IF f = g THEN 1 ELSE 0
  <2>3. /\ Cardinality(InFds(ofile, f)) \in Nat /\ Cardinality(InFds(ofile', f)) \in Nat
        /\ Cardinality(InCalls(held, f)) \in Nat /\ Cardinality(InCalls(held', f)) \in Nat
    BY RefsFinite
  <2>4. Cardinality(InFds(ofile', f)) + Here(ofile, p, fd, f)
          = Cardinality(InFds(ofile, f)) + Here(ofile', p, fd, f)
    <3>1. SetsFd(ofile, ofile', p, fd)
      BY <1>5 DEF SetsFd
    <3>2. fd \in Descriptors
      BY <1>2
    <3>3. QED
      BY <3>1, <3>2, FdCount
  <2>5. f # NoFile
    BY DEF FileSlots, NoFile
  <2>6. d \in Int /\ Here(ofile, p, fd, f) = d /\ Here(ofile', p, fd, f) = 0
    BY <1>3, <1>5, <2>5 DEF Here
  <2>7. In(held[p], f) = 0 /\ In(held'[p], f) = d
    <3>1. In(<< >>, f) = 0
      BY InShort
    <3>2. In(<<g>>, f) = IF g = f THEN 1 ELSE 0
      BY InShort
    <3>3. QED
      BY <1>6, <3>1, <3>2
  <2>8. Cardinality(InCalls(held', f)) + In(held[p], f)
          = Cardinality(InCalls(held, f)) + In(held'[p], f)
    <3>1. SetsCall(held, held', p)
      BY <1>6 DEF SetsCall, FilesInv, Typed
    <3>2. QED
      BY <3>1, CallCount
  <2> HIDE DEF d
  <2>9. Cardinality(InFds(ofile', f)) + Cardinality(InCalls(held', f))
          = Cardinality(InFds(ofile, f)) + Cardinality(InCalls(held, f)) + 0
    BY <2>3, <2>4, <2>6, <2>7, <2>8
  <2>10. ftable[f].ref + 0 = Cardinality(InFds(ofile', f)) + Cardinality(InCalls(held', f))
    BY <2>9, RefSum
  <2>11. QED
    BY <1>4, <2>10, Referring
<1>9. FilesTyped'
  BY <1>4 DEF FilesInv, FilesTyped
<1>10. Holds(p)' /\ Has(p)' /\ Works(p)'
  <2>1. Holds(p)' /\ Works(p)'
    BY <1>4 DEF Holds, Works, Reading, Writing, Idle
  <2>2. Has(p)'
    BY <1>4, <1>5 DEF Has, FilesInv
  <2>3. QED
    BY <2>1, <2>2
<1>11. Moves(p) /\ pc'[p] \in Outside /\ \A f \in FileSlots : SameFile(f)
  BY <1>4 DEF Moves, Outside, SameFile
<1>12. QED
  BY <1>4, <1>5, <1>6, <1>7, <1>8, <1>9, <1>10, <1>11, TableKeeps

\* fork(): the child is the one that moves.
LEMMA ForkKeeps ==
  ASSUME Dimensions, FilesInv, NEW p \in Procs, Fork(p)
  PROVE  FilesInv'
<1> USE Basics
<1>1. PICK np \in Fitting(p, "fork") :
        /\ ofile' = [ofile EXCEPT ![np] = ofile[p]]
        /\ Goto(np, "user")
  BY DEF Fork
<1>2. np \in Procs /\ pc[np] = "unused"
  BY DEF Fitting
<1>3. /\ pc[p] = "user" /\ np # p
      /\ UNCHANGED <<pipes, cur, left, held, gaveup, killed, leaving>>
      /\ ftable' = [f \in FileSlots |-> [ftable[f] EXCEPT !.ref = ForkRef(f, p)]]
  BY <1>2 DEF Fork, Calls
<1>4. /\ pc'[np] = "user"
      /\ pc' \in [Procs -> Steps] /\ \A q \in Procs \ {np} : pc'[q] = pc[q]
  BY <1>1, <1>2, StepNames DEF Goto, FilesInv, Typed, TypeOK
<1>5. /\ ofile' \in [Procs -> [Descriptors -> FileSlots \cup {NoFile}]]
      /\ ofile'[np] = ofile[p]
      /\ \A q \in Procs \ {np} : ofile'[q] = ofile[q]
  BY <1>1, <1>2 DEF FilesInv, Typed, TypeOK
<1>6. \A f \in FileSlots :
        LET S == {fd \in Descriptors : ofile[p][fd] = f} IN
        /\ Cardinality(S) \in Nat
        /\ Cardinality(S) # 0 => \E fd \in Descriptors : ofile[p][fd] = f
        /\ SameFile(f) /\ ftable'[f] \in FileRecords
        /\ ftable'[f].ref = ftable[f].ref + Cardinality(S)
  <2>1. SUFFICES ASSUME NEW f \in FileSlots
                 PROVE  LET S == {fd \in Descriptors : ofile[p][fd] = f} IN
                        /\ Cardinality(S) \in Nat
                        /\ Cardinality(S) # 0 => \E fd \in Descriptors : ofile[p][fd] = f
                        /\ SameFile(f) /\ ftable'[f] \in FileRecords
                        /\ ftable'[f].ref = ftable[f].ref + Cardinality(S)
    OBVIOUS
  <2> DEFINE S == {fd \in Descriptors : ofile[p][fd] = f}
  <2>2. IsFiniteSet(S) /\ Cardinality(S) \in Nat
    <3>1. IsFiniteSet(S)
      BY Finite, FS_Subset
    <3>2. QED
      BY <3>1, FS_CardinalityType
  <2>3. Cardinality(S) # 0 => S # {}
    BY FS_EmptySet
  <2>4. ftable[f] \in FileRecords
    BY Referring
  <2>5. ForkRef(f, p) = ftable[f].ref + Cardinality(S)
    BY DEF ForkRef
  <2>6. ftable'[f] = [ftable[f] EXCEPT !.ref = ftable[f].ref + Cardinality(S)]
    BY <1>3, <2>5
  <2>7. PICK n \in Nat : n = Cardinality(S)
    BY <2>2
  <2>8. SameFile(f) /\ ftable'[f] \in FileRecords /\ ftable'[f].ref = ftable[f].ref + n
    BY <2>4, <2>6, <2>7 DEF FileRecords, SameFile
  <2>9. QED
    BY <2>2, <2>3, <2>7, <2>8
<1>7. TypeOK'
  <2>1. ftable' \in [FileSlots -> FileRecords]
    BY <1>3, <1>6
  <2>2. QED
    BY <1>3, <1>4, <1>5, <2>1 DEF FilesInv, Typed, TypeOK, FileRecords
<1>8. Counted'
  <2>1. SUFFICES ASSUME NEW f \in FileSlots
                 PROVE  ftable'[f].ref
                          = Cardinality(InFds(ofile', f)) + Cardinality(InCalls(held, f))
    BY <1>3 DEF Counted, InFds, InCalls
  <2>2. PICK d \in Nat : d = Cardinality({fd \in Descriptors : ofile[p][fd] = f})
    BY <1>6
  <2>3. /\ Cardinality(InFds(ofile, f)) \in Nat /\ Cardinality(InFds(ofile', f)) \in Nat
        /\ Cardinality(InCalls(held, f)) \in Nat
    BY RefsFinite
  <2>4. \A e \in Descriptors : ofile[np][e] = NoFile
    BY <1>2 DEF FilesInv, Has
  <2>5. Cardinality(InFds(ofile', f)) = Cardinality(InFds(ofile, f)) + d
    <3>1. Copied(ofile, ofile', p, np)
      BY <1>5, <2>4 DEF Copied
    <3>2. np \in Procs
      BY <1>2
    <3>3. Cardinality(InFds(ofile', f)) = Cardinality(InFds(ofile, f))
            + Cardinality(Fds(ofile, p, f))
      BY <3>1, <3>2, ForkCount
    <3>4. QED
      BY <2>2, <3>3 DEF Fds
  <2>6. Cardinality(InFds(ofile', f)) + Cardinality(InCalls(held, f))
          = Cardinality(InFds(ofile, f)) + Cardinality(InCalls(held, f)) + d
    BY <2>3, <2>5
  <2>7. ftable[f].ref + d = Cardinality(InFds(ofile', f)) + Cardinality(InCalls(held, f))
    BY <2>6, RefSum
  <2>8. QED
    BY <1>6, <2>2, <2>7
<1>9. FilesTyped'
  <2>1. SUFFICES ASSUME NEW f \in FileSlots
                 PROVE  /\ ftable'[f].ref = 0 => ftable'[f].type = "FD_NONE"
                        /\ ftable'[f].type = "FD_NONE" => ftable'[f].ref <= 1
    BY DEF FilesTyped
  <2>2. PICK d \in Nat : /\ d # 0 => \E fd \in Descriptors : ofile[p][fd] = f
                         /\ ftable'[f].ref = ftable[f].ref + d
    BY <1>6
  <2>3. ftable[f].ref \in Nat
    BY Referring
  <2>4. ftable'[f].type = ftable[f].type
    BY <1>6 DEF SameFile
  <2>5. CASE d = 0
    BY <2>2, <2>3, <2>4, <2>5 DEF FilesInv, FilesTyped
  <2>6. CASE d # 0
    <3>1. PICK fd \in Descriptors : ofile[p][fd] = f
      BY <2>2, <2>6
    <3>2. f # NoFile
      BY DEF FileSlots, NoFile
    <3>3. ftable[f].type = "FD_PIPE"
      BY <3>1, <3>2 DEF FilesInv, Has
    <3>4. ftable'[f].ref # 0
      BY <2>2, <2>3, <2>6
    <3>5. QED
      BY <2>4, <3>3, <3>4
  <2>7. QED
    BY <2>5, <2>6
<1>10. Holds(np)' /\ Has(np)' /\ Works(np)'
  <2>1. Holds(np)' /\ Works(np)'
    BY <1>2, <1>3, <1>4 DEF Holds, Works, Reading, Writing, Idle, FilesInv
  <2>2. ASSUME NEW d \in Descriptors, ofile[p][d] # NoFile
        PROVE  ftable'[ofile[p][d]].type = "FD_PIPE"
    <3>1. ofile[p][d] \in FileSlots /\ ftable[ofile[p][d]].type = "FD_PIPE"
      BY <2>2 DEF FilesInv, Typed, TypeOK, Has
    <3>2. QED
      BY <1>6, <3>1 DEF SameFile
  <2>3. Has(np)'
    BY <1>4, <1>5, <2>2 DEF Has
  <2>4. QED
    BY <2>1, <2>3
<1>11. Moves(np) /\ pc'[np] \in Outside
  BY <1>2, <1>3, <1>4 DEF Moves, Outside
<1>12. held' \in [Procs -> Short] /\ \A f \in FileSlots : SameFile(f)
  BY <1>3, <1>6 DEF FilesInv, Typed
<1>13. QED
  BY <1>2, <1>3, <1>5, <1>7, <1>8, <1>9, <1>10, <1>11, <1>12, TableKeeps

-----------------------------------------------------------------------------
(* fileclose() *)

\* What fileclose(f) does to the table, whoever held the reference.
Closed(p, f) ==
  /\ pc[p] = "close" /\ ftable[f].ref > 0
  /\ \/ \E k \in DOMAIN held[p] : held[p][k] = f
     \/ \E d \in Descriptors : ofile[p][d] = f
  /\ held' \in [Procs -> Short]
  /\ ofile' \in [Procs -> [Descriptors -> FileSlots \cup {NoFile}]]
  /\ \A q \in Procs \ {p} : ofile'[q] = ofile[q] /\ held'[q] = held[q]
  /\ \A d \in Descriptors : ofile'[p][d] = NoFile \/ ofile'[p][d] = ofile[p][d]
  /\ ftable[f].ref = 1 => \A d \in Descriptors : ofile'[p][d] # f

LEMMA ClosedFile ==
  ASSUME Dimensions, FilesInv, NEW p \in Procs, NEW f \in FileSlots, FileClose(p, f),
         held' \in [Procs -> Short],
         ofile' \in [Procs -> [Descriptors -> FileSlots \cup {NoFile}]]
  PROVE  /\ ftable' \in [FileSlots -> FileRecords]
         /\ \A g \in FileSlots \ {f} : ftable'[g] = ftable[g]
         /\ ftable'[f].ref = ftable[f].ref - 1 /\ ftable'[f].type = TypeAfter(f)
         /\ ftable'[f].pipe = ftable[f].pipe /\ ftable'[f].writable = ftable[f].writable
         /\ UNCHANGED <<pipes, left, gaveup, killed, leaving>>
         /\ TypeOK' /\ FilesTyped'
<1> USE Basics
<1>1. ftable \in [FileSlots -> FileRecords]
  BY DEF FilesInv, Typed, TypeOK, FileRecords
<1>2. ftable[f].ref - 1 \in Nat /\ TypeAfter(f) \in {"FD_NONE", "FD_PIPE"}
  BY <1>1, Referring DEF FileClose, TypeAfter, FileRecords
<1>3. ftable' = [ftable EXCEPT ![f] = [ftable[f] EXCEPT !.ref = @ - 1, !.type = TypeAfter(f)]]
  BY <1>1 DEF FileClose
<1>4. [ftable[f] EXCEPT !.ref = @ - 1, !.type = TypeAfter(f)] \in FileRecords
  BY <1>1, <1>2 DEF FileRecords
<1>5. /\ ftable' \in [FileSlots -> FileRecords]
      /\ \A g \in FileSlots \ {f} : ftable'[g] = ftable[g]
  BY <1>1, <1>3, <1>4
<1>6. /\ ftable'[f].ref = ftable[f].ref - 1 /\ ftable'[f].type = TypeAfter(f)
      /\ ftable'[f].pipe = ftable[f].pipe /\ ftable'[f].writable = ftable[f].writable
  BY <1>1, <1>3 DEF FileRecords
<1>7. UNCHANGED <<pipes, left, gaveup, killed, leaving>>
  BY DEF FileClose, Inside
<1>8. /\ cur' \in [Procs -> Pipes] /\ pc' \in [Procs -> Steps]
  <2>1. cur \in [Procs -> Pipes] /\ pc \in [Procs -> Steps] /\ ftable[f].pipe \in Pipes
    BY <1>1 DEF FilesInv, Typed, TypeOK, FileRecords
  <2>2. "close_write" \in Steps /\ "close_read" \in Steps
    BY StepNames
  <2>3. CASE ClosesEnd(f)
    BY <2>1, <2>2, <2>3 DEF FileClose, Goto
  <2>4. CASE ~ClosesEnd(f)
    BY <2>1, <2>4 DEF FileClose
  <2>5. QED
    BY <2>3, <2>4
<1>9. held' \in [Procs -> Seq(FileSlots)]
  <2>1. ASSUME NEW s \in Short PROVE s \in Seq(FileSlots)
    <3>1. /\ << >> \in Seq(FileSlots)
          /\ \A g \in FileSlots : <<g>> \in Seq(FileSlots)
          /\ \A g, h \in FileSlots : <<g, h>> \in Seq(FileSlots)
      OBVIOUS
    <3>2. CASE s = << >>
      BY <3>1, <3>2
    <3>3. CASE \E g \in FileSlots : s = <<g>>
      BY <3>1, <3>3
    <3>4. CASE \E g, h \in FileSlots : s = <<g, h>>
      BY <3>1, <3>4
    <3>5. QED
      BY <3>2, <3>3, <3>4, ShortIs
  <2>2. QED
    BY <2>1
<1>10. TypeOK'
  BY <1>5, <1>7, <1>8, <1>9 DEF FilesInv, Typed, TypeOK, FileRecords
<1>11. FilesTyped'
  <2>1. ftable[f].ref \in Nat /\ ftable[f].ref > 0
    BY Referring DEF FileClose
  <2>2. ftable[f].type = "FD_NONE" => ftable[f].ref <= 1
    BY DEF FilesInv, FilesTyped
  <2>3. /\ ftable'[f].ref = 0 => ftable'[f].type = "FD_NONE"
        /\ ftable'[f].type = "FD_NONE" => ftable'[f].ref <= 1
    BY <1>6, <2>1, <2>2 DEF TypeAfter
  <2>4. QED
    BY <1>5, <2>3 DEF FilesInv, FilesTyped
<1>12. QED
  BY <1>5, <1>6, <1>7, <1>10, <1>11

\* Another reference is left, or the file was never filled in.
LEMMA FileCloseKeeps ==
  ASSUME Dimensions, FilesInv, NEW p \in Procs, NEW f \in FileSlots, FileClose(p, f),
         Closed(p, f), Counted', ~ClosesEnd(f)
  PROVE  FilesInv'
<1> USE Basics
<1>1. held' \in [Procs -> Short]
      /\ ofile' \in [Procs -> [Descriptors -> FileSlots \cup {NoFile}]]
  BY DEF Closed
<1>2. /\ \A g \in FileSlots \ {f} : ftable'[g] = ftable[g]
      /\ ftable'[f].ref = ftable[f].ref - 1 /\ ftable'[f].type = TypeAfter(f)
      /\ ftable'[f].pipe = ftable[f].pipe /\ ftable'[f].writable = ftable[f].writable
      /\ UNCHANGED <<pipes, left, gaveup, killed, leaving>>
      /\ TypeOK' /\ FilesTyped'
  BY <1>1, ClosedFile
<1>3. UNCHANGED <<pc, cur>> /\ pc[p] = "close"
  BY DEF FileClose, Closed
<1>4. \A g \in FileSlots : SameFile(g)
  <2>1. ftable[f] \in FileRecords
    BY Referring
  <2>2. TypeAfter(f) = ftable[f].type
    BY <2>1 DEF TypeAfter, ClosesEnd, FileRecords
  <2>3. QED
    BY <1>2, <2>2 DEF SameFile
<1>5. Moves(p) /\ pc'[p] \in Outside
  BY <1>2, <1>3 DEF Moves, Outside
<1>6. Holds(p)' /\ Has(p)' /\ Works(p)'
  <2>1. Holds(p)' /\ Works(p)'
    BY <1>3 DEF Holds, Works, Reading, Writing, Idle
  <2>2. \A d \in Descriptors : ofile'[p][d] # NoFile =>
          ofile'[p][d] = ofile[p][d] /\ ofile[p][d] \in FileSlots
    BY DEF Closed, FilesInv, Typed, TypeOK
  <2>3. Has(p)'
    BY <1>3, <1>4, <2>2 DEF Has, SameFile, FilesInv
  <2>4. QED
    BY <2>1, <2>3
<1>7. \A q \in Procs \ {p} : ofile'[q] = ofile[q] /\ held'[q] = held[q]
  BY DEF Closed
<1>8. QED
  BY <1>1, <1>2, <1>4, <1>5, <1>6, <1>7, TableKeeps

\* The last reference: the process takes the place of the file.
LEMMA LastCloseKeeps ==
  ASSUME Dimensions, FilesInv, NEW p \in Procs, NEW f \in FileSlots, FileClose(p, f),
         Closed(p, f), Counted', ClosesEnd(f)
  PROVE  FilesInv'
<1> USE Basics
<1>1. held' \in [Procs -> Short]
      /\ ofile' \in [Procs -> [Descriptors -> FileSlots \cup {NoFile}]]
  BY DEF Closed
<1>2. /\ \A g \in FileSlots \ {f} : ftable'[g] = ftable[g]
      /\ ftable'[f].ref = ftable[f].ref - 1 /\ ftable'[f].type = TypeAfter(f)
      /\ ftable'[f].pipe = ftable[f].pipe /\ ftable'[f].writable = ftable[f].writable
      /\ UNCHANGED <<pipes, left, gaveup, killed, leaving>>
      /\ TypeOK' /\ FilesTyped'
  BY <1>1, ClosedFile
<1>3. /\ ftable[f].ref = 1 /\ ftable[f].type = "FD_PIPE" /\ ftable'[f].type = "FD_NONE"
      /\ ftable[f].pipe \in Pipes /\ ftable[f].writable \in BOOLEAN
  BY <1>2, Referring DEF ClosesEnd, TypeAfter, FileRecords
<1>4. PICK pi \in Pipes, w \in BOOLEAN : pi = ftable[f].pipe /\ w = ftable[f].writable
  BY <1>3
<1>5. /\ pc[p] = "close" /\ pc'[p] = (IF w THEN "close_write" ELSE "close_read")
      /\ cur'[p] = pi
      /\ \A q \in Procs \ {p} : pc'[q] = pc[q] /\ cur'[q] = cur[q]
  BY <1>4 DEF FileClose, Closed, Goto, FilesInv, Typed, TypeOK
<1>6. Moves(p)
  BY <1>2, <1>5 DEF Moves, Outside
<1>7. LocksHeld' /\ \A q \in Procs : Sleeps(q)'
  BY <1>2, <1>6, Quiet
<1>8. /\ \A q \in Procs \ {p}, d \in Descriptors : ofile[q][d] # f
      /\ \A q \in Procs \ {p} : \A k \in DOMAIN held[q] : held[q][k] # f
  <2>1. ftable[f].ref <= 1
    BY <1>3
  <2>2. CASE \E k \in DOMAIN held[p] : held[p][k] = f
    BY <2>1, <2>2, Referring
  <2>3. CASE \E d \in Descriptors : ofile[p][d] = f
    BY <2>1, <2>3, Referring
  <2>4. QED
    BY <2>2, <2>3 DEF Closed
<1>9. ASSUME NEW q \in Procs \ {p} PROVE Holds(q)' /\ Has(q)' /\ Works(q)'
  <2>1. \A d \in Descriptors : ofile[q][d] # NoFile => SameFile(ofile[q][d])
    <3>1. \A d \in Descriptors : ofile[q][d] # NoFile => ofile[q][d] \in FileSlots \ {f}
      BY <1>8 DEF FilesInv, Typed, TypeOK
    <3>2. QED
      BY <1>2, <3>1 DEF SameFile
  <2>2. \A k \in DOMAIN held[q] : held[q][k] \in FileSlots \ {f}
    BY <1>8, ShortIs DEF FilesInv, Typed
  <2>3. \A k \in DOMAIN held[q] : SameFile(held[q][k])
    BY <1>2, <2>2 DEF SameFile
  <2>4. /\ ofile'[q] = ofile[q] /\ held'[q] = held[q]
        /\ pc'[q] = pc[q] /\ cur'[q] = cur[q] /\ left'[q] = left[q]
    BY <1>2, <1>5 DEF Closed
  <2>5. QED
    BY <2>1, <2>3, <2>4, OthersKeep
<1>10. Holds(p)' /\ Has(p)' /\ Works(p)'
  <2>1. Holds(p)' /\ Works(p)'
    BY <1>5 DEF Holds, Works, Reading, Writing, Idle
  <2>2. \A d \in Descriptors : ofile'[p][d] # NoFile =>
          ofile'[p][d] = ofile[p][d] /\ ofile[p][d] \in FileSlots \ {f}
    BY <1>3 DEF Closed, FilesInv, Typed, TypeOK
  <2>3. Has(p)'
    BY <1>2, <1>5, <2>2 DEF Has, FilesInv
  <2>4. QED
    BY <2>1, <2>3
<1>11. Ends'
  <2>1. \A g \in FileSlots, qi \in Pipes, v \in BOOLEAN :
          IsEnd(g, qi, v)' <=> IsEnd(g, qi, v) /\ g # f
    BY <1>2, <1>3 DEF IsEnd
  <2>2. \A qi \in Pipes, v \in BOOLEAN : IsEnd(f, qi, v) <=> qi = pi /\ v = w
    BY <1>3, <1>4 DEF IsEnd
  <2>3. \A q \in Procs, qi \in Pipes, v \in BOOLEAN :
          Closes(q, qi, v)' <=> Closes(q, qi, v) \/ (q = p /\ qi = pi /\ v = w)
    BY <1>5 DEF Closes, Closing
  <2>4. \A qi \in Pipes, v \in BOOLEAN : IsOpen(qi, v)' = IsOpen(qi, v)
    BY <1>2 DEF IsOpen
  <2>5. ASSUME NEW qi \in Pipes, NEW v \in BOOLEAN PROVE OneEach(qi, v)'
    <3>1. OneEach(qi, v)
      BY DEF FilesInv, Ends
    <3>2. CASE qi = pi /\ v = w
      <4>1. IsEnd(f, qi, v)
        BY <2>2, <3>2
      <4>2. /\ \A g \in FileSlots : ~IsEnd(g, qi, v)'
            /\ \A q \in Procs : Closes(q, qi, v)' <=> q = p
            /\ IsOpen(qi, v)
        BY <2>1, <2>3, <3>1, <3>2, <4>1 DEF OneEach
      <4>3. QED
        BY <2>4, <4>2 DEF OneEach
    <3>3. CASE ~(qi = pi /\ v = w)
      <4>1. /\ \A g \in FileSlots : IsEnd(g, qi, v)' <=> IsEnd(g, qi, v)
            /\ \A q \in Procs : Closes(q, qi, v)' <=> Closes(q, qi, v)
        BY <2>1, <2>2, <2>3, <3>3
      <4>2. QED
        BY <2>4, <3>1, <4>1 DEF OneEach
    <3>4. QED
      BY <3>2, <3>3
  <2>6. QED
    BY <2>5 DEF Ends
<1>12. \A qi \in Pipes : Page(qi)'
  <2>1. \A q \in Procs, qi \in Pipes : Frees(q, qi)' <=> Frees(q, qi)
    BY <1>5 DEF Frees
  <2>2. QED
    BY <1>2, <2>1 DEF FilesInv, Page
<1>13. QED
  BY <1>1, <1>2, <1>7, <1>9, <1>10, <1>11, <1>12 DEF FilesInv, Typed

\* The counts after a fileclose() of f, the reference that goes being one of
\* p's descriptors or one that its call holds.
LEMMA CloseCounts ==
  ASSUME Dimensions, FilesInv, NEW p \in Procs, NEW f \in FileSlots, FileClose(p, f),
         Closed(p, f),
         \A g \in FileSlots :
           Cardinality(InFds(ofile', g)) + Cardinality(InCalls(held', g))
             = Cardinality(InFds(ofile, g)) + Cardinality(InCalls(held, g))
                 + (IF g = f THEN -1 ELSE 0)
  PROVE  Counted'
<1>1. /\ \A g \in FileSlots \ {f} : ftable'[g] = ftable[g]
      /\ ftable'[f].ref = ftable[f].ref - 1
  BY ClosedFile DEF Closed
<1>2. SUFFICES ASSUME NEW g \in FileSlots
               PROVE  ftable'[g].ref
                        = Cardinality(InFds(ofile', g)) + Cardinality(InCalls(held', g))
  BY DEF Counted, InFds, InCalls
<1>3. PICK d \in Int : d = IF g = f THEN -1 ELSE 0
  OBVIOUS
<1>4. ftable[g].ref + d = Cardinality(InFds(ofile', g)) + Cardinality(InCalls(held', g))
  BY <1>3, RefSum
<1>5. ftable[g].ref \in Nat
  BY Referring
<1>6. QED
  BY <1>1, <1>3, <1>4, <1>5

LEMMA CloseHeldKeeps ==
  ASSUME Dimensions, FilesInv, NEW p \in Procs, CloseHeld(p)
  PROVE  FilesInv'
<1> USE Basics
<1>1. held[p] # << >> /\ held[p] \in Short /\ held \in [Procs -> Short]
  BY DEF CloseHeld, FilesInv, Typed
<1>2. PICK f \in FileSlots :
        /\ f = Head(held[p])
        /\ \/ held[p] = <<f>> /\ Tail(held[p]) = << >>
           \/ \E g \in FileSlots : g # f /\ held[p] = <<f, g>> /\ Tail(held[p]) = <<g>>
  <2>1. CASE \E f \in FileSlots : held[p] = <<f>>
    <3>1. PICK f \in FileSlots : held[p] = <<f>>
      BY <2>1
    <3>2. Head(<<f>>) = f /\ Tail(<<f>>) = << >>
      OBVIOUS
    <3>3. QED
      BY <3>1, <3>2
  <2>2. CASE \E f, g \in FileSlots : f # g /\ held[p] = <<f, g>>
    <3>1. PICK f \in FileSlots, g \in FileSlots : f # g /\ held[p] = <<f, g>>
      BY <2>2
    <3>2. Head(<<f, g>>) = f /\ Tail(<<f, g>>) = <<g>>
      OBVIOUS
    <3>3. QED
      BY <3>1, <3>2
  <2>3. QED
    BY <1>1, <2>1, <2>2, ShortIs
<1>3. FileClose(p, f) /\ held' = [held EXCEPT ![p] = Tail(@)] /\ UNCHANGED ofile
  BY <1>2 DEF CloseHeld
<1>4. held' \in [Procs -> Short] /\ held'[p] = Tail(held[p])
      /\ \A q \in Procs : q # p => held'[q] = held[q]
  <2>1. Tail(held[p]) \in Short
    BY <1>2 DEF Short
  <2>2. QED
    BY <1>1, <1>3, <2>1
<1>5. \E k \in DOMAIN held[p] : held[p][k] = f
  BY <1>2
<1>6. ofile \in [Procs -> [Descriptors -> FileSlots \cup {NoFile}]]
  BY DEF FilesInv, Typed, TypeOK
<1>7. Closed(p, f)
  <2>1. pc[p] = "close" /\ ftable[f].ref > 0
    BY <1>3 DEF CloseHeld, FileClose
  <2>2. ftable[f].ref = 1 => \A d \in Descriptors : ofile'[p][d] # f
    BY <1>3, <1>5, Referring
  <2>3. QED
    BY <1>3, <1>4, <1>5, <1>6, <2>1, <2>2 DEF Closed
<1>8. ASSUME NEW g \in FileSlots
      PROVE  Cardinality(InFds(ofile', g)) + Cardinality(InCalls(held', g))
               = Cardinality(InFds(ofile, g)) + Cardinality(InCalls(held, g))
                   + (IF g = f THEN -1 ELSE 0)
  <2>1. /\ Cardinality(InFds(ofile, g)) \in Nat
        /\ Cardinality(InCalls(held, g)) \in Nat /\ Cardinality(InCalls(held', g)) \in Nat
    BY RefsFinite
  <2>2. Cardinality(InCalls(held', g)) + In(held[p], g)
          = Cardinality(InCalls(held, g)) + In(held'[p], g)
    <3>1. SetsCall(held, held', p)
      BY <1>1, <1>4 DEF SetsCall
    <3>2. QED
      BY <3>1, CallCount
  <2>3. In(held[p], g) \in Nat /\ In(held[p], g) = In(held'[p], g) + (IF g = f THEN 1 ELSE 0)
    <3>1. In(<< >>, g) = 0
      BY InShort
    <3>2. In(<<f>>, g) = IF f = g THEN 1 ELSE 0
      BY InShort
    <3>3. \A h \in FileSlots : /\ In(<<h>>, g) = IF h = g THEN 1 ELSE 0
                               /\ In(<<f, h>>, g) = IF f = g \/ h = g THEN 1 ELSE 0
      BY InShort
    <3>4. CASE held[p] = <<f>> /\ Tail(held[p]) = << >>
      BY <1>4, <3>1, <3>2, <3>4
    <3>5. CASE \E h \in FileSlots : h # f /\ held[p] = <<f, h>> /\ Tail(held[p]) = <<h>>
      <4>1. PICK h \in FileSlots : h # f /\ held[p] = <<f, h>> /\ Tail(held[p]) = <<h>>
        BY <3>5
      <4>2. /\ In(<<h>>, g) = IF h = g THEN 1 ELSE 0
            /\ In(<<f, h>>, g) = IF f = g \/ h = g THEN 1 ELSE 0
        BY <3>3
      <4>3. QED
        BY <1>4, <4>1, <4>2
    <3>6. QED
      BY <1>2, <3>4, <3>5
  <2>4. PICK a \in Nat, b \in Nat, c \in Nat :
          a = Cardinality(InFds(ofile, g)) /\ b = Cardinality(InCalls(held, g))
            /\ c = Cardinality(InCalls(held', g))
    BY <2>1
  <2>5. PICK i \in Nat : i = In(held[p], g)
    BY <2>3
  <2>6. c + i = b + In(held'[p], g)
    BY <2>2, <2>4, <2>5
  <2>7. In(held'[p], g) \in Nat
    BY DEF In
  <2>8. c = b + (IF g = f THEN -1 ELSE 0)
    BY <2>3, <2>5, <2>6, <2>7
  <2>9. QED
    BY <1>3, <2>4, <2>8
<1>9. Counted'
  BY <1>3, <1>7, <1>8, CloseCounts
<1>10. QED
  BY <1>3, <1>7, <1>9, FileCloseKeeps, LastCloseKeeps

LEMMA CloseOpenKeeps ==
  ASSUME Dimensions, FilesInv, NEW p \in Procs, CloseOpen(p)
  PROVE  FilesInv'
<1> USE Basics
<1>1. PICK fd \in OpenFds(p) :
        FileClose(p, ofile[p][fd]) /\ ofile' = [ofile EXCEPT ![p][fd] = NoFile]
  <2>1. OpenFds(p) # {} /\ OpenFds(p) \in SUBSET Descriptors
    BY DEF CloseOpen, OpenFds
  <2>2. First(OpenFds(p)) \in OpenFds(p)
    BY <2>1, FirstOnes
  <2>3. QED
    BY <2>2 DEF CloseOpen
<1>2. fd \in Descriptors /\ ofile[p][fd] # NoFile
  BY DEF OpenFds, FreeFds
<1>3. PICK f \in FileSlots : f = ofile[p][fd]
  BY <1>2 DEF FilesInv, Typed, TypeOK
<1>4. FileClose(p, f) /\ UNCHANGED held
  BY <1>1, <1>3 DEF CloseOpen
<1>5. /\ ofile' \in [Procs -> [Descriptors -> FileSlots \cup {NoFile}]]
      /\ ofile'[p][fd] = NoFile
      /\ \A q \in Procs \ {p} : ofile'[q] = ofile[q]
      /\ \A d \in Descriptors : d # fd => ofile'[p][d] = ofile[p][d]
  BY <1>1, <1>2 DEF FilesInv, Typed, TypeOK
<1>6. f # NoFile
  BY DEF FileSlots, NoFile
<1>7. Closed(p, f)
  <2>1. pc[p] = "close" /\ ftable[f].ref > 0
    BY <1>4 DEF CloseOpen, FileClose
  <2>2. ASSUME ftable[f].ref = 1, NEW d \in Descriptors PROVE ofile'[p][d] # f
    <3>1. CASE d = fd
      BY <1>5, <1>6, <3>1
    <3>2. CASE d # fd
      <4>1. ofile[p][d] # f
        BY <1>2, <1>3, <2>2, <3>2, Referring
      <4>2. QED
        BY <1>5, <3>2, <4>1
    <3>3. QED
      BY <3>1, <3>2
  <2>3. held' \in [Procs -> Short]
    BY <1>4 DEF FilesInv, Typed
  <2>4. QED
    BY <1>2, <1>3, <1>4, <1>5, <2>1, <2>2, <2>3 DEF Closed
<1>8. ASSUME NEW g \in FileSlots
      PROVE  Cardinality(InFds(ofile', g)) + Cardinality(InCalls(held', g))
               = Cardinality(InFds(ofile, g)) + Cardinality(InCalls(held, g))
                   + (IF g = f THEN -1 ELSE 0)
  <2>1. /\ Cardinality(InFds(ofile, g)) \in Nat /\ Cardinality(InFds(ofile', g)) \in Nat
        /\ Cardinality(InCalls(held, g)) \in Nat
    BY RefsFinite
  <2>2. Cardinality(InFds(ofile', g)) + Here(ofile, p, fd, g)
          = Cardinality(InFds(ofile, g)) + Here(ofile', p, fd, g)
    <3>1. SetsFd(ofile, ofile', p, fd)
      BY <1>5 DEF SetsFd
    <3>2. fd \in Descriptors
      BY <1>2
    <3>3. QED
      BY <3>1, <3>2, FdCount
  <2>3. g # NoFile
    BY DEF FileSlots, NoFile
  <2>4. Cardinality(InFds(ofile', g))
          = Cardinality(InFds(ofile, g)) + (IF g = f THEN -1 ELSE 0)
    BY <1>3, <1>5, <2>1, <2>2, <2>3 DEF Here
  <2>5. QED
    BY <1>4, <2>1, <2>4
<1>9. Counted'
  BY <1>4, <1>7, <1>8, CloseCounts
<1>10. QED
  BY <1>4, <1>7, <1>9, FileCloseKeeps, LastCloseKeeps

-----------------------------------------------------------------------------
(* pipealloc() with its page *)

\* Nobody has to do with a free page.
LEMMA FreePage ==
  ASSUME Dimensions, FilesInv, NEW pi \in Pipes, ~pipes[pi].page
  PROVE  /\ ~pipes[pi].readopen /\ ~pipes[pi].writeopen
         /\ \A p \in Procs : ~Frees(p, pi)
         /\ \A f \in FileSlots, w \in BOOLEAN : ~IsEnd(f, pi, w)
         /\ \A p \in Procs, w \in BOOLEAN : ~Closes(p, pi, w)
         /\ \A p \in Procs : cur[p] = pi =>
              ~(pc[p] \in Reading) /\ ~(pc[p] \in Writing) /\ ~(pc[p] \in Locking)
<1>1. ~pipes[pi].readopen /\ ~pipes[pi].writeopen /\ \A p \in Procs : ~Frees(p, pi)
  BY DEF FilesInv, Page
<1>2. \A w \in BOOLEAN : ~IsOpen(pi, w) /\ OneEach(pi, w)
  BY <1>1 DEF IsOpen, FilesInv, Ends
<1>3. /\ \A f \in FileSlots, w \in BOOLEAN : ~IsEnd(f, pi, w)
      /\ \A p \in Procs, w \in BOOLEAN : ~Closes(p, pi, w)
  BY <1>2 DEF OneEach
<1>4. ASSUME NEW p \in Procs, cur[p] = pi
      PROVE  ~(pc[p] \in Reading) /\ ~(pc[p] \in Writing) /\ ~(pc[p] \in Locking)
  <2>1. FALSE \in BOOLEAN /\ TRUE \in BOOLEAN
    OBVIOUS
  <2>2. ~Uses(p, FALSE) /\ ~Uses(p, TRUE)
    BY <1>2, <1>4, <2>1, UsesOpen
  <2>3. ~(pc[p] \in Reading) /\ ~(pc[p] \in Writing)
    BY <2>2 DEF FilesInv, Works
  <2>4. ~(pc[p] \in Closing(TRUE)) /\ ~(pc[p] \in Closing(FALSE))
    BY <1>3, <1>4, <2>1 DEF Closes
  <2>5. QED
    BY <2>3, <2>4 DEF Closing, Locking, Reading, Writing
<1>5. QED
  BY <1>1, <1>3, <1>4

\* The two files, one for each end, whatever becomes of the descriptors.
File(pi, w) == [ref |-> 1, type |-> "FD_PIPE", pipe |-> pi, writable |-> w]
Made(p, pi, rf, wf) ==
  /\ pc[p] = "alloc_page" /\ ~pipes[pi].page
  /\ held[p] = <<rf, wf>> /\ rf # wf
  /\ OnPipe(pi, Pipe(TRUE, TRUE, TRUE))
  /\ ftable' = [ftable EXCEPT ![rf] = File(pi, FALSE), ![wf] = File(pi, TRUE)]
  /\ pc' \in [Procs -> Steps] /\ pc'[p] \in {"user", "close"}
  /\ \A q \in Procs \ {p} : pc'[q] = pc[q] /\ ofile'[q] = ofile[q] /\ held'[q] = held[q]
  /\ UNCHANGED <<cur, left, gaveup, killed, leaving>>

MadeTable(p, pi, rf, wf) ==
  /\ ftable' \in [FileSlots -> FileRecords]
  /\ ftable'[rf] = File(pi, FALSE) /\ ftable'[wf] = File(pi, TRUE)
  /\ \A f \in FileSlots : f # rf /\ f # wf => ftable'[f] = ftable[f]
  /\ ftable[rf].type = "FD_NONE" /\ ftable[wf].type = "FD_NONE"
  /\ \A f \in FileSlots : ftable'[f].ref = ftable[f].ref
  /\ \A q \in Procs, d \in Descriptors : ofile[q][d] # rf /\ ofile[q][d] # wf
  /\ \A q \in Procs \ {p} : \A k \in DOMAIN held[q] : held[q][k] # rf /\ held[q][k] # wf

LEMMA MadeFiles ==
  ASSUME Dimensions, FilesInv, NEW p \in Procs, NEW pi \in Pipes, NEW rf \in FileSlots,
         NEW wf \in FileSlots, Made(p, pi, rf, wf)
  PROVE  MadeTable(p, pi, rf, wf) /\ FilesTyped'
<1>1. ftable \in [FileSlots -> FileRecords]
  BY DEF FilesInv, Typed, TypeOK, FileRecords
<1>2. File(pi, FALSE) \in FileRecords /\ File(pi, TRUE) \in FileRecords
  BY DEF File, FileRecords
<1>3. /\ ftable' \in [FileSlots -> FileRecords]
      /\ ftable'[rf] = File(pi, FALSE) /\ ftable'[wf] = File(pi, TRUE)
      /\ \A f \in FileSlots : f # rf /\ f # wf => ftable'[f] = ftable[f]
  BY <1>1, <1>2 DEF Made
<1>4. /\ 1 \in DOMAIN held[p] /\ held[p][1] = rf /\ 2 \in DOMAIN held[p] /\ held[p][2] = wf
  BY DEF Made
<1>5. ftable[rf].type = "FD_NONE" /\ ftable[wf].type = "FD_NONE"
  BY <1>4 DEF Made, FilesInv, Holds
<1>6. /\ ftable[rf].ref \in Nat /\ ftable[rf].ref >= 1 /\ ftable[rf].ref <= 1
      /\ ftable[wf].ref \in Nat /\ ftable[wf].ref >= 1 /\ ftable[wf].ref <= 1
  <2>1. ftable[rf].ref <= 1 /\ ftable[wf].ref <= 1
    BY <1>5 DEF FilesInv, FilesTyped
  <2>2. ftable[rf].ref \in Nat /\ ftable[rf].ref >= 1
    BY <1>4, Referring
  <2>3. ftable[wf].ref \in Nat /\ ftable[wf].ref >= 1
    BY <1>4, Referring
  <2>4. QED
    BY <2>1, <2>2, <2>3
<1>7. \A f \in FileSlots : ftable'[f].ref = ftable[f].ref
  <2>1. ftable[rf].ref = 1 /\ ftable[wf].ref = 1
    BY <1>6
  <2>2. QED
    BY <1>3, <2>1 DEF File
<1>8. \A q \in Procs, d \in Descriptors : ofile[q][d] # rf
  BY <1>4, <1>6, Referring
<1>9. \A q \in Procs, d \in Descriptors : ofile[q][d] # wf
  BY <1>4, <1>6, Referring
<1>10. \A q \in Procs \ {p} : \A k \in DOMAIN held[q] : held[q][k] # rf
  BY <1>4, <1>6, Referring
<1>11. \A q \in Procs \ {p} : \A k \in DOMAIN held[q] : held[q][k] # wf
  BY <1>4, <1>6, Referring
<1>12. FilesTyped'
  BY <1>3, <1>7 DEF FilesTyped, FilesInv, File
<1>13. QED
  BY <1>3, <1>5, <1>7, <1>8, <1>9, <1>10, <1>11, <1>12 DEF MadeTable

LEMMA MadeEnds ==
  ASSUME Dimensions, FilesInv, NEW p \in Procs, NEW pi \in Pipes, NEW rf \in FileSlots,
         NEW wf \in FileSlots, Made(p, pi, rf, wf)
  PROVE  /\ pipes' \in [Pipes -> PipeRecords]
         /\ Ends' /\ \A qi \in Pipes : Page(qi)'
         /\ LocksHeld' /\ \A q \in Procs : Sleeps(q)'
         /\ \A q \in Procs \ {p} : Holds(q)' /\ Has(q)' /\ Works(q)'
<1>1. /\ pipes' \in [Pipes -> PipeRecords]
      /\ \A qi \in Pipes : qi # pi => pipes'[qi] = pipes[qi]
      /\ pipes'[pi].lock = 0 /\ pipes'[pi].page
      /\ pipes'[pi].readopen /\ pipes'[pi].writeopen
  <2>1. 0 \in 0..(WORD - 1) /\ 1 \in Bytes /\ 0 \in 0..NPROC
    BY DEF Bytes, Dimensions, PipeAssumption
  <2>2. Pipe(TRUE, TRUE, TRUE) \in PipeRecords
    BY <2>1 DEF Pipe, PipeRecords
  <2>3. QED
    BY <2>2, PipeChanges DEF Pipe, Made
<1>2. /\ \A q \in Procs : ~Frees(q, pi)
      /\ \A f \in FileSlots, w \in BOOLEAN : ~IsEnd(f, pi, w)
      /\ \A q \in Procs, w \in BOOLEAN : ~Closes(q, pi, w)
      /\ \A q \in Procs : cur[q] = pi =>
           ~(pc[q] \in Reading) /\ ~(pc[q] \in Writing) /\ ~(pc[q] \in Locking)
  BY FreePage DEF Made
<1>3. /\ pc[p] = "alloc_page" /\ pc'[p] \in {"user", "close"}
      /\ \A q \in Procs \ {p} : pc'[q] = pc[q] /\ ofile'[q] = ofile[q] /\ held'[q] = held[q]
      /\ UNCHANGED <<cur, left, gaveup>> /\ rf # wf
  BY DEF Made
<1>4. /\ ftable'[rf] = File(pi, FALSE) /\ ftable'[wf] = File(pi, TRUE)
      /\ \A f \in FileSlots : f # rf /\ f # wf => ftable'[f] = ftable[f]
      /\ ftable[rf].type = "FD_NONE" /\ ftable[wf].type = "FD_NONE"
      /\ \A q \in Procs, d \in Descriptors : ofile[q][d] # rf /\ ofile[q][d] # wf
      /\ \A q \in Procs \ {p} : \A k \in DOMAIN held[q] : held[q][k] # rf /\ held[q][k] # wf
  <2>1. MadeTable(p, pi, rf, wf)
    BY MadeFiles
  <2>2. QED
    BY <2>1 DEF MadeTable
<1> USE Basics, StepNames
<1>5. Ends'
  <2>1. \A q \in Procs, qi \in Pipes, v \in BOOLEAN : Closes(q, qi, v)' <=> Closes(q, qi, v)
    BY <1>3 DEF Closes, Closing
  <2>2. \A f \in FileSlots, qi \in Pipes, v \in BOOLEAN :
          qi # pi => (IsEnd(f, qi, v)' <=> IsEnd(f, qi, v))
    BY <1>4 DEF IsEnd, File
  <2>3. \A f \in FileSlots, v \in BOOLEAN :
          IsEnd(f, pi, v)' <=> f = IF v THEN wf ELSE rf
    <3>1. SUFFICES ASSUME NEW f \in FileSlots, NEW v \in BOOLEAN
                   PROVE  IsEnd(f, pi, v)' <=> f = IF v THEN wf ELSE rf
      OBVIOUS
    <3>2. CASE f = rf
      <4>1. ftable'[f].type = "FD_PIPE" /\ ftable'[f].pipe = pi /\ ftable'[f].writable = FALSE
        BY <1>4, <3>2 DEF File
      <4>2. QED
        BY <1>3, <3>2, <4>1 DEF IsEnd
    <3>3. CASE f = wf
      <4>1. ftable'[f].type = "FD_PIPE" /\ ftable'[f].pipe = pi /\ ftable'[f].writable = TRUE
        BY <1>4, <3>3 DEF File
      <4>2. QED
        BY <1>3, <3>3, <4>1 DEF IsEnd
    <3>4. CASE f # rf /\ f # wf
      <4>1. IsEnd(f, pi, v)' <=> IsEnd(f, pi, v)
        BY <1>4, <3>4 DEF IsEnd
      <4>2. QED
        BY <1>2, <3>4, <4>1
    <3>5. QED
      BY <3>2, <3>3, <3>4
  <2>4. ASSUME NEW qi \in Pipes, NEW v \in BOOLEAN PROVE OneEach(qi, v)'
    <3>1. CASE qi = pi
      <4>1. \A q \in Procs : ~Closes(q, qi, v)'
        BY <1>2, <2>1, <3>1
      <4>2. IsOpen(qi, v)'
        BY <1>1, <3>1 DEF IsOpen
      <4>3. \A f \in FileSlots : IsEnd(f, qi, v)' <=> f = IF v THEN wf ELSE rf
        BY <2>3, <3>1
      <4>4. QED
        BY <4>1, <4>2, <4>3 DEF OneEach
    <3>2. CASE qi # pi
      <4>1. OneEach(qi, v)
        BY DEF FilesInv, Ends
      <4>2. IsOpen(qi, v)' = IsOpen(qi, v)
        BY <1>1, <3>2 DEF IsOpen
      <4>3. \A f \in FileSlots : IsEnd(f, qi, v)' <=> IsEnd(f, qi, v)
        BY <2>2, <3>2
      <4>4. QED
        BY <2>1, <4>1, <4>2, <4>3 DEF OneEach
    <3>3. QED
      BY <3>1, <3>2
  <2>5. QED
    BY <2>4 DEF Ends
<1>6. ASSUME NEW qi \in Pipes PROVE Page(qi)'
  <2>1. \A q \in Procs : Frees(q, qi)' <=> Frees(q, qi)
    BY <1>3 DEF Frees
  <2>2. CASE qi = pi
    BY <1>1, <1>2, <2>1, <2>2 DEF Page
  <2>3. CASE qi # pi
    BY <1>1, <2>1, <2>3 DEF Page, FilesInv
  <2>4. QED
    BY <2>2, <2>3
<1>7. LocksHeld'
  <2>1. \A q \in Procs : pc'[q] \in Locking <=> pc[q] \in Locking
    BY <1>3 DEF Locking
  <2>2. QED
    BY <1>1, <1>2, <1>3, <2>1 DEF LocksHeld, FilesInv
<1>8. ASSUME NEW q \in Procs PROVE Sleeps(q)'
  <2>1. CASE q = p \/ cur[q] = pi
    BY <1>2, <1>3, <2>1 DEF Sleeps, Reading, Writing
  <2>2. CASE q # p /\ cur[q] # pi
    <3>1. \A s \in Procs : pc[s] = "writing" => pc'[s] = "writing"
      BY <1>3
    <3>2. Sleeps(q)
      BY DEF FilesInv
    <3>3. Count(cur[q])' = Count(cur[q]) /\ Full(cur[q])' = Full(cur[q])
      BY <1>1, <1>3, <2>2 DEF Count, Full
    <3>4. QED
      BY <1>1, <1>3, <2>2, <3>1, <3>2, <3>3 DEF Sleeps
  <2>3. QED
    BY <2>1, <2>2
<1>9. ASSUME NEW q \in Procs \ {p} PROVE Holds(q)' /\ Has(q)' /\ Works(q)'
  <2>1. \A d \in Descriptors : ofile[q][d] # NoFile => SameFile(ofile[q][d])
    <3>1. \A d \in Descriptors : ofile[q][d] # NoFile => ofile[q][d] \in FileSlots
      BY DEF FilesInv, Typed, TypeOK
    <3>2. QED
      BY <1>4, <3>1 DEF SameFile
  <2>2. \A k \in DOMAIN held[q] : held[q][k] \in FileSlots
    BY ShortIs DEF FilesInv, Typed
  <2>3. \A k \in DOMAIN held[q] : SameFile(held[q][k])
    BY <1>4, <2>2 DEF SameFile
  <2>4. QED
    BY <1>3, <2>1, <2>3, OthersKeep
<1>10. QED
  BY <1>1, <1>5, <1>6, <1>7, <1>8, <1>9

LEMMA MakePipeKeeps ==
  ASSUME Dimensions, FilesInv, NEW p \in Procs, MakePipe(p)
  PROVE  FilesInv'
<1>1. PICK pi \in Pipes : pi = First(FreePages) /\ ~pipes[pi].page
  BY FirstOnes DEF MakePipe, FreePages
<1>2. PICK rf \in FileSlots, wf \in FileSlots : rf # wf /\ held[p] = <<rf, wf>>
  BY DEF MakePipe, FilesInv, Holds
<1>3. held[p][1] = rf /\ held[p][2] = wf
  BY <1>2
<1>4. /\ pc[p] = "alloc_page"
      /\ OnPipe(pi, Pipe(TRUE, TRUE, TRUE))
      /\ ftable' = [ftable EXCEPT ![rf] = File(pi, FALSE), ![wf] = File(pi, TRUE)]
      /\ UNCHANGED <<cur, left, gaveup, killed, leaving>>
  BY <1>1, <1>3 DEF MakePipe, Inside, OnPipe, File
<1>5. held \in [Procs -> Short] /\ pc \in [Procs -> Steps]
      /\ ofile \in [Procs -> [Descriptors -> FileSlots \cup {NoFile}]]
  BY DEF FilesInv, Typed, TypeOK
<1>6. \A f \in FileSlots : f # NoFile
  BY DEF FileSlots, NoFile
\* The descriptors are there.
<1>7. CASE Goto(p, "user")
  <2>1. PICK e \in Descriptors, d \in Descriptors :
          /\ e # d /\ ofile[p][e] = NoFile /\ ofile[p][d] = NoFile
          /\ ofile' = [ofile EXCEPT ![p][e] = rf, ![p][d] = wf]
          /\ held' = [held EXCEPT ![p] = << >>]
    <3>1. ~Goto(p, "close")
      BY <1>5, <1>7 DEF Goto
    <3>2. /\ Cardinality(FreeFds(p)) >= 2
          /\ ofile' = [ofile EXCEPT ![p][First(FreeFds(p))] = rf,
                                    ![p][First(FreeFds(p) \ {First(FreeFds(p))})] = wf]
          /\ held' = [held EXCEPT ![p] = << >>]
      BY <1>3, <3>1 DEF MakePipe
    <3>3. FreeFds(p) \in SUBSET Descriptors
      BY DEF FreeFds
    <3>4. FreeFds(p) # {} /\ \A e : FreeFds(p) # {e}
      <4>1. Cardinality({}) = 0 /\ \A e : Cardinality({e}) = 1
        BY FS_EmptySet, FS_Singleton
      <4>2. ~(0 >= 2) /\ ~(1 >= 2)
        OBVIOUS
      <4>3. FreeFds(p) # {}
        BY <3>2, <4>1, <4>2
      <4>4. ASSUME NEW e, FreeFds(p) = {e} PROVE FALSE
        BY <3>2, <4>1, <4>2, <4>4
      <4>5. QED
        BY <4>3, <4>4
    <3>5. PICK e \in FreeFds(p) : e = First(FreeFds(p))
      BY <3>3, <3>4, FirstOnes
    <3>6. FreeFds(p) \ {e} # {} /\ FreeFds(p) \ {e} \in SUBSET Descriptors
      BY <3>3, <3>4
    <3>7. PICK d \in FreeFds(p) \ {e} : d = First(FreeFds(p) \ {e})
      BY <3>6, FirstOnes
    <3>8. QED
      BY <3>2, <3>5, <3>7 DEF FreeFds
  <2>2. /\ ofile' \in [Procs -> [Descriptors -> FileSlots \cup {NoFile}]]
        /\ ofile'[p][e] = rf /\ ofile'[p][d] = wf
        /\ \A x \in Descriptors : x # e /\ x # d => ofile'[p][x] = ofile[p][x]
        /\ \A q \in Procs \ {p} : ofile'[q] = ofile[q]
    BY <1>5, <2>1
  <2>3. << >> \in Short /\ << >> \in Seq(FileSlots)
    BY DEF Short
  <2>4. /\ held' \in [Procs -> Short] /\ held'[p] = << >>
        /\ \A q \in Procs \ {p} : held'[q] = held[q]
    BY <1>5, <2>1, <2>3
  <2>5. /\ pc' \in [Procs -> Steps] /\ pc'[p] = "user"
        /\ \A q \in Procs \ {p} : pc'[q] = pc[q]
    BY <1>5, <1>7, StepNames DEF Goto
  <2>6. Made(p, pi, rf, wf)
    BY <1>1, <1>2, <1>4, <2>2, <2>4, <2>5 DEF Made
  <2>7. /\ ftable' \in [FileSlots -> FileRecords]
        /\ ftable'[rf] = File(pi, FALSE) /\ ftable'[wf] = File(pi, TRUE)
        /\ \A f \in FileSlots : f # rf /\ f # wf => ftable'[f] = ftable[f]
        /\ \A f \in FileSlots : ftable'[f].ref = ftable[f].ref
        /\ \A q \in Procs, x \in Descriptors : ofile[q][x] # rf /\ ofile[q][x] # wf
        /\ FilesTyped'
    <3>1. MadeTable(p, pi, rf, wf) /\ FilesTyped'
      BY <2>6, MadeFiles
    <3>2. QED
      BY <3>1 DEF MadeTable
  <2>8. /\ pipes' \in [Pipes -> PipeRecords]
        /\ Ends' /\ \A qi \in Pipes : Page(qi)'
        /\ LocksHeld' /\ \A q \in Procs : Sleeps(q)'
        /\ \A q \in Procs \ {p} : Holds(q)' /\ Has(q)' /\ Works(q)'
    BY <2>6, MadeEnds
  <2>9. held' \in [Procs -> Seq(FileSlots)]
    BY <2>1, <2>3 DEF FilesInv, Typed, TypeOK
  <2>10. Typed'
    BY <1>4, <2>2, <2>4, <2>5, <2>7, <2>8, <2>9
    DEF FilesInv, Typed, TypeOK, FileRecords, PipeRecords
  <2>11. Counted'
    <3>1. SUFFICES ASSUME NEW f \in FileSlots
                   PROVE  ftable'[f].ref
                            = Cardinality(InFds(ofile', f)) + Cardinality(InCalls(held', f))
      BY DEF Counted, InFds, InCalls
    <3>2. PICK o : o = [ofile EXCEPT ![p][e] = rf]
      OBVIOUS
    <3>3. SetsFd(ofile, o, p, e) /\ o[p][e] = rf /\ o[p][d] = NoFile
      BY <1>5, <2>1, <3>2 DEF SetsFd
    <3>4. SetsFd(o, ofile', p, d)
      BY <1>5, <2>1, <3>2 DEF SetsFd
    <3>5. SetsCall(held, held', p)
      BY <1>5, <2>4 DEF SetsCall
    <3>6. Cardinality(InFds(o, f)) + Here(ofile, p, e, f)
            = Cardinality(InFds(ofile, f)) + Here(o, p, e, f)
      BY <3>3, FdCount
    <3>7. Cardinality(InFds(ofile', f)) + Here(o, p, d, f)
            = Cardinality(InFds(o, f)) + Here(ofile', p, d, f)
      BY <3>4, FdCount
    <3>8. Cardinality(InCalls(held', f)) + In(held[p], f)
            = Cardinality(InCalls(held, f)) + In(held'[p], f)
      BY <3>5, CallCount
    <3>9. /\ Here(ofile, p, e, f) = 0 /\ Here(o, p, d, f) = 0
          /\ Here(o, p, e, f) = (IF rf = f THEN 1 ELSE 0)
          /\ Here(ofile', p, d, f) = (IF wf = f THEN 1 ELSE 0)
      BY <1>6, <2>1, <2>2, <3>3 DEF Here
    <3>10. In(held'[p], f) = 0 /\ In(held[p], f) = (IF rf = f \/ wf = f THEN 1 ELSE 0)
      <4>1. In(<< >>, f) = 0
        BY InShort
      <4>2. In(<<rf, wf>>, f) = IF rf = f \/ wf = f THEN 1 ELSE 0
        BY InShort
      <4>3. QED
        BY <1>2, <2>4, <4>1, <4>2
    <3>11. PICK a \in Nat, b \in Nat, c \in Nat, g \in Nat, h \in Nat :
             /\ a = Cardinality(InFds(ofile, f)) /\ b = Cardinality(InFds(o, f))
             /\ c = Cardinality(InFds(ofile', f))
             /\ g = Cardinality(InCalls(held, f)) /\ h = Cardinality(InCalls(held', f))
      BY RefsFinite
    <3>12. c + h = a + g + 0
      <4>1. b = a + (IF rf = f THEN 1 ELSE 0)
        BY <3>6, <3>9, <3>11
      <4>2. c = b + (IF wf = f THEN 1 ELSE 0)
        BY <3>7, <3>9, <3>11
      <4>3. h + (IF rf = f \/ wf = f THEN 1 ELSE 0) = g
        BY <3>8, <3>10, <3>11
      <4>4. QED
        BY <1>2, <4>1, <4>2, <4>3
    <3>13. ftable[f].ref + 0 = Cardinality(InFds(ofile', f)) + Cardinality(InCalls(held', f))
      BY <3>11, <3>12, RefSum
    <3>14. QED
      BY <2>7, <3>13, Referring
  <2>12. Holds(p)' /\ Has(p)' /\ Works(p)'
    <3>1. Holds(p)' /\ Works(p)'
      BY <2>4, <2>5 DEF Holds, Works, Reading, Writing, Idle
    <3>2. ASSUME NEW x \in Descriptors, ofile'[p][x] # NoFile
          PROVE  ftable'[ofile'[p][x]].type = "FD_PIPE"
      <4>1. CASE x = e \/ x = d
        BY <2>2, <2>7, <4>1 DEF File
      <4>2. CASE x # e /\ x # d
        <5>1. ofile'[p][x] = ofile[p][x] /\ ofile[p][x] \in FileSlots
          BY <1>5, <2>2, <3>2, <4>2
        <5>2. ftable'[ofile[p][x]] = ftable[ofile[p][x]]
          BY <2>7, <5>1
        <5>3. QED
          BY <3>2, <5>1, <5>2 DEF FilesInv, Has
      <4>3. QED
        BY <4>1, <4>2
    <3>3. Has(p)'
      BY <2>5, <3>2 DEF Has
    <3>4. QED
      BY <3>1, <3>3
  <2>13. QED
    BY <2>7, <2>8, <2>10, <2>11, <2>12 DEF FilesInv
\* They are not, or copyout() fails.
<1>8. CASE Goto(p, "close") /\ UNCHANGED <<ofile, held>>
  <2>1. /\ pc' \in [Procs -> Steps] /\ pc'[p] = "close"
        /\ \A q \in Procs \ {p} : pc'[q] = pc[q]
    BY <1>5, <1>8, StepNames DEF Goto
  <2>2. Made(p, pi, rf, wf)
    BY <1>1, <1>2, <1>4, <1>8, <2>1 DEF Made
  <2>3. /\ ftable' \in [FileSlots -> FileRecords]
        /\ \A f \in FileSlots : f # rf /\ f # wf => ftable'[f] = ftable[f]
        /\ \A f \in FileSlots : ftable'[f].ref = ftable[f].ref
        /\ \A q \in Procs, x \in Descriptors : ofile[q][x] # rf /\ ofile[q][x] # wf
        /\ FilesTyped'
    <3>1. MadeTable(p, pi, rf, wf) /\ FilesTyped'
      BY <2>2, MadeFiles
    <3>2. QED
      BY <3>1 DEF MadeTable
  <2>4. /\ pipes' \in [Pipes -> PipeRecords]
        /\ Ends' /\ \A qi \in Pipes : Page(qi)'
        /\ LocksHeld' /\ \A q \in Procs : Sleeps(q)'
        /\ \A q \in Procs \ {p} : Holds(q)' /\ Has(q)' /\ Works(q)'
    BY <2>2, MadeEnds
  <2>5. Typed'
    BY <1>4, <1>8, <2>1, <2>3, <2>4 DEF FilesInv, Typed, TypeOK, FileRecords, PipeRecords
  <2>6. Counted'
    <3>1. \A f \in FileSlots : InFds(ofile, f)' = InFds(ofile, f)
                               /\ InCalls(held, f)' = InCalls(held, f)
      BY <1>8 DEF InFds, InCalls
    <3>2. QED
      BY <2>3, <3>1 DEF FilesInv, Counted
  <2>7. Holds(p)' /\ Has(p)' /\ Works(p)'
    <3>1. Holds(p)' /\ Works(p)'
      BY <2>1 DEF Holds, Works, Reading, Writing, Idle
    <3>2. \A x \in Descriptors : ofile[p][x] # NoFile =>
            ofile[p][x] \in FileSlots /\ ftable'[ofile[p][x]] = ftable[ofile[p][x]]
      BY <1>5, <2>3
    <3>3. Has(p)'
      BY <1>8, <2>1, <3>2 DEF Has, FilesInv
    <3>4. QED
      BY <3>1, <3>3
  <2>8. QED
    BY <2>3, <2>4, <2>5, <2>6, <2>7 DEF FilesInv
<1>9. QED
  BY <1>7, <1>8 DEF MakePipe

-----------------------------------------------------------------------------
(* The theorems *)

LEMMA FilesInit ==
  ASSUME Dimensions, Init
  PROVE  FilesInv
<1> USE DEF Init, InitPipe
<1>1. /\ \A p \in Procs : pc[p] \in {"user", "unused"} /\ held[p] = << >>
      /\ \A p \in Procs, d \in Descriptors : ofile[p][d] = NoFile
      /\ \A f \in FileSlots : ftable[f].ref = 0 /\ ftable[f].type = "FD_NONE"
      /\ \A pi \in Pipes : /\ pipes[pi].lock = 0 /\ ~pipes[pi].page
                           /\ ~pipes[pi].readopen /\ ~pipes[pi].writeopen
      /\ \A p \in Procs : p # 0
  BY DEF Pipe, Procs, Dimensions, PipeAssumption
<1>2. Typed
  <2>1. 1 \in Pipes /\ 0 \in 0..MaxN /\ 0 \in 0..NPROC /\ 0 \in 0..(WORD - 1) /\ 1 \in Bytes
    BY DEF Dimensions, PipeAssumption, Pipes, Bytes
  <2>2. Pipe(FALSE, FALSE, FALSE) \in PipeRecords
    BY <2>1 DEF Pipe, PipeRecords
  <2>3. << >> \in Short /\ << >> \in Seq(FileSlots)
    BY DEF Short
  <2>4. pipes \in [Pipes -> PipeRecords]
    BY <2>2
  <2>5. ftable \in [FileSlots -> FileRecords]
    BY <2>1 DEF FileRecords
  <2>6. held \in [Procs -> Short] /\ held \in [Procs -> Seq(FileSlots)]
    BY <2>3
  <2>7. pc \in [Procs -> Steps]
    BY StepNames
  <2>8. QED
    BY <2>1, <2>4, <2>5, <2>6, <2>7 DEF Typed, TypeOK, PipeRecords, FileRecords
<1>3. Counted
  <2>1. SUFFICES ASSUME NEW f \in FileSlots
                 PROVE  0 = Cardinality(InFds(ofile, f)) + Cardinality(InCalls(held, f))
    BY <1>1 DEF Counted
  <2>2. f # NoFile
    BY DEF FileSlots, NoFile
  <2>3. InFds(ofile, f) = {} /\ InCalls(held, f) = {}
    BY <1>1, <2>2 DEF InFds, InCalls
  <2>4. Cardinality(InFds(ofile, f)) = 0 /\ Cardinality(InCalls(held, f)) = 0
    BY <2>3, FS_EmptySet
  <2>5. QED
    BY <2>4
<1>4. FilesTyped
  BY <1>1 DEF FilesTyped
<1>5. Ends
  BY <1>1 DEF Ends, OneEach, IsEnd, Closes, Closing, IsOpen
<1>6. LocksHeld
  BY <1>1 DEF LocksHeld, Locking
<1>7. \A pi \in Pipes : Page(pi)
  BY <1>1 DEF Page, Frees
<1>8. \A p \in Procs : Holds(p) /\ Has(p) /\ Works(p) /\ Sleeps(p)
  BY <1>1 DEF Holds, Has, Works, Sleeps, Reading, Writing
<1>9. QED
  BY <1>2, <1>3, <1>4, <1>5, <1>6, <1>7, <1>8 DEF FilesInv

LEMMA FilesStutter ==
  ASSUME FilesInv, UNCHANGED vars
  PROVE  FilesInv'
<1> USE DEF FilesInv, vars, thread
<1>1. Typed' /\ Counted' /\ FilesTyped' /\ LocksHeld'
  <2>1. Typed'
    BY DEF Typed, TypeOK
  <2>2. Counted'
    BY DEF Counted, InFds, InCalls
  <2>3. QED
    BY <2>1, <2>2 DEF FilesTyped, LocksHeld
<1>2. Ends' /\ \A pi \in Pipes : Page(pi)'
  <2>1. SameEnds /\ \A p \in Procs : SameRole(p)
    BY DEF SameEnds, SameRole
  <2>2. QED
    BY <2>1, EndsStay
<1>3. \A p \in Procs : Holds(p)' /\ Has(p)' /\ Works(p)' /\ Sleeps(p)'
  BY DEF Holds, Has, Works, Uses, Sleeps, Count, Full
<1>4. QED
  BY <1>1, <1>2, <1>3

LEMMA FilesNext ==
  ASSUME Dimensions, FilesInv, [Next]_vars
  PROVE  FilesInv'
<1>1. ASSUME NEW p \in Procs, PipeStep(p),
             UNCHANGED <<ftable, ofile, held, leaving, script, kills>>
      PROVE  FilesInv'
  BY <1>1, PipeStepKeeps
<1>2. ASSUME NEW p \in Procs, FileStep(p)
      PROVE  FilesInv'
  BY <1>2, CloseHeldKeeps, CloseOpenKeeps, ReturnKeeps, SysPipeKeeps, AllocFileKeeps,
     AllocFailsKeeps, MakePipeKeeps, SysDupKeeps, SysCloseKeeps, SysReadWriteKeeps,
     RefusedKeeps, ForkKeeps, ExitKeeps, KillKeeps DEF FileStep
<1>3. QED
  BY <1>1, <1>2, FilesStutter DEF Next

\* The invariant holds for every size of the tables and whatever the
\* processes do.
THEOREM FilesInvariant ==
  ASSUME Dimensions
  PROVE  Spec => []FilesInv
<1>1. Init => FilesInv
  BY FilesInit
<1>2. FilesInv /\ [Next]_vars => FilesInv'
  BY FilesNext
<1>3. QED
  BY <1>1, <1>2, PTL DEF Spec

\* Files are counted right: fileclose() takes a file apart when the last
\* descriptor and the last call let go of it, not before and not later.
THEOREM ReferencesCounted ==
  ASSUME Dimensions
  PROVE  Spec => []RefsMatch
<1>1. FilesInv => RefsMatch
  BY DEF FilesInv, Counted, InFds, InCalls, RefsMatch
<1>2. QED
  BY <1>1, FilesInvariant, PTL

LEMMA LastOne ==
  ASSUME Dimensions, FilesInv, NEW p \in Procs, Frees(p, cur[p])
  PROVE  \A q \in Procs : cur[q] = cur[p] /\ q # p =>
           /\ ~(pc[q] \in Reading) /\ ~(pc[q] \in Writing) /\ pc[q] # "kfree"
           /\ ~(pc[q] \in Closing(FALSE)) /\ ~(pc[q] \in Closing(TRUE))
<1> USE Basics
<1>1. /\ ~pipes[cur[p]].readopen /\ ~pipes[cur[p]].writeopen
      /\ \A q \in Procs : Frees(q, cur[p]) => q = p
  BY DEF FilesInv, Page
<1>2. \A w \in BOOLEAN : ~IsOpen(cur[p], w) /\ OneEach(cur[p], w)
  BY <1>1 DEF IsOpen, FilesInv, Ends
<1>3. FALSE \in BOOLEAN /\ TRUE \in BOOLEAN
  OBVIOUS
<1>4. SUFFICES ASSUME NEW q \in Procs, cur[q] = cur[p], q # p
               PROVE  /\ ~(pc[q] \in Reading) /\ ~(pc[q] \in Writing) /\ pc[q] # "kfree"
                      /\ ~(pc[q] \in Closing(FALSE)) /\ ~(pc[q] \in Closing(TRUE))
  OBVIOUS
<1>5. ~Uses(q, FALSE) /\ ~Uses(q, TRUE)
  BY <1>2, <1>3, <1>4, UsesOpen
<1>6. ~Closes(q, cur[p], FALSE) /\ ~Closes(q, cur[p], TRUE)
  BY <1>2, <1>3 DEF OneEach
<1>7. QED
  BY <1>1, <1>4, <1>5, <1>6 DEF FilesInv, Works, Closes, Frees

\* An end of a pipe is closed when its last file is, and the page freed by
\* whoever closes the last end, with nobody left at work on it.
THEOREM EndsAndPages ==
  ASSUME Dimensions
  PROVE  Spec => []EndsMatch
<1>1. FilesInv => EndsMatch
  <2>1. SUFFICES ASSUME FilesInv, NEW pi \in Pipes
                 PROVE  LET At(S) == {p \in Procs : cur[p] = pi /\ pc[p] \in S}
                            Stands(w) == \E f \in FileSlots :
                              ftable[f].ref > 0 /\ [ftable[f] EXCEPT !.ref = 0]
                                = [ref |-> 0, type |-> "FD_PIPE", pipe |-> pi, writable |-> w]
                            users == At(Steps \ {"unused", "user", "close", "return", "zombie",
                                                 "alloc1", "alloc2", "alloc_page"})
                        IN
                        /\ pipes[pi].readopen
                             = (Stands(FALSE) \/ At({"close_read", "closing_read"}) # {})
                        /\ pipes[pi].writeopen
                             = (Stands(TRUE) \/ At({"close_write", "closing_write"}) # {})
                        /\ users # {} => pipes[pi].page
                        /\ At({"kfree"}) # {} => Cardinality(users) = 1
    BY DEF EndsMatch
  <2> USE Basics
  <2> DEFINE At(S) == {p \in Procs : cur[p] = pi /\ pc[p] \in S}
             Stands(w) == \E f \in FileSlots :
               ftable[f].ref > 0 /\ [ftable[f] EXCEPT !.ref = 0]
                 = [ref |-> 0, type |-> "FD_PIPE", pipe |-> pi, writable |-> w]
             users == At(Steps \ {"unused", "user", "close", "return", "zombie",
                                  "alloc1", "alloc2", "alloc_page"})
  <2>2. ASSUME NEW w \in BOOLEAN
        PROVE  Stands(w) <=> \E f \in FileSlots : IsEnd(f, pi, w)
    <3>1. ASSUME NEW f \in FileSlots
          PROVE  IsEnd(f, pi, w) <=>
                   /\ ftable[f].ref > 0
                   /\ [ftable[f] EXCEPT !.ref = 0]
                        = [ref |-> 0, type |-> "FD_PIPE", pipe |-> pi, writable |-> w]
      <4>1. ftable[f] \in FileRecords /\ ftable[f].ref \in Nat
        BY <2>1, Referring
      <4>2. ftable[f].type = "FD_PIPE" => ftable[f].ref > 0
        BY <2>1, <4>1 DEF FilesInv, FilesTyped
      <4>3. [ftable[f] EXCEPT !.ref = 0] = [ref |-> 0, type |-> "FD_PIPE", pipe |-> pi, writable |-> w]
              <=> IsEnd(f, pi, w)
        BY <4>1 DEF FileRecords, IsEnd
      <4>4. QED
        BY <4>2, <4>3 DEF IsEnd
    <3>2. QED
      BY <3>1
  <2>3. ASSUME NEW w \in BOOLEAN
        PROVE  At(Closing(w)) # {} <=> \E p \in Procs : Closes(p, pi, w)
    BY DEF Closes
  <2>4. /\ IsOpen(pi, FALSE) <=> Stands(FALSE) \/ At(Closing(FALSE)) # {}
        /\ IsOpen(pi, TRUE) <=> Stands(TRUE) \/ At(Closing(TRUE)) # {}
    <3>1. OneEach(pi, FALSE) /\ OneEach(pi, TRUE) /\ FALSE \in BOOLEAN /\ TRUE \in BOOLEAN
      BY <2>1 DEF FilesInv, Ends
    <3> HIDE DEF Stands, At
    <3>2. QED
      BY <2>2, <2>3, <3>1 DEF OneEach
  <2>5. /\ pipes[pi].readopen = (Stands(FALSE) \/ At({"close_read", "closing_read"}) # {})
        /\ pipes[pi].writeopen = (Stands(TRUE) \/ At({"close_write", "closing_write"}) # {})
    <3>1. pipes[pi].readopen \in BOOLEAN /\ pipes[pi].writeopen \in BOOLEAN
      BY <2>1 DEF PipeRecords
    <3>2. Closing(FALSE) = {"close_read", "closing_read"}
          /\ Closing(TRUE) = {"close_write", "closing_write"}
      BY DEF Closing
    <3>3. IsOpen(pi, FALSE) = pipes[pi].readopen /\ IsOpen(pi, TRUE) = pipes[pi].writeopen
      BY DEF IsOpen
    <3> HIDE DEF Stands, At
    <3>4. QED
      BY <2>4, <3>1, <3>2, <3>3
  <2>6. \A p \in users : /\ p \in Procs /\ cur[p] = pi
                         /\ \/ pc[p] \in Reading \/ pc[p] \in Writing \/ pc[p] = "kfree"
                            \/ pc[p] \in Closing(FALSE) \/ pc[p] \in Closing(TRUE)
    BY StepNames DEF Reading, Writing, Closing
  <2>7. users # {} => pipes[pi].page
    <3>1. SUFFICES ASSUME NEW p \in users PROVE pipes[pi].page
      OBVIOUS
    <3>2. p \in Procs /\ cur[p] = pi
      BY <2>6
    <3> HIDE DEF users
    <3>3. CASE pc[p] = "kfree"
      BY <2>1, <3>2, <3>3 DEF FilesInv, Page, Frees
    <3>4. CASE \E w \in BOOLEAN : Uses(p, w) \/ Closes(p, pi, w)
      <4>1. PICK w \in BOOLEAN : Uses(p, w) \/ Closes(p, pi, w)
        BY <3>4
      <4>2. IsOpen(pi, w)
        BY <2>1, <3>2, <4>1, UsesOpen DEF FilesInv, Ends, OneEach
      <4>3. QED
        BY <2>1, <4>2 DEF IsOpen, FilesInv, Page
    <3>5. FALSE \in BOOLEAN /\ TRUE \in BOOLEAN
      OBVIOUS
    <3>6. QED
      BY <2>1, <2>6, <3>2, <3>3, <3>4, <3>5 DEF FilesInv, Works, Closes
  <2>8. At({"kfree"}) # {} => Cardinality(users) = 1
    <3>1. SUFFICES ASSUME NEW p \in Procs, cur[p] = pi, pc[p] = "kfree"
                   PROVE  Cardinality(users) = 1
      OBVIOUS
    <3>2. p \in users
      BY <3>1, StepNames
    <3>3. \A q \in users : q = p
      <4>1. Frees(p, cur[p])
        BY <3>1 DEF Frees
      <4> HIDE DEF users
      <4>2. QED
        BY <2>1, <2>6, <3>1, <4>1, LastOne
    <3> HIDE DEF users
    <3>4. users = {p}
      BY <3>2, <3>3
    <3>5. QED
      BY <3>4, FS_Singleton
  <2>9. QED
    BY <2>5, <2>7, <2>8
<1>2. QED
  BY <1>1, FilesInvariant, PTL

\* pipewrite() and piperead() lose no wakeup: nobody sleeps on a pipe that
\* nobody holds without the reason for which it went to sleep.
THEOREM NoWakeupLost ==
  ASSUME Dimensions
  PROVE  Spec => []NoLostWakeup
<1>1. FilesInv => NoLostWakeup
  <2>1. SUFFICES ASSUME FilesInv, NEW p \in Procs, pipes[cur[p]].lock = 0
                 PROVE  /\ pc[p] = "sleep_nread" =>
                             /\ pipes[cur[p]].writeopen
                             /\ Count(cur[p]) = 0 \/ cur[p] \in gaveup
                        /\ pc[p] = "sleep_nwrite" => pipes[cur[p]].readopen /\ Full(cur[p])
    BY DEF NoLostWakeup
  <2>2. \A q \in Procs : ~(pc[q] = "writing" /\ cur[q] = cur[p])
    BY <2>1, Basics DEF FilesInv, LocksHeld, Locking
  <2>3. QED
    BY <2>1, <2>2 DEF FilesInv, Sleeps
<1>2. QED
  BY <1>1, FilesInvariant, PTL

\* Every field keeps its type; a counter of a ring never leaves its word.
THEOREM FilesTypes ==
  ASSUME Dimensions
  PROVE  Spec => []TypeOK
<1>1. FilesInv => TypeOK
  BY DEF FilesInv, Typed
<1>2. QED
  BY <1>1, FilesInvariant, PTL

-----------------------------------------------------------------------------
(* Counters that wrap around *)

LEMMA DivMod ==
  ASSUME NEW d \in Nat \ {0}, NEW q \in Int, NEW r \in 0..(d - 1)
  PROVE  (q * d + r) % d = r
OBVIOUS

LEMMA Wrap ==
  ASSUME NEW d \in Nat \ {0}, NEW x \in 0..(d - 1)
  PROVE  x % d = x /\ (x + d) % d = x /\ (x - d) % d = x
OBVIOUS

LEMMA Quotient ==
  ASSUME NEW d \in Nat \ {0}, NEW x \in Nat
  PROVE  \E a \in Int, r \in 0..(d - 1) : x = a * d + r /\ r = x % d
<1>1. PICK a \in Int : a = x \div d
  OBVIOUS
<1>2. PICK r \in 0..(d - 1) : r = x % d
  OBVIOUS
<1>3. x = a * d + r
  BY <1>1, <1>2
<1>4. QED
  BY <1>2, <1>3

LEMMA WordTurns ==
  ASSUME Dimensions, NEW x \in 0..(WORD - 1)
  PROVE  (x + WORD) % PIPESIZE = x % PIPESIZE
<1>1. PICK q \in Nat : WORD = q * PIPESIZE
  BY DEF Dimensions, PipeAssumption
<1>2. x \in Nat
  BY DEF Dimensions, PipeAssumption
<1>3. PICK a \in Int, r \in 0..(PIPESIZE - 1) : x = a * PIPESIZE + r /\ r = x % PIPESIZE
  BY <1>2, Quotient DEF Dimensions, PipeAssumption
<1>4. x + WORD = (a + q) * PIPESIZE + r
  BY <1>1, <1>3 DEF Dimensions, PipeAssumption
<1>5. ((a + q) * PIPESIZE + r) % PIPESIZE = r
  BY DivMod DEF Dimensions, PipeAssumption
<1>6. QED
  BY <1>3, <1>4, <1>5

LEMMA Apart ==
  ASSUME Dimensions, NEW x \in Nat, NEW y \in Nat, x < y, y - x < PIPESIZE
  PROVE  x % PIPESIZE # y % PIPESIZE
<1>1. PICK a \in Int, r \in 0..(PIPESIZE - 1) : x = a * PIPESIZE + r /\ r = x % PIPESIZE
  BY Quotient DEF Dimensions, PipeAssumption
<1>2. PICK b \in Int, s \in 0..(PIPESIZE - 1) : y = b * PIPESIZE + s /\ s = y % PIPESIZE
  BY Quotient DEF Dimensions, PipeAssumption
<1>3. SUFFICES ASSUME r = s PROVE FALSE
  BY <1>1, <1>2
<1>4. y - x = (b - a) * PIPESIZE
  BY <1>1, <1>2, <1>3 DEF Dimensions, PipeAssumption
<1>5. PICK c \in Int : c = b - a
  OBVIOUS
<1>6. 0 < c * PIPESIZE /\ c * PIPESIZE < PIPESIZE
  BY <1>4, <1>5
<1>7. c >= 1 \/ c <= 0
  OBVIOUS
<1>8. PIPESIZE \in Int /\ PIPESIZE > 0
  BY DEF Dimensions, PipeAssumption
<1>9. c >= 1 => c * PIPESIZE >= PIPESIZE
  BY <1>8
<1>10. c <= 0 => c * PIPESIZE <= 0
  BY <1>8
<1>11. QED
  BY <1>6, <1>7, <1>8, <1>9, <1>10

LEMMA Slots ==
  ASSUME Dimensions, NEW n \in 0..(WORD - 1), NEW j \in 0..(WORD - 1)
  PROVE  Inc(n, j) % PIPESIZE = (n + j) % PIPESIZE
<1>1. CASE n + j < WORD
  <2>1. n + j \in 0..(WORD - 1) /\ WORD \in Nat \ {0}
    BY <1>1 DEF Dimensions, PipeAssumption
  <2>2. (n + j) % WORD = n + j
    BY <2>1, Wrap
  <2>3. QED
    BY <2>2 DEF Inc
<1>2. CASE n + j >= WORD
  <2>1. PICK x \in 0..(WORD - 1) : n + j = x + WORD
    <3>1. n + j - WORD \in 0..(WORD - 1) /\ n + j = (n + j - WORD) + WORD
      BY <1>2 DEF Dimensions, PipeAssumption
    <3>2. QED
      BY <3>1
  <2>2. (x + WORD) % WORD = x
    BY Wrap DEF Dimensions, PipeAssumption
  <2>3. QED
    BY <2>1, <2>2, WordTurns DEF Inc
<1>3. QED
  BY <1>1, <1>2 DEF Dimensions, PipeAssumption

LEMMA Turns ==
  ASSUME Dimensions, NEW n \in 0..(WORD - 1), NEW j \in 0..(WORD - 1)
  PROVE  \/ n + j < WORD /\ Inc(n, j) = n + j
         \/ n + j >= WORD /\ Inc(n, j) = n + j - WORD
<1>1. CASE n + j < WORD
  <2>1. n + j \in 0..(WORD - 1) /\ WORD \in Nat \ {0}
    BY <1>1 DEF Dimensions, PipeAssumption
  <2>2. (n + j) % WORD = n + j
    BY <2>1, Wrap
  <2>3. QED
    BY <1>1, <2>2 DEF Inc
<1>2. CASE n + j >= WORD
  <2>1. PICK x \in 0..(WORD - 1) : x = n + j - WORD
    BY <1>2 DEF Dimensions, PipeAssumption
  <2>2. (x + WORD) % WORD = x
    BY Wrap DEF Dimensions, PipeAssumption
  <2>3. n + j = x + WORD
    BY <2>1 DEF Dimensions, PipeAssumption
  <2>4. QED
    BY <1>2, <2>1, <2>2, <2>3 DEF Inc
<1>3. QED
  BY <1>1, <1>2 DEF Dimensions, PipeAssumption

LEMMA Difference ==
  ASSUME Dimensions, NEW r \in 0..(WORD - 1), NEW w \in 0..(WORD - 1)
  PROVE  (w - r) % WORD = IF w >= r THEN w - r ELSE w - r + WORD
<1>1. CASE w >= r
  <2>1. w - r \in 0..(WORD - 1)
    BY <1>1 DEF Dimensions, PipeAssumption
  <2>2. QED
    BY <1>1, <2>1, Wrap DEF Dimensions, PipeAssumption
<1>2. CASE w < r
  <2>1. PICK x \in 0..(WORD - 1) : x = w - r + WORD /\ w - r = x - WORD
    <3>1. w - r + WORD \in 0..(WORD - 1) /\ w - r = (w - r + WORD) - WORD
      BY <1>2 DEF Dimensions, PipeAssumption
    <3>2. QED
      BY <3>1
  <2>2. (x - WORD) % WORD = x
    BY Wrap DEF Dimensions, PipeAssumption
  <2>3. ~(w >= r)
    BY <1>2 DEF Dimensions, PipeAssumption
  <2>4. QED
    BY <2>1, <2>2, <2>3
<1>3. QED
  BY <1>1, <1>2 DEF Dimensions, PipeAssumption

\* The bytes under way: after d of them are read, and one more is written.
LEMMA Ring ==
  ASSUME Dimensions, NEW r \in 0..(WORD - 1), NEW w \in 0..(WORD - 1), NEW c, c = (w - r) % WORD
  PROVE  /\ c \in 0..(WORD - 1)
         /\ w = Inc(r, c)
         /\ \A d \in 0..c : (w - Inc(r, d)) % WORD = c - d
         /\ c + 1 < WORD => (Inc(w, 1) - r) % WORD = c + 1
<1>0. WORD \in Nat /\ WORD > 1
  BY DEF Dimensions, PipeAssumption
<1>1. c \in 0..(WORD - 1) /\ c = IF w >= r THEN w - r ELSE w - r + WORD
  <2>1. c = IF w >= r THEN w - r ELSE w - r + WORD
    BY Difference
  <2>2. QED
    BY <1>0, <2>1
<1>2. w = Inc(r, c)
  <2>1. PICK d \in 0..(WORD - 1) : d = c
    BY <1>1
  <2>2. \/ r + d < WORD /\ Inc(r, d) = r + d
        \/ r + d >= WORD /\ Inc(r, d) = r + d - WORD
    BY Turns
  <2>3. w = Inc(r, d)
    BY <1>0, <1>1, <2>1, <2>2
  <2>4. QED
    BY <2>1, <2>3
<1>3. ASSUME NEW d \in 0..c PROVE (w - Inc(r, d)) % WORD = c - d
  <2>1. d \in 0..(WORD - 1)
    BY <1>0, <1>1
  <2>2. PICK s \in 0..(WORD - 1) : s = Inc(r, d) /\ s = IF r + d < WORD THEN r + d ELSE r + d - WORD
    BY <1>0, <2>1, Turns
  <2>3. (w - s) % WORD = IF w >= s THEN w - s ELSE w - s + WORD
    BY Difference
  <2>4. QED
    BY <1>0, <1>1, <2>1, <2>2, <2>3
<1>4. ASSUME c + 1 < WORD PROVE (Inc(w, 1) - r) % WORD = c + 1
  <2>1. 1 \in 0..(WORD - 1)
    BY <1>0
  <2>2. PICK s \in 0..(WORD - 1) : s = Inc(w, 1) /\ s = IF w + 1 < WORD THEN w + 1 ELSE w + 1 - WORD
    BY <1>0, <2>1, Turns
  <2>3. (s - r) % WORD = IF s >= r THEN s - r ELSE s - r + WORD
    BY Difference
  <2>4. QED
    BY <1>0, <1>1, <1>4, <2>2, <2>3
<1>5. QED
  BY <1>1, <1>2, <1>3, <1>4

-----------------------------------------------------------------------------
(* The stream of bytes *)

Streams == [pi \in Pipes |-> Content(pi)]
Writers == [pi \in Pipes |-> pipes[pi].writeopen]

\* A ring holds no more than it can.
Rings == \A pi \in Pipes : Count(pi) <= PIPESIZE

LEMMA Contents ==
  ASSUME Dimensions, FilesInv, NEW pi \in Pipes
  PROVE  /\ Count(pi) \in 0..(WORD - 1) /\ Count(pi) \in Nat
         /\ Content(pi) \in Seq(Bytes) /\ Len(Content(pi)) = Count(pi)
         /\ DOMAIN Content(pi) = 1..Count(pi)
         /\ pipes[pi].nread \in 0..(WORD - 1) /\ pipes[pi].nwrite \in 0..(WORD - 1)
<1>1. Count(pi) \in 0..(WORD - 1) /\ Count(pi) \in Nat
  BY CountType
<1>2. /\ pipes[pi].nread \in 0..(WORD - 1) /\ pipes[pi].nwrite \in 0..(WORD - 1)
      /\ pipes[pi].data \in [0..(PIPESIZE - 1) -> Bytes]
  BY Basics DEF PipeRecords
<1>3. \A k \in 1..Count(pi) : pipes[pi].data[Inc(pipes[pi].nread, k - 1) % PIPESIZE] \in Bytes
  <2>1. SUFFICES ASSUME NEW k \in 1..Count(pi)
                 PROVE  Inc(pipes[pi].nread, k - 1) % PIPESIZE \in 0..(PIPESIZE - 1)
    BY <1>2
  <2>2. k - 1 \in Nat /\ pipes[pi].nread \in Nat
    BY <1>1, <1>2
  <2>3. Inc(pipes[pi].nread, k - 1) \in 0..(WORD - 1)
    BY <2>2, Unsigned
  <2>4. Inc(pipes[pi].nread, k - 1) \in Nat
    BY <2>3
  <2>5. QED
    BY <2>4, Unsigned
<1>4. Content(pi) \in [1..Count(pi) -> Bytes]
  BY <1>3 DEF Content
<1>5. Content(pi) \in Seq(Bytes) /\ Len(Content(pi)) = Count(pi) /\ DOMAIN Content(pi) = 1..Count(pi)
  BY <1>1, <1>4
<1>6. QED
  BY <1>1, <1>2, <1>5

SameBytes(pi) ==
  /\ pipes'[pi].nread = pipes[pi].nread /\ pipes'[pi].nwrite = pipes[pi].nwrite
  /\ pipes'[pi].data = pipes[pi].data

LEMMA BytesStay ==
  ASSUME NEW pi \in Pipes, SameBytes(pi)
  PROVE  Count(pi)' = Count(pi) /\ Content(pi)' = Content(pi)
<1>1. Count(pi)' = Count(pi)
  BY DEF Count, SameBytes
<1>2. QED
  BY <1>1 DEF Content, SameBytes

\* pipewrite() puts a byte behind the others.
LEMMA WriteByteStream ==
  ASSUME Dimensions, FilesInv, Rings, NEW p \in Procs, WriteByte(p)
  PROVE  /\ Rings' /\ left[p] \in Bytes /\ UNCHANGED <<Writers, result>>
         /\ Writers[cur[p]] /\ Len(Streams[cur[p]]) < PIPESIZE
         /\ Streams' = [Streams EXCEPT ![cur[p]] = Append(@, left[p])]
<1> USE Basics
<1>1. PICK pi \in Pipes : pi = cur[p]
  OBVIOUS
<1>2. PICK r \in 0..(WORD - 1), w \in 0..(WORD - 1), c \in Nat :
        r = pipes[pi].nread /\ w = pipes[pi].nwrite /\ c = Count(pi)
  BY Contents
<1>3. /\ pc[p] = "writing" /\ left[p] > 0 /\ ~Full(pi)
      /\ left' = [left EXCEPT ![p] = @ - 1]
      /\ pipes' = [pipes EXCEPT ![pi].data[w % PIPESIZE] = left[p], ![pi].nwrite = Inc(w, 1)]
      /\ UNCHANGED <<pc, cur, killed, result, gaveup>>
  BY <1>1, <1>2 DEF WriteByte, FilesInv, Typed, TypeOK
<1>4. left[p] \in Bytes
  BY <1>3 DEF Bytes
<1>5. c = (w - r) % WORD
  BY <1>2 DEF Count
<1>6. /\ c \in 0..(WORD - 1) /\ w = Inc(r, c)
      /\ c + 1 < WORD => (Inc(w, 1) - r) % WORD = c + 1
  BY <1>5, Ring
<1>7. c < PIPESIZE
  <2>1. c <= PIPESIZE
    BY <1>2 DEF Rings
  <2>2. c # PIPESIZE
    BY <1>2, <1>3, <1>6 DEF Full
  <2>3. QED
    BY <1>6, <2>1, <2>2 DEF Dimensions, PipeAssumption
<1>8. /\ pipes'[pi].data = [pipes[pi].data EXCEPT ![w % PIPESIZE] = left[p]]
      /\ pipes'[pi].nwrite = Inc(w, 1) /\ pipes'[pi].nread = r
      /\ pipes'[pi].writeopen = pipes[pi].writeopen
      /\ \A qi \in Pipes : qi # pi => pipes'[qi] = pipes[qi]
  BY <1>2, <1>3 DEF FilesInv, Typed, TypeOK
<1>9. Count(pi)' = c + 1
  BY <1>6, <1>7, <1>8 DEF Count, Dimensions, PipeAssumption
<1>10. \A qi \in Pipes : qi # pi => Count(qi)' = Count(qi) /\ Content(qi)' = Content(qi)
  BY <1>8, BytesStay DEF SameBytes
<1>11. Rings'
  BY <1>7, <1>9, <1>10 DEF Rings, Dimensions, PipeAssumption
<1>12. Content(pi)' = Append(Content(pi), left[p])
  <2>1. \A k \in 1..c : (Inc(r, k - 1) % PIPESIZE) # (w % PIPESIZE)
    <3>1. SUFFICES ASSUME NEW k \in 1..c
                   PROVE  (Inc(r, k - 1) % PIPESIZE) # (w % PIPESIZE)
      OBVIOUS
    <3>2. k - 1 \in 0..(WORD - 1) /\ c \in 0..(WORD - 1)
      <4>1. WORD \in Nat
        BY DEF Dimensions, PipeAssumption
      <4>2. QED
        BY <1>2, <1>6, <4>1
    <3>3. /\ Inc(r, k - 1) % PIPESIZE = (r + (k - 1)) % PIPESIZE
          /\ w % PIPESIZE = (r + c) % PIPESIZE
      BY <1>6, <3>2, Slots
    <3>4. r + (k - 1) \in Nat /\ r + c \in Nat /\ r + (k - 1) < r + c
          /\ (r + c) - (r + (k - 1)) < PIPESIZE
      BY <1>7 DEF Dimensions, PipeAssumption
    <3>5. QED
      BY <3>3, <3>4, Apart
  <2>2. w % PIPESIZE \in 0..(PIPESIZE - 1)
    BY Unsigned
  <2>3. DOMAIN pipes[pi].data = 0..(PIPESIZE - 1)
    BY DEF PipeRecords
  <2>4. \A k \in 1..c : pipes'[pi].data[Inc(r, k - 1) % PIPESIZE] = Content(pi)[k]
    <3>1. SUFFICES ASSUME NEW k \in 1..c
                   PROVE  pipes'[pi].data[Inc(r, k - 1) % PIPESIZE] = Content(pi)[k]
      OBVIOUS
    <3>2. Inc(r, k - 1) % PIPESIZE \in 0..(PIPESIZE - 1)
      <4>1. k - 1 \in Nat
        OBVIOUS
      <4>2. r \in Nat
        BY DEF Dimensions, PipeAssumption
      <4>3. Inc(r, k - 1) \in 0..(WORD - 1)
        BY <4>1, <4>2, Unsigned
      <4>4. Inc(r, k - 1) \in Nat
        BY <4>3
      <4>5. QED
        BY <4>4, Unsigned
    <3>3. Content(pi)[k] = pipes[pi].data[Inc(r, k - 1) % PIPESIZE]
      BY <1>2 DEF Content
    <3>4. QED
      BY <1>8, <2>1, <2>3, <3>2, <3>3
  <2>5. pipes'[pi].data[Inc(r, (c + 1) - 1) % PIPESIZE] = left[p]
    <3>1. (c + 1) - 1 = c
      OBVIOUS
    <3>2. QED
      BY <1>6, <1>8, <2>2, <2>3, <3>1
  <2>6. Content(pi)' = [k \in 1..(c + 1) |-> pipes'[pi].data[Inc(r, k - 1) % PIPESIZE]]
    BY <1>8, <1>9 DEF Content
  <2>7. Content(pi) \in Seq(Bytes) /\ Len(Content(pi)) = c
    BY <1>2, Contents
  <2>8. Append(Content(pi), left[p])
          = [k \in 1..(c + 1) |-> IF k = c + 1 THEN left[p] ELSE Content(pi)[k]]
    BY <2>7
  <2>9. ASSUME NEW k \in 1..(c + 1)
        PROVE  pipes'[pi].data[Inc(r, k - 1) % PIPESIZE]
                 = IF k = c + 1 THEN left[p] ELSE Content(pi)[k]
    <3>1. CASE k = c + 1
      BY <2>5, <3>1
    <3>2. CASE k # c + 1
      <4>1. k \in 1..c
        BY <3>2
      <4>2. QED
        BY <2>4, <3>2, <4>1
    <3>3. QED
      BY <3>1, <3>2
  <2>10. QED
    BY <2>6, <2>8, <2>9
<1>13. Streams' = [Streams EXCEPT ![pi] = Append(@, left[p])]
  BY <1>10, <1>12 DEF Streams
<1>14. UNCHANGED <<Writers, result>>
  <2>1. \A qi \in Pipes : pipes'[qi].writeopen = pipes[qi].writeopen
    BY <1>8
  <2>2. QED
    BY <1>3, <2>1 DEF Writers
<1>15. Writers[pi]
  <2>1. TRUE \in BOOLEAN /\ Uses(p, TRUE)
    BY <1>3 DEF FilesInv, Works, Writing
  <2>2. IsOpen(cur[p], TRUE)
    BY <2>1, UsesOpen
  <2>3. QED
    BY <1>1, <2>2 DEF IsOpen, Writers
<1>16. Len(Streams[pi]) < PIPESIZE
  BY <1>2, <1>7, Contents DEF Streams
<1>17. QED
  BY <1>1, <1>4, <1>11, <1>13, <1>14, <1>15, <1>16

LEMMA TwiceOn ==
  ASSUME Dimensions, NEW r \in 0..(WORD - 1), NEW d \in 0..(WORD - 1), NEW j \in 0..(WORD - 1),
         d + j < WORD
  PROVE  Inc(Inc(r, d), j) = Inc(r, d + j)
<1>0. WORD \in Nat /\ d + j \in 0..(WORD - 1)
  BY DEF Dimensions, PipeAssumption
<1>1. PICK s \in 0..(WORD - 1) : s = Inc(r, d) /\ s = IF r + d < WORD THEN r + d ELSE r + d - WORD
  BY <1>0, Turns
<1>2. Inc(s, j) = IF s + j < WORD THEN s + j ELSE s + j - WORD
  BY <1>0, Turns
<1>3. Inc(r, d + j) = IF r + (d + j) < WORD THEN r + (d + j) ELSE r + (d + j) - WORD
  BY <1>0, Turns
<1>4. QED
  BY <1>0, <1>1, <1>2, <1>3

\* The reader takes d bytes from the front.
Taken(pi, d) ==
  OnPipe(pi, [pipes[pi] EXCEPT !.nread = Inc(pipes[pi].nread, d), !.lock = 0])

LEMMA TakenBytes ==
  ASSUME Dimensions, FilesInv, Rings, NEW pi \in Pipes, NEW d \in 0..Count(pi), Taken(pi, d)
  PROVE  /\ Rings' /\ UNCHANGED Writers
         /\ Streams' = [Streams EXCEPT ![pi] = SubSeq(@, d + 1, Len(@))]
<1> USE Basics
<1>0. WORD \in Nat /\ WORD > 1 /\ PIPESIZE \in Nat
  BY DEF Dimensions, PipeAssumption
<1>1. PICK r \in 0..(WORD - 1), w \in 0..(WORD - 1), c \in Nat :
        r = pipes[pi].nread /\ w = pipes[pi].nwrite /\ c = Count(pi)
  BY Contents
<1>2. /\ c \in 0..(WORD - 1)
      /\ \A e \in 0..c : (w - Inc(r, e)) % WORD = c - e
  BY <1>1, Ring DEF Count
<1>3. d \in 0..c /\ d \in 0..(WORD - 1) /\ d \in Nat /\ r \in Nat
  BY <1>0, <1>1, <1>2
<1>4. PICK s \in 0..(WORD - 1) : s = Inc(r, d)
  BY <1>3, Unsigned
<1> DEFINE rec == [pipes[pi] EXCEPT !.nread = s, !.lock = 0]
<1>5. rec \in PipeRecords /\ OnPipe(pi, rec)
  BY <1>1, <1>4, FieldsOf DEF Taken
<1>6. /\ rec.nread = s /\ rec.nwrite = w /\ rec.data = pipes[pi].data
      /\ rec.writeopen = pipes[pi].writeopen
  BY <1>1 DEF PipeRecords
<1> HIDE DEF rec
<1>7. pipes'[pi] = rec /\ \A qi \in Pipes : qi # pi => pipes'[qi] = pipes[qi]
  BY <1>5, PipeChanges
<1>8. Count(pi)' = c - d
  BY <1>2, <1>3, <1>4, <1>6, <1>7 DEF Count
<1>9. \A qi \in Pipes : qi # pi => Count(qi)' = Count(qi) /\ Content(qi)' = Content(qi)
  BY <1>7, BytesStay DEF SameBytes
<1>10. Rings'
  <2>1. c <= PIPESIZE
    BY <1>1 DEF Rings
  <2>2. c - d <= PIPESIZE
    BY <1>0, <1>3, <2>1
  <2>3. ASSUME NEW qi \in Pipes PROVE Count(qi)' <= PIPESIZE
    BY <1>8, <1>9, <2>2 DEF Rings
  <2>4. QED
    BY <2>3 DEF Rings
<1>11. UNCHANGED Writers
  <2>1. \A qi \in Pipes : pipes'[qi].writeopen = pipes[qi].writeopen
    BY <1>6, <1>7
  <2>2. QED
    BY <2>1 DEF Writers
<1>12. Content(pi)' = SubSeq(Content(pi), d + 1, Len(Content(pi)))
  <2>1. Content(pi)' = [k \in 1..(c - d) |-> pipes[pi].data[Inc(s, k - 1) % PIPESIZE]]
    BY <1>6, <1>7, <1>8 DEF Content
  <2>2. Content(pi) \in Seq(Bytes) /\ Len(Content(pi)) = c
    BY <1>1, Contents
  <2>3. SubSeq(Content(pi), d + 1, c) = [k \in 1..(c - d) |-> Content(pi)[k + d]]
    <3>1. PICK t \in Seq(Bytes) : t = Content(pi) /\ Len(t) = c
      BY <2>2
    <3>2. SubSeq(t, d + 1, c) = [k \in 1..(c - d) |-> t[k + d]]
      <4>1. /\ SubSeq(t, d + 1, c) \in Seq(Bytes)
            /\ Len(SubSeq(t, d + 1, c)) = c - d
            /\ \A k \in 1..(c - d) : SubSeq(t, d + 1, c)[k] = t[k + d]
        BY <1>3, <3>1
      <4>2. PICK u \in Seq(Bytes) : u = SubSeq(t, d + 1, c)
        BY <4>1
      <4>3. PICK m \in Nat : m = c - d
        BY <1>3
      <4>4. Len(u) = m /\ \A k \in 1..m : u[k] = t[k + d]
        BY <4>1, <4>2, <4>3
      <4>5. u = [k \in 1..Len(u) |-> u[k]]
        OBVIOUS
      <4>6. [k \in 1..m |-> u[k]] = [k \in 1..m |-> t[k + d]]
        BY <4>4
      <4>7. QED
        BY <4>2, <4>3, <4>4, <4>5, <4>6
    <3>3. QED
      BY <3>1, <3>2
  <2>4. ASSUME NEW k \in 1..(c - d)
        PROVE  pipes[pi].data[Inc(s, k - 1) % PIPESIZE] = Content(pi)[k + d]
    <3>1. k - 1 \in 0..(WORD - 1) /\ d + (k - 1) < WORD /\ d + (k - 1) = (k + d) - 1
          /\ k + d \in 1..c
      BY <1>0, <1>2, <1>3
    <3>2. Inc(s, k - 1) = Inc(r, (k + d) - 1)
      BY <1>3, <1>4, <3>1, TwiceOn
    <3>3. Content(pi)[k + d] = pipes[pi].data[Inc(r, (k + d) - 1) % PIPESIZE]
      BY <1>1, <3>1 DEF Content
    <3>4. QED
      BY <3>2, <3>3
  <2>5. QED
    BY <2>1, <2>2, <2>3, <2>4
<1>13. QED
  BY <1>9, <1>10, <1>11, <1>12 DEF Streams

Told(p, k, fault) ==
  result' = [result EXCEPT ![p] = [bytes |-> SubSeq(Streams[cur[p]], 1, k), fault |-> fault]]

\* piperead() takes the bytes that it returns, and one more when copyout() fails.
LEMMA ReadReturnsStream ==
  ASSUME Dimensions, FilesInv, Rings, NEW p \in Procs, ReadReturns(p)
  PROVE  /\ Rings' /\ UNCHANGED Writers
         /\ \E k \in 0..Len(Streams[cur[p]]) :
              \/ /\ k > 0 \/ (Streams[cur[p]] = << >> /\ ~Writers[cur[p]])
                 /\ Told(p, k, FALSE)
                 /\ Streams' = [Streams EXCEPT ![cur[p]] = SubSeq(@, k + 1, Len(@))]
              \/ /\ k < Len(Streams[cur[p]])
                 /\ Told(p, k, TRUE)
                 /\ Streams' = [Streams EXCEPT ![cur[p]] = SubSeq(@, k + 2, Len(@))]
<1> USE Basics
<1>1. PICK pi \in Pipes : pi = cur[p]
  OBVIOUS
<1>2. PICK c \in Nat, n \in Nat :
        c = Count(pi) /\ c = Len(Streams[pi]) /\ n = left[p] /\ Streams[pi] = Content(pi)
  BY Contents DEF Streams, Dimensions, PipeAssumption
<1>3. n > 0
  BY <1>2 DEF ReadReturns, FilesInv, Works, Reading
<1>4. PICK most \in 0..c : most = IF c < n THEN c ELSE n
  BY <1>2
<1>5. \/ Told(p, most, FALSE) /\ Taken(pi, most)
      \/ \E k \in 0..(most - 1) : Told(p, k, TRUE) /\ Taken(pi, k + 1)
  <2>1. CASE /\ Told(p, most, FALSE)
             /\ pipes' = [pipes EXCEPT ![pi].nread = Inc(@, most), ![pi].lock = 0]
    BY <2>1 DEF Taken, OnPipe, FilesInv, Typed, TypeOK
  <2>2. CASE \E k \in 0..(most - 1) :
               /\ Told(p, k, TRUE)
               /\ pipes' = [pipes EXCEPT ![pi].nread = Inc(@, k + 1), ![pi].lock = 0]
    <3>1. PICK k \in 0..(most - 1) :
            /\ Told(p, k, TRUE)
            /\ pipes' = [pipes EXCEPT ![pi].nread = Inc(@, k + 1), ![pi].lock = 0]
      BY <2>2
    <3>2. Taken(pi, k + 1)
      BY <3>1 DEF Taken, OnPipe, FilesInv, Typed, TypeOK
    <3>3. QED
      BY <3>1, <3>2
  <2> DEFINE m == IF Count(cur[p]) < left[p] THEN Count(cur[p]) ELSE left[p]
             Copies(k, e, fault) ==
               /\ result' = [result EXCEPT ![p] =
                                [bytes |-> SubSeq(Content(cur[p]), 1, k), fault |-> fault]]
               /\ pipes' = [pipes EXCEPT ![cur[p]].nread = Inc(@, e), ![cur[p]].lock = 0]
  <2>3. Copies(m, m, FALSE) \/ \E k \in 0..(m - 1) : Copies(k, k + 1, TRUE)
    BY DEF ReadReturns
  <2>4. m = most
    BY <1>1, <1>2, <1>4
  <2> HIDE DEF m
  <2>5. \A k, e, fault : Copies(k, e, fault) =>
          /\ Told(p, k, fault)
          /\ pipes' = [pipes EXCEPT ![pi].nread = Inc(@, e), ![pi].lock = 0]
    BY <1>1, <1>2 DEF Told
  <2> HIDE DEF Copies
  <2>6. QED
    BY <2>1, <2>2, <2>3, <2>4, <2>5
<1>6. CASE Told(p, most, FALSE) /\ Taken(pi, most)
  <2>1. most \in 0..Count(pi)
    BY <1>2
  <2>2. /\ Rings' /\ UNCHANGED Writers
        /\ Streams' = [Streams EXCEPT ![pi] = SubSeq(@, most + 1, Len(@))]
    BY <1>6, <2>1, TakenBytes
  <2>3. c > 0 \/ ~Writers[pi]
    BY <1>1, <1>2 DEF ReadReturns, MustWait, Writers
  <2>4. c = 0 => Streams[pi] = << >>
    <3>1. Count(pi) = 0 => Content(pi) = << >>
      BY DEF Content
    <3>2. QED
      BY <1>2, <3>1
  <2>5. most > 0 \/ (Streams[pi] = << >> /\ ~Writers[pi])
    BY <1>3, <1>4, <2>3, <2>4
  <2>6. QED
    BY <1>1, <1>2, <1>6, <2>2, <2>5
<1>7. CASE \E k \in 0..(most - 1) : Told(p, k, TRUE) /\ Taken(pi, k + 1)
  <2>1. PICK k \in 0..(most - 1) : Told(p, k, TRUE) /\ Taken(pi, k + 1)
    BY <1>7
  <2>2. k + 1 \in 0..Count(pi) /\ k < c /\ k \in 0..c /\ (k + 1) + 1 = k + 2
    BY <1>2
  <2>3. /\ Rings' /\ UNCHANGED Writers
        /\ Streams' = [Streams EXCEPT ![pi] = SubSeq(@, (k + 1) + 1, Len(@))]
    BY <2>1, <2>2, TakenBytes
  <2>4. QED
    BY <1>1, <1>2, <2>1, <2>2, <2>3
<1>8. QED
  BY <1>5, <1>6, <1>7

\* A page that is got or given back holds no bytes.
LEMMA PageEmptied ==
  ASSUME Dimensions, FilesInv, Rings, NEW pi \in Pipes, NEW w \in BOOLEAN, OnPipe(pi, Pipe(w, w, w))
  PROVE  /\ Rings'
         /\ Streams' = [Streams EXCEPT ![pi] = << >>]
         /\ Writers' = [Writers EXCEPT ![pi] = w]
<1>0. WORD \in Nat \ {0} /\ PIPESIZE \in Nat /\ 1 \in Bytes /\ 0 \in 0..NPROC
  BY DEF Dimensions, PipeAssumption, Bytes
<1>1. Pipe(w, w, w) \in PipeRecords
  BY <1>0 DEF Pipe, PipeRecords
<1>2. pipes'[pi] = Pipe(w, w, w) /\ \A qi \in Pipes : qi # pi => pipes'[qi] = pipes[qi]
  BY <1>1, PipeChanges
<1>3. pipes'[pi].nwrite = 0 /\ pipes'[pi].nread = 0 /\ pipes'[pi].writeopen = w
  BY <1>2 DEF Pipe
<1>4. Count(pi)' = 0
  BY <1>0, <1>3 DEF Count
<1>5. Content(pi)' = << >>
  BY <1>4 DEF Content
<1>6. \A qi \in Pipes : qi # pi => Count(qi)' = Count(qi) /\ Content(qi)' = Content(qi)
  BY <1>2, BytesStay DEF SameBytes
<1>7. Rings'
  BY <1>0, <1>4, <1>6 DEF Rings
<1>8. Streams' = [Streams EXCEPT ![pi] = << >>]
  BY <1>5, <1>6 DEF Streams
<1>9. Writers' = [Writers EXCEPT ![pi] = w]
  BY <1>2, <1>3 DEF Writers
<1>10. QED
  BY <1>7, <1>8, <1>9

\* What the other steps leave alone.
SameStream ==
  /\ \A pi \in Pipes : SameBytes(pi) /\ pipes'[pi].writeopen = pipes[pi].writeopen
  /\ UNCHANGED result

LEMMA StreamStays ==
  ASSUME Rings, SameStream
  PROVE  Rings' /\ UNCHANGED <<Streams, Writers, result>>
<1>1. \A pi \in Pipes : Count(pi)' = Count(pi) /\ Content(pi)' = Content(pi)
  BY BytesStay DEF SameStream
<1>2. Rings'
  BY <1>1 DEF Rings
<1>3. QED
  BY <1>1, <1>2 DEF SameStream, Streams, Writers

\* What a step is in the stream.
InStream == Stream!NextStream \/ UNCHANGED <<Streams, Writers, result>>

LEMMA PipeStepStream ==
  ASSUME Dimensions, FilesInv, Rings, NEW p \in Procs, PipeStep(p)
  PROVE  Rings' /\ InStream
<1> USE Basics
<1>0. pipes \in [Pipes -> PipeRecords]
  BY DEF FilesInv, Typed, TypeOK, PipeRecords
<1>1. ASSUME AcquirePipe(p) \/ Release(p) \/ pipes' = [pipes EXCEPT ![cur[p]].readopen = FALSE,
                                                                    ![cur[p]].lock = 0],
             UNCHANGED result
      PROVE  Rings' /\ InStream
  <2>1. \A pi \in Pipes : SameBytes(pi) /\ pipes'[pi].writeopen = pipes[pi].writeopen
    <3>1. CASE AcquirePipe(p)
      BY <1>0, <3>1 DEF SameBytes, AcquirePipe, PipeRecords
    <3>2. CASE Release(p)
      BY <1>0, <3>2 DEF SameBytes, Release, PipeRecords
    <3>3. CASE pipes' = [pipes EXCEPT ![cur[p]].readopen = FALSE, ![cur[p]].lock = 0]
      BY <1>0, <3>3 DEF SameBytes, PipeRecords
    <3>4. QED
      BY <1>1, <3>1, <3>2, <3>3
  <2>2. QED
    BY <1>1, <2>1, StreamStays DEF SameStream, InStream
<1>2. CASE AcquirePipe(p)
  BY <1>1, <1>2 DEF AcquirePipe, thread
<1>3. CASE WriteGivesUp(p) \/ WriteSleeps(p) \/ WriteReturns(p) \/ ReadWaits(p)
  BY <1>1, <1>3 DEF WriteGivesUp, WriteSleeps, WriteReturns, ReadWaits, thread
<1>4. CASE WriteByte(p)
  <2>1. /\ Rings' /\ left[p] \in Bytes /\ UNCHANGED <<Writers, result>>
        /\ Writers[cur[p]] /\ Len(Streams[cur[p]]) < PIPESIZE
        /\ Streams' = [Streams EXCEPT ![cur[p]] = Append(@, left[p])]
    BY <1>4, WriteByteStream
  <2>2. Stream!Put(cur[p], left[p])
    BY <2>1 DEF Stream!Put, Streams, Writers
  <2>3. QED
    BY <2>1, <2>2 DEF InStream, Stream!NextStream
<1>5. CASE ReadReturns(p)
  <2>1. /\ Rings' /\ UNCHANGED Writers
        /\ \E k \in 0..Len(Streams[cur[p]]) :
             \/ /\ k > 0 \/ (Streams[cur[p]] = << >> /\ ~Writers[cur[p]])
                /\ Told(p, k, FALSE)
                /\ Streams' = [Streams EXCEPT ![cur[p]] = SubSeq(@, k + 1, Len(@))]
             \/ /\ k < Len(Streams[cur[p]])
                /\ Told(p, k, TRUE)
                /\ Streams' = [Streams EXCEPT ![cur[p]] = SubSeq(@, k + 2, Len(@))]
    BY <1>5, ReadReturnsStream
  <2>2. \E k \in 0..Len(Streams[cur[p]]) :
          Stream!Take(p, cur[p], k) \/ Stream!TakeUpToFault(p, cur[p], k)
    BY <2>1 DEF Stream!Take, Stream!TakeUpToFault, Told, Streams, Writers
  <2>3. Stream!NextStream
    BY <2>2 DEF Stream!NextStream, Streams
  <2>4. QED
    BY <2>1, <2>3 DEF InStream
<1>6. CASE CloseRead(p)
  BY <1>1, <1>6 DEF CloseRead, thread
<1>7. CASE CloseWrite(p)
  <2>1. pipes' = [pipes EXCEPT ![cur[p]].writeopen = FALSE, ![cur[p]].lock = 0] /\ UNCHANGED result
    BY <1>7 DEF CloseWrite, thread
  <2>2. /\ \A pi \in Pipes : SameBytes(pi)
        /\ pipes'[cur[p]].writeopen = FALSE
        /\ \A pi \in Pipes : pi # cur[p] => pipes'[pi].writeopen = pipes[pi].writeopen
    BY <1>0, <2>1 DEF SameBytes, PipeRecords
  <2>3. \A pi \in Pipes : Count(pi)' = Count(pi) /\ Content(pi)' = Content(pi)
    BY <2>2, BytesStay
  <2>4. Rings'
    BY <2>3 DEF Rings
  <2>5. PICK pi \in Pipes : pi = cur[p]
    OBVIOUS
  <2>6. Stream!CloseWriters(pi)
    BY <2>1, <2>2, <2>3, <2>5 DEF Stream!CloseWriters
  <2>7. Stream!NextStream
    BY <2>6 DEF Stream!NextStream
  <2>8. QED
    BY <2>4, <2>7 DEF InStream
<1>8. CASE FreePipe(p)
  <2>1. OnPipe(cur[p], Pipe(FALSE, FALSE, FALSE)) /\ UNCHANGED result /\ Frees(p, cur[p])
    BY <1>8 DEF FreePipe, OnPipe, thread, Frees
  <2>2. ~Writers[cur[p]]
    BY <2>1 DEF FilesInv, Page, Writers
  <2>3. /\ Rings' /\ Streams' = [Streams EXCEPT ![cur[p]] = << >>]
        /\ Writers' = [Writers EXCEPT ![cur[p]] = FALSE]
    BY <2>1, PageEmptied
  <2>4. UNCHANGED Writers
    BY <2>2, <2>3 DEF Writers, PipeRecords
  <2>5. Stream!Free(cur[p])
    BY <2>1, <2>2, <2>3, <2>4 DEF Stream!Free, Streams, Writers
  <2>6. QED
    BY <2>3, <2>5 DEF InStream, Stream!NextStream
<1>9. QED
  BY <1>2, <1>3, <1>4, <1>5, <1>6, <1>7, <1>8 DEF PipeStep

LEMMA FileStepStream ==
  ASSUME Dimensions, FilesInv, Rings, NEW p \in Procs, FileStep(p)
  PROVE  Rings' /\ InStream
<1>1. ASSUME UNCHANGED <<pipes, result>>
      PROVE  Rings' /\ InStream
  <2>1. SameStream
    BY <1>1 DEF SameStream, SameBytes
  <2>2. QED
    BY <2>1, StreamStays DEF InStream
<1>2. CASE Return(p)
  <2>1. /\ UNCHANGED pipes
        /\ result' = [result EXCEPT ![p] = NoResult]
    BY <1>2 DEF Return
  <2>2. \A pi \in Pipes : Count(pi)' = Count(pi) /\ Content(pi)' = Content(pi)
    BY <2>1, BytesStay DEF SameBytes
  <2>3. Rings'
    BY <2>2 DEF Rings
  <2>4. Stream!Return(p)
    BY <2>1, <2>2 DEF Stream!Return
  <2>5. QED
    BY <2>3, <2>4 DEF InStream, Stream!NextStream
<1>3. CASE MakePipe(p)
  <2>1. PICK pi \in Pipes : ~pipes[pi].page /\ OnPipe(pi, Pipe(TRUE, TRUE, TRUE))
    <3>1. FreePages # {} /\ FreePages \subseteq 1..NPIPE
      BY <1>3 DEF MakePipe, FreePages, Pipes
    <3>2. First(FreePages) \in FreePages
      BY <3>1, FirstOnes DEF Dimensions, PipeAssumption
    <3>3. QED
      BY <1>3, <3>2 DEF MakePipe, FreePages, OnPipe
  <2>2. UNCHANGED result
    BY <1>3 DEF MakePipe
  <2>3. ~Writers[pi]
    BY <2>1, FreePage DEF Writers
  <2>4. /\ Rings' /\ Streams' = [Streams EXCEPT ![pi] = << >>]
        /\ Writers' = [Writers EXCEPT ![pi] = TRUE]
    BY <2>1, PageEmptied
  <2>5. Stream!Open(pi)
    BY <2>2, <2>3, <2>4 DEF Stream!Open, Streams, Writers
  <2>6. QED
    BY <2>4, <2>5 DEF InStream, Stream!NextStream
<1>4. CASE CloseHeld(p) \/ CloseOpen(p)
  BY <1>1, <1>4 DEF CloseHeld, CloseOpen, FileClose
<1>5. CASE SysPipe(p) \/ AllocFile(p) \/ AllocFails(p)
  BY <1>1, <1>5 DEF SysPipe, Calls, AllocFile, AllocFails
<1>6. CASE SysDup(p) \/ SysClose(p) \/ SysReadWrite(p, "read") \/ SysReadWrite(p, "write")
  BY <1>1, <1>6 DEF SysDup, SysClose, SysReadWrite, Calls
<1>7. CASE Refused(p) \/ Fork(p) \/ Exit(p) \/ Kill(p)
  BY <1>1, <1>7 DEF Refused, Fork, Exit, Kill, Calls, thread
<1>8. QED
  BY <1>2, <1>3, <1>4, <1>5, <1>6, <1>7 DEF FileStep

\* Pipes keep their promise, whatever the size of the ring and the width of its
\* counters: the bytes come out in the order in which they went in, none is lost
\* but the one that copyout() refuses, and a read() that is told of no fault
\* returns nothing only when nothing is left and nobody can write any more.
THEOREM StreamOfBytes ==
  ASSUME Dimensions
  PROVE  Spec => ImplementsStream
<1>1. Init => FilesInv /\ Rings /\ Stream!InitStream
  <2> SUFFICES ASSUME Init PROVE FilesInv /\ Rings /\ Stream!InitStream
    OBVIOUS
  <2>1. \A pi \in Pipes : pipes[pi] = Pipe(FALSE, FALSE, FALSE)
    BY DEF Init, InitPipe
  <2>2. WORD \in Nat \ {0} /\ PIPESIZE \in Nat
    BY DEF Dimensions, PipeAssumption
  <2>3. \A pi \in Pipes : Count(pi) = 0 /\ pipes[pi].writeopen = FALSE
    BY <2>1, <2>2 DEF Count, Pipe
  <2>4. \A pi \in Pipes : Content(pi) = << >>
    BY <2>3 DEF Content
  <2>5. Rings
    BY <2>2, <2>3 DEF Rings
  <2>6. FilesInv
    BY FilesInit
  <2>7. Stream!InitStream
    BY <2>3, <2>4 DEF Stream!InitStream, Init, InitPipe
  <2>8. QED
    BY <2>5, <2>6, <2>7
<1>2. FilesInv /\ Rings /\ [Next]_vars => Rings' /\ InStream
  <2> SUFFICES ASSUME FilesInv, Rings, [Next]_vars PROVE Rings' /\ InStream
    OBVIOUS
  <2>1. CASE UNCHANGED vars
    <3>1. SameStream
      BY <2>1 DEF SameStream, SameBytes, vars, thread
    <3>2. QED
      BY <3>1, StreamStays DEF InStream
  <2>2. CASE Next
    BY <2>2, PipeStepStream, FileStepStream DEF Next
  <2>3. QED
    BY <2>1, <2>2
<1>3. InStream => [Stream!NextStream]_<<[pi \in Pipes |-> Content(pi)],
                                        [pi \in Pipes |-> pipes[pi].writeopen], result>>
  BY DEF InStream, Streams, Writers
<1>4. Spec => []FilesInv
  BY FilesInvariant
<1>5. QED
  BY <1>1, <1>2, <1>3, <1>4, PTL DEF Spec, ImplementsStream, Stream!StreamSpec

=============================================================================
