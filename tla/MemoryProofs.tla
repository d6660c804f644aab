---------------------------- MODULE MemoryProofs ----------------------------
(***************************************************************************)
(* Proofs about Memory: wherever a call runs out of memory, every page is  *)
(* free or in one place, and no assertion of vm.c fails.                   *)
(***************************************************************************)
EXTENDS Memory, FiniteSetTheorems, FunctionTheorems, SequenceTheorems, WellFoundedInduction,
        TLAPS

-----------------------------------------------------------------------------
(* The invariant *)

Setting == {"root", "map_trampoline", "map_trapframe"}
Looping == {"alloc", "map"}
Positions == Setting \cup Looping \cup {"user", "trapframe", "commit"}
States == {"unused", "used", "running", "zombie"}

Typed ==
  /\ \E n \in Sizes : pages = 1..n
  /\ free \in SUBSET pages
  /\ state \in [Processes -> States]
  /\ trapframe \in [Processes -> pages \cup {NoPage}]
  /\ DOMAIN table = Tables
  /\ sz \in [Tables -> Nat]
  /\ pc \in [Processes -> Positions]
  /\ at \in [Processes -> Tables]
  /\ a \in [Processes -> Nat]
  /\ goal \in [Processes -> Nat]
  /\ mem \in [Processes -> pages \cup {NoPage}]
  /\ segs \in [Processes -> Seq(Nat \cup {Stack})]

\* Who works on which table: sbrk() on its own, fork() on that of a child that
\* is "used", exec() on its local one.
Where(p) ==
  /\ pc[p] # "user" => state[p] = "running"
  /\ at[p] = p => pc[p] \in Looping \cup {"user"}
  /\ at[p] \in Processes \ {p} =>
       state[at[p]] = "used" /\ pc[p] \in Setting \cup Looping \cup {"trapframe"}
  /\ at[p] \notin Processes => at[p] = Local(p) /\ pc[p] \in Setting \cup Looping \cup {"commit"}
  /\ mem[p] # NoPage <=> pc[p] = "map"
  /\ at[p] \notin Processes /\ pc[p] # "commit" => segs[p] # << >>
Apart == \A p, q \in Processes : at[p] = at[q] /\ at[p] # p /\ at[q] # q => p = q

\* A table with the kernel's entries and k pages of user memory.
Whole(t, k, frame) ==
  /\ UserLeaves(t) = 0..(k - 1)
  /\ KernelLeaves \subseteq DOMAIN t
  /\ t[Leaf(TRAPFRAME)] = frame /\ frame # NoPage

\* The table of a process.
Own(q) ==
  /\ state[q] = "unused" => table[q] = NoTable /\ trapframe[q] = NoPage /\ sz[q] = 0
  /\ state[q] \in {"running", "zombie"} =>
       Whole(table[q], IF at[q] = q /\ pc[q] \in Looping THEN a[q] ELSE PagesOf(sz[q]), trapframe[q])

\* The table that a fork() or an exec() builds.
Built(p) ==
  LET s == at[p]
      frame == trapframe[Owner(p)]
  IN
  /\ s # Local(p) => table[Local(p)] = NoTable /\ sz[Local(p)] = 0
  /\ s # p =>
       /\ pc[p] = "trapframe" => trapframe[s] = NoPage
       /\ pc[p] \in {"trapframe", "root"} => table[s] = NoTable
       /\ pc[p] \in Setting \cup Looping \cup {"commit"} => frame # NoPage
       /\ pc[p] \in Setting \cup {"trapframe"} \/ s \in Processes => sz[s] = 0
       /\ pc[p] = "map_trampoline" => \A n \in DOMAIN table[s] : n[1] # 0
       /\ pc[p] = "map_trapframe" =>
            /\ UserLeaves(table[s]) = {}
            /\ Leaf(TRAMPOLINE) \in DOMAIN table[s] /\ Leaf(TRAPFRAME) \notin DOMAIN table[s]
       /\ pc[p] \in Looping \cup {"commit"} => Whole(table[s], a[p], frame)

\* The loops: how far they are, and what they are to reach.
Counted(p) ==
  LET n == PagesOf(sz[at[p]]) IN
  /\ pc[p] \in Setting \cup {"user", "trapframe"} => a[p] = 0
  /\ pc[p] = "commit" => a[p] = n
  /\ pc[p] \in Looping =>
       /\ n <= a[p]
       /\ a[p] = n \/ (a[p] - 1) * PGSIZE < goal[p]
       /\ pc[p] = "map" => a[p] * PGSIZE < goal[p]
       /\ at[p] = p => sz[p] < goal[p]
       /\ at[p] \in Processes \ {p} => goal[p] = sz[p]

\* Every page is free or in exactly one place.
HeldBy(tf, m, tb) ==
  {<<<<p, InTrapframe>>, tf[p]>> : p \in {q \in Processes : tf[q] # NoPage}}
  \cup {<<<<p, InMem>>, m[p]>> : p \in {q \in Processes : m[q] # NoPage}}
  \cup UNION {{<<<<s, n>>, tb[s][n]>> : n \in DOMAIN tb[s] \ KernelLeaves} : s \in Tables}
Once(H) == \A g, h \in H : g[2] = h[2] => g = h
PagesOfAll(H) == {h[2] : h \in H}
Accounts(H, used) == Once(H) /\ PagesOfAll(H) = used

\* The nodes of a table.
Nodes(t) == DOMAIN t \subseteq (0..3) \X Nat
NodesIn(tb) == \A s \in Tables : Nodes(tb[s])

MemoryInv ==
  /\ Typed /\ Apart
  /\ NodesIn(table)
  /\ Accounts(HeldBy(trapframe, mem, table), pages \ free)
  /\ \A p \in Processes : Where(p) /\ Own(p) /\ Built(p) /\ Counted(p)

-----------------------------------------------------------------------------
(* Numbers *)

LEMMA Least ==
  ASSUME NEW S \in SUBSET Nat, S # { }
  PROVE  Lowest(S) \in S
<1> DEFINE R == {ss \in Nat \X Nat : ss[1] < ss[2]}
<1>1. IsWellFoundedOn(R, Nat)
  BY NatLessThanWellFounded DEF OpToRel
<1>2. \A x, y \in Nat : <<x, y>> \in R <=> x < y
  OBVIOUS
<1> HIDE DEF R
<1>3. PICK x \in S : \A y \in S : ~(<<y, x>> \in R)
  BY <1>1, WFMin
<1>4. \A y \in S : x \in Nat /\ y \in Nat /\ ~(y < x)
  BY <1>2, <1>3
<1>5. \A y \in S : x <= y
  BY <1>4
<1>6. QED
  BY <1>5 DEF Lowest

LEMMA Monotone ==
  ASSUME NEW x \in Int, NEW y \in Int, NEW c \in Nat, x <= y
  PROVE  x * c <= y * c
<1>1. (y - x) * c >= 0
  <2>1. \A d \in Nat : d * c >= 0
    OBVIOUS
  <2>2. QED
    BY <2>1
<1>2. (y - x) * c = y * c - x * c
  OBVIOUS
<1>3. QED
  BY <1>1, <1>2

\* What the quotient is.
LEMMA QuotientIs ==
  ASSUME NEW q \in Int, NEW r \in Nat, NEW d \in Nat \ {0}, r < d
  PROVE  (q * d + r) \div d = q
OBVIOUS

LEMMA QuotientExists ==
  ASSUME NEW x \in Nat, NEW d \in Nat \ {0}
  PROVE  /\ x \div d \in Nat
         /\ (x \div d) * d <= x /\ x < (x \div d) * d + d
OBVIOUS

LEMMA PagesType ==
  ASSUME MemoryAssumption, NEW n \in Nat
  PROVE  /\ PagesOf(n) \in Nat
         /\ (PagesOf(n) - 1) * PGSIZE < n /\ n <= PagesOf(n) * PGSIZE
<1>1. PGSIZE \in Nat \ {0}
  BY DEF MemoryAssumption
<1>2. n + PGSIZE - 1 \in Nat
  BY <1>1
<1> DEFINE q == (n + PGSIZE - 1) \div PGSIZE
<1>3. q \in Nat /\ q * PGSIZE <= n + PGSIZE - 1 /\ n + PGSIZE - 1 < q * PGSIZE + PGSIZE
  BY <1>1, <1>2, QuotientExists
<1>4. q = PagesOf(n)
  BY DEF PagesOf
<1> HIDE DEF q
<1>5. (q - 1) * PGSIZE = q * PGSIZE - PGSIZE
  BY <1>1, <1>3
<1>6. QED
  BY <1>1, <1>3, <1>4, <1>5

\* So many pages have room for n bytes, and one less has not.
LEMMA PagesIs ==
  ASSUME MemoryAssumption, NEW n \in Nat, NEW k \in Nat,
         (k - 1) * PGSIZE < n, n <= k * PGSIZE
  PROVE  k = PagesOf(n)
<1> DEFINE m == PagesOf(n)
<1>1. m \in Nat /\ (m - 1) * PGSIZE < n /\ n <= m * PGSIZE
  BY PagesType
<1>2. PGSIZE \in Nat /\ k * PGSIZE \in Nat /\ m * PGSIZE \in Nat
      /\ (k - 1) * PGSIZE \in Int /\ (m - 1) * PGSIZE \in Int
  BY <1>1 DEF MemoryAssumption
<1> HIDE DEF m
<1>3. ~(k <= m - 1)
  BY <1>1, <1>2, Monotone
<1>4. ~(m <= k - 1)
  BY <1>1, <1>2, Monotone
<1>5. QED
  BY <1>1, <1>3, <1>4 DEF m

LEMMA PagesNone ==
  ASSUME MemoryAssumption
  PROVE  PagesOf(0) = 0
BY PagesIs DEF MemoryAssumption

LEMMA PagesOne ==
  ASSUME MemoryAssumption
  PROVE  PagesOf(PGSIZE) = 1
BY PagesIs DEF MemoryAssumption

LEMMA PagesMonotone ==
  ASSUME MemoryAssumption, NEW m \in Nat, NEW n \in Nat, m <= n
  PROVE  PagesOf(m) <= PagesOf(n)
<1> DEFINE i == PagesOf(m)
           j == PagesOf(n)
<1>1. i \in Nat /\ j \in Nat /\ (i - 1) * PGSIZE < m /\ n <= j * PGSIZE
  BY PagesType
<1>2. PGSIZE \in Nat /\ (i - 1) * PGSIZE \in Int /\ j * PGSIZE \in Int
  BY <1>1 DEF MemoryAssumption
<1> HIDE DEF i, j
<1>3. ~(j <= i - 1)
  BY <1>1, <1>2, Monotone
<1>4. QED
  BY <1>1, <1>3 DEF i, j

\* One page more than fewer than n bytes need is not more than n bytes need.
LEMMA PagesBelow ==
  ASSUME MemoryAssumption, NEW n \in Nat, NEW k \in Nat, (k - 1) * PGSIZE < n
  PROVE  k <= PagesOf(n)
<1> DEFINE j == PagesOf(n)
<1>1. j \in Nat /\ n <= j * PGSIZE
  BY PagesType
<1>2. PGSIZE \in Nat /\ (k - 1) * PGSIZE \in Int /\ j * PGSIZE \in Int
  BY <1>1 DEF MemoryAssumption
<1> HIDE DEF j
<1>3. ~(j <= k - 1)
  BY <1>1, <1>2, Monotone
<1>4. QED
  BY <1>1, <1>3 DEF j

LEMMA AddressSpace ==
  ASSUME MemoryAssumption
  PROVE  /\ TRAPFRAME \in Nat /\ TRAMPOLINE = TRAPFRAME + 1
         /\ TRAPFRAME >= 6
<1>1. ENTRIES \in Nat /\ ENTRIES >= 2
  BY DEF MemoryAssumption
<1>2. ENTRIES * ENTRIES \in Nat /\ ENTRIES * ENTRIES >= 4
  <2>1. 2 * ENTRIES <= ENTRIES * ENTRIES
    BY <1>1, Monotone
  <2>2. QED
    BY <1>1, <2>1
<1> DEFINE sq == ENTRIES * ENTRIES
<1>3. 2 * sq <= ENTRIES * sq /\ ENTRIES * sq \in Nat
  BY <1>1, <1>2, Monotone
<1>4. MAXVA = ENTRIES * sq
  BY <1>1 DEF MAXVA
<1> HIDE DEF sq
<1>5. QED
  BY <1>2, <1>3, <1>4 DEF TRAPFRAME, TRAMPOLINE, sq

LEMMA WayType ==
  ASSUME MemoryAssumption, NEW v \in Nat
  PROVE  /\ Way(v) \subseteq (0..3) \X Nat
         /\ \A n \in Way(v) : n[1] \in {1, 2}
         /\ \A m, n \in Way(v) : m[1] = n[1] => m = n
<1>1. ENTRIES \in Nat \ {0} /\ ENTRIES * ENTRIES \in Nat \ {0}
  BY DEF MemoryAssumption
<1>2. v \div ENTRIES \in Nat /\ v \div (ENTRIES * ENTRIES) \in Nat
  BY <1>1, QuotientExists
<1>3. QED
  BY <1>2 DEF Way

LEMMA NextNodeIn ==
  ASSUME MemoryAssumption, NEW v \in Nat, NEW t, Missing(t, v) # {}
  PROVE  NextNode(Missing(t, v)) \in Missing(t, v)
<1> DEFINE S == Missing(t, v)
<1>1. \A n \in S : n[1] \in {1, 2}
  BY WayType DEF Missing
<1>2. \E n \in S : \A m \in S : m[1] <= n[1]
  <2>1. CASE \E n \in S : n[1] = 2
    BY <1>1, <2>1
  <2>2. CASE ~ \E n \in S : n[1] = 2
    BY <1>1, <2>2
  <2>3. QED
    BY <2>1, <2>2
<1>3. QED
  BY <1>2 DEF NextNode

-----------------------------------------------------------------------------
(* The places of pages *)

LEMMA PageTaken ==
  ASSUME NEW H, NEW U, Accounts(H, U), NEW place, NEW x, x \notin U
  PROVE  Accounts(H \cup {<<place, x>>}, U \cup {x})
<1>1. \A h \in H : h[2] # x
  BY DEF Accounts, PagesOfAll
<1>2. Once(H \cup {<<place, x>>})
  BY <1>1 DEF Accounts, Once
<1>3. PagesOfAll(H \cup {<<place, x>>}) = PagesOfAll(H) \cup {x}
  <2>1. <<place, x>>[2] = x
    OBVIOUS
  <2>2. QED
    BY <2>1, Zenon DEF PagesOfAll
<1>4. QED
  BY <1>2, <1>3 DEF Accounts

LEMMA PagesGiven ==
  ASSUME NEW H, NEW U, Accounts(H, U), NEW G, G \subseteq H
  PROVE  Accounts(H \ G, U \ PagesOfAll(G))
<1>1. Once(H \ G)
  BY DEF Accounts, Once
<1>2. PagesOfAll(H \ G) = PagesOfAll(H) \ PagesOfAll(G)
  BY DEF Accounts, Once, PagesOfAll
<1>3. QED
  BY <1>1, <1>2 DEF Accounts

\* A page that changes its place stays in one place.
LEMMA PagesMoved ==
  ASSUME NEW H, NEW U, Accounts(H, U), NEW f
  PROVE  Accounts({<<f[h[1]], h[2]>> : h \in H}, U)
<1> DEFINE K == {<<f[h[1]], h[2]>> : h \in H}
<1>1. ASSUME NEW g \in K, NEW k \in K, g[2] = k[2] PROVE g = k
  <2>1. PICK h \in H : g = <<f[h[1]], h[2]>>
    OBVIOUS
  <2>2. PICK j \in H : k = <<f[j[1]], j[2]>>
    OBVIOUS
  <2>3. h = j
    BY <1>1, <2>1, <2>2 DEF Accounts, Once
  <2>4. QED
    BY <2>1, <2>2, <2>3
<1>2. PagesOfAll(K) = PagesOfAll(H)
  <2>1. PagesOfAll(K) \subseteq PagesOfAll(H)
    BY DEF PagesOfAll
  <2>2. ASSUME NEW h \in H PROVE h[2] \in PagesOfAll(K)
    <3>1. <<f[h[1]], h[2]>> \in K /\ <<f[h[1]], h[2]>>[2] = h[2]
      OBVIOUS
    <3>2. QED
      BY <3>1 DEF PagesOfAll
  <2>3. QED
    BY <2>1, <2>2 DEF PagesOfAll
<1>3. QED
  BY <1>1, <1>2 DEF Accounts, Once

LEMMA HeldMember ==
  ASSUME NEW tf, NEW m, NEW tb, NEW s, NEW n, NEW x
  PROVE  <<<<s, n>>, x>> \in HeldBy(tf, m, tb) <=>
           \/ n = InTrapframe /\ s \in Processes /\ tf[s] # NoPage /\ x = tf[s]
           \/ n = InMem /\ s \in Processes /\ m[s] # NoPage /\ x = m[s]
           \/ s \in Tables /\ n \in DOMAIN tb[s] \ KernelLeaves /\ x = tb[s][n]
BY DEF HeldBy

LEMMA HeldShape ==
  ASSUME NEW tf, NEW m, NEW tb, NEW h \in HeldBy(tf, m, tb)
  PROVE  h = <<<<h[1][1], h[1][2]>>, h[2]>>
BY DEF HeldBy

\* The three kinds of places.
LEMMA Places ==
  /\ InTrapframe # InMem /\ InTrapframe \notin (0..3) \X Nat /\ InMem \notin (0..3) \X Nat
  /\ InTrapframe \notin KernelLeaves /\ InMem \notin KernelLeaves
BY DEF InTrapframe, InMem, KernelLeaves, Leaf

\* g is f but for its value at q.
SameBut(f, g, q) == DOMAIN g = DOMAIN f /\ \A r \in DOMAIN f : r # q => g[r] = f[r]

LEMMA FrameTaken ==
  ASSUME NEW tf, DOMAIN tf = Processes, NEW m, NEW tb, NEW q \in Processes, tf[q] = NoPage,
         NEW tf2, SameBut(tf, tf2, q), NEW x, tf2[q] = x, x # NoPage
  PROVE  HeldBy(tf2, m, tb) = HeldBy(tf, m, tb) \cup {<<<<q, InTrapframe>>, x>>}
BY DEF HeldBy, SameBut

LEMMA MemTaken ==
  ASSUME NEW tf, NEW m, DOMAIN m = Processes, NEW tb, NEW q \in Processes, m[q] = NoPage,
         NEW m2, SameBut(m, m2, q), NEW x, m2[q] = x, x # NoPage
  PROVE  HeldBy(tf, m2, tb) = HeldBy(tf, m, tb) \cup {<<<<q, InMem>>, x>>}
BY DEF HeldBy, SameBut

\* Two accounts with the same places and pages are the same.
LEMMA HeldEqual ==
  ASSUME NEW tf, NEW m, NEW tb, NEW G,
         \A g \in G : g = <<<<g[1][1], g[1][2]>>, g[2]>>,
         \A s, n, x : <<<<s, n>>, x>> \in HeldBy(tf, m, tb) <=> <<<<s, n>>, x>> \in G
  PROVE  HeldBy(tf, m, tb) = G
<1>1. HeldBy(tf, m, tb) \subseteq G
  BY HeldShape
<1>2. G \subseteq HeldBy(tf, m, tb)
  <2>1. SUFFICES ASSUME NEW g \in G PROVE g \in HeldBy(tf, m, tb)
    OBVIOUS
  <2>2. g = <<<<g[1][1], g[1][2]>>, g[2]>>
    OBVIOUS
  <2>3. QED
    BY <2>2
<1>3. QED
  BY <1>1, <1>2

LEMMA NodeTaken ==
  ASSUME NEW tf, NEW m, NEW tb, DOMAIN tb = Tables,
         NEW s \in Tables, NEW n, n \notin DOMAIN tb[s], n \notin KernelLeaves, NEW x,
         NEW tb2, SameBut(tb, tb2, s), tb2[s] = With(tb[s], n, x)
  PROVE  HeldBy(tf, m, tb2) = HeldBy(tf, m, tb) \cup {<<<<s, n>>, x>>}
<1> DEFINE G == HeldBy(tf, m, tb) \cup {<<<<s, n>>, x>>}
<1>1. \A r \in Tables : r # s => tb2[r] = tb[r]
  BY DEF SameBut
<1>2. DOMAIN tb2[s] = DOMAIN tb[s] \cup {n} /\ tb2[s][n] = x
      /\ \A k \in DOMAIN tb[s] : tb2[s][k] = tb[s][k]
  BY DEF With
<1>3. ASSUME NEW r, NEW k, NEW y
      PROVE  <<<<r, k>>, y>> \in HeldBy(tf, m, tb2) <=> <<<<r, k>>, y>> \in G
  <2>1. CASE r \in Tables /\ r = s
    BY <1>2, <2>1, HeldMember
  <2>2. CASE r # s
    BY <1>1, <2>2, HeldMember
  <2>3. QED
    BY <2>1, <2>2
<1>4. \A g \in G : g = <<<<g[1][1], g[1][2]>>, g[2]>>
  BY HeldShape
<1> HIDE DEF G
<1>5. HeldBy(tf, m, tb2) = G
  BY <1>3, <1>4, HeldEqual
<1>6. QED
  BY <1>5 DEF G

LEMMA KernelMapped ==
  ASSUME NEW tf, NEW m, NEW tb, DOMAIN tb = Tables,
         NEW s \in Tables, NEW n \in KernelLeaves, NEW x,
         NEW tb2, SameBut(tb, tb2, s), tb2[s] = With(tb[s], n, x)
  PROVE  HeldBy(tf, m, tb2) = HeldBy(tf, m, tb)
<1> DEFINE G == HeldBy(tf, m, tb)
<1>1. \A r \in Tables : r # s => tb2[r] = tb[r]
  BY DEF SameBut
<1>2. DOMAIN tb2[s] = DOMAIN tb[s] \cup {n}
      /\ \A k \in DOMAIN tb[s] \ KernelLeaves : tb2[s][k] = tb[s][k]
  BY DEF With
<1>3. ASSUME NEW r, NEW k, NEW y
      PROVE  <<<<r, k>>, y>> \in HeldBy(tf, m, tb2) <=> <<<<r, k>>, y>> \in G
  <2>1. CASE r \in Tables /\ r = s
    BY <1>2, <2>1, HeldMember
  <2>2. CASE r # s
    BY <1>1, <2>2, HeldMember
  <2>3. QED
    BY <2>1, <2>2
<1>4. \A g \in G : g = <<<<g[1][1], g[1][2]>>, g[2]>>
  BY HeldShape
<1> HIDE DEF G
<1>5. HeldBy(tf, m, tb2) = G
  BY <1>3, <1>4, HeldEqual
<1>6. QED
  BY <1>5 DEF G

LEMMA FrameGiven ==
  ASSUME NEW tf, DOMAIN tf = Processes, NEW m, NEW tb, NodesIn(tb),
         NEW q \in Processes, tf[q] # NoPage,
         NEW tf2, SameBut(tf, tf2, q), tf2[q] = NoPage
  PROVE  HeldBy(tf2, m, tb) = HeldBy(tf, m, tb) \ {<<<<q, InTrapframe>>, tf[q]>>}
<1> DEFINE G == HeldBy(tf, m, tb) \ {<<<<q, InTrapframe>>, tf[q]>>}
<1>1. tf2[q] = NoPage /\ \A r \in Processes : r # q => tf2[r] = tf[r]
  BY DEF SameBut
<1>2. \A s \in Tables : InTrapframe \notin DOMAIN tb[s]
  BY Places DEF NodesIn, Nodes
<1>3. ASSUME NEW r, NEW k, NEW y
      PROVE  <<<<r, k>>, y>> \in HeldBy(tf2, m, tb) <=> <<<<r, k>>, y>> \in G
  <2>1. CASE k = InTrapframe /\ r = q
    <3>1. <<<<r, k>>, y>> \notin HeldBy(tf2, m, tb)
      BY <1>1, <1>2, <2>1, HeldMember, Places
    <3>2. <<<<r, k>>, y>> \in HeldBy(tf, m, tb) => y = tf[q]
      BY <1>2, <2>1, HeldMember, Places
    <3>3. QED
      BY <2>1, <3>1, <3>2
  <2>2. CASE ~(k = InTrapframe /\ r = q)
    <3>1. <<<<r, k>>, y>> \in G <=> <<<<r, k>>, y>> \in HeldBy(tf, m, tb)
      BY <2>2
    <3>2. QED
      BY <1>1, <2>2, <3>1, HeldMember
  <2>3. QED
    BY <2>1, <2>2
<1>4. \A g \in G : g = <<<<g[1][1], g[1][2]>>, g[2]>>
  BY HeldShape
<1> HIDE DEF G
<1>5. HeldBy(tf2, m, tb) = G
  BY <1>3, <1>4, HeldEqual
<1>6. QED
  BY <1>5 DEF G

LEMMA MemGiven ==
  ASSUME NEW tf, NEW m, DOMAIN m = Processes, NEW tb, NodesIn(tb), NEW q \in Processes,
         NEW m2, SameBut(m, m2, q), m2[q] = NoPage
  PROVE  HeldBy(tf, m2, tb) = HeldBy(tf, m, tb) \ {<<<<q, InMem>>, m[q]>>}
<1> DEFINE G == HeldBy(tf, m, tb) \ {<<<<q, InMem>>, m[q]>>}
<1>1. m2[q] = NoPage /\ \A r \in Processes : r # q => m2[r] = m[r]
  BY DEF SameBut
<1>2. \A s \in Tables : InMem \notin DOMAIN tb[s]
  BY Places DEF NodesIn, Nodes
<1>3. ASSUME NEW r, NEW k, NEW y
      PROVE  <<<<r, k>>, y>> \in HeldBy(tf, m2, tb) <=> <<<<r, k>>, y>> \in G
  <2>1. CASE k = InMem /\ r = q
    <3>1. <<<<r, k>>, y>> \notin HeldBy(tf, m2, tb)
      BY <1>1, <1>2, <2>1, HeldMember, Places
    <3>2. <<<<r, k>>, y>> \in HeldBy(tf, m, tb) => y = m[q]
      BY <1>2, <2>1, HeldMember, Places
    <3>3. QED
      BY <2>1, <3>1, <3>2
  <2>2. CASE ~(k = InMem /\ r = q)
    <3>1. <<<<r, k>>, y>> \in G <=> <<<<r, k>>, y>> \in HeldBy(tf, m, tb)
      BY <2>2
    <3>2. QED
      BY <1>1, <2>2, <3>1, HeldMember
  <2>3. QED
    BY <2>1, <2>2
<1>4. \A g \in G : g = <<<<g[1][1], g[1][2]>>, g[2]>>
  BY HeldShape
<1> HIDE DEF G
<1>5. HeldBy(tf, m2, tb) = G
  BY <1>3, <1>4, HeldEqual
<1>6. QED
  BY <1>5 DEF G

HeldAt(tb, s, S) == {<<<<s, n>>, tb[s][n]>> : n \in (S \cap DOMAIN tb[s]) \ KernelLeaves}
PagesAt(t, S) == {t[n] : n \in (S \cap DOMAIN t) \ KernelLeaves}

LEMMA NodesGiven ==
  ASSUME NEW tf, NEW m, NEW tb, DOMAIN tb = Tables, NodesIn(tb), NEW s \in Tables, NEW S,
         NEW tb2, SameBut(tb, tb2, s), tb2[s] = Without(tb[s], S)
  PROVE  HeldBy(tf, m, tb2) = HeldBy(tf, m, tb) \ HeldAt(tb, s, S)
<1> DEFINE Gone == HeldAt(tb, s, S)
           G == HeldBy(tf, m, tb) \ Gone
<1>1. \A r \in Tables : r # s => tb2[r] = tb[r]
  BY DEF SameBut
<1>2. DOMAIN tb2[s] = DOMAIN tb[s] \ S
      /\ \A k \in DOMAIN tb[s] \ S : tb2[s][k] = tb[s][k]
  BY DEF Without
<1>3. InTrapframe \notin DOMAIN tb[s] /\ InMem \notin DOMAIN tb[s]
  BY Places DEF NodesIn, Nodes
<1>4. ASSUME NEW r, NEW k, NEW y
      PROVE  <<<<r, k>>, y>> \in HeldBy(tf, m, tb2) <=> <<<<r, k>>, y>> \in G
  <2>0. <<<<r, k>>, y>> \in Gone <=> r = s /\ k \in (S \cap DOMAIN tb[s]) \ KernelLeaves /\ y = tb[s][k]
    BY DEF HeldAt
  <2>1. CASE r = s /\ k \in DOMAIN tb[s] /\ k \in S
    BY <1>2, <1>3, <2>0, <2>1, HeldMember
  <2>2. CASE r = s /\ ~(k \in DOMAIN tb[s] /\ k \in S)
    BY <1>2, <2>0, <2>2, HeldMember
  <2>3. CASE r # s
    BY <1>1, <2>0, <2>3, HeldMember
  <2>4. QED
    BY <2>1, <2>2, <2>3
<1>5. \A g \in G : g = <<<<g[1][1], g[1][2]>>, g[2]>>
  BY HeldShape
<1> HIDE DEF G
<1>6. HeldBy(tf, m, tb2) = G
  BY <1>4, <1>5, HeldEqual
<1>7. QED
  BY <1>6 DEF G

\* A page is taken from the free list, or given back.
LEMMA Taking ==
  ASSUME NEW H, NEW U, NEW F, F \subseteq U, Accounts(H, U \ F), NEW place, NEW x \in F
  PROVE  Accounts(H \cup {<<place, x>>}, U \ (F \ {x}))
<1>1. (U \ F) \cup {x} = U \ (F \ {x})
  OBVIOUS
<1>2. x \notin U \ F
  OBVIOUS
<1>3. Accounts(H \cup {<<place, x>>}, (U \ F) \cup {x})
  BY <1>2, PageTaken
<1>4. QED
  BY <1>1, <1>3

LEMMA Giving ==
  ASSUME NEW H, NEW U, NEW F, Accounts(H, U \ F), NEW G, G \subseteq H
  PROVE  Accounts(H \ G, U \ (F \cup PagesOfAll(G)))
<1>1. (U \ F) \ PagesOfAll(G) = U \ (F \cup PagesOfAll(G))
  OBVIOUS
<1>2. QED
  BY <1>1, PagesGiven

LEMMA TakingFrame ==
  ASSUME NEW tf, DOMAIN tf = Processes, NEW m, NEW tb, NEW q \in Processes, tf[q] = NoPage,
         NEW U, NEW F, F \subseteq U, Accounts(HeldBy(tf, m, tb), U \ F), NEW x \in F, x # NoPage,
         NEW tf2, SameBut(tf, tf2, q), tf2[q] = x
  PROVE  Accounts(HeldBy(tf2, m, tb), U \ (F \ {x}))
<1> DEFINE H == HeldBy(tf, m, tb)
           place == <<q, InTrapframe>>
<1>1. HeldBy(tf2, m, tb) = H \cup {<<place, x>>}
  BY FrameTaken
<1>2. Accounts(H, U \ F)
  OBVIOUS
<1> HIDE DEF H, place
<1>3. Accounts(H \cup {<<place, x>>}, U \ (F \ {x}))
  BY <1>2, Taking
<1>4. QED
  BY <1>1, <1>3

LEMMA TakingMem ==
  ASSUME NEW tf, NEW m, DOMAIN m = Processes, NEW tb, NEW q \in Processes, m[q] = NoPage,
         NEW U, NEW F, F \subseteq U, Accounts(HeldBy(tf, m, tb), U \ F), NEW x \in F, x # NoPage,
         NEW m2, SameBut(m, m2, q), m2[q] = x
  PROVE  Accounts(HeldBy(tf, m2, tb), U \ (F \ {x}))
<1> DEFINE H == HeldBy(tf, m, tb)
           place == <<q, InMem>>
<1>1. HeldBy(tf, m2, tb) = H \cup {<<place, x>>}
  BY MemTaken
<1>2. Accounts(H, U \ F)
  OBVIOUS
<1> HIDE DEF H, place
<1>3. Accounts(H \cup {<<place, x>>}, U \ (F \ {x}))
  BY <1>2, Taking
<1>4. QED
  BY <1>1, <1>3

LEMMA TakingNode ==
  ASSUME NEW tf, NEW m, NEW tb, DOMAIN tb = Tables,
         NEW s \in Tables, NEW n, n \notin DOMAIN tb[s], n \notin KernelLeaves,
         NEW U, NEW F, F \subseteq U, Accounts(HeldBy(tf, m, tb), U \ F), NEW x \in F,
         NEW tb2, SameBut(tb, tb2, s), tb2[s] = With(tb[s], n, x)
  PROVE  Accounts(HeldBy(tf, m, tb2), U \ (F \ {x}))
<1> DEFINE H == HeldBy(tf, m, tb)
           place == <<s, n>>
<1>1. HeldBy(tf, m, tb2) = H \cup {<<place, x>>}
  BY NodeTaken
<1>2. Accounts(H, U \ F)
  OBVIOUS
<1> HIDE DEF H, place
<1>3. Accounts(H \cup {<<place, x>>}, U \ (F \ {x}))
  BY <1>2, Taking
<1>4. QED
  BY <1>1, <1>3

LEMMA GivingFrame ==
  ASSUME NEW tf, DOMAIN tf = Processes, NEW m, NEW tb, NodesIn(tb),
         NEW q \in Processes, tf[q] # NoPage,
         NEW tf2, SameBut(tf, tf2, q), tf2[q] = NoPage,
         NEW U, NEW F, Accounts(HeldBy(tf, m, tb), U \ F)
  PROVE  Accounts(HeldBy(tf2, m, tb), U \ (F \cup {tf[q]}))
<1> DEFINE G == {<<<<q, InTrapframe>>, tf[q]>>}
<1>1. G \subseteq HeldBy(tf, m, tb)
  BY HeldMember
<1>2. PagesOfAll(G) = {tf[q]}
  BY DEF PagesOfAll
<1>3. HeldBy(tf2, m, tb) = HeldBy(tf, m, tb) \ G
  BY FrameGiven
<1> HIDE DEF G
<1>4. Accounts(HeldBy(tf, m, tb) \ G, U \ (F \cup {tf[q]}))
  BY <1>1, <1>2, Giving
<1>5. QED
  BY <1>3, <1>4

LEMMA GivingMem ==
  ASSUME NEW tf, NEW m, DOMAIN m = Processes, NEW tb, NodesIn(tb), NEW q \in Processes,
         NEW m2, SameBut(m, m2, q), m2[q] = NoPage,
         NEW U, NEW F, Accounts(HeldBy(tf, m, tb), U \ F)
  PROVE  Accounts(HeldBy(tf, m2, tb), U \ (F \cup ({m[q]} \ {NoPage})))
<1> DEFINE G == {h \in {<<<<q, InMem>>, m[q]>>} : m[q] # NoPage}
<1>1. G \subseteq HeldBy(tf, m, tb)
  BY HeldMember
<1>2. PagesOfAll(G) = {m[q]} \ {NoPage}
  <2>1. CASE m[q] = NoPage
    <3>1. G = {} /\ {m[q]} \ {NoPage} = {}
      BY <2>1
    <3>2. QED
      BY <3>1 DEF PagesOfAll
  <2>2. CASE m[q] # NoPage
    <3>1. G = {<<<<q, InMem>>, m[q]>>} /\ {m[q]} \ {NoPage} = {m[q]}
      BY <2>2
    <3>2. PagesOfAll({<<<<q, InMem>>, m[q]>>}) = {m[q]}
      BY DEF PagesOfAll
    <3>3. QED
      BY <3>1, <3>2
  <2>3. QED
    BY <2>1, <2>2
<1>3. HeldBy(tf, m2, tb) = HeldBy(tf, m, tb) \ G
  <2>1. HeldBy(tf, m2, tb) = HeldBy(tf, m, tb) \ {<<<<q, InMem>>, m[q]>>}
    BY MemGiven
  <2>2. m[q] = NoPage => <<<<q, InMem>>, m[q]>> \notin HeldBy(tf, m, tb)
    BY HeldMember, Places DEF NodesIn, Nodes
  <2>3. QED
    BY <2>1, <2>2
<1> HIDE DEF G
<1>4. Accounts(HeldBy(tf, m, tb) \ G, U \ (F \cup ({m[q]} \ {NoPage})))
  BY <1>1, <1>2, Giving
<1>5. QED
  BY <1>3, <1>4

LEMMA GivingNodes ==
  ASSUME NEW tf, NEW m, NEW tb, DOMAIN tb = Tables, NodesIn(tb), NEW s \in Tables, NEW S,
         NEW tb2, SameBut(tb, tb2, s), tb2[s] = Without(tb[s], S),
         NEW U, NEW F, Accounts(HeldBy(tf, m, tb), U \ F)
  PROVE  Accounts(HeldBy(tf, m, tb2), U \ (F \cup PagesAt(tb[s], S)))
<1> DEFINE G == HeldAt(tb, s, S)
<1>1. G \subseteq HeldBy(tf, m, tb)
  BY DEF HeldBy, HeldAt
<1>2. PagesOfAll(G) = PagesAt(tb[s], S)
  <2> DEFINE T == (S \cap DOMAIN tb[s]) \ KernelLeaves
  <2>1. G = {<<<<s, n>>, tb[s][n]>> : n \in T} /\ PagesAt(tb[s], S) = {tb[s][n] : n \in T}
    BY DEF HeldAt, PagesAt
  <2> HIDE DEF T, G
  <2>2. PagesOfAll(G) \subseteq PagesAt(tb[s], S)
    BY <2>1 DEF PagesOfAll
  <2>3. ASSUME NEW n \in T PROVE tb[s][n] \in PagesOfAll(G)
    <3>1. <<<<s, n>>, tb[s][n]>> \in G /\ <<<<s, n>>, tb[s][n]>>[2] = tb[s][n]
      BY <2>1
    <3>2. QED
      BY <3>1 DEF PagesOfAll
  <2>4. QED
    BY <2>1, <2>2, <2>3
<1>3. HeldBy(tf, m, tb2) = HeldBy(tf, m, tb) \ G
  BY NodesGiven
<1> HIDE DEF G
<1>4. Accounts(HeldBy(tf, m, tb) \ G, U \ (F \cup PagesAt(tb[s], S)))
  BY <1>1, <1>2, Giving
<1>5. QED
  BY <1>3, <1>4

LEMMA GivingTable ==
  ASSUME NEW tf, NEW m, NEW tb, DOMAIN tb = Tables, NodesIn(tb), NEW s \in Tables,
         NEW tb2, SameBut(tb, tb2, s), tb2[s] = NoTable,
         NEW U, NEW F, Accounts(HeldBy(tf, m, tb), U \ F)
  PROVE  Accounts(HeldBy(tf, m, tb2), U \ (F \cup PagesIn(tb[s])))
<1> DEFINE S == DOMAIN tb[s]
<1>1. (S \cap DOMAIN tb[s]) \ KernelLeaves = DOMAIN tb[s] \ KernelLeaves
  OBVIOUS
<1>2. Without(tb[s], S) = NoTable
  BY DEF Without, NoTable
<1>3. PagesAt(tb[s], S) = PagesIn(tb[s])
  BY <1>1 DEF PagesIn, PagesAt
<1> HIDE DEF S
<1>4. Accounts(HeldBy(tf, m, tb2), U \ (F \cup PagesAt(tb[s], S)))
  BY <1>2, GivingNodes
<1>5. QED
  BY <1>3, <1>4

\* mappages() puts a page that was taken into a table.
LEMMA PageMapped ==
  ASSUME NEW tf, NEW m, DOMAIN m = Processes, NEW tb, DOMAIN tb = Tables, NodesIn(tb),
         NEW q \in Processes, NEW s \in Tables, NEW n, n \notin DOMAIN tb[s], n \notin KernelLeaves,
         m[q] # NoPage,
         NEW m2, SameBut(m, m2, q), m2[q] = NoPage,
         NEW tb2, SameBut(tb, tb2, s), tb2[s] = With(tb[s], n, m[q]),
         NEW U, Accounts(HeldBy(tf, m, tb), U)
  PROVE  Accounts(HeldBy(tf, m2, tb2), U)
<1> DEFINE H == HeldBy(tf, m, tb)
           G == {<<<<q, InMem>>, m[q]>>}
<1>1. G \subseteq H /\ PagesOfAll(G) = {m[q]}
  BY HeldMember DEF PagesOfAll
<1>2. HeldBy(tf, m2, tb) = H \ G
  BY MemGiven
<1>3. HeldBy(tf, m2, tb2) = HeldBy(tf, m2, tb) \cup {<<<<s, n>>, m[q]>>}
  BY NodeTaken
<1>4. m[q] \in U
  BY <1>1 DEF Accounts, PagesOfAll
<1> HIDE DEF H, G
<1>5. Accounts(H \ G, U \ {m[q]})
  BY <1>1, PagesGiven DEF H
<1>6. Accounts((H \ G) \cup {<<<<s, n>>, m[q]>>}, (U \ {m[q]}) \cup {m[q]})
  BY <1>5, PageTaken
<1>7. (U \ {m[q]}) \cup {m[q]} = U
  BY <1>4
<1>8. QED
  BY <1>2, <1>3, <1>6, <1>7

\* exec() replaces the old table by the new one.
LEMMA TableReplaced ==
  ASSUME MemoryAssumption, NEW tf, NEW m, NEW tb, DOMAIN tb = Tables, NodesIn(tb),
         NEW q \in Processes, NEW s \in Tables \ Processes,
         NEW tb2, DOMAIN tb2 = Tables, tb2[q] = tb[s], tb2[s] = NoTable,
         \A r \in Tables \ {q, s} : tb2[r] = tb[r],
         NEW U, NEW F, Accounts(HeldBy(tf, m, tb), U \ F)
  PROVE  Accounts(HeldBy(tf, m, tb2), U \ (F \cup PagesIn(tb[q])))
<1> DEFINE tb1 == [tb EXCEPT ![q] = NoTable]
           H == HeldBy(tf, m, tb1)
           f == [place \in {h[1] : h \in H} |-> IF place[1] = s THEN <<q, place[2]>> ELSE place]
           K == {<<f[h[1]], h[2]>> : h \in H}
<1>0. Processes \subseteq Tables
  BY DEF Processes, Tables, MemoryAssumption
<1>1. DOMAIN tb1 = Tables /\ tb1[q] = NoTable /\ \A r \in Tables : r # q => tb1[r] = tb[r]
  BY <1>0
<1>2. SameBut(tb, tb1, q)
  BY <1>1 DEF SameBut
<1> HIDE DEF tb1
<1>3. Accounts(H, U \ (F \cup PagesIn(tb[q])))
  BY <1>0, <1>1, <1>2, GivingTable
<1>4. DOMAIN NoTable = {}
  BY DEF NoTable
<1>5. ASSUME NEW r, NEW k, NEW y
      PROVE  <<<<r, k>>, y>> \in HeldBy(tf, m, tb2) <=> <<<<r, k>>, y>> \in K
  <2>1. \A t, l, x : <<<<t, l>>, x>> \in H =>
          f[<<t, l>>] = IF t = s THEN <<q, l>> ELSE <<t, l>>
    <3>1. SUFFICES ASSUME NEW t, NEW l, NEW x, <<<<t, l>>, x>> \in H
                   PROVE  f[<<t, l>>] = IF t = s THEN <<q, l>> ELSE <<t, l>>
      OBVIOUS
    <3>2. <<t, l>> \in {h[1] : h \in H}
      <4>1. <<<<t, l>>, x>>[1] = <<t, l>>
        OBVIOUS
      <4>2. QED
        BY <3>1, <4>1, Zenon
    <3>3. QED
      BY <3>2
  <2>2. <<<<r, k>>, y>> \in K <=>
          \/ <<<<s, k>>, y>> \in H /\ r = q
          \/ <<<<r, k>>, y>> \in H /\ r # s
    <3> HIDE DEF f, H
    <3>1. ASSUME <<<<r, k>>, y>> \in K
          PROVE  (<<<<s, k>>, y>> \in H /\ r = q) \/ (<<<<r, k>>, y>> \in H /\ r # s)
      <4>1. PICK h \in H : <<<<r, k>>, y>> = <<f[h[1]], h[2]>>
        BY <3>1
      <4>2. h = <<<<h[1][1], h[1][2]>>, h[2]>>
        BY HeldShape DEF H
      <4>3. f[h[1]] = IF h[1][1] = s THEN <<q, h[1][2]>> ELSE h[1]
        BY <2>1, <4>2
      <4>4. QED
        BY <4>1, <4>2, <4>3
    <3>2. ASSUME <<<<s, k>>, y>> \in H, r = q
          PROVE  <<<<r, k>>, y>> \in K
      <4>1. f[<<s, k>>] = <<r, k>>
        BY <2>1, <3>2
      <4>2. <<<<s, k>>, y>>[1] = <<s, k>> /\ <<<<s, k>>, y>>[2] = y
        OBVIOUS
      <4>3. QED
        BY <3>2, <4>1, <4>2
    <3>3. ASSUME <<<<r, k>>, y>> \in H, r # s
          PROVE  <<<<r, k>>, y>> \in K
      <4>1. f[<<r, k>>] = <<r, k>>
        BY <2>1, <3>3
      <4>2. <<<<r, k>>, y>>[1] = <<r, k>> /\ <<<<r, k>>, y>>[2] = y
        OBVIOUS
      <4>3. QED
        BY <3>3, <4>1, <4>2
    <3>4. QED
      BY <3>1, <3>2, <3>3
  <2> HIDE DEF K, f
  <2>3. <<<<s, k>>, y>> \in H <=> k \in DOMAIN tb[s] \ KernelLeaves /\ y = tb[s][k]
    <3>1. tb1[s] = tb[s] /\ s \notin Processes
      BY <1>1
    <3>2. QED
      BY <3>1, HeldMember
  <2>4. CASE r = q
    <3>1. <<<<r, k>>, y>> \in H <=>
            \/ k = InTrapframe /\ tf[q] # NoPage /\ y = tf[q]
            \/ k = InMem /\ m[q] # NoPage /\ y = m[q]
      BY <1>0, <1>1, <1>4, <2>4, HeldMember
    <3>2. q # s
      OBVIOUS
    <3>3. <<<<r, k>>, y>> \in HeldBy(tf, m, tb2) <=>
            \/ k = InTrapframe /\ tf[q] # NoPage /\ y = tf[q]
            \/ k = InMem /\ m[q] # NoPage /\ y = m[q]
            \/ k \in DOMAIN tb[s] \ KernelLeaves /\ y = tb[s][k]
      BY <1>0, <2>4, HeldMember
    <3>4. QED
      BY <2>2, <2>3, <2>4, <3>1, <3>2, <3>3
  <2>5. CASE r = s
    BY <1>4, <2>2, <2>5, HeldMember
  <2>6. CASE r # q /\ r # s
    <3>1. r \in Tables => tb2[r] = tb[r] /\ tb1[r] = tb[r]
      BY <1>1, <2>6
    <3>2. QED
      BY <2>2, <2>6, <3>1, HeldMember
  <2>7. QED
    BY <2>4, <2>5, <2>6
<1>6. \A g \in K : g = <<<<g[1][1], g[1][2]>>, g[2]>>
  <2>1. SUFFICES ASSUME NEW h \in H PROVE f[h[1]] = <<f[h[1]][1], f[h[1]][2]>>
    <3>1. ASSUME NEW g \in K PROVE \E h \in H : g = <<f[h[1]], h[2]>>
      OBVIOUS
    <3> HIDE DEF f, H, K
    <3>2. QED
      BY <2>1, <3>1
  <2>2. h = <<<<h[1][1], h[1][2]>>, h[2]>>
    BY HeldShape
  <2>3. f[h[1]] = IF h[1][1] = s THEN <<q, h[1][2]>> ELSE h[1]
    OBVIOUS
  <2>4. QED
    BY <2>2, <2>3
<1> HIDE DEF H, f
<1>7. Accounts(K, U \ (F \cup PagesIn(tb[q])))
  BY <1>3, PagesMoved
<1> HIDE DEF K
<1>8. HeldBy(tf, m, tb2) = K
  BY <1>5, <1>6, HeldEqual
<1>9. QED
  BY <1>7, <1>8

-----------------------------------------------------------------------------
(* Tables *)

LEMMA LeafIs == \A v, w : Leaf(v)[1] = 0 /\ (Leaf(v) = Leaf(w) => v = w)
BY DEF Leaf

LEMMA WithEffect ==
  ASSUME NEW t, NEW n, NEW x
  PROVE  /\ DOMAIN With(t, n, x) = DOMAIN t \cup {n}
         /\ With(t, n, x)[n] = x
         /\ \A k \in DOMAIN t \ {n} : With(t, n, x)[k] = t[k]
BY DEF With

LEMMA WithoutEffect ==
  ASSUME NEW t, NEW S
  PROVE  /\ DOMAIN Without(t, S) = DOMAIN t \ S
         /\ \A k \in DOMAIN t \ S : Without(t, S)[k] = t[k]
BY DEF Without

\* walk() adds a node above the leaves.
LEMMA NodeAdded ==
  ASSUME NEW t, NEW n, n[1] # 0, NEW x
  PROVE  /\ UserLeaves(With(t, n, x)) = UserLeaves(t)
         /\ \A v : Leaf(v) \in DOMAIN With(t, n, x) <=> Leaf(v) \in DOMAIN t
         /\ \A v : Leaf(v) \in DOMAIN t => With(t, n, x)[Leaf(v)] = t[Leaf(v)]
<1> DEFINE u == With(t, n, x)
<1>1. \A v : Leaf(v) # n
  BY LeafIs
<1>2. DOMAIN u = DOMAIN t \cup {n} /\ \A k \in DOMAIN t \ {n} : u[k] = t[k]
  BY DEF With
<1> HIDE DEF u
<1>3. \A v : Leaf(v) \in DOMAIN u <=> Leaf(v) \in DOMAIN t
  BY <1>1, <1>2
<1>4. \A v : Leaf(v) \in DOMAIN t => u[Leaf(v)] = t[Leaf(v)]
  BY <1>1, <1>2
<1>5. UserLeaves(u) = UserLeaves(t)
  BY <1>3 DEF UserLeaves
<1>6. QED
  BY <1>3, <1>4, <1>5 DEF u

LEMMA NodeKeepsWhole ==
  ASSUME NEW t, NEW n, n[1] # 0, NEW x, NEW k, NEW frame, Whole(t, k, frame)
  PROVE  Whole(With(t, n, x), k, frame)
BY NodeAdded DEF Whole, KernelLeaves

LEMMA LeafAdded ==
  ASSUME MemoryAssumption, NEW t, NEW k \in Nat, k < TRAPFRAME, NEW x, NEW frame, Whole(t, k, frame)
  PROVE  /\ Leaf(k) \notin DOMAIN t /\ Leaf(k) \notin KernelLeaves
         /\ Whole(With(t, Leaf(k), x), k + 1, frame)
<1> DEFINE u == With(t, Leaf(k), x)
<1>1. TRAPFRAME \in Nat /\ TRAMPOLINE = TRAPFRAME + 1
  BY AddressSpace
<1>2. UserLeaves(t) = 0..(k - 1)
  BY DEF Whole
<1>3. Leaf(k) \notin DOMAIN t
  BY <1>1, <1>2 DEF UserLeaves
<1>4. Leaf(k) # Leaf(TRAPFRAME) /\ Leaf(k) # Leaf(TRAMPOLINE)
  BY <1>1, LeafIs
<1>5. DOMAIN u = DOMAIN t \cup {Leaf(k)} /\ \A n \in DOMAIN t : u[n] = t[n]
  BY <1>3, WithEffect
<1> HIDE DEF u
<1>6. UserLeaves(u) = UserLeaves(t) \cup {k}
  <2>1. \A v \in 0..(TRAPFRAME - 1) : Leaf(v) \in DOMAIN u <=> Leaf(v) \in DOMAIN t \/ v = k
    BY <1>5, LeafIs
  <2>2. k \in 0..(TRAPFRAME - 1)
    BY <1>1
  <2>3. QED
    BY <2>1, <2>2 DEF UserLeaves
<1>7. UserLeaves(u) = 0..k
  BY <1>2, <1>6
<1>8. 0..k = 0..((k + 1) - 1)
  OBVIOUS
<1>9. QED
  BY <1>3, <1>4, <1>5, <1>7, <1>8 DEF Whole, KernelLeaves, u

\* uvmunmap() takes leaves away from the end.
LeavesFrom(j, k) == {Leaf(v) : v \in j..(k - 1)}

LEMMA LeavesTaken ==
  ASSUME MemoryAssumption, NEW t, NEW j \in Nat, NEW k \in Nat, j <= k, NEW frame, Whole(t, k, frame)
  PROVE  /\ LeavesFrom(j, k) \subseteq DOMAIN t
         /\ LeavesFrom(j, k) \cap KernelLeaves = {}
         /\ Whole(Without(t, LeavesFrom(j, k)), j, frame)
<1> DEFINE L == LeavesFrom(j, k)
           u == Without(t, L)
<1>1. TRAPFRAME \in Nat /\ TRAMPOLINE = TRAPFRAME + 1
  BY AddressSpace
<1>2. UserLeaves(t) = 0..(k - 1)
  BY DEF Whole
<1>3. \A v \in 0..(k - 1) : v < TRAPFRAME /\ Leaf(v) \in DOMAIN t
  BY <1>1, <1>2 DEF UserLeaves
<1>4. L \subseteq DOMAIN t
  BY <1>3 DEF LeavesFrom
<1>5. L \cap KernelLeaves = {}
  <2>1. \A v \in j..(k - 1) : v < TRAPFRAME
    BY <1>3
  <2>2. QED
    BY <1>1, <2>1, LeafIs DEF LeavesFrom, KernelLeaves
<1>6. \A v : Leaf(v) \in L <=> v \in j..(k - 1)
  BY LeafIs DEF LeavesFrom
<1>7. DOMAIN u = DOMAIN t \ L /\ \A n \in DOMAIN t \ L : u[n] = t[n]
  BY WithoutEffect
<1> HIDE DEF u, L
<1>8. UserLeaves(u) = UserLeaves(t) \ (j..(k - 1))
  BY <1>6, <1>7 DEF UserLeaves
<1>9. UserLeaves(u) = 0..(j - 1)
  BY <1>2, <1>8
<1>10. KernelLeaves \subseteq DOMAIN u /\ u[Leaf(TRAPFRAME)] = t[Leaf(TRAPFRAME)]
  BY <1>5, <1>7 DEF Whole, KernelLeaves
<1>11. QED
  BY <1>4, <1>5, <1>9, <1>10 DEF Whole, u, L

LEMMA NodesWithout ==
  ASSUME NEW t, Nodes(t), NEW S
  PROVE  Nodes(Without(t, S))
BY DEF Nodes, Without

LEMMA NodesWith ==
  ASSUME NEW t, Nodes(t), NEW n \in (0..3) \X Nat, NEW x
  PROVE  Nodes(With(t, n, x))
BY DEF Nodes, With

LEMMA NodesBut ==
  ASSUME NEW tb, DOMAIN tb = Tables, NodesIn(tb), NEW s, NEW tb2, SameBut(tb, tb2, s), Nodes(tb2[s])
  PROVE  NodesIn(tb2)
BY DEF NodesIn, SameBut

LEMMA NoTableIs == DOMAIN NoTable = {} /\ UserLeaves(NoTable) = {}
BY DEF NoTable, UserLeaves

\* A page is a number above 0.
LEMMA PagesAre ==
  ASSUME MemoryAssumption, Typed
  PROVE  \E n \in Nat : pages = 1..n /\ n < TRAPFRAME /\ NoPage \notin pages
<1>1. PICK n \in Sizes : pages = 1..n
  BY DEF Typed
<1>2. n \in Nat /\ n < TRAPFRAME
  BY DEF MemoryAssumption
<1>3. QED
  BY <1>1, <1>2 DEF NoPage

\* The user memory of a table ends below the kernel's entries: there are not
\* that many pages.
LEMMA RoomAbove ==
  ASSUME MemoryAssumption, MemoryInv, NEW s \in Tables, NEW k \in Nat, NEW frame,
         Whole(table[s], k, frame)
  PROVE  k < TRAPFRAME
<1> DEFINE f == [i \in 0..(k - 1) |-> table[s][Leaf(i)]]
           H == HeldBy(trapframe, mem, table)
<1>1. PICK n \in Nat : pages = 1..n /\ n < TRAPFRAME
  BY PagesAre DEF MemoryInv
<1>2. TRAPFRAME \in Nat /\ TRAMPOLINE = TRAPFRAME + 1
  BY AddressSpace
<1>3. \A i \in 0..(k - 1) : i < TRAPFRAME /\ Leaf(i) \in DOMAIN table[s]
  BY <1>2 DEF Whole, UserLeaves
<1>4. \A i \in 0..(k - 1) : Leaf(i) \in DOMAIN table[s] \ KernelLeaves
  BY <1>2, <1>3, LeafIs DEF KernelLeaves
<1>5. \A i \in 0..(k - 1) : <<<<s, Leaf(i)>>, table[s][Leaf(i)]>> \in H
  BY <1>4, HeldMember
<1>6. Once(H) /\ PagesOfAll(H) \subseteq pages
  BY DEF MemoryInv, Accounts
<1> HIDE DEF H
<1>7. \A i \in 0..(k - 1) : table[s][Leaf(i)] \in pages
  <2>1. \A h \in H : h[2] \in pages
    BY <1>6 DEF PagesOfAll
  <2>2. QED
    BY <1>5, <2>1
<1>8. \A i, j \in 0..(k - 1) : table[s][Leaf(i)] = table[s][Leaf(j)] => i = j
  BY <1>5, <1>6, LeafIs DEF Once
<1>9. f \in Injection(0..(k - 1), pages)
  BY <1>7, <1>8 DEF Injection, IsInjective
<1> HIDE DEF f
<1>10. IsFiniteSet(pages) /\ Cardinality(pages) = n
  BY <1>1, FS_Interval
<1>11. Cardinality(0..(k - 1)) <= n
  BY <1>9, <1>10, FS_Injection
<1>12. Cardinality(0..(k - 1)) = k
  <2>1. 0 \in Int /\ k - 1 \in Int
    OBVIOUS
  <2>2. Cardinality(0..(k - 1)) = IF 0 > k - 1 THEN 0 ELSE k - 1 - 0 + 1
    BY <2>1, FS_Interval
  <2>3. QED
    BY <2>2
<1>13. QED
  BY <1>1, <1>2, <1>11, <1>12

-----------------------------------------------------------------------------
(* What a process leaves alone *)

LEMMA TablesAre ==
  ASSUME MemoryAssumption
  PROVE  /\ Processes \subseteq Tables
         /\ \A p \in Processes : Local(p) \in Tables \ Processes
         /\ \A p, q \in Processes : Local(p) = Local(q) => p = q
BY DEF MemoryAssumption, Processes, Tables, Local

\* A step of p changes the entry of p and, with its tables, one other: the
\* child's, a free one, or exec()'s.
OnlyOf(p, c) ==
  /\ \A q \in Processes \ {p} :
       /\ pc'[q] = pc[q] /\ at'[q] = at[q] /\ a'[q] = a[q] /\ goal'[q] = goal[q]
       /\ mem'[q] = mem[q] /\ segs'[q] = segs[q]
  /\ \A q \in Processes \ {p, c} : state'[q] = state[q] /\ trapframe'[q] = trapframe[q]
  /\ \A s \in Tables \ {p, c} : table'[s] = table[s] /\ sz'[s] = sz[s]
MayTouch(p, c) ==
  /\ state[p] \in {"running", "zombie"}
  /\ c \in {p, at[p]} \/ (c \in Processes /\ state[c] = "unused")

LEMMA UserHasNoTable ==
  ASSUME MemoryAssumption, MemoryInv, NEW q \in Processes, pc[q] = "user" \/ state[q] # "running"
  PROVE  at[q] = q /\ pc[q] = "user"
<1>1. Where(q) /\ at[q] \in Tables
  BY DEF MemoryInv, Typed
<1>2. pc[q] = "user"
  BY <1>1 DEF Where
<1>3. QED
  BY <1>1, <1>2 DEF Where, Setting, Looping

\* Whose table another process works on, is neither p nor what p touches.
LEMMA OthersApart ==
  ASSUME MemoryAssumption, MemoryInv, NEW p \in Processes, NEW c, MayTouch(p, c),
         NEW q \in Processes \ {p}, at[q] # q
  PROVE  at[q] # p /\ at[q] # c /\ q # c
<1>1. Where(q) /\ Where(p) /\ at[q] \in Tables
  BY DEF MemoryInv, Typed
<1>2. pc[q] # "user" /\ state[q] = "running"
  BY UserHasNoTable
<1>3. at[q] # p
  BY <1>1 DEF Where, MayTouch
<1>4. CASE c = p
  BY <1>3, <1>4
<1>5. CASE c = at[p] /\ c # p
  <2>1. at[q] # c
    BY <1>5 DEF MemoryInv, Apart
  <2>2. c \in Processes => state[c] = "used"
    BY <1>1, <1>5 DEF Where
  <2>3. QED
    BY <1>2, <1>3, <2>1, <2>2
<1>6. CASE c \in Processes /\ state[c] = "unused"
  BY <1>1, <1>2, <1>3, <1>6 DEF Where
<1>7. QED
  BY <1>4, <1>5, <1>6 DEF MayTouch

LEMMA OthersKeep ==
  ASSUME MemoryAssumption, MemoryInv, NEW p \in Processes, NEW c, MayTouch(p, c), OnlyOf(p, c),
         NEW q \in Processes \ {p}
  PROVE  Where(q)' /\ Built(q)' /\ Counted(q)' /\ (q # c => Own(q)')
<1>1. Where(q) /\ Built(q) /\ Counted(q) /\ Own(q) /\ at[q] \in Tables
  BY DEF MemoryInv, Typed
<1>2. Processes \subseteq Tables /\ Local(q) \in Tables \ Processes /\ Local(q) # Local(p)
  BY TablesAre
<1>3. /\ pc'[q] = pc[q] /\ at'[q] = at[q] /\ a'[q] = a[q] /\ goal'[q] = goal[q]
      /\ mem'[q] = mem[q] /\ segs'[q] = segs[q]
  BY DEF OnlyOf
<1>4. q # c => state'[q] = state[q] /\ trapframe'[q] = trapframe[q] /\ table'[q] = table[q] /\ sz'[q] = sz[q]
  BY <1>2 DEF OnlyOf
<1>5. q # c => Own(q)'
  BY <1>1, <1>3, <1>4 DEF Own
<1>6. table'[Local(q)] = table[Local(q)] /\ sz'[Local(q)] = sz[Local(q)]
  <2>1. Where(p) /\ at[p] \in Tables
    BY DEF MemoryInv, Typed
  <2>2. Local(q) # p /\ Local(q) # c
    BY <1>2, <2>1 DEF Where, MayTouch
  <2>3. QED
    BY <1>2, <2>2 DEF OnlyOf
<1>7. CASE at[q] = q
  <2>1. Where(q)'
    <3>1. q = c => pc[q] = "user"
      <4>1. ASSUME q = c PROVE state[q] # "running"
        <5>1. Where(p)
          BY DEF MemoryInv
        <5>2. QED
          BY <4>1, <5>1 DEF Where, MayTouch
      <4>2. QED
        BY <4>1, UserHasNoTable
    <3>2. QED
      BY <1>1, <1>3, <1>4, <1>7, <3>1 DEF Where
  <2>2. Built(q)'
    BY <1>1, <1>2, <1>3, <1>6, <1>7 DEF Built
  <2>3. Counted(q)'
    <3>1. CASE q = c
      <4>1. state[q] # "running"
        <5>1. Where(p)
          BY DEF MemoryInv
        <5>2. QED
          BY <3>1, <5>1 DEF Where, MayTouch
      <4>2. pc[q] = "user"
        BY <4>1, UserHasNoTable
      <4>3. QED
        BY <1>1, <1>3, <4>2 DEF Counted, Looping, Setting
    <3>2. CASE q # c
      BY <1>1, <1>3, <1>4, <1>7, <3>2 DEF Counted
    <3>3. QED
      BY <3>1, <3>2
  <2>4. QED
    BY <1>5, <2>1, <2>2, <2>3
<1>8. CASE at[q] # q
  <2>1. at[q] # p /\ at[q] # c /\ q # c
    BY <1>8, OthersApart
  <2>2. table'[at[q]] = table[at[q]] /\ sz'[at[q]] = sz[at[q]]
    BY <1>1, <2>1 DEF OnlyOf
  <2>3. at[q] \in Processes => state'[at[q]] = state[at[q]] /\ trapframe'[at[q]] = trapframe[at[q]]
    BY <2>1 DEF OnlyOf
  <2>4. Where(q)'
    BY <1>1, <1>3, <1>4, <2>1, <2>3 DEF Where
  <2>5. Counted(q)'
    BY <1>1, <1>3, <1>4, <1>8, <2>1, <2>2 DEF Counted
  <2>6. Built(q)'
    <3>1. Owner(q)' = Owner(q) /\ trapframe'[Owner(q)] = trapframe[Owner(q)]
      BY <1>3, <1>4, <2>1, <2>3 DEF Owner
    <3>2. pc[q] = "trapframe" => at[q] \in Processes
      BY <1>1 DEF Where, Setting, Looping
    <3>3. QED
      BY <1>1, <1>3, <1>6, <2>2, <2>3, <3>1, <3>2 DEF Built
  <2>7. QED
    BY <1>5, <2>4, <2>5, <2>6
<1>9. QED
  BY <1>7, <1>8

\* What is to be shown of a step.
LEMMA StepKeeps ==
  ASSUME MemoryAssumption, MemoryInv, NEW p \in Processes, NEW c, MayTouch(p, c), OnlyOf(p, c),
         Typed', NodesIn(table)', Accounts(HeldBy(trapframe, mem, table), pages \ free)',
         at'[p] \in {p, at[p], Local(p)} \/ (at'[p] = c /\ state[c] = "unused"),
         Where(p)', Own(p)', Built(p)', Counted(p)', c \in Processes => Own(c)'
  PROVE  MemoryInv'
<1>1. \A q \in Processes : Where(q)' /\ Own(q)' /\ Built(q)' /\ Counted(q)'
  BY OthersKeep
<1>2. ASSUME NEW q \in Processes \ {p}, at'[q] # q PROVE at'[p] = p \/ at'[p] # at'[q]
  <2>1. at'[q] = at[q] /\ Where(q) /\ Where(p) /\ at[q] \in Tables /\ at[p] \in Tables
    BY DEF OnlyOf, MemoryInv, Typed
  <2>2. at'[p] = at[p] => at'[p] = p \/ at'[p] # at'[q]
    BY <1>2, <2>1 DEF MemoryInv, Apart
  <2>3. Local(p) # at'[q]
    BY <2>1, TablesAre DEF Where
  <2>4. state[c] = "unused" => at'[q] # c
    BY <1>2, <2>1, OthersApart
  <2>5. QED
    BY <2>2, <2>3, <2>4
<1>3. Apart'
  <2>1. SUFFICES ASSUME NEW q \in Processes, NEW r \in Processes,
                        at'[q] = at'[r], at'[q] # q, at'[r] # r
                 PROVE  q = r
    BY DEF Apart
  <2>2. CASE q # p /\ r # p
    BY <2>1, <2>2 DEF OnlyOf, MemoryInv, Apart
  <2>3. CASE q = p \/ r = p
    BY <1>2, <2>1, <2>3
  <2>4. QED
    BY <2>2, <2>3
<1>4. QED
  BY <1>1, <1>3 DEF MemoryInv

-----------------------------------------------------------------------------
(* The calls *)

\* A process in user mode.
LEMMA InUser ==
  ASSUME MemoryAssumption, MemoryInv, NEW p \in Processes, pc[p] = "user"
  PROVE  /\ at[p] = p /\ a[p] = 0 /\ mem[p] = NoPage
         /\ table[Local(p)] = NoTable /\ sz[Local(p)] = 0
         /\ state[p] \in {"running", "zombie"} => Whole(table[p], PagesOf(sz[p]), trapframe[p])
<1>1. at[p] = p
  BY UserHasNoTable
<1>2. Where(p) /\ Built(p) /\ Counted(p) /\ Own(p)
  BY DEF MemoryInv
<1>3. Local(p) # p
  BY TablesAre
<1>4. mem[p] = NoPage
  BY <1>2 DEF Where
<1>5. a[p] = 0
  BY <1>2 DEF Counted
<1>6. table[Local(p)] = NoTable /\ sz[Local(p)] = 0
  BY <1>1, <1>2, <1>3 DEF Built
<1>7. QED
  BY <1>1, <1>2, <1>4, <1>5, <1>6 DEF Own, Looping

LEMMA ForkKeeps ==
  ASSUME MemoryAssumption, MemoryInv, NEW p \in Processes, Fork(p)
  PROVE  MemoryInv'
<1>1. pc[p] = "user" /\ state[p] = "running"
  BY DEF Fork, Calls
<1>2. PICK np \in Processes :
        /\ state[np] = "unused"
        /\ state' = [state EXCEPT ![np] = "used"]
        /\ at' = [at EXCEPT ![p] = np]
  BY DEF Fork
<1>3. pc' = [pc EXCEPT ![p] = "trapframe"]
      /\ UNCHANGED <<pages, free, trapframe, table, sz, a, goal, mem, segs>>
  BY DEF Fork, Calls, Goto, loop
<1>4. Typed
  BY DEF MemoryInv
<1>5. np # p /\ Local(p) # np /\ np \in Tables
  BY <1>1, <1>2, TablesAre
<1>6. pc'[p] = "trapframe" /\ at'[p] = np /\ state'[np] = "used" /\ state'[p] = "running"
  BY <1>1, <1>2, <1>3, <1>4, <1>5 DEF Typed
<1>7. MayTouch(p, np)
  BY <1>1, <1>2 DEF MayTouch
<1>8. OnlyOf(p, np)
  BY <1>2, <1>3, <1>4 DEF OnlyOf, Typed
<1>9. Typed'
  BY <1>2, <1>3, <1>4, <1>5 DEF Typed, States, Positions
<1>10. NodesIn(table)' /\ Accounts(HeldBy(trapframe, mem, table), pages \ free)'
  BY <1>3 DEF MemoryInv
<1>11. /\ a[p] = 0 /\ mem[p] = NoPage /\ at[p] = p
       /\ table[Local(p)] = NoTable /\ sz[Local(p)] = 0
       /\ Whole(table[p], PagesOf(sz[p]), trapframe[p])
  BY <1>1, InUser
<1>12. table[np] = NoTable /\ trapframe[np] = NoPage /\ sz[np] = 0
  BY <1>2 DEF MemoryInv, Own
<1>13. Where(p)'
  BY <1>3, <1>5, <1>6, <1>11 DEF Where, Setting, Looping
<1>14. Own(p)' /\ Own(np)'
  BY <1>3, <1>5, <1>6, <1>11 DEF Own
<1>15. Built(p)'
  BY <1>3, <1>5, <1>6, <1>11, <1>12 DEF Built, Setting, Looping
<1>16. Counted(p)'
  BY <1>3, <1>6, <1>11 DEF Counted, Setting, Looping
<1>17. QED
  BY <1>2, <1>6, <1>7, <1>8, <1>9, <1>10, <1>13, <1>14, <1>15, <1>16, StepKeeps

LEMMA ExecKeeps ==
  ASSUME MemoryAssumption, MemoryInv, NEW p \in Processes, Exec(p)
  PROVE  MemoryInv'
<1>1. pc[p] = "user" /\ state[p] = "running"
  BY DEF Exec, Calls
<1>2. PICK g \in Programs : segs' = [segs EXCEPT ![p] = g \o <<Stack>>]
  BY DEF Exec
<1>3. /\ pc' = [pc EXCEPT ![p] = "root"] /\ at' = [at EXCEPT ![p] = Local(p)]
      /\ UNCHANGED <<pages, free, state, trapframe, table, sz, a, goal, mem>>
  BY DEF Exec, Calls, Goto
<1>4. Typed
  BY DEF MemoryInv
<1>5. Local(p) \in Tables \ Processes
  BY TablesAre
<1>6. g \o <<Stack>> \in Seq(Nat \cup {Stack}) /\ g \o <<Stack>> # << >>
  BY DEF MemoryAssumption
<1>7. pc'[p] = "root" /\ at'[p] = Local(p) /\ segs'[p] # << >>
  BY <1>2, <1>3, <1>4, <1>6 DEF Typed
<1>8. MayTouch(p, p)
  BY <1>1 DEF MayTouch
<1>9. OnlyOf(p, p)
  BY <1>2, <1>3, <1>4 DEF OnlyOf, Typed
<1>10. Typed'
  <2>1. segs' \in [Processes -> Seq(Nat \cup {Stack})]
    BY <1>2, <1>4, <1>6 DEF Typed
  <2>2. pc' \in [Processes -> Positions] /\ at' \in [Processes -> Tables]
    BY <1>3, <1>4, <1>5 DEF Typed, Positions, Setting
  <2>3. QED
    BY <1>3, <1>4, <2>1, <2>2 DEF Typed
<1>11. NodesIn(table)' /\ Accounts(HeldBy(trapframe, mem, table), pages \ free)'
  BY <1>3 DEF MemoryInv
<1>12. /\ a[p] = 0 /\ mem[p] = NoPage /\ at[p] = p
       /\ table[Local(p)] = NoTable /\ sz[Local(p)] = 0
       /\ Whole(table[p], PagesOf(sz[p]), trapframe[p])
  BY <1>1, InUser
<1>13. Where(p)'
  BY <1>1, <1>3, <1>5, <1>7, <1>12 DEF Where, Setting, Looping
<1>14. Own(p)'
  BY <1>1, <1>3, <1>5, <1>7, <1>12 DEF Own
<1>15. Built(p)'
  <2>1. Owner(p)' = p
    BY <1>5, <1>7 DEF Owner
  <2>2. QED
    BY <1>3, <1>5, <1>7, <1>12, <2>1 DEF Built, Setting, Looping, Whole
<1>16. Counted(p)'
  BY <1>3, <1>7, <1>12 DEF Counted, Setting, Looping
<1>17. QED
  BY <1>7, <1>8, <1>9, <1>10, <1>11, <1>13, <1>14, <1>15, <1>16, StepKeeps

LEMMA GrowKeeps ==
  ASSUME MemoryAssumption, MemoryInv, NEW p \in Processes, Grow(p)
  PROVE  MemoryInv'
<1>1. pc[p] = "user" /\ state[p] = "running"
  BY DEF Grow, Calls
<1>2. PICK n \in Increments : n > 0 /\ goal' = [goal EXCEPT ![p] = sz[p] + n]
  BY DEF Grow
<1>3. /\ pc' = [pc EXCEPT ![p] = "alloc"] /\ a' = [a EXCEPT ![p] = PagesOf(sz[p])]
      /\ UNCHANGED <<pages, free, state, trapframe, table, sz, at, mem, segs>>
  BY DEF Grow, Calls, Goto
<1>4. Typed /\ p \in Tables
  BY TablesAre DEF MemoryInv
<1>5. sz[p] \in Nat /\ n \in Nat /\ PagesOf(sz[p]) \in Nat
  BY <1>2, <1>4, PagesType DEF Typed, MemoryAssumption
<1>6. pc'[p] = "alloc" /\ a'[p] = PagesOf(sz[p]) /\ goal'[p] = sz[p] + n
  BY <1>2, <1>3, <1>4 DEF Typed
<1>7. MayTouch(p, p)
  BY <1>1 DEF MayTouch
<1>8. OnlyOf(p, p)
  BY <1>2, <1>3, <1>4 DEF OnlyOf, Typed
<1>9. Typed'
  <2>1. goal' \in [Processes -> Nat] /\ a' \in [Processes -> Nat]
    BY <1>2, <1>3, <1>4, <1>5 DEF Typed
  <2>2. pc' \in [Processes -> Positions]
    BY <1>3, <1>4 DEF Typed, Positions, Looping
  <2>3. QED
    BY <1>3, <1>4, <2>1, <2>2 DEF Typed
<1>10. NodesIn(table)' /\ Accounts(HeldBy(trapframe, mem, table), pages \ free)'
  BY <1>3 DEF MemoryInv
<1>11. /\ at[p] = p /\ mem[p] = NoPage /\ table[Local(p)] = NoTable /\ sz[Local(p)] = 0
       /\ Whole(table[p], PagesOf(sz[p]), trapframe[p])
  BY <1>1, InUser
<1>12. Where(p)'
  BY <1>1, <1>3, <1>6, <1>11 DEF Where, Setting, Looping
<1>13. Own(p)'
  BY <1>1, <1>3, <1>6, <1>11 DEF Own, Looping
<1>14. Built(p)'
  BY <1>3, <1>11 DEF Built
<1>15. Counted(p)'
  <2>1. sz'[at'[p]] = sz[p] /\ sz'[p] = sz[p] /\ at'[p] = p
    BY <1>3, <1>11
  <2>2. sz'[p] < goal'[p] /\ PagesOf(sz'[at'[p]]) <= a'[p]
    BY <1>2, <1>4, <1>5, <1>6, <2>1 DEF MemoryAssumption
  <2>3. QED
    BY <1>6, <2>1, <2>2 DEF Counted, Setting, Looping
<1>16. QED
  BY <1>3, <1>7, <1>8, <1>9, <1>10, <1>12, <1>13, <1>14, <1>15, <1>11, StepKeeps

LEMMA ExitKeeps ==
  ASSUME MemoryAssumption, MemoryInv, NEW p \in Processes, Exit(p)
  PROVE  MemoryInv'
<1>1. pc[p] = "user" /\ state[p] = "running"
  BY DEF Exit, Calls
<1>2. state' = [state EXCEPT ![p] = "zombie"]
      /\ UNCHANGED <<pages, free, trapframe, table, sz, pc, at, a, goal, mem, segs>>
  BY DEF Exit, Calls, loop
<1>3. Typed
  BY DEF MemoryInv
<1>4. state'[p] = "zombie"
  BY <1>2, <1>3 DEF Typed
<1>5. MayTouch(p, p) /\ OnlyOf(p, p)
  BY <1>1, <1>2, <1>3 DEF MayTouch, OnlyOf, Typed
<1>6. Typed'
  BY <1>2, <1>3 DEF Typed, States
<1>7. NodesIn(table)' /\ Accounts(HeldBy(trapframe, mem, table), pages \ free)'
  BY <1>2 DEF MemoryInv
<1>8. at[p] = p /\ Where(p) /\ Built(p) /\ Counted(p) /\ Own(p)
  BY <1>1, UserHasNoTable DEF MemoryInv
<1>9. Where(p)'
  BY <1>1, <1>2, <1>8 DEF Where
<1>10. Own(p)' /\ Built(p)' /\ Counted(p)'
  BY <1>1, <1>2, <1>4, <1>8 DEF Own, Built, Counted, Owner
<1>11. QED
  BY <1>2, <1>5, <1>6, <1>7, <1>8, <1>9, <1>10, StepKeeps

\* Whatever is held is a page.
LEMMA HeldArePages ==
  ASSUME MemoryInv, NEW place, NEW x, <<place, x>> \in HeldBy(trapframe, mem, table)
  PROVE  x \in pages \ free
<1> DEFINE H == HeldBy(trapframe, mem, table)
<1>1. PagesOfAll(H) = pages \ free
  BY DEF MemoryInv, Accounts
<1> HIDE DEF H
<1>2. \A h \in H : h[2] \in pages \ free
  BY <1>1 DEF PagesOfAll
<1>3. <<place, x>> \in H /\ <<place, x>>[2] = x
  BY DEF H
<1>4. QED
  BY <1>2, <1>3

LEMMA TablePages ==
  ASSUME MemoryInv, NEW s \in Tables, NEW n \in DOMAIN table[s] \ KernelLeaves
  PROVE  table[s][n] \in pages \ free
BY HeldArePages, HeldMember

LEMMA ShrinkKeeps ==
  ASSUME MemoryAssumption, MemoryInv, NEW p \in Processes, Shrink(p)
  PROVE  MemoryInv'
<1>1. pc[p] = "user" /\ state[p] = "running"
  BY DEF Shrink, Calls
<1>2. Typed /\ p \in Tables /\ sz[p] \in Nat
  BY TablesAre DEF MemoryInv, Typed
<1>3. PICK n \in Increments :
        LET newsz == IF sz[p] + n >= 0 THEN sz[p] + n ELSE sz[p]
            gone == {Leaf(v) : v \in PagesOf(newsz)..(PagesOf(sz[p]) - 1)}
        IN
        /\ n < 0
        /\ IF ~(gone \subseteq DOMAIN table[p]) THEN Panic(p)
           ELSE /\ free' = free \cup {table[p][m] : m \in gone}
                /\ table' = [table EXCEPT ![p] = Without(@, gone)]
                /\ sz' = [sz EXCEPT ![p] = newsz]
                /\ UNCHANGED <<state, trapframe, pc, at, loop>>
  BY DEF Shrink
<1> DEFINE newsz == IF sz[p] + n >= 0 THEN sz[p] + n ELSE sz[p]
           j == PagesOf(newsz)
           k == PagesOf(sz[p])
           L == LeavesFrom(j, k)
<1>4. n \in Int /\ n < 0
  BY <1>3 DEF MemoryAssumption
<1>5. newsz \in Nat /\ newsz <= sz[p]
  BY <1>2, <1>4
<1>6. j \in Nat /\ k \in Nat /\ j <= k
  BY <1>2, <1>5, PagesType, PagesMonotone
<1>7. /\ at[p] = p /\ a[p] = 0 /\ mem[p] = NoPage /\ table[Local(p)] = NoTable /\ sz[Local(p)] = 0
      /\ Whole(table[p], k, trapframe[p])
  BY <1>1, InUser
<1>8. L = {Leaf(v) : v \in PagesOf(newsz)..(PagesOf(sz[p]) - 1)}
  BY DEF LeavesFrom
<1> HIDE DEF newsz, j, k, L
<1>9. L \subseteq DOMAIN table[p] /\ L \cap KernelLeaves = {} /\ Whole(Without(table[p], L), j, trapframe[p])
  BY <1>6, <1>7, LeavesTaken DEF L
<1>10. /\ free' = free \cup {table[p][m] : m \in L}
       /\ table' = [table EXCEPT ![p] = Without(@, L)]
       /\ sz' = [sz EXCEPT ![p] = newsz]
       /\ UNCHANGED <<state, trapframe, pc, at, a, goal, mem, segs>>
  BY <1>3, <1>8, <1>9 DEF newsz, loop
<1>11. pages' = pages
  BY DEF Shrink, Calls
<1>12. DOMAIN table = Tables /\ NodesIn(table)
  BY DEF MemoryInv, Typed
<1>13. SameBut(table, table', p) /\ table'[p] = Without(table[p], L)
  BY <1>2, <1>10, <1>12 DEF SameBut
<1>14. (L \cap DOMAIN table[p]) \ KernelLeaves = L
  BY <1>9
<1>15. free' = free \cup PagesAt(table[p], L)
  BY <1>10, <1>14 DEF PagesAt
<1>16. Accounts(HeldBy(trapframe, mem, table), pages \ free)'
  <2>1. Accounts(HeldBy(trapframe, mem, table), pages \ free)
    BY DEF MemoryInv
  <2>2. Accounts(HeldBy(trapframe, mem, table'), pages \ (free \cup PagesAt(table[p], L)))
    BY <1>2, <1>12, <1>13, <2>1, GivingNodes
  <2>3. QED
    BY <1>10, <1>11, <1>15, <2>2
<1>17. NodesIn(table)'
  BY <1>2, <1>12, <1>13, NodesWithout, NodesBut DEF NodesIn
<1>18. Typed'
  <2>1. free' \in SUBSET pages
    <3>1. \A m \in L : table[p][m] \in pages
      BY <1>2, <1>9, TablePages
    <3>2. QED
      BY <1>2, <1>10, <3>1 DEF Typed
  <2>2. sz' \in [Tables -> Nat] /\ DOMAIN table' = Tables
    BY <1>2, <1>5, <1>10, <1>12 DEF Typed
  <2>3. QED
    BY <1>2, <1>10, <1>11, <2>1, <2>2 DEF Typed
<1>19. MayTouch(p, p)
  BY <1>1 DEF MayTouch
<1>20. OnlyOf(p, p)
  BY <1>2, <1>10, <1>12 DEF OnlyOf, Typed
<1>21. Where(p)'
  <2>1. Where(p)
    BY DEF MemoryInv
  <2>2. QED
    BY <1>10, <2>1 DEF Where
<1>22. sz'[p] = newsz
  BY <1>2, <1>10 DEF Typed
<1>23. Own(p)'
  BY <1>1, <1>7, <1>9, <1>10, <1>13, <1>22 DEF Own, Looping, j
<1>24. Built(p)'
  <2>1. Local(p) \in Tables /\ Local(p) # p
    BY TablesAre
  <2>2. table'[Local(p)] = NoTable /\ sz'[Local(p)] = 0
    BY <1>2, <1>7, <1>10, <1>12, <2>1 DEF Typed
  <2>3. QED
    BY <1>7, <1>10, <2>2 DEF Built
<1>25. Counted(p)'
  BY <1>1, <1>7, <1>10 DEF Counted, Setting, Looping
<1>26. QED
  BY <1>7, <1>10, <1>16, <1>17, <1>18, <1>19, <1>20, <1>21, <1>23, <1>24, <1>25, StepKeeps

LEMMA WaitKeeps ==
  ASSUME MemoryAssumption, MemoryInv, NEW p \in Processes, Wait(p)
  PROVE  MemoryInv'
<1>1. pc[p] = "user" /\ state[p] = "zombie"
  BY DEF Wait
<1>2. Typed /\ p \in Tables /\ Local(p) \in Tables /\ Local(p) # p
  BY TablesAre DEF MemoryInv
<1>3. /\ at[p] = p /\ a[p] = 0 /\ mem[p] = NoPage /\ table[Local(p)] = NoTable /\ sz[Local(p)] = 0
      /\ Whole(table[p], PagesOf(sz[p]), trapframe[p])
  BY <1>1, InUser
<1>4. CanFree(table[p], sz[p])
  BY <1>3 DEF CanFree, Whole
<1>5. /\ free' = free \cup PagesIn(table[p]) \cup {trapframe[p]}
      /\ trapframe' = [trapframe EXCEPT ![p] = NoPage]
      /\ table' = [table EXCEPT ![p] = NoTable]
      /\ sz' = [sz EXCEPT ![p] = 0]
      /\ state' = [state EXCEPT ![p] = "unused"]
      /\ UNCHANGED <<pages, pc, at, a, goal, mem, segs>>
  BY <1>4 DEF Wait, Inside, loop
<1>6. DOMAIN table = Tables /\ NodesIn(table) /\ DOMAIN trapframe = Processes
  BY DEF MemoryInv, Typed
<1>7. SameBut(table, table', p) /\ table'[p] = NoTable
  BY <1>2, <1>5, <1>6 DEF SameBut
<1>8. SameBut(trapframe, trapframe', p) /\ trapframe'[p] = NoPage
  BY <1>5, <1>6 DEF SameBut
<1>9. NodesIn(table')
  BY <1>6, <1>7, NoTableIs DEF NodesIn, Nodes, SameBut
<1>10. trapframe[p] # NoPage
  BY <1>3 DEF Whole
<1>11. Accounts(HeldBy(trapframe, mem, table), pages \ free)'
  <2>1. Accounts(HeldBy(trapframe, mem, table), pages \ free)
    BY DEF MemoryInv
  <2>2. Accounts(HeldBy(trapframe, mem, table'), pages \ (free \cup PagesIn(table[p])))
    BY <1>2, <1>6, <1>7, <2>1, GivingTable
  <2>3. Accounts(HeldBy(trapframe', mem, table'), pages \ ((free \cup PagesIn(table[p])) \cup {trapframe[p]}))
    BY <1>6, <1>8, <1>9, <1>10, <2>2, GivingFrame
  <2>4. QED
    BY <1>5, <2>3
<1>12. Typed'
  <2>1. free' \in SUBSET pages
    <3>1. PagesIn(table[p]) \subseteq pages
      BY <1>2, TablePages DEF PagesIn
    <3>2. trapframe[p] \in pages
      BY <1>2, <1>10 DEF Typed
    <3>3. QED
      BY <1>2, <1>5, <3>1, <3>2 DEF Typed
  <2>2. sz' \in [Tables -> Nat] /\ DOMAIN table' = Tables
    BY <1>2, <1>5, <1>6 DEF Typed
  <2>3. trapframe' \in [Processes -> pages \cup {NoPage}] /\ state' \in [Processes -> States]
    BY <1>2, <1>5 DEF Typed, States
  <2>4. QED
    BY <1>2, <1>5, <2>1, <2>2, <2>3 DEF Typed
<1>13. MayTouch(p, p)
  BY <1>1 DEF MayTouch
<1>14. OnlyOf(p, p)
  BY <1>2, <1>5, <1>6 DEF OnlyOf, Typed
<1>15. state'[p] = "unused" /\ sz'[p] = 0
  BY <1>2, <1>5 DEF Typed
<1>16. Where(p)'
  BY <1>1, <1>3, <1>5 DEF Where, Looping
<1>17. Own(p)'
  BY <1>7, <1>8, <1>15 DEF Own
<1>18. Built(p)'
  <2>1. table'[Local(p)] = NoTable /\ sz'[Local(p)] = 0
    BY <1>2, <1>3, <1>5, <1>6 DEF Typed
  <2>2. QED
    BY <1>3, <1>5, <2>1 DEF Built
<1>19. Counted(p)'
  BY <1>1, <1>3, <1>5 DEF Counted, Setting, Looping
<1>20. QED
  BY <1>3, <1>5, <1>9, <1>11, <1>12, <1>13, <1>14, <1>16, <1>17, <1>18, <1>19, StepKeeps

-----------------------------------------------------------------------------
(* allocproc() and walk() *)

\* What a page of the free list is.
LEMMA FromFreeList ==
  ASSUME MemoryAssumption, Typed, free # {}
  PROVE  Lowest(free) \in free /\ Lowest(free) \in pages /\ Lowest(free) # NoPage
<1>1. PICK n \in Nat : pages = 1..n /\ NoPage \notin pages
  BY PagesAre
<1>2. free \in SUBSET Nat /\ free \subseteq pages
  BY <1>1 DEF Typed
<1>3. Lowest(free) \in free
  BY <1>2, Least
<1>4. QED
  BY <1>1, <1>2, <1>3

\* What is to be shown of a step with which the call returns: the process has
\* the memory that its size says, and the other entry is in order.
Quiet(p, c) ==
  /\ pages' = pages /\ free' \in SUBSET pages
  /\ state' \in [Processes -> States]
  /\ trapframe' \in [Processes -> pages \cup {NoPage}]
  /\ DOMAIN table' = Tables /\ sz' \in [Tables -> Nat]
  /\ \A q \in Processes \ {p, c} : state'[q] = state[q] /\ trapframe'[q] = trapframe[q]
  /\ \A s \in Tables \ {p, c} : table'[s] = table[s] /\ sz'[s] = sz[s]
  /\ state'[p] = "running"
  /\ Whole(table'[p], PagesOf(sz'[p]), trapframe'[p])
  /\ table'[Local(p)] = NoTable /\ sz'[Local(p)] = 0

LEMMA ReturnKeeps ==
  ASSUME MemoryAssumption, MemoryInv, NEW p \in Processes, NEW c, MayTouch(p, c),
         Return(p), Quiet(p, c), NodesIn(table)',
         Accounts(HeldBy(trapframe, mem, table), pages \ free)',
         c \in Processes /\ c # p => Own(c)'
  PROVE  MemoryInv'
<1>1. Typed /\ p \in Tables
  BY TablesAre DEF MemoryInv
<1>2. /\ pc' = [pc EXCEPT ![p] = "user"] /\ at' = [at EXCEPT ![p] = p]
      /\ a' = [a EXCEPT ![p] = 0] /\ goal' = [goal EXCEPT ![p] = 0]
      /\ mem' = [mem EXCEPT ![p] = NoPage] /\ segs' = [segs EXCEPT ![p] = << >>]
  BY DEF Return, Goto
<1>3. pc'[p] = "user" /\ at'[p] = p /\ a'[p] = 0 /\ mem'[p] = NoPage
  BY <1>1, <1>2 DEF Typed
<1>4. Typed'
  <2>1. pc' \in [Processes -> Positions]
    BY <1>1, <1>2 DEF Typed, Positions
  <2>2. at' \in [Processes -> Tables]
    BY <1>1, <1>2 DEF Typed
  <2>3. a' \in [Processes -> Nat] /\ goal' \in [Processes -> Nat]
    BY <1>1, <1>2 DEF Typed
  <2>4. mem' \in [Processes -> pages \cup {NoPage}]
    BY <1>1, <1>2 DEF Typed
  <2>5. segs' \in [Processes -> Seq(Nat \cup {Stack})]
    <3>1. << >> \in Seq(Nat \cup {Stack})
      OBVIOUS
    <3>2. QED
      BY <1>1, <1>2, <3>1 DEF Typed
  <2>6. \E n \in Sizes : pages' = 1..n
    BY <1>1 DEF Quiet, Typed
  <2>7. QED
    BY <2>1, <2>2, <2>3, <2>4, <2>5, <2>6 DEF Quiet, Typed
<1>5. OnlyOf(p, c)
  BY <1>1, <1>2 DEF OnlyOf, Quiet, Typed
<1>6. Where(p)'
  BY <1>3 DEF Where, Looping
<1>7. Own(p)'
  BY <1>3 DEF Own, Looping, Quiet
<1>8. Built(p)'
  BY <1>3 DEF Built, Quiet
<1>9. Counted(p)'
  BY <1>3 DEF Counted, Setting, Looping
<1>10. QED
  BY <1>3, <1>4, <1>5, <1>6, <1>7, <1>8, <1>9, StepKeeps

LEMMA TakeTrapframeKeeps ==
  ASSUME MemoryAssumption, MemoryInv, NEW p \in Processes, TakeTrapframe(p)
  PROVE  MemoryInv'
<1> DEFINE x == Lowest(free)
<1>0. PICK c \in Tables : c = at[p]
  BY DEF MemoryInv, Typed
<1>1. pc[p] = "trapframe" /\ UNCHANGED <<pages, table, sz>>
  BY DEF TakeTrapframe, Inside
<1>2. Typed /\ Where(p) /\ Built(p) /\ Counted(p) /\ Own(p) /\ NodesIn(table)
  BY DEF MemoryInv
<1>3. c \in Processes \ {p} /\ state[c] = "used" /\ state[p] = "running" /\ mem[p] = NoPage
  BY <1>0, <1>1, <1>2 DEF Where, Setting, Looping
<1>4. c # Local(p) /\ c \in Tables /\ p \in Tables /\ Local(p) # p /\ Local(p) \in Tables
  BY <1>3, TablesAre
<1>5. /\ trapframe[c] = NoPage /\ table[c] = NoTable /\ sz[c] = 0
      /\ table[Local(p)] = NoTable /\ sz[Local(p)] = 0 /\ a[p] = 0
  BY <1>0, <1>1, <1>2, <1>3, <1>4 DEF Built, Counted, Setting
<1>6. Whole(table[p], PagesOf(sz[p]), trapframe[p])
  BY <1>0, <1>2, <1>3 DEF Own
<1>7. MayTouch(p, c)
  BY <1>0, <1>3 DEF MayTouch
<1>8. CASE free = {}
  <2>1. state' = [state EXCEPT ![c] = "unused"] /\ Return(p) /\ UNCHANGED <<free, trapframe>>
    BY <1>0, <1>8 DEF TakeTrapframe
  <2>2. state'[c] = "unused" /\ state'[p] = "running"
    BY <1>2, <1>3, <2>1 DEF Typed
  <2>3. mem' = mem
    BY <1>2, <1>3, <2>1 DEF Typed, Return
  <2>4. NodesIn(table)' /\ Accounts(HeldBy(trapframe, mem, table), pages \ free)'
    BY <1>1, <2>1, <2>3 DEF MemoryInv
  <2>5. state' \in [Processes -> States] /\ \A q \in Processes \ {p, c} : state'[q] = state[q]
    BY <1>2, <2>1 DEF Typed, States
  <2>6. Own(c)'
    BY <1>1, <1>5, <2>1, <2>2 DEF Own
  <2>7. Quiet(p, c)
    BY <1>1, <1>2, <1>5, <1>6, <2>1, <2>2, <2>5 DEF Quiet, Typed
  <2>8. QED
    BY <1>7, <2>1, <2>4, <2>6, <2>7, ReturnKeeps
<1>9. CASE free # {}
  <2>1. /\ free' = free \ {x} /\ trapframe' = [trapframe EXCEPT ![c] = x]
        /\ pc' = [pc EXCEPT ![p] = "root"]
        /\ UNCHANGED <<state, at, a, goal, mem, segs>>
    BY <1>0, <1>9 DEF TakeTrapframe, Goto, loop
  <2>2. x \in free /\ x \in pages /\ x # NoPage
    BY <1>2, <1>9, FromFreeList
  <2> HIDE DEF x
  <2>3. pc'[p] = "root" /\ trapframe'[c] = x /\ trapframe'[p] = trapframe[p]
    BY <1>2, <1>3, <2>1 DEF Typed
  <2>4. Typed'
    <3>1. pc' \in [Processes -> Positions]
      BY <1>2, <2>1 DEF Typed, Positions, Setting
    <3>2. trapframe' \in [Processes -> pages \cup {NoPage}] /\ free' \in SUBSET pages
      BY <1>2, <2>1, <2>2 DEF Typed
    <3>3. QED
      BY <1>1, <1>2, <2>1, <3>1, <3>2 DEF Typed
  <2>5. OnlyOf(p, c)
    BY <1>1, <1>2, <2>1 DEF OnlyOf, Typed
  <2>6. Accounts(HeldBy(trapframe, mem, table), pages \ free)'
    <3>1. Accounts(HeldBy(trapframe, mem, table), pages \ free) /\ free \subseteq pages
      BY <1>2 DEF MemoryInv, Typed
    <3>2. SameBut(trapframe, trapframe', c) /\ trapframe'[c] = x /\ DOMAIN trapframe = Processes
      BY <1>2, <1>3, <2>1 DEF SameBut, Typed
    <3>3. Accounts(HeldBy(trapframe', mem, table), pages \ (free \ {x}))
      BY <1>3, <1>5, <2>2, <3>1, <3>2, TakingFrame
    <3>4. QED
      BY <1>1, <2>1, <3>3
  <2>7. NodesIn(table)'
    BY <1>1, <1>2
  <2>8. Where(p)'
    BY <1>0, <1>2, <1>3, <1>4, <2>1, <2>3 DEF Where, Setting, Looping
  <2>9. Own(p)' /\ Own(c)'
    BY <1>0, <1>1, <1>3, <1>6, <2>1, <2>3 DEF Own
  <2>10. Built(p)'
    <3>1. Owner(p)' = c
      BY <1>0, <1>3, <2>1 DEF Owner
    <3>2. QED
      BY <1>0, <1>1, <1>3, <1>4, <1>5, <2>1, <2>2, <2>3, <3>1 DEF Built, Setting, Looping
  <2>11. Counted(p)'
    BY <1>5, <2>1, <2>3 DEF Counted, Setting, Looping
  <2>12. QED
    BY <1>7, <2>1, <2>4, <2>5, <2>6, <2>7, <2>8, <2>9, <2>10, <2>11, StepKeeps
<1>10. QED
  BY <1>8, <1>9

\* A step that changes only the table, the free list and where p is.
LEMMA RootKeeps ==
  ASSUME MemoryAssumption, MemoryInv, NEW p \in Processes, Root(p)
  PROVE  MemoryInv'
<1>0. PICK c \in Tables : c = at[p]
  BY DEF MemoryInv, Typed
<1>1. PICK x : x = Lowest(free)
  OBVIOUS
<1>2. Typed /\ Where(p) /\ Built(p) /\ Counted(p) /\ Own(p) /\ NodesIn(table) /\ DOMAIN table = Tables
  BY DEF MemoryInv, Typed
<1>3. /\ pc[p] = "root" /\ free # {} /\ free' = free \ {x}
      /\ table' = [table EXCEPT ![c] = With(@, <<3, 0>>, x)]
      /\ pc' = [pc EXCEPT ![p] = "map_trampoline"]
      /\ UNCHANGED <<pages, state, trapframe, sz, at, a, goal, mem, segs>>
  BY <1>0, <1>1 DEF Root, Goto, Inside, loop
<1>4. c # p /\ state[p] = "running" /\ mem[p] = NoPage
  BY <1>0, <1>2, <1>3 DEF Where, Setting, Looping
<1>5. x \in free /\ x \in pages /\ x # NoPage
  BY <1>1, <1>2, <1>3, FromFreeList
<1>6. /\ Processes \subseteq Tables /\ Local(p) \in Tables \ Processes
  BY TablesAre
<1>7. table[c] = NoTable /\ trapframe[Owner(p)] # NoPage /\ a[p] = 0 /\ sz[c] = 0
      /\ (c # Local(p) => table[Local(p)] = NoTable /\ sz[Local(p)] = 0)
  BY <1>0, <1>2, <1>3, <1>4 DEF Built, Counted, Setting
<1>8. /\ SameBut(table, table', c) /\ table'[c] = With(table[c], <<3, 0>>, x)
      /\ pc'[p] = "map_trampoline"
  BY <1>2, <1>3 DEF SameBut, Typed
<1>9. <<3, 0>> \notin KernelLeaves /\ <<3, 0>> \notin DOMAIN table[c] /\ <<3, 0>> \in (0..3) \X Nat
  BY <1>7, NoTableIs, LeafIs DEF KernelLeaves
<1>10. Typed'
  <2>1. pc' \in [Processes -> Positions]
    BY <1>2, <1>3 DEF Typed, Positions, Setting
  <2>2. free' \in SUBSET pages /\ DOMAIN table' = Tables
    BY <1>2, <1>3 DEF Typed
  <2>3. QED
    BY <1>2, <1>3, <2>1, <2>2 DEF Typed
<1>11. MayTouch(p, c)
  BY <1>0, <1>4 DEF MayTouch
<1>12. OnlyOf(p, c)
  BY <1>2, <1>3 DEF OnlyOf, Typed
<1>13. NodesIn(table')
  BY <1>2, <1>8, <1>9, NodesWith, NodesBut DEF NodesIn
<1>14. Accounts(HeldBy(trapframe, mem, table), pages \ free)'
  <2>1. Accounts(HeldBy(trapframe, mem, table), pages \ free) /\ free \subseteq pages
    BY <1>2 DEF MemoryInv, Typed
  <2>2. Accounts(HeldBy(trapframe, mem, table'), pages \ (free \ {x}))
    BY <1>2, <1>5, <1>8, <1>9, <2>1, TakingNode
  <2>3. QED
    BY <1>3, <2>2
<1>15. Where(p)'
  BY <1>0, <1>2, <1>3, <1>4, <1>8 DEF Where, Setting, Looping
<1>16. Own(p)'
  BY <1>0, <1>2, <1>3, <1>4, <1>6, <1>8 DEF Own, SameBut
<1>17. c \in Processes => Own(c)'
  <2>1. c \in Processes => state'[c] = "used"
    BY <1>0, <1>2, <1>3, <1>4 DEF Where
  <2>2. QED
    BY <2>1 DEF Own
<1>18. Built(p)'
  <2>1. trapframe'[Owner(p)'] # NoPage
    BY <1>3, <1>7 DEF Owner
  <2>2. \A n \in DOMAIN table'[c] : n[1] # 0
    <3>1. DOMAIN table'[c] = DOMAIN table[c] \cup {<<3, 0>>}
      BY <1>8 DEF With
    <3>2. DOMAIN table[c] = {}
      BY <1>7, NoTableIs
    <3>3. QED
      BY <3>1, <3>2
  <2>3. at'[p] = c /\ sz'[c] = 0
    BY <1>0, <1>3, <1>7
  <2>4. c # Local(p) => table'[Local(p)] = NoTable /\ sz'[Local(p)] = 0
    BY <1>2, <1>3, <1>6, <1>7, <1>8 DEF SameBut
  <2>5. QED
    BY <1>3, <1>4, <1>8, <2>1, <2>2, <2>3, <2>4 DEF Built, Setting, Looping
<1>19. Counted(p)'
  BY <1>3, <1>7, <1>8 DEF Counted, Setting, Looping
<1>20. QED
  BY <1>0, <1>3, <1>10, <1>11, <1>12, <1>13, <1>14, <1>15, <1>16, <1>17, <1>18, <1>19, StepKeeps

LEMMA AllocKeeps ==
  ASSUME MemoryAssumption, MemoryInv, NEW p \in Processes, Alloc(p)
  PROVE  MemoryInv'
<1>0. PICK c \in Tables : c = at[p]
  BY DEF MemoryInv, Typed
<1>1. PICK x : x = Lowest(free)
  OBVIOUS
<1>2. Typed /\ Where(p) /\ Built(p) /\ Counted(p) /\ Own(p) /\ NodesIn(table)
  BY DEF MemoryInv
<1>3. /\ pc[p] = "alloc" /\ a[p] * PGSIZE < goal[p] /\ free # {} /\ free' = free \ {x}
      /\ mem' = [mem EXCEPT ![p] = x] /\ pc' = [pc EXCEPT ![p] = "map"]
      /\ UNCHANGED <<pages, state, trapframe, table, sz, at, a, goal, segs>>
  BY <1>0, <1>1 DEF Alloc, Goto, Inside, More
<1>4. state[p] = "running" /\ mem[p] = NoPage
  BY <1>2, <1>3 DEF Where
<1>5. x \in free /\ x \in pages /\ x # NoPage
  BY <1>1, <1>2, <1>3, FromFreeList
<1>6. SameBut(mem, mem', p) /\ mem'[p] = x /\ DOMAIN mem = Processes /\ pc'[p] = "map"
  BY <1>2, <1>3 DEF SameBut, Typed
<1>7. Typed'
  <2>1. pc' \in [Processes -> Positions]
    BY <1>2, <1>3 DEF Typed, Positions, Looping
  <2>2. free' \in SUBSET pages /\ mem' \in [Processes -> pages \cup {NoPage}]
    BY <1>2, <1>3, <1>5 DEF Typed
  <2>3. QED
    BY <1>2, <1>3, <2>1, <2>2 DEF Typed
<1>8. MayTouch(p, p)
  BY <1>4 DEF MayTouch
<1>9. OnlyOf(p, p)
  BY <1>2, <1>3 DEF OnlyOf, Typed
<1>10. Accounts(HeldBy(trapframe, mem, table), pages \ free)'
  <2>1. Accounts(HeldBy(trapframe, mem, table), pages \ free) /\ free \subseteq pages
    BY <1>2 DEF MemoryInv, Typed
  <2>2. Accounts(HeldBy(trapframe, mem', table), pages \ (free \ {x}))
    BY <1>4, <1>5, <1>6, <2>1, TakingMem
  <2>3. QED
    BY <1>3, <2>2
<1>11. Where(p)'
  BY <1>2, <1>3, <1>5, <1>6 DEF Where, Setting, Looping
<1>12. Own(p)'
  BY <1>2, <1>3, <1>6 DEF Own, Looping
<1>13. Built(p)'
  <2>1. Owner(p)' = Owner(p)
    BY <1>3 DEF Owner
  <2>2. QED
    BY <1>2, <1>3, <1>6, <2>1 DEF Built, Setting, Looping
<1>14. Counted(p)'
  BY <1>2, <1>3, <1>6 DEF Counted, Setting, Looping
<1>15. QED
  BY <1>2, <1>3, <1>7, <1>8, <1>9, <1>10, <1>11, <1>12, <1>13, <1>14, StepKeeps

LEMMA VaType ==
  ASSUME MemoryAssumption, MemoryInv, NEW p \in Processes, pc[p] \in Mapping
  PROVE  Va(p) \in Nat /\ (pc[p] = "map" => Va(p) = a[p]) /\ pc[p] \in Setting \cup Looping
<1>1. a[p] \in Nat /\ TRAPFRAME \in Nat /\ TRAMPOLINE \in Nat
  BY AddressSpace DEF MemoryInv, Typed
<1>2. QED
  BY <1>1 DEF Va, Mapping, Setting, Looping

LEMMA WalkKeeps ==
  ASSUME MemoryAssumption, MemoryInv, NEW p \in Processes, Walk(p)
  PROVE  MemoryInv'
<1>0. PICK c \in Tables : c = at[p]
  BY DEF MemoryInv, Typed
<1>1. PICK x : x = Lowest(free)
  OBVIOUS
<1>a. PICK m : m = NextNode(Missing(table[at[p]], Va(p)))
  OBVIOUS
<1>2. Typed /\ Where(p) /\ Built(p) /\ Counted(p) /\ Own(p) /\ NodesIn(table) /\ DOMAIN table = Tables
  BY DEF MemoryInv, Typed
<1>3. /\ pc[p] \in Mapping /\ Missing(table[c], Va(p)) # {} /\ free # {} /\ free' = free \ {x}
      /\ table' = [table EXCEPT ![c] = With(@, m, x)]
      /\ UNCHANGED <<pages, state, trapframe, sz, pc, at, a, goal, mem, segs>>
  BY <1>0, <1>1, <1>a DEF Walk, Inside, loop
<1>4. Va(p) \in Nat /\ pc[p] \in Setting \cup Looping /\ pc[p] # "root"
  BY <1>3, VaType DEF Mapping
<1>5. m \in Missing(table[c], Va(p))
  BY <1>0, <1>a, <1>3, <1>4, NextNodeIn
<1>6. m \notin DOMAIN table[c] /\ m \in (0..3) \X Nat /\ m[1] \in {1, 2}
  BY <1>4, <1>5, WayType DEF Missing
<1>7. m[1] # 0 /\ m \notin KernelLeaves
  BY <1>6, LeafIs DEF KernelLeaves
<1>8. state[p] = "running"
  BY <1>2, <1>4 DEF Where, Setting, Looping
<1>9. x \in free /\ x \in pages /\ x # NoPage
  BY <1>1, <1>2, <1>3, FromFreeList
<1>10. /\ Processes \subseteq Tables /\ Local(p) \in Tables \ Processes
  BY TablesAre
<1>11. SameBut(table, table', c) /\ table'[c] = With(table[c], m, x)
  BY <1>2, <1>3 DEF SameBut
<1>12. Typed'
  <2>1. free' \in SUBSET pages /\ DOMAIN table' = Tables
    BY <1>2, <1>3 DEF Typed
  <2>2. QED
    BY <1>2, <1>3, <2>1 DEF Typed
<1>13. MayTouch(p, c)
  BY <1>0, <1>8 DEF MayTouch
<1>14. OnlyOf(p, c)
  BY <1>2, <1>3 DEF OnlyOf, Typed
<1>15. NodesIn(table')
  BY <1>2, <1>6, <1>11, NodesWith, NodesBut DEF NodesIn
<1>16. Accounts(HeldBy(trapframe, mem, table), pages \ free)'
  <2>1. Accounts(HeldBy(trapframe, mem, table), pages \ free) /\ free \subseteq pages
    BY <1>2 DEF MemoryInv, Typed
  <2>2. Accounts(HeldBy(trapframe, mem, table'), pages \ (free \ {x}))
    BY <1>2, <1>6, <1>7, <1>9, <1>11, <2>1, TakingNode
  <2>3. QED
    BY <1>3, <2>2
<1>17. Where(p)'
  BY <1>2, <1>3 DEF Where
<1>18. \A k, frame : Whole(table[c], k, frame) => Whole(table'[c], k, frame)
  BY <1>7, <1>11, NodeKeepsWhole
<1>19. Own(p)'
  <2>1. \A k, frame : Whole(table[p], k, frame) => Whole(table'[p], k, frame)
    BY <1>2, <1>10, <1>11, <1>18 DEF SameBut
  <2>2. QED
    BY <1>2, <1>3, <1>8, <2>1 DEF Own
<1>20. c \in Processes => Own(c)'
  <2>1. c \in Processes \ {p} => state'[c] = "used"
    BY <1>0, <1>2, <1>3 DEF Where
  <2>2. QED
    BY <1>19, <2>1 DEF Own
<1>21. Built(p)'
  <2>1. Owner(p)' = Owner(p)
    BY <1>3 DEF Owner
  <2>2. c # Local(p) => table'[Local(p)] = NoTable /\ sz'[Local(p)] = 0
    BY <1>0, <1>2, <1>3, <1>10, <1>11 DEF SameBut, Built
  <2>3. at'[p] = c /\ pc'[p] = pc[p]
    BY <1>0, <1>3
  <2>4. pc[p] # "trapframe"
    BY <1>3 DEF Mapping
  <2>5. c # p /\ pc[p] = "map_trampoline" => \A n \in DOMAIN table'[c] : n[1] # 0
    <3>1. DOMAIN table'[c] = DOMAIN table[c] \cup {m}
      BY <1>11 DEF With
    <3>2. QED
      BY <1>0, <1>2, <1>7, <3>1 DEF Built
  <2>6. UserLeaves(table'[c]) = UserLeaves(table[c])
        /\ \A v : Leaf(v) \in DOMAIN table'[c] <=> Leaf(v) \in DOMAIN table[c]
    BY <1>7, <1>11, NodeAdded
  <2>7. QED
    BY <1>0, <1>2, <1>3, <1>4, <1>18, <2>1, <2>2, <2>3, <2>4, <2>5, <2>6 DEF Built
<1>22. Counted(p)'
  BY <1>2, <1>3 DEF Counted
<1>23. QED
  BY <1>0, <1>3, <1>12, <1>13, <1>14, <1>15, <1>16, <1>17, <1>19, <1>20, <1>21, <1>22, StepKeeps

-----------------------------------------------------------------------------
(* mappages() *)

LEMMA SetTrampolineKeeps ==
  ASSUME MemoryAssumption, MemoryInv, NEW p \in Processes, SetEntry(p), pc[p] = "map_trampoline"
  PROVE  MemoryInv'
<1>0. PICK c \in Tables : c = at[p]
  BY DEF MemoryInv, Typed
<1>1. PICK n : n = Leaf(TRAMPOLINE)
  OBVIOUS
<1>2. Typed /\ Where(p) /\ Built(p) /\ Counted(p) /\ Own(p) /\ NodesIn(table) /\ DOMAIN table = Tables
  BY DEF MemoryInv, Typed
<1>3. Va(p) = TRAMPOLINE /\ What(p) = Trampoline
  BY DEF Va, What
<1>4. c # p /\ state[p] = "running" /\ mem[p] = NoPage
  BY <1>0, <1>2 DEF Where, Setting, Looping
<1>5. /\ trapframe[Owner(p)] # NoPage /\ a[p] = 0 /\ sz[c] = 0
      /\ (c # Local(p) => table[Local(p)] = NoTable /\ sz[Local(p)] = 0)
      /\ \A m \in DOMAIN table[c] : m[1] # 0
  BY <1>0, <1>2, <1>4 DEF Built, Counted, Setting
<1>6. n \notin DOMAIN table[c] /\ n \in KernelLeaves
  BY <1>1, <1>5, LeafIs DEF KernelLeaves
<1>7. /\ table' = [table EXCEPT ![c] = With(table[c], n, Trampoline)]
      /\ pc' = [pc EXCEPT ![p] = "map_trapframe"]
      /\ mem' = [mem EXCEPT ![p] = NoPage]
      /\ UNCHANGED <<pages, free, state, trapframe, sz, at, a, goal, segs>>
  BY <1>0, <1>1, <1>3, <1>6 DEF SetEntry, Goto, Inside
<1>8. /\ SameBut(table, table', c) /\ table'[c] = With(table[c], n, Trampoline)
      /\ pc'[p] = "map_trapframe" /\ mem' = mem
  BY <1>2, <1>4, <1>7 DEF SameBut, Typed
<1>9. TRAPFRAME \in Nat /\ TRAMPOLINE = TRAPFRAME + 1
  BY AddressSpace
<1>10. Processes \subseteq Tables /\ Local(p) \in Tables \ Processes
  BY TablesAre
<1>11. Typed'
  <2>1. pc' \in [Processes -> Positions]
    BY <1>2, <1>7 DEF Typed, Positions, Setting
  <2>2. DOMAIN table' = Tables
    BY <1>2, <1>7
  <2>3. QED
    BY <1>2, <1>7, <1>8, <2>1, <2>2 DEF Typed
<1>12. MayTouch(p, c)
  BY <1>0, <1>4 DEF MayTouch
<1>13. OnlyOf(p, c)
  BY <1>2, <1>7, <1>8 DEF OnlyOf, Typed
<1>14. NodesIn(table')
  <2>1. n \in (0..3) \X Nat
    BY <1>1, <1>9 DEF Leaf
  <2>2. QED
    BY <1>2, <1>8, <2>1, NodesWith, NodesBut DEF NodesIn
<1>15. Accounts(HeldBy(trapframe, mem, table), pages \ free)'
  <2>1. HeldBy(trapframe, mem, table') = HeldBy(trapframe, mem, table)
    BY <1>2, <1>6, <1>8, KernelMapped
  <2>2. QED
    BY <1>7, <1>8, <2>1 DEF MemoryInv
<1>16. Where(p)'
  BY <1>0, <1>2, <1>4, <1>7, <1>8 DEF Where, Setting, Looping
<1>17. Own(p)'
  BY <1>0, <1>2, <1>4, <1>7, <1>8, <1>10 DEF Own, SameBut
<1>18. c \in Processes => Own(c)'
  <2>1. c \in Processes => state'[c] = "used"
    BY <1>0, <1>2, <1>4, <1>7 DEF Where
  <2>2. QED
    BY <2>1 DEF Own
<1>19. Built(p)'
  <2>1. trapframe'[Owner(p)'] # NoPage
    BY <1>5, <1>7 DEF Owner
  <2>2. DOMAIN table'[c] = DOMAIN table[c] \cup {n}
    BY <1>8 DEF With
  <2>3. Leaf(TRAMPOLINE) \in DOMAIN table'[c] /\ Leaf(TRAPFRAME) \notin DOMAIN table'[c]
    <3>1. Leaf(TRAPFRAME) # n
      BY <1>1, <1>9, LeafIs
    <3>2. QED
      BY <1>1, <1>5, <2>2, <3>1, LeafIs
  <2>4. UserLeaves(table'[c]) = {}
    <3>1. \A v \in 0..(TRAPFRAME - 1) : Leaf(v) # n
      BY <1>1, <1>9, LeafIs
    <3>2. QED
      BY <1>5, <2>2, <3>1, LeafIs DEF UserLeaves
  <2>5. at'[p] = c /\ sz'[c] = 0
    BY <1>0, <1>5, <1>7
  <2>6. c # Local(p) => table'[Local(p)] = NoTable /\ sz'[Local(p)] = 0
    BY <1>2, <1>5, <1>7, <1>8, <1>10 DEF SameBut
  <2>7. QED
    BY <1>8, <2>1, <2>3, <2>4, <2>5, <2>6 DEF Built, Setting, Looping
<1>20. Counted(p)'
  BY <1>5, <1>7, <1>8 DEF Counted, Setting, Looping
<1>21. QED
  BY <1>0, <1>7, <1>11, <1>12, <1>13, <1>14, <1>15, <1>16, <1>17, <1>18, <1>19, <1>20, StepKeeps

\* What the loop of fork() or exec() is to reach.
LEMMA GoalType ==
  ASSUME MemoryAssumption, Typed, NEW p \in Processes, segs[p] # << >>, NEW n \in Nat
  PROVE  NextGoal(p, n) \in Nat
<1>1. Head(segs[p]) \in Nat \cup {Stack}
  BY DEF Typed
<1>2. PagesOf(n) \in Nat /\ PGSIZE \in Nat
  BY PagesType DEF MemoryAssumption
<1>3. (PagesOf(n) + 2) * PGSIZE \in Nat
  BY <1>2
<1>4. QED
  BY <1>1, <1>3 DEF NextGoal

LEMMA SetTrapframeKeeps ==
  ASSUME MemoryAssumption, MemoryInv, NEW p \in Processes, SetEntry(p), pc[p] = "map_trapframe"
  PROVE  MemoryInv'
<1>0. PICK c \in Tables : c = at[p]
  BY DEF MemoryInv, Typed
<1>1. PICK n : n = Leaf(TRAPFRAME)
  OBVIOUS
<1>a. PICK g : g = IF c \in Processes THEN sz[p] ELSE NextGoal(p, 0)
  OBVIOUS
<1>b. PICK frame : frame = trapframe[Owner(p)]
  OBVIOUS
<1>2. Typed /\ Where(p) /\ Built(p) /\ Counted(p) /\ Own(p) /\ NodesIn(table) /\ DOMAIN table = Tables
  BY DEF MemoryInv, Typed
<1>3. Va(p) = TRAPFRAME /\ What(p) = frame
  BY <1>b DEF Va, What
<1>4. c # p /\ state[p] = "running" /\ mem[p] = NoPage /\ (c \notin Processes => segs[p] # << >>)
  BY <1>0, <1>2 DEF Where, Setting, Looping
<1>5. /\ frame # NoPage /\ a[p] = 0 /\ sz[c] = 0
      /\ (c # Local(p) => table[Local(p)] = NoTable /\ sz[Local(p)] = 0)
      /\ UserLeaves(table[c]) = {}
      /\ Leaf(TRAMPOLINE) \in DOMAIN table[c] /\ Leaf(TRAPFRAME) \notin DOMAIN table[c]
  BY <1>0, <1>b, <1>2, <1>4 DEF Built, Counted, Setting
<1>6. n \notin DOMAIN table[c] /\ n \in KernelLeaves
  BY <1>1, <1>5 DEF KernelLeaves
<1>7. /\ table' = [table EXCEPT ![c] = With(table[c], n, frame)]
      /\ pc' = [pc EXCEPT ![p] = "alloc"]
      /\ goal' = [goal EXCEPT ![p] = g]
      /\ mem' = [mem EXCEPT ![p] = NoPage]
      /\ UNCHANGED <<pages, free, state, trapframe, sz, at, a, segs>>
  BY <1>0, <1>1, <1>a, <1>3, <1>6 DEF SetEntry, Goto, Inside
<1>8. /\ SameBut(table, table', c) /\ table'[c] = With(table[c], n, frame)
      /\ pc'[p] = "alloc" /\ mem' = mem /\ goal'[p] = g
  BY <1>2, <1>4, <1>7 DEF SameBut, Typed
<1>9. TRAPFRAME \in Nat /\ TRAMPOLINE = TRAPFRAME + 1
  BY AddressSpace
<1>10. Processes \subseteq Tables /\ Local(p) \in Tables \ Processes
  BY TablesAre
<1>c. g \in Nat
  BY <1>a, <1>2, <1>4, <1>10, GoalType DEF Typed
<1>11. Typed'
  <2>1. pc' \in [Processes -> Positions] /\ goal' \in [Processes -> Nat]
    BY <1>2, <1>c, <1>7 DEF Typed, Positions, Looping
  <2>2. DOMAIN table' = Tables
    BY <1>2, <1>7
  <2>3. QED
    BY <1>2, <1>7, <1>8, <2>1, <2>2 DEF Typed
<1>12. MayTouch(p, c)
  BY <1>0, <1>4 DEF MayTouch
<1>13. OnlyOf(p, c)
  BY <1>2, <1>7, <1>8 DEF OnlyOf, Typed
<1>14. NodesIn(table')
  <2>1. n \in (0..3) \X Nat
    BY <1>1, <1>9 DEF Leaf
  <2>2. QED
    BY <1>2, <1>8, <2>1, NodesWith, NodesBut DEF NodesIn
<1>15. Accounts(HeldBy(trapframe, mem, table), pages \ free)'
  <2>1. HeldBy(trapframe, mem, table') = HeldBy(trapframe, mem, table)
    BY <1>2, <1>6, <1>8, KernelMapped
  <2>2. QED
    BY <1>7, <1>8, <2>1 DEF MemoryInv
<1>16. Where(p)'
  BY <1>0, <1>2, <1>4, <1>7, <1>8 DEF Where, Setting, Looping
<1>17. Own(p)'
  BY <1>0, <1>2, <1>4, <1>7, <1>8, <1>10 DEF Own, SameBut
<1>18. c \in Processes => Own(c)'
  <2>1. c \in Processes => state'[c] = "used"
    BY <1>0, <1>2, <1>4, <1>7 DEF Where
  <2>2. QED
    BY <2>1 DEF Own
<1>19. Whole(table'[c], 0, frame)
  <2>2. DOMAIN table'[c] = DOMAIN table[c] \cup {n} /\ table'[c][n] = frame
    BY <1>8 DEF With
  <2>3. KernelLeaves \subseteq DOMAIN table'[c]
    BY <1>1, <1>5, <2>2 DEF KernelLeaves
  <2>4. UserLeaves(table'[c]) = {}
    <3>1. \A v \in 0..(TRAPFRAME - 1) : Leaf(v) # n
      BY <1>1, <1>9, LeafIs
    <3>2. \A v \in 0..(TRAPFRAME - 1) : Leaf(v) \notin DOMAIN table[c]
      BY <1>5 DEF UserLeaves
    <3>3. QED
      BY <2>2, <3>1, <3>2 DEF UserLeaves
  <2>5. 0..(0 - 1) = {}
    OBVIOUS
  <2>6. QED
    BY <1>1, <1>5, <2>2, <2>3, <2>4, <2>5 DEF Whole
<1>20. Built(p)'
  <2>1. trapframe'[Owner(p)'] = frame
    BY <1>b, <1>7 DEF Owner
  <2>2. at'[p] = c /\ sz'[c] = 0 /\ a'[p] = 0
    BY <1>0, <1>5, <1>7
  <2>3. c # Local(p) => table'[Local(p)] = NoTable /\ sz'[Local(p)] = 0
    BY <1>2, <1>5, <1>7, <1>8, <1>10 DEF SameBut
  <2>4. QED
    BY <1>5, <1>8, <1>19, <2>1, <2>2, <2>3 DEF Built, Setting, Looping
<1>21. Counted(p)'
  <2>1. at'[p] = c /\ sz'[c] = 0 /\ a'[p] = 0 /\ sz'[p] = sz[p]
    BY <1>0, <1>5, <1>7
  <2>2. PagesOf(0) = 0
    BY PagesNone
  <2>3. c \in Processes => goal'[p] = sz'[p]
    BY <1>a, <1>8, <2>1
  <2>4. QED
    BY <1>4, <1>8, <2>1, <2>2, <2>3 DEF Counted, Setting, Looping
<1>22. QED
  BY <1>0, <1>7, <1>11, <1>12, <1>13, <1>14, <1>15, <1>16, <1>17, <1>18, <1>20, <1>21, StepKeeps

LEMMA SetPageKeeps ==
  ASSUME MemoryAssumption, MemoryInv, NEW p \in Processes, SetEntry(p), pc[p] = "map"
  PROVE  MemoryInv'
<1>0. PICK c \in Tables : c = at[p]
  BY DEF MemoryInv, Typed
<1>1. PICK n : n = Leaf(a[p])
  OBVIOUS
<1>2. Typed /\ Where(p) /\ Built(p) /\ Counted(p) /\ Own(p) /\ NodesIn(table) /\ DOMAIN table = Tables
  BY DEF MemoryInv, Typed
<1>3. Va(p) = a[p] /\ What(p) = mem[p] /\ a[p] \in Nat
  BY <1>2 DEF Va, What, Typed
<1>4. state[p] = "running" /\ mem[p] # NoPage
  BY <1>2 DEF Where
<1>5. PICK frame : Whole(table[c], a[p], frame) /\ frame = IF c = p THEN trapframe[p] ELSE trapframe[Owner(p)]
  BY <1>0, <1>2, <1>4 DEF Built, Own, Looping
<1>6. a[p] < TRAPFRAME
  BY <1>3, <1>5, RoomAbove
<1>7. n \notin DOMAIN table[c] /\ n \notin KernelLeaves /\ Whole(With(table[c], n, mem[p]), a[p] + 1, frame)
  BY <1>1, <1>3, <1>5, <1>6, LeafAdded
<1>8. /\ table' = [table EXCEPT ![c] = With(table[c], n, mem[p])]
      /\ pc' = [pc EXCEPT ![p] = "alloc"]
      /\ a' = [a EXCEPT ![p] = @ + 1]
      /\ mem' = [mem EXCEPT ![p] = NoPage]
      /\ UNCHANGED <<pages, free, state, trapframe, sz, at, goal, segs>>
  BY <1>0, <1>1, <1>3, <1>7 DEF SetEntry, Goto, Inside
<1>9. /\ SameBut(table, table', c) /\ table'[c] = With(table[c], n, mem[p])
      /\ SameBut(mem, mem', p) /\ mem'[p] = NoPage /\ DOMAIN mem = Processes
      /\ pc'[p] = "alloc" /\ a'[p] = a[p] + 1
  BY <1>2, <1>8 DEF SameBut, Typed
<1>10. Processes \subseteq Tables /\ Local(p) \in Tables \ Processes
  BY TablesAre
<1>11. Typed'
  <2>1. pc' \in [Processes -> Positions]
    BY <1>2, <1>8 DEF Typed, Positions, Looping
  <2>2. DOMAIN table' = Tables
    BY <1>2, <1>8
  <2>3. a' \in [Processes -> Nat]
    BY <1>2, <1>3, <1>8 DEF Typed
  <2>4. mem' \in [Processes -> pages \cup {NoPage}]
    BY <1>2, <1>8 DEF Typed
  <2>5. QED
    BY <1>2, <1>8, <2>1, <2>2, <2>3, <2>4 DEF Typed
<1>12. MayTouch(p, c)
  BY <1>0, <1>4 DEF MayTouch
<1>13. OnlyOf(p, c)
  BY <1>2, <1>8 DEF OnlyOf, Typed
<1>14. NodesIn(table')
  <2>1. n \in (0..3) \X Nat
    BY <1>1, <1>3 DEF Leaf
  <2>2. QED
    BY <1>2, <1>9, <2>1, NodesWith, NodesBut DEF NodesIn
<1>15. Accounts(HeldBy(trapframe, mem, table), pages \ free)'
  <2>1. Accounts(HeldBy(trapframe, mem, table), pages \ free)
    BY DEF MemoryInv
  <2>2. Accounts(HeldBy(trapframe, mem', table'), pages \ free)
    BY <1>2, <1>4, <1>7, <1>9, <2>1, PageMapped
  <2>3. QED
    BY <1>8, <2>2
<1>16. Where(p)'
  BY <1>2, <1>4, <1>8, <1>9 DEF Where, Setting, Looping
<1>17. Whole(table'[c], a'[p], frame)
  BY <1>7, <1>9
<1>18. Own(p)'
  <2>1. CASE c = p
    BY <1>0, <1>2, <1>4, <1>5, <1>8, <1>9, <1>17, <2>1 DEF Own, Looping
  <2>2. CASE c # p
    BY <1>0, <1>2, <1>4, <1>8, <1>9, <1>10, <2>2 DEF Own, SameBut
  <2>3. QED
    BY <2>1, <2>2
<1>19. c \in Processes => Own(c)'
  <2>1. c \in Processes \ {p} => state'[c] = "used"
    BY <1>0, <1>2, <1>8 DEF Where
  <2>2. QED
    BY <1>18, <2>1 DEF Own
<1>20. Built(p)'
  <2>1. Owner(p)' = Owner(p)
    BY <1>8 DEF Owner
  <2>2. at'[p] = c
    BY <1>0, <1>8
  <2>3. c # Local(p) => table'[Local(p)] = NoTable /\ sz'[Local(p)] = 0
    BY <1>0, <1>2, <1>8, <1>9, <1>10 DEF SameBut, Built
  <2>4. c # p => trapframe[Owner(p)] # NoPage /\ (c \in Processes => sz[c] = 0)
    BY <1>0, <1>2 DEF Built, Looping
  <2>5. QED
    BY <1>5, <1>8, <1>9, <1>17, <2>1, <2>2, <2>3, <2>4 DEF Built, Setting, Looping
<1>21. Counted(p)'
  <2>1. PagesOf(sz[c]) \in Nat /\ goal[p] \in Nat
    BY <1>2, PagesType DEF Typed
  <2>2. PagesOf(sz[c]) <= a[p] /\ a[p] * PGSIZE < goal[p]
        /\ (c = p => sz[p] < goal[p]) /\ (c \in Processes \ {p} => goal[p] = sz[p])
    BY <1>0, <1>2 DEF Counted, Looping
  <2>3. a'[p] - 1 = a[p] /\ at'[p] = c /\ UNCHANGED <<sz, goal>>
    BY <1>0, <1>3, <1>8, <1>9
  <2>4. PagesOf(sz[c]) <= a'[p]
    BY <1>3, <1>9, <2>1, <2>2
  <2>5. QED
    BY <1>9, <2>2, <2>3, <2>4 DEF Counted, Setting, Looping
<1>22. QED
  BY <1>0, <1>8, <1>11, <1>12, <1>13, <1>14, <1>15, <1>16, <1>18, <1>19, <1>20, <1>21, StepKeeps

-----------------------------------------------------------------------------
(* A call fails *)

\* What uvmalloc() or uvmcopy() take back is there to be taken.
UndoneAt(p) == LeavesFrom(PagesOf(sz[at[p]]), a[p])

LEMMA UndoneIs ==
  ASSUME NEW p
  PROVE  Undone(p) = UndoneAt(p)
BY DEF Undone, UndoneAt, LeavesFrom

\* The call that fails is sbrk().
LEMMA GrowFails ==
  ASSUME MemoryAssumption, MemoryInv, NEW p \in Processes, Fail(p), Inside,
         pc[p] \in Looping, at[p] = p
  PROVE  MemoryInv'
<1>1. PICK L : L = UndoneAt(p)
  OBVIOUS
<1>2. Typed /\ Where(p) /\ Built(p) /\ Counted(p) /\ Own(p) /\ NodesIn(table)
      /\ DOMAIN table = Tables /\ DOMAIN mem = Processes
  BY DEF MemoryInv, Typed
<1>3. p \in Tables /\ Local(p) \in Tables /\ Local(p) # p
  BY TablesAre
<1>4. /\ free' = free \cup ({table[p][n] : n \in L} \cup ({mem[p]} \ {NoPage}))
      /\ table' = [table EXCEPT ![p] = Without(table[p], L)]
      /\ Return(p)
      /\ UNCHANGED <<pages, state, trapframe, sz>>
  BY <1>1, UndoneIs DEF Fail, Inside
<1>5. state[p] = "running" /\ table[Local(p)] = NoTable /\ sz[Local(p)] = 0
  BY <1>2, <1>3 DEF Where, Built, Looping
<1>6. Whole(table[p], a[p], trapframe[p])
  BY <1>2, <1>5 DEF Own
<1>7. PagesOf(sz[p]) \in Nat /\ a[p] \in Nat /\ PagesOf(sz[p]) <= a[p]
  BY <1>2, <1>3, PagesType DEF Typed, Counted
<1>8. L \subseteq DOMAIN table[p] /\ L \cap KernelLeaves = {}
      /\ Whole(Without(table[p], L), PagesOf(sz[p]), trapframe[p])
  BY <1>1, <1>6, <1>7, LeavesTaken DEF UndoneAt
<1>9. SameBut(table, table', p) /\ table'[p] = Without(table[p], L)
  BY <1>2, <1>3, <1>4 DEF SameBut
<1>10. SameBut(mem, mem', p) /\ mem'[p] = NoPage
  BY <1>2, <1>4 DEF SameBut, Return
<1>11. (L \cap DOMAIN table[p]) \ KernelLeaves = L
  BY <1>8
<1>12. free' = (free \cup PagesAt(table[p], L)) \cup ({mem[p]} \ {NoPage})
  BY <1>4, <1>11 DEF PagesAt
<1>13. NodesIn(table')
  BY <1>2, <1>3, <1>9, NodesWithout, NodesBut DEF NodesIn
<1>14. Accounts(HeldBy(trapframe, mem, table), pages \ free)'
  <2>1. Accounts(HeldBy(trapframe, mem, table), pages \ free)
    BY DEF MemoryInv
  <2>2. Accounts(HeldBy(trapframe, mem, table'), pages \ (free \cup PagesAt(table[p], L)))
    BY <1>2, <1>3, <1>9, <2>1, GivingNodes
  <2>3. Accounts(HeldBy(trapframe, mem', table'),
                 pages \ ((free \cup PagesAt(table[p], L)) \cup ({mem[p]} \ {NoPage})))
    BY <1>2, <1>10, <1>13, <2>2, GivingMem
  <2>4. QED
    BY <1>4, <1>12, <2>3
<1>15. free' \in SUBSET pages
  <2>1. \A n \in L : table[p][n] \in pages
    BY <1>3, <1>8, TablePages
  <2>2. mem[p] \in pages \cup {NoPage} /\ free \subseteq pages
    BY <1>2 DEF Typed
  <2>3. QED
    BY <1>4, <2>1, <2>2
<1>16. table'[Local(p)] = NoTable /\ sz'[Local(p)] = 0
  BY <1>3, <1>4, <1>5, <1>9, <1>2 DEF SameBut
<1>17. Whole(table'[p], PagesOf(sz'[p]), trapframe'[p])
  BY <1>4, <1>8, <1>9
<1>18. Quiet(p, p)
  BY <1>2, <1>4, <1>5, <1>9, <1>15, <1>16, <1>17 DEF Quiet, SameBut, Typed
<1>19. MayTouch(p, p)
  BY <1>5 DEF MayTouch
<1>20. QED
  BY <1>4, <1>13, <1>14, <1>18, <1>19, ReturnKeeps

\* Taking some leaves of a table, and then all that is left, is taking all.
LEMMA AllTaken ==
  ASSUME NEW t, NEW L, L \subseteq DOMAIN t, L \cap KernelLeaves = {}
  PROVE  {t[n] : n \in L} \cup PagesIn(Without(t, L)) = PagesIn(t)
<1>1. DOMAIN Without(t, L) = DOMAIN t \ L /\ \A n \in DOMAIN t \ L : Without(t, L)[n] = t[n]
  BY WithoutEffect
<1>2. PagesIn(Without(t, L)) = {t[n] : n \in (DOMAIN t \ L) \ KernelLeaves}
  BY <1>1 DEF PagesIn
<1>3. QED
  BY <1>2 DEF PagesIn

\* freeproc() and exec() find the memory that the size says.
LEMMA CanUndo ==
  ASSUME MemoryAssumption, MemoryInv, NEW p \in Processes,
         pc[p] \in Setting \cup Looping \cup {"commit"}, at[p] # p
  PROVE  /\ UndoneAt(p) \subseteq DOMAIN table[at[p]] /\ UndoneAt(p) \cap KernelLeaves = {}
         /\ CanFree(Without(table[at[p]], UndoneAt(p)), sz[at[p]])
<1>1. PICK c \in Tables : c = at[p]
  BY DEF MemoryInv, Typed
<1>2. Typed /\ Where(p) /\ Built(p) /\ Counted(p)
  BY DEF MemoryInv
<1>3. PagesOf(sz[c]) \in Nat /\ a[p] \in Nat
  BY <1>2, PagesType DEF Typed
<1>4. CASE pc[p] \in Looping \cup {"commit"}
  <2>1. Whole(table[c], a[p], trapframe[Owner(p)]) /\ PagesOf(sz[c]) <= a[p]
    BY <1>1, <1>2, <1>3, <1>4 DEF Built, Counted
  <2>2. QED
    BY <1>1, <1>3, <2>1, LeavesTaken DEF UndoneAt, CanFree, Whole
<1>5. CASE pc[p] \in Setting
  <2>1. sz[c] = 0 /\ a[p] = 0 /\ PagesOf(sz[c]) = 0
    BY <1>1, <1>2, <1>5, PagesNone DEF Built, Counted
  <2>2. 0..(0 - 1) = {}
    OBVIOUS
  <2>3. UndoneAt(p) = {}
    BY <1>1, <2>1, <2>2 DEF UndoneAt, LeavesFrom
  <2>4. UserLeaves(table[c]) = {}
    <3>1. CASE pc[p] = "root"
      BY <1>1, <1>2, <3>1, NoTableIs DEF Built
    <3>2. CASE pc[p] = "map_trampoline"
      BY <1>1, <1>2, <3>2, LeafIs DEF Built, UserLeaves
    <3>3. CASE pc[p] = "map_trapframe"
      BY <1>1, <1>2, <3>3 DEF Built
    <3>4. QED
      BY <1>5, <3>1, <3>2, <3>3 DEF Setting
  <2>5. UserLeaves(Without(table[c], {})) = UserLeaves(table[c])
    BY DEF UserLeaves, Without
  <2>6. QED
    BY <1>1, <2>1, <2>2, <2>3, <2>4, <2>5 DEF CanFree
<1>6. QED
  BY <1>4, <1>5

\* The call that fails is fork() or exec().
LEMMA BuildFails ==
  ASSUME MemoryAssumption, MemoryInv, NEW p \in Processes, Fail(p), Inside,
         pc[p] \in Setting \cup Looping \cup {"commit"}, at[p] # p
  PROVE  MemoryInv'
<1>0. PICK c \in Tables : c = at[p]
  BY DEF MemoryInv, Typed
<1>1. PICK L : L = UndoneAt(p)
  OBVIOUS
<1>2. Typed /\ Where(p) /\ Built(p) /\ Counted(p) /\ Own(p) /\ NodesIn(table)
      /\ DOMAIN table = Tables /\ DOMAIN mem = Processes /\ DOMAIN trapframe = Processes
  BY DEF MemoryInv, Typed
<1>3. p \in Tables /\ Local(p) \in Tables \ Processes /\ Local(p) # p /\ c # p
  BY <1>0, TablesAre
<1>4. L \subseteq DOMAIN table[c] /\ L \cap KernelLeaves = {} /\ CanFree(Without(table[c], L), sz[c])
  BY <1>0, <1>1, CanUndo
<1> DEFINE frame == IF c \in Processes THEN {trapframe[c]} ELSE {}
<1>5. /\ free' = free \cup ({table[c][n] : n \in L} \cup ({mem[p]} \ {NoPage}))
                    \cup PagesIn(Without(table[c], L)) \cup frame
      /\ table' = [table EXCEPT ![c] = NoTable]
      /\ sz' = [sz EXCEPT ![c] = 0]
      /\ trapframe' = [q \in Processes |-> IF q = c THEN NoPage ELSE trapframe[q]]
      /\ state' = [q \in Processes |-> IF q = c THEN "unused" ELSE state[q]]
      /\ Return(p)
      /\ pages' = pages
  BY <1>0, <1>1, <1>3, <1>4, UndoneIs DEF Fail, Inside
<1>6. state[p] = "running" /\ (c \notin Processes => c = Local(p))
      /\ (c # Local(p) => table[Local(p)] = NoTable /\ sz[Local(p)] = 0)
      /\ (c \in Processes => trapframe[c] # NoPage)
  BY <1>0, <1>2, <1>3 DEF Where, Built, Setting, Looping, Owner
<1>7. free' = ((free \cup PagesIn(table[c])) \cup ({mem[p]} \ {NoPage})) \cup frame
  <2>1. {table[c][n] : n \in L} \cup PagesIn(Without(table[c], L)) = PagesIn(table[c])
    BY <1>4, AllTaken
  <2>2. QED
    BY <1>5, <2>1
<1>8. SameBut(table, table', c) /\ table'[c] = NoTable
  BY <1>2, <1>5 DEF SameBut
<1>9. SameBut(mem, mem', p) /\ mem'[p] = NoPage
  BY <1>2, <1>5 DEF SameBut, Return
<1>10. NodesIn(table')
  BY <1>2, <1>8, NoTableIs, NodesBut DEF Nodes
<1>11. Accounts(HeldBy(trapframe, mem, table), pages \ free)'
  <2> HIDE DEF frame
  <2>1. Accounts(HeldBy(trapframe, mem, table), pages \ free)
    BY DEF MemoryInv
  <2>2. Accounts(HeldBy(trapframe, mem, table'), pages \ (free \cup PagesIn(table[c])))
    BY <1>2, <1>8, <2>1, GivingTable
  <2> DEFINE F == (free \cup PagesIn(table[c])) \cup ({mem[p]} \ {NoPage})
  <2>3. Accounts(HeldBy(trapframe, mem', table'), pages \ F)
    BY <1>2, <1>9, <1>10, <2>2, GivingMem
  <2>4. free' = F \cup frame
    BY <1>7
  <2> HIDE DEF F
  <2>5. CASE c \in Processes
    <3>1. SameBut(trapframe, trapframe', c) /\ trapframe'[c] = NoPage
      BY <1>2, <1>5, <2>5 DEF SameBut
    <3>2. Accounts(HeldBy(trapframe', mem', table'), pages \ (F \cup {trapframe[c]}))
      BY <1>2, <1>6, <1>10, <2>3, <2>5, <3>1, GivingFrame
    <3>3. frame = {trapframe[c]}
      BY <2>5 DEF frame
    <3>4. QED
      BY <1>5, <2>4, <3>2, <3>3
  <2>6. CASE c \notin Processes
    <3>1. trapframe' = trapframe
      <4>1. trapframe = [q \in Processes |-> trapframe[q]]
        BY <1>2 DEF Typed
      <4>2. trapframe' = [q \in Processes |-> trapframe[q]]
        BY <1>5, <2>6
      <4>3. QED
        BY <4>1, <4>2
    <3>2. F \cup frame = F
      BY <2>6 DEF frame
    <3>3. QED
      BY <1>5, <2>3, <2>4, <3>1, <3>2
  <2>7. QED
    BY <2>5, <2>6
<1>12. free' \in SUBSET pages
  <2>1. PagesIn(table[c]) \subseteq pages
    BY TablePages DEF PagesIn
  <2>2. mem[p] \in pages \cup {NoPage} /\ free \subseteq pages
    BY <1>2 DEF Typed
  <2>3. frame \subseteq pages
    BY <1>2, <1>6 DEF Typed
  <2>4. QED
    BY <1>7, <2>1, <2>2, <2>3
<1>13. Whole(table'[p], PagesOf(sz'[p]), trapframe'[p])
  <2>1. Whole(table[p], PagesOf(sz[p]), trapframe[p])
    BY <1>0, <1>2, <1>3, <1>6 DEF Own
  <2>2. table'[p] = table[p] /\ sz'[p] = sz[p] /\ trapframe'[p] = trapframe[p]
    BY <1>2, <1>3, <1>5 DEF Typed
  <2>3. QED
    BY <2>1, <2>2
<1>14. table'[Local(p)] = NoTable /\ sz'[Local(p)] = 0
  BY <1>2, <1>3, <1>5, <1>6 DEF Typed
<1>15. sz' \in [Tables -> Nat] /\ DOMAIN table' = Tables
  BY <1>2, <1>5 DEF Typed
<1>16. state' \in [Processes -> States] /\ trapframe' \in [Processes -> pages \cup {NoPage}]
  BY <1>2, <1>5 DEF Typed, States
<1>17. Quiet(p, c)
  <2>1. \A q \in Processes \ {p, c} : state'[q] = state[q] /\ trapframe'[q] = trapframe[q]
    BY <1>5
  <2>2. \A s \in Tables \ {p, c} : table'[s] = table[s] /\ sz'[s] = sz[s]
    BY <1>2, <1>5 DEF Typed
  <2>3. state'[p] = "running"
    BY <1>3, <1>5, <1>6
  <2>4. QED
    BY <1>5, <1>12, <1>13, <1>14, <1>15, <1>16, <2>1, <2>2, <2>3 DEF Quiet
<1>18. c \in Processes => Own(c)'
  <2>1. c \in Processes => state'[c] = "unused" /\ trapframe'[c] = NoPage /\ table'[c] = NoTable /\ sz'[c] = 0
    BY <1>2, <1>5 DEF Typed
  <2>2. QED
    BY <2>1 DEF Own
<1>19. MayTouch(p, c)
  BY <1>0, <1>6 DEF MayTouch
<1>20. QED
  BY <1>5, <1>10, <1>11, <1>17, <1>18, <1>19, ReturnKeeps

LEMMA FailKeeps ==
  ASSUME MemoryAssumption, MemoryInv, NEW p \in Processes, Fail(p), Inside,
         pc[p] \in Setting \cup Looping \cup {"commit"}
  PROVE  MemoryInv'
<1>1. at[p] = p => pc[p] \in Looping
  BY DEF MemoryInv, Where, Setting, Looping
<1>2. QED
  BY <1>1, GrowFails, BuildFails

LEMMA OutOfMemoryKeeps ==
  ASSUME MemoryAssumption, MemoryInv, NEW p \in Processes, OutOfMemory(p)
  PROVE  MemoryInv'
BY FailKeeps DEF OutOfMemory, Setting, Looping, Mapping

LEMMA BadProgramKeeps ==
  ASSUME MemoryAssumption, MemoryInv, NEW p \in Processes, BadProgram(p)
  PROVE  MemoryInv'
BY FailKeeps DEF BadProgram, Looping

-----------------------------------------------------------------------------
(* A call returns *)

LEMMA SbrkReturnsKeeps ==
  ASSUME MemoryAssumption, MemoryInv, NEW p \in Processes, SbrkReturns(p)
  PROVE  MemoryInv'
<1>1. /\ pc[p] = "alloc" /\ ~(a[p] * PGSIZE < goal[p]) /\ at[p] = p
      /\ sz' = [sz EXCEPT ![p] = goal[p]]
      /\ Return(p)
      /\ UNCHANGED <<pages, free, state, trapframe, table>>
  BY DEF SbrkReturns, More, Inside
<1>2. Typed /\ Where(p) /\ Built(p) /\ Counted(p) /\ Own(p)
  BY DEF MemoryInv
<1>3. p \in Tables /\ Local(p) \in Tables /\ Local(p) # p
  BY TablesAre
<1>4. state[p] = "running" /\ mem[p] = NoPage /\ table[Local(p)] = NoTable /\ sz[Local(p)] = 0
  BY <1>1, <1>2, <1>3 DEF Where, Built
<1>5. Whole(table[p], a[p], trapframe[p])
  BY <1>1, <1>2, <1>4 DEF Own, Looping
<1>6. a[p] \in Nat /\ goal[p] \in Nat /\ sz[p] \in Nat /\ PGSIZE \in Nat
  BY <1>2, <1>3 DEF Typed, MemoryAssumption
<1>7. a[p] = PagesOf(goal[p])
  <2>1. a[p] * PGSIZE \in Nat /\ goal[p] <= a[p] * PGSIZE
    BY <1>1, <1>6
  <2>2. (a[p] - 1) * PGSIZE < goal[p]
    <3>1. CASE a[p] = PagesOf(sz[p])
      <4>1. (a[p] - 1) * PGSIZE < sz[p] /\ sz[p] < goal[p]
        BY <1>1, <1>2, <1>6, <3>1, PagesType DEF Counted, Looping
      <4>2. (a[p] - 1) * PGSIZE \in Int
        BY <1>6
      <4>3. QED
        BY <1>6, <4>1, <4>2
    <3>2. CASE a[p] # PagesOf(sz[p])
      BY <1>1, <1>2, <3>2 DEF Counted, Looping
    <3>3. QED
      BY <3>1, <3>2
  <2>3. QED
    BY <1>6, <2>1, <2>2, PagesIs
<1>8. mem' = mem
  BY <1>1, <1>2, <1>4 DEF Return, Typed
<1>9. NodesIn(table)' /\ Accounts(HeldBy(trapframe, mem, table), pages \ free)'
  BY <1>1, <1>8 DEF MemoryInv
<1>10. sz'[p] = goal[p] /\ sz'[Local(p)] = 0 /\ sz' \in [Tables -> Nat]
  BY <1>1, <1>2, <1>3, <1>4, <1>6 DEF Typed
<1>11. Whole(table'[p], PagesOf(sz'[p]), trapframe'[p])
  BY <1>1, <1>5, <1>7, <1>10
<1>12. Quiet(p, p)
  BY <1>1, <1>2, <1>4, <1>10, <1>11 DEF Quiet, Typed
<1>13. MayTouch(p, p)
  BY <1>4 DEF MayTouch
<1>14. QED
  BY <1>1, <1>9, <1>12, <1>13, ReturnKeeps

LEMMA ForkReturnsKeeps ==
  ASSUME MemoryAssumption, MemoryInv, NEW p \in Processes, ForkReturns(p)
  PROVE  MemoryInv'
<1>0. PICK c \in Tables : c = at[p]
  BY DEF MemoryInv, Typed
<1>1. /\ pc[p] = "alloc" /\ ~(a[p] * PGSIZE < goal[p]) /\ c \in Processes \ {p}
      /\ sz' = [sz EXCEPT ![c] = sz[p]]
      /\ state' = [state EXCEPT ![c] = "running"]
      /\ Return(p)
      /\ UNCHANGED <<pages, free, trapframe, table>>
  BY <1>0 DEF ForkReturns, More, Inside
<1>2. Typed /\ Where(p) /\ Built(p) /\ Counted(p) /\ Own(p)
  BY DEF MemoryInv
<1>3. p \in Tables /\ Local(p) \in Tables /\ Local(p) # p /\ Local(p) # c
  BY <1>1, TablesAre
<1>4. /\ state[p] = "running" /\ mem[p] = NoPage /\ table[Local(p)] = NoTable /\ sz[Local(p)] = 0
      /\ state[c] = "used" /\ sz[c] = 0
      /\ Whole(table[c], a[p], trapframe[c])
  BY <1>0, <1>1, <1>2, <1>3 DEF Where, Built, Looping, Owner
<1>5. Whole(table[p], PagesOf(sz[p]), trapframe[p])
  BY <1>0, <1>1, <1>2, <1>4 DEF Own
<1>6. a[p] \in Nat /\ sz[p] \in Nat /\ PGSIZE \in Nat /\ goal[p] = sz[p]
  BY <1>0, <1>1, <1>2, <1>3 DEF Typed, MemoryAssumption, Counted, Looping
<1>7. a[p] = PagesOf(sz[p])
  <2>1. a[p] * PGSIZE \in Nat /\ sz[p] <= a[p] * PGSIZE
    BY <1>1, <1>6
  <2>2. (a[p] - 1) * PGSIZE < sz[p]
    <3>1. CASE a[p] = 0
      <4>1. PGSIZE > 0 /\ (0 - 1) * PGSIZE = 0 - PGSIZE
        BY DEF MemoryAssumption
      <4>2. QED
        BY <1>6, <3>1, <4>1
    <3>2. CASE a[p] # 0
      BY <1>0, <1>1, <1>2, <1>4, <1>6, <3>2, PagesNone DEF Counted, Looping
    <3>3. QED
      BY <3>1, <3>2
  <2>3. QED
    BY <1>6, <2>1, <2>2, PagesIs
<1>8. mem' = mem
  BY <1>1, <1>2, <1>4 DEF Return, Typed
<1>9. NodesIn(table)' /\ Accounts(HeldBy(trapframe, mem, table), pages \ free)'
  BY <1>1, <1>8 DEF MemoryInv
<1>10. sz'[p] = sz[p] /\ sz'[c] = sz[p] /\ sz'[Local(p)] = 0 /\ sz' \in [Tables -> Nat]
       /\ \A s \in Tables \ {p, c} : sz'[s] = sz[s]
  BY <1>1, <1>2, <1>3, <1>4, <1>6 DEF Typed
<1>11. Whole(table'[p], PagesOf(sz'[p]), trapframe'[p])
  BY <1>1, <1>5, <1>10
<1>12. state'[p] = "running" /\ state'[c] = "running" /\ state' \in [Processes -> States]
       /\ \A q \in Processes \ {p, c} : state'[q] = state[q]
  BY <1>1, <1>2, <1>4 DEF Typed, States
<1>13. Quiet(p, c)
  BY <1>1, <1>2, <1>4, <1>10, <1>11, <1>12 DEF Quiet, Typed
<1>14. MayTouch(p, c)
  BY <1>0, <1>4 DEF MayTouch
<1>15. Own(c)'
  <2>1. at[c] = c /\ pc[c] = "user"
    BY <1>1, <1>4, UserHasNoTable
  <2>2. pc'[c] = "user"
    BY <1>1, <1>2, <2>1 DEF Return, Goto, Typed
  <2>3. Whole(table'[c], PagesOf(sz'[c]), trapframe'[c])
    BY <1>1, <1>4, <1>7, <1>10
  <2>4. QED
    BY <1>12, <2>2, <2>3 DEF Own, Looping
<1>16. QED
  BY <1>1, <1>9, <1>13, <1>14, <1>15, ReturnKeeps

\* exec() has loaded a segment, which may be the last.
LEMMA LoadedKeeps ==
  ASSUME MemoryAssumption, MemoryInv, NEW p \in Processes, Loaded(p)
  PROVE  MemoryInv'
<1>0. PICK c \in Tables : c = at[p]
  BY DEF MemoryInv, Typed
<1>1. PICK n : n = Grown(p)
  OBVIOUS
<1>2. pc[p] = "alloc" /\ ~(a[p] * PGSIZE < goal[p]) /\ c \notin Processes /\ Inside
  BY <1>0 DEF Loaded, More
<1>3. CASE n = 0 /\ Fail(p)
  BY <1>2, <1>3, FailKeeps DEF Looping
<1>4. CASE
        /\ n > 0
        /\ sz' = [sz EXCEPT ![c] = n]
        /\ a' = [a EXCEPT ![p] = PagesOf(n)]
        /\ segs' = [segs EXCEPT ![p] = Tail(@)]
        /\ IF Len(segs[p]) = 1
           THEN pc' = [pc EXCEPT ![p] = "commit"] /\ UNCHANGED goal
           ELSE /\ goal' = [goal EXCEPT ![p] =
                     IF segs[p][2] = Stack THEN (PagesOf(n) + 2) * PGSIZE ELSE segs[p][2]]
                /\ UNCHANGED pc
        /\ UNCHANGED <<free, state, trapframe, table, at, mem>>
  <2>1. Typed /\ Where(p) /\ Built(p) /\ Counted(p) /\ Own(p)
    BY DEF MemoryInv
  <2>2. Processes \subseteq Tables /\ p \in Tables /\ c = Local(p) /\ c # p /\ pages' = pages
    BY <1>0, <1>2, <2>1, TablesAre DEF Where, Inside
  <2>3. state[p] = "running" /\ mem[p] = NoPage /\ segs[p] # << >>
        /\ Whole(table[c], a[p], trapframe[p]) /\ trapframe[p] # NoPage
    BY <1>0, <1>2, <2>1, <2>2 DEF Where, Built, Looping, Owner
  <2>4. a[p] \in Nat /\ goal[p] \in Nat /\ sz[c] \in Nat /\ PGSIZE \in Nat
        /\ segs[p] \in Seq(Nat \cup {Stack})
    BY <2>1 DEF Typed, MemoryAssumption
  <2>5. n = IF goal[p] < sz[c] THEN sz[c] ELSE goal[p]
    BY <1>0, <1>1 DEF Grown
  <2>6. n \in Nat /\ PagesOf(n) \in Nat
    BY <2>4, <2>5, PagesType
  <2>7. PagesOf(n) = a[p]
    <3>1. PagesOf(sz[c]) \in Nat /\ PagesOf(sz[c]) <= a[p]
          /\ (a[p] = PagesOf(sz[c]) \/ (a[p] - 1) * PGSIZE < goal[p])
          /\ (PagesOf(sz[c]) - 1) * PGSIZE < sz[c] /\ sz[c] <= PagesOf(sz[c]) * PGSIZE
      BY <1>0, <1>2, <2>1, <2>4, PagesType DEF Counted, Looping
    <3>2. a[p] * PGSIZE \in Nat /\ goal[p] <= a[p] * PGSIZE /\ (a[p] - 1) * PGSIZE \in Int
          /\ PagesOf(sz[c]) * PGSIZE \in Nat
      BY <1>2, <2>4, <3>1
    <3>3. sz[c] <= a[p] * PGSIZE
      <4>1. PagesOf(sz[c]) * PGSIZE <= a[p] * PGSIZE
        <5>1. PICK k \in Int : k = PagesOf(sz[c])
          BY <3>1
        <5>2. PICK m \in Int : m = a[p]
          BY <2>4
        <5>3. k * PGSIZE <= m * PGSIZE
          BY <2>4, <3>1, <5>1, <5>2, Monotone
        <5>4. QED
          BY <5>1, <5>2, <5>3
      <4>2. QED
        BY <2>4, <3>1, <3>2, <4>1
    <3>4. n <= a[p] * PGSIZE
      BY <2>5, <3>2, <3>3
    <3>5. (a[p] - 1) * PGSIZE < n
      BY <2>4, <2>5, <3>1, <3>2
    <3>6. QED
      BY <2>4, <2>6, <3>4, <3>5, PagesIs
  <2>8. sz'[c] = n /\ sz'[p] = sz[p] /\ sz' \in [Tables -> Nat] /\ a' = a /\ at'[p] = c
    BY <1>0, <1>4, <2>1, <2>2, <2>6, <2>7 DEF Typed
  <2>9. segs'[p] = Tail(segs[p]) /\ segs' \in [Processes -> Seq(Nat \cup {Stack})]
    <3>1. Tail(segs[p]) \in Seq(Nat \cup {Stack})
      BY <2>3, <2>4
    <3>2. QED
      BY <1>4, <2>1, <3>1 DEF Typed
  <2>10. OnlyOf(p, c)
    BY <1>4, <2>1, <2>8 DEF OnlyOf, Typed
  <2>11. MayTouch(p, c)
    BY <1>0, <2>3 DEF MayTouch
  <2>12. NodesIn(table)' /\ Accounts(HeldBy(trapframe, mem, table), pages \ free)'
    BY <1>4, <2>2 DEF MemoryInv
  <2>13. Own(p)'
    <3>1. Whole(table[p], PagesOf(sz[p]), trapframe[p])
      BY <1>0, <2>1, <2>2, <2>3 DEF Own
    <3>2. QED
      BY <1>4, <2>2, <2>3, <2>8, <3>1 DEF Own
  <2>14. Owner(p)' = p
    BY <1>2, <2>8 DEF Owner
  <2>15. CASE Len(segs[p]) = 1
    <3>1. pc' = [pc EXCEPT ![p] = "commit"] /\ goal' = goal
      BY <1>4, <2>15
    <3>2. pc'[p] = "commit" /\ pc' \in [Processes -> Positions]
      BY <2>1, <3>1 DEF Typed, Positions
    <3>3. Typed'
      BY <1>4, <2>1, <2>2, <2>8, <2>9, <3>1, <3>2 DEF Typed
    <3>4. Where(p)'
      BY <1>2, <1>4, <2>2, <2>3, <2>8, <3>2 DEF Where, Looping
    <3>5. Built(p)'
      BY <1>2, <1>4, <2>2, <2>3, <2>8, <2>14, <3>2 DEF Built, Setting, Looping
    <3>6. Counted(p)'
      BY <2>7, <2>8, <3>2 DEF Counted, Setting, Looping
    <3>7. QED
      BY <1>0, <1>2, <2>8, <2>10, <2>11, <2>12, <2>13, <3>3, <3>4, <3>5, <3>6, StepKeeps
  <2>16. CASE Len(segs[p]) # 1
    <3>1. pc' = pc /\ goal' = [goal EXCEPT ![p] =
                       IF segs[p][2] = Stack THEN (PagesOf(n) + 2) * PGSIZE ELSE segs[p][2]]
      BY <1>4, <2>16
    <3>2. segs[p][2] \in Nat \cup {Stack} /\ Tail(segs[p]) # << >>
      <4>1. PICK g \in Seq(Nat \cup {Stack}) : g = segs[p]
        BY <2>4
      <4>2. Len(g) \in Nat \ {0} /\ Len(g) # 1
        <5>1. g # << >>
          BY <2>3, <4>1
        <5>2. QED
          BY <2>16, <4>1, <5>1, EmptySeq, Zenon
      <4>3. PICK k \in Nat : k = Len(g) /\ k >= 2
        <5>1. PICK k \in Nat \ {0} : k = Len(g)
          BY <4>2, Zenon
        <5>2. k # 1
          BY <4>2, <5>1, Zenon
        <5>3. k \in Nat /\ k >= 2
          BY <5>2
        <5>4. QED
          BY <5>1, <5>3, Zenon
      <4>4. g[2] \in Nat \cup {Stack}
        BY <4>3
      <4>5. Tail(g) # << >>
        <5>1. Len(Tail(g)) = k - 1
          BY <4>3
        <5>2. k - 1 # 0
          BY <4>3
        <5>3. Len(<< >>) = 0
          BY EmptySeq, Zenon
        <5>4. QED
          BY <5>1, <5>2, <5>3, Zenon
      <4>6. QED
        BY <4>1, <4>4, <4>5
    <3>3. (PagesOf(n) + 2) * PGSIZE \in Nat
      BY <2>4, <2>6
    <3>4. goal' \in [Processes -> Nat]
      BY <2>1, <3>1, <3>2, <3>3 DEF Typed
    <3>5. Typed'
      BY <1>4, <2>1, <2>2, <2>8, <2>9, <3>1, <3>4 DEF Typed
    <3>6. Where(p)'
      BY <1>2, <1>4, <2>1, <2>2, <2>3, <2>8, <2>9, <3>1, <3>2 DEF Where, Looping
    <3>7. Built(p)'
      BY <1>2, <1>4, <2>2, <2>3, <2>8, <2>14, <3>1 DEF Built, Setting, Looping
    <3>8. Counted(p)'
      BY <1>2, <2>2, <2>6, <2>7, <2>8, <3>1 DEF Counted, Setting, Looping
    <3>9. QED
      BY <1>0, <1>2, <2>8, <2>10, <2>11, <2>12, <2>13, <3>5, <3>6, <3>7, <3>8, StepKeeps
  <2>17. QED
    BY <2>15, <2>16
<1>5. QED
  BY <1>0, <1>1, <1>3, <1>4 DEF Loaded, Goto

\* exec() commits.
LEMMA CommitKeeps ==
  ASSUME MemoryAssumption, MemoryInv, NEW p \in Processes, Commit(p)
  PROVE  MemoryInv'
<1>0. PICK c \in Tables : c = at[p]
  BY DEF MemoryInv, Typed
<1>1. pc[p] = "commit" /\ pages' = pages
  BY DEF Commit, Inside
<1>2. Typed /\ Where(p) /\ Built(p) /\ Counted(p) /\ Own(p) /\ NodesIn(table) /\ DOMAIN table = Tables
  BY DEF MemoryInv, Typed
<1>3. c = Local(p) /\ c \notin Processes /\ state[p] = "running" /\ mem[p] = NoPage
  BY <1>0, <1>1, <1>2 DEF Where, Setting, Looping
<1>4. p \in Tables /\ c # p
  BY <1>3, TablesAre
<1>5. Whole(table[p], PagesOf(sz[p]), trapframe[p])
  BY <1>0, <1>1, <1>2, <1>3, <1>4 DEF Own
<1>6. Whole(table[c], PagesOf(sz[c]), trapframe[p])
  <2>1. Owner(p) = p
    BY <1>0, <1>3 DEF Owner
  <2>2. a[p] = PagesOf(sz[c])
    BY <1>0, <1>1, <1>2 DEF Counted
  <2>3. QED
    BY <1>0, <1>1, <1>2, <1>4, <2>1, <2>2 DEF Built
<1>7. CanFree(table[p], OldSize(p))
  BY <1>5 DEF CanFree, Whole, OldSize
<1>8. /\ free' = free \cup PagesIn(table[p])
      /\ table' = [table EXCEPT ![p] = table[c], ![c] = NoTable]
      /\ sz' = [sz EXCEPT ![p] = sz[c], ![c] = 0]
      /\ Return(p)
      /\ UNCHANGED <<state, trapframe>>
  BY <1>3, <1>7 DEF Commit
<1>9. DOMAIN table' = Tables /\ table'[p] = table[c] /\ table'[c] = NoTable
      /\ \A r \in Tables \ {p, c} : table'[r] = table[r]
  BY <1>2, <1>4, <1>8
<1>10. sz' \in [Tables -> Nat] /\ sz'[p] = sz[c] /\ sz'[c] = 0
       /\ \A r \in Tables \ {p, c} : sz'[r] = sz[r]
  BY <1>2, <1>4, <1>8 DEF Typed
<1>11. mem' = mem
  BY <1>2, <1>3, <1>8 DEF Return, Typed
<1>12. NodesIn(table)'
  BY <1>2, <1>4, <1>9, NoTableIs DEF NodesIn, Nodes
<1>13. Accounts(HeldBy(trapframe, mem, table), pages \ free)'
  <2>1. Accounts(HeldBy(trapframe, mem, table), pages \ free)
    BY DEF MemoryInv
  <2>2. Accounts(HeldBy(trapframe, mem, table'), pages \ (free \cup PagesIn(table[p])))
    BY <1>2, <1>3, <1>9, <2>1, TableReplaced
  <2>3. QED
    BY <1>1, <1>8, <1>11, <2>2
<1>14. free' \in SUBSET pages
  <2>1. PagesIn(table[p]) \subseteq pages
    BY <1>4, TablePages DEF PagesIn
  <2>2. QED
    BY <1>2, <1>8, <2>1 DEF Typed
<1>15. Quiet(p, c)
  BY <1>1, <1>2, <1>3, <1>6, <1>8, <1>9, <1>10, <1>14 DEF Quiet, Typed
<1>16. MayTouch(p, c)
  BY <1>0, <1>3 DEF MayTouch
<1>17. QED
  BY <1>3, <1>8, <1>12, <1>13, <1>15, <1>16, ReturnKeeps

-----------------------------------------------------------------------------
(* userinit() *)

\* The nodes of the first table, and a numbering of them.
FirstNodes == Way(0) \cup Way(TRAMPOLINE) \cup {<<3, 0>>, Leaf(0)}
Numbering ==
  [n \in FirstNodes |-> IF n = <<3, 0>> THEN 2 ELSE IF n = <<2, 0>> THEN 3
                        ELSE IF n = <<1, 0>> THEN 4 ELSE IF n = <<0, 0>> THEN 5
                        ELSE IF n[1] = 2 THEN 6 ELSE 7]
Numbered(f) == f \in [FirstNodes -> 2..7] /\ \A m, n \in FirstNodes : f[m] = f[n] => m = n

LEMMA FirstWays ==
  ASSUME MemoryAssumption
  PROVE  \E x, y \in Nat \ {0} :
           FirstNodes = {<<1, 0>>, <<2, 0>>, <<1, x>>, <<2, y>>, <<3, 0>>, <<0, 0>>}
<1>1. ENTRIES \in Nat /\ ENTRIES >= 2
  BY DEF MemoryAssumption
<1> DEFINE e == ENTRIES
           s == ENTRIES * ENTRIES
<1>2. s \in Nat /\ s >= 4
  <2>1. 2 * e <= e * e
    BY <1>1, Monotone
  <2>2. QED
    BY <1>1, <2>1
<1>3. TRAMPOLINE = (s - 1) * e + (e - 1)
  BY <1>1 DEF TRAMPOLINE, MAXVA
<1>4. TRAMPOLINE = (e - 1) * s + (s - 1)
  BY <1>1 DEF TRAMPOLINE, MAXVA
<1> HIDE DEF e, s
<1>5. e \in Nat \ {0} /\ e - 1 \in Nat \ {0} /\ e - 1 < e
  BY <1>1 DEF e
<1>6. s \in Nat \ {0} /\ s - 1 \in Nat \ {0} /\ s - 1 < s
  BY <1>2
<1>7. TRAMPOLINE \div e = s - 1
  <2>1. ((s - 1) * e + (e - 1)) \div e = s - 1
    <3>1. s - 1 \in Int /\ e - 1 \in Nat
      BY <1>5, <1>6
    <3>2. QED
      BY <1>5, <3>1, QuotientIs, Zenon
  <2>2. QED
    BY <1>3, <2>1, Zenon
<1>8. TRAMPOLINE \div s = e - 1
  <2>1. ((e - 1) * s + (s - 1)) \div s = e - 1
    <3>1. e - 1 \in Int /\ s - 1 \in Nat
      BY <1>5, <1>6
    <3>2. QED
      BY <1>6, <3>1, QuotientIs, Zenon
  <2>2. QED
    BY <1>4, <2>1, Zenon
<1>9. 0 \div e = 0 /\ 0 \div s = 0
  <2>1. 0 = 0 * e + 0 /\ 0 = 0 * s + 0
    BY <1>5, <1>6
  <2>2. QED
    BY <1>5, <1>6, <2>1, QuotientIs
<1>10. Way(0) = {<<1, 0>>, <<2, 0>>} /\ Way(TRAMPOLINE) = {<<1, s - 1>>, <<2, e - 1>>}
  BY <1>7, <1>8, <1>9 DEF Way, e, s
<1>11. FirstNodes = {<<1, 0>>, <<2, 0>>, <<1, s - 1>>, <<2, e - 1>>, <<3, 0>>, <<0, 0>>}
  BY <1>10 DEF FirstNodes, Leaf
<1>12. QED
  BY <1>5, <1>6, <1>11

LEMMA NumberingIs ==
  ASSUME MemoryAssumption
  PROVE  Numbered(Numbering) /\ Numbering \in Surjection(FirstNodes, 2..7)
<1>1. PICK x, y \in Nat \ {0} :
        FirstNodes = {<<1, 0>>, <<2, 0>>, <<1, x>>, <<2, y>>, <<3, 0>>, <<0, 0>>}
  BY FirstWays
<1>2. Numbering \in [FirstNodes -> 2..7]
  BY DEF Numbering
<1>3. \A m, n \in FirstNodes : Numbering[m] = Numbering[n] => m = n
  BY <1>1 DEF Numbering
<1>4. /\ Numbering[<<3, 0>>] = 2 /\ Numbering[<<2, 0>>] = 3 /\ Numbering[<<1, 0>>] = 4
      /\ Numbering[<<0, 0>>] = 5 /\ Numbering[<<2, y>>] = 6 /\ Numbering[<<1, x>>] = 7
  BY <1>1 DEF Numbering
<1>5. \A i \in 2..7 : i = 2 \/ i = 3 \/ i = 4 \/ i = 5 \/ i = 6 \/ i = 7
  OBVIOUS
<1>6. \A i \in 2..7 : \E n \in FirstNodes : Numbering[n] = i
  <2>1. {<<1, 0>>, <<2, 0>>, <<1, x>>, <<2, y>>, <<3, 0>>, <<0, 0>>} \subseteq FirstNodes
    BY <1>1
  <2>2. QED
    BY <1>4, <1>5, <2>1
<1>7. Numbering \in Surjection(FirstNodes, 2..7)
  BY <1>2, <1>6 DEF Surjection
<1>8. QED
  BY <1>2, <1>3, <1>7 DEF Numbered

\* Every numbering uses all six pages.
LEMMA NumberedIsOnto ==
  ASSUME MemoryAssumption, NEW f, Numbered(f)
  PROVE  \A i \in 2..7 : \E n \in FirstNodes : f[n] = i
<1>1. IsFiniteSet(2..7)
  <2>1. 2 \in Int /\ 7 \in Int
    OBVIOUS
  <2>2. QED
    BY <2>1, FS_Interval
<1>2. Numbering \in Injection(FirstNodes, 2..7)
  BY NumberingIs DEF Numbered, Injection, IsInjective
<1>3. Cardinality(FirstNodes) = Cardinality(2..7)
  BY <1>1, <1>2, NumberingIs, FS_Injection
<1>4. f \in Injection(FirstNodes, 2..7)
  BY DEF Numbered, Injection, IsInjective
<1>5. f \in Surjection(FirstNodes, 2..7)
  BY <1>1, <1>3, <1>4, FS_Injection
<1>6. QED
  BY <1>5 DEF Surjection

LEMMA FirstTableIs ==
  ASSUME MemoryAssumption
  PROVE  /\ Nodes(FirstTable) /\ Whole(FirstTable, 1, 1)
         /\ \E f : /\ Numbered(f)
                   /\ DOMAIN FirstTable \ KernelLeaves = FirstNodes
                   /\ \A n \in FirstNodes : FirstTable[n] = f[n]
<1>1. PICK f : f = CHOOSE g \in [FirstNodes -> 2..7] : \A m, n \in FirstNodes : g[m] = g[n] => m = n
  OBVIOUS
<1>2. FirstTable = With(With(f, Leaf(TRAMPOLINE), Trampoline), Leaf(TRAPFRAME), 1)
  BY <1>1 DEF FirstTable, FirstNodes
<1>3. Numbered(f)
  <2>1. \E g \in [FirstNodes -> 2..7] : \A m, n \in FirstNodes : g[m] = g[n] => m = n
    BY NumberingIs DEF Numbered
  <2>2. QED
    BY <1>1, <2>1 DEF Numbered
<1>4. PICK x, y \in Nat \ {0} :
        FirstNodes = {<<1, 0>>, <<2, 0>>, <<1, x>>, <<2, y>>, <<3, 0>>, <<0, 0>>}
  BY FirstWays
<1>5. TRAPFRAME \in Nat /\ TRAMPOLINE = TRAPFRAME + 1 /\ TRAPFRAME >= 6
  BY AddressSpace
<1>6. DOMAIN f = FirstNodes
  BY <1>3 DEF Numbered
<1>7. DOMAIN FirstTable = FirstNodes \cup KernelLeaves
  BY <1>2, <1>6 DEF With, KernelLeaves
<1>8. FirstNodes \cap KernelLeaves = {}
  BY <1>4, <1>5 DEF KernelLeaves, Leaf
<1>9. FirstTable[Leaf(TRAPFRAME)] = 1
  BY <1>2 DEF With
<1>10. \A n \in FirstNodes : FirstTable[n] = f[n]
  <2>1. \A n \in FirstNodes : n # Leaf(TRAPFRAME) /\ n # Leaf(TRAMPOLINE)
    BY <1>8 DEF KernelLeaves
  <2>2. QED
    BY <1>2, <1>6, <2>1 DEF With
<1>11. UserLeaves(FirstTable) = {0}
  <2>1. \A v \in 0..(TRAPFRAME - 1) : Leaf(v) \notin KernelLeaves
    BY <1>5 DEF KernelLeaves, Leaf
  <2>2. \A v \in 0..(TRAPFRAME - 1) : Leaf(v) \in FirstNodes <=> v = 0
    BY <1>4 DEF Leaf
  <2>3. QED
    BY <1>5, <1>7, <2>1, <2>2 DEF UserLeaves
<1>12. 0..(1 - 1) = {0}
  OBVIOUS
<1>13. Whole(FirstTable, 1, 1)
  BY <1>7, <1>9, <1>11, <1>12 DEF Whole, NoPage
<1>14. Nodes(FirstTable)
  BY <1>4, <1>5, <1>7 DEF Nodes, KernelLeaves, Leaf
<1>15. DOMAIN FirstTable \ KernelLeaves = FirstNodes
  BY <1>7, <1>8
<1>16. QED
  BY <1>3, <1>10, <1>13, <1>14, <1>15

\* The pages of the first process.
LEMMA FirstAccount ==
  ASSUME MemoryAssumption, Init
  PROVE  Accounts(HeldBy(trapframe, mem, table), pages \ free)
<1>1. PICK f : /\ Numbered(f)
               /\ DOMAIN FirstTable \ KernelLeaves = FirstNodes
               /\ \A n \in FirstNodes : FirstTable[n] = f[n]
  BY FirstTableIs
<1>2. 1 \in Processes /\ 1 \in Tables
  BY DEF MemoryAssumption, Processes, Tables
<1>3. table[1] = FirstTable /\ \A s \in Tables \ {1} : table[s] = NoTable
  BY <1>2 DEF Init
<1>4. trapframe[1] = 1 /\ \A p \in Processes \ {1} : trapframe[p] = NoPage
  BY <1>2 DEF Init
<1>5. \A p \in Processes : mem[p] = NoPage
  BY DEF Init
<1>6. pages \ free = 1..7
  <2>1. PICK n \in Sizes : pages = 1..n
    BY DEF Init
  <2>2. n \in Nat /\ n >= 7
    BY DEF MemoryAssumption
  <2>3. QED
    BY <2>1, <2>2 DEF Init
<1> DEFINE G == {<<<<1, InTrapframe>>, 1>>} \cup {<<<<1, n>>, f[n]>> : n \in FirstNodes}
<1>7. HeldBy(trapframe, mem, table) = G
  <2>1. ASSUME NEW s, NEW n, NEW x
        PROVE  <<<<s, n>>, x>> \in HeldBy(trapframe, mem, table) <=> <<<<s, n>>, x>> \in G
    <3>1. \A r \in Tables \ {1} : DOMAIN table[r] = {}
      BY <1>3, NoTableIs
    <3>2. <<<<s, n>>, x>> \in HeldBy(trapframe, mem, table)
            <=> \/ s = 1 /\ n = InTrapframe /\ x = 1
                \/ s = 1 /\ n \in FirstNodes /\ x = f[n]
      BY <1>1, <1>2, <1>3, <1>4, <1>5, <3>1, HeldMember DEF NoPage
    <3>3. QED
      BY <3>2
  <2>2. \A g \in G : g = <<<<g[1][1], g[1][2]>>, g[2]>>
    OBVIOUS
  <2> HIDE DEF G
  <2>3. QED
    BY <2>1, <2>2, HeldEqual
<1>8. Once(G)
  <2>1. \A n \in FirstNodes : f[n] \in 2..7 /\ f[n] # 1
    BY <1>1 DEF Numbered
  <2>2. QED
    BY <1>1, <2>1 DEF Once, Numbered
<1>9. PagesOfAll(G) = 1..7
  <2>1. \A h \in G : h[2] \in 1..7
    <3>1. \A n \in FirstNodes : f[n] \in 2..7
      BY <1>1 DEF Numbered
    <3>2. QED
      BY <3>1
  <2>2. \A i \in 1..7 : \E h \in G : h[2] = i
    <3>1. CASE TRUE
      <4>1. \A i \in 2..7 : \E n \in FirstNodes : f[n] = i
        BY <1>1, NumberedIsOnto
      <4>2. \A n \in FirstNodes : <<<<1, n>>, f[n]>> \in G /\ <<<<1, n>>, f[n]>>[2] = f[n]
        OBVIOUS
      <4>3. <<<<1, InTrapframe>>, 1>> \in G /\ <<<<1, InTrapframe>>, 1>>[2] = 1
        OBVIOUS
      <4>4. \A i \in 1..7 : i = 1 \/ i \in 2..7
        OBVIOUS
      <4> HIDE DEF G
      <4>5. QED
        BY <4>1, <4>2, <4>3, <4>4
    <3>2. QED
      BY <3>1
  <2> HIDE DEF G
  <2>3. QED
    BY <2>1, <2>2 DEF PagesOfAll
<1>10. QED
  BY <1>6, <1>7, <1>8, <1>9 DEF Accounts

LEMMA InitKeeps ==
  ASSUME MemoryAssumption, Init
  PROVE  MemoryInv
<1>1. 1 \in Processes /\ Processes \subseteq Tables
  BY TablesAre DEF MemoryAssumption, Processes
<1>2. Typed
  <2>1. PICK n \in Sizes : pages = 1..n
    BY DEF Init
  <2>2. n \in Nat /\ n >= 7
    BY DEF MemoryAssumption
  <2>3. << >> \in Seq(Nat \cup {Stack})
    OBVIOUS
  <2>4. free \in SUBSET pages
    BY DEF Init
  <2>5. state \in [Processes -> States] /\ pc \in [Processes -> Positions]
    BY DEF Init, States, Positions
  <2>6. trapframe \in [Processes -> pages \cup {NoPage}] /\ mem \in [Processes -> pages \cup {NoPage}]
    BY <2>1, <2>2 DEF Init
  <2>7. sz \in [Tables -> Nat] /\ DOMAIN table = Tables
    BY DEF Init, MemoryAssumption
  <2>8. at \in [Processes -> Tables] /\ a \in [Processes -> Nat] /\ goal \in [Processes -> Nat]
    BY <1>1 DEF Init
  <2>9. segs \in [Processes -> Seq(Nat \cup {Stack})]
    BY <2>3 DEF Init
  <2>10. QED
    BY <2>1, <2>4, <2>5, <2>6, <2>7, <2>8, <2>9 DEF Typed
<1>3. \A p \in Processes : at[p] = p /\ pc[p] = "user" /\ mem[p] = NoPage /\ a[p] = 0
  BY DEF Init
<1>4. Apart
  BY <1>3 DEF Apart
<1>5. NodesIn(table)
  <2>1. Nodes(FirstTable) /\ Nodes(NoTable)
    BY FirstTableIs, NoTableIs DEF Nodes
  <2>2. QED
    BY <2>1 DEF Init, NodesIn
<1>6. ASSUME NEW p \in Processes PROVE Where(p) /\ Own(p) /\ Built(p) /\ Counted(p)
  <2>1. Where(p)
    BY <1>3 DEF Where
  <2>2. Counted(p)
    BY <1>3 DEF Counted, Setting, Looping
  <2>3. Built(p)
    <3>1. Local(p) \in Tables \ Processes /\ Local(p) # 1
      BY <1>1, TablesAre
    <3>2. table[Local(p)] = NoTable /\ sz[Local(p)] = 0
      BY <3>1 DEF Init
    <3>3. QED
      BY <1>3, <3>2 DEF Built
  <2>4. Own(p)
    <3>1. CASE p = 1
      <4>1. state[1] = "running" /\ table[1] = FirstTable /\ trapframe[1] = 1 /\ sz[1] = PGSIZE
        BY <1>1 DEF Init
      <4>2. QED
        BY <1>3, <3>1, <4>1, FirstTableIs, PagesOne DEF Own, Looping
    <3>2. CASE p # 1
      <4>1. state[p] = "unused" /\ table[p] = NoTable /\ trapframe[p] = NoPage /\ sz[p] = 0
        BY <1>1, <3>2 DEF Init
      <4>2. QED
        BY <4>1 DEF Own
    <3>3. QED
      BY <3>1, <3>2
  <2>5. QED
    BY <2>1, <2>2, <2>3, <2>4
<1>7. QED
  BY <1>2, <1>4, <1>5, <1>6, FirstAccount DEF MemoryInv

-----------------------------------------------------------------------------
(* The theorems *)

LEMMA NextKeeps ==
  ASSUME MemoryAssumption, MemoryInv, [Next]_vars
  PROVE  MemoryInv'
<1>1. CASE UNCHANGED vars
  <2>1. Typed' /\ Apart' /\ NodesIn(table)' /\ Accounts(HeldBy(trapframe, mem, table), pages \ free)'
    BY <1>1 DEF vars, MemoryInv, Typed, Apart
  <2>2. ASSUME NEW p \in Processes PROVE (Where(p) /\ Own(p) /\ Built(p) /\ Counted(p))'
    <3>1. Where(p) /\ Own(p) /\ Built(p) /\ Counted(p)
      BY DEF MemoryInv
    <3>2. Where(p)' /\ Own(p)' /\ Counted(p)'
      BY <1>1, <3>1 DEF vars, Where, Own, Counted
    <3>3. Owner(p)' = Owner(p)
      BY <1>1 DEF vars, Owner
    <3>4. Built(p)'
      BY <1>1, <3>1, <3>3 DEF vars, Built
    <3>5. QED
      BY <3>2, <3>4
  <2>3. QED
    BY <2>1, <2>2 DEF MemoryInv
<1>2. ASSUME NEW p \in Processes, Step(p) PROVE MemoryInv'
  <2>1. CASE Fork(p) \/ Exec(p) \/ Grow(p) \/ Shrink(p) \/ Exit(p) \/ Wait(p)
    BY <2>1, ForkKeeps, ExecKeeps, GrowKeeps, ShrinkKeeps, ExitKeeps, WaitKeeps
  <2>2. CASE TakeTrapframe(p) \/ Root(p) \/ Walk(p) \/ Alloc(p)
    BY <2>2, TakeTrapframeKeeps, RootKeeps, WalkKeeps, AllocKeeps
  <2>3. CASE SetEntry(p)
    <3>1. pc[p] \in Mapping
      BY <2>3 DEF SetEntry
    <3>2. QED
      BY <2>3, <3>1, SetTrampolineKeeps, SetTrapframeKeeps, SetPageKeeps DEF Mapping
  <2>4. CASE OutOfMemory(p) \/ BadProgram(p)
    BY <2>4, OutOfMemoryKeeps, BadProgramKeeps
  <2>5. CASE SbrkReturns(p) \/ ForkReturns(p) \/ Loaded(p) \/ Commit(p)
    BY <2>5, SbrkReturnsKeeps, ForkReturnsKeeps, LoadedKeeps, CommitKeeps
  <2>6. QED
    BY <1>2, <2>1, <2>2, <2>3, <2>4, <2>5 DEF Step
<1>3. QED
  BY <1>1, <1>2 DEF Next

LEMMA InvAccounts ==
  ASSUME MemoryAssumption, MemoryInv
  PROVE  PagesAccounted
<1>1. Held = HeldBy(trapframe, mem, table)
  BY DEF Held, HeldBy
<1>2. Accounts(Held, pages \ free)
  BY <1>1 DEF MemoryInv
<1>3. {h[2] : h \in Held} = pages \ free
  BY <1>2 DEF Accounts, PagesOfAll
<1>4. Cardinality(Held) = Cardinality(pages \ free)
  <2> DEFINE f == [h \in Held |-> h[2]]
  <2>1. IsFiniteSet(pages \ free)
    <3>1. PICK n \in Nat : pages = 1..n
      BY PagesAre DEF MemoryInv
    <3>2. IsFiniteSet(pages)
      BY <3>1, FS_Interval
    <3>3. QED
      BY <3>2, FS_Subset
  <2>2. \A h \in Held : f[h] = h[2] /\ f[h] \in pages \ free
    BY <1>3
  <2>3. f \in [Held -> pages \ free]
    BY <2>2
  <2>4. \A g, h \in Held : f[g] = f[h] => g = h
    BY <1>2, <2>2 DEF Accounts, Once
  <2>5. \A x \in pages \ free : \E h \in Held : f[h] = x
    BY <1>3, <2>2
  <2> HIDE DEF f
  <2>6. f \in Injection(Held, pages \ free)
    BY <2>3, <2>4 DEF Injection, IsInjective
  <2>7. f \in Surjection(Held, pages \ free)
    BY <2>3, <2>5 DEF Surjection
  <2>8. QED
    BY <2>1, <2>6, <2>7, FS_Injection
<1>5. ASSUME NEW p \in Processes
      PROVE  /\ pc[p] # "panic"
             /\ pc[p] = "user" =>
                  table[Local(p)] = NoTable /\ sz[Local(p)] = 0 /\ mem[p] = NoPage
             /\ state[p] = "unused" => table[p] = NoTable /\ trapframe[p] = NoPage /\ sz[p] = 0
             /\ pc[p] = "user" /\ state[p] \in {"running", "zombie"} =>
                  CanFree(table[p], sz[p]) /\ table[p][Leaf(TRAPFRAME)] = trapframe[p]
  <2>1. pc[p] # "panic"
    <3>1. pc[p] \in Positions
      BY DEF MemoryInv, Typed
    <3>2. QED
      BY <3>1 DEF Positions, Setting, Looping
  <2>2. state[p] = "unused" => table[p] = NoTable /\ trapframe[p] = NoPage /\ sz[p] = 0
    BY DEF MemoryInv, Own
  <2>3. QED
    BY <2>1, <2>2, InUser DEF CanFree, Whole
<1>6. QED
  BY <1>3, <1>4, <1>5 DEF PagesAccounted

\* Every page is free or in exactly one place, whatever call runs out of
\* memory, wherever it does: the free list of kalloc.c and what the calls of
\* proc.c, exec.c and vm.c hold never disagree, and no uvmunmap() panics.
THEOREM PagesCorrect == MemoryAssumption => (Spec => []PagesAccounted)
<1>1. SUFFICES ASSUME MemoryAssumption PROVE Spec => []PagesAccounted
  OBVIOUS
<1>2. Init => MemoryInv
  BY <1>1, InitKeeps
<1>3. MemoryInv /\ [Next]_vars => MemoryInv'
  BY <1>1, NextKeeps
<1>4. MemoryInv => PagesAccounted
  BY <1>1, InvAccounts
<1>5. QED
  BY <1>2, <1>3, <1>4, PTL DEF Spec

=============================================================================
