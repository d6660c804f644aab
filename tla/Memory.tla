------------------------------- MODULE Memory -------------------------------
(***************************************************************************)
(* The memory of processes: the free pages (kernel/kalloc.c), page tables  *)
(* of three levels (kernel/vm.c), and fork(), exec(), sbrk(), exit() and   *)
(* wait() (kernel/proc.c, kernel/exec.c), which build tables and take them *)
(* apart, and may find no page left at any moment.                         *)
(*                                                                         *)
(* A step takes at most one page: what is between two calls of kalloc() is *)
(* nobody else's matter.  What is given back is given back in one step.    *)
(* A page table is a function: a node of level 3, 2 or 1 is a page of the  *)
(* table itself, a node of level 0 an entry for a page of memory.          *)
(***************************************************************************)
EXTENDS Integers, Sequences, FiniteSets

CONSTANTS
  NPROC,        \* processes, the first is init
  ENTRIES,      \* entries in a page of a page table (512 in the code)
  PGSIZE,       \* bytes in a page
  Sizes,        \* how many pages the machine may have
  Programs,     \* for exec(): the sequences of the ends of their segments
  Increments,   \* for sbrk()
  MaxCalls      \* bound on the calls

Processes == 1..NPROC
MAXVA == ENTRIES * ENTRIES * ENTRIES
TRAMPOLINE == MAXVA - 1
TRAPFRAME == MAXVA - 2
PagesOf(n) == (n + PGSIZE - 1) \div PGSIZE     \* PGROUNDUP(n) / PGSIZE

NoPage == 0
Trampoline == -1            \* the page of the trampoline is not kalloc()'s
Local(p) == NPROC + p       \* the page table that exec() builds
Tables == 1..(2 * NPROC)

\* A page table has more entries than the machine has pages (2^27 for 128 MB),
\* and there are enough pages for the first process.
MemoryAssumption ==
  /\ NPROC \in Nat \ {0} /\ PGSIZE \in Nat \ {0} /\ ENTRIES \in Nat \ {0, 1}
  /\ \A n \in Sizes : n \in Nat /\ n >= 7 /\ n < TRAPFRAME
  /\ \A g \in Programs : g \in Seq(Nat)
  /\ Increments \subseteq Int

VARIABLES
  pages,      \* all pages
  free,       \* kmem.freelist
  state,      \* p->state, as far as memory goes
  trapframe,  \* p->trapframe
  table,      \* p->pagetable, and pagetable of exec()
  sz,         \* p->sz, and sz of exec()
  pc,         \* where each process is
  at,         \* the table that its call works on: its own, its child's, exec()'s
  a,          \* loop variable of uvmalloc() and uvmcopy(), in pages
  goal,       \* their newsz, or sz
  mem,        \* the page they have taken
  segs,       \* the segments that exec() has still to load
  calls       \* bookkeeping: the calls made

vars == <<pages, free, state, trapframe, table, sz, pc, at, a, goal, mem, segs, calls>>
loop == <<a, goal, mem, segs>>

Leaf(v) == <<0, v>>
KernelLeaves == {Leaf(TRAMPOLINE), Leaf(TRAPFRAME)}
UserLeaves(t) == {v \in 0..(TRAPFRAME - 1) : Leaf(v) \in DOMAIN t}
NoTable == [n \in {} |-> NoPage]
With(t, node, page) == [n \in DOMAIN t \cup {node} |-> IF n = node THEN page ELSE t[n]]
Without(t, S) == [n \in DOMAIN t \ S |-> t[n]]
Lowest(S) == CHOOSE x \in S : \A y \in S : x <= y

\* walk(): the pages of the table on the way to v; the next one to allocate.
Way(v) == {<<1, v \div ENTRIES>>, <<2, v \div (ENTRIES * ENTRIES)>>}
Missing(t, v) == Way(v) \ DOMAIN t
NextNode(S) == CHOOSE n \in S : \A m \in S : m[1] <= n[1]

\* userinit(): a process with one page.
FirstTable ==
  LET nodes == Way(0) \cup Way(TRAMPOLINE) \cup {<<3, 0>>, Leaf(0)}
      number == CHOOSE f \in [nodes -> 2..7] : \A m, n \in nodes : f[m] = f[n] => m = n
  IN With(With(number, Leaf(TRAMPOLINE), Trampoline), Leaf(TRAPFRAME), 1)

Init ==
  /\ \E n \in Sizes : pages = 1..n
  /\ free = pages \ (1..7)
  /\ state = [p \in Processes |-> IF p = 1 THEN "running" ELSE "unused"]
  /\ trapframe = [p \in Processes |-> IF p = 1 THEN 1 ELSE NoPage]
  /\ table = [s \in Tables |-> IF s = 1 THEN FirstTable ELSE NoTable]
  /\ sz = [s \in Tables |-> IF s = 1 THEN PGSIZE ELSE 0]
  /\ pc = [p \in Processes |-> "user"]
  /\ at = [p \in Processes |-> p]
  /\ a = [p \in Processes |-> 0] /\ goal = [p \in Processes |-> 0]
  /\ mem = [p \in Processes |-> NoPage]
  /\ segs = [p \in Processes |-> << >>]
  /\ calls = 0

Goto(p, step) == pc' = [pc EXCEPT ![p] = step]

Calls(p) ==
  /\ pc[p] = "user" /\ state[p] = "running"
  /\ calls < MaxCalls /\ calls' = calls + 1
  /\ UNCHANGED pages
Inside == UNCHANGED <<pages, calls>>

\* The call returns.
Return(p) ==
  /\ Goto(p, "user")
  /\ at' = [at EXCEPT ![p] = p]
  /\ a' = [a EXCEPT ![p] = 0] /\ goal' = [goal EXCEPT ![p] = 0]
  /\ mem' = [mem EXCEPT ![p] = NoPage]
  /\ segs' = [segs EXCEPT ![p] = << >>]

-----------------------------------------------------------------------------
(* Giving back *)

\* proc_freepagetable(t, n): the kernel's two entries, n bytes of memory and
\* the table.  It panics for memory that is not there and for more memory.
CanFree(t, n) == UserLeaves(t) = 0..(PagesOf(n) - 1)
PagesIn(t) == {t[n] : n \in DOMAIN t \ KernelLeaves}

Panic(p) ==
  /\ Goto(p, "panic")
  /\ UNCHANGED <<free, state, trapframe, table, sz, at, loop>>

\* uvmalloc() and uvmcopy() take back what they have mapped.  (Mutant: they
\* do not.)
Undone_Nothing(p) == {}
Undone(p) == {Leaf(v) : v \in PagesOf(sz[at[p]])..(a[p] - 1)}

\* A call fails.  sbrk() keeps the table; fork() has freeproc() for the
\* child, exec() frees its table.
Fail(p) ==
  LET s == at[p]
      t == Without(table[s], Undone(p))
      back == {table[s][n] : n \in Undone(p)} \cup ({mem[p]} \ {NoPage})
      frame == IF s \in Processes THEN {trapframe[s]} ELSE {}
  IN
  IF s = p
  THEN /\ free' = free \cup back
       /\ table' = [table EXCEPT ![s] = t]
       /\ Return(p)
       /\ UNCHANGED <<state, trapframe, sz>>
  ELSE IF ~CanFree(t, sz[s]) THEN Panic(p)
  ELSE
     /\ free' = free \cup back \cup PagesIn(t) \cup frame
     /\ table' = [table EXCEPT ![s] = NoTable]
     /\ sz' = [sz EXCEPT ![s] = 0]
     /\ trapframe' = [q \in Processes |-> IF q = s THEN NoPage ELSE trapframe[q]]
     /\ state' = [q \in Processes |-> IF q = s THEN "unused" ELSE state[q]]
     /\ Return(p)

-----------------------------------------------------------------------------
(* The calls *)

Fork(p) ==
  /\ Calls(p)
  /\ \E np \in Processes :
       /\ state[np] = "unused" /\ \A q \in 1..(np - 1) : state[q] # "unused"
       /\ state' = [state EXCEPT ![np] = "used"]
       /\ at' = [at EXCEPT ![p] = np]
  /\ Goto(p, "trapframe")
  /\ UNCHANGED <<free, trapframe, table, sz, loop>>

Stack == -1
Exec(p) ==
  /\ Calls(p)
  /\ at' = [at EXCEPT ![p] = Local(p)]
  /\ \E g \in Programs : segs' = [segs EXCEPT ![p] = g \o <<Stack>>]
  /\ Goto(p, "root")
  /\ UNCHANGED <<free, state, trapframe, table, sz, a, goal, mem>>

\* growproc(n): uvmalloc() follows, or uvmdealloc(), for which a size below
\* zero is a huge one.
Grow(p) ==
  /\ Calls(p)
  /\ \E n \in Increments : n > 0 /\ goal' = [goal EXCEPT ![p] = sz[p] + n]
  /\ a' = [a EXCEPT ![p] = PagesOf(sz[p])]
  /\ Goto(p, "alloc")
  /\ UNCHANGED <<free, state, trapframe, table, sz, at, mem, segs>>

Shrink(p) ==
  /\ Calls(p)
  /\ \E n \in Increments :
       LET newsz == IF sz[p] + n >= 0 THEN sz[p] + n ELSE sz[p]
           gone == {Leaf(v) : v \in PagesOf(newsz)..(PagesOf(sz[p]) - 1)}
       IN
       /\ n < 0
       /\ IF ~(gone \subseteq DOMAIN table[p]) THEN Panic(p)
          ELSE /\ free' = free \cup {table[p][m] : m \in gone}
               /\ table' = [table EXCEPT ![p] = Without(@, gone)]
               /\ sz' = [sz EXCEPT ![p] = newsz]
               /\ UNCHANGED <<state, trapframe, pc, at, loop>>

\* init does not exit.
Exit(p) ==
  /\ Calls(p) /\ p # 1
  /\ state' = [state EXCEPT ![p] = "zombie"]
  /\ UNCHANGED <<free, trapframe, table, sz, pc, at, loop>>

\* freeproc(p), in the wait() of its parent.
Wait(p) ==
  /\ state[p] = "zombie" /\ pc[p] = "user"
  /\ IF ~CanFree(table[p], sz[p]) THEN Panic(p)
     ELSE
        /\ free' = free \cup PagesIn(table[p]) \cup {trapframe[p]}
        /\ trapframe' = [trapframe EXCEPT ![p] = NoPage]
        /\ table' = [table EXCEPT ![p] = NoTable]
        /\ sz' = [sz EXCEPT ![p] = 0]
        /\ state' = [state EXCEPT ![p] = "unused"]
        /\ UNCHANGED <<pc, at, loop>>
  /\ Inside

-----------------------------------------------------------------------------
(* allocproc() and proc_pagetable() *)

TakeTrapframe(p) ==
  /\ pc[p] = "trapframe"
  /\ IF free = {}
     THEN /\ state' = [state EXCEPT ![at[p]] = "unused"]
          /\ Return(p)
          /\ UNCHANGED <<free, trapframe>>
     ELSE /\ free' = free \ {Lowest(free)}
          /\ trapframe' = [trapframe EXCEPT ![at[p]] = Lowest(free)]
          /\ Goto(p, "root")
          /\ UNCHANGED <<state, at, loop>>
  /\ Inside /\ UNCHANGED <<table, sz>>

\* uvmcreate().
Root(p) ==
  /\ pc[p] = "root" /\ free # {}
  /\ free' = free \ {Lowest(free)}
  /\ table' = [table EXCEPT ![at[p]] = With(@, <<3, 0>>, Lowest(free))]
  /\ Goto(p, "map_trampoline")
  /\ Inside /\ UNCHANGED <<state, trapframe, sz, at, loop>>

\* mappages() of one page: what, and where.
Mapping == {"map_trampoline", "map_trapframe", "map"}
Va(p) == CASE pc[p] = "map_trampoline" -> TRAMPOLINE [] pc[p] = "map_trapframe" -> TRAPFRAME
           [] pc[p] = "map" -> a[p]
Owner(p) == IF at[p] \in Processes THEN at[p] ELSE p
What(p) == CASE pc[p] = "map_trampoline" -> Trampoline
             [] pc[p] = "map_trapframe" -> trapframe[Owner(p)]
             [] pc[p] = "map" -> mem[p]

\* walk() adds a page to the table.
Walk(p) ==
  LET missing == Missing(table[at[p]], Va(p)) IN
  /\ pc[p] \in Mapping /\ missing # {} /\ free # {}
  /\ free' = free \ {Lowest(free)}
  /\ table' = [table EXCEPT ![at[p]] = With(@, NextNode(missing), Lowest(free))]
  /\ Inside /\ UNCHANGED <<state, trapframe, sz, pc, at, loop>>

\* Where the loop of fork() and of exec() goes to.
NextGoal(p, n) == IF Head(segs[p]) = Stack THEN (PagesOf(n) + 2) * PGSIZE ELSE Head(segs[p])

SetEntry(p) ==
  LET s == at[p]
      t == table[s]
  IN
  /\ pc[p] \in Mapping /\ Missing(t, Va(p)) = {}
  /\ IF Leaf(Va(p)) \in DOMAIN t THEN Panic(p)
     ELSE
        /\ table' = [table EXCEPT ![s] = With(t, Leaf(Va(p)), What(p))]
        /\ Goto(p, IF pc[p] = "map_trampoline" THEN "map_trapframe" ELSE "alloc")
        /\ a' = IF pc[p] = "map" THEN [a EXCEPT ![p] = @ + 1] ELSE a
        /\ goal' = IF pc[p] = "map_trapframe"
                   THEN [goal EXCEPT ![p] = IF s \in Processes THEN sz[p] ELSE NextGoal(p, 0)]
                   ELSE goal
        /\ mem' = [mem EXCEPT ![p] = NoPage]
        /\ UNCHANGED <<free, state, trapframe, sz, at, segs>>
  /\ Inside

-----------------------------------------------------------------------------
(* The loop of uvmalloc() and of uvmcopy() *)

More(p) == a[p] * PGSIZE < goal[p]

Alloc(p) ==
  /\ pc[p] = "alloc" /\ More(p) /\ free # {}
  /\ free' = free \ {Lowest(free)}
  /\ mem' = [mem EXCEPT ![p] = Lowest(free)]
  /\ Goto(p, "map")
  /\ Inside /\ UNCHANGED <<state, trapframe, table, sz, at, a, goal, segs>>

\* kalloc() fails, or exec() finds the program, or its arguments, bad.
OutOfMemory(p) ==
  /\ free = {}
  /\ \/ pc[p] = "root"
     \/ pc[p] \in Mapping /\ Missing(table[at[p]], Va(p)) # {}
     \/ pc[p] = "alloc" /\ More(p)
  /\ Fail(p) /\ Inside

BadProgram(p) ==
  /\ at[p] \notin Processes
  /\ pc[p] = "commit" \/ (pc[p] = "alloc" /\ a[p] = PagesOf(sz[at[p]]))
  /\ Fail(p) /\ Inside

\* uvmalloc() gives the larger size.
Grown(p) == IF goal[p] < sz[at[p]] THEN sz[at[p]] ELSE goal[p]

SbrkReturns(p) ==
  /\ pc[p] = "alloc" /\ ~More(p) /\ at[p] = p
  /\ sz' = [sz EXCEPT ![p] = goal[p]]
  /\ Return(p)
  /\ Inside /\ UNCHANGED <<free, state, trapframe, table>>

ForkReturns(p) ==
  /\ pc[p] = "alloc" /\ ~More(p) /\ at[p] \in Processes \ {p}
  /\ sz' = [sz EXCEPT ![at[p]] = sz[p]]
  /\ state' = [state EXCEPT ![at[p]] = "running"]
  /\ Return(p)
  /\ Inside /\ UNCHANGED <<free, trapframe, table>>

\* exec() has a segment, or the stack; a size of 0 counts as a failure.
Loaded(p) ==
  /\ pc[p] = "alloc" /\ ~More(p) /\ at[p] \notin Processes
  /\ \/ Grown(p) = 0 /\ Fail(p)
     \/ /\ Grown(p) > 0
        /\ sz' = [sz EXCEPT ![at[p]] = Grown(p)]
        /\ a' = [a EXCEPT ![p] = PagesOf(Grown(p))]
        /\ segs' = [segs EXCEPT ![p] = Tail(@)]
        /\ IF Len(segs[p]) = 1
           THEN Goto(p, "commit") /\ UNCHANGED goal
           ELSE /\ goal' = [goal EXCEPT ![p] =
                     IF segs[p][2] = Stack THEN (PagesOf(Grown(p)) + 2) * PGSIZE ELSE segs[p][2]]
                /\ UNCHANGED pc
        /\ UNCHANGED <<free, state, trapframe, table, at, mem>>
  /\ Inside

\* exec() commits to the new image and frees the old one.  (Mutant: with
\* the size of the new one.)
OldSize_New(p) == sz[Local(p)]
OldSize(p) == sz[p]

Commit(p) ==
  LET s == Local(p) IN
  /\ pc[p] = "commit"
  /\ IF ~CanFree(table[p], OldSize(p)) THEN Panic(p)
     ELSE
        /\ free' = free \cup PagesIn(table[p])
        /\ table' = [table EXCEPT ![p] = table[s], ![s] = NoTable]
        /\ sz' = [sz EXCEPT ![p] = sz[s], ![s] = 0]
        /\ Return(p)
        /\ UNCHANGED <<state, trapframe>>
  /\ Inside

-----------------------------------------------------------------------------
Step(p) ==
  \/ Fork(p) \/ Exec(p) \/ Grow(p) \/ Shrink(p) \/ Exit(p) \/ Wait(p)
  \/ TakeTrapframe(p) \/ Root(p) \/ Walk(p) \/ SetEntry(p) \/ Alloc(p)
  \/ OutOfMemory(p) \/ BadProgram(p)
  \/ SbrkReturns(p) \/ ForkReturns(p) \/ Loaded(p) \/ Commit(p)

Next == \E p \in Processes : Step(p)

Spec == Init /\ [][Next]_vars

Finished == calls = MaxCalls /\ \A p \in Processes : pc[p] = "user" /\ state[p] # "zombie"

-----------------------------------------------------------------------------
\* The places for pages: p->trapframe, a page that nothing refers to yet, and
\* the nodes of the tables.
InTrapframe == <<5, 0>>
InMem == <<4, 0>>
Held ==
  {<<<<p, InTrapframe>>, trapframe[p]>> : p \in {q \in Processes : trapframe[q] # NoPage}}
  \cup {<<<<p, InMem>>, mem[p]>> : p \in {q \in Processes : mem[q] # NoPage}}
  \cup UNION {{<<<<s, n>>, table[s][n]>> : n \in DOMAIN table[s] \ KernelLeaves} : s \in Tables}

\* Every page is free or in exactly one place, wherever a call has run out
\* of memory; a process in user mode has the memory that its size says, and
\* its own trapframe; a free entry of the table, or an exec() that has
\* returned, keeps nothing; and no assertion of vm.c fails.
PagesAccounted ==
  /\ {h[2] : h \in Held} = pages \ free
  /\ Cardinality(Held) = Cardinality(pages \ free)
  /\ \A p \in Processes :
       /\ pc[p] # "panic"
       /\ pc[p] = "user" =>
            table[Local(p)] = NoTable /\ sz[Local(p)] = 0 /\ mem[p] = NoPage
       /\ state[p] = "unused" => table[p] = NoTable /\ trapframe[p] = NoPage /\ sz[p] = 0
       /\ pc[p] = "user" /\ state[p] \in {"running", "zombie"} =>
            CanFree(table[p], sz[p]) /\ table[p][Leaf(TRAPFRAME)] = trapframe[p]
=============================================================================
