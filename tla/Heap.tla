-------------------------------- MODULE Heap --------------------------------
(***************************************************************************)
(* malloc() and free() of the user library                                 *)
(* (src/lab03/so22lab3g02/final/user/umalloc.c): a ring of free blocks in  *)
(* the order of their addresses, which begins with "base".  An address     *)
(* counts in headers; 0 is base, and the heap follows it at some distance. *)
(***************************************************************************)
EXTENDS Integers, FiniteSetsExt

CONSTANTS
  UNITS,       \* where memory ends
  NALLOC,      \* the least that is asked of the kernel: 4096 in the code
  Requests,    \* nunits of the calls
  MaxSbrk      \* calls of sbrk() by the program itself

Base == 0
NoRing == -1
Addresses == 0..UNITS

HeapAssumption == NALLOC \in Nat /\ Requests \subseteq Nat \ {0} /\ UNITS \in Nat

VARIABLES
  ptr, size,    \* the headers
  freep,
  nunits,       \* of the malloc() under way, or 0
  top,          \* where the heap ends
  blocks,       \* what malloc() returned: bookkeeping
  others        \* what the program took from sbrk(): bookkeeping

vars == <<ptr, size, freep, nunits, top, blocks, others>>

Init ==
  /\ ptr = [a \in Addresses |-> Base] /\ size = [a \in Addresses |-> 0]
  /\ freep = NoRing
  /\ nunits = 0
  /\ top = 2
  /\ blocks = {} /\ others = {}

-----------------------------------------------------------------------------
\* What a header says matters as long as it is the header of a block, and the
\* link of it while that is free.
Forget(f, S) == [x \in Addresses |-> IF x \in S THEN 0 ELSE f[x]]

\* The k-th block of the ring behind freep.
Nth[k \in Nat] == IF k = 0 THEN freep ELSE ptr[Nth[k - 1]]
Round == Min({k \in 1..UNITS : Nth[k] = freep})
Ring == IF freep = NoRing THEN {} ELSE {Nth[k] : k \in 1..Round}

Malloc(n) ==
  /\ nunits = 0
  /\ nunits' = n
  /\ freep' = IF freep = NoRing THEN Base ELSE freep
  /\ UNCHANGED <<ptr, size, top, blocks, others>>

\* The first block that is big enough: all of it, or its end.  (Mutant: one
\* that is a unit too small is taken as if it were right.)
Fits == {k \in 1..Round : size[Nth[k]] >= nunits}
Exact_OneLess(p) == size[p] <= nunits + 1
Exact(p) == size[p] = nunits

Take ==
  LET prevp == Nth[Min(Fits) - 1]
      p == ptr[prevp]
      block == IF Exact(p) THEN p ELSE p + size[p] - nunits
  IN
  /\ nunits > 0 /\ Fits # {}
  /\ ptr' = IF Exact(p) THEN Forget([ptr EXCEPT ![prevp] = ptr[p]], {p}) ELSE ptr
  /\ size' = IF Exact(p) THEN size
             ELSE [size EXCEPT ![p] = @ - nunits, ![block] = nunits]
  /\ freep' = prevp
  /\ blocks' = blocks \cup {[at |-> block, units |-> nunits]}
  /\ nunits' = 0
  /\ UNCHANGED <<top, others>>

\* Where free() stops: between two blocks, or at the end of the ring.
Stops(p, bp) ==
  \/ bp > p /\ bp < ptr[p]
  \/ p >= ptr[p] /\ (bp > p \/ bp < ptr[p])

\* free(): joined with the block behind it and the one before it.  (Mutant:
\* joined with a block behind it that does not touch it.)
Touches_Gap(bp, n, q) == bp + n <= q
Touches(bp, n, q) == bp + n = q

Insert(bp, n) ==
  LET p == Nth[Min({k \in 0..(Round - 1) : Stops(Nth[k], bp)})]
      behind == Touches(bp, n, ptr[p])
      units == IF behind THEN n + size[ptr[p]] ELSE n
      follows == IF behind THEN ptr[ptr[p]] ELSE ptr[p]
      before == Touches(p, size[p], bp)
      joined == {x \in {bp} : before} \cup {x \in {ptr[p]} : behind}
  IN
  /\ size' = Forget(IF before THEN [size EXCEPT ![p] = @ + units]
                    ELSE [size EXCEPT ![bp] = units], joined)
  /\ ptr' = Forget(IF before THEN [ptr EXCEPT ![p] = follows]
                   ELSE [ptr EXCEPT ![bp] = follows, ![p] = bp], joined)
  /\ freep' = p

\* morecore(): sbrk() succeeds, and the block is freed, or it fails.
Asked == Max({nunits, NALLOC})
MoreCore ==
  /\ nunits > 0 /\ Fits = {}
  /\ \/ /\ top + Asked <= UNITS
        /\ top' = top + Asked
        /\ Insert(top, Asked)
        /\ UNCHANGED nunits
     \/ nunits' = 0 /\ UNCHANGED <<ptr, size, freep, top>>
  /\ UNCHANGED <<blocks, others>>

Free(b) ==
  /\ nunits = 0
  /\ Insert(b.at, size[b.at])
  /\ blocks' = blocks \ {b}
  /\ UNCHANGED <<nunits, top, others>>

\* The program extends its memory by itself, and the heap has a gap.
Sbrk ==
  /\ nunits = 0 /\ top < UNITS /\ Cardinality(others) < MaxSbrk
  /\ others' = others \cup {top}
  /\ top' = top + 1
  /\ UNCHANGED <<ptr, size, freep, nunits, blocks>>

Next ==
  \/ \E n \in Requests : Malloc(n)
  \/ Take \/ MoreCore \/ Sbrk
  \/ \E b \in blocks : Free(b)

Spec == Init /\ [][Next]_vars

-----------------------------------------------------------------------------
\* Memory is neither lost nor given twice: every unit of the heap belongs to
\* a block that the program has, to a free one or to what it took from
\* sbrk(), and to one of them only.  The header of a block that the program
\* has is what malloc() made it.  Free blocks that touch have been joined,
\* so that what is free is found.
Units(p) == p..(p + size[p] - 1)
Given == {b.at : b \in blocks}

HeapAccounted ==
  /\ \A b \in blocks : size[b.at] = b.units
  /\ 2..(top - 1) = UNION {Units(p) : p \in Given \cup Ring} \cup others
  /\ \A p, q \in Given \cup Ring : p # q => Units(p) \cap Units(q) = {}
  /\ Given \cap Ring = {} /\ \A p \in Given \cup Ring : Units(p) \cap others = {}
  /\ \A p, q \in Ring : p + size[p] # q \/ p = Base \/ q = Base
=============================================================================
