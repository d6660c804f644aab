------------------------------ MODULE MCKernel ------------------------------
(* Small instances of the parts of Kernel.                                 *)
EXTENDS Kernel, TLC

CONSTANTS c1, c2, c3, p1, p2, p3, b0, b1, b2

CPUSet == {c1, c2, c3}
ProcSet == {p1, p2, p3}
Interchangeable == Permutations(CPUSet) \cup Permutations(ProcSet)

\* The CPUs that boot: three, as the Makefile starts them.
HartSet == {b0, b1, b2}

\* Memory: programs of one segment, of two, and of nothing.  With three
\* entries in a page of a page table it grows with the fourth page.
SizeSet == {8, 10, 12, 14, 16, 19}
ProgramSet == {<<1>>, <<3, 4>>, <<0>>}
IncrementSet == {3, -1, -9}

\* The clock: a sleeper that another process kills; two sleepers, one for -3,
\* which is 1 in unsigned arithmetic modulo 4.  The counter wraps around.
Request(name, n) == [op |-> name, arg |-> n]
ClockPrograms ==
  {<<<<Request("sleep", 1)>>, <<Request("kill", 1)>>>>,
   <<<<Request("sleep", 2), Request("uptime", 0)>>, <<Request("sleep", -3)>>>>}

CoreSet == {1, 2}
=============================================================================
