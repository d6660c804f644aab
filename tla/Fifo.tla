-------------------------------- MODULE Fifo --------------------------------
(***************************************************************************)
(* What a run queue promises, without ring buffer and without locks: the   *)
(* processes put into it come out in the order they went in, each of them  *)
(* once.                                                                   *)
(***************************************************************************)
EXTENDS Naturals, Sequences

CONSTANT Procs          \* the processes that can be queued

VARIABLE waiting        \* the queued processes, the oldest first

InitFifo == waiting = << >>

\* A process enters at the tail; it is not already waiting.
Put(p) ==
  /\ \A i \in 1..Len(waiting) : waiting[i] # p
  /\ waiting' = Append(waiting, p)

\* The process at the head leaves.
Take ==
  /\ waiting # << >>
  /\ waiting' = Tail(waiting)

NextFifo == Take \/ \E p \in Procs : Put(p)

FifoSpec == InitFifo /\ [][NextFifo]_waiting
=============================================================================
