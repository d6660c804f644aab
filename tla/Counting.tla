------------------------------ MODULE Counting ------------------------------
(***************************************************************************)
(* What the semaphores of lab02 promise (kernel/semaphore.h): a slot is    *)
(* opened with a value, up adds one to it, down takes one from it when     *)
(* there is one to take, close ends it.  Each call does so in one step,    *)
(* at most once, and nothing else changes a slot.                          *)
(***************************************************************************)
EXTENDS Integers

CONSTANTS Procs, Slots

VARIABLES
  count,      \* the value of each slot, -1 when it is closed
  calls       \* the call of each process that has had no effect yet

InitCounting == count \in [Slots -> Nat \cup {-1}]

OpenSlot(p, i) ==
  /\ calls[p].op = "open" /\ count[i] = -1
  /\ count' = [count EXCEPT ![i] = calls[p].value]

UpSlot(p, i) ==
  /\ calls[p].op = "up" /\ count[i] >= 0
  /\ count' = [count EXCEPT ![i] = @ + 1]

DownSlot(p, i) ==
  /\ calls[p].op = "down" /\ count[i] > 0
  /\ count' = [count EXCEPT ![i] = @ - 1]

CloseSlot(p, i) ==
  /\ calls[p].op = "close" /\ count[i] >= 0
  /\ count' = [count EXCEPT ![i] = -1]

\* A call takes effect, and is not there to take effect again.
NextCounting ==
  \E p \in Procs, i \in Slots :
    /\ OpenSlot(p, i) \/ UpSlot(p, i) \/ DownSlot(p, i) \/ CloseSlot(p, i)
    /\ calls'[p].op = "none"

CountingSpec == InitCounting /\ [][NextCounting]_count
=============================================================================
