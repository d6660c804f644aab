---------------------------- MODULE Transactions ----------------------------
(***************************************************************************)
(* What the log promises to the system calls that write the disk: between  *)
(* begin_op() and end_op() a call changes blocks of the file system, the   *)
(* calls that overlap become permanent together, and a crash goes back to  *)
(* the last such moment.                                                   *)
(***************************************************************************)
EXTENDS FiniteSets

CONSTANTS
  Procs,      \* the processes that make the calls
  Blocks,     \* the blocks of the file system
  Contents,   \* what a block can hold
  Nobody      \* not a process

VARIABLES
  mem,        \* what a process reads from each block
  durable,    \* what it will read after a crash
  active,     \* the processes between begin_op() and end_op()
  committer   \* the process in the end_op() that makes changes permanent

Init ==
  /\ mem \in [Blocks -> Contents]
  /\ durable = mem
  /\ active = { }
  /\ committer = Nobody

\* begin_op() returns.
Begin(p) ==
  /\ committer = Nobody
  /\ p \notin active
  /\ active' = active \cup {p}
  /\ UNCHANGED <<mem, durable, committer>>

Write(p, b, v) ==
  /\ p \in active
  /\ mem' = [mem EXCEPT ![b] = v]
  /\ UNCHANGED <<durable, active, committer>>

\* end_op() of a process that others overlap with, and of the last one.
End(p) ==
  /\ p \in active
  /\ active' = active \ {p}
  /\ committer' = IF active = {p} THEN p ELSE Nobody
  /\ UNCHANGED <<mem, durable>>

\* Everything that was written becomes permanent at once.
Commit ==
  /\ committer # Nobody
  /\ durable' = mem
  /\ UNCHANGED <<mem, active, committer>>

\* The end_op() of the last process returns, its changes are permanent.
Return(p) ==
  /\ committer = p
  /\ durable = mem
  /\ committer' = Nobody
  /\ UNCHANGED <<mem, durable, active>>

Crash ==
  /\ mem' = durable
  /\ active' = { }
  /\ committer' = Nobody
  /\ UNCHANGED durable

Next ==
  \/ \E p \in Procs : Begin(p) \/ End(p) \/ Return(p)
  \/ \E p \in Procs, b \in Blocks, v \in Contents : Write(p, b, v)
  \/ Commit \/ Crash

Spec == Init /\ [][Next]_<<mem, durable, active, committer>>
=============================================================================
