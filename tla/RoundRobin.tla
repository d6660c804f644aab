---------------------------- MODULE RoundRobin ----------------------------
(***************************************************************************)
(* The kernel before the MLFQ (src/lab03/so22lab3g02/original): every CPU  *)
(* goes round the process table and runs what is RUNNABLE.  p->lock is     *)
(* held from before the change of a state until the other side of swtch()  *)
(* releases it, so that each change of a state is one step.                *)
(***************************************************************************)
EXTENDS Integers, FiniteSets

CONSTANTS CPUs, NPROC

RoundRobinAssumption == NPROC \in Nat \ {0} /\ IsFiniteSet(CPUs)

Entries == 0..(NPROC - 1)
Nobody == NPROC

VARIABLES
  state,
  entry,    \* p of scheduler(), on each CPU
  runs,     \* c->proc
  turns     \* how often each was run since this one waits: bookkeeping

vars == <<state, entry, runs, turns>>

NoTurns == [q \in Entries |-> 0]

\* userinit(): the first process.
Init ==
  /\ state = [p \in Entries |-> IF p = 0 THEN "RUNNABLE" ELSE "UNUSED"]
  /\ entry = [c \in CPUs |-> 0]
  /\ runs = [c \in CPUs |-> Nobody]
  /\ turns = [p \in Entries |-> NoTurns]

\* The next entry of the table.  (Mutant: after a process the CPU begins
\* again with the first.)
After_First(c) == IF runs[c] = Nobody THEN (entry[c] + 1) % NPROC ELSE 0
After(c) == (entry[c] + 1) % NPROC

-----------------------------------------------------------------------------
(* scheduler() *)

Pass(c) ==
  /\ runs[c] = Nobody /\ state[entry[c]] # "RUNNABLE"
  /\ entry' = [entry EXCEPT ![c] = After(c)]
  /\ UNCHANGED <<state, runs, turns>>

Counted(q) ==
  [p \in Entries |-> IF p = q THEN NoTurns
                     ELSE IF state[p] = "RUNNABLE" THEN [turns[p] EXCEPT ![q] = @ + 1]
                     ELSE turns[p]]

Run(c) ==
  /\ runs[c] = Nobody /\ state[entry[c]] = "RUNNABLE"
  /\ state' = [state EXCEPT ![entry[c]] = "RUNNING"]
  /\ runs' = [runs EXCEPT ![c] = entry[c]]
  /\ turns' = Counted(entry[c])
  /\ UNCHANGED entry

-----------------------------------------------------------------------------
(* The processes *)

\* yield(), sleep() and exit() go back to the scheduler of their CPU.
Leave(c, s) ==
  /\ runs[c] # Nobody
  /\ state' = [state EXCEPT ![runs[c]] = s]
  /\ runs' = [runs EXCEPT ![c] = Nobody]
  /\ entry' = [entry EXCEPT ![c] = After(c)]
  /\ UNCHANGED turns

Yield(c) == Leave(c, "RUNNABLE")
Sleep(c) == Leave(c, "SLEEPING")
Exit(c) == runs[c] # 0 /\ Leave(c, "ZOMBIE")

Change(q, from, to) ==
  /\ state[q] = from
  /\ state' = [state EXCEPT ![q] = to]
  /\ UNCHANGED <<entry, runs, turns>>

\* fork(), and wait() that finds a zombie, by a process that runs; wakeup()
\* and kill(), the former also by an interrupt.
Fork(c, q) == runs[c] # Nobody /\ Change(q, "UNUSED", "RUNNABLE")
Wait(c, q) == runs[c] # Nobody /\ Change(q, "ZOMBIE", "UNUSED")
Wakeup(q) == Change(q, "SLEEPING", "RUNNABLE")

Next ==
  \/ \E c \in CPUs : Pass(c) \/ Run(c) \/ Yield(c) \/ Sleep(c) \/ Exit(c)
  \/ \E c \in CPUs, q \in Entries : Fork(c, q) \/ Wait(c, q)
  \/ \E q \in Entries : Wakeup(q)

Spec == Init /\ [][Next]_vars

-----------------------------------------------------------------------------
\* What the MLFQ gives up: a process that can run is passed over by any
\* other at most once for each CPU, whatever sleeps, wakes, ends or is made
\* meanwhile, because a CPU goes on behind the process that it ran.
TakesTurns == \A p, q \in Entries : turns[p][q] <= Cardinality(CPUs)
=============================================================================
