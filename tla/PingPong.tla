------------------------------ MODULE PingPong ------------------------------
(***************************************************************************)
(* The program user/pingpong.c of lab02, from its fork() on: two processes *)
(* that hand each other the turn through two semaphores.                   *)
(***************************************************************************)
EXTENDS Semaphore

CONSTANT Rounds     \* the argument n of the program

ASSUME PingPongAssumption == Rounds \in Nat /\ NPROC >= 2

Child == 1
Parent == 2
id1 == 69
id2 == 420

\* sem_open(id1, 1); sem_open(id2, 0) before the fork().
OpenedBefore == <<<<id1, 1>>, <<id2, 0>>>>

\* n times sem_down, print, sem_up; the child closes id1, the parent id2.
Turns(mine, other) ==
  [k \in 1..(2 * Rounds) |-> IF k % 2 = 1 THEN Down(mine) ELSE Up(other)]
    \o <<Close(mine)>>

TheProgram ==
  [opened |-> OpenedBefore,
   calls |-> [p \in Procs |-> CASE p = Child -> Turns(id1, id2)
                               [] p = Parent -> Turns(id2, id1)
                               [] OTHER -> << >>]]

\* An instance may run other programs, too, with other semaphores.
Apart(g) ==
  /\ g.opened \in Seq((Int \ {0, id1}) \X Nat) /\ g.calls \in [Procs -> Seq(SemCalls)]
  /\ \A p \in Procs : \A j \in DOMAIN g.calls[p] : g.calls[p][j].id # id1
Playing == sem_id[1] = id1

-----------------------------------------------------------------------------
\* How often a process has had the turn: its sem_down() calls that returned.
TurnsOf(p) ==
  Rounds - Cardinality({k \in 1..Len(script[p]) : script[p][k].op = "down"})

\* The words alternate, ping first.
Alternates ==
  Playing => TurnsOf(Parent) <= TurnsOf(Child) /\ TurnsOf(Child) <= TurnsOf(Parent) + 1
=============================================================================
