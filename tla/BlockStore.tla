----------------------------- MODULE BlockStore -----------------------------
(***************************************************************************)
(* What the buffer cache and the disk promise together: an array of        *)
(* blocks.  A process has a block for itself while it uses it, finds there *)
(* what was written last, and nothing changes a block that nobody uses.    *)
(***************************************************************************)
EXTENDS FiniteSets

CONSTANTS Procs, Blocks, Data

VARIABLES
  content,    \* what each block holds
  using       \* who uses it: a set with at most one process

InitStore ==
  /\ content \in [Blocks -> Data]
  /\ using = [n \in Blocks |-> {}]

Get(p, n) ==
  /\ using[n] = {}
  /\ using' = [using EXCEPT ![n] = {p}]
  /\ UNCHANGED content

\* The user changes the block or not, and may go on using it.
Use(p, n) ==
  /\ using[n] = {p}
  /\ \E d \in Data : content' = [content EXCEPT ![n] = d]
  /\ \E S \in {{}, {p}} : using' = [using EXCEPT ![n] = S]

NextStore == \E p \in Procs, n \in Blocks : Get(p, n) \/ Use(p, n)

StoreSpec == InitStore /\ [][NextStore]_<<content, using>>
=============================================================================
