------------------------------- MODULE Kernel -------------------------------
(***************************************************************************)
(* RunQueue, Boot, Memory, Ticks and RoundRobin side by side, each with    *)
(* constants and variables of its own: "part" says which of them runs, and *)
(* the others stay in their initial states.                                *)
(***************************************************************************)
EXTENDS RunQueue

CONSTANTS
  Harts, BOOT, BootProcs,                                             \* Boot
  MemoryProcs, ENTRIES, PGSIZE, Sizes, Programs, Increments, MaxCalls,   \* Memory
  NCPU, ClockProcs, WORD, FirstTick, MaxTicks, Scripts,                   \* Ticks
  Cores, TableSize                                                    \* RoundRobin

VARIABLES
  part,
  locked, holder, inited, started, queued, total, op, at,
  pages, free, state, trapframe, table, sz, mpc, of, a, goal, mem, segs, calls,
  cpu, lk, on, chosen, next, tpc, back, tstate, killed, waiting, saved, ticks, ticks0, beats,
  since, script,
  rstate, entry, runs, turns

bootvars == <<locked, holder, inited, started, queued, total, op, at>>
memoryvars == <<pages, free, state, trapframe, table, sz, mpc, of, a, goal, mem, segs, calls>>
tickvars == <<cpu, lk, on, chosen, next, tpc, back, tstate, killed, waiting, saved, ticks,
              ticks0, beats, since, script>>
turnvars == <<rstate, entry, runs, turns>>

B == INSTANCE Boot WITH
  CPUs <- Harts, NPROC <- BootProcs, None <- NULL, size <- queued, pc <- at

M == INSTANCE Memory WITH NPROC <- MemoryProcs, pc <- mpc, at <- of

T == INSTANCE Ticks WITH
  NPROC <- ClockProcs, holder <- lk, pc <- tpc, state <- tstate, queued <- waiting

R == INSTANCE RoundRobin WITH CPUs <- Cores, NPROC <- TableSize, state <- rstate

ASSUME KernelAssumption ==
  B!BootAssumption /\ M!MemoryAssumption /\ T!TicksAssumption /\ R!RoundRobinAssumption

-----------------------------------------------------------------------------
Some(S) == CHOOSE x \in S : TRUE

KernelInit ==
  /\ part \in {"queue", "boot", "memory", "clock", "turns"}
  /\ Init /\ B!Init /\ M!Init /\ T!Init /\ R!Init
  /\ part # "memory" => pages = 1..Some(Sizes)
  /\ part # "clock" => script = Some(Scripts)

\* A panic stops the machine, which is no deadlock; nor are processes with
\* nothing more to do.
Panicked == \E c \in Harts : at[c] = <<"machine", "panic">>

Others(this) ==
  /\ this # "queue" => UNCHANGED vars
  /\ this # "boot" => UNCHANGED bootvars
  /\ this # "memory" => UNCHANGED memoryvars
  /\ this # "clock" => UNCHANGED tickvars
  /\ this # "turns" => UNCHANGED turnvars
  /\ UNCHANGED part

KernelNext ==
  \/ part = "queue" /\ Next /\ Others("queue")
  \/ part = "boot" /\ B!Next /\ Others("boot")
  \/ part = "memory" /\ M!Next /\ Others("memory")
  \/ part = "clock" /\ T!Next /\ Others("clock")
  \/ part = "turns" /\ R!Next /\ Others("turns")
  \/ (Panicked \/ M!Finished) /\ Others("all")

kernelvars == <<part, vars, bootvars, memoryvars, tickvars, turnvars>>
KernelSpec == KernelInit /\ [][KernelNext]_kernelvars

\* What the modules say of their parts: the lazily initialised aux_lock
\* excludes; pages, interrupts and the clock; turns.
AuxExclusion == part = "boot" => B!TypeOK /\ B!AuxExclusion
PagesAccounted == part = "memory" => M!PagesAccounted
InterruptsMatch == part = "clock" => T!TypeOK /\ T!InterruptsMatch
SleepsExactly == part = "clock" => T!SleepsExactly
TakesTurns == part = "turns" => R!TakesTurns
=============================================================================
