-------------------------------- MODULE User --------------------------------
(***************************************************************************)
(* What user programs meet: semaphores and pingpong, the shell and the     *)
(* lines it reads, pipes, the console and malloc(), side by side, each     *)
(* with constants and variables of its own.  "part" says which of them     *)
(* runs, and the others stay in their initial states.                      *)
(***************************************************************************)
EXTENDS PingPong

CONSTANTS
  Sessions, KIDS, CAP, MaxFails,                                          \* Shell
  Texts,                                                                  \* Parsing
  PipeProcs, NPIPE, PIPESIZE, PipeWord, MaxN, NOFILE, NFILE, PipePrograms,
  MaxKills, NoResult,                                                     \* Files
  ConsoleProcs, INPUT_BUF_SIZE, UART_TX_BUF_SIZE, ConsoleWord, ConsolePrograms,   \* Console
  UNITS, NALLOC, Requests, MaxSbrk                                        \* Heap

VARIABLES
  part,
  session, commands, wait, spc, read, fd, pids, ends, bytes, child, forkfails, pipefails,
  pipes, fpc, cur, left, killed, result, gaveup, ftable, ofile, held, leaving, todo, kills,
  text, pos, off, ppc, cmd, line, failed, parsed, quit,
  ptr, size, freep, nunits, top, blocks, others,
  buf, r, w, e, tx, cpc, moving, got, marked, typing, key, sending, irq, intr, keys, marks

shellvars == <<session, commands, wait, spc, read, fd, pids, ends, bytes, child,
               forkfails, pipefails>>
linevars == <<text, pos, off, ppc, cmd, line, failed, parsed, quit>>
heapvars == <<ptr, size, freep, nunits, top, blocks, others>>
filevars == <<pipes, fpc, cur, left, killed, result, gaveup, ftable, ofile, held, leaving,
              todo, kills>>
consolevars == <<buf, r, w, e, tx, cpc, moving, got, marked, typing, key, sending, irq, intr,
                 keys, marks>>

-----------------------------------------------------------------------------
S == INSTANCE Shell

L == INSTANCE Parsing WITH result <- line

F == INSTANCE Files WITH
  NPROC <- PipeProcs, WORD <- PipeWord, Scripts <- PipePrograms, pc <- fpc, script <- todo

C == INSTANCE Console WITH
  Procs <- ConsoleProcs, WORD <- ConsoleWord, Programs <- ConsolePrograms,
  pc <- cpc, left <- moving, killed <- marked, script <- typing, kills <- marks

H == INSTANCE Heap

ASSUME UserAssumption ==
  /\ CPUS = 1
  /\ \A g \in Programs : Orderly(g) /\ (g = TheProgram \/ Apart(g))
  /\ L!TextsAssumption /\ H!HeapAssumption /\ F!PipeAssumption /\ F!FilesAssumption /\ C!ConsoleAssumption

-----------------------------------------------------------------------------
Any(X) == CHOOSE x \in X : TRUE
AnyText == Any(Texts)
AnyProgram == Any(Programs)

UserInit ==
  /\ part \in {"semaphores", "shell", "lines", "pipes", "console", "heap"}
  /\ Init /\ (part # "semaphores" => script = AnyProgram.calls)
  /\ S!Init /\ (part # "shell" => session = Any(Sessions))
  /\ F!Init /\ (part # "pipes" => todo = Any(PipePrograms))
  /\ C!Init /\ (part # "console" => LET g == Any(ConsolePrograms) IN
                   typing = g.calls /\ keys = g.keys /\ marks = g.kills)
  /\ text \in (IF part = "lines" THEN Texts ELSE {AnyText}) /\ L!Init
  /\ H!Init

Others(this) ==
  /\ this # "semaphores" => UNCHANGED vars
  /\ this # "shell" => UNCHANGED shellvars
  /\ this # "lines" => UNCHANGED linevars
  /\ this # "pipes" => UNCHANGED filevars
  /\ this # "console" => UNCHANGED consolevars
  /\ this # "heap" => UNCHANGED heapvars
  /\ UNCHANGED part

SemaphoreStep == part = "semaphores" /\ Next /\ Others("semaphores")
ShellStep == part = "shell" /\ S!Next /\ Others("shell")
LineStep == part = "lines" /\ L!Next /\ Others("lines")
PipeStep == part = "pipes" /\ F!Next /\ Others("pipes")
ConsoleStep == part = "console" /\ C!Next /\ Others("console")
HeapStep == part = "heap" /\ H!Next /\ Others("heap")

UserNext == SemaphoreStep \/ ShellStep \/ LineStep \/ PipeStep \/ ConsoleStep \/ HeapStep

uservars ==
  <<part, vars, shellvars, linevars, filevars, consolevars, heapvars>>

\* The fairness of Semaphore and Shell; the others are checked for
\* safety.
UserSpec ==
  /\ UserInit
  /\ [][UserNext]_uservars
  /\ WF_uservars(SemaphoreStep \/ ShellStep)

-----------------------------------------------------------------------------
\* What the modules say of their parts.  Resources are references to files,
\* the ends of pipes and memory.
NoMissedWakeup ==
  /\ part = "semaphores" => TypeOK /\ NoLostWakeup
  /\ part = "pipes" => F!TypeOK /\ F!NoLostWakeup
  /\ part = "console" => C!NoLostWakeup
ResourcesAccounted ==
  /\ part = "pipes" => F!RefsMatch /\ F!EndsMatch
  /\ part = "heap" => H!HeapAccounted
NothingLeft == part = "shell" => S!NothingLeft
LinesUnderstood == part = "lines" => L!LinesUnderstood
ImplementsStream == F!ImplementsStream
ImplementsLines == C!ImplementsLines

\* Both ends of pingpong finish; and if pipe() never failed the shell comes
\* back, except that it waits for ever when the pipe of a command that writes
\* without end is one of those whose read end it keeps (of three commands or
\* more, all but the last pipe).
AllFinish ==
  part = "shell" \/ (part = "semaphores" /\ Playing) =>
    <>[](IF part = "shell" THEN S!Returned \/ pipefails > 0 \/ S!WaitsForItself
         ELSE \A p \in Procs : script[p] = << >>)
=============================================================================
