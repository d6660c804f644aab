------------------------------- MODULE Shell -------------------------------
(***************************************************************************)
(* mybash (src/lab01/principal): how execute.c runs a pipeline, and the    *)
(* loop of mybash.c around it.  A step is one system call of the shell or  *)
(* of a command; fork() and pipe() may fail.  Of Linux there are pipes     *)
(* with CAP bytes of room, zombies and waitpid().  A command is told by    *)
(* what it does with its input and output: a record with "does", and with  *)
(* "in" and "out", which say that it has a redirection; a file that is     *)
(* read is empty.  Internal commands have no part in this.                 *)
(***************************************************************************)
EXTENDS Integers, Sequences

CONSTANTS
  Sessions,     \* sequences of pipelines that may be typed
  KIDS,         \* processes that the shell may fork
  CAP,          \* bytes that fit into a pipe
  MaxFails      \* calls of fork() and pipe() that fail

Kids == 1..KIDS

VARIABLES
  session,    \* the pipelines still to be run
  commands,   \* what is left of the one that runs
  wait,       \* pipeline_get_wait(): it runs in the foreground
  spc,        \* where the shell is
  read, fd,   \* variables of execute_pipeline_rec()
  pids,       \* pid in each of its calls, the innermost last
  ends,       \* pipe ends that are open in the shell
  bytes,      \* bytes in each pipe, in the order of the pipe() calls
  child,      \* the children
  forkfails, pipefails    \* bookkeeping

vars == <<session, commands, wait, spc, read, fd, pids, ends, bytes, child, forkfails, pipefails>>
input == <<session, commands, wait>>
fails == <<forkfails, pipefails>>

\* An end of a pipe; the terminal; a file; a number that is no open file.
ReadEnd(k) == <<k, "r">>
WriteEnd(k) == <<k, "w">>
IsPipe(end) == end[1] > 0
Terminal == <<0, "tty">>
File == <<0, "file">>
NoEnd == <<0, "none">>
Nobody == -1

NoCommand == [does |-> "none", in |-> FALSE, out |-> FALSE]
NoChild == [state |-> "none", command |-> NoCommand, fg |-> FALSE, in |-> Terminal,
            out |-> Terminal, closes |-> {}, ends |-> {}]

Init ==
  /\ session \in Sessions
  /\ commands = << >> /\ wait = TRUE
  /\ spc = "prompt"
  /\ read = Terminal /\ fd = <<NoEnd, NoEnd>>
  /\ pids = << >>
  /\ ends = {}
  /\ bytes = << >>
  /\ child = [c \in Kids |-> NoChild]
  /\ forkfails = 0 /\ pipefails = 0

-----------------------------------------------------------------------------
(* The shell *)

CallOf(n) == IF n = 1 THEN "fork" ELSE "pipe"

\* The loop of main(): waitpid(-1, NULL, WNOHANG) until there is none;
\* parse_pipeline(); execute_pipeline_rec().
Prompt ==
  /\ spc = "prompt" /\ session # << >>
  /\ child' = [c \in Kids |-> IF child[c].state = "zombie"
                              THEN [child[c] EXCEPT !.state = "reaped"] ELSE child[c]]
  /\ commands' = Head(session).commands /\ wait' = Head(session).wait
  /\ session' = Tail(session)
  /\ read' = Terminal /\ pids' = << >>
  /\ spc' = CallOf(Len(Head(session).commands))
  /\ UNCHANGED <<fd, ends, bytes, fails>>

\* pipe(fd).  When it fails the shell goes on with an array that nobody has
\* set: numbers of some open files or of none.
Pipe ==
  /\ spc = "pipe"
  /\ \/ /\ bytes' = Append(bytes, 0)
        /\ fd' = <<ReadEnd(Len(bytes) + 1), WriteEnd(Len(bytes) + 1)>>
        /\ ends' = ends \cup {fd'[1], fd'[2]}
        /\ UNCHANGED pipefails
     \/ /\ pipefails + forkfails < MaxFails
        /\ pipefails' = pipefails + 1
        /\ \E x, y \in ends \cup {NoEnd} : fd' = <<x, y>>
        /\ UNCHANGED <<ends, bytes>>
  /\ spc' = "fork"
  /\ UNCHANGED <<input, read, pids, child, forkfails>>

\* fork().  The child has a copy of the variables and of the open files.
\* The last command, the only one that redirects its output, closes what it
\* gave to dup2(); the others keep it.
Stdio(end) == IF end = NoEnd THEN Terminal ELSE end
NewChild ==
  LET last == Len(commands) = 1 IN
  [state |-> "forked", command |-> [Head(commands) EXCEPT !.out = @ /\ last],
   fg |-> wait, in |-> Stdio(read), out |-> IF last THEN Terminal ELSE Stdio(fd[2]),
   closes |-> IF last THEN {read} ELSE {fd[1], fd[2]}, ends |-> ends]

Fork ==
  /\ spc = "fork"
  /\ \/ \E c \in Kids :
          /\ child[c].state = "none" /\ \A d \in 1..(c - 1) : child[d].state # "none"
          /\ child' = [child EXCEPT ![c] = NewChild]
          /\ pids' = Append(pids, c)
          /\ UNCHANGED forkfails
     \/ /\ pipefails + forkfails < MaxFails
        /\ forkfails' = forkfails + 1
        /\ pids' = Append(pids, Nobody)
        /\ UNCHANGED child
  /\ spc' = IF Len(commands) = 1 THEN "forked_last" ELSE "forked"
  /\ UNCHANGED <<input, read, fd, ends, bytes, pipefails>>

\* pipeline_pop_front(); read = fd[0]; close(fd[1]); and the next call of
\* execute_pipeline_rec().  (Mutant: the write end stays open.)
Closed_Nothing == {}
Closed == {fd[2]}

Recurse ==
  /\ spc = "forked"
  /\ commands' = Tail(commands)
  /\ read' = fd[1]
  /\ ends' = ends \ Closed
  /\ spc' = CallOf(Len(commands) - 1)
  /\ UNCHANGED <<session, wait, fd, pids, bytes, child, fails>>

\* The base case: close(read).
CloseRead ==
  /\ spc = "forked_last"
  /\ ends' = ends \ {read}
  /\ spc' = IF wait THEN "wait" ELSE "prompt"
  /\ UNCHANGED <<input, read, fd, pids, bytes, child, fails>>

\* waitpid(pid), from the last command to the first.  After a fork() that
\* failed, pid is -1: waitpid() takes any child.
Alive(c) == child[c].state \in {"forked", "running"}
Awaited == {c \in Kids : pids[Len(pids)] \in {c, Nobody} /\ (Alive(c) \/ child[c].state = "zombie")}

Wait ==
  /\ spc = "wait"
  /\ IF pids = << >>
     THEN spc' = "prompt" /\ UNCHANGED <<pids, child>>
     ELSE /\ \/ Awaited = {} /\ UNCHANGED child
             \/ \E c \in Awaited : /\ child[c].state = "zombie"
                                   /\ child' = [child EXCEPT ![c].state = "reaped"]
          /\ pids' = SubSeq(pids, 1, Len(pids) - 1)
          /\ UNCHANGED spc
  /\ UNCHANGED <<input, read, fd, ends, bytes, fails>>

-----------------------------------------------------------------------------
(* The commands *)

shellvars == <<input, spc, read, fd, pids, ends, fails>>
IsOpen(end) == end \in ends \/ \E c \in Kids : end \in child[c].ends
Ended(c) == [child EXCEPT ![c].state = "zombie", ![c].ends = {}]

\* dup2() and close() in the child; redirection_in(), redirection_out(): a
\* file that cannot be opened leaves things as they are; execvp().
MayBe(end, redirected) == IF redirected THEN {end, File} ELSE {end}

Exec(c) ==
  /\ child[c].state = "forked"
  /\ \E in \in MayBe(child[c].in, child[c].command.in),
       out \in MayBe(child[c].out, child[c].command.out) :
       child' = [child EXCEPT ![c].state = "running", ![c].in = in, ![c].out = out,
                   ![c].ends = ((@ \ child[c].closes) \cup {in, out}) \ {Terminal, File}]
  /\ UNCHANGED <<shellvars, bytes>>

\* Nothing reads what c writes, or it is no end to write to: SIGPIPE or an
\* error.  There is room for a byte.
Broken(c) == LET out == child[c].out IN
  IsPipe(out) /\ (out[2] = "w" => ~IsOpen(ReadEnd(out[1])))
Room(c) == LET out == child[c].out IN
  IsPipe(out) => out[2] = "w" /\ bytes[out[1]] < CAP
Put(b, c) == LET out == child[c].out IN
  IF IsPipe(out) THEN [b EXCEPT ![out[1]] = @ + 1] ELSE b

\* It ends at once.
Quit(c) ==
  /\ child[c].state = "running" /\ child[c].command.does = "quick"
  /\ child' = Ended(c)
  /\ UNCHANGED <<shellvars, bytes>>

\* It writes as long as somebody reads.
Produce(c) ==
  /\ child[c].state = "running" /\ child[c].command.does = "source" /\ IsPipe(child[c].out)
  /\ \/ /\ Broken(c)
        /\ child' = Ended(c)
        /\ UNCHANGED bytes
     \/ /\ ~Broken(c) /\ Room(c)
        /\ bytes' = Put(bytes, c)
        /\ UNCHANGED child
  /\ UNCHANGED shellvars

\* It copies its input to its output, up to the end of the input.
Filter(c) ==
  LET k == child[c].in[1] IN
  /\ child[c].state = "running" /\ child[c].command.does = "filter" /\ child[c].in # Terminal
  /\ \/ /\ IsPipe(child[c].in) =>
             \/ child[c].in[2] = "w"
             \/ bytes[k] = 0 /\ ~IsOpen(WriteEnd(k))
             \/ bytes[k] > 0 /\ Broken(c)
        /\ child' = Ended(c)
        /\ UNCHANGED bytes
     \/ /\ child[c].in[2] = "r" /\ bytes[k] > 0
        /\ ~Broken(c) /\ Room(c)
        /\ bytes' = Put([bytes EXCEPT ![k] = @ - 1], c)
        /\ UNCHANGED child
  /\ UNCHANGED shellvars

-----------------------------------------------------------------------------
ShellStep == Prompt \/ Pipe \/ Fork \/ Recurse \/ CloseRead \/ Wait
Next == ShellStep \/ \E c \in Kids : Exec(c) \/ Quit(c) \/ Produce(c) \/ Filter(c)

Spec == Init /\ [][Next]_vars

\* The machine does not stop while anything can move.
FairSpec == Spec /\ WF_vars(Next)

-----------------------------------------------------------------------------
\* The prompt comes back when the pipeline is done: every command of a
\* foreground pipeline has ended and was waited for, also those before or
\* after a fork() that failed.  And a command sees the end of its input when
\* the one before it has ended: no write end stays open in the shell, or in
\* a command that does not write to it, unless pipe() failed.
NothingLeft ==
  /\ spc = "prompt" =>
       \A c \in Kids : child[c].fg => child[c].state \in {"none", "reaped"}
  /\ pipefails = 0 =>
       /\ spc = "prompt" => \A end \in ends : end[2] = "r"
       /\ \A c \in Kids : child[c].state = "running" =>
            \A end \in child[c].ends : end[2] = "w" => end = child[c].out

\* test_execute.c:274: after a pipeline the shell has both ends of the pipe
\* closed.  The code keeps it for two commands; of more, it leaves open the
\* read end that goes to each command but the last.
EndsClosed == spc = "prompt" => ends = {}

\* The shell comes to the end of its input.
Returned == session = << >> /\ spc = "prompt"

\* It waits for a command that writes without end into a pipe whose read end
\* it has itself left open: execute.c:130 has lost its number.
WaitsForItself ==
  /\ spc = "wait"
  /\ \E c \in Kids : /\ child[c].state = "running" /\ child[c].command.does = "source"
                     /\ child[c].out[2] = "w" /\ ReadEnd(child[c].out[1]) \in ends
=============================================================================
