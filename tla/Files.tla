-------------------------------- MODULE Files --------------------------------
(***************************************************************************)
(* Pipes in the hands of processes: the table of open files                *)
(* (kernel/file.c), the descriptors of each process and the system calls   *)
(* pipe, dup, close, read and write (kernel/sysfile.c), and what fork(),   *)
(* exit() and kill() do to them (kernel/proc.c).  The files here are       *)
(* pipes.  A step of a process is what it does under one acquisition of    *)
(* ftable.lock or of pi->lock, with what follows on its own descriptors,   *)
(* which nobody else sees.                                                 *)
(***************************************************************************)
EXTENDS Pipe

CONSTANTS
  NOFILE,     \* descriptors of a process
  NFILE,      \* slots of ftable
  Scripts,    \* what the processes may do: functions Procs -> Seq(call names)
  MaxKills    \* calls of kill()

FilesAssumption ==
  NOFILE \in Nat \ {0} /\ NFILE \in Nat \ {0} /\ MaxKills \in Nat

Descriptors == 0..(NOFILE - 1)
FileSlots == 1..NFILE
NoFile == 0

VARIABLES
  ftable,     \* struct file of each slot
  ofile,      \* p->ofile, NoFile for a free descriptor
  held,       \* the files that a call has allocated, or has still to close: two at most
  leaving,    \* the process is inside exit()
  script,     \* the calls that each process has still to make
  kills       \* bookkeeping: the calls of kill()

vars == <<pipes, pc, thread, gaveup, ftable, ofile, held, leaving, script, kills>>

Sleeping == DOMAIN Woken
Steps == Sleeping \cup DOMAIN Locked \cup
  {"unused", "user", "alloc1", "alloc2", "alloc_page", "return", "reading",
   "writing", "closing_read", "closing_write", "kfree", "close", "zombie"}

TypeOK ==
  /\ pipes \in [Pipes ->
       [page : BOOLEAN, lock : 0..NPROC, readopen : BOOLEAN, writeopen : BOOLEAN,
        nread : 0..(WORD - 1), nwrite : 0..(WORD - 1), data : [0..(PIPESIZE - 1) -> Bytes]]]
  /\ gaveup \subseteq Pipes
  /\ pc \in [Procs -> Steps]
  /\ cur \in [Procs -> Pipes] /\ left \in [Procs -> 0..MaxN]
  /\ killed \in [Procs -> BOOLEAN] /\ leaving \in [Procs -> BOOLEAN]
  /\ ftable \in [FileSlots -> [ref : Nat, type : {"FD_NONE", "FD_PIPE"},
                               pipe : Pipes, writable : BOOLEAN]]
  /\ ofile \in [Procs -> [Descriptors -> FileSlots \cup {NoFile}]]
  /\ held \in [Procs -> Seq(FileSlots)]

Init ==
  /\ InitPipe
  /\ pc = [p \in Procs |-> IF p = 1 THEN "user" ELSE "unused"]
  /\ ftable = [f \in FileSlots |->
                 [ref |-> 0, type |-> "FD_NONE", pipe |-> 1, writable |-> FALSE]]
  /\ ofile = [p \in Procs |-> [fd \in Descriptors |-> NoFile]]
  /\ held = [p \in Procs |-> << >>]
  /\ leaving = [p \in Procs |-> FALSE]
  /\ script \in Scripts
  /\ kills = 0

First(S) == CHOOSE x \in S : \A y \in S : x <= y
FreeFds(p) == {fd \in Descriptors : ofile[p][fd] = NoFile}
OpenFds(p) == Descriptors \ FreeFds(p)

\* A process in user mode makes the next call of its script.  usertrap()
\* has just found that it is not killed.
Calls(p, name) ==
  /\ pc[p] = "user" /\ ~killed[p]
  /\ script[p] # << >> /\ Head(script[p]) = name
  /\ script' = [script EXCEPT ![p] = Tail(@)]
  /\ UNCHANGED <<gaveup, kills, leaving, killed, result>>

\* The other steps of a call.
Inside == UNCHANGED <<gaveup, kills, leaving, killed, script>>

-----------------------------------------------------------------------------
(* fileclose(): the last reference takes the file apart; the end of a pipe *)
(* is closed afterwards, without ftable.lock, from a copy of the file.     *)

\* (Mutant: the type stays.)
TypeAfter_Kept(f) == ftable[f].type
TypeAfter(f) == IF ftable[f].ref = 1 THEN "FD_NONE" ELSE ftable[f].type
ClosesEnd(f) == ftable[f].ref = 1 /\ ftable[f].type = "FD_PIPE"

FileClose(p, f) ==
  /\ ftable[f].ref > 0
  /\ ftable' = [ftable EXCEPT ![f].ref = @ - 1, ![f].type = TypeAfter(f)]
  /\ IF ClosesEnd(f)
     THEN /\ cur' = [cur EXCEPT ![p] = ftable[f].pipe]
          /\ Goto(p, IF ftable[f].writable THEN "close_write" ELSE "close_read")
     ELSE UNCHANGED <<pc, cur>>
  /\ Inside /\ UNCHANGED <<pipes, left, result>>

\* The files that a call holds; or in exit() every open file, in the order of
\* descriptors.
CloseHeld(p) ==
  /\ pc[p] = "close" /\ held[p] # << >>
  /\ FileClose(p, Head(held[p]))
  /\ held' = [held EXCEPT ![p] = Tail(@)]
  /\ UNCHANGED ofile
CloseOpen(p) ==
  /\ pc[p] = "close" /\ leaving[p] /\ OpenFds(p) # {}
  /\ FileClose(p, ofile[p][First(OpenFds(p))])
  /\ ofile' = [ofile EXCEPT ![p][First(OpenFds(p))] = NoFile]
  /\ UNCHANGED held

\* The call is over.
Return(p) ==
  /\ \/ pc[p] = "return"
     \/ pc[p] = "close" /\ held[p] = << >> /\ (leaving[p] => OpenFds(p) = {})
  /\ cur' = [cur EXCEPT ![p] = 1]
  /\ left' = [left EXCEPT ![p] = 0]
  /\ result' = [result EXCEPT ![p] = NoResult]
  /\ Goto(p, IF leaving[p] THEN "zombie" ELSE "user")
  /\ Inside /\ UNCHANGED <<pipes, ftable, ofile, held>>

-----------------------------------------------------------------------------
(* pipe(): sys_pipe() and pipealloc() *)

SysPipe(p) ==
  /\ Calls(p, "pipe")
  /\ Goto(p, "alloc1")
  /\ UNCHANGED <<pipes, cur, left, ftable, ofile, held>>

\* filealloc(), twice: the first free slot.
FreeFiles == {f \in FileSlots : ftable[f].ref = 0}

AllocFile(p) ==
  /\ pc[p] \in {"alloc1", "alloc2"} /\ FreeFiles # {}
  /\ ftable' = [ftable EXCEPT ![First(FreeFiles)].ref = 1]
  /\ held' = [held EXCEPT ![p] = Append(@, First(FreeFiles))]
  /\ Goto(p, IF pc[p] = "alloc1" THEN "alloc2" ELSE "alloc_page")
  /\ Inside /\ UNCHANGED <<pipes, cur, left, result, ofile>>

\* kalloc().
FreePages == {pi \in Pipes : ~pipes[pi].page}

\* pipealloc() closes the files that it has: no other file, or no page.
AllocFails(p) ==
  /\ \/ pc[p] \in {"alloc1", "alloc2"} /\ FreeFiles = {}
     \/ pc[p] = "alloc_page" /\ FreePages = {}
  /\ Goto(p, "close")
  /\ Inside /\ UNCHANGED <<pipes, cur, left, result, ftable, ofile, held>>

\* With its page the pipe and both files are filled in, and fdalloc()
\* installs them.  Without two free descriptors, or when copyout() fails,
\* the descriptors are taken back and both files closed.
MakePipe(p) ==
  LET pi == First(FreePages)
      rf == held[p][1]
      wf == held[p][2]
      fd0 == First(FreeFds(p))
      fd1 == First(FreeFds(p) \ {fd0})
      File(w) == [ref |-> 1, type |-> "FD_PIPE", pipe |-> pi, writable |-> w]
  IN
  /\ pc[p] = "alloc_page" /\ FreePages # {}
  /\ pipes' = [pipes EXCEPT ![pi] = Pipe(TRUE, TRUE, TRUE)]
  /\ ftable' = [ftable EXCEPT ![rf] = File(FALSE), ![wf] = File(TRUE)]
  /\ \/ /\ Cardinality(FreeFds(p)) >= 2
        /\ ofile' = [ofile EXCEPT ![p][fd0] = rf, ![p][fd1] = wf]
        /\ held' = [held EXCEPT ![p] = << >>]
        /\ Goto(p, "user")
     \/ /\ Goto(p, "close")
        /\ UNCHANGED <<ofile, held>>
  /\ Inside /\ UNCHANGED <<cur, left, result>>

-----------------------------------------------------------------------------
(* dup(), close(), read() and write() *)

\* What the call may be about: an open descriptor, for dup() with another
\* one free and for read() and write() of the right end; a free process.
Fitting(p, name) ==
  CASE name \in {"read", "write"} ->
         {fd \in OpenFds(p) : ftable[ofile[p][fd]].writable = (name = "write")}
    [] name = "dup" -> IF FreeFds(p) = {} THEN {} ELSE OpenFds(p)
    [] name = "close" -> OpenFds(p)
    [] name = "fork" -> {np \in Procs : pc[np] = "unused"}

\* fdalloc() and filedup().
SysDup(p) ==
  /\ Calls(p, "dup")
  /\ \E fd \in Fitting(p, "dup") :
       /\ ofile' = [ofile EXCEPT ![p][First(FreeFds(p))] = ofile[p][fd]]
       /\ ftable' = [ftable EXCEPT ![ofile[p][fd]].ref = @ + 1]
  /\ UNCHANGED <<pipes, pc, cur, left, held>>

SysClose(p) ==
  /\ Calls(p, "close")
  /\ \E fd \in Fitting(p, "close") :
       /\ held' = [held EXCEPT ![p] = <<ofile[p][fd]>>]
       /\ ofile' = [ofile EXCEPT ![p][fd] = NoFile]
  /\ Goto(p, "close")
  /\ UNCHANGED <<pipes, cur, left, ftable>>

\* fileread() and filewrite(), which refuse the wrong end.
SysReadWrite(p, name) ==
  /\ Calls(p, name)
  /\ \E fd \in Fitting(p, name), n \in 1..MaxN :
       /\ cur' = [cur EXCEPT ![p] = ftable[ofile[p][fd]].pipe]
       /\ left' = [left EXCEPT ![p] = n]
  /\ Goto(p, name)
  /\ UNCHANGED <<pipes, ftable, ofile, held>>

\* -1: no descriptor will do, or no process is left.
Refused(p) ==
  /\ \E name \in {"dup", "close", "read", "write", "fork"} :
       Calls(p, name) /\ Fitting(p, name) = {}
  /\ UNCHANGED <<pipes, pc, cur, left, ftable, ofile, held>>

-----------------------------------------------------------------------------
(* fork(), exit() and kill() *)

\* filedup() of every open file of the parent.  One step: the parent keeps
\* each of the files open, so nobody can see the calls apart.  (Mutant: the
\* child shares the files without a reference of its own.)
ForkRef_None(f, p) == ftable[f].ref
ForkRef(f, p) == ftable[f].ref + Cardinality({fd \in Descriptors : ofile[p][fd] = f})

Fork(p) ==
  /\ Calls(p, "fork")
  /\ \E np \in Fitting(p, "fork") :
       /\ \A q \in 1..(np - 1) : pc[q] # "unused"
       /\ ofile' = [ofile EXCEPT ![np] = ofile[p]]
       /\ Goto(np, "user")
  /\ ftable' = [f \in FileSlots |-> [ftable[f] EXCEPT !.ref = ForkRef(f, p)]]
  /\ UNCHANGED <<pipes, cur, left, held>>

\* exit(), at the end of a program or forced by usertrap() on a killed
\* process.
Exit(p) ==
  /\ pc[p] = "user" /\ (killed[p] \/ script[p] = << >>)
  /\ leaving' = [leaving EXCEPT ![p] = TRUE]
  /\ Goto(p, "close")
  /\ UNCHANGED <<pipes, thread, gaveup, ftable, ofile, held, script, kills>>

\* kill() marks the process and ends its sleep().
Kill(p) ==
  /\ kills < MaxKills
  /\ pc[p] \notin {"unused", "zombie"} /\ ~killed[p]
  /\ kills' = kills + 1
  /\ killed' = [killed EXCEPT ![p] = TRUE]
  /\ pc' = IF pc[p] \in Sleeping THEN [pc EXCEPT ![p] = Woken[pc[p]]] ELSE pc
  /\ UNCHANGED <<pipes, cur, left, result, gaveup, ftable, ofile, held, leaving, script>>

-----------------------------------------------------------------------------
FileStep(p) ==
  \/ CloseHeld(p) \/ CloseOpen(p) \/ Return(p)
  \/ SysPipe(p) \/ AllocFile(p) \/ AllocFails(p) \/ MakePipe(p)
  \/ SysDup(p) \/ SysClose(p) \/ SysReadWrite(p, "read") \/ SysReadWrite(p, "write")
  \/ Refused(p) \/ Fork(p) \/ Exit(p) \/ Kill(p)

Next ==
  \E p \in Procs :
    \/ PipeStep(p) /\ UNCHANGED <<ftable, ofile, held, leaving, script, kills>>
    \/ FileStep(p)

Spec == Init /\ [][Next]_vars

-----------------------------------------------------------------------------
\* The references of a file are the descriptors of all processes that
\* point to it and the calls that hold it: none is missing, which would
\* close a pipe under somebody, and none too many, which would keep a
\* reader from its end of file for ever.
RefsMatch ==
  \A f \in FileSlots :
    ftable[f].ref =
      Cardinality({x \in Procs \X Descriptors : ofile[x[1]][x[2]] = f})
      + Cardinality({x \in Procs \X (1..2) : /\ x[2] \in DOMAIN held[x[1]]
                                              /\ held[x[1]][x[2]] = f})

\* An end of a pipe is open exactly as long as a file stands for it, or
\* the process that took the last reference is about to close it; a pipe
\* that somebody reads, writes or closes has its page, and nobody else
\* frees it.
EndsMatch ==
  \A pi \in Pipes :
    LET At(S) == {p \in Procs : cur[p] = pi /\ pc[p] \in S}
        Stands(w) == \E f \in FileSlots :
          ftable[f].ref > 0 /\ [ftable[f] EXCEPT !.ref = 0]
            = [ref |-> 0, type |-> "FD_PIPE", pipe |-> pi, writable |-> w]
        users == At(Steps \ {"unused", "user", "close", "return", "zombie",
                             "alloc1", "alloc2", "alloc_page"})
    IN
    /\ pipes[pi].readopen = (Stands(FALSE) \/ At({"close_read", "closing_read"}) # {})
    /\ pipes[pi].writeopen = (Stands(TRUE) \/ At({"close_write", "closing_write"}) # {})
    /\ users # {} => pipes[pi].page
    /\ At({"kfree"}) # {} => Cardinality(users) = 1

\* No wakeup is missed: whoever sleeps on a pipe that nobody holds sleeps
\* for a reason, a reader for want of bytes and a writer for want of room,
\* with the other end open.  One case is left out: a writer that finds
\* itself killed returns without waking the readers of the bytes that it
\* has already put into the ring.
NoLostWakeup ==
  \A p \in Procs :
    LET pi == cur[p] IN
    pipes[pi].lock = 0 =>
      /\ pc[p] = "sleep_nread" => pipes[pi].writeopen /\ (Count(pi) = 0 \/ pi \in gaveup)
      /\ pc[p] = "sleep_nwrite" => pipes[pi].readopen /\ Full(pi)

\* The bytes come out of a pipe as they went in.
Stream == INSTANCE ByteStream
  WITH stream <- [pi \in Pipes |-> Content(pi)],
       writers <- [pi \in Pipes |-> pipes[pi].writeopen]
ImplementsStream == Stream!StreamSpec
=============================================================================
