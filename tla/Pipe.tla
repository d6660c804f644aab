-------------------------------- MODULE Pipe --------------------------------
(***************************************************************************)
(* Pipes (kernel/pipe.c): a ring of PIPESIZE bytes between two counters,   *)
(* under a lock of its own, and the handlers pipewrite, piperead and       *)
(* pipeclose.  A handler keeps pi->lock until it sleeps or returns;        *)
(* pipewrite looks at p->killed, which that lock does not protect, before  *)
(* each byte, so a step of it is one byte.  sleep() releases pi->lock and  *)
(* blocks in one step, as Proc shows.  The module Files has the callers.   *)
(***************************************************************************)
EXTENDS Integers, Sequences, FiniteSets

CONSTANTS
  NPROC,      \* processes
  NPIPE,      \* pages that kalloc() can hand out for pipes
  PIPESIZE,   \* bytes in the ring
  WORD,       \* a counter is taken modulo WORD (2^32 in the code)
  MaxN,       \* the longest read() or write()
  NoResult    \* no read() is about to return

PipeAssumption ==
  /\ NPROC \in Nat \ {0} /\ NPIPE \in Nat \ {0} /\ MaxN \in Nat \ {0}
  /\ PIPESIZE \in Nat \ {0} /\ WORD \in Nat
  /\ WORD % PIPESIZE = 0 /\ PIPESIZE < WORD

Procs == 1..NPROC
Pipes == 1..NPIPE

\* The bytes of a write() of n bytes are n, n - 1, ..., 1: enough to tell
\* a lost, repeated or misplaced byte.
Bytes == 1..MaxN

VARIABLES
  pipes,      \* struct pipe, and whether its page is allocated
  pc,         \* where each process is
  cur,        \* the pipe its call works on
  left,       \* n - i, the bytes its call has still to move
  killed,     \* p->killed
  result,     \* what piperead() is about to return, or NoResult
  gaveup      \* bookkeeping: the pipes that a killed writer left without wakeup

thread == <<cur, left, killed, result>>

\* Unsigned arithmetic.  (Mutant: the counters never wrap around.)
Inc_Unbounded(n, k) == n + k
Inc(n, k) == (n + k) % WORD

Pipe(readable, writable, page) ==
  [page |-> page, lock |-> 0, readopen |-> readable, writeopen |-> writable,
   nread |-> 0, nwrite |-> 0, data |-> [i \in 0..(PIPESIZE - 1) |-> 1]]

\* The bytes under way.
Count(pi) == (pipes[pi].nwrite - pipes[pi].nread) % WORD
Content(pi) ==
  [k \in 1..Count(pi) |-> pipes[pi].data[Inc(pipes[pi].nread, k - 1) % PIPESIZE]]

InitPipe ==
  /\ pipes = [pi \in Pipes |-> Pipe(FALSE, FALSE, FALSE)]
  /\ cur = [p \in Procs |-> 1]
  /\ left = [p \in Procs |-> 0]
  /\ killed = [p \in Procs |-> FALSE]
  /\ result = [p \in Procs |-> NoResult]
  /\ gaveup = {}

-----------------------------------------------------------------------------
Goto(p, step) == pc' = [pc EXCEPT ![p] = step]

\* Where a process goes on that sleep() has let go.
Woken == [sleep_nread |-> "read", sleep_nwrite |-> "write"]

\* wakeup(chan) on a counter of the pipe of p, which goes on at step.
WakeupAndGoto(p, chan, step) ==
  pc' = [q \in Procs |-> IF q = p THEN step
                         ELSE IF pc[q] = chan /\ cur[q] = cur[p] THEN Woken[chan]
                         ELSE pc[q]]

Release(p) == pipes' = [pipes EXCEPT ![cur[p]].lock = 0]

\* acquire(&pi->lock), on entry or at the end of sleep().
Locked == [read |-> "reading", write |-> "writing",
           close_read |-> "closing_read", close_write |-> "closing_write"]
AcquirePipe(p) ==
  /\ pc[p] \in DOMAIN Locked
  /\ pipes[cur[p]].lock = 0
  /\ pipes' = [pipes EXCEPT ![cur[p]].lock = p]
  /\ Goto(p, Locked[pc[p]])
  /\ UNCHANGED <<thread, gaveup>>

-----------------------------------------------------------------------------
(* pipewrite() *)

GivesUp(p) == ~pipes[cur[p]].readopen \/ killed[p]

\* nwrite == nread + PIPESIZE.  (Mutant: off by one.)
Full_Later(pi) == pipes[pi].nwrite = Inc(pipes[pi].nread, PIPESIZE + 1)
Full(pi) == pipes[pi].nwrite = Inc(pipes[pi].nread, PIPESIZE)

\* Nobody reads any more, or the writer is killed: return -1.
WriteGivesUp(p) ==
  /\ pc[p] = "writing" /\ left[p] > 0
  /\ GivesUp(p)
  /\ gaveup' = IF Count(cur[p]) > 0 THEN gaveup \cup {cur[p]} ELSE gaveup
  /\ Release(p)
  /\ Goto(p, "return")
  /\ UNCHANGED thread

\* The ring is full: wake the readers and sleep.  (Mutant: they are woken
\* at the end only.)
WriteSleeps_NoWakeup(p) ==
  /\ pc[p] = "writing" /\ left[p] > 0
  /\ ~GivesUp(p) /\ Full(cur[p])
  /\ Goto(p, "sleep_nwrite")
  /\ Release(p)
  /\ UNCHANGED <<thread, gaveup>>
WriteSleeps(p) ==
  /\ pc[p] = "writing" /\ left[p] > 0
  /\ ~GivesUp(p) /\ Full(cur[p])
  /\ WakeupAndGoto(p, "sleep_nread", "sleep_nwrite")
  /\ Release(p)
  /\ gaveup' = gaveup \ {cur[p]}
  /\ UNCHANGED thread

WriteByte(p) ==
  LET pi == cur[p] IN
  /\ pc[p] = "writing" /\ left[p] > 0
  /\ ~GivesUp(p) /\ ~Full(pi)
  /\ pipes' = [pipes EXCEPT ![pi].data[pipes[pi].nwrite % PIPESIZE] = left[p],
                            ![pi].nwrite = Inc(@, 1)]
  /\ left' = [left EXCEPT ![p] = @ - 1]
  /\ UNCHANGED <<pc, cur, killed, result, gaveup>>

\* The loop is over, or copyin() failed: wake the readers and return i.
WriteReturns(p) ==
  /\ pc[p] = "writing"
  /\ left[p] > 0 => ~GivesUp(p) /\ ~Full(cur[p])
  /\ WakeupAndGoto(p, "sleep_nread", "return")
  /\ Release(p)
  /\ gaveup' = gaveup \ {cur[p]}
  /\ UNCHANGED thread

-----------------------------------------------------------------------------
(* piperead() *)

\* nread == nwrite && writeopen.
MustWait(pi) == Count(pi) = 0 /\ pipes[pi].writeopen

\* Return -1 when killed, else sleep.
ReadWaits(p) ==
  /\ pc[p] = "reading"
  /\ MustWait(cur[p])
  /\ Goto(p, IF killed[p] THEN "return" ELSE "sleep_nread")
  /\ Release(p)
  /\ UNCHANGED <<thread, gaveup>>

\* The copying loop takes what is there, at most n bytes, or stops at a
\* copyout() that fails, after nread++: that byte is lost.  Then it wakes
\* the writers.
ReadReturns(p) ==
  LET pi == cur[p]
      most == IF Count(pi) < left[p] THEN Count(pi) ELSE left[p]
      Copies(k, fault) ==
        /\ result' = [result EXCEPT ![p] =
                        [bytes |-> SubSeq(Content(pi), 1, k), fault |-> fault]]
        /\ pipes' = [pipes EXCEPT ![pi].nread = Inc(@, IF fault THEN k + 1 ELSE k),
                                  ![pi].lock = 0]
  IN
  /\ pc[p] = "reading" /\ ~MustWait(pi)
  /\ Copies(most, FALSE) \/ \E k \in 0..(most - 1) : Copies(k, TRUE)
  /\ WakeupAndGoto(p, "sleep_nwrite", "return")
  /\ UNCHANGED <<cur, left, killed, gaveup>>

-----------------------------------------------------------------------------
(* pipeclose(): one end is closed and the other side woken; the page goes  *)
(* back when both ends are closed, once the lock is released.              *)

CloseRead(p) ==
  /\ pc[p] = "closing_read"
  /\ pipes' = [pipes EXCEPT ![cur[p]].readopen = FALSE, ![cur[p]].lock = 0]
  /\ WakeupAndGoto(p, "sleep_nwrite", IF pipes[cur[p]].writeopen THEN "close" ELSE "kfree")
  /\ UNCHANGED <<thread, gaveup>>

CloseWrite(p) ==
  /\ pc[p] = "closing_write"
  /\ pipes' = [pipes EXCEPT ![cur[p]].writeopen = FALSE, ![cur[p]].lock = 0]
  /\ WakeupAndGoto(p, "sleep_nread", IF pipes[cur[p]].readopen THEN "close" ELSE "kfree")
  /\ gaveup' = gaveup \ {cur[p]}
  /\ UNCHANGED thread

\* kfree(pi).  What the page holds from here on means nothing.
FreePipe(p) ==
  /\ pc[p] = "kfree"
  /\ pipes' = [pipes EXCEPT ![cur[p]] = Pipe(FALSE, FALSE, FALSE)]
  /\ gaveup' = gaveup \ {cur[p]}
  /\ Goto(p, "close")
  /\ UNCHANGED thread

PipeStep(p) ==
  \/ AcquirePipe(p)
  \/ WriteGivesUp(p) \/ WriteSleeps(p) \/ WriteByte(p) \/ WriteReturns(p)
  \/ ReadWaits(p) \/ ReadReturns(p)
  \/ CloseRead(p) \/ CloseWrite(p) \/ FreePipe(p)
=============================================================================
