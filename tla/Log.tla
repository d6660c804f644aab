--------------------------------- MODULE Log ---------------------------------
(***************************************************************************)
(* The file system's log (kernel/log.c of lab03/so22lab3g02/final): group  *)
(* commit of the system calls between begin_op() and end_op(), and the     *)
(* recovery after a crash at any moment.                                   *)
(*                                                                         *)
(* A step is one critical section of log.lock, or one write of a disk      *)
(* block: bwrite() returns when the block is on the disk, and a block is   *)
(* there or not (the disk does not tear it).  bread() .. log_write() ..    *)
(* brelse() is one step of the caller, who has the buffer locked.          *)
(*                                                                         *)
(* The buffer cache (kernel/bio.c) is the content that bread() returns for *)
(* each block, and the references that log_write() adds: a buffer without  *)
(* references can be recycled at any time, and its content is then what    *)
(* the disk has.  The blocks of the log itself are written through.        *)
(***************************************************************************)
EXTENDS Integers, Sequences, FiniteSets

CONSTANTS
  Procs,        \* processes in system calls that change files
  Blocks,       \* the blocks of the file system, home of what is logged
  MAXOPBLOCKS,  \* the log space that begin_op() reserves for a call
  LOGSIZE,      \* the blocks that the in-memory header has place for
  nlog,         \* the blocks of the log on the disk, header included
  OpBlocks,     \* the blocks that a system call really changes, at most
  MaxOps,       \* bound: system calls that begin
  MaxCrashes,   \* bound: crashes
  Nobody        \* not a process

\* mkfs makes nlog equal to LOGSIZE, so LOGSIZE - 1 blocks fit beside the
\* header; calls stay so far below MAXOPBLOCKS that this does not matter.
\* The process table is an array: there are NPROC processes.
ASSUME LogAssumption ==
  /\ MAXOPBLOCKS \in Nat /\ LOGSIZE \in Nat /\ nlog \in Nat
  /\ OpBlocks \in Nat /\ OpBlocks < MAXOPBLOCKS
  /\ 2 * MAXOPBLOCKS <= LOGSIZE /\ nlog = LOGSIZE
  /\ MaxOps \in Nat /\ MaxCrashes \in Nat
  /\ IsFiniteSet(Procs) /\ Nobody \notin Procs

VARIABLES
  pc,           \* where each process is
  ticket,       \* the number of its system call, what it writes in blocks
  wrote,        \* the blocks it has changed in this call
  data,         \* what bread() returns for each block
  pins,         \* references to its buffer made by bpin()
  lh,           \* log.lh, the numbers of the blocks in the log
  outstanding,  \* log.outstanding
  committing,   \* log.committing
  tail,         \* the loop variable of the walk over the log
  booting,      \* the step of recover_from_log(), or "up"
  disk,         \* the disk: each block at home,
  dlog,         \*   the blocks of the log,
  dhead,        \*   and its header
  ops,          \* system calls begun
  crashes       \* crashes so far

calls == <<pc, ticket, wrote, ops>>
buffers == <<data, pins>>
log == <<lh, outstanding, committing>>
ondisk == <<disk, dlog, dhead>>
vars == <<calls, buffers, log, tail, booting, ondisk, crashes>>

Contents == 0..MaxOps
Slots == 1..LOGSIZE

\* Inside commit() and the end of end_op().
Committing == {"write_log", "write_head", "install", "clear_head", "wake"}
Steps == {"user", "begin", "asleep", "op"} \cup Committing
Recovery == {"read_head", "install", "clear_head", "up"}

TypeOK ==
  /\ pc \in [Procs -> Steps]
  /\ ticket \in [Procs -> Contents]
  /\ wrote \in [Procs -> SUBSET Blocks]
  /\ data \in [Blocks -> Contents]
  /\ pins \in [Blocks -> Nat]
  /\ lh \in Seq(Blocks) /\ Len(lh) <= LOGSIZE
  /\ outstanding \in Nat
  /\ committing \in BOOLEAN
  /\ tail \in Slots
  /\ booting \in Recovery
  /\ disk \in [Blocks -> Contents]
  /\ dlog \in [Slots -> Contents]
  /\ dhead \in Seq(Blocks) /\ Len(dhead) <= LOGSIZE
  /\ ops \in Contents
  /\ crashes \in 0..MaxCrashes

Init ==
  /\ pc = [p \in Procs |-> "user"]
  /\ ticket = [p \in Procs |-> 0]
  /\ wrote = [p \in Procs |-> { }]
  /\ data = [b \in Blocks |-> 0]
  /\ pins = [b \in Blocks |-> 0]
  /\ lh = << >>
  /\ outstanding = 0
  /\ committing = FALSE
  /\ tail = 1
  /\ booting = "read_head"
  /\ disk = [b \in Blocks |-> 0]
  /\ dlog = [i \in Slots |-> 0]
  /\ dhead = << >>
  /\ ops = 0
  /\ crashes = 0

-----------------------------------------------------------------------------
(* begin_op(), log_write(), end_op() *)

\* begin_op() is called; the bound on the calls.
Call(p) ==
  /\ booting = "up"
  /\ pc[p] = "user"
  /\ ops < MaxOps
  /\ ops' = ops + 1
  /\ ticket' = [ticket EXCEPT ![p] = ops + 1]
  /\ pc' = [pc EXCEPT ![p] = "begin"]
  /\ UNCHANGED <<wrote, buffers, log, tail, booting, ondisk, crashes>>

\* This call might exhaust the log.  (Mutant: only what is logged counts.)
NoSpace_Unreserved == Len(lh) + MAXOPBLOCKS > LOGSIZE
NoSpace == Len(lh) + (outstanding + 1) * MAXOPBLOCKS > LOGSIZE

\* The loop of begin_op(), under log.lock: sleep, or enter.
BeginOp(p) ==
  /\ pc[p] = "begin"
  /\ \/ /\ committing \/ NoSpace
        /\ pc' = [pc EXCEPT ![p] = "asleep"]
        /\ UNCHANGED outstanding
     \/ /\ ~committing /\ ~NoSpace
        /\ outstanding' = outstanding + 1
        /\ pc' = [pc EXCEPT ![p] = "op"]
  /\ UNCHANGED <<ticket, wrote, ops, buffers, lh, committing, tail, booting,
                  ondisk, crashes>>

\* log_write() panics.
LogFull == Len(lh) >= LOGSIZE \/ Len(lh) >= nlog - 1

Logged(b) == \E i \in 1..Len(lh) : lh[i] = b

\* (Mutant: no bpin(), the buffer can be recycled before the commit.)
Pin_None(b) == pins' = pins
Pin(b) == pins' = [pins EXCEPT ![b] = @ + 1]

\* bread(), a change, log_write(), brelse().  The first change of a block
\* since the last commit adds it to the log and pins its buffer.
LogWrite(p, b) ==
  /\ pc[p] = "op"
  /\ b \in wrote[p] \/ Cardinality(wrote[p]) < OpBlocks
  /\ ~LogFull
  /\ wrote' = [wrote EXCEPT ![p] = @ \cup {b}]
  /\ data' = [data EXCEPT ![b] = ticket[p]]
  /\ \/ Logged(b) /\ UNCHANGED <<lh, pins>>
     \/ ~Logged(b) /\ lh' = Append(lh, b) /\ Pin(b)
  /\ UNCHANGED <<pc, ticket, ops, outstanding, committing, tail, booting,
                  ondisk, crashes>>

\* wakeup(&log), together with a step of p.
WakeAnd(p, step) ==
  [q \in Procs |-> IF q = p THEN step ELSE IF pc[q] = "asleep" THEN "begin" ELSE pc[q]]

\* Where commit() begins: it has nothing to do for an empty log.
FirstStep == IF lh = << >> THEN "wake" ELSE "write_log"

\* end_op() under log.lock: the last call commits.
EndOp(p) ==
  /\ pc[p] = "op"
  /\ ~committing
  /\ outstanding' = outstanding - 1
  /\ committing' = (outstanding = 1)
  /\ pc' = IF outstanding = 1 THEN [pc EXCEPT ![p] = FirstStep] ELSE WakeAnd(p, "user")
  /\ wrote' = [wrote EXCEPT ![p] = { }]
  /\ ticket' = [ticket EXCEPT ![p] = 0]
  /\ UNCHANGED <<ops, buffers, lh, tail, booting, ondisk, crashes>>

-----------------------------------------------------------------------------
(* commit() *)

Goto(p, step) == pc' = [pc EXCEPT ![p] = step]

\* One turn of a loop over the log, and where it goes on.
Turn(n) == tail' = IF tail < n THEN tail + 1 ELSE 1
AtEnd(n) == tail >= n

\* One turn of write_log(): a block from the cache to the log.
WriteLog(p) ==
  /\ pc[p] = "write_log"
  /\ dlog' = [dlog EXCEPT ![tail] = data[lh[tail]]]
  /\ Turn(Len(lh))
  /\ Goto(p, IF AtEnd(Len(lh)) THEN "write_head" ELSE "write_log")
  /\ UNCHANGED <<ticket, wrote, ops, buffers, log, booting, disk, dhead, crashes>>

\* write_head(): the transaction is on the disk.
WriteHead(p) ==
  /\ pc[p] = "write_head"
  /\ dhead' = lh
  /\ Goto(p, "install")
  /\ UNCHANGED <<ticket, wrote, ops, buffers, log, tail, booting, disk, dlog, crashes>>

\* One turn of install_trans(): a block of the log to its home, through the
\* buffer that bread() returns.
Install ==
  LET b == lh[tail] IN
  /\ data' = [data EXCEPT ![b] = dlog[tail]]
  /\ disk' = [disk EXCEPT ![b] = dlog[tail]]
  /\ Turn(Len(lh))

\* (Mutant: install_trans() leaves the buffer pinned.)
Unpin_None(b) == pins' = pins
Unpin(b) == pins' = [pins EXCEPT ![b] = @ - 1]

InstallTrans(p) ==
  /\ pc[p] = "install"
  /\ Install
  /\ Unpin(lh[tail])
  /\ Goto(p, IF AtEnd(Len(lh)) THEN "clear_head" ELSE "install")
  /\ UNCHANGED <<ticket, wrote, ops, log, booting, dlog, dhead, crashes>>

\* log.lh.n = 0 and write_head(): the log is empty.
ClearHead(p) ==
  /\ pc[p] = "clear_head"
  /\ lh' = << >>
  /\ dhead' = << >>
  /\ Goto(p, "wake")
  /\ UNCHANGED <<ticket, wrote, ops, buffers, outstanding, committing, tail,
                  booting, disk, dlog, crashes>>

\* (Mutant: committing is not reset.)
EndCommit_NoReset(p) ==
  /\ pc[p] = "wake"
  /\ pc' = WakeAnd(p, "user")
  /\ UNCHANGED <<ticket, wrote, ops, buffers, log, tail, booting, ondisk,
                  crashes>>

\* The end of end_op().
EndCommit(p) ==
  /\ pc[p] = "wake"
  /\ committing' = FALSE
  /\ pc' = WakeAnd(p, "user")
  /\ UNCHANGED <<ticket, wrote, ops, buffers, lh, outstanding, tail, booting,
                  ondisk, crashes>>

-----------------------------------------------------------------------------
(* The cache, a crash, and initlog() *)

\* bget() recycles a buffer without references, and somebody reads the
\* block again.
Recycle(b) ==
  /\ booting = "up"
  /\ pins[b] = 0
  /\ data' = [data EXCEPT ![b] = disk[b]]
  /\ UNCHANGED <<calls, pins, log, tail, booting, ondisk, crashes>>

\* The power fails.  What is on the disk stays; initlog() finds the rest
\* as the C program starts.
Crash ==
  /\ crashes < MaxCrashes
  /\ crashes' = crashes + 1
  /\ pc' = [p \in Procs |-> "user"]
  /\ ticket' = [p \in Procs |-> 0]
  /\ wrote' = [p \in Procs |-> { }]
  /\ data' = disk
  /\ pins' = [b \in Blocks |-> 0]
  /\ lh' = << >>
  /\ outstanding' = 0
  /\ committing' = FALSE
  /\ tail' = 1
  /\ booting' = "read_head"
  /\ UNCHANGED <<ops, ondisk>>

\* recover_from_log(), in the first process before any other exists:
\* read_head().
ReadHead ==
  /\ booting = "read_head"
  /\ lh' = dhead
  /\ booting' = IF dhead = << >> THEN "clear_head" ELSE "install"
  /\ UNCHANGED <<calls, buffers, outstanding, committing, tail, ondisk, crashes>>

\* (Mutant: install_trans() takes back references after a crash, too.)
RecoverInstall_Unpins ==
  /\ booting = "install"
  /\ Install
  /\ Unpin(lh[tail])
  /\ booting' = IF AtEnd(Len(lh)) THEN "clear_head" ELSE "install"
  /\ UNCHANGED <<calls, log, dlog, dhead, crashes>>

\* install_trans(1), which finds no buffer pinned.
RecoverInstall ==
  /\ booting = "install"
  /\ Install
  /\ booting' = IF AtEnd(Len(lh)) THEN "clear_head" ELSE "install"
  /\ UNCHANGED <<calls, pins, log, dlog, dhead, crashes>>

\* log.lh.n = 0 and write_head().
RecoverClear ==
  /\ booting = "clear_head"
  /\ lh' = << >>
  /\ dhead' = << >>
  /\ booting' = "up"
  /\ UNCHANGED <<calls, buffers, outstanding, committing, tail, disk, dlog, crashes>>

-----------------------------------------------------------------------------
Commits(p) ==
  WriteLog(p) \/ WriteHead(p) \/ InstallTrans(p) \/ ClearHead(p) \/ EndCommit(p)

Recover == ReadHead \/ RecoverInstall \/ RecoverClear

Next ==
  \/ \E p \in Procs : Call(p) \/ BeginOp(p) \/ EndOp(p) \/ Commits(p)
  \/ \E p \in Procs, b \in Blocks : LogWrite(p, b)
  \/ \E b \in Blocks : Recycle(b)
  \/ Crash \/ Recover

Spec == Init /\ [][Next]_vars

\* What goes on as long as it can: somebody in begin_op(), end_op() or a
\* commit, and the recovery.  Every system call comes to its end_op().
\* Nothing makes a process call, a block recycled or a crash happen.
Progress == Recover \/ \E p \in Procs : BeginOp(p) \/ EndOp(p) \/ Commits(p)

FairSpec == Spec /\ WF_vars(Progress)

-----------------------------------------------------------------------------
(* Safety *)

InOp == {p \in Procs : pc[p] = "op"}

\* A system call that writes finds place in the log, however many overlap
\* with it or have ended since the last commit ("too big a transaction"),
\* and none ends, or writes, during a commit ("log.committing").
NoPanic == InOp # { } => ~LogFull /\ ~committing

\* Outside of a commit the buffers of the logged blocks, and no others, are
\* pinned, once: none can be recycled before it is installed, and no
\* reference is left behind that would use up the cache in the long run, or
\* given back twice (the types say that no count is negative).
PinsBalanced ==
  /\ TypeOK
  /\ booting = "up" /\ ~committing =>
       \A b \in Blocks : pins[b] = IF Logged(b) THEN 1 ELSE 0

\* What recovery makes of the disk: the blocks of a log with a header.
Durable ==
  [b \in Blocks |->
     IF \E i \in 1..Len(dhead) : dhead[i] = b
     THEN dlog[CHOOSE i \in 1..Len(dhead) : dhead[i] = b]
     ELSE disk[b]]

Committer ==
  IF \E p \in Procs : pc[p] \in Committing
  THEN CHOOSE p \in Procs : pc[p] \in Committing
  ELSE Nobody

Abstract == INSTANCE Transactions WITH
  mem <- IF booting = "up" THEN data ELSE Durable,
  durable <- Durable,
  active <- InOp,
  committer <- Committer

\* All or nothing: what a crash leaves is what the overlapping calls up to
\* some commit wrote, whatever the disk had of a later one, or of a
\* recovery; and an end_op() that commits returns after its commit.
ImplementsTransactions == Abstract!Spec

-----------------------------------------------------------------------------
(* Liveness, of FairSpec *)

\* Every begin_op() and end_op() returns, unless the machine crashes: the
\* sleepers are woken and the commits end.  (Only MaxOps calls begin.)
Returned == \A p \in Procs : pc[p] = "user"
CallsReturn == <>[]Returned
=============================================================================
