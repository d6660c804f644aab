----------------------------- MODULE MCStorage -----------------------------
(***************************************************************************)
(* Small instances of BufferCache, Log, Inodes and FileBlocks, side by     *)
(* side: "part" says which of them runs, and the others stay in their      *)
(* initial states.                                                         *)
(***************************************************************************)
EXTENDS BufferCache, MCInodes

VARIABLES
  part,
  lpc, ticket, wrote, data, pins, lh, outstanding, committing, tail, booting,
  home, dlog, dhead, ops, crashes,
  dinode, saved, itable, fd, todo, at, ip, dp, lp, rest, puts, then, stops,
  fcache, fsaved, flogged, finode, fowner, foff, fwrote, fpc, fscript, fdone, ftot, frees,
  fstops

logvars == <<lpc, ticket, wrote, data, pins, lh, outstanding, committing, tail, booting,
             home, dlog, dhead, ops, crashes>>
inodevars == <<dinode, saved, itable, fd, todo, at, ip, dp, lp, rest, puts, then, stops>>
filevars == <<fcache, fsaved, flogged, finode, fowner, foff, fwrote, fpc, fscript, fdone, ftot,
              frees, fstops>>

-----------------------------------------------------------------------------
Zeroes == [n \in Blocks |-> 0]

\* A pinned block while another process presses on the cache, with more
\* blocks than buffers; three requests at once, with descriptors for two
\* and one left over; three callers of one block.
BlockPrograms ==
  {<<<<LogWrite(1), Read(2), Install(1)>>, <<Write(3), Read(4), Read(1)>>, << >>>>,
   <<<<Write(1)>>, <<Read(2)>>, <<Write(3)>>>>,
   <<<<Write(1)>>, <<LogWrite(1), Install(1)>>, <<Read(1)>>>>}

\* Three calls that change a block each; two reserve the whole log.
L == INSTANCE Log WITH
  Blocks <- {1, 2}, MAXOPBLOCKS <- 3, LOGSIZE <- 6, nlog <- 6, OpBlocks <- 1,
  MaxOps <- 3, MaxCrashes <- 1, Nobody <- 0, pc <- lpc, disk <- home

I == INSTANCE Inodes WITH
  Procs <- {1, 2}, NINODE <- 4, Tree <- OneFile, Scripts <- Programs, MaxCrashes <- 1,
  script <- todo, pc <- at, crashes <- stops

\* Two files and a disk for four blocks: a chunk that is not aligned and
\* needs the indirect block; a file is truncated under a reader and writer,
\* and beside a writer that finds the disk full.
Access(op, h, n) == [op |-> op, h |-> h, n |-> n]
FilePrograms ==
  {<<<<Access("write", 1, 1), Access("write", 1, 4)>>,
     <<Access("write", 2, 1), Access("trunc", 1, 0)>>>>,
   <<<<Access("write", 1, 2), Access("read", 1, 1), Access("write", 1, 1)>>,
     <<Access("write", 3, 1), Access("trunc", 1, 0)>>>>,
   <<<<Access("write", 1, 5), Access("trunc", 1, 0)>>, <<Access("write", 2, 2)>>>>}

W == INSTANCE FileBlocks WITH
  Procs <- {1, 2}, FileOf <- <<1, 2, 1>>, NBLOCKS <- 4, BSIZE <- 2, NDIRECT <- 1,
  MAXOPBLOCKS <- 6, Scripts <- FilePrograms, MaxCrashes <- 1,
  cache <- fcache, saved <- fsaved, logged <- flogged, inode <- finode, owner <- fowner,
  off <- foff, wrote <- fwrote, pc <- fpc, script <- fscript, done <- fdone, tot <- ftot,
  crashes <- fstops

-----------------------------------------------------------------------------
Any(S) == CHOOSE x \in S : TRUE

StorageInit ==
  /\ part \in {"blocks", "log", "inodes", "files"}
  /\ Init /\ L!Init /\ I!Init /\ W!Init
  /\ part # "blocks" => script = Any(Scripts)
  /\ part # "inodes" => todo = Any(Programs)
  /\ part # "files" => fscript = Any(FilePrograms)

BlockStep == part = "blocks" /\ Next /\ UNCHANGED <<part, logvars, inodevars, filevars>>
InodeStep == part = "inodes" /\ I!Next /\ UNCHANGED <<part, vars, logvars, filevars>>
FileStep == part = "files" /\ W!Next /\ UNCHANGED <<part, vars, logvars, inodevars>>
LogStep(A) == part = "log" /\ A /\ UNCHANGED <<part, vars, inodevars, filevars>>

StorageNext == BlockStep \/ LogStep(L!Next) \/ InodeStep \/ FileStep

storagevars == <<part, vars, logvars, inodevars, filevars>>

\* The fairness of the four; no part runs when another one may.
StorageSpec ==
  /\ StorageInit /\ [][StorageNext]_storagevars
  /\ WF_storagevars(BlockStep \/ InodeStep \/ FileStep \/ LogStep(L!Progress))

\* What the modules say of their parts, and that all calls return: every
\* request, begin_op(), end_op() and system call.
BlocksAccounted == W!BlocksAccounted
NoPanic == (part = "inodes" => I!NoPanic) /\ (part = "files" => W!NoPanic)
CountsMatch == part = "inodes" => I!RefsMatch /\ I!LinksMatch
AllCallsReturn ==
  <>[](CASE part = "blocks" -> Returned
         [] part = "log" -> L!Returned
         [] part = "inodes" -> I!Returned
         [] part = "files" -> W!Returned)
=============================================================================
