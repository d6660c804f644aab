----------------------------- MODULE FileBlocks -----------------------------
(***************************************************************************)
(* The blocks of files: the bitmap, direct and indirect blocks (balloc,    *)
(* bfree, bmap, itrunc, readi and writei of kernel/fs.c) under the system  *)
(* calls read, write and open with O_TRUNC (kernel/file.c, sysfile.c).     *)
(*                                                                         *)
(* An inode is locked from ilock() to iunlock(), so only the bitmap is     *)
(* shared meanwhile, under the lock of its buffer: a step allocates or     *)
(* frees one block.  The log (module Log) brings what log_write() was told *)
(* to the disk when the last open call ends.  BSIZE counts numbers: bytes  *)
(* of a file, or addresses in an indirect block.                           *)
(***************************************************************************)
EXTENDS Integers, Sequences, FiniteSets

CONSTANTS
  Procs,
  FileOf,       \* the inode of each open file
  NBLOCKS,      \* data blocks on the disk
  BSIZE, NDIRECT, MAXOPBLOCKS,
  Scripts,      \* functions Procs -> Seq(calls), a call being [op, h, n]
  MaxCrashes

Opened == DOMAIN FileOf
Inums == {FileOf[h] : h \in Opened}
DataBlocks == 1..NBLOCKS
NINDIRECT == BSIZE
MAXFILE == NDIRECT + NINDIRECT
None == 0                          \* no block, no process, and a zero byte
Byte(i) == -i                      \* what is written into file i

VARIABLES
  cache, saved,  \* bitmap, inodes and blocks, in buffers and on the disk
  logged,        \* the blocks in the log's header
  inode,         \* the inodes in memory
  owner,         \* ip->lock
  off,           \* f->off
  wrote,         \* the blocks that the call of each process has logged
  pc, script,
  done, tot,     \* what filewrite() and writei() have written
  frees,         \* the blocks that itrunc() has still to free
  crashes

disks == <<cache, saved, logged>>
calls == <<script, done, tot, frees>>
vars == <<disks, inode, owner, off, wrote, pc, calls, crashes>>

BitmapBlock == <<"bitmap", 0>>
InodeBlock(i) == <<"inode", i>>
DataBlock(b) == <<"data", b>>
LogNames == {BitmapBlock} \cup {InodeBlock(i) : i \in Inums} \cup {DataBlock(b) : b \in DataBlocks}

Zeroes == [k \in 0..(BSIZE - 1) |-> None]
EmptyInode == [addrs |-> [k \in 0..NDIRECT |-> None], size |-> 0]
EmptyDisk ==
  [used |-> {}, dinode |-> [i \in Inums |-> EmptyInode], block |-> [b \in DataBlocks |-> Zeroes]]

TypeOK ==
  LET Inode == [addrs : [0..NDIRECT -> {None} \cup DataBlocks], size : 0..(MAXFILE * BSIZE)]
      Disk == [used : SUBSET DataBlocks, dinode : [Inums -> Inode],
               block : [DataBlocks -> [0..(BSIZE - 1) -> {Byte(i) : i \in Inums} \cup {None} \cup DataBlocks]]]
  IN
  /\ cache \in Disk /\ saved \in Disk /\ logged \subseteq LogNames
  /\ inode \in [Inums -> Inode]
  /\ owner \in [Inums -> Procs \cup {None}]
  /\ off \in [Opened -> 0..(MAXFILE * BSIZE)]
  /\ wrote \in [Procs -> SUBSET LogNames]
  /\ pc \in [Procs -> {"user", "begin", "lock", "writei", "itrunc", "end"}]
  /\ \A p \in Procs : frees[p] \in Seq({None} \cup DataBlocks) /\ done[p] \in Nat /\ tot[p] \in Int

Init ==
  /\ cache = EmptyDisk /\ saved = EmptyDisk /\ logged = {}
  /\ inode = EmptyDisk.dinode
  /\ owner = [i \in Inums |-> None]
  /\ off = [h \in Opened |-> 0]
  /\ wrote = [p \in Procs |-> {}]
  /\ pc = [p \in Procs |-> "user"]
  /\ script \in Scripts
  /\ done = [p \in Procs |-> 0] /\ tot = [p \in Procs |-> 0]
  /\ frees = [p \in Procs |-> << >>]
  /\ crashes = 0

Goto(p, step) == pc' = [pc EXCEPT ![p] = step]
call(p) == Head(script[p])
File(p) == FileOf[call(p).h]
Lesser(a, b) == IF a < b THEN a ELSE b

-----------------------------------------------------------------------------
(* kernel/fs.c *)

LogWrite(p, names) ==
  /\ logged' = logged \cup names
  /\ wrote' = [wrote EXCEPT ![p] = @ \cup names]

\* balloc() and bzero(): the lowest free block, if there is one, with what
\* the caller makes of it in the disk it is given.
Free == DataBlocks \ cache.used
Lowest == CHOOSE b \in Free : \A c \in Free : b <= c
Marked(b) == [cache EXCEPT !.used = @ \cup {b}, !.block[b] = Zeroes]
AllocLog_NoBitmap(b) == {DataBlock(b)}
AllocLog(b) == {BitmapBlock, DataBlock(b)}

\* bmap(): the block of the bn-th part of an inode on the disk d.
Bmap(d, ip, bn) ==
  IF bn < NDIRECT THEN ip.addrs[bn]
  ELSE IF ip.addrs[NDIRECT] = None THEN None
  ELSE d.block[ip.addrs[NDIRECT]][bn - NDIRECT]

\* The part that p writes next.
Offset(p) == off[call(p).h] + tot[p]
Part(p) == Offset(p) \div BSIZE
NeedsIndirect(p) == Part(p) >= NDIRECT /\ inode[File(p)].addrs[NDIRECT] = None
Address(p) == Bmap(cache, inode[File(p)], Part(p))

\* bmap() allocates a direct or an indirect block into the inode, or a
\* block into an indirect block.
AllocAddr(p) ==
  LET b == Lowest
      ip == inode[File(p)]
  IN
  /\ pc[p] = "writei" /\ Address(p) = None /\ Free # {}
  /\ IF Part(p) < NDIRECT \/ NeedsIndirect(p)
     THEN /\ inode' = [inode EXCEPT ![File(p)].addrs[Lesser(Part(p), NDIRECT)] = b]
          /\ cache' = Marked(b)
          /\ LogWrite(p, AllocLog(b))
     ELSE LET a == ip.addrs[NDIRECT] IN
          /\ cache' = [Marked(b) EXCEPT !.block[a][Part(p) - NDIRECT] = b]
          /\ LogWrite(p, AllocLog(b) \cup {DataBlock(a)})
          /\ UNCHANGED inode
  /\ UNCHANGED <<saved, owner, off, pc, calls, crashes>>

\* How much filewrite() gives to one writei(), in a transaction of its own.
Chunk_Max == MAXOPBLOCKS * BSIZE
Chunk == ((MAXOPBLOCKS - 1 - 1 - 2) \div 2) * BSIZE
Wanted(p) == Lesser(call(p).n - done[p], Chunk)

\* The end of writei() with t bytes written and the disk d, f->off += r and
\* iunlock().
NewSize(p, t) ==
  LET ip == inode[File(p)] IN
  IF off[call(p).h] + t > ip.size THEN off[call(p).h] + t ELSE ip.size

Written(p, d, t, names) ==
  LET i == File(p)
      ip == [inode[i] EXCEPT !.size = NewSize(p, t)]
  IN
  /\ inode' = [inode EXCEPT ![i] = ip]
  /\ cache' = [d EXCEPT !.dinode[i] = ip]
  /\ LogWrite(p, names \cup {InodeBlock(i)})
  /\ off' = [off EXCEPT ![call(p).h] = @ + t]
  /\ tot' = [tot EXCEPT ![p] = t]
  /\ owner' = [owner EXCEPT ![i] = None]
  /\ Goto(p, "end")

\* The disk is full.
NoSpace(p) ==
  /\ pc[p] = "writei" /\ Address(p) = None /\ Free = {}
  /\ Written(p, cache, tot[p], {})
  /\ UNCHANGED <<saved, script, done, frees, crashes>>

\* The first k bytes of a part are copied into the buffer.
Room(p) == Lesser(Wanted(p) - tot[p], BSIZE - (Offset(p) % BSIZE))
Copied(p, k) ==
  LET at == Offset(p) % BSIZE IN
  [cache EXCEPT !.block[Address(p)] =
     [j \in 0..(BSIZE - 1) |-> IF j \in at..(at + k - 1) THEN Byte(File(p)) ELSE @[j]]]

CopyIn(p) ==
  LET t == tot[p] + Room(p)
      b == {DataBlock(Address(p))}
  IN
  /\ pc[p] = "writei" /\ Address(p) # None
  /\ IF t = Wanted(p)
     THEN Written(p, Copied(p, Room(p)), t, b)
     ELSE /\ cache' = Copied(p, Room(p))
          /\ LogWrite(p, b)
          /\ tot' = [tot EXCEPT ![p] = t]
          /\ UNCHANGED <<inode, owner, off, pc>>
  /\ UNCHANGED <<saved, script, done, frees, crashes>>

\* A bad address: what was copied of this part stays in the buffer, and is
\* not given to the log.
CopyInFails(p) ==
  /\ pc[p] = "writei" /\ Address(p) # None
  /\ \E k \in 0..(Room(p) - 1) : Written(p, Copied(p, k), tot[p], {})
  /\ UNCHANGED <<saved, script, done, frees, crashes>>

\* itrunc(): every block that the inode has, the indirect one after those
\* it lists.
Entries(d, b) == [k \in 1..NINDIRECT |-> d.block[b][k - 1]]
InUse(b) == b # None
Listed(d, ip) ==
  LET direct == [k \in 1..NDIRECT |-> ip.addrs[k - 1]]
      last == ip.addrs[NDIRECT]
  IN SelectSeq(direct \o (IF last = None THEN << >> ELSE Entries(d, last) \o <<last>>), InUse)

BFree(p) ==
  /\ pc[p] = "itrunc" /\ frees[p] # << >>
  /\ cache' = [cache EXCEPT !.used = @ \ {Head(frees[p])}]
  /\ LogWrite(p, {BitmapBlock})
  /\ frees' = [frees EXCEPT ![p] = Tail(@)]
  /\ UNCHANGED <<saved, inode, owner, off, pc, script, done, tot, crashes>>

TruncLog_NoInode(i) == {}
TruncLog(i) == {InodeBlock(i)}

Truncated(p) ==
  LET i == File(p) IN
  /\ pc[p] = "itrunc" /\ frees[p] = << >>
  /\ inode' = [inode EXCEPT ![i] = EmptyInode]
  /\ cache' = [cache EXCEPT !.dinode[i] = EmptyInode]
  /\ LogWrite(p, TruncLog(i))
  /\ owner' = [owner EXCEPT ![i] = None]
  /\ Goto(p, "end")
  /\ UNCHANGED <<saved, off, calls, crashes>>

-----------------------------------------------------------------------------
(* kernel/file.c, kernel/sysfile.c *)

\* begin_op(): the call may not start while the last one commits.
Begin(p) ==
  /\ \/ pc[p] = "user" /\ script[p] # << >> /\ call(p).op # "read"
     \/ pc[p] = "begin"
  /\ wrote' = [wrote EXCEPT ![p] = {}]
  /\ Goto(p, "lock")
  /\ UNCHANGED <<disks, inode, owner, off, calls, crashes>>

\* ilock(), and the tests at the start of writei().
Lock(p) ==
  LET i == File(p)
      o == off[call(p).h]
      refused == o > inode[i].size \/ o + Wanted(p) > MAXFILE * BSIZE
  IN
  /\ pc[p] = "lock" /\ owner[i] = None
  /\ \/ /\ call(p).op = "write" /\ refused
        /\ tot' = [tot EXCEPT ![p] = -1]
        /\ Goto(p, "end")
        /\ UNCHANGED <<owner, frees>>
     \/ /\ call(p).op = "write" /\ ~refused
        /\ owner' = [owner EXCEPT ![i] = p]
        /\ tot' = [tot EXCEPT ![p] = 0]
        /\ Goto(p, "writei")
        /\ UNCHANGED frees
     \/ /\ call(p).op = "trunc"
        /\ owner' = [owner EXCEPT ![i] = p]
        /\ frees' = [frees EXCEPT ![p] = Listed(cache, inode[i])]
        /\ Goto(p, "itrunc")
        /\ UNCHANGED tot
  /\ UNCHANGED <<disks, inode, off, wrote, script, done, crashes>>

\* What is logged goes to the disk, and the rest of it stays as it was.
Committed ==
  [used |-> IF BitmapBlock \in logged THEN cache.used ELSE saved.used,
   dinode |-> [i \in Inums |-> IF InodeBlock(i) \in logged THEN cache.dinode[i] ELSE saved.dinode[i]],
   block |-> [b \in DataBlocks |-> IF DataBlock(b) \in logged THEN cache.block[b] ELSE saved.block[b]]]

\* end_op(): the last one commits; filewrite() goes on with the next part
\* unless writei() wrote less than it was asked to.
Outside == {"user", "begin"}
LastOut_Always(p) == TRUE
LastOut(p) == \A q \in Procs \ {p} : pc[q] \in Outside

End(p) ==
  LET more == call(p).op = "write" /\ tot[p] = Wanted(p) /\ done[p] + tot[p] < call(p).n IN
  /\ pc[p] = "end"
  /\ IF LastOut(p)
     THEN saved' = Committed /\ logged' = {}
     ELSE UNCHANGED <<saved, logged>>
  /\ Goto(p, IF more THEN "begin" ELSE "user")
  /\ done' = [done EXCEPT ![p] = IF more THEN @ + tot[p] ELSE 0]
  /\ tot' = [tot EXCEPT ![p] = 0]
  /\ script' = [script EXCEPT ![p] = IF more THEN @ ELSE Tail(@)]
  /\ UNCHANGED <<cache, inode, owner, off, wrote, frees, crashes>>

\* fileread() changes f->off only; copyout() may fail.
FileRead(p) ==
  LET h == call(p).h
      rest == inode[FileOf[h]].size - off[h]
      r == IF rest < 0 THEN 0 ELSE Lesser(call(p).n, rest)
  IN
  /\ pc[p] = "user" /\ script[p] # << >> /\ call(p).op = "read"
  /\ owner[FileOf[h]] = None
  /\ off' \in {off, [off EXCEPT ![h] = @ + r]}
  /\ script' = [script EXCEPT ![p] = Tail(@)]
  /\ UNCHANGED <<disks, inode, owner, wrote, pc, done, tot, frees, crashes>>

-----------------------------------------------------------------------------
\* A buffer that nobody has told the log of is read again from the disk.
Recycle(b) ==
  /\ DataBlock(b) \notin logged /\ cache.block[b] # saved.block[b]
  /\ cache' = [cache EXCEPT !.block[b] = saved.block[b]]
  /\ UNCHANGED <<saved, logged, inode, owner, off, wrote, pc, calls, crashes>>

\* What was not committed is gone; other programs go on.
Crash ==
  /\ crashes < MaxCrashes
  /\ crashes' = crashes + 1
  /\ cache' = saved /\ logged' = {} /\ inode' = saved.dinode
  /\ owner' = [i \in Inums |-> None] /\ off' = [h \in Opened |-> 0]
  /\ wrote' = [p \in Procs |-> {}]
  /\ pc' = [p \in Procs |-> "user"]
  /\ script' = [p \in Procs |-> IF pc[p] = "user" THEN script[p] ELSE Tail(script[p])]
  /\ done' = [p \in Procs |-> 0] /\ tot' = [p \in Procs |-> 0]
  /\ frees' = [p \in Procs |-> << >>]
  /\ UNCHANGED saved

Step(p) ==
  \/ Begin(p) \/ Lock(p) \/ AllocAddr(p) \/ NoSpace(p) \/ CopyIn(p) \/ CopyInFails(p)
  \/ BFree(p) \/ Truncated(p) \/ End(p) \/ FileRead(p)

Next == Crash \/ (\E p \in Procs : Step(p)) \/ (\E b \in DataBlocks : Recycle(b))

Spec == Init /\ [][Next]_vars

-----------------------------------------------------------------------------
AllListed(d, ip) == {Listed(d, ip)[k] : k \in 1..Len(Listed(d, ip))}

\* On the disk, at any moment at which the machine may crash: a block is
\* marked if and only if a file has it, no two files and no two places of a
\* file have the same, and every byte below the size of a file was written
\* into that file: nothing of another one, no address, no hole.
BlocksAccounted ==
  LET file(i) == saved.dinode[i] IN
  /\ TypeOK
  /\ saved.used = UNION {AllListed(saved, file(i)) : i \in Inums}
  /\ \A i \in Inums :
       /\ Cardinality(AllListed(saved, file(i))) = Len(Listed(saved, file(i)))
       /\ \A j \in Inums \ {i} : AllListed(saved, file(i)) \cap AllListed(saved, file(j)) = {}
       /\ \A o \in 0..(file(i).size - 1) :
            LET b == Bmap(saved, file(i), o \div BSIZE) IN
            b # None /\ saved.block[b][o % BSIZE] = Byte(i)

\* bfree() frees no block twice, and a call changes less than MAXOPBLOCKS
\* blocks, which is what the log counts on (LogAssumption).
NoPanic ==
  /\ \A p \in Procs : frees[p] # << >> => Head(frees[p]) \in cache.used
  /\ \A p \in Procs : Cardinality(wrote[p]) < MAXOPBLOCKS

Returned == \A p \in Procs : script[p] = << >>
=============================================================================
