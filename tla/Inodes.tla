------------------------------- MODULE Inodes -------------------------------
(***************************************************************************)
(* Inodes and directories: the table of inodes in memory (iget, idup,      *)
(* ilock, iput, ialloc of kernel/fs.c), path lookup, and the system calls  *)
(* open, mkdir, link, unlink and close that use them (kernel/sysfile.c).   *)
(*                                                                         *)
(* A step is what is done under one acquisition of itable.lock, or up to   *)
(* the next acquisition or release of the sleep lock of an inode: inodes   *)
(* and entries are looked at under that lock only.  Every call is a        *)
(* transaction; the log (module Log) brings the file system to the disk    *)
(* when the last open call ends, and a crash goes back to what it brought. *)
(* Names of a directory and types are what matters of an inode here; its   *)
(* blocks are left out.                                                    *)
(***************************************************************************)
EXTENDS InodeCalls, Sequences, FiniteSets

CONSTANTS
  Procs,        \* the processes
  NINODE,       \* entries of the table in memory
  Tree,         \* what the disk holds at first
  Scripts,      \* functions Procs -> Seq(calls)
  MaxCrashes

Inums == 1..NINODES
Slots == 1..NINODE

VARIABLES
  dinode,     \* the inodes, as the buffer cache has them
  saved,      \* the inodes, as the last commit left them on the disk
  itable,     \* the table in memory
  fd,         \* the open file of each process: a slot, or None
  script,     \* the calls that each process has still to make
  pc,         \* where each process is
  ip, dp, lp, \* its inodes: slots, or None
  rest,       \* the elements of the path that namex() has still to look at
  puts,       \* the slots that it has to iput()
  then,       \* where it goes on afterwards
  crashes     \* bookkeeping

regs == <<ip, dp, lp, rest>>
world == <<saved, fd, script, crashes>>
vars == <<dinode, itable, world, pc, regs, puts, then>>

FreeSlot == [inum |-> None, ref |-> 0, valid |-> FALSE, owner |-> None,
             type |-> "free", nlink |-> 0]

NoSlot == [p \in Procs |-> None]
NoPath == [p \in Procs |-> << >>]
AllUser == [p \in Procs |-> "user"]

Init ==
  /\ dinode = Tree /\ saved = Tree
  /\ script \in Scripts
  /\ crashes = 0
  /\ itable = [s \in Slots |-> FreeSlot]
  /\ pc = AllUser /\ then = AllUser
  /\ fd = NoSlot /\ ip = NoSlot /\ dp = NoSlot /\ lp = NoSlot
  /\ rest = NoPath /\ puts = NoPath

call(p) == Head(script[p])
Goto(p, step) == pc' = [pc EXCEPT ![p] = step]
First(S) == CHOOSE x \in S : \A y \in S : x <= y

-----------------------------------------------------------------------------
(* The table in memory *)

\* iget(): the slot of this inode, or a free slot that becomes its slot.
SlotOf(i) == {s \in Slots : itable[s].ref > 0 /\ itable[s].inum = i}
Empty == {s \in Slots : itable[s].ref = 0}
IGetSlot(i) == IF SlotOf(i) # {} THEN CHOOSE s \in SlotOf(i) : TRUE ELSE First(Empty)
IGetInto(t, i) ==
  IF SlotOf(i) # {} THEN [t EXCEPT ![IGetSlot(i)].ref = @ + 1]
  ELSE [t EXCEPT ![IGetSlot(i)].inum = i, ![IGetSlot(i)].ref = 1, ![IGetSlot(i)].valid = FALSE]

\* ilock(): the sleep lock is free; the slot is read from the disk unless
\* it is valid.
Unlocked(s) == itable[s].owner = None
LockedBy(t, s, p) ==
  IF t[s].valid THEN [t EXCEPT ![s].owner = p]
  ELSE [t EXCEPT ![s].owner = p, ![s].valid = TRUE, ![s].type = dinode[t[s].inum].type,
                 ![s].nlink = dinode[t[s].inum].nlink]
Released(t, s) == [t EXCEPT ![s].owner = None]

\* ip->nlink += k; iupdate(ip).
Linked(t, s, k) == [t EXCEPT ![s].nlink = @ + k]
LinkedOnDisk(d, s, k) ==
  [d EXCEPT ![itable[s].inum].nlink = itable[s].nlink + k, ![itable[s].inum].type = itable[s].type]

\* The slots in q are put, one after the other; then p goes on at step.
PutAndGoto(p, q, step) ==
  /\ puts' = [puts EXCEPT ![p] = q]
  /\ then' = [then EXCEPT ![p] = step]
  /\ Goto(p, "put")

\* iunlockput(), of a slot in t.
UnlockPutAndGoto(p, t, s, step) ==
  itable' = Released(t, s) /\ PutAndGoto(p, <<s>>, step)

\* The test of iput() under itable.lock.  (Mutant: whoever else refers to
\* the inode does not matter.)
LastOf_Any(s) == itable[s].valid /\ itable[s].nlink = 0
LastOf(s) == itable[s].ref = 1 /\ itable[s].valid /\ itable[s].nlink = 0

\* iput(): an inode without links whose last reference goes is locked, to
\* be freed without itable.lock.
Put(p) ==
  LET s == Head(puts[p]) IN
  /\ pc[p] = "put"
  /\ IF puts[p] = << >>
     THEN Goto(p, then[p]) /\ UNCHANGED <<itable, puts>>
     ELSE IF LastOf(s)
     THEN /\ Unlocked(s)
          /\ itable' = [itable EXCEPT ![s].owner = p]
          /\ Goto(p, "free")
          /\ UNCHANGED puts
     ELSE /\ itable' = [itable EXCEPT ![s].ref = @ - 1]
          /\ puts' = [puts EXCEPT ![p] = Tail(@)]
          /\ UNCHANGED pc
  /\ UNCHANGED <<dinode, world, regs, then>>

\* itrunc(); type = 0; iupdate(); valid = 0; releasesleep().  The inode can
\* be allocated again before the reference is dropped.
Free(p) ==
  LET s == Head(puts[p]) IN
  /\ pc[p] = "free"
  /\ dinode' = [dinode EXCEPT ![itable[s].inum] = FreeInode]
  /\ itable' = [itable EXCEPT ![s].type = "free", ![s].valid = FALSE, ![s].owner = None]
  /\ Goto(p, "freed")
  /\ UNCHANGED <<world, regs, puts, then>>

Freed(p) ==
  /\ pc[p] = "freed"
  /\ itable' = [itable EXCEPT ![Head(puts[p])].ref = @ - 1]
  /\ puts' = [puts EXCEPT ![p] = Tail(@)]
  /\ Goto(p, "put")
  /\ UNCHANGED <<dinode, world, regs, then>>

-----------------------------------------------------------------------------
(* Calls begin and end; namex() *)

\* The parent is wanted, not the inode itself.
Parent(p) == lp[p] # None \/ call(p).op \in {"create", "mkdir", "unlink"}

\* begin_op(); namex() starts at the root.
Begin(p) ==
  /\ pc[p] = "user" /\ script[p] # << >> /\ call(p).op # "close"
  /\ SlotOf(Root) \cup Empty # {}
  /\ itable' = IGetInto(itable, Root)
  /\ ip' = [ip EXCEPT ![p] = IGetSlot(Root)]
  /\ rest' = [rest EXCEPT ![p] = call(p).path]
  /\ Goto(p, "walk")
  /\ UNCHANGED <<dinode, world, dp, lp, puts, then>>

Walk(p) ==
  /\ pc[p] = "walk"
  /\ Unlocked(ip[p])
  /\ itable' = LockedBy(itable, ip[p], p)
  /\ Goto(p, "walking")
  /\ UNCHANGED <<dinode, world, regs, puts, then>>

\* One turn of the loop of namex(): no directory, or no such name; one
\* level early; or the next element.
Failed(p) == IF lp[p] = None THEN "end" ELSE "link_bad"
Lookup(s, name) ==
  LET i == dinode[itable[s].inum] IN
  IF itable[s].type # "dir" THEN None ELSE IF name = ".." THEN i.up ELSE i.entry[name]

Walking(p) ==
  LET s == ip[p]
      next == Lookup(s, Head(rest[p]))
  IN
  /\ pc[p] = "walking"
  /\ \/ /\ itable[s].type = "dir" /\ Parent(p) /\ Len(rest[p]) = 1
        /\ itable' = Released(itable, s)
        /\ dp' = [dp EXCEPT ![p] = s]
        /\ ip' = [ip EXCEPT ![p] = None]
        /\ Goto(p, IF lp[p] # None THEN "link2" ELSE call(p).op)
        /\ UNCHANGED <<rest, puts, then>>
     \/ /\ next = None /\ ~(itable[s].type = "dir" /\ Parent(p) /\ Len(rest[p]) = 1)
        /\ UnlockPutAndGoto(p, itable, s, Failed(p))
        /\ UNCHANGED <<ip, dp, rest>>
     \/ /\ next # None /\ ~(Parent(p) /\ Len(rest[p]) = 1)
        /\ SlotOf(next) \cup Empty # {}
        /\ itable' = Released(IGetInto(itable, next), s)
        /\ ip' = [ip EXCEPT ![p] = IGetSlot(next)]
        /\ rest' = [rest EXCEPT ![p] = Tail(@)]
        /\ PutAndGoto(p, <<s>>, IF Len(rest[p]) = 1 THEN call(p).op ELSE "walk")
        /\ UNCHANGED dp
  /\ UNCHANGED <<dinode, world, lp>>

\* end_op(): the last one brings everything to the disk.  (Mutant: anyone.)
LastOut_Anyone(p) == TRUE
LastOut(p) == \A q \in Procs \ {p} : pc[q] = "user"

End(p) ==
  /\ pc[p] = "end"
  /\ saved' = IF LastOut(p) THEN dinode ELSE saved
  /\ script' = [script EXCEPT ![p] = Tail(@)]
  /\ ip' = [ip EXCEPT ![p] = None]
  /\ dp' = [dp EXCEPT ![p] = None]
  /\ lp' = [lp EXCEPT ![p] = None]
  /\ rest' = [rest EXCEPT ![p] = << >>]
  /\ then' = [then EXCEPT ![p] = "user"]
  /\ Goto(p, "user")
  /\ UNCHANGED <<dinode, itable, fd, crashes, puts>>

-----------------------------------------------------------------------------
(* open() and close() *)

\* The inode is found, or has been created and is locked: a file for it, or
\* none left.
Install(p, t) ==
  \/ /\ fd[p] = None
     /\ fd' = [fd EXCEPT ![p] = ip[p]]
     /\ itable' = Released(t, ip[p])
     /\ Goto(p, "end")
     /\ UNCHANGED <<puts, then>>
  \/ /\ UnlockPutAndGoto(p, t, ip[p], "end")
     /\ UNCHANGED fd

Open(p) ==
  /\ pc[p] = "open"
  /\ Unlocked(ip[p])
  /\ Install(p, LockedBy(itable, ip[p], p))
  /\ UNCHANGED <<dinode, saved, script, crashes, regs>>

\* fileclose() of the last descriptor: an iput() in a transaction.
Close(p) ==
  /\ pc[p] = "user" /\ script[p] # << >> /\ call(p).op = "close"
  /\ fd' = [fd EXCEPT ![p] = None]
  /\ PutAndGoto(p, IF fd[p] = None THEN << >> ELSE <<fd[p]>>, "end")
  /\ UNCHANGED <<dinode, itable, saved, script, crashes, regs>>

-----------------------------------------------------------------------------
(* create(), for open() and for mkdir() *)

\* ilock(dp), for create(), unlink() and the second half of link().
LockParent(p) ==
  /\ pc[p] \in {"create", "mkdir", "unlink", "link2"}
  /\ Unlocked(dp[p])
  /\ itable' = LockedBy(itable, dp[p], p)
  /\ Goto(p, CASE pc[p] = "unlink" -> "unlinking" [] pc[p] = "link2" -> "linking"
               [] OTHER -> "creating")
  /\ UNCHANGED <<dinode, world, regs, puts, then>>

Name(p) == rest[p][1]
FreeInums == {i \in Inums : dinode[i].type = "free"}

\* The name is there: it will do for open() if it is a file.
CreateFinds(p) ==
  LET found == Lookup(dp[p], Name(p)) IN
  /\ pc[p] = "creating" /\ found # None
  /\ SlotOf(found) \cup Empty # {}
  /\ ip' = [ip EXCEPT ![p] = IGetSlot(found)]
  /\ UnlockPutAndGoto(p, IGetInto(itable, found), dp[p], "found")
  /\ UNCHANGED <<dinode, world, dp, lp, rest>>

Found(p) ==
  LET t == LockedBy(itable, ip[p], p) IN
  /\ pc[p] = "found"
  /\ Unlocked(ip[p])
  /\ IF call(p).op = "create" /\ t[ip[p]].type = "file" THEN Install(p, t)
     ELSE /\ UnlockPutAndGoto(p, t, ip[p], "end")
          /\ UNCHANGED fd
  /\ UNCHANGED <<dinode, saved, script, crashes, regs>>

\* An entry of i in a directory that has been removed in the meantime: neither
\* create() nor link() looks at its nlink.
Nameless(d) == d # Root /\ \A e \in Inums, n \in Names : dinode[e].entry[n] # d
WithEntry(t, d, name, i) ==
  LET entered == [t EXCEPT ![d].entry[name] = i] IN
  IF Nameless(d) THEN [entered EXCEPT ![i].late = @ + 1] ELSE entered

\* ialloc(): a free inode gets its type on the disk, and a slot.
CreateAllocates(p) ==
  LET i == First(FreeInums) IN
  /\ pc[p] = "creating" /\ Lookup(dp[p], Name(p)) = None
  /\ IF FreeInums = {}
     THEN /\ UnlockPutAndGoto(p, itable, dp[p], "end")
          /\ UNCHANGED <<dinode, ip>>
     ELSE /\ SlotOf(i) \cup Empty # {}
          /\ dinode' = [dinode EXCEPT ![i] = [FreeInode EXCEPT !.type =
                          IF call(p).op = "mkdir" THEN "dir" ELSE "file"]]
          /\ itable' = IGetInto(itable, i)
          /\ ip' = [ip EXCEPT ![p] = IGetSlot(i)]
          /\ Goto(p, "created")
          /\ UNCHANGED <<puts, then>>
  /\ UNCHANGED <<world, dp, lp, rest>>

\* ilock(ip), nlink = 1, and the entries; a directory counts as a link to
\* its parent.  Without room for an entry the inode is given back.
Created(p) ==
  LET s == ip[p]
      i == itable[s].inum
      d == itable[dp[p]].inum
      t == [LockedBy(itable, s, p) EXCEPT ![s].nlink = 1]
      isdir == t[s].type = "dir"
      one == WithEntry([dinode EXCEPT ![i].nlink = 1, ![i].type = t[s].type], d, Name(p), i)
  IN
  /\ pc[p] = "created"
  /\ Unlocked(s)
  /\ \/ /\ dinode' = IF isdir THEN [one EXCEPT ![i].up = d, ![d].nlink = @ + 1] ELSE one
        /\ UnlockPutAndGoto(p, IF isdir THEN Linked(t, dp[p], 1) ELSE t, dp[p], "made")
     \/ /\ dinode' = [dinode EXCEPT ![i].nlink = 0, ![i].type = t[s].type]
        /\ UnlockPutAndGoto(p, Linked(t, s, -1), s, "parent")
  /\ UNCHANGED <<world, regs>>

\* The locked new inode: open() goes on with it, mkdir() puts it.
Made(p) ==
  /\ pc[p] = "made"
  /\ IF call(p).op = "create" THEN Install(p, itable)
     ELSE /\ UnlockPutAndGoto(p, itable, ip[p], "end")
          /\ UNCHANGED fd
  /\ UNCHANGED <<dinode, saved, script, crashes, regs>>

\* iunlockput(dp) where create() and unlink() have put the inode first.
UnlockParent(p) ==
  /\ pc[p] = "parent"
  /\ UnlockPutAndGoto(p, itable, dp[p], "end")
  /\ UNCHANGED <<dinode, world, regs>>

-----------------------------------------------------------------------------
(* unlink() *)

UnlinkLooksUp(p) ==
  LET found == Lookup(dp[p], Name(p)) IN
  /\ pc[p] = "unlinking"
  /\ IF Name(p) = ".." \/ found = None
     THEN /\ UnlockPutAndGoto(p, itable, dp[p], "end")
          /\ UNCHANGED ip
     ELSE /\ SlotOf(found) \cup Empty # {}
          /\ itable' = IGetInto(itable, found)
          /\ ip' = [ip EXCEPT ![p] = IGetSlot(found)]
          /\ Goto(p, "unlink_ip")
          /\ UNCHANGED <<puts, then>>
  /\ UNCHANGED <<dinode, world, dp, lp, rest>>

\* ilock(ip).  A directory with entries stays; else its entry goes, and the
\* parent is released.
UnlinkErases(p) ==
  LET s == ip[p]
      d == itable[dp[p]].inum
      t == LockedBy(itable, s, p)
      isdir == t[s].type = "dir"
      erased == [dinode EXCEPT ![d].entry[Name(p)] = None]
  IN
  /\ pc[p] = "unlink_ip"
  /\ Unlocked(s)
  /\ IF isdir /\ \E n \in Names : dinode[itable[s].inum].entry[n] # None
     THEN /\ UnlockPutAndGoto(p, t, s, "parent")
          /\ UNCHANGED dinode
     ELSE /\ dinode' = IF isdir THEN LinkedOnDisk(erased, dp[p], -1) ELSE erased
          /\ UnlockPutAndGoto(p, IF isdir THEN Linked(t, dp[p], -1) ELSE t, dp[p], "unlinked")
  /\ UNCHANGED <<world, regs>>

Unlinked(p) ==
  /\ pc[p] = "unlinked"
  /\ dinode' = LinkedOnDisk(dinode, ip[p], -1)
  /\ UnlockPutAndGoto(p, Linked(itable, ip[p], -1), ip[p], "end")
  /\ UNCHANGED <<world, regs>>

-----------------------------------------------------------------------------
(* link() *)

\* The old name: ilock(ip), nlink++, iunlock(ip); then the walk to the
\* parent of the new name.
Link(p) ==
  LET s == ip[p]
      t == LockedBy(itable, s, p)
      counted == Released(Linked(t, s, 1), s)
  IN
  /\ pc[p] = "link"
  /\ Unlocked(s)
  /\ IF t[s].type = "dir"
     THEN /\ UnlockPutAndGoto(p, t, s, "end")
          /\ UNCHANGED <<dinode, regs>>
     ELSE /\ dinode' = [dinode EXCEPT ![itable[s].inum].nlink = t[s].nlink + 1]
          /\ itable' = IGetInto(counted, Root)
          /\ lp' = [lp EXCEPT ![p] = s]
          /\ ip' = [ip EXCEPT ![p] = IGetSlot(Root)]
          /\ rest' = [rest EXCEPT ![p] = call(p).new]
          /\ Goto(p, "walk")
          /\ UNCHANGED <<dp, puts, then>>
  /\ UNCHANGED world

\* dirlink(), which refuses a name that is there (an inode that has a name
\* has a link, so that iput() of it frees nothing) and fails on a full
\* disk.  (Mutant: the inode that was linked is not put.)
LinkPuts_ParentOnly(p) == <<dp[p]>>
LinkPuts(p) == <<dp[p], lp[p]>>

Linking(p) ==
  /\ pc[p] = "linking"
  /\ itable' = Released(itable, dp[p])
  /\ \/ /\ PutAndGoto(p, <<dp[p]>>, "link_bad")
        /\ UNCHANGED dinode
     \/ /\ Lookup(dp[p], Name(p)) = None
        /\ dinode' = WithEntry(dinode, itable[dp[p]].inum, Name(p), itable[lp[p]].inum)
        /\ PutAndGoto(p, LinkPuts(p), "end")
  /\ UNCHANGED <<world, regs>>

LinkBad(p) ==
  LET t == LockedBy(itable, lp[p], p) IN
  /\ pc[p] = "link_bad"
  /\ Unlocked(lp[p])
  /\ dinode' = [dinode EXCEPT ![itable[lp[p]].inum].nlink = t[lp[p]].nlink - 1]
  /\ UnlockPutAndGoto(p, Linked(t, lp[p], -1), lp[p], "end")
  /\ UNCHANGED <<world, regs>>

-----------------------------------------------------------------------------
\* The machine stops; the log recovers the last commit.
Crash ==
  /\ crashes < MaxCrashes
  /\ crashes' = crashes + 1
  /\ dinode' = saved
  /\ itable' = [s \in Slots |-> FreeSlot]
  /\ pc' = AllUser /\ then' = AllUser
  /\ fd' = NoSlot /\ ip' = NoSlot /\ dp' = NoSlot /\ lp' = NoSlot
  /\ rest' = NoPath /\ puts' = NoPath
  /\ UNCHANGED <<saved, script>>

Step(p) ==
  \/ Begin(p) \/ Walk(p) \/ Walking(p) \/ Put(p) \/ Free(p) \/ Freed(p) \/ End(p)
  \/ Open(p) \/ Close(p)
  \/ LockParent(p) \/ CreateFinds(p) \/ Found(p) \/ CreateAllocates(p)
  \/ Created(p) \/ Made(p) \/ UnlockParent(p)
  \/ UnlinkLooksUp(p) \/ UnlinkErases(p) \/ Unlinked(p)
  \/ Link(p) \/ Linking(p) \/ LinkBad(p)

\* ilock() has met an inode that is not allocated, "ilock: no type" (fs.c:315),
\* and the machine has stopped.
NoType(s) == itable[s].valid /\ itable[s].type = "free"
Panicked == \E s \in Slots : NoType(s)

Next == Crash \/ \E p \in Procs : ~Panicked /\ Step(p)

Spec == Init /\ [][Next]_vars

\* Whoever can go on does; the scripts are finite.
FairSpec == Spec /\ WF_vars(Next)

-----------------------------------------------------------------------------
(* Properties *)

\* What p holds a reference of: its open file, what it is about to put, and
\* the registers that the rest of its call still uses.
At(p) == IF pc[p] \in {"put", "free", "freed"} THEN then[p] ELSE pc[p]
Held(p) ==
  <<fd[p]>> \o puts[p]
  \o (IF At(p) \in {"walk", "walking", "open", "link", "found", "created", "made",
                    "unlink_ip", "unlinked"} THEN <<ip[p]>> ELSE << >>)
  \o (IF At(p) \in {"create", "creating", "mkdir", "unlink", "unlinking", "created",
                    "unlink_ip", "parent", "link2", "linking"} THEN <<dp[p]>> ELSE << >>)
  \o (IF At(p) \in {"walk", "walking", "link2", "linking", "link_bad"} THEN <<lp[p]>> ELSE << >>)

\* ref is the number of pointers to the slot (fs.c:133): one too few and the
\* inode goes away under somebody, one too many and it never goes.  So, as
\* iput() says (fs.c:344), nobody else has the lock of the last one.
RefsMatch ==
  /\ \A s \in Slots :
       itable[s].ref = Cardinality({<<p, k>> \in Procs \X (1..6) :
                                      k <= Len(Held(p)) /\ Held(p)[k] = s})
  /\ \A p \in Procs : pc[p] = "put" /\ puts[p] # << >> /\ LastOf(Head(puts[p])) =>
       Unlocked(Head(puts[p]))

\* What ilock() asserts (fs.c:315): who locks an inode finds it allocated,
\* although the last reference of an unlinked inode frees it, and it may be
\* allocated again before that reference is gone.  The exception is "..":
\* the entry outlives the directory it names when both directories are
\* removed under somebody who has the lower one, so iget() gives him a free
\* inode.  And sys_unlink(), "unlink: nlink < 1" (sysfile.c:216), of what it
\* erases.
HasDotDot(path) == \E k \in DOMAIN path : path[k] = ".."
NoPanic ==
  /\ \A s \in Slots : NoType(s) =>
       \E p \in Procs : /\ s \in {ip[p], lp[p]} /\ script[p] # << >>
                        /\ HasDotDot(call(p).path) \/ HasDotDot(call(p).new)
  /\ \A p \in Procs : At(p) = "unlinked" => itable[ip[p]].nlink >= 1

\* nlink is the number of links (fs.h:36): whatever calls overlapped with a
\* commit and whatever failed in them, the disk has as many entries of an
\* inode, and directories below it, as its nlink says.  The exception is
\* an entry that create() or link() puts into a directory already removed:
\* it goes away with the directory, and nlink goes on counting it.
Entries(i) ==
  {<<d, n>> \in Inums \X Names : saved[d].type = "dir" /\ saved[d].entry[n] = i}
Below(i) == {d \in Inums : saved[d].type = "dir" /\ saved[d].up = i /\ Entries(d) # {}}
Links(i) == Cardinality(Entries(i)) + Cardinality(Below(i)) + (IF i = Root THEN 1 ELSE 0)
LinksMatch == \A i \in Inums : saved[i].nlink - Links(i) \in 0..saved[i].late

\* What the comments at fs.c:129 and fs.c:331 say of iput(): an inode is
\* freed when its references and links have come to zero, so without a crash
\* and between the calls only open inodes are without links.  The code does
\* not keep it: ref counts the one that is freeing the inode until the end,
\* so whoever has allocated it again meanwhile does not see the last
\* reference go.
Orphan(i) == dinode[i].type # "free" /\ dinode[i].nlink = 0
OrphansAreOpen ==
  crashes = 0 /\ (\A p \in Procs : pc[p] = "user") =>
    \A i \in Inums : Orphan(i) => \E p \in Procs : fd[p] # None /\ itable[fd[p]].inum = i

\* Every call returns unless ilock() stops the machine: no two wait for each
\* other's inodes, and the table has always a slot.
Returned == Panicked \/ \A p \in Procs : script[p] = << >>
CallsReturn == <>[]Returned
=============================================================================
