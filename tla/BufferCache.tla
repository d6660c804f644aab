---------------------------- MODULE BufferCache ----------------------------
(***************************************************************************)
(* The buffer cache (kernel/bio.c) over the disk driver: bread, bwrite,    *)
(* brelse, bpin and bunpin, as the file system and its log call them.      *)
(* What is done under one acquisition of bcache.lock is one step.  The     *)
(* sleep lock of a buffer is its owner; Proc shows that sleep locks        *)
(* exclude and that their sleepers wake.                                   *)
(***************************************************************************)
EXTENDS VirtioDisk

CONSTANT Scripts   \* functions Procs -> Seq(calls)

\* The calls: look at a block; change it on the disk; change it in the
\* cache alone and pin it, as log_write() does; bring a pinned block to the
\* disk and unpin it, as install_trans() does.
Read(n) == [op |-> "read", block |-> n]
Write(n) == [op |-> "write", block |-> n]
LogWrite(n) == [op |-> "log", block |-> n]
Install(n) == [op |-> "install", block |-> n]
Calls == [op : {"read", "write", "log", "install"}, block : Blocks]

\* The blocks that the first k calls leave pinned.  log_write() pins those
\* that are not in the log yet, install_trans() unpins those that are.
PinnedAfter(calls, k) ==
  {n \in Blocks : \E j \in 1..k : /\ calls[j] = LogWrite(n)
                                  /\ \A i \in (j + 1)..k : calls[i] # Install(n)}
PinsInTurn(calls) ==
  \A j \in 1..Len(calls) :
    /\ calls[j].op = "log" => calls[j].block \notin PinnedAfter(calls, j - 1)
    /\ calls[j].op = "install" => calls[j].block \in PinnedAfter(calls, j - 1)

\* The blocks that are called for or pinned when each process p has made
\* k[p] of its calls g[p]; the cache is dimensioned for them.
InUse(g, k) ==
  {g[p][k[p] + 1].block : p \in {q \in Procs : k[q] < Len(g[q])}}
    \cup UNION {PinnedAfter(g[p], k[p]) : p \in Procs}

ASSUME CacheAssumption ==
  /\ InitDisk \in [Blocks -> Data] /\ IsFiniteSet(Blocks) /\ NoBlock \notin Blocks
  /\ \A g \in Scripts :
       /\ g \in [Procs -> Seq(Calls)]
       /\ \A p \in Procs : PinsInTurn(g[p])
       /\ \A k \in [Procs -> UNION {0..Len(g[p]) : p \in Procs}] :
            (\A p \in Procs : k[p] <= Len(g[p])) => Cardinality(InUse(g, k)) <= NBUF

VARIABLES
  lru,        \* the list of bcache.head, most recently used first
  script      \* the calls that each process has still to make

vars == <<diskvars, pc, b, write, lru, script>>

Steps == {"user", "lock", "rw", "sleep_free", "sleep_buf", "woken_buf", "written",
          "have", "release", "put", "panic"}

TypeOK ==
  /\ disk \in [Blocks -> Data]
  /\ buf \in [Bufs -> [blockno : Blocks \cup {NoBlock}, valid : BOOLEAN, refcnt : Nat,
                       data : Data, owner : Procs \cup {0}]]
  /\ free \subseteq Descs /\ busy \subseteq Bufs
  /\ pc \in [Procs -> Steps] /\ b \in [Procs -> Bufs]

\* binit() puts each buffer at the head of the list.
Init ==
  /\ InitDriver
  /\ lru = [k \in Bufs |-> NBUF + 1 - k]
  /\ pc = [p \in Procs |-> "user"]
  /\ script \in Scripts

call(p) == Head(script[p])
Goto(p, step) == pc' = [pc EXCEPT ![p] = step]
Cache == UNCHANGED <<disk, busy, rings, irq, handler>>

-----------------------------------------------------------------------------
(* bread() *)

\* bget(): the buffer of this block, or the least recently used one that
\* nobody refers to, or a panic.  (Mutant: the reference is taken only
\* once the lock of the buffer is held.)
Found(n) == {i \in Bufs : buf[i].blockno = n}
Unused == {k \in Bufs : buf[lru[k]].refcnt = 0}
Victim == lru[CHOOSE k \in Unused : \A j \in Unused : j <= k]

RefOnGet_Late == 0
RefOnGet == 1

BGet(p) ==
  LET n == call(p).block
      i == IF Found(n) # {} THEN CHOOSE j \in Found(n) : TRUE ELSE Victim
  IN
  /\ pc[p] = "user" /\ script[p] # << >>
  /\ IF Found(n) = {} /\ Unused = {}
     THEN Goto(p, "panic") /\ UNCHANGED <<buf, b>>
     ELSE /\ b' = [b EXCEPT ![p] = i]
          /\ buf' = IF Found(n) # {} THEN [buf EXCEPT ![i].refcnt = @ + RefOnGet]
                    ELSE [buf EXCEPT ![i].refcnt = RefOnGet, ![i].blockno = n,
                                     ![i].valid = FALSE]
          /\ Goto(p, "lock")
  /\ Cache /\ UNCHANGED <<write, lru, script>>

\* acquiresleep(&b->lock); a buffer that is not valid is read.
Lock(p) ==
  /\ pc[p] = "lock"
  /\ buf[b[p]].owner = 0
  /\ buf' = [buf EXCEPT ![b[p]].owner = p, ![b[p]].refcnt = @ + 1 - RefOnGet]
  /\ write' = [write EXCEPT ![p] = FALSE]
  /\ Goto(p, IF buf[b[p]].valid THEN "have" ELSE "rw")
  /\ Cache /\ UNCHANGED <<b, lru, script>>

-----------------------------------------------------------------------------
(* What the caller does with the locked buffer, up to releasesleep().  The *)
(* buffer is valid now; nobody looks at b->valid without its lock.         *)

\* bpin().  (Mutant: the buffer is not pinned.)
Pin_None == 0
Pin == 1

Changed(i) == [buf[i] EXCEPT !.data = 1 - @, !.valid = TRUE]

\* Before bwrite().
ChangeAndWrite(p) ==
  /\ pc[p] = "have" /\ call(p).op \in {"write", "install"}
  /\ IF call(p).op = "write" THEN buf' = [buf EXCEPT ![b[p]] = Changed(b[p])]
     ELSE buf' = [buf EXCEPT ![b[p]].valid = TRUE]
  /\ write' = [write EXCEPT ![p] = TRUE]
  /\ Goto(p, "rw")
  /\ Cache /\ UNCHANGED <<b, lru, script>>

ChangeAndPin(p) ==
  /\ pc[p] = "have" /\ call(p).op = "log"
  /\ buf' = [buf EXCEPT ![b[p]] = [Changed(b[p]) EXCEPT !.refcnt = @ + Pin]]
  /\ Goto(p, "release")
  /\ Cache /\ UNCHANGED <<b, write, lru, script>>

\* bunpin(), after bwrite().
BUnpin(p) ==
  /\ pc[p] = "written" /\ call(p).op = "install"
  /\ buf' = [buf EXCEPT ![b[p]].refcnt = @ - Pin]
  /\ Goto(p, "release")
  /\ Cache /\ UNCHANGED <<b, write, lru, script>>

-----------------------------------------------------------------------------
(* brelse() *)

ReleaseSleep(p) ==
  /\ \/ pc[p] = "release"
     \/ pc[p] = "have" /\ call(p).op = "read"
     \/ pc[p] = "written" /\ call(p).op = "write"
  /\ buf' = [buf EXCEPT ![b[p]].owner = 0, ![b[p]].valid = TRUE]
  /\ Goto(p, "put")
  /\ Cache /\ UNCHANGED <<b, write, lru, script>>

\* The buffer moves to the head of the list, and those before it one down.
ToFront(i) ==
  LET place == CHOOSE k \in Bufs : lru[k] = i IN
  [k \in Bufs |-> IF k = 1 THEN i ELSE IF k <= place THEN lru[k - 1] ELSE lru[k]]

\* The last reference.
Put(p) ==
  LET i == b[p] IN
  /\ pc[p] = "put"
  /\ buf' = [buf EXCEPT ![i].refcnt = @ - 1]
  /\ lru' = IF buf[i].refcnt = 1 THEN ToFront(i) ELSE lru
  /\ b' = [b EXCEPT ![p] = 1]
  /\ write' = [write EXCEPT ![p] = FALSE]
  /\ script' = [script EXCEPT ![p] = Tail(@)]
  /\ Goto(p, "user")
  /\ Cache

-----------------------------------------------------------------------------
CacheStep(p) ==
  \/ BGet(p) \/ Lock(p)
  \/ ChangeAndWrite(p) \/ ChangeAndPin(p) \/ BUnpin(p)
  \/ ReleaseSleep(p) \/ Put(p)

Step(p) == (RwStep(p) /\ UNCHANGED <<lru, script>>) \/ CacheStep(p)

Interrupt == InterruptStep /\ UNCHANGED <<lru, script>>

Next ==
  \/ \E p \in Procs : Step(p)
  \/ Interrupt

Spec == Init /\ [][Next]_vars

\* The machine does not stop while anything can move: the device completes
\* requests, its interrupt is taken, some process runs.
FairSpec == Spec /\ WF_vars(Next)

-----------------------------------------------------------------------------
\* A block has one buffer, and a process that waits for a buffer, or has
\* it, finds its own block there: nobody recycles it meanwhile.  There is a
\* buffer for whoever asks (no panic in bget()), as long as the processes
\* and the pinned blocks together are no more than the buffers.
OneBufferPerBlock ==
  /\ TypeOK
  /\ \A i, j \in Bufs : i # j /\ buf[i].blockno = buf[j].blockno => buf[i].blockno = NoBlock
  /\ \A p \in Procs : pc[p] # "user" => pc[p] # "panic" /\ buf[b[p]].blockno = call(p).block

\* Every call returns, whatever the order in which the device and the
\* scheduler serve: no completion, wakeup or descriptor is lost.
Returned == \A p \in Procs : script[p] = << >>
CallsReturn == <>[]Returned

\* The cache and the disk together are one array of blocks, each changed
\* by one process at a time, that keeps what was written last.
Contents ==
  [n \in Blocks |->
     IF \E i \in Found(n) : buf[i].valid THEN buf[CHOOSE i \in Found(n) : TRUE].data
     ELSE disk[n]]
Holders ==
  [n \in Blocks |->
     {p \in Procs : pc[p] = "have" /\ buf[b[p]].blockno = n}]

Store == INSTANCE BlockStore WITH content <- Contents, using <- Holders
ImplementsStore == Store!StoreSpec
=============================================================================
