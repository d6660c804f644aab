----------------------------- MODULE VirtioDisk -----------------------------
(***************************************************************************)
(* The disk driver (kernel/virtio_disk.c) and the disk behind it.  A       *)
(* request takes three of NUM descriptors and waits for the interrupt that *)
(* reports its completion; the device completes requests in any order.     *)
(*                                                                         *)
(* virtio_disk_rw() sleeps or returns at the end of each section under     *)
(* vdisk_lock, so a section is one step.  The handler of the interrupt     *)
(* runs against the device, so a step of it is one turn of its loop.  The  *)
(* two rings never hold more than NUM \div 3 requests: they are sequences. *)
(***************************************************************************)
EXTENDS Integers, Sequences, FiniteSets

CONSTANTS
  Procs,      \* the processes
  NBUF,       \* buffers of the cache
  NUM,        \* descriptors
  Blocks,     \* blocks of the disk
  NoBlock,    \* what a buffer holds before its first block
  InitDisk    \* what the disk holds at first, a function on Blocks

\* Processes are numbered from 1 in an array, 0 is nobody.
ASSUME DiskAssumption ==
  /\ NBUF \in Nat \ {0} /\ NUM \in Nat /\ NUM >= 3
  /\ IsFiniteSet(Procs) /\ 0 \notin Procs

Bufs == 1..NBUF
Descs == 1..NUM
Data == {0, 1}

VARIABLES
  disk,       \* the blocks on the medium
  buf,        \* struct buf: blockno, valid, refcnt, data, and the owner of its lock
  busy,       \* the buffers with b->disk set
  free,       \* the descriptors with disk.free[i] set
  request,    \* disk.desc and disk.info: the chain, buffer and direction of each head
  avail,      \* heads that the device has not taken yet
  used,       \* heads that virtio_disk_intr() has not seen yet
  irq,        \* the interrupt is pending
  handler,    \* virtio_disk_intr() runs, with vdisk_lock
  pc,         \* where each process is
  b,          \* the buffer it works on
  write       \* the argument of its virtio_disk_rw()

rings == <<free, request, avail, used>>
diskvars == <<disk, buf, busy, rings, irq, handler>>

NoRequest == [chain |-> << >>, b |-> 0, write |-> FALSE]

InitDriver ==
  /\ disk = InitDisk
  /\ buf = [i \in Bufs |-> [blockno |-> NoBlock, valid |-> FALSE, refcnt |-> 0,
                            data |-> 0, owner |-> 0]]
  /\ busy = {}
  /\ free = Descs
  /\ request = [d \in Descs |-> NoRequest]
  /\ avail = << >> /\ used = << >>
  /\ irq = FALSE /\ handler = FALSE
  /\ b = [p \in Procs |-> 1]
  /\ write = [p \in Procs |-> FALSE]

Lowest(S) == CHOOSE x \in S : \A y \in S : x <= y

\* wakeup(&disk.free[0]); p goes on at step.
WakeWaitersAndGoto(p, step) ==
  pc' = [q \in Procs |-> IF q = p THEN step
                         ELSE IF pc[q] = "sleep_free" THEN "rw" ELSE pc[q]]

-----------------------------------------------------------------------------
(* virtio_disk_rw() *)

\* alloc3_desc() succeeds: the chain is built, the request is put into the
\* ring, and the caller sleeps, for b->disk is set.
Submit(p) ==
  LET d0 == Lowest(free)
      d1 == Lowest(free \ {d0})
      d2 == Lowest(free \ {d0, d1})
  IN
  /\ pc[p] = "rw" /\ ~handler
  /\ Cardinality(free) >= 3
  /\ free' = free \ {d0, d1, d2}
  /\ request' = [request EXCEPT ![d0] =
                   [chain |-> <<d0, d1, d2>>, b |-> b[p], write |-> write[p]]]
  /\ busy' = busy \cup {b[p]}
  /\ avail' = Append(avail, d0)
  /\ pc' = [pc EXCEPT ![p] = "sleep_buf"]
  /\ UNCHANGED <<disk, buf, used, irq, handler, b, write>>

\* alloc3_desc() fails: what it took is given back, which wakes whoever
\* else waits for descriptors, and the caller sleeps.
NoDescriptors(p) ==
  /\ pc[p] = "rw" /\ ~handler
  /\ Cardinality(free) < 3
  /\ IF free = {} THEN pc' = [pc EXCEPT ![p] = "sleep_free"]
     ELSE WakeWaitersAndGoto(p, "sleep_free")
  /\ UNCHANGED <<disk, buf, busy, rings, irq, handler, b, write>>

\* Woken for its buffer: sleep again, or free the chain and return.
\* (Mutant: the descriptor of the status is not freed.)
Chain_Short(d) == {request[d].chain[1], request[d].chain[2]}
Chain(d) == {request[d].chain[k] : k \in 1..3}

Complete(p) ==
  /\ pc[p] = "woken_buf" /\ ~handler
  /\ IF b[p] \in busy
     THEN /\ pc' = [pc EXCEPT ![p] = "sleep_buf"]
          /\ UNCHANGED <<free, request>>
     ELSE \E d \in Descs :
            /\ request[d].b = b[p]
            /\ free' = free \cup Chain(d)
            /\ request' = [request EXCEPT ![d] = NoRequest]
            /\ WakeWaitersAndGoto(p, IF write[p] THEN "written" ELSE "have")
  /\ UNCHANGED <<disk, buf, busy, avail, used, irq, handler, b, write>>

-----------------------------------------------------------------------------
(* The device, and virtio_disk_intr() *)

\* The device serves a request of the ring and reports it.
Device ==
  /\ \E k \in 1..Len(avail) :
       LET d == avail[k]
           i == request[d].b
           block == buf[i].blockno
       IN
       /\ avail' = SubSeq(avail, 1, k - 1) \o SubSeq(avail, k + 1, Len(avail))
       /\ used' = Append(used, d)
       /\ IF request[d].write
          THEN disk' = [disk EXCEPT ![block] = buf[i].data] /\ UNCHANGED buf
          ELSE buf' = [buf EXCEPT ![i].data = disk[block]] /\ UNCHANGED disk
  /\ irq' = TRUE
  /\ UNCHANGED <<busy, free, request, handler, pc, b, write>>

\* acquire(&disk.vdisk_lock) and the acknowledgement.
IntrEnter ==
  /\ irq /\ ~handler
  /\ irq' = FALSE
  /\ handler' = TRUE
  /\ UNCHANGED <<disk, buf, busy, rings, pc, b, write>>

\* One entry of the used ring: b->disk = 0; wakeup(b).
IntrEntry ==
  LET i == request[Head(used)].b IN
  /\ handler /\ used # << >>
  /\ busy' = busy \ {i}
  /\ pc' = [q \in Procs |-> IF pc[q] = "sleep_buf" /\ b[q] = i THEN "woken_buf" ELSE pc[q]]
  /\ used' = Tail(used)
  /\ UNCHANGED <<disk, buf, free, request, avail, irq, handler, b, write>>

IntrExit ==
  /\ handler /\ used = << >>
  /\ handler' = FALSE
  /\ UNCHANGED <<disk, buf, busy, rings, irq, pc, b, write>>

RwStep(p) == Submit(p) \/ NoDescriptors(p) \/ Complete(p)
InterruptStep == Device \/ IntrEnter \/ IntrEntry \/ IntrExit

-----------------------------------------------------------------------------
\* Every descriptor is free or in exactly one chain, every chain is that of
\* a process which waits for its buffer, and a buffer is busy as long as
\* its request is in one of the rings, where it is once.  A completion that
\* nobody has seen has its interrupt, and nobody sleeps for a buffer that
\* the device is done with.
RequestsAccounted ==
  LET heads == {d \in Descs : request[d] # NoRequest}
      ring == avail \o used
  IN
  /\ \A d, e \in heads : d # e => Chain(d) \cap Chain(e) = {}
  /\ free = Descs \ UNION {Chain(d) : d \in heads}
  /\ \A d \in heads : \E p \in Procs : b[p] = request[d].b /\ pc[p] \in {"sleep_buf", "woken_buf"}
  /\ \A i \in 1..Len(ring) : ring[i] \in heads /\ request[ring[i]].b \in busy
  /\ Cardinality(busy) = Len(ring)
  /\ used # << >> => irq \/ handler
  /\ \A p \in Procs : pc[p] = "sleep_buf" => b[p] \in busy
=============================================================================
