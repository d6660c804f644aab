----------------------------- MODULE ByteStream -----------------------------
(***************************************************************************)
(* What a pipe promises: the bytes come out in the order in which they     *)
(* went in, none is lost or made up, at most PIPESIZE are under way, and a *)
(* reader is told of the end only when everything has been read and nobody *)
(* can write any more.  (What read() returns for a bad buffer may also     *)
(* be 0; "fault" tells that from the end.)                                 *)
(***************************************************************************)
EXTENDS Naturals, Sequences

CONSTANTS Procs, Pipes, Bytes, PIPESIZE, NoResult

VARIABLES
  stream,     \* the bytes under way in each pipe
  writers,    \* somebody can still write to it
  result      \* what a read() is about to return, or NoResult

InitStream ==
  /\ stream = [pi \in Pipes |-> << >>]
  /\ writers = [pi \in Pipes |-> FALSE]
  /\ result = [p \in Procs |-> NoResult]

Put(pi, ch) ==
  /\ writers[pi] /\ Len(stream[pi]) < PIPESIZE
  /\ stream' = [stream EXCEPT ![pi] = Append(@, ch)]
  /\ UNCHANGED <<writers, result>>

Take(p, pi, k) ==
  /\ k > 0 \/ (stream[pi] = << >> /\ ~writers[pi])
  /\ result' = [result EXCEPT ![p] = [bytes |-> SubSeq(stream[pi], 1, k), fault |-> FALSE]]
  /\ stream' = [stream EXCEPT ![pi] = SubSeq(@, k + 1, Len(@))]
  /\ UNCHANGED writers

\* A reader whose buffer ends too early loses the byte that has no place.
TakeUpToFault(p, pi, k) ==
  /\ k < Len(stream[pi])
  /\ result' = [result EXCEPT ![p] = [bytes |-> SubSeq(stream[pi], 1, k), fault |-> TRUE]]
  /\ stream' = [stream EXCEPT ![pi] = SubSeq(@, k + 2, Len(@))]
  /\ UNCHANGED writers

Return(p) ==
  /\ result' = [result EXCEPT ![p] = NoResult]
  /\ UNCHANGED <<stream, writers>>

Open(pi) ==
  /\ ~writers[pi]
  /\ writers' = [writers EXCEPT ![pi] = TRUE]
  /\ stream' = [stream EXCEPT ![pi] = << >>]
  /\ UNCHANGED result

CloseWriters(pi) ==
  /\ writers' = [writers EXCEPT ![pi] = FALSE]
  /\ UNCHANGED <<stream, result>>

\* What nobody has read when the pipe is freed is lost.
Free(pi) ==
  /\ ~writers[pi]
  /\ stream' = [stream EXCEPT ![pi] = << >>]
  /\ UNCHANGED <<writers, result>>

NextStream ==
  \/ \E p \in Procs : Return(p)
  \/ \E pi \in Pipes :
       \/ \E ch \in Bytes : Put(pi, ch)
       \/ \E p \in Procs : \E k \in 0..Len(stream[pi]) : Take(p, pi, k) \/ TakeUpToFault(p, pi, k)
       \/ Open(pi) \/ CloseWriters(pi) \/ Free(pi)

StreamSpec == InitStream /\ [][NextStream]_<<stream, writers, result>>
=============================================================================
