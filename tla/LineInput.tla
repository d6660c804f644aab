----------------------------- MODULE LineInput -----------------------------
(***************************************************************************)
(* What the console promises to those who read from it: what is typed      *)
(* comes in order and once, after its line is complete; until then it can  *)
(* be erased, later no more.  A read() gets a line at most; end-of-file    *)
(* ends it, and is used up by a read() that gets nothing else.             *)
(***************************************************************************)
EXTENDS Naturals, Sequences

CONSTANTS Procs, Chars, Room    \* Room: characters that are kept, at most

VARIABLES
  ready,      \* complete lines that nobody has read
  line,       \* the line that is being typed
  got         \* what the read() of each process has got so far

InitLines == ready = << >> /\ line = << >> /\ got = [p \in Procs |-> << >>]

Type(c) ==
  LET typed == Append(line, c) IN
  /\ Len(ready) + Len(line) < Room
  /\ IF c \in {"nl", "eof"} \/ Len(ready) + Len(typed) = Room
     THEN ready' = ready \o typed /\ line' = << >>
     ELSE ready' = ready /\ line' = typed
  /\ UNCHANGED got

Erase ==
  /\ \E k \in 0..(Len(line) - 1) : line' = SubSeq(line, 1, k)
  /\ UNCHANGED <<ready, got>>

\* Of the k characters the last may end a line.  With a bad address the
\* character after them is lost.
Take(p, k, fault) ==
  LET next == SubSeq(ready, 1, k) IN
  /\ \A i \in 1..k : next[i] # "eof" /\ (next[i] = "nl" => i = k)
  /\ got' = [got EXCEPT ![p] = @ \o next]
  /\ ready' = SubSeq(ready, IF fault THEN k + 2 ELSE k + 1, Len(ready))
  /\ UNCHANGED line

TakeEof(p) ==
  /\ got[p] = << >> /\ Head(ready) = "eof"
  /\ ready' = Tail(ready)
  /\ UNCHANGED <<line, got>>

Return(p) ==
  /\ got' = [got EXCEPT ![p] = << >>]
  /\ UNCHANGED <<ready, line>>

NextLines ==
  \/ \E c \in Chars : Type(c)
  \/ Erase
  \/ \E p \in Procs :
       \/ Return(p)
       \/ ready # << >> /\ TakeEof(p)
       \/ \E k \in 1..Len(ready) : Take(p, k, FALSE)
       \/ \E k \in 0..(Len(ready) - 1) : Take(p, k, TRUE)

LinesSpec == InitLines /\ [][NextLines]_<<ready, line, got>>
=============================================================================
