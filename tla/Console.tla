------------------------------ MODULE Console ------------------------------
(***************************************************************************)
(* The console: the ring of typed characters with its three indices        *)
(* (kernel/console.c), the ring of characters to send (kernel/uart.c), and *)
(* the UART behind them, whose interrupt serves both.                      *)
(*                                                                         *)
(* What is done under one acquisition of cons.lock or uart_tx_lock is one  *)
(* step.  Of what is sent only the number counts.  The echo waits for the  *)
(* transmitter with cons.lock held, so consoleintr() is one step that      *)
(* needs it idle.                                                          *)
(***************************************************************************)
EXTENDS Integers, Sequences

CONSTANTS
  Procs,              \* processes that read and write
  INPUT_BUF_SIZE,
  UART_TX_BUF_SIZE,
  WORD,               \* an index is taken modulo WORD (2^32 in the code)
  Programs            \* what may happen: the calls of each process, in a
                      \* function Procs -> Seq(calls), and the bounds on the
                      \* characters that are typed and on the calls of kill()

\* The calls: read(n) and write(n).
Calls == [step : {"read", "put"}, n : Nat]

ConsoleAssumption ==
  /\ INPUT_BUF_SIZE \in Nat \ {0} /\ UART_TX_BUF_SIZE \in Nat \ {0} /\ WORD \in Nat
  /\ WORD % INPUT_BUF_SIZE = 0 /\ INPUT_BUF_SIZE < WORD
  /\ \A g \in Programs : g.calls \in [Procs -> Seq(Calls)]

\* What is typed: characters, end of line and of file, erase, erase all.
Chars == {"x", "nl", "eof"}
Keys == Chars \cup {"backspace", "kill"}
NoKey == "none"

VARIABLES
  buf, r, w, e,   \* struct cons
  tx,             \* uart_tx_w - uart_tx_r
  pc,             \* where each process is
  left,           \* what its call has still to move
  got,            \* what its read() has copied
  killed,         \* p->killed
  script,         \* the calls that each process has still to make
  key,            \* the receive register
  sending,        \* the transmit register is not empty
  irq,            \* the interrupt is pending
  intr,           \* uartintr() runs
  keys, kills     \* how many may still come

cons == <<buf, r, w, e>>
uart == <<tx, sending, irq, intr, key, keys>>
calls == <<left, got, killed, script, kills>>
vars == <<cons, uart, pc, calls>>

Init ==
  /\ buf = [i \in 0..(INPUT_BUF_SIZE - 1) |-> "x"]
  /\ r = 0 /\ w = 0 /\ e = 0 /\ tx = 0
  /\ pc = [p \in Procs |-> "user"]
  /\ left = [p \in Procs |-> 0]
  /\ got = [p \in Procs |-> << >>]
  /\ killed = [p \in Procs |-> FALSE]
  /\ key = NoKey
  /\ sending = FALSE /\ irq = FALSE /\ intr = FALSE
  /\ \E g \in Programs : script = g.calls /\ keys = g.keys /\ kills = g.kills

\* Unsigned arithmetic.
Plus(n, k) == (n + k) % WORD
From(i, j) == [k \in 1..((j - i) % WORD) |-> buf[Plus(i, k - 1) % INPUT_BUF_SIZE]]

Goto(p, step) == pc' = [pc EXCEPT ![p] = step]
Wakeup(from, to) == [q \in Procs |-> IF pc[q] = from THEN to ELSE pc[q]]

-----------------------------------------------------------------------------
(* consoleread() *)

\* Nothing happens to a call of no characters.
Call(p) ==
  /\ pc[p] = "user" /\ script[p] # << >>
  /\ left' = [left EXCEPT ![p] = Head(script[p]).n]
  /\ Goto(p, IF left'[p] = 0 THEN "return" ELSE Head(script[p]).step)
  /\ script' = [script EXCEPT ![p] = Tail(@)]
  /\ UNCHANGED <<cons, uart, got, killed, kills>>

\* How many characters its loop can copy before it runs out of them, has
\* enough, or stops behind a newline or before an end-of-file.
Copied(p) ==
  LET ready == From(r, w)
      ends == {i \in 1..Len(ready) : ready[i] = "nl"}
                \cup {i \in 0..(Len(ready) - 1) : ready[i + 1] = "eof"}
      all == ends \cup {Len(ready), left[p]}
  IN CHOOSE k \in all : \A j \in all : k <= j

Copies(p, k) ==
  /\ got' = [got EXCEPT ![p] = @ \o SubSeq(From(r, w), 1, k)]
  /\ left' = [left EXCEPT ![p] = @ - k]

\* It returns with a line, with enough, before the end-of-file, which it
\* takes only when there was nothing before it, or at a bad address, where
\* a character is lost.
ReadReturns(p) ==
  LET ready == From(r, w)
      k == Copied(p)
  IN
  /\ pc[p] = "read"
  /\ \/ /\ \/ k = left[p]
           \/ k > 0 /\ ready[k] = "nl"
           \/ k < Len(ready) /\ ready[k + 1] = "eof"
        /\ Copies(p, k)
        /\ r' = Plus(r, IF got'[p] = << >> THEN 1 ELSE k)
     \/ \E j \in 0..(k - 1) : Copies(p, j) /\ r' = Plus(r, j + 1)
  /\ Goto(p, "return")
  /\ UNCHANGED <<buf, w, e, uart, killed, script, kills>>

\* It takes what is there, and sleeps for more unless it is killed.
ReadWaits(p) ==
  LET k == Copied(p) IN
  /\ pc[p] = "read"
  /\ k = Len(From(r, w)) /\ k < left[p] /\ (k > 0 => From(r, w)[k] # "nl")
  /\ Copies(p, k)
  /\ r' = w
  /\ Goto(p, IF killed[p] THEN "return" ELSE "sleep_r")
  /\ UNCHANGED <<buf, w, e, uart, killed, script, kills>>

\* The call is over; a killed process ends.
Return(p) ==
  /\ pc[p] = "return"
  /\ Goto(p, "user")
  /\ left' = [left EXCEPT ![p] = 0]
  /\ got' = [got EXCEPT ![p] = << >>]
  /\ script' = [script EXCEPT ![p] = IF killed[p] THEN << >> ELSE @]
  /\ UNCHANGED <<cons, uart, killed, kills>>

\* kill() wakes whoever sleeps.
Kill(p) ==
  /\ kills > 0 /\ kills' = kills - 1
  /\ pc[p] # "user"
  /\ killed' = [killed EXCEPT ![p] = TRUE]
  /\ Goto(p, CASE pc[p] = "sleep_r" -> "read" [] pc[p] = "sleep_tx" -> "put" [] OTHER -> pc[p])
  /\ UNCHANGED <<cons, uart, left, got, script>>

-----------------------------------------------------------------------------
(* uartputc(), for consolewrite(), and uartstart() *)

\* uartstart(), with n characters in the ring: one goes to the idle
\* transmitter, which wakes those who wait for room.
Starts(n) == n > 0 /\ ~sending
UartStart(n, moved) ==
  /\ tx' = IF Starts(n) THEN n - 1 ELSE n
  /\ sending' = (sending \/ n > 0)
  /\ pc' = [q \in Procs |-> IF Starts(n) /\ moved[q] = "sleep_tx" THEN "put" ELSE moved[q]]

UartPutc(p) ==
  /\ pc[p] = "put"
  /\ IF tx = UART_TX_BUF_SIZE
     THEN Goto(p, "sleep_tx") /\ UNCHANGED <<tx, sending, left>>
     ELSE /\ UartStart(tx + 1, [pc EXCEPT ![p] = IF left[p] = 1 THEN "return" ELSE "put"])
          /\ left' = [left EXCEPT ![p] = @ - 1]
  /\ UNCHANGED <<cons, irq, intr, key, keys, got, killed, script, kills>>

-----------------------------------------------------------------------------
(* The UART, uartintr() and consoleintr() *)

Keyboard ==
  /\ key = NoKey /\ keys > 0
  /\ key' \in Keys
  /\ keys' = keys - 1
  /\ irq' = TRUE
  /\ UNCHANGED <<cons, tx, pc, calls, sending, intr>>

Sent ==
  /\ sending
  /\ sending' = FALSE
  /\ irq' = TRUE
  /\ UNCHANGED <<cons, tx, pc, calls, key, keys, intr>>

IntrEnter ==
  /\ irq /\ ~intr
  /\ irq' = FALSE /\ intr' = TRUE
  /\ UNCHANGED <<cons, tx, pc, calls, key, keys, sending>>

\* e - r < INPUT_BUF_SIZE.  (Mutant: one too many.)
HasRoom_OneMore == (e - r) % WORD <= INPUT_BUF_SIZE
HasRoom == (e - r) % WORD < INPUT_BUF_SIZE

\* consoleintr() of a character that is stored, or dropped for want of
\* room: the end of a line, and a full ring, wake the readers.
Store ==
  LET full == (e + 1 - r) % WORD = INPUT_BUF_SIZE IN
  /\ intr /\ key \in Chars
  /\ IF HasRoom
     THEN /\ ~sending /\ sending' = TRUE
          /\ buf' = [buf EXCEPT ![e % INPUT_BUF_SIZE] = key]
          /\ e' = Plus(e, 1)
          /\ IF key \in {"nl", "eof"} \/ full
             THEN w' = Plus(e, 1) /\ pc' = Wakeup("sleep_r", "read")
             ELSE UNCHANGED <<w, pc>>
     ELSE UNCHANGED <<sending, buf, e, w, pc>>
  /\ key' = NoKey
  /\ UNCHANGED <<r, tx, keys, irq, intr, calls>>

\* Backspace takes the last character of the line, ^U all of them back to
\* a newline, which would be before w.
Erase ==
  LET erased == IF key = "backspace" \/ e = w THEN Plus(e, WORD - 1) ELSE w IN
  /\ intr /\ key \in {"backspace", "kill"}
  /\ IF e # w
     THEN ~sending /\ sending' = TRUE /\ e' = erased
     ELSE UNCHANGED <<sending, e>>
  /\ key' = NoKey
  /\ UNCHANGED <<buf, r, w, tx, pc, keys, irq, intr, calls>>

\* Nothing more to receive: uartstart(), and the end of uartintr().
IntrExit ==
  /\ intr /\ key = NoKey
  /\ UartStart(tx, pc)
  /\ intr' = FALSE
  /\ UNCHANGED <<cons, irq, calls, key, keys>>

Next ==
  \/ \E p \in Procs :
       Call(p) \/ ReadReturns(p) \/ ReadWaits(p) \/ Return(p) \/ Kill(p) \/ UartPutc(p)
  \/ Keyboard \/ Sent \/ IntrEnter \/ Store \/ Erase \/ IntrExit

Spec == Init /\ [][Next]_vars

-----------------------------------------------------------------------------
\* No wakeup is missed: a reader sleeps only when every complete line has
\* been read, and a writer only when the ring is full; and as long as there
\* is something to send an interrupt will come, or has.
NoLostWakeup ==
  /\ \A p \in Procs :
       /\ pc[p] = "sleep_r" => r = w
       /\ pc[p] = "sleep_tx" => tx = UART_TX_BUF_SIZE
  /\ tx > 0 => sending \/ irq \/ intr

\* The three indices, also past 2^32, are two sequences: what may be read
\* and what may be erased.
Lines == INSTANCE LineInput WITH
  Room <- INPUT_BUF_SIZE, ready <- From(r, w), line <- From(w, e)
ImplementsLines == Lines!LinesSpec
=============================================================================
