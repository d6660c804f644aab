------------------------------- MODULE MCUser -------------------------------
(* A small instance of the parts of User.                                  *)
EXTENDS MCSemaphore, User

-----------------------------------------------------------------------------
(* The shell *)

Foreground(c) == [commands |-> c, wait |-> TRUE]
Background(c) == [commands |-> c, wait |-> FALSE]

Plain(does) == [does |-> does, in |-> FALSE, out |-> FALSE]
From(does) == [does |-> does, in |-> TRUE, out |-> FALSE]
To(does) == [does |-> does, in |-> FALSE, out |-> TRUE]

\* A writer without end and a reader that does not read it, or that has a
\* file instead; the reverse, after a pipeline in the background; chains of
\* three, one of them with a writer without end in front.
SessionSet ==
  {<<Foreground(<<To("source"), Plain("quick")>>), Foreground(<<Plain("quick")>>)>>,
   <<Foreground(<<Plain("source"), From("quick")>>), Foreground(<<To("quick")>>)>>,
   <<Background(<<Plain("quick"), Plain("quick")>>),
     Foreground(<<Plain("quick"), To("filter")>>)>>,
   <<Foreground(<<Plain("quick"), From("filter"), Plain("filter")>>),
     Foreground(<<Plain("quick")>>)>>,
   <<Foreground(<<Plain("source"), Plain("quick"), Plain("quick")>>),
     Foreground(<<Plain("quick")>>)>>}

\* Every text of up to four tokens, and lines of four before another line.
TextSet ==
  LET tokens == {"word", "exit", "<", ">", "|", "&", "nl"} IN
  UNION {[1..n -> tokens] : n \in 0..4} \cup
  {<<"word">> \o t \o <<"nl", "exit">> : t \in [1..3 -> tokens]}

-----------------------------------------------------------------------------
(* Pipes and the console *)

\* A writer and a reader, which may each keep the end it does not use;
\* two writers and a reader; a program at the limits of its tables.
PipeSet ==
  {<<<<"pipe", "fork", "close", "write", "write">>, <<"close", "read", "read">>, << >>>>,
   <<<<"pipe", "fork", "fork", "read">>, <<"write">>, <<"write">>>>,
   <<<<"pipe", "fork", "close", "dup", "close">>, <<"pipe", "write">>, << >>>>}

\* Two readers, with a ring that fills up and indices that wrap around; a
\* reader, which may be killed, and a writer that waits for the UART.
Input(n) == [step |-> "read", n |-> n]
Output(n) == [step |-> "put", n |-> n]
ConsoleSet ==
  {[calls |-> <<<<Input(2), Input(2)>>, <<Input(1)>>>>, keys |-> 4, kills |-> 0],
   [calls |-> <<<<Input(2)>>, <<Output(3)>>>>, keys |-> 2, kills |-> 1]}

ConsoleProcSet == {1, 2}

-----------------------------------------------------------------------------
\* Blocks below, at and above what is asked of the kernel, and room for
\* several; the program itself extends its memory once.
RequestSet == {1, 2, 4}
=============================================================================
