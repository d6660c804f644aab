------------------------------ MODULE Parsing ------------------------------
(***************************************************************************)
(* mybash (src/lab01/principal): how parsing.c makes pipelines of what is  *)
(* typed, and the loop of mybash.c that asks for them.  A text is a        *)
(* sequence of tokens, "nl" ending a line; blanks are left out, and a word *)
(* of the result is its position in the text.  parser.h has no source: a   *)
(* step is what one of its calls does, as parser.o does it.                *)
(***************************************************************************)
EXTENDS Integers, FiniteSets, SequencesExt

CONSTANT Texts    \* what may be typed

Words == {"word", "exit"}
Tokens == Words \cup {"<", ">", "|", "&", "nl"}

TextsAssumption == Texts \subseteq Seq(Tokens)

VARIABLES
  text,
  pos,        \* the next token
  off,        \* parser_at_eof(): somebody looked beyond the end
  ppc,        \* where parse_pipeline() is
  cmd,        \* the scommand being read
  result,     \* the pipeline so far
  failed,     \* error
  parsed,     \* what each call returned
  quit        \* of main()

vars == <<text, pos, off, ppc, cmd, result, failed, parsed, quit>>

NoFile == 0
NewCommand == [args |-> << >>, in |-> NoFile, out |-> NoFile]
NewPipeline == [commands |-> << >>, wait |-> TRUE]
NoPipeline == [commands |-> << >>, wait |-> FALSE]

Token(i) == IF i \in DOMAIN text THEN text[i] ELSE "eof"
LooksAt(i) == off' = (off \/ Token(i) = "eof")

Init ==
  /\ text \in Texts
  /\ pos = 1 /\ off = FALSE
  /\ ppc = "command" /\ cmd = NewCommand
  /\ result = NewPipeline /\ failed = FALSE
  /\ parsed = << >> /\ quit = FALSE

-----------------------------------------------------------------------------
\* parse_scommand(), up to its loop.
Command ==
  /\ ppc = "command"
  /\ failed' = off
  /\ ppc' = IF off THEN "garbage" ELSE "argument"
  /\ cmd' = NewCommand
  /\ LooksAt(pos)
  /\ UNCHANGED <<text, pos, result, parsed, quit>>

\* parser_next_argument(): a sign before a file name, then a word.  A sign
\* that no word follows is gone, and the command ends there.
Signs == {"<", ">"}
WordAt == IF Token(pos) \in Signs THEN pos + 1 ELSE pos

\* The argument is added, or the redirection replaces the one before.
With(c, w) ==
  CASE Token(pos) = "<" -> [c EXCEPT !.in = w]
    [] Token(pos) = ">" -> [c EXCEPT !.out = w]
    [] OTHER            -> [c EXCEPT !.args = Append(@, w)]

Argument ==
  /\ ppc = "argument" /\ Token(WordAt) \in Words
  /\ cmd' = With(cmd, WordAt)
  /\ pos' = WordAt + 1
  /\ LooksAt(WordAt + 1)
  /\ UNCHANGED <<text, ppc, result, failed, parsed, quit>>

NoArgument ==
  /\ ppc = "argument" /\ Token(WordAt) \notin Words
  /\ pos' = WordAt
  /\ LooksAt(WordAt)
  /\ ppc' = "ended"
  /\ UNCHANGED <<text, cmd, result, failed, parsed, quit>>

\* A command without arguments is an error.  (Mutant: also then the shell
\* looks for a pipe.)
Rejected_WithoutFiles == cmd = NewCommand
Rejected == cmd.args = << >>

Reject ==
  /\ ppc = "ended" /\ Rejected
  /\ failed' = TRUE
  /\ ppc' = "garbage"
  /\ UNCHANGED <<text, pos, off, cmd, result, parsed, quit>>

\* pipeline_push_back(); parser_op_pipe(), and when there is no other
\* command, parser_op_background().
Pushed == Append(result.commands, cmd)

Piped ==
  /\ ppc = "ended" /\ ~Rejected /\ Token(pos) = "|"
  /\ result' = [result EXCEPT !.commands = Pushed]
  /\ pos' = pos + 1
  /\ ppc' = "command"
  /\ UNCHANGED <<text, off, cmd, failed, parsed, quit>>

LastCommand ==
  LET background == Token(pos) = "&" IN
  /\ ppc = "ended" /\ ~Rejected /\ Token(pos) # "|"
  /\ result' = [commands |-> Pushed, wait |-> ~background]
  /\ pos' = IF background THEN pos + 1 ELSE pos
  /\ ppc' = "garbage"
  /\ UNCHANGED <<text, off, cmd, failed, parsed, quit>>

\* parser_garbage(): up to the end of the line, which it takes too.
\* (Mutant: the end of the line is only taken when the line was right.)
RestOfLine == {i \in pos..Len(text) : \A j \in pos..i : text[j] # "nl"}
NextLine_NotAfterError == IF failed THEN pos ELSE pos + Cardinality(RestOfLine) + 1
NextLine == pos + Cardinality(RestOfLine) + 1

Garbage ==
  /\ ppc = "garbage"
  /\ pos' = NextLine
  /\ LooksAt(pos + Cardinality(RestOfLine))
  /\ parsed' = Append(parsed, IF failed \/ RestOfLine # {} THEN NoPipeline ELSE result)
  /\ ppc' = "parsed"
  /\ UNCHANGED <<text, cmd, result, failed, quit>>

\* execute_pipeline(), of which only the internal command exit counts, and
\* the end of the loop of main().
IsExit(p) == Len(p.commands) = 1 /\ text[p.commands[1].args[1]] = "exit"

Run ==
  /\ ppc = "parsed"
  /\ quit' = (IsExit(Last(parsed)) \/ off)
  /\ ppc' = IF quit' THEN "done" ELSE "command"
  /\ result' = NewPipeline
  /\ UNCHANGED <<text, pos, off, cmd, failed, parsed>>

Next == Command \/ Argument \/ NoArgument \/ Reject \/ Piped \/ LastCommand \/ Garbage \/ Run

Spec == Init /\ [][Next]_vars

-----------------------------------------------------------------------------
(* What a line says, told by its tokens at once. *)

LineOf(i) == 1 + Cardinality({j \in 1..(i - 1) : text[j] = "nl"})
Lines == LineOf(Len(text) + 1)
Line(n) == {i \in DOMAIN text : text[i] # "nl" /\ LineOf(i) = n}
Where(n, token) == {i \in Line(n) : text[i] = token}
CommandOf(i) == 1 + Cardinality({j \in Where(LineOf(i), "|") : j < i})
Commands(n) == 1 + Cardinality(Where(n, "|"))

\* The words of command c of line n that follow a sign, and those that do not.
Files(n, c, sign) ==
  {i \in Line(n) : CommandOf(i) = c /\ text[i] \in Words /\ i - 1 \in Where(n, sign)}
Args(n, c) ==
  {i \in Line(n) : CommandOf(i) = c /\ text[i] \in Words} \ (Files(n, c, "<") \cup Files(n, c, ">"))

\* Every command has a word, & is at the end, and after a sign there is a
\* file name, unless the command ends with it.
Valid(n) ==
  /\ \A c \in 1..Commands(n) : Args(n, c) # {}
  /\ \A i \in Where(n, "&") : \A j \in Line(n) : j <= i
  /\ \A i \in Where(n, "<") \cup Where(n, ">") : Token(i + 1) \notin Signs

LastOf(S) == Max(S \cup {NoFile})
Meaning(n) ==
  IF Valid(n)
  THEN [commands |-> [c \in 1..Commands(n) |->
                        [args |-> SetToSortSeq(Args(n, c), <),
                         in |-> LastOf(Files(n, c, "<")), out |-> LastOf(Files(n, c, ">"))]],
        wait |-> Where(n, "&") = {}]
  ELSE NoPipeline

\* parsing.h:14: every call takes exactly one line, whatever is wrong with
\* it, and returns what the line says or NULL; the next call finds the next
\* line.  The shell ends with the line that says exit, or after the last one,
\* which need not end in a newline.
LinesUnderstood ==
  /\ \A n \in 1..Len(parsed) : parsed[n] = Meaning(n)
  /\ \A n \in 1..(Len(parsed) - 1) : ~IsExit(parsed[n])
  /\ ppc = "done" => Len(parsed) = Lines \/ IsExit(Last(parsed))
=============================================================================
