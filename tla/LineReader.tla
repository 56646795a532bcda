----------------------------- MODULE LineReader -----------------------------
(***************************************************************************)
(* RunShell (src/shell.cc): what the prompt reads, and cuts into scripts.  *)
(* fgets fills a buffer of BufferSize bytes, so that a line that does not  *)
(* fit comes in pieces, each one a script of its own.  What a script does  *)
(* is in module Shell, where every line fits.                              *)
(***************************************************************************)
EXTENDS Integers, Sequences, FiniteSetsExt

CONSTANTS
  BufferSize, \* kBufferSize
  Inputs      \* what stdin can hold: sequences of "newline", "null" and other bytes

ASSUME BufferAssumption == BufferSize \in Nat /\ BufferSize >= 2
ASSUME InputsAssumption == \A i \in Inputs : i \in Seq({"byte", "null", "newline"})

VARIABLES
  input,  \* all of stdin
  pos,    \* how many bytes of it were read into the buffer
  pieces, \* history: what fgets returned, each the place of its first and last byte
          \* and of the last byte that V8 was given
  state   \* "read", "execute" or "ended"

vars == <<input, pos, pieces, state>>

TypeOK ==
  /\ input \in Inputs
  /\ pos \in 0..Len(input)
  /\ pieces \in Seq([first : 1..Len(input), last : 1..Len(input), text : 0..Len(input)])
  /\ state \in {"read", "execute", "ended"}

Init == input \in Inputs /\ pos = 0 /\ pieces = <<>> /\ state = "read"

\* The string that V8 is given ends before the first null character.
IsText(first, last, text) ==
  /\ \A k \in first..text : input[k] # "null"
  /\ text # last => input[text + 1] = "null"

\* Mutant of Filled: the buffer takes one byte more.
FilledOver(first, last) == last - first + 1 = BufferSize

\* One byte of the buffer is for the null at its end.
Filled(first, last) == last - first + 1 = BufferSize - 1

\* Mutant of Fgets: a read that does not stop at newlines.
FgetsBlock ==
  /\ state = "read"
  /\ \E last \in pos + 1 .. Len(input), text \in pos .. Len(input) :
       /\ Filled(pos + 1, last) \/ last = Len(input)
       /\ \A k \in pos + 1 .. last - 1 : ~Filled(pos + 1, k)
       /\ text <= last /\ IsText(pos + 1, last, text)
       /\ pieces' = Append(pieces, [first |-> pos + 1, last |-> last, text |-> text])
       /\ pos' = last
  /\ state' = "execute"
  /\ UNCHANGED input

\* Mutant of Fgets: the byte after each piece is lost.
FgetsLosesNext ==
  /\ state = "read"
  /\ \E last \in pos + 1 .. Len(input) :
       /\ input[last] = "newline" \/ Filled(pos + 1, last) \/ last = Len(input)
       /\ \A k \in pos + 1 .. last - 1 : input[k] # "newline" /\ ~Filled(pos + 1, k)
       /\ pieces' = Append(pieces, [first |-> pos + 1, last |-> last, text |-> last])
       /\ pos' = last + 1
  /\ state' = "execute"
  /\ UNCHANGED input

\* fgets reads up to a newline, to the end of the buffer, or to the end of stdin.
Fgets ==
  /\ state = "read"
  /\ \E last \in pos + 1 .. Len(input), text \in pos .. Len(input) :
       /\ input[last] = "newline" \/ Filled(pos + 1, last) \/ last = Len(input)
       /\ \A k \in pos + 1 .. last - 1 : input[k] # "newline" /\ ~Filled(pos + 1, k)
       /\ text <= last /\ IsText(pos + 1, last, text)
       /\ pieces' = Append(pieces, [first |-> pos + 1, last |-> last, text |-> text])
       /\ pos' = last
  /\ state' = "execute"
  /\ UNCHANGED input

\* ExecuteString returns, or the script calls quit.
Executed ==
  /\ state = "execute"
  /\ state' \in {"read", "ended"}
  /\ UNCHANGED <<input, pos, pieces>>

\* Mutant of EndOfInput: the loop does not test str.
EndOfInputIgnored ==
  /\ state = "read" /\ pos = Len(input)
  /\ UNCHANGED vars

\* fgets returns NULL where nothing is left ...
EndOfInput ==
  /\ state = "read" /\ pos = Len(input)
  /\ state' = "ended"
  /\ UNCHANGED <<input, pos, pieces>>

\* ... and where reading fails, whatever was in the buffer by then.
ReadError ==
  /\ state = "read"
  /\ state' = "ended"
  /\ UNCHANGED <<input, pos, pieces>>

RunShell == Fgets \/ Executed \/ EndOfInput \/ ReadError

\* The shell goes on, provided that its scripts do.
Spec == Init /\ [][RunShell]_vars /\ WF_vars(Fgets) /\ WF_vars(Executed)
             /\ WF_vars(EndOfInput)

-----------------------------------------------------------------------------
(* Properties *)

LineStart(k) == Max({0} \cup {j \in 1 .. k - 1 : input[j] = "newline"}) + 1

\* The cuts depend on the line alone, whatever the lines before it were: the pieces
\* of a line end at every multiple of BufferSize - 1 bytes, at its newline, and where
\* stdin ends.
CutExactly ==
  \A k \in 1..pos : (\E n \in DOMAIN pieces : pieces[n].last = k) <=>
    \/ input[k] = "newline" \/ k = Len(input)
    \/ (k - LineStart(k) + 1) % (BufferSize - 1) = 0

IsLine(a, b) ==
  /\ a = 1 \/ input[a - 1] = "newline"
  /\ input[b] = "newline"
  /\ \A k \in a .. b - 1 : input[k] # "newline"

\* A line that fits into the buffer and holds no null is one script, whole and alone,
\* also after a line that was cut.
ShortLinesWhole ==
  \A a \in 1..pos : \A b \in a..pos :
    IsLine(a, b) /\ b - a + 1 <= BufferSize - 1 /\ (\A k \in a..b : input[k] # "null") =>
      \E n \in DOMAIN pieces : pieces[n] = [first |-> a, last |-> b, text |-> b]

\* The shell ends when its input does.
ReaderEnds == <>(state = "ended")
=============================================================================
