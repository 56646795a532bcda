------------------------------ MODULE Console ------------------------------
(***************************************************************************)
(* What node-mini writes: print of the shell (src/shell.cc), print and     *)
(* print_error of a file's context (src/process.cc), which lib/console.js  *)
(* calls, the results the prompt shows, and the reports of exceptions.     *)
(*                                                                         *)
(* Every value is converted to a string just before it is written, and a   *)
(* conversion may run JavaScript: toString of an argument, a result or an  *)
(* exception or the name of a script, the getter of `stack`.  It can call  *)
(* print again, or quit, while the line of the first call is half written. *)
(* C++ that waits for JavaScript is a frame of `stack`; between two        *)
(* returns of JavaScript the C++ code runs as one step.                    *)
(***************************************************************************)
EXTENDS Naturals, Sequences, SequencesExt

CONSTANTS
  MaxCalls, \* bound: calls of print and print_error
  MaxArgs,  \* bound: arguments of a call
  MaxLines  \* bound: lines typed at the prompt

ASSUME ConsoleAssumption == MaxCalls \in Nat /\ MaxArgs \in Nat /\ MaxLines \in Nat

VARIABLES
  mode,   \* "shell", or "file": one script, with print_error and the console
  stack,  \* what waits for JavaScript, the innermost last
  calls,  \* history: the calls made, in order; a call is known by its number
  out,    \* everything written to stdout
  sent,   \* how many of these writes have left the buffer of the stream
  err,    \* everything written to stderr, which has no buffer
  lines,  \* lines read at the prompt
  status  \* "running", "exited" or "aborted"

vars == <<mode, stack, calls, out, sent, err, lines, status>>

\* What becomes of an argument: its text, the text up to a null character (where
\* printf stops), or "<string conversion failed>", when the conversion threw.
Conversions == {"text", "cut", "failed"}

Functions == IF mode = "shell" THEN {"print"} ELSE {"print", "print_error"}

Printers == {"print", "print_error"}

\* Mutant of Frame: the loop skips an argument.
FrameSkips(c, what, n) == [call |-> c, for |-> what, left |-> n - 1]

\* call: the number of the call, 0 for what is none; left: arguments to convert.
Frame(c, what, n) == [call |-> c, for |-> what, left |-> n]
Token(c, text) == [call |-> c, is |-> text]

TypeOK ==
  /\ mode \in {"shell", "file"}
  /\ calls \in Seq([fn : Printers, args : 0..MaxArgs]) /\ Len(calls) <= MaxCalls
  /\ stack \in Seq([call : 0..Len(calls), left : 0..MaxArgs,
                    for : Printers \cup {"script", "result", "exception", "origin",
                                         "trace"}])
  /\ out \in Seq([call : 0..Len(calls),
                  is : Conversions \cup {"Error: ", " ", "newline"}])
  /\ sent \in 0..Len(out)
  /\ err \in Seq({"prompt", "report", "trace", "newline"})
  /\ lines \in 0..MaxLines
  /\ status \in {"running", "exited", "aborted"}

\* The prompt of the shell, or a file that starts to run.
Init ==
  /\ mode \in {"shell", "file"}
  /\ stack = IF mode = "shell" THEN <<>> ELSE <<Frame(0, "script", 0)>>
  /\ calls = <<>> /\ out = <<>> /\ sent = 0 /\ err = <<>> /\ lines = 0
  /\ status = "running"

JavaScript == status = "running" /\ stack # <<>>
Waiting(what) == JavaScript /\ Last(stack).for = what
BecomesTop(what) == stack' = Append(Front(stack), Frame(0, what, 0))

-----------------------------------------------------------------------------
(* print and print_error *)

\* Mutant of EndLine: no fflush.
EndLineBuffered(tokens, c) ==
  /\ out' = out \o tokens \o <<Token(c, "newline")>>
  /\ UNCHANGED sent

\* printf("\n"); fflush(stdout): what any call has written so far goes out.
EndLine(tokens, c) ==
  /\ out' = out \o tokens \o <<Token(c, "newline")>>
  /\ sent' = Len(out')

Start(fn, c) == IF fn = "print_error" THEN <<Token(c, "Error: ")>> ELSE <<>>

\* A call, up to the conversion of its first argument.
CallPrint(fn, n) ==
  /\ JavaScript /\ fn \in Functions
  /\ Len(calls) < MaxCalls
  /\ calls' = Append(calls, [fn |-> fn, args |-> n])
  /\ LET c == Len(calls) + 1 IN
     IF n = 0
       THEN EndLine(Start(fn, c), c) /\ UNCHANGED stack
       ELSE /\ out' = out \o Start(fn, c)
            /\ stack' = Append(stack, Frame(c, fn, n))
            /\ UNCHANGED sent
  /\ UNCHANGED <<mode, err, lines, status>>

\* lib/console.js hands the arguments of log and error on to one of the two.
ConsoleLog(n) == mode = "file" /\ CallPrint("print", n)
ConsoleError(n) == mode = "file" /\ CallPrint("print_error", n)

\* Mutant of Converted: a conversion that fails ends the call.
ConvertedGivesUp ==
  /\ JavaScript /\ Last(stack).for \in Printers
  /\ stack' = Front(stack)
  /\ UNCHANGED <<mode, calls, out, sent, err, lines, status>>

\* The conversion of an argument returns, and the loop goes on to the next one:
\* the separator is out before that is converted.
Converted ==
  /\ JavaScript /\ Last(stack).for \in Printers
  /\ \E text \in Conversions : LET top == Last(stack) IN
     IF top.left = 1
       THEN EndLine(<<Token(top.call, text)>>, top.call) /\ stack' = Front(stack)
       ELSE /\ out' = out \o <<Token(top.call, text), Token(top.call, " ")>>
            /\ stack' = [stack EXCEPT ![Len(stack)].left = @ - 1]
            /\ UNCHANGED sent
  /\ UNCHANGED <<mode, calls, err, lines, status>>

-----------------------------------------------------------------------------
(* The end of a script *)

\* The result of a line is shown unless it is undefined; a file has none to show.
Evaluated ==
  /\ Waiting("script")
  /\ stack' = Front(stack) \/ (mode = "shell" /\ BecomesTop("result"))
  /\ UNCHANGED <<mode, calls, out, sent, err, lines, status>>

\* The result of a line is written, and left in the buffer.
PrintResult ==
  /\ Waiting("result")
  /\ \E text \in Conversions : out' = out \o <<Token(0, text), Token(0, "newline")>>
  /\ stack' = Front(stack)
  /\ UNCHANGED <<mode, calls, sent, err, lines, status>>

\* The exception is converted before anything is written ...
Threw ==
  /\ Waiting("script")
  /\ BecomesTop("exception")
  /\ UNCHANGED <<mode, calls, out, sent, err, lines, status>>

\* ... which is all of it where V8 has no message; ...
ReportBare ==
  /\ Waiting("exception")
  /\ err' = Append(err, "report")
  /\ stack' = Front(stack)
  /\ UNCHANGED <<mode, calls, out, sent, lines, status>>

\* ... or the name of the script it comes from, any value that a script was loaded
\* by, is converted too; ...
NameOrigin ==
  /\ Waiting("exception")
  /\ BecomesTop("origin")
  /\ UNCHANGED <<mode, calls, out, sent, err, lines, status>>

\* ... where and what it was is written, and its property stack is asked for, ...
ReportHead ==
  /\ Waiting("origin")
  /\ err' = Append(err, "report")
  /\ BecomesTop("trace")
  /\ UNCHANGED <<mode, calls, out, sent, lines, status>>

\* ... which is written if it is a string.
ReportTrace ==
  /\ Waiting("trace")
  /\ err' = Append(err, "trace") \/ UNCHANGED err
  /\ stack' = Front(stack)
  /\ UNCHANGED <<mode, calls, out, sent, lines, status>>

ReportStep == ReportBare \/ NameOrigin \/ ReportHead \/ ReportTrace

\* The two copies of the reporter differ in nothing.
ReportException == mode = "shell" /\ ReportStep
parseException == mode = "file" /\ ReportStep

-----------------------------------------------------------------------------
(* The process *)

ReadLine ==
  /\ mode = "shell" /\ status = "running" /\ stack = <<>>
  /\ lines < MaxLines
  /\ lines' = lines + 1
  /\ err' = Append(err, "prompt")
  /\ stack' = <<Frame(0, "script", 0)>>
  /\ UNCHANGED <<mode, calls, out, sent, status>>

\* The process ends: at the end of input, or of the file.
Exit ==
  /\ status = "running" /\ stack = <<>>
  /\ err' = err \o (IF mode = "shell" THEN <<"prompt", "newline">> ELSE <<>>)
  /\ status' = "exited" /\ sent' = Len(out)
  /\ UNCHANGED <<mode, stack, calls, out, lines>>

Quit ==
  /\ mode = "shell" /\ JavaScript
  /\ status' = "exited" /\ sent' = Len(out)
  /\ UNCHANGED <<mode, stack, calls, out, err, lines>>

\* V8 gives up (out of memory, say): the buffer is lost.
Abort ==
  /\ JavaScript
  /\ status' = "aborted"
  /\ UNCHANGED <<mode, stack, calls, out, sent, err, lines>>

\* The buffer is full, or stdout is a terminal: a part of it goes out.
Drain ==
  /\ status = "running"
  /\ sent' \in (sent + 1)..Len(out)
  /\ UNCHANGED <<mode, stack, calls, out, err, lines, status>>

Next ==
  \/ \E n \in 0..MaxArgs : \/ \E fn \in Printers : CallPrint(fn, n)
                           \/ ConsoleLog(n) \/ ConsoleError(n)
  \/ Converted \/ Evaluated \/ PrintResult \/ Threw
  \/ ReportException \/ parseException
  \/ ReadLine \/ Exit \/ Quit \/ Abort \/ Drain

Safety == Init /\ [][Next]_vars

-----------------------------------------------------------------------------
(* Properties *)

Active(c) == \E k \in DOMAIN stack : stack[k].call = c

\* The places in out of what call c wrote.
Own(c) == {k \in DOMAIN out : out[k].call = c}

Part(token) == IF token.is \in Conversions THEN "argument" ELSE token.is

\* What call c has to write: its prefix, its arguments with separators between them, and
\* a newline.
Prefix(c) == IF calls[c].fn = "print_error" THEN 1 ELSE 0
Length(c) == Prefix(c) + (IF calls[c].args = 0 THEN 1 ELSE 2 * calls[c].args)
Line(c) ==
  [k \in 1..Length(c) |-> CASE k <= Prefix(c) -> "Error: "
                            [] k = Length(c) -> "newline"
                            [] OTHER -> IF (k - Prefix(c)) % 2 = 1 THEN "argument" ELSE " "]

\* Whatever the arguments of a call do while they are converted, throw or call print
\* themselves: the n-th thing the call writes is the n-th part of its line, and its line
\* is complete when it returns and not before.
LinesComplete ==
  \A c \in DOMAIN calls :
    /\ IF Active(c) THEN Cardinality(Own(c)) < Length(c)
                    ELSE Cardinality(Own(c)) = Length(c)
    /\ \A k \in Own(c) : Part(out[k]) = Line(c)[Cardinality({j \in Own(c) : j <= k})]

\* Where a call of print or print_error has returned its line is delivered, and so
\* is everything written before: no abort can lose it.
LinesDelivered ==
  \A k \in DOMAIN out : out[k].call # 0 /\ out[k].is = "newline" => k <= sent

\* What is written to stderr overtakes no print: only results of the prompt, which
\* are not flushed, can appear after what came later.
InProgramOrder ==
  [][err' # err => \A k \in (sent + 1)..Len(out) : out[k].call = 0]_vars
=============================================================================
