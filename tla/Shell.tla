------------------------------- MODULE Shell -------------------------------
(***************************************************************************)
(* The V8 shell of node-mini (src/shell.cc): the loop over the command     *)
(* line (RunMain), the read-eval-print loop (RunShell), ExecuteString with *)
(* its TryCatch, and the functions load, read and quit that a script can   *)
(* call and that re-enter the interpreter.                                 *)
(*                                                                         *)
(* A script is code the model does not know: while it runs it may call     *)
(* load, throw, catch what was thrown, quit, or end.  Every activation of  *)
(* ExecuteString is a frame of `stack`.  A value that is converted to a    *)
(* string may run JavaScript too (its toString, or the getter of a stack   *)
(* property): where Load converts an argument, or ReportException what it  *)
(* prints, that is a frame of its own.  What print and read convert, and   *)
(* the result of a line, count as the script's own running.  A frame below *)
(* the top is suspended in load or in ReportException.                     *)
(***************************************************************************)
EXTENDS Integers, Sequences, FiniteSets

CONSTANTS
  Argvs,       \* the command lines: sequences of kinds of argument
  MaxDepth,    \* scripts nested in one another before V8's stack overflows
  MaxLoadArgs, \* bound: files named in one call of load
  MaxLines,    \* bound: lines typed at the prompt before end of file
  QuitCodes    \* the integers a script passes to quit

\* The kinds of argument RunMain tells apart; "--unknown" is any other "--x".
Kinds == {"--shell", "-f", "--unknown", "-e", "name"}

ASSUME ShellAssumption ==
  /\ Argvs \subseteq Seq(Kinds)
  /\ MaxDepth \in Nat \ {0}
  /\ MaxLoadArgs \in Nat
  /\ MaxLines \in Nat
  /\ QuitCodes \subseteq Int

VARIABLES
  argv,        \* argv[1 .. argc-1]; it never changes
  i,           \* the loop variable of RunMain
  runShell,    \* the static run_shell
  phase,       \* "init", "args": RunMain, "prompt": RunShell, "cleanup", "exited"
  context,     \* CreateShellContext has returned a context
  stack,       \* the activations of JavaScript, the innermost last
  result,      \* what RunMain returned (0 until it returns)
  status,      \* the exit status of the process, -1 while it is alive
  reports,     \* how often ReportException has run
  lines,       \* lines read at the prompt
  failedLines, \* history: lines whose ExecuteString returned false
  outcome      \* history: what became of each argument

vars == <<argv, i, runShell, phase, context, stack, result, status, reports,
          lines, failedLines, outcome>>

Outcomes == {"pending", "flag", "unreadable", "badsource",
             "running", "ran", "failed"}

\* "run": in the script's code; "load": in the callback Load, between files or
\* while one is executed; "naming", "named": in Load, while the next argument is
\* converted by JavaScript and after it; "thrown": an exception is pending in the
\* script; "failed": the exception has left the script, or the source did not
\* compile; "reporting", "reported": while what ReportException prints is
\* converted by JavaScript, and after it.
Places == {"run", "load", "naming", "named", "thrown", "failed", "reporting",
           "reported"}

\* todo: files the call of load has still to execute; report: the argument
\* report_exceptions of this ExecuteString.
Frame == [at : Places, todo : 0..MaxLoadArgs, report : BOOLEAN]

TypeOK ==
  /\ argv \in Argvs
  /\ i \in 1..(Len(argv) + 1)
  /\ runShell \in BOOLEAN
  /\ phase \in {"init", "args", "prompt", "cleanup", "exited"}
  /\ context \in BOOLEAN
  /\ stack \in Seq(Frame)
  /\ Len(stack) <= MaxDepth + 1
  /\ result \in {0, 1}
  /\ status \in {-1} \cup 0..255
  /\ reports \in Nat
  /\ lines \in 0..MaxLines
  /\ failedLines \in 0..MaxLines
  /\ outcome \in [1..Len(argv) -> Outcomes]

\* shell::init before it creates the context.
Init ==
  /\ argv \in Argvs
  /\ i = 1
  /\ runShell = (argv = <<>>)
  /\ phase = "init"
  /\ context = FALSE
  /\ stack = <<>>
  /\ result = 0
  /\ status = -1
  /\ reports = 0
  /\ lines = 0
  /\ failedLines = 0
  /\ outcome = [k \in 1..Len(argv) |-> "pending"]

\* The context is there and entered: RunMain is called.
CreateContext ==
  /\ phase = "init"
  /\ phase' = "args"
  /\ context' = TRUE
  /\ UNCHANGED <<argv, i, runShell, stack, result, status, reports, lines,
                 failedLines, outcome>>

\* "Error creating context": init returns 1 before it looks at an argument.
NoContext ==
  /\ phase = "init"
  /\ phase' = "exited"
  /\ status' = 1
  /\ UNCHANGED <<argv, i, runShell, context, stack, result, reports, lines,
                 failedLines, outcome>>

-----------------------------------------------------------------------------
(* ExecuteString, and the other ways into JavaScript *)

Top == stack[Len(stack)]
Pop == SubSeq(stack, 1, Len(stack) - 1)

\* The place of the innermost script, if one is active.
At(place) == stack # <<>> /\ phase \in {"args", "prompt"} /\ Top.at = place

MoveTo(place, n) ==
  [stack EXCEPT ![Len(stack)] = [@ EXCEPT !.at = place, !.todo = n]]

\* Compile and, if that succeeds, enter the script.  Where V8 has no stack left
\* it fails with a RangeError before its first statement.  A conversion enters
\* JavaScript in the same way, or fails at once.
Enter(frames, report) ==
  \E place \in IF Len(stack) < MaxDepth THEN {"run", "failed"} ELSE {"failed"} :
    stack' = Append(frames, [at |-> place, todo |-> 0, report |-> report])

-----------------------------------------------------------------------------
(* RunMain *)

Examining(kind) ==
  /\ phase = "args" /\ stack = <<>>
  /\ i <= Len(argv)
  /\ argv[i] = kind

\* What follows `return` in RunMain: the prompt, or the clean-up of init.
AfterMain == IF runShell THEN "prompt" ELSE "cleanup"

ShellFlag ==
  /\ Examining("--shell")
  /\ runShell' = TRUE
  /\ outcome' = [outcome EXCEPT ![i] = "flag"]
  /\ i' = i + 1
  /\ UNCHANGED <<argv, phase, context, stack, result, status, reports, lines,
                 failedLines>>

\* -f, and an unknown flag with its warning: neither changes anything.
IgnoredFlag ==
  /\ Examining("-f") \/ Examining("--unknown")
  /\ outcome' = [outcome EXCEPT ![i] = "flag"]
  /\ i' = i + 1
  /\ UNCHANGED <<argv, runShell, phase, context, stack, result, status, reports,
                 lines, failedLines>>

\* Mutant of IsOption: i + 1 < argc is not tested.
OptionWithoutSource == Examining("-e")

\* -e with a source after it, of whatever kind that argument looks.
IsOption == Examining("-e") /\ i < Len(argv)

\* Mutant of EvalOption: argv[i + 1] instead of argv[++i].
EvalOptionNotConsumed ==
  /\ IsOption
  /\ Enter(stack, TRUE)
  /\ outcome' = [outcome EXCEPT ![i] = "flag", ![i + 1] = "running"]
  /\ i' = i
  /\ UNCHANGED <<argv, runShell, phase, context, result, status, reports, lines,
                 failedLines>>

EvalOption ==
  /\ IsOption
  /\ Enter(stack, TRUE)
  /\ outcome' = [outcome EXCEPT ![i] = "flag", ![i + 1] = "running"]
  /\ i' = i + 1
  /\ UNCHANGED <<argv, runShell, phase, context, result, status, reports, lines,
                 failedLines>>

\* The source of -e is too long for a V8 string: return 1, without a message.
BadSource ==
  /\ IsOption
  /\ outcome' = [outcome EXCEPT ![i] = "flag", ![i + 1] = "badsource"]
  /\ i' = i + 1
  /\ result' = 1
  /\ phase' = AfterMain
  /\ UNCHANGED <<argv, runShell, context, stack, status, reports, lines,
                 failedLines>>

\* Any other argument, a trailing -e included, names a file.
IsFile == Examining("name") \/ (Examining("-e") /\ i = Len(argv))

RunFile ==
  /\ IsFile
  /\ Enter(stack, TRUE)
  /\ outcome' = [outcome EXCEPT ![i] = "running"]
  /\ UNCHANGED <<argv, i, runShell, phase, context, result, status, reports,
                 lines, failedLines>>

\* "Error reading ...": the file is skipped and is not a failure.
UnreadableFile ==
  /\ IsFile
  /\ outcome' = [outcome EXCEPT ![i] = "unreadable"]
  /\ i' = i + 1
  /\ UNCHANGED <<argv, runShell, phase, context, stack, result, status, reports,
                 lines, failedLines>>

ArgsDone ==
  /\ phase = "args" /\ stack = <<>>
  /\ i > Len(argv)
  /\ phase' = AfterMain
  /\ UNCHANGED <<argv, i, runShell, context, stack, result, status, reports,
                 lines, failedLines, outcome>>

-----------------------------------------------------------------------------
(* RunShell, and the rest of init *)

ReadLine ==
  /\ phase = "prompt" /\ stack = <<>>
  /\ lines < MaxLines
  /\ lines' = lines + 1
  /\ Enter(stack, TRUE)
  /\ UNCHANGED <<argv, i, runShell, phase, context, result, status, reports,
                 failedLines, outcome>>

\* Mutant of EndOfFile: the loop does not break.
EndOfFileIgnored ==
  /\ phase = "prompt" /\ stack = <<>>
  /\ UNCHANGED vars

EndOfFile ==
  /\ phase = "prompt" /\ stack = <<>>
  /\ phase' = "cleanup"
  /\ UNCHANGED <<argv, i, runShell, context, stack, result, status, reports,
                 lines, failedLines, outcome>>

\* Mutant of Cleanup: the result of RunMain is lost.
CleanupForgetsResult ==
  /\ phase = "cleanup"
  /\ phase' = "exited"
  /\ status' = 0
  /\ UNCHANGED <<argv, i, runShell, context, stack, result, reports, lines,
                 failedLines, outcome>>

\* The isolate and V8 are disposed of; main returns what RunMain returned.
Cleanup ==
  /\ phase = "cleanup"
  /\ phase' = "exited"
  /\ status' = result
  /\ UNCHANGED <<argv, i, runShell, context, stack, result, reports, lines,
                 failedLines, outcome>>

-----------------------------------------------------------------------------
(* What a running script does *)

\* An exception of the script's own, or one of the three of read.
Throw ==
  /\ At("run")
  /\ stack' = MoveTo("thrown", 0)
  /\ UNCHANGED <<argv, i, runShell, phase, context, result, status, reports,
                 lines, failedLines, outcome>>

\* A try statement of the script catches what was thrown.
Catch ==
  /\ At("thrown")
  /\ stack' = MoveTo("run", 0)
  /\ UNCHANGED <<argv, i, runShell, phase, context, result, status, reports,
                 lines, failedLines, outcome>>

Uncaught ==
  /\ At("thrown")
  /\ stack' = MoveTo("failed", 0)
  /\ UNCHANGED <<argv, i, runShell, phase, context, result, status, reports,
                 lines, failedLines, outcome>>

CallLoad ==
  /\ At("run")
  /\ \E n \in 0..MaxLoadArgs : stack' = MoveTo("load", n)
  /\ UNCHANGED <<argv, i, runShell, phase, context, result, status, reports,
                 lines, failedLines, outcome>>

\* Load has its next name, converted by JavaScript or without any.
HasName == (At("load") \/ At("named")) /\ Top.todo > 0

\* Mutant of LoadFile: report_exceptions is true.
LoadFileReporting ==
  /\ HasName
  /\ Enter(MoveTo("load", Top.todo - 1), TRUE)
  /\ UNCHANGED <<argv, i, runShell, phase, context, result, status, reports,
                 lines, failedLines, outcome>>

\* The next argument of load is an object: it is converted by its JavaScript,
\* which may load, throw or quit as any script may.
ConvertName ==
  /\ At("load") /\ Top.todo > 0
  /\ Enter(MoveTo("naming", Top.todo), FALSE)
  /\ UNCHANGED <<argv, i, runShell, phase, context, result, status, reports, lines,
                 failedLines, outcome>>

\* One turn of the loop in Load: the file named is executed, silently, ...
LoadFile ==
  /\ HasName
  /\ Enter(MoveTo("load", Top.todo - 1), FALSE)
  /\ UNCHANGED <<argv, i, runShell, phase, context, result, status, reports,
                 lines, failedLines, outcome>>

\* ... or it cannot be read, or the argument has no conversion (a symbol).
LoadUnreadable ==
  /\ HasName
  /\ stack' = MoveTo("thrown", 0)
  /\ UNCHANGED <<argv, i, runShell, phase, context, result, status, reports,
                 lines, failedLines, outcome>>

LoadReturns ==
  /\ At("load") /\ Top.todo = 0
  /\ stack' = MoveTo("run", 0)
  /\ UNCHANGED <<argv, i, runShell, phase, context, result, status, reports,
                 lines, failedLines, outcome>>

\* quit exits at once: nothing is unwound, whatever is on the stack.
Quit ==
  /\ At("run")
  /\ \E code \in QuitCodes : status' = code % 256
  /\ phase' = "exited"
  /\ UNCHANGED <<argv, i, runShell, context, stack, result, reports, lines,
                 failedLines, outcome>>

-----------------------------------------------------------------------------
(* ExecuteString returns *)

\* Where Load or ReportException goes on after the JavaScript it waited for.
After == [load |-> "load", naming |-> "named", reporting |-> "reported"]

Caller == stack[Len(stack) - 1]

\* The innermost activation ends and its caller goes on at the given place.
Resume(place, n) ==
  [Pop EXCEPT ![Len(stack) - 1] = [@ EXCEPT !.at = place, !.todo = n]]

\* A loaded script, or a conversion, ends: its caller goes on.
SucceedNested ==
  /\ At("run") /\ Len(stack) > 1
  /\ stack' = Resume(After[Caller.at], Caller.todo)
  /\ UNCHANGED <<argv, i, runShell, phase, context, result, status, reports, lines,
                 failedLines, outcome>>

\* The outermost script ends: RunMain or the prompt goes on.
Succeed ==
  /\ At("run") /\ Len(stack) = 1
  /\ stack' = Pop
  /\ IF phase = "args"
       THEN /\ outcome' = [outcome EXCEPT ![i] = "ran"]
            /\ i' = i + 1
       ELSE UNCHANGED <<outcome, i>>
  /\ UNCHANGED <<argv, runShell, phase, context, result, status, reports, lines,
                 failedLines>>

Report == reports' = IF Top.report THEN reports + 1 ELSE reports

\* Mutant of FailNested: load reports what it could not execute.
FailNestedReports ==
  /\ At("failed") /\ Len(stack) > 1
  /\ reports' = reports + 1
  /\ stack' = Resume(IF Caller.at = "reporting" THEN "reported" ELSE "thrown", 0)
  /\ UNCHANGED <<argv, i, runShell, phase, context, result, status, lines,
                 failedLines, outcome>>

\* Mutant of FailNested: load goes on with its next file.
FailNestedGoesOn ==
  /\ At("failed") /\ Len(stack) > 1
  /\ Report
  /\ stack' = Resume("load", Caller.todo)
  /\ UNCHANGED <<argv, i, runShell, phase, context, result, status, lines,
                 failedLines, outcome>>

\* Its file, or the conversion of its next name, has failed: Load throws and
\* returns.  ReportException goes on with "<string conversion failed>".
FailNested ==
  /\ At("failed") /\ Len(stack) > 1
  /\ Report
  /\ stack' = Resume(IF Caller.at = "reporting" THEN "reported" ELSE "thrown", 0)
  /\ UNCHANGED <<argv, i, runShell, phase, context, result, status, lines,
                 failedLines, outcome>>

\* ReportException converts the exception, the name of its script and its stack
\* property; all the JavaScript these run is one activation here.
ConvertException ==
  /\ At("failed") /\ Top.report
  /\ Enter(MoveTo("reporting", 0), FALSE)
  /\ UNCHANGED <<argv, i, runShell, phase, context, result, status, reports, lines,
                 failedLines, outcome>>

\* The outermost script has failed, and no JavaScript is left to run for it.
OuterFailed == (At("failed") \/ At("reported")) /\ Len(stack) = 1

\* Mutant of FailArg: RunMain does not return.
FailArgGoesOn ==
  /\ OuterFailed /\ phase = "args"
  /\ Report
  /\ stack' = Pop
  /\ outcome' = [outcome EXCEPT ![i] = "failed"]
  /\ result' = 1
  /\ i' = i + 1
  /\ UNCHANGED <<argv, runShell, phase, context, status, lines, failedLines>>

\* Mutant of FailArg: a failure skips the prompt.
FailArgSkipsPrompt ==
  /\ OuterFailed /\ phase = "args"
  /\ Report
  /\ stack' = Pop
  /\ outcome' = [outcome EXCEPT ![i] = "failed"]
  /\ result' = 1
  /\ phase' = "cleanup"
  /\ UNCHANGED <<argv, i, runShell, context, status, lines, failedLines>>

\* ExecuteString returns false to RunMain, which returns 1.
FailArg ==
  /\ OuterFailed /\ phase = "args"
  /\ Report
  /\ stack' = Pop
  /\ outcome' = [outcome EXCEPT ![i] = "failed"]
  /\ result' = 1
  /\ phase' = AfterMain
  /\ UNCHANGED <<argv, i, runShell, context, status, lines, failedLines>>

\* ExecuteString returns false to RunShell, which does not look at it.
FailLine ==
  /\ OuterFailed /\ phase = "prompt"
  /\ Report
  /\ stack' = Pop
  /\ failedLines' = failedLines + 1
  /\ UNCHANGED <<argv, i, runShell, phase, context, result, status, lines,
                 outcome>>

-----------------------------------------------------------------------------
\* The process is gone.
Exited == phase = "exited" /\ UNCHANGED vars

MainStep == \/ CreateContext \/ NoContext
            \/ ShellFlag \/ IgnoredFlag \/ EvalOption \/ BadSource \/ RunFile
            \/ UnreadableFile \/ ArgsDone \/ ReadLine \/ EndOfFile \/ Cleanup

ScriptStep == Throw \/ Catch \/ Uncaught \/ CallLoad \/ Quit

LoadStep == ConvertName \/ LoadFile \/ LoadUnreadable \/ LoadReturns

ReturnStep == \/ Succeed \/ SucceedNested
              \/ FailNested \/ ConvertException \/ FailArg \/ FailLine

Next == MainStep \/ ScriptStep \/ LoadStep \/ ReturnStep \/ Exited

Safety == Init /\ [][Next]_vars

\* The C++ code always goes on, an exception is always caught or not, and the
\* bounded input ends.  A script is assumed to end if it gets control again and
\* again: without that, while (true) never gives control back.
Fairness ==
  /\ WF_vars(MainStep)
  /\ WF_vars(LoadStep)
  /\ WF_vars(Catch \/ Uncaught)
  /\ WF_vars(FailNested \/ ConvertException \/ FailArg \/ FailLine)
  /\ \A depth \in 1..MaxDepth :
        SF_vars((Succeed \/ SucceedNested) /\ Len(stack) = depth)

Spec == Safety /\ Fairness

-----------------------------------------------------------------------------
(* Properties *)

Failed == {"failed", "badsource"}
Settled == {"flag", "unreadable", "ran"}

\* The arguments get their turn from left to right, each one once and none
\* after one that failed ("Process remaining command line arguments and execute
\* files", shell.cc:252): whatever has been touched has only settled, unfailed
\* arguments before it.
ArgsInOrder ==
  \A k \in 1..Len(argv) : outcome[k] # "pending" =>
     \A j \in 1..(k - 1) : outcome[j] \in Settled

\* When the process ends other than by quit, its status is 0 exactly if the
\* context could be made, every argument had its turn and none failed, and else
\* 1; what happens at the prompt does not count, and an unreadable file is no
\* failure.
StatusTellsFailure ==
  phase = "exited" /\ stack = <<>> =>
     status = IF context /\ \A k \in 1..Len(argv) : outcome[k] \in Settled
                THEN 0 ELSE 1

\* Every script started by an argument or a line that fails is reported exactly
\* once; a failure inside load is never reported of itself, however deep the
\* exception started and whether or not the caller of load caught it.
ReportedOnce ==
  reports = failedLines
            + Cardinality({k \in 1..Len(argv) : outcome[k] = "failed"})

\* The prompt has been asked for: no argument, or a --shell that was taken for a
\* flag (one that is the source of -e, or comes after a failure, is none).
PromptAsked ==
  \/ argv = <<>>
  \/ \E k \in 1..Len(argv) : argv[k] = "--shell" /\ outcome[k] = "flag"

\* Leaving the argument loop other than by quit opens the prompt exactly if it
\* was asked for, even after a failed argument.
PromptIffAsked ==
  [][phase = "args" /\ phase' \in {"prompt", "cleanup"} =>
       (phase' = "prompt" <=> PromptAsked')]_vars

\* A script that is suspended in load, or in the report of its own failure, is
\* left alone until the JavaScript above it has ended.  If that was a file of load
\* or the conversion of a name, and it failed, load gives up its other files and
\* throws.
LoadStopsAtFailure ==
  [][\A d \in 1..(Len(stack) - 1) :
       IF Len(stack') > d THEN stack'[d] = stack[d]
       ELSE stack[d + 1].at = "failed" /\ stack[d].at # "reporting" =>
              stack'[d].at = "thrown" /\ stack'[d].todo = 0]_vars

\* Where the activation at depth d may wait for the one above it.
WaitingPlaces(d) ==
  {"load", "naming"} \cup (IF d = 1 THEN {"reporting"} ELSE {})

\* The shape of the interpreter stack: a script below the innermost activation
\* waits in load or, the outermost one only, in its report; only the outermost
\* reports; and nothing runs in clean-up.
StackShape ==
  /\ \A d \in 1..Len(stack) : stack[d].report <=> d = 1
  /\ \A d \in 1..(Len(stack) - 1) : stack[d].at \in WaitingPlaces(d)
  /\ phase = "cleanup" => stack = <<>>

\* The process ends, whatever the arguments, if its scripts and its input do.
ProcessEnds == <>(phase = "exited")

\* What the runner of command lines sees of the shell.
AnyRunning == \E k \in 1..Len(argv) : outcome[k] = "running"
AnyFailed == \E k \in 1..Len(argv) : outcome[k] \in Failed
RunnerMode == IF phase = "exited" THEN "done"
              ELSE IF phase = "init" THEN "new"
              ELSE IF phase = "args" \/ ~runShell THEN "args" ELSE "prompt"

Runner == INSTANCE ArgRunner WITH
  ExitCodes <- 0..255,
  count     <- Len(argv),
  consumed  <- i - 1,
  running   <- AnyRunning,
  failed    <- AnyFailed,
  mode      <- RunnerMode,
  status    <- status

\* The shell implements the runner: arguments are consumed from left to right, no
\* script starts after a failure, and the process ends with the promised status.
RunsArguments == Runner!Spec
=============================================================================
