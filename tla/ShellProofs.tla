----------------------------- MODULE ShellProofs -----------------------------
(* Theorems about Shell for every command line and every bound. *)
EXTENDS Shell, FiniteSetTheorems, SequenceTheorems, TLAPS

-----------------------------------------------------------------------------
(* The inductive invariant *)

\* All arguments before the k-th one have settled, all after it wait.
Around(k) ==
  /\ \A j \in 1..Len(argv) : j < k => outcome[j] \in Settled
  /\ \A j \in 1..Len(argv) : j > k => outcome[j] = "pending"

\* RunMain is about to examine argument i, or to leave the loop.
Between ==
  /\ result = 0
  /\ Around(i)
  /\ i <= Len(argv) => outcome[i] = "pending"

\* RunMain is in the script that argument i started.
Within ==
  /\ result = 0
  /\ i <= Len(argv)
  /\ Around(i)
  /\ outcome[i] = "running"

\* RunMain has returned.
Returned ==
  /\ Around(i)
  /\ \/ result = 0 /\ i = Len(argv) + 1
     \/ result = 1 /\ i <= Len(argv) /\ outcome[i] \in Failed

\* Where RunMain is, from the phase and the stack.
MainInv ==
  /\ phase = "init" => Between /\ i = 1 /\ stack = <<>> /\ ~context
  /\ phase \in {"args", "prompt", "cleanup"} => context
  /\ phase = "args" /\ stack = <<>> => Between
  /\ phase = "args" /\ stack # <<>> => Within
  /\ phase \in {"prompt", "cleanup"} => Returned
  /\ phase = "exited" /\ stack = <<>> /\ context => Returned /\ status = result
  /\ phase = "exited" /\ stack = <<>> /\ ~context => Between /\ status = 1
  /\ phase = "exited" /\ stack # <<>> => Within \/ Returned

\* A script that has no stack left has failed, and so loads nothing deeper.
DepthInv == \A d \in 1..Len(stack) : d > MaxDepth => stack[d].at = "failed"

\* Every failed line is a line, and the one that runs has not failed yet.
LineInv ==
  /\ failedLines <= lines
  /\ phase = "prompt" /\ stack # <<>> => failedLines < lines
  /\ phase \in {"init", "args"} => lines = 0

IInv == TypeOK /\ StackShape /\ DepthInv /\ MainInv /\ LineInv

-----------------------------------------------------------------------------
(* The stack *)

\* ExecuteString puts one frame on top of the frames it is given.
LEMMA EnterStack ==
  ASSUME NEW frames \in Seq(Frame), NEW report \in BOOLEAN,
         Len(frames) = Len(stack), Len(stack) \in Nat,
         Enter(frames, report)
  PROVE  /\ stack' \in Seq(Frame)
         /\ Len(stack') = Len(frames) + 1
         /\ \A d \in 1..Len(frames) : stack'[d] = frames[d]
         /\ stack'[Len(frames) + 1].report = report
         /\ Len(stack) >= MaxDepth => stack'[Len(frames) + 1].at = "failed"
<1>1. PICK place \in Places :
        /\ stack' = Append(frames, [at |-> place, todo |-> 0, report |-> report])
        /\ Len(stack) >= MaxDepth => place = "failed"
  BY ShellAssumption DEF Enter, Places
<1>2. [at |-> place, todo |-> 0, report |-> report] \in Frame
  BY ShellAssumption DEF Frame
<1>3. QED
  BY <1>1, <1>2

\* Moving a frame keeps its report flag.
LEMMA MovedFrame ==
  ASSUME NEW frame \in Frame, NEW place \in Places, NEW n \in 0..MaxLoadArgs
  PROVE  /\ [frame EXCEPT !.at = place, !.todo = n] \in Frame
         /\ [frame EXCEPT !.at = place, !.todo = n].report = frame.report
BY DEF Frame

\* MoveTo changes the place and the todo of the top frame and nothing else.
LEMMA MoveToStack ==
  ASSUME TypeOK, stack # <<>>, NEW place \in Places, NEW n \in 0..MaxLoadArgs
  PROVE  /\ MoveTo(place, n) \in Seq(Frame)
         /\ Len(MoveTo(place, n)) = Len(stack)
         /\ \A d \in 1..(Len(stack) - 1) : MoveTo(place, n)[d] = stack[d]
         /\ MoveTo(place, n)[Len(stack)].at = place
         /\ MoveTo(place, n)[Len(stack)].report = stack[Len(stack)].report
<1>1. Len(stack) \in 1..Len(stack) /\ stack \in Seq(Frame) /\ stack[Len(stack)] \in Frame
  BY DEF TypeOK
<1> DEFINE top == [stack[Len(stack)] EXCEPT !.at = place, !.todo = n]
<1>2. MoveTo(place, n) = [stack EXCEPT ![Len(stack)] = top]
  BY <1>1 DEF MoveTo
<1>3. top \in Frame /\ top.at = place /\ top.report = stack[Len(stack)].report
  BY <1>1 DEF Frame
<1> HIDE DEF top
<1>4. QED
  BY <1>1, <1>2, <1>3

\* Pop forgets the top frame.
LEMMA PopStack ==
  ASSUME TypeOK, stack # <<>>
  PROVE  /\ Pop \in Seq(Frame)
         /\ Len(Pop) = Len(stack) - 1
         /\ \A d \in 1..(Len(stack) - 1) : Pop[d] = stack[d]
<1>1. stack \in Seq(Frame) /\ Len(stack) \in Nat \ {0}
  BY DEF TypeOK
<1>2. \A d \in 1..(Len(stack) - 1) : stack[d] \in Frame
  BY <1>1
<1>3. /\ SubSeq(stack, 1, Len(stack) - 1) \in Seq(Frame)
      /\ Len(SubSeq(stack, 1, Len(stack) - 1)) = Len(stack) - 1
  <2> DEFINE n == Len(stack) - 1
  <2>1. n \in Nat /\ \A d \in 1..n : stack[d] \in Frame
    BY <1>1, <1>2
  <2> HIDE DEF n
  <2>2. SubSeq(stack, 1, n) \in Seq(Frame) /\ Len(SubSeq(stack, 1, n)) = n
    BY <2>1, SubSeqProperties
  <2>3. QED
    BY <2>2 DEF n
<1>4. \A d \in 1..(Len(stack) - 1) : SubSeq(stack, 1, Len(stack) - 1)[d] = stack[d]
  BY <1>1
<1>5. QED
  BY <1>3, <1>4 DEF Pop

-----------------------------------------------------------------------------
(* Every step keeps the inductive invariant *)

LEMMA InitIInv == ASSUME Init PROVE IInv
<1>1. argv \in Seq(Kinds) /\ Len(argv) \in Nat
  BY ShellAssumption DEF Init
<1>2. TypeOK
  <2>1. stack \in Seq(Frame) /\ Len(stack) <= MaxDepth + 1
    BY ShellAssumption DEF Init
  <2>2. outcome \in [1..Len(argv) -> Outcomes]
    BY DEF Init, Outcomes
  <2>3. argv \in Argvs /\ i \in 1..(Len(argv) + 1)
    <3>1. i = 1 /\ argv \in Argvs
      BY Zenon DEF Init
    <3>2. QED
      BY <1>1, <3>1
  <2>5. runShell \in BOOLEAN /\ context \in BOOLEAN
    BY Zenon DEF Init
  <2>4. /\ phase = "init" /\ result = 0 /\ status = -1 /\ reports = 0
        /\ lines \in 0..MaxLines /\ failedLines \in 0..MaxLines
    BY ShellAssumption DEF Init
  <2>6. QED
    BY <2>1, <2>2, <2>3, <2>4, <2>5 DEF TypeOK
<1>3. QED
  BY <1>1, <1>2 DEF Init, IInv, StackShape, DepthInv, MainInv, LineInv, Between,
                    Around

\* The context is made, or init gives up.
LEMMA ContextIInv ==
  ASSUME IInv, CreateContext \/ NoContext
  PROVE  IInv'
<1>1. /\ UNCHANGED <<argv, i, runShell, stack, result, reports, lines, failedLines,
                     outcome>>
      /\ phase = "init"
      /\ \/ phase' = "args" /\ context' = TRUE /\ status' = status
         \/ phase' = "exited" /\ context' = context /\ status' = 1
  BY DEF CreateContext, NoContext
<1>2. Between /\ stack = <<>> /\ ~context
  BY <1>1 DEF IInv, MainInv
<1>3. Between' /\ stack' = <<>>
  BY <1>1, <1>2 DEF Between, Around
<1>4. TypeOK'
  <2>1. status' \in {status, 1}
    BY <1>1, Zenon
  <2>2. {status, 1} \subseteq {-1} \cup 0..255
    BY DEF IInv, TypeOK
  <2>3. /\ phase' \in {"init", "args", "prompt", "cleanup", "exited"}
        /\ context' \in BOOLEAN
    BY <1>1, Zenon DEF IInv, TypeOK
  <2>4. QED
    BY <1>1, <2>1, <2>2, <2>3 DEF IInv, TypeOK
<1>5. QED
  BY <1>1, <1>2, <1>3, <1>4 DEF IInv, StackShape, DepthInv, MainInv, LineInv

\* Arguments that start no script, the end of the loop, and the way out.
LEMMA FlagsIInv ==
  ASSUME IInv,
         ShellFlag \/ IgnoredFlag \/ BadSource \/ UnreadableFile \/ ArgsDone
           \/ EndOfFile \/ Cleanup
  PROVE  IInv'
<1>1. argv \in Seq(Kinds) /\ Len(argv) \in Nat
  BY ShellAssumption DEF IInv, TypeOK
<1>2. UNCHANGED <<argv, context, stack, lines, failedLines, reports>>
  BY DEF ShellFlag, IgnoredFlag, BadSource, UnreadableFile, ArgsDone, EndOfFile,
         Cleanup
<1>3. CASE ShellFlag \/ IgnoredFlag \/ UnreadableFile
  <2>1. /\ phase = "args" /\ phase' = "args" /\ stack = <<>> /\ i <= Len(argv)
        /\ i' = i + 1
        /\ \E o \in Settled : outcome' = [outcome EXCEPT ![i] = o]
        /\ UNCHANGED <<result, status>> /\ runShell' \in BOOLEAN
    BY <1>3 DEF ShellFlag, IgnoredFlag, UnreadableFile, Examining, IsFile,
                Settled, IInv, TypeOK
  <2>2. Between
    BY <2>1 DEF IInv, MainInv
  <2>3. TypeOK'
    BY <1>1, <1>2, <2>1 DEF IInv, TypeOK, Outcomes, Settled
  <2>4. Between'
    BY <1>1, <1>2, <2>1, <2>2 DEF Between, Around, IInv, TypeOK
  <2>5. QED
    BY <1>2, <2>1, <2>3, <2>4 DEF IInv, StackShape, DepthInv, MainInv, LineInv
<1>4. CASE BadSource
  <2>1. Between /\ i < Len(argv) /\ stack = <<>> /\ context
    BY <1>4 DEF BadSource, IsOption, Examining, IInv, MainInv
  <2>2. TypeOK'
    BY <1>1, <1>2, <1>4, <2>1 DEF BadSource, AfterMain, IInv, TypeOK, Outcomes
  <2>3. Returned'
    BY <1>1, <1>2, <1>4, <2>1
    DEF BadSource, Between, Returned, Around, Settled, Failed, IInv, TypeOK
  <2>4. phase' \in {"prompt", "cleanup"}
    BY <1>4 DEF BadSource, AfterMain
  <2>5. QED
    BY <1>2, <2>1, <2>2, <2>3, <2>4 DEF IInv, StackShape, DepthInv, MainInv, LineInv
<1>5. CASE ArgsDone
  <2>1. Between /\ stack = <<>> /\ i > Len(argv) /\ context
    BY <1>5 DEF ArgsDone, IInv, MainInv
  <2>2. TypeOK' /\ phase' \in {"prompt", "cleanup"}
    BY <1>5 DEF ArgsDone, AfterMain, IInv, TypeOK
  <2>3. Returned'
    BY <1>1, <1>5, <2>1 DEF ArgsDone, Between, Returned, Around, IInv, TypeOK
  <2>4. QED
    BY <1>2, <2>1, <2>2, <2>3 DEF IInv, StackShape, DepthInv, MainInv, LineInv
<1>6. CASE EndOfFile \/ Cleanup
  <2>1. /\ stack = <<>> /\ Returned /\ context
        /\ UNCHANGED <<argv, i, result, outcome, stack, runShell>>
        /\ \/ phase' = "cleanup" /\ status' = status
           \/ phase' = "exited" /\ status' = result
    BY <1>6 DEF EndOfFile, Cleanup, IInv, MainInv, StackShape
  <2>2. TypeOK'
    <3>1. status' \in {status, result} /\ phase' \in {"cleanup", "exited"}
      BY <2>1
    <3>2. {status, result} \subseteq {-1} \cup 0..255
      BY DEF IInv, TypeOK
    <3>3. QED
      BY <1>2, <2>1, <3>1, <3>2 DEF IInv, TypeOK
  <2>3. Returned'
    BY <2>1 DEF Returned, Around
  <2>4. QED
    BY <1>2, <2>1, <2>2, <2>3 DEF IInv, StackShape, DepthInv, MainInv, LineInv
<1>7. QED
  BY <1>3, <1>4, <1>5, <1>6

\* An argument or a line starts a script.
LEMMA StartIInv ==
  ASSUME IInv, EvalOption \/ RunFile \/ ReadLine
  PROVE  IInv'
<1>1. argv \in Seq(Kinds) /\ Len(argv) \in Nat /\ stack \in Seq(Frame)
  BY ShellAssumption DEF IInv, TypeOK
<1>2. stack = <<>> /\ Enter(stack, TRUE)
  BY DEF EvalOption, RunFile, ReadLine, IsOption, IsFile, Examining
<1>3. /\ stack' \in Seq(Frame) /\ Len(stack') = 1 /\ stack' # <<>>
      /\ stack'[1].report
  <2>1. PICK place \in Places :
          stack' = Append(<<>>, [at |-> place, todo |-> 0, report |-> TRUE])
    BY <1>2 DEF Enter, Places
  <2>2. [at |-> place, todo |-> 0, report |-> TRUE] \in Frame
    BY ShellAssumption DEF Frame
  <2>3. QED
    BY <2>1, <2>2
<1>4. StackShape' /\ DepthInv'
  <2>1. phase' # "cleanup"
    BY DEF EvalOption, RunFile, ReadLine, IsOption, IsFile, Examining
  <2>2. QED
    BY <1>3, <2>1, ShellAssumption DEF StackShape, DepthInv
<1>5. CASE EvalOption
  <2>1. Between /\ i < Len(argv) /\ phase = "args"
    BY <1>2, <1>5 DEF EvalOption, IsOption, Examining, IInv, MainInv
  <2>2. TypeOK'
    BY <1>1, <1>3, <1>5, <2>1, ShellAssumption
    DEF EvalOption, IInv, TypeOK, Outcomes
  <2>3. Within'
    BY <1>1, <1>5, <2>1
    DEF EvalOption, Between, Within, Around, Settled, IInv, TypeOK
  <2>4. QED
    BY <1>3, <1>4, <1>5, <2>1, <2>2, <2>3 DEF EvalOption, IInv, MainInv, LineInv
<1>6. CASE RunFile
  <2>1. Between /\ i <= Len(argv) /\ phase = "args"
    BY <1>2, <1>6 DEF RunFile, IsFile, Examining, IInv, MainInv
  <2>2. TypeOK'
    BY <1>1, <1>3, <1>6, <2>1, ShellAssumption
    DEF RunFile, IInv, TypeOK, Outcomes
  <2>3. Within'
    BY <1>1, <1>6, <2>1
    DEF RunFile, Between, Within, Around, Settled, IInv, TypeOK
  <2>4. QED
    BY <1>3, <1>4, <1>6, <2>1, <2>2, <2>3 DEF RunFile, IInv, MainInv, LineInv
<1>7. CASE ReadLine
  <2>1. Returned /\ phase = "prompt"
    BY <1>7 DEF ReadLine, IInv, MainInv
  <2>2. TypeOK'
    BY <1>1, <1>3, <1>7, ShellAssumption DEF ReadLine, IInv, TypeOK
  <2>3. Returned'
    BY <1>7, <2>1 DEF ReadLine, Returned, Around
  <2>4. QED
    BY <1>3, <1>4, <1>7, <2>1, <2>2, <2>3, ShellAssumption
    DEF ReadLine, IInv, MainInv, LineInv, TypeOK
<1>8. QED
  BY <1>5, <1>6, <1>7

\* The running script moves: it throws, catches, calls load or returns from it.
LEMMA MoveIInv ==
  ASSUME IInv,
         Throw \/ Catch \/ Uncaught \/ CallLoad \/ LoadUnreadable \/ LoadReturns
  PROVE  IInv'
<1>1. PICK place \in Places, n \in 0..MaxLoadArgs : stack' = MoveTo(place, n)
  BY ShellAssumption
  DEF Throw, Catch, Uncaught, CallLoad, LoadUnreadable, LoadReturns, Places
<1>2. /\ UNCHANGED <<argv, i, runShell, phase, context, result, status, reports,
                     lines, failedLines, outcome>>
      /\ stack # <<>> /\ phase \in {"args", "prompt"}
      /\ stack[Len(stack)].at # "failed"
  BY DEF Throw, Catch, Uncaught, CallLoad, LoadUnreadable, LoadReturns, HasName, At,
         Top
<1>3. /\ stack' \in Seq(Frame) /\ Len(stack') = Len(stack)
      /\ \A d \in 1..(Len(stack) - 1) : stack'[d] = stack[d]
      /\ stack'[Len(stack)].report = stack[Len(stack)].report
  BY <1>1, <1>2, MoveToStack DEF IInv
<1>4. Len(stack) \in Nat \ {0} /\ stack' # <<>>
  BY <1>2, <1>3 DEF IInv, TypeOK
<1>5. TypeOK'
  BY <1>2, <1>3 DEF IInv, TypeOK
<1>6. StackShape'
  BY <1>2, <1>3, <1>4 DEF IInv, StackShape
<1>7. DepthInv'
  BY <1>2, <1>3, <1>4, ShellAssumption DEF IInv, DepthInv
<1>8. MainInv'
  BY <1>2, <1>4 DEF IInv, MainInv, Within, Returned, Around
<1>9. LineInv'
  BY <1>2 DEF IInv, LineInv
<1>10. QED
  BY <1>5, <1>6, <1>7, <1>8, <1>9 DEF IInv

\* Where one activation of JavaScript starts another: from which place, and what
\* it leaves its own frame at.
Pushing(place, n) ==
  /\ stack # <<>> /\ phase \in {"args", "prompt"}
  /\ Len(stack) <= MaxDepth
  /\ place \in WaitingPlaces(Len(stack))
  /\ n \in 0..MaxLoadArgs
  /\ Enter(MoveTo(place, n), FALSE)
  /\ UNCHANGED <<argv, i, runShell, phase, context, result, status, reports, lines,
                 failedLines, outcome>>

\* load converts its next name or executes its next file, or a report converts.
LEMMA Pushes ==
  ASSUME IInv, ConvertName \/ LoadFile \/ ConvertException
  PROVE  \E place \in Places, n \in 0..MaxLoadArgs : Pushing(place, n)
<1>1. /\ UNCHANGED <<argv, i, runShell, phase, context, result, status, reports,
                     lines, failedLines, outcome>>
      /\ stack # <<>> /\ phase \in {"args", "prompt"}
  BY DEF ConvertName, LoadFile, ConvertException, HasName, At
<1>2. Len(stack) \in Nat \ {0} /\ stack[Len(stack)] \in Frame
  BY <1>1 DEF IInv, TypeOK
<1>3. CASE ConvertName
  <2>1. stack[Len(stack)].at = "load"
    BY <1>3 DEF ConvertName, At, Top
  <2>2. Len(stack) <= MaxDepth
    BY <1>2, <2>1, ShellAssumption DEF IInv, DepthInv
  <2>3. Top.todo \in 0..MaxLoadArgs
    BY <1>2 DEF Top, Frame
  <2>4. "naming" \in WaitingPlaces(Len(stack)) /\ "naming" \in Places
    BY DEF WaitingPlaces, Places
  <2>5. Enter(MoveTo("naming", Top.todo), FALSE)
    BY <1>3 DEF ConvertName
  <2>6. Pushing("naming", Top.todo)
    BY <1>1, <2>2, <2>3, <2>4, <2>5 DEF Pushing
  <2>7. QED
    BY <2>3, <2>4, <2>6
<1>4. CASE LoadFile
  <2>1. stack[Len(stack)].at # "failed" /\ stack[Len(stack)].todo > 0
    BY <1>4 DEF LoadFile, HasName, At, Top
  <2>2. Len(stack) <= MaxDepth
    BY <1>2, <2>1, ShellAssumption DEF IInv, DepthInv
  <2>3. Top.todo - 1 \in 0..MaxLoadArgs
    BY <1>2, <2>1, ShellAssumption DEF Top, Frame
  <2>4. "load" \in WaitingPlaces(Len(stack)) /\ "load" \in Places
    BY DEF WaitingPlaces, Places
  <2>5. Enter(MoveTo("load", Top.todo - 1), FALSE)
    BY <1>4 DEF LoadFile
  <2>6. Pushing("load", Top.todo - 1)
    BY <1>1, <2>2, <2>3, <2>4, <2>5 DEF Pushing
  <2>7. QED
    BY <2>3, <2>4, <2>6
<1>5. CASE ConvertException
  <2>1. stack[Len(stack)].report
    BY <1>5 DEF ConvertException, Top
  <2>2. Len(stack) = 1
    <3>1. PICK top \in Nat \ {0} : top = Len(stack)
      BY <1>2
    <3>2. stack[top].report <=> top = 1
      BY <3>1 DEF IInv, StackShape
    <3>3. QED
      BY <2>1, <3>1, <3>2
  <2>3. Len(stack) <= MaxDepth /\ 0 \in 0..MaxLoadArgs
    BY <2>2, ShellAssumption
  <2>4. "reporting" \in WaitingPlaces(Len(stack)) /\ "reporting" \in Places
    BY <2>2 DEF WaitingPlaces, Places
  <2>5. Enter(MoveTo("reporting", 0), FALSE)
    BY <1>5 DEF ConvertException
  <2>6. Pushing("reporting", 0)
    BY <1>1, <2>3, <2>4, <2>5 DEF Pushing
  <2>7. QED
    BY <2>3, <2>4, <2>6
<1>6. QED
  BY <1>3, <1>4, <1>5

\* What a push leaves of the frames that were there.
LEMMA PushedStack ==
  ASSUME IInv, NEW place \in Places, NEW n \in 0..MaxLoadArgs, Pushing(place, n)
  PROVE  /\ stack' \in Seq(Frame) /\ Len(stack') = Len(stack) + 1
         /\ \A d \in 1..(Len(stack) - 1) : stack'[d] = stack[d]
         /\ stack'[Len(stack)].at = place
         /\ stack'[Len(stack)].report = stack[Len(stack)].report
         /\ stack'[Len(stack) + 1].report = FALSE
         /\ Len(stack) >= MaxDepth => stack'[Len(stack) + 1].at = "failed"
<1>1. stack # <<>> /\ Len(stack) \in Nat \ {0}
  BY DEF Pushing, IInv, TypeOK
<1>2. /\ MoveTo(place, n) \in Seq(Frame) /\ Len(MoveTo(place, n)) = Len(stack)
      /\ \A d \in 1..(Len(stack) - 1) : MoveTo(place, n)[d] = stack[d]
      /\ MoveTo(place, n)[Len(stack)].at = place
      /\ MoveTo(place, n)[Len(stack)].report = stack[Len(stack)].report
  BY <1>1, MoveToStack DEF IInv
<1>3. PICK frames \in Seq(Frame) : frames = MoveTo(place, n)
  BY <1>2
<1>4. Enter(frames, FALSE) /\ Len(frames) = Len(stack)
  BY <1>2, <1>3 DEF Pushing
<1>5. /\ stack' \in Seq(Frame) /\ Len(stack') = Len(frames) + 1
      /\ \A d \in 1..Len(frames) : stack'[d] = frames[d]
      /\ stack'[Len(frames) + 1].report = FALSE
      /\ Len(stack) >= MaxDepth => stack'[Len(frames) + 1].at = "failed"
  BY <1>1, <1>4, EnterStack
<1>6. PICK top \in Nat \ {0} : top = Len(stack)
  BY <1>1
<1>7. /\ \A d \in 1..top : stack'[d] = frames[d]
      /\ \A d \in 1..(top - 1) : frames[d] = stack[d]
      /\ frames[top].at = place /\ frames[top].report = stack[top].report
  BY <1>2, <1>3, <1>4, <1>5, <1>6
<1>8. /\ \A d \in 1..(top - 1) : stack'[d] = stack[d]
      /\ stack'[top].at = place /\ stack'[top].report = stack[top].report
  BY <1>7
<1>9. QED
  BY <1>4, <1>5, <1>6, <1>8

LEMMA PushIInv ==
  ASSUME IInv, NEW place \in Places, NEW n \in 0..MaxLoadArgs, Pushing(place, n)
  PROVE  IInv'
<1>1. /\ UNCHANGED <<argv, i, runShell, phase, context, result, status, reports,
                     lines, failedLines, outcome>>
      /\ stack # <<>> /\ phase \in {"args", "prompt"}
      /\ Len(stack) <= MaxDepth /\ place \in WaitingPlaces(Len(stack))
  BY DEF Pushing
<1>2. PICK top \in Nat \ {0} : top = Len(stack)
  BY <1>1 DEF IInv, TypeOK
<1>3. /\ stack' \in Seq(Frame) /\ Len(stack') = top + 1
      /\ \A d \in 1..(top - 1) : stack'[d] = stack[d]
      /\ stack'[top].at = place /\ stack'[top].report = stack[top].report
      /\ stack'[top + 1].report = FALSE
      /\ top >= MaxDepth => stack'[top + 1].at = "failed"
  BY <1>2, PushedStack
<1>4. stack' # <<>> /\ top <= MaxDepth
  BY <1>1, <1>2, <1>3
<1>5. TypeOK'
  BY <1>1, <1>3, <1>4, ShellAssumption DEF IInv, TypeOK
<1>6. StackShape'
  <2>1. /\ \A d \in 1..top : stack[d].report <=> d = 1
        /\ \A d \in 1..(top - 1) : stack[d].at \in WaitingPlaces(d)
    BY <1>2 DEF IInv, StackShape
  <2>2. ASSUME NEW d \in 1..top
        PROVE  (stack'[d].report <=> d = 1) /\ stack'[d].at \in WaitingPlaces(d)
    <3>1. CASE d = top
      BY <1>1, <1>2, <1>3, <2>1, <3>1
    <3>2. CASE d # top
      <4>1. d \in 1..(top - 1)
        BY <3>2
      <4>2. stack'[d] = stack[d]
        BY <1>3, <4>1
      <4>3. QED
        BY <2>1, <4>1, <4>2
    <3>3. QED
      BY <3>1, <3>2
  <2>3. ASSUME NEW d \in 1..(top + 1)
        PROVE  stack'[d].report <=> d = 1
    <3>1. CASE d = top + 1
      BY <1>3, <3>1
    <3>2. CASE d # top + 1
      BY <2>2, <3>2
    <3>3. QED
      BY <3>1, <3>2
  <2>4. WaitingPlaces(1)' = WaitingPlaces(1) /\ phase' # "cleanup"
    BY <1>1
  <2>5. ASSUME NEW d \in 1..((top + 1) - 1)
        PROVE  stack'[d].at \in WaitingPlaces(d)
    BY <2>2, <2>5
  <2>6. QED
    BY <1>3, <2>3, <2>4, <2>5 DEF StackShape, WaitingPlaces
<1>7. DepthInv'
  <2>1. ASSUME NEW d \in 1..(top + 1), d > MaxDepth
        PROVE  stack'[d].at = "failed"
    <3>1. d = top + 1 /\ top >= MaxDepth
      BY <1>4, <2>1, ShellAssumption
    <3>2. QED
      BY <1>3, <3>1
  <2>2. QED
    BY <1>3, <2>1 DEF DepthInv
<1>8. MainInv' /\ LineInv'
  BY <1>1, <1>4 DEF IInv, MainInv, Within, Returned, Around, LineInv
<1>9. QED
  BY <1>5, <1>6, <1>7, <1>8 DEF IInv

\* quit ends the process where it stands.
LEMMA QuitIInv == ASSUME IInv, Quit PROVE IInv'
<1>1. /\ UNCHANGED <<argv, i, runShell, context, stack, result, reports, lines,
                     failedLines, outcome>>
      /\ stack # <<>> /\ phase \in {"args", "prompt"}
      /\ phase' = "exited"
  BY DEF Quit, At
<1>2. PICK code \in Int : status' = code % 256
  BY ShellAssumption DEF Quit
<1>3. status' \in 0..255
  BY <1>2
<1>4. TypeOK'
  BY <1>1, <1>3 DEF IInv, TypeOK
<1>5. StackShape' /\ DepthInv' /\ LineInv'
  BY <1>1 DEF IInv, StackShape, DepthInv, LineInv
<1>6. MainInv'
  BY <1>1 DEF IInv, MainInv, Within, Returned, Around
<1>7. QED
  BY <1>4, <1>5, <1>6 DEF IInv

\* The outermost script ends, well or badly.
LEMMA BaseIInv ==
  ASSUME IInv, Len(stack) = 1, Succeed \/ FailArg \/ FailLine
  PROVE  IInv'
<1>1. /\ UNCHANGED <<argv, runShell, context, status, lines>>
      /\ stack # <<>> /\ phase \in {"args", "prompt"}
      /\ stack' = Pop
      /\ reports' \in {reports, reports + 1}
  BY DEF Succeed, FailArg, FailLine, OuterFailed, At, Report
<1>2. stack' \in Seq(Frame) /\ Len(stack') = 0 /\ stack' = <<>>
  BY <1>1, PopStack DEF IInv
<1>3. argv \in Seq(Kinds) /\ Len(argv) \in Nat
  BY ShellAssumption DEF IInv, TypeOK
<1>4. StackShape' /\ DepthInv'
  BY <1>2 DEF StackShape, DepthInv
<1>5. CASE Succeed /\ phase = "args"
  <2>1. /\ outcome' = [outcome EXCEPT ![i] = "ran"] /\ i' = i + 1
        /\ UNCHANGED <<phase, result, reports, failedLines>>
    BY <1>5 DEF Succeed
  <2>2. Within
    BY <1>1, <1>5 DEF IInv, MainInv
  <2>3. TypeOK'
    BY <1>1, <1>2, <1>3, <2>1, <2>2, ShellAssumption
    DEF Within, IInv, TypeOK, Outcomes
  <2>4. Between'
    BY <1>1, <1>3, <2>1, <2>2
    DEF Within, Between, Around, Settled, IInv, TypeOK
  <2>5. QED
    BY <1>1, <1>2, <1>4, <1>5, <2>1, <2>3, <2>4 DEF IInv, MainInv, LineInv
<1>6. CASE FailArg
  <2>1. /\ phase = "args" /\ phase' \in {"prompt", "cleanup"}
        /\ outcome' = [outcome EXCEPT ![i] = "failed"]
        /\ result' = 1
        /\ UNCHANGED <<i, failedLines>>
    BY <1>6 DEF FailArg, AfterMain
  <2>2. Within
    BY <1>1, <2>1 DEF IInv, MainInv
  <2>3. TypeOK'
    BY <1>1, <1>2, <1>3, <2>1, <2>2, ShellAssumption
    DEF Within, IInv, TypeOK, Outcomes
  <2>4. Returned'
    BY <1>1, <1>3, <2>1, <2>2
    DEF Within, Returned, Around, Settled, Failed, IInv, TypeOK
  <2>5. QED
    BY <1>1, <1>2, <1>4, <2>1, <2>3, <2>4 DEF IInv, MainInv, LineInv
<1>7. CASE phase = "prompt"
  <2>1. /\ UNCHANGED <<phase, i, result, outcome>>
        /\ failedLines' \in {failedLines, failedLines + 1}
    BY <1>7 DEF Succeed, FailLine, FailArg
  <2>2. Returned /\ failedLines < lines
    BY <1>1, <1>7 DEF IInv, MainInv, LineInv
  <2>3. failedLines' \in 0..MaxLines /\ failedLines' <= lines' /\ reports' \in Nat
    BY <1>1, <2>1, <2>2, ShellAssumption DEF IInv, TypeOK
  <2>4. TypeOK'
    BY <1>1, <1>2, <2>1, <2>3, ShellAssumption DEF IInv, TypeOK
  <2>5. Returned'
    BY <1>1, <2>1, <2>2 DEF Returned, Around
  <2>6. QED
    BY <1>1, <1>2, <1>4, <1>7, <2>1, <2>3, <2>4, <2>5 DEF IInv, MainInv, LineInv
<1>8. QED
  BY <1>1, <1>5, <1>6, <1>7 DEF FailLine, FailArg

\* Resume makes the caller of the innermost activation the innermost one.
LEMMA ResumeStack ==
  ASSUME TypeOK, Len(stack) > 1, NEW place \in Places, NEW n \in 0..MaxLoadArgs
  PROVE  /\ Resume(place, n) \in Seq(Frame)
         /\ Len(Resume(place, n)) = Len(stack) - 1
         /\ \A d \in 1..(Len(stack) - 2) : Resume(place, n)[d] = stack[d]
         /\ Resume(place, n)[Len(stack) - 1].at = place
         /\ Resume(place, n)[Len(stack) - 1].todo = n
         /\ Resume(place, n)[Len(stack) - 1].report = stack[Len(stack) - 1].report
<1>1. Len(stack) \in Nat /\ stack # <<>>
  BY DEF TypeOK
<1>2. PICK top \in Nat \ {0} : top = Len(stack) - 1
  BY <1>1
<1>3. /\ Pop \in Seq(Frame) /\ Len(Pop) = top
      /\ \A d \in 1..top : Pop[d] = stack[d]
  BY <1>1, <1>2, PopStack
<1>4. PICK old \in Frame : old = Pop[top] /\ old.report = stack[top].report
  BY <1>2, <1>3
<1>5. PICK frame \in Frame :
        /\ frame = [old EXCEPT !.at = place, !.todo = n]
        /\ frame.at = place /\ frame.todo = n /\ frame.report = stack[top].report
  <2>1. [old EXCEPT !.at = place, !.todo = n] \in Frame
    BY <1>4, MovedFrame
  <2>2. QED
    BY <1>4, <2>1 DEF Frame
<1>6. Resume(place, n) = [Pop EXCEPT ![top] = frame]
  BY <1>2, <1>4, <1>5 DEF Resume
<1>7. /\ Resume(place, n) \in Seq(Frame) /\ Len(Resume(place, n)) = Len(Pop)
      /\ \A d \in 1..Len(Pop) :
            Resume(place, n)[d] = IF d = top THEN frame ELSE Pop[d]
  <2>1. top \in 1..Len(Pop)
    BY <1>3
  <2>2. QED
    BY <1>3, <1>6, <2>1, ExceptSeq
<1>8. /\ \A d \in 1..top : Resume(place, n)[d] = IF d = top THEN frame ELSE Pop[d]
      /\ top \in 1..top
  BY <1>3, <1>7
<1>9. \A d \in 1..(top - 1) : Resume(place, n)[d] = stack[d]
  BY <1>3, <1>8
<1>10. Resume(place, n)[top] = frame
  BY <1>8
<1>11. Len(stack) - 2 = top - 1
  BY <1>1, <1>2
<1>12. QED
  BY <1>2, <1>3, <1>5, <1>7, <1>9, <1>10, <1>11

\* The innermost activation ends, well or badly: where its caller goes on.
LEMMA Resumes ==
  ASSUME IInv, SucceedNested \/ FailNested
  PROVE  /\ Len(stack) > 1 /\ stack # <<>> /\ phase \in {"args", "prompt"}
         /\ UNCHANGED <<argv, i, runShell, phase, context, result, status, reports,
                        lines, failedLines, outcome>>
         /\ \E place \in Places, n \in 0..MaxLoadArgs :
              /\ stack' = Resume(place, n)
              /\ stack[Len(stack)].at = "failed" /\ Caller.at # "reporting" =>
                   place = "thrown" /\ n = 0
<1>1. stack # <<>> /\ phase \in {"args", "prompt"} /\ Len(stack) > 1
  BY DEF SucceedNested, FailNested, At
<1>2. PICK top \in Nat \ {0} : top = Len(stack) - 1 /\ top + 1 = Len(stack)
  BY <1>1 DEF IInv, TypeOK
<1>3. Caller = stack[top] /\ Caller \in Frame /\ Caller.at \in WaitingPlaces(top)
  BY <1>1, <1>2 DEF Caller, IInv, TypeOK, StackShape
<1>4. ~Top.report
  BY <1>2 DEF Top, IInv, StackShape
<1>5. CASE SucceedNested
  <2>1. After[Caller.at] \in Places /\ Caller.todo \in 0..MaxLoadArgs
    BY <1>3 DEF WaitingPlaces, After, Places, Frame
  <2>2. /\ stack' = Resume(After[Caller.at], Caller.todo)
        /\ stack[Len(stack)].at # "failed"
        /\ UNCHANGED <<argv, i, runShell, phase, context, result, status, reports,
                       lines, failedLines, outcome>>
    BY <1>5 DEF SucceedNested, At, Top
  <2>3. QED
    BY <1>1, <2>1, <2>2
<1>6. CASE FailNested
  <2> DEFINE place == IF Caller.at = "reporting" THEN "reported" ELSE "thrown"
  <2>1. place \in Places /\ 0 \in 0..MaxLoadArgs
    BY ShellAssumption DEF Places
  <2>2. /\ stack' = Resume(place, 0)
        /\ UNCHANGED <<argv, i, runShell, phase, context, result, status, lines,
                       failedLines, outcome>>
    BY <1>6 DEF FailNested
  <2>3. reports' = reports
    BY <1>4, <1>6 DEF FailNested, Report
  <2>4. Caller.at # "reporting" => place = "thrown"
    OBVIOUS
  <2> HIDE DEF place
  <2>5. QED
    BY <1>1, <2>1, <2>2, <2>3, <2>4
<1>7. QED
  BY <1>5, <1>6

\* A nested activation ends: the one that waited for it is on top again.
LEMMA NestedIInv ==
  ASSUME IInv, SucceedNested \/ FailNested
  PROVE  IInv'
<1>1. /\ Len(stack) > 1 /\ stack # <<>> /\ phase \in {"args", "prompt"}
      /\ UNCHANGED <<argv, i, runShell, phase, context, result, status, reports,
                     lines, failedLines, outcome>>
  BY Resumes
<1>2. PICK place \in Places, n \in 0..MaxLoadArgs : stack' = Resume(place, n)
  BY Resumes
<1>3. PICK top \in Nat \ {0} : top = Len(stack) - 1 /\ top + 1 = Len(stack)
  BY <1>1 DEF IInv, TypeOK
<1>4. /\ stack' \in Seq(Frame) /\ Len(stack') = top
      /\ \A d \in 1..(top - 1) : stack'[d] = stack[d]
      /\ stack'[top].report = stack[top].report
  <2>1. Len(stack) - 2 = top - 1
    BY <1>3
  <2>2. QED
    BY <1>1, <1>2, <1>3, <2>1, ResumeStack DEF IInv
<1>5. stack' # <<>> /\ top <= MaxDepth
  BY <1>3, <1>4, ShellAssumption DEF IInv, TypeOK
<1>6. TypeOK'
  BY <1>1, <1>4, <1>5, ShellAssumption DEF IInv, TypeOK
<1>7. StackShape'
  <2>1. /\ \A d \in 1..(top + 1) : stack[d].report <=> d = 1
        /\ \A d \in 1..top : stack[d].at \in WaitingPlaces(d)
    BY <1>3 DEF IInv, StackShape
  <2>2. \A d \in 1..top : stack'[d].report <=> d = 1
    BY <1>4, <2>1
  <2>3. \A d \in 1..(top - 1) : stack'[d].at \in WaitingPlaces(d)
    BY <1>4, <2>1
  <2>4. phase' # "cleanup"
    BY <1>1
  <2>5. QED
    BY <1>4, <2>2, <2>3, <2>4 DEF StackShape, WaitingPlaces
<1>8. DepthInv'
  BY <1>4, <1>5, ShellAssumption DEF DepthInv
<1>9. MainInv' /\ LineInv'
  BY <1>1, <1>5 DEF IInv, MainInv, Within, Returned, Around, LineInv
<1>10. QED
  BY <1>6, <1>7, <1>8, <1>9 DEF IInv

LEMMA NextIInv == ASSUME IInv, [Next]_vars PROVE IInv'
<1>1. CASE MainStep
  BY <1>1, ContextIInv, FlagsIInv, StartIInv DEF MainStep
<1>2. CASE ConvertName \/ LoadFile \/ ConvertException
  <2>1. PICK place \in Places, n \in 0..MaxLoadArgs : Pushing(place, n)
    BY <1>2, Pushes
  <2>2. QED
    BY <2>1, PushIInv
<1>3. CASE ScriptStep \/ LoadStep \/ ReturnStep
  <2>1. CASE Succeed \/ FailArg \/ FailLine
    BY <2>1, BaseIInv DEF Succeed, FailArg, FailLine, OuterFailed
  <2>2. CASE SucceedNested \/ FailNested
    BY <2>2, NestedIInv
  <2>3. QED
    BY <1>2, <1>3, <2>1, <2>2, MoveIInv, QuitIInv DEF ScriptStep, LoadStep, ReturnStep
<1>4. CASE UNCHANGED vars
  BY <1>4 DEF vars, IInv, TypeOK, StackShape, DepthInv, MainInv, LineInv, Between,
              Within, Returned, Around
<1>5. QED
  BY <1>1, <1>2, <1>3, <1>4 DEF Next, Exited

\* The inductive invariant holds in every reachable state.
THEOREM ShellInvariant == Safety => []IInv
<1>1. Init => IInv
  BY InitIInv
<1>2. IInv /\ [Next]_vars => IInv'
  BY NextIInv
<1>3. QED
  BY <1>1, <1>2, PTL DEF Safety

-----------------------------------------------------------------------------
(* The properties *)

\* Type correctness: the argument index, the interpreter stack and the history
\* stay in their ranges for every command line (RunMain, ExecuteString).
THEOREM ShellTyped == Safety => []TypeOK
BY ShellInvariant, PTL DEF IInv

\* Only the innermost script is outside load and only the outermost reports.
THEOREM ShellStack == Safety => []StackShape
BY ShellInvariant, PTL DEF IInv

\* RunMain deals with the arguments in order and stops at the first failure.
THEOREM ShellInOrder == Safety => []ArgsInOrder
<1>1. IInv => ArgsInOrder
  <2> SUFFICES ASSUME IInv, NEW k \in 1..Len(argv), outcome[k] # "pending",
                      NEW j \in 1..(k - 1)
               PROVE  outcome[j] \in Settled
    BY DEF ArgsInOrder
  <2>1. Len(argv) \in Nat /\ i \in Nat
    BY ShellAssumption DEF IInv, TypeOK
  <2>2. Around(i)
    BY DEF IInv, TypeOK, MainInv, Between, Within, Returned
  <2>3. k <= i
    BY <2>1, <2>2 DEF Around
  <2>4. j \in 1..Len(argv) /\ j < i
    BY <2>1, <2>3
  <2>5. QED
    BY <2>2, <2>4 DEF Around
<1>2. QED
  BY <1>1, ShellInvariant, PTL

\* The exit status of shell::init tells whether RunMain met a failure.
THEOREM ShellStatus == Safety => []StatusTellsFailure
<1>1. IInv => StatusTellsFailure
  <2> SUFFICES ASSUME IInv, phase = "exited", stack = <<>>
               PROVE  status = IF context /\ \A k \in 1..Len(argv) :
                                                 outcome[k] \in Settled
                                 THEN 0 ELSE 1
    BY DEF StatusTellsFailure
  <2>1. Len(argv) \in Nat /\ i \in 1..(Len(argv) + 1)
    BY ShellAssumption DEF IInv, TypeOK
  <2>0. CASE ~context
    BY <2>0 DEF IInv, MainInv
  <2> SUFFICES ASSUME context
               PROVE  status = IF \A k \in 1..Len(argv) : outcome[k] \in Settled
                                 THEN 0 ELSE 1
    BY <2>0
  <2>2. Returned /\ status = result
    BY DEF IInv, MainInv
  <2>3. CASE result = 0 /\ i = Len(argv) + 1
    BY <2>1, <2>2, <2>3 DEF Returned, Around
  <2>4. CASE result = 1 /\ i <= Len(argv) /\ outcome[i] \in Failed
    BY <2>1, <2>2, <2>4 DEF Failed, Settled
  <2>5. QED
    BY <2>2, <2>3, <2>4 DEF Returned
<1>2. QED
  BY <1>1, ShellInvariant, PTL

-----------------------------------------------------------------------------
(* The prompt *)

\* Until RunMain returns, run_shell says whether the prompt has been asked for.
AskedInv == phase \in {"init", "args"} => (runShell <=> PromptAsked)

LEMMA AskedStep ==
  ASSUME IInv, AskedInv, [Next]_vars
  PROVE  /\ AskedInv'
         /\ phase = "args" /\ phase' \in {"prompt", "cleanup"} =>
              (phase' = "prompt" <=> PromptAsked')
<1>1. /\ argv \in Seq(Kinds) /\ Len(argv) \in Nat
      /\ i \in Nat /\ i >= 1
  BY ShellAssumption DEF IInv, TypeOK
<1>2. argv' = argv
  BY DEF vars, Next, MainStep, ScriptStep, LoadStep, ReturnStep, Exited,
         CreateContext, NoContext, ShellFlag, IgnoredFlag, EvalOption, BadSource,
         RunFile, UnreadableFile, ArgsDone, ReadLine, EndOfFile, Cleanup, Throw,
         Catch, Uncaught, CallLoad, Quit, ConvertName, LoadFile, LoadUnreadable,
         LoadReturns, Succeed, SucceedNested, FailNested, ConvertException, FailArg,
         FailLine
<1>3. CASE ShellFlag
  <2>1. /\ phase = "args" /\ phase' = "args" /\ runShell' = TRUE
        /\ i \in 1..Len(argv) /\ argv[i] = "--shell" /\ outcome'[i] = "flag"
    BY <1>1, <1>3 DEF ShellFlag, Examining, IInv, TypeOK
  <2>2. QED
    BY <1>2, <2>1 DEF AskedInv, PromptAsked
<1>4. ASSUME NEW k, NEW o, k \in 1..Len(argv), outcome[k] \in {"pending", "running"},
             argv[k] = "--shell" => o # "flag",
             outcome' = [outcome EXCEPT ![k] = o]
      PROVE  PromptAsked' <=> PromptAsked
  BY <1>1, <1>2, <1>4 DEF PromptAsked, IInv, TypeOK
<1>5. CASE IgnoredFlag \/ UnreadableFile \/ RunFile
  <2>1. /\ i \in 1..Len(argv) /\ phase = "args" /\ stack = <<>>
        /\ phase' = "args" /\ runShell' = runShell
    <3>1. /\ i <= Len(argv) /\ phase = "args" /\ stack = <<>>
          /\ phase' = phase /\ runShell' = runShell
      BY <1>5, Zenon DEF IgnoredFlag, UnreadableFile, RunFile, Examining, IsFile
    <3>2. QED
      BY <1>1, <3>1
  <2>2. PICK o \in {"flag", "unreadable", "running"} :
          outcome' = [outcome EXCEPT ![i] = o]
    BY <1>5 DEF IgnoredFlag, UnreadableFile, RunFile
  <2>3. argv[i] = "--shell" => o # "flag"
    <3>1. CASE IgnoredFlag
      BY <3>1 DEF IgnoredFlag, Examining
    <3>2. CASE UnreadableFile \/ RunFile
      BY <3>2 DEF UnreadableFile, RunFile, IsFile, Examining
    <3>3. QED
      BY <1>5, <3>1, <3>2
  <2>4. outcome[i] = "pending"
    BY <2>1 DEF IInv, MainInv, Between
  <2>5. PromptAsked' <=> PromptAsked
    BY <1>4, <2>1, <2>2, <2>3, <2>4
  <2>6. QED
    BY <2>1, <2>5 DEF AskedInv
<1>6. CASE EvalOption \/ BadSource
  <2>1. /\ i \in 1..Len(argv) /\ argv[i] = "-e" /\ i + 1 \in 1..Len(argv)
        /\ phase = "args" /\ stack = <<>> /\ runShell' = runShell
    <3>1. /\ argv[i] = "-e" /\ i < Len(argv)
          /\ phase = "args" /\ stack = <<>> /\ runShell' = runShell
      BY <1>6, Zenon DEF EvalOption, BadSource, IsOption, Examining
    <3>2. QED
      BY <1>1, <3>1
  <2>2. phase' = "args" \/ phase' = AfterMain
    BY <1>6, <2>1 DEF EvalOption, BadSource
  <2>3. PICK o \in {"running", "badsource"} :
          outcome' = [outcome EXCEPT ![i] = "flag", ![i + 1] = o]
    BY <1>6 DEF EvalOption, BadSource
  <2>4. outcome[i + 1] = "pending"
    BY <1>1, <2>1 DEF IInv, MainInv, Between, Around
  <2>5. PromptAsked' <=> PromptAsked
    BY <1>1, <1>2, <2>1, <2>3, <2>4 DEF PromptAsked, IInv, TypeOK
  <2>6. QED
    BY <2>1, <2>2, <2>5 DEF AskedInv, AfterMain
<1>7. CASE FailArg \/ (Succeed /\ outcome' # outcome)
  <2>1. /\ phase = "args" /\ stack # <<>> /\ runShell' = runShell
        /\ \E o : outcome' = [outcome EXCEPT ![i] = o] /\ o # "flag"
        /\ phase' = "args" \/ phase' = AfterMain
    BY <1>7 DEF FailArg, OuterFailed, Succeed, At
  <2>2. i \in 1..Len(argv) /\ outcome[i] = "running"
    BY <1>1, <2>1 DEF IInv, TypeOK, MainInv, Within
  <2>3. PromptAsked' <=> PromptAsked
    BY <1>4, <2>1, <2>2
  <2>4. QED
    BY <2>1, <2>3 DEF AskedInv, AfterMain
<1>8. ASSUME outcome' = outcome, runShell' = runShell,
             phase' \in {"init", "args"} => phase \in {"init", "args"},
             phase = "args" /\ phase' \in {"prompt", "cleanup"} => phase' = AfterMain
      PROVE  /\ AskedInv'
             /\ phase = "args" /\ phase' \in {"prompt", "cleanup"} =>
                  (phase' = "prompt" <=> PromptAsked')
  <2>1. PromptAsked' <=> PromptAsked
    BY <1>2, <1>8 DEF PromptAsked
  <2>2. QED
    BY <1>8, <2>1 DEF AskedInv, AfterMain
<1>9. CASE \/ CreateContext \/ NoContext \/ ArgsDone \/ ReadLine \/ EndOfFile
           \/ Cleanup \/ ScriptStep \/ LoadStep \/ SucceedNested \/ FailNested
           \/ ConvertException \/ FailLine \/ (Succeed /\ outcome' = outcome)
           \/ Exited \/ UNCHANGED vars
  <2>1. /\ outcome' = outcome /\ runShell' = runShell
        /\ phase' \in {"init", "args"} => phase \in {"init", "args"}
        /\ phase = "args" /\ phase' \in {"prompt", "cleanup"} => phase' = AfterMain
    BY <1>9 DEF CreateContext, NoContext, ArgsDone, ReadLine, EndOfFile, Cleanup,
                ScriptStep, LoadStep, Throw, Catch, Uncaught, CallLoad, Quit,
                ConvertName, LoadFile, LoadUnreadable, LoadReturns, SucceedNested,
                FailNested, ConvertException, FailLine, Succeed, Exited, vars
  <2>2. QED
    BY <1>8, <2>1
<1>10. QED
  BY <1>3, <1>5, <1>6, <1>7, <1>9 DEF Next, MainStep, ReturnStep

\* The prompt opens exactly if it was asked for, even after a failed argument.
THEOREM ShellPrompt == Safety => PromptIffAsked
<1>1. Init => AskedInv
  BY DEF Init, AskedInv, PromptAsked
<1>2. IInv /\ AskedInv /\ [Next]_vars => AskedInv'
  BY AskedStep
<1>3. IInv /\ AskedInv /\ [Next]_vars =>
        [phase = "args" /\ phase' \in {"prompt", "cleanup"} =>
           (phase' = "prompt" <=> PromptAsked')]_vars
  BY AskedStep
<1>4. QED
  BY <1>1, <1>2, <1>3, ShellInvariant, PTL DEF Safety, PromptIffAsked

-----------------------------------------------------------------------------
(* load *)

\* What is below the top of the stack waits, and load hears of a failure.
Waits ==
  \A d \in 1..(Len(stack) - 1) :
    IF Len(stack') > d THEN stack'[d] = stack[d]
    ELSE stack[d + 1].at = "failed" /\ stack[d].at # "reporting" =>
           stack'[d].at = "thrown" /\ stack'[d].todo = 0

\* A step that leaves the frames below the top alone.
LEMMA BelowWaits ==
  ASSUME IInv, Len(stack') >= Len(stack), Len(stack') \in Nat,
         \A d \in 1..(Len(stack) - 1) : stack'[d] = stack[d]
  PROVE  Waits
<1>1. Len(stack) \in Nat
  BY DEF IInv, TypeOK
<1>2. ASSUME NEW d \in 1..(Len(stack) - 1) PROVE Len(stack') > d
  BY <1>1
<1>3. QED
  BY <1>2 DEF Waits

\* Nothing waits below the only script, or below none.
LEMMA NoneWaits ==
  ASSUME Len(stack) \in {0, 1}
  PROVE  Waits
<1>1. ASSUME NEW n \in {0, 1} PROVE 1..(n - 1) = {}
  OBVIOUS
<1>2. QED
  BY <1>1 DEF Waits

\* The innermost activation ends.
LEMMA ReturnWaits ==
  ASSUME IInv, SucceedNested \/ FailNested
  PROVE  Waits
<1>1. Len(stack) > 1
  BY Resumes
<1>2. PICK place \in Places, n \in 0..MaxLoadArgs :
        /\ stack' = Resume(place, n)
        /\ stack[Len(stack)].at = "failed" /\ Caller.at # "reporting" =>
             place = "thrown" /\ n = 0
  BY Resumes
<1>3. PICK top \in Nat \ {0} : top = Len(stack) - 1 /\ top + 1 = Len(stack)
  BY <1>1 DEF IInv, TypeOK
<1>4. /\ Len(stack') = top
      /\ \A d \in 1..(top - 1) : stack'[d] = stack[d]
      /\ stack'[top].at = place /\ stack'[top].todo = n
  <2>1. Len(stack) - 2 = top - 1
    BY <1>3
  <2>2. QED
    BY <1>1, <1>2, <1>3, <2>1, ResumeStack DEF IInv
<1>5. stack[top + 1].at = "failed" /\ stack[top].at # "reporting" =>
        place = "thrown" /\ n = 0
  BY <1>2, <1>3 DEF Caller
<1>6. ASSUME NEW d \in 1..top
      PROVE  IF Len(stack') > d THEN stack'[d] = stack[d]
             ELSE stack[d + 1].at = "failed" /\ stack[d].at # "reporting" =>
                    stack'[d].at = "thrown" /\ stack'[d].todo = 0
  <2>1. CASE d < top
    BY <1>4, <2>1
  <2>2. CASE d = top
    BY <1>4, <1>5, <2>2
  <2>3. QED
    BY <2>1, <2>2
<1>7. QED
  BY <1>3, <1>6 DEF Waits

LEMMA StepWaits == ASSUME IInv, Next PROVE Waits
<1>1. Len(stack) \in Nat /\ stack \in Seq(Frame)
  BY DEF IInv, TypeOK
<1>2. CASE stack = <<>>
  BY <1>2, NoneWaits
<1>3. CASE stack' = stack
  BY <1>1, <1>3, BelowWaits
<1>4. CASE Throw \/ Catch \/ Uncaught \/ CallLoad \/ LoadUnreadable \/ LoadReturns
  <2>1. stack # <<>>
    BY <1>4 DEF Throw, Catch, Uncaught, CallLoad, LoadUnreadable, LoadReturns,
                HasName, At
  <2>2. PICK place \in Places, n \in 0..MaxLoadArgs : stack' = MoveTo(place, n)
    <3>1. {"thrown", "run", "failed", "load"} \subseteq Places /\ 0 \in 0..MaxLoadArgs
      BY ShellAssumption DEF Places
    <3>2. QED
      BY <1>4, <3>1 DEF Throw, Catch, Uncaught, CallLoad, LoadUnreadable, LoadReturns
  <2>3. /\ Len(stack') = Len(stack)
        /\ \A d \in 1..(Len(stack) - 1) : stack'[d] = stack[d]
    BY <2>1, <2>2, MoveToStack DEF IInv
  <2>4. QED
    BY <1>1, <2>3, BelowWaits
<1>5. CASE ConvertName \/ LoadFile \/ ConvertException
  <2>1. PICK place \in Places, n \in 0..MaxLoadArgs : Pushing(place, n)
    BY <1>5, Pushes
  <2>2. /\ Len(stack') = Len(stack) + 1
        /\ \A d \in 1..(Len(stack) - 1) : stack'[d] = stack[d]
    BY <2>1, PushedStack
  <2>3. QED
    BY <1>1, <2>2, BelowWaits
<1>6. CASE SucceedNested \/ FailNested
  BY <1>6, ReturnWaits
<1>7. CASE Succeed \/ FailArg \/ FailLine
  <2>1. Len(stack) \in {0, 1}
    BY <1>7 DEF Succeed, FailArg, FailLine, OuterFailed
  <2>2. QED
    BY <2>1, NoneWaits
<1>8. CASE MainStep
  <2>1. stack = <<>> \/ stack' = stack
    BY <1>8 DEF MainStep, CreateContext, NoContext, ShellFlag, IgnoredFlag,
                EvalOption, BadSource, RunFile, UnreadableFile, ArgsDone, ReadLine,
                EndOfFile, Cleanup, IsOption, IsFile, Examining
  <2>2. QED
    BY <1>2, <1>3, <2>1
<1>9. QED
  BY <1>3, <1>4, <1>5, <1>6, <1>7, <1>8
     DEF Next, ScriptStep, LoadStep, ReturnStep, Quit, Exited, vars

\* A script suspended in load is left alone until the script it loads has ended; if
\* that one failed, load throws and forgets its other files.
THEOREM ShellLoads == Safety => LoadStopsAtFailure
<1>1. IInv /\ [Next]_vars =>
        [\A d \in 1..(Len(stack) - 1) :
           IF Len(stack') > d THEN stack'[d] = stack[d]
           ELSE stack[d + 1].at = "failed" /\ stack[d].at # "reporting" =>
                  stack'[d].at = "thrown" /\ stack'[d].todo = 0]_vars
  BY StepWaits DEF Waits
<1>2. QED
  BY <1>1, ShellInvariant, PTL DEF Safety, LoadStopsAtFailure

-----------------------------------------------------------------------------
(* The reports *)

FailedArgs == {k \in 1..Len(argv) : outcome[k] = "failed"}

LEMMA ReportStep ==
  ASSUME IInv, ReportedOnce, [Next]_vars
  PROVE  ReportedOnce'
<1> USE DEF FailedArgs
<1>1. /\ argv \in Seq(Kinds) /\ Len(argv) \in Nat
      /\ i \in Nat /\ i >= 1
      /\ reports \in Nat /\ failedLines \in Nat
      /\ outcome \in [1..Len(argv) -> Outcomes]
  BY ShellAssumption DEF IInv, TypeOK
<1>2. reports = failedLines + Cardinality(FailedArgs)
  BY DEF ReportedOnce
<1>3. IsFiniteSet(FailedArgs) /\ Cardinality(FailedArgs) \in Nat
  <2>1. IsFiniteSet(1..Len(argv))
    BY <1>1, FS_Interval
  <2>2. QED
    BY <2>1, FS_Subset, FS_CardinalityType
<1>4. ASSUME reports' = reports, failedLines' = failedLines, FailedArgs' = FailedArgs
      PROVE  ReportedOnce'
  BY <1>2, <1>4 DEF ReportedOnce
<1>5. CASE ShellFlag \/ IgnoredFlag \/ UnreadableFile \/ RunFile
  <2>1. /\ i <= Len(argv) /\ phase = "args" /\ stack = <<>>
        /\ argv' = argv /\ reports' = reports /\ failedLines' = failedLines
    BY <1>5, Zenon
    DEF ShellFlag, IgnoredFlag, UnreadableFile, RunFile, Examining, IsFile
  <2>2. PICK o \in {"flag", "unreadable", "running"} :
          outcome' = [outcome EXCEPT ![i] = o]
    BY <1>5 DEF ShellFlag, IgnoredFlag, UnreadableFile, RunFile
  <2>3. outcome[i] = "pending"
    BY <2>1 DEF IInv, MainInv, Between
  <2>4. FailedArgs' = FailedArgs
    BY <1>1, <2>1, <2>2, <2>3
  <2>5. QED
    BY <1>4, <2>1, <2>4
<1>6. CASE EvalOption \/ BadSource
  <2>1. /\ i < Len(argv) /\ phase = "args" /\ stack = <<>>
        /\ argv' = argv /\ reports' = reports /\ failedLines' = failedLines
    BY <1>6, Zenon DEF EvalOption, BadSource, IsOption, Examining
  <2>2. PICK o \in {"running", "badsource"} :
          outcome' = [outcome EXCEPT ![i] = "flag", ![i + 1] = o]
    BY <1>6 DEF EvalOption, BadSource
  <2>3. outcome[i] = "pending" /\ outcome[i + 1] = "pending"
    BY <1>1, <2>1 DEF IInv, MainInv, Between, Around
  <2>4. FailedArgs' = FailedArgs
    BY <1>1, <2>1, <2>2, <2>3
  <2>5. QED
    BY <1>4, <2>1, <2>4
<1>7. CASE Succeed
  <2>1. argv' = argv /\ reports' = reports /\ failedLines' = failedLines
    BY <1>7 DEF Succeed
  <2>2. CASE outcome' = outcome
    BY <1>4, <2>1, <2>2
  <2>3. CASE outcome' # outcome
    <3>1. outcome' = [outcome EXCEPT ![i] = "ran"] /\ phase = "args" /\ stack # <<>>
      BY <1>7, <2>3 DEF Succeed, At
    <3>2. i <= Len(argv) /\ outcome[i] = "running"
      BY <3>1 DEF IInv, MainInv, Within
    <3>3. FailedArgs' = FailedArgs
      BY <1>1, <2>1, <3>1, <3>2
    <3>4. QED
      BY <1>4, <2>1, <3>3
  <2>4. QED
    BY <2>2, <2>3
<1>8. CASE FailArg
  <2>1. /\ phase = "args" /\ stack # <<>> /\ Len(stack) = 1
        /\ outcome' = [outcome EXCEPT ![i] = "failed"]
        /\ argv' = argv /\ failedLines' = failedLines
    BY <1>8 DEF FailArg, OuterFailed, At
  <2>2. reports' = reports + 1
    BY <1>8, <2>1 DEF FailArg, Report, Top, IInv, StackShape
  <2>3. Within
    BY <2>1 DEF IInv, MainInv
  <2>4. FailedArgs = {}
    BY <1>1, <2>3 DEF Within, Around, Settled
  <2>5. FailedArgs' = {i}
    BY <1>1, <2>1, <2>3, <2>4 DEF Within
  <2>6. Cardinality(FailedArgs) = 0 /\ Cardinality(FailedArgs') = 1
    BY <2>4, <2>5, FS_EmptySet, FS_Singleton
  <2>7. QED
    BY <1>1, <1>2, <2>1, <2>2, <2>6 DEF ReportedOnce
<1>9. CASE FailLine
  <2>1. /\ Len(stack) = 1 /\ failedLines' = failedLines + 1
        /\ argv' = argv /\ outcome' = outcome
    BY <1>9 DEF FailLine, OuterFailed
  <2>2. reports' = reports + 1
    BY <1>9, <2>1 DEF FailLine, Report, Top, IInv, StackShape
  <2>3. QED
    BY <1>1, <1>2, <1>3, <2>1, <2>2 DEF ReportedOnce
<1>10. CASE SucceedNested \/ FailNested
  <2>1. UNCHANGED <<argv, outcome, reports, failedLines>>
    BY <1>10, Resumes
  <2>2. QED
    BY <1>4, <2>1
<1>11. CASE \/ CreateContext \/ NoContext \/ ArgsDone \/ ReadLine \/ EndOfFile
            \/ Cleanup \/ ScriptStep \/ LoadStep \/ ConvertException \/ Exited
            \/ UNCHANGED vars
  <2>1. UNCHANGED <<argv, outcome, reports, failedLines>>
    BY <1>11 DEF CreateContext, NoContext, ArgsDone, ReadLine, EndOfFile, Cleanup,
                 ScriptStep, LoadStep, Throw, Catch, Uncaught, CallLoad, Quit,
                 ConvertName, LoadFile, LoadUnreadable, LoadReturns,
                 ConvertException, Exited, vars
  <2>2. QED
    BY <1>4, <2>1
<1>12. QED
  BY <1>5, <1>6, <1>7, <1>8, <1>9, <1>10, <1>11 DEF Next, MainStep, ReturnStep

\* ReportException runs exactly once for each argument or line that fails, and
\* never for a script that load executes.
THEOREM ShellReports == Safety => []ReportedOnce
<1>1. Init => ReportedOnce
  <2> SUFFICES ASSUME Init PROVE ReportedOnce
    OBVIOUS
  <2>1. FailedArgs = {}
    BY DEF Init, FailedArgs
  <2>2. Cardinality(FailedArgs) = 0
    BY <2>1, FS_EmptySet
  <2>3. reports = 0 /\ failedLines = 0
    BY DEF Init
  <2>4. QED
    BY <2>2, <2>3 DEF ReportedOnce, FailedArgs
<1>2. IInv /\ ReportedOnce /\ [Next]_vars => ReportedOnce'
  BY ReportStep
<1>3. QED
  BY <1>1, <1>2, ShellInvariant, PTL DEF Safety

-----------------------------------------------------------------------------
(* The refinement *)

\* The prompt is open only if run_shell is set.
PromptInv == phase = "prompt" => runShell

LEMMA PromptInvStep == ASSUME PromptInv, [Next]_vars PROVE PromptInv'
BY DEF PromptInv, vars, Next, MainStep, ScriptStep, LoadStep, ReturnStep, Exited,
       CreateContext, NoContext, ShellFlag, IgnoredFlag, EvalOption, BadSource,
       RunFile, UnreadableFile, ArgsDone, ReadLine, EndOfFile, Cleanup, Throw, Catch,
       Uncaught, CallLoad, Quit, ConvertName, LoadFile, LoadUnreadable, LoadReturns,
       Succeed, SucceedNested, FailNested, ConvertException, FailArg, FailLine,
       AfterMain

\* What the runner sees in each of the three situations of RunMain.
LEMMA SeenBetween == IInv /\ Between => AnyRunning = FALSE /\ AnyFailed = FALSE
<1> SUFFICES ASSUME IInv, Between PROVE AnyRunning = FALSE /\ AnyFailed = FALSE
  OBVIOUS
<1>1. Len(argv) \in Nat /\ i \in Nat
  BY ShellAssumption DEF IInv, TypeOK
<1>2. \A k \in 1..Len(argv) : outcome[k] \in Settled \cup {"pending"}
  BY <1>1 DEF Between, Around
<1>3. QED
  BY <1>2 DEF AnyRunning, AnyFailed, Settled, Failed

LEMMA SeenWithin == IInv /\ Within => AnyRunning = TRUE /\ AnyFailed = FALSE
<1> SUFFICES ASSUME IInv, Within PROVE AnyRunning = TRUE /\ AnyFailed = FALSE
  OBVIOUS
<1>1. Len(argv) \in Nat /\ i \in Nat /\ i >= 1
  BY ShellAssumption DEF IInv, TypeOK
<1>2. \A k \in 1..Len(argv) : outcome[k] \in Settled \cup {"pending", "running"}
  BY <1>1 DEF Within, Around
<1>3. i \in 1..Len(argv) /\ outcome[i] = "running"
  BY <1>1 DEF Within
<1>4. QED
  BY <1>2, <1>3 DEF AnyRunning, AnyFailed, Settled, Failed

LEMMA SeenReturned ==
  IInv /\ Returned => /\ AnyRunning = FALSE
                      /\ AnyFailed = (result = 1)
                      /\ AnyFailed \/ i - 1 = Len(argv)
<1> SUFFICES ASSUME IInv, Returned
             PROVE  /\ AnyRunning = FALSE
                    /\ AnyFailed = (result = 1)
                    /\ AnyFailed \/ i - 1 = Len(argv)
  OBVIOUS
<1>1. Len(argv) \in Nat /\ i \in Nat /\ i >= 1
  BY ShellAssumption DEF IInv, TypeOK
<1>2. \A k \in 1..Len(argv) : k # i => outcome[k] \in Settled \cup {"pending"}
  BY <1>1 DEF Returned, Around
<1>3. CASE result = 0 /\ i = Len(argv) + 1
  <2>1. \A k \in 1..Len(argv) : outcome[k] \in Settled \cup {"pending"}
    BY <1>1, <1>2, <1>3
  <2>2. QED
    <3>1. AnyRunning = FALSE /\ AnyFailed = FALSE
      BY <2>1 DEF AnyRunning, AnyFailed, Settled, Failed
    <3>2. result # 1 /\ i - 1 = Len(argv)
      BY <1>1, <1>3
    <3>3. QED
      BY <3>1, <3>2
<1>4. CASE result = 1 /\ i <= Len(argv) /\ outcome[i] \in Failed
  <2>1. i \in 1..Len(argv)
    BY <1>1, <1>4
  <2>2. QED
    BY <1>2, <1>4, <2>1 DEF AnyRunning, AnyFailed, Settled, Failed
<1>5. QED
  BY <1>3, <1>4 DEF Returned

LEMMA SeenUnchanged ==
  ASSUME argv' = argv, outcome' = outcome
  PROVE  AnyRunning' = AnyRunning /\ AnyFailed' = AnyFailed
BY DEF AnyRunning, AnyFailed

\* ExecuteString leaves a frame on an empty stack.
LEMMA NonEmptyStack ==
  ASSUME stack = <<>>, Enter(stack, TRUE)
  PROVE  stack' # <<>>
BY DEF Enter

LEMMA RunnerStep ==
  ASSUME IInv, PromptInv, [Next]_vars
  PROVE  [Runner!Next]_(Runner!vars)
<1> USE DEF Runner!Next, Runner!vars
<1>1. IInv'
  BY NextIInv
<1>b. (IInv /\ Between => AnyRunning = FALSE /\ AnyFailed = FALSE)'
  BY SeenBetween, PTL
<1>w. (IInv /\ Within => AnyRunning = TRUE /\ AnyFailed = FALSE)'
  BY SeenWithin, PTL
<1>r. (IInv /\ Returned => AnyRunning = FALSE /\ AnyFailed = (result = 1))'
  BY SeenReturned, PTL
<1>2. /\ argv \in Seq(Kinds) /\ Len(argv) \in Nat /\ i \in Nat /\ i >= 1
      /\ phase \in {"init", "args", "prompt", "cleanup", "exited"}
      /\ runShell \in BOOLEAN
  BY ShellAssumption DEF IInv, TypeOK
<1>3. CASE ShellFlag \/ IgnoredFlag \/ UnreadableFile
  <2>1. /\ i <= Len(argv) /\ phase = "args" /\ stack = <<>> /\ phase' = phase
        /\ stack' = stack /\ argv' = argv /\ status' = status /\ i' = i + 1
    BY <1>3, Zenon DEF ShellFlag, IgnoredFlag, UnreadableFile, Examining, IsFile
  <2>2. Between /\ Between'
    BY <1>1, <2>1 DEF IInv, MainInv
  <2>3. AnyRunning = FALSE /\ AnyFailed = FALSE /\ AnyRunning' = FALSE /\ AnyFailed' = FALSE
    BY <1>1, <1>b, <2>2, SeenBetween
  <2>4. RunnerMode = "args" /\ RunnerMode' = "args"
    BY <2>1 DEF RunnerMode
  <2>5. Runner!Skip
    <3>1. /\ i - 1 < Len(argv) /\ (i - 1)' = i - 1 + 1
          /\ UNCHANGED <<Len(argv), status>>
      BY <1>2, <2>1
    <3>2. QED
      BY <2>3, <2>4, <3>1, Zenon DEF Runner!Skip, Runner!Idle
  <2>6. QED
    BY <2>5
<1>4. CASE EvalOption \/ RunFile
  <2>1. /\ i <= Len(argv) /\ phase = "args" /\ stack = <<>> /\ phase' = phase
        /\ argv' = argv /\ status' = status
        /\ Enter(stack, TRUE)
    BY <1>4, Zenon DEF EvalOption, RunFile, IsOption, IsFile, Examining
  <2>2. i' = i \/ (i' = i + 1 /\ i < Len(argv))
    BY <1>4 DEF EvalOption, RunFile, IsOption
  <2>3. stack' # <<>>
    BY <2>1, NonEmptyStack
  <2>4. Between /\ Within'
    BY <1>1, <2>1, <2>3 DEF IInv, MainInv
  <2>5. AnyRunning = FALSE /\ AnyFailed = FALSE /\ AnyRunning' = TRUE /\ AnyFailed' = FALSE
    BY <1>1, <1>w, <2>4, SeenBetween
  <2>6. RunnerMode = "args" /\ RunnerMode' = "args"
    BY <2>1 DEF RunnerMode
  <2>7. Runner!Start
    <3>1. /\ i - 1 < Len(argv)
          /\ \/ (i - 1)' = i - 1
             \/ (i - 1)' = i - 1 + 1 /\ (i - 1)' < Len(argv)
          /\ UNCHANGED <<Len(argv), status>>
      BY <1>2, <2>1, <2>2
    <3>2. QED
      BY <2>5, <2>6, <3>1, Zenon DEF Runner!Start, Runner!Idle
  <2>8. QED
    BY <2>7
<1>5. CASE BadSource
  <2>1. /\ i < Len(argv) /\ phase = "args" /\ stack = <<>> /\ result' = 1
        /\ argv' = argv /\ status' = status /\ i' = i + 1 /\ phase' = AfterMain
    BY <1>5, Zenon DEF BadSource, IsOption, Examining
  <2>2. phase' \in {"prompt", "cleanup"}
    BY <2>1 DEF AfterMain
  <2>3. Between /\ Returned'
    BY <1>1, <2>1, <2>2 DEF IInv, MainInv
  <2>4. AnyRunning = FALSE /\ AnyFailed = FALSE /\ AnyRunning' = FALSE /\ AnyFailed' = TRUE
    BY <1>1, <1>r, <2>1, <2>3, SeenBetween
  <2>5. RunnerMode = "args" /\ RunnerMode' \in {"args", "prompt"}
    BY <2>1, <2>2 DEF RunnerMode
  <2>6. Runner!Reject
    <3>1. /\ i - 1 < Len(argv)
          /\ (i - 1)' = i - 1 + 1 /\ (i - 1)' < Len(argv)
          /\ UNCHANGED <<Len(argv), status>>
      BY <1>2, <2>1
    <3>2. RunnerMode' \in {"args", "prompt"}
      BY <2>5
    <3>3. QED
      BY <2>4, <2>5, <3>1, <3>2, Zenon DEF Runner!Reject, Runner!Idle
  <2>7. QED
    BY <2>6
<1>6. CASE ArgsDone
  <2>1. /\ i > Len(argv) /\ phase = "args" /\ stack = <<>> /\ phase' = AfterMain
        /\ UNCHANGED <<argv, status, i, result, outcome, runShell>>
    BY <1>6 DEF ArgsDone
  <2>2. Between /\ i - 1 = Len(argv)
    BY <1>2, <2>1 DEF IInv, TypeOK, MainInv
  <2>3. AnyRunning = FALSE /\ AnyFailed = FALSE /\ AnyRunning' = FALSE /\ AnyFailed' = FALSE
    <3>1. AnyRunning = FALSE /\ AnyFailed = FALSE
      BY <2>2, SeenBetween
    <3>2. QED
      BY <2>1, <3>1 DEF AnyRunning, AnyFailed
  <2>4. CASE runShell
    <3>1. RunnerMode = "args" /\ RunnerMode' = "prompt"
      BY <2>1, <2>4 DEF RunnerMode, AfterMain
    <3>2. Runner!Prompt
      BY <2>1, <2>2, <2>3, <3>1 DEF Runner!Prompt
    <3>3. QED
      BY <3>2
  <2>5. CASE ~runShell
    <3>1. RunnerMode = "args" /\ RunnerMode' = "args"
      BY <2>1, <2>5 DEF RunnerMode, AfterMain
    <3>2. QED
      BY <2>1, <2>3, <3>1
  <2>6. QED
    BY <2>4, <2>5
<1>7. CASE EndOfFile
  <2>1. /\ phase = "prompt" /\ phase' = "cleanup" /\ runShell
        /\ UNCHANGED <<argv, status, i, outcome, runShell>>
    BY <1>7 DEF EndOfFile, PromptInv
  <2>2. AnyRunning' = AnyRunning /\ AnyFailed' = AnyFailed
    BY <2>1, SeenUnchanged
  <2>3. RunnerMode' = RunnerMode
    BY <2>1 DEF RunnerMode
  <2>4. QED
    BY <2>1, <2>2, <2>3
<1>8. CASE Cleanup
  <2>1. /\ phase = "cleanup" /\ phase' = "exited" /\ status' = result
        /\ UNCHANGED <<argv, i, outcome>>
    BY <1>8 DEF Cleanup
  <2>2. Returned /\ result \in {0, 1}
    BY <2>1 DEF IInv, MainInv, TypeOK
  <2>3. /\ AnyRunning = FALSE /\ AnyFailed = (result = 1)
        /\ AnyFailed \/ i - 1 = Len(argv)
    BY <2>2, SeenReturned
  <2>4. AnyRunning' = AnyRunning /\ AnyFailed' = AnyFailed
    BY <2>1, SeenUnchanged
  <2>5. RunnerMode \in {"args", "prompt"} /\ RunnerMode' = "done"
    BY <2>1 DEF RunnerMode
  <2>6. status' = IF AnyFailed THEN 1 ELSE 0
    BY <2>1, <2>2, <2>3
  <2>7. Runner!End
    BY <2>1, <2>3, <2>4, <2>5, <2>6 DEF Runner!End
  <2>8. QED
    BY <2>7
<1>9. CASE Succeed /\ phase = "args"
  <2>1. /\ phase = "args" /\ stack # <<>> /\ phase' = phase /\ i' = i + 1
        /\ argv' = argv /\ status' = status /\ stack' = Pop
    BY <1>9 DEF Succeed, At
  <2>2. stack' = <<>>
    <3>1. Len(stack) = 1
      BY <1>9 DEF Succeed
    <3>2. QED
      BY <2>1, <3>1, PopStack DEF IInv
  <2>3. Within /\ Between'
    BY <1>1, <2>1, <2>2 DEF IInv, MainInv
  <2>4. AnyRunning = TRUE /\ AnyFailed = FALSE /\ AnyRunning' = FALSE /\ AnyFailed' = FALSE
    BY <1>1, <1>b, <2>3, SeenWithin
  <2>5. RunnerMode = "args" /\ RunnerMode' = "args"
    BY <2>1 DEF RunnerMode
  <2>6. Runner!Finish
    <3>1. (i - 1)' = i - 1 + 1 /\ UNCHANGED <<Len(argv), status>>
      BY <1>2, <2>1
    <3>2. QED
      BY <2>4, <2>5, <3>1, Zenon DEF Runner!Finish
  <2>7. QED
    BY <2>6
<1>10. CASE FailArg
  <2>1. /\ phase = "args" /\ stack # <<>> /\ phase' = AfterMain /\ i' = i
        /\ result' = 1 /\ argv' = argv /\ status' = status
    BY <1>10 DEF FailArg, OuterFailed, At
  <2>2. phase' \in {"prompt", "cleanup"}
    BY <2>1 DEF AfterMain
  <2>3. Within /\ Returned'
    BY <1>1, <2>1, <2>2 DEF IInv, MainInv
  <2>4. AnyRunning = TRUE /\ AnyFailed = FALSE /\ AnyRunning' = FALSE /\ AnyFailed' = TRUE
    BY <1>1, <1>r, <2>1, <2>3, SeenWithin
  <2>5. RunnerMode = "args" /\ RunnerMode' \in {"args", "prompt"}
    BY <2>1, <2>2 DEF RunnerMode
  <2>6. Runner!Finish
    BY <2>1, <2>4, <2>5 DEF Runner!Finish
  <2>7. QED
    BY <2>6
<1>11. CASE Quit
  <2>1. /\ phase \in {"args", "prompt"} /\ stack # <<>> /\ phase' = "exited"
        /\ UNCHANGED <<argv, i, outcome>>
    BY <1>11 DEF Quit, At
  <2>2. PICK code \in Int : status' = code % 256
    BY <1>11, ShellAssumption DEF Quit
  <2>3. status' \in 0..255
    BY <2>2
  <2>4. phase = "args" => AnyRunning
    BY <2>1, SeenWithin DEF IInv, MainInv
  <2>5. AnyRunning' = AnyRunning /\ AnyFailed' = AnyFailed
    BY <2>1, SeenUnchanged
  <2>6. /\ RunnerMode' = "done"
        /\ (RunnerMode = "args" /\ AnyRunning) \/ RunnerMode = "prompt"
    BY <2>1, <2>4 DEF RunnerMode, PromptInv
  <2>7. Runner!Quit
    BY <2>1, <2>3, <2>5, <2>6 DEF Runner!Quit
  <2>8. QED
    BY <2>7
<1>12. CASE \/ ReadLine \/ Throw \/ Catch \/ Uncaught \/ CallLoad \/ LoadStep
            \/ SucceedNested \/ FailNested \/ ConvertException \/ FailLine
            \/ Exited \/ UNCHANGED vars \/ (Succeed /\ phase # "args")
  <2>1. UNCHANGED <<argv, i, phase, runShell, status, outcome>>
    BY <1>12 DEF ReadLine, LoadStep, Throw, Catch, Uncaught, CallLoad, ConvertName,
                 LoadFile, LoadUnreadable, LoadReturns, SucceedNested, FailNested,
                 ConvertException, FailLine, Succeed, Exited, vars
  <2>2. AnyRunning' = AnyRunning /\ AnyFailed' = AnyFailed
    BY <2>1, SeenUnchanged
  <2>3. RunnerMode' = RunnerMode
    BY <2>1 DEF RunnerMode
  <2>4. QED
    BY <2>1, <2>2, <2>3
<1>13. CASE CreateContext \/ NoContext
  <2>1. /\ phase = "init"
        /\ \/ phase' = "args" /\ status' = status
           \/ phase' = "exited" /\ status' = 1
        /\ UNCHANGED <<argv, i, outcome>>
    BY <1>13 DEF CreateContext, NoContext
  <2>2. AnyRunning' = AnyRunning /\ AnyFailed' = AnyFailed
    BY <2>1, SeenUnchanged
  <2>3. /\ RunnerMode = "new"
        /\ \/ RunnerMode' = "args" /\ status' = status
           \/ RunnerMode' = "done" /\ status' = 1
    BY <2>1 DEF RunnerMode
  <2>4. Runner!Begin \/ Runner!Refuse
    BY <2>1, <2>2, <2>3 DEF Runner!Begin, Runner!Refuse
  <2>5. QED
    BY <2>4
<1>14. QED
  BY <1>3, <1>4, <1>5, <1>6, <1>7, <1>8, <1>9, <1>10, <1>11, <1>12, <1>13
  DEF Next, MainStep, ScriptStep, ReturnStep

\* The shell implements the runner of command lines: every step of the interpreter
\* is a step of the runner or leaves what the runner sees unchanged.
THEOREM ShellRefines == Safety => Runner!Safety
<1>1. Init => Runner!Init
  <2> SUFFICES ASSUME Init PROVE Runner!Init
    OBVIOUS
  <2>1. Len(argv) \in Nat
    BY ShellAssumption DEF Init
  <2>2. AnyRunning = FALSE /\ AnyFailed = FALSE
    BY DEF Init, AnyRunning, AnyFailed, Failed
  <2>3. RunnerMode = "new"
    BY DEF Init, RunnerMode
  <2>4. i - 1 = 0 /\ status = -1
    BY DEF Init
  <2>5. QED
    BY <2>1, <2>2, <2>3, <2>4 DEF Runner!Init
<1>2. Init => PromptInv
  BY DEF Init, PromptInv
<1>3. PromptInv /\ [Next]_vars => PromptInv'
  BY PromptInvStep
<1>4. IInv /\ PromptInv /\ [Next]_vars => [Runner!Next]_(Runner!vars)
  BY RunnerStep
<1>5. QED
  BY <1>1, <1>2, <1>3, <1>4, ShellInvariant, PTL DEF Safety, Runner!Safety
=============================================================================
