------------------------------- MODULE Xnode -------------------------------
(***************************************************************************)
(* The process: main with what it makes and releases (Lifecycle) and with  *)
(* the scripts and the file it runs in between (Startup), beside the       *)
(* workers of V8.  In the shell the scripts are those of the prompt        *)
(* (modules Shell and LineReader).                                         *)
(***************************************************************************)
EXTENDS Lifecycle

VARIABLES
  step,  \* where main is between StartFile or StartShell and its end: pc of Startup
  argument, console, loaders, script, source, globals, ran, stderr, stdout

startup == <<step, argument, console, loaders, script, source, globals, ran, stderr,
             stdout>>

Startup == INSTANCE Startup WITH pc <- step

XnodeTypeOK == TypeOK /\ Startup!TypeOK

XnodeInit ==
  /\ Init /\ Startup!Init
  /\ mode = "shell" <=> argument = "none"

\* shell::init makes its isolate, then its context.
StartShell == InitShell /\ Startup!StartShell

\* One step of main in the file mode.
FileStep ==
  /\ mode = "file" /\ At("script")
  /\ Startup!Next
  /\ UNCHANGED vars

\* main returns where Startup says so.
FileReturns == ScriptEnds /\ UNCHANGED startup /\ (mode = "file" => step = "returned")

\* An empty handle or a failed CHECK: the process is gone, and releases nothing.
Crash ==
  /\ At("script") /\ step \in {"crashed", "asserted"}
  /\ Go("ended")
  /\ UNCHANGED <<mode, alive, entered, task, lock, posted, startup>>

\* JavaScript runs in the shell, and in the file mode while main is between its ends.
Running == mode = "file" => step \notin {"start"} \cup Startup!Ended

XnodeMain ==
  \/ StartShell \/ FileStep \/ FileReturns \/ Crash
  \/ /\ SetUp \/ NoContext \/ Pump \/ ReadLine \/ EndOfInput \/ DisposeIsolate
        \/ DisposeV8 \/ ReturnFromInit \/ Return \/ Join \/ Quit
     /\ UNCHANGED startup

XnodeNext ==
  \/ XnodeMain
  \/ /\ \/ Running /\ ScriptPosts
        \/ \E t \in Tasks : \/ Running /\ ScriptQueues(t)
                            \/ Start(t) \/ WantMore(t) \/ PostMore(t) \/ Finish(t)
     /\ UNCHANGED startup

\* The fairness of Lifecycle.
allVars == <<vars, startup>>
XnodeSpec ==
  /\ XnodeInit /\ [][XnodeNext]_allVars
  /\ WF_allVars(XnodeMain)
  /\ \A t \in Tasks :
       /\ WF_allVars(Start(t) /\ UNCHANGED startup)
       /\ WF_allVars(PostMore(t) /\ UNCHANGED startup)
       /\ SF_allVars(Finish(t) /\ UNCHANGED startup)

-----------------------------------------------------------------------------
(* Properties: those of the two modules, and what their composition adds *)

ScriptRunsLast == Startup!ScriptRunsLast
FailuresReported == Startup!FailuresReported

\* A file's process ends in one of three ways: main has returned and the platform has
\* waited for the workers; it crashed, and the last message said which file is missing;
\* or the loaders ran and were not a function.
EndExplained ==
  mode = "file" /\ At("ended") =>
    \/ step = "returned" /\ "P1" \notin alive /\ lock = "none"
    \/ step = "crashed" /\ Startup!CrashExplained
    \/ step = "asserted" /\ Startup!Did("loaders")
=============================================================================
