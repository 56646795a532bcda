----------------------------- MODULE Lifecycle -----------------------------
(***************************************************************************)
(* What main (src/xnode.cc) and shell::init (src/shell.cc) make and        *)
(* release: two platforms, V8, two isolates with their allocators.  V8     *)
(* knows only the platform of main.  Its worker threads run what V8 queues *)
(* for them, beside the one thread of node-mini; what V8 posts for the     *)
(* foreground waits there until somebody pumps that platform.              *)
(*                                                                         *)
(* P1, A, allocA are main's platform, isolate and allocator; P2, B, allocB *)
(* those of shell::init.                                                   *)
(***************************************************************************)
EXTENDS Naturals

CONSTANTS
  Tasks,    \* the background tasks V8 can have for its workers
  Jobs,     \* those that are workers of a job (PostJob): the marking of the isolate
            \* that runs scripts, and the compilation of WebAssembly
  Shared,   \* those of the compilation: they belong to an engine that all isolates
            \* share; all others, to the isolate that runs scripts
  MaxPosted \* bound: foreground tasks that wait on one platform

ASSUME LifecycleAssumption ==
  /\ Shared \subseteq Jobs /\ Jobs \subseteq Tasks
  /\ MaxPosted \in Nat \ {0}

VARIABLES
  mode,    \* "file" or "shell"
  pc,      \* where the thread of main is
  alive,   \* what was made and not released
  entered, \* the isolates this thread has entered
  task,    \* the state of each background task
  lock,    \* who holds the lock of P1: "none" or "main" (a worker lets go at once)
  posted   \* the foreground tasks that wait on each platform

vars == <<mode, pc, alive, entered, task, lock, posted>>

TypeOK ==
  /\ mode \in {"file", "shell"}
  /\ pc \in {"start", "init", "script", "pump", "prompt", "dispose isolate",
             "dispose V8", "shut down", "return", "join", "ended"}
  /\ alive \subseteq {"P1", "V8", "A", "allocA", "P2", "B", "allocB"}
  /\ entered \in {{}, {"A"}, {"A", "B"}}
  /\ task \in [Tasks -> {"none", "queued", "running", "posting", "done"}]
  /\ lock \in {"none", "main"}
  /\ posted \in [{"P1", "P2"} -> 0..MaxPosted]

Init ==
  /\ mode \in {"file", "shell"} /\ pc = "start"
  /\ alive = {} /\ entered = {}
  /\ task = [t \in Tasks |-> "none"] /\ lock = "none"
  /\ posted = [p \in {"P1", "P2"} |-> 0]

At(place) == pc = place
Go(place) == pc' = place

-----------------------------------------------------------------------------
(* The thread of main *)

\* Mutant of SetUp: the isolate of main is not entered.
SetUpWithoutScope ==
  /\ At("start") /\ Go(IF mode = "file" THEN "script" ELSE "init")
  /\ alive' = {"P1", "V8", "A", "allocA"} /\ entered' = {}
  /\ UNCHANGED <<mode, task, lock, posted>>

\* main: the platform, V8, an isolate that is entered.
SetUp ==
  /\ At("start") /\ Go(IF mode = "file" THEN "script" ELSE "init")
  /\ alive' = {"P1", "V8", "A", "allocA"} /\ entered' = {"A"}
  /\ UNCHANGED <<mode, task, lock, posted>>

\* shell::init makes a platform that V8 never hears of, and enters an isolate.
InitShell ==
  /\ At("init") /\ Go("prompt")
  /\ alive' = alive \cup {"P2", "B", "allocB"} /\ entered' = entered \cup {"B"}
  /\ UNCHANGED <<mode, task, lock, posted>>

\* No context: init returns 1 at once, which releases only the platform.
NoContext ==
  /\ At("init") /\ Go("return")
  /\ alive' = alive \cup {"B", "allocB"}
  /\ UNCHANGED <<mode, entered, task, lock, posted>>

\* A script makes V8 queue work for the workers, or post work for this thread:
\* V8 uses the one platform it was given.
ScriptQueues(t) ==
  /\ At("script") /\ task[t] = "none"
  /\ task' = [task EXCEPT ![t] = "queued"]
  /\ UNCHANGED <<mode, pc, alive, entered, lock, posted>>

ScriptPosts ==
  /\ At("script") /\ posted["P1"] < MaxPosted
  /\ posted' = [posted EXCEPT !["P1"] = @ + 1]
  /\ UNCHANGED <<mode, pc, alive, entered, task, lock>>

ScriptEnds ==
  /\ At("script") /\ Go(IF mode = "file" THEN "return" ELSE "pump")
  /\ UNCHANGED <<mode, alive, entered, task, lock, posted>>

\* while (PumpMessageLoop(platform, isolate)): what waits on P2 is run.
Pump ==
  /\ At("pump") /\ Go("prompt")
  /\ posted' = [posted EXCEPT !["P2"] = 0]
  /\ UNCHANGED <<mode, alive, entered, task, lock>>

ReadLine ==
  /\ At("prompt") /\ Go("script")
  /\ UNCHANGED <<mode, alive, entered, task, lock, posted>>

\* Mutant of EndOfInput: the scopes end with init.
EndOfInputInScope ==
  /\ At("prompt") /\ Go("dispose isolate")
  /\ UNCHANGED <<mode, alive, entered, task, lock, posted>>

\* The block with the scopes of init ends.
EndOfInput ==
  /\ At("prompt") /\ Go("dispose isolate")
  /\ entered' = entered \ {"B"}
  /\ UNCHANGED <<mode, alive, task, lock, posted>>

Working(t) == task[t] \in {"running", "posting"}

\* Mutant of DisposeIsolate: the call is missing.
DisposeNoIsolate ==
  /\ At("dispose isolate") /\ Go("dispose V8")
  /\ UNCHANGED <<mode, alive, entered, task, lock, posted>>

\* isolate->Dispose(): V8 cancels what has not started and waits for the tasks of
\* the isolate and for the workers of its marking; for shared jobs it does not wait.
DisposeIsolate ==
  /\ At("dispose isolate") /\ Go("dispose V8")
  /\ \A t \in Tasks \ Shared : ~Working(t)
  /\ task' = [t \in Tasks |-> IF task[t] = "queued" THEN "done" ELSE task[t]]
  /\ alive' = alive \ {"B"}
  /\ UNCHANGED <<mode, entered, lock, posted>>

\* V8::Dispose: it does not mind that the isolate of main is still entered, and that
\* isolate keeps the engine of the jobs.
DisposeV8 ==
  /\ At("dispose V8") /\ Go("shut down")
  /\ alive' = alive \ {"V8"}
  /\ UNCHANGED <<mode, entered, task, lock, posted>>

\* ShutdownPlatform, the allocator, and at the return of init its platform.
ReturnFromInit ==
  /\ At("shut down") /\ Go("return")
  /\ alive' = alive \ {"allocB", "P2"}
  /\ UNCHANGED <<mode, entered, task, lock, posted>>

\* main returns: its scopes end, and the destructor of P1 takes the lock of P1.
Return ==
  /\ At("return") /\ Go("join")
  /\ entered' = {} /\ lock' = "main"
  /\ UNCHANGED <<mode, alive, task, posted>>

\* It waits for the workers, which finish what is queued.
Join ==
  /\ At("join") /\ Go("ended")
  /\ \A t \in Tasks : task[t] \in {"none", "done"}
  /\ alive' = alive \ {"P1"} /\ lock' = "none"
  /\ UNCHANGED <<mode, entered, task, posted>>

\* quit: exit does not unwind anything.
Quit ==
  /\ At("script") /\ mode = "shell" /\ Go("ended")
  /\ UNCHANGED <<mode, alive, entered, task, lock, posted>>

-----------------------------------------------------------------------------
(* The worker threads of P1 *)

Start(t) ==
  /\ task[t] = "queued" /\ ~At("ended")
  /\ task' = [task EXCEPT ![t] = "running"]
  /\ UNCHANGED <<mode, pc, alive, entered, lock, posted>>

\* The other workers that the job of t can still get; bound: as many as Jobs has.
Idle(t) == {u \in Jobs : task[u] = "none" /\ (u \in Shared <=> t \in Shared)}

\* A worker between two runs of its job asks the platform for others, which takes the
\* lock of the platform.  When its isolate is disposed of it wants no more.
WantMore(t) ==
  /\ t \in Jobs /\ task[t] = "running" /\ ~At("ended")
  /\ mode = "shell" => "B" \in alive
  /\ task' = [task EXCEPT ![t] = "posting"]
  /\ UNCHANGED <<mode, pc, alive, entered, lock, posted>>

\* What it posts gets to run, or finds that the job has workers enough.
PostMore(t) ==
  /\ task[t] = "posting" /\ ~At("ended")
  /\ lock = "none"
  /\ \E u \in Idle(t) \cup {t} :
       task' = [task EXCEPT ![u] = "queued", ![t] = "running"]
  /\ UNCHANGED <<mode, pc, alive, entered, lock, posted>>

\* A task ends, some with a task for the foreground.
Finish(t) ==
  /\ task[t] = "running" /\ ~At("ended")
  /\ task' = [task EXCEPT ![t] = "done"]
  /\ \/ UNCHANGED posted
     \/ /\ posted["P1"] < MaxPosted
        /\ posted' = [posted EXCEPT !["P1"] = @ + 1]
  /\ UNCHANGED <<mode, pc, alive, entered, lock>>

-----------------------------------------------------------------------------
MainStep ==
  \/ SetUp \/ InitShell \/ NoContext \/ ScriptEnds \/ Pump \/ ReadLine \/ EndOfInput
  \/ DisposeIsolate \/ DisposeV8 \/ ReturnFromInit \/ Return \/ Join \/ Quit

Next ==
  \/ MainStep \/ ScriptPosts
  \/ \E t \in Tasks : \/ ScriptQueues(t) \/ Start(t) \/ WantMore(t)
                      \/ PostMore(t) \/ Finish(t)

\* The thread of main goes on, and a worker that has a task goes on with it: it ends
\* the task, even one that keeps asking for help.
Spec ==
  /\ Init /\ [][Next]_vars
  /\ WF_vars(MainStep)
  /\ \A t \in Tasks :
       WF_vars(Start(t)) /\ WF_vars(PostMore(t)) /\ SF_vars(Finish(t))

-----------------------------------------------------------------------------
(* Properties *)

\* The clean-up of the shell releases nothing that is still needed: its isolate goes
\* before V8 and before its allocator, V8 before the platform that main gave it; and
\* "the isolate must not be entered by any thread to be disposable" (v8.h:8680).
\* Where V8 is gone no worker works for the isolate, or will.
Needs == {<<"B", "V8">>, <<"B", "allocB">>, <<"V8", "P1">>}
ReleasedInOrder ==
  [][alive' # alive /\ "P2" \in alive =>
       /\ \A pair \in Needs : pair[2] \notin alive' => pair[1] \notin alive
       /\ "B" \notin alive' => entered = {"A"}
       /\ "V8" \notin alive' =>
            \A t \in Tasks \ Shared : task[t] \in {"none", "done"}]_vars

\* Once the isolate of the shell is disposed of the process ends, unless a shared job is
\* just then asking for another worker; a file's process ends if no worker of a job is
\* left when main returns, of the marking of its isolate neither.  Otherwise the
\* destructor of the platform, which holds the lock of the platform, can wait for ever
\* for a worker that needs the lock.
NoJob(states) == \A t \in Jobs : task[t] \notin states
ProcessEnds ==
  \/ At("dispose V8") /\ NoJob({"posting"})
  \/ At("return") /\ NoJob({"queued", "running", "posting"})
  ~> At("ended")

\* "Schedules a task to be invoked" (deps/v8/include/v8-platform.h:73): while the shell
\* goes on it runs what was posted for its thread.
PostedTasksRun ==
  posted["P1"] > 0 ~> posted["P1"] = 0 \/ pc \notin {"script", "pump", "prompt"}
=============================================================================
