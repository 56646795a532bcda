--------------------------- MODULE LifecycleProofs ---------------------------
(* The clean-up of the shell, for every set of background tasks and jobs. *)
EXTENDS Lifecycle, TLAPS

\* What the thread of main has made, entered and released wherever it is.
AliveInv ==
  /\ At("start") => entered = {}
  /\ At("init") => mode = "shell" /\ entered = {"A"} /\ {"P1", "V8"} \subseteq alive
                   /\ "P2" \notin alive
  /\ mode = "shell" /\ pc \in {"prompt", "script", "pump"} =>
       entered = {"A", "B"} /\ {"P1", "V8", "B", "allocB"} \subseteq alive
  /\ pc \in {"prompt", "pump"} => mode = "shell"
  /\ At("dispose isolate") =>
       entered = {"A"} /\ {"P1", "V8", "allocB"} \subseteq alive
  /\ At("dispose V8") =>
       entered = {"A"} /\ {"P1", "V8", "allocB"} \subseteq alive /\ "B" \notin alive
  /\ At("shut down") =>
       entered = {"A"} /\ "P1" \in alive /\ alive \cap {"B", "V8"} = {}
  /\ pc \in {"start", "return", "join"} \/ mode = "file" => "P2" \notin alive

\* Once the isolate of the shell is disposed of, its tasks are over.
TasksInv ==
  pc \in {"dispose V8", "shut down"} =>
    \A t \in Tasks \ Shared : task[t] \in {"none", "done"}

IInv == task \in [Tasks -> {"none", "queued", "running", "posting", "done"}]
        /\ mode \in {"file", "shell"} /\ AliveInv /\ TasksInv

LEMMA InitInvariant == Init => IInv
  BY DEF Init, IInv, AliveInv, TasksInv, At

\* The thread of main keeps the invariant: it is where it is because of what it did.
LEMMA MainInvariant == IInv /\ MainStep => IInv'
  <1> SUFFICES ASSUME IInv, MainStep PROVE IInv'
    OBVIOUS
  <1> USE DEF IInv, AliveInv, TasksInv, At, Go
  <1>1. CASE SetUp
    BY <1>1 DEF SetUp
  <1>2. CASE InitShell
    BY <1>2 DEF InitShell
  <1>3. CASE NoContext
    BY <1>3 DEF NoContext
  <1>4. CASE ScriptEnds \/ Pump \/ ReadLine
    BY <1>4 DEF ScriptEnds, Pump, ReadLine
  <1>5. CASE EndOfInput
    BY <1>5 DEF EndOfInput
  <1>6. CASE DisposeIsolate
    BY <1>6 DEF DisposeIsolate, Working
  <1>7. CASE DisposeV8 \/ ReturnFromInit
    BY <1>7 DEF DisposeV8, ReturnFromInit
  <1>8. CASE Return \/ Join \/ Quit
    BY <1>8 DEF Return, Join, Quit
  <1>9. QED
    BY <1>1, <1>2, <1>3, <1>4, <1>5, <1>6, <1>7, <1>8 DEF MainStep

\* So do the workers: when the scripts are over only a worker of
\* a job can queue another, of the same job.
LEMMA WorkerInvariant ==
  ASSUME IInv, NEW t \in Tasks,
         ScriptQueues(t) \/ Start(t) \/ WantMore(t) \/ PostMore(t) \/ Finish(t)
  PROVE  IInv'
  <1> USE LifecycleAssumption DEF IInv, AliveInv, TasksInv, At
  <1>1. CASE ScriptQueues(t)
    BY <1>1 DEF ScriptQueues
  <1>2. CASE Start(t)
    BY <1>2 DEF Start
  <1>3. CASE WantMore(t)
    BY <1>3 DEF WantMore
  <1>4. CASE PostMore(t)
    BY <1>4 DEF PostMore, Idle
  <1>5. CASE Finish(t)
    BY <1>5 DEF Finish
  <1>6. QED BY <1>1, <1>2, <1>3, <1>4, <1>5

LEMMA StepInvariant == IInv /\ [Next]_vars => IInv'
  <1>1. IInv /\ (ScriptPosts \/ UNCHANGED vars) => IInv'
    BY DEF ScriptPosts, vars, IInv, AliveInv, TasksInv, At
  <1>2. QED BY <1>1, MainInvariant, WorkerInvariant DEF Next

\* The inductive invariant: what main has made and released wherever it is.
THEOREM LifecycleInvariant == Spec => []IInv
  <1>1. QED BY InitInvariant, StepInvariant, PTL DEF Spec

\* One step of the clean-up releases what nothing needs any more.
LEMMA StepReleases ==
  IInv /\ [Next]_vars =>
    (alive' # alive /\ "P2" \in alive =>
       /\ \A pair \in Needs : pair[2] \notin alive' => pair[1] \notin alive
       /\ "B" \notin alive' => entered = {"A"}
       /\ "V8" \notin alive' =>
            \A t \in Tasks \ Shared : task[t] \in {"none", "done"})
  <1> SUFFICES ASSUME IInv, [Next]_vars, alive' # alive, "P2" \in alive
               PROVE  /\ "V8" \notin alive' => "B" \notin alive
                      /\ "allocB" \notin alive' => "B" \notin alive
                      /\ "P1" \notin alive' => "V8" \notin alive
                      /\ "B" \notin alive' => entered = {"A"}
                      /\ "V8" \notin alive' =>
                           \A t \in Tasks \ Shared : task[t] \in {"none", "done"}
    BY DEF Needs
  <1>1. SetUp \/ InitShell \/ NoContext \/ DisposeIsolate \/ DisposeV8 \/ ReturnFromInit
        \/ Join
    BY DEF Next, MainStep, vars, ScriptEnds, Pump, ReadLine, EndOfInput, Return, Quit,
           ScriptPosts, ScriptQueues, Start, WantMore, PostMore, Finish
  <1> USE DEF IInv, AliveInv, TasksInv, At, Go
  <1>2. CASE SetUp \/ InitShell \/ NoContext \/ Join
    BY <1>2 DEF SetUp, InitShell, NoContext, Join
  <1>3. CASE DisposeIsolate
    BY <1>3 DEF DisposeIsolate
  <1>4. CASE DisposeV8 \/ ReturnFromInit
    BY <1>4 DEF DisposeV8, ReturnFromInit
  <1>5. QED BY <1>1, <1>2, <1>3, <1>4

\* The shell releases its isolate before V8 and its allocator, and V8 before the platform
\* of main; the isolate is not entered then, and when V8 goes no task works for it.
THEOREM LifecycleReleases == Spec => ReleasedInOrder
  <1>1. IInv /\ [Next]_vars =>
          [alive' # alive /\ "P2" \in alive =>
             /\ \A pair \in Needs : pair[2] \notin alive' => pair[1] \notin alive
             /\ "B" \notin alive' => entered = {"A"}
             /\ "V8" \notin alive' =>
                  \A t \in Tasks \ Shared : task[t] \in {"none", "done"}]_vars
    BY StepReleases
  <1>2. QED BY <1>1, LifecycleInvariant, PTL DEF Spec, ReleasedInOrder

-----------------------------------------------------------------------------
(* Types *)

\* One more foreground task waits, or none does any more.
LEMMA PostedTyped ==
  ASSUME TypeOK
  PROVE  /\ [posted EXCEPT !["P2"] = 0] \in [{"P1", "P2"} -> 0..MaxPosted]
         /\ posted["P1"] < MaxPosted =>
              [posted EXCEPT !["P1"] = @ + 1] \in [{"P1", "P2"} -> 0..MaxPosted]
  <1>1. MaxPosted \in Nat /\ posted \in [{"P1", "P2"} -> 0..MaxPosted]
    BY LifecycleAssumption DEF TypeOK
  <1>2. 0 \in 0..MaxPosted /\ posted["P1"] \in 0..MaxPosted
    BY <1>1
  <1>3. posted["P1"] < MaxPosted => posted["P1"] + 1 \in 0..MaxPosted
    BY <1>1, <1>2
  <1>4. QED BY <1>1, <1>2, <1>3

LEMMA InitTyped == Init => TypeOK
  BY LifecycleAssumption DEF Init, TypeOK

\* The thread of main writes what the types allow: it is at a place the code has.
LEMMA MainTyped == TypeOK /\ IInv /\ MainStep => TypeOK'
  <1> SUFFICES ASSUME TypeOK, IInv, MainStep PROVE TypeOK'
    OBVIOUS
  <1> USE LifecycleAssumption DEF TypeOK, At, Go
  <1>1. CASE SetUp \/ InitShell \/ NoContext
    <2>1. InitShell => entered' = {"A", "B"}
      BY DEF InitShell, IInv, AliveInv
    <2>2. QED BY <1>1, <2>1 DEF SetUp, InitShell, NoContext
  <1>2. CASE ScriptEnds \/ Pump \/ ReadLine \/ EndOfInput
    <2>1. posted' \in [{"P1", "P2"} -> 0..MaxPosted]
      BY <1>2, PostedTyped DEF ScriptEnds, Pump, ReadLine, EndOfInput
    <2>2. QED BY <1>2, <2>1 DEF ScriptEnds, Pump, ReadLine, EndOfInput
  <1>3. CASE DisposeIsolate
    BY <1>3 DEF DisposeIsolate
  <1>4. CASE DisposeV8 \/ ReturnFromInit \/ Return \/ Join \/ Quit
    BY <1>4 DEF DisposeV8, ReturnFromInit, Return, Join, Quit
  <1>5. QED BY <1>1, <1>2, <1>3, <1>4 DEF MainStep

\* So do the workers.
LEMMA WorkerTyped ==
  ASSUME TypeOK, NEW t \in Tasks,
         ScriptQueues(t) \/ Start(t) \/ WantMore(t) \/ PostMore(t) \/ Finish(t)
  PROVE  TypeOK'
  <1> USE LifecycleAssumption DEF TypeOK
  <1>1. CASE ScriptQueues(t) \/ Start(t) \/ WantMore(t)
    BY <1>1 DEF ScriptQueues, Start, WantMore
  <1>2. CASE PostMore(t)
    BY <1>2 DEF PostMore, Idle
  <1>3. CASE Finish(t)
    <2>1. task' \in [Tasks -> {"none", "queued", "running", "posting", "done"}]
      BY <1>3 DEF Finish
    <2>2. posted' \in [{"P1", "P2"} -> 0..MaxPosted]
      BY <1>3, PostedTyped DEF Finish
    <2>3. QED BY <1>3, <2>1, <2>2 DEF Finish
  <1>4. QED BY <1>1, <1>2, <1>3

LEMMA StepTyped == TypeOK /\ IInv /\ [Next]_vars => TypeOK'
  <1>1. TypeOK /\ ScriptPosts => TypeOK'
    <2> SUFFICES ASSUME TypeOK, ScriptPosts PROVE TypeOK'
      OBVIOUS
    <2>1. posted' \in [{"P1", "P2"} -> 0..MaxPosted]
      BY PostedTyped DEF ScriptPosts
    <2>2. QED BY <2>1 DEF ScriptPosts, TypeOK
  <1>2. TypeOK /\ UNCHANGED vars => TypeOK'
    BY DEF vars, TypeOK
  <1>3. QED BY <1>1, <1>2, MainTyped, WorkerTyped DEF Next

\* What is made, entered, queued and posted keeps its type.
THEOREM LifecycleTyped == Spec => []TypeOK
  <1>1. QED BY InitTyped, StepTyped, LifecycleInvariant, PTL DEF Spec

-----------------------------------------------------------------------------
(* The end waits for no worker that waits for it *)

\* Only jobs ask for more workers; and V8 is disposed of for the shell only, whose
\* isolate is gone by then.
PostingInv ==
  /\ \A t \in Tasks : task[t] = "posting" => t \in Jobs
  /\ pc \in {"dispose isolate", "dispose V8", "shut down"} => mode = "shell"
  /\ pc \in {"dispose V8", "shut down"} => "B" \notin alive

\* Where ProcessEnds promises the end.
EndsFrom ==
  \/ At("dispose V8") /\ NoJob({"posting"})
  \/ At("return") /\ NoJob({"queued", "running", "posting"})

\* From then on, no worker needs the lock that main takes.
Unblocked ==
  \/ /\ pc \in {"dispose V8", "shut down", "return", "join"}
     /\ mode = "shell" /\ "B" \notin alive
     /\ NoJob({"posting"})
  \/ /\ pc \in {"return", "join"}
     /\ NoJob({"queued", "running", "posting"})

StaysUnblocked == Unblocked => Unblocked' \/ At("ended")'

LEMMA InitPosting == Init => PostingInv
  BY DEF Init, PostingInv

LEMMA MainPosting == ASSUME IInv, PostingInv, MainStep PROVE PostingInv'
  <1> USE DEF PostingInv, At, Go
  <1>1. CASE SetUp \/ InitShell \/ NoContext
    BY <1>1 DEF SetUp, InitShell, NoContext
  <1>2. CASE ScriptEnds \/ Pump \/ ReadLine
    BY <1>2 DEF ScriptEnds, Pump, ReadLine
  <1>3. CASE EndOfInput
    BY <1>3 DEF EndOfInput, IInv, AliveInv
  <1>4. CASE DisposeIsolate
    BY <1>4 DEF DisposeIsolate, IInv
  <1>5. CASE DisposeV8 \/ ReturnFromInit \/ Return \/ Join \/ Quit
    BY <1>5 DEF DisposeV8, ReturnFromInit, Return, Join, Quit
  <1>6. QED BY <1>1, <1>2, <1>3, <1>4, <1>5 DEF MainStep

LEMMA WorkerPosting ==
  ASSUME IInv, PostingInv, NEW t \in Tasks,
         ScriptQueues(t) \/ Start(t) \/ WantMore(t) \/ PostMore(t) \/ Finish(t)
  PROVE  PostingInv'
  <1> USE LifecycleAssumption DEF PostingInv, IInv
  <1>1. CASE ScriptQueues(t) \/ Start(t) \/ Finish(t)
    BY <1>1 DEF ScriptQueues, Start, Finish
  <1>2. CASE WantMore(t)
    BY <1>2 DEF WantMore
  <1>3. CASE PostMore(t)
    BY <1>3 DEF PostMore, Idle
  <1>4. QED BY <1>1, <1>2, <1>3

LEMMA StepPosting == IInv /\ PostingInv /\ [Next]_vars => PostingInv'
  <1>1. PostingInv /\ (ScriptPosts \/ UNCHANGED vars) => PostingInv'
    BY DEF ScriptPosts, vars, PostingInv
  <1>2. QED BY <1>1, MainPosting, WorkerPosting DEF Next

\* Main goes on to its end, and brings no job back.
LEMMA MainUnblocked == ASSUME IInv, Unblocked, MainStep PROVE Unblocked' \/ At("ended")'
  <1>1. pc \in {"dispose V8", "shut down", "return", "join"}
    BY DEF Unblocked
  <1>2. DisposeV8 \/ ReturnFromInit \/ Return \/ Join
    BY <1>1 DEF MainStep, SetUp, InitShell, NoContext, ScriptEnds, Pump, ReadLine,
                EndOfInput, DisposeIsolate, Quit, At
  <1>3. CASE Join
    BY <1>3 DEF Join, Go, At
  <1>4. CASE DisposeV8 \/ ReturnFromInit \/ Return
    <2>1. /\ task' = task /\ mode' = mode /\ ("B" \in alive' => "B" \in alive)
          /\ \/ pc = "dispose V8" /\ pc' = "shut down"
             \/ pc = "shut down" /\ pc' = "return"
             \/ pc = "return" /\ pc' = "join"
      BY <1>4 DEF DisposeV8, ReturnFromInit, Return, At, Go
    <2>2. \A states : NoJob(states) => NoJob(states)'
      BY <2>1 DEF NoJob
    <2>3. QED BY <2>1, <2>2 DEF Unblocked
  <1>5. QED BY <1>2, <1>3, <1>4

\* A worker that goes on with its task wants no more of them.
LEMMA WorkerUnblocked ==
  ASSUME IInv, PostingInv, Unblocked, NEW t \in Tasks,
         ScriptQueues(t) \/ Start(t) \/ WantMore(t) \/ PostMore(t) \/ Finish(t)
  PROVE  Unblocked'
  <1>1. /\ pc \in {"dispose V8", "shut down", "return", "join"}
        /\ \A j \in Jobs : task[j] # "posting"
        /\ \A j \in Tasks : task[j] # "posting"
    BY DEF Unblocked, NoJob, PostingInv
  <1>2. ~ScriptQueues(t) /\ ~PostMore(t)
    BY <1>1 DEF ScriptQueues, PostMore, At
  <1>3. ~WantMore(t)
    BY <1>1 DEF WantMore, Unblocked, NoJob
  <1>4. /\ pc' = pc /\ mode' = mode /\ alive' = alive
        /\ \/ task[t] = "queued" /\ task' = [task EXCEPT ![t] = "running"]
           \/ task[t] = "running" /\ task' = [task EXCEPT ![t] = "done"]
    BY <1>2, <1>3 DEF Start, Finish
  <1>5. \A j \in Jobs : /\ j # t => task'[j] = task[j]
                        /\ j = t => task'[j] \in {"running", "done"}
    BY <1>4, LifecycleAssumption DEF IInv
  <1>6. CASE NoJob({"posting"}) /\ mode = "shell" /\ "B" \notin alive
    <2>1. NoJob({"posting"})'
      BY <1>1, <1>5 DEF NoJob
    <2>2. QED BY <1>1, <1>4, <1>6, <2>1 DEF Unblocked
  <1>7. CASE pc \in {"return", "join"} /\ NoJob({"queued", "running", "posting"})
    <2>1. t \notin Jobs
      BY <1>4, <1>7 DEF NoJob
    <2>2. NoJob({"queued", "running", "posting"})'
      BY <1>5, <1>7, <2>1 DEF NoJob
    <2>3. QED BY <1>4, <1>7, <2>2 DEF Unblocked
  <1>8. QED BY <1>6, <1>7 DEF Unblocked

LEMMA StepUnblocked == IInv /\ PostingInv /\ [Next]_vars => StaysUnblocked
  <1>1. Unblocked /\ (ScriptPosts \/ UNCHANGED vars) => Unblocked'
    BY DEF ScriptPosts, vars, Unblocked, NoJob
  <1>2. QED BY <1>1, MainUnblocked, WorkerUnblocked DEF Next, StaysUnblocked

\* What Unblocked says of the workers, and where it begins.
LEMMA UnblockedMeans ==
  ASSUME PostingInv
  PROVE  /\ EndsFrom => Unblocked
         /\ Unblocked => \A t \in Tasks : task[t] # "posting"
  <1>1. EndsFrom => Unblocked
    BY DEF EndsFrom, Unblocked, PostingInv, At
  <1>2. Unblocked => \A t \in Tasks : task[t] # "posting"
    BY DEF Unblocked, NoJob, PostingInv
  <1>3. QED BY <1>1, <1>2

THEOREM LifecyclePosting == Spec => []PostingInv
  <1>1. QED BY InitPosting, StepPosting, LifecycleInvariant, PTL DEF Spec

\* Where ProcessEnds promises the end, no worker waits for the lock of the platform, and
\* none will until the process has ended, for every set of tasks and jobs: main, which
\* waits for the workers with the lock in its hand, does not wait for one that waits.
THEOREM LifecycleUnblocked ==
  Spec => /\ [](EndsFrom => Unblocked)
          /\ [](Unblocked => \A t \in Tasks : task[t] # "posting")
          /\ [][StaysUnblocked]_vars
  <1>1. IInv /\ PostingInv /\ [Next]_vars => [StaysUnblocked]_vars
    BY StepUnblocked
  <1>2. QED
    BY <1>1, UnblockedMeans, LifecyclePosting, LifecycleInvariant, PTL DEF Spec
=============================================================================
