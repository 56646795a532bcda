----------------------------- MODULE XnodeProofs -----------------------------
(* The process from its start to its end, for every file it can find, every *)
(* set of background tasks and every order of their steps.  What main makes *)
(* and releases is taken from the proofs about Lifecycle.                   *)
EXTENDS Xnode, LifecycleProofs, SequenceTheorems

\* Until the file runs, one message tells of a console that did not run.
ConsoleTold ==
  /\ ~Startup!Did("script") /\ stdout = <<>>
  /\ "console" \in globals <=> Startup!Did("console")
  /\ Len(stderr) = IF Startup!Did("console") THEN 0 ELSE 1

LastWord(message) == stderr # <<>> /\ stderr[Len(stderr)] = message

\* A source was read, or that it is missing was the last thing said.
Sourced(what, message) ==
  IF source = what THEN ConsoleTold
  ELSE source = "empty" /\ LastWord(message) /\ ~Startup!Did("script")

\* What has run and what has been said wherever main is.
ScriptsInv ==
  /\ step \in {"start", "console", "shell"} =>
       ran = <<>> /\ stderr = <<>> /\ stdout = <<>> /\ "console" \notin globals
  /\ step = "compile console" =>
       /\ ran = <<>> /\ stdout = <<>> /\ "console" \notin globals
       /\ IF source = "console" THEN stderr = <<>>
          ELSE source = "empty" /\ LastWord("no startup script")
  /\ step \in {"loaders", "bootstrap", "script"} => ConsoleTold
  /\ step = "bootstrapper" => Sourced("loaders", "no startup script")
  /\ step = "compile script" => Sourced("script", "no script")
  /\ step \in {"loaders", "bootstrapper", "bootstrap"} => ~Startup!Did("bootstrap")
  /\ step \in {"script", "compile script"} => Startup!Did("bootstrap")
  /\ step = "asserted" => Startup!Did("loaders")
  /\ step \in {"crashed", "asserted"} => ~Startup!Did("script")

StartupInv ==
  /\ Startup!TypeOK /\ ScriptsInv
  /\ Startup!ScriptRunsLast /\ Startup!FailuresReported /\ Startup!CrashExplained

\* A file's process goes straight from its scripts to its end, which main reaches only
\* when it returns, and a crash from wherever it happens.
EndInv ==
  /\ mode = "shell" <=> argument = "none"
  /\ mode = "file" =>
       /\ pc \in {"start", "script", "return", "join", "ended"}
       /\ pc \in {"return", "join"} => step = "returned"
       /\ pc = "ended" => \/ step = "returned" /\ "P1" \notin alive /\ lock = "none"
                          \/ step \in {"crashed", "asserted"}

XInv == TypeOK /\ IInv /\ StartupInv /\ EndInv

-----------------------------------------------------------------------------
(* What is run and what is said *)

Scripts == {"console", "loaders", "bootstrap", "script"}
Messages == {"no startup script", "no script", "exception"}

\* A script that has run to its end is one more that did.
LEMMA OneMoreRan ==
  ASSUME ran \in Seq(Scripts), NEW x \in Scripts, ran' = Append(ran, x)
  PROVE  /\ ran' \in Seq(Scripts)
         /\ \A y : Startup!Did(y)' <=> Startup!Did(y) \/ x = y
  <1>1. PICK n \in Nat : /\ n = Len(ran) /\ DOMAIN ran = 1..n /\ DOMAIN ran' = 1..(n + 1)
                         /\ \A k \in 1..n : ran'[k] = ran[k]
                         /\ ran'[n + 1] = x
    OBVIOUS
  <1>2. ASSUME NEW y
        PROVE  (\E j \in DOMAIN ran' : ran'[j] = y) <=> (\E j \in DOMAIN ran : ran[j] = y) \/ x = y
    <2>1. \A j \in 1..(n + 1) : j \in 1..n \/ j = n + 1
      OBVIOUS
    <2>2. \A j \in 1..n : j \in 1..(n + 1)
      OBVIOUS
    <2>3. n + 1 \in 1..(n + 1)
      OBVIOUS
    <2>4. QED BY <1>1, <2>1, <2>2, <2>3
  <1>3. QED BY <1>2 DEF Startup!Did

\* What is said is the last word, and one word more.
LEMMA OneMoreSaid ==
  ASSUME NEW S, NEW s \in Seq(S), NEW m \in S
  PROVE  /\ Append(s, m) \in Seq(S) /\ Append(s, m) # <<>>
         /\ Len(s) \in Nat /\ Len(Append(s, m)) = Len(s) + 1
         /\ Append(s, m)[Len(Append(s, m))] = m
  OBVIOUS

\* Nothing is said exactly when no word is.
LEMMA Silence == ASSUME NEW S, NEW s \in Seq(S) PROVE Len(s) = 0 <=> s = <<>>
  BY EmptySeq

LEMMA NothingRan == ran = <<>> => \A y : ~Startup!Did(y)
  BY DEF Startup!Did

LEMMA StartupBegins == Startup!Init => StartupInv
  <1> SUFFICES ASSUME Startup!Init PROVE StartupInv
    OBVIOUS
  <1>1. Startup!TypeOK
    <2>1. script \in Startup!Files
      BY DEF Startup!Init, Startup!Files
    <2>2. /\ ran \in Seq({"console", "loaders", "bootstrap", "script"})
          /\ stderr \in Seq({"no startup script", "no script", "exception"})
          /\ stdout \in Seq({"exception"})
      BY DEF Startup!Init
    <2>3. QED BY <2>1, <2>2 DEF Startup!Init, Startup!TypeOK, Startup!Ended
  <1>2. QED
    BY <1>1, NothingRan
       DEF Startup!Init, StartupInv, ScriptsInv, Startup!ScriptRunsLast, Startup!FailuresReported,
           Startup!CrashExplained

-----------------------------------------------------------------------------
(* The steps of the startup *)

\* The context of the shell or of a file.
LEMMA ContextKeeps ==
  ASSUME StartupInv, Startup!StartShell \/ Startup!StartFile
  PROVE  StartupInv'
  <1>1. /\ step = "start" /\ step' \in {"shell", "console"}
        /\ globals' \in {Startup!CreateShellContext, Startup!FileGlobals}
        /\ UNCHANGED <<argument, console, loaders, script, source, ran, stderr, stdout>>
    BY DEF Startup!StartShell, Startup!StartFile, Startup!world
  <1>2. Startup!TypeOK'
    BY <1>1 DEF StartupInv, Startup!TypeOK, Startup!Ended, Startup!CreateShellContext,
                Startup!FileGlobals
  <1>3. QED
    BY <1>1, <1>2, NothingRan
       DEF StartupInv, ScriptsInv, Startup!ScriptRunsLast, Startup!FailuresReported,
           Startup!CrashExplained, Startup!CreateShellContext, Startup!FileGlobals, Startup!Did

\* A source is read: main goes on, with the source or with a message.
LEMMA ReadKeeps ==
  ASSUME StartupInv, Startup!ReadConsole \/ Startup!ReadLoaders \/ Startup!ReadScript
  PROVE  StartupInv'
  <1>1. PICK what \in {"console", "loaders", "script"}, message \in Messages :
          /\ \/ source' = what /\ UNCHANGED stderr
             \/ source' = "empty" /\ stderr' = Append(stderr, message)
          /\ UNCHANGED <<argument, console, loaders, script, globals, ran, stdout>>
          /\ \/ /\ what = "console" /\ message = "no startup script"
                /\ step = "console" /\ step' = "compile console"
             \/ /\ what = "loaders" /\ message = "no startup script"
                /\ step = "loaders" /\ step' = "bootstrapper"
             \/ /\ what = "script" /\ message = "no script"
                /\ step = "script" /\ step' = "compile script"
    BY DEF Startup!ReadConsole, Startup!ReadLoaders, Startup!ReadScript, Startup!Read,
           Startup!world, Messages
  <1>2. stderr \in Seq(Messages)
    BY DEF StartupInv, Startup!TypeOK, Messages
  <1>3. source' = "empty" => stderr' \in Seq(Messages) /\ stderr' # <<>>
                             /\ stderr'[Len(stderr')] = message
    <2>1. /\ Append(stderr, message) \in Seq(Messages) /\ Append(stderr, message) # <<>>
          /\ Append(stderr, message)[Len(Append(stderr, message))] = message
      BY <1>2, OneMoreSaid
    <2>2. what # "empty"
      OBVIOUS
    <2>3. source' = "empty" => stderr' = Append(stderr, message)
      <3>1. source' = what \/ stderr' = Append(stderr, message)
        BY <1>1
      <3>2. QED BY <2>2, <3>1
    <2>4. QED BY <2>1, <2>3
  <1>4. Startup!TypeOK'
    BY <1>1, <1>2, <1>3 DEF StartupInv, Startup!TypeOK, Startup!Ended, Messages
  <1>5. \A y : Startup!Did(y)' <=> Startup!Did(y)
    BY <1>1 DEF Startup!Did
  <1>6. ScriptsInv'
    <2>1. CASE what = "console"
      BY <1>1, <1>3, <1>5, <2>1 DEF StartupInv, ScriptsInv, LastWord
    <2>2. CASE what = "loaders"
      BY <1>1, <1>3, <1>5, <2>2 DEF StartupInv, ScriptsInv, LastWord, ConsoleTold, Sourced
    <2>3. CASE what = "script"
      BY <1>1, <1>3, <1>5, <2>3 DEF StartupInv, ScriptsInv, LastWord, ConsoleTold, Sourced
    <2>4. QED BY <1>1, <2>1, <2>2, <2>3
  <1>7. ~Startup!Did("script")
    BY <1>1, NothingRan DEF StartupInv, ScriptsInv, ConsoleTold
  <1>8. QED
    BY <1>1, <1>4, <1>5, <1>6, <1>7
       DEF StartupInv, Startup!ScriptRunsLast, Startup!FailuresReported, Startup!CrashExplained

\* V8 crashes on the empty handle of a source that is missing, which was the last word.
LEMMA CrashKeeps == ASSUME StartupInv, Startup!CompileEmpty PROVE StartupInv'
  <1>1. /\ source = "empty" /\ step' = "crashed"
        /\ step \in {"compile console", "bootstrapper", "compile script"}
        /\ UNCHANGED <<argument, console, loaders, script, source, globals, ran, stderr, stdout>>
    BY DEF Startup!CompileEmpty, Startup!world
  <1>2. Startup!TypeOK'
    BY <1>1 DEF StartupInv, Startup!TypeOK, Startup!Ended
  <1>3. \A y : Startup!Did(y)' <=> Startup!Did(y)
    BY <1>1 DEF Startup!Did
  <1>4. ~Startup!Did("script")
    BY <1>1, NothingRan DEF StartupInv, ScriptsInv, Sourced
  <1>5. LastWord(IF Startup!Did("bootstrap") THEN "no script" ELSE "no startup script")
    BY <1>1, NothingRan DEF StartupInv, ScriptsInv, Sourced
  <1>6. QED
    BY <1>1, <1>2, <1>3, <1>4, <1>5
       DEF StartupInv, ScriptsInv, LastWord, Startup!ScriptRunsLast, Startup!FailuresReported,
           Startup!CrashExplained

\* A script is compiled and run: it has run, or its exception is one message.
LEMMA Compiled ==
  ASSUME StartupInv, NEW what \in Scripts, NEW file, Startup!Compile(what, file)
  PROVE  /\ ran' \in Seq(Scripts) /\ stderr' \in Seq(Messages)
         /\ \/ /\ file = "runs" /\ stderr' = stderr
               /\ \A y : Startup!Did(y)' <=> Startup!Did(y) \/ what = y
            \/ /\ file # "runs" /\ ran' = ran
               /\ Len(stderr) \in Nat /\ Len(stderr') = Len(stderr) + 1
               /\ \A y : Startup!Did(y)' <=> Startup!Did(y)
  <1>1. ran \in Seq(Scripts) /\ stderr \in Seq(Messages)
    BY DEF StartupInv, Startup!TypeOK, Scripts, Messages
  <1>2. CASE file = "runs" /\ ran' = Append(ran, what) /\ stderr' = stderr
    BY <1>1, <1>2, OneMoreRan
  <1>3. CASE file \in {"syntax", "throws"} /\ stderr' = Append(stderr, "exception") /\ ran' = ran
    <2>1. "exception" \in Messages
      BY DEF Messages
    <2>2. stderr' \in Seq(Messages) /\ Len(stderr) \in Nat /\ Len(stderr') = Len(stderr) + 1
      BY <1>1, <1>3, <2>1, OneMoreSaid
    <2>3. QED BY <1>1, <1>3, <2>2 DEF Startup!Did
  <1>4. QED BY <1>2, <1>3 DEF Startup!Compile

\* console.js is run or reported, and the console is there or not.
LEMMA ConsoleKeeps == ASSUME StartupInv, Startup!CompileConsole PROVE StartupInv'
  <1>1. /\ step = "compile console" /\ step' = "loaders" /\ source = "console"
        /\ Startup!Compile("console", console)
        /\ globals' = globals \cup (IF console = "runs" THEN {"console"} ELSE {})
        /\ UNCHANGED <<argument, console, loaders, script, source, stdout>>
    BY DEF Startup!CompileConsole, Startup!world
  <1>2. "console" \in Scripts
    BY DEF Scripts
  <1>3. /\ ran' \in Seq(Scripts) /\ stderr' \in Seq(Messages)
        /\ \/ /\ console = "runs" /\ stderr' = stderr
              /\ \A y : Startup!Did(y)' <=> Startup!Did(y) \/ "console" = y
           \/ /\ console # "runs" /\ ran' = ran
              /\ Len(stderr) \in Nat /\ Len(stderr') = Len(stderr) + 1
              /\ \A y : Startup!Did(y)' <=> Startup!Did(y)
    BY <1>1, <1>2, Compiled
  <1>4. Startup!TypeOK'
    BY <1>1, <1>3 DEF StartupInv, Startup!TypeOK, Startup!Ended, Scripts, Messages
  <1>5. (\A y : ~Startup!Did(y)) /\ "console" \notin globals /\ stderr = <<>> /\ stdout = <<>>
    BY <1>1, NothingRan DEF StartupInv, ScriptsInv
  <1>6. Len(stderr) = 0
    BY <1>5
  <1>7. ConsoleTold' /\ ~Startup!Did("bootstrap")' /\ ~Startup!Did("script")'
    <2>1. Startup!Did("console")' <=> console = "runs"
      BY <1>3, <1>5
    <2>2. ~Startup!Did("bootstrap")' /\ ~Startup!Did("script")'
      BY <1>3, <1>5
    <2>3. Len(stderr') = IF console = "runs" THEN 0 ELSE 1
      BY <1>3, <1>6
    <2>4. "console" \in globals' <=> console = "runs"
      BY <1>1, <1>5
    <2>5. QED BY <1>1, <1>5, <2>1, <2>2, <2>3, <2>4 DEF ConsoleTold
  <1>8. QED
    BY <1>1, <1>4, <1>7
       DEF StartupInv, ScriptsInv, Startup!ScriptRunsLast, Startup!FailuresReported,
           Startup!CrashExplained

\* The loaders fail, and main returns: the exception is reported on one of the streams.
LEMMA LoadersFail ==
  ASSUME StartupInv, Startup!NoBootstrapper \/ Startup!BootstrapThrows
  PROVE  StartupInv'
  <1>1. /\ step' = "returned" /\ step \in {"bootstrapper", "bootstrap"}
        /\ step = "bootstrapper" => source = "loaders"
        /\ \/ stderr' = Append(stderr, "exception") /\ stdout' = stdout
           \/ stdout' = Append(stdout, "exception") /\ stderr' = stderr
        /\ UNCHANGED <<argument, console, loaders, script, source, globals, ran>>
    BY DEF Startup!NoBootstrapper, Startup!BootstrapThrows, Startup!world
  <1>2. stderr \in Seq(Messages) /\ stdout \in Seq({"exception"}) /\ "exception" \in Messages
    BY DEF StartupInv, Startup!TypeOK, Messages
  <1>3. \A y : Startup!Did(y)' <=> Startup!Did(y)
    BY <1>1 DEF Startup!Did
  <1>4. ConsoleTold
    BY <1>1 DEF StartupInv, ScriptsInv, Sourced
  <1>5. /\ stderr' \in Seq(Messages) /\ stdout' \in Seq({"exception"})
        /\ Len(stderr) \in Nat /\ Len(stdout) \in Nat
        /\ Len(stderr') + Len(stdout') = Len(stderr) + Len(stdout) + 1
    <2>1. Len(stderr) \in Nat /\ Len(stdout) \in Nat
      BY <1>2
    <2>2. CASE stderr' = Append(stderr, "exception") /\ stdout' = stdout
      <3>1. stderr' \in Seq(Messages) /\ Len(stderr') = Len(stderr) + 1
        BY <1>2, <2>2, OneMoreSaid
      <3>2. QED BY <1>2, <2>1, <2>2, <3>1
    <2>3. CASE stdout' = Append(stdout, "exception") /\ stderr' = stderr
      <3>1. stdout' \in Seq({"exception"}) /\ Len(stdout') = Len(stdout) + 1
        BY <1>2, <2>3, OneMoreSaid
      <3>2. QED BY <1>2, <2>1, <2>3, <3>1
    <2>4. QED BY <1>1, <2>2, <2>3
  <1>6. Startup!TypeOK'
    BY <1>1, <1>5 DEF StartupInv, Startup!TypeOK, Startup!Ended, Messages
  <1>7. Startup!FailuresReported'
    <2>1. Len(stdout) = 0
      BY <1>4 DEF ConsoleTold
    <2>2. QED BY <1>3, <1>4, <1>5, <2>1 DEF ConsoleTold, Startup!FailuresReported
  <1>8. QED
    BY <1>1, <1>3, <1>4, <1>6, <1>7
       DEF StartupInv, ScriptsInv, ConsoleTold, Startup!ScriptRunsLast, Startup!CrashExplained

\* The loaders are run, or called, to their end.
LEMMA LoadersKeep ==
  ASSUME StartupInv,
         Startup!NotAFunction \/ Startup!GetBootstrapper \/ Startup!ExecuteBootstrapper
  PROVE  StartupInv'
  <1>1. PICK what \in {"loaders", "bootstrap"} :
          /\ ran' = Append(ran, what)
          /\ step = "bootstrapper" => source = "loaders"
          /\ \/ what = "loaders" /\ step = "bootstrapper" /\ step' \in {"asserted", "bootstrap"}
             \/ what = "bootstrap" /\ step = "bootstrap" /\ step' = "script"
          /\ UNCHANGED <<argument, console, loaders, script, source, globals, stderr, stdout>>
    BY DEF Startup!NotAFunction, Startup!GetBootstrapper, Startup!ExecuteBootstrapper,
           Startup!world
  <1>2. ran \in Seq(Scripts) /\ what \in Scripts
    BY DEF StartupInv, Startup!TypeOK, Scripts
  <1>3. ran' \in Seq(Scripts) /\ \A y : Startup!Did(y)' <=> Startup!Did(y) \/ what = y
    BY <1>1, <1>2, OneMoreRan
  <1>4. Startup!TypeOK'
    BY <1>1, <1>3 DEF StartupInv, Startup!TypeOK, Startup!Ended, Scripts
  <1>5. ConsoleTold
    BY <1>1 DEF StartupInv, ScriptsInv, Sourced
  <1>6. ConsoleTold' /\ ~Startup!Did("script")'
    BY <1>1, <1>3, <1>5 DEF ConsoleTold
  <1>7. ScriptsInv'
    BY <1>1, <1>3, <1>6 DEF StartupInv, ScriptsInv
  <1>8. QED
    BY <1>1, <1>4, <1>6, <1>7
       DEF StartupInv, Startup!ScriptRunsLast, Startup!FailuresReported, Startup!CrashExplained

\* The file is run or reported, and main returns.
LEMMA ScriptKeeps == ASSUME StartupInv, Startup!CompileScript PROVE StartupInv'
  <1>1. /\ step = "compile script" /\ step' = "returned" /\ source = "script"
        /\ Startup!Compile("script", script)
        /\ UNCHANGED <<argument, console, loaders, script, source, globals, stdout>>
    BY DEF Startup!CompileScript, Startup!world
  <1>2. "script" \in Scripts
    BY DEF Scripts
  <1>3. /\ ran' \in Seq(Scripts) /\ stderr' \in Seq(Messages)
        /\ \/ /\ script = "runs" /\ stderr' = stderr
              /\ \A y : Startup!Did(y)' <=> Startup!Did(y) \/ "script" = y
           \/ /\ script # "runs" /\ ran' = ran
              /\ Len(stderr) \in Nat /\ Len(stderr') = Len(stderr) + 1
              /\ \A y : Startup!Did(y)' <=> Startup!Did(y)
    BY <1>1, <1>2, Compiled
  <1>4. Startup!TypeOK'
    BY <1>1, <1>3 DEF StartupInv, Startup!TypeOK, Startup!Ended, Scripts, Messages
  <1>5. ConsoleTold /\ Startup!Did("bootstrap") /\ Len(stdout') = 0
    BY <1>1 DEF StartupInv, ScriptsInv, Sourced, ConsoleTold
  <1>6. /\ Startup!Did("console")' <=> Startup!Did("console")
        /\ Startup!Did("bootstrap")'
        /\ Startup!Did("script")' <=> script = "runs"
    BY <1>3, <1>5 DEF ConsoleTold
  <1>7. Len(stderr') = (IF Startup!Did("console")' THEN 0 ELSE 1)
                         + (IF Startup!Did("script")' THEN 0 ELSE 1)
    <2>1. CASE Startup!Did("console")
      <3>1. Len(stderr) = 0 /\ Startup!Did("console")'
        BY <1>5, <1>6, <2>1 DEF ConsoleTold
      <3>2. QED BY <1>3, <1>6, <3>1
    <2>2. CASE ~Startup!Did("console")
      <3>1. Len(stderr) = 1 /\ ~Startup!Did("console")'
        BY <1>5, <1>6, <2>2 DEF ConsoleTold
      <3>2. QED BY <1>3, <1>6, <3>1
    <2>3. QED BY <2>1, <2>2
  <1>8. Startup!ScriptRunsLast'
    <2>1. Len(stderr') = 0 <=> stderr' = <<>>
      BY <1>3, Silence
    <2>2. Startup!Did("script")' => ("console" \in globals' <=> Len(stderr') = 0)
      <3>1. "console" \in globals' <=> Startup!Did("console")'
        BY <1>1, <1>5, <1>6 DEF ConsoleTold
      <3>2. Startup!Did("script")' => (Startup!Did("console")' <=> Len(stderr') = 0)
        BY <1>7
      <3>3. QED BY <3>1, <3>2
    <2>3. QED BY <1>6, <2>1, <2>2 DEF Startup!ScriptRunsLast
  <1>9. Startup!FailuresReported'
    BY <1>3, <1>5, <1>7 DEF Startup!FailuresReported
  <1>10. QED
    BY <1>1, <1>4, <1>8, <1>9 DEF StartupInv, ScriptsInv, Startup!CrashExplained

LEMMA StartupKeeps == StartupInv /\ [Startup!Next]_startup => StartupInv'
  <1> SUFFICES ASSUME StartupInv, [Startup!Next]_startup PROVE StartupInv'
    OBVIOUS
  <1>1. CASE UNCHANGED startup
    <2>1. Startup!TypeOK'
      BY <1>1 DEF startup, StartupInv, Startup!TypeOK, Startup!Ended
    <2>2. ScriptsInv'
      BY <1>1 DEF startup, StartupInv, ScriptsInv, ConsoleTold, Sourced, LastWord, Startup!Did
    <2>3. Startup!ScriptRunsLast' /\ Startup!FailuresReported' /\ Startup!CrashExplained'
      BY <1>1 DEF startup, StartupInv, Startup!ScriptRunsLast, Startup!FailuresReported,
                  Startup!CrashExplained, Startup!Did
    <2>4. QED BY <2>1, <2>2, <2>3 DEF StartupInv
  <1>2. QED
    BY <1>1, ContextKeeps, ReadKeeps, CrashKeeps, ConsoleKeeps, LoadersFail, LoadersKeep,
       ScriptKeeps DEF Startup!Next

-----------------------------------------------------------------------------
(* The process *)

\* A step of the process takes a step of the startup or none.
LEMMA StartupStep == [XnodeNext]_allVars => [Startup!Next]_startup
  BY DEF XnodeNext, XnodeMain, StartShell, FileStep, FileReturns, Crash, Startup!Next, allVars

\* What a crash does to what main has made: nothing is released.
CrashEnds == At("script") /\ Go("ended") /\ UNCHANGED <<mode, alive, entered, task, lock, posted>>

\* It takes a step of the life cycle or none, or it crashes.
LEMMA LifecycleStep == [XnodeNext]_allVars => [Next]_vars \/ CrashEnds
  BY DEF XnodeNext, XnodeMain, StartShell, FileStep, FileReturns, Crash, CrashEnds, Next, MainStep,
         allVars

LEMMA CrashInvariant == TypeOK /\ IInv /\ CrashEnds => TypeOK' /\ IInv'
  BY DEF CrashEnds, TypeOK, IInv, AliveInv, TasksInv, At, Go

LEMMA ProcessBegins == XnodeInit => XInv
  <1> SUFFICES ASSUME XnodeInit PROVE XInv
    OBVIOUS
  <1>1. TypeOK /\ IInv /\ StartupInv
    BY InitTyped, InitInvariant, StartupBegins DEF XnodeInit
  <1>2. EndInv
    BY DEF XnodeInit, Init, EndInv
  <1>3. QED BY <1>1, <1>2 DEF XInv

\* The end of a file's process is where its scripts and its life cycle meet.
LEMMA EndKeeps == ASSUME XInv, [XnodeNext]_allVars PROVE EndInv'
  <1> USE DEF XInv, EndInv, At, Go
  <1>1. mode' = mode /\ argument' = argument
    <2>1. mode' = mode
      BY DEF XnodeNext, XnodeMain, StartShell, InitShell, FileStep, FileReturns, Crash,
             SetUp, NoContext, Pump, ReadLine, EndOfInput, DisposeIsolate, DisposeV8,
             ReturnFromInit, Return, Join, Quit, ScriptEnds, ScriptPosts, ScriptQueues, Start,
             WantMore, PostMore, Finish, vars, allVars
    <2>2. argument' = argument
      BY StartupStep
         DEF Startup!Next, Startup!StartShell, Startup!StartFile, Startup!ReadConsole,
             Startup!CompileEmpty, Startup!CompileConsole, Startup!ReadLoaders,
             Startup!NoBootstrapper, Startup!NotAFunction, Startup!GetBootstrapper,
             Startup!BootstrapThrows, Startup!ExecuteBootstrapper, Startup!ReadScript,
             Startup!CompileScript, Startup!world, startup
    <2>3. QED BY <2>1, <2>2
  <1> SUFFICES ASSUME mode = "file"
      PROVE  /\ pc' \in {"start", "script", "return", "join", "ended"}
             /\ pc' \in {"return", "join"} => step' = "returned"
             /\ pc' = "ended" => \/ step' = "returned" /\ "P1" \notin alive' /\ lock' = "none"
                                 \/ step' \in {"crashed", "asserted"}
    BY <1>1
  <1>2. CASE StartShell \/ FileStep
    BY <1>2 DEF StartShell, InitShell, FileStep, vars
  <1>3. CASE FileReturns \/ Crash
    BY <1>3 DEF FileReturns, ScriptEnds, Crash, startup
  <1>4. CASE /\ \/ SetUp \/ NoContext \/ Pump \/ ReadLine \/ EndOfInput \/ DisposeIsolate
                \/ DisposeV8 \/ ReturnFromInit \/ Quit
             /\ UNCHANGED startup
    BY <1>4 DEF startup, SetUp, NoContext, Pump, ReadLine, EndOfInput, DisposeIsolate, DisposeV8,
                ReturnFromInit, Quit
  <1>5. CASE (Return \/ Join) /\ UNCHANGED startup
    BY <1>5 DEF startup, Return, Join
  <1>6. CASE UNCHANGED <<pc, alive, lock, startup>>
    BY <1>6 DEF startup
  <1>7. QED
    BY <1>2, <1>3, <1>4, <1>5, <1>6
       DEF XnodeNext, XnodeMain, ScriptPosts, ScriptQueues, Start, WantMore, PostMore, Finish, vars,
           allVars

LEMMA ProcessKeeps == XInv /\ [XnodeNext]_allVars => XInv'
  <1> SUFFICES ASSUME XInv, [XnodeNext]_allVars PROVE XInv'
    OBVIOUS
  <1>1. TypeOK' /\ IInv'
    BY LifecycleStep, StepTyped, StepInvariant, CrashInvariant DEF XInv
  <1>2. StartupInv'
    BY StartupStep, StartupKeeps DEF XInv
  <1>3. QED BY <1>1, <1>2, EndKeeps DEF XInv

-----------------------------------------------------------------------------
(* The theorems *)

\* The startup alone: what has run and what has been said wherever main is.
THEOREM StartupInvariant == Startup!Safety => []StartupInv
  <1>1. StartupInv /\ [Startup!Next]_(Startup!vars) => StartupInv'
    BY StartupKeeps DEF startup, Startup!vars
  <1>2. QED BY <1>1, StartupBegins, PTL DEF Startup!Safety

\* The process runs its scripts as the startup says, whatever the workers of V8 do.
THEOREM ProcessStarts == XnodeSpec => Startup!Safety
  <1>1. XnodeInit => Startup!Init
    BY DEF XnodeInit
  <1>2. [XnodeNext]_allVars => [Startup!Next]_(Startup!vars)
    BY StartupStep DEF startup, Startup!vars
  <1>3. QED BY <1>1, <1>2, PTL DEF XnodeSpec, Startup!Safety

\* The inductive invariant of the process.
THEOREM ProcessInvariant == XnodeSpec => []XInv
  <1>1. QED BY ProcessBegins, ProcessKeeps, PTL DEF XnodeSpec

\* Every variable of the process keeps its type.
THEOREM ProcessTyped == XnodeSpec => []XnodeTypeOK
  <1>1. XInv => XnodeTypeOK
    BY DEF XInv, StartupInv, XnodeTypeOK
  <1>2. QED BY <1>1, ProcessInvariant, PTL

\* The file runs after the loaders, and where it lacks the console that was reported.
THEOREM ProcessOrder == XnodeSpec => []ScriptRunsLast
  <1>1. XInv => ScriptRunsLast
    BY DEF XInv, StartupInv, ScriptRunsLast
  <1>2. QED BY <1>1, ProcessInvariant, PTL

\* Every script that fails is reported once and by one of the two streams.
THEOREM ProcessReports == XnodeSpec => []FailuresReported
  <1>1. XInv => FailuresReported
    BY DEF XInv, StartupInv, FailuresReported
  <1>2. QED BY <1>1, ProcessInvariant, PTL

\* A file's process ends when main has returned and its platform has waited for the workers,
\* or in a crash whose last message says which file is missing, or because the loaders are
\* no function.
THEOREM ProcessEnd == XnodeSpec => []EndExplained
  <1>1. XInv => EndExplained
    BY DEF XInv, StartupInv, ScriptsInv, EndInv, EndExplained, At
  <1>2. QED BY <1>1, ProcessInvariant, PTL

\* A crash and the scripts of a file change nothing about what the shell releases, and when.
THEOREM ProcessReleases == XnodeSpec => ReleasedInOrder
  <1>1. XInv /\ [XnodeNext]_allVars =>
          [alive' # alive /\ "P2" \in alive =>
             /\ \A pair \in Needs : pair[2] \notin alive' => pair[1] \notin alive
             /\ "B" \notin alive' => entered = {"A"}
             /\ "V8" \notin alive' =>
                  \A t \in Tasks \ Shared : task[t] \in {"none", "done"}]_vars
    BY LifecycleStep, StepReleases DEF XInv, CrashEnds
  <1>2. QED BY <1>1, ProcessInvariant, PTL DEF XnodeSpec, ReleasedInOrder
-----------------------------------------------------------------------------
(* Nothing is run twice, and the end waits for nobody *)

\* The places of main, in the order of its code.
Places == <<"start", "console", "compile console", "loaders", "bootstrapper", "bootstrap",
            "script", "compile script">>

Onward ==
  \E j \in 1..8 :
    /\ step = Places[j]
    /\ step' \in Startup!Ended \/ \E k \in 1..8 : k > j /\ step' = Places[k]

\* Every step of the startup takes main to a later place, whatever the files are: it comes
\* to its end after at most eight of them, and compiles each script at most once.
THEOREM StartupOnward == Startup!Safety => [][Onward]_startup
  <1> DEFINE Follows ==
        \/ step = Places[1] /\ step' \in {"shell", Places[2]}
        \/ step = Places[2] /\ step' = Places[3]
        \/ step = Places[3] /\ step' \in {"crashed", Places[4]}
        \/ step = Places[4] /\ step' = Places[5]
        \/ step = Places[5] /\ step' \in {"crashed", "returned", "asserted", Places[6]}
        \/ step = Places[6] /\ step' \in {"returned", Places[7]}
        \/ step = Places[7] /\ step' = Places[8]
        \/ step = Places[8] /\ step' \in {"crashed", "returned"}
  <1>1. Startup!Next => Follows
    <2>1. /\ Places[1] = "start" /\ Places[2] = "console" /\ Places[3] = "compile console"
          /\ Places[4] = "loaders" /\ Places[5] = "bootstrapper" /\ Places[6] = "bootstrap"
          /\ Places[7] = "script" /\ Places[8] = "compile script"
      BY DEF Places
    <2> HIDE DEF Follows
    <2>2. Startup!StartShell \/ Startup!StartFile => Follows
      BY <2>1 DEF Follows, Startup!StartShell, Startup!StartFile
    <2>3. Startup!ReadConsole \/ Startup!ReadLoaders \/ Startup!ReadScript => Follows
      BY <2>1 DEF Follows, Startup!ReadConsole, Startup!ReadLoaders, Startup!ReadScript
    <2>4. Startup!CompileEmpty => Follows
      BY <2>1 DEF Follows, Startup!CompileEmpty
    <2>5. Startup!CompileConsole \/ Startup!CompileScript => Follows
      BY <2>1 DEF Follows, Startup!CompileConsole, Startup!CompileScript
    <2>6. Startup!NoBootstrapper \/ Startup!NotAFunction \/ Startup!GetBootstrapper => Follows
      BY <2>1 DEF Follows, Startup!NoBootstrapper, Startup!NotAFunction, Startup!GetBootstrapper
    <2>7. Startup!BootstrapThrows \/ Startup!ExecuteBootstrapper => Follows
      BY <2>1 DEF Follows, Startup!BootstrapThrows, Startup!ExecuteBootstrapper
    <2>8. QED
      BY <2>2, <2>3, <2>4, <2>5, <2>6, <2>7 DEF Startup!Next
  <1>2. Follows => Onward
    <2>1. {"shell", "crashed", "returned", "asserted"} \subseteq Startup!Ended
      BY DEF Startup!Ended
    <2>2. \A j \in 1..7 : j + 1 \in 1..8 /\ j + 1 > j /\ j \in 1..8
      OBVIOUS
    <2>3. ASSUME NEW j \in 1..8, step = Places[j],
                 step' \in Startup!Ended \/ (j < 8 /\ step' = Places[j + 1])
          PROVE  Onward
      BY <2>2, <2>3 DEF Onward
    <2>4. Follows => \E j \in 1..8 : /\ step = Places[j]
                                     /\ step' \in Startup!Ended \/ (j < 8 /\ step' = Places[j + 1])
      BY <2>1
    <2>5. QED BY <2>3, <2>4
  <1>3. [Startup!Next]_(Startup!vars) => [Onward]_startup
    BY <1>1, <1>2 DEF Startup!vars, startup
  <1>4. QED BY <1>3, PTL DEF Startup!Safety

LEMMA ProcessPosting == XInv /\ PostingInv /\ [XnodeNext]_allVars => PostingInv'
  <1>1. PostingInv /\ CrashEnds => PostingInv'
    BY DEF CrashEnds, PostingInv, At, Go
  <1>2. QED BY <1>1, LifecycleStep, StepPosting DEF XInv

\* What LifecycleUnblocked says holds of the process: from where ProcessEnds promises its
\* end no worker waits for the lock that main takes, though scripts run and crash before.
THEOREM ProcessUnblocked ==
  XnodeSpec => /\ [](EndsFrom => Unblocked)
               /\ [](Unblocked => \A t \in Tasks : task[t] # "posting")
               /\ [][StaysUnblocked]_allVars
  <1>1. XnodeInit => PostingInv
    BY InitPosting DEF XnodeInit
  <1>2. XnodeSpec => []PostingInv
    BY <1>1, ProcessPosting, ProcessInvariant, PTL DEF XnodeSpec
  <1>3. CrashEnds => StaysUnblocked
    BY DEF CrashEnds, StaysUnblocked, At, Go
  <1>4. XInv /\ PostingInv /\ [XnodeNext]_allVars => [StaysUnblocked]_allVars
    BY <1>3, LifecycleStep, StepUnblocked DEF XInv
  <1>5. QED
    BY <1>2, <1>4, UnblockedMeans, ProcessInvariant, PTL DEF XnodeSpec
=============================================================================
