------------------------------ MODULE Startup ------------------------------
(***************************************************************************)
(* main (src/xnode.cc): with an argument, the startup scripts of lib/ and  *)
(* then the file the argument names; without one, the shell.  The scripts  *)
(* of lib/ are looked for in the current directory, so that a file can be  *)
(* missing, be another file, or fail at any of the steps.                  *)
(***************************************************************************)
EXTENDS Naturals, Sequences

VARIABLES
  pc,        \* where main is
  argument,  \* what argv[1] is: "none", a "file", or the "option" -e
  console,   \* what lib/console.js is
  loaders,   \* what lib/bootstrap/loaders.js is
  script,    \* what the file that argv[1] names is
  source,    \* the source that was read last, or "empty"
  globals,   \* the names that the scripts of the context can use
  ran,       \* history: the scripts that were run to their end, in order
  stderr,    \* history: what was reported on stderr, in order
  stdout     \* history: what V8 itself reported, on stdout

vars == <<pc, argument, console, loaders, script, source, globals, ran, stderr,
          stdout>>
world == <<argument, console, loaders, script>>

\* What a file can be for its reader: not readable, not JavaScript, a script that
\* throws, or one that runs to its end.
Files == {"missing", "syntax", "throws", "runs"}

\* The loaders must also evaluate to a function, which can throw when it is called.
LoaderFiles == {"missing", "syntax", "throws", "value", "refuses", "function"}

Ended == {"returned", "crashed", "asserted", "shell"}

TypeOK ==
  /\ pc \in {"start", "console", "compile console", "loaders", "bootstrapper",
             "bootstrap", "script", "compile script"} \cup Ended
  /\ argument \in {"none", "file", "option"}
  /\ console \in Files /\ loaders \in LoaderFiles /\ script \in Files
  /\ source \in {"empty", "console", "loaders", "script"}
  /\ globals \subseteq {"print", "print_error", "console",
                        "read", "load", "quit", "version"}
  /\ ran \in Seq({"console", "loaders", "bootstrap", "script"})
  /\ stderr \in Seq({"no startup script", "no script", "exception"})
  /\ stdout \in Seq({"exception"})

Init ==
  /\ pc = "start"
  /\ argument \in {"none", "file", "option"}
  /\ console \in Files /\ loaders \in LoaderFiles
  /\ script \in (IF argument = "file" THEN Files ELSE {"missing"})
  /\ source = "empty" /\ globals = {}
  /\ ran = <<>> /\ stderr = <<>> /\ stdout = <<>>

\* The functions that the two contexts get before any script runs: CreateShellContext
\* and main write to templates of their own.
CreateShellContext == {"print", "read", "load", "quit", "version"}
FileGlobals == {"print", "print_error"}

\* main calls shell::init, which makes a context of its own.
StartShell ==
  /\ pc = "start" /\ argument = "none"
  /\ globals' = CreateShellContext
  /\ pc' = "shell"
  /\ UNCHANGED <<world, source, ran, stderr, stdout>>

\* The context of a file, and RegisterBuiltinModules.
StartFile ==
  /\ pc = "start" /\ argument # "none"
  /\ globals' = FileGlobals
  /\ pc' = "console"
  /\ UNCHANGED <<world, source, ran, stderr, stdout>>

\* ReadFile yields a source, or leaves the handle empty and main says so: it goes on.
Read(what, file, message) ==
  \/ file # "missing" /\ source' = what /\ UNCHANGED stderr
  \/ file = "missing" /\ source' = "empty" /\ stderr' = Append(stderr, message)

ReadConsole ==
  /\ pc = "console"
  /\ Read("console", console, "no startup script")
  /\ pc' = "compile console"
  /\ UNCHANGED <<world, globals, ran, stdout>>

\* V8 cannot compile an empty handle: it reads the length of a string that is not
\* there.
CompileEmpty ==
  /\ source = "empty"
  /\ pc \in {"compile console", "bootstrapper", "compile script"}
  /\ pc' = "crashed"
  /\ UNCHANGED <<world, source, globals, ran, stderr, stdout>>

\* Mutant of Compile: an exception is not reported.
CompileSilently(what, file) ==
  \/ file = "runs" /\ ran' = Append(ran, what) /\ UNCHANGED stderr
  \/ file \in {"syntax", "throws"} /\ UNCHANGED <<ran, stderr>>

\* compile: the script is compiled and run; parseException reports what it throws.
Compile(what, file) ==
  \/ file = "runs" /\ ran' = Append(ran, what) /\ UNCHANGED stderr
  \/ /\ file \in {"syntax", "throws"}
     /\ stderr' = Append(stderr, "exception")
     /\ UNCHANGED ran

\* Whatever console.js throws, main goes on.
CompileConsole ==
  /\ pc = "compile console" /\ source = "console"
  /\ Compile("console", console)
  /\ globals' = globals \cup (IF console = "runs" THEN {"console"} ELSE {})
  /\ pc' = "loaders"
  /\ UNCHANGED <<world, source, stdout>>

\* Mutant of ReadLoaders: a missing file is not reported.
ReadLoadersQuietly ==
  /\ pc = "loaders"
  /\ source' = IF loaders = "missing" THEN "empty" ELSE "loaders"
  /\ pc' = "bootstrapper"
  /\ UNCHANGED <<world, globals, ran, stderr, stdout>>

ReadLoaders ==
  /\ pc = "loaders"
  /\ Read("loaders", loaders, "no startup script")
  /\ pc' = "bootstrapper"
  /\ UNCHANGED <<world, globals, ran, stdout>>

\* Mutant of NoBootstrapper: main goes on to the file.
NoBootstrapperGoesOn ==
  /\ pc = "bootstrapper" /\ source = "loaders"
  /\ loaders \in {"syntax", "throws"}
  /\ stderr' = Append(stderr, "exception")
  /\ pc' = "script"
  /\ UNCHANGED <<world, source, globals, ran, stdout>>

\* GetBootstrapper: ExecuteString reports the exception and main returns.
NoBootstrapper ==
  /\ pc = "bootstrapper" /\ source = "loaders"
  /\ loaders \in {"syntax", "throws"}
  /\ stderr' = Append(stderr, "exception")
  /\ pc' = "returned"
  /\ UNCHANGED <<world, source, globals, ran, stdout>>

\* The CHECK of GetBootstrapper: what the loaders evaluate to must be a function.
NotAFunction ==
  /\ pc = "bootstrapper" /\ source = "loaders" /\ loaders = "value"
  /\ ran' = Append(ran, "loaders")
  /\ pc' = "asserted"
  /\ UNCHANGED <<world, source, globals, stderr, stdout>>

GetBootstrapper ==
  /\ pc = "bootstrapper" /\ source = "loaders"
  /\ loaders \in {"refuses", "function"}
  /\ ran' = Append(ran, "loaders")
  /\ pc' = "bootstrap"
  /\ UNCHANGED <<world, source, globals, stderr, stdout>>

\* ExecuteBootstrapper fails: no TryCatch is there, V8 reports and main returns.
BootstrapThrows ==
  /\ pc = "bootstrap" /\ loaders = "refuses"
  /\ stdout' = Append(stdout, "exception")
  /\ pc' = "returned"
  /\ UNCHANGED <<world, source, globals, ran, stderr>>

ExecuteBootstrapper ==
  /\ pc = "bootstrap" /\ loaders = "function"
  /\ ran' = Append(ran, "bootstrap")
  /\ pc' = "script"
  /\ UNCHANGED <<world, source, globals, stderr, stdout>>

ReadScript ==
  /\ pc = "script"
  /\ Read("script", script, "no script")
  /\ pc' = "compile script"
  /\ UNCHANGED <<world, globals, ran, stdout>>

\* Whatever the file throws, main returns 0.
CompileScript ==
  /\ pc = "compile script" /\ source = "script"
  /\ Compile("script", script)
  /\ pc' = "returned"
  /\ UNCHANGED <<world, source, globals, stdout>>

Next ==
  \/ StartShell \/ StartFile
  \/ ReadConsole \/ CompileEmpty \/ CompileConsole
  \/ ReadLoaders \/ NoBootstrapper \/ NotAFunction \/ GetBootstrapper
  \/ BootstrapThrows \/ ExecuteBootstrapper
  \/ ReadScript \/ CompileScript

Safety == Init /\ [][Next]_vars

-----------------------------------------------------------------------------
(* Properties *)

Did(what) == \E j \in DOMAIN ran : ran[j] = what

\* The file runs after the loaders were bootstrapped, and where it lacks the console
\* that was reported (main goes on after the one failure and not after the other).
ScriptRunsLast ==
  Did("script") => /\ Did("bootstrap")
                   /\ "console" \in globals <=> stderr = <<>>

\* Every script that fails is reported once and by one of the two streams, although
\* main returns 0 for all of them (parseException, and V8 where nobody catches).
FailuresReported ==
  pc = "returned" =>
    Len(stderr) + Len(stdout) = (IF Did("console") THEN 0 ELSE 1)
                                  + (IF Did("script") THEN 0 ELSE 1)

\* main crashes only after it has said which of the files is missing: the message
\* about argv[1] means that the loaders are up.
CrashExplained ==
  pc = "crashed" =>
    /\ stderr # <<>>
    /\ stderr[Len(stderr)] =
         IF Did("bootstrap") THEN "no script" ELSE "no startup script"

\* "# run js file $ xnode [js file path]" (README.md:23-24): a file that can be
\* read gets its turn.
FileRuns == pc = "crashed" => script = "missing"
=============================================================================
