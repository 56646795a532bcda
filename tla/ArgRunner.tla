----------------------------- MODULE ArgRunner -----------------------------
(***************************************************************************)
(* What the shell promises for a command line, with the interpreter left   *)
(* out: the arguments are consumed from left to right, one script at a     *)
(* time, until the first one that fails; a prompt may follow; the exit     *)
(* status says whether an argument failed, unless a script quits or the    *)
(* interpreter cannot be set up at all.  Shell implements this             *)
(* specification.                                                          *)
(***************************************************************************)
EXTENDS Integers

CONSTANT ExitCodes   \* the statuses with which a script may quit

VARIABLES
  count,      \* how many arguments the command line has
  consumed,   \* how many of them are dealt with
  running,    \* is a script given by an argument running?
  failed,     \* has an argument failed?
  mode,       \* "new", "args", "prompt" or "done"
  status      \* the exit status of the process, -1 while it is alive

vars == <<count, consumed, running, failed, mode, status>>

Init ==
  /\ count \in Nat
  /\ consumed = 0
  /\ running = FALSE
  /\ failed = FALSE
  /\ mode = "new"
  /\ status = -1

\* The interpreter is there: the arguments get their turns.
Begin ==
  /\ mode = "new"
  /\ mode' = "args"
  /\ UNCHANGED <<count, consumed, running, failed, status>>

\* There is no interpreter: the process ends with status 1 before any argument.
Refuse ==
  /\ mode = "new"
  /\ mode' = "done"
  /\ status' = 1
  /\ UNCHANGED <<count, consumed, running, failed>>

\* An argument needs a turn of its own: none is running and none has failed.
Idle == mode = "args" /\ ~running /\ ~failed /\ consumed < count

\* An argument that runs no code: a flag, or a file that cannot be read.
Skip ==
  /\ Idle
  /\ consumed' = consumed + 1
  /\ UNCHANGED <<count, running, failed, mode, status>>

\* A script starts.  An option (-e) and the source after it go together.
Start ==
  /\ Idle
  /\ \/ consumed' = consumed
     \/ consumed' = consumed + 1 /\ consumed' < count
  /\ running' = TRUE
  /\ UNCHANGED <<count, failed, mode, status>>

\* The running script ends; if it fails no later argument gets a turn.
Finish ==
  /\ mode = "args" /\ running
  /\ running' = FALSE
  /\ \/ /\ consumed' = consumed + 1
        /\ UNCHANGED <<failed, mode, status>>
     \/ /\ failed' = TRUE
        /\ mode' \in {"args", "prompt"}
        /\ UNCHANGED <<consumed, status>>
  /\ UNCHANGED count

\* An option whose source cannot be turned into a script fails at once.
Reject ==
  /\ Idle
  /\ consumed' = consumed + 1 /\ consumed' < count
  /\ failed' = TRUE
  /\ mode' \in {"args", "prompt"}
  /\ UNCHANGED <<count, running, status>>

\* All arguments have had their turn: the prompt opens.
Prompt ==
  /\ mode = "args" /\ ~running /\ ~failed /\ consumed = count
  /\ mode' = "prompt"
  /\ UNCHANGED <<count, consumed, running, failed, status>>

\* The normal end; the status tells whether an argument failed.
End ==
  /\ mode \in {"args", "prompt"} /\ ~running
  /\ failed \/ consumed = count
  /\ mode' = "done"
  /\ status' = IF failed THEN 1 ELSE 0
  /\ UNCHANGED <<count, consumed, running, failed>>

\* A script, or a line at the prompt, ends the process.
Quit ==
  /\ (mode = "args" /\ running) \/ mode = "prompt"
  /\ mode' = "done"
  /\ status' \in ExitCodes
  /\ UNCHANGED <<count, consumed, running, failed>>

Next == Begin \/ Refuse \/ Skip \/ Start \/ Finish \/ Reject \/ Prompt \/ End \/ Quit

Safety == Init /\ [][Next]_vars

Spec == Safety /\ <>(mode = "done")
=============================================================================
