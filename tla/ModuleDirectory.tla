-------------------------- MODULE ModuleDirectory --------------------------
(***************************************************************************)
(* What the registry of native modules promises: a lookup answers with the *)
(* builtin module that was registered last under the name, or with nothing *)
(* if there is none.  Registry implements this specification.              *)
(***************************************************************************)
CONSTANTS
  Modules,  \* the native modules
  Names,    \* the names they can have
  Builtin,  \* the modules that are registered as builtin
  NameOf,   \* the name of each module
  Null      \* no module

VARIABLES
  directory, \* the module that each name stands for
  request,   \* the name looked up, Null between lookups
  answer     \* the module the last lookup returned

vars == <<directory, request, answer>>

Init ==
  /\ directory = [n \in Names |-> Null]
  /\ request = Null
  /\ answer = Null

Add ==
  /\ request = Null
  /\ \E m \in Builtin : directory' = [directory EXCEPT ![NameOf[m]] = m]
  /\ UNCHANGED <<request, answer>>

Ask ==
  /\ request = Null
  /\ request' \in Names
  /\ UNCHANGED <<directory, answer>>

Reply ==
  /\ request \in Names
  /\ answer' = directory[request]
  /\ request' = Null
  /\ UNCHANGED directory

Next == Add \/ Ask \/ Reply

Safety == Init /\ [][Next]_vars

\* Every lookup is answered.
Spec == Safety /\ [](request # Null => <>(request = Null))
=============================================================================
