------------------------------ MODULE Registry ------------------------------
(***************************************************************************)
(* The registry of native modules (src/xnode.cc): singly linked lists that *)
(* run through the modules themselves.  xnode_module_register puts a       *)
(* module in front of the list its flags select; FindModule walks a list   *)
(* until it meets the name.                                                *)
(***************************************************************************)
EXTENDS Integers

CONSTANTS
  Modules,  \* the native modules, each a static xnode_module
  Names,    \* the names they can have, and others that are looked up
  NameOf,   \* nm_modname of each module
  FlagsOf,  \* the nm_flags a module is compiled with
  Null      \* nullptr

Flags == {"builtin", "linked", "internal"}

ASSUME RegistryAssumption ==
  /\ NameOf \in [Modules -> Names]
  /\ FlagsOf \in [Modules -> SUBSET Flags]
  /\ Null \notin Modules
  /\ Null \notin Names

VARIABLES
  head,     \* modlist_builtin, modlist_internal, modlist_linked
  link,     \* nm_link of each module
  flags,    \* nm_flags of each module
  target,   \* the name FindModule looks for, Null while it is not running
  cursor,   \* mp in FindModule
  found,    \* what FindModule returned last
  stamp,    \* history: when a module was registered, 0 if it is not
  clock     \* history: how many registrations there have been

vars == <<head, link, flags, target, cursor, found, stamp, clock>>

Lists == {"builtin", "internal", "linked"}

TypeOK ==
  /\ head \in [Lists -> Modules \cup {Null}]
  /\ link \in [Modules -> Modules \cup {Null}]
  /\ flags \in [Modules -> SUBSET Flags]
  /\ target \in Names \cup {Null}
  /\ cursor \in Modules \cup {Null}
  /\ found \in Modules \cup {Null}
  /\ stamp \in [Modules -> Nat]
  /\ clock \in Nat

Init ==
  /\ head = [l \in Lists |-> Null]
  /\ link = [m \in Modules |-> Null]
  /\ flags = FlagsOf
  /\ target = Null
  /\ cursor = Null
  /\ found = Null
  /\ stamp = [m \in Modules |-> 0]
  /\ clock = 0

\* Mutant of ListOf: the test for builtin comes second.
InternalFirst(f) == IF "internal" \in f THEN "internal"
                    ELSE IF "builtin" \in f THEN "builtin" ELSE "linked"

\* The list that xnode_module_register selects; node_is_initialized is never set,
\* so that a module with neither flag counts as linked.
ListOf(f) == IF "builtin" \in f THEN "builtin"
             ELSE IF "internal" \in f THEN "internal" ELSE "linked"

\* Mutant of Register: the head of the list is set before the link is taken from it.
RegisterSwapped(m) ==
  /\ target = Null
  /\ LET l == ListOf(flags[m]) IN
       /\ head' = [head EXCEPT ![l] = m]
       /\ link' = [link EXCEPT ![m] = m]
       /\ flags' = IF l = "linked" THEN [flags EXCEPT ![m] = {"linked"}] ELSE flags
  /\ clock' = clock + 1
  /\ stamp' = [stamp EXCEPT ![m] = clock + 1]
  /\ UNCHANGED <<target, cursor, found>>

\* Mutant of Register: every module ends up with the linked flag.
RegisterAsLinked(m) ==
  /\ target = Null
  /\ LET l == ListOf(flags[m]) IN
       /\ link' = [link EXCEPT ![m] = head[l]]
       /\ head' = [head EXCEPT ![l] = m]
  /\ flags' = [flags EXCEPT ![m] = {"linked"}]
  /\ clock' = clock + 1
  /\ stamp' = [stamp EXCEPT ![m] = clock + 1]
  /\ UNCHANGED <<target, cursor, found>>

\* xnode_module_register: it puts the module in front, whether it is on a list or not.
Register(m) ==
  /\ target = Null
  /\ LET l == ListOf(flags[m]) IN
       /\ link' = [link EXCEPT ![m] = head[l]]
       /\ head' = [head EXCEPT ![l] = m]
       /\ flags' = IF l = "linked" THEN [flags EXCEPT ![m] = {"linked"}] ELSE flags
  /\ clock' = clock + 1
  /\ stamp' = [stamp EXCEPT ![m] = clock + 1]
  /\ UNCHANGED <<target, cursor, found>>

\* Its callers are the functions _register_<name>, one for each module, and each of them
\* is called once.
NotRegistered(m) == stamp[m] = 0
RegisterOnce(m) == NotRegistered(m) /\ Register(m)

\* get_builtin_module: FindModule starts at the head of the builtin list.
StartFind(n) ==
  /\ target = Null
  /\ target' = n
  /\ cursor' = head["builtin"]
  /\ UNCHANGED <<head, link, flags, found, stamp, clock>>

Matches == cursor # Null /\ NameOf[cursor] = target

\* Mutant of FindStep: the loop goes on from the head of the list.
FindStepFromHead ==
  /\ target # Null /\ cursor # Null /\ ~Matches
  /\ cursor' = link[head["builtin"]]
  /\ UNCHANGED <<head, link, flags, target, found, stamp, clock>>

\* The loop of FindModule.
FindStep ==
  /\ target # Null /\ cursor # Null /\ ~Matches
  /\ cursor' = link[cursor]
  /\ UNCHANGED <<head, link, flags, target, found, stamp, clock>>

\* Mutant of FindReturns: the module is left in the place of the name.
FindReturnsInTarget ==
  /\ target # Null /\ (cursor = Null \/ Matches)
  /\ found' = cursor
  /\ target' = cursor
  /\ UNCHANGED <<head, link, flags, cursor, stamp, clock>>

\* FindModule returns the module with the name, or nullptr.
FindReturns ==
  /\ target # Null /\ (cursor = Null \/ Matches)
  /\ found' = cursor
  /\ target' = Null
  /\ UNCHANGED <<head, link, flags, cursor, stamp, clock>>

Next ==
  \/ \E m \in Modules : RegisterOnce(m)
  \/ \E n \in Names : StartFind(n)
  \/ FindStep
  \/ FindReturns

Safety == Init /\ [][Next]_vars

\* FindModule is a loop that nothing interrupts.
Spec == Safety /\ WF_vars(FindStep \/ FindReturns)

-----------------------------------------------------------------------------
(* Properties *)

Members(l) == {m \in Modules : stamp[m] > 0 /\ ListOf(FlagsOf[m]) = l}

\* p is the member of S that was registered last; Null if S is empty.
IsNewest(p, S) == \/ p = Null /\ S = {}
                  \/ p \in S /\ \A q \in S : stamp[q] <= stamp[p]

\* Every list holds exactly the modules registered for it, the newest first: no
\* registration loses a module, puts it on two lists or closes a cycle.
ListOrder ==
  \A l \in Lists :
    /\ IsNewest(head[l], Members(l))
    /\ \A m \in Members(l) :
         IsNewest(link[m], {q \in Members(l) : stamp[q] < stamp[m]})

\* The CHECK at the end of FindModule: what the builtin list holds is builtin.
FoundIsBuiltin == found # Null => "builtin" \in flags[found]

\* Every lookup ends, after however many registrations.
LookupEnds == target # Null ~> target = Null

\* The module a name stands for: the newest builtin one with that name.
Named(n) == {m \in Modules :
               stamp[m] > 0 /\ "builtin" \in FlagsOf[m] /\ NameOf[m] = n}
Current(n) == IF Named(n) = {} THEN Null
              ELSE CHOOSE m \in Named(n) : IsNewest(m, Named(n))

Directory == INSTANCE ModuleDirectory WITH
  Builtin   <- {m \in Modules : "builtin" \in FlagsOf[m]},
  directory <- [n \in Names |-> Current(n)],
  request   <- target,
  answer    <- found

\* The lists implement the directory: a lookup answers with the newest builtin
\* module of the name, also where an older one has the same name, and with
\* nothing only if there is none.
ImplementsDirectory == Directory!Spec
=============================================================================
