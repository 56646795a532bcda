------------------------------ MODULE Loaders ------------------------------
(***************************************************************************)
(* The module loaders (lib/bootstrap/loaders.js) on top of the registry of *)
(* native modules: process.binding, which makes the exports of a builtin   *)
(* module at its first use (GetBinding and InitModule of src/xnode.cc),    *)
(* and NativeModule.require, which loads a module from its source.         *)
(* The registry takes the steps of module Registry; JavaScript is          *)
(* single-threaded, and a call of GetBinding spans the steps of its lookup.*)
(***************************************************************************)
EXTENDS Integers, Sequences, FiniteSets

CONSTANTS
  Modules, Names, NameOf, FlagsOf, Null,  \* as in Registry
  Builtins,    \* NODE_BUILTIN_MODULES, in their order
  NativesName, \* "natives"
  Ids,         \* the ids of native JavaScript modules
  LoaderId,    \* 'bootstrap/loaders', which is one of them
  MaxCalls     \* bound: calls of process.binding for each name, and how often each id
               \* is loaded

\* No builtin module is called "natives" and no two are of one name
\* (src/xnode_binding.cc:33-48).
ASSUME LoadersAssumption ==
  /\ Builtins \in Seq({m \in Modules : "builtin" \in FlagsOf[m]})
  /\ \A j, k \in DOMAIN Builtins :
       NameOf[Builtins[j]] = NameOf[Builtins[k]] => j = k
  /\ \A j \in DOMAIN Builtins : NameOf[Builtins[j]] # NativesName
  /\ NativesName \in Names
  /\ LoaderId \in Ids
  /\ MaxCalls \in Nat

VARIABLES
  head, link, flags, target, cursor, found, stamp, clock,  \* of Registry
  pc,          \* what the JavaScript thread does
  made,        \* the objects made so far, each with what it was made for
  bindingObj,  \* bindingObj: the object of each name, None if undefined
  loadList,    \* process.moduleLoadList
  source,      \* the ids that NativeModule._source has
  cache,       \* NativeModule._cache: the exports of each id
  loaded,      \* the ids whose module in the cache is loaded
  calls,       \* history: calls of process.binding for each name
  bound,       \* history: what process.binding has returned for each name
  required     \* history: what require has returned for each id

registry == <<head, link, flags, target, cursor, found, stamp, clock>>
native == <<source, cache, loaded, required>>
vars == <<registry, pc, made, bindingObj, loadList, native, calls, bound>>

Registry == INSTANCE Registry

\* What Registry assumes of its constants; and names, ids and modules tell apart the
\* objects that are made for them.
ASSUME RegistryAssumption ==
  /\ NameOf \in [Modules -> Names]
  /\ FlagsOf \in [Modules -> SUBSET Registry!Flags]
  /\ Null \notin Modules \cup Names
ASSUME KindsAssumption ==
  /\ NativesName \notin Modules
  /\ Ids \cap (Modules \cup {NativesName}) = {}

\* Objects are numbered as they are made; 0 stands for undefined, or for the
\* error of a require that throws.
None == 0

Entry(kind, name) == [kind |-> kind, name |-> name]
Entries(e) == Cardinality({j \in DOMAIN loadList : loadList[j] = e})

TypeOK ==
  /\ Registry!TypeOK
  /\ pc \in {"register", "natives", "ready", "binding"}
  /\ made \in Seq(Modules \cup {NativesName} \cup Ids)
  /\ bindingObj \in [Names -> {None} \cup DOMAIN made]
  /\ loadList \in Seq([kind : {"Binding"}, name : Names]
                        \cup [kind : {"NativeModule"}, name : Ids])
  /\ source \in SUBSET Ids
  /\ cache \in [Ids -> {None} \cup DOMAIN made]
  /\ loaded \in SUBSET Ids
  /\ calls \in [Names -> 0..MaxCalls]
  /\ bound \in [Names -> SUBSET ({None} \cup DOMAIN made)]
  /\ required \in [Ids -> SUBSET ({None} \cup DOMAIN made)]

Init ==
  /\ Registry!Init
  /\ pc = "register"
  /\ made = <<>>
  /\ bindingObj = [n \in Names |-> None]
  /\ loadList = <<>>
  /\ source = {}
  /\ cache = [d \in Ids |-> None]
  /\ loaded = {}
  /\ calls = [n \in Names |-> 0]
  /\ bound = [n \in Names |-> {}]
  /\ required = [d \in Ids |-> {}]

-----------------------------------------------------------------------------
(* Bootstrap *)

\* RegisterBuiltinModules calls every _register_ function, in the order of the list.
RegisterBuiltinModule ==
  /\ pc = "register" /\ clock < Len(Builtins)
  /\ Registry!Register(Builtins[clock + 1])
  /\ UNCHANGED <<pc, made, bindingObj, loadList, native, calls, bound>>

\* Mutant of BootstrapLoaders: the loaders run before the modules are registered.
BootstrapEarly ==
  /\ pc = "register"
  /\ Registry!StartFind(NativesName)
  /\ pc' = "natives"
  /\ UNCHANGED <<made, bindingObj, loadList, native, calls, bound>>

\* bootstrapLoaders runs as far as getBinding("natives").
BootstrapLoaders ==
  /\ pc = "register" /\ clock = Len(Builtins)
  /\ Registry!StartFind(NativesName)
  /\ pc' = "natives"
  /\ UNCHANGED <<made, bindingObj, loadList, native, calls, bound>>

\* FindModule, on behalf of GetBinding.
Lookup ==
  /\ Registry!FindStep
  /\ UNCHANGED <<pc, made, bindingObj, loadList, native, calls, bound>>

\* The objects GetBinding makes: exports for the module that FindModule returns,
\* filled in by its nm_context_register_func, and a plain object for "natives".  The
\* CHECKs of InitModule hold of every module: XNODE_MODULE_CONTEXT_AWARE_CPP, which
\* defines them, gives each a nm_context_register_func and no nm_register.
GetBinding(mod, name) ==
  (IF mod # Null THEN <<mod>> ELSE <<>>)
    \o (IF name = NativesName THEN <<NativesName>> ELSE <<>>)

\* getBinding("natives") returns, and bootstrapLoaders comes to its end.
SourceBound ==
  /\ pc = "natives"
  /\ Registry!FindReturns
  /\ made' = made \o GetBinding(cursor, target) \o <<LoaderId>>
  /\ pc' = "ready"
  /\ UNCHANGED <<bindingObj, loadList, native, calls, bound>>

\* loaderExports, which bootstrapLoaders made last.
LoaderExports == CHOOSE j \in DOMAIN made : made[j] = LoaderId

-----------------------------------------------------------------------------
(* process.binding *)

\* The binding is an object already, which is returned.
BindingCached(n) ==
  /\ pc = "ready" /\ calls[n] < MaxCalls
  /\ bindingObj[n] # None
  /\ calls' = [calls EXCEPT ![n] = @ + 1]
  /\ bound' = [bound EXCEPT ![n] = @ \cup {bindingObj[n]}]
  /\ UNCHANGED <<registry, pc, made, bindingObj, loadList, native>>

\* Mutant of BindingMissing: GetBinding is called for a binding that exists.
BindingMissingAlways(n) ==
  /\ pc = "ready" /\ calls[n] < MaxCalls
  /\ Registry!StartFind(n)
  /\ pc' = "binding"
  /\ calls' = [calls EXCEPT ![n] = @ + 1]
  /\ UNCHANGED <<made, bindingObj, loadList, native, bound>>

\* It is not, and GetBinding is called.
BindingMissing(n) ==
  /\ pc = "ready" /\ calls[n] < MaxCalls
  /\ bindingObj[n] = None
  /\ Registry!StartFind(n)
  /\ pc' = "binding"
  /\ calls' = [calls EXCEPT ![n] = @ + 1]
  /\ UNCHANGED <<made, bindingObj, loadList, native, bound>>

\* Mutant of BindingMade: what GetBinding returns is not kept.
BindingForgotten ==
  /\ pc = "binding"
  /\ Registry!FindReturns
  /\ made' = made \o GetBinding(cursor, target)
  /\ LET mod == IF made' = made THEN None ELSE Len(made') IN
       bound' = [bound EXCEPT ![target] = @ \cup {mod}]
  /\ loadList' = Append(loadList, Entry("Binding", target))
  /\ pc' = "ready"
  /\ UNCHANGED <<bindingObj, native, calls>>

\* Mutant of BindingMade: the native module itself is returned.
BindingWithoutExports ==
  /\ pc = "binding"
  /\ Registry!FindReturns
  /\ made' = made \o GetBinding(cursor, target)
  /\ LET mod == IF made' = made THEN None ELSE cursor IN
       /\ bindingObj' = [bindingObj EXCEPT ![target] = mod]
       /\ bound' = [bound EXCEPT ![target] = @ \cup {mod}]
  /\ loadList' = Append(loadList, Entry("Binding", target))
  /\ pc' = "ready"
  /\ UNCHANGED <<native, calls>>

\* GetBinding returns: what it returns is kept, returned and put on the load list,
\* undefined as well.
BindingMade ==
  /\ pc = "binding"
  /\ Registry!FindReturns
  /\ made' = made \o GetBinding(cursor, target)
  /\ LET mod == IF made' = made THEN None ELSE Len(made') IN
       /\ bindingObj' = [bindingObj EXCEPT ![target] = mod]
       /\ bound' = [bound EXCEPT ![target] = @ \cup {mod}]
  /\ loadList' = Append(loadList, Entry("Binding", target))
  /\ pc' = "ready"
  /\ UNCHANGED <<native, calls>>

-----------------------------------------------------------------------------
(* NativeModule *)

\* A source is put into NativeModule._source: GetBinding leaves "natives" empty,
\* and nothing in the repository fills it in.
AddSource(d) ==
  /\ pc = "ready" /\ d \notin source
  /\ source' = source \cup {d}
  /\ UNCHANGED <<registry, pc, made, bindingObj, loadList, cache, loaded, required,
                 calls, bound>>

\* require of the loaders themselves.
RequireLoader ==
  /\ pc = "ready"
  /\ required' = [required EXCEPT ![LoaderId] = @ \cup {LoaderExports}]
  /\ UNCHANGED <<registry, pc, made, bindingObj, loadList, source, cache, loaded,
                 calls, bound>>

\* Mutant of RequireCached: that the module is in the cache is enough.
RequireCachedUnloaded(d) ==
  /\ pc = "ready" /\ d # LoaderId /\ cache[d] # None
  /\ required' = [required EXCEPT ![d] = @ \cup {cache[d]}]
  /\ UNCHANGED <<registry, pc, made, bindingObj, loadList, source, cache, loaded,
                 calls, bound>>

\* The module in the cache is loaded: its exports are returned.  (None is loading:
\* what compile does while it is runs no JavaScript.)
RequireCached(d) ==
  /\ pc = "ready" /\ d # LoaderId /\ d \in loaded
  /\ required' = [required EXCEPT ![d] = @ \cup {cache[d]}]
  /\ UNCHANGED <<registry, pc, made, bindingObj, loadList, source, cache, loaded,
                 calls, bound>>

\* Mutant of RequireUnknown: the load list is written first.
RequireUnknownLogged(d) ==
  /\ pc = "ready" /\ d # LoaderId /\ d \notin loaded
  /\ d \notin source /\ None \notin required[d]
  /\ required' = [required EXCEPT ![d] = @ \cup {None}]
  /\ loadList' = Append(loadList, Entry("NativeModule", d))
  /\ UNCHANGED <<registry, pc, made, bindingObj, source, cache, loaded, calls, bound>>

\* A module without a source: require throws.
RequireUnknown(d) ==
  /\ pc = "ready" /\ d # LoaderId /\ d \notin loaded
  /\ d \notin source
  /\ required' = [required EXCEPT ![d] = @ \cup {None}]
  /\ UNCHANGED <<registry, pc, made, bindingObj, loadList, source, cache, loaded,
                 calls, bound>>

\* A module with a source that is not loaded is put on the load list, made, and cached,
\* also where an earlier one of the same id is in the cache.
Cache(d) ==
  /\ pc = "ready" /\ d # LoaderId /\ d \notin loaded
  /\ d \in source /\ Entries(Entry("NativeModule", d)) < MaxCalls
  /\ loadList' = Append(loadList, Entry("NativeModule", d))
  /\ made' = Append(made, d)
  /\ cache' = [cache EXCEPT ![d] = Len(made')]
  /\ UNCHANGED <<registry, pc, bindingObj, source, calls, bound>>

\* It is compiled: its source, a string, is wrapped and it is marked as loaded.
RequireSource(d) ==
  /\ Cache(d)
  /\ loaded' = loaded \cup {d}
  /\ required' = [required EXCEPT ![d] = @ \cup {Len(made')}]

\* Its source cannot be wrapped, being too long with the wrapper: compile throws before
\* the try, and the module stays in the cache as it is.
CompileFails(d) ==
  /\ Cache(d)
  /\ required' = [required EXCEPT ![d] = @ \cup {None}]
  /\ UNCHANGED loaded

Next ==
  \/ RegisterBuiltinModule \/ BootstrapLoaders \/ Lookup \/ SourceBound
  \/ \E n \in Names : BindingCached(n) \/ BindingMissing(n)
  \/ BindingMade
  \/ \E d \in Ids : \/ AddSource(d) \/ RequireCached(d)
                    \/ RequireUnknown(d) \/ RequireSource(d) \/ CompileFails(d)
  \/ RequireLoader

Safety == Init /\ [][Next]_vars

\* The thread goes on with what it has begun; nobody need call anything.
Spec ==
  /\ Safety
  /\ WF_vars(RegisterBuiltinModule \/ BootstrapLoaders \/ Lookup \/ SourceBound
               \/ BindingMade)

-----------------------------------------------------------------------------
(* Properties *)

\* process.binding returns the same for a name for ever: one object, made once and
\* for no other name, or always undefined.  nm_context_register_func of a module
\* runs at most once.
BindingIsShared ==
  /\ \A n \in Names : \A x, y \in bound[n] : x = y
  /\ \A n, k \in Names : n # k => bound[n] \cap bound[k] \subseteq {None}
  /\ \A j, k \in DOMAIN made :
       made[j] = made[k] /\ made[j] \in Modules => j = k

\* A name is bound to the module of that name, if there is one: the registry is
\* complete before anybody can ask it.
BindingIsModule ==
  \A n \in Names : \A x \in bound[n] :
    IF \E k \in DOMAIN Builtins : NameOf[Builtins[k]] = n
    THEN x # None /\ made[x] \in Modules /\ NameOf[made[x]] = n
    ELSE x = None \/ (n = NativesName /\ made[x] = NativesName)

\* process.moduleLoadList has one entry for every binding that is loaded, and one for
\* every call for a name that is unknown; and one for every native module that is made,
\* loaded or not, and none for the calls of require that make none.
Made(d) == Cardinality({j \in DOMAIN made : made[j] = d})

LoadListExact ==
  /\ \A n \in Names :
       Entries(Entry("Binding", n)) =
         IF bindingObj[n] # None THEN 1
         ELSE IF pc = "binding" /\ target = n THEN calls[n] - 1 ELSE calls[n]
  /\ \A d \in Ids \ {LoaderId} : Entries(Entry("NativeModule", d)) = Made(d)
  /\ Entries(Entry("NativeModule", LoaderId)) = 0

\* require returns the same exports for ever once it has returned some, those of no
\* other id; they are those of a module that was compiled to its end, never of one that
\* a failed attempt has left in the cache.  For the loader's own id it never throws.
RequireIsShared ==
  /\ \A d \in Ids : \A x, y \in required[d] \ {None} : x = y /\ made[x] = d
  /\ \A d \in Ids : required[d] \subseteq {None} <=> d \notin loaded /\
                      (d = LoaderId => required[d] = {})

\* process.binding is a table that is filled at first use: no later call, and nothing
\* that happens during the lookup, makes a second object or takes one back.
KnownNames == {NameOf[Builtins[k]] : k \in DOMAIN Builtins} \cup {NativesName}
Table == INSTANCE BindingTable WITH Known <- KnownNames, table <- bindingObj, given <- bound
ImplementsTable == Table!TableSpec

\* Bootstrap comes to its end and every call of process.binding returns.
CallsReturn == pc # "ready" ~> pc = "ready"
=============================================================================
