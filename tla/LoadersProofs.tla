--------------------------- MODULE LoadersProofs ---------------------------
(* The loaders on top of the registry, for every list of builtin modules,   *)
(* every set of names and ids and any number of calls.  What the registry   *)
(* does is taken from the theorems about it.                                *)
EXTENDS Loaders, SequenceTheorems, FiniteSetTheorems, TLAPS

Facts == INSTANCE RegistryProofs

BuiltinNames == {NameOf[Builtins[k]] : k \in DOMAIN Builtins}

\* The builtin modules are registered in the order of their list, and before the
\* loaders run.
RegisteredInv ==
  /\ clock <= Len(Builtins)
  /\ pc # "register" => clock = Len(Builtins)
  /\ \A m \in Modules :
       stamp[m] > 0 <=> \E k \in DOMAIN Builtins : k <= clock /\ m = Builtins[k]

\* A lookup is under way exactly within a call of GetBinding, for a name that is not
\* bound yet.
PhaseInv ==
  /\ target = Null <=> pc \in {"register", "ready"}
  /\ pc = "natives" => target = NativesName
  /\ pc = "binding" => bindingObj[target] = None /\ calls[target] > 0
  /\ pc \in {"register", "natives"} => made = <<>>

\* x is what an object for the name n is made for.
Stands(n, x) == IF n \in BuiltinNames THEN x \in Modules /\ NameOf[x] = n
                                      ELSE n = NativesName /\ x = NativesName

\* A name is bound to an object of its own, and a module has no other object.
ObjectsInv ==
  /\ \A n \in Names : bindingObj[n] # None => Stands(n, made[bindingObj[n]])
  /\ \A j \in DOMAIN made : made[j] \in Modules => bindingObj[NameOf[made[j]]] = j

\* What was returned for a name is what it is bound to, undefined only for a name that
\* nobody knows; a known name that is not bound was not asked for before.
BoundInv ==
  /\ \A n \in Names : /\ bound[n] \subseteq {bindingObj[n]}
                      /\ None \in bound[n] => n \notin KnownNames
  /\ \A n \in KnownNames : bindingObj[n] = None =>
       calls[n] = IF pc = "binding" /\ target = n THEN 1 ELSE 0

\* A cached module is what was made for its id; it was returned where it is loaded, and
\* nothing else was.
NativeInv ==
  /\ \A d \in Ids : cache[d] # None => d # LoaderId /\ made[cache[d]] = d
  /\ \A d \in loaded : cache[d] # None /\ cache[d] \in required[d]
  /\ \A d \in Ids : \A x \in required[d] \ {None} :
       made[x] = d /\ (d # LoaderId => d \in loaded /\ x = cache[d])
  /\ None \notin required[LoaderId]

\* bootstrapLoaders makes its exports once.
LoaderInv ==
  /\ \A j, k \in DOMAIN made : made[j] = LoaderId /\ made[k] = LoaderId => j = k
  /\ pc \in {"ready", "binding"} => \E j \in DOMAIN made : made[j] = LoaderId

IInv ==
  /\ Facts!IInv /\ TypeOK
  /\ RegisteredInv /\ PhaseInv /\ ObjectsInv /\ BoundInv /\ NativeInv /\ LoaderInv
  /\ LoadListExact

-----------------------------------------------------------------------------
(* Sequences and what they count *)

\* A longer sequence has what the shorter one had, and one more.
LEMMA Appended ==
  ASSUME NEW S, NEW s \in Seq(S), NEW x \in S
  PROVE  /\ Append(s, x) \in Seq(S) /\ Len(s) \in Nat /\ DOMAIN s = 1..Len(s)
         /\ DOMAIN Append(s, x) = 1..(Len(s) + 1) /\ Len(Append(s, x)) = Len(s) + 1
         /\ \A k \in 1..Len(s) : Append(s, x)[k] = s[k]
         /\ Append(s, x)[Len(s) + 1] = x
  OBVIOUS

Count(s, e) == Cardinality({j \in DOMAIN s : s[j] = e})

\* What is appended is counted once more, and nothing else is.
LEMMA CountAppended ==
  ASSUME NEW S, NEW s \in Seq(S), NEW x \in S, NEW e
  PROVE  /\ Count(s, e) \in Nat
         /\ Count(Append(s, x), e) = Count(s, e) + IF x = e THEN 1 ELSE 0
  <1>1. PICK n \in Nat : /\ n = Len(s) /\ DOMAIN s = 1..n
                         /\ DOMAIN Append(s, x) = 1..(n + 1)
                         /\ \A k \in 1..n : Append(s, x)[k] = s[k]
                         /\ Append(s, x)[n + 1] = x
    BY Appended
  <1> DEFINE old == {j \in 1..n : s[j] = e}
             new == {j \in 1..(n + 1) : Append(s, x)[j] = e}
  <1>2. IsFiniteSet(old)
    <2>1. IsFiniteSet(1..n)
      BY FS_Interval
    <2>2. QED BY <2>1, FS_Subset
  <1>3. Cardinality(old) \in Nat
    BY <1>2, FS_CardinalityType
  <1>4. n + 1 \notin old
    OBVIOUS
  <1>5. new = IF x = e THEN old \cup {n + 1} ELSE old
    <2>1. 1..(n + 1) = 1..n \cup {n + 1}
      OBVIOUS
    <2>2. QED BY <1>1, <2>1
  <1>6. Count(s, e) = Cardinality(old) /\ Count(Append(s, x), e) = Cardinality(new)
    BY <1>1 DEF Count
  <1> HIDE DEF old, new
  <1>7. CASE x = e
    <2>1. Cardinality(old \cup {n + 1}) = Cardinality(old) + 1
      BY <1>2, <1>4, FS_AddElement
    <2>2. QED BY <1>3, <1>5, <1>6, <1>7, <2>1
  <1>8. CASE x # e
    BY <1>3, <1>5, <1>6, <1>8
  <1>9. QED BY <1>7, <1>8

\* The empty list counts nothing.
LEMMA CountEmpty == \A e : Count(<<>>, e) = 0
  <1>1. ASSUME NEW e PROVE {j \in DOMAIN <<>> : <<>>[j] = e} = {}
    OBVIOUS
  <1>2. QED BY <1>1, FS_EmptySet DEF Count

\* Entries of two kinds or two names differ.
LEMMA EntriesDiffer ==
  /\ \A n, k : Entry("Binding", n) = Entry("Binding", k) <=> n = k
  /\ \A n, k : Entry("NativeModule", n) = Entry("NativeModule", k) <=> n = k
  /\ \A n, k : Entry("NativeModule", n) # Entry("Binding", k)
  BY DEF Entry

\* An object that is not made for an id changes none of their numbers; one that is, only
\* its own.
LEMMA MadeAppended ==
  ASSUME TypeOK, NEW x \in Modules \cup {NativesName} \cup Ids, made' = Append(made, x)
  PROVE  \A d \in Ids : /\ Made(d) \in Nat
                         /\ Made(d)' = Made(d) + IF x = d THEN 1 ELSE 0
  <1> DEFINE S == Modules \cup {NativesName} \cup Ids
  <1>1. made \in Seq(S) /\ x \in S
    BY DEF TypeOK
  <1> HIDE DEF S
  <1>2. ASSUME NEW d
        PROVE  /\ Count(made, d) \in Nat
               /\ Count(Append(made, x), d) = Count(made, d) + IF x = d THEN 1 ELSE 0
    BY <1>1, CountAppended
  <1>3. QED BY <1>2 DEF Made, Count

-----------------------------------------------------------------------------
(* The registry *)

\* The loaders meet what the registry assumes.
LEMMA RegistryMet == Facts!RegistryAssumption
  BY RegistryAssumption DEF Facts!RegistryAssumption, Facts!Flags, Registry!Flags

LEMMA SameTypes == Registry!TypeOK <=> Facts!TypeOK
  BY DEF Registry!TypeOK, Facts!TypeOK, Registry!Lists, Facts!Lists, Registry!Flags,
         Facts!Flags

\* A step of the loaders takes a step of the registry or none.
LEMMA RegistryStep ==
  ASSUME IInv, [Next]_vars
  PROVE  [Facts!Next]_(Facts!vars)
  <1>1. CASE RegisterBuiltinModule
    <2>1. clock \in Nat /\ Len(Builtins) \in Nat
      BY LoadersAssumption DEF IInv, Facts!IInv, Facts!TypeOK
    <2>2. clock + 1 \in DOMAIN Builtins
      BY <1>1, <2>1, LoadersAssumption DEF RegisterBuiltinModule
    <2>3. Builtins[clock + 1] \in Modules
      BY <2>2, LoadersAssumption
    <2>4. Facts!Register(Builtins[clock + 1])
      BY <1>1 DEF RegisterBuiltinModule, Registry!Register, Facts!Register, Registry!ListOf,
                  Facts!ListOf
    <2>5. ASSUME NEW k \in DOMAIN Builtins, k <= clock
          PROVE  Builtins[k] # Builtins[clock + 1]
      BY <2>1, <2>2, <2>5, LoadersAssumption
    <2>6. stamp[Builtins[clock + 1]] = 0
      BY <2>3, <2>5 DEF IInv, RegisteredInv, Facts!IInv, Facts!TypeOK
    <2>7. QED BY <2>3, <2>4, <2>6 DEF Facts!Next, Facts!RegisterOnce, Facts!NotRegistered
  <1>2. ASSUME NEW n \in Names, Registry!StartFind(n) PROVE Facts!Next
    BY <1>2 DEF Registry!StartFind, Facts!StartFind, Facts!Next
  <1>3. CASE Registry!FindStep
    BY <1>3 DEF Registry!FindStep, Facts!FindStep, Registry!Matches, Facts!Matches, Facts!Next
  <1>4. CASE Registry!FindReturns
    BY <1>4 DEF Registry!FindReturns, Facts!FindReturns, Registry!Matches, Facts!Matches,
                Facts!Next
  <1>5. CASE UNCHANGED registry
    BY <1>5 DEF registry, Facts!vars
  <1>6. QED
    BY <1>1, <1>2, <1>3, <1>4, <1>5, LoadersAssumption
       DEF Next, BootstrapLoaders, Lookup, SourceBound, BindingCached, BindingMissing,
           BindingMade, AddSource, RequireCached, RequireUnknown, RequireSource,
           CompileFails, Cache, RequireLoader, vars

\* So it keeps the invariant of the registry.
LEMMA RegistryKeeps ==
  ASSUME IInv, [Next]_vars
  PROVE  Facts!IInv' /\ Registry!TypeOK'
  <1>1. Facts!IInv'
    BY RegistryStep, RegistryMet, Facts!NextIInv DEF IInv
  <1>2. (Registry!TypeOK <=> Facts!TypeOK)'
    BY SameTypes, PTL
  <1>3. QED BY <1>1, <1>2 DEF Facts!IInv

\* A lookup that ends has found the builtin module of the name, if there is one.
LEMMA LookupFinds ==
  ASSUME IInv, Registry!FindReturns
  PROVE  /\ target \in Names
         /\ IF target \in BuiltinNames THEN cursor \in Modules /\ NameOf[cursor] = target
                                       ELSE cursor = Null
  <1>1. target # Null /\ target \in Names /\ (cursor = Null \/ NameOf[cursor] = target)
    BY DEF Registry!FindReturns, Registry!Matches, IInv, Facts!IInv, Facts!TypeOK
  <1>2. clock = Len(Builtins)
    BY <1>1, RegistryAssumption DEF IInv, PhaseInv, RegisteredInv, TypeOK
  <1>3. Facts!Members("builtin") = {Builtins[k] : k \in DOMAIN Builtins}
    <2>1. \A k \in DOMAIN Builtins : /\ Builtins[k] \in Modules /\ k <= Len(Builtins)
                                     /\ "builtin" \in FlagsOf[Builtins[k]]
      BY LoadersAssumption
    <2>2. \A m \in Modules : stamp[m] > 0 <=> \E k \in DOMAIN Builtins : m = Builtins[k]
      BY <1>2, <2>1 DEF IInv, RegisteredInv
    <2>3. QED BY <2>1, <2>2 DEF Facts!Members, Facts!ListOf
  <1>4. CASE cursor = Null
    <2>1. \A k \in DOMAIN Builtins : NameOf[Builtins[k]] # target
      BY <1>1, <1>3, <1>4 DEF IInv, Facts!IInv, Facts!SearchInv
    <2>2. QED BY <1>1, <1>4, <2>1 DEF BuiltinNames
  <1>5. CASE cursor # Null
    <2>1. cursor \in Facts!Members("builtin")
      BY <1>1, <1>5 DEF IInv, Facts!IInv, Facts!SearchInv
    <2>2. target \in BuiltinNames /\ cursor \in Modules
      BY <1>1, <1>3, <1>5, <2>1 DEF BuiltinNames, Facts!Members
    <2>3. QED BY <1>1, <1>5, <2>2
  <1>6. QED BY <1>4, <1>5

-----------------------------------------------------------------------------
(* What the parts of the invariant depend on *)

Tables == <<made, bindingObj, loadList, native, bound>>

\* A step of the lookup or of the bootstrap leaves what the loaders have made alone.
LEMMA TablesKeep ==
  ASSUME IInv, UNCHANGED Tables
  PROVE  ObjectsInv' /\ NativeInv'
         /\ \A e : Entries(e)' = Entries(e) /\ Made(e)' = Made(e)
  <1> USE DEF IInv, Tables, native
  <1>1. ObjectsInv'
    BY DEF ObjectsInv, Stands, BuiltinNames
  <1>2. NativeInv'
    BY DEF NativeInv
  <1>3. QED BY <1>1, <1>2 DEF Entries, Made

LEMMA InitInvariant == Init => IInv
  <1> SUFFICES ASSUME Init PROVE IInv
    OBVIOUS
  <1>1. Facts!Init
    BY DEF Init, Registry!Init, Facts!Init, Registry!Lists, Facts!Lists
  <1>2. Facts!IInv /\ Registry!TypeOK
    BY <1>1, RegistryMet, Facts!InitIInv, SameTypes DEF Facts!IInv
  <1>3. TypeOK
    <2>1. made \in Seq(Modules \cup {NativesName} \cup Ids)
      BY DEF Init
    <2>2. loadList \in Seq([kind : {"Binding"}, name : Names]
                             \cup [kind : {"NativeModule"}, name : Ids])
      BY DEF Init
    <2>3. 0 \in 0..MaxCalls
      BY LoadersAssumption
    <2>4. QED BY <1>2, <2>1, <2>2, <2>3 DEF Init, TypeOK
  <1>4. RegisteredInv
    <2>1. clock = 0 /\ Len(Builtins) \in Nat /\ \A m \in Modules : stamp[m] = 0
      BY LoadersAssumption DEF Init, Registry!Init
    <2>2. \A k \in DOMAIN Builtins : ~(k <= 0)
      BY LoadersAssumption
    <2>3. QED BY <2>1, <2>2 DEF Init, RegisteredInv
  <1>5. PhaseInv /\ ObjectsInv /\ NativeInv /\ LoaderInv
    BY LoadersAssumption
       DEF Init, Registry!Init, PhaseInv, ObjectsInv, NativeInv, LoaderInv, None
  <1>6. BoundInv
    <2>1. KnownNames \subseteq Names
      BY LoadersAssumption, RegistryAssumption DEF KnownNames
    <2>2. QED BY <2>1 DEF Init, BoundInv
  <1>7. LoadListExact
    <2>1. \A e : Entries(e) = 0 /\ Made(e) = 0
      BY CountEmpty DEF Init, Entries, Made, Count
    <2>2. QED BY <2>1 DEF Init, LoadListExact
  <1>8. QED
    BY <1>2, <1>3, <1>4, <1>5, <1>6, <1>7 DEF IInv

LEMMA KnownAreNames == BuiltinNames \subseteq Names /\ KnownNames = BuiltinNames \cup {NativesName}
                       /\ KnownNames \subseteq Names /\ NativesName \notin BuiltinNames
  BY LoadersAssumption, RegistryAssumption DEF KnownNames, BuiltinNames

-----------------------------------------------------------------------------
(* The steps *)

\* A module is registered.
LEMMA RegisterInvariant == ASSUME IInv, RegisterBuiltinModule PROVE IInv'
  <1> USE DEF IInv
  <1>1. Facts!IInv' /\ Registry!TypeOK'
    BY RegistryKeeps DEF Next
  <1>2. UNCHANGED <<pc, made, bindingObj, loadList, native, calls, bound>>
        /\ target' = target /\ pc = "register"
    BY DEF RegisterBuiltinModule, Registry!Register
  <1>3. TypeOK'
    BY <1>1, <1>2 DEF TypeOK, native
  <1>4. ObjectsInv' /\ NativeInv' /\ \A e : Entries(e)' = Entries(e) /\ Made(e)' = Made(e)
    BY <1>2, TablesKeep DEF Tables
  <1>5. PhaseInv' /\ BoundInv' /\ LoaderInv'
    BY <1>2 DEF PhaseInv, BoundInv, LoaderInv, KnownNames
  <1>8. LoadListExact'
    BY <1>2, <1>4 DEF LoadListExact, native
  <1>6. RegisteredInv'
    <2>1. PICK n \in Nat : n = clock /\ n < Len(Builtins) /\ Len(Builtins) \in Nat
      BY LoadersAssumption DEF RegisterBuiltinModule, Facts!IInv, Facts!TypeOK
    <2>2. n + 1 \in DOMAIN Builtins /\ Builtins[n + 1] \in Modules
      BY <2>1, LoadersAssumption
    <2>3. clock' = n + 1 /\ stamp' = [stamp EXCEPT ![Builtins[n + 1]] = n + 1]
      BY <2>1 DEF RegisterBuiltinModule, Registry!Register
    <2>4. stamp \in [Modules -> Nat]
      BY DEF Facts!IInv, Facts!TypeOK
    <2>5. ASSUME NEW m \in Modules
          PROVE stamp'[m] > 0 <=> \E k \in DOMAIN Builtins : k <= n + 1 /\ m = Builtins[k]
      <3>1. CASE m = Builtins[n + 1]
        BY <2>2, <2>3, <2>4, <3>1
      <3>2. CASE m # Builtins[n + 1]
        <4>1. stamp'[m] = stamp[m]
          BY <2>2, <2>3, <2>4, <3>2
        <4>2. \A k \in DOMAIN Builtins : m = Builtins[k] => (k <= n + 1 <=> k <= n)
          BY <2>1, <3>2, LoadersAssumption
        <4>3. QED BY <2>1, <4>1, <4>2 DEF RegisteredInv
      <3>3. QED BY <3>1, <3>2
    <2>6. QED BY <1>2, <2>1, <2>3, <2>5 DEF RegisteredInv
  <1>7. QED BY <1>1, <1>3, <1>4, <1>5, <1>6, <1>8

\* The loaders start, or a lookup goes one module further.
LEMMA LookupInvariant == ASSUME IInv, BootstrapLoaders \/ Lookup PROVE IInv'
  <1> USE DEF IInv
  <1>1. Facts!IInv' /\ Registry!TypeOK'
    BY RegistryKeeps DEF Next
  <1>2. UNCHANGED <<made, bindingObj, loadList, native, calls, bound>>
        /\ clock' = clock /\ stamp' = stamp
    BY DEF BootstrapLoaders, Lookup, Registry!StartFind, Registry!FindStep
  <1>3. \/ pc = "register" /\ pc' = "natives" /\ target' = NativesName
           /\ clock = Len(Builtins)
        \/ pc' = pc /\ target' = target
    BY DEF BootstrapLoaders, Lookup, Registry!StartFind, Registry!FindStep
  <1>4. TypeOK'
    BY <1>1, <1>2, <1>3 DEF TypeOK, native
  <1>5. ObjectsInv' /\ NativeInv' /\ \A e : Entries(e)' = Entries(e) /\ Made(e)' = Made(e)
    BY <1>2, TablesKeep DEF Tables
  <1>6. PhaseInv'
    BY <1>2, <1>3, LoadersAssumption, RegistryAssumption DEF PhaseInv
  <1>7. BoundInv' /\ LoaderInv' /\ RegisteredInv'
    BY <1>2, <1>3 DEF BoundInv, LoaderInv, RegisteredInv, KnownNames
  <1>8. LoadListExact'
    BY <1>2, <1>3, <1>5 DEF LoadListExact, native
  <1>9. QED BY <1>1, <1>4, <1>5, <1>6, <1>7, <1>8

\* bootstrapLoaders has its (empty) natives and makes what it exports.
LEMMA SourceInvariant == ASSUME IInv, SourceBound PROVE IInv'
  <1> USE DEF IInv
  <1>1. Facts!IInv' /\ Registry!TypeOK'
    BY RegistryKeeps DEF Next
  <1>2. /\ UNCHANGED <<bindingObj, loadList, native, calls, bound>>
        /\ clock' = clock /\ stamp' = stamp /\ target' = Null
        /\ pc = "natives" /\ pc' = "ready" /\ target = NativesName /\ made = <<>>
    BY DEF SourceBound, Registry!FindReturns, PhaseInv
  <1>3. cursor = Null
    BY <1>2, LookupFinds, KnownAreNames DEF SourceBound
  <1>4. /\ made' \in Seq(Modules \cup {NativesName} \cup Ids) /\ Len(made') = 2
        /\ made'[1] = NativesName /\ made'[2] = LoaderId
    <2>1. GetBinding(cursor, target) = <<>> \o <<NativesName>>
      BY <1>2, <1>3 DEF GetBinding
    <2>2. /\ <<>> \in Seq(Modules \cup {NativesName} \cup Ids)
          /\ <<NativesName>> \in Seq(Modules \cup {NativesName} \cup Ids)
          /\ <<LoaderId>> \in Seq(Modules \cup {NativesName} \cup Ids)
      BY LoadersAssumption
    <2>3. GetBinding(cursor, target) = <<NativesName>>
      BY <2>1, <2>2, ConcatEmptySeq
    <2>4. made' = (<<>> \o <<NativesName>>) \o <<LoaderId>>
      BY <1>2, <2>3 DEF SourceBound
    <2>5. <<>> \o <<NativesName>> = <<NativesName>>
      BY <2>2, ConcatEmptySeq
    <2>6. made' = <<NativesName>> \o <<LoaderId>>
      BY <2>4, <2>5
    <2>7. QED BY <2>2, <2>6
  <1>5. \A n \in Names : bindingObj[n] = None
    BY <1>2 DEF TypeOK
  <1>6. \A d \in Ids : cache[d] = None /\ required[d] \subseteq {None}
    BY <1>2 DEF TypeOK
  <1>7. DOMAIN made' = {1, 2} /\ made'[1] = NativesName /\ made'[2] = LoaderId
    BY <1>4
  <1>8. TypeOK'
    BY <1>1, <1>2, <1>4, <1>5, <1>6 DEF TypeOK, native
  <1>9. ObjectsInv' /\ NativeInv'
    BY <1>2, <1>5, <1>6, <1>7, KindsAssumption, LoadersAssumption
       DEF ObjectsInv, NativeInv, native
  <1>10. LoaderInv' /\ PhaseInv' /\ RegisteredInv'
    BY <1>2, <1>7, KindsAssumption, LoadersAssumption DEF LoaderInv, PhaseInv, RegisteredInv
  <1>11. BoundInv' /\ LoadListExact'
    <2>1. BoundInv'
      BY <1>2 DEF BoundInv, KnownNames
    <2>2. ASSUME NEW d \in Ids \ {LoaderId} PROVE Made(d) = 0 /\ Made(d)' = 0
      <3>1. {j \in DOMAIN made : made[j] = d} = {}
        BY <1>2
      <3>2. {j \in DOMAIN made' : made'[j] = d} = {}
        BY <1>7, KindsAssumption
      <3>3. QED BY <3>1, <3>2, FS_EmptySet DEF Made
    <2>4. LoadListExact'
      BY <1>2, <2>2 DEF LoadListExact, native, Entries
    <2>3. QED BY <2>1, <2>4
  <1>12. QED BY <1>1, <1>8, <1>9, <1>10, <1>11

\* A binding that exists is returned, or one that does not is looked up.
LEMMA CallInvariant ==
  ASSUME IInv, NEW n \in Names, BindingCached(n) \/ BindingMissing(n)
  PROVE  IInv'
  <1> USE DEF IInv
  <1>1. Facts!IInv' /\ Registry!TypeOK'
    BY RegistryKeeps DEF Next
  <1>2. /\ UNCHANGED <<made, bindingObj, loadList, native>>
        /\ clock' = clock /\ stamp' = stamp /\ pc = "ready" /\ target = Null
        /\ calls[n] < MaxCalls /\ calls' = [calls EXCEPT ![n] = @ + 1]
        /\ n # Null
    BY RegistryAssumption
       DEF BindingCached, BindingMissing, Registry!StartFind, registry, PhaseInv
  <1>3. calls \in [Names -> 0..MaxCalls] /\ MaxCalls \in Nat
        /\ bound \in [Names -> SUBSET ({None} \cup DOMAIN made)]
        /\ bindingObj \in [Names -> {None} \cup DOMAIN made]
    BY LoadersAssumption DEF TypeOK
  <1>4. calls' \in [Names -> 0..MaxCalls] /\ calls'[n] = calls[n] + 1
        /\ \A k \in Names : k # n => calls'[k] = calls[k]
    <2>1. calls[n] + 1 \in 0..MaxCalls
      BY <1>2, <1>3
    <2>2. QED BY <1>2, <1>3, <2>1
  <1>5. ObjectsInv' /\ NativeInv'
        /\ \A e : Entries(e)' = Entries(e) /\ Made(e)' = Made(e)
    <2>1. ObjectsInv'
      BY <1>2 DEF ObjectsInv, Stands, BuiltinNames
    <2>2. NativeInv'
      BY <1>2 DEF NativeInv, native
    <2>3. QED BY <1>2, <2>1, <2>2 DEF Entries, Made
  <1>6. CASE BindingCached(n)
    <2>1. /\ bindingObj[n] # None /\ target' = target /\ pc' = pc
          /\ bound' = [bound EXCEPT ![n] = @ \cup {bindingObj[n]}]
      BY <1>6 DEF BindingCached, registry
    <2>2. TypeOK'
      BY <1>1, <1>2, <1>3, <1>4, <2>1 DEF TypeOK, native
    <2>3. BoundInv'
      BY <1>2, <1>3, <1>4, <2>1, KnownAreNames DEF BoundInv, KnownNames
    <2>4. LoadListExact'
      <3>1. ASSUME NEW k \in Names
            PROVE  Entries(Entry("Binding", k))' = IF bindingObj[k] # None THEN 1 ELSE calls'[k]
        <4>1. Entries(Entry("Binding", k)) = IF bindingObj[k] # None THEN 1 ELSE calls[k]
          BY <1>2 DEF LoadListExact
        <4>2. QED BY <1>4, <1>5, <2>1, <4>1
      <3>2. QED BY <1>2, <1>5, <2>1, <3>1 DEF LoadListExact, native
    <2>5. PhaseInv' /\ RegisteredInv' /\ LoaderInv'
      BY <1>2, <2>1 DEF PhaseInv, RegisteredInv, LoaderInv
    <2>6. QED BY <1>1, <1>5, <2>2, <2>3, <2>4, <2>5
  <1>7. CASE BindingMissing(n)
    <2>1. bindingObj[n] = None /\ target' = n /\ pc' = "binding" /\ bound' = bound
      BY <1>7 DEF BindingMissing, Registry!StartFind
    <2>2. TypeOK'
      BY <1>1, <1>2, <1>3, <1>4, <2>1 DEF TypeOK, native
    <2>3. BoundInv'
      BY <1>2, <1>3, <1>4, <2>1, KnownAreNames DEF BoundInv, KnownNames
    <2>4. LoadListExact'
      <3>1. ASSUME NEW k \in Names
            PROVE Entries(Entry("Binding", k))' =
                    IF bindingObj'[k] # None THEN 1
                    ELSE IF pc' = "binding" /\ target' = k THEN calls'[k] - 1 ELSE calls'[k]
        <4>1. Entries(Entry("Binding", k)) = IF bindingObj[k] # None THEN 1 ELSE calls[k]
          BY <1>2 DEF LoadListExact
        <4>2. calls[k] \in Nat
          BY <1>3
        <4>3. QED BY <1>2, <1>4, <1>5, <2>1, <4>1, <4>2
      <3>2. QED BY <1>2, <1>5, <3>1 DEF LoadListExact, native
    <2>5. PhaseInv' /\ RegisteredInv' /\ LoaderInv'
      BY <1>2, <1>3, <1>4, <2>1 DEF PhaseInv, RegisteredInv, LoaderInv
    <2>6. QED BY <1>1, <1>5, <2>2, <2>3, <2>4, <2>5
  <1>8. QED BY <1>6, <1>7

\* GetBinding makes one object for a known name, and none for another one.
LEMMA BindingEffect ==
  ASSUME IInv, BindingMade
  PROVE  /\ target \in Names
         /\ target \notin KnownNames => made' = made
         /\ target \in KnownNames =>
              \E x \in Modules \cup {NativesName} : Stands(target, x) /\ made' = Append(made, x)
  <1> DEFINE Kinds == Modules \cup {NativesName} \cup Ids
  <1>1. /\ target \in Names
        /\ IF target \in BuiltinNames THEN cursor \in Modules /\ NameOf[cursor] = target
                                      ELSE cursor = Null
    BY LookupFinds DEF BindingMade
  <1>2. made' = made \o GetBinding(cursor, target) /\ made \in Seq(Kinds)
        /\ <<>> \in Seq(Kinds) /\ <<NativesName>> \in Seq(Kinds)
    BY DEF BindingMade, IInv, TypeOK
  <1>3. CASE target \in BuiltinNames
    <2>1. cursor # Null /\ target # NativesName /\ target \in KnownNames
      BY <1>1, <1>3, KnownAreNames, RegistryAssumption
    <2>2. GetBinding(cursor, target) = <<cursor>> \o <<>> /\ <<cursor>> \in Seq(Kinds)
      BY <1>1, <1>3, <2>1 DEF GetBinding
    <2>3. GetBinding(cursor, target) = <<cursor>>
      BY <2>2, ConcatEmptySeq
    <2>4. made' = Append(made, cursor)
      BY <1>1, <1>2, <1>3, <2>2, <2>3, AppendIsConcat
    <2>5. QED BY <1>1, <1>3, <2>1, <2>4 DEF Stands
  <1>4. CASE target = NativesName
    <2>1. cursor = Null /\ target \notin BuiltinNames /\ target \in KnownNames
      BY <1>1, <1>4, KnownAreNames
    <2>2. GetBinding(cursor, target) = <<>> \o <<NativesName>>
      BY <1>4, <2>1 DEF GetBinding
    <2>3. GetBinding(cursor, target) = <<NativesName>>
      BY <1>2, <2>2, ConcatEmptySeq
    <2>4. made' = Append(made, NativesName)
      BY <1>2, <2>3, AppendIsConcat
    <2>5. QED BY <1>1, <1>4, <2>1, <2>4 DEF Stands
  <1>5. CASE target \notin KnownNames
    <2>1. cursor = Null /\ target # NativesName
      BY <1>1, <1>5, KnownAreNames
    <2>2. GetBinding(cursor, target) = <<>> \o <<>>
      BY <2>1 DEF GetBinding
    <2>3. GetBinding(cursor, target) = <<>>
      BY <1>2, <2>2, ConcatEmptySeq
    <2>4. made' = made
      BY <1>2, <2>3, ConcatEmptySeq
    <2>5. QED BY <1>1, <1>5, <2>4
  <1>6. QED BY <1>3, <1>4, <1>5, KnownAreNames

\* GetBinding returns: one entry of the load list, and an object that is the newest.
LEMMA MadeInvariant == ASSUME IInv, BindingMade PROVE IInv'
  <1> USE DEF IInv
  <1>1. Facts!IInv' /\ Registry!TypeOK'
    BY RegistryKeeps DEF Next
  <1>2. PICK n \in Names :
          /\ n = target /\ n # Null /\ pc = "binding" /\ pc' = "ready" /\ target' = Null
          /\ bindingObj[n] = None /\ calls[n] > 0
          /\ loadList' = Append(loadList, Entry("Binding", n))
          /\ UNCHANGED <<native, calls>> /\ clock' = clock /\ stamp' = stamp
    BY BindingEffect, RegistryAssumption DEF BindingMade, Registry!FindReturns, PhaseInv
  <1>3. /\ made \in Seq(Modules \cup {NativesName} \cup Ids)
        /\ bindingObj \in [Names -> {None} \cup DOMAIN made]
        /\ bound \in [Names -> SUBSET ({None} \cup DOMAIN made)]
        /\ cache \in [Ids -> {None} \cup DOMAIN made]
        /\ required \in [Ids -> SUBSET ({None} \cup DOMAIN made)]
        /\ calls \in [Names -> 0..MaxCalls] /\ MaxCalls \in Nat
        /\ source \in SUBSET Ids /\ loaded \in SUBSET Ids
    BY LoadersAssumption DEF TypeOK
  <1>4. PhaseInv' /\ RegisteredInv'
    BY <1>2 DEF PhaseInv, RegisteredInv
  <1>5. /\ loadList' \in Seq([kind : {"Binding"}, name : Names]
                               \cup [kind : {"NativeModule"}, name : Ids])
        /\ \A e : /\ Entries(e) \in Nat
                  /\ Entries(e)' = Entries(e) + IF Entry("Binding", n) = e THEN 1 ELSE 0
    <2> DEFINE S == [kind : {"Binding"}, name : Names]
                      \cup [kind : {"NativeModule"}, name : Ids]
    <2>1. loadList \in Seq(S) /\ Entry("Binding", n) \in S
      BY DEF TypeOK, Entry
    <2> HIDE DEF S
    <2>2. ASSUME NEW e
          PROVE  /\ Count(loadList, e) \in Nat
                 /\ Count(loadList', e)
                      = Count(loadList, e) + IF Entry("Binding", n) = e THEN 1 ELSE 0
      BY <1>2, <2>1, CountAppended
    <2>3. loadList' \in Seq(S)
      BY <1>2, <2>1, Appended
    <2>4. QED BY <2>2, <2>3 DEF S, Entries, Count
  <1>6. CASE n \notin KnownNames
    <2>1. made' = made
      BY <1>2, <1>6, BindingEffect
    <2>2. /\ bindingObj' = [bindingObj EXCEPT ![n] = None]
          /\ bound' = [bound EXCEPT ![n] = @ \cup {None}]
      BY <1>2, <2>1 DEF BindingMade
    <2>3. bindingObj' = bindingObj
      BY <1>2, <1>3, <2>2
    <2>4. TypeOK'
      BY <1>1, <1>2, <1>3, <1>5, <2>1, <2>2, <2>3 DEF TypeOK, native
    <2>5. ObjectsInv' /\ NativeInv' /\ LoaderInv'
      BY <1>2, <2>1, <2>3 DEF ObjectsInv, Stands, BuiltinNames, NativeInv, LoaderInv, native
    <2>6. BoundInv'
      BY <1>2, <1>3, <1>6, <2>2, <2>3 DEF BoundInv, KnownNames
    <2>7. LoadListExact'
      <3>1. ASSUME NEW k \in Names
            PROVE  Entries(Entry("Binding", k))' = IF bindingObj'[k] # None THEN 1 ELSE calls'[k]
        <4>1. Entries(Entry("Binding", k)) =
                IF bindingObj[k] # None THEN 1 ELSE IF n = k THEN calls[k] - 1 ELSE calls[k]
          BY <1>2 DEF LoadListExact
        <4>2. Entries(Entry("Binding", k))' =
                Entries(Entry("Binding", k)) + IF n = k THEN 1 ELSE 0
          BY <1>5, EntriesDiffer
        <4>3. calls[k] \in Nat /\ calls'[k] = calls[k] /\ Entries(Entry("Binding", k)) \in Nat
          BY <1>2, <1>3, <1>5
        <4>4. QED BY <1>2, <2>3, <4>1, <4>2, <4>3
      <3>2. ASSUME NEW d \in Ids
            PROVE  Entries(Entry("NativeModule", d))' = IF d = LoaderId THEN 0 ELSE Made(d)'
        <4>1. Entries(Entry("NativeModule", d))' = Entries(Entry("NativeModule", d))
          BY <1>5, EntriesDiffer
        <4>2. Made(d)' = Made(d)
          BY <2>1 DEF Made
        <4>3. QED BY <4>1, <4>2 DEF LoadListExact
      <3>3. QED BY <1>2, <3>1, <3>2, LoadersAssumption DEF LoadListExact
    <2>8. QED BY <1>1, <1>4, <2>4, <2>5, <2>6, <2>7
  <1>7. CASE n \in KnownNames
    <2>1. PICK x \in Modules \cup {NativesName} : Stands(n, x) /\ made' = Append(made, x)
      BY <1>2, <1>7, BindingEffect
    <2>2. PICK j \in Nat \ {0} :
            /\ j = Len(made') /\ DOMAIN made' = 1..j /\ DOMAIN made = 1..(j - 1)
            /\ made' \in Seq(Modules \cup {NativesName} \cup Ids) /\ made'[j] = x
            /\ \A k \in 1..(j - 1) : made'[k] = made[k]
      <3>1. /\ made' \in Seq(Modules \cup {NativesName} \cup Ids)
            /\ Len(made) \in Nat /\ DOMAIN made = 1..Len(made)
            /\ DOMAIN made' = 1..(Len(made) + 1) /\ Len(made') = Len(made) + 1
            /\ \A k \in 1..Len(made) : made'[k] = made[k]
            /\ made'[Len(made) + 1] = x
        BY <1>3, <2>1, Appended
      <3>2. (Len(made) + 1) - 1 = Len(made) /\ Len(made) + 1 \in Nat \ {0}
        BY <3>1
      <3>3. QED BY <3>1, <3>2
    <2>3. j \in DOMAIN made' /\ j \notin DOMAIN made /\ DOMAIN made \subseteq DOMAIN made'
          /\ j # None /\ None \notin DOMAIN made /\ None \notin DOMAIN made'
      BY <2>2 DEF None
    <2>4. made' # made
      BY <2>3
    <2>5. /\ bindingObj' = [bindingObj EXCEPT ![n] = j]
          /\ bound' = [bound EXCEPT ![n] = @ \cup {j}]
      BY <1>2, <2>2, <2>4 DEF BindingMade
    <2>6. \A k \in DOMAIN made : made'[k] = made[k]
      BY <2>2
    <2>7. bound[n] = {}
      BY <1>2, <1>3, <1>7 DEF BoundInv
    <2>8. TypeOK'
      BY <1>1, <1>2, <1>3, <1>5, <2>2, <2>3, <2>5 DEF TypeOK, native
    <2>9. ObjectsInv'
      <3>1. ASSUME NEW k \in Names, bindingObj'[k] # None
            PROVE  Stands(k, made'[bindingObj'[k]])
        <4>1. CASE k = n
          BY <1>3, <2>1, <2>2, <2>5, <4>1
        <4>2. CASE k # n
          BY <1>3, <2>5, <2>6, <3>1, <4>2 DEF ObjectsInv
        <4>3. QED BY <4>1, <4>2
      <3>2. ASSUME NEW k \in DOMAIN made', made'[k] \in Modules
            PROVE  bindingObj'[NameOf[made'[k]]] = k
        <4>1. CASE k = j
          <5>1. x \in Modules /\ NameOf[x] = n
            BY <2>1, <2>2, <3>2, <4>1, KindsAssumption DEF Stands
          <5>2. QED BY <1>3, <2>2, <2>5, <4>1, <5>1
        <4>2. CASE k # j
          <5>1. k \in DOMAIN made /\ made'[k] = made[k]
            BY <2>2, <4>2
          <5>2. bindingObj[NameOf[made[k]]] = k /\ k # None /\ NameOf[made[k]] \in Names
            BY <2>3, <3>2, <5>1, RegistryAssumption DEF ObjectsInv
          <5>3. NameOf[made[k]] # n
            BY <1>2, <5>2
          <5>4. QED BY <1>3, <2>5, <5>1, <5>2, <5>3
        <4>3. QED BY <4>1, <4>2
      <3>3. QED BY <3>1, <3>2 DEF ObjectsInv, Stands, BuiltinNames
    <2>10. NativeInv'
      BY <1>2, <1>3, <2>6 DEF NativeInv, native
    <2>11. LoaderInv'
      <3>1. x # LoaderId
        BY KindsAssumption, LoadersAssumption
      <3>2. \A k \in DOMAIN made' : made'[k] = LoaderId => k \in DOMAIN made
        BY <2>2, <3>1
      <3>3. QED BY <1>2, <2>3, <2>6, <3>2 DEF LoaderInv
    <2>12. BoundInv'
      <3>1. ASSUME NEW k \in Names
            PROVE  bound'[k] \subseteq {bindingObj'[k]} /\ (None \in bound'[k] => k \notin KnownNames)
        BY <1>2, <1>3, <2>3, <2>5, <2>7, <3>1 DEF BoundInv
      <3>2. ASSUME NEW k \in KnownNames, bindingObj'[k] = None
            PROVE  calls'[k] = 0
        <4>1. k \in Names /\ k # n /\ bindingObj[k] = None
          BY <1>3, <2>3, <2>5, <3>2, KnownAreNames
        <4>2. QED BY <1>2, <4>1 DEF BoundInv
      <3>3. QED BY <1>2, <3>1, <3>2 DEF BoundInv, KnownNames
    <2>13. LoadListExact'
      <3>1. calls[n] = 1
        BY <1>2, <1>7 DEF BoundInv
      <3>2. ASSUME NEW k \in Names
            PROVE  Entries(Entry("Binding", k))' = IF bindingObj'[k] # None THEN 1 ELSE calls'[k]
        <4>1. Entries(Entry("Binding", k)) =
                IF bindingObj[k] # None THEN 1 ELSE IF n = k THEN calls[k] - 1 ELSE calls[k]
          BY <1>2 DEF LoadListExact
        <4>2. Entries(Entry("Binding", k))' =
                Entries(Entry("Binding", k)) + IF n = k THEN 1 ELSE 0
          BY <1>5, EntriesDiffer
        <4>3. calls[k] \in Nat /\ calls'[k] = calls[k] /\ Entries(Entry("Binding", k)) \in Nat
          BY <1>2, <1>3, <1>5
        <4>4. bindingObj'[k] = IF k = n THEN j ELSE bindingObj[k]
          BY <1>3, <2>5
        <4>5. QED BY <1>2, <2>3, <3>1, <4>1, <4>2, <4>3, <4>4
      <3>3. ASSUME NEW d \in Ids
            PROVE  Entries(Entry("NativeModule", d))' = IF d = LoaderId THEN 0 ELSE Made(d)'
        <4>1. Entries(Entry("NativeModule", d))' = Entries(Entry("NativeModule", d))
          BY <1>5, EntriesDiffer
        <4>2. Made(d)' = Made(d)
          BY <2>1, MadeAppended, KindsAssumption
        <4>3. QED BY <4>1, <4>2 DEF LoadListExact
      <3>4. QED BY <1>2, <3>2, <3>3, LoadersAssumption DEF LoadListExact
    <2>14. QED BY <1>1, <1>4, <2>8, <2>9, <2>10, <2>11, <2>12, <2>13
  <1>8. QED BY <1>6, <1>7

\* A source is added, or require answers from what is there.
LEMMA RequireInvariant ==
  ASSUME IInv, \/ RequireLoader
               \/ \E d \in Ids : AddSource(d) \/ RequireCached(d) \/ RequireUnknown(d)
  PROVE  IInv'
  <1> USE DEF IInv
  <1>1. Facts!IInv' /\ Registry!TypeOK'
    BY RegistryKeeps DEF Next
  <1>2. /\ UNCHANGED <<registry, pc, made, bindingObj, loadList, cache, loaded, calls,
                    bound>>
        /\ pc = "ready" /\ source' \in SUBSET Ids
    BY DEF RequireLoader, AddSource, RequireCached, RequireUnknown, TypeOK
  <1>3. /\ cache \in [Ids -> {None} \cup DOMAIN made]
        /\ required \in [Ids -> SUBSET ({None} \cup DOMAIN made)]
        /\ None \notin DOMAIN made
    BY DEF TypeOK, None
  <1>4. PICK d \in Ids, x \in {None} \cup DOMAIN made :
          /\ required' = [required EXCEPT ![d] = @ \cup {x}] \/ required' = required
          /\ x # None => made[x] = d /\ (d # LoaderId => d \in loaded /\ x = cache[d])
          /\ x = None => d # LoaderId
    <2>1. CASE RequireLoader
      <3>1. \E j \in DOMAIN made : made[j] = LoaderId
        BY <1>2 DEF LoaderInv
      <3>2. LoaderExports \in DOMAIN made /\ made[LoaderExports] = LoaderId
        BY <3>1 DEF LoaderExports
      <3>3. required' = [required EXCEPT ![LoaderId] = @ \cup {LoaderExports}]
        BY <2>1 DEF RequireLoader
      <3>4. QED BY <1>3, <3>2, <3>3, LoadersAssumption
    <2>2. ASSUME NEW d \in Ids, AddSource(d) \/ RequireCached(d) \/ RequireUnknown(d)
          PROVE  \E x \in {None} \cup DOMAIN made :
                   /\ required' = [required EXCEPT ![d] = @ \cup {x}] \/ required' = required
                   /\ x # None => made[x] = d /\ (d # LoaderId => d \in loaded /\ x = cache[d])
                   /\ x = None => d # LoaderId
      <3>1. CASE AddSource(d)
        <4>1. PICK j \in DOMAIN made : made[j] = LoaderId
          BY <1>2 DEF LoaderInv
        <4>2. CASE d = LoaderId
          BY <1>3, <3>1, <4>1, <4>2 DEF AddSource
        <4>3. CASE d # LoaderId
          BY <3>1, <4>3 DEF AddSource
        <4>4. QED BY <4>2, <4>3
      <3>2. CASE RequireCached(d)
        BY <1>3, <3>2 DEF RequireCached, NativeInv
      <3>3. CASE RequireUnknown(d)
        BY <3>3 DEF RequireUnknown
      <3>4. QED BY <2>2, <3>1, <3>2, <3>3
    <2>3. QED BY <2>1, <2>2
  <1>5. TypeOK'
    <2>1. required' \in [Ids -> SUBSET ({None} \cup DOMAIN made)]
      BY <1>3, <1>4
    <2>2. QED BY <1>1, <1>2, <2>1 DEF TypeOK
  <1>6. NativeInv'
    <2>1. ASSUME NEW e \in Ids
          PROVE  /\ required[e] \subseteq required'[e]
                 /\ required'[e] \subseteq required[e] \cup {x}
                 /\ e # d => required'[e] = required[e]
      BY <1>3, <1>4
    <2>2. ASSUME NEW e \in Ids, NEW y \in required'[e] \ {None}
          PROVE  made[y] = e /\ (e # LoaderId => e \in loaded /\ y = cache[e])
      BY <1>4, <2>1 DEF NativeInv
    <2>3. \A e \in loaded : cache[e] # None /\ cache[e] \in required'[e]
      <3>1. loaded \subseteq Ids
        BY DEF TypeOK
      <3>2. QED BY <2>1, <3>1 DEF NativeInv
    <2>4. None \notin required'[LoaderId]
      BY <1>4, <2>1, LoadersAssumption DEF NativeInv
    <2>5. QED BY <1>2, <2>2, <2>3, <2>4 DEF NativeInv
  <1>7. PhaseInv' /\ RegisteredInv' /\ ObjectsInv' /\ BoundInv' /\ LoaderInv'
    BY <1>2 DEF registry, PhaseInv, RegisteredInv, ObjectsInv, Stands, BuiltinNames, BoundInv,
                KnownNames, LoaderInv
  <1>8. LoadListExact'
    BY <1>2 DEF registry, LoadListExact, Entries, Made
  <1>9. QED BY <1>1, <1>5, <1>6, <1>7, <1>8

\* require makes a module, which is compiled or not: one entry of the load list, and
\* exports that are the newest object.
LEMMA CacheInvariant ==
  ASSUME IInv, NEW d \in Ids, RequireSource(d) \/ CompileFails(d)
  PROVE  IInv'
  <1> USE DEF IInv
  <1>1. Facts!IInv' /\ Registry!TypeOK'
    BY RegistryKeeps DEF Next
  <1>2. /\ UNCHANGED <<registry, pc, bindingObj, source, calls, bound>>
        /\ pc = "ready" /\ d # LoaderId /\ d \notin loaded
        /\ loadList' = Append(loadList, Entry("NativeModule", d))
        /\ made' = Append(made, d)
        /\ cache' = [cache EXCEPT ![d] = Len(made')]
        /\ \/ /\ loaded' = loaded \cup {d}
              /\ required' = [required EXCEPT ![d] = @ \cup {Len(made')}]
           \/ /\ loaded' = loaded
              /\ required' = [required EXCEPT ![d] = @ \cup {None}]
    BY DEF RequireSource, CompileFails, Cache
  <1>3. /\ made \in Seq(Modules \cup {NativesName} \cup Ids)
        /\ bindingObj \in [Names -> {None} \cup DOMAIN made]
        /\ bound \in [Names -> SUBSET ({None} \cup DOMAIN made)]
        /\ cache \in [Ids -> {None} \cup DOMAIN made]
        /\ required \in [Ids -> SUBSET ({None} \cup DOMAIN made)]
        /\ loaded \in SUBSET Ids
    BY DEF TypeOK
  <1>4. PICK j \in Nat \ {0} :
          /\ j = Len(made') /\ DOMAIN made' = 1..j /\ DOMAIN made = 1..(j - 1)
          /\ made' \in Seq(Modules \cup {NativesName} \cup Ids) /\ made'[j] = d
          /\ \A k \in 1..(j - 1) : made'[k] = made[k]
    <2>1. /\ made' \in Seq(Modules \cup {NativesName} \cup Ids)
          /\ Len(made) \in Nat /\ DOMAIN made = 1..Len(made)
          /\ DOMAIN made' = 1..(Len(made) + 1) /\ Len(made') = Len(made) + 1
          /\ \A k \in 1..Len(made) : made'[k] = made[k]
          /\ made'[Len(made) + 1] = d
      BY <1>2, <1>3, Appended
    <2>2. (Len(made) + 1) - 1 = Len(made) /\ Len(made) + 1 \in Nat \ {0}
      BY <2>1
    <2>3. QED BY <2>1, <2>2
  <1>5. j \in DOMAIN made' /\ j \notin DOMAIN made /\ DOMAIN made \subseteq DOMAIN made'
        /\ j # None /\ None \notin DOMAIN made /\ None \notin DOMAIN made'
    BY <1>4 DEF None
  <1>6. \A k \in DOMAIN made : made'[k] = made[k]
    BY <1>4
  <1>7. /\ \A e \in Ids : cache'[e] = IF e = d THEN j ELSE cache[e]
        /\ \A e \in Ids : e # d => required'[e] = required[e]
        /\ \A e \in Ids : e # d => (e \in loaded' <=> e \in loaded)
        /\ \/ d \in loaded' /\ required'[d] = required[d] \cup {j}
           \/ d \notin loaded' /\ required'[d] = required[d] \cup {None}
    BY <1>2, <1>3, <1>4
  <1>8. /\ loadList' \in Seq([kind : {"Binding"}, name : Names]
                               \cup [kind : {"NativeModule"}, name : Ids])
        /\ \A e : /\ Entries(e) \in Nat
                  /\ Entries(e)' = Entries(e) + IF Entry("NativeModule", d) = e THEN 1 ELSE 0
    <2> DEFINE S == [kind : {"Binding"}, name : Names]
                      \cup [kind : {"NativeModule"}, name : Ids]
    <2>1. loadList \in Seq(S) /\ Entry("NativeModule", d) \in S
      BY DEF TypeOK, Entry
    <2> HIDE DEF S
    <2>2. ASSUME NEW e
          PROVE  /\ Count(loadList, e) \in Nat
                 /\ Count(loadList', e)
                      = Count(loadList, e) + IF Entry("NativeModule", d) = e THEN 1 ELSE 0
      BY <1>2, <2>1, CountAppended
    <2>3. loadList' \in Seq(S)
      BY <1>2, <2>1, Appended
    <2>4. QED BY <2>2, <2>3 DEF S, Entries, Count
  <1>9. TypeOK'
    <2>1. cache' \in [Ids -> {None} \cup DOMAIN made']
          /\ required' \in [Ids -> SUBSET ({None} \cup DOMAIN made')]
      <3> DEFINE new == {None} \cup DOMAIN made'
      <3>1. cache \in [Ids -> new] /\ required \in [Ids -> SUBSET new]
        BY <1>3, <1>5
      <3>2. j \in new /\ None \in new
        BY <1>5
      <3>3. Len(made') = j
        BY <1>4
      <3> HIDE DEF new
      <3>4. cache' \in [Ids -> new]
        BY <1>2, <3>1, <3>2, <3>3
      <3>5. required' \in [Ids -> SUBSET new]
        BY <1>2, <3>1, <3>2, <3>3
      <3>6. QED BY <3>4, <3>5 DEF new
    <2>2. bindingObj' \in [Names -> {None} \cup DOMAIN made']
          /\ bound' \in [Names -> SUBSET ({None} \cup DOMAIN made')]
      BY <1>2, <1>3, <1>5
    <2>3. loaded' \in SUBSET Ids
      BY <1>2, <1>3
    <2>4. QED BY <1>1, <1>2, <1>4, <1>8, <2>1, <2>2, <2>3 DEF TypeOK
  <1>10. d \notin Modules /\ d # NativesName /\ required[d] \subseteq {None}
    BY <1>2, <1>3, <1>5, KindsAssumption DEF NativeInv
  <1>11. NativeInv'
    <2>1. ASSUME NEW e \in Ids, cache'[e] # None
          PROVE  e # LoaderId /\ made'[cache'[e]] = e
      BY <1>2, <1>3, <1>4, <1>6, <1>7, <2>1 DEF NativeInv
    <2>5. ASSUME NEW e \in loaded'
          PROVE  cache'[e] # None /\ cache'[e] \in required'[e]
      <3>1. CASE e = d
        BY <1>5, <1>7, <2>5, <3>1
      <3>2. CASE e # d
        <4>1. e \in loaded /\ e \in Ids
          BY <1>2, <1>3, <2>5, <3>2
        <4>2. QED BY <1>7, <3>2, <4>1 DEF NativeInv
      <3>3. QED BY <3>1, <3>2
    <2>2. ASSUME NEW e \in Ids, NEW x \in required'[e] \ {None}
          PROVE  made'[x] = e /\ (e # LoaderId => e \in loaded' /\ x = cache'[e])
      <3>1. CASE e = d
        BY <1>4, <1>7, <1>10, <3>1
      <3>2. CASE e # d
        BY <1>3, <1>6, <1>7, <3>2 DEF NativeInv
      <3>3. QED BY <3>1, <3>2
    <2>3. None \notin required'[LoaderId]
      BY <1>2, <1>7, LoadersAssumption DEF NativeInv
    <2>4. QED BY <2>1, <2>2, <2>3, <2>5 DEF NativeInv
  <1>12. ObjectsInv'
    <2>1. ASSUME NEW k \in Names, bindingObj'[k] # None
          PROVE  Stands(k, made'[bindingObj'[k]])
      BY <1>2, <1>3, <1>6, <2>1 DEF ObjectsInv
    <2>2. ASSUME NEW k \in DOMAIN made', made'[k] \in Modules
          PROVE  bindingObj'[NameOf[made'[k]]] = k
      <3>1. k # j
        BY <1>4, <1>10, <2>2
      <3>2. k \in DOMAIN made
        BY <1>4, <3>1
      <3>3. QED BY <1>2, <1>6, <2>2, <3>2 DEF ObjectsInv
    <2>3. QED BY <2>1, <2>2 DEF ObjectsInv, Stands, BuiltinNames
  <1>13. LoaderInv'
    <2>1. \A k \in DOMAIN made' : made'[k] = LoaderId => k \in DOMAIN made
      BY <1>2, <1>4
    <2>2. QED BY <1>2, <1>5, <1>6, <2>1 DEF LoaderInv
  <1>14. PhaseInv' /\ RegisteredInv' /\ BoundInv'
    BY <1>2 DEF registry, PhaseInv, RegisteredInv, BoundInv, KnownNames
  <1>15. LoadListExact'
    <2>1. ASSUME NEW e \in Ids
          PROVE  Entries(Entry("NativeModule", e))' = IF e = LoaderId THEN 0 ELSE Made(e)'
      <3>1. Entries(Entry("NativeModule", e)) = IF e = LoaderId THEN 0 ELSE Made(e)
        BY DEF LoadListExact
      <3>2. Entries(Entry("NativeModule", e))' =
              Entries(Entry("NativeModule", e)) + IF d = e THEN 1 ELSE 0
        BY <1>8, EntriesDiffer
      <3>3. Made(e) \in Nat /\ Made(e)' = Made(e) + IF d = e THEN 1 ELSE 0
        BY <1>2, MadeAppended
      <3>4. QED BY <1>2, <3>1, <3>2, <3>3
    <2>2. \A n \in Names : Entries(Entry("Binding", n))' = Entries(Entry("Binding", n))
      BY <1>8, EntriesDiffer
    <2>3. QED BY <1>2, <2>1, <2>2, LoadersAssumption DEF registry, LoadListExact
  <1>16. QED BY <1>1, <1>9, <1>11, <1>12, <1>13, <1>14, <1>15

LEMMA StepInvariant == IInv /\ [Next]_vars => IInv'
  <1> SUFFICES ASSUME IInv, [Next]_vars PROVE IInv'
    OBVIOUS
  <1>1. CASE UNCHANGED vars
    <2>1. Facts!IInv' /\ Registry!TypeOK'
      BY RegistryKeeps
    <2>2. TypeOK' /\ RegisteredInv' /\ PhaseInv' /\ LoaderInv' /\ BoundInv'
      BY <1>1, <2>1 DEF vars, registry, native, IInv, TypeOK, RegisteredInv, PhaseInv,
         BoundInv, KnownNames, LoaderInv
    <2>4. ObjectsInv' /\ NativeInv' /\ \A e : Entries(e)' = Entries(e) /\ Made(e)' = Made(e)
      BY <1>1, TablesKeep DEF vars, Tables
    <2>5. LoadListExact'
      BY <1>1, <2>4 DEF vars, registry, IInv, LoadListExact
    <2>3. QED BY <2>1, <2>2, <2>4, <2>5 DEF IInv
  <1>2. QED
    BY <1>1, RegisterInvariant, LookupInvariant, SourceInvariant, CallInvariant, MadeInvariant,
       RequireInvariant, CacheInvariant DEF Next

-----------------------------------------------------------------------------
(* The theorems *)

\* The inductive invariant: the registry's own, and what the tables of the loaders have to
\* do with each other and with the calls so far.
THEOREM LoadersInvariant == Safety => []IInv
  BY InitInvariant, StepInvariant, PTL DEF Safety

\* Every variable of the loaders, and of the registry below them, keeps its type.
THEOREM LoadersTyped == Safety => []TypeOK
  <1>1. IInv => TypeOK
    BY DEF IInv
  <1>2. QED BY <1>1, LoadersInvariant, PTL

\* process.binding returns one object for a name for ever, which is no other name's, and
\* runs nm_context_register_func of a module at most once.
THEOREM LoadersShare == Safety => []BindingIsShared
  <1>1. IInv => BindingIsShared
    <2> SUFFICES ASSUME IInv PROVE BindingIsShared
      OBVIOUS
    <2>1. \A n \in Names : \A x \in bound[n] : x = bindingObj[n]
      BY DEF IInv, BoundInv
    <2>2. ASSUME NEW n \in Names, NEW k \in Names, n # k,
                 NEW x \in bound[n] \cap bound[k], x # None
          PROVE  FALSE
      <3>1. x = bindingObj[n] /\ x = bindingObj[k]
        BY <2>1, <2>2
      <3>2. Stands(n, made[x]) /\ Stands(k, made[x])
        BY <2>2, <3>1 DEF IInv, ObjectsInv
      <3>3. QED BY <2>2, <3>2, KindsAssumption DEF Stands
    <2>3. \A j, k \in DOMAIN made : made[j] = made[k] /\ made[j] \in Modules => j = k
      BY DEF IInv, ObjectsInv
    <2>4. \A n, k \in Names : n # k => bound[n] \cap bound[k] \subseteq {None}
      BY <2>2
    <2>5. QED BY <2>1, <2>3, <2>4 DEF BindingIsShared
  <1>2. QED BY <1>1, LoadersInvariant, PTL

\* A name is bound to the builtin module of that name, if there is one.
THEOREM LoadersModule == Safety => []BindingIsModule
  <1>1. IInv => BindingIsModule
    <2> SUFFICES ASSUME IInv, NEW n \in Names, NEW x \in bound[n]
                 PROVE  IF n \in BuiltinNames
                        THEN x # None /\ made[x] \in Modules /\ NameOf[made[x]] = n
                        ELSE x = None \/ (n = NativesName /\ made[x] = NativesName)
      BY DEF BindingIsModule, BuiltinNames
    <2>1. x = bindingObj[n] /\ (x = None => n \notin BuiltinNames)
      BY KnownAreNames DEF IInv, BoundInv
    <2>2. x # None => Stands(n, made[x])
      BY <2>1 DEF IInv, ObjectsInv
    <2>3. QED BY <2>1, <2>2 DEF Stands
  <1>2. QED BY <1>1, LoadersInvariant, PTL

\* process.moduleLoadList counts every binding once, every call for a name that is unknown,
\* and every native module that is made, loaded or not.
THEOREM LoadersList == Safety => []LoadListExact
  <1>1. IInv => LoadListExact
    BY DEF IInv
  <1>2. QED BY <1>1, LoadersInvariant, PTL

\* require returns the same exports for ever, those of no other id, and returns some
\* exactly for the ids whose module is loaded.
THEOREM LoadersRequire == Safety => []RequireIsShared
  <1>1. IInv => RequireIsShared
    <2> SUFFICES ASSUME IInv PROVE RequireIsShared
      OBVIOUS
    <2>1. \A d \in Ids : \A x \in required[d] \ {None} : made[x] = d
      BY DEF IInv, NativeInv
    <2>2. ASSUME NEW d \in Ids, NEW x \in required[d] \ {None}, NEW y \in required[d] \ {None}
          PROVE  x = y
      <3>1. CASE d = LoaderId
        <4>1. x \in DOMAIN made /\ y \in DOMAIN made
          BY DEF IInv, TypeOK
        <4>2. QED BY <2>1, <3>1, <4>1 DEF IInv, LoaderInv
      <3>2. CASE d # LoaderId
        BY <3>2 DEF IInv, NativeInv
      <3>3. QED BY <3>1, <3>2
    <2>3. ASSUME NEW d \in Ids
          PROVE  required[d] \subseteq {None}
                   <=> d \notin loaded /\ (d = LoaderId => required[d] = {})
      BY DEF IInv, NativeInv
    <2>4. QED BY <2>1, <2>2, <2>3 DEF RequireIsShared
  <1>2. QED BY <1>1, LoadersInvariant, PTL

\* A step of the loaders is a step of the table: it fills in the entry of a known name at
\* its first use, or returns the entry that is there, or has nothing to do with the table.
LEMMA StepOfTable ==
  ASSUME IInv, [Next]_vars
  PROVE  [Table!TableNext]_<<bindingObj, bound>>
  <1>1. /\ made \in Seq(Modules \cup {NativesName} \cup Ids)
        /\ bindingObj \in [Names -> {None} \cup DOMAIN made]
        /\ bound \in [Names -> SUBSET ({None} \cup DOMAIN made)]
    BY DEF IInv, TypeOK
  <1>2. ASSUME NEW n \in Names, BindingCached(n)
        PROVE  Table!LookUp(n)
    <2>1. n \in KnownNames /\ bindingObj[n] # None
      BY <1>2, KnownAreNames DEF BindingCached, IInv, ObjectsInv, Stands
    <2>2. QED BY <1>1, <1>2, <2>1 DEF BindingCached, Table!LookUp, Table!Give
  <1>3. ASSUME BindingMade
        PROVE  Table!Fill(target) \/ Table!LookUp(target)
    <2>1. target \in Names /\ bindingObj[target] = None
      BY <1>3, BindingEffect DEF BindingMade, IInv, PhaseInv
    <2>2. CASE target \notin KnownNames
      <3>1. made' = made
        BY <1>3, <2>2, BindingEffect
      <3>2. /\ bindingObj' = [bindingObj EXCEPT ![target] = None]
            /\ bound' = [bound EXCEPT ![target] = @ \cup {None}]
        BY <1>3, <3>1 DEF BindingMade
      <3>3. bindingObj' = bindingObj
        BY <1>1, <2>1, <3>2
      <3>4. QED BY <2>1, <2>2, <3>2, <3>3 DEF Table!LookUp, Table!Give
    <2>3. CASE target \in KnownNames
      <3>1. PICK x \in Modules \cup {NativesName} : made' = Append(made, x)
        BY <1>3, <2>3, BindingEffect
      <3>2. Len(made') \notin {None} \cup DOMAIN made /\ Len(made') \in DOMAIN made'
        <4>1. Len(made') = Len(made) + 1 /\ Len(made) \in Nat /\ DOMAIN made = 1..Len(made)
              /\ DOMAIN made' = 1..(Len(made) + 1)
          BY <1>1, <3>1, Appended
        <4>2. QED BY <4>1 DEF None
      <3>3. /\ bindingObj' = [bindingObj EXCEPT ![target] = Len(made')]
            /\ bound' = [bound EXCEPT ![target] = @ \cup {Len(made')}]
        BY <1>3, <3>2 DEF BindingMade
      <3>4. bindingObj'[target] = Len(made')
        BY <1>1, <2>1, <3>3
      <3>5. \A k \in Names : bindingObj'[target] # bindingObj[k]
        BY <1>1, <3>2, <3>4
      <3>6. QED BY <2>1, <2>3, <3>3, <3>4, <3>5 DEF Table!Fill, Table!Give
    <2>4. QED BY <2>2, <2>3
  <1>4. ASSUME BindingMade PROVE target \in Names
    BY <1>4, BindingEffect
  <1>5. CASE UNCHANGED <<bindingObj, bound>>
    BY <1>5
  <1>6. QED
    BY <1>2, <1>3, <1>4, <1>5
       DEF Next, vars, RegisterBuiltinModule, BootstrapLoaders, Lookup, SourceBound, BindingMissing,
           AddSource, RequireLoader, RequireCached, RequireUnknown, RequireSource,
           CompileFails, Cache, Table!TableNext

\* process.binding is a table that is filled at first use.
THEOREM LoadersImplement == Safety => ImplementsTable
  <1>1. Init => Table!TableInit
    BY DEF Init, Table!TableInit
  <1>2. IInv /\ [Next]_vars => [Table!TableNext]_<<bindingObj, bound>>
    BY StepOfTable
  <1>3. QED
    BY <1>1, <1>2, LoadersInvariant, PTL
       DEF Safety, ImplementsTable, Table!TableSpec, Table!tableVars
-----------------------------------------------------------------------------
(* What was begun gets on *)

\* One builtin module more is registered, the loaders begin, the lookup goes back in the
\* list, or the control returns to whoever called.
GetsOn ==
  \/ pc' = "ready"
  \/ pc = "register" /\ clock' = clock + 1 /\ clock' <= Len(Builtins)
  \/ pc = "register" /\ pc' = "natives"
  \/ pc \in {"natives", "binding"} /\ pc' = pc /\ Facts!GoesBack

LEMMA StepGetsOn == ASSUME IInv, Next, pc # "ready" PROVE GetsOn
  <1>1. CASE RegisterBuiltinModule
    <2>1. pc = "register" /\ clock < Len(Builtins) /\ clock' = clock + 1
      BY <1>1 DEF RegisterBuiltinModule, Registry!Register
    <2>2. clock \in Nat /\ Len(Builtins) \in Nat
      BY LoadersAssumption DEF IInv, Facts!IInv, Facts!TypeOK
    <2>3. QED BY <2>1, <2>2 DEF GetsOn
  <1>2. CASE BootstrapLoaders \/ SourceBound \/ BindingMade
    BY <1>2 DEF BootstrapLoaders, SourceBound, BindingMade, GetsOn
  <1>3. CASE Lookup
    <2>1. Facts!FindStep
      BY <1>3 DEF Lookup, Registry!FindStep, Facts!FindStep, Registry!Matches, Facts!Matches
    <2>2. Facts!GoesBack
      BY <2>1, RegistryMet, Facts!FindGoesBack DEF IInv
    <2>3. pc' = pc /\ pc \in {"natives", "binding"}
      BY <1>3, <2>1 DEF Lookup, Facts!FindStep, IInv, PhaseInv, TypeOK
    <2>4. QED BY <2>2, <2>3 DEF GetsOn
  <1>4. QED
    BY <1>1, <1>2, <1>3
       DEF Next, BindingCached, BindingMissing, AddSource, RequireLoader, RequireCached,
           RequireUnknown, RequireSource, CompileFails, Cache

\* Until the loaders are ready, and within every call of process.binding, each step brings
\* the return nearer, whatever the list of builtin modules is: the rest of CallsReturn is
\* that the thread takes these steps.
THEOREM LoadersGetOn == Safety => [][pc # "ready" => GetsOn]_vars
  <1>1. IInv /\ [Next]_vars => [pc # "ready" => GetsOn]_vars
    BY StepGetsOn
  <1>2. QED BY <1>1, LoadersInvariant, PTL DEF Safety
=============================================================================
