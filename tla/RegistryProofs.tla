--------------------------- MODULE RegistryProofs ---------------------------
(* Theorems about Registry for every set of modules and names. *)
EXTENDS Registry, TLAPS

\* A stamp is the time of one registration only.
StampInv ==
  /\ \A m \in Modules : stamp[m] <= clock
  /\ \A m, q \in Modules : stamp[m] > 0 /\ stamp[m] = stamp[q] => m = q

\* Registration changes the flags of no module that either flag describes.
FlagsInv ==
  \A m \in Modules : flags[m] = FlagsOf[m]
                     \/ (flags[m] = {"linked"} /\ ListOf(FlagsOf[m]) = "linked")

\* FindModule has passed every newer module, and none of them has the name.
SearchInv ==
  target # Null =>
    /\ cursor # Null => cursor \in Members("builtin")
    /\ \A q \in Members("builtin") :
         cursor = Null \/ stamp[q] > stamp[cursor] => NameOf[q] # target

IInv == TypeOK /\ StampInv /\ FlagsInv /\ ListOrder /\ SearchInv
          /\ FoundIsBuiltin

LEMMA InitIInv == ASSUME Init PROVE IInv
<1>1. TypeOK /\ StampInv /\ FlagsInv
  BY RegistryAssumption DEF Init, TypeOK, StampInv, FlagsInv, Lists
<1>2. \A l : Members(l) = {}
  BY DEF Init, Members
<1>3. ListOrder
  BY <1>2 DEF Init, ListOrder, IsNewest
<1>4. SearchInv /\ FoundIsBuiltin
  BY DEF Init, SearchInv, FoundIsBuiltin
<1>5. QED
  BY <1>1, <1>3, <1>4 DEF IInv

\* The list of a module does not change while its flags do.
LEMMA ListStable ==
  ASSUME TypeOK, FlagsInv, NEW m \in Modules
  PROVE  /\ ListOf(flags[m]) = ListOf(FlagsOf[m])
         /\ ListOf(flags[m]) \in Lists
BY DEF FlagsInv, ListOf, Lists

\* A registration puts the module in front of its list and leaves the others.
LEMMA RegisterIInv ==
  ASSUME IInv, NEW m \in Modules, RegisterOnce(m)
  PROVE  IInv'
<1> DEFINE list == ListOf(flags[m])
<1>1. /\ target = Null /\ stamp[m] = 0
      /\ link' = [link EXCEPT ![m] = head[list]]
      /\ head' = [head EXCEPT ![list] = m]
      /\ clock' = clock + 1 /\ stamp' = [stamp EXCEPT ![m] = clock + 1]
      /\ UNCHANGED <<target, cursor, found>>
      /\ flags' = IF list = "linked" THEN [flags EXCEPT ![m] = {"linked"}] ELSE flags
  BY DEF RegisterOnce, Register, NotRegistered
<1>2. list \in Lists /\ list = ListOf(FlagsOf[m])
  BY ListStable DEF IInv
<1> HIDE DEF list
<1>3. TypeOK'
  BY <1>1, <1>2 DEF IInv, TypeOK, Flags
<1>4. StampInv'
  BY <1>1 DEF IInv, TypeOK, StampInv
<1>5. FlagsInv'
  BY <1>1, <1>2 DEF IInv, TypeOK, FlagsInv
<1>6. ASSUME NEW l \in Lists
      PROVE  Members(l)' = IF l = list THEN Members(l) \cup {m} ELSE Members(l)
  BY <1>1, <1>2 DEF IInv, TypeOK, Members
<1>7. m \notin Members(list)
  BY <1>1 DEF Members
<1>8. ListOrder'
  <2> SUFFICES ASSUME NEW l \in Lists
               PROVE  /\ IsNewest(head[l], Members(l))'
                      /\ \A k \in Members(l)' :
                           IsNewest(link[k], {q \in Members(l) : stamp[q] < stamp[k]})'
    BY DEF ListOrder
  <2>1. \A k \in Members(l) : k # m /\ k \in Modules /\ stamp'[k] = stamp[k]
                              /\ link'[k] = link[k] /\ stamp[k] <= clock
    BY <1>1 DEF Members, IInv, TypeOK, StampInv
  <2>2. stamp'[m] = clock + 1 /\ clock \in Nat /\ link'[m] = head[list]
    BY <1>1 DEF IInv, TypeOK
  <2>3. IsNewest(head[l], Members(l))
    BY DEF IInv, ListOrder
  <2>4. IsNewest(head[l], Members(l))'
    <3>1. CASE l = list
      <4>1. head'[l] = m /\ Members(l)' = Members(l) \cup {m}
        BY <1>1, <1>6, <3>1 DEF IInv, TypeOK
      <4>2. \A q \in Members(l)' : stamp'[q] <= stamp'[m]
        BY <2>1, <2>2, <4>1 DEF Members, IInv, TypeOK
      <4>3. QED
        BY <4>1, <4>2 DEF IsNewest
    <3>2. CASE l # list
      <4>1. head'[l] = head[l] /\ Members(l)' = Members(l)
        BY <1>1, <1>6, <3>2 DEF IInv, TypeOK
      <4>2. QED
        BY <2>1, <2>3, <4>1 DEF IsNewest
    <3>3. QED
      BY <3>1, <3>2
  <2>5. ASSUME NEW k \in Members(l)'
        PROVE  IsNewest(link[k], {q \in Members(l) : stamp[q] < stamp[k]})'
    <3> DEFINE older(j) == {q \in Members(l) : stamp[q] < stamp[j]}
    <3>1. CASE k = m
      <4>1. l = list
        BY <1>1, <1>6, <3>1 DEF Members
      <4>2. older(k)' = Members(l)
        BY <1>6, <2>1, <2>2, <3>1, <4>1 DEF Members, IInv, TypeOK
      <4>3. link'[k] = head[l]
        BY <2>2, <3>1, <4>1
      <4>4. QED
        BY <2>1, <2>3, <4>2, <4>3 DEF IsNewest
    <3>2. CASE k # m
      <4>1. k \in Members(l)
        BY <1>6, <3>2
      <4>2. older(k)' = older(k)
        BY <1>6, <2>1, <2>2, <4>1 DEF Members, IInv, TypeOK
      <4>3. IsNewest(link[k], older(k))
        BY <4>1 DEF IInv, ListOrder
      <4>4. QED
        BY <2>1, <4>1, <4>2, <4>3 DEF IsNewest
    <3>3. QED
      BY <3>1, <3>2
  <2>6. QED
    BY <2>4, <2>5
<1>9. SearchInv' /\ FoundIsBuiltin'
  <2>1. "builtin" \in flags[m] => flags' = flags
    BY <1>1 DEF list, ListOf
  <2>2. QED
    BY <1>1, <2>1 DEF SearchInv, FoundIsBuiltin, IInv, TypeOK
<1>10. QED
  BY <1>3, <1>4, <1>5, <1>8, <1>9 DEF IInv

\* A lookup only moves along the list.
LEMMA FindIInv ==
  ASSUME IInv, (\E n \in Names : StartFind(n)) \/ FindStep \/ FindReturns
  PROVE  IInv'
<1>1. UNCHANGED <<head, link, flags, stamp, clock>>
  BY DEF StartFind, FindStep, FindReturns
<1>2. \A l : Members(l)' = Members(l)
  BY <1>1 DEF Members
<1>3. StampInv' /\ FlagsInv'
  BY <1>1 DEF IInv, StampInv, FlagsInv
<1>4. ListOrder'
  BY <1>1, <1>2 DEF IInv, ListOrder, IsNewest
<1>5. "builtin" \in Lists /\ Null \notin Modules /\ Null \notin Names
  BY RegistryAssumption DEF Lists
<1>6. \A q \in Members("builtin") : q \in Modules /\ "builtin" \in flags[q]
                                    /\ stamp[q] \in Nat
  BY DEF IInv, TypeOK, FlagsInv, Members, ListOf
<1>7. CASE \E n \in Names : StartFind(n)
  <2>1. target' \in Names /\ cursor' = head["builtin"] /\ found' = found
    BY <1>7 DEF StartFind
  <2>2. TypeOK'
    BY <1>1, <1>5, <2>1 DEF IInv, TypeOK
  <2>3. IsNewest(cursor', Members("builtin"))
    BY <1>5, <2>1 DEF IInv, ListOrder
  <2>4. SearchInv'
    BY <1>1, <1>2, <1>5, <1>6, <2>3 DEF SearchInv, IsNewest
  <2>5. QED
    BY <1>1, <1>3, <1>4, <2>1, <2>2, <2>4 DEF IInv, FoundIsBuiltin
<1>8. CASE FindStep
  <2>1. /\ target # Null /\ target' = target /\ found' = found
        /\ cursor \in Members("builtin") /\ NameOf[cursor] # target
        /\ cursor' = link[cursor]
    BY <1>8 DEF FindStep, Matches, IInv, SearchInv
  <2>2. TypeOK'
    BY <1>1, <1>6, <2>1 DEF IInv, TypeOK
  <2>3. IsNewest(cursor', {q \in Members("builtin") : stamp[q] < stamp[cursor]})
    BY <1>5, <2>1 DEF IInv, ListOrder
  <2>4. ASSUME NEW q \in Members("builtin"), cursor' = Null \/ stamp[q] > stamp[cursor']
        PROVE  NameOf[q] # target
    <3>1. ~(stamp[q] < stamp[cursor])
      BY <1>6, <2>1, <2>3, <2>4, <1>5 DEF IsNewest
    <3>2. q = cursor \/ stamp[q] > stamp[cursor]
      <4>1. stamp[q] > 0
        BY DEF Members
      <4>2. QED
        BY <1>6, <2>1, <3>1, <4>1 DEF IInv, StampInv
    <3>3. QED
      BY <2>1, <3>2 DEF IInv, SearchInv
  <2>5. cursor' # Null => cursor' \in Members("builtin")
    BY <2>3 DEF IsNewest
  <2>6. SearchInv'
    BY <1>1, <1>2, <2>1, <2>4, <2>5 DEF SearchInv
  <2>7. QED
    BY <1>1, <1>3, <1>4, <2>1, <2>2, <2>6 DEF IInv, FoundIsBuiltin
<1>9. CASE FindReturns
  <2>1. target # Null /\ target' = Null /\ cursor' = cursor /\ found' = cursor
    BY <1>9 DEF FindReturns
  <2>2. TypeOK'
    BY <1>1, <2>1 DEF IInv, TypeOK
  <2>3. FoundIsBuiltin'
    BY <1>1, <1>6, <2>1 DEF IInv, SearchInv, FoundIsBuiltin
  <2>4. QED
    BY <1>3, <1>4, <2>1, <2>2, <2>3 DEF IInv, SearchInv
<1>10. QED
  BY <1>7, <1>8, <1>9

LEMMA NextIInv == ASSUME IInv, [Next]_vars PROVE IInv'
<1>1. CASE Next
  BY <1>1, RegisterIInv, FindIInv DEF Next
<1>2. CASE UNCHANGED vars
  BY <1>2 DEF vars, IInv, TypeOK, StampInv, FlagsInv, ListOrder, SearchInv,
              FoundIsBuiltin, Members, IsNewest
<1>3. QED
  BY <1>1, <1>2

\* The inductive invariant holds in every reachable state.
THEOREM RegistryInvariant == Safety => []IInv
<1>1. Init => IInv
  BY InitIInv
<1>2. IInv /\ [Next]_vars => IInv'
  BY NextIInv
<1>3. QED
  BY <1>1, <1>2, PTL DEF Safety

\* The lists, flags and the search keep their types (the state of xnode.cc).
THEOREM RegistryTyped == Safety => []TypeOK
BY RegistryInvariant, PTL DEF IInv

\* Every list holds exactly its modules, the newest first (xnode_module_register).
THEOREM RegistryOrder == Safety => []ListOrder
BY RegistryInvariant, PTL DEF IInv

\* The CHECK at the end of FindModule never fails.
THEOREM RegistryCheck == Safety => []FoundIsBuiltin
BY RegistryInvariant, PTL DEF IInv

-----------------------------------------------------------------------------
(* The refinement *)

\* A name that has modules has a newest one.
NewestInv ==
  \A n \in Names : Named(n) # {} => \E p \in Named(n) : IsNewest(p, Named(n))

\* The newest module of a name is the one the name stands for.
LEMMA CurrentIs ==
  IInv => \A n \in Names : \A p \in Named(n) : IsNewest(p, Named(n)) => Current(n) = p
<1> SUFFICES ASSUME IInv, NEW n \in Names, NEW p \in Named(n), IsNewest(p, Named(n))
             PROVE  Current(n) = p
  OBVIOUS
<1>1. \A q \in Named(n) : q \in Modules /\ q # Null /\ stamp[q] \in Nat /\ stamp[q] > 0
  BY RegistryAssumption DEF Named, IInv, TypeOK
<1>2. \A q \in Named(n) : IsNewest(q, Named(n)) => q = p
  <2> SUFFICES ASSUME NEW q \in Named(n), IsNewest(q, Named(n)) PROVE q = p
    OBVIOUS
  <2>1. stamp[q] <= stamp[p] /\ stamp[p] <= stamp[q]
    BY <1>1 DEF IsNewest
  <2>2. stamp[q] = stamp[p]
    BY <1>1, <2>1
  <2>3. QED
    BY <1>1, <2>2 DEF IInv, StampInv
<1>3. QED
  BY <1>2 DEF Current

\* A registration makes the module the current one of its name, if it is builtin,
\* and changes no other name.
LEMMA RegisterNames ==
  ASSUME IInv, NewestInv, NEW m \in Modules, RegisterOnce(m)
  PROVE  /\ NewestInv'
         /\ \A n \in Names : Current(n)' = IF n = NameOf[m] /\ "builtin" \in FlagsOf[m]
                                          THEN m ELSE Current(n)
<1>1. IInv'
  BY RegisterIInv
<1>2. (IInv => \A n \in Names : \A p \in Named(n) :
                 IsNewest(p, Named(n)) => Current(n) = p)'
  BY CurrentIs, PTL
<1>3. /\ stamp[m] = 0 /\ stamp' = [stamp EXCEPT ![m] = clock + 1]
      /\ stamp \in [Modules -> Nat] /\ clock \in Nat
  BY DEF RegisterOnce, Register, NotRegistered, IInv, TypeOK
<1>4. ASSUME NEW n \in Names
      PROVE  /\ Current(n)' = IF n = NameOf[m] /\ "builtin" \in FlagsOf[m]
                              THEN m ELSE Current(n)
             /\ Named(n)' # {} => \E p \in Named(n)' : IsNewest(p, Named(n))'
  <2>1. CASE n = NameOf[m] /\ "builtin" \in FlagsOf[m]
    <3>1. Named(n)' = Named(n) \cup {m}
      BY <1>3, <2>1 DEF Named
    <3>2. \A q \in Named(n)' : stamp'[q] <= stamp'[m]
      BY <1>3, <3>1 DEF Named, IInv, StampInv
    <3>3. IsNewest(m, Named(n))'
      BY <3>1, <3>2 DEF IsNewest
    <3>4. QED
      BY <1>1, <1>2, <2>1, <3>1, <3>3
  <2>2. CASE ~(n = NameOf[m] /\ "builtin" \in FlagsOf[m])
    <3>1. Named(n)' = Named(n) /\ m \notin Named(n)
      BY <1>3, <2>2 DEF Named
    <3>2. \A q \in Named(n) : stamp'[q] = stamp[q]
      BY <1>3, <3>1 DEF Named
    <3>3. \A p : IsNewest(p, Named(n)) => IsNewest(p, Named(n))'
      BY <3>1, <3>2 DEF IsNewest
    <3>4. CASE Named(n) = {}
      BY <2>2, <3>1, <3>4 DEF Current
    <3>5. CASE Named(n) # {}
      <4>1. PICK p \in Named(n) : IsNewest(p, Named(n))
        BY <3>5 DEF NewestInv
      <4>2. Current(n) = p
        BY <4>1, CurrentIs
      <4>3. IsNewest(p, Named(n))'
        BY <3>3, <4>1
      <4>4. Current(n)' = p
        BY <1>1, <1>2, <3>1, <4>3
      <4>5. QED
        BY <2>2, <3>1, <4>2, <4>3, <4>4
    <3>6. QED
      BY <3>4, <3>5
  <2>3. QED
    BY <2>1, <2>2
<1>5. QED
  BY <1>4 DEF NewestInv

\* What FindModule returns is the current module of the name.
LEMMA ReturnsCurrent ==
  ASSUME IInv, FindReturns
  PROVE  target \in Names /\ cursor = Current(target)
<1>1. target # Null /\ target \in Names /\ (cursor = Null \/ NameOf[cursor] = target)
  BY DEF FindReturns, Matches, IInv, TypeOK
<1>2. Named(target) = {q \in Members("builtin") : NameOf[q] = target}
  BY DEF Named, Members, ListOf
<1>3. CASE cursor = Null
  <2>1. Named(target) = {}
    BY <1>1, <1>2, <1>3 DEF IInv, SearchInv
  <2>2. QED
    BY <1>1, <1>3, <2>1 DEF Current
<1>4. CASE cursor # Null
  <2>1. cursor \in Named(target)
    BY <1>1, <1>2, <1>4 DEF IInv, SearchInv
  <2>2. \A q \in Named(target) : ~(stamp[q] > stamp[cursor])
    BY <1>1, <1>2 DEF IInv, SearchInv
  <2>3. \A q \in Named(target) : stamp[q] \in Nat
    BY DEF Named, IInv, TypeOK
  <2>4. IsNewest(cursor, Named(target))
    BY <2>1, <2>2, <2>3 DEF IsNewest
  <2>5. QED
    BY <1>1, <2>1, <2>4, CurrentIs
<1>5. QED
  BY <1>3, <1>4

LEMMA DirectoryStep ==
  ASSUME IInv, NewestInv, [Next]_vars
  PROVE  NewestInv' /\ [Directory!Next]_(Directory!vars)
<1> DEFINE map == [n \in Names |-> Current(n)]
<1>0. (IInv => \A n \in Names : \A p \in Named(n) :
                 IsNewest(p, Named(n)) => Current(n) = p)'
  BY CurrentIs, PTL
<1>1. ASSUME stamp' = stamp PROVE NewestInv' /\ map' = map
  <2>1. \A n : Named(n)' = Named(n)
    BY <1>1 DEF Named
  <2>2. \A p, S : IsNewest(p, S)' <=> IsNewest(p, S)
    BY <1>1 DEF IsNewest
  <2>3. NewestInv'
    BY <1>1, <2>1 DEF NewestInv, IsNewest
  <2>4. ASSUME NEW n \in Names PROVE Current(n)' = Current(n)
    <3>2. CASE Named(n) = {}
      BY <2>1, <3>2 DEF Current
    <3>3. CASE Named(n) # {}
      <4>1. PICK p \in Named(n) : IsNewest(p, Named(n))
        BY <3>3 DEF NewestInv
      <4>2. IsNewest(p, Named(n))'
        BY <1>1, <2>1, <4>1 DEF IsNewest
      <4>3. QED
        BY <1>0, <2>1, <4>1, <4>2, CurrentIs, NextIInv
    <3>4. QED
      BY <3>2, <3>3
  <2>5. QED
    BY <2>3, <2>4
<1>2. CASE \E m \in Modules : RegisterOnce(m)
  <2>1. PICK m \in Modules : RegisterOnce(m)
    BY <1>2
  <2>2. target = Null /\ target' = target /\ found' = found
    BY <2>1 DEF RegisterOnce, Register
  <2>3. NewestInv'
    BY <2>1, RegisterNames
  <2>4. \A n \in Names : Current(n)' = IF n = NameOf[m] /\ "builtin" \in FlagsOf[m]
                                       THEN m ELSE Current(n)
    BY <2>1, RegisterNames
  <2>5. CASE "builtin" \in FlagsOf[m]
    <3>1. map' = [map EXCEPT ![NameOf[m]] = m]
      BY <2>4, <2>5
    <3>2. m \in {k \in Modules : "builtin" \in FlagsOf[k]}
      BY <2>5
    <3> HIDE DEF map
    <3>3. Directory!Add
      BY <2>2, <3>1, <3>2 DEF Directory!Add, map
    <3>4. QED
      BY <2>3, <3>3 DEF Directory!Next
  <2>6. CASE "builtin" \notin FlagsOf[m]
    <3>1. map' = map
      BY <2>4, <2>6
    <3>2. QED
      BY <2>2, <2>3, <3>1 DEF Directory!vars
  <2>7. QED
    BY <2>5, <2>6
<1>3. CASE \E n \in Names : StartFind(n)
  <2>1. target = Null /\ target' \in Names /\ found' = found /\ stamp' = stamp
    BY <1>3 DEF StartFind
  <2>2. NewestInv' /\ map' = map
    BY <1>1, <2>1
  <2>3. Directory!Ask
    BY <2>1, <2>2 DEF Directory!Ask
  <2>4. QED
    BY <2>2, <2>3 DEF Directory!Next
<1>4. CASE FindStep \/ UNCHANGED vars
  <2>1. target' = target /\ found' = found /\ stamp' = stamp
    BY <1>4 DEF FindStep, vars
  <2>2. NewestInv' /\ map' = map
    BY <1>1, <2>1
  <2>3. QED
    BY <2>1, <2>2 DEF Directory!vars
<1>5. CASE FindReturns
  <2>1. target' = Null /\ found' = cursor /\ stamp' = stamp
    BY <1>5 DEF FindReturns
  <2>2. NewestInv' /\ map' = map
    BY <1>1, <2>1
  <2>3. target \in Names /\ found' = map[target]
    BY <1>5, <2>1, ReturnsCurrent
  <2>4. Directory!Reply
    BY <2>1, <2>2, <2>3 DEF Directory!Reply
  <2>5. QED
    BY <2>2, <2>4 DEF Directory!Next
<1>6. QED
  BY <1>2, <1>3, <1>4, <1>5 DEF Next

\* The lists implement the directory: FindModule answers with the builtin module
\* registered last under the name, and with nullptr only if there is none.
THEOREM RegistryRefines == Safety => Directory!Safety
<1>1. Init => NewestInv /\ Directory!Init
  <2> SUFFICES ASSUME Init PROVE NewestInv /\ Directory!Init
    OBVIOUS
  <2>1. \A n : Named(n) = {}
    BY DEF Init, Named
  <2>2. \A n : Current(n) = Null
    BY <2>1 DEF Current
  <2>3. QED
    BY <2>1, <2>2 DEF Init, NewestInv, Directory!Init
<1>2. IInv /\ NewestInv /\ [Next]_vars => NewestInv' /\ [Directory!Next]_(Directory!vars)
  BY DirectoryStep
<1>3. QED
  BY <1>1, <1>2, RegistryInvariant, PTL DEF Safety, Directory!Safety

-----------------------------------------------------------------------------
(* A lookup gets on *)

\* How many registrations a lookup may still go back.
Ahead == IF cursor = Null THEN 0 ELSE stamp[cursor]

GoesBack == Ahead \in Nat /\ Ahead' \in Nat /\ Ahead' < Ahead

\* One turn of the loop of FindModule.
LEMMA FindGoesBack == ASSUME IInv, FindStep PROVE GoesBack
<1>1. /\ target # Null /\ cursor # Null /\ stamp' = stamp
      /\ cursor' = link[cursor]
  BY DEF FindStep
<1>2. cursor \in Members("builtin") /\ cursor \in Modules
  BY <1>1 DEF IInv, SearchInv, Members
<1>3. IsNewest(link[cursor], {q \in Members("builtin") : stamp[q] < stamp[cursor]})
  BY <1>2 DEF IInv, ListOrder, Lists
<1>4. \A m \in Modules : stamp[m] \in Nat
  BY DEF IInv, TypeOK
<1>5. stamp[cursor] > 0 /\ Ahead = stamp[cursor] /\ Null \notin Modules
  BY <1>1, <1>2, RegistryAssumption DEF Members, Ahead
<1>6. CASE cursor' = Null
  BY <1>2, <1>4, <1>5, <1>6 DEF Ahead, GoesBack
<1>7. CASE cursor' # Null
  <2>1. PICK q \in Modules : q = cursor' /\ stamp[q] < stamp[cursor]
    BY <1>1, <1>3, <1>7 DEF IsNewest, Members
  <2>2. Ahead' = stamp[q]
    BY <1>1, <1>7, <2>1 DEF Ahead
  <2>3. QED
    BY <1>2, <1>4, <1>5, <2>1, <2>2 DEF GoesBack
<1>8. QED
  BY <1>6, <1>7

\* While FindModule runs, every step ends it or goes on to a module that was registered
\* earlier: the lists have no cycle, whatever was registered and in which order.
THEOREM RegistryGetsOn == Safety => [][target # Null => target' = Null \/ GoesBack]_vars
<1>1. IInv /\ Next /\ target # Null => target' = Null \/ GoesBack
  BY FindGoesBack DEF Next, RegisterOnce, Register, StartFind, FindReturns
<1>2. QED
  BY <1>1, RegistryInvariant, PTL DEF Safety
=============================================================================
