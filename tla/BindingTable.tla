---------------------------- MODULE BindingTable ----------------------------
(***************************************************************************)
(* What process.binding promises (lib/bootstrap/loaders.js): a table with  *)
(* one object for every name that the program knows, made when the name is *)
(* first asked for and never changed; for any other name there is nothing, *)
(* however often it is asked for.                                          *)
(***************************************************************************)
CONSTANTS
  Names, \* what one can ask for
  Known, \* the names that stand for something
  None   \* undefined

VARIABLES
  table, \* the object of each name
  given  \* what has been returned for each name

tableVars == <<table, given>>

TableInit ==
  /\ table = [n \in Names |-> None]
  /\ given = [n \in Names |-> {}]

Give(n) == given' = [given EXCEPT ![n] = @ \cup {table'[n]}]

\* The first use makes an object that no other name has.
Fill(n) ==
  /\ n \in Known /\ table[n] = None
  /\ \A k \in Names : table'[n] # table[k]
  /\ table' = [table EXCEPT ![n] = table'[n]]
  /\ Give(n)

LookUp(n) ==
  /\ n \in Known <=> table[n] # None
  /\ UNCHANGED table
  /\ Give(n)

TableNext == \E n \in Names : Fill(n) \/ LookUp(n)

TableSpec == TableInit /\ [][TableNext]_tableVars
=============================================================================
