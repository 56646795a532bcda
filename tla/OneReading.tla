----------------------------- MODULE OneReading -----------------------------
(***************************************************************************)
(* What ReadFile promises of a file that other processes change while it   *)
(* is read: nothing, or a string for one length that the file had at some  *)
(* moment of the call, never for something between two of its lengths.     *)
(***************************************************************************)
EXTENDS Integers

CONSTANTS
  Lengths, \* the lengths that a file can have
  Exact    \* those that a string can have

VARIABLES
  length,  \* the length of the file now
  seen,    \* the length that the call answers for, Nothing if there is none (yet)
  outcome, \* "pending", "string", "nothing", or "ended" with the process
  answer   \* the length of the string, Nothing if there is none

readingVars == <<length, seen, outcome, answer>>

Nothing == -1

ReadingInit ==
  /\ length \in Lengths
  /\ seen = Nothing /\ outcome = "pending" /\ answer = Nothing

\* Others append to the file and truncate it while the call lasts.
Fluctuate ==
  /\ outcome = "pending"
  /\ length' \in Lengths
  /\ UNCHANGED <<seen, outcome, answer>>

\* The one moment at which the length counts.
Look ==
  /\ outcome = "pending" /\ seen = Nothing
  /\ seen' = length
  /\ UNCHANGED <<length, outcome, answer>>

\* The string has the length that was seen, if it can.
Answer ==
  /\ outcome = "pending" /\ seen # Nothing
  /\ answer' \in Nat /\ (seen \in Exact => answer' = seen)
  /\ outcome' = "string"
  /\ UNCHANGED <<length, seen>>

GiveUp ==
  /\ outcome = "pending"
  /\ outcome' \in {"nothing", "ended"}
  /\ seen' = Nothing
  /\ UNCHANGED <<length, answer>>

ReadingSpec ==
  ReadingInit /\ [][Fluctuate \/ Look \/ Answer \/ GiveUp]_readingVars
=============================================================================
