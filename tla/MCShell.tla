------------------------------ MODULE MCShell ------------------------------
(* Values of the constants of Shell for TLC. *)
EXTENDS Shell

\* Every command line of at most three arguments.
SmallArgvs == UNION {[1..n -> Kinds] : n \in 0..3}

\* Success, failure, one that the exit status truncates, a negative one.
SomeCodes == {0, 1, 256, -2}
=============================================================================
