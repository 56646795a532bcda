---------------------------- MODULE MCLineReader ----------------------------
(* Every input of up to seven bytes, for a buffer that takes three.        *)
EXTENDS LineReader

MaxInput == 7
AllInputs == UNION {[1..n -> {"byte", "null", "newline"}] : n \in 0..MaxInput}
=============================================================================
