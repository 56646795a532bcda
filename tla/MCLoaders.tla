----------------------------- MODULE MCLoaders -----------------------------
(* Values of the constants of Loaders for TLC. *)
EXTENDS Loaders, TLC

CONSTANTS m1, m2, contextify, report, natives, other

\* contextify and report are the builtin modules of a build with NODE_REPORT.
BuiltinModules == <<m1, m2>>
BuiltinNameOf == (m1 :> contextify) @@ (m2 :> report)
BuiltinFlagsOf == (m1 :> {"builtin"}) @@ (m2 :> {"builtin"})
=============================================================================
