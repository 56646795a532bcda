----------------------------- MODULE MCRegistry -----------------------------
(* Values of the constants of Registry for TLC. *)
EXTENDS Registry, TLC

CONSTANTS m1, m2, m3, m4, m5, contextify, report, other

\* Two modules with one name, one only internal, one with both flags, and one
\* compiled without a flag.
SomeModules == {m1, m2, m3, m4, m5}
SomeNames == {contextify, report, other}
SomeNameOf == (m1 :> contextify) @@ (m2 :> report) @@ (m3 :> report)
                @@ (m4 :> contextify) @@ (m5 :> report)
SomeFlagsOf == (m1 :> {"builtin"}) @@ (m2 :> {"builtin"})
                 @@ (m3 :> {"builtin", "internal"}) @@ (m4 :> {"internal"})
                 @@ (m5 :> {})
=============================================================================
