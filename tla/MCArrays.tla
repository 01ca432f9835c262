------------------------------ MODULE MCArrays -------------------------------
(* Two arrays of at most three elements, which can share a body, each have   *)
(* one, or refer to the static one; a third body is for a copy made while    *)
(* both are in use.                                                          *)
EXTENDS Arrays, TLC

CONSTANTS v1, v2, b1, b2, b3, static, e1, e2

MCVars == {v1, v2}
MCBodies == {b1, b2, b3, static}
MCStatics == {static}
MCElements == {e1, e2}
MCText == <<e1, e2, e1>>
MCInputs == {<<>>, <<e2>>, <<e1, e2>>, <<e1, e1, e2>>}
MCPredicates == {{e1}}
MCFunctions == {[e \in MCElements |-> e2]}

\* Addresses and variables are alike; which free address a new body gets is
\* immaterial.
Symmetry == Permutations({b1, b2, b3}) \cup Permutations(MCVars)
==============================================================================
