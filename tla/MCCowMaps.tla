------------------------------ MODULE MCCowMaps ------------------------------
(* Three maps of at most two entries: two can share a body while the third   *)
(* has another, and a fourth body is for a copy made while these are in use. *)
EXTENDS CowMaps, TLC

CONSTANTS v1, v2, v3, b1, b2, b3, b4, x1, x2

MCVars == {v1, v2, v3}
MCBodies == {b1, b2, b3, b4}
MCKeys == {1, 2}
MCValues == {x1, x2}
MCLists == {2}

\* Which free address a new body gets is immaterial.
Symmetry == Permutations(MCVars) \cup Permutations(MCBodies) \cup Permutations(MCValues)
==============================================================================
