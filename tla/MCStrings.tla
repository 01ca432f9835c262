------------------------------ MODULE MCStrings ------------------------------
(* Two strings of characters of one and two bytes, which can share a body,   *)
(* each have one, or refer to a static one.  Four characters are enough for  *)
(* every way to search from a bookmark that is one character from the ends.  *)
EXTENDS Strings, TLC

CONSTANTS v1, v2, b1, b2, b3, null, static

MCVars == {v1, v2}
MCBodies == {b1, b2, b3, null, static}
MCStatics == {null, static}

a == <<1>>
e == <<2, 0>>
MCLetters == {a, e}
MCStaticText == <<e, a>>
MCInputs == {<<e>>, <<a, e>>}
\* To lower case a character can get shorter; in JSON it can become several.
MCConversions == {[c \in MCLetters |-> IF c = a THEN <<a>> ELSE <<a, a>>]}

Symmetry == Permutations({b1, b2, b3}) \cup Permutations(MCVars)
==============================================================================
