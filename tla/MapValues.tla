------------------------------ MODULE MapValues ------------------------------
(***************************************************************************)
(* What include/cowmap.h promises: every CowMap variable is a map of its   *)
(* own, whatever bodies the variables share.                               *)
(***************************************************************************)
EXTENDS Naturals, Sequences

CONSTANT Vars        \* the CowMap variables of the program

VARIABLE val         \* the map each variable holds: a function on its keys

NoEntries == <<>>

Init == val = [v \in Vars |-> NoEntries]

Becomes(v, m) == val' = [val EXCEPT ![v] = m]

With(m, k, x) == [j \in DOMAIN m \cup {k} |-> IF j = k THEN x ELSE m[j]]
Without(m, k) == [j \in DOMAIN m \ {k} |-> m[j]]

\* Of several entries with the same key the first one counts.
Construct(v, keys, values) ==
    Becomes(v, [k \in {keys[i] : i \in DOMAIN keys} |->
        values[CHOOSE i \in DOMAIN keys :
                   keys[i] = k /\ \A j \in 1..i - 1 : keys[j] # k]])

Copy(v, w) == Becomes(v, val[w])

Clear(v) == Becomes(v, NoEntries)

\* insert keeps an entry that is there, put replaces it.
Insert(v, k, x) == Becomes(v, IF k \in DOMAIN val[v] THEN val[v] ELSE With(val[v], k, x))
Put(v, k, x) == Becomes(v, With(val[v], k, x))
Remove(v, k) == Becomes(v, Without(val[v], k))
==============================================================================
