----------------------------- MODULE MCRefCount ------------------------------
(* Three threads, three references and four addresses: enough for a body to *)
(* have two references while a third is made or dropped, for addresses to   *)
(* be reused, and for two threads to be at any two steps of their           *)
(* operations while the third publishes or receives a reference.            *)
EXTENDS RefCount, TLC

CONSTANTS t1, t2, t3, v1, v2, v3, b1, b2, b3, b4, d1, d2

MCThreads == {t1, t2, t3}
MCVars == {v1, v2, v3}
MCBodies == {b1, b2, b3, b4}
MCData == {d1, d2}

\* Every definition treats threads, variables, addresses and contents alike.
Symmetry == Permutations(MCThreads) \cup Permutations(MCVars)
            \cup Permutations(MCBodies) \cup Permutations(MCData)
==============================================================================
