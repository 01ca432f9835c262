---------------------------- MODULE StringValues -----------------------------
(***************************************************************************)
(* What include/strval.h promises: every StrVal variable is a sequence of  *)
(* characters of its own ("By-value semantics with mutation", "Character   *)
(* indexing, not byte offsets").  Positions count from 0.                  *)
(***************************************************************************)
EXTENDS Integers, Sequences, SequencesExt

CONSTANT Vars        \* the StrVal variables of the program

VARIABLE val         \* the characters each variable holds

Init == val = [v \in Vars |-> <<>>]

Becomes(v, s) == val' = [val EXCEPT ![v] = s]

Construct(v, s) == Becomes(v, s)

\* v = w, v = w.substr(at, len), v = w + u
Copy(v, w) == Becomes(v, val[w])
Substr(v, w, at, len) ==
    Becomes(v, SubSeq(val[w], at + 1, IF at + len < Len(val[w]) THEN at + len ELSE Len(val[w])))
Plus(v, w, u) == Becomes(v, val[w] \o val[u])

\* v.insert(pos, w)
Insert(v, pos, w) ==
    Becomes(v, SubSeq(val[v], 1, pos) \o val[w] \o SubSeq(val[v], pos + 1, Len(val[v])))

\* Each character after position "after" is replaced by what f makes of it.
Convert(v, f, after) ==
    Becomes(v, FlattenSeq([i \in DOMAIN val[v] |->
                   IF i - 1 > after THEN f[val[v][i]] ELSE <<val[v][i]>>]))
==============================================================================
