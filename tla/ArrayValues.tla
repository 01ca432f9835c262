----------------------------- MODULE ArrayValues -----------------------------
(***************************************************************************)
(* What include/array.h promises: every Array variable is a sequence of    *)
(* its own, whatever bodies the slices share.  Positions count from 0, as  *)
(* in the code.                                                            *)
(***************************************************************************)
EXTENDS Naturals, Sequences

CONSTANT Vars        \* the Array variables of the program

VARIABLE val         \* the sequence each variable holds

Init == val = [v \in Vars |-> <<>>]

\* The elements of s from position at, len of them or as many as there are.
Part(s, at, len) == SubSeq(s, at + 1, IF at + len <= Len(s) THEN at + len ELSE Len(s))
From(s, at) == SubSeq(s, at + 1, Len(s))

Becomes(v, s) == val' = [val EXCEPT ![v] = s]

Construct(v, s) == Becomes(v, s)

\* v = w, v = w.slice(at, len), v = w.drop(n)
Copy(v, w) == Becomes(v, val[w])
Slice(v, w, at, len) == Becomes(v, Part(val[w], at, len))
Drop(v, w, n) == n <= Len(val[w]) /\ Becomes(v, From(val[w], n))

\* v = w.select(e is in E), v = w.map(f): all those of w that are in E, and in
\* their order
Select(v, w, E) ==
    LET s == val[w]
    IN  \E n \in 0..Len(s) : \E at \in [1..n -> DOMAIN s] :
            /\ {at[i] : i \in 1..n} = {i \in DOMAIN s : s[i] \in E}
            /\ \A i, j \in 1..n : i < j => at[i] < at[j]
            /\ Becomes(v, [i \in 1..n |-> s[at[i]]])
Map(v, w, f) == Becomes(v, [i \in DOMAIN val[w] |-> f[val[w][i]]])

\* v = w + e
Plus(v, w, e) == Becomes(v, Append(val[w], e))

\* v.set(pos, e), v.push(e), v.pull(), v.clear()
Set(v, pos, e) == pos < Len(val[v]) /\ Becomes(v, [val[v] EXCEPT ![pos + 1] = e])
Push(v, e) == Becomes(v, Append(val[v], e))
Pull(v) == val[v] # <<>> /\ Becomes(v, Part(val[v], 0, Len(val[v]) - 1))
Clear(v) == Becomes(v, <<>>)

\* v.insert(pos, w), v.remove(at, len)
Insert(v, pos, w) == /\ pos <= Len(val[v])
                     /\ Becomes(v, Part(val[v], 0, pos) \o val[w] \o From(val[v], pos))
Remove(v, at, len) == /\ at + len <= Len(val[v])
                      /\ Becomes(v, Part(val[v], 0, at) \o From(val[v], at + len))
==============================================================================
