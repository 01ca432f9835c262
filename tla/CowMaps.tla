------------------------------- MODULE CowMaps -------------------------------
(***************************************************************************)
(* include/cowmap.h: CowMap variables over shared bodies, each of which is *)
(* a std::map with a reference count, and a loop over one of the maps with *)
(* begin(), end() and the iterator between them.                           *)
(*                                                                         *)
(* A body has its reference count from RefCount.tla: the variables that    *)
(* refer to it.  A body without references is deleted; its address is used *)
(* again.  keys, values, each, all, any, one, select, map and inject do    *)
(* not compile when they are instantiated and are left out.                *)
(***************************************************************************)
EXTENDS Naturals, Sequences, FiniteSets

CONSTANTS
    Vars,          \* the CowMap variables of the program
    Bodies,        \* the addresses of bodies
    Keys, Values,  \* what a map can hold
    Lists,         \* the sizes of the arrays that maps are constructed from
    None,          \* no body
    Puts           \* the program calls put on shared maps that have the key

\* There is always room for one more body.
ASSUME CowMapsAssumption ==
    /\ Keys \subseteq Nat /\ Lists \subseteq Nat
    /\ None \notin Vars \cup Bodies
    /\ Puts \in BOOLEAN
    /\ IsFiniteSet(Vars)
    /\ \A f \in [Vars -> Bodies] : \E b \in Bodies : \A v \in Vars : f[v] # b

VARIABLES body,    \* CowMap::body of each variable
          entries, \* the std::map in each body
          iter     \* the loop: its variable, and the body and entry it is at

vars == <<body, entries, iter>>

NoEntries == <<>>
NoLoop == [var |-> None, body |-> None, key |-> 0]

Maps == UNION {[K -> Values] : K \in SUBSET Keys}

TypeOK == /\ body \in [Vars -> Bodies]
          /\ entries \in [Bodies -> Maps]
          /\ iter \in {NoLoop} \cup [var : Vars, body : Bodies, key : Keys]

\* CowMap(): a body of its own for each variable.
Init == /\ body \in {f \in [Vars -> Bodies] : \A v, w \in Vars : v # w => f[v] # f[w]}
        /\ entries = [b \in Bodies |-> NoEntries]
        /\ iter = NoLoop
-------------------------------------------------------------------------------
Users(b) == {v \in Vars : body[v] = b}
GetRefCount(b) == Cardinality(Users(b))
Live == {b \in Bodies : Users(b) # {}}

NewBody == CHOOSE b \in Bodies : b \notin Live

Contents(v) == entries[body[v]]

\* v refers to b from now on; the contents of the bodies are e, except that
\* those without references are deleted.
Assign(v, b, e) ==
    /\ body' = [body EXCEPT ![v] = b]
    /\ entries' = [x \in Bodies |-> IF \E u \in Vars : body'[u] = x THEN e[x] ELSE NoEntries]

\* body = new Body with these entries
Renew(v, m) == Assign(v, NewBody, [entries EXCEPT ![NewBody] = m])

\* std::map::insert keeps an entry that is there.
StdInsert(m, k, x) == [j \in DOMAIN m \cup {k} |-> IF j \in DOMAIN m THEN m[j] ELSE x]
StdErase(m, k) == [j \in DOMAIN m \ {k} |-> m[j]]

\* CowMap::Unshare: the address of the body that may be changed; when it is a
\* new one, the contents are copied.
\* (Mutants: one other reference is overlooked; nothing is ever copied.)
IsWidelyShared(v) == GetRefCount(body[v]) > 2
NeverShared(v) == FALSE

IsShared(v) == GetRefCount(body[v]) > 1
Unshare(v) == IF IsShared(v) THEN NewBody ELSE body[v]

\* Unshare(); then change the body.
Change(v, m) == Assign(v, Unshare(v), [entries EXCEPT ![Unshare(v)] = m])

\* The program does not change the map it is looping over.
MayChange(v) == iter.var # v
-------------------------------------------------------------------------------
\* CowMap(keys, values, size) inserts one entry after the other.
Inserted(keys, values) ==
    LET m[n \in 0..Len(keys)] ==
            IF n = 0 THEN NoEntries ELSE StdInsert(m[n - 1], keys[n], values[n])
    IN  m

Construct(v, keys, values) ==
    /\ MayChange(v)
    /\ Renew(v, Inserted(keys, values)[Len(keys)])
    /\ UNCHANGED iter

\* operator=, and the copy constructor
Copy(v, w) ==
    /\ MayChange(v)
    /\ Assign(v, body[w], entries)
    /\ UNCHANGED iter

Clear(v) == MayChange(v) /\ Renew(v, NoEntries) /\ UNCHANGED iter

Insert(v, k, x) ==
    /\ MayChange(v)
    /\ Change(v, StdInsert(Contents(v), k, x))
    /\ UNCHANGED iter

Remove(v, k) ==
    /\ MayChange(v)
    /\ Change(v, StdErase(Contents(v), k))
    /\ UNCHANGED iter

\* put: erases the entry from the body, and then calls insert, which unshares
\* what is left.
Put(v, k, x) ==
    LET erased == StdErase(Contents(v), k)
    IN  /\ MayChange(v)
        /\ Puts \/ ~ IsShared(v) \/ k \notin DOMAIN Contents(v)
        /\ Assign(v, Unshare(v),
                  [entries EXCEPT ![body[v]] = erased, ![Unshare(v)] = StdInsert(erased, k, x)])
        /\ UNCHANGED iter

\* for (auto it = v.begin(); it != v.end(); it++)
LeastOf(K) == CHOOSE k \in K : \A j \in K : k <= j

At(v, b, K) == iter' = IF K = {} THEN NoLoop ELSE [var |-> v, body |-> b, key |-> LeastOf(K)]

Begin(v) ==
    /\ iter = NoLoop
    /\ At(v, body[v], DOMAIN Contents(v))
    /\ UNCHANGED <<body, entries>>

\* (Mutant: the loop does not look for the end.)
AdvanceBlindly ==
    /\ iter # NoLoop
    /\ iter' = [iter EXCEPT !.key = @ + 1]
    /\ UNCHANGED <<body, entries>>

Advance ==
    /\ iter # NoLoop
    /\ At(iter.var, iter.body, {k \in DOMAIN entries[iter.body] : k > iter.key})
    /\ UNCHANGED <<body, entries>>

Next == \/ \E v \in Vars :
              \/ \E n \in Lists : \E keys \in [1..n -> Keys], values \in [1..n -> Values] :
                     Construct(v, keys, values)
              \/ \E w \in Vars : Copy(v, w)
              \/ Clear(v)
              \/ \E k \in Keys, x \in Values : Insert(v, k, x) \/ Put(v, k, x)
              \/ \E k \in Keys : Remove(v, k)
              \/ Begin(v)
        \/ Advance

Spec == Init /\ [][Next]_vars
-------------------------------------------------------------------------------
\* The loop stands at an entry that is there, in a body that has not been
\* deleted, though an iterator holds no reference: "Mutating a CowMap while
\* iterating will mutate a fresh Body".
IteratorValid ==
    iter # NoLoop => iter.body \in Live /\ iter.key \in DOMAIN entries[iter.body]

\* Every operation does to the map it is called on what its name says, and
\* nothing to the others: "the entire map is copied before your change is
\* attempted".
Promised == INSTANCE MapValues WITH val <- [v \in Vars |-> Contents(v)]

ByValue ==
    Promised!Init /\ [][\A v \in Vars :
        /\ \A n \in Lists : \A keys \in [1..n -> Keys], values \in [1..n -> Values] :
               Construct(v, keys, values) => Promised!Construct(v, keys, values)
        /\ \A w \in Vars : Copy(v, w) => Promised!Copy(v, w)
        /\ Clear(v) => Promised!Clear(v)
        /\ \A k \in Keys : Remove(v, k) => Promised!Remove(v, k)
        /\ \A k \in Keys, x \in Values :
              /\ Insert(v, k, x) => Promised!Insert(v, k, x)
              /\ Put(v, k, x) => Promised!Put(v, k, x)]_vars

\* A loop visits the entries of the map it was begun on, whatever happens to
\* the variables that share its body.
LoopSeesOneMap ==
    [][iter # NoLoop /\ iter' # NoLoop => entries'[iter'.body] = entries[iter.body]]_vars
==============================================================================
