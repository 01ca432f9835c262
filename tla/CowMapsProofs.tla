---------------------------- MODULE CowMapsProofs ----------------------------
(***************************************************************************)
(* Proofs about CowMaps.                                                   *)
(***************************************************************************)
EXTENDS CowMaps, FiniteSetTheorems, NatLemmas

\* A function on a set of keys is a map.
LEMMA MapOn ==
  ASSUME NEW K \in SUBSET Keys, NEW m \in [K -> Values]
  PROVE  m \in Maps
  BY DEF Maps

\* The keys of a map are keys.
LEMMA OnKeys ==
  ASSUME NEW m \in Maps
  PROVE  DOMAIN m \in SUBSET Keys /\ m \in [DOMAIN m -> Values]
  BY DEF Maps

\* The map without entries.
LEMMA NoEntriesIsMap == NoEntries \in Maps /\ DOMAIN NoEntries = {}
  <1>1. DOMAIN NoEntries = {}
    BY DEF NoEntries
  <1>2. NoEntries \in [1..0 -> Values] /\ 1..0 = {}
    BY DEF NoEntries
  <1>3. NoEntries \in [{} -> Values]
    BY <1>2
  <1> QED BY <1>1, <1>3, MapOn

\* insert gives a map.
LEMMA InsertIsMap ==
  ASSUME NEW m \in Maps, NEW k \in Keys, NEW x \in Values
  PROVE  /\ StdInsert(m, k, x) \in Maps
         /\ StdInsert(m, k, x) = IF k \in DOMAIN m THEN m ELSE Promised!With(m, k, x)
  <1>1. StdInsert(m, k, x) = [j \in DOMAIN m \cup {k} |-> IF j \in DOMAIN m THEN m[j] ELSE x]
    BY DEF StdInsert
  <1>2. StdInsert(m, k, x) \in [DOMAIN m \cup {k} -> Values]
    BY <1>1, OnKeys
  <1>3. DOMAIN m \cup {k} \in SUBSET Keys
    BY OnKeys
  <1>4. StdInsert(m, k, x) \in Maps
    BY <1>2, <1>3, MapOn
  <1>5. k \in DOMAIN m => StdInsert(m, k, x) = m
    BY <1>1, OnKeys
  <1>6. k \notin DOMAIN m => StdInsert(m, k, x) = Promised!With(m, k, x)
    BY <1>1, OnKeys DEF Promised!With
  <1> QED BY <1>4, <1>5, <1>6

\* erase gives a map.
LEMMA EraseIsMap ==
  ASSUME NEW m \in Maps, NEW k \in Keys
  PROVE  StdErase(m, k) \in Maps /\ StdErase(m, k) = Promised!Without(m, k)
  <1>1. StdErase(m, k) \in [DOMAIN m \ {k} -> Values]
    BY OnKeys DEF StdErase
  <1>2. DOMAIN m \ {k} \in SUBSET Keys
    BY OnKeys
  <1> QED BY <1>1, <1>2, MapOn DEF StdErase, Promised!Without

\* The first n of the entries: of those with the same key the first.
First(keys, k) == CHOOSE i \in DOMAIN keys : keys[i] = k /\ \A j \in 1..i - 1 : keys[j] # k
Prefix(keys, values, n) == [k \in {keys[i] : i \in 1..n} |-> values[First(keys, k)]]

\* The first position of a key, when it is new.
LEMMA FirstIsFirst ==
  ASSUME NEW N \in Nat, NEW keys \in [1..N -> Keys], NEW n \in 1..N, 
         \A j \in 1..n - 1 : keys[j] # keys[n]
  PROVE  First(keys, keys[n]) = n
  <1>1. ASSUME NEW i \in 1..N, keys[i] = keys[n], \A j \in 1..i - 1 : keys[j] # keys[n]
        PROVE  i = n
    <2>1. ~(i < n)
      BY <1>1
    <2>2. ~(n < i)
      BY <1>1
    <2> QED BY <2>1, <2>2
  <1> QED BY <1>1 DEF First

\* Every key of a list has a first position in it.
LEMMA FirstExists ==
  ASSUME NEW N \in Nat, NEW keys \in [1..N -> Keys], NEW n \in 1..N
  PROVE  First(keys, keys[n]) \in 1..N
  <1> DEFINE S == {i \in 1..N : keys[i] = keys[n]}
  <1>1. PICK i \in S : \A m \in S : i <= m
    <2>1. S \in SUBSET Nat /\ n \in S
      OBVIOUS
    <2> QED BY <2>1, LeastNatural
  <1>2. \A j \in 1..i - 1 : keys[j] # keys[i]
    BY <1>1
  <1>3. First(keys, keys[i]) = i
    BY <1>2, FirstIsFirst
  <1> QED BY <1>3

\* Inserting the pairs one by one keeps, for each key, the first: by induction.
LEMMA InsertedIsPrefix ==
  ASSUME NEW N \in Nat, NEW keys \in [1..N -> Keys], NEW values \in [1..N -> Values]
  PROVE  Len(keys) = N /\ Inserted(keys, values)[N] = Prefix(keys, values, N)
  <1> DEFINE Fills(m) == m = [n \in 0..N |-> IF n = 0 THEN NoEntries
                                            ELSE StdInsert(m[n - 1], keys[n], values[n])]
             G == [n \in 0..N |-> Prefix(keys, values, n)]
  <1>1. Len(keys) = N
    OBVIOUS
  <1>2. ASSUME NEW n \in 1..N
        PROVE  Prefix(keys, values, n) = StdInsert(Prefix(keys, values, n - 1), keys[n], values[n])
    <2>1. {keys[i] : i \in 1..n} = {keys[i] : i \in 1..n - 1} \cup {keys[n]}
      OBVIOUS
    <2>2. keys[n] \notin {keys[i] : i \in 1..n - 1} => First(keys, keys[n]) = n
      BY FirstIsFirst
    <2> QED BY <2>1, <2>2 DEF Prefix, StdInsert
  <1>3. Prefix(keys, values, 0) = NoEntries
    BY DEF Prefix, NoEntries
  <1>4. Fills(G)
    BY <1>2, <1>3
  <1>5. Fills(Inserted(keys, values))
    BY <1>1, <1>4 DEF Inserted
  <1>6. ASSUME NEW m, Fills(m) PROVE m[N] = G[N]
    <2> DEFINE S == {n \in Nat : n <= N => m[n] = G[n]}
    <2>1. \A n \in 0..N : m[n] = IF n = 0 THEN NoEntries
                               ELSE StdInsert(m[n - 1], keys[n], values[n])
      BY <1>6, Zenon
    <2>2. \A n \in 0..N : G[n] = IF n = 0 THEN NoEntries
                               ELSE StdInsert(G[n - 1], keys[n], values[n])
      BY <1>4, Zenon
    <2> HIDE DEF G
    <2>3. 0 \in S
      BY <2>1, <2>2
    <2>4. ASSUME NEW n \in S PROVE n + 1 \in S
      BY <2>1, <2>2
    <2>5. S \in SUBSET Nat
      OBVIOUS
    <2>6. S = Nat
      <3> HIDE DEF S
      <3> QED BY <2>3, <2>4, <2>5, NaturalsByInduction
    <2> QED BY <2>6
  <1> QED BY <1>1, <1>5, <1>6
-------------------------------------------------------------------------------
(***************************************************************************)
(* What the steps on bodies do.                                            *)
(***************************************************************************)
\* A new body is one that no variable refers to.
LEMMA NewBodyIsFree ==
  ASSUME TypeOK
  PROVE  NewBody \in Bodies /\ \A v \in Vars : body[v] # NewBody
  <1>1. \E b \in Bodies : b \notin Live
    BY CowMapsAssumption DEF TypeOK, Live, Users
  <1> QED BY <1>1 DEF NewBody, Live, Users

\* A body that is not shared has no other user.
LEMMA NotSharedIsAlone ==
  ASSUME TypeOK, NEW v \in Vars, ~ IsShared(v), NEW w \in Vars, body[w] = body[v]
  PROVE  w = v
  <1> DEFINE U == Users(body[v])
  <1>1. IsFiniteSet(U) /\ v \in U /\ w \in U
    BY CowMapsAssumption, FS_Subset DEF Users
  <1>2. Cardinality(U) \in Nat /\ ~(Cardinality(U) > 1)
    BY <1>1, FS_CardinalityType DEF IsShared, GetRefCount
  <1>3. Cardinality(U) = 1
    BY <1>1, <1>2, FS_EmptySet
  <1>4. \E x : U = {x}
    BY <1>1, <1>3, FS_Singleton
  <1> QED BY <1>1, <1>4

\* After Unshare the variable has a body that no other has, with the same entries.
LEMMA UnshareIsOwn ==
  ASSUME TypeOK, NEW v \in Vars
  PROVE  Unshare(v) \in Bodies /\ \A w \in Vars \ {v} : body[w] # Unshare(v)
  BY NewBodyIsFree, NotSharedIsAlone DEF Unshare, TypeOK

\* What the variables contain when one has taken another body.
LEMMA AssignContents ==
  ASSUME TypeOK, NEW v \in Vars, NEW b \in Bodies, NEW e \in [Bodies -> Maps], Assign(v, b, e)
  PROVE  /\ body' \in [Vars -> Bodies] /\ entries' \in [Bodies -> Maps]
         /\ body' = [body EXCEPT ![v] = b]
         /\ \A w \in Vars : Contents(w)' = IF w = v THEN e[b] ELSE e[body[w]]
  BY NoEntriesIsMap DEF Assign, TypeOK, Contents

\* Whoever assigns a body of his own changes nothing for the others.
OnlyChanges(v, m) ==
    /\ body' \in [Vars -> Bodies] /\ entries' \in [Bodies -> Maps]
    /\ \A w \in Vars \ {v} : body'[w] = body[w] /\ Contents(w)' = Contents(w)
    /\ Contents(v)' = m

\* A new body changes one variable.
LEMMA RenewChanges ==
  ASSUME TypeOK, NEW v \in Vars, NEW m \in Maps, Renew(v, m)
  PROVE  OnlyChanges(v, m)
  <1> DEFINE e == [entries EXCEPT ![NewBody] = m]
  <1>1. e \in [Bodies -> Maps]
    BY DEF TypeOK
  <1>2. \A w \in Vars : e[body[w]] = entries[body[w]]
    BY NewBodyIsFree DEF TypeOK
  <1>3. e[NewBody] = m
    BY NewBodyIsFree DEF TypeOK
  <1>4. Assign(v, NewBody, e)
    BY DEF Renew
  <1> HIDE DEF e
  <1>5. /\ body' \in [Vars -> Bodies] /\ entries' \in [Bodies -> Maps]
        /\ body' = [body EXCEPT ![v] = NewBody]
        /\ \A w \in Vars : Contents(w)' = IF w = v THEN e[NewBody] ELSE e[body[w]]
    BY <1>1, <1>4, NewBodyIsFree, AssignContents
  <1> QED BY <1>2, <1>3, <1>5 DEF OnlyChanges, Contents, TypeOK

\* A change after Unshare changes one variable.
LEMMA ChangeChanges ==
  ASSUME TypeOK, NEW v \in Vars, NEW m \in Maps, Change(v, m)
  PROVE  OnlyChanges(v, m)
  <1> DEFINE e == [entries EXCEPT ![Unshare(v)] = m]
  <1>1. e \in [Bodies -> Maps]
    BY DEF TypeOK
  <1>2. \A w \in Vars \ {v} : e[body[w]] = entries[body[w]]
    BY UnshareIsOwn DEF TypeOK
  <1>3. e[Unshare(v)] = m
    BY UnshareIsOwn DEF TypeOK
  <1>4. Assign(v, Unshare(v), e)
    BY DEF Change
  <1> HIDE DEF e
  <1>5. /\ body' \in [Vars -> Bodies] /\ entries' \in [Bodies -> Maps]
        /\ body' = [body EXCEPT ![v] = Unshare(v)]
        /\ \A w \in Vars : Contents(w)' = IF w = v THEN e[Unshare(v)] ELSE e[body[w]]
    BY <1>1, <1>4, UnshareIsOwn, AssignContents
  <1> QED BY <1>2, <1>3, <1>5 DEF OnlyChanges, Contents, TypeOK

\* v = w
LEMMA CopyChanges ==
  ASSUME TypeOK, NEW v \in Vars, NEW w \in Vars, Copy(v, w)
  PROVE  OnlyChanges(v, Contents(w))
  BY AssignContents DEF Copy, OnlyChanges, Contents, TypeOK

\* put does, where the map it is called on is not shared or has no such entry.
LEMMA PutChanges ==
  ASSUME TypeOK, ~ Puts, NEW v \in Vars, NEW k \in Keys, NEW x \in Values, Put(v, k, x)
  PROVE  OnlyChanges(v, Promised!With(Contents(v), k, x))
  <1> DEFINE erased == StdErase(Contents(v), k)
             e == [entries EXCEPT ![body[v]] = erased, ![Unshare(v)] = StdInsert(erased, k, x)]
  <1>1. Contents(v) \in Maps
    BY DEF TypeOK, Contents
  <1>2. erased \in Maps /\ k \notin DOMAIN erased
    BY <1>1, EraseIsMap DEF StdErase
  <1>3. StdInsert(erased, k, x) \in Maps
    BY <1>2, InsertIsMap
  <1>4. StdInsert(erased, k, x) = Promised!With(Contents(v), k, x)
    BY <1>1, OnKeys DEF StdInsert, StdErase, Promised!With
  <1>5. k \notin DOMAIN Contents(v) => erased = Contents(v)
    BY <1>1, OnKeys DEF StdErase
  <1> HIDE DEF erased
  <1>6. e \in [Bodies -> Maps] /\ e[Unshare(v)] = StdInsert(erased, k, x)
    BY <1>2, <1>3, UnshareIsOwn DEF TypeOK
  <1>7. ASSUME NEW w \in Vars \ {v} PROVE e[body[w]] = entries[body[w]]
    <2>1. CASE IsShared(v)
      <3>1. erased = Contents(v)
        BY <2>1, <1>5 DEF Put
      <3> QED BY <3>1, UnshareIsOwn DEF TypeOK, Contents
    <2>2. CASE ~ IsShared(v)
      BY <2>2, NotSharedIsAlone, UnshareIsOwn DEF TypeOK
    <2> QED BY <2>1, <2>2
  <1>8. Assign(v, Unshare(v), e)
    BY DEF Put, erased
  <1> HIDE DEF e
  <1>9. /\ body' \in [Vars -> Bodies] /\ entries' \in [Bodies -> Maps]
        /\ body' = [body EXCEPT ![v] = Unshare(v)]
        /\ \A w \in Vars : Contents(w)' = IF w = v THEN e[Unshare(v)] ELSE e[body[w]]
    BY <1>6, <1>8, UnshareIsOwn, AssignContents
  <1> QED BY <1>4, <1>6, <1>7, <1>9 DEF OnlyChanges, Contents, TypeOK

\* CowMap(keys, values)
LEMMA ConstructChanges ==
  ASSUME TypeOK, NEW v \in Vars, NEW n \in Lists,
         NEW keys \in [1..n -> Keys], NEW values \in [1..n -> Values], Construct(v, keys, values)
  PROVE  OnlyChanges(v, Prefix(keys, values, n))
  <1>1. n \in Nat
    BY CowMapsAssumption
  <1>2. Prefix(keys, values, n) \in [{keys[i] : i \in 1..n} -> Values]
    BY <1>1, FirstExists DEF Prefix
  <1>3. {keys[i] : i \in 1..n} \in SUBSET Keys
    BY <1>1
  <1>4. Prefix(keys, values, n) \in Maps
    BY <1>2, <1>3, MapOn
  <1>5. Renew(v, Prefix(keys, values, n))
    BY <1>1, InsertedIsPrefix DEF Construct
  <1> QED BY <1>4, <1>5, RenewChanges

\* v.clear()
LEMMA ClearChanges ==
  ASSUME TypeOK, NEW v \in Vars, Clear(v)
  PROVE  OnlyChanges(v, NoEntries)
  BY NoEntriesIsMap, RenewChanges DEF Clear

\* v.insert(k, x)
LEMMA InsertChanges ==
  ASSUME TypeOK, NEW v \in Vars, NEW k \in Keys, NEW x \in Values, Insert(v, k, x)
  PROVE  OnlyChanges(v, StdInsert(Contents(v), k, x))
  <1>1. StdInsert(Contents(v), k, x) \in Maps
    BY InsertIsMap DEF TypeOK, Contents
  <1> QED BY <1>1, ChangeChanges DEF Insert

\* v.remove(k)
LEMMA RemoveChanges ==
  ASSUME TypeOK, NEW v \in Vars, NEW k \in Keys, Remove(v, k)
  PROVE  OnlyChanges(v, StdErase(Contents(v), k))
  <1>1. StdErase(Contents(v), k) \in Maps
    BY EraseIsMap DEF TypeOK, Contents
  <1> QED BY <1>1, ChangeChanges DEF Remove
-------------------------------------------------------------------------------
(***************************************************************************)
(* The invariant: the variable that is looped over keeps its body, and the *)
(* body its entries.                                                       *)
(***************************************************************************)
LoopInv == iter # NoLoop => iter.body = body[iter.var] /\ iter.key \in DOMAIN entries[iter.body]

IInv == TypeOK /\ LoopInv

\* An operation on a variable that is not looped over keeps the invariant.
LEMMA OnlyChangesStep ==
  ASSUME IInv, NEW v \in Vars, NEW m, OnlyChanges(v, m), MayChange(v), UNCHANGED iter
  PROVE  /\ IInv'
         /\ iter # NoLoop => entries'[iter'.body] = entries[iter.body]
  <1>1. CASE iter = NoLoop
    BY <1>1 DEF IInv, TypeOK, LoopInv, OnlyChanges
  <1>2. CASE iter # NoLoop
    <2>1. iter.var \in Vars \ {v}
      BY <1>2 DEF IInv, TypeOK, MayChange
    <2>2. body'[iter.var] = body[iter.var] /\ entries'[body'[iter.var]] = entries[body[iter.var]]
      BY <2>1 DEF OnlyChanges, Contents
    <2> QED BY <1>2, <2>1, <2>2 DEF IInv, TypeOK, LoopInv, OnlyChanges
  <1> QED BY <1>1, <1>2

\* The operations.
Operate(v) ==
    \/ \E n \in Lists : \E keys \in [1..n -> Keys], values \in [1..n -> Values] :
           Construct(v, keys, values)
    \/ \E w \in Vars : Copy(v, w)
    \/ Clear(v)
    \/ \E k \in Keys, x \in Values : Insert(v, k, x) \/ Put(v, k, x)
    \/ \E k \in Keys : Remove(v, k)

\* Every operation on a variable keeps the invariant.
LEMMA OperateStep ==
  ASSUME IInv, ~ Puts, NEW v \in Vars, Operate(v)
  PROVE  /\ IInv'
         /\ iter # NoLoop => entries'[iter'.body] = entries[iter.body]
  <1>1. MayChange(v) /\ UNCHANGED iter
    BY DEF Operate, Construct, Copy, Clear, Insert, Put, Remove
  <1>2. \E m : OnlyChanges(v, m)
    BY ConstructChanges, CopyChanges, ClearChanges, InsertChanges, PutChanges, RemoveChanges
       DEF Operate, IInv
  <1> QED BY <1>1, <1>2, OnlyChangesStep

\* A loop goes to the least of the keys that are left.
LEMMA AtStep ==
  ASSUME IInv, NEW v \in Vars, NEW K \in SUBSET DOMAIN entries[body[v]], At(v, body[v], K),
         UNCHANGED <<body, entries>>
  PROVE  IInv' /\ (iter' # NoLoop => iter'.body = body[v])
  <1>1. DOMAIN entries[body[v]] \subseteq Keys /\ body[v] \in Bodies
    BY OnKeys DEF IInv, TypeOK
  <1>2. K # {} => LeastOf(K) \in K
    <2> SUFFICES ASSUME K # {} PROVE LeastOf(K) \in K
      OBVIOUS
    <2>1. K \in SUBSET Nat
      BY <1>1, CowMapsAssumption
    <2> QED BY <2>1, LeastNatural DEF LeastOf
  <1> QED BY <1>1, <1>2 DEF At, IInv, TypeOK, LoopInv

\* begin() gives a valid iterator, or no loop.
LEMMA BeginStep ==
  ASSUME IInv, NEW v \in Vars, Begin(v)
  PROVE  IInv'
  BY AtStep DEF Begin, Contents

\* Stepping on gives a valid iterator, or ends the loop.
LEMMA AdvanceStep ==
  ASSUME IInv, Advance
  PROVE  IInv' /\ (iter' # NoLoop => entries'[iter'.body] = entries[iter.body])
  <1>1. PICK v \in Vars : v = iter.var /\ body[v] = iter.body
    BY DEF Advance, IInv, TypeOK, LoopInv
  <1>2. PICK K \in SUBSET DOMAIN entries[body[v]] :
            K = {k \in DOMAIN entries[iter.body] : k > iter.key}
    BY <1>1
  <1> QED BY <1>1, <1>2, AtStep DEF Advance

\* Every step keeps the invariant.
LEMMA NextStep ==
  ASSUME IInv, ~ Puts, [Next]_vars
  PROVE  IInv' /\ (iter # NoLoop /\ iter' # NoLoop => entries'[iter'.body] = entries[iter.body])
  <1>1. CASE UNCHANGED vars
    BY <1>1 DEF vars, IInv, TypeOK, LoopInv
  <1>2. ASSUME NEW v \in Vars, Begin(v)
        PROVE  IInv' /\ (iter # NoLoop /\ iter' # NoLoop => entries'[iter'.body] = entries[iter.body])
    BY <1>2, BeginStep DEF Begin
  <1>3. Next => Advance \/ \E v \in Vars : Operate(v) \/ Begin(v)
    BY DEF Next, Operate
  <1> QED BY <1>1, <1>2, <1>3, OperateStep, AdvanceStep

\* The invariant, of a program that does not put through an iterator.
THEOREM Invariance ==
  ASSUME ~ Puts
  PROVE  Spec => []IInv
  <1>1. Init => IInv
    BY NoEntriesIsMap DEF Init, IInv, TypeOK, LoopInv
  <1>2. IInv /\ [Next]_vars => IInv'
    BY NextStep
  <1> QED BY <1>1, <1>2, PTL DEF Spec

\* CowMap (cowmap.h): every variable has a body, and a loop stands at a key of one.
THEOREM TypeCorrect ==
  ASSUME ~ Puts
  PROVE  Spec => []TypeOK
  <1>1. IInv => TypeOK
    BY DEF IInv
  <1>2. Spec => []IInv
    BY Invariance
  <1> QED BY <1>1, <1>2, PTL

\* begin, end and the iterator (cowmap.h): "Mutating a CowMap while iterating will
\* mutate a fresh Body".
THEOREM IteratorsStayValid ==
  ASSUME ~ Puts
  PROVE  Spec => []IteratorValid
  <1>1. IInv => IteratorValid
    BY DEF IInv, TypeOK, LoopInv, IteratorValid, Live, Users
  <1>2. Spec => []IInv
    BY Invariance
  <1> QED BY <1>1, <1>2, PTL

\* The same: a loop sees the entries of the map it was begun on.
THEOREM LoopsSeeOneMap ==
  ASSUME ~ Puts
  PROVE  Spec => LoopSeesOneMap
  <1>1. IInv /\ [Next]_vars =>
            [iter # NoLoop /\ iter' # NoLoop => entries'[iter'.body] = entries[iter.body]]_vars
    BY NextStep
  <1>2. Spec => []IInv
    BY Invariance
  <1> QED BY <1>1, <1>2, PTL DEF Spec, LoopSeesOneMap

-------------------------------------------------------------------------------
(***************************************************************************)
(* Every operation does what MapValues promises.                           *)
(***************************************************************************)
LEMMA ChangesBecome ==
  ASSUME NEW v \in Vars, NEW m, OnlyChanges(v, m)
  PROVE  Promised!Becomes(v, m)
  BY DEF OnlyChanges, Promised!Becomes

\* Every operation does to its variable what it would do to a map of its own.
LEMMA OperateKeepsPromise ==
  ASSUME TypeOK, ~ Puts, NEW v \in Vars
  PROVE  /\ \A n \in Lists : \A keys \in [1..n -> Keys], values \in [1..n -> Values] :
                Construct(v, keys, values) => Promised!Construct(v, keys, values)
         /\ \A w \in Vars : Copy(v, w) => Promised!Copy(v, w)
         /\ Clear(v) => Promised!Clear(v)
         /\ \A k \in Keys : Remove(v, k) => Promised!Remove(v, k)
         /\ \A k \in Keys, x \in Values :
               /\ Insert(v, k, x) => Promised!Insert(v, k, x)
               /\ Put(v, k, x) => Promised!Put(v, k, x)
  <1>1. ASSUME NEW n \in Lists, NEW keys \in [1..n -> Keys], NEW values \in [1..n -> Values],
               Construct(v, keys, values)
        PROVE  Promised!Construct(v, keys, values)
    <2>1. Promised!Becomes(v, Prefix(keys, values, n))
      BY <1>1, ConstructChanges, ChangesBecome
    <2> QED BY <2>1 DEF Promised!Construct, Prefix, First
  <1>2. ASSUME NEW w \in Vars, Copy(v, w) PROVE Promised!Copy(v, w)
    BY <1>2, CopyChanges, ChangesBecome DEF Promised!Copy
  <1>3. ASSUME Clear(v) PROVE Promised!Clear(v)
    BY <1>3, ClearChanges, ChangesBecome DEF Promised!Clear, NoEntries, Promised!NoEntries
  <1>4. ASSUME NEW k \in Keys, Remove(v, k) PROVE Promised!Remove(v, k)
    <2>1. Contents(v) \in Maps
      BY DEF TypeOK, Contents
    <2> QED BY <1>4, <2>1, EraseIsMap, RemoveChanges, ChangesBecome DEF Promised!Remove
  <1>5. ASSUME NEW k \in Keys, NEW x \in Values PROVE Insert(v, k, x) => Promised!Insert(v, k, x)
    <2>1. Contents(v) \in Maps
      BY DEF TypeOK, Contents
    <2> QED BY <2>1, InsertIsMap, InsertChanges, ChangesBecome DEF Promised!Insert
  <1>6. ASSUME NEW k \in Keys, NEW x \in Values PROVE Put(v, k, x) => Promised!Put(v, k, x)
    BY PutChanges, ChangesBecome DEF Promised!Put
  <1> QED BY <1>1, <1>2, <1>3, <1>4, <1>5, <1>6

\* CowMap (cowmap.h): every variable behaves as a map of its own, if put is not
\* called on a shared map that has the key.
THEOREM MapsAreValues ==
  ASSUME ~ Puts
  PROVE  Spec => ByValue
  <1>1. Init => Promised!Init
    BY DEF Init, Promised!Init, Contents, NoEntries, Promised!NoEntries
  <1>2. IInv /\ [Next]_vars =>
           [\A v \in Vars :
              /\ \A n \in Lists : \A keys \in [1..n -> Keys], values \in [1..n -> Values] :
                     Construct(v, keys, values) => Promised!Construct(v, keys, values)
              /\ \A w \in Vars : Copy(v, w) => Promised!Copy(v, w)
              /\ Clear(v) => Promised!Clear(v)
              /\ \A k \in Keys : Remove(v, k) => Promised!Remove(v, k)
              /\ \A k \in Keys, x \in Values :
                    /\ Insert(v, k, x) => Promised!Insert(v, k, x)
                    /\ Put(v, k, x) => Promised!Put(v, k, x)]_vars
    BY OperateKeepsPromise DEF IInv
  <1>3. Spec => []IInv
    BY Invariance
  <1> QED BY <1>1, <1>2, <1>3, PTL DEF Spec, ByValue
==============================================================================
