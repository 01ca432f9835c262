---------------------------- MODULE RefCountProofs ----------------------------
(***************************************************************************)
(* Proofs about RefCount, for any number of threads, variables, addresses  *)
(* and contents.                                                           *)
(***************************************************************************)
EXTENDS RefCount, FiniteSetTheorems, TLAPS

\* No variable and no operation in progress holds a counted reference to b.
Unheld(b) == /\ \A v \in Vars : ptr[v] # b
             /\ \A t \in Threads : ~InFlight(t, b)

\* No thread but t is about to count its first reference to b or to delete b.
NobodyElse(t, b) ==
    \A u \in Threads \ {t} : /\ ~(pc[u] = "AddRef" /\ o[u] = b)
                             /\ ~(pc[u] = "Delete" /\ old[u] = b)

\* What the locals of an operation hold at each of its steps.
RegInv ==
    \A t \in Threads :
        /\ pc[t] = "AddRef" => o[t] \in Bodies
        /\ pc[t] = "Store" /\ other[t] = Null => o[t] \in Bodies
        /\ pc[t] \in {"Release", "Decrement", "Delete"} => old[t] \in Bodies
        /\ pc[t] \in {"AddRef", "Store", "Copy", "Mutate"} =>
               var[t] \in Vars /\ owner[var[t]] = t
        /\ pc[t] = "Read" => var[t] \in Vars /\ Readable(t, var[t])
        /\ pc[t] \in {"Copy", "Mutate", "Read"} => ptr[var[t]] # Null
        /\ pc[t] \in {"Copy", "Mutate"} => mutating[t]
        /\ mutating[t] =>
               /\ pc[t] \notin {"idle", "Read"}
               /\ var[t] \in Vars /\ owner[var[t]] = t
               /\ ptr[var[t]] # Null
               /\ other[t] = Null
        /\ other[t] # Null =>
               /\ pc[t] \in {"AddRef", "Store"}
               /\ Readable(t, other[t]) /\ o[t] = ptr[other[t]]

\* What is referred to, or about to be, is allocated, and so has contents.
HeapInv ==
    /\ \A b \in Bodies \ heap : Unheld(b)
    /\ \A b \in heap : data[b] \in Data
    /\ \A t \in Threads : /\ pc[t] = "AddRef" => o[t] \in heap
                          /\ pc[t] = "Delete" => old[t] \in heap

\* A new body belongs to the thread that made it, a body whose count fell to
\* zero to the thread that will delete it.
FreshInv ==
    \A t \in Threads : pc[t] = "AddRef" /\ other[t] = Null =>
        Unheld(o[t]) /\ NobodyElse(t, o[t])

DoomedInv ==
    \A t \in Threads : pc[t] = "Delete" =>
        Unheld(old[t]) /\ NobodyElse(t, old[t])

\* Every allocated body without a reference is one or the other.
LeakInv ==
    \A b \in heap : Unheld(b) =>
        \E t \in Threads : \/ pc[t] = "AddRef" /\ o[t] = b
                           \/ pc[t] = "Delete" /\ old[t] = b

\* From the moment an operation that changes a body has one of its own, its
\* reference is the only one.
SoleInv ==
    \A t \in Threads : mutating[t] =>
        /\ pc[t] = "Store" =>
               /\ \A v \in Vars : ptr[v] # o[t]
               /\ \A u \in Threads \ {t} : ~InFlight(u, o[t])
        /\ pc[t] \in {"Release", "Decrement", "Delete", "Mutate"} =>
               /\ \A v \in Vars : ptr[v] = ptr[var[t]] => v = var[t]
               /\ \A u \in Threads : ~InFlight(u, ptr[var[t]])

\* While a body of its own is being made for a variable, nothing changes the one
\* it is copied from.
CopyInv ==
    \A t \in Threads : mutating[t] /\ pc[t] \in {"AddRef", "Store"} =>
        data[o[t]] = data[ptr[var[t]]]

IInv == /\ TypeOK /\ RegInv /\ HeapInv /\ FreshInv /\ DoomedInv
        /\ LeakInv /\ SoleInv /\ CopyInv /\ CountIsReferences
-------------------------------------------------------------------------------
LEMMA HoldersFinite == \A b : IsFiniteSet(Holders(b))
  <1> SUFFICES ASSUME NEW b PROVE IsFiniteSet(Holders(b))
    OBVIOUS
  <1>1. IsFiniteSet(Vars \cup Threads)
    BY FS_Union, RefCountAssumption
  <1>2. Holders(b) \subseteq Vars \cup Threads
    BY DEF Holders
  <1> QED BY <1>1, <1>2, FS_Subset

\* A count of zero means no reference, a count of one a single one: what lets
\* Release delete the body and Unshare leave it in place.
LEMMA CountMeaning ==
  ASSUME CountIsReferences, TypeOK, NEW b \in Bodies
  PROVE  /\ ref_count[b] = 0 <=> Holders(b) = {}
         /\ ref_count[b] = 1 <=> \E x : Holders(b) = {x}
  <1>1. ref_count[b] = Cardinality(Holders(b)) /\ IsFiniteSet(Holders(b))
    BY HoldersFinite DEF CountIsReferences
  <1> QED BY <1>1, FS_EmptySet, FS_Singleton

\* One more reference.
LEMMA AddOne ==
  ASSUME NEW S, IsFiniteSet(S), NEW x, x \notin S
  PROVE  Cardinality(S \cup {x}) = Cardinality(S) + 1
  BY FS_AddElement

\* Replacing one reference by another leaves the number as it is.
LEMMA Exchange ==
  ASSUME NEW S, IsFiniteSet(S), NEW x \in S, NEW y, y \notin S
  PROVE  Cardinality((S \ {x}) \cup {y}) = Cardinality(S)
  <1>1. IsFiniteSet(S \ {x}) /\ Cardinality(S \ {x}) = Cardinality(S) - 1
    BY FS_RemoveElement
  <1>2. Cardinality((S \ {x}) \cup {y}) = Cardinality(S \ {x}) + 1
    BY <1>1, FS_AddElement
  <1> QED BY <1>1, <1>2, FS_CardinalityType

\* A body that is not allocated has a count of zero.
LEMMA FreeCount ==
  ASSUME IInv, NEW b \in Bodies \ heap
  PROVE  ref_count[b] = 0
  <1>1. Holders(b) = {}
    BY DEF IInv, HeapInv, Unheld, Holders
  <1> QED BY <1>1, CountMeaning DEF IInv

\* The count of a body that x refers to is one only if nothing else does.
LEMMA HeldCount ==
  ASSUME CountIsReferences, TypeOK, NEW b \in Bodies, NEW x \in Holders(b)
  PROVE  /\ ref_count[b] \in Nat \ {0}
         /\ ref_count[b] = 1 <=> Holders(b) = {x}
  <1>1. ref_count[b] \in Nat
    BY DEF TypeOK
  <1> QED BY <1>1, CountMeaning

\* The steps that neither count nor move a reference.
LEMMA SameHolders ==
  ASSUME CountIsReferences,
         \A b \in Bodies : Holders(b)' = Holders(b) /\ ref_count'[b] = ref_count[b]
  PROVE  CountIsReferences'
  BY DEF CountIsReferences
-------------------------------------------------------------------------------
(***************************************************************************)
(* Each action preserves the invariant.                                    *)
(***************************************************************************)
USE RefCountAssumption
    DEF IInv, TypeOK, Labels, RegInv, HeapInv, FreshInv, DoomedInv, LeakInv,
        SoleInv, CopyInv, Unheld, InFlight, NobodyElse, Readable, Goto, regs

LEMMA AssignNewStep ==
  ASSUME IInv, NEW t \in Threads, NEW v \in Vars, NEW d \in Data, AssignNew(t, v, d)
  PROVE  IInv'
  <1> USE DEF AssignNew, New
  <1>1. TypeOK'
    BY SMTT(30)
  <1>2. RegInv'
    BY SMTT(30)
  <1>3. HeapInv'
    BY SMTT(30)
  <1>4. FreshInv'
    BY SMTT(30)
  <1>5. DoomedInv'
    BY SMTT(30)
  <1>6. LeakInv'
    BY SMTT(30)
  <1>7. SoleInv'
    BY SMTT(30)
  <1>8. CopyInv'
    BY SMTT(30)
  <1>9. CountIsReferences'
    <2>1. ASSUME NEW b \in Bodies PROVE ref_count'[b] = ref_count[b]
      BY FreeCount
    <2>2. \A b \in Bodies : Holders(b)' = Holders(b)
      BY DEF Holders
    <2> QED BY <2>1, <2>2, SameHolders
  <1> QED BY <1>1, <1>2, <1>3, <1>4, <1>5, <1>6, <1>7, <1>8, <1>9 DEF IInv

LEMMA AssignStep ==
  ASSUME IInv, NEW t \in Threads, NEW v \in Vars, NEW w \in Vars, Assign(t, v, w)
  PROVE  IInv'
  <1> USE DEF Assign
  <1>1. TypeOK'
    BY SMTT(30)
  <1>2. RegInv'
    BY SMTT(30)
  <1>3. HeapInv'
    BY SMTT(30)
  <1>4. FreshInv'
    BY SMTT(30)
  <1>5. DoomedInv'
    BY SMTT(30)
  <1>6. LeakInv'
    BY SMTT(30)
  <1>7. SoleInv'
    BY SMTT(30)
  <1>8. CopyInv'
    BY SMTT(30)
  <1>9. CountIsReferences'
    <2>1. \A b \in Bodies : Holders(b)' = Holders(b) /\ ref_count'[b] = ref_count[b]
      BY DEF Holders
    <2> QED BY <2>1, SameHolders
  <1> QED BY <1>1, <1>2, <1>3, <1>4, <1>5, <1>6, <1>7, <1>8, <1>9 DEF IInv

LEMMA AddRefStep ==
  ASSUME IInv, NEW t \in Threads, AddRef(t)
  PROVE  IInv'
  <1> USE DEF AddRef
  <1>1. TypeOK'
    BY SMTT(30)
  <1>2. RegInv'
    BY SMTT(30)
  <1>3. HeapInv'
    BY SMTT(30)
  <1>4. FreshInv'
    BY SMTT(30)
  <1>5. DoomedInv'
    BY SMTT(30)
  <1>6. LeakInv'
    BY SMTT(30)
  <1>7. SoleInv'
    BY SMTT(30)
  <1>8. CopyInv'
    BY SMTT(30)
  <1>9. CountIsReferences'
    <2> SUFFICES ASSUME NEW b \in Bodies
                 PROVE  ref_count'[b] = Cardinality(Holders(b)')
      BY DEF CountIsReferences
    <2>1. ref_count[b] = Cardinality(Holders(b)) /\ IsFiniteSet(Holders(b))
      BY HoldersFinite DEF CountIsReferences
    <2>2. CASE b = o[t]
      <3>1. Holders(b)' = Holders(b) \cup {t} /\ t \notin Holders(b)
        BY <2>2 DEF Holders
      <3>2. ref_count'[b] = ref_count[b] + 1
        BY <2>2
      <3>3. Cardinality(Holders(b)') = Cardinality(Holders(b)) + 1
        BY <2>1, <3>1, AddOne
      <3> QED BY <2>1, <3>2, <3>3
    <2>3. CASE b # o[t]
      <3>1. Holders(b)' = Holders(b)
        BY <2>3 DEF Holders
      <3> QED BY <2>1, <2>3, <3>1
    <2> QED BY <2>2, <2>3
  <1> QED BY <1>1, <1>2, <1>3, <1>4, <1>5, <1>6, <1>7, <1>8, <1>9 DEF IInv

LEMMA StoreStep ==
  ASSUME IInv, NEW t \in Threads, Store(t)
  PROVE  IInv'
  <1> USE DEF Store, Continue, AddRefAsserts
  <1>1. TypeOK'
    BY SMTT(30)
  <1>2. RegInv'
    BY SMTT(30)
  <1>3. HeapInv'
    BY SMTT(30)
  <1>4. FreshInv'
    BY SMTT(30)
  <1>5. DoomedInv'
    BY SMTT(30)
  <1>6. LeakInv'
    BY SMTT(30)
  <1>7. SoleInv'
    BY SMTT(30)
  <1>8. CopyInv'
    BY SMTT(30)
  <1>9. CountIsReferences'
    <2> SUFFICES ASSUME NEW b \in Bodies
                 PROVE  Cardinality(Holders(b)') = Cardinality(Holders(b))
      BY DEF CountIsReferences
    <2>1. IsFiniteSet(Holders(b))
      BY HoldersFinite
    <2> DEFINE v == var[t]
    <2>2. v \in Vars /\ v # t /\ v \notin Threads /\ t \notin Vars
      OBVIOUS
    <2>3. CASE b = o[t] /\ b # ptr[v]
      <3>1. Holders(b)' = (Holders(b) \ {t}) \cup {v} /\ t \in Holders(b)
            /\ v \notin Holders(b)
        BY <2>2, <2>3 DEF Holders
      <3> QED BY <2>1, <3>1, Exchange
    <2>4. CASE b # o[t] /\ b = ptr[v]
      <3>1. Holders(b)' = (Holders(b) \ {v}) \cup {t} /\ v \in Holders(b)
            /\ t \notin Holders(b)
        BY <2>2, <2>4 DEF Holders
      <3> QED BY <2>1, <3>1, Exchange
    <2>5. CASE (b = o[t]) <=> (b = ptr[v])
      <3>1. Holders(b)' = Holders(b)
        BY <2>2, <2>5 DEF Holders
      <3> QED BY <3>1
    <2> QED BY <2>3, <2>4, <2>5
  <1> QED BY <1>1, <1>2, <1>3, <1>4, <1>5, <1>6, <1>7, <1>8, <1>9 DEF IInv

LEMMA DestroyStep ==
  ASSUME IInv, NEW t \in Threads, NEW v \in Vars, Destroy(t, v)
  PROVE  IInv'
  <1> USE DEF Destroy
  <1>1. TypeOK'
    BY SMTT(30)
  <1>2. RegInv'
    BY SMTT(30)
  <1>3. HeapInv'
    BY SMTT(30)
  <1>4. FreshInv'
    BY SMTT(30)
  <1>5. DoomedInv'
    BY SMTT(30)
  <1>6. LeakInv'
    BY SMTT(30)
  <1>7. SoleInv'
    BY SMTT(30)
  <1>8. CopyInv'
    BY SMTT(30)
  <1>9. CountIsReferences'
    <2> SUFFICES ASSUME NEW b \in Bodies
                 PROVE  Cardinality(Holders(b)') = Cardinality(Holders(b))
      BY DEF CountIsReferences
    <2>1. IsFiniteSet(Holders(b))
      BY HoldersFinite
    <2>2. v # t /\ v \notin Threads /\ t \notin Vars
      OBVIOUS
    <2>3. CASE b = ptr[v]
      <3>1. Holders(b)' = (Holders(b) \ {v}) \cup {t} /\ v \in Holders(b)
            /\ t \notin Holders(b)
        BY <2>2, <2>3 DEF Holders
      <3> QED BY <2>1, <3>1, Exchange
    <2>4. CASE b # ptr[v]
      <3>1. Holders(b)' = Holders(b)
        BY <2>2, <2>4 DEF Holders
      <3> QED BY <3>1
    <2> QED BY <2>3, <2>4
  <1> QED BY <1>1, <1>2, <1>3, <1>4, <1>5, <1>6, <1>7, <1>8, <1>9 DEF IInv

LEMMA ReleaseStep ==
  ASSUME IInv, NEW t \in Threads, Release(t)
  PROVE  IInv'
  <1> USE DEF Release, ReleaseAsserts
  <1>1. TypeOK'
    BY SMTT(30)
  <1>2. RegInv'
    BY SMTT(30)
  <1>3. HeapInv'
    BY SMTT(30)
  <1>4. FreshInv'
    BY SMTT(30)
  <1>5. DoomedInv'
    BY SMTT(30)
  <1>6. LeakInv'
    BY SMTT(30)
  <1>7. SoleInv'
    BY SMTT(30)
  <1>8. CopyInv'
    BY SMTT(30)
  <1>9. CountIsReferences'
    <2>1. \A b \in Bodies : Holders(b)' = Holders(b) /\ ref_count'[b] = ref_count[b]
      BY DEF Holders
    <2> QED BY <2>1, SameHolders
  <1> QED BY <1>1, <1>2, <1>3, <1>4, <1>5, <1>6, <1>7, <1>8, <1>9 DEF IInv

LEMMA DecrementStep ==
  ASSUME IInv, NEW t \in Threads, Decrement(t)
  PROVE  IInv'
  <1> USE DEF Decrement, Continue
  <1> DEFINE body == old[t]
  <1>a. /\ body \in Bodies /\ ref_count[body] \in Nat \ {0}
        /\ ref_count[body] = 1 =>
              /\ \A v \in Vars : ptr[v] # body
              /\ \A u \in Threads \ {t} : ~InFlight(u, body)
        /\ ref_count[body] # 1 =>
              \/ \E v \in Vars : ptr[v] = body
              \/ \E u \in Threads \ {t} : InFlight(u, body)
    <2>1. body \in Bodies /\ InFlight(t, body) /\ t \in Holders(body)
      BY DEF Holders
    <2> HIDE DEF body
    <2>2. ref_count[body] \in Nat \ {0} /\ (ref_count[body] = 1 <=> Holders(body) = {t})
      BY <2>1, HeldCount
    <2> QED BY <2>1, <2>2 DEF Holders
  <1>1. TypeOK'
    BY SMTT(30), <1>a
  <1>2. RegInv'
    BY SMTT(30)
  <1>3. HeapInv'
    BY SMTT(30)
  <1>4. FreshInv'
    BY SMTT(30)
  <1>5. DoomedInv'
    BY SMTT(30), <1>a
  <1>6. LeakInv'
    BY SMTT(30), <1>a
  <1>7. SoleInv'
    BY SMTT(30)
  <1>8. CopyInv'
    BY SMTT(30)
  <1>9. CountIsReferences'
    <2> SUFFICES ASSUME NEW b \in Bodies
                 PROVE  ref_count'[b] = Cardinality(Holders(b)')
      BY DEF CountIsReferences
    <2>1. ref_count[b] = Cardinality(Holders(b)) /\ IsFiniteSet(Holders(b))
      BY HoldersFinite DEF CountIsReferences
    <2>2. CASE b = old[t]
      <3>1. Holders(b)' = Holders(b) \ {t} /\ t \in Holders(b)
        BY <2>2 DEF Holders
      <3>2. ref_count'[b] = ref_count[b] - 1
        BY <2>2
      <3>3. Cardinality(Holders(b)') = Cardinality(Holders(b)) - 1
        BY <2>1, <3>1, FS_RemoveElement
      <3> QED BY <2>1, <3>2, <3>3
    <2>3. CASE b # old[t]
      <3>1. Holders(b)' = Holders(b)
        BY <2>3 DEF Holders
      <3> QED BY <2>1, <2>3, <3>1
    <2> QED BY <2>2, <2>3
  <1> QED BY <1>1, <1>2, <1>3, <1>4, <1>5, <1>6, <1>7, <1>8, <1>9 DEF IInv

LEMMA DeleteStep ==
  ASSUME IInv, NEW t \in Threads, Delete(t)
  PROVE  IInv'
  <1> USE DEF Delete, Continue
  <1>1. TypeOK'
    BY SMTT(30)
  <1>2. RegInv'
    BY SMTT(30)
  <1>3. HeapInv'
    BY SMTT(30)
  <1>4. FreshInv'
    BY SMTT(30)
  <1>5. DoomedInv'
    BY SMTT(30)
  <1>6. LeakInv'
    BY SMTT(30)
  <1>7. SoleInv'
    BY SMTT(30)
  <1>8. CopyInv'
    BY SMTT(30)
  <1>9. CountIsReferences'
    <2>1. \A b \in Bodies : Holders(b)' = Holders(b) /\ ref_count'[b] = ref_count[b]
      BY DEF Holders
    <2> QED BY <2>1, SameHolders
  <1> QED BY <1>1, <1>2, <1>3, <1>4, <1>5, <1>6, <1>7, <1>8, <1>9 DEF IInv

LEMMA UnshareStep ==
  ASSUME IInv, NEW t \in Threads, NEW v \in Vars, Unshare(t, v)
  PROVE  IInv'
  <1> USE DEF Unshare, IsPrivate
  <1>a. IsPrivate(ptr[v]) => /\ \A w \in Vars : ptr[w] = ptr[v] => w = v
                             /\ \A u \in Threads : ~InFlight(u, ptr[v])
    <2>1. ptr[v] \in Bodies /\ v \in Holders(ptr[v])
      BY DEF Holders
    <2>2. /\ ref_count[ptr[v]] \in Nat \ {0}
          /\ ref_count[ptr[v]] = 1 <=> Holders(ptr[v]) = {v}
      BY <2>1, HeldCount
    <2>3. IsPrivate(ptr[v]) => Holders(ptr[v]) = {v}
      BY <2>2
    <2> QED BY <2>1, <2>3 DEF Holders
  <1>1. TypeOK'
    BY SMTT(30)
  <1>2. RegInv'
    BY SMTT(30)
  <1>3. HeapInv'
    BY SMTT(30)
  <1>4. FreshInv'
    BY SMTT(30)
  <1>5. DoomedInv'
    BY SMTT(30)
  <1>6. LeakInv'
    BY SMTT(30)
  <1>7. SoleInv'
    BY SMTT(30), <1>a
  <1>8. CopyInv'
    BY SMTT(30)
  <1>9. CountIsReferences'
    <2>1. \A b \in Bodies : Holders(b)' = Holders(b) /\ ref_count'[b] = ref_count[b]
      BY DEF Holders
    <2> QED BY <2>1, SameHolders
  <1> QED BY <1>1, <1>2, <1>3, <1>4, <1>5, <1>6, <1>7, <1>8, <1>9 DEF IInv

LEMMA CopyStep ==
  ASSUME IInv, NEW t \in Threads, Copy(t)
  PROVE  IInv'
  <1> USE DEF Copy, New
  <1>1. TypeOK'
    BY SMTT(30)
  <1>2. RegInv'
    BY SMTT(30)
  <1>3. HeapInv'
    BY SMTT(30)
  <1>4. FreshInv'
    BY SMTT(30)
  <1>5. DoomedInv'
    BY SMTT(30)
  <1>6. LeakInv'
    BY SMTT(30)
  <1>7. SoleInv'
    BY SMTT(30)
  <1>8. CopyInv'
    BY SMTT(30)
  <1>9. CountIsReferences'
    <2>1. ASSUME NEW b \in Bodies PROVE ref_count'[b] = ref_count[b]
      BY FreeCount
    <2>2. \A b \in Bodies : Holders(b)' = Holders(b)
      BY DEF Holders
    <2> QED BY <2>1, <2>2, SameHolders
  <1> QED BY <1>1, <1>2, <1>3, <1>4, <1>5, <1>6, <1>7, <1>8, <1>9 DEF IInv

LEMMA MutateStep ==
  ASSUME IInv, NEW t \in Threads, NEW d \in Data, Mutate(t, d)
  PROVE  IInv'
  <1> USE DEF Mutate
  <1>1. TypeOK'
    BY SMTT(30)
  <1>2. RegInv'
    BY SMTT(30)
  <1>3. HeapInv'
    BY SMTT(30)
  <1>4. FreshInv'
    BY SMTT(30)
  <1>5. DoomedInv'
    BY SMTT(30)
  <1>6. LeakInv'
    BY SMTT(30)
  <1>7. SoleInv'
    BY SMTT(30)
  <1>8. CopyInv'
    BY SMTT(30)
  <1>9. CountIsReferences'
    <2>1. \A b \in Bodies : Holders(b)' = Holders(b) /\ ref_count'[b] = ref_count[b]
      BY DEF Holders
    <2> QED BY <2>1, SameHolders
  <1> QED BY <1>1, <1>2, <1>3, <1>4, <1>5, <1>6, <1>7, <1>8, <1>9 DEF IInv

LEMMA BeginReadStep ==
  ASSUME IInv, NEW t \in Threads, NEW v \in Vars, BeginRead(t, v)
  PROVE  IInv'
  <1> USE DEF BeginRead
  <1>1. TypeOK'
    BY SMTT(30)
  <1>2. RegInv'
    BY SMTT(30)
  <1>3. HeapInv'
    BY SMTT(30)
  <1>4. FreshInv'
    BY SMTT(30)
  <1>5. DoomedInv'
    BY SMTT(30)
  <1>6. LeakInv'
    BY SMTT(30)
  <1>7. SoleInv'
    BY SMTT(30)
  <1>8. CopyInv'
    BY SMTT(30)
  <1>9. CountIsReferences'
    <2>1. \A b \in Bodies : Holders(b)' = Holders(b) /\ ref_count'[b] = ref_count[b]
      BY DEF Holders
    <2> QED BY <2>1, SameHolders
  <1> QED BY <1>1, <1>2, <1>3, <1>4, <1>5, <1>6, <1>7, <1>8, <1>9 DEF IInv

LEMMA EndReadStep ==
  ASSUME IInv, NEW t \in Threads, EndRead(t)
  PROVE  IInv'
  <1> USE DEF EndRead
  <1>1. TypeOK'
    BY SMTT(30)
  <1>2. RegInv'
    BY SMTT(30)
  <1>3. HeapInv'
    BY SMTT(30)
  <1>4. FreshInv'
    BY SMTT(30)
  <1>5. DoomedInv'
    BY SMTT(30)
  <1>6. LeakInv'
    BY SMTT(30)
  <1>7. SoleInv'
    BY SMTT(30)
  <1>8. CopyInv'
    BY SMTT(30)
  <1>9. CountIsReferences'
    <2>1. \A b \in Bodies : Holders(b)' = Holders(b) /\ ref_count'[b] = ref_count[b]
      BY DEF Holders
    <2> QED BY <2>1, SameHolders
  <1> QED BY <1>1, <1>2, <1>3, <1>4, <1>5, <1>6, <1>7, <1>8, <1>9 DEF IInv

LEMMA GiveStep ==
  ASSUME IInv, NEW t \in Threads, NEW v \in Vars, NEW u \in Threads \cup {Shared}, Give(t, v, u)
  PROVE  IInv'
  <1> USE DEF Give
  <1>1. TypeOK'
    BY SMTT(30)
  <1>2. RegInv'
    BY SMTT(30)
  <1>3. HeapInv'
    BY SMTT(30)
  <1>4. FreshInv'
    BY SMTT(30)
  <1>5. DoomedInv'
    BY SMTT(30)
  <1>6. LeakInv'
    BY SMTT(30)
  <1>7. SoleInv'
    BY SMTT(30)
  <1>8. CopyInv'
    BY SMTT(30)
  <1>9. CountIsReferences'
    <2>1. \A b \in Bodies : Holders(b)' = Holders(b) /\ ref_count'[b] = ref_count[b]
      BY DEF Holders
    <2> QED BY <2>1, SameHolders
  <1> QED BY <1>1, <1>2, <1>3, <1>4, <1>5, <1>6, <1>7, <1>8, <1>9 DEF IInv

HIDE RefCountAssumption
     DEF IInv, TypeOK, Labels, RegInv, HeapInv, FreshInv, DoomedInv, LeakInv,
         SoleInv, CopyInv, Unheld, InFlight, NobodyElse, Readable, Goto, regs

-------------------------------------------------------------------------------
LEMMA InitInv == Init => IInv
  <1> SUFFICES ASSUME Init PROVE IInv
    OBVIOUS
  <1>1. /\ TypeOK /\ RegInv /\ HeapInv /\ FreshInv /\ DoomedInv
        /\ LeakInv /\ SoleInv /\ CopyInv
    BY RefCountAssumption DEF Init, TypeOK, Labels, RegInv, HeapInv, FreshInv,
       DoomedInv, LeakInv, SoleInv, CopyInv, Unheld, InFlight
  <1>2. CountIsReferences
    <2> SUFFICES ASSUME NEW b \in Bodies
                 PROVE  ref_count[b] = Cardinality(Holders(b))
      BY DEF CountIsReferences
    <2>1. Holders(b) = {}
      BY RefCountAssumption DEF Init, Holders, InFlight
    <2> QED BY <2>1, FS_EmptySet DEF Init
  <1> QED BY <1>1, <1>2 DEF IInv

LEMMA NextInv == IInv /\ [Next]_vars => IInv'
  <1> SUFFICES ASSUME IInv, [Next]_vars PROVE IInv'
    OBVIOUS
  <1>1. ASSUME NEW t \in Threads, Step(t) PROVE IInv'
    BY <1>1, AddRefStep, StoreStep, ReleaseStep, DecrementStep, DeleteStep,
       CopyStep, EndReadStep, MutateStep DEF Step
  <1>2. ASSUME NEW t \in Threads, NEW v \in Vars, Call(t, v) PROVE IInv'
    BY <1>2, AssignNewStep, AssignStep, DestroyStep, UnshareStep,
       BeginReadStep, GiveStep DEF Call
  <1>3. CASE UNCHANGED vars
    BY <1>3 DEF vars, regs, IInv, TypeOK, RegInv, HeapInv, FreshInv, DoomedInv,
       LeakInv, SoleInv, CopyInv, CountIsReferences, Holders, Unheld, InFlight,
       NobodyElse, Readable
  <1> QED BY <1>1, <1>2, <1>3 DEF Next

\* The invariant on which everything below rests.
THEOREM Invariance == Spec => []IInv
  BY InitInv, NextInv, PTL DEF Spec

\* RefCounted and Ref (refcount.h): all variables keep to their types; in
\* particular no count ever falls below zero.
THEOREM TypeCorrect == Spec => []TypeOK
  <1>1. IInv => TypeOK
    BY DEF IInv
  <1> QED BY <1>1, Invariance, PTL

\* RefCounted::AddRef and Release with the assignments of Ref (refcount.h): the
\* count always equals the number of references.
THEOREM CountsAreReferences == Spec => []CountIsReferences
  <1>1. IInv => CountIsReferences
    BY DEF IInv
  <1> QED BY <1>1, Invariance, PTL

\* "Thread-safe reference counting with delete on last release" (refcount.h):
\* no body is deleted that any thread can still reach.
THEOREM NoUseAfterFreeEver == Spec => []NoUseAfterFree
  <1>1. IInv => NoUseAfterFree
    <2> SUFFICES ASSUME IInv PROVE NoUseAfterFree
      OBVIOUS
    <2> USE DEF IInv, TypeOK, RegInv, HeapInv, Unheld, InFlight
    <2>1. ASSUME NEW v \in Vars, ptr[v] # Null PROVE ptr[v] \in heap
      BY <2>1
    <2>2. ASSUME NEW t \in Threads, NEW b \in Touched(t) PROVE b \in heap
      <3>1. CASE pc[t] = "AddRef"
        BY <2>2, <3>1 DEF Touched
      <3>2. CASE pc[t] = "Store"
        BY <2>2, <3>2 DEF Touched
      <3>3. CASE pc[t] \in {"Release", "Decrement", "Delete"}
        BY <2>2, <3>3 DEF Touched
      <3>4. CASE pc[t] \in {"Copy", "Mutate", "Read"}
        <4>1. b = ptr[var[t]]
          BY <2>2, <3>4 DEF Touched
        <4> QED BY <3>4, <4>1, <2>1
      <3>5. CASE pc[t] = "idle"
        BY <2>2, <3>5 DEF Touched
      <3> QED BY <3>1, <3>2, <3>3, <3>4, <3>5 DEF Labels
    <2> QED BY <2>1, <2>2 DEF NoUseAfterFree
  <1> QED BY <1>1, Invariance, PTL

\* Release (refcount.h): a body without references is deleted, by one thread.
THEOREM NoLeakEver == Spec => []NoLeak
  <1>1. IInv => NoLeak
    <2> SUFFICES ASSUME IInv, NEW b \in heap, Holders(b) = {}
                 PROVE  \E t \in Threads :
                          /\ \/ pc[t] = "AddRef" /\ o[t] = b
                             \/ pc[t] = "Delete" /\ old[t] = b
                          /\ \A u \in Threads \ {t} : b \notin Touched(u)
      BY DEF NoLeak
    <2> USE DEF IInv, TypeOK, RegInv, HeapInv
    <2>1. Unheld(b)
      BY DEF Unheld, Holders
    <2>2. PICK t \in Threads : \/ pc[t] = "AddRef" /\ o[t] = b
                               \/ pc[t] = "Delete" /\ old[t] = b
      BY <2>1 DEF LeakInv
    <2>3. NobodyElse(t, b)
      BY <2>1, <2>2 DEF FreshInv, DoomedInv, Unheld
    <2>4. ASSUME NEW u \in Threads \ {t} PROVE b \notin Touched(u)
      BY <2>1, <2>3 DEF Touched, NobodyElse, Unheld, InFlight, Labels
    <2> QED BY <2>2, <2>4
  <1> QED BY <1>1, Invariance, PTL

\* Ref::Unshare (refcount.h) and the Unshare of array.h, strval.h and cowmap.h:
\* "A shared array Body cannot be mutated".
THEOREM ExclusiveMutationEver == Spec => []ExclusiveMutation
  <1>1. IInv => ExclusiveMutation
    <2> SUFFICES ASSUME IInv, NEW t \in Threads, pc[t] = "Mutate"
                 PROVE  /\ Holders(ptr[var[t]]) = {var[t]}
                        /\ \A u \in Threads \ {t} : ptr[var[t]] \notin Touched(u)
      BY DEF ExclusiveMutation
    <2> USE RefCountAssumption DEF IInv, TypeOK, RegInv
    <2> DEFINE b == ptr[var[t]]
    <2>1. /\ var[t] \in Vars /\ owner[var[t]] = t /\ b \in Bodies
          /\ \A v \in Vars : ptr[v] = b => v = var[t]
          /\ \A u \in Threads : ~InFlight(u, b)
      BY DEF SoleInv
    <2>2. Holders(b) = {var[t]}
      BY <2>1 DEF Holders
    <2>3. ASSUME NEW u \in Threads \ {t}, b \in Touched(u) PROVE FALSE
      <3> HIDE DEF b
      <3>1. ~Unheld(b) /\ b # Null
        BY <2>1 DEF Unheld, b
      <3>2. CASE pc[u] = "AddRef"
        BY <2>1, <2>3, <3>1, <3>2 DEF Touched, FreshInv, Readable
      <3>3. CASE pc[u] = "Store"
        BY <2>1, <2>3, <3>1, <3>3 DEF Touched, InFlight
      <3>4. CASE pc[u] \in {"Release", "Decrement", "Delete"}
        BY <2>1, <2>3, <3>1, <3>4 DEF Touched, InFlight, DoomedInv
      <3>5. CASE pc[u] \in {"Copy", "Mutate", "Read"}
        BY <2>1, <2>3, <3>1, <3>5 DEF Touched, Readable
      <3>6. CASE pc[u] = "idle"
        BY <2>3, <3>6 DEF Touched
      <3> QED BY <3>2, <3>3, <3>4, <3>5, <3>6 DEF Labels
    <2> QED BY <2>2, <2>3
  <1> QED BY <1>1, Invariance, PTL

\* The assertions of AddRef and Release (refcount.h) never fail.
THEOREM AssertionsHoldEver == Spec => []AssertionsHold
  <1>1. IInv => AssertionsHold
    <2> SUFFICES ASSUME IInv, NEW t \in Threads
                 PROVE  /\ pc[t] = "Store" => AddRefAsserts(t)
                        /\ pc[t] = "Release" => ReleaseAsserts(t)
      BY DEF AssertionsHold
    <2> USE RefCountAssumption DEF IInv, TypeOK, RegInv
    <2>1. ASSUME pc[t] = "Store", o[t] # Null PROVE ref_count[o[t]] # 0
      <3>1. o[t] \in Bodies /\ t \in Holders(o[t])
        BY <2>1 DEF Holders, InFlight
      <3> QED BY <3>1, HeldCount
    <2>2. ASSUME pc[t] = "Release" PROVE ref_count[old[t]] > 0
      <3>1. old[t] \in Bodies /\ t \in Holders(old[t])
        BY <2>2 DEF Holders, InFlight
      <3>2. ref_count[old[t]] \in Nat \ {0}
        BY <3>1, HeldCount
      <3> QED BY <3>2
    <2> QED BY <2>1, <2>2 DEF AddRefAsserts, ReleaseAsserts
  <1> QED BY <1>1, Invariance, PTL
-------------------------------------------------------------------------------
(***************************************************************************)
(* The steps as the program sees them: the values of its variables.        *)
(***************************************************************************)
\* Storing the pointer is what changes the value of a variable, to that of the
\* variable copied or to that of the new body.
LEMMA StoreValue ==
  ASSUME IInv, NEW t \in Threads, Store(t)
  PROVE  /\ var[t] \in Vars /\ owner[var[t]] = t
         /\ o[t] # Null => o[t] \in heap
         /\ Value' = [Value EXCEPT ![var[t]] =
                          IF o[t] = Null THEN Null ELSE data[o[t]]]
         /\ other[t] # Null =>
                /\ Readable(t, other[t])
                /\ Value[other[t]] = IF o[t] = Null THEN Null ELSE data[o[t]]
         /\ mutating[t] => o[t] # Null /\ Value[var[t]] = data[o[t]]
  <1> USE RefCountAssumption DEF IInv, TypeOK, RegInv
  <1>1. var[t] \in Vars /\ owner[var[t]] = t
    BY DEF Store
  <1>2. o[t] # Null => o[t] \in heap
    BY DEF Store, HeapInv, Unheld, InFlight
  <1>3. data' = data /\ ptr' = [ptr EXCEPT ![var[t]] = o[t]]
    BY DEF Store
  <1>4. Value' = [Value EXCEPT ![var[t]] =
                      IF o[t] = Null THEN Null ELSE data[o[t]]]
    BY <1>1, <1>3 DEF Value
  <1>5. other[t] # Null =>
                /\ Readable(t, other[t])
                /\ Value[other[t]] = IF o[t] = Null THEN Null ELSE data[o[t]]
    BY DEF Value
  <1>6. mutating[t] => o[t] # Null /\ Value[var[t]] = data[o[t]]
    BY <1>1 DEF Value, CopyInv, Store
  <1> QED BY <1>1, <1>2, <1>4, <1>5, <1>6

\* The body of a new object has no reference yet, so no value changes.
LEMMA NewValue ==
  ASSUME IInv, NEW t, NEW d, New(t, d), UNCHANGED ptr
  PROVE  Value' = Value
  BY RefCountAssumption DEF IInv, TypeOK, HeapInv, Unheld, New, Value

\* Neither does a value change when a body without references is deleted.
LEMMA DeleteValue ==
  ASSUME IInv, NEW t \in Threads, Delete(t)
  PROVE  Value' = Value
  BY RefCountAssumption DEF IInv, TypeOK, RegInv, DoomedInv, Unheld, Delete, Value

\* A body is changed in place for its only reference.
LEMMA MutateValue ==
  ASSUME IInv, NEW t \in Threads, NEW d \in Data, Mutate(t, d)
  PROVE  /\ var[t] \in Vars /\ owner[var[t]] = t
         /\ Value' = [Value EXCEPT ![var[t]] = d]
  <1> USE RefCountAssumption DEF IInv, TypeOK, RegInv
  <1>1. /\ var[t] \in Vars /\ owner[var[t]] = t /\ ptr[var[t]] \in Bodies
        /\ \A v \in Vars : ptr[v] = ptr[var[t]] => v = var[t]
    BY DEF Mutate, SoleInv
  <1>2. ptr' = ptr /\ data' = [data EXCEPT ![ptr[var[t]]] = d]
    BY DEF Mutate
  <1>3. ASSUME NEW v \in Vars
        PROVE  Value'[v] = IF v = var[t] THEN d ELSE Value[v]
    <2>1. Value'[v] = IF ptr[v] = Null THEN Null ELSE data'[ptr[v]]
      BY <1>2 DEF Value
    <2>2. ptr[v] # Null => data'[ptr[v]] = IF v = var[t] THEN d ELSE data[ptr[v]]
      BY <1>1, <1>2
    <2> QED BY <1>1, <2>1, <2>2 DEF Value
  <1>4. Value' = [v \in Vars |-> Value'[v]]
    BY DEF Value
  <1>5. Value = [v \in Vars |-> Value[v]]
    BY DEF Value
  <1> HIDE DEF Value
  <1> QED BY <1>1, <1>3, <1>4, <1>5

LEMMA StepRefines ==
  ASSUME IInv, NEW t \in Threads, Step(t)
  PROVE  [Values!Next]_(Values!vars)
  <1> USE DEF Values!vars, Values!Next
  <1>1. CASE Store(t)
    <2>1. owner' = owner
      BY <1>1 DEF Store
    <2>2. CASE other[t] # Null
      <3>1. other[t] \in Vars
        BY <2>2 DEF IInv, TypeOK
      <3>2. Values!Assign(t, var[t], other[t])
        BY <1>1, <2>1, <2>2, <3>1, StoreValue DEF Values!Assign, Readable
      <3> QED BY <1>1, <3>1, <3>2, StoreValue
    <2>3. CASE other[t] = Null
      <3>1. o[t] # Null /\ data[o[t]] \in Data
        BY <1>1, <2>3, RefCountAssumption, StoreValue
           DEF IInv, RegInv, HeapInv, Store
      <3>2. Values!Set(t, var[t], data[o[t]])
        BY <1>1, <2>1, <3>1, StoreValue DEF Values!Set
      <3> QED BY <1>1, <3>1, <3>2, StoreValue
    <2> QED BY <2>2, <2>3
  <1>2. CASE \E d \in Data : Mutate(t, d)
    <2>1. PICK d \in Data : Mutate(t, d)
      BY <1>2
    <2>2. Values!Set(t, var[t], d)
      BY <2>1, MutateValue DEF Values!Set, Mutate
    <2> QED BY <2>1, <2>2, MutateValue
  <1>3. CASE Delete(t)
    BY <1>3, DeleteValue DEF Delete
  <1>4. CASE Copy(t)
    <2>1. New(t, data[ptr[var[t]]]) /\ UNCHANGED <<ptr, owner>>
      BY <1>4 DEF Copy
    <2> QED BY <2>1, NewValue
  <1>5. CASE AddRef(t) \/ Release(t) \/ Decrement(t) \/ EndRead(t)
    BY <1>5 DEF AddRef, Release, Decrement, EndRead, Value
  <1> QED BY <1>1, <1>2, <1>3, <1>4, <1>5 DEF Step

LEMMA CallRefines ==
  ASSUME IInv, NEW t \in Threads, NEW v \in Vars, Call(t, v)
  PROVE  [Values!Next]_(Values!vars)
  <1> USE DEF Values!vars, Values!Next
  <1>1. CASE \E d \in Data : AssignNew(t, v, d)
    <2>1. PICK d \in Data : AssignNew(t, v, d)
      BY <1>1
    <2>2. New(t, d) /\ UNCHANGED <<ptr, owner>>
      BY <2>1 DEF AssignNew
    <2> QED BY <2>2, NewValue
  <1>2. CASE Destroy(t, v)
    <2>1. Values!Drop(t, v)
      BY <1>2 DEF Values!Drop, Destroy, Value, IInv, TypeOK
    <2> QED BY <2>1
  <1>3. CASE \E u \in Threads \cup {Shared} : Give(t, v, u)
    <2>1. PICK u \in Threads \cup {Shared} : Give(t, v, u)
      BY <1>3
    <2>2. Values!Give(t, v, u)
      BY <2>1 DEF Values!Give, Give, Value
    <2> QED BY <2>2
  <1>4. CASE (\E w \in Vars : Assign(t, v, w)) \/ Unshare(t, v) \/ BeginRead(t, v)
    BY <1>4 DEF Assign, Unshare, BeginRead, Value
  <1> QED BY <1>1, <1>2, <1>3, <1>4 DEF Call

\* "By-value semantics" (array.h, strval.h; cowmap.h says it of maps): the
\* program sees variables that each hold a value of their own.
THEOREM Refinement == Spec => ByValueSemantics
  <1>1. Init => Values!Init
    BY DEF Init, Values!Init, Value
  <1>2. IInv /\ [Next]_vars => [Values!Next]_(Values!vars)
    <2> SUFFICES ASSUME IInv, [Next]_vars PROVE [Values!Next]_(Values!vars)
      OBVIOUS
    <2>1. CASE UNCHANGED vars
      BY <2>1 DEF vars, Value, Values!vars
    <2> QED BY <2>1, StepRefines, CallRefines DEF Next
  <1> QED BY <1>1, <1>2, Invariance, PTL DEF Spec, ByValueSemantics, Values!Spec

\* Ref::operator= and Ref::Unshare (refcount.h): the variable receives the value
\* its operand has when the pointer is stored; Unshare keeps the value.
THEOREM AssignmentsCopy == Spec => AssignCopiesValue
  <1>1. IInv /\ [Next]_vars =>
          [\A t \in Threads : Store(t) =>
             Value'[var[t]] = IF other[t] # Null THEN Value[other[t]]
                              ELSE IF mutating[t] THEN Value[var[t]]
                              ELSE data[o[t]]]_vars
    <2> SUFFICES ASSUME IInv, NEW t \in Threads, Store(t)
                 PROVE  Value'[var[t]] = IF other[t] # Null THEN Value[other[t]]
                                         ELSE IF mutating[t] THEN Value[var[t]]
                                         ELSE data[o[t]]
      OBVIOUS
    <2>1. Value'[var[t]] = IF o[t] = Null THEN Null ELSE data[o[t]]
      BY StoreValue DEF Value
    <2>2. other[t] = Null => o[t] # Null
      BY RefCountAssumption DEF IInv, RegInv, Store
    <2> QED BY <2>1, <2>2, StoreValue
  <1> QED BY <1>1, Invariance, PTL DEF Spec, AssignCopiesValue
===============================================================================
