---------------------------- MODULE ArraysProofs -----------------------------
(***************************************************************************)
(* Proofs about Arrays, for any number of arrays, any elements, and bodies *)
(* and slices of any length.                                               *)
(***************************************************************************)
EXTENDS Arrays, FiniteSetTheorems, SequenceTheorems, NatLemmas

\* The invariant: an index can say every position in a body.
IInv == /\ TypeOK /\ SlicesInBodies
        /\ \A b \in Bodies : Len(data[b]) < IndexSize

\* The elements of a slice, and what it takes for one to have them.
Elems(s) == IF s.body = Null THEN <<>> ELSE SubSeq(data[s.body], s.offset + 1, s.offset + s.num)

Fits(s) == /\ s \in Slices
           /\ IF s.body = Null THEN s.num = 0 ELSE s.offset + s.num <= Len(data[s.body])

-------------------------------------------------------------------------------
(***************************************************************************)
(* Sequences.                                                              *)
(***************************************************************************)
\* A part of a sequence, element by element.
LEMMA PartOf ==
  ASSUME NEW d \in Seq(Elements), NEW a \in Nat, NEW n \in Nat, a + n <= Len(d)
  PROVE  /\ SubSeq(d, a + 1, a + n) \in Seq(Elements)
         /\ Len(SubSeq(d, a + 1, a + n)) = n
         /\ \A i \in 1..n : SubSeq(d, a + 1, a + n)[i] = d[a + i]
  OBVIOUS

\* A part of a part is a part.
LEMMA PartOfPart ==
  ASSUME NEW d \in Seq(Elements), NEW a \in Nat, NEW n \in Nat, a + n <= Len(d),
         NEW i \in Nat, NEW j \in Nat, i + j <= n
  PROVE  SubSeq(SubSeq(d, a + 1, a + n), i + 1, i + j) = SubSeq(d, (a + i) + 1, (a + i) + j)
  <1> DEFINE p == SubSeq(d, a + 1, a + n)
             q == SubSeq(p, i + 1, i + j)
             r == SubSeq(d, (a + i) + 1, (a + i) + j)
  <1>1. p \in Seq(Elements) /\ Len(p) = n /\ \A k \in 1..n : p[k] = d[a + k]
    BY PartOf
  <1>2. q \in Seq(Elements) /\ Len(q) = j /\ \A k \in 1..j : q[k] = p[i + k]
    <2> HIDE DEF p
    <2> QED BY <1>1, PartOf
  <1>3. r \in Seq(Elements) /\ Len(r) = j /\ \A k \in 1..j : r[k] = d[(a + i) + k]
    <2>1. a + i \in Nat /\ (a + i) + j <= Len(d)
      OBVIOUS
    <2> QED BY <2>1, PartOf
  <1> HIDE DEF p, q, r
  <1>4. ASSUME NEW k \in 1..j PROVE q[k] = r[k]
    <2>1. i + k \in 1..n /\ a + (i + k) = (a + i) + k
      OBVIOUS
    <2> QED BY <1>1, <1>2, <1>3, <2>1
  <1>5. q = r
    BY <1>2, <1>3, <1>4, SeqEqual
  <1> QED BY <1>5 DEF p, q, r

\* A sequence is a part of itself.
LEMMA WholePart ==
  ASSUME NEW d \in Seq(Elements)
  PROVE  SubSeq(d, 0 + 1, 0 + Len(d)) = d
  OBVIOUS

\* A part without elements.
LEMMA NoPart ==
  ASSUME NEW d, NEW a \in Nat
  PROVE  SubSeq(d, a + 1, a) = <<>>
  BY SubSeqEmpty

-------------------------------------------------------------------------------
(***************************************************************************)
(* What the steps on bodies do.                                            *)
(***************************************************************************)
LEMMA NewBodyIsFree ==
  ASSUME IInv
  PROVE  NewBody \in Bodies \ Statics /\ \A v \in Vars : slice[v].body # NewBody
  <1> DEFINE f == [v \in Vars |-> slice[v].body]
  <1>1. f \in [Vars -> Bodies \cup {Null}]
    BY DEF IInv, TypeOK, Slices
  <1>2. \E b \in Bodies \ Statics : \A v \in Vars : f[v] # b
    <2> HIDE DEF f
    <2> QED BY <1>1, ArraysAssumption
  <1>3. \E b \in Bodies \ Statics : Users(b) = {}
    BY <1>2 DEF Users
  <1> QED BY <1>3 DEF NewBody, Users

\* A body that a variable has for its own is not static and has no other user.
LEMMA OwnIsAlone ==
  ASSUME IInv, NEW v \in Vars, IsOwn(v)
  PROVE  /\ slice[v].body \in Bodies \ Statics
         /\ \A w \in Vars \ {v} : slice[w].body # slice[v].body
  <1> DEFINE U == Users(slice[v].body)
  <1>1. IsFiniteSet(U) /\ v \in U
    BY ArraysAssumption, FS_Subset DEF Users
  <1>2. Cardinality(U) \in Nat /\ Cardinality(U) # 0
    BY <1>1, FS_CardinalityType, FS_EmptySet
  <1>3. slice[v].body \notin Statics /\ Cardinality(U) = 1
    BY <1>2 DEF IsOwn, GetRefCount
  <1>4. \E x : U = {x}
    BY <1>1, <1>3, FS_Singleton
  <1>5. \A w \in Vars \ {v} : w \notin U
    BY <1>1, <1>4
  <1> QED BY <1>3, <1>5 DEF IsOwn, IInv, TypeOK, Slices, Users

\* The value of a variable.
LEMMA ValueIs ==
  ASSUME IInv, NEW v \in Vars
  PROVE  /\ Fits(slice[v]) /\ Value[v] = Elems(slice[v])
         /\ Value[v] \in Seq(Elements) /\ Len(Value[v]) = slice[v].num
  <1>1. Fits(slice[v])
    BY DEF IInv, TypeOK, SlicesInBodies, Fits
  <1>2. Value[v] = Elems(slice[v])
    BY DEF Value, Elems
  <1>3. CASE slice[v].body = Null
    BY <1>1, <1>2, <1>3 DEF Elems, Fits
  <1>4. CASE slice[v].body # Null
    <2>1. data[slice[v].body] \in Seq(Elements) /\ slice[v].offset \in Nat /\ slice[v].num \in Nat
      <3>1. slice[v] \in Slices
        BY DEF IInv, TypeOK
      <3> QED BY <1>4, <3>1, ArraysAssumption DEF IInv, TypeOK, Slices
    <2>2. slice[v].offset + slice[v].num <= Len(data[slice[v].body])
      BY <1>1, <1>4 DEF Fits
    <2>3. Value[v] = SubSeq(data[slice[v].body], slice[v].offset + 1, slice[v].offset + slice[v].num)
      BY <1>2, <1>4 DEF Elems
    <2>4. /\ Value[v] \in Seq(Elements) /\ Len(Value[v]) = slice[v].num
          /\ \A i \in 1..slice[v].num : Value[v][i] = data[slice[v].body][slice[v].offset + i]
      <3>1. PICK d \in Seq(Elements), a \in Nat, n \in Nat :
                d = data[slice[v].body] /\ a = slice[v].offset /\ n = slice[v].num
        BY <2>1
      <3>2. a + n <= Len(d)
        BY <2>2, <3>1
      <3>3. /\ SubSeq(d, a + 1, a + n) \in Seq(Elements) /\ Len(SubSeq(d, a + 1, a + n)) = n
            /\ \A i \in 1..n : SubSeq(d, a + 1, a + n)[i] = d[a + i]
        BY <3>2, PartOf
      <3>4. Value[v] = SubSeq(d, a + 1, a + n)
        BY <2>3, <3>1
      <3> QED BY <3>1, <3>3, <3>4
    <2> QED BY <1>1, <1>2, <2>4
  <1> QED BY <1>1, <1>2, <1>3, <1>4

\* One variable has a new value, the others keep theirs.
Changes(v, s) == IInv' /\ Value' = [Value EXCEPT ![v] = s]

\* What it takes for that.
LEMMA OthersAndOne ==
  ASSUME NEW v \in Vars, NEW s, Value'[v] = s, \A u \in Vars \ {v} : Value'[u] = Value[u]
  PROVE  Value' = [Value EXCEPT ![v] = s]
  BY DEF Value

\* A slice is changed and no body.
LEMMA AdjustChanges ==
  ASSUME IInv, NEW v \in Vars, NEW s, Fits(s), Adjust(v, s)
  PROVE  Changes(v, Elems(s))
  <1>1. slice' = [slice EXCEPT ![v] = s] /\ slice' \in [Vars -> Slices]
    BY DEF Adjust, Assign, Fits, IInv, TypeOK
  <1>2. \A x \in Bodies : data'[x] = data[x] \/ (data'[x] = <<>> /\ \A u \in Vars : slice'[u].body # x)
    BY ArraysAssumption DEF Adjust, Assign
  <1>3. data' \in [Bodies -> Seq(Elements)]
    BY ArraysAssumption DEF Adjust, Assign, IInv, TypeOK
  <1>4. \A b \in Bodies : Len(data'[b]) < IndexSize
    BY <1>2, ArraysAssumption DEF IInv
  <1>5. \A u \in Vars : slice'[u].body # Null => data'[slice'[u].body] = data[slice'[u].body]
    BY <1>1, <1>2 DEF Slices
  <1>6. SlicesInBodies'
    BY <1>1, <1>5 DEF SlicesInBodies, IInv, TypeOK, Fits
  <1>7. \A u \in Vars \ {v} : Value'[u] = Value[u]
    BY <1>1, <1>5 DEF Value, IInv, TypeOK
  <1>8. Value'[v] = Elems(s)
    BY <1>1, <1>5 DEF Value, Elems, IInv, TypeOK
  <1> QED BY <1>1, <1>3, <1>4, <1>6, <1>7, <1>8, OthersAndOne DEF Changes, IInv, TypeOK

\* A slice is changed along with the body it has for its own.
LEMMA StoreChanges ==
  ASSUME IInv, NEW v \in Vars, NEW s \in Slices, NEW d \in Seq(Elements), Len(d) < IndexSize,
         s.body \in Bodies \ Statics, \A u \in Vars \ {v} : slice[u].body # s.body,
         s.offset + s.num <= Len(d), Assign(v, s, s.body, d)
  PROVE  Changes(v, SubSeq(d, s.offset + 1, s.offset + s.num))
  <1>1. slice' = [slice EXCEPT ![v] = s] /\ slice' \in [Vars -> Slices]
    BY DEF Assign, IInv, TypeOK
  <1>2. data'[s.body] = d
    BY <1>1 DEF Assign, IInv, TypeOK
  <1>3. \A x \in Bodies \ {s.body} :
            data'[x] = data[x] \/ (data'[x] = <<>> /\ \A u \in Vars : slice'[u].body # x)
    BY DEF Assign
  <1>4. data' \in [Bodies -> Seq(Elements)]
    BY DEF Assign, IInv, TypeOK
  <1>5. ASSUME NEW b \in Bodies PROVE Len(data'[b]) < IndexSize
    <2>1. CASE b = s.body
      BY <1>2, <2>1
    <2>2. CASE b # s.body
      BY <1>3, <2>2, ArraysAssumption DEF IInv
    <2> QED BY <2>1, <2>2
  <1>6. \A u \in Vars \ {v} : slice'[u] = slice[u] /\
            (slice[u].body # Null => data'[slice[u].body] = data[slice[u].body])
    BY <1>1, <1>3 DEF Slices, IInv, TypeOK
  <1>7. slice'[v] = s /\ s.body # Null
    BY <1>1, ArraysAssumption DEF IInv, TypeOK
  <1>8. SlicesInBodies'
    BY <1>2, <1>6, <1>7 DEF SlicesInBodies, IInv
  <1>9. \A u \in Vars \ {v} : Value'[u] = Value[u]
    BY <1>6 DEF Value
  <1>10. Value'[v] = SubSeq(d, s.offset + 1, s.offset + s.num)
    BY <1>2, <1>7 DEF Value
  <1> QED BY <1>1, <1>4, <1>5, <1>8, <1>9, <1>10, OthersAndOne DEF Changes, IInv, TypeOK

\* A new array.
LEMMA MakeChanges ==
  ASSUME IInv, NEW v \in Vars, NEW d \in Seq(Elements), Len(d) < IndexSize, Make(v, d)
  PROVE  Changes(v, d)
  <1> DEFINE s == [body |-> NewBody, offset |-> 0, num |-> Len(d)]
  <1>1. s \in Slices
    BY NewBodyIsFree, ArraysAssumption DEF Slices
  <1>2. Assign(v, s, s.body, d)
    BY DEF Make
  <1>3. Changes(v, SubSeq(d, 0 + 1, 0 + Len(d)))
    BY <1>1, <1>2, NewBodyIsFree, StoreChanges
  <1> QED BY <1>3, WholePart

\* Unshare: an own body, in which the slice has the same elements.
LEMMA UnshareIsOwn ==
  ASSUME IInv, NEW v \in Vars
  PROVE  LET u == Unshare(v) IN
         /\ u.body \in Bodies \ Statics /\ \A w \in Vars \ {v} : slice[w].body # u.body
         /\ u.elems \in Seq(Elements) /\ Len(u.elems) < IndexSize
         /\ u.offset \in 0..IndexSize - 1 /\ u.offset + slice[v].num <= Len(u.elems)
         /\ Value[v] = SubSeq(u.elems, u.offset + 1, u.offset + slice[v].num)
         /\ Aligned(v) => u.offset = 0
  <1>1. CASE IsOwn(v)
    <2>1. data[slice[v].body] \in Seq(Elements) /\ slice[v].offset \in 0..IndexSize - 1
      BY <1>1, OwnIsAlone DEF IInv, TypeOK, Slices
    <2> QED BY <1>1, <2>1, OwnIsAlone, ValueIs, ArraysAssumption
            DEF Unshare, Aligned, IInv, Fits, Elems
  <1>2. CASE ~ IsOwn(v)
    <2>1. slice[v].num \in 0..IndexSize - 1
      BY DEF IInv, TypeOK, Slices
    <2>2. Value[v] = SubSeq(Value[v], 0 + 1, 0 + slice[v].num)
      BY ValueIs, WholePart
    <2> QED BY <1>2, <2>1, <2>2, NewBodyIsFree, ValueIs, ArraysAssumption DEF Unshare
  <1> QED BY <1>1, <1>2
-------------------------------------------------------------------------------
(***************************************************************************)
(* The operations that only change a slice.                                *)
(***************************************************************************)
LEMMA RecordExcept ==
  ASSUME NEW r \in Slices, NEW o, NEW n
  PROVE  /\ r.offset + 0 = r.offset
         /\ [r EXCEPT !.num = n] = [body |-> r.body, offset |-> r.offset, num |-> n]
         /\ [r EXCEPT !.offset = o, !.num = n] = [body |-> r.body, offset |-> o, num |-> n]
  <1>1. r.offset + 0 = r.offset
    BY ArraysAssumption DEF Slices
  <1>2. PICK b, p, m : r = [body |-> b, offset |-> p, num |-> m]
    BY DEF Slices
  <1>3. [r EXCEPT !.num = n] = [body |-> r.body, offset |-> r.offset, num |-> n]
    BY <1>2
  <1>4. [r EXCEPT !.offset = o, !.num = n] = [body |-> r.body, offset |-> o, num |-> n]
    <2>1. PICK q : q = [r EXCEPT !.offset = o]
      OBVIOUS
    <2>2. q = [body |-> b, offset |-> o, num |-> m]
      BY <1>2, <2>1
    <2>3. [q EXCEPT !.num = n] = [body |-> b, offset |-> o, num |-> n]
      BY <2>2
    <2>4. [r EXCEPT !.offset = o, !.num = n] = [q EXCEPT !.num = n]
      BY <2>1
    <2>5. r.body = b
      BY <1>2
    <2> QED BY <2>3, <2>4, <2>5
  <1> QED BY <1>1, <1>3, <1>4

\* The slice of a variable with another offset or number of elements.
LEMMA SliceIsRecord ==
  ASSUME IInv, NEW v \in Vars, NEW o, NEW n
  PROVE  /\ slice[v].offset + 0 = slice[v].offset
         /\ [slice[v] EXCEPT !.num = n] = [body |-> slice[v].body, offset |-> slice[v].offset, num |-> n]
         /\ [slice[v] EXCEPT !.offset = o, !.num = n] = [body |-> slice[v].body, offset |-> o, num |-> n]
  <1>1. slice[v] \in Slices
    BY DEF IInv, TypeOK
  <1> QED BY <1>1, RecordExcept

\* A slice of a slice.
LEMMA SliceOfSlice ==
  ASSUME IInv, NEW w \in Vars, NEW i \in Nat, NEW j \in Nat, i + j <= slice[w].num,
         NEW s, s = [body |-> slice[w].body, offset |-> slice[w].offset + i, num |-> j]
  PROVE  slice[w].body # Null \/ i = 0 => Fits(s) /\ Elems(s) = SubSeq(Value[w], i + 1, i + j)
  <1>1. Fits(slice[w]) /\ slice[w].offset \in Nat /\ slice[w].num \in Nat
    BY ValueIs, ArraysAssumption DEF Fits, Slices
  <1>2. CASE slice[w].body = Null
    <2>1. j = 0 /\ i = 0
      BY <1>1, <1>2 DEF Fits
    <2>2. Fits(s)
      BY <1>1, <1>2, <2>1, ArraysAssumption DEF Fits, Slices
    <2>3. Elems(s) = <<>> /\ SubSeq(Value[w], i + 1, i + j) = <<>>
      BY <1>2, <2>1, NoPart DEF Elems
    <2> QED BY <2>2, <2>3
  <1>3. CASE slice[w].body # Null
    <2>1. PICK d \in Seq(Elements), a \in Nat, n \in Nat :
              d = data[slice[w].body] /\ a = slice[w].offset /\ n = slice[w].num
      BY <1>1, <1>3 DEF IInv, TypeOK, Fits, Slices
    <2>2. a + n <= Len(d) /\ Len(d) < IndexSize
      BY <1>1, <1>3, <2>1 DEF Fits, IInv, Slices
    <2>3. Fits(s)
      BY <1>1, <1>3, <2>1, <2>2, ArraysAssumption DEF Fits, Slices
    <2>4. Value[w] = SubSeq(d, a + 1, a + n)
      BY <1>3, <2>1, ValueIs DEF Elems
    <2>5. Elems(s) = SubSeq(d, (a + i) + 1, (a + i) + j)
      <3>1. s.body = slice[w].body /\ s.offset = a + i /\ s.num = j
        BY <2>1
      <3> QED BY <1>3, <2>1, <3>1 DEF Elems
    <2>6. SubSeq(SubSeq(d, a + 1, a + n), i + 1, i + j) = SubSeq(d, (a + i) + 1, (a + i) + j)
      <3>1. a + n <= Len(d) /\ i + j <= n
        BY <2>1, <2>2
      <3> QED BY <3>1, PartOfPart
    <2> QED BY <2>3, <2>4, <2>5, <2>6
  <1> QED BY <1>2, <1>3

\* ArrayR() without elements.
LEMMA EmptyFits == Fits(Empty) /\ Elems(Empty) = <<>>
  BY ArraysAssumption DEF Fits, Elems, Empty, Slices

\* v = w
LEMMA CopyChanges ==
  ASSUME IInv, NEW v \in Vars, NEW w \in Vars, Copy(v, w)
  PROVE  Changes(v, Value[w])
  BY ValueIs, AdjustChanges DEF Copy

\* An Array on a static body.
LEMMA ReferChanges ==
  ASSUME IInv, NEW v \in Vars, NEW b \in Statics, Refer(v, b)
  PROVE  Changes(v, data[b])
  <1> DEFINE s == [body |-> b, offset |-> 0, num |-> Len(data[b])]
  <1>1. b \in Bodies /\ b # Null /\ data[b] \in Seq(Elements) /\ Len(data[b]) < IndexSize
    BY ArraysAssumption DEF IInv, TypeOK
  <1>2. Fits(s)
    BY <1>1, ArraysAssumption DEF Fits, Slices
  <1>3. Elems(s) = SubSeq(data[b], 0 + 1, 0 + Len(data[b]))
    BY <1>1 DEF Elems
  <1> QED BY <1>1, <1>2, <1>3, WholePart, AdjustChanges DEF Refer

\* v.pull()
LEMMA PullChanges ==
  ASSUME IInv, NEW v \in Vars, Pull(v)
  PROVE  Changes(v, SubSeq(Value[v], 0 + 1, 0 + (slice[v].num - 1)))
  <1> DEFINE s == [body |-> slice[v].body, offset |-> slice[v].offset + 0, num |-> slice[v].num - 1]
  <1>1. slice[v].num \in Nat \ {0}
    BY ArraysAssumption DEF Pull, IInv, TypeOK, Slices
  <1>2. [slice[v] EXCEPT !.num = @ - 1] = s
    BY SliceIsRecord
  <1>3. Fits(s) /\ Elems(s) = SubSeq(Value[v], 0 + 1, 0 + (slice[v].num - 1))
    BY <1>1, SliceOfSlice
  <1> HIDE DEF s
  <1> QED BY <1>2, <1>3, AdjustChanges DEF Pull

\* v.clear()
LEMMA ClearChanges ==
  ASSUME IInv, NEW v \in Vars, Clear(v)
  PROVE  Changes(v, <<>>)
  <1> DEFINE s == [body |-> slice[v].body, offset |-> slice[v].offset + 0, num |-> 0]
  <1>1. slice[v].num \in Nat /\ [slice[v] EXCEPT !.num = 0] = s
    BY ArraysAssumption DEF IInv, TypeOK, Slices
  <1>2. Fits(s) /\ Elems(s) = SubSeq(Value[v], 0 + 1, 0 + 0)
    BY <1>1, SliceOfSlice
  <1>3. SubSeq(Value[v], 0 + 1, 0 + 0) = <<>>
    BY NoPart
  <1> HIDE DEF s
  <1> QED BY <1>1, <1>2, <1>3, AdjustChanges DEF Clear

\* v = w.slice(at, len)
LEMMA SliceChanges ==
  ASSUME IInv, NEW v \in Vars, NEW w \in Vars, NEW at \in 0..MaxLen, NEW len \in 0..MaxLen,
         Slice(v, w, at, len)
  PROVE  Changes(v, Values!Part(Value[w], at, len))
  <1>1. slice[w].num \in Nat /\ slice[w].offset \in Nat /\ at \in Nat /\ len \in Nat
    BY ArraysAssumption DEF IInv, TypeOK, Slices
  <1>2. Len(Value[w]) = slice[w].num /\ Value[w] \in Seq(Elements)
    BY ValueIs
  <1>3. CASE at >= slice[w].num \/ len = 0
    <2>1. Adjust(v, Empty)
      BY <1>3 DEF Slice
    <2>2. Values!Part(Value[w], at, len) = <<>>
      BY <1>1, <1>2, <1>3, SubSeqEmpty DEF Values!Part
    <2> QED BY <2>1, <2>2, EmptyFits, AdjustChanges
  <1>4. CASE ~(at >= slice[w].num \/ len = 0)
    <2> DEFINE n == IF len > slice[w].num - at THEN slice[w].num - at ELSE len
               s == [body |-> slice[w].body, offset |-> slice[w].offset + at, num |-> n]
    <2>1. n \in Nat /\ at + n <= slice[w].num
      BY <1>1, <1>4
    <2>2. Adjust(v, s)
      <3>1. NewSlice(slice[w], at, n) = s
        BY SliceIsRecord DEF NewSlice
      <3> QED BY <1>4, <3>1 DEF Slice
    <2>3. slice[w].body # Null
      BY <1>1, <1>4, ValueIs DEF Fits
    <2>4. Values!Part(Value[w], at, len) = SubSeq(Value[w], at + 1, at + n)
      BY <1>1, <1>2, <1>4 DEF Values!Part
    <2> HIDE DEF n
    <2>5. Fits(s) /\ Elems(s) = SubSeq(Value[w], at + 1, at + n)
      BY <1>1, <2>1, <2>3, SliceOfSlice
    <2> HIDE DEF s
    <2> QED BY <2>2, <2>4, <2>5, AdjustChanges
  <1> QED BY <1>3, <1>4

\* A slice that loses its first elements, or its last.
LEMMA TrimmedIs ==
  ASSUME IInv, NEW w \in Vars, NEW at \in Nat, NEW len \in Nat, len # 0,
         at + len <= slice[w].num, AtAnEnd(slice[w], at, len)
  PROVE  /\ Fits(Trimmed(slice[w], at, len))
         /\ Elems(Trimmed(slice[w], at, len)) =
               IF at + len = slice[w].num THEN SubSeq(Value[w], 0 + 1, 0 + at)
               ELSE SubSeq(Value[w], len + 1, slice[w].num)
  <1>1. slice[w].num \in Nat /\ slice[w].offset \in Nat /\ slice[w].body # Null
    BY ArraysAssumption, ValueIs DEF IInv, TypeOK, Slices, Fits
  <1>2. CASE at + len = slice[w].num
    <2> DEFINE s == [body |-> slice[w].body, offset |-> slice[w].offset + 0, num |-> at]
    <2>1. Trimmed(slice[w], at, len) = s
      <3>1. slice[w].num - len = at
        BY <1>1, <1>2
      <3> QED BY <1>2, <3>1, SliceIsRecord DEF Trimmed
    <2>2. Fits(s) /\ Elems(s) = SubSeq(Value[w], 0 + 1, 0 + at)
      BY <1>1, SliceOfSlice
    <2> HIDE DEF s
    <2> QED BY <1>2, <2>1, <2>2
  <1>3. CASE at + len # slice[w].num
    <2> DEFINE n == slice[w].num - len
               s == [body |-> slice[w].body, offset |-> slice[w].offset + len, num |-> n]
    <2>1. n \in Nat /\ len + n = slice[w].num /\ len + n <= slice[w].num
      BY <1>1
    <2>2. Trimmed(slice[w], at, len) = s
      BY <1>3, SliceIsRecord DEF Trimmed
    <2> HIDE DEF n
    <2>3. Fits(s) /\ Elems(s) = SubSeq(Value[w], len + 1, len + n)
      BY <1>1, <2>1, SliceOfSlice
    <2> HIDE DEF s
    <2> QED BY <1>3, <2>1, <2>2, <2>3
  <1> QED BY <1>2, <1>3

\* v = w.drop(n)
LEMMA DropChanges ==
  ASSUME IInv, NEW v \in Vars, NEW w \in Vars, NEW n \in 0..MaxLen, Drop(v, w, n)
  PROVE  n <= Len(Value[w]) /\ Changes(v, Values!From(Value[w], n))
  <1>1. n \in Nat /\ n <= slice[w].num /\ slice[w].num \in Nat
    BY ArraysAssumption DEF Drop, IInv, TypeOK, Slices
  <1>2. Len(Value[w]) = slice[w].num /\ Value[w] \in Seq(Elements)
    BY ValueIs
  <1>3. CASE n = 0
    <2>1. Changes(v, Value[w])
      BY <1>3, ValueIs, AdjustChanges DEF Drop
    <2>2. Values!From(Value[w], n) = Value[w]
      BY <1>2, <1>3 DEF Values!From
    <2> QED BY <1>1, <1>2, <2>1, <2>2
  <1>4. CASE n # 0
    <2>1. Fits(Trimmed(slice[w], 0, n)) /\ AtAnEnd(slice[w], 0, n)
      BY <1>1, <1>4, TrimmedIs DEF AtAnEnd
    <2>2. Elems(Trimmed(slice[w], 0, n)) = Values!From(Value[w], n)
      <3>1. Elems(Trimmed(slice[w], 0, n)) =
                IF 0 + n = slice[w].num THEN SubSeq(Value[w], 0 + 1, 0 + 0)
                ELSE SubSeq(Value[w], n + 1, slice[w].num)
        BY <1>1, <1>4, <2>1, TrimmedIs
      <3>2. SubSeq(Value[w], 0 + 1, 0 + 0) = <<>> /\ SubSeq(Value[w], n + 1, n) = <<>>
        BY <1>1, NoPart
      <3>3. Values!From(Value[w], n) = SubSeq(Value[w], n + 1, slice[w].num)
        BY <1>2 DEF Values!From
      <3>4. CASE n = slice[w].num
        BY <1>1, <3>1, <3>2, <3>3, <3>4
      <3>5. CASE n # slice[w].num
        <4>1. 0 + n # slice[w].num
          BY <1>1, <3>5
        <4> QED BY <3>1, <3>3, <4>1
      <3> QED BY <3>4, <3>5
    <2>3. Adjust(v, Trimmed(slice[w], 0, n))
      BY <1>1, <1>4 DEF Drop
    <2> QED BY <1>1, <1>2, <2>1, <2>2, <2>3, AdjustChanges
  <1> QED BY <1>3, <1>4
-------------------------------------------------------------------------------
(***************************************************************************)
(* The operations that change the elements.                                *)
(***************************************************************************)
\* A sequence with another element.
LEMMA ExceptIs ==
  ASSUME NEW d \in Seq(Elements), NEW n, n = Len(d), NEW i \in 1..n, NEW e \in Elements,
         NEW f, f = [d EXCEPT ![i] = e]
  PROVE  /\ f \in Seq(Elements) /\ Len(f) = n
         /\ \A j \in 1..n : f[j] = IF j = i THEN e ELSE d[j]
  BY ExceptSeq

\* Two sequences in a row, element by element.
LEMMA TwoPieces ==
  ASSUME NEW x \in Seq(Elements), NEW y \in Seq(Elements), NEW n, n = Len(x), NEW m, m = Len(y),
         NEW b, b = x \o y
  PROVE  /\ b \in Seq(Elements) /\ Len(b) = n + m
         /\ \A i \in 1..n : b[i] = x[i]
         /\ \A i \in n + 1..n + m : b[i] = y[i - n]
  OBVIOUS

\* Three sequences in a row, element by element.
LEMMA ThreeParts ==
  ASSUME NEW x \in Seq(Elements), NEW t \in Seq(Elements), NEW z \in Seq(Elements)
  PROVE  /\ x \o t \o z \in Seq(Elements)
         /\ Len(x \o t \o z) = Len(x) + Len(t) + Len(z)
         /\ \A i \in 1..Len(x) : (x \o t \o z)[i] = x[i]
         /\ \A i \in 1..Len(t) : (x \o t \o z)[Len(x) + i] = t[i]
         /\ \A i \in 1..Len(z) : (x \o t \o z)[Len(x) + Len(t) + i] = z[i]
  <1> DEFINE y == x \o t
  <1>1. /\ y \in Seq(Elements) /\ Len(y) = Len(x) + Len(t)
        /\ \A i \in 1..Len(x) : y[i] = x[i]
        /\ \A i \in 1..Len(t) : y[Len(x) + i] = t[i]
    OBVIOUS
  <1> HIDE DEF y
  <1>2. /\ y \o z \in Seq(Elements) /\ Len(y \o z) = Len(y) + Len(z)
        /\ \A i \in 1..Len(y) : (y \o z)[i] = y[i]
        /\ \A i \in 1..Len(z) : (y \o z)[Len(y) + i] = z[i]
    <2>1. y \in Seq(Elements)
      BY <1>1
    <2> QED BY <2>1
  <1>3. x \o t \o z = y \o z
    BY DEF y
  <1>4. \A i \in 1..Len(t) : Len(x) + i \in 1..Len(y)
    BY <1>1
  <1> QED BY <1>1, <1>2, <1>3, <1>4

\* The same by positions in the whole.
LEMMA ThreePieces ==
  ASSUME NEW x \in Seq(Elements), NEW t \in Seq(Elements), NEW z \in Seq(Elements),
         NEW b, b = x \o t \o z
  PROVE  /\ b \in Seq(Elements) /\ Len(b) = Len(x) + Len(t) + Len(z)
         /\ \A i \in 1..Len(x) : b[i] = x[i]
         /\ \A i \in Len(x) + 1..Len(x) + Len(t) : b[i] = t[i - Len(x)]
         /\ \A i \in Len(x) + Len(t) + 1..Len(x) + Len(t) + Len(z) : b[i] = z[i - Len(x) - Len(t)]
  <1>1. /\ b \in Seq(Elements) /\ Len(b) = Len(x) + Len(t) + Len(z)
        /\ \A i \in 1..Len(x) : b[i] = x[i]
    BY ThreeParts
  <1>2. ASSUME NEW i \in Len(x) + 1..Len(x) + Len(t) PROVE b[i] = t[i - Len(x)]
    <2>1. i - Len(x) \in 1..Len(t) /\ Len(x) + (i - Len(x)) = i
      OBVIOUS
    <2>2. b[Len(x) + (i - Len(x))] = t[i - Len(x)]
      BY <2>1, ThreeParts
    <2> QED BY <2>1, <2>2
  <1>3. ASSUME NEW i \in Len(x) + Len(t) + 1..Len(x) + Len(t) + Len(z) PROVE b[i] = z[i - Len(x) - Len(t)]
    <2>1. i - Len(x) - Len(t) \in 1..Len(z) /\ Len(x) + Len(t) + (i - Len(x) - Len(t)) = i
      OBVIOUS
    <2>2. b[Len(x) + Len(t) + (i - Len(x) - Len(t))] = z[i - Len(x) - Len(t)]
      BY <2>1, ThreeParts
    <2> QED BY <2>1, <2>2
  <1> QED BY <1>1, <1>2, <1>3

\* Elements are put into a body, or taken out, where the slice begins with it.
LEMMA InsertPart ==
  ASSUME NEW d \in Seq(Elements), NEW n \in 0..Len(d), NEW pos \in 0..n, NEW t \in Seq(Elements)
  PROVE  /\ BodyInsert(d, pos, t) \in Seq(Elements)
         /\ Len(BodyInsert(d, pos, t)) = Len(d) + Len(t)
         /\ SubSeq(BodyInsert(d, pos, t), 1, n + Len(t)) =
               Values!Part(SubSeq(d, 1, n), 0, pos) \o t \o Values!From(SubSeq(d, 1, n), pos)
  <1> DEFINE v == SubSeq(d, 1, n)
             b == BodyInsert(d, pos, t)
             l == SubSeq(b, 1, n + Len(t))
             r == Values!Part(v, 0, pos) \o t \o Values!From(v, pos)
  <1>1. v \in Seq(Elements) /\ Len(v) = n /\ \A i \in 1..n : v[i] = d[i]
    OBVIOUS
  <1>2. /\ b \in Seq(Elements) /\ Len(b) = Len(d) + Len(t)
        /\ \A i \in 1..pos : b[i] = d[i]
        /\ \A i \in pos + 1..pos + Len(t) : b[i] = t[i - pos]
        /\ \A i \in pos + Len(t) + 1..Len(d) + Len(t) : b[i] = d[i - Len(t)]
    <2> DEFINE x == SubSeq(d, 1, pos)
               z == SubSeq(d, pos + 1, Len(d))
    <2>1. x \in Seq(Elements) /\ Len(x) = pos /\ \A i \in 1..pos : x[i] = d[i]
      OBVIOUS
    <2>2. z \in Seq(Elements) /\ Len(z) = Len(d) - pos /\ \A i \in 1..Len(d) - pos : z[i] = d[pos + i]
      OBVIOUS
    <2>3. b = x \o t \o z
      BY DEF BodyInsert
    <2> HIDE DEF b, x, z
    <2>4. /\ b \in Seq(Elements) /\ Len(b) = Len(x) + Len(t) + Len(z)
          /\ \A i \in 1..Len(x) : b[i] = x[i]
          /\ \A i \in Len(x) + 1..Len(x) + Len(t) : b[i] = t[i - Len(x)]
          /\ \A i \in Len(x) + Len(t) + 1..Len(x) + Len(t) + Len(z) : b[i] = z[i - Len(x) - Len(t)]
      <3>1. x \in Seq(Elements) /\ z \in Seq(Elements)
        BY <2>1, <2>2
      <3> QED BY <2>3, <3>1, ThreePieces
    <2>5. Len(x) = pos /\ Len(z) = Len(d) - pos /\ Len(t) \in Nat /\ pos + Len(t) + (Len(d) - pos) = Len(d) + Len(t)
      BY <2>1, <2>2
    <2>6. ASSUME NEW i \in pos + Len(t) + 1..Len(d) + Len(t) PROVE b[i] = d[i - Len(t)]
      <3>1. i - pos - Len(t) \in 1..Len(d) - pos /\ pos + (i - pos - Len(t)) = i - Len(t)
        BY <2>5
      <3>2. b[i] = z[i - pos - Len(t)]
        BY <2>4, <2>5
      <3>3. z[i - pos - Len(t)] = d[pos + (i - pos - Len(t))]
        BY <2>2, <3>1
      <3> QED BY <3>1, <3>2, <3>3
    <2> QED BY <2>1, <2>4, <2>5, <2>6
  <1>3. l \in Seq(Elements) /\ Len(l) = n + Len(t) /\ \A i \in 1..n + Len(t) : l[i] = b[i]
    <2> HIDE DEF b
    <2> QED BY <1>2
  <1>4. /\ r \in Seq(Elements) /\ Len(r) = n + Len(t)
        /\ \A i \in 1..pos : r[i] = v[i]
        /\ \A i \in pos + 1..pos + Len(t) : r[i] = t[i - pos]
        /\ \A i \in pos + Len(t) + 1..n + Len(t) : r[i] = v[i - Len(t)]
    <2> DEFINE x == Values!Part(v, 0, pos)
               z == Values!From(v, pos)
    <2> HIDE DEF v
    <2>1. x \in Seq(Elements) /\ Len(x) = pos /\ \A i \in 1..pos : x[i] = v[i]
      BY <1>1 DEF Values!Part
    <2>2. z \in Seq(Elements) /\ Len(z) = n - pos /\ \A i \in 1..n - pos : z[i] = v[pos + i]
      BY <1>1 DEF Values!From
    <2>3. r = x \o t \o z
      OBVIOUS
    <2> HIDE DEF r, x, z
    <2>4. /\ r \in Seq(Elements) /\ Len(r) = Len(x) + Len(t) + Len(z)
          /\ \A i \in 1..Len(x) : r[i] = x[i]
          /\ \A i \in Len(x) + 1..Len(x) + Len(t) : r[i] = t[i - Len(x)]
          /\ \A i \in Len(x) + Len(t) + 1..Len(x) + Len(t) + Len(z) : r[i] = z[i - Len(x) - Len(t)]
      <3>1. x \in Seq(Elements) /\ z \in Seq(Elements)
        BY <2>1, <2>2
      <3> QED BY <2>3, <3>1, ThreePieces
    <2>5. Len(x) = pos /\ Len(z) = n - pos /\ Len(t) \in Nat /\ pos + Len(t) + (n - pos) = n + Len(t)
      BY <2>1, <2>2
    <2>6. ASSUME NEW i \in pos + Len(t) + 1..n + Len(t) PROVE r[i] = v[i - Len(t)]
      <3>1. i - pos - Len(t) \in 1..n - pos /\ pos + (i - pos - Len(t)) = i - Len(t)
        BY <2>5
      <3>2. r[i] = z[i - pos - Len(t)]
        BY <2>4, <2>5
      <3>3. z[i - pos - Len(t)] = v[pos + (i - pos - Len(t))]
        BY <2>2, <3>1
      <3> QED BY <3>1, <3>2, <3>3
    <2> QED BY <2>1, <2>4, <2>5, <2>6
  <1> HIDE DEF v, b, l, r
  <1>5. ASSUME NEW i \in 1..n + Len(t) PROVE l[i] = r[i]
    <2>1. CASE i <= pos
      BY <1>1, <1>2, <1>3, <1>4, <2>1
    <2>2. CASE i > pos /\ i <= pos + Len(t)
      BY <1>1, <1>2, <1>3, <1>4, <2>2
    <2>3. CASE i > pos + Len(t)
      <3>1. i - Len(t) \in 1..n /\ i \in pos + Len(t) + 1..n + Len(t)
            /\ i \in pos + Len(t) + 1..Len(d) + Len(t)
        BY <2>3
      <3> QED BY <1>1, <1>2, <1>3, <1>4, <3>1
    <2> QED BY <2>1, <2>2, <2>3
  <1>6. l = r
    BY <1>3, <1>4, <1>5, SeqEqual
  <1> QED BY <1>2, <1>6 DEF v, b, l, r

\* What is left after BodyRemove is what came before and what came after.
LEMMA RemovePart ==
  ASSUME NEW d \in Seq(Elements), NEW n \in 0..Len(d), NEW at \in Nat, NEW len \in Nat, at + len <= n
  PROVE  /\ BodyRemove(d, at, len) \in Seq(Elements)
         /\ Len(BodyRemove(d, at, len)) = Len(d) - len
         /\ SubSeq(BodyRemove(d, at, len), 1, n - len) =
               Values!Part(SubSeq(d, 1, n), 0, at) \o Values!From(SubSeq(d, 1, n), at + len)
  <1> DEFINE v == SubSeq(d, 1, n)
             b == BodyRemove(d, at, len)
             l == SubSeq(b, 1, n - len)
             r == Values!Part(v, 0, at) \o Values!From(v, at + len)
  <1>1. v \in Seq(Elements) /\ Len(v) = n /\ \A i \in 1..n : v[i] = d[i]
    OBVIOUS
  <1>2. /\ b \in Seq(Elements) /\ Len(b) = Len(d) - len
        /\ \A i \in 1..at : b[i] = d[i]
        /\ \A i \in at + 1..Len(d) - len : b[i] = d[i + len]
    <2> DEFINE x == SubSeq(d, 1, at)
               z == SubSeq(d, at + len + 1, Len(d))
    <2>1. x \in Seq(Elements) /\ Len(x) = at /\ \A i \in 1..at : x[i] = d[i]
      OBVIOUS
    <2>2. z \in Seq(Elements) /\ Len(z) = Len(d) - len - at
          /\ \A i \in 1..Len(d) - len - at : z[i] = d[at + len + i]
      OBVIOUS
    <2>3. b = x \o z
      BY DEF BodyRemove
    <2> HIDE DEF b, x, z
    <2>4. x \in Seq(Elements) /\ z \in Seq(Elements)
      BY <2>1, <2>2
    <2>5. /\ x \o z \in Seq(Elements) /\ Len(x \o z) = Len(x) + Len(z)
          /\ \A i \in 1..Len(x) : (x \o z)[i] = x[i]
          /\ \A i \in Len(x) + 1..Len(x) + Len(z) : (x \o z)[i] = z[i - Len(x)]
      BY <2>4
    <2>6. ASSUME NEW i \in at + 1..Len(d) - len PROVE b[i] = d[i + len]
      <3>1. i - at \in 1..Len(d) - len - at /\ at + len + (i - at) = i + len /\ at + (Len(d) - len - at) = Len(d) - len
        OBVIOUS
      <3>2. b[i] = z[i - at]
        BY <2>1, <2>2, <2>3, <2>5, <3>1
      <3>3. z[i - at] = d[at + len + (i - at)]
        BY <2>2, <3>1
      <3> QED BY <3>1, <3>2, <3>3
    <2>7. Len(d) \in Nat /\ Len(x) = at /\ Len(z) = Len(d) - len - at
      BY <2>1, <2>2
    <2> QED BY <2>1, <2>3, <2>5, <2>6, <2>7
  <1>3. l \in Seq(Elements) /\ Len(l) = n - len /\ \A i \in 1..n - len : l[i] = b[i]
    <2> HIDE DEF b
    <2> QED BY <1>2
  <1>4. /\ r \in Seq(Elements) /\ Len(r) = n - len
        /\ \A i \in 1..at : r[i] = v[i]
        /\ \A i \in at + 1..n - len : r[i] = v[i + len]
    <2> DEFINE x == Values!Part(v, 0, at)
               z == Values!From(v, at + len)
    <2> HIDE DEF v
    <2>1. x \in Seq(Elements) /\ Len(x) = at /\ \A i \in 1..at : x[i] = v[i]
      BY <1>1 DEF Values!Part
    <2>2. /\ z \in Seq(Elements) /\ Len(z) = n - len - at
          /\ \A i \in 1..n - len - at : z[i] = v[at + len + i]
      <3>1. z = SubSeq(v, at + len + 1, n)
        BY <1>1 DEF Values!From
      <3>2. PICK k \in Nat, m \in Nat : k = at + len /\ m = n - len - at /\ k + m = n
        OBVIOUS
      <3> HIDE DEF z
      <3>3. z = SubSeq(v, k + 1, k + m) /\ k + m <= Len(v)
        BY <1>1, <3>1, <3>2
      <3>4. z \in Seq(Elements) /\ Len(z) = m /\ \A i \in 1..m : z[i] = v[k + i]
        BY <1>1, <3>3, PartOf
      <3> QED BY <3>2, <3>4
    <2>3. r = x \o z
      OBVIOUS
    <2> HIDE DEF r, x, z
    <2>4. at + (n - len - at) = n - len /\ at + 1..n - len = at + 1..at + (n - len - at)
      OBVIOUS
    <2>5. /\ r \in Seq(Elements) /\ Len(r) = at + (n - len - at)
          /\ \A i \in 1..at : r[i] = x[i]
          /\ \A i \in at + 1..at + (n - len - at) : r[i] = z[i - at]
      <3>1. at = Len(x) /\ n - len - at = Len(z) /\ x \in Seq(Elements) /\ z \in Seq(Elements)
        BY <2>1, <2>2
      <3> QED BY <2>3, <3>1, TwoPieces
    <2>6. ASSUME NEW i \in at + 1..n - len PROVE r[i] = v[i + len]
      <3>1. i - at \in 1..n - len - at /\ at + len + (i - at) = i + len
        OBVIOUS
      <3>2. r[i] = z[i - at] /\ z[i - at] = v[at + len + (i - at)]
        BY <2>2, <2>4, <2>5, <3>1
      <3> QED BY <3>1, <3>2
    <2> QED BY <2>1, <2>4, <2>5, <2>6
  <1> HIDE DEF v, b, l, r
  <1>5. ASSUME NEW i \in 1..n - len PROVE l[i] = r[i]
    <2>1. CASE i <= at
      <3>1. i \in 1..at /\ i \in 1..n
        BY <2>1
      <3> QED BY <1>1, <1>2, <1>3, <1>4, <3>1
    <2>2. CASE i > at
      <3>1. i + len \in 1..n /\ i \in at + 1..n - len /\ i \in at + 1..Len(d) - len
        BY <2>2
      <3> QED BY <1>1, <1>2, <1>3, <1>4, <3>1
    <2> QED BY <2>1, <2>2
  <1>6. l = r
    BY <1>3, <1>4, <1>5, SeqEqual
  <1> QED BY <1>2, <1>6 DEF v, b, l, r

\* v.set(pos, e)
LEMMA SetChanges ==
  ASSUME IInv, NEW v \in Vars, NEW pos \in 0..MaxLen - 1, NEW e \in Elements, Set(v, pos, e)
  PROVE  pos < Len(Value[v]) /\ Changes(v, [Value[v] EXCEPT ![pos + 1] = e])
  <1>1. PICK u : u = Unshare(v)
    OBVIOUS
  <1>2. /\ u.body \in Bodies \ Statics /\ \A w \in Vars \ {v} : slice[w].body # u.body
        /\ u.elems \in Seq(Elements) /\ Len(u.elems) < IndexSize
        /\ u.offset \in 0..IndexSize - 1 /\ u.offset + slice[v].num <= Len(u.elems)
        /\ Value[v] = SubSeq(u.elems, u.offset + 1, u.offset + slice[v].num)
    BY <1>1, UnshareIsOwn
  <1>3. PICK d \in Seq(Elements), a \in Nat, n \in Nat :
            d = u.elems /\ a = u.offset /\ n = slice[v].num
    BY <1>2, ArraysAssumption DEF IInv, TypeOK, Slices
  <1>4. pos \in Nat /\ pos < n /\ a + n <= Len(d) /\ Len(d) < IndexSize
    BY <1>2, <1>3, ArraysAssumption DEF Set
  <1> DEFINE s == [slice[v] EXCEPT !.body = u.body, !.offset = u.offset]
  <1>5. s \in Slices /\ s.body = u.body /\ s.offset = a /\ s.num = n
    BY <1>2, <1>3 DEF IInv, TypeOK, Slices
  <1>6. PICK f : f = [d EXCEPT ![a + pos + 1] = e]
    OBVIOUS
  <1>7. PICK p : p = SubSeq(d, a + 1, a + n)
    OBVIOUS
  <1>12. PICK q : q = [p EXCEPT ![pos + 1] = e]
    OBVIOUS
  <1>8. Assign(v, s, s.body, f)
    BY <1>1, <1>3, <1>5, <1>6 DEF Set
  <1>9. f \in Seq(Elements) /\ Len(f) = Len(d) /\ SubSeq(f, a + 1, a + n) = q
    <2>1. a + pos + 1 \in 1..Len(d) /\ pos + 1 \in 1..n
      BY <1>4
    <2>2. /\ f \in Seq(Elements) /\ Len(f) = Len(d)
          /\ \A i \in 1..Len(d) : f[i] = IF i = a + pos + 1 THEN e ELSE d[i]
      BY <1>6, <2>1, ExceptIs
    <2>3. p \in Seq(Elements) /\ n = Len(p)
      BY <1>4, <1>7, PartOf
    <2>4. /\ q \in Seq(Elements) /\ Len(q) = n
          /\ \A i \in 1..n : q[i] = IF i = pos + 1 THEN e ELSE p[i]
      BY <1>12, <2>1, <2>3, ExceptIs
    <2>5. /\ a + n <= Len(d) /\ pos \in Nat /\ pos < n /\ e \in Elements
      BY <1>4
    <2>6. SubSeq(f, a + 1, a + n) = q
      <3> DEFINE r == SubSeq(f, a + 1, a + n)
      <3>1. \A i \in 1..n : p[i] = d[a + i]
        BY <1>7, <2>5, PartOf
      <3>2. r \in Seq(Elements) /\ Len(r) = n /\ \A i \in 1..n : r[i] = f[a + i]
        BY <2>2, <2>5, PartOf
      <3> HIDE DEF r
      <3>3. ASSUME NEW i \in 1..n PROVE r[i] = q[i]
        <4>1. a + i \in 1..Len(d) /\ (a + i = a + pos + 1 <=> i = pos + 1)
          BY <2>5
        <4> QED BY <2>2, <2>4, <3>1, <3>2, <4>1
      <3>4. r = q
        BY <2>4, <3>2, <3>3, SeqEqual
      <3> QED BY <3>4 DEF r
    <2> QED BY <2>2, <2>6
  <1> HIDE DEF s
  <1>10. Changes(v, SubSeq(f, a + 1, a + n))
    BY <1>2, <1>4, <1>5, <1>8, <1>9, StoreChanges
  <1>11. Value[v] = SubSeq(d, a + 1, a + n) /\ Len(Value[v]) = n
    BY <1>2, <1>3, ValueIs
  <1> QED BY <1>4, <1>7, <1>9, <1>10, <1>11, <1>12

\* What push, insert and remove do in the body is right where the slice begins
\* with it; wherever it begins, the other arrays keep their values.
LEMMA EditChanges ==
  ASSUME IInv, NEW v \in Vars, NEW pos \in Nat, pos <= slice[v].num, NEW t \in Seq(Elements),
         Edit(v, pos, t)
  PROVE  /\ \E s : Changes(v, s)
         /\ Aligned(v) => Changes(v, Values!Part(Value[v], 0, pos) \o t \o Values!From(Value[v], pos))
  <1>1. PICK u : u = Unshare(v)
    OBVIOUS
  <1>2. /\ u.body \in Bodies \ Statics /\ \A w \in Vars \ {v} : slice[w].body # u.body
        /\ u.elems \in Seq(Elements) /\ Len(u.elems) < IndexSize
        /\ u.offset \in 0..IndexSize - 1 /\ u.offset + slice[v].num <= Len(u.elems)
        /\ Value[v] = SubSeq(u.elems, u.offset + 1, u.offset + slice[v].num)
        /\ Aligned(v) => u.offset = 0
    BY <1>1, UnshareIsOwn
  <1>3. PICK d \in Seq(Elements), a \in Nat, n \in Nat :
            d = u.elems /\ a = u.offset /\ n = slice[v].num
    BY <1>2, ArraysAssumption DEF IInv, TypeOK, Slices
  <1>4. n \in 0..Len(d) /\ pos \in 0..n /\ a + n <= Len(d) /\ Len(d) + Len(t) < IndexSize
    <2>1. Len(u.elems) + Len(t) <= MaxBody
      BY <1>1 DEF Edit
    <2>2. Len(d) + Len(t) <= MaxBody /\ a + n <= Len(d)
      BY <1>2, <1>3, <2>1
    <2>3. Len(d) \in Nat /\ Len(t) \in Nat /\ pos <= n
      BY <1>3
    <2>4. Len(d) + Len(t) < IndexSize
      BY <2>2, <2>3, ArraysAssumption
    <2> QED BY <2>2, <2>3, <2>4
  <1> DEFINE s == [body |-> u.body, offset |-> a, num |-> n + Len(t)]
             b == BodyInsert(d, pos, t)
  <1>5. s \in Slices
    <2>1. a \in 0..IndexSize - 1 /\ n + Len(t) \in 0..IndexSize - 1
      <3>1. Len(t) \in Nat /\ Len(d) \in Nat
        OBVIOUS
      <3>2. a \in 0..IndexSize - 1
        BY <1>2, <1>3
      <3> QED BY <1>4, <3>1, <3>2, ArraysAssumption
    <2> QED BY <1>2, <2>1 DEF Slices
  <1>6. Assign(v, s, s.body, b)
    BY <1>1, <1>3 DEF Edit
  <1>7. /\ b \in Seq(Elements) /\ Len(b) = Len(d) + Len(t)
        /\ SubSeq(b, 1, n + Len(t)) =
              Values!Part(SubSeq(d, 1, n), 0, pos) \o t \o Values!From(SubSeq(d, 1, n), pos)
    <2>1. n \in 0..Len(d) /\ pos \in 0..n
      BY <1>4
    <2> HIDE DEF s, b
    <2>2. /\ BodyInsert(d, pos, t) \in Seq(Elements)
          /\ Len(BodyInsert(d, pos, t)) = Len(d) + Len(t)
          /\ SubSeq(BodyInsert(d, pos, t), 1, n + Len(t)) =
                Values!Part(SubSeq(d, 1, n), 0, pos) \o t \o Values!From(SubSeq(d, 1, n), pos)
      BY <2>1, InsertPart, Zenon
    <2> QED BY <2>2 DEF b
  <1>8. s.body = u.body /\ s.offset = a /\ s.num = n + Len(t) /\ s.offset + s.num <= Len(b)
    BY <1>4, <1>7
  <1> HIDE DEF s, b
  <1>9. Changes(v, SubSeq(b, a + 1, a + (n + Len(t))))
    BY <1>2, <1>4, <1>5, <1>6, <1>7, <1>8, StoreChanges
  <1>10. ASSUME Aligned(v)
         PROVE  Changes(v, Values!Part(Value[v], 0, pos) \o t \o Values!From(Value[v], pos))
    <2>1. a = 0 /\ a + 1 = 1 /\ a + (n + Len(t)) = n + Len(t) /\ a + n = n
      BY <1>2, <1>3, <1>10
    <2>2. Value[v] = SubSeq(d, 1, n)
      BY <1>2, <1>3, <2>1
    <2> QED BY <1>7, <1>9, <2>1, <2>2
  <1> QED BY <1>9, <1>10

\* v.push(e): insertion at the end.
LEMMA PushChanges ==
  ASSUME IInv, NEW v \in Vars, NEW e \in Elements, Push(v, e)
  PROVE  /\ \E s : Changes(v, s)
         /\ Aligned(v) => Changes(v, Append(Value[v], e))
  <1>1. slice[v].num \in Nat /\ <<e>> \in Seq(Elements) /\ Edit(v, slice[v].num, <<e>>)
    BY ArraysAssumption DEF Push, IInv, TypeOK, Slices
  <1>2. Value[v] \in Seq(Elements) /\ Len(Value[v]) = slice[v].num
    BY ValueIs
  <1>3. PICK q \in Seq(Elements) : q = Value[v]
    BY <1>2
  <1>4. Values!Part(q, 0, Len(q)) = q /\ Values!From(q, Len(q)) = <<>>
    BY SubSeqEmpty DEF Values!Part, Values!From
  <1>5. q \o <<e>> \o <<>> = Append(q, e)
    <2>1. q \o <<e>> = Append(q, e) /\ Append(q, e) \in Seq(Elements)
      BY AppendIsConcat, AppendProperties
    <2> QED BY <2>1, ConcatEmptySeq
  <1>6. /\ \E s : Changes(v, s)
        /\ Aligned(v) => Changes(v, Values!Part(Value[v], 0, slice[v].num) \o <<e>>
                                        \o Values!From(Value[v], slice[v].num))
    <2>1. slice[v].num <= slice[v].num
      BY <1>1
    <2> QED BY <1>1, <2>1, EditChanges
  <1> QED BY <1>2, <1>3, <1>4, <1>5, <1>6

\* Two slices of a body, one after the other, as one slice.
LEMMA AdjacentSlices ==
  ASSUME IInv, NEW v \in Vars, NEW w \in Vars, slice[v].body = slice[w].body,
         slice[v].offset + slice[v].num = slice[w].offset,
         NEW s, s = [body |-> slice[v].body, offset |-> slice[v].offset,
                     num |-> slice[v].num + slice[w].num]
  PROVE  Fits(s) /\ Elems(s) = Value[v] \o Value[w]
  <1>1. /\ Fits(slice[v]) /\ slice[v].offset \in Nat /\ slice[v].num \in Nat
        /\ Fits(slice[w]) /\ slice[w].num \in Nat
    BY ValueIs, ArraysAssumption DEF Fits, Slices
  <1>2. CASE slice[v].body = Null
    <2>1. slice[v].num = 0 /\ slice[w].num = 0
      BY <1>1, <1>2 DEF Fits
    <2>2. Value[v] = <<>> /\ Value[w] = <<>>
      BY <1>2, ValueIs DEF Elems
    <2>3. <<>> \o <<>> = <<>>
      BY ConcatEmptySeq, EmptySeq
    <2> QED BY <1>1, <1>2, <2>1, <2>2, <2>3, ArraysAssumption DEF Fits, Elems, Slices
  <1>3. CASE slice[v].body # Null
    <2>1. PICK d \in Seq(Elements), a \in Nat, n \in Nat, m \in Nat :
              /\ d = data[slice[v].body] /\ a = slice[v].offset /\ n = slice[v].num
              /\ m = slice[w].num
      BY <1>1, <1>3 DEF IInv, TypeOK, Fits, Slices
    <2>2. a + n = slice[w].offset
      BY <2>1
    <2>3. (a + n) + m <= Len(d) /\ Len(d) < IndexSize
      BY <1>1, <1>3, <2>1, <2>2 DEF Fits, IInv, Slices
    <2>4. s.body = slice[v].body /\ s.offset = a /\ s.num = n + m
      BY <2>1
    <2>5. Fits(s)
      <3>1. a \in 0..IndexSize - 1 /\ n + m \in 0..IndexSize - 1 /\ a + (n + m) <= Len(d)
        BY <2>3, ArraysAssumption
      <3>2. s \in Slices
        BY <1>1, <2>1, <3>1 DEF Fits, Slices
      <3> QED BY <1>3, <2>1, <2>4, <3>1, <3>2 DEF Fits
    <2>6. Value[v] = SubSeq(d, a + 1, a + n) /\ Value[w] = SubSeq(d, (a + n) + 1, (a + n) + m)
      BY <1>3, <2>1, <2>2, ValueIs DEF Elems
    <2>7. Elems(s) = SubSeq(d, a + 1, a + (n + m))
      BY <1>3, <2>1, <2>4 DEF Elems
    <2> DEFINE x == SubSeq(d, a + 1, a + n)
               y == SubSeq(d, (a + n) + 1, (a + n) + m)
               z == SubSeq(d, a + 1, a + (n + m))
    <2>8. /\ x \in Seq(Elements) /\ Len(x) = n /\ \A i \in 1..n : x[i] = d[a + i]
          /\ y \in Seq(Elements) /\ Len(y) = m /\ \A i \in 1..m : y[i] = d[(a + n) + i]
          /\ z \in Seq(Elements) /\ Len(z) = n + m /\ \A i \in 1..n + m : z[i] = d[a + i]
      <3>1. a + n \in Nat /\ n + m \in Nat /\ a + n <= Len(d) /\ a + (n + m) <= Len(d)
        BY <2>3
      <3>2. PICK k \in Nat, j \in Nat : k = a + n /\ j = n + m /\ k + m <= Len(d) /\ a + j <= Len(d)
        BY <2>3, <3>1
      <3>3. x \in Seq(Elements) /\ Len(x) = n /\ \A i \in 1..n : x[i] = d[a + i]
        BY <3>1, PartOf
      <3>4. y \in Seq(Elements) /\ Len(y) = m /\ \A i \in 1..m : y[i] = d[k + i]
        <4>1. y = SubSeq(d, k + 1, k + m)
          BY <3>2
        <4> HIDE DEF y
        <4> QED BY <3>2, <4>1, PartOf
      <3>5. z \in Seq(Elements) /\ Len(z) = j /\ \A i \in 1..j : z[i] = d[a + i]
        <4>1. z = SubSeq(d, a + 1, a + j)
          BY <3>2
        <4> HIDE DEF z
        <4> QED BY <3>2, <4>1, PartOf
      <3> HIDE DEF x, y, z
      <3> QED BY <3>2, <3>3, <3>4, <3>5
    <2> HIDE DEF x, y, z
    <2>9. PICK b : b = x \o y
      OBVIOUS
    <2>10. /\ b \in Seq(Elements) /\ Len(b) = n + m
           /\ \A i \in 1..n : b[i] = x[i]
           /\ \A i \in n + 1..n + m : b[i] = y[i - n]
      BY <2>8, <2>9, TwoPieces
    <2>11. ASSUME NEW i \in 1..n + m PROVE b[i] = z[i]
      <3>1. CASE i <= n
        <4>1. i \in 1..n
          BY <3>1
        <4> QED BY <2>8, <2>10, <4>1
      <3>2. CASE i > n
        <4>1. i - n \in 1..m /\ (a + n) + (i - n) = a + i /\ i \in n + 1..n + m
          BY <3>2
        <4> QED BY <2>8, <2>10, <4>1
      <3> QED BY <3>1, <3>2
    <2>12. b = z
      BY <2>8, <2>10, <2>11, SeqEqual
    <2> QED BY <2>5, <2>6, <2>7, <2>9, <2>12 DEF x, y, z
  <1> QED BY <1>2, <1>3

\* Insertion at an end of a sequence, and a sequence in two parts.
LEMMA AtTheEnds ==
  ASSUME NEW q \in Seq(Elements), NEW t \in Seq(Elements)
  PROVE  /\ Values!Part(q, 0, Len(q)) \o t \o Values!From(q, Len(q)) = q \o t
         /\ Values!Part(q, 0, 0) \o t \o Values!From(q, 0) = t \o q
  <1>1. Values!Part(q, 0, Len(q)) = q /\ Values!From(q, Len(q)) = <<>>
    BY SubSeqEmpty DEF Values!Part, Values!From
  <1>2. Values!Part(q, 0, 0) = <<>> /\ Values!From(q, 0) = q
    BY SubSeqEmpty DEF Values!Part, Values!From
  <1>3. <<>> \o t = t /\ q \o t \in Seq(Elements)
    BY ConcatEmptySeq
  <1>4. (q \o t) \o <<>> = q \o t
    BY <1>3, ConcatEmptySeq
  <1> QED BY <1>1, <1>2, <1>3, <1>4

\* What is cut in two and put together again.
LEMMA TwoParts ==
  ASSUME NEW q \in Seq(Elements), NEW k \in 0..Len(q)
  PROVE  Values!Part(q, 0, k) \o Values!From(q, k) = q
  <1> DEFINE x == Values!Part(q, 0, k)
             z == Values!From(q, k)
  <1>1. x \in Seq(Elements) /\ Len(x) = k /\ \A i \in 1..k : x[i] = q[i]
    BY DEF Values!Part
  <1>2. z \in Seq(Elements) /\ Len(z) = Len(q) - k /\ \A i \in 1..Len(q) - k : z[i] = q[k + i]
    BY DEF Values!From
  <1> HIDE DEF x, z
  <1>3. PICK b : b = x \o z
    OBVIOUS
  <1>4. /\ b \in Seq(Elements) /\ Len(b) = k + (Len(q) - k) /\ k + (Len(q) - k) = Len(q)
        /\ \A i \in 1..k : b[i] = x[i]
        /\ \A i \in k + 1..k + (Len(q) - k) : b[i] = z[i - k]
    <2>1. k = Len(x) /\ Len(q) - k = Len(z)
      BY <1>1, <1>2
    <2> QED BY <1>1, <1>2, <1>3, <2>1, TwoPieces
  <1>5. ASSUME NEW i \in 1..Len(q) PROVE b[i] = q[i]
    <2>1. CASE i <= k
      <3>1. i \in 1..k
        BY <2>1
      <3> QED BY <1>1, <1>4, <3>1
    <2>2. CASE i > k
      <3>1. i - k \in 1..Len(q) - k /\ k + (i - k) = i /\ i \in k + 1..Len(q)
        BY <2>2
      <3> QED BY <1>2, <1>4, <3>1
    <2> QED BY <2>1, <2>2
  <1>6. b = q
    BY <1>4, <1>5, SeqEqual
  <1> QED BY <1>3, <1>6 DEF x, z

\* v.insert(pos, w): a slice that is extended over its neighbour has what insertion
\* in a body would have given it.
LEMMA InsertChanges ==
  ASSUME IInv, NEW v \in Vars, NEW w \in Vars, NEW pos \in 0..MaxLen, Insert(v, pos, w)
  PROVE  /\ pos <= Len(Value[v])
         /\ \E s : Changes(v, s)
         /\ Aligned(v) =>
               Changes(v, Values!Part(Value[v], 0, pos) \o Value[w] \o Values!From(Value[v], pos))
  <1>1. pos \in Nat /\ pos <= slice[v].num
    BY ArraysAssumption DEF Insert
  <1>2. /\ Value[v] \in Seq(Elements) /\ Len(Value[v]) = slice[v].num
        /\ Value[w] \in Seq(Elements) /\ Len(Value[w]) = slice[w].num
        /\ slice[v].num \in Nat /\ slice[w].num \in Nat
        /\ slice[v].offset \in Nat /\ slice[w].offset \in Nat
    BY ValueIs, ArraysAssumption DEF Fits, Slices
  <1> DEFINE promised == Values!Part(Value[v], 0, pos) \o Value[w] \o Values!From(Value[v], pos)
  <1>3. CASE slice[v].body = slice[w].body /\ Follows(v, pos, w)
    <2> DEFINE s == [body |-> slice[v].body, offset |-> slice[v].offset,
                     num |-> slice[v].num + slice[w].num]
    <2>1. Adjust(v, s)
      BY <1>3, SliceIsRecord DEF Insert
    <2>2. Fits(s) /\ Elems(s) = Value[v] \o Value[w]
      BY <1>3, AdjacentSlices DEF Follows
    <2>3. promised = Value[v] \o Value[w]
      <3>1. pos = Len(Value[v])
        BY <1>2, <1>3 DEF Follows
      <3> QED BY <1>2, <3>1, AtTheEnds
    <2> HIDE DEF s, promised
    <2>4. Changes(v, promised)
      BY <2>1, <2>2, <2>3, AdjustChanges
    <2> QED BY <1>1, <1>2, <2>4 DEF promised
  <1>4. CASE /\ ~(slice[v].body = slice[w].body /\ Follows(v, pos, w))
             /\ slice[v].body = slice[w].body /\ Precedes(v, pos, w)
    <2> DEFINE s == [body |-> slice[w].body, offset |-> slice[w].offset,
                     num |-> slice[w].num + slice[v].num]
    <2>1. Adjust(v, s)
      <3>1. /\ slice[v].offset - slice[w].num = slice[w].offset
            /\ slice[v].num + slice[w].num = slice[w].num + slice[v].num
        BY <1>2, <1>4 DEF Precedes
      <3>2. [slice[v] EXCEPT !.offset = slice[v].offset - slice[w].num,
                             !.num = slice[v].num + slice[w].num]
              = [body |-> slice[v].body, offset |-> slice[v].offset - slice[w].num,
                 num |-> slice[v].num + slice[w].num]
        <4>1. PICK o, n : o = slice[v].offset - slice[w].num /\ n = slice[v].num + slice[w].num
          OBVIOUS
        <4>2. [slice[v] EXCEPT !.offset = o, !.num = n] = [body |-> slice[v].body, offset |-> o, num |-> n]
          BY SliceIsRecord
        <4> QED BY <4>1, <4>2
      <3>3. Adjust(v, [slice[v] EXCEPT !.offset = slice[v].offset - slice[w].num,
                             !.num = slice[v].num + slice[w].num])
        BY <1>4 DEF Insert
      <3> QED BY <1>4, <3>1, <3>2, <3>3
    <2>2. Fits(s) /\ Elems(s) = Value[w] \o Value[v]
      BY <1>4, AdjacentSlices DEF Precedes
    <2>3. promised = Value[w] \o Value[v]
      BY <1>2, <1>4, AtTheEnds DEF Precedes
    <2> HIDE DEF s, promised
    <2>4. Changes(v, promised)
      BY <2>1, <2>2, <2>3, AdjustChanges
    <2> QED BY <1>1, <1>2, <2>4 DEF promised
  <1>5. CASE /\ ~(slice[v].body = slice[w].body /\ Follows(v, pos, w))
             /\ ~(slice[v].body = slice[w].body /\ Precedes(v, pos, w))
    <2>1. Edit(v, pos, Value[w])
      BY <1>5 DEF Insert
    <2> QED BY <1>1, <1>2, <2>1, EditChanges
  <1> QED BY <1>3, <1>4, <1>5

\* v.remove(at, len): nothing is removed, or one end is cut off, or the body is changed.
LEMMA RemoveChanges ==
  ASSUME IInv, NEW v \in Vars, NEW at \in 0..MaxLen, NEW len \in 0..MaxLen, Remove(v, at, len)
  PROVE  /\ at + len <= Len(Value[v])
         /\ \E s : Changes(v, s)
         /\ Aligned(v) \/ AtAnEnd(slice[v], at, len) =>
               Changes(v, Values!Part(Value[v], 0, at) \o Values!From(Value[v], at + len))
  <1>1. at \in Nat /\ len \in Nat /\ slice[v].num \in Nat /\ at + len <= slice[v].num
    BY ArraysAssumption DEF Remove, IInv, TypeOK, Slices
  <1>2. Value[v] \in Seq(Elements) /\ Len(Value[v]) = slice[v].num
    BY ValueIs
  <1> DEFINE promised == Values!Part(Value[v], 0, at) \o Values!From(Value[v], at + len)
  <1>3. CASE len = 0
    <2>1. CASE at = slice[v].num \/ len = 0
      <3>1. slice' = slice /\ data' = data
        BY <2>1 DEF Remove, vars
      <3>2. IInv' /\ Value' = Value
        BY <3>1 DEF IInv, TypeOK, SlicesInBodies, Value
      <3>3. Changes(v, Value[v])
        BY <3>2, OthersAndOne DEF Changes
      <3>4. at \in 0..Len(Value[v]) /\ at + len = at
        BY <1>1, <1>2, <1>3
      <3>5. promised = Value[v]
        BY <1>2, <3>4, TwoParts
      <3> QED BY <1>1, <1>2, <3>3, <3>5
    <2> QED BY <1>3, <2>1
  <1>4. CASE len # 0 /\ AtAnEnd(slice[v], at, len)
    <2>1. Adjust(v, Trimmed(slice[v], at, len))
      BY <1>1, <1>4 DEF Remove
    <2>2. /\ Fits(Trimmed(slice[v], at, len))
          /\ Elems(Trimmed(slice[v], at, len)) =
                IF at + len = slice[v].num THEN SubSeq(Value[v], 0 + 1, 0 + at)
                ELSE SubSeq(Value[v], len + 1, slice[v].num)
      BY <1>1, <1>4, TrimmedIs
    <2>3. PICK q \in Seq(Elements) : q = Value[v]
      BY <1>2
    <2>4. CASE at + len = slice[v].num
      <3>1. Values!Part(q, 0, at) = SubSeq(q, 0 + 1, 0 + at) /\ SubSeq(q, 0 + 1, 0 + at) \in Seq(Elements)
        BY <1>1, <1>2, <2>3 DEF Values!Part
      <3>2. Values!From(q, Len(q)) = <<>>
        BY SubSeqEmpty DEF Values!From
      <3>3. promised = SubSeq(q, 0 + 1, 0 + at)
        <4>1. at + len = Len(q)
          BY <1>2, <2>3, <2>4
        <4> QED BY <2>3, <3>1, <3>2, <4>1, ConcatEmptySeq
      <3>4. Changes(v, promised)
        BY <2>1, <2>2, <2>3, <2>4, <3>3, AdjustChanges
      <3> QED BY <1>1, <1>2, <3>4
    <2>5. CASE at + len # slice[v].num
      <3>1. at = 0 /\ at + len = len
        BY <1>1, <1>4, <2>5 DEF AtAnEnd
      <3>2. Values!Part(q, 0, 0) = <<>>
        BY SubSeqEmpty DEF Values!Part
      <3>3. Values!From(q, len) = SubSeq(q, len + 1, slice[v].num) /\ Values!From(q, len) \in Seq(Elements)
        <4>1. len \in 0..Len(q) /\ Len(q) = slice[v].num
          BY <1>1, <1>2, <2>3
        <4> QED BY <4>1 DEF Values!From
      <3>4. promised = SubSeq(q, len + 1, slice[v].num)
        BY <2>3, <3>1, <3>2, <3>3, ConcatEmptySeq
      <3>5. Changes(v, promised)
        BY <2>1, <2>2, <2>3, <2>5, <3>4, AdjustChanges
      <3> QED BY <1>1, <1>2, <3>5
    <2> QED BY <2>4, <2>5
  <1>5. CASE len # 0 /\ ~ AtAnEnd(slice[v], at, len)
    <2>1. PICK u : u = Unshare(v)
      OBVIOUS
    <2>2. /\ u.body \in Bodies \ Statics /\ \A w \in Vars \ {v} : slice[w].body # u.body
          /\ u.elems \in Seq(Elements) /\ Len(u.elems) < IndexSize
          /\ u.offset \in 0..IndexSize - 1 /\ u.offset + slice[v].num <= Len(u.elems)
          /\ Value[v] = SubSeq(u.elems, u.offset + 1, u.offset + slice[v].num)
          /\ Aligned(v) => u.offset = 0
      BY <2>1, UnshareIsOwn
    <2>3. PICK d \in Seq(Elements), a \in Nat, n \in Nat :
              d = u.elems /\ a = u.offset /\ n = slice[v].num
      BY <1>1, <2>2, ArraysAssumption
    <2>4. n \in 0..Len(d) /\ a + n <= Len(d) /\ at + len <= n /\ Len(d) < IndexSize /\ a < IndexSize
      <3>1. a + n <= Len(d) /\ at + len <= n /\ Len(d) < IndexSize
        BY <1>1, <2>2, <2>3
      <3>2. a < IndexSize
        BY <2>2, <2>3, ArraysAssumption
      <3> QED BY <3>1, <3>2
    <2> DEFINE s == [body |-> u.body, offset |-> a, num |-> n - len]
               b == BodyRemove(d, at, len)
    <2>5. s \in Slices
      <3>1. a \in 0..IndexSize - 1 /\ n - len \in 0..IndexSize - 1
        BY <1>1, <2>4, ArraysAssumption
      <3> QED BY <2>2, <3>1 DEF Slices
    <2>6. Assign(v, s, s.body, b)
      BY <1>1, <1>5, <2>1, <2>3 DEF Remove, AtAnEnd
    <2>7. /\ b \in Seq(Elements) /\ Len(b) = Len(d) - len
          /\ SubSeq(b, 1, n - len) =
                Values!Part(SubSeq(d, 1, n), 0, at) \o Values!From(SubSeq(d, 1, n), at + len)
      BY <1>1, <2>4, RemovePart
    <2>8. s.body = u.body /\ s.offset = a /\ s.num = n - len /\ s.offset + s.num <= Len(b)
          /\ Len(b) < IndexSize
      BY <1>1, <2>4, <2>7, ArraysAssumption
    <2> HIDE DEF s, b
    <2>9. Changes(v, SubSeq(b, a + 1, a + (n - len)))
      BY <2>2, <2>5, <2>6, <2>7, <2>8, StoreChanges
    <2>10. ASSUME Aligned(v) PROVE Changes(v, promised)
      <3>1. a = 0 /\ a + 1 = 1 /\ a + (n - len) = n - len /\ a + n = n
        BY <1>1, <2>2, <2>3, <2>10
      <3>2. Value[v] = SubSeq(d, 1, n)
        BY <2>2, <2>3, <3>1
      <3> QED BY <2>7, <2>9, <3>1, <3>2
    <2> QED BY <1>1, <1>2, <1>5, <2>9, <2>10
  <1> QED BY <1>3, <1>4, <1>5
-------------------------------------------------------------------------------
(***************************************************************************)
(* The operations that make new arrays.                                    *)
(***************************************************************************)
\* v = Array(data, size)
LEMMA ConstructChanges ==
  ASSUME IInv, NEW v \in Vars, NEW s \in Inputs, Construct(v, s)
  PROVE  Changes(v, s)
  BY ArraysAssumption, MakeChanges DEF Construct

\* v = w + e
LEMMA PlusChanges ==
  ASSUME IInv, NEW v \in Vars, NEW w \in Vars, NEW e \in Elements, Plus(v, w, e)
  PROVE  Changes(v, Append(Value[w], e))
  <1>1. Value[w] \in Seq(Elements) /\ Len(Value[w]) = slice[w].num
    BY ValueIs
  <1>2. Append(Value[w], e) \in Seq(Elements) /\ Len(Append(Value[w], e)) = Len(Value[w]) + 1
    BY <1>1, AppendProperties
  <1>3. Len(Append(Value[w], e)) < IndexSize
    <2>1. slice[w].num \in Nat /\ slice[w].num < MaxLen
      BY ArraysAssumption DEF Plus, IInv, TypeOK, Slices
    <2> QED BY <1>1, <1>2, <2>1, ArraysAssumption
  <1> QED BY <1>2, <1>3, MakeChanges DEF Plus

\* v = w.map(f)
LEMMA MapChanges ==
  ASSUME IInv, NEW v \in Vars, NEW w \in Vars, NEW f \in Functions, Map(v, w, f)
  PROVE  Changes(v, [i \in DOMAIN Value[w] |-> f[Value[w][i]]])
  <1>1. PICK q \in Seq(Elements) : q = Value[w] /\ Len(q) = slice[w].num
    BY ValueIs
  <1>2. f \in [Elements -> Elements]
    BY ArraysAssumption
  <1> DEFINE r == [i \in DOMAIN q |-> f[q[i]]]
  <1>3. r \in Seq(Elements) /\ Len(r) = Len(q)
    BY <1>2
  <1>4. Len(r) < IndexSize
    BY <1>1, <1>3, ArraysAssumption DEF IInv, TypeOK, Slices
  <1>5. Make(v, r)
    BY <1>1 DEF Map
  <1> HIDE DEF r
  <1>6. Changes(v, r)
    BY <1>3, <1>4, <1>5, MakeChanges
  <1> QED BY <1>1, <1>6 DEF r

\* r has the first k elements of s that are in E, those and in their order.
SelectsAt(s, E, k, r, n, at) ==
    /\ {at[i] : i \in 1..n} = {i \in 1..k : s[i] \in E}
    /\ \A i, j \in 1..n : i < j => at[i] < at[j]
    /\ r = [i \in 1..n |-> s[at[i]]]

Selects(s, E, k, r) ==
    \E n \in 0..k : \E at \in [1..n -> 1..k] : SelectsAt(s, E, k, r, n, at)

\* One more element.
LEMMA SelectsMore ==
  ASSUME NEW s \in Seq(Elements), NEW E, NEW k \in Nat, k + 1 <= Len(s), NEW r, Selects(s, E, k, r)
  PROVE  Selects(s, E, k + 1, IF s[k + 1] \in E THEN Append(r, s[k + 1]) ELSE r)
  <1>0. PICK n \in 0..k : \E at \in [1..n -> 1..k] : SelectsAt(s, E, k, r, n, at)
    BY DEF Selects
  <1>a. PICK at \in [1..n -> 1..k] : SelectsAt(s, E, k, r, n, at)
    BY <1>0
  <1>1. /\ {at[i] : i \in 1..n} = {i \in 1..k : s[i] \in E}
        /\ \A i, j \in 1..n : i < j => at[i] < at[j]
        /\ r = [i \in 1..n |-> s[at[i]]]
    BY <1>a DEF SelectsAt
  <1>2. n \in Nat /\ \A i \in 1..n : at[i] \in 1..k /\ s[at[i]] \in Elements
    OBVIOUS
  <1>3. CASE s[k + 1] \notin E
    <2>1. n \in 0..k + 1 /\ at \in [1..n -> 1..k + 1]
      OBVIOUS
    <2>2. {at[i] : i \in 1..n} = {i \in 1..k + 1 : s[i] \in E}
      BY <1>1, <1>3
    <2> QED BY <1>1, <1>3, <2>1, <2>2 DEF Selects, SelectsAt
  <1>4. CASE s[k + 1] \in E
    <2> DEFINE bt == [i \in 1..n + 1 |-> IF i = n + 1 THEN k + 1 ELSE at[i]]
               q == [i \in 1..n + 1 |-> s[bt[i]]]
    <2>1. n + 1 \in 0..k + 1 /\ bt \in [1..n + 1 -> 1..k + 1]
      BY <1>2
    <2>2. bt[n + 1] = k + 1 /\ \A i \in 1..n : bt[i] = at[i]
      BY <1>2
    <2>3. \A i \in 1..n + 1 : i \in 1..n \/ i = n + 1
      BY <1>2
    <2>4. \A i \in 1..k + 1 : i \in 1..k \/ i = k + 1
      OBVIOUS
    <2>5. {bt[i] : i \in 1..n + 1} = {i \in 1..k + 1 : s[i] \in E}
      <3>1. n + 1 \in 1..n + 1 /\ 1..n \subseteq 1..n + 1
        BY <1>2
      <3>2. ASSUME NEW x \in {bt[i] : i \in 1..n + 1} PROVE x \in {i \in 1..k + 1 : s[i] \in E}
        <4>1. PICK i \in 1..n + 1 : x = bt[i]
          OBVIOUS
        <4>2. CASE i = n + 1
          BY <1>4, <2>2, <4>1, <4>2
        <4>3. CASE i \in 1..n
          <5>1. at[i] \in {m \in 1..k : s[m] \in E}
            BY <1>1, <4>3
          <5> QED BY <2>2, <4>1, <4>3, <5>1
        <4> QED BY <2>3, <4>2, <4>3
      <3>3. ASSUME NEW x \in 1..k + 1, s[x] \in E PROVE x \in {bt[i] : i \in 1..n + 1}
        <4>1. CASE x = k + 1
          BY <2>2, <3>1, <4>1
        <4>2. CASE x \in 1..k
          <5>1. x \in {at[i] : i \in 1..n}
            BY <1>1, <3>3, <4>2
          <5>2. PICK i \in 1..n : x = at[i]
            BY <5>1
          <5> QED BY <2>2, <3>1, <5>2
        <4> QED BY <2>4, <4>1, <4>2
      <3> QED BY <3>2, <3>3
    <2>6. ASSUME NEW i \in 1..n + 1, NEW j \in 1..n + 1, i < j PROVE bt[i] < bt[j]
      <3>1. i \in 1..n
        BY <1>2, <2>6
      <3>2. CASE j = n + 1
        BY <1>2, <2>2, <3>1, <3>2
      <3>3. CASE j \in 1..n
        BY <1>1, <2>2, <2>6, <3>1, <3>3
      <3> QED BY <2>3, <3>2, <3>3
    <2>7. Append(r, s[k + 1]) = q
      <3>1. r \in Seq(Elements) /\ Len(r) = n /\ \A i \in 1..n : r[i] = s[at[i]]
        <4>1. r = [i \in 1..n |-> s[at[i]]]
          BY <1>1
        <4> QED BY <1>2, <4>1
      <3>2. s[k + 1] \in Elements
        OBVIOUS
      <3>3. /\ Append(r, s[k + 1]) \in Seq(Elements) /\ Len(Append(r, s[k + 1])) = n + 1
            /\ \A i \in 1..n : Append(r, s[k + 1])[i] = r[i]
            /\ Append(r, s[k + 1])[n + 1] = s[k + 1]
        BY <3>1, <3>2, AppendProperties
      <3>4. /\ q \in Seq(Elements) /\ Len(q) = n + 1
            /\ \A i \in 1..n + 1 : q[i] = s[bt[i]]
        <4>1. \A i \in 1..n + 1 : s[bt[i]] \in Elements
          BY <1>2, <2>2, <2>3, <3>2
        <4> HIDE DEF bt
        <4> QED BY <1>2, <4>1
      <3> HIDE DEF q, bt
      <3>5. ASSUME NEW i \in 1..n + 1 PROVE Append(r, s[k + 1])[i] = q[i]
        <4>1. CASE i = n + 1
          BY <2>2, <3>3, <3>4, <4>1
        <4>2. CASE i \in 1..n
          <5>1. bt[i] = at[i]
            BY <2>2, <4>2
          <5>2. q[i] = s[bt[i]]
            BY <3>4
          <5>3. Append(r, s[k + 1])[i] = r[i] /\ r[i] = s[at[i]]
            BY <3>1, <3>3, <4>2
          <5> QED BY <5>1, <5>2, <5>3
        <4> QED BY <2>3, <4>1, <4>2
      <3> QED BY <3>3, <3>4, <3>5, SeqEqual
    <2> HIDE DEF bt
    <2> QED BY <1>4, <2>1, <2>5, <2>6, <2>7 DEF Selects, SelectsAt
  <1> QED BY <1>3, <1>4

\* Appending those wanted one after the other selects them.
LEMMA AppendedSelects ==
  ASSUME NEW s \in Seq(Elements), NEW E
  PROVE  Selects(s, E, Len(s), Appended(s, E)[Len(s)])
  <1> DEFINE N == Len(s)
             Recursion(m) == m = [n \in 0..Len(s) |->
                IF n = 0 THEN <<>>
                ELSE IF s[n] \in E THEN Append(m[n - 1], s[n]) ELSE m[n - 1]]
             step == [n \in 1..N |-> [x \in Seq(Elements) |->
                          IF s[n] \in E THEN Append(x, s[n]) ELSE x]]
  <1>1. N \in Nat /\ <<>> \in Seq(Elements)
    BY EmptySeq
  <1>2. step \in [1..N -> [Seq(Elements) -> Seq(Elements)]]
    <2>1. ASSUME NEW n \in 1..N, NEW x \in Seq(Elements)
          PROVE  (IF s[n] \in E THEN Append(x, s[n]) ELSE x) \in Seq(Elements)
      BY AppendProperties
    <2> QED BY <2>1
  <1>3. \E m : Recursion(m)
    <2> HIDE DEF step, N
    <2>1. PICK m \in [0..N -> Seq(Elements)] : m[0] = <<>> /\ \A n \in 1..N : m[n] = step[n][m[n - 1]]
      <3> DEFINE S == Seq(Elements)
      <3>1. N \in Nat /\ <<>> \in S /\ step \in [1..N -> [S -> S]]
        BY <1>1, <1>2
      <3> HIDE DEF S
      <3>2. \E m \in [0..N -> S] : m[0] = <<>> /\ \A n \in 1..N : m[n] = step[n][m[n - 1]]
        <4>1. PICK z \in S : z = <<>>
          BY <3>1
        <4>2. N \in Nat /\ step \in [1..N -> [S -> S]]
          BY <3>1
        <4>3. \E m \in [0..N -> S] : m[0] = z /\ \A n \in 1..N : m[n] = step[n][m[n - 1]]
          BY <4>2, RecursiveFunctionExists
        <4> QED BY <4>1, <4>3
      <3> QED BY <3>2 DEF S
    <2> DEFINE next(n) == IF n = 0 THEN <<>> ELSE IF s[n] \in E THEN Append(m[n - 1], s[n]) ELSE m[n - 1]
    <2>2. ASSUME NEW n \in 0..N PROVE m[n] = next(n)
      <3>1. n = 0 \/ (n \in 1..N /\ m[n - 1] \in Seq(Elements))
        <4>1. CASE n # 0
          <5>1. n \in 1..N /\ n - 1 \in 0..N
            BY <1>1, <4>1
          <5>2. m[n - 1] \in Seq(Elements)
            BY <2>1, <5>1, Zenon
          <5> QED BY <5>1, <5>2
        <4> QED BY <4>1
      <3> QED BY <2>1, <3>1 DEF step
    <2>3. m = [n \in 0..N |-> m[n]]
      BY Zenon
    <2>4. m = [n \in 0..N |-> next(n)]
      <3> HIDE DEF next
      <3> QED BY <2>2, <2>3
    <2>5. Recursion(m)
      BY <2>4, Zenon DEF N
    <2> QED BY <2>5
  <1>4. Recursion(Appended(s, E))
    BY <1>3 DEF Appended
  <1> HIDE DEF step
  <1>5. ASSUME NEW m, Recursion(m) PROVE Selects(s, E, N, m[N])
    <2> DEFINE S == {k \in Nat : k <= N => Selects(s, E, k, m[k])}
    <2>1. \A n \in 0..N : m[n] = IF n = 0 THEN <<>>
                             ELSE IF s[n] \in E THEN Append(m[n - 1], s[n]) ELSE m[n - 1]
      BY <1>5, Zenon
    <2>2. 0 \in S
      <3>1. m[0] = <<>>
        BY <1>1, <2>1
      <3>2. Selects(s, E, 0, <<>>)
        <4> DEFINE at == [i \in 1..0 |-> 0]
        <4>1. 0 \in 0..0 /\ at \in [1..0 -> 1..0]
          OBVIOUS
        <4>2. SelectsAt(s, E, 0, <<>>, 0, at)
          <5>1. 1..0 = {} /\ [i \in 1..0 |-> s[at[i]]] = <<>>
            OBVIOUS
          <5> QED BY <5>1 DEF SelectsAt
        <4> HIDE DEF at
        <4> QED BY <4>1, <4>2 DEF Selects
      <3> QED BY <3>1, <3>2
    <2>3. ASSUME NEW k \in S PROVE k + 1 \in S
      <3>1. SUFFICES ASSUME k + 1 <= N PROVE Selects(s, E, k + 1, m[k + 1])
        OBVIOUS
      <3>2. Selects(s, E, k, m[k])
        BY <1>1, <3>1
      <3>3. m[k + 1] = IF s[k + 1] \in E THEN Append(m[k], s[k + 1]) ELSE m[k]
        BY <1>1, <2>1, <3>1
      <3> QED BY <3>1, <3>2, <3>3, SelectsMore
    <2>4. S \in SUBSET Nat
      OBVIOUS
    <2>5. S = Nat
      <3> HIDE DEF S
      <3> QED BY <2>2, <2>3, <2>4, NaturalsByInduction
    <2> QED BY <1>1, <2>5
  <1> QED BY <1>4, <1>5

\* v = w.select(E)
LEMMA SelectChanges ==
  ASSUME IInv, NEW v \in Vars, NEW w \in Vars, NEW E, Select(v, w, E)
  PROVE  \E r : Selects(Value[w], E, Len(Value[w]), r) /\ Changes(v, r)
  <1>1. Value[w] \in Seq(Elements) /\ Len(Value[w]) = slice[w].num
    BY ValueIs
  <1>2. PICK q \in Seq(Elements) : q = Value[w] /\ Len(q) < IndexSize
    BY <1>1, ArraysAssumption DEF IInv, TypeOK, Slices
  <1>3. PICK r : r = Appended(q, E)[Len(q)]
    OBVIOUS
  <1>4. Selects(q, E, Len(q), r)
    BY <1>3, AppendedSelects
  <1>5. r \in Seq(Elements) /\ Len(r) < IndexSize
    <2>0. PICK n \in 0..Len(q) : \E at \in [1..n -> 1..Len(q)] : r = [i \in 1..n |-> q[at[i]]]
      BY <1>4 DEF Selects, SelectsAt
    <2>1. PICK at \in [1..n -> 1..Len(q)] : r = [i \in 1..n |-> q[at[i]]]
      BY <2>0
    <2>2. \A i \in 1..n : q[at[i]] \in Elements
      OBVIOUS
    <2>3. r \in Seq(Elements) /\ Len(r) = n
      BY <2>1, <2>2
    <2> QED BY <1>2, <2>3, ArraysAssumption
  <1>6. CASE r = <<>>
    BY <1>2, <1>3, <1>4, <1>6, EmptyFits, AdjustChanges DEF Select
  <1>7. CASE r # <<>>
    BY <1>2, <1>3, <1>4, <1>5, <1>7, MakeChanges DEF Select
  <1> QED BY <1>6, <1>7
-------------------------------------------------------------------------------
(***************************************************************************)
(* The theorems.                                                           *)
(***************************************************************************)
\* Every operation keeps the invariant, and gives one variable a new value at
\* most.
LEMMA NextChanges ==
  ASSUME IInv, Next
  PROVE  \E v \in Vars : \E s : Changes(v, s)
  <1>1. PICK v \in Vars :
           \/ \E s \in Inputs : Construct(v, s)
           \/ \E b \in Statics : Refer(v, b)
           \/ \E e \in Elements : Push(v, e)
           \/ Pull(v) \/ Clear(v)
           \/ \E pos \in 0..MaxLen - 1, e \in Elements : Set(v, pos, e)
           \/ \E at \in 0..MaxLen, len \in 0..MaxLen : Remove(v, at, len)
           \/ \E w \in Vars :
                  \/ Copy(v, w)
                  \/ \E at, len \in 0..MaxLen : Slice(v, w, at, len)
                  \/ \E n \in 0..MaxLen : Drop(v, w, n)
                  \/ \E pos \in 0..MaxLen : Insert(v, pos, w)
                  \/ \E E \in Predicates : Select(v, w, E)
                  \/ \E e \in Elements : Plus(v, w, e)
                  \/ \E f \in Functions : Map(v, w, f)
    BY DEF Next
  <1>2. SUFFICES \E s : Changes(v, s)
    OBVIOUS
  <1>3. ASSUME NEW s \in Inputs, Construct(v, s) PROVE \E r : Changes(v, r)
    BY <1>3, ConstructChanges
  <1>4. ASSUME NEW b \in Statics, Refer(v, b) PROVE \E r : Changes(v, r)
    BY <1>4, ReferChanges
  <1>5. ASSUME NEW e \in Elements, Push(v, e) PROVE \E r : Changes(v, r)
    BY <1>5, PushChanges
  <1>6. CASE Pull(v)
    BY <1>6, PullChanges
  <1>7. CASE Clear(v)
    BY <1>7, ClearChanges
  <1>8. ASSUME NEW pos \in 0..MaxLen - 1, NEW e \in Elements, Set(v, pos, e) PROVE \E r : Changes(v, r)
    BY <1>8, SetChanges
  <1>9. ASSUME NEW at \in 0..MaxLen, NEW len \in 0..MaxLen, Remove(v, at, len) PROVE \E r : Changes(v, r)
    BY <1>9, RemoveChanges
  <1>10. ASSUME NEW w \in Vars,
            \/ Copy(v, w)
            \/ \E at, len \in 0..MaxLen : Slice(v, w, at, len)
            \/ \E n \in 0..MaxLen : Drop(v, w, n)
            \/ \E pos \in 0..MaxLen : Insert(v, pos, w)
            \/ \E E \in Predicates : Select(v, w, E)
            \/ \E e \in Elements : Plus(v, w, e)
            \/ \E f \in Functions : Map(v, w, f)
         PROVE \E r : Changes(v, r)
    <2>1. CASE Copy(v, w)
      BY <2>1, CopyChanges
    <2>2. ASSUME NEW at \in 0..MaxLen, NEW len \in 0..MaxLen, Slice(v, w, at, len) PROVE \E r : Changes(v, r)
      BY <2>2, SliceChanges
    <2>3. ASSUME NEW n \in 0..MaxLen, Drop(v, w, n) PROVE \E r : Changes(v, r)
      BY <2>3, DropChanges
    <2>4. ASSUME NEW pos \in 0..MaxLen, Insert(v, pos, w) PROVE \E r : Changes(v, r)
      BY <2>4, InsertChanges
    <2>5. ASSUME NEW E \in Predicates, Select(v, w, E) PROVE \E r : Changes(v, r)
      BY <2>5, SelectChanges
    <2>6. ASSUME NEW e \in Elements, Plus(v, w, e) PROVE \E r : Changes(v, r)
      BY <2>6, PlusChanges
    <2>7. ASSUME NEW f \in Functions, Map(v, w, f) PROVE \E r : Changes(v, r)
      BY <2>7, MapChanges
    <2> QED BY <1>10, <2>1, <2>2, <2>3, <2>4, <2>5, <2>6, <2>7
  <1> QED BY <1>1, <1>3, <1>4, <1>5, <1>6, <1>7, <1>8, <1>9, <1>10

\* Whichever operation it is, when it completes it has done what it would do to
\* a sequence.
LEMMA OperationsAsSequences ==
  ASSUME IInv, NEW v \in Vars
  PROVE  AsSequences(v, Aligned(v))
  <1>1. ASSUME NEW s \in Inputs, Construct(v, s) PROVE Values!Construct(v, s)
    BY <1>1, ConstructChanges DEF Changes, Values!Construct, Values!Becomes
  <1>2. ASSUME NEW b \in Statics, Refer(v, b) PROVE Values!Construct(v, data[b])
    BY <1>2, ReferChanges DEF Changes, Values!Construct, Values!Becomes
  <1>3. ASSUME Pull(v) PROVE Values!Pull(v)
    <2>1. slice[v].num \in Nat \ {0}
      BY <1>3, ArraysAssumption DEF Pull, IInv, TypeOK, Slices
    <2>2. PICK q \in Seq(Elements) : q = Value[v] /\ Len(q) = slice[v].num
      BY ValueIs
    <2>3. /\ q # <<>> /\ 0 + (slice[v].num - 1) = Len(q) - 1
          /\ Values!Part(q, 0, Len(q) - 1) = SubSeq(q, 0 + 1, Len(q) - 1)
      BY <2>1, <2>2 DEF Values!Part
    <2>4. Changes(v, SubSeq(Value[v], 0 + 1, 0 + (slice[v].num - 1)))
      BY <1>3, PullChanges
    <2> QED BY <2>2, <2>3, <2>4 DEF Changes, Values!Pull, Values!Becomes
  <1>4. ASSUME Clear(v) PROVE Values!Clear(v)
    BY <1>4, ClearChanges DEF Changes, Values!Clear, Values!Becomes
  <1>5. ASSUME NEW pos \in 0..MaxLen - 1, NEW e \in Elements, Set(v, pos, e)
        PROVE  Values!Set(v, pos, e)
    BY <1>5, SetChanges DEF Changes, Values!Set, Values!Becomes
  <1>6. ASSUME NEW e \in Elements, Aligned(v), Push(v, e) PROVE Values!Push(v, e)
    BY <1>6, PushChanges DEF Changes, Values!Push, Values!Becomes
  <1>7. ASSUME NEW at \in 0..MaxLen, NEW len \in 0..MaxLen,
               Aligned(v) \/ AtAnEnd(slice[v], at, len), Remove(v, at, len)
        PROVE  Values!Remove(v, at, len)
    BY <1>7, RemoveChanges DEF Changes, Values!Remove, Values!Becomes
  <1>8. ASSUME NEW w \in Vars, Copy(v, w) PROVE Values!Copy(v, w)
    BY <1>8, CopyChanges DEF Changes, Values!Copy, Values!Becomes
  <1>9. ASSUME NEW w \in Vars, NEW at \in 0..MaxLen, NEW len \in 0..MaxLen, Slice(v, w, at, len)
        PROVE  Values!Slice(v, w, at, len)
    BY <1>9, SliceChanges DEF Changes, Values!Slice, Values!Becomes
  <1>10. ASSUME NEW w \in Vars, NEW n \in 0..MaxLen, Drop(v, w, n) PROVE Values!Drop(v, w, n)
    BY <1>10, DropChanges DEF Changes, Values!Drop, Values!Becomes
  <1>11. ASSUME NEW w \in Vars, NEW pos \in 0..MaxLen, Aligned(v), Insert(v, pos, w)
         PROVE  Values!Insert(v, pos, w)
    BY <1>11, InsertChanges DEF Changes, Values!Insert, Values!Becomes
  <1>12. ASSUME NEW w \in Vars, NEW E \in Predicates, Select(v, w, E)
         PROVE  Values!Select(v, w, E)
    <2>1. PICK r : Selects(Value[w], E, Len(Value[w]), r) /\ Changes(v, r)
      BY <1>12, SelectChanges
    <2>2. DOMAIN Value[w] = 1..Len(Value[w])
      BY ValueIs
    <2> QED BY <2>1, <2>2 DEF Selects, SelectsAt, Changes, Values!Select, Values!Becomes
  <1>13. ASSUME NEW w \in Vars, NEW e \in Elements, Plus(v, w, e) PROVE Values!Plus(v, w, e)
    BY <1>13, PlusChanges DEF Changes, Values!Plus, Values!Becomes
  <1>14. ASSUME NEW w \in Vars, NEW f \in Functions, Map(v, w, f) PROVE Values!Map(v, w, f)
    BY <1>14, MapChanges DEF Changes, Values!Map, Values!Becomes
  <1> QED BY <1>1, <1>2, <1>3, <1>4, <1>5, <1>6, <1>7, <1>8, <1>9, <1>10, <1>11, <1>12, <1>13, <1>14
          DEF AsSequences

\* The invariant holds of arrays without bodies.
LEMMA InitInv ==
  ASSUME Init
  PROVE  IInv /\ Values!Init
  <1>1. \A b \in Bodies : data[b] \in Seq(Elements) /\ Len(data[b]) < IndexSize
    BY ArraysAssumption, EmptySeq DEF Init
  <1>2. Empty \in Slices
    BY EmptyFits DEF Fits
  <1> QED BY <1>1, <1>2 DEF Init, IInv, TypeOK, SlicesInBodies, Empty, Value, Values!Init

\* The invariant.
THEOREM Invariance == Spec => []IInv
  <1>1. Init => IInv
    BY InitInv
  <1>2. ASSUME IInv, [Next]_vars PROVE IInv'
    <2>1. CASE Next
      BY <1>2, <2>1, NextChanges DEF Changes
    <2>2. CASE UNCHANGED vars
      BY <1>2, <2>2 DEF IInv, TypeOK, SlicesInBodies, vars
    <2> QED BY <1>2, <2>1, <2>2
  <1> QED BY <1>1, <1>2, PTL DEF Spec

\* The variables have their types: no offset and no number of elements ever
\* leaves the range of ArrayIndex.
THEOREM TypeCorrect == Spec => []TypeOK
  <1>1. IInv => TypeOK
    BY DEF IInv
  <1> QED BY <1>1, Invariance, PTL

\* No operation on any variable leaves a slice that reaches beyond the end of
\* its body, or one that has lost its body.
THEOREM SlicesStayInBodies == Spec => []SlicesInBodies
  <1>1. IInv => SlicesInBodies
    BY DEF IInv
  <1> QED BY <1>1, Invariance, PTL

\* An operation on one Array changes no other, not even one that shares its
\* body, and not even the operations that treat a slice inside its own body
\* wrongly.
THEOREM OthersAreUnaffected == Spec => OthersUnaffected
  <1>1. ASSUME IInv, [Next]_vars
        PROVE  [\A u, v \in Vars : u # v /\ Value'[u] # Value[u] => Value'[v] = Value[v]]_vars
    <2>1. CASE Next
      <3>1. PICK x \in Vars : \E s : Changes(x, s)
        BY <1>1, <2>1, NextChanges
      <3>2. \A u \in Vars \ {x} : Value'[u] = Value[u]
        BY <3>1 DEF Changes, Value
      <3> QED BY <3>2
    <2>2. CASE UNCHANGED vars
      BY <2>2
    <2> QED BY <1>1, <2>1, <2>2
  <1> QED BY <1>1, Invariance, PTL DEF Spec, OthersUnaffected

\* Whatever operation completes has done to its Array what it would do to a
\* sequence, and nothing to the others: push, insert and remove in the middle as
\* long as the slice is not one that begins inside a body nobody else uses.
\* select and map complete on arrays that have a body (HasBody), and the theorem
\* says nothing of calls on the others, which dereference null.
THEOREM AlignedSlicesAreValues == Spec => AlignedByValue
  <1>1. Init => Values!Init
    BY InitInv
  <1>2. ASSUME IInv PROVE \A v \in Vars : AsSequences(v, Aligned(v))
    BY <1>2, OperationsAsSequences
  <1> QED BY <1>1, <1>2, Invariance, PTL DEF Spec, AlignedByValue
==============================================================================
