---------------------------- MODULE StringsProofs ----------------------------
(***************************************************************************)
(* Proofs about Strings, for any number of strings, any well-formed        *)
(* characters, and bodies and slices of any length.                        *)
(***************************************************************************)
EXTENDS Strings, SequenceTheorems, FiniteSetTheorems, NatLemmas

----------------------------------------------------------------------------
(* Texts: where their characters are                                       *)

\* A part of a sequence, element by element.
LEMMA PartOf ==
  ASSUME NEW X, NEW d \in Seq(X), NEW a \in Nat, NEW n \in Nat, a + n <= Len(d)
  PROVE  /\ SubSeq(d, a + 1, a + n) \in Seq(X)
         /\ Len(SubSeq(d, a + 1, a + n)) = n
         /\ \A i \in 1..n : SubSeq(d, a + 1, a + n)[i] = d[a + i]
  OBVIOUS

\* f adds up the lengths of the characters of s: f[k] is the byte at which the
\* kth one ends.
AddsUp(f, s) == /\ f \in [0..Len(s) -> Nat]
                /\ f[0] = 0
                /\ \A k \in 1..Len(s) : f[k] = f[k - 1] + Len(s[k])

Offsets(s) == CHOOSE f : AddsUp(f, s)

\* A character has from one to six bytes.
LEMMA CharacterIs ==
  ASSUME NEW c \in Characters
  PROVE  /\ c \in Seq(0..6) /\ Len(c) \in Nat /\ 1 <= Len(c) /\ Len(c) <= 6 /\ c[1] = Len(c)
         /\ \A i \in 2..Len(c) : c[i] = 0
  <1>1. c \in Seq(0..6) /\ c # <<>> /\ c[1] = Len(c)
    BY DEF Characters
  <1>2. Len(c) \in Nat \ {0} /\ 1 \in DOMAIN c
    BY <1>1
  <1>3. c[1] \in 0..6
    BY <1>1, <1>2, SMTT(30)
  <1>4. \A i \in 2..Len(c) : c[i] = 0
    BY DEF Characters, UTF8Is1st
  <1> QED BY <1>1, <1>2, <1>3, <1>4

\* The offsets exist.
LEMMA OffsetsAre ==
  ASSUME NEW s \in Seq(Characters)
  PROVE  AddsUp(Offsets(s), s)
  <1> DEFINE step == [k \in 1..Len(s) |-> [n \in Nat |-> n + Len(s[k])]]
  <1>1. \A k \in 1..Len(s) : Len(s[k]) \in Nat
    BY CharacterIs
  <1>2. step \in Steps(Len(s), Nat)
    BY <1>1 DEF Steps
  <1>3. PICK f \in [0..Len(s) -> Nat] : RunsThrough(f, 0, Len(s), step)
    <2> HIDE DEF step
    <2>1. Len(s) \in Nat /\ 0 \in Nat
      OBVIOUS
    <2> QED BY <1>2, <2>1, FollowingExists
  <1>4. ASSUME NEW k \in 1..Len(s) PROVE f[k] = f[k - 1] + Len(s[k])
    <2>1. f[k - 1] \in Nat
      <3>1. k - 1 \in 0..Len(s)
        OBVIOUS
      <3> HIDE DEF step
      <3> QED BY <1>3, <3>1
    <2>2. f[k] = step[k][f[k - 1]]
      <3> HIDE DEF step
      <3> QED BY <1>3 DEF RunsThrough
    <2> QED BY <2>1, <2>2
  <1>5. AddsUp(f, s)
    BY <1>3, <1>4 DEF RunsThrough, AddsUp
  <1> QED BY <1>5 DEF Offsets

\* From one character to the next.
LEMMA OneCharacter ==
  ASSUME NEW s \in Seq(Characters), NEW f, AddsUp(f, s), NEW k \in 1..Len(s)
  PROVE  /\ s[k] \in Characters /\ Len(s[k]) \in Nat /\ 1 <= Len(s[k]) /\ Len(s[k]) <= 6
         /\ k - 1 \in 0..Len(s) /\ f[k - 1] \in Nat /\ f[k] \in Nat
         /\ f[k] = f[k - 1] + Len(s[k])
  <1>1. s[k] \in Characters
    OBVIOUS
  <1>2. Len(s[k]) \in Nat /\ 1 <= Len(s[k]) /\ Len(s[k]) <= 6
    BY <1>1, CharacterIs
  <1>3. k - 1 \in 0..Len(s) /\ k \in 0..Len(s)
    OBVIOUS
  <1> QED BY <1>1, <1>2, <1>3 DEF AddsUp

\* Every character moves the offset on.
LEMMA OffsetsGrow ==
  ASSUME NEW s \in Seq(Characters), NEW f, AddsUp(f, s), NEW i \in 0..Len(s), NEW j \in i..Len(s)
  PROVE  f[i] \in Nat /\ f[j] \in Nat /\ f[i] + (j - i) <= f[j]
  <1> DEFINE S == {n \in Nat : i + n <= Len(s) => f[i] + n <= f[i + n]}
  <1>1. /\ i \in Nat /\ Len(s) \in Nat /\ j \in Nat /\ i <= j /\ j <= Len(s)
        /\ f[i] \in Nat /\ f[j] \in Nat
    BY DEF AddsUp
  <1>2. 0 \in S
    BY <1>1
  <1>3. ASSUME NEW n \in S PROVE n + 1 \in S
    <2>1. CASE i + (n + 1) <= Len(s)
      <3>1. PICK k \in 1..Len(s) : k = i + (n + 1) /\ k - 1 = i + n
        BY <1>1, <2>1
      <3>2. f[k] = f[k - 1] + Len(s[k]) /\ Len(s[k]) \in Nat /\ 1 <= Len(s[k]) /\ Len(s[k]) <= 6 /\ f[k - 1] \in Nat
        BY OneCharacter
      <3>3. f[i] + n <= f[i + n]
        BY <1>1, <2>1
      <3>4. f[k - 1] = f[i + n] /\ f[k] = f[i + (n + 1)] /\ n \in Nat
        BY <3>1
      <3>5. f[i] + (n + 1) <= f[k]
        <4> HIDE DEF S
        <4> QED BY <1>1, <3>2, <3>3, <3>4, SMTT(30)
      <3> QED BY <3>4, <3>5
    <2> QED BY <1>1, <2>1
  <1>4. S = Nat
    <2>1. S \in SUBSET Nat
      OBVIOUS
    <2> HIDE DEF S
    <2> QED BY <1>2, <1>3, <2>1, NaturalsByInduction
  <1>5. j - i \in S /\ i + (j - i) = j
    BY <1>1, <1>4
  <1> QED BY <1>1, <1>5

\* A byte belongs to one of the characters.
LEMMA BetweenOffsets ==
  ASSUME NEW s \in Seq(Characters), NEW f, AddsUp(f, s), NEW p \in Nat, p < f[Len(s)]
  PROVE  \E k \in 1..Len(s) : f[k - 1] <= p /\ p < f[k]
  <1> DEFINE S == {k \in 0..Len(s) : p < f[k]}
  <1>1. S \in SUBSET Nat /\ S # {}
    BY DEF AddsUp
  <1>2. PICK k \in S : \A j \in S : k <= j
    BY <1>1, LeastNatural
  <1>3. k # 0
    BY DEF AddsUp
  <1>4. k - 1 \in 0..Len(s) /\ k - 1 \notin S
    BY <1>2, <1>3
  <1>5. f[k - 1] \in Nat /\ f[k - 1] <= p
    BY <1>4, SMTT(30) DEF AddsUp
  <1> QED BY <1>2, <1>3, <1>5
------------------------------------------------------------------------------
(***************************************************************************)
(* Recursion.                                                              *)
(***************************************************************************)
\* Two functions that go on alike are alike.
LEMMA AlikeByInduction ==
  ASSUME NEW N \in Nat, NEW f, NEW g, f[0] = g[0],
         \A k \in 1..N : f[k - 1] = g[k - 1] => f[k] = g[k]
  PROVE  \A k \in 0..N : f[k] = g[k]
  <1> DEFINE S == {k \in Nat : k <= N => f[k] = g[k]}
  <1>1. 0 \in S
    OBVIOUS
  <1>2. ASSUME NEW k \in S PROVE k + 1 \in S
    <2>1. CASE k + 1 <= N
      <3>1. k + 1 \in 1..N /\ (k + 1) - 1 = k /\ f[k] = g[k]
        BY <2>1
      <3>2. f[k + 1] = g[k + 1]
        BY <3>1
      <3> QED BY <3>2
    <2> QED BY <2>1
  <1>3. S = Nat
    <2>1. S \in SUBSET Nat
      OBVIOUS
    <2> HIDE DEF S
    <2> QED BY <1>1, <1>2, <2>1, NaturalsByInduction
  <1> QED BY <1>3

\* What a sequence of sequences is put together from.
Joins(f, q, S) == /\ f \in [0..Len(q) -> Seq(S)]
                  /\ f[0] = <<>>
                  /\ \A k \in 1..Len(q) : f[k] = f[k - 1] \o q[k]

\* There is such a function, for any sequences.
LEMMA JoinsExists ==
  ASSUME NEW S, NEW q \in Seq(Seq(S))
  PROVE  \E f : Joins(f, q, S)
  <1> DEFINE step == [k \in 1..Len(q) |-> [t \in Seq(S) |-> t \o q[k]]]
  <1>1. \A k \in 1..Len(q) : \A t \in Seq(S) : t \o q[k] \in Seq(S)
    BY ConcatProperties
  <1>2. step \in Steps(Len(q), Seq(S))
    BY <1>1 DEF Steps
  <1>3. PICK f \in [0..Len(q) -> Seq(S)] : RunsThrough(f, <<>>, Len(q), step)
    <2> HIDE DEF step
    <2>1. Len(q) \in Nat /\ <<>> \in Seq(S)
      OBVIOUS
    <2> QED BY <1>2, <2>1, FollowingExists
  <1>4. ASSUME NEW k \in 1..Len(q) PROVE f[k] = f[k - 1] \o q[k]
    <2>1. f[k - 1] \in Seq(S) /\ f[k] = step[k][f[k - 1]]
      <3>1. k - 1 \in 0..Len(q)
        OBVIOUS
      <3> HIDE DEF step
      <3> QED BY <1>3, <3>1 DEF RunsThrough
    <2> QED BY <2>1
  <1>5. Joins(f, q, S)
    BY <1>3, <1>4 DEF RunsThrough, Joins
  <1> QED BY <1>5

\* That is what FlattenSeq makes of it.
LEMMA FlattenIs ==
  ASSUME NEW S, NEW q \in Seq(Seq(S)), NEW f, Joins(f, q, S)
  PROVE  FlattenSeq(q) = f[Len(q)] /\ FlattenSeq(q) \in Seq(S)
  <1> DEFINE Recursion(g) == g = [k \in 1..Len(q) |-> IF k = 1 THEN q[k] ELSE g[k - 1] \o q[k]]
  <1>1. CASE Len(q) = 0
    <2>1. FlattenSeq(q) = q
      BY <1>1 DEF FlattenSeq
    <2>2. q = <<>>
      BY <1>1
    <2> QED BY <1>1, <2>1, <2>2 DEF Joins
  <1>2. CASE Len(q) # 0
    <2>1. ASSUME NEW k \in 1..Len(q)
          PROVE  f[k] = IF k = 1 THEN q[k] ELSE f[k - 1] \o q[k]
      <3>1. f[k] = f[k - 1] \o q[k] /\ q[k] \in Seq(S)
        BY DEF Joins
      <3>2. k = 1 => f[k - 1] = <<>>
        BY DEF Joins
      <3> QED BY <3>1, <3>2, ConcatEmptySeq
    <2>2. Recursion([k \in 1..Len(q) |-> f[k]])
      <3> DEFINE g == [k \in 1..Len(q) |-> f[k]]
      <3>1. ASSUME NEW k \in 1..Len(q)
            PROVE  f[k] = IF k = 1 THEN q[k] ELSE g[k - 1] \o q[k]
        <4>1. k # 1 => k - 1 \in 1..Len(q)
          OBVIOUS
        <4>2. k # 1 => g[k - 1] = f[k - 1]
          BY <4>1
        <4> QED BY <2>1, <4>2
      <3>2. g = [k \in 1..Len(q) |-> IF k = 1 THEN q[k] ELSE g[k - 1] \o q[k]]
        BY <3>1, SMTT(30)
      <3> QED BY <3>2
    <2>3. PICK g : Recursion(g) /\ FlattenSeq(q) = g[Len(q)]
      <3> DEFINE w == CHOOSE g : Recursion(g)
      <3>1. Recursion(w)
        <4> HIDE DEF Recursion
        <4> QED BY <2>2
      <3>2. FlattenSeq(q) = w[Len(q)]
        BY <1>2 DEF FlattenSeq
      <3> QED BY <3>1, <3>2, Zenon
    <2> DEFINE h == [k \in 0..Len(q) |-> IF k = 0 THEN <<>> ELSE g[k]]
    <2>4. ASSUME NEW k \in 1..Len(q), h[k - 1] = f[k - 1] PROVE h[k] = f[k]
      <3>1. g[k] = IF k = 1 THEN q[k] ELSE g[k - 1] \o q[k]
        BY <2>3
      <3>2. h[k] = g[k] /\ (k # 1 => h[k - 1] = g[k - 1])
        OBVIOUS
      <3>3. f[k] = IF k = 1 THEN q[k] ELSE f[k - 1] \o q[k]
        BY <2>1
      <3> HIDE DEF h
      <3> QED BY <2>4, <3>1, <3>2, <3>3
    <2>5. h[0] = f[0] /\ Len(q) \in Nat
      BY DEF Joins
    <2>6. h[Len(q)] = f[Len(q)]
      <3> HIDE DEF h
      <3>1. \A k \in 0..Len(q) : h[k] = f[k]
        BY <2>4, <2>5, AlikeByInduction, ZenonT(60)
      <3> QED BY <2>5, <3>1
    <2>7. h[Len(q)] = g[Len(q)]
      BY <1>2
    <2>8. f[Len(q)] \in Seq(S)
      BY DEF Joins
    <2> QED BY <2>3, <2>6, <2>7, <2>8
  <1> QED BY <1>1, <1>2
------------------------------------------------------------------------------
(***************************************************************************)
(* The text of a sequence of characters.                                   *)
(***************************************************************************)
\* t has the bytes of the first n characters of s, one after the other.
Begins(t, s, f, n) ==
  /\ t \in Seq(0..6) /\ Len(t) = f[n]
  /\ \A k \in 1..n : \A i \in 1..Len(s[k]) : t[f[k - 1] + i] = s[k][i]

Spells(t, s, f) == Begins(t, s, f, Len(s))

\* The bytes of one character more.
LEMMA SpellsMore ==
  ASSUME NEW s \in Seq(Characters), NEW f, AddsUp(f, s), NEW n \in 1..Len(s),
         NEW t, Begins(t, s, f, n - 1)
  PROVE  Begins(t \o s[n], s, f, n)
  <1> DEFINE u == t \o s[n]
  <1>0. t \in Seq(0..6) /\ Len(t) = f[n - 1] /\ Len(t) \in Nat
    BY DEF Begins
  <1>1. /\ s[n] \in Seq(0..6) /\ Len(s[n]) \in Nat /\ f[n] = f[n - 1] + Len(s[n])
        /\ f[n - 1] \in Nat /\ s[n] \in Characters
    BY OneCharacter, CharacterIs
  <1>2. /\ u \in Seq(0..6) /\ Len(u) = Len(t) + Len(s[n])
        /\ \A i \in 1..Len(t) + Len(s[n]) : u[i] = IF i <= Len(t) THEN t[i] ELSE s[n][i - Len(t)]
    BY <1>0, <1>1, ConcatProperties
  <1> HIDE DEF u
  <1>3. ASSUME NEW k \in 1..n, NEW i \in 1..Len(s[k]) PROVE u[f[k - 1] + i] = s[k][i]
    <2>1. i \in Nat /\ 1 <= i /\ i <= Len(s[k]) /\ k \in 1..Len(s)
      BY OneCharacter
    <2>2. Len(s[k]) \in Nat /\ f[k - 1] \in Nat /\ f[k] = f[k - 1] + Len(s[k])
      BY <2>1, OneCharacter
    <2>3. CASE k = n
      <3>1. f[k - 1] + i \in 1..Len(t) + Len(s[n]) /\ ~(f[k - 1] + i <= Len(t))
        BY <1>0, <1>1, <2>1, <2>2, <2>3
      <3>2. (f[k - 1] + i) - Len(t) = i
        BY <1>0, <2>1, <2>2, <2>3
      <3> QED BY <1>2, <2>3, <3>1, <3>2
    <2>4. CASE k # n
      <3>1. k \in 1..n - 1 /\ k \in 0..Len(s) /\ n - 1 \in k..Len(s)
        BY <2>4
      <3>2. f[k] <= f[n - 1]
        <4>1. f[k] \in Nat /\ f[n - 1] \in Nat /\ f[k] + ((n - 1) - k) <= f[n - 1]
          BY <3>1, OffsetsGrow
        <4> QED BY <3>1, <4>1
      <3>3. f[k - 1] + i \in 1..Len(t) + Len(s[n]) /\ f[k - 1] + i <= Len(t)
        <4>1. f[k - 1] + i <= Len(t) /\ 1 <= f[k - 1] + i
          BY <1>0, <2>1, <2>2, <3>2
        <4> QED BY <1>0, <1>1, <2>1, <2>2, <4>1, SMTT(30)
      <3>4. u[f[k - 1] + i] = t[f[k - 1] + i]
        BY <1>2, <3>3
      <3> QED BY <3>1, <3>4 DEF Begins
    <2> QED BY <2>3, <2>4
  <1> QED BY <1>0, <1>1, <1>2, <1>3 DEF u, Begins

\* Encode spells its characters.
LEMMA EncodeSpells ==
  ASSUME NEW s \in Seq(Characters), NEW f, AddsUp(f, s)
  PROVE  Spells(Encode(s), s, f)
  <1>1. s \in Seq(Seq(0..6))
    <2>1. Characters \subseteq Seq(0..6)
      BY CharacterIs
    <2> QED BY <2>1
  <1>2. PICK g : Joins(g, s, 0..6)
    BY <1>1, JoinsExists
  <1>3. Encode(s) = g[Len(s)]
    BY <1>1, <1>2, FlattenIs DEF Encode
  <1> DEFINE S == {n \in Nat : n <= Len(s) => Begins(g[n], s, f, n)}
  <1>4. 0 \in S
    <2>1. g[0] = <<>> /\ f[0] = 0
      BY <1>2 DEF Joins, AddsUp
    <2>2. Begins(<<>>, s, f, 0)
      BY <2>1 DEF Begins
    <2> QED BY <2>1, <2>2
  <1>5. ASSUME NEW n \in S PROVE n + 1 \in S
    <2> SUFFICES ASSUME n + 1 <= Len(s) PROVE Begins(g[n + 1], s, f, n + 1)
      OBVIOUS
    <2>1. PICK m \in 1..Len(s) : m = n + 1 /\ m - 1 = n
      OBVIOUS
    <2>2. Begins(g[m - 1], s, f, m - 1)
      BY <2>1
    <2>3. g[m] = g[m - 1] \o s[m]
      BY <1>2 DEF Joins
    <2>4. Begins(g[m], s, f, m)
      <3> HIDE DEF S
      <3> QED BY <2>2, <2>3, SpellsMore
    <2> QED BY <2>1, <2>4
  <1>6. S = Nat
    <2>1. S \in SUBSET Nat
      OBVIOUS
    <2> HIDE DEF S
    <2> QED BY <1>4, <1>5, <2>1, NaturalsByInduction
  <1>7. Len(s) \in S
    <2> HIDE DEF S
    <2> QED BY <1>6
  <1> QED BY <1>3, <1>7 DEF Spells

\* There is one such text.
LEMMA SpelledOnce ==
  ASSUME NEW s \in Seq(Characters), NEW f, AddsUp(f, s), NEW t, NEW u, Spells(t, s, f), Spells(u, s, f)
  PROVE  t = u
  <1>1. t \in Seq(0..6) /\ u \in Seq(0..6) /\ Len(t) = Len(u) /\ Len(t) = f[Len(s)]
    BY DEF Spells, Begins
  <1>2. ASSUME NEW p \in 1..Len(t) PROVE t[p] = u[p]
    <2>1. p - 1 \in Nat /\ p - 1 < f[Len(s)]
      BY <1>1
    <2>2. PICK k \in 1..Len(s) : f[k - 1] <= p - 1 /\ p - 1 < f[k]
      BY <2>1, BetweenOffsets
    <2>3. f[k - 1] \in Nat /\ Len(s[k]) \in Nat /\ f[k] = f[k - 1] + Len(s[k])
      BY OneCharacter
    <2>4. PICK i \in 1..Len(s[k]) : p = f[k - 1] + i
      <3>1. p - f[k - 1] \in 1..Len(s[k]) /\ p = f[k - 1] + (p - f[k - 1])
        BY <2>2, <2>3
      <3> QED BY <3>1
    <2>5. t[f[k - 1] + i] = s[k][i] /\ u[f[k - 1] + i] = s[k][i]
      BY DEF Spells, Begins
    <2> QED BY <2>4, <2>5
  <1> QED BY <1>1, <1>2, SeqEqual
------------------------------------------------------------------------------
(***************************************************************************)
(* Stepping.                                                               *)
(***************************************************************************)
\* A text is at least as long as it has characters.
LEMMA SpellsRange ==
  ASSUME NEW s \in Seq(Characters), NEW f, AddsUp(f, s), NEW t, Spells(t, s, f), NEW k \in 0..Len(s)
  PROVE  /\ f[k] \in Nat /\ Len(t) \in Nat /\ Len(t) = f[Len(s)]
         /\ f[k] + (Len(s) - k) <= Len(t) /\ k <= f[k]
  <1>1. Len(t) \in Nat /\ Len(t) = f[Len(s)]
    BY DEF Spells, Begins
  <1>2. /\ 0 \in 0..Len(s) /\ k \in 0..Len(s)
        /\ Len(s) \in k..Len(s) /\ f[0] = 0
    BY DEF AddsUp
  <1>3. f[k] \in Nat /\ f[0] + (k - 0) <= f[k]
    BY <1>2, OffsetsGrow
  <1>4. f[k] + (Len(s) - k) <= f[Len(s)]
    BY <1>2, OffsetsGrow
  <1> QED BY <1>1, <1>2, <1>3, <1>4

\* The bytes of the kth character.
LEMMA ByteIs ==
  ASSUME NEW s \in Seq(Characters), NEW f, AddsUp(f, s), NEW t, Spells(t, s, f), NEW k \in 1..Len(s)
  PROVE  /\ ByteAt(t, f[k - 1]) = Len(s[k])
         /\ \A i \in 1..Len(s[k]) - 1 : ByteAt(t, f[k - 1] + i) = 0
  <1>1. /\ s[k] \in Characters /\ Len(s[k]) \in Nat /\ 1 <= Len(s[k]) /\ k \in 0..Len(s)
        /\ f[k - 1] \in Nat /\ f[k] = f[k - 1] + Len(s[k])
    BY OneCharacter
  <1>2. s[k][1] = Len(s[k]) /\ \A i \in 2..Len(s[k]) : s[k][i] = 0
    BY <1>1, CharacterIs
  <1>3. f[k] \in Nat /\ Len(t) \in Nat /\ f[k] <= Len(t)
    BY <1>1, SpellsRange
  <1>4. \A i \in 1..Len(s[k]) : t[f[k - 1] + i] = s[k][i]
    BY DEF Spells, Begins
  <1>5. ASSUME NEW i \in 0..Len(s[k]) - 1 PROVE ByteAt(t, f[k - 1] + i) = s[k][i + 1]
    <2>1. i + 1 \in 1..Len(s[k]) /\ (f[k - 1] + i) + 1 = f[k - 1] + (i + 1)
      BY <1>1
    <2>2. f[k - 1] + i < Len(t)
      BY <1>1, <1>3
    <2> QED BY <1>4, <2>1, <2>2 DEF ByteAt
  <1>6. 0 \in 0..Len(s[k]) - 1 /\ f[k - 1] + 0 = f[k - 1]
    BY <1>1
  <1>7. ByteAt(t, f[k - 1]) = s[k][1]
    BY <1>5, <1>6
  <1>8. ASSUME NEW i \in 1..Len(s[k]) - 1 PROVE ByteAt(t, f[k - 1] + i) = 0
    <2>1. i \in 0..Len(s[k]) - 1 /\ i + 1 \in 2..Len(s[k])
      BY <1>1
    <2> QED BY <1>2, <1>5, <2>1
  <1> QED BY <1>2, <1>7, <1>8

\* Stepping forward.
LEMMA UTF8LenIs ==
  ASSUME NEW s \in Seq(Characters), NEW f, AddsUp(f, s), NEW t, Spells(t, s, f), NEW k \in 1..Len(s)
  PROVE  f[k - 1] + UTF8Len(t, f[k - 1]) = f[k]
  <1>1. /\ ByteAt(t, f[k - 1]) = Len(s[k])
        /\ \A i \in 1..Len(s[k]) - 1 : ByteAt(t, f[k - 1] + i) = 0
    BY ByteIs
  <1>2. Len(s[k]) \in Nat /\ 1 <= Len(s[k]) /\ f[k] = f[k - 1] + Len(s[k]) /\ f[k - 1] \in Nat
    BY OneCharacter
  <1>3. UTF8Len(t, f[k - 1]) = Len(s[k])
    BY <1>1, <1>2 DEF UTF8Len, UTF8Is1st
  <1> QED BY <1>2, <1>3

\* Stepping back.
LEMMA UTF8BackupIs ==
  ASSUME NEW s \in Seq(Characters), NEW f, AddsUp(f, s), NEW t, Spells(t, s, f), NEW k \in 1..Len(s)
  PROVE  UTF8Backup(t, f[k], 0) = f[k - 1]
  <1>1. /\ ByteAt(t, f[k - 1]) = Len(s[k])
        /\ \A i \in 1..Len(s[k]) - 1 : ByteAt(t, f[k - 1] + i) = 0
    BY ByteIs
  <1>2. /\ Len(s[k]) \in Nat /\ 1 <= Len(s[k]) /\ Len(s[k]) <= 6
        /\ f[k] = f[k - 1] + Len(s[k]) /\ f[k - 1] \in Nat
    BY OneCharacter
  <1> DEFINE low == IF f[k] - 0 > 6 THEN f[k] - 6 ELSE 0
             starts == {sp \in low..f[k] - 1 : UTF8Is1st(ByteAt(t, sp))}
  <1>3. low \in Nat /\ low <= f[k - 1] /\ low < f[k]
    BY <1>2
  <1>4. f[k - 1] \in low..f[k] - 1
    BY <1>2, <1>3
  <1>5. f[k - 1] \in starts
    BY <1>1, <1>2, <1>4 DEF UTF8Is1st
  <1>6. ASSUME NEW q \in starts PROVE q <= f[k - 1]
    <2>1. SUFFICES ASSUME q > f[k - 1] PROVE FALSE
      BY <1>2, <1>3
    <2>2. q \in Nat /\ q <= f[k] - 1
      BY <1>2, <1>3
    <2>3. q - f[k - 1] \in 1..Len(s[k]) - 1 /\ f[k - 1] + (q - f[k - 1]) = q
      BY <1>2, <2>1, <2>2, SMTT(30)
    <2>4. ByteAt(t, q) = 0
      BY <1>1, <2>3
    <2> QED BY <2>4 DEF UTF8Is1st
  <1>7. ByteAt(t, f[k - 1]) >= f[k] - f[k - 1]
    BY <1>1, <1>2
  <1> DEFINE nearest == CHOOSE sp \in starts : \A q \in starts : q <= sp
  <1>8. nearest = f[k - 1]
    <2>1. nearest \in starts /\ \A q \in starts : q <= nearest
      <3> HIDE DEF starts
      <3> QED BY <1>5, <1>6
    <2>2. nearest <= f[k - 1] /\ f[k - 1] <= nearest
      <3> HIDE DEF starts, nearest
      <3> QED BY <1>5, <1>6, <2>1
    <2>3. nearest \in Int
      <3>1. \A q \in starts : q \in Int
        BY <1>2, <1>3
      <3> HIDE DEF starts, nearest
      <3> QED BY <2>1, <3>1
    <2> HIDE DEF nearest
    <2> QED BY <1>2, <2>2, <2>3
  <1>9. UTF8Backup(t, f[k], 0) = nearest
    <2>1. \E sp \in starts : (\A q \in starts : q <= sp) /\ ByteAt(t, sp) >= f[k] - sp
      <3> HIDE DEF starts
      <3> QED BY <1>5, <1>6, <1>7
    <2>2. ~(low >= f[k])
      <3> HIDE DEF low
      <3> QED BY <1>2, <1>3
    <2> QED BY <2>1, <2>2 DEF UTF8Backup
  <1> QED BY <1>8, <1>9

\* Where the characters begin.
LEMMA StartsAre ==
  ASSUME NEW s \in Seq(Characters), NEW f, AddsUp(f, s), NEW t, Spells(t, s, f)
  PROVE  \A k \in 0..Len(t) : Starts(t)[k] = IF k <= Len(s) THEN f[k] ELSE Len(t)
  <1> DEFINE next(g, k) == IF k = 0 THEN 0
                           ELSE IF g[k - 1] >= Len(t) THEN Len(t)
                           ELSE g[k - 1] + UTF8Len(t, g[k - 1])
             Recursion(g) == g = [k \in 0..Len(t) |-> next(g, k)]
             h == [k \in 0..Len(t) |-> IF k <= Len(s) THEN f[k] ELSE Len(t)]
  <1>1. Len(t) \in Nat /\ Len(s) \in Nat /\ f[0] = 0 /\ Len(t) = f[Len(s)]
    BY DEF Spells, Begins, AddsUp
  <1>2. ASSUME NEW k \in 0..Len(t) PROVE h[k] = next(h, k)
    <2>1. CASE k = 0
      BY <1>1, <2>1
    <2>2. CASE k # 0
      <3>1. k - 1 \in 0..Len(t) /\ k - 1 \in Nat
        BY <1>1, <2>2
      <3>2. h[k - 1] = IF k - 1 <= Len(s) THEN f[k - 1] ELSE Len(t)
        BY <3>1
      <3>3. h[k] = IF k <= Len(s) THEN f[k] ELSE Len(t)
        OBVIOUS
      <3>4. CASE k <= Len(s)
        <4>1. k \in 1..Len(s) /\ k \in 0..Len(s) /\ k - 1 \in 0..Len(s) /\ k - 1 <= Len(s)
          BY <1>1, <2>2, <3>4
        <4>2. f[k - 1] + UTF8Len(t, f[k - 1]) = f[k]
          BY <4>1, UTF8LenIs
        <4>3. f[k - 1] \in Nat /\ f[k - 1] + (Len(s) - (k - 1)) <= Len(t)
          BY <4>1, SpellsRange
        <4>4. ~(f[k - 1] >= Len(t))
          BY <1>1, <4>1, <4>3
        <4> HIDE DEF h
        <4> QED BY <2>2, <3>2, <3>3, <3>4, <4>1, <4>2, <4>4
      <3>5. CASE ~(k <= Len(s))
        <4>1. h[k - 1] = Len(t)
          <5>1. k - 1 <= Len(s) => k - 1 = Len(s)
            BY <1>1, <3>1, <3>5
          <5> HIDE DEF h
          <5> QED BY <1>1, <3>2, <5>1
        <4> HIDE DEF h
        <4> QED BY <1>1, <2>2, <3>3, <3>5, <4>1
      <3> QED BY <3>4, <3>5
    <2> QED BY <2>1, <2>2
  <1>3. Recursion(h)
    <2>1. h = [k \in 0..Len(t) |-> h[k]]
      OBVIOUS
    <2>2. h = [k \in 0..Len(t) |-> next(h, k)]
      <3> HIDE DEF h, next
      <3> QED BY <1>2, <2>1
    <2> HIDE DEF h, next
    <2> QED BY <2>2
  <1>4. PICK g : Recursion(g) /\ Starts(t) = g
    <2> DEFINE w == CHOOSE g : Recursion(g)
    <2>1. Recursion(w)
      <3> HIDE DEF Recursion, h
      <3> QED BY <1>3
    <2>2. Starts(t) = w
      BY DEF Starts
    <2> QED BY <2>1, <2>2
  <1>5. \A k \in 0..Len(t) : g[k] = next(g, k)
    <2> HIDE DEF next
    <2> QED BY <1>4
  <1>6. g[0] = h[0]
    <2>1. 0 \in 0..Len(t)
      BY <1>1
    <2>2. g[0] = next(g, 0) /\ h[0] = next(h, 0)
      <3> HIDE DEF next, h
      <3> QED BY <1>2, <1>5, <2>1
    <2> QED BY <2>2
  <1>7. ASSUME NEW k \in 1..Len(t), g[k - 1] = h[k - 1] PROVE g[k] = h[k]
    <2>1. k \in 0..Len(t) /\ k # 0
      BY <1>1
    <2>2. g[k] = next(g, k) /\ h[k] = next(h, k)
      <3> HIDE DEF next, h
      <3> QED BY <1>2, <1>5, <2>1
    <2> HIDE DEF h
    <2> QED BY <1>7, <2>2
  <1>8. \A k \in 0..Len(t) : g[k] = h[k]
    <2> HIDE DEF h, next, Recursion
    <2>1. \A k \in 1..Len(t) : g[k - 1] = h[k - 1] => g[k] = h[k]
      BY <1>7
    <2>2. PICK N \in Nat : N = Len(t)
      BY <1>1
    <2>3. \A k \in 1..N : g[k - 1] = h[k - 1] => g[k] = h[k]
      BY <2>1, <2>2
    <2>4. \A k \in 0..N : g[k] = h[k]
      BY <1>6, <2>3, AlikeByInduction, ZenonT(60)
    <2> QED BY <2>2, <2>4
  <1>9. \A k \in 0..Len(t) : h[k] = IF k <= Len(s) THEN f[k] ELSE Len(t)
    OBVIOUS
  <1> HIDE DEF h
  <1> QED BY <1>4, <1>8, <1>9

\* The characters of a text.
LEMMA CharsAre ==
  ASSUME NEW s \in Seq(Characters), NEW f, AddsUp(f, s), NEW t, Spells(t, s, f)
  PROVE  Chars(t) = s
  <1> DEFINE start == Starts(t)
             D == {j \in 1..Len(t) : start[j - 1] < Len(t)}
  <1>1. \A k \in 0..Len(t) : start[k] = IF k <= Len(s) THEN f[k] ELSE Len(t)
    BY StartsAre
  <1> HIDE DEF start
  <1>2. Len(t) \in Nat /\ Len(s) \in Nat /\ Len(s) <= Len(t)
    <2>1. Len(s) \in 0..Len(s)
      OBVIOUS
    <2> QED BY <2>1, SpellsRange
  <1>3. ASSUME NEW j \in 1..Len(t) PROVE j \in D <=> j <= Len(s)
    <2>1. j - 1 \in 0..Len(t) /\ j \in Nat
      BY <1>2
    <2>2. CASE j <= Len(s)
      <3>1. j \in 1..Len(s) /\ j - 1 \in 0..Len(s) /\ j - 1 <= Len(s)
        BY <2>1, <2>2
      <3>2. f[j - 1] \in Nat /\ f[j - 1] + (Len(s) - (j - 1)) <= Len(t)
        BY <3>1, SpellsRange
      <3>3. f[j - 1] < Len(t)
        BY <1>2, <2>1, <2>2, <3>2
      <3>4. start[j - 1] = f[j - 1]
        BY <1>1, <2>1, <3>1
      <3> QED BY <2>2, <3>3, <3>4
    <2>3. CASE ~(j <= Len(s))
      <3>1. start[j - 1] = Len(t)
        <4>1. j - 1 = Len(s) \/ ~(j - 1 <= Len(s))
          BY <1>2, <2>1, <2>3
        <4>2. Len(s) \in 0..Len(s) /\ f[Len(s)] = Len(t)
          BY <1>2 DEF Spells, Begins
        <4> QED BY <1>1, <2>1, <4>1, <4>2
      <3> QED BY <1>2, <2>3, <3>1
    <2> QED BY <2>2, <2>3
  <1>4. D = 1..Len(s)
    <2>1. \A j \in D : j \in 1..Len(t)
      OBVIOUS
    <2>2. \A j \in 1..Len(s) : j \in 1..Len(t)
      BY <1>2
    <2>3. ASSUME NEW j PROVE j \in D <=> j \in 1..Len(s)
      <3>1. j \in 1..Len(t) /\ j <= Len(s) => j \in 1..Len(s)
        BY <1>2
      <3>2. j \in 1..Len(s) => j <= Len(s)
        BY <1>2
      <3> HIDE DEF D
      <3> QED BY <1>3, <2>1, <2>2, <3>1, <3>2
    <2> HIDE DEF D
    <2> QED BY <2>3
  <1>5. ASSUME NEW k \in 1..Len(s) PROVE SubSeq(t, start[k - 1] + 1, start[k]) = s[k]
    <2>1. k \in 0..Len(t) /\ k - 1 \in 0..Len(t) /\ k - 1 <= Len(s) /\ k <= Len(s)
      BY <1>2
    <2>2. start[k - 1] = f[k - 1] /\ start[k] = f[k]
      BY <1>1, <2>1
    <2>3. /\ s[k] \in Characters /\ Len(s[k]) \in Nat /\ 1 <= Len(s[k])
          /\ f[k - 1] \in Nat /\ f[k] \in Nat /\ f[k] = f[k - 1] + Len(s[k])
      BY OneCharacter
    <2>4. s[k] \in Seq(0..6)
      BY <2>3, CharacterIs
    <2>5. f[k] <= Len(t)
      <3>1. k \in 0..Len(s)
        BY <1>2
      <3>2. f[k] \in Nat /\ f[k] + (Len(s) - k) <= Len(t)
        BY <3>1, SpellsRange
      <3> QED BY <1>2, <2>1, <3>2
    <2>6. t \in Seq(0..6) /\ \A i \in 1..Len(s[k]) : t[f[k - 1] + i] = s[k][i]
      BY DEF Spells, Begins
    <2>7. PICK a \in Nat, n \in Nat : a = f[k - 1] /\ n = Len(s[k]) /\ f[k] = a + n /\ a + n <= Len(t)
      BY <2>3, <2>5
    <2>8. /\ SubSeq(t, a + 1, a + n) \in Seq(0..6)
          /\ Len(SubSeq(t, a + 1, a + n)) = n
          /\ \A i \in 1..n : SubSeq(t, a + 1, a + n)[i] = t[a + i]
      <3>1. PICK d \in Seq(0..6) : d = t
        BY <2>6
      <3>2. a \in Nat /\ n \in Nat /\ a + n <= Len(d)
        BY <2>7, <3>1
      <3>3. /\ SubSeq(d, a + 1, a + n) \in Seq(0..6)
            /\ Len(SubSeq(d, a + 1, a + n)) = n
            /\ \A i \in 1..n : SubSeq(d, a + 1, a + n)[i] = d[a + i]
        BY <3>2, PartOf, Zenon
      <3> QED BY <3>1, <3>3
    <2>9. SubSeq(t, a + 1, a + n) = s[k]
      <3>1. PICK u \in Seq(0..6) : u = SubSeq(t, a + 1, a + n)
        BY <2>8
      <3>2. Len(u) = Len(s[k]) /\ \A i \in 1..Len(u) : u[i] = s[k][i]
        BY <2>6, <2>7, <2>8, <3>1
      <3>3. u = s[k]
        BY <2>4, <3>2, SeqEqual
      <3> QED BY <3>1, <3>3
    <2> QED BY <2>2, <2>7, <2>9
  <1>6. Chars(t) = [k \in D |-> SubSeq(t, start[k - 1] + 1, start[k])]
    BY DEF Chars, CharsAt, start
  <1>7. s = [k \in 1..Len(s) |-> s[k]]
    BY LenProperties
  <1>8. [k \in D |-> SubSeq(t, start[k - 1] + 1, start[k])] = [k \in 1..Len(s) |-> s[k]]
    <2> HIDE DEF D
    <2> QED BY <1>4, <1>5
  <1> QED BY <1>6, <1>7, <1>8
------------------------------------------------------------------------------
(***************************************************************************)
(* Texts put together and taken apart.                                     *)
(***************************************************************************)
\* The characters of a text, and where they end.
LEMMA EncodeIs ==
  ASSUME NEW s \in Seq(Characters)
  PROVE  /\ AddsUp(Offsets(s), s) /\ Spells(Encode(s), s, Offsets(s))
         /\ Encode(s) \in Seq(0..6) /\ Len(Encode(s)) = Offsets(s)[Len(s)]
         /\ Chars(Encode(s)) = s /\ NumChars(Encode(s)) = Len(s)
  <1>1. AddsUp(Offsets(s), s)
    BY OffsetsAre
  <1>2. Spells(Encode(s), s, Offsets(s))
    BY <1>1, EncodeSpells
  <1>3. Chars(Encode(s)) = s
    BY <1>1, <1>2, CharsAre
  <1> QED BY <1>1, <1>2, <1>3 DEF Spells, Begins, NumChars

\* The offsets are the only ones.
LEMMA OffsetsOnce ==
  ASSUME NEW s \in Seq(Characters), NEW f, AddsUp(f, s)
  PROVE  f = Offsets(s)
  <1>1. AddsUp(Offsets(s), s)
    BY OffsetsAre
  <1>2. PICK g : g = Offsets(s) /\ AddsUp(g, s)
    BY <1>1
  <1>3. ASSUME NEW k \in 1..Len(s), f[k - 1] = g[k - 1] PROVE f[k] = g[k]
    BY <1>2, <1>3 DEF AddsUp
  <1>4. PICK N \in Nat : N = Len(s)
    OBVIOUS
  <1>5. f[0] = g[0] /\ \A k \in 1..N : f[k - 1] = g[k - 1] => f[k] = g[k]
    BY <1>2, <1>3, <1>4 DEF AddsUp
  <1>6. \A k \in 0..N : f[k] = g[k]
    BY <1>5, AlikeByInduction, ZenonT(60)
  <1>7. f \in [0..N -> Nat] /\ g \in [0..N -> Nat]
    BY <1>2, <1>4 DEF AddsUp
  <1> QED BY <1>2, <1>6, <1>7

\* Two texts make one, with the characters of the one and the other.
LEMMA EncodeJoin ==
  ASSUME NEW s \in Seq(Characters), NEW r \in Seq(Characters)
  PROVE  /\ s \o r \in Seq(Characters)
         /\ Encode(s \o r) = Encode(s) \o Encode(r)
         /\ \A k \in 0..Len(s) : Offsets(s \o r)[k] = Offsets(s)[k]
         /\ \A k \in 0..Len(r) : Offsets(s \o r)[Len(s) + k] = Len(Encode(s)) + Offsets(r)[k]
  <1> DEFINE m == Len(s)
             n == Len(r)
             q == s \o r
             f == Offsets(s)
             g == Offsets(r)
             h == [k \in 0..m + n |-> IF k <= m THEN f[k] ELSE f[m] + g[k - m]]
             t == Encode(s)
             u == Encode(r)
  <1>1. /\ m \in Nat /\ n \in Nat /\ AddsUp(f, s) /\ AddsUp(g, r) /\ Spells(t, s, f) /\ Spells(u, r, g)
        /\ t \in Seq(0..6) /\ u \in Seq(0..6) /\ Len(t) = f[m] /\ Len(u) = g[n]
    BY EncodeIs
  <1>2. /\ f \in [0..m -> Nat] /\ g \in [0..n -> Nat] /\ f[0] = 0 /\ g[0] = 0
        /\ f[m] \in Nat /\ g[n] \in Nat
    <2>1. f \in [0..m -> Nat] /\ g \in [0..n -> Nat] /\ f[0] = 0 /\ g[0] = 0
      BY <1>1 DEF AddsUp
    <2> HIDE DEF f, g
    <2> QED BY <1>1, <2>1
  <1>3. /\ q \in Seq(Characters) /\ Len(q) = m + n
        /\ \A k \in 1..m + n : q[k] = IF k <= m THEN s[k] ELSE r[k - m]
    BY ConcatProperties
  <1> HIDE DEF q, f, g, t, u, m, n
  <1>4. \A k \in 0..m : h[k] = f[k]
    BY <1>1
  <1>5. \A k \in 0..n : h[m + k] = f[m] + g[k]
    <2>1. TAKE k \in 0..n
    <2>2. m + k \in 0..m + n /\ (m + k) - m = k /\ (m + k <= m <=> k = 0)
      BY <1>1
    <2> QED BY <1>1, <1>2, <2>2
  <1>6. ASSUME NEW k \in 1..m + n
        PROVE  \/ k \in 1..m /\ q[k] = s[k] /\ h[k] = f[k] /\ h[k - 1] = f[k - 1]
               \/ \E j \in 1..n : k = m + j /\ q[k] = r[j] /\ h[k] = f[m] + g[j] /\ h[k - 1] = f[m] + g[j - 1]
    <2>1. CASE k <= m
      <3>1. k \in 1..m /\ k \in 0..m /\ k - 1 \in 0..m
        BY <1>1, <2>1
      <3> HIDE DEF h
      <3> QED BY <1>3, <1>4, <2>1, <3>1
    <2>2. CASE ~(k <= m)
      <3>1. PICK j \in 1..n : j = k - m
        BY <1>1, <2>2
      <3>2. /\ k = m + j /\ k - m = j /\ j \in 0..n /\ j - 1 \in 0..n /\ k - 1 = m + (j - 1)
        BY <1>1, <3>1
      <3>3. h[m + j] = f[m] + g[j] /\ h[m + (j - 1)] = f[m] + g[j - 1]
        <4> HIDE DEF h
        <4> QED BY <1>5, <3>2
      <3>4. q[k] = r[j]
        BY <1>3, <2>2, <3>2
      <3> HIDE DEF h
      <3> QED BY <3>2, <3>3, <3>4
    <2> QED BY <2>1, <2>2
  <1>7. AddsUp(h, q)
    <2>1. h \in [0..Len(q) -> Nat]
      <3>1. ASSUME NEW k \in 0..m + n PROVE (IF k <= m THEN f[k] ELSE f[m] + g[k - m]) \in Nat
        <4>1. CASE k <= m
          <5>1. k \in 0..m
            BY <1>1, <4>1
          <5> QED BY <1>2, <4>1, <5>1
        <4>2. CASE ~(k <= m)
          <5>1. k - m \in 0..n
            BY <1>1, <4>2
          <5> QED BY <1>2, <4>2, <5>1
        <4> QED BY <4>1, <4>2
      <3> QED BY <1>3, <3>1
    <2>2. h[0] = 0
      BY <1>1, <1>2
    <2>3. ASSUME NEW k \in 1..Len(q) PROVE h[k] = h[k - 1] + Len(q[k])
      <3>1. k \in 1..m + n
        BY <1>3
      <3>2. CASE k \in 1..m /\ q[k] = s[k] /\ h[k] = f[k] /\ h[k - 1] = f[k - 1]
        <4> HIDE DEF h
        <4> QED BY <1>1, <3>2 DEF AddsUp, m
      <3>3. CASE \E j \in 1..n : k = m + j /\ q[k] = r[j] /\ h[k] = f[m] + g[j] /\ h[k - 1] = f[m] + g[j - 1]
        <4>1. PICK j \in 1..n : q[k] = r[j] /\ h[k] = f[m] + g[j] /\ h[k - 1] = f[m] + g[j - 1]
          BY <3>3
        <4>2. g[j] = g[j - 1] + Len(r[j]) /\ g[j - 1] \in Nat /\ Len(r[j]) \in Nat
          <5>1. j \in 1..Len(r)
            BY DEF n
          <5> QED BY <1>1, <5>1, OneCharacter
        <4> HIDE DEF h
        <4> QED BY <1>2, <4>1, <4>2
      <3> HIDE DEF h
      <3> QED BY <1>6, <3>1, <3>2, <3>3
    <2> HIDE DEF h
    <2> QED BY <2>1, <2>2, <2>3 DEF AddsUp
  <1>8. /\ t \o u \in Seq(0..6) /\ Len(t \o u) = f[m] + g[n]
        /\ \A p \in 1..f[m] + g[n] : (t \o u)[p] = IF p <= f[m] THEN t[p] ELSE u[p - f[m]]
    <2>1. t \in Seq(0..6) /\ u \in Seq(0..6)
      BY <1>1
    <2>2. /\ t \o u \in Seq(0..6) /\ Len(t \o u) = Len(t) + Len(u)
          /\ \A p \in 1..Len(t) + Len(u) : (t \o u)[p] = IF p <= Len(t) THEN t[p] ELSE u[p - Len(t)]
      BY <2>1, ConcatProperties
    <2> QED BY <1>1, <2>2
  <1> DEFINE w == t \o u
  <1> HIDE DEF w
  <1>9. ASSUME NEW k \in 1..Len(q), NEW i \in 1..Len(q[k]) PROVE w[h[k - 1] + i] = q[k][i]
    <2>1. k \in 1..m + n
      BY <1>3
    <2>2. CASE k \in 1..m /\ q[k] = s[k] /\ h[k] = f[k] /\ h[k - 1] = f[k - 1]
      <3>1. k \in 1..Len(s) /\ k \in 0..Len(s)
        BY <2>2 DEF m
      <3>2. f[k] = f[k - 1] + Len(s[k]) /\ f[k - 1] \in Nat /\ Len(s[k]) \in Nat
        BY <1>1, <3>1, OneCharacter
      <3>3. f[k] \in Nat /\ f[k] + (Len(s) - k) <= Len(t)
        BY <1>1, <3>1, SpellsRange
      <3>4. f[k - 1] + i \in 1..f[m] + g[n] /\ f[k - 1] + i <= f[m]
        <4>1. i \in Nat /\ 1 <= i /\ i <= Len(s[k])
          BY <2>2, <3>2
        <4>2. f[k] <= f[m]
          BY <1>1, <1>2, <3>1, <3>3
        <4>3. PICK a \in Nat, b \in Nat, c \in Nat : a = f[k - 1] /\ b = f[m] /\ c = g[n]
          BY <1>2, <3>2
        <4>4. a + i <= b
          BY <3>2, <4>1, <4>2, <4>3, SMTT(30)
        <4> QED BY <4>1, <4>3, <4>4, SMTT(30)
      <3>5. w[f[k - 1] + i] = t[f[k - 1] + i]
        BY <1>8, <3>4 DEF w
      <3>6. t[f[k - 1] + i] = s[k][i]
        BY <1>1, <2>2, <3>1 DEF Spells, Begins
      <3> HIDE DEF h
      <3> QED BY <2>2, <3>5, <3>6
    <2>3. CASE \E j \in 1..n : k = m + j /\ q[k] = r[j] /\ h[k] = f[m] + g[j] /\ h[k - 1] = f[m] + g[j - 1]
      <3>1. PICK j \in 1..n : q[k] = r[j] /\ h[k - 1] = f[m] + g[j - 1]
        BY <2>3
      <3>2. j \in 1..Len(r) /\ j \in 0..Len(r)
        BY DEF n
      <3>3. g[j] = g[j - 1] + Len(r[j]) /\ g[j - 1] \in Nat /\ Len(r[j]) \in Nat
        BY <1>1, <3>2, OneCharacter
      <3>4. g[j] \in Nat /\ g[j] + (Len(r) - j) <= Len(u)
        BY <1>1, <3>2, SpellsRange
      <3>5. g[j] <= g[n]
        BY <1>1, <1>2, <3>2, <3>4
      <3>6. i \in Nat /\ 1 <= i /\ i <= Len(r[j])
        BY <3>1, <3>3
      <3>7. PICK p \in Nat : p = (f[m] + g[j - 1]) + i /\ p - f[m] = g[j - 1] + i /\ p \in 1..f[m] + g[n] /\ ~(p <= f[m])
        <4>1. PICK a \in Nat, b \in Nat, c \in Nat, e \in Nat, l \in Nat :
                  a = g[j - 1] /\ b = f[m] /\ c = g[n] /\ e = i /\ l = Len(r[j])
          BY <1>2, <3>3, <3>6
        <4>2. g[j] = a + l /\ a + l <= c /\ 1 <= e /\ e <= l
          BY <3>3, <3>5, <3>6, <4>1
        <4>3. a + e <= c /\ 1 <= e
          BY <4>2
        <4>4. b + a + e \in Nat /\ (b + a + e) - b = a + e /\ b + a + e \in 1..b + c /\ ~(b + a + e <= b)
          BY <4>3
        <4> QED BY <4>1, <4>4
      <3>8. w[p] = u[p - f[m]]
        BY <1>8, <3>7 DEF w
      <3>9. u[g[j - 1] + i] = r[j][i]
        BY <1>1, <3>1, <3>2 DEF Spells, Begins
      <3> HIDE DEF h
      <3> QED BY <3>1, <3>7, <3>8, <3>9
    <2> HIDE DEF h
    <2> QED BY <1>6, <2>1, <2>2, <2>3
  <1>10. Spells(w, q, h)
    <2>1. h[m + n] = f[m] + g[n]
      <3>1. n \in 0..n
        BY <1>1
      <3> HIDE DEF h
      <3> QED BY <1>5, <3>1
    <2> HIDE DEF h
    <2>2. w \in Seq(0..6) /\ Len(w) = h[Len(q)]
      BY <1>3, <1>8, <2>1 DEF w
    <2> QED BY <1>9, <2>2 DEF Spells, Begins
  <1> HIDE DEF h
  <1>11. h = Offsets(q)
    BY <1>3, <1>7, OffsetsOnce
  <1>12. Spells(Encode(q), q, h)
    BY <1>3, <1>7, EncodeSpells
  <1>13. Encode(q) = w
    BY <1>3, <1>7, <1>10, <1>12, SpelledOnce
  <1> QED BY <1>1, <1>3, <1>4, <1>5, <1>11, <1>13 DEF w, q, f, g, t, u, m, n

\* A sequence is its parts, one after the other.
LEMMA Parts ==
  ASSUME NEW X, NEW d \in Seq(X), NEW a \in Nat, a <= Len(d)
  PROVE  /\ SubSeq(d, 1, a) \in Seq(X) /\ Len(SubSeq(d, 1, a)) = a
         /\ SubSeq(d, a + 1, Len(d)) \in Seq(X) /\ Len(SubSeq(d, a + 1, Len(d))) = Len(d) - a
         /\ d = SubSeq(d, 1, a) \o SubSeq(d, a + 1, Len(d))
  <1> DEFINE p == SubSeq(d, 1, a)
             q == SubSeq(d, a + 1, Len(d))
  <1>1. PICK n \in Nat : n = Len(d) - a /\ Len(d) = a + n
    OBVIOUS
  <1>2. p \in Seq(X) /\ Len(p) = a /\ \A i \in 1..a : p[i] = d[i]
    OBVIOUS
  <1>3. SubSeq(d, a + 1, a + n) \in Seq(X) /\ Len(SubSeq(d, a + 1, a + n)) = n
    BY <1>1, PartOf
  <1>4. \A i \in 1..n : SubSeq(d, a + 1, a + n)[i] = d[a + i]
    BY <1>1, PartOf
  <1>5. q \in Seq(X) /\ Len(q) = n /\ \A i \in 1..n : q[i] = d[a + i]
    BY <1>1, <1>3, <1>4
  <1> HIDE DEF p, q
  <1>6. /\ p \o q \in Seq(X) /\ Len(p \o q) = Len(p) + Len(q)
        /\ \A i \in 1..Len(p) + Len(q) : (p \o q)[i] = IF i <= Len(p) THEN p[i] ELSE q[i - Len(p)]
    BY <1>2, <1>5, ConcatProperties
  <1>7. ASSUME NEW i \in 1..Len(d) PROVE (p \o q)[i] = d[i]
    <2>1. i \in 1..Len(p) + Len(q)
      BY <1>1, <1>2, <1>5
    <2>2. CASE i <= a
      <3>1. i \in 1..a
        BY <2>2
      <3> QED BY <1>2, <1>6, <2>1, <2>2, <3>1
    <2>3. CASE ~(i <= a)
      <3>1. i - a \in 1..n /\ a + (i - a) = i
        BY <1>1, <2>3
      <3>2. (p \o q)[i] = q[i - a]
        BY <1>2, <1>6, <2>1, <2>3
      <3> QED BY <1>5, <3>1, <3>2
    <2> QED BY <2>2, <2>3
  <1>8. d = p \o q
    <2>1. Len(p \o q) = Len(d)
      BY <1>1, <1>2, <1>5, <1>6
    <2> QED BY <1>6, <1>7, <2>1, SeqEqual
  <1> QED BY <1>1, <1>2, <1>5, <1>8 DEF p, q

\* The parts of two sequences put together.
LEMMA PartsOfJoined ==
  ASSUME NEW X, NEW p \in Seq(X), NEW q \in Seq(X)
  PROVE  /\ SubSeq(p \o q, 1, Len(p)) = p
         /\ SubSeq(p \o q, Len(p) + 1, Len(p) + Len(q)) = q
         /\ p \o q \in Seq(X) /\ Len(p \o q) = Len(p) + Len(q)
  <1> DEFINE w == p \o q
  <1>1. /\ w \in Seq(X) /\ Len(w) = Len(p) + Len(q) /\ Len(p) \in Nat /\ Len(q) \in Nat
        /\ \A i \in 1..Len(p) + Len(q) : w[i] = IF i <= Len(p) THEN p[i] ELSE q[i - Len(p)]
    BY ConcatProperties
  <1> HIDE DEF w
  <1>2. PICK m \in Nat, n \in Nat : m = Len(p) /\ n = Len(q) /\ m + n = Len(w)
    BY <1>1
  <1>3. SubSeq(w, 1, m) = p
    <2>1. /\ SubSeq(w, 0 + 1, 0 + m) \in Seq(X) /\ Len(SubSeq(w, 0 + 1, 0 + m)) = m
          /\ \A i \in 1..m : SubSeq(w, 0 + 1, 0 + m)[i] = w[0 + i]
      <3>1. 0 + m <= Len(w) /\ 0 \in Nat
        BY <1>2
      <3> QED BY <1>1, <3>1, PartOf
    <2>2. 0 + 1 = 1 /\ 0 + m = m
      OBVIOUS
    <2>3. \A i \in 1..m : w[0 + i] = p[i]
      BY <1>1, <1>2
    <2>4. SubSeq(w, 0 + 1, 0 + m) = p
      BY <1>2, <2>1, <2>3, SeqEqual
    <2> QED BY <2>2, <2>4
  <1>4. SubSeq(w, m + 1, m + n) = q
    <2>1. /\ SubSeq(w, m + 1, m + n) \in Seq(X) /\ Len(SubSeq(w, m + 1, m + n)) = n
          /\ \A i \in 1..n : SubSeq(w, m + 1, m + n)[i] = w[m + i]
      <3>1. m + n <= Len(w)
        BY <1>2
      <3> QED BY <1>1, <3>1, PartOf
    <2>2. ASSUME NEW i \in 1..n PROVE w[m + i] = q[i]
      <3>1. m + i \in 1..m + n /\ ~(m + i <= m) /\ (m + i) - m = i
        OBVIOUS
      <3> QED BY <1>1, <1>2, <3>1
    <2> QED BY <1>2, <2>1, <2>2, SeqEqual
  <1> QED BY <1>1, <1>2, <1>3, <1>4 DEF w

\* Of three sequences joined the middle one is the part between the others.
LEMMA MiddlePart ==
  ASSUME NEW X, NEW p \in Seq(X), NEW q \in Seq(X), NEW r \in Seq(X)
  PROVE  SubSeq(p \o (q \o r), Len(p) + 1, Len(p) + Len(q)) = q
  <1> DEFINE m == Len(p)
             n == Len(q)
  <1>1. PICK v \in Seq(X) : v = q \o r /\ Len(v) = n + Len(r) /\ SubSeq(v, 1, n) = q
    BY PartsOfJoined, ZenonT(60)
  <1>2. PICK w \in Seq(X) : w = p \o v /\ Len(w) = m + Len(v) /\ SubSeq(w, m + 1, m + Len(v)) = v
    <2>1. SubSeq(p \o v, Len(p) + 1, Len(p) + Len(v)) = v
      BY PartsOfJoined
    <2>2. p \o v \in Seq(X) /\ Len(p \o v) = Len(p) + Len(v)
      BY PartsOfJoined
    <2> QED BY <2>1, <2>2
  <1>3. SubSeq(w, m + 1, m + n) = SubSeq(SubSeq(w, m + 1, m + Len(v)), 1, n)
    <2>1. PICK a \in Nat, b \in Nat, c \in Nat : a = m /\ b = n /\ c = Len(v) /\ b <= c /\ a + c = Len(w)
      <3>1. m \in Nat /\ n \in Nat /\ Len(r) \in Nat /\ Len(v) \in Nat
        OBVIOUS
      <3> HIDE DEF m, n
      <3>2. n <= Len(v) /\ m + Len(v) = Len(w)
        BY <1>1, <1>2, <3>1
      <3> QED BY <3>1, <3>2
    <2>2. SubSeq(w, a + 1, a + b) = SubSeq(SubSeq(w, a + 1, a + c), 1, b)
      BY <2>1
    <2> QED BY <2>1, <2>2
  <1> QED BY <1>1, <1>2, <1>3

\* The bytes of some of the characters.
LEMMA EncodePart ==
  ASSUME NEW s \in Seq(Characters), NEW i \in Nat, NEW n \in Nat, i + n <= Len(s)
  PROVE  /\ SubSeq(s, i + 1, i + n) \in Seq(Characters) /\ Len(SubSeq(s, i + 1, i + n)) = n
         /\ SubSeq(Encode(s), Offsets(s)[i] + 1, Offsets(s)[i + n]) = Encode(SubSeq(s, i + 1, i + n))
         /\ \A k \in 0..n : Offsets(s)[i + k] = Offsets(s)[i] + Offsets(SubSeq(s, i + 1, i + n))[k]
  <1> DEFINE a == SubSeq(s, 1, i)
             b == SubSeq(s, i + 1, Len(s))
             c == SubSeq(b, 1, n)
             d == SubSeq(b, n + 1, Len(b))
             A == Encode(a)
             C == Encode(c)
             D == Encode(d)
  <1>1. /\ a \in Seq(Characters) /\ Len(a) = i /\ b \in Seq(Characters) /\ Len(b) = Len(s) - i
        /\ s = a \o b
    <2>1. i <= Len(s)
      OBVIOUS
    <2> QED BY <2>1, Parts, ZenonT(60)
  <1>2. /\ c \in Seq(Characters) /\ Len(c) = n /\ d \in Seq(Characters) /\ b = c \o d
    <2>1. n <= Len(b)
      BY <1>1
    <2> HIDE DEF b
    <2> QED BY <1>1, <2>1, Parts
  <1>3. c = SubSeq(s, i + 1, i + n)
    <2>1. /\ SubSeq(s, i + 1, i + n) \in Seq(Characters) /\ Len(SubSeq(s, i + 1, i + n)) = n
          /\ \A k \in 1..n : SubSeq(s, i + 1, i + n)[k] = s[i + k]
      BY PartOf
    <2>2. \A k \in 1..Len(b) : b[k] = s[i + k]
      OBVIOUS
    <2>3. \A k \in 1..n : c[k] = b[k]
      <3> HIDE DEF b
      <3> QED BY <1>1
    <2>4. n <= Len(b)
      BY <1>1
    <2> HIDE DEF b, c
    <2>5. \A k \in 1..n : c[k] = s[i + k]
      <3>1. \A k \in 1..n : k \in 1..Len(b)
        BY <1>1, <2>4
      <3> QED BY <2>2, <2>3, <3>1
    <2> QED BY <1>2, <2>1, <2>5, SeqEqual
  <1> HIDE DEF a, b, c, d
  <1>4. /\ A \in Seq(0..6) /\ C \in Seq(0..6) /\ D \in Seq(0..6)
        /\ Len(A) = Offsets(a)[i] /\ Len(C) = Offsets(c)[n] /\ Len(A) \in Nat /\ Len(C) \in Nat
    <2>1. A \in Seq(0..6) /\ C \in Seq(0..6) /\ D \in Seq(0..6)
      BY <1>1, <1>2, EncodeIs
    <2>2. Len(A) = Offsets(a)[i] /\ Len(C) = Offsets(c)[n]
      BY <1>1, <1>2, EncodeIs
    <2> HIDE DEF A, C, D
    <2> QED BY <2>1, <2>2
  <1>5. /\ Encode(s) = A \o Encode(b)
        /\ \A k \in 0..i : Offsets(s)[k] = Offsets(a)[k]
        /\ \A k \in 0..Len(b) : Offsets(s)[i + k] = Len(A) + Offsets(b)[k]
    BY <1>1, EncodeJoin, ZenonT(60)
  <1>6. /\ Encode(b) = C \o D
        /\ \A k \in 0..n : Offsets(b)[k] = Offsets(c)[k]
    BY <1>2, EncodeJoin
  <1>7. Offsets(s)[i] = Len(A)
    <2>1. i \in 0..i
      OBVIOUS
    <2> QED BY <1>4, <1>5, <2>1
  <1>8. \A k \in 0..n : Offsets(s)[i + k] = Offsets(s)[i] + Offsets(c)[k]
    <2>1. \A k \in 0..n : k \in 0..Len(b)
      BY <1>1
    <2> HIDE DEF A, C, D
    <2> QED BY <1>5, <1>6, <1>7, <2>1
  <1>9. Offsets(s)[i + n] = Len(A) + Len(C)
    <2>1. n \in 0..n
      OBVIOUS
    <2> QED BY <1>4, <1>7, <1>8, <2>1
  <1>10. SubSeq(Encode(s), Len(A) + 1, Len(A) + Len(C)) = C
    <2> HIDE DEF A, C, D
    <2>1. SubSeq(A \o (C \o D), Len(A) + 1, Len(A) + Len(C)) = C
      BY <1>4, MiddlePart, ZenonT(60)
    <2> QED BY <1>5, <1>6, <2>1
  <1> QED BY <1>2, <1>3, <1>7, <1>8, <1>9, <1>10

\* One character, and none.
LEMMA EncodeOne ==
  ASSUME NEW c \in Characters
  PROVE  <<c>> \in Seq(Characters) /\ Encode(<<c>>) = c
  <1>1. Joins([k \in 0..1 |-> IF k = 0 THEN <<>> ELSE c], <<c>>, 0..6)
    <2>1. c \in Seq(0..6) /\ <<>> \o c = c
      BY CharacterIs, ConcatEmptySeq
    <2>2. Len(<<c>>) = 1 /\ <<c>>[1] = c
      OBVIOUS
    <2> QED BY <2>1, <2>2 DEF Joins
  <1>2. <<c>> \in Seq(Seq(0..6)) /\ <<c>> \in Seq(Characters) /\ Len(<<c>>) = 1
    BY CharacterIs
  <1>3. FlattenSeq(<<c>>) = [k \in 0..1 |-> IF k = 0 THEN <<>> ELSE c][Len(<<c>>)]
    BY <1>1, <1>2, FlattenIs
  <1> QED BY <1>2, <1>3 DEF Encode

\* No characters make no bytes.
LEMMA EncodeNone ==
  Encode(<<>>) = <<>>
  BY DEF Encode, FlattenSeq

\* numChars and the iterators find in a text the characters that spell it, for
\* all texts of characters of one to six bytes.
THEOREM CharactersFound ==
  ASSUME NEW s \in Seq(Characters)
  PROVE  Chars(Encode(s)) = s /\ NumChars(Encode(s)) = Len(s)
  BY EncodeIs

\* UTF8Len leads from where each character begins to the next, and UTF8Backup
\* from there back.
THEOREM StepsAgree ==
  ASSUME NEW s \in Seq(Characters), NEW k \in 1..Len(s)
  PROVE  LET t == Encode(s)
             p == Starts(t)[k - 1]
             q == Starts(t)[k]
         IN  p + UTF8Len(t, p) = q /\ UTF8Backup(t, q, 0) = p
  <1> DEFINE t == Encode(s)
             f == Offsets(s)
  <1>1. AddsUp(f, s) /\ Spells(t, s, f)
    BY EncodeIs
  <1> HIDE DEF t, f
  <1>2. \A j \in 0..Len(t) : Starts(t)[j] = IF j <= Len(s) THEN f[j] ELSE Len(t)
    BY <1>1, StartsAre
  <1>3. 0 \in 0..Len(s) /\ Len(s) \in Nat
    OBVIOUS
  <1>4. Len(s) <= Len(t) /\ Len(t) \in Nat
    <2>1. /\ Len(t) \in Nat /\ f[0] \in Nat /\ f[0] + (Len(s) - 0) <= Len(t)
      BY <1>1, <1>3, SpellsRange
    <2> QED BY <1>3, <2>1
  <1>5. Starts(t)[k - 1] = f[k - 1] /\ Starts(t)[k] = f[k]
    <2>1. k - 1 \in 0..Len(t) /\ k \in 0..Len(t) /\ k - 1 <= Len(s) /\ k <= Len(s)
      BY <1>3, <1>4
    <2> QED BY <1>2, <2>1
  <1>6. f[k - 1] + UTF8Len(t, f[k - 1]) = f[k] /\ UTF8Backup(t, f[k], 0) = f[k - 1]
    BY <1>1, UTF8LenIs, UTF8BackupIs
  <1> QED BY <1>5, <1>6 DEF t

----------------------------------------------------------------------------

Slices == [body : Bodies, offset : Nat, num : Nat]
Marks == [char : Index, byte : Index]

\* A text is spelled by the characters found in it.
IsText(t) == t \in Seq(0..6) /\ Chars(t) \in Seq(Letters) /\ t = Encode(Chars(t))

Stored(bs) == /\ bs \in [Bodies -> [text : Seq(0..6), count : Nat]]
              /\ \A b \in Bodies : IsText(bs[b].text) /\ bs[b].count \in {0, NumChars(bs[b].text)}

Small(bs) == \A b \in Bodies : Len(bs[b].text) <= MaxBody

FitsIn(s, t) == s.offset + s.num <= NumChars(t) /\ (s.num = 0 => t = <<>>)

Negative == IndexSize - MaxBody..IndexSize - 1

MarkIn(m, s, t) ==
    \/ m = NoMark
    \/ m.char > 0 /\ m.char \in s.offset..s.offset + s.num /\ m.byte = Starts(t)[m.char]
    \/ s.offset = 0 /\ m.char \in Negative /\ m.byte \in Negative

Holds(x, q) == /\ x \in [str : Slices, mark : Marks, bodies : [Bodies -> [text : Seq(0..6), count : Nat]]]
               /\ Stored(x.bodies) /\ FitsIn(x.str, Body(x).text) /\ MarkIn(x.mark, x.str, Body(x).text)
               /\ q = SubSeq(Chars(Body(x).text), x.str.offset + 1, x.str.offset + x.str.num)

IInv == /\ str \in [Vars -> Slices] /\ mark \in [Vars -> Marks]
        /\ val \in [Vars -> Seq(Letters)]
        /\ Stored(bodies) /\ Small(bodies)
        /\ \A v \in Vars : Holds(This(v), val[v])
-------------------------------------------------------------------------------
(***************************************************************************)
(* Searching.                                                              *)
(***************************************************************************)
\* The characters of a text, and where they begin.
LEMMA TextIs ==
  ASSUME NEW t, IsText(t)
  PROVE  /\ t \in Seq(0..6) /\ Len(t) \in Nat /\ NumChars(t) \in Nat /\ NumChars(t) = Len(Chars(t))
         /\ Chars(t) \in Seq(Letters) /\ Chars(t) \in Seq(Characters) /\ t = Encode(Chars(t))
         /\ AddsUp(Offsets(Chars(t)), Chars(t)) /\ Spells(t, Chars(t), Offsets(Chars(t)))
  <1>1. Chars(t) \in Seq(Characters)
    BY StringsAssumption DEF IsText
  <1> QED BY <1>1, EncodeIs DEF IsText, NumChars

\* A sequence of letters makes a text of them.
LEMMA EncodeIsText ==
  ASSUME NEW s \in Seq(Letters)
  PROVE  /\ s \in Seq(Characters) /\ IsText(Encode(s)) /\ Chars(Encode(s)) = s
         /\ NumChars(Encode(s)) = Len(s) /\ (Len(s) = 0 => Encode(s) = <<>>)
  <1>1. s \in Seq(Characters)
    BY StringsAssumption
  <1>2. Len(s) = 0 => s = <<>>
    OBVIOUS
  <1> QED BY <1>1, <1>2, EncodeIs, EncodeNone DEF IsText

\* Where they begin is found by stepping from the start.
LEMMA StartIs ==
  ASSUME NEW t, IsText(t), NEW k \in 0..NumChars(t)
  PROVE  /\ Starts(t)[k] = Offsets(Chars(t))[k]
         /\ Starts(t)[k] \in Nat /\ k <= Starts(t)[k]
         /\ Starts(t)[k] + (NumChars(t) - k) <= Len(t) /\ Starts(t)[0] = 0
         /\ Starts(t)[NumChars(t)] = Len(t)
  <1> DEFINE s == Chars(t)
             f == Offsets(s)
  <1>1. /\ s \in Seq(Characters) /\ AddsUp(f, s) /\ Spells(t, s, f) /\ NumChars(t) = Len(s)
        /\ Len(s) \in Nat
    BY TextIs
  <1> HIDE DEF s, f
  <1>2. \A j \in 0..Len(s) : /\ f[j] \in Nat /\ Len(t) \in Nat /\ Len(t) = f[Len(s)]
                             /\ f[j] + (Len(s) - j) <= Len(t) /\ j <= f[j]
    BY <1>1, SpellsRange
  <1>3. \A j \in 0..Len(t) : Starts(t)[j] = IF j <= Len(s) THEN f[j] ELSE Len(t)
    BY <1>1, StartsAre
  <1>4. Len(s) <= Len(t) /\ Len(t) \in Nat /\ 0 \in 0..Len(s) /\ Len(s) \in 0..Len(s)
    BY <1>1, <1>2
  <1>5. \A j \in 0..Len(s) : Starts(t)[j] = f[j]
    <2>1. \A j \in 0..Len(s) : j \in 0..Len(t) /\ j <= Len(s)
      BY <1>1, <1>4
    <2> QED BY <1>3, <2>1
  <1>6. f[0] = 0
    BY <1>1 DEF AddsUp
  <1>7. k \in 0..Len(s)
    BY <1>1
  <1> QED BY <1>1, <1>2, <1>4, <1>5, <1>6, <1>7 DEF s, f

\* They begin in order.
LEMMA StartsInOrder ==
  ASSUME NEW t, IsText(t), NEW i \in 0..NumChars(t), NEW j \in i..NumChars(t)
  PROVE  /\ Starts(t)[i] \in Nat /\ Starts(t)[j] \in Nat /\ Starts(t)[i] + (j - i) <= Starts(t)[j]
         /\ Starts(t)[j] <= Len(t) /\ Len(t) \in Nat
  <1>1. /\ Chars(t) \in Seq(Characters) /\ AddsUp(Offsets(Chars(t)), Chars(t))
        /\ NumChars(t) = Len(Chars(t)) /\ Len(t) \in Nat /\ NumChars(t) \in Nat
    BY TextIs
  <1>2. j \in 0..NumChars(t)
    BY <1>1
  <1>3. /\ Starts(t)[i] = Offsets(Chars(t))[i] /\ Starts(t)[j] = Offsets(Chars(t))[j]
        /\ Starts(t)[j] \in Nat /\ Starts(t)[j] + (NumChars(t) - j) <= Len(t)
    BY <1>2, StartIs
  <1>4. /\ Offsets(Chars(t))[i] \in Nat
        /\ Offsets(Chars(t))[i] + (j - i) <= Offsets(Chars(t))[j]
    BY <1>1, OffsetsGrow
  <1> QED BY <1>1, <1>2, <1>3, <1>4

\* The next one, and the one before.
LEMMA NextStart ==
  ASSUME NEW t, IsText(t), NEW k \in 1..NumChars(t)
  PROVE  /\ Starts(t)[k - 1] + UTF8Len(t, Starts(t)[k - 1]) = Starts(t)[k]
         /\ UTF8Backup(t, Starts(t)[k], 0) = Starts(t)[k - 1]
         /\ Starts(t)[k - 1] \in Nat /\ Starts(t)[k] \in Nat /\ Starts(t)[k - 1] < Starts(t)[k]
  <1>1. /\ Chars(t) \in Seq(Characters) /\ AddsUp(Offsets(Chars(t)), Chars(t))
        /\ Spells(t, Chars(t), Offsets(Chars(t)))
        /\ NumChars(t) = Len(Chars(t)) /\ NumChars(t) \in Nat
    BY TextIs
  <1>2. k \in 0..NumChars(t) /\ k - 1 \in 0..NumChars(t) /\ k \in k - 1..NumChars(t)
    BY <1>1
  <1>3. Starts(t)[k - 1] = Offsets(Chars(t))[k - 1] /\ Starts(t)[k] = Offsets(Chars(t))[k]
    BY <1>2, StartIs
  <1>4. k \in 1..Len(Chars(t))
    BY <1>1
  <1>5. /\ Starts(t)[k - 1] + UTF8Len(t, Starts(t)[k - 1]) = Starts(t)[k]
        /\ UTF8Backup(t, Starts(t)[k], 0) = Starts(t)[k - 1]
    BY <1>1, <1>3, <1>4, UTF8LenIs, UTF8BackupIs
  <1>6. Starts(t)[k - 1] \in Nat /\ Starts(t)[k] \in Nat /\ Starts(t)[k - 1] + (k - (k - 1)) <= Starts(t)[k]
    BY <1>2, StartsInOrder
  <1> QED BY <1>5, <1>6

\* Forward over n characters, if the end is not before.
LEMMA ForwardIs ==
  ASSUME NEW t, IsText(t), NEW i \in Nat, NEW n \in Nat, i + n <= NumChars(t),
         NEW ep \in Int, Starts(t)[i + n] <= ep
  PROVE  Forward(t, Starts(t)[i], ep, n) = Starts(t)[i + n]
  <1> DEFINE f == Starts(t)
             next(g, k) == IF k = 0 THEN f[i]
                           ELSE IF g[k - 1] < ep THEN g[k - 1] + UTF8Len(t, g[k - 1])
                           ELSE g[k - 1]
             Recursion(g) == g = [k \in 0..n |-> next(g, k)]
             h == [k \in 0..n |-> f[i + k]]
  <1>1. ASSUME NEW k \in 1..n
        PROVE  f[i + k] = f[i + (k - 1)] + UTF8Len(t, f[i + (k - 1)]) /\ f[i + (k - 1)] < ep
    <2>1. NumChars(t) \in Nat
      BY TextIs
    <2>2. i + k \in 1..NumChars(t) /\ (i + k) - 1 = i + (k - 1) /\ i + k \in 0..NumChars(t)
          /\ i + n \in i + k..NumChars(t) /\ (i + n) - (i + k) = n - k
      BY <2>1
    <2>3. /\ f[i + (k - 1)] + UTF8Len(t, f[i + (k - 1)]) = f[i + k]
          /\ f[i + (k - 1)] \in Nat /\ f[i + k] \in Nat /\ f[i + (k - 1)] < f[i + k]
      <3> HIDE DEF f
      <3>1. PICK j \in 1..NumChars(t) : j = i + k /\ j - 1 = i + (k - 1)
        BY <2>2
      <3>2. /\ f[j - 1] + UTF8Len(t, f[j - 1]) = f[j]
            /\ f[j - 1] \in Nat /\ f[j] \in Nat /\ f[j - 1] < f[j]
        BY NextStart DEF f
      <3> QED BY <3>1, <3>2
    <2>4. f[i + k] + ((i + n) - (i + k)) <= f[i + n] /\ f[i + n] \in Nat
      BY <2>2, StartsInOrder
    <2> HIDE DEF f
    <2>5. f[i + k] <= f[i + n]
      BY <2>2, <2>3, <2>4
    <2>6. f[i + n] <= ep
      BY DEF f
    <2> QED BY <2>3, <2>4, <2>5, <2>6
  <1>2. ASSUME NEW k \in 0..n PROVE h[k] = next(h, k)
    <2>1. CASE k = 0
      BY <2>1
    <2>2. CASE k # 0
      <3>1. k \in 1..n /\ k - 1 \in 0..n
        BY <2>2
      <3>2. h[k] = f[i + k] /\ h[k - 1] = f[i + (k - 1)]
        BY <3>1
      <3> HIDE DEF h, f
      <3> QED BY <1>1, <2>2, <3>1, <3>2 DEF f
    <2> QED BY <2>1, <2>2
  <1>3. Recursion(h)
    <2>1. h = [k \in 0..n |-> h[k]]
      OBVIOUS
    <2> HIDE DEF h, next
    <2> QED BY <1>2, <2>1
  <1>4. PICK g : Recursion(g) /\ Forward(t, f[i], ep, n) = g[n]
    <2> DEFINE w == CHOOSE g : Recursion(g)
    <2>1. Recursion(w)
      <3> HIDE DEF Recursion, h
      <3> QED BY <1>3
    <2>2. Forward(t, f[i], ep, n) = w[n]
      BY DEF Forward
    <2> HIDE DEF w
    <2> QED BY <2>1, <2>2
  <1>5. \A k \in 0..n : g[k] = next(g, k)
    <2> HIDE DEF next
    <2> QED BY <1>4
  <1>6. g[0] = h[0]
    <2>1. g[0] = next(g, 0) /\ h[0] = next(h, 0)
      <3> HIDE DEF next, h
      <3> QED BY <1>2, <1>5
    <2> QED BY <2>1
  <1>7. ASSUME NEW k \in 1..n, g[k - 1] = h[k - 1] PROVE g[k] = h[k]
    <2>1. g[k] = next(g, k) /\ h[k] = next(h, k)
      <3> HIDE DEF next, h
      <3> QED BY <1>2, <1>5
    <2> HIDE DEF h
    <2> QED BY <1>7, <2>1
  <1>8. \A k \in 0..n : g[k] = h[k]
    <2> HIDE DEF h, next, Recursion
    <2> QED BY <1>6, <1>7, AlikeByInduction
  <1>9. h[n] = f[i + n]
    OBVIOUS
  <1> HIDE DEF h
  <1> QED BY <1>4, <1>8, <1>9

\* Back over n characters, if the end is not before.
LEMMA BackIs ==
  ASSUME NEW t, IsText(t), NEW j \in Nat, NEW n \in Nat, n <= j, j <= NumChars(t),
         NEW up \in Int, up <= Starts(t)[j - n]
  PROVE  Back(t, up, Starts(t)[j], n) = Starts(t)[j - n]
  <1> DEFINE f == Starts(t)
             next(g, k) == IF k = 0 THEN f[j]
                           ELSE IF g[k - 1] > up THEN UTF8Backup(t, g[k - 1], 0)
                           ELSE g[k - 1]
             Recursion(g) == g = [k \in 0..n |-> next(g, k)]
             h == [k \in 0..n |-> f[j - k]]
  <1>1. ASSUME NEW k \in 1..n
        PROVE  UTF8Backup(t, f[j - (k - 1)], 0) = f[j - k] /\ f[j - (k - 1)] > up
    <2>1. NumChars(t) \in Nat
      BY TextIs
    <2>2. PICK i \in 1..NumChars(t) : i = j - (k - 1) /\ i - 1 = j - k
      <3>1. j - (k - 1) \in 1..NumChars(t) /\ (j - (k - 1)) - 1 = j - k
        BY <2>1
      <3> QED BY <3>1
    <2>3. UTF8Backup(t, f[i], 0) = f[i - 1] /\ f[i - 1] \in Nat /\ f[i] \in Nat /\ f[i - 1] < f[i]
      BY NextStart
    <2>4. f[j - n] \in Nat /\ f[j - n] <= f[i - 1]
      <3>1. j - n \in 0..NumChars(t) /\ i - 1 \in j - n..NumChars(t)
        BY <2>1, <2>2
      <3>2. f[j - n] + ((i - 1) - (j - n)) <= f[i - 1] /\ f[j - n] \in Nat
        BY <3>1, StartsInOrder
      <3> HIDE DEF f
      <3> QED BY <2>2, <2>3, <3>1, <3>2
    <2>5. up <= f[j - n]
      OBVIOUS
    <2> HIDE DEF f
    <2> QED BY <2>2, <2>3, <2>4, <2>5
  <1>2. ASSUME NEW k \in 0..n PROVE h[k] = next(h, k)
    <2>1. CASE k = 0
      BY <2>1
    <2>2. CASE k # 0
      <3>1. k \in 1..n /\ k - 1 \in 0..n
        BY <2>2
      <3>2. h[k] = f[j - k] /\ h[k - 1] = f[j - (k - 1)]
        BY <3>1
      <3> HIDE DEF h, f
      <3> QED BY <1>1, <2>2, <3>1, <3>2 DEF f
    <2> QED BY <2>1, <2>2
  <1>3. Recursion(h)
    <2>1. h = [k \in 0..n |-> h[k]]
      OBVIOUS
    <2> HIDE DEF h, next
    <2> QED BY <1>2, <2>1
  <1>4. PICK g : Recursion(g) /\ Back(t, up, f[j], n) = g[n]
    <2> DEFINE w == CHOOSE g : Recursion(g)
    <2>1. Recursion(w)
      <3> HIDE DEF Recursion, h
      <3> QED BY <1>3
    <2>2. Back(t, up, f[j], n) = w[n]
      BY DEF Back
    <2> HIDE DEF w
    <2> QED BY <2>1, <2>2
  <1>5. \A k \in 0..n : g[k] = next(g, k)
    <2> HIDE DEF next
    <2> QED BY <1>4
  <1>6. g[0] = h[0]
    <2>1. g[0] = next(g, 0) /\ h[0] = next(h, 0)
      <3> HIDE DEF next, h
      <3> QED BY <1>2, <1>5
    <2> QED BY <2>1
  <1>7. ASSUME NEW k \in 1..n, g[k - 1] = h[k - 1] PROVE g[k] = h[k]
    <2>1. g[k] = next(g, k) /\ h[k] = next(h, k)
      <3> HIDE DEF next, h
      <3> QED BY <1>2, <1>5
    <2> HIDE DEF h
    <2> QED BY <1>7, <2>1
  <1>8. \A k \in 0..n : g[k] = h[k]
    <2> HIDE DEF h, next, Recursion
    <2> QED BY <1>6, <1>7, AlikeByInduction
  <1>9. h[n] = f[j - n]
    OBVIOUS
  <1> HIDE DEF h
  <1> QED BY <1>4, <1>8, <1>9

\* What Wrap makes of a difference.
LEMMA Wraps ==
  ASSUME NEW M \in Nat, NEW n \in Nat, n < M
  PROVE  (n + M) % M = n /\ n % M = n
  BY Z3T(30)

\* A number of the type is not changed; a negative one is counted from the top.
LEMMA WrapIs ==
  /\ \A n \in 0..IndexSize - 1 : Wrap(n) = n
  /\ \A n \in Nat : 0 < n /\ n <= IndexSize => Wrap(0 - n) = IndexSize - n
  <1>1. IndexSize \in Nat
    BY StringsAssumption
  <1>2. ASSUME NEW n \in 0..IndexSize - 1 PROVE Wrap(n) = n
    <2>1. (n + IndexSize) % IndexSize = n
      BY <1>1, Wraps
    <2> QED BY <2>1 DEF Wrap
  <1>3. ASSUME NEW n \in Nat, 0 < n, n <= IndexSize PROVE Wrap(0 - n) = IndexSize - n
    <2>1. PICK k \in Nat : k = IndexSize - n /\ k < IndexSize /\ (0 - n) + IndexSize = k
      BY <1>1, <1>3
    <2>2. k % IndexSize = k
      BY <1>1, <2>1, Wraps
    <2> QED BY <2>1, <2>2 DEF Wrap
  <1> QED BY <1>2, <1>3

\* The bookmarks with which the search finds its way.
Usable(m, t) ==
    \/ m = NoMark
    \/ m.char \in 1..NumChars(t) /\ m.byte = Starts(t)[m.char]
    \/ m.char \in Negative /\ m.byte \in Negative

\* The search finds the nth character, wherever the bookmark is.
LEMMA SearchIs ==
  ASSUME NEW t, IsText(t), Len(t) <= MaxBody, NEW m \in Marks, Usable(m, t),
         NEW n \in 1..NumChars(t)
  PROVE  Search(t, n, m, NumChars(t)) = Starts(t)[n]
  <1> DEFINE f == Starts(t)
             count == NumChars(t)
             marked == m.char > 0
             beyond == marked /\ n >= m.char
             up     == IF beyond THEN m.byte ELSE 0
             first  == IF beyond THEN m.char ELSE 0
             ep     == IF marked /\ ~ beyond THEN m.byte ELSE Len(t)
             last   == IF marked /\ ~ beyond THEN m.char ELSE count
             found == IF n - first < Wrap(last - n) THEN Forward(t, up, ep, n - first)
                      ELSE Back(t, up, ep, last - n)
  <1>1. /\ count \in Nat /\ Len(t) \in Nat /\ n \in Nat /\ 1 <= n /\ n <= count /\ count <= Len(t)
        /\ MaxBody \in Nat /\ IndexSize \in Nat /\ IndexSize > 4 * MaxBody /\ Len(t) <= MaxBody
    <2>1. count \in Nat /\ Len(t) \in Nat
      BY TextIs
    <2>2. Starts(t)[count] = Len(t) /\ count <= Starts(t)[count]
      BY <2>1, StartIs
    <2> QED BY <2>1, <2>2, StringsAssumption
  <1>2. Search(t, n, m, count) = found
    BY DEF Search
  <1>3. /\ f[0] = 0 /\ f[count] = Len(t)
        /\ f[n] \in Nat /\ f[n] <= Len(t)
    <2>1. n \in 0..count
      BY <1>1
    <2>2. f[n] \in Nat /\ f[n] + (count - n) <= Len(t) /\ f[0] = 0 /\ f[count] = Len(t)
      BY <2>1, StartIs
    <2> HIDE DEF f, count
    <2> QED BY <1>1, <2>1, <2>2
  \* between the start of character i and that of character j
  <1>4. ASSUME NEW i \in Nat, NEW j \in Nat, i <= n, n <= j, j <= count
        PROVE  IF n - i < Wrap(j - n) THEN Forward(t, f[i], f[j], n - i) = f[n]
               ELSE Back(t, f[i], f[j], j - n) = f[n]
    <2>1. f[i] \in Nat /\ f[j] \in Nat /\ f[i] <= f[n] /\ f[n] <= f[j]
      <3>1. i \in 0..count /\ n \in i..count /\ n \in 0..count /\ j \in n..count
        BY <1>1, <1>4
      <3>2. f[i] \in Nat /\ f[i] + (n - i) <= f[n]
        BY <3>1, StartsInOrder
      <3>3. f[j] \in Nat /\ f[n] + (j - n) <= f[j]
        BY <3>1, StartsInOrder
      <3> HIDE DEF f, count
      <3> QED BY <1>3, <1>4, <3>1, <3>2, <3>3
    <2>2. PICK d \in Nat : d = n - i /\ i + d = n
      <3>1. n - i \in Nat /\ i + (n - i) = n
        BY <1>1, <1>4
      <3> QED BY <3>1
    <2>3. Forward(t, f[i], f[j], d) = f[i + d]
      <3>1. i + d <= count /\ f[i + d] <= f[j] /\ f[j] \in Int
        BY <1>1, <2>1, <2>2
      <3> QED BY <3>1, ForwardIs
    <2>4. PICK e \in Nat : e = j - n /\ j - e = n /\ e <= j
      <3>1. j - n \in Nat /\ j - (j - n) = n /\ j - n <= j
        BY <1>1, <1>4
      <3> QED BY <3>1
    <2>5. Back(t, f[i], f[j], e) = f[j - e]
      <3>1. f[i] <= f[j - e] /\ f[i] \in Int
        BY <2>1, <2>4
      <3> QED BY <1>4, <2>4, <3>1, BackIs
    <2> QED BY <2>2, <2>3, <2>4, <2>5
  <1>5. CASE m = NoMark
    <2>1. ~ marked /\ ~ beyond
      BY <1>5 DEF NoMark
    <2>2. up = 0 /\ first = 0 /\ ep = Len(t) /\ last = count
      BY <2>1
    <2>3. IF n - 0 < Wrap(count - n) THEN Forward(t, f[0], f[count], n - 0) = f[n]
          ELSE Back(t, f[0], f[count], count - n) = f[n]
      BY <1>1, <1>4
    <2>4. found = f[n]
      <3> HIDE DEF up, first, ep, last, f, count
      <3> QED BY <1>3, <2>2, <2>3
    <2> QED BY <1>2, <2>4
  <1>6. CASE m.char \in 1..count /\ m.byte = f[m.char]
    <2>1. m.char \in Nat /\ m.char > 0 /\ m.char <= count
      BY <1>1, <1>6
    <2>2. CASE n >= m.char
      <3>1. up = f[m.char] /\ first = m.char /\ ep = Len(t) /\ last = count
        BY <1>6, <2>1, <2>2
      <3>2. IF n - m.char < Wrap(count - n) THEN Forward(t, f[m.char], f[count], n - m.char) = f[n]
            ELSE Back(t, f[m.char], f[count], count - n) = f[n]
        <4>1. m.char <= n
          BY <1>1, <2>1, <2>2
        <4> QED BY <1>1, <1>4, <2>1, <4>1
      <3>3. found = f[n]
        <4> HIDE DEF up, first, ep, last, f, count
        <4> QED BY <1>3, <3>1, <3>2
      <3> QED BY <1>2, <3>3
    <2>3. CASE ~(n >= m.char)
      <3>1. up = 0 /\ first = 0 /\ ep = f[m.char] /\ last = m.char
        BY <1>6, <2>1, <2>3
      <3>2. IF n - 0 < Wrap(m.char - n) THEN Forward(t, f[0], f[m.char], n - 0) = f[n]
            ELSE Back(t, f[0], f[m.char], m.char - n) = f[n]
        <4>1. n <= m.char
          BY <1>1, <2>1, <2>3
        <4> QED BY <1>1, <1>4, <2>1, <4>1
      <3>3. found = f[n]
        <4> HIDE DEF up, first, ep, last, f, count
        <4> QED BY <1>3, <3>1, <3>2
      <3> QED BY <1>2, <3>3
    <2> QED BY <2>2, <2>3
  <1>7. CASE m.char \in Negative /\ m.byte \in Negative
    <2>1. /\ m.char \in Nat /\ m.byte \in Nat /\ m.char < IndexSize
          /\ m.char >= IndexSize - MaxBody /\ m.byte >= IndexSize - MaxBody
      BY <1>1, <1>7 DEF Negative
    <2>2. marked /\ ~(n >= m.char)
      BY <1>1, <2>1
    <2>3. up = 0 /\ first = 0 /\ ep = m.byte /\ last = m.char
      BY <2>2
    <2>4. Wrap(m.char - n) = m.char - n /\ n - 0 < m.char - n /\ n - 0 = n
      <3>1. m.char - n \in 0..IndexSize - 1 /\ n < m.char - n
        BY <1>1, <2>1
      <3> QED BY <1>1, <3>1, WrapIs
    <2>5. Forward(t, f[0], m.byte, n) = f[n]
      <3>1. 0 + n = n /\ n <= count /\ f[n] <= m.byte /\ m.byte \in Int /\ 0 \in Nat /\ n \in Nat
        BY <1>1, <1>3, <2>1
      <3> QED BY <3>1, ForwardIs
    <2>6. found = f[n]
      <3> HIDE DEF up, first, ep, last, f, count
      <3> QED BY <1>3, <2>3, <2>4, <2>5
    <2> QED BY <1>2, <2>6
  <1> QED BY <1>5, <1>6, <1>7 DEF Usable
-------------------------------------------------------------------------------
(***************************************************************************)
(* What the steps inside an operation do.                                  *)
(***************************************************************************)
Stores == [Bodies -> [text : Seq(0..6), count : Nat]]

SameTexts(bs, cs) == \A b \in Bodies : bs[b].text = cs[b].text

\* y holds the characters that x does, in the same place; it can know more counts.
Kept(y, x, q) == /\ Holds(y, q) /\ Small(y.bodies)
                 /\ SameTexts(y.bodies, x.bodies) /\ y.str = x.str

\* A string in the middle of an operation.
LEMMA HoldsIs ==
  ASSUME NEW x, NEW q, Holds(x, q)
  PROVE  /\ x.str \in Slices /\ x.mark \in Marks /\ x.bodies \in Stores
         /\ x.str.body \in Bodies /\ x.str.offset \in Nat /\ x.str.num \in Nat
         /\ x = [str |-> x.str, mark |-> x.mark, bodies |-> x.bodies]
         /\ IsText(Body(x).text) /\ Body(x).text \in Seq(0..6)
         /\ Body(x).count \in {0, NumChars(Body(x).text)}
         /\ NumChars(Body(x).text) \in Nat /\ x.str.offset + x.str.num <= NumChars(Body(x).text)
         /\ x.str.num = 0 => Body(x).text = <<>>
  <1>1. /\ x \in [str : Slices, mark : Marks, bodies : Stores]
    BY DEF Holds, Stores
  <1>2. x.str \in Slices /\ x.mark \in Marks /\ x.bodies \in Stores
        /\ x = [str |-> x.str, mark |-> x.mark, bodies |-> x.bodies]
    BY <1>1
  <1>3. x.str.body \in Bodies /\ x.str.offset \in Nat /\ x.str.num \in Nat
    BY <1>2 DEF Slices
  <1>4. IsText(Body(x).text) /\ Body(x).count \in {0, NumChars(Body(x).text)}
    BY <1>3 DEF Holds, Stored, Body
  <1>5. Body(x).text \in Seq(0..6) /\ NumChars(Body(x).text) \in Nat
    BY <1>4, TextIs
  <1> QED BY <1>2, <1>3, <1>4, <1>5 DEF Holds, FitsIn

\* A string keeps its characters with another bookmark and other counts.
LEMMA KeptIs ==
  ASSUME NEW x, NEW q, Holds(x, q), Small(x.bodies), NEW m \in Marks, NEW bs, Stored(bs),
         SameTexts(bs, x.bodies), MarkIn(m, x.str, Body(x).text)
  PROVE  Kept([str |-> x.str, mark |-> m, bodies |-> bs], x, q)
  <1> DEFINE y == [str |-> x.str, mark |-> m, bodies |-> bs]
  <1>1. y.str = x.str /\ y.mark = m /\ y.bodies = bs
    OBVIOUS
  <1>2. Body(y).text = Body(x).text
    BY HoldsIs DEF Body, SameTexts
  <1>3. y \in [str : Slices, mark : Marks, bodies : Stores]
    BY HoldsIs DEF Stored, Stores
  <1>4. Small(y.bodies)
    BY <1>1 DEF Small, SameTexts
  <1> HIDE DEF y
  <1>5. Holds(y, q)
    BY <1>1, <1>2, <1>3 DEF Holds, Stores
  <1> QED BY <1>1, <1>4, <1>5 DEF Kept, y

\* A body whose characters are counted.
LEMMA CountedIs ==
  ASSUME NEW d, NumChars(d.text) \in Nat, d.count \in {0, NumChars(d.text)}
  PROVE  Counted(d) = NumChars(d.text)
  BY DEF Counted

\* Bodies one of which has been counted.
LEMMA CountKept ==
  ASSUME NEW bs, Stored(bs), NEW b \in Bodies, NEW n, n = NumChars(bs[b].text)
  PROVE  /\ Stored([bs EXCEPT ![b].count = n])
         /\ SameTexts([bs EXCEPT ![b].count = n], bs)
  <1> DEFINE cs == [bs EXCEPT ![b].count = n]
  <1>1. bs \in Stores /\ n \in Nat
    <2>1. IsText(bs[b].text)
      BY DEF Stored
    <2> QED BY <2>1, TextIs DEF Stored, Stores
  <1>2. cs \in Stores
    BY <1>1 DEF Stores
  <1>3. \A c \in Bodies : cs[c].text = bs[c].text /\ cs[c].count \in {bs[c].count, NumChars(bs[c].text)}
    BY <1>1 DEF Stores
  <1> HIDE DEF cs
  <1>4. Stored(cs)
    BY <1>2, <1>3 DEF Stored, Stores
  <1> QED BY <1>3, <1>4 DEF cs, SameTexts

\* If every character is a byte the nth one is the nth byte.
LEMMA BytesCount ==
  ASSUME NEW t, IsText(t), NumChars(t) = Len(t), NEW n \in 0..NumChars(t)
  PROVE  Starts(t)[n] = n
  <1>1. NumChars(t) \in Nat /\ Len(t) \in Nat
    BY TextIs
  <1>2. Starts(t)[n] \in Nat /\ n <= Starts(t)[n] /\ Starts(t)[n] + (NumChars(t) - n) <= Len(t)
    BY StartIs
  <1> QED BY <1>1, <1>2

\* The bookmark of a string is of use for its text.
LEMMA MarkUsable ==
  ASSUME NEW x, NEW q, Holds(x, q)
  PROVE  Usable(x.mark, Body(x).text)
  <1>1. /\ x.str.offset \in Nat /\ x.str.num \in Nat /\ NumChars(Body(x).text) \in Nat
        /\ x.str.offset + x.str.num <= NumChars(Body(x).text)
    BY HoldsIs
  <1>2. MarkIn(x.mark, x.str, Body(x).text)
    BY DEF Holds
  <1>3. ASSUME x.mark.char > 0, x.mark.char \in x.str.offset..x.str.offset + x.str.num
        PROVE  x.mark.char \in 1..NumChars(Body(x).text)
    BY <1>1, <1>3
  <1> QED BY <1>2, <1>3 DEF MarkIn, Usable

\* nthChar finds the character.
LEMMA NthIs ==
  ASSUME NEW x, NEW q, Holds(x, q), Small(x.bodies), NEW n \in 0..x.str.num
  PROVE  /\ Nth(x, n).ptr = Starts(Body(x).text)[x.str.offset + n]
         /\ Kept(Nth(x, n).then, x, q)
  <1> DEFINE t == Body(x).text
             count == NumChars(t)
             k == x.str.offset + n
  <1>1. /\ x.str \in Slices /\ x.mark \in Marks /\ x.bodies \in Stores
        /\ x.str.body \in Bodies /\ x.str.offset \in Nat /\ x.str.num \in Nat
        /\ x = [str |-> x.str, mark |-> x.mark, bodies |-> x.bodies]
        /\ IsText(t) /\ Body(x).count \in {0, count} /\ count \in Nat
        /\ x.str.offset + x.str.num <= count
    BY HoldsIs
  <1>2. Stored(x.bodies) /\ MarkIn(x.mark, x.str, t) /\ Usable(x.mark, t)
    BY MarkUsable DEF Holds
  <1>3. Len(t) \in Nat /\ Len(t) <= MaxBody
    BY <1>1, TextIs DEF Small, Body
  <1>4. k \in Nat /\ k <= count /\ k \in x.str.offset..x.str.offset + x.str.num
    <2> HIDE DEF count
    <2> QED BY <1>1
  <1>5. Nth(x, n) = NthChar(x, k, count)
    <2>1. Counted(Body(x)) = count
      BY <1>1, CountedIs
    <2> QED BY <2>1 DEF Nth
  <1> HIDE DEF k, count, t
  <1>6. k \in 0..count
    BY <1>1, <1>4
  <1>7. CASE k = 0 \/ Body(x).count = Len(t)
    <2>1. NthChar(x, k, count) = [ptr |-> k, then |-> x]
      BY <1>7 DEF NthChar, t
    <2>2. Starts(t)[k] = k
      <3>1. CASE k = 0
        BY <1>1, <1>6, <3>1, StartIs DEF count
      <3>2. CASE Body(x).count = Len(t)
        <4>1. CASE Body(x).count = count
          <5>1. count = Len(t)
            BY <3>2, <4>1
          <5> QED BY <1>1, <1>6, <5>1, BytesCount DEF count
        <4>2. CASE Body(x).count = 0
          <5>1. Len(t) = 0
            BY <3>2, <4>2
          <5>2. Starts(t)[k] \in Nat /\ k <= Starts(t)[k] /\ Starts(t)[k] + (count - k) <= Len(t)
            BY <1>1, <1>6, StartIs DEF count
          <5> QED BY <1>1, <1>4, <5>1, <5>2
        <4> QED BY <1>1, <4>1, <4>2
      <3> QED BY <1>7, <3>1, <3>2
    <2>3. Kept([str |-> x.str, mark |-> x.mark, bodies |-> x.bodies], x, q)
      <3>1. SameTexts(x.bodies, x.bodies)
        BY DEF SameTexts
      <3> QED BY <1>1, <1>2, <3>1, KeptIs DEF t
    <2> QED BY <1>1, <1>5, <2>1, <2>2, <2>3 DEF t, k
  <1>8. CASE ~(k = 0 \/ Body(x).count = Len(t))
    <2> DEFINE bs == [x.bodies EXCEPT ![x.str.body].count = count]
               y == [x EXCEPT !.bodies = [@ EXCEPT ![x.str.body].count = count]]
               p == Search(t, k, x.mark, count)
    <2>1. y = [str |-> x.str, mark |-> x.mark, bodies |-> bs]
      BY <1>1
    <2>2. Stored(bs) /\ SameTexts(bs, x.bodies)
      BY <1>1, <1>2, CountKept DEF count, t, Body
    <2>3. p = Starts(t)[k]
      <3>1. k \in 1..count
        BY <1>4, <1>8
      <3> QED BY <1>1, <1>2, <1>3, <3>1, SearchIs DEF count
    <2>4. NthChar(x, k, count) = Found(y, k, count, p)
      BY <1>1, <1>4, <1>8 DEF NthChar, t
    <2>5. /\ Starts(t)[k] \in Nat /\ k <= Starts(t)[k] /\ Starts(t)[k] <= Len(t)
      <3>1. Starts(t)[k] \in Nat /\ k <= Starts(t)[k] /\ Starts(t)[k] + (count - k) <= Len(t)
        BY <1>1, <1>6, StartIs DEF count
      <3> QED BY <1>1, <1>3, <1>4, <3>1
    <2>6. p \in Index /\ k \in Index /\ Wrap(p) = p /\ k > 0
      <3>1. p \in 0..IndexSize - 1 /\ k \in 0..IndexSize - 1
        <4> HIDE DEF p
        <4> QED BY <1>3, <1>4, <2>3, <2>5, StringsAssumption
      <3> HIDE DEF p
      <3> QED BY <1>4, <1>8, <3>1, WrapIs DEF Index
    <2> DEFINE m == IF p # NullPtr /\ k > Margin /\ k < count - Margin
                    THEN [char |-> k, byte |-> Wrap(p)] ELSE x.mark
    <2>7. m \in Marks /\ MarkIn(m, x.str, t)
      <3>1. [char |-> k, byte |-> Wrap(p)] \in Marks
        BY <2>6 DEF Marks
      <3>2. MarkIn([char |-> k, byte |-> Wrap(p)], x.str, t)
        BY <1>4, <2>3, <2>6 DEF MarkIn
      <3> QED BY <1>1, <1>2, <3>1, <3>2
    <2>8. Found(y, k, count, p) = [ptr |-> p, then |-> [str |-> x.str, mark |-> m, bodies |-> bs]]
      <3> HIDE DEF bs, p
      <3> QED BY <2>1 DEF Found
    <2>9. Kept([str |-> x.str, mark |-> m, bodies |-> bs], x, q)
      <3> HIDE DEF m, bs
      <3> QED BY <2>2, <2>7, KeptIs DEF t
    <2> HIDE DEF m, bs, y, p
    <2> QED BY <1>5, <2>3, <2>4, <2>8, <2>9 DEF t, k
  <1> QED BY <1>7, <1>8

\* What is kept twice is kept.
LEMMA KeptOn ==
  ASSUME NEW x, NEW y, NEW z, NEW q, Kept(y, x, q), Kept(z, y, q)
  PROVE  Kept(z, x, q)
  BY DEF Kept, SameTexts

\* The text of a string that is kept.
LEMMA KeptText ==
  ASSUME NEW x, NEW y, NEW q, Holds(x, q), Kept(y, x, q)
  PROVE  y.str = x.str /\ Body(y).text = Body(x).text
  BY HoldsIs DEF Kept, SameTexts, Body

\* So does the const nthChar, which leaves the bookmark.
LEMMA ConstNthIs ==
  ASSUME NEW x, NEW q, Holds(x, q), Small(x.bodies), NEW n \in 0..x.str.num
  PROVE  /\ ConstNth(x, n).ptr = Starts(Body(x).text)[x.str.offset + n]
         /\ Kept(ConstNth(x, n).then, x, q) /\ ConstNth(x, n).then.mark = x.mark
  <1> DEFINE r == Nth(x, n)
             c == [r EXCEPT !.then.mark = x.mark]
  <1>1. r.ptr = Starts(Body(x).text)[x.str.offset + n] /\ Kept(r.then, x, q)
    BY NthIs
  <1>2. \E p, y : r = [ptr |-> p, then |-> y]
    BY DEF Nth, NthChar, Found
  <1> HIDE DEF r
  <1>3. Holds(r.then, q) /\ Small(r.then.bodies) /\ SameTexts(r.then.bodies, x.bodies) /\ r.then.str = x.str
    BY <1>1 DEF Kept
  <1>4. r.then = [str |-> r.then.str, mark |-> r.then.mark, bodies |-> r.then.bodies]
    BY <1>3, HoldsIs
  <1>5. /\ c.ptr = r.ptr
        /\ c.then = [str |-> x.str, mark |-> x.mark, bodies |-> r.then.bodies]
    BY <1>2, <1>3, <1>4
  <1>6. Stored(r.then.bodies) /\ x.mark \in Marks /\ MarkIn(x.mark, x.str, Body(x).text)
    BY <1>3, HoldsIs DEF Holds
  <1>7. Kept([str |-> x.str, mark |-> x.mark, bodies |-> r.then.bodies], x, q)
    BY <1>3, <1>6, KeptIs
  <1>8. ConstNth(x, n) = c
    BY DEF ConstNth, r
  <1> HIDE DEF c
  <1> QED BY <1>1, <1>5, <1>7, <1>8

\* The bytes of a string are those that spell its characters.
LEMMA SliceBytes ==
  ASSUME NEW x, NEW q, Holds(x, q)
  PROVE  /\ q \in Seq(Letters) /\ Len(q) = x.str.num
         /\ SubSeq(Body(x).text, Starts(Body(x).text)[x.str.offset] + 1,
                   Starts(Body(x).text)[x.str.offset + x.str.num]) = Encode(q)
         /\ \A k \in 0..x.str.num : Starts(Body(x).text)[x.str.offset + k]
                = Starts(Body(x).text)[x.str.offset] + Starts(Encode(q))[k]
         /\ \A k \in 1..x.str.num : q[k] = Chars(Body(x).text)[x.str.offset + k]
  <1> DEFINE t == Body(x).text
             s == Chars(t)
             f == Offsets(s)
  <1>1. PICK i \in Nat, n \in Nat : i = x.str.offset /\ n = x.str.num /\ i + n <= NumChars(t) /\ IsText(t)
    BY HoldsIs
  <1>2. s \in Seq(Letters) /\ s \in Seq(Characters) /\ t = Encode(s) /\ NumChars(t) = Len(s)
    BY <1>1, TextIs
  <1>3. q = SubSeq(s, i + 1, i + n)
    BY <1>1 DEF Holds
  <1> HIDE DEF t, s, f
  <1>4. q \in Seq(Letters) /\ Len(q) = n /\ \A k \in 1..n : q[k] = s[i + k]
    <2>1. i + n <= Len(s)
      BY <1>1, <1>2
    <2>2. /\ SubSeq(s, i + 1, i + n) \in Seq(Letters)
          /\ Len(SubSeq(s, i + 1, i + n)) = n
          /\ \A k \in 1..n : SubSeq(s, i + 1, i + n)[k] = s[i + k]
      BY <1>2, <2>1, PartOf
    <2> QED BY <1>3, <2>2
  <1>5. /\ SubSeq(Encode(s), f[i] + 1, f[i + n]) = Encode(q)
        /\ \A k \in 0..n : f[i + k] = f[i] + Offsets(q)[k]
    <2>1. i + n <= Len(s)
      BY <1>1, <1>2
    <2>2. /\ SubSeq(Encode(s), Offsets(s)[i] + 1, Offsets(s)[i + n]) = Encode(SubSeq(s, i + 1, i + n))
          /\ \A k \in 0..n : Offsets(s)[i + k] = Offsets(s)[i] + Offsets(SubSeq(s, i + 1, i + n))[k]
      BY <1>2, <2>1, EncodePart, ZenonT(60)
    <2> QED BY <1>3, <2>2 DEF f
  <1>6. \A k \in 0..n : Starts(t)[i + k] = f[i + k] /\ Starts(Encode(q))[k] = Offsets(q)[k]
    <2> TAKE k \in 0..n
    <2>1. i + k \in 0..NumChars(t)
      BY <1>1, <1>2
    <2>2. Starts(t)[i + k] = f[i + k]
      BY <1>1, <2>1, StartIs DEF f, s
    <2>3. IsText(Encode(q)) /\ Chars(Encode(q)) = q /\ k \in 0..NumChars(Encode(q))
      BY <1>4, EncodeIsText
    <2>4. Starts(Encode(q))[k] = Offsets(q)[k]
      BY <2>3, StartIs
    <2> QED BY <2>2, <2>4
  <1>7. Starts(t)[i] = f[i] /\ Starts(t)[i + n] = f[i + n]
    <2>1. 0 \in 0..n /\ n \in 0..n /\ i + 0 = i
      OBVIOUS
    <2> QED BY <1>6, <2>1
  <1>8. \A k \in 0..n : Starts(t)[i + k] = Starts(t)[i] + Starts(Encode(q))[k]
    BY <1>5, <1>6, <1>7
  <1> QED BY <1>1, <1>2, <1>4, <1>5, <1>7, <1>8 DEF t, s

\* asUTF8 copies them, and leaves the bookmark.
LEMMA BytesIs ==
  ASSUME NEW x, NEW q, Holds(x, q), Small(x.bodies)
  PROVE  /\ Bytes(x).bytes = Encode(q)
         /\ Kept(Bytes(x).then, x, q) /\ Bytes(x).then.mark = x.mark
  <1> DEFINE first == ConstNth(x, 0)
             y == first.then
             end == ConstNth(y, x.str.num)
             t == Body(x).text
  <1>1. x.str.num \in Nat /\ x.str.offset \in Nat /\ x.str.offset + 0 = x.str.offset /\ 0 \in 0..x.str.num
        /\ x.str.num \in 0..x.str.num
    <2>1. x.str.num \in Nat /\ x.str.offset \in Nat
      BY HoldsIs
    <2> QED BY <2>1
  <1>2. first.ptr = Starts(t)[x.str.offset] /\ Kept(y, x, q) /\ y.mark = x.mark
    <2>1. /\ first.ptr = Starts(Body(x).text)[x.str.offset + 0]
          /\ Kept(first.then, x, q) /\ first.then.mark = x.mark
      BY <1>1, ConstNthIs
    <2> QED BY <1>1, <2>1
  <1> HIDE DEF first, y
  <1>3. y.str = x.str /\ Body(y).text = t /\ Holds(y, q) /\ Small(y.bodies)
    BY <1>2, KeptText DEF Kept
  <1>4. end.ptr = Starts(t)[x.str.offset + x.str.num] /\ Kept(end.then, y, q) /\ end.then.mark = x.mark
    <2>1. x.str.num \in 0..y.str.num
      BY <1>1, <1>3
    <2>2. /\ ConstNth(y, x.str.num).ptr = Starts(Body(y).text)[y.str.offset + x.str.num]
          /\ Kept(ConstNth(y, x.str.num).then, y, q) /\ ConstNth(y, x.str.num).then.mark = y.mark
      BY <1>3, <2>1, ConstNthIs
    <2> QED BY <1>2, <1>3, <2>2
  <1>5. Bytes(x) = [bytes |-> SubSeq(t, first.ptr + 1, end.ptr), then |-> end.then]
    BY DEF Bytes, first, y
  <1> HIDE DEF end, t
  <1>6. Kept(end.then, x, q)
    BY <1>2, <1>4, KeptOn
  <1>7. SubSeq(t, first.ptr + 1, end.ptr) = Encode(q)
    BY <1>2, <1>4, SliceBytes DEF t
  <1> QED BY <1>4, <1>5, <1>6, <1>7

\* A sequence is a part of itself.
LEMMA WholePart ==
  ASSUME NEW d \in Seq(Letters)
  PROVE  SubSeq(d, 0 + 1, 0 + Len(d)) = d
  OBVIOUS

\* A text is put in a body.
Put(bs, b, r, c) == [bs EXCEPT ![b] = [text |-> Encode(r), count |-> c]]

\* It is stored there, and the other bodies are as they were.
LEMMA StoreText ==
  ASSUME NEW bs, Stored(bs), NEW b \in Bodies, NEW r \in Seq(Letters), NEW c \in {0, Len(r)}
  PROVE  /\ Stored(Put(bs, b, r, c)) /\ Put(bs, b, r, c)[b].text = Encode(r)
         /\ \A d \in Bodies \ {b} : Put(bs, b, r, c)[d] = bs[d]
  <1> DEFINE new == [text |-> Encode(r), count |-> c]
             cs == [bs EXCEPT ![b] = new]
  <1>1. IsText(new.text) /\ new.text \in Seq(0..6) /\ new.count \in {0, NumChars(new.text)} /\ new.count \in Nat
    <2>1. IsText(Encode(r)) /\ NumChars(Encode(r)) = Len(r)
      BY EncodeIsText
    <2>2. Encode(r) \in Seq(0..6)
      BY <2>1, TextIs
    <2> QED BY <2>1, <2>2
  <1>2. new \in [text : Seq(0..6), count : Nat] /\ new.text = Encode(r)
    BY <1>1
  <1> HIDE DEF new
  <1>3. cs \in Stores /\ cs[b] = new /\ \A d \in Bodies \ {b} : cs[d] = bs[d]
    BY <1>2 DEF Stored, Stores
  <1> HIDE DEF cs
  <1>4. Stored(cs)
    BY <1>1, <1>3 DEF Stored, Stores
  <1> QED BY <1>2, <1>3, <1>4 DEF cs, new, Put

\* A bookmark moves with the text that is copied; one that was before it becomes negative.
LEMMA MarkCopied ==
  ASSUME NEW x, NEW q, Holds(x, q), Small(x.bodies), NEW b
  PROVE  LET m == [char |-> Wrap(x.mark.char - x.str.offset),
                   byte |-> Wrap(x.mark.byte - Starts(Body(x).text)[x.str.offset])]
         IN  m \in Marks /\ MarkIn(m, [body |-> b, offset |-> 0, num |-> x.str.num], Encode(q))
  <1> DEFINE t == Body(x).text
             first == Starts(t)[x.str.offset]
             s == [body |-> b, offset |-> 0, num |-> x.str.num]
             m == [char |-> Wrap(x.mark.char - x.str.offset), byte |-> Wrap(x.mark.byte - first)]
  <1>0. s.offset = 0 /\ s.num = x.str.num
    OBVIOUS
  <1> HIDE DEF s
  <1> SUFFICES m \in Marks /\ MarkIn(m, s, Encode(q))
    BY DEF s
  <1>1. PICK i \in Nat, n \in Nat : /\ i = x.str.offset /\ n = x.str.num /\ i + n <= NumChars(t)
                                    /\ IsText(t) /\ x.mark \in Marks /\ NumChars(t) \in Nat
    BY HoldsIs
  <1>2. /\ first \in Nat /\ i <= first /\ first <= Len(t) /\ Len(t) \in Nat /\ Len(t) <= MaxBody
        /\ NumChars(t) <= Len(t)
    <2>1. i \in 0..NumChars(t) /\ NumChars(t) \in 0..NumChars(t)
      BY <1>1
    <2>2. first \in Nat /\ i <= first /\ first + (NumChars(t) - i) <= Len(t)
      BY <1>1, <2>1, StartIs
    <2>3. Len(t) \in Nat /\ Len(t) <= MaxBody
      BY <1>1, TextIs, HoldsIs DEF Small, Body
    <2> HIDE DEF t, first
    <2> QED BY <1>1, <2>1, <2>2, <2>3, SMTT(30)
  <1>3. MaxBody \in Nat /\ IndexSize \in Nat /\ IndexSize > 4 * MaxBody
    BY StringsAssumption
  <1>4. MarkIn(x.mark, x.str, t)
    BY DEF Holds
  <1> HIDE DEF t, first
  <1>5. CASE x.mark = NoMark
    <2>1. x.mark.char = 0 /\ x.mark.byte = 0
      BY <1>5 DEF NoMark
    <2>2. CASE i = 0
      <3>1. first = 0
        BY <1>1, <2>2, StartIs DEF first
      <3>2. Wrap(0 - 0) = 0
        <4>1. 0 \in 0..IndexSize - 1 /\ 0 - 0 = 0
          BY <1>2, <1>3
        <4> QED BY <4>1, WrapIs
      <3>3. m = NoMark
        BY <1>1, <2>1, <2>2, <3>1, <3>2 DEF NoMark
      <3> QED BY <1>1, <1>5, <3>3 DEF MarkIn
    <2>3. CASE i > 0
      <3>1. Wrap(0 - i) = IndexSize - i /\ Wrap(0 - first) = IndexSize - first
        <4>1. 0 < i /\ i <= IndexSize /\ 0 < first /\ first <= IndexSize
          BY <1>1, <1>2, <1>3, <2>3
        <4> QED BY <1>2, <4>1, WrapIs
      <3>2. m = [char |-> IndexSize - i, byte |-> IndexSize - first]
        BY <1>1, <2>1, <3>1
      <3>3. IndexSize - i \in Negative /\ IndexSize - first \in Negative
        BY <1>1, <1>2, <1>3, <2>3, SMTT(30) DEF Negative
      <3>4. IndexSize - i \in Index /\ IndexSize - first \in Index
        BY <1>1, <1>2, <1>3, <2>3, SMTT(30) DEF Index
      <3> QED BY <1>0, <3>2, <3>3, <3>4 DEF MarkIn, Marks
    <2> QED BY <1>1, <2>2, <2>3
  <1>6. CASE x.mark.char > 0 /\ x.mark.char \in i..i + n /\ x.mark.byte = Starts(t)[x.mark.char]
    <2>1. PICK k \in 0..n : x.mark.char = i + k /\ x.mark.char - i = k /\ i + k \in i..NumChars(t)
      <3>1. x.mark.char - i \in 0..n /\ x.mark.char = i + (x.mark.char - i)
            /\ x.mark.char \in i..NumChars(t)
        BY <1>1, <1>6
      <3> QED BY <3>1
    <2>2. Starts(t)[i + k] = first + Starts(Encode(q))[k]
      BY <1>1, SliceBytes DEF t, first
    <2>3. Starts(t)[i + k] \in Nat /\ Starts(t)[i + k] <= Len(t) /\ first + ((i + k) - i) <= Starts(t)[i + k]
      <3>1. i \in 0..NumChars(t)
        BY <1>1
      <3> QED BY <1>1, <2>1, <3>1, StartsInOrder DEF first
    <2>4. q \in Seq(Letters) /\ Len(q) = n
      BY <1>1, SliceBytes
    <2>5. PICK d \in Nat : d = Starts(Encode(q))[k] /\ (k = 0 => d = 0)
      <3>1. IsText(Encode(q)) /\ k \in 0..NumChars(Encode(q))
        BY <2>4, EncodeIsText
      <3>2. Starts(Encode(q))[k] \in Nat /\ Starts(Encode(q))[0] = 0
        BY <3>1, StartIs
      <3> QED BY <3>2
    <2>6. x.mark.byte - first = d /\ d <= Len(t)
      BY <1>2, <1>6, <2>1, <2>2, <2>3, <2>5
    <2>7. k \in Nat /\ k \in Index /\ d \in Index /\ Wrap(k) = k /\ Wrap(d) = d
      <3>1. k \in 0..IndexSize - 1 /\ d \in 0..IndexSize - 1
        BY <1>1, <1>2, <1>3, <2>6, SMTT(30)
      <3> QED BY <3>1, WrapIs DEF Index
    <2>8. m = [char |-> k, byte |-> d]
      BY <1>1, <2>1, <2>6, <2>7
    <2>9. CASE k = 0
      BY <2>5, <2>7, <2>8, <2>9 DEF MarkIn, Marks, NoMark
    <2>10. CASE k > 0
      <3>1. m.char > 0 /\ m.char \in 0..0 + n /\ m.byte = Starts(Encode(q))[m.char]
        BY <2>5, <2>8, <2>10
      <3> QED BY <1>0, <1>1, <2>7, <2>8, <3>1 DEF MarkIn, Marks
    <2> QED BY <2>7, <2>9, <2>10
  <1>7. CASE i = 0 /\ x.mark.char \in Negative /\ x.mark.byte \in Negative
    <2>1. first = 0
      BY <1>1, <1>7, StartIs DEF first
    <2>2. x.mark.char \in 0..IndexSize - 1 /\ x.mark.byte \in 0..IndexSize - 1
      BY <1>1 DEF Marks, Index
    <2>3. Wrap(x.mark.char - 0) = x.mark.char /\ Wrap(x.mark.byte - 0) = x.mark.byte
      <3>1. x.mark.char - 0 = x.mark.char /\ x.mark.byte - 0 = x.mark.byte
        BY <2>2
      <3> QED BY <2>2, <3>1, WrapIs
    <2>4. m = [char |-> x.mark.char, byte |-> x.mark.byte]
      BY <1>1, <1>7, <2>1, <2>3
    <2>5. m.char \in Negative /\ m.byte \in Negative /\ m \in Marks
      BY <1>1, <1>7, <2>4 DEF Marks
    <2> HIDE DEF m
    <2> QED BY <1>0, <2>5 DEF MarkIn
  <1> QED BY <1>1, <1>4, <1>5, <1>6, <1>7 DEF MarkIn

\* The characters are now in a body of their own.
CopiedFrom(y, x, q) ==
  /\ Holds(y, q) /\ Small(y.bodies)
  /\ y.str = [body |-> NewBody, offset |-> 0, num |-> x.str.num]
  /\ Body(y).text = Encode(q)
  /\ \A b \in Bodies \ {NewBody} : y.bodies[b].text = x.bodies[b].text

\* copyBody keeps the characters, and moves the bookmark with them.
LEMMA CopyBodyIs ==
  ASSUME NewBody \in Bodies, NEW x, NEW q, Holds(x, q), Small(x.bodies)
  PROVE  CopiedFrom(CopyBody(x), x, q)
  <1> DEFINE first == Nth(x, 0)
             y == first.then
             end == Nth(y, x.str.num)
             t == Body(x).text
             bytes == SubSeq(t, first.ptr + 1, IF end.ptr = first.ptr THEN Len(t) ELSE end.ptr)
             m == [char |-> Wrap(x.mark.char - x.str.offset), byte |-> Wrap(x.mark.byte - first.ptr)]
             s == [body |-> NewBody, offset |-> 0, num |-> x.str.num]
  <1>1. PICK i \in Nat, n \in Nat : i = x.str.offset /\ n = x.str.num /\ i + n <= NumChars(t) /\ NumChars(t) \in Nat
    BY HoldsIs
  <1>2. first.ptr = Starts(t)[i] /\ Kept(y, x, q)
    <2>1. 0 \in 0..x.str.num /\ x.str.offset + 0 = i
      BY <1>1
    <2>2. /\ Nth(x, 0).ptr = Starts(Body(x).text)[x.str.offset + 0] /\ Kept(Nth(x, 0).then, x, q)
      BY <2>1, NthIs
    <2> QED BY <2>1, <2>2
  <1> HIDE DEF first, y
  <1>3. y.str = x.str /\ Body(y).text = t /\ Holds(y, q) /\ Small(y.bodies)
    BY <1>2, KeptText DEF Kept
  <1>4. end.ptr = Starts(t)[i + n] /\ Kept(end.then, y, q)
    <2>1. x.str.num \in 0..y.str.num
      BY <1>1, <1>3
    <2>2. /\ Nth(y, x.str.num).ptr = Starts(Body(y).text)[y.str.offset + x.str.num]
          /\ Kept(Nth(y, x.str.num).then, y, q)
      BY <1>3, <2>1, NthIs
    <2> QED BY <1>1, <1>3, <2>2
  <1> HIDE DEF end
  <1>5. Kept(end.then, x, q)
    BY <1>2, <1>4, KeptOn
  <1>6. q \in Seq(Letters) /\ Len(q) = n /\ SubSeq(t, first.ptr + 1, end.ptr) = Encode(q)
    BY <1>1, <1>2, <1>4, SliceBytes
  <1>7. bytes = Encode(q)
    <2>1. CASE n = 0
      <3>1. t = <<>> /\ q = <<>>
        <4>1. x.str.num = 0
          BY <1>1, <2>1
        <4>2. t = <<>>
          BY <4>1, HoldsIs
        <4>3. q = <<>>
          <5> HIDE DEF t
          <5>1. q \in Seq(Letters) /\ Len(q) = 0
            BY <1>6, <2>1
          <5> QED BY <5>1, EmptySeq
        <4> QED BY <4>2, <4>3
      <3>2. first.ptr \in Nat
        <4>1. IsText(t) /\ i \in 0..NumChars(t)
          BY <1>1, HoldsIs
        <4> QED BY <1>2, <4>1, StartIs
      <3>3. end.ptr = first.ptr
        BY <1>1, <1>2, <1>4, <2>1
      <3>4. SubSeq(t, first.ptr + 1, Len(t)) = <<>>
        <4> HIDE DEF t
        <4>1. Len(t) = 0
          BY <3>1
        <4> QED BY <3>1, <3>2, <4>1, SubSeqEmpty
      <3> QED BY <3>1, <3>3, <3>4, EncodeNone
    <2>2. CASE n > 0
      <3>1. IsText(t) /\ i \in 0..NumChars(t) /\ i + n \in i..NumChars(t) /\ (i + n) - i = n
        BY <1>1, HoldsIs
      <3>2. Starts(t)[i] \in Nat /\ Starts(t)[i + n] \in Nat /\ Starts(t)[i] + ((i + n) - i) <= Starts(t)[i + n]
        BY <3>1, StartsInOrder
      <3>3. end.ptr # first.ptr
        <4>1. PICK a \in Nat, b \in Nat : a = Starts(t)[i] /\ b = Starts(t)[i + n] /\ a + n <= b
          BY <3>1, <3>2
        <4>2. a # b
          BY <2>2, <4>1
        <4> QED BY <1>2, <1>4, <4>1, <4>2
      <3> QED BY <1>6, <3>3
    <2> QED BY <1>1, <2>1, <2>2
  <1>8. CopyBody(x) = [str |-> s, mark |-> m,
                       bodies |-> [end.then.bodies EXCEPT ![NewBody] = [text |-> bytes, count |-> 0]]]
    BY DEF CopyBody, first, end, y
  <1> DEFINE bs == [end.then.bodies EXCEPT ![NewBody] = [text |-> Encode(q), count |-> 0]]
             z == [str |-> s, mark |-> m, bodies |-> bs]
  <1>9. /\ Stored(end.then.bodies) /\ Small(end.then.bodies)
        /\ SameTexts(end.then.bodies, x.bodies)
    BY <1>5 DEF Kept, Holds
  <1>10. /\ Stored(bs) /\ bs[NewBody].text = Encode(q)
         /\ \A b \in Bodies \ {NewBody} : bs[b].text = x.bodies[b].text
    <2>1. PICK es, c : es = end.then.bodies /\ Stored(es) /\ c \in {0, Len(q)} /\ c = 0
      BY <1>9
    <2>2. /\ Stored(Put(es, NewBody, q, c)) /\ Put(es, NewBody, q, c)[NewBody].text = Encode(q)
          /\ \A d \in Bodies \ {NewBody} : Put(es, NewBody, q, c)[d] = es[d]
      <3>1. q \in Seq(Letters)
        BY <1>6
      <3> HIDE DEF bs, t, bytes, m, s
      <3> QED BY <2>1, <3>1, StoreText
    <2>3. /\ Stored(bs) /\ bs[NewBody].text = Encode(q)
          /\ \A b \in Bodies \ {NewBody} : bs[b] = end.then.bodies[b]
      BY <2>1, <2>2 DEF Put
    <2> HIDE DEF bs
    <2> QED BY <1>9, <2>3 DEF SameTexts
  <1>11. m \in Marks /\ MarkIn(m, s, Encode(q))
    BY <1>1, <1>2, MarkCopied
  <1>12. s \in Slices /\ s.offset = 0 /\ s.num = n /\ s.body = NewBody
    BY <1>1 DEF Slices
  <1>13. Small(bs)
    <2>1. Len(Encode(q)) <= MaxBody
      <3>1. IsText(t) /\ i \in 0..NumChars(t) /\ i + n \in i..NumChars(t)
        BY <1>1, HoldsIs
      <3>2. Starts(t)[i] \in Nat /\ Starts(t)[i + n] \in Nat /\ Starts(t)[i + n] <= Len(t) /\ Len(t) \in Nat
        BY <3>1, StartsInOrder
      <3>3. Starts(t)[i + n] = Starts(t)[i] + Starts(Encode(q))[n]
        <4>1. n \in 0..n
          BY <1>1
        <4> QED BY <1>1, <4>1, SliceBytes
      <3>4. Starts(Encode(q))[n] = Len(Encode(q)) /\ Len(Encode(q)) \in Nat
        <4>1. IsText(Encode(q)) /\ NumChars(Encode(q)) = n /\ n \in 0..n
          BY <1>6, EncodeIsText
        <4> QED BY <4>1, StartIs, TextIs
      <3>5. Len(t) <= MaxBody
        BY HoldsIs DEF Small, Body
      <3>6. PICK a \in Nat, b \in Nat, c \in Nat, d \in Nat :
                a = Starts(t)[i] /\ b = Starts(t)[i + n] /\ c = Len(Encode(q)) /\ d = Len(t)
        BY <3>2, <3>4
      <3>7. b = a + c /\ b <= d /\ d <= MaxBody /\ MaxBody \in Nat
        BY <3>2, <3>3, <3>4, <3>5, <3>6, StringsAssumption
      <3>8. c <= MaxBody
        BY <3>7
      <3> QED BY <3>6, <3>8
    <2>2. \A b \in Bodies \ {NewBody} : Len(x.bodies[b].text) <= MaxBody
      BY DEF Small
    <2> HIDE DEF bs
    <2> QED BY <1>10, <2>1, <2>2 DEF Small
  <1>14. SubSeq(Chars(Encode(q)), 0 + 1, 0 + n) = q /\ NumChars(Encode(q)) = n /\ (n = 0 => Encode(q) = <<>>)
    <2>1. Chars(Encode(q)) = q /\ NumChars(Encode(q)) = n /\ (n = 0 => Encode(q) = <<>>)
      BY <1>6, EncodeIsText
    <2>2. SubSeq(q, 0 + 1, 0 + n) = q
      BY <1>6, WholePart
    <2> QED BY <2>1, <2>2
  <1>15. z.str = s /\ z.mark = m /\ z.bodies = bs /\ Body(z).text = Encode(q)
    <2> HIDE DEF bs, m
    <2> QED BY <1>10, <1>12 DEF Body
  <1>16. z \in [str : Slices, mark : Marks, bodies : Stores]
    <2> HIDE DEF bs, m, s
    <2> QED BY <1>10, <1>11, <1>12 DEF Stored, Stores
  <1>17. Holds(z, q)
    <2> HIDE DEF z, bs, m, s
    <2>1. FitsIn(s, Encode(q))
      BY <1>1, <1>12, <1>14 DEF FitsIn
    <2> QED BY <1>10, <1>11, <1>12, <1>14, <1>15, <1>16, <2>1 DEF Holds, Stores
  <1>18. CopyBody(x) = z
    BY <1>7, <1>8
  <1> HIDE DEF z, bs, m
  <1> QED BY <1>10, <1>13, <1>15, <1>17, <1>18 DEF CopiedFrom
-------------------------------------------------------------------------------
(***************************************************************************)
(* From one state to the next.                                             *)
(***************************************************************************)
LEMMA NewBodyIsFree ==
  ASSUME IInv
  PROVE  NewBody \in Bodies \ Statics /\ \A v \in Vars : str[v].body # NewBody
  <1> DEFINE f == [v \in Vars |-> str[v].body]
  <1>1. f \in [Vars -> Bodies]
    BY DEF IInv, Slices
  <1>2. \E b \in Bodies \ Statics : \A v \in Vars : f[v] # b
    <2> HIDE DEF f
    <2> QED BY <1>1, StringsAssumption
  <1>3. \E b \in Bodies \ Statics : Users(b) = {}
    BY <1>2 DEF Users
  <1> QED BY <1>3 DEF NewBody, Users

\* A body that is not shared has no other user.
LEMMA OwnIsAlone ==
  ASSUME IInv, NEW v \in Vars, IsOwn(v)
  PROVE  \A u \in Vars \ {v} : str[u].body # str[v].body
  <1> DEFINE U == Users(str[v].body)
  <1>1. IsFiniteSet(U) /\ v \in U
    BY StringsAssumption, FS_Subset DEF Users
  <1>2. Cardinality(U) \in Nat /\ Cardinality(U) # 0
    BY <1>1, FS_CardinalityType, FS_EmptySet
  <1>3. Cardinality(U) = 1
    BY <1>2 DEF IsOwn, IsShared, GetRefCount
  <1>4. \E x : U = {x}
    BY <1>1, <1>3, FS_Singleton
  <1>5. \A u \in Vars \ {v} : u \notin U
    BY <1>1, <1>4
  <1> QED BY <1>5 DEF Users

\* A string holds the same with other bodies, if its own has the same text.
LEMMA HoldsElsewhere ==
  ASSUME NEW x, NEW q, Holds(x, q), NEW bs, Stored(bs), bs[x.str.body].text = Body(x).text
  PROVE  Holds([str |-> x.str, mark |-> x.mark, bodies |-> bs], q)
  <1> DEFINE y == [str |-> x.str, mark |-> x.mark, bodies |-> bs]
  <1>1. y.str = x.str /\ y.mark = x.mark /\ y.bodies = bs /\ Body(y).text = Body(x).text
    BY DEF Body
  <1>2. y \in [str : Slices, mark : Marks, bodies : Stores]
    BY HoldsIs DEF Stored, Stores
  <1> HIDE DEF y
  <1>3. Holds(y, q)
    BY <1>1, <1>2 DEF Holds, Stores
  <1> QED BY <1>3 DEF y

\* The other strings find their texts unchanged.
OthersKept(v, x) == \A u \in Vars \ {v} : x.bodies[str[u].body].text = bodies[str[u].body].text

\* The empty text is one.
LEMMA NoTextIs ==
  IsText(<<>>) /\ NumChars(<<>>) = 0
  <1>1. PICK s \in Seq(Letters) : s = <<>> /\ Len(s) = 0
    <2>1. <<>> \in Seq(Letters) /\ Len(<<>>) = 0
      OBVIOUS
    <2> QED BY <2>1, Zenon
  <1>2. IsText(Encode(s)) /\ NumChars(Encode(s)) = 0
    BY <1>1, EncodeIsText
  <1> QED BY <1>1, <1>2, EncodeNone

\* v becomes what x holds, and nothing else changes.
LEMMA BecomeIs ==
  ASSUME IInv, NEW v \in Vars, NEW x, NEW q, Holds(x, q), OthersKept(v, x), Become(v, x),
         val' = [val EXCEPT ![v] = q]
  PROVE  IInv'
  <1>1. /\ x.str \in Slices /\ x.mark \in Marks /\ x.bodies \in Stores /\ x.str.body \in Bodies
        /\ Stored(x.bodies) /\ q \in Seq(Letters)
    BY HoldsIs, SliceBytes DEF Holds
  <1>2. /\ str' = [str EXCEPT ![v] = x.str] /\ mark' = [mark EXCEPT ![v] = x.mark]
        /\ bodies' = [b \in Bodies |->
               IF b \in Statics \/ \E u \in Vars : str'[u].body = b THEN x.bodies[b] ELSE NoText]
        /\ \A b \in Bodies : Len(bodies'[b].text) <= MaxBody
    BY DEF Become
  <1>3. /\ str' \in [Vars -> Slices] /\ mark' \in [Vars -> Marks] /\ val' \in [Vars -> Seq(Letters)]
    BY <1>1, <1>2 DEF IInv
  <1>4. /\ str'[v] = x.str /\ mark'[v] = x.mark /\ val'[v] = q
        /\ \A u \in Vars \ {v} : str'[u] = str[u] /\ mark'[u] = mark[u] /\ val'[u] = val[u]
    BY <1>2 DEF IInv
  <1>5. Stored(bodies')
    <2>1. IsText(<<>>) /\ NumChars(<<>>) = 0 /\ NoText \in [text : Seq(0..6), count : Nat]
      BY NoTextIs DEF NoText
    <2>2. ASSUME NEW b \in Bodies PROVE bodies'[b] \in {x.bodies[b], NoText}
      BY <1>2
    <2>3. ASSUME NEW d \in [text : Seq(0..6), count : Nat],
                 d \in {NoText} \/ (IsText(d.text) /\ d.count \in {0, NumChars(d.text)})
          PROVE  IsText(d.text) /\ d.count \in {0, NumChars(d.text)}
      BY <2>1, <2>3 DEF NoText
    <2>4. ASSUME NEW b \in Bodies
          PROVE  /\ bodies'[b] \in [text : Seq(0..6), count : Nat]
                 /\ IsText(bodies'[b].text) /\ bodies'[b].count \in {0, NumChars(bodies'[b].text)}
      <3>1. CASE bodies'[b] = x.bodies[b]
        BY <1>1, <3>1 DEF Stored
      <3>2. CASE bodies'[b] = NoText
        BY <2>1, <3>2 DEF NoText
      <3> QED BY <2>2, <3>1, <3>2
    <2>5. bodies' = [b \in Bodies |-> bodies'[b]]
      BY <1>2
    <2> QED BY <2>4, <2>5 DEF Stored
  <1>6. Small(bodies')
    BY <1>2 DEF Small
  <1>7. ASSUME NEW u \in Vars PROVE bodies'[str'[u].body] = x.bodies[str'[u].body]
    <2>1. str'[u].body \in Bodies
      BY <1>3 DEF Slices
    <2> QED BY <1>2, <2>1
  <1>8. Holds([str |-> str'[v], mark |-> mark'[v], bodies |-> bodies'], val'[v])
    <2>1. bodies'[x.str.body].text = Body(x).text
      BY <1>4, <1>7 DEF Body
    <2> QED BY <1>4, <1>5, <2>1, HoldsElsewhere
  <1>9. ASSUME NEW u \in Vars \ {v}
        PROVE  Holds([str |-> str'[u], mark |-> mark'[u], bodies |-> bodies'], val'[u])
    <2>1. PICK y : y = This(u) /\ Holds(y, val[u])
      BY DEF IInv
    <2>2. y.str = str[u] /\ y.mark = mark[u] /\ y.bodies = bodies
      BY <2>1 DEF This
    <2>3. bodies'[y.str.body].text = Body(y).text
      BY <1>4, <1>7, <2>2 DEF Body, OthersKept
    <2>4. Holds([str |-> y.str, mark |-> y.mark, bodies |-> bodies'], val[u])
      BY <1>5, <2>1, <2>3, HoldsElsewhere
    <2> QED BY <1>4, <2>2, <2>4
  <1>10. \A u \in Vars : Holds([str |-> str'[u], mark |-> mark'[u], bodies |-> bodies'], val'[u])
    BY <1>8, <1>9
  <1> QED BY <1>3, <1>5, <1>6, <1>10 DEF IInv, This

\* What the strings are in a state.
LEMMA ThisIs ==
  ASSUME IInv, NEW v \in Vars
  PROVE  /\ Holds(This(v), val[v]) /\ This(v).str = str[v] /\ This(v).bodies = bodies
         /\ This(v).mark = mark[v] /\ Stored(bodies) /\ Small(bodies)
         /\ str[v].body \in Bodies /\ str[v].offset \in Nat /\ str[v].num \in Nat
         /\ val[v] \in Seq(Letters) /\ Len(val[v]) = str[v].num
         /\ IsText(bodies[str[v].body].text) /\ NumChars(bodies[str[v].body].text) \in Nat
         /\ str[v].offset + str[v].num <= NumChars(bodies[str[v].body].text)
         /\ (str[v].num = 0 => bodies[str[v].body].text = <<>>)
         /\ val[v] = SubSeq(Chars(bodies[str[v].body].text), str[v].offset + 1, str[v].offset + str[v].num)
  <1>1. Holds(This(v), val[v]) /\ Stored(bodies) /\ Small(bodies)
    BY DEF IInv
  <1>2. This(v).str = str[v] /\ This(v).mark = mark[v] /\ This(v).bodies = bodies
    BY DEF This
  <1>3. Body(This(v)) = bodies[str[v].body]
    BY <1>2 DEF Body
  <1>4. val[v] = SubSeq(Chars(bodies[str[v].body].text), str[v].offset + 1, str[v].offset + str[v].num)
    BY <1>1, <1>2, <1>3 DEF Holds
  <1>5. val[v] \in Seq(Letters) /\ Len(val[v]) = str[v].num
    BY <1>1, <1>2, SliceBytes
  <1>6. /\ str[v].body \in Bodies /\ str[v].offset \in Nat /\ str[v].num \in Nat
        /\ IsText(bodies[str[v].body].text) /\ NumChars(bodies[str[v].body].text) \in Nat
        /\ str[v].offset + str[v].num <= NumChars(bodies[str[v].body].text)
        /\ (str[v].num = 0 => bodies[str[v].body].text = <<>>)
    <2> HIDE DEF This
    <2> QED BY <1>1, <1>2, <1>3, HoldsIs
  <1> QED BY <1>1, <1>2, <1>4, <1>5, <1>6

\* Unshare gives a string a body that no other uses.
Alone(v, x) == /\ Holds(x, val[v]) /\ Small(x.bodies) /\ OthersKept(v, x)
               /\ x.str.num = str[v].num /\ x.str.body \in Bodies
               /\ \A u \in Vars \ {v} : str[u].body # x.str.body

Copied(v, x) == x.str.offset = 0 /\ Body(x).text = Encode(val[v])

\* copyBody reaches nobody's body.
LEMMA CopyIs ==
  ASSUME IInv, NEW v \in Vars, NEW w \in Vars, NEW x, Holds(x, val[w]), Small(x.bodies),
         x.str.num = str[w].num, SameTexts(x.bodies, bodies)
  PROVE  /\ Holds(CopyBody(x), val[w]) /\ Small(CopyBody(x).bodies)
         /\ OthersKept(v, CopyBody(x)) /\ CopyBody(x).str.num = str[w].num
         /\ CopyBody(x).str.body = NewBody /\ CopyBody(x).str.offset = 0
         /\ Body(CopyBody(x)).text = Encode(val[w])
  <1>1. NewBody \in Bodies /\ \A u \in Vars : str[u].body # NewBody /\ str[u].body \in Bodies
    BY NewBodyIsFree, ThisIs
  <1>2. CopiedFrom(CopyBody(x), x, val[w])
    BY <1>1, CopyBodyIs
  <1> DEFINE y == CopyBody(x)
  <1> HIDE DEF y
  <1>3. y.str = [body |-> NewBody, offset |-> 0, num |-> x.str.num]
    BY <1>2 DEF CopiedFrom, y
  <1>4. OthersKept(v, y)
    BY <1>1, <1>2 DEF OthersKept, CopiedFrom, SameTexts, y
  <1> QED BY <1>2, <1>3, <1>4 DEF CopiedFrom, y

\* Either nobody else had it, or it is copied.
LEMMA UnshareIs ==
  ASSUME IInv, NEW v \in Vars
  PROVE  /\ Alone(v, Unshare(This(v)))
         /\ \/ IsOwn(v) /\ Unshare(This(v)) = This(v)
            \/ ~ IsOwn(v) /\ Copied(v, Unshare(This(v)))
  <1>1. /\ Holds(This(v), val[v]) /\ This(v).str = str[v] /\ This(v).bodies = bodies
        /\ Small(bodies) /\ str[v].body \in Bodies
    BY ThisIs
  <1>2. CASE IsOwn(v)
    <2>1. Unshare(This(v)) = This(v)
      BY <1>1, <1>2 DEF Unshare, IsOwn
    <2>2. OthersKept(v, This(v))
      BY <1>1 DEF OthersKept
    <2>3. \A u \in Vars \ {v} : str[u].body # str[v].body
      BY <1>2, OwnIsAlone
    <2>4. Alone(v, This(v))
      BY <1>1, <2>2, <2>3 DEF Alone
    <2> QED BY <1>2, <2>1, <2>4
  <1>3. CASE ~ IsOwn(v)
    <2>1. Unshare(This(v)) = CopyBody(This(v))
      BY <1>1, <1>3 DEF Unshare, IsOwn
    <2>2. SameTexts(This(v).bodies, bodies) /\ This(v).str.num = str[v].num
      BY <1>1 DEF SameTexts
    <2> DEFINE x == This(v)
    <2> HIDE DEF x
    <2>3. /\ Holds(CopyBody(x), val[v]) /\ Small(CopyBody(x).bodies)
          /\ OthersKept(v, CopyBody(x)) /\ CopyBody(x).str.num = str[v].num
          /\ CopyBody(x).str.body = NewBody /\ CopyBody(x).str.offset = 0
          /\ Body(CopyBody(x)).text = Encode(val[v])
      BY <1>1, <2>2, CopyIs DEF x
    <2>4. NewBody \in Bodies /\ \A u \in Vars : str[u].body # NewBody
      BY NewBodyIsFree
    <2> QED BY <1>3, <2>1, <2>3, <2>4 DEF Alone, Copied, x
  <1> QED BY <1>2, <1>3
-------------------------------------------------------------------------------
(***************************************************************************)
(* The operations that give a string a text as it is.                      *)
(***************************************************************************)
\* A string over any part of a text.
LEMMA HoldsSlice ==
  ASSUME NEW bs, Stored(bs), NEW b \in Bodies, NEW o \in Nat, NEW n \in Nat,
         o + n <= NumChars(bs[b].text), n = 0 => bs[b].text = <<>>
  PROVE  Holds([str |-> [body |-> b, offset |-> o, num |-> n], mark |-> NoMark, bodies |-> bs],
               SubSeq(Chars(bs[b].text), o + 1, o + n))
  <1> DEFINE s == [body |-> b, offset |-> o, num |-> n]
             x == [str |-> s, mark |-> NoMark, bodies |-> bs]
  <1>1. s \in Slices /\ s.body = b /\ s.offset = o /\ s.num = n
    BY DEF Slices
  <1> HIDE DEF s
  <1>2. NoMark \in Marks
    BY StringsAssumption DEF NoMark, Marks, Index
  <1>3. x.str = s /\ x.mark = NoMark /\ x.bodies = bs /\ Body(x) = bs[b]
    BY <1>1 DEF Body
  <1>4. x \in [str : Slices, mark : Marks, bodies : Stores]
    BY <1>1, <1>2 DEF Stored, Stores
  <1> HIDE DEF x
  <1>5. FitsIn(s, bs[b].text) /\ MarkIn(NoMark, s, bs[b].text)
    BY <1>1 DEF FitsIn, MarkIn
  <1>6. Holds(x, SubSeq(Chars(bs[b].text), o + 1, o + n))
    BY <1>1, <1>3, <1>4, <1>5 DEF Holds, Stores
  <1> QED BY <1>6 DEF x, s

\* A new body with a text of its own.
LEMMA FreshIs ==
  ASSUME IInv, NEW v \in Vars, NEW r \in Seq(Letters), NEW c \in {0, Len(r)}, NEW n, n = Len(r),
         NEW others, Stored(others), SameTexts(others, bodies)
  PROVE  Holds(Fresh(Encode(r), c, n, others), r) /\ OthersKept(v, Fresh(Encode(r), c, n, others))
  <1> DEFINE bs == Put(others, NewBody, r, c)
             x == [str |-> [body |-> NewBody, offset |-> 0, num |-> n], mark |-> NoMark, bodies |-> bs]
  <1>1. NewBody \in Bodies /\ \A u \in Vars : str[u].body # NewBody /\ str[u].body \in Bodies
    BY NewBodyIsFree, ThisIs
  <1>2. /\ Stored(bs) /\ bs[NewBody].text = Encode(r)
        /\ \A d \in Bodies \ {NewBody} : bs[d] = others[d]
    BY <1>1, StoreText
  <1>3. Fresh(Encode(r), c, n, others) = x
    BY DEF Fresh, Put
  <1> HIDE DEF bs
  <1>4. NumChars(Encode(r)) = n /\ Chars(Encode(r)) = r /\ (n = 0 => Encode(r) = <<>>) /\ n \in Nat
    BY EncodeIsText
  <1>5. SubSeq(r, 0 + 1, 0 + n) = r
    BY WholePart
  <1>6. Holds(x, SubSeq(Chars(bs[NewBody].text), 0 + 1, 0 + n))
    <2>1. 0 \in Nat /\ 0 + n <= NumChars(bs[NewBody].text) /\ (n = 0 => bs[NewBody].text = <<>>)
      BY <1>2, <1>4
    <2> QED BY <1>1, <1>2, <1>4, <2>1, HoldsSlice
  <1>7. Holds(x, r)
    BY <1>2, <1>4, <1>5, <1>6
  <1>8. OthersKept(v, x)
    BY <1>1, <1>2 DEF OthersKept, SameTexts
  <1> HIDE DEF x
  <1> QED BY <1>3, <1>7, <1>8

\* StrVal(data)
LEMMA ConstructSafe ==
  ASSUME IInv, NEW v \in Vars, NEW s \in Inputs, Construct(v, s)
  PROVE  IInv'
  <1>1. s \in Seq(Letters) /\ Stored(bodies) /\ SameTexts(bodies, bodies)
    BY StringsAssumption, ThisIs DEF SameTexts
  <1>2. Holds(Fresh(Encode(s), Len(s), Len(s), bodies), s) /\ OthersKept(v, Fresh(Encode(s), Len(s), Len(s), bodies))
    BY <1>1, FreshIs
  <1>3. Become(v, Fresh(Encode(s), Len(s), Len(s), bodies)) /\ val' = [val EXCEPT ![v] = s]
    BY DEF Construct, Promise!Construct, Promise!Becomes
  <1> QED BY <1>2, <1>3, BecomeIs

\* StrVal(character)
LEMMA ConstructCharSafe ==
  ASSUME IInv, NEW v \in Vars, NEW c \in Letters, ConstructChar(v, c)
  PROVE  IInv'
  <1>1. PICK s : s = <<c>> /\ s \in Seq(Letters) /\ 1 = Len(s)
    <2>1. <<c>> \in Seq(Letters) /\ 1 = Len(<<c>>)
      OBVIOUS
    <2> QED BY <2>1, Zenon
  <1>2. Encode(s) = c
    BY <1>1, EncodeOne, StringsAssumption
  <1>3. Stored(bodies) /\ SameTexts(bodies, bodies)
    BY ThisIs DEF SameTexts
  <1>4. 0 \in {0, Len(s)}
    OBVIOUS
  <1>5. Holds(Fresh(Encode(s), 0, 1, bodies), s) /\ OthersKept(v, Fresh(Encode(s), 0, 1, bodies))
    BY <1>1, <1>3, <1>4, FreshIs
  <1>6. Become(v, Fresh(Encode(s), 0, 1, bodies)) /\ val' = [val EXCEPT ![v] = s]
    BY <1>1, <1>2 DEF ConstructChar, Promise!Construct, Promise!Becomes
  <1> QED BY <1>5, <1>6, BecomeIs

\* StrVal(Body*), over a static body
LEMMA ReferSafe ==
  ASSUME IInv, NEW v \in Vars, NEW b \in Statics, Refer(v, b)
  PROVE  IInv'
  <1> DEFINE t == bodies[b].text
             n == Counted(bodies[b])
             x == SliceOf(b, 0, n)
  <1>1. b \in Bodies /\ Stored(bodies) /\ IsText(t)
    BY StringsAssumption, ThisIs DEF Stored
  <1>2. n = NumChars(t) /\ n \in Nat /\ Chars(t) \in Seq(Letters) /\ n = Len(Chars(t)) /\ t = Encode(Chars(t))
    <2>1. NumChars(t) \in Nat /\ Chars(t) \in Seq(Letters) /\ NumChars(t) = Len(Chars(t)) /\ t = Encode(Chars(t))
      BY <1>1, TextIs
    <2>2. n = NumChars(t)
      BY <1>1, <2>1, CountedIs DEF Stored
    <2> QED BY <2>1, <2>2
  <1> HIDE DEF n
  <1>3. Holds([str |-> [body |-> b, offset |-> 0, num |-> n], mark |-> NoMark, bodies |-> bodies],
              SubSeq(Chars(t), 0 + 1, 0 + n))
    <2>1. n = 0 => t = <<>>
      BY <1>2, EncodeIsText
    <2>2. 0 \in Nat /\ 0 + n <= NumChars(t)
      BY <1>2
    <2> QED BY <1>1, <1>2, <2>1, <2>2, HoldsSlice
  <1>4. SubSeq(Chars(t), 0 + 1, 0 + n) = Chars(t)
    BY <1>2, WholePart
  <1>5. Holds(x, Chars(t)) /\ OthersKept(v, x)
    BY <1>3, <1>4 DEF SliceOf, OthersKept
  <1>6. Become(v, x) /\ val' = [val EXCEPT ![v] = Chars(t)]
    BY DEF Refer, n, Promise!Construct, Promise!Becomes
  <1> HIDE DEF x, t
  <1> QED BY <1>5, <1>6, BecomeIs

\* operator=
LEMMA AssignSafe ==
  ASSUME IInv, NEW v \in Vars, NEW w \in Vars, Assign(v, w)
  PROVE  IInv'
  <1>1. Holds(This(w), val[w]) /\ This(w).bodies = bodies
    BY ThisIs
  <1>2. OthersKept(v, This(w))
    BY <1>1 DEF OthersKept
  <1>3. Become(v, This(w)) /\ val' = [val EXCEPT ![v] = val[w]]
    BY DEF Assign, Promise!Copy, Promise!Becomes
  <1> QED BY <1>1, <1>2, <1>3, BecomeIs

\* The copy constructor, of a slice of a static body too.
LEMMA CopyConstructSafe ==
  ASSUME IInv, NEW v \in Vars, NEW w \in Vars, CopyConstruct(v, w)
  PROVE  IInv'
  <1> DEFINE x == [This(w) EXCEPT !.mark = NoMark]
  <1>1. /\ str[w].body \in Bodies /\ str[w].offset \in Nat /\ str[w].num \in Nat /\ Stored(bodies)
        /\ Small(bodies)
        /\ str[w].offset + str[w].num <= NumChars(bodies[str[w].body].text)
        /\ (str[w].num = 0 => bodies[str[w].body].text = <<>>)
        /\ val[w] = SubSeq(Chars(bodies[str[w].body].text), str[w].offset + 1, str[w].offset + str[w].num)
    BY ThisIs
  <1>2. str[w] = [body |-> str[w].body, offset |-> str[w].offset, num |-> str[w].num]
    BY DEF IInv, Slices
  <1>3. x = [str |-> str[w], mark |-> NoMark, bodies |-> bodies]
    BY DEF This
  <1>4. Holds([str |-> [body |-> str[w].body, offset |-> str[w].offset, num |-> str[w].num],
               mark |-> NoMark, bodies |-> bodies], val[w])
    BY <1>1, HoldsSlice
  <1>5. Holds(x, val[w])
    BY <1>2, <1>3, <1>4
  <1>6. x.str = str[w] /\ x.bodies = bodies
    BY <1>3
  <1>7. Become(v, IF str[w].body \in Statics THEN CopyBody(x) ELSE x) /\ val' = [val EXCEPT ![v] = val[w]]
    BY DEF CopyConstruct, Promise!Copy, Promise!Becomes
  <1> HIDE DEF x
  <1>8. OthersKept(v, x)
    BY <1>6 DEF OthersKept
  <1>9. Holds(CopyBody(x), val[w]) /\ OthersKept(v, CopyBody(x))
    <2>1. Small(x.bodies) /\ x.str.num = str[w].num /\ SameTexts(x.bodies, bodies)
      BY <1>1, <1>6 DEF SameTexts
    <2> QED BY <1>5, <2>1, CopyIs
  <1>10. CASE str[w].body \in Statics
    <2>1. Become(v, CopyBody(x))
      BY <1>7, <1>10
    <2> QED BY <1>7, <1>9, <2>1, BecomeIs
  <1>11. CASE str[w].body \notin Statics
    <2>1. Become(v, x)
      BY <1>7, <1>11
    <2> QED BY <1>5, <1>7, <1>8, <2>1, BecomeIs
  <1> QED BY <1>10, <1>11

\* A part of a part is a part.
LEMMA PartOfPart ==
  ASSUME NEW d \in Seq(Letters), NEW a \in Nat, NEW n \in Nat, a + n <= Len(d),
         NEW i \in Nat, NEW j \in Nat, i + j <= n
  PROVE  SubSeq(SubSeq(d, a + 1, a + n), i + 1, i + j) = SubSeq(d, (a + i) + 1, (a + i) + j)
  <1> DEFINE p == SubSeq(d, a + 1, a + n)
             q == SubSeq(p, i + 1, i + j)
             r == SubSeq(d, (a + i) + 1, (a + i) + j)
  <1>1. p \in Seq(Letters) /\ Len(p) = n /\ \A k \in 1..n : p[k] = d[a + k]
    BY PartOf
  <1>2. q \in Seq(Letters) /\ Len(q) = j /\ \A k \in 1..j : q[k] = p[i + k]
    <2> HIDE DEF p
    <2> QED BY <1>1, PartOf
  <1>3. r \in Seq(Letters) /\ Len(r) = j /\ \A k \in 1..j : r[k] = d[(a + i) + k]
    <2>1. a + i \in Nat /\ (a + i) + j <= Len(d)
      OBVIOUS
    <2> QED BY <2>1, PartOf, ZenonT(60)
  <1> HIDE DEF p, q, r
  <1>4. ASSUME NEW k \in 1..j PROVE q[k] = r[k]
    <2>1. i + k \in 1..n /\ a + (i + k) = (a + i) + k
      OBVIOUS
    <2> QED BY <1>1, <1>2, <1>3, <2>1
  <1>5. q = r
    BY <1>2, <1>3, <1>4, SeqEqual
  <1> QED BY <1>5 DEF p, q, r

\* A slice of what a string holds.
LEMMA SliceOfIs ==
  ASSUME IInv, NEW v \in Vars, NEW w \in Vars, NEW at \in Nat, NEW n \in Nat \ {0}, at + n <= str[w].num
  PROVE  /\ Holds(SliceOf(str[w].body, str[w].offset + at, n), SubSeq(val[w], at + 1, at + n))
         /\ OthersKept(v, SliceOf(str[w].body, str[w].offset + at, n))
  <1> DEFINE b == str[w].body
             s == Chars(bodies[b].text)
  <1>1. PICK o \in Nat, num \in Nat : /\ o = str[w].offset /\ num = str[w].num /\ b \in Bodies /\ Stored(bodies)
                                      /\ IsText(bodies[b].text) /\ o + num <= NumChars(bodies[b].text)
                                      /\ val[w] = SubSeq(s, o + 1, o + num)
    BY ThisIs
  <1>2. s \in Seq(Letters) /\ Len(s) = NumChars(bodies[b].text) /\ Len(s) \in Nat
    BY <1>1, TextIs
  <1> HIDE DEF s
  <1>3. SubSeq(val[w], at + 1, at + n) = SubSeq(s, (o + at) + 1, (o + at) + n)
    <2>1. o + num <= Len(s) /\ at + n <= num /\ n \in Nat
      BY <1>1, <1>2
    <2>2. SubSeq(SubSeq(s, o + 1, o + num), at + 1, at + n) = SubSeq(s, (o + at) + 1, (o + at) + n)
      BY <1>2, <2>1, PartOfPart
    <2> QED BY <1>1, <2>2
  <1>4. Holds([str |-> [body |-> b, offset |-> o + at, num |-> n], mark |-> NoMark, bodies |-> bodies],
              SubSeq(Chars(bodies[b].text), (o + at) + 1, (o + at) + n))
    <2>1. o + at \in Nat /\ (o + at) + n <= NumChars(bodies[b].text) /\ (n = 0 => bodies[b].text = <<>>) /\ n \in Nat
      <3>1. NumChars(bodies[b].text) \in Nat
        BY <1>2
      <3> QED BY <1>1, <3>1, SMTT(30)
    <2> QED BY <1>1, <2>1, HoldsSlice
  <1> QED BY <1>1, <1>3, <1>4 DEF SliceOf, OthersKept, s

\* substr, at any place and of any length
LEMMA SubstrSafe ==
  ASSUME IInv, NEW v \in Vars, NEW w \in Vars, NEW at \in 0..str[w].num, NEW len \in Nat, Substr(v, w, at, len)
  PROVE  IInv'
  <1>1. PICK num \in Nat : /\ num = str[w].num /\ Len(val[w]) = num /\ val[w] \in Seq(Letters)
                           /\ at \in Nat /\ at <= num
    BY ThisIs
  <1> DEFINE q == SubSeq(val[w], at + 1, IF at + len < Len(val[w]) THEN at + len ELSE Len(val[w]))
             n == IF len > num - at THEN num - at ELSE len
  <1>2. val' = [val EXCEPT ![v] = q]
    BY DEF Substr, Promise!Substr, Promise!Becomes
  <1>3. CASE at >= num \/ len = 0
    <2>1. Become(v, Fresh(<<>>, 0, 0, bodies))
      BY <1>1, <1>3 DEF Substr
    <2>2. q = <<>>
      <3>1. CASE at >= num
        <4>1. at = num /\ ~(at + len < num)
          BY <1>1, <3>1
        <4>2. SubSeq(val[w], num + 1, num) = <<>>
          BY <1>1, SubSeqEmpty
        <4> QED BY <1>1, <4>1, <4>2
      <3>2. CASE len = 0 /\ ~(at >= num)
        <4>1. at + len = at /\ at < num
          BY <1>1, <3>2
        <4>2. SubSeq(val[w], at + 1, at) = <<>>
          BY <1>1, SubSeqEmpty
        <4> QED BY <1>1, <4>1, <4>2
      <3> QED BY <1>3, <3>1, <3>2
    <2>3. PICK r : r = <<>> /\ r \in Seq(Letters) /\ 0 = Len(r)
      <3>1. <<>> \in Seq(Letters) /\ 0 = Len(<<>>)
        OBVIOUS
      <3> QED BY <3>1, Zenon
    <2>4. Stored(bodies) /\ SameTexts(bodies, bodies) /\ 0 \in {0, Len(r)}
      BY ThisIs DEF SameTexts
    <2>5. Holds(Fresh(Encode(r), 0, 0, bodies), r) /\ OthersKept(v, Fresh(Encode(r), 0, 0, bodies))
      BY <2>3, <2>4, FreshIs
    <2>6. Become(v, Fresh(Encode(r), 0, 0, bodies)) /\ val' = [val EXCEPT ![v] = r]
      BY <1>2, <2>1, <2>2, <2>3, EncodeNone
    <2> QED BY <2>5, <2>6, BecomeIs
  <1>4. CASE ~(at >= num \/ len = 0)
    <2>1. Become(v, SliceOf(str[w].body, str[w].offset + at, n))
      BY <1>1, <1>4 DEF Substr
    <2>2. n \in Nat \ {0} /\ at + n <= num
      BY <1>1, <1>4
    <2>3. q = SubSeq(val[w], at + 1, at + n)
      <3>1. (IF at + len < Len(val[w]) THEN at + len ELSE Len(val[w])) = at + n
        BY <1>1, <1>4
      <3> QED BY <3>1
    <2> HIDE DEF n, q
    <2>4. /\ Holds(SliceOf(str[w].body, str[w].offset + at, n), q)
          /\ OthersKept(v, SliceOf(str[w].body, str[w].offset + at, n))
      BY <1>1, <2>2, <2>3, SliceOfIs
    <2> QED BY <1>2, <2>1, <2>4, BecomeIs
  <1> QED BY <1>3, <1>4

\* A string that is only looked at.
LEMMA LookedAt ==
  ASSUME IInv, NEW v \in Vars, NEW x, Holds(x, val[v]), OthersKept(v, x), Become(v, x), UNCHANGED val
  PROVE  IInv'
  <1>1. val' = [val EXCEPT ![v] = val[v]]
    BY DEF IInv
  <1> QED BY <1>1, BecomeIs

\* operator[]: only counts can change.
LEMMA ReadSafe ==
  ASSUME IInv, NEW v \in Vars, NEW n \in 0..str[v].num - 1, Read(v, n)
  PROVE  IInv'
  <1> DEFINE x == ConstNth(This(v), n).then
  <1>1. /\ Holds(This(v), val[v]) /\ This(v).str = str[v] /\ This(v).bodies = bodies /\ Small(bodies)
        /\ str[v].num \in Nat /\ n \in 0..str[v].num
    BY ThisIs
  <1>2. Kept(x, This(v), val[v])
    BY <1>1, ConstNthIs
  <1>3. Become(v, x) /\ UNCHANGED val
    BY DEF Read
  <1> HIDE DEF x
  <1>4. Holds(x, val[v]) /\ OthersKept(v, x)
    BY <1>1, <1>2, ThisIs DEF Kept, SameTexts, OthersKept
  <1> QED BY <1>3, <1>4, LookedAt

\* asUTF8: the string can be copied, and its bookmark set.
LEMMA AsUTF8Safe ==
  ASSUME IInv, NEW v \in Vars, AsUTF8(v)
  PROVE  IInv'
  <1> DEFINE s == str[v]
             x == [This(v) EXCEPT !.bodies[s.body].count = Counted(bodies[s.body])]
             y == IF s.offset + s.num < Counted(bodies[s.body]) THEN CopyBody(x) ELSE x
             z == Nth(y, 0).then
             bs == [bodies EXCEPT ![s.body].count = Counted(bodies[s.body])]
  <1>1. /\ Holds(This(v), val[v]) /\ This(v).str = s /\ This(v).bodies = bodies /\ Small(bodies)
        /\ This(v).mark = mark[v] /\ Stored(bodies) /\ s.body \in Bodies /\ s.num \in Nat
        /\ NumChars(bodies[s.body].text) \in Nat
    BY ThisIs
  <1>2. Counted(bodies[s.body]) = NumChars(bodies[s.body].text)
    BY <1>1, CountedIs DEF Stored
  <1>3. x = [str |-> s, mark |-> mark[v], bodies |-> bs]
    BY DEF This
  <1>4. Stored(bs) /\ SameTexts(bs, bodies)
    BY <1>1, <1>2, CountKept
  <1>5. Kept(x, This(v), val[v])
    <2>1. mark[v] \in Marks /\ MarkIn(mark[v], s, Body(This(v)).text)
      BY <1>1, HoldsIs DEF Holds
    <2> HIDE DEF bs, x
    <2>2. Kept([str |-> This(v).str, mark |-> mark[v], bodies |-> bs], This(v), val[v])
      BY <1>1, <1>4, <2>1, KeptIs
    <2> QED BY <1>1, <1>3, <2>2
  <1> HIDE DEF x, bs
  <1>6. Holds(x, val[v]) /\ Small(x.bodies) /\ SameTexts(x.bodies, bodies) /\ x.str = s
    BY <1>1, <1>5 DEF Kept
  <1>7. /\ Holds(CopyBody(x), val[v]) /\ Small(CopyBody(x).bodies) /\ OthersKept(v, CopyBody(x))
    BY <1>6, CopyIs
  <1>8. OthersKept(v, x)
    BY <1>6, ThisIs DEF OthersKept, SameTexts
  <1>9. Holds(y, val[v]) /\ Small(y.bodies) /\ OthersKept(v, y)
    BY <1>6, <1>7, <1>8
  <1> HIDE DEF y
  <1>10. Kept(z, y, val[v])
    <2>1. 0 \in 0..y.str.num
      BY <1>9, HoldsIs
    <2> QED BY <1>9, <2>1, NthIs
  <1>11. Become(v, z) /\ UNCHANGED val
    BY DEF AsUTF8, x, y, bs
  <1> HIDE DEF z
  <1>12. Holds(z, val[v]) /\ OthersKept(v, z)
    BY <1>9, <1>10, ThisIs DEF Kept, SameTexts, OthersKept
  <1> QED BY <1>11, <1>12, LookedAt
-------------------------------------------------------------------------------
(***************************************************************************)
(* The operations that change a text.                                      *)
(***************************************************************************)
\* Characters are inserted in a sequence, and in a part at its start.
Inserted(s, pos, r) == SubSeq(s, 1, pos) \o r \o SubSeq(s, pos + 1, Len(s))

\* Each element of what results.
LEMMA InsertedIs ==
  ASSUME NEW s \in Seq(Letters), NEW r \in Seq(Letters), NEW pos \in Nat, pos <= Len(s)
  PROVE  /\ Inserted(s, pos, r) \in Seq(Letters) /\ Len(Inserted(s, pos, r)) = Len(s) + Len(r)
         /\ \A k \in 1..Len(s) + Len(r) : Inserted(s, pos, r)[k] =
                IF k <= pos THEN s[k] ELSE IF k <= pos + Len(r) THEN r[k - pos] ELSE s[k - Len(r)]
  <1> DEFINE p == SubSeq(s, 1, pos)
             z == SubSeq(s, pos + 1, Len(s))
             pr == p \o r
  <1>1. PICK n \in Nat, l \in Nat : n = Len(s) /\ l = Len(r)
    OBVIOUS
  <1>2. p \in Seq(Letters) /\ Len(p) = pos /\ z \in Seq(Letters) /\ Len(z) = n - pos
    BY <1>1, Parts
  <1>3. (\A k \in 1..pos : p[k] = s[k]) /\ \A k \in 1..n - pos : z[k] = s[pos + k]
    BY <1>1
  <1> HIDE DEF p, z
  <1>4. /\ pr \in Seq(Letters) /\ Len(pr) = pos + l
        /\ \A k \in 1..pos + l : pr[k] = IF k <= pos THEN p[k] ELSE r[k - pos]
    <2>1. /\ pr \in Seq(Letters) /\ Len(pr) = Len(p) + Len(r)
          /\ \A k \in 1..Len(p) + Len(r) : pr[k] = IF k <= Len(p) THEN p[k] ELSE r[k - Len(p)]
      BY <1>2, ConcatProperties
    <2> HIDE DEF pr
    <2> QED BY <1>1, <1>2, <2>1
  <1> HIDE DEF pr
  <1>5. /\ pr \o z \in Seq(Letters) /\ Len(pr \o z) = n + l
        /\ \A k \in 1..n + l : (pr \o z)[k] = IF k <= pos + l THEN pr[k] ELSE z[k - (pos + l)]
    <2>1. /\ pr \o z \in Seq(Letters) /\ Len(pr \o z) = Len(pr) + Len(z)
          /\ \A k \in 1..Len(pr) + Len(z) : (pr \o z)[k] = IF k <= Len(pr) THEN pr[k] ELSE z[k - Len(pr)]
      BY <1>2, <1>4, ConcatProperties
    <2>2. Len(pr) = pos + l /\ Len(pr) + Len(z) = n + l
      BY <1>1, <1>2, <1>4
    <2> QED BY <2>1, <2>2
  <1>6. Inserted(s, pos, r) = pr \o z
    BY DEF Inserted, pr, p, z
  <1> DEFINE w == pr \o z
  <1> HIDE DEF w
  <1>7. ASSUME NEW k \in 1..n + l
        PROVE  w[k] = IF k <= pos THEN s[k] ELSE IF k <= pos + l THEN r[k - pos] ELSE s[k - l]
    <2>1. CASE k <= pos
      <3>1. k \in 1..pos + l /\ k \in 1..pos /\ k <= pos + l
        BY <2>1
      <3> QED BY <1>3, <1>4, <1>5, <2>1, <3>1 DEF w
    <2>2. CASE ~(k <= pos) /\ k <= pos + l
      <3>1. k \in 1..pos + l
        BY <2>2
      <3> QED BY <1>4, <1>5, <2>2, <3>1 DEF w
    <2>3. CASE ~(k <= pos) /\ ~(k <= pos + l)
      <3>1. k - (pos + l) \in 1..n - pos /\ pos + (k - (pos + l)) = k - l
        BY <1>1, <2>3
      <3>2. w[k] = z[k - (pos + l)]
        BY <1>5, <2>3 DEF w
      <3>3. z[k - (pos + l)] = s[pos + (k - (pos + l))]
        BY <1>3, <3>1
      <3> QED BY <2>3, <3>1, <3>2, <3>3
    <2> QED BY <2>1, <2>2, <2>3
  <1> QED BY <1>1, <1>5, <1>6, <1>7 DEF w

\* Inserting in the first part, and taking the longer first part.
LEMMA InsertedInPart ==
  ASSUME NEW s \in Seq(Letters), NEW r \in Seq(Letters), NEW n \in Nat, n <= Len(s), NEW pos \in Nat, pos <= n
  PROVE  SubSeq(Inserted(s, pos, r), 0 + 1, 0 + (n + Len(r))) = Inserted(SubSeq(s, 0 + 1, 0 + n), pos, r)
  <1> DEFINE q == SubSeq(s, 0 + 1, 0 + n)
             w == Inserted(s, pos, r)
             z == Inserted(q, pos, r)
             y == SubSeq(w, 0 + 1, 0 + (n + Len(r)))
  <1>1. PICK m \in Nat, l \in Nat : m = Len(s) /\ l = Len(r)
    OBVIOUS
  <1>2. q \in Seq(Letters) /\ Len(q) = n /\ \A k \in 1..n : q[k] = s[k]
    <2>1. 0 + n <= Len(s) /\ 0 \in Nat
      OBVIOUS
    <2>2. /\ q \in Seq(Letters) /\ Len(q) = n /\ \A k \in 1..n : q[k] = s[0 + k]
      BY <2>1, PartOf
    <2> QED BY <2>2
  <1> HIDE DEF q
  <1>3. /\ w \in Seq(Letters) /\ Len(w) = m + l
        /\ \A k \in 1..m + l : w[k] = IF k <= pos THEN s[k] ELSE IF k <= pos + l THEN r[k - pos] ELSE s[k - l]
    <2>1. pos <= Len(s)
      OBVIOUS
    <2>2. /\ Inserted(s, pos, r) \in Seq(Letters) /\ Len(Inserted(s, pos, r)) = Len(s) + Len(r)
          /\ \A k \in 1..Len(s) + Len(r) : Inserted(s, pos, r)[k] =
                 IF k <= pos THEN s[k] ELSE IF k <= pos + Len(r) THEN r[k - pos] ELSE s[k - Len(r)]
      BY <2>1, InsertedIs
    <2> QED BY <1>1, <2>2
  <1>4. /\ z \in Seq(Letters) /\ Len(z) = n + l
        /\ \A k \in 1..n + l : z[k] = IF k <= pos THEN q[k] ELSE IF k <= pos + l THEN r[k - pos] ELSE q[k - l]
    <2> HIDE DEF w, z, y
    <2>1. q \in Seq(Letters) /\ pos <= Len(q)
      BY <1>2
    <2>2. /\ Inserted(q, pos, r) \in Seq(Letters) /\ Len(Inserted(q, pos, r)) = Len(q) + Len(r)
          /\ \A k \in 1..Len(q) + Len(r) : Inserted(q, pos, r)[k] =
                 IF k <= pos THEN q[k] ELSE IF k <= pos + Len(r) THEN r[k - pos] ELSE q[k - Len(r)]
      BY <2>1, InsertedIs
    <2> QED BY <1>1, <1>2, <2>2 DEF z
  <1> HIDE DEF w, z
  <1>5. y \in Seq(Letters) /\ Len(y) = n + l /\ \A k \in 1..n + l : y[k] = w[0 + k]
    <2>1. n + l \in Nat /\ 0 \in Nat /\ 0 + (n + l) <= Len(w)
      BY <1>1, <1>3
    <2> QED BY <1>1, <1>3, <2>1, PartOf
  <1> HIDE DEF y
  <1>6. ASSUME NEW k \in 1..n + l PROVE y[k] = z[k]
    <2>1. k \in 1..m + l /\ 0 + k = k
      BY <1>1
    <2>2. k <= pos => k \in 1..n
      OBVIOUS
    <2>3. ~(k <= pos) /\ ~(k <= pos + l) => k - l \in 1..n
      OBVIOUS
    <2> QED BY <1>2, <1>3, <1>4, <1>5, <2>1, <2>2, <2>3
  <1>7. y = z
    BY <1>4, <1>5, <1>6, SeqEqual
  <1> QED BY <1>7 DEF y, z, w, q

\* Bytes inserted at the start of a character are characters inserted.
LEMMA InsertText ==
  ASSUME NEW t, IsText(t), NEW pos \in 0..NumChars(t), NEW r \in Seq(Letters)
  PROVE  /\ SubSeq(t, 1, Starts(t)[pos]) \o Encode(r) \o SubSeq(t, Starts(t)[pos] + 1, Len(t))
                = Encode(Inserted(Chars(t), pos, r))
         /\ \A k \in 0..pos : Starts(Encode(Inserted(Chars(t), pos, r)))[k] = Starts(t)[k]
  <1> DEFINE s == Chars(t)
             p == SubSeq(s, 1, pos)
             z == SubSeq(s, pos + 1, Len(s))
             w == Inserted(s, pos, r)
  <1>1. /\ s \in Seq(Letters) /\ s \in Seq(Characters) /\ NumChars(t) = Len(s) /\ t = Encode(s)
        /\ pos \in Nat /\ pos <= Len(s) /\ Len(s) \in Nat /\ r \in Seq(Characters)
    BY TextIs, EncodeIsText
  <1> HIDE DEF s
  <1>2. p \in Seq(Characters) /\ z \in Seq(Characters) /\ s = p \o z /\ Len(p) = pos
    BY <1>1, Parts
  <1>3. w = (p \o r) \o z
    BY DEF Inserted
  <1> HIDE DEF p, z, w
  <1>4. /\ Encode(s) = Encode(p) \o Encode(z)
        /\ \A k \in 0..pos : Offsets(s)[k] = Offsets(p)[k]
    BY <1>2, EncodeJoin
  <1>5. /\ p \o r \in Seq(Characters) /\ Encode(p \o r) = Encode(p) \o Encode(r)
        /\ \A k \in 0..pos : Offsets(p \o r)[k] = Offsets(p)[k]
    BY <1>1, <1>2, EncodeJoin
  <1>6. /\ Encode(w) = Encode(p \o r) \o Encode(z)
        /\ \A k \in 0..Len(p \o r) : Offsets(w)[k] = Offsets(p \o r)[k]
    BY <1>2, <1>3, <1>5, EncodeJoin
  <1>7. pos <= Len(p \o r) /\ Len(p \o r) \in Nat
    BY <1>1, <1>2, PartsOfJoined
  <1>8. \A k \in 0..pos : Offsets(w)[k] = Offsets(s)[k]
    <2>1. \A k \in 0..pos : k \in 0..Len(p \o r)
      BY <1>1, <1>7
    <2> QED BY <1>4, <1>5, <1>6, <2>1
  <1>9. w \in Seq(Letters) /\ Len(w) = Len(s) + Len(r) /\ Len(r) \in Nat
    BY <1>1, InsertedIs DEF w
  <1>10. \A k \in 0..pos : Starts(Encode(w))[k] = Starts(t)[k]
    <2> TAKE k \in 0..pos
    <2>1. k \in 0..NumChars(t)
      BY <1>1
    <2>2. Starts(t)[k] = Offsets(s)[k]
      BY <2>1, StartIs DEF s
    <2>3. IsText(Encode(w)) /\ Chars(Encode(w)) = w /\ k \in 0..NumChars(Encode(w))
      <3>1. IsText(Encode(w)) /\ Chars(Encode(w)) = w /\ NumChars(Encode(w)) = Len(w)
        BY <1>9, EncodeIsText
      <3> QED BY <1>1, <1>9, <3>1
    <2>4. Starts(Encode(w))[k] = Offsets(w)[k]
      BY <2>3, StartIs
    <2> QED BY <1>8, <2>2, <2>4
  <1>11. Starts(t)[pos] = Len(Encode(p)) /\ Encode(p) \in Seq(0..6) /\ Encode(z) \in Seq(0..6)
    <2>1. Encode(p) \in Seq(0..6) /\ Encode(z) \in Seq(0..6) /\ Len(Encode(p)) = Offsets(p)[pos]
      BY <1>2, EncodeIs
    <2>2. Starts(t)[pos] = Offsets(s)[pos]
      BY StartIs DEF s
    <2>3. pos \in 0..pos
      BY <1>1
    <2> QED BY <1>4, <2>1, <2>2, <2>3
  <1> DEFINE P == Encode(p)
             Z == Encode(z)
  <1> HIDE DEF P, Z
  <1>12. SubSeq(P \o Z, 1, Len(P)) = P /\ SubSeq(P \o Z, Len(P) + 1, Len(P \o Z)) = Z
    <2>1. P \in Seq(0..6) /\ Z \in Seq(0..6)
      BY <1>11 DEF P, Z
    <2>2. /\ SubSeq(P \o Z, 1, Len(P)) = P
          /\ SubSeq(P \o Z, Len(P) + 1, Len(P) + Len(Z)) = Z
      BY <2>1, PartsOfJoined
    <2>3. Len(P \o Z) = Len(P) + Len(Z)
      BY <2>1, PartsOfJoined
    <2> QED BY <2>2, <2>3
  <1>13. SubSeq(t, 1, Starts(t)[pos]) = P /\ SubSeq(t, Starts(t)[pos] + 1, Len(t)) = Z
    BY <1>1, <1>4, <1>11, <1>12 DEF P, Z
  <1>14. SubSeq(t, 1, Starts(t)[pos]) \o Encode(r) \o SubSeq(t, Starts(t)[pos] + 1, Len(t)) = Encode(w)
    BY <1>5, <1>6, <1>13 DEF P, Z
  <1> QED BY <1>10, <1>14 DEF w, s

\* A body gets a text of which a string, its only user, is the first part.
LEMMA ChangedIs ==
  ASSUME NEW bs, Stored(bs), NEW b \in Bodies, NEW w \in Seq(Letters), NEW c \in {0, Len(w)},
         NEW num \in Nat, num <= Len(w), num = 0 => w = <<>>,
         NEW m \in Marks, MarkIn(m, [body |-> b, offset |-> 0, num |-> num], Encode(w))
  PROVE  Holds([str |-> [body |-> b, offset |-> 0, num |-> num], mark |-> m, bodies |-> Put(bs, b, w, c)],
               SubSeq(w, 0 + 1, 0 + num))
  <1> DEFINE s == [body |-> b, offset |-> 0, num |-> num]
             cs == Put(bs, b, w, c)
             x == [str |-> s, mark |-> m, bodies |-> cs]
  <1>1. s \in Slices /\ s.body = b /\ s.offset = 0 /\ s.num = num
    BY DEF Slices
  <1>2. Stored(cs) /\ cs[b].text = Encode(w)
    BY StoreText
  <1>3. MarkIn(m, s, Encode(w))
    OBVIOUS
  <1> HIDE DEF s, cs
  <1>4. x.str = s /\ x.mark = m /\ x.bodies = cs /\ Body(x).text = Encode(w)
    BY <1>1, <1>2 DEF Body
  <1>5. x \in [str : Slices, mark : Marks, bodies : Stores]
    BY <1>1, <1>2 DEF Stored, Stores
  <1>6. Chars(Encode(w)) = w /\ NumChars(Encode(w)) = Len(w)
    BY EncodeIsText
  <1>7. FitsIn(s, Encode(w))
    BY <1>1, <1>6, EncodeNone DEF FitsIn
  <1> HIDE DEF x
  <1>8. Holds(x, SubSeq(w, 0 + 1, 0 + num))
    BY <1>1, <1>2, <1>3, <1>4, <1>5, <1>6, <1>7 DEF Holds, Stores
  <1> QED BY <1>8 DEF x, s, cs

\* Nobody else sees it.
LEMMA ChangedAlone ==
  ASSUME IInv, NEW v \in Vars, NEW x, OthersKept(v, x), Stored(x.bodies), NEW b \in Bodies,
         \A u \in Vars \ {v} : str[u].body # b,
         NEW w \in Seq(Letters), NEW c \in {0, Len(w)}, NEW y, y.bodies = Put(x.bodies, b, w, c)
  PROVE  OthersKept(v, y)
  <1>1. \A d \in Bodies \ {b} : Put(x.bodies, b, w, c)[d] = x.bodies[d]
    BY StoreText
  <1>2. \A u \in Vars \ {v} : str[u].body \in Bodies \ {b}
    BY ThisIs
  <1> QED BY <1>1, <1>2 DEF OthersKept

\* What the program avoids.
LEMMA MarkBefore ==
  ASSUME Avoids = {"parts", "marks"}, NEW v, NEW pos, NEW m \in Marks, MayInsert(v, pos, m),
         NEW t, IsText(t), Len(t) <= MaxBody, NEW s, MarkIn(m, s, t),
         s.offset \in Nat, s.num \in Nat, s.offset + s.num <= NumChars(t)
  PROVE  \/ m = NoMark
         \/ m.char > 0 /\ m.char \in s.offset..s.offset + s.num /\ m.byte = Starts(t)[m.char] /\ m.char <= pos
         \/ s.offset = 0 /\ m.char \in Negative /\ m.byte \in Negative
  <1>1. m.char <= pos \/ m.char >= IndexSize \div 2
    BY DEF MayInsert
  <1>2. NumChars(t) \in Nat /\ Len(t) \in Nat /\ NumChars(t) <= Len(t)
    <2>1. NumChars(t) \in Nat /\ Len(t) \in Nat
      BY TextIs
    <2>2. Starts(t)[NumChars(t)] = Len(t) /\ NumChars(t) <= Starts(t)[NumChars(t)]
      BY <2>1, StartIs
    <2> QED BY <2>1, <2>2
  <1>3. ASSUME m.char \in 1..NumChars(t) PROVE m.char <= pos
    <2>1. PICK k \in Nat, n \in Nat : k = m.char /\ n = NumChars(t) /\ 1 <= k /\ k <= n /\ n <= MaxBody
      BY <1>2, <1>3, StringsAssumption
    <2>2. ~(k >= IndexSize \div 2)
      BY <2>1, StringsAssumption
    <2> QED BY <1>1, <2>1, <2>2
  <1>4. m.char > 0 /\ m.char \in s.offset..s.offset + s.num => m.char <= pos
    <2>1. m.char > 0 /\ m.char \in s.offset..s.offset + s.num => m.char \in 1..NumChars(t)
      BY <1>2
    <2> QED BY <1>3, <2>1
  <1> QED BY <1>4 DEF MarkIn

\* The string's mark stays where it was in the text before the place.
LEMMA MarkKept ==
  ASSUME NEW t, IsText(t), NEW pos \in 0..NumChars(t), NEW r \in Seq(Letters), NEW m, NEW s, NEW num \in Nat,
         pos <= num, s.offset = 0,
         \/ m = NoMark
         \/ m.char > 0 /\ m.char \in s.offset..s.offset + s.num /\ m.byte = Starts(t)[m.char] /\ m.char <= pos
         \/ s.offset = 0 /\ m.char \in Negative /\ m.byte \in Negative,
         s.num \in Nat, NEW b
  PROVE  MarkIn(m, [body |-> b, offset |-> 0, num |-> num], Encode(Inserted(Chars(t), pos, r)))
  <1> DEFINE z == [body |-> b, offset |-> 0, num |-> num]
             u == Encode(Inserted(Chars(t), pos, r))
  <1>1. z.offset = 0 /\ z.num = num
    OBVIOUS
  <1> HIDE DEF z
  <1>2. \A k \in 0..pos : Starts(u)[k] = Starts(t)[k]
    BY InsertText
  <1> HIDE DEF u
  <1>3. pos \in Nat
    BY TextIs
  <1>4. ASSUME m.char > 0, m.char \in s.offset..s.offset + s.num, m.byte = Starts(t)[m.char], m.char <= pos
        PROVE  MarkIn(m, z, u)
    <2>1. m.char \in 0..pos /\ m.char \in 0..0 + num
      BY <1>3, <1>4
    <2>2. m.byte = Starts(u)[m.char]
      BY <1>2, <1>4, <2>1
    <2> QED BY <1>1, <1>4, <2>1, <2>2 DEF MarkIn
  <1>5. ASSUME m = NoMark PROVE MarkIn(m, z, u)
    BY <1>5 DEF MarkIn
  <1>6. ASSUME m.char \in Negative /\ m.byte \in Negative PROVE MarkIn(m, z, u)
    BY <1>1, <1>6 DEF MarkIn
  <1>7. MarkIn(m, z, u)
    BY <1>4, <1>5, <1>6
  <1> QED BY <1>7 DEF z, u

\* The same string, longer, with another body in place of its own.
Longer(z, n, e, g) == [z EXCEPT !.str.num = @ + n, !.bodies[e] = g]

\* Its fields.
LEMMA LongerIs ==
  ASSUME NEW z, NEW e, NEW n, NEW g, z.str = [body |-> e, offset |-> 0, num |-> z.str.num],
         z = [str |-> z.str, mark |-> z.mark, bodies |-> z.bodies]
  PROVE  Longer(z, n, e, g)
             = [str |-> [body |-> e, offset |-> 0, num |-> z.str.num + n], mark |-> z.mark,
                bodies |-> [z.bodies EXCEPT ![e] = g]]
  <1>1. PICK y, k, bs, num : /\ y = [z EXCEPT !.str.num = @ + n]
                             /\ k = z.mark /\ bs = z.bodies /\ num = z.str.num
    OBVIOUS
  <1>2. Longer(z, n, e, g) = [y EXCEPT !.bodies[e] = g]
    BY <1>1 DEF Longer
  <1>3. PICK s, s0 : s = [body |-> e, offset |-> 0, num |-> num + n] /\ s0 = [body |-> e, offset |-> 0, num |-> num]
    OBVIOUS
  <1>4. y = [str |-> s, mark |-> k, bodies |-> bs]
    <2>1. z = [str |-> s0, mark |-> k, bodies |-> bs]
      BY <1>1, <1>3
    <2>2. [s0 EXCEPT !.num = @ + n] = s
      BY <1>3
    <2> QED BY <1>1, <2>1, <2>2
  <1>5. [y EXCEPT !.bodies[e] = g] = [str |-> s, mark |-> k, bodies |-> [bs EXCEPT ![e] = g]]
    BY <1>4
  <1> QED BY <1>1, <1>2, <1>3, <1>5

\* A text is inserted in a string that has a body of its own.
LEMMA SpliceIs ==
  ASSUME IInv, Avoids = {"parts", "marks"}, NEW v \in Vars, NEW x, Alone(v, x),
         IsOwn(v) => x.str.offset = str[v].offset, ~ IsOwn(v) => x.str.offset = 0,
         NEW pos \in 0..str[v].num, NEW r \in Seq(Letters), NEW n, n = Len(r),
         Splice(v, x, pos, Encode(r), n), val' = [val EXCEPT ![v] = Inserted(val[v], pos, r)]
  PROVE  IInv'
  <1> DEFINE p == Nth(x, pos)
             y == p.then
             q == Nth(y, 0)
             z == q.then
             b == x.str.body
             t == Body(x).text
             at == p.ptr - q.ptr
             w == Inserted(Chars(t), pos, r)
             new == InsertBytes(z.bodies[b], at, Encode(r))
  <1>1. /\ Holds(x, val[v]) /\ Small(x.bodies) /\ OthersKept(v, x) /\ x.str.num = str[v].num
        /\ b \in Bodies /\ \A u \in Vars \ {v} : str[u].body # b
    BY DEF Alone
  <1>2. /\ MayInsert(v, pos, z.mark)
        /\ Become(v, [z EXCEPT !.str.num = @ + n, !.bodies[b] = new])
    BY DEF Splice
  <1>3. x.str.offset = 0
    BY <1>2 DEF MayInsert
  <1>4. PICK num \in Nat : /\ num = str[v].num /\ num <= NumChars(t) /\ NumChars(t) \in Nat /\ IsText(t)
                           /\ (num = 0 => t = <<>>) /\ pos \in Nat /\ pos <= num
    <2>1. /\ x.str.num \in Nat /\ x.str.offset + x.str.num <= NumChars(t) /\ NumChars(t) \in Nat
          /\ IsText(t) /\ (x.str.num = 0 => t = <<>>)
      BY <1>1, HoldsIs
    <2>2. x.str.num <= NumChars(t)
      BY <1>3, <2>1
    <2>3. pos \in Nat /\ pos <= x.str.num
      BY <1>1, <2>1
    <2> HIDE DEF t
    <2> QED BY <1>1, <2>1, <2>2, <2>3
  <1>5. p.ptr = Starts(t)[pos] /\ Kept(y, x, val[v])
    <2>1. pos \in 0..x.str.num /\ 0 + pos = pos
      BY <1>1, <1>4
    <2>2. Nth(x, pos).ptr = Starts(Body(x).text)[x.str.offset + pos] /\ Kept(Nth(x, pos).then, x, val[v])
      BY <1>1, <2>1, NthIs
    <2> QED BY <1>3, <2>1, <2>2
  <1> HIDE DEF p, y
  <1>6. y.str = x.str /\ Body(y).text = t /\ Holds(y, val[v]) /\ Small(y.bodies)
    BY <1>1, <1>5, KeptText DEF Kept
  <1>7. q.ptr = 0 /\ Kept(z, y, val[v])
    <2>1. 0 \in 0..y.str.num /\ 0 + 0 = 0
      BY <1>1, <1>4, <1>6
    <2>2. Nth(y, 0).ptr = Starts(Body(y).text)[y.str.offset + 0] /\ Kept(Nth(y, 0).then, y, val[v])
      BY <1>6, <2>1, NthIs
    <2>3. Starts(t)[0] = 0
      <3>1. 0 \in 0..NumChars(t)
        BY <1>4
      <3> QED BY <1>4, <3>1, StartIs
    <2> QED BY <1>3, <1>6, <2>1, <2>2, <2>3
  <1> HIDE DEF q, z
  <1>8. Kept(z, x, val[v])
    BY <1>5, <1>7, KeptOn
  <1>9. /\ Holds(z, val[v]) /\ Stored(z.bodies) /\ SameTexts(z.bodies, x.bodies) /\ z.str = x.str
        /\ Body(z).text = t /\ z.mark \in Marks /\ MarkIn(z.mark, x.str, t)
        /\ z = [str |-> z.str, mark |-> z.mark, bodies |-> z.bodies] /\ z.bodies \in Stores
    <2>1. Holds(z, val[v]) /\ SameTexts(z.bodies, x.bodies) /\ z.str = x.str /\ Body(z).text = t
      BY <1>1, <1>8, KeptText DEF Kept
    <2>2. /\ z.mark \in Marks /\ z = [str |-> z.str, mark |-> z.mark, bodies |-> z.bodies]
          /\ z.bodies \in Stores
      BY <2>1, HoldsIs
    <2> HIDE DEF t
    <2> QED BY <2>1, <2>2 DEF Holds
  <1>10. at = Starts(t)[pos]
    <2>1. Starts(t)[pos] \in Nat
      <3>1. pos \in 0..NumChars(t)
        BY <1>4
      <3> QED BY <1>4, <3>1, StartIs
    <2> HIDE DEF t
    <2> QED BY <1>5, <1>7, <2>1
  <1>11. Chars(t) \in Seq(Letters) /\ Len(Chars(t)) = NumChars(t) /\ w \in Seq(Letters) /\ Len(w) = NumChars(t) + n
         /\ n \in Nat
    <2>1. Chars(t) \in Seq(Letters) /\ Len(Chars(t)) = NumChars(t)
      BY <1>4, TextIs
    <2>2. PICK s \in Seq(Letters) : s = Chars(t)
      BY <2>1
    <2>3. pos <= Len(s)
      BY <1>4, <2>1, <2>2
    <2>4. Inserted(s, pos, r) \in Seq(Letters) /\ Len(Inserted(s, pos, r)) = Len(s) + Len(r)
      BY <1>4, <2>3, InsertedIs
    <2> QED BY <2>1, <2>2, <2>4
  <1>12. new = [text |-> Encode(w), count |-> 0]
    <2>1. z.bodies[b].text = t
      BY <1>9 DEF Body
    <2>2. pos \in 0..NumChars(t)
      BY <1>4
    <2>3. SubSeq(t, 1, Starts(t)[pos]) \o Encode(r) \o SubSeq(t, Starts(t)[pos] + 1, Len(t)) = Encode(w)
      BY <1>4, <2>2, InsertText
    <2> HIDE DEF t, at, w
    <2> QED BY <1>10, <2>1, <2>3 DEF InsertBytes
  <1> HIDE DEF new, at
  <1> DEFINE c == 0
             s == [body |-> b, offset |-> 0, num |-> num + n]
             u == [str |-> s, mark |-> z.mark, bodies |-> Put(z.bodies, b, w, c)]
  <1>13. [z EXCEPT !.str.num = @ + n, !.bodies[b] = new] = u
    <2>1. z.str = [body |-> b, offset |-> 0, num |-> num]
      <3>1. z.str \in Slices
        BY <1>1, <1>9, HoldsIs
      <3> QED BY <1>1, <1>3, <1>4, <1>9, <3>1 DEF Slices
    <2>2. z = [str |-> [body |-> b, offset |-> 0, num |-> num], mark |-> z.mark, bodies |-> z.bodies]
      BY <1>9, <2>1
    <2>3. Longer(z, n, b, new)
              = [str |-> [body |-> b, offset |-> 0, num |-> z.str.num + n], mark |-> z.mark,
                 bodies |-> [z.bodies EXCEPT ![b] = new]]
      <3>1. z.str.num = num
        BY <2>1
      <3>2. z.str = [body |-> b, offset |-> 0, num |-> z.str.num]
        BY <2>1, <3>1
      <3> HIDE DEF w, t, b, s, u
      <3> QED BY <1>9, <3>2, LongerIs
    <2>4. z.str.num = num
      BY <2>1
    <2>6. [z EXCEPT !.str.num = @ + n, !.bodies[b] = new]
              = [str |-> s, mark |-> z.mark, bodies |-> [z.bodies EXCEPT ![b] = new]]
      <3> HIDE DEF w, t, b, u
      <3> QED BY <2>3, <2>4 DEF s, Longer
    <2>7. [z.bodies EXCEPT ![b] = new] = Put(z.bodies, b, w, c)
      <3> HIDE DEF w, t, b
      <3> QED BY <1>12 DEF Put
    <2> HIDE DEF w, t, b, s
    <2> QED BY <2>6, <2>7
  <1>14. MarkIn(z.mark, s, Encode(w))
    <2>1. Len(t) <= MaxBody
      BY <1>1 DEF Small, Body
    <2>2. x.str.offset \in Nat /\ x.str.num \in Nat /\ x.str.offset + x.str.num <= NumChars(t)
      BY <1>1, HoldsIs
    <2>3. \/ z.mark = NoMark
          \/ /\ z.mark.char > 0 /\ z.mark.char \in x.str.offset..x.str.offset + x.str.num
             /\ z.mark.byte = Starts(t)[z.mark.char] /\ z.mark.char <= pos
          \/ x.str.offset = 0 /\ z.mark.char \in Negative /\ z.mark.byte \in Negative
      <3> HIDE DEF t
      <3> QED BY <1>2, <1>4, <1>9, <2>1, <2>2, MarkBefore
    <2>4. pos \in 0..NumChars(t) /\ num + n \in Nat /\ pos <= num + n
      BY <1>4, <1>11
    <2> HIDE DEF t
    <2> QED BY <1>3, <1>4, <2>2, <2>3, <2>4, MarkKept
  <1>15. Holds(u, SubSeq(w, 0 + 1, 0 + (num + n)))
    <2>1. num + n \in Nat /\ num + n <= Len(w) /\ (num + n = 0 => w = <<>>) /\ c \in {0, Len(w)}
      <3>1. num + n \in Nat /\ num + n <= Len(w)
        BY <1>4, <1>11
      <3>2. ASSUME num + n = 0 PROVE w = <<>>
        <4>1. num = 0 /\ n = 0
          BY <1>4, <1>11, <3>2
        <4>2. NumChars(t) = 0
          BY <1>4, <4>1, NoTextIs
        <4>3. Len(w) = 0
          BY <1>11, <4>1, <4>2
        <4> HIDE DEF w
        <4> QED BY <1>11, <4>3, EmptySeq
      <3> QED BY <3>1, <3>2
    <2> HIDE DEF w, t, b
    <2> QED BY <1>1, <1>9, <1>11, <1>14, <2>1, ChangedIs DEF b
  <1>16. SubSeq(w, 0 + 1, 0 + (num + n)) = Inserted(val[v], pos, r)
    <2>1. val[v] = SubSeq(Chars(t), 0 + 1, 0 + num)
      BY <1>1, <1>3, <1>4 DEF Holds
    <2>2. num <= Len(Chars(t))
      BY <1>4, <1>11
    <2>3. PICK s0 \in Seq(Letters) : s0 = Chars(t)
      BY <1>11
    <2>4. num <= Len(s0) /\ pos <= num /\ num \in Nat /\ pos \in Nat
      BY <1>4, <2>2, <2>3
    <2>5. SubSeq(Inserted(s0, pos, r), 0 + 1, 0 + (num + Len(r))) = Inserted(SubSeq(s0, 0 + 1, 0 + num), pos, r)
      BY <2>4, InsertedInPart
    <2> HIDE DEF t
    <2> QED BY <2>1, <2>3, <2>5 DEF w
  <1>17. OthersKept(v, u)
    <2>1. OthersKept(v, z)
      BY <1>1, <1>9, ThisIs DEF OthersKept, SameTexts
    <2>2. c \in {0, Len(w)} /\ u.bodies = Put(z.bodies, b, w, c)
      OBVIOUS
    <2> HIDE DEF w, t, b, u
    <2> QED BY <1>1, <1>9, <1>11, <2>1, <2>2, ChangedAlone DEF b
  <1>18. Become(v, u)
    BY <1>2, <1>13
  <1> HIDE DEF u, w
  <1> QED BY <1>15, <1>16, <1>17, <1>18, BecomeIs

\* What follows a part joined to it.
LEMMA JoinedParts ==
  ASSUME NEW d \in Seq(Letters), NEW o \in Nat, NEW m \in Nat, NEW n \in Nat, (o + m) + n <= Len(d)
  PROVE  SubSeq(d, o + 1, o + m) \o SubSeq(d, (o + m) + 1, (o + m) + n) = SubSeq(d, o + 1, o + (m + n))
  <1> DEFINE p == SubSeq(d, o + 1, o + m)
             q == SubSeq(d, (o + m) + 1, (o + m) + n)
             r == SubSeq(d, o + 1, o + (m + n))
  <1>1. p \in Seq(Letters) /\ Len(p) = m /\ \A k \in 1..m : p[k] = d[o + k]
    <2>1. o + m <= Len(d)
      OBVIOUS
    <2> QED BY <2>1, PartOf
  <1>2. q \in Seq(Letters) /\ Len(q) = n /\ \A k \in 1..n : q[k] = d[(o + m) + k]
    <2>1. o + m \in Nat
      OBVIOUS
    <2> QED BY <2>1, PartOf
  <1>3. r \in Seq(Letters) /\ Len(r) = m + n /\ \A k \in 1..m + n : r[k] = d[o + k]
    <2>1. o + (m + n) <= Len(d) /\ m + n \in Nat
      OBVIOUS
    <2> QED BY <2>1, PartOf
  <1> HIDE DEF p, q, r
  <1>4. p \o q \in Seq(Letters) /\ Len(p \o q) = m + n
        /\ \A k \in 1..m + n : (p \o q)[k] = IF k <= m THEN p[k] ELSE q[k - m]
    BY <1>1, <1>2, ConcatProperties, ZenonT(60)
  <1>5. ASSUME NEW k \in 1..m + n PROVE (p \o q)[k] = r[k]
    <2>1. CASE k <= m
      <3>1. k \in 1..m
        BY <2>1
      <3> QED BY <1>1, <1>3, <1>4, <2>1, <3>1
    <2>2. CASE ~(k <= m)
      <3>1. k - m \in 1..n /\ (o + m) + (k - m) = o + k
        BY <2>2
      <3> QED BY <1>2, <1>3, <1>4, <2>2, <3>1
    <2> QED BY <2>1, <2>2
  <1>6. p \o q = r
    BY <1>3, <1>4, <1>5, SeqEqual
  <1> QED BY <1>6 DEF p, q, r

\* Inserting at the end is appending.
LEMMA InsertedAtEnd ==
  ASSUME NEW s \in Seq(Letters), NEW r \in Seq(Letters), NEW n, n = Len(s)
  PROVE  Inserted(s, n, r) = s \o r
  <1>1. SubSeq(s, 1, n) = s
    OBVIOUS
  <1>2. SubSeq(s, n + 1, Len(s)) = <<>>
    BY SubSeqEmpty
  <1>3. PICK q : q = s \o r /\ q \in Seq(Letters)
    BY ConcatProperties
  <1>4. q \o <<>> = q
    BY <1>3
  <1> QED BY <1>1, <1>2, <1>3, <1>4 DEF Inserted

\* A slice extended over what follows it.
LEMMA ExtendedIs ==
  ASSUME IInv, NEW v \in Vars, NEW w \in Vars, Contiguous(str[v], str[w])
  PROVE  LET x == [This(v) EXCEPT !.str.num = @ + str[w].num]
         IN  Holds(x, val[v] \o val[w]) /\ OthersKept(v, x)
  <1> DEFINE b == str[v].body
             t == bodies[b].text
             d == Chars(t)
             x == [This(v) EXCEPT !.str.num = @ + str[w].num]
  <1>1. PICK o \in Nat, m \in Nat, n \in Nat :
            /\ o = str[v].offset /\ m = str[v].num /\ n = str[w].num /\ (o + m) + n <= NumChars(t)
            /\ b \in Bodies /\ Stored(bodies) /\ IsText(t) /\ NumChars(t) \in Nat /\ (m = 0 => t = <<>>)
            /\ val[v] = SubSeq(d, o + 1, o + m) /\ val[w] = SubSeq(d, (o + m) + 1, (o + m) + n)
            /\ Holds(This(v), val[v])
    <2>1. /\ str[w].body = b /\ str[w].offset = str[v].offset + str[v].num
      BY DEF Contiguous
    <2>2. /\ str[v].offset \in Nat /\ str[v].num \in Nat /\ b \in Bodies /\ Stored(bodies) /\ IsText(t)
          /\ NumChars(t) \in Nat /\ (str[v].num = 0 => t = <<>>) /\ Holds(This(v), val[v])
          /\ val[v] = SubSeq(d, str[v].offset + 1, str[v].offset + str[v].num)
      BY ThisIs
    <2>3. /\ str[w].num \in Nat /\ str[w].offset + str[w].num <= NumChars(t)
          /\ val[w] = SubSeq(d, str[w].offset + 1, str[w].offset + str[w].num)
      BY <2>1, ThisIs
    <2> HIDE DEF t, d
    <2> QED BY <2>1, <2>2, <2>3
  <1>2. d \in Seq(Letters) /\ Len(d) = NumChars(t)
    BY <1>1, TextIs
  <1>7. mark[v] \in Marks /\ MarkIn(mark[v], str[v], t)
    <2>1. Body(This(v)).text = t /\ This(v).mark = mark[v] /\ This(v).str = str[v]
      BY DEF Body, This
    <2> HIDE DEF t
    <2> QED BY <1>1, <2>1 DEF Holds, IInv
  <1> HIDE DEF d, t, b
  <1>0. PICK N \in Nat : /\ N = NumChars(t) /\ (o + m) + n <= N /\ o + (m + n) <= N /\ m + n \in Nat
                         /\ (m + n = 0 => m = 0) /\ o + m <= o + (m + n)
    <2>1. PICK N \in Nat : N = NumChars(t) /\ (o + m) + n <= N
      BY <1>1
    <2> QED BY <2>1
  <1>3. val[v] \o val[w] = SubSeq(d, o + 1, o + (m + n))
    <2>1. (o + m) + n <= Len(d)
      BY <1>0, <1>2
    <2>2. SubSeq(d, o + 1, o + m) \o SubSeq(d, (o + m) + 1, (o + m) + n) = SubSeq(d, o + 1, o + (m + n))
      BY <1>2, <2>1, JoinedParts
    <2> QED BY <1>1, <2>2
  <1> DEFINE s == [body |-> b, offset |-> o, num |-> m + n]
             y == [str |-> s, mark |-> mark[v], bodies |-> bodies]
  <1>4. x = y
    <2>1. str[v] = [body |-> b, offset |-> o, num |-> m]
      <3>1. str[v] \in Slices
        BY DEF IInv
      <3> QED BY <1>1, <3>1 DEF Slices, b
    <2>2. PICK e : e = b
      OBVIOUS
    <2>3. This(v) = [str |-> [body |-> e, offset |-> o, num |-> m], mark |-> mark[v], bodies |-> bodies]
      BY <2>1, <2>2 DEF This
    <2>4. PICK s0, s1 : s0 = [body |-> e, offset |-> o, num |-> m] /\ s1 = [body |-> e, offset |-> o, num |-> m + n]
      OBVIOUS
    <2>5. [s0 EXCEPT !.num = @ + n] = s1
      BY <2>4
    <2>6. PICK z, k, bs : z = This(v) /\ k = mark[v] /\ bs = bodies
      OBVIOUS
    <2>7. z = [str |-> s0, mark |-> k, bodies |-> bs]
      BY <2>3, <2>4, <2>6
    <2>8. [z EXCEPT !.str.num = @ + n] = [str |-> s1, mark |-> k, bodies |-> bs]
      BY <2>5, <2>7
    <2>9. x = [z EXCEPT !.str.num = @ + n]
      BY <1>1, <2>6
    <2> QED BY <2>2, <2>4, <2>6, <2>8, <2>9
  <1> HIDE DEF x
  <1>5. s \in Slices /\ s.body = b /\ s.offset = o /\ s.num = m + n
    <2>1. b \in Bodies
      BY <1>1
    <2> QED BY <1>0, <2>1 DEF Slices
  <1> HIDE DEF s
  <1>6. y.str = s /\ y.mark = mark[v] /\ y.bodies = bodies /\ Body(y) = bodies[b]
    BY <1>5 DEF Body
  <1>8. MarkIn(mark[v], s, t)
    <2>1. PICK c : c = mark[v].char
      OBVIOUS
    <2>2. c \in o..o + m => c \in o..o + (m + n)
      BY <1>0
    <2> QED BY <1>1, <1>5, <1>7, <2>1, <2>2 DEF MarkIn
  <1>9. FitsIn(s, t)
    <2>1. o + (m + n) <= NumChars(t) /\ (m + n = 0 => t = <<>>)
      <3>1. m = 0 => t = <<>>
        BY <1>1
      <3> QED BY <1>0, <3>1
    <2> QED BY <1>5, <2>1 DEF FitsIn
  <1>10. y \in [str : Slices, mark : Marks, bodies : Stores]
    BY <1>1, <1>5, <1>7 DEF Stored, Stores
  <1> HIDE DEF y
  <1>11. Holds(y, SubSeq(Chars(t), o + 1, o + (m + n)))
    BY <1>1, <1>5, <1>6, <1>8, <1>9, <1>10 DEF Holds, Stores, t
  <1>12. OthersKept(v, y)
    BY <1>6 DEF OthersKept
  <1> QED BY <1>3, <1>4, <1>11, <1>12 DEF d, t, b, x

\* insert: extends the slice if what follows it is inserted, or moves bytes in a body of its own.
LEMMA InsertSafe ==
  ASSUME IInv, Avoids = {"parts", "marks"}, NEW v \in Vars, NEW w \in Vars, NEW pos \in 0..str[v].num,
         Insert(v, pos, w)
  PROVE  IInv'
  <1> DEFINE x == Unshare(This(v))
             y == [This(w) EXCEPT !.bodies = x.bodies]
             a == Bytes(y)
             z == [x EXCEPT !.bodies = a.then.bodies]
  <1>1. /\ val[v] \in Seq(Letters) /\ Len(val[v]) = str[v].num
        /\ val[w] \in Seq(Letters) /\ Len(val[w]) = str[w].num /\ Stored(bodies)
    BY ThisIs
  <1>2. v # w /\ val' = [val EXCEPT ![v] = Inserted(val[v], pos, val[w])]
    BY DEF Insert, Promise!Insert, Promise!Becomes, Inserted
  <1>3. CASE pos = str[v].num /\ Contiguous(str[v], str[w])
    <2>1. PICK u : u = [This(v) EXCEPT !.str.num = @ + str[w].num]
      OBVIOUS
    <2>2. Become(v, u)
      BY <1>3, <2>1 DEF Insert
    <2>3. Holds(u, val[v] \o val[w]) /\ OthersKept(v, u)
      BY <1>3, <2>1, ExtendedIs
    <2>4. Inserted(val[v], pos, val[w]) = val[v] \o val[w]
      BY <1>1, <1>3, InsertedAtEnd
    <2> QED BY <1>2, <2>2, <2>3, <2>4, BecomeIs
  <1>4. CASE ~(pos = str[v].num /\ Contiguous(str[v], str[w]))
    <2>1. Splice(v, z, pos, a.bytes, str[w].num)
      BY <1>4 DEF Insert
    <2>2. /\ Alone(v, x)
          /\ \/ IsOwn(v) /\ x = This(v)
             \/ ~ IsOwn(v) /\ Copied(v, x)
      BY UnshareIs
    <2> HIDE DEF x
    <2>3. /\ Holds(x, val[v]) /\ Small(x.bodies) /\ OthersKept(v, x) /\ x.str.num = str[v].num
          /\ x.str.body \in Bodies /\ \A u \in Vars \ {v} : str[u].body # x.str.body
      BY <2>2 DEF Alone
    <2>4. /\ x = [str |-> x.str, mark |-> x.mark, bodies |-> x.bodies] /\ Stored(x.bodies)
      BY <2>3, HoldsIs DEF Holds
    <2>5. y = [str |-> str[w], mark |-> mark[w], bodies |-> x.bodies]
      BY DEF This
    <2>6. Holds(y, val[w]) /\ Small(y.bodies) /\ y.bodies = x.bodies
      <3>1. Holds(This(w), val[w]) /\ This(w).str = str[w] /\ This(w).mark = mark[w] /\ This(w).bodies = bodies
        BY ThisIs
      <3>2. x.bodies[str[w].body].text = bodies[str[w].body].text
        BY <1>2, <2>3 DEF OthersKept
      <3>3. Holds([str |-> This(w).str, mark |-> This(w).mark, bodies |-> x.bodies], val[w])
        BY <2>4, <3>1, <3>2, HoldsElsewhere DEF Body
      <3> QED BY <2>3, <2>5, <3>1, <3>3
    <2> HIDE DEF y
    <2>7. a.bytes = Encode(val[w]) /\ Stored(a.then.bodies) /\ SameTexts(a.then.bodies, x.bodies) /\ Small(a.then.bodies)
      BY <2>6, BytesIs DEF Kept, Holds
    <2> HIDE DEF a
    <2>8. z = [str |-> x.str, mark |-> x.mark, bodies |-> a.then.bodies]
      BY <2>4
    <2>9. Alone(v, z)
      <3>1. a.then.bodies[x.str.body].text = Body(x).text
        BY <2>3, <2>7 DEF SameTexts, Body
      <3>2. Holds(z, val[v])
        BY <2>3, <2>7, <2>8, <3>1, HoldsElsewhere, ZenonT(60)
      <3>3. z.str = x.str /\ z.bodies = a.then.bodies
        BY <2>8
      <3> HIDE DEF z
      <3>4. OthersKept(v, z)
        BY <2>3, <2>7, <3>3, ThisIs DEF OthersKept, SameTexts
      <3> QED BY <2>3, <2>7, <3>2, <3>3, <3>4 DEF Alone
    <2>10. (IsOwn(v) => z.str.offset = str[v].offset) /\ (~ IsOwn(v) => z.str.offset = 0)
      <3>1. z.str = x.str
        BY <2>8
      <3> HIDE DEF z
      <3> QED BY <2>2, <3>1, ThisIs DEF Copied
    <2> HIDE DEF z
    <2> QED BY <1>1, <1>2, <2>1, <2>7, <2>9, <2>10, SpliceIs
  <1> QED BY <1>3, <1>4

\* operator+=, of a string
LEMMA AddAssignSafe ==
  ASSUME IInv, Avoids = {"parts", "marks"}, NEW v \in Vars, NEW w \in Vars, AddAssign(v, w)
  PROVE  IInv'
  <1>1. CASE Assign(v, w)
    BY <1>1, AssignSafe
  <1>2. CASE Insert(v, str[v].num, w)
    <2>1. str[v].num \in 0..str[v].num
      BY ThisIs
    <2> QED BY <1>2, <2>1, InsertSafe
  <1> QED BY <1>1, <1>2 DEF AddAssign

\* operator+=, of a character
LEMMA AppendCharSafe ==
  ASSUME IInv, Avoids = {"parts", "marks"}, NEW v \in Vars, NEW c \in Letters, AppendChar(v, c)
  PROVE  IInv'
  <1>1. PICK s : s = <<c>> /\ s \in Seq(Letters) /\ 1 = Len(s)
    <2>1. <<c>> \in Seq(Letters) /\ 1 = Len(<<c>>)
      OBVIOUS
    <2> QED BY <2>1, Zenon
  <1>2. Encode(s) = c
    BY <1>1, EncodeOne, StringsAssumption
  <1>3. val[v] \in Seq(Letters) /\ Len(val[v]) = str[v].num /\ str[v].num \in Nat /\ str[v].num \in 0..str[v].num
    BY ThisIs
  <1>4. val' = [val EXCEPT ![v] = Inserted(val[v], str[v].num, s)]
    <2>1. val' = [val EXCEPT ![v] = val[v] \o s]
      BY <1>1 DEF AppendChar, Promise!Becomes
    <2> QED BY <1>1, <1>3, <2>1, InsertedAtEnd
  <1> DEFINE x == Unshare(This(v))
  <1>5. Splice(v, x, str[v].num, Encode(s), 1)
    BY <1>2 DEF AppendChar
  <1>6. /\ Alone(v, x)
        /\ \/ IsOwn(v) /\ x = This(v)
           \/ ~ IsOwn(v) /\ Copied(v, x)
    BY UnshareIs
  <1> HIDE DEF x
  <1>7. (IsOwn(v) => x.str.offset = str[v].offset) /\ (~ IsOwn(v) => x.str.offset = 0)
    BY <1>6, ThisIs DEF Copied
  <1> QED BY <1>1, <1>3, <1>4, <1>5, <1>6, <1>7, SpliceIs

\* The joined texts of two strings.
LEMMA PlusSafe ==
  ASSUME IInv, NEW v \in Vars, NEW w \in Vars, NEW u \in Vars, Plus(v, w, u)
  PROVE  IInv'
  <1> DEFINE first == Bytes(This(w))
             y == [This(u) EXCEPT !.bodies = first.then.bodies]
             addend == Bytes(y)
             n == str[w].num + str[u].num
  <1>1. /\ val[w] \in Seq(Letters) /\ Len(val[w]) = str[w].num /\ str[w].num \in Nat
        /\ val[u] \in Seq(Letters) /\ Len(val[u]) = str[u].num /\ str[u].num \in Nat
        /\ Holds(This(w), val[w]) /\ This(w).bodies = bodies /\ Stored(bodies) /\ Small(bodies)
        /\ Holds(This(u), val[u]) /\ This(u).str = str[u] /\ This(u).mark = mark[u] /\ This(u).bodies = bodies
    BY ThisIs
  <1>2. val' = [val EXCEPT ![v] = val[w] \o val[u]]
    BY DEF Plus, Promise!Plus, Promise!Becomes
  <1>3. /\ first.bytes = Encode(val[w]) /\ Stored(first.then.bodies) /\ SameTexts(first.then.bodies, bodies)
        /\ Small(first.then.bodies)
    <2>1. first.bytes = Encode(val[w]) /\ Kept(first.then, This(w), val[w])
      BY <1>1, BytesIs
    <2> HIDE DEF first
    <2> QED BY <1>1, <2>1 DEF Kept, Holds
  <1>4. y = [str |-> str[u], mark |-> mark[u], bodies |-> first.then.bodies]
    BY DEF This
  <1>5. CASE Contiguous(str[w], str[u])
    <2>1. Become(v, SliceOf(str[w].body, str[w].offset, n))
      BY <1>5 DEF Plus
    <2>2. PICK x : x = [This(w) EXCEPT !.str.num = @ + str[u].num]
      OBVIOUS
    <2>3. Holds(x, val[w] \o val[u])
      BY <1>5, <2>2, ExtendedIs
    <2>4. /\ x.str.body = str[w].body /\ x.str.offset = str[w].offset /\ x.str.num = n /\ x.bodies = bodies
      <3>1. str[w] = [body |-> str[w].body, offset |-> str[w].offset, num |-> str[w].num]
        BY DEF IInv, Slices
      <3>2. PICK z : z = This(w)
        OBVIOUS
      <3>3. z = [str |-> str[w], mark |-> mark[w], bodies |-> bodies]
        BY <3>2 DEF This
      <3>4. x = [z EXCEPT !.str = [z.str EXCEPT !.num = z.str.num + str[u].num]]
        BY <2>2, <3>2
      <3>5. x.str = [str[w] EXCEPT !.num = str[w].num + str[u].num] /\ x.bodies = bodies
        BY <3>3, <3>4
      <3>6. PICK s, e, o, k : s = str[w] /\ e = str[w].body /\ o = str[w].offset /\ k = str[w].num
        OBVIOUS
      <3>7. s = [body |-> e, offset |-> o, num |-> k]
        BY <3>1, <3>6
      <3>8. [s EXCEPT !.num = k + str[u].num] = [body |-> e, offset |-> o, num |-> k + str[u].num]
        BY <3>7
      <3>9. x.str = [body |-> e, offset |-> o, num |-> k + str[u].num]
        BY <3>5, <3>6, <3>8
      <3> QED BY <3>5, <3>6, <3>9
    <2>5. PICK b, o, t : b = str[w].body /\ o = str[w].offset /\ t = bodies[b].text
      OBVIOUS
    <2>6. /\ b \in Bodies /\ o \in Nat /\ n \in Nat /\ o + n <= NumChars(t) /\ (n = 0 => t = <<>>)
          /\ val[w] \o val[u] = SubSeq(Chars(t), o + 1, o + n)
      <3>1. Body(x).text = t
        BY <2>4, <2>5 DEF Body
      <3> HIDE DEF n
      <3>2. /\ x.str.body \in Bodies /\ x.str.offset \in Nat /\ x.str.num \in Nat
            /\ x.str.offset + x.str.num <= NumChars(t) /\ (x.str.num = 0 => t = <<>>)
        BY <2>3, <3>1, HoldsIs
      <3>3. val[w] \o val[u] = SubSeq(Chars(t), x.str.offset + 1, x.str.offset + x.str.num)
        BY <2>3, <3>1 DEF Holds
      <3> QED BY <2>4, <2>5, <3>2, <3>3
    <2> HIDE DEF n
    <2>7. Holds([str |-> [body |-> b, offset |-> o, num |-> n], mark |-> NoMark, bodies |-> bodies],
                SubSeq(Chars(bodies[b].text), o + 1, o + n))
      BY <1>1, <2>5, <2>6, HoldsSlice
    <2>8. SliceOf(b, o, n) = [str |-> [body |-> b, offset |-> o, num |-> n], mark |-> NoMark, bodies |-> bodies]
      BY DEF SliceOf
    <2>9. Holds(SliceOf(b, o, n), val[w] \o val[u]) /\ OthersKept(v, SliceOf(b, o, n))
      <3>1. SliceOf(b, o, n).bodies = bodies
        BY <2>8
      <3> QED BY <2>5, <2>6, <2>7, <2>8, <3>1 DEF OthersKept
    <2>10. Become(v, SliceOf(b, o, n))
      BY <2>1, <2>5
    <2> QED BY <1>2, <2>9, <2>10, BecomeIs
  <1>6. CASE ~ Contiguous(str[w], str[u])
    <2> HIDE DEF first
    <2>1. Holds(y, val[u]) /\ Small(y.bodies) /\ y.bodies = first.then.bodies /\ OthersKept(v, y)
      <3>1. first.then.bodies[This(u).str.body].text = Body(This(u)).text
        BY <1>1, <1>3, ThisIs DEF SameTexts, Body
      <3>2. Holds([str |-> This(u).str, mark |-> This(u).mark, bodies |-> first.then.bodies], val[u])
        BY <1>1, <1>3, <3>1, HoldsElsewhere
      <3>3. y.bodies = first.then.bodies
        BY <1>4
      <3>4. Holds(y, val[u])
        BY <1>1, <1>4, <3>2
      <3> HIDE DEF y
      <3>5. OthersKept(v, y)
        BY <1>3, <3>3, ThisIs DEF OthersKept, SameTexts
      <3> QED BY <1>3, <3>3, <3>4, <3>5
    <2>2. CASE str[w].num = 0 /\ str[u].body \notin Statics \ {NullBody}
      <3>1. Become(v, y)
        BY <1>6, <2>2 DEF Plus, first
      <3>2. val[w] \o val[u] = val[u]
        <4>1. val[w] = <<>>
          BY <1>1, <2>2, EmptySeq
        <4> QED BY <1>1, <4>1
      <3> HIDE DEF y
      <3> QED BY <1>2, <2>1, <3>1, <3>2, BecomeIs
    <2>3. CASE ~(str[w].num = 0 /\ str[u].body \notin Statics \ {NullBody})
      <3>1. Become(v, Fresh(first.bytes \o addend.bytes, 0, n, addend.then.bodies))
        BY <1>6, <2>3 DEF Plus, first
      <3> HIDE DEF y
      <3>2. addend.bytes = Encode(val[u]) /\ Stored(addend.then.bodies) /\ SameTexts(addend.then.bodies, bodies)
        <4>1. addend.bytes = Encode(val[u]) /\ Kept(addend.then, y, val[u])
          BY <2>1, BytesIs
        <4> HIDE DEF addend
        <4> QED BY <1>3, <2>1, <4>1 DEF Kept, Holds, SameTexts
      <3> HIDE DEF addend
      <3>3. PICK r : r = val[w] \o val[u] /\ r \in Seq(Letters) /\ Len(r) = n
        <4>1. /\ val[w] \o val[u] \in Seq(Letters)
              /\ Len(val[w] \o val[u]) = Len(val[w]) + Len(val[u])
          BY <1>1, ConcatProperties
        <4> QED BY <1>1, <4>1, Zenon
      <3>4. Encode(r) = first.bytes \o addend.bytes
        <4>1. val[w] \in Seq(Characters) /\ val[u] \in Seq(Characters)
          BY <1>1, EncodeIsText
        <4>2. Encode(val[w] \o val[u]) = Encode(val[w]) \o Encode(val[u])
          BY <4>1, EncodeJoin
        <4> QED BY <1>3, <3>2, <3>3, <4>2
      <3>5. 0 \in {0, Len(r)}
        OBVIOUS
      <3> HIDE DEF n
      <3>6. /\ Holds(Fresh(Encode(r), 0, n, addend.then.bodies), r)
            /\ OthersKept(v, Fresh(Encode(r), 0, n, addend.then.bodies))
        BY <3>2, <3>3, <3>5, FreshIs
      <3> QED BY <1>2, <3>1, <3>3, <3>4, <3>6, BecomeIs
    <2> QED BY <2>2, <2>3
  <1> QED BY <1>5, <1>6

\* The text of a string that may be written anew is what the string holds.
LEMMA WholeText ==
  ASSUME IInv, Avoids = {"parts", "marks"}, NEW v \in Vars, NEW x, Alone(v, x),
         \/ IsOwn(v) /\ x = This(v)
         \/ ~ IsOwn(v) /\ Copied(v, x),
         NEW m, MayConvert(v, m)
  PROVE  x.str.offset = 0 /\ Chars(Body(x).text) = val[v]
  <1>1. /\ val[v] \in Seq(Letters) /\ Len(val[v]) = str[v].num /\ str[v].num \in Nat
        /\ This(v).str = str[v] /\ This(v).bodies = bodies /\ IsText(bodies[str[v].body].text)
        /\ val[v] = SubSeq(Chars(bodies[str[v].body].text), str[v].offset + 1, str[v].offset + str[v].num)
    BY ThisIs
  <1>2. CASE IsOwn(v) /\ x = This(v)
    <2>1. PICK t : t = bodies[str[v].body].text
      OBVIOUS
    <2>2. str[v].offset = 0 /\ str[v].num = NumChars(t)
      BY <1>2, <2>1 DEF MayConvert
    <2>3. Chars(t) \in Seq(Letters) /\ Len(Chars(t)) = str[v].num
      BY <1>1, <2>1, <2>2, TextIs
    <2>4. val[v] = SubSeq(Chars(t), 0 + 1, 0 + Len(Chars(t)))
      BY <1>1, <2>1, <2>2, <2>3
    <2>5. SubSeq(Chars(t), 0 + 1, 0 + Len(Chars(t))) = Chars(t)
      BY <2>3, WholePart
    <2>6. Body(x).text = t /\ x.str = str[v]
      BY <1>1, <1>2, <2>1 DEF Body
    <2> QED BY <2>2, <2>4, <2>5, <2>6
  <1>3. CASE ~ IsOwn(v) /\ Copied(v, x)
    BY <1>1, <1>3, EncodeIsText DEF Copied
  <1> QED BY <1>2, <1>3

\* A bookmark that converting leaves.
LEMMA MarkLeft ==
  ASSUME Avoids = {"parts", "marks"}, NEW v, NEW m \in Marks, MayConvert(v, m),
         NEW t, IsText(t), Len(t) <= MaxBody, NEW s, MarkIn(m, s, t),
         s.offset \in Nat, s.num \in Nat, s.offset + s.num <= NumChars(t)
  PROVE  m = NoMark \/ (m.char \in Negative /\ m.byte \in Negative)
  <1>1. m.char = 0 \/ m.char >= IndexSize \div 2
    BY DEF MayConvert
  <1>2. ASSUME m.char > 0, m.char \in s.offset..s.offset + s.num PROVE FALSE
    <2>1. NumChars(t) \in Nat /\ Len(t) \in Nat /\ NumChars(t) <= Len(t)
      <3>1. NumChars(t) \in Nat /\ Len(t) \in Nat
        BY TextIs
      <3>2. 0 \in 0..NumChars(t)
        BY <3>1
      <3>3. 0 + (NumChars(t) - 0) <= Len(t)
        BY <3>2, StartIs
      <3> QED BY <3>1, <3>3
    <2>2. PICK k \in Nat, N \in Nat, M \in Nat, I \in Nat :
              k = m.char /\ N = NumChars(t) /\ M = MaxBody /\ I = IndexSize
      BY <2>1, StringsAssumption DEF Marks, Index
    <2>3. 0 < k /\ k <= N /\ N <= M /\ I > 4 * M
      BY <1>2, <2>1, <2>2, StringsAssumption
    <2>4. k >= I \div 2
      BY <1>1, <1>2, <2>2
    <2> QED BY <2>2, <2>3, <2>4, SMTT(30)
  <1> QED BY <1>2 DEF MarkIn

\* A string with a body of its own gets another text.
LEMMA RewriteIs ==
  ASSUME IInv, Avoids = {"parts", "marks"}, NEW v \in Vars, NEW x, Alone(v, x), x.str.offset = 0,
         NEW w \in Seq(Letters), NEW m \in Marks, m = NoMark \/ m = x.mark,
         Rewrite(v, x, w, m), val' = [val EXCEPT ![v] = w]
  PROVE  IInv'
  <1> DEFINE b == x.str.body
             n == Len(w)
             new == [text |-> Encode(w), count |-> Len(w)]
             s == [body |-> b, offset |-> 0, num |-> n]
             y == [str |-> s, mark |-> m, bodies |-> Put(x.bodies, b, w, n)]
  <1>1. /\ Holds(x, val[v]) /\ Small(x.bodies) /\ OthersKept(v, x) /\ b \in Bodies
        /\ \A u \in Vars \ {v} : str[u].body # b
    BY DEF Alone
  <1>2. /\ MayConvert(v, m)
        /\ Become(v, [x EXCEPT !.mark = m, !.str.num = n, !.bodies[b] = new])
    BY DEF Rewrite
  <1>3. /\ x.str \in Slices /\ x = [str |-> x.str, mark |-> x.mark, bodies |-> x.bodies]
        /\ Stored(x.bodies)
    BY <1>1, HoldsIs DEF Holds
  <1>4. [x EXCEPT !.mark = m, !.str.num = n, !.bodies[b] = new] = y
    <2>1. PICK e, r, k, bs, g, h, s0, s1 :
              /\ e = b /\ r = x.str /\ k = x.mark /\ bs = x.bodies /\ g = new /\ h = n
              /\ s0 = [body |-> e, offset |-> 0, num |-> x.str.num] /\ s1 = [body |-> e, offset |-> 0, num |-> h]
      OBVIOUS
    <2>2. r = s0
      BY <1>3, <2>1 DEF Slices
    <2>3. x = [str |-> s0, mark |-> k, bodies |-> bs]
      BY <1>3, <2>1, <2>2
    <2>4. PICK y1 : y1 = [x EXCEPT !.mark = m]
      OBVIOUS
    <2>5. PICK y2 : y2 = [y1 EXCEPT !.str.num = h]
      OBVIOUS
    <2>6. y1 = [str |-> s0, mark |-> m, bodies |-> bs]
      BY <2>3, <2>4
    <2>7. [s0 EXCEPT !.num = h] = s1
      BY <2>1
    <2>8. y2 = [str |-> s1, mark |-> m, bodies |-> bs]
      BY <2>5, <2>6, <2>7
    <2>9. [y2 EXCEPT !.bodies[e] = g] = [str |-> s1, mark |-> m, bodies |-> [bs EXCEPT ![e] = g]]
      BY <2>8
    <2>10. [x EXCEPT !.mark = m, !.str.num = h, !.bodies[e] = g] = [y2 EXCEPT !.bodies[e] = g]
      BY <2>4, <2>5
    <2>11. Put(x.bodies, b, w, n) = [bs EXCEPT ![e] = g]
      BY <2>1 DEF Put
    <2> HIDE DEF new, n, b
    <2> QED BY <2>1, <2>9, <2>10, <2>11
  <1> HIDE DEF new
  <1>5. MarkIn(m, s, Encode(w))
    <2>1. s.offset = 0
      OBVIOUS
    <2> HIDE DEF s
    <2>2. CASE m = NoMark
      BY <2>2 DEF MarkIn
    <2>3. CASE m = x.mark
      <3>1. /\ x.str.offset \in Nat /\ x.str.num \in Nat /\ x.str.offset + x.str.num <= NumChars(Body(x).text)
            /\ IsText(Body(x).text) /\ MarkIn(x.mark, x.str, Body(x).text)
        BY <1>1, HoldsIs DEF Holds
      <3>2. Len(Body(x).text) <= MaxBody
        BY <1>1 DEF Small, Body
      <3>3. m = NoMark \/ (m.char \in Negative /\ m.byte \in Negative)
        BY <1>2, <2>3, <3>1, <3>2, MarkLeft
      <3> QED BY <2>1, <3>3 DEF MarkIn
    <2> QED BY <2>2, <2>3
  <1>6. n \in Nat /\ n <= Len(w) /\ (n = 0 => w = <<>>) /\ n \in {0, Len(w)}
    BY EmptySeq
  <1>7. SubSeq(w, 0 + 1, 0 + n) = w
    BY WholePart
  <1> HIDE DEF n, b
  <1>8. Holds(y, w)
    <2>1. Holds(y, SubSeq(w, 0 + 1, 0 + n))
      BY <1>1, <1>3, <1>5, <1>6, ChangedIs
    <2> HIDE DEF y
    <2> QED BY <1>7, <2>1
  <1>9. OthersKept(v, y)
    <2>1. y.bodies = Put(x.bodies, b, w, n)
      OBVIOUS
    <2> HIDE DEF y
    <2> QED BY <1>1, <1>3, <1>6, <2>1, ChangedAlone
  <1>10. Become(v, y)
    BY <1>2, <1>4 DEF b, n
  <1> HIDE DEF y
  <1> QED BY <1>8, <1>9, <1>10, BecomeIs

\* What each character is converted to.
Pieces(s, f, after) == [i \in DOMAIN s |-> IF i - 1 > after THEN f[s[i]] ELSE <<s[i]>>]

\* StringValues flattens in the same way.
LEMMA FlattenedAlike ==
  ASSUME NEW q
  PROVE  Promise!FlattenSeq(q) = FlattenSeq(q)
  BY DEF FlattenSeq, Promise!FlattenSeq

\* They make a sequence of letters.
LEMMA PiecesAre ==
  ASSUME NEW s \in Seq(Letters), NEW f \in Conversions, NEW after
  PROVE  FlattenSeq(Pieces(s, f, after)) \in Seq(Letters)
  <1>1. f \in [Letters -> Seq(Letters)]
    BY StringsAssumption
  <1>2. PICK q : q = Pieces(s, f, after)
    OBVIOUS
  <1>3. ASSUME NEW i \in DOMAIN s PROVE (IF i - 1 > after THEN f[s[i]] ELSE <<s[i]>>) \in Seq(Letters)
    <2>1. s[i] \in Letters
      OBVIOUS
    <2>2. <<s[i]>> \in Seq(Letters) /\ f[s[i]] \in Seq(Letters)
      BY <1>1, <2>1
    <2> QED BY <2>2
  <1>4. q \in [1..Len(s) -> Seq(Letters)] /\ Len(s) \in Nat
    BY <1>2, <1>3 DEF Pieces
  <1>5. q \in Seq(Seq(Letters))
    BY <1>4
  <1> QED BY <1>2, <1>5, JoinsExists, FlattenIs

\* transform, which drops the bookmark
LEMMA TransformSafe ==
  ASSUME IInv, Avoids = {"parts", "marks"}, NEW v \in Vars, NEW f \in Conversions, NEW after, Transform(v, f, after)
  PROVE  IInv'
  <1> DEFINE x == Unshare(This(v))
             w == FlattenSeq(Pieces(val[v], f, after))
  <1>1. /\ Alone(v, x)
        /\ \/ IsOwn(v) /\ x = This(v)
           \/ ~ IsOwn(v) /\ Copied(v, x)
    BY UnshareIs
  <1>2. Rewrite(v, x, Converted(Body(x).text, f, after), NoMark)
    BY DEF Transform
  <1>3. val' = [val EXCEPT ![v] = w]
    <2>1. val' = [val EXCEPT ![v] = Promise!FlattenSeq(Pieces(val[v], f, after))]
      BY DEF Transform, Promise!Convert, Promise!Becomes, Pieces
    <2> QED BY <2>1, FlattenedAlike
  <1> HIDE DEF x
  <1>4. x.str.offset = 0 /\ Chars(Body(x).text) = val[v]
    BY <1>1, <1>2, WholeText DEF Rewrite
  <1>5. Converted(Body(x).text, f, after) = w
    BY <1>4 DEF Converted, Pieces
  <1>6. w \in Seq(Letters)
    BY PiecesAre, ThisIs
  <1> HIDE DEF w
  <1>7. NoMark \in Marks
    BY StringsAssumption DEF NoMark, Marks, Index
  <1> QED BY <1>1, <1>2, <1>3, <1>4, <1>5, <1>6, <1>7, RewriteIs

\* toLower, toUpper and toJSON, which leave it
LEMMA ConvertSafe ==
  ASSUME IInv, Avoids = {"parts", "marks"}, NEW v \in Vars, NEW f \in Conversions, Convert(v, f)
  PROVE  IInv'
  <1> DEFINE x == Unshare(This(v))
             w == FlattenSeq(Pieces(val[v], f, -1))
  <1>1. /\ Alone(v, x)
        /\ \/ IsOwn(v) /\ x = This(v)
           \/ ~ IsOwn(v) /\ Copied(v, x)
    BY UnshareIs
  <1>2. Rewrite(v, x, Converted(Body(x).text, f, -1), x.mark)
    BY DEF Convert
  <1>3. val' = [val EXCEPT ![v] = w]
    <2>1. val' = [val EXCEPT ![v] = Promise!FlattenSeq(Pieces(val[v], f, -1))]
      BY DEF Convert, Promise!Convert, Promise!Becomes, Pieces
    <2> QED BY <2>1, FlattenedAlike
  <1> HIDE DEF x
  <1>4. x.str.offset = 0 /\ Chars(Body(x).text) = val[v]
    BY <1>1, <1>2, WholeText DEF Rewrite
  <1>5. Converted(Body(x).text, f, -1) = w
    BY <1>4 DEF Converted, Pieces
  <1>6. w \in Seq(Letters)
    BY PiecesAre, ThisIs
  <1> HIDE DEF w
  <1>7. x.mark \in Marks
    BY <1>1, HoldsIs DEF Alone
  <1> QED BY <1>1, <1>2, <1>3, <1>4, <1>5, <1>6, <1>7, RewriteIs
-------------------------------------------------------------------------------
(***************************************************************************)
(* The invariant, and what it says.                                        *)
(***************************************************************************)
LEMMA InitSafe ==
  ASSUME Init
  PROVE  IInv
  <1>1. NullBody \in Bodies /\ Statics \subseteq Bodies /\ StaticText \in Seq(Letters)
    BY StringsAssumption
  <1>2. /\ IsText(Encode(StaticText)) /\ NumChars(Encode(StaticText)) = Len(StaticText)
        /\ Encode(StaticText) \in Seq(0..6) /\ Len(StaticText) \in Nat
    <2>1. IsText(Encode(StaticText)) /\ NumChars(Encode(StaticText)) = Len(StaticText)
      BY <1>1, EncodeIsText
    <2> QED BY <1>1, <2>1 DEF IsText
  <1>3. IsText(<<>>) /\ NumChars(<<>>) = 0 /\ <<>> \in Seq(0..6) /\ Len(<<>>) = 0
    BY NoTextIs
  <1>4. \A b \in Bodies : bodies[b] = IF b \in Statics \ {NullBody}
                                      THEN [text |-> Encode(StaticText), count |-> Len(StaticText)]
                                      ELSE [text |-> <<>>, count |-> 0]
    BY DEF Init, NoText
  <1>5. bodies \in Stores
    <2>1. ASSUME NEW b \in Bodies PROVE bodies[b] \in [text : Seq(0..6), count : Nat]
      <3>1. PICK t, n : t = Encode(StaticText) /\ n = Len(StaticText)
        OBVIOUS
      <3>2. [text |-> t, count |-> n] \in [text : Seq(0..6), count : Nat]
        BY <1>2, <3>1
      <3>3. PICK e : e = <<>> /\ e \in Seq(0..6)
        BY <1>3
      <3>4. [text |-> e, count |-> 0] \in [text : Seq(0..6), count : Nat]
        BY <3>3
      <3> QED BY <1>4, <3>1, <3>2, <3>3, <3>4, Zenon
    <2>2. bodies = [b \in Bodies |-> bodies[b]]
      BY DEF Init
    <2> QED BY <2>1, <2>2 DEF Stores
  <1>6. Stored(bodies) /\ Small(bodies)
    <2>1. ASSUME NEW b \in Bodies
          PROVE  /\ IsText(bodies[b].text) /\ bodies[b].count \in {0, NumChars(bodies[b].text)}
                 /\ Len(bodies[b].text) <= MaxBody
      <3>1. CASE b \in Statics \ {NullBody}
        <4>1. bodies[b].text = Encode(StaticText) /\ bodies[b].count = Len(StaticText)
          BY <1>4, <3>1
        <4> QED BY <1>2, <4>1, StringsAssumption
      <3>2. CASE b \notin Statics \ {NullBody}
        <4>1. bodies[b].text = <<>> /\ bodies[b].count = 0
          BY <1>4, <3>2
        <4> QED BY <1>3, <4>1, StringsAssumption
      <3> QED BY <3>1, <3>2
    <2> QED BY <1>5, <2>1 DEF Stored, Small, Stores
  <1>7. Null \in Slices /\ NoMark \in Marks
    BY <1>1, StringsAssumption DEF Null, Slices, NoMark, Marks, Index
  <1>8. str \in [Vars -> Slices] /\ mark \in [Vars -> Marks] /\ val \in [Vars -> Seq(Letters)]
    <2>1. <<>> \in Seq(Letters)
      OBVIOUS
    <2> QED BY <1>7, <2>1 DEF Init, Promise!Init
  <1>9. ASSUME NEW v \in Vars PROVE Holds(This(v), val[v])
    <2>1. val[v] = <<>> /\ This(v) = [str |-> [body |-> NullBody, offset |-> 0, num |-> 0],
                                      mark |-> NoMark, bodies |-> bodies]
      BY DEF Init, Promise!Init, This, Null
    <2>2. bodies[NullBody].text = <<>>
      BY <1>1, <1>4
    <2>3. Holds([str |-> [body |-> NullBody, offset |-> 0, num |-> 0], mark |-> NoMark, bodies |-> bodies],
                SubSeq(Chars(bodies[NullBody].text), 0 + 1, 0 + 0))
      <3>1. 0 \in Nat /\ 0 + 0 <= NumChars(bodies[NullBody].text)
        BY <1>3, <2>2
      <3> QED BY <1>1, <1>6, <2>2, <3>1, HoldsSlice
    <2>4. SubSeq(Chars(bodies[NullBody].text), 0 + 1, 0 + 0) = <<>>
      <3>1. Chars(bodies[NullBody].text) \in Seq(Letters)
        BY <1>3, <2>2, TextIs
      <3> QED BY <3>1, SubSeqEmpty
    <2> QED BY <2>1, <2>3, <2>4
  <1> QED BY <1>6, <1>8, <1>9 DEF IInv

\* Every operation keeps the invariant.
LEMMA NextSafe ==
  ASSUME IInv, Avoids = {"parts", "marks"}, [Next]_vars
  PROVE  IInv'
  <1>1. CASE UNCHANGED vars
    BY <1>1 DEF IInv, vars, This
  <1>2. CASE Next
    <2>1. PICK v \in Vars :
             \/ \E s \in Inputs : Construct(v, s)
             \/ \E b \in Statics \ {NullBody} : Refer(v, b)
             \/ \E n \in 0..str[v].num - 1 : Read(v, n)
             \/ AsUTF8(v)
             \/ \E c \in Letters : ConstructChar(v, c) \/ AppendChar(v, c)
             \/ \E f \in Conversions : Convert(v, f) \/ \E after \in 0..1 : Transform(v, f, after)
             \/ \E w \in Vars :
                    \/ Assign(v, w) \/ CopyConstruct(v, w)
                    \/ \E at \in 0..str[w].num : \E len \in 0..str[w].num - at + 1 : Substr(v, w, at, len)
                    \/ \E pos \in 0..str[v].num : Insert(v, pos, w)
                    \/ AddAssign(v, w)
                    \/ \E u \in Vars : Plus(v, w, u)
      BY <1>2, Zenon DEF Next
    <2>2. ASSUME NEW s \in Inputs, Construct(v, s) PROVE IInv'
      BY <2>2, ConstructSafe
    <2>3. ASSUME NEW b \in Statics \ {NullBody}, Refer(v, b) PROVE IInv'
      BY <2>3, ReferSafe
    <2>4. ASSUME NEW n \in 0..str[v].num - 1, Read(v, n) PROVE IInv'
      BY <2>4, ReadSafe
    <2>5. ASSUME AsUTF8(v) PROVE IInv'
      BY <2>5, AsUTF8Safe
    <2>6. ASSUME NEW c \in Letters, ConstructChar(v, c) \/ AppendChar(v, c) PROVE IInv'
      BY <2>6, ConstructCharSafe, AppendCharSafe
    <2>7. ASSUME NEW f \in Conversions, Convert(v, f) \/ \E after \in 0..1 : Transform(v, f, after) PROVE IInv'
      BY <2>7, ConvertSafe, TransformSafe
    <2>8. ASSUME NEW w \in Vars, Assign(v, w) \/ CopyConstruct(v, w) \/ AddAssign(v, w) PROVE IInv'
      BY <2>8, AssignSafe, CopyConstructSafe, AddAssignSafe
    <2>9. ASSUME NEW w \in Vars, NEW at \in 0..str[w].num, NEW len \in 0..str[w].num - at + 1,
                 Substr(v, w, at, len)
          PROVE  IInv'
      <3>1. len \in Nat
        BY <2>9
      <3> QED BY <2>9, <3>1, SubstrSafe
    <2>10. ASSUME NEW w \in Vars, NEW pos \in 0..str[v].num, Insert(v, pos, w) PROVE IInv'
      BY <2>10, InsertSafe
    <2>11. ASSUME NEW w \in Vars, NEW u \in Vars, Plus(v, w, u) PROVE IInv'
      BY <2>11, PlusSafe
    <2> QED BY <2>1, <2>2, <2>3, <2>4, <2>5, <2>6, <2>7, <2>8, <2>9, <2>10, <2>11, Zenon
  <1> QED BY <1>1, <1>2

\* The inductive invariant holds: every slice is in its text and every bookmark
\* at the start of a character or negative, through all the operations of strval.h.
THEOREM Invariance ==
  ASSUME Avoids = {"parts", "marks"}
  PROVE  Spec => []IInv
  <1>1. Init => IInv
    BY InitSafe
  <1>2. IInv /\ [Next]_vars => IInv'
    BY NextSafe
  <1> QED BY <1>1, <1>2, PTL DEF Spec

\* The types follow: a text has no more characters than bytes.
LEMMA TypeHolds ==
  ASSUME IInv
  PROVE  TypeOK
  <1>1. ASSUME NEW t, IsText(t), Len(t) <= MaxBody PROVE NumChars(t) \in Nat /\ NumChars(t) < IndexSize
    <2>1. NumChars(t) \in Nat /\ Len(t) \in Nat
      BY <1>1, TextIs
    <2>2. 0 \in 0..NumChars(t)
      BY <2>1
    <2>3. 0 + (NumChars(t) - 0) <= Len(t)
      BY <1>1, <2>2, StartIs
    <2> QED BY <1>1, <2>1, <2>3, StringsAssumption
  <1>2. ASSUME NEW v \in Vars PROVE str[v] \in [body : Bodies, offset : Index, num : Index]
    <2>1. PICK t : t = bodies[str[v].body].text
      OBVIOUS
    <2>2. /\ str[v].body \in Bodies /\ str[v].offset \in Nat /\ str[v].num \in Nat
          /\ IsText(t) /\ str[v].offset + str[v].num <= NumChars(t) /\ Small(bodies)
      BY <2>1, ThisIs
    <2>3. NumChars(t) \in Nat /\ NumChars(t) < IndexSize
      BY <1>1, <2>1, <2>2 DEF Small
    <2>4. str[v].offset \in Index /\ str[v].num \in Index
      BY <2>2, <2>3, StringsAssumption DEF Index
    <2>5. str[v] \in Slices
      BY DEF IInv
    <2> QED BY <2>2, <2>4, <2>5 DEF Slices
  <1>3. ASSUME NEW b \in Bodies PROVE bodies[b] \in [text : Seq(0..6), count : Index]
    <2>1. PICK t : t = bodies[b].text
      OBVIOUS
    <2>2. bodies[b] \in [text : Seq(0..6), count : Nat] /\ IsText(t) /\ Len(t) <= MaxBody
          /\ bodies[b].count \in {0, NumChars(t)}
      BY <2>1 DEF IInv, Stored, Small
    <2>3. NumChars(t) \in Nat /\ NumChars(t) < IndexSize
      BY <1>1, <2>2
    <2>4. bodies[b].count \in Index
      BY <2>2, <2>3, StringsAssumption DEF Index
    <2> QED BY <2>2, <2>4
  <1> QED BY <1>2, <1>3 DEF IInv, TypeOK, Marks, Stored

\* Every string, bookmark and body has its type; no number is as large as
\* StrValIndex can count.
THEOREM TypeCorrect ==
  ASSUME Avoids = {"parts", "marks"}
  PROVE  Spec => []TypeOK
  <1>1. IInv => TypeOK
    BY TypeHolds
  <1> QED BY <1>1, Invariance, PTL

\* Every string holds what it was made to hold, whatever others share its body.
THEOREM ValuesKept ==
  ASSUME Avoids = {"parts", "marks"}
  PROVE  Spec => []ByValue
  <1>1. IInv => ByValue
    BY ThisIs DEF ByValue
  <1> QED BY <1>1, Invariance, PTL

\* The bytes of one character are between its start and the next.
LEMMA ReadHolds ==
  ASSUME IInv
  PROVE  ReadsRight
  <1> SUFFICES ASSUME NEW v \in Vars, NEW n \in DOMAIN val[v]
               PROVE  LET p == ConstNth(This(v), n - 1).ptr
                          t == bodies[str[v].body].text
                      IN  p \in 0..Len(t) - 1 /\ val[v][n] = SubSeq(t, p + 1, p + UTF8Len(t, p))
    BY DEF ReadsRight
  <1> DEFINE p == ConstNth(This(v), n - 1).ptr
             t == bodies[str[v].body].text
             o == str[v].offset
             s == Chars(t)
  <1>1. /\ Holds(This(v), val[v]) /\ This(v).str = str[v] /\ Body(This(v)).text = t /\ Small(This(v).bodies)
        /\ val[v] \in Seq(Letters) /\ Len(val[v]) = str[v].num
    BY ThisIs DEF This, Body
  <1>2. PICK num \in Nat, N \in Nat :
            num = str[v].num /\ N = NumChars(t) /\ IsText(t) /\ o \in Nat /\ o + num <= N /\ n \in 1..num
    BY <1>1, ThisIs
  <1>3. p = Starts(t)[o + (n - 1)]
    <2>1. n - 1 \in 0..This(v).str.num
      BY <1>1, <1>2
    <2> QED BY <1>1, <2>1, ConstNthIs
  <1> HIDE DEF p, t, o
  <1>4. PICK k \in Nat : k = o + n /\ k - 1 = o + (n - 1) /\ 1 <= k /\ k <= N /\ k - 1 \in Nat
    BY <1>2
  <1>5. p \in Nat /\ p + UTF8Len(t, p) = Starts(t)[k] /\ Starts(t)[k] \in Nat /\ p < Starts(t)[k]
    <2>1. k \in 1..NumChars(t)
      BY <1>2, <1>4
    <2> QED BY <1>2, <1>3, <1>4, <2>1, NextStart
  <1>6. Starts(t)[k] <= Len(t) /\ Len(t) \in Nat
    <2>1. k \in 0..NumChars(t) /\ k \in k..NumChars(t)
      BY <1>2, <1>4
    <2> QED BY <1>2, <2>1, StartsInOrder
  <1>7. /\ s \in Seq(Letters) /\ s \in Seq(Characters) /\ Len(s) = N /\ t = Encode(s)
    BY <1>2, TextIs
  <1> HIDE DEF s
  <1>8. Starts(t)[k - 1] = Offsets(s)[k - 1] /\ Starts(t)[k] = Offsets(s)[k]
    <2>1. k \in 0..NumChars(t) /\ k - 1 \in 0..NumChars(t)
      BY <1>2, <1>4
    <2> QED BY <1>2, <2>1, StartIs DEF s
  <1>9. PICK c \in Letters : c = s[k]
    BY <1>4, <1>7
  <1>10. SubSeq(t, p + 1, Starts(t)[k]) = c
    <2>1. PICK i \in Nat : i = k - 1 /\ i + 1 = k
      BY <1>4
    <2>2. i + 1 <= Len(s) /\ 1 \in Nat
      BY <1>4, <1>7, <2>1
    <2>3. SubSeq(Encode(s), Offsets(s)[i] + 1, Offsets(s)[i + 1]) = Encode(SubSeq(s, i + 1, i + 1))
      BY <1>7, <2>2, EncodePart
    <2>4. SubSeq(s, i + 1, i + 1) = <<c>>
      <3>1. PICK r : r = SubSeq(s, i + 1, i + 1)
        OBVIOUS
      <3>2. r \in Seq(Letters) /\ Len(r) = 1 /\ \A j \in 1..1 : r[j] = s[i + j]
        <4>1. /\ SubSeq(s, i + 1, i + 1) \in Seq(Letters) /\ Len(SubSeq(s, i + 1, i + 1)) = 1
              /\ \A j \in 1..1 : SubSeq(s, i + 1, i + 1)[j] = s[i + j]
          BY <1>7, <2>2, PartOf
        <4> QED BY <3>1, <4>1
      <3>3. r[1] = c
        BY <1>9, <2>1, <3>2
      <3>4. PICK q : q = <<c>> /\ q \in Seq(Letters) /\ Len(q) = 1 /\ q[1] = c
        <4>1. <<c>> \in Seq(Letters) /\ Len(<<c>>) = 1 /\ <<c>>[1] = c
          OBVIOUS
        <4> QED BY <4>1, Zenon
      <3>5. r = q
        BY <3>2, <3>3, <3>4, SeqEqual
      <3> QED BY <3>1, <3>4, <3>5
    <2>5. Encode(<<c>>) = c
      BY EncodeOne, StringsAssumption
    <2> QED BY <1>3, <1>4, <1>7, <1>8, <1>9, <2>1, <2>3, <2>4, <2>5
  <1>11. val[v][n] = c
    <2>1. n \in 1..This(v).str.num
      BY <1>1, <1>2
    <2>2. val[v][n] = Chars(Body(This(v)).text)[This(v).str.offset + n]
      BY <1>1, <2>1, SliceBytes
    <2> QED BY <1>1, <1>4, <1>9, <2>2 DEF s, o
  <1>12. p \in 0..Len(t) - 1
    BY <1>5, <1>6
  <1>13. val[v][n] = SubSeq(t, p + 1, p + UTF8Len(t, p))
    BY <1>5, <1>10, <1>11
  <1> QED BY <1>12, <1>13 DEF p, t

\* operator[] reads the right character, from any bookmark and in any direction.
THEOREM ReadsAreRight ==
  ASSUME Avoids = {"parts", "marks"}
  PROVE  Spec => []ReadsRight
  <1>1. IInv => ReadsRight
    BY ReadHolds
  <1> QED BY <1>1, Invariance, PTL

\* A body's count, when it has one, is that of its characters.
THEOREM CountsAreExact ==
  ASSUME Avoids = {"parts", "marks"}
  PROVE  Spec => []CountsExact
  <1>1. ASSUME IInv, NEW b \in Bodies PROVE Counted(bodies[b]) = NumChars(bodies[b].text)
    <2>1. IsText(bodies[b].text) /\ bodies[b].count \in {0, NumChars(bodies[b].text)}
      BY <1>1 DEF IInv, Stored
    <2>2. NumChars(bodies[b].text) \in Nat
      BY <2>1, TextIs
    <2> QED BY <2>1, <2>2, CountedIs
  <1>2. IInv => CountsExact
    BY <1>1 DEF CountsExact
  <1> QED BY <1>2, Invariance, PTL
==============================================================================
