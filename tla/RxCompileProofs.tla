--------------------------- MODULE RxCompileProofs ---------------------------
(***************************************************************************)
(* Proofs about RxCompile, for any tokens, expressions of any length, and   *)
(* any limits of the coding of numbers: the sizes that the first pass adds  *)
(* up are enough for the second, and the places it reserves are found.      *)
(***************************************************************************)
EXTENDS RxCompile, SequenceTheorems, NatLemmas

----------------------------------------------------------------------------
(* Numbers                                                                 *)

\* A number takes from one to three bytes, and a greater one no fewer.
LEMMA LenIs ==
  ASSUME NEW n \in Int
  PROVE  UTF8Len(n) \in Nat /\ 1 <= UTF8Len(n) /\ UTF8Len(n) <= 3
  BY DEF UTF8Len

LEMMA LenGrows ==
  ASSUME NEW n \in Int, NEW m \in Int, n <= m
  PROVE  UTF8Len(n) <= UTF8Len(m)
  BY RxLimits DEF UTF8Len

\* The sign of a number is kept in its last bit.
LEMMA ZigzagIs ==
  ASSUME NEW i \in Int
  PROVE  /\ Zigzag(i) \in Nat /\ Zagzig(Zigzag(i)) = i
         /\ i < 0 => Zigzag(i) = 1 - 2 * i
         /\ i >= 0 => Zigzag(i) = 2 * i
  <1>1. i < 0 => Zigzag(i) = 1 - 2 * i
    BY DEF Zigzag, Magnitude
  <1>2. i >= 0 => Zigzag(i) = 2 * i
    BY DEF Zigzag, Magnitude
  <1>3. ASSUME i < 0 PROVE Zagzig(1 - 2 * i) = i
    BY <1>3 DEF Zagzig
  <1>4. ASSUME i >= 0 PROVE Zagzig(2 * i) = i
    BY <1>4 DEF Zagzig
  <1> QED BY <1>1, <1>2, <1>3, <1>4

StationBytes == UTF8Len(Zigzag(station_count))

LEMMA StationsAre ==
  ASSUME station_count \in Nat
  PROVE  StationBytes \in Nat
  <1>1. Zigzag(station_count) \in Int
    BY ZigzagIs
  <1> QED BY <1>1, LenIs DEF StationBytes

\* The greatest size of the code with its Null.
Room == bytes_required + offsets_required * OffsetMaxBytes

\* The width that is reserved for offsets is enough for those that stay within
\* the code: it was computed with a width that is no less.
LEMMA WidthIs ==
  ASSUME bytes_required \in Nat, offsets_required \in Nat
  PROVE  /\ OffsetMaxBytes \in Nat /\ 1 <= OffsetMaxBytes /\ OffsetMaxBytes <= 3
         /\ Room \in Nat
         /\ \A i \in Int : -Room < i /\ i < Room => UTF8Len(Zigzag(i)) <= OffsetMaxBytes
  <1> DEFINE B == bytes_required
             O == offsets_required
  <1>1. PICK widest \in Nat : widest = UTF8Len(2 * (B + O * 4)) /\ 1 <= widest /\ widest <= 3
    BY LenIs
  <1>2. PICK w \in Nat : w = UTF8Len(2 * (B + O * widest)) /\ 1 <= w /\ w <= 3
    BY LenIs
  <1>3. w = OffsetMaxBytes
    BY <1>1, <1>2 DEF OffsetMaxBytes
  <1>4. widest = 1 \/ widest = 2 \/ widest = 3
    BY <1>1
  <1>5. w <= widest
    <2>1. B + O * widest <= B + O * 4
      BY <1>4
    <2>2. 2 * (B + O * widest) \in Int /\ 2 * (B + O * 4) \in Int
      OBVIOUS
    <2>3. 2 * (B + O * widest) <= 2 * (B + O * 4)
      BY <2>1
    <2> QED BY <1>1, <1>2, <2>2, <2>3, LenGrows
  <1>6. B + O * w <= B + O * widest
    <2>1. w = 1 \/ w = 2 \/ w = 3
      BY <1>2
    <2> QED BY <1>4, <1>5, <2>1
  <1>7. Room \in Nat /\ Room <= B + O * widest
    BY <1>3, <1>6 DEF Room
  <1>8. ASSUME NEW i \in Int, -Room < i, i < Room PROVE UTF8Len(Zigzag(i)) <= w
    <2>1. Zigzag(i) \in Nat /\ Zigzag(i) <= 2 * Room
      <3>1. Room \in Nat
        BY <1>7
      <3>2. PICK r \in Nat : r = Room
        BY <3>1
      <3> QED BY <1>8, <3>2, ZigzagIs
    <2>2. PICK m \in Nat : m = B + O * widest
      OBVIOUS
    <2>3. Room <= m
      BY <1>7, <2>2
    <2>4. Zigzag(i) <= 2 * m
      BY <1>7, <2>1, <2>3
    <2> QED BY <1>2, <2>1, <2>2, <2>4, LenGrows
  <1> QED BY <1>2, <1>3, <1>7, <1>8

----------------------------------------------------------------------------
(* Pieces of code                                                          *)

OpNames == TokenOps \cup {"Start", "Accept", "Char", "Split", "Jump", "Zero", "Count", "CaptureStart",
                          "CaptureEnd", "Null", "number", "byte", "more", "pad"}
Cells == [op : OpNames, num : Nat]
Codes == Seq(Cells)

LEMMA CodeLength ==
  ASSUME NEW c \in Codes
  PROVE  Len(c) \in Nat
  BY DEF Codes

\* Two pieces of code, one behind the other.
LEMMA JoinIs ==
  ASSUME NEW c \in Codes, NEW d \in Codes
  PROVE  /\ c \o d \in Codes /\ Len(c \o d) = Len(c) + Len(d)
         /\ \A i \in 1..Len(c) : (c \o d)[i] = c[i]
         /\ \A i \in 1..Len(d) : (c \o d)[Len(c) + i] = d[i]
  <1> HIDE DEF Cells
  <1> QED BY DEF Codes

LEMMA JoinSized ==
  ASSUME NEW c \in Codes, NEW d \in Codes, NEW n \in Nat, NEW m \in Nat, Len(c) = n, Len(d) = m
  PROVE  /\ c \o d \in Codes /\ Len(c \o d) = n + m
         /\ \A i \in 1..n : (c \o d)[i] = c[i]
         /\ \A i \in 1..m : (c \o d)[n + i] = d[i]
  BY JoinIs

LEMMA AppendIs ==
  ASSUME NEW c \in Codes, NEW x \in Cells
  PROVE  /\ Append(c, x) \in Codes /\ Len(Append(c, x)) = Len(c) + 1
         /\ \A i \in 1..Len(c) : Append(c, x)[i] = c[i]
         /\ Append(c, x)[Len(c) + 1] = x
  <1> HIDE DEF Cells
  <1> QED BY DEF Codes

\* The front of the code, and what is behind it.
LEMMA FrontIs ==
  ASSUME NEW c \in Codes, NEW n \in Nat, n <= Len(c)
  PROVE  /\ SubSeq(c, 1, n) \in Codes /\ Len(SubSeq(c, 1, n)) = n
         /\ \A i \in 1..n : SubSeq(c, 1, n)[i] = c[i]
  <1> HIDE DEF Cells
  <1> QED BY DEF Codes

LEMMA BackIs ==
  ASSUME NEW c \in Codes, NEW n \in Nat, n <= Len(c)
  PROVE  /\ SubSeq(c, n + 1, Len(c)) \in Codes
         /\ Len(SubSeq(c, n + 1, Len(c))) = Len(c) - n
         /\ \A i \in 1..Len(c) - n : SubSeq(c, n + 1, Len(c))[i] = c[n + i]
  <1> HIDE DEF Cells
  <1> QED BY DEF Codes

LEMMA CellIs ==
  ASSUME NEW o \in OpNames, NEW n \in Nat
  PROVE  [op |-> o, num |-> n] \in Cells
  BY DEF Cells

LEMMA CellsAre ==
  /\ \A o \in OpNames : Op(o) \in Cells
  /\ \A n \in Nat : Num(n) \in Cells /\ Byte(n) \in Cells
  /\ More \in Cells /\ Pad \in Cells /\ Null \in Cells
  <1>1. \A o \in OpNames : Op(o) \in Cells
    BY CellIs DEF Op
  <1>2. ASSUME NEW n \in Nat PROVE Num(n) \in Cells /\ Byte(n) \in Cells
    <2>1. "number" \in OpNames /\ "byte" \in OpNames
      BY DEF OpNames
    <2> QED BY <2>1, CellIs DEF Num, Byte
  <1>3. More \in Cells /\ Pad \in Cells /\ Null \in Cells
    <2>1. "more" \in OpNames /\ "pad" \in OpNames /\ "Null" \in OpNames
      BY DEF OpNames
    <2> QED BY <2>1, CellIs DEF More, Pad, Null, Op
  <1> QED BY <1>1, <1>2, <1>3

\* A code of one cell, and one of the same cell several times.
LEMMA CellCode ==
  ASSUME NEW x \in Cells
  PROVE  <<x>> \in Codes /\ Len(<<x>>) = 1 /\ <<x>>[1] = x
  <1> HIDE DEF Cells
  <1> QED BY DEF Codes

LEMMA FilledCode ==
  ASSUME NEW x \in Cells, NEW n \in Nat
  PROVE  [k \in 1..n |-> x] \in Codes /\ Len([k \in 1..n |-> x]) = n
  <1> HIDE DEF Cells
  <1> QED BY DEF Codes

LEMMA NoCode == <<>> \in Codes /\ Len(<<>>) = 0
  <1> HIDE DEF Cells
  <1> QED BY DEF Codes

LEMMA PairCode ==
  ASSUME NEW x \in Cells, NEW y \in Cells
  PROVE  <<x, y>> \in Codes /\ Len(<<x, y>>) = 2 /\ <<x, y>>[1] = x /\ <<x, y>>[2] = y
  <1> HIDE DEF Cells
  <1> QED BY DEF Codes

\* A number is put into its first byte.
LEMMA PutIs ==
  ASSUME NEW n \in Nat
  PROVE  UTF8Put(n) \in Codes /\ Len(UTF8Put(n)) = UTF8Len(n) /\ UTF8Put(n)[1].num = n
  <1>1. PICK u \in Nat : u = UTF8Len(n) /\ 1 <= u
    BY LenIs
  <1> DEFINE more == [k \in 1..u - 1 |-> More]
             head == <<Num(n)>>
  <1>2. more \in Codes /\ Len(more) = u - 1
    <2>1. u - 1 \in Nat
      BY <1>1
    <2> QED BY <2>1, CellsAre, FilledCode
  <1>3. head \in Codes /\ Len(head) = 1 /\ head[1] = Num(n)
    BY CellsAre, CellCode
  <1>4. UTF8Put(n) = head \o more
    BY <1>1 DEF UTF8Put
  <1> HIDE DEF more, head
  <1>5. /\ head \o more \in Codes /\ Len(head \o more) = 1 + (u - 1)
        /\ (head \o more)[1] = Num(n)
    <2>1. /\ head \o more \in Codes /\ Len(head \o more) = Len(head) + Len(more)
          /\ \A k \in 1..Len(head) : (head \o more)[k] = head[k]
      BY <1>2, <1>3, JoinIs
    <2> QED BY <1>2, <1>3, <2>1
  <1> QED BY <1>1, <1>4, <1>5 DEF Num

LEMMA EmitOffsetIs ==
  ASSUME NEW i \in Int
  PROVE  /\ EmitOffset(i) \in Codes /\ Len(EmitOffset(i)) = UTF8Len(Zigzag(i))
         /\ EmitOffset(i)[1].num = Zigzag(i)
  BY PutIs, ZigzagIs DEF EmitOffset

\* A reserved place is as wide as the widest offset.
LEMMA PaddedIs ==
  ASSUME NEW i \in Int, OffsetMaxBytes \in Nat, UTF8Len(Zigzag(i)) <= OffsetMaxBytes
  PROVE  /\ EmitPadded(i) \in Codes /\ Len(EmitPadded(i)) = OffsetMaxBytes
         /\ EmitPadded(i)[1].num = Zigzag(i)
  <1>1. PICK u \in Nat : u = UTF8Len(Zigzag(i)) /\ 1 <= u
    BY LenIs, ZigzagIs
  <1>2. PICK w \in Nat : w = OffsetMaxBytes
    OBVIOUS
  <1> DEFINE pads == [k \in 1..w - u |-> Pad]
             head == EmitOffset(i)
  <1>3. pads \in Codes /\ Len(pads) = w - u
    <2>1. w - u \in Nat
      BY <1>1, <1>2
    <2> QED BY <2>1, CellsAre, FilledCode
  <1>4. EmitPadded(i) = head \o pads
    BY <1>1, <1>2 DEF EmitPadded
  <1>5. head \in Codes /\ Len(head) = u /\ head[1].num = Zigzag(i)
    BY <1>1, EmitOffsetIs
  <1> HIDE DEF pads, head
  <1>6. /\ head \o pads \in Codes /\ Len(head \o pads) = u + (w - u)
        /\ (head \o pads)[1] = head[1]
    BY <1>1, <1>3, <1>5, JoinIs
  <1> QED BY <1>1, <1>2, <1>4, <1>5, <1>6

----------------------------------------------------------------------------
(* Strings                                                                 *)

\* Pieces are joined one after another.
Joins(f, N, piece) == f = [k \in 0..N |-> IF k = 0 THEN <<>> ELSE f[k - 1] \o piece[k]]
Adds(f, N, amount) == f = [k \in 0..N |-> IF k = 0 THEN 0 ELSE f[k - 1] + amount[k]]

LEMMA JoinsExists ==
  ASSUME NEW N \in Nat, NEW piece \in [1..N -> Codes]
  PROVE  \E f : Joins(f, N, piece)
  <1> DEFINE step == [k \in 1..N |-> [c \in Codes |-> c \o piece[k]]]
  <1>1. step \in Steps(N, Codes)
    BY JoinIs DEF Steps
  <1>2. PICK f \in [0..N -> Codes] : RunsThrough(f, <<>>, N, step)
    <2>1. <<>> \in Codes
      BY DEF Codes
    <2> HIDE DEF step
    <2> QED BY <1>1, <2>1, FollowingExists
  <1> DEFINE next(k) == IF k = 0 THEN <<>> ELSE f[k - 1] \o piece[k]
  <1>3. ASSUME NEW k \in 0..N PROVE f[k] = next(k)
    <2>1. CASE k = 0
      BY <1>2, <2>1 DEF RunsThrough
    <2>2. CASE k # 0
      <3>1. k \in 1..N /\ k - 1 \in 0..N
        BY <2>2
      <3>2. f[k - 1] \in Codes /\ f[k] = step[k][f[k - 1]]
        <4> HIDE DEF step
        <4> QED BY <1>2, <3>1, Zenon DEF RunsThrough
      <3> QED BY <2>2, <3>1, <3>2
    <2> QED BY <2>1, <2>2
  <1>4. f = [k \in 0..N |-> f[k]]
    BY Zenon
  <1>5. f = [k \in 0..N |-> next(k)]
    <2> HIDE DEF next
    <2> QED BY <1>3, <1>4
  <1> QED BY <1>5, Zenon DEF Joins

LEMMA AddsExists ==
  ASSUME NEW N \in Nat, NEW amount \in [1..N -> Nat]
  PROVE  \E f : Adds(f, N, amount)
  <1> DEFINE step == [k \in 1..N |-> [n \in Nat |-> n + amount[k]]]
  <1>1. step \in Steps(N, Nat)
    BY DEF Steps
  <1>2. PICK f \in [0..N -> Nat] : RunsThrough(f, 0, N, step)
    <2>1. 0 \in Nat
      OBVIOUS
    <2> HIDE DEF step
    <2> QED BY <1>1, <2>1, FollowingExists
  <1> DEFINE next(k) == IF k = 0 THEN 0 ELSE f[k - 1] + amount[k]
  <1>3. ASSUME NEW k \in 0..N PROVE f[k] = next(k)
    <2>1. CASE k = 0
      BY <1>2, <2>1 DEF RunsThrough
    <2>2. CASE k # 0
      <3>1. k \in 1..N /\ k - 1 \in 0..N
        BY <2>2
      <3>2. f[k - 1] \in Nat /\ f[k] = step[k][f[k - 1]]
        <4> HIDE DEF step
        <4> QED BY <1>2, <3>1, Zenon DEF RunsThrough
      <3> QED BY <2>2, <3>1, <3>2
    <2> QED BY <2>1, <2>2
  <1>4. f = [k \in 0..N |-> f[k]]
    BY Zenon
  <1>5. f = [k \in 0..N |-> next(k)]
    <2> HIDE DEF next
    <2> QED BY <1>3, <1>4
  <1> QED BY <1>5, Zenon DEF Adds

\* Sums are numbers.
LEMMA AddsNumbers ==
  ASSUME NEW N \in Nat, NEW amount \in [1..N -> Nat], NEW f, Adds(f, N, amount)
  PROVE  /\ \A k \in 0..N : f[k] \in Nat
         /\ f[0] = 0 /\ \A k \in 1..N : f[k] = f[k - 1] + amount[k]
  <1> DEFINE S == {k \in Nat : k <= N => f[k] \in Nat}
  <1>1. \A k \in 0..N : f[k] = IF k = 0 THEN 0 ELSE f[k - 1] + amount[k]
    BY Zenon DEF Adds
  <1>2. 0 \in S
    BY <1>1
  <1>3. ASSUME NEW k \in S PROVE k + 1 \in S
    <2>1. CASE k + 1 <= N
      <3>1. k \in Nat /\ k <= N /\ k + 1 \in 1..N /\ k + 1 \in 0..N /\ k + 1 # 0 /\ (k + 1) - 1 = k
        BY <2>1
      <3>2. f[k] \in Nat /\ amount[k + 1] \in Nat
        BY <3>1
      <3>3. f[k + 1] = f[k] + amount[k + 1]
        <4> HIDE DEF S
        <4> QED BY <1>1, <3>1
      <3> QED BY <3>1, <3>2, <3>3
    <2> QED BY <2>1
  <1>4. S = Nat
    <2>1. S \in SUBSET Nat
      OBVIOUS
    <2> HIDE DEF S
    <2> QED BY <1>2, <1>3, <2>1, NaturalsByInduction
  <1>5. \A k \in 0..N : f[k] \in Nat
    BY <1>4
  <1>6. f[0] = 0 /\ \A k \in 1..N : f[k] = f[k - 1] + amount[k]
    BY <1>1
  <1> QED BY <1>5, <1>6

\* What they come to is as long as they are together.
LEMMA JoinsLength ==
  ASSUME NEW N \in Nat, NEW piece \in [1..N -> Codes], NEW f, Joins(f, N, piece),
         NEW amount \in [1..N -> Nat], NEW sum, Adds(sum, N, amount),
         \A k \in 1..N : Len(piece[k]) = amount[k]
  PROVE  f[N] \in Codes /\ sum[N] \in Nat /\ Len(f[N]) = sum[N]
  <1> DEFINE S == {k \in Nat : k <= N => f[k] \in Codes /\ sum[k] \in Nat /\ Len(f[k]) = sum[k]}
  <1>0. /\ \A k \in 0..N : f[k] = IF k = 0 THEN <<>> ELSE f[k - 1] \o piece[k]
        /\ \A k \in 0..N : sum[k] = IF k = 0 THEN 0 ELSE sum[k - 1] + amount[k]
    BY Zenon DEF Joins, Adds
  <1>1. 0 \in S
    <2>1. f[0] = <<>> /\ sum[0] = 0
      BY <1>0
    <2>2. <<>> \in Codes /\ Len(<<>>) = 0
      BY DEF Codes
    <2>3. f[0] \in Codes /\ sum[0] \in Nat /\ Len(f[0]) = sum[0]
      BY <2>1, <2>2
    <2> QED BY <2>3
  <1>2. ASSUME NEW k \in S PROVE k + 1 \in S
    <2>1. CASE k + 1 <= N
      <3>1. k \in Nat /\ k <= N /\ k + 1 \in 1..N /\ k + 1 \in 0..N /\ k + 1 # 0 /\ (k + 1) - 1 = k
        BY <2>1
      <3>2. f[k] \in Codes /\ sum[k] \in Nat /\ Len(f[k]) = sum[k]
        BY <3>1
      <3>3. f[k + 1] = f[k] \o piece[k + 1] /\ sum[k + 1] = sum[k] + amount[k + 1]
        <4> HIDE DEF S
        <4> QED BY <1>0, <3>1
      <3>4. piece[k + 1] \in Codes /\ amount[k + 1] \in Nat /\ Len(piece[k + 1]) = amount[k + 1]
        BY <3>1
      <3>5. f[k + 1] \in Codes /\ sum[k + 1] \in Nat /\ Len(f[k + 1]) = sum[k + 1]
        <4> HIDE DEF S
        <4>1. /\ f[k] \o piece[k + 1] \in Codes
              /\ Len(f[k] \o piece[k + 1]) = Len(f[k]) + Len(piece[k + 1])
          BY <3>2, <3>4, JoinIs
        <4> QED BY <3>2, <3>3, <3>4, <4>1
      <3> QED BY <3>1, <3>5
    <2> QED BY <2>1
  <1>3. S = Nat
    <2>1. S \in SUBSET Nat
      OBVIOUS
    <2> HIDE DEF S
    <2> QED BY <1>1, <1>2, <2>1, NaturalsByInduction
  <1> QED BY <1>3

\* The bytes of a string.
LEMMA CharactersAre ==
  ASSUME NEW str \in Seq(Nat)
  PROVE  /\ StringBytes(str) \in Nat
         /\ PutChars(str) \in Codes /\ Len(PutChars(str)) = StringBytes(str)
  <1> DEFINE N == Len(str)
             piece == [k \in 1..N |-> UTF8Put(str[k])]
             amount == [k \in 1..N |-> UTF8Len(str[k])]
  <1>1. N \in Nat /\ \A k \in 1..N : str[k] \in Nat
    OBVIOUS
  <1>2. /\ piece \in [1..N -> Codes] /\ amount \in [1..N -> Nat]
        /\ \A k \in 1..N : piece[k] = UTF8Put(str[k]) /\ amount[k] = UTF8Len(str[k])
        /\ \A k \in 1..N : Len(piece[k]) = amount[k]
    <2>1. ASSUME NEW k \in 1..N
          PROVE  /\ UTF8Put(str[k]) \in Codes /\ UTF8Len(str[k]) \in Nat
                 /\ Len(UTF8Put(str[k])) = UTF8Len(str[k])
      <3>1. str[k] \in Nat /\ str[k] \in Int
        BY <1>1
      <3> HIDE DEF N
      <3> QED BY <3>1, PutIs, LenIs
    <2> HIDE DEF N
    <2> QED BY <2>1
  <1> DEFINE Sum(f) == f = [k \in 0..N |-> IF k = 0 THEN 0 ELSE f[k - 1] + UTF8Len(str[k])]
             Put(f) == f = [k \in 0..N |-> IF k = 0 THEN <<>> ELSE f[k - 1] \o UTF8Put(str[k])]
  <1> HIDE DEF piece, amount
  <1>3. ASSUME NEW f PROVE Sum(f) <=> Adds(f, N, amount)
    <2>1. \A k \in 0..N : (IF k = 0 THEN 0 ELSE f[k - 1] + UTF8Len(str[k]))
                          = (IF k = 0 THEN 0 ELSE f[k - 1] + amount[k])
      BY <1>1, <1>2
    <2>2. [k \in 0..N |-> IF k = 0 THEN 0 ELSE f[k - 1] + UTF8Len(str[k])]
          = [k \in 0..N |-> IF k = 0 THEN 0 ELSE f[k - 1] + amount[k]]
      BY <2>1
    <2> QED BY <2>2 DEF Adds
  <1>4. ASSUME NEW f PROVE Put(f) <=> Joins(f, N, piece)
    <2>1. \A k \in 0..N : (IF k = 0 THEN <<>> ELSE f[k - 1] \o UTF8Put(str[k]))
                          = (IF k = 0 THEN <<>> ELSE f[k - 1] \o piece[k])
      BY <1>1, <1>2
    <2>2. [k \in 0..N |-> IF k = 0 THEN <<>> ELSE f[k - 1] \o UTF8Put(str[k])]
          = [k \in 0..N |-> IF k = 0 THEN <<>> ELSE f[k - 1] \o piece[k]]
      BY <2>1
    <2> QED BY <2>2 DEF Joins
  <1>5. PICK sum : Sum(sum) /\ StringBytes(str) = sum[N]
    <2> DEFINE s == CHOOSE f : Sum(f)
    <2>1. \E f : Sum(f)
      <3> HIDE DEF Sum
      <3> QED BY <1>1, <1>2, <1>3, AddsExists
    <2>2. Sum(s)
      BY <2>1
    <2>3. StringBytes(str) = s[N]
      BY DEF StringBytes
    <2> QED BY <2>2, <2>3
  <1>6. PICK put : Put(put) /\ PutChars(str) = put[N]
    <2> DEFINE s == CHOOSE f : Put(f)
    <2>1. \E f : Put(f)
      <3> HIDE DEF Put
      <3> QED BY <1>1, <1>2, <1>4, JoinsExists
    <2>2. Put(s)
      BY <2>1
    <2>3. PutChars(str) = s[N]
      BY DEF PutChars
    <2> QED BY <2>2, <2>3
  <1> HIDE DEF Sum, Put, N
  <1>7. put[N] \in Codes /\ sum[N] \in Nat /\ Len(put[N]) = sum[N]
    BY <1>1, <1>2, <1>3, <1>4, <1>5, <1>6, JoinsLength
  <1> QED BY <1>5, <1>6, <1>7

\* A string is emitted with its length in front.
StringSize(str) == UTF8Len(StringBytes(str)) + StringBytes(str)

LEMMA EmitStringIs ==
  ASSUME NEW str \in Seq(Nat)
  PROVE  /\ StringSize(str) \in Nat
         /\ EmitString(str) \in Codes /\ Len(EmitString(str)) = StringSize(str)
  <1>1. PICK n \in Nat : n = StringBytes(str)
    BY CharactersAre
  <1>2. UTF8Put(n) \in Codes /\ Len(UTF8Put(n)) = UTF8Len(n) /\ UTF8Len(n) \in Nat
    BY PutIs, LenIs
  <1>3. PutChars(str) \in Codes /\ Len(PutChars(str)) = n
    BY <1>1, CharactersAre
  <1>4. /\ UTF8Put(n) \o PutChars(str) \in Codes
        /\ Len(UTF8Put(n) \o PutChars(str)) = UTF8Len(n) + n
    BY <1>2, <1>3, JoinIs
  <1>5. EmitString(str) = UTF8Put(n) \o PutChars(str)
    BY <1>1 DEF EmitString
  <1> QED BY <1>1, <1>2, <1>4, <1>5 DEF StringSize

\* The characters of a literal, each with its instruction.
LEMMA LiteralIs ==
  ASSUME Instr.str \in Seq(Nat)
  PROVE  /\ Chars[Len(Instr.str)] \in Codes
         /\ Len(Chars[Len(Instr.str)]) = Len(Instr.str) + StringBytes(Instr.str)
  <1>1. PICK str \in Seq(Nat) : str = Instr.str
    OBVIOUS
  <1> DEFINE N == Len(str)
             one(k) == EmitChar(str[k])
             piece == [k \in 1..N |-> one(k)]
             amount == [k \in 1..N |-> 1 + UTF8Len(str[k])]
  <1>2. N \in Nat /\ \A k \in 1..N : str[k] \in Nat
    OBVIOUS
  <1>3. ASSUME NEW k \in 1..N
        PROVE  one(k) \in Codes /\ UTF8Len(str[k]) \in Nat /\ Len(one(k)) = 1 + UTF8Len(str[k])
    <2>1. str[k] \in Nat /\ str[k] \in Int
      BY <1>2
    <2>2. Op("Char") \in Cells
      <3>1. "Char" \in OpNames
        BY DEF OpNames
      <3> QED BY <3>1, CellsAre
    <2>3. <<Op("Char")>> \in Codes /\ Len(<<Op("Char")>>) = 1
      BY <2>2, CellCode
    <2>4. UTF8Put(str[k]) \in Codes /\ Len(UTF8Put(str[k])) = UTF8Len(str[k]) /\ UTF8Len(str[k]) \in Nat
      BY <2>1, PutIs, LenIs
    <2> QED BY <2>3, <2>4, JoinIs DEF EmitChar
  <1> HIDE DEF one, N
  <1>4. /\ piece \in [1..N -> Codes] /\ amount \in [1..N -> Nat]
        /\ \A k \in 1..N : piece[k] = one(k) /\ amount[k] = 1 + UTF8Len(str[k])
        /\ \A k \in 1..N : Len(piece[k]) = amount[k]
    BY <1>3
  <1> DEFINE Sum(f) == f = [k \in 0..N |-> IF k = 0 THEN 0 ELSE f[k - 1] + UTF8Len(str[k])]
             Put(f) == f = [k \in 0..N |-> IF k = 0 THEN <<>>
                                           ELSE f[k - 1] \o EmitChar(str[k])]
  <1> HIDE DEF piece, amount
  <1> DEFINE sizes == [k \in 1..N |-> UTF8Len(str[k])]
  <1>5. sizes \in [1..N -> Nat] /\ \A k \in 1..N : sizes[k] = UTF8Len(str[k])
    BY <1>3
  <1> HIDE DEF sizes
  <1>6. ASSUME NEW f PROVE Sum(f) <=> Adds(f, N, sizes)
    <2>1. \A k \in 0..N : (IF k = 0 THEN 0 ELSE f[k - 1] + UTF8Len(str[k]))
                          = (IF k = 0 THEN 0 ELSE f[k - 1] + sizes[k])
      BY <1>2, <1>5
    <2>2. [k \in 0..N |-> IF k = 0 THEN 0 ELSE f[k - 1] + UTF8Len(str[k])]
          = [k \in 0..N |-> IF k = 0 THEN 0 ELSE f[k - 1] + sizes[k]]
      BY <2>1
    <2> QED BY <2>2 DEF Adds
  <1>7. ASSUME NEW f PROVE Put(f) <=> Joins(f, N, piece)
    <2>1. \A k \in 0..N : (IF k = 0 THEN <<>> ELSE f[k - 1] \o EmitChar(str[k]))
                          = (IF k = 0 THEN <<>> ELSE f[k - 1] \o piece[k])
      BY <1>2, <1>4 DEF one
    <2>2. [k \in 0..N |-> IF k = 0 THEN <<>> ELSE f[k - 1] \o EmitChar(str[k])]
          = [k \in 0..N |-> IF k = 0 THEN <<>> ELSE f[k - 1] \o piece[k]]
      BY <2>1
    <2> QED BY <2>2 DEF Joins
  <1>8. PICK sum : Sum(sum) /\ StringBytes(str) = sum[N]
    <2> DEFINE s == CHOOSE f : Sum(f)
    <2>1. \E f : Sum(f)
      <3> HIDE DEF Sum
      <3> QED BY <1>2, <1>5, <1>6, AddsExists
    <2>2. Sum(s)
      BY <2>1
    <2>3. StringBytes(str) = s[N]
      BY DEF StringBytes, N
    <2> QED BY <2>2, <2>3
  <1>9. PICK put : Put(put) /\ Chars[N] = put[N]
    <2> DEFINE s == CHOOSE f : Put(f)
    <2>1. \E f : Put(f)
      <3> HIDE DEF Put
      <3> QED BY <1>2, <1>4, <1>7, JoinsExists
    <2>2. Put(s)
      BY <2>1
    <2>3. Chars[N] = s[N]
      BY <1>1 DEF Chars, N
    <2> QED BY <2>2, <2>3
  <1> HIDE DEF Sum, Put
  <1> DEFINE total == [k \in 0..N |-> k + sum[k]]
  <1>10. Adds(total, N, amount)
    <2>1. /\ \A k \in 0..N : sum[k] \in Nat
          /\ sum[0] = 0 /\ \A k \in 1..N : sum[k] = sum[k - 1] + sizes[k]
      BY <1>2, <1>5, <1>6, <1>8, AddsNumbers
    <2>2. ASSUME NEW k \in 0..N
          PROVE  total[k] = IF k = 0 THEN 0 ELSE total[k - 1] + amount[k]
      <3>1. CASE k = 0
        BY <2>1, <3>1
      <3>2. CASE k # 0
        <4>1. k \in 1..N /\ k - 1 \in 0..N
          BY <1>2, <3>2
        <4>2. /\ sum[k] = sum[k - 1] + sizes[k] /\ sum[k - 1] \in Nat
              /\ sizes[k] \in Nat /\ amount[k] = 1 + sizes[k]
          BY <1>4, <1>5, <2>1, <4>1
        <4>3. total[k] = k + sum[k] /\ total[k - 1] = (k - 1) + sum[k - 1]
          BY <4>1
        <4> HIDE DEF total
        <4>4. PICK a \in Nat, z \in Nat : a = sum[k - 1] /\ z = sizes[k]
          BY <4>2
        <4>5. total[k] = total[k - 1] + amount[k]
          <5>1. total[k] = k + (a + z) /\ total[k - 1] = (k - 1) + a /\ amount[k] = 1 + z /\ k \in Nat
            BY <1>2, <4>2, <4>3, <4>4
          <5> QED BY <5>1
        <4> QED BY <3>2, <4>5
      <3> QED BY <3>1, <3>2
    <2>3. total = [k \in 0..N |-> total[k]]
      OBVIOUS
    <2>4. total = [k \in 0..N |-> IF k = 0 THEN 0 ELSE total[k - 1] + amount[k]]
      <3> HIDE DEF total
      <3> QED BY <2>2, <2>3
    <2> QED BY <2>4, Zenon DEF Adds
  <1>11. total[N] = N + sum[N] /\ N \in 0..N
    BY <1>2
  <1> HIDE DEF total
  <1>12. put[N] \in Codes /\ Len(put[N]) = total[N]
    <2>1. Joins(put, N, piece)
      BY <1>7, <1>9
    <2> QED BY <1>2, <1>4, <1>10, <2>1, JoinsLength
  <1> QED BY <1>1, <1>8, <1>9, <1>11, <1>12 DEF N

\* The table of names takes n bytes.
Sizes(ns) == [k \in 1..Len(ns) |-> StringSize(ns[k])]
NamesTake(ns, n) == \E sum : Adds(sum, Len(ns), Sizes(ns)) /\ n = sum[Len(ns)]

LEMMA SizesAre ==
  ASSUME NEW ns \in Seq(Seq(Nat))
  PROVE  /\ Len(ns) \in Nat /\ Sizes(ns) \in [1..Len(ns) -> Nat]
         /\ \A k \in 1..Len(ns) : ns[k] \in Seq(Nat) /\ Sizes(ns)[k] = StringSize(ns[k])
  <1>1. Len(ns) \in Nat /\ \A k \in 1..Len(ns) : ns[k] \in Seq(Nat)
    OBVIOUS
  <1>2. \A k \in 1..Len(ns) : StringSize(ns[k]) \in Nat
    BY <1>1, EmitStringIs
  <1> QED BY <1>1, <1>2 DEF Sizes

LEMMA NoNames == NamesTake(<<>>, 0)
  <1>1. <<>> \in Seq(Seq(Nat)) /\ Len(<<>>) = 0
    OBVIOUS
  <1>2. Sizes(<<>>) \in [1..0 -> Nat] /\ 0 \in Nat
    BY <1>1, SizesAre
  <1>3. PICK f : Adds(f, 0, Sizes(<<>>))
    BY <1>2, AddsExists
  <1>4. f[0] = 0
    BY <1>2, <1>3, AddsNumbers
  <1> QED BY <1>1, <1>3, <1>4 DEF NamesTake

LEMMA OneMoreName ==
  ASSUME NEW ns \in Seq(Seq(Nat)), NEW n, NamesTake(ns, n), NEW str \in Seq(Nat)
  PROVE  n \in Nat /\ NamesTake(Append(ns, str), n + StringSize(str))
  <1>1. PICK old : Adds(old, Len(ns), Sizes(ns)) /\ n = old[Len(ns)]
    BY DEF NamesTake
  <1>2. PICK N \in Nat : N = Len(ns)
    OBVIOUS
  <1> DEFINE more == Append(ns, str)
  <1>3. /\ more \in Seq(Seq(Nat)) /\ Len(more) = N + 1
        /\ \A k \in 1..N : more[k] = ns[k]
        /\ more[N + 1] = str
    BY <1>2
  <1> HIDE DEF more
  <1>41. /\ Sizes(ns) \in [1..N -> Nat]
         /\ \A k \in 1..N : Sizes(ns)[k] = StringSize(ns[k])
    BY <1>2, SizesAre
  <1>42. /\ Sizes(more) \in [1..Len(more) -> Nat]
         /\ \A k \in 1..Len(more) : Sizes(more)[k] = StringSize(more[k])
    BY <1>3, SizesAre
  <1>4. /\ Sizes(ns) \in [1..N -> Nat] /\ Sizes(more) \in [1..N + 1 -> Nat] /\ N + 1 \in Nat
        /\ \A k \in 1..N : Sizes(more)[k] = Sizes(ns)[k]
        /\ Sizes(more)[N + 1] = StringSize(str)
    <2>1. N + 1 \in 1..N + 1 /\ \A k \in 1..N : k \in 1..N + 1
      OBVIOUS
    <2> QED BY <1>3, <1>41, <1>42, <2>1
  <1>5. PICK new : Adds(new, N + 1, Sizes(more))
    BY <1>4, AddsExists
  <1>6. /\ \A k \in 0..N : old[k] \in Nat
        /\ old[0] = 0 /\ \A k \in 1..N : old[k] = old[k - 1] + Sizes(ns)[k]
    BY <1>1, <1>2, <1>4, AddsNumbers
  <1>7. /\ \A k \in 0..N + 1 : new[k] \in Nat
        /\ new[0] = 0 /\ \A k \in 1..N + 1 : new[k] = new[k - 1] + Sizes(more)[k]
    BY <1>4, <1>5, AddsNumbers
  <1> DEFINE S == {k \in Nat : k <= N => new[k] = old[k]}
  <1>8. 0 \in S
    BY <1>6, <1>7
  <1>9. ASSUME NEW k \in S PROVE k + 1 \in S
    <2>1. CASE k + 1 <= N
      <3>0. k \in Nat
        OBVIOUS
      <3>1. k \in Nat /\ k <= N /\ k + 1 \in 1..N /\ k + 1 \in 1..N + 1 /\ (k + 1) - 1 = k
        <4> HIDE DEF S
        <4> QED BY <1>4, <2>1, <3>0
      <3>2. new[k] = old[k]
        BY <3>1
      <3>3. /\ new[k + 1] = new[k] + Sizes(more)[k + 1] /\ old[k + 1] = old[k] + Sizes(ns)[k + 1]
            /\ Sizes(more)[k + 1] = Sizes(ns)[k + 1]
        <4> HIDE DEF S
        <4> QED BY <1>4, <1>6, <1>7, <3>1
      <3> QED BY <3>1, <3>2, <3>3
    <2> QED BY <2>1
  <1>10. S = Nat
    <2>1. S \in SUBSET Nat
      OBVIOUS
    <2> HIDE DEF S
    <2> QED BY <1>8, <1>9, <2>1, NaturalsByInduction
  <1>11. new[N] = old[N]
    BY <1>10
  <1>12. new[N + 1] = n + StringSize(str) /\ n \in Nat
    <2>1. N + 1 \in 1..N + 1 /\ (N + 1) - 1 = N /\ N \in 0..N
      OBVIOUS
    <2>2. new[N + 1] = new[N] + Sizes(more)[N + 1]
      BY <1>7, <2>1
    <2> QED BY <1>1, <1>2, <1>4, <1>6, <1>11, <2>1, <2>2
  <1> QED BY <1>3, <1>5, <1>12 DEF NamesTake, more

LEMMA NameTableIs ==
  ASSUME names \in Seq(Seq(Nat)), NEW n, NamesTake(names, n)
  PROVE  n \in Nat /\ NameTable[Len(names)] \in Codes /\ Len(NameTable[Len(names)]) = n
  <1>1. PICK sum : Adds(sum, Len(names), Sizes(names)) /\ n = sum[Len(names)]
    BY DEF NamesTake
  <1> DEFINE N == Len(names)
             piece == [k \in 1..N |-> EmitString(names[k])]
  <1>2. /\ N \in Nat /\ Sizes(names) \in [1..N -> Nat]
        /\ \A k \in 1..N : names[k] \in Seq(Nat) /\ Sizes(names)[k] = StringSize(names[k])
    BY SizesAre
  <1> HIDE DEF N
  <1>3. /\ piece \in [1..N -> Codes]
        /\ \A k \in 1..N : piece[k] = EmitString(names[k]) /\ Len(piece[k]) = Sizes(names)[k]
    <2>1. \A k \in 1..N : EmitString(names[k]) \in Codes /\ Len(EmitString(names[k])) = StringSize(names[k])
      BY <1>2, EmitStringIs
    <2> QED BY <1>2, <2>1
  <1> HIDE DEF piece
  <1> DEFINE Put(f) == f = [k \in 0..N |-> IF k = 0 THEN <<>> ELSE f[k - 1] \o EmitString(names[k])]
  <1>4. ASSUME NEW f PROVE Put(f) <=> Joins(f, N, piece)
    <2>1. \A k \in 0..N : (IF k = 0 THEN <<>> ELSE f[k - 1] \o EmitString(names[k]))
                          = (IF k = 0 THEN <<>> ELSE f[k - 1] \o piece[k])
      BY <1>2, <1>3
    <2>2. [k \in 0..N |-> IF k = 0 THEN <<>> ELSE f[k - 1] \o EmitString(names[k])]
          = [k \in 0..N |-> IF k = 0 THEN <<>> ELSE f[k - 1] \o piece[k]]
      BY <2>1
    <2> QED BY <2>2 DEF Joins
  <1>5. PICK put : Put(put) /\ NameTable[N] = put[N]
    <2> DEFINE s == CHOOSE f : Put(f)
    <2>1. \E f : Put(f)
      <3> HIDE DEF Put
      <3> QED BY <1>2, <1>3, <1>4, JoinsExists
    <2>2. Put(s)
      BY <2>1
    <2>3. NameTable[N] = s[N]
      BY DEF NameTable, N
    <2> QED BY <2>2, <2>3
  <1> HIDE DEF Put
  <1>6. put[N] \in Codes /\ sum[N] \in Nat /\ Len(put[N]) = sum[N]
    <2>1. Joins(put, N, piece)
      BY <1>4, <1>5
    <2>2. Adds(sum, N, Sizes(names))
      BY <1>1 DEF N
    <2> QED BY <1>2, <1>3, <2>1, <2>2, JoinsLength
  <1> QED BY <1>1, <1>5, <1>6 DEF N

----------------------------------------------------------------------------
(* Places that are patched, and code that moves                            *)

\* Both have the first n cells.
Agree(c, d, n) == n <= Len(c) /\ n <= Len(d) /\ \A i \in 1..n : c[i] = d[i]

LEMMA AgreeLess ==
  ASSUME NEW c \in Codes, NEW d \in Codes, NEW n \in Nat, NEW m \in Nat, Agree(c, d, n), m <= n
  PROVE  Agree(c, d, m)
  <1>1. Len(c) \in Nat /\ Len(d) \in Nat
    BY CodeLength
  <1>2. 1..m \subseteq 1..n
    OBVIOUS
  <1> QED BY <1>1, <1>2 DEF Agree

LEMMA AgreeThrough ==
  ASSUME NEW c \in Codes, NEW d \in Codes, NEW e \in Codes, NEW n \in Nat,
         Agree(c, d, n), Agree(d, e, n)
  PROVE  Agree(c, e, n)
  BY DEF Agree

\* The cells from n to m are taken out, and others put in their place.
Spliced(c, n, mid, m) == SubSeq(c, 1, n) \o mid \o SubSeq(c, m + 1, Len(c))

SplicesTo(c, n, mid, m, d) ==
  /\ d \in Codes /\ Len(d) = n + Len(mid) + (Len(c) - m)
  /\ Agree(c, d, n)
  /\ \A i \in 1..Len(mid) : d[n + i] = mid[i]
  /\ \A i \in 1..Len(c) - m : d[n + Len(mid) + i] = c[m + i]

LEMMA SplicedIs ==
  ASSUME NEW c \in Codes, NEW mid \in Codes, NEW n \in Nat, NEW m \in Nat, n <= Len(c), m <= Len(c)
  PROVE  SplicesTo(c, n, mid, m, Spliced(c, n, mid, m))
  <1> DEFINE a == SubSeq(c, 1, n)
             b == SubSeq(c, m + 1, Len(c))
             ab == a \o mid
             all == ab \o b
  <1>1. PICK L \in Nat, M \in Nat : L = Len(c) /\ M = Len(mid)
    BY CodeLength
  <1>2. a \in Codes /\ Len(a) = n /\ \A i \in 1..n : a[i] = c[i]
    BY FrontIs
  <1>3. b \in Codes /\ Len(b) = L - m /\ \A i \in 1..L - m : b[i] = c[m + i]
    BY <1>1, BackIs
  <1> HIDE DEF a, b
  <1>4. /\ ab \in Codes /\ Len(ab) = n + M
        /\ \A i \in 1..n : ab[i] = a[i]
        /\ \A i \in 1..M : ab[n + i] = mid[i]
    BY <1>1, <1>2, JoinIs
  <1> HIDE DEF ab
  <1>5. /\ all \in Codes /\ Len(all) = n + M + (L - m)
        /\ \A i \in 1..n + M : all[i] = ab[i]
        /\ \A i \in 1..L - m : all[n + M + i] = b[i]
    <2>1. /\ all \in Codes /\ Len(all) = Len(ab) + Len(b)
          /\ \A i \in 1..Len(ab) : all[i] = ab[i]
          /\ \A i \in 1..Len(b) : all[Len(ab) + i] = b[i]
      BY <1>3, <1>4, JoinIs
    <2> QED BY <1>3, <1>4, <2>1
  <1>6. Spliced(c, n, mid, m) = all
    BY DEF Spliced, all, ab, a, b
  <1> HIDE DEF all
  <1>7. Agree(c, all, n)
    <2>1. n <= L /\ n <= n + M + (L - m)
      BY <1>1
    <2>2. \A i \in 1..n : all[i] = c[i]
      <3>1. \A i \in 1..n : i \in 1..n + M
        OBVIOUS
      <3> QED BY <1>2, <1>4, <1>5, <3>1
    <2> QED BY <1>1, <1>5, <2>1, <2>2 DEF Agree
  <1>8. \A i \in 1..M : all[n + i] = mid[i]
    <2>1. \A i \in 1..M : n + i \in 1..n + M
      OBVIOUS
    <2> QED BY <1>4, <1>5, <2>1
  <1>9. \A i \in 1..L - m : all[n + M + i] = c[m + i]
    BY <1>3, <1>5
  <1> QED BY <1>1, <1>5, <1>6, <1>7, <1>8, <1>9 DEF SplicesTo

\* What patching code to d at a location comes to: u bytes with an offset of v
\* in place of the reserved ones, and what was behind them behind it.
Patched(c, location, far, d, u, v) ==
  /\ d \in Codes /\ u \in Nat /\ 1 <= u /\ u <= OffsetMaxBytes
  /\ v \in Nat /\ v <= far
  /\ Len(d) = Len(c) - OffsetMaxBytes + u
  /\ Agree(c, d, location)
  /\ d[location + 1].num = Zigzag(v)
  /\ \A i \in 1..Len(c) - (location + OffsetMaxBytes) :
       d[location + u + i] = c[location + OffsetMaxBytes + i]

LEMMA PatchIs ==
  ASSUME bytes_required \in Nat, offsets_required \in Nat,
         NEW c \in Codes, NEW location \in Nat, NEW to \in Nat,
         location + OffsetMaxBytes <= Len(c), location + OffsetMaxBytes <= to, to - location < Room
  PROVE  \E u, v : Patched(c, location, to - location, PatchOffset(c, location, to), u, v)
  <1>1. PICK W \in Nat : W = OffsetMaxBytes /\ 1 <= W /\ W <= 3
    BY WidthIs
  <1>2. PICK R \in Nat : R = Room
    BY WidthIs
  <1>3. PICK far \in Nat : far = to - location
    BY <1>1
  <1>4. W <= far /\ far < R /\ -R < far
    BY <1>1, <1>2, <1>3
  <1>5. PICK size \in Nat : size = UTF8Len(Zigzag(far)) /\ 1 <= size
    <2>1. Zigzag(far) \in Int
      BY ZigzagIs
    <2> QED BY <2>1, LenIs
  <1> DEFINE v == IF size < W /\ far > 0 THEN far - (W - size) ELSE far
  <1>6. v \in Nat /\ v <= far /\ v < R /\ -R < v
    BY <1>1, <1>4, <1>5
  <1>7. PatchOffset(c, location, to) = PatchValueAt(c, location, v)
    BY <1>1, <1>3, <1>5 DEF PatchOffset, PatchSized
  <1> HIDE DEF v
  <1>8. PICK u \in Nat : u = UTF8Len(Zigzag(v)) /\ 1 <= u
    <2>1. Zigzag(v) \in Int
      BY <1>6, ZigzagIs
    <2> QED BY <2>1, LenIs
  <1>9. u <= W
    BY <1>1, <1>2, <1>6, <1>8, WidthIs
  <1> DEFINE mid == EmitOffset(v)
  <1>10. mid \in Codes /\ Len(mid) = u /\ mid[1].num = Zigzag(v)
    BY <1>6, <1>8, EmitOffsetIs
  <1>11. PatchValueAt(c, location, v) = Spliced(c, location, mid, location + W)
    BY <1>1 DEF PatchValueAt, Spliced
  <1> HIDE DEF mid
  <1>12. PICK L \in Nat : L = Len(c)
    BY CodeLength
  <1> DEFINE d == Spliced(c, location, mid, location + W)
  <1>13. location <= L /\ location + W <= L /\ location + W \in Nat
    BY <1>1, <1>12
  <1>14. /\ d \in Codes
         /\ Len(d) = location + u + (L - (location + W))
         /\ Agree(c, d, location)
         /\ \A i \in 1..u : d[location + i] = mid[i]
         /\ \A i \in 1..L - (location + W) : d[location + u + i] = c[location + W + i]
    <2>1. PICK m \in Nat : m = location + W
      BY <1>13
    <2>2. location <= Len(c) /\ m <= Len(c) /\ mid \in Codes
      BY <1>10, <1>12, <1>13, <2>1
    <2>3. SplicesTo(c, location, mid, m, Spliced(c, location, mid, m))
      BY <2>2, SplicedIs
    <2>4. d = Spliced(c, location, mid, m)
      BY <2>1
    <2> HIDE DEF d
    <2>5. SplicesTo(c, location, mid, m, d)
      BY <2>3, <2>4
    <2> QED BY <1>10, <1>12, <2>1, <2>5 DEF SplicesTo
  <1> HIDE DEF d
  <1>15. Len(d) = L - W + u
    BY <1>13, <1>14
  <1>16. d[location + 1].num = Zigzag(v)
    <2>1. 1 \in 1..u
      BY <1>8
    <2> QED BY <1>10, <1>14, <2>1
  <1>17. PatchOffset(c, location, to) = d
    BY <1>7, <1>11 DEF d
  <1>18. Patched(c, location, far, d, u, v)
    BY <1>1, <1>6, <1>8, <1>9, <1>12, <1>14, <1>15, <1>16 DEF Patched
  <1> QED BY <1>3, <1>17, <1>18

\* A Split with a reserved place is put in.
LEMMA InsertSplitIs ==
  ASSUME bytes_required \in Nat, offsets_required \in Nat, 0 < Room,
         NEW c \in Codes, NEW location \in Nat, location <= Len(c)
  PROVE  /\ InsertSplit(c, location) \in Codes
         /\ Len(InsertSplit(c, location)) = Len(c) + 1 + OffsetMaxBytes
         /\ Agree(c, InsertSplit(c, location), location)
         /\ InsertSplit(c, location)[location + 1].op = "Split"
  <1>1. PICK W \in Nat : W = OffsetMaxBytes /\ 1 <= W
    BY WidthIs
  <1>2. UTF8Len(Zigzag(0)) <= W
    BY <1>1, WidthIs
  <1> DEFINE split == <<Op("Split")>>
             pad == EmitPadded(0)
             a == SubSeq(c, 1, location)
             b == SubSeq(c, location + 1, Len(c))
             as == a \o split
             asp == as \o pad
             all == asp \o b
  <1>3. split \in Codes /\ Len(split) = 1 /\ split[1].op = "Split"
    <2>1. "Split" \in OpNames
      BY DEF OpNames
    <2>2. Op("Split") \in Cells /\ Op("Split").op = "Split"
      BY <2>1, CellsAre DEF Op
    <2> QED BY <2>2, CellCode
  <1>4. pad \in Codes /\ Len(pad) = W
    BY <1>1, <1>2, PaddedIs
  <1>5. PICK L \in Nat : L = Len(c)
    BY CodeLength
  <1>6. a \in Codes /\ Len(a) = location /\ \A i \in 1..location : a[i] = c[i]
    BY FrontIs
  <1>7. b \in Codes /\ Len(b) = L - location
    BY <1>5, BackIs
  <1>8. InsertSplit(c, location) = all
    BY DEF InsertSplit
  <1> HIDE DEF split, pad, a, b
  <1>9. /\ as \in Codes /\ Len(as) = location + 1
        /\ \A i \in 1..location : as[i] = a[i]
        /\ \A i \in 1..1 : as[location + i] = split[i]
    <2>1. /\ as \in Codes /\ Len(as) = Len(a) + Len(split)
          /\ \A i \in 1..Len(a) : as[i] = a[i]
          /\ \A i \in 1..Len(split) : as[Len(a) + i] = split[i]
      BY <1>3, <1>6, JoinIs
    <2> QED BY <1>3, <1>6, <2>1
  <1> HIDE DEF as
  <1>10. /\ asp \in Codes /\ Len(asp) = location + 1 + W
         /\ \A i \in 1..location + 1 : asp[i] = as[i]
    <2>1. /\ asp \in Codes /\ Len(asp) = Len(as) + Len(pad)
          /\ \A i \in 1..Len(as) : asp[i] = as[i]
      BY <1>4, <1>9, JoinIs
    <2> QED BY <1>4, <1>9, <2>1
  <1> HIDE DEF asp
  <1>11. /\ all \in Codes /\ Len(all) = location + 1 + W + (L - location)
         /\ \A i \in 1..location + 1 + W : all[i] = asp[i]
    <2>1. /\ all \in Codes /\ Len(all) = Len(asp) + Len(b)
          /\ \A i \in 1..Len(asp) : all[i] = asp[i]
      BY <1>7, <1>10, JoinIs
    <2> QED BY <1>7, <1>10, <2>1
  <1> HIDE DEF all
  <1>12. /\ 1 \in 1..1 /\ location + 1 \in 1..location + 1 /\ location + 1 \in 1..location + 1 + W
         /\ \A i \in 1..location : i \in 1..location + 1 /\ i \in 1..location + 1 + W
    OBVIOUS
  <1>13. all[location + 1].op = "Split"
    BY <1>3, <1>9, <1>10, <1>11, <1>12
  <1>14. Agree(c, all, location)
    <2>1. \A i \in 1..location : all[i] = c[i]
      BY <1>6, <1>9, <1>10, <1>11, <1>12
    <2>2. location <= location + 1 + W + (L - location) /\ location <= L
      BY <1>5
    <2> QED BY <1>5, <1>11, <2>1, <2>2 DEF Agree
  <1>15. Len(all) = L + 1 + W
    BY <1>11
  <1> QED BY <1>1, <1>5, <1>8, <1>11, <1>13, <1>14, <1>15

----------------------------------------------------------------------------
(* The alternates of a group: its Jumps, each with the Split in front      *)

GroupOps == Openers \cup {"Start"}
Groups == [op : GroupOps, group_num : Nat, start : Nat, contents : Nat, last_jump : Nat]

\* Up to here the code of an open group stays where it is.
Floor(g) == IF g.last_jump = 0 THEN g.contents ELSE g.last_jump + OffsetMaxBytes

\* Where the alternate begins that the k-th Jump ends.
From(contents, jumps, k) == IF k = 1 THEN contents ELSE jumps[k - 1] + OffsetMaxBytes

LinkIs(code, contents, jumps, limit, k) ==
  /\ From(contents, jumps, k) + OffsetMaxBytes + 2 <= jumps[k] /\ jumps[k] + OffsetMaxBytes <= limit
  /\ code[jumps[k]].op = "Jump" /\ code[From(contents, jumps, k) + 1].op = "Split"
  /\ OffsetAt(code, jumps[k]) = IF k = 1 THEN 0 ELSE jumps[k - 1] - jumps[k]
Linked(code, contents, jumps, limit) == \A k \in 1..Len(jumps) : LinkIs(code, contents, jumps, limit, k)
LastOf(jumps) == IF Len(jumps) = 0 THEN 0 ELSE jumps[Len(jumps)]

\* There are no more Jumps than tokens.
Chained(code, g, n) ==
  \E jumps \in Seq(Nat) : /\ Len(jumps) <= n /\ g.last_jump = LastOf(jumps)
                          /\ Linked(code, g.contents, jumps, Floor(g))

LEMMA GroupIs ==
  ASSUME NEW g \in Groups, OffsetMaxBytes \in Nat
  PROVE  /\ g.op \in GroupOps /\ g.start \in Nat /\ g.contents \in Nat /\ g.last_jump \in Nat
         /\ Floor(g) \in Nat
  BY DEF Groups, Floor

\* A Jump and its Split are where they were, and the way back is the same.
LEMMA LinkKept ==
  ASSUME NEW c \in Codes, NEW d \in Codes, NEW limit \in Nat, Agree(c, d, limit),
         OffsetMaxBytes \in Nat, 1 <= OffsetMaxBytes,
         NEW contents \in Nat, NEW jumps \in Seq(Nat), NEW k \in 1..Len(jumps),
         NEW reach \in Nat, limit <= reach,
         LinkIs(c, contents, jumps, limit, k)
  PROVE  LinkIs(d, contents, jumps, reach, k)
  <1>1. PICK W \in Nat : W = OffsetMaxBytes /\ 1 <= W
    OBVIOUS
  <1>2. PICK j \in Nat : j = jumps[k]
    OBVIOUS
  <1>3. PICK from \in Nat : from = From(contents, jumps, k)
    <2>1. CASE k = 1
      BY <2>1 DEF From
    <2>2. CASE k # 1
      <3>1. k - 1 \in 1..Len(jumps)
        BY <2>2
      <3>2. jumps[k - 1] \in Nat
        BY <3>1
      <3> QED BY <2>2, <3>2 DEF From
    <2> QED BY <2>1, <2>2
  <1>4. from + W + 2 <= j /\ j + W <= limit
    BY <1>1, <1>2, <1>3 DEF LinkIs
  <1>5. j \in 1..limit /\ j + 1 \in 1..limit /\ from + 1 \in 1..limit
    BY <1>1, <1>4
  <1>6. c[j] = d[j] /\ c[j + 1] = d[j + 1] /\ c[from + 1] = d[from + 1]
    BY <1>5 DEF Agree
  <1>7. j + W <= reach
    BY <1>4
  <1> QED BY <1>1, <1>2, <1>3, <1>4, <1>6, <1>7 DEF LinkIs, OffsetAt

LEMMA ChainKept ==
  ASSUME NEW c \in Codes, NEW d \in Codes, NEW g \in Groups, Agree(c, d, Floor(g)),
         OffsetMaxBytes \in Nat, 1 <= OffsetMaxBytes,
         NEW n \in Nat, NEW m \in Nat, n <= m, Chained(c, g, n)
  PROVE  Chained(d, g, m)
  <1>1. PICK jumps \in Seq(Nat) : /\ Len(jumps) <= n /\ g.last_jump = LastOf(jumps)
                                  /\ Linked(c, g.contents, jumps, Floor(g))
    BY DEF Chained
  <1>2. g.contents \in Nat /\ Floor(g) \in Nat
    BY GroupIs
  <1>3. Linked(d, g.contents, jumps, Floor(g))
    <2>1. ASSUME NEW k \in 1..Len(jumps) PROVE LinkIs(d, g.contents, jumps, Floor(g), k)
      <3>1. LinkIs(c, g.contents, jumps, Floor(g), k) /\ Floor(g) <= Floor(g)
        BY <1>1, <1>2 DEF Linked
      <3> QED BY <1>2, <3>1, LinkKept
    <2> QED BY <2>1 DEF Linked
  <1>4. Len(jumps) <= m
    BY <1>1
  <1> QED BY <1>1, <1>3, <1>4 DEF Chained

\* The Jump behind the alternate that ends here.
LEMMA ChainGrows ==
  ASSUME NEW c \in Codes, NEW d \in Codes, NEW g \in Groups, Agree(c, d, Floor(g)),
         OffsetMaxBytes \in Nat, 1 <= OffsetMaxBytes,
         NEW n \in Nat, Chained(c, g, n),
         NEW J \in Nat, Floor(g) + OffsetMaxBytes + 2 <= J,
         d[J].op = "Jump", d[Floor(g) + 1].op = "Split",
         OffsetAt(d, J) = IF g.last_jump = 0 THEN 0 ELSE g.last_jump - J
  PROVE  Chained(d, [g EXCEPT !.last_jump = J], n + 1)
  <1>1. PICK jumps \in Seq(Nat) : /\ Len(jumps) <= n /\ g.last_jump = LastOf(jumps)
                                  /\ Linked(c, g.contents, jumps, Floor(g))
    BY DEF Chained
  <1>2. PICK W \in Nat : W = OffsetMaxBytes /\ 1 <= W
    OBVIOUS
  <1>3. g.contents \in Nat /\ Floor(g) \in Nat /\ g.last_jump \in Nat
    BY GroupIs
  <1> DEFINE more == Append(jumps, J)
             h == [g EXCEPT !.last_jump = J]
  <1>4. h.last_jump = J /\ h.contents = g.contents
    BY DEF Groups
  <1>5. J # 0 /\ Floor(h) = J + W /\ Floor(g) <= J + W
    BY <1>2, <1>3, <1>4 DEF Floor
  <1>6. PICK N \in Nat : N = Len(jumps)
    OBVIOUS
  <1>7. /\ more \in Seq(Nat) /\ Len(more) = N + 1 /\ more[N + 1] = J
        /\ \A k \in 1..N : more[k] = jumps[k]
    BY <1>6
  <1> HIDE DEF more, h
  <1>8. ASSUME NEW k \in 1..N PROVE LinkIs(d, g.contents, more, J + W, k)
    <2>1. LinkIs(c, g.contents, jumps, Floor(g), k)
      BY <1>1, <1>6 DEF Linked
    <2>2. LinkIs(d, g.contents, jumps, J + W, k)
      <3>1. k \in 1..Len(jumps) /\ J + W \in Nat
        BY <1>6
      <3> QED BY <1>3, <1>5, <2>1, <3>1, LinkKept
    <2>3. more[k] = jumps[k]
      BY <1>7
    <2>4. k # 1 => more[k - 1] = jumps[k - 1]
      <3>1. k # 1 => k - 1 \in 1..N
        BY <1>6
      <3> QED BY <1>7, <3>1
    <2> QED BY <2>2, <2>3, <2>4 DEF LinkIs, From
  <1>9. From(g.contents, more, N + 1) = Floor(g)
    <2>1. CASE N = 0
      BY <1>1, <1>6, <2>1 DEF From, Floor, LastOf
    <2>2. CASE N # 0
      <3>1. N \in 1..N /\ (N + 1) - 1 = N /\ N + 1 # 1
        BY <2>2
      <3>2. g.last_jump = jumps[N] /\ more[N] = jumps[N]
        BY <1>1, <1>6, <1>7, <2>2, <3>1 DEF LastOf
      <3>3. LinkIs(c, g.contents, jumps, Floor(g), N)
        BY <1>1, <1>6, <3>1 DEF Linked
      <3>4. jumps[N] # 0
        <4>1. PICK j \in Nat : j = jumps[N]
          BY <1>6, <3>1
        <4>2. From(g.contents, jumps, N) \in Nat
          <5>1. N # 1 => N - 1 \in 1..N
            BY <2>2
          <5>2. N # 1 => jumps[N - 1] \in Nat
            BY <1>6, <5>1
          <5> QED BY <1>3, <5>2 DEF From
        <4> QED BY <1>2, <3>3, <4>1, <4>2 DEF LinkIs
      <3> QED BY <3>1, <3>2, <3>4 DEF From, Floor
    <2> QED BY <2>1, <2>2
  <1>10. (IF N + 1 = 1 THEN 0 ELSE more[(N + 1) - 1] - J) = (IF g.last_jump = 0 THEN 0 ELSE g.last_jump - J)
    <2>1. CASE N = 0
      BY <1>1, <1>6, <2>1 DEF LastOf
    <2>2. CASE N # 0
      <3>1. N \in 1..N /\ (N + 1) - 1 = N /\ N + 1 # 1
        BY <2>2
      <3>2. g.last_jump = jumps[N] /\ more[N] = jumps[N]
        BY <1>1, <1>6, <1>7, <2>2, <3>1 DEF LastOf
      <3>3. jumps[N] \in Nat
        BY <1>6, <3>1
      <3>4. LinkIs(c, g.contents, jumps, Floor(g), N)
        BY <1>1, <1>6, <3>1 DEF Linked
      <3>5. jumps[N] # 0
        <4>1. PICK j \in Nat : j = jumps[N]
          BY <3>3
        <4>2. From(g.contents, jumps, N) \in Nat
          <5>1. N # 1 => N - 1 \in 1..N
            BY <2>2
          <5>2. N # 1 => jumps[N - 1] \in Nat
            BY <1>6, <5>1
          <5> QED BY <1>3, <5>2 DEF From
        <4> QED BY <1>2, <3>4, <4>1, <4>2 DEF LinkIs
      <3> QED BY <3>1, <3>2, <3>5
    <2> QED BY <2>1, <2>2
  <1>11. LinkIs(d, g.contents, more, J + W, N + 1)
    <2>1. Floor(g) + W + 2 <= J /\ J + W <= J + W
      BY <1>2
    <2> QED BY <1>2, <1>7, <1>9, <1>10, <2>1 DEF LinkIs
  <1>12. Linked(d, g.contents, more, J + W)
    <2>1. ASSUME NEW k \in 1..Len(more) PROVE LinkIs(d, g.contents, more, J + W, k)
      <3>1. k \in 1..N \/ k = N + 1
        BY <1>7
      <3> QED BY <1>8, <1>11, <3>1
    <2> QED BY <2>1 DEF Linked
  <1>13. Len(more) <= n + 1 /\ LastOf(more) = J
    <2>1. N + 1 # 0
      OBVIOUS
    <2> QED BY <1>1, <1>6, <1>7, <2>1 DEF LastOf
  <1>14. Chained(d, h, n + 1)
    BY <1>4, <1>5, <1>7, <1>12, <1>13 DEF Chained
  <1> QED BY <1>14 DEF h

\* The loop of fixup_alternates after k turns: what is left to do is in front
\* of what has been patched, as it was.
States == [code : Codes, jump : Int]
Ahead(jumps, k) == IF k < Len(jumps) THEN jumps[Len(jumps) - k] ELSE 0
Intact(jumps, k) == IF k < Len(jumps) THEN jumps[Len(jumps) - k] + OffsetMaxBytes ELSE Tos.contents
Turned(jumps, m, k) ==
  /\ m \in States /\ Len(m.code) <= Len(nfa)
  /\ m.jump = Ahead(jumps, k) /\ Agree(nfa, m.code, Intact(jumps, k))

Fixing(jumps) ==
  /\ bytes_required \in Nat /\ offsets_required \in Nat
  /\ nfa \in Codes /\ Len(nfa) < Room /\ Tos \in Groups /\ Tos.contents <= Len(nfa)
  /\ jumps \in Seq(Nat) /\ Tos.last_jump = LastOf(jumps)
  /\ Linked(nfa, Tos.contents, jumps, Floor(Tos))
  /\ Floor(Tos) <= Len(nfa)

LEMMA TurnIs ==
  ASSUME NEW jumps, Fixing(jumps), NEW k \in Nat, k < Len(jumps), NEW m, Turned(jumps, m, k)
  PROVE  /\ Turned(jumps, FixupTurn(m), k + 1)
         /\ Links(m.code, m.jump, OffsetAt(m.code, m.jump))
  <1>1. PICK W \in Nat : W = OffsetMaxBytes /\ 1 <= W
    BY WidthIs DEF Fixing
  <1>2. PICK code \in Codes : code = m.code
    BY DEF Turned, States
  <1>3. PICK N \in Nat, R \in Nat : N = Len(jumps) /\ R = Room
    <2>1. Len(jumps) \in Nat
      BY DEF Fixing
    <2> QED BY <2>1, WidthIs DEF Fixing
  <1>4. PICK i \in Nat : i = N - k /\ 1 <= i /\ i <= N
    <2>1. k < N
      BY <1>3
    <2>2. N - k \in Nat /\ 1 <= N - k /\ N - k <= N
      BY <2>1
    <2> QED BY <2>2
  <1>5. PICK contents \in Nat, floor \in Nat : contents = Tos.contents /\ floor = Floor(Tos)
    BY <1>1, GroupIs DEF Fixing
  <1>6. PICK j \in Nat : j = jumps[i]
    <2>1. i \in 1..Len(jumps)
      BY <1>3, <1>4
    <2> QED BY <2>1 DEF Fixing
  <1>7. PICK from \in Nat : from = From(contents, jumps, i)
    <2>1. i # 1 => i - 1 \in 1..Len(jumps)
      BY <1>3, <1>4
    <2>2. i # 1 => jumps[i - 1] \in Nat
      BY <2>1 DEF Fixing
    <2> QED BY <1>1, <2>2 DEF From
  <1>8. LinkIs(nfa, contents, jumps, floor, i)
    <2>1. i \in 1..Len(jumps)
      BY <1>3, <1>4
    <2> QED BY <1>5, <2>1 DEF Fixing, Linked
  <1>9. PICK C \in Nat, L \in Nat : C = Len(code) /\ L = Len(nfa)
    BY CodeLength DEF Fixing
  <1>10. m.jump = j /\ Agree(nfa, code, j + W) /\ C <= L
    <2>1. k < Len(jumps) /\ Len(jumps) - k = i
      BY <1>3, <1>4
    <2> QED BY <1>1, <1>2, <1>6, <1>9, <2>1 DEF Turned, Ahead, Intact
  <1>11. from + W + 2 <= j /\ j + W <= C /\ C <= L /\ L < R
    BY <1>1, <1>3, <1>6, <1>7, <1>8, <1>9, <1>10 DEF LinkIs, Agree, Fixing
  <1>12. /\ code[j] = nfa[j] /\ code[j + 1] = nfa[j + 1] /\ code[from + 1] = nfa[from + 1]
    <2>1. j \in 1..j + W /\ j + 1 \in 1..j + W /\ from + 1 \in 1..j + W
      BY <1>1, <1>11
    <2> QED BY <1>10, <2>1 DEF Agree
  <1>13. /\ code[j].op = "Jump" /\ code[from + 1].op = "Split"
         /\ OffsetAt(code, j) = IF i = 1 THEN 0 ELSE jumps[i - 1] - j
    BY <1>6, <1>7, <1>8, <1>12 DEF LinkIs, OffsetAt
  <1>14. PICK prev \in Int : /\ prev = OffsetAt(code, j) /\ prev <= 0
                             /\ i = 1 => prev = 0
                             /\ i # 1 => prev # 0 /\ j + prev = jumps[i - 1]
    <2>1. i # 1 => i - 1 \in 1..Len(jumps)
      BY <1>3, <1>4
    <2>2. i # 1 => jumps[i - 1] \in Nat
      BY <2>1 DEF Fixing
    <2>3. i # 1 => from = jumps[i - 1] + W
      BY <1>1, <1>7 DEF From
    <2>4. i # 1 => jumps[i - 1] < j
      BY <1>1, <1>11, <2>2, <2>3
    <2> QED BY <1>13, <2>2, <2>4
  <1>15. from + 1 = IF prev # 0 THEN j + prev + W + 1 ELSE contents + 1
    <2>1. CASE i = 1
      BY <1>7, <1>14, <2>1 DEF From
    <2>2. CASE i # 1
      <3>1. from = jumps[i - 1] + W /\ prev # 0 /\ j + prev = jumps[i - 1]
        BY <1>1, <1>7, <1>14, <2>2 DEF From
      <3> QED BY <3>1
    <2> QED BY <2>1, <2>2
  <1>16. Links(m.code, m.jump, OffsetAt(m.code, m.jump))
    <2>1. (IF prev # 0 THEN j + prev + OffsetMaxBytes + 1 ELSE Tos.contents + 1) = from + 1
      BY <1>1, <1>5, <1>15
    <2>2. OffsetAt(m.code, m.jump) = prev /\ m.code = code /\ m.jump = j
      BY <1>2, <1>10, <1>14
    <2>3. code[j].op = "Jump" /\ code[from + 1].op = "Split" /\ prev <= 0
      BY <1>13, <1>14
    <2>4. Links(code, j, prev)
      BY <2>1, <2>3, Zenon DEF Links
    <2> QED BY <2>2, <2>4
  <1> DEFINE p1 == PatchOffset(code, j, C)
  <1>17. PICK u \in Nat : /\ p1 \in Codes /\ 1 <= u /\ u <= W
                          /\ Len(p1) = C - W + u /\ Agree(code, p1, j)
    <2>1. \E x, v : Patched(code, j, C - j, PatchOffset(code, j, C), x, v)
      <3>1. j + OffsetMaxBytes <= Len(code) /\ j + OffsetMaxBytes <= C /\ C - j < Room
        BY <1>1, <1>3, <1>9, <1>11
      <3>2. bytes_required \in Nat /\ offsets_required \in Nat
        BY DEF Fixing
      <3> QED BY <3>1, <3>2, PatchIs
    <2> QED BY <1>1, <1>9, <2>1 DEF Patched
  <1> HIDE DEF p1
  <1>18. PICK P \in Nat : P = Len(p1) /\ P = C - W + u /\ j <= P
    <2>1. Len(p1) \in Nat
      BY <1>17, CodeLength
    <2> QED BY <1>17, <2>1 DEF Agree
  <1> DEFINE p2 == PatchOffset(p1, from + 1, j + u)
  <1>19. p2 \in Codes /\ Len(p2) <= P /\ Agree(p1, p2, from + 1)
    <2>1. \E x, v : Patched(p1, from + 1, (j + u) - (from + 1), PatchOffset(p1, from + 1, j + u), x, v)
      <3>1. /\ (from + 1) + OffsetMaxBytes <= Len(p1) /\ (from + 1) + OffsetMaxBytes <= j + u
            /\ (j + u) - (from + 1) < Room
        BY <1>1, <1>3, <1>11, <1>17, <1>18
      <3>2. bytes_required \in Nat /\ offsets_required \in Nat
        BY DEF Fixing
      <3>3. from + 1 \in Nat /\ j + u \in Nat
        OBVIOUS
      <3> QED BY <1>17, <3>1, <3>2, <3>3, PatchIs
    <2>2. PICK x, v : Patched(p1, from + 1, (j + u) - (from + 1), p2, x, v)
      BY <2>1
    <2> HIDE DEF p2
    <2>3. p2 \in Codes /\ x \in Nat /\ x <= W /\ Len(p2) = P - W + x /\ Agree(p1, p2, from + 1)
      BY <1>1, <1>18, <2>2 DEF Patched
    <2> QED BY <1>1, <1>18, <2>3
  <1>20. FixupTurn(m) = [code |-> p2, jump |-> IF prev = 0 THEN 0 ELSE j + prev]
    <2>1. j # 0
      BY <1>1, <1>11
    <2>2. PatchOffset(m.code, m.jump, Len(m.code)) = p1 /\ OffsetAt(m.code, m.jump) = prev
      <3>1. m.code = code /\ m.jump = j /\ Len(code) = C /\ OffsetAt(code, j) = prev
        BY <1>2, <1>9, <1>10, <1>14
      <3> QED BY <3>1, Zenon DEF p1
    <2>3. j + OffsetMaxBytes - (Len(m.code) - Len(p1)) = j + u
      BY <1>1, <1>2, <1>9, <1>18
    <2>4. (IF prev # 0 THEN j + prev + OffsetMaxBytes + 1 ELSE Tos.contents + 1) = from + 1
      BY <1>1, <1>5, <1>15
    <2>5. FixupOne(m.code, m.jump, prev) = p2
      BY <1>10, <2>2, <2>3, <2>4 DEF FixupOne, FixJump, p2
    <2> QED BY <1>10, <2>1, <2>2, <2>5 DEF FixupTurn, Fixup
  <1> HIDE DEF p2
  <1>21. Agree(nfa, p2, from)
    <2>1. nfa \in Codes /\ from <= j /\ from <= j + W /\ from <= from + 1 /\ j + W \in Nat /\ from + 1 \in Nat
      BY <1>1, <1>11 DEF Fixing
    <2>2. Agree(nfa, code, from)
      BY <1>10, <2>1, AgreeLess
    <2>3. Agree(code, p1, from)
      BY <1>17, <2>1, AgreeLess
    <2>4. Agree(p1, p2, from)
      BY <1>17, <1>19, <2>1, AgreeLess
    <2>5. Agree(nfa, p1, from)
      BY <1>17, <2>1, <2>2, <2>3, AgreeThrough
    <2> QED BY <1>17, <1>19, <2>1, <2>4, <2>5, AgreeThrough
  <1>22. Turned(jumps, FixupTurn(m), k + 1)
    <2> DEFINE next == FixupTurn(m)
    <2>1. next.code = p2 /\ next.jump = (IF prev = 0 THEN 0 ELSE j + prev) /\ next \in States
      BY <1>19, <1>20 DEF States
    <2> HIDE DEF next
    <2>2. Len(next.code) <= Len(nfa)
      <3>1. Len(p2) \in Nat
        BY <1>19, CodeLength
      <3> QED BY <1>1, <1>9, <1>11, <1>17, <1>18, <1>19, <2>1, <3>1
    <2>3. ASSUME i = 1 PROVE Turned(jumps, next, k + 1)
      <3>1. ~(k + 1 < Len(jumps)) /\ prev = 0 /\ from = Tos.contents
        <4>1. k + 1 = N
          BY <1>4, <2>3
        <4>2. ~(k + 1 < Len(jumps))
          BY <1>3, <4>1
        <4>3. from = contents
          BY <1>7, <2>3 DEF From
        <4> QED BY <1>5, <1>14, <2>3, <4>2, <4>3
      <3>2. next.jump = Ahead(jumps, k + 1) /\ Agree(nfa, next.code, Intact(jumps, k + 1))
        BY <1>21, <2>1, <3>1, Zenon DEF Ahead, Intact
      <3> QED BY <2>1, <2>2, <3>2 DEF Turned
    <2>4. ASSUME i # 1 PROVE Turned(jumps, next, k + 1)
      <3>1. k + 1 < Len(jumps) /\ Len(jumps) - (k + 1) = i - 1
        BY <1>3, <1>4, <2>4
      <3>2. prev # 0 /\ j + prev = jumps[i - 1] /\ from = jumps[i - 1] + OffsetMaxBytes
        <4>1. prev # 0 /\ j + prev = jumps[i - 1]
          BY <1>14, <2>4
        <4>2. from = jumps[i - 1] + OffsetMaxBytes
          BY <1>7, <2>4 DEF From
        <4> QED BY <4>1, <4>2
      <3>3. next.jump = Ahead(jumps, k + 1) /\ Agree(nfa, next.code, Intact(jumps, k + 1))
        BY <1>21, <2>1, <3>1, <3>2 DEF Ahead, Intact
      <3> QED BY <2>1, <2>2, <3>3 DEF Turned
    <2> QED BY <2>3, <2>4 DEF next
  <1> QED BY <1>16, <1>22

\* Without a Jump the loop has ended.
LEMMA NoTurn ==
  ASSUME NEW jumps, NEW k \in Nat, jumps \in Seq(Nat), k >= Len(jumps), NEW m, Turned(jumps, m, k)
  PROVE  m.jump = 0 /\ FixupTurn(m) = m /\ Turned(jumps, m, k + 1)
  <1>1. ~(k < Len(jumps)) /\ ~(k + 1 < Len(jumps))
    <2>1. Len(jumps) \in Nat
      OBVIOUS
    <2> QED BY <2>1
  <1>2. m.jump = 0
    BY <1>1 DEF Turned, Ahead
  <1> QED BY <1>1, <1>2 DEF Turned, Ahead, Intact, FixupTurn

LEMMA TurnedOn ==
  ASSUME NEW jumps, Fixing(jumps), NEW k \in Nat, NEW m, Turned(jumps, m, k)
  PROVE  FixupTurn(m) \in States /\ Turned(jumps, FixupTurn(m), k + 1)
  <1>1. jumps \in Seq(Nat)
    BY DEF Fixing
  <1>2. CASE k < Len(jumps)
    <2>1. Turned(jumps, FixupTurn(m), k + 1)
      BY <1>2, TurnIs
    <2> QED BY <2>1 DEF Turned
  <1>3. CASE k >= Len(jumps)
    <2>1. FixupTurn(m) = m /\ Turned(jumps, m, k + 1)
      BY <1>1, <1>3, NoTurn
    <2> QED BY <2>1 DEF Turned
  <1>4. Len(jumps) \in Nat
    BY <1>1
  <1> QED BY <1>2, <1>3, <1>4

Turns(f) == f = [k \in 0..Len(tokens) |-> IF k = 0 THEN [code |-> nfa, jump |-> Tos.last_jump]
                                         ELSE FixupTurn(f[k - 1])]

\* The loop begins with the last Jump.
LEMMA TurnBegins ==
  ASSUME NEW jumps, Fixing(jumps)
  PROVE  Turned(jumps, [code |-> nfa, jump |-> Tos.last_jump], 0)
  <1> DEFINE m == [code |-> nfa, jump |-> Tos.last_jump]
  <1>1. PICK N \in Nat : N = Len(jumps)
    BY DEF Fixing
  <1>2. nfa \in Codes /\ Tos \in Groups /\ Len(nfa) \in Nat
    BY CodeLength DEF Fixing
  <1>3. PICK W \in Nat : W = OffsetMaxBytes
    BY WidthIs DEF Fixing
  <1>4. Tos.last_jump \in Nat /\ Floor(Tos) \in Nat
    BY <1>2, <1>3, GroupIs
  <1>5. m \in States /\ m.code = nfa /\ m.jump = Tos.last_jump
    BY <1>2, <1>4 DEF States
  <1> HIDE DEF m
  <1>6. Ahead(jumps, 0) = Tos.last_jump
    <2>1. Tos.last_jump = LastOf(jumps) /\ N - 0 = N /\ (0 < N <=> N # 0)
      BY DEF Fixing
    <2> QED BY <1>1, <2>1 DEF Ahead, LastOf
  <1>7. Agree(nfa, nfa, Intact(jumps, 0))
    <2>1. CASE N = 0
      <3>1. Intact(jumps, 0) = Tos.contents
        BY <1>1, <2>1 DEF Intact
      <3> QED BY <3>1 DEF Agree, Fixing
    <2>2. CASE N # 0
      <3>1. N \in 1..Len(jumps) /\ 0 < Len(jumps) /\ Len(jumps) - 0 = N
        BY <1>1, <2>2
      <3>2. PICK j \in Nat : j = jumps[N]
        BY <3>1 DEF Fixing
      <3>3. Intact(jumps, 0) = j + OffsetMaxBytes
        BY <3>1, <3>2 DEF Intact
      <3>4. LinkIs(nfa, Tos.contents, jumps, Floor(Tos), N)
        BY <3>1 DEF Fixing, Linked
      <3>5. j + OffsetMaxBytes <= Len(nfa)
        <4>1. j + OffsetMaxBytes <= Floor(Tos) /\ Floor(Tos) <= Len(nfa)
          BY <3>2, <3>4 DEF LinkIs, Fixing
        <4> QED BY <1>2, <1>3, <1>4, <4>1
      <3> QED BY <3>3, <3>5 DEF Agree
    <2> QED BY <2>1, <2>2
  <1>8. Len(nfa) <= Len(nfa)
    BY <1>2
  <1>9. Turned(jumps, m, 0)
    BY <1>5, <1>6, <1>7, <1>8 DEF Turned
  <1> QED BY <1>9 DEF m

LEMMA TurnsExist ==
  ASSUME NEW jumps, Fixing(jumps), NEW N \in Nat, N = Len(tokens)
  PROVE  \E f : Turns(f)
  <1> DEFINE z == [code |-> nfa, jump |-> Tos.last_jump]
             guarded(m) == IF FixupTurn(m) \in States THEN FixupTurn(m) ELSE m
             step == [k \in 1..N |-> [m \in States |-> guarded(m)]]
  <1>1. Turned(jumps, z, 0)
    BY TurnBegins
  <1> HIDE DEF z
  <1>2. z \in States
    BY <1>1 DEF Turned
  <1>3. step \in Steps(N, States)
    <2>1. \A m \in States : guarded(m) \in States
      OBVIOUS
    <2> HIDE DEF guarded
    <2> QED BY <2>1 DEF Steps
  <1>4. PICK f \in [0..N -> States] : RunsThrough(f, z, N, step)
    <2> HIDE DEF step
    <2> QED BY <1>2, <1>3, FollowingExists
  <1>5. ASSUME NEW k \in 1..N PROVE f[k] = guarded(f[k - 1])
    <2>1. k - 1 \in 0..N
      OBVIOUS
    <2>2. f[k - 1] \in States
      BY <2>1
    <2>3. f[k] = step[k][f[k - 1]]
      <3> HIDE DEF step
      <3> QED BY <1>4 DEF RunsThrough
    <2> HIDE DEF guarded
    <2> QED BY <2>2, <2>3
  <1>6. f[0] = z
    BY <1>4 DEF RunsThrough
  <1> HIDE DEF step
  <1> DEFINE S == {k \in Nat : k <= N => Turned(jumps, f[k], k)}
  <1>7. 0 \in S
    BY <1>1, <1>6
  <1>8. ASSUME NEW k \in S PROVE k + 1 \in S
    <2>0. k \in Nat /\ (k <= N => Turned(jumps, f[k], k))
      OBVIOUS
    <2>1. CASE k + 1 <= N
      <3> HIDE DEF S
      <3>1. k <= N /\ k + 1 \in 1..N /\ (k + 1) - 1 = k
        BY <2>0, <2>1
      <3>2. f[k + 1] = guarded(f[k])
        <4> HIDE DEF guarded
        <4> QED BY <1>5, <3>1
      <3>3. Turned(jumps, f[k], k)
        BY <2>0, <3>1
      <3>4. FixupTurn(f[k]) \in States /\ Turned(jumps, FixupTurn(f[k]), k + 1)
        BY <2>0, <3>3, TurnedOn
      <3>5. Turned(jumps, f[k + 1], k + 1)
        BY <3>2, <3>4
      <3> QED BY <2>0, <3>5 DEF S
    <2>2. CASE ~(k + 1 <= N)
      BY <2>0, <2>2
    <2> QED BY <2>1, <2>2
  <1>9. S = Nat
    <2>1. S \in SUBSET Nat
      OBVIOUS
    <2> HIDE DEF S
    <2> QED BY <1>7, <1>8, <2>1, NaturalsByInduction
  <1> DEFINE next(k) == IF k = 0 THEN z ELSE FixupTurn(f[k - 1])
  <1>10. ASSUME NEW k \in 0..N PROVE f[k] = next(k)
    <2>1. CASE k = 0
      BY <1>6, <2>1
    <2>2. CASE k # 0
      <3>1. k \in 1..N /\ k - 1 \in Nat /\ k - 1 <= N
        BY <2>2
      <3>2. Turned(jumps, f[k - 1], k - 1)
        BY <1>9, <3>1
      <3>3. FixupTurn(f[k - 1]) \in States
        BY <3>1, <3>2, TurnedOn
      <3>4. f[k] = guarded(f[k - 1])
        <4> HIDE DEF guarded
        <4> QED BY <1>5, <3>1
      <3> QED BY <2>2, <3>3, <3>4
    <2> QED BY <2>1, <2>2
  <1>11. f = [k \in 0..N |-> f[k]]
    BY Zenon
  <1>12. f = [k \in 0..N |-> next(k)]
    <2> HIDE DEF next, S
    <2> QED BY <1>10, <1>11
  <1> QED BY <1>12, Zenon DEF Turns, z

LEMMA FixedIs ==
  ASSUME NEW jumps, Fixing(jumps), NEW N \in Nat, N = Len(tokens)
  PROVE  \A k \in 0..N : Turned(jumps, Fixed[k], k)
  <1>1. Turns(Fixed)
    <2> DEFINE s == CHOOSE f : Turns(f)
    <2>1. \E f : Turns(f)
      BY TurnsExist
    <2>2. Turns(s)
      BY <2>1
    <2>3. Fixed = s
      BY DEF Fixed, Turns
    <2> QED BY <2>2, <2>3
  <1> DEFINE z == [code |-> nfa, jump |-> Tos.last_jump]
  <1>2. Turned(jumps, z, 0)
    BY TurnBegins
  <1>3. \A k \in 0..N : Fixed[k] = IF k = 0 THEN z ELSE FixupTurn(Fixed[k - 1])
    <2>1. PICK f : f = Fixed
      OBVIOUS
    <2>2. f = [k \in 0..N |-> IF k = 0 THEN z ELSE FixupTurn(f[k - 1])]
      BY <1>1, <2>1, Zenon DEF Turns
    <2>3. \A k \in 0..N : f[k] = IF k = 0 THEN z ELSE FixupTurn(f[k - 1])
      <3> HIDE DEF z
      <3> QED BY <2>2, Zenon
    <2> QED BY <2>1, <2>3, Zenon
  <1> HIDE DEF z
  <1> DEFINE S == {k \in Nat : k <= N => Turned(jumps, Fixed[k], k)}
  <1>4. 0 \in S
    <2>1. Fixed[0] = z
      BY <1>3
    <2> QED BY <1>2, <2>1
  <1>5. ASSUME NEW k \in S PROVE k + 1 \in S
    <2>0. k \in Nat /\ (k <= N => Turned(jumps, Fixed[k], k))
      OBVIOUS
    <2>1. CASE k + 1 <= N
      <3> HIDE DEF S
      <3>1. k <= N /\ k + 1 \in 0..N /\ k + 1 # 0 /\ (k + 1) - 1 = k
        BY <2>0, <2>1
      <3>2. Fixed[k + 1] = FixupTurn(Fixed[k])
        BY <1>3, <3>1
      <3>3. Turned(jumps, Fixed[k], k)
        BY <2>0, <3>1
      <3>4. Turned(jumps, Fixed[k + 1], k + 1)
        BY <2>0, <3>2, <3>3, TurnedOn
      <3> QED BY <2>0, <3>4 DEF S
    <2>2. CASE ~(k + 1 <= N)
      BY <2>0, <2>2
    <2> QED BY <2>1, <2>2
  <1>6. S = Nat
    <2>1. S \in SUBSET Nat
      OBVIOUS
    <2> HIDE DEF S
    <2> QED BY <1>4, <1>5, <2>1, NaturalsByInduction
  <1> QED BY <1>6

\* What fixup_alternates finds, and what it leaves alone.
FindsAll ==
  /\ \A k \in 0..Len(tokens) :
       Fixed[k].jump # 0 => Links(Fixed[k].code, Fixed[k].jump, OffsetAt(Fixed[k].code, Fixed[k].jump))
  /\ Fixed[Len(tokens)].jump = 0

LEMMA FixupIs ==
  ASSUME tokens \in Seq(Tokens), NEW jumps, Fixing(jumps), Len(jumps) <= Len(tokens)
  PROVE  /\ FindsAll
         /\ FixupAlternates \in Codes /\ Len(FixupAlternates) <= Len(nfa)
         /\ Agree(nfa, FixupAlternates, Tos.contents)
  <1>1. PICK N \in Nat : N = Len(tokens)
    OBVIOUS
  <1>2. PICK M \in Nat : M = Len(jumps)
    BY DEF Fixing
  <1>3. \A k \in 0..N : Turned(jumps, Fixed[k], k)
    BY <1>1, FixedIs
  <1>4. ASSUME NEW k \in 0..N, Fixed[k].jump # 0
        PROVE  Links(Fixed[k].code, Fixed[k].jump, OffsetAt(Fixed[k].code, Fixed[k].jump))
    <2>1. Turned(jumps, Fixed[k], k)
      BY <1>3
    <2>2. k < Len(jumps)
      <3>1. CASE k < M
        BY <1>2, <3>1
      <3>2. CASE ~(k < M)
        BY <1>2, <1>4, <2>1, <3>2 DEF Turned, Ahead
      <3> QED BY <3>1, <3>2
    <2>3. k \in Nat
      OBVIOUS
    <2> QED BY <2>1, <2>2, <2>3, TurnIs
  <1>5. Turned(jumps, Fixed[N], N) /\ ~(N < Len(jumps))
    <2>1. N \in 0..N /\ ~(N < Len(jumps))
      BY <1>1, <1>2
    <2> QED BY <1>3, <2>1
  <1>6. Fixed[N].jump = 0 /\ Agree(nfa, Fixed[N].code, Tos.contents)
    BY <1>5 DEF Turned, Ahead, Intact
  <1>7. Fixed[N].code \in Codes /\ Len(Fixed[N].code) <= Len(nfa)
    BY <1>5 DEF Turned, States
  <1> QED BY <1>1, <1>4, <1>6, <1>7 DEF FindsAll, FixupAlternates

----------------------------------------------------------------------------
(* What the tokens ask for                                                 *)

LEMMA TokenIs ==
  ASSUME NEW t \in Tokens
  PROVE  t.op \in TokenOps /\ t.str \in Seq(Nat) /\ t.min \in Nat /\ t.max \in Nat
  BY RxTokens

Atoms == {"Literal", "Any", "CharClass", "NegCharClass", "CharProperty", "EndGroup"}
Lines == {"BOL", "EOL", "Any"}
Classes == {"CharClass", "NegCharClass", "CharProperty"}

ClosingBytes(op) == IF op = "NegLookahead" THEN 1 ELSE IF op = "NamedCapture" THEN 2 ELSE 0
RepeatBytes(min, max) == IF min = 0 /\ max = 0 THEN 2
                         ELSE IF (min = 0 /\ max = 1) \/ (min = 1 /\ max = 0) THEN 1 ELSE 4
RepeatOffsets(min, max) == IF min = 0 /\ max = 0 THEN 2 ELSE 1

\* The bytes and the offsets that a token is compiled to; ops are the groups
\* that are open.
BytesOf(t, ops) ==
  IF t.op = "Literal" THEN Len(t.str) + StringBytes(t.str)
  ELSE IF t.op \in Lines THEN 1
  ELSE IF t.op \in Classes THEN 1 + StringSize(t.str)
  ELSE IF t.op = "NegLookahead" THEN 1
  ELSE IF t.op = "NamedCapture" THEN 2
  ELSE IF t.op = "EndGroup" THEN ClosingBytes(ops[Len(ops)])
  ELSE IF t.op = "Alternate" THEN 2
  ELSE IF t.op = "Repetition" THEN RepeatBytes(t.min, t.max)
  ELSE 0
OffsetsOf(t) ==
  IF t.op = "NegLookahead" THEN 1
  ELSE IF t.op = "Alternate" THEN 2
  ELSE IF t.op = "Repetition" THEN RepeatOffsets(t.min, t.max)
  ELSE 0
OpsAfter(ops, t) ==
  IF t.op \in Openers THEN Append(ops, t.op)
  ELSE IF t.op = "EndGroup" THEN SubSeq(ops, 1, Len(ops) - 1)
  ELSE ops

LEMMA NeedsAre ==
  ASSUME NEW t \in Tokens, NEW ops
  PROVE  /\ BytesOf(t, ops) \in Nat
         /\ OffsetsOf(t) = 0 \/ OffsetsOf(t) = 1 \/ OffsetsOf(t) = 2
  <1>1. t.str \in Seq(Nat)
    BY TokenIs
  <1>2. StringBytes(t.str) \in Nat /\ StringSize(t.str) \in Nat /\ Len(t.str) \in Nat
    BY <1>1, CharactersAre, EmitStringIs
  <1>3. BytesOf(t, ops) \in Nat
    BY <1>2 DEF BytesOf, ClosingBytes, RepeatBytes
  <1> QED BY <1>3 DEF OffsetsOf, RepeatOffsets

\* The kinds of the groups on the stack.
Ops(stk) == [i \in 1..Len(stk) |-> stk[i].op]

LEMMA OpsAre ==
  ASSUME NEW stk \in Seq(Groups)
  PROVE  /\ Ops(stk) \in Seq(GroupOps) /\ Len(Ops(stk)) = Len(stk)
         /\ \A i \in 1..Len(stk) : Ops(stk)[i] = stk[i].op
  <1>1. \A i \in 1..Len(stk) : stk[i] \in Groups
    OBVIOUS
  <1>2. \A i \in 1..Len(stk) : stk[i].op \in GroupOps
    BY <1>1 DEF Groups
  <1>3. PICK N \in Nat : N = Len(stk)
    OBVIOUS
  <1> HIDE DEF GroupOps
  <1>4. [i \in 1..N |-> stk[i].op] \in Seq(GroupOps) /\ Len([i \in 1..N |-> stk[i].op]) = N
    BY <1>2, <1>3
  <1> QED BY <1>3, <1>4 DEF Ops

LEMMA OpsOpen ==
  ASSUME NEW stk \in Seq(Groups), NEW g \in Groups
  PROVE  Append(stk, g) \in Seq(Groups) /\ Ops(Append(stk, g)) = Append(Ops(stk), g.op)
  <1> DEFINE more == Append(stk, g)
  <1>1. PICK N \in Nat : N = Len(stk)
    OBVIOUS
  <1>2. /\ more \in Seq(Groups) /\ Len(more) = N + 1 /\ more[N + 1] = g
        /\ \A i \in 1..N : more[i] = stk[i]
    <2> HIDE DEF Groups
    <2> QED BY <1>1
  <1>3. g.op \in GroupOps
    BY DEF Groups
  <1> HIDE DEF more
  <1>4. Ops(stk) \in Seq(GroupOps) /\ Len(Ops(stk)) = N /\ \A i \in 1..N : Ops(stk)[i] = stk[i].op
    BY <1>1, OpsAre
  <1>5. /\ Ops(more) \in Seq(GroupOps) /\ Len(Ops(more)) = N + 1
        /\ \A i \in 1..N + 1 : Ops(more)[i] = more[i].op
    BY <1>2, OpsAre
  <1> DEFINE r == Append(Ops(stk), g.op)
  <1>6. /\ r \in Seq(GroupOps) /\ Len(r) = N + 1 /\ r[N + 1] = g.op
        /\ \A i \in 1..N : r[i] = stk[i].op
    <2> HIDE DEF GroupOps
    <2> QED BY <1>3, <1>4
  <1> HIDE DEF r
  <1>7. \A i \in 1..N + 1 : r[i] = Ops(more)[i]
    <2>1. \A i \in 1..N + 1 : i \in 1..N \/ i = N + 1
      OBVIOUS
    <2> QED BY <1>2, <1>5, <1>6, <2>1
  <1>8. r = Ops(more)
    <2> HIDE DEF GroupOps
    <2> QED BY <1>5, <1>6, <1>7, SeqEqual
  <1> QED BY <1>2, <1>8 DEF r, more

LEMMA OpsClose ==
  ASSUME NEW stk \in Seq(Groups), Len(stk) >= 1
  PROVE  /\ SubSeq(stk, 1, Len(stk) - 1) \in Seq(Groups)
         /\ Len(SubSeq(stk, 1, Len(stk) - 1)) = Len(stk) - 1
         /\ \A i \in 1..Len(stk) - 1 : SubSeq(stk, 1, Len(stk) - 1)[i] = stk[i]
         /\ Ops(SubSeq(stk, 1, Len(stk) - 1)) = SubSeq(Ops(stk), 1, Len(Ops(stk)) - 1)
  <1> DEFINE less == SubSeq(stk, 1, Len(stk) - 1)
  <1>1. PICK N \in Nat : N = Len(stk) /\ N >= 1
    OBVIOUS
  <1>2. /\ less \in Seq(Groups) /\ Len(less) = N - 1
        /\ \A i \in 1..N - 1 : less[i] = stk[i]
    <2> HIDE DEF Groups
    <2> QED BY <1>1
  <1> HIDE DEF less
  <1>3. Ops(stk) \in Seq(GroupOps) /\ Len(Ops(stk)) = N /\ \A i \in 1..N : Ops(stk)[i] = stk[i].op
    BY <1>1, OpsAre
  <1>4. /\ Ops(less) \in Seq(GroupOps) /\ Len(Ops(less)) = N - 1
        /\ \A i \in 1..N - 1 : Ops(less)[i] = less[i].op
    BY <1>2, OpsAre
  <1> DEFINE r == SubSeq(Ops(stk), 1, Len(Ops(stk)) - 1)
  <1>5. /\ r \in Seq(GroupOps) /\ Len(r) = N - 1
        /\ \A i \in 1..N - 1 : r[i] = Ops(stk)[i]
    <2> HIDE DEF GroupOps
    <2> QED BY <1>1, <1>3
  <1> HIDE DEF r
  <1>6. \A i \in 1..N - 1 : r[i] = Ops(less)[i]
    <2>1. \A i \in 1..N - 1 : i \in 1..N
      BY <1>1
    <2> QED BY <1>2, <1>3, <1>4, <1>5, <2>1
  <1>7. r = Ops(less)
    <2> HIDE DEF GroupOps
    <2> QED BY <1>4, <1>5, <1>6, SeqEqual
  <1> QED BY <1>1, <1>2, <1>7 DEF r, less

LEMMA OpsSame ==
  ASSUME NEW stk \in Seq(Groups), Len(stk) >= 1, NEW g \in Groups, g.op = stk[Len(stk)].op
  PROVE  /\ [stk EXCEPT ![Len(stk)] = g] \in Seq(Groups)
         /\ Len([stk EXCEPT ![Len(stk)] = g]) = Len(stk)
         /\ \A i \in 1..Len(stk) - 1 : [stk EXCEPT ![Len(stk)] = g][i] = stk[i]
         /\ [stk EXCEPT ![Len(stk)] = g][Len(stk)] = g
         /\ Ops([stk EXCEPT ![Len(stk)] = g]) = Ops(stk)
  <1> DEFINE new == [stk EXCEPT ![Len(stk)] = g]
  <1>1. PICK N \in Nat : N = Len(stk) /\ N >= 1
    OBVIOUS
  <1>2. /\ new \in Seq(Groups) /\ Len(new) = N /\ new[N] = g
        /\ \A i \in 1..N - 1 : new[i] = stk[i]
    <2> HIDE DEF Groups
    <2> QED BY <1>1
  <1> HIDE DEF new
  <1>3. \A i \in 1..N : new[i].op = stk[i].op
    <2>1. \A i \in 1..N : i \in 1..N - 1 \/ i = N
      OBVIOUS
    <2> QED BY <1>1, <1>2, <2>1
  <1>4. Ops(new) = Ops(stk)
    BY <1>1, <1>2, <1>3 DEF Ops
  <1> QED BY <1>1, <1>2, <1>4 DEF new

\* What the tokens so far have asked for, and the groups they leave open.
Moments == [ops : Seq(GroupOps), bytes : Nat, offsets : Nat]
Follows(p, t, q) ==
  /\ q.ops = OpsAfter(p.ops, t)
  /\ q.bytes = p.bytes + BytesOf(t, p.ops) /\ q.offsets = p.offsets + OffsetsOf(t)
  /\ t.op = "EndGroup" => p.ops[Len(p.ops)] # "Start"
Repeats(ts, k) == ts[k].op = "Repetition" => k # 1 /\ ts[k - 1].op \in Atoms
Beginning == [ops |-> <<"Start">>, bytes |-> 0, offsets |-> 0]

Trace(h, ts) ==
  /\ \A k \in 0..Len(ts) : h[k] \in Moments /\ Len(h[k].ops) >= 1 /\ h[k].ops[1] = "Start"
  /\ h[0] = Beginning
  /\ \A k \in 1..Len(ts) : Follows(h[k - 1], ts[k], h[k]) /\ Repeats(ts, k)
  /\ \A k \in 0..Len(ts) : h[k].bytes <= h[Len(ts)].bytes /\ h[k].offsets <= h[Len(ts)].offsets

LEMMA MomentIs ==
  ASSUME NEW m \in Moments
  PROVE  m.ops \in Seq(GroupOps) /\ m.bytes \in Nat /\ m.offsets \in Nat
  BY DEF Moments

LEMMA TraceBegins == Trace([k \in 0..0 |-> Beginning], <<>>)
  <1> DEFINE h == [k \in 0..0 |-> Beginning]
  <1>1. Beginning \in Moments /\ Len(Beginning.ops) = 1 /\ Beginning.ops[1] = "Start"
    <2>1. <<"Start">> \in Seq(GroupOps) /\ Len(<<"Start">>) = 1 /\ <<"Start">>[1] = "Start"
      <3>1. "Start" \in GroupOps
        BY DEF GroupOps
      <3> HIDE DEF GroupOps
      <3> QED BY <3>1
    <2> QED BY <2>1 DEF Beginning, Moments
  <1>2. h[0] = Beginning /\ Len(<<>>) = 0
    OBVIOUS
  <1> HIDE DEF h
  <1>3. Beginning.bytes = 0 /\ Beginning.offsets = 0
    BY DEF Beginning
  <1>4. Trace(h, <<>>)
    <2>1. \A k \in 0..0 : k = 0
      OBVIOUS
    <2>2. \A k \in 1..0 : FALSE
      OBVIOUS
    <2> QED BY <1>1, <1>2, <1>3, <2>1, <2>2 DEF Trace
  <1> QED BY <1>4 DEF h

\* One token more.
LEMMA TraceGrows ==
  ASSUME NEW ts \in Seq(Tokens), NEW h, Trace(h, ts), NEW t \in Tokens, NEW q \in Moments,
         Follows(h[Len(ts)], t, q), Len(q.ops) >= 1, q.ops[1] = "Start",
         t.op = "Repetition" => Len(ts) # 0 /\ ts[Len(ts)].op \in Atoms
  PROVE  Trace([k \in 0..Len(ts) + 1 |-> IF k = Len(ts) + 1 THEN q ELSE h[k]], Append(ts, t))
  <1>1. PICK N \in Nat : N = Len(ts)
    OBVIOUS
  <1> DEFINE more == Append(ts, t)
             g == [k \in 0..N + 1 |-> IF k = N + 1 THEN q ELSE h[k]]
  <1>2. Len(more) = N + 1 /\ more[N + 1] = t /\ \A k \in 1..N : more[k] = ts[k]
    BY <1>1
  <1>3. g[N + 1] = q /\ \A k \in 0..N : g[k] = h[k]
    BY <1>1
  <1> HIDE DEF more, g
  <1>4. \A k \in 0..N + 1 : k \in 0..N \/ k = N + 1
    BY <1>1
  <1>5. \A k \in 1..N + 1 : k \in 1..N \/ k = N + 1
    BY <1>1
  <1>6. \A k \in 0..N + 1 : g[k] \in Moments /\ Len(g[k].ops) >= 1 /\ g[k].ops[1] = "Start"
    BY <1>1, <1>3, <1>4 DEF Trace
  <1>7. g[0] = Beginning
    BY <1>1, <1>3 DEF Trace
  <1>8. ASSUME NEW k \in 1..N + 1 PROVE Follows(g[k - 1], more[k], g[k]) /\ Repeats(more, k)
    <2>1. CASE k \in 1..N
      <3>1. k - 1 \in 0..N /\ k \in 0..N /\ (k # 1 => k - 1 \in 1..N)
        BY <1>1, <2>1
      <3>2. Follows(h[k - 1], ts[k], h[k]) /\ Repeats(ts, k)
        BY <1>1, <2>1 DEF Trace
      <3>3. g[k - 1] = h[k - 1] /\ g[k] = h[k] /\ more[k] = ts[k] /\ (k # 1 => more[k - 1] = ts[k - 1])
        BY <1>2, <1>3, <2>1, <3>1
      <3> QED BY <3>2, <3>3 DEF Repeats
    <2>2. CASE k = N + 1
      <3>1. k - 1 = N /\ N \in 0..N /\ (N # 0 => N \in 1..N) /\ (N # 0 => k # 1)
        BY <1>1, <2>2
      <3>2. Follows(g[k - 1], more[k], g[k])
        BY <1>1, <1>2, <1>3, <2>2, <3>1
      <3>3. t.op = "Repetition" => N # 0 /\ ts[N].op \in Atoms
        BY <1>1
      <3>4. Repeats(more, k)
        BY <1>2, <2>2, <3>1, <3>3 DEF Repeats
      <3> QED BY <3>2, <3>4
    <2> QED BY <1>5, <2>1, <2>2
  <1>9. h[N] \in Moments
    <2>1. N \in 0..N
      BY <1>1
    <2> QED BY <1>1, <2>1 DEF Trace
  <1>10. q.bytes >= h[N].bytes /\ q.offsets >= h[N].offsets
    <2>1. PICK b \in Nat : b = BytesOf(t, h[N].ops)
      BY NeedsAre
    <2>2. PICK o \in Nat : o = OffsetsOf(t)
      BY NeedsAre
    <2>3. h[N].bytes \in Nat /\ h[N].offsets \in Nat
      BY <1>9, MomentIs
    <2>4. q.bytes = h[N].bytes + b /\ q.offsets = h[N].offsets + o
      BY <1>1, <2>1, <2>2 DEF Follows
    <2> QED BY <2>3, <2>4
  <1>11. ASSUME NEW k \in 0..N + 1
         PROVE  g[k].bytes <= g[N + 1].bytes /\ g[k].offsets <= g[N + 1].offsets
    <2>1. CASE k = N + 1
      <3>1. q.bytes \in Nat /\ q.offsets \in Nat
        BY MomentIs
      <3> QED BY <1>3, <2>1, <3>1
    <2>2. CASE k \in 0..N
      <3>1. h[k].bytes <= h[N].bytes /\ h[k].offsets <= h[N].offsets /\ h[k] \in Moments
        BY <1>1, <2>2 DEF Trace
      <3>2. /\ h[k].bytes \in Nat /\ h[N].bytes \in Nat /\ q.bytes \in Nat
            /\ h[k].offsets \in Nat /\ h[N].offsets \in Nat /\ q.offsets \in Nat
        BY <1>9, <3>1, MomentIs
      <3>3. g[k] = h[k] /\ g[N + 1] = q
        BY <1>3, <2>2
      <3> QED BY <1>10, <3>1, <3>2, <3>3
    <2> QED BY <1>4, <2>1, <2>2
  <1>12. Trace(g, more)
    BY <1>2, <1>6, <1>7, <1>8, <1>11 DEF Trace
  <1> QED BY <1>1, <1>12 DEF g, more

----------------------------------------------------------------------------
(* The first pass                                                          *)

Measured == /\ tokens \in Seq(Tokens) /\ names \in Seq(Seq(Nat))
            /\ station_count \in Nat /\ bytes_required \in Nat /\ offsets_required \in Nat
            /\ max_nesting \in Nat /\ next_group \in Nat

\* The sizes so far are enough for what the tokens have asked for.
Counts(h, nb, bytes, offsets) ==
  /\ Trace(h, tokens) /\ nb \in Nat /\ NamesTake(names, nb)
  /\ bytes_required >= bytes + nb + h[Len(tokens)].bytes
  /\ offsets_required >= offsets + h[Len(tokens)].offsets

Scanning ==
  /\ Measured /\ at = 0 /\ nfa = <<>>
  /\ stack \in Seq(Groups)
  /\ \E h, nb : Counts(h, nb, 6, 3) /\ Ops(stack) = h[Len(tokens)].ops
  /\ repeatable => Len(tokens) # 0 /\ tokens[Len(tokens)].op \in Atoms

LEMMA StackIs ==
  ASSUME NEW h, NEW ts, Trace(h, ts), NEW k \in 0..Len(ts),
         NEW stk \in Seq(Groups), Ops(stk) = h[k].ops
  PROVE  Len(stk) >= 1 /\ stk[1].op = "Start"
  <1>1. Len(h[k].ops) >= 1 /\ h[k].ops[1] = "Start"
    BY DEF Trace
  <1>2. Len(stk) >= 1
    BY <1>1, OpsAre
  <1>3. 1 \in 1..Len(stk)
    BY <1>2
  <1> QED BY <1>1, <1>2, <1>3, OpsAre

LEMMA TosIs ==
  ASSUME Scanning
  PROVE  /\ Len(stack) \in Nat /\ Len(stack) >= 1 /\ stack[1].op = "Start" /\ Tos \in Groups
         /\ Ops(stack)[Len(Ops(stack))] = Tos.op
  <1>1. PICK h, nb : Counts(h, nb, 6, 3) /\ Ops(stack) = h[Len(tokens)].ops
    BY DEF Scanning
  <1>2. Trace(h, tokens) /\ stack \in Seq(Groups) /\ Len(tokens) \in 0..Len(tokens)
    BY <1>1 DEF Counts, Scanning, Measured
  <1>3. Len(stack) >= 1 /\ stack[1].op = "Start"
    BY <1>1, <1>2, StackIs
  <1>4. Len(stack) \in Nat /\ Len(stack) \in 1..Len(stack)
    BY <1>2, <1>3
  <1>5. Tos \in Groups
    BY <1>2, <1>4 DEF Tos
  <1>6. Ops(stack)[Len(Ops(stack))] = Tos.op
    BY <1>2, <1>4, OpsAre DEF Tos
  <1> QED BY <1>3, <1>4, <1>5, <1>6

\* A token whose needs are counted.
LEMMA ScanOn ==
  ASSUME Scanning, NEW t \in Tokens, tokens' = Append(tokens, t),
         stack' \in Seq(Groups), Len(stack') >= 1, stack'[1].op = "Start",
         Ops(stack') = OpsAfter(Ops(stack), t),
         t.op = "EndGroup" => Tos.op # "Start",
         t.op = "Repetition" => repeatable, repeatable' => t.op \in Atoms,
         NEW more \in Nat, names' \in Seq(Seq(Nat)),
         \A n : NamesTake(names, n) => NamesTake(names', n + more),
         bytes_required' \in Nat, offsets_required' \in Nat, station_count' \in Nat, max_nesting' \in Nat,
         bytes_required' >= bytes_required + BytesOf(t, Ops(stack)) + more,
         offsets_required' >= offsets_required + OffsetsOf(t),
         UNCHANGED emitting
  PROVE  Scanning'
  <1>1. PICK h, nb : Counts(h, nb, 6, 3) /\ Ops(stack) = h[Len(tokens)].ops
    BY DEF Scanning
  <1>2. /\ tokens \in Seq(Tokens) /\ stack \in Seq(Groups) /\ at = 0 /\ nfa = <<>> /\ next_group \in Nat
        /\ bytes_required \in Nat /\ offsets_required \in Nat
    BY DEF Scanning, Measured
  <1>3. PICK N \in Nat : N = Len(tokens)
    BY <1>2
  <1>4. Trace(h, tokens) /\ h[N] \in Moments
    BY <1>1, <1>3 DEF Counts, Trace
  <1>50. PICK p : p = h[Len(tokens)]
    OBVIOUS
  <1>51. PICK x \in Nat, y \in Nat : x = p.bytes /\ y = p.offsets
    BY <1>3, <1>4, <1>50, MomentIs
  <1>5. p.ops = Ops(stack) /\ p.bytes = x /\ p.offsets = y /\ p = h[Len(tokens)]
    BY <1>1, <1>50, <1>51
  <1>6. PICK b \in Nat, o \in Nat : b = BytesOf(t, Ops(stack)) /\ o = OffsetsOf(t)
    BY NeedsAre
  <1>7. /\ Ops(stack') \in Seq(GroupOps) /\ Len(Ops(stack')) >= 1 /\ Ops(stack')[1] = "Start"
    <2>1. 1 \in 1..Len(stack')
      OBVIOUS
    <2> QED BY <2>1, OpsAre
  <1>71. PICK z \in Seq(GroupOps) : z = Ops(stack')
    BY <1>7
  <1>8. PICK q \in Moments : q.ops = z /\ q.bytes = x + b /\ q.offsets = y + o
    <2>1. x + b \in Nat /\ y + o \in Nat
      OBVIOUS
    <2>2. [ops |-> z, bytes |-> x + b, offsets |-> y + o] \in Moments
      BY <2>1 DEF Moments
    <2> QED BY <2>2
  <1>9. Follows(p, t, q)
    <2>1. t.op = "EndGroup" => p.ops[Len(p.ops)] # "Start"
      BY <1>5, TosIs
    <2> QED BY <1>5, <1>6, <1>71, <1>8, <2>1 DEF Follows
  <1>10. t.op = "Repetition" => Len(tokens) # 0 /\ tokens[Len(tokens)].op \in Atoms
    BY DEF Scanning
  <1>100. PICK g : g = [k \in 0..Len(tokens) + 1 |-> IF k = Len(tokens) + 1 THEN q ELSE h[k]]
    OBVIOUS
  <1>11. Trace(g, Append(tokens, t))
    <2>1. Follows(h[Len(tokens)], t, q) /\ Len(q.ops) >= 1 /\ q.ops[1] = "Start"
      BY <1>5, <1>7, <1>71, <1>8, <1>9
    <2> QED BY <1>2, <1>4, <1>10, <1>100, <2>1, TraceGrows
  <1>12. /\ tokens' \in Seq(Tokens) /\ Len(tokens') = N + 1 /\ tokens'[N + 1] = t
    BY <1>2, <1>3
  <1>13. g[N + 1] = q
    BY <1>3, <1>100
  <1>14. /\ nb \in Nat /\ NamesTake(names, nb) /\ bytes_required >= 6 + nb + x
         /\ offsets_required >= 3 + y
    BY <1>1, <1>5 DEF Counts
  <1>15. NamesTake(names', nb + more) /\ nb + more \in Nat
    BY <1>14
  <1>16. bytes_required' >= 6 + (nb + more) + q.bytes /\ offsets_required' >= 3 + q.offsets
    <2>1. bytes_required' >= bytes_required + b + more /\ offsets_required' >= offsets_required + o
      BY <1>6
    <2>3. PICK B \in Nat, O \in Nat, C \in Nat, D \in Nat :
            B = bytes_required /\ O = offsets_required /\ C = bytes_required' /\ D = offsets_required'
      BY <1>2
    <2>4. C >= B + b + more /\ B >= 6 + nb + x /\ D >= O + o /\ O >= 3 + y /\ nb \in Nat
      BY <1>14, <2>1, <2>3
    <2>5. C >= 6 + (nb + more) + (x + b) /\ D >= 3 + (y + o)
      BY <2>4
    <2> QED BY <1>8, <2>3, <2>5
  <1>17. Counts(g, nb + more, 6, 3)'
    <2>1. Trace(g, tokens') /\ g[Len(tokens')] = q
      BY <1>11, <1>12, <1>13
    <2> QED BY <1>15, <1>16, <2>1 DEF Counts
  <1>18. (\E h_1, nb_1 : Counts(h_1, nb_1, 6, 3) /\ Ops(stack) = h_1[Len(tokens)].ops)'
    <2>1. Ops(stack') = g[Len(tokens')].ops
      BY <1>71, <1>8, <1>12, <1>13
    <2> QED BY <1>17, <2>1
  <1>19. Measured' /\ at' = 0 /\ nfa' = <<>>
    BY <1>2, <1>12 DEF Measured, emitting
  <1>20. repeatable' => Len(tokens') # 0 /\ tokens'[Len(tokens')].op \in Atoms
    BY <1>3, <1>12
  <1> QED BY <1>18, <1>19, <1>20 DEF Scanning

LEMMA TakesNumber ==
  ASSUME NEW ns \in Seq(Seq(Nat)), NEW n, NamesTake(ns, n)
  PROVE  n \in Nat /\ n + 0 = n
  <1>1. <<>> \in Seq(Nat)
    OBVIOUS
  <1>2. n \in Nat
    BY <1>1, OneMoreName
  <1> QED BY <1>2

LEMMA GroupMade ==
  ASSUME NEW op \in GroupOps, NEW num \in Nat, NEW start \in Nat, NEW contents \in Nat
  PROVE  /\ Group(op, num, start, contents) \in Groups
         /\ Group(op, num, start, contents).op = op
         /\ Group(op, num, start, contents).start = start
         /\ Group(op, num, start, contents).contents = contents
         /\ Group(op, num, start, contents).last_jump = 0
         /\ Floor(Group(op, num, start, contents)) = contents
  BY DEF Group, Groups, Floor

\* A token that opens no group and closes none.
LEMMA ScanPlain ==
  ASSUME Scanning, NEW t \in Tokens, Scan(t), t.op \notin Openers, t.op # "EndGroup",
         stack' \in Seq(Groups), Ops(stack') = Ops(stack), Len(stack') >= 1, stack'[1].op = "Start",
         NEW stations \in Nat, NEW bytes \in Nat, NEW offsets \in Nat, Need(stations, bytes, offsets),
         1 + bytes >= BytesOf(t, Ops(stack)), offsets >= OffsetsOf(t),
         t.op = "Repetition" => repeatable, repeatable' => t.op \in Atoms,
         UNCHANGED emitting, UNCHANGED <<max_nesting, names>>
  PROVE  Scanning'
  <1>1. Ops(stack') = OpsAfter(Ops(stack), t)
    BY DEF OpsAfter
  <1>2. Measured
    BY DEF Scanning
  <1>3. \A n : NamesTake(names, n) => NamesTake(names', n + 0)
    <2>1. ASSUME NEW n, NamesTake(names, n) PROVE NamesTake(names', n + 0)
      <3>1. n + 0 = n
        BY <1>2, <2>1, TakesNumber DEF Measured
      <3> QED BY <2>1, <3>1
    <2> QED BY <2>1
  <1>4. PICK b \in Nat, o \in Nat : b = BytesOf(t, Ops(stack)) /\ o = OffsetsOf(t)
    BY NeedsAre
  <1>5. PICK B \in Nat, O \in Nat : B = bytes_required /\ O = offsets_required
    BY <1>2 DEF Measured
  <1>6. bytes_required' = B + 1 + bytes /\ offsets_required' = O + offsets /\ station_count' = station_count + stations
    BY <1>5 DEF Need
  <1>7. /\ bytes_required' \in Nat /\ offsets_required' \in Nat /\ station_count' \in Nat
        /\ max_nesting' \in Nat /\ names' \in Seq(Seq(Nat))
    BY <1>2, <1>6 DEF Measured
  <1>8. bytes_required' >= bytes_required + b + 0 /\ offsets_required' >= offsets_required + o
    <2>1. 1 + bytes >= b /\ offsets >= o
      BY <1>4
    <2> QED BY <1>5, <1>6, <2>1
  <1>9. tokens' = Append(tokens, t)
    BY DEF Scan
  <1>10. /\ bytes_required' >= bytes_required + BytesOf(t, Ops(stack)) + 0
         /\ offsets_required' >= offsets_required + OffsetsOf(t)
    BY <1>4, <1>8
  <1>11. 0 \in Nat
    OBVIOUS
  <1> QED BY <1>1, <1>3, <1>7, <1>9, <1>10, <1>11, ScanOn

LEMMA ScanningOperators ==
  ASSUME Scanning, NEW t \in Tokens,
         \/ ScanLiteral(t) \/ ScanLine(t) \/ ScanAny(t) \/ ScanClass(t)
         \/ ScanAlternate(t) \/ ScanRepetition(t)
  PROVE  Scanning'
  <1>1. /\ stack \in Seq(Groups) /\ Len(stack) \in Nat /\ Len(stack) >= 1 /\ stack[1].op = "Start"
        /\ Tos \in Groups
    BY TosIs DEF Scanning
  <1>2. t.str \in Seq(Nat) /\ t.min \in Nat /\ t.max \in Nat /\ Len(t.str) \in Nat
    BY TokenIs
  <1>3. PICK sum \in Nat, size \in Nat : sum = StringBytes(t.str) /\ size = StringSize(t.str)
    BY <1>2, CharactersAre, EmitStringIs
  <1>4. CASE ScanLiteral(t)
    <2>1. /\ t.op = "Literal" /\ Scan(t) /\ Need(sum, Len(t.str) + sum, 0) /\ repeatable' = TRUE
          /\ UNCHANGED emitting /\ UNCHANGED <<max_nesting, names>> /\ stack' = stack
      BY <1>3, <1>4 DEF ScanLiteral, Counted
    <2>2. BytesOf(t, Ops(stack)) = Len(t.str) + sum /\ OffsetsOf(t) = 0 /\ t.op \in Atoms
      BY <1>3, <2>1 DEF BytesOf, OffsetsOf, Atoms
    <2>3. /\ 1 + (Len(t.str) + sum) >= BytesOf(t, Ops(stack)) /\ 0 >= OffsetsOf(t)
          /\ Len(t.str) + sum \in Nat /\ 0 \in Nat
      BY <1>2, <2>2
    <2>4. t.op \notin Openers /\ t.op # "EndGroup" /\ t.op # "Repetition"
      BY <2>1 DEF Openers
    <2> QED BY <1>1, <2>1, <2>2, <2>3, <2>4, ScanPlain
  <1>5. CASE ScanLine(t) \/ ScanAny(t)
    <2>1. /\ t.op \in Lines /\ Scan(t) /\ Need(1, 0, 0) /\ (repeatable' => t.op = "Any")
          /\ UNCHANGED emitting /\ UNCHANGED <<max_nesting, names>> /\ stack' = stack
      BY <1>5 DEF ScanLine, ScanAny, Counted, Lines
    <2>2. t.op # "Literal" /\ t.op \notin Openers /\ t.op # "EndGroup" /\ t.op # "Repetition" /\ t.op # "Alternate"
      BY <2>1 DEF Lines, Openers
    <2>3. BytesOf(t, Ops(stack)) = 1 /\ OffsetsOf(t) = 0
      BY <2>1, <2>2 DEF BytesOf, OffsetsOf, Openers
    <2>4. 1 + 0 >= BytesOf(t, Ops(stack)) /\ 0 >= OffsetsOf(t) /\ 0 \in Nat /\ 1 \in Nat
      BY <2>3
    <2>5. repeatable' => t.op \in Atoms
      BY <2>1 DEF Atoms
    <2> QED BY <1>1, <2>1, <2>2, <2>4, <2>5, ScanPlain
  <1>6. CASE ScanClass(t)
    <2>1. PICK bytes : bytes = UTF8Len(StringBytes(t.str)) + StringBytes(t.str)
      OBVIOUS
    <2>2. bytes = size
      BY <1>3, <2>1 DEF StringSize
    <2>3. /\ t.op \in Classes /\ Scan(t) /\ Need(1, size, 0)
          /\ UNCHANGED emitting /\ UNCHANGED <<max_nesting, names>> /\ stack' = stack
      BY <1>6, <2>1, <2>2 DEF ScanClass, Counted, Classes
    <2>4. /\ t.op # "Literal" /\ t.op \notin Lines /\ t.op \notin Openers /\ t.op # "EndGroup"
          /\ t.op # "Repetition" /\ t.op # "Alternate" /\ t.op \in Atoms
      BY <2>3 DEF Lines, Openers, Classes, Atoms
    <2>5. BytesOf(t, Ops(stack)) = 1 + size /\ OffsetsOf(t) = 0
      BY <1>3, <2>3, <2>4 DEF BytesOf, OffsetsOf, Openers
    <2>6. 1 + size >= BytesOf(t, Ops(stack)) /\ 0 >= OffsetsOf(t) /\ 0 \in Nat /\ 1 \in Nat
      BY <2>5
    <2> QED BY <1>1, <2>3, <2>4, <2>6, ScanPlain
  <1>7. CASE ScanAlternate(t)
    <2>1. /\ t.op = "Alternate" /\ Scan(t) /\ repeatable' = FALSE
          /\ UNCHANGED emitting /\ UNCHANGED <<max_nesting, names>>
      BY <1>7 DEF ScanAlternate, Counted
    <2>2. BytesOf(t, Ops(stack)) = 2 /\ OffsetsOf(t) = 2
      BY <2>1 DEF BytesOf, OffsetsOf, Lines, Classes
    <2>3. t.op \notin Openers /\ t.op # "EndGroup" /\ t.op # "Repetition"
      BY <2>1 DEF Openers
    <2>4. PICK stations \in Nat, bytes \in Nat : Need(stations, bytes, 3) /\ bytes >= 1
      BY <1>7 DEF ScanAlternate
    <2>5. 1 + bytes >= BytesOf(t, Ops(stack)) /\ 3 >= OffsetsOf(t) /\ 3 \in Nat
      BY <2>2, <2>4
    <2>6. stack' = stack \/ stack' = SetTos([Tos EXCEPT !.start = 0])
      BY <1>7 DEF ScanAlternate
    <2>7. /\ stack' \in Seq(Groups) /\ Ops(stack') = Ops(stack) /\ Len(stack') = Len(stack)
      <3>1. CASE stack' = stack
        BY <1>1, <3>1
      <3>2. CASE stack' = SetTos([Tos EXCEPT !.start = 0])
        <4>1. PICK g : g = [Tos EXCEPT !.start = 0]
          OBVIOUS
        <4>2. g \in Groups /\ g.op = stack[Len(stack)].op
          BY <1>1, <4>1 DEF Groups, Tos
        <4>3. stack' = [stack EXCEPT ![Len(stack)] = g]
          BY <3>2, <4>1 DEF SetTos
        <4> QED BY <1>1, <4>2, <4>3, OpsSame
      <3> QED BY <2>6, <3>1, <3>2
    <2>8. Len(stack') >= 1 /\ stack'[1].op = "Start"
      <3>1. Len(stack') >= 1 /\ 1 \in 1..Len(stack') /\ 1 \in 1..Len(stack)
        BY <1>1, <2>7
      <3>2. Ops(stack)[1] = stack[1].op /\ Ops(stack')[1] = stack'[1].op
        BY <1>1, <2>7, <3>1, OpsAre
      <3> QED BY <1>1, <2>7, <3>1, <3>2
    <2> QED BY <2>1, <2>3, <2>4, <2>5, <2>7, <2>8, ScanPlain
  <1>8. CASE ScanRepetition(t)
    <2>1. /\ t.op = "Repetition" /\ Scan(t) /\ repeatable /\ repeatable' = FALSE
          /\ UNCHANGED emitting /\ UNCHANGED <<max_nesting, names>> /\ stack' = stack
      BY <1>8 DEF ScanRepetition, Counted
    <2>2. /\ BytesOf(t, Ops(stack)) = RepeatBytes(t.min, t.max)
          /\ OffsetsOf(t) = RepeatOffsets(t.min, t.max)
      BY <2>1 DEF BytesOf, OffsetsOf, Lines, Classes
    <2>3. t.op \notin Openers /\ t.op # "EndGroup"
      BY <2>1 DEF Openers
    <2>4. PICK stations \in Nat, bytes \in Nat, offsets \in Nat :
            /\ Need(stations, bytes, offsets) /\ 1 + bytes = RepeatBytes(t.min, t.max)
            /\ offsets = RepeatOffsets(t.min, t.max)
      <3>1. CASE t.min = 0 /\ t.max = 0
        BY <1>8, <3>1 DEF ScanRepetition, RepeatBytes, RepeatOffsets
      <3>2. CASE t.min = 0 /\ t.max = 1
        BY <1>8, <3>2 DEF ScanRepetition, RepeatBytes, RepeatOffsets
      <3>3. CASE t.min = 1 /\ t.max = 0
        <4>1. RepeatBytes(t.min, t.max) = 1 /\ RepeatOffsets(t.min, t.max) = 1
          BY <3>3 DEF RepeatBytes, RepeatOffsets
        <4>2. Need(0, 0, 1)
          <5>1. ~(t.min = 0 /\ t.max = 0) /\ ~(t.min = 0 /\ t.max = 1)
            BY <3>3
          <5> QED BY <1>8, <3>3, <5>1 DEF ScanRepetition
        <4> QED BY <4>1, <4>2
      <3>4. CASE ~(t.min = 0 /\ t.max = 0) /\ ~(t.min = 0 /\ t.max = 1) /\ ~(t.min = 1 /\ t.max = 0)
        <4>1. Need(t.min, 3, 1) /\ RepeatBytes(t.min, t.max) = 4 /\ RepeatOffsets(t.min, t.max) = 1
          BY <1>8, <3>4 DEF ScanRepetition, RepeatBytes, RepeatOffsets
        <4> QED BY <1>2, <4>1
      <3> QED BY <3>1, <3>2, <3>3, <3>4
    <2>5. 1 + bytes >= BytesOf(t, Ops(stack)) /\ offsets >= OffsetsOf(t)
      BY <2>2, <2>4
    <2> QED BY <1>1, <2>1, <2>3, <2>4, <2>5, ScanPlain
  <1> QED BY <1>4, <1>5, <1>6, <1>7, <1>8

LEMMA ScanningGroups ==
  ASSUME Scanning, NEW t \in Tokens,
         \/ ScanGroup(t) \/ ScanLookahead(t) \/ ScanNamed(t) \/ ScanEndGroup(t)
  PROVE  Scanning'
  <1>1. /\ stack \in Seq(Groups) /\ Len(stack) \in Nat /\ Len(stack) >= 1 /\ stack[1].op = "Start"
        /\ Tos \in Groups
    BY TosIs DEF Scanning
  <1>2. Measured
    BY DEF Scanning
  <1>3. t.str \in Seq(Nat)
    BY TokenIs
  <1>4. PICK size \in Nat : size = StringSize(t.str)
    BY <1>3, EmitStringIs
  <1>5. PICK B \in Nat, O \in Nat, M \in Nat, L \in Nat, S \in Nat :
          /\ B = bytes_required /\ O = offsets_required /\ M = max_nesting /\ L = Len(stack)
          /\ S = station_count
    BY <1>1, <1>2 DEF Measured
  <1>6. PICK K \in Nat : K = Len(names)
    BY <1>2 DEF Measured
  <1>7. \A n : NamesTake(names, n) => NamesTake(names, n + 0)
    <2>1. ASSUME NEW n, NamesTake(names, n) PROVE NamesTake(names, n + 0)
      <3>1. n + 0 = n
        BY <1>2, <2>1, TakesNumber DEF Measured
      <3> QED BY <2>1, <3>1
    <2> QED BY <2>1
  <1>8. ASSUME t.op \in Openers, NEW num \in Nat, Open(t.op, num)
        PROVE  /\ stack' \in Seq(Groups) /\ Len(stack') >= 1 /\ stack'[1].op = "Start"
               /\ Ops(stack') = OpsAfter(Ops(stack), t) /\ max_nesting' \in Nat
    <2>1. PICK g \in Groups : g = Group(t.op, num, 1, 0) /\ g.op = t.op
      <3>1. t.op \in GroupOps /\ 0 \in Nat /\ 1 \in Nat
        BY <1>8 DEF GroupOps
      <3> QED BY <3>1, GroupMade
    <2>2. stack' = Append(stack, g)
      BY <1>8, <2>1 DEF Open
    <2>3. stack' \in Seq(Groups) /\ Ops(stack') = Append(Ops(stack), t.op)
      BY <1>1, <2>1, <2>2, OpsOpen
    <2>4. Len(stack') = L + 1 /\ stack'[1] = stack[1]
      <3> HIDE DEF Groups
      <3> QED BY <1>1, <1>5, <2>2
    <2>5. max_nesting' = IF M < L + 1 THEN L + 1 ELSE M
      BY <1>5, <1>8 DEF Open
    <2>6. max_nesting' \in Nat /\ Len(stack') >= 1
      BY <1>1, <2>4, <2>5
    <2> QED BY <1>1, <1>8, <2>3, <2>4, <2>6 DEF OpsAfter
  <1>9. CASE ScanGroup(t)
    <2>1. /\ t.op = "NonCapturingGroup" /\ tokens' = Append(tokens, t) /\ Open(t.op, 0) /\ Need(0, 0, 0)
          /\ repeatable' = FALSE /\ UNCHANGED emitting /\ names' = names
      BY <1>9 DEF ScanGroup, Counted, Scan
    <2>2. BytesOf(t, Ops(stack)) = 0 /\ OffsetsOf(t) = 0
      BY <2>1 DEF BytesOf, OffsetsOf, Lines, Classes
    <2>3. t.op \in Openers /\ 0 \in Nat
      BY <2>1 DEF Openers
    <2>4. /\ stack' \in Seq(Groups) /\ Len(stack') >= 1 /\ stack'[1].op = "Start"
          /\ Ops(stack') = OpsAfter(Ops(stack), t) /\ max_nesting' \in Nat
      BY <1>8, <2>1, <2>3
    <2>5. bytes_required' = B + 1 /\ offsets_required' = O /\ station_count' = S
      BY <1>5, <2>1 DEF Need
    <2>6. /\ bytes_required' >= bytes_required + BytesOf(t, Ops(stack)) + 0
          /\ offsets_required' >= offsets_required + OffsetsOf(t)
          /\ bytes_required' \in Nat /\ offsets_required' \in Nat /\ station_count' \in Nat
      BY <1>5, <2>2, <2>5
    <2>7. \A n : NamesTake(names, n) => NamesTake(names', n + 0)
      BY <1>7, <2>1
    <2>8. names' \in Seq(Seq(Nat))
      BY <1>2, <2>1 DEF Measured
    <2>9. t.op # "EndGroup" /\ t.op # "Repetition"
      BY <2>1
    <2> QED BY <2>1, <2>3, <2>4, <2>6, <2>7, <2>8, <2>9, ScanOn
  <1>10. CASE ScanLookahead(t)
    <2>1. /\ t.op = "NegLookahead" /\ tokens' = Append(tokens, t) /\ Open(t.op, 0) /\ Need(1, 0, 1)
          /\ repeatable' = FALSE /\ UNCHANGED emitting /\ names' = names
      BY <1>10 DEF ScanLookahead, Counted, Scan
    <2>2. BytesOf(t, Ops(stack)) = 1 /\ OffsetsOf(t) = 1
      BY <2>1 DEF BytesOf, OffsetsOf, Lines, Classes
    <2>3. t.op \in Openers /\ 0 \in Nat
      BY <2>1 DEF Openers
    <2>4. /\ stack' \in Seq(Groups) /\ Len(stack') >= 1 /\ stack'[1].op = "Start"
          /\ Ops(stack') = OpsAfter(Ops(stack), t) /\ max_nesting' \in Nat
      BY <1>8, <2>1, <2>3
    <2>5. bytes_required' = B + 1 /\ offsets_required' = O + 1 /\ station_count' = S + 1
      BY <1>5, <2>1 DEF Need
    <2>6. /\ bytes_required' >= bytes_required + BytesOf(t, Ops(stack)) + 0
          /\ offsets_required' >= offsets_required + OffsetsOf(t)
          /\ bytes_required' \in Nat /\ offsets_required' \in Nat /\ station_count' \in Nat
      BY <1>5, <2>2, <2>5
    <2>7. \A n : NamesTake(names, n) => NamesTake(names', n + 0)
      BY <1>7, <2>1
    <2>8. names' \in Seq(Seq(Nat))
      BY <1>2, <2>1 DEF Measured
    <2>9. t.op # "EndGroup" /\ t.op # "Repetition"
      BY <2>1
    <2> QED BY <2>1, <2>3, <2>4, <2>6, <2>7, <2>8, <2>9, ScanOn
  <1>11. CASE ScanNamed(t)
    <2>1. PICK bytes : bytes = 2 + UTF8Len(StringBytes(t.str)) + StringBytes(t.str)
      OBVIOUS
    <2>2. bytes = 2 + size
      <3>1. StringBytes(t.str) \in Nat
        BY <1>3, CharactersAre
      <3>2. UTF8Len(StringBytes(t.str)) \in Nat
        BY <3>1, LenIs
      <3> QED BY <1>4, <2>1, <3>1, <3>2 DEF StringSize
    <2>3. /\ t.op = "NamedCapture" /\ tokens' = Append(tokens, t) /\ Open(t.op, K + 1) /\ Need(0, 2 + size, 0)
          /\ repeatable' = FALSE /\ UNCHANGED emitting /\ names' = Append(names, t.str)
      BY <1>6, <1>11, <2>1, <2>2 DEF ScanNamed, Counted, Scan
    <2>4. BytesOf(t, Ops(stack)) = 2 /\ OffsetsOf(t) = 0
      BY <2>3 DEF BytesOf, OffsetsOf, Lines, Classes
    <2>5. t.op \in Openers /\ K + 1 \in Nat
      BY <2>3 DEF Openers
    <2>6. /\ stack' \in Seq(Groups) /\ Len(stack') >= 1 /\ stack'[1].op = "Start"
          /\ Ops(stack') = OpsAfter(Ops(stack), t) /\ max_nesting' \in Nat
      BY <1>8, <2>3, <2>5
    <2>7. bytes_required' = B + 1 + (2 + size) /\ offsets_required' = O + 0 /\ station_count' = S + 0
      BY <1>5, <2>3 DEF Need
    <2>8. /\ bytes_required' >= bytes_required + BytesOf(t, Ops(stack)) + size
          /\ offsets_required' >= offsets_required + OffsetsOf(t)
          /\ bytes_required' \in Nat /\ offsets_required' \in Nat /\ station_count' \in Nat
      BY <1>5, <2>4, <2>7
    <2>9. names \in Seq(Seq(Nat))
      BY <1>2 DEF Measured
    <2>10. \A n : NamesTake(names, n) => NamesTake(names', n + size)
      BY <1>3, <1>4, <2>3, <2>9, OneMoreName
    <2>11. names' \in Seq(Seq(Nat))
      BY <1>3, <2>3, <2>9
    <2>12. t.op # "EndGroup" /\ t.op # "Repetition"
      BY <2>3
    <2> QED BY <2>3, <2>5, <2>6, <2>8, <2>10, <2>11, <2>12, ScanOn
  <1>12. CASE ScanEndGroup(t)
    <2>1. /\ t.op = "EndGroup" /\ tokens' = Append(tokens, t) /\ Tos.op # "Start" /\ stack' = Pop
          /\ repeatable' = TRUE /\ UNCHANGED emitting /\ names' = names /\ max_nesting' = max_nesting
      BY <1>12 DEF ScanEndGroup, Counted, Scan
    <2>2. Tos.op \in Openers
      BY <1>1, <2>1 DEF Groups, GroupOps
    <2>3. PICK bytes \in Int : Need(0, bytes, 0) /\ 1 + bytes = ClosingBytes(Tos.op)
      <3>1. CASE Tos.op = "NegLookahead"
        BY <1>12, <3>1 DEF ScanEndGroup, ClosingBytes
      <3>2. CASE Tos.op = "NonCapturingGroup"
        <4>1. Need(0, -1, 0)
          BY <1>12, <3>2 DEF ScanEndGroup
        <4>2. 1 + (-1) = ClosingBytes(Tos.op) /\ -1 \in Int
          BY <3>2 DEF ClosingBytes
        <4> QED BY <4>1, <4>2
      <3>3. CASE Tos.op = "NamedCapture"
        <4>1. Need(0, 1, 0)
          BY <1>12, <3>3 DEF ScanEndGroup
        <4>2. 1 + 1 = ClosingBytes(Tos.op)
          BY <3>3 DEF ClosingBytes
        <4> QED BY <4>1, <4>2
      <3> QED BY <2>2, <3>1, <3>2, <3>3 DEF Openers
    <2>4. BytesOf(t, Ops(stack)) = ClosingBytes(Tos.op) /\ OffsetsOf(t) = 0
      <3>1. Ops(stack)[Len(Ops(stack))] = Tos.op
        BY TosIs
      <3> QED BY <2>1, <3>1 DEF BytesOf, OffsetsOf, Lines, Classes
    <2>5. bytes_required' = B + 1 + bytes /\ offsets_required' = O + 0 /\ station_count' = S + 0
      BY <1>5, <2>3 DEF Need
    <2>6. PICK closing \in Nat : closing = ClosingBytes(Tos.op)
      BY DEF ClosingBytes
    <2>7. /\ bytes_required' >= bytes_required + BytesOf(t, Ops(stack)) + 0
          /\ offsets_required' >= offsets_required + OffsetsOf(t)
          /\ bytes_required' \in Nat /\ offsets_required' \in Nat /\ station_count' \in Nat
      BY <1>5, <2>3, <2>4, <2>5, <2>6
    <2>8. \A n : NamesTake(names, n) => NamesTake(names', n + 0)
      BY <1>7, <2>1
    <2>9. names' \in Seq(Seq(Nat)) /\ max_nesting' \in Nat
      BY <1>2, <2>1 DEF Measured
    <2>10. stack' = SubSeq(stack, 1, Len(stack) - 1)
      BY <2>1 DEF Pop
    <2>11. /\ stack' \in Seq(Groups) /\ Len(stack') = L - 1
           /\ \A i \in 1..L - 1 : stack'[i] = stack[i]
           /\ Ops(stack') = SubSeq(Ops(stack), 1, Len(Ops(stack)) - 1)
      BY <1>1, <1>5, <2>10, OpsClose
    <2>12. L # 1
      BY <1>1, <1>5, <2>1 DEF Tos
    <2>13. Len(stack') >= 1 /\ stack'[1].op = "Start"
      <3>1. 1 \in 1..L - 1
        BY <1>1, <1>5, <2>12
      <3> QED BY <1>1, <2>11, <3>1
    <2>14. Ops(stack') = OpsAfter(Ops(stack), t)
      BY <2>1, <2>11 DEF OpsAfter, Openers
    <2>15. t.op # "Repetition" /\ t.op \in Atoms /\ 0 \in Nat
      BY <2>1 DEF Atoms
    <2> QED BY <2>1, <2>7, <2>8, <2>9, <2>11, <2>13, <2>14, <2>15, ScanOn
  <1> QED BY <1>9, <1>10, <1>11, <1>12

----------------------------------------------------------------------------
(* The second pass                                                         *)

\* The first pass is over: its sizes are enough for the whole code, but for
\* the stations.
Counted2(h, nb) == Measured /\ Counts(h, nb, 11, 5)

\* The code for what a moment has asked for is no longer than this.
Size(nb, m) == 6 + 2 * OffsetMaxBytes + StationBytes + nb + m.bytes + OffsetMaxBytes * m.offsets

LEMMA TimesIs ==
  ASSUME NEW w \in Nat, 1 <= w, w <= 3, NEW a \in Nat, NEW b \in Nat, a <= b
  PROVE  /\ w * a \in Nat /\ w * b \in Nat /\ w * a <= w * b
         /\ w * (a + 1) = w * a + w /\ w * (a + 2) = w * a + 2 * w
         /\ w * (a + 5) = w * a + 5 * w
  <1>1. w = 1 \/ w = 2 \/ w = 3
    OBVIOUS
  <1> QED BY <1>1

\* There is room behind it for the end of the code.
LEMMA SizeIs ==
  ASSUME NEW h, NEW nb, Counted2(h, nb), NEW k \in 0..Len(tokens)
  PROVE  /\ Size(nb, h[k]) \in Nat /\ StationBytes \in Nat /\ StationBytes <= 3 /\ 1 <= StationBytes
         /\ Size(nb, h[k]) + 5 + 3 * OffsetMaxBytes <= Room + StationBytes
         /\ 11 + nb + 5 * OffsetMaxBytes <= Room
  <1>1. PICK W \in Nat : W = OffsetMaxBytes /\ 1 <= W /\ W <= 3
    BY WidthIs DEF Counted2, Measured
  <1>2. PICK S \in Nat : S = StationBytes /\ S <= 3 /\ 1 <= S
    <2>1. Zigzag(station_count) \in Int
      BY ZigzagIs DEF Counted2, Measured
    <2> QED BY <2>1, LenIs DEF StationBytes
  <1>3. PICK N \in Nat : N = Len(tokens)
    BY DEF Counted2, Measured
  <1>4. /\ h[k] \in Moments /\ h[N] \in Moments
        /\ h[k].bytes <= h[N].bytes /\ h[k].offsets <= h[N].offsets
    <2>1. k \in 0..Len(tokens) /\ N \in 0..Len(tokens)
      BY <1>3
    <2> QED BY <1>3, <2>1 DEF Counted2, Counts, Trace
  <1>5. PICK x \in Nat, y \in Nat, p \in Nat, q \in Nat :
          /\ x = h[k].bytes /\ y = h[k].offsets /\ p = h[N].bytes /\ q = h[N].offsets
          /\ x <= p /\ y <= q
    BY <1>4, MomentIs
  <1>6. PICK B \in Nat, O \in Nat, n \in Nat : B = bytes_required /\ O = offsets_required /\ n = nb
    BY DEF Counted2, Measured, Counts
  <1>7. B >= 11 + n + p /\ O >= 5 + q
    BY <1>3, <1>5, <1>6 DEF Counted2, Counts
  <1>8. /\ W * y \in Nat /\ W * q \in Nat /\ W * y <= W * q /\ W * (q + 5) = W * q + 5 * W
        /\ W * O \in Nat /\ W * (q + 5) <= W * O
    <2>1. q + 5 \in Nat /\ q + 5 <= O
      BY <1>7
    <2>2. W * (q + 5) <= W * O /\ W * O \in Nat
      BY <1>1, <2>1, TimesIs
    <2>3. W * y \in Nat /\ W * q \in Nat /\ W * y <= W * q
      BY <1>1, <1>5, TimesIs
    <2>4. W * (q + 5) = W * q + 5 * W
      <3>1. q <= q
        OBVIOUS
      <3> QED BY <1>1, <3>1, TimesIs
    <2> QED BY <2>2, <2>3, <2>4
  <1>9. PICK wy \in Nat, wq \in Nat, wo \in Nat :
          wy = W * y /\ wq = W * q /\ wo = W * O /\ wy <= wq /\ wq + 5 * W <= wo
    BY <1>8
  <1>10. Size(nb, h[k]) = 6 + 2 * W + S + n + x + wy
    BY <1>1, <1>2, <1>5, <1>6, <1>9 DEF Size
  <1>11. Room = B + wo
    <2>1. O * W = W * O
      OBVIOUS
    <2> QED BY <1>1, <1>6, <1>9, <2>1 DEF Room
  <1>12. Size(nb, h[k]) \in Nat /\ Size(nb, h[k]) + 5 + 3 * W <= Room + S
    <2>1. 6 + 2 * W + S + n + x + wy + 5 + 3 * W <= B + wo + S
      <3>0. x <= p /\ 11 + n + p <= B
        BY <1>5, <1>7
      <3>1. 11 + n + x <= B
        BY <3>0
      <3>2. wy + 5 * W <= wo
        BY <1>9
      <3> QED BY <3>1, <3>2
    <2> QED BY <1>10, <1>11, <2>1
  <1>13. 11 + n + 5 * W <= Room
    <2>1. 11 + n + 5 * W <= B + wo
      BY <1>7, <1>9
    <2> QED BY <1>11, <2>1
  <1> QED BY <1>1, <1>2, <1>6, <1>12, <1>13

\* A token makes the code longer by what it asks for.
LEMMA SizeGrows ==
  ASSUME NEW h, NEW nb, Counted2(h, nb), NEW k \in 0..Len(tokens) - 1,
         NEW len \in Nat, len <= Size(nb, h[k]),
         NEW len2 \in Nat,
         len2 <= len + BytesOf(tokens[k + 1], h[k].ops) + OffsetMaxBytes * OffsetsOf(tokens[k + 1])
  PROVE  len2 <= Size(nb, h[k + 1])
  <1>1. PICK W \in Nat : W = OffsetMaxBytes /\ 1 <= W /\ W <= 3
    BY WidthIs DEF Counted2, Measured
  <1>2. k + 1 \in 1..Len(tokens) /\ k \in 0..Len(tokens) /\ k + 1 \in 0..Len(tokens) /\ (k + 1) - 1 = k
    BY DEF Counted2, Measured
  <1>3. tokens[k + 1] \in Tokens
    BY <1>2 DEF Counted2, Measured
  <1>4. PICK b \in Nat, o \in Nat : /\ b = BytesOf(tokens[k + 1], h[k].ops) /\ o = OffsetsOf(tokens[k + 1])
                                     /\ (o = 0 \/ o = 1 \/ o = 2)
    BY <1>3, NeedsAre
  <1>5. h[k] \in Moments /\ h[k + 1] \in Moments /\ Follows(h[k], tokens[k + 1], h[k + 1])
    <2>1. h[k] \in Moments /\ h[k + 1] \in Moments
      BY <1>2 DEF Counted2, Counts, Trace
    <2>2. Follows(h[(k + 1) - 1], tokens[k + 1], h[k + 1])
      BY <1>2 DEF Counted2, Counts, Trace
    <2> QED BY <1>2, <2>1, <2>2
  <1>6. PICK x \in Nat, y \in Nat : x = h[k].bytes /\ y = h[k].offsets
    BY <1>5, MomentIs
  <1>7. h[k + 1].bytes = x + b /\ h[k + 1].offsets = y + o
    BY <1>4, <1>5, <1>6 DEF Follows
  <1>8. PICK wy \in Nat : wy = W * y /\ W * (y + o) = wy + W * o
    <2>1. W * (y + 1) = W * y + W /\ W * (y + 2) = W * y + 2 * W /\ W * y \in Nat
      <3>1. y <= y
        OBVIOUS
      <3> QED BY <1>1, <3>1, TimesIs
    <2>2. W * 0 = 0 /\ W * 1 = W /\ W * 2 = 2 * W /\ y + 0 = y
      OBVIOUS
    <2>3. W * (y + o) = W * y + W * o
      <3>1. CASE o = 0
        BY <2>1, <2>2, <3>1
      <3>2. CASE o = 1
        BY <2>1, <2>2, <3>2
      <3>3. CASE o = 2
        BY <2>1, <2>2, <3>3
      <3> QED BY <1>4, <3>1, <3>2, <3>3
    <2> QED BY <2>1, <2>3
  <1>9. PICK wo \in Nat : wo = W * o
    <2>1. W * o \in Nat
      BY <1>4
    <2> QED BY <2>1
  <1>10. PICK n \in Nat, S \in Nat : n = nb /\ S = StationBytes
    BY <1>2, SizeIs DEF Counted2, Counts
  <1>11. Size(nb, h[k]) = 6 + 2 * W + S + n + x + wy
    BY <1>1, <1>6, <1>8, <1>10 DEF Size
  <1>12. Size(nb, h[k + 1]) = 6 + 2 * W + S + n + (x + b) + (wy + wo)
    BY <1>1, <1>7, <1>8, <1>9, <1>10 DEF Size
  <1>13. len2 <= len + b + wo
    BY <1>1, <1>4, <1>9
  <1> QED BY <1>11, <1>12, <1>13

\* An open group and its code, which the later groups leave alone.
GroupFits(code, g, n) ==
  /\ g.start <= g.contents /\ g.contents <= Floor(g) /\ Floor(g) <= Len(code)
  /\ g.op = "NegLookahead" => g.start + 1 + OffsetMaxBytes <= g.contents
  /\ Chained(code, g, n)
Stacked(code, stk, n) ==
  /\ \A i \in 1..Len(stk) : GroupFits(code, stk[i], n)
  /\ \A i, j \in 1..Len(stk) : i < j => Floor(stk[i]) <= stk[j].start
TopOf(stk) == stk[Len(stk)]

LEMMA FloorsBelow ==
  ASSUME OffsetMaxBytes \in Nat, NEW code \in Codes, NEW n \in Nat,
         NEW stk \in Seq(Groups), Len(stk) >= 1, Stacked(code, stk, n), NEW i \in 1..Len(stk)
  PROVE  /\ TopOf(stk) \in Groups /\ GroupFits(code, TopOf(stk), n)
         /\ stk[i] \in Groups /\ GroupFits(code, stk[i], n)
         /\ Floor(stk[i]) \in Nat /\ Floor(TopOf(stk)) \in Nat
         /\ Floor(stk[i]) <= Floor(TopOf(stk))
         /\ i # Len(stk) => Floor(stk[i]) <= TopOf(stk).start
  <1>1. Len(stk) \in Nat /\ Len(stk) \in 1..Len(stk)
    OBVIOUS
  <1>2. TopOf(stk) \in Groups /\ stk[i] \in Groups
    <2> HIDE DEF Groups
    <2> QED BY <1>1 DEF TopOf
  <1>3. GroupFits(code, TopOf(stk), n) /\ GroupFits(code, stk[i], n)
    BY <1>1 DEF Stacked, TopOf
  <1>4. i # Len(stk) => Floor(stk[i]) <= TopOf(stk).start
    BY <1>1 DEF Stacked, TopOf
  <1>5. /\ Floor(stk[i]) \in Nat /\ Floor(TopOf(stk)) \in Nat
        /\ TopOf(stk).start \in Nat /\ TopOf(stk).contents \in Nat
    BY <1>2, GroupIs
  <1>6. Floor(stk[i]) <= Floor(TopOf(stk))
    <2>1. CASE i = Len(stk)
      BY <1>5, <2>1 DEF TopOf
    <2>2. CASE i # Len(stk)
      <3>1. /\ Floor(stk[i]) <= TopOf(stk).start /\ TopOf(stk).start <= TopOf(stk).contents
            /\ TopOf(stk).contents <= Floor(TopOf(stk))
        BY <1>3, <1>4, <2>2 DEF GroupFits
      <3> QED BY <1>5, <3>1
    <2> QED BY <2>1, <2>2
  <1> QED BY <1>2, <1>3, <1>4, <1>5, <1>6

\* A group keeps its place where the code in front of its floor is kept.
LEMMA FitsKept ==
  ASSUME OffsetMaxBytes \in Nat, 1 <= OffsetMaxBytes, NEW c \in Codes, NEW d \in Codes,
         NEW g \in Groups, NEW n \in Nat, NEW m \in Nat, n <= m,
         GroupFits(c, g, n), Agree(c, d, Floor(g))
  PROVE  GroupFits(d, g, m)
  <1>1. Chained(d, g, m)
    BY ChainKept DEF GroupFits
  <1>2. Floor(g) <= Len(d)
    BY DEF Agree
  <1> QED BY <1>1, <1>2 DEF GroupFits

LEMMA StackedKept ==
  ASSUME OffsetMaxBytes \in Nat, 1 <= OffsetMaxBytes, NEW c \in Codes, NEW d \in Codes,
         NEW n \in Nat, NEW m \in Nat, n <= m,
         NEW stk \in Seq(Groups), Len(stk) >= 1, Stacked(c, stk, n), Agree(c, d, Floor(TopOf(stk)))
  PROVE  Stacked(d, stk, m)
  <1>1. ASSUME NEW i \in 1..Len(stk) PROVE GroupFits(d, stk[i], m)
    <2>1. /\ stk[i] \in Groups /\ GroupFits(c, stk[i], n)
          /\ Floor(stk[i]) \in Nat /\ Floor(TopOf(stk)) \in Nat /\ Floor(stk[i]) <= Floor(TopOf(stk))
      BY FloorsBelow
    <2>2. Agree(c, d, Floor(stk[i]))
      BY <2>1, AgreeLess
    <2> QED BY <2>1, <2>2, FitsKept
  <1> QED BY <1>1 DEF Stacked

LEMMA StackedOpen ==
  ASSUME OffsetMaxBytes \in Nat, NEW c \in Codes, NEW n \in Nat,
         NEW stk \in Seq(Groups), Len(stk) >= 1, Stacked(c, stk, n),
         NEW g \in Groups, GroupFits(c, g, n), Floor(TopOf(stk)) <= g.start
  PROVE  Stacked(c, Append(stk, g), n)
  <1> DEFINE new == Append(stk, g)
  <1>1. PICK L \in Nat : L = Len(stk) /\ L >= 1
    OBVIOUS
  <1>2. Len(new) = L + 1 /\ new[L + 1] = g /\ \A i \in 1..L : new[i] = stk[i]
    <2> HIDE DEF Groups
    <2> QED BY <1>1
  <1> HIDE DEF new
  <1>3. \A i \in 1..L + 1 : i \in 1..L \/ i = L + 1
    OBVIOUS
  <1>4. \A i \in 1..L + 1 : GroupFits(c, new[i], n)
    BY <1>1, <1>2, <1>3 DEF Stacked
  <1>5. ASSUME NEW i \in 1..L + 1, NEW j \in 1..L + 1, i < j PROVE Floor(new[i]) <= new[j].start
    <2>1. i \in 1..L /\ new[i] = stk[i]
      BY <1>2, <1>5
    <2>2. CASE j = L + 1
      <3>1. /\ Floor(stk[i]) \in Nat /\ Floor(TopOf(stk)) \in Nat /\ Floor(stk[i]) <= Floor(TopOf(stk))
        BY <1>1, <2>1, FloorsBelow
      <3>2. g.start \in Nat
        BY GroupIs
      <3> QED BY <1>2, <2>1, <2>2, <3>1, <3>2
    <2>3. CASE j \in 1..L
      BY <1>1, <1>2, <1>5, <2>1, <2>3 DEF Stacked
    <2> QED BY <1>3, <2>2, <2>3
  <1>6. Stacked(c, new, n)
    BY <1>2, <1>4, <1>5 DEF Stacked
  <1> QED BY <1>6 DEF new

LEMMA StackedClose ==
  ASSUME OffsetMaxBytes \in Nat, 1 <= OffsetMaxBytes, NEW c \in Codes, NEW d \in Codes,
         NEW n \in Nat, NEW m \in Nat, n <= m,
         NEW stk \in Seq(Groups), Len(stk) >= 2, Stacked(c, stk, n), Agree(c, d, TopOf(stk).start),
         NEW less \in Seq(Groups), Len(less) = Len(stk) - 1, \A i \in 1..Len(stk) - 1 : less[i] = stk[i]
  PROVE  Stacked(d, less, m) /\ Floor(TopOf(less)) <= TopOf(stk).start
  <1>1. PICK L \in Nat : L = Len(stk) /\ L >= 2
    OBVIOUS
  <1>2. ASSUME NEW i \in 1..L - 1
        PROVE  /\ i \in 1..L /\ stk[i] \in Groups /\ GroupFits(c, stk[i], n) /\ Floor(stk[i]) \in Nat
               /\ Floor(stk[i]) <= TopOf(stk).start /\ TopOf(stk).start \in Nat
    <2>1. i \in 1..Len(stk) /\ i # Len(stk) /\ Len(stk) >= 1
      BY <1>1
    <2>2. /\ TopOf(stk) \in Groups /\ stk[i] \in Groups /\ GroupFits(c, stk[i], n)
          /\ Floor(stk[i]) \in Nat /\ (i # Len(stk) => Floor(stk[i]) <= TopOf(stk).start)
      BY <2>1, FloorsBelow
    <2>3. TopOf(stk).start \in Nat
      BY <2>2, GroupIs
    <2> QED BY <1>1, <2>1, <2>2, <2>3
  <1>3. ASSUME NEW i \in 1..L - 1 PROVE GroupFits(d, less[i], m)
    <2>1. Agree(c, d, Floor(stk[i]))
      BY <1>2, AgreeLess
    <2>2. GroupFits(d, stk[i], m)
      BY <1>2, <2>1, FitsKept
    <2> QED BY <1>1, <2>2
  <1>4. ASSUME NEW i \in 1..L - 1, NEW j \in 1..L - 1, i < j PROVE Floor(less[i]) <= less[j].start
    BY <1>1, <1>2, <1>4 DEF Stacked
  <1>5. Floor(TopOf(less)) <= TopOf(stk).start
    <2>1. L - 1 \in 1..L - 1
      BY <1>1
    <2>2. TopOf(less) = stk[L - 1]
      BY <1>1, <2>1 DEF TopOf
    <2> QED BY <1>2, <2>1, <2>2
  <1> QED BY <1>1, <1>3, <1>4, <1>5 DEF Stacked

LEMMA StackedSet ==
  ASSUME OffsetMaxBytes \in Nat, NEW c \in Codes, NEW n \in Nat,
         NEW stk \in Seq(Groups), Len(stk) >= 1, Stacked(c, stk, n),
         NEW g \in Groups, GroupFits(c, g, n), g.start = TopOf(stk).start,
         NEW new \in Seq(Groups), Len(new) = Len(stk), new[Len(stk)] = g,
         \A i \in 1..Len(stk) - 1 : new[i] = stk[i]
  PROVE  Stacked(c, new, n)
  <1>1. PICK L \in Nat : L = Len(stk) /\ L >= 1
    OBVIOUS
  <1>2. \A i \in 1..L : i \in 1..L - 1 \/ i = L
    BY <1>1
  <1>3. \A i \in 1..L - 1 : i \in 1..L
    BY <1>1
  <1>4. \A i \in 1..L : GroupFits(c, new[i], n)
    BY <1>1, <1>2, <1>3 DEF Stacked
  <1>5. ASSUME NEW i \in 1..L, NEW j \in 1..L, i < j PROVE Floor(new[i]) <= new[j].start
    <2>1. i \in 1..L - 1 /\ new[i] = stk[i]
      BY <1>1, <1>5
    <2>2. Floor(stk[i]) <= stk[j].start
      BY <1>1, <1>5 DEF Stacked
    <2>3. new[j].start = stk[j].start
      BY <1>1, <1>2 DEF TopOf
    <2> QED BY <2>1, <2>2, <2>3
  <1> QED BY <1>1, <1>4, <1>5 DEF Stacked

\* The start station, in the header.
Entry(code) == \E v \in Nat : v + OffsetMaxBytes + 1 < Room /\ code[OffsetMaxBytes + 2].num = Zigzag(v)

\* The second pass has seen n tokens.
Running(h, nb, n, stk, code, atom) ==
  /\ n \in 0..Len(tokens) /\ stk \in Seq(Groups) /\ Ops(stk) = h[n].ops
  /\ code \in Codes /\ Len(code) <= Size(nb, h[n])
  /\ Stacked(code, stk, n)
  /\ OffsetMaxBytes + 2 <= stk[1].contents /\ Entry(code)
  /\ atom \in Nat
  /\ n # 0 /\ tokens[n].op \in Atoms => Floor(TopOf(stk)) <= atom /\ atom <= Len(code)

LEMMA RunningIs ==
  ASSUME NEW h, NEW nb, Counted2(h, nb), NEW n, NEW stk, NEW code, NEW atom,
         Running(h, nb, n, stk, code, atom)
  PROVE  /\ bytes_required \in Nat /\ offsets_required \in Nat
         /\ OffsetMaxBytes \in Nat /\ 1 <= OffsetMaxBytes /\ OffsetMaxBytes <= 3 /\ Room \in Nat
         /\ n \in Nat /\ n <= Len(tokens)
         /\ Len(code) \in Nat /\ Len(code) + 2 + 3 * OffsetMaxBytes <= Room
         /\ stk \in Seq(Groups) /\ Len(stk) \in Nat /\ Len(stk) >= 1 /\ stk[1].op = "Start"
         /\ TopOf(stk) \in Groups /\ GroupFits(code, TopOf(stk), n)
         /\ Floor(TopOf(stk)) \in Nat /\ Floor(TopOf(stk)) <= Len(code)
         /\ OffsetMaxBytes + 2 <= Floor(stk[1]) /\ OffsetMaxBytes + 2 <= Floor(TopOf(stk))
         /\ Ops(stk)[Len(Ops(stk))] = TopOf(stk).op
  <1>1. bytes_required \in Nat /\ offsets_required \in Nat /\ Len(tokens) \in Nat /\ Trace(h, tokens)
    BY DEF Counted2, Measured, Counts
  <1>2. PICK W \in Nat, R \in Nat : W = OffsetMaxBytes /\ 1 <= W /\ W <= 3 /\ R = Room
    BY <1>1, WidthIs
  <1>3. /\ n \in 0..Len(tokens) /\ stk \in Seq(Groups) /\ Ops(stk) = h[n].ops /\ code \in Codes
        /\ Len(code) <= Size(nb, h[n]) /\ Stacked(code, stk, n) /\ W + 2 <= stk[1].contents
    BY <1>2 DEF Running
  <1>4. n \in Nat /\ n <= Len(tokens)
    BY <1>1, <1>3
  <1>5. PICK L \in Nat : L = Len(code)
    BY <1>3, CodeLength
  <1>6. L + 2 + 3 * W <= R
    <2>1. PICK z \in Nat, S \in Nat : z = Size(nb, h[n]) /\ S = StationBytes /\ S <= 3 /\ z + 5 + 3 * W <= R + S
      BY <1>2, <1>3, SizeIs
    <2>2. L <= z
      BY <1>3, <1>5, <2>1
    <2> QED BY <2>1, <2>2
  <1>7. Len(stk) \in Nat /\ Len(stk) >= 1 /\ stk[1].op = "Start"
    BY <1>1, <1>3, StackIs
  <1>8. 1 \in 1..Len(stk) /\ Len(stk) \in 1..Len(stk)
    BY <1>7
  <1>9. /\ TopOf(stk) \in Groups /\ GroupFits(code, TopOf(stk), n)
        /\ stk[1] \in Groups /\ GroupFits(code, stk[1], n)
        /\ Floor(stk[1]) \in Nat /\ Floor(TopOf(stk)) \in Nat /\ Floor(stk[1]) <= Floor(TopOf(stk))
    BY <1>2, <1>3, <1>4, <1>7, <1>8, FloorsBelow
  <1>10. Floor(TopOf(stk)) <= L
    BY <1>5, <1>9 DEF GroupFits
  <1>11. W + 2 <= Floor(stk[1]) /\ W + 2 <= Floor(TopOf(stk))
    <2>1. stk[1].contents \in Nat /\ stk[1].contents <= Floor(stk[1])
      BY <1>2, <1>9, GroupIs DEF GroupFits
    <2> QED BY <1>3, <1>9, <2>1
  <1>12. Ops(stk)[Len(Ops(stk))] = TopOf(stk).op
    BY <1>3, <1>8, OpsAre DEF TopOf
  <1> QED BY <1>1, <1>2, <1>3, <1>4, <1>5, <1>6, <1>7, <1>9, <1>10, <1>11, <1>12

\* One token more.
LEMMA RunningOn ==
  ASSUME NEW h, NEW nb, Counted2(h, nb), NEW n \in 0..Len(tokens) - 1, NEW stk, NEW code, NEW atom,
         Running(h, nb, n, stk, code, atom),
         NEW stk2 \in Seq(Groups), Ops(stk2) = OpsAfter(Ops(stk), tokens[n + 1]),
         NEW code2 \in Codes,
         Len(code2) <= Len(code) + BytesOf(tokens[n + 1], Ops(stk)) + OffsetMaxBytes * OffsetsOf(tokens[n + 1]),
         Stacked(code2, stk2, n + 1), stk2[1].contents = stk[1].contents,
         code2[OffsetMaxBytes + 2] = code[OffsetMaxBytes + 2],
         NEW atom2 \in Nat,
         tokens[n + 1].op \in Atoms => Floor(TopOf(stk2)) <= atom2 /\ atom2 <= Len(code2)
  PROVE  Running(h, nb, n + 1, stk2, code2, atom2)
  <1>1. Len(tokens) \in Nat
    BY DEF Counted2, Measured
  <1>2. n + 1 \in 0..Len(tokens) /\ n + 1 \in 1..Len(tokens) /\ (n + 1) - 1 = n /\ n + 1 # 0
    BY <1>1
  <1>3. /\ Ops(stk) = h[n].ops /\ code \in Codes /\ Len(code) <= Size(nb, h[n])
        /\ OffsetMaxBytes + 2 <= stk[1].contents /\ Entry(code)
    BY DEF Running
  <1>4. Ops(stk2) = h[n + 1].ops
    <2>1. Follows(h[(n + 1) - 1], tokens[n + 1], h[n + 1])
      BY <1>2 DEF Counted2, Counts, Trace
    <2> QED BY <1>2, <1>3, <2>1 DEF Follows
  <1>5. Len(code2) <= Size(nb, h[n + 1])
    <2>1. Len(code) \in Nat /\ Len(code2) \in Nat
      BY <1>3, CodeLength
    <2> QED BY <1>3, <2>1, SizeGrows
  <1>6. Entry(code2)
    BY <1>3 DEF Entry
  <1> QED BY <1>2, <1>3, <1>4, <1>5, <1>6 DEF Running

\* What a token changes is behind the floor of the group it is in.
LEMMA PlainOn ==
  ASSUME NEW h, NEW nb, Counted2(h, nb), NEW n \in 0..Len(tokens) - 1, NEW stk, NEW code, NEW atom,
         Running(h, nb, n, stk, code, atom),
         tokens[n + 1].op \notin Openers, tokens[n + 1].op # "EndGroup",
         NEW code2 \in Codes, Agree(code, code2, Floor(TopOf(stk))),
         Len(code2) <= Len(code) + BytesOf(tokens[n + 1], Ops(stk)) + OffsetMaxBytes * OffsetsOf(tokens[n + 1]),
         tokens[n + 1].op \in Atoms => Len(code) <= Len(code2)
  PROVE  Running(h, nb, n + 1, stk, code2, Len(code))
  <1>0. /\ OffsetMaxBytes \in Nat /\ 1 <= OffsetMaxBytes /\ n \in Nat
        /\ Len(code) \in Nat /\ stk \in Seq(Groups) /\ Len(stk) >= 1
        /\ Floor(TopOf(stk)) \in Nat /\ Floor(TopOf(stk)) <= Len(code)
        /\ OffsetMaxBytes + 2 <= Floor(TopOf(stk))
    BY RunningIs
  <1>1. /\ OffsetMaxBytes \in Nat /\ 1 <= OffsetMaxBytes /\ n \in Nat /\ n + 1 \in Nat /\ n <= n + 1
        /\ Len(code) \in Nat /\ stk \in Seq(Groups) /\ Len(stk) >= 1
        /\ Floor(TopOf(stk)) \in Nat /\ Floor(TopOf(stk)) <= Len(code)
        /\ OffsetMaxBytes + 2 <= Floor(TopOf(stk))
    BY <1>0
  <1>2. code \in Codes /\ Stacked(code, stk, n)
    BY DEF Running
  <1>3. Stacked(code2, stk, n + 1)
    BY <1>1, <1>2, StackedKept
  <1>4. code2[OffsetMaxBytes + 2] = code[OffsetMaxBytes + 2]
    <2>1. OffsetMaxBytes + 2 \in 1..Floor(TopOf(stk))
      BY <1>1
    <2> QED BY <2>1 DEF Agree
  <1>5. Ops(stk) = OpsAfter(Ops(stk), tokens[n + 1])
    BY DEF OpsAfter
  <1>6. stk[1].contents = stk[1].contents
    OBVIOUS
  <1> QED BY <1>1, <1>3, <1>4, <1>5, <1>6, RunningOn

\* Code that is put behind the rest.
LEMMA BehindOn ==
  ASSUME NEW h, NEW nb, Counted2(h, nb), NEW n \in 0..Len(tokens) - 1, NEW stk, NEW code, NEW atom,
         Running(h, nb, n, stk, code, atom),
         tokens[n + 1].op \notin Openers, tokens[n + 1].op # "EndGroup",
         NEW piece \in Codes,
         Len(piece) <= BytesOf(tokens[n + 1], Ops(stk)) + OffsetMaxBytes * OffsetsOf(tokens[n + 1])
  PROVE  Running(h, nb, n + 1, stk, code \o piece, Len(code))
  <1>1. /\ Floor(TopOf(stk)) \in Nat /\ Floor(TopOf(stk)) <= Len(code) /\ Len(code) \in Nat
        /\ OffsetMaxBytes \in Nat /\ n \in Nat /\ n <= Len(tokens)
    BY RunningIs
  <1>2. code \in Codes
    BY DEF Running
  <1>3. /\ code \o piece \in Codes /\ Len(code \o piece) = Len(code) + Len(piece)
        /\ \A i \in 1..Len(code) : (code \o piece)[i] = code[i]
    BY <1>2, JoinIs
  <1>4. PICK d \in Codes : d = code \o piece
    BY <1>3
  <1>5. PICK L \in Nat, P \in Nat : L = Len(code) /\ P = Len(piece)
    BY <1>1, CodeLength
  <1>6. Len(d) = L + P /\ \A i \in 1..L : d[i] = code[i]
    BY <1>3, <1>4, <1>5
  <1>7. Agree(code, d, Floor(TopOf(stk)))
    <2>1. \A i \in 1..Floor(TopOf(stk)) : i \in 1..L
      BY <1>1, <1>5
    <2>2. Floor(TopOf(stk)) <= L + P
      BY <1>1, <1>5
    <2> QED BY <1>1, <1>5, <1>6, <2>1, <2>2 DEF Agree
  <1>8. tokens[n + 1] \in Tokens
    <2>1. n + 1 \in 1..Len(tokens)
      BY <1>1 DEF Counted2, Measured
    <2> QED BY <2>1 DEF Counted2, Measured
  <1>9. PICK b \in Nat, o \in Nat : b = BytesOf(tokens[n + 1], Ops(stk)) /\ o = OffsetsOf(tokens[n + 1])
    BY <1>8, NeedsAre
  <1>10. PICK wo \in Nat : wo = OffsetMaxBytes * o
    <2>1. OffsetMaxBytes * o \in Nat
      BY <1>1
    <2> QED BY <2>1
  <1>11. /\ Len(d) <= Len(code) + BytesOf(tokens[n + 1], Ops(stk)) + OffsetMaxBytes * OffsetsOf(tokens[n + 1])
         /\ Len(code) <= Len(d)
    <2>1. P <= b + wo
      BY <1>5, <1>9, <1>10
    <2>2. L + P <= L + b + wo /\ L <= L + P
      BY <2>1
    <2> QED BY <1>5, <1>6, <1>9, <1>10, <2>2
  <1>12. Running(h, nb, n + 1, stk, d, Len(code))
    BY <1>7, <1>11, PlainOn
  <1> QED BY <1>4, <1>12

\* The token that the second pass reads.
LEMMA InstrIs ==
  ASSUME NEW h, NEW nb, Counted2(h, nb), NEW stk, NEW code, NEW atom, Running(h, nb, at, stk, code, atom),
         at < Len(tokens)
  PROVE  /\ at \in 0..Len(tokens) - 1 /\ at + 1 \in 1..Len(tokens) /\ Instr \in Tokens
         /\ Instr.op \in TokenOps /\ Instr.str \in Seq(Nat) /\ Instr.min \in Nat /\ Instr.max \in Nat
         /\ Len(Instr.str) \in Nat /\ Instr.op \in OpNames
         /\ StringBytes(Instr.str) \in Nat /\ StringSize(Instr.str) \in Nat
  <1>1. at \in Nat /\ tokens \in Seq(Tokens)
    BY DEF Running, Counted2, Measured
  <1>2. at \in 0..Len(tokens) - 1 /\ at + 1 \in 1..Len(tokens)
    BY <1>1
  <1>3. Instr \in Tokens
    BY <1>1, <1>2 DEF Instr
  <1>4. Instr.op \in TokenOps /\ Instr.str \in Seq(Nat) /\ Instr.min \in Nat /\ Instr.max \in Nat
    BY <1>3, TokenIs
  <1>5. Len(Instr.str) \in Nat /\ StringBytes(Instr.str) \in Nat /\ StringSize(Instr.str) \in Nat
    BY <1>4, CharactersAre, EmitStringIs
  <1> QED BY <1>2, <1>3, <1>4, <1>5 DEF OpNames

\* The tokens that emit their own code and no more.
LEMMA EmittingAtoms ==
  ASSUME NEW h, NEW nb, Counted2(h, nb), Running(h, nb, at, stack, nfa, last_atom_start), at < Len(tokens),
         EmitLiteral \/ EmitSimple \/ EmitClass
  PROVE  Running(h, nb, at + 1, stack', nfa', last_atom_start')
  <1>1. /\ at \in 0..Len(tokens) - 1 /\ Instr \in Tokens /\ Instr.op \in OpNames
        /\ Instr.str \in Seq(Nat) /\ Len(Instr.str) \in Nat
        /\ StringBytes(Instr.str) \in Nat /\ StringSize(Instr.str) \in Nat
    BY InstrIs
  <1>2. Instr = tokens[at + 1] /\ OffsetMaxBytes \in Nat /\ nfa \in Codes
    BY RunningIs DEF Instr, Running
  <1>3. stack' = stack /\ last_atom_start' = Len(nfa)
    BY DEF EmitLiteral, EmitSimple, EmitClass, Emit
  <1>4. CASE EmitLiteral
    <2>1. Instr.op = "Literal" /\ nfa' = nfa \o Chars[Len(Instr.str)]
      BY <1>4 DEF EmitLiteral, Emit
    <2>2. PICK piece \in Codes : /\ piece = Chars[Len(Instr.str)]
                                  /\ Len(piece) = Len(Instr.str) + StringBytes(Instr.str)
      BY <1>1, LiteralIs
    <2>3. BytesOf(Instr, Ops(stack)) = Len(Instr.str) + StringBytes(Instr.str) /\ OffsetsOf(Instr) = 0
      BY <2>1 DEF BytesOf, OffsetsOf
    <2>4. Len(piece) <= BytesOf(Instr, Ops(stack)) + OffsetMaxBytes * OffsetsOf(Instr)
      <3>1. PICK x \in Nat : x = Len(Instr.str) + StringBytes(Instr.str)
        BY <1>1
      <3>2. OffsetMaxBytes * 0 = 0 /\ x <= x + 0
        BY <1>2
      <3> QED BY <2>2, <2>3, <3>1, <3>2
    <2>5. Instr.op \notin Openers /\ Instr.op # "EndGroup"
      BY <2>1 DEF Openers
    <2>6. Running(h, nb, at + 1, stack, nfa \o piece, Len(nfa))
      BY <1>1, <1>2, <2>4, <2>5, BehindOn
    <2> QED BY <1>3, <2>1, <2>2, <2>6
  <1>5. CASE EmitSimple
    <2>1. Instr.op \in Lines /\ nfa' = Append(nfa, Op(Instr.op))
      BY <1>5 DEF EmitSimple, Emit, Lines
    <2>2. PICK x \in Cells : x = Op(Instr.op)
      BY <1>1, CellsAre
    <2>3. PICK piece \in Codes : piece = <<x>> /\ Len(piece) = 1
      BY CellCode
    <2>4. /\ Instr.op # "Literal" /\ Instr.op # "NegLookahead" /\ Instr.op # "Alternate"
          /\ Instr.op # "Repetition"
      BY <2>1 DEF Lines
    <2>5. BytesOf(Instr, Ops(stack)) = 1 /\ OffsetsOf(Instr) = 0
      BY <2>1, <2>4 DEF BytesOf, OffsetsOf
    <2>6. Len(piece) <= BytesOf(Instr, Ops(stack)) + OffsetMaxBytes * OffsetsOf(Instr)
      <3>1. OffsetMaxBytes * 0 = 0
        BY <1>2
      <3> QED BY <2>3, <2>5, <3>1
    <2>7. Instr.op \notin Openers /\ Instr.op # "EndGroup"
      BY <2>1 DEF Openers, Lines
    <2>8. Running(h, nb, at + 1, stack, nfa \o piece, Len(nfa))
      BY <1>1, <1>2, <2>6, <2>7, BehindOn
    <2>9. nfa' = nfa \o piece
      <3> HIDE DEF Cells
      <3>1. nfa \in Seq(Cells)
        BY <1>2 DEF Codes
      <3> QED BY <2>1, <2>2, <2>3, <3>1
    <2> QED BY <1>3, <2>8, <2>9
  <1>6. CASE EmitClass
    <2>1. Instr.op \in Classes /\ nfa' = nfa \o <<Op(Instr.op)>> \o EmitString(Instr.str)
      BY <1>6 DEF EmitClass, Emit, Classes
    <2>2. PICK a \in Codes : a = <<Op(Instr.op)>> /\ Len(a) = 1
      BY <1>1, CellsAre, CellCode
    <2>3. PICK b \in Codes : b = EmitString(Instr.str) /\ Len(b) = StringSize(Instr.str)
      BY <1>1, EmitStringIs
    <2>4. PICK piece \in Codes : piece = a \o b /\ Len(piece) = 1 + StringSize(Instr.str)
      <3>1. a \o b \in Codes /\ Len(a \o b) = Len(a) + Len(b)
        BY JoinIs
      <3> QED BY <2>2, <2>3, <3>1
    <2>5. /\ Instr.op # "Literal" /\ Instr.op \notin Lines /\ Instr.op # "NegLookahead"
          /\ Instr.op # "Alternate" /\ Instr.op # "Repetition"
      BY <2>1 DEF Lines, Classes
    <2>6. BytesOf(Instr, Ops(stack)) = 1 + StringSize(Instr.str) /\ OffsetsOf(Instr) = 0
      BY <2>1, <2>5 DEF BytesOf, OffsetsOf
    <2>7. Len(piece) <= BytesOf(Instr, Ops(stack)) + OffsetMaxBytes * OffsetsOf(Instr)
      <3>1. PICK x \in Nat : x = StringSize(Instr.str)
        BY <1>1
      <3>2. OffsetMaxBytes * 0 = 0 /\ 1 + x <= 1 + x + 0
        BY <1>2
      <3> QED BY <2>4, <2>6, <3>1, <3>2
    <2>8. Instr.op \notin Openers /\ Instr.op # "EndGroup"
      BY <2>1 DEF Openers, Classes
    <2>9. Running(h, nb, at + 1, stack, nfa \o piece, Len(nfa))
      BY <1>1, <1>2, <2>7, <2>8, BehindOn
    <2>10. nfa' = nfa \o piece
      <3> HIDE DEF Cells
      <3>1. nfa \in Seq(Cells) /\ a \in Seq(Cells) /\ b \in Seq(Cells)
        BY <1>2 DEF Codes
      <3>2. (nfa \o a) \o b = nfa \o (a \o b)
        BY <3>1, ConcatAssociative
      <3> QED BY <2>1, <2>2, <2>3, <2>4, <3>2
    <2> QED BY <1>3, <2>9, <2>10
  <1> QED BY <1>4, <1>5, <1>6

\* A group without alternates so far.
LEMMA NewFits ==
  ASSUME OffsetMaxBytes \in Nat, NEW code \in Codes, NEW op \in GroupOps, NEW num \in Nat,
         NEW start \in Nat, NEW contents \in Nat, start <= contents, contents <= Len(code),
         op = "NegLookahead" => start + 1 + OffsetMaxBytes <= contents, NEW n \in Nat
  PROVE  GroupFits(code, Group(op, num, start, contents), n)
  <1>1. PICK g \in Groups : g = Group(op, num, start, contents)
    BY GroupMade
  <1>2. /\ g.op = op /\ g.start = start /\ g.contents = contents /\ g.last_jump = 0
        /\ Floor(g) = contents
    BY <1>1, GroupMade
  <1>3. Chained(code, g, n)
    <2>1. <<>> \in Seq(Nat) /\ Len(<<>>) = 0 /\ 0 <= n
      OBVIOUS
    <2>2. LastOf(<<>>) = 0
      BY <2>1 DEF LastOf
    <2>3. Linked(code, g.contents, <<>>, Floor(g))
      <3>1. \A k \in 1..0 : FALSE
        OBVIOUS
      <3> QED BY <2>1, <3>1 DEF Linked
    <2> QED BY <1>2, <2>1, <2>2, <2>3 DEF Chained
  <1>4. contents <= contents
    OBVIOUS
  <1> QED BY <1>1, <1>2, <1>3, <1>4 DEF GroupFits

\* A group is opened at the end of the code.
LEMMA OpeningOn ==
  ASSUME NEW h, NEW nb, Counted2(h, nb), NEW n \in 0..Len(tokens) - 1, NEW stk, NEW code, NEW atom,
         Running(h, nb, n, stk, code, atom),
         NEW op \in Openers, op = tokens[n + 1].op, NEW num \in Nat, NEW piece \in Codes,
         Len(piece) <= BytesOf(tokens[n + 1], Ops(stk)) + OffsetMaxBytes * OffsetsOf(tokens[n + 1]),
         op = "NegLookahead" => 1 + OffsetMaxBytes <= Len(piece)
  PROVE  Running(h, nb, n + 1, Append(stk, Group(op, num, Len(code), Len(code) + Len(piece))),
                 code \o piece, Len(code))
  <1>1. /\ Floor(TopOf(stk)) \in Nat /\ Floor(TopOf(stk)) <= Len(code) /\ Len(code) \in Nat
        /\ OffsetMaxBytes \in Nat /\ 1 <= OffsetMaxBytes /\ OffsetMaxBytes + 2 <= Floor(TopOf(stk))
        /\ n \in Nat /\ n <= Len(tokens)
        /\ stk \in Seq(Groups) /\ Len(stk) \in Nat /\ Len(stk) >= 1
    BY RunningIs
  <1>2. code \in Codes /\ Stacked(code, stk, n)
    BY DEF Running
  <1>3. /\ code \o piece \in Codes /\ Len(code \o piece) = Len(code) + Len(piece)
        /\ \A i \in 1..Len(code) : (code \o piece)[i] = code[i]
    BY <1>2, JoinIs
  <1>4. PICK d \in Codes : d = code \o piece
    BY <1>3
  <1>5. PICK L \in Nat, P \in Nat, F \in Nat : L = Len(code) /\ P = Len(piece) /\ F = Floor(TopOf(stk))
    BY <1>1, CodeLength
  <1>6. Len(d) = L + P /\ \A i \in 1..L : d[i] = code[i]
    BY <1>3, <1>4, <1>5
  <1>7. F <= L /\ OffsetMaxBytes + 2 <= F
    BY <1>1, <1>5
  <1>8. Agree(code, d, F)
    <2>1. \A i \in 1..F : i \in 1..L
      BY <1>7
    <2>2. F <= L + P
      BY <1>7
    <2> QED BY <1>5, <1>6, <1>7, <2>1, <2>2 DEF Agree
  <1>9. n + 1 \in Nat /\ n <= n + 1
    BY <1>1
  <1>10. Stacked(d, stk, n + 1)
    BY <1>1, <1>2, <1>5, <1>8, <1>9, StackedKept
  <1>11. op \in GroupOps /\ L + P \in Nat
    BY DEF GroupOps
  <1>12. PICK g \in Groups : g = Group(op, num, L, L + P) /\ g.start = L /\ g.op = op
    <2>1. PICK e \in Nat : e = L + P
      BY <1>11
    <2>2. op \in GroupOps /\ num \in Nat /\ L \in Nat /\ e \in Nat
      BY <1>11
    <2>3. /\ Group(op, num, L, e) \in Groups /\ Group(op, num, L, e).start = L
          /\ Group(op, num, L, e).op = op
      BY <2>2 DEF Group, Groups
    <2> HIDE DEF Groups
    <2> QED BY <2>1, <2>3
  <1>13. GroupFits(d, g, n + 1)
    <2>1. L <= L + P /\ L + P <= Len(d) /\ (op = "NegLookahead" => L + 1 + OffsetMaxBytes <= L + P)
      BY <1>1, <1>5, <1>6
    <2> QED BY <1>1, <1>9, <1>11, <1>12, <2>1, NewFits
  <1>14. PICK stk2 \in Seq(Groups) : stk2 = Append(stk, g) /\ Ops(stk2) = Append(Ops(stk), op)
    BY <1>1, <1>12, OpsOpen
  <1>15. Stacked(d, stk2, n + 1)
    <2>1. Floor(TopOf(stk)) <= g.start
      BY <1>5, <1>7, <1>12
    <2> QED BY <1>1, <1>9, <1>10, <1>13, <1>14, <2>1, StackedOpen
  <1>16. stk2[1] = stk[1]
    <2> HIDE DEF Groups
    <2> QED BY <1>1, <1>12, <1>14
  <1>17. d[OffsetMaxBytes + 2] = code[OffsetMaxBytes + 2]
    <2>1. OffsetMaxBytes + 2 \in 1..F
      BY <1>1, <1>7
    <2> QED BY <1>8, <2>1 DEF Agree
  <1>18. Ops(stk2) = OpsAfter(Ops(stk), tokens[n + 1])
    BY <1>14 DEF OpsAfter
  <1>19. tokens[n + 1] \in Tokens
    <2>1. n + 1 \in 1..Len(tokens)
      BY <1>1 DEF Counted2, Measured
    <2> QED BY <2>1 DEF Counted2, Measured
  <1>20. PICK b \in Nat, o \in Nat : b = BytesOf(tokens[n + 1], Ops(stk)) /\ o = OffsetsOf(tokens[n + 1])
    BY <1>19, NeedsAre
  <1>21. PICK wo \in Nat : wo = OffsetMaxBytes * o
    <2>1. OffsetMaxBytes * o \in Nat
      BY <1>1
    <2> QED BY <2>1
  <1>22. Len(d) <= Len(code) + BytesOf(tokens[n + 1], Ops(stk)) + OffsetMaxBytes * OffsetsOf(tokens[n + 1])
    <2>1. P <= b + wo
      BY <1>5, <1>20, <1>21
    <2>2. L + P <= L + b + wo
      BY <2>1
    <2> QED BY <1>5, <1>6, <1>20, <1>21, <2>2
  <1>23. tokens[n + 1].op \notin Atoms
    BY DEF Openers, Atoms
  <1>24. Running(h, nb, n + 1, stk2, d, L)
    BY <1>14, <1>15, <1>16, <1>17, <1>18, <1>22, <1>23, RunningOn
  <1> QED BY <1>4, <1>5, <1>12, <1>14, <1>24

LEMMA EmittingOpeners ==
  ASSUME NEW h, NEW nb, Counted2(h, nb), Running(h, nb, at, stack, nfa, last_atom_start), at < Len(tokens),
         EmitGroup \/ EmitNamed \/ EmitLookahead
  PROVE  Running(h, nb, at + 1, stack', nfa', last_atom_start') /\ next_group' \in Nat
  <1>1. at \in 0..Len(tokens) - 1 /\ Instr \in Tokens
    BY InstrIs
  <1>2. /\ Instr = tokens[at + 1] /\ OffsetMaxBytes \in Nat /\ 1 <= OffsetMaxBytes /\ nfa \in Codes
        /\ Len(nfa) \in Nat /\ Room \in Nat /\ Len(nfa) + 2 + 3 * OffsetMaxBytes <= Room
        /\ bytes_required \in Nat /\ offsets_required \in Nat
    BY RunningIs DEF Instr, Running
  <1>3. next_group \in Nat /\ next_group + 1 \in Nat
    BY DEF Counted2, Measured
  <1>4. CASE EmitGroup
    <2>1. /\ Instr.op = "NonCapturingGroup" /\ nfa' = nfa /\ last_atom_start' = Len(nfa)
          /\ stack' = Append(stack, Group(Instr.op, 0, Len(nfa), Len(nfa))) /\ next_group' = next_group
      BY <1>4 DEF EmitGroup, Emit
    <2>2. PICK piece \in Codes : piece = <<>> /\ Len(piece) = 0
      BY NoCode
    <2>3. nfa \o piece = nfa /\ Len(nfa) + Len(piece) = Len(nfa)
      <3>1. nfa \in Seq(Cells) /\ piece = <<>>
        BY <1>2, <2>2 DEF Codes
      <3>2. nfa \o <<>> = nfa
        BY <3>1, ConcatEmptySeq
      <3> QED BY <1>2, <2>2, <3>2
    <2>4. Instr.op \in Openers /\ 0 \in Nat
      BY <2>1 DEF Openers
    <2>5. Len(piece) <= BytesOf(Instr, Ops(stack)) + OffsetMaxBytes * OffsetsOf(Instr)
      <3>1. BytesOf(Instr, Ops(stack)) = 0 /\ OffsetsOf(Instr) = 0
        BY <2>1 DEF BytesOf, OffsetsOf, Lines, Classes
      <3>2. OffsetMaxBytes * 0 = 0
        BY <1>2
      <3> QED BY <2>2, <3>1, <3>2
    <2>6. Instr.op # "NegLookahead"
      BY <2>1
    <2>7. Running(h, nb, at + 1, Append(stack, Group(Instr.op, 0, Len(nfa), Len(nfa) + Len(piece))),
                  nfa \o piece, Len(nfa))
      BY <1>1, <1>2, <2>4, <2>5, <2>6, OpeningOn
    <2> QED BY <1>3, <2>1, <2>3, <2>7
  <1>5. CASE EmitNamed
    <2>1. /\ Instr.op = "NamedCapture" /\ nfa' = nfa \o <<Op("CaptureStart"), Byte(next_group + 1)>>
          /\ last_atom_start' = Len(nfa)
          /\ stack' = Append(stack, Group(Instr.op, next_group + 1, Len(nfa), Len(nfa) + 2))
          /\ next_group' = next_group + 1
      BY <1>5 DEF EmitNamed, Emit
    <2>2. PICK x \in Cells, y \in Cells : x = Op("CaptureStart") /\ y = Byte(next_group + 1)
      <3>1. "CaptureStart" \in OpNames
        BY DEF OpNames
      <3> QED BY <1>3, <3>1, CellsAre
    <2>3. PICK piece \in Codes : piece = <<x, y>> /\ Len(piece) = 2
      BY PairCode
    <2>4. Instr.op \in Openers
      BY <2>1 DEF Openers
    <2>5. Len(piece) <= BytesOf(Instr, Ops(stack)) + OffsetMaxBytes * OffsetsOf(Instr)
      <3>1. BytesOf(Instr, Ops(stack)) = 2 /\ OffsetsOf(Instr) = 0
        BY <2>1 DEF BytesOf, OffsetsOf, Lines, Classes
      <3>2. OffsetMaxBytes * 0 = 0
        BY <1>2
      <3> QED BY <2>3, <3>1, <3>2
    <2>6. Instr.op # "NegLookahead"
      BY <2>1
    <2>7. Running(h, nb, at + 1, Append(stack, Group(Instr.op, next_group + 1, Len(nfa), Len(nfa) + Len(piece))),
                  nfa \o piece, Len(nfa))
      BY <1>1, <1>2, <1>3, <2>4, <2>5, <2>6, OpeningOn
    <2> QED BY <1>3, <2>1, <2>2, <2>3, <2>7
  <1>6. CASE EmitLookahead
    <2>1. /\ Instr.op = "NegLookahead" /\ nfa' = nfa \o <<Op("NegLookahead")>> \o EmitPadded(0)
          /\ last_atom_start' = Len(nfa)
          /\ stack' = Append(stack, Group(Instr.op, 0, Len(nfa), Len(nfa) + 1 + OffsetMaxBytes))
          /\ next_group' = next_group
      BY <1>6 DEF EmitLookahead, Emit
    <2>2. PICK a \in Codes : a = <<Op("NegLookahead")>> /\ Len(a) = 1
      <3>1. "NegLookahead" \in OpNames
        BY DEF OpNames, TokenOps, Openers
      <3> QED BY <3>1, CellsAre, CellCode
    <2>3. PICK b \in Codes : b = EmitPadded(0) /\ Len(b) = OffsetMaxBytes
      <3>1. 0 \in Int /\ -Room < 0 /\ 0 < Room
        BY <1>2
      <3>2. UTF8Len(Zigzag(0)) <= OffsetMaxBytes
        BY <1>2, <3>1, WidthIs
      <3> QED BY <1>2, <3>1, <3>2, PaddedIs
    <2>4. PICK piece \in Codes : piece = a \o b /\ Len(piece) = 1 + OffsetMaxBytes
      <3>1. a \o b \in Codes /\ Len(a \o b) = Len(a) + Len(b)
        BY JoinIs
      <3> QED BY <2>2, <2>3, <3>1
    <2>5. Instr.op \in Openers /\ 0 \in Nat
      BY <2>1 DEF Openers
    <2>6. Len(piece) <= BytesOf(Instr, Ops(stack)) + OffsetMaxBytes * OffsetsOf(Instr)
      <3>1. BytesOf(Instr, Ops(stack)) = 1 /\ OffsetsOf(Instr) = 1
        BY <2>1 DEF BytesOf, OffsetsOf, Lines, Classes
      <3>2. OffsetMaxBytes * 1 = OffsetMaxBytes
        BY <1>2
      <3> QED BY <1>2, <2>4, <3>1, <3>2
    <2>7. 1 + OffsetMaxBytes <= Len(piece)
      BY <1>2, <2>4
    <2>8. Running(h, nb, at + 1, Append(stack, Group(Instr.op, 0, Len(nfa), Len(nfa) + Len(piece))),
                  nfa \o piece, Len(nfa))
      BY <1>1, <1>2, <2>5, <2>6, <2>7, OpeningOn
    <2>9. nfa' = nfa \o piece
      <3> HIDE DEF Cells
      <3>1. nfa \in Seq(Cells) /\ a \in Seq(Cells) /\ b \in Seq(Cells)
        BY <1>2 DEF Codes
      <3>2. (nfa \o a) \o b = nfa \o (a \o b)
        BY <3>1, ConcatAssociative
      <3> QED BY <2>1, <2>2, <2>3, <2>4, <3>2
    <2>10. Len(nfa) + Len(piece) = Len(nfa) + 1 + OffsetMaxBytes
      BY <1>2, <2>4
    <2> QED BY <1>3, <2>1, <2>8, <2>9, <2>10
  <1> QED BY <1>4, <1>5, <1>6

\* The loop of fixup_alternates for the innermost group.
LEMMA FixingIs ==
  ASSUME NEW h, NEW nb, Counted2(h, nb), Running(h, nb, at, stack, nfa, last_atom_start)
  PROVE  /\ FindsAll
         /\ FixupAlternates \in Codes /\ Len(FixupAlternates) <= Len(nfa)
         /\ Agree(nfa, FixupAlternates, Tos.contents)
  <1>1. /\ bytes_required \in Nat /\ offsets_required \in Nat
        /\ OffsetMaxBytes \in Nat /\ 1 <= OffsetMaxBytes /\ Room \in Nat /\ at \in Nat /\ at <= Len(tokens)
        /\ Len(nfa) \in Nat /\ Len(nfa) + 2 + 3 * OffsetMaxBytes <= Room
        /\ Tos \in Groups /\ GroupFits(nfa, Tos, at) /\ Floor(Tos) \in Nat /\ Floor(Tos) <= Len(nfa)
    BY RunningIs DEF Tos, TopOf
  <1>2. tokens \in Seq(Tokens) /\ Len(tokens) \in Nat /\ nfa \in Codes
    BY DEF Counted2, Measured, Running
  <1>3. PICK jumps \in Seq(Nat) : /\ Len(jumps) <= at /\ Tos.last_jump = LastOf(jumps)
                                  /\ Linked(nfa, Tos.contents, jumps, Floor(Tos))
    BY <1>1 DEF GroupFits, Chained
  <1>4. Len(nfa) < Room
    BY <1>1
  <1>5. Tos.contents <= Len(nfa)
    <2>1. Tos.contents \in Nat /\ Tos.contents <= Floor(Tos)
      BY <1>1, GroupIs DEF GroupFits
    <2> QED BY <1>1, <2>1
  <1>6. Fixing(jumps)
    BY <1>1, <1>2, <1>3, <1>4, <1>5 DEF Fixing
  <1>7. Len(jumps) <= Len(tokens)
    <2>1. Len(jumps) \in Nat
      OBVIOUS
    <2> QED BY <1>1, <1>2, <1>3, <2>1
  <1> QED BY <1>2, <1>6, <1>7, FixupIs

\* What is closed was opened.
LEMMA ClosedIs ==
  ASSUME NEW h, NEW nb, Counted2(h, nb), NEW n \in 0..Len(tokens) - 1, NEW stk, NEW code, NEW atom,
         Running(h, nb, n, stk, code, atom), tokens[n + 1].op = "EndGroup"
  PROVE  Len(stk) >= 2 /\ TopOf(stk).op \in Openers
  <1>1. /\ Len(stk) \in Nat /\ Len(stk) >= 1 /\ stk[1].op = "Start" /\ TopOf(stk) \in Groups
        /\ Ops(stk)[Len(Ops(stk))] = TopOf(stk).op
    BY RunningIs
  <1>2. TopOf(stk).op # "Start"
    <2>1. n + 1 \in 1..Len(tokens) /\ (n + 1) - 1 = n
      BY DEF Counted2, Measured
    <2>2. Follows(h[n], tokens[n + 1], h[n + 1])
      <3>1. Follows(h[(n + 1) - 1], tokens[n + 1], h[n + 1])
        BY <2>1 DEF Counted2, Counts, Trace
      <3> QED BY <2>1, <3>1
    <2>3. h[n].ops = Ops(stk)
      BY DEF Running
    <2> QED BY <1>1, <2>2, <2>3 DEF Follows
  <1>3. Len(stk) # 1
    BY <1>1, <1>2 DEF TopOf
  <1>4. TopOf(stk).op \in GroupOps
    BY <1>1, RunningIs, GroupIs
  <1>5. TopOf(stk).op \in Openers
    BY <1>2, <1>4 DEF GroupOps
  <1>6. Len(stk) >= 2
    <2>1. PICK L \in Nat : L = Len(stk) /\ L >= 1
      BY RunningIs
    <2> QED BY <1>3, <2>1
  <1> QED BY <1>5, <1>6

\* A group is closed: what its end changes is in the group.
LEMMA ClosingOn ==
  ASSUME NEW h, NEW nb, Counted2(h, nb), NEW n \in 0..Len(tokens) - 1, NEW stk, NEW code, NEW atom,
         Running(h, nb, n, stk, code, atom), tokens[n + 1].op = "EndGroup",
         NEW code2 \in Codes, Agree(code, code2, TopOf(stk).start),
         Len(code2) <= Len(code) + ClosingBytes(TopOf(stk).op)
  PROVE  Running(h, nb, n + 1, SubSeq(stk, 1, Len(stk) - 1), code2, TopOf(stk).start)
  <1>1. /\ Len(code) \in Nat /\ OffsetMaxBytes \in Nat /\ 1 <= OffsetMaxBytes /\ n \in Nat
        /\ stk \in Seq(Groups) /\ Len(stk) \in Nat /\ TopOf(stk) \in Groups
        /\ OffsetMaxBytes + 2 <= Floor(stk[1]) /\ Ops(stk)[Len(Ops(stk))] = TopOf(stk).op
    BY RunningIs
  <1>2. code \in Codes /\ Stacked(code, stk, n)
    BY DEF Running
  <1>3. /\ Len(stk) >= 2 /\ Len(stk) >= 1 /\ 1 \in 1..Len(stk) /\ 1 # Len(stk) /\ 1 \in 1..Len(stk) - 1
        /\ Len(stk) - 1 \in Nat
    <2>1. PICK L \in Nat : L = Len(stk)
      BY <1>1
    <2>2. L >= 2
      BY <2>1, ClosedIs
    <2>3. L >= 1 /\ 1 \in 1..L /\ 1 # L /\ 1 \in 1..L - 1 /\ L - 1 \in Nat
      BY <2>2
    <2> QED BY <2>1, <2>2, <2>3
  <1>4. PICK less \in Seq(Groups) :
          /\ less = SubSeq(stk, 1, Len(stk) - 1) /\ Len(less) = Len(stk) - 1
          /\ \A i \in 1..Len(stk) - 1 : less[i] = stk[i]
          /\ Ops(less) = SubSeq(Ops(stk), 1, Len(Ops(stk)) - 1)
    BY <1>1, <1>3, OpsClose
  <1>5. n + 1 \in Nat /\ n <= n + 1
    BY <1>1
  <1>6. Stacked(code2, less, n + 1) /\ Floor(TopOf(less)) <= TopOf(stk).start
    <2>1. OffsetMaxBytes \in Nat /\ 1 <= OffsetMaxBytes /\ stk \in Seq(Groups) /\ n \in Nat
      BY <1>1
    <2>2. Len(less) = Len(stk) - 1 /\ \A i \in 1..Len(stk) - 1 : less[i] = stk[i]
      BY <1>4
    <2>3. Len(stk) >= 2
      BY <1>3
    <2> QED BY <1>2, <1>5, <2>1, <2>2, <2>3, StackedClose
  <1>7. less[1] = stk[1]
    BY <1>3, <1>4
  <1>8. TopOf(stk).start \in Nat /\ TopOf(stk).start <= Len(code2)
    BY <1>1, GroupIs DEF Agree
  <1>9. code2[OffsetMaxBytes + 2] = code[OffsetMaxBytes + 2]
    <2>1. Floor(stk[1]) \in Nat /\ Floor(stk[1]) <= TopOf(stk).start
      BY <1>1, <1>2, <1>3, FloorsBelow
    <2>2. OffsetMaxBytes + 2 \in 1..TopOf(stk).start
      BY <1>1, <1>8, <2>1
    <2> QED BY <2>2 DEF Agree
  <1>10. Ops(less) = OpsAfter(Ops(stk), tokens[n + 1])
    BY <1>4 DEF OpsAfter, Openers
  <1>11. BytesOf(tokens[n + 1], Ops(stk)) = ClosingBytes(TopOf(stk).op) /\ OffsetsOf(tokens[n + 1]) = 0
    BY <1>1 DEF BytesOf, OffsetsOf, Lines, Classes
  <1>12. Len(code2) <= Len(code) + BytesOf(tokens[n + 1], Ops(stk)) + OffsetMaxBytes * OffsetsOf(tokens[n + 1])
    <2>1. PICK x \in Nat : x = ClosingBytes(TopOf(stk).op)
      BY DEF ClosingBytes
    <2>2. OffsetMaxBytes * 0 = 0 /\ Len(code) + x + 0 = Len(code) + x
      BY <1>1
    <2> QED BY <1>11, <2>1, <2>2
  <1> QED BY <1>4, <1>6, <1>7, <1>8, <1>9, <1>10, <1>12, RunningOn

LEMMA EmittingEndGroup ==
  ASSUME NEW h, NEW nb, Counted2(h, nb), Running(h, nb, at, stack, nfa, last_atom_start), at < Len(tokens),
         EmitEndGroup
  PROVE  Running(h, nb, at + 1, stack', nfa', last_atom_start')
  <1>1. at \in 0..Len(tokens) - 1 /\ Instr = tokens[at + 1] /\ Instr.op = "EndGroup"
    BY InstrIs DEF Instr, EmitEndGroup, Emit
  <1>2. /\ OffsetMaxBytes \in Nat /\ 1 <= OffsetMaxBytes /\ nfa \in Codes /\ TopOf(stack) = Tos
        /\ Len(nfa) \in Nat /\ Room \in Nat /\ Len(nfa) + 2 + 3 * OffsetMaxBytes <= Room
        /\ bytes_required \in Nat /\ offsets_required \in Nat /\ Tos \in Groups /\ GroupFits(nfa, Tos, at)
    BY RunningIs DEF Running, TopOf, Tos
  <1>3. Tos.op \in Openers
    BY <1>1, <1>2, ClosedIs
  <1>4. stack' = SubSeq(stack, 1, Len(stack) - 1) /\ last_atom_start' = Tos.start
    BY DEF EmitEndGroup, Emit, Pop
  <1>5. PICK F \in Codes : /\ F = FixupAlternates /\ Len(F) <= Len(nfa) /\ Agree(nfa, F, Tos.contents)
    BY FixingIs
  <1>6. PICK s \in Nat, c \in Nat : s = Tos.start /\ c = Tos.contents /\ s <= c
    BY <1>2, GroupIs DEF GroupFits
  <1>7. Len(F) \in Nat /\ c <= Len(F) /\ s <= Len(F)
    <2>1. Len(F) \in Nat /\ c <= Len(F)
      BY <1>5, <1>6, CodeLength DEF Agree
    <2> QED BY <1>6, <2>1
  <1>8. Agree(nfa, F, s)
    BY <1>2, <1>5, <1>6, AgreeLess
  <1>9. SUFFICES ASSUME TRUE
                 PROVE  nfa' \in Codes /\ Agree(nfa, nfa', s) /\ Len(nfa') <= Len(nfa) + ClosingBytes(Tos.op)
    <2>1. PICK d \in Codes : d = nfa' /\ Agree(nfa, d, s) /\ Len(d) <= Len(nfa) + ClosingBytes(Tos.op)
      BY <1>9
    <2>2. Running(h, nb, at + 1, SubSeq(stack, 1, Len(stack) - 1), d, Tos.start)
      BY <1>1, <1>2, <1>6, <2>1, ClosingOn
    <2> QED BY <1>4, <2>1, <2>2
  <1>10. CASE Tos.op = "NonCapturingGroup"
    <2>1. nfa' = F
      BY <1>5, <1>10 DEF EmitEndGroup, Emit
    <2>2. ClosingBytes(Tos.op) = 0 /\ Len(nfa) + 0 = Len(nfa)
      BY <1>2, <1>10 DEF ClosingBytes
    <2> QED BY <1>5, <1>8, <2>1, <2>2
  <1>11. CASE Tos.op = "NamedCapture"
    <2>1. nfa' = F \o <<Op("CaptureEnd"), Byte(Tos.group_num)>>
      BY <1>5, <1>11 DEF EmitEndGroup, Emit
    <2>2. PICK x \in Cells, y \in Cells : x = Op("CaptureEnd") /\ y = Byte(Tos.group_num)
      <3>1. "CaptureEnd" \in OpNames
        BY DEF OpNames
      <3>2. Tos.group_num \in Nat
        BY <1>2 DEF Groups
      <3> QED BY <3>1, <3>2, CellsAre
    <2>3. PICK p \in Codes : p = <<x, y>> /\ Len(p) = 2
      BY PairCode
    <2>4. PICK d \in Codes : d = F \o p /\ Len(d) = Len(F) + 2 /\ \A i \in 1..Len(F) : d[i] = F[i]
      BY <2>3, JoinIs
    <2>5. Agree(F, d, s)
      <3>1. \A i \in 1..s : i \in 1..Len(F)
        BY <1>7
      <3>2. s <= Len(F) + 2
        BY <1>7
      <3> QED BY <1>7, <2>4, <3>1, <3>2 DEF Agree
    <2>6. Agree(nfa, d, s)
      BY <1>2, <1>8, <2>5, AgreeThrough
    <2>7. Len(d) <= Len(nfa) + ClosingBytes(Tos.op)
      <3>1. ClosingBytes(Tos.op) = 2
        BY <1>11 DEF ClosingBytes
      <3>2. Len(F) + 2 <= Len(nfa) + 2
        BY <1>2, <1>5, <1>7
      <3> QED BY <2>4, <3>1, <3>2
    <2> QED BY <2>1, <2>2, <2>3, <2>4, <2>6, <2>7
  <1>12. CASE Tos.op = "NegLookahead"
    <2>1. nfa' = PatchOffset(Append(F, Op("Accept")), s + 1, Len(F) + 1)
      BY <1>5, <1>6, <1>12 DEF EmitEndGroup, Emit, EndLookahead
    <2>2. PICK x \in Cells : x = Op("Accept")
      <3>1. "Accept" \in OpNames
        BY DEF OpNames
      <3> QED BY <3>1, CellsAre
    <2>3. PICK e \in Codes : e = Append(F, x) /\ Len(e) = Len(F) + 1 /\ \A i \in 1..Len(F) : e[i] = F[i]
      BY AppendIs
    <2>4. PICK W \in Nat, N \in Nat, M \in Nat : /\ W = OffsetMaxBytes /\ N = Len(nfa) /\ M = Len(F)
                                                  /\ M <= N /\ c <= M /\ N + 2 + 3 * W <= Room
      BY <1>2, <1>5, <1>7
    <2>5. s + 1 + W <= c
      BY <1>2, <1>6, <1>12, <2>4 DEF GroupFits
    <2>6. PICK a \in Nat, b \in Nat : a = s + 1 /\ b = M + 1 /\ a + W <= b /\ b - a < Room
      <3>1. /\ s + 1 \in Nat /\ M + 1 \in Nat /\ (s + 1) + W <= M + 1 /\ (M + 1) - (s + 1) < Room
        BY <1>2, <2>4, <2>5
      <3> QED BY <3>1
    <2>7. Len(e) = b
      BY <2>3, <2>4, <2>6
    <2>8. PICK d, u, v : d = PatchOffset(e, a, b) /\ Patched(e, a, b - a, d, u, v)
      <3>1. a + OffsetMaxBytes <= Len(e) /\ a + OffsetMaxBytes <= b
        BY <2>4, <2>6, <2>7
      <3> QED BY <1>2, <2>6, <3>1, PatchIs
    <2>9. d \in Codes /\ u \in Nat /\ u <= W /\ Len(d) = b - W + u /\ Agree(e, d, a)
      BY <2>4, <2>7, <2>8 DEF Patched
    <2>10. nfa' = d
      BY <2>1, <2>2, <2>3, <2>4, <2>6, <2>8
    <2>11. Agree(F, e, s)
      <3>1. \A i \in 1..s : i \in 1..Len(F)
        BY <1>7
      <3>2. s <= Len(F) + 1
        BY <1>7
      <3> QED BY <1>7, <2>3, <3>1, <3>2 DEF Agree
    <2>12. Agree(e, d, s)
      <3>1. s <= a
        BY <2>6
      <3> QED BY <2>9, <3>1, AgreeLess
    <2>13. Agree(nfa, d, s)
      <3>1. Agree(nfa, e, s)
        BY <1>2, <1>8, <2>11, AgreeThrough
      <3> QED BY <1>2, <2>9, <2>12, <3>1, AgreeThrough
    <2>14. Len(d) <= Len(nfa) + ClosingBytes(Tos.op)
      <3>1. ClosingBytes(Tos.op) = 1
        BY <1>12 DEF ClosingBytes
      <3>2. b - W + u <= N + 1
        BY <2>4, <2>6, <2>9
      <3> QED BY <2>4, <2>9, <3>1, <3>2
    <2> QED BY <2>9, <2>10, <2>13, <2>14
  <1> QED BY <1>3, <1>10, <1>11, <1>12 DEF Openers

\* The top of the stack is replaced by a group with another last Jump.
LEMMA JumpSet ==
  ASSUME OffsetMaxBytes \in Nat, NEW g \in Groups, NEW J \in Nat, J # 0
  PROVE  /\ [g EXCEPT !.last_jump = J] \in Groups
         /\ [g EXCEPT !.last_jump = J].op = g.op
         /\ [g EXCEPT !.last_jump = J].start = g.start
         /\ [g EXCEPT !.last_jump = J].contents = g.contents
         /\ Floor([g EXCEPT !.last_jump = J]) = J + OffsetMaxBytes
  BY DEF Groups, Floor

\* The Split, the Jump and the way back of an alternate that ends.
LEMMA SplitAndJump ==
  ASSUME bytes_required \in Nat, offsets_required \in Nat,
         NEW c \in Codes, NEW F \in Nat, F <= Len(c), NEW J \in Nat, J = Len(c) + OffsetMaxBytes + 2,
         J < Room, NEW last \in Nat, last <= F
  PROVE  LET d == AppendJump(Append(InsertSplit(c, F), Op("Jump")), last)
         IN  /\ d \in Codes /\ Len(d) = J + OffsetMaxBytes /\ Agree(c, d, F)
             /\ d[J].op = "Jump" /\ d[F + 1].op = "Split"
             /\ OffsetAt(d, J) = IF last = 0 THEN 0 ELSE last - J
  <1>1. PICK W \in Nat, L \in Nat : W = OffsetMaxBytes /\ 1 <= W /\ L = Len(c) /\ J = L + W + 2 /\ Room \in Nat
    BY WidthIs, CodeLength
  <1>2. PICK x \in Cells : x = Op("Jump") /\ x.op = "Jump"
    <2>1. "Jump" \in OpNames
      BY DEF OpNames
    <2> QED BY <2>1, CellsAre DEF Op
  <1>3. PICK a \in Codes : /\ a = InsertSplit(c, F) /\ Len(a) = L + 1 + W /\ Agree(c, a, F)
                           /\ a[F + 1].op = "Split"
    <2>1. 0 < Room
      BY <1>1
    <2> QED BY <1>1, <2>1, InsertSplitIs
  <1>4. PICK b \in Codes : /\ b = Append(a, x) /\ Len(b) = Len(a) + 1
                           /\ \A i \in 1..Len(a) : b[i] = a[i]
                           /\ b[Len(a) + 1] = x
    BY AppendIs
  <1>5. Len(b) = J /\ b[J] = x /\ \A i \in 1..J - 1 : b[i] = a[i]
    <2>1. L + 1 + W = J - 1 /\ (J - 1) + 1 = J
      BY <1>1
    <2> QED BY <1>3, <1>4, <2>1
  <1>6. PICK delta \in Int : delta = (IF last = 0 THEN 0 ELSE last - J) /\ -Room < delta /\ delta < Room
    <2>1. last < J
      BY <1>1
    <2>2. CASE last = 0
      <3>1. 0 \in Int /\ -Room < 0 /\ 0 < Room
        BY <1>1
      <3> QED BY <2>2, <3>1
    <2>3. CASE last # 0
      <3>1. PICK e \in Int : e = last - J
        OBVIOUS
      <3>2. -Room < e /\ e < Room
        BY <1>1, <2>1, <3>1
      <3> QED BY <2>3, <3>1, <3>2
    <2> QED BY <2>2, <2>3
  <1>7. UTF8Len(Zigzag(delta)) <= OffsetMaxBytes
    BY <1>6, WidthIs
  <1>8. PICK e \in Codes : e = EmitPadded(delta) /\ Len(e) = W /\ e[1].num = Zigzag(delta)
    BY <1>1, <1>7, PaddedIs
  <1>9. PICK d \in Codes : /\ d = b \o e /\ Len(d) = J + W
                           /\ \A i \in 1..J : d[i] = b[i]
                           /\ \A i \in 1..W : d[J + i] = e[i]
    <2>1. /\ b \o e \in Codes /\ Len(b \o e) = Len(b) + Len(e)
          /\ \A i \in 1..Len(b) : (b \o e)[i] = b[i]
          /\ \A i \in 1..Len(e) : (b \o e)[Len(b) + i] = e[i]
      BY JoinIs
    <2>2. Len(b \o e) = J + W
      BY <1>5, <1>8, <2>1
    <2>3. \A i \in 1..J : (b \o e)[i] = b[i]
      BY <1>5, <2>1
    <2>4. \A i \in 1..W : (b \o e)[J + i] = e[i]
      BY <1>5, <1>8, <2>1
    <2> HIDE DEF Cells
    <2> QED BY <2>1, <2>2, <2>3, <2>4, Zenon
  <1>10. d = AppendJump(Append(InsertSplit(c, F), Op("Jump")), last)
    BY <1>2, <1>3, <1>4, <1>5, <1>6, <1>8, <1>9 DEF AppendJump
  <1>11. \A i \in 1..J - 1 : d[i] = a[i]
    <2>1. \A i \in 1..J - 1 : i \in 1..J
      BY <1>1
    <2> QED BY <1>5, <1>9, <2>1
  <1>12. d[J].op = "Jump"
    <2>1. J \in 1..J
      BY <1>1
    <2> QED BY <1>2, <1>5, <1>9, <2>1
  <1>13. d[F + 1].op = "Split"
    <2>1. F + 1 \in 1..J - 1
      BY <1>1
    <2> QED BY <1>3, <1>11, <2>1
  <1>14. OffsetAt(d, J) = delta
    <2>1. d[J + 1] = e[1]
      <3>1. 1 \in 1..W
        BY <1>1
      <3> QED BY <1>9, <3>1
    <2> QED BY <1>8, <2>1, ZigzagIs DEF OffsetAt
  <1>15. Agree(c, d, F)
    <2>1. \A i \in 1..F : i \in 1..J - 1
      BY <1>1
    <2>2. F <= J + W
      BY <1>1
    <2> QED BY <1>1, <1>3, <1>9, <1>11, <2>1, <2>2 DEF Agree
  <1> QED BY <1>1, <1>6, <1>9, <1>10, <1>12, <1>13, <1>14, <1>15

LEMMA EmittingAlternate ==
  ASSUME NEW h, NEW nb, Counted2(h, nb), Running(h, nb, at, stack, nfa, last_atom_start), at < Len(tokens),
         EmitAlternate
  PROVE  Running(h, nb, at + 1, stack', nfa', last_atom_start')
  <1>1. at \in 0..Len(tokens) - 1 /\ Instr = tokens[at + 1] /\ Instr.op = "Alternate" /\ at \in Nat
    BY InstrIs, RunningIs DEF Instr, EmitAlternate, Alternate, Emit
  <1>2. /\ nfa \in Codes /\ TopOf(stack) = Tos /\ Tos \in Groups /\ GroupFits(nfa, Tos, at)
        /\ bytes_required \in Nat /\ offsets_required \in Nat /\ stack \in Seq(Groups)
        /\ Stacked(nfa, stack, at)
    BY RunningIs DEF Running, TopOf, Tos
  <1>3. PICK W \in Nat, L \in Nat, F \in Nat, last \in Nat, n \in Nat :
          /\ W = OffsetMaxBytes /\ L = Len(nfa) /\ F = Floor(Tos) /\ last = Tos.last_jump /\ n = Len(stack)
          /\ 1 <= W /\ F <= L /\ L + 2 + 3 * W <= Room /\ W + 2 <= F /\ n >= 1 /\ Room \in Nat
    <2>1. /\ OffsetMaxBytes \in Nat /\ 1 <= OffsetMaxBytes /\ Room \in Nat
          /\ Len(nfa) \in Nat /\ Len(nfa) + 2 + 3 * OffsetMaxBytes <= Room
          /\ Len(stack) \in Nat /\ Len(stack) >= 1
          /\ Floor(Tos) \in Nat /\ Floor(Tos) <= Len(nfa) /\ OffsetMaxBytes + 2 <= Floor(Tos)
      BY <1>2, RunningIs
    <2>2. Tos.last_jump \in Nat
      BY <1>2, <2>1, GroupIs
    <2> QED BY <2>1, <2>2
  <1>4. PICK J \in Nat : J = L + W + 2
    OBVIOUS
  <1>5. last <= F
    BY <1>3 DEF Floor
  <1>6. /\ nfa' = AppendJump(Append(InsertSplit(nfa, F), Op("Jump")), last)
        /\ last_atom_start' = Len(nfa)
        /\ stack' = SetTos([Tos EXCEPT !.last_jump = J])
    <2>1. CASE last = 0
      <3>1. Alternate(Tos.contents, 0) /\ F = Tos.contents
        BY <1>3, <2>1 DEF EmitAlternate, Floor
      <3> QED BY <1>3, <1>4, <2>1, <3>1 DEF Alternate, Emit
    <2>2. CASE last # 0
      <3>1. Alternate(F, last)
        BY <1>3, <2>2 DEF EmitAlternate, Floor
      <3> QED BY <1>3, <1>4, <3>1 DEF Alternate, Emit
    <2> QED BY <2>1, <2>2
  <1>7. J < Room
    BY <1>3, <1>4
  <1>8. PICK d \in Codes : /\ d = nfa' /\ Len(d) = J + W /\ Agree(nfa, d, F)
                           /\ d[J].op = "Jump" /\ d[F + 1].op = "Split"
                           /\ OffsetAt(d, J) = IF last = 0 THEN 0 ELSE last - J
    <2>1. F <= Len(nfa) /\ J = Len(nfa) + OffsetMaxBytes + 2
      BY <1>3, <1>4
    <2>2. LET d == AppendJump(Append(InsertSplit(nfa, F), Op("Jump")), last)
          IN  /\ d \in Codes /\ Len(d) = J + OffsetMaxBytes /\ Agree(nfa, d, F)
              /\ d[J].op = "Jump" /\ d[F + 1].op = "Split"
              /\ OffsetAt(d, J) = IF last = 0 THEN 0 ELSE last - J
      BY <1>2, <1>5, <1>7, <2>1, SplitAndJump
    <2> QED BY <1>3, <1>6, <2>2
  <1>9. J # 0
    BY <1>4
  <1>10. PICK g \in Groups : /\ g = [Tos EXCEPT !.last_jump = J] /\ g.op = Tos.op /\ g.start = Tos.start
                             /\ g.contents = Tos.contents /\ Floor(g) = J + W
    BY <1>2, <1>3, <1>9, JumpSet
  <1>11. at + 1 \in Nat /\ at <= at + 1
    BY <1>1
  <1>12. Chained(d, g, at + 1)
    <2>1. F + W + 2 <= J
      BY <1>3, <1>4
    <2>2. Chained(nfa, Tos, at)
      BY <1>2 DEF GroupFits
    <2> QED BY <1>1, <1>2, <1>3, <1>8, <1>10, <2>1, <2>2, ChainGrows
  <1>13. GroupFits(d, g, at + 1)
    <2>1. PICK s \in Nat, c \in Nat : s = Tos.start /\ c = Tos.contents /\ s <= c /\ c <= F
      BY <1>2, <1>3, GroupIs DEF GroupFits
    <2>2. c <= J + W
      BY <1>3, <1>4, <2>1
    <2>3. Tos.op = "NegLookahead" => s + 1 + W <= c
      BY <1>2, <1>3, <2>1 DEF GroupFits
    <2> QED BY <1>3, <1>8, <1>10, <1>12, <2>1, <2>2, <2>3 DEF GroupFits
  <1>14. Stacked(d, stack, at + 1)
    BY <1>1, <1>2, <1>3, <1>8, <1>11, StackedKept
  <1>15. PICK new \in Seq(Groups) : /\ new = stack' /\ Len(new) = Len(stack) /\ new[Len(stack)] = g
                                    /\ \A i \in 1..Len(stack) - 1 : new[i] = stack[i]
                                    /\ Ops(new) = Ops(stack)
    <2>1. g.op = stack[Len(stack)].op
      BY <1>10 DEF Tos
    <2>2. stack' = [stack EXCEPT ![Len(stack)] = g]
      BY <1>6, <1>10 DEF SetTos
    <2>3. stack \in Seq(Groups) /\ Len(stack) >= 1
      BY <1>2, <1>3
    <2> QED BY <2>1, <2>2, <2>3, OpsSame
  <1>16. Stacked(d, new, at + 1)
    BY <1>2, <1>3, <1>10, <1>11, <1>13, <1>14, <1>15, StackedSet
  <1>17. new[1].contents = stack[1].contents
    <2>1. CASE n = 1
      BY <1>3, <1>10, <1>15, <2>1 DEF Tos
    <2>2. CASE n # 1
      <3>1. 1 \in 1..n - 1
        BY <1>3, <2>2
      <3> QED BY <1>3, <1>15, <3>1
    <2> QED BY <2>1, <2>2
  <1>18. d[OffsetMaxBytes + 2] = nfa[OffsetMaxBytes + 2]
    <2>1. W + 2 \in 1..F
      BY <1>3
    <2> QED BY <1>3, <1>8, <2>1 DEF Agree
  <1>19. Ops(new) = OpsAfter(Ops(stack), Instr)
    BY <1>1, <1>15 DEF OpsAfter, Openers
  <1>20. Len(d) <= Len(nfa) + BytesOf(Instr, Ops(stack)) + OffsetMaxBytes * OffsetsOf(Instr)
    <2>1. BytesOf(Instr, Ops(stack)) = 2 /\ OffsetsOf(Instr) = 2
      BY <1>1 DEF BytesOf, OffsetsOf, Lines, Classes
    <2>2. J + W <= L + 2 + W * 2
      BY <1>4
    <2> QED BY <1>3, <1>8, <2>1, <2>2
  <1>21. Instr.op \notin Atoms
    BY <1>1 DEF Atoms
  <1>22. Running(h, nb, at + 1, new, d, L)
    BY <1>1, <1>15, <1>16, <1>17, <1>18, <1>19, <1>20, <1>21, RunningOn
  <1> QED BY <1>3, <1>6, <1>8, <1>15, <1>22

\* What is repeated is behind the floor of the innermost group.
LEMMA RepeatedIs ==
  ASSUME NEW h, NEW nb, Counted2(h, nb), NEW n \in 0..Len(tokens) - 1, NEW stk, NEW code, NEW atom,
         Running(h, nb, n, stk, code, atom), tokens[n + 1].op = "Repetition"
  PROVE  atom \in Nat /\ Floor(TopOf(stk)) <= atom /\ atom <= Len(code)
  <1>1. n + 1 \in 1..Len(tokens) /\ (n + 1) - 1 = n
    BY DEF Counted2, Measured
  <1>2. Repeats(tokens, n + 1)
    BY <1>1 DEF Counted2, Counts, Trace
  <1>3. n # 0 /\ tokens[n].op \in Atoms
    <2>1. n + 1 # 1 /\ tokens[(n + 1) - 1].op \in Atoms
      BY <1>2 DEF Repeats
    <2> QED BY <1>1, <2>1
  <1> QED BY <1>3 DEF Running

\* The codes of the four repetitions: what is in front of the atom stays.
Repeating == /\ bytes_required \in Nat /\ offsets_required \in Nat /\ nfa \in Codes
             /\ last_atom_start \in Nat /\ last_atom_start <= Len(nfa)
             /\ Len(nfa) + 2 + 3 * OffsetMaxBytes <= Room

LEMMA OptionalIs ==
  ASSUME Repeating
  PROVE  \E d \in Codes : /\ d = ZeroOrOne(InsertSplit(nfa, last_atom_start))
                          /\ Agree(nfa, d, last_atom_start)
                          /\ Len(d) <= Len(nfa) + 1 + OffsetMaxBytes
  <1>1. PICK W \in Nat, L \in Nat, A \in Nat :
          /\ W = OffsetMaxBytes /\ 1 <= W /\ L = Len(nfa) /\ A = last_atom_start /\ A <= L
          /\ L + 2 + 3 * W <= Room /\ Room \in Nat
    BY WidthIs, CodeLength DEF Repeating
  <1>2. nfa \in Codes /\ bytes_required \in Nat /\ offsets_required \in Nat /\ 0 < Room
    BY <1>1 DEF Repeating
  <1>3. PICK c \in Codes : c = InsertSplit(nfa, A) /\ Len(c) = L + 1 + W /\ Agree(nfa, c, A)
    BY <1>1, <1>2, InsertSplitIs
  <1>4. PICK a \in Nat, b \in Nat : a = A + 1 /\ b = L + 1 + W /\ a + W <= b /\ b - a < Room
    <2>1. A + 1 \in Nat /\ L + 1 + W \in Nat /\ A + 1 + W <= L + 1 + W /\ (L + 1 + W) - (A + 1) < Room
      BY <1>1
    <2> QED BY <2>1
  <1>5. PICK d, u, v : d = PatchOffset(c, a, b) /\ Patched(c, a, b - a, d, u, v)
    <2>1. a + OffsetMaxBytes <= Len(c) /\ a + OffsetMaxBytes <= b
      BY <1>1, <1>3, <1>4
    <2> QED BY <1>2, <1>4, <2>1, PatchIs
  <1>6. d \in Codes /\ u \in Nat /\ u <= W /\ Len(d) = b - W + u /\ Agree(c, d, a)
    BY <1>1, <1>3, <1>4, <1>5 DEF Patched
  <1>7. Agree(nfa, d, A)
    <2>1. A <= a
      BY <1>4
    <2>2. Agree(c, d, A)
      BY <1>6, <2>1, AgreeLess
    <2> QED BY <1>2, <1>3, <1>6, <2>2, AgreeThrough
  <1>8. Len(d) <= L + 1 + W
    BY <1>1, <1>4, <1>6
  <1>9. d = ZeroOrOne(InsertSplit(nfa, last_atom_start))
    BY <1>1, <1>3, <1>4, <1>5 DEF ZeroOrOne
  <1> QED BY <1>1, <1>6, <1>7, <1>8, <1>9

LEMMA ManyIs ==
  ASSUME Repeating
  PROVE  \E d \in Codes : /\ d = OneOrMore(Append(nfa, Op("Split")))
                          /\ Agree(nfa, d, last_atom_start)
                          /\ Len(d) <= Len(nfa) + 1 + OffsetMaxBytes
  <1>1. PICK W \in Nat, L \in Nat, A \in Nat :
          /\ W = OffsetMaxBytes /\ 1 <= W /\ L = Len(nfa) /\ A = last_atom_start /\ A <= L
          /\ L + 2 + 3 * W <= Room /\ Room \in Nat
    BY WidthIs, CodeLength DEF Repeating
  <1>2. nfa \in Codes /\ bytes_required \in Nat /\ offsets_required \in Nat
    BY DEF Repeating
  <1>3. PICK x \in Cells : x = Op("Split")
    <2>1. "Split" \in OpNames
      BY DEF OpNames
    <2> QED BY <2>1, CellsAre
  <1>4. PICK c \in Codes : c = Append(nfa, x) /\ Len(c) = L + 1 /\ \A i \in 1..L : c[i] = nfa[i]
    BY <1>1, <1>2, AppendIs
  <1>5. PICK delta \in Int : delta = A - (L + 1) /\ -Room < delta /\ delta < Room
    <2>1. A - (L + 1) \in Int /\ -Room < A - (L + 1) /\ A - (L + 1) < Room
      BY <1>1
    <2> QED BY <2>1
  <1>6. PICK e \in Codes, u \in Nat : e = EmitOffset(delta) /\ Len(e) = u /\ u <= W
    <2>1. UTF8Len(Zigzag(delta)) <= OffsetMaxBytes
      BY <1>2, <1>5, WidthIs
    <2>2. EmitOffset(delta) \in Codes /\ Len(EmitOffset(delta)) = UTF8Len(Zigzag(delta))
      BY <1>5, EmitOffsetIs
    <2> QED BY <1>1, <2>1, <2>2, CodeLength
  <1>7. PICK d \in Codes : d = c \o e /\ Len(d) = L + 1 + u /\ \A i \in 1..L + 1 : d[i] = c[i]
    <2>1. PICK K \in Nat : K = L + 1 /\ Len(c) = K
      BY <1>4, <1>6
    <2>2. c \o e \in Codes /\ Len(c \o e) = K + u /\ \A i \in 1..K : (c \o e)[i] = c[i]
      BY <1>6, <2>1, JoinSized
    <2>3. Len(c \o e) = L + 1 + u
      BY <2>1, <2>2
    <2> QED BY <2>1, <2>2, <2>3
  <1>8. Agree(nfa, d, A)
    <2>1. \A i \in 1..A : i \in 1..L /\ i \in 1..L + 1
      BY <1>1
    <2>2. A <= L + 1 + u
      BY <1>1
    <2> QED BY <1>1, <1>4, <1>7, <2>1, <2>2 DEF Agree
  <1>9. Len(d) <= L + 1 + W
    BY <1>6, <1>7
  <1>10. d = OneOrMore(Append(nfa, Op("Split")))
    BY <1>1, <1>3, <1>4, <1>5, <1>6, <1>7 DEF OneOrMore
  <1> QED BY <1>1, <1>8, <1>9, <1>10

LEMMA CountedIs ==
  ASSUME Repeating, NEW min \in Nat, NEW max \in Nat
  PROVE  \E d \in Codes : /\ d = CountedRepetition(min, max)
                          /\ Agree(nfa, d, last_atom_start)
                          /\ Len(d) <= Len(nfa) + 4 + OffsetMaxBytes
  <1>1. PICK W \in Nat, L \in Nat, A \in Nat :
          /\ W = OffsetMaxBytes /\ 1 <= W /\ L = Len(nfa) /\ A = last_atom_start /\ A <= L
          /\ L + 2 + 3 * W <= Room /\ Room \in Nat
    BY WidthIs, CodeLength DEF Repeating
  <1>2. nfa \in Codes /\ bytes_required \in Nat /\ offsets_required \in Nat
    BY DEF Repeating
  <1>3. PICK mid \in Codes : mid = <<Op("Zero")>> /\ Len(mid) = 1
    <2>1. "Zero" \in OpNames
      BY DEF OpNames
    <2> QED BY <2>1, CellsAre, CellCode
  <1>4. PICK end \in Codes : end = <<Op("Count"), Byte(min + 1), Byte(max + 1)>> /\ Len(end) = 3
    <2>1. "Count" \in OpNames /\ min + 1 \in Nat /\ max + 1 \in Nat
      BY DEF OpNames
    <2>2. PICK x \in Cells, y \in Cells, z \in Cells : x = Op("Count") /\ y = Byte(min + 1) /\ z = Byte(max + 1)
      BY <2>1, CellsAre
    <2>3. <<x, y, z>> \in Codes /\ Len(<<x, y, z>>) = 3
      <3> HIDE DEF Cells
      <3> QED BY DEF Codes
    <2> QED BY <2>2, <2>3
  <1>5. PICK c \in Codes : c = Spliced(nfa, A, mid, A) /\ Len(c) = L + 1 /\ Agree(nfa, c, A)
    <2>1. SplicesTo(nfa, A, mid, A, Spliced(nfa, A, mid, A))
      BY <1>1, <1>2, SplicedIs
    <2>2. A + 1 + (L - A) = L + 1
      BY <1>1
    <2> QED BY <1>1, <1>3, <2>1, <2>2 DEF SplicesTo
  <1>6. PICK b \in Codes : b = c \o end /\ Len(b) = L + 4 /\ \A i \in 1..L + 1 : b[i] = c[i]
    <2>1. c \o end \in Codes /\ Len(c \o end) = Len(c) + Len(end) /\ \A i \in 1..Len(c) : (c \o end)[i] = c[i]
      BY JoinIs
    <2>2. Len(c \o end) = L + 4
      BY <1>1, <1>4, <1>5, <2>1
    <2> QED BY <1>5, <2>1, <2>2
  <1>7. PICK delta \in Int : delta = A + 1 - (L + 4) /\ -Room < delta /\ delta < Room
    <2>1. A + 1 - (L + 4) \in Int /\ -Room < A + 1 - (L + 4) /\ A + 1 - (L + 4) < Room
      BY <1>1
    <2> QED BY <2>1
  <1>8. PICK e \in Codes, u \in Nat : e = EmitOffset(delta) /\ Len(e) = u /\ u <= W
    <2>1. UTF8Len(Zigzag(delta)) <= OffsetMaxBytes
      BY <1>2, <1>7, WidthIs
    <2>2. EmitOffset(delta) \in Codes /\ Len(EmitOffset(delta)) = UTF8Len(Zigzag(delta))
      BY <1>7, EmitOffsetIs
    <2> QED BY <1>1, <2>1, <2>2, CodeLength
  <1>9. PICK d \in Codes : d = b \o e /\ Len(d) = L + 4 + u /\ \A i \in 1..L + 4 : d[i] = b[i]
    <2>1. PICK K \in Nat : K = L + 4 /\ Len(b) = K
      BY <1>6, <1>8
    <2>2. b \o e \in Codes /\ Len(b \o e) = K + u /\ \A i \in 1..K : (b \o e)[i] = b[i]
      <3>1. Len(b) = K /\ Len(e) = u
        BY <1>8, <2>1
      <3> QED BY <3>1, JoinSized
    <2>3. Len(b \o e) = L + 4 + u
      BY <2>1, <2>2
    <2> QED BY <2>1, <2>2, <2>3
  <1>10. Agree(nfa, d, A)
    <2>1. \A i \in 1..A : i \in 1..L + 1 /\ i \in 1..L + 4
      BY <1>1
    <2>2. A <= L + 4 + u
      BY <1>1
    <2> QED BY <1>1, <1>5, <1>6, <1>9, <2>1, <2>2 DEF Agree
  <1>11. Len(d) <= L + 4 + W
    BY <1>8, <1>9
  <1>12. d = CountedRepetition(min, max)
    <2>1. b = SubSeq(nfa, 1, A) \o <<Op("Zero")>> \o SubSeq(nfa, A + 1, L)
              \o <<Op("Count"), Byte(min + 1), Byte(max + 1)>>
      BY <1>1, <1>3, <1>4, <1>5, <1>6 DEF Spliced
    <2>2. d = CountedFrom(b)
      BY <1>1, <1>6, <1>7, <1>8, <1>9 DEF CountedFrom
    <2> QED BY <1>1, <2>1, <2>2 DEF CountedRepetition
  <1> QED BY <1>1, <1>10, <1>11, <1>12

LEMMA BackBytesIs ==
  ASSUME NEW W \in Nat, W = OffsetMaxBytes, 1 <= W, last_atom_start \in Nat, NEW ep \in Nat
  PROVE  BackBytes(ep) \in Nat /\ 1 <= BackBytes(ep) /\ BackBytes(ep) <= W
  <1> DEFINE S == {x \in Nat : 1 <= x /\ x <= W}
             size(x) == UTF8Len(Zigzag(BackDelta(ep, x)))
             shorter(x) == IF size(x) < x THEN size(x) ELSE x
             step == [k \in 1..W |-> [x \in S |-> shorter(x)]]
             Turning(f) == f = [k \in 0..W |-> IF k = 0 THEN W ELSE shorter(f[k - 1])]
  <1>1. ASSUME NEW x \in S PROVE shorter(x) \in S
    <2>1. x \in Nat /\ 1 <= x /\ x <= W
      OBVIOUS
    <2>2. PICK far \in Int : far = ep + x - (last_atom_start + 1)
      BY <2>1
    <2>3. PICK fb \in Nat : fb = ForwardBytes(ep, x)
      BY <2>2, ZigzagIs, LenIs DEF ForwardBytes
    <2>4. PICK delta \in Int : delta = BackDelta(ep, x)
      <3>1. last_atom_start - (ep - (W - fb)) \in Int
        OBVIOUS
      <3> QED BY <2>3, <3>1 DEF BackDelta
    <2>5. PICK z \in Nat : z = Zigzag(delta)
      BY ZigzagIs
    <2>6. PICK u \in Nat : u = size(x) /\ 1 <= u
      BY <2>4, <2>5, LenIs
    <2> HIDE DEF size
    <2>7. shorter(x) = IF u < x THEN u ELSE x
      BY <2>6
    <2> QED BY <2>1, <2>6, <2>7
  <1>2. W \in S
    OBVIOUS
  <1> HIDE DEF size, shorter
  <1>3. step \in Steps(W, S)
    <2> HIDE DEF S
    <2> QED BY <1>1 DEF Steps
  <1>4. PICK f \in [0..W -> S] : RunsThrough(f, W, W, step)
    <2> HIDE DEF step, S
    <2> QED BY <1>2, <1>3, FollowingExists
  <1> DEFINE next(k) == IF k = 0 THEN W ELSE shorter(f[k - 1])
  <1>5. ASSUME NEW k \in 0..W PROVE f[k] = next(k)
    <2>1. CASE k = 0
      BY <1>4, <2>1 DEF RunsThrough
    <2>2. CASE k # 0
      <3>1. k \in 1..W /\ k - 1 \in 0..W
        BY <2>2
      <3>2. f[k - 1] \in S /\ f[k] = step[k][f[k - 1]]
        <4> HIDE DEF step, S
        <4> QED BY <1>4, <3>1, Zenon DEF RunsThrough
      <3>3. f[k] = shorter(f[k - 1])
        <4> HIDE DEF S
        <4> QED BY <3>1, <3>2
      <3> QED BY <2>2, <3>3
    <2> QED BY <2>1, <2>2
  <1>6. Turning(f)
    <2>1. f = [k \in 0..W |-> f[k]]
      BY Zenon
    <2>2. f = [k \in 0..W |-> next(k)]
      <3> HIDE DEF next
      <3> QED BY <1>5, <2>1
    <2> QED BY <2>2, Zenon
  <1> DEFINE turn == CHOOSE f_1 : Turning(f_1)
  <1>7. Turning(turn)
    BY <1>6, Zenon
  <1>8. BackBytes(ep) = turn[W]
    BY Zenon DEF BackBytes, shorter, size
  <1> HIDE DEF turn
  <1>9. \A k \in 0..W : turn[k] = IF k = 0 THEN W ELSE shorter(turn[k - 1])
    BY <1>7, Zenon
  <1> DEFINE K == {k \in Nat : k <= W => turn[k] \in S}
  <1>10. 0 \in K
    <2>1. 0 \in 0..W
      OBVIOUS
    <2>2. turn[0] = W
      <3> HIDE DEF K, S
      <3> QED BY <1>9, <2>1
    <2>3. turn[0] \in S
      <3> HIDE DEF K, S
      <3> QED BY <1>2, <2>2
    <2> HIDE DEF S
    <2> QED BY <2>3
  <1>11. ASSUME NEW k \in K PROVE k + 1 \in K
    <2>0. k \in Nat /\ (k <= W => turn[k] \in S)
      OBVIOUS
    <2> HIDE DEF K, S
    <2>1. CASE k + 1 <= W
      <3>1. k + 1 \in 0..W /\ k + 1 # 0 /\ (k + 1) - 1 = k /\ k <= W
        BY <2>0, <2>1
      <3>2. turn[k + 1] = shorter(turn[k])
        BY <1>9, <3>1
      <3>3. turn[k + 1] \in S
        BY <1>1, <2>0, <3>1, <3>2
      <3> QED BY <2>0, <3>3 DEF K
    <2>2. CASE ~(k + 1 <= W)
      BY <2>0, <2>2 DEF K
    <2> QED BY <2>1, <2>2
  <1>12. K = Nat
    <2>1. K \in SUBSET Nat
      OBVIOUS
    <2> HIDE DEF K
    <2> QED BY <1>10, <1>11, <2>1, NaturalsByInduction
  <1>13. turn[W] \in S
    <2> HIDE DEF S
    <2> QED BY <1>12
  <1> QED BY <1>8, <1>13

LEMMA AnyIs ==
  ASSUME Repeating
  PROVE  \E d \in Codes : /\ d = ZeroOrMore(Append(InsertSplit(nfa, last_atom_start), Op("Jump")))
                          /\ Agree(nfa, d, last_atom_start)
                          /\ Len(d) <= Len(nfa) + 2 + OffsetMaxBytes * 2
  <1>1. PICK W \in Nat, L \in Nat, A \in Nat :
          /\ W = OffsetMaxBytes /\ 1 <= W /\ L = Len(nfa) /\ A = last_atom_start /\ A <= L
          /\ L + 2 + 3 * W <= Room /\ Room \in Nat
    BY WidthIs, CodeLength DEF Repeating
  <1>2. nfa \in Codes /\ bytes_required \in Nat /\ offsets_required \in Nat /\ 0 < Room
    BY <1>1 DEF Repeating
  <1>3. PICK a \in Codes : a = InsertSplit(nfa, A) /\ Len(a) = L + 1 + W /\ Agree(nfa, a, A)
    BY <1>1, <1>2, InsertSplitIs
  <1>4. PICK x \in Cells : x = Op("Jump")
    <2>1. "Jump" \in OpNames
      BY DEF OpNames
    <2> QED BY <2>1, CellsAre
  <1>5. PICK E \in Nat : E = L + W + 2
    OBVIOUS
  <1>6. PICK c \in Codes : c = Append(a, x) /\ Len(c) = E /\ \A i \in 1..E - 1 : c[i] = a[i]
    <2>1. /\ Append(a, x) \in Codes /\ Len(Append(a, x)) = Len(a) + 1
          /\ \A i \in 1..Len(a) : Append(a, x)[i] = a[i]
      BY AppendIs
    <2>2. Len(a) = E - 1 /\ (E - 1) + 1 = E
      BY <1>3, <1>5
    <2> QED BY <2>1, <2>2
  <1>7. Agree(nfa, c, A)
    <2>1. \A i \in 1..A : i \in 1..E - 1
      BY <1>1, <1>5
    <2>2. A <= E
      BY <1>1, <1>5
    <2> QED BY <1>1, <1>3, <1>6, <2>1, <2>2 DEF Agree
  <1>8. PICK rev \in Nat : rev = BackBytes(E) /\ 1 <= rev /\ rev <= W
    BY <1>1, BackBytesIs
  <1>9. PICK fb \in Nat : fb = ForwardBytes(E, rev) /\ 1 <= fb /\ fb <= W
    <2>1. PICK far \in Int : far = E + rev - (A + 1) /\ -Room < far /\ far < Room
      <3>1. E + rev - (A + 1) \in Int /\ -Room < E + rev - (A + 1) /\ E + rev - (A + 1) < Room
        BY <1>1, <1>5, <1>8
      <3> QED BY <3>1
    <2>2. UTF8Len(Zigzag(far)) <= OffsetMaxBytes
      BY <1>2, <2>1, WidthIs
    <2>3. PICK z \in Nat : z = Zigzag(far)
      BY ZigzagIs
    <2>4. UTF8Len(z) \in Nat /\ 1 <= UTF8Len(z)
      BY LenIs
    <2> QED BY <1>1, <2>1, <2>2, <2>3, <2>4 DEF ForwardBytes
  <1>10. PICK delta \in Int : delta = BackDelta(E, rev) /\ -Room < delta /\ delta < 0
    <2>1. A - (E - (W - fb)) \in Int /\ -Room < A - (E - (W - fb)) /\ A - (E - (W - fb)) < 0
      BY <1>1, <1>5, <1>9
    <2> QED BY <1>1, <1>9, <2>1 DEF BackDelta
  <1>11. PICK b \in Nat : b = UTF8Len(Zigzag(delta)) /\ b <= W /\ 1 <= b
    <2>1. delta < Room
      BY <1>1, <1>10
    <2>2. UTF8Len(Zigzag(delta)) <= OffsetMaxBytes
      BY <1>2, <1>10, <2>1, WidthIs
    <2>3. PICK z \in Nat : z = Zigzag(delta)
      BY ZigzagIs
    <2>4. UTF8Len(z) \in Nat /\ 1 <= UTF8Len(z)
      BY LenIs
    <2> QED BY <1>1, <2>2, <2>3, <2>4
  <1>12. PICK p \in Nat, q \in Nat : p = A + 1 /\ q = E + b /\ p + W <= E /\ p + W <= q /\ q - p < Room
    <2>1. A + 1 \in Nat /\ E + b \in Nat /\ A + 1 + W <= E /\ A + 1 + W <= E + b /\ (E + b) - (A + 1) < Room
      BY <1>1, <1>5, <1>11
    <2> QED BY <2>1
  <1>13. PICK d, u, v : d = PatchOffset(c, p, q) /\ Patched(c, p, q - p, d, u, v)
    <2>1. p + OffsetMaxBytes <= Len(c) /\ p + OffsetMaxBytes <= q
      BY <1>1, <1>6, <1>12
    <2> QED BY <1>2, <1>12, <2>1, PatchIs
  <1>14. d \in Codes /\ u \in Nat /\ u <= W /\ Len(d) = E - W + u /\ Agree(c, d, p)
    BY <1>1, <1>6, <1>13 DEF Patched
  <1>15. PICK D \in Nat : D = Len(d) /\ D <= E /\ A <= D
    <2>1. E - W + u \in Nat /\ E - W + u <= E /\ A <= E - W + u
      BY <1>1, <1>5, <1>14
    <2> QED BY <1>14, <2>1
  <1>16. PICK e \in Codes : e = EmitOffset(delta) /\ Len(e) = b
    BY <1>11, EmitOffsetIs
  <1>17. PICK r \in Codes : r = d \o e /\ Len(r) = D + b /\ \A i \in 1..D : r[i] = d[i]
    <2>1. d \o e \in Codes /\ Len(d \o e) = D + b /\ \A i \in 1..D : (d \o e)[i] = d[i]
      <3>1. Len(d) = D /\ Len(e) = b /\ d \in Codes
        BY <1>14, <1>15, <1>16
      <3> QED BY <3>1, JoinSized
    <2> QED BY <2>1
  <1>18. Agree(nfa, r, A)
    <2>1. A <= p
      BY <1>12
    <2>2. Agree(c, d, A)
      BY <1>14, <2>1, AgreeLess
    <2>3. Agree(nfa, d, A)
      BY <1>2, <1>7, <1>14, <2>2, AgreeThrough
    <2>4. \A i \in 1..A : i \in 1..D
      BY <1>15
    <2>5. A <= D + b
      BY <1>15
    <2> QED BY <1>17, <2>3, <2>4, <2>5 DEF Agree
  <1>19. Len(r) <= L + 2 + W * 2
    <2>1. D + b <= L + 2 + W * 2
      BY <1>5, <1>11, <1>15
    <2> QED BY <1>17, <2>1
  <1>20. r = ZeroOrMore(Append(InsertSplit(nfa, last_atom_start), Op("Jump")))
    <2>1. r = RepeatAny(c, rev)
      BY <1>1, <1>6, <1>10, <1>11, <1>12, <1>13, <1>16, <1>17 DEF RepeatAny
    <2>2. RepeatAny(c, rev) = ZeroOrMore(c)
      BY <1>6, <1>8 DEF ZeroOrMore
    <2> QED BY <1>1, <1>3, <1>4, <1>6, <2>1, <2>2
  <1> QED BY <1>1, <1>18, <1>19, <1>20

LEMMA EmittingRepetition ==
  ASSUME NEW h, NEW nb, Counted2(h, nb), Running(h, nb, at, stack, nfa, last_atom_start), at < Len(tokens),
         EmitRepetition
  PROVE  Running(h, nb, at + 1, stack', nfa', last_atom_start')
  <1>1. /\ at \in 0..Len(tokens) - 1 /\ Instr = tokens[at + 1] /\ Instr.op = "Repetition"
        /\ Instr.min \in Nat /\ Instr.max \in Nat
    BY InstrIs DEF Instr, EmitRepetition, Emit
  <1>2. stack' = stack /\ last_atom_start' = Len(nfa)
    BY DEF EmitRepetition, Emit
  <1>3. last_atom_start \in Nat /\ Floor(TopOf(stack)) <= last_atom_start /\ last_atom_start <= Len(nfa)
    BY <1>1, RepeatedIs
  <1>4. PICK L \in Nat, W \in Nat, F \in Nat : L = Len(nfa) /\ W = OffsetMaxBytes /\ F = Floor(TopOf(stack))
    BY RunningIs
  <1>5. Repeating /\ nfa \in Codes
    BY <1>3, RunningIs DEF Repeating, Running
  <1> DEFINE Fits(d, k, o) == /\ d \in Codes /\ Agree(nfa, d, last_atom_start)
                              /\ Len(d) <= Len(nfa) + k + OffsetMaxBytes * o
  <1>6. ASSUME NEW d, NEW k \in Nat, NEW o \in Nat, Fits(d, k, o), d = nfa',
               k = RepeatBytes(Instr.min, Instr.max), o = RepeatOffsets(Instr.min, Instr.max)
        PROVE  Running(h, nb, at + 1, stack', nfa', last_atom_start')
    <2>1. d \in Codes /\ Agree(nfa, d, last_atom_start) /\ Len(d) <= Len(nfa) + k + OffsetMaxBytes * o
      BY <1>6
    <2>2. Agree(nfa, d, Floor(TopOf(stack)))
      BY <1>3, <1>4, <1>5, <2>1, AgreeLess
    <2>3. BytesOf(Instr, Ops(stack)) = k /\ OffsetsOf(Instr) = o
      BY <1>1, <1>6 DEF BytesOf, OffsetsOf, Lines, Classes
    <2>4. Instr.op \notin Openers /\ Instr.op # "EndGroup" /\ Instr.op \notin Atoms
      BY <1>1 DEF Openers, Atoms
    <2>5. Running(h, nb, at + 1, stack, d, Len(nfa))
      BY <1>1, <2>1, <2>2, <2>3, <2>4, PlainOn
    <2> QED BY <1>2, <1>6, <2>5
  <1> HIDE DEF Fits
  <1>7. CASE Instr.min = 0 /\ Instr.max = 0
    <2>1. PICK d \in Codes : /\ d = ZeroOrMore(Append(InsertSplit(nfa, last_atom_start), Op("Jump")))
                             /\ Agree(nfa, d, last_atom_start) /\ Len(d) <= Len(nfa) + 2 + OffsetMaxBytes * 2
      BY <1>5, AnyIs
    <2>2. d = nfa'
      BY <1>7, <2>1 DEF EmitRepetition, Emit
    <2>3. Fits(d, 2, 2)
      BY <2>1 DEF Fits
    <2>4. 2 = RepeatBytes(Instr.min, Instr.max) /\ 2 = RepeatOffsets(Instr.min, Instr.max)
      BY <1>7 DEF RepeatBytes, RepeatOffsets
    <2> QED BY <1>6, <2>2, <2>3, <2>4
  <1>8. CASE Instr.min = 0 /\ Instr.max = 1
    <2>1. PICK d \in Codes : /\ d = ZeroOrOne(InsertSplit(nfa, last_atom_start))
                             /\ Agree(nfa, d, last_atom_start) /\ Len(d) <= Len(nfa) + 1 + OffsetMaxBytes
      BY <1>5, OptionalIs
    <2>2. d = nfa'
      BY <1>8, <2>1 DEF EmitRepetition, Emit
    <2>3. Fits(d, 1, 1)
      <3>1. OffsetMaxBytes * 1 = OffsetMaxBytes
        BY <1>4
      <3> QED BY <2>1, <3>1 DEF Fits
    <2>4. 1 = RepeatBytes(Instr.min, Instr.max) /\ 1 = RepeatOffsets(Instr.min, Instr.max)
      BY <1>8 DEF RepeatBytes, RepeatOffsets
    <2> QED BY <1>6, <2>2, <2>3, <2>4
  <1>9. CASE Instr.min = 1 /\ Instr.max = 0
    <2>1. PICK d \in Codes : /\ d = OneOrMore(Append(nfa, Op("Split")))
                             /\ Agree(nfa, d, last_atom_start) /\ Len(d) <= Len(nfa) + 1 + OffsetMaxBytes
      BY <1>5, ManyIs
    <2>2. d = nfa'
      BY <1>9, <2>1 DEF EmitRepetition, Emit
    <2>3. Fits(d, 1, 1)
      <3>1. OffsetMaxBytes * 1 = OffsetMaxBytes
        BY <1>4
      <3> QED BY <2>1, <3>1 DEF Fits
    <2>4. 1 = RepeatBytes(Instr.min, Instr.max) /\ 1 = RepeatOffsets(Instr.min, Instr.max)
      BY <1>9 DEF RepeatBytes, RepeatOffsets
    <2> QED BY <1>6, <2>2, <2>3, <2>4
  <1>10. CASE /\ ~(Instr.min = 0 /\ Instr.max = 0) /\ ~(Instr.min = 0 /\ Instr.max = 1)
              /\ ~(Instr.min = 1 /\ Instr.max = 0)
    <2>1. PICK d \in Codes : /\ d = CountedRepetition(Instr.min, Instr.max)
                             /\ Agree(nfa, d, last_atom_start) /\ Len(d) <= Len(nfa) + 4 + OffsetMaxBytes
      BY <1>1, <1>5, CountedIs
    <2>2. d = nfa'
      BY <1>10, <2>1 DEF EmitRepetition, Emit
    <2>3. Fits(d, 4, 1)
      <3>1. OffsetMaxBytes * 1 = OffsetMaxBytes
        BY <1>4
      <3> QED BY <2>1, <3>1 DEF Fits
    <2>4. 4 = RepeatBytes(Instr.min, Instr.max) /\ 1 = RepeatOffsets(Instr.min, Instr.max)
      BY <1>10 DEF RepeatBytes, RepeatOffsets
    <2> QED BY <1>6, <2>2, <2>3, <2>4
  <1> QED BY <1>7, <1>8, <1>9, <1>10

LEMMA HeaderIs ==
  ASSUME NEW h, NEW nb, Counted2(h, nb)
  PROVE  Header \in Codes /\ Len(Header) = 4 + 2 * OffsetMaxBytes + StationBytes + nb
  <1>1. /\ bytes_required \in Nat /\ offsets_required \in Nat /\ station_count \in Nat /\ max_nesting \in Nat
        /\ names \in Seq(Seq(Nat)) /\ NamesTake(names, nb) /\ nb \in Nat /\ Len(names) \in Nat
    BY DEF Counted2, Measured, Counts
  <1>2. 0 \in 0..Len(tokens)
    BY DEF Counted2, Measured
  <1>3. PICK W \in Nat, S \in Nat, n \in Nat :
          /\ W = OffsetMaxBytes /\ S = StationBytes /\ n = nb /\ 1 <= W /\ Room \in Nat /\ 0 < Room
    <2>1. OffsetMaxBytes \in Nat /\ 1 <= OffsetMaxBytes /\ Room \in Nat
      BY <1>1, WidthIs
    <2>2. StationBytes \in Nat /\ 11 + nb + 5 * OffsetMaxBytes <= Room
      BY <1>2, SizeIs
    <2>3. 0 < Room
      BY <1>1, <2>1, <2>2
    <2> QED BY <1>1, <2>1, <2>2, <2>3
  <1>4. PICK a \in Codes : a = <<Op("Start")>> /\ Len(a) = 1
    <2>1. "Start" \in OpNames
      BY DEF OpNames
    <2> QED BY <2>1, CellsAre, CellCode
  <1>5. PICK pad \in Codes : pad = EmitPadded(0) /\ Len(pad) = W
    <2>1. 0 \in Int /\ -Room < 0 /\ 0 < Room
      BY <1>3
    <2>2. UTF8Len(Zigzag(0)) <= OffsetMaxBytes
      BY <1>1, <2>1, WidthIs
    <2> QED BY <1>3, <2>1, <2>2, PaddedIs
  <1>6. PICK sc \in Codes : sc = EmitOffset(station_count) /\ Len(sc) = S
    <2>1. station_count \in Int
      BY <1>1
    <2> QED BY <1>3, <2>1, EmitOffsetIs DEF StationBytes
  <1>7. PICK t \in Codes : /\ t = <<Byte(max_nesting), Byte(Len(names) + 1), Byte(Len(names) + 1)>>
                           /\ Len(t) = 3
    <2>1. PICK x \in Cells, y \in Cells : x = Byte(max_nesting) /\ y = Byte(Len(names) + 1)
      <3>1. Len(names) + 1 \in Nat
        BY <1>1
      <3> QED BY <1>1, <3>1, CellsAre
    <2>2. <<x, y, y>> \in Codes /\ Len(<<x, y, y>>) = 3
      <3> HIDE DEF Cells
      <3> QED BY DEF Codes
    <2> QED BY <2>1, <2>2
  <1>8. PICK nt \in Codes : nt = NameTable[Len(names)] /\ Len(nt) = n
    BY <1>1, <1>3, NameTableIs
  <1>9. PICK c1 \in Codes : c1 = a \o pad /\ Len(c1) = 1 + W
    <2>1. Len(a) = 1 /\ Len(pad) = W
      BY <1>4, <1>5
    <2>2. a \o pad \in Codes /\ Len(a \o pad) = 1 + W
      <3>1. /\ a \o pad \in Codes /\ Len(a \o pad) = Len(a) + Len(pad)
            /\ \A i \in 1..Len(a) : (a \o pad)[i] = a[i]
        BY <2>1, JoinIs
      <3> QED BY <2>1, <3>1
    <2> QED BY <2>2
  <1>10. PICK k1 \in Nat : k1 = 1 + W
    OBVIOUS
  <1>11. PICK c2 \in Codes : c2 = c1 \o pad /\ Len(c2) = k1 + W
    <2>1. Len(c1) = k1 /\ Len(pad) = W
      BY <1>5, <1>9, <1>10
    <2>2. c1 \o pad \in Codes /\ Len(c1 \o pad) = k1 + W
      BY <2>1, JoinSized
    <2> QED BY <2>2
  <1>12. PICK k2 \in Nat : k2 = k1 + W
    OBVIOUS
  <1>13. PICK c3 \in Codes : c3 = c2 \o sc /\ Len(c3) = k2 + S
    <2>1. Len(c2) = k2 /\ Len(sc) = S
      BY <1>6, <1>11, <1>12
    <2>2. c2 \o sc \in Codes /\ Len(c2 \o sc) = k2 + S
      BY <2>1, JoinSized
    <2> QED BY <2>2
  <1>14. PICK k3 \in Nat : k3 = k2 + S
    OBVIOUS
  <1>15. PICK c4 \in Codes : c4 = c3 \o t /\ Len(c4) = k3 + 3
    <2>1. Len(c3) = k3 /\ Len(t) = 3
      BY <1>7, <1>13, <1>14
    <2>2. c3 \o t \in Codes /\ Len(c3 \o t) = k3 + 3
      <3>1. /\ c3 \o t \in Codes /\ Len(c3 \o t) = Len(c3) + Len(t)
            /\ \A i \in 1..Len(c3) : (c3 \o t)[i] = c3[i]
        BY <2>1, JoinIs
      <3> QED BY <2>1, <3>1
    <2> QED BY <2>2
  <1>16. PICK k4 \in Nat : k4 = k3 + 3
    OBVIOUS
  <1>17. PICK c5 \in Codes : c5 = c4 \o nt /\ Len(c5) = k4 + n
    <2>1. Len(c4) = k4 /\ Len(nt) = n
      BY <1>8, <1>15, <1>16
    <2>2. c4 \o nt \in Codes /\ Len(c4 \o nt) = k4 + n
      BY <2>1, JoinSized
    <2> QED BY <2>2
  <1>18. Header = c5
    BY <1>4, <1>5, <1>6, <1>7, <1>8, <1>9, <1>11, <1>13, <1>15, <1>17 DEF Header
  <1>19. k4 + n = 4 + 2 * W + S + n
    BY <1>10, <1>12, <1>14, <1>16
  <1> QED BY <1>3, <1>17, <1>18, <1>19

LEMMA EmittingStart ==
  ASSUME NEW h, NEW nb, Counted2(h, nb), stack = <<>>, at = 0, EmitStart
  PROVE  Running(h, nb, at, stack', nfa', last_atom_start') /\ next_group' \in Nat
  <1>1. bytes_required \in Nat /\ offsets_required \in Nat /\ nb \in Nat
    BY DEF Counted2, Measured, Counts
  <1>2. 0 \in 0..Len(tokens) /\ h[0] = Beginning
    BY DEF Counted2, Measured, Counts, Trace
  <1>3. PICK W \in Nat, S \in Nat, n \in Nat :
          /\ W = OffsetMaxBytes /\ S = StationBytes /\ n = nb /\ 1 <= W /\ Room \in Nat
          /\ S <= 3 /\ 1 <= S /\ 11 + n + 5 * W <= Room
    <2>1. OffsetMaxBytes \in Nat /\ 1 <= OffsetMaxBytes /\ Room \in Nat
      BY <1>1, WidthIs
    <2>2. /\ StationBytes \in Nat /\ StationBytes <= 3 /\ 1 <= StationBytes
          /\ 11 + nb + 5 * OffsetMaxBytes <= Room
      BY <1>2, SizeIs
    <2> QED BY <1>1, <2>1, <2>2
  <1>4. PICK H \in Nat : H = 4 + 2 * W + S + n
    OBVIOUS
  <1>5. PICK c \in Codes : c = Header /\ Len(c) = H
    BY <1>3, <1>4, HeaderIs
  <1>6. PICK a \in Nat : a = 1 + W /\ a + W <= H /\ H - a < Room /\ (H - a) + W + 1 < Room
    <2>1. 1 + W \in Nat /\ (1 + W) + W <= H /\ H - (1 + W) < Room /\ (H - (1 + W)) + W + 1 < Room
      BY <1>3, <1>4
    <2> QED BY <2>1
  <1>7. PICK d, u, v : d = PatchOffset(c, a, H) /\ Patched(c, a, H - a, d, u, v)
    <2>1. a + OffsetMaxBytes <= Len(c) /\ a + OffsetMaxBytes <= H
      BY <1>3, <1>5, <1>6
    <2> QED BY <1>1, <1>6, <2>1, PatchIs
  <1>8. /\ d \in Codes /\ u \in Nat /\ 1 <= u /\ u <= W /\ Len(d) = H - W + u
        /\ v \in Nat /\ v <= H - a /\ d[a + 1].num = Zigzag(v)
    BY <1>3, <1>5, <1>7 DEF Patched
  <1>9. PICK D \in Nat : D = Len(d) /\ D <= H /\ W + 2 <= D
    <2>1. H - W + u \in Nat /\ H - W + u <= H /\ W + 2 <= H - W + u
      BY <1>4, <1>8
    <2> QED BY <1>8, <2>1
  <1>10. PICK x \in Cells, y \in Cells : x = Op("CaptureStart") /\ y = Byte(1)
    <2>1. "CaptureStart" \in OpNames /\ 1 \in Nat
      BY DEF OpNames
    <2> QED BY <2>1, CellsAre
  <1>11. PICK e \in Codes : e = <<x, y>> /\ Len(e) = 2
    BY PairCode
  <1>12. PICK r \in Codes : r = d \o e /\ Len(r) = D + 2 /\ \A i \in 1..D : r[i] = d[i]
    <2>1. Len(d) = D /\ Len(e) = 2 /\ d \in Codes /\ 2 \in Nat
      BY <1>8, <1>9, <1>11
    <2>2. d \o e \in Codes /\ Len(d \o e) = D + 2 /\ \A i \in 1..D : (d \o e)[i] = d[i]
      <3>1. /\ d \o e \in Codes /\ Len(d \o e) = Len(d) + Len(e)
            /\ \A i \in 1..Len(d) : (d \o e)[i] = d[i]
        BY <2>1, JoinIs
      <3> QED BY <2>1, <3>1
    <2> QED BY <2>2
  <1>13. nfa' = r
    BY <1>3, <1>5, <1>6, <1>7, <1>10, <1>11, <1>12 DEF EmitStart, Started
  <1>14. PICK R \in Nat : R = D + 2
    OBVIOUS
  <1>15. stack' = <<Group("Start", 0, 0, R)>> /\ next_group' = 1 /\ last_atom_start' = 0
    BY <1>12, <1>13, <1>14 DEF EmitStart
  <1>16. PICK g \in Groups : g = Group("Start", 0, 0, R) /\ g.op = "Start" /\ g.contents = R
    <2>1. "Start" \in GroupOps /\ 0 \in Nat
      BY DEF GroupOps
    <2>2. /\ Group("Start", 0, 0, R) \in Groups /\ Group("Start", 0, 0, R).op = "Start"
          /\ Group("Start", 0, 0, R).contents = R
      BY <2>1, GroupMade
    <2> HIDE DEF Groups
    <2> QED BY <2>2
  <1>17. PICK stk \in Seq(Groups) : stk = <<g>> /\ Len(stk) = 1 /\ stk[1] = g
    <2>1. <<g>> \in Seq(Groups) /\ Len(<<g>>) = 1 /\ <<g>>[1] = g
      <3> HIDE DEF Groups
      <3> QED BY <1>16
    <2> QED BY <2>1
  <1>18. Ops(stk) = h[0].ops
    <2>1. Ops(stk) \in Seq(GroupOps) /\ Len(Ops(stk)) = 1 /\ Ops(stk)[1] = "Start"
      <3>1. 1 \in 1..1
        OBVIOUS
      <3> QED BY <1>16, <1>17, <3>1, OpsAre
    <2>2. Ops(stk) = <<"Start">>
      <3>1. PICK o \in Seq(GroupOps) : o = Ops(stk)
        BY <2>1
      <3>2. Len(o) = 1 /\ o[1] = "Start"
        BY <2>1, <3>1
      <3>3. o = <<"Start">>
        <4> HIDE DEF GroupOps
        <4> QED BY <3>2
      <3> QED BY <3>1, <3>3
    <2> QED BY <1>2, <2>2 DEF Beginning
  <1>19. Stacked(r, stk, 0)
    <2>1. GroupFits(r, g, 0)
      <3>1. "Start" \in GroupOps /\ 0 \in Nat /\ 0 <= R /\ R <= Len(r) /\ "Start" # "NegLookahead"
        BY <1>12, <1>14 DEF GroupOps
      <3> QED BY <1>3, <1>16, <3>1, NewFits
    <2>2. \A i \in 1..1 : i = 1
      OBVIOUS
    <2>3. \A i, j \in 1..1 : ~(i < j)
      OBVIOUS
    <2> QED BY <1>17, <2>1, <2>2, <2>3 DEF Stacked
  <1>20. Len(r) <= Size(nb, h[0])
    <2>1. Size(nb, h[0]) = 6 + 2 * W + S + n + 0 + W * 0
      BY <1>2, <1>3 DEF Size, Beginning
    <2>2. R <= 6 + 2 * W + S + n + 0 + W * 0
      BY <1>4, <1>9, <1>14
    <2> QED BY <1>12, <1>14, <2>1, <2>2
  <1>21. Entry(r)
    <2>1. W + 2 \in 1..D
      BY <1>9
    <2>2. r[W + 2] = d[W + 2]
      BY <1>12, <2>1
    <2>3. a + 1 = W + 2
      BY <1>6
    <2>4. v + W + 1 < Room
      BY <1>3, <1>6, <1>8
    <2> QED BY <1>3, <1>8, <2>2, <2>3, <2>4 DEF Entry
  <1>22. W + 2 <= R
    BY <1>9, <1>14
  <1>23. Running(h, nb, 0, stk, r, 0)
    BY <1>2, <1>3, <1>16, <1>17, <1>18, <1>19, <1>20, <1>21, <1>22 DEF Running
  <1> QED BY <1>13, <1>15, <1>16, <1>17, <1>23

\* The sequence that searches, behind the Accept.
LEMMA SearchIs ==
  ASSUME bytes_required \in Nat, offsets_required \in Nat, 6 < Room,
         NEW d \in Codes, Len(d) + 1 < Room, NEW start \in Nat, start < Room
  PROVE  Search(d, start) \in Codes /\ Len(Search(d, start)) <= Len(d) + 3 + 2 * OffsetMaxBytes
  <1>1. PICK W \in Nat, D \in Nat : W = OffsetMaxBytes /\ 1 <= W /\ W <= 3 /\ D = Len(d) /\ Room \in Nat
    BY WidthIs, CodeLength
  <1>2. PICK x \in Cells, y \in Cells, z \in Cells : x = Op("Split") /\ y = Op("Any") /\ z = Op("Jump")
    <2>1. "Split" \in OpNames /\ "Any" \in OpNames /\ "Jump" \in OpNames
      BY DEF OpNames, TokenOps
    <2> QED BY <2>1, CellsAre
  <1>3. PICK a \in Codes : a = <<x>> /\ Len(a) = 1
    BY CellCode
  <1>4. PICK b \in Codes : b = <<y, z>> /\ Len(b) = 2
    <2>1. <<y, z>> \in Codes /\ Len(<<y, z>>) = 2
      BY <1>2, PairCode
    <2> QED BY <2>1
  <1>5. PICK f \in Int : f = start - (D + 1) /\ -Room < f /\ f < Room
    <2>1. start - (D + 1) \in Int /\ -Room < start - (D + 1) /\ start - (D + 1) < Room
      BY <1>1
    <2> QED BY <2>1
  <1>6. PICK p \in Codes, u \in Nat : p = EmitOffset(f) /\ Len(p) = u /\ u <= W
    <2>1. UTF8Len(Zigzag(f)) <= OffsetMaxBytes
      BY <1>5, WidthIs
    <2>2. EmitOffset(f) \in Codes /\ Len(EmitOffset(f)) = UTF8Len(Zigzag(f))
      BY <1>5, EmitOffsetIs
    <2> QED BY <1>1, <2>1, <2>2, CodeLength
  <1>7. PICK c \in Codes, m \in Nat : c = d \o a /\ Len(c) = m /\ m = D + 1
    <2>1. d \o a \in Codes /\ Len(d \o a) = Len(d) + Len(a)
      BY JoinIs
    <2>2. Len(d \o a) = D + 1
      BY <1>1, <1>3, <2>1
    <2>3. PICK m \in Nat : m = D + 1
      BY <1>1
    <2> QED BY <2>1, <2>2, <2>3
  <1>8. PICK s \in Codes, n \in Nat : s = c \o p /\ Len(s) = n /\ n = D + 1 + u
    <2>1. c \o p \in Codes /\ Len(c \o p) = Len(c) + Len(p)
      BY JoinIs
    <2>2. Len(c \o p) = D + 1 + u
      BY <1>6, <1>7, <2>1
    <2>3. PICK n \in Nat : n = D + 1 + u
      BY <1>1, <1>6
    <2> QED BY <2>1, <2>2, <2>3
  <1>9. s = SearchSplit(d, start)
    BY <1>1, <1>2, <1>3, <1>5, <1>6, <1>7, <1>8 DEF SearchSplit
  <1>10. PICK g \in Int : g = D - (n + 2) /\ -Room < g /\ g < Room
    <2>1. D - (n + 2) \in Int /\ -Room < D - (n + 2) /\ D - (n + 2) < Room
      BY <1>1, <1>6, <1>8
    <2> QED BY <2>1
  <1>11. PICK q \in Codes, v \in Nat : q = EmitOffset(g) /\ Len(q) = v /\ v <= W
    <2>1. UTF8Len(Zigzag(g)) <= OffsetMaxBytes
      BY <1>10, WidthIs
    <2>2. EmitOffset(g) \in Codes /\ Len(EmitOffset(g)) = UTF8Len(Zigzag(g))
      BY <1>10, EmitOffsetIs
    <2> QED BY <1>1, <2>1, <2>2, CodeLength
  <1>12. PICK t \in Codes : t = s \o b /\ Len(t) = n + 2
    <2>1. s \o b \in Codes /\ Len(s \o b) = Len(s) + Len(b)
      BY JoinIs
    <2>2. Len(s \o b) = n + 2
      BY <1>4, <1>8, <2>1
    <2> QED BY <2>1, <2>2
  <1>13. PICK r \in Codes : r = t \o q /\ Len(r) = n + 2 + v
    <2>1. t \o q \in Codes /\ Len(t \o q) = Len(t) + Len(q)
      BY JoinIs
    <2>2. Len(t \o q) = n + 2 + v
      BY <1>11, <1>12, <2>1
    <2> QED BY <2>1, <2>2
  <1>14. r = Search(d, start)
    <2>1. r = SearchJump(s, D)
      BY <1>2, <1>4, <1>8, <1>10, <1>11, <1>12, <1>13 DEF SearchJump
    <2> QED BY <1>1, <1>9, <2>1 DEF Search
  <1>15. n + 2 + v <= D + 3 + 2 * W
    BY <1>6, <1>8, <1>11
  <1> QED BY <1>1, <1>13, <1>14, <1>15

\* The search station comes to the end, and the start station is found.
LEMMA EmittingAccept ==
  ASSUME NEW h, NEW nb, Counted2(h, nb), Running(h, nb, at, stack, nfa, last_atom_start), EmitAccept
  PROVE  Len(nfa') \in Nat /\ Len(nfa') + OffsetMaxBytes <= Room + StationBytes
  <1>1. /\ bytes_required \in Nat /\ offsets_required \in Nat /\ nfa \in Codes
        /\ Tos \in Groups /\ TopOf(stack) = Tos /\ GroupFits(nfa, Tos, at) /\ Entry(nfa)
        /\ stack \in Seq(Groups) /\ Stacked(nfa, stack, at) /\ at \in Nat
        /\ OffsetMaxBytes + 2 <= stack[1].contents
    BY RunningIs DEF Running, TopOf, Tos
  <1>2. PICK W \in Nat, S \in Nat, L \in Nat, n \in Nat :
          /\ W = OffsetMaxBytes /\ S = StationBytes /\ L = Len(nfa) /\ n = Len(stack)
          /\ 1 <= W /\ S <= 3 /\ n >= 1 /\ Room \in Nat /\ L + 2 + 3 * W <= Room /\ 6 < Room
          /\ L + 5 + 3 * W <= Room + S
    <2>1. /\ OffsetMaxBytes \in Nat /\ 1 <= OffsetMaxBytes /\ Room \in Nat /\ Len(nfa) \in Nat
          /\ Len(nfa) + 2 + 3 * OffsetMaxBytes <= Room /\ Len(stack) \in Nat /\ Len(stack) >= 1
      BY RunningIs
    <2>2. at \in 0..Len(tokens) /\ Len(nfa) <= Size(nb, h[at])
      BY DEF Running
    <2>3. /\ Size(nb, h[at]) \in Nat /\ StationBytes \in Nat /\ StationBytes <= 3
          /\ Size(nb, h[at]) + 5 + 3 * OffsetMaxBytes <= Room + StationBytes
          /\ 11 + nb + 5 * OffsetMaxBytes <= Room
      BY <2>2, SizeIs
    <2>4. nb \in Nat
      BY DEF Counted2, Counts
    <2>5. PICK z \in Nat : z = Size(nb, h[at])
      BY <2>3
    <2>6. Len(nfa) + 5 + 3 * OffsetMaxBytes <= Room + StationBytes /\ 6 < Room
      BY <2>1, <2>2, <2>3, <2>4, <2>5
    <2> QED BY <2>1, <2>3, <2>6
  <1>3. PICK F \in Codes, M \in Nat : /\ F = FixupAlternates /\ M = Len(F) /\ M <= L
                                       /\ Agree(nfa, F, Tos.contents)
    BY <1>2, FixingIs, CodeLength
  <1>4. PICK k \in Nat : k = Tos.contents /\ W + 2 <= k /\ k <= M
    <2>1. Tos.contents \in Nat /\ Tos.start \in Nat /\ Tos.start <= Tos.contents
      BY <1>1, <1>2, GroupIs DEF GroupFits
    <2>2. Tos.contents <= M
      BY <1>3 DEF Agree
    <2>3. CASE n = 1
      BY <1>1, <1>2, <2>1, <2>2, <2>3 DEF Tos
    <2>4. CASE n # 1
      <3>1. 1 \in 1..Len(stack) /\ 1 # Len(stack) /\ Len(stack) >= 1
        BY <1>2, <2>4
      <3>2. Floor(stack[1]) \in Nat /\ Floor(stack[1]) <= Tos.start
        BY <1>1, <1>2, <3>1, FloorsBelow
      <3>3. W + 2 <= Floor(stack[1])
        BY <1>2, RunningIs
      <3> QED BY <2>1, <2>2, <3>2, <3>3
    <2> QED BY <2>3, <2>4
  <1>5. F[W + 2] = nfa[W + 2]
    <2>1. W + 2 \in 1..k
      BY <1>4
    <2> QED BY <1>3, <1>4, <2>1 DEF Agree
  <1>6. PICK v \in Nat : v + W + 1 < Room /\ F[W + 2].num = Zigzag(v)
    BY <1>1, <1>2, <1>5 DEF Entry
  <1>7. PICK x \in Cells : x = Op("Accept")
    <2>1. "Accept" \in OpNames
      BY DEF OpNames
    <2> QED BY <2>1, CellsAre
  <1>8. PICK N \in Nat : N = M + 1
    OBVIOUS
  <1>9. PICK c \in Codes : c = Append(F, x) /\ Len(c) = N /\ c[W + 2] = F[W + 2]
    <2>1. /\ Append(F, x) \in Codes /\ Len(Append(F, x)) = Len(F) + 1
          /\ \A i \in 1..Len(F) : Append(F, x)[i] = F[i]
      BY AppendIs
    <2>2. W + 2 \in 1..M
      BY <1>4
    <2>3. Append(F, x)[W + 2] = F[W + 2] /\ Len(Append(F, x)) = N
      BY <1>3, <1>8, <2>1, <2>2
    <2> QED BY <2>1, <2>3
  <1>10. PICK d, u, w : d = PatchOffset(c, 1, N) /\ Patched(c, 1, N - 1, d, u, w)
    <2>1. 1 + OffsetMaxBytes <= Len(c) /\ 1 + OffsetMaxBytes <= N /\ N - 1 < Room /\ 1 \in Nat
      BY <1>2, <1>3, <1>4, <1>8, <1>9
    <2> QED BY <1>1, <2>1, PatchIs
  <1>11. /\ d \in Codes /\ u \in Nat /\ 1 <= u /\ u <= W /\ Len(d) = N - W + u
         /\ \A i \in 1..N - (1 + W) : d[1 + u + i] = c[1 + W + i]
    BY <1>2, <1>9, <1>10 DEF Patched
  <1>12. PICK D \in Nat : D = Len(d) /\ D = N - W + u /\ D <= N
    <2>1. N - W + u \in Nat /\ N - W + u <= N
      BY <1>4, <1>8, <1>11
    <2> QED BY <1>11, <2>1
  <1>13. d[u + 2] = c[W + 2]
    <2>1. 1 \in 1..N - (1 + W)
      BY <1>4, <1>8
    <2>2. d[1 + u + 1] = c[1 + W + 1]
      BY <1>11, <2>1
    <2>3. 1 + u + 1 = u + 2 /\ 1 + W + 1 = W + 2
      BY <1>11
    <2> QED BY <2>2, <2>3
  <1>14. PICK l \in Nat : l = 1 + u /\ l = 1 + W - (N - D) /\ l + 1 = u + 2
    <2>1. 1 + u \in Nat /\ 1 + u = 1 + W - (N - D) /\ (1 + u) + 1 = u + 2
      BY <1>11, <1>12
    <2> QED BY <2>1
  <1>15. OffsetAt(d, l) = v
    <2>1. d[l + 1].num = Zigzag(v)
      BY <1>6, <1>9, <1>13, <1>14
    <2>2. Zagzig(Zigzag(v)) = v
      BY ZigzagIs
    <2> QED BY <2>1, <2>2 DEF OffsetAt
  <1>16. PICK start \in Nat : start = l + v /\ start < Room
    <2>1. l + v \in Nat /\ l + v < Room
      BY <1>2, <1>6, <1>11, <1>14
    <2> QED BY <2>1
  <1>17. PICK r \in Codes : r = Search(d, start) /\ Len(r) <= D + 3 + 2 * W
    <2>1. Len(d) + 1 < Room
      BY <1>2, <1>3, <1>8, <1>12
    <2>2. Search(d, start) \in Codes /\ Len(Search(d, start)) <= Len(d) + 3 + 2 * OffsetMaxBytes
      BY <1>1, <1>2, <1>11, <1>16, <2>1, SearchIs
    <2> QED BY <1>2, <1>12, <2>2
  <1>18. nfa' = Append(r, Null)
    <2>1. StartStation(d, l) = start
      BY <1>15, <1>16 DEF StartStation
    <2>2. r = AppendSearch(c, d)
      BY <1>2, <1>9, <1>12, <1>14, <1>17, <2>1 DEF AppendSearch
    <2>3. r = EmitSearch(Append(FixupAlternates, Op("Accept")))
      BY <1>3, <1>7, <1>9, <1>10, <2>2 DEF EmitSearch
    <2> QED BY <2>3 DEF EmitAccept
  <1>19. PICK R \in Nat : R = Len(r)
    BY CodeLength
  <1>20. Len(nfa') = R + 1
    <2>1. Len(Append(r, Null)) = Len(r) + 1
      BY CellsAre, AppendIs
    <2> QED BY <1>18, <1>19, <2>1
  <1>21. R + 1 + W <= Room + S
    BY <1>2, <1>3, <1>8, <1>12, <1>17, <1>19
  <1> QED BY <1>2, <1>20, <1>21

----------------------------------------------------------------------------
(* The inductive invariant                                                 *)

\* The second pass changes none of what the first pass has measured.
Same == UNCHANGED <<tokens, names, station_count, bytes_required, offsets_required, max_nesting>>

LEMMA SizesSame ==
  ASSUME Same
  PROVE  OffsetMaxBytes' = OffsetMaxBytes /\ Room' = Room /\ StationBytes' = StationBytes
  <1>1. OffsetMaxBytes' = OffsetMaxBytes
    BY DEF Same, OffsetMaxBytes
  <1>2. Room' = Room
    BY <1>1 DEF Same, Room
  <1>3. StationBytes' = StationBytes
    BY DEF Same, StationBytes
  <1> QED BY <1>1, <1>2, <1>3

LEMMA CountedSame ==
  ASSUME Same, NEW h, NEW nb, Counted2(h, nb), next_group' \in Nat
  PROVE  Counted2(h, nb)'
  <1>1. Measured'
    BY DEF Counted2, Measured, Same
  <1>2. Counts(h, nb, 11, 5)'
    BY DEF Counted2, Counts, Same
  <1> QED BY <1>1, <1>2 DEF Counted2

LEMMA RunningSame ==
  ASSUME Same, NEW h, NEW nb, Running(h, nb, at', stack', nfa', last_atom_start')
  PROVE  Running(h, nb, at, stack, nfa, last_atom_start)'
  <1>1. OffsetMaxBytes' = OffsetMaxBytes /\ Room' = Room /\ StationBytes' = StationBytes
    BY SizesSame
  <1>2. PICK n, stk, code, atom : /\ n = at' /\ stk = stack' /\ code = nfa' /\ atom = last_atom_start'
                                  /\ Running(h, nb, n, stk, code, atom)
    OBVIOUS
  <1>3. ASSUME NEW i \in 1..Len(stack') PROVE GroupFits(nfa, stack[i], at)'
    <2>1. PICK g : g = stack'[i] /\ GroupFits(code, g, n)
      BY <1>2 DEF Running, Stacked
    <2>2. PICK jumps \in Seq(Nat) : /\ Len(jumps) <= n /\ g.last_jump = LastOf(jumps)
                                    /\ Linked(code, g.contents, jumps, Floor(g))
      BY <2>1 DEF GroupFits, Chained
    <2>3. Floor(stack[i])' = Floor(g)
      BY <1>1, <2>1 DEF Floor
    <2>4. ASSUME NEW k \in 1..Len(jumps) PROVE LinkIs(nfa, stack[i].contents, jumps, Floor(stack[i]), k)'
      <3>1. LinkIs(code, g.contents, jumps, Floor(g), k)
        BY <2>2 DEF Linked
      <3> QED BY <1>1, <1>2, <2>1, <2>3, <3>1 DEF LinkIs, From, OffsetAt
    <2>5. Linked(nfa, stack[i].contents, jumps, Floor(stack[i]))'
      BY <2>4 DEF Linked
    <2>6. Chained(nfa, stack[i], at)'
      BY <1>2, <2>1, <2>2, <2>5 DEF Chained
    <2> QED BY <1>1, <1>2, <2>1, <2>3, <2>6 DEF GroupFits
  <1>4. Stacked(nfa, stack, at)'
    <2>1. \A i, j \in 1..Len(stack') : i < j => (Floor(stack[i]) <= stack[j].start)'
      BY <1>1, <1>2 DEF Running, Stacked, Floor
    <2> QED BY <1>3, <2>1 DEF Stacked
  <1>5. Entry(nfa)'
    BY <1>1, <1>2 DEF Running, Entry
  <1>6. Size(nb, h[at])' = Size(nb, h[n])
    BY <1>1, <1>2 DEF Size
  <1>7. tokens' = tokens
    BY DEF Same
  <1>8. Floor(TopOf(stack))' = Floor(TopOf(stk))
    BY <1>1, <1>2 DEF TopOf, Floor
  <1> QED BY <1>1, <1>2, <1>4, <1>5, <1>6, <1>7, <1>8 DEF Running

Emits(h, nb) ==
  /\ Counted2(h, nb)
  /\ \/ stack = <<>> /\ at = 0 /\ nfa = <<>>
     \/ stack # <<>> /\ Running(h, nb, at, stack, nfa, last_atom_start)
Emitting == \E h, nb : Emits(h, nb)

Finished == Measured /\ Len(nfa) \in Nat /\ Len(nfa) + OffsetMaxBytes <= Room + StationBytes

\* In the first pass the sizes are enough for the tokens so far, in the second
\* the code for the tokens so far is as its groups say, and has room.
IInv == /\ phase \in {"first", "second", "compiled", "failed"}
        /\ phase = "first" => Scanning
        /\ phase = "second" => Emitting
        /\ phase = "compiled" => Finished

LEMMA Begins == Init => IInv
  <1> SUFFICES ASSUME Init PROVE Scanning
    BY DEF Init, IInv
  <1>1. PICK g \in Groups : g = Group("Start", 0, 1, 0) /\ g.op = "Start"
    <2>1. "Start" \in GroupOps /\ 0 \in Nat /\ 1 \in Nat
      BY DEF GroupOps
    <2>2. Group("Start", 0, 1, 0) \in Groups /\ Group("Start", 0, 1, 0).op = "Start"
      BY <2>1, GroupMade
    <2> HIDE DEF Groups
    <2> QED BY <2>2
  <1>2. stack = <<g>> /\ stack \in Seq(Groups) /\ Len(stack) = 1 /\ stack[1] = g
    <2>1. <<g>> \in Seq(Groups) /\ Len(<<g>>) = 1 /\ <<g>>[1] = g
      <3> HIDE DEF Groups
      <3> QED BY <1>1
    <2> QED BY <1>1, <2>1 DEF Init
  <1>3. Ops(stack) = <<"Start">>
    <2>1. PICK o \in Seq(GroupOps) : o = Ops(stack) /\ Len(o) = 1 /\ o[1] = "Start"
      <3>1. 1 \in 1..1
        OBVIOUS
      <3> QED BY <1>1, <1>2, <3>1, OpsAre
    <2>2. o = <<"Start">>
      <3> HIDE DEF GroupOps
      <3> QED BY <2>1
    <2> QED BY <2>1, <2>2
  <1>4. tokens = <<>> /\ Len(tokens) = 0 /\ names = <<>>
    BY DEF Init
  <1>5. Measured
    <2>1. <<>> \in Seq(Tokens) /\ <<>> \in Seq(Seq(Nat))
      OBVIOUS
    <2> QED BY <1>4, <2>1 DEF Init, Measured
  <1>6. PICK h : h = [k \in 0..0 |-> Beginning]
    OBVIOUS
  <1>7. Trace(h, tokens) /\ h[0] = Beginning
    BY <1>4, <1>6, TraceBegins
  <1>8. Counts(h, 0, 6, 3) /\ Ops(stack) = h[Len(tokens)].ops
    <2>1. h[Len(tokens)].bytes = 0 /\ h[Len(tokens)].offsets = 0 /\ h[Len(tokens)].ops = <<"Start">>
      BY <1>4, <1>7 DEF Beginning
    <2>2. bytes_required = 6 /\ offsets_required = 3
      BY DEF Init
    <2>3. 6 >= 6 + 0 + 0 /\ 3 >= 3 + 0 /\ 0 \in Nat
      OBVIOUS
    <2> QED BY <1>3, <1>4, <1>7, <2>1, <2>2, <2>3, NoNames DEF Counts
  <1> QED BY <1>2, <1>5, <1>8 DEF Init, Scanning

\* The end of the first pass counts the end of the code.
LEMMA ScanningEnds ==
  ASSUME Scanning, ScanAccept
  PROVE  Emitting'
  <1>1. PICK h, nb : Counts(h, nb, 6, 3)
    BY DEF Scanning
  <1>2. /\ Measured /\ at = 0 /\ nfa = <<>>
    BY DEF Scanning
  <1>3. /\ tokens' = tokens /\ names' = names /\ max_nesting' = max_nesting /\ next_group' = next_group
        /\ stack' = <<>> /\ at' = 0 /\ nfa' = <<>>
        /\ station_count' = station_count + 1 /\ bytes_required' = bytes_required + 5
        /\ offsets_required' = offsets_required + 2
    <2>1. bytes_required + 1 + 4 = bytes_required + 5
      <3>1. PICK B \in Nat : B = bytes_required
        BY <1>2 DEF Measured
      <3>2. B + 1 + 4 = B + 5
        OBVIOUS
      <3> QED BY <3>1, <3>2
    <2> QED BY <1>2, <2>1 DEF ScanAccept, Need
  <1>4. Measured'
    BY <1>2, <1>3 DEF Measured
  <1>5. Counts(h, nb, 11, 5)'
    <2>1. PICK B \in Nat, O \in Nat, N \in Nat : B = bytes_required /\ O = offsets_required /\ N = Len(tokens)
      <3>1. bytes_required \in Nat /\ offsets_required \in Nat /\ tokens \in Seq(Tokens)
        BY <1>2 DEF Measured
      <3>2. Len(tokens) \in Nat
        BY <3>1
      <3> QED BY <3>1, <3>2
    <2>2. h[N] \in Moments
      BY <1>1, <2>1 DEF Counts, Trace
    <2>3. PICK x \in Nat, y \in Nat : x = h[N].bytes /\ y = h[N].offsets
      BY <2>2, MomentIs
    <2>4. nb \in Nat /\ B >= 6 + nb + x /\ O >= 3 + y
      BY <1>1, <2>1, <2>3 DEF Counts
    <2>5. B + 5 >= 11 + nb + x /\ O + 2 >= 5 + y
      BY <2>4
    <2> QED BY <1>1, <1>3, <2>1, <2>3, <2>4, <2>5 DEF Counts
  <1>6. Counted2(h, nb)'
    BY <1>4, <1>5 DEF Counted2
  <1>7. Emits(h, nb)'
    BY <1>3, <1>6 DEF Emits
  <1> QED BY <1>7 DEF Emitting

\* The tokens of the second pass.
LEMMA EmittingOn ==
  ASSUME Emitting,
         \/ EmitStart \/ EmitLiteral \/ EmitSimple \/ EmitClass \/ EmitGroup \/ EmitNamed
         \/ EmitLookahead \/ EmitEndGroup \/ EmitAlternate \/ EmitRepetition
  PROVE  Emitting'
  <1>1. PICK h, nb : Emits(h, nb)
    BY DEF Emitting
  <1>2. Counted2(h, nb) /\ next_group \in Nat
    BY <1>1 DEF Emits, Counted2, Measured
  <1>3. Same
    BY DEF EmitStart, EmitLiteral, EmitSimple, EmitClass, EmitGroup, EmitNamed, EmitLookahead,
           EmitEndGroup, EmitAlternate, Alternate, EmitRepetition, Emit, Same, sizing
  <1>4. SUFFICES ASSUME Running(h, nb, at', stack', nfa', last_atom_start'), next_group' \in Nat
                 PROVE  Emitting'
    <2>1. ASSUME EmitStart
          PROVE  Running(h, nb, at', stack', nfa', last_atom_start') /\ next_group' \in Nat
      <3>1. stack = <<>> /\ at' = at
        BY <2>1 DEF EmitStart
      <3>2. at = 0
        BY <1>1, <3>1 DEF Emits
      <3> QED BY <1>2, <2>1, <3>1, <3>2, EmittingStart
    <2>2. ASSUME \/ EmitLiteral \/ EmitSimple \/ EmitClass \/ EmitGroup \/ EmitNamed
                 \/ EmitLookahead \/ EmitEndGroup \/ EmitAlternate \/ EmitRepetition
          PROVE  Running(h, nb, at', stack', nfa', last_atom_start') /\ next_group' \in Nat
      <3>1. stack # <<>> /\ at < Len(tokens) /\ at' = at + 1
        BY <2>2 DEF EmitLiteral, EmitSimple, EmitClass, EmitGroup, EmitNamed, EmitLookahead,
                    EmitEndGroup, EmitAlternate, Alternate, EmitRepetition, Emit
      <3>2. Running(h, nb, at, stack, nfa, last_atom_start)
        BY <1>1, <3>1 DEF Emits
      <3>3. CASE EmitLiteral \/ EmitSimple \/ EmitClass
        <4>1. next_group' = next_group
          BY <3>3 DEF EmitLiteral, EmitSimple, EmitClass
        <4> QED BY <1>2, <3>1, <3>2, <3>3, <4>1, EmittingAtoms
      <3>4. CASE EmitGroup \/ EmitNamed \/ EmitLookahead
        BY <1>2, <3>1, <3>2, <3>4, EmittingOpeners
      <3>5. CASE EmitEndGroup
        <4>1. next_group' = next_group
          BY <3>5 DEF EmitEndGroup
        <4> QED BY <1>2, <3>1, <3>2, <3>5, <4>1, EmittingEndGroup
      <3>6. CASE EmitAlternate
        <4>1. next_group' = next_group
          BY <3>6 DEF EmitAlternate, Alternate
        <4> QED BY <1>2, <3>1, <3>2, <3>6, <4>1, EmittingAlternate
      <3>7. CASE EmitRepetition
        <4>1. next_group' = next_group
          BY <3>7 DEF EmitRepetition
        <4> QED BY <1>2, <3>1, <3>2, <3>7, <4>1, EmittingRepetition
      <3> QED BY <2>2, <3>3, <3>4, <3>5, <3>6, <3>7
    <2> QED BY <1>4, <2>1, <2>2
  <1>5. Counted2(h, nb)'
    BY <1>2, <1>3, <1>4, CountedSame
  <1>6. Running(h, nb, at, stack, nfa, last_atom_start)'
    BY <1>3, <1>4, RunningSame
  <1>7. stack' # <<>>
    <2>1. PICK n, stk, code, atom : stk = stack' /\ Running(h, nb, n, stk, code, atom)
      BY <1>4
    <2>2. Len(stk) >= 1
      BY <1>2, <2>1, RunningIs
    <2> QED BY <2>1, <2>2
  <1>8. Emits(h, nb)'
    BY <1>5, <1>6, <1>7 DEF Emits
  <1> QED BY <1>8 DEF Emitting

LEMMA Finishing ==
  ASSUME Emitting, EmitAccept
  PROVE  Finished'
  <1>1. PICK h, nb : Counted2(h, nb) /\ Running(h, nb, at, stack, nfa, last_atom_start)
    BY DEF Emitting, Emits, EmitAccept
  <1>2. Same /\ next_group' = next_group
    BY DEF EmitAccept, Same, sizing
  <1>3. Measured'
    BY <1>1, <1>2 DEF Counted2, Measured, Same
  <1>4. Len(nfa') \in Nat /\ Len(nfa') + OffsetMaxBytes <= Room + StationBytes
    BY <1>1, EmittingAccept
  <1>5. OffsetMaxBytes' = OffsetMaxBytes /\ Room' = Room /\ StationBytes' = StationBytes
    BY <1>2, SizesSame
  <1> QED BY <1>3, <1>4, <1>5 DEF Finished

\* Nothing happens.
LEMMA Stays ==
  ASSUME IInv, UNCHANGED vars
  PROVE  IInv'
  <1>1. /\ UNCHANGED <<phase, tokens, stack, max_nesting, names, repeatable, error_message>>
        /\ UNCHANGED sizing /\ UNCHANGED emitting
    BY DEF vars
  <1>2. Same /\ UNCHANGED <<at, nfa, last_atom_start, next_group>>
    BY <1>1 DEF sizing, emitting, Same
  <1>3. phase' = phase /\ stack' = stack /\ repeatable' = repeatable
    BY <1>1
  <1>4. CASE phase = "first"
    <2>1. Scanning
      BY <1>4 DEF IInv
    <2>2. Scanning'
      BY <1>2, <1>3, <2>1 DEF Scanning, Measured, Counts, Same
    <2> QED BY <1>3, <1>4, <2>2 DEF IInv
  <1>5. CASE phase = "second"
    <2>1. PICK h, nb : Emits(h, nb)
      BY <1>5 DEF IInv, Emitting
    <2>2. Counted2(h, nb)'
      <3>1. next_group' \in Nat
        BY <1>2, <2>1 DEF Emits, Counted2, Measured
      <3> QED BY <1>2, <2>1, <3>1, CountedSame DEF Emits
    <2>3. ASSUME Running(h, nb, at, stack, nfa, last_atom_start)
          PROVE  Running(h, nb, at, stack, nfa, last_atom_start)'
      <3>1. Running(h, nb, at', stack', nfa', last_atom_start')
        BY <1>2, <1>3, <2>3
      <3> QED BY <1>2, <3>1, RunningSame
    <2>4. Emits(h, nb)'
      BY <1>2, <1>3, <2>1, <2>2, <2>3 DEF Emits
    <2>5. Emitting'
      BY <2>4 DEF Emitting
    <2> QED BY <1>3, <1>5, <2>5 DEF IInv
  <1>6. CASE phase = "compiled"
    <2>1. Finished
      BY <1>6 DEF IInv
    <2>2. OffsetMaxBytes' = OffsetMaxBytes /\ Room' = Room /\ StationBytes' = StationBytes
      BY <1>2, SizesSame
    <2>3. Finished'
      BY <1>2, <2>1, <2>2 DEF Finished, Measured, Same
    <2> QED BY <1>3, <1>6, <2>3 DEF IInv
  <1>7. CASE phase = "failed"
    BY <1>3, <1>7 DEF IInv
  <1> QED BY <1>4, <1>5, <1>6, <1>7 DEF IInv

LEMMA Kept ==
  ASSUME IInv, Compile
  PROVE  IInv'
  <1>1. ASSUME NEW t \in Tokens,
               \/ ScanLiteral(t) \/ ScanLine(t) \/ ScanAny(t) \/ ScanClass(t)
               \/ ScanAlternate(t) \/ ScanRepetition(t)
        PROVE  IInv'
    <2>1. phase = "first" /\ phase' = "first"
      BY <1>1 DEF ScanLiteral, ScanLine, ScanAny, ScanClass, ScanAlternate, ScanRepetition, Scan, Counted
    <2>2. Scanning'
      BY <1>1, <2>1, ScanningOperators DEF IInv
    <2> QED BY <2>1, <2>2 DEF IInv
  <1>2. ASSUME NEW t \in Tokens, ScanGroup(t) \/ ScanLookahead(t) \/ ScanNamed(t) \/ ScanEndGroup(t)
        PROVE  IInv'
    <2>1. phase = "first" /\ phase' = "first"
      BY <1>2 DEF ScanGroup, ScanLookahead, ScanNamed, ScanEndGroup, Scan, Counted
    <2>2. Scanning'
      BY <1>2, <2>1, ScanningGroups DEF IInv
    <2> QED BY <2>1, <2>2 DEF IInv
  <1>3. ASSUME NEW t \in Tokens, ScanBadGroup(t) \/ ScanUnopened(t) \/ ScanBadRepetition(t)
        PROVE  IInv'
    <2>1. phase' = "failed"
      BY <1>3 DEF ScanBadGroup, ScanUnopened, ScanBadRepetition, Fail
    <2> QED BY <2>1 DEF IInv
  <1>4. ASSUME ScanUnclosed PROVE IInv'
    <2>1. phase' = "failed"
      BY <1>4 DEF ScanUnclosed, Fail
    <2> QED BY <2>1 DEF IInv
  <1>5. ASSUME ScanAccept PROVE IInv'
    <2>1. phase = "first" /\ phase' = "second"
      BY <1>5 DEF ScanAccept
    <2>2. Emitting'
      BY <1>5, <2>1, ScanningEnds DEF IInv
    <2> QED BY <2>1, <2>2 DEF IInv
  <1>6. ASSUME \/ EmitStart \/ EmitLiteral \/ EmitSimple \/ EmitClass \/ EmitGroup \/ EmitNamed
               \/ EmitLookahead \/ EmitEndGroup \/ EmitAlternate \/ EmitRepetition
        PROVE  IInv'
    <2>1. phase = "second" /\ phase' = "second"
      BY <1>6 DEF EmitStart, EmitLiteral, EmitSimple, EmitClass, EmitGroup, EmitNamed, EmitLookahead,
                  EmitEndGroup, EmitAlternate, Alternate, EmitRepetition, Emit
    <2>2. Emitting'
      BY <1>6, <2>1, EmittingOn DEF IInv
    <2> QED BY <2>1, <2>2 DEF IInv
  <1>7. ASSUME EmitAccept PROVE IInv'
    <2>1. phase = "second" /\ phase' = "compiled"
      BY <1>7 DEF EmitAccept
    <2>2. Finished'
      BY <1>7, <2>1, Finishing DEF IInv
    <2> QED BY <2>1, <2>2 DEF IInv
  <1> QED BY <1>1, <1>2, <1>3, <1>4, <1>5, <1>6, <1>7 DEF Compile, FirstPass, SecondPass

----------------------------------------------------------------------------
(* The theorems                                                            *)

THEOREM Invariance == CompileSpec => []IInv
  <1>1. Init => IInv
    BY Begins
  <1>2. IInv /\ [Compile]_vars => IInv'
    BY Kept, Stays
  <1> QED BY <1>1, <1>2, PTL DEF CompileSpec

\* Whatever was inserted, moved and patched before, the assertions in the loop
\* of fixup_alternates hold and the loop ends (rxcompile.cpp:857-876).
THEOREM AlternatesAreFound == CompileSpec => []FixupFindsAll
  <1>1. ASSUME IInv PROVE FixupFindsAll
    <2>1. SUFFICES ASSUME phase = "second", stack # <<>> PROVE FindsAll
      BY DEF FixupFindsAll, FindsAll
    <2>2. PICK h, nb : Counted2(h, nb) /\ Running(h, nb, at, stack, nfa, last_atom_start)
      BY <1>1, <2>1 DEF IInv, Emitting, Emits
    <2> QED BY <2>2, FixingIs
  <1> QED BY <1>1, Invariance, PTL

\* The finished code, with its Null, takes no more than what the first pass
\* added up and the bytes by which the stations are wider than an offset
\* (rxcompile.cpp:731-737, 897-904).
OverByStations ==
  phase = "compiled" =>
    Len(nfa) <= bytes_required + offsets_required * OffsetMaxBytes + (StationBytes - OffsetMaxBytes)

THEOREM CompiledSize == CompileSpec => []OverByStations
  <1>1. ASSUME IInv PROVE OverByStations
    <2>1. SUFFICES ASSUME phase = "compiled"
                   PROVE  Len(nfa) <= Room + (StationBytes - OffsetMaxBytes)
      BY DEF OverByStations, Room
    <2>2. Finished
      BY <1>1, <2>1 DEF IInv
    <2>3. /\ bytes_required \in Nat /\ offsets_required \in Nat /\ station_count \in Nat
          /\ Len(nfa) \in Nat /\ Len(nfa) + OffsetMaxBytes <= Room + StationBytes
      BY <2>2 DEF Finished, Measured
    <2>4. OffsetMaxBytes \in Nat /\ Room \in Nat
      BY <2>3, WidthIs
    <2>5. StationBytes \in Nat
      BY <2>3, StationsAre
    <2> QED BY <2>3, <2>4, <2>5
  <1> QED BY <1>1, Invariance, PTL

\* So where the stations are no wider the comment's maximum is one.
THEOREM MaximumIsKept == CompileSpec => [](StationsAsOffset => MaximumSize)
  <1>1. ASSUME IInv, OverByStations, StationsAsOffset PROVE MaximumSize
    <2>1. SUFFICES ASSUME phase = "compiled" PROVE Len(nfa) <= Room
      BY DEF MaximumSize, Room
    <2>2. /\ bytes_required \in Nat /\ offsets_required \in Nat /\ station_count \in Nat
          /\ Len(nfa) \in Nat
      BY <1>1, <2>1 DEF IInv, Finished, Measured
    <2>3. OffsetMaxBytes \in Nat /\ Room \in Nat
      BY <2>2, WidthIs
    <2>4. StationBytes \in Nat /\ StationBytes <= OffsetMaxBytes
      <3>1. StationBytes \in Nat
        BY <2>2, StationsAre
      <3> QED BY <1>1, <3>1 DEF StationsAsOffset, StationBytes
    <2>5. Len(nfa) <= Room + (StationBytes - OffsetMaxBytes)
      BY <1>1, <2>1 DEF OverByStations, Room
    <2> QED BY <2>2, <2>3, <2>4, <2>5
  <1> QED BY <1>1, Invariance, CompiledSize, PTL

\* The assertion at the end of second_pass (rxcompile.cpp:1109), and of every
\* token before, where the allocation reckons with the width offsets have.
THEOREM CodeHasRoom == CompileSpec => []RoomForCode
  <1>1. ASSUME IInv, OverByStations PROVE RoomForCode
    <2>1. SUFFICES ASSUME StationsAsOffset,
                          OffsetMaxBytes = UTF8Len(bytes_required + offsets_required * OffsetMaxBytes)
                   PROVE  CodeFits
      BY DEF RoomForCode
    <2>2. Allocated = Room
      BY <2>1 DEF Allocated, Room
    <2>3. ASSUME phase = "second" PROVE Len(nfa) < Room
      <3>1. PICK h, nb : Emits(h, nb)
        BY <1>1, <2>3 DEF IInv, Emitting
      <3>2. Counted2(h, nb)
        BY <3>1 DEF Emits
      <3>3. CASE stack = <<>>
        <4>1. Len(nfa) = 0
          BY <3>1, <3>3 DEF Emits
        <4>2. 0 \in 0..Len(tokens) /\ nb \in Nat /\ bytes_required \in Nat /\ offsets_required \in Nat
          BY <3>2 DEF Counted2, Counts, Measured
        <4>3. OffsetMaxBytes \in Nat /\ Room \in Nat /\ 11 + nb + 5 * OffsetMaxBytes <= Room
          BY <3>2, <4>2, SizeIs, WidthIs
        <4> QED BY <4>1, <4>2, <4>3
      <3>4. CASE stack # <<>>
        <4>1. Running(h, nb, at, stack, nfa, last_atom_start)
          BY <3>1, <3>4 DEF Emits
        <4>2. /\ OffsetMaxBytes \in Nat /\ Room \in Nat /\ Len(nfa) \in Nat
              /\ Len(nfa) + 2 + 3 * OffsetMaxBytes <= Room
          BY <3>2, <4>1, RunningIs
        <4> QED BY <4>2
      <3> QED BY <3>3, <3>4
    <2>4. ASSUME phase = "compiled" PROVE Len(nfa) - 1 < Room
      <3>1. /\ bytes_required \in Nat /\ offsets_required \in Nat /\ station_count \in Nat
            /\ Len(nfa) \in Nat
        BY <1>1, <2>4 DEF IInv, Finished, Measured
      <3>2. OffsetMaxBytes \in Nat /\ Room \in Nat
        BY <3>1, WidthIs
      <3>3. StationBytes \in Nat /\ StationBytes <= OffsetMaxBytes
        <4>1. StationBytes \in Nat
          BY <3>1, StationsAre
        <4> QED BY <2>1, <4>1 DEF StationsAsOffset, StationBytes
      <3>4. Len(nfa) <= Room + (StationBytes - OffsetMaxBytes)
        BY <1>1, <2>4 DEF OverByStations, Room
      <3> QED BY <3>1, <3>2, <3>3, <3>4
    <2> QED BY <2>2, <2>3, <2>4 DEF CodeFits
  <1> QED BY <1>1, Invariance, CompiledSize, PTL
=============================================================================
