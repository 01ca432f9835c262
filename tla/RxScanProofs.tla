---------------------------- MODULE RxScanProofs ----------------------------
(***************************************************************************)
(* Proofs about RxScan: for expressions of any length, any set of features *)
(* and any callback.                                                       *)
(***************************************************************************)
EXTENDS RxScan, SequenceTheorems, NatLemmas

(* A literal holds characters, and codes where these were escaped.         *)
Characters == UNION {{text[k] : k \in DOMAIN text} : text \in Texts}
Codes == Characters \cup {""} \cup Int
Ops == {"Literal", "BOL", "EOL", "Any", "Repetition", "CharClass", "NegCharClass", "Alternate",
        "NonCapturingGroup", "NamedCapture", "NegLookahead", "EndGroup", "CharProperty", "Accept",
        "Start"}
Spelled == [op : Ops, str : Seq(Codes), min : Int, max : Int, from : Nat, to : Nat]
Delays == [str : Seq(Codes), from : Nat, to : Nat]
Changed == [tokens : Seq(Spelled), delayed : Delays, ok : BOOLEAN]

(***************************************************************************)
(* The invariant.  It is about the parts of m that the loop changes: what  *)
(* was delivered is in the order of the text, and before what is delayed;  *)
(* a literal of more than one character is not before a repetition, and    *)
(* repetitions are where the text has one.                                 *)
(***************************************************************************)
Told(token) ==
  /\ token.from <= token.to
  /\ token.op = "Literal" => /\ token.str # <<>>
                             /\ Len(token.str) > 1 => Ch(token.to) \notin Repeaters
  /\ token.op = "Repetition" => Ch(token.from) \in Repeaters

AllTold(m) ==
  /\ \A k \in DOMAIN m.tokens : Told(m.tokens[k])
  /\ Len(m.delayed.str) > 1 => Ch(m.delayed.to) \notin Repeaters

Ordered(m) ==
  /\ \A k, l \in DOMAIN m.tokens : k < l => m.tokens[k].to <= m.tokens[l].from
  /\ m.delayed.str # <<>> =>
        /\ \A k \in DOMAIN m.tokens : m.tokens[k].to <= m.delayed.from
        /\ m.delayed.from <= m.delayed.to

(* Nothing reaches beyond the next character, and all that is before it    *)
(* was told or is delayed, or is ignored.                                  *)
Below(m, at) ==
  /\ \A k \in DOMAIN m.tokens : m.tokens[k].to <= at
  /\ m.delayed.str # <<>> => m.delayed.to <= at
Waits(m, k) == m.delayed.str # <<>> /\ k \in m.delayed.from..m.delayed.to - 1
Within(ts, k) == \E n \in DOMAIN ts : k \in ts[n].from..ts[n].to - 1
Covered(m, at) ==
  \A k \in 0..Len(re) - 1 : k < at => Within(m.tokens, k) \/ Waits(m, k) \/ Ignored(k)

Good(m, at) == m \in Changed /\ AllTold(m) /\ Ordered(m) /\ Below(m, at)

TypeOK == re \in Seq(Characters) /\ i \in Nat

IInv == /\ TypeOK
        /\ Good(Now, i)
        /\ ok /\ error_message = "" => Covered(Now, i)
        /\ NothingLost
----------------------------------------------------------------------------
\* What is good up to an offset is good up to a later one.
LEMMA GoodLater ==
  ASSUME NEW m, NEW at \in Nat, NEW later \in Nat, at <= later, Good(m, at)
  PROVE  Good(m, later)
  <1>1. m \in Changed
    BY DEF Good
  <1>2. m.tokens \in Seq(Spelled) /\ m.delayed \in Delays
    BY <1>1 DEF Changed
  <1>3. \A k \in DOMAIN m.tokens : m.tokens[k] \in Spelled
    BY <1>2
  <1>4. \A k \in DOMAIN m.tokens : m.tokens[k].to \in Nat
    BY <1>3 DEF Spelled
  <1>5. m.delayed.to \in Nat
    BY <1>2 DEF Delays
  <1>6. Below(m, later)
    BY <1>4, <1>5 DEF Good, Below
  <1> QED BY <1>6 DEF Good

(* One more token, that begins where the others end.                       *)
LEMMA DeliverGood ==
  ASSUME NEW m, NEW at, NEW t \in Spelled, at = t.from, Good(m, at), m.delayed.str = <<>>, Told(t)
  PROVE  /\ Good(Deliver(m, t), t.to)
         /\ Deliver(m, t).delayed.str = <<>>
         /\ Covered(m, at) => Covered(Deliver(m, t), t.to)
  <1> DEFINE r == Deliver(m, t)
  <1>1. m \in Changed
    BY DEF Good
  <1>2. /\ r \in Changed /\ r.delayed = m.delayed /\ r.tokens = Append(m.tokens, t)
    <2>1. m.tokens \in Seq(Spelled) /\ m.delayed \in Delays
      BY <1>1 DEF Changed
    <2>2. Append(m.tokens, t) \in Seq(Spelled)
      BY <2>1, AppendProperties
    <2> QED BY <2>1, <2>2 DEF Deliver, Changed
  <1>3. PICK ts \in Seq(Spelled) : ts = m.tokens
    BY <1>1 DEF Changed
  <1>4. PICK us \in Seq(Spelled) : us = r.tokens
    BY <1>2 DEF Changed
  <1> HIDE DEF r
  <1>5. Len(us) = Len(ts) + 1 /\ us[Len(ts) + 1] = t /\ \A k \in 1..Len(ts) : us[k] = ts[k]
    BY <1>2, <1>3, <1>4
  <1>6. DOMAIN us = 1..Len(ts) + 1 /\ DOMAIN ts = 1..Len(ts) /\ Len(ts) \in Nat
    BY <1>5
  <1>7. \A k \in 1..Len(ts) + 1 : k \in 1..Len(ts) \/ k = Len(ts) + 1
    BY <1>6
  <1>8. AllTold(r)
    BY <1>2, <1>3, <1>4, <1>5, <1>6, <1>7 DEF AllTold, Good
  <1>9. \A k \in 1..Len(ts) : ts[k].to <= at /\ ts[k].to \in Nat
    <2>1. \A k \in 1..Len(ts) : ts[k].to <= at
      BY <1>3, <1>6 DEF Good, Below
    <2>2. \A k \in 1..Len(ts) : ts[k] \in Spelled
      BY <1>6
    <2> QED BY <2>1, <2>2 DEF Spelled
  <1>10. t.from \in Nat /\ t.to \in Nat /\ t.from <= t.to
    BY DEF Spelled, Told
  <1>11. Ordered(r)
    <2>1. ASSUME NEW k \in 1..Len(ts) + 1, NEW l \in 1..Len(ts) + 1, k < l
          PROVE  us[k].to <= us[l].from
      <3>1. k \in 1..Len(ts)
        BY <1>6, <2>1
      <3>2. CASE l = Len(ts) + 1
        BY <1>5, <1>9, <3>1, <3>2
      <3>3. CASE l \in 1..Len(ts)
        BY <1>3, <1>5, <1>6, <2>1, <3>1, <3>3 DEF Good, Ordered
      <3> QED BY <1>7, <3>2, <3>3
    <2> QED BY <1>2, <1>4, <1>6, <2>1 DEF Ordered
  <1>12. Below(r, t.to)
    <2>1. ASSUME NEW k \in 1..Len(ts) + 1 PROVE us[k].to <= t.to
      BY <1>5, <1>7, <1>9, <1>10
    <2> QED BY <1>2, <1>4, <1>6, <2>1 DEF Below
  <1>13. ASSUME Covered(m, at) PROVE Covered(r, t.to)
    <2>1. SUFFICES ASSUME NEW k \in 0..Len(re) - 1, k < t.to
                   PROVE  Within(r.tokens, k) \/ Ignored(k)
      BY DEF Covered
    <2>2. CASE k < at
      <3>1. Within(ts, k) \/ Ignored(k)
        BY <1>3, <1>13, <2>2 DEF Covered, Waits
      <3>2. Within(ts, k) => Within(us, k)
        BY <1>5, <1>6 DEF Within
      <3> QED BY <1>4, <3>1, <3>2
    <2>3. CASE ~(k < at)
      <3>1. k \in t.from..t.to - 1
        BY <1>10, <2>1, <2>3
      <3>2. Within(us, k)
        BY <1>5, <1>6, <3>1 DEF Within
      <3> QED BY <1>4, <3>2
    <2> QED BY <2>2, <2>3
  <1> QED BY <1>2, <1>8, <1>11, <1>12, <1>13 DEF r, Good

(* The delayed literal is told.                                            *)
LEMMA FlushGood ==
  ASSUME NEW m, NEW at \in Nat, Good(m, at)
  PROVE  /\ Good(Flush(m), at)
         /\ Flush(m).delayed.str = <<>>
         /\ Covered(m, at) => Covered(Flush(m), at)
  <1>1. CASE m.delayed.str = <<>>
    BY <1>1 DEF Flush
  <1>2. CASE m.delayed.str # <<>>
    <2> DEFINE d == m.delayed
               q == [m EXCEPT !.delayed = Nothing]
               t == Token("Literal", d.str, 0, 0, d.from, d.to)
    <2>1. m \in Changed /\ d \in Delays
      BY DEF Good, Changed
    <2>2. q \in Changed /\ q.tokens = m.tokens /\ q.delayed.str = <<>>
      <3>1. Nothing \in Delays /\ Nothing.str = <<>>
        BY EmptySeq DEF Nothing, Delays
      <3> QED BY <2>1, <3>1 DEF Changed
    <2>3. t \in Spelled /\ t.from = d.from /\ t.to = d.to /\ t.str = d.str /\ t.op = "Literal"
      <3>1. d.str \in Seq(Codes) /\ d.from \in Nat /\ d.to \in Nat
        BY <2>1 DEF Delays
      <3>2. "Literal" \in Ops
        BY DEF Ops
      <3> HIDE DEF d
      <3>3. Token("Literal", d.str, 0, 0, d.from, d.to) \in Spelled
        BY <3>1, <3>2 DEF Token, Spelled
      <3>4. t.from = d.from /\ t.to = d.to /\ t.str = d.str /\ t.op = "Literal"
        BY DEF Token
      <3> QED BY <3>3, <3>4
    <2>4. Told(t)
      BY <1>2, <2>3 DEF Told, Good, AllTold, Ordered
    <2>5. Flush(m) = Deliver(q, t)
      BY <1>2 DEF Flush
    <2>6. AllTold(q) /\ Ordered(q)
      BY <2>2 DEF Good, AllTold, Ordered
    <2>7. Below(q, t.from)
      BY <1>2, <2>2, <2>3 DEF Good, Ordered, Below
    <2> HIDE DEF q, t, d
    <2>8. /\ Good(Deliver(q, t), t.to) /\ Deliver(q, t).delayed.str = <<>>
      BY <2>2, <2>3, <2>4, <2>6, <2>7, DeliverGood DEF Good
    <2>9. d.to \in Nat /\ d.to <= at
      BY <1>2, <2>1 DEF Good, Below, d, Delays
    <2>10. Good(Deliver(q, t), at)
      BY <2>3, <2>8, <2>9, GoodLater
    <2>11. ASSUME Covered(m, at) PROVE Covered(Deliver(q, t), at)
      <3>1. PICK r : r = Deliver(q, t)
        OBVIOUS
      <3>2. PICK ts \in Seq(Spelled) : ts = m.tokens
        BY <2>1 DEF Changed
      <3>3. r.tokens = Append(ts, t) /\ r \in Changed
        BY <2>2, <2>8, <3>1, <3>2 DEF Deliver, Changed, Good
      <3>4. PICK us \in Seq(Spelled) : us = r.tokens
        BY <3>3 DEF Changed
      <3>5. Len(us) = Len(ts) + 1 /\ us[Len(ts) + 1] = t /\ \A k \in 1..Len(ts) : us[k] = ts[k]
        BY <2>3, <3>3, <3>4
      <3>6. ASSUME NEW k \in 0..Len(re) - 1, k < at PROVE Within(us, k) \/ Ignored(k)
        <4>1. Within(ts, k) => Within(us, k)
          BY <3>5 DEF Within
        <4>2. Waits(m, k) => Within(us, k)
          <5>1. Waits(m, k) => k \in t.from..t.to - 1
            BY <2>3 DEF Waits, d
          <5>2. Len(ts) + 1 \in DOMAIN us
            BY <3>5
          <5> QED BY <3>5, <5>1, <5>2 DEF Within
        <4> QED BY <2>11, <3>2, <3>6, <4>1, <4>2 DEF Covered
      <3> QED BY <3>1, <3>4, <3>6 DEF Covered
    <2> QED BY <2>5, <2>8, <2>10, <2>11
  <1> QED BY <1>1, <1>2

\* A sequence of more than one has others before its last.
LEMMA OneMore ==
  ASSUME NEW str \in Seq(Codes), NEW c \in Codes
  PROVE  /\ Append(str, c) \in Seq(Codes) /\ Append(str, c) # <<>>
         /\ Len(Append(str, c)) > 1 => str # <<>>
  <1>1. /\ Append(str, c) \in Seq(Codes) /\ Append(str, c) # <<>>
        /\ Len(Append(str, c)) = Len(str) + 1
    BY AppendProperties
  <1>2. str = <<>> => Len(str) = 0
    OBVIOUS
  <1> QED BY <1>1, <1>2

(* An ordinary character is delayed, until last is read.                   *)
LEMMA AddGood ==
  ASSUME NEW m, NEW c \in Codes, NEW last \in Nat, i \in Nat, i <= last, Good(m, i),
         m.delayed.str # <<>> => Ch(last + 1) \notin Repeaters
  PROVE  /\ Good(Add(m, c, last), last + 1)
         /\ Covered(m, i) => Covered(Add(m, c, last), last + 1)
  <1> DEFINE r == Add(m, c, last)
  <1>1. m \in Changed
    BY DEF Good
  <1>2. PICK d \in Delays : d = m.delayed
    BY <1>1 DEF Changed
  <1>3. d.str \in Seq(Codes) /\ d.from \in Nat /\ d.to \in Nat
    BY DEF Delays
  <1>4. PICK e : e = [str |-> Append(d.str, c), to |-> last + 1,
                      from |-> IF d.str = <<>> THEN i ELSE d.from]
    OBVIOUS
  <1>5. /\ e \in Delays /\ e.str # <<>> /\ e.to = last + 1
        /\ Len(e.str) > 1 => d.str # <<>>
        /\ e.from = IF d.str = <<>> THEN i ELSE d.from
    <2>1. /\ Append(d.str, c) \in Seq(Codes) /\ Append(d.str, c) # <<>>
          /\ Len(Append(d.str, c)) > 1 => d.str # <<>>
      BY <1>3, OneMore
    <2>2. e.str = Append(d.str, c) /\ e.to = last + 1 /\ e.from = IF d.str = <<>> THEN i ELSE d.from
      BY <1>4
    <2>3. e.str # <<>> /\ (Len(e.str) > 1 => d.str # <<>>)
      BY <2>1, <2>2
    <2>4. e.from \in Nat /\ e.to \in Nat
      BY <1>3, <2>2
    <2> QED BY <1>4, <2>1, <2>2, <2>3, <2>4 DEF Delays
  <1>6. r.delayed = e /\ r.tokens = m.tokens /\ r \in Changed
    <2>1. r = [m EXCEPT !.delayed = e]
      BY <1>2, <1>4 DEF Add
    <2> HIDE DEF r
    <2> QED BY <1>1, <1>5, <2>1 DEF Changed
  <1> HIDE DEF r
  <1>7. d.str # <<>> => d.from <= d.to /\ d.to <= i
    BY <1>2 DEF Good, Ordered, Below
  <1>8. PICK ts \in Seq(Spelled) : ts = m.tokens
    BY <1>1 DEF Changed
  <1>9. \A k \in DOMAIN ts : ts[k].to \in Nat /\ ts[k].to <= i
    <2>1. \A k \in DOMAIN ts : ts[k] \in Spelled
      OBVIOUS
    <2> QED BY <1>8, <2>1 DEF Good, Below, Spelled
  <1>10. AllTold(r)
    BY <1>2, <1>5, <1>6 DEF Good, AllTold
  <1>11. Ordered(r)
    <2>1. \A k \in DOMAIN ts : ts[k].to <= e.from
      BY <1>2, <1>5, <1>8, <1>9 DEF Good, Ordered
    <2>2. e.from <= e.to
      BY <1>3, <1>5, <1>7
    <2> QED BY <1>6, <1>8, <2>1, <2>2 DEF Good, Ordered
  <1>12. Below(r, last + 1)
    BY <1>5, <1>6, <1>8, <1>9 DEF Below
  <1>13. ASSUME Covered(m, i) PROVE Covered(r, last + 1)
    <2>1. SUFFICES ASSUME NEW k \in 0..Len(re) - 1, k < last + 1
                   PROVE  Within(r.tokens, k) \/ Waits(r, k) \/ Ignored(k)
      BY DEF Covered
    <2>2. CASE k < i
      <3>1. Waits(m, k) => Waits(r, k)
        BY <1>2, <1>3, <1>5, <1>6, <1>7, <2>1 DEF Waits
      <3> QED BY <1>6, <1>13, <2>2, <3>1 DEF Covered
    <2>3. CASE ~(k < i)
      BY <1>3, <1>5, <1>6, <1>7, <2>1, <2>3 DEF Waits
    <2> QED BY <2>2, <2>3
  <1> QED BY <1>6, <1>10, <1>11, <1>12, <1>13 DEF r, Good

\* An ordinary character is delayed, after a flush if it is repeated.
LEMMA DelayGood ==
  ASSUME IInv, NEW c \in Codes, NEW last \in Nat, i <= last
  PROVE  /\ Good(Delay(c, last), last + 1)
         /\ ok /\ error_message = "" => Covered(Delay(c, last), last + 1)
  <1>1. Good(Now, i) /\ i \in Nat /\ (ok /\ error_message = "" => Covered(Now, i))
    BY DEF IInv, TypeOK
  <1>2. CASE Ch(last + 1) \in Repeaters
    BY <1>1, <1>2, FlushGood, AddGood DEF Delay
  <1>3. CASE Ch(last + 1) \notin Repeaters
    BY <1>1, <1>3, AddGood DEF Delay
  <1> QED BY <1>2, <1>3

(* What is special is told after the delayed literal.                      *)
LEMMA FlushAndGood ==
  ASSUME IInv, NEW t \in Spelled, t.from = i, Told(t)
  PROVE  /\ Good(FlushAnd(t), t.to) /\ FlushAnd(t).delayed.str = <<>>
         /\ ok /\ error_message = "" => Covered(FlushAnd(t), t.to)
  <1>1. Good(Now, i) /\ i \in Nat /\ (ok /\ error_message = "" => Covered(Now, i))
    BY DEF IInv, TypeOK
  <1>2. /\ Good(Flush(Now), i) /\ Flush(Now).delayed.str = <<>>
        /\ ok /\ error_message = "" => Covered(Flush(Now), i)
    BY <1>1, FlushGood
  <1> QED BY <1>2, DeliverGood DEF FlushAnd
----------------------------------------------------------------------------
\* What is looked for is found from where the search begins.
LEMMA LeastInRange ==
  ASSUME NEW S, NEW k \in Int, NEW n \in Int, S \subseteq k..n, 0 <= k, S # {}
  PROVE  Min(S) \in S /\ \A j \in S : Min(S) <= j
  <1>1. S \in SUBSET Nat
    OBVIOUS
  <1>2. \E x \in S : \A y \in S : x <= y
    BY <1>1, LeastNatural
  <1> QED BY <1>2 DEF Min

\* What is found lies between the start of the search and the end of the text.
LEMMA FindIs ==
  ASSUME NEW k \in Nat, NEW ch, TypeOK
  PROVE  Find(k, ch) = -1 \/ (Find(k, ch) \in Nat /\ k <= Find(k, ch) /\ Find(k, ch) < Len(re))
  <1> DEFINE S == {j \in k..Len(re) - 1 : Ch(j) = ch}
  <1>1. Len(re) \in Nat
    BY DEF TypeOK
  <1>2. CASE S = {}
    BY <1>2 DEF Find
  <1>3. CASE S # {}
    <2>1. Find(k, ch) = Min(S)
      BY <1>3 DEF Find
    <2>2. S \subseteq k..Len(re) - 1 /\ 0 <= k /\ k \in Int /\ Len(re) - 1 \in Int
      BY <1>1
    <2> HIDE DEF S
    <2>3. Min(S) \in S
      BY <1>3, <2>2, LeastInRange
    <2>4. Min(S) \in k..Len(re) - 1
      BY <2>2, <2>3
    <2> QED BY <1>1, <2>1, <2>4
  <1> QED BY <1>2, <1>3

\* Before what is found, or anywhere if it is not, there is none.
LEMMA FindIsFirst ==
  ASSUME NEW k \in Nat, NEW ch, TypeOK, NEW j \in Nat, k <= j, j < Len(re),
         Find(k, ch) = -1 \/ j < Find(k, ch)
  PROVE  Ch(j) # ch
  <1> DEFINE S == {n \in k..Len(re) - 1 : Ch(n) = ch}
  <1>1. Len(re) \in Nat
    BY DEF TypeOK
  <1>2. j \in k..Len(re) - 1
    BY <1>1
  <1>3. CASE S = {}
    BY <1>2, <1>3
  <1>4. CASE S # {}
    <2>1. Find(k, ch) = Min(S)
      BY <1>4 DEF Find
    <2>2. S \subseteq k..Len(re) - 1 /\ 0 <= k /\ k \in Int /\ Len(re) - 1 \in Int
      BY <1>1
    <2>3. j \notin S
      <3> HIDE DEF S
      <3>1. Min(S) \in S /\ \A n \in S : Min(S) <= n
        BY <1>4, <2>2, LeastInRange
      <3>2. Min(S) \in k..Len(re) - 1
        BY <2>2, <3>1
      <3> QED BY <1>2, <2>1, <3>1, <3>2
    <2> QED BY <1>2, <2>3
  <1> QED BY <1>3, <1>4

\* All that is passed over is among the characters to pass over.
LEMMA PastIs ==
  ASSUME NEW X, NEW s \in Seq(X), NEW k \in 1..Len(s) + 1, NEW chars
  PROVE  /\ Past(s, k, chars) \in k..Len(s) + 1
         /\ \A j \in k..Past(s, k, chars) - 1 : s[j] \in chars
  <1> DEFINE S == {j \in k..Len(s) + 1 : j = Len(s) + 1 \/ s[j] \notin chars}
  <1>1. Len(s) \in Nat /\ Len(s) + 1 \in S
    OBVIOUS
  <1>2. Min(S) \in S /\ \A j \in S : Min(S) <= j
    <2>1. S \subseteq k..Len(s) + 1 /\ S # {} /\ 0 <= k /\ k \in Int /\ Len(s) + 1 \in Int
      BY <1>1
    <2> HIDE DEF S
    <2> QED BY <2>1, LeastInRange
  <1>3. Past(s, k, chars) = Min(S)
    BY DEF Past
  <1>4. ASSUME NEW j \in k..Min(S) - 1 PROVE s[j] \in chars
    <2>1. j \notin S /\ j \in k..Len(s) + 1
      <3> HIDE DEF S
      <3>1. Min(S) \in k..Len(s) + 1
        BY <1>2 DEF S
      <3> QED BY <1>1, <1>2, <3>1
    <2> QED BY <2>1
  <1> HIDE DEF S
  <1>5. Min(S) \in k..Len(s) + 1
    BY <1>2 DEF S
  <1> QED BY <1>3, <1>4, <1>5

----------------------------------------------------------------------------
\* Reading numbers gives numbers.
LEMMA DigitsAreNumbers == \A d \in DOMAIN DigitValue : DigitValue[d] \in Int
  <1>1. DigitValue \in [DOMAIN DigitValue -> Nat]
    BY RxScanAssumption, Zenon
  <1>2. \A d \in DOMAIN DigitValue : DigitValue[d] \in Nat
    BY <1>1, Zenon
  <1> QED BY <1>2

\* A sequence of digits has a value: by induction over its length.
LEMMA ValueIs ==
  ASSUME NEW X, NEW s \in Seq(X), NEW radix \in Int, \A k \in 1..Len(s) : s[k] \in DOMAIN DigitValue
  PROVE  ValueOf(s, radix) \in Int
  <1> DEFINE N == Len(s)
             Recursion(v) == v = [k \in 0..Len(s) |->
                IF k = 0 THEN 0 ELSE v[k - 1] * radix + DigitValue[s[k]]]
             step == [k \in 1..N |-> [x \in Int |-> x * radix + DigitValue[s[k]]]]
  <1>1. N \in Nat
    OBVIOUS
  <1>2. step \in [1..N -> [Int -> Int]]
    <2>1. \A k \in 1..N : DigitValue[s[k]] \in Int
      BY DigitsAreNumbers
    <2>2. ASSUME NEW k \in 1..N, NEW x \in Int PROVE x * radix + DigitValue[s[k]] \in Int
      BY <2>1
    <2> QED BY <2>2
  <1>3. \E v : Recursion(v)
    <2> HIDE DEF step, N
    <2>1. PICK v \in [0..N -> Int] : v[0] = 0 /\ \A k \in 1..N : v[k] = step[k][v[k - 1]]
      <3>1. 0 \in Int /\ step \in Steps(N, Int)
        BY <1>2 DEF Steps
      <3>2. \E v \in [0..N -> Int] : RunsThrough(v, 0, N, step)
        BY <1>1, <3>1, FollowingExists
      <3> QED BY <3>2 DEF RunsThrough
    <2> DEFINE next(k) == IF k = 0 THEN 0 ELSE v[k - 1] * radix + DigitValue[s[k]]
    <2>2. ASSUME NEW k \in 0..N PROVE v[k] = next(k)
      <3>1. k = 0 \/ (k \in 1..N /\ v[k - 1] \in Int)
        <4>1. CASE k # 0
          <5>1. k \in 1..N /\ k - 1 \in 0..N
            BY <1>1, <4>1
          <5>2. v[k - 1] \in Int
            BY <2>1, <5>1, Zenon
          <5> QED BY <5>1, <5>2
        <4> QED BY <4>1
      <3> QED BY <2>1, <3>1 DEF step
    <2>3. v = [k \in 0..N |-> v[k]]
      BY Zenon
    <2>4. v = [k \in 0..N |-> next(k)]
      <3> HIDE DEF next
      <3> QED BY <2>2, <2>3
    <2>5. Recursion(v)
      BY <2>4, Zenon DEF N
    <2> QED BY <2>5
  <1>4. PICK v : Recursion(v) /\ ValueOf(s, radix) = v[N]
    <2> HIDE DEF step
    <2> DEFINE w == CHOOSE v : Recursion(v)
    <2>1. Recursion(w)
      BY <1>3
    <2>2. ValueOf(s, radix) = w[N]
      BY DEF ValueOf
    <2> QED BY <2>1, <2>2
  <1>5. \A k \in 0..N : v[k] = IF k = 0 THEN 0 ELSE v[k - 1] * radix + DigitValue[s[k]]
    BY <1>4, Zenon
  <1> DEFINE S == {k \in Nat : k <= N => v[k] \in Int}
  <1>6. 0 \in S
    BY <1>5
  <1>7. ASSUME NEW k \in S PROVE k + 1 \in S
    <2>1. CASE k + 1 <= N
      <3>1. v[k + 1] = v[k] * radix + DigitValue[s[k + 1]]
        BY <1>1, <1>5, <2>1
      <3>2. v[k] \in Int /\ DigitValue[s[k + 1]] \in Int
        BY <1>1, <2>1, DigitsAreNumbers
      <3> QED BY <3>1, <3>2
    <2> QED BY <2>1
  <1>8. S = Nat
    <2>1. S \in SUBSET Nat
      OBVIOUS
    <2> HIDE DEF S
    <2> QED BY <1>6, <1>7, <2>1, NaturalsByInduction
  <1>9. N \in S
    <2> HIDE DEF S, N
    <2> QED BY <1>1, <1>8
  <1>10. v[N] \in Int
    BY <1>1, <1>9
  <1> QED BY <1>4, <1>10

Numbers == [value : Int, scanned : Int, error : {"", "no digits", "not a number", "trailing text", "overflow"}]

\* What an int32_t holds is a number.
LEMMA Int32Is == ASSUME NEW x \in Int PROVE Int32(x) \in Int
  <1>1. PICK size \in Nat \ {0} : size = IntSize
    BY WidthAssumption
  <1>2. PICK half \in Int : half = size \div 2
    OBVIOUS
  <1>3. (x + half) % size \in Int
    OBVIOUS
  <1>4. ((x + half) % size) - half \in Int
    BY <1>3
  <1> QED BY <1>1, <1>2, <1>4 DEF Int32

\* asInt32 answers a number, an error and how far it read.
LEMMA AsIntIs ==
  ASSUME NEW X, NEW s \in Seq(X), NEW radix \in Int
  PROVE  AsInt(s, radix) \in Numbers
  <1>1. Len(s) \in Nat
    OBVIOUS
  <1>2. PICK k \in 1..Len(s) + 1 : k = Past(s, 1, White)
    BY <1>1, PastIs
  <1> DEFINE signed == k <= Len(s) /\ s[k] \in {"+", "-"}
             start == IF signed THEN Past(s, k + 1, White) ELSE k
             sign == IF signed /\ s[k] = "-" THEN -1 ELSE 1
             end == Past(s, start, DigitsOf(radix))
  <1>3. start \in 1..Len(s) + 1
    <2>1. CASE signed
      <3>1. k + 1 \in 1..Len(s) + 1
        BY <1>1, <2>1
      <3>2. Past(s, k + 1, White) \in k + 1..Len(s) + 1
        BY <3>1, PastIs
      <3> QED BY <1>1, <2>1, <3>2
    <2>2. CASE ~signed
      BY <2>2
    <2> QED BY <2>1, <2>2
  <1>4. sign \in Int
    OBVIOUS
  <1>5. AsInt(s, radix) = Digits(s, radix, sign, start, end)
    BY <1>2 DEF AsInt, Signed
  <1> HIDE DEF signed, start, sign, end
  <1>6. end \in start..Len(s) + 1 /\ \A j \in start..end - 1 : s[j] \in DigitsOf(radix)
    BY <1>3, PastIs DEF end
  <1>7. Digits(s, radix, sign, start, end) \in Numbers
    <2>1. CASE start > Len(s) \/ start = end
      <3>1. PICK n \in Int : n = start
        BY <1>1, <1>3
      <3>2. /\ Number(0, n, "no digits") \in Numbers
            /\ Number(0, n, "not a number") \in Numbers
        BY DEF Number, Numbers
      <3>3. \/ Digits(s, radix, sign, start, end) = Number(0, n, "no digits")
            \/ Digits(s, radix, sign, start, end) = Number(0, n, "not a number")
        BY <2>1, <3>1 DEF Digits
      <3> QED BY <3>2, <3>3
    <2>2. CASE ~(start > Len(s)) /\ start # end
      <3>1. PICK digits \in Seq(X) : /\ digits = SubSeq(s, start, end - 1)
                                     /\ \A j \in 1..Len(digits) : digits[j] \in DOMAIN DigitValue
        <4>1. start \in 1..Len(s) + 1 /\ end - 1 \in Int /\ start - 1 <= end - 1 /\ end - 1 <= Len(s)
          BY <1>1, <1>3, <1>6
        <4>2. PICK e \in Int : e = end - 1
          BY <4>1
        <4>3. SubSeq(s, start, e) \in Seq(X)
          BY <1>1, <4>1, <4>2
        <4>4. \A j \in 1..Len(SubSeq(s, start, e)) :
                 /\ start + j - 1 \in start..e
                 /\ SubSeq(s, start, e)[j] = s[start + j - 1]
          BY <1>1, <4>1, <4>2
        <4>5. \A j \in 1..Len(SubSeq(s, start, e)) : SubSeq(s, start, e)[j] \in DOMAIN DigitValue
          BY <1>6, <4>2, <4>4 DEF DigitsOf
        <4> QED BY <4>2, <4>3, <4>5
      <3>2. ValueOf(digits, radix) \in Int
        BY <3>1, ValueIs
      <3>3. Past(s, end, White) \in Int
        <4>1. end \in 1..Len(s) + 1
          BY <1>3, <1>6
        <4>2. Past(s, end, White) \in end..Len(s) + 1
          BY <4>1, PastIs
        <4> QED BY <4>1, <4>2
      <3>4. PICK l \in Int : l = ValueOf(SubSeq(s, start, end - 1), radix)
        BY <3>1, <3>2
      <3>5. Gathered(l, sign, Past(s, end, White), Len(s)) \in Numbers
        <4>1. sign * l \in Int
          BY <1>4
        <4>2. Int32(sign * l) \in Int
          BY <4>1, Int32Is
        <4> QED BY <3>3, <4>2 DEF Gathered, Number, Numbers
      <3> DEFINE over == Overflows(s, radix, start, end)
      <3>6. CASE over # {}
        <4>1. over \subseteq start..end - 1 /\ 0 <= start /\ start \in Int /\ end - 1 \in Int
          BY <1>1, <1>3, <1>6 DEF Overflows
        <4>2. Min(over) \in over
          <5> HIDE DEF over
          <5> QED BY <3>6, <4>1, LeastInRange
        <4>3. PICK n \in Int : n = Min(over)
          BY <4>1, <4>2
        <4>4. Number(0, n + 1, "overflow") \in Numbers
          BY DEF Number, Numbers
        <4>5. Digits(s, radix, sign, start, end) = Number(0, n + 1, "overflow")
          BY <2>2, <3>6, <4>3 DEF Digits
        <4> QED BY <4>4, <4>5
      <3>7. CASE over = {}
        <4>1. Digits(s, radix, sign, start, end) = Gathered(l, sign, Past(s, end, White), Len(s))
          BY <2>2, <3>4, <3>7 DEF Digits
        <4> QED BY <3>5, <4>1
      <3> QED BY <3>6, <3>7
    <2> QED BY <2>1, <2>2
  <1> QED BY <1>5, <1>7

----------------------------------------------------------------------------
\* Characters and parts of the text.
LEMMA ChIs == ASSUME TypeOK, NEW k \in Nat PROVE Ch(k) \in Codes
  <1>1. CASE k < Len(re)
    <2>1. k + 1 \in 1..Len(re) /\ re \in Seq(Characters)
      BY <1>1 DEF TypeOK
    <2>2. re[k + 1] \in Characters
      BY <2>1
    <2> HIDE DEF Characters
    <2> QED BY <1>1, <2>2 DEF Ch, Codes
  <1>2. CASE ~(k < Len(re))
    BY <1>2 DEF Ch, Codes
  <1> QED BY <1>1, <1>2

\* A part of the text consists of its characters.
LEMMA SliceIs ==
  ASSUME TypeOK, NEW k \in Nat, NEW to \in Nat, to <= Len(re)
  PROVE  Slice(k, to) \in Seq(Characters) /\ Slice(k, to) \in Seq(Codes)
  <1>1. re \in Seq(Characters) /\ Characters \subseteq Codes
    BY DEF TypeOK, Codes
  <1>2. PICK j \in Nat \ {0} : j = k + 1
    OBVIOUS
  <1> HIDE DEF Characters, Codes
  <1>3. SubSeq(re, j, to) \in Seq(Characters)
    BY <1>1, <1>2
  <1>4. PICK t \in Seq(Characters) : t = Slice(k, to)
    BY <1>2, <1>3 DEF Slice
  <1>5. t \in Seq(Codes)
    <2>1. Len(t) \in Nat /\ \A n \in 1..Len(t) : t[n] \in Codes
      BY <1>1
    <2>2. t = [n \in 1..Len(t) |-> t[n]]
      OBVIOUS
    <2> QED BY <2>1, <2>2, SeqDef
  <1> QED BY <1>4, <1>5

Classes(k) == [at : {n \in Nat : k <= n}, str : Seq(Codes)]

\* Another pair of a class takes the scanner no further back.
LEMMA ClassPairIs ==
  ASSUME TypeOK, NEW k \in Nat, NEW class \in Classes(k)
  PROVE  ClassPair(class) \in Classes(k)
  <1>1. PICK at \in Nat, str \in Seq(Codes) : k <= at /\ class.at = at /\ class.str = str
    BY DEF Classes
  <1>2. PICK start \in Nat : start = Unescaped(at) /\ at <= start
    BY DEF Unescaped
  <1>3. PICK end \in Nat : /\ end = IF IsRange(start) THEN Unescaped(start + 2) ELSE start
                           /\ start <= end
    BY DEF Unescaped
  <1>4. ClassRange(start, end, str) \in Classes(k)
    <2>1. PICK a \in Codes, b \in Codes : a = Ch(start) /\ b = Ch(end)
      BY ChIs
    <2>2. str \o <<a, b>> \in Seq(Codes)
      OBVIOUS
    <2>3. ClassRange(start, end, str) =
            IF a = "" \/ b = "" THEN [at |-> end, str |-> str]
            ELSE [at |-> end + 1, str |-> str \o <<a, b>>]
      BY <2>1 DEF ClassRange
    <2>4. k <= end /\ k <= end + 1
      BY <1>1, <1>2, <1>3
    <2>5. [at |-> end, str |-> str] \in Classes(k)
      BY <2>4 DEF Classes
    <2>6. [at |-> end + 1, str |-> str \o <<a, b>>] \in Classes(k)
      BY <2>2, <2>4 DEF Classes
    <2> QED BY <2>3, <2>5, <2>6
  <1>5. ClassPair(class) = class \/ ClassPair(class) = ClassRange(start, end, str)
    BY <1>1, <1>2, <1>3 DEF ClassPair
  <1> QED BY <1>4, <1>5

\* However many pairs it has, a class ends where it began or later.
LEMMA ClassFromIs ==
  ASSUME TypeOK, NEW k \in Nat, NEW str \in Seq(Codes)
  PROVE  ClassFrom(k, str) \in Classes(k)
  <1> DEFINE N == Len(re)
             first == [at |-> k, str |-> str]
             Recursion(c) == c = [n \in 0..Len(re) |-> IF n = 0 THEN [at |-> k, str |-> str]
                                                       ELSE ClassPair(c[n - 1])]
             step == [n \in 1..N |-> [c \in Classes(k) |-> ClassPair(c)]]
  <1>1. N \in Nat
    BY DEF TypeOK
  <1>2. first \in Classes(k)
    BY DEF Classes
  <1>3. step \in Steps(N, Classes(k))
    BY ClassPairIs DEF Steps
  <1>4. PICK c \in [0..N -> Classes(k)] : Recursion(c)
    <2>1. PICK c \in [0..N -> Classes(k)] : RunsThrough(c, first, N, step)
      <3> HIDE DEF step, first, N
      <3> QED BY <1>1, <1>2, <1>3, FollowingExists
    <2> DEFINE next(n) == IF n = 0 THEN first ELSE ClassPair(c[n - 1])
    <2>2. ASSUME NEW n \in 0..N PROVE c[n] = next(n)
      <3>1. c[0] = first
        BY <2>1 DEF RunsThrough
      <3>2. CASE n # 0
        <4> HIDE DEF N
        <4>1. n \in 1..N /\ n - 1 \in 0..N
          BY <1>1, <3>2
        <4>2. c[n - 1] \in Classes(k)
          BY <4>1, Zenon
        <4>3. c[n] = step[n][c[n - 1]]
          BY <2>1, <4>1 DEF RunsThrough
        <4> QED BY <3>2, <4>1, <4>2, <4>3
      <3> QED BY <3>1, <3>2
    <2>3. c = [n \in 0..N |-> c[n]]
      BY Zenon
    <2>4. c = [n \in 0..N |-> next(n)]
      <3> HIDE DEF next, N
      <3> QED BY <2>2, <2>3
    <2> QED BY <2>4, Zenon
  <1> HIDE DEF step
  <1>5. \A d : Recursion(d) => d[N] \in Classes(k)
    <2>1. SUFFICES ASSUME NEW d, Recursion(d) PROVE d[N] \in Classes(k)
      OBVIOUS
    <2>2. \A n \in 0..N : d[n] = IF n = 0 THEN first ELSE ClassPair(d[n - 1])
      BY <2>1, Zenon
    <2> DEFINE S == {n \in Nat : n <= N => d[n] \in Classes(k)}
    <2> HIDE DEF N, first
    <2>3. 0 \in S
      BY <1>1, <1>2, <2>2
    <2>4. ASSUME NEW n \in S PROVE n + 1 \in S
      <3>1. CASE n + 1 <= N
        <4>1. d[n + 1] = ClassPair(d[n]) /\ d[n] \in Classes(k)
          BY <1>1, <2>2, <3>1
        <4> QED BY <4>1, ClassPairIs
      <3> QED BY <3>1
    <2>5. S = Nat
      <3>1. S \in SUBSET Nat
        OBVIOUS
      <3> HIDE DEF S
      <3> QED BY <2>3, <2>4, <3>1, NaturalsByInduction
    <2>6. N \in S
      <3> HIDE DEF S
      <3> QED BY <1>1, <2>5
    <2> QED BY <1>1, <2>6
  <1>6. ClassFrom(k, str) = (CHOOSE d : Recursion(d))[N]
    BY DEF ClassFrom
  <1>7. Recursion(CHOOSE d : Recursion(d))
    <2> HIDE DEF Recursion
    <2> QED BY <1>4
  <1> HIDE DEF Recursion
  <1> QED BY <1>5, <1>6, <1>7

\* The same for the whole class, whose first character may be a - or a ].
LEMMA ClassIs == ASSUME TypeOK, NEW k \in Nat PROVE Class(k) \in Classes(k)
  <1>1. <<>> \in Seq(Codes) /\ <<Ch(k), Ch(k)>> \in Seq(Codes)
    BY ChIs, EmptySeq
  <1>2. ClassFrom(k, <<>>) \in Classes(k)
    BY <1>1, ClassFromIs
  <1>3. ClassFrom(k + 1, <<Ch(k), Ch(k)>>) \in Classes(k)
    <2>1. ClassFrom(k + 1, <<Ch(k), Ch(k)>>) \in Classes(k + 1)
      <3>1. PICK j \in Nat, str \in Seq(Codes) : j = k + 1 /\ str = <<Ch(k), Ch(k)>>
        <4>1. k + 1 \in Nat
          OBVIOUS
        <4> QED BY <1>1, <4>1
      <3> QED BY <3>1, ClassFromIs
    <2>2. Classes(k + 1) \subseteq Classes(k)
      BY DEF Classes
    <2> QED BY <2>1, <2>2
  <1> QED BY <1>2, <1>3 DEF Class

----------------------------------------------------------------------------
(* Turns of the loop.                                                      *)
Running == returned = ""
Keeps(message) == message = "" => error_message = ""
Fails(message) == message # ""

\* A step that takes over m takes over what is good of it.
LEMMA GoodNext ==
  ASSUME NEW m, NEW at \in Nat, Good(m, at), i' = at, re' = re, features_enabled' = features_enabled,
         tokens' = m.tokens, delayed' = m.delayed, ok' = m.ok
  PROVE  Good(Now, i)' /\ (Covered(m, at) => Covered(Now, i)')
  <1>1. m = [tokens |-> tokens', delayed |-> delayed', ok |-> ok']
    <2>1. m \in Changed
      BY DEF Good
    <2> QED BY <2>1 DEF Changed
  <1>2. Now' = m
    BY <1>1 DEF Now
  <1>3. AllTold(Now)'
    BY <1>2 DEF Good, AllTold, Told, Ch
  <1>4. Ordered(Now)'
    BY <1>2 DEF Good, Ordered
  <1>5. Below(Now, i)'
    BY <1>2 DEF Good, Below
  <1>6. (Now \in Changed)'
    BY <1>2 DEF Good
  <1>7. Covered(m, at) => Covered(Now, i)'
    BY <1>2 DEF Covered, Within, Waits, Ignored, InComment, Enabled, Ch
  <1> QED BY <1>3, <1>4, <1>5, <1>6, <1>7 DEF Good

\* A turn of the loop keeps the invariant if what it takes over is good.
LEMMA TurnGood ==
  ASSUME IInv, Running, NEW m, NEW last, last + 1 \in Nat, NEW message,
         Turn(m, last, message), Good(m, last + 1),
         m.ok /\ message = "" => Covered(m, last + 1)
  PROVE  IInv'
  <1>1. PICK at \in Nat : at = last + 1
    OBVIOUS
  <1>2. /\ i' = at /\ re' = re /\ features_enabled' = features_enabled /\ returned' = ""
        /\ error_message' = message /\ ok' = m.ok
        /\ tokens' = m.tokens /\ delayed' = m.delayed
    BY <1>1 DEF Turn, config, Running
  <1>3. TypeOK'
    BY <1>2 DEF IInv, TypeOK
  <1>4. NothingLost'
    BY <1>2 DEF NothingLost
  <1>5. Good(m, at)
    BY <1>1
  <1>6. Good(Now, i)' /\ (Covered(m, at) => Covered(Now, i)')
    BY <1>2, <1>5, GoodNext
  <1>7. (ok /\ error_message = "" => Covered(Now, i))'
    BY <1>1, <1>2, <1>6
  <1> QED BY <1>3, <1>4, <1>6, <1>7 DEF IInv

\* So does one whose flush is refused,
LEMMA RefusedTurn ==
  ASSUME IInv, Running, Refused
  PROVE  IInv'
  <1>1. Good(Flush(Now), i) /\ i \in Nat /\ ~Flush(Now).ok
    BY FlushGood DEF IInv, TypeOK, Refused
  <1>2. PICK last \in Nat : i <= last /\ Turn(Flush(Now), last, error_message)
    <2>1. i + 1 \in Nat /\ i <= i + 1 /\ i <= i
      BY <1>1
    <2> QED BY <1>1, <2>1 DEF Refused
  <1>3. PICK later \in Nat : later = last + 1 /\ i <= later
    BY <1>1, <1>2
  <1>4. Good(Flush(Now), later)
    BY <1>1, <1>3, GoodLater
  <1> QED BY <1>1, <1>2, <1>3, <1>4, TurnGood

\* one that finds an error,
LEMMA ErrorTurn ==
  ASSUME IInv, Running, NEW last, last + 1 \in Nat, i <= last + 1, NEW message, message # "",
         Error(last, message)
  PROVE  IInv'
  <1>1. Good(Flush(Now), i)
    BY FlushGood DEF IInv, TypeOK
  <1>2. Good(Flush(Now), last + 1)
    BY <1>1, GoodLater DEF IInv, TypeOK
  <1> QED BY <1>2, TurnGood, RefusedTurn DEF Error

\* one that delays a character,
LEMMA DelayTurn ==
  ASSUME IInv, Running, ok = TRUE, NEW c \in Codes, NEW last \in Nat, last + 1 \in Nat, i <= last,
         NEW message, Keeps(message), Turn(Delay(c, last), last, message)
  PROVE  IInv'
  <1>1. /\ Good(Delay(c, last), last + 1)
        /\ ok /\ error_message = "" => Covered(Delay(c, last), last + 1)
    BY DelayGood
  <1> QED BY <1>1, TurnGood DEF Keeps

\* one that tells a token after the flush,
LEMMA TokenTurn ==
  ASSUME IInv, Running, ok = TRUE, NEW op \in Ops \ {"Literal"}, NEW str \in Seq(Codes),
         NEW min \in Int, NEW max \in Int, NEW last \in Nat, last + 1 \in Nat, i <= last + 1,
         op = "Repetition" => Ch(i) \in Repeaters,
         NEW message, Keeps(message),
         Tell(Token(op, str, min, max, i, last + 1), last, message)
  PROVE  IInv'
  <1>1. PICK at \in Nat : at = last + 1
    OBVIOUS
  <1>2. PICK t : t = Token(op, str, min, max, i, at)
    OBVIOUS
  <1>3. t \in Spelled /\ t.op = op /\ t.from = i /\ t.to = at
    <2>1. i \in Nat
      BY DEF IInv, TypeOK
    <2> QED BY <1>2, <2>1 DEF Token, Spelled
  <1>4. Told(t)
    BY <1>1, <1>3 DEF Told
  <1>5. /\ Good(FlushAnd(t), at)
        /\ ok /\ error_message = "" => Covered(FlushAnd(t), at)
    BY <1>3, <1>4, FlushAndGood
  <1>6. CASE Turn(FlushAnd(t), last, message)
    <2>1. Good(FlushAnd(t), last + 1)
      BY <1>1, <1>5
    <2>2. FlushAnd(t).ok /\ message = "" => Covered(FlushAnd(t), last + 1)
      BY <1>1, <1>5 DEF Keeps
    <2> QED BY <1>6, <2>1, <2>2, TurnGood
  <1> QED BY <1>1, <1>2, <1>6, RefusedTurn DEF Tell

\* and one whose token has no text.
LEMMA SingleTurn ==
  ASSUME IInv, Running, ok = TRUE, NEW op \in Ops \ {"Literal"},
         NEW min \in Int, NEW max \in Int, NEW last \in Nat, last + 1 \in Nat, i <= last + 1,
         op = "Repetition" => Ch(i) \in Repeaters,
         NEW message, Keeps(message),
         Single(op, min, max, last, message)
  PROVE  IInv'
  <1>1. PICK str \in Seq(Codes) : str = <<>>
    BY EmptySeq
  <1>2. Tell(Token(op, str, min, max, i, last + 1), last, message)
    BY <1>1 DEF Single
  <1> QED BY <1>2, TokenTurn

\* While there are characters to read nothing was returned or refused.
LEMMA Reading ==
  ASSUME IInv, NEW chars, At(chars)
  PROVE  /\ Running /\ ok = TRUE /\ TypeOK /\ i \in Nat /\ Len(re) \in Nat
         /\ i < Len(re) /\ Ch(i) \in chars
  <1>1. ok \in BOOLEAN
    BY DEF IInv, Good, Changed, Now
  <1>2. ok = TRUE
    BY <1>1, Zenon DEF At
  <1>3. TypeOK
    BY DEF IInv
  <1>4. Running /\ i < Len(re) /\ Ch(i) \in chars
    BY DEF At, Running
  <1> QED BY <1>2, <1>3, <1>4 DEF TypeOK

\* A message is never taken back.
LEMMA RejectionKeeps == ASSUME NEW features PROVE Keeps(Rejection(features)) /\ Keeps(error_message)
  BY DEF Keeps, Rejection

\* The numbers that are ends of what was read.
LEMMA Beyond ==
  ASSUME NEW k \in Nat
  PROVE  /\ k + 1 \in Nat /\ k + 2 \in Nat /\ k + 3 \in Nat /\ k <= k /\ k <= k + 1
         /\ k + 2 + 1 \in Nat /\ k + 1 + 1 \in Nat /\ k + 3 + 1 \in Nat
         /\ k <= k + 1 + 1 /\ k <= k + 2 + 1 /\ k <= k + 3 + 1 /\ k <= k + 2 /\ k <= k + 3
  OBVIOUS

(* Each of the actions.                                                    *)
LEMMA SimpleStep == ASSUME IInv, ScanSimple PROVE IInv'
  <1>1. Running /\ ok = TRUE /\ TypeOK /\ i \in Nat
    BY Reading DEF ScanSimple
  <1>2. PICK message : Keeps(message) /\ Turn(Delay(Ch(i), i), i, message)
    BY RejectionKeeps DEF ScanSimple
  <1>3. PICK c \in Codes : c = Ch(i)
    BY <1>1, ChIs
  <1>4. i + 1 \in Nat /\ i <= i
    BY <1>1, Beyond
  <1> QED BY <1>1, <1>2, <1>3, <1>4, DelayTurn

\* The tokens of one character, and that they are no literals.
LEMMA OneCharacter ==
  ASSUME IInv, NEW chars, At(chars), NEW op \in Ops \ {"Literal"}, NEW min \in Int, NEW max \in Int,
         op = "Repetition" => chars \subseteq Repeaters,
         Single(op, min, max, i, error_message)
  PROVE  IInv'
  <1>1. Running /\ ok = TRUE /\ i \in Nat /\ Ch(i) \in chars
    BY Reading
  <1>2. op = "Repetition" => Ch(i) \in Repeaters
    BY <1>1
  <1>3. i + 1 \in Nat /\ i <= i + 1
    BY <1>1, Beyond
  <1> QED BY <1>1, <1>2, <1>3, RejectionKeeps, SingleTurn

\* The ends of a line: ^ and $.
LEMMA LineStep == ASSUME IInv, ScanLine PROVE IInv'
  <1>1. /\ "BOL" \in Ops \ {"Literal"} /\ "EOL" \in Ops \ {"Literal"}
        /\ "BOL" # "Repetition" /\ "EOL" # "Repetition"
    BY DEF Ops
  <1> QED BY <1>1, OneCharacter DEF ScanLine, Special

\* Any character: a dot, or a ? in shell style.
LEMMA AnyStep == ASSUME IInv, ScanAny PROVE IInv'
  <1>1. "Any" \in Ops \ {"Literal"} /\ "Any" # "Repetition"
    BY DEF Ops
  <1> QED BY <1>1, OneCharacter DEF ScanAny

\* A repetition is not a literal.
LEMMA RepetitionIs == "Repetition" \in Ops \ {"Literal"}
  BY DEF Ops

\* A repetition of one character stands where the text repeats.
LEMMA RepetitionStep ==
  ASSUME IInv, NEW ch \in Repeaters, At({ch}), NEW min \in Int, NEW max \in Int,
         Single("Repetition", min, max, i, error_message)
  PROVE  IInv'
  <1>1. PICK op \in Ops \ {"Literal"} : op = "Repetition"
    BY RepetitionIs
  <1>2. {ch} \subseteq Repeaters
    OBVIOUS
  <1>3. Single(op, min, max, i, error_message)
    BY <1>1
  <1> QED BY <1>2, <1>3, OneCharacter

\* None or one: ?.
LEMMA OptionalStep == ASSUME IInv, ScanOptional PROVE IInv'
  <1>1. "?" \in Repeaters
    BY DEF Repeaters
  <1> QED BY <1>1, RepetitionStep DEF ScanOptional

\* One or more: +.
LEMMA PlusStep == ASSUME IInv, ScanPlus PROVE IInv'
  <1>1. "+" \in Repeaters
    BY DEF Repeaters
  <1> QED BY <1>1, RepetitionStep DEF ScanPlus, Special

\* None or more: *, which in shell style is told as two tokens.
LEMMA StarStep == ASSUME IInv, ScanStar PROVE IInv'
  <1>1. Running /\ ok = TRUE /\ TypeOK /\ i \in Nat /\ Ch(i) \in {"*"}
    BY Reading DEF ScanStar, Special
  <1>2. CASE ~(Enabled("ZeroOrMoreAny") /\ Flush(Now).ok)
    <2>1. "*" \in Repeaters
      BY DEF Repeaters
    <2> QED BY <1>2, <2>1, RepetitionStep DEF ScanStar, Special
  <1>3. CASE Enabled("ZeroOrMoreAny") /\ Flush(Now).ok
    <2>1. PICK at \in Nat : at = i + 1 /\ i <= at
      BY <1>1, Beyond
    <2>2. PICK any : any = Token("Any", <<>>, 0, 0, i, i)
      OBVIOUS
    <2>3. PICK star : star = Token("Repetition", <<>>, 0, 0, i, at)
      OBVIOUS
    <2>4. any \in Spelled /\ any.from = i /\ any.to = i /\ any.op = "Any"
      BY <1>1, <2>2, EmptySeq DEF Token, Spelled, Ops
    <2>5. star \in Spelled /\ star.from = i /\ star.to = at /\ star.op = "Repetition"
      BY <1>1, <2>3, EmptySeq DEF Token, Spelled, Ops
    <2>6. Told(any)
      BY <1>1, <2>4 DEF Told
    <2>7. Told(star)
      BY <1>1, <2>1, <2>5 DEF Told, Repeaters
    <2>8. PICK m : m = FlushAnd(any)
      OBVIOUS
    <2>9. Good(m, i) /\ m.delayed.str = <<>> /\ (ok /\ error_message = "" => Covered(m, i))
      BY <2>4, <2>6, <2>8, FlushAndGood
    <2>10. Good(Deliver(m, star), at) /\ (Covered(m, i) => Covered(Deliver(m, star), at))
      BY <2>5, <2>7, <2>9, DeliverGood
    <2>11. Turn(Deliver(m, star), i, error_message)
      BY <1>3, <2>1, <2>2, <2>3, <2>8 DEF ScanStar
    <2>12. Deliver(m, star).ok /\ error_message = "" => Covered(Deliver(m, star), at)
      BY <1>1, <2>9, <2>10
    <2> QED BY <1>1, <2>1, <2>10, <2>11, <2>12, TurnGood
  <1> QED BY <1>2, <1>3

\* A part of the text is read as a number.
LEMMA ValueOfNumber ==
  ASSUME TypeOK, NEW k \in Nat, NEW to \in Nat, to <= Len(re), NEW radix \in Int
  PROVE  AsInt(Slice(k, to), radix) \in Numbers
  BY SliceIs, AsIntIs

\* A counted repetition, with its counts as they are kept.
LEMMA CountedTurn ==
  ASSUME IInv, Running, ok = TRUE, Ch(i) \in Repeaters, NEW min \in Int, NEW max \in Int,
         NEW last \in Nat, i <= last, Counted(min, max, last)
  PROVE  IInv'
  <1>1. PICK n \in Int, x \in Int : n = min % RangeLimit /\ x = max % RangeLimit
    <2>1. RangeLimit \in Nat \ {0}
      BY RxScanAssumption, Zenon
    <2>2. PICK limit \in Nat \ {0} : limit = RangeLimit
      BY <2>1
    <2>3. min % limit \in Int /\ max % limit \in Int
      OBVIOUS
    <2> QED BY <2>2, <2>3
  <1>2. last + 1 \in Nat /\ i <= last + 1
    <2>1. i \in Nat
      BY DEF IInv, TypeOK
    <2> QED BY <2>1
  <1>3. Single("Repetition", n, x, last, error_message)
    BY <1>1 DEF Counted
  <1>4. PICK op \in Ops \ {"Literal"} : op = "Repetition"
    BY RepetitionIs
  <1>5. Single(op, n, x, last, error_message)
    BY <1>3, <1>4
  <1> QED BY <1>2, <1>5, RejectionKeeps, SingleTurn

\* A repetition whose counts are in error.
LEMMA BadTurn ==
  ASSUME IInv, Running, NEW last \in Nat, i <= last, BadRepetition(last)
  PROVE  IInv'
  <1>1. last + 1 \in Nat /\ i <= last + 1
    <2>1. i \in Nat
      BY DEF IInv, TypeOK
    <2> QED BY <2>1
  <1>2. PICK message : message = "Bad repetition count"
    OBVIOUS
  <1>3. message # ""
    BY <1>2
  <1>4. Error(last, message)
    BY <1>2 DEF BadRepetition
  <1> QED BY <1>1, <1>3, <1>4, ErrorTurn

\* A { with one or two counts, or an error.
LEMMA CountStep == ASSUME IInv, ScanCount PROVE IInv'
  <1>1. Running /\ ok = TRUE /\ TypeOK /\ i \in Nat /\ Len(re) \in Nat
    BY Reading DEF ScanCount, Special
  <1>6. Ch(i) \in Repeaters
    BY Reading DEF ScanCount, Special, Repeaters
  <1>2. PICK next \in Nat : next = i + 1 /\ i <= next
    BY <1>1, Beyond
  <1>3. Close = -1 \/ (Close \in Nat /\ next <= Close /\ Close < Len(re))
    BY <1>1, <1>2, FindIs DEF Close
  <1>4. CASE Close < 0 \/ BadNumber(Minimum) \/ Minimum.value < 0
    <2>1. BadRepetition(next)
      BY <1>2, <1>4 DEF ScanCount
    <2> QED BY <1>1, <1>2, <2>1, BadTurn
  <1>5. CASE ~(Close < 0 \/ BadNumber(Minimum) \/ Minimum.value < 0)
    <2>1. PICK close \in Nat : close = Close /\ next <= close /\ close < Len(re) /\ i <= close
      BY <1>1, <1>2, <1>3, <1>5
    <2>2. PICK min \in Int : min = Minimum.value
      <3>1. Number(0, 1, "").value \in Int
        BY DEF Number
      <3>2. AsInt(Slice(next, close), 10).value \in Int
        <4>1. AsInt(Slice(next, close), 10) \in Numbers
          BY <1>1, <2>1, ValueOfNumber
        <4> QED BY <4>1 DEF Numbers
      <3> QED BY <1>2, <2>1, <3>1, <3>2 DEF Minimum
    <2>3. CASE Ch(close) = "}"
      <3>1. Counted(min, min, close)
        BY <1>5, <2>1, <2>2, <2>3 DEF ScanCount
      <3> QED BY <1>1, <1>6, <2>1, <3>1, CountedTurn
    <2>4. CASE Ch(close) # "}"
      <3>1. PICK from \in Nat : from = close + 1 /\ i <= from
        BY <1>1, <2>1
      <3> DEFINE end == Find(from, "}")
                 Bad == \/ end < 0 \/ BadNumber(Maximum(end))
                        \/ Maximum(end).value # 0 /\ Maximum(end).value < min
      <3>2. end = -1 \/ (end \in Nat /\ from <= end /\ end < Len(re))
        BY <1>1, <3>1, FindIs
      <3>3. IF Bad THEN BadRepetition(from) ELSE Counted(min, Maximum(end).value, end)
        <4>1. LET last == Find(Close + 1, "}") IN
              IF \/ last < 0 \/ BadNumber(Maximum(last))
                 \/ Maximum(last).value # 0 /\ Maximum(last).value < Minimum.value
              THEN BadRepetition(Close + 1)
              ELSE Counted(Minimum.value, Maximum(last).value, last)
          BY <1>5, <2>1, <2>4, Zenon DEF ScanCount
        <4> QED BY <2>1, <2>2, <3>1, <4>1, Zenon
      <3> HIDE DEF end
      <3>4. CASE Bad
        BY <1>1, <3>1, <3>3, <3>4, BadTurn
      <3>5. CASE ~Bad
        <4>1. PICK to \in Nat : to = end /\ i <= to /\ to <= Len(re)
          BY <1>1, <3>1, <3>2, <3>5
        <4>2. PICK max \in Int : max = Maximum(end).value
          <5>1. AsInt(Slice(from, to), 10) \in Numbers
            BY <1>1, <3>1, <4>1, ValueOfNumber
          <5>2. Maximum(end) = AsInt(Slice(from, to), 10)
            BY <2>1, <3>1, <4>1 DEF Maximum
          <5> QED BY <5>1, <5>2 DEF Numbers
        <4>3. Counted(min, max, to)
          BY <3>3, <3>5, <4>1, <4>2
        <4> QED BY <1>1, <1>6, <4>1, <4>3, CountedTurn
      <3> QED BY <3>4, <3>5
    <2> QED BY <2>3, <2>4
  <1> QED BY <1>4, <1>5

\* A class that is closed is told, one that is not is an error.
LEMMA ClassedTurn ==
  ASSUME IInv, Running, ok = TRUE, NEW op \in Ops \ {"Literal", "Repetition"}, NEW k \in Nat,
         i <= k, Classed(op, Class(k))
  PROVE  IInv'
  <1>1. TypeOK /\ i \in Nat
    BY DEF IInv, TypeOK
  <1>2. PICK class \in Classes(k) : class = Class(k)
    BY <1>1, ClassIs
  <1>3. PICK last \in Nat, str \in Seq(Codes) : k <= last /\ class.at = last /\ class.str = str
    BY DEF Classes
  <1>4. last + 1 \in Nat /\ i <= last + 1
    BY <1>1, <1>3
  <1>5. CASE Ch(last) = "]"
    <2>1. Tell(Token(op, str, 0, 0, i, last + 1), last, error_message)
      BY <1>2, <1>3, <1>5 DEF Classed
    <2>2. 0 \in Int /\ op \in Ops \ {"Literal"} /\ op # "Repetition"
      OBVIOUS
    <2> QED BY <1>4, <2>1, <2>2, RejectionKeeps, TokenTurn
  <1>6. CASE Ch(last) # "]"
    <2>1. PICK message : message = "Bad character class"
      OBVIOUS
    <2>2. Error(last, message)
      BY <1>2, <1>3, <1>6, <2>1 DEF Classed
    <2>3. message # ""
      BY <2>1
    <2> QED BY <1>4, <2>2, <2>3, ErrorTurn
  <1> QED BY <1>5, <1>6

\* A class of characters, or of all the others.
LEMMA ClassStep == ASSUME IInv, ScanClass PROVE IInv'
  <1>1. Running /\ ok = TRUE /\ i \in Nat
    BY Reading DEF ScanClass, Special
  <1>2. PICK one \in Nat, two \in Nat : one = i + 1 /\ two = i + 2 /\ i <= one /\ i <= two
    BY <1>1
  <1>3. PICK op \in Ops \ {"Literal", "Repetition"} : op = "CharClass"
    BY DEF Ops
  <1>4. PICK negated \in Ops \ {"Literal", "Repetition"} : negated = "NegCharClass"
    BY DEF Ops
  <1>5. Classed(op, Class(one)) \/ Classed(negated, Class(two))
    BY <1>2, <1>3, <1>4 DEF ScanClass
  <1> QED BY <1>1, <1>2, <1>5, ClassedTurn

\* An alternative: |.
LEMMA AlternateStep == ASSUME IInv, ScanAlternate PROVE IInv'
  <1>1. "Alternate" \in Ops \ {"Literal"} /\ "Alternate" # "Repetition"
    BY DEF Ops
  <1> QED BY <1>1, OneCharacter DEF ScanAlternate, Special

\* A group without a kind.
LEMMA GroupStep == ASSUME IInv, ScanGroup PROVE IInv'
  <1>1. "NonCapturingGroup" \in Ops \ {"Literal"} /\ "NonCapturingGroup" # "Repetition"
    BY DEF Ops
  <1> QED BY <1>1, OneCharacter DEF ScanGroup, Special

\* The end of a group.
LEMMA EndGroupStep == ASSUME IInv, ScanEndGroup PROVE IInv'
  <1>1. "EndGroup" \in Ops \ {"Literal"} /\ "EndGroup" # "Repetition"
    BY DEF Ops
  <1> QED BY <1>1, OneCharacter DEF ScanEndGroup

\* Tokens of several characters, with a text that is not empty.
LEMMA Typed == ASSUME IInv PROVE TypeOK /\ i \in Nat /\ Len(re) \in Nat
  <1>1. TypeOK
    BY DEF IInv
  <1>2. TypeOK => i \in Nat /\ Len(re) \in Nat
    BY DEF TypeOK
  <1> QED BY <1>1, <1>2

\* A token whose text lies between brackets.
LEMMA NamedTurn ==
  ASSUME IInv, Running, ok = TRUE, NEW op \in Ops \ {"Literal", "Repetition"}, NEW k \in Nat,
         i <= k, NEW end, end = -1 \/ (end \in Nat /\ k <= end /\ end < Len(re)), end > k,
         Tell(Token(op, Slice(k, end), 0, 0, i, end + 1), end, error_message)
  PROVE  IInv'
  <1>1. TypeOK /\ i \in Nat /\ Len(re) \in Nat
    BY Typed
  <1>2. PICK last \in Nat : last = end /\ i <= last /\ last <= Len(re)
    BY <1>1
  <1>3. PICK str \in Seq(Codes) : str = Slice(k, last)
    BY <1>1, <1>2, SliceIs
  <1>4. last + 1 \in Nat /\ i <= last + 1
    BY <1>1, <1>2
  <1>5. Tell(Token(op, str, 0, 0, i, last + 1), last, error_message)
    BY <1>2, <1>3
  <1>6. 0 \in Int /\ op \in Ops \ {"Literal"} /\ op # "Repetition"
    OBVIOUS
  <1> QED BY <1>4, <1>5, <1>6, RejectionKeeps, TokenTurn

\* A group with a name, or an error.
LEMMA NamedStep == ASSUME IInv, ScanNamed PROVE IInv'
  <1>1. Running /\ ok = TRUE /\ TypeOK /\ i \in Nat
    BY Reading DEF ScanNamed, Special
  <1>2. PICK k \in Nat : k = i + 3 /\ i <= k
    BY <1>1
  <1>3. PICK end : end = Find(k, ">")
    OBVIOUS
  <1>4. end = -1 \/ (end \in Nat /\ k <= end /\ end < Len(re))
    BY <1>1, <1>3, FindIs
  <1>5. PICK message : message = "Invalid group name"
    OBVIOUS
  <1>6. PICK op \in Ops \ {"Literal", "Repetition"} : op = "NamedCapture"
    BY DEF Ops
  <1>7. IF end <= k THEN Error(k, message)
        ELSE Tell(Token(op, Slice(k, end), 0, 0, i, end + 1), end, error_message)
    BY <1>2, <1>3, <1>5, <1>6 DEF ScanNamed
  <1>8. message # ""
    BY <1>5
  <1>9. CASE end <= k
    <2>1. k + 1 \in Nat /\ i <= k + 1
      BY <1>1, <1>2
    <2> QED BY <1>1, <1>7, <1>8, <1>9, <2>1, ErrorTurn
  <1>10. CASE ~(end <= k)
    <2>1. end > k
      BY <1>2, <1>4, <1>10
    <2> QED BY <1>1, <1>2, <1>4, <1>7, <1>10, <2>1, NamedTurn
  <1> QED BY <1>9, <1>10

\* A property of characters, or an error.
LEMMA PropertyStep == ASSUME IInv, ScanProperty PROVE IInv'
  <1>1. Running /\ ok = TRUE /\ TypeOK /\ i \in Nat
    BY Reading DEF ScanProperty, Escapes, Escape
  <1>2. PICK k \in Nat, two \in Nat : k = i + 3 /\ i <= k /\ two = i + 2 /\ i <= two
    BY <1>1
  <1>3. PICK end : end = Find(k, "}")
    OBVIOUS
  <1>4. end = -1 \/ (end \in Nat /\ k <= end /\ end < Len(re))
    BY <1>1, <1>3, FindIs
  <1>5. PICK message : message = "Illegal Posix character specification"
    OBVIOUS
  <1>6. PICK op \in Ops \ {"Literal", "Repetition"} : op = "CharProperty"
    BY DEF Ops
  <1>7. \/ Error(two, message)
        \/ /\ ~(end <= k)
           /\ Tell(Token(op, Slice(k, end), 0, 0, i, end + 1), end, error_message)
    BY <1>2, <1>3, <1>5, <1>6 DEF ScanProperty
  <1>8. message # ""
    BY <1>5
  <1>9. CASE Error(two, message)
    <2>1. two + 1 \in Nat /\ i <= two + 1
      BY <1>1, <1>2
    <2> QED BY <1>1, <1>8, <1>9, <2>1, ErrorTurn
  <1>10. CASE /\ ~(end <= k)
              /\ Tell(Token(op, Slice(k, end), 0, 0, i, end + 1), end, error_message)
    <2>1. end > k
      BY <1>2, <1>4, <1>10
    <2> QED BY <1>1, <1>2, <1>4, <1>10, <2>1, NamedTurn
  <1> QED BY <1>7, <1>9, <1>10

\* Groups of three characters.
LEMMA OpenTurn ==
  ASSUME IInv, Running, ok = TRUE, NEW op \in Ops \ {"Literal", "Repetition"},
         NEW message, Keeps(message), Single(op, 0, 0, i + 2, message)
  PROVE  IInv'
  <1>1. i \in Nat
    BY Typed
  <1>2. PICK last \in Nat : last = i + 2 /\ last + 1 \in Nat /\ i <= last + 1
    BY <1>1
  <1>3. 0 \in Int /\ op \in Ops \ {"Literal"} /\ op # "Repetition"
    OBVIOUS
  <1> QED BY <1>2, <1>3, SingleTurn

\* A group that is not captured: (?:.
LEMMA NonCaptureStep == ASSUME IInv, ScanNonCapture PROVE IInv'
  <1>1. Running /\ ok = TRUE
    BY Reading DEF ScanNonCapture, Special
  <1>2. PICK op \in Ops \ {"Literal", "Repetition"} : op = "NonCapturingGroup"
    BY DEF Ops
  <1>3. Single(op, 0, 0, i + 2, Rejection({"Capture"}))
    BY <1>2 DEF ScanNonCapture
  <1> QED BY <1>1, <1>3, RejectionKeeps, OpenTurn

\* A negative lookahead: (?!.
LEMMA LookaheadStep == ASSUME IInv, ScanLookahead PROVE IInv'
  <1>1. Running /\ ok = TRUE
    BY Reading DEF ScanLookahead, Special
  <1>2. PICK op \in Ops \ {"Literal", "Repetition"} : op = "NegLookahead"
    BY DEF Ops
  <1>3. Single(op, 0, 0, i + 2, Rejection({"Capture", "NonCapture"}))
    BY <1>2 DEF ScanLookahead
  <1> QED BY <1>1, <1>3, RejectionKeeps, OpenTurn

\* A group of no known kind.
LEMMA IllegalStep == ASSUME IInv, ScanIllegalGroup PROVE IInv'
  <1>1. Running /\ i \in Nat
    BY Reading DEF ScanIllegalGroup, Special
  <1>2. PICK last \in Nat : last = i + 2 /\ last + 1 \in Nat /\ i <= last + 1
    BY <1>1
  <1>3. PICK message : message = "Illegal group type"
    OBVIOUS
  <1>4. Error(last, message)
    BY <1>2, <1>3 DEF ScanIllegalGroup
  <1>5. message # ""
    BY <1>3
  <1> QED BY <1>1, <1>2, <1>4, <1>5, ErrorTurn

(* White space and comments.                                               *)
LEMMA WhiteCovered ==
  ASSUME i \in Nat, NEW last \in Nat, i <= last, Enabled("ExtendedRE"), Ch(i) \in White,
         NEW m, Covered(m, i),
         \/ last = i
         \/ Ch(i + 1) = "#" /\ \A l \in Nat : i + 1 <= l /\ l < last /\ l < Len(re) => Ch(l) # "\n",
         Len(re) \in Nat
  PROVE  Covered(m, last + 1)
  <1>1. SUFFICES ASSUME NEW k \in 0..Len(re) - 1, k < last + 1
                 PROVE  Within(m.tokens, k) \/ Waits(m, k) \/ Ignored(k)
    BY DEF Covered
  <1>2. CASE k < i
    BY <1>2 DEF Covered
  <1>3. CASE k = i
    BY <1>3 DEF Ignored
  <1>4. CASE k > i
    <2>1. k <= last /\ i \in 0..k - 1 /\ last # i
      BY <1>1, <1>4
    <2>2. ASSUME NEW l \in i + 1..k - 1 PROVE Ch(l) # "\n"
      <3>1. l \in Nat /\ i + 1 <= l /\ l < last /\ l < Len(re)
        BY <1>1, <2>1
      <3> QED BY <2>1, <3>1
    <2>3. InComment(k)
      BY <2>1, <2>2 DEF InComment
    <2> QED BY <2>3 DEF Ignored
  <1>5. k < i \/ k = i \/ k > i
    BY <1>1
  <1> QED BY <1>2, <1>3, <1>4, <1>5

\* White space, and a comment to the end of its line.
LEMMA WhiteStep == ASSUME IInv, ScanWhite PROVE IInv'
  <1>1. Running /\ ok = TRUE /\ TypeOK /\ i \in Nat /\ Len(re) \in Nat /\ i < Len(re) /\ Ch(i) \in White
    BY Reading DEF ScanWhite
  <1>2. Enabled("ExtendedRE")
    <2>1. White \cap {"^", "$", "*", "+", "{", "[", "|", "(", ".", ")", "?", "\\"} = {}
      BY RxScanAssumption, Zenon
    <2>2. Ch(i) \notin {"^", "$", "*", "+", "{", "[", "|", "(", ".", ")", "?", "\\"}
      BY <1>1, <2>1
    <2>3. Ch(i) \notin DOMAIN FeatureOf
      BY <2>2 DEF FeatureOf
    <2> QED BY <2>2, <2>3 DEF ScanWhite, Ordinary
  <1>3. PICK one \in Nat, two \in Nat : one = i + 1 /\ two = i + 2 /\ i <= one /\ i <= two
    BY <1>1
  <1>4. PICK hash, nl : hash = "#" /\ nl = "\n"
    OBVIOUS
  <1>5. PICK last : /\ last = IF Ch(one) # hash THEN i
                              ELSE IF Find(two, nl) >= 0 THEN Find(two, nl) ELSE Len(re)
                    /\ Turn(Now, last, error_message)
    BY <1>3, <1>4 DEF ScanWhite
  <1>6. Find(two, nl) = -1 \/ (Find(two, nl) \in Nat /\ two <= Find(two, nl) /\ Find(two, nl) < Len(re))
    BY <1>1, FindIs
  <1>7. last \in Nat /\ i <= last
    BY <1>1, <1>3, <1>5, <1>6
  <1>8. PICK later \in Nat : later = last + 1 /\ i <= later
    BY <1>1, <1>7
  <1>9. Good(Now, later)
    <2>1. Good(Now, i)
      BY DEF IInv
    <2> QED BY <1>1, <1>8, <2>1, GoodLater
  <1>10. last = i \/ (Ch(one) = hash /\ \A l \in Nat : one <= l /\ l < last /\ l < Len(re) => Ch(l) # nl)
    <2>1. CASE Ch(one) # hash
      BY <1>5, <2>1
    <2>2. CASE Ch(one) = hash
      <3>1. ASSUME NEW l \in Nat, one <= l, l < last, l < Len(re) PROVE Ch(l) # nl
        <4>1. CASE l = one
          <5>1. hash # nl
            BY <1>4
          <5> QED BY <2>2, <4>1, <5>1
        <4>2. CASE l # one
          <5>1. two <= l
            BY <1>1, <1>3, <3>1, <4>2
          <5>2. Find(two, nl) = -1 \/ l < Find(two, nl)
            BY <1>5, <1>6, <2>2, <3>1
          <5> QED BY <1>1, <3>1, <5>1, <5>2, FindIsFirst
        <4> QED BY <4>1, <4>2
      <3> QED BY <2>2, <3>1
    <2> QED BY <2>1, <2>2
  <1>11. Now.ok /\ error_message = "" => Covered(Now, last + 1)
    <2>1. SUFFICES ASSUME error_message = "" PROVE Covered(Now, last + 1)
      OBVIOUS
    <2>2. Covered(Now, i)
      BY <1>1, <2>1 DEF IInv
    <2>3. \/ last = i
          \/ (Ch(i + 1) = "#" /\ \A l \in Nat : i + 1 <= l /\ l < last /\ l < Len(re) => Ch(l) # "\n")
      BY <1>3, <1>4, <1>10
    <2> QED BY <1>1, <1>2, <1>7, <2>2, <2>3, WhiteCovered
  <1> QED BY <1>1, <1>5, <1>8, <1>9, <1>11, TurnGood

(* Escapes.                                                                *)
LEMMA EscapedStep == ASSUME IInv, ScanEscaped PROVE IInv'
  <1>1. Running /\ ok = TRUE /\ TypeOK /\ i \in Nat
    BY Reading DEF ScanEscaped, Escape
  <1>2. PICK last \in Nat : last = i + 1 /\ i <= last /\ last + 1 \in Nat
    BY <1>1
  <1>3. PICK c \in Codes : c = Ch(last)
    BY <1>1, ChIs
  <1>4. Turn(Delay(c, last), last, error_message)
    BY <1>2, <1>3 DEF ScanEscaped
  <1> QED BY <1>1, <1>2, <1>4, RejectionKeeps, DelayTurn

\* An escaped control character.
LEMMA ControlStep == ASSUME IInv, ScanControl PROVE IInv'
  <1>1. Running /\ ok = TRUE /\ TypeOK /\ i \in Nat
    BY Reading DEF ScanControl, Escapes, Escape
  <1>2. PICK last \in Nat : last = i + 1 /\ i <= last /\ last + 1 \in Nat
    BY <1>1
  <1>3. Ch(i + 1) \in {"b", "e", "f", "n", "t", "r"}
    BY DEF ScanControl, Escapes, EscapeFeature
  <1>4. Control[Ch(i + 1)] \in Int
    BY <1>3 DEF Control
  <1>5. PICK c \in Codes : c = Control[Ch(i + 1)]
    BY <1>4 DEF Codes
  <1>6. Turn(Delay(c, last), last, error_message)
    BY <1>2, <1>5 DEF ScanControl
  <1> QED BY <1>1, <1>2, <1>6, RejectionKeeps, DelayTurn

\* A character by its number, or an error.
LEMMA NumericTurn ==
  ASSUME IInv, Running, ok = TRUE, NEW int \in Numbers, NEW k \in Nat, i <= k,
         NEW message, Fails(message), Numeric(int, k, message)
  PROVE  IInv'
  <1>1. TypeOK /\ i \in Nat
    BY Typed
  <1>2. PICK value \in Int, scanned \in Int : value = int.value /\ scanned = int.scanned
    BY DEF Numbers
  <1>3. \/ scanned > 0 /\ Turn(Delay(value, k + scanned - 1), k + scanned - 1, error_message)
        \/ Turn(Now, k, message)
    BY <1>2 DEF Numeric
  <1>4. CASE scanned > 0 /\ Turn(Delay(value, k + scanned - 1), k + scanned - 1, error_message)
    <2>1. PICK last \in Nat : last = k + scanned - 1 /\ i <= last /\ last + 1 \in Nat
      BY <1>1, <1>4
    <2>2. PICK c \in Codes : c = value
      BY DEF Codes
    <2>3. Turn(Delay(c, last), last, error_message)
      BY <1>4, <2>1, <2>2
    <2> QED BY <2>1, <2>3, RejectionKeeps, DelayTurn
  <1>5. CASE Turn(Now, k, message)
    <2>1. PICK later \in Nat : later = k + 1 /\ i <= later
      BY <1>1
    <2>2. Good(Now, i)
      BY DEF IInv
    <2>3. Good(Now, later)
      BY <1>1, <2>1, <2>2, GoodLater
    <2> QED BY <1>5, <2>1, <2>3, TurnGood DEF Fails
  <1> QED BY <1>3, <1>4, <1>5

\* The next characters are read as a number.
LEMMA NumberInIs ==
  ASSUME TypeOK, NEW k \in Nat, NEW width \in Nat, NEW radix \in Int
  PROVE  NumberIn(k, width, radix) \in Numbers
  <1>1. Len(re) \in Nat
    BY DEF TypeOK
  <1>2. PICK to \in Nat : to = (IF k + width <= Len(re) THEN k + width ELSE Len(re)) /\ to <= Len(re)
    BY <1>1
  <1>3. AsInt(Slice(k, to), radix) \in Numbers
    BY ValueOfNumber, <1>2
  <1> QED BY <1>2, <1>3 DEF NumberIn

\* The three ways to give a number.
LEMMA NumericStep == ASSUME IInv, ScanNumeric PROVE IInv'
  <1>1. Running /\ ok = TRUE /\ TypeOK /\ i \in Nat
    BY Reading DEF ScanNumeric, Escapes, Escape
  <1>2. PICK one \in Nat, two \in Nat : one = i + 1 /\ two = i + 2 /\ i <= one /\ i <= two
    BY <1>1
  <1>3. /\ NumberIn(one, 3, 8) \in Numbers /\ NumberIn(two, 2, 16) \in Numbers
        /\ NumberIn(two, 5, 16) \in Numbers
    BY <1>1, NumberInIs
  <1>4. PICK octal, hex, unicode : /\ octal = "Illegal octal character"
                                   /\ hex = "Illegal hexadecimal character"
                                   /\ unicode = "Illegal Unicode escape"
    OBVIOUS
  <1>5. Fails(octal) /\ Fails(hex) /\ Fails(unicode)
    BY <1>4 DEF Fails
  <1>6. \/ Numeric(NumberIn(one, 3, 8), one, octal)
        \/ Numeric(NumberIn(two, 2, 16), two, hex)
        \/ Numeric(NumberIn(two, 5, 16), two, unicode)
    BY <1>2, <1>4 DEF ScanNumeric
  <1> QED BY <1>1, <1>2, <1>3, <1>5, <1>6, NumericTurn

\* A property of characters by one letter.
LEMMA ShorthandStep == ASSUME IInv, ScanShorthand PROVE IInv'
  <1>1. Running /\ ok = TRUE /\ TypeOK /\ i \in Nat
    BY Reading DEF ScanShorthand, Escapes, Escape
  <1>2. PICK last \in Nat : last = i + 1 /\ i <= last + 1 /\ last + 1 \in Nat /\ last + 1 = i + 2
    BY <1>1
  <1>3. PICK str \in Seq(Codes) : str = <<Ch(last)>>
    <2>1. PICK c \in Codes : c = Ch(last)
      BY <1>1, ChIs
    <2>2. <<c>> \in Seq(Codes)
      OBVIOUS
    <2> QED BY <2>1, <2>2
  <1>4. PICK op \in Ops \ {"Literal"} : op = "CharProperty" /\ op # "Repetition"
    BY DEF Ops
  <1>5. Tell(Token(op, str, 0, 0, i, last + 1), last, error_message)
    BY <1>2, <1>3, <1>4 DEF ScanShorthand
  <1>6. op # "Repetition" /\ 0 \in Int
    BY <1>4
  <1> QED BY <1>1, <1>2, <1>5, <1>6, RejectionKeeps, TokenTurn

(* The end.                                                                *)
LEMMA FinishStep == ASSUME IInv, Finish PROVE IInv'
  <1>1. TypeOK /\ i \in Nat /\ Len(re) \in Nat
    BY Typed
  <1>2. PICK m : m = IF ok THEN Flush(Now) ELSE Now
    OBVIOUS
  <1>3. Good(Now, i) /\ (ok /\ error_message = "" => Covered(Now, i))
    BY DEF IInv
  <1>4. Good(m, i)
    BY <1>1, <1>2, <1>3, FlushGood
  <1>5. m.ok => m.delayed.str = <<>> /\ (error_message = "" => Covered(m, i))
    BY <1>1, <1>2, <1>3, FlushGood DEF Now
  <1>6. PICK accept : accept = Token("Accept", <<>>, 0, 0, i, i)
    OBVIOUS
  <1>7. accept \in Spelled /\ accept.from = i /\ accept.to = i /\ accept.op = "Accept"
    BY <1>1, <1>6, EmptySeq DEF Token, Spelled, Ops
  <1>8. Told(accept)
    BY <1>1, <1>7 DEF Told
  <1>9. PICK r : r = Last(m)
    OBVIOUS
  <1>10. Accepted(m) => m.ok /\ error_message = "" /\ i >= Len(re)
    BY DEF Accepted
  <1>11. /\ Good(r, i) /\ r.delayed = m.delayed
         /\ r.ok /\ error_message = "" => Covered(r, i)
         /\ Accepted(m) => Covered(r, i) /\ r.delayed.str = <<>>
    <2>1. CASE Accepted(m)
      <3>1. r = Deliver(m, accept)
        BY <1>6, <1>9, <2>1 DEF Last
      <3>2. r.delayed = m.delayed
        BY <3>1 DEF Deliver
      <3>3. m.delayed.str = <<>> /\ Covered(m, i)
        BY <1>5, <1>10, <2>1
      <3>4. Good(r, i) /\ Covered(r, i)
        BY <1>4, <1>7, <1>8, <3>1, <3>3, DeliverGood
      <3> QED BY <3>2, <3>3, <3>4
    <2>2. CASE ~Accepted(m)
      <3>1. r = m
        BY <1>9, <2>2 DEF Last
      <3> QED BY <1>4, <1>5, <2>2, <3>1
    <2> QED BY <2>1, <2>2
  <1>12. /\ i' = i /\ re' = re /\ features_enabled' = features_enabled /\ error_message' = error_message
         /\ tokens' = r.tokens /\ delayed' = m.delayed /\ ok' = r.ok
         /\ returned' = "accepted" => Accepted(m)
    BY <1>2, <1>9 DEF Finish, config
  <1>13. Good(Now, i)' /\ (Covered(r, i) => Covered(Now, i)')
    BY <1>1, <1>11, <1>12, GoodNext
  <1>14. TypeOK'
    BY <1>1, <1>12 DEF TypeOK
  <1>15. NothingLost'
    <2>1. SUFFICES ASSUME Accepted(m) PROVE NothingLost'
      BY <1>12 DEF NothingLost
    <2>2. Covered(Now, i)' /\ delayed'.str = <<>> /\ i' = i /\ re' = re
      BY <1>11, <1>12, <1>13, <2>1
    <2>3. \A k \in 0..Len(re) - 1 : k < i
      <3>1. i >= Len(re)
        BY <1>10, <2>1
      <3> QED BY <1>1, <3>1
    <2>4. \A k \in 0..Len(re') - 1 : (Within(tokens, k) \/ Ignored(k))'
      BY <2>2, <2>3 DEF Covered, Waits, Now
    <2>5. (\A k : Within(tokens, k) => k \in Spanned(tokens))'
      BY DEF Within, Spanned
    <2> QED BY <2>4, <2>5 DEF NothingLost
  <1> QED BY <1>11, <1>12, <1>13, <1>14, <1>15 DEF IInv

----------------------------------------------------------------------------
(* The invariant, at first and after each step.                            *)
LEMMA InitInvariant == ASSUME Init PROVE IInv
  <1>1. i = 0 /\ tokens = <<Start>> /\ delayed = Nothing /\ re \in Texts
    BY DEF Init
  <1>2. TypeOK
    <2>1. re \in Seq(STRING \ {""})
      BY <1>1, RxScanAssumption, Zenon
    <2>2. \A S : re \in Seq(S) => re \in Seq(Characters)
      <3>1. SUFFICES ASSUME NEW S, re \in Seq(S) PROVE re \in Seq(Characters)
        OBVIOUS
      <3>2. Len(re) \in Nat /\ DOMAIN re = 1..Len(re) /\ re = [k \in 1..Len(re) |-> re[k]]
        BY <3>1
      <3>3. \A k \in 1..Len(re) : re[k] \in Characters
        BY <1>1, <3>2 DEF Characters
      <3> HIDE DEF Characters
      <3> QED BY <3>2, <3>3, SeqDef
    <2>5. re \in Seq(Characters)
      BY <2>1, <2>2, Zenon
    <2> QED BY <1>1, <2>5 DEF TypeOK
  <1>3. Start \in Spelled /\ Start.from = 0 /\ Start.to = 0 /\ Start.op = "Start"
    BY EmptySeq DEF Start, Token, Spelled, Ops
  <1>4. Told(Start)
    BY <1>3 DEF Told
  <1>5. Nothing \in Delays /\ Nothing.str = <<>>
    BY EmptySeq DEF Nothing, Delays
  <1>6. PICK start \in Spelled : start = Start /\ start.from = 0 /\ start.to = 0
    BY <1>3
  <1>7. tokens \in Seq(Spelled) /\ DOMAIN tokens = {1} /\ tokens[1] = start
    <2>1. tokens = <<start>>
      BY <1>1, <1>6
    <2> QED BY <2>1
  <1>8. Now.tokens = tokens /\ Now.delayed = delayed /\ Now \in Changed
    <2>1. ok \in BOOLEAN
      BY Zenon DEF Init
    <2> QED BY <1>1, <1>5, <1>7, <2>1 DEF Now, Changed
  <1>9. Good(Now, i)
    <2>1. AllTold(Now)
      <3>1. Now.delayed.str = <<>> /\ Told(start)
        BY <1>1, <1>4, <1>5, <1>6, <1>8
      <3>2. ~(Len(Now.delayed.str) > 1)
        BY <3>1
      <3> QED BY <1>7, <1>8, <3>1, <3>2 DEF AllTold
    <2>2. Ordered(Now)
      BY <1>1, <1>5, <1>7, <1>8 DEF Ordered
    <2>3. Below(Now, i)
      BY <1>1, <1>5, <1>6, <1>7, <1>8 DEF Below
    <2> QED BY <1>8, <2>1, <2>2, <2>3 DEF Good
  <1>10. Covered(Now, i)
    <2>1. \A k \in 0..Len(re) - 1 : ~(k < i)
      <3>1. Len(re) \in Nat
        BY <1>2 DEF TypeOK
      <3> QED BY <1>1, <3>1
    <2> QED BY <2>1 DEF Covered
  <1>11. NothingLost
    BY DEF Init, NothingLost
  <1> QED BY <1>2, <1>9, <1>10, <1>11 DEF IInv

\* No step breaks the invariant, nor does a stutter.
LEMMA StepInvariant == ASSUME IInv, [Scan]_vars PROVE IInv'
  <1>1. CASE UNCHANGED vars
    <2>1. /\ i' = i /\ re' = re /\ features_enabled' = features_enabled
          /\ error_message' = error_message /\ returned' = returned
          /\ tokens' = tokens /\ delayed' = delayed /\ ok' = ok
      BY <1>1 DEF vars, config
    <2>2. Good(Now, i) /\ i \in Nat
      BY Typed DEF IInv
    <2>3. tokens' = Now.tokens /\ delayed' = Now.delayed /\ ok' = Now.ok
      BY <2>1 DEF Now
    <2>4. Good(Now, i)' /\ (Covered(Now, i) => Covered(Now, i)')
      BY <2>1, <2>2, <2>3, GoodNext
    <2>5. TypeOK'
      BY <2>1 DEF IInv, TypeOK
    <2>6. NothingLost'
      BY <2>1 DEF IInv, NothingLost, Ignored, InComment, Enabled, Ch, Spanned
    <2> QED BY <2>1, <2>4, <2>5, <2>6 DEF IInv
  <1>2. CASE Scan
    BY <1>2, SimpleStep, LineStep, AnyStep, OptionalStep, StarStep, PlusStep, CountStep, ClassStep,
       AlternateStep, GroupStep, NamedStep, NonCaptureStep, LookaheadStep, IllegalStep, EndGroupStep,
       WhiteStep, EscapedStep, ControlStep, NumericStep, ShorthandStep, PropertyStep, FinishStep
       DEF Scan
  <1> QED BY <1>1, <1>2

(* The invariant holds throughout. *)
THEOREM Invariance == Spec => []IInv
  <1>1. Init => IInv
    BY InitInvariant
  <1>2. IInv /\ [Scan]_vars => IInv'
    BY StepInvariant
  <1> QED BY <1>1, <1>2, PTL DEF Spec

(***************************************************************************)
(* In whatever text, with whatever features and whatever the callback      *)
(* answers, the tokens come in the order of the text.                      *)
(***************************************************************************)
THEOREM TokensInOrder == Spec => []InOrder
  <1>1. IInv => InOrder
    BY DEF IInv, Good, Ordered, Now, InOrder
  <1> QED BY <1>1, Invariance, PTL

(* What an accepted expression says is all told, but for the white space   *)
(* and the comments that the features let it ignore.                       *)
THEOREM AllIsTold == Spec => []NothingLost
  <1>1. IInv => NothingLost
    BY DEF IInv
  <1> QED BY <1>1, Invariance, PTL

\* A sequence that is not empty, and not longer than one.
LEMMA NoLonger == ASSUME NEW str \in Seq(Codes), str # <<>>, ~(Len(str) > 1) PROVE Len(str) = 1
  BY EmptySeq

(* A repetition repeats one character of the literal before it.            *)
THEOREM OneIsRepeated == Spec => []RepeatsOne
  <1>1. ASSUME IInv PROVE RepeatsOne
    <2>1. SUFFICES ASSUME NEW k \in DOMAIN tokens \ {1}, tokens[k].op = "Repetition",
                          tokens[k - 1].op = "Literal", tokens[k - 1].to = tokens[k].from
                   PROVE  Len(tokens[k - 1].str) = 1
      BY DEF RepeatsOne
    <2>2. PICK ts \in Seq(Spelled) : ts = tokens
      BY <1>1 DEF IInv, Good, Changed, Now
    <2>3. PICK j \in DOMAIN ts : j = k - 1
      BY <2>2
    <2>4. \A n \in DOMAIN ts : Told(ts[n])
      BY <1>1, <2>2 DEF IInv, Good, AllTold, Now
    <2>5. Told(ts[j]) /\ Told(ts[k])
      BY <2>2, <2>4
    <2>6. ts[j].str # <<>> /\ ~(Len(ts[j].str) > 1)
      BY <2>1, <2>2, <2>3, <2>5 DEF Told
    <2>7. ts[j] \in Spelled
      BY <2>3
    <2>8. ts[j].str \in Seq(Codes)
      BY <2>7 DEF Spelled
    <2>9. Len(ts[j].str) = 1
      BY <2>6, <2>8, NoLonger
    <2> QED BY <2>2, <2>3, <2>9
  <1> QED BY <1>1, Invariance, PTL
=============================================================================
