-------------------------------- MODULE MCRx --------------------------------
(* Every expression of at most MaxTokens tokens, and some longer ones, is   *)
(* compiled; those of at most MaxMatched tokens and the longer ones are     *)
(* matched with texts of at most MaxText characters.                       *)
EXTENDS RxMatch

CONSTANTS MaxTokens, MaxMatched, MaxText

Tok(op, str, min, max) == [op |-> op, str |-> str, min |-> min, max |-> max]
Sym(op) == Tok(op, <<>>, 0, 0)
Times(min, max) == Tok("Repetition", <<>>, min, max)
Lit(str) == Tok("Literal", str, 0, 0)

A == Lit(<<1>>)
B == Lit(<<2>>)
AAA == Lit(<<1, 1, 1>>)
Class == Tok("CharClass", <<2, OneByte>>, 0, 0)
NotA == Tok("NegCharClass", <<1, 1>>, 0, 0)
Prop == Tok("CharProperty", <<4>>, 0, 0)
Dot == Sym("Any")
Bar == Sym("Alternate")
L == Sym("NonCapturingGroup")
R == Sym("EndGroup")
Not == Sym("NegLookahead")
Name(n) == Tok("NamedCapture", <<n>>, 0, 0)
Star == Times(0, 0)
Plus == Times(1, 0)
Opt == Times(0, 1)
TwoThree == Times(2, 3)

Matched == {A, B, Dot, Bar, L, R, Not, Star, Plus, TwoThree, Sym("BOL"), Sym("EOL")}
Compiled == {A, AAA, Class, Bar, L, R, Not, Name(1), Name(2), Star, Plus, Opt, TwoThree, Sym("BOL"),
             Times(0, MaxRepetition + 1)}
MCTokens == Matched \cup Compiled \cup {NotA, Prop}

Long == {<<L, A, B, Bar, A, R, Star, B>>,
         <<A, Star, A, Star, L, A, Bar, A, R, B>>,
         <<L, L, A, R, Star, R, Star, B>>,
         <<L, A, Bar, B, Bar, A, B, R, Plus, B>>,
         <<A, L, B, Bar, R, Opt, B>>,
         <<L, A, Opt, B, Opt, R, Star, A>>,
         <<L, Not, A, B, R, Dot, R, Plus>>,
         <<NotA, Star, A, TwoThree, B>>,
         <<Prop, A, TwoThree, Class>>,
         <<Name(1), AAA, Bar, B, R, L, Not, A, R, Dot, R, Star>>,
         <<L, Sym("BOL"), A, Bar, A, Sym("EOL"), R>>,
         [k \in 1..RxMaxNesting |-> L]}

IsPrefixOf(ts, re) == Len(ts) <= Len(re) /\ ts = SubSeq(re, 1, Len(ts))
MCMayScan(ts) == \/ Len(ts) <= MaxTokens /\ \A k \in DOMAIN ts : ts[k] \in Compiled
                 \/ Len(ts) <= MaxMatched /\ \A k \in DOMAIN ts : ts[k] \in Matched
                 \/ \E re \in Long : IsPrefixOf(ts, re)

(* Expressions of line assertions only, and one counted repetition.        *)
Lines == {Sym("BOL")}
Counted254 == {Dot, Times(254, 254)}
UpToMaxTokens(ts) == Len(ts) <= MaxTokens

(* An optional group of 61 bytes, in an expression of more than 1024.      *)
Crossing == <<L, Lit([k \in 1..30 |-> 1]), Dot, R, Opt>>
            \o [k \in 1..22 |-> IF k % 2 = 1 THEN Lit([j \in 1..50 |-> 2]) ELSE Dot]
CrossingTokens == {Crossing[k] : k \in DOMAIN Crossing}
IntoCrossing(ts) == Len(ts) <= Len(Crossing) /\ ts = SubSeq(Crossing, 1, Len(ts))

(* Character 3 ends a line.                                                *)
MCTexts(ts) ==
  IF Len(ts) <= MaxMatched \/ ts \in Long
  THEN UNION {[1..n -> 1..2] : n \in 0..MaxText} \cup {<<1, 3, 1>>, <<3, 2>>} ELSE {}
MCPropertyOf == [k \in {4} |-> {1, 2}]

Done == /\ phase \in {"failed", "compiled", "matched"} \/ fault # ""
        /\ UNCHANGED <<vars, matching>>
MCInit == Init /\ MatchInit
MCNext == \/ Compile /\ UNCHANGED matching
          \/ Match
          \/ Done
Spec == MCInit /\ [][MCNext]_<<vars, matching>>
=============================================================================
