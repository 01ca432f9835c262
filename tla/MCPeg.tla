------------------------------- MODULE MCPeg -------------------------------
(* The expressions of two items over two letters, those of three that      *)
(* matter, the classes and escapes, and some grammars of several rules.    *)
EXTENDS Peg

CONSTANT MaxText

Ascii ==                                                \* from code 40 on
  <<"(", ")", "*", "+", ",", "-", ".", "/", "0", "1", "2", "3", "4", "5", "6", "7", "8", "9", ":",
    ";", "<", "=", ">", "?", "@", "A", "B", "C", "D", "E", "F", "G", "H", "I", "J", "K", "L", "M",
    "N", "O", "P", "Q", "R", "S", "T", "U", "V", "W", "X", "Y", "Z", "[", "\\", "]", "^", "_",
    "grave", "a", "b", "c", "d", "e", "f", "g", "h", "i", "j", "k", "l", "m", "n", "o", "p", "q",
    "r", "s", "t", "u", "v", "w", "x", "y", "z", "{", "|", "}">>
MCNewline == "\n"
MCCodeOf == [ch \in ToSet(Ascii) \cup {"\n"} |->
               IF ch = "\n" THEN 10 ELSE 39 + CHOOSE k \in DOMAIN Ascii : Ascii[k] = ch]
FromTo(first, last) == {Ascii[k - 39] : k \in first..last}
Decimal == FromTo(48, 57)
Upper == FromTo(65, 90)
Small == FromTo(97, 122)
MCProperty == [p \in {"a", "d", "h", "L", "U", "s", "w"} |->
                 CASE p = "a" -> Upper \cup Small
                   [] p = "d" -> Decimal
                   [] p = "h" -> Decimal \cup FromTo(65, 70) \cup FromTo(97, 102)
                   [] p = "L" -> Small
                   [] p = "U" -> Upper
                   [] p = "s" -> {"\n"}
                   [] p = "w" -> Upper \cup Small \cup Decimal]

----------------------------------------------------------------------------
a == Char(<<"a">>, {"a"})
b == Char(<<"b">>, {"b"})
any == Char(<<".">>, {"a", "b", "\n", "-", "]", "A", "1"})
Two(x, y) == InTurn(<<x, y>>)

Atoms == {a, b, any, Line("^"), Line("$")}
Prefixed(exprs) == {Prefix(op, e) : op \in {"?", "*", "+", "&", "!"}, e \in exprs}
Items == Atoms \cup Prefixed(Atoms)
OneOf == {FirstOf(<<x, y>>) : x \in (Items \ Atoms) \cup {a, Two(a, b)}, y \in {b, Two(b, a), Prefix("+", a)}}
Exprs ==
  {Two(x, y) : x, y \in Items} \cup
  {Two(x, y) : x \in Prefixed(Prefixed({a})), y \in {b, Two(a, b)}} \cup
  OneOf \cup {Two(Grouped(x), a) : x \in OneOf} \cup {Two(a, x) : x \in OneOf} \cup
  {Two(Prefix(op, Grouped(x)), y) : op \in {"?", "*", "+", "&", "!"}, x \in OneOf, y \in {a}} \cup
  {Prefix(op, x) : op \in {"?", "*", "&", "!"}, x \in {FirstOf(<<a, Two(b, a)>>), FirstOf(<<b, Two(a, b), a>>)}}

(* Classes and escapes: what is written and the characters it stands for.  *)
Marks ==
  {Char(<<"[", "a", "-", "b", "]">>, {"a", "b"}), Char(<<"[", "^", "a", "]">>, {"b", "\n", "-", "]", "A", "1"}),
   Char(<<"[", "-", "a", "]">>, {"-", "a"}), Char(<<"[", "\\", "d", "a", "]">>, {"1", "a"}),
   Char(<<"[", "\\", "]", "b", "]">>, {"]", "b"}), Char(<<"[", "A", "-", "\\", "x", "6", "1", "]">>, {"A", "]", "a"}),
   Char(<<"\\", "d">>, {"1"}), Char(<<"\\", "L">>, {"a", "b"}), Char(<<"\\", "U">>, {"A"}),
   Char(<<"\\", "h">>, {"1", "a", "b", "A"}), Char(<<"\\", "s">>, {"\n"}),
   Char(<<"\\", "w">>, {"1", "a", "b", "A"}), Char(<<"\\", "n">>, {"\n"}),
   Char(<<"\\", "1", "4", "1">>, {"a"}), Char(<<"\\", "x", "6", "1">>, {"a"}),
   Char(<<"\\", "x", "{", "6", "1", "}">>, {"a"}), Char(<<"\\", "u", "0", "0", "6", "1">>, {"a"}),
   Char(<<"\\", "u", "{", "6", "2", "}">>, {"b"}), Char(<<"\\", "]">>, {"]"})}
Marked == {Two(x, y) : x \in Marks \cup Prefixed(Marks), y \in {a, Line("$")}} \cup
          {Grouped(FirstOf(<<Two(x, x), b>>)) : x \in Marks}
Alone(expr) == (TOP :> Rule(expr, {}))

----------------------------------------------------------------------------
(* Grammars of several rules.                                              *)
A == <<"a">>
B == <<"b">>
X == <<"x">>
Plain(names) == [n \in names |-> Rule(Char(<<"a">>, {"a"}), {})]
Names == {A, B, <<"a", "b">>, <<"a", "1">>, <<"a", "1", "b">>, <<"a", "_">>, <<"b", "a">>}
Tops ==
  {Two(CallOf(A), CallOf(B)), Two(Prefix("*", CallOf(A)), CallOf(B)),
   Prefix("+", Grouped(FirstOf(<<Two(CallOf(A), a), CallOf(B)>>))),
   FirstOf(<<Two(CallOf(A), b), CallOf(B)>>), Two(Prefix("&", CallOf(A)), CallOf(B)),
   Two(Prefix("!", CallOf(B)), CallOf(A)), Two(Labelled(CallOf(A), X), Prefix("?", Labelled(CallOf(B), X))),
   Prefix("*", Grouped(FirstOf(<<Labelled(CallOf(A), X), Labelled(CallOf(B), B)>>))),
   Two(CallOf(A), CallOf(<<"c">>))}
ABodies ==
  {a, Two(Labelled(a, X), b), Prefix("*", Labelled(a, X)), Grouped(FirstOf(<<Two(a, CallOf(B)), a>>)),
   FirstOf(<<Two(CallOf(A), b), a>>), Two(Prefix("?", Labelled(a, X)), Labelled(Grouped(Two(b, Prefix("*", a))), B)),
   Two(a, Prefix("?", CallOf(A))), Prefix("?", a)}
BBodies == {b, Labelled(Prefix("+", b).of[1], X), FirstOf(<<Two(CallOf(A), b), b>>), Two(b, Prefix("*", CallOf(B)))}
Calling ==
  {(TOP :> Rule(top, captures)) @@ (A :> Rule(abody, {B, X})) @@ (B :> Rule(bbody, {A})) :
     top \in Tops, captures \in {{A, B}, {X}}, abody \in ABodies, bbody \in BBodies}
Naming == {(TOP :> Rule(CallOf(A), {A})) @@ Plain(names \cup {A}) : names \in SUBSET Names}

MCGrammars == {Alone(e) : e \in Exprs \cup Marked} \cup Calling \cup Naming
MCTexts == UNION {[1..n -> {"a", "b"}] : n \in 0..MaxText} \cup
           {<<"\n", "a">>, <<"b", "\n", "a", "a">>, <<"-", "a">>, <<"]", "a">>,
            <<"1", "b">>, <<"A", "a">>}

Done == phase \in {"found", "failed"} /\ UNCHANGED vars
Next == Match \/ Done
MCSpec == Init /\ [][Next]_vars
=============================================================================
