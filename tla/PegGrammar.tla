---------------------------- MODULE PegGrammar -----------------------------
(***************************************************************************)
(* What a parsing expression grammar means, said of its expressions and    *)
(* not of the text of a pattern: an expression is a record with the text   *)
(* and the characters it stands for and the expressions in it, and         *)
(* Pattern writes it the way Pegexp reads it (include/pegexp.h, l.10-59).  *)
(***************************************************************************)
EXTENDS Integers, Sequences, SequencesExt, FiniteSetsExt, Functions

CONSTANT Newline

Expr(op, written, chars, of) == [op |-> op, written |-> written, chars |-> chars, of |-> of]
Char(written, chars) == Expr("char", written, chars, <<>>)
Line(op) == Expr(op, <<op>>, {}, <<>>)                   \* ^ and $
Prefix(op, expr) == Expr(op, <<op>>, {}, <<expr>>)       \* ? * + & !
InTurn(exprs) == Expr("sequence", <<>>, {}, exprs)
FirstOf(exprs) == Expr("|", <<>>, {}, exprs)
Grouped(expr) == Expr("(", <<>>, {}, <<expr>>)
CallOf(name) == Expr("<", name, {}, <<>>)
Labelled(expr, name) == Expr(":", name, {}, <<expr>>)

RECURSIVE Pattern(_)
Joined(exprs, before) == FoldLeft(LAMBDA x, e : x \o before \o Pattern(e), <<>>, exprs)
Pattern(e) == CASE e.op = "(" -> <<"(">> \o Joined(e.of, <<>>) \o <<")">>
                [] e.op = "|" -> Joined(e.of, <<"|">>)
                [] e.op = "<" -> <<"<">> \o e.written \o <<">">>
                [] e.op = ":" -> Joined(e.of, <<>>) \o <<":">> \o e.written \o <<":">>
                [] OTHER -> e.written \o Joined(e.of, <<>>)

TOP == <<"T", "O", "P">>
Rule(expr, captures) == [expr |-> expr, pattern |-> Pattern(expr), captures |-> captures]

----------------------------------------------------------------------------
(* What is captured: by name a value, or an array of them.                 *)

NoAst == [n \in {} |-> 0]
Entry(array, values) == [array |-> array, values |-> values]
Text(string) == [text |-> string, ast |-> NoAst, is_ast |-> FALSE]
Ast(ast) == [text |-> <<>>, ast |-> ast, is_ast |-> TRUE]

Named(captured, name) == SelectSeq(captured, LAMBDA x : x.name = name)
AstOf(captured) ==
  [name \in {captured[k].name : k \in DOMAIN captured} |->
     LET under == Named(captured, name)
     IN  Entry(Len(under) > 1 \/ under[1].repeated, [k \in DOMAIN under |-> under[k].value])]
ValueOf(captured, string) == IF captured = <<>> THEN Text(string) ELSE Ast(AstOf(captured))

----------------------------------------------------------------------------
(* What an expression matches from s on: where it ends and what it has     *)
(* captured.  env has the grammar, the text, the rule and the calls, and   *)
(* whether captures count (not in a lookahead) and repeat.                 *)

No == [ok |-> FALSE, end |-> 0, captured |-> <<>>]
Yes(end, captured) == [ok |-> TRUE, end |-> end, captured |-> captured]
When(holds, end) == IF holds THEN Yes(end, <<>>) ELSE No

RECURSIVE Means(_, _, _), AllMean(_, _, _), AgainMeans(_, _, _)

Then(first, second) ==
  IF second.ok THEN Yes(second.end, first.captured \o second.captured) ELSE No
AllMean(env, exprs, s) ==
  IF exprs = <<>> THEN Yes(s, <<>>)
  ELSE LET first == Means(env, Head(exprs), s)
       IN  IF first.ok THEN Then(first, AllMean(env, Tail(exprs), first.end)) ELSE No
AgainMeans(env, e, s) ==
  LET once == Means(env, e, s)
  IN  CASE ~once.ok -> Yes(s, <<>>)
        [] once.ok /\ once.end = s -> once
        [] OTHER -> Then(once, AgainMeans(env, e, once.end))
FirstMeans(env, exprs, s) ==
  LET matching == {k \in DOMAIN exprs : Means(env, exprs[k], s).ok}
  IN  IF matching = {} THEN No ELSE Means(env, exprs[Min(matching)], s)

Capturing(env, name, value) ==
  IF env.quiet \/ value = Text(<<>>) THEN <<>>
  ELSE <<[name |-> name, value |-> value, repeated |-> env.repeated]>>
Between(env, s, end) == SubSeq(env.text, s + 1, end)

(* A rule called where one of its callers was called does not match.       *)
CallMeans(env, rule, name, s) ==
  LET inner == [env EXCEPT !.rule = rule, !.calls = @ \cup {<<rule, s>>}, !.repeated = FALSE]
      sub == IF rule \in DOMAIN env.grammar /\ <<rule, s>> \notin env.calls
             THEN Means(inner, env.grammar[rule].expr, s) ELSE No
      value == ValueOf(sub.captured, Between(env, s, sub.end))
  IN  CASE ~sub.ok -> No
        [] sub.ok /\ name \in env.grammar[env.rule].captures -> Yes(sub.end, Capturing(env, name, value))
        [] OTHER -> Yes(sub.end, <<>>)
LabelMeans(env, e, name, s) ==
  LET atom == Means(env, e, s)
  IN  IF e.op = "<" THEN CallMeans(env, e.written, name, s)
      ELSE Then(atom, [atom EXCEPT !.captured = Capturing(env, name, Text(Between(env, s, atom.end)))])

Means(env, e, s) ==
  CASE e.op = "char" -> When(s < Len(env.text) /\ env.text[s + 1] \in e.chars, s + 1)
    [] e.op = "^" -> When(s = 0 \/ env.text[s] = Newline, s)
    [] e.op = "$" -> When(s = Len(env.text) \/ env.text[s + 1] = Newline, s)
    [] e.op \in {"sequence", "("} -> AllMean(env, e.of, s)
    [] e.op = "|" -> FirstMeans(env, e.of, s)
    [] e.op = "?" -> FirstMeans(env, <<e.of[1], InTurn(<<>>)>>, s)
    [] e.op = "*" -> AgainMeans([env EXCEPT !.repeated = TRUE], e.of[1], s)
    [] e.op = "+" -> LET once == Means([env EXCEPT !.repeated = TRUE], e.of[1], s)
                     IN  IF once.ok THEN Then(once, AgainMeans([env EXCEPT !.repeated = TRUE], e.of[1], once.end))
                         ELSE No
    [] e.op = "&" -> When(Means([env EXCEPT !.quiet = TRUE], e.of[1], s).ok, s)
    [] e.op = "!" -> When(~Means([env EXCEPT !.quiet = TRUE], e.of[1], s).ok, s)
    [] e.op = "<" -> CallMeans(env, e.written, e.written, s)
    [] e.op = ":" -> LabelMeans(env, e.of[1], e.written, s)

(* The whole of TOP, from s on, in a text.                                 *)
Meaning(grammar, string, s) ==
  Means([grammar |-> grammar, text |-> string, rule |-> TOP, calls |-> {<<TOP, 0>>},
         quiet |-> FALSE, repeated |-> FALSE], grammar[TOP].expr, s)

----------------------------------------------------------------------------
(* What of a grammar Pegexp does not take the way it is documented.        *)

RECURSIVE Within(_)
Within(e) == {e} \cup UNION {Within(e.of[k]) : k \in DOMAIN e.of}
AllWithin(grammar) == UNION {Within(grammar[n].expr) : n \in DOMAIN grammar}

(* skip_atom goes past the whole of it.                                    *)
RECURSIVE SkippedWhole(_)
SkippedWhole(e) == CASE e.op \in {"?", "*", "+", "|"} -> FALSE
                     [] e.op \in {"&", "!"} -> SkippedWhole(e.of[1])
                     [] OTHER -> TRUE
SkipsRight(e) == CASE e.op \in {"?", "*", "+"} -> e.of[1].op \in {"?", "*"} \/ SkippedWhole(e.of[1])
                   [] e.op \in {"&", "!"} -> SkippedWhole(e.of[1])
                   [] OTHER -> TRUE
AllSkipsRight(grammar) == \A e \in AllWithin(grammar) : SkipsRight(e)

(* No name continues another with a digit, which sorts before a ">".       *)
NamesClear(grammar, digits) ==
  \A a, b \in DOMAIN grammar : Len(a) < Len(b) /\ IsPrefix(a, b) => b[Len(a) + 1] \notin digits

(* No label or rule continues the name of something captured.              *)
CapturesClear(grammar) ==
  \A name \in {e.written : e \in {x \in AllWithin(grammar) : x.op \in {":", "<"}}} :
    \A captured \in UNION {grammar[n].captures : n \in DOMAIN grammar} :
      IsPrefix(captured, name) => captured = name
=============================================================================
