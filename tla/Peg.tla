-------------------------------- MODULE Peg --------------------------------
(***************************************************************************)
(* Pegexp (include/pegexp.h), the matcher of prefix expressions, and the   *)
(* parser made of it: rules that call each other (include/peg.h) and a     *)
(* context for each call that keeps what it captures and how far the parse *)
(* has got (include/peg_ast.h).                                            *)
(*                                                                         *)
(* A pattern is interpreted where it stands: p is a place in it, counting  *)
(* from 1, s an offset in the text, counting from 0.  What a call of       *)
(* match_atom and the like works on and returns is a record m; c is what   *)
(* stays the same during the call.                                         *)
(***************************************************************************)
EXTENDS PegGrammar

CONSTANTS Grammars,      \* sets of rules: the expression of each and the labels it captures
          Texts,
          CodeOf,        \* the code of each character
          Property       \* the characters of \a \d \h \L \U \s \w, by their letter

VARIABLES rules, text,
          searching,     \* Pegexp::match, from one offset after another, or Peg::parse
          source,        \* where the next attempt begins
          m,             \* what the last attempt returned
          phase          \* "begin", "found" or "failed"

vars == <<rules, text, searching, source, m, phase>>

Empty == [ok |-> TRUE, p |-> 1, s |-> 0, ast |-> NoAst, num_captures |-> 0,
          furthermost |-> 0, failures |-> {}, odd |-> {}]

Ch(x, p) == IF p <= Len(x) THEN x[p] ELSE ""            \* a null at the end
Code(ch) == IF ch = "" THEN 0 ELSE CodeOf[ch]
AtEof(s) == s = Len(text)
AtExprEnd(x, p) == Ch(x, p) \in {"", ")"}

Alnum == Property["w"]
NameEnd(x, p) == Min({k \in p..Len(x) + 1 : Ch(x, k) \notin Alnum \cup {"_"}})
AfterLabel(x, p) == IF Ch(x, NameEnd(x, p)) = ":" THEN NameEnd(x, p) + 1 ELSE NameEnd(x, p)

----------------------------------------------------------------------------
(* A literal character, perhaps escaped: its code and the place after it.  *)

Octals == {"0", "1", "2", "3", "4", "5", "6", "7"}
DigitCode(ch) == CASE ch \in Octals \cup {"8", "9"} -> CodeOf[ch] - CodeOf["0"]
                   [] ch \in Property["U"] -> CodeOf[ch] - CodeOf["A"] + 10
                   [] OTHER -> CodeOf[ch] - CodeOf["a"] + 10
Controls == [c \in {"n", "t", "r", "b", "e", "f"} |->
               CASE c = "n" -> 10 [] c = "t" -> 9 [] c = "r" -> 13 [] c = "b" -> 8
                 [] c = "e" -> 27 [] c = "f" -> 12]
NoChar == 2147483647      \* the -1 of unhex as a Char: greater than any character

Lit(code, p) == [code |-> code, p |-> p]
Run(x, p, most, digits) == Max({k \in 0..most : \A j \in 0..k - 1 : Ch(x, p + j) \in digits})
Numeral(x, p, n, radix) == FoldLeft(LAMBDA v, d : v * radix + DigitCode(d), 0, SubSeq(x, p, p + n - 1))
CloseBrace(x, braces, lit) == IF braces /\ Ch(x, lit.p) = "}" THEN [lit EXCEPT !.p = @ + 1] ELSE lit

Digits(x, p, n, radix) == Lit(Numeral(x, p, n, radix), p + n)
Hex(x, p) == IF Ch(x, p) \notin Property["h"]
             THEN Lit(NoChar, IF Ch(x, p + 1) \in Property["h"] THEN p + 2 ELSE p + 1)
             ELSE Digits(x, p, Run(x, p, 2, Property["h"]), 16)
Unicode(x, p, most) == Digits(x, p, Run(x, p, most, Property["h"]), 16)
Braced(x, p) == Ch(x, p) = "{"

Escaped(x, p) ==
  CASE Ch(x, p) \in Octals -> Digits(x, p, Run(x, p, 3, Octals), 8)
    [] Ch(x, p) = "x" /\ Ch(x, p + 1) = "" -> Lit(0, p + 1)
    [] Ch(x, p) = "x" /\ Ch(x, p + 1) # "" ->
         CloseBrace(x, Braced(x, p + 1), Hex(x, IF Braced(x, p + 1) THEN p + 2 ELSE p + 1))
    [] Ch(x, p) = "u" ->
         IF Braced(x, p + 1) THEN CloseBrace(x, TRUE, Unicode(x, p + 2, 8)) ELSE Unicode(x, p + 1, 4)
    [] Ch(x, p) \in DOMAIN Controls -> Lit(Controls[Ch(x, p)], p + 1)
    [] OTHER -> Lit(Code(Ch(x, p)), p + 1)

LiteralChar(x, p) == CASE Ch(x, p) = "" -> Lit(0, p)
                       [] Ch(x, p) = "\\" -> Escaped(x, p + 1)
                       [] OTHER -> Lit(Code(Ch(x, p)), p + 1)

(* After a backslash: a property, or back to the literal.                  *)
CharProperty(x, p, ch) ==
  IF Ch(x, p) \in DOMAIN Property THEN [in |-> ch \in Property[Ch(x, p)], p |-> p + 1]
  ELSE LET lit == LiteralChar(x, p - 1) IN [in |-> lit.code = Code(ch), p |-> lit.p]

RECURSIVE ClassFrom(_, _, _, _), ClassEnd(_, _)
ClassRange(x, first, last, ch, in) ==
  ClassFrom(x, last.p, ch, in \/ (first.code <= Code(ch) /\ Code(ch) <= last.code))
ClassProperty(x, found, ch, in) == ClassFrom(x, found.p, ch, in \/ found.in)
ClassItem(x, first, ch, in) ==
  ClassRange(x, first, IF Ch(x, first.p) = "-" THEN LiteralChar(x, first.p + 1) ELSE first, ch, in)
ClassFrom(x, p, ch, in) ==
  CASE Ch(x, p) = "" -> [in |-> in, p |-> p]
    [] Ch(x, p) = "]" -> [in |-> in, p |-> p + 1]
    [] Ch(x, p) = "\\" /\ Ch(x, p + 1) \in Property["a"] \ {"x", "u"} ->
         ClassProperty(x, CharProperty(x, p + 1, ch), ch, in)
    [] OTHER -> ClassItem(x, LiteralChar(x, p), ch, in)
CharClass(x, p, ch) ==
  IF Ch(x, p) = "^" THEN LET class == ClassFrom(x, p + 1, ch, FALSE) IN [class EXCEPT !.in = ~@]
                    ELSE ClassFrom(x, p, ch, FALSE)

----------------------------------------------------------------------------
(* skip_atom: the place after an atom that is not matched.                 *)

RECURSIVE SkipAtom(_, _), SkipUntil(_, _, _)
SkipUntil(x, p, ends) == IF Ch(x, p) \in ends THEN p ELSE SkipUntil(x, SkipAtom(x, p), ends)
ClassEnd(x, p) ==
  CASE Ch(x, p) = "" -> p
    [] Ch(x, p) = "]" -> p + 1
    [] OTHER -> LET first == LiteralChar(x, p)
                IN  ClassEnd(x, IF Ch(x, first.p) = "-" THEN LiteralChar(x, first.p + 1).p ELSE first.p)
Find(x, p, ch) == IF \E k \in p..Len(x) : x[k] = ch THEN Min({k \in p..Len(x) : x[k] = ch}) ELSE Len(x)
GroupEnd(x, p) == IF Ch(x, p) = "" THEN p ELSE p + 1

SkipOne(x, p) ==
  CASE Ch(x, p) = "\\" -> LiteralChar(x, p).p
    [] Ch(x, p) = "[" -> ClassEnd(x, IF Ch(x, p + 1) = "^" THEN p + 2 ELSE p + 1)
    [] Ch(x, p) = "(" -> GroupEnd(x, SkipUntil(x, p + 1, {"", ")"}))
    [] Ch(x, p) = "|" -> SkipUntil(x, p + 1, {"", ")", "|"})
    [] Ch(x, p) \in {"&", "!"} -> SkipAtom(x, p + 1)
    [] Ch(x, p) = "<" -> Find(x, p, ">") + 1
    [] OTHER -> p + 1                 \* of a repetition, only the operator
SkipLabel(x, p) == IF Ch(x, p) = ":" THEN AfterLabel(x, p + 1) ELSE p
SkipAtom(x, p) == SkipLabel(x, SkipOne(x, p))

----------------------------------------------------------------------------
(* The context: captures, their rollback, failures.                        *)

(* What was matched is the text, or what the context has captured.         *)
MatchResult(c, r, from) ==
  IF Len(c.calls) = 1 \/ r.num_captures > 0 THEN Ast(r.ast) ELSE Text(SubSeq(text, from + 1, r.s))

(* CowMap::put erases the old entry before it stops sharing: a value that  *)
(* is this context's own ast loses the entry with it (cowmap.h, l.76-83).  *)
Erased(value, name, own) ==
  IF own THEN [value EXCEPT !.ast = Restrict(@, DOMAIN @ \ {name})] ELSE value
Capture(r, name, value, own, in_repetition) ==
  IF value.text = <<>> /\ ~value.is_ast THEN r
  ELSE [r EXCEPT !.num_captures = @ + 1,
                 !.ast = IF name \in DOMAIN @
                         THEN [@ EXCEPT ![name] = Entry(TRUE, Append(@.values, Erased(value, name, own)))]
                         ELSE @ @@ (name :> Entry(in_repetition, <<value>>))]

(* Only to zero: otherwise all captures are kept, with a complaint.        *)
Odd(r, what) == [r EXCEPT !.odd = @ \cup {what}]
KeepCaptures(r, count) == r                  \* (Mutant: captures of what failed stay.)
Rollback(r, count) ==
  CASE count >= r.num_captures -> r
    [] count < r.num_captures /\ count = 0 -> [r EXCEPT !.ast = NoAst, !.num_captures = 0]
    [] count < r.num_captures /\ count > 0 -> Odd(r, "partial rollback")

Operators == {"~", "@", "#", "%", "_", ";", "<", ")", "^", "$", ".", "\\", "?", "*", "+", "(",
              "|", "&", "!"}
RecordEvery(c, r, op, location) ==           \* (Mutant: earlier failures are not dropped.)
  IF location < r.furthermost \/ c.capture_disabled > 0 \/ Ch(c.pattern, op) \in Operators THEN r
  ELSE [r EXCEPT !.furthermost = location, !.failures = @ \cup {<<c.rule, op>>}]
RecordFailure(c, r, op, location) ==
  IF location < r.furthermost \/ c.capture_disabled > 0 \/ Ch(c.pattern, op) \in Operators THEN r
  ELSE [r EXCEPT !.furthermost = location,
                 !.failures = (IF r.furthermost < location THEN {} ELSE @) \cup {<<c.rule, op>>}]

----------------------------------------------------------------------------
(* lookup: a binary search of the rules in the order of their names for    *)
(* the name that begins the key; a > or the end must follow it.            *)

Differ(a, b) == Min({k \in 1..Len(b) + 1 : k = Len(b) + 1 \/ Ch(a, k) # Ch(b, k)})
StrLess(a, b) == Code(Ch(a, Differ(a, b))) < Code(Ch(b, Differ(a, b)))
Sorted == [k \in 1..Cardinality(DOMAIN rules) |->
             CHOOSE name \in DOMAIN rules : Cardinality({n \in DOMAIN rules : StrLess(n, name)}) = k - 1]
CompareStart(key, name) ==                   \* (Mutant: the key may go on.)
  IF Differ(key, name) <= Len(name) THEN Code(Ch(key, Differ(key, name))) - Code(name[Differ(key, name)])
  ELSE 0
Compare(key, name) ==
  CASE Differ(key, name) <= Len(name) -> Code(Ch(key, Differ(key, name))) - Code(name[Differ(key, name)])
    [] Differ(key, name) > Len(name) /\ Ch(key, Len(name) + 1) \in {">", ""} -> 0
    [] OTHER -> 1
RECURSIVE Search(_, _, _, _)
Search(names, key, from, to) ==
  IF from >= to THEN {}
  ELSE LET middle == (from + to) \div 2
           order == Compare(key, names[middle + 1])
       IN  CASE order = 0 -> {names[middle + 1]}
             [] order < 0 -> Search(names, key, from, middle)
             [] order > 0 -> Search(names, key, middle + 1, to)
Lookup(key) == LET names == Sorted IN Search(names, key, 0, Len(names))

(* A rule is not entered again where one of its callers entered it.        *)
LeftRecursion(c, rule, s) == \E k \in DOMAIN c.calls : c.calls[k] = <<rule, s>>
IsCaptured(rule, label) == \E n \in rules[rule].captures : IsPrefix(n, label)

Context(rule, s, calls, disabled) ==
  [rule |-> rule, pattern |-> rules[rule].pattern, calls |-> Append(calls, <<rule, s>>),
   capture_disabled |-> disabled, nesting |-> 0]

----------------------------------------------------------------------------
(* The matcher.  A failure restores the text, and the place of the pattern *)
(* except in a list of alternates, where it is that of the last one.       *)

RECURSIVE MatchAtom(_, _), SequenceFrom(_, _, _), Iterate(_, _, _, _), RunAlternate(_, _),
          EndAlternates(_, _), Alternates(_, _, _)

At(r, p) == [r EXCEPT !.p = p]
With(value, Body(_)) == CHOOSE x \in {Body(v) : v \in {value}} : TRUE     \* evaluated once
Matched(r, ok, p, s) == IF ok THEN [r EXCEPT !.p = p, !.s = s] ELSE [r EXCEPT !.ok = FALSE]

MatchSequence(c, r) == IF AtExprEnd(c.pattern, r.p) THEN r
                       ELSE SequenceFrom(c, r, r.num_captures)
SequenceFrom(c, r, captures) ==
  With(MatchAtom(c, r),
       LAMBDA next : CASE ~next.ok -> Rollback(next, captures)
                       [] next.ok /\ AtExprEnd(c.pattern, next.p) -> next
                       [] OTHER -> SequenceFrom(c, next, captures))

(* match_here: to the end of the pattern, which a ) does not close.        *)
MatchHere(c, r) == With(MatchSequence(c, r),
                        LAMBDA end : [end EXCEPT !.ok = @ /\ Ch(c.pattern, end.p) = ""])

(* ? * and +: the atom that follows, as often as it matches and advances.  *)
Iterate(c, r, repeat, once) ==
  With(MatchAtom(c, At(r, repeat)),
       LAMBDA next : CASE ~next.ok -> [Rollback(next, r.num_captures)
                                        EXCEPT !.ok = TRUE, !.p = SkipAtom(c.pattern, next.p)]
                       [] next.ok /\ (once \/ next.s = r.s) -> next
                       [] OTHER -> Iterate(c, next, repeat, once))
Repeating(c) == [c EXCEPT !.nesting = @ + 1]
Repetition(c, r, op) ==
  CASE op = "?" -> Iterate(c, r, r.p + 1, TRUE)
    [] op = "*" -> Iterate(Repeating(c), r, r.p + 1, FALSE)
    [] op = "+" -> With(MatchAtom(Repeating(c), At(r, r.p + 1)),
                        LAMBDA first : IF first.ok THEN Iterate(Repeating(c), first, r.p + 1, FALSE)
                                       ELSE first)

Group(c, r) == With(MatchSequence(c, At(r, r.p + 1)),
                    LAMBDA end : IF end.ok THEN At(end, GroupEnd(c.pattern, end.p)) ELSE end)

(* | each alternate from the start; the first to match ends them.          *)
RunAlternate(c, r) ==
  With(MatchAtom(c, r),
       LAMBDA next : IF ~next.ok \/ Ch(c.pattern, next.p) \in {"", ")", "|"} THEN next
                     ELSE RunAlternate(c, next))
StayAtAlternate(x, p) == p                   \* (Mutant: the other alternates are matched too.)
EndAlternates(x, p) == IF Ch(x, p) = "|" THEN EndAlternates(x, SkipAtom(x, p)) ELSE p
NextAlternate(c, r, this, end, following) ==
  IF Ch(c.pattern, following) = "|"
  THEN Alternates(c, [Rollback(end, r.num_captures) EXCEPT !.ok = TRUE, !.s = r.s], following)
  ELSE At(end, this + 1)
Alternates(c, r, this) ==
  With(RunAlternate(c, At(r, this + 1)),
       LAMBDA end : IF end.ok THEN At(end, EndAlternates(c.pattern, end.p))
                    ELSE NextAlternate(c, r, this, end, SkipAtom(c.pattern, this)))

Lookahead(c, r, op) ==
  With(MatchAtom([c EXCEPT !.capture_disabled = @ + 1], At(r, r.p + 1)),
       LAMBDA seen : Matched([seen EXCEPT !.ok = TRUE], seen.ok = (op = "&"),
                             SkipAtom(c.pattern, r.p), r.s))

(* < the call of a rule, which may be labelled.                            *)
CallEnd(x, p) == IF \E k \in p..Len(x) : x[k] = ">" THEN Find(x, p, ">") + 1 ELSE Len(x) + 1
ParseCall(x, p) ==
  LET end == CallEnd(x, p)
  IN  IF Ch(x, end) = ":"
      THEN [rule_name |-> SubSeq(x, p, Len(x)), label |-> SubSeq(x, end + 1, Len(x)),
            name |-> SubSeq(x, end + 1, NameEnd(x, end + 1) - 1), call_end |-> AfterLabel(x, end + 1)]
      ELSE [rule_name |-> SubSeq(x, p, Len(x)), label |-> <<>>, name |-> <<>>, call_end |-> end]

Return(c, r, call, rule, inner, sub) ==
  LET label == IF call.label = <<>> THEN rule ELSE call.label
      name == IF call.label = <<>> THEN rule ELSE call.name
      reached == [r EXCEPT !.furthermost = sub.furthermost, !.failures = sub.failures, !.odd = sub.odd]
      after == [reached EXCEPT !.p = call.call_end, !.s = sub.s]
  IN  CASE ~sub.ok -> [reached EXCEPT !.ok = FALSE]
        [] sub.ok /\ c.capture_disabled = 0 /\ IsCaptured(c.rule, label) ->
             Capture(after, name, MatchResult(inner, sub, r.s), FALSE, c.nesting > 0)
        [] OTHER -> after
Recurse(c, r, call, rule) ==
  LET inner == Context(rule, r.s, c.calls, c.capture_disabled)
  IN  IF LeftRecursion(c, rule, r.s) THEN [r EXCEPT !.ok = FALSE]
      ELSE With(MatchHere(inner, [r EXCEPT !.p = 1, !.ast = NoAst, !.num_captures = 0]),
                LAMBDA sub : Return(c, r, call, rule, inner, sub))
CallFound(c, r, call, found) ==
  IF found = {} THEN [r EXCEPT !.ok = FALSE] ELSE Recurse(c, r, call, CHOOSE rule \in found : TRUE)
Call(c, r) == With(ParseCall(c.pattern, r.p + 1),
                   LAMBDA call : With(Lookup(call.rule_name), LAMBDA found : CallFound(c, r, call, found)))

Next1(r) == Ch(text, r.s + 1)
Class(c, r, class) == Matched(r, ~AtEof(r.s) /\ class.in, class.p, r.s + 1)
Try(c, r, rc) ==
  CASE rc = "" -> r
    [] rc = ")" -> At(r, r.p + 1)
    [] rc = "^" -> Matched(r, r.s = 0 \/ Ch(text, r.s) = Newline, r.p + 1, r.s)
    [] rc = "$" -> Matched(r, AtEof(r.s) \/ Next1(r) = Newline, r.p + 1, r.s)
    [] rc = "." -> Matched(r, ~AtEof(r.s), r.p + 1, r.s + 1)
    [] rc = "\\" -> Class(c, r, CharProperty(c.pattern, r.p + 1, Next1(r)))
    [] rc = "[" -> Class(c, r, CharClass(c.pattern, r.p + 1, Next1(r)))
    [] rc \in {"?", "*", "+"} -> Repetition(c, r, rc)
    [] rc = "(" -> Group(c, r)
    [] rc = "|" -> Alternates(c, r, r.p)
    [] rc \in {"&", "!"} -> Lookahead(c, r, rc)
    [] rc = "<" -> Call(c, r)
    [] OTHER -> Matched(r, ~AtEof(r.s) /\ rc = Next1(r), r.p + 1, r.s + 1)

Composite == {"", "?", "*", "+", "(", "|", "&", "!"}
Failed(c, r, t, rc) ==
  LET back == Rollback(t, r.num_captures)
      seen == IF rc \in Composite THEN back ELSE RecordFailure(c, back, r.p, r.s)
  IN  [seen EXCEPT !.ok = FALSE, !.p = IF rc = "|" THEN t.p ELSE r.p, !.s = r.s]

(* A label captures what the atom matched, or all the captures there are.  *)
Label(c, r, t) ==
  LET from == t.p + 1
      after == At(t, AfterLabel(c.pattern, from))
      value == MatchResult(c, t, r.s)
      noted == IF value.is_ast THEN Odd(after, "ast for text") ELSE after
  IN  CASE Ch(c.pattern, t.p) # ":" -> t
        [] Ch(c.pattern, t.p) = ":" /\ c.capture_disabled > 0 -> after
        [] OTHER -> Capture(noted, SubSeq(c.pattern, from, NameEnd(c.pattern, from) - 1), value,
                            value.is_ast, c.nesting > 0)

Ended(c, r, rc, t) == IF t.ok THEN Label(c, r, t) ELSE Failed(c, r, t, rc)
MatchAtom(c, r) == With(Try(c, r, Ch(c.pattern, r.p)),
                        LAMBDA t : Ended(c, r, Ch(c.pattern, r.p), t))

----------------------------------------------------------------------------
(* Peg::parse and Pegexp::match.                                           *)

Init == /\ rules \in Grammars
        /\ text \in Texts
        /\ searching \in BOOLEAN
        /\ source = 0
        /\ m = Empty
        /\ phase = "begin"

Top == Context(TOP, 0, <<>>, 0)
Attempt == /\ phase = "begin"
           /\ m' = MatchHere(Top, [Rollback(m, 0) EXCEPT !.ok = TRUE, !.p = 1, !.s = source])
           /\ phase' = "tried"
           /\ UNCHANGED <<rules, text, searching, source>>

(* A parse leaves the source behind the match, a search before it.         *)
Found == /\ phase = "tried" /\ m.ok
         /\ phase' = "found"
         /\ source' = IF searching THEN source ELSE m.s
         /\ UNCHANGED <<rules, text, searching, m>>

MoveOn == /\ phase = "tried" /\ ~m.ok /\ searching /\ ~AtEof(source)
          /\ source' = source + 1
          /\ phase' = "begin"
          /\ UNCHANGED <<rules, text, searching, m>>

GiveUp == /\ phase = "tried" /\ ~m.ok /\ (searching => AtEof(source))
          /\ phase' = "failed"
          /\ UNCHANGED <<rules, text, searching, source, m>>

Match == Attempt \/ Found \/ MoveOn \/ GiveUp
Spec == Init /\ [][Match]_vars

----------------------------------------------------------------------------
(* Properties.                                                             *)

RightlyNamed == NamesClear(rules, Property["d"])

(* A search finds the first place where the whole expression matches, and  *)
(* a parse whether it matches at the start, up to the end that the grammar *)
(* means: alternates in their order, repetitions as long as they last,     *)
(* nothing taken back (pegexp.h, l.16-22 and l.46-49).  Not where skip_atom*)
(* has to skip a repetition or a list of alternates on its own.            *)
MatchStarts == IF searching THEN 0..Len(text) ELSE {0}
Matching == {k \in MatchStarts : Meaning(rules, text, k).ok}
AsMeant ==
  /\ (phase = "found") = (Matching # {})
  /\ phase = "found" =>
       LET first == Min(Matching)
           end == Meaning(rules, text, first).end
       IN  m.s = end /\ source = (IF searching THEN first ELSE end)
Returned == phase \in {"found", "failed"}
MatchesAsPeg == Returned /\ RightlyNamed /\ AllSkipsRight(rules) => AsMeant

(* A successful parse has captured what the calls and labels on its way    *)
(* matched, and nothing of what was tried and given up (peg_ast.h,         *)
(* l.149-205).  Not where a sequence fails after an earlier capture, nor   *)
(* where a labelled text follows one: see LabelsTakeText.                  *)
CapturedAsMeant == m.ast = AstOf(Meaning(rules, text, IF searching THEN source ELSE 0).captured)
CapturesAsParsed ==
  phase = "found" /\ m.odd = {} /\ RightlyNamed /\ AllSkipsRight(rules) /\ CapturesClear(rules)
    => CapturedAsMeant

(* The search for a called rule finds it, whatever other rules there are,  *)
(* unless one continues its name with a digit (peg.h, l.246 and l.276).    *)
AllFound == \A name \in DOMAIN rules : Lookup(Append(name, ">")) = {name}
LookupFinds == RightlyNamed => AllFound

(* What the parser says it could have gone on with does fail at the place  *)
(* that it says it got to: no failure of an earlier place stays in the     *)
(* list (peg_ast.h, l.207-240).                                            *)
FailuresThere ==
  \A f \in m.failures :
    ~MatchAtom(Context(f[1], 0, <<>>, 0), [Empty EXCEPT !.p = f[2], !.s = m.furthermost]).ok

(* What pegexp.h, l.10-49, says without the exceptions: a prefix operator  *)
(* is of the expression that follows it, whatever that is.                 *)
AnyMatchesAsPeg == Returned /\ RightlyNamed => AsMeant

(* Peg::Peg, l.246: the rules are sorted by name "such that a binary       *)
(* search works".                                                          *)
SearchWorks == AllFound

(* pegexp.h, l.39-40: the contents of a labelled atom are captured.        *)
LabelsTakeText ==
  phase = "found" /\ m.odd \subseteq {"ast for text"} /\ RightlyNamed /\ AllSkipsRight(rules)
    /\ CapturesClear(rules) => CapturedAsMeant
=============================================================================
