------------------------------- MODULE RxScan -------------------------------
(***************************************************************************)
(* RxCompiler::scanRegex of src/rx/rxcompile.cpp: the scanner that turns   *)
(* the text of an expression into tokens, and calls back with each.  Which *)
(* characters are special depends on the features that are enabled.        *)
(*                                                                         *)
(* Offsets count from 0.  Ordinary characters are delayed, to be delivered *)
(* together as one Literal; what is special must flush them first.  A      *)
(* token also has the part of the text it stands for, from..to - 1, which  *)
(* the code does not keep.                                                 *)
(***************************************************************************)
EXTENDS Integers, Sequences, FiniteSetsExt

CONSTANTS Texts,            \* expressions: sequences of characters
          Configurations,   \* what the constructor is given: features and reject_features
          Refuses(_, _),    \* after the tokens, the callback returns false for the token
          White,            \* white space
          DigitValue,       \* the value of the characters that are digits
          RangeLimit,       \* counts of repetitions are kept modulo this (65536)
          LongSize,         \* the number of values of an unsigned long (2^64, or 2^32)
          IntSize           \* ... and of an int32_t (2^32)

ASSUME RxScanAssumption ==
  /\ Texts \subseteq Seq(STRING \ {""})
  /\ White \cap {"^", "$", "*", "+", "{", "[", "|", "(", ".", ")", "?", "\\"} = {}
  /\ DigitValue \in [DOMAIN DigitValue -> Nat]
  /\ RangeLimit \in Nat \ {0}

ASSUME WidthAssumption == LongSize \in Nat /\ IntSize \in Nat \ {0}

VARIABLES re, features_enabled, features_rejected,
          i,                \* the offset of the next character
          delayed,          \* the literal that is not delivered yet
          tokens, ok,       \* what was delivered; the callback's answer
          error_message, error_offset,
          returned          \* "", then "accepted" or "failed"

config == <<re, features_enabled, features_rejected>>
vars == <<config, i, delayed, tokens, ok, error_message, error_offset, returned>>

Token(op, str, min, max, from, to) ==
  [op |-> op, str |-> str, min |-> min, max |-> max, from |-> from, to |-> to]
Start == Token("Start", <<>>, 0, 0, 0, 0)
Nothing == [str |-> <<>>, from |-> 0, to |-> 0]

Init == /\ re \in Texts
        /\ \E c \in Configurations : /\ features_enabled = c.features \ c.rejected
                                     /\ features_rejected = c.rejected
        /\ i = 0 /\ delayed = Nothing /\ tokens = <<Start>> /\ ok = ~Refuses(<<>>, Start)
        /\ error_message = "" /\ error_offset = 0 /\ returned = ""

Enabled(feature) == feature \in features_enabled
Rejection(features) == IF features \cap features_rejected = {} THEN error_message
                                                               ELSE "Rejected feature"

Ch(k) == IF k < Len(re) THEN re[k + 1] ELSE ""          \* a null at the end
Rest(k) == SubSeq(re, k + 1, Len(re))
Slice(k, to) == SubSeq(re, k + 1, to)

(* The offset of the first of these characters from k on, or -1.           *)
Find(k, ch) == IF \E j \in k..Len(re) - 1 : Ch(j) = ch
               THEN Min({j \in k..Len(re) - 1 : Ch(j) = ch}) ELSE -1

----------------------------------------------------------------------------
(* StrVal::asInt32: white space, a sign, white space, digits, white space. *)

Past(s, k, chars) == Min({j \in k..Len(s) + 1 : j = Len(s) + 1 \/ s[j] \notin chars})
DigitsOf(radix) == {d \in DOMAIN DigitValue : DigitValue[d] < radix}
ValueOf(s, radix) ==
  LET Value[k \in 0..Len(s)] == IF k = 0 THEN 0 ELSE Value[k - 1] * radix + DigitValue[s[k]]
  IN  Value[Len(s)]

Number(value, scanned, error) == [value |-> value, scanned |-> scanned - 1, error |-> error]
Int32(x) == ((x + IntSize \div 2) % IntSize) - (IntSize \div 2)

(* The digits are gathered in an unsigned long, and the first that it has  *)
(* no room for ends the scan.  The result is made an int32_t as it is: it  *)
(* is an overflow only if a long does not hold it.                         *)
Overflows(s, radix, start, end) ==
  {k \in start..end - 1 : ValueOf(SubSeq(s, start, k), radix) >= LongSize}
Gathered(l, sign, past, len) ==
  Number(Int32(sign * l), past,
         IF l >= (LongSize \div 2) + (IF sign = -1 THEN 1 ELSE 0) THEN "overflow"
         ELSE IF past <= len THEN "trailing text" ELSE "")
Digits(s, radix, sign, start, end) ==
  IF start > Len(s) THEN Number(0, start, "no digits")
  ELSE IF start = end THEN Number(0, start, "not a number")
  ELSE IF Overflows(s, radix, start, end) # {}
  THEN Number(0, Min(Overflows(s, radix, start, end)) + 1, "overflow")
  ELSE Gathered(ValueOf(SubSeq(s, start, end - 1), radix), sign, Past(s, end, White), Len(s))
Signed(s, radix, k) ==
  LET signed == k <= Len(s) /\ s[k] \in {"+", "-"}
      start == IF signed THEN Past(s, k + 1, White) ELSE k
  IN  Digits(s, radix, IF signed /\ s[k] = "-" THEN -1 ELSE 1, start, Past(s, start, DigitsOf(radix)))
AsInt(s, radix) == Signed(s, radix, Past(s, 1, White))

----------------------------------------------------------------------------
(* One turn of the loop.  m is what it changes besides the offset.         *)

Now == [tokens |-> tokens, delayed |-> delayed, ok |-> ok]

Deliver(m, token) ==
  [tokens |-> Append(m.tokens, token), delayed |-> m.delayed, ok |-> ~Refuses(m.tokens, token)]
Flush(m) == IF m.delayed.str = <<>> THEN m
            ELSE Deliver([m EXCEPT !.delayed = Nothing],
                         Token("Literal", m.delayed.str, 0, 0, m.delayed.from, m.delayed.to))
DeliverOnly(token) == Deliver(Now, token)         \* (Mutant: what is special does not flush.)
FlushAnd(token) == Deliver(Flush(Now), token)

(* An ordinary character, whose text ends at last, can be delayed with     *)
(* those before it unless it is repeated.                                  *)
Repeaters == {"*", "+", "?", "{"}
Add(m, ch, last) ==
  [m EXCEPT !.delayed = [str |-> Append(@.str, ch), to |-> last + 1,
                         from |-> IF @.str = <<>> THEN i ELSE @.from]]
DelayAlways(ch, last) == Add(Now, ch, last)       \* (Mutant: a repeated character is not apart.)
DelayAfresh(ch, last) ==                          \* (Mutant: apart, but the others are dropped.)
  Add(IF Ch(last + 1) \in Repeaters THEN [Now EXCEPT !.delayed = Nothing] ELSE Now, ch, last)
Delay(ch, last) == Add(IF Ch(last + 1) \in Repeaters THEN Flush(Now) ELSE Now, ch, last)

Turn(m, last, message) ==
  /\ i' = last + 1
  /\ tokens' = m.tokens /\ delayed' = m.delayed /\ ok' = m.ok
  /\ error_message' = message
  /\ error_offset' = IF ~m.ok \/ message # "" THEN last ELSE error_offset
  /\ UNCHANGED <<config, returned>>

(* What is special flushes first, and does no more if this is refused.     *)
Refused == /\ ~Flush(Now).ok
           /\ Turn(Flush(Now), IF Ch(i) = "\\" THEN i + 1 ELSE i, error_message)
Tell(token, last, message) ==
  \/ Flush(Now).ok /\ Turn(FlushAnd(token), last, message)
  \/ Refused
Single(op, min, max, last, message) == Tell(Token(op, <<>>, min, max, i, last + 1), last, message)
Error(last, message) == \/ Flush(Now).ok /\ Turn(Flush(Now), last, message)
                        \/ Refused

At(chars) == returned = "" /\ ok /\ i < Len(re) /\ Ch(i) \in chars

----------------------------------------------------------------------------
(* Characters that are special when their feature is enabled               *)

FeatureOf == [c \in {"^", "$", "*", "+", "{", "[", "|", "("} |->
               CASE c = "^" -> "BOL" [] c = "$" -> "EOL" [] c = "*" -> "ZeroOrMore"
                 [] c = "+" -> "OneOrMore" [] c = "{" -> "CountRepetition"
                 [] c = "[" -> "CharClasses" [] c = "|" -> "Alternates" [] c = "(" -> "Group"]
Special(ch) == At({ch}) /\ Enabled(FeatureOf[ch])

Ordinary(ch) ==
  /\ ch \notin {"?", "\\"}
  /\ ch \in DOMAIN FeatureOf => ~Enabled(FeatureOf[ch])
  /\ ch = "." => Enabled("AnyIsQuest")
  /\ ch = ")" => ~Enabled("Group")
  /\ ch \in White => ~Enabled("ExtendedRE")

ScanSimple ==
  /\ At({Ch(i)}) /\ Ordinary(Ch(i))
  /\ Turn(Delay(Ch(i), i), i,
          IF Ch(i) \in DOMAIN FeatureOf THEN Rejection({FeatureOf[Ch(i)]}) ELSE error_message)

ScanLine == \/ Special("^") /\ Single("BOL", 0, 0, i, error_message)
            \/ Special("$") /\ Single("EOL", 0, 0, i, error_message)

ScanAny == /\ At({".", "?"}) /\ ~Ordinary(Ch(i)) /\ (Ch(i) = "?" <=> Enabled("AnyIsQuest"))
           /\ Single("Any", 0, 0, i, error_message)

ScanOptional == /\ At({"?"}) /\ ~Enabled("AnyIsQuest")
                /\ Single("Repetition", 0, 1, i, error_message)

ScanStar ==
  /\ Special("*")
  /\ IF Enabled("ZeroOrMoreAny") /\ Flush(Now).ok
     THEN Turn(Deliver(FlushAnd(Token("Any", <<>>, 0, 0, i, i)),
                       Token("Repetition", <<>>, 0, 0, i, i + 1)), i, error_message)
     ELSE Single("Repetition", 0, 0, i, error_message)

ScanPlus == Special("+") /\ Single("Repetition", 1, 0, i, error_message)

(* {n}, {n,}, {,m} or {n,m}.  The comma is looked for in all the rest.     *)
Close == IF Find(i + 1, ",") >= 0 THEN Find(i + 1, ",") ELSE Find(i + 1, "}")
BadNumber(int) == int.error \notin {"", "no digits"}
Minimum == IF Close = i + 1 THEN Number(0, 1, "") ELSE AsInt(Slice(i + 1, Close), 10)
Maximum(end) == AsInt(Slice(Close + 1, end), 10)
Counted(min, max, last) ==
  Single("Repetition", min % RangeLimit, max % RangeLimit, last, error_message)
BadRepetition(last) == Error(last, "Bad repetition count")

ScanCount ==
  /\ Special("{")
  /\ IF Close < 0 \/ BadNumber(Minimum) \/ Minimum.value < 0 THEN BadRepetition(i + 1)
     ELSE IF Ch(Close) = "}" THEN Counted(Minimum.value, Minimum.value, Close)
     ELSE LET end == Find(Close + 1, "}") IN
          IF \/ end < 0 \/ BadNumber(Maximum(end))
             \/ Maximum(end).value # 0 /\ Maximum(end).value < Minimum.value
          THEN BadRepetition(Close + 1)
          ELSE Counted(Minimum.value, Maximum(end).value, end)

(* A class is a sequence of pairs, the ends of a range.  The first of its  *)
(* characters may be a - or a ], any may follow a backslash.  The pairs    *)
(* are read one after the other to the ] or the end of the text.           *)
Unescaped(k) == IF Ch(k) = "\\" THEN k + 1 ELSE k
IsRange(k) == Ch(k + 1) = "-" /\ Ch(k + 2) # "]"
ClassRange(start, end, str) ==
  IF Ch(start) = "" \/ Ch(end) = "" THEN [at |-> end, str |-> str]
  ELSE [at |-> end + 1, str |-> str \o <<Ch(start), Ch(end)>>]
ClassPair(class) ==
  IF Ch(class.at) \in {"", "]"} THEN class
  ELSE LET start == Unescaped(class.at)
       IN  ClassRange(start, IF IsRange(start) THEN Unescaped(start + 2) ELSE start, class.str)
ClassFrom(k, str) ==
  LET class[n \in 0..Len(re)] == IF n = 0 THEN [at |-> k, str |-> str] ELSE ClassPair(class[n - 1])
  IN  class[Len(re)]
Class(k) == IF Ch(k) \in {"-", "]"} THEN ClassFrom(k + 1, <<Ch(k), Ch(k)>>) ELSE ClassFrom(k, <<>>)
Classed(op, class) ==
  IF Ch(class.at) = "]"
  THEN Tell(Token(op, class.str, 0, 0, i, class.at + 1), class.at, error_message)
  ELSE Error(class.at, "Bad character class")

ScanClass == /\ Special("[")
             /\ IF Ch(i + 1) = "^" THEN Classed("NegCharClass", Class(i + 2))
                                   ELSE Classed("CharClass", Class(i + 1))

ScanAlternate == Special("|") /\ Single("Alternate", 0, 0, i, error_message)

(* Which group it is, is asked in this order, and asking for a rejected    *)
(* one is an error even if it is another.                                  *)
Parens == {"Capture", "NonCapture", "NegLookahead"}
HasKind == features_enabled \cap Parens # {} /\ Ch(i + 1) = "?"
IsNamed == Enabled("Capture") /\ Ch(i + 2) = "<"
IsGroup == ~IsNamed /\ Enabled("NonCapture") /\ Ch(i + 2) = ":"
IsLookahead == ~IsNamed /\ ~IsGroup /\ Enabled("NegLookahead") /\ Ch(i + 2) = "!"

ScanGroup == /\ Special("(") /\ ~HasKind
             /\ Single("NonCapturingGroup", 0, 0, i, error_message)
ScanNamed ==
  /\ Special("(") /\ HasKind /\ IsNamed
  /\ LET end == Find(i + 3, ">") IN
     IF end <= i + 3 THEN Error(i + 3, "Invalid group name")
     ELSE Tell(Token("NamedCapture", Slice(i + 3, end), 0, 0, i, end + 1), end, error_message)
ScanNonCapture == /\ Special("(") /\ HasKind /\ IsGroup
                  /\ Single("NonCapturingGroup", 0, 0, i + 2, Rejection({"Capture"}))
ScanLookahead ==
  /\ Special("(") /\ HasKind /\ IsLookahead
  /\ Single("NegLookahead", 0, 0, i + 2, Rejection({"Capture", "NonCapture"}))
ScanIllegalGroup == /\ Special("(") /\ HasKind /\ ~IsNamed /\ ~IsGroup /\ ~IsLookahead
                    /\ Error(i + 2, "Illegal group type")

ScanEndGroup == /\ At({")"}) /\ ~Ordinary(")")
                /\ Single("EndGroup", 0, 0, i, error_message)

(* White space is skipped, and after it a comment to the end of the line.  *)
ScanWhite ==
  /\ At(White) /\ ~Ordinary(Ch(i))
  /\ Turn(Now, IF Ch(i + 1) # "#" THEN i
               ELSE IF Find(i + 2, "\n") >= 0 THEN Find(i + 2, "\n") ELSE Len(re), error_message)

----------------------------------------------------------------------------
(* Escapes                                                                 *)

Escape == At({"\\"})
EscapeFeature(ch) ==
  CASE ch \in {"b", "e", "f", "n", "t", "r"} -> "CEscapes"
    [] ch \in DigitsOf(8) -> "OctalChar"
    [] ch = "x" -> "HexChar"
    [] ch = "u" -> "UnicodeChar"
    [] ch \in {"s", "d", "h"} -> "Shorthand"
    [] ch = "p" -> "PropertyChars"
    [] OTHER -> "none"
Escapes(feature) == Escape /\ EscapeFeature(Ch(i + 1)) = feature /\ Enabled(feature)

ScanEscaped == /\ Escape /\ ~Enabled(EscapeFeature(Ch(i + 1)))
               /\ Turn(Delay(Ch(i + 1), i + 1), i + 1, error_message)

Control == [ch \in {"b", "e", "f", "n", "t", "r"} |->
             CASE ch = "b" -> 8 [] ch = "e" -> 27 [] ch = "f" -> 12 [] ch = "n" -> 10
               [] ch = "t" -> 9 [] ch = "r" -> 13]
ScanControl == /\ Escapes("CEscapes")
               /\ Turn(Delay(Control[Ch(i + 1)], i + 1), i + 1, error_message)

(* The digits are looked for in the next width characters from k; what     *)
(* asInt32 passes over, white space and a sign included, is taken.         *)
Numeric(int, k, message) ==
  IF int.error \in {"", "trailing text"} /\ int.scanned > 0
  THEN Turn(Delay(int.value, k + int.scanned - 1), k + int.scanned - 1, error_message)
  ELSE Turn(Now, k, message)
NumberIn(k, width, radix) == AsInt(Slice(k, IF k + width <= Len(re) THEN k + width ELSE Len(re)), radix)

ScanNumeric ==
  \/ Escapes("OctalChar") /\ Numeric(NumberIn(i + 1, 3, 8), i + 1, "Illegal octal character")
  \/ Escapes("HexChar") /\ Numeric(NumberIn(i + 2, 2, 16), i + 2, "Illegal hexadecimal character")
  \/ Escapes("UnicodeChar") /\ Numeric(NumberIn(i + 2, 5, 16), i + 2, "Illegal Unicode escape")

ScanShorthand ==
  /\ Escapes("Shorthand")
  /\ Tell(Token("CharProperty", <<Ch(i + 1)>>, 0, 0, i, i + 2), i + 1, error_message)

ScanProperty ==
  /\ Escapes("PropertyChars")
  /\ LET end == Find(i + 3, "}") IN
     IF Ch(i + 2) # "{" \/ end <= i + 3 THEN Error(i + 2, "Illegal Posix character specification")
     ELSE Tell(Token("CharProperty", Slice(i + 3, end), 0, 0, i, end + 1), end, error_message)

----------------------------------------------------------------------------
(* The end of the text, or of the callback's patience.                     *)
Accepted(m) == m.ok /\ error_message = "" /\ i >= Len(re)
Last(m) == IF Accepted(m) THEN Deliver(m, Token("Accept", <<>>, 0, 0, i, i)) ELSE m
Finish ==
  /\ returned = "" /\ (~ok \/ i >= Len(re))
  /\ LET m == IF ok THEN Flush(Now) ELSE Now IN
     /\ tokens' = Last(m).tokens /\ ok' = Last(m).ok /\ delayed' = m.delayed
     /\ returned' = IF Accepted(m) /\ Last(m).ok THEN "accepted" ELSE "failed"
  /\ UNCHANGED <<config, i, error_message, error_offset>>

Scan == \/ ScanSimple \/ ScanLine \/ ScanAny \/ ScanOptional \/ ScanStar \/ ScanPlus \/ ScanCount
        \/ ScanClass \/ ScanAlternate \/ ScanGroup \/ ScanNamed \/ ScanNonCapture \/ ScanLookahead
        \/ ScanIllegalGroup \/ ScanEndGroup \/ ScanWhite
        \/ ScanEscaped \/ ScanControl \/ ScanNumeric \/ ScanShorthand \/ ScanProperty
        \/ Finish

Spec == Init /\ [][Scan]_vars

----------------------------------------------------------------------------
(* Properties                                                              *)

InComment(k) == \E j \in 0..k - 1 : /\ Ch(j) \in White /\ Ch(j + 1) = "#"
                                    /\ \A l \in j + 1..k - 1 : Ch(l) # "\n"
Ignored(k) == Enabled("ExtendedRE") /\ (Ch(k) \in White \/ InComment(k))
Spanned(ts) == UNION {ts[k].from..ts[k].to - 1 : k \in DOMAIN ts}

(* Delaying ordinary characters changes neither the order of the tokens    *)
(* nor what they say: in an accepted expression the tokens follow each     *)
(* other in the text, and leave out nothing but white space and comments   *)
(* where these are ignored.                                                *)
InOrder ==
  /\ \A k, l \in DOMAIN tokens : k < l => tokens[k].to <= tokens[l].from
  /\ delayed.str # <<>> => \A k \in DOMAIN tokens : tokens[k].to <= delayed.from
NothingLost ==
  returned = "accepted" => \A k \in 0..Len(re) - 1 : k \in Spanned(tokens) \/ Ignored(k)

(* A repetition that follows a literal repeats one character, the last: it *)
(* is delivered as a literal of its own.  (White space between the two     *)
(* hides the repetition from the look ahead.)                              *)
RepeatsOne ==
  \A k \in DOMAIN tokens \ {1} :
    /\ tokens[k].op = "Repetition" /\ tokens[k - 1].op = "Literal"
    /\ tokens[k - 1].to = tokens[k].from
    => Len(tokens[k - 1].str) = 1
=============================================================================
