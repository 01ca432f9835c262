------------------------------ MODULE MCRxScan ------------------------------
(* The scanner on every text of at most MaxText of the characters that      *)
(* matter to it, and on some longer ones, under five configurations.       *)
EXTENDS RxScan

CONSTANT MaxText

Alphabet == {"a", "2", "^", "$", ".", "?", "*", "+", "{", "}", ",", "\\", "x", "[", "]", "-", "|",
             "(", ")", "<", " ", "#", "\n"}
MCTexts ==
  UNION {[1..n -> Alphabet] : n \in 0..MaxText} \cup
  {<<"a", "a", "{", "2", ",", "3", "}", "|">>, <<"a", "{", " ", "2", " ", ",", " ", "}", "2">>,
   <<"a", "{", "2", "}", "a", ",">>, <<"a", "{", ",", "2", "}", "a">>, <<"{", "2", "}">>,
   <<"a", "{", "6", "5", "5", "3", "6", "}">>, <<"a", "{", "3", ",", "2", "}">>,
   <<"a", "{", "7", "7", "7", "7", "7", "7", "7", "}">>,
   <<"a", "{", "6", "0", "0", "0", "0", "0", "}">>,
   <<"a", "{", "2", "0", "0", "0", "0", "0", "}">>,
   <<"a", "{", "2", "6", "2", "1", "4", "6", "}">>,
   <<"a", "{", "2", ",", "7", "7", "7", "7", "7", "7", "7", "}">>,
   <<"a", "{", "-", "2", ",", "}">>, <<"a", "{", "2", ",", "a", "}">>, <<"a", "{", "2", ",", "3">>,
   <<"(", "?", "<", "a", ">", "a", "a", ")", "*">>, <<"(", "?", "<", ">", ")">>,
   <<"(", "?", "<", "a">>,
   <<"a", "(", "?", ":", "a", ")", "+">>, <<"a", "(", "?", "!", "a", ")", "a">>,
   <<"(", "?", "a", ")">>, <<"(", "a", "(", "a", ")", ")">>,
   <<"a", "\\", "x", "2", "a", "a", "*">>, <<"\\", "x", " ", "2", "+">>, <<"\\", "x", "-", "2">>,
   <<"\\", "u", "2", "3", "a", "a", "6", "5">>, <<"\\", "u", "n">>,
   <<"a", "\\", "2", "3", "8", "*">>, <<"\\", "2", " ", "*">>,
   <<"a", "\\", "n", "\\", "n", "+">>, <<"\\", "s", "a", "\\", "d", "*">>,
   <<"\\", "p", "{", "a", "a", "}", "*">>, <<"\\", "p", "{", "}">>, <<"a", "\\", "p", "a">>,
   <<"[", "a", "-", "x", "2", "-", "]", "*">>, <<"[", "^", "]", "a", "\\", "]", "]">>,
   <<"[", "-", "a", "-", "\\", "-", "]">>, <<"[", "a", "-", "\\">>, <<"[", "\\">>,
   <<"a", "a", " ", "#", "*", "a", "\n", "a", "*">>, <<"a", "a", " ", "*">>,
   <<"a", "a", "a", "(", "?", ":", "a", ")">>, <<"a", "a", "a", "\\", "p", "{", "a", "}">>,
   <<"a", "a", "a", "[", "a">>,
   <<"a", "\t", "#", "\n", "|", "a">>}

All == {"CEscapes", "Shorthand", "OctalChar", "HexChar", "UnicodeChar", "PropertyChars",
        "CharClasses", "ZeroOrOneQuest", "ZeroOrMore", "OneOrMore", "CountRepetition", "Alternates",
        "Group", "Capture", "NonCapture", "NegLookahead", "BOL", "EOL"}
Config(features, rejected) == [features |-> features, rejected |-> rejected]
MCConfigurations ==
  {Config(All, {}), Config(All \cup {"ExtendedRE"}, {}),
   Config(All \cup {"AnyIsQuest", "ZeroOrMoreAny"}, {}),
   Config({"ExtendedRE", "OneOrMore", "Group", "NegLookahead", "ZeroOrMore"}, {"ZeroOrMore"}),
   Config(All, {"Capture", "Alternates", "HexChar"})}

(* The callback is the first pass of the compiler: it refuses a repetition *)
(* of nothing, and groups that are not open or not closed.  It refuses a   *)
(* literal of three characters as well, as another callback might.         *)
Opening == {"NonCapturingGroup", "NamedCapture", "NegLookahead"}
HowMany(ts, ops) == Cardinality({k \in DOMAIN ts : ts[k].op \in ops})
Open(ts) == HowMany(ts, Opening) - HowMany(ts, {"EndGroup"})
NotAtoms == Opening \cup {"Start", "BOL", "EOL", "Alternate", "Repetition"}
MCRefuses(ts, t) ==
  \/ t.op = "Repetition" /\ ts[Len(ts)].op \in NotAtoms
  \/ t.op = "EndGroup" /\ Open(ts) = 0
  \/ t.op = "Literal" /\ Len(t.str) = 3
  \/ t.op = "Accept" /\ Open(ts) > 0

MCWhite == {" ", "\t", "\n"}
Chars == {"0", "1", "2", "3", "4", "5", "6", "7", "8", "a", "b"}
MCDigitValue ==
  [c \in Chars |-> CASE c = "0" -> 0 [] c = "1" -> 1 [] c = "2" -> 2 [] c = "3" -> 3 [] c = "4" -> 4
                     [] c = "5" -> 5 [] c = "6" -> 6 [] c = "7" -> 7 [] c = "8" -> 8
                     [] c = "a" -> 10 [] c = "b" -> 11]

Done == returned # "" /\ UNCHANGED vars
ScanOrDone == Scan \/ Done
MCSpec == Init /\ [][ScanOrDone]_vars
=============================================================================
