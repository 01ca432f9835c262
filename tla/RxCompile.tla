----------------------------- MODULE RxCompile -----------------------------
(***************************************************************************)
(* RxCompiler::compile of src/rx/rxcompile.cpp.  The compiler reads the     *)
(* tokens of the expression twice: the first pass looks for errors and adds *)
(* up what the code will need, the second emits it.                         *)
(*                                                                         *)
(* The code (the NFA) is a sequence of cells, one for each byte, and its    *)
(* addresses count from 0.  A number is encoded like a character: it takes  *)
(* one cell below OneByte, two below TwoBytes, three above, the first of    *)
(* them holding its value.  An offset is relative to its own place and      *)
(* signed (zigzag).  Where an offset is not known yet the widest possible   *)
(* place is reserved; when it is patched the rest of the code moves down.   *)
(***************************************************************************)
EXTENDS Integers, Sequences, FiniteSets

CONSTANTS Tokens,         \* the tokens of the expressions: records of op, str, min and max
          MayScan(_),     \* the token sequences the scanner may deliver, and their prefixes
          RxMaxNesting,   \* depth of the stack of groups
          MaxNames,       \* named groups in an expression (254)
          MaxRepetition,  \* greatest count of a repetition (254)
          OneByte,        \* numbers below it take one byte (128)
          TwoBytes        \* numbers below it take at most two (2048)

ASSUME RxLimits == /\ RxMaxNesting \in Nat \ {0}
                   /\ MaxNames \in Nat /\ MaxRepetition \in Nat
                   /\ OneByte \in Nat \ {0} /\ TwoBytes \in Nat

Openers == {"NonCapturingGroup", "NegLookahead", "NamedCapture"}
TokenOps == {"Literal", "BOL", "EOL", "Any", "CharClass", "NegCharClass", "CharProperty",
             "EndGroup", "Alternate", "Repetition"} \cup Openers
ASSUME RxTokens == Tokens \subseteq [op : TokenOps, str : Seq(Nat), min : Nat, max : Nat]

VARIABLES phase,             \* "first", "second", then "compiled" or "failed"
          tokens,            \* the tokens of the first pass
          at,                \* how many of them the second pass has seen
          stack,             \* the groups that are open
          max_nesting, station_count, bytes_required, offsets_required,
          names,             \* the names of the groups, in order
          repeatable,        \* the last token was an atom
          error_message,
          nfa,               \* the cells emitted so far; its end is ep
          last_atom_start,   \* address of what a repetition repeats
          next_group         \* number of the last group

sizing   == <<station_count, bytes_required, offsets_required>>
emitting == <<at, nfa, last_atom_start, next_group>>
vars == <<phase, tokens, stack, max_nesting, names, repeatable, error_message, sizing, emitting>>

----------------------------------------------------------------------------
(* Cells, numbers and offsets                                              *)

Op(o)   == [op |-> o, num |-> 0]
Num(n)  == [op |-> "number", num |-> n]
Byte(n) == [op |-> "byte", num |-> n]
More    == [op |-> "more", num |-> 0]      \* the further bytes of a number
Pad     == [op |-> "pad", num |-> 0]       \* reserved for a wider number
Null    == Op("Null")

Magnitude(i) == IF i < 0 THEN -i ELSE i
UTF8Len(n) == IF n < OneByte THEN 1 ELSE IF n < TwoBytes THEN 2 ELSE 3
UTF8Put(n) == <<Num(n)>> \o [k \in 1..UTF8Len(n) - 1 |-> More]

Zigzag(i) == 2 * Magnitude(i) + (IF i < 0 THEN 1 ELSE 0)
Zagzig(n) == IF n % 2 = 1 THEN -(n \div 2) ELSE n \div 2

StringBytes(str) == LET Sum[k \in 0..Len(str)] == IF k = 0 THEN 0 ELSE Sum[k - 1] + UTF8Len(str[k])
                    IN  Sum[Len(str)]
PutChars(str) == LET Put[k \in 0..Len(str)] == IF k = 0 THEN <<>> ELSE Put[k - 1] \o UTF8Put(str[k])
                 IN  Put[Len(str)]
EmitString(str) == UTF8Put(StringBytes(str)) \o PutChars(str)
EmitOffset(offset) == UTF8Put(Zigzag(offset))

(* The widest offset, found in two steps from the sizes of the first pass. *)
OffsetMaxBytes ==
  LET widest == UTF8Len(2 * (bytes_required + offsets_required * 4))
  IN  UTF8Len(2 * (bytes_required + offsets_required * widest))

(* What is allocated: without the factor 2 of the signed encoding.         *)
Allocated == bytes_required
             + offsets_required * UTF8Len(bytes_required + offsets_required * OffsetMaxBytes)

EmitPadded(offset) ==
  EmitOffset(offset) \o [k \in 1..OffsetMaxBytes - UTF8Len(Zigzag(offset)) |-> Pad]

OffsetAt(code, location) == Zagzig(code[location + 1].num)

PatchValueAt(code, location, value) ==
  SubSeq(code, 1, location) \o EmitOffset(value)
                            \o SubSeq(code, location + OffsetMaxBytes + 1, Len(code))

(* The offset shrinks with the place it is in when it points forward.  Its *)
(* size is taken before that, and may have been one byte too many.         *)
PatchUnmoved(code, location, offset, size) ==     \* (Mutant: the shrinking is forgotten.)
  PatchValueAt(code, location, offset)
PatchSized(code, location, offset, size) ==
  PatchValueAt(code, location,
               IF size < OffsetMaxBytes /\ offset > 0 THEN offset - (OffsetMaxBytes - size)
                                                      ELSE offset)
PatchOffset(code, location, offset_to) ==
  PatchSized(code, location, offset_to - location, UTF8Len(Zigzag(offset_to - location)))

InsertSplit(code, location) ==
  SubSeq(code, 1, location) \o <<Op("Split")>> \o EmitPadded(0)
                            \o SubSeq(code, location + 1, Len(code))

----------------------------------------------------------------------------
(* The stack of groups                                                     *)

Group(op, num, start, contents) ==
  [op |-> op, group_num |-> num, start |-> start, contents |-> contents, last_jump |-> 0]

Tos == stack[Len(stack)]
Pop == SubSeq(stack, 1, Len(stack) - 1)
SetTos(group) == [stack EXCEPT ![Len(stack)] = group]

----------------------------------------------------------------------------
(* The first pass                                                          *)

Init == /\ phase = "first" /\ tokens = <<>> /\ error_message = ""
        /\ stack = <<Group("Start", 0, 1, 0)>> /\ max_nesting = 1
        /\ station_count = 0 /\ bytes_required = 6 /\ offsets_required = 3
        /\ names = <<>> /\ repeatable = FALSE
        /\ at = 0 /\ nfa = <<>> /\ last_atom_start = 0 /\ next_group = 0

Scan(t) == phase = "first" /\ MayScan(Append(tokens, t)) /\ tokens' = Append(tokens, t)

(* One byte for the token itself, and these besides.                       *)
Need(stations, bytes, offsets) ==
  /\ station_count' = station_count + stations
  /\ bytes_required' = bytes_required + 1 + bytes
  /\ offsets_required' = offsets_required + offsets

Fail(message) == /\ phase' = "failed" /\ error_message' = message
                 /\ UNCHANGED <<stack, max_nesting, names, repeatable, sizing, emitting>>

Counted(atom) == /\ repeatable' = atom
                 /\ UNCHANGED <<phase, error_message, emitting>>

ScanLiteral(t) ==
  /\ t.op = "Literal" /\ Scan(t)
  /\ Need(StringBytes(t.str), Len(t.str) + StringBytes(t.str), 0)
  /\ Counted(TRUE) /\ UNCHANGED <<stack, max_nesting, names>>

ScanLine(t) ==
  /\ t.op \in {"BOL", "EOL"} /\ Scan(t)
  /\ Need(1, 0, 0)
  /\ Counted(FALSE) /\ UNCHANGED <<stack, max_nesting, names>>

ScanAny(t) ==
  /\ t.op = "Any" /\ Scan(t)
  /\ Need(1, 0, 0)
  /\ Counted(TRUE) /\ UNCHANGED <<stack, max_nesting, names>>

ScanClass(t) ==
  /\ t.op \in {"CharClass", "NegCharClass", "CharProperty"} /\ Scan(t)
  /\ Need(1, UTF8Len(StringBytes(t.str)) + StringBytes(t.str), 0)
  /\ Counted(TRUE) /\ UNCHANGED <<stack, max_nesting, names>>

Open(op, num) ==
  /\ Len(stack) < RxMaxNesting
  /\ stack' = Append(stack, Group(op, num, 1, 0))
  /\ max_nesting' = IF max_nesting < Len(stack) + 1 THEN Len(stack) + 1 ELSE max_nesting

ScanGroup(t) ==
  /\ t.op = "NonCapturingGroup" /\ Scan(t)
  /\ Open(t.op, 0)
  /\ Need(0, 0, 0) /\ Counted(FALSE) /\ UNCHANGED names

ScanLookahead(t) ==
  /\ t.op = "NegLookahead" /\ Scan(t)
  /\ Open(t.op, 0)
  /\ Need(1, 0, 1) /\ Counted(FALSE) /\ UNCHANGED names

HasName(str) == \E k \in DOMAIN names : names[k] = str

ScanNamed(t) ==
  /\ t.op = "NamedCapture" /\ Scan(t)
  /\ Len(names) < MaxNames /\ ~HasName(t.str)
  /\ names' = Append(names, t.str)
  /\ Open(t.op, Len(names) + 1)
  /\ Need(0, 2 + UTF8Len(StringBytes(t.str)) + StringBytes(t.str), 0)
  /\ Counted(FALSE)

ScanBadGroup(t) ==
  /\ t.op \in Openers /\ Scan(t)
  /\ \/ t.op = "NamedCapture" /\ Len(names) >= MaxNames /\ Fail("Too many named groups")
     \/ t.op = "NamedCapture" /\ Len(names) < MaxNames /\ HasName(t.str) /\ Fail("Duplicate name")
     \/ /\ t.op = "NamedCapture" => Len(names) < MaxNames /\ ~HasName(t.str)
        /\ Len(stack) >= RxMaxNesting
        /\ Fail("Nesting too deep")

ScanEndGroup(t) ==
  /\ t.op = "EndGroup" /\ Scan(t)
  /\ Tos.op # "Start"
  /\ Need(0, CASE Tos.op = "NegLookahead" -> 0
               [] Tos.op = "NonCapturingGroup" -> -1
               [] Tos.op = "NamedCapture" -> 1, 0)
  /\ stack' = Pop
  /\ Counted(TRUE) /\ UNCHANGED <<max_nesting, names>>

(* The whole expression is on the stack too, so "Too many closing          *)
(* parentheses" is never the message: there is none.                       *)
ScanUnopened(t) ==
  t.op = "EndGroup" /\ Scan(t) /\ Tos.op = "Start" /\ Fail("")

ScanAlternateSplit(t) ==              \* (Mutant: the Jump is not counted.)
  /\ t.op = "Alternate" /\ Scan(t)
  /\ Need(1, 0, 1) /\ stack' = SetTos([Tos EXCEPT !.start = 0])
  /\ Counted(FALSE) /\ UNCHANGED <<max_nesting, names>>
ScanAlternate(t) ==
  /\ t.op = "Alternate" /\ Scan(t)
  /\ IF Tos.start # 0 THEN Need(1, 1, 3) /\ stack' = SetTos([Tos EXCEPT !.start = 0])
                      ELSE Need(0, 2, 3) /\ UNCHANGED stack
  /\ Counted(FALSE) /\ UNCHANGED <<max_nesting, names>>

ScanRepetition(t) ==
  /\ t.op = "Repetition" /\ Scan(t)
  /\ repeatable /\ t.min <= MaxRepetition /\ t.max <= MaxRepetition
  /\ CASE t.min = 0 /\ t.max = 0 -> Need(0, 1, 2)
       [] t.min = 0 /\ t.max = 1 -> Need(0, 0, 1)
       [] t.min = 1 /\ t.max = 0 -> Need(0, 0, 1)
       [] OTHER -> Need(t.min, 3, 1)
  /\ Counted(FALSE) /\ UNCHANGED <<stack, max_nesting, names>>

ScanBadRepetition(t) ==
  /\ t.op = "Repetition" /\ Scan(t)
  /\ \/ ~repeatable /\ Fail("Repeating a repetition is disallowed")
     \/ /\ repeatable /\ (t.min > MaxRepetition \/ t.max > MaxRepetition)
        /\ Fail("Min and Max repetition are limited to 254")

(* The end of the expression.  With every group closed the second pass     *)
(* begins: its Start token emits the header.                               *)
ScanAccept ==
  /\ phase = "first" /\ Len(stack) = 1
  /\ phase' = "second" /\ stack' = <<>> /\ at' = 0
  /\ Need(1, 4, 2)
  /\ UNCHANGED <<tokens, max_nesting, names, repeatable, error_message, nfa,
                 last_atom_start, next_group>>

ScanUnclosed == /\ phase = "first" /\ Len(stack) > 1 /\ Fail("Not all groups were closed")
                /\ UNCHANGED tokens

----------------------------------------------------------------------------
(* The second pass                                                         *)

(* The numbers of the header: the stations (through emit_offset), the      *)
(* depth of the counters, the groups with the whole match, the names.      *)
NameTable[k \in 0..Len(names)] == IF k = 0 THEN <<>> ELSE NameTable[k - 1] \o EmitString(names[k])
Header == <<Op("Start")>> \o EmitPadded(0) \o EmitPadded(0) \o EmitOffset(station_count)
          \o <<Byte(max_nesting), Byte(Len(names) + 1), Byte(Len(names) + 1)>> \o NameTable[Len(names)]

Started(code) == code \o <<Op("CaptureStart"), Byte(1)>>

EmitStart ==
  /\ phase = "second" /\ stack = <<>>
  /\ nfa' = Started(PatchOffset(Header, 1 + OffsetMaxBytes, Len(Header)))
  /\ stack' = <<Group("Start", 0, 0, Len(nfa'))>>
  /\ next_group' = 1 /\ last_atom_start' = 0
  /\ UNCHANGED <<phase, tokens, at, max_nesting, names, repeatable, error_message, sizing>>

Instr == tokens[at + 1]

(* The token is consumed, and a repetition after it repeats from atom.     *)
Emit(ops, code, atom) ==
  /\ phase = "second" /\ stack # <<>> /\ at < Len(tokens) /\ Instr.op \in ops
  /\ at' = at + 1 /\ nfa' = code /\ last_atom_start' = atom
  /\ UNCHANGED <<phase, tokens, max_nesting, names, repeatable, error_message, sizing>>

EmitChar(ch) == <<Op("Char")>> \o UTF8Put(ch)
Chars[k \in 0..Len(Instr.str)] == IF k = 0 THEN <<>> ELSE Chars[k - 1] \o EmitChar(Instr.str[k])

EmitLiteral == /\ Emit({"Literal"}, nfa \o Chars[Len(Instr.str)], Len(nfa))
               /\ UNCHANGED <<stack, next_group>>

EmitSimple == /\ Emit({"BOL", "EOL", "Any"}, Append(nfa, Op(Instr.op)), Len(nfa))
              /\ UNCHANGED <<stack, next_group>>

EmitClass == /\ Emit({"CharProperty", "CharClass", "NegCharClass"},
                     nfa \o <<Op(Instr.op)>> \o EmitString(Instr.str), Len(nfa))
             /\ UNCHANGED <<stack, next_group>>

EmitGroup == /\ Emit({"NonCapturingGroup"}, nfa, Len(nfa))
             /\ stack' = Append(stack, Group(Instr.op, 0, Len(nfa), Len(nfa)))
             /\ UNCHANGED next_group

EmitNamed == /\ Emit({"NamedCapture"}, nfa \o <<Op("CaptureStart"), Byte(next_group + 1)>>, Len(nfa))
             /\ stack' = Append(stack, Group(Instr.op, next_group + 1, Len(nfa), Len(nfa) + 2))
             /\ next_group' = next_group + 1

EmitLookahead ==
  /\ Emit({"NegLookahead"}, nfa \o <<Op("NegLookahead")>> \o EmitPadded(0), Len(nfa))
  /\ stack' = Append(stack, Group(Instr.op, 0, Len(nfa), Len(nfa) + 1 + OffsetMaxBytes))
  /\ UNCHANGED next_group

(* fixup_alternates: from the last Jump back.  Each Jump goes to the end,  *)
(* each Split to behind the Jump that follows it; the offset in a Jump     *)
(* tells where the one before it is, until it is patched.  Fixed[k] is     *)
(* what k turns of the loop come to: the code, and the next Jump or 0.     *)
(* There are not as many turns as tokens.                                  *)
FixJump(code, jump, prev, patched) ==
  PatchOffset(patched,
              IF prev # 0 THEN jump + prev + OffsetMaxBytes + 1 ELSE Tos.contents + 1,
              jump + OffsetMaxBytes - (Len(code) - Len(patched)))
FixupOne(code, jump, prev) == FixJump(code, jump, prev, PatchOffset(code, jump, Len(code)))
Fixup(m, prev) == [code |-> FixupOne(m.code, m.jump, prev),
                   jump |-> IF prev = 0 THEN 0 ELSE m.jump + prev]
FixupTurn(m) == IF m.jump = 0 THEN m ELSE Fixup(m, OffsetAt(m.code, m.jump))

Fixed[k \in 0..Len(tokens)] ==
  IF k = 0 THEN [code |-> nfa, jump |-> Tos.last_jump] ELSE FixupTurn(Fixed[k - 1])
FixupAlternates == Fixed[Len(tokens)].code

EndLookahead(code) == PatchOffset(Append(code, Op("Accept")), Tos.start + 1, Len(code) + 1)

EmitEndGroup ==
  /\ Emit({"EndGroup"},
          CASE Tos.op = "NegLookahead" -> EndLookahead(FixupAlternates)
            [] Tos.op = "NonCapturingGroup" -> FixupAlternates
            [] Tos.op = "NamedCapture" -> FixupAlternates
                                          \o <<Op("CaptureEnd"), Byte(Tos.group_num)>>,
          Tos.start)
  /\ stack' = Pop /\ UNCHANGED next_group

(* A Split goes in front of the alternate that ends, and a Jump behind it  *)
(* with the way back to the Jump before.                                   *)
AppendJumpBack(code, back) ==                 \* (Mutant: the first Jump does not say it is.)
  code \o EmitPadded(back - Len(code))
AppendJump(code, back) == code \o EmitPadded(IF back = 0 THEN 0 ELSE back - Len(code))
Alternate(location, back) ==
  /\ Emit({"Alternate"}, AppendJump(Append(InsertSplit(nfa, location), Op("Jump")), back), Len(nfa))
  /\ stack' = SetTos([Tos EXCEPT !.last_jump = Len(nfa) + OffsetMaxBytes + 2])
  /\ UNCHANGED next_group

EmitAlternate == /\ stack # <<>>
                 /\ IF Tos.last_jump = 0 THEN Alternate(Tos.contents, 0)
                    ELSE Alternate(Tos.last_jump + OffsetMaxBytes, Tos.last_jump)

(* Zero or more: a Split over the atom and a Jump back to the Split.  The  *)
(* two offsets depend on each other's size.                                *)
ForwardBytes(ep, rev_bytes) == UTF8Len(Zigzag(ep + rev_bytes - (last_atom_start + 1)))
BackDelta(ep, rev_bytes) == last_atom_start - (ep - (OffsetMaxBytes - ForwardBytes(ep, rev_bytes)))
BackBytes(ep) ==                          \* it gets smaller, or stays as it is
  LET Shorter(was, is) == IF is < was THEN is ELSE was
      Turn[k \in 0..OffsetMaxBytes] ==
        IF k = 0 THEN OffsetMaxBytes
        ELSE Shorter(Turn[k - 1], UTF8Len(Zigzag(BackDelta(ep, Turn[k - 1]))))
  IN  Turn[OffsetMaxBytes]

RepeatAny(code, rev_bytes) ==
  PatchOffset(code, last_atom_start + 1, Len(code) + UTF8Len(Zigzag(BackDelta(Len(code), rev_bytes))))
  \o EmitOffset(BackDelta(Len(code), rev_bytes))
ZeroOrMore(code) == RepeatAny(code, BackBytes(Len(code)))

ZeroOrOne(code) == PatchOffset(code, last_atom_start + 1, Len(code))

OneOrMore(code) == code \o EmitOffset(last_atom_start - Len(code))

CountedFrom(code) == code \o EmitOffset(last_atom_start + 1 - Len(code))
CountedRepetition(min, max) ==
  CountedFrom(SubSeq(nfa, 1, last_atom_start) \o <<Op("Zero")>>
              \o SubSeq(nfa, last_atom_start + 1, Len(nfa))
              \o <<Op("Count"), Byte(min + 1), Byte(max + 1)>>)

EmitRepetition ==
  /\ Emit({"Repetition"},
          CASE Instr.min = 0 /\ Instr.max = 0 ->
                 ZeroOrMore(Append(InsertSplit(nfa, last_atom_start), Op("Jump")))
            [] Instr.min = 0 /\ Instr.max = 1 -> ZeroOrOne(InsertSplit(nfa, last_atom_start))
            [] Instr.min = 1 /\ Instr.max = 0 -> OneOrMore(Append(nfa, Op("Split")))
            [] OTHER -> CountedRepetition(Instr.min, Instr.max),
          Len(nfa))
  /\ UNCHANGED <<stack, next_group>>

(* The end: the search station is patched to the sequence that is appended *)
(* behind the Accept, a Split to the start, Any, and a Jump to the Split.  *)
StartStation(code, location) == location + OffsetAt(code, location)
SearchSplit(code, start) == code \o <<Op("Split")>> \o EmitOffset(start - (Len(code) + 1))
SearchJump(code, back) == code \o <<Op("Any"), Op("Jump")>> \o EmitOffset(back - (Len(code) + 2))
Search(code, start) == SearchJump(SearchSplit(code, start), Len(code))
AppendSearch(accepted, code) ==
  Search(code, StartStation(code, 1 + OffsetMaxBytes - (Len(accepted) - Len(code))))
EmitSearch(accepted) == AppendSearch(accepted, PatchOffset(accepted, 1, Len(accepted)))

EmitAccept ==
  /\ phase = "second" /\ stack # <<>> /\ at = Len(tokens)
  /\ phase' = "compiled"
  /\ nfa' = Append(EmitSearch(Append(FixupAlternates, Op("Accept"))), Null)
  /\ last_atom_start' = Len(nfa)
  /\ UNCHANGED <<tokens, at, stack, max_nesting, names, repeatable, error_message, sizing, next_group>>

----------------------------------------------------------------------------
FirstPass == \/ \E t \in Tokens : \/ ScanLiteral(t) \/ ScanLine(t) \/ ScanAny(t) \/ ScanClass(t)
                                  \/ ScanGroup(t) \/ ScanLookahead(t) \/ ScanNamed(t)
                                  \/ ScanBadGroup(t) \/ ScanEndGroup(t) \/ ScanUnopened(t)
                                  \/ ScanAlternate(t) \/ ScanRepetition(t) \/ ScanBadRepetition(t)
             \/ ScanAccept \/ ScanUnclosed

SecondPass == \/ EmitStart \/ EmitLiteral \/ EmitSimple \/ EmitClass \/ EmitGroup \/ EmitNamed
              \/ EmitLookahead \/ EmitEndGroup \/ EmitAlternate \/ EmitRepetition \/ EmitAccept

Compile == FirstPass \/ SecondPass

CompileSpec == Init /\ [][Compile]_vars

----------------------------------------------------------------------------
(* What the first pass promises the second                                 *)

(* What the comments reckon with (rxcompile.cpp:731-734): the code with its *)
(* Null takes no more than the bytes and every offset at its widest.       *)
MaximumSize == phase = "compiled" => Len(nfa) <= bytes_required + offsets_required * OffsetMaxBytes

(* The assertion at the end of second_pass, at every token, while places   *)
(* are still reserved; and in the end the Null that follows.               *)
CodeFits == /\ phase = "second" => Len(nfa) < Allocated
            /\ phase = "compiled" => Len(nfa) - 1 < Allocated

(* The stations are written into the header like an offset, which first_pass *)
(* counts as one; but they are not bounded by the size of the code.        *)
StationsAsOffset == UTF8Len(Zigzag(station_count)) <= OffsetMaxBytes

(* The code does fit where an offset is as wide as the allocation reckons  *)
(* and the stations are no wider: the sizes that first_pass adds up are    *)
(* enough for what second_pass emits, reserves, inserts and moves.         *)
RoomForCode ==
  /\ StationsAsOffset
  /\ OffsetMaxBytes = UTF8Len(bytes_required + offsets_required * OffsetMaxBytes)
  => CodeFits

(* The assertions of fixup_alternates: whatever was inserted, moved and     *)
(* patched since, each turn of its loop finds a Jump before the offset it  *)
(* patches, a Split before the other one, and its way back to the Jump      *)
(* before; and the loop ends.                                              *)
Links(code, jump, prev) ==
  /\ code[jump].op = "Jump" /\ prev <= 0
  /\ code[IF prev # 0 THEN jump + prev + OffsetMaxBytes + 1 ELSE Tos.contents + 1].op = "Split"
FixupFindsAll ==
  phase = "second" /\ stack # <<>> =>
    /\ \A k \in 0..Len(tokens) :
         Fixed[k].jump # 0 => Links(Fixed[k].code, Fixed[k].jump, OffsetAt(Fixed[k].code, Fixed[k].jump))
    /\ Fixed[Len(tokens)].jump = 0
=============================================================================
