----------------------------- MODULE RxProgram -----------------------------
(***************************************************************************)
(* RxProgram of src/rx/rxmatch.cpp: the header and the instructions of a   *)
(* compiled expression, read from the cells RxCompile emits, and what the   *)
(* cells should be: RxCode, the same instructions made without addresses.  *)
(***************************************************************************)
EXTENDS RxCompile, SequencesExt

NumberAt(code, a) == code[a + 1].num
After(code, a) == a + UTF8Len(NumberAt(code, a))          \* UTF8Get moves on
Target(code, a) == a + Zagzig(NumberAt(code, a))

(* The constructor.  The number of stations went through emit_offset, but  *)
(* is not read as an offset, and is twice what the compiler counted.       *)
MaxStationAt(code, a) == After(code, After(code, a))
Read(code, m, after) ==
  [search_station |-> Target(code, 1),
   start_station |-> Target(code, After(code, 1)),
   max_station |-> NumberAt(code, m),
   max_counter |-> NumberAt(code, after),
   max_capture |-> NumberAt(code, after + 1),
   num_names |-> NumberAt(code, after + 2) - 1,
   names_at |-> after + 3]
Program(code) == Read(code, MaxStationAt(code, 1), After(code, MaxStationAt(code, 1)))

(* Where the names end: the constructor asserts that this is where the     *)
(* expression starts.                                                      *)
NamesEnd(code, program) ==
  LET End[k \in 0..program.num_names] ==
        IF k = 0 THEN program.names_at
        ELSE After(code, End[k - 1]) + NumberAt(code, End[k - 1])
  IN  End[program.num_names]

(* An instruction: op, its characters or number, the other way to go and   *)
(* the next one as addresses, the bounds of a repetition.                  *)
Decoded(op, arg, alternate, next, min, max) ==
  [op |-> op, arg |-> arg, alternate |-> alternate, next |-> next, min |-> min, max |-> max]

StringAt(code, a, bytes) ==
  LET cells == SelectSeq(SubSeq(code, a + 1, a + bytes), LAMBDA c : c.op = "number")
  IN  [k \in DOMAIN cells |-> cells[k].num]

Plain == {"BOL", "EOL", "Any", "Accept", "Zero", "Null"}
Strings == {"CharProperty", "CharClass", "NegCharClass"}
Ways == {"NegLookahead", "Jump", "Split"}
Captures == {"CaptureStart", "CaptureEnd"}

Decode(code, a) ==
  LET op == code[a + 1].op IN
  CASE op = "Char" ->
         Decoded(op, <<NumberAt(code, a + 1)>>, 0, After(code, a + 1), 0, 0)
    [] op \in Strings ->
         Decoded(op, StringAt(code, After(code, a + 1), NumberAt(code, a + 1)), 0,
                 After(code, a + 1) + NumberAt(code, a + 1), 0, 0)
    [] op \in Plain -> Decoded(op, <<>>, 0, a + 1, 0, 0)
    [] op \in Ways -> Decoded(op, <<>>, Target(code, a + 1), After(code, a + 1), 0, 0)
    [] op = "Count" -> Decoded(op, <<>>, Target(code, a + 3), After(code, a + 3),
                               NumberAt(code, a + 1) - 1, NumberAt(code, a + 2) - 1)
    [] op \in Captures -> Decoded(op, <<NumberAt(code, a + 1) - 1>>, 0, a + 2, 0, 0)
    [] OTHER -> Decoded("illegal", <<>>, 0, a + 1, 0, 0)

----------------------------------------------------------------------------
(* The reference.  An expression is read with a stack of frames, one for   *)
(* each open group: the alternates that are complete and the items of the  *)
(* last one.  What an item is, the caller chooses: instructions here,      *)
(* places of a text in RxMatch.                                            *)

Frame(op, num) == [op |-> op, num |-> num, alternates |-> <<>>, items |-> <<>>]

Translate(ts, Leaf(_), Then(_, _), Empty, Or(_, _), Repeat(_, _, _), Wrap(_, _, _)) ==
  LET Together(items) == FoldLeft(Then, Empty, items)
      Close(frame) == IF frame.alternates = <<>> THEN Together(frame.items)
                      ELSE FoldRight(Or, frame.alternates, Together(frame.items))
      Add(frames, item) == [frames EXCEPT ![Len(frames)].items = Append(@, item)]
      EndGroup(frames, top) == Add(Front(frames), Wrap(top.op, top.num, Close(top)))
      NamedUpTo(n) == Cardinality({k \in 1..n : ts[k].op = "NamedCapture"})
      Step(frames, n) ==
        CASE ts[n].op \in {"NonCapturingGroup", "NegLookahead", "NamedCapture"} ->
               Append(frames, Frame(ts[n].op, NamedUpTo(n)))
          [] ts[n].op = "EndGroup" -> EndGroup(frames, Last(frames))
          [] ts[n].op = "Alternate" ->
               [frames EXCEPT ![Len(frames)].alternates = Append(@, Together(Last(frames).items)),
                              ![Len(frames)].items = <<>>]
          [] ts[n].op = "Repetition" ->
               [frames EXCEPT ![Len(frames)].items =
                  Append(Front(@), Repeat(Last(@), ts[n].min, ts[n].max))]
          [] OTHER -> Add(frames, Leaf(ts[n]))
  IN  Close(FoldLeft(Step, <<Frame("Start", 0)>>, [n \in DOMAIN ts |-> n])[1])

(* Instructions whose other way is told as a distance in instructions.     *)
Code(op, arg, way) == <<Decoded(op, arg, way, 1, 0, 0)>>
CodeLeaf(t) == IF t.op = "Literal" THEN [k \in DOMAIN t.str |-> Code("Char", <<t.str[k]>>, 0)[1]]
               ELSE Code(t.op, t.str, 0)
CodeThen(c, d) == c \o d
CodeOr(c, d) == Code("Split", <<>>, Len(c) + 2) \o c \o Code("Jump", <<>>, Len(d) + 1) \o d
CodeRepeat(c, min, max) ==
  CASE min = 0 /\ max = 0 -> Code("Split", <<>>, Len(c) + 2) \o c \o Code("Jump", <<>>, -Len(c) - 1)
    [] min = 0 /\ max = 1 -> Code("Split", <<>>, Len(c) + 1) \o c
    [] min = 1 /\ max = 0 -> c \o Code("Split", <<>>, -Len(c))
    [] OTHER -> Code("Zero", <<>>, 0) \o c \o <<Decoded("Count", <<>>, -Len(c), 1, min, max)>>
CodeWrap(op, num, c) ==
  CASE op = "NonCapturingGroup" -> c
    [] op = "NamedCapture" -> Code("CaptureStart", <<num>>, 0) \o c \o Code("CaptureEnd", <<num>>, 0)
    [] op = "NegLookahead" -> Code(op, <<>>, Len(c) + 2) \o c \o Code("Accept", <<>>, 0)

WithSearch(c) == c \o Code("Split", <<>>, -Len(c)) \o Code("Any", <<>>, 0)
                   \o Code("Jump", <<>>, -2) \o Code("Null", <<>>, 0)
RxCode(ts) ==
  WithSearch(Code("CaptureStart", <<0>>, 0)
             \o Translate(ts, CodeLeaf, CodeThen, <<>>, CodeOr, CodeRepeat, CodeWrap)
             \o Code("Accept", <<>>, 0))

(* The cells from the start station are that code: instruction by          *)
(* instruction, with the addresses the next ones have.                     *)
Stations(code, start, n) ==
  FoldLeft(LAMBDA s, k : Append(s, Decode(code, Last(s)).next), <<start>>, [k \in 1..n - 1 |-> k])
Same(instr, ref, stations, k) ==
  /\ instr.op = ref.op /\ instr.arg = ref.arg /\ instr.min = ref.min /\ instr.max = ref.max
  /\ ref.alternate # 0 => instr.alternate = stations[k + ref.alternate]
IsCode(code, refs, stations) ==
  /\ stations[Len(refs)] + 1 = Len(code)
  /\ \A k \in DOMAIN refs : Same(Decode(code, stations[k]), refs[k], stations, k)

----------------------------------------------------------------------------
(* Properties of the compiler                                              *)

ProgramIsCode(program) ==
  /\ program.start_station = NamesEnd(nfa, program)
  /\ program.max_station >= station_count
  /\ program.max_capture = Len(names) + 1
  /\ LET refs == RxCode(tokens)
         stations == Stations(nfa, program.start_station, Len(refs))
     IN  /\ IsCode(nfa, refs, stations)
         /\ program.search_station = stations[Len(refs) - 3]

(* Whatever the tokens, the code is the one the expression stands for:     *)
(* every offset that was reserved, chained, patched and moved (patchOffset, *)
(* fixup_alternates, insert_split) leads to the right instruction, and the *)
(* header to the start and search stations.                                *)
CodeIsRight == phase = "compiled" => ProgramIsCode(Program(nfa))
=============================================================================
