------------------------------ MODULE RxMatch ------------------------------
(***************************************************************************)
(* RxMatch::matchAt of src/rx/rxmatch.cpp: a compiled expression runs on a *)
(* text as a list of threads, one character at a time.  A thread waits at  *)
(* a station, an instruction that looks at a character; addthread leads it *)
(* there through the instructions that do not, splitting it on the way.    *)
(* Its result carries the captures and the counters of the repetitions it  *)
(* is in.  (They are shared, and copied before they are changed: here they *)
(* are values.)                                                            *)
(*                                                                         *)
(* Characters are positive numbers; 0 is what is read at the end.          *)
(***************************************************************************)
EXTENDS RxProgram, FiniteSetsExt, TLC

CONSTANTS Texts(_),       \* the texts to search for an expression
          Newline,        \* the character that ends a line
          PropertyOf,     \* the characters that have a property, by its letter
          Garbage         \* what an uninitialised repetition count may hold

VARIABLES text, program,
          offset,         \* the character the threads look at
          from,           \* where the search began, and whether it is a search
          current, turn,  \* the threads of this character, and the next to run
          next,           \* the threads of the next one
          result,         \* the best result so far
          fault,          \* the assertion that failed, if any
          garbage

matching == <<text, program, offset, from, current, turn, next, result, fault, garbage>>

NoResult == -1
Failed == [cap0 |-> 0, cap1 |-> NoResult, captures |-> <<>>, counters |-> <<>>]
Empty == [Failed EXCEPT !.captures = [k \in 1..2 * (program.max_capture - 1) |-> 0]]
Succeeded(r) == r.cap1 # NoResult
Length(r) == IF Succeeded(r) THEN r.cap1 - r.cap0 ELSE 0

CaptureSet(r, index, val) ==
  CASE index = 0 -> [r EXCEPT !.cap0 = val]
    [] index = 1 -> [r EXCEPT !.cap1 = val]
    [] OTHER -> [r EXCEPT !.captures[index - 1] = val]

(* The counters: where the last repetition began, and how many there were. *)
CounterPushZero(r, off) == [r EXCEPT !.counters = Append(@, [offset |-> off, count |-> 0])]
CounterTop(r) == Last(r.counters)
CounterIncr(r, off) ==
  [r EXCEPT !.counters[Len(r.counters)] = [offset |-> off, count |-> @.count + 1]]
CounterPop(r) == [r EXCEPT !.counters = Front(@)]
Counts(r) == [k \in DOMAIN r.counters |-> r.counters[k].count]

CharAt(off) == IF off < Len(text) THEN text[off + 1] ELSE 0
AtBOL(off) == off = 0 \/ CharAt(off - 1) = Newline
AtEOL(off) == off = Len(text) \/ CharAt(off) = Newline

InClass(str, ch) == \E k \in 1..Len(str) \div 2 : str[2 * k - 1] <= ch /\ ch <= str[2 * k]
HasProperty(str, ch) ==
  Len(str) = 1 /\ str[1] \in DOMAIN PropertyOf => ch \in PropertyOf[str[1]]

----------------------------------------------------------------------------
(* addthread: what it adds to m.next.  Stations it has been through on the *)
(* way are in shunts.                                                      *)

Thread(station, r) == [station |-> station, result |-> r]
Stop(m, assertion) == [m EXCEPT !.fault = assertion]

IsNoDuplicate(threads, th, allowed) == FALSE      \* (Mutant: a station may have many threads.)
SameStation(threads, station) == {k \in DOMAIN threads : threads[k].station = station}
IsDuplicate(threads, th, allowed) ==
  LET same == SameStation(threads, th.station)
  IN  \/ Cardinality(same) > allowed
      \/ allowed # 0 /\ \E k \in same : Counts(threads[k].result) = Counts(th.result)

Store(m, th) == IF Len(m.next) < program.max_station THEN [m EXCEPT !.next = Append(@, th)]
                ELSE Stop(m, "next_count < maxStation")

RECURSIVE AddThread(_, _, _, _, _), Follow(_, _, _, _, _), Cycles(_, _, _)

AddThread(m, th, off, shunts, allowed) ==
  IF m.fault # "" \/ \E k \in DOMAIN shunts : shunts[k] = th.station THEN m
  ELSE IF Len(shunts) >= RxMaxNesting THEN Stop(m, "num_shunt < RxMaxNesting")
  ELSE IF IsDuplicate(m.next, th, allowed) THEN m
  ELSE Follow(m, th.result, off, Append(shunts, th.station), Decode(nfa, th.station)
                @@ [station |-> th.station])

Fork(m, r, off, shunts, instr) ==
  AddThread(AddThread(m, Thread(instr.alternate, r), off, shunts, 0),
            Thread(instr.next, r), off, shunts, 0)

Goto(m, r, off, shunts, station) ==
  Follow(m, r, off, shunts, Decode(nfa, station) @@ [station |-> station])

(* The counter has been incremented; before was its value until then.      *)
Repeat(m, r, off, shunts, instr, before) ==
  IF (CounterTop(r).count <= instr.max \/ instr.max = 0) /\ before.offset <= off
  THEN AddThread(m, Thread(instr.alternate, r), off, shunts, instr.min) ELSE m
GoOn(m, r, off, shunts, instr, before) ==
  IF /\ CounterTop(r).count >= instr.min \/ before.offset = off
     /\ instr.max = 0 \/ CounterTop(r).count <= instr.max
  THEN AddThread(m, Thread(instr.next, CounterPop(r)), off, shunts, instr.min) ELSE m
Count(m, r, off, shunts, instr, before) ==
  GoOn(Repeat(m, r, off, shunts, instr, before), r, off, shunts, instr, before)

(* A lookahead is a match of its own.  It moves the offset that the thread *)
(* goes on with; the count passed on was never set.                        *)
Start(station, off) ==
  AddThread([next |-> <<>>, fault |-> "", result |-> Failed], Thread(station, Empty), off, <<>>, 0)
LookedAhead(m, r, shunts, instr, ahead) ==
  IF ahead.fault # "" THEN Stop(m, ahead.fault)
  ELSE IF Succeeded(ahead.result) THEN m
  ELSE AddThread(m, Thread(instr.alternate, r), ahead.offset, shunts, garbage)

Follow(m, r, off, shunts, instr) ==
  CASE instr.op = "BOL" -> IF AtBOL(off) THEN Goto(m, r, off, shunts, instr.next) ELSE m
    [] instr.op = "EOL" -> IF AtEOL(off) THEN Goto(m, r, off, shunts, instr.next) ELSE m
    [] instr.op = "Jump" -> Goto(m, r, off, shunts, instr.alternate)
    [] instr.op = "Split" -> Fork(m, r, off, shunts, instr)
    [] instr.op = "CaptureStart" ->
         Goto(m, CaptureSet(r, 2 * instr.arg[1], off), off, shunts, instr.next)
    [] instr.op = "CaptureEnd" -> m      \* the thread is not taken any further
    [] instr.op = "Zero" ->
         IF Len(r.counters) >= program.max_counter THEN Stop(m, "counters_used < counter_max*2")
         ELSE Goto(m, CounterPushZero(r, off), off, shunts, instr.next)
    [] instr.op = "Count" ->
         IF r.counters = <<>> THEN Stop(m, "counters_used > 0")
         ELSE Count(m, CounterIncr(r, off), off, shunts, instr, CounterTop(r))
    [] instr.op = "NegLookahead" ->
         LookedAhead(m, r, shunts, instr, Cycles(Start(instr.next, off), off, Failed))
    [] OTHER -> Store(m, Thread(instr.station, r))

----------------------------------------------------------------------------
(* One thread looks at a character.                                        *)

Accepts(instr) == instr.op = "Accept"
Succeeds(instr, ch) ==
  CASE instr.op = "Char" -> ch = instr.arg[1]
    [] instr.op = "Any" -> ch # 0
    [] instr.op = "CharClass" -> ch # 0 /\ InClass(instr.arg, ch)
    [] instr.op = "NegCharClass" -> ch # 0 /\ ~InClass(instr.arg, ch)
    [] instr.op = "CharProperty" -> ch # 0 /\ HasProperty(instr.arg, ch)
    [] OTHER -> FALSE

(* An accepted result is kept when it is the first, starts earlier, or is  *)
(* longer from the same start.                                             *)
IsFirst(best, r, off) == ~Succeeded(best)         \* (Mutant: the first to accept wins.)
IsBetter(best, r, off) ==
  \/ ~Succeeded(best)
  \/ r.cap0 < best.cap0
  \/ off - r.cap0 > Length(best) /\ r.cap0 = best.cap0
Best(best, r, off) == IF IsBetter(best, r, off) THEN CaptureSet(r, 1, off) ELSE best

Advance(m, th, off, instr) ==
  IF Accepts(instr) THEN [m EXCEPT !.result = Best(@, th.result, off)]
  ELSE IF Succeeds(instr, CharAt(off))
  THEN AddThread(m, Thread(instr.next, th.result), off + 1, <<>>, 0)
  ELSE m

(* All the cycles of a match: a lookahead runs them at once.               *)
Cycle(threads, off, best) ==
  FoldLeft(LAMBDA m, th : Advance(m, th, off, Decode(nfa, th.station)),
           [next |-> <<>>, fault |-> "", result |-> best], threads)
NextCycle(m, off) == Cycles(m, off, m.result)
Cycles(m, off, best) ==
  IF m.fault # "" \/ m.next = <<>> \/ off > Len(text)
  THEN [result |-> best, offset |-> off, fault |-> m.fault]
  ELSE NextCycle(Cycle(m.next, off, best), off + 1)

----------------------------------------------------------------------------
MatchInit == /\ text = <<>> /\ program = <<>> /\ offset = 0 /\ from = <<0, TRUE>>
             /\ current = <<>> /\ turn = 1 /\ next = <<>> /\ result = Failed
             /\ fault = "" /\ garbage = 0

(* A new match: matchAfter from the search station, matchAt from the start *)
(* station.                                                                *)
Call(t, off, search) ==
  /\ phase = "compiled" /\ fault = ""
  /\ text' = t /\ offset' = off /\ from' = <<off, search>>
  /\ program' = Program(nfa)
  /\ garbage' \in Garbage
  /\ phase' = "called" /\ result' = Failed
  /\ UNCHANGED <<tokens, stack, max_nesting, names, repeatable, error_message, sizing, emitting,
                 current, turn, next, fault>>

compiling == <<tokens, stack, max_nesting, names, repeatable, error_message, sizing, emitting>>

Begin ==
  /\ phase = "called" /\ phase' = "matching"
  /\ LET m == Start(IF from[2] THEN program.search_station ELSE program.start_station, offset)
     IN  current' = m.next /\ fault' = m.fault
  /\ turn' = 1 /\ next' = <<>>
  /\ UNCHANGED <<compiling, text, program, offset, from, result, garbage>>

Runs == phase = "matching" /\ fault = "" /\ offset <= Len(text) /\ turn <= Len(current)
At == Decode(nfa, current[turn].station)

StepFails == /\ Runs /\ ~Accepts(At) /\ ~Succeeds(At, CharAt(offset))
             /\ turn' = turn + 1
             /\ UNCHANGED <<phase, compiling, text, program, offset, from, current, next, result,
                            fault, garbage>>

StepSucceeds ==
  /\ Runs /\ Succeeds(At, CharAt(offset))
  /\ LET m == AddThread([next |-> next, fault |-> ""], Thread(At.next, current[turn].result),
                        offset + 1, <<>>, 0)
     IN  next' = m.next /\ fault' = m.fault
  /\ turn' = turn + 1
  /\ UNCHANGED <<phase, compiling, text, program, offset, from, current, result, garbage>>

StepAccepts ==
  /\ Runs /\ Accepts(At)
  /\ result' = Best(result, current[turn].result, offset)
  /\ turn' = turn + 1
  /\ UNCHANGED <<phase, compiling, text, program, offset, from, current, next, fault, garbage>>

EndCycle ==
  /\ phase = "matching" /\ fault = "" /\ current # <<>> /\ offset <= Len(text) /\ turn > Len(current)
  /\ current' = next /\ next' = <<>> /\ turn' = 1 /\ offset' = offset + 1
  /\ UNCHANGED <<phase, compiling, text, program, from, result, fault, garbage>>

EndMatch ==
  /\ phase = "matching" /\ fault = "" /\ (current = <<>> \/ offset > Len(text))
  /\ phase' = "matched"
  /\ UNCHANGED <<compiling, matching>>

Match == \/ \E t \in Texts(tokens) : \E off \in 0..Len(t), search \in BOOLEAN : Call(t, off, search)
         \/ Begin \/ StepFails \/ StepSucceeds \/ StepAccepts \/ EndCycle \/ EndMatch

----------------------------------------------------------------------------
(* The reference: an expression is the set of places it matches, from an   *)
(* offset to an offset.                                                    *)

Offsets == 0..Len(text)
PlacesLeaf(t) ==
  CASE t.op = "Literal" ->
         {<<i, i + Len(t.str)>> : i \in {i \in 0..Len(text) - Len(t.str) :
                                           \A k \in DOMAIN t.str : text[i + k] = t.str[k]}}
    [] t.op = "BOL" -> {<<i, i>> : i \in {i \in Offsets : AtBOL(i)}}
    [] t.op = "EOL" -> {<<i, i>> : i \in {i \in Offsets : AtEOL(i)}}
    [] OTHER -> {<<i, i + 1>> : i \in {i \in Offsets : i < Len(text) /\
                   Succeeds([op |-> t.op, arg |-> t.str], text[i + 1])}}
PlacesThen(p, q) == {<<x[1], y[2]>> : <<x, y>> \in {xy \in p \X q : xy[1][2] = xy[2][1]}}
PlacesOr(p, q) == p \cup q
NoPlace == {<<i, i>> : i \in Offsets}
PlacesRepeat(p, min, max) ==
  LET Power[k \in Nat] == IF k = 0 THEN NoPlace ELSE PlacesThen(Power[k - 1], p)
  IN  UNION {Power[k] : k \in min..(IF max = 0 THEN min + Len(text) ELSE max)}
PlacesWrap(op, num, p) ==
  IF op = "NegLookahead" THEN {<<i, i>> : i \in {i \in Offsets : \A x \in p : x[1] # i}} ELSE p

Places(ts) == Translate(ts, PlacesLeaf, PlacesThen, NoPlace, PlacesOr, PlacesRepeat, PlacesWrap)

(* The leftmost of the places, and of these the longest.                   *)
Candidates(places) == {x \in places : IF from[2] THEN x[1] >= from[1] ELSE x[1] = from[1]}
Leftmost(places) == {x \in places : \A y \in places : x[1] <= y[1]}
Longest(places) == {x \in places : \A y \in places : y[2] <= x[2]}
Found == IF Succeeded(result) THEN {<<result.cap0, result.cap1>>} ELSE {}
IsLeftmostLongest(ts) == Found = Longest(Leftmost(Candidates(Places(ts))))

----------------------------------------------------------------------------
(* Properties of the matcher                                               *)

Positions(op) == {k \in DOMAIN tokens : tokens[k].op = op}
HasNames == Positions("NamedCapture") # {}

(* A lookahead moves the offset its thread goes on with, so that what      *)
(* looks at the offset again goes wrong.                                   *)
LooksAgain == /\ Positions("NegLookahead") # {}
              /\ \/ Positions("BOL") \cup Positions("EOL") # {}
                 \/ Cardinality(Positions("NegLookahead")) > 1

(* Threads at a station within what is counted are told apart only where   *)
(* they repeat, so that one with another count is lost.                    *)
Atoms == {"Any", "CharClass", "NegCharClass", "CharProperty"}
IsAtom(t) == t.op \in Atoms \/ (t.op = "Literal" /\ Len(t.str) = 1)
CountsGroup == \E k \in Positions("Repetition") :
                  (tokens[k].min > 1 \/ tokens[k].max > 1) /\ ~IsAtom(tokens[k - 1])

(* A match is the leftmost one and the longest of these, in every way the  *)
(* threads can split, die and be taken for duplicates: with the known      *)
(* exceptions of named groups, a lookahead next to others, and counts of   *)
(* more than a character.                                                  *)
MatchesRight ==
  phase = "matched" /\ ~HasNames /\ ~LooksAgain /\ ~CountsGroup => IsLeftmostLongest(tokens)

Edges == {0, Len(tokens) + 1} \cup Positions("Alternate")
Openings == Positions("NonCapturingGroup") \cup Positions("NamedCapture") \cup Positions("NegLookahead")
EmptyAlternate == \E k \in Positions("Alternate") :
                     \/ k - 1 \in Edges \cup Openings
                     \/ k + 1 \in Edges \cup Positions("EndGroup")

(* No assertion of the matcher fails: the stations counted by the compiler *)
(* are enough for the threads, max_nesting for the counters, RxMaxNesting  *)
(* for the shunts, unless an alternate is empty.                           *)
NoFault == fault # "" => EmptyAlternate

(* The stations counted by the compiler are enough for the threads: the    *)
(* assertion where addthread adds one.                                     *)
StationsSuffice == fault # "next_count < maxStation"
=============================================================================
