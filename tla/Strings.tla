------------------------------- MODULE Strings -------------------------------
(***************************************************************************)
(* include/strval.h: StrVal variables as slices, counted in characters, of *)
(* shared bodies of UTF-8 text.  Each variable has a bookmark, the byte    *)
(* that begins some character of its body, from which nthChar searches;    *)
(* each body has the number of its characters, once somebody asked for it. *)
(*                                                                         *)
(* A body has its reference count from RefCount.tla: the variables that    *)
(* refer to it, and one more for a static body.  A body without references *)
(* is deleted; its address is used again.  Beside the code the promise of  *)
(* StringValues runs: each action takes the step of its namesake there.    *)
(* Left out: text that is not UTF-8 (StrRawBinary), operator*, comparisons *)
(* and searches, operator+ with one character, static text without a NUL,  *)
(* and inserting a string in itself, which reads its bytes while they      *)
(* move.                                                                   *)
(***************************************************************************)
EXTENDS Integers, Sequences, FiniteSets, FiniteSetsExt, Utf8

CONSTANTS
    Vars,        \* the StrVal variables of the program
    Bodies,      \* the addresses of bodies
    Statics,     \* those of the static bodies,
    NullBody,    \* ... one of which is empty
    Letters,     \* the characters, each a sequence of bytes
    StaticText,  \* what the other static bodies hold
    Inputs,      \* the texts that strings are constructed from
    Conversions, \* what toLower, toUpper and toJSON make of each character
    MaxBytes,    \* bound: the bytes that the bodies hold between them
    MaxBody,     \* bound: those that one of them holds
    Margin,      \* a bookmark is set this far from either end (3 in the code)
    IndexSize,   \* the number of values of StrValIndex, 2^32 in the code
    Avoids       \* what the program avoids: changing "parts" of their own, stale "marks"

ASSUME StringsAssumption ==
    /\ Statics \subseteq Bodies /\ NullBody \in Statics
    /\ Letters \subseteq Characters
    /\ StaticText \in Seq(Letters) /\ Inputs \subseteq Seq(Letters) \ {<<>>}
    /\ Conversions \subseteq [Letters -> Seq(Letters)]
    /\ MaxBytes \in Nat /\ MaxBody \in Nat /\ Len(Encode(StaticText)) <= MaxBody
    /\ Margin \in Nat /\ IndexSize \in Nat /\ IndexSize > 4 * MaxBody
    /\ Avoids \subseteq {"parts", "marks"}
    /\ IsFiniteSet(Vars)
    /\ \A f \in [Vars -> Bodies] : \E b \in Bodies \ Statics : \A v \in Vars : f[v] # b

VARIABLES str,    \* body, offset and num_chars of each variable
          mark,   \* its bookmark, char_num and byte_num
          bodies, \* the text of each body, and its num_chars: 0 if not yet counted
          val     \* the promise

vars == <<str, mark, bodies, val>>

Promise == INSTANCE StringValues

Index == 0..IndexSize - 1
Wrap(n) == (n + IndexSize) % IndexSize

NoMark == [char |-> 0, byte |-> 0]
NoText == [text |-> <<>>, count |-> 0]
Null   == [body |-> NullBody, offset |-> 0, num |-> 0]

TypeOK == /\ str \in [Vars -> [body : Bodies, offset : Index, num : Index]]
          /\ mark \in [Vars -> [char : Index, byte : Index]]
          /\ bodies \in [Bodies -> [text : Seq(0..6), count : Index]]
          /\ val \in [Vars -> Seq(Letters)]

Init == /\ str = [v \in Vars |-> Null]
        /\ mark = [v \in Vars |-> NoMark]
        /\ bodies = [b \in Bodies |->
               IF b \in Statics \ {NullBody}
               THEN [text |-> Encode(StaticText), count |-> Len(StaticText)] ELSE NoText]
        /\ Promise!Init
-------------------------------------------------------------------------------
Users(b) == {v \in Vars : str[v].body = b}
GetRefCount(b) == Cardinality(Users(b)) + IF b \in Statics THEN 1 ELSE 0

NewBody == CHOOSE b \in Bodies \ Statics : Users(b) = {}

\* StrBody::numChars, which counts when there is no count.
Counted(body) == IF body.count = 0 THEN NumChars(body.text) ELSE body.count

\* Steps forward from the pointer up, or back from ep, until n characters are
\* passed or the pointers meet.
Forward(t, up, ep, n) ==
    LET p[k \in 0..n] == IF k = 0 THEN up
                         ELSE IF p[k - 1] < ep THEN p[k - 1] + UTF8Len(t, p[k - 1])
                         ELSE p[k - 1]
    IN  p[n]

Back(t, up, ep, n) ==
    LET p[k \in 0..n] == IF k = 0 THEN ep
                         ELSE IF p[k - 1] > up THEN UTF8Backup(t, p[k - 1], 0)
                         ELSE p[k - 1]
    IN  p[n]

\* (Mutant: with the bookmark's pointer, but not its number, as the end.)
SearchFarEnd(t, n, m, count) ==
    LET beyond == m.char > 0 /\ n >= m.char
        up     == IF beyond THEN m.byte ELSE 0
        first  == IF beyond THEN m.char ELSE 0
        ep     == IF m.char > 0 /\ ~ beyond THEN m.byte ELSE Len(t)
    IN  IF n - first < Wrap(count - n) THEN Forward(t, up, ep, n - first)
        ELSE Back(t, up, ep, count - n)

\* Where nthChar searches: between the bookmark and the end, or the start and
\* the bookmark; forward when that is shorter.  Numbers wrap.
Search(t, n, m, count) ==
    LET marked == m.char > 0
        beyond == marked /\ n >= m.char
        up     == IF beyond THEN m.byte ELSE 0
        first  == IF beyond THEN m.char ELSE 0
        ep     == IF marked /\ ~ beyond THEN m.byte ELSE Len(t)
        last   == IF marked /\ ~ beyond THEN m.char ELSE count
    IN  IF n - first < Wrap(last - n) THEN Forward(t, up, ep, n - first)
        ELSE Back(t, up, ep, last - n)

\* A string in the middle of an operation: its slice, its bookmark, all bodies.
This(v) == [str |-> str[v], mark |-> mark[v], bodies |-> bodies]
Body(x) == x.bodies[x.str.body]

\* The character is found: it is marked unless it is near either end.
Found(x, n, count, ptr) ==
    [ptr  |-> ptr,
     then |-> IF ptr # NullPtr /\ n > Margin /\ n < count - Margin
              THEN [x EXCEPT !.mark = [char |-> n, byte |-> Wrap(ptr)]] ELSE x]

\* StrBody::nthChar: the pointer, and the string after the call; at once if every
\* character is a byte.
NthChar(x, n, count) ==
    IF n = 0 \/ Body(x).count = Len(Body(x).text) THEN [ptr |-> n, then |-> x]
    ELSE LET y == [x EXCEPT !.bodies = [@ EXCEPT ![x.str.body].count = count]]
         IN  IF n > count THEN [ptr |-> NullPtr, then |-> y]
             ELSE Found(y, n, count, Search(Body(x).text, n, x.mark, count))

\* StrVal::nthChar, which keeps the bookmark, and the const one, which does not.
Nth(x, n) == NthChar(x, x.str.offset + n, Counted(Body(x)))

ConstNth(x, n) == LET r == Nth(x, n) IN [r EXCEPT !.then.mark = x.mark]

\* asUTF8(bytes): the bytes of the slice.
Bytes(x) ==
    LET first == ConstNth(x, 0)
        end   == ConstNth(first.then, x.str.num)
    IN  [bytes |-> SubSeq(Body(x).text, first.ptr + 1, end.ptr),
         then  |-> end.then]

\* (Mutant: the numbers of a bookmark are signed.)
CopyBodySigned(x) ==
    LET first == Nth(x, 0)
        end   == Nth(first.then, x.str.num)
        bytes == SubSeq(Body(x).text, first.ptr + 1, end.ptr)
    IN  [str    |-> [body |-> NewBody, offset |-> 0, num |-> x.str.num],
         mark   |-> [char |-> x.mark.char - x.str.offset, byte |-> x.mark.byte - first.ptr],
         bodies |-> [end.then.bodies EXCEPT ![NewBody] = [text |-> bytes, count |-> 0]]]

\* copyBody: the slice becomes a body of its own.  (A length of zero makes the
\* constructor use strlen.)
CopyBody(x) ==
    LET first == Nth(x, 0)
        end   == Nth(first.then, x.str.num)
        t     == Body(x).text
        bytes == SubSeq(t, first.ptr + 1, IF end.ptr = first.ptr THEN Len(t) ELSE end.ptr)
    IN  [str    |-> [body |-> NewBody, offset |-> 0, num |-> x.str.num],
         mark   |-> [char |-> Wrap(x.mark.char - x.str.offset),
                     byte |-> Wrap(x.mark.byte - first.ptr)],
         bodies |-> [end.then.bodies EXCEPT ![NewBody] = [text |-> bytes, count |-> 0]]]

\* (Mutant: one other reference is overlooked.)
IsWidelyShared(b) == GetRefCount(b) > 2

\* StrVal::Unshare.  (A static body, having a reference more, is always shared.)
IsShared(b) == GetRefCount(b) > 1
Unshare(x) == IF IsShared(x.str.body) THEN CopyBody(x) ELSE x

\* v becomes the string x; bodies to which no reference is left are deleted.
Become(v, x) ==
    /\ str' = [str EXCEPT ![v] = x.str]
    /\ mark' = [mark EXCEPT ![v] = x.mark]
    /\ bodies' = [b \in Bodies |->
           IF b \in Statics \/ \E u \in Vars : str'[u].body = b THEN x.bodies[b] ELSE NoText]
    /\ MapThenSumSet(LAMBDA b : Len(bodies'[b].text), Bodies \ Statics) <= MaxBytes
    /\ \A b \in Bodies : Len(bodies'[b].text) <= MaxBody

\* A string over a new body; one over a slice of another's.
Fresh(t, count, n, others) ==
    [str |-> [body |-> NewBody, offset |-> 0, num |-> n], mark |-> NoMark,
     bodies |-> [others EXCEPT ![NewBody] = [text |-> t, count |-> count]]]

SliceOf(b, offset, n) ==
    [str |-> [body |-> b, offset |-> offset, num |-> n], mark |-> NoMark, bodies |-> bodies]

\* The code does not support changing a slice that is the only one left of a
\* longer body ("parts"), nor inserting before a bookmark or converting with one
\* ("marks"); one that copyBody made negative is harmless.
IsOwn(v) == ~ IsShared(str[v].body)

MayInsert(v, pos, m) ==
    /\ "parts" \in Avoids /\ IsOwn(v) => str[v].offset = 0
    /\ "marks" \in Avoids => m.char <= pos \/ m.char >= IndexSize \div 2

MayConvert(v, m) ==
    /\ "parts" \in Avoids /\ IsOwn(v) =>
           str[v].offset = 0 /\ str[v].num = NumChars(bodies[str[v].body].text)
    /\ "marks" \in Avoids => m.char = 0 \/ m.char >= IndexSize \div 2
-------------------------------------------------------------------------------
\* StrVal(data), which counts
Construct(v, s) ==
    /\ Become(v, Fresh(Encode(s), Len(s), Len(s), bodies))
    /\ Promise!Construct(v, s)

\* StrVal(character), which does not
ConstructChar(v, c) ==
    /\ <<c>> \in Inputs
    /\ Become(v, Fresh(c, 0, 1, bodies))
    /\ Promise!Construct(v, <<c>>)

\* StrVal(Body*) with a static body
Refer(v, b) ==
    /\ Become(v, SliceOf(b, 0, Counted(bodies[b])))
    /\ Promise!Construct(v, Chars(bodies[b].text))

\* operator=, which copies the bookmark
Assign(v, w) ==
    /\ Become(v, This(w))
    /\ Promise!Copy(v, w)

\* The copy constructor, which does not, and takes no reference to a static body.
CopyConstruct(v, w) ==
    LET x == [This(w) EXCEPT !.mark = NoMark]
    IN  /\ v # w
        /\ Become(v, IF str[w].body \in Statics THEN CopyBody(x) ELSE x)
        /\ Promise!Copy(v, w)

\* v = w.substr(at, len), and with it head, tail and shorter; an empty one is a
\* copy of StrVal::null.
Substr(v, w, at, len) ==
    LET s == str[w]
    IN  /\ Become(v, IF at >= s.num \/ len = 0 THEN Fresh(<<>>, 0, 0, bodies)
                     ELSE SliceOf(s.body, s.offset + at,
                                  IF len > s.num - at THEN s.num - at ELSE len))
        /\ Promise!Substr(v, w, at, len)

\* operator[] reads a character through the const nthChar.
Read(v, n) ==
    /\ Become(v, ConstNth(This(v), n).then)
    /\ UNCHANGED val

\* asUTF8() needs a NUL after the slice.
AsUTF8(v) ==
    LET s == str[v]
        x == [This(v) EXCEPT !.bodies[s.body].count = Counted(bodies[s.body])]
    IN  /\ Become(v, Nth(IF s.offset + s.num < Counted(bodies[s.body]) THEN CopyBody(x) ELSE x, 0).then)
        /\ UNCHANGED val

\* insert(pos, w): extends a slice over what follows it in its body if that is
\* what is inserted.
Contiguous(s, a) == s.body = a.body /\ s.offset + s.num = a.offset

\* (Mutant: StrBody::insertBytes keeps the count.)
InsertBytesCounted(body, at, bytes) ==
    [body EXCEPT !.text = SubSeq(@, 1, at) \o bytes \o SubSeq(@, at + 1, Len(@))]

InsertBytes(body, at, bytes) ==
    [text |-> SubSeq(body.text, 1, at) \o bytes \o SubSeq(body.text, at + 1, Len(body.text)),
     count |-> 0]

\* The n characters are inserted in v, which has become x by Unshare.
Splice(v, x, pos, bytes, n) ==
    LET p   == Nth(x, pos)
        q   == Nth(p.then, 0)
        at  == p.ptr - q.ptr
        b   == x.str.body
        new == InsertBytes(q.then.bodies[b], at, bytes)
    IN  /\ p.ptr # NullPtr /\ at \in 0..Len(x.bodies[b].text)
        /\ MayInsert(v, pos, q.then.mark)
        /\ Become(v, [q.then EXCEPT !.str.num = @ + n, !.bodies[b] = new])

Insert(v, pos, w) ==
    LET x == Unshare(This(v))
        a == Bytes([This(w) EXCEPT !.bodies = x.bodies])
    IN  /\ v # w
        /\ IF pos = str[v].num /\ Contiguous(str[v], str[w])
           THEN Become(v, [This(v) EXCEPT !.str.num = @ + str[w].num])
           ELSE Splice(v, [x EXCEPT !.bodies = a.then.bodies], pos, a.bytes, str[w].num)
        /\ Promise!Insert(v, pos, w)

\* v += w, v += c
AddAssign(v, w) ==
    IF str[v].num = 0 /\ str[w].body \notin Statics THEN Assign(v, w)
    ELSE Insert(v, str[v].num, w)

AppendChar(v, c) ==
    /\ <<c>> \in Inputs
    /\ Splice(v, Unshare(This(v)), str[v].num, c, 1)
    /\ Promise!Becomes(v, val[v] \o <<c>>)

\* v = w + u: a longer slice, the operand that is not empty, or a new text.
Plus(v, w, u) ==
    LET first == Bytes(This(w))
        addend == Bytes([This(u) EXCEPT !.bodies = first.then.bodies])
        n == str[w].num + str[u].num
    IN  /\ IF Contiguous(str[w], str[u])
           THEN Become(v, SliceOf(str[w].body, str[w].offset, n))
           ELSE IF str[w].num = 0 /\ str[u].body \notin Statics \ {NullBody}
           THEN Become(v, [This(u) EXCEPT !.bodies = first.then.bodies])
           ELSE Become(v, Fresh(first.bytes \o addend.bytes, 0, n, addend.then.bodies))
        /\ Promise!Plus(v, w, u)

\* StrBody::transform: the whole body is written anew, and counted meanwhile;
\* the string is then as long as its body.
Rewrite(v, x, chars, m) ==
    /\ MayConvert(v, m)
    /\ Become(v, [x EXCEPT !.mark = m, !.str.num = Len(chars),
                           !.bodies[x.str.body] = [text |-> Encode(chars), count |-> Len(chars)]])

Converted(t, f, after) ==
    LET s == Chars(t)
    IN  FlattenSeq([i \in DOMAIN s |-> IF i - 1 > after THEN f[s[i]] ELSE <<s[i]>>])

\* transform(xform, after), where xform looks at one character at a time
Transform(v, f, after) ==
    LET x == Unshare(This(v))
    IN  /\ Rewrite(v, x, Converted(Body(x).text, f, after), NoMark)
        /\ Promise!Convert(v, f, after)

\* toLower, toUpper and toJSON leave the bookmark.
Convert(v, f) ==
    LET x == Unshare(This(v))
    IN  /\ Rewrite(v, x, Converted(Body(x).text, f, -1), x.mark)
        /\ Promise!Convert(v, f, -1)

Next == \E v \in Vars :
    \/ \E s \in Inputs : Construct(v, s)
    \/ \E b \in Statics \ {NullBody} : Refer(v, b)
    \/ \E n \in 0..str[v].num - 1 : Read(v, n)
    \/ AsUTF8(v)
    \/ \E c \in Letters : ConstructChar(v, c) \/ AppendChar(v, c)
    \/ \E f \in Conversions : Convert(v, f) \/ \E after \in 0..1 : Transform(v, f, after)
    \/ \E w \in Vars :
           \/ Assign(v, w) \/ CopyConstruct(v, w)
           \/ \E at \in 0..str[w].num : \E len \in 0..str[w].num - at + 1 : Substr(v, w, at, len)
           \/ \E pos \in 0..str[v].num : Insert(v, pos, w)
           \/ AddAssign(v, w)
           \/ \E u \in Vars : Plus(v, w, u)

Spec == Init /\ [][Next]_vars
-------------------------------------------------------------------------------
\* Every string holds what it was made to hold, whatever bodies, offsets and
\* texts it shares: "By-value semantics with mutation".
ByValue ==
    \A v \in Vars : LET s == str[v] IN
        val[v] = SubSeq(Chars(bodies[s.body].text), s.offset + 1, s.offset + s.num)

\* operator[] gives the nth character, from wherever the bookmark makes nthChar
\* search: "Character indexing, not byte offsets".
ReadsRight ==
    \A v \in Vars : \A n \in DOMAIN val[v] :
        LET p == ConstNth(This(v), n - 1).ptr
            t == bodies[str[v].body].text
        IN  p \in 0..Len(t) - 1 /\ val[v][n] = SubSeq(t, p + 1, p + UTF8Len(t, p))

\* The number of characters of a body, when it is known, is right after every
\* change.
CountsExact == \A b \in Bodies : Counted(bodies[b]) = NumChars(bodies[b].text)
===============================================================================
