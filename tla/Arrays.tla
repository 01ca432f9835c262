-------------------------------- MODULE Arrays --------------------------------
(***************************************************************************)
(* include/array.h: Array variables as slices of shared bodies, and the    *)
(* operations that narrow, copy, extend and change them.                   *)
(*                                                                         *)
(* A body has its reference count from RefCount.tla: the variables that    *)
(* refer to it, and one more for a static body.  A body without references *)
(* is deleted; its address is used again.  The operations that do not      *)
(* compile when they are instantiated (unshift, reverse, elem_ref,         *)
(* last_ref, and append, + and += of an array) are left out, and so are    *)
(* delete_if, which deletes nothing, and the searches.                     *)
(***************************************************************************)
EXTENDS Naturals, Sequences, FiniteSets

CONSTANTS
    Vars,        \* the Array variables of the program
    Bodies,      \* the addresses of bodies
    Statics,     \* those of the static bodies
    Null,        \* the null pointer
    Elements,    \* what an array can hold
    Text,        \* what the static bodies hold
    Inputs,      \* the sequences it constructs arrays of,
    Predicates,  \* ... the elements its select wants,
    Functions,   \* ... and what its map does to them
    MaxLen,      \* bound: the program makes no array longer than this,
    MaxBody,     \* ... and no body, with what it keeps of elements removed from slices
    IndexSize    \* the number of values of ArrayIndex, 2^32 in the code

\* An ArrayIndex can count the elements of every body, and there is always room
\* for one more body.
ASSUME ArraysAssumption ==
    /\ Statics \subseteq Bodies /\ Null \notin Bodies
    /\ MaxLen \in Nat /\ MaxBody \in Nat /\ IndexSize \in Nat
    /\ IndexSize > 2 * MaxLen /\ IndexSize > MaxBody
    /\ Text \in Seq(Elements) /\ Len(Text) < IndexSize
    /\ Inputs \subseteq Seq(Elements) /\ \A s \in Inputs : Len(s) < IndexSize
    /\ Predicates \subseteq SUBSET Elements
    /\ Functions \subseteq [Elements -> Elements]
    /\ IsFiniteSet(Vars)
    /\ \A f \in [Vars -> Bodies \cup {Null}] :
           \E b \in Bodies \ Statics : \A v \in Vars : f[v] # b

VARIABLES slice, \* body, offset and num_elements of each variable
          data   \* the elements of each body (ArrayBody::start, num_elements)

vars == <<slice, data>>

Slices == [body : Bodies \cup {Null}, offset : 0..IndexSize - 1, num : 0..IndexSize - 1]

Empty == [body |-> Null, offset |-> 0, num |-> 0]

Init == /\ slice = [v \in Vars |-> Empty]
        /\ data = [b \in Bodies |-> IF b \in Statics THEN Text ELSE <<>>]
-------------------------------------------------------------------------------
Users(b) == {v \in Vars : slice[v].body = b}

GetRefCount(b) == Cardinality(Users(b)) + IF b \in Statics THEN 1 ELSE 0

\* What an array looks like to the program.
Value == [v \in Vars |-> LET s == slice[v] IN
             IF s.body = Null THEN <<>>
             ELSE SubSeq(data[s.body], s.offset + 1, s.offset + s.num)]

\* new Body(...) at a free address: any one, as free addresses differ in nothing.
NewBody == CHOOSE b \in Bodies \ Statics : Users(b) = {}

\* The variable v becomes the slice s; body b, if it is one, has the elements
\* d; and bodies to which no reference is left are deleted.
Assign(v, s, b, d) ==
    /\ slice' = [slice EXCEPT ![v] = s]
    /\ data' = [x \in Bodies |->
                  IF x \notin Statics /\ \A u \in Vars : slice'[u].body # x THEN <<>>
                  ELSE IF x = b THEN d ELSE data[x]]

\* The slice alone changes, the bodies do not.
Adjust(v, s) == Assign(v, s, Null, <<>>)

\* v = Array(body of elements d)
Make(v, d) == LET b == NewBody
              IN  Assign(v, [body |-> b, offset |-> 0, num |-> Len(d)], b, d)

\* (Mutant: one other reference is overlooked.)
IsAlmostOwn(v) == slice[v].body # Null /\ GetRefCount(slice[v].body) <= 2

\* ArrayR::Unshare: a body that nobody else uses is kept; otherwise the slice's
\* own elements are copied to a new one.
IsOwn(v) == slice[v].body # Null /\ GetRefCount(slice[v].body) <= 1

Unshare(v) ==
    IF IsOwn(v)
    THEN [body |-> slice[v].body, offset |-> slice[v].offset, elems |-> data[slice[v].body]]
    ELSE [body |-> NewBody, offset |-> 0, elems |-> Value[v]]

\* ArrayBody::insert and ArrayBody::remove, at a position in the body.
BodyInsert(d, pos, s) == SubSeq(d, 1, pos) \o s \o SubSeq(d, pos + 1, Len(d))

\* (Mutant: the elements that follow begin one too early.)
BodyRemoveShort(d, at, len) == SubSeq(d, 1, at) \o SubSeq(d, at + len, Len(d))

BodyRemove(d, at, len) == SubSeq(d, 1, at) \o SubSeq(d, at + len + 1, Len(d))
-------------------------------------------------------------------------------
\* ArrayR(data, size) and ArrayR(element)
Construct(v, s) == Make(v, s)

\* ArrayR(Body*) with a static body
Refer(v, b) == Adjust(v, [body |-> b, offset |-> 0, num |-> Len(data[b])])

Copy(v, w) == Adjust(v, slice[w])

\* slice(at, len), and with it head, tail and shorter: the new slice asserts
\* that it begins, and ends, before the end of the body.
NewSlice(s, at, n) == [s EXCEPT !.offset = s.offset + at, !.num = n]

SliceAsserts(s) == /\ s.offset < Len(data[s.body])
                   /\ s.offset + s.num < Len(data[s.body])

Slice(v, w, at, len) ==
    LET s == slice[w]
        n == IF len > s.num - at THEN s.num - at ELSE len
    IN  IF at >= s.num \/ len = 0 THEN Adjust(v, Empty)
        ELSE /\ SliceAsserts(NewSlice(s, at, n))
             /\ Adjust(v, NewSlice(s, at, n))

\* set and elem_mut
Set(v, pos, e) ==
    /\ pos < slice[v].num
    /\ LET u == Unshare(v)
       IN  Assign(v, [slice[v] EXCEPT !.body = u.body, !.offset = u.offset],
                  u.body, [u.elems EXCEPT ![u.offset + pos + 1] = e])

\* insert in the body at a position that was computed for the slice
Edit(v, pos, s) ==
    LET u == Unshare(v)
    IN  /\ Len(u.elems) + Len(s) <= MaxBody
        /\ Assign(v, [body |-> u.body, offset |-> u.offset, num |-> slice[v].num + Len(s)],
                  u.body, BodyInsert(u.elems, pos, s))

\* push, += and append of an element
Push(v, e) ==
    /\ slice[v].num < MaxLen
    /\ Edit(v, slice[v].num, <<e>>)

\* (Mutant: pull does not look whether there is an element.)
PullBlindly(v) == Adjust(v, [slice[v] EXCEPT !.num = @ - 1])

Pull(v) == slice[v].num > 0 /\ Adjust(v, [slice[v] EXCEPT !.num = @ - 1])

Clear(v) == Adjust(v, [slice[v] EXCEPT !.num = 0])

\* insert(pos, w): a slice is extended over the elements that follow it, or
\* precede it, in its body when these are what is inserted.
Follows(v, pos, w) == /\ pos = slice[v].num
                      /\ slice[v].offset + pos = slice[w].offset
Precedes(v, pos, w) == /\ pos = 0
                       /\ slice[w].offset + slice[w].num = slice[v].offset

Insert(v, pos, w) ==
    LET s == slice[v]  a == slice[w]
    IN  /\ v # w /\ pos <= s.num /\ s.num + a.num <= MaxLen
        /\ IF s.body = a.body /\ Follows(v, pos, w)
           THEN Adjust(v, [s EXCEPT !.num = @ + a.num])
           ELSE IF s.body = a.body /\ Precedes(v, pos, w)
           THEN Adjust(v, [s EXCEPT !.offset = @ - a.num, !.num = @ + a.num])
           ELSE Edit(v, pos, Value[w])

\* (Mutant: the slice moves on in its body but is not shortened.)
Shifted(s, at, len) ==
    IF at + len = s.num THEN [s EXCEPT !.num = @ - len] ELSE [s EXCEPT !.offset = @ + len]

\* The slice that is left when the elements are at one end.
Trimmed(s, at, len) ==
    IF at + len = s.num THEN [s EXCEPT !.num = @ - len]
    ELSE [s EXCEPT !.offset = @ + len, !.num = @ - len]

AtAnEnd(s, at, len) == at + len = s.num \/ at = 0

\* remove(at, len), and with it delete_at and shift.  The program removes no more
\* than there is: the assertion that is to see to it subtracts unsigned numbers.
Remove(v, at, len) ==
    LET s == slice[v]
        u == Unshare(v)
    IN  /\ at + len <= s.num
        /\ IF at = s.num \/ len = 0 THEN UNCHANGED vars
           ELSE IF AtAnEnd(s, at, len) THEN Adjust(v, Trimmed(s, at, len))
           ELSE Assign(v, [body |-> u.body, offset |-> u.offset, num |-> s.num - len],
                       u.body, BodyRemove(u.elems, at, len))

\* w.drop(n): remove(0, n) on a copy
Drop(v, w, n) ==
    LET s == slice[w]
    IN  /\ n <= s.num
        /\ Adjust(v, IF n = 0 \/ s.num = 0 THEN s ELSE Trimmed(s, 0, n))

\* select and map take body->data() without asking whether there is a body: on an
\* array without one (array.h:387 and 398) they dereference a null pointer, and
\* the program stops there.  An empty array may have a body or not: it has none
\* when it was constructed by default, and when slice or select found nothing.
HasBody(w) == slice[w].body # Null

\* select: a new array, made by appending one after the other of those wanted
Appended(s, E) ==
    LET selected[n \in 0..Len(s)] ==
            IF n = 0 THEN <<>>
            ELSE IF s[n] \in E THEN Append(selected[n - 1], s[n]) ELSE selected[n - 1]
    IN  selected

Select(v, w, E) ==
    LET chosen == Appended(Value[w], E)[Len(Value[w])]
    IN  /\ HasBody(w)
        /\ IF chosen = <<>> THEN Adjust(v, Empty) ELSE Make(v, chosen)

\* w + e: a new array with room for the elements of w and one more
Plus(v, w, e) ==
    /\ slice[w].num < MaxLen
    /\ Make(v, Append(Value[w], e))

Map(v, w, f) == /\ HasBody(w)
                /\ Make(v, [i \in DOMAIN Value[w] |-> f[Value[w][i]]])

Next == \E v \in Vars :
    \/ \E s \in Inputs : Construct(v, s)
    \/ \E b \in Statics : Refer(v, b)
    \/ \E e \in Elements : Push(v, e)
    \/ Pull(v) \/ Clear(v)
    \/ \E pos \in 0..MaxLen - 1, e \in Elements : Set(v, pos, e)
    \/ \E at \in 0..MaxLen, len \in 0..MaxLen : Remove(v, at, len)
    \/ \E w \in Vars :
           \/ Copy(v, w)
           \/ \E at, len \in 0..MaxLen : Slice(v, w, at, len)
           \/ \E n \in 0..MaxLen : Drop(v, w, n)
           \/ \E pos \in 0..MaxLen : Insert(v, pos, w)
           \/ \E E \in Predicates : Select(v, w, E)
           \/ \E e \in Elements : Plus(v, w, e)
           \/ \E f \in Functions : Map(v, w, f)

Spec == Init /\ [][Next]_vars
-------------------------------------------------------------------------------
TypeOK == /\ slice \in [Vars -> Slices]
          /\ data \in [Bodies -> Seq(Elements)]

\* Every slice lies within its body, whatever was done to either: no operation
\* on another variable shortens a body under a slice.
SlicesInBodies ==
    \A v \in Vars : LET s == slice[v] IN
        IF s.body = Null THEN s.num = 0 ELSE s.offset + s.num <= Len(data[s.body])

\* An operation changes the array it is called on and no other, however they
\* share their bodies: "leaving other slices unaffected".
OthersUnaffected ==
    [][\A u, v \in Vars : u # v /\ Value'[u] # Value[u] => Value'[v] = Value[v]]_vars

Values == INSTANCE ArrayValues WITH val <- Value

\* Every operation on v does to it what it would do to a sequence, and nothing
\* to the others: push, insert and remove in the middle where "edits" holds, and
\* select and map of the arrays that have a body, as the others stop the program.
AsSequences(v, edits) ==
    /\ \A s \in Inputs : Construct(v, s) => Values!Construct(v, s)
    /\ \A b \in Statics : Refer(v, b) => Values!Construct(v, data[b])
    /\ Pull(v) => Values!Pull(v)
    /\ Clear(v) => Values!Clear(v)
    /\ \A pos \in 0..MaxLen - 1, e \in Elements : Set(v, pos, e) => Values!Set(v, pos, e)
    /\ \A e \in Elements : edits /\ Push(v, e) => Values!Push(v, e)
    /\ \A at \in 0..MaxLen, len \in 0..MaxLen :
           (edits \/ AtAnEnd(slice[v], at, len)) /\ Remove(v, at, len) => Values!Remove(v, at, len)
    /\ \A w \in Vars :
           /\ Copy(v, w) => Values!Copy(v, w)
           /\ \A at, len \in 0..MaxLen : Slice(v, w, at, len) => Values!Slice(v, w, at, len)
           /\ \A n \in 0..MaxLen : Drop(v, w, n) => Values!Drop(v, w, n)
           /\ \A pos \in 0..MaxLen : edits /\ Insert(v, pos, w) => Values!Insert(v, pos, w)
           /\ \A E \in Predicates : Select(v, w, E) => Values!Select(v, w, E)
           /\ \A e \in Elements : Plus(v, w, e) => Values!Plus(v, w, e)
           /\ \A f \in Functions : Map(v, w, f) => Values!Map(v, w, f)

\* Slices have by-value semantics, whatever the operation (that does not stop
\* the program).
ByValue == Values!Init /\ [][\A v \in Vars : AsSequences(v, TRUE)]_vars

\* They do, except for push, insert and remove on a slice that begins inside a
\* body of its own.  That every empty array can be read like an empty sequence
\* is not said: select and map of one without a body never return.
Aligned(v) == ~ IsOwn(v) \/ slice[v].offset = 0

AlignedByValue == Values!Init /\ [][\A v \in Vars : AsSequences(v, Aligned(v))]_vars
===============================================================================
