-------------------------------- MODULE Utf8 ---------------------------------
(***************************************************************************)
(* include/char_encoding.h: stepping over UTF-8 text.  A byte is           *)
(* represented by UTF8CorrectLen of it: the length of the sequence it      *)
(* introduces, or 0 for one that continues a sequence.  The payload bits   *)
(* do not matter to any step.  A text is the bytes before the NUL, and a   *)
(* pointer into it the number of bytes before it.                          *)
(***************************************************************************)
EXTENDS Integers, Sequences, SequencesExt

Nul == 1        \* an ASCII byte
NullPtr == -1

ByteAt(t, p) == IF p < Len(t) THEN t[p + 1] ELSE Nul

UTF8Is1st(b) == b # 0

\* A character: its first byte says how many there are.
Characters == {c \in Seq(0..6) : /\ c # <<>> /\ c[1] = Len(c)
                                 /\ \A i \in 2..Len(c) : ~ UTF8Is1st(c[i])}

\* UTF8Len(const UTF8*): that of the sequence, or 1 for a byte that is not part
\* of a correct one.  UTF8Get advances its pointer by as much.
UTF8Len(t, p) ==
    LET len == ByteAt(t, p)
    IN  IF len = 0 \/ \E i \in 1..len - 1 : UTF8Is1st(ByteAt(t, p + i)) THEN 1 ELSE len

\* UTF8Backup: to the nearest start before cp if cp is no farther from it than
\* the sequence is long, by one byte otherwise.
UTF8Backup(t, cp, limit) ==
    LET low    == IF cp - limit > 6 THEN cp - 6 ELSE limit
        starts == {sp \in low..cp - 1 : UTF8Is1st(ByteAt(t, sp))}
    IN  IF low >= cp THEN NullPtr
        ELSE IF \E sp \in starts : /\ \A q \in starts : q <= sp
                                   /\ ByteAt(t, sp) >= cp - sp
        THEN CHOOSE sp \in starts : \A q \in starts : q <= sp
        ELSE cp - 1

\* Where each character begins, and after the last one where the text ends.
Starts(t) ==
    LET start[k \in 0..Len(t)] ==
            IF k = 0 THEN 0
            ELSE IF start[k - 1] >= Len(t) THEN Len(t)
            ELSE start[k - 1] + UTF8Len(t, start[k - 1])
    IN  start

\* The characters of a text, and back.
CharsAt(t, start) ==
    [k \in {j \in 1..Len(t) : start[j - 1] < Len(t)} |-> SubSeq(t, start[k - 1] + 1, start[k])]

Chars(t) == CharsAt(t, Starts(t))

NumChars(t) == Len(Chars(t))

Encode(s) == FlattenSeq(s)
==============================================================================
