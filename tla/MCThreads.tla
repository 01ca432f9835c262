------------------------------ MODULE MCThreads ------------------------------
(* Three threads besides the main one, and as many pthread_t values: one can *)
(* end, another start under its id and a third be running, while the main    *)
(* thread joins.                                                             *)
EXTENDS Threads

CONSTANTS w1, w2, w3, i1, i2, i3

MCObjs == {w1, w2, w3}
MCIds == {i1, i2, i3}

Workers == {w1, w2, w3}
Program(spawners, anyJoiners, joiners, keepsJoined, garbage) ==
    [spawners |-> spawners, anyJoiners |-> anyJoiners, joiners |-> joiners,
     keepsJoined |-> keepsJoined, garbage |-> garbage]

\* The programs that the code is safe for: the main thread and another make
\* threads and the main thread calls joinAny; or two threads call joinAny; or
\* the main thread joins each thread and deletes it before it makes another, in
\* memory with any contents.
Sound ==
    {Program({Main, w1}, {Main}, {}, FALSE, {"New"}),
     Program({Main}, {Main, w1}, {}, FALSE, {"New"}),
     Program({Main}, {}, {Main}, FALSE, States)}

\* Programs it is not safe for, to be put in place of Sound: one that uses
\* joinAny, like thread_test (violates NoneMeansNoThreads); one that does so in
\* memory where threads have been before (JoinedHaveEnded); and one that keeps the
\* objects it has joined (CurrentFindsSelf).
Test == {Program({Main}, {Main}, {}, FALSE, {"New"})}
Reusing == {Program({Main}, {Main}, {}, FALSE, {"New", "Ended"})}
Keeping == {Program({Main}, {}, {Main}, TRUE, {"New"})}
==============================================================================
