------------------------------ MODULE CowValues ------------------------------
(***************************************************************************)
(* What reference-counted copy-on-write data promises its users.           *)
(*                                                                         *)
(* array.h says "A slice is mutable, but does not affect the base array or *)
(* its other slices (by-value semantics)", and strval.h and cowmap.h say   *)
(* the same of strings and maps.  So a program may forget that bodies are  *)
(* shared: each variable holds a value of its own, and one step changes    *)
(* at most one variable, which belongs to the thread that takes the step.  *)
(***************************************************************************)
CONSTANTS Threads,   \* the threads of the program
          Vars,      \* its reference variables (Ref, Array, StrVal, CowMap)
          Data,      \* the values a body can hold
          Shared,    \* the owner of a variable that all threads read, none writes
          NoValue    \* what a null reference holds

VARIABLES val,       \* the value each variable holds
          owner      \* the thread that may use the variable, or Shared

vars == <<val, owner>>

Init == /\ val = [v \in Vars |-> NoValue]
        /\ owner \in [Vars -> Threads]

\* A variable of t becomes a reference to a newly made value, or its own
\* value is changed in place.
Set(t, v, d) ==
    /\ owner[v] = t
    /\ val' = [val EXCEPT ![v] = d]
    /\ UNCHANGED owner

\* A variable of t becomes a copy of a variable that t may read.
Assign(t, v, w) ==
    /\ owner[v] = t
    /\ owner[w] \in {t, Shared}
    /\ val' = [val EXCEPT ![v] = val[w]]
    /\ UNCHANGED owner

\* The lifetime of a variable ends.
Drop(t, v) ==
    /\ owner[v] = t
    /\ val' = [val EXCEPT ![v] = NoValue]
    /\ UNCHANGED owner

\* A variable is handed to another thread, or published for all to read.
Give(t, v, u) ==
    /\ owner[v] = t
    /\ owner' = [owner EXCEPT ![v] = u]
    /\ UNCHANGED val

Next == \E t \in Threads, v \in Vars :
            \/ \E d \in Data : Set(t, v, d)
            \/ \E w \in Vars : Assign(t, v, w)
            \/ Drop(t, v)
            \/ \E u \in Threads \cup {Shared} : Give(t, v, u)

Spec == Init /\ [][Next]_vars
==============================================================================
