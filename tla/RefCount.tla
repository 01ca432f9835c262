------------------------------- MODULE RefCount -------------------------------
(***************************************************************************)
(* include/refcount.h: Ref<T> variables of several threads over shared,    *)
(* reference-counted bodies, and the copy-on-write discipline (Unshare)    *)
(* on which Array, StrVal and CowMap rest.                                 *)
(*                                                                         *)
(* Only ref_count is atomic: each of its increments, decrements and loads  *)
(* is a step of its own, and the steps of several threads interleave.  A   *)
(* Ref variable is not atomic, so one thread at a time owns it; it may     *)
(* give it to another thread, or publish it, after which every thread may  *)
(* copy or read it and none may change it.                                 *)
(***************************************************************************)
EXTENDS Naturals, FiniteSets

CONSTANTS Threads,   \* the threads of the program
          Vars,      \* its Ref variables
          Bodies,    \* the addresses at which a body can be allocated
          Data,      \* the values a body can hold
          Shared,    \* the owner of a published variable
          Null       \* the null pointer

ASSUME RefCountAssumption ==
    /\ IsFiniteSet(Threads) /\ IsFiniteSet(Vars)
    /\ Threads \cap Vars = {}
    /\ Shared \notin Threads
    /\ Null \notin Bodies \cup Vars \cup Data

VARIABLES ptr,       \* Ref::ptr of each variable
          owner,     \* the thread that owns the variable, or Shared
          ref_count, \* RefCounted::ref_count of each body
          heap,      \* the bodies that are allocated
          data,      \* the contents of each body
          pc,        \* where each thread is in the Ref operation it executes
          var,       \* the Ref the operation is called on ("this")
          other,     \* the Ref it copies, or Null
          o,         \* its locals: the body referred to from now on,
          old,       \* ... and the one referred to until now
          mutating   \* the operation goes on to change the body

regs == <<var, other, o, old, mutating>>
vars == <<ptr, owner, ref_count, heap, data, pc, regs>>

Labels == {"idle", "AddRef", "Store", "Release", "Decrement", "Delete",
           "Copy", "Mutate", "Read"}

TypeOK ==
    /\ ptr \in [Vars -> Bodies \cup {Null}]
    /\ owner \in [Vars -> Threads \cup {Shared}]
    /\ ref_count \in [Bodies -> Nat]
    /\ heap \in SUBSET Bodies
    /\ data \in [Bodies -> Data \cup {Null}]
    /\ pc \in [Threads -> Labels]
    /\ var \in [Threads -> Vars \cup {Null}]
    /\ other \in [Threads -> Vars \cup {Null}]
    /\ o \in [Threads -> Bodies \cup {Null}]
    /\ old \in [Threads -> Bodies \cup {Null}]
    /\ mutating \in [Threads -> BOOLEAN]

Init ==
    /\ ptr = [v \in Vars |-> Null]
    /\ owner \in [Vars -> Threads]
    /\ ref_count = [b \in Bodies |-> 0]
    /\ heap = {}
    /\ data = [b \in Bodies |-> Null]
    /\ pc = [t \in Threads |-> "idle"]
    /\ var = [t \in Threads |-> Null]
    /\ other = [t \in Threads |-> Null]
    /\ o = [t \in Threads |-> Null]
    /\ old = [t \in Threads |-> Null]
    /\ mutating = [t \in Threads |-> FALSE]
-------------------------------------------------------------------------------
Goto(t, label) == pc' = [pc EXCEPT ![t] = label]

\* The assignment is done: Unshare was called by an operation that now changes
\* the body, a plain assignment was not.
Continue(t) ==
    /\ Goto(t, IF mutating[t] THEN "Mutate" ELSE "idle")
    /\ var' = [var EXCEPT ![t] = IF mutating[t] THEN @ ELSE Null]

\* Ref may be copied or read by t.
Readable(t, v) == owner[v] \in {t, Shared}

\* new T at a free address, with its reference count at zero.
New(t, d) ==
    \E b \in Bodies \ heap :
        /\ heap' = heap \cup {b}
        /\ ref_count' = [ref_count EXCEPT ![b] = 0]
        /\ data' = [data EXCEPT ![b] = d]
        /\ o' = [o EXCEPT ![t] = b]

\* v = new T(d): operator=(T*), or the constructor Ref(T*) when v is null.
AssignNew(t, v, d) ==
    /\ pc[t] = "idle" /\ owner[v] = t
    /\ New(t, d)
    /\ var' = [var EXCEPT ![t] = v]
    /\ Goto(t, "AddRef")
    /\ UNCHANGED <<ptr, owner, other, old, mutating>>

\* (Mutant: a copied reference is not counted.)
AssignUncounted(t, v, w) ==
    /\ pc[t] = "idle" /\ owner[v] = t /\ Readable(t, w)
    /\ o' = [o EXCEPT ![t] = ptr[w]]
    /\ var' = [var EXCEPT ![t] = v]
    /\ other' = [other EXCEPT ![t] = w]
    /\ Goto(t, "Store")
    /\ UNCHANGED <<ptr, owner, ref_count, heap, data, old, mutating>>

\* v = w: operator=(const Ref&), or the copy constructor when v is null.
Assign(t, v, w) ==
    /\ pc[t] = "idle" /\ owner[v] = t /\ Readable(t, w)
    /\ o' = [o EXCEPT ![t] = ptr[w]]
    /\ var' = [var EXCEPT ![t] = v]
    /\ other' = [other EXCEPT ![t] = w]
    /\ Goto(t, IF ptr[w] = Null THEN "Store" ELSE "AddRef")
    /\ UNCHANGED <<ptr, owner, ref_count, heap, data, old, mutating>>

\* (Mutant: AddRef does not increment.)
AddRefUncounted(t) ==
    /\ pc[t] = "AddRef"
    /\ Goto(t, "Store")
    /\ UNCHANGED <<ptr, owner, ref_count, heap, data, regs>>

\* RefCounted::AddRef, the atomic increment ...
AddRef(t) ==
    /\ pc[t] = "AddRef"
    /\ ref_count' = [ref_count EXCEPT ![o[t]] = @ + 1]
    /\ Goto(t, "Store")
    /\ UNCHANGED <<ptr, owner, heap, data, regs>>

\* ... its assertion, which loads the count again ...
AddRefAsserts(t) == o[t] # Null => ref_count[o[t]] # 0

\* (Mutant: the old reference is not released.)
StoreWithoutRelease(t) ==
    /\ pc[t] = "Store" /\ AddRefAsserts(t)
    /\ ptr' = [ptr EXCEPT ![var[t]] =
                   IF other[t] # Null THEN ptr[other[t]] ELSE o[t]]
    /\ o' = [o EXCEPT ![t] = Null]
    /\ other' = [other EXCEPT ![t] = Null]
    /\ Continue(t)
    /\ UNCHANGED <<owner, ref_count, heap, data, old, mutating>>

\* ... and, back in the assignment, "old = ptr; ptr = other".
Store(t) ==
    /\ pc[t] = "Store" /\ AddRefAsserts(t)
    /\ old' = [old EXCEPT ![t] = ptr[var[t]]]
    /\ ptr' = [ptr EXCEPT ![var[t]] =
                   IF other[t] # Null THEN ptr[other[t]] ELSE o[t]]
    /\ o' = [o EXCEPT ![t] = Null]
    /\ other' = [other EXCEPT ![t] = Null]
    /\ IF ptr[var[t]] = Null THEN Continue(t)
                             ELSE Goto(t, "Release") /\ UNCHANGED var
    /\ UNCHANGED <<owner, ref_count, heap, data, mutating>>

\* ~Ref: the variable is gone, the reference it held is released.
Destroy(t, v) ==
    /\ pc[t] = "idle" /\ owner[v] = t /\ ptr[v] # Null
    /\ old' = [old EXCEPT ![t] = ptr[v]]
    /\ ptr' = [ptr EXCEPT ![v] = Null]
    /\ var' = [var EXCEPT ![t] = v]
    /\ Goto(t, "Release")
    /\ UNCHANGED <<owner, ref_count, heap, data, other, o, mutating>>

\* RefCounted::Release, first its assertion, which would end the program ...
ReleaseAsserts(t) == ref_count[old[t]] > 0

Release(t) ==
    /\ pc[t] = "Release" /\ ReleaseAsserts(t)
    /\ Goto(t, "Decrement")
    /\ UNCHANGED <<ptr, owner, ref_count, heap, data, regs>>

\* (Mutant: the result of the decrement is compared with the wrong number.)
DecrementOffByOne(t) ==
    /\ pc[t] = "Decrement"
    /\ ref_count' = [ref_count EXCEPT ![old[t]] = @ - 1]
    /\ IF ref_count[old[t]] = 2
       THEN Goto(t, "Delete") /\ UNCHANGED <<var, old>>
       ELSE Continue(t) /\ old' = [old EXCEPT ![t] = Null]
    /\ UNCHANGED <<ptr, owner, heap, data, other, o, mutating>>

\* ... then the atomic decrement, whose result decides ...
Decrement(t) ==
    /\ pc[t] = "Decrement"
    /\ ref_count' = [ref_count EXCEPT ![old[t]] = @ - 1]
    /\ IF ref_count[old[t]] = 1
       THEN Goto(t, "Delete") /\ UNCHANGED <<var, old>>
       ELSE Continue(t) /\ old' = [old EXCEPT ![t] = Null]
    /\ UNCHANGED <<ptr, owner, heap, data, other, o, mutating>>

\* ... whether this thread deletes the body.
Delete(t) ==
    /\ pc[t] = "Delete"
    /\ heap' = heap \ {old[t]}
    /\ data' = [data EXCEPT ![old[t]] = Null]
    /\ old' = [old EXCEPT ![t] = Null]
    /\ Continue(t)
    /\ UNCHANGED <<ptr, owner, ref_count, other, o, mutating>>

\* (Mutant: one other reference is overlooked.)
IsAlmostPrivate(b) == ref_count[b] <= 2

\* Unshare finds the body already private.
IsPrivate(b) == ref_count[b] <= 1

\* Ref::Unshare, called by every operation that changes a body: the count is
\* loaded once, and nothing protects it after that.
Unshare(t, v) ==
    /\ pc[t] = "idle" /\ owner[v] = t /\ ptr[v] # Null
    /\ var' = [var EXCEPT ![t] = v]
    /\ mutating' = [mutating EXCEPT ![t] = TRUE]
    /\ Goto(t, IF IsPrivate(ptr[v]) THEN "Mutate" ELSE "Copy")
    /\ UNCHANGED <<ptr, owner, ref_count, heap, data, other, o, old>>

\* (Mutant: "*this = new T", the contents are not copied.)
CopyNothing(t) ==
    /\ pc[t] = "Copy"
    /\ \E d \in Data : New(t, d)
    /\ Goto(t, "AddRef")
    /\ UNCHANGED <<ptr, owner, var, other, old, mutating>>

\* "*this = new T(*o)": reads the shared body, then goes on as operator=(T*).
Copy(t) ==
    /\ pc[t] = "Copy"
    /\ New(t, data[ptr[var[t]]])
    /\ Goto(t, "AddRef")
    /\ UNCHANGED <<ptr, owner, var, other, old, mutating>>

\* The caller of Unshare changes the body in place.
Mutate(t, d) ==
    /\ pc[t] = "Mutate"
    /\ data' = [data EXCEPT ![ptr[var[t]]] = d]
    /\ mutating' = [mutating EXCEPT ![t] = FALSE]
    /\ var' = [var EXCEPT ![t] = Null]
    /\ Goto(t, "idle")
    /\ UNCHANGED <<ptr, owner, ref_count, heap, other, o, old>>

\* operator-> and operator*: the body is in use from one step to the other.
BeginRead(t, v) ==
    /\ pc[t] = "idle" /\ Readable(t, v) /\ ptr[v] # Null
    /\ var' = [var EXCEPT ![t] = v]
    /\ Goto(t, "Read")
    /\ UNCHANGED <<ptr, owner, ref_count, heap, data, other, o, old, mutating>>

EndRead(t) ==
    /\ pc[t] = "Read"
    /\ var' = [var EXCEPT ![t] = Null]
    /\ Goto(t, "idle")
    /\ UNCHANGED <<ptr, owner, ref_count, heap, data, other, o, old, mutating>>

\* The program hands a variable, between two operations, to another thread or
\* publishes it (through a queue, a latch or the start of a thread, each of
\* which orders the two threads).
Give(t, v, u) ==
    /\ pc[t] = "idle" /\ owner[v] = t
    /\ u = Shared => ptr[v] # Null
    /\ owner' = [owner EXCEPT ![v] = u]
    /\ UNCHANGED <<ptr, ref_count, heap, data, pc, regs>>

Step(t) == \/ AddRef(t) \/ Store(t) \/ Release(t) \/ Decrement(t) \/ Delete(t)
           \/ Copy(t) \/ EndRead(t)
           \/ \E d \in Data : Mutate(t, d)

Call(t, v) == \/ \E d \in Data : AssignNew(t, v, d)
              \/ \E w \in Vars : Assign(t, v, w)
              \/ Destroy(t, v) \/ Unshare(t, v) \/ BeginRead(t, v)
              \/ \E u \in Threads \cup {Shared} : Give(t, v, u)

Next == \E t \in Threads : Step(t) \/ \E v \in Vars : Call(t, v)

Spec == Init /\ [][Next]_vars
-------------------------------------------------------------------------------
\* The thread holds a counted reference to b that no variable holds: it has
\* incremented the count and not yet stored the pointer, or has overwritten
\* the pointer and not yet decremented the count.
InFlight(t, b) == \/ pc[t] = "Store" /\ o[t] = b
                  \/ pc[t] \in {"Release", "Decrement"} /\ old[t] = b

Holders(b) == {v \in Vars : ptr[v] = b} \cup {t \in Threads : InFlight(t, b)}

\* ref_count, read and written by unsynchronised threads, always equals the
\* number of references there are: those in variables and those in flight
\* between AddRef and the store of the pointer, or its overwriting and Release.
CountIsReferences == \A b \in Bodies : ref_count[b] = Cardinality(Holders(b))

\* The bodies a thread is about to touch.
Touched(t) ==
    CASE pc[t] = "AddRef"                           -> {o[t]}
      [] pc[t] = "Store"                            -> {o[t]} \ {Null}
      [] pc[t] \in {"Release", "Decrement", "Delete"} -> {old[t]}
      [] pc[t] \in {"Copy", "Mutate", "Read"}        -> {ptr[var[t]]}
      [] OTHER                                       -> {}

\* No thread counts on, reads, changes or deletes a body that has been
\* deleted, and no variable points to one.
NoUseAfterFree ==
    /\ \A v \in Vars : ptr[v] # Null => ptr[v] \in heap
    /\ \A t \in Threads : Touched(t) \subseteq heap

\* "Delete on last release", once and by nobody else: a body to which no
\* reference is left is about to get its first one (it is new) or is about
\* to be deleted, by exactly one thread.
NoLeak ==
    \A b \in heap : Holders(b) = {} =>
        \E t \in Threads :
            /\ \/ pc[t] = "AddRef" /\ o[t] = b
               \/ pc[t] = "Delete" /\ old[t] = b
            /\ \A u \in Threads \ {t} : b \notin Touched(u)

\* A body is changed only while one variable refers to it, and no other
\* thread is reading it, copying it or counting on it: what Unshare saw in
\* its single load of the count still holds at the end of the change.
ExclusiveMutation ==
    \A t \in Threads : pc[t] = "Mutate" =>
        /\ Holders(ptr[var[t]]) = {var[t]}
        /\ \A u \in Threads \ {t} : ptr[var[t]] \notin Touched(u)

\* No thread is stopped by an assertion of AddRef or Release.
AssertionsHold ==
    \A t \in Threads : /\ pc[t] = "Store" => AddRefAsserts(t)
                       /\ pc[t] = "Release" => ReleaseAsserts(t)

\* The value a variable has for the program.
Value == [v \in Vars |-> IF ptr[v] = Null THEN Null ELSE data[ptr[v]]]

Values == INSTANCE CowValues WITH val <- Value, NoValue <- Null

\* Sharing is invisible: variables behave as if each held a value of its own.
ByValueSemantics == Values!Spec

\* The assignment stores in the variable the value its operand has at that
\* moment, whatever other threads do meanwhile, and Unshare keeps the value.
AssignCopiesValue ==
    [][\A t \in Threads : Store(t) =>
          Value'[var[t]] = IF other[t] # Null THEN Value[other[t]]
                           ELSE IF mutating[t] THEN Value[var[t]]
                           ELSE data[o[t]]]_vars
===============================================================================
