---------------------------- MODULE ThreadsProofs -----------------------------
(***************************************************************************)
(* Proofs about Threads, for any number of objects, any finite set of      *)
(* thread identifiers and every program in SafePrograms.                   *)
(***************************************************************************)
EXTENDS Threads, FiniteSetTheorems, TLAPS

Busy == {"resume", "create", "insert", "join", "joined", "delete"}
Making == {"resume", "create", "insert"}
Running == {"running", "ended"}

Holds(p, where, obj) == pc[p] \in where /\ arg[p] = obj

\* What a process does, it was made to do by the program.
RoleInv ==
    /\ program \in SafePrograms
    /\ \A p \in Procs :
        /\ latch = p <=> pc[p] \in {"create", "insert", "search"}
        /\ arg[p] # None <=> pc[p] \in Busy
        /\ pc[p] \in Making => p \in Spawners
        /\ pc[p] \in {"search", "wait", "gotNone"} => p \in AnyJoiners
        /\ pc[p] \in {"join", "joined"} => p \in Joiners
        /\ pc[p] \in {"join", "joined", "delete"} /\ Joiners # {} => p = Main
        /\ \A q \in Procs : arg[p] # None /\ arg[p] = arg[q] => p = q

\* An object, the thread started for it and what is recorded of it keep in step.
ObjectInv ==
    \A w \in Objs :
        /\ parent[w] = None => os[w] = "none" /\ w \notin exists
        /\ parent[w] # None => parent[w] \in Spawners
        /\ os[w] = "none" <=> pc[w] = "none"
        /\ os[w] \in {"ended", "joined"} <=> pc[w] = "done"
        /\ os[w] # "none" => os_id[w] \in Ids
        /\ pc[w] \notin {"none", "done"} => w \in exists
        /\ thread_id[w] # None => thread_id[w] = os_id[w] /\ w \in exists
        /\ thread_id[w] # None => os[w] # "none"
        /\ os[w] # "none" /\ thread_id[w] = None /\ w \in exists =>
              pc[w] = "start" /\ \E p \in Procs : Holds(p, {"insert"}, w)
        /\ pc[w] = "done" => state[w] = "Ended"
        /\ "Ended" \notin Garbage /\ state[w] = "Ended" => pc[w] = "done"

\* What each operation knows of its object.
ArgInv ==
    \A p \in Procs :
        /\ arg[p] # None => arg[p] \in exists
        /\ pc[p] \in {"resume", "create"} => os[arg[p]] = "none" /\ parent[arg[p]] # None
        /\ pc[p] = "insert" => pc[arg[p]] = "start" /\ thread_id[arg[p]] = None
        /\ pc[p] \in {"join", "joined", "delete"} => thread_id[arg[p]] # None
        /\ pc[p] \in {"join", "joined"} => arg[p] \notin joined
        /\ pc[p] = "joined" => os[arg[p]] = "joined"
        /\ pc[p] = "delete" => pc[arg[p]] = "done"

\* Threads that the system still knows have identifiers of their own.
IdInv ==
    \A w, x \in Objs :
        os[w] \in Running /\ os[x] \in Running /\ os_id[w] = os_id[x] => w = x

\* Joined objects: while one is left, nobody makes another thread.
JoinInv ==
    \A w \in Objs :
        /\ w \in joined => os[w] = "joined"
        /\ os[w] = "joined" => Joiners # {}
        /\ os[w] = "joined" /\ w \in exists =>
              w \in joined \/ \E p \in Procs : Holds(p, {"joined"}, w)
        /\ w \in joined \cap exists => pc[Main] \notin Making \cup {"join", "joined"}

\* The map holds the objects between the end of resume and the end of joinAny
\* or join, each under its own identifier.
Leaving(w) == w \in joined \/ \E p \in Procs : Holds(p, {"delete"}, w)

MapInv ==
    /\ \A i \in Ids : threads[i] # None => thread_id[threads[i]] = i /\ ~Leaving(threads[i])
    /\ \A w \in Objs : thread_id[w] # None =>
           threads[thread_id[w]] = IF Leaving(w) THEN None ELSE w

IInv == /\ TypeOK /\ RoleInv /\ ObjectInv /\ ArgInv /\ IdInv /\ JoinInv
        /\ MapInv /\ EndedCountExact /\ NoLostWakeup

-------------------------------------------------------------------------------
\* The entries that joinAny may take.
Findable == {i \in Registered : pc[threads[i]] = "done"}

LEMMA SameCount ==
  ASSUME EndedCountExact, Findable' = Findable, ended_count' = ended_count
  PROVE  EndedCountExact'
  BY DEF EndedCountExact, Findable

LEMMA FindableFinite == IsFiniteSet(Findable)
  BY ThreadsAssumption, FS_Subset DEF Findable, Registered

\* One entry more, or one less.
LEMMA CountUp ==
  ASSUME EndedCountExact, NEW i, i \notin Findable,
         Findable' = Findable \cup {i}, ended_count' = ended_count + 1
  PROVE  EndedCountExact'
  <1>1. Cardinality(Findable \cup {i}) = Cardinality(Findable) + 1
    BY FindableFinite, FS_AddElement
  <1> QED BY <1>1 DEF EndedCountExact, Findable

LEMMA CountDown ==
  ASSUME EndedCountExact, NEW i \in Findable,
         Findable' = Findable \ {i}, ended_count' = ended_count - 1
  PROVE  EndedCountExact' /\ ended_count \in Nat \ {0}
  <1>1. /\ Cardinality(Findable \ {i}) = Cardinality(Findable) - 1
        /\ Cardinality(Findable) \in Nat /\ Cardinality(Findable) # 0
    BY FindableFinite, FS_RemoveElement, FS_CardinalityType, FS_EmptySet
  <1> QED BY <1>1 DEF EndedCountExact, Findable
-------------------------------------------------------------------------------
(***************************************************************************)
(* Each action preserves the invariant.                                    *)
(***************************************************************************)
USE ThreadsAssumption
    DEF IInv, TypeOK, RoleInv, ObjectInv, ArgInv, IdInv, JoinInv, MapInv, NoLostWakeup,
        Labels, States, SafePrograms, Spawners, AnyJoiners, Joiners, KeepsJoined, Garbage,
        Busy, Making, Running, Holds, Leaving, Procs, shared, object, Move, Goto

LEMMA ConstructStep ==
  ASSUME IInv, NEW p \in Procs, NEW obj \in Objs, Construct(p, obj), UNCHANGED program
  PROVE  IInv'
  <1> USE DEF Construct, Unhindered
  <1>1. TypeOK' /\ RoleInv'
    BY SMTT(30)
  <1>2. ObjectInv' /\ ArgInv'
    BY SMTT(30)
  <1>3. IdInv' /\ JoinInv' /\ MapInv'
    BY SMTT(30)
  <1>4. EndedCountExact' /\ NoLostWakeup'
    <2>1. Findable' = Findable
      BY SMTT(30) DEF Findable, Registered
    <2> QED BY <2>1, SameCount
  <1> QED BY <1>1, <1>2, <1>3, <1>4

LEMMA ResumeStep ==
  ASSUME IInv, NEW p \in Procs, Resume(p), UNCHANGED program
  PROVE  IInv'
  <1> USE DEF Resume
  <1>1. TypeOK' /\ RoleInv'
    BY SMTT(30)
  <1>2. ObjectInv' /\ ArgInv'
    BY SMTT(30)
  <1>3. IdInv' /\ JoinInv' /\ MapInv'
    BY SMTT(30)
  <1>4. EndedCountExact' /\ NoLostWakeup'
    <2>1. Findable' = Findable
      BY SMTT(30) DEF Findable, Registered
    <2> QED BY <2>1, SameCount
  <1> QED BY <1>1, <1>2, <1>3, <1>4

LEMMA CreateStep ==
  ASSUME IInv, NEW p \in Procs, Create(p), UNCHANGED program
  PROVE  IInv'
  <1> USE DEF Create, FreeIds
  <1>1. TypeOK' /\ RoleInv'
    BY SMTT(30)
  <1>2. ObjectInv' /\ ArgInv'
    BY SMTT(30)
  <1>3. IdInv' /\ JoinInv' /\ MapInv'
    BY SMTT(30)
  <1>4. EndedCountExact' /\ NoLostWakeup'
    <2>1. Findable' = Findable
      BY SMTT(30) DEF Findable, Registered
    <2> QED BY <2>1, SameCount
  <1> QED BY <1>1, <1>2, <1>3, <1>4

LEMMA InsertStep ==
  ASSUME IInv, NEW p \in Procs, Insert(p), UNCHANGED program
  PROVE  IInv'
  <1> USE DEF Insert, Find
  <1>1. TypeOK' /\ RoleInv'
    BY SMTT(30)
  <1>2. ObjectInv' /\ ArgInv'
    BY SMTT(30)
  <1>3. IdInv' /\ JoinInv' /\ MapInv'
    BY SMTT(30)
  <1>4. EndedCountExact' /\ NoLostWakeup'
    <2>1. Findable' = Findable
      BY SMTT(30) DEF Findable, Registered
    <2> QED BY <2>1, SameCount
  <1> QED BY <1>1, <1>2, <1>3, <1>4

LEMMA StartStep ==
  ASSUME IInv, NEW obj \in Objs, Start(obj), UNCHANGED program
  PROVE  IInv'
  <1> USE DEF Start
  <1>1. TypeOK' /\ RoleInv'
    BY SMTT(30)
  <1>2. ObjectInv' /\ ArgInv'
    BY SMTT(30)
  <1>3. IdInv' /\ JoinInv' /\ MapInv'
    BY SMTT(30)
  <1>4. EndedCountExact' /\ NoLostWakeup'
    <2>1. Findable' = Findable
      BY SMTT(30) DEF Findable, Registered
    <2> QED BY <2>1, SameCount
  <1> QED BY <1>1, <1>2, <1>3, <1>4

LEMMA BeginStep ==
  ASSUME IInv, NEW obj \in Objs, Begin(obj), UNCHANGED program
  PROVE  IInv'
  <1> USE DEF Begin
  <1>1. TypeOK' /\ RoleInv'
    BY SMTT(30)
  <1>2. ObjectInv' /\ ArgInv'
    BY SMTT(30)
  <1>3. IdInv' /\ JoinInv' /\ MapInv'
    BY SMTT(30)
  <1>4. EndedCountExact' /\ NoLostWakeup'
    <2>1. Findable' = Findable
      BY SMTT(30) DEF Findable, Registered
    <2> QED BY <2>1, SameCount
  <1> QED BY <1>1, <1>2, <1>3, <1>4

LEMMA ReturnStep ==
  ASSUME IInv, NEW obj \in Objs, Return(obj), UNCHANGED program
  PROVE  IInv'
  <1> USE DEF Return
  <1>1. TypeOK' /\ RoleInv'
    BY SMTT(30)
  <1>2. ObjectInv' /\ ArgInv'
    BY SMTT(30)
  <1>3. IdInv' /\ JoinInv' /\ MapInv'
    BY SMTT(30)
  <1>4. EndedCountExact' /\ NoLostWakeup'
    <2>1. Findable' = Findable
      BY SMTT(30) DEF Findable, Registered
    <2> QED BY <2>1, SameCount
  <1> QED BY <1>1, <1>2, <1>3, <1>4

LEMMA EndStep ==
  ASSUME IInv, NEW obj \in Objs, End(obj), UNCHANGED program
  PROVE  IInv'
  <1> USE DEF End, Find, Broadcast
  <1>1. TypeOK' /\ RoleInv'
    BY SMTT(30)
  <1>2. ObjectInv' /\ ArgInv'
    BY SMTT(30)
  <1>3. IdInv' /\ JoinInv' /\ MapInv'
    BY SMTT(30)
  <1>4. EndedCountExact' /\ NoLostWakeup'
    <2>1. thread_id[obj] \in Ids /\ threads[thread_id[obj]] = obj
      OBVIOUS
    <2>2. /\ thread_id[obj] \notin Findable
          /\ Findable' = Findable \cup {thread_id[obj]}
      BY <2>1, SMTT(30) DEF Findable, Registered
    <2> QED BY <2>1, <2>2, CountUp
  <1> QED BY <1>1, <1>2, <1>3, <1>4

LEMMA JoinAnyStep ==
  ASSUME IInv, NEW p \in Procs, JoinAny(p), UNCHANGED program
  PROVE  IInv'
  <1> USE DEF JoinAny
  <1>1. TypeOK' /\ RoleInv'
    BY SMTT(30)
  <1>2. ObjectInv' /\ ArgInv'
    BY SMTT(30)
  <1>3. IdInv' /\ JoinInv' /\ MapInv'
    BY SMTT(30)
  <1>4. EndedCountExact' /\ NoLostWakeup'
    <2>1. Findable' = Findable
      BY SMTT(30) DEF Findable, Registered
    <2> QED BY <2>1, SameCount
  <1> QED BY <1>1, <1>2, <1>3, <1>4

LEMMA WaitStep ==
  ASSUME IInv, NEW p \in Procs, Wait(p), UNCHANGED program
  PROVE  IInv'
  <1> USE DEF Wait
  <1>1. TypeOK' /\ RoleInv'
    BY SMTT(30)
  <1>2. ObjectInv' /\ ArgInv'
    BY SMTT(30)
  <1>3. IdInv' /\ JoinInv' /\ MapInv'
    BY SMTT(30)
  <1>4. EndedCountExact' /\ NoLostWakeup'
    <2>1. Findable' = Findable
      BY SMTT(30) DEF Findable, Registered
    <2> QED BY <2>1, SameCount
  <1> QED BY <1>1, <1>2, <1>3, <1>4

LEMMA SpuriousStep ==
  ASSUME IInv, NEW p \in Procs, Spurious(p), UNCHANGED program
  PROVE  IInv'
  <1> USE DEF Spurious
  <1>1. TypeOK' /\ RoleInv'
    BY SMTT(30)
  <1>2. ObjectInv' /\ ArgInv'
    BY SMTT(30)
  <1>3. IdInv' /\ JoinInv' /\ MapInv'
    BY SMTT(30)
  <1>4. EndedCountExact' /\ NoLostWakeup'
    <2>1. Findable' = Findable
      BY SMTT(30) DEF Findable, Registered
    <2> QED BY <2>1, SameCount
  <1> QED BY <1>1, <1>2, <1>3, <1>4

LEMMA WakeStep ==
  ASSUME IInv, NEW p \in Procs, Wake(p), UNCHANGED program
  PROVE  IInv'
  <1> USE DEF Wake
  <1>1. TypeOK' /\ RoleInv'
    BY SMTT(30)
  <1>2. ObjectInv' /\ ArgInv'
    BY SMTT(30)
  <1>3. IdInv' /\ JoinInv' /\ MapInv'
    BY SMTT(30)
  <1>4. EndedCountExact' /\ NoLostWakeup'
    <2>1. Findable' = Findable
      BY SMTT(30) DEF Findable, Registered
    <2> QED BY <2>1, SameCount
  <1> QED BY <1>1, <1>2, <1>3, <1>4

LEMMA TakeStep ==
  ASSUME IInv, NEW p \in Procs, Take(p), UNCHANGED program
  PROVE  IInv'
  <1> USE DEF Take
  <1>1. PICK i \in Registered : /\ threads' = [threads EXCEPT ![i] = None]
                                 /\ arg' = [arg EXCEPT ![p] = threads[i]]
                                 /\ state[threads[i]] = "Ended"
    OBVIOUS
  <1>2. i \in Ids /\ threads[i] \in Objs /\ "Ended" \notin Garbage
    BY SMTT(30) DEF Registered
  <1>3. i \in Findable
    BY <1>1, <1>2 DEF Findable
  <1>4. Findable' = Findable \ {i}
    BY <1>1, <1>2, SMTT(30) DEF Findable, Registered
  <1>5. EndedCountExact' /\ ended_count \in Nat \ {0}
    BY <1>3, <1>4, CountDown
  <1>6. TypeOK' /\ RoleInv' /\ NoLostWakeup'
    BY <1>1, <1>2, <1>3, <1>5, SMTT(30) DEF Findable
  <1>7. ObjectInv' /\ ArgInv'
    BY <1>1, <1>2, <1>3, SMTT(30) DEF Findable
  <1>8. IdInv' /\ JoinInv' /\ MapInv'
    BY <1>1, <1>2, <1>3, SMTT(30) DEF Findable
  <1> QED BY <1>5, <1>6, <1>7, <1>8

LEMMA GotNoneStep ==
  ASSUME IInv, NEW p \in Procs, GotNone(p), UNCHANGED program
  PROVE  IInv'
  <1> USE DEF GotNone
  <1>1. TypeOK' /\ RoleInv'
    BY SMTT(30)
  <1>2. ObjectInv' /\ ArgInv'
    BY SMTT(30)
  <1>3. IdInv' /\ JoinInv' /\ MapInv'
    BY SMTT(30)
  <1>4. EndedCountExact' /\ NoLostWakeup'
    <2>1. Findable' = Findable
      BY SMTT(30) DEF Findable, Registered
    <2> QED BY <2>1, SameCount
  <1> QED BY <1>1, <1>2, <1>3, <1>4

LEMMA JoinStep ==
  ASSUME IInv, NEW p \in Procs, NEW obj \in Objs, Join(p, obj), UNCHANGED program
  PROVE  IInv'
  <1> USE DEF Join, Unhindered
  <1>1. TypeOK' /\ RoleInv'
    BY SMTT(30)
  <1>2. ObjectInv' /\ ArgInv'
    BY SMTT(30)
  <1>3. IdInv' /\ JoinInv' /\ MapInv'
    BY SMTT(30)
  <1>4. EndedCountExact' /\ NoLostWakeup'
    <2>1. Findable' = Findable
      BY SMTT(30) DEF Findable, Registered
    <2> QED BY <2>1, SameCount
  <1> QED BY <1>1, <1>2, <1>3, <1>4

LEMMA PthreadJoinStep ==
  ASSUME IInv, NEW p \in Procs, PthreadJoin(p), UNCHANGED program
  PROVE  IInv'
  <1> USE DEF PthreadJoin
  <1>1. TypeOK' /\ RoleInv'
    BY SMTT(30)
  <1>2. ObjectInv' /\ ArgInv'
    BY SMTT(30)
  <1>3. IdInv' /\ JoinInv' /\ MapInv'
    BY SMTT(30)
  <1>4. EndedCountExact' /\ NoLostWakeup'
    <2>1. Findable' = Findable
      BY SMTT(30) DEF Findable, Registered
    <2> QED BY <2>1, SameCount
  <1> QED BY <1>1, <1>2, <1>3, <1>4

LEMMA EraseStep ==
  ASSUME IInv, NEW p \in Procs, Erase(p), UNCHANGED program
  PROVE  IInv'
  <1> USE DEF Erase, Find
  <1> DEFINE i == thread_id[arg[p]]
  <1>1. i \in Ids /\ threads[i] = arg[p] /\ pc[arg[p]] = "done"
    BY SMTT(30)
  <1>2. i \in Findable /\ Findable' = Findable \ {i}
    BY <1>1, SMTT(30) DEF Findable, Registered
  <1>3. EndedCountExact' /\ ended_count \in Nat \ {0}
    BY <1>1, <1>2, CountDown
  <1>4. TypeOK' /\ RoleInv' /\ NoLostWakeup'
    BY <1>1, <1>3, SMTT(30)
  <1>5. ObjectInv' /\ ArgInv'
    BY <1>1, SMTT(30)
  <1>6. IdInv' /\ JoinInv' /\ MapInv'
    BY <1>1, SMTT(30)
  <1> QED BY <1>3, <1>4, <1>5, <1>6

LEMMA DiscardStep ==
  ASSUME IInv, NEW p \in Procs, NEW obj \in Objs, Discard(p, obj), UNCHANGED program
  PROVE  IInv'
  <1> USE DEF Discard
  <1>1. TypeOK' /\ RoleInv'
    BY SMTT(30)
  <1>2. ObjectInv' /\ ArgInv'
    BY SMTT(30)
  <1>3. IdInv' /\ JoinInv' /\ MapInv'
    BY SMTT(30)
  <1>4. EndedCountExact' /\ NoLostWakeup'
    <2>1. Findable' = Findable
      BY SMTT(30) DEF Findable, Registered
    <2> QED BY <2>1, SameCount
  <1> QED BY <1>1, <1>2, <1>3, <1>4

LEMMA DeleteStep ==
  ASSUME IInv, NEW p \in Procs, Delete(p), UNCHANGED program
  PROVE  IInv'
  <1> USE DEF Delete, Find
  <1>1. TypeOK' /\ RoleInv'
    BY SMTT(30)
  <1>2. ObjectInv' /\ ArgInv'
    BY SMTT(30)
  <1>3. IdInv' /\ JoinInv' /\ MapInv'
    BY SMTT(30)
  <1>4. EndedCountExact' /\ NoLostWakeup'
    <2>1. Findable' = Findable
      BY SMTT(30) DEF Findable, Registered
    <2> QED BY <2>1, SameCount
  <1> QED BY <1>1, <1>2, <1>3, <1>4

LEMMA QuitStep ==
  ASSUME IInv, Quit, UNCHANGED program
  PROVE  IInv'
  <1> USE DEF Quit
  <1>1. TypeOK' /\ RoleInv'
    BY SMTT(30)
  <1>2. ObjectInv' /\ ArgInv'
    BY SMTT(30)
  <1>3. IdInv' /\ JoinInv' /\ MapInv'
    BY SMTT(30)
  <1>4. EndedCountExact' /\ NoLostWakeup'
    <2>1. Findable' = Findable
      BY SMTT(30) DEF Findable, Registered
    <2> QED BY <2>1, SameCount
  <1> QED BY <1>1, <1>2, <1>3, <1>4

HIDE ThreadsAssumption
     DEF IInv, TypeOK, RoleInv, ObjectInv, ArgInv, IdInv, JoinInv, MapInv, NoLostWakeup,
         Labels, States, SafePrograms, Spawners, AnyJoiners, Joiners, KeepsJoined, Garbage,
         Busy, Making, Running, Holds, Leaving, Procs, shared, object, Move, Goto
-------------------------------------------------------------------------------
LEMMA InitInv == Init /\ program \in SafePrograms => IInv
  <1> SUFFICES ASSUME Init, program \in SafePrograms PROVE IInv
    OBVIOUS
  <1>1. TypeOK
    BY ThreadsAssumption DEF Init, TypeOK, Labels, States, Procs
  <1>2. RoleInv /\ ObjectInv /\ ArgInv /\ IdInv /\ JoinInv /\ MapInv /\ NoLostWakeup
    BY ThreadsAssumption DEF Init, RoleInv, ObjectInv, ArgInv, IdInv, JoinInv, MapInv,
       NoLostWakeup, Busy, Making, Running, Holds, Leaving, Procs, States
  <1>3. EndedCountExact
    <2>1. Findable = {}
      BY DEF Init, Findable, Registered
    <2> QED BY <2>1, FS_EmptySet DEF Init, EndedCountExact, Findable
  <1> QED BY <1>1, <1>2, <1>3 DEF IInv

LEMMA StutterInv == IInv /\ UNCHANGED vars => IInv'
  <1> SUFFICES ASSUME IInv, UNCHANGED vars PROVE IInv'
    OBVIOUS
  <1>1. TypeOK' /\ RoleInv' /\ ObjectInv' /\ ArgInv' /\ IdInv' /\ JoinInv' /\ MapInv' /\ NoLostWakeup'
    BY DEF IInv, vars, shared, object, TypeOK, RoleInv, ObjectInv, ArgInv, IdInv, JoinInv, MapInv,
       NoLostWakeup, Holds, Leaving, Spawners, AnyJoiners, Joiners, Garbage
  <1>2. EndedCountExact'
    BY DEF IInv, vars, shared, object, EndedCountExact, Registered
  <1> QED BY <1>1, <1>2 DEF IInv

LEMMA NextInv == IInv /\ [Next]_vars => IInv'
  <1> SUFFICES ASSUME IInv, [Next]_vars PROVE IInv'
    OBVIOUS
  <1>1. ASSUME NEW p \in Procs, Step(p) PROVE IInv'
    BY <1>1, ResumeStep, CreateStep, InsertStep, StartStep, BeginStep, EndStep, WaitStep,
       WakeStep, TakeStep, GotNoneStep, PthreadJoinStep, EraseStep, DeleteStep DEF Step
  <1>2. ASSUME NEW p \in Procs, Call(p) PROVE IInv'
    BY <1>2, ConstructStep, JoinStep, DiscardStep, ReturnStep, JoinAnyStep DEF Call
  <1>3. ASSUME NEW p \in Procs, Spurious(p) PROVE IInv'
    BY <1>3, SpuriousStep DEF Spurious
  <1>4. CASE Quit
    BY <1>4, QuitStep DEF Quit
  <1>5. CASE Terminated \/ UNCHANGED vars
    BY <1>5, StutterInv DEF Terminated
  <1> QED BY <1>1, <1>2, <1>3, <1>4, <1>5 DEF Next

\* The invariant on which everything below rests.
THEOREM Invariance == Spec /\ program \in SafePrograms => []IInv
  BY InitInv, NextInv, PTL DEF Spec

\* Thread (thread.h): the variables keep to their types; in particular
\* ended_count, which joinAny, join and the destructor decrement, never falls
\* below zero.
THEOREM TypeCorrect == Spec /\ program \in SafePrograms => []TypeOK
  <1>1. IInv => TypeOK
    BY DEF IInv
  <1> QED BY <1>1, Invariance, PTL

\* ThreadProc, joinAny, join and remove_ended (thread.cpp): ended_count is the
\* number of threads that joinAny would find.
THEOREM CountIsExact == Spec /\ program \in SafePrograms => []EndedCountExact
  <1>1. IInv => EndedCountExact
    BY DEF IInv
  <1> QED BY <1>1, Invariance, PTL

\* joinAny and ThreadProc (thread.cpp): nobody sleeps while a thread is waiting
\* to be joined.
THEOREM WakeupsArrive == Spec /\ program \in SafePrograms => []NoLostWakeup
  <1>1. IInv => NoLostWakeup
    BY DEF IInv
  <1> QED BY <1>1, Invariance, PTL

\* ~Thread (thread.h) and remove_ended (thread.cpp): when an object is deleted
\* neither its thread nor the map nor anybody else will use it again.
THEOREM NoUseAfterDeleteEver == Spec /\ program \in SafePrograms => []NoUseAfterDelete
  <1>1. IInv => NoUseAfterDelete
    BY ThreadsAssumption
       DEF IInv, TypeOK, ObjectInv, ArgInv, MapInv, NoUseAfterDelete, Registered, Procs
  <1> QED BY <1>1, Invariance, PTL

\* joinAny and join (thread.cpp), ~Thread (thread.h): each thread is handed to
\* one caller, and its state is Ended when it is deleted.
THEOREM DeletedOnceEver == Spec /\ program \in SafePrograms => []DeletedOnce
  <1>1. IInv => DeletedOnce
    BY ThreadsAssumption
       DEF IInv, TypeOK, RoleInv, ObjectInv, ArgInv, DeletedOnce, Busy, Procs
  <1> QED BY <1>1, Invariance, PTL

\* Thread::current (thread.cpp): a thread in run() is in the map, under its own
\* identifier, although identifiers are reused.
THEOREM CurrentFindsSelfEver == Spec /\ program \in SafePrograms => []CurrentFindsSelf
  <1>1. IInv => CurrentFindsSelf
    BY ThreadsAssumption
       DEF IInv, TypeOK, ObjectInv, ArgInv, JoinInv, MapInv, CurrentFindsSelf, Leaving, Holds, Procs
  <1> QED BY <1>1, Invariance, PTL

\* joinAny and join (thread.cpp): what they return has ended.
THEOREM JoinedHaveEndedEver == Spec /\ program \in SafePrograms => []JoinedHaveEnded
  <1>1. IInv => JoinedHaveEnded
    BY ThreadsAssumption
       DEF IInv, TypeOK, ObjectInv, ArgInv, RoleInv, JoinedHaveEnded, Busy, Procs
  <1> QED BY <1>1, Invariance, PTL
-------------------------------------------------------------------------------
(***************************************************************************)
(* The life of an object: what the steps do to it, and that it is the one  *)
(* that ThreadPool tells.                                                  *)
(***************************************************************************)
\* One life goes on and the others stay as they are.
LEMMA OneBecomes ==
  ASSUME NEW obj \in Objs, NEW before, NEW after,
         Life(obj) = before, Life(obj)' = after,
         \A w \in Objs \ {obj} : Life(w)' = Life(w)
  PROVE  Pool!Become(obj, before, after)
  BY DEF Pool!Become, Lives

\* A life goes on only when its thread does, its object is deleted, or somebody
\* gets it.
LEMMA SameLife ==
  ASSUME IInv, NEW w \in Objs, os'[w] = os[w],
         w \in exists' <=> w \in exists, Given(w)' <=> Given(w)
  PROVE  Life(w)' = Life(w)
  BY DEF Life

LEMMA ArgIsObject ==
  ASSUME IInv, NEW p \in Procs, pc[p] \in Busy
  PROVE  arg[p] \in Objs
  BY ThreadsAssumption DEF IInv, TypeOK, RoleInv

USE ThreadsAssumption
    DEF IInv, TypeOK, RoleInv, ObjectInv, ArgInv, JoinInv, MapInv, Busy, Procs, Given, Holds, Leaving,
        Move, Goto, shared, object, Life

LEMMA CreateLife ==
  ASSUME IInv, NEW p \in Procs, Create(p)
  PROVE  \E obj \in Objs : Pool!Become(obj, "none", "running")
  <1> USE DEF Create
  <1>1. PICK obj \in Objs : obj = arg[p]
    BY ArgIsObject
  <1>2. Life(obj) = "none" /\ Life(obj)' = "running"
    BY <1>1, SMTT(30)
  <1>3. ASSUME NEW w \in Objs \ {obj} PROVE Life(w)' = Life(w)
    BY <1>1, <1>3, SameLife, SMTT(30)
  <1> QED BY <1>2, <1>3, OneBecomes

LEMMA EndLife ==
  ASSUME IInv, NEW thread \in Objs, End(thread)
  PROVE  \E obj \in Objs : Pool!Become(obj, "running", "ended")
  <1> USE DEF End
  <1>1. PICK obj \in Objs : obj = thread
    BY ArgIsObject
  <1>2. Life(obj) = "running" /\ Life(obj)' = "ended"
    BY <1>1, SMTT(30)
  <1>3. ASSUME NEW w \in Objs \ {obj} PROVE Life(w)' = Life(w)
    BY <1>1, <1>3, SameLife, SMTT(30)
  <1> QED BY <1>2, <1>3, OneBecomes

LEMMA PthreadJoinLife ==
  ASSUME IInv, NEW p \in Procs, PthreadJoin(p)
  PROVE  \E obj \in Objs : Pool!Become(obj, "ended", "joined")
  <1> USE DEF PthreadJoin
  <1>1. PICK obj \in Objs : obj = arg[p]
    BY ArgIsObject
  <1>2. Life(obj) = "ended" /\ Life(obj)' = "joined"
    BY <1>1, SMTT(30)
  <1>3. ASSUME NEW w \in Objs \ {obj} PROVE Life(w)' = Life(w)
    BY <1>1, <1>3, SameLife, SMTT(30)
  <1> QED BY <1>2, <1>3, OneBecomes

LEMMA DeleteLife ==
  ASSUME IInv, NEW p \in Procs, Delete(p)
  PROVE  \E obj \in Objs : Pool!Become(obj, "joined", "deleted")
  <1> USE DEF Delete
  <1>1. PICK obj \in Objs : obj = arg[p]
    BY ArgIsObject
  <1>2. Life(obj) = "joined" /\ Life(obj)' = "deleted"
    BY <1>1, SMTT(30)
  <1>3. ASSUME NEW w \in Objs \ {obj} PROVE Life(w)' = Life(w)
    BY <1>1, <1>3, SameLife, SMTT(30)
  <1> QED BY <1>2, <1>3, OneBecomes

LEMMA TakeLife ==
  ASSUME IInv, NEW p \in Procs, Take(p)
  PROVE  \E obj \in Objs : Pool!Become(obj, "ended", "joined")
  <1> USE DEF Take
  <1>1. PICK i \in Ids : /\ threads[i] # None /\ state[threads[i]] = "Ended"
                          /\ arg' = [arg EXCEPT ![p] = threads[i]]
    BY DEF Registered
  <1>2. PICK obj \in Objs : obj = threads[i]
    BY <1>1
  <1>3. obj \in exists \ joined /\ ~\E q \in Procs : Holds(q, {"delete"}, obj)
    BY <1>1, <1>2
  <1>4. "Ended" \notin Garbage /\ ~\E q \in Procs : pc[q] = "joined"
    BY SMTT(30) DEF SafePrograms, Garbage, AnyJoiners, Joiners
  <1>5. os[obj] = "ended" /\ arg'[p] = obj /\ pc'[p] = "delete"
    BY <1>1, <1>2, <1>3, <1>4
  <1>6. Life(obj) = "ended" /\ Life(obj)' = "joined"
    BY <1>3, <1>4, <1>5, SMTT(30)
  <1>7. ASSUME NEW w \in Objs \ {obj} PROVE Life(w)' = Life(w)
    BY <1>1, <1>2, <1>7, SameLife, SMTT(30)
  <1> QED BY <1>6, <1>7, OneBecomes

\* Neither the removal from the map nor the choice of a joined object changes
\* what has become of it.
LEMMA EraseLife ==
  ASSUME IInv, NEW p \in Procs, Erase(p), NEW w \in Objs
  PROVE  Life(w)' = Life(w)
  BY SameLife, SMTT(30) DEF Erase

LEMMA DiscardLife ==
  ASSUME IInv, NEW p \in Procs, NEW obj \in Objs, Discard(p, obj), NEW w \in Objs
  PROVE  Life(w)' = Life(w)
  BY SameLife, SMTT(30) DEF Discard

LEMMA ConstructLife ==
  ASSUME IInv, NEW p \in Procs, NEW obj \in Objs, Construct(p, obj), NEW w \in Objs
  PROVE  Life(w)' = Life(w)
  <1>1. CASE w = obj
    BY <1>1 DEF Construct
  <1>2. CASE w # obj
    BY <1>2, SameLife, SMTT(30) DEF Construct
  <1> QED BY <1>1, <1>2

\* All other steps.
LEMMA IdleLife ==
  ASSUME IInv, NEW p \in Procs, NEW w \in Objs,
         \/ Resume(p) \/ Insert(p) \/ Wait(p) \/ Wake(p) \/ GotNone(p) \/ JoinAny(p) \/ Spurious(p)
         \/ p \in Objs /\ (Start(p) \/ Begin(p) \/ Return(p))
         \/ \E obj \in Objs : Join(p, obj)
         \/ Quit \/ UNCHANGED vars
  PROVE  Life(w)' = Life(w)
  <1>1. UNCHANGED <<os, exists, joined>>
    BY DEF Resume, Insert, Wait, Wake, GotNone, JoinAny, Spurious, Start, Begin, Return, Join, Quit, vars
  <1>2. ASSUME NEW q \in Procs
        PROVE  (pc'[q] \in {"joined", "delete"} /\ arg'[q] = w)
                  <=> (pc[q] \in {"joined", "delete"} /\ arg[q] = w)
    BY SMTT(30) DEF Resume, Insert, Wait, Wake, GotNone, JoinAny, Spurious, Start, Begin, Return, Join, Quit, vars
  <1>3. Given(w)' <=> Given(w)
    BY <1>1, <1>2
  <1> QED BY <1>1, <1>3

HIDE ThreadsAssumption
     DEF IInv, TypeOK, RoleInv, ObjectInv, ArgInv, JoinInv, MapInv, Busy, Procs, Given, Holds, Leaving,
         Move, Goto, shared, object, Life

LEMMA NextLife ==
  ASSUME IInv, [Next]_vars
  PROVE  [Pool!Next]_Lives
  <1> DEFINE Same == \A w \in Objs : Life(w)' = Life(w)
  <1>1. ASSUME NEW p \in Procs, Step(p) PROVE Pool!Next \/ Same
    <2>1. CASE Create(p) \/ (p \in Objs /\ End(p)) \/ PthreadJoin(p) \/ Take(p) \/ Delete(p)
      BY <2>1, CreateLife, EndLife, PthreadJoinLife, TakeLife, DeleteLife DEF Pool!Next
    <2>2. CASE \/ Resume(p) \/ Insert(p) \/ Wait(p) \/ Wake(p) \/ GotNone(p)
               \/ p \in Objs /\ (Start(p) \/ Begin(p))
      BY <2>2, IdleLife
    <2>3. CASE Erase(p)
      BY <2>3, EraseLife
    <2> QED BY <1>1, <2>1, <2>2, <2>3 DEF Step
  <1>2. ASSUME NEW p \in Procs, Call(p) PROVE Same
    BY <1>2, ConstructLife, DiscardLife, IdleLife DEF Call
  <1>3. ASSUME NEW p \in Procs, Spurious(p) PROVE Same
    BY <1>3, IdleLife
  <1>4. ASSUME Quit \/ Terminated \/ UNCHANGED vars PROVE Same
    BY <1>4, IdleLife DEF Terminated, Procs
  <1>5. Pool!Next \/ Same
    <2> HIDE DEF Same
    <2>1. CASE \E p \in Procs : Step(p) \/ Call(p) \/ Spurious(p)
      BY <2>1, <1>1, <1>2, <1>3
    <2>2. CASE UNCHANGED vars
      BY <2>2, <1>4
    <2> QED BY <2>1, <2>2, <1>4 DEF Next
  <1>6. Same => UNCHANGED Lives
    BY DEF Lives
  <1> QED BY <1>5, <1>6

\* Thread (thread.h), Thread::joinAny and join (thread.cpp): a thread runs, ends,
\* is joined once and then deleted, as ThreadPool tells it.
THEOREM LifecycleEver == Spec /\ program \in SafePrograms => Lifecycle
  <1>1. Init => Pool!Init
    BY DEF Init, Pool!Init, Life, Lives
  <1>2. IInv /\ [Next]_vars => [Pool!Next]_Lives
    BY NextLife
  <1> QED BY <1>1, <1>2, Invariance, PTL DEF Spec, Lifecycle, Pool!Spec
===============================================================================
