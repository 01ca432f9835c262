------------------------------- MODULE Threads --------------------------------
(***************************************************************************)
(* include/thread.h and src/thread.cpp, in the POSIX build: starting       *)
(* threads, their end, Thread::joinAny, Thread::join and the destructor,   *)
(* over the latch and the condition variable of lockfree.h and             *)
(* condition.cpp.                                                          *)
(*                                                                         *)
(* The critical sections of thread_latch are single steps that need the    *)
(* latch to be free, except in resume, which starts a thread inside its    *)
(* own, and in joinAny, which waits inside its own: these keep the latch   *)
(* from one step to the next.  The program is the client of thread_test,   *)
(* generalised: some threads make threads, some call joinAny, some join    *)
(* the threads they made, and whoever has joined a thread deletes its      *)
(* object.                                                                 *)
(***************************************************************************)
EXTENDS Integers, FiniteSets

CONSTANTS
    Objs,        \* the Thread objects the program can make
    Main,        \* the main thread, which has no entry in the map of threads
    Ids,         \* the values of pthread_t
    None,        \* no object, no process, no identifier
    Programs     \* the programs considered

Procs == Objs \cup {Main}
States == {"New", "Started", "Ended"}

ASSUME ThreadsAssumption ==
    /\ Main \notin Objs /\ None \notin Procs \cup Ids
    /\ IsFiniteSet(Ids)
    /\ Programs \subseteq [spawners : SUBSET Procs, anyJoiners : SUBSET Procs,
                           joiners : SUBSET Procs, keepsJoined : BOOLEAN,
                           garbage : SUBSET States]

VARIABLES
    program,     \* the program that runs
    latch,       \* Thread::thread_latch: the process that holds it
    waiting,     \* the processes blocked in ended_threads_condition.wait
    threads,     \* Thread::threads: the object registered under each id
    ended_count, \* Thread::ended_count
    state,       \* Thread::state of each object
    thread_id,   \* Thread::thread_id of each object
    exists,      \* the objects constructed and not yet deleted
    parent,      \* who made each object, None before that
    os_id,       \* the pthread_t of the thread started for the object
    os,          \* that thread for the system: none, running, ended, joined
    joined,      \* the objects on which join has returned
    pc,          \* where each process is
    arg          \* the object it is working on

shared == <<latch, waiting, threads, ended_count>>
object == <<state, thread_id, exists, parent, os_id, os, joined>>
vars == <<program, shared, object, pc, arg>>

Spawners == program.spawners       \* who makes threads
AnyJoiners == program.anyJoiners   \* who calls joinAny
Joiners == program.joiners         \* who joins the threads it made
KeepsJoined == program.keepsJoined \* join may be followed by other calls before the delete
Garbage == program.garbage         \* what new memory may hold where Thread::state is

Labels == {"none", "client", "resume", "create", "insert",
           "start", "begin", "ending", "done",
           "search", "wait", "gotNone", "join", "joined", "delete"}

TypeOK ==
    /\ program \in Programs
    /\ latch \in Procs \cup {None}
    /\ waiting \in SUBSET Procs
    /\ threads \in [Ids -> Objs \cup {None}]
    /\ ended_count \in Nat
    /\ state \in [Objs -> States]
    /\ thread_id \in [Objs -> Ids \cup {None}]
    /\ exists \in SUBSET Objs
    /\ parent \in [Objs -> Procs \cup {None}]
    /\ os_id \in [Objs -> Ids \cup {None}]
    /\ os \in [Objs -> {"none", "running", "ended", "joined"}]
    /\ joined \in SUBSET Objs
    /\ pc \in [Procs -> Labels]
    /\ arg \in [Procs -> Objs \cup {None}]

Init ==
    /\ program \in Programs
    /\ latch = None
    /\ waiting = {}
    /\ threads = [i \in Ids |-> None]
    /\ ended_count = 0
    /\ state = [obj \in Objs |-> "New"]
    /\ thread_id = [obj \in Objs |-> None]
    /\ exists = {}
    /\ parent = [obj \in Objs |-> None]
    /\ os_id = [obj \in Objs |-> None]
    /\ os = [obj \in Objs |-> "none"]
    /\ joined = {}
    /\ pc = [p \in Procs |-> IF p = Main THEN "client" ELSE "none"]
    /\ arg = [p \in Procs |-> None]
-------------------------------------------------------------------------------
Goto(p, label) == pc' = [pc EXCEPT ![p] = label]
Move(p, from, to) == pc[p] = from /\ Goto(p, to)

\* Thread::find, under the latch.
Find(i) == IF i = None THEN None ELSE threads[i]

Registered == {i \in Ids : threads[i] # None}

\* The pthread_t values of threads that have ended and been joined are reused.
FreeIds == {i \in Ids : \A obj \in Objs :
                os_id[obj] = i => os[obj] \notin {"running", "ended"}}

\* The program keeps no joined object, unless KeepsJoined.
Unhindered(p) == \/ KeepsJoined
                 \/ \A obj \in joined \cap exists : parent[obj] # p

\* The programs for which Thread keeps its word: joinAny is not called in memory
\* where a thread seems to have ended already; and a program that joins threads
\* by name makes and collects them all in the main thread, and deletes what it
\* has joined before it goes on.
SafePrograms ==
    {prog \in Programs :
        /\ prog.anyJoiners # {} => "Ended" \notin prog.garbage
        /\ prog.joiners # {} =>
              prog.spawners \cup prog.anyJoiners \subseteq {Main} /\ ~prog.keepsJoined}

-------------------------------------------------------------------------------
\* new HelloThread: the constructor leaves state as it finds it in memory, and
\* ends by calling resume().
Construct(p, obj) ==
    /\ p \in Spawners /\ Unhindered(p)
    /\ parent[obj] = None
    /\ Move(p, "client", "resume")
    /\ exists' = exists \cup {obj}
    /\ parent' = [parent EXCEPT ![obj] = p]
    /\ state' \in {[state EXCEPT ![obj] = g] : g \in Garbage}
    /\ arg' = [arg EXCEPT ![p] = obj]
    /\ UNCHANGED <<shared, thread_id, os_id, os, joined>>

\* (Mutant: resume without the latch.)
ResumeUnlatched(p) ==
    /\ Move(p, "resume", "create")
    /\ latch = None
    /\ UNCHANGED <<shared, object, arg>>

\* Thread::resume takes the latch,
Resume(p) ==
    /\ Move(p, "resume", "create")
    /\ latch = None
    /\ latch' = p
    /\ UNCHANGED <<waiting, threads, ended_count, object, arg>>

\* pthread_create starts the thread, which may run before its id is stored,
Create(p) ==
    /\ pc[p] = "create"
    /\ pc' = [pc EXCEPT ![p] = "insert", ![arg[p]] = "start"]
    /\ os' = [os EXCEPT ![arg[p]] = "running"]
    /\ \E i \in FreeIds : os_id' = [os_id EXCEPT ![arg[p]] = i]
    /\ UNCHANGED <<shared, state, thread_id, exists, parent, joined, arg>>

\* and the object is entered in the map (std::map::insert keeps an entry that
\* is there already).
Insert(p) ==
    LET obj == arg[p] IN
    /\ Move(p, "insert", "client")
    /\ thread_id' = [thread_id EXCEPT ![obj] = os_id[obj]]
    /\ threads' = IF Find(os_id[obj]) = None
                  THEN [threads EXCEPT ![os_id[obj]] = obj] ELSE threads
    /\ latch' = None
    /\ arg' = [arg EXCEPT ![p] = None]
    /\ UNCHANGED <<waiting, ended_count, state, exists, parent, os_id, os, joined>>

\* Thread::ThreadProc passes through the latch so as to find its id stored ...
Start(obj) ==
    /\ Move(obj, "start", "begin")
    /\ latch = None
    /\ UNCHANGED <<shared, object, arg>>

\* ... then, without the latch, marks the thread as started and calls run().
Begin(obj) ==
    /\ Move(obj, "begin", "client")
    /\ state' = [state EXCEPT ![obj] = "Started"]
    /\ UNCHANGED <<shared, thread_id, exists, parent, os_id, os, joined, arg>>

\* (Mutant: the end is recorded before the latch is taken.)
ReturnMarks(obj) ==
    /\ Unhindered(obj)
    /\ Move(obj, "client", "ending")
    /\ state' = [state EXCEPT ![obj] = "Ended"]
    /\ UNCHANGED <<shared, thread_id, exists, parent, os_id, os, joined, arg>>

\* run() returns.
Return(obj) ==
    /\ Unhindered(obj)
    /\ Move(obj, "client", "ending")
    /\ UNCHANGED <<program, shared, object, arg>>

\* (Mutant: nobody is told.)
NoBroadcast == UNCHANGED waiting

\* Condition::broadcast releases every waiter.
Broadcast == waiting' = {}

\* The second critical section of ThreadProc, after which the thread exits.
End(obj) ==
    /\ Move(obj, "ending", "done")
    /\ latch = None
    /\ state' = [state EXCEPT ![obj] = "Ended"]
    /\ os' = [os EXCEPT ![obj] = "ended"]
    /\ IF Find(thread_id[obj]) # None
       THEN ended_count' = ended_count + 1 /\ Broadcast
       ELSE UNCHANGED <<ended_count, waiting>>
    /\ UNCHANGED <<latch, threads, thread_id, exists, parent, os_id, joined, arg>>

\* Thread::joinAny takes the latch, and returns 0 at once if there is at most
\* one thread in the map.
JoinAny(p) ==
    /\ p \in AnyJoiners
    /\ latch = None
    /\ IF Cardinality(Registered) <= 1
       THEN Move(p, "client", "gotNone") /\ UNCHANGED latch
       ELSE Move(p, "client", "search") /\ latch' = p
    /\ UNCHANGED <<waiting, threads, ended_count, object, arg>>

\* Condition::wait: while none has ended, it releases the latch and blocks, ...
Wait(p) ==
    /\ Move(p, "search", "wait")
    /\ ended_count = 0
    /\ waiting' = waiting \cup {p}
    /\ latch' = None
    /\ UNCHANGED <<threads, ended_count, object, arg>>

\* ... until released, or for no reason as POSIX allows, ...
Spurious(p) ==
    /\ p \in waiting
    /\ waiting' = waiting \ {p}
    /\ UNCHANGED <<program, latch, threads, ended_count, object, pc, arg>>

\* ... and comes back with the latch.
Wake(p) ==
    /\ Move(p, "wait", "search")
    /\ p \notin waiting
    /\ latch = None
    /\ latch' = p
    /\ UNCHANGED <<waiting, threads, ended_count, object, arg>>

\* (Mutants: joinAny leaves the count, leaves the entry, takes any thread.)
TakeKeepsCount(p) ==
    /\ Move(p, "search", "delete")
    /\ ended_count # 0
    /\ \E i \in Registered :
           /\ state[threads[i]] = "Ended"
           /\ threads' = [threads EXCEPT ![i] = None]
           /\ arg' = [arg EXCEPT ![p] = threads[i]]
    /\ latch' = None
    /\ UNCHANGED <<waiting, ended_count, object>>

TakeKeepsEntry(p) ==
    /\ Move(p, "search", "delete")
    /\ ended_count # 0
    /\ \E i \in Registered : /\ state[threads[i]] = "Ended"
                             /\ arg' = [arg EXCEPT ![p] = threads[i]]
    /\ ended_count' = ended_count - 1
    /\ latch' = None
    /\ UNCHANGED <<waiting, threads, object>>

TakeAnything(p) ==
    /\ Move(p, "search", "delete")
    /\ ended_count # 0
    /\ \E i \in Registered : /\ threads' = [threads EXCEPT ![i] = None]
                             /\ arg' = [arg EXCEPT ![p] = threads[i]]
    /\ ended_count' = ended_count - 1
    /\ latch' = None
    /\ UNCHANGED <<waiting, object>>

\* It takes the first entry whose thread has ended, in the order of the ids,
\* which is no order the program knows.  Finding none it would search again,
\* with the latch held, for ever.
Take(p) ==
    /\ Move(p, "search", "delete")
    /\ ended_count # 0
    /\ \E i \in Registered :
           /\ state[threads[i]] = "Ended"
           /\ threads' = [threads EXCEPT ![i] = None]
           /\ arg' = [arg EXCEPT ![p] = threads[i]]
    /\ ended_count' = ended_count - 1
    /\ latch' = None
    /\ UNCHANGED <<waiting, object>>

\* The program has been told that there are no threads: the main program ends.
GotNone(p) ==
    /\ Move(p, "gotNone", IF p = Main THEN "done" ELSE "client")
    /\ UNCHANGED <<shared, object, arg>>

\* Thread::join asserts that the thread is another one and has been started,
Join(p, obj) ==
    /\ p \in Joiners /\ Unhindered(p)
    /\ parent[obj] = p /\ obj \in exists \ joined
    /\ obj # p /\ thread_id[obj] # None
    /\ Move(p, "client", "join")
    /\ arg' = [arg EXCEPT ![p] = obj]
    /\ UNCHANGED <<shared, object>>

\* (Mutant: join does not wait.)
JoinAtOnce(p) ==
    /\ Move(p, "join", "joined")
    /\ os' = [os EXCEPT ![arg[p]] = "joined"]
    /\ UNCHANGED <<shared, state, thread_id, exists, parent, os_id, joined, arg>>

\* pthread_join waits for its end, after which the id is free for another,
PthreadJoin(p) ==
    /\ Move(p, "join", "joined")
    /\ os[arg[p]] = "ended"
    /\ os' = [os EXCEPT ![arg[p]] = "joined"]
    /\ UNCHANGED <<shared, state, thread_id, exists, parent, os_id, joined, arg>>

\* and the entry under that id is removed.
Erase(p) ==
    LET obj == arg[p] IN
    /\ Move(p, "joined", "client")
    /\ latch = None
    /\ IF Find(thread_id[obj]) # None
       THEN /\ threads' = [threads EXCEPT ![thread_id[obj]] = None]
            /\ ended_count' = ended_count - 1
       ELSE UNCHANGED <<threads, ended_count>>
    /\ joined' = joined \cup {obj}
    /\ arg' = [arg EXCEPT ![p] = None]
    /\ UNCHANGED <<latch, waiting, state, thread_id, exists, parent, os_id, os>>

\* The program turns to an object it has joined earlier, to delete it.
Discard(p, obj) ==
    /\ obj \in joined \cap exists /\ parent[obj] = p
    /\ Move(p, "client", "delete")
    /\ arg' = [arg EXCEPT ![p] = obj]
    /\ UNCHANGED <<shared, object>>

\* delete: ~Thread asserts that the thread has ended; remove_ended removes the
\* entry under its id, if there is one.
Delete(p) ==
    LET obj == arg[p] IN
    /\ Move(p, "delete", "client")
    /\ latch = None
    /\ state[obj] = "Ended"
    /\ IF Find(thread_id[obj]) # None
       THEN /\ threads' = [threads EXCEPT ![thread_id[obj]] = None]
            /\ ended_count' = ended_count - 1
       ELSE UNCHANGED <<threads, ended_count>>
    /\ exists' = exists \ {obj}
    /\ thread_id' = [thread_id EXCEPT ![obj] = None]
    /\ arg' = [arg EXCEPT ![p] = None]
    /\ UNCHANGED <<latch, waiting, state, parent, os_id, os, joined>>

\* A main program that uses join ends when it has deleted what it made.
Quit ==
    /\ Main \in Joiners
    /\ \A obj \in Objs : parent[obj] # None /\ obj \notin exists
    /\ Move(Main, "client", "done")
    /\ UNCHANGED <<program, shared, object, arg>>

\* Nothing is left to do.
Terminated ==
    /\ pc[Main] = "done"
    /\ \A obj \in Objs : pc[obj] \in {"none", "done"}
    /\ UNCHANGED vars

\* What a process does without choosing to.
Step(p) ==
    /\ \/ Resume(p) \/ Create(p) \/ Insert(p)
       \/ p \in Objs /\ (Start(p) \/ Begin(p) \/ End(p))
       \/ Wait(p) \/ Wake(p) \/ Take(p) \/ GotNone(p)
       \/ PthreadJoin(p) \/ Erase(p) \/ Delete(p)
    /\ UNCHANGED program

\* What the program chooses to do.
Call(p) ==
    /\ \/ \E obj \in Objs : Construct(p, obj) \/ Join(p, obj) \/ Discard(p, obj)
       \/ p \in Objs /\ Return(p)
       \/ JoinAny(p)
    /\ UNCHANGED program

Next == \/ \E p \in Procs : Step(p) \/ Call(p) \/ Spurious(p)
        \/ Quit \/ Terminated

Spec == Init /\ [][Next]_vars

\* The scheduler runs every thread, a thread that waits for the latch is not
\* passed over for ever while others take it (spurious wakeups let joinAny take
\* it without end), and run() returns.
FairSpec == /\ Spec
            /\ \A p \in Procs : SF_vars(Step(p))
            /\ \A obj \in Objs : WF_vars(Return(obj))
-------------------------------------------------------------------------------
\* The number of threads joinAny may still find is the number it would find:
\* it waits for nothing that has happened, and never searches in vain, for ever
\* and with the latch held.
EndedCountExact ==
    ended_count = Cardinality({i \in Registered : pc[threads[i]] = "done"})

\* Whoever sleeps in joinAny does so because no thread has ended: the count is
\* changed and the broadcast sent under the latch that wait releases.
NoLostWakeup == waiting # {} => ended_count = 0

\* No object is deleted while its thread, the map of threads or another thread
\* will still use it.
NoUseAfterDelete ==
    /\ \A obj \in Objs : pc[obj] \notin {"none", "done"} => obj \in exists
    /\ \A i \in Registered : threads[i] \in exists
    /\ \A p \in Procs : arg[p] # None => arg[p] \in exists

\* No two callers get the same thread, and the destructor's assertion holds.
DeletedOnce ==
    \A p, q \in Procs : pc[p] = "delete" =>
        /\ state[arg[p]] = "Ended"
        /\ q # p => arg[q] # arg[p]

\* Thread::current, called from run(), finds the object of the calling thread.
CurrentFindsSelf ==
    \A obj \in Objs : pc[obj] = "client" => threads[os_id[obj]] = obj

\* What joinAny and join hand out for deletion is a thread that has ended.
JoinedHaveEnded ==
    \A p \in Procs : pc[p] \in {"joined", "delete"} => pc[arg[p]] = "done"

\* joinAny says that there are no threads when only the main thread is left.
NoneMeansNoThreads ==
    \A p \in Procs : pc[p] = "gotNone" =>
        \A obj \in Objs : obj \in exists => obj \in joined

\* joinAny and join return, where not more than one thread calls joinAny.
JoinReturns ==
    \A p \in Procs :
        pc[p] \in {"search", "wait", "join"} /\ Cardinality(AnyJoiners) <= 1
            ~> pc[p] \in {"delete", "client"}

\* The life of every object, as ThreadPool tells it.
Given(obj) == \/ obj \in joined
              \/ \E p \in Procs : pc[p] \in {"joined", "delete"} /\ arg[p] = obj

Life(obj) ==
    IF os[obj] \in {"none", "running"} THEN os[obj]
    ELSE IF obj \notin exists THEN "deleted"
    ELSE IF Given(obj) THEN "joined" ELSE "ended"

Lives == [obj \in Objs |-> Life(obj)]

Pool == INSTANCE ThreadPool WITH life <- Lives

Lifecycle == Pool!Spec
===============================================================================
