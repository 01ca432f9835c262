----------------------------- MODULE ThreadPool ------------------------------
(***************************************************************************)
(* What the Thread class promises about the life of a Thread object: its   *)
(* thread runs, ends, is joined by one caller, and only then is the object *)
(* deleted.                                                                *)
(***************************************************************************)
CONSTANT Objs       \* the Thread objects

VARIABLE life       \* what has become of each of them

Become(obj, before, after) ==
    /\ life[obj] = before
    /\ life' = [life EXCEPT ![obj] = after]

Init == life = [obj \in Objs |-> "none"]

Next == \E obj \in Objs : \/ Become(obj, "none", "running")
                          \/ Become(obj, "running", "ended")
                          \/ Become(obj, "ended", "joined")
                          \/ Become(obj, "joined", "deleted")

Spec == Init /\ [][Next]_life
==============================================================================
