------------------------------- MODULE Mutex --------------------------------
(***************************************************************************)
(* What a blocking lock promises its callers, without saying how: a thread *)
(* that asks for the lock gets it only while nobody has it.  Lock is shown *)
(* to implement this, and the modules that use a lock as one step of their *)
(* own (the barrier, the mailbox) rely on it.                              *)
(***************************************************************************)
CONSTANT Threads

VARIABLE phase  \* of each thread: "out", "waiting" or "inside"

Init == phase = [t \in Threads |-> "out"]

Request(t) ==
    /\ phase[t] = "out"
    /\ phase' = [phase EXCEPT ![t] = "waiting"]

Enter(t) ==
    /\ phase[t] = "waiting"
    /\ \A u \in Threads : phase[u] # "inside"
    /\ phase' = [phase EXCEPT ![t] = "inside"]

Leave(t) ==
    /\ phase[t] = "inside"
    /\ phase' = [phase EXCEPT ![t] = "out"]

Next == \E t \in Threads : Request(t) \/ Enter(t) \/ Leave(t)

Spec == Init /\ [][Next]_phase
=============================================================================
