----------------------------- MODULE TaskQueues -----------------------------
(***************************************************************************)
(* What the kernel's task queues mean: the ready tasks in the order they   *)
(* will run, the blocked tasks of each wait queue in the order they will   *)
(* be woken, and the free PCBs in the order they will be handed out.       *)
(* Scheduler, with its linked PCBs, is shown to implement this.            *)
(***************************************************************************)
EXTENDS Queues

CONSTANTS Pcbs, WaitQueues

VARIABLES
    ready,      \* the ready and sleeping tasks, the next one to look at first
    wait,       \* the blocked tasks of each queue, the longest waiting first
    free,       \* the free PCBs
    limbo       \* PCBs allocated and not yet ready, or exited and not yet free

vars == <<ready, wait, free, limbo>>

Init ==
    /\ ready \in Seq(Pcbs) /\ free \in Seq(Pcbs)
    /\ Distinct(ready \o free) /\ Items(ready \o free) = Pcbs
    /\ wait = [q \in WaitQueues |-> <<>>]
    /\ limbo = {}

\* The task at the head had its turn, or sleeps.
Rotate ==
    /\ ready # <<>>
    /\ ready' = Append(Tail(ready), Head(ready))
    /\ UNCHANGED <<wait, free, limbo>>

Block(q) ==
    /\ ready # <<>>
    /\ ready' = Tail(ready)
    /\ wait' = [wait EXCEPT ![q] = Append(@, Head(ready))]
    /\ UNCHANGED <<free, limbo>>

Unblock(q) ==
    /\ wait[q] # <<>>
    /\ ready' = Append(ready, Head(wait[q]))
    /\ wait' = [wait EXCEPT ![q] = Tail(@)]
    /\ UNCHANGED <<free, limbo>>

Exit ==
    /\ ready # <<>>
    /\ ready' = Tail(ready)
    /\ limbo' = limbo \cup {Head(ready)}
    /\ UNCHANGED <<wait, free>>

Free(p) ==
    /\ p \in limbo
    /\ free' = Append(free, p)
    /\ limbo' = limbo \ {p}
    /\ UNCHANGED <<ready, wait>>

Alloc ==
    /\ free # <<>>
    /\ free' = Tail(free)
    /\ limbo' = limbo \cup {Head(free)}
    /\ UNCHANGED <<ready, wait>>

Insert(p) ==
    /\ p \in limbo
    /\ ready' = Append(ready, p)
    /\ limbo' = limbo \ {p}
    /\ UNCHANGED <<wait, free>>

Next ==
    \/ Rotate \/ Exit \/ Alloc
    \/ \E q \in WaitQueues : Block(q) \/ Unblock(q)
    \/ \E p \in Pcbs : Free(p) \/ Insert(p)

Spec == Init /\ [][Next]_vars
=============================================================================
