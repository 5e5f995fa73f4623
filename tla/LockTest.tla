------------------------------ MODULE LockTest ------------------------------
(***************************************************************************)
(* The two threads of kernel/th2.c, which count together in a monitor:     *)
(* lock_thread1 adds one whenever shared_var is divisible by divby,        *)
(* lock_thread0 whenever it is not, and each waits on a condition for its  *)
(* turn.  Thread t waits on waiters[t] (indivisible, divisible).           *)
(*                                                                         *)
(* The lock is the abstract one that Lock implements.  block() does not    *)
(* need it, so a thread may join its condition while the other counts.     *)
(***************************************************************************)
EXTENDS Integers, Sequences

CONSTANTS
    n2, n3,                 \* how often thread 0 and thread 1 count
    divby,
    switch_to_broadcast,    \* from this value on conditions are broadcast
    Nobody                  \* the holder of a free lock

LockTestAssumption ==
    {n2, n3, switch_to_broadcast} \subseteq Nat /\ divby \in Nat \ {0}

VARIABLES
    monitor,        \* who has the lock l
    waiters,        \* the wait queues of indivisible and divisible
    shared_var, exit_count, init,
    place,          \* where each thread is
    turns,          \* i of each thread
    tmp, status

counters == <<shared_var, exit_count, init, turns, tmp, status>>
vars == <<monitor, waiters, counters, place>>

LockThreads == {0, 1}
Quota(t) == IF t = 0 THEN n2 ELSE n3

Goto(t, step) == place' = [place EXCEPT ![t] = step]

Init ==
    /\ monitor = Nobody /\ waiters = [t \in LockThreads |-> <<>>]
    /\ shared_var = 0 /\ exit_count = 0 /\ init = FALSE
    /\ place = [t \in LockThreads |-> "start"]
    /\ turns = [t \in LockThreads |-> 0]
    /\ tmp = [t \in LockThreads |-> 0]
    /\ status = [t \in LockThreads |-> "Running"]

-----------------------------------------------------------------------------
\* lock_thread0 sets up lock and conditions; lock_thread1 waits for that.
Start(t) ==
    /\ place[t] = "start"
    /\ IF t = 0
       THEN /\ monitor' = Nobody /\ waiters' = [u \in LockThreads |-> <<>>]
            /\ init' = TRUE
       ELSE init /\ UNCHANGED <<monitor, waiters, init>>
    /\ Goto(t, "loop")
    /\ UNCHANGED <<shared_var, exit_count, turns, tmp, status>>

\* The condition each thread waits for, true for one of them at a time.
Turn(t, value) == (value % divby = 0) <=> (t = 1)

\* lock_acquire(), also the one at the end of condition_wait(), and the test
\* of the while loop: wait again, or read shared_var and keep the lock.
Enter(t) ==
    /\ \/ place[t] = "loop" /\ turns[t] < Quota(t)
       \/ place[t] = "relock"
    /\ monitor = Nobody
    /\ IF Turn(t, shared_var)
       THEN /\ monitor' = t
            /\ tmp' = [tmp EXCEPT ![t] = shared_var]
            /\ Goto(t, "loaded")
       ELSE Goto(t, "gap") /\ UNCHANGED <<monitor, tmp>>
    /\ UNCHANGED <<waiters, shared_var, exit_count, init, turns, status>>

\* block() of condition_wait(), after the lock has been released.
Block(t) ==
    /\ place[t] = "gap"
    /\ waiters' = [waiters EXCEPT ![t] = Append(@, t)]
    /\ Goto(t, "blocked")
    /\ UNCHANGED <<monitor, counters>>

\* After the yield(): store, and signal or broadcast if the turn has passed.
Count(t) ==
    LET other == 1 - t
        value == tmp[t] + 1
        asleep == waiters[other]
    IN  /\ place[t] = "loaded"
        /\ shared_var' = value
        /\ turns' = [turns EXCEPT ![t] = @ + 1]
        /\ IF Turn(other, value)
           THEN /\ waiters' = [waiters EXCEPT ![other] =
                                 IF value < switch_to_broadcast /\ asleep # <<>>
                                 THEN Tail(asleep) ELSE <<>>]
                /\ place' = [u \in LockThreads |->
                               IF u = t THEN "counted"
                               ELSE IF asleep # <<>> THEN "relock" ELSE place[u]]
           ELSE Goto(t, "counted") /\ UNCHANGED waiters
        /\ UNCHANGED <<monitor, exit_count, init, tmp, status>>

\* lock_release() at the end of the loop's body.
Release(t) ==
    /\ place[t] = "counted"
    /\ monitor' = Nobody
    /\ Goto(t, "loop")
    /\ UNCHANGED <<waiters, counters>>

\* The loop is over: exit_count++ with the lock held.
Leave(t) ==
    /\ place[t] = "loop" /\ turns[t] = Quota(t)
    /\ monitor = Nobody
    /\ exit_count' = exit_count + 1
    /\ Goto(t, "polling")
    /\ UNCHANGED <<monitor, waiters, shared_var, init, turns, tmp, status>>

\* The polling loop sees both threads out, and the thread shows its result.
Report(t) ==
    /\ place[t] = "polling"
    /\ monitor = Nobody
    /\ exit_count = 2
    /\ status' = [status EXCEPT ![t] = IF shared_var = n2 + n3 THEN "OK" ELSE "Failed"]
    /\ Goto(t, "exited")
    /\ UNCHANGED <<monitor, waiters, shared_var, exit_count, init, turns, tmp>>

LockThread(t) ==
    \/ Start(t) \/ Enter(t) \/ Block(t) \/ Count(t) \/ Release(t)
    \/ Leave(t) \/ Report(t)

Next == \E t \in LockThreads : LockThread(t)

\* Both threads are scheduled again and again.
FairSpec == Init /\ [][Next]_vars /\ \A t \in LockThreads : WF_vars(LockThread(t))

-----------------------------------------------------------------------------
(* Properties *)

\* t sleeps although it is its turn.
Missed(t) == place[t] = "blocked" /\ Turn(t, shared_var)

\* condition_signal() and condition_broadcast() of th2.c: a thread sleeps
\* through its turn only if its own block() came after the wake-up.
MissedOnlyByBlock ==
    [][\A t \in LockThreads : ~Missed(t) /\ Missed(t)' => Block(t)]_vars

\* Both threads of th2.c end with the status OK: no increment is lost, and
\* nobody waits for a turn that never comes, unless a wake-up was missed.
BothOk ==
    <>(\/ \A t \in LockThreads : status[t] = "OK"
       \/ \E t \in LockThreads : Missed(t))
=============================================================================
