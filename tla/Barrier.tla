------------------------------ MODULE Barrier -------------------------------
(***************************************************************************)
(* barrier_wait() of kernel/sync.c with the condition variable it sleeps   *)
(* on, driven by the threads of kernel/barrier_test.c: each one updates    *)
(* its variable, waits at the barrier, checks everybody's variable, and    *)
(* waits again, ITERATIONS times.                                          *)
(*                                                                         *)
(* The mutex is the abstract one that Lock implements.  A part of          *)
(* barrier_wait() that runs with the mutex held is one step, except for    *)
(* the broadcast: block() does not need the mutex, so threads may join the *)
(* condition's queue while it is being emptied.                            *)
(***************************************************************************)
EXTENDS Queues, FiniteSets

CONSTANTS
    Bthreads,       \* the BTHREAD_CT threads of the barrier
    Iterations,     \* ITERATIONS
    NoHolder        \* the holder of a free mutex

ASSUME BarrierAssumption ==
    /\ IsFiniteSet(Bthreads) /\ Bthreads # {}
    /\ NoHolder \notin Bthreads
    /\ Iterations \in Nat

VARIABLES
    mutex,          \* who has b->mutex
    all_arrived,    \* b->all_arrived.wait_queue
    count1, count2, \* b->count1, b->count2
    countUp,        \* b->count_up
    stage,          \* where each thread is
    upward,         \* which branch of barrier_wait() the thread took
    goal,           \* where the thread goes when barrier_wait() returns
    bvar            \* bvar[] of barrier_test.c

counters == <<count1, count2, countUp>>
testVars == <<goal, bvar>>
barrierVars == <<mutex, all_arrived, counters, stage, upward, testVars>>

N == Cardinality(Bthreads)   \* b->threads

BarrierWait == {"enter", "gap", "blocked", "relock", "broadcast"}
BarrierStages == BarrierWait \cup {"update", "check", "exited"}

BarrierGoto(t, step) == stage' = [stage EXCEPT ![t] = step]

\* BARRIER_INIT(N).
BarrierInit ==
    /\ mutex = NoHolder /\ all_arrived = <<>>
    /\ count1 = 0 /\ count2 = 0 /\ countUp = TRUE
    /\ stage = [t \in Bthreads |-> "update"]
    /\ upward = [t \in Bthreads |-> TRUE]
    /\ goal = [t \in Bthreads |-> "check"]
    /\ bvar = [t \in Bthreads |-> 0]

-----------------------------------------------------------------------------
(* barrier_test() *)

\* Phase 1, or the end of the loop.
Update(t) ==
    /\ stage[t] = "update"
    /\ IF bvar[t] = Iterations
       THEN BarrierGoto(t, "exited") /\ UNCHANGED testVars
       ELSE /\ bvar' = [bvar EXCEPT ![t] = @ + 1]
            /\ goal' = [goal EXCEPT ![t] = "check"]
            /\ BarrierGoto(t, "enter")
    /\ UNCHANGED <<mutex, all_arrived, counters, upward>>

\* Phase 2: the assertions are the property InSync.
Check(t) ==
    /\ stage[t] = "check"
    /\ goal' = [goal EXCEPT ![t] = "update"]
    /\ BarrierGoto(t, "enter")
    /\ UNCHANGED <<mutex, all_arrived, counters, upward, bvar>>

-----------------------------------------------------------------------------
(* barrier_wait() *)

\* With the mutex held, at the head of a while loop that goes on waiting if
\* more threads are missing: condition_wait() releases the mutex; the last
\* thread keeps it for the broadcast; the others return.
Loop(t, up, missing) ==
    \/ /\ missing
       /\ BarrierGoto(t, "gap")
       /\ UNCHANGED mutex
    \/ /\ ~missing /\ countUp = up
       /\ BarrierGoto(t, "broadcast")
       /\ mutex' = t
    \/ /\ ~missing /\ countUp # up
       /\ BarrierGoto(t, goal[t])
       /\ UNCHANGED mutex

ArriveEarly(t) ==
    /\ stage[t] = "enter"
    /\ mutex = NoHolder
    /\ upward' = [upward EXCEPT ![t] = countUp]
    /\ IF countUp
       THEN /\ count1' = count1 + 1
            /\ UNCHANGED count2
            /\ Loop(t, TRUE, count1' < N - 1)
       ELSE /\ count2' = count2 - 1
            /\ UNCHANGED count1
            /\ Loop(t, FALSE, count2' > 0)
    /\ UNCHANGED <<all_arrived, countUp, testVars>>

\* lock_acquire(), then count and look.
Arrive(t) ==
    /\ stage[t] = "enter"
    /\ mutex = NoHolder
    /\ upward' = [upward EXCEPT ![t] = countUp]
    /\ IF countUp
       THEN /\ count1' = count1 + 1
            /\ UNCHANGED count2
            /\ Loop(t, TRUE, count1' < N)
       ELSE /\ count2' = count2 - 1
            /\ UNCHANGED count1
            /\ Loop(t, FALSE, count2' > 0)
    /\ UNCHANGED <<all_arrived, countUp, testVars>>

\* block(&c->wait_queue), after the mutex has been released.
BarrierBlock(t) ==
    /\ stage[t] = "gap"
    /\ all_arrived' = Append(all_arrived, t)
    /\ BarrierGoto(t, "blocked")
    /\ UNCHANGED <<mutex, counters, upward, testVars>>

BarrierWakeWithoutDequeue(t) ==
    /\ stage[t] = "broadcast"
    /\ all_arrived # <<>>
    /\ BarrierGoto(Head(all_arrived), "relock")
    /\ UNCHANGED <<mutex, all_arrived, counters, upward, testVars>>

\* condition_broadcast(): while (c->wait_queue != NULL) unblock().
BarrierWake(t) ==
    /\ stage[t] = "broadcast"
    /\ all_arrived # <<>>
    /\ all_arrived' = Tail(all_arrived)
    /\ BarrierGoto(Head(all_arrived), "relock")
    /\ UNCHANGED <<mutex, counters, upward, testVars>>

BarrierFinishAfterFirst(t) ==
    /\ stage[t] = "broadcast"
    /\ IF upward[t] THEN count2' = N /\ UNCHANGED count1
                    ELSE count1' = 0 /\ UNCHANGED count2
    /\ countUp' = ~upward[t]
    /\ mutex' = NoHolder
    /\ BarrierGoto(t, goal[t])
    /\ UNCHANGED <<all_arrived, upward, testVars>>

\* The queue is empty: the last thread turns the barrier round, releases the
\* mutex and returns.
BarrierFinish(t) ==
    /\ stage[t] = "broadcast"
    /\ all_arrived = <<>>
    /\ IF upward[t] THEN count2' = N /\ UNCHANGED count1
                    ELSE count1' = 0 /\ UNCHANGED count2
    /\ countUp' = ~upward[t]
    /\ mutex' = NoHolder
    /\ BarrierGoto(t, goal[t])
    /\ UNCHANGED <<all_arrived, upward, testVars>>

\* A thread that was woken has the mutex again and looks once more.
Recheck(t) ==
    /\ stage[t] = "relock"
    /\ mutex = NoHolder
    /\ Loop(t, upward[t], IF upward[t] THEN count1 < N ELSE count2 > 0)
    /\ UNCHANGED <<all_arrived, counters, upward, testVars>>

-----------------------------------------------------------------------------
BarrierStep(t) == Arrive(t) \/ BarrierBlock(t) \/ BarrierWake(t) \/ BarrierFinish(t) \/ Recheck(t)

BthreadStep(t) == Update(t) \/ Check(t) \/ BarrierStep(t)

BarrierNext == \E t \in Bthreads : BthreadStep(t)

BarrierSpec == BarrierInit /\ [][BarrierNext]_barrierVars

\* The scheduler is round-robin and the test threads never stop by themselves.
BarrierFairSpec == BarrierSpec /\ \A t \in Bthreads : WF_barrierVars(BthreadStep(t))

-----------------------------------------------------------------------------
(* Properties *)

\* Every variable keeps its type; neither counter leaves 0 .. N, however
\* late a thread of the previous phase comes out.
BarrierTypeOK ==
    /\ mutex \in Bthreads \cup {NoHolder}
    /\ all_arrived \in Seq(Bthreads)
    /\ count1 \in 0 .. N /\ count2 \in 0 .. N /\ countUp \in BOOLEAN
    /\ stage \in [Bthreads -> BarrierStages]
    /\ upward \in [Bthreads -> BOOLEAN]
    /\ goal \in [Bthreads -> {"check", "update"}]
    /\ bvar \in [Bthreads -> 0 .. Iterations]

InsideBarrier(t) == stage[t] \in BarrierWait \ {"enter"}
Arrived == {t \in Bthreads : InsideBarrier(t) /\ upward[t] = countUp}

\* The counter in use counts the threads that have arrived at the present
\* barrier, those asleep and those on their way to or from sleep; the last
\* one to arrive has the mutex until it has turned the barrier round.  The
\* threads that have still to get out of the previous barrier count no more.
CountersTell ==
    /\ count1 = IF countUp THEN Cardinality(Arrived) ELSE N
    /\ count2 = IF countUp THEN 0 ELSE N - Cardinality(Arrived)
    /\ (mutex # NoHolder) <=> (Arrived = Bthreads)
    /\ \A t \in Bthreads : (stage[t] = "broadcast") <=> (mutex = t)
    /\ \A t \in Bthreads : stage[t] = "broadcast" => t \in Arrived

AllArrivedIsBlocked ==
    Distinct(all_arrived) /\ Items(all_arrived) = {t \in Bthreads : stage[t] = "blocked"}

\* Where the barrier that counts up leads to, and the one that counts down.
Beyond(up) == IF up THEN "check" ELSE "update"

\* Nobody is past the barrier that is being filled, and every thread is in the
\* same round of the test.
Round(t) ==
    IF countUp /\ (stage[t] = "enter" \/ t \in Arrived) THEN bvar[t] - 1 ELSE bvar[t]
InStep ==
    /\ \A t \in Bthreads :
        /\ stage[t] # Beyond(countUp)
        /\ stage[t] = "enter" => goal[t] = Beyond(countUp)
        /\ InsideBarrier(t) => goal[t] = Beyond(upward[t])
        /\ stage[t] = "exited" => countUp /\ bvar[t] = Iterations
    /\ \A t, u \in Bthreads : Round(t) = Round(u)

\* The inductive invariant.
BarrierInv == BarrierTypeOK /\ AllArrivedIsBlocked /\ CountersTell /\ InStep

\* The assertion of barrier_test(): between two barriers everybody has the
\* same value, so no thread leaves a barrier before all have reached it and
\* none is let through twice.
InSync ==
    \A t, u \in Bthreads : stage[t] = "check" => bvar[u] = bvar[t]

\* barrier_test.c: everybody has the same value between two barriers, and the
\* counters of barrier_wait() tell who has arrived.
BarrierInSync == BarrierInv /\ InSync

Over(t) == IF upward[t] THEN count1 >= N ELSE count2 <= 0

\* t sleeps although its barrier is complete, and nobody is there to wake it.
BarrierMissed(t) ==
    /\ stage[t] = "blocked"
    /\ Over(t)
    /\ \A u \in Bthreads : stage[u] # "broadcast"

\* The broadcast misses no thread that was asleep when it began or that fell
\* asleep while it lasted; a thread is left behind only by its own late
\* block().
BarrierMissedOnlyByBlock ==
    [][\A t \in Bthreads : ~BarrierMissed(t) /\ BarrierMissed(t)' => BarrierBlock(t)]_barrierVars

\* The broadcast comes to an end although threads join the queue while it is
\* being emptied: the last thread to arrive always gets out.
BroadcastEnds ==
    \A t \in Bthreads : stage[t] = "broadcast" ~> stage[t] \notin BarrierWait
=============================================================================
