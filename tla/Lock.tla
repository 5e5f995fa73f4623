-------------------------------- MODULE Lock --------------------------------
(***************************************************************************)
(* The blocking lock of kernel/sync.c in its SYNC_IMPL_ATOMIC form: a flag *)
(* guarded by an inner spinlock, and a queue of blocked threads.  Threads  *)
(* are preemptible, so a step ends wherever another thread can notice:     *)
(* block() and unblock() run with interrupts off and are one step each,    *)
(* but lock_acquire() lets go of the spinlock before it calls block().     *)
(***************************************************************************)
EXTENDS Queues

CONSTANT Threads

VARIABLES
    locked,     \* l->locked
    inner,      \* l->inner_lock.flag
    waitq,      \* l->wait_queue, as block() and queue_shift() order it
    pc          \* where each thread is

vars == <<locked, inner, waitq, pc>>

\* The steps at which a thread has the inner spinlock.
HasInner == {"test", "clear", "wake", "unlock"}
Steps == {"out", "acquire", "gap", "blocked", "held", "release"} \cup HasInner

Goto(t, step) == pc' = [pc EXCEPT ![t] = step]

Init ==
    /\ locked = FALSE
    /\ inner = FALSE
    /\ waitq = <<>>
    /\ pc = [t \in Threads |-> "out"]

-----------------------------------------------------------------------------
(* lock_acquire_atomic() *)

Call(t) ==
    /\ pc[t] = "out"
    /\ Goto(t, "acquire")
    /\ UNCHANGED <<locked, inner, waitq>>

SpinUntested(t, next) ==
    /\ inner' = TRUE
    /\ Goto(t, next)
    /\ UNCHANGED <<locked, waitq>>

\* spinlock_acquire_atomic(): the round that finds the flag clear; every
\* other round only yields.
Spin(t, next) ==
    /\ inner = FALSE
    /\ inner' = TRUE
    /\ Goto(t, next)
    /\ UNCHANGED <<locked, waitq>>

SpinAcquire(t) == pc[t] = "acquire" /\ Spin(t, "test")

TestGivesUp(t) ==
    /\ pc[t] = "test"
    /\ inner' = FALSE
    /\ locked' = TRUE
    /\ Goto(t, IF locked THEN "out" ELSE "held")
    /\ UNCHANGED waitq
TestInverted(t) ==
    /\ pc[t] = "test"
    /\ inner' = FALSE
    /\ Goto(t, IF locked THEN "held" ELSE "acquire")
    /\ UNCHANGED <<locked, waitq>>

\* while (l->locked): take the lock, or let go of the spinlock to block.
Test(t) ==
    /\ pc[t] = "test"
    /\ inner' = FALSE
    /\ locked' = TRUE
    /\ Goto(t, IF locked THEN "gap" ELSE "held")
    /\ UNCHANGED waitq

\* block(): at the end of the queue, without another look at l->locked.
Block(t) ==
    /\ pc[t] = "gap"
    /\ waitq' = Append(waitq, t)
    /\ Goto(t, "blocked")
    /\ UNCHANGED <<locked, inner>>

-----------------------------------------------------------------------------
(* lock_release_atomic() *)

CallRelease(t) ==
    /\ pc[t] = "held"
    /\ Goto(t, "release")
    /\ UNCHANGED <<locked, inner, waitq>>

SpinRelease(t) == pc[t] = "release" /\ Spin(t, "clear")

Clear(t) ==
    /\ pc[t] = "clear"
    /\ locked' = FALSE
    /\ Goto(t, "wake")
    /\ UNCHANGED <<inner, waitq>>

WakeNobody(t) ==
    /\ pc[t] = "wake"
    /\ Goto(t, "unlock")
    /\ UNCHANGED <<locked, inner, waitq>>

\* if (l->wait_queue) unblock(): the first waiter is ready again, and its
\* next step is spinlock_acquire() at the end of the loop.
Wake(t) ==
    /\ pc[t] = "wake"
    /\ IF waitq = <<>>
       THEN Goto(t, "unlock") /\ UNCHANGED waitq
       ELSE /\ pc' = [pc EXCEPT ![t] = "unlock", ![Head(waitq)] = "acquire"]
            /\ waitq' = Tail(waitq)
    /\ UNCHANGED <<locked, inner>>

Unlock(t) ==
    /\ pc[t] = "unlock"
    /\ inner' = FALSE
    /\ Goto(t, "out")
    /\ UNCHANGED <<locked, waitq>>

-----------------------------------------------------------------------------
\* A step of the lock's own code, as opposed to its caller's.
LockStep(t) ==
    \/ SpinAcquire(t) \/ Test(t) \/ Block(t)
    \/ SpinRelease(t) \/ Clear(t) \/ Wake(t) \/ Unlock(t)

Next == \E t \in Threads : Call(t) \/ CallRelease(t) \/ LockStep(t)

Spec == Init /\ [][Next]_vars

\* The round-robin scheduler runs every ready thread, and a thread that is
\* inside leaves; nobody has to ask for the lock.
Fairness == \A t \in Threads : WF_vars(LockStep(t)) /\ WF_vars(CallRelease(t))

FairSpec == Spec /\ Fairness

-----------------------------------------------------------------------------
(* Properties *)

\* Every variable keeps its type.
TypeOK ==
    /\ locked \in BOOLEAN
    /\ inner \in BOOLEAN
    /\ waitq \in Seq(Threads)
    /\ pc \in [Threads -> Steps]

\* The threads that have the lock as far as lock_acquire() and
\* lock_release() have told them.
Inside(t) == pc[t] \in {"held", "release", "clear"}

\* At most one thread is between lock_acquire() and the store of false to
\* l->locked in lock_release().
MutualExclusion == \A t, u \in Threads : Inside(t) /\ Inside(u) => t = u

\* One thread at a time has the inner spinlock, whichever of the two calls
\* it is in.
InnerExclusion ==
    \A t, u \in Threads :
        pc[t] \in HasInner /\ pc[u] \in HasInner => t = u

\* The blocked threads are exactly those in the wait queue, each once: a
\* wakeup reaches one thread, and nobody sleeps where unblock() cannot see.
QueueIsBlocked ==
    Distinct(waitq) /\ Items(waitq) = {t \in Threads : pc[t] = "blocked"}

\* The inductive invariant of the lock.
Inv ==
    /\ TypeOK /\ MutualExclusion /\ InnerExclusion /\ QueueIsBlocked
    /\ \A t \in Threads : pc[t] \in HasInner => inner
    /\ \A t \in Threads : Inside(t) => locked

\* What the lock promises its callers.
AsMutex ==
    INSTANCE Mutex WITH phase <-
        [t \in Threads |->
            CASE Inside(t) -> "inside"
              [] pc[t] \in {"out", "wake", "unlock"} -> "out"
              [] OTHER -> "waiting"]

\* lock_acquire() and lock_release() implement a mutex: nothing a caller can
\* see depends on the inner spinlock, the queue or the window before block().
ImplementsMutex == AsMutex!Spec

\* Somebody sleeps, the lock is free, and nobody is on the way to take it or
\* to wake the sleeper.
Stranded ==
    /\ ~locked
    /\ waitq # <<>>
    /\ \A t \in Threads : pc[t] \notin {"acquire", "test", "wake"}

\* Only the unprotected block() can strand a sleeper: a thread that is in
\* the queue when the lock is released is never passed over.
StrandedOnlyByBlock ==
    [][~Stranded /\ Stranded' => \E t \in Threads : Block(t)]_vars

\* doc/project3-assignment.md:53 asks for locks "that continue to work in the
\* presence of preemptive scheduling": a released lock leaves nobody asleep.
NoLostWakeup == ~Stranded

\* The lock itself does not stop: while some thread is looking at the lock,
\* sooner or later one is inside.
SomebodyEnters ==
    (\E t \in Threads : pc[t] \in {"acquire", "test"})
        ~> (\E t \in Threads : Inside(t))
=============================================================================
