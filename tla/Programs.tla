------------------------------ MODULE Programs ------------------------------
(***************************************************************************)
(* The clients of the synchronisation primitives side by side: the threads *)
(* of the barrier test, the philosophers, the users of a mailbox, the two  *)
(* processes that take turns, and the two threads of the lock test.  They  *)
(* share nothing, so one of them, program, does all the moving in a        *)
(* behaviour.                                                              *)
(***************************************************************************)
EXTENDS Barrier, Philosophers, Mailbox

VARIABLES
    program,
    queue, toSender, toReceiver, sender, receiver,
    monitor, waiters, shared_var, exit_count, init, place, turns, tmp, status

flow == <<queue, toSender, toReceiver, sender, receiver>>
locktest == <<monitor, waiters, shared_var, exit_count, init, place, turns, tmp, status>>
vars == <<program, barrierVars, tableVars, mailboxVars, flow, locktest>>

\* The constants of process3.c and process4.c.
F == INSTANCE FlowControl WITH
        Messages <- 1000, BUFFER_SIZE <- 1024, MinSize <- 128, Sizes <- 128

\* The constants of th2.c.
L == INSTANCE LockTest WITH n2 <- 200, n3 <- 100, divby <- 3, switch_to_broadcast <- 20

ASSUME F!FlowAssumption /\ L!LockTestAssumption

Init ==
    /\ program \in {"barrier", "philosophers", "mailbox", "flow", "locktest"}
    /\ BarrierInit /\ TableInit /\ MailboxInit /\ F!Init /\ L!Init

Only(p) == program = p /\ UNCHANGED program

InBarrier(A) ==
    Only("barrier") /\ A /\ UNCHANGED <<tableVars, mailboxVars, flow, locktest>>
AtTable(A) ==
    Only("philosophers") /\ A /\ UNCHANGED <<barrierVars, mailboxVars, flow, locktest>>
InMailbox(A) ==
    Only("mailbox") /\ A /\ UNCHANGED <<barrierVars, tableVars, flow, locktest>>
InFlow(A) ==
    Only("flow") /\ A /\ UNCHANGED <<barrierVars, tableVars, mailboxVars, locktest>>
InLockTest(A) ==
    Only("locktest") /\ A /\ UNCHANGED <<barrierVars, tableVars, mailboxVars, flow>>

Next ==
    \/ InBarrier(BarrierNext) \/ AtTable(TableNext) \/ InMailbox(MailboxNext)
    \/ InFlow(F!Next) \/ InLockTest(L!Next)

Spec == Init /\ [][Next]_vars

\* The fairness of each module: BarrierFairSpec, TableFairSpec, and FairSpec of
\* FlowControl and LockTest.
FairSpec ==
    /\ Spec
    /\ \A t \in Bthreads : WF_vars(InBarrier(BthreadStep(t)))
    /\ \A p \in Phils : WF_vars(AtTable(Philosophize(p)))
    /\ WF_vars(InFlow(F!SenderStep)) /\ WF_vars(InFlow(F!ReceiverStep))
    /\ \A k \in L!LockThreads : WF_vars(InLockTest(L!LockThread(k)))

-----------------------------------------------------------------------------
(* Properties *)

\* condition_wait(), in barrier_wait(), in the mailbox calls and in th2.c: a
\* wake-up is lost only between the release of the mutex and block().
LostOnlyByBlock ==
    BarrierMissedOnlyByBlock /\ MailboxStrandedOnlyByBlock /\ L!MissedOnlyByBlock

\* process3 and process4 both get to the end, and so do the two threads of
\* th2.c with the right count, unless a wake-up of theirs is lost.
BothDone ==
    /\ program = "flow" => F!BothDone
    /\ program = "locktest" => L!BothOk
=============================================================================
