---------------------------- MODULE Philosophers ----------------------------
(***************************************************************************)
(* The semaphores of kernel/sync.c, as the forks of the dining             *)
(* philosophers of kernel/philosophers.c.                                  *)
(*                                                                         *)
(* semaphore_down() and semaphore_up() touch the value and test the queue  *)
(* inside their inner spinlock, one step each here; semaphore_down() lets  *)
(* go of the spinlock before it calls block().                             *)
(***************************************************************************)
EXTENDS Queues, FiniteSets

CONSTANTS
    Phils,          \* the philosophers
    Forks,          \* the forks
    ForkA, ForkB    \* philosophers[i].forka and .forkb

ASSUME PhilosophersAssumption ==
    /\ IsFiniteSet(Phils)
    /\ ForkA \in [Phils -> Forks] /\ ForkB \in [Phils -> Forks]
    /\ \A p \in Phils : ForkA[p] # ForkB[p]

VARIABLES
    value,      \* forks[i].value
    forkq,      \* forks[i].wait_queue
    seat        \* where each philosopher is

tableVars == <<value, forkq, seat>>

\* "downA" and "downB" are about to call semaphore_down(), the gap of each is
\* between its test and block(), and "upA", "upB" are about to call
\* semaphore_up().
Seats == {"think", "downA", "gapA", "blockedA", "downB", "gapB", "blockedB",
          "eat", "upA", "upB"}

\* do_init(): SEMAPHORE_INIT(1).
TableInit ==
    /\ value = [f \in Forks |-> 1]
    /\ forkq = [f \in Forks |-> <<>>]
    /\ seat = [p \in Phils |-> "think"]

GetHungry(p) ==
    /\ seat[p] = "think"
    /\ seat' = [seat EXCEPT ![p] = "downA"]
    /\ UNCHANGED <<value, forkq>>

DownTestsFirst(p, f, at, gap, next) ==
    /\ seat[p] = at
    /\ value' = [value EXCEPT ![f] = IF @ > 0 THEN @ - 1 ELSE @]
    /\ seat' = [seat EXCEPT ![p] = IF value[f] > 0 THEN next ELSE gap]
    /\ UNCHANGED forkq

\* semaphore_down() up to its test: go on, or go and block.
Down(p, f, at, gap, next) ==
    /\ seat[p] = at
    /\ value' = [value EXCEPT ![f] = @ - 1]
    /\ seat' = [seat EXCEPT ![p] = IF value'[f] < 0 THEN gap ELSE next]
    /\ UNCHANGED forkq

\* block(&s->wait_queue).  The wakeup returns from semaphore_down().
ForkBlock(p, f, gap, blocked) ==
    /\ seat[p] = gap
    /\ forkq' = [forkq EXCEPT ![f] = Append(@, p)]
    /\ seat' = [seat EXCEPT ![p] = blocked]
    /\ UNCHANGED value

\* A philosopher waits for its first fork or for its second one.
Woken(p) == IF seat[p] = "blockedA" THEN "downB" ELSE "eat"

\* semaphore_up(): count, and wake the first waiter if there is one.
Up(p, f, at, next) ==
    /\ seat[p] = at
    /\ value' = [value EXCEPT ![f] = @ + 1]
    /\ IF value'[f] <= 0 /\ forkq[f] # <<>>
       THEN /\ forkq' = [forkq EXCEPT ![f] = Tail(@)]
            /\ seat' = [seat EXCEPT ![p] = next,
                                ![Head(forkq[f])] = Woken(Head(forkq[f]))]
       ELSE /\ seat' = [seat EXCEPT ![p] = next]
            /\ UNCHANGED forkq

\* Done eating: both forks go back, the first one first.
Eat(p) ==
    /\ seat[p] = "eat"
    /\ seat' = [seat EXCEPT ![p] = "upA"]
    /\ UNCHANGED <<value, forkq>>

TakeA(p) == Down(p, ForkA[p], "downA", "gapA", "downB")
SleepA(p) == ForkBlock(p, ForkA[p], "gapA", "blockedA")
TakeB(p) == Down(p, ForkB[p], "downB", "gapB", "eat")
SleepB(p) == ForkBlock(p, ForkB[p], "gapB", "blockedB")
PutA(p) == Up(p, ForkA[p], "upA", "upB")
PutB(p) == Up(p, ForkB[p], "upB", "think")

\* philosophize(): one philosopher's loop.
Philosophize(p) ==
    \/ GetHungry(p)
    \/ TakeA(p) \/ SleepA(p) \/ TakeB(p) \/ SleepB(p)
    \/ Eat(p) \/ PutA(p) \/ PutB(p)

TableNext == \E p \in Phils : Philosophize(p)

TableSpec == TableInit /\ [][TableNext]_tableVars

\* Round-robin scheduling; thinking and eating take a bounded time.
TableFairSpec == TableSpec /\ \A p \in Phils : WF_tableVars(Philosophize(p))

-----------------------------------------------------------------------------
(* Properties *)

\* Every variable keeps its type; a semaphore never counts more than the one
\* fork, nor more waiters than there are other philosophers.
TableTypeOK ==
    /\ value \in [Forks -> 1 - Cardinality(Phils) .. 1]
    /\ forkq \in [Forks -> Seq(Phils)]
    /\ seat \in [Phils -> Seats]

HasA(p) == seat[p] \in {"downB", "gapB", "blockedB", "eat", "upA"}
HasB(p) == seat[p] \in {"eat", "upA", "upB"}
Holders(f) == {p \in Phils : (ForkA[p] = f /\ HasA(p)) \/ (ForkB[p] = f /\ HasB(p))}
InGap(f) == {p \in Phils : \/ ForkA[p] = f /\ seat[p] = "gapA"
                           \/ ForkB[p] = f /\ seat[p] = "gapB"}
Sleepers(f) == {p \in Phils : \/ ForkA[p] = f /\ seat[p] = "blockedA"
                              \/ ForkB[p] = f /\ seat[p] = "blockedB"}

Wanted(f) == Holders(f) \cup InGap(f) \cup Sleepers(f)

\* A fork is in one hand at a time; with shared forks that is the assertion
\* of philosophize() that no neighbour is eating.
ForkExclusive == \A f \in Forks : Cardinality(Holders(f)) <= 1

\* The semaphore's books: the value is what the holder and those that went to
\* wait leave of the one fork, those still on their way to block() included,
\* and the sleepers are the queue.
ValueCounts ==
    \A f \in Forks :
        /\ Distinct(forkq[f]) /\ Items(forkq[f]) = Sleepers(f)
        /\ value[f] = 1 - Cardinality(Wanted(f))

\* semaphore_down() and semaphore_up(): a fork is in one hand, and the values
\* of the semaphores count the forks, sleepers and those on their way.
ForksCounted == TableTypeOK /\ ForkExclusive /\ ValueCounts

\* Fork f lies on the table, but somebody who missed it was already counted
\* as its taker.
Lost(f) == Holders(f) = {} /\ value[f] <= 0

\* The forks are picked up in an order without a cycle: once somebody is
\* hungry somebody eats, unless a fork was lost between the test of a
\* semaphore_down() and its block().
SomebodyEats ==
    (\E p \in Phils : seat[p] = "downA")
        ~> (\E p \in Phils : seat[p] = "eat") \/ (\E f \in Forks : Lost(f))
=============================================================================
