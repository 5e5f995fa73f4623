----------------------------- MODULE SyncProofs -----------------------------
(***************************************************************************)
(* The lock, the barrier and the semaphores of kernel/sync.c, the last two *)
(* as barrier_test.c and philosophers.c use them, for any set of threads   *)
(* and philosophers. The lock is a mutex and strands a sleeper only in     *)
(* block(); barrier_test() never fails its assertion, and a broadcast      *)
(* leaves behind only the thread that was late to block(); each fork's     *)
(* semaphore counts those who have it or wait for it.                      *)
(***************************************************************************)
EXTENDS Lock, Barrier, Philosophers, QueueLemmas, TLAPS

\* What is used of the theorems on finite sets: the subsets of S can be
\* counted, one by one.
Counts(S) ==
    /\ Cardinality({}) = 0 /\ \A x : Cardinality({x}) = 1
    /\ Cardinality(S) \in Nat
    /\ \A T \in SUBSET S :
        /\ Cardinality(T) \in Nat /\ Cardinality(T) <= Cardinality(S)
        /\ Cardinality(T) = Cardinality(S) => T = S
        /\ Cardinality(T) = 0 <=> T = {}
        /\ \A x \in S :
              /\ x \notin T => Cardinality(T \cup {x}) = Cardinality(T) + 1
              /\ x \in T => Cardinality(T \ {x}) = Cardinality(T) - 1

-----------------------------------------------------------------------------
(* The lock *)

\* The lock starts free, with nobody in its queue.
LEMMA InitInv == Init => Inv
<1> SUFFICES ASSUME Init PROVE Inv
  OBVIOUS
<1>1. TypeOK /\ QueueIsBlocked
  <2>1. Items(<<>>) = {} /\ Distinct(<<>>) /\ <<>> \in Seq(Threads)
    BY DEF Items, Distinct
  <2>2. {t \in Threads : pc[t] = "blocked"} = {}
    BY DEF Init
  <2> QED
    BY Zenon, <2>1, <2>2 DEF Init, TypeOK, QueueIsBlocked, Steps
<1> QED
  BY <1>1 DEF Init, Inv, MutualExclusion, InnerExclusion, Inside, HasInner

\* A step that leaves the queue alone and neither blocks a thread nor moves
\* a blocked one.
LEMMA SameQueue ==
    ASSUME Inv, NEW t \in Threads, NEW step \in Steps \ {"blocked"},
           pc[t] # "blocked", Goto(t, step), UNCHANGED waitq
    PROVE  QueueIsBlocked' /\ pc' \in [Threads -> Steps]
<1>1. pc \in [Threads -> Steps] /\ pc' = [pc EXCEPT ![t] = step]
  BY DEF Inv, TypeOK, Goto
<1>2. {u \in Threads : pc'[u] = "blocked"} = {u \in Threads : pc[u] = "blocked"}
  BY <1>1
<1>3. QueueIsBlocked'
  BY <1>2 DEF Inv, QueueIsBlocked
<1> QED
  BY <1>1, <1>3

\* block() appends a thread that was not in the queue.
LEMMA BlockQueue ==
    ASSUME Inv, NEW t \in Threads, Block(t)
    PROVE  QueueIsBlocked' /\ waitq' \in Seq(Threads)
<1>1. /\ waitq \in Seq(Threads) /\ pc \in [Threads -> Steps] /\ QueueIsBlocked
      /\ waitq' = Append(waitq, t) /\ pc[t] = "gap"
      /\ pc' = [pc EXCEPT ![t] = "blocked"]
  BY DEF Inv, TypeOK, Block, Goto
<1>2. t \notin Items(waitq)
  BY <1>1 DEF QueueIsBlocked
<1>3. /\ waitq' \in Seq(Threads) /\ Distinct(waitq')
      /\ Items(waitq') = Items(waitq) \cup {t}
  BY <1>1, <1>2, AppendFacts DEF QueueIsBlocked
<1>4. {u \in Threads : pc'[u] = "blocked"}
        = {u \in Threads : pc[u] = "blocked"} \cup {t}
  BY <1>1
<1> QED
  BY <1>1, <1>3, <1>4 DEF QueueIsBlocked

\* unblock() takes the first thread out of the queue, and no other.
LEMMA WakeQueue ==
    ASSUME Inv, NEW t \in Threads, Wake(t), waitq # <<>>
    PROVE  /\ QueueIsBlocked' /\ waitq' \in Seq(Threads)
           /\ Head(waitq) \in Threads /\ pc[Head(waitq)] = "blocked"
<1>1. /\ waitq \in Seq(Threads) /\ pc \in [Threads -> Steps] /\ QueueIsBlocked
      /\ waitq' = Tail(waitq) /\ pc[t] = "wake"
      /\ pc' = [pc EXCEPT ![t] = "unlock", ![Head(waitq)] = "acquire"]
  BY DEF Inv, TypeOK, Wake
<1>2. /\ waitq' \in Seq(Threads) /\ Distinct(waitq') /\ Head(waitq) \in Threads
      /\ Items(waitq') = Items(waitq) \ {Head(waitq)}
      /\ Head(waitq) = waitq[1] /\ Len(waitq) \in Nat /\ Len(waitq) >= 1
  BY <1>1, TailFacts DEF QueueIsBlocked
<1>3. Head(waitq) \in Items(waitq)
  BY <1>2 DEF Items
<1>4. {u \in Threads : pc'[u] = "blocked"}
        = {u \in Threads : pc[u] = "blocked"} \ {Head(waitq)}
  BY <1>1, <1>2
<1> QED
  BY <1>1, <1>2, <1>3, <1>4 DEF QueueIsBlocked

\* Every step of every thread keeps the invariant.
LEMMA NextInv == Inv /\ [Next]_vars => Inv'
<1> SUFFICES ASSUME Inv, [Next]_vars PROVE Inv'
  OBVIOUS
<1> USE DEF MutualExclusion, InnerExclusion, Inside, HasInner
<1>1. ASSUME NEW t \in Threads, Call(t) PROVE Inv'
  <2>1. QueueIsBlocked' /\ pc' \in [Threads -> Steps]
    BY <1>1, SameQueue DEF Call, Steps
  <2> QED
    BY <1>1, <2>1 DEF Call, Goto, Inv, TypeOK
<1>2. ASSUME NEW t \in Threads, CallRelease(t) PROVE Inv'
  <2>1. QueueIsBlocked' /\ pc' \in [Threads -> Steps]
    BY <1>2, SameQueue DEF CallRelease, Steps
  <2> QED
    BY <1>2, <2>1 DEF CallRelease, Goto, Inv, TypeOK
<1>3. ASSUME NEW t \in Threads, SpinAcquire(t) PROVE Inv'
  <2>1. QueueIsBlocked' /\ pc' \in [Threads -> Steps]
    BY <1>3, SameQueue DEF SpinAcquire, Spin, Steps
  <2> QED
    BY <1>3, <2>1 DEF SpinAcquire, Spin, Goto, Inv, TypeOK
<1>4. ASSUME NEW t \in Threads, Test(t) PROVE Inv'
  <2>1. QueueIsBlocked' /\ pc' \in [Threads -> Steps]
    BY <1>4, SameQueue DEF Test, Steps
  <2> QED
    BY Zenon, <1>4, <2>1 DEF Test, Goto, Inv, TypeOK
<1>5. ASSUME NEW t \in Threads, Block(t) PROVE Inv'
  <2>1. QueueIsBlocked' /\ waitq' \in Seq(Threads)
    BY <1>5, BlockQueue
  <2>2. pc' \in [Threads -> Steps]
    BY <1>5 DEF Block, Goto, Inv, TypeOK, Steps
  <2> QED
    BY <1>5, <2>1, <2>2 DEF Block, Goto, Inv, TypeOK
<1>6. ASSUME NEW t \in Threads, SpinRelease(t) PROVE Inv'
  <2>1. QueueIsBlocked' /\ pc' \in [Threads -> Steps]
    BY <1>6, SameQueue DEF SpinRelease, Spin, Steps
  <2> QED
    BY <1>6, <2>1 DEF SpinRelease, Spin, Goto, Inv, TypeOK
<1>7. ASSUME NEW t \in Threads, Clear(t) PROVE Inv'
  <2>1. QueueIsBlocked' /\ pc' \in [Threads -> Steps]
    BY <1>7, SameQueue DEF Clear, Steps
  <2> QED
    BY Zenon, <1>7, <2>1 DEF Clear, Goto, Inv, TypeOK
<1>8. ASSUME NEW t \in Threads, Wake(t) PROVE Inv'
  <2>1. CASE waitq = <<>>
    <3>1. QueueIsBlocked' /\ pc' \in [Threads -> Steps]
      BY <1>8, <2>1, SameQueue DEF Wake, Steps
    <3> QED
      BY <1>8, <2>1, <3>1 DEF Wake, Goto, Inv, TypeOK
  <2>2. CASE waitq # <<>>
    <3>1. /\ QueueIsBlocked' /\ waitq' \in Seq(Threads)
          /\ Head(waitq) \in Threads /\ pc[Head(waitq)] = "blocked"
      BY <1>8, <2>2, WakeQueue
    <3>2. pc' \in [Threads -> Steps]
      BY <1>8, <2>2, <3>1 DEF Wake, Inv, TypeOK, Steps
    <3>3. \A u \in Threads :
            pc'[u] = IF u = Head(waitq) THEN "acquire"
                     ELSE IF u = t THEN "unlock" ELSE pc[u]
      BY <1>8, <2>2, <3>1 DEF Wake, Inv, TypeOK
    <3> QED
      BY <1>8, <2>2, <3>1, <3>2, <3>3 DEF Wake, Inv, TypeOK
  <2> QED
    BY <2>1, <2>2
<1>9. ASSUME NEW t \in Threads, Unlock(t) PROVE Inv'
  <2>1. QueueIsBlocked' /\ pc' \in [Threads -> Steps]
    BY <1>9, SameQueue DEF Unlock, Steps
  <2> QED
    BY Zenon, <1>9, <2>1 DEF Unlock, Goto, Inv, TypeOK
<1>10. CASE UNCHANGED vars
  BY <1>10 DEF vars, Inv, TypeOK, QueueIsBlocked
<1> QED
  BY <1>1, <1>2, <1>3, <1>4, <1>5, <1>6, <1>7, <1>8, <1>9, <1>10
     DEF Next, LockStep

\* lock_acquire() and lock_release() of kernel/sync.c exclude each other for
\* any number of threads, and their wait queue holds exactly the sleepers.
THEOREM LockInvariant == Spec => []Inv
  BY InitInv, NextInv, PTL DEF Spec

\* For any number of threads, lock_acquire() and lock_release() implement the
\* abstract mutex: the steps that show are the call, the test that finds
\* l->locked clear, and the store that clears it.
THEOREM LockImplementsMutex == Spec => ImplementsMutex
<1> DEFINE phase == [t \in Threads |->
                        CASE Inside(t) -> "inside"
                          [] pc[t] \in {"out", "wake", "unlock"} -> "out"
                          [] OTHER -> "waiting"]
<1>1. Init => AsMutex!Init
  BY DEF Init, AsMutex!Init, Inside
<1>2. Inv /\ [Next]_vars => [AsMutex!Next]_phase
  <2> SUFFICES ASSUME Inv, [Next]_vars PROVE [AsMutex!Next]_phase
    OBVIOUS
  <2> USE DEF Inside
  <2>0. pc \in [Threads -> Steps]
    BY DEF Inv, TypeOK
  <2>1. ASSUME NEW t \in Threads, Call(t) PROVE AsMutex!Request(t)
    BY Zenon, <2>0, <2>1 DEF Call, Goto, AsMutex!Request
  <2>2. ASSUME NEW t \in Threads, Test(t), ~locked PROVE AsMutex!Enter(t)
    <3>1. \A u \in Threads : ~Inside(u)
      BY <2>2 DEF Inv
    <3> QED
      BY Zenon, <2>0, <2>2, <3>1 DEF Test, Goto, AsMutex!Enter
  <2>3. ASSUME NEW t \in Threads, Clear(t) PROVE AsMutex!Leave(t)
    BY Zenon, <2>0, <2>3 DEF Clear, Goto, AsMutex!Leave
  <2>4. ASSUME NEW t \in Threads,
               \/ Test(t) /\ locked
               \/ SpinAcquire(t) \/ Block(t) \/ CallRelease(t)
               \/ SpinRelease(t) \/ Unlock(t)
        PROVE  UNCHANGED phase
    BY <2>0, <2>4 DEF Test, SpinAcquire, Block, CallRelease, SpinRelease,
                      Unlock, Spin, Goto
  <2>5. ASSUME NEW t \in Threads, Wake(t) PROVE UNCHANGED phase
    <3>1. CASE waitq = <<>>
      BY <2>0, <2>5, <3>1 DEF Wake, Goto
    <3>2. CASE waitq # <<>>
      BY <2>0, <2>5, <3>2, WakeQueue DEF Wake
    <3> QED
      BY <3>1, <3>2
  <2>6. CASE UNCHANGED vars
    BY <2>6 DEF vars
  <2> QED
    BY <2>1, <2>2, <2>3, <2>4, <2>5, <2>6 DEF Next, LockStep, AsMutex!Next
<1> QED
  BY <1>1, <1>2, LockInvariant, PTL DEF Spec, ImplementsMutex, AsMutex!Spec

\* For any number of threads, the one step that can leave a sleeper behind a
\* free lock is a block() that comes after the lock_release() it missed.
THEOREM StrandedOnlyByBlockHolds == Spec => StrandedOnlyByBlock
<1>1. ASSUME Inv, [Next]_vars
      PROVE  [~Stranded /\ Stranded' => \E t \in Threads : Block(t)]_vars
  <2> SUFFICES ASSUME NEW t \in Threads, ~Stranded, Stranded',
                      Call(t) \/ CallRelease(t) \/ LockStep(t)
               PROVE  Block(t)
    BY <1>1 DEF Next
  <2>0. pc \in [Threads -> Steps]
    BY <1>1 DEF Inv, TypeOK
  <2>1. ~Call(t) /\ ~SpinAcquire(t) /\ ~Clear(t)
    BY <2>0 DEF Call, SpinAcquire, Spin, Clear, Goto, Stranded
  <2>2. ~CallRelease(t) /\ ~SpinRelease(t)
    BY <1>1, <2>0 DEF CallRelease, SpinRelease, Spin, Goto, Stranded, Inv,
                      Inside
  <2>3. ~Test(t)
    BY <2>0 DEF Test, Stranded
  <2>4. ~Unlock(t)
    BY <2>0 DEF Unlock, Goto, Stranded
  <2>5. ~Wake(t)
    <3>1. SUFFICES ASSUME Wake(t) PROVE FALSE
      OBVIOUS
    <3>2. waitq # <<>>
      BY <2>0, <3>1 DEF Wake, Stranded
    <3>3. Head(waitq) \in Threads /\ pc'[Head(waitq)] = "acquire"
      BY <1>1, <2>0, <3>1, <3>2, WakeQueue DEF Wake
    <3> QED
      BY <3>3 DEF Stranded
  <2> QED
    BY <2>1, <2>2, <2>3, <2>4, <2>5 DEF LockStep
<1> QED
  BY <1>1, LockInvariant, PTL DEF Spec, StrandedOnlyByBlock

-----------------------------------------------------------------------------
(* The barrier *)

\* The threads that have arrived can be counted, and N is all of them.
LEMMA ArrivedCount ==
    ASSUME Counts(Bthreads), NEW A, A \subseteq Bthreads
    PROVE  /\ N \in Nat /\ N > 0 /\ Cardinality({}) = 0
           /\ Cardinality(A) \in 0 .. N
           /\ (Cardinality(A) = N) <=> (A = Bthreads)
           /\ \A t \in Bthreads \ A : Cardinality(A \cup {t}) = Cardinality(A) + 1
<1>1. /\ Cardinality({}) = 0 /\ N \in Nat /\ (N = 0 <=> Bthreads = {})
      /\ Cardinality(A) \in Nat /\ Cardinality(A) <= N
      /\ Cardinality(A) = N => A = Bthreads
      /\ \A t \in Bthreads \ A : Cardinality(A \cup {t}) = Cardinality(A) + 1
  BY Zenon DEF N, Counts
<1>2. Bthreads # {}
  BY Zenon, BarrierAssumption
<1> QED  BY <1>1, <1>2 DEF N

\* barrier_init(): nobody has arrived, and the barrier counts up.
LEMMA BarrierStarts ==
    ASSUME Counts(Bthreads)
    PROVE  BarrierInit => BarrierInv
<1> SUFFICES ASSUME BarrierInit PROVE BarrierInv
  BY Zenon
<1>1. /\ mutex = NoHolder /\ all_arrived = <<>> /\ count1 = 0 /\ count2 = 0
      /\ countUp = TRUE
      /\ stage = [t \in Bthreads |-> "update"]
      /\ upward = [t \in Bthreads |-> TRUE]
      /\ goal = [t \in Bthreads |-> "check"] /\ bvar = [t \in Bthreads |-> 0]
  BY Zenon DEF BarrierInit
<1>2. /\ Items(all_arrived) = {} /\ Distinct(all_arrived)
      /\ all_arrived \in Seq(Bthreads)
  BY <1>1 DEF Items, Distinct
<1>3. /\ Arrived = {} /\ Cardinality({}) = 0 /\ Bthreads # {}
      /\ NoHolder \notin Bthreads
      /\ Iterations \in Nat
  BY Zenon, <1>1, BarrierAssumption
     DEF Arrived, InsideBarrier, BarrierWait, Counts
<1>4. BarrierTypeOK
  BY <1>1, <1>2, <1>3, ArrivedCount
     DEF BarrierTypeOK, BarrierStages, BarrierWait
<1>5. AllArrivedIsBlocked
  BY Zenon, <1>1, <1>2 DEF AllArrivedIsBlocked
<1>6. CountersTell
  BY Zenon, <1>1, <1>3 DEF CountersTell
<1>7. InStep
  BY Zenon, <1>1, <1>3 DEF InStep, InsideBarrier, BarrierWait, Beyond, Round
<1> QED  BY Zenon, <1>4, <1>5, <1>6, <1>7 DEF BarrierInv

\* A thread moves, but neither into the queue nor out of it.
LEMMA KeepsAllArrived ==
    ASSUME BarrierInv,
           NEW t \in Bthreads, NEW step \in BarrierStages \ {"blocked"},
           stage[t] # "blocked", BarrierGoto(t, step), UNCHANGED all_arrived
    PROVE  AllArrivedIsBlocked' /\ stage' \in [Bthreads -> BarrierStages]
<1>1. /\ stage \in [Bthreads -> BarrierStages]
      /\ stage' = [stage EXCEPT ![t] = step]
  BY Zenon DEF BarrierInv, BarrierTypeOK, BarrierGoto
<1>2. {u \in Bthreads : stage'[u] = "blocked"}
        = {u \in Bthreads : stage[u] = "blocked"}
  BY Zenon, <1>1
<1> QED  BY Zenon, <1>1, <1>2 DEF BarrierInv, AllArrivedIsBlocked

\* barrier_test(): a thread on its way to the next barrier.
LEMMA TestKeepsInv ==
    ASSUME BarrierInv, NEW t \in Bthreads, Update(t) \/ Check(t)
    PROVE  BarrierInv'
<1> USE DEF InsideBarrier, BarrierWait, Beyond
<1>1. /\ BarrierTypeOK /\ AllArrivedIsBlocked /\ CountersTell /\ InStep
      /\ stage \in [Bthreads -> BarrierStages] /\ Iterations \in Nat
  BY Zenon, BarrierAssumption DEF BarrierInv, BarrierTypeOK
<1>2. PICK step \in {"exited", "enter"} : stage' = [stage EXCEPT ![t] = step]
  BY Zenon DEF Update, Check, BarrierGoto
<1>3. /\ UNCHANGED <<mutex, all_arrived, count1, count2, countUp, upward>>
      /\ stage[t] \in {"update", "check"}
  BY Zenon DEF Update, Check, counters
<1>4. AllArrivedIsBlocked' /\ stage' \in [Bthreads -> BarrierStages]
  BY Zenon, <1>2, <1>3, KeepsAllArrived DEF BarrierGoto, BarrierStages
<1>5. Arrived' = Arrived
  BY Zenon, <1>1, <1>2, <1>3 DEF Arrived
<1>6. CountersTell'
  BY Zenon, <1>1, <1>2, <1>3, <1>5 DEF CountersTell
<1>7. BarrierTypeOK' /\ InStep'
  <2>1. CASE Update(t) /\ bvar[t] = Iterations
    <3>1. step = "exited" /\ UNCHANGED <<goal, bvar>> /\ stage[t] = "update"
      BY Zenon, <1>1, <1>2, <2>1 DEF Update, BarrierGoto, testVars
    <3> QED  BY <1>1, <1>2, <1>3, <1>4, <1>5, <2>1, <3>1
                DEF BarrierTypeOK, InStep, Round
  <2>2. CASE Update(t) /\ bvar[t] # Iterations
    <3>1. /\ step = "enter" /\ stage[t] = "update"
          /\ bvar' = [bvar EXCEPT ![t] = @ + 1]
          /\ goal' = [goal EXCEPT ![t] = "check"]
      BY Zenon, <1>1, <1>2, <2>2 DEF Update, BarrierGoto
    <3>2. BarrierTypeOK'
      <4>1. /\ bvar \in [Bthreads -> 0 .. Iterations]
            /\ bvar[t] + 1 \in 0 .. Iterations
        BY <1>1, <2>2 DEF BarrierTypeOK
      <4> QED  BY Zenon, <1>1, <1>3, <1>4, <3>1, <4>1 DEF BarrierTypeOK
    <3>3. countUp
      BY Zenon, <1>1, <3>1 DEF InStep
    <3>4. \A u \in Bthreads : Round(u)' = Round(u)
      <4>1. /\ t \notin Arrived /\ bvar[t] \in Int
            /\ bvar \in [Bthreads -> 0 .. Iterations]
        BY <1>1, <3>1 DEF Arrived, BarrierTypeOK
      <4> QED  BY SMTT(30), <1>1, <1>2, <1>3, <1>5, <3>1, <3>3, <4>1 DEF Round
    <3>5. InStep'
      BY Zenon, <1>1, <1>2, <1>3, <3>1, <3>3, <3>4 DEF BarrierTypeOK, InStep
    <3> QED  BY Zenon, <3>2, <3>5
  <2>3. CASE Check(t)
    <3>1. /\ step = "enter" /\ stage[t] = "check"
          /\ UNCHANGED bvar /\ goal' = [goal EXCEPT ![t] = "update"]
      BY Zenon, <1>1, <1>2, <2>3 DEF Check, BarrierGoto
    <3>2. ~countUp
      BY Zenon, <1>1, <3>1 DEF InStep
    <3>3. \A u \in Bthreads : Round(u)' = Round(u)
      BY Zenon, <1>1, <1>2, <1>3, <3>1, <3>2 DEF BarrierTypeOK, Round
    <3> QED  BY Zenon, <1>1, <1>2, <1>3, <1>4, <3>1, <3>2, <3>3
                DEF BarrierTypeOK, InStep
  <2> QED  BY Zenon, <2>1, <2>2, <2>3
<1> QED  BY Zenon, <1>4, <1>6, <1>7 DEF BarrierInv

\* barrier_wait() counts a thread that arrives; it sleeps, unless it is the
\* last one.
LEMMA ArriveKeepsInv ==
    ASSUME Counts(Bthreads), BarrierInv, NEW t \in Bthreads, Arrive(t)
    PROVE  BarrierInv'
<1> USE DEF InsideBarrier, BarrierWait, Beyond
<1>1. /\ BarrierTypeOK /\ AllArrivedIsBlocked /\ CountersTell /\ InStep
      /\ stage \in [Bthreads -> BarrierStages]
      /\ upward \in [Bthreads -> BOOLEAN] /\ countUp \in BOOLEAN
      /\ NoHolder \notin Bthreads
  BY Zenon, BarrierAssumption DEF BarrierInv, BarrierTypeOK
<1>2. /\ stage[t] = "enter" /\ mutex = NoHolder
      /\ upward' = [upward EXCEPT ![t] = countUp]
      /\ UNCHANGED <<all_arrived, countUp, goal, bvar>>
  BY Zenon DEF Arrive, testVars
<1> DEFINE here == Cardinality(Arrived)
<1>3. /\ here \in Nat /\ N \in Nat /\ here + 1 \in 0 .. N
      /\ Cardinality(Arrived \cup {t}) = here + 1
      /\ (here + 1 = N) <=> (Arrived \cup {t} = Bthreads)
  <2>1. /\ t \notin Arrived /\ Arrived \cup {t} \subseteq Bthreads
        /\ Arrived \subseteq Bthreads
    BY Zenon, <1>2 DEF Arrived
  <2> HIDE DEF Arrived
  <2> QED  BY <2>1, ArrivedCount
<1>4. /\ count1' = IF countUp THEN here + 1 ELSE N
      /\ count2' = IF countUp THEN 0 ELSE N - (here + 1)
  <2>1. CASE countUp
    BY Zenon, <1>1, <1>3, <2>1 DEF Arrive, CountersTell
  <2>2. CASE ~countUp
    <3>1. count1' = count1 /\ count2' = count2 - 1
      BY Zenon, <2>2 DEF Arrive
    <3> QED  BY <1>1, <1>3, <2>2, <3>1 DEF CountersTell
  <2> QED  BY Zenon, <1>1, <2>1, <2>2
<1> DEFINE step == IF here + 1 = N THEN "broadcast" ELSE "gap"
<1>5. /\ stage' = [stage EXCEPT ![t] = step]
      /\ mutex' = IF here + 1 = N THEN t ELSE NoHolder
  <2>1. CASE countUp
    <3>1. Loop(t, TRUE, count1' < N)
      BY Zenon, <2>1 DEF Arrive
    <3> QED  BY <1>2, <1>3, <1>4, <2>1, <3>1 DEF Loop, BarrierGoto
  <2>2. CASE ~countUp
    <3>1. Loop(t, FALSE, count2' > 0)
      BY Zenon, <2>2 DEF Arrive
    <3>2. countUp = FALSE /\ ((count2' > 0) <=> (here + 1 # N))
      BY <1>1, <1>3, <1>4, <2>2
    <3> QED  BY Zenon, <1>2, <1>3, <3>1, <3>2 DEF Loop, BarrierGoto
  <2> QED  BY Zenon, <1>1, <2>1, <2>2
<1> HIDE DEF here
<1>6. Arrived' = Arrived \cup {t}
  BY Zenon, <1>1, <1>2, <1>5 DEF Arrived
<1>7. AllArrivedIsBlocked' /\ stage' \in [Bthreads -> BarrierStages]
  BY Zenon, <1>2, <1>5, KeepsAllArrived DEF BarrierGoto, BarrierStages
<1>8. BarrierTypeOK'
  BY <1>1, <1>2, <1>3, <1>4, <1>5, <1>7 DEF BarrierTypeOK
<1>9. CountersTell'
  <2>1. \A u \in Bthreads : stage[u] # "broadcast"
    BY Zenon, <1>1, <1>2 DEF CountersTell
  <2>2. \A u \in Bthreads : (stage'[u] = "broadcast") <=> (u = t /\ here + 1 = N)
    BY Zenon, <1>1, <1>5, <2>1
  <2> QED  BY Zenon, <1>1, <1>2, <1>3, <1>4, <1>5, <1>6, <2>2 DEF CountersTell
<1>10. \A u \in Bthreads : Round(u)' = Round(u)
  BY Zenon, <1>1, <1>2, <1>5, <1>6 DEF Round
<1>11. InStep'
  BY Zenon, <1>1, <1>2, <1>5, <1>10 DEF InStep
<1> QED  BY Zenon, <1>7, <1>8, <1>9, <1>11 DEF BarrierInv

\* block(), and condition_broadcast() taking a thread out of the queue.
LEMMA SleepKeepsInv ==
    ASSUME BarrierInv, NEW t \in Bthreads, BarrierBlock(t) \/ BarrierWake(t)
    PROVE  BarrierInv'
<1> USE DEF InsideBarrier, BarrierWait, Beyond
<1>1. /\ BarrierTypeOK /\ AllArrivedIsBlocked /\ CountersTell /\ InStep
      /\ stage \in [Bthreads -> BarrierStages] /\ all_arrived \in Seq(Bthreads)
  BY Zenon DEF BarrierInv, BarrierTypeOK
<1>2. UNCHANGED <<mutex, count1, count2, countUp, upward, goal, bvar>>
  BY Zenon DEF BarrierBlock, BarrierWake, counters, testVars
<1>3. PICK u \in Bthreads, step \in {"blocked", "relock"} :
        /\ stage' = [stage EXCEPT ![u] = step]
        /\ stage[u] \in {"gap", "blocked"}
        /\ AllArrivedIsBlocked' /\ all_arrived' \in Seq(Bthreads)
  <2>1. CASE BarrierBlock(t)
    <3>1. /\ all_arrived' = Append(all_arrived, t) /\ stage[t] = "gap"
          /\ t \notin Items(all_arrived)
          /\ stage' = [stage EXCEPT ![t] = "blocked"]
      BY Zenon, <1>1, <2>1 DEF BarrierBlock, BarrierGoto, AllArrivedIsBlocked
    <3>2. /\ all_arrived' \in Seq(Bthreads) /\ Distinct(all_arrived')
          /\ Items(all_arrived') = Items(all_arrived) \cup {t}
      BY <1>1, <3>1, AppendFacts DEF AllArrivedIsBlocked
    <3>3. {v \in Bthreads : stage'[v] = "blocked"}
            = {v \in Bthreads : stage[v] = "blocked"} \cup {t}
      BY Zenon, <1>1, <3>1
    <3> QED  BY Zenon, <1>1, <3>1, <3>2, <3>3 DEF AllArrivedIsBlocked
  <2>2. CASE BarrierWake(t)
    <3> DEFINE u == Head(all_arrived)
    <3>1. /\ all_arrived # <<>> /\ all_arrived' = Tail(all_arrived)
          /\ stage' = [stage EXCEPT ![u] = "relock"]
      BY Zenon, <2>2 DEF BarrierWake, BarrierGoto
    <3>2. /\ all_arrived' \in Seq(Bthreads) /\ Distinct(all_arrived')
          /\ u \in Bthreads
          /\ Items(all_arrived') = Items(all_arrived) \ {u}
          /\ u = all_arrived[1] /\ Len(all_arrived) \in Nat
          /\ Len(all_arrived) >= 1
      BY Zenon, <1>1, <3>1, TailFacts DEF AllArrivedIsBlocked
    <3>3. stage[u] = "blocked"
      BY <1>1, <3>2 DEF AllArrivedIsBlocked, Items
    <3>4. {v \in Bthreads : stage'[v] = "blocked"}
            = {v \in Bthreads : stage[v] = "blocked"} \ {u}
      BY Zenon, <1>1, <3>1, <3>2
    <3> QED  BY Zenon, <1>1, <3>1, <3>2, <3>3, <3>4 DEF AllArrivedIsBlocked
  <2> QED  BY Zenon, <2>1, <2>2
<1>4. BarrierTypeOK'
  BY Zenon, <1>1, <1>2, <1>3 DEF BarrierTypeOK, BarrierStages
<1>5. Arrived' = Arrived
  BY Zenon, <1>1, <1>2, <1>3 DEF Arrived
<1>6. CountersTell'
  BY Zenon, <1>1, <1>2, <1>3, <1>5 DEF CountersTell
<1>7. \A v \in Bthreads : Round(v)' = Round(v)
  BY Zenon, <1>1, <1>2, <1>3, <1>5 DEF Round
<1>8. InStep'
  BY Zenon, <1>1, <1>2, <1>3, <1>7 DEF InStep
<1> QED  BY Zenon, <1>3, <1>4, <1>6, <1>8 DEF BarrierInv

\* The last thread turns the barrier round: nobody has arrived at the next one.
LEMMA FinishKeepsInv ==
    ASSUME Counts(Bthreads), BarrierInv, NEW t \in Bthreads, BarrierFinish(t)
    PROVE  BarrierInv'
<1> USE DEF InsideBarrier, BarrierWait, Beyond
<1>1. /\ BarrierTypeOK /\ AllArrivedIsBlocked /\ CountersTell /\ InStep
      /\ stage \in [Bthreads -> BarrierStages]
      /\ upward \in [Bthreads -> BOOLEAN] /\ countUp \in BOOLEAN
      /\ NoHolder \notin Bthreads /\ Bthreads # {}
  BY Zenon, BarrierAssumption DEF BarrierInv, BarrierTypeOK
<1>2. /\ stage[t] = "broadcast" /\ stage' = [stage EXCEPT ![t] = goal[t]]
      /\ mutex = t /\ mutex' = NoHolder /\ countUp' = ~upward[t]
      /\ UNCHANGED <<all_arrived, upward, goal, bvar>>
  BY Zenon, <1>1 DEF BarrierFinish, BarrierGoto, testVars, CountersTell
<1>3. /\ Arrived = Bthreads /\ upward[t] = countUp /\ goal[t] = Beyond(countUp)
      /\ countUp' = ~countUp
  BY Zenon, <1>1, <1>2 DEF CountersTell, Arrived, InStep
<1>4. Cardinality(Arrived) = N /\ N \in Nat
  BY Zenon, <1>3, ArrivedCount
<1>5. \A u \in Bthreads : InsideBarrier(u) /\ upward[u] = countUp
  BY Zenon, <1>3 DEF Arrived
<1>6. Arrived' = {} /\ Cardinality({}) = 0
  <2>1. \A u \in Bthreads : upward'[u] # countUp'
    BY Zenon, <1>1, <1>2, <1>3, <1>5
  <2> QED  BY Zenon, <2>1 DEF Arrived, Counts
<1>7. /\ count1' = IF countUp THEN N ELSE 0
      /\ count2' = IF countUp THEN N ELSE 0
  BY SMTT(30), <1>1, <1>3, <1>4 DEF BarrierFinish, CountersTell
<1>8. AllArrivedIsBlocked' /\ stage' \in [Bthreads -> BarrierStages]
  BY Zenon, <1>1, <1>2, <1>3, KeepsAllArrived DEF BarrierGoto, BarrierStages
<1>9. BarrierTypeOK'
  BY <1>1, <1>2, <1>3, <1>4, <1>7, <1>8 DEF BarrierTypeOK
<1>10. CountersTell'
  <2>1. \A u \in Bthreads : stage'[u] # "broadcast"
    BY Zenon, <1>1, <1>2, <1>3 DEF CountersTell
  <2>2. /\ mutex' = NoHolder /\ Arrived' # Bthreads
        /\ \A u \in Bthreads : mutex' # u
    BY Zenon, <1>1, <1>2, <1>6
  <2>3. /\ count1' = IF countUp' THEN Cardinality(Arrived') ELSE N
        /\ count2' = IF countUp' THEN 0 ELSE N - Cardinality(Arrived')
    <3>1. CASE countUp = TRUE
      <4>1. countUp' = FALSE /\ count1' = N /\ count2' = N
        BY Zenon, <1>3, <1>7, <3>1
      <4> QED  BY <1>4, <1>6, <4>1
    <3>2. CASE countUp = FALSE
      <4>1. countUp' = TRUE /\ count1' = 0 /\ count2' = 0
        BY ZenonT(30), <1>3, <1>7, <3>2
      <4> QED  BY Zenon, <1>4, <1>6, <4>1
    <3> QED  BY Zenon, <1>1, <3>1, <3>2
  <2> QED  BY Zenon, <2>1, <2>2, <2>3 DEF CountersTell
<1>11. InStep'
  <2>1. \A u, v \in Bthreads : bvar[u] = bvar[v]
    BY <1>1, <1>3, <1>5 DEF InStep, Round, BarrierTypeOK
  <2>2. \A u \in Bthreads : Round(u)' = bvar[u]
    BY Zenon, <1>1, <1>2, <1>3, <1>5, <1>6 DEF Round
  <2>3. ASSUME NEW u \in Bthreads
        PROVE  /\ stage'[u] # Beyond(countUp')
               /\ stage'[u] \notin {"enter", "exited"}
               /\ InsideBarrier(u)' => goal'[u] = Beyond(upward'[u])
    BY Zenon, <1>1, <1>2, <1>3, <1>5 DEF InStep
  <2> QED  BY SMTT(30), <1>2, <2>1, <2>2, <2>3 DEF InStep
<1> QED  BY Zenon, <1>8, <1>9, <1>10, <1>11 DEF BarrierInv

\* A woken thread of the present barrier sleeps again; one of the previous
\* barrier leaves.
LEMMA RecheckKeepsInv ==
    ASSUME Counts(Bthreads), BarrierInv, NEW t \in Bthreads, Recheck(t)
    PROVE  BarrierInv'
<1> USE DEF InsideBarrier, BarrierWait, Beyond
<1>1. /\ BarrierTypeOK /\ AllArrivedIsBlocked /\ CountersTell /\ InStep
      /\ stage \in [Bthreads -> BarrierStages]
      /\ upward \in [Bthreads -> BOOLEAN] /\ countUp \in BOOLEAN
  BY Zenon DEF BarrierInv, BarrierTypeOK
<1>2. /\ stage[t] = "relock" /\ mutex = NoHolder
      /\ UNCHANGED <<all_arrived, count1, count2, countUp, upward, goal, bvar>>
      /\ Loop(t, upward[t], IF upward[t] THEN count1 < N ELSE count2 > 0)
  BY Zenon DEF Recheck, counters, testVars
<1> DEFINE step == IF upward[t] = countUp THEN "gap" ELSE goal[t]
<1>3. /\ stage' = [stage EXCEPT ![t] = step] /\ UNCHANGED mutex
      /\ goal[t] = Beyond(upward[t])
  <2>1. Cardinality(Arrived) \in Nat /\ N \in Nat /\ Cardinality(Arrived) < N
    BY SMTT(20), <1>1, <1>2, ArrivedCount DEF CountersTell, Arrived
  <2>2. CASE upward[t] = countUp
    BY SMTT(20), <1>1, <1>2, <2>1, <2>2
       DEF CountersTell, Loop, BarrierGoto, InStep
  <2>3. CASE upward[t] # countUp
    BY <1>1, <1>2, <2>1, <2>3
       DEF CountersTell, Loop, BarrierGoto, InStep
  <2> QED  BY Zenon, <2>2, <2>3
<1>4. AllArrivedIsBlocked' /\ stage' \in [Bthreads -> BarrierStages]
  BY Zenon, <1>1, <1>2, <1>3, KeepsAllArrived DEF BarrierGoto, BarrierStages
<1>5. BarrierTypeOK'
  BY Zenon, <1>1, <1>2, <1>3, <1>4 DEF BarrierTypeOK
<1>6. Arrived' = Arrived
  BY Zenon, <1>1, <1>2, <1>3 DEF Arrived
<1>7. CountersTell'
  BY Zenon, <1>1, <1>2, <1>3, <1>6 DEF CountersTell
<1>8. \A u \in Bthreads : Round(u)' = Round(u)
  BY Zenon, <1>1, <1>2, <1>3, <1>6 DEF Round
<1>9. InStep'
  BY ZenonT(30), <1>1, <1>2, <1>3, <1>8 DEF InStep
<1> QED  BY Zenon, <1>4, <1>5, <1>7, <1>9 DEF BarrierInv

\* Every step of the test keeps the invariant.
LEMMA BarrierNextInv ==
    ASSUME Counts(Bthreads)
    PROVE  BarrierInv /\ [BarrierNext]_barrierVars => BarrierInv'
<1> SUFFICES ASSUME BarrierInv, [BarrierNext]_barrierVars PROVE BarrierInv'
  BY Zenon
<1>1. CASE UNCHANGED barrierVars
  BY <1>1
     DEF barrierVars, counters, testVars, BarrierInv, BarrierTypeOK,
         AllArrivedIsBlocked, CountersTell, 
              InStep, Round, Arrived, InsideBarrier
<1>2. CASE BarrierNext
  BY Zenon, <1>2, TestKeepsInv, ArriveKeepsInv, SleepKeepsInv, FinishKeepsInv,
     RecheckKeepsInv
     DEF BarrierNext, BthreadStep, BarrierStep
<1> QED  BY Zenon, <1>1, <1>2

\* Equal rounds are equal values for a thread that checks.
LEMMA ArrivedInSync == BarrierInv => InSync
  BY Zenon DEF BarrierInv, InStep, InSync, Round, Beyond, BarrierTypeOK

\* The step that leaves t asleep at a complete barrier is t's own block().
LEMMA OnlyBlockMisses ==
    ASSUME Counts(Bthreads), BarrierInv, BarrierInv', BarrierNext,
           NEW t \in Bthreads, ~BarrierMissed(t), BarrierMissed(t)'
    PROVE  BarrierBlock(t)
<1>1. PICK u \in Bthreads : BthreadStep(u)
  BY Zenon DEF BarrierNext
<1>2. SUFFICES ASSUME ~BarrierBlock(t) PROVE FALSE
  BY Zenon
<1> USE DEF InsideBarrier, BarrierWait
<1>3. /\ stage \in [Bthreads -> BarrierStages]
      /\ upward \in [Bthreads -> BOOLEAN] /\ countUp \in BOOLEAN
      /\ upward' \in [Bthreads -> BOOLEAN] /\ countUp' \in BOOLEAN
      /\ AllArrivedIsBlocked /\ CountersTell /\ CountersTell' /\ InStep
  BY Zenon DEF BarrierInv, BarrierTypeOK
<1>4. /\ stage'[t] = "blocked" /\ upward'[t] # countUp'
      /\ \A v \in Bthreads : stage'[v] # "broadcast"
  <2>1. /\ stage'[t] = "blocked" /\ Over(t)'
        /\ \A v \in Bthreads : stage'[v] # "broadcast"
    BY Zenon DEF BarrierMissed
  <2>2. Arrived' \subseteq Bthreads /\ Arrived' # Bthreads
    BY Zenon, <1>3, <2>1 DEF CountersTell, BarrierTypeOK, BarrierInv, Arrived
  <2>3. Cardinality(Arrived') \in Nat /\ N \in Nat /\ Cardinality(Arrived') < N
    BY <2>2, ArrivedCount
  <2> QED  BY <1>3, <2>1, <2>3 DEF CountersTell, Over
<1>5. ASSUME ~BarrierWake(u)
      PROVE  /\ \A v \in Bthreads \ {u} :
                  stage'[v] = stage[v] /\ upward'[v] = upward[v]
             /\ stage'[u] = "blocked" => BarrierBlock(u)
             /\ stage[u] = "broadcast" => BarrierFinish(u)
             /\ countUp' # countUp => BarrierFinish(u)
  <2>1. goal[u] # "blocked"
    BY Zenon DEF BarrierInv, BarrierTypeOK
  <2> QED  BY Zenon, <1>1, <1>3, <1>5, <2>1
              DEF BthreadStep, BarrierStep, Update, Check, Arrive,
                  BarrierBlock, BarrierFinish, Recheck,
                  Loop, BarrierGoto, counters
<1>6. ~BarrierWake(u)
  <2>1. SUFFICES ASSUME BarrierWake(u) PROVE FALSE
    BY Zenon
  <2>2. /\ all_arrived # <<>>
        /\ stage' = [stage EXCEPT ![Head(all_arrived)] = "relock"]
        /\ stage[u] = "broadcast"
    BY Zenon, <2>1 DEF BarrierWake, BarrierGoto
  <2>3. /\ Head(all_arrived) = all_arrived[1] /\ Len(all_arrived) \in Nat
        /\ Len(all_arrived) >= 1 /\ Head(all_arrived) \in Bthreads
    BY Zenon, <2>2, TailFacts DEF BarrierInv, BarrierTypeOK
  <2>4. stage[Head(all_arrived)] = "blocked"
    BY <1>3, <2>3 DEF AllArrivedIsBlocked, Items
  <2> QED  BY Zenon, <1>3, <1>4, <2>2, <2>3, <2>4
<1>7. stage[t] = "blocked" /\ upward'[t] = upward[t]
  BY Zenon, <1>2, <1>4, <1>5, <1>6
<1>8. ~BarrierFinish(u)
  <2>1. all_arrived # <<>>
    BY <1>3, <1>7, EmptyFacts DEF AllArrivedIsBlocked, Items
  <2> QED  BY Zenon, <2>1 DEF BarrierFinish
<1>9. countUp' = countUp /\ \A v \in Bthreads : stage[v] # "broadcast"
  BY Zenon, <1>4, <1>5, <1>6, <1>8
<1>10. Over(t)
  BY SMTT(30), <1>3, <1>4, <1>7, <1>9, ArrivedCount DEF CountersTell, Over
<1> QED  BY Zenon, <1>7, <1>9, <1>10 DEF BarrierMissed

-----------------------------------------------------------------------------
(* The forks *)

\* Sets of philosophers can be counted, one by one.
LEMMA PhilsCount ==
    ASSUME Counts(Phils), NEW S, S \subseteq Phils
    PROVE  /\ Cardinality(S) \in 0 .. Cardinality(Phils)
           /\ Cardinality(Phils) \in Nat /\ Cardinality({}) = 0
           /\ (Cardinality(S) = 0) <=> (S = {})
           /\ \A p \in S : Cardinality(S \ {p}) = Cardinality(S) - 1
           /\ \A p \in Phils \ S : Cardinality(S \cup {p}) = Cardinality(S) + 1
           /\ \A p \in Phils : S \subseteq {p} => Cardinality(S) <= 1
           /\ Cardinality(S) <= 1 => \A p, q \in S : p = q
<1>1. /\ Cardinality(S) \in Nat /\ Cardinality(Phils) \in Nat
      /\ Cardinality(S) <= Cardinality(Phils) /\ Cardinality({}) = 0
      /\ (Cardinality(S) = 0) <=> (S = {})
      /\ \A p \in S : Cardinality(S \ {p}) = Cardinality(S) - 1
      /\ \A p \in Phils \ S : Cardinality(S \cup {p}) = Cardinality(S) + 1
  BY Zenon DEF Counts
<1>2. ASSUME NEW p \in Phils, S \subseteq {p} PROVE Cardinality(S) <= 1
  <2>1. Cardinality({}) = 0 /\ Cardinality({p}) = 1 /\ (S = {} \/ S = {p})
    BY SMTT(30), <1>2 DEF Counts
  <2> QED  BY <2>1
<1>3. ASSUME Cardinality(S) <= 1, NEW p \in S, NEW q \in S, p # q PROVE FALSE
  <2> DEFINE T == S \ {p}
  <2>1. T \in SUBSET Phils /\ q \in T
    BY Zenon, <1>3
  <2>2. Cardinality(T) = Cardinality(S) - 1
    BY Zenon, <1>1
  <2>3. Cardinality(T) \in Nat /\ Cardinality(T) # 0
    <3> HIDE DEF T
    <3> QED  BY Zenon, <2>1 DEF Counts
  <2> HIDE DEF T
  <2> QED  BY <1>1, <1>3, <2>2, <2>3
<1> QED  BY <1>1, <1>2, <1>3

\* do_init(): every fork is on the table.
LEMMA TableStarts ==
    ASSUME Counts(Phils)
    PROVE  TableInit => ForksCounted
<1> SUFFICES ASSUME TableInit PROVE ForksCounted
  BY Zenon
<1>1. /\ value = [f \in Forks |-> 1] /\ forkq = [f \in Forks |-> <<>>]
      /\ seat = [p \in Phils |-> "think"]
  BY Zenon DEF TableInit
<1>2. \A f \in Forks : Holders(f) = {} /\ InGap(f) = {} /\ Sleepers(f) = {}
  BY Zenon, <1>1 DEF Holders, InGap, Sleepers, HasA, HasB
<1>3. Cardinality({}) = 0 /\ Cardinality(Phils) \in Nat
  BY Zenon, PhilsCount
<1>4. \A f \in Forks : Wanted(f) = {}
  BY Zenon, <1>2 DEF Wanted
<1>5. \A f \in Forks :
        forkq[f] \in Seq(Phils) /\ Distinct(forkq[f]) /\ Items(forkq[f]) = {}
  <2>1. \A f \in Forks : forkq[f] = <<>> /\ <<>> \in Seq(Phils) /\ Len(<<>>) = 0
    BY Zenon, <1>1, EmptyFacts
  <2>2. Distinct(<<>>) /\ Items(<<>>) = {}
    BY DEF Distinct, Items
  <2> QED  BY Zenon, <2>1, <2>2
<1>6. TableTypeOK
  BY <1>1, <1>3, <1>5 DEF TableTypeOK, Seats
<1>7. ForkExclusive
  BY <1>2, <1>3 DEF ForkExclusive
<1>8. ValueCounts
  <2>1. \A f \in Forks : value[f] = 1 - Cardinality(Wanted(f))
    <3> TAKE f \in Forks
    <3>1. value[f] = 1
      BY Zenon, <1>1
    <3>2. Cardinality(Wanted(f)) = 0
      BY <1>3, <1>4, Zenon
    <3> QED  BY <3>1, <3>2
  <2> QED  BY Zenon, <1>2, <1>5, <2>1 DEF ValueCounts
<1> QED  BY Zenon, <1>6, <1>7, <1>8 DEF ForksCounted

\* The sets that a step leaves alone for fork g.
SameFork(g) ==
    /\ Holders(g)' = Holders(g) /\ InGap(g)' = InGap(g)
    /\ Sleepers(g)' = Sleepers(g)
    /\ forkq'[g] = forkq[g] /\ value'[g] = value[g]

\* What must be shown of a step that concerns fork f only.
LEMMA OneFork ==
    ASSUME Counts(Phils), ForksCounted, NEW f \in Forks,
           seat' \in [Phils -> Seats],
           forkq' \in [Forks -> Seq(Phils)], value' \in [Forks -> Int],
           \A g \in Forks \ {f} : SameFork(g),
           Cardinality(Holders(f)') <= 1,
           Distinct(forkq'[f]), Items(forkq'[f]) = Sleepers(f)',
           value'[f] = 1 - Cardinality(Wanted(f)')
    PROVE  ForksCounted'
<1>1. ForkExclusive /\ ValueCounts
  BY Zenon DEF ForksCounted
<1>2. ForkExclusive'
  BY Zenon, <1>1 DEF ForkExclusive, SameFork
<1>3. \A g \in Forks \ {f} : Wanted(g)' = Wanted(g)
  BY Zenon DEF Wanted, SameFork
<1>4. ValueCounts'
  BY Zenon, <1>1, <1>3 DEF ValueCounts, SameFork
<1>5. \A g \in Forks : value'[g] \in 1 - Cardinality(Phils) .. 1
  <2>1. TAKE g \in Forks
  <2>2. Wanted(g)' \subseteq Phils
    BY Zenon DEF Wanted, Holders, InGap, Sleepers
  <2>3. value'[g] = 1 - Cardinality(Wanted(g)')
    BY Zenon, <1>4 DEF ValueCounts
  <2>4. /\ Cardinality(Wanted(g)') \in 0 .. Cardinality(Phils)
        /\ Cardinality(Phils) \in Nat
    BY Zenon, <2>2, PhilsCount
  <2> QED  BY <2>3, <2>4
<1>6. TableTypeOK'
  BY Zenon, <1>5 DEF TableTypeOK
<1> QED  BY Zenon, <1>2, <1>4, <1>6 DEF ForksCounted

\* semaphore_down() on fork f: p has it, or goes to wait for it.
LEMMA DownCounts ==
    ASSUME Counts(Phils), ForksCounted,
           NEW p \in Phils, NEW f \in Forks, p \notin Wanted(f),
           value' = [value EXCEPT ![f] = @ - 1], UNCHANGED forkq,
           seat' \in [Phils -> Seats],
           \A g \in Forks \ {f} : SameFork(g),
           Sleepers(f)' = Sleepers(f),
           Holders(f)' = IF value'[f] < 0 THEN Holders(f) ELSE Holders(f) \cup {p},
           InGap(f)' = IF value'[f] < 0 THEN InGap(f) \cup {p} ELSE InGap(f)
    PROVE  ForksCounted'
<1>1. /\ ForkExclusive /\ ValueCounts
      /\ forkq \in [Forks -> Seq(Phils)] /\ value \in [Forks -> Int]
  BY PhilsCount DEF ForksCounted, TableTypeOK
<1>2. Wanted(f) \subseteq Phils /\ Holders(f) \subseteq Wanted(f)
  BY Zenon DEF Wanted, Holders, InGap, Sleepers
<1>3. Wanted(f)' = Wanted(f) \cup {p}
  BY Zenon DEF Wanted
<1>4. /\ Cardinality(Wanted(f)) \in Nat
      /\ Cardinality(Wanted(f)) = 0 => Wanted(f) = {}
      /\ Cardinality(Wanted(f) \cup {p}) = Cardinality(Wanted(f)) + 1
  BY <1>2, PhilsCount
<1>5. value[f] = 1 - Cardinality(Wanted(f)) /\ value'[f] = value[f] - 1
  BY Zenon, <1>1 DEF ValueCounts
<1>6. Cardinality(Holders(f)') <= 1
  <2>1. CASE value'[f] < 0
    BY Zenon, <1>1, <2>1 DEF ForkExclusive
  <2>2. CASE ~(value'[f] < 0)
    <3>1. Holders(f) = {}
      BY <1>2, <1>4, <1>5, <2>2
    <3>2. Holders(f)' \subseteq {p} /\ Holders(f)' \subseteq Phils
      BY Zenon, <2>2, <3>1
    <3> QED  BY Zenon, <3>2, PhilsCount
  <2> QED  BY Zenon, <2>1, <2>2
<1>7. value'[f] = 1 - Cardinality(Wanted(f)')
  BY <1>3, <1>4, <1>5
<1>8. Distinct(forkq'[f]) /\ Items(forkq'[f]) = Sleepers(f)'
  BY Zenon, <1>1 DEF ValueCounts
<1>9. forkq' \in [Forks -> Seq(Phils)] /\ value' \in [Forks -> Int]
  BY <1>1
<1> QED  BY Zenon, <1>6, <1>7, <1>8, <1>9, OneFork

\* block(): p is in the queue of fork f.
LEMMA BlockCounts ==
    ASSUME Counts(Phils), ForksCounted,
           NEW p \in Phils, NEW f \in Forks, p \in InGap(f),
           UNCHANGED value, forkq' = [forkq EXCEPT ![f] = Append(@, p)],
           seat' \in [Phils -> Seats],
           \A g \in Forks \ {f} : SameFork(g),
           p \notin Sleepers(f), Sleepers(f)' = Sleepers(f) \cup {p},
           Holders(f)' = Holders(f), InGap(f)' = InGap(f) \ {p}
    PROVE  ForksCounted'
<1>1. /\ ForkExclusive /\ ValueCounts
      /\ forkq \in [Forks -> Seq(Phils)] /\ value \in [Forks -> Int]
  BY PhilsCount DEF ForksCounted, TableTypeOK
<1>2. Wanted(f)' = Wanted(f)
  BY Zenon DEF Wanted
<1>3. /\ forkq[f] \in Seq(Phils) /\ Distinct(forkq[f])
      /\ Items(forkq[f]) = Sleepers(f)
      /\ forkq'[f] = Append(forkq[f], p)
  BY ZenonT(30), <1>1 DEF ValueCounts
<1>4. /\ forkq'[f] \in Seq(Phils) /\ Distinct(forkq'[f])
      /\ Items(forkq'[f]) = Sleepers(f)'
  BY <1>3, AppendFacts
<1>5. forkq' \in [Forks -> Seq(Phils)] /\ value' \in [Forks -> Int]
  BY Zenon, <1>1, <1>3, <1>4
<1>6. Cardinality(Holders(f)') <= 1 /\ value'[f] = 1 - Cardinality(Wanted(f)')
  BY Zenon, <1>1, <1>2 DEF ForkExclusive, ValueCounts
<1> QED  BY Zenon, <1>4, <1>5, <1>6, OneFork

\* semaphore_up() on fork f: p leaves it, and the first sleeper gets it.
LEMMA UpCounts ==
    ASSUME Counts(Phils), ForksCounted, NEW p \in Phils, NEW f \in Forks,
           p \in Holders(f), p \notin InGap(f), p \notin Sleepers(f),
           value' = [value EXCEPT ![f] = @ + 1],
           seat' \in [Phils -> Seats],
           \A g \in Forks \ {f} : SameFork(g),
           InGap(f)' = InGap(f),
           \/ /\ UNCHANGED forkq
              /\ Holders(f)' = Holders(f) \ {p} /\ Sleepers(f)' = Sleepers(f)
           \/ /\ forkq[f] # <<>> /\ forkq' = [forkq EXCEPT ![f] = Tail(@)]
              /\ Holders(f)' = (Holders(f) \ {p}) \cup {Head(forkq[f])}
              /\ Sleepers(f)' = Sleepers(f) \ {Head(forkq[f])}
    PROVE  ForksCounted'
<1>1. /\ ForkExclusive /\ ValueCounts
      /\ forkq \in [Forks -> Seq(Phils)] /\ value \in [Forks -> Int]
  BY PhilsCount DEF ForksCounted, TableTypeOK
<1>2. /\ Wanted(f) \subseteq Phils /\ p \in Wanted(f)
      /\ Holders(f) \subseteq Phils /\ Cardinality(Holders(f)) <= 1
  BY Zenon, <1>1 DEF Wanted, Holders, InGap, Sleepers, ForkExclusive
<1>3. Holders(f) \ {p} = {}
  BY SMTT(30), <1>2, PhilsCount
<1>4. /\ Cardinality(Wanted(f)) \in Nat
      /\ Cardinality(Wanted(f) \ {p}) = Cardinality(Wanted(f)) - 1
      /\ value'[f] = value[f] + 1 /\ value[f] = 1 - Cardinality(Wanted(f))
  BY <1>1, <1>2, PhilsCount DEF ValueCounts
<1>5. /\ forkq[f] \in Seq(Phils) /\ Distinct(forkq[f])
      /\ Items(forkq[f]) = Sleepers(f)
  BY Zenon, <1>1 DEF ValueCounts
<1>6. CASE /\ UNCHANGED forkq
           /\ Holders(f)' = Holders(f) \ {p} /\ Sleepers(f)' = Sleepers(f)
  <2>1. Wanted(f)' = Wanted(f) \ {p}
    BY Zenon, <1>6 DEF Wanted
  <2>2. Cardinality(Holders(f)') <= 1
    BY SMTT(30), <1>3, <1>6, PhilsCount
  <2>3. value'[f] = 1 - Cardinality(Wanted(f)')
    BY SMTT(30), <1>4, <2>1
  <2>4. /\ forkq' \in [Forks -> Seq(Phils)] /\ value' \in [Forks -> Int]
        /\ Distinct(forkq'[f]) /\ Items(forkq'[f]) = Sleepers(f)'
    BY <1>1, <1>5, <1>6
  <2> QED  BY Zenon, <2>2, <2>3, <2>4, OneFork
<1>7. CASE /\ forkq[f] # <<>> /\ forkq' = [forkq EXCEPT ![f] = Tail(@)]
           /\ Holders(f)' = (Holders(f) \ {p}) \cup {Head(forkq[f])}
           /\ Sleepers(f)' = Sleepers(f) \ {Head(forkq[f])}
  <2> DEFINE q == Head(forkq[f])
  <2>1. /\ q \in Phils /\ q = forkq[f][1] /\ Len(forkq[f]) \in Nat
        /\ Len(forkq[f]) >= 1
        /\ Tail(forkq[f]) \in Seq(Phils) /\ Distinct(Tail(forkq[f]))
        /\ Items(Tail(forkq[f])) = Items(forkq[f]) \ {q}
    BY ZenonT(30), <1>5, <1>7, TailFacts
  <2>2. q \in Sleepers(f)
    BY <1>5, <2>1 DEF Items
  <2> HIDE DEF q
  <2>3. Wanted(f)' = Wanted(f) \ {p}
    BY Zenon, <1>7, <2>2 DEF Wanted, q
  <2>4. Cardinality(Holders(f)') <= 1
    <3> DEFINE H == Holders(f)'
    <3>1. H \subseteq {q} /\ H \subseteq Phils
      BY Zenon, <1>3, <1>7, <2>1 DEF q
    <3> HIDE DEF H
    <3>2. \A r \in Phils : H \subseteq {r} => Cardinality(H) <= 1
      BY ZenonT(30), <3>1, PhilsCount
    <3> QED  BY Zenon, <2>1, <3>1, <3>2 DEF H
  <2>5. value'[f] = 1 - Cardinality(Wanted(f)')
    BY <1>4, <2>3
  <2>6. /\ forkq' \in [Forks -> Seq(Phils)] /\ value' \in [Forks -> Int]
        /\ Distinct(forkq'[f]) /\ Items(forkq'[f]) = Sleepers(f)'
    BY <1>1, <1>5, <1>7, <2>1 DEF q
  <2> QED  BY Zenon, <2>4, <2>5, <2>6, OneFork
<1> QED  BY Zenon, <1>6, <1>7

\* One philosopher moves, and the first waiter of the fork it puts down.
LEMMA TableNextInv ==
    ASSUME Counts(Phils)
    PROVE  ForksCounted /\ [TableNext]_tableVars => ForksCounted'
<1> SUFFICES ASSUME ForksCounted, [TableNext]_tableVars PROVE ForksCounted'
  BY Zenon
<1> USE DEF Holders, InGap, Sleepers, HasA, HasB, SameFork
<1>1. /\ seat \in [Phils -> Seats] /\ forkq \in [Forks -> Seq(Phils)]
      /\ value \in [Forks -> Int] /\ ValueCounts /\ ForkExclusive
  BY PhilsCount DEF ForksCounted, TableTypeOK
<1>2. \A p \in Phils :
        ForkA[p] \in Forks /\ ForkB[p] \in Forks /\ ForkA[p] # ForkB[p]
  BY Zenon, PhilosophersAssumption
<1>3. CASE UNCHANGED tableVars
  <2>1. \A g \in Forks : SameFork(g) /\ Wanted(g)' = Wanted(g)
    BY <1>3 DEF tableVars, Wanted
  <2> QED  BY ZenonT(30), <1>3, <2>1
              DEF tableVars, ForksCounted, TableTypeOK, ForkExclusive,
                  ValueCounts
<1>4. ASSUME NEW p \in Phils, GetHungry(p) \/ Eat(p) PROVE ForksCounted'
  <2>1. /\ UNCHANGED <<value, forkq>> /\ seat' \in [Phils -> Seats]
        /\ \A g \in Forks : SameFork(g) /\ Wanted(g)' = Wanted(g)
    BY <1>1, <1>4 DEF GetHungry, Eat, Wanted, Seats
  <2> QED  BY ZenonT(30), <2>1
              DEF ForksCounted, TableTypeOK, ForkExclusive, ValueCounts
<1>5. ASSUME NEW p \in Phils, TakeA(p) PROVE ForksCounted'
  <2> DEFINE f == ForkA[p]
  <2>1. /\ seat[p] = "downA" /\ value' = [value EXCEPT ![f] = @ - 1]
        /\ UNCHANGED forkq
        /\ seat' = [seat EXCEPT ![p] = IF value'[f] < 0 THEN "gapA" ELSE "downB"]
    BY Zenon, <1>5 DEF TakeA, Down
  <2>2. seat' \in [Phils -> Seats]
    BY Zenon, <1>1, <2>1 DEF Seats
  <2>3. p \notin Wanted(f)
    BY Zenon, <1>2, <2>1 DEF Wanted
  <2>4. \A g \in Forks \ {f} : SameFork(g)
    BY Zenon, <1>1, <1>2, <2>1
  <2>5. /\ Sleepers(f)' = Sleepers(f)
        /\ Holders(f)' = IF value'[f] < 0 THEN Holders(f) ELSE Holders(f) \cup {p}
        /\ InGap(f)' = IF value'[f] < 0 THEN InGap(f) \cup {p} ELSE InGap(f)
    BY Zenon, <1>1, <1>2, <2>1
  <2> HIDE DEF f, Holders, InGap, Sleepers, SameFork
  <2> QED  BY Zenon, <1>2, <2>1, <2>2, <2>3, <2>4, <2>5, DownCounts DEF f
<1>6. ASSUME NEW p \in Phils, TakeB(p) PROVE ForksCounted'
  <2> DEFINE f == ForkB[p]
  <2>1. /\ seat[p] = "downB" /\ value' = [value EXCEPT ![f] = @ - 1]
        /\ UNCHANGED forkq
        /\ seat' = [seat EXCEPT ![p] = IF value'[f] < 0 THEN "gapB" ELSE "eat"]
    BY Zenon, <1>6 DEF TakeB, Down
  <2>2. seat' \in [Phils -> Seats]
    BY Zenon, <1>1, <2>1 DEF Seats
  <2>3. p \notin Wanted(f)
    BY Zenon, <1>2, <2>1 DEF Wanted
  <2>4. \A g \in Forks \ {f} : SameFork(g)
    BY Zenon, <1>1, <1>2, <2>1
  <2>5. /\ Sleepers(f)' = Sleepers(f)
        /\ Holders(f)' = IF value'[f] < 0 THEN Holders(f) ELSE Holders(f) \cup {p}
        /\ InGap(f)' = IF value'[f] < 0 THEN InGap(f) \cup {p} ELSE InGap(f)
    BY ZenonT(30), <1>1, <1>2, <2>1
  <2> HIDE DEF f, Holders, InGap, Sleepers, SameFork
  <2> QED  BY Zenon, <1>2, <2>1, <2>2, <2>3, <2>4, <2>5, DownCounts DEF f
<1>7. ASSUME NEW p \in Phils, SleepA(p) \/ SleepB(p) PROVE ForksCounted'
  <2>1. PICK f \in Forks :
          \/ f = ForkA[p] /\ ForkBlock(p, f, "gapA", "blockedA")
          \/ f = ForkB[p] /\ ForkBlock(p, f, "gapB", "blockedB")
    BY <1>2, <1>7, Zenon DEF SleepA, SleepB
  <2>6. UNCHANGED value /\ forkq' = [forkq EXCEPT ![f] = Append(@, p)]
    BY <2>1, Zenon DEF ForkBlock
  <2>2. \/ /\ f = ForkA[p] /\ seat[p] = "gapA"
           /\ seat' = [seat EXCEPT ![p] = "blockedA"]
        \/ /\ f = ForkB[p] /\ seat[p] = "gapB"
           /\ seat' = [seat EXCEPT ![p] = "blockedB"]
    BY Zenon, <2>1 DEF ForkBlock
  <2>3. seat' \in [Phils -> Seats] /\ p \in InGap(f) /\ p \notin Sleepers(f)
    BY ZenonT(30), <1>1, <1>2, <2>2 DEF Seats
  <2>4. \A g \in Forks \ {f} : SameFork(g)
    BY SMTT(30), <1>1, <1>2, <2>6, <2>2
  <2>5. /\ Sleepers(f)' = Sleepers(f) \cup {p} /\ Holders(f)' = Holders(f)
        /\ InGap(f)' = InGap(f) \ {p}
    BY Zenon, <1>1, <1>2, <2>2
  <2> HIDE DEF Holders, InGap, Sleepers, SameFork
  <2> QED  BY Zenon, <2>6, <2>3, <2>4, <2>5, BlockCounts
<1>8. ASSUME NEW p \in Phils, PutA(p) \/ PutB(p) PROVE ForksCounted'
  <2>1. PICK f \in Forks, next \in {"upB", "think"} :
          /\ \/ f = ForkA[p] /\ seat[p] = "upA" /\ next = "upB"
             \/ f = ForkB[p] /\ seat[p] = "upB" /\ next = "think"
          /\ value' = [value EXCEPT ![f] = @ + 1]
          /\ \/ seat' = [seat EXCEPT ![p] = next] /\ UNCHANGED forkq
             \/ /\ forkq[f] # <<>> /\ forkq' = [forkq EXCEPT ![f] = Tail(@)]
                /\ seat' = [seat EXCEPT ![p] = next,
                                       ![Head(forkq[f])] = Woken(Head(forkq[f]))]
    BY Zenon, <1>2, <1>8 DEF PutA, PutB, Up
  <2>2. p \in Holders(f) /\ p \notin InGap(f) /\ p \notin Sleepers(f)
    BY Zenon, <1>1, <1>2, <2>1
  <2>3. CASE seat' = [seat EXCEPT ![p] = next] /\ UNCHANGED forkq
    <3>1. seat' \in [Phils -> Seats] /\ \A g \in Forks \ {f} : SameFork(g)
      BY SMTT(20), <1>1, <1>2, <2>1, <2>3 DEF Seats
    <3>2. /\ InGap(f)' = InGap(f) /\ Holders(f)' = Holders(f) \ {p}
          /\ Sleepers(f)' = Sleepers(f)
      BY <1>1, <1>2, <2>1, <2>3
    <3> HIDE DEF Holders, InGap, Sleepers, SameFork
    <3> QED  BY ZenonT(30), <2>1, <2>2, <2>3, <3>1, <3>2, UpCounts
  <2>4. CASE /\ forkq[f] # <<>> /\ forkq' = [forkq EXCEPT ![f] = Tail(@)]
             /\ seat' = [seat EXCEPT ![p] = next,
                                    ![Head(forkq[f])] = Woken(Head(forkq[f]))]
    <3>1. PICK q \in Phils : q = Head(forkq[f]) /\ q \in Sleepers(f)
      <4>1. /\ forkq[f] \in Seq(Phils) /\ Items(forkq[f]) = Sleepers(f)
        BY Zenon, <1>1 DEF ValueCounts
      <4>2. /\ Head(forkq[f]) \in Phils /\ Head(forkq[f]) = forkq[f][1]
            /\ Len(forkq[f]) \in Nat /\ Len(forkq[f]) >= 1
        BY Zenon, <2>4, <4>1, TailFacts
      <4>3. Head(forkq[f]) \in Items(forkq[f])
        BY <4>2 DEF Items
      <4> QED  BY Zenon, <4>1, <4>2, <4>3
    <3>2. /\ \/ f = ForkA[q] /\ seat[q] = "blockedA" /\ Woken(q) = "downB"
             \/ f = ForkB[q] /\ seat[q] = "blockedB" /\ Woken(q) = "eat"
          /\ seat' = [seat EXCEPT ![p] = next, ![q] = Woken(q)] /\ p # q
      BY Zenon, <2>1, <2>4, <3>1 DEF Woken
    <3>3. seat' \in [Phils -> Seats]
      BY Zenon, <1>1, <2>1, <3>2 DEF Seats
    <3>4. \A g \in Forks \ {f} : SameFork(g)
      <4> SUFFICES ASSUME NEW g \in Forks \ {f} PROVE SameFork(g)
        BY Zenon
      <4>1. \A r \in Phils \ {p, q} : seat'[r] = seat[r]
        BY Zenon, <1>1, <3>2
      <4>2. seat'[p] = next /\ seat'[q] = Woken(q)
        BY Zenon, <1>1, <3>2
      <4>3. \/ f = ForkA[p] /\ seat[p] = "upA" /\ seat'[p] = "upB"
            \/ f = ForkB[p] /\ seat[p] = "upB" /\ seat'[p] = "think"
        BY Zenon, <2>1, <4>2
      <4>4. \/ f = ForkA[q] /\ seat[q] = "blockedA" /\ seat'[q] = "downB"
            \/ f = ForkB[q] /\ seat[q] = "blockedB" /\ seat'[q] = "eat"
        BY Zenon, <3>2, <4>2
      <4>5. ASSUME NEW r \in Phils
            PROVE  /\ r \in Holders(g)' <=> r \in Holders(g)
                   /\ r \in InGap(g)' <=> r \in InGap(g)
                   /\ r \in Sleepers(g)' <=> r \in Sleepers(g)
        <5>1. CASE r = p
          BY Zenon, <1>2, <4>3, <5>1
        <5>2. CASE r = q
          BY Zenon, <1>2, <4>4, <5>2
        <5>3. CASE r \in Phils \ {p, q}
          BY Zenon, <4>1, <5>3
        <5> QED  BY Zenon, <5>1, <5>2, <5>3
      <4>6. /\ Holders(g)' = Holders(g) /\ InGap(g)' = InGap(g)
            /\ Sleepers(g)' = Sleepers(g)
        BY ZenonT(30), <4>5
      <4> QED  BY Zenon, <1>1, <2>1, <2>4, <4>6
    <3>5. /\ InGap(f)' = InGap(f) /\ Holders(f)' = (Holders(f) \ {p}) \cup {q}
          /\ Sleepers(f)' = Sleepers(f) \ {q}
      <4>1. \A r \in Phils \ {p, q} : seat'[r] = seat[r]
        BY Zenon, <1>1, <3>2
      <4>2. seat'[p] = next /\ seat'[q] = Woken(q)
        BY Zenon, <1>1, <3>2
      <4>3. \/ f = ForkA[p] /\ seat[p] = "upA" /\ seat'[p] = "upB"
            \/ f = ForkB[p] /\ seat[p] = "upB" /\ seat'[p] = "think"
        BY Zenon, <2>1, <4>2
      <4>4. \/ f = ForkA[q] /\ seat[q] = "blockedA" /\ seat'[q] = "downB"
            \/ f = ForkB[q] /\ seat[q] = "blockedB" /\ seat'[q] = "eat"
        BY Zenon, <3>2, <4>2
      <4>5. ASSUME NEW r \in Phils
            PROVE  /\ r \in Holders(f)' <=> (r \in Holders(f) /\ r # p) \/ r = q
                   /\ r \in InGap(f)' <=> r \in InGap(f)
                   /\ r \in Sleepers(f)' <=> r \in Sleepers(f) /\ r # q
        <5>1. CASE r = p
          BY Zenon, <1>2, <3>2, <4>3, <5>1
        <5>2. CASE r = q
          BY Zenon, <1>2, <4>4, <5>2
        <5>3. CASE r \in Phils \ {p, q}
          BY Zenon, <4>1, <5>3
        <5> QED  BY Zenon, <5>1, <5>2, <5>3
      <4> QED  BY ZenonT(30), <4>5
    <3> HIDE DEF Holders, InGap, Sleepers, SameFork
    <3> QED  BY Zenon, <2>1, <2>2, <2>4, <3>1, <3>3, <3>4, <3>5, UpCounts
  <2> QED  BY Zenon, <2>1, <2>3, <2>4
<1> QED  BY Zenon, <1>3, <1>4, <1>5, <1>6, <1>7, <1>8
            DEF TableNext, Philosophize

-----------------------------------------------------------------------------
(* The theorems on the barrier and the forks *)

INSTANCE FiniteSetTheorems

\* The library's theorems, for a finite set.
LEMMA FiniteCounts == ASSUME NEW S, IsFiniteSet(S) PROVE Counts(S)
<1>1. Cardinality({}) = 0 /\ \A x : Cardinality({x}) = 1
  BY Zenon, FS_EmptySet, FS_Singleton
<1>2. Cardinality(S) \in Nat
  BY Zenon, FS_CardinalityType
<1>3. ASSUME NEW T \in SUBSET S
      PROVE  /\ Cardinality(T) \in Nat /\ Cardinality(T) <= Cardinality(S)
             /\ Cardinality(T) = Cardinality(S) => T = S
             /\ Cardinality(T) = 0 <=> T = {}
             /\ \A x \in S :
                   /\ x \notin T => Cardinality(T \cup {x}) = Cardinality(T) + 1
                   /\ x \in T => Cardinality(T \ {x}) = Cardinality(T) - 1
  <2>1. /\ IsFiniteSet(T) /\ Cardinality(T) <= Cardinality(S)
        /\ Cardinality(T) = Cardinality(S) => T = S
    BY Zenon, FS_Subset
  <2>2. Cardinality(T) \in Nat /\ (Cardinality(T) = 0 <=> T = {})
    BY Zenon, <2>1, FS_CardinalityType, FS_EmptySet
  <2>3. ASSUME NEW x \in S
        PROVE  /\ x \notin T => Cardinality(T \cup {x}) = Cardinality(T) + 1
               /\ x \in T => Cardinality(T \ {x}) = Cardinality(T) - 1
    BY Zenon, <2>1, FS_AddElement, FS_RemoveElement
  <2> QED  BY Zenon, <2>1, <2>2, <2>3
<1> QED  BY Zenon, <1>1, <1>2, <1>3 DEF Counts

\* The threads of barrier_test() are so many.
LEMMA BthreadsCount == Counts(Bthreads)
  BY Zenon, FiniteCounts, BarrierAssumption

\* And so are the philosophers.
LEMMA EveryPhilCounts == Counts(Phils)
  BY Zenon, FiniteCounts, PhilosophersAssumption

\* barrier_wait() and the assertion of barrier_test(), for any set of threads
\* and any number of rounds: whoever is between two barriers sees the same
\* value everywhere, and the counters tell who has arrived.
THEOREM BarrierStaysInSync == BarrierSpec => []BarrierInSync
<1>1. BarrierSpec => []BarrierInv
  BY BthreadsCount, BarrierStarts, BarrierNextInv, PTL DEF BarrierSpec
<1> QED
  BY <1>1, ArrivedInSync, PTL DEF BarrierInSync

\* condition_broadcast() misses nobody who was in the queue or joined it while
\* it was being emptied: a thread is left asleep only by its own late block().
THEOREM BroadcastMissesOnlyLateBlock == BarrierSpec => BarrierMissedOnlyByBlock
<1>1. BarrierSpec => []BarrierInv
  BY BthreadsCount, BarrierStarts, BarrierNextInv, PTL DEF BarrierSpec
<1>2. BarrierInv /\ BarrierInv' /\ [BarrierNext]_barrierVars
      => [\A t \in Bthreads : ~BarrierMissed(t) /\ BarrierMissed(t)'
            => BarrierBlock(t)]_barrierVars
  BY Zenon, BthreadsCount, OnlyBlockMisses
<1> QED
  BY <1>1, <1>2, PTL DEF BarrierSpec, BarrierMissedOnlyByBlock

\* semaphore_down() and semaphore_up() on any table: a fork has one holder at
\* most, and its value is one less for everybody who has it, waits for it or
\* is about to wait.
THEOREM ForksStayCounted == TableSpec => []ForksCounted
  BY EveryPhilCounts, TableStarts, TableNextInv, PTL DEF TableSpec
=============================================================================
