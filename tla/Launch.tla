------------------------------- MODULE Launch -------------------------------
(***************************************************************************)
(* Launching processes: create_process() of kernel/pcb.c, which makes a    *)
(* caller wait while the processes that run leave too few page frames, the *)
(* loader thread of kernel/th1.c and the part of exit() that counts.       *)
(*                                                                         *)
(* Task 0 is the loader thread, task p the p-th process created.  The lock *)
(* is the sleep lock of Lock.tla: here the queue of its waiters, with the  *)
(* holder in front.                                                        *)
(***************************************************************************)
EXTENDS Naturals, Sequences, FiniteSets

CONSTANTS
    PAGEABLE_PAGES,
    AVERAGE_PAGES_PER_PROCESS,
    MAX_WAITS,  \* the rounds that fit into the 2000 ms of the wait loop
    Word,       \* uint32_t counts modulo Word
    NStacks     \* kernel stacks left for processes: they are never given back

ASSUME LaunchAssumption ==
    /\ {PAGEABLE_PAGES, AVERAGE_PAGES_PER_PROCESS} \subseteq Nat \ {0}
    /\ {MAX_WAITS, NStacks, Word} \subseteq Nat
    /\ PAGEABLE_PAGES < Word

Loader == 0
Processes == 1 .. NStacks
Callers == Processes \cup {Loader}

VARIABLES
    place,      \* where each task is
    queue,      \* load_process_lock_debug: its holder, then its waiters
    running_processes,
    wait_load,
    gate,       \* the holder's page_space_available and wait_counter
    created     \* how many processes have got a PCB and a stack

launchVars == <<place, queue, running_processes, wait_load, gate, created>>

Launching == {"lock", "look", "gate", "sleep", "nap", "count", "alloc", "vmem"}
Exists(p) == place[p] \in Launching \cup {"run"}

\* running_processes is set to zero by the first call, first_process: here it
\* starts at zero, as the data segment does.
Init ==
    /\ place = [t \in Callers |-> IF t = Loader THEN "boot" ELSE "none"]
    /\ queue = <<>>
    /\ running_processes = 0
    /\ wait_load = FALSE
    /\ gate = [space |-> 0, waits |-> 0]
    /\ created = 0

Holds(t) == queue # <<>> /\ Head(queue) = t
Goes(t, from, to) == place[t] = from /\ place' = [place EXCEPT ![t] = to]

\* loader_thread(): readdir()'s result is not looked at, so whether the
\* sector on its stack names a process is anybody's guess; it loads or exits.
LoaderStarts ==
    /\ Goes(Loader, "boot", "lock") \/ Goes(Loader, "boot", "exited")
    /\ queue' = IF place'[Loader] = "lock" THEN Append(queue, Loader) ELSE queue
    /\ UNCHANGED <<running_processes, wait_load, gate, created>>

\* A process (the shell) calls loadproc(), and with it create_process().
Loadproc(p) ==
    /\ Goes(p, "run", "lock")
    /\ queue' = Append(queue, p)
    /\ UNCHANGED <<running_processes, wait_load, gate, created>>

AcquireAlways(t) ==
    /\ Goes(t, "lock", "look")
    /\ UNCHANGED <<queue, running_processes, wait_load, gate, created>>

\* lock_acquire() returns.
Acquire(t) ==
    /\ Holds(t)
    /\ Goes(t, "lock", "look")
    /\ UNCHANGED <<queue, running_processes, wait_load, gate, created>>

Space ==
    (PAGEABLE_PAGES + Word
        - ((running_processes * AVERAGE_PAGES_PER_PROCESS) % Word)) % Word

Look(t) ==
    /\ Goes(t, "look", "gate")
    /\ gate' = [space |-> Space, waits |-> 0]
    /\ UNCHANGED <<queue, running_processes, wait_load, created>>

Enough == gate.space >= AVERAGE_PAGES_PER_PROCESS + 1

\* Too few pages: the space is computed again, before the sleep, not after.
Wait(t) ==
    /\ ~Enough
    /\ Goes(t, "gate", "sleep")
    /\ gate' = [gate EXCEPT !.space = Space]
    /\ wait_load' = TRUE
    /\ UNCHANGED <<queue, running_processes, created>>

Back(t) == IF t = Loader THEN "exited" ELSE "run"

WokenKeepsLock(t) ==
    /\ gate' = [gate EXCEPT !.waits = @ + 1]
    /\ Goes(t, "sleep", IF gate'.waits > MAX_WAITS THEN Back(t) ELSE "gate")
    /\ UNCHANGED <<queue, running_processes, wait_load, created>>

\* msleep() is over: another round, or the call fails.
Woken(t) ==
    /\ gate' = [gate EXCEPT !.waits = @ + 1]
    /\ IF gate'.waits > MAX_WAITS
       THEN Goes(t, "sleep", Back(t)) /\ queue' = Tail(queue)
       ELSE Goes(t, "sleep", "gate") /\ UNCHANGED queue
    /\ UNCHANGED <<running_processes, wait_load, created>>

\* Enough pages: at once, or after a nap when this call or an earlier one
\* that failed has waited.
Pass(t) ==
    /\ Enough
    /\ Goes(t, "gate", IF wait_load THEN "nap" ELSE "count")
    /\ UNCHANGED <<queue, running_processes, wait_load, gate, created>>

NapOver(t) ==
    /\ Goes(t, "nap", "count")
    /\ wait_load' = FALSE
    /\ UNCHANGED <<queue, running_processes, gate, created>>

Count(t) ==
    /\ Goes(t, "count", "alloc")
    /\ running_processes' = (running_processes + 1) % Word
    /\ UNCHANGED <<queue, wait_load, gate, created>>

\* alloc_pcb() and create_pcb_common(): with no stack left the kernel stops.
Alloc(t) ==
    /\ IF created = NStacks
       THEN place' = [u \in Callers |-> "panic"] /\ place[t] = "alloc"
            /\ UNCHANGED created
       ELSE Goes(t, "alloc", "vmem") /\ created' = created + 1
    /\ UNCHANGED <<queue, running_processes, wait_load, gate>>

\* setup_process_vmem() is done: queue_insert() and lock_release().
Insert(t) ==
    /\ place[t] = "vmem"
    /\ place' = [place EXCEPT ![t] = Back(t), ![created] = "run"]
    /\ queue' = Tail(queue)
    /\ UNCHANGED <<running_processes, wait_load, gate, created>>

\* exit() of a process.
Exit(p) ==
    /\ Goes(p, "run", "exited")
    /\ running_processes' = (running_processes + Word - 1) % Word
    /\ UNCHANGED <<queue, wait_load, gate, created>>

Step(t) ==
    \/ Acquire(t) \/ Look(t) \/ Wait(t) \/ Woken(t) \/ Pass(t)
    \/ NapOver(t) \/ Count(t) \/ Alloc(t) \/ Insert(t)

Next ==
    \/ LoaderStarts
    \/ \E p \in Processes : Loadproc(p) \/ Exit(p)
    \/ \E t \in Callers : Step(t)

Spec == Init /\ [][Next]_launchVars
FairSpec == Spec /\ \A t \in Callers : WF_launchVars(Step(t))

-----------------------------------------------------------------------------
(* Properties *)

\* pcb.c:297: the gate does what it is there for, although it reads the count
\* without a critical section and trusts a space computed before its sleep.
\* running_processes is the number of processes that exist or are about to,
\* and the product that create_process() subtracts from PAGEABLE_PAGES never
\* exceeds it, so the unsigned difference never wraps to a huge space.
GateHolds ==
    (\A t \in Callers : place[t] # "panic")
    => LET born == {t \in Callers : place[t] \in {"alloc", "vmem"}}
           alive == {p \in Processes : Exists(p)}
       IN  /\ running_processes = Cardinality(alive) + Cardinality(born)
           /\ running_processes * AVERAGE_PAGES_PER_PROCESS < PAGEABLE_PAGES

\* Every call of loadproc() returns, with a new process or without one, even
\* if no process ever exits, and the lock goes to the next caller.
LoadprocReturns ==
    \A p \in Processes :
        place[p] = "lock" ~> place[p] \in {"run", "panic"}
=============================================================================
