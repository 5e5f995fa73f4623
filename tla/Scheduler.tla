----------------------------- MODULE Scheduler ------------------------------
(***************************************************************************)
(* kernel/scheduler.c and the PCB queues of kernel/pcb.c, at the level of  *)
(* the next and previous pointers.  The ready queue and the free list are  *)
(* doubly linked rings; a wait queue is built by block() as a list that    *)
(* ends in NULL and taken apart by queue_shift(), which expects a ring and *)
(* so stores through NULL.  Address 0 is mapped, so the stores go to a     *)
(* dummy PCB here, Null, which is part of the memory.                      *)
(*                                                                         *)
(* Everything below runs with interrupts off between two looks of another  *)
(* task: each call is one step, and so is each round of the loop in        *)
(* scheduler(), during which only the clock goes on.                       *)
(***************************************************************************)
EXTENDS Queues

CONSTANTS
    NPcbs,      \* PCB_TABLE_SIZE
    Boot,       \* the number of kernel threads created by kernel_main()
    Clock,      \* the clock thread: it never blocks, sleeps or exits
    MaxStacks,  \* the number of kernel stacks there is room for
    WaitQueues  \* the wait queues of locks, conditions and semaphores

Pcbs == 1 .. NPcbs
Null == 0
Memory == Pcbs \cup {Null}

ASSUME SchedulerAssumption ==
    /\ NPcbs \in Nat /\ Boot \in Pcbs /\ Clock \in 1 .. Boot
    /\ MaxStacks \in Nat /\ MaxStacks >= Boot
    /\ WaitQueues \cap {"ready", "free"} = {}

\* current_running is the head of the ready queue, freelist of the free one.
Heads == WaitQueues \cup {"ready", "free"}

VARIABLES
    mem,        \* the pointers: next, previous, and the head of each queue
    status,     \* of each PCB
    mode,       \* "task", "scheduler", or "panic" after a failed assertion
    expired,    \* the sleeping tasks whose wakeup_time has passed
    stacks,     \* kernel stacks given out
    newborn     \* the PCB a task has allocated and not yet made ready

schedulerVars == <<mem, status, mode, expired, stacks, newborn>>

current_running == mem.head["ready"]

\* The links of a ring of the PCBs lo .. hi.
RingNext(p, lo, hi) == IF p = hi THEN lo ELSE p + 1
RingPrevious(p, lo, hi) == IF p = lo THEN hi ELSE p - 1

\* After kernel_main(): the boot threads are in the ready queue, the other
\* PCBs in the free list, and the first thread has been dispatched.
SchedulerInit ==
    /\ mem = [next |-> [p \in Memory |->
                          IF p = Null THEN Null
                          ELSE IF p <= Boot THEN RingNext(p, 1, Boot)
                          ELSE RingNext(p, Boot + 1, NPcbs)],
              previous |-> [p \in Memory |->
                          IF p = Null THEN Null
                          ELSE IF p <= Boot THEN RingPrevious(p, 1, Boot)
                          ELSE RingPrevious(p, Boot + 1, NPcbs)],
              head |-> [q \in Heads |->
                          IF q = "ready" THEN 1
                          ELSE IF q = "free" /\ Boot < NPcbs THEN Boot + 1
                          ELSE Null]]
    /\ status = [p \in Pcbs |-> IF p = 1 THEN "ready" ELSE "first"]
    /\ mode = "task"
    /\ expired = {}
    /\ stacks = Boot
    /\ newborn = [p \in Pcbs |-> Null]

-----------------------------------------------------------------------------
(* The queues of pcb.c, as functions from memory to memory *)

\* queue_insert(): p becomes the last of queue q.  It asserts first that p is
\* in no other queue.
Asserts(m, p, then) == IF m.next[p] = Null THEN then ELSE "panic"
queue_insert(m, q, p) ==
    LET h == m.head[q]
        last == m.previous[h]
    IN  IF h = Null
        THEN [next |-> [m.next EXCEPT ![p] = p],
              previous |-> [m.previous EXCEPT ![p] = p],
              head |-> [m.head EXCEPT ![q] = p]]
        ELSE [next |-> [m.next EXCEPT ![p] = h, ![last] = p],
              previous |-> [m.previous EXCEPT ![p] = last, ![h] = p],
              head |-> m.head]

queue_shift_one_way(m, q) ==
    LET p == m.head[q]
        n == m.next[p]
    IN  IF p = Null THEN m
        ELSE [next |-> [m.next EXCEPT ![m.previous[p]] = n, ![p] = Null],
              previous |-> [m.previous EXCEPT ![p] = Null],
              head |-> [m.head EXCEPT ![q] = IF n = p THEN Null ELSE n]]

\* queue_shift(): the first of queue q leaves it.
queue_shift(m, q) ==
    LET p == m.head[q]
        n == m.next[p]
        prev == m.previous[p]
    IN  IF p = Null THEN m
        ELSE IF n = p /\ prev = p
        THEN [next |-> [m.next EXCEPT ![p] = Null],
              previous |-> [m.previous EXCEPT ![p] = Null],
              head |-> [m.head EXCEPT ![q] = Null]]
        ELSE [next |-> [m.next EXCEPT ![prev] = n, ![p] = Null],
              previous |-> [m.previous EXCEPT ![n] = prev, ![p] = Null],
              head |-> [m.head EXCEPT ![q] = n]]

\* The PCBs from h on, as many as there can be.
Walk(m, h) ==
    LET f[i \in 1 .. NPcbs + 1] == IF i = 1 THEN h ELSE m.next[f[i - 1]] IN f

\* The last PCB of a list that ends in NULL, as the loop in block() finds it.
LastOf(m, h) ==
    LET w == Walk(m, h)
    IN  w[CHOOSE i \in 1 .. NPcbs :
            /\ m.next[w[i]] = Null
            /\ \A j \in 1 .. i - 1 : m.next[w[j]] # Null]

-----------------------------------------------------------------------------
(* Calls of the running task *)

Running == mode = "task"

\* yield(), and the timer interrupt's preempt().
yield ==
    /\ Running
    /\ mode' = "scheduler"
    /\ UNCHANGED <<mem, status, expired, stacks, newborn>>

\* msleep(): sleeping, then yield().
msleep ==
    /\ Running /\ current_running # Clock
    /\ status' = [status EXCEPT ![current_running] = "sleeping"]
    /\ mode' = "scheduler"
    /\ UNCHANGED <<mem, expired, stacks, newborn>>

BlockAtHead(q) ==
    /\ Running /\ current_running # Clock
    /\ status' = [status EXCEPT ![current_running] = "blocked"]
    /\ mem' = [mem EXCEPT !.head = [@ EXCEPT ![q] = current_running]]
    /\ mode' = "scheduler"
    /\ UNCHANGED <<expired, stacks, newborn>>

\* block(): the task is linked behind the last of the wait queue while it is
\* still in the ready queue; scheduler() will take it out.
block(q) ==
    /\ Running /\ current_running # Clock
    /\ status' = [status EXCEPT ![current_running] = "blocked"]
    /\ LET h == mem.head[q] IN
       mem' = IF h = Null
              THEN [mem EXCEPT !.head = [@ EXCEPT ![q] = current_running]]
              ELSE [mem EXCEPT !.next =
                       [@ EXCEPT ![LastOf(mem, h)] = current_running]]
    /\ mode' = "scheduler"
    /\ UNCHANGED <<expired, stacks, newborn>>

\* unblock(): every caller has looked that the queue is not empty.
unblock(q) ==
    LET job == mem.head[q]
        m == queue_shift(mem, q)
    IN  /\ Running
        /\ job # Null
        /\ mem' = queue_insert(m, "ready", job)
        /\ mode' = Asserts(m, job, "task")
        /\ status' = [status EXCEPT ![job] = "ready"]
        /\ UNCHANGED <<expired, stacks, newborn>>

\* exit().
exit ==
    /\ Running /\ current_running # Clock
    /\ newborn[current_running] = Null
    /\ status' = [status EXCEPT ![current_running] = "exited"]
    /\ mode' = "scheduler"
    /\ UNCHANGED <<mem, expired, stacks, newborn>>

AllocNoLimit ==
    LET p == mem.head["free"] IN
    /\ Running
    /\ \A t \in Pcbs : newborn[t] = Null
    /\ p # Null
    /\ mem' = queue_shift(mem, "free")
    /\ stacks' = stacks
    /\ status' = [status EXCEPT ![p] = "first"]
    /\ newborn' = [newborn EXCEPT ![current_running] = p]
    /\ mode' = "task"
    /\ UNCHANGED expired

\* alloc_pcb() and create_pcb_common(): a PCB, and a kernel stack that is
\* never given back.  Either assertion may stop the kernel.  The caller holds
\* load_process_lock until the new task is inserted, so one task at a time
\* has a newborn.
alloc_pcb ==
    LET p == mem.head["free"] IN
    /\ Running
    /\ \A t \in Pcbs : newborn[t] = Null
    /\ IF p = Null \/ stacks = MaxStacks
       THEN mode' = "panic" /\ UNCHANGED <<mem, status, stacks, newborn>>
       ELSE /\ mem' = queue_shift(mem, "free")
            /\ stacks' = stacks + 1
            /\ status' = [status EXCEPT ![p] = "first"]
            /\ newborn' = [newborn EXCEPT ![current_running] = p]
            /\ mode' = "task"
    /\ UNCHANGED expired

\* The end of create_thread() and create_process(), after the creator may
\* have waited for the locks of setup_process_vmem().
InsertNewborn ==
    /\ Running
    /\ newborn[current_running] # Null
    /\ mem' = queue_insert(mem, "ready", newborn[current_running])
    /\ mode' = Asserts(mem, newborn[current_running], "task")
    /\ newborn' = [newborn EXCEPT ![current_running] = Null]
    /\ UNCHANGED <<status, expired, stacks>>

-----------------------------------------------------------------------------
(* scheduler() *)

\* The clock goes past the wakeup_time of t.
Expire(t) ==
    /\ mode # "panic"
    /\ status[t] = "sleeping" /\ t \notin expired
    /\ expired' = expired \cup {t}
    /\ UNCHANGED <<mem, status, mode, stacks, newborn>>

\* The end of a round: while the task at the head cannot run, another one;
\* otherwise dispatch(), which makes a first-time task ready.
Dispatch(m, st) ==
    LET c == m.head["ready"] IN
    /\ mem' = m
    /\ IF c = Null THEN mode' = "panic" /\ status' = st
       ELSE IF st[c] \in {"ready", "first"}
       THEN mode' = "task" /\ status' = [st EXCEPT ![c] = "ready"]
       ELSE mode' = "scheduler" /\ status' = st

AdvanceStays ==
    /\ mode = "scheduler"
    /\ status[current_running] \in {"ready", "first", "sleeping"}
    /\ LET wakes == status[current_running] = "sleeping" /\ current_running \in expired IN
       /\ Dispatch(mem, IF wakes THEN [status EXCEPT ![current_running] = "ready"]
                                 ELSE status)
       /\ expired' = IF wakes THEN expired \ {current_running} ELSE expired
    /\ UNCHANGED <<stacks, newborn>>

\* A ready task, or a sleeping one that may wake up, makes way for the next.
Advance ==
    /\ mode = "scheduler"
    /\ status[current_running] \in {"ready", "first", "sleeping"}
    /\ LET wakes == status[current_running] = "sleeping" /\ current_running \in expired IN
       /\ Dispatch([mem EXCEPT !.head = [@ EXCEPT !["ready"] = mem.next[current_running]]],
                   IF wakes THEN [status EXCEPT ![current_running] = "ready"]
                            ELSE status)
       /\ expired' = IF wakes THEN expired \ {current_running} ELSE expired
    /\ UNCHANGED <<stacks, newborn>>

\* A blocked task leaves the ready queue.
RemoveBlocked ==
    /\ mode = "scheduler"
    /\ status[current_running] = "blocked"
    /\ Dispatch(queue_shift(mem, "ready"), status)
    /\ UNCHANGED <<expired, stacks, newborn>>

\* An exited task leaves the ready queue and its PCB is free.
RemoveExited ==
    /\ mode = "scheduler"
    /\ status[current_running] = "exited"
    /\ Dispatch(queue_insert(queue_shift(mem, "ready"), "free", current_running), status)
    /\ UNCHANGED <<expired, stacks, newborn>>

SchedulerStep == Advance \/ RemoveBlocked \/ RemoveExited

SchedulerNext ==
    \/ yield \/ msleep \/ exit \/ alloc_pcb \/ InsertNewborn
    \/ \E q \in WaitQueues : block(q) \/ unblock(q)
    \/ \E t \in Pcbs : Expire(t)
    \/ SchedulerStep

SchedulerSpec == SchedulerInit /\ [][SchedulerNext]_schedulerVars

-----------------------------------------------------------------------------
(* Properties *)

Statuses == {"first", "ready", "sleeping", "blocked", "exited"}
MemType == [next : [Memory -> Memory], previous : [Memory -> Memory],
            head : [Heads -> Memory]]

\* Every variable keeps its type, and the running task is ready.
SchedulerTypeOK ==
    /\ mem \in MemType
    /\ status \in [Pcbs -> Statuses]
    /\ mode \in {"task", "scheduler", "panic"}
    /\ expired \subseteq {t \in Pcbs : status[t] = "sleeping"}
    /\ stacks \in 0 .. MaxStacks
    /\ newborn \in [Pcbs -> Memory]
    /\ mode = "task" => current_running # Null /\ status[current_running] = "ready"

\* A ring from its head on, a list up to NULL, as sequences.  A task that
\* has just blocked is the last of its wait queue although it still is in
\* the ready queue.
RingIn(m, q) ==
    LET h == m.head[q]
        w == Walk(m, h)
        n == CHOOSE i \in 1 .. NPcbs :
                w[i + 1] = h /\ \A j \in 2 .. i : w[j] # h
    IN  IF h = Null THEN <<>> ELSE [i \in 1 .. n |-> w[i]]
ListIn(m, q) ==
    LET h == m.head[q]
        w == Walk(m, h)
        ends(i) == m.next[w[i]] = Null \/ w[i] = m.head["ready"]
        n == CHOOSE i \in 1 .. NPcbs : ends(i) /\ \A j \in 1 .. i - 1 : ~ends(j)
    IN  IF h = Null THEN <<>> ELSE [i \in 1 .. n |-> w[i]]
RingOf(q) == RingIn(mem, q)
ListOf(q) == ListIn(mem, q)

\* scheduler() has not yet taken a task that has blocked or exited out of the
\* ready queue.
Gone(t) == status[t] \in {"blocked", "exited"}
Ready == IF current_running # Null /\ Gone(current_running)
         THEN Tail(RingOf("ready")) ELSE RingOf("ready")
FreePcbs == RingOf("free")
Waits == [q \in WaitQueues |-> ListOf(q)]
InNone(r, f, w) == {t \in Pcbs : /\ t \notin Items(r) /\ t \notin Items(f)
                                 /\ \A q \in WaitQueues : t \notin Items(w[q])}

\* The pointers of the rings and lists mean queues: what the running task
\* and scheduler() do to them is what TaskQueues says, whatever the stores
\* through NULL leave at address 0.
AsTaskQueues ==
    INSTANCE TaskQueues WITH
        ready <- Ready,
        wait <- Waits,
        free <- FreePcbs,
        limbo <- InNone(Ready, FreePcbs, Waits)
ImplementsTaskQueues == AsTaskQueues!Spec

\* Both rings can be walked in both directions.
RingsLinked ==
    \A q \in {"ready", "free"} : \A t \in Items(RingOf(q)) :
        /\ mem.previous[mem.next[t]] = t
        /\ mem.next[mem.previous[t]] = t

\* th1.c:40: "This thread runs indefinitely, which means that the scheduler
\* should never run out of processes": no assertion of the queues fails, the
\* kernel stops only for want of a PCB or a stack.
StopsOnlyForResources ==
    mode = "panic" => stacks = MaxStacks \/ mem.head["free"] = Null

\* scheduler.c and pcb.c: the ready and the free ring stay linked in both
\* directions, and no assertion of the queues fails.
RingsSound == SchedulerTypeOK /\ RingsLinked /\ StopsOnlyForResources

\* With no more stacks than PCBs no PCB is handed out twice, which is why the
\* owner pointers that page_frame_info keeps of exited processes stay good.
PcbNeverReused ==
    [][MaxStacks <= NPcbs =>
         \A t \in Pcbs : newborn'[t] # newborn[t] /\ newborn'[t] # Null
                            => status[newborn'[t]] = "first"]_schedulerVars

\* Round robin, sleepers included: whoever is in the ready queue and neither
\* blocked nor gone, a task whose sleep has not expired as well, runs again.
RoundRobin ==
    \A t \in Pcbs :
        (t \in Items(RingOf("ready")) /\ ~Gone(t))
            ~> (mode = "task" /\ current_running = t) \/ mode = "panic"

-----------------------------------------------------------------------------
(* Why: in memory m, queue q is the ring, or the list, of the PCBs in s *)

IsQueue(m, q, s) ==
    /\ s \in Seq(Pcbs) /\ Distinct(s)
    /\ m.head[q] = IF s = <<>> THEN Null ELSE s[1]

IsRing(m, q, s) ==
    /\ IsQueue(m, q, s)
    /\ \A i \in 1 .. Len(s) :
        /\ m.next[s[i]] = IF i = Len(s) THEN s[1] ELSE s[i + 1]
        /\ m.previous[s[i]] = IF i = 1 THEN s[Len(s)] ELSE s[i - 1]

\* Only the last of a list may be current_running, on its way out.
IsList(m, q, s) ==
    /\ IsQueue(m, q, s)
    /\ \A i \in 1 .. Len(s) :
        /\ i # Len(s) => s[i] # m.head["ready"] /\ m.next[s[i]] = s[i + 1]
        /\ s[i] # m.head["ready"] =>
              /\ m.previous[s[i]] = Null
              /\ i = Len(s) => m.next[s[i]] = Null

\* The queues that the pointers of memory m stand for.  A task is in one of
\* them, but for current_running, which may have joined a wait queue.
Linked(m, r, f, w) ==
    /\ IsRing(m, "ready", r) /\ IsRing(m, "free", f)
    /\ w \in [WaitQueues -> Seq(Pcbs)]
    /\ \A q \in WaitQueues : IsList(m, q, w[q])
    /\ \A t \in Pcbs : t \in Items(r) => t \notin Items(f)
    /\ \A q \in WaitQueues : \A t \in Items(w[q]) :
        /\ t \notin Items(f)
        /\ t \in Items(r) => t = m.head["ready"]
        /\ \A p \in WaitQueues : t \in Items(w[p]) => p = q

\* Who is in them.  The blocked tasks are those in a wait queue.
Waiting(st, w) ==
    \A t \in Pcbs : st[t] = "blocked" <=> \E q \in WaitQueues : t \in Items(w[q])

\* No blocked or exited task is ready, but for one that scheduler() is about
\* to take out; the clock thread always is.
Runnable(st, md, r) ==
    /\ \A t \in Items(r) : (t = r[1] => md # "scheduler") => st[t] \notin {"blocked", "exited"}
    /\ Clock \in Items(r) /\ st[Clock] \in {"first", "ready"}
    /\ md # "scheduler" => st[r[1]] = "ready"

\* A free PCB has not been used while fewer stacks than PCBs are given out.
Unused(st, given, f) ==
    /\ \A t \in Items(f) : st[t] \in {"first", "exited"}
    /\ Len(f) >= NPcbs - given
    /\ \A i \in 1 .. Len(f) : i <= NPcbs - given => st[f[i]] = "first"

\* One task at a time has a newborn, which is in no queue.
Newborns(next, st, nb, r, f) ==
    \A t \in Pcbs : nb[t] # Null =>
        /\ nb[t] \notin Items(r) /\ nb[t] \notin Items(f)
        /\ st[nb[t]] = "first" /\ next[nb[t]] = Null
        /\ \A u \in Pcbs : nb[u] # Null => u = t

QueuesAre(r, f, w) ==
    /\ Linked(mem, r, f, w) /\ Waiting(status, w) /\ Runnable(status, mode, r)
    /\ Unused(status, stacks, f) /\ Newborns(mem.next, status, newborn, r, f)

SchedulerInv ==
    /\ SchedulerTypeOK /\ StopsOnlyForResources
    /\ QueuesAre(RingOf("ready"), FreePcbs, Waits)
=============================================================================
