------------------------------- MODULE Paging -------------------------------
(***************************************************************************)
(* Demand paging in kernel/memory.c: page frames, the free list, the FIFO  *)
(* of evictable frames, the page tables, the copy of every page in its     *)
(* process image on disk, and the three paths that move pages: the page    *)
(* fault handler, the set-up of a new address space, and eviction.         *)
(*                                                                         *)
(* page_map_lock serialises these paths, but its holder yields while the   *)
(* USB driver waits for a transfer (uhci_read_write), so user code of      *)
(* other processes runs in the middle of an eviction.  A step of this      *)
(* module is the code between two points where another thread can observe  *)
(* or change what the step uses: the tables are touched only under the     *)
(* lock, a page table entry's dirty bit and the page's bytes also by the   *)
(* owner's own memory accesses.                                            *)
(***************************************************************************)
EXTENDS Queues, FiniteSets

CONSTANTS
    NFrames,        \* PAGEABLE_PAGES, the number of page frames
    Procs,          \* the processes that may be launched, one image each
    Shell,          \* the first process, launched by the loader thread
    Loader,         \* the loader thread
    Kernel,         \* dummy_kernel_pcb, the owner of the kernel's frames
    NoOwner,        \* the owner field of a frame that nobody owns
    Pages,          \* the pages of a process image
    NoPage,         \* the vaddr field of a frame that maps no image page
    Values,         \* what a page of data may hold
    InitialValue,   \* what every page of an image holds on disk at boot
    Zero, Other,    \* a zeroed frame; tables, stacks, memory's bytes at boot
    Strategy,       \* EVICTION_STRATEGY of config.h
    DiskMayFail     \* whether a transfer may end with an error

KernelFrames == 3   \* kernel_pdir, kernel_ptable, user_kernel_ptable
ZeroSpan == 4       \* a loop of PAGE_SIZE uint32_t stores covers four frames
Frames == 0 .. NFrames - 1
NoFrame == -1
Threads == Procs \cup {Loader}
Contents == Values \cup {Zero, Other}
Owners == Procs \cup {Kernel}

ASSUME PagingAssumption ==
    /\ NFrames \in Nat /\ NFrames >= KernelFrames
    /\ Shell \in Procs /\ Loader \notin Procs
    /\ Kernel \notin Procs /\ NoOwner \notin Owners
    /\ NoPage \notin Pages
    /\ InitialValue \in Values /\ Zero \notin Values /\ Other \notin Values
    /\ Zero # Other
    /\ Strategy \in {"FIFO", "RANDOM"}
    /\ DiskMayFail \in BOOLEAN

VARIABLES
    kernel,     \* "running" until abortk(), or "hung" with interrupts off
    locked,     \* page_map_lock.locked
    waitq,      \* page_map_lock.wait_queue
    pc,         \* where each thread is in the paging code
    job,        \* what the thread's current call is for
    frame,      \* the frame the thread has selected or been given
    state,      \* the life of each process
    map,        \* page table entries: the frame if PE_P is set, or NoFrame
    dirty,      \* page table entries: PE_D
    info,       \* page_frame_info
    freeList,   \* page_free_head and the next_free_page chain
    fifo,       \* fifo_queue, oldest first
    content,    \* the bytes of each frame
    disk        \* the bytes of each page in the process image on disk

lockVars == <<locked, waitq>>
tableVars == <<map, dirty, info, freeList, fifo>>
dataVars == <<content, disk>>
vars == <<kernel, lockVars, pc, job, frame, state, tableVars, dataVars>>

(***************************************************************************)
(* The steps of a thread in the paging code.  "run" is everything else: a  *)
(* process in user code or in a system call, the loader between launches.  *)
(***************************************************************************)
Holding == {"alloc", "writeback", "written", "alloced", "loaded", "release"}
Failed == {"failed", "released", "abort"}
Steps == {"run", "acquire", "gap", "blocked"} \cup Holding \cup Failed

\* A job: the process a frame is wanted for, and either the faulting page
\* (stage 0) or the stage of setup_process_vmem: 1 page directory,
\* 2 page table, 3 stack page.
NoJob == [proc |-> NoOwner, page |-> NoPage, stage |-> 0]
Jobs == [proc : Procs, page : Pages \cup {NoPage}, stage : 0 .. 3] \cup {NoJob}

FreeInfo == [owner |-> NoOwner, page |-> NoPage, pinned |-> FALSE]
PinnedInfo(p) == [owner |-> p, page |-> NoPage, pinned |-> TRUE]
DataInfo(p, v) == [owner |-> p, page |-> v, pinned |-> FALSE]
Infos == [owner : Owners \cup {NoOwner}, page : Pages \cup {NoPage},
          pinned : BOOLEAN]

BootFreeListDescending == [i \in 1 .. NFrames - KernelFrames |-> NFrames - i]

\* initialize_page_frame_infos() links the frames in ascending order.
BootFreeList == [i \in 1 .. NFrames - KernelFrames |-> KernelFrames + i - 1]

\* init_memory(): the free list in ascending order, an empty FIFO, and the
\* first three frames taken and pinned for the kernel's own tables.
Init ==
    /\ kernel = "running"
    /\ locked = FALSE /\ waitq = <<>>
    /\ pc = [t \in Threads |-> "run"]
    /\ job = [t \in Threads |-> NoJob]
    /\ frame = [t \in Threads |-> NoFrame]
    /\ state = [p \in Procs |-> "unborn"]
    /\ map = [p \in Procs |-> [v \in Pages |-> NoFrame]]
    /\ dirty = [p \in Procs |-> [v \in Pages |-> FALSE]]
    /\ info = [f \in Frames |-> IF f < KernelFrames THEN PinnedInfo(Kernel)
                                                    ELSE FreeInfo]
    /\ freeList = BootFreeList
    /\ fifo = <<>>
    /\ content = [f \in Frames |-> Other]
    /\ disk = [p \in Procs |-> [v \in Pages |-> InitialValue]]

-----------------------------------------------------------------------------
(* Entering the paging code *)

\* The loader thread launches the shell, the shell every other process.
Creator(q) == IF q = Shell THEN Loader ELSE Shell

Running(t) == pc[t] = "run" /\ (t # Loader => state[t] = "alive")

\* create_process() reaches setup_process_vmem() for the new process q.
Launch(q) ==
    LET t == Creator(q) IN
    /\ Running(t)
    /\ state[q] = "unborn"
    /\ state' = [state EXCEPT ![q] = "starting"]
    /\ job' = [job EXCEPT ![t] = [proc |-> q, page |-> NoPage, stage |-> 1]]
    /\ pc' = [pc EXCEPT ![t] = "acquire"]
    /\ UNCHANGED <<kernel, lockVars, frame, tableVars, dataVars>>

\* p touches page v, the MMU finds PE_P clear: page_fault_handler().
Fault(p, v) ==
    /\ Running(p)
    /\ map[p][v] = NoFrame
    /\ job' = [job EXCEPT ![p] = [proc |-> p, page |-> v, stage |-> 0]]
    /\ pc' = [pc EXCEPT ![p] = "acquire"]
    /\ UNCHANGED <<kernel, lockVars, frame, state, tableVars, dataVars>>

\* p stores to a present page: the MMU sets the dirty bit of the entry.
Write(p, v, val) ==
    /\ Running(p)
    /\ map[p][v] # NoFrame
    /\ content' = [content EXCEPT ![map[p][v]] = val]
    /\ dirty' = [dirty EXCEPT ![p][v] = TRUE]
    /\ UNCHANGED <<kernel, lockVars, pc, job, frame, state,
                   map, info, freeList, fifo, disk>>

\* exit(): the process leaves the ready queue; its frames and tables stay
\* behind, because the call to free them is commented out.
Exit(p) ==
    /\ p # Shell
    /\ Running(p)
    /\ state' = [state EXCEPT ![p] = "exited"]
    /\ UNCHANGED <<kernel, lockVars, pc, job, frame, tableVars, dataVars>>

-----------------------------------------------------------------------------
(* page_map_lock *)

AcquireUntested(t) ==
    /\ pc[t] = "acquire"
    /\ locked' = TRUE
    /\ pc' = [pc EXCEPT ![t] = "alloc"]
    /\ UNCHANGED <<kernel, waitq, job, frame, state, tableVars, dataVars>>

\* lock_acquire(): take the lock, or leave the inner spinlock to go and block.
Acquire(t) ==
    /\ pc[t] = "acquire"
    /\ locked' = TRUE
    /\ pc' = [pc EXCEPT ![t] = IF locked THEN "gap" ELSE "alloc"]
    /\ UNCHANGED <<kernel, waitq, job, frame, state, tableVars, dataVars>>

\* block(&l->wait_queue), not atomic with the test in lock_acquire().
Block(t) ==
    /\ pc[t] = "gap"
    /\ waitq' = Append(waitq, t)
    /\ pc' = [pc EXCEPT ![t] = "blocked"]
    /\ UNCHANGED <<kernel, locked, job, frame, state, tableVars, dataVars>>

\* lock_release() by t, which goes on at step next; the first waiter goes
\* back to its test.
LockRelease(t, next) ==
    /\ locked' = FALSE
    /\ waitq' = IF waitq = <<>> THEN waitq ELSE Tail(waitq)
    /\ pc' = [u \in Threads |->
                CASE u = t -> next
                  [] waitq # <<>> /\ u # t /\ u = Head(waitq) -> "acquire"
                  [] OTHER -> pc[u]]

-----------------------------------------------------------------------------
(* allocate_page() *)

\* allocate_page_internal(): the head of the free list.  The zeroing loop
\* counts PAGE_SIZE words, not bytes, and so clears ZeroSpan frames.
ZeroFrom(f) ==
    [g \in Frames |-> IF f <= g /\ g < f + ZeroSpan THEN Zero ELSE content[g]]

AllocateFree(t) ==
    /\ pc[t] = "alloc"
    /\ freeList # <<>>
    /\ freeList' = Tail(freeList)
    /\ frame' = [frame EXCEPT ![t] = Head(freeList)]
    /\ content' = ZeroFrom(Head(freeList))
    /\ pc' = [pc EXCEPT ![t] = "alloced"]
    /\ UNCHANGED <<kernel, lockVars, job, state, map, dirty, info, fifo, disk>>

SelectPeeks(f) ==
    /\ ~info[f].pinned
    /\ \/ Strategy = "FIFO" /\ fifo # <<>> /\ f = Head(fifo)
       \/ Strategy = "RANDOM"
    /\ UNCHANGED fifo

\* select_page_for_eviction(): the head of the FIFO, or any unpinned frame.
\* try_evict_page() goes on only with a frame that is not pinned.
Select(f) ==
    /\ ~info[f].pinned
    /\ \/ /\ Strategy = "FIFO"
          /\ fifo # <<>> /\ f = Head(fifo)
          /\ fifo' = Tail(fifo)
       \/ /\ Strategy = "RANDOM"
          /\ UNCHANGED fifo

IsDirtyNever(f) == FALSE

\* page_frame_check_dirty() for the one owner a frame has.
IsDirty(f) == info[f].owner \in Procs /\ dirty[info[f].owner][info[f].page]

PageFreeKeepsEntry(f) ==
    /\ info' = [info EXCEPT ![f] = FreeInfo]
    /\ UNCHANGED <<map, dirty, freeList>>
PageFreeToFreeList(f) ==
    LET p == info[f].owner
        v == info[f].page
    IN  /\ map' = [map EXCEPT ![p][v] = NoFrame]
        /\ dirty' = [dirty EXCEPT ![p][v] = FALSE]
        /\ info' = [info EXCEPT ![f] = FreeInfo]
        /\ freeList' = Append(freeList, f)

\* page_free(paddr, 1): the entry of the owner is cleared, the frame's info
\* reset; the frame goes to the caller and not to the free list.
PageFree(f) ==
    LET p == info[f].owner
        v == info[f].page
    IN  /\ map' = [map EXCEPT ![p][v] = NoFrame]
        /\ dirty' = [dirty EXCEPT ![p][v] = FALSE]
        /\ info' = [info EXCEPT ![f] = FreeInfo]
        /\ UNCHANGED freeList

\* A clean victim is unmapped before interrupts are enabled again.
EvictClean(t, f) ==
    /\ pc[t] = "alloc"
    /\ freeList = <<>>
    /\ Select(f)
    /\ ~IsDirty(f)
    /\ PageFree(f)
    /\ frame' = [frame EXCEPT ![t] = f]
    /\ pc' = [pc EXCEPT ![t] = "alloced"]
    /\ UNCHANGED <<kernel, lockVars, job, state, dataVars>>

\* A dirty victim is handed to the disk driver, still mapped.
EvictDirty(t, f) ==
    /\ pc[t] = "alloc"
    /\ freeList = <<>>
    /\ Select(f)
    /\ IsDirty(f)
    /\ frame' = [frame EXCEPT ![t] = f]
    /\ pc' = [pc EXCEPT ![t] = "writeback"]
    /\ UNCHANGED <<kernel, lockVars, job, state, map, dirty, info, freeList,
                   dataVars>>

\* write_page_back_to_disk(): the controller fetches the frame's bytes at
\* some moment while the evicting thread yields.  An error is returned to
\* try_evict_page(), which ignores it.
WriteBack(t) ==
    /\ pc[t] = "writeback"
    /\ LET p == info[frame[t]].owner
           v == info[frame[t]].page
       IN  \/ disk' = [disk EXCEPT ![p][v] = content[frame[t]]]
           \/ DiskMayFail /\ UNCHANGED disk
    /\ pc' = [pc EXCEPT ![t] = "written"]
    /\ UNCHANGED <<kernel, lockVars, job, frame, state, tableVars, content>>

FinishEvictRechecks(t) ==
    /\ pc[t] = "written"
    /\ IF IsDirty(frame[t])
       THEN /\ pc' = [pc EXCEPT ![t] = "writeback"]
            /\ UNCHANGED <<map, dirty, info, freeList>>
       ELSE /\ pc' = [pc EXCEPT ![t] = "alloced"]
            /\ PageFree(frame[t])
    /\ UNCHANGED <<kernel, lockVars, job, frame, state, fifo, dataVars>>

\* The evicting thread runs again and unmaps the page it wrote.
FinishEvict(t) ==
    /\ pc[t] = "written"
    /\ PageFree(frame[t])
    /\ pc' = [pc EXCEPT ![t] = "alloced"]
    /\ UNCHANGED <<kernel, lockVars, job, frame, state, fifo, dataVars>>

\* No frame can be evicted.  With the FIFO the kernel aborts, on an empty
\* queue or on a pinned victim; evict_random_page() draws for ever with
\* interrupts off.
NoVictim(t) ==
    /\ pc[t] = "alloc"
    /\ freeList = <<>>
    /\ IF Strategy = "FIFO"
       THEN fifo # <<>> => info[Head(fifo)].pinned
       ELSE \A f \in Frames : info[f].pinned
    /\ kernel' = IF Strategy = "FIFO" THEN "aborted" ELSE "hung"
    /\ UNCHANGED <<lockVars, pc, job, frame, state, tableVars, dataVars>>

-----------------------------------------------------------------------------
(* load_page_from_disk() and setup_process_vmem() *)

\* disk_loader() for the faulting page.
DiskRead(t) ==
    /\ pc[t] = "alloced"
    /\ job[t].stage = 0
    /\ content' = [content EXCEPT ![frame[t]] =
                       disk[job[t].proc][job[t].page]]
    /\ pc' = [pc EXCEPT ![t] = "loaded"]
    /\ UNCHANGED <<kernel, lockVars, job, frame, state, tableVars, disk>>

DiskReadFails(t) ==
    /\ DiskMayFail
    /\ pc[t] = "alloced"
    /\ job[t].stage = 0
    /\ pc' = [pc EXCEPT ![t] = "failed"]
    /\ UNCHANGED <<kernel, lockVars, job, frame, state, tableVars, dataVars>>

\* fifo_enqueue_info() drops the frame when the ring is full.
FifoEnqueue(f) ==
    IF Strategy = "FIFO" /\ Len(fifo) < NFrames - 1 THEN Append(fifo, f)
                                                     ELSE fifo

\* The rest of load_page_from_disk(): the frame joins the FIFO and the info
\* table, and the page table entry is written with PE_D clear.
MapPage(t) ==
    LET f == frame[t]
        p == job[t].proc
        v == job[t].page
    IN  /\ pc[t] = "loaded"
        /\ fifo' = FifoEnqueue(f)
        /\ info' = [info EXCEPT ![f] = DataInfo(p, v)]
        /\ map' = [map EXCEPT ![p][v] = f]
        /\ dirty' = [dirty EXCEPT ![p][v] = FALSE]
        /\ frame' = [frame EXCEPT ![t] = NoFrame]
        /\ pc' = [pc EXCEPT ![t] = "release"]
        /\ UNCHANGED <<kernel, lockVars, job, state, freeList, dataVars>>

\* setup_process_vmem(): a frame for the page directory, one for the page
\* table and one for the stack, each pinned.  The tables are written over
\* the frame, the stack page is left as it came.
SetupStage(t) ==
    LET f == frame[t]
        p == job[t].proc
        last == job[t].stage = 3
    IN  /\ pc[t] = "alloced"
        /\ job[t].stage > 0
        /\ info' = [info EXCEPT ![f] = PinnedInfo(p)]
        /\ content' = IF last THEN content ELSE [content EXCEPT ![f] = Other]
        /\ frame' = [frame EXCEPT ![t] = NoFrame]
        /\ job' = IF last THEN job
                  ELSE [job EXCEPT ![t] = [proc |-> p, page |-> NoPage,
                                           stage |-> job[t].stage + 1]]
        /\ pc' = [pc EXCEPT ![t] = IF last THEN "release" ELSE "alloc"]
        /\ UNCHANGED <<kernel, lockVars, state, map, dirty, freeList, fifo,
                       disk>>

\* lock_release(&page_map_lock) at the end of either path; a new process is
\* put into the ready queue.
Release(t) ==
    /\ pc[t] = "release"
    /\ LockRelease(t, "run")
    /\ state' = IF job[t].stage = 3 THEN [state EXCEPT ![job[t].proc] = "alive"]
                                    ELSE state
    /\ job' = [job EXCEPT ![t] = NoJob]
    /\ UNCHANGED <<kernel, frame, tableVars, dataVars>>

\* A failed read: load_page_from_disk() releases the lock, and so does
\* page_fault_handler() after it, before it aborts the kernel.
FailRelease(t) ==
    /\ pc[t] = "failed"
    /\ LockRelease(t, "released")
    /\ UNCHANGED <<kernel, job, frame, state, tableVars, dataVars>>

FailReleaseIfHeld(t) ==
    /\ pc[t] = "released"
    /\ locked
    /\ LockRelease(t, "abort")
    /\ UNCHANGED <<kernel, job, frame, state, tableVars, dataVars>>

FailReleaseAgain(t) ==
    /\ pc[t] = "released"
    /\ LockRelease(t, "abort")
    /\ UNCHANGED <<kernel, job, frame, state, tableVars, dataVars>>

Abort(t) ==
    /\ pc[t] = "abort"
    /\ kernel' = "aborted"
    /\ UNCHANGED <<lockVars, pc, job, frame, state, tableVars, dataVars>>

-----------------------------------------------------------------------------
\* User code of p.
User(p) ==
    \/ \E v \in Pages : Fault(p, v)
    \/ \E v \in Pages, val \in Values : Write(p, v, val)
    \/ Exit(p)

\* Kernel code of t, from the first lock_acquire() to the last release.
KernelStep(t) ==
    \/ Acquire(t) \/ Block(t)
    \/ AllocateFree(t)
    \/ \E f \in Frames : EvictClean(t, f) \/ EvictDirty(t, f)
    \/ WriteBack(t) \/ FinishEvict(t) \/ NoVictim(t)
    \/ DiskRead(t) \/ DiskReadFails(t) \/ MapPage(t)
    \/ SetupStage(t) \/ Release(t)
    \/ FailRelease(t) \/ FailReleaseAgain(t) \/ Abort(t)

Next ==
    /\ kernel = "running"
    /\ \/ \E p \in Procs : Launch(p) \/ User(p)
       \/ \E t \in Threads : KernelStep(t)

Spec == Init /\ [][Next]_vars

\* The round-robin scheduler runs every ready thread again and again, and
\* the USB controller completes every transfer it is given.
Fairness == \A t \in Threads : WF_vars(kernel = "running" /\ KernelStep(t))

FairSpec == Spec /\ Fairness

-----------------------------------------------------------------------------
(* Properties *)

\* Every variable keeps its type; the free list and the FIFO hold frames only.
TypeOK ==
    /\ kernel \in {"running", "aborted", "hung"}
    /\ locked \in BOOLEAN /\ waitq \in Seq(Threads)
    /\ pc \in [Threads -> Steps]
    /\ job \in [Threads -> Jobs]
    /\ frame \in [Threads -> Frames \cup {NoFrame}]
    /\ state \in [Procs -> {"unborn", "starting", "alive", "exited"}]
    /\ map \in [Procs -> [Pages -> Frames \cup {NoFrame}]]
    /\ dirty \in [Procs -> [Pages -> BOOLEAN]]
    /\ info \in [Frames -> Infos]
    /\ freeList \in Seq(Frames) /\ fifo \in Seq(Frames)
    /\ content \in [Frames -> Contents]
    /\ disk \in [Procs -> [Pages -> Contents]]

\* A read has failed: the lock may be open while another thread is inside,
\* until the failing thread aborts the kernel.
FailureSeen == \E t \in Threads : pc[t] \in Failed

Owned(f) == info[f].owner # NoOwner
InFlight(t, f) == frame[t] = f /\ pc[t] \in {"alloced", "loaded"}
WritingBack(t, f) == frame[t] = f /\ pc[t] \in {"writeback", "written"}

\* page_map_lock: one thread at a time is inside the paging code, across
\* all the yields of the disk driver, and only while the lock is taken.
LockExclusive ==
    \A t \in Threads : pc[t] \in Holding =>
        locked /\ \A u \in Threads : pc[u] \in Holding => u = t

\* No page frame is lost or given out twice: each one is on the free list,
\* or on its way to its new owner, or owned, and never two of these.
FrameAccounting ==
    /\ Distinct(freeList)
    /\ \A f \in Frames :
         /\ f \in Items(freeList) \/ Owned(f) \/ \E t \in Threads : InFlight(t, f)
         /\ ~(f \in Items(freeList) /\ Owned(f))
         /\ \A t \in Threads :
              InFlight(t, f) => ~Owned(f) /\ f \notin Items(freeList)

\* page_frame_info and the page tables describe each other: a present entry
\* names a frame recorded for exactly that process and page (so no two
\* entries share a frame), and the entry of an evictable frame's owner is
\* present, which is where eviction looks for the dirty bit.
MappingAgrees ==
    /\ \A p \in Procs, v \in Pages :
         map[p][v] # NoFrame => info[map[p][v]] = DataInfo(p, v)
    /\ \A f \in Frames : Owned(f) /\ ~info[f].pinned =>
         /\ info[f].owner \in Procs /\ info[f].page \in Pages
         /\ map[info[f].owner][info[f].page] = f

\* The FIFO holds every evictable frame once, and no pinned or free frame:
\* the ring of NFrames slots, which is full at NFrames - 1, drops none.
FifoComplete ==
    Strategy = "FIFO" =>
        /\ Distinct(fifo)
        /\ \A f \in Frames :
             f \in Items(fifo) <=>
                 /\ Owned(f) /\ ~info[f].pinned
                 /\ \A t \in Threads : ~WritingBack(t, f)

\* A page that eviction may drop without writing it has its bytes on disk.
CleanMatchesDisk ==
    \A p \in Procs, v \in Pages :
        map[p][v] # NoFrame /\ ~dirty[p][v] => content[map[p][v]] = disk[p][v]

\* Eviction gives up (abort, or the endless draw of the random strategy)
\* only when every frame is pinned.
GivesUpOnlyWhenPinned ==
    kernel # "running" => \A f \in Frames : info[f].pinned

(***************************************************************************)
(* The inductive invariant.  ThreadsOK and WaitersOK describe one thread   *)
(* or the lock alone and survive even a failed read; Safe needs the mutual *)
(* exclusion that a failed read gives up.                                  *)
(***************************************************************************)

\* What a thread has in its local variables at each step.
ThreadsOK ==
    \A t \in Threads :
        /\ pc[t] # "run" =>
             /\ job[t].proc \in Procs
             /\ job[t].stage = 0 => job[t].proc = t /\ job[t].page \in Pages
        /\ pc[t] \in {"writeback", "written", "alloced", "loaded"} =>
             frame[t] \in Frames
        /\ pc[t] = "loaded" => job[t].stage = 0

WaitersOK ==
    /\ Distinct(waitq)
    /\ \A i \in 1 .. Len(waitq) : pc[waitq[i]] = "blocked"

\* The free list is the ascending run of the highest frames, which keeps the
\* zeroing loop away from frames in use.
FreeListIsTail ==
    \A i \in 1 .. Len(freeList) : freeList[i] = NFrames - Len(freeList) + i - 1

\* What the holder of the lock relies on across its yields: the victim stays
\* mapped while it is written, the faulting page stays absent, and the page
\* just read stays equal to its copy on disk.
HolderOK ==
    \A t \in Threads :
        /\ pc[t] \in {"writeback", "written"} =>
             Owned(frame[t]) /\ ~info[frame[t]].pinned
        /\ pc[t] \notin {"run", "release"} /\ job[t].stage = 0 =>
             map[t][job[t].page] = NoFrame
        /\ pc[t] = "loaded" =>
             content[frame[t]] = disk[job[t].proc][job[t].page]

\* The frames in the FIFO, on the free list, and with the thread that is
\* allocating, counted: this is why the ring always has room.
Busy == {"alloced", "loaded", "writeback", "written"}
FifoRoom ==
    Strategy = "FIFO" =>
        /\ Len(fifo) + Len(freeList) <= NFrames - KernelFrames
        /\ \A t \in Threads : pc[t] \in Busy =>
             Len(fifo) + Len(freeList) < NFrames - KernelFrames

KernelPinned == \A f \in 0 .. KernelFrames - 1 : info[f].pinned /\ Owned(f)

PinnedOwned == \A f \in Frames : info[f].pinned => Owned(f)

Safe ==
    /\ LockExclusive /\ FrameAccounting /\ MappingAgrees /\ FifoComplete
    /\ CleanMatchesDisk /\ GivesUpOnlyWhenPinned
    /\ FreeListIsTail /\ HolderOK /\ FifoRoom /\ KernelPinned /\ PinnedOwned

\* Every frame, table and lock property above holds on every run up to the
\* moment a disk read fails.
Inv == TypeOK /\ ThreadsOK /\ WaitersOK /\ (FailureSeen \/ Safe)

\* The tables and the stack of a process stay where they are: up to a failed
\* read no step reuses, unpins or hands on a pinned frame.
PinnedForever ==
    [][\A f \in Frames :
          info[f].pinned /\ ~FailureSeen => info'[f] = info[f]]_vars

\* Nobody but its owner changes an owned frame, although the zeroing loop of
\* allocate_page_internal() runs three frames past the one it hands out.
ContentsStable ==
    [][\A f \in Frames : Owned(f) /\ content'[f] # content[f] =>
          \E p \in Procs, v \in Pages, val \in Values :
              map[p][v] = f /\ Write(p, v, val)]_vars

\* What process p reads at page v: the frame, or the disk after a fault.
Memory(p, v) ==
    IF map[p][v] = NoFrame THEN disk[p][v] ELSE content[map[p][v]]

\* Paging is invisible: what a process reads at a page changes only when it
\* writes there.  memory.c:3 states it as "When a data page is swapped out,
\* it is stored in the location it was loaded from".
MemoryChangesByOwner ==
    [][\A p \in Procs, v \in Pages : Memory(p, v)' # Memory(p, v) =>
          \E val \in Values : Write(p, v, val)]_vars

\* With several processes exactly one step can lose a write: the unmap that
\* follows a write-back during which the owner ran.
MemoryLostOnlyAtUnmap ==
    [][\A p \in Procs, v \in Pages : Memory(p, v)' # Memory(p, v) =>
          \/ \E val \in Values : Write(p, v, val)
          \/ \E t \in Threads \ {p} : map[p][v] = frame[t] /\ FinishEvict(t)]_vars

\* The lock is not held for ever: eviction, the transfers and the set-up of
\* an address space all come to an end.
HolderReleases ==
    \A t \in Threads :
        pc[t] \in Holding ~> (pc[t] \notin Holding \/ kernel # "running")

\* A failed disk read always ends in the abort, whoever has the lock by then.
FailureStops == FailureSeen ~> kernel = "aborted"

=============================================================================
