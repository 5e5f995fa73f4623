----------------------------- MODULE Allocator ------------------------------
(***************************************************************************)
(* kernel/usb/allocator.c: the heap of the USB drivers.                    *)
(*                                                                         *)
(* The heap is an array of chunks, of which a block marks the first and    *)
(* the last; total_size leads from the start of a run of free or of        *)
(* allocated chunks to its end, and the search jumps along it.  Each call  *)
(* holds memlock throughout and is one step.  Sizes and alignments are in  *)
(* chunks.                                                                 *)
(***************************************************************************)
EXTENDS Integers, FiniteSetsExt

CONSTANTS
    CHUNK_NUM,
    Sizes,       \* req_chunks of the callers
    Alignments   \* chunk_align of the callers, 0 for none

Chunks == 0 .. CHUNK_NUM - 1

VARIABLES
    chunk,   \* mem_chunk_list
    blocks,  \* what the callers have got and not freed: first chunk and size
    again,   \* the pointer that usb_hub_scan_ports() has freed once, or NULL
    robbed   \* its second kfree() has done damage

vars == <<chunk, blocks, again, robbed>>

NULL == CHUNK_NUM

\* allocator_init()
Init ==
    /\ chunk = [i \in Chunks |-> [free |-> TRUE, total |-> CHUNK_NUM - i, size |-> CHUNK_NUM - i]]
    /\ blocks = {} /\ again = NULL /\ robbed = FALSE

\* What kzalloc_align() may read behind the array: zeroes, or something that
\* looks free.
Behind == [free : BOOLEAN, total : {0}]

RECURSIVE update_allocated(_, _, _)
update_allocated(list, i, total) ==
    IF i = 0 \/ list[i - 1].free THEN list
    ELSE LET first == i - list[i - 1].size
             sum == total + list[first].size
         IN  update_allocated([list EXCEPT ![first].total = sum], first, sum)

RECURSIVE update_free(_, _, _)
update_free(list, i, total) ==
    IF i = 0 \/ ~list[i - 1].free THEN list
    ELSE update_free([list EXCEPT ![i - 1].total = total + 1], i - 1, total + 1)

ToAlign(i, align) == IF align = 0 THEN 0 ELSE (align - (i % align)) % align

\* The loop of kzalloc_align(): where it stops, and the alignment added.
Search(req, align) ==
    LET from[i \in 0 .. 2 * CHUNK_NUM] ==
            IF i >= CHUNK_NUM THEN i
            ELSE IF chunk[i].free /\ chunk[i].total >= req + ToAlign(i, align)
            THEN i + ToAlign(i, align)
            ELSE from[i + chunk[i].total]
    IN  from[0]

Marked(list, i, req) ==
    [list EXCEPT ![i].free = FALSE, ![i].size = req,
                 ![i + req - 1].free = FALSE, ![i + req - 1].size = req]

\* kzalloc_align() behind the search.
Taken(i, req, behind) ==
    LET list == Marked(chunk, i, req)
        next == IF i + req = CHUNK_NUM THEN behind ELSE list[i + req]
        total == IF next.free THEN req ELSE req + next.total
        own == [list EXCEPT ![i].total = total]
    IN  IF i = 0 THEN own
        ELSE IF own[i - 1].free THEN update_free(own, i, 0)
        ELSE update_allocated(own, i, total)

FreedKeepsTotals(i) ==
    LET end == i + chunk[i].size
        list == [chunk EXCEPT ![i].free = TRUE, ![end - 1].free = TRUE]
    IN  update_free(list, end,
            IF end < CHUNK_NUM /\ list[end].free THEN list[end].total ELSE 0)

\* kfree(), which finds the size of the block in its first chunk.
Freed(i) ==
    LET end == i + chunk[i].size
        list == [chunk EXCEPT ![i].free = TRUE, ![end - 1].free = TRUE]
        run == update_free(list, end,
                    IF end < CHUNK_NUM /\ list[end].free THEN list[end].total ELSE 0)
    IN  IF i > 0 /\ ~run[i - 1].free THEN update_allocated(run, i, 0) ELSE run

Kzalloc(req, align) ==
    LET i == Search(req, align)
    IN  /\ i # NULL
        /\ \E behind \in Behind : chunk' = Taken(i, req, behind)
        /\ blocks' = blocks \cup {<<i, req>>}
        /\ UNCHANGED <<again, robbed>>

Kfree(block) ==
    /\ block \in blocks
    /\ chunk' = Freed(block[1])
    /\ blocks' = blocks \ {block}
    /\ UNCHANGED robbed

\* A block freed once, and a usb_dev, which is freed by usb_free_device() and
\* then by usb_hub_scan_ports() itself.
KfreeOnce == \E block \in blocks : Kfree(block) /\ UNCHANGED again
KfreeFirst == again = NULL /\ \E block \in blocks : Kfree(block) /\ again' = block[1]

Inside(i) == {block \in blocks : i \in block[1] .. block[1] + block[2] - 1}

\* The second kfree() clears the first and the last chunk of what it believes
\* to be the block, which another block may have got, or whose size another
\* block may have left there.  What follows such damage is left open.
KfreeAgain ==
    LET last == again + chunk[again].size - 1
    IN  /\ again # NULL
        /\ robbed' = (last >= CHUNK_NUM \/ Inside(again) \cup Inside(last) # {})
        /\ chunk' = IF robbed' THEN chunk ELSE Freed(again)
        /\ again' = NULL
        /\ UNCHANGED blocks

Next ==
    /\ ~robbed
    /\ \/ \E req \in Sizes, align \in Alignments : Kzalloc(req, align)
       \/ KfreeOnce \/ KfreeFirst \/ KfreeAgain

Spec == Init /\ [][Next]_vars

-----------------------------------------------------------------------------
\* The lowest aligned place at which req chunks belong to nobody.
FirstFit(req, align) ==
    LET places == {i \in 0 .. CHUNK_NUM - req :
                    /\ align = 0 \/ i % align = 0
                    /\ \A j \in i .. i + req - 1 : Inside(j) = {}}
    IN  IF places = {} THEN NULL ELSE Min(places)

\* However blocks are taken and freed, the search along total_size finds
\* what a search through every chunk would find, so that no block overlaps
\* another and none is refused while there is room; and kfree() will find the
\* size it needs.  A second kfree() does no harm unless others have got and
\* given chunks in between.
HeapSound ==
    ~robbed =>
        /\ \A req \in Sizes, align \in Alignments : Search(req, align) = FirstFit(req, align)
        /\ \A block \in blocks : chunk[block[1]].size = block[2]
=============================================================================
