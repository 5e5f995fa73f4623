-------------------------------- MODULE Uhci --------------------------------
(***************************************************************************)
(* kernel/usb/uhci.c and the host controller it shares its schedule with.  *)
(*                                                                         *)
(* The schedule is a list of queue heads (QH): four fixed ones, each of    *)
(* which may have transfer units hanging off its vertical pointer.  Tasks  *)
(* link and unlink units while the controller walks the list, frame after  *)
(* frame, and executes the transfer descriptors (TD) it finds.  A step is  *)
(* what lies between two writes the controller can see, or one queue head  *)
(* visited by the controller.                                              *)
(*                                                                         *)
(* Pointers are numbers; UHCI_LP_TERMINATE is also the address that the    *)
(* driver computes from it, 0.  The toggle bits of the bulk and control    *)
(* pipes are in UsbStorage, those of the interrupt pipes are here.         *)
(***************************************************************************)
EXTENDS Integers, Sequences, SequencesExt

CONSTANTS
    Tasks,      \* the tasks that transfer data
    Keyboards,  \* the devices with an interrupt pipe
    Nobody,
    Pids,       \* what they do: "setup", "in", "out"
    NUnits,     \* bound: the transfer units there is memory for
    NTds,       \* bound: the transfer descriptors there is memory for
    MaxPackets  \* bound: the packets of one transfer

Terminate == 0
Interrupt == 1
Control == 2
BulkIn == 3
BulkOut == 4
Tops == Interrupt .. BulkOut
Units == BulkOut + 1 .. BulkOut + NUnits
Tds == BulkOut + NUnits + 1 .. BulkOut + NUnits + NTds
Heads == Tops \cup Units

\* The queue that uhci_read_write() or uhci_register_interrupt_h() uses.
Queue == [setup |-> Control, in |-> BulkIn, out |-> BulkOut, int |-> Interrupt]

\* Bits of control_status, and what is left of a word in a uint16_t.
ACTIVE == 2^23
STALLED == 2^22
Bit(word, bit) == (word \div bit) % 2 = 1
uint16(word) == word % 2^16

VARIABLES
    horiz, vert, prev,  \* the queue heads
    td,                 \* the transfer descriptors
    tdList,             \* xfer->td_list_head
    freeXfer, freeTdc,  \* the free lists
    made,               \* how many units and descriptors kzalloc() has made
    recent,             \* the units whose frame_num is the current frame
    lock,               \* who has uh->xfer_qh_lock
    task,               \* where each task is, its unit and its transfer
    handlers,           \* uh->interrupt_handler_list_head
    pipe,               \* the interrupt pipes: xfer, toggle_bit, and the
                        \* toggle the device is going to use
    hc,                 \* the controller's next queue head in this frame
    usbInt              \* UHCI_SS_USB_INT

schedule == <<horiz, vert, prev>>
memory == <<tdList, freeXfer, freeTdc, made>>
keyboard == <<handlers, pipe>>
controller == <<hc, usbInt>>
vars == <<schedule, td, memory, recent, lock, task, keyboard, controller>>

Idle == [at |-> "idle", unit |-> Terminate, pid |-> "in"]
NoTd == [lp |-> Terminate, status |-> 0, toggle |-> 0, pipe |-> Nobody]
NoPipe == [xfer |-> Terminate, toggle |-> 0, device |-> 0]

\* uhci_static_init() and uhci_init().
Init ==
    /\ horiz = [q \in Heads |-> IF q \in Tops \ {BulkOut} THEN q + 1 ELSE Terminate]
    /\ vert = [q \in Heads |-> Terminate]
    /\ prev = [q \in Heads \cup {Terminate} |-> Terminate]
    /\ td = [d \in Tds |-> NoTd]
    /\ tdList = [u \in Units |-> <<>>]
    /\ freeXfer = <<>> /\ freeTdc = <<>>
    /\ made = [units |-> 0, tds |-> 0]
    /\ recent = {} /\ lock = Nobody
    /\ task = [t \in Tasks |-> Idle]
    /\ handlers = <<>>
    /\ pipe = [k \in Keyboards |-> NoPipe]
    /\ hc = Terminate /\ usbInt = FALSE

-----------------------------------------------------------------------------
(* A transfer *)

ReusableAlways(u) == TRUE

\* Not dequeued in this frame.  A unit that never reached the schedule has no
\* uh and is never in recent.
Reusable(u) == u \notin recent

\* xfer_alloc(): the first free unit that may be reused, else a new one.
XferAlloc ==
    LET candidates == SelectSeq(freeXfer, Reusable)
    IN  IF candidates # <<>> THEN {Head(candidates)}
        ELSE IF made.units < NUnits THEN {BulkOut + made.units + 1} ELSE {}

\* tdc_alloc(): the descriptors it returns one after the other, the free ones
\* first and then new ones.
TdcAlloc ==
    freeTdc \o [i \in 1 .. NTds - made.tds |-> BulkOut + NUnits + made.tds + i]

Took(u, tds) ==
    /\ freeXfer' = Remove(freeXfer, u)
    /\ freeTdc' = SelectSeq(freeTdc, LAMBDA d : d \notin Range(tds))
    /\ made' = [units |-> Max({made.units, u - BulkOut}),
                tds |-> Max({made.tds} \cup {d - BulkOut - NUnits : d \in Range(tds)})]

\* xfer_alloc(), td_build() and xfer_add_tdc(): the unit u with a chain of
\* active descriptors.
Prepare(u, tds, device) ==
    /\ Took(u, tds)
    /\ horiz' = [horiz EXCEPT ![u] = Terminate]
    /\ vert' = [vert EXCEPT ![u] = Head(tds)]
    /\ prev' = [prev EXCEPT ![u] = Terminate]
    /\ td' = [d \in Tds |->
                IF d \notin Range(tds) THEN td[d]
                ELSE LET i == CHOOSE i \in DOMAIN tds : tds[i] = d
                     IN  [lp |-> IF i = Len(tds) THEN Terminate ELSE tds[i + 1],
                          status |-> ACTIVE, toggle |-> 0, pipe |-> device]]
    /\ tdList' = [tdList EXCEPT ![u] = tds]

\* uhci_read_write() up to xfer_enqueue(), with as many packets as the size
\* takes.
Transfer(t, pid, packets) ==
    /\ task[t] = Idle
    /\ packets <= Len(TdcAlloc)
    /\ \E u \in XferAlloc :
        /\ Prepare(u, SubSeq(TdcAlloc, 1, packets), Nobody)
        /\ task' = [task EXCEPT ![t] = [at |-> "enqueue", unit |-> u, pid |-> pid]]
    /\ UNCHANGED <<recent, lock, keyboard, controller>>

\* td_build() fails: what was allocated is freed, and uhci_read_write()
\* returns ERR_NO_MEM.
TransferFails(t, packets) ==
    /\ task[t] = Idle
    /\ packets > Len(TdcAlloc)
    /\ \E u \in XferAlloc :
        /\ freeXfer' = Append(Remove(freeXfer, u), u)
        /\ freeTdc' = TdcAlloc
        /\ made' = [units |-> Max({made.units, u - BulkOut}), tds |-> NTds]
        /\ horiz' = [horiz EXCEPT ![u] = Terminate]
        /\ vert' = [vert EXCEPT ![u] = IF TdcAlloc = <<>> THEN Terminate ELSE Head(TdcAlloc)]
        /\ prev' = [prev EXCEPT ![u] = Terminate]
    /\ UNCHANGED <<td, tdList, recent, lock, task, keyboard, controller>>

\* xfer_enqueue(): in front of the queue, visible with the write to vert.
Enqueue(t) ==
    LET u == task[t].unit
        q == Queue[task[t].pid]
    IN  /\ task[t].at = "enqueue"
        /\ lock = Nobody
        /\ IF vert[q] = Terminate
           THEN /\ horiz' = [horiz EXCEPT ![u] = horiz[q]]
                /\ prev' = [prev EXCEPT ![u] = q]
           ELSE /\ horiz' = [horiz EXCEPT ![u] = vert[q]]
                /\ prev' = [prev EXCEPT ![u] = q, ![vert[q]] = u]
        /\ vert' = [vert EXCEPT ![q] = u]
        /\ task' = [task EXCEPT ![t] =
                        IF task[t].pid = "int" THEN Idle ELSE [@ EXCEPT !.at = "wait"]]
        /\ UNCHANGED <<td, memory, recent, lock, keyboard, controller>>

\* xfer_get_status(), the bits or-ed together.
Status(u) ==
    LET statuses == {td[tdList[u][i]].status : i \in DOMAIN tdList[u]}
    IN  (IF ACTIVE \in statuses THEN ACTIVE ELSE 0)
            + (IF STALLED \in statuses THEN STALLED ELSE 0)

FinishedIgnoresStall(u) == Status(u) = 0

\* The end of the waiting loop: all descriptors done, or one stalled.
Finished(u) == Status(u) = 0 \/ Bit(Status(u), STALLED)

\* xfer_dequeue() up to its last write to the schedule.  Behind the last unit
\* of bulk_out_qh there is nothing, and is_top_queue is whatever the memory
\* at address 0 says.
Relink(t) ==
    LET u == task[t].unit
        next == horiz[u]
    IN  /\ task[t].at = "remove" \/ (task[t].at = "wait" /\ Finished(u))
        /\ lock = Nobody
        /\ lock' = t
        /\ \E nextIsTop \in (IF next = Terminate THEN BOOLEAN ELSE {next \in Tops}) :
            /\ prev' = IF nextIsTop THEN prev ELSE [prev EXCEPT ![next] = prev[u]]
            /\ IF prev[u] \in Tops /\ nextIsTop
               THEN vert' = [vert EXCEPT ![prev[u]] = Terminate] /\ UNCHANGED horiz
               ELSE IF prev[u] \in Tops
               THEN vert' = [vert EXCEPT ![prev[u]] = next] /\ UNCHANGED horiz
               ELSE horiz' = [horiz EXCEPT ![prev[u]] = next] /\ UNCHANGED vert
        /\ task' = [task EXCEPT ![t].at = "mark"]
        /\ UNCHANGED <<td, memory, recent, keyboard, controller>>

\* The rest of xfer_dequeue(), which marks the unit with the frame number,
\* xfer_free(), and the return.
Mark(t) ==
    LET u == task[t].unit
    IN  /\ task[t].at = "mark"
        /\ recent' = recent \cup {u}
        /\ lock' = Nobody
        /\ freeTdc' = freeTdc \o tdList[u]
        /\ tdList' = [tdList EXCEPT ![u] = <<>>]
        /\ freeXfer' = Append(freeXfer, u)
        /\ task' = [task EXCEPT ![t] = Idle]
        /\ UNCHANGED <<schedule, td, made, keyboard, controller>>

-----------------------------------------------------------------------------
(* Interrupt pipes *)

\* uhci_register_interrupt_h() up to xfer_enqueue(), for a device that has
\* just been configured: the handler is listed before the unit is enqueued.
Register(t, k) ==
    /\ task[t] = Idle
    /\ pipe[k].xfer = Terminate
    /\ TdcAlloc # <<>>
    /\ \E u \in XferAlloc :
        /\ Prepare(u, <<Head(TdcAlloc)>>, k)
        /\ pipe' = [pipe EXCEPT ![k] = [NoPipe EXCEPT !.xfer = u]]
        /\ task' = [task EXCEPT ![t] = [at |-> "enqueue", unit |-> u, pid |-> "int"]]
    /\ handlers' = Append(handlers, k)
    /\ UNCHANGED <<recent, lock, controller>>

\* uhci_remove_interrupt_h(), up to xfer_dequeue().
Unregister(t, k) ==
    /\ task[t] = Idle
    /\ pipe[k].xfer # Terminate
    /\ \A s \in Tasks : task[s].unit # pipe[k].xfer
    /\ handlers' = Remove(handlers, k)
    /\ task' = [task EXCEPT ![t] = [at |-> "remove", unit |-> pipe[k].xfer, pid |-> "int"]]
    /\ pipe' = [pipe EXCEPT ![k] = NoPipe]
    /\ UNCHANGED <<schedule, td, memory, recent, lock, controller>>

\* td_reactivate(): the toggle bit is or-ed into bit 0, which is set anyway.
Reactivate(d) == [td[d] EXCEPT !.status = ACTIVE, !.toggle = 0]

\* uhci_interrupt(): xfer_status is a uint16_t.
Serve ==
    LET skipped(k) == Bit(uint16(Status(pipe[k].xfer)), ACTIVE)
        served == {k \in Range(handlers) : ~skipped(k)}
        first(k) == Head(tdList[pipe[k].xfer])
    IN  /\ usbInt
        /\ usbInt' = FALSE
        /\ td' = [d \in Tds |-> IF \E k \in served : d = first(k) THEN Reactivate(d) ELSE td[d]]
        /\ vert' = [q \in Heads |->
                        IF \E k \in served : q = pipe[k].xfer
                        THEN Head(tdList[q]) ELSE vert[q]]
        /\ pipe' = [k \in Keyboards |->
                        IF k \in served THEN [pipe[k] EXCEPT !.toggle = 1 - @] ELSE pipe[k]]
        /\ UNCHANGED <<horiz, prev, memory, recent, lock, task, handlers, hc>>

-----------------------------------------------------------------------------
(* The controller *)

\* The first unit it meets from queue head q on; a fixed queue head without
\* units leads to the next one.
Meets(q) ==
    LET from[p \in Tops \cup {Terminate}] ==
            IF p = Terminate \/ vert[p] # Terminate
            THEN IF p = Terminate THEN p ELSE vert[p]
            ELSE from[horiz[p]]
    IN  IF q \in Units THEN q ELSE from[q]

Leave == hc' = Meets(horiz[hc])

\* It passes a unit that has nothing to execute or whose device is not ready.
HcPass ==
    /\ hc # Terminate
    /\ Leave
    /\ UNCHANGED <<schedule, td, memory, recent, lock, task, keyboard, usbInt>>

Active(u) == u # Terminate /\ vert[u] \in Tds /\ td[vert[u]].status = ACTIVE

\* It executes a descriptor, advances the queue, and moves on to the next one.
HcExecute ==
    LET d == vert[hc]
        k == td[d].pipe
    IN  /\ Active(hc)
        /\ td' = [td EXCEPT ![d].status = 0]
        /\ vert' = [vert EXCEPT ![hc] = td[d].lp]
        /\ usbInt' = (usbInt \/ k # Nobody)
        /\ pipe' = IF k = Nobody THEN pipe ELSE [pipe EXCEPT ![k].device = 1 - @]
        /\ Leave
        /\ UNCHANGED <<horiz, prev, memory, recent, lock, task, handlers>>

\* The device refuses: the descriptor is stalled and the queue stays put.
HcStall ==
    /\ Active(hc)
    /\ td' = [td EXCEPT ![vert[hc]].status = STALLED]
    /\ Leave
    /\ UNCHANGED <<schedule, memory, recent, lock, task, keyboard, usbInt>>

\* The next frame starts again at interrupt_qh.  What the controller cannot
\* reach any more is rewritten before anybody reads it, and forgotten here.
HcFrame ==
    LET dead == Range(freeXfer) \cup {Terminate}
    IN  /\ hc = Terminate
        /\ hc' = Meets(Interrupt)
        /\ recent' = {}
        /\ horiz' = [q \in Heads |-> IF q \in dead THEN Terminate ELSE horiz[q]]
        /\ vert' = [q \in Heads |-> IF q \in dead THEN Terminate ELSE vert[q]]
        /\ prev' = [q \in DOMAIN prev |-> IF q \in dead THEN Terminate ELSE prev[q]]
        /\ td' = [d \in Tds |-> IF d \in Range(freeTdc) THEN NoTd ELSE td[d]]
        /\ UNCHANGED <<memory, lock, task, keyboard, usbInt>>

-----------------------------------------------------------------------------
TaskStep(t) == Enqueue(t) \/ Relink(t) \/ Mark(t)

Next ==
    \/ \E t \in Tasks :
        \/ \E pid \in Pids, n \in 1 .. MaxPackets : Transfer(t, pid, n)
        \/ \E n \in 1 .. MaxPackets : TransferFails(t, n)
        \/ \E k \in Keyboards : Register(t, k) \/ Unregister(t, k)
        \/ TaskStep(t)
    \/ Serve
    \/ HcPass \/ HcExecute \/ HcStall \/ HcFrame

Spec == Init /\ [][Next]_vars

HcStep == HcPass \/ HcExecute \/ HcStall \/ HcFrame
UnitStep(u) == hc = u /\ (HcExecute \/ HcStall)

\* The controller runs on its own, a device that is polled in every frame
\* answers some time, and a task that waits for a spinlock held for a few
\* instructions gets it some time.
FairSpec ==
    /\ Spec
    /\ WF_vars(HcStep)
    /\ \A u \in Units : SF_vars(UnitStep(u))
    /\ \A t \in Tasks : SF_vars(TaskStep(t))

-----------------------------------------------------------------------------
(* Properties *)

\* The units that the driver has put into queue q and not taken out yet.
Enqueued(q) ==
    {task[t].unit : t \in {s \in Tasks : task[s].at \in {"wait", "remove"}
                                            /\ Queue[task[s].pid] = q}}
    \cup {u \in {pipe[k].xfer : k \in Keyboards} \ {Terminate} :
              q = Interrupt /\ \A t \in Tasks : task[t].unit # u}

\* The units the controller meets from pointer p on, before it comes to a
\* fixed queue head or to the end.
Chain(p) ==
    LET at[i \in 1 .. NUnits + 1] ==
            IF i = 1 THEN p
            ELSE IF at[i - 1] \in Units THEN horiz[at[i - 1]] ELSE Terminate
        n == CHOOSE n \in 0 .. NUnits :
                /\ \A i \in 1 .. n : at[i] \in Units
                /\ n = NUnits \/ at[n + 1] \notin Units
    IN  [i \in 1 .. n |-> at[i]]

\* uhci.c:118: units are not reused within a frame "to ensure consistency in
\* the UHCI schedule".  At every moment each queue holds exactly the units
\* put into it, linked both ways, with the next queue behind the last one;
\* and wherever the controller is, what it is going to meet are these units
\* or units taken out in this frame, never one that is being built.
ScheduleSound ==
    LET scheduled == UNION {Enqueued(q) : q \in Tops}
        building == {task[t].unit : t \in {s \in Tasks : task[s].at = "enqueue"}}
        leaving == (recent \ building)
            \cup {task[t].unit : t \in {s \in Tasks : task[s].at = "mark"}}
    IN  /\ \A q \in Tops :
            LET c == Chain(vert[q])
            IN  /\ Range(c) = Enqueued(q) /\ IsInjective(c)
                /\ c # <<>> => prev[Head(c)] = q /\ horiz[Last(c)] = horiz[q]
                /\ \A i \in 2 .. Len(c) : prev[c[i]] = c[i - 1]
        /\ Range(Chain(hc)) \subseteq scheduled \cup leaving
        /\ Range(freeXfer) \cap scheduled = {} /\ IsInjective(freeXfer)
        /\ \A u, w \in scheduled : u # w => Range(tdList[u]) \cap Range(tdList[w]) = {}
        /\ \A u \in scheduled : Range(tdList[u]) \cap Range(freeTdc) = {}

\* The controller has executed a descriptor of u, but not by way of u.  A
\* stalled unit still points at its descriptors when they are freed and
\* reused, which the rule about frames does not prevent.
Robbed(u) == vert[u] \in Tds /\ td[vert[u]].status = 0

\* The loop in uhci_read_write() comes to an end, whatever other transfers
\* are enqueued, dequeued and stalled meanwhile, unless the unit was robbed.
TransferEnds ==
    \A t \in Tasks :
        task[t].at = "wait" ~> task[t].at # "wait" \/ Robbed(task[t].unit)

\* td_reactivate(), uhci.c:67, "Set toggle bit": the descriptor of an
\* interrupt pipe expects the toggle that its device uses next.
ToggleInStep ==
    \A d \in Tds :
        td[d].status = ACTIVE /\ td[d].pipe # Nobody
            => td[d].toggle = pipe[td[d].pipe].device
=============================================================================
