----------------------------- MODULE UsbStorage -----------------------------
(***************************************************************************)
(* usb_msd_read_write(): a command to the disk is a command block wrapper  *)
(* (CBW), perhaps data, and a command status wrapper (CSW), each a         *)
(* transfer on a bulk pipe; any error is answered by the three requests    *)
(* behind reset_dev.  scsi_dev_lock lets one command in at a time.         *)
(*                                                                         *)
(* A bulk pipe has a toggle bit at each end.  uhci_read_write() flips its  *)
(* own for every packet it queues.  The device flips its own for every     *)
(* packet it gets or gives; it takes an out packet with the wrong toggle   *)
(* for a repetition and drops it, and the controller does so with an in    *)
(* packet.  CLEAR_FEATURE(ENDPOINT_HALT) sets the device's toggle to 0.    *)
(***************************************************************************)
EXTENDS Integers

CONSTANTS
    MaxTag,     \* bound: the number of commands, far below where CBWTag wraps
    MaxPackets  \* bound: the packets of a data stage

Directions == {"none", "in", "out"}

VARIABLES
    host,    \* where the command is, its direction, packets and tag
    toggle,  \* toggle_bit of bulk_in and bulk_out
    device,  \* its state: phase, direction, packets, tag, toggles, halts
    result,  \* of the last command: "none" yet, "status", or "error"
    own,     \* the device has got the command that the host is at
    reset    \* reset_dev has been reached since the device was configured

storageVars == <<host, toggle, device, result, own, reset>>

\* usb_configure_device()
StorageInit ==
    /\ host = [at |-> "idle", dir |-> "none", packets |-> 0, tag |-> 0]
    /\ toggle = [in |-> 0, out |-> 0]
    /\ device = [phase |-> "command", dir |-> "none", packets |-> 0, tag |-> 0,
                 in |-> 0, out |-> 0, haltIn |-> FALSE, haltOut |-> FALSE]
    /\ result = "none" /\ own = FALSE /\ reset = FALSE

Flip(bit, n) == (bit + n) % 2

QueueOnce(pipe, n) == toggle' = [toggle EXCEPT ![pipe] = Flip(@, 1)]

\* uhci_read_write() queues n packets, whatever becomes of them.
Queue(pipe, n) == toggle' = [toggle EXCEPT ![pipe] = Flip(@, n)]
Recover == host' = [host EXCEPT !.at = "reset"] /\ reset' = TRUE
On(place) == host' = [host EXCEPT !.at = place] /\ UNCHANGED reset
Returns(r) == host' = [host EXCEPT !.at = "idle"] /\ result' = r

-----------------------------------------------------------------------------
(* The command *)

\* usb_msd_read_write() up to usb_write().
Command(dir, n) ==
    /\ host.at = "idle"
    /\ host.tag < MaxTag
    /\ host' = [at |-> "cbw", dir |-> dir, packets |-> IF dir = "none" THEN 0 ELSE n,
                tag |-> host.tag + 1]
    /\ own' = FALSE
    /\ UNCHANGED <<toggle, device, result, reset>>

AfterCbw == IF host.dir = "none" THEN "csw" ELSE "data"

\* The device takes the CBW.
CbwTaken ==
    /\ host.at = "cbw"
    /\ ~device.haltOut /\ toggle.out = device.out /\ device.phase = "command"
    /\ device' = [device EXCEPT !.phase = IF host.dir = "none" THEN "status" ELSE "data",
                    !.dir = host.dir, !.packets = host.packets,
                    !.tag = host.tag, !.out = Flip(@, 1)]
    /\ own' = TRUE
    /\ Queue("out", 1)
    /\ On(AfterCbw)
    /\ UNCHANGED result

\* The device drops it as a repetition.
CbwDropped ==
    /\ host.at = "cbw"
    /\ ~device.haltOut /\ toggle.out # device.out
    /\ Queue("out", 1)
    /\ On(AfterCbw)
    /\ UNCHANGED <<device, result, own>>

\* The pipe is halted, the device halts it because it expects something else
\* or does not like the command, or the wire is bad.
CbwFails ==
    /\ host.at = "cbw"
    /\ \/ device' = device
       \/ device' = [device EXCEPT !.haltOut = TRUE]
    /\ Queue("out", 1)
    /\ Recover
    /\ UNCHANGED <<result, own>>

\* All packets of the data stage in either direction.
DataDone ==
    LET pipe == host.dir
        n == host.packets
    IN  /\ host.at = "data"
        /\ device.phase = "data" /\ toggle[pipe] = device[pipe]
        /\ ~device.haltIn /\ ~device.haltOut
        /\ device.dir = pipe /\ device.packets = n
        /\ device' = [device EXCEPT !.phase = "status", ![pipe] = Flip(@, n)]
        /\ Queue(pipe, n)
        /\ On("csw")
        /\ UNCHANGED <<result, own>>

\* A stall or a bad wire after k packets, or a short packet at the end.
DataFails ==
    LET pipe == host.dir
        n == host.packets
    IN  /\ host.at = "data"
        /\ \E k \in 0 .. n, halt \in BOOLEAN :
            device' = [device EXCEPT ![pipe] = Flip(@, k),
                        !.haltIn = @ \/ (halt /\ pipe = "in"),
                        !.haltOut = @ \/ (halt /\ pipe = "out"),
                        !.phase = IF @ = "data" /\ (k = n \/ halt) THEN "status" ELSE @]
        /\ Queue(pipe, n)
        /\ Recover
        /\ UNCHANGED <<result, own>>

CswUnchecked(phaseError) == ~phaseError

\* The tests behind the CSW: CSW_PHASE_ERROR, and the tag.
CswAccepted(phaseError) == ~phaseError /\ device.tag = host.tag

\* The CSW arrives.
CswRead ==
    /\ host.at = "csw"
    /\ device.phase = "status" /\ ~device.haltIn /\ toggle.in = device.in
    /\ device' = [device EXCEPT !.phase = "command", !.in = Flip(@, 1)]
    /\ Queue("in", 1)
    /\ \E phaseError \in BOOLEAN :
        IF CswAccepted(phaseError)
        THEN Returns("status") /\ UNCHANGED reset
        ELSE Recover /\ UNCHANGED result
    /\ UNCHANGED own

\* The device gives the CSW, and the controller drops it as a repetition: the
\* descriptor stays active, and the device has nothing more to send.
CswDropped ==
    /\ host.at = "csw"
    /\ device.phase = "status" /\ ~device.haltIn /\ toggle.in # device.in
    /\ device' = [device EXCEPT !.phase = "command", !.in = Flip(@, 1)]
    /\ UNCHANGED <<host, toggle, result, own, reset>>

\* The pipe is halted, the device gives data instead, or the wire is bad.
CswFails ==
    /\ host.at = "csw"
    /\ UNCHANGED device
    /\ Queue("in", 1)
    /\ Recover
    /\ UNCHANGED <<result, own>>

-----------------------------------------------------------------------------
(* reset_dev *)

\* usb_msd_reset(), whose result is ignored.
Reset ==
    /\ host.at = "reset"
    /\ device' \in {device, [device EXCEPT !.phase = "command"]}
    /\ host' = [host EXCEPT !.at = "clear in"]
    /\ UNCHANGED <<toggle, result, own, reset>>

\* usb_msd_clear_halt(umd->bulk_in)
ClearIn ==
    /\ host.at = "clear in"
    /\ device' \in {device, [device EXCEPT !.haltIn = FALSE, !.in = 0]}
    /\ host' = [host EXCEPT !.at = "clear out"]
    /\ UNCHANGED <<toggle, result, own, reset>>

\* usb_msd_clear_halt(umd->bulk_out), and ERR_XFER.
ClearOut ==
    /\ host.at = "clear out"
    /\ device' \in {device, [device EXCEPT !.haltOut = FALSE, !.out = 0]}
    /\ Returns("error")
    /\ UNCHANGED <<toggle, own, reset>>

Proceed ==
    \/ CbwTaken \/ CbwDropped
    \/ DataDone
    \/ CswRead \/ CswDropped
    \/ Reset \/ ClearIn \/ ClearOut

StorageNext ==
    \/ \E dir \in Directions, n \in 1 .. MaxPackets : Command(dir, n)
    \/ CbwFails \/ DataFails \/ CswFails
    \/ Proceed

StorageSpec == StorageInit /\ [][StorageNext]_storageVars

\* The device and the controller go on as long as they can.
StorageFairSpec == StorageSpec /\ WF_storageVars(Proceed)

-----------------------------------------------------------------------------
(* Properties *)

\* Every variable keeps its type, and a data stage has a direction.
StorageTypeOK ==
    /\ host \in [at : {"idle", "cbw", "data", "csw", "reset", "clear in", "clear out"},
                dir : Directions, packets : Nat, tag : Nat]
    /\ host.at = "data" => host.dir # "none"
    /\ toggle \in [in : {0, 1}, out : {0, 1}]
    /\ device \in [phase : {"command", "data", "status"}, dir : Directions,
                  packets : Nat, tag : Nat, in : {0, 1}, out : {0, 1},
                  haltIn : BOOLEAN, haltOut : BOOLEAN]
    /\ result \in {"none", "status", "error"} /\ own \in BOOLEAN /\ reset \in BOOLEAN

\* The device has no tag that the host has not given, and that of the command
\* at hand only if it has got it.
TagsTell ==
    /\ device.tag <= host.tag
    /\ host.at # "idle" => host.tag > 0
    /\ host.tag > 0 /\ device.tag = host.tag => own

\* A status that usb_msd_read_write() returns is the status of its own
\* command, which the device has got once: never that of an earlier one which
\* was left behind when a reset failed or a CBW was dropped.
StatusIsOwn ==
    /\ StorageTypeOK
    /\ result = "status" /\ host.at = "idle" => own
    /\ TagsTell

\* usb_msd.c:225, "any error is handled by device reset": every command comes
\* to an end as long as reset_dev has not been needed.  Behind it the pipes
\* may be out of step, since only the device's toggles are set to 0.
CommandEnds == host.at # "idle" ~> host.at = "idle" \/ reset
=============================================================================
