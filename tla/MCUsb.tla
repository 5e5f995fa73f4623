-------------------------------- MODULE MCUsb -------------------------------
(***************************************************************************)
(* The layers of the USB driver side by side: a task with control          *)
(* transfers and a keyboard on the host controller, the hub with the       *)
(* drivers behind it, and the commands of a disk.  Each layer sees the one *)
(* below it through its interface only; the one called layer moves in a    *)
(* behaviour.                                                              *)
(***************************************************************************)
EXTENDS UsbDevices, UsbStorage, Sequences

CONSTANTS t1, k1, u1, u2, none

VARIABLES
    layer,
    horiz, vert, prev, td, tdList, freeXfer, freeTdc, made, recent, lock, task,
    handlers, pipe, hc, usbInt

schedule == <<horiz, vert, prev, td, tdList, freeXfer, freeTdc, made, recent,
              lock, task, handlers, pipe, hc, usbInt>>
usbVars == <<layer, schedule, devicesVars, storageVars>>

Control == INSTANCE Uhci WITH
        Tasks <- {t1}, Keyboards <- {k1}, Pids <- {"setup"}, Nobody <- none,
        NUnits <- 2, NTds <- 3, MaxPackets <- 2

UsbInit ==
    /\ layer \in {"control", "devices", "storage"}
    /\ Control!Init /\ DevicesInit /\ StorageInit

Only(l) == layer = l /\ UNCHANGED layer

OnBus(Step) == Only("control") /\ Step /\ UNCHANGED <<devicesVars, storageVars>>
OnHub(Step) == Only("devices") /\ Step /\ UNCHANGED <<schedule, storageVars>>
OnDisk(Step) == Only("storage") /\ Step /\ UNCHANGED <<schedule, devicesVars>>

UsbNext == OnBus(Control!Next) \/ OnHub(DevicesNext) \/ OnDisk(StorageNext)

User == <<u1, u2>>

\* The fairness of Uhci, UsbDevices and UsbStorage.  As layer never changes,
\* fairness of a step of one layer or another is fairness of both.
UsbFairSpec ==
    /\ UsbInit /\ [][UsbNext]_usbVars
    /\ WF_usbVars(OnBus(Control!HcStep)) /\ WF_usbVars(OnDisk(Proceed))
    /\ SF_usbVars(OnBus(Control!TaskStep(t1)) \/ OnHub(HubStep))
    /\ \A i \in 1 .. 2 :
          /\ SF_usbVars(\/ OnBus(Control!UnitStep(Control!BulkOut + i))
                        \/ OnHub(Acquire(User[i])))
          /\ WF_usbVars(OnHub(Done(User[i])))

-----------------------------------------------------------------------------
(* Properties, with those of UsbDevices and UsbStorage *)

\* uhci_read_write(): a transfer comes to an end, stalled or not.
TransferEnds == Control!TransferEnds
=============================================================================
