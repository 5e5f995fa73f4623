----------------------------- MODULE UsbDevices -----------------------------
(***************************************************************************)
(* From the port to the disk: usb_hub.c, usb.c, and the life of the        *)
(* drivers in usb_msd.c, usb_hid.c and scsi.c.                             *)
(*                                                                         *)
(* The USB thread scans the ports of the root hub for ever, configures     *)
(* what has been plugged in and frees what has been pulled out.  Other     *)
(* tasks read and write the disk meanwhile: scsi_dev_lock and the pointer  *)
(* scsi are all they share with it.  What happens on the wire is in Uhci   *)
(* and UsbStorage.                                                         *)
(***************************************************************************)
EXTENDS Integers

CONSTANTS
    Users,    \* tasks that call scsi_read() or scsi_write()
    NPorts,   \* port_num of the root hub
    Kinds,    \* what may be plugged in: "disk", "keyboard", "other"
    Attempts  \* how often scsi_init() tries again (20)

Ports == 1 .. NPorts
NULL == 0
Hub == "hub"
Nobody == "nobody"

\* usb_lookup_driver(), by class and protocol.
DriverOf(kind) == [disk |-> "msd", keyboard |-> "hid", other |-> "none"][kind]

ASSUME DevicesAssumption ==
    /\ NPorts \in Nat \ {0} /\ Attempts \in Nat
    /\ Kinds \subseteq {"disk", "keyboard", "other"}
    /\ {Hub, Nobody} \cap Users = {}

VARIABLES
    plugged,  \* what is in each port, or "nothing"
    port,     \* struct usb_hub_port: status, and the udev with its driver
              \* (udd) and whether the driver got its own memory (data)
    hub,      \* the USB thread: where it is, the port, the attempts left
    scsi,     \* NULL, or the port of the disk that scsi->driver belongs to
    scsi_dev_lock,
    user      \* where each user is

devicesVars == <<plugged, port, hub, scsi, scsi_dev_lock, user>>

NoDevice == [udd |-> "NULL", data |-> FALSE]
NewDevice == [udd |-> "none", data |-> FALSE]
MsdDevice == [udd |-> "msd", data |-> TRUE]

\* uhci_init() registers the root hub.
DevicesInit ==
    /\ plugged = [p \in Ports |-> "nothing"]
    /\ port = [p \in Ports |-> [connected |-> FALSE, udev |-> NoDevice]]
    /\ hub = [at |-> "scan", port |-> 1, left |-> 0]
    /\ scsi = NULL
    /\ scsi_dev_lock = Nobody
    /\ user = [u \in Users |-> "idle"]

-----------------------------------------------------------------------------
(* The world outside *)

Plug(p, kind) ==
    /\ plugged[p] = "nothing"
    /\ plugged' = [plugged EXCEPT ![p] = kind]
    /\ UNCHANGED <<port, hub, scsi, scsi_dev_lock, user>>

Pull(p) ==
    /\ plugged[p] # "nothing"
    /\ plugged' = [plugged EXCEPT ![p] = "nothing"]
    /\ UNCHANGED <<port, hub, scsi, scsi_dev_lock, user>>

-----------------------------------------------------------------------------
(* The USB thread *)

\* uhci_port_status(): disabled, enabled and suspended ports are connected.
Connected(p) == plugged[p] # "nothing"

At(place) == hub.at = place
To(place) == hub' = [hub EXCEPT !.at = place]
NextPort == hub' = [at |-> "scan", port |-> 1 + (hub.port % NPorts), left |-> 0]
Udev == port[hub.port].udev
SetUdev(udev) == port' = [port EXCEPT ![hub.port].udev = udev]

\* usb_hub_scan_ports() for one port.  A device that was exchanged for
\* another since the last look goes unnoticed.
Scan ==
    LET p == hub.port
        previous == port[p].connected
        current == Connected(p)
        status == [port EXCEPT ![p].connected = current]
    IN  /\ At("scan")
        /\ \/ /\ previous = current \/ (previous /\ Udev = NoDevice)
              /\ port' = status
              /\ NextPort
           \/ /\ previous /\ ~current /\ Udev # NoDevice
              /\ port' = status
              /\ To("free")
           \/ /\ ~previous /\ current
              /\ port' = [status EXCEPT ![p].udev = NewDevice]
              /\ To("configure")
        /\ UNCHANGED <<plugged, scsi, scsi_dev_lock, user>>

\* kzalloc() has no memory for a udev: the ports behind this one wait for the
\* next scan, and this one for the next device.
ScanNoMemory ==
    /\ At("scan")
    /\ ~port[hub.port].connected /\ Connected(hub.port)
    /\ port' = [port EXCEPT ![hub.port].connected = TRUE]
    /\ hub' = [hub EXCEPT !.port = 1]
    /\ UNCHANGED <<plugged, scsi, scsi_dev_lock, user>>

\* usb_configure_device(): without a driver, or when a descriptor cannot be
\* read, the udev stays in the port without one.
Configure ==
    /\ At("configure")
    /\ \/ NextPort /\ UNCHANGED port
       \/ /\ plugged[hub.port] \in {"disk", "keyboard"}
          /\ SetUdev([Udev EXCEPT !.udd = DriverOf(plugged[hub.port])])
          /\ To("init")
    /\ UNCHANGED <<plugged, scsi, scsi_dev_lock, user>>

\* usb_hid_init() and usb_keyboard_init().  rc -= usb_hid_set_idle() makes an
\* error of the first request disappear behind an error of the second.
HidInit ==
    /\ At("init") /\ Udev.udd = "hid"
    /\ \E boot, idle \in {0, -3} :
        SetUdev([Udev EXCEPT !.data = (boot - idle >= 0)])
    /\ NextPort
    /\ UNCHANGED <<plugged, scsi, scsi_dev_lock, user>>

\* usb_msd_init() up to scsi_init(): no memory, or on with the disk.
MsdInit ==
    /\ At("init") /\ Udev.udd = "msd"
    /\ \/ NextPort /\ UNCHANGED port
       \/ SetUdev([Udev EXCEPT !.data = TRUE]) /\ To("scsi_init")
    /\ UNCHANGED <<plugged, scsi, scsi_dev_lock, user>>

\* The rejection without its spinlock_release().
ScsiInitKeepsLock ==
    /\ At("scsi_init")
    /\ scsi_dev_lock = Nobody
    /\ scsi_dev_lock' = Hub
    /\ IF scsi # NULL
       THEN NextPort /\ UNCHANGED scsi
       ELSE /\ scsi' = hub.port
            /\ hub' = [hub EXCEPT !.at = "ready", !.left = Attempts]
    /\ UNCHANGED <<plugged, port, user>>

\* scsi_init() up to the first command.
ScsiInit ==
    /\ At("scsi_init")
    /\ scsi_dev_lock = Nobody
    /\ IF scsi # NULL
       THEN NextPort /\ UNCHANGED <<scsi, scsi_dev_lock>>
       ELSE /\ scsi' = hub.port
            /\ scsi_dev_lock' = Hub
            /\ hub' = [hub EXCEPT !.at = "ready", !.left = Attempts]
    /\ UNCHANGED <<plugged, port, user>>

\* scsi_test_unit_ready(), again and again as long as the answer is
\* SCSI_RC_FAILED; a transfer error counts as ready.  When no attempt is left
\* scsi_free() waits for the lock that this very thread holds.
TestUnitReady ==
    /\ At("ready")
    /\ \/ To("capacity")
       \/ IF hub.left > 0 THEN hub' = [hub EXCEPT !.left = @ - 1] ELSE To("own lock")
    /\ UNCHANGED <<plugged, port, scsi, scsi_dev_lock, user>>

\* scsi_read_capacity() and the rest of scsi_init().
ReadCapacity ==
    /\ At("capacity")
    /\ scsi_dev_lock' = Nobody
    /\ NextPort \/ To("scsi_free")
    /\ UNCHANGED <<plugged, port, scsi, user>>

\* scsi_free(), at the end of scsi_init().
ScsiFree ==
    /\ At("scsi_free")
    /\ scsi_dev_lock = Nobody
    /\ scsi' = NULL
    /\ NextPort
    /\ UNCHANGED <<plugged, port, scsi_dev_lock, user>>

\* usb_msd_free() without its scsi_free().
FreeMsdOnly ==
    /\ At("free") /\ Udev.udd = "msd" /\ Udev.data
    /\ SetUdev(NoDevice)
    /\ NextPort
    /\ UNCHANGED <<plugged, scsi, scsi_dev_lock, user>>

\* usb_msd_free(), usb_free_device() and the end of the port's turn.
FreeMsd ==
    /\ At("free") /\ Udev.udd = "msd" /\ Udev.data
    /\ scsi_dev_lock = Nobody
    /\ scsi' = NULL
    /\ SetUdev(NoDevice)
    /\ NextPort
    /\ UNCHANGED <<plugged, scsi_dev_lock, user>>

\* usb_hid_free() and usb_keyboard_free().
FreeHid ==
    /\ At("free") /\ Udev.udd = "hid" /\ Udev.data
    /\ SetUdev(NoDevice)
    /\ NextPort
    /\ UNCHANGED <<plugged, scsi, scsi_dev_lock, user>>

\* usb_free_device() calls through udd, which is NULL without a driver, and
\* usb_msd_free() and usb_hid_free() release what was never allocated, which
\* the assertion in kfree() stops.
FreeFails ==
    /\ At("free")
    /\ ~Udev.data
    /\ To("crash")
    /\ UNCHANGED <<plugged, port, scsi, scsi_dev_lock, user>>

HubStep ==
    \/ Scan \/ ScanNoMemory \/ Configure \/ HidInit \/ MsdInit
    \/ ScsiInit \/ TestUnitReady \/ ReadCapacity \/ ScsiFree
    \/ FreeMsd \/ FreeHid \/ FreeFails

-----------------------------------------------------------------------------
(* The users of the disk *)

\* A call of scsi_read() or scsi_write().
Call(u) ==
    /\ user[u] = "idle"
    /\ user' = [user EXCEPT ![u] = "acquire"]
    /\ UNCHANGED <<plugged, port, hub, scsi, scsi_dev_lock>>

\* scsi_read_write() up to scsi->read() or scsi->write().
Acquire(u) ==
    /\ user[u] = "acquire"
    /\ scsi_dev_lock = Nobody
    /\ IF scsi = NULL
       THEN user' = [user EXCEPT ![u] = "idle"] /\ UNCHANGED scsi_dev_lock
       ELSE user' = [user EXCEPT ![u] = "command"] /\ scsi_dev_lock' = u
    /\ UNCHANGED <<plugged, port, hub, scsi>>

\* The command is over, well or not, which takes yields and time.
Done(u) ==
    /\ user[u] = "command"
    /\ scsi_dev_lock' = Nobody
    /\ user' = [user EXCEPT ![u] = "idle"]
    /\ UNCHANGED <<plugged, port, hub, scsi>>

DevicesNext ==
    \/ \E p \in Ports : Pull(p) \/ \E kind \in Kinds : Plug(p, kind)
    \/ HubStep
    \/ \E u \in Users : Call(u) \/ Acquire(u) \/ Done(u)

DevicesSpec == DevicesInit /\ [][DevicesNext]_devicesVars

\* Commands end (UsbStorage), the threads are scheduled, and a spinlock that
\* is free again and again is got some time.
DevicesFairSpec ==
    /\ DevicesSpec
    /\ SF_devicesVars(HubStep)
    /\ \A u \in Users : SF_devicesVars(Acquire(u)) /\ WF_devicesVars(Done(u))

-----------------------------------------------------------------------------
(* Properties *)

\* Every variable keeps its type.
DevicesTypeOK ==
    /\ plugged \in [Ports -> Kinds \cup {"nothing"}]
    /\ port \in [Ports -> [connected : BOOLEAN,
                          udev : [udd : {"NULL", "none", "msd", "hid"},
                                  data : BOOLEAN]]]
    /\ hub \in [at : {"scan", "configure", "init", "scsi_init", "ready",
                     "capacity", "own lock", "scsi_free", "free", "crash"},
               port : Ports, left : 0 .. Attempts]
    /\ scsi \in Ports \cup {NULL}
    /\ scsi_dev_lock \in Users \cup {Hub, Nobody}
    /\ user \in [Users -> {"idle", "acquire", "command"}]

\* Whenever scsi is set, and in particular while a command runs, it leads to
\* memory of the mass storage driver that has not been freed, whatever is
\* plugged in, pulled out, rejected or not ready meanwhile: scsi_free() comes
\* first, and waits for the command.
ScsiAlive ==
    /\ scsi # NULL => port[scsi].udev = MsdDevice
    /\ \A u \in Users : user[u] = "command" => scsi # NULL /\ scsi_dev_lock = u

InScsiInit == hub.at \in {"ready", "capacity", "own lock"}

\* What the USB thread knows at each place, and that a disk in use is in a
\* port that has been seen connected until its driver is freed.
HubInStep ==
    /\ hub.at \in {"configure", "init", "scsi_init"} => port[hub.port].connected
    /\ At("configure") => Udev = NewDevice
    /\ At("scsi_init") => Udev = MsdDevice
    /\ (scsi_dev_lock = Hub) <=> InScsiInit
    /\ InScsiInit => scsi = hub.port
    /\ scsi # NULL => port[scsi].connected \/ (At("free") /\ scsi = hub.port)

\* usb_hub.c, usb_msd.c, usb_hid.c and scsi.c: a driver that can be called has
\* a device, for the reasons above.
DriverAlive == DevicesTypeOK /\ ScsiAlive /\ HubInStep

\* scsi.c:88, "If any operation is in progress wait to finish": nobody waits
\* for scsi_dev_lock for ever, unless scsi_init() has used up its attempts and
\* waits for itself.
CallsReturn ==
    \A u \in Users : user[u] = "acquire" ~> user[u] # "acquire" \/ At("own lock")

\* scsi.c:37, "A second USB disk has been inserted -> reject it": the first
\* disk stays in use until it leaves its port, or turns out to be unusable.
FirstDiskStays ==
    [][\A p \in Ports :
        scsi = p /\ port[p].connected /\ ~At("scsi_free") => scsi' = p]_devicesVars
=============================================================================
