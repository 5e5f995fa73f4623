---------------------------- MODULE DriverProofs ----------------------------
(***************************************************************************)
(* The drivers: the hub's table of devices and the commands of a disk, for *)
(* any number of ports, users, attempts, commands and packets; the reports *)
(* of a USB keyboard, for any keys; the mailbox of the PS/2 keyboard, for  *)
(* any number of tasks and readers.                                        *)
(*                                                                         *)
(* The pointer scsi leads to a live driver, and a status belongs to the    *)
(* command it is returned for.  A key that is held is typed once, because  *)
(* last_report remembers it.  The keyboard's handler finds the lock of the *)
(* mailbox free, because readers take it with interrupts disabled, and it  *)
(* wakes a reader for each character.                                      *)
(***************************************************************************)
EXTENDS UsbDevices, UsbStorage, UsbKeyboard, Keyboard, QueueLemmas, TLAPS

-----------------------------------------------------------------------------
(* The hub's table of devices *)

\* uhci_init(): an empty hub, no disk.
LEMMA DevicesStart == DevicesInit => DriverAlive
<1> SUFFICES ASSUME DevicesInit PROVE DriverAlive
  OBVIOUS
<1>1. 1 \in Ports /\ NULL \notin Ports /\ Nobody # Hub
  BY DevicesAssumption DEF Ports, NULL, Nobody, Hub
<1>2. DevicesTypeOK
  BY <1>1, DevicesAssumption DEF DevicesInit, DevicesTypeOK, NoDevice
<1>3. ScsiAlive
  BY DEF DevicesInit, ScsiAlive
<1>4. HubInStep
  BY <1>1 DEF DevicesInit, HubInStep, At, InScsiInit
<1> QED  BY <1>2, <1>3, <1>4 DEF DriverAlive

\* The next port of the scan is a port.
LEMMA NextPortIsPort ==
    /\ NPorts \in Nat /\ NPorts > 0 /\ Attempts \in Nat
    /\ \A p \in Ports : 1 + (p % NPorts) \in Ports
<1>1. NPorts \in Nat /\ NPorts > 0 /\ Attempts \in Nat
  BY DevicesAssumption
<1>2. ASSUME NEW p \in Nat PROVE p % NPorts \in 0 .. NPorts - 1
  BY <1>1
<1> QED  BY <1>1, <1>2 DEF Ports

\* Every step keeps the tables of the hub, the pointer scsi and its lock in
\* agreement.
LEMMA DevicesStep == DriverAlive /\ [DevicesNext]_devicesVars => DriverAlive'
<1> SUFFICES ASSUME DriverAlive, [DevicesNext]_devicesVars PROVE DriverAlive'
  OBVIOUS
<1> DEFINE Devs == [udd : {"NULL", "none", "msd", "hid"}, data : BOOLEAN]
           Records == [connected : BOOLEAN, udev : Devs]
           Places == {"scan", "configure", "init", "scsi_init", "ready",
                      "capacity", "own lock", "scsi_free", "free", "crash"}
<1>1. /\ plugged \in [Ports -> Kinds \cup {"nothing"}]
      /\ port \in [Ports -> Records]
      /\ hub \in [at : Places, port : Ports, left : 0 .. Attempts]
      /\ scsi \in Ports \cup {NULL}
      /\ scsi_dev_lock \in Users \cup {Hub, Nobody}
      /\ user \in [Users -> {"idle", "acquire", "command"}]
      /\ ScsiAlive /\ HubInStep
  BY Zenon DEF DriverAlive, DevicesTypeOK
<1>2. /\ NULL \notin Ports /\ Hub # Nobody /\ Hub \notin Users
      /\ Nobody \notin Users
  BY DevicesAssumption DEF Ports, NULL, Nobody, Hub
<1>3. SUFFICES ASSUME DevicesNext PROVE DriverAlive'
  BY ZenonT(30)
     DEF devicesVars, DriverAlive, DevicesTypeOK, ScsiAlive, HubInStep, At, 
         InScsiInit, Udev
<1>4. hub.port \in Ports /\ Udev \in Devs /\ port[hub.port] \in Records
  BY Zenon, <1>1 DEF Udev
<1>5. /\ MsdDevice \in Devs /\ MsdDevice.udd = "msd" /\ MsdDevice.data = TRUE
      /\ NewDevice \in Devs /\ NewDevice.udd = "none"
      /\ NoDevice \in Devs /\ NoDevice.udd = "NULL"
  BY DEF MsdDevice, NewDevice, NoDevice
<1>6. ASSUME NextPort
      PROVE  /\ hub' \in [at : Places, port : Ports, left : 0 .. Attempts]
             /\ hub'.at = "scan"
  BY <1>4, <1>6, NextPortIsPort DEF NextPort
<1>7. ASSUME NEW place \in Places, To(place)
      PROVE  /\ hub' \in [at : Places, port : Ports, left : 0 .. Attempts]
             /\ hub'.at = place /\ hub'.port = hub.port
  BY Zenon, <1>1, <1>7 DEF To
<1>8. scsi = hub.port => /\ scsi # NULL /\ Udev = MsdDevice
                         /\ port[hub.port].connected \/ hub.at = "free"
  BY <1>1, <1>2, <1>4, ZenonT(30) DEF ScsiAlive, HubInStep, Udev, At
<1>9. ASSUME NEW place \in Places, NEW p \in Ports, NEW n \in 0 .. Attempts,
             \/ hub' = [hub EXCEPT !.at = place, !.left = n] /\ p = hub.port
             \/ hub' = [hub EXCEPT !.left = n] /\ p = hub.port /\ place = hub.at
             \/ hub' = [hub EXCEPT !.port = p] /\ place = hub.at
      PROVE  /\ hub' \in [at : Places, port : Ports, left : 0 .. Attempts]
             /\ hub'.at = place /\ hub'.port = p
  <2>1. CASE hub' = [hub EXCEPT !.at = place, !.left = n] /\ p = hub.port
    BY Zenon, <1>1, <2>1
  <2>2. CASE hub' = [hub EXCEPT !.left = n] /\ p = hub.port /\ place = hub.at
    BY Zenon, <1>1, <2>2
  <2>3. CASE hub' = [hub EXCEPT !.port = p] /\ place = hub.at
    BY Zenon, <1>1, <2>3
  <2> QED  BY Zenon, <1>9, <2>1, <2>2, <2>3
<1>10. /\ 1 \in Ports /\ Attempts \in 0 .. Attempts
       /\ hub.left > 0 => hub.left - 1 \in 0 .. Attempts
  <2>1. hub.left \in 0 .. Attempts
    BY Zenon, <1>1
  <2> QED  BY <2>1, NextPortIsPort DEF Ports
<1> USE DEF At, InScsiInit, Udev, SetUdev
<1>11. CASE \E p \in Ports : Pull(p) \/ \E kind \in Kinds : Plug(p, kind)
  <2>1. /\ plugged' \in [Ports -> Kinds \cup {"nothing"}]
        /\ UNCHANGED <<port, hub, scsi, scsi_dev_lock, user>>
    <3>1. PICK p \in Ports, kind \in Kinds \cup {"nothing"} :
            /\ plugged' = [plugged EXCEPT ![p] = kind]
            /\ UNCHANGED <<port, hub, scsi, scsi_dev_lock, user>>
      BY <1>11, Zenon DEF Pull, Plug
    <3> QED  BY Zenon, <1>1, <3>1
  <2> QED  BY Zenon, <1>1, <2>1
              DEF DriverAlive, DevicesTypeOK, ScsiAlive, HubInStep
<1>12. CASE \E u \in Users : Call(u) \/ Acquire(u) \/ Done(u)
  <2>1. PICK u \in Users : Call(u) \/ Acquire(u) \/ Done(u)
    BY <1>12
  <2>2. UNCHANGED <<plugged, port, hub, scsi>>
    BY <2>1 DEF Call, Acquire, Done
  <2>3. CASE Call(u)
    <3>1. /\ user[u] = "idle" /\ user' = [user EXCEPT ![u] = "acquire"]
          /\ UNCHANGED scsi_dev_lock
      BY <2>3 DEF Call
    <3> QED  BY Zenon, <1>1, <2>2, <3>1
                DEF DriverAlive, DevicesTypeOK, ScsiAlive, HubInStep
  <2>4. CASE Acquire(u)
    <3>1. /\ user[u] = "acquire" /\ scsi_dev_lock = Nobody
          /\ \/ /\ scsi = NULL /\ UNCHANGED scsi_dev_lock
                /\ user' = [user EXCEPT ![u] = "idle"]
             \/ /\ scsi # NULL /\ scsi_dev_lock' = u
                /\ user' = [user EXCEPT ![u] = "command"]
      BY <2>4 DEF Acquire
    <3>2. DevicesTypeOK' /\ ScsiAlive'
      BY ZenonT(30), <1>1, <1>2, <2>2, <3>1 DEF DevicesTypeOK, ScsiAlive
    <3>3. scsi_dev_lock # Hub /\ scsi_dev_lock' # Hub
      BY <1>2, <3>1
    <3>4. HubInStep'
      BY <1>1, <2>2, <3>3, Zenon DEF HubInStep
    <3> QED  BY <3>2, <3>4 DEF DriverAlive
  <2>5. CASE Done(u)
    <3>1. /\ user[u] = "command" /\ scsi_dev_lock' = Nobody
          /\ user' = [user EXCEPT ![u] = "idle"] /\ scsi_dev_lock = u
      BY Zenon, <1>1, <2>5 DEF Done, ScsiAlive
    <3>2. DevicesTypeOK' /\ ScsiAlive'
      BY Zenon, <1>1, <1>2, <2>2, <3>1 DEF DevicesTypeOK, ScsiAlive
    <3>3. scsi_dev_lock # Hub /\ scsi_dev_lock' # Hub
      BY <1>2, <3>1
    <3>4. HubInStep'
      BY <1>1, <2>2, <3>3, Zenon DEF HubInStep
    <3> QED  BY <3>2, <3>4 DEF DriverAlive
  <2> QED  BY <2>1, <2>3, <2>4, <2>5
<1>13. ASSUME UNCHANGED <<plugged, scsi, scsi_dev_lock, user>>,
              ~InScsiInit,
              hub' \in [at : Places, port : Ports, left : 0 .. Attempts],
              port' \in [Ports -> Records],
              \A p \in Ports \ {hub.port} : port'[p] = port[p],
              scsi = hub.port => /\ port'[hub.port].udev = MsdDevice
                                 /\ \/ port'[hub.port].connected
                                    \/ hub'.at = "free" /\ hub'.port = hub.port,
              hub'.at \notin {"ready", "capacity", "own lock"},
              hub'.at \in {"configure", "init", "scsi_init"}
                 => port'[hub'.port].connected,
              hub'.at = "configure" => port'[hub'.port].udev = NewDevice,
              hub'.at = "scsi_init" => port'[hub'.port].udev = MsdDevice
       PROVE  DriverAlive'
  <2>1. DevicesTypeOK'
    BY Zenon, <1>1, <1>13 DEF DevicesTypeOK
  <2>2. ScsiAlive'
    BY ZenonT(30), <1>1, <1>13 DEF ScsiAlive
  <2>3. ASSUME scsi # NULL
        PROVE  port'[scsi].connected \/ (hub'.at = "free" /\ scsi = hub'.port)
    <3>1. CASE scsi = hub.port
      BY <1>13, <3>1, Zenon
    <3>2. CASE scsi # hub.port
      <4>1. port[scsi].connected /\ port'[scsi] = port[scsi]
        BY <1>1, <1>13, <2>3, <3>2, Zenon DEF HubInStep
      <4> QED  BY <4>1, Zenon
    <3> QED  BY <3>1, <3>2
  <2>4. scsi_dev_lock' # Hub /\ ~InScsiInit'
    BY Zenon, <1>1, <1>13 DEF HubInStep
  <2>5. HubInStep'
    BY <1>13, <2>3, <2>4, Zenon DEF HubInStep
  <2> QED  BY <2>1, <2>2, <2>5 DEF DriverAlive
<1>14. CASE Scan
  <2> DEFINE p == hub.port
             current == Connected(p)
  <2>1. /\ hub.at = "scan" /\ UNCHANGED <<plugged, scsi, scsi_dev_lock, user>>
        /\ current \in BOOLEAN
    BY <1>14, Zenon DEF Scan, Connected
  <2>2. ASSUME port' = [port EXCEPT ![p].connected = current]
        PROVE  /\ port' \in [Ports -> Records]
               /\ port'[p].udev = Udev /\ port'[p].connected = current
               /\ \A q \in Ports \ {p} : port'[q] = port[q]
    <3> HIDE DEF current
    <3> QED  BY Zenon, <1>1, <1>4, <2>1, <2>2
  <2>3. ASSUME port' = [[port EXCEPT ![p].connected = current]
                            EXCEPT ![p].udev = NewDevice]
        PROVE  /\ port' \in [Ports -> Records]
               /\ port'[p].udev = NewDevice /\ port'[p].connected = current
               /\ \A q \in Ports \ {p} : port'[q] = port[q]
    <3> HIDE DEF current
    <3> QED  BY ZenonT(30), <1>1, <1>4, <1>5, <2>1, <2>3
  <2>4. CASE /\ \/ port[p].connected = current
                \/ port[p].connected /\ Udev = NoDevice
             /\ port' = [port EXCEPT ![p].connected = current]
             /\ NextPort
    <3>1. scsi = hub.port => port[p].connected = current
      BY <1>5, <1>8, <2>4, Zenon
    <3> HIDE DEF current, p
    <3> QED  BY Zenon, <1>4, <1>6, <1>8, <1>13, <2>1, <2>2, <2>4, <3>1 DEF p
  <2>5. CASE /\ port[p].connected /\ ~current /\ Udev # NoDevice
             /\ port' = [port EXCEPT ![p].connected = current]
             /\ To("free")
    <3> HIDE DEF current, p
    <3> QED  BY Zenon, <1>4, <1>7, <1>8, <1>13, <2>1, <2>2, <2>5 DEF p
  <2>6. CASE /\ ~port[p].connected /\ current
             /\ port' = [[port EXCEPT ![p].connected = current]
                            EXCEPT ![p].udev = NewDevice]
             /\ To("configure")
    <3>1. scsi # hub.port
      BY <1>8, <2>1, <2>6, Zenon
    <3> HIDE DEF current, p
    <3> QED  BY Zenon, <1>5, <1>7, <1>13, <2>1, <2>3, <2>6, <3>1 DEF p
  <2> QED  BY SMTT(30), <1>14, <2>4, <2>5, <2>6 DEF Scan
<1>15. CASE ScanNoMemory
  <2>1. /\ hub.at = "scan" /\ UNCHANGED <<plugged, scsi, scsi_dev_lock, user>>
        /\ ~port[hub.port].connected /\ scsi # hub.port
    BY <1>8, <1>15, Zenon DEF ScanNoMemory
  <2>2. /\ hub' \in [at : Places, port : Ports, left : 0 .. Attempts]
        /\ hub'.at = "scan"
    <3>1. /\ hub' = [hub EXCEPT !.port = 1] /\ hub.at \in Places
          /\ hub.left \in 0 .. Attempts
      BY Zenon, <1>1, <1>15, <2>1 DEF ScanNoMemory
    <3> QED  BY Zenon, <1>9, <1>10, <2>1, <3>1
  <2>3. /\ port' \in [Ports -> Records]
        /\ \A p \in Ports \ {hub.port} : port'[p] = port[p]
    BY Zenon, <1>1, <1>4, <1>15 DEF ScanNoMemory
  <2> QED  BY Zenon, <1>13, <2>1, <2>2, <2>3
<1>16. CASE Configure
  <2>1. /\ hub.at = "configure"
        /\ UNCHANGED <<plugged, scsi, scsi_dev_lock, user>>
        /\ scsi # hub.port /\ port[hub.port].connected
    BY <1>1, <1>5, <1>8, <1>16, Zenon DEF Configure, HubInStep
  <2>2. CASE NextPort /\ UNCHANGED port
    BY Zenon, <1>1, <1>6, <1>13, <2>1, <2>2
  <2>3. CASE /\ plugged[hub.port] \in {"disk", "keyboard"} /\ To("init")
             /\ SetUdev([Udev EXCEPT !.udd = DriverOf(plugged[hub.port])])
    <3>1. DriverOf(plugged[hub.port]) \in {"msd", "hid"}
      BY <2>3 DEF DriverOf
    <3>2. /\ port' \in [Ports -> Records]
          /\ \A p \in Ports \ {hub.port} : port'[p] = port[p]
          /\ port'[hub.port].connected = port[hub.port].connected
      BY Zenon, <1>1, <1>4, <2>3, <3>1
    <3> QED  BY Zenon, <1>7, <1>13, <2>1, <2>3, <3>2
  <2> QED  BY SMTT(30), <1>16, <2>2, <2>3 DEF Configure
<1>17. CASE HidInit
  <2>1. /\ hub.at = "init" /\ UNCHANGED <<plugged, scsi, scsi_dev_lock, user>>
        /\ scsi # hub.port /\ NextPort
    BY <1>5, <1>8, <1>17 DEF HidInit
  <2>2. PICK d \in BOOLEAN : SetUdev([Udev EXCEPT !.data = d])
    <3>1. PICK boot \in {0, -3}, idle \in {0, -3} :
            SetUdev([Udev EXCEPT !.data = (boot - idle >= 0)])
      BY <1>17, Zenon DEF HidInit
    <3>2. (boot - idle >= 0) = TRUE \/ (boot - idle >= 0) = FALSE
      OBVIOUS
    <3> QED  BY <3>1, <3>2, Zenon
  <2>3. /\ port' \in [Ports -> Records]
        /\ \A p \in Ports \ {hub.port} : port'[p] = port[p]
    BY Zenon, <1>1, <1>4, <2>2
  <2> QED  BY Zenon, <1>6, <1>13, <2>1, <2>3
<1>18. CASE MsdInit
  <2>1. /\ hub.at = "init" /\ UNCHANGED <<plugged, scsi, scsi_dev_lock, user>>
        /\ Udev.udd = "msd" /\ port[hub.port].connected
    BY Zenon, <1>1, <1>18 DEF MsdInit, HubInStep
  <2>2. CASE NextPort /\ UNCHANGED port
    BY Zenon, <1>1, <1>6, <1>8, <1>13, <2>1, <2>2
  <2>3. CASE SetUdev([Udev EXCEPT !.data = TRUE]) /\ To("scsi_init")
    <3>1. [Udev EXCEPT !.data = TRUE] = MsdDevice
      <4>1. ASSUME NEW d \in BOOLEAN
            PROVE  LET x == [Udev EXCEPT !.data = d]
                   IN  x \in Devs /\ x.udd = Udev.udd /\ x.data = d
        BY <1>4
      <4>2. \A x \in Devs : x.udd = "msd" /\ x.data = TRUE => x = MsdDevice
        BY DEF MsdDevice
      <4> QED  BY <2>1, <4>1, <4>2, Zenon
    <3>2. /\ port' \in [Ports -> Records] /\ port'[hub.port].udev = MsdDevice
          /\ \A p \in Ports \ {hub.port} : port'[p] = port[p]
          /\ port'[hub.port].connected = port[hub.port].connected
      BY ZenonT(30), <1>1, <1>4, <1>5, <2>3, <3>1
    <3> QED  BY Zenon, <1>7, <1>8, <1>13, <2>1, <2>3, <3>2
  <2> QED  BY <1>18, <2>2, <2>3 DEF MsdInit
<1>19. CASE ScsiInit
  <2>1. /\ hub.at = "scsi_init" /\ UNCHANGED <<plugged, port, user>>
        /\ scsi_dev_lock = Nobody /\ Udev = MsdDevice
        /\ port[hub.port].connected
    BY Zenon, <1>1, <1>19 DEF ScsiInit, HubInStep
  <2>2. CASE scsi # NULL /\ NextPort /\ UNCHANGED <<scsi, scsi_dev_lock>>
    BY Zenon, <1>1, <1>6, <1>8, <1>13, <2>1, <2>2
  <2>3. CASE /\ scsi = NULL /\ scsi' = hub.port /\ scsi_dev_lock' = Hub
             /\ hub' = [hub EXCEPT !.at = "ready", !.left = Attempts]
    <3>1. /\ hub' \in [at : Places, port : Ports, left : 0 .. Attempts]
          /\ hub'.at = "ready" /\ hub'.port = hub.port
      BY Zenon, <1>4, <1>9, <1>10, <2>3
    <3>2. DevicesTypeOK'
      BY Zenon, <1>1, <2>1, <2>3, <3>1 DEF DevicesTypeOK
    <3>3. ScsiAlive'
      BY Zenon, <1>1, <2>1, <2>3 DEF ScsiAlive
    <3>4. HubInStep'
      BY Zenon, <1>1, <2>1, <2>3, <3>1 DEF HubInStep
    <3> QED  BY <3>2, <3>3, <3>4 DEF DriverAlive
  <2> QED  BY <1>19, <2>2, <2>3 DEF ScsiInit
<1>20. CASE TestUnitReady
  <2>1. /\ hub.at = "ready"
        /\ UNCHANGED <<plugged, port, scsi, scsi_dev_lock, user>>
        /\ \/ To("capacity") \/ To("own lock")
           \/ hub.left > 0 /\ hub' = [hub EXCEPT !.left = @ - 1]
    BY Zenon, <1>20 DEF TestUnitReady
  <2>2. /\ hub' \in [at : Places, port : Ports, left : 0 .. Attempts]
        /\ hub'.at \in {"ready", "capacity", "own lock"} /\ hub'.port = hub.port
    BY ZenonT(30), <1>4, <1>7, <1>9, <1>10, <2>1
  <2>3. DevicesTypeOK' /\ ScsiAlive'
    BY Zenon, <1>1, <2>1, <2>2 DEF DevicesTypeOK, ScsiAlive
  <2>4. HubInStep'
    BY Zenon, <1>1, <2>1, <2>2 DEF HubInStep
  <2> QED  BY <2>3, <2>4 DEF DriverAlive
<1>21. CASE ReadCapacity
  <2>1. /\ hub.at = "capacity" /\ UNCHANGED <<plugged, port, scsi, user>>
        /\ scsi_dev_lock' = Nobody /\ scsi_dev_lock = Hub
        /\ NextPort \/ To("scsi_free")
    BY Zenon, <1>1, <1>21 DEF ReadCapacity, HubInStep
  <2>2. /\ hub' \in [at : Places, port : Ports, left : 0 .. Attempts]
        /\ hub'.at \in {"scan", "scsi_free"}
    BY Zenon, <1>6, <1>7, <2>1
  <2>3. DevicesTypeOK'
    BY Zenon, <1>1, <2>1, <2>2 DEF DevicesTypeOK
  <2>4. ScsiAlive'
    BY Zenon, <1>1, <1>2, <2>1 DEF ScsiAlive
  <2>5. HubInStep'
    BY Zenon, <1>1, <1>2, <2>1, <2>2 DEF HubInStep
  <2> QED  BY <2>3, <2>4, <2>5 DEF DriverAlive
<1>22. ASSUME scsi_dev_lock = Nobody, scsi' = NULL, NextPort,
              UNCHANGED <<plugged, scsi_dev_lock, user>>,
              port' \in [Ports -> Records]
       PROVE  DriverAlive'
  <2>1. DevicesTypeOK'
    BY Zenon, <1>1, <1>6, <1>22 DEF DevicesTypeOK
  <2>2. ScsiAlive'
    BY Zenon, <1>1, <1>2, <1>22 DEF ScsiAlive
  <2>3. HubInStep'
    BY Zenon, <1>2, <1>6, <1>22 DEF HubInStep
  <2> QED  BY <2>1, <2>2, <2>3 DEF DriverAlive
<1>23. CASE ScsiFree
  BY Zenon, <1>1, <1>22, <1>23 DEF ScsiFree
<1>24. CASE FreeMsd
  <2>1. port' \in [Ports -> Records]
    BY Zenon, <1>1, <1>4, <1>5, <1>24 DEF FreeMsd
  <2> QED  BY <1>22, <1>24, <2>1 DEF FreeMsd
<1>25. CASE FreeHid
  <2>1. /\ hub.at = "free" /\ UNCHANGED <<plugged, scsi, scsi_dev_lock, user>>
        /\ scsi # hub.port /\ NextPort
    BY <1>5, <1>8, <1>25 DEF FreeHid
  <2>2. /\ port' \in [Ports -> Records]
        /\ \A p \in Ports \ {hub.port} : port'[p] = port[p]
    BY ZenonT(30), <1>1, <1>4, <1>5, <1>25 DEF FreeHid
  <2> QED  BY Zenon, <1>6, <1>13, <2>1, <2>2
<1>26. CASE FreeFails
  <2>1. /\ hub.at = "free"
        /\ UNCHANGED <<plugged, port, scsi, scsi_dev_lock, user>>
        /\ scsi # hub.port /\ To("crash")
    BY <1>5, <1>8, <1>26, Zenon DEF FreeFails
  <2> QED  BY Zenon, <1>1, <1>7, <1>13, <2>1
<1> QED  BY <1>3, <1>11, <1>12, <1>14, <1>15, <1>16, <1>17, <1>18, <1>19, <1>20,
            <1>21, <1>23, <1>24, <1>25, <1>26, Zenon DEF DevicesNext, HubStep

\* Whatever is plugged in, pulled out, rejected or not ready: scsi is NULL or
\* leads to memory of a mass storage driver that is in use, and it stays so
\* while a command runs.
THEOREM DriverStaysAlive == DevicesSpec => []DriverAlive
  BY DevicesStart, DevicesStep, PTL DEF DevicesSpec

-----------------------------------------------------------------------------
(* The commands of a disk *)

\* usb_configure_device(): no command has been given.
LEMMA StorageStarts == StorageInit => StatusIsOwn
<1> SUFFICES ASSUME StorageInit PROVE StatusIsOwn
  OBVIOUS
<1>1. own = FALSE /\ reset = FALSE /\ result = "none"
  BY Zenon DEF StorageInit
<1>2. StorageTypeOK
  BY Zenon, <1>1 DEF StorageInit, StorageTypeOK, Directions
<1>3. TagsTell
  BY DEF StorageInit, TagsTell
<1> QED  BY <1>1, <1>2, <1>3, Zenon DEF StatusIsOwn

\* A toggle bit stays a bit.
LEMMA FlipIsBit ==
    ASSUME NEW bit \in {0, 1}, NEW n \in Nat PROVE Flip(bit, n) \in {0, 1}
<1>1. bit + n \in Nat
  OBVIOUS
<1> QED  BY <1>1 DEF Flip

\* A command takes a tag that the device has not seen, and only CbwTaken gives
\* it to the device.
LEMMA StorageStep == StatusIsOwn /\ [StorageNext]_storageVars => StatusIsOwn'
<1> SUFFICES ASSUME StatusIsOwn, [StorageNext]_storageVars PROVE StatusIsOwn'
  OBVIOUS
<1> DEFINE Places == {"idle", "cbw", "data", "csw", "reset", "clear in",
                      "clear out"}
           Toggles == [in : {0, 1}, out : {0, 1}]
           Hosts == [at : Places, dir : Directions, packets : Nat, tag : Nat]
           Devices == [phase : {"command", "data", "status"}, dir : Directions,
                       packets : Nat, tag : Nat, in : {0, 1}, out : {0, 1},
                       haltIn : BOOLEAN, haltOut : BOOLEAN]
<1>1. /\ host \in Hosts /\ device \in Devices
      /\ toggle \in Toggles
      /\ result \in {"none", "status", "error"} /\ own \in BOOLEAN
      /\ reset \in BOOLEAN
      /\ host.at = "data" => host.dir \in {"in", "out"}
      /\ result = "status" /\ host.at = "idle" => own
      /\ device.tag <= host.tag
      /\ host.at # "idle" => host.tag > 0
      /\ host.tag > 0 /\ device.tag = host.tag => own
  BY Zenon DEF StatusIsOwn, StorageTypeOK, TagsTell, Directions
<1>2. ASSUME NEW pipe \in {"in", "out"}, NEW n \in Nat, Queue(pipe, n)
      PROVE  toggle' \in Toggles
  <2>1. Flip(toggle[pipe], n) \in {0, 1}
    BY Zenon, <1>1, FlipIsBit
  <2> QED  BY Zenon, <1>1, <1>2, <2>1 DEF Queue
<1>3. ASSUME host' \in Hosts, device' \in Devices, toggle' \in Toggles,
             host'.at = "data" => host'.dir # "none",
             result' \in {"none", "status", "error"},
             own' \in BOOLEAN, reset' \in BOOLEAN,
             result' = "status" /\ host'.at = "idle" => own',
             device'.tag <= host'.tag, host'.at # "idle" => host'.tag > 0,
             host'.tag > 0 /\ device'.tag = host'.tag => own'
      PROVE  StatusIsOwn'
  BY Zenon, <1>3 DEF StatusIsOwn, StorageTypeOK, TagsTell
<1>4. ASSUME host.at # "idle", NEW place \in Places \ {"idle"},
             host' = [host EXCEPT !.at = place],
             place = "data" => host.dir # "none",
             device' \in Devices, device'.tag = device.tag,
             toggle' \in Toggles, UNCHANGED <<result, own>>,
             reset' \in BOOLEAN
      PROVE  StatusIsOwn'
  <2>1. /\ host' \in Hosts /\ host'.at = place /\ host'.tag = host.tag
        /\ host'.dir = host.dir
    BY Zenon, <1>1, <1>4
  <2> HIDE DEF Hosts, Devices, Toggles
  <2> QED  BY Zenon, <1>1, <1>3, <1>4, <2>1
<1>5. CASE UNCHANGED storageVars
  <2>1. UNCHANGED <<host, toggle, device, result, own, reset>>
    BY <1>5 DEF storageVars
  <2>2. /\ host' = host /\ toggle' = toggle /\ device' = device
        /\ result' = result /\ own' = own /\ reset' = reset
    BY <2>1, Zenon
  <2>3. host.at = "data" => host.dir # "none"
    BY Zenon, <1>1
  <2> HIDE DEF Hosts, Devices, Toggles
  <2> QED  BY <1>1, <1>3, <2>2, <2>3, Zenon
<1>6. ASSUME NEW dir \in Directions, NEW n \in 1 .. MaxPackets, Command(dir, n)
      PROVE  StatusIsOwn'
  <2>1. own' = FALSE /\ UNCHANGED <<toggle, device, result, reset>>
    BY <1>6, Zenon DEF Command
  <2>2. host.tag \in Nat /\ device.tag \in Nat /\ device.tag <= host.tag
    BY Zenon, <1>1
  <2>3. host' = [at |-> "cbw", dir |-> dir,
                 packets |-> IF dir = "none" THEN 0 ELSE n,
                 tag |-> host.tag + 1]
    BY <1>6, Zenon DEF Command
  <2>4. host' \in Hosts /\ host'.at = "cbw" /\ host'.tag = host.tag + 1
    BY <2>2, <2>3
  <2> HIDE DEF Hosts, Devices, Toggles
  <2>5. device.tag <= host'.tag /\ host'.tag > 0 /\ device.tag # host'.tag
    BY <2>2, <2>4
  <2> QED  BY <1>1, <1>3, <2>1, <2>4, <2>5, Zenon
<1>7. CASE CbwTaken
  <2>1. /\ host.at = "cbw" /\ Queue("out", 1) /\ own' = TRUE
        /\ host' = [host EXCEPT !.at = AfterCbw] /\ UNCHANGED <<result, reset>>
    BY <1>7, Zenon DEF CbwTaken, On
  <2>2. /\ host' \in Hosts /\ host'.at \in {"csw", "data"}
        /\ host'.tag = host.tag
        /\ host'.at = "data" => host'.dir # "none"
    BY Zenon, <1>1, <2>1 DEF AfterCbw
  <2>3. device' \in Devices /\ device'.tag = host.tag
    <3>1. Flip(device.out, 1) \in {0, 1}
      BY Zenon, <1>1, FlipIsBit
    <3> QED  BY ZenonT(30), <1>1, <1>7, <3>1 DEF CbwTaken
  <2>4. toggle' \in Toggles
    BY <1>2, <2>1
  <2>5. host.tag \in Nat /\ host.tag > 0
    BY Zenon, <1>1, <2>1
  <2> HIDE DEF Hosts, Devices, Toggles
  <2>6. device'.tag <= host'.tag /\ host'.tag > 0
    BY <2>2, <2>3, <2>5
  <2> QED  BY <1>1, <1>3, <2>1, <2>2, <2>3, <2>4, <2>6, Zenon
<1>8. CASE CbwDropped
  <2>1. /\ host.at = "cbw" /\ Queue("out", 1)
        /\ UNCHANGED <<device, result, own, reset>>
        /\ host' = [host EXCEPT !.at = AfterCbw]
    BY <1>8, Zenon DEF CbwDropped, On
  <2>2. /\ AfterCbw \in Places \ {"idle"}
        /\ (AfterCbw = "data" => host.dir # "none")
    BY DEF AfterCbw
  <2>3. toggle' \in Toggles
    BY <1>2, <2>1
  <2> HIDE DEF Hosts, Devices, Toggles
  <2> QED  BY <1>1, <1>4, <2>1, <2>2, <2>3, Zenon
<1>9. CASE CbwFails
  <2>1. /\ host.at = "cbw" /\ Queue("out", 1) /\ UNCHANGED <<result, own>>
        /\ host' = [host EXCEPT !.at = "reset"] /\ reset' = TRUE
        /\ device' = device \/ device' = [device EXCEPT !.haltOut = TRUE]
    BY <1>9, Zenon DEF CbwFails, Recover
  <2>2. device' \in Devices /\ device'.tag = device.tag
    BY Zenon, <1>1, <2>1
  <2>3. toggle' \in Toggles
    BY <1>2, <2>1
  <2> HIDE DEF Hosts, Devices, Toggles
  <2> QED  BY Zenon, <1>4, <2>1, <2>2, <2>3
<1>10. CASE DataDone
  <2>1. /\ host.at = "data" /\ Queue(host.dir, host.packets)
        /\ UNCHANGED <<result, own, reset>>
        /\ host' = [host EXCEPT !.at = "csw"]
        /\ device' = [device EXCEPT !.phase = "status",
                        ![host.dir] = Flip(@, host.packets)]
    BY <1>10, Zenon DEF DataDone, On
  <2>2. host.dir \in {"in", "out"} /\ host.packets \in Nat
    BY Zenon, <1>1, <2>1
  <2>3. device' \in Devices /\ device'.tag = device.tag
    <3>1. Flip(device[host.dir], host.packets) \in {0, 1}
      BY Zenon, <1>1, <2>2, FlipIsBit
    <3> QED  BY Zenon, <1>1, <2>1, <2>2, <3>1
  <2>4. toggle' \in Toggles
    BY <1>2, <2>1, <2>2
  <2> HIDE DEF Hosts, Devices, Toggles
  <2> QED  BY Zenon, <1>1, <1>4, <2>1, <2>3, <2>4
<1>11. CASE DataFails
  <2>1. /\ host.at = "data" /\ Queue(host.dir, host.packets)
        /\ UNCHANGED <<result, own>> /\ host' = [host EXCEPT !.at = "reset"]
        /\ reset' = TRUE
    BY <1>11, Zenon DEF DataFails, Recover
  <2>2. host.dir \in {"in", "out"} /\ host.packets \in Nat
    BY Zenon, <1>1, <2>1
  <2>3. PICK k \in 0 .. host.packets, halt \in BOOLEAN :
          device' = [device EXCEPT ![host.dir] = Flip(@, k),
                      !.haltIn = @ \/ (halt /\ host.dir = "in"),
                      !.haltOut = @ \/ (halt /\ host.dir = "out"),
                      !.phase = IF @ = "data" /\ (k = host.packets \/ halt)
                                THEN "status" ELSE @]
    BY <1>11, Zenon DEF DataFails
  <2>4. device' \in Devices /\ device'.tag = device.tag
    <3>1. device[host.dir] \in {0, 1} /\ k \in Nat
      <4>1. k \in Nat
        BY <2>2
      <4> QED  BY Zenon, <1>1, <2>2, <4>1
    <3>2. Flip(device[host.dir], k) \in {0, 1}
      BY <3>1, FlipIsBit
    <3>3. PICK i \in BOOLEAN, o \in BOOLEAN,
               phase \in {"command", "data", "status"} :
            device' = [device EXCEPT ![host.dir] = Flip(@, k),
                        !.haltIn = i, !.haltOut = o, !.phase = phase]
      <4> DEFINE i == device.haltIn \/ (halt /\ host.dir = "in")
                 o == device.haltOut \/ (halt /\ host.dir = "out")
                 phase == IF device.phase = "data" /\ (k = host.packets \/ halt)
                          THEN "status" ELSE device.phase
      <4>1. (i = TRUE \/ i = FALSE) /\ (o = TRUE \/ o = FALSE)
        BY Zenon, <1>1
      <4>2. phase \in {"command", "data", "status"}
        BY Zenon, <1>1
      <4>3. device' = [device EXCEPT ![host.dir] = Flip(@, k),
                        !.haltIn = i, !.haltOut = o, !.phase = phase]
        BY <2>2, <2>3, Zenon
      <4> HIDE DEF i, o, phase
      <4> QED  BY <4>1, <4>2, <4>3, Zenon
    <3> QED  BY Zenon, <1>1, <2>2, <3>2, <3>3
  <2>5. toggle' \in Toggles
    BY <1>2, <2>1, <2>2
  <2> HIDE DEF Hosts, Devices, Toggles
  <2> QED  BY Zenon, <1>4, <2>1, <2>4, <2>5
<1>12. CASE CswRead
  <2>1. /\ host.at = "csw" /\ Queue("in", 1) /\ UNCHANGED own
        /\ device' = [device EXCEPT !.phase = "command", !.in = Flip(@, 1)]
        /\ \/ /\ device.tag = host.tag /\ Returns("status") /\ UNCHANGED reset
           \/ Recover /\ UNCHANGED result
    BY <1>12, Zenon DEF CswRead, CswAccepted
  <2>2. device' \in Devices /\ device'.tag = device.tag
    <3>1. Flip(device.in, 1) \in {0, 1}
      BY Zenon, <1>1, FlipIsBit
    <3> QED  BY Zenon, <1>1, <2>1, <3>1
  <2>3. toggle' \in Toggles
    BY <1>2, <2>1
  <2>4. CASE device.tag = host.tag /\ Returns("status") /\ UNCHANGED reset
    <3>1. /\ host' \in Hosts /\ host'.at = "idle" /\ host'.tag = host.tag
          /\ result' = "status" /\ host.tag > 0 /\ device.tag <= host.tag
      BY Zenon, <1>1, <2>1, <2>4 DEF Returns
    <3>2. own = TRUE
      BY <1>1, <2>4, <3>1, Zenon
    <3> HIDE DEF Hosts, Devices, Toggles
    <3> QED  BY <1>1, <1>3, <2>1, <2>2, <2>3, <2>4, <3>1, <3>2, Zenon
  <2>5. CASE Recover /\ UNCHANGED result
    <3> HIDE DEF Hosts, Devices, Toggles
    <3> QED  BY Zenon, <1>4, <2>1, <2>2, <2>3, <2>5 DEF Recover
  <2> QED  BY <2>1, <2>4, <2>5
<1>13. CASE CswDropped
  <2>1. /\ host.at = "csw" /\ UNCHANGED <<host, toggle, result, own, reset>>
        /\ device' = [device EXCEPT !.phase = "command", !.in = Flip(@, 1)]
    BY <1>13, Zenon DEF CswDropped
  <2>2. device' \in Devices /\ device'.tag = device.tag
    <3>1. Flip(device.in, 1) \in {0, 1}
      BY Zenon, <1>1, FlipIsBit
    <3> QED  BY Zenon, <1>1, <2>1, <3>1
  <2> HIDE DEF Hosts, Devices, Toggles
  <2> QED  BY <1>1, <1>3, <2>1, <2>2, Zenon
<1>14. CASE CswFails
  <2>1. /\ host.at = "csw" /\ Queue("in", 1)
        /\ UNCHANGED <<device, result, own>>
        /\ host' = [host EXCEPT !.at = "reset"] /\ reset' = TRUE
    BY <1>14, Zenon DEF CswFails, Recover
  <2>2. toggle' \in Toggles
    BY <1>2, <2>1
  <2> HIDE DEF Hosts, Devices, Toggles
  <2> QED  BY Zenon, <1>1, <1>4, <2>1, <2>2
<1>15. CASE Reset
  <2>1. /\ host.at = "reset" /\ UNCHANGED <<toggle, result, own, reset>>
        /\ host' = [host EXCEPT !.at = "clear in"]
        /\ device' \in {device, [device EXCEPT !.phase = "command"]}
    BY <1>15, Zenon DEF Reset
  <2>2. device' \in Devices /\ device'.tag = device.tag
    BY Zenon, <1>1, <2>1
  <2> HIDE DEF Hosts, Devices, Toggles
  <2> QED  BY Zenon, <1>1, <1>4, <2>1, <2>2
<1>16. CASE ClearIn
  <2>1. /\ host.at = "clear in" /\ UNCHANGED <<toggle, result, own, reset>>
        /\ host' = [host EXCEPT !.at = "clear out"]
        /\ device' \in {device, [device EXCEPT !.haltIn = FALSE, !.in = 0]}
    BY <1>16, Zenon DEF ClearIn
  <2>2. device' \in Devices /\ device'.tag = device.tag
    BY Zenon, <1>1, <2>1
  <2> HIDE DEF Hosts, Devices, Toggles
  <2> QED  BY Zenon, <1>1, <1>4, <2>1, <2>2
<1>17. CASE ClearOut
  <2>1. /\ host.at = "clear out" /\ UNCHANGED <<toggle, own, reset>>
        /\ host' = [host EXCEPT !.at = "idle"] /\ result' = "error"
        /\ device' \in {device, [device EXCEPT !.haltOut = FALSE, !.out = 0]}
    BY <1>17, Zenon DEF ClearOut, Returns
  <2>2. device' \in Devices /\ device'.tag = device.tag
    BY ZenonT(30), <1>1, <2>1
  <2>3. host' \in Hosts /\ host'.at = "idle" /\ host'.tag = host.tag
    BY Zenon, <1>1, <2>1
  <2> HIDE DEF Hosts, Devices, Toggles
  <2> QED  BY Zenon, <1>1, <1>3, <2>1, <2>2, <2>3
<1> QED
  BY <1>5, <1>6, <1>7, <1>8, <1>9, <1>10, <1>11,
     <1>12, <1>13, <1>14, <1>15, <1>16, <1>17, Zenon DEF StorageNext, Proceed

\* For any number of commands and packets, and however often CBWs are dropped
\* and resets fail: a status that usb_msd_read_write() returns is that of its
\* own command.
THEOREM StatusStaysOwn == StorageSpec => []StatusIsOwn
  BY StorageStarts, StorageStep, PTL DEF StorageSpec

-----------------------------------------------------------------------------
(* The USB keyboard's reports *)

\* A report that has room for every key lists every key.
OrdersCover ==
    \A S \in SUBSET UsbKeys : \A s \in Injection(1 .. Cardinality(S), S) :
        /\ Cardinality(S) \in Nat /\ s \in [1 .. Cardinality(S) -> S]
        /\ \A k \in S : \E i \in 1 .. Cardinality(S) : s[i] = k

\* No key is down and nothing has been typed.
LEMMA UsbKeyboardStart == UsbKeyboardInit => TypedRemembered
  BY SMTT(30) DEF UsbKeyboardInit, TypedRemembered, EmptyReport, Range

\* The keyboard lists the keys that are down, or ErrorRollOver.
LEMMA ReportListsKeys ==
    ASSUME OrdersCover, held.keys \in SUBSET UsbKeys, NEW keys \in Reports
    PROVE  /\ keys \in [1 .. Slots -> UsbKeys \cup {NoKey, ErrorRollOver}]
           /\ Cardinality(held.keys) > Slots \/ held.keys \subseteq Range(keys)
<1>1. CASE Cardinality(held.keys) > Slots
  BY <1>1 DEF Reports
<1>2. CASE ~(Cardinality(held.keys) > Slots)
  <2>1. PICK s \in Injection(1 .. Cardinality(held.keys), held.keys) :
            keys = [i \in 1 .. Slots |-> IF i \in DOMAIN s THEN s[i] ELSE NoKey]
    BY Zenon, <1>2 DEF Reports
  <2>2. /\ Cardinality(held.keys) \in Nat
        /\ s \in [1 .. Cardinality(held.keys) -> held.keys]
        /\ \A k \in held.keys : \E i \in 1 .. Cardinality(held.keys) : s[i] = k
    BY Zenon DEF OrdersCover
  <2>3. keys \in [1 .. Slots -> UsbKeys \cup {NoKey, ErrorRollOver}]
    BY Zenon, <2>1, <2>2
  <2>4. 1 .. Cardinality(held.keys) \subseteq 1 .. Slots
    BY <1>2, <2>2, UsbKeyboardAssumption
  <2>5. ASSUME NEW k \in held.keys PROVE k \in Range(keys)
    <3>1. PICK i \in 1 .. Cardinality(held.keys) : s[i] = k
      BY Zenon, <2>2
    <3>2. i \in 1 .. Slots /\ keys[i] = k
      BY Zenon, <2>1, <2>2, <2>4, <3>1
    <3> QED  BY Zenon, <2>3, <3>2 DEF Range
  <2> QED  BY Zenon, <2>3, <2>5
<1> QED  BY Zenon, <1>1, <1>2

\* Every step keeps the typed keys in last_report, or in a rollover.
LEMMA UsbKeyboardStep ==
    OrdersCover /\ TypedRemembered /\ [UsbKeyboardNext]_usbKeyboardVars
        => TypedRemembered'
<1> SUFFICES ASSUME OrdersCover, TypedRemembered, [UsbKeyboardNext]_usbKeyboardVars
             PROVE  TypedRemembered'
  BY Zenon
<1> USE DEF TypedRemembered
<1>1. CASE UNCHANGED usbKeyboardVars
  BY Zenon, <1>1 DEF usbKeyboardVars
<1>2. ASSUME NEW k \in UsbKeys, KeyDown(k) PROVE TypedRemembered'
  BY Zenon, <1>2 DEF KeyDown
<1>3. ASSUME NEW k \in UsbKeys, KeyUp(k) PROVE TypedRemembered'
  <2>1. /\ held'.keys = held.keys \ {k} /\ held' \in [keys : SUBSET UsbKeys, shift : BOOLEAN]
        /\ typed' = typed \ {k} /\ rolled' = rolled \ {k}
        /\ UNCHANGED <<report, last, fresh>>
    BY Zenon, <1>3 DEF KeyUp
  <2> QED  BY Zenon, <2>1
<1>4. CASE ShiftKey
  BY Zenon, <1>4 DEF ShiftKey
<1>5. CASE Deliver
  <2>1. PICK keys \in Reports :
            /\ report' = [keys |-> keys, shift |-> held.shift] /\ fresh' = TRUE
            /\ rolled' = IF Cardinality(held.keys) > Slots THEN typed ELSE rolled
            /\ UNCHANGED <<held, last, typed>>
    BY Zenon, <1>5 DEF Deliver
  <2>2. /\ keys \in [1 .. Slots -> UsbKeys \cup {NoKey, ErrorRollOver}]
        /\ Cardinality(held.keys) > Slots \/ held.keys \subseteq Range(keys)
    BY Zenon, ReportListsKeys
  <2>3. typed' \ rolled' \subseteq Range(last'.keys) \cap Range(report'.keys)
    BY Zenon, <2>1, <2>2
  <2> QED  BY Zenon, <2>1, <2>2, <2>3
<1>6. CASE usb_kbd_ihandler
  <2>1. /\ last' = report /\ fresh' = FALSE /\ report' = report /\ held' = held
        /\ typed' = typed \cup (NewKeys \cap held.keys) /\ rolled' = rolled \ NewKeys
    BY Zenon, <1>6 DEF usb_kbd_ihandler
  <2>2. NewKeys \subseteq Range(report.keys)
    BY Zenon DEF NewKeys, Range
  <2> QED  BY Zenon, <2>1, <2>2
<1> QED  BY Zenon, <1>1, <1>2, <1>3, <1>4, <1>5, <1>6 DEF UsbKeyboardNext

\* A call of the handler, when last_report remembers what has been typed.
LEMMA HandlerTypesOnce ==
    ASSUME TypedRemembered, usb_kbd_ihandler
    PROVE  /\ \A i \in 1 .. Slots :
               IsNew(i) /\ report.keys[i] \in typed => report.keys[i] \in rolled
           /\ \A k \in Range(report.keys) \cap held.keys :
               k \in typed' \/ k \in Range(last.keys)
<1>1. typed' = typed \cup (NewKeys \cap held.keys)
  BY Zenon DEF usb_kbd_ihandler
<1>2. ASSUME NEW i \in 1 .. Slots, IsNew(i), report.keys[i] \in typed
      PROVE  report.keys[i] \in rolled
  BY Zenon, <1>2 DEF IsNew, TypedRemembered
<1>3. ASSUME NEW k \in Range(report.keys) \cap held.keys, k \notin Range(last.keys)
      PROVE  k \in typed'
  <2>1. PICK i \in 1 .. Slots : report.keys[i] = k
    BY Zenon DEF Range, TypedRemembered
  <2> QED  BY Zenon, <1>1, <1>3, <2>1 DEF NewKeys, IsNew, TypedRemembered
<1> QED  BY Zenon, <1>2, <1>3

-----------------------------------------------------------------------------
(* The PS/2 keyboard's readers *)

\* What the library says of the readers, as sets.
ReadersCount ==
    \A S \in SUBSET Readers :
        /\ Cardinality(S) \in Nat
        /\ \A r \in Readers :
               /\ r \notin S => Cardinality(S \cup {r}) = Cardinality(S) + 1
               /\ r \in S => Cardinality(S \ {r}) = Cardinality(S) - 1

\* No reader has come, the mailbox is empty and interrupts are enabled.
LEMMA KeyboardStart == KeyboardInit => ReadersInStep
<1> SUFFICES ASSUME KeyboardInit PROVE ReadersInStep
  OBVIOUS
<1>1. Items(<<>>) = {} /\ Distinct(<<>>)
  BY DEF Items, Distinct
<1>2. NoTask \notin Readers
  BY SMTT(30), KeyboardAssumption
<1>3. irq \in [Tasks -> HandlerStates]
  BY DEF KeyboardInit, Out, HandlerStates, Columns
<1>4. /\ pc = [r \in Readers |-> "out"] /\ cli = NoTask /\ lock = NoTask
      /\ waiters = <<>> /\ queue = <<>> /\ wire = <<>> /\ key_release = FALSE
  BY Zenon DEF KeyboardInit
<1>5. \A S : <<>> \in Seq(S)
  OBVIOUS
<1>6. ReaderWoken
  BY Zenon, <1>4 DEF ReaderWoken
<1> QED  BY Zenon, <1>1, <1>2, <1>3, <1>4, <1>5, <1>6 DEF ReadersInStep

\* The keyboard and the handler up to putchar() touch nothing that the
\* readers look at.
LEMMA HandlerKeepsReaders ==
    ASSUME ReadersInStep, NEW t \in Tasks,
           Interrupt(t) \/ Classify(t) \/ Test(t) \/ Modify(t) \/ Convert(t)
    PROVE  ReadersInStep'
<1>1. /\ irq \in [Tasks -> HandlerStates] /\ wire \in Seq(Nat)
      /\ key_release \in BOOLEAN /\ irq[t] \in HandlerStates /\ Out \in HandlerStates
  BY DEF ReadersInStep, HandlerStates, Columns, Out
<1>2. UNCHANGED mailbox
  BY Zenon DEF Interrupt, Classify, Test, Modify, Convert
<1>3. SUFFICES /\ irq' \in [Tasks -> HandlerStates] /\ wire' \in Seq(Nat)
               /\ key_release' \in BOOLEAN
  BY Zenon, <1>2 DEF ReadersInStep, ReaderWoken, Looking, mailbox
<1>4. CASE Interrupt(t)
  <2>1. /\ wire # <<>> /\ wire' = Tail(wire) /\ key_release' = key_release
        /\ irq' = [irq EXCEPT ![t] = [Out EXCEPT !.at = "classify", !.key = Head(wire)]]
    BY Zenon, <1>4 DEF Interrupt, statics
  <2>2. Head(wire) \in Nat /\ Tail(wire) \in Seq(Nat)
    BY Zenon, <1>1, <2>1, TailFacts
  <2>3. [Out EXCEPT !.at = "classify", !.key = Head(wire)] \in HandlerStates
    BY ZenonT(30), <2>2 DEF Out, HandlerStates, Columns
  <2> QED  BY Zenon, <1>1, <2>1, <2>2, <2>3
<1>5. CASE Classify(t)
  <2>1. /\ key_release' = (irq[t].key >= 128) /\ wire' = wire
        /\ \/ irq' = [irq EXCEPT ![t] = [@ EXCEPT !.at = "test"]]
           \/ irq' = [irq EXCEPT ![t] = Out]
    BY Zenon, <1>5 DEF Classify, hardware
  <2>2. [irq[t] EXCEPT !.at = "test"] \in HandlerStates
    BY ZenonT(30), <1>1 DEF HandlerStates
  <2>3. (irq[t].key >= 128) \in BOOLEAN
    BY <1>1 DEF HandlerStates
  <2> QED  BY Zenon, <1>1, <2>1, <2>2, <2>3
<1>6. CASE Test(t)
  <2>1. /\ key_release' = key_release /\ wire' = wire
        /\ \/ irq' = [irq EXCEPT ![t] = [@ EXCEPT !.at = "modify", !.released = key_release]]
           \/ irq' = [irq EXCEPT ![t] = Out]
           \/ irq' = [irq EXCEPT ![t] = [@ EXCEPT !.at = "convert"]]
    BY Zenon, <1>6 DEF Test, hardware, statics
  <2>2. /\ [irq[t] EXCEPT !.at = "modify", !.released = key_release] \in HandlerStates
        /\ [irq[t] EXCEPT !.at = "convert"] \in HandlerStates
    BY ZenonT(30), <1>1 DEF HandlerStates
  <2> QED  BY Zenon, <1>1, <2>1, <2>2
<1>7. CASE Modify(t)
  <2>1. /\ key_release' = key_release /\ wire' = wire
        /\ irq' = [irq EXCEPT ![t] = Out]
    BY Zenon, <1>7 DEF Modify, hardware
  <2> QED  BY Zenon, <1>1, <2>1
<1>8. CASE Convert(t)
  <2>1. /\ key_release' = key_release /\ wire' = wire
        /\ \E c \in Columns : irq' = [irq EXCEPT ![t].at = "put", ![t].column = c]
    <3>1. (CASE shift_status \in {{"LEFT_SHIFT"}, {"RIGHT_SHIFT"}, {"CAPS_SHIFT"}}
                  -> "shift"
             [] shift_status = {"CONTROL"} -> "control"
             [] shift_status = {} -> "no_shift"
             [] OTHER -> "zero") \in Columns
      BY Zenon DEF Columns
    <3> QED  BY Zenon, <1>8, <3>1 DEF Convert, hardware, statics
  <2>2. PICK c \in Columns : irq' = [irq EXCEPT ![t].at = "put", ![t].column = c]
    BY Zenon, <2>1
  <2>3. irq' = [irq EXCEPT ![t] = [irq[t] EXCEPT !.at = "put", !.column = c]]
    BY ZenonT(30), <1>1, <2>2 DEF HandlerStates
  <2>4. [irq[t] EXCEPT !.at = "put", !.column = c] \in HandlerStates
    BY ZenonT(30), <1>1 DEF HandlerStates
  <2> QED  BY Zenon, <1>1, <2>1, <2>3, <2>4
<1> QED  BY Zenon, <1>4, <1>5, <1>6, <1>7, <1>8

\* Scan codes are numbers.
LEMMA KeysKeepReaders ==
    ASSUME ReadersInStep, NEW k \in Keys, Press(k) \/ ReleaseKey(k)
    PROVE  ReadersInStep'
<1>1. k \in Nat /\ k + 128 \in Nat /\ 224 \in Nat
  BY KeyboardAssumption
<1>2. wire \in Seq(Nat) /\ UNCHANGED <<statics, irq, mailbox>>
  BY Zenon DEF ReadersInStep, Press, ReleaseKey
<1>3. PICK code \in Nat : wire' = wire \o Bytes(k, code)
  BY Zenon, <1>1 DEF Press, ReleaseKey
<1>4. wire' \in Seq(Nat)
  BY <1>1, <1>2, <1>3 DEF Bytes
<1> QED  BY Zenon, <1>2, <1>4
            DEF ReadersInStep, ReaderWoken, Looking, mailbox, statics

\* putchar() finds the lock free, because interrupts are enabled.  The reader
\* it wakes was asleep.
LEMMA PutKeepsReaders ==
    ASSUME ReadersCount, ReadersInStep, NEW t \in Tasks, Put(t)
    PROVE  ReadersInStep'
<1> DEFINE Chars == Nat \X Columns
<1>1. /\ irq \in [Tasks -> HandlerStates] /\ queue \in Seq(Chars)
      /\ waiters \in Seq(Readers) /\ Distinct(waiters)
      /\ pc \in [Readers -> {"out", "acquire", "receive", "gap", "blocked", "woken"}]
      /\ Out \in HandlerStates /\ <<irq[t].key, irq[t].column>> \in Chars
  BY DEF ReadersInStep, HandlerStates, Columns, Out
<1>2. cli = NoTask /\ lock = NoTask
  BY Zenon, KeyboardAssumption DEF ReadersInStep, Put, In
<1>3. /\ irq' = [irq EXCEPT ![t] = Out]
      /\ UNCHANGED <<wire, key_release, lock, cli>>
  BY Zenon, <1>2 DEF Put, hardware, statics
<1>4. irq' \in [Tasks -> HandlerStates]
  BY Zenon, <1>1, <1>3
<1>5. \A r \in Readers : pc[r] \notin {"acquire", "receive", "gap"}
  BY Zenon, <1>2, KeyboardAssumption DEF ReadersInStep
<1>6. Looking \in SUBSET Readers /\ Cardinality(Looking) \in Nat
  BY Zenon DEF Looking, ReadersCount
<1>7. CASE UNCHANGED <<queue, waiters, pc>>
  BY Zenon, <1>3, <1>4, <1>7 DEF ReadersInStep, ReaderWoken, Looking
<1>8. CASE queue' = Append(queue, <<irq[t].key, irq[t].column>>)
  <2>1. queue' \in Seq(Chars) /\ Len(queue') = Len(queue) + 1
    BY <1>1, <1>8, AppendFacts
  <2>2. CASE waiters = <<>> /\ UNCHANGED <<waiters, pc>>
    <3>1. ReaderWoken'
      BY Zenon, <2>2 DEF ReaderWoken
    <3> QED  BY Zenon, <1>3, <1>4, <1>5, <2>1, <2>2, <3>1 DEF ReadersInStep
  <2>3. CASE /\ waiters # <<>> /\ waiters' = Tail(waiters)
             /\ pc' = [pc EXCEPT ![Head(waiters)] = "woken"]
    <3> DEFINE r == Head(waiters)
    <3>1. /\ r \in Readers /\ waiters' \in Seq(Readers) /\ Distinct(waiters')
          /\ Items(waiters') = Items(waiters) \ {r} /\ r = waiters[1]
          /\ Len(waiters) \in Nat /\ Len(waiters) >= 1
      BY Zenon, <1>1, <2>3, TailFacts
    <3>2. r \in Items(waiters)
      BY <3>1 DEF Items
    <3>3. pc[r] = "blocked"
      BY Zenon, <3>1, <3>2 DEF ReadersInStep
    <3> HIDE DEF r
    <3>4. /\ pc' \in [Readers -> {"out", "acquire", "receive", "gap", "blocked", "woken"}]
          /\ pc'[r] = "woken" /\ \A q \in Readers \ {r} : pc'[q] = pc[q]
      BY Zenon, <1>1, <2>3, <3>1 DEF r
    <3>5. r \notin Looking /\ Looking' = Looking \cup {r}
      BY Zenon, <3>1, <3>3, <3>4 DEF Looking
    <3>6. Cardinality(Looking') = Cardinality(Looking) + 1
      BY Zenon, <1>6, <3>1, <3>5 DEF ReadersCount
    <3>7. Len(queue) \in Nat /\ Len(queue) <= Cardinality(Looking)
      BY Zenon, <1>1, <2>3, SeqFacts DEF ReadersInStep, ReaderWoken
    <3>8. ReaderWoken'
      BY <1>6, <2>1, <3>6, <3>7 DEF ReaderWoken
    <3>9. ASSUME NEW q \in Readers
          PROVE  /\ cli' = q <=> pc'[q] \in {"acquire", "receive", "gap"}
                 /\ lock' = q <=> pc'[q] = "receive"
                 /\ q \in Items(waiters') <=> pc'[q] = "blocked"
                 /\ pc'[q] # "gap"
      <4>1. CASE q = r
        BY Zenon, <1>2, <1>3, <3>1, <3>4, <4>1, KeyboardAssumption
      <4>2. CASE q # r
        <5>1. pc'[q] = pc[q] /\ (q \in Items(waiters') <=> q \in Items(waiters))
          BY Zenon, <3>1, <3>4, <4>2
        <5> QED  BY Zenon, <1>3, <1>5, <5>1 DEF ReadersInStep
      <4> QED  BY Zenon, <4>1, <4>2
    <3> QED  BY Zenon, <1>2, <1>3, <1>4, <2>1, <3>1, <3>4, <3>8, <3>9 DEF ReadersInStep
  <2> QED  BY Zenon, <1>2, <1>8, <2>2, <2>3, <1>7 DEF Put
<1> QED  BY Zenon, <1>2, <1>7, <1>8 DEF Put

\* getchar() keeps interrupts disabled from the lock to block().
LEMMA GetcharKeepsReaders ==
    ASSUME ReadersCount, ReadersInStep, NEW r \in Readers, Getchar(r)
    PROVE  ReadersInStep'
<1> DEFINE Chars == Nat \X Columns
           Places == {"out", "acquire", "receive", "gap", "blocked", "woken"}
<1>1. /\ pc \in [Readers -> Places] /\ queue \in Seq(Chars)
      /\ waiters \in Seq(Readers) /\ Distinct(waiters)
      /\ Len(queue) \in Nat /\ NoTask \notin Readers
  BY Zenon, SeqFacts, KeyboardAssumption DEF ReadersInStep
<1>2. /\ UNCHANGED <<irq, wire, key_release>>
      /\ \E p \in Places : pc' = [pc EXCEPT ![r] = p]
  BY Zenon DEF Getchar, Enter, AcquireMbox, Receive, Block, hardware, statics
<1>3. /\ pc' \in [Readers -> Places] /\ \A q \in Readers \ {r} : pc'[q] = pc[q]
      /\ \A p : pc' = [pc EXCEPT ![r] = p] => pc'[r] = p
  BY Zenon, <1>1, <1>2
<1>4. /\ Looking \in SUBSET Readers /\ Cardinality(Looking) \in Nat
      /\ r \notin Looking => Cardinality(Looking \cup {r}) = Cardinality(Looking) + 1
      /\ r \in Looking => Cardinality(Looking \ {r}) = Cardinality(Looking) - 1
  BY Zenon DEF Looking, ReadersCount
<1>5. CASE Enter(r)
  <2>1. /\ cli = NoTask /\ pc[r] \in {"out", "woken"} /\ cli' = r /\ pc'[r] = "acquire"
        /\ UNCHANGED <<queue, lock, waiters>>
    BY Zenon, <1>3, <1>5 DEF Enter
  <2>2. Looking' = Looking \cup {r}
    BY Zenon, <1>3, <2>1 DEF Looking
  <2>3. Cardinality(Looking') \in Nat /\ Cardinality(Looking) <= Cardinality(Looking')
    <3>1. CASE r \in Looking
      <4>1. Looking' = Looking
        BY Zenon, <2>2, <3>1
      <4> QED  BY <1>4, <4>1
    <3>2. CASE r \notin Looking
      <4>1. Cardinality(Looking') = Cardinality(Looking) + 1
        BY Zenon, <1>4, <2>2, <3>2
      <4> QED  BY <1>4, <4>1
    <3> QED  BY Zenon, <3>1, <3>2
  <2>4. ReaderWoken'
    <3>1. waiters # <<>> => Len(queue) <= Cardinality(Looking)
      BY Zenon DEF ReadersInStep, ReaderWoken
    <3> QED  BY <1>1, <1>4, <2>1, <2>3, <3>1 DEF ReaderWoken
  <2>5. ASSUME NEW q \in Readers
        PROVE  /\ cli' = q <=> pc'[q] \in {"acquire", "receive", "gap"}
               /\ lock' = q <=> pc'[q] = "receive"
               /\ q \in Items(waiters') <=> pc'[q] = "blocked"
               /\ pc'[q] = "gap" => queue' = <<>>
    <3>1. CASE q = r
      BY Zenon, <2>1, <3>1 DEF ReadersInStep
    <3>2. CASE q # r
      BY Zenon, <1>1, <1>3, <2>1, <3>2 DEF ReadersInStep
    <3> QED  BY Zenon, <3>1, <3>2
  <2> QED  BY Zenon, <1>2, <1>3, <2>1, <2>4, <2>5 DEF ReadersInStep
<1>6. ASSUME pc[r] \in {"acquire", "receive", "gap"} PROVE cli = r
  BY Zenon, <1>6 DEF ReadersInStep
<1>7. CASE AcquireMbox(r)
  <2>1. /\ lock = NoTask /\ pc[r] = "acquire" /\ lock' = r /\ pc'[r] = "receive"
        /\ UNCHANGED <<queue, cli, waiters>>
    BY Zenon, <1>3, <1>7 DEF AcquireMbox
  <2>2. Looking' = Looking
    BY Zenon, <1>3, <2>1 DEF Looking
  <2>3. ReaderWoken'
    BY Zenon, <2>1, <2>2 DEF ReaderWoken, ReadersInStep
  <2>4. ASSUME NEW q \in Readers
        PROVE  /\ cli' = q <=> pc'[q] \in {"acquire", "receive", "gap"}
               /\ lock' = q <=> pc'[q] = "receive"
               /\ q \in Items(waiters') <=> pc'[q] = "blocked"
               /\ pc'[q] = "gap" => queue' = <<>>
    <3>1. CASE q = r
      BY Zenon, <1>6, <2>1, <3>1 DEF ReadersInStep
    <3>2. CASE q # r
      BY Zenon, <1>1, <1>3, <2>1, <3>2 DEF ReadersInStep
    <3> QED  BY Zenon, <3>1, <3>2
  <2> QED  BY Zenon, <1>2, <1>3, <2>1, <2>3, <2>4 DEF ReadersInStep
<1>8. CASE Receive(r)
  <2>1. /\ pc[r] = "receive" /\ lock' = NoTask /\ UNCHANGED waiters /\ cli = r
        /\ lock = r
        /\ \/ /\ queue = <<>> /\ pc'[r] = "gap" /\ UNCHANGED <<queue, cli>>
           \/ /\ queue # <<>> /\ pc'[r] = "out" /\ queue' = Tail(queue) /\ cli' = NoTask
    BY Zenon, <1>3, <1>6, <1>8 DEF Receive, ReadersInStep
  <2>2. r \in Looking /\ Looking' = Looking \ {r}
    BY Zenon, <1>3, <2>1 DEF Looking
  <2>3. queue' \in Seq(Chars) /\ ReaderWoken'
    <3>1. CASE queue = <<>> /\ queue' = queue
      <4>1. r \in Looking => Cardinality(Looking \ {r}) \in Nat
        BY Zenon, <1>4 DEF ReadersCount
      <4> QED  BY <1>1, <2>2, <3>1, <4>1 DEF ReaderWoken
    <3>2. CASE queue # <<>> /\ queue' = Tail(queue)
      <4>1. Tail(queue) \in Seq(Chars) /\ Len(Tail(queue)) = Len(queue) - 1
        BY Zenon, <1>1, <3>2, TailFacts
      <4>2. waiters # <<>> => Len(queue) <= Cardinality(Looking)
        BY Zenon DEF ReadersInStep, ReaderWoken
      <4>3. Cardinality(Looking') = Cardinality(Looking) - 1
        BY Zenon, <1>4, <2>2
      <4>4. waiters' = waiters /\ Len(queue') = Len(queue) - 1
        BY Zenon, <2>1, <3>2, <4>1
      <4>5. ReaderWoken'
        BY <1>1, <1>4, <4>2, <4>3, <4>4 DEF ReaderWoken
      <4> QED  BY Zenon, <3>2, <4>1, <4>5
    <3> QED  BY Zenon, <2>1, <3>1, <3>2
  <2>4. ASSUME NEW q \in Readers
        PROVE  /\ cli' = q <=> pc'[q] \in {"acquire", "receive", "gap"}
               /\ lock' = q <=> pc'[q] = "receive"
               /\ q \in Items(waiters') <=> pc'[q] = "blocked"
               /\ pc'[q] = "gap" => queue' = <<>>
    <3>1. CASE q = r
      BY Zenon, <1>1, <2>1, <3>1 DEF ReadersInStep
    <3>2. CASE q # r
      <4>1. pc'[q] = pc[q] /\ cli # q
        BY <1>3, <2>1, <3>2
      <4>2. cli' # q /\ lock' # q
        BY <1>1, <2>1, <3>2
      <4>3. ~(pc'[q] \in {"acquire", "receive", "gap"})
        BY Zenon, <4>1 DEF ReadersInStep
      <4>4. q \in Items(waiters') <=> pc'[q] = "blocked"
        BY Zenon, <2>1, <4>1 DEF ReadersInStep
      <4> QED  BY SMTT(30), <4>2, <4>3, <4>4
    <3> QED  BY Zenon, <3>1, <3>2
  <2> QED  BY Zenon, <1>2, <1>3, <2>1, <2>3, <2>4 DEF ReadersInStep
<1>9. CASE Block(r)
  <2>1. /\ pc[r] = "gap" /\ waiters' = Append(waiters, r) /\ cli' = NoTask
        /\ pc'[r] = "blocked" /\ UNCHANGED <<queue, lock>> /\ cli = r /\ queue = <<>>
    BY Zenon, <1>3, <1>6, <1>9 DEF Block, ReadersInStep
  <2>2. r \notin Items(waiters)
    BY Zenon, <2>1 DEF ReadersInStep
  <2>3. /\ waiters' \in Seq(Readers) /\ Items(waiters') = Items(waiters) \cup {r}
        /\ Distinct(waiters')
    BY <1>1, <2>1, <2>2, AppendFacts
  <2>4. Cardinality(Looking') \in Nat
    BY Zenon DEF ReadersCount, Looking
  <2>5. ReaderWoken'
    BY <2>1, <2>4 DEF ReaderWoken
  <2>6. ASSUME NEW q \in Readers
        PROVE  /\ cli' = q <=> pc'[q] \in {"acquire", "receive", "gap"}
               /\ lock' = q <=> pc'[q] = "receive"
               /\ q \in Items(waiters') <=> pc'[q] = "blocked"
               /\ pc'[q] = "gap" => queue' = <<>>
    <3>1. CASE q = r
      BY Zenon, <1>1, <2>1, <2>3, <3>1 DEF ReadersInStep
    <3>2. CASE q # r
      BY Zenon, <1>1, <1>3, <2>1, <2>3, <3>2 DEF ReadersInStep
    <3> QED  BY Zenon, <3>1, <3>2
  <2> QED  BY Zenon, <1>2, <1>3, <2>1, <2>3, <2>5, <2>6 DEF ReadersInStep
<1> QED  BY Zenon, <1>5, <1>7, <1>8, <1>9 DEF Getchar

\* Every step keeps the mailbox, its lock and its readers in agreement.
LEMMA KeyboardStep ==
    ReadersCount /\ ReadersInStep /\ [KeyboardNext]_keyboardVars => ReadersInStep'
<1> SUFFICES ASSUME ReadersCount, ReadersInStep, [KeyboardNext]_keyboardVars
             PROVE  ReadersInStep'
  BY Zenon
<1>1. CASE UNCHANGED keyboardVars
  BY Zenon, <1>1 DEF keyboardVars, hardware, statics, mailbox, ReadersInStep,
        ReaderWoken, Looking
<1>2. CASE KeyboardNext
  BY Zenon, <1>2, HandlerKeepsReaders, KeysKeepReaders, PutKeepsReaders,
     GetcharKeepsReaders DEF KeyboardNext, Handler
<1> QED  BY Zenon, <1>1, <1>2

-----------------------------------------------------------------------------
(* The theorems on keyboards.  The facts on cardinality come last: they    *)
(* are hypotheses of the lemmas above, and shown here from the library.    *)

INSTANCE FiniteSetTheorems

\* As many places as keys, none of them twice: every key is there.
LEMMA OrdersCoverKeys == OrdersCover
<1> SUFFICES ASSUME NEW S \in SUBSET UsbKeys,
                    NEW s \in Injection(1 .. Cardinality(S), S)
             PROVE  /\ Cardinality(S) \in Nat /\ s \in [1 .. Cardinality(S) -> S]
                    /\ \A k \in S : \E i \in 1 .. Cardinality(S) : s[i] = k
  BY Zenon DEF OrdersCover
<1>1. IsFiniteSet(S) /\ Cardinality(S) \in Nat
  BY Zenon, UsbKeyboardAssumption, FS_Subset, FS_CardinalityType
<1>2. Cardinality(1 .. Cardinality(S)) = Cardinality(S)
  BY <1>1, FS_Interval
<1>3. s \in Surjection(1 .. Cardinality(S), S)
  BY Zenon, <1>1, <1>2, FS_Injection
<1> QED  BY Zenon, <1>1, <1>3 DEF Surjection, Injection

\* The readers can be counted.
LEMMA FiniteReadersCount == ReadersCount
<1> SUFFICES ASSUME NEW S \in SUBSET Readers
             PROVE  /\ Cardinality(S) \in Nat
                    /\ \A r \in Readers :
                        /\ r \notin S => Cardinality(S \cup {r}) = Cardinality(S) + 1
                        /\ r \in S => Cardinality(S \ {r}) = Cardinality(S) - 1
  BY Zenon DEF ReadersCount
<1>1. IsFiniteSet(S) /\ Cardinality(S) \in Nat
  BY Zenon, KeyboardAssumption, FS_Subset, FS_CardinalityType
<1>2. ASSUME NEW r \in Readers, r \notin S
      PROVE  Cardinality(S \cup {r}) = Cardinality(S) + 1
  BY Zenon, <1>1, <1>2, FS_AddElement
<1>3. ASSUME NEW r \in Readers, r \in S
      PROVE  Cardinality(S \ {r}) = Cardinality(S) - 1
  BY Zenon, <1>1, <1>3, FS_RemoveElement
<1> QED  BY Zenon, <1>1, <1>2, <1>3

\* usb_kbd_ihandler(): a key that has been typed and is still down is in
\* last_report and in the report, unless there was a rollover since; for any
\* keys and any size of the report.
THEOREM TypedKeysRemembered == UsbKeyboardSpec => []TypedRemembered
<1>1. UsbKeyboardInit => TypedRemembered
  BY UsbKeyboardStart
<1>2. TypedRemembered /\ [UsbKeyboardNext]_usbKeyboardVars => TypedRemembered'
  BY Zenon, UsbKeyboardStep, OrdersCoverKeys
<1> QED  BY <1>1, <1>2, PTL DEF UsbKeyboardSpec

\* usb_kbd_ihandler(): a call types no key again that is still down, unless
\* there was a rollover since, and misses no key of the report.
THEOREM KeyTypedOnce == UsbKeyboardSpec => TypedOnce
<1>1. TypedRemembered /\ [UsbKeyboardNext]_usbKeyboardVars =>
        [usb_kbd_ihandler =>
            /\ \A i \in 1 .. Slots :
                IsNew(i) /\ report.keys[i] \in typed => report.keys[i] \in rolled
            /\ \A k \in Range(report.keys) \cap held.keys :
                k \in typed' \/ k \in Range(last.keys)]_usbKeyboardVars
  BY Zenon, HandlerTypesOnce
<1> QED  BY <1>1, TypedKeysRemembered, PTL DEF UsbKeyboardSpec, TypedOnce

\* keyboard.c: putchar(), called in the handler, never waits for the mailbox's
\* lock, and no reader of getchar() sleeps while a character lies there that no
\* other reader has been woken for; for any tasks, readers, keys and capacity.
THEOREM ReadersAreServed == KeyboardSpec => []ReadersServed
<1>1. KeyboardInit => ReadersInStep
  BY KeyboardStart
<1>2. ReadersInStep /\ [KeyboardNext]_keyboardVars => ReadersInStep'
  BY Zenon, KeyboardStep, FiniteReadersCount
<1>3. ReadersInStep => ReadersServed
  BY ZenonT(30) DEF ReadersInStep, ReadersServed, HandlerNeverWaits, HandlerStates
<1> QED  BY <1>1, <1>2, <1>3, PTL DEF KeyboardSpec
=============================================================================
