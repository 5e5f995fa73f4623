----------------------------- MODULE MCDrivers ------------------------------
(***************************************************************************)
(* The safety of the drivers, side by side; only driver moves in a         *)
(* behaviour.                                                              *)
(*                                                                         *)
(* The PS/2 keyboard is looked at twice: two tasks in its handler and two  *)
(* readers, with one key; and one handler at a time with modifiers and an  *)
(* extended key. The USB host controller is looked at four times: two      *)
(* tasks that read from, or write to, the same queue; a task with control  *)
(* transfers of two packets beside a keyboard; and the two with too few    *)
(* descriptors. Then there are the keyboard driver and the heap of the USB *)
(* drivers.                                                                *)
(***************************************************************************)
EXTENDS Keyboard, UsbKeyboard

CONSTANTS t1, t2, k1

VARIABLES
    driver,
    horiz, vert, prev, td, tdList, freeXfer, freeTdc, made, recent,
    xfer_qh_lock, task, handlers, pipe, hc, usbInt,
    chunk, blocks, again, robbed

uhci == <<horiz, vert, prev, td, tdList, freeXfer, freeTdc, made, recent,
          xfer_qh_lock, task, handlers, pipe, hc, usbInt>>
heap == <<chunk, blocks, again, robbed>>
vars == <<driver, keyboardVars, usbKeyboardVars, uhci, heap>>

Reading == INSTANCE Uhci WITH
        Tasks <- {t1, t2}, Keyboards <- {}, Pids <- {"in"},
        NUnits <- 3, NTds <- 3, MaxPackets <- 1, lock <- xfer_qh_lock,
        Nobody <- NoTask
Writing == INSTANCE Uhci WITH
        Tasks <- {t1, t2}, Keyboards <- {}, Pids <- {"out"},
        NUnits <- 3, NTds <- 3, MaxPackets <- 1, lock <- xfer_qh_lock,
        Nobody <- NoTask
Control == INSTANCE Uhci WITH
        Tasks <- {t1}, Keyboards <- {k1}, Pids <- {"setup"},
        NUnits <- 2, NTds <- 3, MaxPackets <- 2, lock <- xfer_qh_lock,
        Nobody <- NoTask
Scarce == INSTANCE Uhci WITH
        Tasks <- {t1}, Keyboards <- {k1}, Pids <- {"in"},
        NUnits <- 2, NTds <- 2, MaxPackets <- 2, lock <- xfer_qh_lock,
        Nobody <- NoTask

A == INSTANCE Allocator WITH CHUNK_NUM <- 6, Sizes <- {1, 2, 3}, Alignments <- {0, 2}

Drivers == {"queue", "modifiers", "usb keyboard", "readers", "writers", "control", "scarce",
            "heap"}

Init ==
    /\ driver \in Drivers
    /\ CASE driver = "readers" -> Reading!Init
         [] driver = "writers" -> Writing!Init
         [] driver = "scarce" -> Scarce!Init
         [] OTHER -> Control!Init
    /\ KeyboardInit /\ UsbKeyboardInit /\ A!Init

Only(d) == driver = d /\ UNCHANGED driver
OnPs2(d, Step) == Only(d) /\ Step /\ UNCHANGED <<usbKeyboardVars, uhci, heap>>
OnUsbKeyboard(Step) == Only("usb keyboard") /\ Step /\ UNCHANGED <<keyboardVars, uhci, heap>>
OnBus(d, Step) == Only(d) /\ Step /\ UNCHANGED <<keyboardVars, usbKeyboardVars, heap>>
OnHeap(Step) == Only("heap") /\ Step /\ UNCHANGED <<keyboardVars, usbKeyboardVars, uhci>>

Letter == 30

\* Steps of KeyboardNext: those with one key, and those of one handler.
OneKey ==
    \/ Press(Letter) \/ ReleaseKey(Letter)
    \/ \E t \in Tasks : Handler(t)
    \/ \E r \in Readers : Getchar(r)
OneHandler ==
    \/ \E k \in Keys \ {Letter} : Press(k) \/ ReleaseKey(k)
    \/ Handler(t1)

Next ==
    \/ OnPs2("queue", OneKey) \/ OnPs2("modifiers", OneHandler)
    \/ OnUsbKeyboard(UsbKeyboardNext)
    \/ OnBus("readers", Reading!Next) \/ OnBus("writers", Writing!Next)
    \/ OnBus("control", Control!Next) \/ OnBus("scarce", Scarce!Next)
    \/ OnHeap(A!Next)

Spec == Init /\ [][Next]_vars

-----------------------------------------------------------------------------
(* Properties *)

\* keyboard.c: shift_status follows the modifier keys, while one interrupt is
\* handled at a time.
ModifiersFollow == driver = "modifiers" => ModifiersFollowKeys

\* uhci.c: what the controller walks while the driver links and unlinks is
\* the driver's queue, and no descriptor in it belongs to anybody else.
ScheduleSound ==
    /\ driver = "readers" => Reading!ScheduleSound
    /\ driver = "writers" => Writing!ScheduleSound
    /\ driver = "control" => Control!ScheduleSound
    /\ driver = "scarce" => Scarce!ScheduleSound

\* allocator.c: blocks never overlap, the list describes them, and a request
\* fails only when there is no room.
HeapSound == driver = "heap" => A!HeapSound
=============================================================================
