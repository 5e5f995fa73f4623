---------------------------- MODULE UsbKeyboard -----------------------------
(***************************************************************************)
(* kernel/usb/usb_keyboard.c: the handler that turns the reports of a boot *)
(* keyboard into characters.                                               *)
(*                                                                         *)
(* A report lists the keys that are down, in any order, and filled up with *)
(* zeroes; a keyboard with more keys down than a report can hold fills it  *)
(* with ErrorRollOver.  The handler compares the report with the one       *)
(* before.  It is called for every interrupt of the controller, also when  *)
(* the report has not changed (uhci.c:640).  A key is typed when its       *)
(* function in the table is called; the character goes to putchar(), which *)
(* is in Keyboard.                                                         *)
(***************************************************************************)
EXTENDS Integers, Sequences, FiniteSets, Functions

CONSTANTS
    Letters,  \* keys for normal_h
    Keypad,   \* keys from 0x54 to 0x63, whose second function is escape_h
    CapsKey, NumKey,
    Slots     \* keys in a report (BOOT_REPORT_SIZE - 2)

UsbKeys == Letters \cup Keypad \cup {CapsKey, NumKey}
NoKey == 0          \* Reserved (no event indicated)
ErrorRollOver == 1

ASSUME UsbKeyboardAssumption ==
    /\ IsFiniteSet(UsbKeys) /\ UsbKeys \cap {NoKey, ErrorRollOver} = {}
    /\ Slots \in Nat

VARIABLES
    held,     \* the keys that are down, and whether a shift key is
    report,   \* uk->report: keys and shift bit
    last,     \* uk->last_report
    fresh,    \* the report has come since the handler last ran
    uk,       \* shift_key, caps_lock_key, num_lock_key
    out,      \* what the last call of the handler typed: key and column
    typed,    \* the keys that have been typed since they went down
    rolled    \* of these, the ones that were hidden by ErrorRollOver since

usbKeyboardVars == <<held, report, last, fresh, uk, out, typed, rolled>>

EmptyReport == [keys |-> [i \in 1 .. Slots |-> NoKey], shift |-> FALSE]

\* usb_keyboard_init() and usb_keyboard_reg_interrupt().
UsbKeyboardInit ==
    /\ held = [keys |-> {}, shift |-> FALSE]
    /\ report = EmptyReport /\ last = EmptyReport /\ fresh = FALSE
    /\ uk = [shift |-> 0, caps |-> 0, num |-> 0]
    /\ out = <<>> /\ typed = {} /\ rolled = {}

-----------------------------------------------------------------------------
(* The keyboard *)

KeyDown(k) ==
    /\ k \notin held.keys
    /\ held' = [held EXCEPT !.keys = @ \cup {k}]
    /\ UNCHANGED <<report, last, fresh, uk, out, typed, rolled>>

KeyUp(k) ==
    /\ k \in held.keys
    /\ held' = [held EXCEPT !.keys = @ \ {k}]
    /\ typed' = typed \ {k}
    /\ rolled' = rolled \ {k}
    /\ UNCHANGED <<report, last, fresh, uk, out>>

ShiftKey ==
    /\ held' = [held EXCEPT !.shift = ~@]
    /\ UNCHANGED <<report, last, fresh, uk, out, typed, rolled>>

Reports ==
    IF Cardinality(held.keys) > Slots
    THEN {[i \in 1 .. Slots |-> ErrorRollOver]}
    ELSE {[i \in 1 .. Slots |-> IF i \in DOMAIN s THEN s[i] ELSE NoKey] :
            s \in Injection(1 .. Cardinality(held.keys), held.keys)}

\* The controller writes a report into uk->report.
Deliver ==
    /\ ~fresh
    /\ \E keys \in Reports : report' = [keys |-> keys, shift |-> held.shift]
    /\ fresh' = TRUE
    /\ rolled' = IF Cardinality(held.keys) > Slots THEN typed ELSE rolled
    /\ UNCHANGED <<held, last, uk, out, typed>>

-----------------------------------------------------------------------------
(* The handler *)

IsNewInSlot(i) == report.keys[i] # last.keys[i]

\* The key in slot i was not in the previous set.
IsNew(i) == report.keys[i] \notin Range(last.keys)

\* func0 or func1 for one key: what is typed, and the new state of the locks.
\* Characters and arrows are told apart by the column.
Typed(k, state) ==
    IF k \in Keypad /\ state.num = 0 THEN <<<<k, "escape">>>>
    ELSE IF k \in Letters \cup Keypad
    THEN <<<<k, IF (state.shift + state.caps) % 2 = 0 THEN "key" ELSE "key1">>>>
    ELSE <<>>

Locks(k, state) ==
    IF k = CapsKey THEN [state EXCEPT !.caps = 1 - @]
    ELSE IF k = NumKey THEN [state EXCEPT !.num = 1 - @] ELSE state

\* The keys that the report has and the one before had not.
NewKeys == {report.keys[i] : i \in {j \in 1 .. Slots : IsNew(j)}} \cap UsbKeys

\* usb_kbd_ihandler(): the slots in their order, each with the locks that the
\* slots before have left.
usb_kbd_ihandler ==
    LET start == [uk EXCEPT !.shift = IF report.shift THEN 1 ELSE 0]
        after[i \in 0 .. Slots] ==
            IF i = 0 THEN [uk |-> start, out |-> <<>>]
            ELSE IF ~IsNew(i) THEN after[i - 1]
            ELSE [uk |-> Locks(report.keys[i], after[i - 1].uk),
                  out |-> after[i - 1].out \o Typed(report.keys[i], after[i - 1].uk)]
    IN  /\ uk' = after[Slots].uk
        /\ out' = after[Slots].out
        /\ last' = report
        /\ fresh' = FALSE
        /\ typed' = typed \cup (NewKeys \cap held.keys)
        /\ rolled' = rolled \ NewKeys
        /\ UNCHANGED <<held, report>>

UsbKeyboardNext ==
    \/ \E k \in UsbKeys : KeyDown(k) \/ KeyUp(k)
    \/ ShiftKey \/ Deliver \/ usb_kbd_ihandler

UsbKeyboardSpec == UsbKeyboardInit /\ [][UsbKeyboardNext]_usbKeyboardVars

-----------------------------------------------------------------------------
(* Properties *)

\* What last_report remembers of the keys that have been typed: until they go
\* up, or ErrorRollOver hides them, they are in it, and in a report that the
\* handler has not looked at yet.
TypedRemembered ==
    /\ held \in [keys : SUBSET UsbKeys, shift : BOOLEAN]
    /\ report.keys \in [1 .. Slots -> UsbKeys \cup {NoKey, ErrorRollOver}]
    /\ last.keys \in [1 .. Slots -> UsbKeys \cup {NoKey, ErrorRollOver}]
    /\ fresh \in BOOLEAN /\ ~fresh => report = last
    /\ typed \subseteq held.keys
    /\ typed \ rolled \subseteq Range(last.keys) \cap Range(report.keys)

\* usb_keyboard.c:252, "If the key was in the previous set skip over it": a
\* key that is held down is typed once, in whatever order the reports list
\* it, however often the handler is called, and whatever other keys do, unless
\* ErrorRollOver has wiped it from last_report in between.  And the handler
\* leaves no key of its report untyped.
TypedOnce ==
    [][usb_kbd_ihandler =>
        /\ \A i \in 1 .. Slots :
            IsNew(i) /\ report.keys[i] \in typed => report.keys[i] \in rolled
        /\ \A k \in Range(report.keys) \cap held.keys :
            k \in typed' \/ k \in Range(last.keys)]_usbKeyboardVars
=============================================================================
