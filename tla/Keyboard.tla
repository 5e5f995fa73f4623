------------------------------ MODULE Keyboard ------------------------------
(***************************************************************************)
(* kernel/keyboard.c.  keyboard_interrupt() runs on the stack of whatever  *)
(* task is interrupted, with interrupts enabled: the timer may switch to   *)
(* another task, whose own interrupt mask lets the next keyboard interrupt *)
(* in, so several tasks may be inside the handler.  putchar() and          *)
(* getchar() disable interrupts around their use of the mailbox; getchar() *)
(* keeps them disabled until block() switches to another task.             *)
(***************************************************************************)
EXTENDS Queues, FiniteSets

CONSTANTS
    Tasks,      \* the tasks on which interrupts are handled
    Readers,    \* the tasks that call getchar()
    NoTask,
    Keys,       \* the keys of the keyboard, by scan code
    Extended,   \* those keys whose scan code has the prefix 0xe0
    Capacity,   \* characters that fit into the mailbox (1024 \div CHAR_MSG_SIZE)
    MaxWire     \* bytes the keyboard holds back for the computer

ASSUME KeyboardAssumption ==
    /\ Keys \subseteq 0 .. 127 /\ Extended \subseteq Keys
    /\ Capacity \in Nat /\ MaxWire \in Nat
    /\ NoTask \notin Tasks \cup Readers /\ IsFiniteSet(Readers)

VARIABLES
    down,           \* the keys that are down
    wire,           \* the bytes that port 0x60 will deliver
    shift_status,   \* the set of bits
    key_release, multiread,
    irq,            \* of each task: its locals in the interrupt handler
    queue,          \* the characters in the mailbox
    lock,           \* who has the lock of the mailbox
    waiters,        \* the wait queue of moreData
    cli,            \* the task that runs with interrupts disabled
    pc              \* of each reader: where it is in getchar()

hardware == <<down, wire>>
statics == <<shift_status, key_release, multiread>>
mailbox == <<queue, lock, waiters, cli, pc>>
keyboardVars == <<hardware, statics, irq, mailbox>>

\* Outside the handler; inside: where, the byte read, what was read from
\* key_release, and the column taken from scan_to_ascii.
Out == [at |-> "out", key |-> 0, released |-> FALSE, column |-> "none"]

KeyboardInit ==
    /\ down = {} /\ wire = <<>>
    /\ shift_status = {} /\ key_release = FALSE /\ multiread = FALSE
    /\ irq = [t \in Tasks |-> Out]
    /\ queue = <<>> /\ lock = NoTask /\ waiters = <<>> /\ cli = NoTask
    /\ pc = [r \in Readers |-> "out"]

-----------------------------------------------------------------------------
(* The keyboard: a key that is held down repeats *)

Bytes(k, code) == IF k \in Extended THEN <<224, code>> ELSE <<code>>

Press(k) ==
    /\ Len(wire) < MaxWire
    /\ down' = down \cup {k}
    /\ wire' = wire \o Bytes(k, k)
    /\ UNCHANGED <<statics, irq, mailbox>>

ReleaseKey(k) ==
    /\ Len(wire) < MaxWire
    /\ k \in down
    /\ down' = down \ {k}
    /\ wire' = wire \o Bytes(k, k + 128)
    /\ UNCHANGED <<statics, irq, mailbox>>

-----------------------------------------------------------------------------
(* keyboard_interrupt() *)

\* Task t, inside the handler, runs with interrupts enabled.
In(t, place) == cli = NoTask /\ irq[t].at = place
Code(t) == irq[t].key % 128

\* key = inb(0x60).
Interrupt(t) ==
    /\ In(t, "out") /\ wire # <<>>
    /\ irq' = [irq EXCEPT ![t] = [Out EXCEPT !.at = "classify", !.key = Head(wire)]]
    /\ wire' = Tail(wire)
    /\ UNCHANGED <<down, statics, mailbox>>

\* Press or release; the bit is masked before the prefix is looked for; codes
\* from 0x54 on have no handler.
Classify(t) ==
    /\ In(t, "classify")
    /\ key_release' = (irq[t].key >= 128)
    /\ multiread' = (multiread \/ Code(t) = 224)
    /\ irq' = [irq EXCEPT ![t] = IF Code(t) < 84 THEN [@ EXCEPT !.at = "test"] ELSE Out]
    /\ UNCHANGED <<hardware, shift_status, mailbox>>

\* scan_to_ascii: the bits of the modifier keys, the keys that are ignored.
Modifier == [k \in {42, 54, 58, 29, 56} |->
                CASE k = 42 -> "LEFT_SHIFT" [] k = 54 -> "RIGHT_SHIFT"
                  [] k = 58 -> "CAPS_SHIFT" [] k = 29 -> "CONTROL"
                  [] k = 56 -> "ALT"]
Ignored == {1, 69, 70}

\* The handler of the key looks at key_release.  A normal key that is
\* released, or an ignored one, has no further effect.
Test(t) ==
    /\ In(t, "test")
    /\ irq' = [irq EXCEPT ![t] =
                  IF Code(t) \in DOMAIN Modifier
                  THEN [@ EXCEPT !.at = "modify", !.released = key_release]
                  ELSE IF Code(t) \in Ignored \/ key_release THEN Out
                  ELSE [@ EXCEPT !.at = "convert"]]
    /\ UNCHANGED <<hardware, statics, mailbox>>

ModifySets(t) ==
    /\ In(t, "modify")
    /\ shift_status' = IF irq[t].released THEN shift_status
                       ELSE shift_status \cup {Modifier[Code(t)]}
    /\ irq' = [irq EXCEPT ![t] = Out]
    /\ UNCHANGED <<hardware, key_release, multiread, mailbox>>

\* The five handlers of modifier keys; Caps Lock is toggled when pressed.
Modify(t) ==
    LET bit == Modifier[Code(t)]
        clears == IF bit = "CAPS_SHIFT" THEN bit \in shift_status
                                        ELSE irq[t].released
    IN  /\ In(t, "modify")
        /\ shift_status' = IF bit = "CAPS_SHIFT" /\ irq[t].released THEN shift_status
                           ELSE IF clears THEN shift_status \ {bit}
                           ELSE shift_status \cup {bit}
        /\ irq' = [irq EXCEPT ![t] = Out]
        /\ UNCHANGED <<hardware, key_release, multiread, mailbox>>

\* normal_handler(): the column of scan_to_ascii.
Convert(t) ==
    /\ In(t, "convert")
    /\ irq' = [irq EXCEPT ![t].at = "put",
                  ![t].column =
                     CASE shift_status \in {{"LEFT_SHIFT"}, {"RIGHT_SHIFT"}, {"CAPS_SHIFT"}}
                            -> "shift"
                       [] shift_status = {"CONTROL"} -> "control"
                       [] shift_status = {} -> "no_shift"
                       [] OTHER -> "zero"]
    /\ UNCHANGED <<hardware, statics, mailbox>>

PutWithoutSignal(t) ==
    /\ In(t, "put")
    /\ irq' = [irq EXCEPT ![t] = Out]
    /\ queue' = IF Len(queue) < Capacity THEN Append(queue, <<irq[t].key, irq[t].column>>) ELSE queue
    /\ UNCHANGED <<hardware, statics, lock, waiters, cli, pc>>

\* putchar(), with interrupts disabled: a character that does not fit is
\* dropped, otherwise a reader is woken.  If the lock of the mailbox is taken
\* the interrupted task would have to wait for it.
Put(t) ==
    /\ In(t, "put")
    /\ IF lock # NoTask
       THEN irq' = [irq EXCEPT ![t].at = "stuck"] /\ UNCHANGED <<queue, waiters, pc>>
       ELSE /\ irq' = [irq EXCEPT ![t] = Out]
            /\ IF Len(queue) < Capacity
               THEN /\ queue' = Append(queue, <<irq[t].key, irq[t].column>>)
                    /\ IF waiters = <<>> THEN UNCHANGED <<waiters, pc>>
                       ELSE /\ waiters' = Tail(waiters)
                            /\ pc' = [pc EXCEPT ![Head(waiters)] = "woken"]
               ELSE UNCHANGED <<queue, waiters, pc>>
    /\ UNCHANGED <<hardware, statics, lock, cli>>

-----------------------------------------------------------------------------
(* getchar(): mbox_recv() with interrupts disabled *)

\* nointerrupt_enter(); or the scheduler comes back to a reader that was
\* woken, which still has interrupts disabled.
Enter(r) ==
    /\ cli = NoTask /\ pc[r] \in {"out", "woken"}
    /\ cli' = r
    /\ pc' = [pc EXCEPT ![r] = "acquire"]
    /\ UNCHANGED <<hardware, statics, irq, queue, lock, waiters>>

AcquireMbox(r) ==
    /\ cli \in {r, NoTask} /\ pc[r] = "acquire"
    /\ lock = NoTask
    /\ lock' = r
    /\ pc' = [pc EXCEPT ![r] = "receive"]
    /\ UNCHANGED <<hardware, statics, irq, queue, waiters, cli>>

\* Take a character and leave, or let go of the lock and wait.
Receive(r) ==
    /\ cli \in {r, NoTask} /\ pc[r] = "receive"
    /\ lock' = NoTask
    /\ IF queue = <<>>
       THEN pc' = [pc EXCEPT ![r] = "gap"] /\ UNCHANGED <<queue, cli>>
       ELSE /\ pc' = [pc EXCEPT ![r] = "out"]
            /\ queue' = Tail(queue)
            /\ cli' = NoTask
    /\ UNCHANGED <<hardware, statics, irq, waiters>>

\* block() switches to a task that has interrupts enabled.
Block(r) ==
    /\ cli \in {r, NoTask} /\ pc[r] = "gap"
    /\ waiters' = Append(waiters, r)
    /\ cli' = NoTask
    /\ pc' = [pc EXCEPT ![r] = "blocked"]
    /\ UNCHANGED <<hardware, statics, irq, queue, lock>>

-----------------------------------------------------------------------------
Handler(t) ==
    Interrupt(t) \/ Classify(t) \/ Test(t) \/ Modify(t) \/ Convert(t) \/ Put(t)
Getchar(r) == Enter(r) \/ AcquireMbox(r) \/ Receive(r) \/ Block(r)

KeyboardNext ==
    \/ \E k \in Keys : Press(k) \/ ReleaseKey(k)
    \/ \E t \in Tasks : Handler(t)
    \/ \E r \in Readers : Getchar(r)

KeyboardSpec == KeyboardInit /\ [][KeyboardNext]_keyboardVars

-----------------------------------------------------------------------------
(* Properties *)

\* keyboard.c:281-295: the critical section in getchar() is there so that no
\* task has to wait for the lock of the mailbox inside the interrupt handler.
HandlerNeverWaits == \A t \in Tasks : irq[t].at # "stuck"

\* Readers that will look at the mailbox before they sleep.
Looking == {r \in Readers : pc[r] \in {"woken", "acquire", "receive"}}

\* No character is left lying while a reader sleeps: with interrupts disabled
\* from the test to block(), condition_wait() has no gap here.
ReaderWoken == waiters # <<>> => Len(queue) <= Cardinality(Looking)

ReadersServed == HandlerNeverWaits /\ ReaderWoken

\* Why: the lock is only held with interrupts disabled, the wait queue is the
\* readers that sleep, and no character comes in between test and block().
Columns == {"none", "shift", "control", "no_shift", "zero"}
HandlerStates ==
    [at : {"out", "classify", "test", "modify", "convert", "put"},
     key : Nat, released : BOOLEAN, column : Columns]
ReadersInStep ==
    /\ irq \in [Tasks -> HandlerStates]
    /\ wire \in Seq(Nat) /\ key_release \in BOOLEAN
    /\ queue \in Seq(Nat \X Columns)
    /\ lock \in Readers \cup {NoTask} /\ cli \in Readers \cup {NoTask}
    /\ waiters \in Seq(Readers) /\ Distinct(waiters)
    /\ pc \in [Readers -> {"out", "acquire", "receive", "gap", "blocked", "woken"}]
    /\ \A r \in Readers : /\ cli = r <=> pc[r] \in {"acquire", "receive", "gap"}
                          /\ lock = r <=> pc[r] = "receive"
                          /\ r \in Items(waiters) <=> pc[r] = "blocked"
                          /\ pc[r] = "gap" => queue = <<>>
    /\ ReaderWoken

\* The bits of shift_status are the modifier keys that are down, once the
\* handler has caught up.  It holds while one interrupt is handled at a time.
ModifiersFollowKeys ==
    (wire = <<>> /\ \A t \in Tasks : irq[t].at = "out") =>
        \A k \in (DOMAIN Modifier \cap Keys) \ {58} :
            Modifier[k] \in shift_status <=> k \in down
=============================================================================
