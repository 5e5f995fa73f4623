---------------------------- MODULE MessageQueue ----------------------------
(***************************************************************************)
(* What a mailbox promises: messages come out in the order they went in,   *)
(* each one once and unchanged, and a mailbox that nobody has open is      *)
(* empty for the next one who opens it.  Mailbox implements this.          *)
(***************************************************************************)
EXTENDS Sequences

CONSTANTS Threads, Bodies, NoMessage

VARIABLES
    users,      \* who has the mailbox open
    queue,      \* the messages sent and not yet received
    received    \* the message a thread has just received

vars == <<users, queue, received>>

Init ==
    /\ users = {}
    /\ queue = <<>>
    /\ received = [t \in Threads |-> NoMessage]

Open(t) ==
    /\ queue' = IF users = {} THEN <<>> ELSE queue
    /\ users' = users \cup {t}
    /\ UNCHANGED received

Close(t) ==
    /\ users' = users \ {t}
    /\ UNCHANGED <<queue, received>>

Send(m) ==
    /\ users # {}
    /\ queue' = Append(queue, m)
    /\ UNCHANGED <<users, received>>

Receive(t) ==
    /\ t \in users
    /\ queue # <<>>
    /\ received' = [received EXCEPT ![t] = Head(queue)]
    /\ queue' = Tail(queue)
    /\ UNCHANGED users

\* The caller of mbox_recv() has the message.
Return(t) ==
    /\ received' = [received EXCEPT ![t] = NoMessage]
    /\ UNCHANGED <<users, queue>>

Next ==
    \/ \E t \in Threads : Open(t) \/ Close(t) \/ Receive(t) \/ Return(t)
    \/ \E m \in Bodies : Send(m)

Spec == Init /\ [][Next]_vars
=============================================================================
