---------------------------- MODULE FlowControl -----------------------------
(***************************************************************************)
(* process/process3.c and process/process4.c: a sender and a receiver that *)
(* take turns filling and emptying a mailbox, and hand each other the turn *)
(* with tokens in two more mailboxes.  A mailbox call is one step on the   *)
(* message queue that Mailbox implements; between mbox_stat() and what the *)
(* caller does about it the other process may run.                         *)
(***************************************************************************)
EXTENDS Integers, Sequences

CONSTANTS
    Messages,       \* 1000
    BUFFER_SIZE,    \* 1024
    MinSize,        \* 128: bodies have this size ...
    Sizes           \* 128: ... or up to Sizes - 1 more

FlowAssumption ==
    /\ Messages \in Nat /\ MinSize \in Nat /\ Sizes \in Nat \ {0}
    /\ BUFFER_SIZE >= MinSize + Sizes + 3

VARIABLES
    queue,      \* QUEUE: the numbers of the messages in it
    toSender,   \* the tokens in process3's FLOW_IN
    toReceiver, \* the tokens in process4's FLOW_IN
    sender,     \* i, wait and the place of process3
    receiver    \* i, wait and the place of process4

vars == <<queue, toSender, toReceiver, sender, receiver>>

Header == 4
Size(i) == MinSize + (i % Sizes)
Letter(i) == i % 26

Space ==
    LET left[k \in 0 .. Len(queue)] ==
            IF k = 0 THEN BUFFER_SIZE ELSE left[k - 1] - (Header + Size(queue[k]))
    IN  left[Len(queue)]

Init ==
    /\ queue = <<>> /\ toSender = 0 /\ toReceiver = 0
    /\ sender = [i |-> 0, wait |-> TRUE, at |-> "turn"]
    /\ receiver = [i |-> 0, wait |-> FALSE, at |-> "turn"]

-----------------------------------------------------------------------------
(* process3 *)

SenderGetsTurn ==
    /\ sender.at = "turn" /\ sender.i < Messages /\ sender.wait
    /\ toSender > 0
    /\ toSender' = toSender - 1
    /\ sender' = [sender EXCEPT !.wait = FALSE, !.at = "message"]
    /\ UNCHANGED <<queue, toReceiver, receiver>>

SenderLooks ==
    /\ sender.at = "turn" /\ sender.i < Messages /\ ~sender.wait
    /\ sender' = [sender EXCEPT
                    !.at = IF Space < Header + Size(sender.i) THEN "token" ELSE "message"]
    /\ UNCHANGED <<queue, toSender, toReceiver, receiver>>

SenderGivesTurn ==
    /\ sender.at = "token"
    /\ toReceiver' = toReceiver + 1
    /\ sender' = [sender EXCEPT !.wait = TRUE, !.at = "message"]
    /\ UNCHANGED <<queue, toSender, receiver>>

\* mbox_send() waits for space.
SendMessage ==
    /\ sender.at = "message"
    /\ Space >= Header + Size(sender.i)
    /\ queue' = Append(queue, sender.i)
    /\ sender' = [sender EXCEPT !.i = @ + 1, !.at = "turn"]
    /\ UNCHANGED <<toSender, toReceiver, receiver>>

SenderJustStops ==
    /\ sender.at = "turn" /\ sender.i = Messages
    /\ sender' = [sender EXCEPT !.at = "done"]
    /\ UNCHANGED <<queue, toSender, toReceiver, receiver>>

\* The last "your turn".  The mailboxes of the tokens never fill up (OneTurn).
SenderDone ==
    /\ sender.at = "turn" /\ sender.i = Messages
    /\ toReceiver' = toReceiver + 1
    /\ sender' = [sender EXCEPT !.at = "done"]
    /\ UNCHANGED <<queue, toSender, receiver>>

-----------------------------------------------------------------------------
(* process4 *)

ReceiverGetsTurn ==
    /\ receiver.at = "turn" /\ receiver.i < Messages /\ receiver.wait
    /\ toReceiver > 0
    /\ toReceiver' = toReceiver - 1
    /\ receiver' = [receiver EXCEPT !.wait = FALSE, !.at = "message"]
    /\ UNCHANGED <<queue, toSender, sender>>

ReceiverLooks ==
    /\ receiver.at = "turn" /\ receiver.i < Messages /\ ~receiver.wait
    /\ receiver' = [receiver EXCEPT !.at = IF queue = <<>> THEN "token" ELSE "message"]
    /\ UNCHANGED <<queue, toSender, toReceiver, sender>>

ReceiverGivesTurn ==
    /\ receiver.at = "token"
    /\ toSender' = toSender + 1
    /\ receiver' = [receiver EXCEPT !.wait = TRUE, !.at = "message"]
    /\ UNCHANGED <<queue, toReceiver, sender>>

\* mbox_recv() waits for a message, which is then compared with what it
\* should be.
ReceiveMessage ==
    /\ receiver.at = "message"
    /\ queue # <<>>
    /\ queue' = Tail(queue)
    /\ LET good == /\ Size(Head(queue)) = Size(receiver.i)
                   /\ Letter(Head(queue)) = Letter(receiver.i)
       IN  receiver' = [receiver EXCEPT !.i = @ + 1,
                                        !.at = IF good THEN "turn" ELSE "error"]
    /\ UNCHANGED <<toSender, toReceiver, sender>>

ReceiverDone ==
    /\ receiver.at = "turn" /\ receiver.i = Messages
    /\ receiver' = [receiver EXCEPT !.at = "done"]
    /\ UNCHANGED <<queue, toSender, toReceiver, sender>>

-----------------------------------------------------------------------------
SenderStep ==
    \/ SenderGetsTurn \/ SenderLooks \/ SenderGivesTurn
    \/ SendMessage \/ SenderDone
ReceiverStep ==
    \/ ReceiverGetsTurn \/ ReceiverLooks \/ ReceiverGivesTurn
    \/ ReceiveMessage \/ ReceiverDone
Next == SenderStep \/ ReceiverStep

Spec == Init /\ [][Next]_vars

\* The scheduler is round robin: a process that can run does.
FairSpec == Spec /\ WF_vars(SenderStep) /\ WF_vars(ReceiverStep)

-----------------------------------------------------------------------------
(* Properties *)

\* process3.c:35-36: "these processes should send their messages, print
\* "Done" and exit cleanly".
BothDone == <>(sender.at = "done" /\ receiver.at = "done")
=============================================================================
