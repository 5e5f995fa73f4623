------------------------------ MODULE Mailbox -------------------------------
(***************************************************************************)
(* One mailbox of kernel/mbox.c: the circular buffer, the monitor lock and *)
(* the two conditions.                                                     *)
(*                                                                         *)
(* The lock is the abstract one that Lock implements.  What runs with it   *)
(* held is one step up to the wake-ups, which are steps of their own:      *)
(* condition_wait() releases the lock before it blocks, so a thread may    *)
(* join the queue of a condition at any time.                              *)
(*                                                                         *)
(* A message is its body, a sequence; in the buffer it is preceded by a    *)
(* header with its size, which takes one cell here (MSG_T_HEADER_SIZE).    *)
(***************************************************************************)
EXTENDS Queues, FiniteSets

CONSTANTS
    Callers,        \* the callers
    Nobody,         \* the holder of the free lock
    BUFFER_SIZE,    \* in cells
    Bodies,         \* the message bodies
    NoMessage

ASSUME MailboxAssumption ==
    /\ IsFiniteSet(Callers) /\ Nobody \notin Callers
    /\ BUFFER_SIZE \in Nat \ {0}
    /\ Bodies # {} /\ NoMessage \notin Bodies
    /\ \A m \in Bodies : m \in Seq(Items(m))

VARIABLES
    used, count, head, tail, buffer,    \* the fields of mbox_t
    lock,                               \* who has l
    moreSpace, moreData,                \* the wait queues of the conditions
    user,                               \* where each thread is
    msg                                 \* the message a caller sends or gets

box == <<used, count, head, tail, buffer>>
mailboxVars == <<box, lock, moreSpace, moreData, user, msg>>

CallSteps == {"closed", "open", "send", "sendgap", "sendblocked", "signal",
              "recv", "recvgap", "recvblocked", "broadcast"}
Cells == 0 .. BUFFER_SIZE - 1
UserTo(t, step) == user' = [user EXCEPT ![t] = step]

\* mbox_init(), on memory that is zero.
MailboxInit ==
    /\ used = 0 /\ count = 0 /\ head = 0 /\ tail = 0
    /\ buffer = [i \in Cells |-> 0]
    /\ lock = Nobody /\ moreSpace = <<>> /\ moreData = <<>>
    /\ user = [t \in Callers |-> "closed"]
    /\ msg = [t \in Callers |-> NoMessage]

-----------------------------------------------------------------------------
(* The circular buffer *)

Packet(m) == <<Len(m)>> \o m
MSG_SIZE(m) == Len(Packet(m))

space_available_unwrapped ==
    IF tail = head /\ count # 0 THEN 0 ELSE tail + BUFFER_SIZE - head

\* The number of free cells.
space_available ==
    IF tail = head /\ count # 0 THEN 0
    ELSE IF tail > head THEN tail - head
    ELSE tail + BUFFER_SIZE - head

buffer_to_msg(start, cells) ==
    [i \in 1 .. cells |-> buffer[(start + i - 1) % BUFFER_SIZE]]

msg_to_buffer(m, start) ==
    [c \in Cells |->
        LET i == (c - start) % BUFFER_SIZE
        IN  IF i < MSG_SIZE(m) THEN Packet(m)[i + 1] ELSE buffer[c]]

-----------------------------------------------------------------------------
(* mbox_open(), mbox_close() *)

OpenAlwaysClears(t) ==
    /\ user[t] = "closed" /\ lock = Nobody
    /\ head' = 0 /\ tail' = 0 /\ count' = 0
    /\ used' = used + 1
    /\ UserTo(t, "open")
    /\ UNCHANGED <<buffer, lock, moreSpace, moreData, msg>>

\* The first one to open the mailbox finds it empty.
Open(t) ==
    /\ user[t] = "closed" /\ lock = Nobody
    /\ IF used = 0 THEN head' = 0 /\ tail' = 0 /\ count' = 0
                   ELSE UNCHANGED <<head, tail, count>>
    /\ used' = used + 1
    /\ UserTo(t, "open")
    /\ UNCHANGED <<buffer, lock, moreSpace, moreData, msg>>

Close(t) ==
    /\ user[t] = "open" /\ lock = Nobody
    /\ used' = used - 1
    /\ UserTo(t, "closed")
    /\ UNCHANGED <<count, head, tail, buffer, lock, moreSpace, moreData, msg>>

-----------------------------------------------------------------------------
(* mbox_send() *)

CallSend(t, m) ==
    /\ user[t] = "open"
    /\ msg' = [msg EXCEPT ![t] = m]
    /\ UserTo(t, "send")
    /\ UNCHANGED <<box, lock, moreSpace, moreData>>

\* With the lock: wait for space, giving up the lock ...
SendWaits(t) ==
    /\ user[t] = "send" /\ lock = Nobody
    /\ space_available < MSG_SIZE(msg[t])
    /\ UserTo(t, "sendgap")
    /\ UNCHANGED <<box, lock, moreSpace, moreData, msg>>

\* ... or copy the message in.
Send(t) ==
    /\ user[t] = "send" /\ lock = Nobody
    /\ space_available >= MSG_SIZE(msg[t])
    /\ buffer' = msg_to_buffer(msg[t], head)
    /\ head' = (head + MSG_SIZE(msg[t])) % BUFFER_SIZE
    /\ lock' = t
    /\ UserTo(t, "signal")
    /\ UNCHANGED <<used, count, tail, moreSpace, moreData, msg>>

\* The woken reader goes back to the lock, the caller leaves.
WakeFirst(t, waiting) ==
    user' = [s \in Callers |->
              IF s = t THEN "open"
              ELSE IF waiting # <<>> /\ s = Head(waiting) THEN "recv"
              ELSE user[s]]

\* condition_signal(&moreData), count++ and lock_release().
Signal(t) ==
    /\ user[t] = "signal"
    /\ WakeFirst(t, moreData)
    /\ moreData' = IF moreData = <<>> THEN <<>> ELSE Tail(moreData)
    /\ count' = count + 1
    /\ lock' = Nobody
    /\ msg' = [msg EXCEPT ![t] = NoMessage]
    /\ UNCHANGED <<used, head, tail, buffer, moreSpace>>

-----------------------------------------------------------------------------
(* mbox_recv() *)

CallRecv(t) ==
    /\ user[t] = "open"
    /\ UserTo(t, "recv")
    /\ UNCHANGED <<box, lock, moreSpace, moreData, msg>>

RecvWaits(t) ==
    /\ user[t] = "recv" /\ lock = Nobody
    /\ count = 0
    /\ UserTo(t, "recvgap")
    /\ UNCHANGED <<box, lock, moreSpace, moreData, msg>>

\* Copy the header out, then as much body as it says, moving the tail.
Recv(t) ==
    /\ user[t] = "recv" /\ lock = Nobody
    /\ count # 0
    /\ LET size == buffer_to_msg(tail, 1)[1]
           body == (tail + 1) % BUFFER_SIZE
       IN  /\ msg' = [msg EXCEPT ![t] = buffer_to_msg(body, size)]
           /\ tail' = (body + size) % BUFFER_SIZE
    /\ lock' = t
    /\ UserTo(t, "broadcast")
    /\ UNCHANGED <<used, count, head, buffer, moreSpace, moreData>>

\* condition_broadcast(&moreSpace): one unblock().
WakeSender(t) ==
    /\ user[t] = "broadcast"
    /\ moreSpace # <<>>
    /\ moreSpace' = Tail(moreSpace)
    /\ UserTo(Head(moreSpace), "send")
    /\ UNCHANGED <<box, lock, moreData, msg>>

\* The end of the broadcast, count-- and lock_release().
EndRecv(t) ==
    /\ user[t] = "broadcast"
    /\ moreSpace = <<>>
    /\ count' = count - 1
    /\ lock' = Nobody
    /\ UserTo(t, "open")
    /\ msg' = [msg EXCEPT ![t] = NoMessage]
    /\ UNCHANGED <<used, head, tail, buffer, moreSpace, moreData>>

-----------------------------------------------------------------------------
(* condition_wait(): block(), after the lock has been released *)

BlockForSpace(t) ==
    /\ user[t] = "sendgap"
    /\ moreSpace' = Append(moreSpace, t)
    /\ UserTo(t, "sendblocked")
    /\ UNCHANGED <<box, lock, moreData, msg>>

BlockForData(t) ==
    /\ user[t] = "recvgap"
    /\ moreData' = Append(moreData, t)
    /\ UserTo(t, "recvblocked")
    /\ UNCHANGED <<box, lock, moreSpace, msg>>

MailboxBlock(t) == BlockForSpace(t) \/ BlockForData(t)

MailboxNext ==
    \E t \in Callers :
        \/ Open(t) \/ Close(t)
        \/ \E m \in Bodies : CallSend(t, m)
        \/ SendWaits(t) \/ Send(t) \/ Signal(t)
        \/ CallRecv(t) \/ RecvWaits(t) \/ Recv(t) \/ WakeSender(t) \/ EndRecv(t)
        \/ MailboxBlock(t)

MailboxSpec == MailboxInit /\ [][MailboxNext]_mailboxVars

-----------------------------------------------------------------------------
(* Properties *)

\* Every variable keeps its type; head and tail stay inside the buffer.
MailboxTypeOK ==
    /\ used \in 0 .. Cardinality(Callers)
    /\ count \in 0 .. BUFFER_SIZE
    /\ head \in Cells /\ tail \in Cells
    /\ lock \in Callers \cup {Nobody}
    /\ user \in [Callers -> CallSteps]
    /\ msg \in [Callers -> Bodies \cup {NoMessage}]
    /\ moreSpace \in Seq(Callers) /\ moreData \in Seq(Callers)

\* The messages in the buffer.  A message counts from the moment it has been
\* copied in until the moment it has been copied out.
Signalling == Cardinality({t \in Callers : user[t] = "signal"})
Broadcasting == Cardinality({t \in Callers : user[t] = "broadcast"})
Pending == count + Signalling - Broadcasting
Starts(cells, first, n) ==
    LET start[i \in 1 .. n] ==
            IF i = 1 THEN first
            ELSE (start[i - 1] + 1 + cells[start[i - 1]]) % BUFFER_SIZE
    IN  start
MessagesFrom(cells, first, n) ==
    LET start == Starts(cells, first, n)
    IN  [i \in 1 .. n |->
            [j \in 1 .. cells[start[i]] |-> cells[(start[i] + j) % BUFFER_SIZE]]]
Contents == MessagesFrom(buffer, tail, Pending)
CellsLeft(ms) ==
    LET left[i \in 0 .. Len(ms)] ==
            IF i = 0 THEN BUFFER_SIZE ELSE left[i - 1] - MSG_SIZE(ms[i])
    IN  left[Len(ms)]
FreeCells == CellsLeft(Contents)

\* project4-assignment.md: "All messages will be delivered in FIFO order";
\* mbox_send() and mbox_recv() on the circular buffer are a message queue.
AsMessageQueue ==
    INSTANCE MessageQueue WITH
        Threads <- Callers,
        users <- {t \in Callers : user[t] # "closed"},
        queue <- Contents,
        received <- [t \in Callers |->
                        IF user[t] = "broadcast" THEN msg[t] ELSE NoMessage]
ImplementsMessageQueue == AsMessageQueue!Spec

\* space_available() is what the messages leave free: mbox_stat() tells the
\* truth whenever it gets the lock, and senders wait neither too long nor too
\* little, in particular when head and tail meet.
SpaceAccounts ==
    MailboxTypeOK /\ (lock = Nobody => space_available = FreeCells)

\* A reader sleeps although more messages have been signalled than there are
\* readers on their way to them; a sender sleeps although its message would
\* fit and no broadcast is under way.
ReaderStranded ==
    /\ moreData # <<>>
    /\ count - Broadcasting > Cardinality({t \in Callers : user[t] = "recv"})
SenderStranded ==
    /\ Broadcasting = 0
    /\ \E t \in Items(moreSpace) : FreeCells >= MSG_SIZE(msg[t])

\* Only the gap in condition_wait() loses a wake-up: one signal for each
\* message, and a broadcast for each message taken, are enough.
MailboxStrandedOnlyByBlock ==
    [][/\ \/ ReaderStranded' => ReaderStranded
          \/ \E t \in Callers : BlockForData(t)
       /\ \/ SenderStranded' => SenderStranded
          \/ \E t \in Callers : BlockForSpace(t)]_mailboxVars
=============================================================================
