-------------------------- MODULE CoreMessageQueue --------------------------
(***************************************************************************)
(* The message queue of coremsg*.c, with the calls of the Classic API,     *)
(* where only receivers block, and of POSIX, where senders block as well   *)
(* and the queue lives as long as it has a name or is open.                *)
(*                                                                         *)
(* Receivers and senders wait on one thread queue; the code tells them     *)
(* apart by the number of pending messages alone.                          *)
(***************************************************************************)
EXTENDS ThreadQueue, FiniteSets

CONSTANTS
    MaxPending,     \* maximum_pending_messages
    Messages,       \* names of messages under way, positive numbers
    PosixTypes,     \* submit types of POSIX: the negated message priorities
    MaxOpen         \* bound on open_count

Queues == {"classic", "posix"}

SEND_REQUEST   == 99    \* INT_MAX and INT_MIN: beyond the POSIX types
URGENT_REQUEST == -99

NoMessage == [id |-> 0, type |-> 0]
Cast      == [id |-> -1, type |-> 0]    \* the message of a broadcast

VARIABLES
    pending,        \* Pending_messages
    inactive,       \* the length of Inactive_messages
    buffer,         \* by thread: what it waits to send, or was handed
    sending,        \* by thread: it waits to send
    casting,        \* by thread: it is in the loop of the broadcast
    open,           \* open_count
    linked,         \* the queue has a name
    live            \* messages accepted and not yet received, in that order

msgvars == <<pending, inactive, buffer, sending, casting, open, linked, live>>

MsgInit ==
    /\ pending = << >>
    /\ inactive = MaxPending
    /\ buffer = [t \in Threads |-> NoMessage]
    /\ sending = [t \in Threads |-> FALSE]
    /\ casting = [t \in Threads |-> FALSE]
    /\ open = 1
    /\ linked = TRUE
    /\ live = << >>

-----------------------------------------------------------------------------
\* Mutation: open_count is not looked at again.
BugUsable(a) == Calls(a) /\ (a \in Threads => ~casting[a])

Usable(a) == Calls(a) /\ open # 0 /\ (a \in Threads => ~casting[a])

Types ==
    IF kind = "posix" THEN PosixTypes ELSE {SEND_REQUEST, URGENT_REQUEST}

\* A name no message under way has.
Fresh ==
    LET used == ToSet(live) \cup {buffer[t].id : t \in Threads}
        free == Messages \ used
    IN  CHOOSE m \in free : \A n \in free : m <= n

Without(s, m) == SelectSeq(s, LAMBDA n : n # m)

\* Mutation: a message goes in front of those of its priority.
BugInsertMessage(q, m) ==
    IF m.type = SEND_REQUEST THEN Append(q, m)
    ELSE SelectSeq(q, LAMBDA n : n.type < m.type) \o <<m>>
         \o SelectSeq(q, LAMBDA n : n.type >= m.type)

\* _CORE_message_queue_Insert_message: an ordered insert goes before the first
\* message that is larger.
InsertMessage(q, m) ==
    IF m.type = SEND_REQUEST THEN Append(q, m)
    ELSE IF m.type = URGENT_REQUEST THEN <<m>> \o q
    ELSE LET larger == {i \in DOMAIN q : m.type < q[i].type}
             at == IF larger = {} THEN Len(q) + 1
                   ELSE CHOOSE i \in larger : \A j \in larger : i <= j
         IN  InsertAt(q, at, m)

-----------------------------------------------------------------------------
\* Mutation: the pending messages are not looked at.
BugReceiverWaits == queue # << >>

\* _CORE_message_queue_Dequeue_receiver finds a thread.
ReceiverWaits == pending = << >> /\ queue # << >>

\* _CORE_message_queue_Submit by rtems_message_queue_send and _urgent and by
\* mq_send: to a receiver, into a buffer, or the thread waits.  It changes
\* nothing when the caller may not wait, as in an interrupt.
MsgSend(a, type, waits, tmo) ==
    LET m == [id |-> Fresh, type |-> type]
    IN  /\ Usable(a)
        /\ \/ /\ ReceiverWaits
              /\ ExtractFirst(a)
              /\ buffer' = [buffer EXCEPT ![Head(queue)] = m]
              /\ live' = Append(live, m.id)
              /\ UNCHANGED <<pending, inactive, sending>>
           \/ /\ ~ReceiverWaits /\ inactive > 0
              /\ pending' = InsertMessage(pending, m)
              /\ inactive' = inactive - 1
              /\ live' = Append(live, m.id)
              /\ UNCHANGED <<queue, wait, buffer, sending>>
           \/ /\ ~ReceiverWaits /\ inactive = 0
              /\ kind = "posix" /\ waits /\ a \in Threads
              /\ Enqueue(a, tmo)
              /\ buffer' = [buffer EXCEPT ![a] = m]
              /\ sending' = [sending EXCEPT ![a] = TRUE]
              /\ UNCHANGED <<pending, inactive, live>>
        /\ UNCHANGED <<casting, open, linked>>

\* Mutation: the buffer is freed and the sender left waiting.
BugRefill(t, rest) ==
    /\ pending' = rest
    /\ inactive' = inactive + 1
    /\ live' = Without(live, Head(pending).id)
    /\ UNCHANGED <<queue, wait>>

\* The buffer of the received message is freed, or takes the message of the
\* first sender that waits.
Refill(t, rest) ==
    LET left == Without(live, Head(pending).id)
    IN  \/ /\ queue = << >>
           /\ pending' = rest
           /\ inactive' = inactive + 1
           /\ live' = left
           /\ UNCHANGED <<queue, wait>>
        \/ /\ ExtractFirst(t)
           /\ pending' = InsertMessage(rest, buffer[Head(queue)])
           /\ live' = Append(left, buffer[Head(queue)].id)
           /\ UNCHANGED inactive

\* _CORE_message_queue_Seize by rtems_message_queue_receive and mq_receive.
MsgReceive(t, waits, tmo) ==
    /\ Usable(t)
    /\ \/ pending # << >> /\ Refill(t, Tail(pending))
       \/ /\ pending = << >> /\ waits
          /\ Enqueue(t, tmo)
          /\ UNCHANGED <<pending, inactive, live>>
    /\ UNCHANGED <<buffer, sending, casting, open, linked>>

\* _CORE_message_queue_Broadcast, one receiver at a time: the lock is free
\* between two of them.
MsgBroadcast(t) ==
    /\ \/ Usable(t)
       \/ casting[t] /\ MayRun(t) /\ todo[t] = << >> /\ UNCHANGED object
    /\ \/ /\ ReceiverWaits
          /\ ExtractFirst(t)
          /\ buffer' = [buffer EXCEPT ![Head(queue)] = Cast]
          /\ casting' = [casting EXCEPT ![t] = TRUE]
       \/ /\ casting[t] /\ ~ReceiverWaits
          /\ casting' = [casting EXCEPT ![t] = FALSE]
          /\ UNCHANGED <<queue, wait, buffer>>
    /\ UNCHANGED <<pending, inactive, sending, open, linked, live>>

\* rtems_message_queue_flush.
MsgFlush(a) ==
    /\ Usable(a)
    /\ pending' = << >>
    /\ inactive' = inactive + Len(pending)
    /\ live' = SelectSeq(live, LAMBDA m : m \notin {pending[i].id : i \in DOMAIN pending})
    /\ UNCHANGED <<queue, wait, buffer, sending, casting, open, linked>>

-----------------------------------------------------------------------------
\* _CORE_message_queue_Close.
Close(t) == Closes(t) /\ Flush(t, "OBJECT_WAS_DELETED")

\* rtems_message_queue_delete.
MsgDelete(t) ==
    /\ alive /\ CanCall(t) /\ ~casting[t]
    /\ Close(t)
    /\ UNCHANGED msgvars

\* mq_open of a queue that has the name.
MqOpen(t) ==
    /\ alive /\ CanCall(t)
    /\ linked /\ open < MaxOpen
    /\ open' = open + 1
    /\ UNCHANGED <<tqvars, pending, inactive, buffer, sending, casting, linked, live>>

\* mq_close and mq_unlink, with _POSIX_Message_queue_Delete.
MqClose(t) ==
    /\ alive /\ CanCall(t)
    /\ open # 0
    /\ open' = open - 1
    /\ IF ~linked /\ open' = 0 THEN Close(t) ELSE UNCHANGED tqvars
    /\ UNCHANGED <<pending, inactive, buffer, sending, casting, linked, live>>

MqUnlink(t) ==
    /\ alive /\ CanCall(t)
    /\ linked
    /\ linked' = FALSE
    /\ IF open = 0 THEN Close(t) ELSE UNCHANGED tqvars
    /\ UNCHANGED <<pending, inactive, buffer, sending, casting, open, live>>

\* The end of a call that waited.
MsgReturn(t) ==
    /\ Return(t)
    /\ live' = IF sending[t] THEN live ELSE Without(live, buffer[t].id)
    /\ buffer' = [buffer EXCEPT ![t] = NoMessage]
    /\ sending' = [sending EXCEPT ![t] = FALSE]
    /\ UNCHANGED <<pending, inactive, casting, open, linked>>

MsgNext ==
    \/ \E a \in Actors, type \in Types :
          \E waits, tmo \in BOOLEAN : MsgSend(a, type, waits, tmo)
    \/ \E t \in Threads :
          \/ \E waits, tmo \in BOOLEAN : MsgReceive(t, waits, tmo)
          \/ MsgReturn(t)
    \/ /\ kind = "classic"
       /\ \/ \E a \in Actors : MsgFlush(a)
          \/ \E t \in Threads : MsgBroadcast(t) \/ MsgDelete(t)
    \/ /\ kind = "posix"
       /\ \E t \in Threads : MqOpen(t) \/ MqClose(t) \/ MqUnlink(t)
    \/ TQStep /\ UNCHANGED msgvars

-----------------------------------------------------------------------------
\* The messages a thread was handed and has not yet returned with.
Handed(t) ==
    IF pc[t] # "idle" /\ t \notin ToSet(queue) /\ ~sending[t] /\ code[t] = "SUCCESSFUL"
    THEN {buffer[t].id} \ {Cast.id} ELSE {}

\* "There must be no pending messages if there is a thread waiting to receive",
\* and a thread waits to send only while every buffer is in use: one thread
\* queue never holds receivers and senders.
WaitersAreOfOneKind ==
    kind \in Queues =>
    /\ Len(pending) + inactive = MaxPending
    /\ \A t \in ToSet(queue) : IF sending[t] THEN inactive = 0 ELSE pending = << >>

\* Every accepted message is in one place until it is received: pending, or with
\* one thread it was handed to.  A sender that is told of a failure has not left
\* its message behind, whichever of the timer, a receiver and a deletion is first.
MessagesConserved ==
    kind \in Queues =>
    /\ Len(live) = Len(pending) + Cardinality({t \in Threads : Handed(t) # {}})
    /\ ToSet(live) = {pending[i].id : i \in DOMAIN pending}
                     \cup UNION {Handed(t) : t \in Threads}

\* Messages are received in the order of their priority and, within one, in the
\* order they were accepted; urgent ones last in, first out.
PendingOrdered ==
    LET accepted(i) == CHOOSE n \in DOMAIN live : live[n] = pending[i].id
    IN  \A i, j \in DOMAIN pending : i < j =>
          \/ pending[i].type < pending[j].type
          \/ /\ pending[i].type = pending[j].type
             /\ (accepted(i) < accepted(j)) # (pending[i].type = URGENT_REQUEST)
=============================================================================
