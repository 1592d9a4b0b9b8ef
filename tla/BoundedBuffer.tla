--------------------------- MODULE BoundedBuffer ---------------------------
(***************************************************************************)
(* What a mailbox and a message queue promise their clients: a queue of at *)
(* most Size messages, read from the front, filled at the back or, with an *)
(* urgent message, at the front.  Every operation is atomic; waiting,      *)
(* timeouts and the storage of messages do not show.                       *)
(***************************************************************************)
EXTENDS Naturals, Sequences

CONSTANTS Message, Size, Client, None

VARIABLES queue,   \* the messages that are sent and not received
          got      \* the message a receiving client is being handed

Init == queue = <<>> /\ got = [c \in Client |-> None]

Send(m) ==
    /\ Len(queue) < Size
    /\ queue' = Append(queue, m)
    /\ UNCHANGED got

Urgent(m) ==
    /\ Len(queue) < Size
    /\ queue' = <<m>> \o queue
    /\ UNCHANGED got

Receive(c) ==
    /\ queue # <<>>
    /\ queue' = Tail(queue)
    /\ got' = [got EXCEPT ![c] = Head(queue)]

Return(c) == got' = [got EXCEPT ![c] = None] /\ UNCHANGED queue

Reset == queue' = <<>> /\ UNCHANGED got

Next ==
    \/ \E m \in Message : Send(m) \/ Urgent(m)
    \/ \E c \in Client : Receive(c) \/ Return(c)
    \/ Reset

Spec == Init /\ [][Next]_<<queue, got>>
=============================================================================
