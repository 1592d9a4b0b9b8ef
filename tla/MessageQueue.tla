---------------------------- MODULE MessageQueue ----------------------------
(***************************************************************************)
(* A message queue (ipc.c): nodes linked into a queue and a free list.  A  *)
(* sender takes a free node in one section, copies its message with        *)
(* interrupts enabled and links the node in a second one; a receiver       *)
(* unlinks, copies and frees likewise.                                     *)
(***************************************************************************)
EXTENDS Channel

VARIABLES mq,     \* the nodes, msg_queue_head, msg_queue_tail, msg_queue_free, entry
          hand    \* the node msg that a send or receive is copying

queueVars == <<mq, hand>>
vars == <<k, isr, pc, arg, valid, call, due, mq, hand>>

\* between the two sections of a send, an urgent send and a receive
MqPc == IpcPc \cup {"fill", "fill_first", "copy"}

Node == 1 .. Size
Link == Node \cup {None}
MqState == [next : [Node -> Link], data : [Node -> Message \cup {None}],
            head : Link, tail : Link, free : Link, entry : 0 .. Size]

\* the nodes on the way from n along the links
Chain(q, n) ==
    LET walk[i \in 0 .. Size] ==
            IF i = 0 THEN n
            ELSE IF walk[i - 1] = None THEN None ELSE q.next[walk[i - 1]]
    IN  [i \in 1 .. Cardinality({j \in 0 .. Size : walk[j] # None}) |-> walk[i - 1]]

-----------------------------------------------------------------------------
(* The sections, on the queue. *)

PopFree(q) == [q EXCEPT !.free = q.next[q.free], !.next[q.free] = None]

\* node n, filled with m, becomes the tail, or the head
PushLast(q, n, m) ==
    LET q1 == [q EXCEPT !.data[n] = m, !.next[n] = None, !.entry = @ + 1]
        q2 == IF q.tail # None THEN [q1 EXCEPT !.next[q.tail] = n] ELSE q1
        q3 == [q2 EXCEPT !.tail = n]
    IN  IF q.head = None THEN [q3 EXCEPT !.head = n] ELSE q3

PushFirst(q, n, m) ==
    LET q1 == [q EXCEPT !.data[n] = m, !.next[n] = q.head, !.head = n, !.entry = @ + 1]
    IN  IF q.tail = None THEN [q1 EXCEPT !.tail = n] ELSE q1

\* a slip for testing the properties: the tail goes on pointing at the node that is received
PopHeadKeepsTail(q) == [q EXCEPT !.head = q.next[q.head], !.entry = @ - 1]

PopHead(q) ==
    [q EXCEPT !.head = q.next[q.head], !.entry = @ - 1,
              !.tail = IF @ = q.head THEN None ELSE @]

\* (the data of a free node is kept None: nothing reads it)
PushFree(q, n) == [q EXCEPT !.data[n] = None, !.next[n] = q.free, !.free = n]

\* RT_IPC_CMD_RESET: every node of the queue in turn
FreeAll(q) ==
    LET q1 == FoldLeft(PushFree, q, Chain(q, q.head))
    IN  [q1 EXCEPT !.head = None, !.tail = None, !.entry = 0]

-----------------------------------------------------------------------------
\* a slip: two sections, but the node stays on the free list in between
GetNodeKeepsFree(t, m, l) ==
    /\ hand' = [hand EXCEPT ![t] = mq.free]
    /\ UNCHANGED mq
    /\ call' = [call EXCEPT ![t] = [NoCall EXCEPT !.msg = m]]
    /\ due' = [due EXCEPT ![t] = None]
    /\ SetArg(t, None)
    /\ Goto(t, l)
    /\ UNCHANGED <<k, isr, valid>>

\* a sender has found a free node
GetNode(t, m, l) ==
    /\ hand' = [hand EXCEPT ![t] = mq.free]
    /\ mq' = PopFree(mq)
    /\ call' = [call EXCEPT ![t] = [NoCall EXCEPT !.msg = m]]
    /\ due' = [due EXCEPT ![t] = None]
    /\ SetArg(t, None)
    /\ Goto(t, l)
    /\ UNCHANGED <<k, isr, valid>>

\* rt_mq_send_wait; rt_mq_send has timeout 0, with which a full queue is an error
rt_mq_send_wait(t, m, timeout) ==
    /\ Calls(t, "send") /\ valid[recvq] /\ MayWait(timeout)
    /\ IF mq.free # None
       THEN GetNode(t, m, "fill")
       ELSE BeginWait(t, sendq, m, timeout) /\ UNCHANGED <<isr, valid, queueVars>>

SendRetry(t) ==
    /\ Resumed(t, sendq)
    /\ IF mq.free # None
       THEN GetNode(t, call[t].msg, "fill")
       ELSE WaitAgain(t) /\ UNCHANGED <<isr, valid, queueVars>>

rt_mq_urgent(t, m) ==
    /\ Calls(t, "urgent") /\ valid[recvq] /\ mq.free # None
    /\ GetNode(t, m, "fill_first")

\* the copy and the second section of a send: a receiver is resumed
LinkNode(t) ==
    /\ \/ At(t, "fill") /\ mq' = PushLast(mq, hand[t], call[t].msg)
       \/ At(t, "fill_first") /\ mq' = PushFirst(mq, hand[t], call[t].msg)
    /\ hand' = [hand EXCEPT ![t] = None]
    /\ call' = [call EXCEPT ![t] = NoCall]
    /\ ResumeOne(recvq)
    /\ Goto(t, AfterResume(recvq))
    /\ UNCHANGED <<isr, ipcVars, due>>

\* a receiver has found a message
Unlink(t) ==
    /\ hand' = [hand EXCEPT ![t] = mq.head]
    /\ mq' = PopHead(mq)
    /\ Goto(t, "copy")
    /\ UNCHANGED <<k, isr, valid>>

rt_mq_recv(t, timeout) ==
    /\ Calls(t, "recv") /\ valid[recvq] /\ MayWait(timeout)
    /\ IF mq.entry > 0
       THEN Unlink(t) /\ UNCHANGED <<arg, chanVars>>
       ELSE BeginWait(t, recvq, None, timeout) /\ UNCHANGED <<isr, valid, queueVars>>

RecvRetry(t) ==
    /\ Resumed(t, recvq)
    /\ IF mq.entry > 0
       THEN Unlink(t) /\ EndCall(t)
       ELSE WaitAgain(t) /\ UNCHANGED <<isr, valid, queueVars>>

\* the copy and the second section of a receive: a sender is resumed
FreeNode(t) ==
    /\ At(t, "copy")
    /\ mq' = PushFree(mq, hand[t])
    /\ hand' = [hand EXCEPT ![t] = None]
    /\ ResumeOne(sendq)
    /\ Goto(t, AfterResume(sendq))
    /\ UNCHANGED <<isr, ipcVars, chanVars>>

\* a slip: a receiver is resumed only when the queue was empty
DevSendWhenEmpty(m) ==
    /\ InHandler("dev", "body") /\ "send" \in DevOps
    /\ valid[recvq] /\ mq.free # None
    /\ mq' = PushLast(PopFree(mq), mq.free, m)
    /\ IF mq.entry = 0 THEN ResumeOne(recvq) /\ DevAfterResume(recvq)
                       ELSE GotoFrame("leave") /\ UNCHANGED k
    /\ UNCHANGED <<pc, hand, ipcVars, chanVars>>

\* a handler sends without waiting; nothing comes between its two sections
DevSend(m) ==
    /\ InHandler("dev", "body") /\ "send" \in DevOps
    /\ valid[recvq] /\ mq.free # None
    /\ \/ mq' = PushLast(PopFree(mq), mq.free, m)
       \/ mq' = PushFirst(PopFree(mq), mq.free, m)
    /\ ResumeOne(recvq)
    /\ DevAfterResume(recvq)
    /\ UNCHANGED <<pc, hand, ipcVars, chanVars>>

ResetQueue(t) ==
    /\ ResetReady(t)
    /\ mq' = FreeAll(mq)
    /\ Goto(t, "sched")
    /\ UNCHANGED <<k, isr, hand, ipcVars, chanVars>>

-----------------------------------------------------------------------------
Init ==
    /\ ChannelInit
    /\ mq = [next |-> [n \in Node |-> IF n = 1 THEN None ELSE n - 1],
             data |-> [n \in Node |-> None],
             head |-> None, tail |-> None, free |-> Size, entry |-> 0]
    /\ hand = [t \in Thread |-> None]

Finish(t) ==
    \/ ChannelFinish(t) /\ UNCHANGED queueVars
    \/ SendRetry(t)
    \/ LinkNode(t)
    \/ RecvRetry(t)
    \/ FreeNode(t)
    \/ ResetQueue(t)

Call(t) ==
    \/ ChannelCall(t) /\ UNCHANGED queueVars
    \/ \E m \in Message :
          \/ \E d \in Timeouts : rt_mq_send_wait(t, m, d)
          \/ rt_mq_urgent(t, m)
    \/ \E d \in Timeouts : rt_mq_recv(t, d)

Next ==
    \/ ChannelCpu /\ UNCHANGED queueVars
    \/ \E m \in Message : DevSend(m)
    \/ \E t \in Thread : Running(t) /\ (Finish(t) \/ Call(t))

Spec == Init /\ [][Next]_vars

-----------------------------------------------------------------------------
\* the type invariant of the composition
TypeOK ==
    /\ ChannelTypeOK(MqPc)
    /\ mq \in MqState
    /\ hand \in [Thread -> Link]

Queued == Chain(mq, mq.head)
Free == Chain(mq, mq.free)

Buffer == INSTANCE BoundedBuffer WITH
    queue <- [i \in DOMAIN Queued |-> mq.data[Queued[i]]],
    got <- [t \in Thread |-> IF pc[t] = "copy" THEN mq.data[hand[t]] ELSE None],
    Client <- Thread

\* A message queue is a bounded buffer, though messages are copied with interrupts
\* enabled: what a receiver copies stays the message it unlinked until it is done,
\* and no message is lost, doubled, half written or out of order.
ImplementsBuffer == Buffer!Spec

\* Every node is in one place: in the queue, on the free list or in the hands of one
\* thread between its two sections; entry counts the queue and tail is its end.
NodesAccounted ==
    /\ \A n \in Node :
          Cardinality({i \in DOMAIN Queued : Queued[i] = n})
            + Cardinality({i \in DOMAIN Free : Free[i] = n})
            + Cardinality({t \in Thread : hand[t] = n}) = 1
    /\ mq.entry = Len(Queued)
    /\ mq.tail = IF Queued = <<>> THEN None ELSE Last(Queued)

\* No receiver sleeps on a message that is there for it, and no sender on a free
\* node: while one waits, every message (node) has a resumed thread on its way to it.
NobodyStranded ==
    /\ k.wait[recvq] # <<>> => mq.entry <= Cardinality(InFlight(recvq))
    /\ k.wait[sendq] # <<>> => Len(Free) <= Cardinality(InFlight(sendq))
=============================================================================
