------------------------------ MODULE Mailbox ------------------------------
(***************************************************************************)
(* A mailbox (ipc.c): a ring of Size words, with threads that send and     *)
(* receive with a timeout and a device handler that sends without waiting. *)
(***************************************************************************)
EXTENDS Channel

VARIABLES mb,     \* msg_pool, in_offset, out_offset and entry
          value   \* what a receive has stored in *value, until it returns

mailVars == <<mb, value>>
vars == <<k, isr, pc, arg, valid, call, due, mb, value>>

\* behind the section of a receive that has resumed a sender, or nobody
MbPc == IpcPc \cup {"recvd_sched", "recvd"}

Offsets == 0 .. Size - 1
MbState == [msg_pool : [Offsets -> Message \cup {None}],
            in_offset : Offsets, out_offset : Offsets, entry : 0 .. Size]

EmptyRing == [msg_pool |-> [i \in Offsets |-> None],
              in_offset |-> 0, out_offset |-> 0, entry |-> 0]

Full == mb.entry = Size
Empty == mb.entry = 0

\* the ring: a mail at the back, at the front, and out
Store(b, m) ==
    [b EXCEPT !.msg_pool[b.in_offset] = m, !.in_offset = (@ + 1) % Size, !.entry = @ + 1]

\* a slip for testing the properties: the urgent mail is written before the offset
\* is rewound
UrgentWritesFirst(b, m) ==
    [b EXCEPT !.msg_pool[b.out_offset] = m, !.out_offset = (@ - 1) % Size, !.entry = @ + 1]

StoreFirst(b, m) ==
    LET out == (b.out_offset - 1) % Size
    IN  [b EXCEPT !.msg_pool[out] = m, !.out_offset = out, !.entry = @ + 1]

\* (a slot outside the ring is kept None: nothing reads it)
Fetch(b) ==
    [b EXCEPT !.msg_pool[b.out_offset] = None, !.out_offset = (@ + 1) % Size,
              !.entry = @ - 1]

-----------------------------------------------------------------------------

\* the mail is in the mailbox: a receiver is resumed
SendMail(t, m) ==
    /\ mb' = Store(mb, m)
    /\ ResumeOne(recvq)
    /\ Goto(t, AfterResume(recvq))
    /\ UNCHANGED <<isr, valid, value>>

\* rt_mb_send_wait; rt_mb_send has timeout 0.  A full mailbox and timeout 0 is
\* an error that changes nothing.
rt_mb_send_wait(t, m, timeout) ==
    /\ Calls(t, "send") /\ valid[recvq] /\ MayWait(timeout)
    /\ IF ~Full
       THEN SendMail(t, m) /\ UNCHANGED <<arg, call, due>>
       ELSE BeginWait(t, sendq, m, timeout) /\ UNCHANGED <<isr, valid, mailVars>>

SendRetry(t) ==
    /\ Resumed(t, sendq)
    /\ IF ~Full
       THEN SendMail(t, call[t].msg) /\ EndCall(t)
       ELSE WaitAgain(t) /\ UNCHANGED <<isr, valid, mailVars>>

rt_mb_urgent(t, m) ==
    /\ Calls(t, "urgent") /\ valid[recvq] /\ ~Full
    /\ mb' = StoreFirst(mb, m)
    /\ ResumeOne(recvq)
    /\ Goto(t, AfterResume(recvq))
    /\ UNCHANGED <<isr, ipcVars, chanVars, value>>

\* a sender is resumed
ReceiveMail(t) ==
    /\ value' = [value EXCEPT ![t] = mb.msg_pool[mb.out_offset]]
    /\ mb' = Fetch(mb)
    /\ ResumeOne(sendq)
    /\ Goto(t, IF k.wait[sendq] # <<>> THEN "recvd_sched" ELSE "recvd")
    /\ UNCHANGED <<isr, valid>>

rt_mb_recv(t, timeout) ==
    /\ Calls(t, "recv") /\ valid[recvq] /\ MayWait(timeout)
    /\ IF ~Empty
       THEN ReceiveMail(t) /\ UNCHANGED <<arg, call, due>>
       ELSE BeginWait(t, recvq, None, timeout) /\ UNCHANGED <<isr, valid, mailVars>>

RecvRetry(t) ==
    /\ Resumed(t, recvq)
    /\ IF ~Empty
       THEN ReceiveMail(t) /\ EndCall(t)
       ELSE WaitAgain(t) /\ UNCHANGED <<isr, valid, mailVars>>

RecvReturn(t) ==
    /\ \/ At(t, "recvd") /\ Goto(t, "run") /\ UNCHANGED <<k, isr>>
       \/ ThreadSchedule(t, "recvd_sched", "run")
    /\ value' = [value EXCEPT ![t] = None]
    /\ UNCHANGED <<ipcVars, chanVars, mb>>

\* a slip: a receiver is resumed only when the mailbox was empty
DevSendWhenEmpty(m) ==
    /\ InHandler("dev", "body") /\ "send" \in DevOps
    /\ valid[recvq] /\ ~Full
    /\ mb' = Store(mb, m)
    /\ IF Empty THEN ResumeOne(recvq) /\ DevAfterResume(recvq)
                ELSE GotoFrame("leave") /\ UNCHANGED k
    /\ UNCHANGED <<pc, ipcVars, chanVars, value>>

\* a handler sends or sends urgently, without waiting
DevSend(m) ==
    /\ InHandler("dev", "body") /\ "send" \in DevOps
    /\ valid[recvq] /\ ~Full
    /\ \E b \in {Store(mb, m), StoreFirst(mb, m)} : mb' = b
    /\ ResumeOne(recvq)
    /\ DevAfterResume(recvq)
    /\ UNCHANGED <<pc, ipcVars, chanVars, value>>

\* rt_mb_control(RT_IPC_CMD_RESET) once every waiter is resumed
ResetMailbox(t) ==
    /\ ResetReady(t)
    /\ mb' = EmptyRing
    /\ Goto(t, "sched")
    /\ UNCHANGED <<k, isr, ipcVars, chanVars, value>>

-----------------------------------------------------------------------------
Init ==
    /\ ChannelInit
    /\ mb = EmptyRing
    /\ value = [t \in Thread |-> None]

Finish(t) ==
    \/ ChannelFinish(t) /\ UNCHANGED mailVars
    \/ SendRetry(t)
    \/ RecvRetry(t)
    \/ RecvReturn(t)
    \/ ResetMailbox(t)

Call(t) ==
    \/ ChannelCall(t) /\ UNCHANGED mailVars
    \/ \E m \in Message :
          \/ \E d \in Timeouts : rt_mb_send_wait(t, m, d)
          \/ rt_mb_urgent(t, m)
    \/ \E d \in Timeouts : rt_mb_recv(t, d)

Next ==
    \/ ChannelCpu /\ UNCHANGED mailVars
    \/ \E m \in Message : DevSend(m)
    \/ \E t \in Thread : Running(t) /\ (Finish(t) \/ Call(t))

Spec == Init /\ [][Next]_vars

-----------------------------------------------------------------------------
\* the type invariant of the composition
TypeOK ==
    /\ ChannelTypeOK(MbPc)
    /\ mb \in MbState
    /\ value \in [Thread -> Message \cup {None}]

\* the mails in the ring, oldest first
Mails == [i \in 1 .. mb.entry |-> mb.msg_pool[(mb.out_offset + i - 1) % Size]]

Buffer == INSTANCE BoundedBuffer WITH queue <- Mails, got <- value, Client <- Thread

\* A mailbox is a bounded buffer: no interleaving of senders, receivers, handler,
\* timeouts, reset and detach loses a mail, delivers one twice or out of order.
ImplementsBuffer == Buffer!Spec

\* No receiver sleeps on a mail that is there for it, and no sender on a slot: while
\* one waits, every mail (every free slot) has a resumed thread on its way to it.
NobodyStranded ==
    /\ k.wait[recvq] # <<>> => mb.entry <= Cardinality(InFlight(recvq))
    /\ k.wait[sendq] # <<>> => Size - mb.entry <= Cardinality(InFlight(sendq))
=============================================================================
