------------------------------ MODULE Channel ------------------------------
(***************************************************************************)
(* What mailboxes and message queues (ipc.c) have in common: receivers     *)
(* wait on one list while there is no message, senders on another while    *)
(* there is no room.  A thread that is resumed finds the condition tested  *)
(* again, since another one may have been faster, and waits for what is    *)
(* left of its timeout.                                                    *)
(***************************************************************************)
EXTENDS Ipc

CONSTANTS recvq,    \* parent.suspend_thread
          sendq,    \* suspend_sender_thread
          Flag,     \* "FIFO" or "PRIO"
          Message,  \* the messages that are sent
          Size      \* the messages that fit in: mb->size, mq->max_msgs

ASSUME ChannelAssumption ==
    /\ Obj = {recvq, sendq} /\ recvq # sendq
    /\ Flag \in {"FIFO", "PRIO"}
    /\ None \notin Message \cup Ticks
    /\ Size \in Nat \ {0}

VARIABLES call,   \* locals of a send or receive that waits
          due     \* history: the tick at which that call was to time out

chanVars == <<call, due>>

\* the arguments msg and timeout, the latter recomputed, and tick_delta
Locals == [msg : Message \cup {None}, timeout : (0 .. HalfTick - 1) \cup {None},
           tick_delta : Ticks]
NoCall == [msg |-> None, timeout |-> 0, tick_delta |-> 0]

Waiting(t) == pc[t] \in {"take", "took"}

\* a slip for testing the properties: every wait has the whole timeout again
RemainingIsWhole(t) == call[t].timeout

\* what is left of the timeout when a resumed thread tests the condition again
Remaining(t) ==
    LET c == call[t]
    IN  IF c.timeout = None THEN None
        ELSE Max({0, c.timeout - ((k.tick - c.tick_delta) % TickMod)})

EndCall(t) ==
    /\ call' = [call EXCEPT ![t] = NoCall]
    /\ due' = [due EXCEPT ![t] = None]
    /\ SetArg(t, None)

\* the section that suspends the caller on list o, with message m to send
Suspend(t, o, m, timeout) ==
    /\ k' = ipc_list_suspend(k, o, t, Flag, timeout)
    /\ call' = [call EXCEPT ![t] = [msg |-> m, timeout |-> timeout,
                                    tick_delta |-> IF timeout = None THEN 0 ELSE k.tick]]
    /\ SetArg(t, o)
    /\ Goto(t, "take")

\* RT_DEBUG_SCHEDULER_AVAILABLE(timeout != 0)
MayWait(timeout) == timeout # 0 => k.lock = 0

BeginWait(t, o, m, timeout) ==
    /\ timeout # 0
    /\ Suspend(t, o, m, timeout)
    /\ due' = [due EXCEPT ![t] = IF timeout = None THEN None
                                 ELSE (k.tick + timeout) % TickMod]

\* resumed without error
Resumed(t, o) == At(t, "took") /\ arg[t] = o /\ k.err[t] = "EOK"

\* resumed, but the condition does not hold: wait again or give up
WaitAgain(t) ==
    IF Remaining(t) = 0
    THEN /\ k' = [k EXCEPT !.err[t] = IF arg[t] = recvq THEN "ETIMEOUT" ELSE "EOK"]
         /\ EndCall(t)
         /\ Goto(t, "run")
    ELSE /\ Suspend(t, arg[t], call[t].msg, Remaining(t))
         /\ UNCHANGED due

\* resumed by the timer, a reset or a detach
WaitFails(t) ==
    /\ At(t, "took") /\ k.err[t] # "EOK"
    /\ EndCall(t)
    /\ Goto(t, "run")
    /\ UNCHANGED <<k, isr, valid>>

\* the end of a section that lets in one waiter of list o: where the thread or
\* the handler goes on
ResumeOne(o) == k' = IF k.wait[o] # <<>> THEN ipc_list_resume(k, o) ELSE k
AfterResume(o) == IF k.wait[o] # <<>> THEN "sched" ELSE "run"
DevAfterResume(o) == GotoFrame(IF k.wait[o] # <<>> THEN "sched" ELSE "leave")

\* RT_IPC_CMD_RESET resumes the waiters of both lists in one section; detaching
\* empties one list after the other, and then removes the object
ResetEnter(t) ==
    /\ Calls(t, "reset") /\ valid[recvq]
    /\ Goto(t, "reset")
    /\ UNCHANGED <<k, isr, ipcVars, chanVars>>

ResetResume(t, o) ==
    /\ At(t, "reset") /\ k.wait[o] # <<>>
    /\ o = sendq => k.wait[recvq] = <<>>
    /\ k' = ResumeWithError(k, o)
    /\ UNCHANGED <<isr, pc, ipcVars, chanVars>>

ResetReady(t) == At(t, "reset") /\ \A o \in Obj : k.wait[o] = <<>>

DetachSenders(t) ==
    /\ At(t, "object") /\ arg[t] = recvq
    /\ SetArg(t, sendq)
    /\ Goto(t, "detach")
    /\ UNCHANGED <<k, isr, valid, chanVars>>

DetachChannel(t) ==
    /\ At(t, "object") /\ arg[t] = sendq
    /\ valid' = [o \in Obj |-> FALSE]
    /\ SetArg(t, None)
    /\ Goto(t, "run")
    /\ UNCHANGED <<k, isr, chanVars>>

\* the steps of a channel that do not touch its messages
ChannelFinish(t) ==
    \/ CpuFinish(t) /\ UNCHANGED <<ipcVars, chanVars>>
    \/ ThreadSchedule(t, "take", "took") /\ UNCHANGED <<ipcVars, chanVars>>
    \/ WaitFails(t)
    \/ \E o \in Obj : ResetResume(t, o)
    \/ DetachTest(t) /\ UNCHANGED chanVars
    \/ DetachResume(t) /\ UNCHANGED chanVars
    \/ DetachSenders(t)
    \/ DetachChannel(t)

ChannelCall(t) ==
    \/ CpuCall(t) /\ UNCHANGED <<ipcVars, chanVars>>
    \/ ResetEnter(t)
    \/ DetachEnter(t, recvq) /\ UNCHANGED chanVars

(***************************************************************************)
(* A bound: a resumed thread gets the processor back before the tick       *)
(* counter has gone round (2^32 ticks in the code), so a difference of     *)
(* ticks is the time elapsed.  With the few ticks of an instance that      *)
(* holds once a difference that has used up the timeout grows no more.     *)
(***************************************************************************)
Elapsed(c) ==
    IF c.timeout \notin {0, None} /\ (k.tick - c.tick_delta) % TickMod = c.timeout
    THEN [c EXCEPT !.tick_delta = (@ + 1) % TickMod]
    ELSE c

ChannelCpu ==
    /\ CpuStep(MaskedPc)
    /\ call' = IF k'.tick # k.tick THEN [t \in Thread |-> Elapsed(call[t])] ELSE call
    /\ UNCHANGED <<ipcVars, due>>

ChannelInit ==
    /\ IpcInit
    /\ call = [t \in Thread |-> NoCall]
    /\ due = [t \in Thread |-> None]

-----------------------------------------------------------------------------
ChannelTypeOK(Pc) ==
    /\ k \in KernelState
    /\ isr \in Seq(Frame)
    /\ pc \in [Thread -> Pc]
    /\ arg \in [Thread -> Obj \cup {None}]
    /\ valid \in [Obj -> BOOLEAN]
    /\ call \in [Thread -> Locals]
    /\ due \in [Thread -> Ticks \cup {None}]

\* However often a thread is resumed, finds that another one was faster and waits
\* again, the timer of the wait is set to the tick at which the call times out:
\* the timeout is for the call, not for each wait, also across the wraparound.
DeadlineKept ==
    \A t \in Thread :
        Waiting(t) /\ t \in UNION {Range(k.wait[o]) : o \in Obj} =>
            IF due[t] = None THEN t \notin Range(k.timers)
                             ELSE t \in Range(k.timers) /\ k.tmo[t] = due[t]
=============================================================================
