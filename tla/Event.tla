------------------------------- MODULE Event -------------------------------
(***************************************************************************)
(* Event sets (ipc.c): threads wait for all or for any of some flags, with *)
(* the option to clear what they received; threads and a device handler    *)
(* send flags.  One event object, the only member of Obj.                  *)
(***************************************************************************)
EXTENDS Ipc

CONSTANTS event,      \* the event object
          Flag,       \* "FIFO" or "PRIO"
          EventFlag   \* the bits of an event set, 32 in the code

ASSUME EventAssumption == Obj = {event} /\ Flag \in {"FIFO", "PRIO"}

VARIABLES set,    \* event->set
          info,   \* thread->event_set and thread->event_info
          asked   \* history: the flags that a waiting receive was called with

eventVars == <<set, info, asked>>
vars == <<k, isr, pc, arg, valid, set, info, asked>>

Sets == SUBSET EventFlag \ {{}}
Option == [mode : {"AND", "OR"}, clear : BOOLEAN]
Info == [set : SUBSET EventFlag, option : Option]
NoInfo == [set |-> {}, option |-> [mode |-> "OR", clear |-> FALSE]]

Satisfied(have, want, mode) ==
    IF mode = "AND" THEN want \subseteq have ELSE want \cap have # {}

-----------------------------------------------------------------------------
\* slips for testing the properties: the received flags are worked out after the
\* clearing; the loop stops at the first receiver it resumes
DeliverClearsFirst(acc, t) ==
    LET i == acc.info[t]
        left == IF i.option.clear THEN acc.set \ i.set ELSE acc.set
    IN  IF ~Satisfied(acc.set, i.set, i.option.mode) THEN acc
        ELSE [k |-> rt_thread_resume(acc.k, t), set |-> left,
              info |-> [acc.info EXCEPT ![t].set =
                            IF i.option.mode = "OR" THEN @ \cap left ELSE @]]
DeliverToFirst(acc, t) ==
    LET i == acc.info[t]
        hit == IF i.option.mode = "OR" THEN i.set \cap acc.set ELSE i.set
    IN  IF \/ ~Satisfied(acc.set, i.set, i.option.mode)
           \/ acc.k.wait[event] # k.wait[event]
        THEN acc
        ELSE [k |-> rt_thread_resume(acc.k, t),
              set |-> IF i.option.clear THEN acc.set \ hit ELSE acc.set,
              info |-> [acc.info EXCEPT ![t].set = hit]]

\* one turn of the loop of rt_event_send, for waiter t
Deliver(acc, t) ==
    LET i == acc.info[t]
        hit == IF i.option.mode = "OR" THEN i.set \cap acc.set ELSE i.set
    IN  IF ~Satisfied(acc.set, i.set, i.option.mode) THEN acc
        ELSE [k |-> rt_thread_resume(acc.k, t),
              set |-> IF i.option.clear THEN acc.set \ hit ELSE acc.set,
              info |-> [acc.info EXCEPT ![t].set = hit]]

\* the section of rt_event_send
Sent(s) == FoldLeft(Deliver, [k |-> k, set |-> set \cup s, info |-> info], k.wait[event])

SendSection(s) ==
    /\ valid[event]
    /\ k' = Sent(s).k /\ set' = Sent(s).set /\ info' = Sent(s).info
    /\ UNCHANGED <<ipcVars, asked>>

need_schedule(s) == Sent(s).k # k

rt_event_send(t, s) ==
    /\ Calls(t, "send")
    /\ SendSection(s)
    /\ Goto(t, IF need_schedule(s) THEN "sched" ELSE "run")
    /\ UNCHANGED isr

DevSend(s) ==
    /\ InHandler("dev", "body") /\ "send" \in DevOps
    /\ SendSection(s)
    /\ GotoFrame(IF need_schedule(s) THEN "sched" ELSE "leave")
    /\ UNCHANGED pc

RecvCall(t) == Calls(t, "recv") /\ valid[event] /\ k.lock = 0

\* rt_event_recv: the condition holds already
RecvNow(t, s, o) ==
    /\ RecvCall(t) /\ Satisfied(set, s, o.mode)
    /\ set' = IF o.clear THEN set \ s ELSE set
    /\ k' = [k EXCEPT !.err[t] = "EOK"]
    /\ UNCHANGED <<isr, pc, ipcVars, info, asked>>

\* it does not, and timeout is 0
RecvFails(t, s, o) ==
    /\ RecvCall(t) /\ ~Satisfied(set, s, o.mode) /\ 0 \in Timeouts
    /\ k' = [k EXCEPT !.err[t] = "ETIMEOUT"]
    /\ UNCHANGED <<isr, pc, ipcVars, eventVars>>

\* it does not, and the thread waits
RecvBlock(t, s, o, timeout) ==
    /\ RecvCall(t) /\ ~Satisfied(set, s, o.mode) /\ timeout # 0
    /\ info' = [info EXCEPT ![t] = [set |-> s, option |-> o]]
    /\ asked' = [asked EXCEPT ![t] = s]
    /\ k' = ipc_list_suspend(k, event, t, Flag, timeout)
    /\ SetArg(t, event)
    /\ Goto(t, "take")
    /\ UNCHANGED <<isr, valid, set>>

\* back from rt_schedule; thread->event_set is read here for the last time
RecvReturn(t) ==
    /\ At(t, "took")
    /\ info' = [info EXCEPT ![t] = NoInfo]
    /\ asked' = [asked EXCEPT ![t] = {}]
    /\ SetArg(t, None)
    /\ Goto(t, "run")
    /\ UNCHANGED <<k, isr, valid, set>>

\* rt_event_control(RT_IPC_CMD_RESET), one waiter per step of its section
ResetEnter(t) ==
    /\ Calls(t, "reset") /\ valid[event]
    /\ Goto(t, "reset")
    /\ UNCHANGED <<k, isr, ipcVars, eventVars>>

ResetResume(t) ==
    /\ At(t, "reset") /\ k.wait[event] # <<>>
    /\ k' = ResumeWithError(k, event)
    /\ UNCHANGED <<isr, pc, ipcVars, eventVars>>

ResetSet(t) ==
    /\ At(t, "reset") /\ k.wait[event] = <<>>
    /\ set' = {}
    /\ Goto(t, "sched")
    /\ UNCHANGED <<k, isr, ipcVars, info, asked>>

-----------------------------------------------------------------------------
Init ==
    /\ IpcInit
    /\ set = {}
    /\ info = [t \in Thread |-> NoInfo]
    /\ asked = [t \in Thread |-> {}]

Finish(t) ==
    \/ CpuFinish(t) /\ UNCHANGED <<ipcVars, eventVars>>
    \/ ThreadSchedule(t, "take", "took") /\ UNCHANGED <<ipcVars, eventVars>>
    \/ RecvReturn(t)
    \/ ResetResume(t)
    \/ ResetSet(t)
    \/ DetachStep(t) /\ UNCHANGED eventVars

Call(t) ==
    \/ CpuCall(t) /\ UNCHANGED <<ipcVars, eventVars>>
    \/ \E s \in Sets :
          \/ rt_event_send(t, s)
          \/ \E o \in Option :
                \/ RecvNow(t, s, o)
                \/ RecvFails(t, s, o)
                \/ \E d \in Timeouts : RecvBlock(t, s, o, d)
    \/ ResetEnter(t)
    \/ DetachEnter(t, event) /\ UNCHANGED eventVars

Next ==
    \/ CpuStep(MaskedPc) /\ UNCHANGED <<ipcVars, eventVars>>
    \/ \E s \in Sets : DevSend(s)
    \/ \E t \in Thread : Running(t) /\ (Finish(t) \/ Call(t))

Spec == Init /\ [][Next]_vars

-----------------------------------------------------------------------------
\* the type invariant of the composition
TypeOK ==
    /\ IpcTypeOK
    /\ set \subseteq EventFlag
    /\ info \in [Thread -> Info]
    /\ asked \in [Thread -> SUBSET EventFlag]

\* No thread waits for what has been sent: whatever the waiters before it in the list
\* took and cleared, and whenever it arrived, no waiter's condition holds.
NoMissedEvent ==
    \A t \in Range(k.wait[event]) :
        ~Satisfied(set, info[t].set, info[t].option.mode)

\* A receive that was resumed without error returns flags that it asked for, all of
\* them with RT_EVENT_FLAG_AND and at least one with RT_EVENT_FLAG_OR, though the
\* object's set has changed since.
RecvedSatisfies ==
    \A t \in InFlight(event) :
        /\ info[t].set \subseteq asked[t]
        /\ Satisfied(info[t].set, asked[t], info[t].option.mode)
=============================================================================
