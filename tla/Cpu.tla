-------------------------------- MODULE Cpu --------------------------------
(***************************************************************************)
(* The processor the kernel runs on: thread context, the SysTick handler,  *)
(* one device interrupt and the PendSV context switch of context_gcc.S.    *)
(* A step of the model is one critical section, or the code between two.   *)
(* An interrupt may arrive between any two steps unless interrupts are     *)
(* masked; SysTick and PendSV have the lowest priority (NVIC_PENDSV_PRI),  *)
(* so a device handler may nest on the SysTick handler and nothing nests   *)
(* on a device handler.                                                    *)
(***************************************************************************)
EXTENDS Kernel

CONSTANTS Main,     \* the main thread
          App,      \* the services that the code of each thread calls
          DevOps,   \* the services that the device handler calls
          LockMax,  \* bound on the nesting of rt_enter_critical
          Delays    \* arguments of rt_thread_sleep and rt_thread_delay_until

ASSUME MainAssumption == Main \in Thread \ {Idle}
ASSUME DelayAssumption == Delays \subseteq 1 .. HalfTick - 1
ASSUME AppAssumption == App \in [Thread -> SUBSET STRING] /\ App[Idle] = {}

VARIABLES k,      \* the kernel state
          isr,    \* the active interrupt handlers, innermost last
          pc      \* where the code of each thread stands

(***************************************************************************)
(* A frame is an active handler and the point it has reached: "sched" in   *)
(* front of a call of rt_schedule, "check" in front of rt_timer_check,     *)
(* "expire" inside its loop (interrupts masked), "body" in front of the    *)
(* work of the device handler, "leave" in front of rt_interrupt_leave.     *)
(***************************************************************************)
Frame == [irq : {"tick", "dev"}, at : {"sched", "check", "expire", "body", "leave"}]

\* the points of a thread: "run" in application code, "sched" in front of the
\* rt_schedule that ends a service, "sleep" in front of the one that begins a sleep,
\* "slept" behind it
CpuPc == {"run", "sched", "sleep", "slept"}

InHandler(irq, at) == isr # <<>> /\ Last(isr) = [irq |-> irq, at |-> at]
GotoFrame(at) == isr' = [isr EXCEPT ![Len(isr)].at = at]

Running(t) == isr = <<>> /\ k.sw = None /\ k.exec = t
At(t, l) == Running(t) /\ pc[t] = l
Calls(t, op) == At(t, "run") /\ op \in App[t]
Goto(t, l) == pc' = [pc EXCEPT ![t] = l]

\* interrupts are masked across steps inside the loop of rt_timer_check and
\* at the points of a thread that the extending module calls masked
Masked(MaskedPc) ==
    \/ InHandler("tick", "expire")
    \/ isr = <<>> /\ k.sw = None /\ pc[k.exec] \in MaskedPc

-----------------------------------------------------------------------------
\* SysTick_Handler: rt_interrupt_enter and the first section of rt_tick_increase;
\* a pending PendSV, of the same priority and a lower number, goes first
TickEnter(MaskedPc) ==
    /\ isr = <<>> /\ k.sw = None /\ ~Masked(MaskedPc)
    /\ k' = TickSection(k)
    /\ isr' = <<[irq |-> "tick", at |-> IF SliceOut(k) THEN "sched" ELSE "check"]>>
    /\ UNCHANGED pc

\* a device interrupt: rt_interrupt_enter of its handler
DevEnter(MaskedPc) ==
    /\ DevOps # {} /\ ~Masked(MaskedPc)
    /\ \A i \in DOMAIN isr : isr[i].irq = "tick"
    /\ isr' = Append(isr, [irq |-> "dev", at |-> "body"])
    /\ UNCHANGED <<k, pc>>

\* rt_schedule called by a handler, from rt_tick_increase or a device handler
TickSchedule ==
    /\ InHandler("tick", "sched")
    /\ k' = rt_schedule(k)
    /\ GotoFrame("check")
    /\ UNCHANGED pc

DevSchedule ==
    /\ InHandler("dev", "sched")
    /\ k' = rt_schedule(k)
    /\ GotoFrame("leave")
    /\ UNCHANGED pc

\* one turn of the loop of rt_timer_check
TimerExpire ==
    /\ InHandler("tick", "check") \/ InHandler("tick", "expire")
    /\ TimerDue(k)
    /\ k' = thread_timeout(k, Head(k.timers))
    /\ GotoFrame("expire")
    /\ UNCHANGED pc

\* the end of rt_timer_check and rt_interrupt_leave
TickLeave ==
    /\ InHandler("tick", "check") \/ InHandler("tick", "expire")
    /\ ~TimerDue(k)
    /\ isr' = Front(isr)
    /\ UNCHANGED <<k, pc>>

DevLeave ==
    /\ InHandler("dev", "body") \/ InHandler("dev", "leave")
    /\ isr' = Front(isr)
    /\ UNCHANGED <<k, pc>>

PendSV_Handler ==
    /\ isr = <<>> /\ k.sw # None
    /\ k' = [k EXCEPT !.exec = k.sw.to, !.sw = None]
    /\ UNCHANGED <<isr, pc>>

\* rt_schedule called by a thread at the end of a service
ThreadSchedule(t, from, to) ==
    /\ At(t, from)
    /\ k' = rt_schedule(k)
    /\ Goto(t, to)
    /\ UNCHANGED isr

CpuStep(MaskedPc) ==
    \/ TickEnter(MaskedPc) \/ TickSchedule \/ TimerExpire \/ TickLeave
    \/ DevEnter(MaskedPc) \/ DevSchedule \/ DevLeave
    \/ PendSV_Handler

\* rt_thread_startup up to its rt_schedule: the stat it sets makes the resume legal
Startup(t, u) ==
    /\ Calls(t, "startup") /\ k.stat[u] = "INIT"
    /\ k' = rt_thread_resume([k EXCEPT !.stat[u] = "SUSPEND", !.yield = @ \ {u}], u)
    /\ Goto(t, "sched")
    /\ UNCHANGED isr

rt_enter_critical(t) ==
    /\ Calls(t, "critical") /\ k.lock < LockMax
    /\ k' = [k EXCEPT !.lock = @ + 1]
    /\ UNCHANGED <<isr, pc>>

\* the nesting never goes below 0: an unmatched call only reschedules
rt_exit_critical(t) ==
    /\ Calls(t, "critical")
    /\ k' = [k EXCEPT !.lock = IF @ > 0 THEN @ - 1 ELSE 0]
    /\ Goto(t, IF k.lock > 1 THEN "run" ELSE "sched")
    /\ UNCHANGED isr

rt_thread_yield(t) ==
    /\ Calls(t, "yield")
    /\ k' = rt_schedule([k EXCEPT !.slice[t] = InitTick[t], !.yield = @ \cup {t}])
    /\ UNCHANGED <<isr, pc>>

\* the section that rt_thread_sleep and rt_thread_delay_until share
SleepSection(t, d) ==
    /\ k' = rt_timer_start(rt_thread_suspend([k EXCEPT !.err[t] = "EOK"], t), t, d)
    /\ Goto(t, "sleep")

rt_thread_sleep(t, d) ==
    /\ Calls(t, "sleep")
    /\ SleepSection(t, d)
    /\ UNCHANGED isr

\* back from rt_schedule: a timeout is the normal end of a sleep
SleepReturn(t) ==
    /\ At(t, "slept")
    /\ k' = [k EXCEPT !.err[t] = IF @ = "ETIMEOUT" THEN "EOK" ELSE @]
    /\ Goto(t, "run")
    /\ UNCHANGED isr

\* the services that every composition offers
CpuCall(t) ==
    \/ \E u \in Thread : Startup(t, u)
    \/ rt_enter_critical(t)
    \/ rt_exit_critical(t)
    \/ rt_thread_yield(t)
    \/ \E d \in Delays : rt_thread_sleep(t, d)

\* and the steps that finish them
CpuFinish(t) ==
    \/ ThreadSchedule(t, "sched", "run")
    \/ ThreadSchedule(t, "sleep", "slept")
    \/ SleepReturn(t)

-----------------------------------------------------------------------------
(***************************************************************************)
(* The kernel once rt_system_scheduler_start has switched to the main      *)
(* thread that rt_application_init started: the idle thread is ready,      *)
(* the other threads are created and not started.                          *)
(***************************************************************************)
StartState ==
    [cur |-> Main, exec |-> Main, sw |-> None,
     stat |-> [t \in Thread |-> IF t = Main THEN "RUNNING"
                                ELSE IF t = Idle THEN "READY" ELSE "INIT"],
     yield |-> {}, prio |-> BasePrio, slice |-> InitTick,
     err |-> [t \in Thread |-> "EOK"],
     ready |-> [p \in Prio |-> IF p = BasePrio[Idle] THEN <<Idle>> ELSE <<>>],
     group |-> {BasePrio[Idle]},
     wait |-> [o \in Obj |-> <<>>], defunct |-> <<>>,
     timers |-> <<>>, tmo |-> [t \in Thread |-> 0],
     tick |-> 0, lock |-> 0]

CpuInit ==
    /\ k = StartState
    /\ isr = <<>>
    /\ pc = [t \in Thread |-> "run"]

-----------------------------------------------------------------------------
(* What every composition of the kernel with its services must keep. *)

\* A thread is linked where its state says, and nowhere else: no interrupt between
\* two sections of a service leaves it in two lists or in the list of a state it
\* has left (tlist is one node, so a second link corrupts the first list).
ListsMatchStat == LinksMatchStat(k)

\* No ready thread is forgotten: READY is set together with the link into the
\* queue of the priority the thread has now.
ReadyIsQueued == QueuedIfReady(k)

\* rt_thread_ready_priority_group has exactly the bits of the non-empty queues:
\* a missing bit hides a ready thread, a stale one makes rt_schedule take the
\* list head for a thread.
GroupMatchesQueues == GroupOfQueues(k)

\* rt_current_thread and the pending context switch agree: however many switches
\* are requested before it runs, the PendSV to come saves the context that is on
\* the processor and loads the current thread.
SwitchCoherent == SwitchAgrees(k)

\* Only the current thread is RUNNING, and it is in no ready queue even while it
\* is about to block.
OneRunning == CurOnlyRunning(k)

\* The idle thread is always runnable, so rt_schedule never finds an empty bitmap
\* after the current thread has blocked.
IdleRunnable == IdleIsRunnable(k)

\* An armed thread timer belongs to a thread that is still suspended: the
\* assertion of _thread_timeout.
TimersOfSuspended == TimersMatchStat(k)

\* Preemption is prompt: once interrupt handlers and the pending switch are done
\* and the scheduler is unlocked, application code runs only in a thread that
\* no ready thread precedes.  It is promised where every service that readies a
\* thread or changes a priority reschedules: not with rt_thread_resume, nor
\* RT_THREAD_CTRL_CHANGE_PRIORITY, nor the detaching of an object.
HighestRuns ==
    \A t \in Thread :
        At(t, "run") /\ k.lock = 0 =>
            \A u \in Thread : k.stat[u] = "READY" => k.prio[t] <= k.prio[u]

\* rt_enter_critical keeps the processor: no step of a handler or of the thread
\* switches away from the thread that has locked the scheduler, neither at once
\* nor through a PendSV that was pending when the lock was taken
LockKeepsThread == k.lock > 0 => k'.cur = k.cur /\ k'.exec = k.exec

\* Time slicing: a thread that is ready runs after all, though peers of its
\* priority never block (while no more urgent thread keeps the processor).
ReadyRuns == \A t \in Thread : k.stat[t] = "READY" ~> k.exec = t \/ t = Idle

\* A sleep ends: no timer is forgotten on the list or skipped by rt_timer_check.
SleepEnds == \A t \in Thread : pc[t] \in {"sleep", "slept"} ~> pc[t] = "run"
=============================================================================
