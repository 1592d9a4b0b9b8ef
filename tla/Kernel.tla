------------------------------- MODULE Kernel -------------------------------
(***************************************************************************)
(* The state of the RT-Thread kernel (single core, hard timers only, no    *)
(* signals) and the operations on it that scheduler.c, thread.c, timer.c   *)
(* and ipc.c perform inside a critical section (rt_hw_interrupt_disable /  *)
(* rt_hw_interrupt_enable).  On one core such a section is atomic, so each *)
(* is a function from kernel state to kernel state, under the name of the  *)
(* C function; nested calls are compositions.  The modules that extend     *)
(* this one turn them into actions and decide what may happen in between.  *)
(*                                                                         *)
(* A kernel list is a sequence of threads.  Every list but the timer list  *)
(* is threaded through the one node thread->tlist, so rt_list_remove takes *)
(* a thread out of whichever list it is in.                                *)
(***************************************************************************)
EXTENDS Integers, Sequences, FiniteSets, Functions, FiniteSetsExt, SequencesExt

CONSTANTS Thread,     \* thread control blocks
          Idle,       \* the idle thread
          Obj,        \* IPC objects that threads can wait on
          None,       \* RT_NULL
          PrioMax,    \* RT_THREAD_PRIORITY_MAX; 0 is the most urgent
          BasePrio,   \* the priority a thread is created with
          InitTick,   \* the time slice a thread is created with
          TickMod     \* 2^32 in the code: the number of values of rt_tick_t

Prio == 0 .. PrioMax - 1
Ticks == 0 .. TickMod - 1
HalfTick == (TickMod - 1) \div 2        \* RT_TICK_MAX / 2
Stat == {"INIT", "READY", "SUSPEND", "RUNNING", "CLOSE"}
Err == {"EOK", "ETIMEOUT", "ERROR"}

\* a requested context switch
Switch == [from : Thread, to : Thread]

ASSUME ThreadAssumption ==
    /\ IsFiniteSet(Thread) /\ Idle \in Thread
    /\ None \notin Thread \cup Switch
    /\ PrioMax \in Nat \ {0}
    /\ BasePrio \in [Thread -> Prio]
    /\ InitTick \in [Thread -> Nat \ {0}]
    /\ BasePrio[Idle] = PrioMax - 1
    /\ \A t \in Thread \ {Idle} : BasePrio[t] < PrioMax - 1

ASSUME TickAssumption == TickMod \in Nat /\ TickMod >= 4

(***************************************************************************)
(* cur is rt_current_thread; exec is the thread whose context the CPU      *)
(* holds, which differs from cur while a PendSV is pending: sw then holds  *)
(* rt_interrupt_from_thread and rt_interrupt_to_thread, and is None while  *)
(* rt_thread_switch_interrupt_flag is 0.  group is the bitmap              *)
(* rt_thread_ready_priority_group as the set of its bits.  timers is       *)
(* _timer_list restricted to the thread timers; tmo is their timeout_tick, *)
(* kept at 0 while the timer is not linked (nothing reads it then).        *)
(***************************************************************************)
KernelState ==
    [cur : Thread, exec : Thread, sw : Switch \cup {None},
     stat : [Thread -> Stat], yield : SUBSET Thread,
     prio : [Thread -> Prio], slice : [Thread -> Nat \ {0}],
     err : [Thread -> Err],
     ready : [Prio -> Seq(Thread)], group : SUBSET Prio,
     wait : [Obj -> Seq(Thread)], defunct : Seq(Thread),
     timers : Seq(Thread), tmo : [Thread -> Ticks],
     tick : Ticks, lock : Nat]

-----------------------------------------------------------------------------
(* Lists. *)

ListDel(s, t) ==
    IF t \in Range(s) THEN RemoveAt(s, CHOOSE i \in DOMAIN s : s[i] = t) ELSE s

\* insert t in front of the first member that is in the set after
ListInsert(s, t, after) ==
    LET later == {i \in DOMAIN s : s[i] \in after}
    IN  IF later = {} THEN Append(s, t) ELSE InsertAt(s, Min(later), t)

\* rt_list_remove(&thread->tlist)
TListRemove(k, t) ==
    [k EXCEPT !.ready   = [p \in Prio |-> ListDel(@[p], t)],
              !.wait    = [o \in Obj |-> ListDel(@[o], t)],
              !.defunct = ListDel(@, t)]

-----------------------------------------------------------------------------
(* scheduler.c *)

rt_schedule_insert_thread(k, t) ==
    IF t = k.cur
    THEN [k EXCEPT !.stat[t] = "RUNNING"]
    ELSE [k EXCEPT !.stat[t] = "READY",
                   !.ready[k.prio[t]] = Append(@, t),
                   !.group = @ \cup {k.prio[t]}]

\* a slip for testing the properties: the bit of the emptied queue stays set
RemoveKeepsBit(k, t) == TListRemove(k, t)

rt_schedule_remove_thread(k, t) ==
    LET k1 == TListRemove(k, t)
    IN  IF k1.ready[k.prio[t]] = <<>>
        THEN [k1 EXCEPT !.group = @ \ {k.prio[t]}]
        ELSE k1

\* a slip: the second request before PendSV overwrites rt_interrupt_from_thread
SwitchForgetsFrom(k, from, to) == [k EXCEPT !.sw = [from |-> from, to |-> to]]

\* rt_hw_context_switch and rt_hw_context_switch_interrupt, one routine
rt_hw_context_switch(k, from, to) ==
    [k EXCEPT !.sw = [from |-> IF @ = None THEN from ELSE @.from, to |-> to]]

HighestReady(k) == Min(k.group)

\* the current thread keeps the processor against the highest ready priority
KeepsCpu(k) ==
    /\ k.stat[k.cur] = "RUNNING"
    /\ \/ k.prio[k.cur] < HighestReady(k)
       \/ k.prio[k.cur] = HighestReady(k) /\ k.cur \notin k.yield

\* a slip: the preempted thread stays RUNNING, though queued
SwitchKeepsRunning(k, to) ==
    LET k1 == IF k.stat[k.cur] = "RUNNING"
              THEN [k EXCEPT !.ready[k.prio[k.cur]] = Append(@, k.cur),
                             !.group = @ \cup {k.prio[k.cur]}]
              ELSE k
        k2 == [rt_schedule_remove_thread(k1, to) EXCEPT !.stat[to] = "RUNNING", !.cur = to]
    IN  rt_hw_context_switch(k2, k.cur, to)

\* the branch of rt_schedule that makes thread `to` the current thread
SwitchTo(k, to) ==
    LET from == k.cur
        k1 == [k EXCEPT !.cur = to]
        k2 == IF k.stat[from] = "RUNNING"
              THEN rt_schedule_insert_thread([k1 EXCEPT !.yield = @ \ {from}], from)
              ELSE k1
        k3 == [rt_schedule_remove_thread(k2, to) EXCEPT !.stat[to] = "RUNNING"]
    IN  rt_hw_context_switch(k3, from, to)

\* the branch that leaves it with the current thread
StayOn(k) ==
    LET k1 == IF k.stat[k.cur] = "RUNNING"
              THEN [k EXCEPT !.yield = @ \ {k.cur}] ELSE k
    IN  [rt_schedule_remove_thread(k1, k.cur) EXCEPT !.stat[k.cur] = "RUNNING"]

\* a slip: rt_scheduler_lock_nest is not tested
ScheduleIgnoresLock(k) ==
    IF k.group = {} THEN k
    ELSE LET to == IF KeepsCpu(k) THEN k.cur ELSE Head(k.ready[HighestReady(k)])
         IN  IF to = k.cur THEN StayOn(k) ELSE SwitchTo(k, to)

rt_schedule(k) ==
    IF k.lock > 0 \/ k.group = {} THEN k
    ELSE LET to == IF KeepsCpu(k) THEN k.cur ELSE Head(k.ready[HighestReady(k)])
         IN  IF to = k.cur THEN StayOn(k) ELSE SwitchTo(k, to)

-----------------------------------------------------------------------------
(* timer.c, for thread timers (one-shot, skip list of one level) *)

\* _timer_remove, and the flag RT_TIMER_FLAG_ACTIVATED cleared with it
timer_remove(k, t) ==
    [k EXCEPT !.timers = ListDel(@, t), !.tmo[t] = 0]

rt_timer_stop(k, t) == IF t \in Range(k.timers) THEN timer_remove(k, t) ELSE k

\* a slip: timeouts are compared as plain numbers, without the wraparound
StartIgnoresWrap(k, t, d) ==
    LET k1 == timer_remove(k, t)
        at == (k.tick + d) % TickMod
    IN  [k1 EXCEPT !.tmo[t] = at,
                   !.timers = ListInsert(@, t, {u \in Thread : k1.tmo[u] > at})]

\* rt_timer_control(SET_TIME, d) followed by rt_timer_start
rt_timer_start(k, t, d) ==
    LET k1 == timer_remove(k, t)
        at == (k.tick + d) % TickMod
        later == {u \in Thread : (k1.tmo[u] - at) % TickMod \in 1 .. HalfTick - 1}
    IN  [k1 EXCEPT !.tmo[t] = at, !.timers = ListInsert(@, t, later)]

\* a slip: the same in rt_timer_check
DueIgnoresWrap(k) == k.timers # <<>> /\ k.tick > k.tmo[Head(k.timers)]

\* the first timer of the list has expired: the condition of rt_timer_check
TimerDue(k) ==
    /\ k.timers # <<>>
    /\ (k.tick - k.tmo[Head(k.timers)]) % TickMod < HalfTick

-----------------------------------------------------------------------------
(* thread.c *)

CanSuspend(k, t) == k.stat[t] \in {"READY", "RUNNING"}

rt_thread_suspend(k, t) ==
    IF CanSuspend(k, t)
    THEN rt_timer_stop([rt_schedule_remove_thread(k, t)
                        EXCEPT !.stat[t] = "SUSPEND"], t)
    ELSE k

\* a slip: the timer of the wait that is over goes on running
ResumeKeepsTimer(k, t) == rt_schedule_insert_thread(TListRemove(k, t), t)

\* the critical section of rt_thread_resume; its check is the caller's
ResumeSection(k, t) ==
    rt_schedule_insert_thread(rt_timer_stop(TListRemove(k, t), t), t)

rt_thread_resume(k, t) == IF k.stat[t] = "SUSPEND" THEN ResumeSection(k, t) ELSE k

\* slips: the thread stays on its wait list; nothing is rescheduled
TimeoutKeepsLink(k, t) ==
    rt_schedule(rt_schedule_insert_thread(
        [timer_remove(k, t) EXCEPT !.err[t] = "ETIMEOUT"], t))
TimeoutWithoutSchedule(k, t) ==
    rt_schedule_insert_thread(
        TListRemove([timer_remove(k, t) EXCEPT !.err[t] = "ETIMEOUT"], t), t)

\* the expiry of a thread timer in rt_timer_check, its callback included
thread_timeout(k, t) ==
    LET k1 == TListRemove([timer_remove(k, t) EXCEPT !.err[t] = "ETIMEOUT"], t)
    IN  rt_schedule(rt_schedule_insert_thread(k1, t))

\* slips: a ready thread is not moved to the queue of its new priority, or lost
PriorityWithoutMove(k, t, p) == [k EXCEPT !.prio[t] = p]
PriorityLosesThread(k, t, p) ==
    IF k.stat[t] = "READY"
    THEN [rt_schedule_remove_thread(k, t) EXCEPT !.prio[t] = p]
    ELSE [k EXCEPT !.prio[t] = p]

\* rt_thread_control(RT_THREAD_CTRL_CHANGE_PRIORITY)
ChangePriority(k, t, p) ==
    IF k.stat[t] = "READY"
    THEN rt_schedule_insert_thread(
             [rt_schedule_remove_thread(k, t) EXCEPT !.prio[t] = p], t)
    ELSE [k EXCEPT !.prio[t] = p]

\* what _thread_exit, rt_thread_detach and rt_thread_delete share: the thread
\* timer is detached, the thread closed and put on the defunct list
CloseThread(k, t) ==
    [timer_remove(k, t) EXCEPT !.stat[t] = "CLOSE", !.yield = @ \ {t},
                               !.defunct = <<t>> \o @]

-----------------------------------------------------------------------------
(* clock.c *)

SliceOut(k) == k.slice[k.cur] = 1

\* a slip: the end of a slice does not ask to yield
TickWithoutYield(k) ==
    LET k1 == [k EXCEPT !.tick = (@ + 1) % TickMod]
    IN  IF SliceOut(k)
        THEN [k1 EXCEPT !.slice[k.cur] = InitTick[k.cur]]
        ELSE [k1 EXCEPT !.slice[k.cur] = @ - 1]

\* the critical section of rt_tick_increase
TickSection(k) ==
    LET k1 == [k EXCEPT !.tick = (@ + 1) % TickMod]
    IN  IF SliceOut(k)
        THEN [k1 EXCEPT !.slice[k.cur] = InitTick[k.cur], !.yield = @ \cup {k.cur}]
        ELSE [k1 EXCEPT !.slice[k.cur] = @ - 1]

-----------------------------------------------------------------------------
(* ipc.c *)

\* slips: a stale thread->error; waiters queued in order of arrival whatever the flag
SuspendKeepsError(k, o, t, flag, d) ==
    LET k1 == rt_thread_suspend(k, t)
        lessUrgent == {u \in Thread : flag = "PRIO" /\ k.prio[t] < k.prio[u]}
        k2 == [k1 EXCEPT !.wait[o] = ListInsert(@, t, lessUrgent)]
    IN  IF d = None THEN k2 ELSE rt_timer_start(k2, t, d)
SuspendInOrder(k, o, t, flag, d) ==
    LET k1 == rt_thread_suspend([k EXCEPT !.err[t] = "EOK"], t)
        k2 == [k1 EXCEPT !.wait[o] = Append(@, t)]
    IN  IF d = None THEN k2 ELSE rt_timer_start(k2, t, d)

\* _ipc_list_suspend and the start of the thread timer that follows it when
\* the wait is timed; d is the timeout, None for RT_WAITING_FOREVER
ipc_list_suspend(k, o, t, flag, d) ==
    LET k1 == rt_thread_suspend([k EXCEPT !.err[t] = "EOK"], t)
        lessUrgent == {u \in Thread : flag = "PRIO" /\ k.prio[t] < k.prio[u]}
        k2 == [k1 EXCEPT !.wait[o] = ListInsert(@, t, lessUrgent)]
    IN  IF d = None THEN k2 ELSE rt_timer_start(k2, t, d)

ipc_list_resume(k, o) == rt_thread_resume(k, Head(k.wait[o]))

\* one turn of the loop of _ipc_list_resume_all
ResumeWithError(k, o) ==
    rt_thread_resume([k EXCEPT !.err[Head(k.wait[o])] = "ERROR"], Head(k.wait[o]))

-----------------------------------------------------------------------------
(* What the operations keep of the kernel state. *)

\* tlist is linked into at most one list, once, and the state of the thread
\* names that list: the ready queue of its own priority only while READY, a wait
\* list only while SUSPEND, the defunct list only once CLOSE
LinksMatchStat(k) ==
    /\ \A p \in Prio : IsInjective(k.ready[p])
    /\ \A o \in Obj : IsInjective(k.wait[o])
    /\ IsInjective(k.defunct)
    /\ \A p \in Prio : \A t \in Range(k.ready[p]) :
          k.stat[t] = "READY" /\ k.prio[t] = p
    /\ \A o \in Obj : \A t \in Range(k.wait[o]) :
          /\ k.stat[t] = "SUSPEND"
          /\ \A o2 \in Obj \ {o} : t \notin Range(k.wait[o2])
    /\ \A t \in Range(k.defunct) : k.stat[t] = "CLOSE"

QueuedIfReady(k) ==
    \A t \in Thread : k.stat[t] = "READY" => t \in Range(k.ready[k.prio[t]])

GroupOfQueues(k) == \A p \in Prio : p \in k.group <=> k.ready[p] # <<>>

SwitchAgrees(k) ==
    IF k.sw = None THEN k.exec = k.cur ELSE k.sw = [from |-> k.exec, to |-> k.cur]

CurOnlyRunning(k) ==
    /\ k.stat[k.cur] \in {"RUNNING", "SUSPEND", "CLOSE"}
    /\ \A t \in Thread \ {k.cur} : k.stat[t] # "RUNNING"

IdleIsRunnable(k) == k.stat[Idle] \in {"READY", "RUNNING"} /\ k.prio[Idle] = PrioMax - 1

TimersMatchStat(k) ==
    /\ IsInjective(k.timers)
    /\ \A t \in Range(k.timers) : k.stat[t] = "SUSPEND"
=============================================================================
