------------------------------- MODULE Mutex -------------------------------
(***************************************************************************)
(* Mutexes (ipc.c): recursive ownership, hand-over to the most urgent      *)
(* waiter and priority inheritance, on the kernel and the processor of     *)
(* module Cpu.  A mutex is used by threads only.                           *)
(***************************************************************************)
EXTENDS Ipc

CONSTANT HoldMax        \* RT_MUTEX_HOLD_MAX

ASSUME HoldAssumption == HoldMax \in Nat \ {0}

NoPrio == 255           \* original_priority of a mutex without owner

VARIABLES value,   \* mutex->value: 1 while the mutex is free
          owner,   \* mutex->owner
          hold,    \* mutex->hold: how often the owner has taken it
          orig,    \* mutex->original_priority of the owner
          mine     \* history: takes that returned RT_EOK to a thread, less its releases

vars == <<k, isr, pc, arg, valid, value, owner, hold, orig, mine>>
mutexVars == <<value, owner, hold, orig>>

-----------------------------------------------------------------------------
\* rt_mutex_take resets thread->error and asserts that the scheduler is unlocked
TakeCall(t, m) == Calls(t, "take") /\ valid[m] /\ k.lock = 0
Cleared(t) == [k EXCEPT !.err[t] = "EOK"]

\* by the owner: one hold more, refused at RT_MUTEX_HOLD_MAX (RT_EFULL)
TakeAgain(t, m) ==
    /\ TakeCall(t, m) /\ owner[m] = t
    /\ k' = Cleared(t)
    /\ IF hold[m] < HoldMax
       THEN /\ hold' = [hold EXCEPT ![m] = @ + 1]
            /\ mine' = [mine EXCEPT ![t][m] = @ + 1]
       ELSE UNCHANGED <<hold, mine>>
    /\ UNCHANGED <<isr, pc, ipcVars, value, owner, orig>>

TakeFree(t, m) ==
    /\ TakeCall(t, m) /\ owner[m] # t /\ value[m] > 0
    /\ k' = Cleared(t)
    /\ value' = [value EXCEPT ![m] = @ - 1]
    /\ owner' = [owner EXCEPT ![m] = t]
    /\ orig' = [orig EXCEPT ![m] = k.prio[t]]
    /\ hold' = [hold EXCEPT ![m] = @ + 1]
    /\ mine' = [mine EXCEPT ![t][m] = @ + 1]
    /\ UNCHANGED <<isr, pc, ipcVars>>

\* held by another thread and timeout is 0
TakeFails(t, m) ==
    /\ TakeCall(t, m) /\ owner[m] # t /\ value[m] = 0
    /\ k' = [k EXCEPT !.err[t] = "ETIMEOUT"]
    /\ UNCHANGED <<isr, pc, ipcVars, mutexVars, mine>>

\* a slip for testing the properties: the owner does not inherit
BlockWithoutInheritance(t, m, timeout) ==
    /\ TakeCall(t, m) /\ owner[m] # t /\ value[m] = 0
    /\ k' = ipc_list_suspend(k, m, t, "PRIO", timeout)
    /\ SetArg(t, m)
    /\ Goto(t, "take")
    /\ UNCHANGED <<isr, valid, mutexVars, mine>>

\* held by another thread: the owner inherits the priority, the caller blocks
TakeBlock(t, m, timeout) ==
    /\ TakeCall(t, m) /\ owner[m] # t /\ value[m] = 0
    /\ LET k1 == IF k.prio[t] < k.prio[owner[m]]
                 THEN ChangePriority(k, owner[m], k.prio[t]) ELSE k
       IN  k' = ipc_list_suspend(k1, m, t, "PRIO", timeout)
    /\ SetArg(t, m)
    /\ Goto(t, "take")
    /\ UNCHANGED <<isr, valid, mutexVars, mine>>

rt_mutex_take(t, m, timeout) ==
    \/ TakeAgain(t, m)
    \/ TakeFree(t, m)
    \/ timeout = 0 /\ TakeFails(t, m)
    \/ timeout # 0 /\ TakeBlock(t, m, timeout)

\* back from rt_schedule: the result is in thread->error
TakeReturn(t) ==
    /\ At(t, "took")
    /\ mine' = IF k.err[t] = "EOK" THEN [mine EXCEPT ![t][arg[t]] = @ + 1] ELSE mine
    /\ SetArg(t, None)
    /\ Goto(t, "run")
    /\ UNCHANGED <<k, isr, valid, mutexVars>>

ReleaseCall(t, m) == Calls(t, "release") /\ valid[m]

ReleaseRefused(t, m) ==
    /\ ReleaseCall(t, m) /\ owner[m] # t
    /\ k' = [k EXCEPT !.err[t] = "ERROR"]
    /\ UNCHANGED <<isr, pc, ipcVars, mutexVars, mine>>

ReleaseHold(t, m) ==
    /\ ReleaseCall(t, m) /\ owner[m] = t /\ hold[m] > 1
    /\ hold' = [hold EXCEPT ![m] = @ - 1]
    /\ mine' = [mine EXCEPT ![t][m] = @ - 1]
    /\ UNCHANGED <<kernelVars, ipcVars, value, owner, orig>>

\* a slip: the owner keeps the priority it inherited
NotRestored(m) == k

\* the owner back at the priority it had when it took the mutex
Restored(m) ==
    IF orig[m] # k.prio[owner[m]] THEN ChangePriority(k, owner[m], orig[m]) ELSE k

\* slips: the hold is cleared though a waiter takes over; nothing is rescheduled
\* after a hand-over
HandOverClearsHold(t, m) ==
    /\ ReleaseCall(t, m) /\ owner[m] = t /\ hold[m] = 1
    /\ mine' = [mine EXCEPT ![t][m] = @ - 1]
    /\ hold' = [hold EXCEPT ![m] = 0]
    /\ IF k.wait[m] # <<>>
       THEN LET u == Head(k.wait[m])
            IN  /\ owner' = [owner EXCEPT ![m] = u]
                /\ orig' = [orig EXCEPT ![m] = Restored(m).prio[u]]
                /\ k' = ipc_list_resume(Restored(m), m)
                /\ Goto(t, "sched")
                /\ UNCHANGED value
       ELSE /\ owner' = [owner EXCEPT ![m] = None]
            /\ orig' = [orig EXCEPT ![m] = NoPrio]
            /\ value' = [value EXCEPT ![m] = @ + 1]
            /\ k' = Restored(m)
            /\ UNCHANGED pc
    /\ UNCHANGED <<isr, ipcVars>>
HandOverWithoutSchedule(t, m) ==
    /\ ReleaseCall(t, m) /\ owner[m] = t /\ hold[m] = 1 /\ k.wait[m] # <<>>
    /\ mine' = [mine EXCEPT ![t][m] = @ - 1]
    /\ LET u == Head(k.wait[m])
       IN  /\ owner' = [owner EXCEPT ![m] = u]
           /\ orig' = [orig EXCEPT ![m] = Restored(m).prio[u]]
           /\ k' = ipc_list_resume(Restored(m), m)
    /\ UNCHANGED <<isr, pc, ipcVars, value, hold>>

\* the last hold: the mutex passes to the first waiter, and rt_schedule follows,
\* or it becomes free, and nothing is rescheduled
ReleaseLast(t, m) ==
    /\ ReleaseCall(t, m) /\ owner[m] = t /\ hold[m] = 1
    /\ mine' = [mine EXCEPT ![t][m] = @ - 1]
    /\ IF k.wait[m] # <<>>
       THEN LET u == Head(k.wait[m])
            IN  /\ owner' = [owner EXCEPT ![m] = u]
                /\ orig' = [orig EXCEPT ![m] = Restored(m).prio[u]]
                /\ k' = ipc_list_resume(Restored(m), m)
                /\ Goto(t, "sched")
                /\ UNCHANGED <<value, hold>>
       ELSE /\ owner' = [owner EXCEPT ![m] = None]
            /\ orig' = [orig EXCEPT ![m] = NoPrio]
            /\ hold' = [hold EXCEPT ![m] = 0]
            /\ value' = [value EXCEPT ![m] = @ + 1]
            /\ k' = Restored(m)
            /\ UNCHANGED pc
    /\ UNCHANGED <<isr, ipcVars>>

rt_mutex_release(t, m) ==
    ReleaseRefused(t, m) \/ ReleaseHold(t, m) \/ ReleaseLast(t, m)

-----------------------------------------------------------------------------
Init ==
    /\ IpcInit
    /\ value = [m \in Obj |-> 1]
    /\ owner = [m \in Obj |-> None]
    /\ hold = [m \in Obj |-> 0]
    /\ orig = [m \in Obj |-> NoPrio]
    /\ mine = [t \in Thread |-> [m \in Obj |-> 0]]

\* the steps a thread takes to finish a service it has begun
Finish(t) ==
    \/ CpuFinish(t) /\ UNCHANGED <<ipcVars, mutexVars, mine>>
    \/ ThreadSchedule(t, "take", "took") /\ UNCHANGED <<ipcVars, mutexVars, mine>>
    \/ TakeReturn(t)
    \/ DetachStep(t) /\ UNCHANGED <<mutexVars, mine>>

Call(t) ==
    \/ CpuCall(t) /\ UNCHANGED <<ipcVars, mutexVars, mine>>
    \/ \E m \in Obj :
          \/ \E d \in Timeouts : rt_mutex_take(t, m, d)
          \/ rt_mutex_release(t, m)
          \/ DetachEnter(t, m) /\ UNCHANGED <<mutexVars, mine>>

Next ==
    \/ CpuStep(MaskedPc) /\ UNCHANGED <<ipcVars, mutexVars, mine>>
    \/ \E t \in Thread : Finish(t) \/ Call(t)

Spec == Init /\ [][Next]_vars

-----------------------------------------------------------------------------
\* the type invariant of the composition
TypeOK ==
    /\ IpcTypeOK
    /\ value \in [Obj -> 0 .. 1]
    /\ owner \in [Obj -> Thread \cup {None}]
    /\ hold \in [Obj -> 0 .. HoldMax]
    /\ orig \in [Obj -> Prio \cup {NoPrio}]
    /\ mine \in [Thread -> [Obj -> 0 .. HoldMax]]

\* Mutual exclusion as the threads see it: what each thread has been told it holds
\* (and a grant on its way to it) is what the mutex records of its owner, so no two
\* threads hold it and no thread is told less or more than it took.
HoldsAgree ==
    \A t \in Thread, m \in Obj :
        mine[t][m] + (IF t \in InFlight(m) THEN 1 ELSE 0)
            = IF owner[m] = t THEN hold[m] ELSE 0

\* The hand-over goes to the most urgent waiter.
WaitersByPriority == \A m \in Obj : SortedWaiters(m)

\* A hand-over takes effect at once: application code never runs while a more
\* urgent thread that has been granted a mutex is ready.
GrantPreempts ==
    \A t, u \in Thread, m \in Obj :
        At(t, "run") /\ k.lock = 0 /\ u \in InFlight(m) /\ k.stat[u] = "READY"
            => k.prio[t] <= k.prio[u]

\* Priority inheritance: "change the owner thread priority of mutex" - no waiter is
\* more urgent than the owner it waits for, so a thread of a priority in between
\* cannot keep the waiter out.
OwnerInherits ==
    \A m \in Obj : \A t \in Range(k.wait[m]) : k.prio[owner[m]] <= k.prio[t]

\* "change the owner thread to original priority": a thread that holds no mutex is
\* back at its own priority.
PriorityRestored ==
    \A t \in Thread :
        (\A m \in Obj : owner[m] # t) => k.prio[t] = BasePrio[t]
=============================================================================
