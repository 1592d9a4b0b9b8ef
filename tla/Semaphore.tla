----------------------------- MODULE Semaphore -----------------------------
(***************************************************************************)
(* Counting semaphores (ipc.c) used by threads and by a device handler, on *)
(* the kernel and the processor of module Cpu.                             *)
(***************************************************************************)
EXTENDS Ipc

CONSTANTS Flag,         \* "FIFO" or "PRIO": the queueing of each semaphore
          InitValue,    \* the value each semaphore is created with
          ValueMax,     \* RT_SEM_VALUE_MAX
          ResetValues   \* values given to RT_IPC_CMD_RESET

ASSUME SemAssumption ==
    /\ Flag \in [Obj -> {"FIFO", "PRIO"}]
    /\ ValueMax \in Nat
    /\ InitValue \in [Obj -> 0 .. ValueMax]
    /\ ResetValues \subseteq 0 .. ValueMax

VARIABLES value,   \* sem->value
          net      \* history: accepted releases minus takes that returned RT_EOK, and
                   \* what each reset has added to the value it found or taken off it

vars == <<k, isr, pc, arg, valid, value, net>>
semVars == <<value, net>>

-----------------------------------------------------------------------------
TakeNow(s) ==
    /\ valid[s] /\ value[s] > 0
    /\ value' = [value EXCEPT ![s] = @ - 1]
    /\ net' = [net EXCEPT ![s] = @ - 1]

\* rt_sem_take: a token is available, or there is none and timeout is 0
\* (nothing changes), or the thread blocks
rt_sem_take_now(t, s) ==
    /\ Calls(t, "take") /\ TakeNow(s)
    /\ UNCHANGED <<kernelVars, ipcVars>>

rt_sem_take_block(t, s, timeout) ==
    /\ Calls(t, "take") /\ valid[s] /\ value[s] = 0
    /\ timeout # 0
    /\ k.lock = 0                   \* RT_DEBUG_SCHEDULER_AVAILABLE
    /\ k' = ipc_list_suspend(k, s, t, Flag[s], timeout)
    /\ SetArg(t, s)
    /\ Goto(t, "take")
    /\ UNCHANGED <<isr, value, valid, net>>

\* back from rt_schedule: the result is in thread->error
rt_sem_take_return(t) ==
    /\ At(t, "took")
    /\ net' = IF k.err[t] = "EOK" THEN [net EXCEPT ![arg[t]] = @ - 1] ELSE net
    /\ SetArg(t, None)
    /\ Goto(t, "run")
    /\ UNCHANGED <<k, isr, value, valid>>

\* slips for testing the properties: no limit on the value; a token for the waiters too
ReleaseUnbounded(s) ==
    /\ valid[s]
    /\ IF k.wait[s] # <<>>
       THEN k' = ipc_list_resume(k, s) /\ UNCHANGED value
       ELSE /\ value[s] <= ValueMax
            /\ value' = [value EXCEPT ![s] = @ + 1]
            /\ UNCHANGED k
    /\ net' = [net EXCEPT ![s] = @ + 1]
ReleaseAddsToken(s) ==
    /\ valid[s] /\ value[s] < ValueMax
    /\ k' = IF k.wait[s] # <<>> THEN ipc_list_resume(k, s) ELSE k
    /\ value' = [value EXCEPT ![s] = @ + 1]
    /\ net' = [net EXCEPT ![s] = @ + 1]

\* the critical section of rt_sem_release; a full semaphore (RT_EFULL) is refused
ReleaseSection(s) ==
    /\ valid[s]
    /\ IF k.wait[s] # <<>>
       THEN k' = ipc_list_resume(k, s) /\ UNCHANGED value
       ELSE /\ value[s] < ValueMax
            /\ value' = [value EXCEPT ![s] = @ + 1]
            /\ UNCHANGED k
    /\ net' = [net EXCEPT ![s] = @ + 1]

rt_sem_release(t, s) ==
    /\ Calls(t, "release")
    /\ ReleaseSection(s)
    /\ Goto(t, IF k.wait[s] # <<>> THEN "sched" ELSE "run")
    /\ UNCHANGED <<isr, arg, valid>>

DevRelease(s) ==
    /\ InHandler("dev", "body") /\ "release" \in DevOps
    /\ ReleaseSection(s)
    /\ GotoFrame(IF k.wait[s] # <<>> THEN "sched" ELSE "leave")
    /\ UNCHANGED <<pc, arg, valid>>

\* rt_sem_trytake in a handler
DevTryTake(s) ==
    /\ InHandler("dev", "body") /\ "trytake" \in DevOps
    /\ TakeNow(s)
    /\ GotoFrame("leave")
    /\ UNCHANGED <<k, pc, arg, valid>>

\* rt_sem_control(RT_IPC_CMD_RESET): one section resumes every waiter, one
\* waiter per step here, and sets the value
ResetEnter(t, s) ==
    /\ Calls(t, "reset") /\ valid[s]
    /\ SetArg(t, s)
    /\ Goto(t, "reset")
    /\ UNCHANGED <<k, isr, value, valid, net>>

ResetResume(t) ==
    /\ At(t, "reset") /\ k.wait[arg[t]] # <<>>
    /\ k' = ResumeWithError(k, arg[t])
    /\ UNCHANGED <<isr, pc, ipcVars, semVars>>

ResetValue(t, n) ==
    /\ At(t, "reset") /\ k.wait[arg[t]] = <<>>
    /\ value' = [value EXCEPT ![arg[t]] = n]
    /\ net' = [net EXCEPT ![arg[t]] = @ + n - value[arg[t]]]
    /\ SetArg(t, None)
    /\ Goto(t, "sched")
    /\ UNCHANGED <<k, isr, valid>>

-----------------------------------------------------------------------------
Init ==
    /\ IpcInit
    /\ value = InitValue
    /\ net = InitValue

\* the steps a thread takes to finish a service it has begun
Finish(t) ==
    \/ CpuFinish(t) /\ UNCHANGED <<ipcVars, semVars>>
    \/ ThreadSchedule(t, "take", "took") /\ UNCHANGED <<ipcVars, semVars>>
    \/ rt_sem_take_return(t)
    \/ ResetResume(t)
    \/ \E n \in ResetValues : ResetValue(t, n)
    \/ DetachStep(t) /\ UNCHANGED semVars

Call(t) ==
    \/ CpuCall(t) /\ UNCHANGED <<ipcVars, semVars>>
    \/ \E s \in Obj :
          \/ rt_sem_take_now(t, s)
          \/ \E d \in Timeouts : rt_sem_take_block(t, s, d)
          \/ rt_sem_release(t, s)
          \/ ResetEnter(t, s)
          \/ DetachEnter(t, s) /\ UNCHANGED semVars

DevStep == \E s \in Obj : DevRelease(s) \/ DevTryTake(s)

Next ==
    \/ CpuStep(MaskedPc) /\ UNCHANGED <<ipcVars, semVars>>
    \/ DevStep
    \/ \E t \in Thread : Finish(t) \/ Call(t)

Spec == Init /\ [][Next]_vars

(***************************************************************************)
(* SysTick keeps firing, handlers and PendSV run to their end, and a       *)
(* thread that gets the processor again and again completes the service it *)
(* is in: the tick period is long against a section.                       *)
(***************************************************************************)
FairSpec ==
    /\ Spec
    /\ WF_vars(CpuStep(MaskedPc) /\ UNCHANGED <<ipcVars, semVars>>)
    /\ \A t \in Thread : SF_vars(Finish(t))

-----------------------------------------------------------------------------
\* the type invariant of the composition
TypeOK ==
    /\ IpcTypeOK
    /\ value \in [Obj -> 0 .. ValueMax]
    /\ net \in [Obj -> Int]

\* No token is lost or made up, whatever the order of release, timeout, reset and
\* the return of a take that was granted long before: the accepted releases not
\* yet taken are in sem->value or granted to a take on its way back.  A reset trades
\* the value it finds for the new one; the waiters it sends away get no token, and
\* the takes that were granted one before keep it.
TokensConserved ==
    \A s \in Obj : net[s] = value[s] + Cardinality(InFlight(s))

\* No lost wakeup: nobody waits while a token is available.
NoLostWakeup == \A s \in Obj : k.wait[s] # <<>> => value[s] = 0

\* an action property: locking the scheduler keeps the current thread
LockHeld == [][LockKeepsThread]_vars

\* A take with a timeout returns, though a peer of the thread never blocks: the
\* timer that backs it is neither lost nor left behind by a release that races it,
\* and the peer gives way at the end of its time slice.
TimedTakeReturns ==
    \A t \in Thread :
        pc[t] = "took" /\ t \in Range(k.timers) ~> pc[t] = "run"

\* rt_sem_detach or rt_sem_delete has been called
Detached ==
    \/ \E s \in Obj : ~valid[s]
    \/ \E t \in Thread : pc[t] \in {"detach", "resume", "object"}

\* Preemption is prompt until a semaphore is detached, which resumes its waiters without
\* a rt_schedule: whatever releases, timeouts, resets and handlers have made ready, also
\* under rt_enter_critical, application code runs only in a thread that no ready thread
\* precedes.
HighestRunsUntilDetach == Detached \/ HighestRuns
=============================================================================
