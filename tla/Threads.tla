------------------------------ MODULE Threads ------------------------------
(***************************************************************************)
(* The thread services of thread.c and the reclaiming of closed threads by *)
(* the idle thread (idle.c), on the kernel and the processor of module     *)
(* Cpu.  A service that works in two sections, or tests state before its   *)
(* section, takes as many steps, with interrupts possible in between.      *)
(***************************************************************************)
EXTENDS Cpu

CONSTANTS Prios,    \* priorities given to RT_THREAD_CTRL_CHANGE_PRIORITY
          Targets   \* the threads that each thread resumes, closes or re-prioritises

ASSUME PrioAssumption == Prios \subseteq Prio \ {PrioMax - 1}
ASSUME TargetAssumption == Targets \in [Thread -> SUBSET (Thread \ {Idle})]

VARIABLES arg,     \* the thread a thread is operating on, a local variable
          freed,   \* threads whose control block and stack are given back
          mark     \* *tick of rt_thread_delay_until, per thread

vars == <<k, isr, pc, arg, freed, mark>>
thrVars == <<arg, freed, mark>>

ThreadPc == CpuPc \cup {"resume", "delete", "close", "exit", "dead", "reap"}
MaskedPc == {}

SetArg(t, u) == arg' = [arg EXCEPT ![t] = u]

-----------------------------------------------------------------------------
\* the next wakeup is one increment after the last, unless it is already past
rt_thread_delay_until(t, inc) ==
    /\ Calls(t, "delay_until")
    /\ IF (k.tick - mark[t]) % TickMod < inc
       THEN /\ mark' = [mark EXCEPT ![t] = (@ + inc) % TickMod]
            /\ SleepSection(t, (mark'[t] - k.tick) % TickMod)
       ELSE /\ mark' = [mark EXCEPT ![t] = k.tick]
            /\ k' = [k EXCEPT !.err[t] = "EOK"]
            /\ UNCHANGED pc
    /\ UNCHANGED <<isr, arg, freed>>

\* rt_thread_suspend(rt_thread_self()); the thread goes on until something schedules
SuspendSelf(t) ==
    /\ Calls(t, "suspend") /\ CanSuspend(k, t)
    /\ k' = rt_thread_suspend(k, t)
    /\ UNCHANGED <<isr, pc, thrVars>>

\* rt_schedule called by application code, as behind a suspension of itself
CallSchedule(t) ==
    /\ Calls(t, "schedule")
    /\ k' = rt_schedule(k)
    /\ UNCHANGED <<isr, pc, thrVars>>

\* rt_thread_resume tests the state with interrupts enabled ...
ResumeTest(t, u) ==
    /\ Calls(t, "resume") /\ k.stat[u] = "SUSPEND"
    /\ SetArg(t, u)
    /\ Goto(t, "resume")
    /\ UNCHANGED <<k, isr, freed, mark>>

\* ... and acts in a section, and does not reschedule
Resume(t) ==
    /\ At(t, "resume")
    /\ k' = ResumeSection(k, arg[t])
    /\ SetArg(t, None)
    /\ Goto(t, "run")
    /\ UNCHANGED <<isr, freed, mark>>

\* CHANGE_PRIORITY does not reschedule
SetPriority(t, u, p) ==
    /\ Calls(t, "priority") /\ u \notin freed
    /\ k' = ChangePriority(k, u, p)
    /\ UNCHANGED <<isr, pc, thrVars>>

\* rt_thread_delete and rt_thread_detach ("delete"), or either through
\* RT_THREAD_CTRL_CLOSE ("close"): first out of the scheduler's lists ...
DeleteRemove(t, u, op) ==
    /\ Calls(t, op) /\ u \notin freed /\ k.stat[u] # "CLOSE"
    /\ op = "delete" => u # t
    /\ k' = IF k.stat[u] # "INIT" THEN rt_schedule_remove_thread(k, u) ELSE k
    /\ SetArg(t, u)
    /\ Goto(t, op)
    /\ UNCHANGED <<isr, freed, mark>>

\* ... then, in a second section, closed
DeleteClose(t, op) ==
    /\ At(t, op)
    /\ k' = CloseThread(k, arg[t])
    /\ SetArg(t, None)
    /\ Goto(t, IF op = "close" THEN "sched" ELSE "run")
    /\ UNCHANGED <<isr, freed, mark>>

\* the entry function of a thread returns into _thread_exit
thread_exit(t) ==
    /\ Calls(t, "exit")
    /\ k' = CloseThread(rt_schedule_remove_thread(k, t), t)
    /\ Goto(t, "exit")
    /\ UNCHANGED <<isr, thrVars>>

\* rt_thread_defunct_dequeue reads the head of the defunct list ...
DefunctPeek ==
    /\ At(Idle, "run") /\ k.defunct # <<>>
    /\ SetArg(Idle, Head(k.defunct))
    /\ Goto(Idle, "reap")
    /\ UNCHANGED <<k, isr, freed, mark>>

\* a slip for testing the properties: the freed thread stays on the defunct list
FreeKeepsLink ==
    /\ At(Idle, "reap")
    /\ freed' = freed \cup {arg[Idle]}
    /\ SetArg(Idle, None)
    /\ Goto(Idle, "run")
    /\ UNCHANGED <<k, isr, mark>>

\* ... unlinks it in a section, and rt_defunct_execute frees the thread
DefunctFree ==
    /\ At(Idle, "reap")
    /\ k' = TListRemove(k, arg[Idle])
    /\ freed' = freed \cup {arg[Idle]}
    /\ SetArg(Idle, None)
    /\ Goto(Idle, "run")
    /\ UNCHANGED <<isr, mark>>

\* rt_thread_create or rt_thread_init: _thread_init on memory that is free
thread_init(t, u) ==
    /\ Calls(t, "create") /\ u \in freed
    /\ k' = [k EXCEPT !.stat[u] = "INIT", !.yield = @ \ {u}, !.prio[u] = BasePrio[u],
                      !.slice[u] = InitTick[u], !.err[u] = "EOK"]
    /\ freed' = freed \ {u}
    /\ pc' = [pc EXCEPT ![u] = "run"]
    /\ mark' = [mark EXCEPT ![u] = 0]
    /\ UNCHANGED <<isr, arg>>

-----------------------------------------------------------------------------
Init ==
    /\ CpuInit
    /\ arg = [t \in Thread |-> None]
    /\ freed = {}
    /\ mark = [t \in Thread |-> 0]

\* the steps a thread takes to finish a service it has begun
Finish(t) ==
    \/ CpuFinish(t) /\ UNCHANGED thrVars
    \/ ThreadSchedule(t, "exit", "dead") /\ UNCHANGED thrVars
    \/ Resume(t)
    \/ \E op \in {"delete", "close"} : DeleteClose(t, op)

IdleStep == DefunctPeek \/ DefunctFree

Call(t) ==
    \/ CpuCall(t) /\ UNCHANGED thrVars
    \/ \E d \in Delays : rt_thread_delay_until(t, d)
    \/ SuspendSelf(t) \/ CallSchedule(t)
    \/ thread_exit(t)
    \/ \E u \in Targets[t] :
          \/ ResumeTest(t, u)
          \/ \E p \in Prios : SetPriority(t, u, p)
          \/ \E op \in {"delete", "close"} : DeleteRemove(t, u, op)
          \/ thread_init(t, u)

Next ==
    \/ CpuStep(MaskedPc) /\ UNCHANGED thrVars
    \/ IdleStep
    \/ \E t \in Thread : Finish(t) \/ Call(t)

Spec == Init /\ [][Next]_vars

-----------------------------------------------------------------------------
\* the type invariant of the composition
TypeOK ==
    /\ k \in KernelState
    /\ isr \in Seq(Frame)
    /\ pc \in [Thread -> ThreadPc]
    /\ arg \in [Thread -> Thread \cup {None}]
    /\ freed \subseteq Thread
    /\ mark \in [Thread -> Ticks]

\* Memory given back is never used: a freed thread is on no list and no timer,
\* is not scheduled, and its stack is not the one the processor is on.
FreedIsGone ==
    \A t \in freed :
        /\ k.stat[t] = "CLOSE"
        /\ t \notin {k.cur, k.exec}
        /\ \A s \in {k.ready[p] : p \in Prio} \cup {k.defunct, k.timers} : t \notin Range(s)

\* A sleeping thread wakes in the very tick its timer is set to, across the
\* wraparound of rt_tick and whatever other timers share the list: neither
\* early nor late.
WakesOnTime ==
    [][\A t \in Thread :
          k.stat[t] = "SUSPEND" /\ pc[t] \in {"sleep", "slept"} /\ k'.stat[t] # "SUSPEND"
              => k.tick = k.tmo[t]]_vars
=============================================================================
