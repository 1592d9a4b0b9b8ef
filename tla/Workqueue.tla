----------------------------- MODULE Workqueue -----------------------------
(***************************************************************************)
(* The work queue of components/drivers/ipc/workqueue.c: threads and a     *)
(* device handler submit work items, at once or after a delay, and cancel  *)
(* them; a worker thread runs them.  The timer of a delayed work is a hard *)
(* timer (RT_USING_TIMER_SOFT is off): its handler runs in rt_timer_check, *)
(* with interrupts masked, at some tick after the timer was started.       *)
(***************************************************************************)
EXTENDS Cpu

CONSTANTS Worker,   \* queue->work_thread
          sem,      \* queue->sem, on which a synchronous cancel waits
          Now,      \* the works that are submitted without delay or as urgent
          Later     \* the works that are submitted with a delay

ASSUME WorkAssumption ==
    /\ Worker \in Thread \ {Idle, Main} /\ Obj = {sem}
    /\ None \notin Now \cup Later

VARIABLES wq,     \* the queue, and what it keeps in each work
          arg,    \* the work a thread is operating on
          owed,   \* history: the works that a submission accepted while they were
                  \* not executing, until they are started or cancelled
          again   \* history: the same of those that were executing

vars == <<k, isr, pc, wq, arg, owed, again>>

Work == Now \cup Later

\* value is the semaphore's; submitting is RT_WORK_STATE_SUBMITTING, armed the
\* timer is running, attached work->workqueue is set
Queue == [work_list : Seq(Work), delayed_list : Seq(Work),
          work_current : Work \cup {None}, value : Nat,
          submitting : SUBSET Work, armed : SUBSET Work, attached : SUBSET Work]

WorkPc == CpuPc \cup {"arm", "cancel", "wait", "take", "took",        \* callers
                      "all", "first", "pick",                         \* cancel_all
                      "late", "latefirst", "latepick",
                      "loop", "idle", "ack", "complete", "exit"}      \* the worker

SetArg(t, w) == arg' = [arg EXCEPT ![t] = w]

\* the history of a submission that returns RT_EOK, and of a work's start or cancel
Accept(w) ==
    IF wq.work_current # w
    THEN owed' = owed \cup {w} /\ again' = again \ {w}
    ELSE owed' = owed \ {w} /\ again' = again \cup {w}
Disown(w) == owed' = owed \ {w} /\ again' = again \ {w}

\* rt_list_remove(&work->list)
Unlink(q, w) == [q EXCEPT !.work_list = ListDel(@, w), !.delayed_list = ListDel(@, w)]

\* "whether the workqueue is doing work": the idle worker is resumed
WorkerIdles == wq.work_current = None /\ k.stat[Worker] = "SUSPEND"
Kick == IF WorkerIdles THEN rt_thread_resume(k, Worker) ELSE k

-----------------------------------------------------------------------------
(* _workqueue_thread_entry *)

\* the section that ends the loop's wait or begins it
WorkerSuspends ==
    /\ At(Worker, "loop") /\ wq.work_list = <<>>
    /\ k' = rt_thread_suspend(k, Worker)
    /\ Goto(Worker, "idle")
    /\ UNCHANGED <<isr, wq, arg, owed, again>>

WorkerStarts ==
    /\ At(Worker, "loop") /\ wq.work_list # <<>>
    /\ LET w == Head(wq.work_list)
       IN  /\ wq' = [wq EXCEPT !.work_list = Tail(@), !.work_current = w,
                               !.attached = @ \ {w}]
           /\ Disown(w)
    /\ Goto(Worker, "run")
    /\ UNCHANGED <<k, isr, arg>>

\* a slip for testing the properties: work_current is not cleared
WorkDoneKeepsCurrent ==
    /\ At(Worker, "run")
    /\ Goto(Worker, "ack")
    /\ UNCHANGED <<k, isr, wq, arg, owed, again>>

\* the work function has returned
WorkDone ==
    /\ At(Worker, "run")
    /\ wq' = [wq EXCEPT !.work_current = None]
    /\ Goto(Worker, "ack")
    /\ UNCHANGED <<k, isr, arg, owed, again>>

\* _workqueue_work_completion: with the scheduler locked, release the semaphore
\* until it can be taken, one turn of the loop a step
CompletionEnter ==
    /\ At(Worker, "ack")
    /\ k' = [k EXCEPT !.lock = @ + 1]
    /\ Goto(Worker, "complete")
    /\ UNCHANGED <<isr, wq, arg, owed, again>>

\* a slip: the release that resumes a waiter leaves a token too, and ends the loop
ReleaseCountsTwice ==
    /\ At(Worker, "complete") /\ wq.value = 0
    /\ k' = IF k.wait[sem] # <<>> THEN ipc_list_resume(k, sem) ELSE k
    /\ wq' = [wq EXCEPT !.value = @ + 1]
    /\ UNCHANGED <<isr, pc, arg, owed, again>>

CompletionRelease ==
    /\ At(Worker, "complete") /\ wq.value = 0
    /\ k' = IF k.wait[sem] # <<>> THEN ipc_list_resume(k, sem) ELSE k
    /\ wq' = [wq EXCEPT !.value = IF k.wait[sem] # <<>> THEN @ ELSE @ + 1]
    /\ UNCHANGED <<isr, pc, arg, owed, again>>

CompletionExit ==
    /\ At(Worker, "complete") /\ wq.value > 0
    /\ wq' = [wq EXCEPT !.value = @ - 1]
    /\ k' = [k EXCEPT !.lock = @ - 1]
    /\ Goto(Worker, "exit")
    /\ UNCHANGED <<isr, arg, owed, again>>

WorkerStep ==
    \/ WorkerSuspends \/ WorkerStarts \/ WorkDone
    \/ CompletionEnter \/ CompletionRelease \/ CompletionExit
    \/ /\ ThreadSchedule(Worker, "idle", "loop") \/ ThreadSchedule(Worker, "exit", "loop")
       /\ UNCHANGED <<wq, arg, owed, again>>

-----------------------------------------------------------------------------
(* Submission *)

\* rt_workqueue_create has started the worker
Created == k.stat[Worker] # "INIT"

\* _workqueue_submit_work without delay: refused while the work is executing, and the
\* work has then left the list it was in
SubmitNow(w) ==
    /\ Created /\ w \in Now
    /\ wq' = IF wq.work_current # w
             THEN [Unlink(wq, w) EXCEPT !.work_list = Append(@, w),
                                        !.attached = @ \cup {w}]
             ELSE Unlink(wq, w)
    /\ IF wq.work_current # w THEN Accept(w) ELSE UNCHANGED <<owed, again>>
    /\ k' = Kick

rt_workqueue_dowork(t, w) ==
    /\ Calls(t, "dowork")
    /\ SubmitNow(w)
    /\ Goto(t, IF WorkerIdles THEN "sched" ELSE "run")
    /\ UNCHANGED <<isr, arg>>

DevDowork(w) ==
    /\ InHandler("dev", "body") /\ "dowork" \in DevOps
    /\ SubmitNow(w)
    /\ GotoFrame(IF WorkerIdles THEN "sched" ELSE "leave")
    /\ UNCHANGED <<pc, arg>>

rt_workqueue_urgent_work(t, w) ==
    /\ Calls(t, "urgent") /\ Created /\ w \in Now
    /\ wq' = [Unlink(wq, w) EXCEPT !.work_list = <<w>> \o @]
    /\ Accept(w)
    /\ k' = Kick
    /\ Goto(t, IF WorkerIdles THEN "sched" ELSE "run")
    /\ UNCHANGED <<isr, arg>>

\* with a delay, accepted also while the work is executing: the section initialises
\* the timer or stops it, and the timer is started behind it.  The guard on armed:
\* where several threads submit and cancel a work, its timer may run though it is not
\* SUBMITTING, and rt_timer_init on a linked timer breaks the timer list; the model
\* stops the caller there.
rt_workqueue_submit_work(t, w) ==
    /\ Calls(t, "submit") /\ Created /\ w \in Later
    /\ w \in wq.armed => w \in wq.submitting
    /\ wq' = [Unlink(wq, w) EXCEPT !.delayed_list = Append(@, w), !.attached = @ \cup {w},
                                   !.submitting = @ \cup {w}, !.armed = @ \ {w}]
    /\ Accept(w)
    /\ SetArg(t, w)
    /\ Goto(t, "arm")
    /\ UNCHANGED <<k, isr>>

StartTimer(t) ==
    /\ At(t, "arm")
    /\ wq' = [wq EXCEPT !.armed = @ \cup {arg[t]}]
    /\ SetArg(t, None)
    /\ Goto(t, "run")
    /\ UNCHANGED <<k, isr, owed, again>>

\* a slip: the work is dropped whenever the worker is busy
TimeoutDropsWhenBusy(w) ==
    /\ InHandler("tick", "check") \/ InHandler("tick", "expire")
    /\ w \in wq.armed \cap wq.attached
    /\ LET q == [Unlink(wq, w) EXCEPT !.armed = @ \ {w}, !.submitting = @ \ {w}]
       IN  wq' = IF wq.work_current = None
                 THEN [q EXCEPT !.work_list = Append(@, w)] ELSE q
    /\ k' = IF WorkerIdles THEN rt_schedule(Kick) ELSE k
    /\ GotoFrame("expire")
    /\ UNCHANGED <<pc, arg, owed, again>>

\* _delayed_work_timeout_handler; the delay of a work that is executing when its
\* timer fires ends in nothing.  Without a queue the assertion stops the system
\* (see TimerFindsQueue).
delayed_work_timeout(w) ==
    /\ InHandler("tick", "check") \/ InHandler("tick", "expire")
    /\ w \in wq.armed \cap wq.attached
    /\ LET q == [Unlink(wq, w) EXCEPT !.armed = @ \ {w}, !.submitting = @ \ {w}]
       IN  wq' = IF wq.work_current # w
                 THEN [q EXCEPT !.work_list = Append(@, w)] ELSE q
    /\ k' = IF WorkerIdles THEN rt_schedule(Kick) ELSE k
    /\ GotoFrame("expire")
    /\ UNCHANGED <<pc, arg, owed, again>>

-----------------------------------------------------------------------------
(* Cancellation *)

\* a slip: the timer of the cancelled work is left running
CancelKeepsTimer(w) ==
    /\ wq' = [Unlink(wq, w) EXCEPT !.attached = @ \ {w}, !.submitting = @ \ {w}]
    /\ Disown(w)

\* _workqueue_cancel_work
CancelSection(w) ==
    /\ wq' = [Unlink(wq, w) EXCEPT !.attached = @ \ {w}, !.submitting = @ \ {w},
                                   !.armed = IF w \in wq.submitting THEN @ \ {w} ELSE @]
    /\ Disown(w)

rt_workqueue_cancel_work(t, w) ==
    /\ Calls(t, "cancel") /\ Created
    /\ CancelSection(w)
    /\ UNCHANGED <<k, isr, pc, arg>>

\* work_current is read with interrupts enabled
rt_workqueue_cancel_work_sync(t, w) ==
    /\ Calls(t, "cancel_sync") /\ Created
    /\ SetArg(t, w)
    /\ Goto(t, IF wq.work_current = w THEN "wait" ELSE "cancel")
    /\ UNCHANGED <<k, isr, wq, owed, again>>

SyncCancels(t) ==
    /\ At(t, "cancel")
    /\ CancelSection(arg[t])
    /\ SetArg(t, None)
    /\ Goto(t, "run")
    /\ UNCHANGED <<k, isr>>

\* rt_sem_take(&queue->sem, RT_WAITING_FOREVER): the completion leaves the value 0
SyncWaits(t) ==
    /\ At(t, "wait")
    /\ k.lock = 0                   \* RT_DEBUG_SCHEDULER_AVAILABLE
    /\ k' = ipc_list_suspend(k, sem, t, "FIFO", None)
    /\ Goto(t, "take")
    /\ UNCHANGED <<isr, wq, arg, owed, again>>

SyncReturns(t) ==
    /\ At(t, "took")
    /\ SetArg(t, None)
    /\ Goto(t, "run")
    /\ UNCHANGED <<k, isr, wq, owed, again>>

\* with the scheduler locked and interrupts enabled, one loop for each list: its test,
\* rt_list_first_entry, and the section that cancels what it gave
rt_workqueue_cancel_all_work(t) ==
    /\ Calls(t, "cancel_all") /\ Created
    /\ k' = [k EXCEPT !.lock = @ + 1]
    /\ Goto(t, "all")
    /\ UNCHANGED <<isr, wq, arg, owed, again>>

AllTest(t, at, list, first, next) ==
    /\ At(t, at)
    /\ SetArg(t, None)
    /\ Goto(t, IF list # <<>> THEN first ELSE next)
    /\ k' = IF list = <<>> /\ next = "sched" THEN [k EXCEPT !.lock = @ - 1] ELSE k
    /\ UNCHANGED <<isr, wq, owed, again>>

\* an empty list would give its own head as a work: the model stops the caller there
\* (see FirstEntryExists)
AllFirst(t, first, list, picked) ==
    /\ At(t, first) /\ list # <<>>
    /\ SetArg(t, Head(list))
    /\ Goto(t, picked)
    /\ UNCHANGED <<k, isr, wq, owed, again>>

AllCancel(t, picked, at) ==
    /\ At(t, picked)
    /\ CancelSection(arg[t])
    /\ Goto(t, at)
    /\ UNCHANGED <<k, isr, arg>>

AllStep(t) ==
    \/ AllTest(t, "all", wq.work_list, "first", "late")
    \/ AllFirst(t, "first", wq.work_list, "pick")
    \/ AllCancel(t, "pick", "all")
    \/ AllTest(t, "late", wq.delayed_list, "latefirst", "sched")
    \/ AllFirst(t, "latefirst", wq.delayed_list, "latepick")
    \/ AllCancel(t, "latepick", "late")

-----------------------------------------------------------------------------
Init ==
    /\ k = StartState /\ isr = <<>>
    /\ pc = [t \in Thread |-> IF t = Worker THEN "loop" ELSE "run"]
    /\ wq = [work_list |-> <<>>, delayed_list |-> <<>>, work_current |-> None,
             value |-> 0, submitting |-> {}, armed |-> {}, attached |-> {}]
    /\ arg = [t \in Thread |-> None]
    /\ owed = {} /\ again = {}

Finish(t) ==
    \/ CpuFinish(t) /\ UNCHANGED <<wq, arg, owed, again>>
    \/ StartTimer(t)
    \/ SyncCancels(t) \/ SyncWaits(t) \/ SyncReturns(t)
    \/ ThreadSchedule(t, "take", "took") /\ UNCHANGED <<wq, arg, owed, again>>
    \/ AllStep(t)

Call(t) ==
    \/ CpuCall(t) /\ UNCHANGED <<wq, arg, owed, again>>
    \/ \E w \in Work :
          \/ rt_workqueue_dowork(t, w)
          \/ rt_workqueue_urgent_work(t, w)
          \/ rt_workqueue_submit_work(t, w)
          \/ rt_workqueue_cancel_work(t, w)
          \/ rt_workqueue_cancel_work_sync(t, w)
    \/ rt_workqueue_cancel_all_work(t)

Next ==
    \/ CpuStep({}) /\ UNCHANGED <<wq, arg, owed, again>>
    \/ \E w \in Work : DevDowork(w) \/ delayed_work_timeout(w)
    \/ WorkerStep
    \/ \E t \in Thread : Running(t) /\ (Finish(t) \/ Call(t))

Spec == Init /\ [][Next]_vars

-----------------------------------------------------------------------------
\* the type invariant of the composition
TypeOK ==
    /\ k \in KernelState /\ isr \in Seq(Frame)
    /\ pc \in [Thread -> WorkPc]
    /\ wq \in Queue
    /\ arg \in [Thread -> Work \cup {None}]
    /\ owed \subseteq Work /\ again \subseteq Work

\* a worker with the scheduler lock, taken by a work function, goes on running though
\* it is suspended
RunsLocked == k.lock > 0 /\ k.exec = Worker

\* The worker never sleeps over a work: whoever submits it, and wherever the worker
\* stands between its test of the list and its rt_schedule, a worker that is
\* suspended outside a work function has an empty list.
NoStrandedWork ==
    /\ k.stat[Worker] = "SUSPEND"
    /\ pc[Worker] = "idle" \/ (pc[Worker] = "loop" /\ ~RunsLocked)
    => wq.work_list = <<>>

\* the work will be run: it is in the list, or it is in the delayed list and its timer
\* is running or about to be started
Held(w) ==
    \/ w \in Range(wq.work_list)
    \/ /\ w \in Range(wq.delayed_list)
       /\ w \in wq.armed \/ \E t \in Thread : pc[t] = "arm" /\ arg[t] = w

\* A submission that returns RT_EOK while the work is not executing comes to something:
\* whatever submissions, refusals, timers and cancels of other works follow, the work
\* is held until the worker starts it or somebody cancels it.
AcceptedWorkKept == \A w \in owed : Held(w)

\* The same of every submission that returns RT_EOK, as the comments of the submitting
\* functions have it: "-RT_EBUSY    This work item is executing." is the only refusal
\* (workqueue.c:325), and an urgent work "will be executed after the current work item"
\* (workqueue.c:338).  The code loses two kinds (WorkBusy, WorkUrgent).
AllAcceptedKept == \A w \in owed \cup again : Held(w)

\* "Note, that list is expected to be not empty" of rt_list_first_entry
\* (rtservice.h:177): the list that rt_workqueue_cancel_all_work found occupied still
\* is when its first entry is taken.  A timer may empty the delayed list in between
\* (WorkCancelFirst).
FirstEntryExists ==
    \A t \in Thread : /\ pc[t] = "first" => wq.work_list # <<>>
                      /\ pc[t] = "latefirst" => wq.delayed_list # <<>>

\* "This function will cancel all work items in work queue" (workqueue.c:420), where no
\* work is submitted without delay, so that none is submitted during the call: when the
\* second loop ends, both lists are empty.  A timer that fires behind the first loop
\* moves its work to the list that the call has done with (WorkCancelAll).
CancelAllCancels ==
    \A t \in Thread : pc[t] = "late" /\ wq.delayed_list = <<>> => wq.work_list = <<>>

\* "If the work item is executing, this function will block until it is done"
\* (workqueue.c:393): whoever waits in rt_workqueue_cancel_work_sync waits for the work
\* it named, or for a completion that is on its way.  work_current is read before the
\* take, and the work may end in between (WorkSyncLate).
SyncWaitsForItsWork ==
    \A t \in Range(k.wait[sem]) :
        wq.work_current = arg[t] \/ pc[Worker] \in {"ack", "complete"}

\* "RT_ASSERT(queue != RT_NULL)" of the timeout handler: a timer that may fire belongs
\* to a work that has its queue.  It holds where no other thread cancels between the
\* section of a delayed submission and its rt_timer_start, and no work is submitted both
\* with and without a delay (WorkTimer shows the failure otherwise), however the
\* clients, the timers and the worker interleave.
TimerFindsQueue == wq.armed \subseteq wq.attached

\* A completion resumes every synchronous cancel that waits for it and leaves the
\* semaphore at 0, so that none is left for a later work.
CompletionWakesAll ==
    [][pc[Worker] = "complete" /\ pc'[Worker] = "exit" =>
          k'.wait[sem] = <<>> /\ wq'.value = 0]_vars
=============================================================================
