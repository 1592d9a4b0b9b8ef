# RT-Thread on HC32F460: a TLA+ verification of the kernel

The repository is a board support package for the HC32F460 microcontroller
(`src/RTT_template`): the RT-Thread 4.1.1 kernel (`rt-thread/src`), its Cortex-M4
port (`rt-thread/libcpu/arm/cortex-m4`), the device framework
(`rt-thread/components`), the board's drivers (`libraries/hc32_drivers`), vendored
register libraries, and a small application (`applications/main.c`).
This directory holds TLA+ modules that model the kernel (scheduler, context
switch, clock and thread timers, thread services, semaphores, mutexes, events,
mailboxes, message queues), the heap, the work queue, and the way of a received
character from the serial interrupt to the shell; TLC configurations that check them
on small instances, two abstract specifications that the detailed ones are shown to
implement, and TLAPS proofs, on instances of any size, for the kernel with semaphores, with
mutexes, with an event set, with a mailbox and with the work queue, and for the heap.

The build that is modelled is the one `rtconfig.h` configures: one core, 32
priorities, hard timers only, no signals, semaphores, mutexes, events, mailboxes,
message queues and memory pools on, the small-memory heap, serial v1, pin and
workqueue devices. What that build leaves out (SMP, signals, modules, LWP, DFS,
networking, USB) is left out here.

## 1. Inventory

### Components, state, operations

| Component (source) | State | Operations | What makes it correct |
|---|---|---|---|
| Scheduler (`scheduler.c`) | a ready queue per priority, the bitmap `rt_thread_ready_priority_group`, `rt_current_thread`, `rt_scheduler_lock_nest` | `rt_schedule`, insert, remove, `rt_enter_critical`, `rt_exit_critical` | queues, bitmap and thread states agree, so that a switch goes to the most urgent ready thread; nothing switches under the lock |
| Context switch, interrupts (`context_gcc.S`, `irq.c`, `board.c`) | `rt_interrupt_from_thread`, `rt_interrupt_to_thread`, the switch flag, nesting | `rt_hw_context_switch`, PendSV, SysTick, enter/leave | PendSV saves the context that is on the processor and loads the current thread |
| Clock (`clock.c`) | `rt_tick`, `remaining_tick` of each thread | `rt_tick_increase` | the tick wraps; a time slice ends in a yield |
| Timers (`timer.c`) | `_timer_list`, `timeout_tick` and flags of each timer | start, stop, `rt_timer_check` | a timer fires in its tick and once, across the wraparound |
| Threads (`thread.c`, `idle.c`) | `stat`, priorities, `error`, the node `tlist`, the defunct list | init, startup, sleep, delay_until, yield, suspend, resume, priority change, delete, detach, exit, reclaiming by the idle thread | a thread is in one list, the one its state names; memory given back is not used |
| Semaphore (`ipc.c`) | `value`, wait list | take, trytake, release, reset, detach, delete | tokens are conserved; no wakeup is lost |
| Mutex (`ipc.c`) | `value`, `owner`, `hold`, `original_priority`, wait list | take, trytake, release, detach, delete | mutual exclusion; inheritance and restoration of priorities |
| Event (`ipc.c`) | `set`, `event_set` and `event_info` of each thread, wait list | send, recv (AND, OR, CLEAR), reset, detach, delete | whoever is satisfied is woken, with flags it asked for |
| Mailbox (`ipc.c`) | ring `msg_pool`, `in_offset`, `out_offset`, `entry`, lists of receivers and senders | send, send_wait, urgent, recv, reset, detach, delete | a bounded buffer; full and empty sides do not strand each other; a timeout is for the call |
| Message queue (`ipc.c`) | nodes in a queue and a free list, `entry`, two wait lists | as the mailbox | as the mailbox; no node is lost or used twice while it is copied |
| Memory pool (`mempool.c`) | free blocks, wait list | alloc, free | no block is lost or doubled |
| Small-memory heap (`mem.c`) | block headers in the heap, `lfree`, bytes used | malloc, realloc, free | blocks tile the heap; no two free neighbours; what fits is found |
| Objects, devices (`object.c`, `device.c`) | registration lists, open counts | register, find, open, close | open counts balance |
| Work queue (`components/drivers/ipc/workqueue.c`) | `work_list`, `delayed_list`, `work_current`, a semaphore, flag, timer and queue of each work | dowork, submit_work, urgent_work, cancel, cancel_sync, cancel_all, the worker, the timeout handler | a work that was accepted is run or cancelled; the worker does not sleep over one |
| Other device IPC (`components/drivers/ipc`) | completion flag, data queue, ring buffer, pipe | put, get, wait, done | bytes arrive in order |
| Serial v1 (`serial.c`, `drv_usart.c`) | receive FIFO, data queue of transmission | open, read, write, isr | bytes in order; an overrun drops the oldest |
| Shell (`finsh/shell.c`) | `rx_sem`, the line being edited | `finsh_getchar`, `finsh_rx_ind` | input is noticed |
| Pin (`pin.c`, `drv_gpio.c`), SEGGER RTT, application | tables of callbacks, up/down buffers | attach, read, write | - |
| Kernel services (`kservice.c`, `components.c`) | none (formatting, bit search), start-up order | `rtthread_startup` | - |
| Vendored `hc32f460_ddl`, DFS, net, USB, LWP, memheap, slab, SMP | - | - | not modelled |

### How they interact, and what is hard

Threads call kernel services; SysTick calls `rt_tick_increase`, which may call
`rt_schedule` and always calls `rt_timer_check`, which calls `_thread_timeout`, which
resumes a thread and calls `rt_schedule`; device handlers call the services that do
not block. All share the kernel lists. A service protects itself by masking
interrupts (`rt_hw_interrupt_disable`), so on one core a critical section is atomic;
**everything between two sections of a service may be interrupted**. That is where
the hard behaviours are:

* a service that suspends its caller in one section and calls `rt_schedule` after
  it: a timeout or a release may come in between;
* a service that tests something with interrupts enabled and acts on it in a section
  (`rt_thread_resume`, `_ipc_list_resume_all`, `rt_thread_defunct_dequeue`), or works in
  two sections (`rt_thread_delete`, `rt_thread_detach`);
* `rt_current_thread` changes at once, the registers only when PendSV runs, and
  handlers may request further switches in between;
* `thread->error` carries the result of a wait from the waker to the waiter, whose
  timer may expire meanwhile;
* ticks wrap; the order of the timer list rests on modular differences, and so does
  what is left of a timeout when a resumed receiver finds that another was faster;
* messages are copied with interrupts enabled, between two sections;
* a work belongs to a list, to a timer and to the worker in turn, and submissions,
  cancels and the timeout handler take it from one to the other;
* characters arrive between the shell's read that found nothing and its wait;
* priorities of owners change while they are queued or waiting.

`PROJECT.json` lists these hazards at their lines with the properties aimed at each.

## 2. Modules

```
Kernel        operations of a critical section, as functions on the kernel state
  |
Cpu           thread context, SysTick, a device interrupt, PendSV; sleep, yield, lock
  |---- Threads         thread services and the idle thread          MCThreads
  |---- Ipc             blocking and detaching, common to IPC objects
  |       |---- Semaphore                                            MCSemaphore
  |       |---- Mutex                                                MCMutex
  |       |---- Event                                                MCEvent
  |       |---- Channel          two wait lists and the retry
  |               |---- Mailbox        implements BoundedBuffer      MCMailbox
  |               |---- MessageQueue   implements BoundedBuffer      MCMessageQueue
  |---- Workqueue       works, worker, timers of works               MCWorkqueue
  |---- Serial          FIFO, interrupt, shell; implements LossyBuffer   MCSerial
Heap          the small memory manager                               MCHeap

CpuProofs --+-- IpcProofs --+-- SemaphoreProofs
            |               +-- MutexProofs
            |               +-- EventProofs
            |               +-- MailboxProofs
            +-- WorkqueueProofs
HeapProofs
```

**Kernel.** One record `k` holds the state the C code keeps in globals and thread
control blocks: `cur` (`rt_current_thread`), `exec` (the thread whose registers are on
the processor), `sw` (the pending switch), `stat`, `yield`
(`RT_THREAD_STAT_YIELD`), `prio`, `slice`, `err`, `ready`, `group`, `wait`, `defunct`,
`timers`, `tmo`, `tick`, `lock`. Every operator is the body of a critical section
under the name of its C function (`rt_schedule`, `rt_timer_start`,
`rt_thread_suspend`, `thread_timeout` for `_thread_timeout`, `ipc_list_suspend`, ...);
nested calls are compositions. All lists but the timer list go through the single
node `thread->tlist`, which `TListRemove` takes out of whichever list it is in.
Ticks are numbers modulo `TickMod` (2^32 in the code), and every comparison of the
timer code is the modular one it makes. The skip list of the timers has one level in
this configuration, so it is a plain sorted list.

**Cpu.** `isr` is the stack of active handlers with the point each has reached,
`pc` the point of every thread. A step is one critical section, or the code between
two. SysTick and PendSV have the lowest interrupt priority: neither interrupts a
handler, a pending PendSV precedes SysTick, a device handler may nest on SysTick.
Interrupts are blocked only inside the loop of `rt_timer_check` and at the points an
extending module names (`MaskedPc`), where one section of the code is several steps
here. `App[t]` and `DevOps` say which services the code of a thread and the handler
call; the model calls them in any order, at any time.

**Threads.** `arg` is the local variable of a service in progress, `freed` the set of
threads whose memory is given back, `mark` the variable behind
`rt_thread_delay_until`. `ResumeTest`/`Resume`, `DeleteRemove`/`DeleteClose` and
`DefunctPeek`/`DefunctFree` are the two halves of services that are not atomic.
`rt_thread_suspend`, `rt_thread_resume` and a priority change do not reschedule; `CallSchedule` is the
`rt_schedule` that application code calls itself. So a thread may go on running while it is suspended
or a more urgent one is ready, until something schedules.
Application code is expected not to use a thread it knows to be freed (guard
`u \notin freed`); that the kernel does not is `FreedIsGone`.

**Ipc, Semaphore, Mutex.** `value`, `owner`, `hold`, `orig` are the fields of the C
structures; `net` and `mine` are history variables (accepted releases less completed
takes; completed takes of a thread less its releases), so that properties can speak
of what callers were told. A blocked take is at `"take"` before its `rt_schedule` and
at `"took"` behind it. `_ipc_list_resume_all` takes a test step and a resume step per
waiter; where its list has become empty in between, the code takes the list head for a thread, and the
model stops the caller (`DetachResume`). The reset of `rt_sem_control` keeps interrupts
masked throughout; it adds to `net` what the new value differs from the old one, so the tokens
of takes that were granted before it still have to be accounted for.

**Event.** `set` is `event->set`, `info` the wanted flags and the options that the
code keeps in the thread; flags are a set instead of 32 bits. `rt_event_send` walks the
list of waiters in one section: `Sent` folds one turn of its loop (`Deliver`) over the list.
`asked` is a history variable: the code overwrites the wanted flags with the received ones.

**Channel, Mailbox, MessageQueue.** Mailboxes and message queues block, retry, reset and
detach alike; `Channel` has that part. `recvq` and `sendq` are the two wait lists, `call` the
local variables of a call that waits (the message, the remaining timeout, `tick_delta`), `due`
a history variable, the tick at which the call should time out. A resumed thread tests
the condition again (`SendRetry`, `RecvRetry`) and waits for what is `Remaining`. `Mailbox` keeps
the ring with its two offsets; `MessageQueue` the singly linked queue and free list with
`head`, `tail` and `free`, and the node in the `hand` of a thread that copies: `GetNode` and
`LinkNode`, `Unlink` and `FreeNode` are the two sections of a send and of a receive.

**BoundedBuffer** says what both promise: a queue of at most `Size` messages, and atomic
Send, Urgent, Receive, Reset. The mailbox maps the part of the ring between its offsets to
the queue, the message queue its linked nodes, and a message that is being copied out to
what the client gets, so a node that were reused too early would show.

**Workqueue.** `wq` holds the two lists, `work_current`, the value of the completion semaphore
and for each work whether it is SUBMITTING, its timer armed and its `workqueue` set. `owed` and
`again` are history variables: the works with a submission that was accepted (returned RT_EOK) while the work
was not executing, or while it was, and that were not started or cancelled since. A refused
submission and a timer leave both alone, whatever they do to the lists. The worker is a thread with the program points of its loop; the body
of a work function is the point `"run"`, from where it may sleep and submit. The timer of
a delayed work is a hard timer in this build; it fires inside `rt_timer_check`, with
interrupts masked, in any tick after it was armed. `rt_workqueue_cancel_all_work` takes, per
work, the test of the list (`AllTest`), the read of its first entry (`AllFirst`), both with interrupts
enabled, and the section of the cancel. A timer that is initialised while it is linked
(`workqueue.c:142`, possible with two clients) would corrupt the timer list: the model does not go
on from there (guard of `rt_workqueue_submit_work`).

**Serial.** `fifo` is the receive FIFO with its indexes and the flag, `value` the shell's
`rx_sem`, `left` what is still to be read by the read a thread is in. The interrupt
brings up to `Burst` characters, which are put in one by one, each overwriting the oldest when the FIFO is
full; then the handler indicates and `finsh_rx_ind` releases the semaphore. A read fetches a
character per section. `finsh_getchar` reads, and takes the
semaphore when it found nothing. **LossyBuffer** is what the FIFO promises: order, no
doubling, and only the oldest are lost.

**Heap.** `heap` maps the offset of each block header to its `used`, `next` and `prev`, with
`lfree` and the bytes used; `live` is a history variable, what callers hold and the sizes
they asked for. `kservice.c` calls the manager with the heap mutex held, so each call is
one step. Splitting (`Split`) and combining (`PlugForward`, `PlugBackward`) are functions on it.

Abstracted: hooks, object names and containers, stacks and their overflow check,
cleanup callbacks, log output, parameter assertions, fault handlers. Calls that
return an error and change nothing are not steps. `tmo` of an unlinked timer is kept
at 0, which nothing reads.

Definitions introduced with "a slip" are not part of any specification: they are
plausible mistakes in the definition that follows, and every property of a passing
run is violated when one of them takes that definition's place.

## 3. Runs

| Run | Instance | Shows |
|---|---|---|
| `threads` | hi, peers a and b, idle; sleeps of 1 and 2 ticks; suspend, resume, rt_schedule, priorities, delete, close, exit, create; 7 tick values (1.73M states) | one list per thread, the one of its state; bitmap = non-empty queues; one RUNNING thread; sleeps end in exactly the tick they are set to, over the wraparound, several timers in the list; nothing freed is used |
| `sem_shared` | hi, lo, idle, a device handler nested on SysTick; 1 semaphore of at most 2 tokens; timeouts 0, 2, for ever; sleep, reset, detach; lock (482k) | tokens conserved; no lost wakeup; a thread is suspended in a take exactly while it is on the list; a granted take leaves no timer; until a detach, application code runs only in a thread that no ready thread precedes, also behind `rt_exit_critical`; PendSV switches correctly; the lock holds |
| `sem_fair` | two peers, one never blocks, fair | sleeps and timed takes end; ready threads run |
| `mutex_one` | hi, mid, lo, idle; 1 mutex, nesting 2, timeouts, detach (1.34M) | mutual exclusion as threads see it, order and promptness of the hand-over, inheritance, restoration |
| `mailbox_shared` | hi, lo, idle, a handler that sends; 2 slots, 2 messages; timeouts 0, 2, for ever; urgent, reset, detach (3.4M) | implements `BoundedBuffer`; deadlines survive retries; nobody stranded |
| `queue_shared` | as above; timeouts 0, 1, for ever; both threads reset, hi also between the two sections of lo (1.39M) | implements `BoundedBuffer`; every node in one place; nobody stranded |
| `event_shared` | hi, lo, idle, a handler that sends; 2 flags, all options; timeouts 0, 1; reset, detach (1.25M) | no satisfied waiter is left; what is received satisfies what was asked |
| `work_shared` | a thread and the worker of one priority, a second thread below them that cancels synchronously, idle, a handler that submits; one work submitted at once or urgently, one with delays; all cancels (4.71M) | no stranded work; works accepted while not executing are kept until started or cancelled; a firing timer finds its queue; a completion wakes both waiters and leaves no token |
| `serial_shared` | the shell and another reader of its priority, idle, the interrupt; a FIFO of 3, bursts up to 3 (507k) | implements `LossyBuffer`; the shell does not sleep over input |
| `heap_calls` | a heap of up to 4 blocks, 6 sizes of requests (140k) | blocks tile the heap; holes combined; what fits is found; used = held |
| `mutex_nested_restore`, `work_timer` | expected violations | see Findings |

**Bounds and why they are enough.** Three application priorities at most, because the
scheduler only compares two at a time and inversion needs three; two peers, because
time slicing needs two; `TickMod` between 4 and 8, so that several wraparounds occur within
a run and the timeouts stay below `RT_TICK_MAX / 2`, as the code requires; slices of 1 tick, and
of 2 in the semaphore runs, so that a slice ends in the middle of a service and between two;
`ValueMax = 2`, `HoldMax = 2`, so that the limits (65535 and 255 in the code) are met; one
object, because waiters of different objects share nothing but the kernel, and two mutexes
where nesting is the question. A channel of 2 slots is empty, partly filled and full, and
its offsets wrap; the higher thread both sends and receives, so that the lower one runs
with a full and with an empty channel, and the handler is a second sender, so that a
resumed thread finds the mail or the slot gone. Two flags distinguish AND from OR. Two works
let one execute while the other waits in the list or for its timer; the second client runs only while the
first waits, which gives two waiters and keeps its cancels out of the window of `workqueue.c:150`. A FIFO of 3 with bursts of up to 3 wraps with
and without an overrun. The heap is in units of 2 bytes with the alignment, header and
least block of the build; the requests are below, at and above the least block, odd ones,
one that fits exactly and one that never fits. State spaces are finite without a
constraint: every counter wraps or has a limit in the code, except the nesting of
`rt_enter_critical`, which `LockMax` bounds, and the time a resumed receiver may be kept
from the processor, which `Channel` keeps from wrapping round the few ticks of an instance
(`Elapsed`; in the code it would take 2^32 ticks).

**Symmetry**: messages, flags and characters are only passed on or compared,
so their permutations are symmetries; no run with symmetry checks liveness. Refinements
are safety properties (`[][Next]` of the abstract specification).

**Deadlock** is checked in every run: SysTick never stops, and a heap can always free or allocate.

**Fairness** (`FairSpec` of `Semaphore`). Weak fairness of the processor's steps: SysTick is periodic,
handlers and PendSV have no unbounded waits. Strong fairness of the steps with which
a thread finishes a service it has begun: each tick disables the step of the thread
it interrupts, but a tick period (1 ms) is long against a critical section, so a
thread that gets the processor again and again completes its section. Nothing is
assumed about which services an application calls: in `sem_fair` the peer
need never call anything.

## 4. Proofs

The proofs are for every finite set of threads, any number of priorities, every
application (what a thread calls, and when), every timeout below half the tick range and
every interleaving with SysTick, a nesting device handler and PendSV. Assumptions on the
constants are named in the modules that declare them and evaluated by TLC in the runs:
`ThreadAssumption` (finitely many threads, the idle thread alone at the lowest priority,
positive slices), `TickAssumption` (at least 4 tick values), `MainAssumption`,
`DelayAssumption`, `AppAssumption` (the idle thread calls no blocking service),
`TimeoutAssumption`, `SemAssumption`, `HoldAssumption`, `EventAssumption` (one event set, FIFO or by priority), `ChannelAssumption` (two different lists, at least one slot, and
`None`, which stands for RT_WAITING_FOREVER, is neither a message nor a tick), `WorkAssumption` and the
assumptions of `Heap` on alignment, header and sizes.

| Module | Theorems (the property each states) |
|---|---|
| `SemaphoreProofs` | `SemInvariant`; `SemTypes` (`TypeOK`), `SemNoLostWakeup`, `SemWaiterIsReachable`, `SemTokensConserved`, `SemLockHeld` (action property), `SemListsMatchStat`, `SemGroupMatchesQueues`, `SemReadyIsQueued`, `SemSwitchCoherent`, `SemOneRunning`, `SemTimersOfSuspended`, `SemHighestRuns` (`HighestRunsUntilDetach`) |
| `MutexProofs` | `MutexInvariant`; `MutexTypeCorrect` (`TypeOK`), `MutexHoldsAgree`, `MutexReadyIsQueued`, `MutexListsMatchStat` (with `GroupMatchesQueues`). Conditional on `Unnested`: `LendInvariant`, `UnnestedRestores` (`PriorityRestored`), `UnnestedInherits` (`OwnerInherits`), `UnnestedWaitersSorted` (`WaitersByPriority`). For one mutex, without that condition: `OneMutexInherits` (all three), `OneMutexGrantPreempts` (`GrantPreempts`) |
| `EventProofs` | `EventInvariant`; `EventTypeCorrect` (`TypeOK`), `EventNoMissedEvent`, `EventRecvedSatisfies`, `EventWaiterIsReachable` |
| `MailboxProofs` | `MailInvariant`; `MailTypes`, `MailNobodyStranded`, `MailDeadlineKept`, `MailboxImplementsBuffer` (refinement of `BoundedBuffer`) |
| `WorkqueueProofs` | `WorkInvariant`; `WorkTypes`, `WorkNeverStranded` (`NoStrandedWork`), `WorkAccepted` (`AcceptedWorkKept`), `WorkCompletionWakes` (`CompletionWakesAll`, action property), `TimersFindQueue` (`TimerFindsQueue`, conditional) |
| `HeapProofs` | `HeapInvariant`; `HeapTypeCorrect`, `TilesAlways` (`BlocksTile`), `HolesPlugged` (`NoAdjacentFree`), `FitAlwaysFound` (`FitIsFound`), `BlocksAlwaysKept` (`HeldBlocksKept`) |

**Kernel and processor.** The properties of the lists are not inductive one by one.
`ListsMatchStat` needs to know that a thread which is inserted into a queue is in no other
list; that follows from its state only if the states of *all* list members are right and
the current thread is in no list; `rt_schedule` leaves the bitmap right only if the idle
thread is ready or running, so that a blocked current thread always finds a successor.
`KInv(k)` (`CpuProofs`) joins these: well-formed lists, placement, completeness, bitmap,
switch, current thread, idle thread and timers. It is stated element-wise (which list a
thread is in) and `KInvMeaning` derives the named properties. Each kernel operation has a
lemma: under `KInv` it keeps `KInv`, and what it does to states, wait lists, priorities and
error codes. `CpuInv` adds that nobody is CLOSE and that, while the scheduler is unlocked,
a current thread that is suspended stands in front of the `rt_schedule` of a blocking
service; without it the idle thread or a thread in application code might be suspended
and running. Since every step of the processor and of the kernel's own services is in
`CpuProofs`, the modules above it only reason about their own steps.

**Blocking objects** (`IpcProofs`). `IpcInv` adds, for all IPC objects at once: a thread inside a
take has an object, and is suspended exactly while it is on the list of that object
(`Reachable`); whoever is on a list is inside a take and has error `RT_EOK` (`WaitsInTake`); the
thread that has locked the scheduler is inside no take (`LockedOut`). With them the threads
*in flight* (resumed with success and not yet back) are known after every step: a waker
adds exactly the thread it resumes, a timeout, reset or detach none, and a return takes
one away. The lemmas `Flight...` count them.

**Semaphore.** `SemInv` adds to `IpcInv` the types of the counters, that a semaphore with
waiters has value 0, and `TokensConserved`. The count is not inductive alone: without
`WaitsInTake` a release might resume a thread whose error is still `RT_ETIMEOUT` from an
earlier wait, and the token would be gone; without `LockedOut` a thread could return from a take
that has not been granted. `LockHeld` is proved of every step from `SemInv`: under the
lock `rt_schedule` requests no switch, and none can be pending when the lock is taken.
`SemHighestRuns` needs an invariant of its own (`Prompt`): whenever the scheduler is unlocked,
either no ready thread precedes the current one, or a `rt_schedule` is still to come - in the service the
current thread is in, or in the handler. It is proved up to the first
call of `rt_sem_detach` or `rt_sem_delete` (`DetachedStays`): these resume the waiters
without a `rt_schedule`, so the property is false after them. `rt_sem_control`'s reset is covered.

**Mutex.** `MutexInv` adds to `IpcInv` the types, that a mutex has an owner exactly while it is taken
(`Owned`), that nobody waits for a mutex it owns (`NoSelfWait`), and `HoldsAgree`. A thread
that was handed a mutex owns it before its take returns, so `HoldsAgree` counts the thread in flight
like a take. It needs `Owned` and `NoSelfWait` through a release that hands over: the new owner was waiting,
so it held nothing. A timeout or a detach takes threads off the list without the mutex; that
neither leaves one in flight is the `IpcProofs` part. Inheritance changes the priority of ready, waiting
and running threads; that it keeps `KInv` is a lemma about `RT_THREAD_CTRL_CHANGE_PRIORITY`.
Inheritance itself is `LendInv`: an owner is at its own or a lent priority and `orig` is its
own (`AtBase`), everybody else is at its own, the waiters are sorted, and none
precedes the owner. The parts need each other: a release restores the right priority because
`orig` is the own one, and `orig` is the own one because who takes owns nothing else. That
is the hypothesis `[]Unnested` (no thread owns or waits for two mutexes at once). It is a
condition on the application, and it is needed: `mutex_nested_restore` is the counterexample
of the code without it. Where threads share a single mutex it holds by itself
(`OneMutexInherits`). `GrantPreempts` rests on an invariant `Prompt`, like that of semaphores but only for threads that
have been granted the mutex, and is proved for one mutex, which may be detached. With several it is
false even when unnested: an owner can keep the priority of a waiter that timed out, keep the processor over a
grant in between, and then fall back without a `rt_schedule` (`ipc.c:1185`).

**Event.** `EventInv` adds to `IpcInv` the types, `NoMissedEvent`, `RecvedSatisfies`, and that the flags in the thread are those
it asked for as long as it waits (`AskedWhileWaiting`). The last is needed because
`rt_event_send` overwrites `thread->event_set` with what was received: that the received flags are among those asked for
follows only if they were taken out of the flags asked for. The step that matters is
the loop of `rt_event_send`. Its invariant after `i` turns is `Turn(a, i)`: only waiters have been woken, each with a
set that satisfies what it asked (`Served`) or untouched, those behind `i` still wait, and no waiter up to `i`
that is still on the list is satisfied by what is left of the set. A flag cleared for a later waiter
cannot satisfy an earlier one (`UnmetByFewer`). The model computes the loop with a fold over the list. That the recursive
function inside the fold has a value (`TurnsExist`), and that the invariant holds after the last
turn (`TurnsDone`), are inductions on the length of the list, each proved by its
least counterexample, since the induction theorems cannot be instantiated.

**Mailbox.** `ChanInv` adds to `IpcInv` the local variables of a waiting call: a
thread that waits for room has a message to send (`HasMessage`), a thread that detaches
knows the list it empties, the idle thread is inside no call, and every waiting call keeps its
time (`Timed`): as long as its timeout is not used up, `tick_delta` and `timeout` add up to the
tick `due` at which the call is to end, and while the thread is on a list its timer is
set to that tick. `DeadlineKept` speaks of the timer only and is not inductive: a thread that waits
again takes its new timer from `timeout` and `tick_delta`, so these have to be right between two
waits as well (`OnTime`), over ticks that pass (`ElapsedOnTime`) and over the recomputation
(`RemainingOnTime`); both are arithmetic modulo the tick range (`TicksPassed`). That a waiting thread's
timer is touched by nobody else is a fact about every operation of the kernel (`SameTimer`,
`TimersKept`, `StillWaits`), which the step lemmas of the lower modules therefore state. The proof
has the bound of the model: a resumed thread runs again before the tick counter has gone
round (`Elapsed`). `MailInv` adds
`Ring` (`in_offset` is `out_offset + entry` modulo the size) and `Served`, which is
`NobodyStranded` said of each waiting thread. Counting is what the step lemmas are about:
a send adds a mail and, if a receiver waits, one receiver in flight; a retry that takes
a mail leaves flight and takes one mail away; one that finds nothing can leave
flight only because the ring is empty (`NoGrant`, `OnlyWaitsOn`, `Grants` name the three
kinds of steps). The refinement goes step by step: `StoreMails`, `StoreFirstMails` and
`FetchMails` show that the three ring operations are Append, prefix and Tail of `Mails`
for every size and every position of the offsets; then every action is an action of
`BoundedBuffer` or a stutter.

**Work queue.** `WorkInv` adds to `CpuInv`: no work is linked twice into a list, the worker's
point agrees with `work_current`, whoever is inside a section that the queue protects with the
scheduler lock holds that lock and the processor (`LockHolder`), where the worker may
be suspended (`Parked`), and when the completion semaphore has a token (`Token`). `Parked`
is what `NoStrandedWork` needs at the other points of the loop. A work function may return with the
scheduler locked; the worker then goes on though it is suspended (`RunsLocked`), and
`NoStrandedWork` speaks of that case separately. `History` says that the executing work is not
`owed`: this is why a submission that is refused because the work executes, and a timer that
drops its work for the same reason, cannot touch a work of which `AcceptedWorkKept` speaks. Of works in
`again` nothing is proved: `WorkBusy.cfg` and `WorkUrgent.cfg` give counterexamples of the code. `TimersFindQueue` has two hypotheses
(`OneClient`): one thread submits with delays and cancels, and no work is submitted both with
and without a delay. Both are needed: without the second the run `work_timer` has a
counterexample in the code, without the first the window at `workqueue.c:150` gives one.
The instance of `work_shared` satisfies the second; its second client cancels too, and never
in that window, because it is less urgent.

**Heap.** `HeapInv` is the conjunction of `Shape` (the record and the types of the items),
`Tiled` (aligned items, no item between an item and its `next`, `prev` the inverse of
`next`), `Counted` (`parent.used` is the sum over the used items), `LfreeLowest`, `Apart` (no two
free neighbours) and `HeldOK` (used items are the held blocks, with the room asked for). The
parts need each other: `plug_holes` rewrites the `prev` of an item that it finds through two
`next` links and finds the hole in front through `prev`, so `Apart` rests on `Tiled`; `FitIsFound` needs
`LfreeLowest` through every split and combination. `Counted` says that there is a
function that counts the used bytes in front of each item; each operation's lemma gives the new
function from the old one, and the walk of `UsedBytes` is shown to be the only such
function, by its least disagreement.

**Only model-checked.**

* All liveness of `sem_fair`: the prover has no fairness and no ENABLED.
* `FreedIsGone` and `WakesOnTime` of `Threads`. Delete, detach and the
  reclaiming by the idle thread work in two sections each, between which a thread is in no list though its
  state names one; `KInv` does not hold there, and the lemmas of the kernel would need a
  weaker invariant. `WakesOnTime` also needs the order of the timer list modulo the tick range.
* The conditional theorems without their conditions. `PriorityRestored` is false for nested mutexes (a run shows
  it), `GrantPreempts` for several mutexes, `HighestRuns` after the detach of a semaphore.
* `ShellHearsInput` of `Serial`, which needs that one thread reads the shell's semaphore, and
  `ImplementsLossyBuffer`, whose bursts are stored one by one: an induction over data for which
  no argument like that of the event's loop has been written yet.
* `NodesAccounted`, `NobodyStranded` and the refinement of `MessageQueue`: its waits are those
  of `Channel`, about which `MailboxProofs` has lemmas, but a send and a receive are two
  sections each, and the queue is a walk along linked nodes. Its `DeadlineKept` is neither checked nor
  proved: the retry is the one of `Channel` that the mailbox shares.

## 5. Findings

* **Nested mutexes** (`mutex_nested_restore`, `ipc.c:967`). `original_priority` is taken from
  `current_priority`, which may be inherited: with two mutexes a thread can be left at
  an inherited priority for good.
* **Delayed work submitted again** (`work_timer`, `workqueue.c:346`). `rt_workqueue_urgent_work` and a
  submission without delay move a work out of the delayed list and leave its timer
  running. The worker clears `work->workqueue`, and the timer then fires for a work without
  queue: the assertion of the timeout handler fails.

At the following lines, too, the code does less than a comment says. They are not among the runs of section 3;
each is stated in its module as a property that quotes the line, and TLC finds the counterexample with the
configuration named (`tlc -config X.cfg M`, where `M` is `MCSemaphore`, `MCWorkqueue` or `MCHeap`):

* **Detach and a late waiter** (`SemDetachLate.cfg`, `ipc.c:351`). "When the semaphore is successfully
  detached, it will resume all suspended threads" (`ipc.c:327`; likewise `:423`). A thread that
  blocks between the last test of the list and the removal of the object stays suspended on
  the list of an object that is gone, and nobody can resume it. So a waiter can be on a
  list (`WaiterIsReachable`) and yet never be woken.
* **Detach and a timeout** (`SemDetachRace.cfg`, `ipc.c:226`). `_ipc_list_resume_all` tests the list before
  it masks interrupts. If the only waiter times out in between, the list head is taken for
  the "next suspended thread" (`ipc.c:231`).
* **Delayed submission of the executing work** (`WorkBusy.cfg`, `workqueue.c:194`). It is to be refused with
  `-RT_EBUSY` (`workqueue.c:325`); the code accepts it, and the timeout handler drops the work if it
  still executes.
* **Urgent submission of the executing work** (`WorkUrgent.cfg`, `workqueue.c:100`). It is accepted, "will be
  executed after the current work item" (`workqueue.c:338`), and is undone by a later submission
  that is refused, since the code unlinks before it tests.
* **Cancelling all works** (`WorkCancelFirst.cfg`, `WorkCancelAll.cfg`, `workqueue.c:434-443`). A timer that fires
  between the test and the read of the first entry empties the list that
  "is expected to be not empty" (`rtservice.h:177`); one that fires between the two loops moves its work into
  the list that was emptied, and the call that "will cancel all work items" (`workqueue.c:420`) leaves it there.
* **Synchronous cancel of a work that ends** (`WorkSyncLate.cfg`, `workqueue.c:406`). The call is to block until
  the work is done (`workqueue.c:393`). When the work ends between the test and the take, it blocks until some
  other work completes.
* **Least block size** (`HeapMinimum.cfg`, `mem.c:464`). "every data block must be at least
  MIN_SIZE_ALIGNED long" (`mem.c:302`); `rt_smem_realloc` splits below that.

Other consequences of the code, at lines that promise nothing else, are in the list of
hazards:

* `thread.c:510`: `rt_thread_delete` and `rt_thread_detach` unlink the thread first and stop its
  timer in a later section. If the timer of a sleeping thread expires in between, the
  thread ends CLOSE and in a ready queue; `rt_thread_resume` has the same window
  (`thread.c:891`). The run `threads` closes and resumes only threads that have no timer
  running (`MCTargets`).
* `thread.c:728`: a priority change, like `rt_thread_resume`, does not reschedule. A less urgent caller that raises
  a ready thread, or lowers itself, keeps the processor until something schedules; `HighestRuns` is therefore no
  property of `threads`; with semaphores it holds until one is detached (`HighestRunsUntilDetach`).
* `ipc.c:1185`: after a waiter has timed out, a release without waiters lowers the owner's
  priority without rescheduling.
* `workqueue.c:150`: a cancel by another thread between the section of a delayed submission and
  its `rt_timer_start` leaves a timer without queue, and the next submission initialises a timer that is linked.
  In `work_shared` the second client is less urgent and never runs in that window.
* `mem.c:495`: a realloc to a slightly smaller size moves the block, and fails when there is no other
  (`ReallocMove`), though the old block would do.

Outside the models: the periodic timer with `init_tick` 0 (`timer.c:686`); `rt_thread_mdelay(-1)`
(`clock.c:139`); a completion that arrives while its waiter times out (`completion.c:110`); a
DMA write that starts behind its section (`serial.c:560`); the length computed by the receive
timeout of the driver (`drv_usart.c:629`).

## 6. Plan

Done: all modules above, their runs, and the proofs of section 4. Next, proofs:

1. `MessageQueue`: its waits are on `ChanInv`; what is missing is the chain of nodes.
2. `Serial`: the stored burst by the least counterexample, as for the loop of `rt_event_send`; then the
   refinement of `LossyBuffer`, and `ShellHearsInput` for one thread that calls `finsh_getchar`.
3. `FreedIsGone` of `Threads`, with a `KInv` that excepts the thread being closed.
4. `WakesOnTime`: the timer list is in the order of expiry, on the timer facts of `CpuProofs`.

## 7. Not modelled

* Memory pool: its waits are those of `Channel` on an empty ring, and nothing in the modelled
  parts uses one. Application and periodic timers: the thread and work timers cover the
  list, its order and the expiry; periodic ones have no user in this build.
* Completion, data queue, ring buffer, pipe: used only by the DMA transmission of the serial
  device, which this build does not open. Transmission of the console is by polling. Reception by
  DMA (`serial.c:375-535`, `:1387-1415`): `BSP_UARTn_RX_USING_DMA` is not configured, so no device is registered with
  `RT_DEVICE_FLAG_DMA_RX`; there the controller writes into the FIFO before the handler moves
  the index, which would have to be a step of its own.
* Objects and devices: registration at start-up. Pin: register access. SEGGER RTT: debug
  output whose reader is the debug probe.
* The shell's line editing and `kservice.c`'s formatting: strings without shared state.
* Not in the configured build: SMP, signals, DFS, network stacks, USB, LWP, memheap, slab,
  soft timers. Vendored: `hc32f460_ddl`, CMSIS, SEGGER. These are nearly all lines of the
  repository (the kernel's own sources are under 20 thousand of about 660 thousand), so the
  share of mapped lines stays small however complete the model of the kernel is.
