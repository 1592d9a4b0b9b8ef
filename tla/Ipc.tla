-------------------------------- MODULE Ipc --------------------------------
(***************************************************************************)
(* What the IPC objects of ipc.c have in common: a thread blocks on the    *)
(* wait list of an object and finds the result in thread->error, and       *)
(* detaching or deleting an object resumes every waiter with an error.     *)
(***************************************************************************)
EXTENDS Cpu

CONSTANT Timeouts       \* timeouts of a take: ticks, 0, or None for ever

ASSUME TimeoutAssumption == Timeouts \subseteq (0 .. HalfTick - 1) \cup {None}

VARIABLES arg,     \* the object a thread is operating on
          valid    \* the object is still registered: not detached or deleted

ipcVars == <<arg, valid>>
kernelVars == <<k, isr, pc>>

IpcPc == CpuPc \cup {"take", "took", "reset", "detach", "resume", "object"}
MaskedPc == {"reset"}     \* rt_sem_control resumes every waiter in one section

SetArg(t, o) == arg' = [arg EXCEPT ![t] = o]

\* the takes that have been granted the object and have not returned yet
InFlight(o) ==
    {t \in Thread : /\ pc[t] \in {"take", "took"} /\ arg[t] = o
                    /\ t \notin Range(k.wait[o]) /\ k.err[t] = "EOK"}

-----------------------------------------------------------------------------
\* rt_xxx_detach and rt_xxx_delete: the loop of _ipc_list_resume_all tests the
\* list with interrupts enabled and resumes its head in a section of its own
DetachEnter(t, o) ==
    /\ Calls(t, "detach") /\ valid[o]
    /\ SetArg(t, o)
    /\ Goto(t, "detach")
    /\ UNCHANGED <<k, isr, valid>>

DetachTest(t) ==
    /\ At(t, "detach")
    /\ Goto(t, IF k.wait[arg[t]] # <<>> THEN "resume" ELSE "object")
    /\ UNCHANGED <<k, isr, ipcVars>>

\* on a list that has become empty the code takes the list head for a thread (see
\* DetachFindsThread): the model stops the caller there
DetachResume(t) ==
    /\ At(t, "resume") /\ k.wait[arg[t]] # <<>>
    /\ k' = ResumeWithError(k, arg[t])
    /\ Goto(t, "detach")
    /\ UNCHANGED <<isr, ipcVars>>

\* rt_object_detach or rt_object_delete; no rescheduling follows
DetachObject(t) ==
    /\ At(t, "object")
    /\ valid' = [valid EXCEPT ![arg[t]] = FALSE]
    /\ SetArg(t, None)
    /\ Goto(t, "run")
    /\ UNCHANGED <<k, isr>>

DetachStep(t) == DetachTest(t) \/ DetachResume(t) \/ DetachObject(t)

IpcInit ==
    /\ CpuInit
    /\ arg = [t \in Thread |-> None]
    /\ valid = [o \in Obj |-> TRUE]

-----------------------------------------------------------------------------
IpcTypeOK ==
    /\ k \in KernelState
    /\ isr \in Seq(Frame)
    /\ pc \in [Thread -> IpcPc]
    /\ arg \in [Thread -> Obj \cup {None}]
    /\ valid \in [Obj -> BOOLEAN]

\* A thread inside a take is SUSPEND exactly while it is on the wait list of its own
\* object: whoever was taken off the list, by a release, a timeout, a reset or a
\* detach, has been made ready, and whoever is on it sleeps.
WaiterIsReachable ==
    \A t \in Thread :
        pc[t] \in {"take", "took"} =>
            (k.stat[t] = "SUSPEND" <=> t \in Range(k.wait[arg[t]]))

\* "When the semaphore is successfully detached, it will resume all suspended threads
\* in the semaphore list": an object that is gone has no waiter left, whom nobody
\* could resume any more.
DetachLeavesNobody == \A o \in Obj : ~valid[o] => k.wait[o] = <<>>

\* "get next suspended thread": when the section of _ipc_list_resume_all begins, the
\* list that was found not empty still has a thread.
DetachFindsThread == \A t \in Thread : At(t, "resume") => k.wait[arg[t]] # <<>>

\* the waiters of o are in order of urgency, so the most urgent is resumed first
SortedWaiters(o) ==
    \A i, j \in DOMAIN k.wait[o] :
        i < j => k.prio[k.wait[o][i]] <= k.prio[k.wait[o][j]]
=============================================================================
