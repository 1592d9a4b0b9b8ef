----------------------------- MODULE IpcProofs -----------------------------
(***************************************************************************)
(* What every IPC object relies on: where a thread that waits on an object *)
(* stands, and which takes have been granted and have not returned.        *)
(***************************************************************************)
EXTENDS Ipc, CpuProofs, FiniteSetTheorems

Taking == {"take", "took"}

IpcTypes(P) ==
    /\ pc \in [Thread -> P]
    /\ arg \in [Thread -> Obj \cup {None}]
    /\ valid \in [Obj -> BOOLEAN]

TakesObj == \A t \in Thread : pc[t] \in Taking => arg[t] \in Obj

\* a thread inside a take is suspended exactly while it waits on its own object
Reachable ==
    \A t \in Thread :
        pc[t] \in Taking => (k.stat[t] = "SUSPEND" <=> InWait(k, t, arg[t]))

\* a thread on a wait list is inside a take, and its error is still RT_EOK
WaitsInTake ==
    \A t \in Thread, o \in Obj : InWait(k, t, o) => pc[t] \in Taking /\ k.err[t] = "EOK"

\* the thread that has locked the scheduler is inside no take
LockedOut == k.lock > 0 => pc[k.cur] \notin Taking

\* the invariant of the kernel with threads whose points are in P
IpcInv(P) ==
    CpuInv /\ IpcTypes(P) /\ TakesObj /\ Reachable /\ WaitsInTake /\ LockedOut

-----------------------------------------------------------------------------
(* What a step does to one thread. *)

\* u stays in its take, or outside of one, and is kept waiting or woken
KeptInPlace(u) ==
    /\ pc[u] \in Taking <=> pc'[u] \in Taking
    /\ arg'[u] = arg[u]
    /\ Kept(k', k, u) \/ Awake(k', u)
    /\ \A o \in Obj : InWait(k', u, o) => k'.err[u] = k.err[u]

\* u is outside of a take and waits for nothing
Outside(u) == pc'[u] \notin Taking /\ \A o \in Obj : ~InWait(k', u, o)

\* u begins to wait
Waits(u) ==
    /\ pc'[u] \in Taking /\ arg'[u] \in Obj
    /\ k'.stat[u] = "SUSPEND" /\ k'.err[u] = "EOK"
    /\ \A o \in Obj : InWait(k', u, o) <=> o = arg'[u]

\* nothing else happens to a thread
LEMMA IpcStep ==
    ASSUME NEW P, IpcInv(P), CpuInv', IpcTypes(P)', LockedOut',
           \A u \in Thread : KeptInPlace(u) \/ Outside(u) \/ Waits(u)
    PROVE  IpcInv(P)'
<1>1. TakesObj /\ Reachable /\ WaitsInTake
  BY DEF IpcInv
<1>2. ASSUME NEW u \in Thread, pc'[u] \in Taking
      PROVE  arg'[u] \in Obj /\ (k'.stat[u] = "SUSPEND" <=> InWait(k', u, arg'[u]))
  <2>1. CASE KeptInPlace(u)
    <3>1. pc[u] \in Taking /\ arg'[u] = arg[u] /\ (Kept(k', k, u) \/ Awake(k', u))
      BY <1>2, <2>1 DEF KeptInPlace
    <3>2. arg[u] \in Obj /\ (k.stat[u] = "SUSPEND" <=> InWait(k, u, arg[u]))
      BY <1>1, <3>1 DEF TakesObj, Reachable
    <3> QED BY <3>1, <3>2 DEF Kept, Awake
  <2>2. CASE Waits(u)
    BY <2>2 DEF Waits
  <2> QED BY <1>2, <2>1, <2>2 DEF Outside
<1>3. ASSUME NEW u \in Thread, NEW o \in Obj, InWait(k', u, o)
      PROVE  pc'[u] \in Taking /\ k'.err[u] = "EOK"
  <2>1. CASE KeptInPlace(u)
    <3>1. InWait(k, u, o) /\ k'.err[u] = k.err[u]
      BY <1>3, <2>1 DEF KeptInPlace, Kept, Awake
    <3> QED BY <1>1, <2>1, <3>1 DEF WaitsInTake, KeptInPlace
  <2>2. CASE Waits(u)
    BY <2>2 DEF Waits
  <2> QED BY <1>3, <2>1, <2>2 DEF Outside
<1>4. TakesObj' /\ Reachable'
  BY <1>2 DEF TakesObj, Reachable, InWait
<1>5. WaitsInTake'
  BY <1>3 DEF WaitsInTake, InWait
<1> QED BY <1>4, <1>5 DEF IpcInv

-----------------------------------------------------------------------------
(* The takes in flight. *)

\* the step keeps the part of u in the takes in flight: u is in no take, or stays in
\* its take and is granted nothing
StaysInFlight(u) ==
    \/ pc[u] \notin Taking /\ pc'[u] \notin Taking
    \/ /\ pc[u] \in Taking <=> pc'[u] \in Taking
       /\ arg'[u] = arg[u] /\ NotGranted(k', k, u)

\* a thread is in flight when it has left the wait list without an error
LEMMA InFlightDef ==
    ASSUME NEW u \in Thread, NEW o
    PROVE  /\ u \in InFlight(o) <=> /\ pc[u] \in Taking /\ arg[u] = o
                                    /\ ~InWait(k, u, o) /\ k.err[u] = "EOK"
           /\ u \in InFlight(o)' <=> /\ pc'[u] \in Taking /\ arg'[u] = o
                                     /\ ~InWait(k', u, o) /\ k'.err[u] = "EOK"
  BY DEF InFlight, Taking, InWait

\* a wait that ends with an error was no take in flight, and is none afterwards
LEMMA FlightOfThread ==
    ASSUME Reachable, NEW u \in Thread, StaysInFlight(u), NEW o \in Obj
    PROVE  u \in InFlight(o)' <=> u \in InFlight(o)
<1>1. pc[u] \in Taking => (k.stat[u] = "SUSPEND" <=> InWait(k, u, arg[u]))
  BY DEF Reachable
<1> QED BY <1>1, InFlightDef DEF StaysInFlight, NotGranted, SameGrant, Failed

\* the set of takes in flight is a finite set of threads
LEMMA FlightFinite ==
    ASSUME NEW o
    PROVE  /\ IsFiniteSet(InFlight(o)) /\ IsFiniteSet(InFlight(o)')
           /\ InFlight(o) \subseteq Thread /\ InFlight(o)' \subseteq Thread
           /\ Cardinality(InFlight(o)) \in Nat /\ Cardinality(InFlight(o)') \in Nat
<1>1. InFlight(o) \subseteq Thread /\ InFlight(o)' \subseteq Thread
  BY DEF InFlight
<1> QED BY <1>1, ThreadAssumption, FS_Subset, FS_CardinalityType

\* a step that keeps every thread's part keeps the set
LEMMA FlightKept ==
    ASSUME Reachable, \A u \in Thread : StaysInFlight(u), NEW o \in Obj
    PROVE  InFlight(o)' = InFlight(o)
  BY FlightOfThread, FlightFinite

\* a step that changes the part of h only changes the set by one at most
LEMMA FlightCount ==
    ASSUME NEW o, NEW h \in Thread,
           \A u \in Thread \ {h} : u \in InFlight(o)' <=> u \in InFlight(o)
    PROVE  /\ h \notin InFlight(o) /\ h \in InFlight(o)' =>
                 Cardinality(InFlight(o)') = Cardinality(InFlight(o)) + 1
           /\ h \in InFlight(o) /\ h \notin InFlight(o)' =>
                 Cardinality(InFlight(o)') = Cardinality(InFlight(o)) - 1
           /\ (h \in InFlight(o) <=> h \in InFlight(o)') => InFlight(o)' = InFlight(o)
<1>1. /\ IsFiniteSet(InFlight(o)) /\ IsFiniteSet(InFlight(o)')
      /\ Cardinality(InFlight(o)) \in Nat
  BY FlightFinite
<1>2. ASSUME h \notin InFlight(o), h \in InFlight(o)'
      PROVE  Cardinality(InFlight(o)') = Cardinality(InFlight(o)) + 1
  <2>1. InFlight(o)' = InFlight(o) \cup {h}
    BY <1>2, FlightFinite
  <2> QED BY <1>1, <1>2, <2>1, FS_AddElement
<1>3. ASSUME h \in InFlight(o), h \notin InFlight(o)'
      PROVE  Cardinality(InFlight(o)') = Cardinality(InFlight(o)) - 1
  <2>1. InFlight(o)' = InFlight(o) \ {h}
    BY <1>3, FlightFinite
  <2> QED BY <1>1, <1>3, <2>1, FS_RemoveElement
<1>4. (h \in InFlight(o) <=> h \in InFlight(o)') => InFlight(o)' = InFlight(o)
  BY FlightFinite
<1> QED BY <1>2, <1>3, <1>4

-----------------------------------------------------------------------------
(* The steps of the kernel. *)

\* the facts of the invariant that the lemmas below need
LEMMA IpcFacts ==
    ASSUME NEW P, IpcInv(P)
    PROVE  /\ CpuInv /\ KInv(k) /\ k.lock \in Nat /\ k.cur \in Thread /\ isr \in Seq(Frame)
           /\ pc \in [Thread -> P] /\ arg \in [Thread -> Obj \cup {None}]
           /\ valid \in [Obj -> BOOLEAN]
           /\ TakesObj /\ Reachable /\ WaitsInTake /\ LockedOut
           /\ \A u \in Thread : k.stat[u] # "CLOSE"
           /\ k.lock > 0 => k.sw = None
           /\ k.lock = 0 /\ k.stat[k.cur] = "SUSPEND" => pc[k.cur] \in BlockPc
  BY DEF IpcInv, IpcTypes, CpuInv, KInv, WellFormed, KernelState

\* if u waits afterwards it has waited before, with the same timer
StillWaits(q, r, u) ==
    \A o \in Obj : InWait(q, u, o) => InWait(r, u, o) /\ SameTimer(q, r, u)
TimersKept(q, r) == q.tick = r.tick /\ \A u \in Thread : StillWaits(q, r, u)

LEMMA NotGrantedStill ==
    ASSUME NEW q, NEW r, NEW u, NotGranted(q, r, u)
    PROVE  StillWaits(q, r, u)
  BY DEF StillWaits, NotGranted, SameGrant, Failed

\* the running thread waits on no object unless its rt_schedule is still to come
LEMMA RunnerWaitsNot ==
    ASSUME NEW P, IpcInv(P), NEW t \in Thread, Running(t), pc[t] # "take"
    PROVE  \A o \in Obj : ~InWait(k, t, o)
<1>1. CpuInv /\ KInv(k) /\ k.lock \in Nat /\ LockedOut /\ WaitsInTake
  BY IpcFacts
<1>2. CASE pc[t] = "took"
  <2>1. k.cur = t /\ k.lock = 0
    BY <1>1, <1>2, CallerProps DEF LockedOut, Taking
  <2>2. k.stat[t] = "RUNNING"
    BY <1>1, <1>2, <2>1, CallerProps DEF BlockPc
  <2> QED BY <1>1, <2>2 DEF KInv, Placed
<1>3. CASE pc[t] # "took"
  BY <1>1, <1>3 DEF WaitsInTake, Taking
<1> QED BY <1>2, <1>3

\* handlers and PendSV keep the invariant, and grant nothing
LEMMA CpuStepIpc ==
    ASSUME NEW P, IpcInv(P), NEW M, CpuStep(M), arg' = arg, valid' = valid
    PROVE  /\ IpcInv(P)' /\ pc' = pc /\ NoNewWaiter(k', k)
           /\ \A u \in Thread : StillWaits(k', k, u)
           /\ k'.tick = k.tick \/ k'.tick = (k.tick + 1) % TickMod
           /\ \A o \in Obj : InFlight(o)' = InFlight(o)
<1>1. CpuInv /\ Reachable /\ LockedOut /\ IpcTypes(P)
  BY DEF IpcInv
<1>2. /\ CpuInv' /\ BlocksNone(k', k) /\ pc' = pc
      /\ k'.lock = k.lock /\ StaysLocked(k', k)
  BY <1>1, CpuStepInv
<1>3. /\ \A u \in Thread : NotGranted(k', k, u)
      /\ k'.tick = k.tick \/ k'.tick = (k.tick + 1) % TickMod
  BY <1>1, CpuStepErr
<1>4. IpcTypes(P)' /\ LockedOut'
  BY <1>1, <1>2 DEF IpcTypes, LockedOut, StaysLocked, SameCpu
<1>5. \A u \in Thread : KeptInPlace(u) /\ StaysInFlight(u)
  BY <1>2, <1>3 DEF KeptInPlace, StaysInFlight, BlocksNone, NotGranted, SameGrant, Failed
<1>6. \A u \in Thread : StillWaits(k', k, u)
  BY <1>3, NotGrantedStill
<1> QED BY <1>1, <1>2, <1>3, <1>4, <1>5, <1>6, IpcStep, FlightKept, BlocksNoneIsNoNewWaiter

\* so do the services that are not IPC
LEMMA ServiceIpc ==
    ASSUME NEW P, IpcInv(P), CpuPc \subseteq P, NEW t \in Thread, CpuCall(t) \/ CpuFinish(t),
           arg' = arg, valid' = valid
    PROVE  /\ IpcInv(P)' /\ NoNewWaiter(k', k) /\ TimersKept(k', k)
           /\ \E l \in CpuPc : pc' = [pc EXCEPT ![t] = l]
           /\ \A o \in Obj : InFlight(o)' = InFlight(o)
<1>1. CpuInv /\ Reachable /\ k.lock \in Nat /\ IpcTypes(P) /\ pc \in [Thread -> P]
  BY IpcFacts DEF IpcInv
<1>2. Running(t) /\ pc[t] \in CpuPc /\ pc[t] \notin Taking
  BY DEF CpuCall, Startup, rt_enter_critical, rt_exit_critical, rt_thread_yield,
         rt_thread_sleep, Calls, At, CpuFinish, ThreadSchedule, SleepReturn, Taking, CpuPc
<1>3. k'.tick = k.tick /\ \A u \in Thread \ {t} : SameGrant(k', k, u)
  BY <1>1, CpuCallErr, CpuFinishErr
<1>4. /\ CpuInv' /\ BlocksOnly(k', k, t) /\ NoNewWaiter(k', k) /\ StaysLocked(k', k)
      /\ k.lock = 0 /\ k'.lock > 0 => k'.cur = t
  <2>1. CASE CpuCall(t)
    BY <1>1, <2>1, CpuCallInv
  <2>2. CASE CpuFinish(t)
    BY <1>1, <2>2, CpuFinishInv, BlocksNoneIsNoNewWaiter
  <2> QED BY <2>1, <2>2
<1>5. PICK l \in CpuPc : pc' = [pc EXCEPT ![t] = l]
  BY <1>1, CpuCallInv, CpuFinishInv
<1>6. /\ l \notin Taking /\ pc'[t] = l /\ \A u \in Thread \ {t} : pc'[u] = pc[u]
      /\ IpcTypes(P)'
  BY <1>1, <1>5 DEF CpuPc, Taking, IpcTypes
<1>7. k'.lock > 0 => k'.cur = t
  <2>1. k.cur = t
    BY <1>1, <1>2, CallerProps
  <2> QED BY <1>1, <1>4, <2>1 DEF StaysLocked, SameCpu
<1>8. LockedOut'
  BY <1>6, <1>7 DEF LockedOut
<1>9. Outside(t)
  <2>1. \A o \in Obj : ~InWait(k, t, o)
    BY <1>2, RunnerWaitsNot DEF CpuPc
  <2> QED BY <1>4, <1>6, <2>1 DEF Outside, NoNewWaiter
<1>10. \A u \in Thread \ {t} : KeptInPlace(u) /\ StaysInFlight(u)
  BY <1>3, <1>4, <1>6 DEF KeptInPlace, StaysInFlight, BlocksOnly, NotGranted, SameGrant
<1>11. StaysInFlight(t)
  BY <1>2, <1>6 DEF StaysInFlight
<1>12. TimersKept(k', k)
  <2>1. \A u \in Thread \ {t} : StillWaits(k', k, u)
    BY <1>3, NotGrantedStill DEF NotGranted
  <2> QED BY <1>3, <1>9, <2>1 DEF TimersKept, StillWaits, Outside
<1> QED BY <1>1, <1>4, <1>5, <1>6, <1>8, <1>9, <1>10, <1>11, <1>12, IpcStep, FlightKept

\* and the rt_schedule inside a take
LEMMA TakeScheduleIpc ==
    ASSUME NEW P, IpcInv(P), Taking \subseteq P, NEW t \in Thread,
           ThreadSchedule(t, "take", "took"), arg' = arg, valid' = valid
    PROVE  /\ IpcInv(P)' /\ NoNewWaiter(k', k) /\ TimersKept(k', k)
           /\ pc[t] = "take" /\ pc' = [pc EXCEPT ![t] = "took"]
           /\ \A o \in Obj : InFlight(o)' = InFlight(o)
<1>1. /\ CpuInv /\ KInv(k) /\ k.lock \in Nat /\ IpcTypes(P) /\ pc \in [Thread -> P]
      /\ Reachable /\ LockedOut
  BY IpcFacts DEF IpcInv
<1>2. /\ pc[t] = "take" /\ Running(t) /\ pc' = [pc EXCEPT ![t] = "took"]
      /\ k' = rt_schedule(k)
  BY DEF ThreadSchedule, At, Goto
<1>3. CpuInv' /\ BlocksNone(k', k) /\ k'.lock = k.lock /\ k.cur = t
  BY <1>1, <1>2, ThreadScheduleInv, CallerProps
<1>4. k.lock = 0 /\ LockedOut'
  BY <1>1, <1>2, <1>3 DEF LockedOut, Taking
<1>5. k'.tick = k.tick /\ \A u : SameGrant(k', k, u)
  BY <1>1, <1>2, ScheduleErr, SameGrantProps DEF SameClock
<1>6. IpcTypes(P)' /\ \A u \in Thread : pc[u] \in Taking <=> pc'[u] \in Taking
  BY <1>1, <1>2 DEF Taking, IpcTypes
<1>7. \A u \in Thread : KeptInPlace(u) /\ StaysInFlight(u)
  BY <1>3, <1>5, <1>6 DEF KeptInPlace, StaysInFlight, BlocksNone, NotGranted, SameGrant
<1>8. TimersKept(k', k)
  BY <1>5, NotGrantedStill DEF TimersKept, NotGranted
<1> QED BY <1>1, <1>2, <1>3, <1>4, <1>6, <1>7, <1>8, IpcStep, FlightKept,
           BlocksNoneIsNoNewWaiter

\* a thread that blocks on s, from application code or resumed to find that another one
\* was faster, has nothing in flight; the section may change priorities before
LEMMA BlockFromIpc ==
    ASSUME NEW P, IpcInv(P), Taking \subseteq P, NEW t \in Thread, Running(t), t # Idle,
           pc[t] \in {"run", "took"}, k.lock = 0, NEW r, SameButPrio(r, k),
           NEW s \in Obj, NEW flag, NEW d \in Nat \cup {None},
           k' = ipc_list_suspend(r, s, t, flag, d), isr' = isr,
           pc' = [pc EXCEPT ![t] = "take"], arg' = [arg EXCEPT ![t] = s], valid' = valid
    PROVE  /\ IpcInv(P)' /\ TimedFor(k', r, t, d) /\ k'.cur = t
           /\ \A u \in Thread \ {t} : StillWaits(k', k, u)
           /\ \A u \in Thread, o \in Obj :
                 InWait(k', u, o) <=> (InWait(k, u, o) \/ (u = t /\ o = s))
           /\ \A o \in Obj : InFlight(o)' = InFlight(o) \ {t}
<1>1. /\ CpuInv /\ isr \in Seq(Frame) /\ IpcTypes(P) /\ pc \in [Thread -> P]
      /\ arg \in [Thread -> Obj \cup {None}] /\ Reachable /\ WaitsInTake
      /\ \A u \in Thread : k.stat[u] # "CLOSE"
  BY IpcFacts DEF IpcInv
<1>2. /\ KInv(r) /\ r.cur = t /\ r.stat[t] = "RUNNING" /\ r.stat = k.stat /\ r.err = k.err
      /\ r.wait = k.wait /\ SameClock(r, k) /\ r.lock = 0
  BY <1>1, CallerProps DEF BlockPc, SameButPrio
<1>3. Blocked(k', r, t, s)
  BY <1>2, ListSuspendProps
<1>4. /\ k'.err[t] = "EOK" /\ TimedFor(k', r, t, d)
      /\ \A u \in Thread \ {t} : SameGrant(k', k, u)
  <2>1. /\ k'.err[t] = "EOK" /\ TimedFor(k', r, t, d)
        /\ \A u \in Thread \ {t} : SameGrant(k', r, u)
    BY <1>2, <1>3, BlockedErr
  <2> QED BY <1>2, <2>1 DEF SameGrant, SameTimer, SameClock, InWait, InTimers
<1>5. /\ pc'[t] = "take" /\ arg'[t] = s
      /\ \A u \in Thread \ {t} : pc'[u] = pc[u] /\ arg'[u] = arg[u]
  BY <1>1
<1>6. /\ KInv(k') /\ k'.cur = t /\ k'.lock = 0
      /\ \A u \in Thread, o \in Obj : InWait(k', u, o) <=> (InWait(k, u, o) \/ (u = t /\ o = s))
      /\ \A u \in Thread : k'.stat[u] = IF u = t THEN "SUSPEND" ELSE k.stat[u]
  BY <1>2, <1>3 DEF Blocked, SameCore, InWait
<1>7. CpuInv' /\ IpcTypes(P)' /\ LockedOut'
  BY <1>1, <1>5, <1>6 DEF CpuInv, BlockPc, IpcTypes, LockedOut, Taking
<1>8. \A o \in Obj : ~InWait(k, t, o)
  BY RunnerWaitsNot
<1>9. Waits(t)
  BY <1>4, <1>5, <1>6, <1>8 DEF Waits, Taking
<1>10. \A u \in Thread \ {t} : KeptInPlace(u) /\ StaysInFlight(u)
  BY <1>4, <1>5, <1>6 DEF KeptInPlace, StaysInFlight, NotGranted, SameGrant, Kept
<1>11. ASSUME NEW o \in Obj PROVE InFlight(o)' = InFlight(o) \ {t}
  <2>1. t \notin InFlight(o)'
    BY <1>5, <1>6, InFlightDef
  <2>2. \A u \in Thread \ {t} : u \in InFlight(o)' <=> u \in InFlight(o)
    BY <1>1, <1>10, FlightOfThread
  <2> QED BY <2>1, <2>2, FlightFinite
<1>12. \A u \in Thread \ {t} : StillWaits(k', k, u)
  BY <1>4, NotGrantedStill DEF NotGranted
<1> QED BY <1>4, <1>6, <1>7, <1>9, <1>10, <1>11, <1>12, IpcStep

\* and one that changes none
LEMMA BlockIpc ==
    ASSUME NEW P, IpcInv(P), Taking \subseteq P, NEW t \in Thread, Running(t), t # Idle,
           pc[t] \in {"run", "took"}, k.lock = 0,
           NEW s \in Obj, NEW flag, NEW d \in Nat \cup {None},
           k' = ipc_list_suspend(k, s, t, flag, d), isr' = isr,
           pc' = [pc EXCEPT ![t] = "take"], arg' = [arg EXCEPT ![t] = s], valid' = valid
    PROVE  /\ IpcInv(P)' /\ TimedFor(k', k, t, d)
           /\ \A u \in Thread \ {t} : StillWaits(k', k, u)
           /\ \A u \in Thread, o \in Obj :
                 InWait(k', u, o) <=> (InWait(k, u, o) \/ (u = t /\ o = s))
           /\ \A o \in Obj : InFlight(o)' = InFlight(o) \ {t}
<1>1. SameButPrio(k, k)
  BY IpcFacts, SameButPrioNone
<1> QED BY <1>1, BlockFromIpc

-----------------------------------------------------------------------------
(* Sections that wake waiters. *)

\* a step from r to q that wakes threads, requests no switch and blocks nobody
Wakes(q, r) ==
    /\ KInv(q) /\ \A u \in Thread : q.stat[u] # "CLOSE"
    /\ q.lock = r.lock /\ SameCpu(q, r)
    /\ q.stat[q.cur] = "SUSPEND" => r.stat[r.cur] = "SUSPEND"
    /\ BlocksNone(q, r) /\ NoNewWaiter(q, r) /\ TimersKept(q, r)
    /\ \A u \in Thread, o \in Obj : InWait(q, u, o) => q.err[u] = r.err[u]

\* a change of priorities is one
LEMMA WakesPrio ==
    ASSUME NEW P, IpcInv(P), NEW r, SameButPrio(r, k)
    PROVE  Wakes(r, k)
<1>1. /\ KInv(r) /\ r.cur = k.cur /\ r.stat = k.stat /\ r.lock = k.lock /\ SameCpu(r, k)
      /\ r.wait = k.wait /\ r.err = k.err /\ SameClock(r, k)
  BY DEF SameButPrio, SameCpu
<1>2. BlocksNone(r, k)
  BY <1>1 DEF BlocksNone, Kept, InWait
<1>3. TimersKept(r, k)
  BY <1>1 DEF TimersKept, StillWaits, SameTimer, SameClock, InTimers, InWait
<1> QED BY <1>1, <1>2, <1>3, IpcFacts, BlocksNoneIsNoNewWaiter DEF Wakes

\* no change at all is one
LEMMA WakesNone ==
    ASSUME NEW P, IpcInv(P)
    PROVE  Wakes(k, k)
  BY IpcFacts, SameButPrioNone, WakesPrio

\* _ipc_list_resume grants the object to the first waiter, in a section that may have
\* changed priorities before
LEMMA WakesFirstFrom ==
    ASSUME NEW P, IpcInv(P), NEW s \in Obj, k.wait[s] # <<>>, NEW r, SameButPrio(r, k),
           k' = ipc_list_resume(r, s)
    PROVE  /\ Wakes(k', k) /\ Thins(k', r)
           /\ \E h \in Thread :
                 /\ h = Head(k.wait[s])
                 /\ pc[h] \in Taking /\ arg[h] = s /\ k.err[h] = "EOK" /\ k'.err[h] = "EOK"
                 /\ InWait(k, h, s) /\ \A o \in Obj : ~InWait(k', h, o)
                 /\ \A u \in Thread \ {h} : SameGrant(k', k, u)
<1>1. /\ KInv(k) /\ TakesObj /\ Reachable /\ WaitsInTake
      /\ \A u \in Thread : k.stat[u] # "CLOSE"
  BY IpcFacts
<1>2. /\ KInv(r) /\ r.cur = k.cur /\ r.stat = k.stat /\ r.lock = k.lock /\ SameCpu(r, k)
      /\ r.wait = k.wait /\ r.err = k.err /\ SameClock(r, k)
  BY DEF SameButPrio, SameCpu
<1> DEFINE h == Head(k.wait[s])
<1>3. k' = rt_thread_resume(r, h)
  BY <1>2 DEF ipc_list_resume
<1>4. h \in Thread /\ k.stat[h] = "SUSPEND" /\ InWait(k, h, s) /\ h = Head(k.wait[s])
  BY <1>1, WaitProps
<1> HIDE DEF h
<1>5. /\ KInv(k') /\ (\A u \in Thread : k'.stat[u] # "CLOSE")
      /\ k'.lock = r.lock /\ SameCpu(k', r)
      /\ k'.stat[k'.cur] = "SUSPEND" => r.stat[r.cur] = "SUSPEND"
      /\ BlocksNone(k', r)
  <2>1. Woken(k', r, h)
    BY <1>2, <1>3, <1>4, ResumeProps
  <2> QED BY <1>1, <1>2, <1>4, <2>1, WokenStep
<1>6. /\ k'.err = r.err /\ k'.tick = r.tick /\ Thins(k', r)
      /\ \A u \in Thread \ {h} : SameGrant(k', r, u)
      /\ \A o \in Obj : ~InWait(k', h, o)
  BY <1>2, <1>3, <1>4, ResumeGrants
<1>7. /\ k'.err = k.err /\ k'.tick = k.tick /\ BlocksNone(k', k)
      /\ \A u \in Thread \ {h} : SameGrant(k', k, u)
  BY <1>2, <1>5, <1>6
     DEF BlocksNone, Kept, SameGrant, SameTimer, SameClock, InWait, InTimers
<1>8. pc[h] \in Taking /\ k.err[h] = "EOK" /\ arg[h] = s
  <2>1. pc[h] \in Taking /\ k.err[h] = "EOK"
    BY <1>1, <1>4 DEF WaitsInTake
  <2>2. arg[h] \in Obj /\ InWait(k, h, arg[h])
    BY <1>1, <1>4, <2>1 DEF TakesObj, Reachable
  <2> QED BY <1>1, <1>4, <2>1, <2>2 DEF KInv, Placed
<1>9. TimersKept(k', k)
  <2>1. \A u \in Thread \ {h} : StillWaits(k', k, u)
    BY <1>7, NotGrantedStill DEF NotGranted
  <2> QED BY <1>6, <1>7, <2>1 DEF TimersKept, StillWaits
<1>10. Wakes(k', k)
  BY <1>2, <1>5, <1>7, <1>9, BlocksNoneIsNoNewWaiter DEF Wakes, SameCpu
<1> QED BY <1>4, <1>6, <1>7, <1>8, <1>10

\* _ipc_list_resume alone
LEMMA WakesFirst ==
    ASSUME NEW P, IpcInv(P), NEW s \in Obj, k.wait[s] # <<>>, k' = ipc_list_resume(k, s)
    PROVE  /\ Wakes(k', k)
           /\ \E h \in Thread :
                 /\ pc[h] \in Taking /\ arg[h] = s /\ k.err[h] = "EOK" /\ k'.err[h] = "EOK"
                 /\ InWait(k, h, s) /\ \A o \in Obj : ~InWait(k', h, o)
                 /\ \A u \in Thread \ {h} : SameGrant(k', k, u)
<1>1. SameButPrio(k, k)
  BY IpcFacts, SameButPrioNone
<1> QED BY <1>1, WakesFirstFrom

\* a turn of _ipc_list_resume_all grants nothing
LEMMA WakesWithError ==
    ASSUME NEW P, IpcInv(P), NEW s \in Obj, k.wait[s] # <<>>, k' = ResumeWithError(k, s)
    PROVE  /\ Wakes(k', k) /\ Thins(k', k)
           /\ \A u \in Thread : NotGranted(k', k, u)
           /\ \A u \in Thread : k.stat[u] = "SUSPEND" \/ k'.stat[u] = k.stat[u]
<1> DEFINE h == Head(k.wait[s])
           f == [k.err EXCEPT ![h] = "ERROR"]
           a == [k EXCEPT !.err = f]
<1>1. /\ CpuInv /\ KInv(k) /\ k \in KernelState /\ \A u \in Thread : k.stat[u] # "CLOSE"
  BY IpcFacts DEF KInv, WellFormed
<1>2. h \in Thread /\ k.stat[h] = "SUSPEND"
  BY <1>1, WaitProps
<1> HIDE DEF h
<1>3. k' = rt_thread_resume(a, h)
  BY <1>1, <1>2 DEF ResumeWithError, h, KernelState
<1>4. f \in [Thread -> Err]
  BY <1>1, <1>2 DEF KernelState, Err
<1> HIDE DEF f
<1>5. a \in KernelState /\ Agree(a, k) /\ a.lock = k.lock
  BY <1>1, <1>4 DEF KernelState, Agree
<1> HIDE DEF a
<1>6. /\ KInv(a) /\ (\A u \in Thread : a.stat[u] # "CLOSE") /\ BlocksNone(a, k)
      /\ SameCpu(a, k) /\ a.stat = k.stat /\ a.cur = k.cur
  BY <1>1, <1>5, AgreeStep DEF Agree
<1>7. Woken(k', a, h)
  BY <1>2, <1>3, <1>6, ResumeProps
<1>8. /\ KInv(k') /\ (\A u \in Thread : k'.stat[u] # "CLOSE") /\ BlocksNone(k', a)
      /\ k'.lock = a.lock /\ SameCpu(k', a)
      /\ k'.stat[k'.cur] = "SUSPEND" => a.stat[a.cur] = "SUSPEND"
  BY <1>2, <1>6, <1>7, WokenStep
<1>9. BlocksNone(k', k)
  BY <1>6, <1>8 DEF BlocksNone, Kept, Awake
<1>10. k'.tick = k.tick /\ Thins(k', k) /\ \A u \in Thread : NotGranted(k', k, u)
  BY <1>1, ResumeErrorErr
<1>11. \A u \in Thread, o \in Obj : InWait(k', u, o) => k'.err[u] = k.err[u]
  BY <1>10 DEF NotGranted, SameGrant, Failed
<1>12. TimersKept(k', k)
  BY <1>10, NotGrantedStill DEF TimersKept
<1>13. \A u \in Thread : k.stat[u] = "SUSPEND" \/ k'.stat[u] = k.stat[u]
  BY <1>2, <1>6, <1>7 DEF Woken
<1>14. Wakes(k', k)
  BY <1>5, <1>6, <1>8, <1>9, <1>10, <1>11, <1>12, BlocksNoneIsNoNewWaiter
     DEF Wakes, SameCpu
<1> QED BY <1>10, <1>13, <1>14

\* the running thread wakes waiters, and is in no take afterwards
LEMMA MoveIpc ==
    ASSUME NEW P, IpcInv(P), NEW t \in Thread, Running(t), pc[t] \notin BlockPc,
           Wakes(k', k), isr' = isr,
           NEW l \in P \ Taking, pc' = [pc EXCEPT ![t] = l],
           NEW x \in Obj \cup {None}, arg' = [arg EXCEPT ![t] = x],
           valid' \in [Obj -> BOOLEAN]
    PROVE  IpcInv(P)'
<1>1. /\ CpuInv /\ pc \in [Thread -> P] /\ arg \in [Thread -> Obj \cup {None}]
      /\ isr \in Seq(Frame) /\ k.lock \in Nat
  BY IpcFacts
<1>2. k.cur = t /\ k.sw = None /\ (k.lock = 0 => k.stat[t] = "RUNNING")
  BY <1>1, CallerProps
<1>3. pc'[t] = l /\ \A u \in Thread \ {t} : pc'[u] = pc[u] /\ arg'[u] = arg[u]
  BY <1>1
<1>4. IpcTypes(P)'
  BY <1>1 DEF IpcTypes
<1>5. CpuInv' /\ LockedOut'
  BY <1>1, <1>2, <1>3 DEF CpuInv, Wakes, SameCpu, LockedOut
<1>6. \A u \in Thread \ {t} : KeptInPlace(u)
  BY <1>3 DEF KeptInPlace, Wakes, BlocksNone
<1>7. Outside(t)
  <2>1. \A o \in Obj : ~InWait(k, t, o)
    BY RunnerWaitsNot DEF BlockPc
  <2> QED BY <1>3, <2>1 DEF Outside, Wakes, NoNewWaiter
<1> QED BY <1>4, <1>5, <1>6, <1>7, IpcStep

\* a handler wakes waiters
LEMMA DevIpc ==
    ASSUME NEW P, IpcInv(P), Wakes(k', k), isr' \in Seq(Frame), pc' = pc, arg' = arg,
           valid' = valid
    PROVE  IpcInv(P)'
<1>1. IpcTypes(P) /\ LockedOut /\ k.lock \in Nat
  BY IpcFacts DEF IpcInv
<1>2. CpuInv' /\ LockedOut' /\ IpcTypes(P)'
  BY <1>1, IpcFacts DEF CpuInv, Wakes, SameCpu, LockedOut, IpcTypes
<1>3. \A u \in Thread : KeptInPlace(u)
  BY DEF KeptInPlace, Wakes, BlocksNone
<1> QED BY <1>2, <1>3, IpcStep

\* the invariant holds at the start
LEMMA IpcInitInv ==
    ASSUME IpcInit, NEW P, "run" \in P
    PROVE  IpcInv(P) /\ \A o \in Obj : k.wait[o] = <<>> /\ InFlight(o) = {}
<1>1. /\ k = StartState /\ pc = [t \in Thread |-> "run"] /\ arg = [t \in Thread |-> None]
      /\ valid = [o \in Obj |-> TRUE]
  BY DEF IpcInit, CpuInit
<1>2. CpuInv
  BY CpuInitInv DEF IpcInit
<1>3. k.wait = [o \in Obj |-> <<>>] /\ k.cur \in Thread
  BY <1>1, MainAssumption DEF StartState
<1>4. WaitsInTake
  BY <1>3 DEF WaitsInTake, InWait, Range
<1> QED BY <1>1, <1>2, <1>3, <1>4
        DEF IpcInv, IpcTypes, TakesObj, Reachable, LockedOut, Taking, InFlight

\* the invariant says what the properties of the modules say
LEMMA IpcMeaning ==
    ASSUME NEW P, IpcInv(P)
    PROVE  /\ k \in KernelState /\ isr \in Seq(Frame) /\ WaiterIsReachable
           /\ ListsMatchStat /\ ReadyIsQueued /\ GroupMatchesQueues
           /\ SwitchCoherent /\ OneRunning /\ IdleRunnable /\ TimersOfSuspended
<1>1. KInv(k) /\ isr \in Seq(Frame)
  BY IpcFacts
<1>2. WaiterIsReachable
  BY DEF IpcInv, Reachable, WaiterIsReachable, InWait, Taking
<1> QED BY <1>1, <1>2, KInvMeaning
        DEF ListsMatchStat, ReadyIsQueued, GroupMatchesQueues, SwitchCoherent,
            OneRunning, IdleRunnable, TimersOfSuspended
=============================================================================
