---------------------------- MODULE MutexProofs ----------------------------
(***************************************************************************)
(* The safety of the kernel with mutexes.  Ownership is proved for any     *)
(* number of threads, priorities and mutexes and any application;          *)
(* priority inheritance as long as no thread is involved with two mutexes  *)
(* at once; prompt hand-over for one mutex.                                *)
(***************************************************************************)
EXTENDS Mutex, IpcProofs

MutexTypes ==
    /\ value \in [Obj -> 0 .. 1]
    /\ owner \in [Obj -> Thread \cup {None}]
    /\ hold \in [Obj -> 0 .. HoldMax]
    /\ orig \in [Obj -> Prio \cup {NoPrio}]
    /\ mine \in [Thread -> [Obj -> 0 .. HoldMax]]

\* a thread that detaches a mutex has it in arg
HasArg == \A t \in Thread : pc[t] \in {"detach", "resume", "object"} => arg[t] \in Obj

\* a mutex has an owner, who is not the idle thread, exactly while it is taken
Owned ==
    \A m \in Obj :
        IF owner[m] = None
        THEN value[m] = 1 /\ hold[m] = 0
        ELSE /\ value[m] = 0 /\ hold[m] \in 1 .. HoldMax
             /\ orig[m] \in Prio /\ owner[m] # Idle

\* who waits for a mutex waits for another thread
NoSelfWait == \A m \in Obj, t \in Thread : InWait(k, t, m) => owner[m] \in Thread \ {t}

\* the inductive invariant of ownership
MutexInv ==
    IpcInv(IpcPc) /\ MutexTypes /\ HasArg /\ Owned /\ NoSelfWait /\ HoldsAgree

\* what the invariant says of one thread and one mutex
Agrees(t, m) ==
    mine[t][m] + (IF t \in InFlight(m) THEN 1 ELSE 0) = IF owner[m] = t THEN hold[m] ELSE 0

LEMMA HoldsAgreeEach == HoldsAgree <=> \A t \in Thread, m \in Obj : Agrees(t, m)
  BY Zenon DEF HoldsAgree, Agrees

LEMMA HoldsAgreeEachNext == HoldsAgree' <=> \A t \in Thread, m \in Obj : Agrees(t, m)'
  BY Zenon DEF HoldsAgree, Agrees

\* the count of one thread and one mutex changes
LEMMA MineProps ==
    ASSUME mine \in [Thread -> [Obj -> 0 .. HoldMax]], NEW t \in Thread, NEW m \in Obj,
           NEW n \in 0 .. HoldMax, NEW q, q = [mine EXCEPT ![t][m] = n]
    PROVE  /\ q \in [Thread -> [Obj -> 0 .. HoldMax]]
           /\ q[t][m] = n
           /\ \A u \in Thread, o \in Obj : u # t \/ o # m => q[u][o] = mine[u][o]
<1> DEFINE g == [mine[t] EXCEPT ![m] = n]
<1>1. g \in [Obj -> 0 .. HoldMax] /\ g[m] = n /\ \A o \in Obj \ {m} : g[o] = mine[t][o]
  OBVIOUS
<1>2. q = [mine EXCEPT ![t] = g]
  OBVIOUS
<1> HIDE DEF g
<1> QED BY <1>1, <1>2

\* the facts of the invariant about one mutex
LEMMA MutexFacts ==
    ASSUME MutexInv
    PROVE  /\ HoldMax \in Nat /\ HoldMax # 0
           /\ \A m \in Obj :
                 /\ value[m] \in 0 .. 1 /\ owner[m] \in Thread \cup {None}
                 /\ hold[m] \in 0 .. HoldMax
                 /\ owner[m] = None => value[m] = 1 /\ hold[m] = 0
                 /\ owner[m] # None => /\ value[m] = 0 /\ hold[m] # 0
                                       /\ orig[m] \in Prio /\ owner[m] # Idle
           /\ \A t \in Thread, m \in Obj :
                 /\ mine[t][m] \in 0 .. HoldMax /\ Agrees(t, m)
                 /\ t \in InFlight(m) => owner[m] = t
                 /\ InWait(k, t, m) => owner[m] \in Thread /\ owner[m] # t
<1>1. HoldMax \in Nat /\ HoldMax # 0
  BY HoldAssumption
<1>2. ASSUME NEW m \in Obj
      PROVE  /\ value[m] \in 0 .. 1 /\ owner[m] \in Thread \cup {None}
             /\ hold[m] \in 0 .. HoldMax
             /\ owner[m] = None => value[m] = 1 /\ hold[m] = 0
             /\ owner[m] # None => /\ value[m] = 0 /\ hold[m] # 0
                                   /\ orig[m] \in Prio /\ owner[m] # Idle
  BY <1>1 DEF MutexInv, MutexTypes, Owned
<1>3. ASSUME NEW t \in Thread, NEW m \in Obj
      PROVE  /\ mine[t][m] \in 0 .. HoldMax /\ Agrees(t, m)
             /\ t \in InFlight(m) => owner[m] = t
             /\ InWait(k, t, m) => owner[m] \in Thread /\ owner[m] # t
  <2>1. mine[t][m] \in 0 .. HoldMax
    BY DEF MutexInv, MutexTypes
  <2>2. Agrees(t, m)
    BY HoldsAgreeEach DEF MutexInv
  <2>3. t \in InFlight(m) => owner[m] = t
    BY <1>1, <2>1, <2>2 DEF Agrees
  <2>4. InWait(k, t, m) => owner[m] \in Thread /\ owner[m] # t
    BY DEF MutexInv, NoSelfWait
  <2> QED BY <2>1, <2>2, <2>3, <2>4
<1> QED BY <1>1, <1>2, <1>3

\* a step that touches no mutex
LEMMA MutexKept ==
    ASSUME MutexInv, IpcInv(IpcPc)', HasArg', NoNewWaiter(k', k),
           \A o \in Obj : InFlight(o)' = InFlight(o),
           UNCHANGED <<value, owner, hold, orig, mine>>
    PROVE  MutexInv'
<1>1. value' = value /\ owner' = owner /\ hold' = hold /\ orig' = orig /\ mine' = mine
  OBVIOUS
<1>2. MutexTypes' /\ Owned'
  BY <1>1 DEF MutexInv, MutexTypes, Owned
<1>3. NoSelfWait'
  BY <1>1 DEF MutexInv, NoSelfWait, NoNewWaiter, InWait
<1>4. HoldsAgree'
  BY <1>1 DEF MutexInv, HoldsAgree
<1> QED BY <1>2, <1>3, <1>4 DEF MutexInv

-----------------------------------------------------------------------------
(* The steps of the kernel. *)

\* handlers and PendSV keep the invariant
LEMMA CpuStepMutex ==
    ASSUME MutexInv, CpuStep(MaskedPc), UNCHANGED <<ipcVars, mutexVars, mine>>
    PROVE  MutexInv'
<1>1. arg' = arg /\ valid' = valid /\ UNCHANGED <<value, owner, hold, orig, mine>>
  BY DEF ipcVars, mutexVars
<1>2. /\ IpcInv(IpcPc)' /\ pc' = pc /\ NoNewWaiter(k', k)
      /\ \A o \in Obj : InFlight(o)' = InFlight(o)
  BY <1>1, CpuStepIpc DEF MutexInv
<1>3. HasArg'
  BY <1>1, <1>2 DEF MutexInv, HasArg
<1> QED BY <1>1, <1>2, <1>3, MutexKept

\* so do the services of the kernel that are not mutexes
LEMMA CpuServiceMutex ==
    ASSUME MutexInv, NEW t \in Thread, CpuCall(t) \/ CpuFinish(t),
           UNCHANGED <<ipcVars, mutexVars, mine>>
    PROVE  MutexInv' /\ \A o \in Obj : InFlight(o)' = InFlight(o)
<1>1. arg' = arg /\ valid' = valid /\ UNCHANGED <<value, owner, hold, orig, mine>>
  BY DEF ipcVars, mutexVars
<1>2. /\ IpcInv(IpcPc)' /\ NoNewWaiter(k', k) /\ \A o \in Obj : InFlight(o)' = InFlight(o)
      /\ \E l \in CpuPc : pc' = [pc EXCEPT ![t] = l]
  BY <1>1, ServiceIpc DEF MutexInv, IpcPc
<1>3. HasArg'
  BY <1>1, <1>2, IpcFacts DEF MutexInv, HasArg, CpuPc
<1> QED BY <1>1, <1>2, <1>3, MutexKept

\* and the rt_schedule inside rt_mutex_take
LEMMA TakeScheduleMutex ==
    ASSUME MutexInv, NEW t \in Thread, ThreadSchedule(t, "take", "took"),
           UNCHANGED <<ipcVars, mutexVars, mine>>
    PROVE  MutexInv'
<1>1. arg' = arg /\ valid' = valid /\ UNCHANGED <<value, owner, hold, orig, mine>>
  BY DEF ipcVars, mutexVars
<1>2. /\ IpcInv(IpcPc)' /\ NoNewWaiter(k', k) /\ \A o \in Obj : InFlight(o)' = InFlight(o)
      /\ pc' = [pc EXCEPT ![t] = "took"]
  BY <1>1, TakeScheduleIpc DEF MutexInv, IpcPc, Taking
<1>3. HasArg'
  BY <1>1, <1>2, IpcFacts DEF MutexInv, HasArg
<1> QED BY <1>1, <1>2, <1>3, MutexKept

-----------------------------------------------------------------------------
(* The calls that neither block nor wake. *)

\* the thread that runs changes its error at most
Calm(t) ==
    /\ Running(t) /\ pc[t] = "run"
    /\ k' = k \/ \E e \in Err : k' = [k EXCEPT !.err[t] = e]
    /\ isr' = isr /\ pc' = pc /\ arg' = arg /\ valid' = valid

LEMMA CalmProps ==
    ASSUME MutexInv, NEW t \in Thread, Calm(t)
    PROVE  /\ IpcInv(IpcPc)' /\ HasArg'
           /\ k'.wait = k.wait /\ k'.lock = k.lock /\ SameRun(k', k)
           /\ \A u, o : InWait(k', u, o) <=> InWait(k, u, o)
           /\ \A o \in Obj : InFlight(o)' = InFlight(o)
<1>1. /\ IpcInv(IpcPc) /\ CpuInv /\ KInv(k) /\ k \in KernelState /\ isr \in Seq(Frame)
      /\ pc \in [Thread -> IpcPc] /\ arg \in [Thread -> Obj \cup {None}] /\ Reachable
      /\ valid \in [Obj -> BOOLEAN] /\ \A u \in Thread : k.stat[u] # "CLOSE"
  BY IpcFacts DEF MutexInv, KInv, WellFormed
<1>2. /\ k' \in KernelState /\ Agree(k', k) /\ k'.lock = k.lock
      /\ SameClock(k', k) /\ k'.wait = k.wait /\ SameRun(k', k)
      /\ \A u \in Thread \ {t} : k'.err[u] = k.err[u]
  <2>1. CASE k' = k
    BY <1>1, <2>1 DEF Agree, SameClock, SameRun
  <2>2. ASSUME NEW e \in Err, k' = [k EXCEPT !.err[t] = e]
        PROVE  /\ k' \in KernelState /\ Agree(k', k) /\ k'.lock = k.lock
               /\ SameClock(k', k) /\ k'.wait = k.wait /\ SameRun(k', k)
               /\ \A u \in Thread \ {t} : k'.err[u] = k.err[u]
    BY <1>1, <2>2 DEF KernelState, Agree, SameClock, SameRun
  <2> QED BY <2>1, <2>2 DEF Calm
<1>3. \A u, o : InWait(k', u, o) <=> InWait(k, u, o)
  BY <1>2 DEF InWait
<1>4. \A o \in Obj : ~InWait(k, t, o)
  BY <1>1, RunnerWaitsNot DEF Calm
<1>5. /\ KInv(k') /\ (\A u \in Thread : k'.stat[u] # "CLOSE") /\ BlocksNone(k', k)
      /\ SameCpu(k', k) /\ k'.stat[k'.cur] = k.stat[k.cur]
  BY <1>1, <1>2, AgreeStep
<1>6. TimersKept(k', k)
  BY <1>2, <1>3 DEF TimersKept, StillWaits, SameTimer, SameClock, InTimers
<1>7. Wakes(k', k)
  BY <1>2, <1>3, <1>4, <1>5, <1>6, BlocksNoneIsNoNewWaiter DEF Wakes
<1>8. IpcInv(IpcPc)'
  <2>1. /\ "run" \in IpcPc \ Taking /\ pc[t] \notin BlockPc
        /\ pc' = [pc EXCEPT ![t] = "run"] /\ arg' = [arg EXCEPT ![t] = arg[t]]
        /\ arg[t] \in Obj \cup {None}
    BY <1>1 DEF Calm, IpcPc, CpuPc, Taking, BlockPc
  <2> QED BY <1>1, <1>7, <2>1, MoveIpc DEF Calm
<1>9. \A u \in Thread : StaysInFlight(u)
  <2>1. \A u \in Thread \ {t} : SameGrant(k', k, u)
    BY <1>2, <1>3 DEF SameGrant, SameTimer, SameClock, InTimers
  <2> QED BY <2>1 DEF StaysInFlight, NotGranted, Calm, Taking
<1>10. HasArg'
  BY DEF MutexInv, HasArg, Calm
<1> QED BY <1>1, <1>2, <1>3, <1>8, <1>9, <1>10, FlightKept

\* who is in flight, and what the mutex records of its owner, is as before
LEMMA AgreesKept ==
    ASSUME MutexInv, NEW u \in Thread, NEW o \in Obj, mine'[u][o] = mine[u][o],
           u \in InFlight(o)' <=> u \in InFlight(o),
           owner'[o] = u <=> owner[o] = u, owner'[o] = u => hold'[o] = hold[o]
    PROVE  Agrees(u, o)'
<1>1. Agrees(u, o)
  BY MutexFacts
<1> QED BY <1>1 DEF Agrees

\* a thread in application code is granted nothing, so its count is what it holds
LEMMA CountProps ==
    ASSUME MutexInv, NEW t \in Thread, pc[t] \notin Taking
    PROVE  \A m \in Obj : /\ t \notin InFlight(m)
                          /\ mine[t][m] = IF owner[m] = t THEN hold[m] ELSE 0
<1> SUFFICES ASSUME NEW m \in Obj
             PROVE  /\ t \notin InFlight(m)
                    /\ mine[t][m] = IF owner[m] = t THEN hold[m] ELSE 0
  OBVIOUS
<1>1. t \notin InFlight(m)
  BY InFlightDef
<1>2. Agrees(t, m) /\ mine[t][m] \in 0 .. HoldMax /\ HoldMax \in Nat
  BY MutexFacts
<1> QED BY <1>1, <1>2 DEF Agrees

\* a call that records a new hold of the caller
LEMMA CalmMutex ==
    ASSUME MutexInv, NEW t \in Thread, NEW m \in Obj, Calm(t),
           NEW n \in 0 .. HoldMax, mine' = [mine EXCEPT ![t][m] = n],
           hold' = [hold EXCEPT ![m] = n], owner' = [owner EXCEPT ![m] = t],
           MutexTypes', Owned', owner[m] = t \/ owner[m] = None
    PROVE  MutexInv'
<1>1. /\ IpcInv(IpcPc)' /\ HasArg' /\ \A u, o : InWait(k', u, o) <=> InWait(k, u, o)
      /\ \A o \in Obj : InFlight(o)' = InFlight(o)
  BY CalmProps
<1>2. /\ owner \in [Obj -> Thread \cup {None}] /\ hold \in [Obj -> 0 .. HoldMax]
      /\ mine \in [Thread -> [Obj -> 0 .. HoldMax]]
  BY DEF MutexInv, MutexTypes
<1>3. mine'[t][m] = n /\ \A u \in Thread, o \in Obj : u # t \/ o # m => mine'[u][o] = mine[u][o]
  BY <1>2, MineProps
<1>4. owner'[m] = t /\ hold'[m] = n
      /\ \A o \in Obj \ {m} : owner'[o] = owner[o] /\ hold'[o] = hold[o]
  BY <1>2
<1>5. t \notin InFlight(m)
  BY CountProps DEF Calm, Taking
<1>6. n \in Int
  BY HoldAssumption
<1>7. ASSUME NEW u \in Thread, NEW o \in Obj PROVE Agrees(u, o)'
  <2>1. CASE u = t /\ o = m
    BY <1>1, <1>3, <1>4, <1>5, <1>6, <2>1 DEF Agrees
  <2>2. CASE u # t \/ o # m
    <3>1. (owner'[o] = u <=> owner[o] = u) /\ (owner'[o] = u => hold'[o] = hold[o])
      BY <1>4, <2>2, ThreadAssumption
    <3> QED BY <1>1, <1>3, <2>2, <3>1, AgreesKept
  <2> QED BY <2>1, <2>2
<1>8. HoldsAgree'
  BY <1>7, HoldsAgreeEachNext
<1>9. NoSelfWait'
  <2>1. ASSUME NEW o \in Obj, NEW u \in Thread, InWait(k', u, o)
        PROVE  owner'[o] \in Thread \ {u}
    <3>1. InWait(k, u, o) /\ owner[o] \in Thread /\ owner[o] # u
      BY <1>1, <2>1, MutexFacts
    <3> QED BY <1>4, <3>1, ThreadAssumption
  <2> QED BY <2>1 DEF NoSelfWait, InWait
<1> QED BY <1>1, <1>8, <1>9 DEF MutexInv

\* a take by the owner, of a free mutex, or refused
LEMMA TakeNowMutex ==
    ASSUME MutexInv, NEW t \in Thread, NEW m \in Obj,
           TakeAgain(t, m) \/ TakeFree(t, m) \/ TakeFails(t, m)
    PROVE  MutexInv' /\ Calm(t) /\ t # Idle
<1>1. /\ value \in [Obj -> 0 .. 1] /\ owner \in [Obj -> Thread \cup {None}]
      /\ hold \in [Obj -> 0 .. HoldMax] /\ orig \in [Obj -> Prio \cup {NoPrio}]
      /\ mine \in [Thread -> [Obj -> 0 .. HoldMax]] /\ Owned /\ HoldMax \in Nat
      /\ k \in KernelState
  BY HoldAssumption, IpcFacts DEF MutexInv, MutexTypes, KInv, WellFormed
<1>2. TakeCall(t, m) /\ isr' = isr /\ pc' = pc /\ arg' = arg /\ valid' = valid
  BY DEF TakeAgain, TakeFree, TakeFails, ipcVars
<1>3. Running(t) /\ pc[t] = "run" /\ App[t] # {}
  BY <1>2 DEF TakeCall, Calls, At
<1>4. t # Idle
  BY <1>3, AppAssumption
<1>5. Calm(t)
  <2>1. \E e \in Err : k' = [k EXCEPT !.err[t] = e]
    BY DEF TakeAgain, TakeFree, TakeFails, Cleared, Err
  <2> QED BY <1>2, <1>3, <2>1 DEF Calm
<1>6. mine[t][m] = IF owner[m] = t THEN hold[m] ELSE 0
  BY <1>3, CountProps DEF Taking
<1>7. /\ owner[m] = None => value[m] = 1 /\ hold[m] = 0
      /\ owner[m] # None => value[m] = 0 /\ hold[m] # 0 /\ orig[m] \in Prio
      /\ hold[m] \in Nat /\ hold[m] <= HoldMax /\ owner[m] \in Thread \cup {None}
  BY <1>1, MutexFacts
<1>8. CASE TakeAgain(t, m) /\ hold[m] < HoldMax
  <2> DEFINE n == hold[m] + 1
  <2>1. n \in 0 .. HoldMax /\ n \in 1 .. HoldMax
    BY <1>1, <1>7, <1>8
  <2>2. /\ owner[m] = t /\ hold' = [hold EXCEPT ![m] = n] /\ owner' = owner
        /\ value' = value /\ orig' = orig
    BY <1>8 DEF TakeAgain
  <2>3. mine[t][m] = hold[m] /\ mine' = [mine EXCEPT ![t][m] = n]
    BY <1>6, <1>8, <2>2 DEF TakeAgain
  <2>4. owner' = [owner EXCEPT ![m] = t]
    BY <1>1, <2>2
  <2> HIDE DEF n
  <2>5. mine' \in [Thread -> [Obj -> 0 .. HoldMax]]
    BY <1>1, <2>1, <2>3, MineProps
  <2>6. MutexTypes'
    BY <1>1, <2>1, <2>2, <2>5 DEF MutexTypes
  <2>7. Owned'
    BY <1>1, <2>1, <2>2, ThreadAssumption DEF Owned
  <2> QED BY <1>4, <1>5, <2>1, <2>2, <2>3, <2>4, <2>6, <2>7, CalmMutex
<1>9. CASE TakeFree(t, m)
  <2>1. /\ value[m] > 0 /\ value' = [value EXCEPT ![m] = value[m] - 1]
        /\ owner' = [owner EXCEPT ![m] = t] /\ orig' = [orig EXCEPT ![m] = k.prio[t]]
        /\ hold' = [hold EXCEPT ![m] = hold[m] + 1]
        /\ mine' = [mine EXCEPT ![t][m] = mine[t][m] + 1]
    BY <1>9 DEF TakeFree
  <2>2. owner[m] = None /\ value[m] = 1 /\ hold[m] = 0 /\ mine[t][m] = 0
    BY <1>6, <1>7, <2>1, ThreadAssumption
  <2>3. /\ hold' = [hold EXCEPT ![m] = 1] /\ mine' = [mine EXCEPT ![t][m] = 1]
        /\ value' = [value EXCEPT ![m] = 0]
    BY <2>1, <2>2
  <2>4. 1 \in 1 .. HoldMax /\ 1 \in 0 .. HoldMax /\ k.prio[t] \in Prio
    BY <1>1, HoldAssumption DEF KernelState
  <2>5. mine' \in [Thread -> [Obj -> 0 .. HoldMax]]
    BY <1>1, <2>3, <2>4, MineProps
  <2>6. MutexTypes'
    BY <1>1, <2>1, <2>3, <2>4, <2>5 DEF MutexTypes
  <2>7. Owned'
    BY <1>1, <1>4, <2>1, <2>3, <2>4, ThreadAssumption DEF Owned
  <2> QED BY <1>4, <1>5, <2>1, <2>2, <2>3, <2>4, <2>6, <2>7, CalmMutex
<1>10. CASE TakeFails(t, m) \/ (TakeAgain(t, m) /\ ~(hold[m] < HoldMax))
  <2>1. UNCHANGED <<value, owner, hold, orig, mine>>
    BY <1>10 DEF TakeFails, TakeAgain, mutexVars
  <2>2. IpcInv(IpcPc)' /\ HasArg' /\ NoNewWaiter(k', k) /\ \A o \in Obj : InFlight(o)' = InFlight(o)
    BY <1>5, CalmProps DEF NoNewWaiter
  <2> QED BY <1>4, <1>5, <2>1, <2>2, MutexKept
<1> QED BY <1>8, <1>9, <1>10

\* a release that is refused, or gives one of several holds back
LEMMA ReleaseNowMutex ==
    ASSUME MutexInv, NEW t \in Thread, NEW m \in Obj,
           ReleaseRefused(t, m) \/ ReleaseHold(t, m)
    PROVE  MutexInv' /\ Calm(t)
<1>1. /\ owner \in [Obj -> Thread \cup {None}] /\ hold \in [Obj -> 0 .. HoldMax]
      /\ value \in [Obj -> 0 .. 1] /\ orig \in [Obj -> Prio \cup {NoPrio}]
      /\ mine \in [Thread -> [Obj -> 0 .. HoldMax]] /\ Owned /\ HoldMax \in Nat
  BY HoldAssumption DEF MutexInv, MutexTypes
<1>2. ReleaseCall(t, m) /\ isr' = isr /\ pc' = pc /\ arg' = arg /\ valid' = valid
  BY DEF ReleaseRefused, ReleaseHold, ipcVars, kernelVars
<1>3. Running(t) /\ pc[t] = "run"
  BY <1>2 DEF ReleaseCall, Calls, At
<1>4. Calm(t)
  <2>1. k' = k \/ \E e \in Err : k' = [k EXCEPT !.err[t] = e]
    BY DEF ReleaseRefused, ReleaseHold, kernelVars, Err
  <2> QED BY <1>2, <1>3, <2>1 DEF Calm
<1>5. CASE ReleaseRefused(t, m)
  <2>1. UNCHANGED <<value, owner, hold, orig, mine>>
    BY <1>5 DEF ReleaseRefused, mutexVars
  <2>2. IpcInv(IpcPc)' /\ HasArg' /\ NoNewWaiter(k', k) /\ \A o \in Obj : InFlight(o)' = InFlight(o)
    BY <1>4, CalmProps DEF NoNewWaiter
  <2> QED BY <1>4, <2>1, <2>2, MutexKept
<1>6. CASE ReleaseHold(t, m)
  <2> DEFINE n == hold[m] - 1
  <2>1. /\ owner[m] = t /\ hold[m] > 1 /\ hold' = [hold EXCEPT ![m] = n]
        /\ mine' = [mine EXCEPT ![t][m] = mine[t][m] - 1]
        /\ value' = value /\ owner' = owner /\ orig' = orig
    BY <1>6 DEF ReleaseHold
  <2>2. mine[t][m] = hold[m]
    BY <1>3, <2>1, CountProps DEF Taking
  <2>3. mine' = [mine EXCEPT ![t][m] = n]
    BY <2>1, <2>2
  <2>4. n \in 0 .. HoldMax /\ n \in 1 .. HoldMax
    BY <1>1, <2>1
  <2>5. owner' = [owner EXCEPT ![m] = t]
    BY <1>1, <2>1
  <2> HIDE DEF n
  <2>6. mine' \in [Thread -> [Obj -> 0 .. HoldMax]]
    BY <1>1, <2>3, <2>4, MineProps
  <2>7. MutexTypes'
    BY <1>1, <2>1, <2>4, <2>6 DEF MutexTypes
  <2>8. Owned'
    BY <1>1, <2>1, <2>4, ThreadAssumption DEF Owned
  <2> QED BY <1>4, <2>1, <2>3, <2>4, <2>5, <2>7, <2>8, CalmMutex
<1> QED BY <1>5, <1>6

-----------------------------------------------------------------------------
(* The calls that block, wake or change priorities. *)

\* the owner of m runs at the priority of t if that is more urgent
Lent(t, m) ==
    IF k.prio[t] < k.prio[owner[m]] THEN ChangePriority(k, owner[m], k.prio[t]) ELSE k

LEMMA LentProps ==
    ASSUME MutexInv, NEW t \in Thread, NEW m \in Obj, owner[m] # None, NEW r, r = Lent(t, m)
    PROVE  /\ SameButPrio(r, k)
           /\ r.prio = [k.prio EXCEPT ![owner[m]] = IF k.prio[t] < @ THEN k.prio[t] ELSE @]
<1>1. KInv(k) /\ k.prio \in [Thread -> Prio] /\ owner[m] \in Thread /\ owner[m] # Idle
  BY IpcFacts, MutexFacts DEF MutexInv, KInv, WellFormed, KernelState
<1>2. CASE k.prio[t] < k.prio[owner[m]]
  <2>1. r = ChangePriority(k, owner[m], k.prio[t]) /\ k.prio[t] \in Prio
    BY <1>1, <1>2 DEF Lent
  <2> QED BY <1>1, <1>2, <2>1, ChangePriorityProps
<1>3. CASE ~(k.prio[t] < k.prio[owner[m]])
  BY <1>1, <1>3, SameButPrioNone DEF Lent
<1> QED BY <1>2, <1>3

\* the owner of m is back at the priority it had when it took m
LEMMA RestoredProps ==
    ASSUME MutexInv, NEW m \in Obj, owner[m] # None, NEW r, r = Restored(m)
    PROVE  SameButPrio(r, k) /\ r.prio = [k.prio EXCEPT ![owner[m]] = orig[m]]
<1>1. /\ KInv(k) /\ k.prio \in [Thread -> Prio] /\ owner[m] \in Thread /\ owner[m] # Idle
      /\ orig[m] \in Prio
  BY IpcFacts, MutexFacts DEF MutexInv, KInv, WellFormed, KernelState
<1>2. CASE orig[m] # k.prio[owner[m]]
  BY <1>1, <1>2, ChangePriorityProps DEF Restored
<1>3. CASE orig[m] = k.prio[owner[m]]
  BY <1>1, <1>3, SameButPrioNone DEF Restored
<1> QED BY <1>2, <1>3

\* what a take that blocks is made of
LEMMA BlockParts ==
    ASSUME MutexInv, NEW t \in Thread, NEW m \in Obj, NEW d \in Timeouts, TakeBlock(t, m, d)
    PROVE  /\ Running(t) /\ pc[t] = "run" /\ t # Idle /\ k.lock = 0
           /\ owner[m] \in Thread /\ owner[m] # t
           /\ k' = ipc_list_suspend(Lent(t, m), m, t, "PRIO", d) /\ SameButPrio(Lent(t, m), k)
           /\ isr' = isr /\ pc' = [pc EXCEPT ![t] = "take"] /\ arg' = [arg EXCEPT ![t] = m]
           /\ UNCHANGED <<valid, value, owner, hold, orig, mine>>
           /\ IpcInv(IpcPc)' /\ k'.cur = t
           /\ \A u \in Thread, o \in Obj :
                 InWait(k', u, o) <=> (InWait(k, u, o) \/ (u = t /\ o = m))
           /\ \A o \in Obj : InFlight(o)' = InFlight(o)
<1>1. /\ Running(t) /\ pc[t] = "run" /\ App[t] # {} /\ k.lock = 0
      /\ owner[m] # t /\ value[m] = 0 /\ isr' = isr
      /\ pc' = [pc EXCEPT ![t] = "take"] /\ arg' = [arg EXCEPT ![t] = m]
      /\ UNCHANGED <<valid, value, owner, hold, orig, mine>>
  BY DEF TakeBlock, TakeCall, Calls, At, SetArg, Goto, mutexVars
<1>2. k' = ipc_list_suspend(Lent(t, m), m, t, "PRIO", d)
  BY DEF TakeBlock, Lent
<1>3. t # Idle /\ d \in Nat \cup {None}
  BY <1>1, AppAssumption, TimeoutAssumption
<1>4. owner[m] # None /\ owner[m] \in Thread
  BY <1>1, MutexFacts
<1> DEFINE r == Lent(t, m)
<1>5. SameButPrio(r, k)
  BY <1>4, LentProps
<1> HIDE DEF r
<1>6. /\ IpcInv(IpcPc)' /\ k'.cur = t
      /\ \A u \in Thread, o \in Obj : InWait(k', u, o) <=> (InWait(k, u, o) \/ (u = t /\ o = m))
      /\ \A o \in Obj : InFlight(o)' = InFlight(o) \ {t}
  <2>1. k' = ipc_list_suspend(r, m, t, "PRIO", d)
    BY <1>2 DEF r
  <2>2. IpcInv(IpcPc) /\ Taking \subseteq IpcPc
    BY DEF MutexInv, IpcPc, Taking
  <2>3. valid' = valid /\ pc[t] \in {"run", "took"}
    BY <1>1
  <2> QED BY <1>1, <1>3, <1>5, <2>1, <2>2, <2>3, BlockFromIpc
<1>7. \A o \in Obj : InFlight(o)' = InFlight(o)
  BY <1>1, <1>6 DEF InFlight
<1> QED BY <1>1, <1>2, <1>3, <1>4, <1>5, <1>6, <1>7 DEF r

LEMMA TakeBlockMutex ==
    ASSUME MutexInv, NEW t \in Thread, NEW m \in Obj, NEW d \in Timeouts, TakeBlock(t, m, d)
    PROVE  MutexInv'
<1>1. /\ owner[m] \in Thread /\ owner[m] # t
      /\ pc' = [pc EXCEPT ![t] = "take"] /\ arg' = [arg EXCEPT ![t] = m]
      /\ UNCHANGED <<value, owner, hold, orig, mine>> /\ IpcInv(IpcPc)'
      /\ \A u \in Thread, o \in Obj : InWait(k', u, o) <=> (InWait(k, u, o) \/ (u = t /\ o = m))
      /\ \A o \in Obj : InFlight(o)' = InFlight(o)
  BY BlockParts
<1>2. HasArg'
  BY <1>1, IpcFacts DEF MutexInv, HasArg
<1>3. NoSelfWait'
  <2>1. ASSUME NEW o \in Obj, NEW u \in Thread, InWait(k', u, o)
        PROVE  owner'[o] \in Thread \ {u}
    BY <1>1, <2>1, MutexFacts
  <2> QED BY <2>1 DEF NoSelfWait, InWait
<1>4. HoldsAgree'
  BY <1>1 DEF MutexInv, HoldsAgree
<1>5. MutexTypes' /\ Owned'
  BY <1>1 DEF MutexInv, MutexTypes, Owned
<1> QED BY <1>1, <1>2, <1>3, <1>4, <1>5 DEF MutexInv

\* the return of a take: what was granted becomes a hold of the thread
LEMMA TakeReturnMutex ==
    ASSUME MutexInv, NEW t \in Thread, TakeReturn(t)
    PROVE  /\ MutexInv' /\ k' = k /\ pc[t] = "took" /\ pc'[t] = "run" /\ Running(t)
           /\ owner' = owner /\ orig' = orig
           /\ \A u \in Thread \ {t} : pc'[u] = pc[u]
           /\ \A o \in Obj : InFlight(o)' \subseteq InFlight(o)
<1>1. /\ Running(t) /\ pc[t] = "took" /\ k' = k /\ isr' = isr /\ valid' = valid
      /\ pc' = [pc EXCEPT ![t] = "run"] /\ arg' = [arg EXCEPT ![t] = None]
      /\ UNCHANGED <<value, owner, hold, orig>>
      /\ mine' = IF k.err[t] = "EOK" THEN [mine EXCEPT ![t][arg[t]] = mine[t][arg[t]] + 1]
                 ELSE mine
  BY DEF TakeReturn, At, Goto, SetArg, mutexVars
<1>2. /\ IpcInv(IpcPc) /\ Reachable /\ pc \in [Thread -> IpcPc] /\ isr \in Seq(Frame)
      /\ arg \in [Thread -> Obj \cup {None}] /\ valid \in [Obj -> BOOLEAN] /\ arg[t] \in Obj
      /\ mine \in [Thread -> [Obj -> 0 .. HoldMax]]
  BY <1>1, IpcFacts DEF MutexInv, MutexTypes, TakesObj, Taking
<1> PICK s \in Obj : s = arg[t]
  BY <1>2
<1>3. IpcInv(IpcPc)'
  <2>1. Wakes(k', k) /\ "run" \in IpcPc \ Taking /\ pc[t] \notin BlockPc
    BY <1>1, <1>2, WakesNone DEF IpcPc, CpuPc, Taking, BlockPc
  <2> QED BY <1>1, <1>2, <2>1, MoveIpc
<1>4. /\ pc'[t] = "run" /\ \A u \in Thread \ {t} : pc'[u] = pc[u] /\ arg'[u] = arg[u]
      /\ HasArg'
  BY <1>1, <1>2 DEF MutexInv, HasArg
<1>5. \A u \in Thread \ {t} : StaysInFlight(u)
  BY <1>1, <1>4, SameGrantProps DEF StaysInFlight, NotGranted
<1>6. \A o \in Obj, u \in Thread \ {t} : u \in InFlight(o)' <=> u \in InFlight(o)
  BY <1>2, <1>5, FlightOfThread
<1>7. \A o \in Obj : t \notin InFlight(o)' /\ (t \in InFlight(o) <=> o = s /\ k.err[t] = "EOK")
  <2>1. \A o \in Obj : ~InWait(k, t, o)
    BY <1>1, <1>2, RunnerWaitsNot
  <2> QED BY <1>1, <1>4, <2>1, InFlightDef DEF Taking
<1> DEFINE n == IF k.err[t] = "EOK" THEN mine[t][s] + 1 ELSE mine[t][s]
<1>8. n \in 0 .. HoldMax /\ mine' = [mine EXCEPT ![t][s] = n]
  <2>1. Agrees(t, s) /\ hold[s] \in 0 .. HoldMax /\ mine[t][s] \in 0 .. HoldMax /\ HoldMax \in Nat
    BY MutexFacts
  <2>2. n \in 0 .. HoldMax
    BY <1>7, <2>1 DEF Agrees
  <2>3. mine' = [mine EXCEPT ![t][s] = n]
    <3>1. mine = [mine EXCEPT ![t][s] = mine[t][s]]
      BY <1>2
    <3> QED BY <1>1, <3>1
  <2> QED BY <2>2, <2>3
<1>9. /\ mine' \in [Thread -> [Obj -> 0 .. HoldMax]] /\ mine'[t][s] = n
      /\ \A u \in Thread, o \in Obj : u # t \/ o # s => mine'[u][o] = mine[u][o]
  BY <1>2, <1>8, MineProps
<1>10. ASSUME NEW u \in Thread, NEW o \in Obj PROVE Agrees(u, o)'
  <2>1. CASE u = t /\ o = s
    <3>1. Agrees(t, s) /\ hold[s] \in 0 .. HoldMax /\ mine[t][s] \in 0 .. HoldMax /\ HoldMax \in Nat
      BY MutexFacts
    <3>2. n = IF owner[s] = t THEN hold[s] ELSE 0
      BY <1>7, <3>1 DEF Agrees
    <3>3. mine'[u][o] = n /\ u \notin InFlight(o)' /\ owner' = owner /\ hold' = hold /\ n \in Int
      BY <1>1, <1>7, <1>9, <2>1, <3>1
    <3> HIDE DEF n
    <3> QED BY <2>1, <3>2, <3>3 DEF Agrees
  <2>2. CASE u # t \/ o # s
    <3>1. u \in InFlight(o)' <=> u \in InFlight(o)
      BY <1>6, <1>7, <2>2
    <3> QED BY <1>1, <1>9, <2>2, <3>1, AgreesKept
  <2> QED BY <2>1, <2>2
<1> HIDE DEF n
<1>11. HoldsAgree'
  BY <1>10, HoldsAgreeEachNext
<1>12. MutexTypes' /\ Owned' /\ NoSelfWait'
  BY <1>1, <1>9 DEF MutexInv, MutexTypes, Owned, NoSelfWait, InWait
<1>13. \A o \in Obj : InFlight(o)' \subseteq InFlight(o)
  BY <1>6, <1>7, FlightFinite
<1> QED BY <1>1, <1>3, <1>4, <1>11, <1>12, <1>13 DEF MutexInv

\* what the release of the last hold is made of
LEMMA ReleaseParts ==
    ASSUME MutexInv, NEW t \in Thread, NEW m \in Obj, ReleaseLast(t, m)
    PROVE  /\ Running(t) /\ pc[t] = "run" /\ owner[m] = t /\ hold[m] = 1 /\ t # Idle
           /\ k.cur = t /\ \A o \in Obj : ~InWait(k, t, o) /\ t \notin InFlight(o)
           /\ SameButPrio(Restored(m), k)
           /\ Restored(m).prio = [k.prio EXCEPT ![t] = orig[m]]
           /\ mine' = [mine EXCEPT ![t][m] = 0] /\ isr' = isr /\ arg' = arg /\ valid' = valid
<1>1. /\ Running(t) /\ pc[t] = "run" /\ owner[m] = t /\ hold[m] = 1
      /\ mine' = [mine EXCEPT ![t][m] = mine[t][m] - 1]
      /\ isr' = isr /\ arg' = arg /\ valid' = valid
  BY DEF ReleaseLast, ReleaseCall, Calls, At, ipcVars
<1>2. mine[t][m] = 1 /\ \A o \in Obj : t \notin InFlight(o)
  BY <1>1, CountProps DEF Taking
<1>3. mine' = [mine EXCEPT ![t][m] = 0]
  BY <1>1, <1>2
<1>4. owner[m] # None /\ t # Idle
  BY <1>1, MutexFacts, ThreadAssumption
<1>5. SameButPrio(Restored(m), k) /\ Restored(m).prio = [k.prio EXCEPT ![t] = orig[m]]
  BY <1>1, <1>4, RestoredProps
<1>6. k.cur = t /\ \A o \in Obj : ~InWait(k, t, o)
  BY <1>1, CallerProps, RunnerWaitsNot, IpcFacts DEF MutexInv
<1> QED BY <1>1, <1>2, <1>3, <1>4, <1>5, <1>6

\* the hand-over to the first waiter
HandsOver(t, m, h) ==
    /\ h \in Thread /\ h = Head(k.wait[m]) /\ h # t /\ InWait(k, h, m)
    /\ owner' = [owner EXCEPT ![m] = h]
    /\ orig' = [orig EXCEPT ![m] = Restored(m).prio[h]]
    /\ value' = value /\ hold' = hold
    /\ Thins(k', Restored(m))
    /\ k'.cur = t /\ pc'[t] = "sched"

LEMMA HandOverMutex ==
    ASSUME MutexInv, NEW t \in Thread, NEW m \in Obj, ReleaseLast(t, m), k.wait[m] # <<>>
    PROVE  MutexInv' /\ \E h \in Thread : HandsOver(t, m, h)
<1> DEFINE r == Restored(m)
<1>1. /\ Running(t) /\ pc[t] = "run" /\ owner[m] = t /\ hold[m] = 1 /\ t # Idle
      /\ k.cur = t /\ \A o \in Obj : ~InWait(k, t, o) /\ t \notin InFlight(o)
      /\ SameButPrio(r, k) /\ r.prio = [k.prio EXCEPT ![t] = orig[m]]
      /\ mine' = [mine EXCEPT ![t][m] = 0] /\ isr' = isr /\ arg' = arg /\ valid' = valid
  BY ReleaseParts
<1>2. /\ owner' = [owner EXCEPT ![m] = Head(k.wait[m])]
      /\ orig' = [orig EXCEPT ![m] = r.prio[Head(k.wait[m])]]
      /\ k' = ipc_list_resume(r, m) /\ pc' = [pc EXCEPT ![t] = "sched"]
      /\ value' = value /\ hold' = hold
  BY DEF ReleaseLast, Goto
<1>3. /\ IpcInv(IpcPc) /\ KInv(k) /\ pc \in [Thread -> IpcPc] /\ Reachable
      /\ arg \in [Thread -> Obj \cup {None}] /\ valid \in [Obj -> BOOLEAN]
      /\ owner \in [Obj -> Thread \cup {None}] /\ hold \in [Obj -> 0 .. HoldMax]
      /\ orig \in [Obj -> Prio \cup {NoPrio}]
      /\ mine \in [Thread -> [Obj -> 0 .. HoldMax]]
  BY IpcFacts DEF MutexInv, MutexTypes
<1> HIDE DEF r
<1>4. /\ Wakes(k', k) /\ Thins(k', r)
      /\ \E h \in Thread :
            /\ h = Head(k.wait[m])
            /\ pc[h] \in Taking /\ arg[h] = m /\ k.err[h] = "EOK" /\ k'.err[h] = "EOK"
            /\ InWait(k, h, m) /\ \A o \in Obj : ~InWait(k', h, o)
            /\ \A u \in Thread \ {h} : SameGrant(k', k, u)
  BY <1>1, <1>2, <1>3, WakesFirstFrom
<1>5. PICK h \in Thread :
            /\ h = Head(k.wait[m])
            /\ pc[h] \in Taking /\ arg[h] = m /\ k.err[h] = "EOK" /\ k'.err[h] = "EOK"
            /\ InWait(k, h, m) /\ \A o \in Obj : ~InWait(k', h, o)
            /\ \A u \in Thread \ {h} : SameGrant(k', k, u)
  BY <1>4
<1>6. h # t /\ h # Idle
  <2>1. h # t
    BY <1>1, <1>5
  <2>2. k.stat[h] = "SUSPEND" /\ IdleIsRunnable(k)
    BY <1>3, <1>5 DEF KInv, Placed
  <2> QED BY <2>1, <2>2 DEF IdleIsRunnable
<1>7. /\ pc'[t] = "sched" /\ (\A u \in Thread \ {t} : pc'[u] = pc[u])
      /\ owner'[m] = h /\ \A o \in Obj \ {m} : owner'[o] = owner[o]
  BY <1>2, <1>3, <1>5
<1>8. k'.cur = t
  BY <1>1, <1>4 DEF Wakes, SameCpu
<1>9. HandsOver(t, m, h)
  BY <1>2, <1>4, <1>5, <1>6, <1>7, <1>8 DEF HandsOver, r
<1>10. IpcInv(IpcPc)'
  <2>1. /\ "sched" \in IpcPc \ Taking /\ pc[t] \notin BlockPc
        /\ arg' = [arg EXCEPT ![t] = arg[t]] /\ arg[t] \in Obj \cup {None}
        /\ valid' \in [Obj -> BOOLEAN]
    BY <1>1, <1>3 DEF IpcPc, CpuPc, Taking, BlockPc
  <2>2. IpcInv(IpcPc) /\ Running(t) /\ isr' = isr /\ pc' = [pc EXCEPT ![t] = "sched"]
    BY <1>1, <1>2, <1>3
  <2>3. Wakes(k', k)
    BY <1>4
  <2> QED BY <2>1, <2>2, <2>3, MoveIpc
<1>11. HasArg'
  BY <1>1, <1>2, <1>3 DEF MutexInv, HasArg
<1>12. \A o \in Obj, u \in Thread \ {h} : u \in InFlight(o)' <=> u \in InFlight(o)
  <2>1. \A u \in Thread \ {h} : StaysInFlight(u)
    BY <1>1, <1>5, <1>7 DEF StaysInFlight, NotGranted, Taking
  <2> QED BY <1>3, <2>1, FlightOfThread
<1>13. \A o \in Obj : h \notin InFlight(o) /\ (h \in InFlight(o)' <=> o = m)
  BY <1>1, <1>5, <1>6, <1>7, InFlightDef
<1>14. /\ mine' \in [Thread -> [Obj -> 0 .. HoldMax]] /\ mine'[t][m] = 0
       /\ \A u \in Thread, o \in Obj : u # t \/ o # m => mine'[u][o] = mine[u][o]
  <2>1. 0 \in 0 .. HoldMax
    BY HoldAssumption
  <2> QED BY <1>1, <1>3, <2>1, MineProps
<1>15. ASSUME NEW u \in Thread, NEW o \in Obj PROVE Agrees(u, o)'
  <2>1. CASE o # m
    <3>1. u \in InFlight(o)' <=> u \in InFlight(o)
      BY <1>12, <1>13, <2>1
    <3>2. mine'[u][o] = mine[u][o] /\ owner'[o] = owner[o] /\ hold'[o] = hold[o]
      BY <1>2, <1>7, <1>14, <2>1
    <3> QED BY <3>1, <3>2, AgreesKept
  <2>2. CASE o = m /\ u = t
    <3>1. u \notin InFlight(o)' /\ mine'[u][o] = 0 /\ owner'[o] # u
      BY <1>1, <1>6, <1>7, <1>12, <1>14, <2>2
    <3> QED BY <3>1 DEF Agrees
  <2>3. CASE o = m /\ u = h
    <3>1. Agrees(h, m)
      BY MutexFacts
    <3>2. mine[h][m] = 0
      <4>1. mine[h][m] \in 0 .. HoldMax /\ HoldMax \in Nat
        BY MutexFacts
      <4> QED BY <1>1, <1>6, <1>13, <3>1, <4>1 DEF Agrees
    <3> QED BY <1>1, <1>2, <1>6, <1>7, <1>13, <1>14, <2>3, <3>2 DEF Agrees
  <2>4. CASE o = m /\ u # t /\ u # h
    <3>1. u \in InFlight(o)' <=> u \in InFlight(o)
      BY <1>12, <2>4
    <3>2. mine'[u][o] = mine[u][o] /\ owner'[o] # u /\ owner[o] # u
      BY <1>1, <1>7, <1>14, <2>4
    <3> QED BY <3>1, <3>2, AgreesKept
  <2> QED BY <2>1, <2>2, <2>3, <2>4
<1>16. HoldsAgree'
  BY <1>15, HoldsAgreeEachNext
<1>17. NoSelfWait'
  <2>1. ASSUME NEW o \in Obj, NEW u \in Thread, InWait(k', u, o)
        PROVE  owner'[o] \in Thread \ {u}
    <3>1. u # h /\ InWait(k, u, o)
      BY <1>4, <1>5, <2>1 DEF Wakes, NoNewWaiter
    <3> QED BY <1>7, <3>1, MutexFacts
  <2> QED BY <2>1 DEF NoSelfWait, InWait
<1>18. r.prio[h] \in Prio
  BY <1>1 DEF SameButPrio, KInv, WellFormed, KernelState
<1>19. MutexTypes'
  BY <1>2, <1>3, <1>5, <1>14, <1>18 DEF MutexInv, MutexTypes
<1>20. Owned'
  <2>1. ASSUME NEW o \in Obj
        PROVE  IF owner'[o] = None THEN value'[o] = 1 /\ hold'[o] = 0
               ELSE /\ value'[o] = 0 /\ hold'[o] \in 1 .. HoldMax
                    /\ orig'[o] \in Prio /\ owner'[o] # Idle
    <3>1. CASE o = m
      <4>1. value[m] = 0 /\ hold[m] \in 1 .. HoldMax
        BY <1>1, ThreadAssumption DEF MutexInv, Owned
      <4> QED BY <1>2, <1>3, <1>5, <1>6, <1>7, <1>18, <3>1, <4>1, ThreadAssumption
    <3>2. CASE o # m
      <4>1. orig'[o] = orig[o] /\ owner'[o] = owner[o] /\ value' = value /\ hold' = hold
        BY <1>2, <1>3, <1>7, <3>2
      <4> QED BY <4>1 DEF MutexInv, Owned
    <3> QED BY <3>1, <3>2
  <2> QED BY <2>1 DEF Owned
<1> QED BY <1>9, <1>10, <1>11, <1>16, <1>17, <1>19, <1>20 DEF MutexInv

\* the last hold without a waiter: the mutex is free
SetsFree(t, m) ==
    /\ k' = Restored(m) /\ k.wait[m] = <<>>
    /\ owner' = [owner EXCEPT ![m] = None] /\ orig' = [orig EXCEPT ![m] = NoPrio]
    /\ pc' = pc
    /\ \A o \in Obj : InFlight(o)' = InFlight(o)

LEMMA SetFreeMutex ==
    ASSUME MutexInv, NEW t \in Thread, NEW m \in Obj, ReleaseLast(t, m), k.wait[m] = <<>>
    PROVE  MutexInv' /\ SetsFree(t, m)
<1> DEFINE r == Restored(m)
<1>1. /\ Running(t) /\ pc[t] = "run" /\ owner[m] = t /\ hold[m] = 1
      /\ \A o \in Obj : t \notin InFlight(o)
      /\ SameButPrio(r, k)
      /\ mine' = [mine EXCEPT ![t][m] = 0] /\ isr' = isr /\ arg' = arg /\ valid' = valid
  BY ReleaseParts
<1>2. /\ owner' = [owner EXCEPT ![m] = None] /\ orig' = [orig EXCEPT ![m] = NoPrio]
      /\ hold' = [hold EXCEPT ![m] = 0] /\ value' = [value EXCEPT ![m] = value[m] + 1]
      /\ k' = r /\ pc' = pc
  BY DEF ReleaseLast
<1> HIDE DEF r
<1>3. /\ IpcInv(IpcPc) /\ KInv(k) /\ pc \in [Thread -> IpcPc] /\ Reachable
      /\ arg \in [Thread -> Obj \cup {None}] /\ valid \in [Obj -> BOOLEAN]
      /\ owner \in [Obj -> Thread \cup {None}] /\ hold \in [Obj -> 0 .. HoldMax]
      /\ value \in [Obj -> 0 .. 1] /\ orig \in [Obj -> Prio \cup {NoPrio}]
      /\ mine \in [Thread -> [Obj -> 0 .. HoldMax]] /\ isr \in Seq(Frame)
  BY IpcFacts DEF MutexInv, MutexTypes
<1>4. /\ k'.err = k.err /\ k'.wait = k.wait /\ SameClock(k', k)
      /\ \A u, o : InWait(k', u, o) <=> InWait(k, u, o)
  BY <1>1, <1>2 DEF SameButPrio, InWait
<1>5. IpcInv(IpcPc)'
  <2>1. Wakes(k', k)
    BY <1>1, <1>2, <1>3, WakesPrio
  <2>2. /\ "run" \in IpcPc \ Taking /\ pc[t] \notin BlockPc
        /\ pc' = [pc EXCEPT ![t] = "run"]
        /\ arg' = [arg EXCEPT ![t] = arg[t]] /\ arg[t] \in Obj \cup {None}
    BY <1>1, <1>2, <1>3 DEF IpcPc, CpuPc, Taking, BlockPc
  <2> QED BY <1>1, <1>3, <2>1, <2>2, MoveIpc
<1>6. \A o \in Obj : InFlight(o)' = InFlight(o)
  <2>1. \A u \in Thread : SameGrant(k', k, u)
    BY <1>4 DEF SameGrant, SameTimer, SameClock, InTimers
  <2>2. \A u \in Thread : StaysInFlight(u)
    BY <1>1, <1>2, <2>1 DEF StaysInFlight, NotGranted
  <2> QED BY <1>3, <2>2, FlightKept
<1>7. /\ mine' \in [Thread -> [Obj -> 0 .. HoldMax]] /\ mine'[t][m] = 0
      /\ \A u \in Thread, o \in Obj : u # t \/ o # m => mine'[u][o] = mine[u][o]
  <2>1. 0 \in 0 .. HoldMax
    BY HoldAssumption
  <2> QED BY <1>1, <1>3, <2>1, MineProps
<1>8. /\ owner'[m] = None /\ hold'[m] = 0 /\ value'[m] = 1 /\ orig'[m] = NoPrio
      /\ \A o \in Obj \ {m} : /\ owner'[o] = owner[o] /\ hold'[o] = hold[o]
                              /\ value'[o] = value[o] /\ orig'[o] = orig[o]
  <2>1. value[m] = 0
    BY <1>1, MutexFacts, ThreadAssumption
  <2> QED BY <1>2, <1>3, <2>1
<1>9. ASSUME NEW u \in Thread, NEW o \in Obj PROVE Agrees(u, o)'
  <2>1. u \in InFlight(o)' <=> u \in InFlight(o)
    BY <1>6
  <2>2. CASE o # m
    <3>1. mine'[u][o] = mine[u][o] /\ owner'[o] = owner[o] /\ hold'[o] = hold[o]
      BY <1>7, <1>8, <2>2
    <3> QED BY <2>1, <3>1, AgreesKept
  <2>3. CASE o = m /\ u = t
    <3>1. u \notin InFlight(o)' /\ mine'[u][o] = 0 /\ owner'[o] # u
      BY <1>1, <1>7, <1>8, <2>1, <2>3, ThreadAssumption
    <3> QED BY <3>1 DEF Agrees
  <2>4. CASE o = m /\ u # t
    <3>1. mine'[u][o] = mine[u][o] /\ owner'[o] # u /\ owner[o] # u
      BY <1>1, <1>7, <1>8, <2>4, ThreadAssumption
    <3> QED BY <2>1, <3>1, AgreesKept
  <2> QED BY <2>2, <2>3, <2>4
<1>10. HoldsAgree'
  BY <1>9, HoldsAgreeEachNext
<1>11. NoSelfWait'
  <2>1. ASSUME NEW o \in Obj, NEW u \in Thread, InWait(k', u, o)
        PROVE  owner'[o] \in Thread \ {u}
    <3>1. InWait(k, u, o) /\ owner[o] \in Thread /\ owner[o] # u
      BY <1>4, <2>1, MutexFacts
    <3>2. o # m
      BY <1>3, <3>1, WaitProps
    <3> QED BY <1>8, <3>1, <3>2
  <2> QED BY <2>1 DEF NoSelfWait, InWait
<1>12. MutexTypes'
  <2>1. 0 \in 0 .. HoldMax /\ value[m] + 1 \in 0 .. 1
    BY <1>1, MutexFacts, HoldAssumption, ThreadAssumption
  <2> QED BY <1>2, <1>3, <1>7, <2>1 DEF MutexTypes
<1>13. Owned'
  BY <1>8 DEF MutexInv, Owned
<1>14. HasArg' /\ SetsFree(t, m)
  BY <1>1, <1>2, <1>6 DEF MutexInv, HasArg, SetsFree, r
<1> QED BY <1>5, <1>10, <1>11, <1>12, <1>13, <1>14 DEF MutexInv

\* one waiter is resumed with an error by the loop of a detach: it gets no mutex
LEMMA ResumeErrorMutex ==
    ASSUME MutexInv, NEW t \in Thread, DetachResume(t), UNCHANGED <<mutexVars, mine>>
    PROVE  /\ MutexInv' /\ Wakes(k', k) /\ Thins(k', k) /\ Running(t)
           /\ pc[t] = "resume" /\ owner' = owner /\ orig' = orig
           /\ \A u \in Thread : k.stat[u] = "SUSPEND" \/ k'.stat[u] = k.stat[u]
           /\ \A o \in Obj : InFlight(o)' = InFlight(o)
<1>1. /\ Running(t) /\ pc[t] = "resume" /\ k.wait[arg[t]] # <<>>
      /\ k' = ResumeWithError(k, arg[t]) /\ isr' = isr
      /\ pc' = [pc EXCEPT ![t] = "detach"]
      /\ arg' = arg /\ valid' = valid /\ UNCHANGED <<value, owner, hold, orig, mine>>
  BY DEF DetachResume, At, Goto, ipcVars, mutexVars
<1>2. /\ IpcInv(IpcPc) /\ Reachable /\ pc \in [Thread -> IpcPc] /\ HasArg
      /\ arg \in [Thread -> Obj \cup {None}] /\ valid \in [Obj -> BOOLEAN] /\ arg[t] \in Obj
  BY <1>1, IpcFacts DEF MutexInv, HasArg
<1>3. /\ Wakes(k', k) /\ Thins(k', k) /\ \A u \in Thread : NotGranted(k', k, u)
      /\ \A u \in Thread : k.stat[u] = "SUSPEND" \/ k'.stat[u] = k.stat[u]
  BY <1>1, <1>2, WakesWithError
<1>4. IpcInv(IpcPc)'
  <2>1. /\ "detach" \in IpcPc \ Taking /\ pc[t] \notin BlockPc
        /\ arg' = [arg EXCEPT ![t] = arg[t]]
    BY <1>1, <1>2 DEF IpcPc, Taking, BlockPc
  <2>2. /\ arg[t] \in Obj \cup {None} /\ valid' \in [Obj -> BOOLEAN]
    BY <1>1, <1>2
  <2>3. IpcInv(IpcPc) /\ Running(t) /\ isr' = isr /\ pc' = [pc EXCEPT ![t] = "detach"]
    BY <1>1, <1>2
  <2> QED BY <1>3, <2>1, <2>2, <2>3, MoveIpc
<1>5. HasArg' /\ \A u \in Thread : pc[u] \in Taking <=> pc'[u] \in Taking
  BY <1>1, <1>2 DEF HasArg, Taking
<1>6. \A u \in Thread : StaysInFlight(u)
  BY <1>1, <1>3, <1>5 DEF StaysInFlight
<1>7. \A o \in Obj : InFlight(o)' = InFlight(o)
  BY <1>2, <1>6, FlightKept
<1>8. MutexInv'
  BY <1>1, <1>3, <1>4, <1>5, <1>7, MutexKept DEF Wakes
<1> QED BY <1>1, <1>3, <1>7, <1>8

\* the steps of a detach that only look at the kernel state
LEMMA QuietStepsMutex ==
    ASSUME MutexInv, NEW t \in Thread,
           \/ DetachTest(t)
           \/ DetachObject(t)
           \/ \E m \in Obj : DetachEnter(t, m),
           UNCHANGED <<mutexVars, mine>>
    PROVE  /\ MutexInv' /\ k' = k /\ Running(t) /\ pc[t] \in {"detach", "object", "run"}
           /\ owner' = owner /\ orig' = orig
           /\ \A o \in Obj : InFlight(o)' = InFlight(o)
<1>1. /\ IpcInv(IpcPc) /\ pc \in [Thread -> IpcPc] /\ HasArg /\ Reachable
      /\ arg \in [Thread -> Obj \cup {None}] /\ valid \in [Obj -> BOOLEAN]
  BY IpcFacts DEF MutexInv
<1>2. /\ Running(t) /\ pc[t] \in {"detach", "object", "run"} /\ k' = k /\ isr' = isr
      /\ UNCHANGED <<value, owner, hold, orig, mine>>
  BY DEF DetachTest, DetachObject, DetachEnter, Calls, At, mutexVars
<1>3. PICK l \in {"resume", "object", "run", "detach"}, x \in Obj \cup {None} :
         /\ pc' = [pc EXCEPT ![t] = l] /\ arg' = [arg EXCEPT ![t] = x]
         /\ l = "run" \/ x \in Obj
  <2>1. CASE DetachTest(t)
    <3>1. arg' = [arg EXCEPT ![t] = arg[t]] /\ arg[t] \in Obj
      BY <1>1, <2>1 DEF DetachTest, At, HasArg, ipcVars
    <3> QED BY <2>1, <3>1 DEF DetachTest, Goto
  <2>2. CASE DetachObject(t)
    BY <2>2 DEF DetachObject, Goto, SetArg
  <2>3. ASSUME NEW m \in Obj, DetachEnter(t, m)
        PROVE  pc' = [pc EXCEPT ![t] = "detach"] /\ arg' = [arg EXCEPT ![t] = m]
    BY <2>3 DEF DetachEnter, Goto, SetArg
  <2> QED BY <2>1, <2>2, <2>3
<1>4. valid' \in [Obj -> BOOLEAN]
  BY <1>1 DEF DetachTest, DetachObject, DetachEnter, ipcVars
<1>5. IpcInv(IpcPc)'
  <2>1. Wakes(k', k) /\ l \in IpcPc \ Taking /\ pc[t] \notin BlockPc
    BY <1>1, <1>2, <1>3, WakesNone DEF IpcPc, CpuPc, Taking, BlockPc
  <2> QED BY <1>1, <1>2, <1>3, <1>4, <2>1, MoveIpc
<1>6. HasArg' /\ \A u \in Thread : StaysInFlight(u)
  BY <1>1, <1>2, <1>3, SameGrantProps DEF HasArg, Taking, StaysInFlight, NotGranted
<1>7. NoNewWaiter(k', k) /\ \A o \in Obj : InFlight(o)' = InFlight(o)
  BY <1>1, <1>2, <1>6, FlightKept DEF NoNewWaiter
<1> QED BY <1>2, <1>5, <1>6, <1>7, MutexKept

-----------------------------------------------------------------------------
(* Ownership. *)

\* the invariant holds at the start
LEMMA MutexInitInv ==
    Init => MutexInv /\ \A o \in Obj : k.wait[o] = <<>> /\ InFlight(o) = {}
<1> SUFFICES ASSUME Init
             PROVE  MutexInv /\ \A o \in Obj : k.wait[o] = <<>> /\ InFlight(o) = {}
  OBVIOUS
<1>1. /\ IpcInit /\ pc = [t \in Thread |-> "run"]
      /\ value = [m \in Obj |-> 1] /\ owner = [m \in Obj |-> None]
      /\ hold = [m \in Obj |-> 0] /\ orig = [m \in Obj |-> NoPrio]
      /\ mine = [t \in Thread |-> [m \in Obj |-> 0]]
  BY DEF Init, IpcInit, CpuInit
<1>2. IpcInv(IpcPc) /\ \A o \in Obj : k.wait[o] = <<>> /\ InFlight(o) = {}
  BY <1>1, IpcInitInv DEF IpcPc, CpuPc
<1>3. MutexTypes
  BY <1>1, HoldAssumption DEF MutexTypes
<1>4. HasArg /\ Owned
  BY <1>1 DEF HasArg, Owned
<1>5. NoSelfWait
  BY <1>2 DEF NoSelfWait, InWait, Range
<1>6. HoldsAgree
  BY <1>1, <1>2, ThreadAssumption DEF HoldsAgree
<1> QED BY <1>2, <1>3, <1>4, <1>5, <1>6 DEF MutexInv

\* a step that changes no variable
LEMMA StutterMutex ==
    ASSUME MutexInv, UNCHANGED vars
    PROVE  MutexInv' /\ \A o \in Obj : InFlight(o)' = InFlight(o)
<1>1. /\ k' = k /\ isr' = isr /\ pc' = pc /\ arg' = arg /\ valid' = valid
      /\ UNCHANGED <<value, owner, hold, orig, mine>>
  BY DEF vars
<1>2. IpcInv(IpcPc)'
  BY <1>1, DevIpc, WakesNone, IpcFacts DEF MutexInv
<1>3. NoNewWaiter(k', k) /\ \A o \in Obj : InFlight(o)' = InFlight(o)
  BY <1>1 DEF NoNewWaiter, InFlight
<1>4. HasArg'
  BY <1>1 DEF MutexInv, HasArg
<1> QED BY <1>1, <1>2, <1>3, <1>4, MutexKept

\* a release of a mutex
LEMMA ReleaseLastMutex ==
    ASSUME MutexInv, NEW t \in Thread, NEW m \in Obj, ReleaseLast(t, m)
    PROVE  MutexInv' /\ (SetsFree(t, m) \/ \E h \in Thread : HandsOver(t, m, h))
<1>1. CASE k.wait[m] = <<>>
  BY <1>1, SetFreeMutex
<1>2. CASE k.wait[m] # <<>>
  BY <1>2, HandOverMutex
<1> QED BY <1>1, <1>2

\* and every step keeps it
LEMMA MutexNextInv == MutexInv /\ [Next]_vars => MutexInv'
<1> SUFFICES ASSUME MutexInv, [Next]_vars PROVE MutexInv'
  OBVIOUS
<1>1. CASE CpuStep(MaskedPc) /\ UNCHANGED <<ipcVars, mutexVars, mine>>
  BY <1>1, CpuStepMutex
<1>2. ASSUME NEW t \in Thread, Finish(t) PROVE MutexInv'
  <2>1. CASE CpuFinish(t) /\ UNCHANGED <<ipcVars, mutexVars, mine>>
    BY <2>1, CpuServiceMutex
  <2>2. CASE ThreadSchedule(t, "take", "took") /\ UNCHANGED <<ipcVars, mutexVars, mine>>
    BY <2>2, TakeScheduleMutex
  <2>3. CASE TakeReturn(t)
    BY <2>3, TakeReturnMutex
  <2>4. CASE DetachStep(t) /\ UNCHANGED <<mutexVars, mine>>
    BY <2>4, ResumeErrorMutex, QuietStepsMutex DEF DetachStep
  <2> QED BY <1>2, <2>1, <2>2, <2>3, <2>4 DEF Finish
<1>3. ASSUME NEW t \in Thread, Call(t) PROVE MutexInv'
  <2>1. CASE CpuCall(t) /\ UNCHANGED <<ipcVars, mutexVars, mine>>
    BY <2>1, CpuServiceMutex
  <2>2. ASSUME NEW m \in Obj, NEW d \in Timeouts, rt_mutex_take(t, m, d) PROVE MutexInv'
    BY <2>2, TakeNowMutex, TakeBlockMutex DEF rt_mutex_take
  <2>3. ASSUME NEW m \in Obj, rt_mutex_release(t, m) PROVE MutexInv'
    BY <2>3, ReleaseNowMutex, ReleaseLastMutex DEF rt_mutex_release
  <2>4. ASSUME NEW m \in Obj, DetachEnter(t, m), UNCHANGED <<mutexVars, mine>> PROVE MutexInv'
    BY <2>4, QuietStepsMutex
  <2> QED BY <1>3, <2>1, <2>2, <2>3, <2>4 DEF Call
<1>4. CASE UNCHANGED vars
  BY <1>4, StutterMutex
<1> QED BY <1>1, <1>2, <1>3, <1>4 DEF Next

-----------------------------------------------------------------------------
(* Priority inheritance, while no thread is involved with two mutexes at once. *)

\* t owns m or waits for it
Involved(t, m) == owner[m] = t \/ InWait(k, t, m)

\* no thread takes a second mutex, nor waits for one, while it holds another
Unnested ==
    \A t \in Thread, m, n \in Obj : Involved(t, m) /\ Involved(t, n) => m = n

\* an owner is at the priority it has taken the mutex with, which is its own, or at a more
\* urgent one; every other thread is at its own
AtBase ==
    \A t \in Thread :
        /\ \A m \in Obj : owner[m] = t => orig[m] = BasePrio[t] /\ k.prio[t] <= BasePrio[t]
        /\ (\A m \in Obj : owner[m] # t) => k.prio[t] = BasePrio[t]

\* the inductive invariant of priority inheritance
LendInv == AtBase /\ WaitersByPriority /\ OwnerInherits

\* the two properties, per waiter
LEMMA LendEach ==
    ASSUME MutexInv
    PROVE  /\ WaitersByPriority <=> \A m \in Obj : Sorted(k.wait[m], k.prio)
           /\ OwnerInherits <=>
                 \A m \in Obj, u \in Thread : InWait(k, u, m) => k.prio[owner[m]] <= k.prio[u]
<1>1. \A m \in Obj : k.wait[m] \in Seq(Thread) /\ Range(k.wait[m]) \subseteq Thread
  <2>1. \A m \in Obj : k.wait[m] \in Seq(Thread)
    BY IpcFacts DEF MutexInv, KInv, WellFormed, KernelState
  <2> QED BY <2>1, RangeProps
<1>2. \A m \in Obj : DOMAIN k.wait[m] = 1 .. Len(k.wait[m])
  BY <1>1
<1>3. WaitersByPriority <=> \A m \in Obj : Sorted(k.wait[m], k.prio)
  BY <1>2 DEF WaitersByPriority, SortedWaiters, Sorted
<1>4. OwnerInherits <=>
         \A m \in Obj, u \in Thread : InWait(k, u, m) => k.prio[owner[m]] <= k.prio[u]
  BY <1>1 DEF OwnerInherits, InWait
<1> QED BY <1>3, <1>4

\* the same after a step
LEMMA LendEachNext ==
    ASSUME MutexInv'
    PROVE  /\ (WaitersByPriority)' <=> \A m \in Obj : Sorted(k'.wait[m], k'.prio)
           /\ (OwnerInherits)' <=>
                 \A m \in Obj, u \in Thread :
                    InWait(k', u, m) => k'.prio[owner'[m]] <= k'.prio[u]
<1>1. \A m \in Obj : k'.wait[m] \in Seq(Thread) /\ Range(k'.wait[m]) \subseteq Thread
  <2>1. \A m \in Obj : k'.wait[m] \in Seq(Thread)
    BY DEF MutexInv, IpcInv, CpuInv, KInv, WellFormed, KernelState
  <2> QED BY <2>1, RangeProps
<1>2. \A m \in Obj : DOMAIN k'.wait[m] = 1 .. Len(k'.wait[m])
  BY <1>1
<1>3. (WaitersByPriority)' <=> \A m \in Obj : Sorted(k'.wait[m], k'.prio)
  BY <1>2 DEF WaitersByPriority, SortedWaiters, Sorted
<1>4. (OwnerInherits)' <=>
         \A m \in Obj, u \in Thread : InWait(k', u, m) => k'.prio[owner'[m]] <= k'.prio[u]
  BY <1>1 DEF OwnerInherits, InWait
<1> QED BY <1>3, <1>4

\* a list that loses members keeps its order
LEMMA ThinsSorted ==
    ASSUME NEW r, KInv(r), NEW q, Thins(q, r), NEW o \in Obj, Sorted(r.wait[o], r.prio)
    PROVE  Sorted(q.wait[o], q.prio) /\ \A u : InWait(q, u, o) => InWait(r, u, o)
<1>1. /\ r.wait[o] \in Seq(Thread) /\ IsInjective(r.wait[o]) /\ q.prio = r.prio
      /\ q.wait[o] = r.wait[o] \/ \E t : q.wait[o] = ListDel(r.wait[o], t)
  BY DEF KInv, WellFormed, KernelState, Thins
<1>2. ASSUME NEW t, q.wait[o] = ListDel(r.wait[o], t)
      PROVE  Sorted(q.wait[o], q.prio) /\ Range(q.wait[o]) = Range(r.wait[o]) \ {t}
  BY <1>1, <1>2, SortedDel, ListDelProps
<1> QED BY <1>1, <1>2 DEF InWait

\* the order depends on the priorities of the members only
LEMMA SortedAgree ==
    ASSUME NEW s \in Seq(Thread), NEW f, NEW g, \A u \in Range(s) : g[u] = f[u], Sorted(s, f)
    PROVE  Sorted(s, g)
<1>1. \A i \in 1 .. Len(s) : s[i] \in Range(s)
  BY DEF Range
<1> QED BY <1>1 DEF Sorted

\* the first of a sorted list is at least as urgent as the others
LEMMA SortedHead ==
    ASSUME NEW s \in Seq(Thread), NEW f \in [Thread -> Prio], s # <<>>, Sorted(s, f)
    PROVE  \A u \in Range(s) : f[Head(s)] <= f[u]
<1> SUFFICES ASSUME NEW u \in Range(s) PROVE f[Head(s)] <= f[u]
  OBVIOUS
<1>1. PICK i \in 1 .. Len(s) : s[i] = u
  BY DEF Range
<1>2. Head(s) = s[1] /\ 1 \in 1 .. Len(s) /\ s[1] \in Thread
  OBVIOUS
<1>3. f[s[1]] \in Int
  BY <1>2 DEF Prio
<1> QED BY <1>1, <1>2, <1>3 DEF Sorted

\* a step that changes no priority and no owner
LEMMA LendKept ==
    ASSUME MutexInv, LendInv, MutexInv', Thins(k', k), owner' = owner, orig' = orig
    PROVE  LendInv'
<1>1. KInv(k) /\ k'.prio = k.prio
  BY IpcFacts DEF MutexInv, Thins
<1>2. AtBase'
  BY <1>1 DEF LendInv, AtBase
<1>3. ASSUME NEW m \in Obj
      PROVE  Sorted(k'.wait[m], k'.prio) /\ \A u : InWait(k', u, m) => InWait(k, u, m)
  <2>1. Sorted(k.wait[m], k.prio)
    BY LendEach DEF LendInv
  <2> QED BY <1>1, <2>1, ThinsSorted
<1>4. \A m \in Obj, u \in Thread : InWait(k', u, m) => k'.prio[owner'[m]] <= k'.prio[u]
  BY <1>1, <1>3, LendEach DEF LendInv
<1> QED BY <1>2, <1>3, <1>4, LendEachNext DEF LendInv

\* the take of a free mutex: nobody waits for it, and the new owner is at its own priority
LEMMA TakeFreeLend ==
    ASSUME MutexInv, LendInv, MutexInv', Unnested', NEW t \in Thread, NEW m \in Obj,
           TakeFree(t, m)
    PROVE  LendInv'
<1>1. /\ owner' = [owner EXCEPT ![m] = t] /\ orig' = [orig EXCEPT ![m] = k.prio[t]]
      /\ owner[m] = None
  <2>1. value[m] > 0
    BY DEF TakeFree
  <2> QED BY <2>1, MutexFacts DEF TakeFree
<1>2. /\ owner \in [Obj -> Thread \cup {None}] /\ orig \in [Obj -> Prio \cup {NoPrio}]
      /\ k.prio \in [Thread -> Prio] /\ BasePrio \in [Thread -> Prio] /\ Prio \subseteq Int
  <2>1. k.prio \in [Thread -> Prio]
    BY IpcFacts DEF MutexInv, KInv, WellFormed, KernelState
  <2>2. Prio \subseteq Int
    BY DEF Prio
  <2> QED BY <2>1, <2>2, ThreadAssumption DEF MutexInv, MutexTypes
<1>3. k'.wait = k.wait /\ k'.prio = k.prio /\ \A u, o : InWait(k', u, o) <=> InWait(k, u, o)
  BY TakeNowMutex, CalmProps DEF SameRun
<1>4. /\ owner'[m] = t /\ orig'[m] = k.prio[t]
      /\ \A o \in Obj \ {m} : owner'[o] = owner[o] /\ orig'[o] = orig[o]
  BY <1>1, <1>2
<1>5. \A o \in Obj : owner[o] # t
  <2>1. ASSUME NEW o \in Obj, owner[o] = t PROVE FALSE
    <3>1. o # m
      BY <1>1, <2>1, ThreadAssumption
    <3>2. owner'[o] = t /\ owner'[m] = t
      BY <1>4, <2>1, <3>1
    <3> QED BY <3>1, <3>2 DEF Unnested, Involved
  <2> QED BY <2>1
<1>6. k.prio[t] = BasePrio[t] /\ k.prio[t] \in Int
  BY <1>2, <1>5 DEF LendInv, AtBase
<1>7. AtBase'
  <2>1. ASSUME NEW u \in Thread, NEW o \in Obj, owner'[o] = u
        PROVE  orig'[o] = BasePrio[u] /\ k'.prio[u] <= BasePrio[u]
    <3>1. CASE o = m
      BY <1>3, <1>4, <1>6, <2>1, <3>1
    <3>2. CASE o # m
      BY <1>3, <1>4, <2>1, <3>2 DEF LendInv, AtBase
    <3> QED BY <3>1, <3>2
  <2>2. ASSUME NEW u \in Thread, \A o \in Obj : owner'[o] # u
        PROVE  k'.prio[u] = BasePrio[u]
    <3>1. \A o \in Obj : owner[o] # u
      BY <1>1, <1>4, <2>2, ThreadAssumption
    <3> QED BY <1>3, <3>1 DEF LendInv, AtBase
  <2> QED BY <2>1, <2>2 DEF AtBase
<1>8. \A o \in Obj : Sorted(k'.wait[o], k'.prio)
  BY <1>3, LendEach DEF LendInv
<1>9. ASSUME NEW o \in Obj, NEW u \in Thread, InWait(k', u, o)
      PROVE  k'.prio[owner'[o]] <= k'.prio[u]
  <2>1. InWait(k, u, o) /\ owner[o] \in Thread
    BY <1>3, <1>9, MutexFacts
  <2>2. owner'[o] = owner[o]
    BY <1>1, <1>4, <2>1, ThreadAssumption
  <2> QED BY <1>3, <2>1, <2>2, LendEach DEF LendInv
<1> QED BY <1>7, <1>8, <1>9, LendEachNext DEF LendInv

\* while no thread is involved with two mutexes, an owner waits for none
LEMMA OwnerWaitsNot ==
    ASSUME MutexInv, Unnested, NEW t \in Thread, NEW m \in Obj, owner[m] = t
    PROVE  /\ \A o \in Obj : ~InWait(k, t, o)
           /\ \A o \in Obj \ {m} : owner[o] # t
<1>1. ASSUME NEW o \in Obj, InWait(k, t, o) PROVE FALSE
  <2>1. o = m
    BY <1>1 DEF Unnested, Involved
  <2> QED BY <1>1, <2>1, MutexFacts
<1>2. ASSUME NEW o \in Obj \ {m}, owner[o] = t PROVE FALSE
  BY <1>2 DEF Unnested, Involved
<1> QED BY <1>1, <1>2

\* a take that blocks: the owner becomes at least as urgent as the caller, who waits in its
\* place of the list
LEMMA TakeBlockLend ==
    ASSUME MutexInv, LendInv, MutexInv', Unnested,
           NEW t \in Thread, NEW m \in Obj, NEW d \in Timeouts, TakeBlock(t, m, d)
    PROVE  LendInv'
<1> DEFINE r == Lent(t, m)
           o == owner[m]
<1>1. /\ Running(t) /\ pc[t] = "run" /\ o \in Thread /\ o # t /\ k'.cur = t
      /\ k' = ipc_list_suspend(r, m, t, "PRIO", d) /\ SameButPrio(r, k)
      /\ owner' = owner /\ orig' = orig
      /\ \A u \in Thread, x \in Obj : InWait(k', u, x) <=> (InWait(k, u, x) \/ (u = t /\ x = m))
  BY BlockParts
<1>2. r.prio = [k.prio EXCEPT ![o] = IF k.prio[t] < @ THEN k.prio[t] ELSE @]
  BY <1>1, LentProps, ThreadAssumption
<1>3. o = owner[m]
  OBVIOUS
<1> HIDE DEF r, o
<1>4. /\ k.prio \in [Thread -> Prio] /\ Prio \subseteq Int /\ KInv(r) /\ KInv(k)
      /\ k.wait \in [Obj -> Seq(Thread)]
  <2>1. k \in KernelState /\ KInv(k)
    BY IpcFacts DEF MutexInv, KInv, WellFormed
  <2>2. Prio \subseteq Int
    BY DEF Prio
  <2> QED BY <1>1, <2>1, <2>2 DEF KernelState, SameButPrio
<1>5. \A u \in Thread : k.prio[u] \in Int /\ BasePrio[u] \in Int
  BY <1>4, ThreadAssumption
<1>6. /\ \A u \in Thread \ {o} : r.prio[u] = k.prio[u]
      /\ r.prio[o] <= k.prio[o] /\ r.prio[o] <= k.prio[t]
      /\ \A u \in Thread : r.prio[u] \in Int /\ r.prio[u] <= k.prio[u]
  BY <1>1, <1>2, <1>4, <1>5
<1>7. \A x \in Obj : ~InWait(k, o, x)
  BY <1>1, <1>3, OwnerWaitsNot
<1>8. k.cur = t /\ k.stat[t] = "RUNNING"
  <2>1. k.cur = t /\ k.lock = 0
    BY <1>1, CallerProps, IpcFacts DEF MutexInv, TakeBlock, TakeCall
  <2>2. pc[t] \notin BlockPc
    BY <1>1 DEF BlockPc
  <2> QED BY <1>1, <2>1, <2>2, CallerProps, IpcFacts DEF MutexInv
<1>9. /\ k'.prio = r.prio
      /\ k'.wait = [k.wait EXCEPT ![m] = ListInsert(@, t, LessUrgent(r, t, "PRIO"))]
  <2>1. r.cur = t /\ r.stat[r.cur] = "RUNNING" /\ r.wait = k.wait
    BY <1>1, <1>8 DEF SameButPrio
  <2>2. k' = ipc_list_suspend(r, m, r.cur, "PRIO", d)
    BY <1>1, <2>1
  <2>3. /\ k'.prio = r.prio
        /\ k'.wait = [r.wait EXCEPT ![m] = ListInsert(@, r.cur, LessUrgent(r, r.cur, "PRIO"))]
    <3>1. KInv(r)
      BY <1>4
    <3> QED BY <2>1, <2>2, <3>1, ListSuspendErr
  <2> QED BY <2>1, <2>3
<1>10. \A x \in Obj : Sorted(k.wait[x], r.prio)
  <2>1. ASSUME NEW x \in Obj PROVE Sorted(k.wait[x], r.prio)
    <3>1. k.wait[x] \in Seq(Thread) /\ Sorted(k.wait[x], k.prio)
      BY <1>4, LendEach DEF LendInv
    <3>2. \A u \in Range(k.wait[x]) : r.prio[u] = k.prio[u]
      BY <1>6, <1>7, <3>1, RangeProps DEF InWait
    <3> QED BY <3>1, <3>2, SortedAgree
  <2> QED BY <2>1
<1>11. Sorted(ListInsert(k.wait[m], t, LessUrgent(r, t, "PRIO")), r.prio)
  <2>1. \A u \in Thread : u \in LessUrgent(r, t, "PRIO") <=> r.prio[t] < r.prio[u]
    BY DEF LessUrgent
  <2>2. k.wait[m] \in Seq(Thread) /\ Sorted(k.wait[m], r.prio)
    BY <1>4, <1>10
  <2>3. \A u \in Thread : r.prio[u] \in Int
    BY <1>6
  <2> QED BY <2>1, <2>2, <2>3, SortedInsert
<1>12. \A x \in Obj : Sorted(k'.wait[x], k'.prio)
  BY <1>4, <1>9, <1>10, <1>11
<1>13. ASSUME NEW x \in Obj, NEW u \in Thread, InWait(k', u, x)
       PROVE  k'.prio[owner'[x]] <= k'.prio[u]
  <2>1. CASE InWait(k, u, x)
    <3>1. u # o /\ owner[x] \in Thread /\ k.prio[owner[x]] <= k.prio[u]
      BY <1>7, <2>1, MutexFacts, LendEach DEF LendInv
    <3>2. r.prio[owner[x]] <= k.prio[owner[x]] /\ r.prio[u] = k.prio[u]
      BY <1>6, <3>1
    <3> QED BY <1>1, <1>5, <1>6, <1>9, <3>1, <3>2
  <2>2. CASE u = t /\ x = m
    BY <1>1, <1>3, <1>6, <1>9, <2>2
  <2> QED BY <1>1, <1>13, <2>1, <2>2
<1>14. AtBase'
  <2>1. ASSUME NEW u \in Thread, NEW x \in Obj, owner'[x] = u
        PROVE  orig'[x] = BasePrio[u] /\ k'.prio[u] <= BasePrio[u]
    <3>1. orig[x] = BasePrio[u] /\ k.prio[u] <= BasePrio[u]
      BY <1>1, <2>1 DEF LendInv, AtBase
    <3> QED BY <1>1, <1>5, <1>6, <1>9, <3>1
  <2>2. ASSUME NEW u \in Thread, \A x \in Obj : owner'[x] # u
        PROVE  k'.prio[u] = BasePrio[u]
    <3>1. u # o /\ k.prio[u] = BasePrio[u]
      BY <1>1, <1>3, <2>2 DEF LendInv, AtBase
    <3> QED BY <1>6, <1>9, <3>1
  <2> QED BY <2>1, <2>2 DEF AtBase
<1> QED BY <1>12, <1>13, <1>14, LendEachNext DEF LendInv

\* what the release of the last hold leaves to the other threads
LEMMA ReleaseLendParts ==
    ASSUME MutexInv, LendInv, Unnested, NEW t \in Thread, NEW m \in Obj, ReleaseLast(t, m),
           NEW r, r = Restored(m)
    PROVE  /\ owner[m] = t /\ r.wait = k.wait /\ KInv(r)
           /\ r.prio \in [Thread -> Prio] /\ r.prio[t] = BasePrio[t]
           /\ \A u \in Thread \ {t} : r.prio[u] = k.prio[u]
           /\ \A u \in Thread : r.prio[u] \in Int /\ BasePrio[u] \in Int
           /\ \A x \in Obj \ {m} : owner[x] # t
           /\ \A x \in Obj : ~InWait(k, t, x) /\ Sorted(r.wait[x], r.prio)
           /\ \A x \in Obj, u \in Thread :
                 InWait(k, u, x) => u # t /\ owner[x] \in Thread /\ k.prio[owner[x]] <= k.prio[u]
<1>1. /\ owner[m] = t /\ SameButPrio(r, k) /\ r.prio = [k.prio EXCEPT ![t] = orig[m]]
  BY ReleaseParts
<1>2. KInv(r) /\ r \in KernelState /\ KInv(k) /\ k \in KernelState /\ r.wait = k.wait
  BY <1>1, IpcFacts DEF MutexInv, SameButPrio, KInv, WellFormed
<1>3. /\ r.prio \in [Thread -> Prio] /\ k.prio \in [Thread -> Prio]
      /\ k.wait \in [Obj -> Seq(Thread)]
  BY <1>2 DEF KernelState
<1>4. /\ (\A x \in Obj \ {m} : owner[x] # t) /\ (\A x \in Obj : ~InWait(k, t, x))
  BY <1>1, OwnerWaitsNot
<1>5. orig[m] = BasePrio[t]
  BY <1>1 DEF LendInv, AtBase
<1>6. r.prio[t] = BasePrio[t] /\ \A u \in Thread \ {t} : r.prio[u] = k.prio[u]
  BY <1>1, <1>3, <1>5
<1>7. \A u \in Thread : r.prio[u] \in Int /\ BasePrio[u] \in Int
  BY <1>3, ThreadAssumption DEF Prio
<1>8. ASSUME NEW x \in Obj PROVE Sorted(r.wait[x], r.prio)
  <2>1. k.wait[x] \in Seq(Thread) /\ Sorted(k.wait[x], k.prio)
    BY <1>3, LendEach DEF LendInv
  <2>2. \A u \in Range(k.wait[x]) : r.prio[u] = k.prio[u]
    BY <1>4, <1>6, <2>1, RangeProps DEF InWait
  <2>3. Sorted(k.wait[x], r.prio)
    BY <2>1, <2>2, SortedAgree
  <2> QED BY <1>2, <2>3
<1>9. \A x \in Obj, u \in Thread :
         InWait(k, u, x) => u # t /\ owner[x] \in Thread /\ k.prio[owner[x]] <= k.prio[u]
  BY <1>4, MutexFacts, LendEach DEF LendInv
<1> QED BY <1>1, <1>2, <1>3, <1>4, <1>6, <1>7, <1>8, <1>9

\* the hand-over: the old owner is back at its own priority, and the new one, who has never
\* inherited any, is at least as urgent as those who go on waiting
LEMMA HandOverLend ==
    ASSUME MutexInv, LendInv, MutexInv', Unnested,
           NEW t \in Thread, NEW m \in Obj, ReleaseLast(t, m),
           NEW h \in Thread, HandsOver(t, m, h)
    PROVE  LendInv'
<1> DEFINE r == Restored(m)
<1>1. /\ owner[m] = t /\ r.wait = k.wait /\ KInv(r)
      /\ r.prio \in [Thread -> Prio] /\ r.prio[t] = BasePrio[t]
      /\ \A u \in Thread \ {t} : r.prio[u] = k.prio[u]
      /\ \A u \in Thread : r.prio[u] \in Int /\ BasePrio[u] \in Int
      /\ \A x \in Obj \ {m} : owner[x] # t
      /\ \A x \in Obj : ~InWait(k, t, x) /\ Sorted(r.wait[x], r.prio)
      /\ \A x \in Obj, u \in Thread :
            InWait(k, u, x) => u # t /\ owner[x] \in Thread /\ k.prio[owner[x]] <= k.prio[u]
  BY ReleaseLendParts
<1>2. /\ h = Head(k.wait[m]) /\ h # t /\ InWait(k, h, m)
      /\ owner' = [owner EXCEPT ![m] = h] /\ orig' = [orig EXCEPT ![m] = r.prio[h]]
      /\ Thins(k', r)
  BY DEF HandsOver
<1> HIDE DEF r
<1>3. /\ owner'[m] = h /\ orig'[m] = r.prio[h]
      /\ \A x \in Obj \ {m} : owner'[x] = owner[x] /\ orig'[x] = orig[x]
  BY <1>2 DEF MutexInv, MutexTypes
<1>4. k'.prio = r.prio
  BY <1>2 DEF Thins
<1>5. \A x \in Obj : Sorted(k'.wait[x], k'.prio) /\ \A u : InWait(k', u, x) => InWait(k, u, x)
  <2>1. \A x \in Obj : Sorted(k'.wait[x], k'.prio) /\ \A u : InWait(k', u, x) => InWait(r, u, x)
    BY <1>1, <1>2, ThinsSorted
  <2> QED BY <1>1, <2>1 DEF InWait
<1>6. \A x \in Obj : owner[x] # h
  <2>1. ASSUME NEW x \in Obj, owner[x] = h PROVE FALSE
    <3>1. x = m
      BY <1>2, <2>1 DEF Unnested, Involved
    <3> QED BY <1>1, <1>2, <2>1, <3>1
  <2> QED BY <2>1
<1>7. r.prio[h] = BasePrio[h]
  BY <1>1, <1>2, <1>6 DEF LendInv, AtBase
<1>8. \A u \in Thread : InWait(k, u, m) => r.prio[h] <= r.prio[u]
  <2>1. k.wait[m] \in Seq(Thread) /\ k.wait[m] # <<>>
    <3>1. k.wait[m] \in Seq(Thread)
      BY IpcFacts DEF MutexInv, KInv, WellFormed, KernelState
    <3> QED BY <1>2, <3>1 DEF InWait, Range
  <2>2. \A u \in Range(k.wait[m]) : r.prio[Head(k.wait[m])] <= r.prio[u]
    BY <1>1, <2>1, SortedHead
  <2> QED BY <1>2, <2>2 DEF InWait
<1>9. ASSUME NEW x \in Obj, NEW u \in Thread, InWait(k', u, x)
      PROVE  k'.prio[owner'[x]] <= k'.prio[u]
  <2>1. InWait(k, u, x)
    BY <1>5, <1>9
  <2>2. CASE x = m
    BY <1>3, <1>4, <1>8, <2>1, <2>2
  <2>3. CASE x # m
    <3>1. u # t /\ owner[x] \in Thread \ {t} /\ k.prio[owner[x]] <= k.prio[u]
      BY <1>1, <2>1, <2>3
    <3> QED BY <1>1, <1>3, <1>4, <2>3, <3>1
  <2> QED BY <2>2, <2>3
<1>10. AtBase'
  <2>1. ASSUME NEW u \in Thread, NEW x \in Obj, owner'[x] = u
        PROVE  orig'[x] = BasePrio[u] /\ k'.prio[u] <= BasePrio[u]
    <3>1. CASE x = m
      BY <1>1, <1>3, <1>4, <1>7, <2>1, <3>1
    <3>2. CASE x # m
      <4>1. u # t /\ orig[x] = BasePrio[u] /\ k.prio[u] <= BasePrio[u]
        BY <1>1, <1>3, <2>1, <3>2 DEF LendInv, AtBase
      <4> QED BY <1>1, <1>3, <1>4, <3>2, <4>1
    <3> QED BY <3>1, <3>2
  <2>2. ASSUME NEW u \in Thread, \A x \in Obj : owner'[x] # u
        PROVE  k'.prio[u] = BasePrio[u]
    <3>1. CASE u = t
      BY <1>1, <1>4, <3>1
    <3>2. CASE u # t
      <4>1. \A x \in Obj : owner[x] # u
        BY <1>1, <1>3, <2>2, <3>2
      <4> QED BY <1>1, <1>4, <3>2, <4>1 DEF LendInv, AtBase
    <3> QED BY <3>1, <3>2
  <2> QED BY <2>1, <2>2 DEF AtBase
<1> QED BY <1>5, <1>9, <1>10, LendEachNext DEF LendInv

\* a release without waiters: the owner is back at its own priority
LEMMA SetFreeLend ==
    ASSUME MutexInv, LendInv, MutexInv', Unnested,
           NEW t \in Thread, NEW m \in Obj, ReleaseLast(t, m), SetsFree(t, m)
    PROVE  LendInv'
<1> DEFINE r == Restored(m)
<1>1. /\ owner[m] = t /\ r.wait = k.wait
      /\ r.prio[t] = BasePrio[t] /\ \A u \in Thread \ {t} : r.prio[u] = k.prio[u]
      /\ \A x \in Obj \ {m} : owner[x] # t
      /\ \A x \in Obj : ~InWait(k, t, x) /\ Sorted(r.wait[x], r.prio)
      /\ \A x \in Obj, u \in Thread :
            InWait(k, u, x) => u # t /\ owner[x] \in Thread /\ k.prio[owner[x]] <= k.prio[u]
  BY ReleaseLendParts
<1>2. /\ k' = r /\ k.wait[m] = <<>>
      /\ owner' = [owner EXCEPT ![m] = None] /\ orig' = [orig EXCEPT ![m] = NoPrio]
  BY DEF SetsFree
<1> HIDE DEF r
<1>3. /\ owner'[m] = None
      /\ \A x \in Obj \ {m} : owner'[x] = owner[x] /\ orig'[x] = orig[x]
  BY <1>2 DEF MutexInv, MutexTypes
<1>4. \A x \in Obj : Sorted(k'.wait[x], k'.prio)
  BY <1>1, <1>2
<1>5. ASSUME NEW x \in Obj, NEW u \in Thread, InWait(k', u, x)
      PROVE  k'.prio[owner'[x]] <= k'.prio[u]
  <2>1. InWait(k, u, x)
    BY <1>1, <1>2, <1>5 DEF InWait
  <2>2. x # m
    BY <1>2, <2>1 DEF InWait, Range
  <2>3. u # t /\ owner[x] \in Thread \ {t} /\ k.prio[owner[x]] <= k.prio[u]
    BY <1>1, <2>1, <2>2
  <2> QED BY <1>1, <1>2, <1>3, <2>2, <2>3
<1>6. AtBase'
  <2>1. ASSUME NEW u \in Thread, NEW x \in Obj, owner'[x] = u
        PROVE  orig'[x] = BasePrio[u] /\ k'.prio[u] <= BasePrio[u]
    <3>1. x # m
      BY <1>3, <2>1, ThreadAssumption
    <3>2. u # t /\ orig[x] = BasePrio[u] /\ k.prio[u] <= BasePrio[u]
      BY <1>1, <1>3, <2>1, <3>1 DEF LendInv, AtBase
    <3> QED BY <1>1, <1>2, <1>3, <3>1, <3>2
  <2>2. ASSUME NEW u \in Thread, \A x \in Obj : owner'[x] # u
        PROVE  k'.prio[u] = BasePrio[u]
    <3>1. CASE u = t
      BY <1>1, <1>2, <3>1
    <3>2. CASE u # t
      <4>1. \A x \in Obj : owner[x] # u
        BY <1>1, <1>3, <2>2, <3>2
      <4> QED BY <1>1, <1>2, <3>2, <4>1 DEF LendInv, AtBase
    <3> QED BY <3>1, <3>2
  <2> QED BY <2>1, <2>2 DEF AtBase
<1> QED BY <1>4, <1>5, <1>6, LendEachNext DEF LendInv

\* the inheritance invariant holds at the start
LEMMA LendInit == Init => LendInv
<1> SUFFICES ASSUME Init PROVE LendInv
  OBVIOUS
<1>1. /\ k.prio = BasePrio /\ owner = [m \in Obj |-> None]
      /\ \A m \in Obj : k.wait[m] = <<>>
  BY MutexInitInv DEF Init, IpcInit, CpuInit, StartState
<1>2. AtBase
  BY <1>1, ThreadAssumption DEF AtBase
<1>3. WaitersByPriority
  BY <1>1 DEF WaitersByPriority, SortedWaiters
<1>4. OwnerInherits
  BY <1>1 DEF OwnerInherits, Range
<1> QED BY <1>2, <1>3, <1>4 DEF LendInv

\* every step keeps it while no thread is involved with two mutexes
LEMMA LendNext ==
    MutexInv /\ LendInv /\ Unnested /\ Unnested' /\ MutexInv' /\ [Next]_vars => LendInv'
<1> SUFFICES ASSUME MutexInv, LendInv, Unnested, Unnested', MutexInv', [Next]_vars
             PROVE  LendInv'
  OBVIOUS
<1>1. CpuInv
  BY IpcFacts DEF MutexInv
<1>2. CASE CpuStep(MaskedPc) /\ UNCHANGED <<ipcVars, mutexVars, mine>>
  <2>1. Thins(k', k)
    BY <1>1, <1>2, CpuStepErr
  <2> QED BY <1>2, <2>1, LendKept DEF mutexVars
<1>3. ASSUME NEW t \in Thread, Finish(t) PROVE LendInv'
  <2>1. CASE CpuFinish(t) /\ UNCHANGED <<ipcVars, mutexVars, mine>>
    <3>1. Thins(k', k)
      BY <1>1, <2>1, CpuFinishErr
    <3> QED BY <2>1, <3>1, LendKept DEF mutexVars
  <2>2. CASE ThreadSchedule(t, "take", "took") /\ UNCHANGED <<ipcVars, mutexVars, mine>>
    <3>1. Thins(k', k)
      BY <1>1, <2>2, CpuFinishErr
    <3> QED BY <2>2, <3>1, LendKept DEF mutexVars
  <2>3. CASE TakeReturn(t)
    <3>1. k' = k /\ owner' = owner /\ orig' = orig
      BY <2>3, TakeReturnMutex
    <3>2. Thins(k', k)
      BY <3>1, ThinsProps
    <3> QED BY <3>1, <3>2, LendKept
  <2>4. CASE DetachStep(t) /\ UNCHANGED <<mutexVars, mine>>
    <3>1. CASE DetachResume(t)
      <4>1. Thins(k', k) /\ owner' = owner /\ orig' = orig
        BY <2>4, <3>1, ResumeErrorMutex
      <4> QED BY <4>1, LendKept
    <3>2. CASE DetachTest(t) \/ DetachObject(t)
      <4>1. k' = k /\ owner' = owner /\ orig' = orig
        BY <2>4, <3>2, QuietStepsMutex
      <4>2. Thins(k', k)
        BY <4>1, ThinsProps
      <4> QED BY <4>1, <4>2, LendKept
    <3> QED BY <2>4, <3>1, <3>2 DEF DetachStep
  <2> QED BY <1>3, <2>1, <2>2, <2>3, <2>4 DEF Finish
<1>4. ASSUME NEW t \in Thread, Call(t) PROVE LendInv'
  <2>1. CASE CpuCall(t) /\ UNCHANGED <<ipcVars, mutexVars, mine>>
    <3>1. Thins(k', k)
      BY <1>1, <2>1, CpuCallErr
    <3> QED BY <2>1, <3>1, LendKept DEF mutexVars
  <2>2. ASSUME NEW m \in Obj, NEW d \in Timeouts, rt_mutex_take(t, m, d) PROVE LendInv'
    <3>1. CASE TakeAgain(t, m) \/ TakeFails(t, m)
      <4>1. k'.prio = k.prio /\ k'.wait = k.wait
        BY <3>1, TakeNowMutex, CalmProps DEF SameRun
      <4>2. owner' = owner /\ orig' = orig
        BY <3>1 DEF TakeAgain, TakeFails, mutexVars
      <4>3. Thins(k', k)
        BY <4>1, ThinsProps
      <4> QED BY <4>2, <4>3, LendKept
    <3>2. CASE TakeFree(t, m)
      BY <3>2, TakeFreeLend
    <3>3. CASE TakeBlock(t, m, d)
      BY <3>3, TakeBlockLend
    <3> QED BY <2>2, <3>1, <3>2, <3>3 DEF rt_mutex_take
  <2>3. ASSUME NEW m \in Obj, rt_mutex_release(t, m) PROVE LendInv'
    <3>1. CASE ReleaseRefused(t, m) \/ ReleaseHold(t, m)
      <4>1. k'.prio = k.prio /\ k'.wait = k.wait
        BY <3>1, ReleaseNowMutex, CalmProps DEF SameRun
      <4>2. owner' = owner /\ orig' = orig
        BY <3>1 DEF ReleaseRefused, ReleaseHold, mutexVars
      <4>3. Thins(k', k)
        BY <4>1, ThinsProps
      <4> QED BY <4>2, <4>3, LendKept
    <3>2. CASE ReleaseLast(t, m)
      <4>1. SetsFree(t, m) \/ \E h \in Thread : HandsOver(t, m, h)
        BY <3>2, ReleaseLastMutex
      <4> QED BY <3>2, <4>1, HandOverLend, SetFreeLend
    <3> QED BY <2>3, <3>1, <3>2 DEF rt_mutex_release
  <2>4. ASSUME NEW m \in Obj, DetachEnter(t, m), UNCHANGED <<mutexVars, mine>> PROVE LendInv'
    <3>1. k' = k /\ owner' = owner /\ orig' = orig
      BY <2>4, QuietStepsMutex
    <3>2. Thins(k', k)
      BY <3>1, ThinsProps
    <3> QED BY <3>1, <3>2, LendKept
  <2> QED BY <1>4, <2>1, <2>2, <2>3, <2>4 DEF Call
<1>5. CASE UNCHANGED vars
  <2>1. k' = k /\ owner' = owner /\ orig' = orig
    BY <1>5 DEF vars
  <2>2. Thins(k', k)
    BY <2>1, ThinsProps
  <2> QED BY <2>1, <2>2, LendKept
<1> QED BY <1>2, <1>3, <1>4, <1>5 DEF Next

-----------------------------------------------------------------------------
(* Prompt hand-over, for one mutex. *)

OneMutex == \E m : Obj = {m}

\* outside of the services that have their rt_schedule still to come, a thread that has
\* been granted the mutex and is ready does not precede the current thread
Prompt ==
    k.lock = 0 /\ pc[k.cur] \notin Unsettled =>
        \A m \in Obj : \A u \in InFlight(m) :
            k.stat[u] = "READY" => k.prio[k.cur] <= k.prio[u]

LEMMA PromptHighest ==
    ASSUME k'.lock # 0 \/ Highest(k') \/ pc'[k'.cur] \in Unsettled
    PROVE  Prompt'
  BY DEF Prompt, Highest, InFlight

\* a step that makes no thread ready to which the mutex is granted
LEMMA PromptKept ==
    ASSUME MutexInv, Prompt, k'.cur = k.cur, k'.prio = k.prio, k'.lock = k.lock,
           pc' = pc \/ pc[k.cur] \notin Unsettled,
           \A o \in Obj : InFlight(o)' \subseteq InFlight(o),
           \A u \in Thread : k.stat[u] = "SUSPEND" \/ k'.stat[u] = k.stat[u]
    PROVE  Prompt'
<1> SUFFICES ASSUME k'.lock = 0, pc'[k'.cur] \notin Unsettled,
                    NEW m \in Obj, NEW u \in InFlight(m)', k'.stat[u] = "READY"
             PROVE  k'.prio[k'.cur] <= k'.prio[u]
  BY DEF Prompt
<1>1. u \in InFlight(m) /\ u \in Thread
  BY DEF InFlight
<1>2. k.stat[u] # "SUSPEND"
  BY <1>1, InFlightDef, IpcFacts DEF MutexInv, Reachable
<1>3. k.stat[u] = "READY" /\ k.lock = 0 /\ pc[k.cur] \notin Unsettled
  BY <1>1, <1>2
<1> QED BY <1>1, <1>3 DEF Prompt

LEMMA PromptInit == Init => Prompt
  BY MutexInitInv DEF Prompt

\* with one mutex, the thread that sets it free is the only one it can have been granted to
LEMMA SetFreePrompt ==
    ASSUME MutexInv, OneMutex, NEW t \in Thread, NEW m \in Obj, ReleaseLast(t, m),
           SetsFree(t, m)
    PROVE  Prompt'
<1>1. owner[m] = t /\ \A o \in Obj : t \notin InFlight(o)
  BY ReleaseParts
<1>2. \A o \in Obj : o = m
  BY DEF OneMutex
<1>3. \A o \in Obj : InFlight(o) = {}
  <2>1. \A o \in Obj, u \in Thread : u \in InFlight(o) => u = t
    BY <1>1, <1>2, MutexFacts
  <2> QED BY <1>1, <2>1 DEF InFlight
<1>4. \A o \in Obj : InFlight(o)' = {}
  BY <1>3 DEF SetsFree
<1> QED BY <1>4 DEF Prompt

\* every step keeps the hand-over prompt
LEMMA PromptNext ==
    ASSUME OneMutex
    PROVE  MutexInv /\ Prompt /\ [Next]_vars => Prompt'
<1> SUFFICES ASSUME MutexInv, Prompt, [Next]_vars PROVE Prompt'
  OBVIOUS
<1>1. CpuInv /\ KInv(k) /\ IpcInv(IpcPc) /\ pc \in [Thread -> IpcPc] /\ k.lock \in Nat
  BY IpcFacts DEF MutexInv
<1>2. \A t \in Thread : Running(t) => k.cur = t
  BY <1>1, CallerProps
<1>3. CASE CpuStep(MaskedPc) /\ UNCHANGED <<ipcVars, mutexVars, mine>>
  <2>1. pc' = pc /\ \A o \in Obj : InFlight(o)' = InFlight(o)
    BY <1>1, <1>3, CpuStepIpc DEF ipcVars
  <2>2. k'.lock = k.lock
    BY <1>1, <1>3, CpuStepInv
  <2>3. k'.lock > 0 \/ Highest(k') \/ SameRun(k', k)
    BY <1>1, <1>3, CpuStepHighest
  <2>4. CASE SameRun(k', k)
    BY <2>1, <2>2, <2>4, PromptKept DEF SameRun
  <2> QED BY <2>3, <2>4, PromptHighest
<1>4. ASSUME NEW t \in Thread, Finish(t) PROVE Prompt'
  <2>1. CASE \/ CpuFinish(t) /\ UNCHANGED <<ipcVars, mutexVars, mine>>
             \/ ThreadSchedule(t, "take", "took") /\ UNCHANGED <<ipcVars, mutexVars, mine>>
    <3>1. \A o \in Obj : InFlight(o)' = InFlight(o)
      <4>1. CASE CpuFinish(t) /\ UNCHANGED <<ipcVars, mutexVars, mine>>
        BY <4>1, CpuServiceMutex
      <4>2. CASE ThreadSchedule(t, "take", "took") /\ UNCHANGED <<ipcVars, mutexVars, mine>>
        <5>1. arg' = arg /\ valid' = valid
          BY <4>2 DEF ipcVars
        <5> QED BY <1>1, <4>2, <5>1, TakeScheduleIpc DEF IpcPc, Taking
      <4> QED BY <2>1, <4>1, <4>2
    <3>2. CpuFinish(t) \/ \E l, m : ThreadSchedule(t, l, m)
      BY <2>1
    <3>3. \/ k'.lock > 0
          \/ Highest(k')
          \/ pc[t] = "slept" /\ k.cur = t /\ SameRun(k', k) /\ k'.lock = k.lock
      BY <1>1, <3>2, FinishHighest
    <3>4. CASE pc[t] = "slept" /\ k.cur = t /\ SameRun(k', k) /\ k'.lock = k.lock
      BY <3>1, <3>4, PromptKept DEF SameRun, Unsettled
    <3> QED BY <3>3, <3>4, PromptHighest
  <2>2. CASE TakeReturn(t)
    <3>1. /\ k' = k /\ pc[t] = "took" /\ Running(t)
          /\ \A o \in Obj : InFlight(o)' \subseteq InFlight(o)
      BY <2>2, TakeReturnMutex
    <3> QED BY <1>2, <3>1, PromptKept DEF Unsettled
  <2>3. CASE DetachStep(t) /\ UNCHANGED <<mutexVars, mine>>
    <3>1. CASE DetachResume(t)
      <4>1. /\ Wakes(k', k) /\ Thins(k', k) /\ Running(t) /\ pc[t] = "resume"
            /\ \A u \in Thread : k.stat[u] = "SUSPEND" \/ k'.stat[u] = k.stat[u]
            /\ \A o \in Obj : InFlight(o)' = InFlight(o)
        BY <2>3, <3>1, ResumeErrorMutex
      <4>2. k'.cur = k.cur /\ k'.lock = k.lock /\ k'.prio = k.prio
        BY <4>1 DEF Wakes, SameCpu, Thins
      <4> QED BY <1>2, <4>1, <4>2, PromptKept DEF Unsettled
    <3>2. CASE DetachTest(t) \/ DetachObject(t)
      <4>1. /\ k' = k /\ Running(t) /\ pc[t] \in {"detach", "object", "run"}
            /\ \A o \in Obj : InFlight(o)' = InFlight(o)
        BY <2>3, <3>2, QuietStepsMutex
      <4> QED BY <1>2, <4>1, PromptKept DEF Unsettled
    <3> QED BY <2>3, <3>1, <3>2 DEF DetachStep
  <2> QED BY <1>4, <2>1, <2>2, <2>3 DEF Finish
<1>5. ASSUME NEW t \in Thread, Call(t) PROVE Prompt'
  <2>1. CASE CpuCall(t) /\ UNCHANGED <<ipcVars, mutexVars, mine>>
    <3>1. \/ k'.lock > 0
          \/ Highest(k')
          \/ k'.cur = t /\ pc'[t] \in Unsettled
      BY <1>1, <2>1, CpuCallHighest
    <3> QED BY <3>1, PromptHighest
  <2>2. ASSUME NEW m \in Obj, NEW d \in Timeouts, rt_mutex_take(t, m, d) PROVE Prompt'
    <3>1. CASE TakeAgain(t, m) \/ TakeFree(t, m) \/ TakeFails(t, m)
      <4>1. Calm(t)
        BY <3>1, TakeNowMutex
      <4> QED BY <4>1, CalmProps, PromptKept DEF SameRun, Calm
    <3>2. CASE TakeBlock(t, m, d)
      <4>1. k'.cur = t /\ pc' = [pc EXCEPT ![t] = "take"]
        BY <3>2, BlockParts
      <4> QED BY <1>1, <4>1, PromptHighest DEF Unsettled
    <3> QED BY <2>2, <3>1, <3>2 DEF rt_mutex_take
  <2>3. ASSUME NEW m \in Obj, rt_mutex_release(t, m) PROVE Prompt'
    <3>1. CASE ReleaseRefused(t, m) \/ ReleaseHold(t, m)
      <4>1. Calm(t)
        BY <3>1, ReleaseNowMutex
      <4> QED BY <4>1, CalmProps, PromptKept DEF SameRun, Calm
    <3>2. CASE ReleaseLast(t, m)
      <4>1. SetsFree(t, m) \/ \E h \in Thread : HandsOver(t, m, h)
        BY <3>2, ReleaseLastMutex
      <4>2. ASSUME NEW h \in Thread, HandsOver(t, m, h) PROVE Prompt'
        BY <4>2, PromptHighest DEF HandsOver, Unsettled
      <4> QED BY <3>2, <4>1, <4>2, SetFreePrompt
    <3> QED BY <2>3, <3>1, <3>2 DEF rt_mutex_release
  <2>4. ASSUME NEW m \in Obj, DetachEnter(t, m), UNCHANGED <<mutexVars, mine>> PROVE Prompt'
    <3>1. /\ k' = k /\ Running(t) /\ pc[t] \in {"detach", "object", "run"}
          /\ \A o \in Obj : InFlight(o)' = InFlight(o)
      BY <2>4, QuietStepsMutex
    <3> QED BY <1>2, <3>1, PromptKept DEF Unsettled
  <2> QED BY <1>5, <2>1, <2>2, <2>3, <2>4 DEF Call
<1>6. CASE UNCHANGED vars
  <2>1. k' = k /\ pc' = pc /\ \A o \in Obj : InFlight(o)' = InFlight(o)
    BY <1>6, StutterMutex DEF vars
  <2> QED BY <2>1, PromptKept
<1> QED BY <1>3, <1>4, <1>5, <1>6 DEF Next

-----------------------------------------------------------------------------
(* The theorems. *)

\* The invariant of ownership holds whatever the threads take, release and detach, and
\* whatever timeouts and device interrupts come in between.
THEOREM MutexInvariant == Spec => []MutexInv
  BY MutexInitInv, MutexNextInv, PTL DEF Spec

\* the invariant says what the properties of the modules say
LEMMA MutexInvMeaning ==
    ASSUME MutexInv
    PROVE  /\ TypeOK /\ HoldsAgree /\ WaiterIsReachable
           /\ ListsMatchStat /\ ReadyIsQueued /\ GroupMatchesQueues
           /\ SwitchCoherent /\ OneRunning /\ IdleRunnable /\ TimersOfSuspended
<1>1. IpcInv(IpcPc)
  BY DEF MutexInv
<1>2. /\ k \in KernelState /\ isr \in Seq(Frame) /\ WaiterIsReachable
      /\ ListsMatchStat /\ ReadyIsQueued /\ GroupMatchesQueues
      /\ SwitchCoherent /\ OneRunning /\ IdleRunnable /\ TimersOfSuspended
  BY <1>1, IpcMeaning
<1>3. TypeOK
  BY <1>1, <1>2 DEF MutexInv, MutexTypes, IpcInv, IpcTypes, TypeOK, IpcTypeOK
<1> QED BY <1>2, <1>3 DEF MutexInv

\* Every variable keeps its type: value is 0 or 1, hold never passes RT_MUTEX_HOLD_MAX and
\* never falls below 0.
THEOREM MutexTypeCorrect == Spec => []TypeOK
  BY MutexInvariant, MutexInvMeaning, PTL

\* Mutual exclusion: the takes that rt_mutex_take has granted to a thread and
\* rt_mutex_release has not ended are what the mutex records of its owner, for any number
\* of mutexes, nested or not, with holds, hand-overs, timeouts and detaches in any order.
THEOREM MutexHoldsAgree == Spec => []HoldsAgree
  BY MutexInvariant, MutexInvMeaning, PTL

\* Though priority inheritance changes the priority of queued threads
\* (RT_THREAD_CTRL_CHANGE_PRIORITY), a READY thread is in the queue of its priority.
THEOREM MutexReadyIsQueued == Spec => []ReadyIsQueued
  BY MutexInvariant, MutexInvMeaning, PTL

\* For the same reason the links of the threads and their states agree, and so do the
\* ready queues and the bitmap that rt_schedule reads.
THEOREM MutexListsMatchStat == Spec => [](ListsMatchStat /\ GroupMatchesQueues)
  BY MutexInvariant, MutexInvMeaning, PTL

-----------------------------------------------------------------------------
\* As long as no thread takes or waits for a second mutex while it holds one, the
\* invariant of priority inheritance holds.
THEOREM LendInvariant == Spec /\ []Unnested => []LendInv
  BY MutexInvariant, LendInit, LendNext, PTL DEF Spec

\* Then a thread that owns no mutex is back at its own priority: rt_mutex_release gives
\* the right one back, also when waiters have timed out or lost the mutex to a detach.
THEOREM UnnestedRestores == Spec /\ []Unnested => []PriorityRestored
<1>1. LendInv => PriorityRestored
  BY DEF LendInv, AtBase, PriorityRestored
<1> QED BY <1>1, LendInvariant, PTL

\* Then no waiter of rt_mutex_take is more urgent than the owner it waits for.
THEOREM UnnestedInherits == Spec /\ []Unnested => []OwnerInherits
<1>1. LendInv => OwnerInherits
  BY DEF LendInv
<1> QED BY <1>1, LendInvariant, PTL

\* Then the list from which rt_mutex_release takes the new owner is in the order of the
\* priorities the waiters have now.
THEOREM UnnestedWaitersSorted == Spec /\ []Unnested => []WaitersByPriority
<1>1. LendInv => WaitersByPriority
  BY DEF LendInv
<1> QED BY <1>1, LendInvariant, PTL

-----------------------------------------------------------------------------
\* with one mutex nothing can be nested
LEMMA OneIsUnnested == OneMutex => Unnested
  BY DEF OneMutex, Unnested

\* Where threads share one mutex, priority inheritance needs no further condition.
THEOREM OneMutexInherits ==
    ASSUME OneMutex
    PROVE  Spec => [](PriorityRestored /\ OwnerInherits /\ WaitersByPriority)
<1>1. []Unnested
  BY OneIsUnnested, PTL
<1> QED BY <1>1, UnnestedRestores, UnnestedInherits, UnnestedWaitersSorted, PTL

\* And there the hand-over of rt_mutex_release takes effect at once: no application code
\* runs while a more urgent thread that has been granted the mutex is ready, though the
\* release lowers the priority of the thread that runs.
THEOREM OneMutexGrantPreempts ==
    ASSUME OneMutex
    PROVE  Spec => []GrantPreempts
<1>1. MutexInv /\ Prompt => GrantPreempts
  <2> SUFFICES ASSUME MutexInv, Prompt, NEW t \in Thread, NEW u \in Thread, NEW m \in Obj,
                      At(t, "run"), k.lock = 0, u \in InFlight(m), k.stat[u] = "READY"
               PROVE  k.prio[t] <= k.prio[u]
    BY DEF GrantPreempts
  <2>1. k.cur = t /\ pc[t] = "run"
    BY CallerProps, IpcFacts DEF MutexInv, At
  <2> QED BY <2>1 DEF Prompt, Unsettled
<1>2. Spec => []Prompt
  BY MutexInvariant, PromptInit, PromptNext, PTL DEF Spec
<1> QED BY <1>1, <1>2, MutexInvariant, PTL
=============================================================================
