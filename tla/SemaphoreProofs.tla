-------------------------- MODULE SemaphoreProofs --------------------------
(***************************************************************************)
(* The safety of the kernel with counting semaphores, for any number of    *)
(* threads, priorities and semaphores, any application and any timeout.    *)
(***************************************************************************)
EXTENDS Semaphore, IpcProofs

Counts ==
    /\ value \in [Obj -> 0 .. ValueMax]
    /\ net \in [Obj -> Int]

\* a thread that resets or detaches a semaphore has it in arg
HasArg ==
    \A t \in Thread : pc[t] \in {"reset", "detach", "resume", "object"} => arg[t] \in Obj

NoTokenForWaiter == \A s \in Obj, t \in Thread : InWait(k, t, s) => value[s] = 0

\* the inductive invariant: that of the kernel and of the takes, that nobody waits
\* while there is a token, and the count of the tokens
SemInv ==
    IpcInv(IpcPc) /\ Counts /\ HasArg /\ NoTokenForWaiter /\ TokensConserved

\* a step that moves no token
LEMMA SemKept ==
    ASSUME SemInv, IpcInv(IpcPc)', HasArg', NoNewWaiter(k', k),
           \A o \in Obj : InFlight(o)' = InFlight(o), value' = value, net' = net
    PROVE  SemInv'
<1>1. Counts' /\ NoTokenForWaiter'
  BY DEF SemInv, Counts, NoTokenForWaiter, NoNewWaiter, InWait
<1>2. TokensConserved'
  BY DEF SemInv, TokensConserved
<1> QED BY <1>1, <1>2 DEF SemInv

\* handlers and PendSV keep the invariant
LEMMA CpuStepSem ==
    ASSUME SemInv, CpuStep(MaskedPc), UNCHANGED <<ipcVars, semVars>>
    PROVE  SemInv'
<1>1. arg' = arg /\ valid' = valid /\ value' = value /\ net' = net
  BY DEF ipcVars, semVars
<1>2. /\ IpcInv(IpcPc)' /\ pc' = pc /\ NoNewWaiter(k', k)
      /\ \A o \in Obj : InFlight(o)' = InFlight(o)
  BY <1>1, CpuStepIpc DEF SemInv
<1>3. HasArg'
  BY <1>1, <1>2 DEF SemInv, HasArg
<1> QED BY <1>1, <1>2, <1>3, SemKept

\* so do the services of the kernel that are not semaphores
LEMMA CpuServiceSem ==
    ASSUME SemInv, NEW t \in Thread, CpuCall(t) \/ CpuFinish(t),
           UNCHANGED <<ipcVars, semVars>>
    PROVE  SemInv'
<1>1. arg' = arg /\ valid' = valid /\ value' = value /\ net' = net
  BY DEF ipcVars, semVars
<1>2. /\ IpcInv(IpcPc)' /\ NoNewWaiter(k', k) /\ \A o \in Obj : InFlight(o)' = InFlight(o)
      /\ \E l \in CpuPc : pc' = [pc EXCEPT ![t] = l]
  BY <1>1, ServiceIpc DEF SemInv, IpcPc
<1>3. HasArg'
  BY <1>1, <1>2, IpcFacts DEF SemInv, HasArg, CpuPc
<1> QED BY <1>1, <1>2, <1>3, SemKept

\* and the rt_schedule inside rt_sem_take
LEMMA TakeScheduleSem ==
    ASSUME SemInv, NEW t \in Thread, ThreadSchedule(t, "take", "took"),
           UNCHANGED <<ipcVars, semVars>>
    PROVE  SemInv'
<1>1. arg' = arg /\ valid' = valid /\ value' = value /\ net' = net
  BY DEF ipcVars, semVars
<1>2. /\ IpcInv(IpcPc)' /\ NoNewWaiter(k', k) /\ \A o \in Obj : InFlight(o)' = InFlight(o)
      /\ pc' = [pc EXCEPT ![t] = "took"]
  BY <1>1, TakeScheduleIpc DEF SemInv, IpcPc, Taking
<1>3. HasArg'
  BY <1>1, <1>2, IpcFacts DEF SemInv, HasArg
<1> QED BY <1>1, <1>2, <1>3, SemKept

\* a take that blocks finds no token, and is granted none
LEMMA TakeBlockSem ==
    ASSUME SemInv, NEW t \in Thread, NEW s \in Obj, NEW d \in Timeouts,
           rt_sem_take_block(t, s, d)
    PROVE  SemInv'
<1>1. /\ Running(t) /\ pc[t] = "run" /\ App[t] # {} /\ value[s] = 0 /\ k.lock = 0
      /\ k' = ipc_list_suspend(k, s, t, Flag[s], d)
      /\ arg' = [arg EXCEPT ![t] = s] /\ pc' = [pc EXCEPT ![t] = "take"]
      /\ isr' = isr /\ value' = value /\ valid' = valid /\ net' = net
  BY DEF rt_sem_take_block, Calls, At, SetArg, Goto
<1>2. t # Idle /\ d \in Nat \cup {None}
  BY <1>1, AppAssumption, TimeoutAssumption
<1>3. /\ IpcInv(IpcPc)'
      /\ \A u \in Thread, o \in Obj : InWait(k', u, o) <=> (InWait(k, u, o) \/ (u = t /\ o = s))
      /\ \A o \in Obj : InFlight(o)' = InFlight(o) \ {t}
  BY <1>1, <1>2, BlockIpc DEF SemInv, IpcPc, Taking
<1>4. \A o \in Obj : InFlight(o)' = InFlight(o)
  BY <1>1, <1>3 DEF InFlight
<1>5. HasArg'
  BY <1>1, IpcFacts DEF SemInv, HasArg
<1>6. NoTokenForWaiter'
  <2>1. ASSUME NEW o \in Obj, NEW u \in Thread, InWait(k', u, o) PROVE value[o] = 0
    BY <1>1, <1>3, <2>1 DEF SemInv, NoTokenForWaiter
  <2> QED BY <1>1, <2>1 DEF NoTokenForWaiter, InWait
<1>7. TokensConserved' /\ Counts'
  BY <1>1, <1>4 DEF SemInv, TokensConserved, Counts
<1> QED BY <1>3, <1>5, <1>6, <1>7 DEF SemInv

\* a step that leaves the kernel state alone, and threads in and out of their takes
LEMMA QuietFlight ==
    ASSUME SemInv, k' = k, \A u \in Thread : pc[u] \in Taking <=> pc'[u] \in Taking,
           \A u \in Thread : arg'[u] = arg[u] \/ pc[u] \notin Taking
    PROVE  \A o \in Obj : InFlight(o)' = InFlight(o)
<1>1. \A u \in Thread : StaysInFlight(u)
  BY SameGrantProps DEF StaysInFlight, NotGranted
<1> QED BY <1>1, FlightKept DEF SemInv, IpcInv

\* a take that finds a token finds no waiter, and takes it out of sem->value
LEMMA TakeNowSem ==
    ASSUME SemInv, NEW s \in Obj, TakeNow(s), k' = k, pc' = pc, arg' = arg,
           IpcInv(IpcPc)'
    PROVE  SemInv'
<1>1. /\ value \in [Obj -> 0 .. ValueMax] /\ net \in [Obj -> Int] /\ NoTokenForWaiter
      /\ value[s] > 0
      /\ value' = [value EXCEPT ![s] = value[s] - 1] /\ net' = [net EXCEPT ![s] = net[s] - 1]
  BY DEF SemInv, Counts, TakeNow
<1>2. Counts'
  BY <1>1, SemAssumption DEF Counts
<1>3. NoTokenForWaiter'
  <2>1. \A u \in Thread : ~InWait(k, u, s)
    BY <1>1 DEF NoTokenForWaiter
  <2>2. ASSUME NEW o \in Obj, NEW u \in Thread, InWait(k, u, o) PROVE value'[o] = 0
    BY <1>1, <2>1, <2>2 DEF NoTokenForWaiter
  <2> QED BY <2>2 DEF NoTokenForWaiter, InWait
<1>4. \A o \in Obj : InFlight(o)' = InFlight(o)
  BY QuietFlight
<1>5. ASSUME NEW o \in Obj PROVE net'[o] = value'[o] + Cardinality(InFlight(o)')
  <2>1. net[o] = value[o] + Cardinality(InFlight(o)) /\ Cardinality(InFlight(o)) \in Nat
    BY FlightFinite DEF SemInv, TokensConserved
  <2> QED BY <1>1, <1>4, <2>1, SemAssumption
<1>6. TokensConserved'
  BY <1>5 DEF TokensConserved
<1> QED BY <1>2, <1>3, <1>6 DEF SemInv, HasArg

\* the return of a take consumes the token that it was granted, and none after an error
LEMMA TakeReturnSem ==
    ASSUME SemInv, NEW t \in Thread, rt_sem_take_return(t)
    PROVE  SemInv'
<1>1. /\ Running(t) /\ pc[t] = "took" /\ k' = k /\ isr' = isr /\ valid' = valid
      /\ pc' = [pc EXCEPT ![t] = "run"] /\ arg' = [arg EXCEPT ![t] = None] /\ value' = value
      /\ net' = IF k.err[t] = "EOK" THEN [net EXCEPT ![arg[t]] = net[arg[t]] - 1] ELSE net
  BY DEF rt_sem_take_return, At, Goto, SetArg
<1>2. /\ IpcInv(IpcPc) /\ Reachable /\ pc \in [Thread -> IpcPc]
      /\ arg \in [Thread -> Obj \cup {None}] /\ valid \in [Obj -> BOOLEAN]
      /\ value \in [Obj -> 0 .. ValueMax] /\ net \in [Obj -> Int] /\ arg[t] \in Obj
  BY <1>1, IpcFacts DEF SemInv, Counts, TakesObj, Taking
<1> PICK s \in Obj : s = arg[t]
  BY <1>2
<1>3. IpcInv(IpcPc)'
  <2>1. Wakes(k', k) /\ "run" \in IpcPc \ Taking /\ pc[t] \notin BlockPc
    BY <1>1, <1>2, WakesNone DEF IpcPc, CpuPc, Taking, BlockPc
  <2> QED BY <1>1, <1>2, <2>1, MoveIpc
<1>4. /\ pc'[t] = "run" /\ \A u \in Thread \ {t} : pc'[u] = pc[u] /\ arg'[u] = arg[u]
      /\ HasArg'
  BY <1>1, <1>2 DEF SemInv, HasArg
<1>5. \A u \in Thread \ {t} : StaysInFlight(u)
  BY <1>1, <1>4, SameGrantProps DEF StaysInFlight, NotGranted
<1>6. \A o \in Obj, u \in Thread \ {t} : u \in InFlight(o)' <=> u \in InFlight(o)
  BY <1>2, <1>5, FlightOfThread
<1>7. \A o \in Obj : t \notin InFlight(o)' /\ (t \in InFlight(o) <=> o = s /\ k.err[t] = "EOK")
  <2>1. \A o \in Obj : ~InWait(k, t, o)
    BY <1>1, <1>2, RunnerWaitsNot
  <2> QED BY <1>1, <1>4, <2>1, InFlightDef DEF Taking
<1>8. ASSUME NEW o \in Obj PROVE net'[o] = value'[o] + Cardinality(InFlight(o)')
  <2>1. net[o] = value[o] + Cardinality(InFlight(o)) /\ Cardinality(InFlight(o)) \in Nat
    BY FlightFinite DEF SemInv, TokensConserved
  <2>2. CASE o = s /\ k.err[t] = "EOK"
    <3>1. Cardinality(InFlight(o)') = Cardinality(InFlight(o)) - 1
      BY <1>6, <1>7, <2>2, FlightCount
    <3> QED BY <1>1, <1>2, <2>1, <2>2, <3>1, SemAssumption
  <2>3. CASE ~(o = s /\ k.err[t] = "EOK")
    <3>1. InFlight(o)' = InFlight(o)
      BY <1>6, <1>7, <2>3, FlightCount
    <3> QED BY <1>1, <1>2, <2>1, <2>3, <3>1
  <2> QED BY <2>2, <2>3
<1>9. TokensConserved'
  BY <1>8 DEF TokensConserved
<1>10. Counts'
  BY <1>1, <1>2 DEF Counts
<1>11. NoTokenForWaiter'
  BY <1>1 DEF SemInv, NoTokenForWaiter, InWait
<1> QED BY <1>3, <1>4, <1>9, <1>10, <1>11 DEF SemInv

\* the section of rt_sem_release puts its token in sem->value, or in flight to the first
\* waiter, never both
LEMMA ReleaseSem ==
    ASSUME SemInv, NEW s \in Obj, ReleaseSection(s)
    PROVE  /\ Wakes(k', k) /\ Counts' /\ NoTokenForWaiter'
           /\ arg' = arg /\ (\A u \in Thread : \/ pc'[u] = pc[u]
                                               \/ pc[u] \notin Taking /\ pc'[u] \notin Taking)
              => TokensConserved'
<1>1. /\ IpcInv(IpcPc) /\ KInv(k) /\ Reachable /\ NoTokenForWaiter
      /\ value \in [Obj -> 0 .. ValueMax] /\ net \in [Obj -> Int]
  BY IpcFacts DEF SemInv, Counts
<1>2. net' = [net EXCEPT ![s] = net[s] + 1]
  BY DEF ReleaseSection
<1>3. \A o \in Obj : /\ net[o] = value[o] + Cardinality(InFlight(o))
                     /\ Cardinality(InFlight(o)) \in Nat
  BY FlightFinite DEF SemInv, TokensConserved
<1> DEFINE Quiet(u) == pc'[u] = pc[u] \/ (pc[u] \notin Taking /\ pc'[u] \notin Taking)
<1>4. CASE k.wait[s] # <<>>
  <2>1. k' = ipc_list_resume(k, s) /\ value' = value
    BY <1>4 DEF ReleaseSection
  <2>2. Wakes(k', k)
    BY <1>1, <1>4, <2>1, WakesFirst
  <2>3. PICK h \in Thread :
           /\ pc[h] \in Taking /\ arg[h] = s /\ k.err[h] = "EOK" /\ k'.err[h] = "EOK"
           /\ InWait(k, h, s) /\ \A o \in Obj : ~InWait(k', h, o)
           /\ \A u \in Thread \ {h} : SameGrant(k', k, u)
    BY <1>1, <1>4, <2>1, WakesFirst
  <2>4. Counts'
    BY <1>1, <1>2, <2>1 DEF Counts
  <2>5. NoTokenForWaiter'
    BY <1>1, <2>1, <2>2 DEF NoTokenForWaiter, Wakes, NoNewWaiter, InWait
  <2>6. ASSUME arg' = arg, \A u \in Thread : Quiet(u) PROVE TokensConserved'
    <3>1. \A u \in Thread \ {h} : StaysInFlight(u)
      BY <2>3, <2>6 DEF StaysInFlight, NotGranted
    <3>2. \A o \in Obj, u \in Thread \ {h} : u \in InFlight(o)' <=> u \in InFlight(o)
      BY <1>1, <3>1, FlightOfThread
    <3>3. \A o \in Obj : h \notin InFlight(o) /\ (h \in InFlight(o)' <=> o = s)
      BY <2>3, <2>6, InFlightDef
    <3>4. ASSUME NEW o \in Obj PROVE net'[o] = value'[o] + Cardinality(InFlight(o)')
      <4>1. CASE o = s
        <5>1. Cardinality(InFlight(o)') = Cardinality(InFlight(o)) + 1
          BY <3>2, <3>3, <4>1, FlightCount
        <5> QED BY <1>1, <1>2, <1>3, <2>1, <4>1, <5>1, SemAssumption
      <4>2. CASE o # s
        <5>1. InFlight(o)' = InFlight(o)
          BY <3>2, <3>3, <4>2, FlightCount
        <5> QED BY <1>1, <1>2, <1>3, <2>1, <4>2, <5>1
      <4> QED BY <4>1, <4>2
    <3> QED BY <3>4 DEF TokensConserved
  <2> QED BY <2>2, <2>4, <2>5, <2>6
<1>5. CASE k.wait[s] = <<>>
  <2>1. k' = k /\ value[s] < ValueMax /\ value' = [value EXCEPT ![s] = value[s] + 1]
    BY <1>5 DEF ReleaseSection
  <2>2. \A u \in Thread : ~InWait(k, u, s)
    BY <1>1, <1>5, WaitProps
  <2>3. Counts'
    BY <1>1, <1>2, <2>1, SemAssumption DEF Counts
  <2>4. ASSUME NEW o \in Obj, NEW u \in Thread, InWait(k, u, o) PROVE value'[o] = 0
    BY <1>1, <2>1, <2>2, <2>4 DEF NoTokenForWaiter
  <2>5. NoTokenForWaiter'
    BY <2>1, <2>4 DEF NoTokenForWaiter, InWait
  <2>6. ASSUME arg' = arg, \A u \in Thread : Quiet(u) PROVE TokensConserved'
    <3>1. \A o \in Obj : InFlight(o)' = InFlight(o)
      BY <2>1, <2>6, QuietFlight
    <3>2. ASSUME NEW o \in Obj PROVE net'[o] = value'[o] + Cardinality(InFlight(o)')
      BY <1>1, <1>2, <1>3, <2>1, <3>1, SemAssumption
    <3> QED BY <3>2 DEF TokensConserved
  <2> QED BY <1>1, <2>1, <2>3, <2>5, <2>6, WakesNone
<1> QED BY <1>4, <1>5

\* rt_sem_release, in a thread or in a handler
LEMMA ReleaseStepSem ==
    ASSUME SemInv, NEW s \in Obj, DevRelease(s) \/ \E t \in Thread : rt_sem_release(t, s)
    PROVE  SemInv'
<1>1. ReleaseSection(s) /\ arg' = arg /\ valid' = valid
  BY DEF DevRelease, rt_sem_release
<1>2. Wakes(k', k) /\ Counts' /\ NoTokenForWaiter'
  BY <1>1, ReleaseSem
<1>3. /\ IpcInv(IpcPc) /\ isr \in Seq(Frame) /\ pc \in [Thread -> IpcPc]
      /\ arg \in [Thread -> Obj \cup {None}] /\ valid \in [Obj -> BOOLEAN] /\ HasArg
  BY IpcFacts DEF SemInv
<1>4. CASE DevRelease(s)
  <2>1. pc' = pc
    BY <1>4 DEF DevRelease
  <2>2. isr' \in Seq(Frame)
    BY <1>3, <1>4, FrameProps DEF DevRelease, InHandler, GotoFrame
  <2>3. IpcInv(IpcPc)' /\ HasArg'
    BY <1>1, <1>2, <1>3, <2>1, <2>2, DevIpc DEF HasArg
  <2> QED BY <1>1, <1>2, <2>1, <2>3, ReleaseSem DEF SemInv
<1>5. ASSUME NEW t \in Thread, rt_sem_release(t, s) PROVE SemInv'
  <2> DEFINE l == IF k.wait[s] # <<>> THEN "sched" ELSE "run"
  <2>1. Running(t) /\ pc[t] = "run" /\ pc' = [pc EXCEPT ![t] = l] /\ isr' = isr
    BY <1>5 DEF rt_sem_release, Calls, At, Goto
  <2>2. l \in CpuPc
    BY DEF CpuPc
  <2> HIDE DEF l
  <2>3. arg' = [arg EXCEPT ![t] = arg[t]] /\ arg[t] \in Obj \cup {None}
    BY <1>1, <1>3
  <2>4. IpcInv(IpcPc)'
    <3>1. l \in IpcPc \ Taking /\ pc[t] \notin BlockPc
      BY <2>1, <2>2 DEF CpuPc, IpcPc, Taking, BlockPc
    <3> QED BY <1>1, <1>2, <1>3, <2>1, <2>3, <3>1, MoveIpc
  <2>5. HasArg' /\ \A u \in Thread : pc'[u] = pc[u] \/ (pc[u] \notin Taking /\ pc'[u] \notin Taking)
    BY <1>1, <1>3, <2>1, <2>2 DEF HasArg, CpuPc, Taking
  <2> QED BY <1>1, <1>2, <2>4, <2>5, ReleaseSem DEF SemInv
<1> QED BY <1>4, <1>5

\* one waiter is resumed with an error, by a reset or by the loop of a detach: no token
\* is granted
LEMMA ResumeErrorSem ==
    ASSUME SemInv, NEW t \in Thread, ResetResume(t) \/ (DetachResume(t) /\ UNCHANGED semVars)
    PROVE  SemInv'
<1>1. /\ Running(t) /\ pc[t] \in {"reset", "resume"} /\ k.wait[arg[t]] # <<>>
      /\ k' = ResumeWithError(k, arg[t]) /\ isr' = isr
      /\ pc' = pc \/ pc' = [pc EXCEPT ![t] = "detach"]
      /\ arg' = arg /\ valid' = valid /\ value' = value /\ net' = net
  BY DEF ResetResume, DetachResume, At, Goto, ipcVars, semVars
<1>2. /\ IpcInv(IpcPc) /\ Reachable /\ pc \in [Thread -> IpcPc] /\ HasArg
      /\ arg \in [Thread -> Obj \cup {None}] /\ valid \in [Obj -> BOOLEAN] /\ arg[t] \in Obj
  BY <1>1, IpcFacts DEF SemInv, HasArg
<1>3. Wakes(k', k) /\ \A u \in Thread : NotGranted(k', k, u)
  BY <1>1, <1>2, WakesWithError
<1>4. PICK l \in {"reset", "resume", "detach"} : pc' = [pc EXCEPT ![t] = l]
  <2>1. pc = [pc EXCEPT ![t] = pc[t]]
    BY <1>2
  <2> QED BY <1>1, <2>1
<1>5. IpcInv(IpcPc)'
  <2>1. l \in IpcPc \ Taking /\ pc[t] \notin BlockPc /\ arg' = [arg EXCEPT ![t] = arg[t]]
    BY <1>1, <1>2, <1>4 DEF IpcPc, Taking, BlockPc
  <2> QED BY <1>1, <1>2, <1>3, <1>4, <2>1, MoveIpc
<1>6. HasArg' /\ \A u \in Thread : pc[u] \in Taking <=> pc'[u] \in Taking
  BY <1>1, <1>2, <1>4 DEF HasArg, Taking
<1>7. \A u \in Thread : StaysInFlight(u)
  BY <1>1, <1>3, <1>6 DEF StaysInFlight
<1>8. \A o \in Obj : InFlight(o)' = InFlight(o)
  BY <1>2, <1>7, FlightKept
<1> QED BY <1>1, <1>3, <1>5, <1>6, <1>8, SemKept DEF Wakes

\* a reset trades the value for another and leaves the takes in flight alone
LEMMA ResetValueSem ==
    ASSUME SemInv, NEW t \in Thread, NEW n \in ResetValues, ResetValue(t, n)
    PROVE  SemInv'
<1>1. /\ Running(t) /\ pc[t] = "reset" /\ k.wait[arg[t]] = <<>> /\ k' = k /\ isr' = isr
      /\ pc' = [pc EXCEPT ![t] = "sched"] /\ arg' = [arg EXCEPT ![t] = None]
      /\ value' = [value EXCEPT ![arg[t]] = n] /\ valid' = valid
      /\ net' = [net EXCEPT ![arg[t]] = net[arg[t]] + n - value[arg[t]]]
  BY DEF ResetValue, At, Goto, SetArg
<1>2. /\ IpcInv(IpcPc) /\ KInv(k) /\ pc \in [Thread -> IpcPc]
      /\ arg \in [Thread -> Obj \cup {None}] /\ valid \in [Obj -> BOOLEAN]
      /\ value \in [Obj -> 0 .. ValueMax] /\ net \in [Obj -> Int] /\ arg[t] \in Obj
      /\ HasArg /\ NoTokenForWaiter
  BY <1>1, IpcFacts DEF SemInv, Counts, HasArg
<1>3. IpcInv(IpcPc)'
  <2>1. Wakes(k', k) /\ "sched" \in IpcPc \ Taking /\ pc[t] \notin BlockPc
    BY <1>1, <1>2, WakesNone DEF IpcPc, CpuPc, Taking, BlockPc
  <2> QED BY <1>1, <1>2, <2>1, MoveIpc
<1>4. HasArg' /\ \A o \in Obj : InFlight(o)' = InFlight(o)
  BY <1>1, <1>2, QuietFlight DEF HasArg, Taking
<1>5. Counts'
  <2>1. n \in 0 .. ValueMax /\ net[arg[t]] + n - value[arg[t]] \in Int
    BY <1>2, SemAssumption
  <2> QED BY <1>1, <1>2, <2>1 DEF Counts
<1>6. NoTokenForWaiter'
  <2>1. \A u \in Thread : ~InWait(k, u, arg[t])
    BY <1>1, <1>2, WaitProps
  <2>2. ASSUME NEW o \in Obj, NEW u \in Thread, InWait(k, u, o) PROVE value'[o] = 0
    BY <1>1, <1>2, <2>1, <2>2 DEF NoTokenForWaiter
  <2> QED BY <1>1, <2>2 DEF NoTokenForWaiter, InWait
<1>7. ASSUME NEW o \in Obj PROVE net'[o] = value'[o] + Cardinality(InFlight(o)')
  <2>1. net[o] = value[o] + Cardinality(InFlight(o))
    BY DEF SemInv, TokensConserved
  <2>2. Cardinality(InFlight(o)) \in Nat /\ n \in Nat /\ value[o] \in Nat
    BY <1>2, FlightFinite, SemAssumption
  <2>3. Cardinality(InFlight(o)') = Cardinality(InFlight(o))
    BY <1>4
  <2>4. CASE o = arg[t]
    <3>1. value'[o] = n /\ net'[o] = net[o] + n - value[o]
      BY <1>1, <1>2, <2>4
    <3> QED BY <2>1, <2>2, <2>3, <3>1
  <2>5. CASE o # arg[t]
    <3>1. value'[o] = value[o] /\ net'[o] = net[o]
      BY <1>1, <1>2, <2>5
    <3> QED BY <2>1, <2>3, <3>1
  <2> QED BY <2>4, <2>5
<1>8. TokensConserved'
  BY <1>7 DEF TokensConserved
<1> QED BY <1>3, <1>4, <1>5, <1>6, <1>8 DEF SemInv

\* the steps of a service that only look at the kernel state and move no token
LEMMA QuietStepsSem ==
    ASSUME SemInv, NEW t \in Thread,
           \/ DetachTest(t) /\ UNCHANGED semVars
           \/ DetachObject(t) /\ UNCHANGED semVars
           \/ \E s \in Obj : ResetEnter(t, s)
           \/ \E s \in Obj : DetachEnter(t, s) /\ UNCHANGED semVars
    PROVE  SemInv'
<1>1. /\ IpcInv(IpcPc) /\ pc \in [Thread -> IpcPc] /\ HasArg
      /\ arg \in [Thread -> Obj \cup {None}] /\ valid \in [Obj -> BOOLEAN]
  BY IpcFacts DEF SemInv
<1>2. /\ Running(t) /\ pc[t] \in {"detach", "object", "run"} /\ k' = k /\ isr' = isr
      /\ value' = value /\ net' = net
  BY DEF DetachTest, DetachObject, ResetEnter, DetachEnter, Calls, At, semVars
<1>3. PICK l \in {"resume", "object", "run", "reset", "detach"}, x \in Obj \cup {None} :
         /\ pc' = [pc EXCEPT ![t] = l] /\ arg' = [arg EXCEPT ![t] = x]
         /\ l = "run" \/ x \in Obj
  <2>1. CASE DetachTest(t)
    <3>1. arg' = [arg EXCEPT ![t] = arg[t]] /\ arg[t] \in Obj
      BY <1>1, <2>1 DEF DetachTest, At, HasArg, ipcVars
    <3> QED BY <2>1, <3>1 DEF DetachTest, Goto
  <2>2. CASE DetachObject(t)
    BY <2>2 DEF DetachObject, Goto, SetArg
  <2>3. ASSUME NEW s \in Obj, ResetEnter(t, s) \/ DetachEnter(t, s)
        PROVE  /\ pc' = [pc EXCEPT ![t] = "reset"] \/ pc' = [pc EXCEPT ![t] = "detach"]
               /\ arg' = [arg EXCEPT ![t] = s]
    BY <2>3 DEF ResetEnter, DetachEnter, Goto, SetArg
  <2> QED BY <2>1, <2>2, <2>3
<1>4. valid' \in [Obj -> BOOLEAN]
  BY <1>1 DEF DetachTest, DetachObject, ResetEnter, DetachEnter, ipcVars
<1>5. IpcInv(IpcPc)'
  <2>1. Wakes(k', k) /\ l \in IpcPc \ Taking /\ pc[t] \notin BlockPc
    BY <1>1, <1>2, <1>3, WakesNone DEF IpcPc, CpuPc, Taking, BlockPc
  <2> QED BY <1>1, <1>2, <1>3, <1>4, <2>1, MoveIpc
<1>6. HasArg' /\ \A o \in Obj : InFlight(o)' = InFlight(o)
  BY <1>1, <1>2, <1>3, QuietFlight DEF HasArg, Taking
<1>7. NoNewWaiter(k', k)
  BY <1>2 DEF NoNewWaiter
<1> QED BY <1>2, <1>5, <1>6, <1>7, SemKept

\* the invariant holds at the start
LEMMA SemInitInv == Init => SemInv
<1> SUFFICES ASSUME Init PROVE SemInv
  OBVIOUS
<1>1. IpcInit /\ pc = [t \in Thread |-> "run"] /\ value = InitValue /\ net = InitValue
  BY DEF Init, IpcInit, CpuInit
<1>2. IpcInv(IpcPc) /\ \A o \in Obj : k.wait[o] = <<>> /\ InFlight(o) = {}
  BY <1>1, IpcInitInv DEF IpcPc, CpuPc
<1>3. Counts /\ HasArg
  BY <1>1, SemAssumption DEF Counts, HasArg
<1>4. NoTokenForWaiter
  BY <1>2 DEF NoTokenForWaiter, InWait, Range
<1>5. \A o \in Obj : Cardinality(InFlight(o)) = 0
  BY <1>2, FS_EmptySet
<1>6. TokensConserved
  BY <1>1, <1>5, SemAssumption DEF TokensConserved
<1> QED BY <1>2, <1>3, <1>4, <1>6 DEF SemInv

\* and every step keeps it
LEMMA SemNextInv == SemInv /\ [Next]_vars => SemInv'
<1> SUFFICES ASSUME SemInv, [Next]_vars PROVE SemInv'
  OBVIOUS
<1>1. CASE CpuStep(MaskedPc) /\ UNCHANGED <<ipcVars, semVars>>
  BY <1>1, CpuStepSem
<1>2. ASSUME NEW s \in Obj, DevTryTake(s) PROVE SemInv'
  <2>1. TakeNow(s) /\ k' = k /\ pc' = pc /\ arg' = arg /\ valid' = valid
    BY <1>2 DEF DevTryTake
  <2>2. isr' \in Seq(Frame)
    BY <1>2, FrameProps, IpcFacts DEF SemInv, DevTryTake, InHandler, GotoFrame
  <2>3. IpcInv(IpcPc)'
    BY <2>1, <2>2, DevIpc, WakesNone DEF SemInv
  <2> QED BY <2>1, <2>3, TakeNowSem
<1>3. ASSUME NEW t \in Thread, NEW s \in Obj, rt_sem_take_now(t, s) PROVE SemInv'
  <2>1. k' = k /\ isr' = isr /\ pc' = pc /\ arg' = arg /\ valid' = valid /\ TakeNow(s)
    BY <1>3 DEF rt_sem_take_now, kernelVars, ipcVars
  <2>2. IpcInv(IpcPc)'
    BY <2>1, DevIpc, WakesNone, IpcFacts DEF SemInv
  <2> QED BY <2>1, <2>2, TakeNowSem
<1>4. CASE DevStep
  BY <1>2, <1>4, ReleaseStepSem DEF DevStep
<1>5. ASSUME NEW t \in Thread, Finish(t) PROVE SemInv'
  BY <1>5, CpuServiceSem, TakeScheduleSem, TakeReturnSem, ResumeErrorSem, ResetValueSem,
     QuietStepsSem DEF Finish, DetachStep
<1>6. ASSUME NEW t \in Thread, Call(t) PROVE SemInv'
  BY <1>3, <1>6, CpuServiceSem, TakeBlockSem, ReleaseStepSem, QuietStepsSem DEF Call
<1>7. CASE UNCHANGED vars
  <2>1. /\ k' = k /\ isr' = isr /\ pc' = pc /\ arg' = arg /\ valid' = valid
        /\ value' = value /\ net' = net
    BY <1>7 DEF vars
  <2>2. IpcInv(IpcPc)'
    BY <2>1, DevIpc, WakesNone, IpcFacts DEF SemInv
  <2>3. HasArg' /\ NoNewWaiter(k', k) /\ \A o \in Obj : InFlight(o)' = InFlight(o)
    BY <2>1, QuietFlight DEF SemInv, HasArg, NoNewWaiter
  <2> QED BY <2>1, <2>2, <2>3, SemKept
<1> QED BY <1>1, <1>4, <1>5, <1>6, <1>7 DEF Next

\* no step switches away from a thread that has locked the scheduler
LEMMA SemLockStep == SemInv /\ [Next]_vars => LockKeepsThread
<1> SUFFICES ASSUME SemInv, [Next]_vars PROVE LockKeepsThread
  OBVIOUS
<1>1. CpuInv /\ IpcInv(IpcPc) /\ pc \in [Thread -> IpcPc]
  BY IpcFacts DEF SemInv
<1>2. StaysLocked(k', k) \/ k' = k \/ Wakes(k', k) => LockKeepsThread
  BY DEF StaysLocked, SameCpu, LockKeepsThread, Wakes
<1>3. CASE CpuStep(MaskedPc)
  BY <1>1, <1>2, <1>3, CpuStepInv
<1>4. ASSUME NEW s \in Obj, ReleaseSection(s) PROVE LockKeepsThread
  BY <1>2, <1>4, ReleaseSem
<1>5. CASE DevStep
  BY <1>2, <1>4, <1>5 DEF DevStep, DevRelease, DevTryTake
<1>6. ASSUME NEW t \in Thread, CpuCall(t) \/ CpuFinish(t) \/ ThreadSchedule(t, "take", "took")
      PROVE  LockKeepsThread
  BY <1>1, <1>2, <1>6, CpuCallInv, CpuFinishInv, ThreadScheduleInv
<1>7. ASSUME NEW t \in Thread, ResetResume(t) \/ DetachResume(t) PROVE LockKeepsThread
  <2>1. /\ k.wait[arg[t]] # <<>> /\ k' = ResumeWithError(k, arg[t]) /\ arg[t] \in Obj
    BY <1>7 DEF ResetResume, DetachResume, At, SemInv, HasArg
  <2> QED BY <1>1, <1>2, <2>1, WakesWithError
<1>8. ASSUME NEW t \in Thread, Finish(t) PROVE LockKeepsThread
  <2>1. ResetResume(t) \/ DetachResume(t) \/ CpuFinish(t) \/ ThreadSchedule(t, "take", "took")
        \/ k' = k
    BY <1>8 DEF Finish, DetachStep, DetachTest, DetachObject, ResetValue, rt_sem_take_return
  <2> QED BY <1>2, <1>6, <1>7, <2>1
<1>9. ASSUME NEW t \in Thread, Call(t) PROVE LockKeepsThread
  <2>1. \/ CpuCall(t) \/ k' = k \/ k.lock = 0
        \/ \E s \in Obj : ReleaseSection(s)
    BY <1>9 DEF Call, rt_sem_take_now, rt_sem_take_block, rt_sem_release, ResetEnter,
                DetachEnter, kernelVars
  <2> QED BY <1>2, <1>4, <1>6, <2>1 DEF LockKeepsThread
<1>10. CASE UNCHANGED vars
  BY <1>2, <1>10 DEF vars
<1> QED BY <1>3, <1>5, <1>8, <1>9, <1>10 DEF Next

\* The inductive invariant of the kernel with counting semaphores (ipc.c, thread.c,
\* scheduler.c, timer.c) holds in every reachable state.
THEOREM SemInvariant == Spec => []SemInv
  BY SemInitInv, SemNextInv, PTL DEF Spec

\* the invariant says what the properties of the modules say
LEMMA SemInvMeaning ==
    ASSUME SemInv
    PROVE  /\ TypeOK /\ NoLostWakeup /\ TokensConserved /\ WaiterIsReachable
           /\ ListsMatchStat /\ ReadyIsQueued /\ GroupMatchesQueues
           /\ SwitchCoherent /\ OneRunning /\ IdleRunnable /\ TimersOfSuspended
<1>1. IpcInv(IpcPc) /\ KInv(k)
  BY IpcFacts DEF SemInv
<1>2. /\ k \in KernelState /\ isr \in Seq(Frame) /\ WaiterIsReachable
      /\ ListsMatchStat /\ ReadyIsQueued /\ GroupMatchesQueues
      /\ SwitchCoherent /\ OneRunning /\ IdleRunnable /\ TimersOfSuspended
  BY <1>1, IpcMeaning
<1>3. TypeOK
  BY <1>1, <1>2 DEF SemInv, Counts, IpcInv, IpcTypes, TypeOK, IpcTypeOK
<1>4. NoLostWakeup
  <2>1. ASSUME NEW s \in Obj, k.wait[s] # <<>> PROVE value[s] = 0
    BY <1>1, <2>1, WaitProps DEF SemInv, NoTokenForWaiter
  <2> QED BY <2>1 DEF NoLostWakeup
<1> QED BY <1>2, <1>3, <1>4 DEF SemInv

-----------------------------------------------------------------------------
\* While a thread has locked the scheduler (rt_enter_critical), no release, timeout,
\* tick or device interrupt takes the processor from it: rt_schedule requests no switch
\* under the lock, and none can be pending when the lock is taken.
THEOREM SemLockHeld == Spec => LockHeld
<1>1. Spec => [][LockKeepsThread]_vars
  BY SemInvariant, SemLockStep, PTL DEF Spec
<1> QED BY <1>1 DEF LockHeld

\* Every variable keeps its type; in particular no release takes sem->value above
\* RT_SEM_VALUE_MAX and no take below 0.
THEOREM SemTypes == Spec => []TypeOK
  BY SemInvariant, SemInvMeaning, PTL

\* Nobody waits on a semaphore that has a token, whatever releases, timeouts,
\* resets and detaches have interleaved (rt_sem_take, rt_sem_release).
THEOREM SemNoLostWakeup == Spec => []NoLostWakeup
  BY SemInvariant, SemInvMeaning, PTL

\* A thread suspended in rt_sem_take is on the wait list of its own semaphore, and
\* one that a release, a timeout or an error has woken is off it.
THEOREM SemWaiterIsReachable == Spec => []WaiterIsReachable
  BY SemInvariant, SemInvMeaning, PTL

\* tlist is linked where thread->stat says, in every interleaving of services,
\* ticks, timeouts and device interrupts.
THEOREM SemListsMatchStat == Spec => []ListsMatchStat
  BY SemInvariant, SemInvMeaning, PTL

\* The priority bitmap that rt_schedule reads has exactly the bits of the ready
\* queues that are not empty.
THEOREM SemGroupMatchesQueues == Spec => []GroupMatchesQueues
  BY SemInvariant, SemInvMeaning, PTL

\* A READY thread is in the ready queue of its priority: rt_schedule will find it.
THEOREM SemReadyIsQueued == Spec => []ReadyIsQueued
  BY SemInvariant, SemInvMeaning, PTL

\* However many switches rt_schedule requests before PendSV runs, PendSV saves the
\* context on the processor and loads rt_current_thread.
THEOREM SemSwitchCoherent == Spec => []SwitchCoherent
  BY SemInvariant, SemInvMeaning, PTL

\* Only rt_current_thread is RUNNING, and rt_schedule never finds it READY.
THEOREM SemOneRunning == Spec => []OneRunning
  BY SemInvariant, SemInvMeaning, PTL

\* A thread timer is armed only while its thread is suspended: the assertion at the
\* head of _thread_timeout never fails.
THEOREM SemTimersOfSuspended == Spec => []TimersOfSuspended
  BY SemInvariant, SemInvMeaning, PTL

\* No token of a semaphore is lost, duplicated or made up: what the accepted releases
\* have given and the returned takes have not consumed is in sem->value or granted to a
\* take that has not returned, in every interleaving of rt_sem_take, rt_sem_release,
\* timeouts, resets, detaches and device interrupts.
THEOREM SemTokensConserved == Spec => []TokensConserved
  BY SemInvariant, SemInvMeaning, PTL

-----------------------------------------------------------------------------
(* Prompt preemption.  rt_sem_detach and rt_sem_delete resume the waiters without a *)
(* rt_schedule, so it is promised up to the first call of them.                     *)

\* unless a rt_schedule is still to come, no ready thread precedes the current one
Prompt ==
    /\ \A t \in Thread : pc[t] \notin {"detach", "resume", "object"}
    /\ \/ k.lock # 0
       \/ pc[k.cur] \in Unsettled \cup {"reset"}
       \/ InHandler("dev", "sched")
       \/ Highest(k)

\* a step with which the current thread gets to a point before a rt_schedule
LEMMA PromptSettling ==
    ASSUME SemInv, Prompt, NEW t \in Thread, NEW l \in Unsettled \cup {"reset"},
           pc' = [pc EXCEPT ![t] = l], k'.cur = t
    PROVE  Prompt'
<1>1. pc'[t] = l /\ \A u \in Thread \ {t} : pc'[u] = pc[u]
  BY IpcFacts DEF SemInv
<1> QED BY <1>1 DEF Prompt, Unsettled

\* a step of the running thread that changes nobody's urgency
LEMMA PromptSameRun ==
    ASSUME SemInv, Prompt, NEW t \in Thread, Running(t), pc[t] \notin Unsettled \cup {"reset"},
           SameRun(k', k), k'.lock = k.lock, pc' = pc \/ pc' = [pc EXCEPT ![t] = "run"]
    PROVE  Prompt'
<1>1. k.cur = t /\ ~InHandler("dev", "sched")
  BY CallerProps, IpcFacts DEF SemInv, Running, InHandler
<1>2. Highest(k) \/ k'.lock # 0
  BY <1>1 DEF Prompt
<1>3. Highest(k') \/ k'.lock # 0
  BY <1>2 DEF Highest, SameRun
<1>4. \A u \in Thread : pc'[u] \notin {"detach", "resume", "object"}
  BY IpcFacts DEF SemInv, Prompt
<1> QED BY <1>3, <1>4 DEF Prompt

\* handlers and PendSV
LEMMA PromptCpu ==
    ASSUME SemInv, Prompt, CpuStep(MaskedPc)
    PROVE  Prompt'
<1>1. /\ CpuInv /\ KInv(k) /\ k.lock \in Nat
      /\ k'.lock = k.lock /\ pc' = pc
  BY IpcFacts, CpuStepInv DEF SemInv
<1>2. k'.lock > 0 \/ Highest(k') \/ SameRun(k', k)
  BY <1>1, CpuStepHighest
<1>3. CASE InHandler("dev", "sched")
  <2>1. DevSchedule
    BY <1>3 DEF CpuStep, TickEnter, TickSchedule, TimerExpire, TickLeave, DevEnter,
                DevLeave, PendSV_Handler, InHandler, Last
  <2>2. k' = rt_schedule(k)
    BY <2>1 DEF DevSchedule
  <2>3. k.lock = 0 => Highest(k')
    BY <1>1, <2>2, ScheduleHighest
  <2> QED BY <1>1, <2>3 DEF Prompt
<1>4. CASE ~InHandler("dev", "sched") /\ SameRun(k', k)
  BY <1>1, <1>4 DEF Prompt, SameRun, Highest
<1> QED BY <1>1, <1>2, <1>3, <1>4 DEF Prompt

\* a release has its rt_schedule behind it when it has resumed a thread
LEMMA PromptRelease ==
    ASSUME SemInv, Prompt, NEW s \in Obj, DevRelease(s) \/ \E t \in Thread : rt_sem_release(t, s)
    PROVE  Prompt'
<1>1. ReleaseSection(s) /\ isr \in Seq(Frame)
  BY IpcFacts DEF DevRelease, rt_sem_release, SemInv
<1>2. Wakes(k', k)
  BY <1>1, ReleaseSem
<1>3. k.wait[s] = <<>> => k' = k
  BY <1>1 DEF ReleaseSection
<1>4. CASE DevRelease(s)
  <2>1. pc' = pc /\ InHandler("dev", "body") /\ ~InHandler("dev", "sched") /\ isr # <<>>
    BY <1>4 DEF DevRelease, InHandler
  <2>2. CASE k.wait[s] # <<>>
    <3>1. isr' = [isr EXCEPT ![Len(isr)].at = "sched"]
      BY <1>4, <2>2 DEF DevRelease, GotoFrame
    <3>2. isr' # <<>> /\ Last(isr') = [irq |-> "dev", at |-> "sched"]
      <4>1. /\ Len(isr) \in Nat \ {0} /\ Len(isr') = Len(isr) /\ isr[Len(isr)] \in Frame
            /\ isr[Len(isr)] = [irq |-> "dev", at |-> "body"]
        BY <1>1, <2>1, <3>1 DEF InHandler, Last
      <4>2. isr'[Len(isr)] = [[irq |-> "dev", at |-> "body"] EXCEPT !.at = "sched"]
        BY <1>1, <3>1, <4>1
      <4>3. [[irq |-> "dev", at |-> "body"] EXCEPT !.at = "sched"]
               = [irq |-> "dev", at |-> "sched"]
        OBVIOUS
      <4>4. isr' # <<>>
        BY <4>1
      <4> QED BY <4>1, <4>2, <4>3, <4>4 DEF Last
    <3> QED BY <2>1, <3>2 DEF Prompt, InHandler
  <2>3. CASE k.wait[s] = <<>>
    BY <1>3, <2>1, <2>3 DEF Prompt
  <2> QED BY <2>2, <2>3
<1>5. ASSUME NEW t \in Thread, rt_sem_release(t, s) PROVE Prompt'
  <2>1. Running(t) /\ pc[t] = "run"
    BY <1>5 DEF rt_sem_release, Calls, At
  <2>2. k'.cur = t
    BY <1>2, <2>1, CallerProps, IpcFacts DEF SemInv, Wakes, SameCpu
  <2>3. CASE k.wait[s] # <<>>
    <3>1. pc' = [pc EXCEPT ![t] = "sched"]
      BY <1>5, <2>3 DEF rt_sem_release, Goto
    <3>2. "sched" \in Unsettled \cup {"reset"}
      BY DEF Unsettled
    <3> QED BY <2>2, <3>1, <3>2, PromptSettling
  <2>4. CASE k.wait[s] = <<>>
    <3>1. pc' = [pc EXCEPT ![t] = "run"] /\ k' = k
      BY <1>3, <1>5, <2>4 DEF rt_sem_release, Goto
    <3> QED BY <2>1, <3>1, PromptSameRun DEF SameRun, Unsettled
  <2> QED BY <2>3, <2>4
<1> QED BY <1>4, <1>5

\* the steps with which a thread finishes a service
LEMMA PromptFinish ==
    ASSUME SemInv, Prompt, NEW t \in Thread, Finish(t)
    PROVE  Prompt'
<1>1. /\ CpuInv /\ IpcInv(IpcPc) /\ KInv(k) /\ k.lock \in Nat /\ pc \in [Thread -> IpcPc]
      /\ \A u \in Thread : pc[u] \notin {"detach", "resume", "object"}
  BY IpcFacts DEF SemInv, Prompt
<1>2. Running(t) => k.cur = t
  BY <1>1, CallerProps
<1>3. CASE CpuFinish(t) \/ ThreadSchedule(t, "take", "took")
  <2>1. /\ Running(t)
        /\ \E l \in CpuPc \cup {"took"} : pc' = [pc EXCEPT ![t] = l]
        /\ pc[t] = "slept" => pc' = [pc EXCEPT ![t] = "run"]
    BY <1>3 DEF CpuFinish, ThreadSchedule, SleepReturn, At, Goto, CpuPc
  <2>2. \A u \in Thread : pc'[u] \notin {"detach", "resume", "object"}
    BY <1>1, <2>1 DEF CpuPc
  <2>3. \/ k'.lock > 0
        \/ Highest(k')
        \/ pc[t] = "slept" /\ k.cur = t /\ SameRun(k', k) /\ k'.lock = k.lock
    BY <1>1, <1>3, FinishHighest
  <2>4. CASE pc[t] = "slept" /\ SameRun(k', k) /\ k'.lock = k.lock
    BY <2>1, <2>4, PromptSameRun DEF Unsettled
  <2> QED BY <2>2, <2>3, <2>4 DEF Prompt
<1>4. CASE rt_sem_take_return(t)
  <2>1. Running(t) /\ pc[t] = "took" /\ k' = k /\ pc' = [pc EXCEPT ![t] = "run"]
    BY <1>4 DEF rt_sem_take_return, At, Goto
  <2> QED BY <2>1, PromptSameRun DEF SameRun, Unsettled
<1>5. CASE ResetResume(t)
  <2>1. /\ Running(t) /\ pc[t] = "reset" /\ pc' = pc /\ k.wait[arg[t]] # <<>>
        /\ k' = ResumeWithError(k, arg[t]) /\ arg[t] \in Obj
    BY <1>5 DEF ResetResume, At, SemInv, HasArg
  <2>2. k'.cur = t
    BY <1>1, <1>2, <2>1, WakesWithError DEF Wakes, SameCpu
  <2> QED BY <1>1, <2>1, <2>2 DEF Prompt
<1>6. ASSUME NEW n \in ResetValues, ResetValue(t, n) PROVE Prompt'
  <2>1. Running(t) /\ k' = k /\ pc' = [pc EXCEPT ![t] = "sched"]
    BY <1>6 DEF ResetValue, At, Goto
  <2> QED BY <1>2, <2>1, PromptSettling DEF Unsettled
<1>7. ~DetachStep(t)
  BY <1>1 DEF DetachStep, DetachTest, DetachResume, DetachObject, At
<1> QED BY <1>3, <1>4, <1>5, <1>6, <1>7 DEF Finish

\* the services that a thread calls
LEMMA PromptCall ==
    ASSUME SemInv, Prompt, NEW t \in Thread, Call(t)
    PROVE  Prompt' \/ Detached'
<1>1. /\ CpuInv /\ IpcInv(IpcPc) /\ pc \in [Thread -> IpcPc]
      /\ \A u \in Thread : pc[u] \notin {"detach", "resume", "object"}
  BY IpcFacts DEF SemInv, Prompt
<1>2. CASE CpuCall(t)
  <2>1. \E l \in CpuPc : pc' = [pc EXCEPT ![t] = l]
    BY <1>1, <1>2, CpuCallInv
  <2>2. \A u \in Thread : pc'[u] \notin {"detach", "resume", "object"}
    BY <1>1, <2>1 DEF CpuPc
  <2>3. \/ k'.lock > 0
        \/ Highest(k')
        \/ k'.cur = t /\ pc'[t] \in Unsettled
    BY <1>1, <1>2, CpuCallHighest
  <2> QED BY <2>2, <2>3 DEF Prompt
<1>3. ASSUME NEW s \in Obj, rt_sem_take_now(t, s) PROVE Prompt'
  BY <1>3, PromptSameRun
     DEF rt_sem_take_now, Calls, At, kernelVars, SameRun, Unsettled
<1>4. ASSUME NEW s \in Obj, NEW d \in Timeouts, rt_sem_take_block(t, s, d) PROVE Prompt'
  <2>1. /\ Running(t) /\ pc[t] = "run" /\ App[t] # {} /\ k.lock = 0
        /\ k' = ipc_list_suspend(k, s, t, Flag[s], d)
        /\ arg' = [arg EXCEPT ![t] = s] /\ pc' = [pc EXCEPT ![t] = "take"]
        /\ isr' = isr /\ valid' = valid
    BY <1>4 DEF rt_sem_take_block, Calls, At, SetArg, Goto
  <2>2. t # Idle /\ d \in Nat \cup {None} /\ SameButPrio(k, k)
    BY <1>1, <2>1, AppAssumption, TimeoutAssumption, IpcFacts, SameButPrioNone
  <2>3. k'.cur = t
    BY <1>1, <2>1, <2>2, BlockFromIpc DEF IpcPc, Taking
  <2> QED BY <2>1, <2>3, PromptSettling DEF Unsettled
<1>5. ASSUME NEW s \in Obj, rt_sem_release(t, s) PROVE Prompt'
  BY <1>5, PromptRelease
<1>6. ASSUME NEW s \in Obj, ResetEnter(t, s) PROVE Prompt'
  <2>1. Running(t) /\ k' = k /\ pc' = [pc EXCEPT ![t] = "reset"]
    BY <1>6 DEF ResetEnter, Calls, At, Goto
  <2> QED BY <1>1, <2>1, PromptSettling, CallerProps
<1>7. ASSUME NEW s \in Obj, DetachEnter(t, s) PROVE Detached'
  BY <1>1, <1>7 DEF Detached, DetachEnter, Goto
<1> QED BY <1>2, <1>3, <1>4, <1>5, <1>6, <1>7 DEF Call

\* a detach that has begun goes on to its end, and the object does not come back
LEMMA DetachedStays ==
    ASSUME SemInv, Detached, [Next]_vars
    PROVE  Detached'
<1>1. CpuInv /\ pc \in [Thread -> IpcPc] /\ valid \in [Obj -> BOOLEAN]
      /\ arg \in [Thread -> Obj \cup {None}]
  BY IpcFacts DEF SemInv
<1>2. CASE pc' = pc /\ valid' = valid
  BY <1>2 DEF Detached
<1>3. ASSUME NEW t \in Thread, NEW l, pc[t] \notin {"detach", "resume", "object"},
             pc' = [pc EXCEPT ![t] = l], valid' = valid
      PROVE  Detached'
  <2>1. \A u \in Thread \ {t} : pc'[u] = pc[u]
    BY <1>1, <1>3
  <2> QED BY <1>3, <2>1 DEF Detached
<1>4. CASE CpuStep(MaskedPc) /\ UNCHANGED <<ipcVars, semVars>>
  BY <1>1, <1>2, <1>4, CpuStepInv DEF ipcVars
<1>5. CASE DevStep \/ UNCHANGED vars
  BY <1>2, <1>5 DEF DevStep, DevRelease, DevTryTake, vars
<1>6. ASSUME NEW t \in Thread, Finish(t) PROVE Detached'
  <2>1. CASE CpuFinish(t) /\ UNCHANGED <<ipcVars, semVars>>
    <3>1. pc[t] \notin {"detach", "resume", "object"} /\ valid' = valid
      BY <2>1 DEF CpuFinish, ThreadSchedule, SleepReturn, At, ipcVars
    <3>2. \E l \in CpuPc : pc' = [pc EXCEPT ![t] = l]
      BY <1>1, <2>1, CpuFinishInv
    <3> QED BY <1>3, <3>1, <3>2
  <2>2. CASE ThreadSchedule(t, "take", "took") /\ UNCHANGED <<ipcVars, semVars>>
    BY <1>3, <2>2 DEF ThreadSchedule, At, Goto, ipcVars
  <2>3. CASE rt_sem_take_return(t)
    BY <1>3, <2>3 DEF rt_sem_take_return, At, Goto
  <2>4. CASE ResetResume(t)
    BY <1>2, <2>4 DEF ResetResume, ipcVars
  <2>5. ASSUME NEW n \in ResetValues, ResetValue(t, n) PROVE Detached'
    BY <1>3, <2>5 DEF ResetValue, At, Goto
  <2>6. CASE DetachTest(t) \/ DetachResume(t)
    <3>1. \E l \in {"detach", "resume", "object"} : pc' = [pc EXCEPT ![t] = l]
      BY <2>6 DEF DetachTest, DetachResume, Goto
    <3> QED BY <1>1, <3>1 DEF Detached
  <2>7. CASE DetachObject(t)
    <3>1. arg[t] \in Obj
      BY <2>7 DEF DetachObject, At, SemInv, HasArg
    <3>2. valid'[arg[t]] = FALSE
      BY <1>1, <2>7, <3>1 DEF DetachObject
    <3> QED BY <3>1, <3>2 DEF Detached
  <2> QED BY <1>6, <2>1, <2>2, <2>3, <2>4, <2>5, <2>6, <2>7 DEF Finish, DetachStep
<1>7. ASSUME NEW t \in Thread, Call(t) PROVE Detached'
  <2>1. CASE CpuCall(t) /\ UNCHANGED <<ipcVars, semVars>>
    <3>1. pc[t] = "run" /\ valid' = valid
      BY <2>1 DEF CpuCall, Startup, rt_enter_critical, rt_exit_critical, rt_thread_yield,
                  rt_thread_sleep, Calls, At, ipcVars
    <3>2. \E l \in CpuPc : pc' = [pc EXCEPT ![t] = l]
      BY <1>1, <2>1, CpuCallInv
    <3> QED BY <1>3, <3>1, <3>2
  <2>2. ASSUME NEW s \in Obj, rt_sem_take_now(t, s) PROVE Detached'
    BY <1>2, <2>2 DEF rt_sem_take_now, kernelVars, ipcVars
  <2>3. ASSUME NEW s \in Obj, NEW d \in Timeouts, rt_sem_take_block(t, s, d) PROVE Detached'
    BY <1>3, <2>3 DEF rt_sem_take_block, Calls, At, Goto
  <2>4. ASSUME NEW s \in Obj, rt_sem_release(t, s) PROVE Detached'
    BY <1>3, <2>4 DEF rt_sem_release, Calls, At, Goto
  <2>5. ASSUME NEW s \in Obj, ResetEnter(t, s) PROVE Detached'
    BY <1>3, <2>5 DEF ResetEnter, Calls, At, Goto
  <2>6. ASSUME NEW s \in Obj, DetachEnter(t, s) PROVE Detached'
    BY <1>1, <2>6 DEF Detached, DetachEnter, Goto
  <2> QED BY <1>7, <2>1, <2>2, <2>3, <2>4, <2>5, <2>6 DEF Call
<1> QED BY <1>4, <1>5, <1>6, <1>7 DEF Next

LEMMA PromptInit == Init => SemInv /\ Prompt
<1> SUFFICES ASSUME Init PROVE Prompt
  BY SemInitInv
<1>1. k = StartState /\ pc = [t \in Thread |-> "run"]
  BY DEF Init, IpcInit, CpuInit
<1>2. Highest(k)
  <2>1. \A u \in Thread : k.stat[u] = "READY" => u = Idle
    BY <1>1 DEF StartState
  <2>2. k.cur = Main /\ k.prio = BasePrio
    BY <1>1 DEF StartState
  <2>3. BasePrio[Main] < PrioMax - 1 /\ BasePrio[Idle] = PrioMax - 1
    BY MainAssumption, ThreadAssumption
  <2>4. BasePrio[Main] \in Int /\ PrioMax \in Nat
    BY MainAssumption, ThreadAssumption DEF Prio
  <2> QED BY <2>1, <2>2, <2>3, <2>4 DEF Highest
<1> QED BY <1>1, <1>2 DEF Prompt

LEMMA PromptNext == SemInv /\ (Detached \/ Prompt) /\ [Next]_vars => (Detached \/ Prompt)'
<1> SUFFICES ASSUME SemInv, Detached \/ Prompt, [Next]_vars PROVE Prompt' \/ Detached'
  OBVIOUS
<1>1. CASE Detached
  BY <1>1, DetachedStays
<1>2. CASE Prompt
  <2>1. ASSUME NEW s \in Obj, DevTryTake(s) PROVE Prompt'
    BY <1>2, <2>1 DEF DevTryTake, Prompt, InHandler
  <2>2. CASE DevStep
    BY <1>2, <2>1, <2>2, PromptRelease DEF DevStep
  <2>3. CASE UNCHANGED vars
    BY <1>2, <2>3 DEF vars, Prompt, InHandler
  <2> QED BY <1>2, <2>2, <2>3, PromptCpu, PromptFinish, PromptCall DEF Next
<1> QED BY <1>1, <1>2

\* Preemption is prompt until rt_sem_detach or rt_sem_delete is called: whatever releases,
\* timeouts, resets and device interrupts have made ready, application code runs only in
\* a thread that no ready thread precedes, once the handlers and the pending switch are
\* done and the scheduler is unlocked.
THEOREM SemHighestRuns == Spec => []HighestRunsUntilDetach
<1>1. SemInv /\ (Detached \/ Prompt) => HighestRunsUntilDetach
  <2> SUFFICES ASSUME SemInv, Prompt, NEW t \in Thread, At(t, "run"), k.lock = 0,
                      NEW u \in Thread, k.stat[u] = "READY"
               PROVE  k.prio[t] <= k.prio[u]
    BY DEF HighestRuns, HighestRunsUntilDetach
  <2>1. k.cur = t /\ isr = <<>> /\ pc[t] = "run"
    BY CallerProps, IpcFacts DEF SemInv, At, Running
  <2> QED BY <2>1 DEF Prompt, Highest, Unsettled, InHandler
<1> QED BY <1>1, PromptInit, PromptNext, SemNextInv, PTL DEF Spec
=============================================================================
