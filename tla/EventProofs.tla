---------------------------- MODULE EventProofs ----------------------------
(***************************************************************************)
(* The safety of the kernel with an event set, for any number of threads,  *)
(* priorities and flags: a send goes through the whole list of waiters,    *)
(* resumes those whose condition holds and may clear what they received    *)
(* before it looks at the next one.                                        *)
(***************************************************************************)
EXTENDS Event, IpcProofs

-----------------------------------------------------------------------------
(* The loop of rt_event_send, as a fold over the waiters. *)

\* the fold of a sequence by its last elements, which is how FoldLeft is defined
Turns(h, base, w, s) ==
    IF s = {} THEN base ELSE Deliver(h[s \ {Max(s)}], w[Max(s)])

LastFirst(h, base, w, m) == h = [s \in SUBSET (1 .. m) |-> Turns(h, base, w, s)]

LEMMA MaxOfInterval ==
    ASSUME NEW m \in Nat, m # 0, NEW s \in SUBSET (1 .. m), m \in s
    PROVE  Max(s) = m
<1>1. \A x \in s : x \in Int /\ x <= m
  OBVIOUS
<1>2. \A x \in s : (\A y \in s : x >= y) <=> x = m
  BY <1>1
<1> QED BY <1>2 DEF Max

\* the recursive definition inside FoldLeft has a value
LEMMA TurnsExist ==
    ASSUME NEW base, NEW w
    PROVE  \A m \in Nat : \E h : LastFirst(h, base, w, m)
<1> DEFINE Q(m) == \E h : LastFirst(h, base, w, m)
           Bad == {m \in Nat : ~Q(m)}
<1>1. Q(0)
  <2> DEFINE h == [s \in SUBSET (1 .. 0) |-> base]
  <2>1. \A s \in SUBSET (1 .. 0) : s = {}
    OBVIOUS
  <2>2. h = [s \in SUBSET (1 .. 0) |-> Turns(h, base, w, s)]
    BY <2>1 DEF Turns
  <2> QED BY <2>2 DEF LastFirst
<1>2. ASSUME NEW m \in Nat, Q(m) PROVE Q(m + 1)
  <2>1. PICK h : LastFirst(h, base, w, m)
    BY <1>2
  <2>2. h = [s \in SUBSET (1 .. m) |-> Turns(h, base, w, s)]
    BY <2>1 DEF LastFirst
  <2> DEFINE g == [s \in SUBSET (1 .. m + 1) |->
                     IF m + 1 \in s THEN Deliver(h[s \ {m + 1}], w[m + 1]) ELSE h[s]]
  <2>3. ASSUME NEW s \in SUBSET (1 .. m + 1) PROVE g[s] = Turns(g, base, w, s)
    <3>1. CASE m + 1 \in s
      <4>1. Max(s) = m + 1 /\ s # {}
        BY <3>1, MaxOfInterval
      <4>2. s \ {m + 1} \in SUBSET (1 .. m + 1) /\ m + 1 \notin s \ {m + 1}
        OBVIOUS
      <4>3. g[s \ {m + 1}] = h[s \ {m + 1}]
        BY <4>2
      <4>4. g[s] = Deliver(h[s \ {m + 1}], w[m + 1])
        BY <3>1
      <4> HIDE DEF g
      <4> QED BY <4>1, <4>3, <4>4 DEF Turns
    <3>2. CASE m + 1 \notin s
      <4>a. ASSUME NEW x \in s PROVE x \in 1 .. m
        <5>1. x \in 1 .. m + 1 /\ x # m + 1
          BY <3>2
        <5> QED BY <5>1
      <4>b. s \in SUBSET (1 .. m)
        BY <4>a
      <4>1. s \in SUBSET (1 .. m) /\ s \ {Max(s)} \in SUBSET (1 .. m)
        BY <4>b, Zenon
      <4>2. g[s] = h[s]
        BY <3>2
      <4>3. g[s \ {Max(s)}] = h[s \ {Max(s)}]
        BY <4>1
      <4>4. h[s] = Turns(h, base, w, s)
        BY <2>2, <4>1
      <4> HIDE DEF g
      <4> QED BY <4>2, <4>3, <4>4 DEF Turns
    <3> QED BY <3>1, <3>2
  <2>4. g = [s \in SUBSET (1 .. m + 1) |-> g[s]]
    OBVIOUS
  <2> HIDE DEF g
  <2>5. g = [s \in SUBSET (1 .. m + 1) |-> Turns(g, base, w, s)]
    BY <2>3, <2>4
  <2> QED BY <2>5 DEF LastFirst
<1> HIDE DEF Q
<1>3. Bad = {}
  <2> SUFFICES ASSUME Bad # {} PROVE FALSE
    OBVIOUS
  <2>1. Min(Bad) \in Bad /\ \A y \in Bad : Min(Bad) <= y
    BY MinProps
  <2> DEFINE m == Min(Bad)
  <2>2. m \in Nat /\ ~Q(m) /\ \A y \in Nat : ~Q(y) => m <= y
    BY <2>1
  <2> HIDE DEF m, Bad
  <2>3. m # 0
    BY <1>1, <2>2
  <2>4. m - 1 \in Nat /\ Q(m - 1)
    BY <2>2, <2>3
  <2> QED BY <1>2, <2>2, <2>4
<1> QED BY <1>3 DEF Q

\* the states of the loop, one after each turn
LEMMA FoldTurns ==
    ASSUME NEW base, NEW w \in Seq(Thread)
    PROVE  \E f : /\ f[0] = base
                  /\ \A i \in 1 .. Len(w) : f[i] = Deliver(f[i - 1], w[i])
                  /\ FoldLeft(Deliver, base, w) = f[Len(w)]
<1> DEFINE n == Len(w)
           h == CHOOSE iter : LastFirst(iter, base, w, n)
           f == [i \in 0 .. n |-> h[1 .. i]]
<1>1. n \in Nat /\ DOMAIN w = 1 .. n
  OBVIOUS
<1>2. LastFirst(h, base, w, n)
  BY <1>1, TurnsExist
<1>3. FoldLeft(Deliver, base, w) = h[1 .. n]
  BY <1>1 DEF FoldLeft, MapThenFoldSet, LastFirst, Turns
<1> HIDE DEF h
<1>4. \A s \in SUBSET (1 .. n) : h[s] = Turns(h, base, w, s)
  BY <1>2 DEF LastFirst
<1>5. f[0] = base
  <2>1. 1 .. 0 = {} /\ {} \in SUBSET (1 .. n)
    OBVIOUS
  <2>2. h[{}] = base
    BY <1>4, <2>1 DEF Turns
  <2>3. 0 \in 0 .. n
    BY <1>1
  <2>4. f[0] = h[1 .. 0]
    BY <2>3
  <2> HIDE DEF f
  <2> QED BY <2>1, <2>2, <2>4
<1>6. ASSUME NEW i \in 1 .. n PROVE f[i] = Deliver(f[i - 1], w[i])
  <2>1. /\ 1 .. i \in SUBSET (1 .. n) /\ i \in 1 .. i /\ (1 .. i) \ {i} = 1 .. (i - 1)
        /\ i \in 0 .. n /\ i - 1 \in 0 .. n
    BY <1>1
  <2>2. Max(1 .. i) = i
    BY <1>1, MaxOfInterval
  <2>3. f[i] = h[1 .. i] /\ f[i - 1] = h[1 .. (i - 1)]
    BY <2>1
  <2>4. h[1 .. i] = Turns(h, base, w, 1 .. i) /\ 1 .. i # {}
    BY <1>4, <2>1
  <2> HIDE DEF f
  <2> QED BY <2>1, <2>2, <2>3, <2>4 DEF Turns
<1>7. FoldLeft(Deliver, base, w) = f[n]
  BY <1>1, <1>3
<1> QED BY <1>5, <1>6, <1>7

\* a section that has woken threads resumes one more
LEMMA WakesAnother ==
    ASSUME NEW r, Wakes(r, k), NEW t \in Thread, r.stat[t] = "SUSPEND",
           NEW q, q = rt_thread_resume(r, t)
    PROVE  /\ Wakes(q, k)
           /\ \A u \in Thread \ {t} : SameGrant(q, r, u)
           /\ \A o \in Obj : ~InWait(q, t, o)
<1>1. /\ KInv(r) /\ (\A u \in Thread : r.stat[u] # "CLOSE") /\ r.lock = k.lock
      /\ SameCpu(r, k) /\ BlocksNone(r, k) /\ TimersKept(r, k)
      /\ r.stat[r.cur] = "SUSPEND" => k.stat[k.cur] = "SUSPEND"
      /\ \A u \in Thread, o \in Obj : InWait(r, u, o) => r.err[u] = k.err[u]
  BY DEF Wakes
<1>2. Woken(q, r, t)
  BY <1>1, ResumeProps
<1>3. /\ KInv(q) /\ (\A u \in Thread : q.stat[u] # "CLOSE") /\ q.lock = r.lock
      /\ SameCpu(q, r) /\ BlocksNone(q, r)
      /\ q.stat[q.cur] = "SUSPEND" => r.stat[r.cur] = "SUSPEND"
  BY <1>1, <1>2, WokenStep
<1>4. /\ q.err = r.err /\ q.tick = r.tick
      /\ \A u \in Thread \ {t} : SameGrant(q, r, u)
      /\ \A o \in Obj : ~InWait(q, t, o)
  BY <1>1, ResumeGrants
<1>5. BlocksNone(q, k)
  BY <1>1, <1>3 DEF BlocksNone, Kept, Awake
<1>6. ASSUME NEW u \in Thread, NEW o \in Obj, InWait(q, u, o)
      PROVE  InWait(r, u, o) /\ SameTimer(q, r, u)
  BY <1>4, <1>6 DEF SameGrant
<1>7. TimersKept(q, k)
  <2>1. q.tick = k.tick
    BY <1>1, <1>4 DEF TimersKept
  <2>2. ASSUME NEW u \in Thread, NEW o \in Obj, InWait(q, u, o)
        PROVE  InWait(k, u, o) /\ SameTimer(q, k, u)
    <3>1. InWait(r, u, o) /\ SameTimer(q, r, u)
      BY <1>6, <2>2
    <3>2. InWait(k, u, o) /\ SameTimer(r, k, u)
      BY <1>1, <3>1 DEF TimersKept, StillWaits
    <3> QED BY <3>1, <3>2 DEF SameTimer
  <2> QED BY <2>1, <2>2 DEF TimersKept, StillWaits
<1>8. \A u \in Thread, o \in Obj : InWait(q, u, o) => q.err[u] = k.err[u]
  BY <1>1, <1>4, <1>6
<1> QED BY <1>1, <1>3, <1>4, <1>5, <1>7, <1>8, BlocksNoneIsNoNewWaiter DEF Wakes, SameCpu

-----------------------------------------------------------------------------
(* The inductive invariant. *)

EventTypes ==
    /\ set \subseteq EventFlag
    /\ info \in [Thread -> Info]
    /\ asked \in [Thread -> SUBSET EventFlag]

\* a thread that detaches the event has it in arg
HasArg == \A t \in Thread : pc[t] \in {"detach", "resume", "object"} => arg[t] \in Obj

\* while it waits, a thread has in its thread->event_set what it asked for
AskedWhileWaiting == \A t \in Thread : InWait(k, t, event) => info[t].set = asked[t]

EventInv ==
    /\ IpcInv(IpcPc) /\ EventTypes /\ HasArg
    /\ AskedWhileWaiting /\ NoMissedEvent /\ RecvedSatisfies

\* the flags of have do not satisfy i, the event_set and event_info of a thread
Unmet(have, i) == ~Satisfied(have, i.set, i.option.mode)

\* what is left of a set satisfies no more than the set did
LEMMA UnmetByFewer ==
    ASSUME NEW i, NEW have, NEW left, left \subseteq have, Unmet(have, i)
    PROVE  Unmet(left, i)
  BY DEF Unmet, Satisfied

LEMMA EventFacts ==
    ASSUME EventInv
    PROVE  /\ IpcInv(IpcPc) /\ CpuInv /\ KInv(k) /\ k.lock \in Nat /\ isr \in Seq(Frame)
           /\ pc \in [Thread -> IpcPc] /\ arg \in [Thread -> Obj \cup {None}]
           /\ valid \in [Obj -> BOOLEAN] /\ Reachable
           /\ EventTypes /\ HasArg /\ AskedWhileWaiting
           /\ Obj = {event} /\ event \in Obj
           /\ \A u \in Thread : InWait(k, u, event) => Unmet(set, info[u])
  BY IpcFacts, EventAssumption DEF EventInv, NoMissedEvent, InWait, Unmet

\* what a waiting thread has asked for and not got
Fresh(u) ==
    /\ u \notin InFlight(event)'
    /\ InWait(k', u, event) => info'[u].set = asked'[u] /\ Unmet(set', info'[u])

\* u keeps what it has asked for, and is granted nothing
Unserved(u) ==
    /\ info'[u] = info[u] /\ asked'[u] = asked[u]
    /\ InWait(k', u, event) => InWait(k, u, event)
    /\ u \in InFlight(event)' => u \in InFlight(event)

\* a step that adds no flag to the set and serves nobody
LEMMA EventStep ==
    ASSUME EventInv, IpcInv(IpcPc)', HasArg', EventTypes', set' \subseteq set,
           \A u \in Thread : Unserved(u) \/ Fresh(u)
    PROVE  EventInv'
<1>1. AskedWhileWaiting'
  <2>1. ASSUME NEW u \in Thread, InWait(k', u, event) PROVE info'[u].set = asked'[u]
    BY <2>1, EventFacts DEF AskedWhileWaiting, Unserved, Fresh
  <2> QED BY <2>1 DEF AskedWhileWaiting, InWait
<1>2. NoMissedEvent'
  <2>1. ASSUME NEW u \in Thread, InWait(k', u, event) PROVE Unmet(set', info'[u])
    BY <2>1, EventFacts, UnmetByFewer DEF Unserved, Fresh
  <2>2. \A u \in Range(k'.wait[event]) : u \in Thread
    <3>1. k'.wait[event] \in Seq(Thread)
      BY EventAssumption DEF IpcInv, CpuInv, KInv, WellFormed, KernelState
    <3> QED BY <3>1 DEF Range
  <2> QED BY <2>1, <2>2 DEF NoMissedEvent, InWait, Unmet
<1>3. RecvedSatisfies'
  <2>1. ASSUME NEW u \in Thread, u \in InFlight(event)'
        PROVE  /\ info'[u].set \subseteq asked'[u]
               /\ Satisfied(info'[u].set, asked'[u], info'[u].option.mode)
    <3>1. Unserved(u) /\ u \in InFlight(event)
      BY <2>1 DEF Unserved, Fresh
    <3> QED BY <3>1 DEF EventInv, RecvedSatisfies, Unserved
  <2> QED BY <2>1, FlightFinite DEF RecvedSatisfies
<1> QED BY <1>1, <1>2, <1>3 DEF EventInv

\* a step that leaves the flags alone
LEMMA EventKept ==
    ASSUME EventInv, IpcInv(IpcPc)', HasArg', NoNewWaiter(k', k),
           InFlight(event)' = InFlight(event), set' = set, info' = info, asked' = asked
    PROVE  EventInv'
<1>1. EventTypes'
  BY DEF EventInv, EventTypes
<1>2. \A u \in Thread : Unserved(u)
  BY EventFacts DEF Unserved, NoNewWaiter
<1> QED BY <1>1, <1>2, EventStep

-----------------------------------------------------------------------------
(* The steps that send nothing. *)

\* handlers and PendSV keep the invariant
LEMMA CpuStepEvent ==
    ASSUME EventInv, CpuStep(MaskedPc), UNCHANGED <<ipcVars, eventVars>>
    PROVE  EventInv'
<1>1. arg' = arg /\ valid' = valid /\ set' = set /\ info' = info /\ asked' = asked
  BY DEF ipcVars, eventVars
<1>2. /\ IpcInv(IpcPc)' /\ pc' = pc /\ NoNewWaiter(k', k)
      /\ \A o \in Obj : InFlight(o)' = InFlight(o)
  BY <1>1, CpuStepIpc, EventFacts
<1>3. HasArg'
  BY <1>1, <1>2, EventFacts DEF HasArg
<1> QED BY <1>1, <1>2, <1>3, EventKept, EventFacts

\* so do the services of the kernel that are not events
LEMMA CpuServiceEvent ==
    ASSUME EventInv, NEW t \in Thread, CpuCall(t) \/ CpuFinish(t),
           UNCHANGED <<ipcVars, eventVars>>
    PROVE  EventInv'
<1>1. arg' = arg /\ valid' = valid /\ set' = set /\ info' = info /\ asked' = asked
  BY DEF ipcVars, eventVars
<1>2. /\ IpcInv(IpcPc)' /\ NoNewWaiter(k', k) /\ \A o \in Obj : InFlight(o)' = InFlight(o)
      /\ \E l \in CpuPc : pc' = [pc EXCEPT ![t] = l]
  BY <1>1, ServiceIpc, EventFacts DEF IpcPc
<1>3. HasArg'
  BY <1>1, <1>2, EventFacts DEF HasArg, CpuPc
<1> QED BY <1>1, <1>2, <1>3, EventKept, EventFacts

\* and the rt_schedule inside rt_event_recv
LEMMA TakeScheduleEvent ==
    ASSUME EventInv, NEW t \in Thread, ThreadSchedule(t, "take", "took"),
           UNCHANGED <<ipcVars, eventVars>>
    PROVE  EventInv'
<1>1. arg' = arg /\ valid' = valid /\ set' = set /\ info' = info /\ asked' = asked
  BY DEF ipcVars, eventVars
<1>2. /\ IpcInv(IpcPc)' /\ NoNewWaiter(k', k) /\ \A o \in Obj : InFlight(o)' = InFlight(o)
      /\ pc' = [pc EXCEPT ![t] = "took"]
  BY <1>1, TakeScheduleIpc, EventFacts DEF IpcPc, Taking
<1>3. HasArg'
  BY <1>1, <1>2, EventFacts DEF HasArg
<1> QED BY <1>1, <1>2, <1>3, EventKept, EventFacts

\* a receive whose condition holds clears flags, and one with timeout 0 clears none; both
\* only set the caller's error in the kernel state
LEMMA RecvNoWaitEvent ==
    ASSUME EventInv, NEW t \in Thread, NEW s, NEW o \in Option,
           RecvNow(t, s, o) \/ RecvFails(t, s, o)
    PROVE  EventInv'
<1>1. /\ Running(t) /\ pc[t] = "run" /\ k.lock = 0 /\ isr' = isr /\ pc' = pc
      /\ arg' = arg /\ valid' = valid /\ info' = info /\ asked' = asked
      /\ \E e \in Err : k' = [k EXCEPT !.err[t] = e]
      /\ set' \subseteq set
  BY DEF RecvNow, RecvFails, RecvCall, Calls, At, ipcVars, eventVars, Err
<1>2. k \in KernelState /\ \A u \in Thread : k.stat[u] # "CLOSE"
  BY IpcFacts, EventFacts DEF KInv, WellFormed
<1>3. /\ k' \in KernelState /\ Agree(k', k) /\ k'.lock = k.lock
      /\ SameClock(k', k) /\ k'.wait = k.wait
      /\ \A u \in Thread \ {t} : k'.err[u] = k.err[u]
  <2>1. PICK e \in Err : k' = [k EXCEPT !.err[t] = e]
    BY <1>1
  <2> QED BY <1>2, <2>1 DEF KernelState, Agree, SameClock
<1>4. \A u, x : InWait(k', u, x) <=> InWait(k, u, x)
  BY <1>3 DEF InWait
<1>5. \A x \in Obj : ~InWait(k, t, x)
  BY <1>1, RunnerWaitsNot, EventFacts
<1>6. /\ KInv(k') /\ (\A u \in Thread : k'.stat[u] # "CLOSE") /\ BlocksNone(k', k)
      /\ SameCpu(k', k) /\ k'.stat[k'.cur] = k.stat[k.cur]
  BY <1>2, <1>3, AgreeStep, EventFacts
<1>7. TimersKept(k', k)
  BY <1>3, <1>4 DEF TimersKept, StillWaits, SameTimer, SameClock, InTimers
<1>8. Wakes(k', k)
  BY <1>3, <1>4, <1>5, <1>6, <1>7, BlocksNoneIsNoNewWaiter DEF Wakes
<1>9. IpcInv(IpcPc)'
  <2>1. /\ "run" \in IpcPc \ Taking /\ pc[t] \notin BlockPc
        /\ pc' = [pc EXCEPT ![t] = "run"] /\ arg' = [arg EXCEPT ![t] = arg[t]]
        /\ arg[t] \in Obj \cup {None}
    BY <1>1, EventFacts DEF IpcPc, CpuPc, Taking, BlockPc
  <2> QED BY <1>1, <1>8, <2>1, MoveIpc, EventFacts
<1>10. \A u \in Thread : StaysInFlight(u)
  <2>1. \A u \in Thread \ {t} : SameGrant(k', k, u)
    BY <1>3, <1>4 DEF SameGrant, SameTimer, SameClock, InTimers
  <2> QED BY <1>1, <2>1 DEF StaysInFlight, NotGranted, Taking
<1>11. InFlight(event)' = InFlight(event)
  BY <1>10, FlightKept, EventFacts
<1>12. HasArg' /\ EventTypes'
  BY <1>1, EventFacts DEF HasArg, EventTypes
<1>13. \A u \in Thread : Unserved(u)
  BY <1>1, <1>4, <1>11 DEF Unserved
<1> QED BY <1>1, <1>9, <1>12, <1>13, EventStep

\* a receive that waits has found its condition not to hold
LEMMA RecvBlockEvent ==
    ASSUME EventInv, NEW t \in Thread, NEW s \in SUBSET EventFlag, NEW o \in Option,
           NEW d \in Timeouts, RecvBlock(t, s, o, d)
    PROVE  EventInv'
<1>1. /\ Running(t) /\ pc[t] = "run" /\ App[t] # {} /\ k.lock = 0
      /\ ~Satisfied(set, s, o.mode)
      /\ k' = ipc_list_suspend(k, event, t, Flag, d)
      /\ arg' = [arg EXCEPT ![t] = event] /\ pc' = [pc EXCEPT ![t] = "take"]
      /\ isr' = isr /\ valid' = valid /\ set' = set
      /\ info' = [info EXCEPT ![t] = [set |-> s, option |-> o]]
      /\ asked' = [asked EXCEPT ![t] = s]
  BY DEF RecvBlock, RecvCall, Calls, At, SetArg, Goto
<1>2. t # Idle /\ d \in Nat \cup {None}
  BY <1>1, AppAssumption, TimeoutAssumption
<1>3. /\ IpcInv(IpcPc)'
      /\ \A u \in Thread, x \in Obj :
            InWait(k', u, x) <=> (InWait(k, u, x) \/ (u = t /\ x = event))
      /\ \A x \in Obj : InFlight(x)' = InFlight(x) \ {t}
  BY <1>1, <1>2, BlockIpc, EventFacts DEF IpcPc, Taking
<1>4. HasArg'
  BY <1>1, EventFacts DEF HasArg
<1>5. EventTypes'
  <2>1. [set |-> s, option |-> o] \in Info
    BY DEF Info
  <2> QED BY <1>1, <2>1, EventFacts DEF EventTypes
<1>6. /\ info'[t].set = s /\ info'[t].option = o /\ asked'[t] = s
      /\ \A u \in Thread \ {t} : info'[u] = info[u] /\ asked'[u] = asked[u]
  BY <1>1, EventFacts DEF EventTypes
<1>7. Fresh(t)
  BY <1>1, <1>3, <1>6, EventFacts DEF Fresh, Unmet
<1>8. \A u \in Thread \ {t} : Unserved(u)
  BY <1>3, <1>6, EventFacts DEF Unserved
<1> QED BY <1>1, <1>3, <1>4, <1>5, <1>7, <1>8, EventStep

\* the return of a receive
LEMMA RecvReturnEvent ==
    ASSUME EventInv, NEW t \in Thread, RecvReturn(t)
    PROVE  EventInv'
<1>1. /\ Running(t) /\ pc[t] = "took" /\ k' = k /\ isr' = isr /\ valid' = valid
      /\ pc' = [pc EXCEPT ![t] = "run"] /\ arg' = [arg EXCEPT ![t] = None] /\ set' = set
      /\ info' = [info EXCEPT ![t] = NoInfo] /\ asked' = [asked EXCEPT ![t] = {}]
  BY DEF RecvReturn, At, Goto, SetArg
<1>2. IpcInv(IpcPc)'
  <2>1. Wakes(k', k) /\ "run" \in IpcPc \ Taking /\ pc[t] \notin BlockPc
    BY <1>1, WakesNone, EventFacts DEF IpcPc, CpuPc, Taking, BlockPc
  <2> QED BY <1>1, <2>1, MoveIpc, EventFacts
<1>3. /\ pc'[t] = "run" /\ (\A u \in Thread \ {t} : pc'[u] = pc[u] /\ arg'[u] = arg[u])
      /\ HasArg'
  BY <1>1, EventFacts DEF HasArg
<1>4. EventTypes' /\ \A u \in Thread \ {t} : info'[u] = info[u] /\ asked'[u] = asked[u]
  <2>1. NoInfo \in Info
    BY DEF NoInfo, Info, Option
  <2> QED BY <1>1, <2>1, EventFacts DEF EventTypes
<1>5. \A u \in Thread \ {t} : u \in InFlight(event)' => u \in InFlight(event)
  <2>1. \A u \in Thread \ {t} : StaysInFlight(u)
    BY <1>1, <1>3, SameGrantProps DEF StaysInFlight, NotGranted
  <2> QED BY <2>1, FlightOfThread, EventFacts
<1>6. ~InWait(k, t, event) /\ t \notin InFlight(event)'
  BY <1>1, <1>3, RunnerWaitsNot, InFlightDef, EventFacts DEF Taking
<1>7. Fresh(t) /\ \A u \in Thread \ {t} : Unserved(u)
  BY <1>1, <1>4, <1>5, <1>6 DEF Fresh, Unserved
<1> QED BY <1>1, <1>2, <1>3, <1>4, <1>7, EventStep

\* one waiter is resumed with an error, by a reset or by the loop of a detach
LEMMA ResumeErrorEvent ==
    ASSUME EventInv, NEW t \in Thread,
           ResetResume(t) \/ (DetachResume(t) /\ UNCHANGED eventVars)
    PROVE  EventInv'
<1>1. /\ Running(t) /\ isr' = isr
      /\ pc' = pc \/ pc' = [pc EXCEPT ![t] = "detach"]
      /\ arg' = arg /\ valid' = valid /\ set' = set /\ info' = info /\ asked' = asked
      /\ pc[t] \in {"reset", "resume"}
      /\ \/ pc[t] = "reset" /\ pc' = pc
         \/ pc[t] = "resume" /\ arg[t] \in Obj
      /\ k.wait[event] # <<>> /\ k' = ResumeWithError(k, event)
  BY EventFacts DEF ResetResume, DetachResume, At, Goto, ipcVars, eventVars, HasArg
<1>2. Wakes(k', k) /\ \A u \in Thread : NotGranted(k', k, u)
  BY <1>1, WakesWithError, EventFacts
<1>3. PICK l \in {"reset", "resume", "detach"} :
         pc' = [pc EXCEPT ![t] = l] /\ (l # "reset" => arg[t] \in Obj)
  <2>1. pc = [pc EXCEPT ![t] = pc[t]]
    BY EventFacts
  <2> QED BY <1>1, <2>1
<1>4. IpcInv(IpcPc)'
  <2>1. /\ l \in IpcPc \ Taking /\ pc[t] \notin BlockPc
        /\ arg' = [arg EXCEPT ![t] = arg[t]] /\ arg[t] \in Obj \cup {None}
    BY <1>1, <1>3, EventFacts DEF IpcPc, Taking, BlockPc
  <2> QED BY <1>1, <1>2, <1>3, <2>1, MoveIpc, EventFacts
<1>5. HasArg' /\ \A u \in Thread : pc[u] \in Taking <=> pc'[u] \in Taking
  BY <1>1, <1>3, EventFacts DEF HasArg, Taking
<1>6. \A u \in Thread : StaysInFlight(u)
  BY <1>1, <1>2, <1>5 DEF StaysInFlight
<1>7. InFlight(event)' = InFlight(event)
  BY <1>6, FlightKept, EventFacts
<1> QED BY <1>1, <1>2, <1>4, <1>5, <1>7, EventKept DEF Wakes

\* the steps of a service that only look at the kernel state, and the end of a reset
LEMMA QuietStepsEvent ==
    ASSUME EventInv, NEW t \in Thread,
           \/ DetachTest(t) /\ UNCHANGED eventVars
           \/ DetachObject(t) /\ UNCHANGED eventVars
           \/ ResetEnter(t) \/ ResetSet(t)
           \/ DetachEnter(t, event) /\ UNCHANGED eventVars
    PROVE  EventInv'
<1>1. /\ Running(t) /\ pc[t] \in {"detach", "object", "run", "reset"} /\ k' = k /\ isr' = isr
      /\ set' \subseteq set /\ info' = info /\ asked' = asked
  BY DEF DetachTest, DetachObject, ResetEnter, ResetSet, DetachEnter, Calls, At, eventVars
<1>2. PICK l \in {"resume", "object", "run", "reset", "sched", "detach"}, x \in Obj \cup {None} :
         /\ pc' = [pc EXCEPT ![t] = l] /\ arg' = [arg EXCEPT ![t] = x]
         /\ l \in {"run", "reset", "sched"} \/ x \in Obj
  <2>1. arg = [arg EXCEPT ![t] = arg[t]] /\ arg[t] \in Obj \cup {None} /\ event \in Obj
    BY EventFacts
  <2>2. CASE DetachTest(t)
    <3>1. arg' = arg /\ arg[t] \in Obj
      BY <2>2, EventFacts DEF DetachTest, At, HasArg, ipcVars
    <3>2. pc' = [pc EXCEPT ![t] = "resume"] \/ pc' = [pc EXCEPT ![t] = "object"]
      BY <2>2 DEF DetachTest, Goto
    <3> QED BY <2>1, <3>1, <3>2
  <2>3. CASE DetachObject(t)
    <3>1. pc' = [pc EXCEPT ![t] = "run"] /\ arg' = [arg EXCEPT ![t] = None]
      BY <2>3 DEF DetachObject, Goto, SetArg
    <3> QED BY <3>1
  <2>4. CASE ResetEnter(t) \/ ResetSet(t)
    <3>1. arg' = arg /\ (pc' = [pc EXCEPT ![t] = "reset"] \/ pc' = [pc EXCEPT ![t] = "sched"])
      BY <2>4 DEF ResetEnter, ResetSet, Goto, ipcVars
    <3> QED BY <2>1, <3>1
  <2>5. CASE DetachEnter(t, event)
    <3>1. pc' = [pc EXCEPT ![t] = "detach"] /\ arg' = [arg EXCEPT ![t] = event]
      BY <2>5 DEF DetachEnter, Goto, SetArg
    <3> QED BY <2>1, <3>1
  <2> QED BY <2>2, <2>3, <2>4, <2>5
<1>3. valid' \in [Obj -> BOOLEAN]
  BY EventFacts DEF DetachTest, DetachObject, ResetEnter, ResetSet, DetachEnter, ipcVars
<1>4. IpcInv(IpcPc)'
  <2>1. Wakes(k', k) /\ l \in IpcPc \ Taking /\ pc[t] \notin BlockPc
    BY <1>1, <1>2, WakesNone, EventFacts DEF IpcPc, CpuPc, Taking, BlockPc
  <2> QED BY <1>1, <1>2, <1>3, <2>1, MoveIpc, EventFacts
<1>5. HasArg' /\ EventTypes'
  BY <1>1, <1>2, EventFacts DEF HasArg, EventTypes
<1>6. InFlight(event)' = InFlight(event)
  <2>1. pc[t] \notin Taking /\ pc'[t] \notin Taking
    BY <1>1, <1>2, EventFacts DEF Taking
  <2>2. \A u \in Thread \ {t} : pc'[u] = pc[u] /\ arg'[u] = arg[u]
    BY <1>2, EventFacts
  <2>3. \A u \in Thread : StaysInFlight(u)
    BY <1>1, <2>1, <2>2, SameGrantProps DEF StaysInFlight, NotGranted
  <2> QED BY <2>3, FlightKept, EventFacts
<1>7. \A u \in Thread : Unserved(u)
  BY <1>1, <1>6 DEF Unserved
<1> QED BY <1>1, <1>4, <1>5, <1>7, EventStep

-----------------------------------------------------------------------------
(* The section of rt_event_send. *)

\* u got flags that it had asked for from the loop, enough of them
Served(a, u) ==
    /\ InWait(k, u, event) /\ \A o \in Obj : ~InWait(a.k, u, o)
    /\ a.info[u].set \subseteq asked[u]
    /\ Satisfied(a.info[u].set, asked[u], a.info[u].option.mode)

\* u is as it was before the loop
Untouched(a, u) == SameGrant(a.k, k, u) /\ a.info[u] = info[u]

\* the state a of the loop after i turns: those it has passed over have no use for what is
\* left of the set, and those that follow are still waiting
Turn(a, i) ==
    LET w == k.wait[event]
    IN  /\ Wakes(a.k, k)
        /\ a.set \subseteq EventFlag /\ a.info \in [Thread -> Info]
        /\ \A u \in Thread : Untouched(a, u) \/ Served(a, u)
        /\ \A j \in 1 .. Len(w) : i < j => InWait(a.k, w[j], event)
        /\ \A j \in 1 .. Len(w) :
              j <= i /\ InWait(a.k, w[j], event) => Unmet(a.set, a.info[w[j]])

\* the list of waiters
LEMMA Waiters ==
    ASSUME KInv(k)
    PROVE  /\ k.wait[event] \in Seq(Thread) /\ Len(k.wait[event]) \in Nat
           /\ \A j \in 1 .. Len(k.wait[event]) :
                 /\ k.wait[event][j] \in Thread
                 /\ InWait(k, k.wait[event][j], event)
           /\ \A i, j \in 1 .. Len(k.wait[event]) :
                 k.wait[event][i] = k.wait[event][j] => i = j
           /\ \A u : InWait(k, u, event) => \E j \in 1 .. Len(k.wait[event]) :
                                               u = k.wait[event][j]
<1>1. k.wait[event] \in Seq(Thread) /\ IsInjective(k.wait[event])
  BY EventAssumption DEF KInv, WellFormed, KernelState
<1> QED BY <1>1 DEF InWait, Range, IsInjective

\* one turn of the loop
LEMMA TurnStep ==
    ASSUME EventInv, NEW a, NEW i \in Nat, i < Len(k.wait[event]), Turn(a, i),
           NEW b, b = Deliver(a, k.wait[event][i + 1])
    PROVE  Turn(b, i + 1)
<1> DEFINE w == k.wait[event]
           t == w[i + 1]
           f == a.info[t]
           hit == IF f.option.mode = "OR" THEN f.set \cap a.set ELSE f.set
           n == Len(w)
<1>1. /\ n \in Nat /\ i + 1 \in 1 .. n /\ t \in Thread /\ InWait(k, t, event)
      /\ (\A j \in 1 .. n : w[j] \in Thread)
      /\ \A j \in 1 .. n : w[j] = t => j = i + 1
  BY Waiters, EventFacts
<1>2. /\ Wakes(a.k, k) /\ a.set \subseteq EventFlag /\ a.info \in [Thread -> Info]
      /\ \A u \in Thread : Untouched(a, u) \/ Served(a, u)
      /\ \A j \in 1 .. n : i < j => InWait(a.k, w[j], event)
      /\ \A j \in 1 .. n :
            j <= i /\ InWait(a.k, w[j], event) => Unmet(a.set, a.info[w[j]])
  BY DEF Turn
<1>3. InWait(a.k, t, event)
  BY <1>1, <1>2
<1>4. a.k.stat[t] = "SUSPEND"
  BY <1>1, <1>2, <1>3, EventFacts DEF Wakes, KInv, Placed
<1>5. /\ f = info[t] /\ f.set = asked[t] /\ f \in Info
  <2>1. Untouched(a, t)
    BY <1>1, <1>2, <1>3, EventFacts DEF Served
  <2> QED BY <1>1, <1>2, <2>1, EventFacts DEF Untouched, AskedWhileWaiting
<1>6. CASE ~Satisfied(a.set, f.set, f.option.mode)
  <2>1. b = a
    BY <1>6 DEF Deliver
  <2>2. Unmet(b.set, b.info[t])
    BY <1>6, <2>1 DEF Unmet
  <2>3. \A j \in 1 .. n : i + 1 < j => InWait(b.k, w[j], event)
    BY <1>1, <1>2, <2>1
  <2>4. ASSUME NEW j \in 1 .. n, j <= i + 1, InWait(b.k, w[j], event)
        PROVE  Unmet(b.set, b.info[w[j]])
    <3>1. CASE j = i + 1
      BY <2>2, <3>1
    <3>2. CASE j # i + 1
      <4>1. j <= i
        BY <1>1, <2>4, <3>2
      <4> QED BY <1>2, <2>1, <2>4, <4>1
    <3> QED BY <3>1, <3>2
  <2> HIDE DEF t, f, hit
  <2> QED BY <1>2, <2>1, <2>3, <2>4 DEF Turn, Untouched, Served
<1>7. CASE Satisfied(a.set, f.set, f.option.mode)
  <2>1. /\ b.k = rt_thread_resume(a.k, t)
        /\ b.set = IF f.option.clear THEN a.set \ hit ELSE a.set
        /\ b.info = [a.info EXCEPT ![t].set = hit]
    BY <1>7 DEF Deliver
  <2>2. /\ Wakes(b.k, k) /\ \A o \in Obj : ~InWait(b.k, t, o)
        /\ \A u \in Thread \ {t} : SameGrant(b.k, a.k, u)
    BY <1>1, <1>2, <1>4, <2>1, WakesAnother
  <2>3. b.set \subseteq a.set
    BY <2>1
  <2>4. f.set \in SUBSET EventFlag /\ f.option \in Option /\ f.option.mode \in {"AND", "OR"}
    BY <1>5 DEF Info, Option
  <2>5. hit \subseteq f.set /\ Satisfied(hit, f.set, f.option.mode)
    BY <1>7, <2>4 DEF Satisfied
  <2> HIDE DEF hit
  <2>6. /\ b.info \in [Thread -> Info] /\ b.info[t].set = hit
        /\ b.info[t].option = f.option
        /\ \A u \in Thread \ {t} : b.info[u] = a.info[u]
    <3>1. b.info = [a.info EXCEPT ![t] = [f EXCEPT !.set = hit]]
      BY <2>1
    <3>2. f \in [set : SUBSET EventFlag, option : Option] /\ hit \in SUBSET EventFlag
      BY <1>5, <2>4, <2>5 DEF Info
    <3> HIDE DEF f
    <3>3. /\ [f EXCEPT !.set = hit] \in Info /\ [f EXCEPT !.set = hit].set = hit
          /\ [f EXCEPT !.set = hit].option = f.option
      BY <3>2 DEF Info
    <3> QED BY <1>1, <1>2, <3>1, <3>3
  <2>7. Served(b, t)
    BY <1>1, <1>5, <2>2, <2>5, <2>6 DEF Served
  <2>8. ASSUME NEW u \in Thread \ {t} PROVE Untouched(b, u) \/ Served(b, u)
    <3>1. SameGrant(b.k, a.k, u) /\ b.info[u] = a.info[u]
      BY <2>2, <2>6
    <3>2. CASE Untouched(a, u)
      BY <3>1, <3>2 DEF Untouched, SameGrant, SameTimer
    <3>3. CASE Served(a, u)
      BY <3>1, <3>3 DEF Served, SameGrant
    <3> QED BY <1>2, <3>2, <3>3
  <2>9. ASSUME NEW j \in 1 .. n, i + 1 < j PROVE InWait(b.k, w[j], event)
    <3>1. i < j /\ j # i + 1
      BY <1>1, <2>9
    <3>2. w[j] \in Thread \ {t} /\ InWait(a.k, w[j], event)
      BY <1>1, <1>2, <3>1
    <3> QED BY <2>2, <3>2, EventFacts DEF SameGrant
  <2>10. ASSUME NEW j \in 1 .. n, j <= i + 1, InWait(b.k, w[j], event)
         PROVE  Unmet(b.set, b.info[w[j]])
    <3>1. w[j] # t
      BY <2>2, <2>10, EventFacts
    <3>2. w[j] \in Thread \ {t} /\ j # i + 1
      BY <1>1, <3>1
    <3>3. j <= i
      BY <1>1, <2>10, <3>2
    <3>4. InWait(a.k, w[j], event) /\ b.info[w[j]] = a.info[w[j]]
      BY <2>2, <2>6, <2>10, <3>2, EventFacts DEF SameGrant
    <3> QED BY <1>2, <2>3, <3>3, <3>4, UnmetByFewer
  <2>11. b.set \subseteq EventFlag
    BY <1>2, <2>3
  <2> HIDE DEF t, f
  <2> QED BY <2>2, <2>6, <2>7, <2>8, <2>9, <2>10, <2>11 DEF Turn
<1> QED BY <1>6, <1>7

\* the loop to its end
LEMMA TurnsDone ==
    ASSUME EventInv, NEW s \in SUBSET EventFlag
    PROVE  Turn(Sent(s), Len(k.wait[event]))
<1> DEFINE w == k.wait[event]
           n == Len(w)
           base == [k |-> k, set |-> set \cup s, info |-> info]
<1>1. w \in Seq(Thread) /\ n \in Nat /\ \A j \in 1 .. n : InWait(k, w[j], event)
  BY Waiters, EventFacts
<1>2. PICK f : /\ f[0] = base
               /\ \A i \in 1 .. n : f[i] = Deliver(f[i - 1], w[i])
               /\ FoldLeft(Deliver, base, w) = f[n]
  <2> HIDE DEF base, w
  <2> QED BY <1>1, FoldTurns
<1>3. Sent(s) = f[n]
  BY <1>2 DEF Sent
<1>4. Turn(f[0], 0)
  <2>1. Wakes(k, k)
    BY WakesNone, EventFacts
  <2>2. set \cup s \subseteq EventFlag /\ info \in [Thread -> Info]
    BY EventFacts DEF EventTypes
  <2>3. \A u \in Thread : Untouched(base, u)
    BY SameGrantProps DEF Untouched
  <2>4. f[0] = base /\ base.k = k /\ base.set = set \cup s /\ base.info = info
    BY <1>2
  <2>5. \A j \in 1 .. n : ~(j <= 0)
    BY <1>1
  <2> HIDE DEF base
  <2> QED BY <1>1, <2>1, <2>2, <2>3, <2>4, <2>5 DEF Turn
<1> HIDE DEF base
<1>5. ASSUME NEW i \in Nat, i < n, Turn(f[i], i) PROVE Turn(f[i + 1], i + 1)
  <2>1. i + 1 \in 1 .. n /\ (i + 1) - 1 = i
    BY <1>1, <1>5
  <2>2. f[i + 1] = Deliver(f[i], w[i + 1])
    BY <1>2, <2>1
  <2> QED BY <1>5, <2>2, TurnStep
<1> DEFINE Bad == {i \in 0 .. n : ~Turn(f[i], i)}
<1>6. Bad = {}
  <2> SUFFICES ASSUME Bad # {} PROVE FALSE
    OBVIOUS
  <2>1. Bad \subseteq Nat
    BY <1>1
  <2>2. Min(Bad) \in Bad /\ \A y \in Bad : Min(Bad) <= y
    BY <2>1, MinProps
  <2> DEFINE m == Min(Bad)
  <2>3. m \in 0 .. n /\ ~Turn(f[m], m) /\ \A y \in 0 .. n : ~Turn(f[y], y) => m <= y
    BY <2>2
  <2> HIDE DEF m, Bad, n
  <2>4. m # 0
    BY <1>4, <2>3
  <2>5. /\ m - 1 \in Nat /\ m - 1 \in 0 .. n /\ m - 1 < n /\ ~(m <= m - 1)
        /\ (m - 1) + 1 = m
    BY <1>1, <2>3, <2>4
  <2>6. Turn(f[m - 1], m - 1)
    BY <2>3, <2>5
  <2>7. Turn(f[(m - 1) + 1], (m - 1) + 1)
    BY <1>5, <2>5, <2>6
  <2> QED BY <2>3, <2>5, <2>7
<1>7. n \in 0 .. n
  BY <1>1
<1> QED BY <1>3, <1>6, <1>7

\* the section wakes threads, and leaves no one waiting for what is in the set
LEMMA SendEvent ==
    ASSUME EventInv, NEW s \in SUBSET EventFlag, SendSection(s)
    PROVE  /\ Wakes(k', k) /\ EventTypes' /\ AskedWhileWaiting'
           /\ \A u \in Thread : InWait(k', u, event) => Unmet(set', info'[u])
           /\ (\A u \in Thread : \/ pc'[u] = pc[u]
                                 \/ pc[u] \notin Taking /\ pc'[u] \notin Taking)
              => RecvedSatisfies'
<1> DEFINE a == Sent(s)
           n == Len(k.wait[event])
<1>1. k' = a.k /\ set' = a.set /\ info' = a.info /\ arg' = arg /\ asked' = asked
  BY DEF SendSection, ipcVars
<1>2. Turn(a, n)
  BY TurnsDone
<1> HIDE DEF a
<1>3. /\ Wakes(a.k, k) /\ a.set \subseteq EventFlag /\ a.info \in [Thread -> Info]
      /\ \A u \in Thread : Untouched(a, u) \/ Served(a, u)
      /\ \A j \in 1 .. n :
            j <= n /\ InWait(a.k, k.wait[event][j], event)
               => Unmet(a.set, a.info[k.wait[event][j]])
  BY <1>2 DEF Turn
<1>4. Wakes(k', k) /\ EventTypes'
  BY <1>1, <1>3, EventFacts DEF EventTypes
<1>5. AskedWhileWaiting'
  <2>1. ASSUME NEW u \in Thread, InWait(k', u, event) PROVE info'[u].set = asked'[u]
    <3>1. InWait(k, u, event)
      BY <1>4, <2>1, EventFacts DEF Wakes, NoNewWaiter
    <3>2. Untouched(a, u)
      BY <1>1, <1>3, <2>1, EventFacts DEF Served
    <3> QED BY <1>1, <3>1, <3>2, EventFacts DEF AskedWhileWaiting, Untouched
  <2> QED BY <2>1 DEF AskedWhileWaiting, InWait
<1>6. ASSUME NEW u \in Thread, InWait(k', u, event) PROVE Unmet(set', info'[u])
  <2>1. InWait(k, u, event)
    BY <1>4, <1>6, EventFacts DEF Wakes, NoNewWaiter
  <2>2. PICK j \in 1 .. n : u = k.wait[event][j]
    BY <2>1, Waiters, EventFacts
  <2>3. j <= n
    BY <2>2, Waiters, EventFacts
  <2> HIDE DEF n
  <2> QED BY <1>1, <1>3, <1>6, <2>2, <2>3
<1>7. ASSUME \A u \in Thread : \/ pc'[u] = pc[u]
                               \/ pc[u] \notin Taking /\ pc'[u] \notin Taking
      PROVE  RecvedSatisfies'
  <2>1. ASSUME NEW u \in Thread, u \in InFlight(event)'
        PROVE  /\ info'[u].set \subseteq asked'[u]
               /\ Satisfied(info'[u].set, asked'[u], info'[u].option.mode)
    <3>1. CASE Untouched(a, u)
      <4>1. SameGrant(k', k, u) /\ info'[u] = info[u]
        BY <1>1, <3>1 DEF Untouched
      <4>2. StaysInFlight(u)
        BY <1>1, <1>7, <4>1 DEF StaysInFlight, NotGranted
      <4>3. u \in InFlight(event)
        BY <2>1, <4>2, FlightOfThread, EventFacts
      <4> QED BY <1>1, <4>1, <4>3 DEF EventInv, RecvedSatisfies
    <3>2. CASE Served(a, u)
      BY <1>1, <3>2 DEF Served
    <3> QED BY <1>3, <3>1, <3>2
  <2> QED BY <2>1, FlightFinite DEF RecvedSatisfies
<1> QED BY <1>4, <1>5, <1>6, <1>7

\* rt_event_send, in a thread or in a handler
LEMMA SendStepEvent ==
    ASSUME EventInv, NEW s \in Sets, DevSend(s) \/ \E t \in Thread : rt_event_send(t, s)
    PROVE  EventInv'
<1>1. SendSection(s) /\ arg' = arg /\ valid' = valid /\ s \in SUBSET EventFlag
  BY DEF DevSend, rt_event_send, SendSection, ipcVars, Sets
<1>2. /\ Wakes(k', k) /\ EventTypes' /\ AskedWhileWaiting'
      /\ \A u \in Thread : InWait(k', u, event) => Unmet(set', info'[u])
      /\ (\A u \in Thread : \/ pc'[u] = pc[u]
                            \/ pc[u] \notin Taking /\ pc'[u] \notin Taking)
         => RecvedSatisfies'
  BY <1>1, SendEvent
<1>3. NoMissedEvent'
  <2>1. KInv(k')
    BY <1>2 DEF Wakes
  <2>2. \A u \in Range(k'.wait[event]) : u \in Thread
    <3>1. k'.wait[event] \in Seq(Thread)
      BY <2>1, EventAssumption DEF KInv, WellFormed, KernelState
    <3> QED BY <3>1 DEF Range
  <2> QED BY <1>2, <2>2 DEF NoMissedEvent, InWait, Unmet
<1>4. CASE DevSend(s)
  <2>1. pc' = pc
    BY <1>4 DEF DevSend
  <2>2. isr' \in Seq(Frame)
    <3>1. \E at \in {"sched", "leave"} : isr' = [isr EXCEPT ![Len(isr)].at = at]
      BY <1>4 DEF DevSend, GotoFrame
    <3>2. isr # <<>>
      BY <1>4 DEF DevSend, InHandler
    <3> QED BY <3>1, <3>2, FrameProps, EventFacts
  <2>3. IpcInv(IpcPc)'
    BY <1>1, <1>2, <2>1, <2>2, DevIpc, EventFacts
  <2>4. HasArg'
    BY <1>1, <2>1, EventFacts DEF HasArg
  <2> QED BY <1>2, <1>3, <2>1, <2>3, <2>4 DEF EventInv
<1>5. ASSUME NEW t \in Thread, rt_event_send(t, s) PROVE EventInv'
  <2>1. PICK l \in {"sched", "run"} : pc' = [pc EXCEPT ![t] = l]
    BY <1>5 DEF rt_event_send, Goto
  <2>2. Running(t) /\ pc[t] = "run" /\ isr' = isr
    BY <1>5 DEF rt_event_send, Calls, At
  <2>3. IpcInv(IpcPc)'
    <3>1. /\ l \in IpcPc \ Taking /\ pc[t] \notin BlockPc
          /\ arg' = [arg EXCEPT ![t] = arg[t]] /\ arg[t] \in Obj \cup {None}
      BY <1>1, <2>1, <2>2, EventFacts DEF IpcPc, CpuPc, Taking, BlockPc
    <3> QED BY <1>1, <1>2, <2>1, <2>2, <3>1, MoveIpc, EventFacts
  <2>4. HasArg' /\ \A u \in Thread : \/ pc'[u] = pc[u]
                                     \/ pc[u] \notin Taking /\ pc'[u] \notin Taking
    BY <1>1, <2>1, <2>2, EventFacts DEF HasArg, Taking
  <2> QED BY <1>2, <1>3, <2>3, <2>4 DEF EventInv
<1> QED BY <1>4, <1>5

-----------------------------------------------------------------------------
(* The theorems. *)

\* the invariant holds at the start
LEMMA EventInitInv == Init => EventInv
<1> SUFFICES ASSUME Init PROVE EventInv
  OBVIOUS
<1>1. /\ IpcInit /\ pc = [t \in Thread |-> "run"] /\ set = {}
      /\ info = [t \in Thread |-> NoInfo] /\ asked = [t \in Thread |-> {}]
  BY DEF Init, IpcInit, CpuInit
<1>2. /\ IpcInv(IpcPc)
      /\ \A o \in Obj : k.wait[o] = <<>> /\ InFlight(o) = {}
  BY <1>1, IpcInitInv DEF IpcPc, CpuPc
<1>3. EventTypes /\ HasArg
  <2>1. NoInfo \in Info
    BY DEF NoInfo, Info, Option
  <2> QED BY <1>1, <2>1 DEF EventTypes, HasArg
<1>4. Range(k.wait[event]) = {} /\ InFlight(event) = {}
  BY <1>2, EventAssumption DEF Range
<1> QED BY <1>2, <1>3, <1>4 DEF EventInv, AskedWhileWaiting, NoMissedEvent, RecvedSatisfies, InWait

\* and every step keeps it
LEMMA EventNextInv == EventInv /\ [Next]_vars => EventInv'
<1> SUFFICES ASSUME EventInv, [Next]_vars PROVE EventInv'
  OBVIOUS
<1>1. CASE CpuStep(MaskedPc) /\ UNCHANGED <<ipcVars, eventVars>>
  BY <1>1, CpuStepEvent
<1>2. ASSUME NEW s \in Sets, DevSend(s) PROVE EventInv'
  BY <1>2, SendStepEvent
<1>3. ASSUME NEW t \in Thread, Finish(t) PROVE EventInv'
  BY <1>3, CpuServiceEvent, TakeScheduleEvent, RecvReturnEvent, ResumeErrorEvent,
     QuietStepsEvent DEF Finish, DetachStep
<1>4. ASSUME NEW t \in Thread, Call(t) PROVE EventInv'
  <2>1. ASSUME NEW s \in Sets, rt_event_send(t, s) PROVE EventInv'
    BY <2>1, SendStepEvent
  <2>2. ASSUME NEW s \in Sets, NEW o \in Option, RecvNow(t, s, o) \/ RecvFails(t, s, o)
        PROVE  EventInv'
    BY <2>2, RecvNoWaitEvent
  <2>3. ASSUME NEW s \in Sets, NEW o \in Option, NEW d \in Timeouts, RecvBlock(t, s, o, d)
        PROVE  EventInv'
    <3>1. s \in SUBSET EventFlag
      BY DEF Sets
    <3> QED BY <2>3, <3>1, RecvBlockEvent
  <2> QED BY <1>4, <2>1, <2>2, <2>3, CpuServiceEvent, QuietStepsEvent DEF Call
<1>5. CASE UNCHANGED vars
  <2>1. /\ k' = k /\ isr' = isr /\ pc' = pc /\ arg' = arg /\ valid' = valid
        /\ set' = set /\ info' = info /\ asked' = asked
    BY <1>5 DEF vars
  <2>2. IpcInv(IpcPc)'
    BY <2>1, DevIpc, WakesNone, EventFacts
  <2>3. HasArg' /\ NoNewWaiter(k', k) /\ InFlight(event)' = InFlight(event)
    BY <2>1, EventFacts DEF HasArg, NoNewWaiter, InFlight
  <2> QED BY <2>1, <2>2, <2>3, EventKept
<1> QED BY <1>1, <1>2, <1>3, <1>4, <1>5 DEF Next

\* The inductive invariant of the kernel with an event set (rt_event_send,
\* rt_event_recv, rt_event_control, detach and delete) holds in every reachable state.
THEOREM EventInvariant == Spec => []EventInv
  BY EventInitInv, EventNextInv, PTL DEF Spec

\* the invariant says what the properties of the modules say
LEMMA EventInvMeaning ==
    ASSUME EventInv
    PROVE  /\ TypeOK /\ NoMissedEvent /\ RecvedSatisfies /\ WaiterIsReachable
           /\ ListsMatchStat /\ ReadyIsQueued /\ SwitchCoherent /\ TimersOfSuspended
<1>1. /\ k \in KernelState /\ isr \in Seq(Frame) /\ WaiterIsReachable
      /\ ListsMatchStat /\ ReadyIsQueued /\ SwitchCoherent /\ TimersOfSuspended
  BY IpcMeaning, EventFacts
<1> QED BY <1>1, EventFacts DEF EventInv, IpcInv, IpcTypes, EventTypes, TypeOK, IpcTypeOK

\* Every variable of the kernel with an event set keeps its type.
THEOREM EventTypeCorrect == Spec => []TypeOK
  BY EventInvariant, EventInvMeaning, PTL

\* Nobody waits for flags that are in event->set: whatever the loop of rt_event_send gave
\* and cleared before it came to a waiter, that waiter's condition does not hold on what
\* is left, and no receive, timeout, reset or detach makes it hold.
THEOREM EventNoMissedEvent == Spec => []NoMissedEvent
  BY EventInvariant, EventInvMeaning, PTL

\* A receive that was resumed without an error finds in thread->event_set flags that it
\* had asked for, all of them or at least one as its option says, however many sends,
\* clears and resets have changed event->set before it runs again.
THEOREM EventRecvedSatisfies == Spec => []RecvedSatisfies
  BY EventInvariant, EventInvMeaning, PTL

\* A thread suspended in rt_event_recv is on the event's wait list, and one that a send, a
\* timeout or an error has woken is off it, though one send takes several out of the middle.
THEOREM EventWaiterIsReachable == Spec => []WaiterIsReachable
  BY EventInvariant, EventInvMeaning, PTL
=============================================================================
