--------------------------- MODULE MailboxProofs ---------------------------
(***************************************************************************)
(* The safety of the kernel with a mailbox, for any number of threads,     *)
(* priorities, messages and slots, and that a mailbox is a bounded buffer. *)
(* The first part is what mailboxes share with message queues (module      *)
(* Channel): the two wait lists, the locals of a thread that waits on one  *)
(* of them, and the count of the threads that have been resumed and have   *)
(* not tested the condition again.                                         *)
(***************************************************************************)
EXTENDS Mailbox, IpcProofs

ChanTypes ==
    /\ call \in [Thread -> Locals]
    /\ due \in [Thread -> Ticks \cup {None}]

\* a thread that detaches the channel has the list it empties in arg
DetachHasArg ==
    \A t \in Thread : pc[t] \in {"detach", "resume", "object"} => arg[t] \in Obj

\* a thread that waits for room has the message to send among its locals
HasMessage ==
    \A t \in Thread : pc[t] \in Taking /\ arg[t] = sendq => call[t].msg \in Message

\* the idle thread calls no service
IdleOut == pc[Idle] \notin Taking

\* at tick n a call with locals c, which is to end at tick x, has not waited longer than
\* its timeout, and until that is over tick_delta and timeout still add up to x
OnTime(n, c, x) ==
    /\ c.timeout # 0 /\ (c.timeout = None <=> x = None)
    /\ c.timeout # None =>
          LET e == (n - c.tick_delta) % TickMod
          IN  /\ e <= c.timeout
              /\ e < c.timeout => x = (c.tick_delta + c.timeout) % TickMod

\* the timer of u is set to tick x, or not running
TimerFor(r, u, x) ==
    IF x = None THEN ~InTimers(r, u) ELSE InTimers(r, u) /\ r.tmo[u] = x

\* a call that waits keeps its time, and its timer the tick at which it is to end
TimedAt(t) ==
    /\ OnTime(k.tick, call[t], due[t])
    /\ \A o \in Obj : InWait(k, t, o) => TimerFor(k, t, due[t])
Timed == \A t \in Thread : pc[t] \in Taking => TimedAt(t)

ChanInv(P) ==
    IpcInv(P) /\ ChanTypes /\ DetachHasArg /\ HasMessage /\ IdleOut /\ Timed

\* no thread is resumed to find a message or room, and none waits that has not waited
NoGrant ==
    /\ NoNewWaiter(k', k)
    /\ \A o \in Obj : InFlight(o)' = InFlight(o)

\* a thread may begin to wait on s, or give up; nobody else is concerned
OnlyWaitsOn(s) ==
    \A o \in Obj \ {s} :
        /\ InFlight(o)' = InFlight(o)
        /\ \A u \in Thread : InWait(k', u, o) => InWait(k, u, o)

\* whoever still waits on s has seen another thread resumed; one thread at most has
\* used what it was resumed for on another list
Grants(s) ==
    /\ NoNewWaiter(k', k)
    /\ \A u \in Thread :
          InWait(k', u, s) => Cardinality(InFlight(s)') = Cardinality(InFlight(s)) + 1
    /\ \A o \in Obj \ {s} : Cardinality(InFlight(o)') >= Cardinality(InFlight(o)) - 1

\* the arguments of one thread change, and it does not wait for room without a message
LEMMA ArgStep ==
    ASSUME NEW P, ChanInv(P), NEW t \in Thread,
           \A u \in Thread \ {t} : pc'[u] = pc[u] /\ arg'[u] = arg[u],
           \A u \in Thread \ {t} : call'[u].msg = call[u].msg,
           pc'[t] \in {"detach", "resume", "object"} => arg'[t] \in Obj,
           pc'[t] \in Taking => t # Idle /\ (arg'[t] = sendq => call'[t].msg \in Message)
    PROVE  DetachHasArg' /\ HasMessage' /\ IdleOut'
<1>1. DetachHasArg /\ HasMessage /\ IdleOut /\ Idle \in Thread
  BY ThreadAssumption DEF ChanInv
<1>2. DetachHasArg' /\ HasMessage'
  BY <1>1 DEF DetachHasArg, HasMessage
<1>3. IdleOut'
  BY <1>1 DEF IdleOut
<1> QED BY <1>2, <1>3

\* a thread that still waits, in the same call, has its timer set to the same tick
LEMMA TimedStill ==
    ASSUME NEW u \in Thread, TimedAt(u), k'.tick = k.tick, call'[u] = call[u],
           due'[u] = due[u], StillWaits(k', k, u)
    PROVE  TimedAt(u)'
  BY DEF TimedAt, StillWaits, SameTimer, TimerFor

\* the locals of one thread change, those of a call that keeps its time if it waits
LEMMA ChanStep ==
    ASSUME NEW P, ChanInv(P), IpcInv(P)', ChanTypes', NEW t \in Thread,
           \A u \in Thread \ {t} : pc'[u] = pc[u] /\ arg'[u] = arg[u],
           \A u \in Thread \ {t} : call'[u] = call[u] /\ due'[u] = due[u],
           k'.tick = k.tick, \A u \in Thread \ {t} : StillWaits(k', k, u),
           pc'[t] \in {"detach", "resume", "object"} => arg'[t] \in Obj,
           pc'[t] \in Taking => /\ t # Idle /\ TimedAt(t)'
                                /\ arg'[t] = sendq => call'[t].msg \in Message
    PROVE  ChanInv(P)'
<1>1. DetachHasArg' /\ HasMessage' /\ IdleOut'
  BY ArgStep
<1>2. Timed'
  <2>1. ASSUME NEW u \in Thread \ {t}, pc'[u] \in Taking PROVE TimedAt(u)'
    BY <2>1, TimedStill DEF ChanInv, Timed
  <2> QED BY <2>1 DEF Timed
<1> QED BY <1>1, <1>2 DEF ChanInv

\* a remainder of an offset that has gone round once at most, in either direction
LEMMA RoundOnce ==
    ASSUME NEW S \in Nat \ {0}, NEW a \in Int, -S <= a, a < 2 * S
    PROVE  a % S = IF a < 0 THEN a + S ELSE IF a < S THEN a ELSE a - S
  OBVIOUS

\* an offset that goes round once at most
Round(a, M) == IF a < 0 THEN a + M ELSE IF a < M THEN a ELSE a - M
LEMMA RoundProps ==
    ASSUME NEW M \in Nat, M >= 4, NEW i \in 0 .. M - 1, NEW j \in 0 .. M - 1
    PROVE  /\ (i + j) % M = Round(i + j, M) /\ (i - j) % M = Round(i - j, M)
           /\ (i + 1) % M = Round(i + 1, M)
<1> DEFINE a == i + j
           b == i - j
           c == i + 1
<1>1. /\ M \in Nat \ {0} /\ a \in Int /\ -M <= a /\ a < 2 * M
      /\ b \in Int /\ -M <= b /\ b < 2 * M /\ c \in Int /\ -M <= c /\ c < 2 * M
  OBVIOUS
<1> HIDE DEF a, b, c
<1>2. a % M = Round(a, M)
  BY <1>1, RoundOnce DEF Round
<1>3. b % M = Round(b, M)
  BY <1>1, RoundOnce DEF Round
<1>4. c % M = Round(c, M)
  BY <1>1, RoundOnce DEF Round
<1> QED BY <1>2, <1>3, <1>4 DEF a, b, c

\* the ticks that have passed since delta, one tick later and from one tick later
TickFacts(M, n, delta) ==
    LET e == (n - delta) % M
        n1 == (n + 1) % M
        d1 == (delta + 1) % M
    IN  /\ e \in 0 .. M - 1
        /\ e < M - 1 => (n1 - delta) % M = e + 1
        /\ (n1 - d1) % M = e
        /\ \A d \in 0 .. M - 1 : e <= d => (n + (d - e)) % M = (delta + d) % M
LEMMA TicksPassed ==
    ASSUME NEW M \in Nat, M >= 4, NEW n \in 0 .. M - 1, NEW delta \in 0 .. M - 1
    PROVE  TickFacts(M, n, delta)
<1> DEFINE e == (n - delta) % M
           n1 == (n + 1) % M
           d1 == (delta + 1) % M
<1> SUFFICES /\ e \in 0 .. M - 1
             /\ e < M - 1 => (n1 - delta) % M = e + 1
             /\ (n1 - d1) % M = e
             /\ \A d \in 0 .. M - 1 : e <= d => (n + (d - e)) % M = (delta + d) % M
  BY Zenon DEF TickFacts
<1>1. e = Round(n - delta, M) /\ n1 = Round(n + 1, M) /\ d1 = Round(delta + 1, M)
  BY RoundProps
<1> HIDE DEF e, n1, d1
<1>2. e \in 0 .. M - 1 /\ n1 \in 0 .. M - 1 /\ d1 \in 0 .. M - 1
  BY <1>1 DEF Round
<1>3. e < M - 1 => (n1 - delta) % M = e + 1
  <2>1. (n1 - delta) % M = Round(n1 - delta, M)
    BY <1>2, RoundProps
  <2> QED BY <1>1, <1>2, <2>1 DEF Round
<1>4. (n1 - d1) % M = e
  <2>1. (n1 - d1) % M = Round(n1 - d1, M)
    BY <1>2, RoundProps
  <2> QED BY <1>1, <1>2, <2>1 DEF Round
<1>5. ASSUME NEW d \in 0 .. M - 1, e <= d PROVE (n + (d - e)) % M = (delta + d) % M
  <2> DEFINE f == d - e
  <2>1. f \in 0 .. M - 1
    BY <1>2, <1>5
  <2>2. (n + f) % M = Round(n + f, M) /\ (delta + d) % M = Round(delta + d, M)
    BY <2>1, RoundProps
  <2> QED BY <1>1, <1>2, <1>5, <2>2 DEF Round
<1> QED BY <1>2, <1>3, <1>4, <1>5

\* Max picks the greater of two numbers
LEMMA MaxOfTwo ==
    ASSUME NEW a \in Int
    PROVE  Max({0, a}) = IF a > 0 THEN a ELSE 0
<1> DEFINE b == IF a > 0 THEN a ELSE 0
<1>1. b \in {0, a} /\ \A y \in {0, a} : b >= y
  OBVIOUS
<1>2. \A x \in {0, a} : (\A y \in {0, a} : x >= y) => x = b
  BY <1>1
<1> QED BY <1>1, <1>2 DEF Max

\* what is left of a timeout is a timeout
LEMMA RemainingProps ==
    ASSUME ChanTypes, k.tick \in Ticks, NEW t \in Thread
    PROVE  /\ Remaining(t) \in (0 .. HalfTick - 1) \cup {None}
           /\ call[t].timeout = None => Remaining(t) = None
           /\ call[t].timeout # None =>
                LET e == (k.tick - call[t].tick_delta) % TickMod
                IN  /\ call[t].timeout \in 0 .. HalfTick - 1 /\ e \in Ticks
                    /\ Remaining(t) = IF e < call[t].timeout THEN call[t].timeout - e ELSE 0
<1>1. call[t] \in Locals /\ HalfTick \in Nat
  BY TickAssumption DEF ChanTypes, HalfTick
<1>2. CASE call[t].timeout = None
  BY <1>2 DEF Remaining
<1>3. CASE call[t].timeout # None
  <2> DEFINE d == call[t].timeout
             e == (k.tick - call[t].tick_delta) % TickMod
  <2>1. d \in 0 .. HalfTick - 1 /\ call[t].tick_delta \in Ticks
    BY <1>1, <1>3 DEF Locals
  <2>2. e \in Ticks
    BY <2>1, TickAssumption DEF Ticks
  <2>3. Remaining(t) = Max({0, d - e})
    BY <1>3 DEF Remaining
  <2> HIDE DEF d, e
  <2>4. Remaining(t) = IF d - e > 0 THEN d - e ELSE 0
    BY <2>1, <2>2, <2>3, MaxOfTwo, TickAssumption DEF Ticks
  <2>5. Remaining(t) = IF e < d THEN d - e ELSE 0
    BY <1>1, <2>1, <2>2, <2>4, TickAssumption DEF Ticks
  <2>6. Remaining(t) \in 0 .. HalfTick - 1
    BY <1>1, <2>1, <2>2, <2>5, TickAssumption DEF Ticks
  <2> QED BY <1>3, <2>1, <2>2, <2>5, <2>6 DEF d, e
<1> QED BY <1>2, <1>3


\* a tick leaves a call on time
LEMMA ElapsedOnTime ==
    ASSUME NEW c \in Locals, k.tick \in Ticks, NEW x, OnTime(k.tick, c, x)
    PROVE  OnTime((k.tick + 1) % TickMod, Elapsed(c), x)
<1> DEFINE n == k.tick
           n1 == (n + 1) % TickMod
           d == c.timeout
           delta == c.tick_delta
           e == (n - delta) % TickMod
           y == (delta + 1) % TickMod
<1>1. CASE d = None
  BY <1>1 DEF OnTime, Elapsed
<1>2. CASE d # None
  <2>1. /\ TickMod \in Nat /\ TickMod >= 4 /\ n \in 0 .. TickMod - 1
        /\ delta \in 0 .. TickMod - 1 /\ d \in 0 .. HalfTick - 1
        /\ HalfTick \in Nat /\ HalfTick < TickMod
    BY <1>2, TickAssumption DEF Locals, Ticks, HalfTick
  <2>2. /\ d # 0 /\ x # None /\ e <= d
        /\ e < d => x = (delta + d) % TickMod
    BY <1>2 DEF OnTime
  <2>3. Elapsed(c) = IF e = d THEN [c EXCEPT !.tick_delta = y] ELSE c
    BY <1>2, <2>2 DEF Elapsed
  <2>4. /\ Elapsed(c).timeout = d
        /\ Elapsed(c).tick_delta = IF e = d THEN y ELSE delta
    <3> HIDE DEF y, e
    <3> QED BY <2>3 DEF Locals
  <2>5. TickFacts(TickMod, n, delta)
    BY <2>1, TicksPassed
  <2>6. /\ e \in 0 .. TickMod - 1 /\ (e < TickMod - 1 => (n1 - delta) % TickMod = e + 1)
        /\ (n1 - y) % TickMod = e
    BY <2>5, Zenon DEF TickFacts
  <2>7. SUFFICES OnTime(n1, Elapsed(c), x)
    OBVIOUS
  <2> HIDE DEF n, n1, d, delta, e, y
  <2>8. CASE e = d
    BY <1>2, <2>2, <2>4, <2>6, <2>8 DEF OnTime
  <2>9. CASE e # d
    <3>1. e < d /\ (n1 - delta) % TickMod = e + 1 /\ e + 1 <= d
      BY <2>1, <2>2, <2>6, <2>9
    <3> QED BY <1>2, <2>2, <2>4, <2>9, <3>1 DEF OnTime
  <2> QED BY <2>8, <2>9
<1> QED BY <1>1, <1>2

\* a call that begins to wait is on time
LEMMA BeginOnTime ==
    ASSUME NEW n \in Ticks, NEW d \in (0 .. HalfTick - 1) \cup {None}, d # 0, NEW m
    PROVE  OnTime(n, [msg |-> m, timeout |-> d, tick_delta |-> IF d = None THEN 0 ELSE n],
                  IF d = None THEN None ELSE (n + d) % TickMod)
<1>1. TickMod \in Nat /\ TickMod >= 4 /\ n \in 0 .. TickMod - 1 /\ HalfTick \in Nat
  BY TickAssumption DEF Ticks, HalfTick
<1>2. CASE d = None
  BY <1>2 DEF OnTime
<1>3. CASE d # None
  <2>1. (n - n) % TickMod = 0 /\ d \in Nat
    BY <1>1, <1>3
  <2>2. (n + d) % TickMod \in Ticks
    BY <1>1, <2>1 DEF Ticks
  <2>3. (n + d) % TickMod # None
    BY <2>2, ChannelAssumption
  <2> QED BY <1>3, <2>1, <2>3 DEF OnTime
<1> QED BY <1>2, <1>3

\* what is left of a timeout ends in the tick in which the call is to end
LEMMA RemainingOnTime ==
    ASSUME ChanTypes, k.tick \in Ticks, NEW t \in Thread,
           OnTime(k.tick, call[t], due[t]), Remaining(t) # 0
    PROVE  due[t] = IF Remaining(t) = None THEN None ELSE (k.tick + Remaining(t)) % TickMod
<1> DEFINE d == call[t].timeout
           delta == call[t].tick_delta
           e == (k.tick - delta) % TickMod
<1>1. CASE d = None
  BY <1>1, RemainingProps DEF OnTime
<1>2. CASE d # None
  <2>1. /\ d \in 0 .. HalfTick - 1 /\ e \in Ticks
        /\ Remaining(t) = IF e < d THEN d - e ELSE 0
    BY <1>2, RemainingProps
  <2>2. /\ TickMod \in Nat /\ TickMod >= 4 /\ k.tick \in 0 .. TickMod - 1
        /\ delta \in 0 .. TickMod - 1
    BY TickAssumption DEF ChanTypes, Locals, Ticks
  <2>3. d \in 0 .. TickMod - 1
    BY <2>1, <2>2 DEF HalfTick
  <2>4. e < d /\ Remaining(t) = d - e
    BY <2>1
  <2>5. due[t] = (delta + d) % TickMod
    BY <1>2, <2>4 DEF OnTime
  <2>6. e <= d
    BY <2>1, <2>2, <2>3, <2>4 DEF Ticks
  <2>7. (k.tick + (d - e)) % TickMod = (delta + d) % TickMod
    <3>1. TickFacts(TickMod, k.tick, delta)
      BY <2>2, TicksPassed
    <3> QED BY <2>3, <2>6, <3>1, Zenon DEF TickFacts
  <2>8. d - e # None
    <3>1. d - e \in Ticks
      BY <2>1, <2>2, <2>3, <2>4 DEF Ticks
    <3> QED BY <3>1, ChannelAssumption
  <2> QED BY <2>4, <2>5, <2>7, <2>8
<1> QED BY <1>1, <1>2

-----------------------------------------------------------------------------
(* The steps that do not touch the messages. *)

\* the facts of the invariant that the lemmas below need
LEMMA ChanFacts ==
    ASSUME NEW P, ChanInv(P)
    PROVE  /\ IpcInv(P) /\ KInv(k) /\ k.tick \in Ticks /\ k.err \in [Thread -> Err]
           /\ pc \in [Thread -> P] /\ arg \in [Thread -> Obj \cup {None}]
           /\ valid \in [Obj -> BOOLEAN] /\ Reachable
           /\ call \in [Thread -> Locals] /\ due \in [Thread -> Ticks \cup {None}]
           /\ DetachHasArg /\ HasMessage /\ IdleOut /\ ChanTypes /\ Timed
<1>1. IpcInv(P) /\ KInv(k)
  BY IpcFacts DEF ChanInv
<1>2. k.tick \in Ticks /\ k.err \in [Thread -> Err]
  BY <1>1 DEF KInv, WellFormed, KernelState
<1> QED BY <1>1, <1>2, IpcFacts DEF ChanInv, ChanTypes

\* the correction of a wait that has used up its timeout concerns tick_delta only
LEMMA ElapsedProps ==
    ASSUME NEW c \in Locals
    PROVE  Elapsed(c) \in Locals /\ Elapsed(c).msg = c.msg
<1> DEFINE x == (c.tick_delta + 1) % TickMod
<1>1. x \in Ticks
  BY TickAssumption DEF Locals, Ticks
<1>2. Elapsed(c) = c \/ Elapsed(c) = [c EXCEPT !.tick_delta = x]
  BY DEF Elapsed
<1> HIDE DEF x
<1>3. [c EXCEPT !.tick_delta = x] \in Locals /\ [c EXCEPT !.tick_delta = x].msg = c.msg
  BY <1>1 DEF Locals
<1> QED BY <1>2, <1>3

\* handlers and PendSV
LEMMA CpuChan ==
    ASSUME NEW P, ChanInv(P), ChannelCpu
    PROVE  ChanInv(P)' /\ NoGrant
<1>1. /\ CpuStep(MaskedPc) /\ arg' = arg /\ valid' = valid /\ due' = due
      /\ call' = IF k'.tick # k.tick THEN [t \in Thread |-> Elapsed(call[t])] ELSE call
  BY DEF ChannelCpu, ipcVars
<1>2. /\ IpcInv(P) /\ DetachHasArg /\ IdleOut /\ call \in [Thread -> Locals] /\ Timed
      /\ due \in [Thread -> Ticks \cup {None}] /\ Idle \in Thread /\ k.tick \in Ticks
  BY ChanFacts, ThreadAssumption
<1>3. /\ IpcInv(P)' /\ pc' = pc /\ NoGrant
      /\ \A u \in Thread : StillWaits(k', k, u)
      /\ k'.tick = k.tick \/ k'.tick = (k.tick + 1) % TickMod
  BY <1>1, <1>2, CpuStepIpc DEF NoGrant
<1>4. ChanTypes' /\ \A u \in Thread : call'[u].msg = call[u].msg
  BY <1>1, <1>2, ElapsedProps DEF ChanTypes
<1>5. DetachHasArg' /\ HasMessage' /\ IdleOut'
  BY <1>1, <1>2, <1>3, <1>4, ArgStep DEF DetachHasArg, IdleOut
<1>6. Timed'
  <2> SUFFICES ASSUME NEW u \in Thread, pc[u] \in Taking PROVE TimedAt(u)'
    BY <1>3 DEF Timed
  <2>1. TimedAt(u) /\ call[u] \in Locals /\ StillWaits(k', k, u) /\ due'[u] = due[u]
    BY <1>1, <1>2, <1>3 DEF Timed
  <2>2. CASE k'.tick = k.tick
    BY <1>1, <2>1, <2>2, TimedStill
  <2>3. CASE k'.tick # k.tick
    <3>1. k'.tick = (k.tick + 1) % TickMod /\ call'[u] = Elapsed(call[u])
      BY <1>1, <1>3, <2>3
    <3>2. OnTime(k'.tick, call'[u], due'[u])
      BY <1>2, <2>1, <3>1, ElapsedOnTime DEF TimedAt
    <3>3. \A o \in Obj : InWait(k', u, o) => TimerFor(k', u, due'[u])
      BY <2>1 DEF TimedAt, StillWaits, SameTimer, TimerFor
    <3> QED BY <3>2, <3>3 DEF TimedAt
  <2> QED BY <2>2, <2>3
<1> QED BY <1>3, <1>4, <1>5, <1>6 DEF ChanInv

\* the other services of the kernel, and the rt_schedule inside a send or receive
LEMMA ServiceChan ==
    ASSUME NEW P, ChanInv(P), IpcPc \subseteq P, NEW t \in Thread,
           CpuCall(t) \/ CpuFinish(t) \/ ThreadSchedule(t, "take", "took"),
           UNCHANGED <<ipcVars, chanVars>>
    PROVE  ChanInv(P)' /\ NoGrant
<1>1. arg' = arg /\ valid' = valid /\ call' = call /\ due' = due
  BY DEF ipcVars, chanVars
<1>2. /\ IpcInv(P) /\ pc \in [Thread -> P] /\ ChanTypes /\ IdleOut /\ HasMessage /\ Timed
  BY ChanFacts
<1>3. ChanTypes'
  BY <1>1, <1>2 DEF ChanTypes
<1>4. CASE CpuCall(t) \/ CpuFinish(t)
  <2>1. /\ IpcInv(P)' /\ NoGrant /\ TimersKept(k', k)
        /\ \E l \in CpuPc : pc' = [pc EXCEPT ![t] = l]
    BY <1>1, <1>2, <1>4, ServiceIpc DEF NoGrant, IpcPc
  <2>2. \A u \in Thread \ {t} : pc'[u] = pc[u]
    BY <1>2, <2>1
  <2>3. pc'[t] \in CpuPc
    BY <1>2, <2>1
  <2>4. pc'[t] \notin Taking /\ pc'[t] \notin {"detach", "resume", "object"}
    BY <2>3 DEF CpuPc, Taking
  <2> QED BY <1>1, <1>3, <2>1, <2>2, <2>4, ChanStep DEF TimersKept
<1>5. CASE ThreadSchedule(t, "take", "took")
  <2>1. /\ IpcInv(P)' /\ NoGrant /\ pc[t] = "take" /\ pc' = [pc EXCEPT ![t] = "took"]
        /\ TimersKept(k', k)
    BY <1>1, <1>2, <1>5, TakeScheduleIpc DEF NoGrant, IpcPc, Taking
  <2>2. /\ pc'[t] = "took" /\ \A u \in Thread \ {t} : pc'[u] = pc[u]
    BY <1>2, <2>1
  <2>3. t # Idle /\ (arg[t] = sendq => call[t].msg \in Message)
    BY <1>2, <2>1 DEF IdleOut, HasMessage, Taking
  <2>4. TimedAt(t)'
    BY <1>1, <1>2, <2>1, TimedStill DEF Timed, TimersKept, Taking
  <2> QED BY <1>1, <1>3, <2>1, <2>2, <2>3, <2>4, ChanStep DEF TimersKept
<1> QED BY <1>4, <1>5

\* t leaves application code or its wait without waking anybody
LEMMA QuietChan ==
    ASSUME NEW P, ChanInv(P), IpcPc \subseteq P, NEW t \in Thread, Running(t),
           pc[t] \notin BlockPc, k' = k, isr' = isr,
           \A o \in Obj : t \notin InFlight(o),
           NEW l \in P \ Taking, pc' = [pc EXCEPT ![t] = l],
           NEW x \in Obj \cup {None}, arg' = [arg EXCEPT ![t] = x],
           l \in {"detach", "resume", "object"} => x \in Obj,
           valid' \in [Obj -> BOOLEAN],
           call' = call \/ call' = [call EXCEPT ![t] = NoCall],
           due' = due \/ due' = [due EXCEPT ![t] = None]
    PROVE  ChanInv(P)' /\ NoGrant
<1>1. /\ IpcInv(P) /\ pc \in [Thread -> P] /\ arg \in [Thread -> Obj \cup {None}]
      /\ call \in [Thread -> Locals] /\ due \in [Thread -> Ticks \cup {None}] /\ Reachable
  BY ChanFacts
<1>2. IpcInv(P)' /\ TimersKept(k', k)
  BY <1>1, WakesNone, MoveIpc DEF Wakes
<1>3. NoCall \in Locals
  BY TickAssumption DEF NoCall, Locals, Ticks, HalfTick
<1>4. ChanTypes'
  BY <1>1, <1>3 DEF ChanTypes
<1>5. /\ pc'[t] = l /\ arg'[t] = x
      /\ \A u \in Thread \ {t} : pc'[u] = pc[u] /\ arg'[u] = arg[u] /\ call'[u] = call[u]
      /\ \A u \in Thread \ {t} : due'[u] = due[u]
  BY <1>1
<1>6. ChanInv(P)'
  BY <1>2, <1>4, <1>5, ChanStep DEF TimersKept
<1>7. \A u \in Thread \ {t} : StaysInFlight(u)
  BY <1>5, SameGrantProps DEF StaysInFlight, NotGranted
<1>8. ASSUME NEW o \in Obj PROVE InFlight(o)' = InFlight(o)
  <2>1. \A u \in Thread \ {t} : u \in InFlight(o)' <=> u \in InFlight(o)
    BY <1>1, <1>7, FlightOfThread
  <2>2. t \notin InFlight(o)'
    BY <1>5, InFlightDef
  <2> QED BY <2>1, <2>2, FlightCount
<1> QED BY <1>6, <1>8 DEF NoGrant, NoNewWaiter


\* a thread in application code, or outside of a wait, has nothing in flight
LEMMA NotInFlight ==
    ASSUME NEW t \in Thread, pc[t] \notin Taking \/ k.err[t] # "EOK"
    PROVE  \A o \in Obj : t \notin InFlight(o)
  BY InFlightDef

\* a wait that ends with an error, and the quiet steps of reset and detach
LEMMA QuietStepsChan ==
    ASSUME NEW P, ChanInv(P), IpcPc \subseteq P, NEW t \in Thread,
           \/ WaitFails(t) \/ DetachSenders(t) \/ DetachChannel(t) \/ ResetEnter(t)
           \/ DetachTest(t) /\ UNCHANGED chanVars
           \/ DetachEnter(t, recvq) /\ UNCHANGED chanVars
    PROVE  ChanInv(P)' /\ NoGrant
<1>1. /\ pc \in [Thread -> P] /\ arg \in [Thread -> Obj \cup {None}] /\ DetachHasArg
      /\ valid \in [Obj -> BOOLEAN] /\ recvq \in Obj /\ sendq \in Obj
  BY ChanFacts, ChannelAssumption
<1>2. /\ Running(t) /\ k' = k /\ isr' = isr
      /\ pc[t] \in {"run", "detach", "object"} \/ (pc[t] = "took" /\ k.err[t] # "EOK")
  BY DEF WaitFails, DetachSenders, DetachChannel, ResetEnter, DetachTest, DetachEnter,
         Calls, At
<1>3. /\ valid' \in [Obj -> BOOLEAN]
      /\ call' = call \/ call' = [call EXCEPT ![t] = NoCall]
      /\ due' = due \/ due' = [due EXCEPT ![t] = None]
  BY <1>1 DEF WaitFails, DetachSenders, DetachChannel, ResetEnter, DetachTest, DetachEnter,
              ipcVars, chanVars, EndCall
<1>4. PICK l \in {"run", "detach", "resume", "object", "reset"}, x \in Obj \cup {None} :
         /\ pc' = [pc EXCEPT ![t] = l] /\ arg' = [arg EXCEPT ![t] = x]
         /\ l \in {"detach", "resume", "object"} => x \in Obj
  <2>1. CASE WaitFails(t)
    BY <2>1 DEF WaitFails, EndCall, Goto, SetArg
  <2>2. CASE DetachSenders(t)
    BY <1>1, <2>2 DEF DetachSenders, Goto, SetArg
  <2>3. CASE DetachChannel(t)
    BY <2>3 DEF DetachChannel, Goto, SetArg
  <2>4. CASE ResetEnter(t)
    <3>1. arg' = [arg EXCEPT ![t] = arg[t]] /\ pc' = [pc EXCEPT ![t] = "reset"]
      BY <1>1, <2>4 DEF ResetEnter, ipcVars, Goto
    <3> QED BY <1>1, <3>1
  <2>5. CASE DetachTest(t)
    <3>1. arg' = [arg EXCEPT ![t] = arg[t]] /\ arg[t] \in Obj
      BY <1>1, <2>5 DEF DetachTest, ipcVars, DetachHasArg, At
    <3> QED BY <2>5, <3>1 DEF DetachTest, Goto
  <2>6. CASE DetachEnter(t, recvq)
    BY <1>1, <2>6 DEF DetachEnter, Goto, SetArg
  <2> QED BY <2>1, <2>2, <2>3, <2>4, <2>5, <2>6
<1>5. /\ l \in P \ Taking /\ pc[t] \notin BlockPc
      /\ \A o \in Obj : t \notin InFlight(o)
  BY <1>2, <1>4, NotInFlight DEF IpcPc, CpuPc, Taking, BlockPc
<1> QED BY <1>2, <1>3, <1>4, <1>5, QuietChan

\* one waiter is resumed with an error, by a reset or by the loop of a detach
LEMMA ResumeErrorChan ==
    ASSUME NEW P, ChanInv(P), IpcPc \subseteq P, NEW t \in Thread,
           (\E o \in Obj : ResetResume(t, o)) \/ (DetachResume(t) /\ UNCHANGED chanVars)
    PROVE  ChanInv(P)' /\ NoGrant
<1>1. /\ IpcInv(P) /\ pc \in [Thread -> P] /\ arg \in [Thread -> Obj \cup {None}]
      /\ valid \in [Obj -> BOOLEAN] /\ DetachHasArg /\ ChanTypes /\ Reachable
  BY ChanFacts
<1>2. PICK s \in Obj : k.wait[s] # <<>> /\ k' = ResumeWithError(k, s)
  BY <1>1 DEF ResetResume, DetachResume, DetachHasArg, At
<1>3. /\ Running(t) /\ pc[t] \in {"reset", "resume"} /\ isr' = isr
      /\ pc' = pc \/ (pc' = [pc EXCEPT ![t] = "detach"] /\ pc[t] = "resume")
      /\ arg' = arg /\ valid' = valid /\ call' = call /\ due' = due
  BY DEF ResetResume, DetachResume, At, Goto, ipcVars, chanVars
<1>4. Wakes(k', k) /\ \A u \in Thread : NotGranted(k', k, u)
  BY <1>1, <1>2, WakesWithError
<1>5. PICK l \in {"reset", "resume", "detach"} :
         pc' = [pc EXCEPT ![t] = l] /\ (l = "reset" <=> pc[t] = "reset")
  <2>1. pc = [pc EXCEPT ![t] = pc[t]]
    BY <1>1
  <2> QED BY <1>3, <2>1
<1>6. IpcInv(P)'
  <2>1. l \in P \ Taking /\ pc[t] \notin BlockPc /\ arg' = [arg EXCEPT ![t] = arg[t]]
    BY <1>1, <1>3, <1>5 DEF IpcPc, Taking, BlockPc
  <2> QED BY <1>1, <1>3, <1>4, <1>5, <2>1, MoveIpc
<1>7. /\ pc'[t] = l /\ \A u \in Thread \ {t} : pc'[u] = pc[u]
      /\ l # "reset" => arg[t] \in Obj
  BY <1>1, <1>3, <1>5 DEF DetachHasArg
<1>8. ChanTypes'
  BY <1>1, <1>3 DEF ChanTypes
<1>9. ChanInv(P)'
  BY <1>3, <1>4, <1>5, <1>6, <1>7, <1>8, ChanStep DEF Taking, Wakes, TimersKept
<1>10. \A u \in Thread : StaysInFlight(u)
  BY <1>3, <1>4, <1>5, <1>7 DEF StaysInFlight, Taking
<1> QED BY <1>1, <1>4, <1>9, <1>10, FlightKept DEF NoGrant, Wakes

\* the steps of a channel that do not touch its messages grant nothing
LEMMA ChannelQuiet ==
    ASSUME NEW P, ChanInv(P), IpcPc \subseteq P, NEW t \in Thread,
           ChannelFinish(t) \/ ChannelCall(t)
    PROVE  ChanInv(P)' /\ NoGrant
  BY ServiceChan, QuietStepsChan, ResumeErrorChan DEF ChannelFinish, ChannelCall

-----------------------------------------------------------------------------
(* Waiting for a message or for room. *)

\* the section that suspends the caller
LEMMA SuspendChan ==
    ASSUME NEW P, ChanInv(P), IpcPc \subseteq P, NEW t \in Thread, Running(t), t # Idle,
           pc[t] \in {"run", "took"}, k.lock = 0,
           NEW s \in Obj, pc[t] = "took" => arg[t] = s,
           NEW m \in Message \cup {None}, s = sendq => m \in Message,
           NEW d \in (0 .. HalfTick - 1) \cup {None}, d # 0,
           Suspend(t, s, m, d), isr' = isr, valid' = valid,
           due' \in [Thread -> Ticks \cup {None}],
           due'[t] = IF d = None THEN None ELSE (k.tick + d) % TickMod,
           \A u \in Thread \ {t} : due'[u] = due[u]
    PROVE  ChanInv(P)' /\ OnlyWaitsOn(s)
<1> DEFINE c == [msg |-> m, timeout |-> d, tick_delta |-> IF d = None THEN 0 ELSE k.tick]
<1>1. /\ IpcInv(P) /\ pc \in [Thread -> P] /\ arg \in [Thread -> Obj \cup {None}]
      /\ call \in [Thread -> Locals] /\ k.tick \in Ticks
  BY ChanFacts
<1>2. /\ k' = ipc_list_suspend(k, s, t, Flag, d)
      /\ call' = [call EXCEPT ![t] = c] /\ arg' = [arg EXCEPT ![t] = s]
      /\ pc' = [pc EXCEPT ![t] = "take"]
  BY DEF Suspend, SetArg, Goto
<1>3. d \in Nat \cup {None} /\ c \in Locals
  BY <1>1, TickAssumption DEF HalfTick, Locals, Ticks
<1>4. /\ IpcInv(P)'
      /\ \A u \in Thread, o \in Obj :
            InWait(k', u, o) <=> (InWait(k, u, o) \/ (u = t /\ o = s))
      /\ \A o \in Obj : InFlight(o)' = InFlight(o) \ {t}
      /\ TimedFor(k', k, t, d) /\ \A u \in Thread \ {t} : StillWaits(k', k, u)
  BY <1>1, <1>2, <1>3, BlockIpc DEF IpcPc, Taking
<1>5. /\ pc'[t] = "take" /\ arg'[t] = s /\ call'[t].msg = m /\ call'[t] = c
      /\ \A u \in Thread \ {t} : pc'[u] = pc[u] /\ arg'[u] = arg[u] /\ call'[u] = call[u]
  BY <1>1, <1>2
<1>6. ChanTypes'
  BY <1>1, <1>2, <1>3 DEF ChanTypes
<1>7. k'.tick = k.tick /\ TimerFor(k', t, due'[t])
  <2>1. d # None => (k.tick + d) % TickMod \in Ticks
    BY <1>1, <1>3, TickAssumption DEF Ticks
  <2>2. d = None <=> due'[t] = None
    BY <2>1, ChannelAssumption
  <2>3. due'[t] # None => due'[t] = (k.tick + d) % TickMod
    OBVIOUS
  <2> HIDE DEF c
  <2> QED BY <1>4, <2>2, <2>3 DEF TimedFor, OtherTimers, TimerFor
<1>8. OnTime(k.tick, c, due'[t])
  BY <1>1, TickAssumption, BeginOnTime
<1>9. TimedAt(t)'
  BY <1>5, <1>7, <1>8 DEF TimedAt
<1>10. ChanInv(P)'
  BY <1>4, <1>5, <1>6, <1>7, <1>9, ChanStep
<1>11. \A o \in Obj \ {s} : t \notin InFlight(o)
  BY InFlightDef DEF Taking
<1> HIDE DEF c
<1>12. \A o \in Obj \ {s} : InFlight(o)' = InFlight(o)
  BY <1>4, <1>11
<1>13. \A o \in Obj \ {s}, u \in Thread : InWait(k', u, o) => InWait(k, u, o)
  BY <1>4
<1> QED BY <1>10, <1>12, <1>13 DEF OnlyWaitsOn


\* a send or receive that has to wait
LEMMA BeginWaitChan ==
    ASSUME NEW P, ChanInv(P), IpcPc \subseteq P, NEW t \in Thread, NEW op, Calls(t, op),
           NEW s \in Obj, NEW m \in Message \cup {None}, s = sendq => m \in Message,
           NEW d \in Timeouts, MayWait(d), BeginWait(t, s, m, d), isr' = isr, valid' = valid
    PROVE  ChanInv(P)' /\ OnlyWaitsOn(s)
<1>1. /\ Running(t) /\ pc[t] = "run" /\ App[t] # {} /\ k.lock = 0 /\ Suspend(t, s, m, d)
      /\ d # 0
      /\ due' = [due EXCEPT ![t] = IF d = None THEN None ELSE (k.tick + d) % TickMod]
  BY DEF Calls, At, MayWait, BeginWait
<1>2. t # Idle /\ d \in (0 .. HalfTick - 1) \cup {None}
  BY <1>1, AppAssumption, TimeoutAssumption
<1>3. due \in [Thread -> Ticks \cup {None}] /\ k.tick \in Ticks
  BY ChanFacts
<1> DEFINE x == IF d = None THEN None ELSE (k.tick + d) % TickMod
<1>4. x \in Ticks \cup {None}
  BY <1>2, <1>3, TickAssumption DEF Ticks, HalfTick
<1> HIDE DEF x
<1>5. due' = [due EXCEPT ![t] = x]
  BY <1>1 DEF x
<1>6. /\ due' \in [Thread -> Ticks \cup {None}] /\ due'[t] = x
      /\ \A u \in Thread \ {t} : due'[u] = due[u]
  BY <1>3, <1>4, <1>5
<1> QED BY <1>1, <1>2, <1>6, SuspendChan DEF x

\* a thread that gives up, though it was resumed, has thread->error set
LEMMA GiveUpChan ==
    ASSUME NEW P, ChanInv(P), IpcPc \subseteq P, NEW t \in Thread, At(t, "took"),
           NEW s \in Obj, arg[t] = s, NEW e \in Err, k' = [k EXCEPT !.err[t] = e],
           EndCall(t), Goto(t, "run"), isr' = isr, valid' = valid
    PROVE  ChanInv(P)' /\ OnlyWaitsOn(s)
<1>1. /\ IpcInv(P) /\ KInv(k) /\ pc \in [Thread -> P] /\ arg \in [Thread -> Obj \cup {None}]
      /\ valid \in [Obj -> BOOLEAN] /\ Reachable /\ k.err \in [Thread -> Err]
      /\ call \in [Thread -> Locals] /\ due \in [Thread -> Ticks \cup {None}]
      /\ k \in KernelState /\ \A u \in Thread : k.stat[u] # "CLOSE"
  BY ChanFacts, IpcFacts DEF KInv, WellFormed
<1>2. /\ Running(t) /\ pc[t] = "took" /\ pc' = [pc EXCEPT ![t] = "run"]
      /\ arg' = [arg EXCEPT ![t] = None] /\ call' = [call EXCEPT ![t] = NoCall]
      /\ due' = [due EXCEPT ![t] = None]
  BY DEF At, Goto, EndCall, SetArg
<1>3. /\ k' \in KernelState /\ Agree(k', k) /\ k'.lock = k.lock /\ k'.wait = k.wait
      /\ \A u \in Thread \ {t} : k'.err[u] = k.err[u]
  BY <1>1 DEF KernelState, Agree
<1>4. /\ KInv(k') /\ (\A u \in Thread : k'.stat[u] # "CLOSE")
      /\ k'.stat[k'.cur] = k.stat[k.cur] /\ SameCpu(k', k) /\ BlocksNone(k', k)
  BY <1>1, <1>3, AgreeStep
<1>5. \A u, o : InWait(k', u, o) <=> InWait(k, u, o)
  BY <1>3 DEF InWait
<1>6. \A o \in Obj : ~InWait(k, t, o)
  BY <1>1, <1>2, RunnerWaitsNot
<1>7. Wakes(k', k)
  <2>1. SameClock(k', k)
    BY <1>1 DEF KernelState, SameClock
  <2>2. TimersKept(k', k)
    BY <1>5, <2>1, SameClockProps DEF TimersKept, StillWaits, SameClock
  <2> QED BY <1>3, <1>4, <1>5, <1>6, <2>2, BlocksNoneIsNoNewWaiter DEF Wakes
<1>8. IpcInv(P)'
  <2>1. "run" \in P \ Taking /\ pc[t] \notin BlockPc
    BY <1>2 DEF IpcPc, CpuPc, Taking, BlockPc
  <2> QED BY <1>1, <1>2, <1>7, <2>1, MoveIpc
<1>9. NoCall \in Locals
  BY TickAssumption DEF NoCall, Locals, Ticks, HalfTick
<1>10. ChanTypes'
  BY <1>1, <1>2, <1>9 DEF ChanTypes
<1>11. /\ pc'[t] = "run"
       /\ \A u \in Thread \ {t} : pc'[u] = pc[u] /\ arg'[u] = arg[u] /\ call'[u] = call[u]
       /\ \A u \in Thread \ {t} : due'[u] = due[u]
  BY <1>1, <1>2
<1>12. ChanInv(P)'
  BY <1>7, <1>8, <1>10, <1>11, ChanStep DEF Taking, Wakes, TimersKept
<1>13. ASSUME NEW o \in Obj \ {s} PROVE InFlight(o)' = InFlight(o)
  <2>1. \A u \in Thread \ {t} : u \in InFlight(o)' <=> u \in InFlight(o)
    BY <1>3, <1>5, <1>11, InFlightDef
  <2>2. t \notin InFlight(o)' /\ t \notin InFlight(o)
    BY <1>11, InFlightDef DEF Taking
  <2> QED BY <2>1, <2>2, FlightCount
<1> QED BY <1>5, <1>12, <1>13 DEF OnlyWaitsOn

\* resumed to find that another thread was faster: it waits again or gives up
LEMMA WaitAgainChan ==
    ASSUME NEW P, ChanInv(P), IpcPc \subseteq P, NEW t \in Thread, NEW s \in Obj,
           Resumed(t, s), WaitAgain(t), isr' = isr, valid' = valid
    PROVE  ChanInv(P)' /\ OnlyWaitsOn(s)
<1>1. At(t, "took") /\ Running(t) /\ pc[t] = "took" /\ arg[t] = s
  BY DEF Resumed, At
<1>2. CASE Remaining(t) = 0
  <2> DEFINE e == IF arg[t] = recvq THEN "ETIMEOUT" ELSE "EOK"
  <2>1. k' = [k EXCEPT !.err[t] = e] /\ EndCall(t) /\ Goto(t, "run") /\ e \in Err
    BY <1>2 DEF WaitAgain, Err
  <2> HIDE DEF e
  <2> QED BY <1>1, <2>1, GiveUpChan
<1>3. CASE Remaining(t) # 0
  <2>1. Suspend(t, s, call[t].msg, Remaining(t)) /\ due' = due
    BY <1>1, <1>3 DEF WaitAgain
  <2>2. /\ IpcInv(P) /\ HasMessage /\ IdleOut /\ call \in [Thread -> Locals] /\ ChanTypes
        /\ due \in [Thread -> Ticks \cup {None}] /\ k.tick \in Ticks /\ Timed
    BY ChanFacts
  <2>3. /\ call[t].msg \in Message \cup {None} /\ (s = sendq => call[t].msg \in Message)
        /\ t # Idle
    BY <1>1, <2>2 DEF Locals, HasMessage, IdleOut, Taking
  <2>4. Remaining(t) \in (0 .. HalfTick - 1) \cup {None}
    BY <2>2, RemainingProps
  <2>5. k.lock = 0
    BY <1>1, <2>2, CallerProps, IpcFacts DEF LockedOut, Taking
  <2>6. due'[t] = IF Remaining(t) = None THEN None ELSE (k.tick + Remaining(t)) % TickMod
    <3>1. OnTime(k.tick, call[t], due[t])
      BY <1>1, <2>2 DEF Timed, TimedAt, Taking
    <3> QED BY <1>3, <2>1, <2>2, <3>1, RemainingOnTime
  <2> HIDE DEF Remaining
  <2> QED BY <1>1, <1>3, <2>1, <2>2, <2>3, <2>4, <2>5, <2>6, SuspendChan
<1> QED BY <1>2, <1>3

-----------------------------------------------------------------------------
(* Letting a waiter in. *)

\* a section that resumes one waiter of s, run by a thread that is outside of a wait
\* afterwards and was not in one on s, or by a handler (then t is any idle bystander)
LEMMA GrantChan ==
    ASSUME NEW P, ChanInv(P), NEW s \in Obj, ResumeOne(s), NEW t \in Thread,
           \A o \in Obj : ~InWait(k, t, o),
           \A u \in Thread \ {t} : pc'[u] = pc[u] /\ arg'[u] = arg[u],
           pc[t] \in Taking => arg[t] # s, pc'[t] \notin Taking
    PROVE  Wakes(k', k) /\ Grants(s)
<1>1. IpcInv(P) /\ KInv(k) /\ Reachable
  BY ChanFacts
<1>2. ASSUME NEW h \in Thread, h = t \/ arg[h] = s,
             \A u \in Thread \ {h} : SameGrant(k', k, u), NEW o \in Obj \ {s}
      PROVE  Cardinality(InFlight(o)') >= Cardinality(InFlight(o)) - 1
  <2>1. \A u \in Thread \ {h, t} : StaysInFlight(u)
    BY <1>2 DEF StaysInFlight, NotGranted
  <2>2. \A u \in Thread \ {h, t} : u \in InFlight(o)' <=> u \in InFlight(o)
    BY <1>1, <2>1, FlightOfThread
  <2>3. h # t => h \notin InFlight(o)' /\ h \notin InFlight(o)
    BY <1>2, InFlightDef
  <2>4. \A u \in Thread \ {t} : u \in InFlight(o)' <=> u \in InFlight(o)
    BY <2>2, <2>3
  <2>5. t \notin InFlight(o)'
    BY InFlightDef
  <2>6. \/ Cardinality(InFlight(o)') = Cardinality(InFlight(o)) - 1
        \/ InFlight(o)' = InFlight(o)
    BY <2>4, <2>5, FlightCount
  <2> QED BY <2>6, FlightFinite
<1>3. CASE k.wait[s] # <<>>
  <2>1. k' = ipc_list_resume(k, s)
    BY <1>3 DEF ResumeOne
  <2>2. Wakes(k', k)
    BY <1>1, <1>3, <2>1, WakesFirst
  <2>3. PICK h \in Thread :
           /\ pc[h] \in Taking /\ arg[h] = s /\ k.err[h] = "EOK" /\ k'.err[h] = "EOK"
           /\ InWait(k, h, s) /\ \A o \in Obj : ~InWait(k', h, o)
           /\ \A u \in Thread \ {h} : SameGrant(k', k, u)
    BY <1>1, <1>3, <2>1, WakesFirst
  <2>4. h # t
    BY <2>3
  <2>5. \A u \in Thread \ {h} : u \in InFlight(s)' <=> u \in InFlight(s)
    <3>1. \A u \in Thread \ {h, t} : StaysInFlight(u)
      BY <2>3 DEF StaysInFlight, NotGranted
    <3>2. t \notin InFlight(s)' /\ t \notin InFlight(s)
      BY InFlightDef
    <3> QED BY <1>1, <3>1, <3>2, FlightOfThread
  <2>6. h \notin InFlight(s) /\ h \in InFlight(s)'
    BY <2>3, <2>4, InFlightDef
  <2>7. Cardinality(InFlight(s)') = Cardinality(InFlight(s)) + 1
    BY <2>5, <2>6, FlightCount
  <2> QED BY <1>2, <2>2, <2>3, <2>7 DEF Grants, Wakes
<1>4. CASE k.wait[s] = <<>>
  <2>1. k' = k
    BY <1>4 DEF ResumeOne
  <2>2. Wakes(k', k) /\ \A u \in Thread : SameGrant(k', k, u)
    BY <1>1, <2>1, WakesNone, SameGrantProps
  <2>3. \A u \in Thread : ~InWait(k, u, s)
    BY <1>1, <1>4, WaitProps
  <2> QED BY <1>2, <2>1, <2>2, <2>3 DEF Grants, Wakes
<1> QED BY <1>3, <1>4


\* such a section of a thread, at the end of its send or receive
LEMMA GrantStepChan ==
    ASSUME NEW P, ChanInv(P), NEW t \in Thread, Running(t), pc[t] \notin BlockPc,
           NEW s \in Obj, ResumeOne(s), pc[t] \in Taking => arg[t] # s,
           NEW l \in P, l \notin Taking, l \notin {"detach", "resume", "object"},
           pc' = [pc EXCEPT ![t] = l], isr' = isr, valid' = valid,
           (arg' = arg /\ call' = call /\ due' = due) \/ EndCall(t)
    PROVE  ChanInv(P)' /\ Grants(s)
<1>1. /\ IpcInv(P) /\ pc \in [Thread -> P] /\ arg \in [Thread -> Obj \cup {None}]
      /\ valid \in [Obj -> BOOLEAN]
      /\ call \in [Thread -> Locals] /\ due \in [Thread -> Ticks \cup {None}]
  BY ChanFacts
<1>2. PICK x \in Obj \cup {None} : arg' = [arg EXCEPT ![t] = x]
  <2>1. arg = [arg EXCEPT ![t] = arg[t]] /\ arg[t] \in Obj \cup {None}
    BY <1>1
  <2> QED BY <2>1 DEF EndCall, SetArg
<1>3. NoCall \in Locals
  BY TickAssumption DEF NoCall, Locals, Ticks, HalfTick
<1>4. ChanTypes'
  BY <1>1, <1>3 DEF ChanTypes, EndCall
<1>5. /\ pc'[t] = l
      /\ \A u \in Thread \ {t} : pc'[u] = pc[u] /\ arg'[u] = arg[u] /\ call'[u] = call[u]
      /\ \A u \in Thread \ {t} : due'[u] = due[u]
  BY <1>1, <1>2 DEF EndCall
<1>6. \A o \in Obj : ~InWait(k, t, o)
  BY <1>1, RunnerWaitsNot DEF BlockPc
<1>7. Wakes(k', k) /\ Grants(s)
  BY <1>5, <1>6, GrantChan
<1>8. IpcInv(P)'
  BY <1>1, <1>2, <1>7, MoveIpc
<1> QED BY <1>4, <1>5, <1>7, <1>8, ChanStep DEF Wakes, TimersKept

\* and of a handler
LEMMA GrantDevChan ==
    ASSUME NEW P, ChanInv(P), NEW s \in Obj, ResumeOne(s), isr' \in Seq(Frame), pc' = pc,
           UNCHANGED <<ipcVars, chanVars>>
    PROVE  ChanInv(P)' /\ Grants(s)
<1>1. arg' = arg /\ valid' = valid /\ call' = call /\ due' = due
  BY DEF ipcVars, chanVars
<1>2. /\ IpcInv(P) /\ DetachHasArg /\ IdleOut /\ ChanTypes /\ WaitsInTake /\ Idle \in Thread
  BY ChanFacts, IpcFacts, ThreadAssumption
<1>3. \A o \in Obj : ~InWait(k, Idle, o)
  BY <1>2 DEF WaitsInTake, IdleOut
<1>4. Wakes(k', k) /\ Grants(s)
  BY <1>1, <1>2, <1>3, GrantChan DEF IdleOut
<1>5. IpcInv(P)'
  BY <1>1, <1>2, <1>4, DevIpc
<1>6. ChanTypes'
  BY <1>1, <1>2 DEF ChanTypes
<1> QED BY <1>1, <1>2, <1>4, <1>5, <1>6, ChanStep
        DEF DetachHasArg, IdleOut, Wakes, TimersKept

\* the invariant holds at the start
LEMMA ChanInitInv ==
    ASSUME ChannelInit, NEW P, IpcPc \subseteq P
    PROVE  ChanInv(P) /\ \A o \in Obj, u \in Thread : ~InWait(k, u, o)
<1>1. /\ IpcInit /\ pc = [t \in Thread |-> "run"] /\ call = [t \in Thread |-> NoCall]
      /\ due = [t \in Thread |-> None] /\ Idle \in Thread
  BY ThreadAssumption DEF ChannelInit, IpcInit, CpuInit
<1>2. IpcInv(P) /\ \A o \in Obj : k.wait[o] = <<>> /\ InFlight(o) = {}
  BY <1>1, IpcInitInv DEF IpcPc, CpuPc
<1>3. NoCall \in Locals
  BY TickAssumption DEF NoCall, Locals, Ticks, HalfTick
<1>4. ChanTypes /\ DetachHasArg /\ HasMessage /\ IdleOut /\ Timed
  BY <1>1, <1>3 DEF ChanTypes, DetachHasArg, HasMessage, IdleOut, Timed, Taking
<1> QED BY <1>2, <1>4 DEF ChanInv, InWait, Range


\* the rt_schedule at the end of a service
LEMMA ScheduleChan ==
    ASSUME NEW P, ChanInv(P), NEW t \in Thread, NEW l \in P, NEW m \in P,
           l \notin Taking, m \notin Taking \cup {"detach", "resume", "object"},
           ThreadSchedule(t, l, m), UNCHANGED <<ipcVars, chanVars>>
    PROVE  ChanInv(P)' /\ NoGrant
<1>1. /\ arg' = arg /\ valid' = valid /\ call' = call /\ due' = due
      /\ pc[t] = l /\ Running(t) /\ pc' = [pc EXCEPT ![t] = m] /\ k' = rt_schedule(k)
  BY DEF ipcVars, chanVars, ThreadSchedule, At, Goto
<1>2. /\ IpcInv(P) /\ CpuInv /\ KInv(k) /\ k.lock \in Nat /\ LockedOut /\ IpcTypes(P)
      /\ pc \in [Thread -> P] /\ ChanTypes /\ Reachable /\ k.cur \in Thread
  BY ChanFacts, IpcFacts DEF IpcInv
<1>3. CpuInv' /\ BlocksNone(k', k) /\ k'.lock = k.lock /\ StaysLocked(k', k)
  BY <1>2, ThreadScheduleInv
<1>4. pc'[t] = m /\ \A u \in Thread \ {t} : pc'[u] = pc[u]
  BY <1>1, <1>2
<1>5. IpcTypes(P)' /\ ChanTypes'
  BY <1>1, <1>2 DEF IpcTypes, ChanTypes
<1>6. LockedOut'
  BY <1>2, <1>3, <1>4 DEF LockedOut, StaysLocked, SameCpu
<1>7. k'.tick = k.tick /\ \A u : SameGrant(k', k, u)
  BY <1>1, <1>2, ScheduleErr, SameGrantProps DEF SameClock
<1>8. \A u \in Thread : pc[u] \in Taking <=> pc'[u] \in Taking
  BY <1>1, <1>4
<1>9. \A u \in Thread : KeptInPlace(u) /\ StaysInFlight(u)
  BY <1>1, <1>3, <1>7, <1>8
     DEF KeptInPlace, StaysInFlight, BlocksNone, NotGranted, SameGrant
<1>10. IpcInv(P)' /\ NoGrant
  BY <1>2, <1>3, <1>5, <1>6, <1>9, IpcStep, FlightKept, BlocksNoneIsNoNewWaiter DEF NoGrant
<1>11. \A u \in Thread : StillWaits(k', k, u)
  BY <1>7, NotGrantedStill DEF NotGranted
<1> QED BY <1>1, <1>4, <1>5, <1>7, <1>10, <1>11, ChanStep

\* the timer of a thread that waits is set to the tick at which its call times out
LEMMA ChanDeadline ==
    ASSUME NEW P, ChanInv(P)
    PROVE  DeadlineKept
<1>1. WaitsInTake /\ Timed
  BY ChanFacts, IpcFacts
<1>2. ASSUME NEW t \in Thread, NEW o \in Obj, InWait(k, t, o)
      PROVE  TimerFor(k, t, due[t])
  BY <1>1, <1>2 DEF WaitsInTake, Timed, TimedAt
<1> QED BY <1>2 DEF DeadlineKept, InWait, TimerFor, InTimers

-----------------------------------------------------------------------------
(* The mailbox. *)

\* the ring is consistent: in_offset is entry slots behind out_offset
Ring(b) == b \in MbState /\ b.in_offset = (b.out_offset + b.entry) % Size

\* the mails in ring b, oldest first
MailsOf(b) == [i \in 1 .. b.entry |-> b.msg_pool[(b.out_offset + i - 1) % Size]]

\* where an offset that is at most one round too large comes to lie
Slot(a) == IF a < Size THEN a ELSE a - Size

\* that is what the remainder computes
LEMMA SlotProps ==
    ASSUME NEW a \in 0 .. 2 * Size - 1
    PROVE  a % Size = Slot(a) /\ Slot(a) \in Offsets
<1>1. Size \in Nat \ {0} /\ a \in Int /\ -Size <= a /\ a < 2 * Size
  BY ChannelAssumption
<1>2. a % Size = IF a < 0 THEN a + Size ELSE IF a < Size THEN a ELSE a - Size
  BY <1>1, RoundOnce
<1> QED BY <1>1, <1>2 DEF Offsets, Slot

\* two offsets less than one round apart come to lie in different slots
LEMMA SlotsDiffer ==
    ASSUME Size \in Nat \ {0}, NEW o \in 0 .. Size - 1, NEW n \in 0 .. Size - 1,
           NEW i \in 1 .. n
    PROVE  Slot(o + i - 1) \in 0 .. Size - 1 /\ Slot(o + i - 1) # Slot(o + n)
  BY DEF Slot

\* the slot in front of o and the one behind it
PrevSlot(o) == IF o = 0 THEN Size - 1 ELSE o - 1
NextSlot(o) == IF o = Size - 1 THEN 0 ELSE o + 1

\* the code computes the former with a remainder too
LEMMA PrevProps ==
    ASSUME NEW o \in 0 .. Size - 1
    PROVE  (o - 1) % Size = PrevSlot(o) /\ PrevSlot(o) \in Offsets
<1> DEFINE a == o - 1
<1>1. Size \in Nat \ {0} /\ a \in Int /\ -Size <= a /\ a < 2 * Size
  BY ChannelAssumption
<1>2. a % Size = IF a < 0 THEN a + Size ELSE IF a < Size THEN a ELSE a - Size
  BY <1>1, RoundOnce
<1>3. (IF a < 0 THEN a + Size ELSE IF a < Size THEN a ELSE a - Size) = PrevSlot(o)
  BY <1>1 DEF PrevSlot
<1>4. PrevSlot(o) \in Offsets
  BY <1>1 DEF PrevSlot, Offsets
<1> QED BY <1>2, <1>3, <1>4

\* the n slots from o on, seen from the slot p in front of o
SeenBack(p, o, n) ==
    /\ p \in 0 .. Size - 1 /\ Slot(p + 1 - 1) = p
    /\ p + (n + 1) \in 0 .. 2 * Size - 1 /\ Slot(p + (n + 1)) = Slot(o + n)
    /\ \A i \in 2 .. n + 1 :
          /\ Slot(p + i - 1) \in 0 .. Size - 1 /\ Slot(p + i - 1) # p
          /\ Slot(p + i - 1) = Slot(o + (i - 1) - 1)

\* and from the slot p behind o
SeenOn(p, o, n) ==
    /\ p \in 0 .. Size - 1 /\ Slot(o + 1 - 1) = o
    /\ p + (n - 1) \in 0 .. 2 * Size - 1 /\ Slot(p + (n - 1)) = Slot(o + n)
    /\ \A i \in 1 .. n - 1 :
          /\ Slot(p + i - 1) \in 0 .. Size - 1 /\ Slot(p + i - 1) # o
          /\ Slot(p + i - 1) = Slot(o + (i + 1) - 1)

\* the neighbours of a slot see the ring so
LEMMA SlotBack ==
    ASSUME NEW o \in 0 .. Size - 1, NEW n \in 0 .. Size - 1
    PROVE  SeenBack(PrevSlot(o), o, n)
<1>1. Size \in Nat \ {0}
  BY ChannelAssumption
<1>2. CASE o = 0
  BY <1>1, <1>2 DEF Slot, SeenBack, PrevSlot
<1>3. CASE o # 0
  BY <1>1, <1>3 DEF Slot, SeenBack, PrevSlot
<1> QED BY <1>2, <1>3

LEMMA SlotOn ==
    ASSUME NEW o \in 0 .. Size - 1, NEW n \in 1 .. Size
    PROVE  SeenOn(NextSlot(o), o, n)
<1>1. Size \in Nat \ {0}
  BY ChannelAssumption
<1>2. CASE o = Size - 1
  BY <1>1, <1>2 DEF Slot, SeenOn, NextSlot
<1>3. CASE o # Size - 1
  BY <1>1, <1>3 DEF Slot, SeenOn, NextSlot
<1> QED BY <1>2, <1>3

\* the fields of a ring
LEMMA RingFacts ==
    ASSUME NEW b, Ring(b)
    PROVE  /\ b.entry \in 0 .. Size /\ b.out_offset \in 0 .. Size - 1
           /\ b.in_offset \in 0 .. Size - 1
           /\ b.msg_pool \in [0 .. Size - 1 -> Message \cup {None}] /\ Size \in Nat \ {0}
           /\ b.in_offset = Slot(b.out_offset + b.entry)
<1>1. /\ b.entry \in 0 .. Size /\ b.out_offset \in 0 .. Size - 1
      /\ b.in_offset \in 0 .. Size - 1
      /\ b.msg_pool \in [0 .. Size - 1 -> Message \cup {None}] /\ Size \in Nat \ {0}
      /\ b.in_offset = (b.out_offset + b.entry) % Size
  BY ChannelAssumption DEF Ring, MbState, Offsets
<1>2. b.out_offset + b.entry \in 0 .. 2 * Size - 1
  BY <1>1
<1> QED BY <1>1, <1>2, SlotProps

\* s are the mails in ring b
InRing(s, b) ==
    /\ s \in Seq(Message \cup {None}) /\ Len(s) = b.entry
    /\ \A i \in 1 .. b.entry : s[i] = b.msg_pool[Slot(b.out_offset + i - 1)]

\* a sequence of entry mails
LEMMA MailsFacts ==
    ASSUME NEW b, Ring(b)
    PROVE  InRing(MailsOf(b), b)
<1>1. /\ b.entry \in 0 .. Size /\ b.out_offset \in 0 .. Size - 1
      /\ b.msg_pool \in [0 .. Size - 1 -> Message \cup {None}] /\ Size \in Nat \ {0}
  BY RingFacts
<1>2. ASSUME NEW i \in 1 .. b.entry
      PROVE  /\ (b.out_offset + i - 1) % Size = Slot(b.out_offset + i - 1)
             /\ Slot(b.out_offset + i - 1) \in 0 .. Size - 1
  <2>1. b.out_offset + i - 1 \in 0 .. 2 * Size - 1
    BY <1>1
  <2> QED BY <2>1, SlotProps DEF Offsets
<1>3. \A i \in 1 .. b.entry : b.msg_pool[(b.out_offset + i - 1) % Size] \in Message \cup {None}
  BY <1>1, <1>2
<1>4. MailsOf(b) \in [1 .. b.entry -> Message \cup {None}]
  BY <1>3 DEF MailsOf
<1>5. MailsOf(b) \in Seq(Message \cup {None}) /\ Len(MailsOf(b)) = b.entry
  BY <1>1, <1>4, SeqDef, LenProperties
<1> QED BY <1>2, <1>5 DEF MailsOf, InRing

\* a sequence is known by its length and its elements
LEMMA AppendIs ==
    ASSUME NEW S, NEW s \in Seq(S), NEW q \in Seq(S), NEW e \in S, Len(q) = Len(s) + 1,
           \A i \in 1 .. Len(s) + 1 : q[i] = IF i = Len(s) + 1 THEN e ELSE s[i]
    PROVE  q = Append(s, e)
<1>1. /\ Append(s, e) \in Seq(S) /\ Len(Append(s, e)) = Len(s) + 1
      /\ \A i \in 1 .. Len(s) : Append(s, e)[i] = s[i]
      /\ Append(s, e)[Len(s) + 1] = e
  BY AppendProperties
<1>2. \A i \in 1 .. Len(q) : q[i] = Append(s, e)[i]
  BY <1>1
<1> QED BY <1>1, <1>2, SeqEqual

LEMMA PrependIs ==
    ASSUME NEW S, NEW s \in Seq(S), NEW q \in Seq(S), NEW e \in S, Len(q) = Len(s) + 1,
           \A i \in 1 .. Len(s) + 1 : q[i] = IF i = 1 THEN e ELSE s[i - 1]
    PROVE  q = <<e>> \o s
<1>1. <<e>> \in Seq(S) /\ Len(<<e>>) = 1 /\ <<e>>[1] = e /\ Len(s) \in Nat
  OBVIOUS
<1> DEFINE r == <<e>> \o s
<1>2. /\ r \in Seq(S) /\ Len(r) = 1 + Len(s)
      /\ \A i \in 1 .. 1 + Len(s) : r[i] = IF i <= 1 THEN e ELSE s[i - 1]
  BY <1>1
<1> HIDE DEF r
<1>4. Len(r) = Len(q) /\ \A i \in 1 .. Len(q) : q[i] = r[i]
  BY <1>1, <1>2
<1>5. q = r
  BY <1>2, <1>4, SeqEqual
<1> QED BY <1>5 DEF r

LEMMA TailIs ==
    ASSUME NEW S, NEW s \in Seq(S), NEW q \in Seq(S), Len(s) = Len(q) + 1,
           \A i \in 1 .. Len(q) : q[i] = s[i + 1]
    PROVE  q = Tail(s) /\ Head(s) = s[1] /\ s # <<>>
<1>1. s # <<>> /\ Len(q) \in Nat
  OBVIOUS
<1>2. /\ Tail(s) \in Seq(S) /\ Len(Tail(s)) = Len(s) - 1
      /\ \A i \in 1 .. Len(Tail(s)) : Tail(s)[i] = s[i + 1]
  BY <1>1, HeadTailProperties
<1>3. Len(Tail(s)) = Len(q) /\ \A i \in 1 .. Len(q) : q[i] = Tail(s)[i]
  BY <1>1, <1>2
<1> QED BY <1>1, <1>2, <1>3, SeqEqual

\* what Store does to the fields
LEMMA StoreFields ==
    ASSUME NEW b, Ring(b), b.entry < Size, NEW m \in Message, NEW c, c = Store(b, m)
    PROVE  /\ Ring(c) /\ c.entry = b.entry + 1 /\ c.out_offset = b.out_offset
           /\ c.msg_pool = [b.msg_pool EXCEPT ![b.in_offset] = m]
<1>1. /\ b.entry \in 0 .. Size /\ b.out_offset \in 0 .. Size - 1
      /\ b.in_offset \in 0 .. Size - 1
      /\ b.msg_pool \in [0 .. Size - 1 -> Message \cup {None}] /\ Size \in Nat \ {0}
      /\ b.in_offset = Slot(b.out_offset + b.entry) /\ b \in MbState
  BY RingFacts DEF Ring
<1> DEFINE p == [b.msg_pool EXCEPT ![b.in_offset] = m]
           i == (b.in_offset + 1) % Size
<1>2. c = [b EXCEPT !.msg_pool = p, !.in_offset = i, !.entry = b.entry + 1]
  BY <1>1 DEF Store, MbState
<1>3. p \in [Offsets -> Message \cup {None}] /\ b.entry + 1 \in 0 .. Size
  BY <1>1 DEF Offsets
<1>4. i = Slot(b.in_offset + 1) /\ i \in Offsets
  <2>1. b.in_offset + 1 \in 0 .. 2 * Size - 1
    BY <1>1
  <2> QED BY <2>1, SlotProps
<1> HIDE DEF p, i
<1>5. /\ c \in MbState /\ c.entry = b.entry + 1 /\ c.out_offset = b.out_offset
      /\ c.msg_pool = p /\ c.in_offset = i
  BY <1>1, <1>2, <1>3, <1>4 DEF MbState
<1>6. i = Slot(b.out_offset + (b.entry + 1))
  BY <1>1, <1>4 DEF Slot
<1>7. b.out_offset + (b.entry + 1) \in 0 .. 2 * Size - 1
  BY <1>1
<1>8. Ring(c)
  BY <1>5, <1>6, <1>7, SlotProps DEF Ring
<1> QED BY <1>5, <1>8 DEF p

\* rt_mb_send_wait: the mail is the youngest one
LEMMA StoreMails ==
    ASSUME NEW b, Ring(b), b.entry < Size, NEW m \in Message, NEW c, c = Store(b, m)
    PROVE  Ring(c) /\ c.entry = b.entry + 1 /\ MailsOf(c) = Append(MailsOf(b), m)
<1>1. /\ b.entry \in 0 .. Size /\ b.out_offset \in 0 .. Size - 1
      /\ b.in_offset \in 0 .. Size - 1
      /\ b.msg_pool \in [0 .. Size - 1 -> Message \cup {None}] /\ Size \in Nat \ {0}
      /\ b.in_offset = Slot(b.out_offset + b.entry)
  BY RingFacts
<1>2. /\ Ring(c) /\ c.entry = b.entry + 1 /\ c.out_offset = b.out_offset
      /\ c.msg_pool = [b.msg_pool EXCEPT ![b.in_offset] = m]
  BY StoreFields
<1>3. InRing(MailsOf(b), b) /\ InRing(MailsOf(c), c)
  BY <1>2, MailsFacts
<1>4. /\ MailsOf(b) \in Seq(Message \cup {None}) /\ Len(MailsOf(b)) = b.entry
      /\ MailsOf(c) \in Seq(Message \cup {None}) /\ Len(MailsOf(c)) = b.entry + 1
      /\ \A i \in 1 .. b.entry : MailsOf(b)[i] = b.msg_pool[Slot(b.out_offset + i - 1)]
      /\ \A i \in 1 .. b.entry + 1 : MailsOf(c)[i] = c.msg_pool[Slot(b.out_offset + i - 1)]
  BY <1>2, <1>3 DEF InRing
<1>5. ASSUME NEW i \in 1 .. b.entry + 1
      PROVE  MailsOf(c)[i] = IF i = b.entry + 1 THEN m ELSE MailsOf(b)[i]
  <2>1. CASE i = b.entry + 1
    <3>1. b.out_offset + i - 1 = b.out_offset + b.entry
      BY <1>1, <2>1
    <3>2. MailsOf(c)[i] = c.msg_pool[b.in_offset]
      BY <1>1, <1>4, <3>1
    <3> QED BY <1>1, <1>2, <2>1, <3>2
  <2>2. CASE i # b.entry + 1
    <3>1. i \in 1 .. b.entry
      BY <1>1, <2>2
    <3>2. /\ Slot(b.out_offset + i - 1) \in 0 .. Size - 1
          /\ Slot(b.out_offset + i - 1) # b.in_offset
      BY <1>1, <3>1, SlotsDiffer
    <3>3. MailsOf(c)[i] = b.msg_pool[Slot(b.out_offset + i - 1)]
      BY <1>1, <1>2, <1>4, <3>2
    <3> QED BY <1>4, <2>2, <3>1, <3>3
  <2> QED BY <2>1, <2>2
<1>6. MailsOf(c) = Append(MailsOf(b), m)
  <2> DEFINE s == MailsOf(b)
             q == MailsOf(c)
             S == Message \cup {None}
  <2>1. /\ s \in Seq(S) /\ q \in Seq(S) /\ m \in S /\ Len(q) = Len(s) + 1
        /\ \A i \in 1 .. Len(s) + 1 : q[i] = IF i = Len(s) + 1 THEN m ELSE s[i]
    BY <1>4, <1>5
  <2> HIDE DEF s, q, S
  <2>2. q = Append(s, m)
    BY <2>1, AppendIs
  <2> QED BY <2>2 DEF s, q
<1> QED BY <1>2, <1>6

\* rt_mb_urgent: the mail is the oldest one
LEMMA StoreFirstFields ==
    ASSUME NEW b, Ring(b), b.entry < Size, NEW m \in Message, NEW c, c = StoreFirst(b, m)
    PROVE  /\ Ring(c) /\ c.entry = b.entry + 1
           /\ c.out_offset = PrevSlot(b.out_offset)
           /\ c.msg_pool = [b.msg_pool EXCEPT ![c.out_offset] = m]
<1>1. /\ b.entry \in 0 .. Size /\ b.out_offset \in 0 .. Size - 1
      /\ b.in_offset \in 0 .. Size - 1
      /\ b.msg_pool \in [0 .. Size - 1 -> Message \cup {None}] /\ Size \in Nat \ {0}
      /\ b.in_offset = Slot(b.out_offset + b.entry) /\ b \in MbState
  BY RingFacts DEF Ring
<1> DEFINE o == (b.out_offset - 1) % Size
           p == [b.msg_pool EXCEPT ![o] = m]
<1>2. o = PrevSlot(b.out_offset) /\ o \in Offsets
  BY <1>1, PrevProps
<1>3. c = [b EXCEPT !.msg_pool = p, !.out_offset = o, !.entry = b.entry + 1]
  BY <1>1 DEF StoreFirst, MbState
<1> HIDE DEF o
<1>4. p \in [Offsets -> Message \cup {None}] /\ b.entry + 1 \in 0 .. Size
  BY <1>1, <1>2 DEF Offsets
<1> HIDE DEF p
<1>5. /\ c \in MbState /\ c.entry = b.entry + 1 /\ c.out_offset = o
      /\ c.msg_pool = p /\ c.in_offset = b.in_offset
  BY <1>1, <1>2, <1>3, <1>4 DEF MbState
<1>6. b.in_offset = Slot(o + (b.entry + 1)) /\ o + (b.entry + 1) \in 0 .. 2 * Size - 1
  <2>1. b.entry \in 0 .. Size - 1
    BY <1>1
  <2>2. SeenBack(o, b.out_offset, b.entry)
    BY <1>1, <1>2, <2>1, SlotBack
  <2> QED BY <1>1, <2>2 DEF SeenBack
<1>7. Ring(c)
  BY <1>5, <1>6, SlotProps DEF Ring
<1> QED BY <1>2, <1>5, <1>7 DEF p

LEMMA StoreFirstMails ==
    ASSUME NEW b, Ring(b), b.entry < Size, NEW m \in Message, NEW c, c = StoreFirst(b, m)
    PROVE  Ring(c) /\ c.entry = b.entry + 1 /\ MailsOf(c) = <<m>> \o MailsOf(b)
<1>1. /\ b.entry \in 0 .. Size /\ b.out_offset \in 0 .. Size - 1
      /\ b.msg_pool \in [0 .. Size - 1 -> Message \cup {None}] /\ Size \in Nat \ {0}
  BY RingFacts
<1>2. /\ Ring(c) /\ c.entry = b.entry + 1
      /\ c.out_offset = PrevSlot(b.out_offset)
      /\ c.msg_pool = [b.msg_pool EXCEPT ![c.out_offset] = m]
  BY StoreFirstFields
<1>3. InRing(MailsOf(b), b) /\ InRing(MailsOf(c), c)
  BY <1>2, MailsFacts
<1>4. /\ MailsOf(b) \in Seq(Message \cup {None}) /\ Len(MailsOf(b)) = b.entry
      /\ MailsOf(c) \in Seq(Message \cup {None}) /\ Len(MailsOf(c)) = b.entry + 1
      /\ \A i \in 1 .. b.entry : MailsOf(b)[i] = b.msg_pool[Slot(b.out_offset + i - 1)]
      /\ \A i \in 1 .. b.entry + 1 : MailsOf(c)[i] = c.msg_pool[Slot(c.out_offset + i - 1)]
  BY <1>2, <1>3 DEF InRing
<1>7. SeenBack(c.out_offset, b.out_offset, b.entry)
  <2>1. b.entry \in 0 .. Size - 1
    BY <1>1
  <2> QED BY <1>1, <1>2, <2>1, SlotBack
<1>5. ASSUME NEW i \in 1 .. b.entry + 1
      PROVE  MailsOf(c)[i] = IF i = 1 THEN m ELSE MailsOf(b)[i - 1]
  <2>1. CASE i = 1
    <3>1. Slot(c.out_offset + i - 1) = c.out_offset /\ c.out_offset \in 0 .. Size - 1
      BY <1>7, <2>1 DEF SeenBack
    <3> QED BY <1>1, <1>2, <1>4, <2>1, <3>1
  <2>2. CASE i # 1
    <3>1. i - 1 \in 1 .. b.entry
      BY <1>1, <2>2
    <3>2. /\ Slot(c.out_offset + i - 1) \in 0 .. Size - 1
          /\ Slot(c.out_offset + i - 1) # c.out_offset
          /\ Slot(c.out_offset + i - 1) = Slot(b.out_offset + (i - 1) - 1)
      <4>1. i \in 2 .. b.entry + 1
        BY <1>1, <2>2
      <4> QED BY <1>7, <4>1 DEF SeenBack
    <3>3. MailsOf(c)[i] = b.msg_pool[Slot(b.out_offset + (i - 1) - 1)]
      BY <1>1, <1>2, <1>4, <3>2
    <3> QED BY <1>4, <2>2, <3>1, <3>3
  <2> QED BY <2>1, <2>2
<1>6. MailsOf(c) = <<m>> \o MailsOf(b)
  <2> DEFINE s == MailsOf(b)
             q == MailsOf(c)
             S == Message \cup {None}
  <2>1. /\ s \in Seq(S) /\ q \in Seq(S) /\ m \in S /\ Len(q) = Len(s) + 1
        /\ \A i \in 1 .. Len(s) + 1 : q[i] = IF i = 1 THEN m ELSE s[i - 1]
    BY <1>4, <1>5
  <2> HIDE DEF s, q, S
  <2>2. q = <<m>> \o s
    BY <2>1, PrependIs
  <2> QED BY <2>2 DEF s, q
<1> QED BY <1>2, <1>6

\* rt_mb_recv: the oldest mail goes
LEMMA FetchFields ==
    ASSUME NEW b, Ring(b), b.entry # 0, NEW c, c = Fetch(b)
    PROVE  /\ Ring(c) /\ c.entry = b.entry - 1
           /\ c.out_offset = NextSlot(b.out_offset)
           /\ c.msg_pool = [b.msg_pool EXCEPT ![b.out_offset] = None]
<1>1. /\ b.entry \in 0 .. Size /\ b.out_offset \in 0 .. Size - 1
      /\ b.in_offset \in 0 .. Size - 1
      /\ b.msg_pool \in [0 .. Size - 1 -> Message \cup {None}] /\ Size \in Nat \ {0}
      /\ b.in_offset = Slot(b.out_offset + b.entry) /\ b \in MbState
  BY RingFacts DEF Ring
<1> DEFINE o == (b.out_offset + 1) % Size
           p == [b.msg_pool EXCEPT ![b.out_offset] = None]
<1>2. o = NextSlot(b.out_offset) /\ o \in Offsets
  <2>1. b.out_offset + 1 \in 0 .. 2 * Size - 1
    BY <1>1
  <2>2. o = Slot(b.out_offset + 1) /\ o \in Offsets
    BY <2>1, SlotProps
  <2> HIDE DEF o
  <2> QED BY <1>1, <2>2 DEF Slot, NextSlot
<1>3. c = [b EXCEPT !.msg_pool = p, !.out_offset = o, !.entry = b.entry - 1]
  BY <1>1 DEF Fetch, MbState
<1> HIDE DEF o
<1>4. p \in [Offsets -> Message \cup {None}] /\ b.entry - 1 \in 0 .. Size
  BY <1>1 DEF Offsets
<1> HIDE DEF p
<1>5. /\ c \in MbState /\ c.entry = b.entry - 1 /\ c.out_offset = o
      /\ c.msg_pool = p /\ c.in_offset = b.in_offset
  BY <1>1, <1>2, <1>3, <1>4 DEF MbState
<1>6. b.in_offset = Slot(o + (b.entry - 1)) /\ o + (b.entry - 1) \in 0 .. 2 * Size - 1
  <2>1. b.entry \in 1 .. Size
    BY <1>1
  <2>2. SeenOn(o, b.out_offset, b.entry)
    BY <1>1, <1>2, <2>1, SlotOn
  <2> QED BY <1>1, <2>2 DEF SeenOn
<1>7. Ring(c)
  BY <1>5, <1>6, SlotProps DEF Ring
<1> QED BY <1>2, <1>5, <1>7 DEF p

LEMMA FetchMails ==
    ASSUME NEW b, Ring(b), b.entry # 0, NEW c, c = Fetch(b)
    PROVE  /\ Ring(c) /\ c.entry = b.entry - 1 /\ MailsOf(b) # <<>>
           /\ MailsOf(c) = Tail(MailsOf(b)) /\ b.msg_pool[b.out_offset] = Head(MailsOf(b))
<1>1. /\ b.entry \in 0 .. Size /\ b.out_offset \in 0 .. Size - 1
      /\ b.msg_pool \in [0 .. Size - 1 -> Message \cup {None}] /\ Size \in Nat \ {0}
  BY RingFacts
<1>2. /\ Ring(c) /\ c.entry = b.entry - 1
      /\ c.out_offset = NextSlot(b.out_offset)
      /\ c.msg_pool = [b.msg_pool EXCEPT ![b.out_offset] = None]
  BY FetchFields
<1>3. InRing(MailsOf(b), b) /\ InRing(MailsOf(c), c)
  BY <1>2, MailsFacts
<1>4. /\ MailsOf(b) \in Seq(Message \cup {None}) /\ Len(MailsOf(b)) = b.entry
      /\ MailsOf(c) \in Seq(Message \cup {None}) /\ Len(MailsOf(c)) = b.entry - 1
      /\ \A i \in 1 .. b.entry : MailsOf(b)[i] = b.msg_pool[Slot(b.out_offset + i - 1)]
      /\ \A i \in 1 .. b.entry - 1 : MailsOf(c)[i] = c.msg_pool[Slot(c.out_offset + i - 1)]
  BY <1>2, <1>3 DEF InRing
<1>0. SeenOn(c.out_offset, b.out_offset, b.entry)
  <2>1. b.entry \in 1 .. Size
    BY <1>1
  <2> QED BY <1>1, <1>2, <2>1, SlotOn
<1>5. ASSUME NEW i \in 1 .. b.entry - 1 PROVE MailsOf(c)[i] = MailsOf(b)[i + 1]
  <2>1. i + 1 \in 1 .. b.entry
    BY <1>1
  <2>2. /\ Slot(c.out_offset + i - 1) \in 0 .. Size - 1
        /\ Slot(c.out_offset + i - 1) # b.out_offset
        /\ Slot(c.out_offset + i - 1) = Slot(b.out_offset + (i + 1) - 1)
    BY <1>0 DEF SeenOn
  <2>3. MailsOf(c)[i] = b.msg_pool[Slot(b.out_offset + (i + 1) - 1)]
    BY <1>1, <1>2, <1>4, <2>2
  <2> QED BY <1>4, <2>1, <2>3
<1>6. Slot(b.out_offset + 1 - 1) = b.out_offset /\ 1 \in 1 .. b.entry
  BY <1>0, <1>1 DEF SeenOn
<1>7. b.msg_pool[b.out_offset] = MailsOf(b)[1] /\ Len(MailsOf(b)) > 0
  <2>1. MailsOf(b)[1] = b.msg_pool[Slot(b.out_offset + 1 - 1)]
    BY <1>4, <1>6
  <2> QED BY <1>1, <1>4, <1>6, <2>1
<1> DEFINE s == MailsOf(b)
           q == MailsOf(c)
           S == Message \cup {None}
<1>8. /\ s \in Seq(S) /\ q \in Seq(S) /\ Len(s) = Len(q) + 1
      /\ \A i \in 1 .. Len(q) : q[i] = s[i + 1]
  BY <1>1, <1>4, <1>5
<1> HIDE DEF s, q, S
<1>9. q = Tail(s) /\ Head(s) = s[1] /\ s # <<>>
  BY <1>8, TailIs
<1> QED BY <1>2, <1>7, <1>9 DEF s, q


-----------------------------------------------------------------------------
(* The invariant of the mailbox. *)

\* while somebody waits for a mail (for room), every mail (every free slot) has a
\* resumed thread on its way to it
Served ==
    \A u \in Thread :
        /\ InWait(k, u, recvq) => mb.entry <= Cardinality(InFlight(recvq))
        /\ InWait(k, u, sendq) => Size - mb.entry <= Cardinality(InFlight(sendq))

\* the inductive invariant: that of the kernel and of the channel, a consistent ring,
\* and that nobody is left waiting for what is there
MailInv ==
    /\ ChanInv(MbPc) /\ Ring(mb) /\ Served
    /\ value \in [Thread -> Message \cup {None}]

\* what a step is to the clients of a bounded buffer
BufferStep == [Buffer!Next]_<<Mails, value>>

\* the facts of the invariant that the lemmas below need
LEMMA MailFacts ==
    ASSUME MailInv
    PROVE  /\ mb.entry \in 0 .. Size /\ Size \in Nat \ {0} /\ Ring(mb)
           /\ value \in [Thread -> Message \cup {None}]
           /\ recvq \in Obj /\ sendq \in Obj /\ recvq # sendq
           /\ Mails = MailsOf(mb) /\ Mails' = MailsOf(mb')
           /\ \A o : /\ Cardinality(InFlight(o)) \in Nat
                     /\ Cardinality(InFlight(o)') \in Nat
<1>1. Ring(mb) /\ value \in [Thread -> Message \cup {None}]
  BY DEF MailInv
<1>2. mb.entry \in 0 .. Size /\ Size \in Nat \ {0}
  BY <1>1, RingFacts
<1>3. Mails = MailsOf(mb) /\ Mails' = MailsOf(mb')
  BY DEF Mails, MailsOf
<1> QED BY <1>1, <1>2, <1>3, FlightFinite, ChannelAssumption

\* a step that touches no mail and resumes nobody to find one
LEMMA MailQuiet ==
    ASSUME MailInv, ChanInv(MbPc)', NoGrant, UNCHANGED mailVars
    PROVE  MailInv' /\ BufferStep
<1>1. mb' = mb /\ value' = value
  BY DEF mailVars
<1>2. Served'
  BY <1>1, MailFacts DEF MailInv, Served, NoGrant, NoNewWaiter, InWait
<1>3. BufferStep
  BY <1>1, MailFacts DEF BufferStep
<1> QED BY <1>1, <1>2, <1>3 DEF MailInv

\* a thread waits, or gives up, since there is no mail or no room
LEMMA MailWait ==
    ASSUME MailInv, ChanInv(MbPc)', NEW s \in {recvq, sendq}, OnlyWaitsOn(s),
           s = recvq => Empty, s = sendq => Full, UNCHANGED mailVars
    PROVE  MailInv' /\ BufferStep
<1>1. mb' = mb /\ value' = value
  BY DEF mailVars
<1>2. /\ recvq \in Obj /\ sendq \in Obj /\ recvq # sendq /\ Served
      /\ Cardinality(InFlight(recvq)') \in Nat /\ Cardinality(InFlight(sendq)') \in Nat
      /\ Size \in Nat \ {0}
  BY MailFacts DEF MailInv
<1>3. ASSUME NEW u \in Thread, InWait(k', u, recvq)
      PROVE  mb.entry <= Cardinality(InFlight(recvq)')
  <2>1. CASE s = recvq
    BY <1>2, <2>1 DEF Empty
  <2>2. CASE s = sendq
    <3>1. InFlight(recvq)' = InFlight(recvq) /\ InWait(k, u, recvq)
      BY <1>2, <1>3, <2>2 DEF OnlyWaitsOn
    <3> QED BY <1>2, <3>1 DEF Served
  <2> QED BY <2>1, <2>2
<1>4. ASSUME NEW u \in Thread, InWait(k', u, sendq)
      PROVE  Size - mb.entry <= Cardinality(InFlight(sendq)')
  <2>1. CASE s = sendq
    BY <1>2, <2>1 DEF Full
  <2>2. CASE s = recvq
    <3>1. InFlight(sendq)' = InFlight(sendq) /\ InWait(k, u, sendq)
      BY <1>2, <1>4, <2>2 DEF OnlyWaitsOn
    <3> QED BY <1>2, <3>1 DEF Served
  <2> QED BY <2>1, <2>2
<1>5. Served'
  BY <1>1, <1>3, <1>4 DEF Served, InWait
<1>6. BufferStep
  BY <1>1, MailFacts DEF BufferStep
<1> QED BY <1>1, <1>5, <1>6 DEF MailInv

\* a mail is put in, and a receiver resumed
LEMMA MailSent ==
    ASSUME MailInv, ChanInv(MbPc)', Grants(recvq), ~Full, NEW m \in Message,
           mb' = Store(mb, m) \/ mb' = StoreFirst(mb, m), value' = value
    PROVE  MailInv' /\ BufferStep
<1>1. /\ recvq \in Obj /\ sendq \in Obj /\ recvq # sendq /\ Served /\ Ring(mb)
      /\ mb.entry \in 0 .. Size /\ Size \in Nat \ {0} /\ mb.entry < Size
      /\ Mails = MailsOf(mb) /\ Mails' = MailsOf(mb')
  BY MailFacts DEF MailInv, Full
<1>2. /\ Ring(mb') /\ mb'.entry = mb.entry + 1
      /\ \/ MailsOf(mb') = Append(MailsOf(mb), m)
         \/ MailsOf(mb') = <<m>> \o MailsOf(mb)
  BY <1>1, StoreMails, StoreFirstMails
<1>3. BufferStep
  <2>1. Len(Mails) < Size
    BY <1>1, MailsFacts DEF InRing
  <2>2. Buffer!Send(m) \/ Buffer!Urgent(m)
    BY <1>1, <1>2, <2>1 DEF Buffer!Send, Buffer!Urgent
  <2> QED BY <2>2 DEF BufferStep, Buffer!Next
<1>4. /\ Cardinality(InFlight(recvq)) \in Nat /\ Cardinality(InFlight(sendq)) \in Nat
      /\ Cardinality(InFlight(sendq)') \in Nat
  BY FlightFinite
<1>5. ASSUME NEW u \in Thread, InWait(k', u, recvq)
      PROVE  mb'.entry <= Cardinality(InFlight(recvq)')
  <2>1. /\ InWait(k, u, recvq)
        /\ Cardinality(InFlight(recvq)') = Cardinality(InFlight(recvq)) + 1
    BY <1>1, <1>5 DEF Grants, NoNewWaiter
  <2>2. mb.entry <= Cardinality(InFlight(recvq))
    BY <1>1, <2>1 DEF Served
  <2> QED BY <1>1, <1>2, <1>4, <2>1, <2>2
<1>6. ASSUME NEW u \in Thread, InWait(k', u, sendq)
      PROVE  Size - mb'.entry <= Cardinality(InFlight(sendq)')
  <2>1. /\ InWait(k, u, sendq)
        /\ Cardinality(InFlight(sendq)') >= Cardinality(InFlight(sendq)) - 1
    BY <1>1, <1>6 DEF Grants, NoNewWaiter
  <2>2. Size - mb.entry <= Cardinality(InFlight(sendq))
    BY <1>1, <2>1 DEF Served
  <2> QED BY <1>1, <1>2, <1>4, <2>1, <2>2
<1>7. Served'
  BY <1>5, <1>6 DEF Served, InWait
<1>8. Ring(mb)'
  BY <1>2 DEF Ring
<1> QED BY <1>3, <1>7, <1>8 DEF MailInv

\* the oldest mail is taken out, and a sender resumed
LEMMA MailReceived ==
    ASSUME MailInv, ChanInv(MbPc)', Grants(sendq), ~Empty, NEW t \in Thread,
           mb' = Fetch(mb), value' = [value EXCEPT ![t] = mb.msg_pool[mb.out_offset]]
    PROVE  MailInv' /\ BufferStep
<1>1. /\ recvq \in Obj /\ sendq \in Obj /\ recvq # sendq /\ Served /\ Ring(mb)
      /\ mb.entry \in 0 .. Size /\ Size \in Nat \ {0} /\ mb.entry # 0
      /\ Mails = MailsOf(mb) /\ Mails' = MailsOf(mb')
      /\ value \in [Thread -> Message \cup {None}]
  BY MailFacts DEF MailInv, Empty
<1>2. /\ Ring(mb') /\ mb'.entry = mb.entry - 1 /\ MailsOf(mb) # <<>>
      /\ MailsOf(mb') = Tail(MailsOf(mb)) /\ mb.msg_pool[mb.out_offset] = Head(MailsOf(mb))
  BY <1>1, FetchMails
<1>3. BufferStep
  <2>1. Buffer!Receive(t)
    BY <1>1, <1>2 DEF Buffer!Receive
  <2> QED BY <2>1 DEF BufferStep, Buffer!Next
<1>4. /\ Cardinality(InFlight(recvq)) \in Nat /\ Cardinality(InFlight(sendq)) \in Nat
      /\ Cardinality(InFlight(recvq)') \in Nat
  BY FlightFinite
<1>5. ASSUME NEW u \in Thread, InWait(k', u, sendq)
      PROVE  Size - mb'.entry <= Cardinality(InFlight(sendq)')
  <2>1. /\ InWait(k, u, sendq)
        /\ Cardinality(InFlight(sendq)') = Cardinality(InFlight(sendq)) + 1
    BY <1>1, <1>5 DEF Grants, NoNewWaiter
  <2>2. Size - mb.entry <= Cardinality(InFlight(sendq))
    BY <1>1, <2>1 DEF Served
  <2> QED BY <1>1, <1>2, <1>4, <2>1, <2>2
<1>6. ASSUME NEW u \in Thread, InWait(k', u, recvq)
      PROVE  mb'.entry <= Cardinality(InFlight(recvq)')
  <2>1. /\ InWait(k, u, recvq)
        /\ Cardinality(InFlight(recvq)') >= Cardinality(InFlight(recvq)) - 1
    BY <1>1, <1>6 DEF Grants, NoNewWaiter
  <2>2. mb.entry <= Cardinality(InFlight(recvq))
    BY <1>1, <2>1 DEF Served
  <2> QED BY <1>1, <1>2, <1>4, <2>1, <2>2
<1>7. Served'
  BY <1>5, <1>6 DEF Served, InWait
<1>8. Ring(mb)'
  BY <1>2 DEF Ring
<1>9. mb.msg_pool[mb.out_offset] \in Message \cup {None}
  BY <1>1, RingFacts
<1>10. value' \in [Thread -> Message \cup {None}]
  BY <1>1, <1>9
<1> QED BY <1>3, <1>7, <1>8, <1>10 DEF MailInv


-----------------------------------------------------------------------------
(* The steps of the mailbox. *)

\* rt_mb_send_wait, rt_mb_urgent and the second try of a sender that was resumed
LEMMA SendStepMail ==
    ASSUME MailInv, NEW t \in Thread, NEW m \in Message,
           Calls(t, "send") \/ Calls(t, "urgent") \/ Resumed(t, sendq),
           ~Full, mb' = Store(mb, m) \/ mb' = StoreFirst(mb, m), ResumeOne(recvq),
           Goto(t, AfterResume(recvq)), UNCHANGED <<isr, valid, value>>,
           UNCHANGED <<arg, call, due>> \/ EndCall(t)
    PROVE  MailInv' /\ BufferStep
<1>1. ChanInv(MbPc) /\ recvq \in Obj /\ recvq # sendq
  BY ChannelAssumption DEF MailInv
<1>2. /\ Running(t) /\ pc[t] \notin BlockPc /\ (pc[t] \in Taking => arg[t] # recvq)
  BY <1>1 DEF Calls, Resumed, At, BlockPc, Taking
<1>3. PICK l \in {"sched", "run"} : pc' = [pc EXCEPT ![t] = l]
  BY DEF Goto, AfterResume
<1>4. l \in MbPc /\ l \notin Taking /\ l \notin {"detach", "resume", "object"}
  BY <1>3 DEF MbPc, IpcPc, CpuPc, Taking
<1>5. ChanInv(MbPc)' /\ Grants(recvq)
  BY <1>1, <1>2, <1>3, <1>4, GrantStepChan
<1> QED BY <1>5, MailSent

\* rt_mb_recv and the second try of a receiver that was resumed
LEMMA ReceiveStepMail ==
    ASSUME MailInv, NEW t \in Thread, Calls(t, "recv") \/ Resumed(t, recvq),
           ~Empty, ReceiveMail(t), UNCHANGED <<arg, call, due>> \/ EndCall(t)
    PROVE  MailInv' /\ BufferStep
<1>1. ChanInv(MbPc) /\ sendq \in Obj /\ recvq # sendq
  BY ChannelAssumption DEF MailInv
<1>2. /\ Running(t) /\ pc[t] \notin BlockPc /\ (pc[t] \in Taking => arg[t] # sendq)
  BY <1>1 DEF Calls, Resumed, At, BlockPc, Taking
<1>3. PICK l \in {"recvd_sched", "recvd"} : pc' = [pc EXCEPT ![t] = l]
  BY DEF ReceiveMail, Goto
<1>4. l \in MbPc /\ l \notin Taking /\ l \notin {"detach", "resume", "object"}
  BY <1>3 DEF MbPc, Taking
<1>5. ChanInv(MbPc)' /\ Grants(sendq)
  BY <1>1, <1>2, <1>3, <1>4, GrantStepChan DEF ReceiveMail
<1> QED BY <1>5, MailReceived DEF ReceiveMail

\* the steps of a send
LEMMA SendMailInv ==
    ASSUME MailInv, NEW t \in Thread,
           \/ \E m \in Message, d \in Timeouts : rt_mb_send_wait(t, m, d)
           \/ \E m \in Message : rt_mb_urgent(t, m)
           \/ SendRetry(t)
    PROVE  MailInv' /\ BufferStep
<1>1. /\ ChanInv(MbPc) /\ IpcPc \subseteq MbPc /\ sendq \in Obj /\ recvq # sendq
      /\ sendq \in {recvq, sendq}
  BY ChannelAssumption DEF MailInv, MbPc
<1>2. ASSUME NEW m \in Message, NEW d \in Timeouts, rt_mb_send_wait(t, m, d)
      PROVE  MailInv' /\ BufferStep
  <2>1. CASE ~Full
    BY <1>2, <2>1, SendStepMail DEF rt_mb_send_wait, SendMail
  <2>2. CASE Full
    <3>1. /\ Calls(t, "send") /\ MayWait(d) /\ BeginWait(t, sendq, m, d) /\ isr' = isr
          /\ valid' = valid /\ UNCHANGED mailVars
      BY <1>2, <2>2 DEF rt_mb_send_wait
    <3>2. ChanInv(MbPc)' /\ OnlyWaitsOn(sendq)
      BY <1>1, <3>1, BeginWaitChan
    <3> QED BY <1>1, <2>2, <3>1, <3>2, MailWait
  <2> QED BY <2>1, <2>2
<1>3. ASSUME NEW m \in Message, rt_mb_urgent(t, m) PROVE MailInv' /\ BufferStep
  BY <1>3, SendStepMail DEF rt_mb_urgent, ipcVars, chanVars
<1>4. CASE SendRetry(t)
  <2>1. CASE ~Full
    <3>1. call[t].msg \in Message
      BY <1>1, <1>4, ChanFacts DEF SendRetry, Resumed, At, HasMessage, Taking
    <3> QED BY <1>4, <2>1, <3>1, SendStepMail DEF SendRetry, SendMail
  <2>2. CASE Full
    <3>1. /\ Resumed(t, sendq) /\ WaitAgain(t) /\ isr' = isr /\ valid' = valid
          /\ UNCHANGED mailVars
      BY <1>4, <2>2 DEF SendRetry
    <3>2. ChanInv(MbPc)' /\ OnlyWaitsOn(sendq)
      BY <1>1, <3>1, WaitAgainChan
    <3> QED BY <1>1, <2>2, <3>1, <3>2, MailWait
  <2> QED BY <2>1, <2>2
<1> QED BY <1>2, <1>3, <1>4

\* and of a receive
LEMMA RecvMailInv ==
    ASSUME MailInv, NEW t \in Thread,
           (\E d \in Timeouts : rt_mb_recv(t, d)) \/ RecvRetry(t)
    PROVE  MailInv' /\ BufferStep
<1>1. /\ ChanInv(MbPc) /\ IpcPc \subseteq MbPc /\ recvq \in Obj /\ recvq # sendq
      /\ recvq \in {recvq, sendq}
  BY ChannelAssumption DEF MailInv, MbPc
<1>2. ASSUME NEW d \in Timeouts, rt_mb_recv(t, d) PROVE MailInv' /\ BufferStep
  <2>1. CASE ~Empty
    BY <1>2, <2>1, ReceiveStepMail DEF rt_mb_recv
  <2>2. CASE Empty
    <3>1. /\ Calls(t, "recv") /\ MayWait(d) /\ BeginWait(t, recvq, None, d) /\ isr' = isr
          /\ valid' = valid /\ UNCHANGED mailVars
      BY <1>2, <2>2 DEF rt_mb_recv
    <3>2. ChanInv(MbPc)' /\ OnlyWaitsOn(recvq)
      BY <1>1, <3>1, BeginWaitChan
    <3> QED BY <1>1, <2>2, <3>1, <3>2, MailWait
  <2> QED BY <2>1, <2>2
<1>3. CASE RecvRetry(t)
  <2>1. CASE ~Empty
    BY <1>3, <2>1, ReceiveStepMail DEF RecvRetry
  <2>2. CASE Empty
    <3>1. /\ Resumed(t, recvq) /\ WaitAgain(t) /\ isr' = isr /\ valid' = valid
          /\ UNCHANGED mailVars
      BY <1>3, <2>2 DEF RecvRetry
    <3>2. ChanInv(MbPc)' /\ OnlyWaitsOn(recvq)
      BY <1>1, <3>1, WaitAgainChan
    <3> QED BY <1>1, <2>2, <3>1, <3>2, MailWait
  <2> QED BY <2>1, <2>2
<1> QED BY <1>2, <1>3

\* the return of a receive
LEMMA RecvReturnMail ==
    ASSUME MailInv, NEW t \in Thread, RecvReturn(t)
    PROVE  MailInv' /\ BufferStep
<1>1. /\ ChanInv(MbPc) /\ IpcPc \subseteq MbPc /\ pc \in [Thread -> MbPc]
      /\ arg \in [Thread -> Obj \cup {None}] /\ valid \in [Obj -> BOOLEAN]
  BY ChanFacts DEF MailInv, MbPc
<1>2. /\ mb' = mb /\ value' = [value EXCEPT ![t] = None]
      /\ UNCHANGED <<ipcVars, chanVars>>
      /\ arg' = arg /\ valid' = valid /\ call' = call /\ due' = due
  BY DEF RecvReturn, ipcVars, chanVars
<1>3. ChanInv(MbPc)' /\ NoGrant
  <2>1. CASE At(t, "recvd") /\ Goto(t, "run") /\ UNCHANGED <<k, isr>>
    <3>1. /\ Running(t) /\ pc[t] = "recvd" /\ pc' = [pc EXCEPT ![t] = "run"]
          /\ k' = k /\ isr' = isr /\ arg' = [arg EXCEPT ![t] = arg[t]]
          /\ arg[t] \in Obj \cup {None} /\ valid' \in [Obj -> BOOLEAN]
          /\ call' = call /\ due' = due
      BY <1>1, <1>2, <2>1 DEF At, Goto
    <3>2. "run" \in MbPc \ Taking /\ pc[t] \notin BlockPc /\ pc[t] \notin Taking
      BY <3>1 DEF MbPc, IpcPc, CpuPc, Taking, BlockPc
    <3>3. \A o \in Obj : t \notin InFlight(o)
      BY <3>2, NotInFlight
    <3> QED BY <1>1, <3>1, <3>2, <3>3, QuietChan
  <2>2. CASE ThreadSchedule(t, "recvd_sched", "run")
    <3>1. /\ "recvd_sched" \in MbPc /\ "run" \in MbPc /\ "recvd_sched" \notin Taking
          /\ "run" \notin Taking \cup {"detach", "resume", "object"}
      BY DEF MbPc, IpcPc, CpuPc, Taking
    <3> QED BY <1>1, <1>2, <2>2, <3>1, ScheduleChan
  <2> QED BY <2>1, <2>2 DEF RecvReturn
<1>4. Served' /\ Ring(mb)'
  BY <1>2, <1>3, MailFacts DEF MailInv, Served, NoGrant, NoNewWaiter, InWait, Ring
<1>5. value' \in [Thread -> Message \cup {None}]
  BY <1>2 DEF MailInv
<1>6. BufferStep
  <2>1. Buffer!Return(t)
    BY <1>2, MailFacts DEF Buffer!Return
  <2> QED BY <2>1 DEF BufferStep, Buffer!Next
<1> QED BY <1>3, <1>4, <1>5, <1>6 DEF MailInv

\* an empty ring
LEMMA EmptyRingProps == Ring(EmptyRing) /\ EmptyRing.entry = 0 /\ MailsOf(EmptyRing) = <<>>
<1> DEFINE b == EmptyRing
<1>1. Size \in Nat \ {0} /\ 0 \in Offsets
  BY ChannelAssumption DEF Offsets
<1>2. b.entry = 0 /\ b.in_offset = 0 /\ b.out_offset = 0 /\ b \in MbState
  BY <1>1 DEF EmptyRing, MbState
<1>3. (0 + 0) % Size = 0
  BY <1>1
<1>4. Ring(b)
  BY <1>2, <1>3 DEF Ring
<1>5. Len(MailsOf(b)) = 0 /\ MailsOf(b) \in Seq(Message \cup {None})
  BY <1>2, <1>4, MailsFacts DEF InRing
<1>6. MailsOf(b) = <<>>
  BY <1>5, EmptySeq
<1> QED BY <1>2, <1>4, <1>6

\* the end of a reset: nobody waits
LEMMA ResetMail ==
    ASSUME MailInv, NEW t \in Thread, ResetMailbox(t)
    PROVE  MailInv' /\ BufferStep
<1>1. /\ ChanInv(MbPc) /\ IpcPc \subseteq MbPc /\ KInv(k) /\ pc \in [Thread -> MbPc]
      /\ arg \in [Thread -> Obj \cup {None}] /\ valid \in [Obj -> BOOLEAN]
      /\ recvq \in Obj /\ sendq \in Obj
  BY ChanFacts, ChannelAssumption DEF MailInv, MbPc
<1>2. /\ Running(t) /\ pc[t] = "reset" /\ pc' = [pc EXCEPT ![t] = "sched"]
      /\ (\A o \in Obj : k.wait[o] = <<>>) /\ mb' = EmptyRing /\ value' = value
      /\ k' = k /\ isr' = isr /\ arg' = [arg EXCEPT ![t] = arg[t]]
      /\ valid' = valid /\ call' = call /\ due' = due
  BY <1>1 DEF ResetMailbox, ResetReady, At, Goto, ipcVars, chanVars
<1>3. "sched" \in MbPc \ Taking /\ pc[t] \notin BlockPc /\ pc[t] \notin Taking
  BY <1>2 DEF MbPc, IpcPc, CpuPc, Taking, BlockPc
<1>4. \A o \in Obj : t \notin InFlight(o)
  BY <1>3, NotInFlight
<1>5. ChanInv(MbPc)' /\ NoGrant
  BY <1>1, <1>2, <1>3, <1>4, QuietChan
<1>6. \A u \in Thread, o \in Obj : ~InWait(k, u, o)
  BY <1>1, <1>2, WaitProps
<1>7. Served'
  BY <1>1, <1>2, <1>6 DEF Served, InWait
<1>8. Ring(mb)'
  BY <1>2, EmptyRingProps DEF Ring
<1>9. BufferStep
  <2>1. Mails' = <<>>
    BY <1>2, MailFacts, EmptyRingProps
  <2>2. Buffer!Reset
    BY <1>2, <2>1 DEF Buffer!Reset
  <2> QED BY <2>2 DEF BufferStep, Buffer!Next
<1> QED BY <1>2, <1>5, <1>7, <1>8, <1>9 DEF MailInv


\* the handler
LEMMA DevSendMail ==
    ASSUME MailInv, NEW m \in Message, DevSend(m)
    PROVE  MailInv' /\ BufferStep
<1>1. /\ ChanInv(MbPc) /\ recvq \in Obj /\ isr \in Seq(Frame)
  BY ChanFacts, IpcFacts, ChannelAssumption DEF MailInv
<1>2. /\ isr # <<>> /\ ResumeOne(recvq) /\ pc' = pc /\ UNCHANGED <<ipcVars, chanVars>>
      /\ value' = value /\ ~Full /\ (mb' = Store(mb, m) \/ mb' = StoreFirst(mb, m))
      /\ DevAfterResume(recvq)
  BY DEF DevSend, InHandler
<1>3. isr' \in Seq(Frame)
  BY <1>1, <1>2, FrameProps DEF DevAfterResume, GotoFrame
<1>4. ChanInv(MbPc)' /\ Grants(recvq)
  BY <1>1, <1>2, <1>3, GrantDevChan
<1> QED BY <1>2, <1>4, MailSent

\* the invariant holds at the start, in an empty buffer
LEMMA MailInitInv == Init => MailInv /\ Buffer!Init
<1> SUFFICES ASSUME Init PROVE MailInv /\ Buffer!Init
  OBVIOUS
<1>1. ChannelInit /\ mb = EmptyRing /\ value = [t \in Thread |-> None]
  BY DEF Init
<1>2. ChanInv(MbPc) /\ \A o \in Obj, u \in Thread : ~InWait(k, u, o)
  BY <1>1, ChanInitInv DEF MbPc
<1>3. Ring(mb) /\ MailsOf(mb) = <<>>
  BY <1>1, EmptyRingProps
<1>4. Served
  BY <1>2, ChannelAssumption DEF Served
<1>5. Mails = MailsOf(mb)
  BY DEF Mails, MailsOf
<1> QED BY <1>1, <1>2, <1>3, <1>4, <1>5 DEF MailInv, Buffer!Init

\* every step keeps it, and is a step of the buffer or none
LEMMA MailNextInv == MailInv /\ [Next]_vars => MailInv' /\ BufferStep
<1> SUFFICES ASSUME MailInv, [Next]_vars PROVE MailInv' /\ BufferStep
  OBVIOUS
<1>1. ChanInv(MbPc) /\ IpcPc \subseteq MbPc
  BY DEF MailInv, MbPc
<1>2. CASE ChannelCpu /\ UNCHANGED mailVars
  BY <1>1, <1>2, CpuChan, MailQuiet
<1>3. ASSUME NEW m \in Message, DevSend(m) PROVE MailInv' /\ BufferStep
  BY <1>3, DevSendMail
<1>4. ASSUME NEW t \in Thread, (ChannelFinish(t) \/ ChannelCall(t)) /\ UNCHANGED mailVars
      PROVE  MailInv' /\ BufferStep
  <2>1. ChanInv(MbPc)' /\ NoGrant
    BY <1>1, <1>4, ChannelQuiet
  <2> QED BY <1>4, <2>1, MailQuiet
<1>5. ASSUME NEW t \in Thread, Finish(t) PROVE MailInv' /\ BufferStep
  BY <1>4, <1>5, SendMailInv, RecvMailInv, RecvReturnMail, ResetMail DEF Finish
<1>6. ASSUME NEW t \in Thread, Call(t) PROVE MailInv' /\ BufferStep
  BY <1>4, <1>6, SendMailInv, RecvMailInv DEF Call
<1>7. CASE UNCHANGED vars
  <2>1. /\ k' = k /\ isr' = isr /\ pc' = pc /\ arg' = arg /\ valid' = valid
        /\ call' = call /\ due' = due /\ UNCHANGED mailVars
    BY <1>7 DEF vars, mailVars
  <2>2. IpcInv(MbPc)'
    BY <1>1, <2>1, DevIpc, WakesNone, IpcFacts DEF ChanInv
  <2>3. ChanInv(MbPc)'
    BY <1>1, <2>1, <2>2 DEF ChanInv, ChanTypes, DetachHasArg, HasMessage, IdleOut,
                            Timed, TimedAt
  <2>4. NoGrant
    BY <2>1 DEF NoGrant, NoNewWaiter, InFlight
  <2> QED BY <2>1, <2>3, <2>4, MailQuiet
<1> QED BY <1>2, <1>3, <1>5, <1>6, <1>7 DEF Next

-----------------------------------------------------------------------------
\* The inductive invariant of the kernel with a mailbox (ipc.c, thread.c, scheduler.c,
\* timer.c) holds in every reachable state.
THEOREM MailInvariant == Spec => []MailInv
<1>1. Init => MailInv
  BY MailInitInv
<1>2. MailInv /\ [Next]_vars => MailInv'
  BY MailNextInv
<1> QED BY <1>1, <1>2, PTL DEF Spec

\* A mailbox is a bounded buffer, whatever its size and however many threads and
\* handlers share it: rt_mb_send_wait, rt_mb_urgent and rt_mb_recv, with all their
\* waiting, timing out, being overtaken and being reset, put mails in and take them out
\* one at a time, in the order in which the buffer promises them.
THEOREM MailboxImplementsBuffer == Spec => ImplementsBuffer
<1>1. Init => Buffer!Init
  BY MailInitInv
<1>2. MailInv /\ [Next]_vars => [Buffer!Next]_<<Mails, value>>
  BY MailNextInv DEF BufferStep
<1> QED BY <1>1, <1>2, MailInvariant, PTL DEF Spec, ImplementsBuffer, Buffer!Spec

\* the invariant says what the properties of the modules say
LEMMA MailInvMeaning ==
    ASSUME MailInv
    PROVE  TypeOK /\ NobodyStranded /\ DeadlineKept
<1>1. /\ ChanInv(MbPc) /\ IpcInv(MbPc) /\ KInv(k) /\ recvq \in Obj /\ sendq \in Obj
  BY ChanFacts, ChannelAssumption DEF MailInv
<1>2. TypeOK
  <2>1. ChannelTypeOK(MbPc)
    BY <1>1, ChanFacts, IpcMeaning DEF ChannelTypeOK
  <2> QED BY <2>1 DEF TypeOK, MailInv, Ring
<1>3. NobodyStranded
  BY <1>1, WaitProps DEF NobodyStranded, MailInv, Served
<1> QED BY <1>1, <1>2, <1>3, ChanDeadline

\* Every variable keeps its type; in particular the offsets stay inside msg_pool and
\* entry between 0 and the size of the mailbox.
THEOREM MailTypes == Spec => []TypeOK
  BY MailInvariant, MailInvMeaning, PTL

\* While a thread waits for a mail, every mail in the mailbox has a resumed receiver on
\* its way to it, and while one waits for room, every free slot has a resumed sender: no
\* timeout, overtaking thread, reset or handler loses a wakeup (rt_mb_send_wait,
\* rt_mb_recv).
THEOREM MailNobodyStranded == Spec => []NobodyStranded
  BY MailInvariant, MailInvMeaning, PTL

\* However often a sender or receiver is resumed, overtaken and made to wait again, its
\* timer is set to the tick at which the whole call times out, also when the tick wraps
\* (the recomputed timeout of rt_mb_send_wait and rt_mb_recv).
THEOREM MailDeadlineKept == Spec => []DeadlineKept
  BY MailInvariant, MailInvMeaning, PTL
=============================================================================
