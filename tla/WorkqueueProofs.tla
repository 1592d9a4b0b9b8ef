-------------------------- MODULE WorkqueueProofs --------------------------
(***************************************************************************)
(* The safety of the work queue, for any number of threads and works, and  *)
(* for any use that the threads and the work functions make of its         *)
(* services.                                                               *)
(***************************************************************************)
EXTENDS Workqueue, CpuProofs

\* the points of _workqueue_thread_entry outside a work function
WorkerPc == {"loop", "idle", "ack", "complete", "exit"}

\* the points under a scheduler lock that the queue itself has taken
LockPc == {"complete", "all", "first", "pick", "late", "latefirst", "latepick"}

\* the points at which arg is a work
ArgPc == {"arm", "cancel", "pick", "latepick"}

Types ==
    /\ pc \in [Thread -> WorkPc]
    /\ wq \in Queue
    /\ arg \in [Thread -> Work \cup {None}]

\* a work that was accepted while it did not execute is not started since
History ==
    /\ owed \subseteq Work /\ again \subseteq Work
    /\ wq.work_current \notin owed

\* no work is linked twice into a list
Lists == IsInjective(wq.work_list) /\ IsInjective(wq.delayed_list)

Points ==
    /\ pc[Idle] = "run"
    /\ \A t \in Thread : pc[t] \in WorkerPc => t = Worker
    /\ pc[Worker] \in WorkerPc <=> wq.work_current = None
    /\ \A t \in Thread : pc[t] \in ArgPc => arg[t] \in Work

LockHolder == \A t \in Thread : pc[t] \in LockPc => k.lock > 0 /\ k.exec = t

\* where the worker may be suspended outside a work function
Parked ==
    k.stat[Worker] = "SUSPEND" =>
        /\ pc[Worker] \in {"ack", "exit"} => RunsLocked
        /\ pc[Worker] = "complete" => k.lock > 1
        /\ pc[Worker] = "loop" => RunsLocked \/ wq.work_list = <<>>
        /\ pc[Worker] = "idle" => wq.work_list = <<>>

\* the semaphore has a token only inside the completion, and then nobody waits
Token ==
    wq.value > 0 => /\ wq.value = 1 /\ pc[Worker] = "complete"
                    /\ \A u \in Thread : ~InWait(k, u, sem)

\* the inductive invariant
WorkInv ==
    /\ CpuInv /\ Types /\ History /\ Lists /\ Points /\ LockHolder /\ Parked /\ Token
    /\ AcceptedWorkKept

-----------------------------------------------------------------------------
(* The queue: what the operations do to its lists. *)

\* q is a queue with lists a and d, as sets
HasLists(q, a, d) ==
    /\ q \in Queue
    /\ IsInjective(q.work_list) /\ Range(q.work_list) = a
    /\ IsInjective(q.delayed_list) /\ Range(q.delayed_list) = d

\* q differs from r in the lists only
SameButLists(q, r) ==
    /\ q.work_current = r.work_current /\ q.value = r.value
    /\ q.submitting = r.submitting /\ q.armed = r.armed /\ q.attached = r.attached

\* rt_list_remove(&work->list) takes the work out of the list it is in
LEMMA UnlinkProps ==
    ASSUME NEW r, NEW a, NEW d, HasLists(r, a, d), NEW w \in Work, NEW q, q = Unlink(r, w)
    PROVE  HasLists(q, a \ {w}, d \ {w}) /\ SameButLists(q, r)
<1> DEFINE x == ListDel(r.work_list, w)
           y == ListDel(r.delayed_list, w)
<1>1. r \in Queue /\ r.work_list \in Seq(Work) /\ r.delayed_list \in Seq(Work)
  BY DEF HasLists, Queue
<1>2. x \in Seq(Work) /\ IsInjective(x) /\ Range(x) = a \ {w}
  BY <1>1, ListDelProps DEF HasLists
<1>3. y \in Seq(Work) /\ IsInjective(y) /\ Range(y) = d \ {w}
  BY <1>1, ListDelProps DEF HasLists
<1>4. q = [r EXCEPT !.work_list = x, !.delayed_list = y]
  BY DEF Unlink
<1> HIDE DEF x, y
<1> QED BY <1>1, <1>2, <1>3, <1>4 DEF HasLists, SameButLists, Queue

\* the element behind the list, or in front of it
LEMMA LinkProps ==
    ASSUME NEW s \in Seq(Work), IsInjective(s), NEW w \in Work, w \notin Range(s)
    PROVE  /\ Append(s, w) \in Seq(Work) /\ IsInjective(Append(s, w))
           /\ Range(Append(s, w)) = Range(s) \cup {w}
           /\ <<w>> \o s \in Seq(Work) /\ IsInjective(<<w>> \o s)
           /\ Range(<<w>> \o s) = Range(s) \cup {w}
<1> DEFINE x == <<w>> \o s
<1>1. x \in Seq(Work) /\ Len(x) = Len(s) + 1 /\ Len(s) \in Nat
  OBVIOUS
<1>2. \A i \in 1 .. Len(x) : x[i] = IF i = 1 THEN w ELSE s[i - 1]
  OBVIOUS
<1>3. DOMAIN x = 1 .. Len(x) /\ DOMAIN s = 1 .. Len(s)
  BY <1>1
<1> HIDE DEF x
<1>4. ASSUME NEW i \in 1 .. Len(x), NEW j \in 1 .. Len(x), x[i] = x[j] PROVE i = j
  <2>1. CASE i = 1 /\ j # 1
    BY <1>1, <1>2, <1>3, <1>4, <2>1 DEF Range
  <2>2. CASE j = 1 /\ i # 1
    BY <1>1, <1>2, <1>3, <1>4, <2>2 DEF Range
  <2>3. CASE i # 1 /\ j # 1
    <3>1. s[i - 1] = s[j - 1] /\ i - 1 \in DOMAIN s /\ j - 1 \in DOMAIN s
      BY <1>1, <1>2, <1>3, <1>4, <2>3
    <3>2. i - 1 = j - 1
      BY <3>1 DEF IsInjective
    <3> QED BY <3>2
  <2> QED BY <2>1, <2>2, <2>3
<1>5. IsInjective(x)
  BY <1>3, <1>4 DEF IsInjective
<1>6. Range(x) = Range(s) \cup {w}
  <2>1. ASSUME NEW i \in 1 .. Len(x) PROVE x[i] \in Range(s) \cup {w}
    BY <1>1, <1>2, <1>3 DEF Range
  <2>2. w \in Range(x)
    BY <1>1, <1>2, <1>3 DEF Range
  <2>3. ASSUME NEW i \in 1 .. Len(s) PROVE s[i] \in Range(x)
    <3>1. i + 1 \in DOMAIN x /\ x[i + 1] = s[i]
      BY <1>1, <1>2, <1>3
    <3> QED BY <3>1 DEF Range
  <2> QED BY <1>3, <2>1, <2>2, <2>3 DEF Range
<1> QED BY <1>1, <1>5, <1>6, AppendProps DEF x

\* the first work leaves the list
LEMMA UnlinkHeadProps ==
    ASSUME NEW s \in Seq(Work), IsInjective(s), s # <<>>
    PROVE  /\ Head(s) \in Work /\ Head(s) \in Range(s)
           /\ Tail(s) \in Seq(Work) /\ IsInjective(Tail(s))
           /\ Range(Tail(s)) = Range(s) \ {Head(s)}
<1> DEFINE x == Tail(s)
<1>1. /\ Head(s) = s[1] /\ Len(s) \in Nat \ {0} /\ x \in Seq(Work) /\ Len(x) = Len(s) - 1
      /\ \A i \in 1 .. Len(x) : x[i] = s[i + 1]
      /\ DOMAIN s = 1 .. Len(s) /\ DOMAIN x = 1 .. Len(x)
  OBVIOUS
<1> HIDE DEF x
<1>2. \A i, j \in 1 .. Len(s) : s[i] = s[j] => i = j
  BY <1>1 DEF IsInjective
<1>3. \A i, j \in 1 .. Len(x) : x[i] = x[j] => i = j
  BY <1>1, <1>2
<1>4. ASSUME NEW i \in 1 .. Len(x) PROVE x[i] \in Range(s) \ {s[1]}
  BY <1>1, <1>2 DEF Range
<1>5. ASSUME NEW i \in 1 .. Len(s), s[i] # s[1] PROVE s[i] \in Range(x)
  <2>1. i - 1 \in DOMAIN x /\ x[i - 1] = s[i]
    BY <1>1, <1>5
  <2> QED BY <2>1 DEF Range
<1>6. Range(x) = Range(s) \ {s[1]}
  BY <1>1, <1>4, <1>5 DEF Range
<1>7. IsInjective(x) /\ s[1] \in Range(s) /\ s[1] \in Work
  BY <1>1, <1>3 DEF IsInjective, Range
<1> QED BY <1>1, <1>6, <1>7 DEF x

\* the queue as it stands
WL == Range(wq.work_list)
DL == Range(wq.delayed_list)

\* the section of a submission without delay
LEMMA SubmitNowQueue ==
    ASSUME HasLists(wq, WL, DL), NEW w \in Work, SubmitNow(w)
    PROVE  /\ HasLists(wq', IF wq.work_current # w THEN WL \cup {w} ELSE WL \ {w}, DL \ {w})
           /\ wq'.work_current = wq.work_current /\ wq'.value = wq.value
           /\ wq'.armed = wq.armed /\ wq'.submitting = wq.submitting
           /\ wq.attached \subseteq wq'.attached
<1> DEFINE q == Unlink(wq, w)
<1>1. HasLists(q, WL \ {w}, DL \ {w}) /\ SameButLists(q, wq)
  BY UnlinkProps
<1>2. wq' = IF wq.work_current # w
            THEN [q EXCEPT !.work_list = Append(@, w), !.attached = @ \cup {w}]
            ELSE q
  BY DEF SubmitNow
<1> HIDE DEF q
<1>3. CASE wq.work_current = w
  BY <1>1, <1>2, <1>3 DEF SameButLists
<1>4. CASE wq.work_current # w
  <2> DEFINE x == Append(q.work_list, w)
             y == q.attached \cup {w}
  <2>1. q \in Queue /\ q.work_list \in Seq(Work) /\ w \notin Range(q.work_list)
      /\ IsInjective(q.work_list)
        /\ q.attached \subseteq Work /\ Range(q.work_list) = WL \ {w}
    BY <1>1 DEF HasLists, Queue
  <2>2. x \in Seq(Work) /\ IsInjective(x) /\ Range(x) = WL \cup {w} /\ y \subseteq Work
    BY <2>1, LinkProps
  <2>3. wq' = [q EXCEPT !.work_list = x, !.attached = y] /\ q.attached \subseteq y
    BY <1>2, <1>4
  <2> HIDE DEF x, y
  <2> QED BY <1>1, <1>4, <2>1, <2>2, <2>3 DEF HasLists, SameButLists, Queue
<1> QED BY <1>3, <1>4

\* rt_workqueue_urgent_work puts the work in front
LEMMA UrgentQueue ==
    ASSUME HasLists(wq, WL, DL), NEW w \in Work,
           wq' = [Unlink(wq, w) EXCEPT !.work_list = <<w>> \o @]
    PROVE  HasLists(wq', WL \cup {w}, DL \ {w}) /\ SameButLists(wq', wq)
<1> DEFINE q == Unlink(wq, w)
           x == <<w>> \o q.work_list
<1>1. HasLists(q, WL \ {w}, DL \ {w}) /\ SameButLists(q, wq)
  BY UnlinkProps
<1>2. wq' = [q EXCEPT !.work_list = x]
  OBVIOUS
<1> HIDE DEF q
<1>3. q \in Queue /\ q.work_list \in Seq(Work) /\ w \notin Range(q.work_list)
      /\ IsInjective(q.work_list)
      /\ Range(q.work_list) = WL \ {w}
  BY <1>1 DEF HasLists, Queue
<1>4. x \in Seq(Work) /\ IsInjective(x) /\ Range(x) = WL \cup {w}
  BY <1>3, LinkProps
<1> HIDE DEF x
<1> QED BY <1>1, <1>2, <1>3, <1>4 DEF HasLists, SameButLists, Queue

\* a delayed submission
LEMMA SubmitQueue ==
    ASSUME HasLists(wq, WL, DL), NEW w \in Work,
           wq' = [Unlink(wq, w) EXCEPT !.delayed_list = Append(@, w),
                                       !.attached = @ \cup {w},
                                       !.submitting = @ \cup {w}, !.armed = @ \ {w}]
    PROVE  /\ HasLists(wq', WL \ {w}, DL \cup {w})
           /\ wq'.work_current = wq.work_current /\ wq'.value = wq.value
           /\ wq'.submitting = wq.submitting \cup {w} /\ wq'.armed = wq.armed \ {w}
           /\ wq'.attached = wq.attached \cup {w}
<1> DEFINE q == Unlink(wq, w)
           x == Append(q.delayed_list, w)
           at == q.attached \cup {w}
           su == q.submitting \cup {w}
           ar == q.armed \ {w}
<1>1. HasLists(q, WL \ {w}, DL \ {w}) /\ SameButLists(q, wq)
  BY UnlinkProps
<1>2. wq' = [q EXCEPT !.delayed_list = x, !.attached = at, !.submitting = su, !.armed = ar]
  OBVIOUS
<1> HIDE DEF q
<1>3. /\ q \in Queue /\ q.delayed_list \in Seq(Work) /\ w \notin Range(q.delayed_list)
      /\ IsInjective(q.delayed_list)
      /\ Range(q.delayed_list) = DL \ {w}
      /\ at \subseteq Work /\ su \subseteq Work /\ ar \subseteq Work
  BY <1>1 DEF HasLists, Queue
<1>4. x \in Seq(Work) /\ IsInjective(x) /\ Range(x) = DL \cup {w}
  BY <1>3, LinkProps
<1>5. at = wq.attached \cup {w} /\ su = wq.submitting \cup {w} /\ ar = wq.armed \ {w}
  BY <1>1 DEF SameButLists
<1> DEFINE p == [q EXCEPT !.delayed_list = x, !.attached = at]
<1> HIDE DEF x, at, su, ar
<1>6. /\ HasLists(p, WL \ {w}, DL \cup {w})
      /\ p.work_current = wq.work_current /\ p.value = wq.value /\ p.attached = at
  BY <1>1, <1>3, <1>4 DEF HasLists, SameButLists, Queue
<1>7. wq' = [p EXCEPT !.submitting = su, !.armed = ar]
  BY <1>2
<1> HIDE DEF p
<1>8. p \in Queue /\ su \subseteq Work /\ ar \subseteq Work
  BY <1>3, <1>6 DEF HasLists
<1>9. /\ wq' \in Queue /\ wq'.submitting = su /\ wq'.armed = ar
      /\ wq'.work_list = p.work_list /\ wq'.delayed_list = p.delayed_list
      /\ wq'.work_current = p.work_current /\ wq'.value = p.value
      /\ wq'.attached = p.attached
  BY <1>7, <1>8 DEF Queue
<1>10. HasLists(wq', WL \ {w}, DL \cup {w})
  BY <1>6, <1>9 DEF HasLists
<1> QED BY <1>5, <1>6, <1>9, <1>10

\* _workqueue_cancel_work
LEMMA CancelQueue ==
    ASSUME HasLists(wq, WL, DL), NEW w \in Work, CancelSection(w)
    PROVE  /\ HasLists(wq', WL \ {w}, DL \ {w})
           /\ wq'.work_current = wq.work_current /\ wq'.value = wq.value
           /\ wq'.submitting = wq.submitting \ {w} /\ wq'.attached = wq.attached \ {w}
           /\ wq'.armed = IF w \in wq.submitting THEN wq.armed \ {w} ELSE wq.armed
<1> DEFINE q == Unlink(wq, w)
           at == q.attached \ {w}
           su == q.submitting \ {w}
           ar == IF w \in wq.submitting THEN q.armed \ {w} ELSE q.armed
<1>1. HasLists(q, WL \ {w}, DL \ {w}) /\ SameButLists(q, wq)
  BY UnlinkProps
<1>2. wq' = [q EXCEPT !.attached = at, !.submitting = su, !.armed = ar]
  BY DEF CancelSection
<1> HIDE DEF q
<1>3. q \in Queue /\ at \subseteq Work /\ su \subseteq Work /\ ar \subseteq Work
  BY <1>1 DEF HasLists, Queue
<1>4. /\ at = wq.attached \ {w} /\ su = wq.submitting \ {w}
      /\ ar = IF w \in wq.submitting THEN wq.armed \ {w} ELSE wq.armed
  BY <1>1 DEF SameButLists
<1> HIDE DEF at, su, ar
<1> QED BY <1>1, <1>2, <1>3, <1>4 DEF HasLists, SameButLists, Queue

\* _delayed_work_timeout_handler
LEMMA TimeoutQueue ==
    ASSUME HasLists(wq, WL, DL), NEW w \in Work, delayed_work_timeout(w)
    PROVE  /\ HasLists(wq', IF wq.work_current # w THEN WL \cup {w} ELSE WL \ {w}, DL \ {w})
           /\ wq'.work_current = wq.work_current /\ wq'.value = wq.value
           /\ wq'.submitting = wq.submitting \ {w} /\ wq'.armed = wq.armed \ {w}
           /\ wq'.attached = wq.attached
<1> DEFINE q == Unlink(wq, w)
           su == q.submitting \ {w}
           ar == q.armed \ {w}
           p == [q EXCEPT !.armed = ar, !.submitting = su]
<1>1. HasLists(q, WL \ {w}, DL \ {w}) /\ SameButLists(q, wq)
  BY UnlinkProps
<1>2. wq' = IF wq.work_current # w THEN [p EXCEPT !.work_list = Append(@, w)] ELSE p
  BY DEF delayed_work_timeout
<1> HIDE DEF q
<1>3. q \in Queue /\ su \subseteq Work /\ ar \subseteq Work
  BY <1>1 DEF HasLists, Queue
<1>4. su = wq.submitting \ {w} /\ ar = wq.armed \ {w}
  BY <1>1 DEF SameButLists
<1> HIDE DEF su, ar
<1>5. /\ HasLists(p, WL \ {w}, DL \ {w})
      /\ p.work_current = wq.work_current /\ p.value = wq.value
      /\ p.submitting = su /\ p.armed = ar /\ p.attached = wq.attached
  BY <1>1, <1>3 DEF HasLists, SameButLists, Queue
<1> HIDE DEF p
<1>6. CASE wq.work_current = w
  BY <1>2, <1>4, <1>5, <1>6
<1>7. CASE wq.work_current # w
  <2> DEFINE x == Append(p.work_list, w)
  <2>1. p \in Queue /\ p.work_list \in Seq(Work) /\ w \notin Range(p.work_list)
        /\ IsInjective(p.work_list)
        /\ Range(p.work_list) = WL \ {w}
    BY <1>5 DEF HasLists, Queue
  <2>2. x \in Seq(Work) /\ IsInjective(x) /\ Range(x) = WL \cup {w}
    BY <2>1, LinkProps
  <2>3. wq' = [p EXCEPT !.work_list = x]
    BY <1>2, <1>7
  <2> HIDE DEF x
  <2> QED BY <1>4, <1>5, <1>7, <2>1, <2>2, <2>3 DEF HasLists, Queue
<1> QED BY <1>6, <1>7

\* the worker takes the first work
LEMMA StartQueue ==
    ASSUME HasLists(wq, WL, DL), WorkerStarts
    PROVE  /\ Head(wq.work_list) \in Work
           /\ HasLists(wq', WL \ {Head(wq.work_list)}, DL)
           /\ wq'.work_current = Head(wq.work_list) /\ wq'.value = wq.value
           /\ wq'.submitting = wq.submitting /\ wq'.armed = wq.armed
           /\ wq'.attached = wq.attached \ {Head(wq.work_list)}
           /\ owed' = owed \ {Head(wq.work_list)}
           /\ again' = again \ {Head(wq.work_list)}
<1> DEFINE w == Head(wq.work_list)
           x == Tail(wq.work_list)
           at == wq.attached \ {w}
<1>1. /\ wq' = [wq EXCEPT !.work_list = x, !.work_current = w, !.attached = at]
      /\ owed' = owed \ {w} /\ again' = again \ {w} /\ wq.work_list # <<>>
  BY DEF WorkerStarts, Disown
<1>2. wq \in Queue /\ wq.work_list \in Seq(Work) /\ IsInjective(wq.work_list) /\ at \subseteq Work
  BY DEF HasLists, Queue
<1>3. w \in Work /\ x \in Seq(Work) /\ IsInjective(x) /\ Range(x) = WL \ {w}
  BY <1>1, <1>2, UnlinkHeadProps DEF WL
<1>4. at = wq.attached \ {w}
  OBVIOUS
<1> HIDE DEF w, x, at
<1>5. /\ HasLists(wq', WL \ {w}, DL)
      /\ wq'.work_current = w /\ wq'.value = wq.value
      /\ wq'.submitting = wq.submitting /\ wq'.armed = wq.armed /\ wq'.attached = at
  BY <1>1, <1>2, <1>3 DEF HasLists, Queue
<1> QED BY <1>1, <1>3, <1>4, <1>5 DEF w

\* the fields that the worker and a timer start set alone
LEMMA FieldQueue ==
    ASSUME HasLists(wq, WL, DL)
    PROVE  /\ wq' = [wq EXCEPT !.work_current = None] =>
                 HasLists(wq', WL, DL) /\ wq'.work_current = None /\ wq'.value = wq.value
                 /\ wq'.armed = wq.armed /\ wq'.submitting = wq.submitting
                 /\ wq'.attached = wq.attached /\ wq'.work_list = wq.work_list
           /\ \A n \in Nat : wq' = [wq EXCEPT !.value = n] =>
                 HasLists(wq', WL, DL) /\ wq'.work_current = wq.work_current /\ wq'.value = n
                 /\ wq'.armed = wq.armed /\ wq'.submitting = wq.submitting
                 /\ wq'.attached = wq.attached /\ wq'.work_list = wq.work_list
           /\ \A w \in Work : wq' = [wq EXCEPT !.armed = @ \cup {w}] =>
                 HasLists(wq', WL, DL) /\ wq'.work_current = wq.work_current
                 /\ wq'.value = wq.value /\ wq'.armed = wq.armed \cup {w}
                 /\ wq'.submitting = wq.submitting
                 /\ wq'.attached = wq.attached /\ wq'.work_list = wq.work_list
  BY DEF HasLists, Queue

-----------------------------------------------------------------------------
(* The conditions under which a step keeps the invariant. *)

\* the timer of w is about to be started
Arming(w) == \E t \in Thread : pc[t] = "arm" /\ arg[t] = w

\* a step of a thread that starts no timer leaves those that are about to
LEMMA ArmingKept ==
    ASSUME Types, NEW t \in Thread, pc[t] # "arm", NEW l, pc' = [pc EXCEPT ![t] = l],
           NEW x, arg' = [arg EXCEPT ![t] = x], NEW w, Arming(w)
    PROVE  Arming(w)'
<1>1. PICK u \in Thread : pc[u] = "arm" /\ arg[u] = w
  BY DEF Arming
<1>2. u # t /\ pc'[u] = "arm" /\ arg'[u] = w
  BY <1>1 DEF Types
<1> QED BY <1>2 DEF Arming

\* a work that stays owed is submitted now or stays where it was
LEMMA AcceptedKept ==
    ASSUME AcceptedWorkKept, NEW a, NEW d, HasLists(wq', a, d),
           \A w \in owed' :
               \/ w \in a
               \/ /\ w \in owed /\ (w \in WL => w \in a) /\ (w \in DL => w \in d)
                  /\ w \in wq.armed => w \in wq'.armed
                  /\ Arming(w) => Arming(w)'
    PROVE  AcceptedWorkKept'
<1> USE DEF Held
<1> SUFFICES ASSUME NEW w \in owed', w \notin a
             PROVE  w \in d /\ (w \in wq'.armed \/ Arming(w)')
  BY DEF AcceptedWorkKept, HasLists, Arming
<1>1. w \in owed /\ w \notin WL /\ (w \in DL => w \in d)
      /\ (w \in wq.armed => w \in wq'.armed) /\ (Arming(w) => Arming(w)')
  OBVIOUS
<1>2. w \in DL /\ (w \in wq.armed \/ Arming(w))
  BY <1>1 DEF AcceptedWorkKept, Held, WL, DL, Arming
<1> QED BY <1>1, <1>2

\* a step that neither accepts a work nor starts one
LEMMA HistoryKept ==
    ASSUME History, None \notin Work, owed' \subseteq owed, again' \subseteq again,
           wq'.work_current \in {wq.work_current, None}
    PROVE  History'
BY DEF History

\* the history of an accepted submission
LEMMA AcceptHistory ==
    ASSUME History, NEW w \in Work, Accept(w), wq'.work_current = wq.work_current
    PROVE  History' /\ owed' \subseteq owed \cup {w}
BY DEF History, Accept

\* the parts of the invariant, for use
LEMMA WorkInvParts ==
    ASSUME WorkInv
    PROVE  /\ CpuInv /\ KInv(k) /\ k \in KernelState /\ k.lock \in Nat
           /\ \A u \in Thread : k.stat[u] # "CLOSE"
           /\ isr \in Seq(Frame) /\ HasLists(wq, WL, DL)
           /\ pc \in [Thread -> WorkPc] /\ arg \in [Thread -> Work \cup {None}]
           /\ History /\ wq \in Queue /\ None \notin Work
           /\ Worker \in Thread /\ Worker # Idle /\ sem \in Obj
<1>1. CpuInv /\ KInv(k) /\ k \in KernelState /\ isr \in Seq(Frame)
      /\ \A u \in Thread : k.stat[u] # "CLOSE"
  BY DEF WorkInv, CpuInv, KInv, WellFormed
<1>2. k.lock \in Nat
  BY <1>1 DEF KernelState
<1>3. HasLists(wq, WL, DL) /\ wq \in Queue
  BY DEF WorkInv, Types, Lists, HasLists, WL, DL
<1> QED BY <1>1, <1>2, <1>3, WorkAssumption DEF WorkInv, Types, Work

\* a step of a thread other than a turn of the completion: what it must respect
LEMMA ThreadStepInv ==
    ASSUME WorkInv, NEW t \in Thread, Running(t), pc[t] # "complete",
           NEW l \in WorkPc, pc' = [pc EXCEPT ![t] = l], t = Idle => l = "run",
           NEW x \in Work \cup {None}, arg' = [arg EXCEPT ![t] = x], l \in ArgPc => x \in Work,
           CpuInv', BlocksOnly(k', k, t), l \in LockPc => k'.lock > 0 /\ k'.exec = t,
           NEW a, NEW d, HasLists(wq', a, d), wq'.value = wq.value,
           l \in WorkerPc => t = Worker,
           t = Worker => (l \in WorkerPc <=> wq'.work_current = None),
           t # Worker => wq'.work_current = wq.work_current,
           t = Worker /\ l \in WorkerPc => Parked',
           t # Worker /\ WorkerIdles /\ k'.stat[Worker] = "SUSPEND" => a \subseteq WL,
           History', AcceptedWorkKept'
    PROVE  WorkInv'
<1>1. /\ pc \in [Thread -> WorkPc] /\ arg \in [Thread -> Work \cup {None}]
      /\ Worker \in Thread /\ Worker # Idle /\ k.exec = t /\ CpuInv
      /\ Points /\ LockHolder /\ Parked /\ Token /\ HasLists(wq, WL, DL)
  BY WorkInvParts DEF WorkInv, Running
<1>2. /\ pc'[t] = l /\ arg'[t] = x
      /\ \A u \in Thread \ {t} : pc'[u] = pc[u] /\ arg'[u] = arg[u] /\ pc[u] \notin LockPc
  BY <1>1 DEF LockHolder
<1>3. Types' /\ Lists'
  BY <1>1 DEF Types, Lists, HasLists
<1>4. Points'
  BY <1>1, <1>2 DEF Points
<1>5. LockHolder'
  BY <1>1, <1>2 DEF LockHolder
<1>6. Token'
  <2>1. ~(wq.value > 0)
    BY <1>1, <1>2 DEF Token, LockPc
  <2> QED BY <2>1 DEF Token
<1>7. Parked'
  <2>1. CASE t = Worker
    <3>1. CASE l \in WorkerPc
      BY <2>1, <3>1
    <3>2. CASE l \notin WorkerPc
      BY <1>2, <2>1, <3>2 DEF Parked, WorkerPc
    <3> QED BY <3>1, <3>2
  <2>2. CASE t # Worker /\ k'.stat[Worker] = "SUSPEND"
    <3>1. k.stat[Worker] = "SUSPEND"
      BY <1>1, <2>2 DEF BlocksOnly, Kept, Awake
    <3>2. pc'[Worker] = pc[Worker] /\ ~RunsLocked /\ pc[Worker] # "complete"
      BY <1>1, <1>2, <2>2 DEF RunsLocked, LockPc
    <3>3. pc[Worker] \notin {"ack", "exit"}
      BY <1>1, <3>1, <3>2 DEF Parked
    <3>4. ASSUME pc[Worker] \in {"loop", "idle"} PROVE wq'.work_list = <<>>
      <4>1. wq.work_list = <<>> /\ wq.work_current = None
        BY <1>1, <3>1, <3>2, <3>4 DEF Parked, Points, WorkerPc
      <4>2. a \subseteq WL
        BY <2>2, <3>1, <4>1 DEF WorkerIdles
      <4>3. WL = {} /\ wq'.work_list \in Seq(Work) /\ Range(wq'.work_list) = a
        BY <4>1 DEF WL, Range, HasLists, Queue
      <4> QED BY <4>2, <4>3, RangeProps
    <3> QED BY <3>2, <3>3, <3>4 DEF Parked
  <2> QED BY <2>1, <2>2 DEF Parked
<1> QED BY <1>3, <1>4, <1>5, <1>6, <1>7 DEF WorkInv

\* a step of a handler or of PendSV
LEMMA HandlerStepInv ==
    ASSUME WorkInv, pc' = pc, arg' = arg, CpuInv', BlocksNone(k', k),
           k'.lock = k.lock, StaysLocked(k', k),
           NEW a, NEW d, HasLists(wq', a, d),
           wq'.value = wq.value, wq'.work_current = wq.work_current,
           WorkerIdles /\ k'.stat[Worker] = "SUSPEND" => a \subseteq WL,
           History', AcceptedWorkKept'
    PROVE  WorkInv'
<1>1. /\ pc \in [Thread -> WorkPc] /\ arg \in [Thread -> Work \cup {None}]
      /\ Worker \in Thread /\ Worker # Idle /\ CpuInv /\ sem \in Obj
      /\ Points /\ LockHolder /\ Parked /\ Token /\ HasLists(wq, WL, DL)
  BY WorkInvParts DEF WorkInv
<1>2. Types' /\ Lists'
  BY <1>1 DEF Types, Lists, HasLists
<1>3. Points'
  BY <1>1 DEF Points
<1>4. LockHolder'
  BY <1>1 DEF LockHolder, StaysLocked, SameCpu
<1>5. Token'
  <2>1. NoNewWaiter(k', k)
    BY BlocksNoneIsNoNewWaiter
  <2> QED BY <1>1, <2>1 DEF Token, NoNewWaiter, InWait
<1>6. Parked'
  <2>1. CASE k'.stat[Worker] = "SUSPEND"
    <3>1. k.stat[Worker] = "SUSPEND"
      BY <1>1, <2>1 DEF BlocksNone, Kept, Awake
    <3>2. RunsLocked => RunsLocked'
      BY DEF RunsLocked, StaysLocked, SameCpu
    <3>3. ASSUME pc[Worker] \in {"loop", "idle"}, wq.work_list = <<>>
          PROVE  wq'.work_list = <<>>
      <4>1. wq.work_current = None
        BY <1>1, <3>3 DEF Points, WorkerPc
      <4>2. a \subseteq WL
        BY <2>1, <3>1, <4>1 DEF WorkerIdles
      <4>3. WL = {} /\ wq'.work_list \in Seq(Work) /\ Range(wq'.work_list) = a
        BY <3>3 DEF WL, Range, HasLists, Queue
      <4> QED BY <4>2, <4>3, RangeProps
    <3> QED BY <1>1, <3>1, <3>2, <3>3 DEF Parked
  <2> QED BY <2>1 DEF Parked
<1> QED BY <1>2, <1>3, <1>4, <1>5, <1>6 DEF WorkInv

-----------------------------------------------------------------------------
(* The steps. *)

\* handlers and PendSV
LEMMA CpuStepWork ==
    ASSUME WorkInv, CpuStep({}), UNCHANGED <<wq, arg, owed, again>>
    PROVE  WorkInv'
<1>1. /\ CpuInv' /\ BlocksNone(k', k) /\ pc' = pc
      /\ k'.lock = k.lock /\ StaysLocked(k', k)
  BY CpuStepInv DEF WorkInv
<1>2. HasLists(wq', WL, DL) /\ History'
  BY WorkInvParts DEF History
<1>3. AcceptedWorkKept'
  BY <1>1 DEF WorkInv, AcceptedWorkKept, Held
<1> QED BY <1>1, <1>2, <1>3, HandlerStepInv

\* the resume of the idle worker
LEMMA KickProps ==
    ASSUME WorkInv, NEW q, q = Kick
    PROVE  /\ KInv(q) /\ \A u \in Thread : q.stat[u] # "CLOSE"
           /\ q.lock = k.lock /\ SameCpu(q, k)
           /\ q.stat[q.cur] = "SUSPEND" => k.stat[k.cur] = "SUSPEND"
           /\ BlocksNone(q, k)
           /\ WorkerIdles => q.stat[Worker] # "SUSPEND"
<1>1. /\ KInv(k) /\ Worker \in Thread
      /\ \A u \in Thread : k.stat[u] # "CLOSE"
  BY WorkInvParts
<1>2. CASE WorkerIdles
  <2>1. Woken(q, k, Worker)
    BY <1>1, <1>2, ResumeProps DEF Kick, WorkerIdles
  <2>2. q.stat[Worker] # "SUSPEND"
    BY <1>1, <2>1 DEF Woken
  <2> QED BY <1>1, <2>1, <2>2, WokenStep
<1>3. CASE ~WorkerIdles
  BY <1>1, <1>3 DEF Kick, SameCpu, BlocksNone, Kept
<1> QED BY <1>2, <1>3

\* a submission without delay owes its work, or is refused: the work that it unlinks
\* then is executing, and not owed
LEMMA SubmitNowAccepted ==
    ASSUME WorkInv, NEW w \in Work, SubmitNow(w), \A v : Arming(v) => Arming(v)'
    PROVE  AcceptedWorkKept' /\ History'
<1>1. HasLists(wq, WL, DL) /\ History /\ AcceptedWorkKept
  BY WorkInvParts DEF WorkInv
<1>2. /\ HasLists(wq', IF wq.work_current # w THEN WL \cup {w} ELSE WL \ {w}, DL \ {w})
      /\ wq'.armed = wq.armed /\ wq'.work_current = wq.work_current
  BY <1>1, SubmitNowQueue
<1>3. CASE wq.work_current # w
  <2>1. Accept(w)
    BY <1>3 DEF SubmitNow
  <2>2. History' /\ owed' \subseteq owed \cup {w}
    BY <1>1, <1>2, <2>1, AcceptHistory
  <2> QED BY <1>1, <1>2, <1>3, <2>2, AcceptedKept
<1>4. CASE wq.work_current = w
  <2>1. owed' = owed /\ again' = again
    BY <1>4 DEF SubmitNow
  <2>2. History' /\ w \notin owed
    BY <1>1, <1>2, <1>4, <2>1 DEF History
  <2> QED BY <1>1, <1>2, <1>4, <2>1, <2>2, AcceptedKept
<1> QED BY <1>3, <1>4

\* rt_workqueue_dowork in the device handler
LEMMA DevDoworkInv ==
    ASSUME WorkInv, NEW w \in Work, DevDowork(w)
    PROVE  WorkInv'
<1>1. /\ SubmitNow(w) /\ k' = Kick /\ pc' = pc /\ arg' = arg
  BY DEF DevDowork, SubmitNow
<1>2. /\ HasLists(wq', IF wq.work_current # w THEN WL \cup {w} ELSE WL \ {w}, DL \ {w})
      /\ wq'.work_current = wq.work_current /\ wq'.value = wq.value
  BY <1>1, WorkInvParts, SubmitNowQueue
<1>3. AcceptedWorkKept' /\ History'
  BY <1>1, SubmitNowAccepted DEF Arming
<1>4. /\ KInv(k') /\ \A u \in Thread : k'.stat[u] # "CLOSE"
      /\ k'.lock = k.lock /\ SameCpu(k', k)
      /\ k'.stat[k'.cur] = "SUSPEND" => k.stat[k.cur] = "SUSPEND"
      /\ BlocksNone(k', k) /\ (WorkerIdles => k'.stat[Worker] # "SUSPEND")
  BY <1>1, KickProps
<1>5. isr' \in Seq(Frame)
  <2>1. isr \in Seq(Frame) /\ isr # <<>>
    BY WorkInvParts DEF DevDowork, InHandler
  <2> QED BY <2>1, FrameProps DEF DevDowork, GotoFrame
<1>6. CpuInv' /\ StaysLocked(k', k)
  BY <1>1, <1>4, <1>5 DEF WorkInv, CpuInv, SameCpu, StaysLocked
<1> DEFINE a == IF wq.work_current # w THEN WL \cup {w} ELSE WL \ {w}
<1>7. WorkerIdles /\ k'.stat[Worker] = "SUSPEND" => a \subseteq WL
  BY <1>4
<1>8. HasLists(wq', a, DL \ {w})
  BY <1>2
<1> HIDE DEF a
<1> QED BY <1>1, <1>2, <1>3, <1>4, <1>6, <1>7, <1>8, HandlerStepInv

\* the timer of a delayed work
LEMMA TimeoutInv ==
    ASSUME WorkInv, NEW w \in Work, delayed_work_timeout(w)
    PROVE  WorkInv'
<1> DEFINE a == IF wq.work_current # w THEN WL \cup {w} ELSE WL \ {w}
<1>1. /\ pc' = pc /\ arg' = arg
      /\ owed' = owed /\ again' = again
      /\ k' = IF WorkerIdles THEN rt_schedule(Kick) ELSE k
  BY DEF delayed_work_timeout
<1>2. /\ HasLists(wq, WL, DL) /\ History /\ AcceptedWorkKept /\ KInv(k)
      /\ \A u \in Thread : k.stat[u] # "CLOSE"
  BY WorkInvParts DEF WorkInv
<1>3. /\ HasLists(wq', a, DL \ {w}) /\ wq'.armed = wq.armed \ {w}
      /\ wq'.work_current = wq.work_current /\ wq'.value = wq.value
  BY <1>2, TimeoutQueue
<1>4. History' /\ wq.work_current \notin owed
  BY <1>1, <1>2, <1>3 DEF History
<1>5. AcceptedWorkKept'
  <2>1. \A v : Arming(v) => Arming(v)'
    BY <1>1 DEF Arming
  <2>2. CASE wq.work_current # w
    BY <1>1, <1>2, <1>3, <2>1, <2>2, AcceptedKept
  <2>3. CASE wq.work_current = w
    BY <1>1, <1>2, <1>3, <1>4, <2>1, <2>3, AcceptedKept
  <2> QED BY <2>2, <2>3
<1>6. isr' \in Seq(Frame)
  <2>1. isr \in Seq(Frame) /\ isr # <<>>
    BY WorkInvParts DEF delayed_work_timeout, InHandler
  <2> QED BY <2>1, FrameProps DEF delayed_work_timeout, GotoFrame
<1>7. /\ KInv(k') /\ \A u \in Thread : k'.stat[u] # "CLOSE"
      /\ k'.lock = k.lock /\ StaysLocked(k', k)
      /\ k.lock = 0 /\ k'.stat[k'.cur] = "SUSPEND" => k'.cur = k.cur /\ k.stat[k.cur] = "SUSPEND"
      /\ BlocksNone(k', k) /\ (WorkerIdles => k'.stat[Worker] # "SUSPEND")
  <2>1. CASE WorkerIdles
    <3> DEFINE q == Kick
    <3>1. /\ KInv(q) /\ \A u \in Thread : q.stat[u] # "CLOSE"
          /\ q.lock = k.lock /\ SameCpu(q, k) /\ BlocksNone(q, k)
          /\ q.stat[Worker] # "SUSPEND"
      BY <2>1, KickProps
    <3>2. k' = rt_schedule(q)
      BY <1>1, <2>1
    <3> HIDE DEF q
    <3>3. /\ KInv(k') /\ \A u \in Thread : k'.stat[u] # "CLOSE"
          /\ k'.lock = q.lock /\ StaysLocked(k', q) /\ BlocksNone(k', q)
          /\ q.lock = 0 => k'.stat[k'.cur] = "RUNNING"
      BY <3>1, <3>2, ScheduledStep
    <3>4. BlocksNone(k', k) /\ StaysLocked(k', k)
      BY <3>1, <3>3 DEF BlocksNone, Kept, Awake, StaysLocked, SameCpu
    <3>5. k'.stat[Worker] # "SUSPEND"
      BY <3>1, <3>3, WorkAssumption DEF BlocksNone, Kept, Awake
    <3> QED BY <3>1, <3>3, <3>4, <3>5
  <2>2. CASE ~WorkerIdles
    BY <1>1, <1>2, <2>2 DEF BlocksNone, Kept, StaysLocked, SameCpu
  <2> QED BY <2>1, <2>2
<1>8. CpuInv'
  <2>1. k.lock > 0 => k'.sw = None
    BY <1>7 DEF WorkInv, CpuInv, StaysLocked, SameCpu
  <2> QED BY <1>1, <1>6, <1>7, <2>1 DEF WorkInv, CpuInv
<1>9. WorkerIdles /\ k'.stat[Worker] = "SUSPEND" => a \subseteq WL
  BY <1>7
<1> HIDE DEF a
<1> QED BY <1>1, <1>3, <1>4, <1>5, <1>7, <1>8, <1>9, HandlerStepInv

\* a step inside a service or of a caller: the worker is in none of its own points
LEMMA ServiceStepInv ==
    ASSUME WorkInv, NEW t \in Thread, Running(t), t # Idle, pc[t] \notin WorkerPc,
           NEW l \in WorkPc, l \notin WorkerPc, pc' = [pc EXCEPT ![t] = l],
           NEW x \in Work \cup {None}, arg' = [arg EXCEPT ![t] = x], l \in ArgPc => x \in Work,
           CpuInv', BlocksOnly(k', k, t), l \in LockPc => k'.lock > 0 /\ k'.exec = t,
           NEW a, NEW d, HasLists(wq', a, d),
           wq'.value = wq.value, wq'.work_current = wq.work_current,
           WorkerIdles /\ k'.stat[Worker] = "SUSPEND" => a \subseteq WL,
           History', AcceptedWorkKept'
    PROVE  WorkInv'
<1>1. pc[t] # "complete"
  BY DEF WorkerPc
<1>2. t = Worker => (l \in WorkerPc <=> wq'.work_current = None)
  BY DEF WorkInv, Points
<1> QED BY <1>1, <1>2, ThreadStepInv

\* and that leaves the queue alone
LEMMA KernelStepInv ==
    ASSUME WorkInv, NEW t \in Thread, Running(t), t # Idle, pc[t] \notin WorkerPc \cup {"arm"},
           NEW l \in WorkPc, l \notin WorkerPc, pc' = [pc EXCEPT ![t] = l],
           NEW x \in Work \cup {None}, arg' = [arg EXCEPT ![t] = x], l \in ArgPc => x \in Work,
           CpuInv', BlocksOnly(k', k, t), l \in LockPc => k'.lock > 0 /\ k'.exec = t,
           wq' = wq, owed' = owed, again' = again
    PROVE  WorkInv'
<1>1. HasLists(wq, WL, DL) /\ HasLists(wq', WL, DL) /\ History'
      /\ Types /\ AcceptedWorkKept
  BY WorkInvParts DEF WorkInv, History
<1>2. \A w : Arming(w) => Arming(w)'
  BY <1>1, ArmingKept
<1>3. AcceptedWorkKept'
  BY <1>1, <1>2, AcceptedKept
<1>4. wq'.value = wq.value /\ wq'.work_current = wq.work_current
  OBVIOUS
<1> QED BY <1>1, <1>3, <1>4, ServiceStepInv

\* the services of the kernel
LEMMA CpuServiceWork ==
    ASSUME WorkInv, NEW t \in Thread, Running(t),
           CpuCall(t) \/ CpuFinish(t) \/ ThreadSchedule(t, "take", "took"),
           UNCHANGED <<wq, arg, owed, again>>
    PROVE  WorkInv'
<1>1. CpuInv /\ pc \in [Thread -> WorkPc] /\ arg \in [Thread -> Work \cup {None}] /\ Points
  BY WorkInvParts DEF WorkInv
<1>2. PICK l \in CpuPc \cup {"took"} : pc' = [pc EXCEPT ![t] = l]
  <2>1. CASE CpuCall(t)
    BY <1>1, <2>1, CpuCallInv
  <2>2. CASE CpuFinish(t)
    BY <1>1, <2>2, CpuFinishInv
  <2>3. CASE ThreadSchedule(t, "take", "took")
    BY <2>3 DEF ThreadSchedule, Goto
  <2> QED BY <2>1, <2>2, <2>3
<1>3. CpuInv' /\ BlocksOnly(k', k, t)
  BY <1>1, CpuCallInv, CpuFinishInv, ThreadScheduleInv, BlocksNoneIsNoNewWaiter
<1>4. /\ pc[t] \in CpuPc \cup {"take"}
      /\ pc[t] = "run" => App[t] # {}
  BY DEF CpuCall, Startup, rt_enter_critical, rt_exit_critical, rt_thread_yield, rt_thread_sleep,
         CpuFinish, ThreadSchedule, SleepReturn, Calls, At, CpuPc
<1>5. t # Idle /\ pc[t] \notin WorkerPc \cup {"arm"}
  BY <1>1, <1>4, AppAssumption DEF Points, CpuPc, WorkerPc
<1>6. l \in WorkPc /\ l \notin WorkerPc /\ l \notin ArgPc /\ l \notin LockPc
  BY DEF WorkPc, CpuPc, WorkerPc, ArgPc, LockPc
<1>7. arg' = [arg EXCEPT ![t] = arg[t]] /\ arg[t] \in Work \cup {None}
  BY <1>1
<1>8. wq' = wq /\ owed' = owed /\ again' = again
  OBVIOUS
<1> HIDE DEF CpuCall, CpuFinish
<1> QED BY <1>2, <1>3, <1>5, <1>6, <1>7, <1>8, KernelStepInv

\* the steps of a service that leave kernel and queue alone: a synchronous cancel that
\* begins or returns, and the tests of rt_workqueue_cancel_all_work
LEMMA QuietWork ==
    ASSUME WorkInv, NEW t \in Thread,
           \/ \E w \in Work : rt_workqueue_cancel_work_sync(t, w)
           \/ SyncReturns(t)
           \/ AllTest(t, "all", wq.work_list, "first", "late")
           \/ AllFirst(t, "first", wq.work_list, "pick")
           \/ AllTest(t, "late", wq.delayed_list, "latefirst", "sched") /\ wq.delayed_list # <<>>
           \/ AllFirst(t, "latefirst", wq.delayed_list, "latepick")
    PROVE  WorkInv'
<1>1. /\ CpuInv /\ pc \in [Thread -> WorkPc] /\ Points /\ LockHolder
      /\ wq.work_list \in Seq(Work) /\ wq.delayed_list \in Seq(Work)
  BY WorkInvParts DEF WorkInv, Queue
<1> DEFINE Still == /\ Running(t) /\ k' = k /\ isr' = isr /\ wq' = wq
                    /\ owed' = owed /\ again' = again
<1>2. PICK l, x : /\ Still
                  /\ pc' = [pc EXCEPT ![t] = l] /\ arg' = [arg EXCEPT ![t] = x]
                  /\ x \in Work \cup {None}
                  /\ \/ /\ pc[t] = "run" /\ App[t] # {} /\ l \in {"wait", "cancel"} /\ x \in Work
                     \/ pc[t] = "took" /\ l = "run"
                     \/ pc[t] = "all" /\ l \in {"first", "late"}
                     \/ pc[t] = "first" /\ l = "pick" /\ x \in Work
                     \/ pc[t] = "late" /\ l = "latefirst"
                     \/ pc[t] = "latefirst" /\ l = "latepick" /\ x \in Work
  <2>1. ASSUME NEW s \in Seq(Work), s # <<>> PROVE Head(s) \in Work
    BY <2>1
  <2>2. ASSUME NEW w \in Work, rt_workqueue_cancel_work_sync(t, w)
        PROVE  /\ Still /\ arg' = [arg EXCEPT ![t] = w] /\ pc[t] = "run" /\ App[t] # {}
               /\ \/ pc' = [pc EXCEPT ![t] = "wait"] \/ pc' = [pc EXCEPT ![t] = "cancel"]
    BY <2>2 DEF rt_workqueue_cancel_work_sync, Calls, At, Goto, SetArg
  <2>3. ASSUME SyncReturns(t)
        PROVE  /\ Still /\ arg' = [arg EXCEPT ![t] = None] /\ pc[t] = "took"
               /\ pc' = [pc EXCEPT ![t] = "run"]
    BY <2>3 DEF SyncReturns, At, Goto, SetArg
  <2>4. ASSUME AllTest(t, "all", wq.work_list, "first", "late")
        PROVE  /\ Still /\ arg' = [arg EXCEPT ![t] = None] /\ pc[t] = "all"
               /\ \/ pc' = [pc EXCEPT ![t] = "first"] \/ pc' = [pc EXCEPT ![t] = "late"]
    BY <2>4 DEF AllTest, At, Goto, SetArg
  <2>5. ASSUME AllTest(t, "late", wq.delayed_list, "latefirst", "sched"), wq.delayed_list # <<>>
        PROVE  /\ Still /\ arg' = [arg EXCEPT ![t] = None] /\ pc[t] = "late"
               /\ pc' = [pc EXCEPT ![t] = "latefirst"]
    BY <2>5 DEF AllTest, At, Goto, SetArg
  <2>6. ASSUME AllFirst(t, "first", wq.work_list, "pick")
        PROVE  /\ Still /\ pc[t] = "first" /\ pc' = [pc EXCEPT ![t] = "pick"]
               /\ Head(wq.work_list) \in Work
               /\ arg' = [arg EXCEPT ![t] = Head(wq.work_list)]
    BY <1>1, <2>1, <2>6 DEF AllFirst, At, Goto, SetArg
  <2>7. ASSUME AllFirst(t, "latefirst", wq.delayed_list, "latepick")
        PROVE  /\ Still /\ pc[t] = "latefirst" /\ pc' = [pc EXCEPT ![t] = "latepick"]
               /\ Head(wq.delayed_list) \in Work
               /\ arg' = [arg EXCEPT ![t] = Head(wq.delayed_list)]
    BY <1>1, <2>1, <2>7 DEF AllFirst, At, Goto, SetArg
  <2> HIDE DEF Still
  <2>8. CASE \E w \in Work : rt_workqueue_cancel_work_sync(t, w)
    BY <2>2, <2>8
  <2>9. CASE \/ SyncReturns(t)
             \/ AllTest(t, "all", wq.work_list, "first", "late")
             \/ AllTest(t, "late", wq.delayed_list, "latefirst", "sched")
                /\ wq.delayed_list # <<>>
    BY <2>3, <2>4, <2>5, <2>9
  <2>10. CASE \/ AllFirst(t, "first", wq.work_list, "pick")
              \/ AllFirst(t, "latefirst", wq.delayed_list, "latepick")
    BY <2>6, <2>7, <2>10
  <2> QED BY <2>8, <2>9, <2>10
<1>3. t # Idle /\ pc[t] \notin WorkerPc \cup {"arm"} /\ pc[t] \notin BlockPc
  BY <1>1, <1>2, AppAssumption DEF Points, WorkerPc, BlockPc
<1>4. /\ l \in WorkPc /\ l \notin WorkerPc /\ (l \in ArgPc => x \in Work)
  BY <1>2 DEF WorkPc, CpuPc, WorkerPc, ArgPc
<1>5. l \in LockPc => k'.lock > 0 /\ k'.exec = t
  BY <1>1, <1>2 DEF LockHolder, LockPc
<1>6. CpuInv' /\ BlocksOnly(k', k, t)
  BY <1>1, <1>2, <1>3, QuietCpu, BlocksNoneIsNoNewWaiter
<1> QED BY <1>2, <1>3, <1>4, <1>5, <1>6, KernelStepInv

\* the wait of a synchronous cancel
LEMMA SyncWaitsInv ==
    ASSUME WorkInv, NEW t \in Thread, SyncWaits(t)
    PROVE  WorkInv'
<1>1. /\ Running(t) /\ pc[t] = "wait" /\ k.lock = 0 /\ isr' = isr /\ wq' = wq /\ owed' = owed /\ again' = again
      /\ k' = ipc_list_suspend(k, sem, t, "FIFO", None)
      /\ pc' = [pc EXCEPT ![t] = "take"] /\ arg' = arg
  BY DEF SyncWaits, At, Goto
<1>2. /\ CpuInv /\ KInv(k) /\ pc \in [Thread -> WorkPc] /\ isr \in Seq(Frame)
      /\ arg \in [Thread -> Work \cup {None}] /\ Points /\ sem \in Obj
      /\ \A u \in Thread : k.stat[u] # "CLOSE"
  BY WorkInvParts DEF WorkInv
<1>3. t # Idle /\ k.cur = t /\ k.stat[t] = "RUNNING"
  BY <1>1, <1>2, CallerProps DEF Points, BlockPc
<1>4. Blocked(k', k, t, sem)
  BY <1>1, <1>2, <1>3, ListSuspendProps
<1>5. /\ KInv(k') /\ k'.cur = t /\ k'.lock = k.lock
      /\ \A u \in Thread \ {t}, o \in Obj : InWait(k', u, o) <=> InWait(k, u, o)
      /\ \A u \in Thread : k'.stat[u] = IF u = t THEN "SUSPEND" ELSE k.stat[u]
  BY <1>3, <1>4 DEF Blocked, SameCore
<1>6. CpuInv'
  BY <1>1, <1>2, <1>5 DEF CpuInv, BlockPc
<1>7. BlocksOnly(k', k, t)
  BY <1>5 DEF BlocksOnly, Kept
<1>8. PICK l \in WorkPc \ (WorkerPc \cup ArgPc \cup LockPc) : pc' = [pc EXCEPT ![t] = l]
  <2>1. "take" \in WorkPc \ (WorkerPc \cup ArgPc \cup LockPc)
    BY DEF WorkPc, WorkerPc, ArgPc, LockPc
  <2> QED BY <1>1, <2>1
<1>9. arg' = [arg EXCEPT ![t] = arg[t]] /\ arg[t] \in Work \cup {None}
      /\ pc[t] \notin WorkerPc \cup {"arm"}
  BY <1>1, <1>2 DEF WorkerPc
<1> QED BY <1>1, <1>3, <1>6, <1>7, <1>8, <1>9, KernelStepInv

\* rt_workqueue_cancel_all_work takes the scheduler lock, and gives it back at its end
LEMMA CancelAllInv ==
    ASSUME WorkInv, NEW t \in Thread,
           \/ rt_workqueue_cancel_all_work(t)
           \/ AllTest(t, "late", wq.delayed_list, "latefirst", "sched") /\ wq.delayed_list = <<>>
    PROVE  WorkInv'
<1>1. /\ CpuInv /\ KInv(k) /\ k \in KernelState /\ k.lock \in Nat /\ isr \in Seq(Frame)
      /\ pc \in [Thread -> WorkPc] /\ arg \in [Thread -> Work \cup {None}]
      /\ Points /\ LockHolder
      /\ \A u \in Thread : k.stat[u] # "CLOSE"
  BY WorkInvParts DEF WorkInv
<1>2. PICK n \in Nat, l \in {"all", "sched"}, x \in Work \cup {None} :
          /\ Running(t) /\ isr' = isr /\ wq' = wq /\ owed' = owed /\ again' = again
          /\ pc' = [pc EXCEPT ![t] = l] /\ arg' = [arg EXCEPT ![t] = x]
          /\ k' = [k EXCEPT !.lock = n]
          /\ \/ pc[t] = "run" /\ App[t] # {} /\ l = "all" /\ n > 0
             \/ pc[t] = "late" /\ l = "sched"
  <2>1. CASE rt_workqueue_cancel_all_work(t)
    <3>1. /\ Running(t) /\ isr' = isr /\ wq' = wq /\ owed' = owed /\ again' = again
          /\ pc' = [pc EXCEPT ![t] = "all"] /\ arg' = [arg EXCEPT ![t] = arg[t]]
          /\ k' = [k EXCEPT !.lock = k.lock + 1] /\ pc[t] = "run" /\ App[t] # {}
      BY <1>1, <2>1 DEF rt_workqueue_cancel_all_work, Calls, At, Goto
    <3>2. k.lock + 1 \in Nat /\ k.lock + 1 > 0 /\ arg[t] \in Work \cup {None}
      BY <1>1
    <3> QED BY <3>1, <3>2
  <2>2. CASE AllTest(t, "late", wq.delayed_list, "latefirst", "sched") /\ wq.delayed_list = <<>>
    <3>1. /\ Running(t) /\ isr' = isr /\ wq' = wq /\ owed' = owed /\ again' = again
          /\ pc' = [pc EXCEPT ![t] = "sched"] /\ arg' = [arg EXCEPT ![t] = None]
          /\ k' = [k EXCEPT !.lock = k.lock - 1] /\ pc[t] = "late"
      BY <2>2 DEF AllTest, At, Goto, SetArg
    <3>2. k.lock - 1 \in Nat
      BY <1>1, <3>1 DEF LockHolder, LockPc
    <3> QED BY <3>1, <3>2
  <2> QED BY <2>1, <2>2
<1>3. t # Idle /\ pc[t] \notin WorkerPc \cup {"arm"}
  BY <1>1, <1>2, AppAssumption DEF Points, WorkerPc
<1>4. k' \in KernelState /\ Agree(k', k) /\ k'.lock = n
  BY <1>1, <1>2 DEF KernelState, Agree
<1>5. /\ KInv(k') /\ (\A u \in Thread : k'.stat[u] # "CLOSE")
      /\ SameCpu(k', k) /\ BlocksNone(k', k)
  BY <1>1, <1>4, AgreeStep
<1>6. k.cur = t /\ k.sw = None /\ k.exec = t
  BY <1>1, <1>2, CallerProps
<1>7. n = 0 => pc'[t] \in BlockPc
  BY <1>1, <1>2 DEF BlockPc
<1>8. CpuInv'
  BY <1>1, <1>2, <1>4, <1>5, <1>6, <1>7 DEF CpuInv, SameCpu
<1>9. /\ l \in WorkPc /\ l \notin WorkerPc /\ l \notin ArgPc
      /\ l \in LockPc => k'.lock > 0 /\ k'.exec = t
  BY <1>2, <1>4, <1>5, <1>6 DEF WorkPc, CpuPc, WorkerPc, ArgPc, LockPc, SameCpu
<1>10. BlocksOnly(k', k, t)
  BY <1>5, BlocksNoneIsNoNewWaiter
<1> QED BY <1>2, <1>3, <1>8, <1>9, <1>10, KernelStepInv

\* the section of a cancel, from each of its callers
LEMMA CancelInv ==
    ASSUME WorkInv, NEW t \in Thread,
           \/ \E w \in Work : rt_workqueue_cancel_work(t, w)
           \/ SyncCancels(t) \/ AllCancel(t, "pick", "all") \/ AllCancel(t, "latepick", "late")
    PROVE  WorkInv'
<1>1. /\ CpuInv /\ pc \in [Thread -> WorkPc] /\ arg \in [Thread -> Work \cup {None}]
      /\ Points /\ LockHolder /\ HasLists(wq, WL, DL) /\ History
      /\ Types /\ AcceptedWorkKept
  BY WorkInvParts DEF WorkInv
<1>2. PICK w \in Work, l \in {"run", "all", "late"}, x \in Work \cup {None} :
          /\ Running(t) /\ k' = k /\ isr' = isr /\ CancelSection(w)
          /\ pc' = [pc EXCEPT ![t] = l] /\ arg' = [arg EXCEPT ![t] = x]
          /\ \/ pc[t] = "run" /\ App[t] # {} /\ l = "run"
             \/ pc[t] = "cancel" /\ l = "run"
             \/ pc[t] = "pick" /\ l = "all"
             \/ pc[t] = "latepick" /\ l = "late"
  <2>1. ASSUME NEW w \in Work, rt_workqueue_cancel_work(t, w)
        PROVE  /\ Running(t) /\ k' = k /\ isr' = isr /\ CancelSection(w)
               /\ pc[t] = "run" /\ App[t] # {} /\ pc' = [pc EXCEPT ![t] = "run"]
               /\ arg' = [arg EXCEPT ![t] = arg[t]]
    BY <1>1, <2>1 DEF rt_workqueue_cancel_work, Calls, At
  <2>2. ASSUME SyncCancels(t)
        PROVE  /\ Running(t) /\ k' = k /\ isr' = isr /\ CancelSection(arg[t])
               /\ pc[t] = "cancel" /\ pc' = [pc EXCEPT ![t] = "run"]
               /\ arg' = [arg EXCEPT ![t] = None]
    BY <2>2 DEF SyncCancels, At, Goto, SetArg
  <2>3. ASSUME NEW at, NEW to, AllCancel(t, at, to)
        PROVE  /\ Running(t) /\ k' = k /\ isr' = isr /\ CancelSection(arg[t])
               /\ pc[t] = at /\ pc' = [pc EXCEPT ![t] = to]
               /\ arg' = [arg EXCEPT ![t] = arg[t]]
    BY <1>1, <2>3 DEF AllCancel, At, Goto
  <2>4. pc[t] \in ArgPc => arg[t] \in Work
    BY <1>1 DEF Points
  <2>5. arg[t] \in Work \cup {None}
    BY <1>1
  <2>6. CASE \E w \in Work : rt_workqueue_cancel_work(t, w)
    BY <2>1, <2>5, <2>6
  <2>7. CASE SyncCancels(t)
    <3>1. arg[t] \in Work
      BY <2>2, <2>4, <2>7 DEF ArgPc
    <3> QED BY <2>2, <2>7, <3>1
  <2>8. CASE AllCancel(t, "pick", "all")
    <3>1. arg[t] \in Work
      BY <2>3, <2>4, <2>8 DEF ArgPc
    <3> QED BY <2>3, <2>8, <3>1
  <2>9. CASE AllCancel(t, "latepick", "late")
    <3>1. arg[t] \in Work
      BY <2>3, <2>4, <2>9 DEF ArgPc
    <3> QED BY <2>3, <2>9, <3>1
  <2> QED BY <2>6, <2>7, <2>8, <2>9
<1>3. t # Idle /\ pc[t] \notin WorkerPc /\ pc[t] # "arm" /\ pc[t] \notin BlockPc
  BY <1>1, <1>2, AppAssumption DEF Points, WorkerPc, BlockPc
<1>4. l \in WorkPc /\ l \notin WorkerPc /\ l \notin ArgPc
  BY <1>2 DEF WorkPc, CpuPc, WorkerPc, ArgPc
<1>5. l \in LockPc => k'.lock > 0 /\ k'.exec = t
  BY <1>1, <1>2 DEF LockHolder, LockPc
<1>6. CpuInv' /\ BlocksOnly(k', k, t)
  BY <1>1, <1>2, <1>3, QuietCpu, BlocksNoneIsNoNewWaiter
<1>7. /\ HasLists(wq', WL \ {w}, DL \ {w})
      /\ wq'.work_current = wq.work_current /\ wq'.value = wq.value
      /\ wq'.armed = IF w \in wq.submitting THEN wq.armed \ {w} ELSE wq.armed
  BY <1>1, <1>2, CancelQueue
<1>8. owed' = owed \ {w} /\ again' = again \ {w} /\ History'
  BY <1>1, <1>2, <1>7 DEF CancelSection, Disown, History
<1>9. AcceptedWorkKept'
  <2>1. \A v : Arming(v) => Arming(v)'
    BY <1>1, <1>2, <1>3, ArmingKept
  <2> QED BY <1>1, <1>7, <1>8, <2>1, AcceptedKept
<1>10. WL \ {w} \subseteq WL
  OBVIOUS
<1> QED BY <1>2, <1>3, <1>4, <1>5, <1>6, <1>7, <1>8, <1>9, <1>10, ServiceStepInv

\* a submission without delay by a thread
LEMMA SubmitNowInv ==
    ASSUME WorkInv, NEW t \in Thread, NEW w \in Work,
           rt_workqueue_dowork(t, w) \/ rt_workqueue_urgent_work(t, w)
    PROVE  WorkInv'
<1> DEFINE l == IF WorkerIdles THEN "sched" ELSE "run"
<1>1. /\ CpuInv /\ pc \in [Thread -> WorkPc] /\ arg \in [Thread -> Work \cup {None}]
      /\ Points /\ HasLists(wq, WL, DL) /\ History /\ isr \in Seq(Frame)
      /\ Types /\ AcceptedWorkKept
  BY WorkInvParts DEF WorkInv
<1>2. /\ Running(t) /\ pc[t] = "run" /\ App[t] # {} /\ isr' = isr /\ k' = Kick
      /\ pc' = [pc EXCEPT ![t] = l] /\ arg' = [arg EXCEPT ![t] = arg[t]]
  BY <1>1 DEF rt_workqueue_dowork, rt_workqueue_urgent_work, SubmitNow, Calls, At, Goto
<1>3. l \in {"run", "sched"} /\ (WorkerIdles => l = "sched")
  OBVIOUS
<1> HIDE DEF l
<1>4. t # Idle /\ pc[t] \notin WorkerPc /\ pc[t] # "arm" /\ arg[t] \in Work \cup {None}
  BY <1>1, <1>2, AppAssumption DEF WorkerPc
<1>5. l \in WorkPc /\ l \notin WorkerPc /\ l \notin ArgPc /\ l \notin LockPc
  BY <1>3 DEF WorkPc, CpuPc, WorkerPc, ArgPc, LockPc
<1>6. /\ KInv(k') /\ (\A u \in Thread : k'.stat[u] # "CLOSE")
      /\ k'.lock = k.lock /\ SameCpu(k', k)
      /\ k'.stat[k'.cur] = "SUSPEND" => k.stat[k.cur] = "SUSPEND"
      /\ BlocksNone(k', k) /\ (WorkerIdles => k'.stat[Worker] # "SUSPEND")
  BY <1>2, KickProps
<1>7. k.sw = None /\ (k.lock = 0 => k.stat[k.cur] = "RUNNING")
  BY <1>1, <1>2, CallerProps DEF BlockPc
<1>8. CpuInv' /\ BlocksOnly(k', k, t)
  BY <1>1, <1>2, <1>6, <1>7, BlocksNoneIsNoNewWaiter DEF CpuInv, SameCpu
<1>9. \A v : Arming(v) => Arming(v)'
  BY <1>1, <1>2, <1>4, ArmingKept
<1>10. PICK a : /\ HasLists(wq', a, DL \ {w})
                /\ wq'.work_current = wq.work_current /\ wq'.value = wq.value
                /\ AcceptedWorkKept' /\ History'
  <2>1. CASE rt_workqueue_dowork(t, w)
    BY <1>1, <1>9, <2>1, SubmitNowQueue, SubmitNowAccepted DEF rt_workqueue_dowork
  <2>2. CASE rt_workqueue_urgent_work(t, w)
    <3>1. wq' = [Unlink(wq, w) EXCEPT !.work_list = <<w>> \o @] /\ Accept(w)
      BY <2>2 DEF rt_workqueue_urgent_work
    <3>2. HasLists(wq', WL \cup {w}, DL \ {w}) /\ SameButLists(wq', wq)
      BY <1>1, <3>1, UrgentQueue
    <3>3. AcceptedWorkKept'
      <4>1. wq'.armed = wq.armed /\ owed' \subseteq owed \cup {w}
        BY <1>1, <3>1, <3>2, AcceptHistory DEF SameButLists
      <4> DEFINE a == WL \cup {w}
                 d == DL \ {w}
      <4>2. \A v \in owed' :
               \/ v \in a
               \/ /\ v \in owed /\ (v \in WL => v \in a) /\ (v \in DL => v \in d)
                  /\ v \in wq.armed => v \in wq'.armed
                  /\ Arming(v) => Arming(v)'
        BY <1>9, <3>1, <4>1
      <4>3. HasLists(wq', a, d)
        BY <3>2
      <4> HIDE DEF a, d
      <4> QED BY <1>1, <4>2, <4>3, AcceptedKept
    <3> QED BY <1>1, <3>1, <3>2, <3>3, AcceptHistory DEF SameButLists
  <2> QED BY <2>1, <2>2
<1> QED BY <1>2, <1>4, <1>5, <1>6, <1>8, <1>10, ServiceStepInv

\* a delayed submission, and the start of its timer behind the section
LEMMA SubmitInv ==
    ASSUME WorkInv, NEW t \in Thread, NEW w \in Work, rt_workqueue_submit_work(t, w)
    PROVE  WorkInv'
<1>1. /\ CpuInv /\ pc \in [Thread -> WorkPc] /\ arg \in [Thread -> Work \cup {None}]
      /\ Points /\ HasLists(wq, WL, DL) /\ History
      /\ Types /\ AcceptedWorkKept
  BY WorkInvParts DEF WorkInv
<1>2. /\ Running(t) /\ pc[t] = "run" /\ App[t] # {} /\ isr' = isr /\ k' = k
      /\ pc' = [pc EXCEPT ![t] = "arm"] /\ arg' = [arg EXCEPT ![t] = w]
      /\ Accept(w)
  BY DEF rt_workqueue_submit_work, Calls, At, Goto, SetArg
<1>3. /\ HasLists(wq', WL \ {w}, DL \cup {w})
      /\ wq'.work_current = wq.work_current /\ wq'.value = wq.value
      /\ wq'.armed = wq.armed \ {w} /\ History' /\ owed' \subseteq owed \cup {w}
  BY <1>1, <1>2, SubmitQueue, AcceptHistory DEF rt_workqueue_submit_work
<1>4. AcceptedWorkKept'
  <2>1. ASSUME NEW v \in owed', v # w
        PROVE  v \in WL \/ (v \in DL /\ (v \in wq.armed \/ Arming(v)'))
    <3>1. v \in owed
      BY <1>3, <2>1
    <3>2. v \in WL \/ (v \in DL /\ (v \in wq.armed \/ Arming(v)))
      BY <1>1, <3>1 DEF AcceptedWorkKept, Held, WL, DL, Arming
    <3> QED BY <1>1, <1>2, <3>2, ArmingKept
  <2>2. Arming(w)'
    BY <1>1, <1>2 DEF Arming
  <2>3. /\ Range(wq'.work_list) = WL \ {w} /\ Range(wq'.delayed_list) = DL \cup {w}
    BY <1>3 DEF HasLists
  <2>4. ASSUME NEW v \in owed'
        PROVE  v \in Range(wq'.work_list)
               \/ (v \in Range(wq'.delayed_list) /\ (v \in wq'.armed \/ Arming(v)'))
    BY <1>3, <2>1, <2>2, <2>3
  <2> QED BY <2>4 DEF AcceptedWorkKept, Held, Arming
<1>5. t # Idle /\ pc[t] \notin WorkerPc /\ pc[t] \notin BlockPc
  BY <1>2, AppAssumption DEF WorkerPc, BlockPc
<1>6. CpuInv' /\ BlocksOnly(k', k, t)
  BY <1>1, <1>2, <1>5, QuietCpu, BlocksNoneIsNoNewWaiter
<1>7. PICK l \in WorkPc : l \notin WorkerPc /\ l \notin LockPc /\ pc' = [pc EXCEPT ![t] = l]
  <2>1. "arm" \in WorkPc /\ "arm" \notin WorkerPc /\ "arm" \notin LockPc
    BY DEF WorkPc, WorkerPc, LockPc
  <2> QED BY <1>2, <2>1
<1>8. WL \ {w} \subseteq WL
  OBVIOUS
<1> QED BY <1>2, <1>3, <1>4, <1>5, <1>6, <1>7, <1>8, ServiceStepInv

LEMMA StartTimerInv ==
    ASSUME WorkInv, NEW t \in Thread, StartTimer(t)
    PROVE  WorkInv'
<1>1. /\ CpuInv /\ pc \in [Thread -> WorkPc] /\ arg \in [Thread -> Work \cup {None}]
      /\ Points /\ HasLists(wq, WL, DL) /\ History
      /\ Types /\ AcceptedWorkKept
  BY WorkInvParts DEF WorkInv
<1>2. /\ Running(t) /\ pc[t] = "arm" /\ isr' = isr /\ k' = k
      /\ wq' = [wq EXCEPT !.armed = @ \cup {arg[t]}]
      /\ pc' = [pc EXCEPT ![t] = "run"] /\ arg' = [arg EXCEPT ![t] = None]
      /\ owed' = owed /\ again' = again
  BY DEF StartTimer, At, Goto, SetArg
<1>3. arg[t] \in Work
  BY <1>1, <1>2 DEF Points, ArgPc
<1>4. /\ HasLists(wq', WL, DL) /\ wq'.armed = wq.armed \cup {arg[t]}
      /\ wq'.work_current = wq.work_current /\ wq'.value = wq.value
  BY <1>1, <1>2, <1>3, FieldQueue
<1>5. AcceptedWorkKept'
  <2>1. ASSUME NEW v, Arming(v) PROVE v = arg[t] \/ Arming(v)'
    <3>1. PICK u \in Thread : pc[u] = "arm" /\ arg[u] = v
      BY <2>1 DEF Arming
    <3>2. u # t => pc'[u] = "arm" /\ arg'[u] = v
      BY <1>1, <1>2, <3>1
    <3> QED BY <3>1, <3>2 DEF Arming
  <2>2. ASSUME NEW v \in owed' PROVE v \in WL \/ (v \in DL /\ (v \in wq'.armed \/ Arming(v)'))
    <3>1. v \in WL \/ (v \in DL /\ (v \in wq.armed \/ Arming(v)))
      BY <1>1, <1>2 DEF AcceptedWorkKept, Held, WL, DL, Arming
    <3> QED BY <1>4, <2>1, <3>1
  <2>3. Range(wq'.work_list) = WL /\ Range(wq'.delayed_list) = DL
    BY <1>4 DEF HasLists
  <2> QED BY <2>2, <2>3 DEF AcceptedWorkKept, Held, Arming
<1>6. t # Idle /\ pc[t] \notin WorkerPc /\ pc[t] \notin BlockPc
  BY <1>1, <1>2 DEF Points, WorkerPc, BlockPc
<1>7. CpuInv' /\ BlocksOnly(k', k, t)
  BY <1>1, <1>2, <1>6, QuietCpu, BlocksNoneIsNoNewWaiter
<1>8. PICK l \in WorkPc : l \notin WorkerPc /\ l \notin LockPc /\ l \notin ArgPc
                          /\ pc' = [pc EXCEPT ![t] = l]
  <2>1. "run" \in WorkPc /\ "run" \notin WorkerPc /\ "run" \notin LockPc /\ "run" \notin ArgPc
    BY DEF WorkPc, CpuPc, WorkerPc, LockPc, ArgPc
  <2> QED BY <1>2, <2>1
<1>9. History'
  BY <1>1, <1>2, <1>4 DEF History
<1> QED BY <1>2, <1>4, <1>5, <1>6, <1>7, <1>8, <1>9, ServiceStepInv

\* a quiet step of the worker's loop: it takes a work, or the work function has returned
LEMMA WorkerQuietInv ==
    ASSUME WorkInv, WorkerStarts \/ WorkDone
    PROVE  WorkInv'
<1> DEFINE t == Worker
<1>1. /\ CpuInv /\ pc \in [Thread -> WorkPc] /\ arg \in [Thread -> Work \cup {None}]
      /\ Points /\ HasLists(wq, WL, DL) /\ History /\ KInv(k)
      /\ Types /\ AcceptedWorkKept /\ t \in Thread /\ t # Idle /\ None \notin Work
      /\ k.lock \in Nat
  BY WorkInvParts DEF WorkInv
<1>2. /\ Running(t) /\ isr' = isr /\ k' = k /\ arg' = [arg EXCEPT ![t] = arg[t]]
      /\ arg[t] \in Work \cup {None}
  BY <1>1 DEF WorkerStarts, WorkDone, At
<1>3. CASE WorkerStarts
  <2> DEFINE w == Head(wq.work_list)
  <2>1. /\ pc[t] = "loop" /\ pc' = [pc EXCEPT ![t] = "run"]
    BY <1>3 DEF WorkerStarts, At, Goto
  <2>2. /\ w \in Work /\ HasLists(wq', WL \ {w}, DL)
        /\ wq'.work_current = w /\ wq'.value = wq.value
        /\ wq'.armed = wq.armed /\ owed' = owed \ {w} /\ again' = again \ {w}
    BY <1>1, <1>3, StartQueue
  <2> HIDE DEF w
  <2>3. AcceptedWorkKept' /\ History'
    <3>1. \A v : Arming(v) => Arming(v)'
      BY <1>1, <1>2, <2>1, ArmingKept
    <3>2. History'
      BY <1>1, <2>2 DEF History
    <3> QED BY <1>1, <2>2, <3>1, <3>2, AcceptedKept
  <2>4. CpuInv' /\ BlocksOnly(k', k, t)
    <3>1. pc[t] \notin BlockPc
      BY <2>1 DEF BlockPc
    <3> QED BY <1>1, <1>2, <3>1, QuietCpu, BlocksNoneIsNoNewWaiter
  <2>5. PICK l \in WorkPc : l \notin WorkerPc /\ l \notin LockPc /\ l \notin ArgPc
                            /\ pc' = [pc EXCEPT ![t] = l]
    <3>1. "run" \in WorkPc /\ "run" \notin WorkerPc /\ "run" \notin LockPc /\ "run" \notin ArgPc
      BY DEF WorkPc, CpuPc, WorkerPc, LockPc, ArgPc
    <3> QED BY <2>1, <3>1
  <2>6. pc[t] # "complete" /\ wq'.work_current # None
    BY <1>1, <2>1, <2>2
  <2> QED BY <1>1, <1>2, <2>2, <2>3, <2>4, <2>5, <2>6, ThreadStepInv
<1>4. CASE WorkDone
  <2>1. /\ pc[t] = "run" /\ pc' = [pc EXCEPT ![t] = "ack"] /\ owed' = owed /\ again' = again
        /\ wq' = [wq EXCEPT !.work_current = None]
    BY <1>4 DEF WorkDone, At, Goto
  <2>2. /\ HasLists(wq', WL, DL) /\ wq'.work_current = None /\ wq'.value = wq.value
        /\ wq'.armed = wq.armed
    BY <1>1, <2>1, FieldQueue
  <2>3. AcceptedWorkKept' /\ History'
    <3>1. \A v : Arming(v) => Arming(v)'
      BY <1>1, <1>2, <2>1, ArmingKept
    <3>2. History'
      BY <1>1, <2>1, <2>2, HistoryKept
    <3> QED BY <1>1, <2>1, <2>2, <3>1, <3>2, AcceptedKept
  <2>4. CpuInv' /\ BlocksOnly(k', k, t)
    <3>1. pc[t] \notin BlockPc
      BY <2>1 DEF BlockPc
    <3> QED BY <1>1, <1>2, <3>1, QuietCpu, BlocksNoneIsNoNewWaiter
  <2>5. Parked'
    <3>1. k.stat[t] = "SUSPEND" => k.lock > 0
      BY <1>1, <1>2, <2>1, CallerProps DEF BlockPc
    <3>2. pc'[t] = "ack" /\ k.exec = t
      BY <1>1, <1>2, <2>1 DEF Running
    <3> QED BY <1>2, <3>1, <3>2 DEF Parked, RunsLocked
  <2>6. PICK l \in WorkerPc : l \in WorkPc /\ l \notin LockPc /\ l \notin ArgPc
                              /\ pc' = [pc EXCEPT ![t] = l]
    <3>1. "ack" \in WorkPc /\ "ack" \in WorkerPc /\ "ack" \notin LockPc /\ "ack" \notin ArgPc
      BY DEF WorkPc, WorkerPc, LockPc, ArgPc
    <3> QED BY <2>1, <3>1
  <2>7. pc[t] # "complete"
    BY <2>1
  <2> QED BY <1>1, <1>2, <2>2, <2>3, <2>4, <2>5, <2>6, <2>7, ThreadStepInv
<1> QED BY <1>3, <1>4

\* a step of the worker's loop that leaves the queue alone, outside the completion
LEMMA WorkerKernelInv ==
    ASSUME WorkInv, Running(Worker), pc[Worker] \in WorkerPc \ {"complete"},
           NEW l \in WorkerPc, pc' = [pc EXCEPT ![Worker] = l], arg' = arg,
           CpuInv', BlocksOnly(k', k, Worker),
           l \in LockPc => k'.lock > 0 /\ k'.exec = Worker,
           Parked', wq' = wq, owed' = owed, again' = again
    PROVE  WorkInv'
<1> DEFINE t == Worker
<1>1. /\ arg \in [Thread -> Work \cup {None}] /\ Points /\ HasLists(wq, WL, DL)
      /\ History /\ Types /\ AcceptedWorkKept /\ t \in Thread /\ t # Idle
  BY WorkInvParts DEF WorkInv
<1>2. arg' = [arg EXCEPT ![t] = arg[t]] /\ arg[t] \in Work \cup {None}
  BY <1>1
<1>3. AcceptedWorkKept'
  <2>1. pc[t] # "arm"
    BY DEF WorkerPc
  <2>2. \A v : Arming(v) => Arming(v)'
    BY <1>1, <1>2, <2>1, ArmingKept
  <2>3. HasLists(wq', WL, DL)
    BY <1>1
  <2> QED BY <1>1, <2>2, <2>3, AcceptedKept
<1>4. wq'.work_current = None /\ wq'.value = wq.value
  BY <1>1 DEF Points
<1>5. l \in WorkPc /\ l \notin ArgPc
  BY DEF WorkPc, WorkerPc, ArgPc
<1>6. HasLists(wq', WL, DL) /\ History' /\ pc[t] # "complete"
  BY <1>1 DEF History
<1> QED BY <1>1, <1>2, <1>3, <1>4, <1>5, <1>6, ThreadStepInv

\* the loop suspends the worker, and its rt_schedule
LEMMA WorkerLoopInv ==
    ASSUME WorkInv,
           \/ WorkerSuspends
           \/ /\ ThreadSchedule(Worker, "idle", "loop") \/ ThreadSchedule(Worker, "exit", "loop")
              /\ UNCHANGED <<wq, arg, owed, again>>
    PROVE  WorkInv'
<1> DEFINE t == Worker
<1>1. /\ CpuInv /\ KInv(k) /\ pc \in [Thread -> WorkPc] /\ isr \in Seq(Frame)
      /\ t \in Thread /\ t # Idle /\ Parked /\ k.lock \in Nat
      /\ \A u \in Thread : k.stat[u] # "CLOSE"
  BY WorkInvParts DEF WorkInv
<1>2. CASE WorkerSuspends
  <2>1. /\ Running(t) /\ pc[t] = "loop" /\ wq.work_list = <<>>
        /\ k' = rt_thread_suspend(k, t) /\ pc' = [pc EXCEPT ![t] = "idle"]
        /\ isr' = isr /\ wq' = wq /\ arg' = arg /\ owed' = owed /\ again' = again
    BY <1>2 DEF WorkerSuspends, At, Goto
  <2>2. k.cur = t /\ k.sw = None /\ k.stat[t] \in {"RUNNING", "SUSPEND"}
    BY <1>1, <2>1, CallerProps
  <2>3. /\ KInv(k') /\ k'.lock = k.lock /\ k'.cur = t /\ k'.sw = None
        /\ \A u \in Thread, o \in Obj : InWait(k', u, o) <=> InWait(k, u, o)
        /\ \A u \in Thread : k'.stat[u] = IF u = t THEN "SUSPEND" ELSE k.stat[u]
    <3>1. CASE k.stat[t] = "RUNNING"
      <4>1. Suspended(k', k, t)
        BY <1>1, <2>1, <2>2, <3>1, SuspendProps
      <4> QED BY <2>2, <4>1 DEF Suspended, SameCore
    <3>2. CASE k.stat[t] = "SUSPEND"
      <4>1. k' = k
        BY <2>1, <3>2 DEF rt_thread_suspend, CanSuspend
      <4> QED BY <1>1, <2>2, <3>2, <4>1
    <3> QED BY <2>2, <3>1, <3>2
  <2>4. pc'[t] = "idle"
    BY <1>1, <2>1
  <2>5. CpuInv' /\ BlocksOnly(k', k, t)
    BY <1>1, <2>1, <2>3, <2>4 DEF CpuInv, BlocksOnly, Kept, BlockPc
  <2>6. Parked'
    BY <2>1, <2>4 DEF Parked
  <2>7. PICK l \in WorkerPc : l \notin LockPc /\ pc' = [pc EXCEPT ![t] = l]
    <3>1. "idle" \in WorkerPc /\ "idle" \notin LockPc
      BY DEF WorkerPc, LockPc
    <3> QED BY <2>1, <3>1
  <2>8. pc[t] \in WorkerPc \ {"complete"}
    BY <2>1 DEF WorkerPc
  <2> QED BY <2>1, <2>5, <2>6, <2>7, <2>8, WorkerKernelInv
<1>3. ASSUME NEW from \in {"idle", "exit"}, ThreadSchedule(t, from, "loop"),
             UNCHANGED <<wq, arg, owed, again>>
      PROVE  WorkInv'
  <2>1. /\ Running(t) /\ pc[t] = from /\ pc' = [pc EXCEPT ![t] = "loop"]
        /\ wq' = wq /\ arg' = arg /\ owed' = owed /\ again' = again
    BY <1>3 DEF ThreadSchedule, At, Goto
  <2>2. CpuInv' /\ BlocksNone(k', k) /\ k'.lock = k.lock /\ StaysLocked(k', k)
    BY <1>1, <1>3, ThreadScheduleInv
  <2>3. Parked'
    <3>1. k'.stat[t] = "SUSPEND" => k.stat[t] = "SUSPEND"
      BY <1>1, <2>2 DEF BlocksNone, Kept, Awake
    <3>2. RunsLocked => RunsLocked'
      BY <2>2 DEF RunsLocked, StaysLocked, SameCpu
    <3>3. pc'[t] = "loop"
      BY <1>1, <2>1
    <3> QED BY <1>1, <2>1, <3>1, <3>2, <3>3 DEF Parked
  <2>4. BlocksOnly(k', k, t)
    BY <2>2, BlocksNoneIsNoNewWaiter
  <2>5. PICK l \in WorkerPc : l \notin LockPc /\ pc' = [pc EXCEPT ![t] = l]
    <3>1. "loop" \in WorkerPc /\ "loop" \notin LockPc
      BY DEF WorkerPc, LockPc
    <3> QED BY <2>1, <3>1
  <2>6. pc[t] \in WorkerPc \ {"complete"}
    BY <2>1 DEF WorkerPc
  <2> QED BY <2>1, <2>2, <2>3, <2>4, <2>5, <2>6, WorkerKernelInv
<1> QED BY <1>2, <1>3

\* the completion takes the scheduler lock
LEMMA CompletionEnterInv ==
    ASSUME WorkInv, CompletionEnter
    PROVE  WorkInv'
<1> DEFINE t == Worker
           n == k.lock + 1
<1>1. /\ CpuInv /\ KInv(k) /\ k \in KernelState /\ k.lock \in Nat /\ isr \in Seq(Frame)
      /\ pc \in [Thread -> WorkPc] /\ t \in Thread /\ Parked
      /\ \A u \in Thread : k.stat[u] # "CLOSE"
  BY WorkInvParts DEF WorkInv
<1>2. /\ Running(t) /\ pc[t] = "ack" /\ k' = [k EXCEPT !.lock = n]
      /\ pc' = [pc EXCEPT ![t] = "complete"]
      /\ isr' = isr /\ wq' = wq /\ arg' = arg /\ owed' = owed /\ again' = again
  BY DEF CompletionEnter, At, Goto
<1>3. n \in Nat /\ n > 0 /\ (k.lock > 0 => n > 1)
  BY <1>1
<1> HIDE DEF n
<1>4. k' \in KernelState /\ Agree(k', k) /\ k'.lock = n
  BY <1>1, <1>2, <1>3 DEF KernelState, Agree
<1>5. /\ KInv(k') /\ (\A u \in Thread : k'.stat[u] # "CLOSE")
      /\ SameCpu(k', k) /\ BlocksNone(k', k) /\ k'.stat = k.stat
  BY <1>1, <1>4, AgreeStep DEF Agree
<1>6. k.sw = None /\ k.exec = t
  BY <1>1, <1>2, CallerProps
<1>7. pc'[t] = "complete"
  BY <1>1, <1>2
<1>8. CpuInv' /\ BlocksOnly(k', k, t)
  BY <1>1, <1>2, <1>3, <1>4, <1>5, <1>6, BlocksNoneIsNoNewWaiter DEF CpuInv, SameCpu
<1>9. Parked'
  BY <1>1, <1>2, <1>3, <1>4, <1>5, <1>7 DEF Parked, RunsLocked
<1>10. PICK l \in WorkerPc : pc' = [pc EXCEPT ![t] = l]
  <2>1. "complete" \in WorkerPc
    BY DEF WorkerPc
  <2> QED BY <1>2, <2>1
<1>11. k'.lock > 0 /\ k'.exec = t /\ pc[t] \in WorkerPc \ {"complete"}
  BY <1>2, <1>3, <1>4, <1>5, <1>6 DEF SameCpu, WorkerPc
<1> QED BY <1>2, <1>8, <1>9, <1>10, <1>11, WorkerKernelInv

\* one turn of its loop: a waiter is woken, or the semaphore gets its token
LEMMA CompletionReleaseInv ==
    ASSUME WorkInv, CompletionRelease
    PROVE  WorkInv'
<1> DEFINE t == Worker
           n == IF k.wait[sem] # <<>> THEN wq.value ELSE wq.value + 1
<1>1. /\ CpuInv /\ KInv(k) /\ isr \in Seq(Frame) /\ sem \in Obj
      /\ pc \in [Thread -> WorkPc] /\ t \in Thread /\ arg \in [Thread -> Work \cup {None}]
      /\ Points /\ LockHolder /\ Parked /\ HasLists(wq, WL, DL)
      /\ History /\ AcceptedWorkKept
      /\ \A u \in Thread : k.stat[u] # "CLOSE"
  BY WorkInvParts DEF WorkInv
<1>2. /\ Running(t) /\ pc[t] = "complete" /\ wq.value = 0
      /\ k' = IF k.wait[sem] # <<>> THEN ipc_list_resume(k, sem) ELSE k
      /\ wq' = [wq EXCEPT !.value = n]
      /\ pc' = pc /\ isr' = isr /\ arg' = arg /\ owed' = owed /\ again' = again
  BY DEF CompletionRelease, At
<1>3. n \in Nat /\ (n > 0 => n = 1 /\ k.wait[sem] = <<>>)
  BY <1>2
<1> HIDE DEF n
<1>4. /\ KInv(k') /\ (\A u \in Thread : k'.stat[u] # "CLOSE")
      /\ k'.lock = k.lock /\ SameCpu(k', k) /\ BlocksNone(k', k)
  <2>1. CASE k.wait[sem] # <<>>
    <3> DEFINE h == Head(k.wait[sem])
    <3>1. k' = rt_thread_resume(k, h)
      BY <1>2, <2>1 DEF ipc_list_resume
    <3>2. h \in Thread /\ k.stat[h] = "SUSPEND"
      BY <1>1, <2>1, WaitProps
    <3> HIDE DEF h
    <3>3. Woken(k', k, h)
      BY <1>1, <3>1, <3>2, ResumeProps
    <3> QED BY <1>1, <3>2, <3>3, WokenStep
  <2>2. CASE k.wait[sem] = <<>>
    BY <1>1, <1>2, <2>2 DEF SameCpu, BlocksNone, Kept
  <2> QED BY <2>1, <2>2
<1>5. k.lock > 0 /\ k.sw = None
  BY <1>1, <1>2, CallerProps DEF LockHolder, LockPc
<1>6. CpuInv'
  BY <1>1, <1>2, <1>4, <1>5 DEF CpuInv, SameCpu
<1>7. /\ HasLists(wq', WL, DL) /\ wq'.value = n /\ wq'.armed = wq.armed
      /\ wq'.work_current = wq.work_current /\ wq'.work_list = wq.work_list
  BY <1>1, <1>2, <1>3, FieldQueue
<1>8. Types' /\ Lists'
  BY <1>1, <1>2, <1>7 DEF Types, Lists, HasLists
<1>9. Points' /\ LockHolder'
  BY <1>1, <1>2, <1>4, <1>7 DEF Points, LockHolder, SameCpu
<1>10. Parked'
  <2>1. k'.stat[t] = "SUSPEND" => k.stat[t] = "SUSPEND"
    BY <1>1, <1>4 DEF BlocksNone, Kept, Awake
  <2> QED BY <1>1, <1>2, <1>4, <2>1 DEF Parked
<1>11. Token'
  <2>1. CASE k.wait[sem] = <<>>
    <3>1. k' = k /\ \A u \in Thread : ~InWait(k, u, sem)
      BY <1>1, <1>2, <2>1, WaitProps
    <3>2. \A u \in Thread : ~InWait(k', u, sem)
      BY <3>1
    <3> QED BY <1>2, <1>3, <1>7, <3>2 DEF Token, InWait
  <2>2. CASE k.wait[sem] # <<>>
    BY <1>3, <1>7, <2>2 DEF Token
  <2> QED BY <2>1, <2>2
<1>12. AcceptedWorkKept'
  <2>1. \A v : Arming(v) => Arming(v)'
    BY <1>2 DEF Arming
  <2> QED BY <1>1, <1>2, <1>7, <2>1, AcceptedKept
<1>13. History'
  BY <1>1, <1>2, <1>7 DEF History
<1> QED BY <1>6, <1>8, <1>9, <1>10, <1>11, <1>12, <1>13 DEF WorkInv

\* the token is taken back and the lock released
LEMMA CompletionExitInv ==
    ASSUME WorkInv, CompletionExit
    PROVE  /\ WorkInv'
           /\ wq'.value = 0 /\ k'.wait[sem] = <<>>
<1> DEFINE t == Worker
           m == wq.value - 1
           n == k.lock - 1
<1>1. /\ CpuInv /\ KInv(k) /\ k \in KernelState /\ k.lock \in Nat /\ isr \in Seq(Frame)
      /\ pc \in [Thread -> WorkPc] /\ t \in Thread /\ arg \in [Thread -> Work \cup {None}]
      /\ Points /\ LockHolder /\ Parked /\ Token /\ HasLists(wq, WL, DL) /\ sem \in Obj
      /\ History /\ Types /\ AcceptedWorkKept /\ t # Idle
      /\ \A u \in Thread : k.stat[u] # "CLOSE"
  BY WorkInvParts DEF WorkInv
<1>2. /\ Running(t) /\ pc[t] = "complete" /\ wq.value > 0
      /\ k' = [k EXCEPT !.lock = n] /\ wq' = [wq EXCEPT !.value = m]
      /\ pc' = [pc EXCEPT ![t] = "exit"] /\ isr' = isr /\ arg' = arg /\ owed' = owed /\ again' = again
  BY DEF CompletionExit, At, Goto
<1>3. m = 0 /\ \A u \in Thread : ~InWait(k, u, sem)
  BY <1>1, <1>2 DEF Token
<1>4. n \in Nat /\ (k.lock > 1 => n > 0) /\ k.lock > 0
  BY <1>1, <1>2 DEF LockHolder, LockPc
<1> HIDE DEF m, n
<1>5. k' \in KernelState /\ Agree(k', k) /\ k'.lock = n
  BY <1>1, <1>2, <1>4 DEF KernelState, Agree
<1>6. /\ KInv(k') /\ (\A u \in Thread : k'.stat[u] # "CLOSE")
      /\ SameCpu(k', k) /\ k'.stat = k.stat /\ k'.wait = k.wait
  BY <1>1, <1>5, AgreeStep DEF Agree
<1>7. k.cur = t /\ k.sw = None /\ k.exec = t
  BY <1>1, <1>2, CallerProps
<1>8. pc'[t] = "exit" /\ \A u \in Thread \ {t} : pc'[u] = pc[u] /\ pc[u] \notin LockPc
  BY <1>1, <1>2, <1>7 DEF LockHolder
<1>9. k.stat[t] = "SUSPEND" => n > 0
  BY <1>1, <1>2, <1>4 DEF Parked
<1>10. CpuInv'
  BY <1>1, <1>2, <1>4, <1>5, <1>6, <1>7, <1>9 DEF CpuInv, SameCpu
<1>11. /\ HasLists(wq', WL, DL) /\ wq'.value = 0 /\ wq'.armed = wq.armed
       /\ wq'.work_current = wq.work_current
  BY <1>1, <1>2, <1>3, FieldQueue
<1>12. Types' /\ Lists'
  BY <1>1, <1>2, <1>11 DEF Types, Lists, HasLists, WorkPc
<1>13. Points'
  BY <1>1, <1>2, <1>8, <1>11 DEF Points, WorkerPc, ArgPc
<1>14. LockHolder'
  BY <1>8 DEF LockHolder, LockPc
<1>15. Parked'
  BY <1>5, <1>6, <1>7, <1>8, <1>9 DEF Parked, RunsLocked, SameCpu
<1>16. Token'
  BY <1>11 DEF Token
<1>17. AcceptedWorkKept'
  <2>1. arg' = [arg EXCEPT ![t] = arg[t]] /\ pc[t] # "arm"
    BY <1>1, <1>2
  <2>2. \A v : Arming(v) => Arming(v)'
    BY <1>1, <1>2, <2>1, ArmingKept
  <2> QED BY <1>1, <1>2, <1>11, <2>2, AcceptedKept
<1>18. k'.wait[sem] = <<>>
  BY <1>1, <1>3, <1>6, WaitProps
<1>19. History'
  BY <1>1, <1>2, <1>11 DEF History
<1> QED BY <1>10, <1>11, <1>12, <1>13, <1>14, <1>15, <1>16, <1>17, <1>18, <1>19 DEF WorkInv

\* the invariant holds at the start
LEMMA WorkInitInv == Init => WorkInv
<1> SUFFICES ASSUME Init PROVE WorkInv
  OBVIOUS
<1>1. /\ k = StartState /\ isr = <<>>
      /\ pc = [t \in Thread |-> IF t = Worker THEN "loop" ELSE "run"]
      /\ wq = [work_list |-> <<>>, delayed_list |-> <<>>, work_current |-> None,
               value |-> 0, submitting |-> {}, armed |-> {}, attached |-> {}]
      /\ arg = [t \in Thread |-> None] /\ owed = {} /\ again = {}
  BY DEF Init
<1>2. Worker \in Thread /\ Worker # Idle /\ Worker # Main /\ Idle \in Thread /\ None \notin Work
  BY WorkAssumption, ThreadAssumption DEF Work
<1>3. CpuInv
  <2>1. KInv(k) /\ \A t \in Thread : k.stat[t] # "CLOSE"
    BY <1>1, StartProps
  <2>2. k.stat[k.cur] = "RUNNING" /\ k.sw = None
    BY <1>1, MainAssumption DEF StartState
  <2> QED BY <1>1, <2>1, <2>2 DEF CpuInv
<1>4. wq \in Queue
  BY <1>1 DEF Queue
<1>5. Types
  BY <1>1, <1>4 DEF Types, WorkPc, CpuPc
<1>6. Lists
  BY <1>1 DEF Lists, IsInjective
<1>7. Points /\ LockHolder
  BY <1>1, <1>2 DEF Points, LockHolder, WorkerPc, ArgPc, LockPc
<1>8. Parked /\ Token
  <2>1. k.stat[Worker] = "INIT"
    BY <1>1, <1>2 DEF StartState
  <2>2. Parked
    BY <2>1 DEF Parked
  <2>3. wq.value = 0
    BY <1>1
  <2>4. Token
    BY <2>3 DEF Token
  <2> QED BY <2>2, <2>4
<1>9. AcceptedWorkKept /\ History
  BY <1>1 DEF AcceptedWorkKept, History
<1> QED BY <1>3, <1>5, <1>6, <1>7, <1>8, <1>9 DEF WorkInv

\* and every step keeps it
LEMMA WorkNextInv == WorkInv /\ [Next]_vars => WorkInv'
<1> SUFFICES ASSUME WorkInv, [Next]_vars PROVE WorkInv'
  OBVIOUS
<1>1. CASE CpuStep({}) /\ UNCHANGED <<wq, arg, owed, again>>
  BY <1>1, CpuStepWork
<1>2. CASE \E w \in Work : DevDowork(w) \/ delayed_work_timeout(w)
  BY <1>2, DevDoworkInv, TimeoutInv
<1>3. CASE WorkerStep
  BY <1>3, WorkerLoopInv, WorkerQuietInv, CompletionEnterInv, CompletionReleaseInv,
     CompletionExitInv DEF WorkerStep
<1>4. ASSUME NEW t \in Thread, Running(t), Finish(t) PROVE WorkInv'
  <2>1. CASE CpuFinish(t) /\ UNCHANGED <<wq, arg, owed, again>>
    BY <1>4, <2>1, CpuServiceWork
  <2>2. CASE ThreadSchedule(t, "take", "took") /\ UNCHANGED <<wq, arg, owed, again>>
    BY <1>4, <2>2, CpuServiceWork
  <2>3. CASE AllStep(t)
    BY <2>3, QuietWork, CancelAllInv, CancelInv DEF AllStep
  <2>4. CASE StartTimer(t) \/ SyncCancels(t) \/ SyncWaits(t) \/ SyncReturns(t)
    BY <2>4, StartTimerInv, CancelInv, SyncWaitsInv, QuietWork
  <2> QED BY <1>4, <2>1, <2>2, <2>3, <2>4 DEF Finish
<1>5. ASSUME NEW t \in Thread, Running(t), Call(t) PROVE WorkInv'
  <2>1. CASE CpuCall(t) /\ UNCHANGED <<wq, arg, owed, again>>
    BY <1>5, <2>1, CpuServiceWork
  <2>2. ASSUME NEW w \in Work, rt_workqueue_dowork(t, w) \/ rt_workqueue_urgent_work(t, w)
        PROVE  WorkInv'
    BY <2>2, SubmitNowInv
  <2>3. ASSUME NEW w \in Work, rt_workqueue_submit_work(t, w) PROVE WorkInv'
    BY <2>3, SubmitInv
  <2>4. ASSUME NEW w \in Work, rt_workqueue_cancel_work(t, w) PROVE WorkInv'
    BY <2>4, CancelInv
  <2>5. ASSUME NEW w \in Work, rt_workqueue_cancel_work_sync(t, w) PROVE WorkInv'
    BY <2>5, QuietWork
  <2>6. CASE rt_workqueue_cancel_all_work(t)
    BY <2>6, CancelAllInv
  <2> QED BY <1>5, <2>1, <2>2, <2>3, <2>4, <2>5, <2>6 DEF Call
<1>6. CASE UNCHANGED vars
  BY <1>6 DEF vars, WorkInv, CpuInv, Types, History, Lists, Points, LockHolder, Parked,
              Token, AcceptedWorkKept, Held, InWait, RunsLocked
<1> QED BY <1>1, <1>2, <1>3, <1>4, <1>5, <1>6 DEF Next

\* The inductive invariant of the work queue (workqueue.c) on the kernel holds in every
\* reachable state.
THEOREM WorkInvariant == Spec => []WorkInv
  BY WorkInitInv, WorkNextInv, PTL DEF Spec

\* the invariant says what the properties say
LEMMA WorkInvMeaning ==
    ASSUME WorkInv
    PROVE  TypeOK /\ NoStrandedWork /\ AcceptedWorkKept
<1>1. TypeOK
  BY WorkInvParts DEF TypeOK, History
<1>2. NoStrandedWork
  BY DEF WorkInv, Parked, NoStrandedWork
<1> QED BY <1>1, <1>2 DEF WorkInv

\* only the end of a completion takes the worker from "complete" to "exit"
LEMMA CompletionStep ==
    WorkInv /\ [Next]_vars =>
        (pc[Worker] = "complete" /\ pc'[Worker] = "exit" =>
            k'.wait[sem] = <<>> /\ wq'.value = 0)
<1> SUFFICES ASSUME WorkInv, [Next]_vars, pc[Worker] = "complete", pc'[Worker] = "exit"
             PROVE  k'.wait[sem] = <<>> /\ wq'.value = 0
  OBVIOUS
<1>1. /\ pc' # pc /\ k.exec = Worker /\ CpuInv /\ pc \in [Thread -> WorkPc]
      /\ Worker \in Thread
  BY WorkInvParts DEF WorkInv, LockHolder, LockPc
<1>2. CASE CpuStep({})
  BY <1>1, <1>2, CpuStepInv
<1>3. CASE \E w \in Work : DevDowork(w) \/ delayed_work_timeout(w)
  BY <1>1, <1>3 DEF DevDowork, delayed_work_timeout
<1>4. CASE WorkerStep
  <2>1. CompletionExit
    BY <1>1, <1>4 DEF WorkerStep, WorkerSuspends, WorkerStarts, WorkDone, CompletionEnter,
                      CompletionRelease, ThreadSchedule, At
  <2> QED BY <2>1, CompletionExitInv
<1>5. ASSUME NEW t \in Thread, Running(t), Finish(t) \/ Call(t) PROVE FALSE
  <2>1. t = Worker
    BY <1>1, <1>5 DEF Running
  <2> QED BY <1>5, <2>1
          DEF Finish, Call, CpuFinish, CpuCall, ThreadSchedule, SleepReturn, StartTimer,
              SyncCancels, SyncWaits, SyncReturns, AllStep, AllTest, AllFirst, AllCancel, Startup,
              rt_enter_critical, rt_exit_critical, rt_thread_yield, rt_thread_sleep,
              rt_workqueue_dowork, rt_workqueue_urgent_work, rt_workqueue_submit_work,
              rt_workqueue_cancel_work, rt_workqueue_cancel_work_sync,
              rt_workqueue_cancel_all_work, Calls, At
<1>6. CASE UNCHANGED vars
  BY <1>1, <1>6 DEF vars
<1> QED BY <1>2, <1>3, <1>4, <1>5, <1>6 DEF Next

-----------------------------------------------------------------------------
\* Every variable keeps its type: queue->work_current, the lists and the semaphore of
\* the queue, and the kernel state under them.
THEOREM WorkTypes == Spec => []TypeOK
  BY WorkInvariant, WorkInvMeaning, PTL

\* The worker of _workqueue_thread_entry is never asleep over a list with a work,
\* whoever submits and wherever the worker stands between its test and rt_schedule.
THEOREM WorkNeverStranded == Spec => []NoStrandedWork
  BY WorkInvariant, WorkInvMeaning, PTL

\* A work that a submission accepted while it was not executing is in the work list, or
\* in the delayed list with its timer running or about to be started, until the worker
\* starts it or a cancel names it: neither a timer nor a refused submission, of any
\* thread or handler, drops it.
THEOREM WorkAccepted == Spec => []AcceptedWorkKept
  BY WorkInvariant, WorkInvMeaning, PTL

\* _workqueue_work_completion leaves the semaphore at 0 and nobody waiting on it.
THEOREM WorkCompletionWakes == Spec => CompletionWakesAll
<1>1. Spec => [][pc[Worker] = "complete" /\ pc'[Worker] = "exit" =>
                    k'.wait[sem] = <<>> /\ wq'.value = 0]_vars
  BY WorkInvariant, CompletionStep, PTL DEF Spec
<1> QED BY <1>1 DEF CompletionWakesAll

-----------------------------------------------------------------------------
(***************************************************************************)
(* The assertion of the timeout handler.  It depends on the application:   *)
(* a cancel by a second thread may fall between the section of a delayed   *)
(* submission and its rt_timer_start, and a work that is submitted both    *)
(* with and without a delay loses its queue when the worker starts it      *)
(* (WorkTimer shows the latter).  With neither, it always holds.           *)
(***************************************************************************)

\* the points inside a delayed submission or a cancel
ClientPc == {"arm", "cancel", "wait", "take", "took",
             "all", "first", "pick", "late", "latefirst", "latepick"}

\* c is the only thread that submits works with a delay and cancels, and no work is
\* submitted both with and without one
OneClient(c) ==
    /\ Now \cap Later = {}
    /\ \A t \in Thread \ {c} :
          App[t] \cap {"submit", "cancel", "cancel_sync", "cancel_all"} = {}

\* a running timer is of a delayed work that waits for it outside the work list; the
\* one that c is about to start is not running yet
TimerInv(c) ==
    /\ \A t \in Thread : pc[t] \in ClientPc => t = c
    /\ \A w \in wq.armed : /\ w \in Later /\ w \in wq.submitting
                           /\ w \in wq.attached /\ w \notin Range(wq.work_list)
    /\ pc[c] = "arm" => /\ arg[c] \in Later /\ arg[c] \in wq.submitting
                        /\ arg[c] \in wq.attached /\ arg[c] \notin Range(wq.work_list)
                        /\ arg[c] \notin wq.armed

\* a step that leaves c outside a delayed submission and only moves works of Now, or
\* nothing, in the lists
LEMMA TimerStep ==
    ASSUME NEW c \in Thread, OneClient(c), TimerInv(c),
           \A t \in Thread : pc'[t] \in ClientPc => pc[t] \in ClientPc \/ t = c,
           pc'[c] = "arm" => pc[c] = "arm" /\ arg'[c] = arg[c],
           wq'.armed = wq.armed, wq'.submitting = wq.submitting,
           \A w \in wq.attached : w \in wq'.attached \/ w \in Range(wq.work_list),
           \A w \in Range(wq'.work_list) : w \in Range(wq.work_list) \/ w \in Now
    PROVE  TimerInv(c)'
BY DEF TimerInv, OneClient

\* what the operations that link w add to the work list
LEMMA LinkedOnly ==
    ASSUME NEW w \in Work, NEW d,
           HasLists(wq', IF wq.work_current # w THEN WL \cup {w} ELSE WL \ {w}, d)
    PROVE  \A x \in Range(wq'.work_list) : x \in Range(wq.work_list) \/ x = w
<1>1. CASE wq.work_current # w
  BY <1>1 DEF HasLists, WL
<1>2. CASE wq.work_current = w
  BY <1>2 DEF HasLists, WL
<1> QED BY <1>1, <1>2

\* every step keeps it
LEMMA TimerNext ==
    ASSUME NEW c \in Thread, OneClient(c), WorkInv, TimerInv(c), [Next]_vars
    PROVE  TimerInv(c)'
<1>1. /\ HasLists(wq, WL, DL) /\ pc \in [Thread -> WorkPc]
      /\ arg \in [Thread -> Work \cup {None}] /\ CpuInv
  BY WorkInvParts DEF HasLists
<1>2. CASE CpuStep({}) /\ UNCHANGED <<wq, arg, owed, again>>
  <2>1. pc' = pc
    BY <1>2 DEF CpuStep, TickEnter, TickSchedule, TimerExpire, TickLeave, DevEnter,
                DevSchedule, DevLeave, PendSV_Handler
  <2> QED BY <1>2, <2>1, TimerStep
<1>3. ASSUME NEW w \in Work, DevDowork(w) PROVE TimerInv(c)'
  <2>1. pc' = pc /\ arg' = arg /\ SubmitNow(w) /\ w \in Now
    BY <1>3 DEF DevDowork, SubmitNow
  <2>2. /\ \A x \in Range(wq'.work_list) : x \in Range(wq.work_list) \/ x = w
        /\ wq'.submitting = wq.submitting /\ wq'.armed = wq.armed
        /\ wq.attached \subseteq wq'.attached
    BY <1>1, <2>1, SubmitNowQueue, LinkedOnly
  <2> QED BY <2>1, <2>2, TimerStep
<1>4. ASSUME NEW w \in Work, delayed_work_timeout(w) PROVE TimerInv(c)'
  <2>1. pc' = pc /\ arg' = arg /\ w \in wq.armed
    BY <1>4 DEF delayed_work_timeout
  <2>2. /\ \A x \in Range(wq'.work_list) : x \in Range(wq.work_list) \/ x = w
        /\ wq'.submitting = wq.submitting \ {w} /\ wq'.armed = wq.armed \ {w}
        /\ wq'.attached = wq.attached
    BY <1>1, <1>4, TimeoutQueue, LinkedOnly
  <2> QED BY <2>1, <2>2 DEF TimerInv
<1>5. CASE WorkerStep
  <2>1. /\ arg' = arg /\ Worker \in Thread
        /\ \E l \in WorkPc \ ClientPc : pc' = [pc EXCEPT ![Worker] = l]
    BY <1>1, <1>5, WorkAssumption
       DEF WorkerStep, WorkerSuspends, WorkerStarts, WorkDone, CompletionEnter,
           CompletionRelease, CompletionExit, ThreadSchedule, Goto, WorkPc, CpuPc, ClientPc,
           At
  <2>2. /\ \A t \in Thread : pc'[t] \in ClientPc => pc[t] \in ClientPc
        /\ pc'[c] = "arm" => pc[c] = "arm"
    BY <1>1, <2>1 DEF ClientPc
  <2>3. CASE WorkerStarts
    <3>1. wq.work_list # <<>> /\ wq.work_list \in Seq(Work)
      BY <1>1, <2>3 DEF WorkerStarts, HasLists, Queue
    <3>2. Head(wq.work_list) \in Range(wq.work_list)
      BY <3>1 DEF Range
    <3>3. /\ \A x \in Range(wq'.work_list) : x \in Range(wq.work_list)
          /\ wq'.submitting = wq.submitting /\ wq'.armed = wq.armed
          /\ wq'.attached = wq.attached \ {Head(wq.work_list)}
      BY <1>1, <2>3, StartQueue DEF HasLists, WL
    <3> QED BY <2>1, <2>2, <3>2, <3>3, TimerStep
  <2>4. CASE ~WorkerStarts
    <3>1. \/ wq' = wq
          \/ wq' = [wq EXCEPT !.work_current = None]
          \/ \E n \in Nat : wq' = [wq EXCEPT !.value = n]
      <4>1. wq.value \in Nat
        BY <1>1 DEF HasLists, Queue
      <4>2. CASE CompletionRelease
        <5>1. \E n \in {wq.value, wq.value + 1} : wq' = [wq EXCEPT !.value = n]
          BY <4>2 DEF CompletionRelease
        <5> QED BY <4>1, <5>1
      <4>3. CASE CompletionExit
        BY <4>1, <4>3 DEF CompletionExit
      <4> QED BY <1>5, <2>4, <4>2, <4>3
              DEF WorkerStep, WorkerSuspends, WorkDone, CompletionEnter
    <3>2. /\ wq'.submitting = wq.submitting /\ wq'.armed = wq.armed
          /\ wq'.attached = wq.attached /\ wq'.work_list = wq.work_list
      BY <1>1, <3>1, FieldQueue
    <3> QED BY <2>1, <2>2, <3>2, TimerStep
  <2> QED BY <2>3, <2>4
<1>6. ASSUME NEW t \in Thread, pc[t] # "arm", t = c,
             NEW l \in WorkPc \ {"arm"}, pc' = [pc EXCEPT ![t] = l],
             wq' = wq \/ \E w \in Work : CancelSection(w)
      PROVE  TimerInv(c)'
  <2>1. pc'[c] # "arm" /\ \A u \in Thread : u # c => pc'[u] = pc[u]
    BY <1>1, <1>6
  <2>2. CASE wq' = wq
    BY <2>1, <2>2, TimerStep
  <2>3. ASSUME NEW w \in Work, CancelSection(w) PROVE TimerInv(c)'
    <3>1. /\ \A x \in Range(wq'.work_list) : x \in Range(wq.work_list)
          /\ wq'.submitting = wq.submitting \ {w} /\ wq'.attached = wq.attached \ {w}
          /\ wq'.armed = IF w \in wq.submitting THEN wq.armed \ {w} ELSE wq.armed
      BY <1>1, <2>3, CancelQueue DEF HasLists, WL
    <3> QED BY <2>1, <3>1 DEF TimerInv
  <2> QED BY <1>6, <2>2, <2>3
<1>7. ASSUME NEW t \in Thread, NEW l \in WorkPc \ ClientPc, pc' = [pc EXCEPT ![t] = l],
             arg' = arg, wq' = wq
      PROVE  TimerInv(c)'
  <2>1. /\ \A u \in Thread : pc'[u] \in ClientPc => pc[u] \in ClientPc
        /\ pc'[c] = "arm" => pc[c] = "arm"
    BY <1>1, <1>7 DEF ClientPc
  <2> QED BY <1>7, <2>1, TimerStep
<1>8. ASSUME NEW t \in Thread, Running(t), Finish(t) PROVE TimerInv(c)'
  <2>1. CASE CpuFinish(t) /\ UNCHANGED <<wq, arg, owed, again>>
    <3>1. PICK l \in {"run", "slept"} : pc' = [pc EXCEPT ![t] = l]
      BY <2>1 DEF CpuFinish, ThreadSchedule, SleepReturn, Goto
    <3> QED BY <1>7, <2>1, <3>1 DEF WorkPc, CpuPc, ClientPc
  <2>2. CASE StartTimer(t)
    <3>1. /\ t = c /\ pc[c] = "arm" /\ pc' = [pc EXCEPT ![c] = "run"] /\ arg[c] \in Work
          /\ wq' = [wq EXCEPT !.armed = @ \cup {arg[c]}]
      BY <2>2 DEF StartTimer, TimerInv, ClientPc, At, Goto, Work
    <3>2. /\ wq'.submitting = wq.submitting /\ wq'.armed = wq.armed \cup {arg[c]}
          /\ wq'.attached = wq.attached /\ wq'.work_list = wq.work_list
      BY <1>1, <3>1, FieldQueue
    <3>3. pc'[c] # "arm" /\ \A u \in Thread : u # c => pc'[u] = pc[u]
      BY <1>1, <3>1
    <3> QED BY <3>1, <3>2, <3>3 DEF TimerInv
  <2>3. CASE \/ SyncCancels(t) \/ AllStep(t) \/ SyncWaits(t) \/ SyncReturns(t)
             \/ ThreadSchedule(t, "take", "took") /\ UNCHANGED <<wq, arg, owed, again>>
    <3>1. PICK m \in ClientPc \ {"arm"}, l \in WorkPc \ {"arm"} :
              pc[t] = m /\ pc' = [pc EXCEPT ![t] = l]
      BY <2>3 DEF SyncCancels, SyncWaits, SyncReturns, AllStep, AllTest, AllFirst, AllCancel,
                  ThreadSchedule, At, Goto, ClientPc, WorkPc, CpuPc
    <3>2. t = c /\ pc[t] # "arm"
      BY <3>1 DEF TimerInv
    <3>3. wq' = wq \/ \E w \in Work : CancelSection(w)
      <4>1. pc[t] \in {"cancel", "pick", "latepick"} => arg[t] \in Work
        BY DEF WorkInv, Points, ArgPc
      <4> QED BY <2>3, <4>1
              DEF SyncCancels, SyncWaits, SyncReturns, AllStep, AllTest, AllFirst, AllCancel, At
    <3> QED BY <1>6, <3>1, <3>2, <3>3
  <2> QED BY <1>8, <2>1, <2>2, <2>3 DEF Finish
<1>9. ASSUME NEW t \in Thread, Running(t), Call(t) PROVE TimerInv(c)'
  <2>1. CASE CpuCall(t) /\ UNCHANGED <<wq, arg, owed, again>>
    <3>1. \/ pc' = pc
          \/ \E l \in {"run", "sched", "sleep"} : pc' = [pc EXCEPT ![t] = l]
      BY <2>1 DEF CpuCall, Startup, rt_enter_critical, rt_exit_critical, rt_thread_yield,
                  rt_thread_sleep, SleepSection, Goto
    <3>2. CASE pc' = pc
      BY <2>1, <3>2, TimerStep
    <3> QED BY <1>7, <2>1, <3>1, <3>2 DEF WorkPc, CpuPc, ClientPc
  <2>2. ASSUME NEW w \in Work, rt_workqueue_dowork(t, w) \/ rt_workqueue_urgent_work(t, w)
        PROVE  TimerInv(c)'
    <3>1. PICK l \in {"run", "sched"} : pc' = [pc EXCEPT ![t] = l]
      BY <2>2 DEF rt_workqueue_dowork, rt_workqueue_urgent_work, Goto
    <3>2. arg' = arg /\ w \in Now
      BY <2>2 DEF rt_workqueue_dowork, rt_workqueue_urgent_work, SubmitNow
    <3>3. /\ \A x \in Range(wq'.work_list) : x \in Range(wq.work_list) \/ x = w
          /\ wq'.submitting = wq.submitting /\ wq'.armed = wq.armed
          /\ wq.attached \subseteq wq'.attached
      <4>1. CASE rt_workqueue_dowork(t, w)
        BY <1>1, <4>1, SubmitNowQueue, LinkedOnly DEF rt_workqueue_dowork
      <4>2. CASE rt_workqueue_urgent_work(t, w)
        BY <1>1, <4>2, UrgentQueue DEF HasLists, WL, SameButLists, rt_workqueue_urgent_work
      <4> QED BY <2>2, <4>1, <4>2
    <3>4. /\ \A u \in Thread : pc'[u] \in ClientPc => pc[u] \in ClientPc
          /\ pc'[c] = "arm" => pc[c] = "arm"
      BY <1>1, <3>1 DEF ClientPc
    <3> QED BY <3>2, <3>3, <3>4, TimerStep
  <2>3. ASSUME NEW w \in Work, rt_workqueue_submit_work(t, w) PROVE TimerInv(c)'
    <3>1. /\ t = c /\ w \in Later /\ pc' = [pc EXCEPT ![c] = "arm"]
          /\ arg' = [arg EXCEPT ![c] = w]
      BY <2>3 DEF rt_workqueue_submit_work, OneClient, Calls, Goto, SetArg
    <3>2. /\ Range(wq'.work_list) = Range(wq.work_list) \ {w}
          /\ wq'.submitting = wq.submitting \cup {w} /\ wq'.armed = wq.armed \ {w}
          /\ wq'.attached = wq.attached \cup {w}
      BY <1>1, <2>3, SubmitQueue DEF HasLists, WL, rt_workqueue_submit_work
    <3>3. arg'[c] = w /\ \A u \in Thread : u # c => pc'[u] = pc[u]
      BY <1>1, <3>1
    <3> QED BY <3>1, <3>2, <3>3 DEF TimerInv
  <2>4. ASSUME NEW w \in Work, rt_workqueue_cancel_work(t, w) PROVE TimerInv(c)'
    <3>1. /\ t = c /\ pc[t] = "run" /\ pc' = [pc EXCEPT ![t] = "run"] /\ CancelSection(w)
      BY <1>1, <2>4 DEF rt_workqueue_cancel_work, OneClient, Calls, At
    <3> QED BY <1>6, <3>1 DEF WorkPc, CpuPc
  <2>5. CASE \/ \E w \in Work : rt_workqueue_cancel_work_sync(t, w)
             \/ rt_workqueue_cancel_all_work(t)
    <3>1. /\ t = c /\ pc[t] = "run" /\ wq' = wq
      BY <2>5 DEF rt_workqueue_cancel_work_sync, rt_workqueue_cancel_all_work, OneClient,
                  Calls, At
    <3>2. PICK l \in {"wait", "cancel", "all"} : pc' = [pc EXCEPT ![t] = l]
      BY <2>5 DEF rt_workqueue_cancel_work_sync, rt_workqueue_cancel_all_work, Goto
    <3> QED BY <1>6, <3>1, <3>2 DEF WorkPc, CpuPc
  <2> QED BY <1>9, <2>1, <2>2, <2>3, <2>4, <2>5 DEF Call
<1>10. CASE UNCHANGED vars
  BY <1>10, TimerStep DEF vars
<1> QED BY <1>2, <1>3, <1>4, <1>5, <1>8, <1>9, <1>10 DEF Next

\* "RT_ASSERT(queue != RT_NULL)" of _delayed_work_timeout_handler never fails while one
\* thread submits with a delay and cancels and no work is submitted both ways, however
\* its calls, the timers, the handler and the work functions interleave.
THEOREM TimersFindQueue ==
    ASSUME NEW c \in Thread, OneClient(c)
    PROVE  Spec => []TimerFindsQueue
<1>1. Init => TimerInv(c)
  <2> SUFFICES ASSUME Init PROVE TimerInv(c)
    OBVIOUS
  <2>1. wq.armed = {} /\ \A t \in Thread : pc[t] \in {"run", "loop"}
    BY DEF Init
  <2> QED BY <2>1 DEF TimerInv, ClientPc
<1>2. WorkInv /\ TimerInv(c) /\ [Next]_vars => TimerInv(c)'
  BY TimerNext
<1>3. TimerInv(c) => TimerFindsQueue
  BY DEF TimerInv, TimerFindsQueue
<1> QED BY WorkInvariant, <1>1, <1>2, <1>3, PTL DEF Spec
=============================================================================
