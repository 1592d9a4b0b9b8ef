---------------------------- MODULE MCWorkqueue ----------------------------
(* Instances of Workqueue: a and the worker are peers, b is below them. *)
EXTENDS Workqueue

CONSTANTS a, b

MCBasePrio == [t \in Thread |-> CASE t = Idle -> 2 [] t = b -> 1 [] OTHER -> 0]
MCInitTick == [t \in Thread |-> 1]

\* a submits and cancels; the work functions submit works too, and sleep; b cancels
\* synchronously while a waits and the worker sleeps, so that two threads may wait for
\* one work, and no cancel falls between the section of a delayed submission and its
\* rt_timer_start
AppWork ==
    (a :> {"startup", "urgent", "submit", "cancel", "cancel_sync", "cancel_all"})
    @@ (b :> {"cancel_sync"})
    @@ (Worker :> {"sleep", "dowork"})
    @@ (Idle :> {})
=============================================================================
