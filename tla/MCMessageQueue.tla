-------------------------- MODULE MCMessageQueue --------------------------
(* Instances of MessageQueue: two application threads above the idle thread. *)
EXTENDS MessageQueue

CONSTANTS hi, lo

MCBasePrio == (hi :> 0) @@ (lo :> 1) @@ (Idle :> 2)
MCInitTick == (hi :> 1) @@ (lo :> 1) @@ (Idle :> 1)

\* messages are only passed on
Alike == Permutations(Message)

\* both threads receive and reset the queue, the higher one also while the lower one has
\* a node in hand; the higher one sends and waits for room, the lower one sends urgently
\* and detaches the queue; the handler sends
AppQueue ==
    (hi :> {"startup", "recv", "send", "reset"}) @@ (lo :> {"recv", "urgent", "reset", "detach"})
    @@ (Idle :> {})
=============================================================================
