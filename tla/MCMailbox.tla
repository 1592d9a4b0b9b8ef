----------------------------- MODULE MCMailbox -----------------------------
(* Instances of Mailbox: two application threads above the idle thread. *)
EXTENDS Mailbox

CONSTANTS hi, lo

MCBasePrio == (hi :> 0) @@ (lo :> 1) @@ (Idle :> 2)
MCInitTick == (hi :> 1) @@ (lo :> 1) @@ (Idle :> 1)

\* messages are only passed on
Alike == Permutations(Message)

\* both threads receive; the higher one sends and waits for room, the lower one sends
\* urgently, resets and detaches the mailbox; the handler sends
AppMail ==
    (hi :> {"startup", "recv", "send"}) @@ (lo :> {"recv", "urgent", "reset", "detach"})
    @@ (Idle :> {})
=============================================================================
