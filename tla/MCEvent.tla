------------------------------ MODULE MCEvent ------------------------------
(* An instance of Event: two threads above the idle thread. *)
EXTENDS Event

CONSTANTS hi, lo

MCBasePrio == (hi :> 0) @@ (lo :> 1) @@ (Idle :> 2)
MCInitTick == (hi :> 1) @@ (lo :> 1) @@ (Idle :> 1)

\* the flags are interchangeable
Alike == Permutations(EventFlag)

\* both wait for flags, the lower one also sends, resets and detaches
AppEvent ==
    (hi :> {"startup", "recv"}) @@ (lo :> {"recv", "send", "reset", "detach"})
    @@ (Idle :> {})
=============================================================================
