----------------------------- MODULE MCThreads -----------------------------
(* An instance of Threads: hi above the peers a and b above the idle thread. *)
EXTENDS Threads

CONSTANTS hi, a, b

MCBasePrio == [t \in Thread |-> CASE t = hi -> 0 [] t = Idle -> 2 [] OTHER -> 1]
MCInitTick == [t \in Thread |-> 1]

Of(onHi, onA, onB) ==
    [t \in Thread |-> CASE t = hi -> onHi [] t = a -> onA [] t = b -> onB
                        [] OTHER -> {}]

\* hi sleeps, creates and starts a, and resumes, re-prioritises, closes and deletes
\* it; a yields, suspends itself, reschedules and exits; b wakes up periodically,
\* changes its own priority and closes itself
AppAll ==
    Of({"startup", "create", "sleep", "priority", "delete", "close", "resume"},
       {"yield", "exit", "suspend", "schedule"}, {"delay_until", "priority", "close"})

\* who operates on whom: a thread that waits with a timeout is not closed by another
MCTargets == Of({a}, {}, {b})
=============================================================================
