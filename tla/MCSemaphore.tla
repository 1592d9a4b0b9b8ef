---------------------------- MODULE MCSemaphore ----------------------------
(* Instances of Semaphore: two application threads above the idle thread. *)
EXTENDS Semaphore

CONSTANTS hi, lo, s1

MCBasePrio == (hi :> 0) @@ (lo :> 1) @@ (Idle :> 2)
PeerPrio == (hi :> 1) @@ (lo :> 1) @@ (Idle :> 2)
MCInitTick == (hi :> 1) @@ (lo :> 2) @@ (Idle :> 1)
PrioFlag == s1 :> "PRIO"
NoTokens == s1 :> 0

AppOf(onHi, onLo) == (hi :> onHi) @@ (lo :> onLo) @@ (Idle :> {})

\* both threads take and release, under the scheduler lock at times; the lower one also
\* resets and detaches; a device handler releases and tries to take
AppShared ==
    AppOf({"take", "release", "startup", "critical"},
          {"take", "release", "reset", "critical", "sleep", "detach"})

\* two peers: one takes with a timeout and sleeps, the other never blocks
AppPeers == AppOf({"take", "startup", "sleep"}, {"release"})
=============================================================================
