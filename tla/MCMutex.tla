------------------------------ MODULE MCMutex ------------------------------
(* Instances of Mutex: three threads of falling urgency above the idle thread. *)
EXTENDS Mutex

CONSTANTS hi, mid, lo

MCBasePrio ==
    [t \in Thread |-> CASE t = hi -> 0 [] t = mid -> 1 [] t = lo -> 2 [] OTHER -> 3]
MCInitTick == [t \in Thread |-> 1]

AppOf(onHi, onMid, onLo) ==
    [t \in Thread |-> CASE t = hi -> onHi [] t = mid -> onMid [] t = lo -> onLo
                        [] OTHER -> {}]
Lock == {"take", "release"}

\* every thread takes and releases; the highest starts the others, the lowest
\* detaches the mutex
AppAll ==
    AppOf(Lock \cup {"startup", "sleep"}, Lock \cup {"sleep"},
          Lock \cup {"sleep", "detach"})

\* two threads nest mutexes and a third waits for one of them
AppNested == AppOf(Lock \cup {"startup", "sleep"}, Lock, Lock)
=============================================================================
