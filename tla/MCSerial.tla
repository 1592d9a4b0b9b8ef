------------------------------ MODULE MCSerial ------------------------------
(* An instance of Serial: the shell, and a thread of its priority that also reads. *)
EXTENDS Serial

CONSTANTS app, shell

MCBasePrio == (app :> 0) @@ (shell :> 0) @@ (Idle :> 1)
MCInitTick == (app :> 1) @@ (shell :> 1) @@ (Idle :> 1)

\* the characters are interchangeable
Alike == Permutations(Char)

AppSerial ==
    (app :> {"startup", "read"}) @@ (shell :> {"getchar"}) @@ (Idle :> {})
=============================================================================
