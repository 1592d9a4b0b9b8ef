---------------------------- MODULE LossyBuffer ----------------------------
(***************************************************************************)
(* What the receive FIFO of a serial device promises: characters come out  *)
(* in the order in which they arrived, each once, and when there is no     *)
(* room the oldest ones are lost, never the newest.                        *)
(***************************************************************************)
EXTENDS Integers, Sequences, SequencesExt

CONSTANTS Char,    \* the characters
          Burst,   \* the characters that can arrive at once
          Cap,     \* the unread characters there is room for
          None     \* nothing was read yet

VARIABLES queue,   \* the unread characters, oldest first
          got      \* what the last read returned

Bursts == BoundedSeq(Char, Burst)

Newest(s) == IF Len(s) <= Cap THEN s ELSE SubSeq(s, Len(s) - Cap + 1, Len(s))

Init == queue = <<>> /\ got = None

Arrive(cs) ==
    /\ queue' = Newest(queue \o cs)
    /\ UNCHANGED got

Read ==
    /\ queue # <<>>
    /\ got' = Head(queue)
    /\ queue' = Tail(queue)

Next ==
    \/ \E cs \in Bursts : Arrive(cs)
    \/ Read

Spec == Init /\ [][Next]_<<queue, got>>
=============================================================================
