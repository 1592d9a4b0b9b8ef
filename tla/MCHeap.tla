------------------------------- MODULE MCHeap -------------------------------
(* An instance of Heap in units of two bytes: the alignment, header and        *)
(* smallest block of the build (4, 12 and 12 bytes).                           *)
EXTENDS Heap

MCRequest == {1, 6, 8, 11, 22, 50}
=============================================================================
