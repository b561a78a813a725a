----------------------------- MODULE MCPractice -----------------------------
(***************************************************************************)
(* A practice match of two cards that settle one after the other.          *)
(***************************************************************************)
EXTENDS Practice

OneThenThree == [c \in 0 .. 1 |-> 2 * c + 1]
=============================================================================
