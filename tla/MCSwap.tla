------------------------------- MODULE MCSwap -------------------------------
(***************************************************************************)
(* A finite instance of Swap.                                              *)
(***************************************************************************)
EXTENDS Swap
=============================================================================
