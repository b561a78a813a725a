---------------------------- MODULE MCActiveDuel ----------------------------
(***************************************************************************)
(* Finite instances of ActiveDuel.                                         *)
(***************************************************************************)
EXTENDS ActiveDuel
=============================================================================
