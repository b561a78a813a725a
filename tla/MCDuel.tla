------------------------------- MODULE MCDuel -------------------------------
(***************************************************************************)
(* Finite instances of Duel: addresses are interchangeable.                *)
(***************************************************************************)
EXTENDS Duel, TLC

Perms == Permutations(Users)
=============================================================================
