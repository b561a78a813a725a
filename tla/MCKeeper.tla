------------------------------ MODULE MCKeeper ------------------------------
(***************************************************************************)
(* Finite instances of Keeper: two cards on two markets that settle in any *)
(* order.                                                                  *)
(***************************************************************************)
EXTENDS Keeper

TwoMarkets == [i \in {0, 1} |-> IF i = 0 THEN "short" ELSE "long"]
MarketNames == {"short", "long"}
=============================================================================
