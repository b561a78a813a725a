----------------------------- MODULE MCIndexer -----------------------------
(***************************************************************************)
(* Finite instances of Indexer.                                            *)
(***************************************************************************)
EXTENDS Indexer

OneDuel == {"d1"}

\* The behaviours of Spec in which the chain waits for the first boot, so that no
\* cursor is seeded past an event.
SpecFromBoot == Init /\ [][Next /\ (pc \in {"down", "seed"} => UNCHANGED log)]_vars
=============================================================================
