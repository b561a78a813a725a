------------------------------- MODULE Mirror -------------------------------
(***************************************************************************)
(* What the database mirror of the duels promises its readers: a row is a  *)
(* copy of the duel as it was at some moment, and a newer copy never gives *)
(* way to an older one.  It does not promise that the last copy is made.   *)
(* `Indexer` implements it; `ActiveDuel` allows its page any older row.    *)
(***************************************************************************)
EXTENDS Integers

CONSTANT Ids              \* duels

VARIABLES
  ver,                    \* how far the duel has come on the chain
  row                     \* how far the copy in the mirror has, 0 if none

mirrorVars == <<ver, row>>

Init == ver = [d \in Ids |-> 0] /\ row = [d \in Ids |-> 0]

\* A transaction changes the duel.
Advance(d) ==
  /\ ver'[d] > ver[d] /\ ver' = [ver EXCEPT ![d] = ver'[d]]
  /\ UNCHANGED row

\* A copy that was read some time ago is written.
Copy(d) ==
  /\ \E v \in row[d] .. ver[d] : v > row[d] /\ row' = [row EXCEPT ![d] = v]
  /\ UNCHANGED ver

Next == \E d \in Ids : Advance(d) \/ Copy(d)

Spec == Init /\ [][Next]_mirrorVars
=============================================================================
