------------------------------- MODULE Escrow -------------------------------
(***************************************************************************)
(* What a duel promises about money, without decks, swipes or clocks: two  *)
(* parties lock coins, and one later step hands out everything that was    *)
(* locked, in one of four ways, and closes the escrow for good.            *)
(***************************************************************************)
EXTENDS Integers

CONSTANTS Users, NoUser, Amounts

VARIABLES
  phase,      \* "none", "pending", "active", "complete"
  party,      \* party[0] opened the escrow, party[1] matched it
  pot,        \* pot[s]: coins of party s still locked
  paid        \* coins handed out to each address

escrowVars == <<phase, party, pot, paid>>
Seats == {0, 1}
NoPot == [s \in Seats |-> 0]

Init ==
  /\ phase = "none" /\ party = [s \in Seats |-> NoUser]
  /\ pot = NoPot /\ paid = [u \in Users |-> 0]

Open(u, amount) ==
  /\ phase = "none" /\ phase' = "pending"
  /\ party' = [party EXCEPT ![0] = u]
  /\ pot' = [pot EXCEPT ![0] = amount]
  /\ UNCHANGED paid

\* The second party locks exactly as much as the first.
Match(u) ==
  /\ phase = "pending" /\ u # party[0] /\ phase' = "active"
  /\ party' = [party EXCEPT ![1] = u]
  /\ pot' = [pot EXCEPT ![1] = pot[0]]
  /\ UNCHANGED paid

\* Party s receives share[s].
Close(share) ==
  /\ phase' = "complete"
  /\ pot' = NoPot
  /\ paid' = [u \in Users |->
                paid[u] + (IF u = party[0] THEN share[0] ELSE 0)
                        + (IF u = party[1] THEN share[1] ELSE 0)]
  /\ UNCHANGED party

Cancel == phase = "pending" /\ Close(pot)

Return == phase = "active" /\ Close(pot)

Award(w) ==
  /\ phase = "active"
  /\ Close([s \in Seats |-> IF s = w THEN pot[0] + pot[1] ELSE 0])

Next ==
  \/ \E u \in Users, amount \in Amounts : Open(u, amount)
  \/ \E u \in Users : Match(u)
  \/ Cancel \/ Return
  \/ \E w \in Seats : Award(w)

Spec == Init /\ [][Next]_escrowVars
=============================================================================
