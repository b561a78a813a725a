----------------------------- MODULE Lifecycle -----------------------------
(***************************************************************************)
(* The duel as the server sees it: in which state it is, which cards are   *)
(* settled, and when it may be closed; no money and no scores.  `Duel`     *)
(* implements it, and `Keeper` runs against it.  One transaction may settle*)
(* several cards and finalize (a programmable transaction block).          *)
(***************************************************************************)
EXTENDS Integers

CONSTANT Sizes      \* deck sizes

VARIABLES
  status,           \* "none", "pending", "active", "complete"
  size,             \* deck_size
  revealed,         \* the deck is on chain
  swiped,           \* cards swiped per seat
  settled,          \* cards with cards_settled[i]
  expired           \* the swipe window has passed

chainVars == <<status, size, revealed, swiped, settled, expired>>

Seats == {0, 1}
Cards == 0 .. (size - 1)
BothDone == \A s \in Seats : swiped[s] = size

Init ==
  /\ status = "none" /\ size = 0 /\ revealed = FALSE
  /\ swiped = [s \in Seats |-> 0] /\ settled = {} /\ expired = FALSE

Create ==
  /\ status = "none" /\ status' = "pending"
  /\ size' \in Sizes
  /\ UNCHANGED <<revealed, swiped, settled, expired>>

Join ==
  /\ status = "pending" /\ status' = "active"
  /\ UNCHANGED <<size, revealed, swiped, settled, expired>>

Cancel ==
  /\ status = "pending" /\ status' = "complete"
  /\ UNCHANGED <<size, revealed, swiped, settled, expired>>

RevealDeck ==
  /\ status = "active" /\ ~revealed /\ revealed' = TRUE
  /\ UNCHANGED <<status, size, swiped, settled, expired>>

\* In turn, and only within the swipe window.
SwipeCard(s) ==
  /\ status = "active" /\ revealed /\ ~expired
  /\ swiped[s] < size
  /\ swiped' = [swiped EXCEPT ![s] = @ + 1]
  /\ UNCHANGED <<status, size, revealed, settled, expired>>

\* Each card of the batch once; the batch succeeds as a whole or not at all.
SettleCards(batch) ==
  /\ status = "active" /\ revealed
  /\ batch # {} /\ batch \subseteq Cards \ settled
  /\ settled' = settled \cup batch
  /\ UNCHANGED <<status, size, revealed, swiped, expired>>

\* Settle a batch and close: by the score once both players are done and
\* every card is settled, without it only after the window.
CloseAfter(batch) ==
  /\ status = "active" /\ (batch # {} => revealed)
  /\ batch \subseteq Cards \ settled
  /\ \/ BothDone /\ settled \cup batch = Cards
     \/ ~BothDone /\ expired
  /\ status' = "complete" /\ settled' = settled \cup batch
  /\ UNCHANGED <<size, revealed, swiped, expired>>

Elapse ==
  /\ status \in {"active", "complete"} /\ ~expired /\ expired' = TRUE
  /\ UNCHANGED <<status, size, revealed, swiped, settled>>

Next ==
  \/ Create \/ Join \/ Cancel \/ RevealDeck \/ Elapse
  \/ \E s \in Seats : SwipeCard(s)
  \/ \E batch \in SUBSET Cards : SettleCards(batch) \/ CloseAfter(batch)

Spec == Init /\ [][Next]_chainVars
=============================================================================
