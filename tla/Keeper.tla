------------------------------- MODULE Keeper -------------------------------
(***************************************************************************)
(* The settled-redeem keeper (keeper.ts) following one duel on the chain of*)
(* module Lifecycle: `sweep` starts `tryClose`, which reads the duel, then *)
(* reveals its deck or settles the cards whose markets have settled, and   *)
(* finalizes with the last of them.  Between the read and the moment its   *)
(* transaction executes anybody else may change the duel.                  *)
(*                                                                         *)
(* A transaction lost on the way, an RPC error and a crash are faults; a   *)
(* transaction whose answer never came may still execute later.  Prices and*)
(* premiums carry no state the keeper decides on.                          *)
(***************************************************************************)
EXTENDS Integers

CONSTANTS
  Sizes,            \* deck sizes
  Markets,          \* expiry markets
  MarketOf,         \* MarketOf[i]: the market of card i
  Outsiders,        \* TRUE: others settle cards and finalize too
  AccountsFound,    \* TRUE: both players' AccountWrappers are found
  RedeemBlocks,     \* TRUE: redeeming a closed position aborts (external)
  LooseText,        \* TRUE: any error text may hold "16", "2)" or the like
  MaxFaults         \* bound on RPC errors, lost answers and restarts

ASSUME KeeperAssumption ==
  /\ Sizes \subseteq Nat
  /\ {Outsiders, AccountsFound, RedeemBlocks} \subseteq BOOLEAN
  /\ LooseText \in BOOLEAN /\ MaxFaults \in Nat

VARIABLES
  status, size, revealed, swiped, settled, expired,   \* the chain
  redeemed,         \* cards with a position already redeemed on Predict
  marketsSettled,   \* markets with a settlement price
  deckKnown,        \* fetchDeck finds the plaintext of the committed deck
  buried,           \* 30 newer duels exist: the sweep no longer returns it
  stage,            \* where tryClose is: "idle", "reading", "sent"
  snap,             \* cards_settled in the copy of the duel it works on
  tx,               \* the transaction it awaits
  orphans,          \* transactions nobody awaits any more
  finalizedIds,     \* this.finalized has the duel
  revealedIds,      \* this.revealed has the duel
  faults

Chain == INSTANCE Lifecycle
chainVars == <<status, size, revealed, swiped, settled, expired>>
Cards == Chain!Cards
BothDone == Chain!BothDone

worldVars == <<redeemed, marketsSettled, deckKnown, buried>>
keeperVars == <<stage, snap, tx, orphans, finalizedIds, revealedIds, faults>>
vars == <<chainVars, worldVars, keeperVars>>

Reveal == [kind |-> "reveal", batch |-> {}, finalize |-> FALSE]
Settle(batch, final) == [kind |-> "settle", batch |-> batch, finalize |-> final]
NoTx == [kind |-> "none", batch |-> {}, finalize |-> FALSE]

Init ==
  /\ Chain!Init
  /\ redeemed = {} /\ marketsSettled = {}
  /\ deckKnown \in BOOLEAN /\ buried = FALSE
  /\ stage = "idle" /\ snap = {} /\ tx = NoTx /\ orphans = {}
  /\ finalizedIds = FALSE /\ revealedIds = FALSE /\ faults = 0

Fault == faults < MaxFaults /\ faults' = faults + 1

-----------------------------------------------------------------------------
(* tryClose. *)

Await(t) == stage' = "sent" /\ tx' = t

\* tryReveal on a copy without cards; tryClose then returns.
tryReveal ==
  \/ /\ ~revealedIds /\ deckKnown
     /\ Await(Reveal)
  \/ /\ revealedIds \/ ~deckKnown
     /\ UNCHANGED <<stage, tx>>

bothDone == swiped[0] = size /\ swiped[1] = size

\* tryClose up to its next await, on the copy just read.
tryClose ==
  /\ stage = "idle"                     \* inFlight
  /\ ~finalizedIds /\ ~buried
  /\ \/ /\ status = "complete"
        /\ finalizedIds' = TRUE
        /\ UNCHANGED <<stage, snap, tx, revealedIds>>
     \/ /\ status = "active" /\ ~revealed
        /\ tryReveal
        /\ UNCHANGED <<snap, finalizedIds, revealedIds>>
     \/ /\ status = "active" /\ revealed
        /\ revealedIds' = TRUE
        /\ \/ /\ bothDone
              /\ stage' = "reading" /\ snap' = settled
           \/ ~bothDone /\ UNCHANGED <<stage, snap>>
        /\ UNCHANGED <<tx, finalizedIds>>
  /\ UNCHANGED <<chainVars, worldVars, orphans, faults>>

\* Cards open in the copy whose market was seen settled.
readyCardIndices(seen) == {i \in Cards \ snap : MarketOf[i] \in seen}

\* Mutant: cards settled in earlier batches do not count.
willFinalize_OneBatch(ready) == ready = Cards

willFinalize(ready) == snap \cup ready = Cards

\* The markets were read (a failed read counts as unsettled): settle what is
\* ready, and finalize when that is the rest of the deck.  Without the account
\* of either player every poll ends here.
SubmitSettle(seen) ==
  LET ready == readyCardIndices(seen) IN
  /\ stage = "reading"
  /\ \/ (ready = {} \/ ~AccountsFound) /\ stage' = "idle" /\ UNCHANGED tx
     \/ ready # {} /\ AccountsFound /\ Await(Settle(ready, willFinalize(ready)))
  /\ UNCHANGED <<chainVars, worldVars, snap, orphans, finalizedIds, revealedIds>>

MarketsRead == SubmitSettle(marketsSettled) /\ UNCHANGED faults
SomeReadsFail == \E seen \in SUBSET marketsSettled : SubmitSettle(seen) /\ Fault

-----------------------------------------------------------------------------
(* The chain executes a keeper transaction, or aborts it whole. *)

\* settle_card and finalize go through, a redeem of the batch may not.
RedeemFails(t) ==
  RedeemBlocks /\ t.batch \cap settled = {} /\ t.batch \cap redeemed # {}

\* reveal_deck; or settle_card and redeem for the batch, and finalize.
Execute(t) ==
  /\ ~RedeemFails(t)
  /\ \/ t.kind = "reveal" /\ Chain!RevealDeck
     \/ t.kind = "settle" /\ ~t.finalize /\ Chain!SettleCards(t.batch)
     \/ /\ t.kind = "settle" /\ t.finalize
        /\ settled \cup t.batch = Cards /\ BothDone
        /\ Chain!CloseAfter(t.batch)
  /\ redeemed' = redeemed \cup t.batch
  /\ UNCHANGED <<marketsSettled, deckKnown, buried>>

Executable(t) ==
  /\ status = "active" /\ ~RedeemFails(t)
  /\ \/ t.kind = "reveal" /\ ~revealed
     \/ /\ t.kind = "settle" /\ revealed
        /\ t.batch \cap settled = {}
        /\ t.finalize => settled \cup t.batch = Cards /\ BothDone

Done == stage' = "idle" /\ tx' = NoTx

\* signAndExecuteTransaction succeeded.
Succeeds ==
  /\ stage = "sent"
  /\ Execute(tx)
  /\ Done
  /\ revealedIds' = (revealedIds \/ tx.kind = "reveal")
  /\ finalizedIds' = (finalizedIds \/ tx.finalize)
  /\ UNCHANGED <<snap, orphans, faults>>

\* Mutant: every abort ends the duel for the keeper.
isTerminalSettleError_Any == TRUE

\* The text says EDuelNotActive (or has "2)"), or names decrease_position.
isTerminalSettleError ==
  status # "active" \/ LooseText \/ RedeemFails(tx)

\* It aborted.  A failed result is only logged, an exception is classified:
\* a terminal one ends the duel for the keeper.
SettleAborts ==
  /\ stage = "sent" /\ tx.kind = "settle" /\ ~Executable(tx)
  /\ Done
  /\ \/ finalizedIds' = (finalizedIds \/ isTerminalSettleError)
     \/ UNCHANGED finalizedIds
  /\ UNCHANGED <<chainVars, worldVars, snap, orphans, revealedIds, faults>>

\* EDeckAlreadyRevealed (reason.includes("16")) counts as revealed when the
\* result carries a reason; an exception is classified by tryClose.
RevealAborts ==
  /\ stage = "sent" /\ tx.kind = "reveal" /\ ~Executable(tx)
  /\ Done
  /\ \/ revealedIds' = (revealedIds \/ revealed \/ LooseText)
     \/ UNCHANGED revealedIds
  /\ \/ finalizedIds' = (finalizedIds \/ isTerminalSettleError)
     \/ UNCHANGED finalizedIds
  /\ UNCHANGED <<chainVars, worldVars, snap, orphans, faults>>

\* Mutant: the duel is marked before the transaction is known to succeed.
RevealRefused_Marks ==
  /\ stage = "sent" /\ tx.kind = "reveal"
  /\ Done /\ Fault
  /\ revealedIds' = TRUE
  /\ UNCHANGED <<chainVars, worldVars, snap, orphans, finalizedIds>>

\* The reveal failed for another reason (gas, a locked object); "16" in the
\* text counts as EDeckAlreadyRevealed.
RevealRefused ==
  /\ stage = "sent" /\ tx.kind = "reveal"
  /\ Done /\ Fault
  /\ revealedIds' \in {revealedIds, revealedIds \/ LooseText}
  /\ UNCHANGED <<chainVars, worldVars, snap, orphans, finalizedIds>>

\* No answer: the call throws, the transaction may be lost or still execute.
AnswerLost ==
  /\ stage = "sent"
  /\ Done /\ Fault
  /\ orphans' = orphans \cup {tx}
  /\ finalizedIds' \in {finalizedIds, finalizedIds \/ LooseText}
  /\ UNCHANGED <<chainVars, worldVars, snap, revealedIds>>

\* The process restarts with empty sets; its transaction is on its way.
Restart ==
  /\ stage' = "idle" /\ tx' = NoTx /\ snap' = {}
  /\ orphans' = IF stage = "sent" THEN orphans \cup {tx} ELSE orphans
  /\ finalizedIds' = FALSE /\ revealedIds' = FALSE
  /\ Fault
  /\ UNCHANGED <<chainVars, worldVars>>

OrphanEnds(t) ==
  /\ t \in orphans /\ orphans' = orphans \ {t}
  /\ \/ Execute(t)
     \/ UNCHANGED <<chainVars, worldVars>>
  /\ UNCHANGED <<stage, snap, tx, finalizedIds, revealedIds, faults>>

-----------------------------------------------------------------------------
(* Everybody else. *)

\* Players, and anybody who calls the permissionless entry functions.
ChainStep ==
  /\ \/ Chain!Create \/ Chain!Join \/ Chain!Cancel \/ Chain!Elapse
     \/ \E s \in Chain!Seats : Chain!SwipeCard(s)
     \/ deckKnown /\ Chain!RevealDeck
     \/ ~BothDone /\ Chain!CloseAfter({})
     \/ Outsiders /\ \E batch \in SUBSET Cards : Chain!SettleCards(batch) \/ Chain!CloseAfter(batch)
  /\ UNCHANGED <<worldVars, keeperVars>>

\* A player, or the permissionless redeem, closes a position of card i.
PositionRedeemed(i) ==
  /\ Outsiders /\ i \in Cards \ redeemed
  /\ \E s \in Chain!Seats : swiped[s] > i
  /\ redeemed' = redeemed \cup {i}
  /\ UNCHANGED <<chainVars, marketsSettled, deckKnown, buried, keeperVars>>

MarketSettles(m) ==
  /\ m \notin marketsSettled
  /\ marketsSettled' = marketsSettled \cup {m}
  /\ UNCHANGED <<chainVars, redeemed, deckKnown, buried, keeperVars>>

NewerDuels ==
  /\ status # "none" /\ ~buried /\ buried' = TRUE
  /\ UNCHANGED <<chainVars, redeemed, marketsSettled, deckKnown, keeperVars>>

\* Nothing is left to do for a closed duel, or for one the sweep lost.
Idling == (status = "complete" \/ buried) /\ UNCHANGED vars

KeeperStep ==
  tryClose \/ MarketsRead \/ Succeeds \/ SettleAborts \/ RevealAborts

FaultStep == SomeReadsFail \/ RevealRefused \/ AnswerLost \/ Restart

Next ==
  \/ KeeperStep \/ FaultStep
  \/ \E t \in orphans : OrphanEnds(t)
  \/ ChainStep \/ NewerDuels \/ Idling
  \/ \E i \in Cards : PositionRedeemed(i)
  \/ \E m \in Markets : MarketSettles(m)

Spec == Init /\ [][Next]_vars

(* The loop polls for ever, every call answers or faults, and the markets  *)
(* are settled by their operator.  Faults, players and others may stop.    *)
Fairness ==
  /\ WF_vars(tryClose) /\ WF_vars(MarketsRead)
  /\ WF_vars(Succeeds \/ SettleAborts \/ RevealAborts)
  /\ \A m \in Markets : WF_vars(MarketSettles(m))

FairSpec == Spec /\ Fairness

-----------------------------------------------------------------------------
(* Properties. *)

TX == [kind : {"none", "reveal", "settle"}, batch : SUBSET Cards, finalize : BOOLEAN]

TypeOK ==
  /\ status \in {"none", "pending", "active", "complete"}
  /\ size \in Nat /\ revealed \in BOOLEAN /\ expired \in BOOLEAN
  /\ swiped \in [{0, 1} -> 0 .. size] /\ settled \subseteq Cards
  /\ redeemed \subseteq Cards /\ marketsSettled \subseteq Markets
  /\ deckKnown \in BOOLEAN /\ buried \in BOOLEAN
  /\ stage \in {"idle", "reading", "sent"} /\ snap \subseteq Cards
  /\ tx \in TX /\ orphans \subseteq TX
  /\ finalizedIds \in BOOLEAN /\ revealedIds \in BOOLEAN
  /\ faults \in 0 .. MaxFaults

\* The keeper never writes off a live duel: `finalized` holds only duels that
\* are over, whoever closed them and whatever became of the keeper's own
\* transactions.  The exceptions are the documented one, a position redeemed
\* behind its back that makes the redeem in its batch fail, and an error text
\* that happens to look like EDuelNotActive.
FinalizedIsComplete ==
  finalizedIds => \/ status = "complete"
                  \/ RedeemBlocks /\ redeemed # {}
                  \/ LooseText

\* `revealed` holds only duels whose deck is on chain, if an error text that
\* holds "16" means EDeckAlreadyRevealed.
RevealedIsRevealed == revealedIds => revealed \/ LooseText

\* A batch that settles the last open cards closes the duel too, unless a
\* card was settled by somebody else between the read and the transaction.
LastBatchCloses ==
  [][stage = "sent" /\ stage' = "idle" /\ snap = settled /\ settled' # settled
       => (settled' = Cards <=> status' = "complete")]_vars

\* Once both players are done every card is settled in the end, through
\* restarts, failed reads, lost answers and other people's transactions,
\* unless a redeem that must fail is in the way or a player has no account.
EventuallySettled ==
  (~LooseText /\ AccountsFound /\ [](~buried /\ (RedeemBlocks => redeemed \subseteq settled))) =>
    ((status = "active" /\ revealed /\ BothDone)
       ~> (settled = Cards \/ status = "complete"))

\* A known deck of an active duel is revealed, unless the duel ends first.
EventuallyRevealed ==
  (~LooseText /\ []~buried) =>
    ((status = "active" /\ deckKnown) ~> (revealed \/ status = "complete"))

\* Nothing the keeper still has to do for a live duel is given up, but for what
\* these two name: a redeem that must fail (keeper.ts:640), a missing account
\* (545-548), a buried duel, a misread error text.
EventuallyDone == EventuallyRevealed /\ EventuallySettled

\* When both players are done the duel is closed and the pot paid out.
EventuallyClosed ==
  (~LooseText /\ AccountsFound /\ []~buried) =>
    ((status = "active" /\ revealed /\ BothDone) ~> status = "complete")
=============================================================================
