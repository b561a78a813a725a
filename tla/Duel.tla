-------------------------------- MODULE Duel --------------------------------
(***************************************************************************)
(* One shared `Duel` object of the Move module `flicky::duel`: the escrow  *)
(* of the two stakes, the committed deck, both players' swipes, the        *)
(* per-card settlements and the four ways the duel ends.  Every entry      *)
(* function is one action; a Move abort is a disabled action.  Which       *)
(* address signs, which coin is put up and which prices and premiums the   *)
(* caller feeds are inputs, chosen from small sets.                        *)
(*                                                                         *)
(* Seat 0 is the creator (`p0_*`), seat 1 the challenger (`p1_*`).  Cards  *)
(* are indexed from 0 as in the code.                                      *)
(***************************************************************************)
EXTENDS Integers, FiniteSets, Functions

CONSTANTS
  Users,              \* addresses that can sign a transaction
  NoUser,             \* the address @0x0
  Stakes,             \* values of the coins put up by create and join
  DeckSizes,          \* deck_size arguments of create_duel
  Strikes,            \* strikes of the cards
  Prices,             \* settlement prices fed to settle_card
  Premiums,           \* premiums fed to settle_card
  Quantities,         \* quantities of staked swipes
  PROB_SCALE,         \* normalised quantity of a free swipe
  MIN_DECK_SIZE, MAX_DECK_SIZE,
  SWIPE_WINDOW_MS, REVEAL_TIMEOUT_MS, REFUND_TIMEOUT_MS,
  MAX_U64,            \* largest u64: an addition beyond it aborts
  MaxIdle             \* bound on the clock until a challenger joins

ASSUME DuelAssumption ==
  /\ NoUser \notin Users
  /\ Stakes \subseteq Nat /\ Strikes \subseteq Nat /\ Prices \subseteq Nat
  /\ Premiums \subseteq Nat /\ Quantities \subseteq Nat
  /\ DeckSizes \subseteq Nat
  /\ PROB_SCALE \in Nat /\ MAX_U64 \in Nat /\ MaxIdle \in Nat
  /\ MIN_DECK_SIZE \in Nat \ {0} /\ MAX_DECK_SIZE \in Nat
  /\ SWIPE_WINDOW_MS \in Nat /\ REVEAL_TIMEOUT_MS \in Nat
  /\ REFUND_TIMEOUT_MS \in Nat
  /\ SWIPE_WINDOW_MS <= REVEAL_TIMEOUT_MS
  /\ SWIPE_WINDOW_MS <= REFUND_TIMEOUT_MS

VARIABLES
  status, tier, deckSize,
  deckHash,           \* the deck whose hash the creator committed
  cards,              \* the revealed deck, NoDeck before reveal_deck
  creator, challenger,
  stake,              \* stake[s]: balance p<s>_stake still in escrow
  swipes,             \* swipes[s][i]: the swipe of seat s on card i, or NoSwipe
  nextIdx,            \* p0_next_card_idx, p1_next_card_idx
  settled,            \* cards i with cards_settled[i] = true
  settlementPrice,    \* card_settlement_prices, 0 when unsettled
  settledCount,
  payout, premium,    \* running totals per seat
  startedAt,
  outcome,            \* the terminal event emitted, if any
  now,                \* Clock.timestamp_ms()
  held,               \* <<s, i>>: seat s's account holds the position of card i
  paid,               \* coins each address has received from the duel
  staked              \* history: what each seat put up

duelVars == <<status, tier, deckSize, deckHash, cards, creator, challenger,
              stake, swipes, nextIdx, settled, settlementPrice, settledCount,
              payout, premium, startedAt, outcome>>
vars == <<duelVars, now, held, paid, staked>>

Seats == {0, 1}
Other(s) == 1 - s
Player(s) == IF s = 0 THEN creator ELSE challenger

CardIdx(n) == 0 .. (n - 1)
Cards == CardIdx(deckSize)
Decks == UNION {[CardIdx(n) -> Strikes] : n \in DeckSizes}
NoDeck == [i \in {} |-> 0]
revealed == cards # NoDeck

NoSwipe == [is_up |-> FALSE, quantity |-> 0, recorded |-> FALSE]
Swipe(up, q) == [is_up |-> up, quantity |-> q, recorded |-> TRUE]
Swipes == [is_up : BOOLEAN, quantity : Nat, recorded : BOOLEAN]

U64 == 0 .. MAX_U64
NoOutcome == [kind |-> "none", winner |-> NoUser]
Outcome(k, w) == [kind |-> k, winner |-> w]

-----------------------------------------------------------------------------
Init ==
  /\ status = "none" /\ tier = "staked" /\ deckSize = 0
  /\ deckHash = NoDeck /\ cards = NoDeck
  /\ creator = NoUser /\ challenger = NoUser
  /\ stake = [s \in Seats |-> 0] /\ staked = [s \in Seats |-> 0]
  /\ swipes = [s \in Seats |-> NoDeck] /\ nextIdx = [s \in Seats |-> 0]
  /\ settled = {} /\ settlementPrice = NoDeck /\ settledCount = 0
  /\ payout = [s \in Seats |-> 0] /\ premium = [s \in Seats |-> 0]
  /\ startedAt = 0 /\ outcome = NoOutcome
  /\ now = 0 /\ held = {} /\ paid = [u \in Users |-> 0]

(***************************************************************************)
(* create_duel, create_duel_free                                           *)
(***************************************************************************)
create_duel_internal(u, amount, hash, n, t) ==
  /\ status = "none"                    \* the model follows one duel object
  /\ n \in MIN_DECK_SIZE .. MAX_DECK_SIZE
  /\ status' = "pending" /\ tier' = t /\ deckSize' = n /\ deckHash' = hash
  /\ creator' = u
  /\ stake' = [stake EXCEPT ![0] = amount]
  /\ staked' = [staked EXCEPT ![0] = amount]
  /\ swipes' = [s \in Seats |-> [i \in CardIdx(n) |-> NoSwipe]]
  /\ settlementPrice' = [i \in CardIdx(n) |-> 0]
  /\ UNCHANGED <<cards, challenger, nextIdx, settled, settledCount, payout,
                 premium, startedAt, outcome, now, held, paid>>

create_duel(u, amount, hash, n) ==
  /\ amount > 0
  /\ create_duel_internal(u, amount, hash, n, "staked")

create_duel_free(u, hash, n) == create_duel_internal(u, 0, hash, n, "free")

(***************************************************************************)
(* join_duel, join_duel_free                                               *)
(***************************************************************************)
join_internal(u, amount) ==
  /\ status = "pending"
  /\ u # creator
  /\ challenger = NoUser
  /\ challenger' = u /\ status' = "active" /\ startedAt' = now
  /\ stake' = [stake EXCEPT ![1] = @ + amount]
  /\ staked' = [staked EXCEPT ![1] = amount]
  /\ UNCHANGED <<tier, deckSize, deckHash, cards, creator, swipes, nextIdx,
                 settled, settlementPrice, settledCount, payout, premium,
                 outcome, now, held, paid>>

\* Mutant: the EStakeMismatch check is dropped.
join_duel_AnyStake(u, amount) == tier = "staked" /\ join_internal(u, amount)

join_duel(u, amount) ==
  /\ tier = "staked"
  /\ amount = stake[0]
  /\ join_internal(u, amount)

join_duel_free(u) == tier = "free" /\ join_internal(u, 0)

(***************************************************************************)
(* reveal_deck: permissionless, at any time while the duel is active.  The *)
(* hash is collision-free, so it matches exactly the committed deck.       *)
(***************************************************************************)
reveal_deck(deck) ==
  /\ status = "active"
  /\ ~revealed
  /\ DOMAIN deck = Cards
  /\ deck = deckHash
  /\ cards' = deck
  /\ UNCHANGED <<status, tier, deckSize, deckHash, creator, challenger, stake,
                 swipes, nextIdx, settled, settlementPrice, settledCount,
                 payout, premium, startedAt, outcome, now, held, paid, staked>>

(***************************************************************************)
(* record_swipe, record_swipe_free.  A staked swipe is chained after the   *)
(* mint of its position in the same transaction, so it also adds it to     *)
(* `held`.                                                                 *)
(***************************************************************************)
Expired == now > startedAt + SWIPE_WINDOW_MS

\* Mutant: the deadline is not checked.
preflight_swipe_Late(u, s, i) ==
  status = "active" /\ revealed /\ i < deckSize /\ u = Player(s) /\ i = nextIdx[s]

preflight_swipe(u, s, i) ==
  /\ status = "active" /\ revealed
  /\ i < deckSize
  /\ ~Expired
  /\ u = Player(s)
  /\ i = nextIdx[s]

record_swipe_internal(s, i, swipe) ==
  /\ swipes' = [swipes EXCEPT ![s][i] = swipe]
  /\ nextIdx' = [nextIdx EXCEPT ![s] = i + 1]
  /\ UNCHANGED <<status, tier, deckSize, deckHash, cards, creator, challenger,
                 stake, settled, settlementPrice, settledCount, payout,
                 premium, startedAt, outcome, now, paid, staked>>

record_swipe(u, s, i, up, q) ==
  /\ tier = "staked"
  /\ q > 0
  /\ preflight_swipe(u, s, i)
  /\ record_swipe_internal(s, i, Swipe(up, q))
  /\ held' = held \cup {<<s, i>>}

record_swipe_free(u, s, i, up) ==
  /\ tier = "free"
  /\ preflight_swipe(u, s, i)
  /\ record_swipe_internal(s, i, Swipe(up, PROB_SCALE))
  /\ UNCHANGED held

(***************************************************************************)
(* settle_card, settle_card_free.  The caller passes one account wrapper   *)
(* per seat; a position is found only in the wrapper of its own player.    *)
(***************************************************************************)
has_position(wrapper, s, i) == wrapper = Player(s) /\ <<s, i>> \in held

\* Mutant: positions redeemed early are still paid.
score_payout_NoReplayCheck(swipe, actual_up, redeemed_early) ==
  IF swipe.recorded /\ actual_up = swipe.is_up THEN swipe.quantity ELSE 0

score_payout(swipe, actual_up, redeemed_early) ==
  IF swipe.recorded /\ ~redeemed_early /\ actual_up = swipe.is_up
  THEN swipe.quantity ELSE 0

\* Mutant: the EAlreadySettled check is dropped.
preflight_settle_Again(i, price) ==
  status = "active" /\ revealed /\ i < deckSize /\ price > 0

preflight_settle(i, price) ==
  /\ status = "active" /\ revealed
  /\ i < deckSize
  /\ i \notin settled
  /\ price > 0

\* pay[s] and prem[s] are what card i adds to the totals of seat s.
commit_card_settlement(i, price, pay, prem) ==
  /\ payout' = [s \in Seats |-> payout[s] + pay[s]]
  /\ premium' = [s \in Seats |-> premium[s] + prem[s]]
  /\ \A s \in Seats : payout'[s] \in U64 /\ premium'[s] \in U64
  /\ settled' = settled \cup {i}
  /\ settlementPrice' = [settlementPrice EXCEPT ![i] = price]
  /\ settledCount' = settledCount + 1
  /\ UNCHANGED <<status, tier, deckSize, deckHash, cards, creator, challenger,
                 stake, swipes, nextIdx, startedAt, outcome, now, held, paid,
                 staked>>

ChargedPremium(prem, i) ==
  [s \in Seats |-> IF swipes[s][i].recorded THEN prem[s] ELSE 0]

settle_card(wrapper, i, price, prem) ==
  /\ tier = "staked"
  /\ preflight_settle(i, price)
  /\ commit_card_settlement(i, price,
       [s \in Seats |-> score_payout(swipes[s][i], price > cards[i],
                                     ~has_position(wrapper[s], s, i))],
       ChargedPremium(prem, i))

settle_card_free(i, price, prem) ==
  /\ tier = "free"
  /\ preflight_settle(i, price)
  /\ commit_card_settlement(i, price,
       [s \in Seats |-> score_payout(swipes[s][i], price > cards[i], FALSE)],
       ChargedPremium(prem, i))

(***************************************************************************)
(* pay_player draws on the creator's balance first and skips zero amounts. *)
(***************************************************************************)
Draw(escrow, amount) ==
  LET from_p0 == IF escrow[0] >= amount THEN amount ELSE escrow[0]
  IN [s \in Seats |-> IF s = 0 THEN escrow[0] - from_p0
                              ELSE escrow[1] - (amount - from_p0)]

\* Mutant: the coin of the last payment replaces the earlier one.
Credit_Overwrites(p, u, amount) ==
  [v \in Users |-> IF v = u THEN amount ELSE 0]

Credit(p, u, amount) == [v \in Users |-> IF v = u THEN p[v] + amount ELSE p[v]]

\* pay_player for the creator, then for the challenger, then COMPLETE.
PayOut(to_p0, to_p1) ==
  /\ stake' = Draw(Draw(stake, to_p0), to_p1)
  /\ paid' = Credit(Credit(paid, creator, to_p0), challenger, to_p1)
  /\ status' = "complete"

(***************************************************************************)
(* finalize, finalize_free, finalize_test_one_price share finalize_internal.*)
(* It is parameterised by the totals, which the test variant changes first.*)
(***************************************************************************)
Pot == stake[0] + stake[1]
BothDone == nextIdx[0] = deckSize /\ nextIdx[1] = deckSize
Value(pay, prem, s) == pay[s] + prem[Other(s)]

WinnerTakesAll(w) ==
  /\ PayOut(IF w = 0 THEN Pot ELSE 0, IF w = 1 THEN Pot ELSE 0)
  /\ outcome' = Outcome("finalized", Player(w))

ReturnStakes(kind) ==
  /\ PayOut(stake[0], stake[1])
  /\ outcome' = Outcome(kind, NoUser)

SwipedMore(s) == nextIdx[s] > nextIdx[Other(s)]

ForfeitBranch == Expired /\ \E s \in Seats : SwipedMore(s) /\ WinnerTakesAll(s)

ScoredBranch(pay, prem, count) ==
  /\ BothDone
  /\ count = deckSize
  /\ \/ \E s \in Seats : /\ Value(pay, prem, s) > Value(pay, prem, Other(s))
                         /\ WinnerTakesAll(s)
     \/ Value(pay, prem, 0) = Value(pay, prem, 1) /\ ReturnStakes("finalized")

\* Mutant: a tie does not wait for the swipe window.
StuckBranch_AnyTime ==
  nextIdx[0] = nextIdx[1] /\ ~BothDone /\ ReturnStakes("finalized")

StuckBranch ==
  /\ nextIdx[0] = nextIdx[1] /\ ~BothDone
  /\ Expired
  /\ ReturnStakes("finalized")

finalize_internal(pay, prem, count) ==
  /\ status = "active"
  /\ ForfeitBranch \/ ScoredBranch(pay, prem, count) \/ StuckBranch

UntouchedByFinalize ==
  UNCHANGED <<tier, deckSize, deckHash, cards, creator, challenger, swipes,
              nextIdx, startedAt, now, held, staked, premium>>

FinalizeAs(t) ==
  /\ tier = t
  /\ finalize_internal(payout, premium, settledCount)
  /\ UntouchedByFinalize
  /\ UNCHANGED <<settled, settlementPrice, settledCount, payout>>

finalize == FinalizeAs("staked")
finalize_free == FinalizeAs("free")

\* Mutant: every card is scored again, settled or not.
finalize_test_one_price_All(price) ==
  /\ status = "active" /\ revealed
  /\ price > 0
  /\ payout' = [s \in Seats |-> payout[s] + SumFunction(
         [i \in Cards |-> score_payout(swipes[s][i], price > cards[i], FALSE)])]
  /\ \A s \in Seats : payout'[s] \in U64
  /\ settled' = Cards /\ settledCount' = deckSize
  /\ settlementPrice' = [i \in Cards |-> price]
  /\ finalize_internal(payout', premium, settledCount')
  /\ UntouchedByFinalize

\* Scores every unsettled card at one price, without premiums and without
\* looking at positions, then finalizes in the same transaction.
finalize_test_one_price(price) ==
  LET rest == Cards \ settled
      scores(s) == [i \in rest |-> score_payout(swipes[s][i], price > cards[i], FALSE)]
  IN
  /\ status = "active" /\ revealed
  /\ price > 0
  /\ payout' = [s \in Seats |-> payout[s] + SumFunction(scores(s))]
  /\ \A s \in Seats : payout'[s] \in U64
  /\ settled' = settled \cup rest
  /\ settledCount' = settledCount + Cardinality(rest)
  /\ settlementPrice' = [i \in Cards |->
                           IF i \in rest THEN price ELSE settlementPrice[i]]
  /\ finalize_internal(payout', premium, settledCount')
  /\ UntouchedByFinalize

(***************************************************************************)
(* refund_duel, claim_reveal_timeout                                       *)
(***************************************************************************)
UntouchedByRefund ==
  /\ UNCHANGED <<settled, settlementPrice, settledCount, payout>>
  /\ UntouchedByFinalize

refund_pending(u) ==
  /\ status = "pending"
  /\ u = creator
  /\ PayOut(stake[0], 0)
  /\ outcome' = Outcome("refunded", NoUser)
  /\ UntouchedByRefund

\* Mutant: the ERefundDuelComplete check is dropped.
refund_active_Dodge(u) ==
  /\ status = "active"
  /\ now > startedAt + REFUND_TIMEOUT_MS
  /\ u \in {creator, challenger}
  /\ ReturnStakes("refunded")
  /\ UntouchedByRefund

refund_active(u) ==
  /\ status = "active"
  /\ now > startedAt + REFUND_TIMEOUT_MS
  /\ u \in {creator, challenger}
  /\ ~BothDone
  /\ ReturnStakes("refunded")
  /\ UntouchedByRefund

refund_duel(u) == refund_pending(u) \/ refund_active(u)

\* Mutant: the forfeit may be claimed after the deck was revealed.
claim_reveal_timeout_Late(u) ==
  /\ status = "active" /\ u = challenger
  /\ now > startedAt + REVEAL_TIMEOUT_MS
  /\ PayOut(0, Pot)
  /\ outcome' = Outcome("forfeited", challenger)
  /\ UntouchedByRefund

\* Mutant: only the creator's stake is swept.
claim_reveal_timeout_Half(u) ==
  /\ status = "active" /\ ~revealed /\ u = challenger
  /\ now > startedAt + REVEAL_TIMEOUT_MS
  /\ PayOut(0, stake[0])
  /\ outcome' = Outcome("forfeited", challenger)
  /\ UntouchedByRefund

claim_reveal_timeout(u) ==
  /\ status = "active"
  /\ ~revealed
  /\ u = challenger
  /\ now > startedAt + REVEAL_TIMEOUT_MS
  /\ PayOut(0, Pot)
  /\ outcome' = Outcome("forfeited", challenger)
  /\ UntouchedByRefund

(***************************************************************************)
(* The environment: the clock, and a player redeeming a position on the    *)
(* prediction market (before or after the card is settled).                *)
(***************************************************************************)
ClockBound == IF challenger = NoUser THEN MaxIdle
                                     ELSE startedAt + REFUND_TIMEOUT_MS + 1

Tick ==
  /\ now < ClockBound
  /\ now' = now + 1
  /\ UNCHANGED <<duelVars, held, paid, staked>>

Redeem(s, i) ==
  /\ <<s, i>> \in held
  /\ held' = held \ {<<s, i>>}
  /\ UNCHANGED <<duelVars, now, paid, staked>>

-----------------------------------------------------------------------------
Create == \E u \in Users, hash \in Decks, n \in DeckSizes :
            \/ \E amount \in Stakes : create_duel(u, amount, hash, n)
            \/ create_duel_free(u, hash, n)
Join == \E u \in Users : join_duel_free(u) \/ \E a \in Stakes : join_duel(u, a)
Reveal == \E deck \in Decks : reveal_deck(deck)
Swiped == \E u \in Users, s \in Seats, i \in Cards, up \in BOOLEAN :
            \/ \E q \in Quantities : record_swipe(u, s, i, up, q)
            \/ record_swipe_free(u, s, i, up)
Settle == \E i \in Cards, price \in Prices, prem \in [Seats -> Premiums] :
            \/ \E w \in [Seats -> Users] : settle_card(w, i, price, prem)
            \/ settle_card_free(i, price, prem)
Finalize == finalize \/ finalize_free
FinalizeTest == \E price \in Prices : finalize_test_one_price(price)
Refund == \E u \in Users : refund_duel(u)
Claim == \E u \in Users : claim_reveal_timeout(u)
RedeemAny == \E s \in Seats, i \in Cards : Redeem(s, i)

\* A closed duel stays on chain; its positions may still be redeemed.
Finished == status = "complete" /\ UNCHANGED vars

Next == Create \/ Join \/ Reveal \/ Swiped \/ Settle \/ Finalize
        \/ FinalizeTest \/ Refund \/ Claim \/ Tick \/ RedeemAny
        \/ Finished

Spec == Init /\ [][Next]_vars

-----------------------------------------------------------------------------
(***************************************************************************)
(* Type invariant.                                                         *)
(***************************************************************************)
TypeOK ==
  /\ status \in {"none", "pending", "active", "complete"}
  /\ tier \in {"staked", "free"}
  /\ deckSize \in Nat
  /\ deckHash \in Decks \cup {NoDeck} /\ cards \in {NoDeck, deckHash}
  /\ creator \in Users \cup {NoUser} /\ challenger \in Users \cup {NoUser}
  /\ stake \in [Seats -> Nat] /\ staked \in [Seats -> Nat]
  /\ swipes \in [Seats -> [Cards -> Swipes]]
  /\ nextIdx \in [Seats -> 0 .. deckSize]
  /\ settled \subseteq Cards /\ settledCount \in Nat
  /\ settlementPrice \in [Cards -> Nat]
  /\ payout \in [Seats -> U64] /\ premium \in [Seats -> U64]
  /\ startedAt \in Nat /\ now \in Nat
  /\ outcome \in [kind : {"none", "finalized", "refunded", "forfeited"},
                  winner : Users \cup {NoUser}]
  /\ held \subseteq Seats \X Cards
  /\ paid \in [Users -> Nat]

(***************************************************************************)
(* Safety invariants.                                                      *)
(***************************************************************************)
PaidTo(s) == IF Player(s) = NoUser THEN 0 ELSE paid[Player(s)]

\* Money is neither created nor lost, and it goes to the two players only:
\* whatever route closes the duel (finalize's three branches, the refund, the
\* reveal forfeit), the coins put up are in escrow or in the players' hands.
FundsConserved ==
  /\ staked[0] + staked[1] = Pot + PaidTo(0) + PaidTo(1)
  /\ \A u \in Users \ {creator, challenger} : paid[u] = 0

\* The pot leaves the escrow in one transaction: an open duel holds exactly
\* what was put up, a COMPLETE one holds nothing (pay_player drains both
\* balances whatever split was chosen).
EscrowAllOrNothing ==
  IF status = "complete" THEN Pot = 0 ELSE stake = staked

BothScored == BothDone /\ settled = Cards

\* Which addresses are seated in which phase, and what no phase before the
\* end may have done yet: nobody paid, no stake or deck without a challenger,
\* and nothing at stake in the free tier.
\* It carries the money invariants through the proofs.
PhaseOK ==
  /\ status = "none" =>
       creator = NoUser /\ deckSize = 0 /\ staked = [s \in Seats |-> 0]
  /\ status # "none" => creator \in Users /\ deckSize > 0
  /\ status \in {"none", "pending"} => challenger = NoUser
  /\ status = "active" => challenger \in Users /\ staked[0] = staked[1]
  /\ challenger \in Users => challenger # creator
  /\ challenger = NoUser => stake[1] = 0 /\ staked[1] = 0 /\ ~revealed
  /\ tier = "free" => staked = [s \in Seats |-> 0]
  /\ status # "complete" => paid = [u \in Users |-> 0]

\* A player ends up with the opponent's stake only by having swiped more
\* cards, by a strictly better score on a fully played and settled deck, or,
\* for the challenger, because the deck was never revealed.  In particular a
\* refund by an impatient player never turns into a win.
PotEarned ==
  \A s \in Seats :
    (status = "complete" /\ PaidTo(s) > staked[s]) =>
      \/ SwipedMore(s)
      \/ BothScored /\ Value(payout, premium, s) > Value(payout, premium, Other(s))
      \/ s = 1 /\ ~revealed

\* The recorded swipes of a seat are exactly its first nextIdx cards, and
\* a position can only exist for a recorded swipe: the turn counter alone
\* decides forfeits, so it must agree with the swipe slots.
SwipesArePrefix ==
  \A s \in Seats, i \in Cards :
    /\ swipes[s][i].recorded <=> i < nextIdx[s]
    /\ <<s, i>> \in held => i < nextIdx[s]

\* The counter finalize trusts counts the settled cards, each of which has a
\* price: cards settled one by one, by several callers or all at once by the
\* test finalizer are counted once.
SettlementCounted ==
  /\ settledCount = Cardinality(settled)
  /\ \A i \in Cards : settlementPrice[i] > 0 <=> i \in settled
  /\ settled # {} => revealed

\* No swipe is scored twice: a seat's payout total never exceeds the
\* quantities it put on the settled cards.
ScoreBacked ==
  \A s \in Seats : payout[s] <= SumFunction([i \in settled |-> swipes[s][i].quantity])

\* The three counters and tables a duel is decided by never disagree, however
\* swipes, settlements and redemptions of its cards interleave.
RecordsAgree == SwipesArePrefix /\ SettlementCounted /\ ScoreBacked

(***************************************************************************)
(* Action properties.                                                      *)
(***************************************************************************)
\* Before the swipe window has closed a joined duel can only end fully
\* played and fully settled: no refund, forfeit or early finalize cuts off a
\* player who still has time to swipe.
NoPrematureEnd ==
  [][status = "active" /\ status' = "complete" /\ ~Expired => BothScored']_vars

\* Once both players have swiped the whole deck, the only way out is a
\* finalize over all settled cards that pays by the score: a losing player
\* cannot dodge through refund_duel, however long settlement takes.
LoserCannotDodge ==
  [][status = "active" /\ BothDone /\ status' = "complete" =>
       /\ settled' = Cards
       /\ outcome'.kind = "finalized"
       /\ \A s \in Seats :
            Value(payout', premium', s) > Value(payout', premium', Other(s)) =>
              PaidTo(s)' = staked[0] + staked[1]]_vars

\* Swipes already scored and a running lead are never rewritten: totals only
\* grow, a settled card stays settled at its price, and a recorded swipe is
\* never changed (each player commits to a direction once).
RecordIsAppendOnly ==
  [][status # "none" =>
       /\ \A s \in Seats : payout'[s] >= payout[s] /\ premium'[s] >= premium[s]
       /\ \A i \in settled : settlementPrice'[i] = settlementPrice[i]
       /\ \A s \in Seats, i \in Cards :
            swipes[s][i].recorded => swipes'[s][i] = swipes[s][i]]_vars

\* Anti-replay: settle_card credits a seat only for a card whose position
\* its account still holds, so a position redeemed on the prediction market
\* before settlement is not paid a second time by the duel.
NoReplayedPosition ==
  [][\A s \in Seats :
       (tier = "staked" /\ status' = "active" /\ payout'[s] > payout[s]) =>
         \E i \in settled' \ settled : <<s, i>> \in held]_vars

-----------------------------------------------------------------------------
(***************************************************************************)
(* The duel implements the abstract escrow: every entry function is one of *)
(* its steps, or moves no money and keeps the phase.                       *)
(***************************************************************************)
Contract == INSTANCE Escrow WITH
  phase   <- status,
  party   <- [s \in Seats |-> Player(s)],
  pot     <- stake,
  paid    <- paid,
  Amounts <- Stakes \cup {0}

\* Whatever the players, the keeper and the clock do, the money side of a
\* duel is: open, match with an equal stake, then one hand-out of everything
\* (own stakes back, or the whole pot to one player), and nothing afterwards.
ImplementsEscrow == Contract!Spec

(***************************************************************************)
(* The duel implements the state machine the server drives.                *)
(***************************************************************************)
Seen == INSTANCE Lifecycle WITH
  status   <- status,
  size     <- deckSize,
  revealed <- revealed,
  swiped   <- nextIdx,
  settled  <- settled,
  expired  <- challenger # NoUser /\ Expired,
  Sizes    <- DeckSizes

\* What the keeper relies on: whoever sends transactions and in whatever
\* order, cards are settled once and only while the duel is active, a duel
\* closes on its score only when complete, otherwise only after the window,
\* and never opens again.
ImplementsLifecycle == Seen!Spec
=============================================================================
