----------------------------- MODULE DuelProofs -----------------------------
(***************************************************************************)
(* Proofs about Duel, for every set of addresses, stakes, decks, prices,   *)
(* premiums and timeouts: first the money, then the rules on top of it (how*)
(* it may end and who may win it, that nothing recorded is rewritten or    *)
(* paid twice, and that Duel implements Escrow and Lifecycle).             *)
(***************************************************************************)
EXTENDS Duel, Induction

-----------------------------------------------------------------------------
(***************************************************************************)
(* Lemmas about the operators that move money.                             *)
(***************************************************************************)

\* pay_player's draw order never leaves or overdraws anything when the two
\* payments add up to the escrow.
LEMMA DrawAll ==
  ASSUME NEW e \in [Seats -> Nat], NEW a \in Nat, NEW b \in Nat,
         a + b = e[0] + e[1]
  PROVE  Draw(Draw(e, a), b) = [s \in Seats |-> 0]
  BY DEF Draw, Seats

\* The two payments of PayOut in terms of the addresses that receive them.
LEMMA CreditBoth ==
  ASSUME NEW p \in [Users -> Nat], NEW u \in Users, NEW w \in Users \cup {NoUser},
         u # w, NEW a \in Nat, NEW b \in Nat
  PROVE  LET c == Credit(Credit(p, u, a), w, b) IN
         /\ c \in [Users -> Nat]
         /\ c[u] = p[u] + a
         /\ w \in Users => c[w] = p[w] + b
         /\ \A v \in Users \ {u, w} : c[v] = p[v]
  BY DEF Credit

-----------------------------------------------------------------------------
(***************************************************************************)
(* The inductive invariant of the money side: types, which seats are taken *)
(* in which phase, conservation, and the all-or-nothing escrow.            *)
(***************************************************************************)
MoneyInv == TypeOK /\ PhaseOK /\ FundsConserved /\ EscrowAllOrNothing

LEMMA InitMoney == Init => MoneyInv
<1> SUFFICES ASSUME Init PROVE MoneyInv
  OBVIOUS
<1> USE DuelAssumption DEF Init, Seats, NoDeck
<1>1. TypeOK
  <2>1. swipes \in [Seats -> [Cards -> Swipes]] /\ settlementPrice \in [Cards -> Nat]
    BY DEF Cards, CardIdx
  <2>2. outcome \in [kind : {"none", "finalized", "refunded", "forfeited"},
                     winner : Users \cup {NoUser}]
    BY DEF NoOutcome
  <2>3. payout \in [Seats -> U64] /\ premium \in [Seats -> U64]
    BY DEF U64
  <2> QED BY <2>1, <2>2, <2>3 DEF TypeOK
<1>2. PhaseOK
  BY DEF PhaseOK, revealed
<1>3. FundsConserved /\ EscrowAllOrNothing
  BY DEF FundsConserved, EscrowAllOrNothing, Pot, PaidTo, Player
<1> QED BY <1>1, <1>2, <1>3 DEF MoneyInv

\* Whatever closes the duel: paying out two amounts that add up to the pot,
\* with the seats unchanged, leaves the money invariants true.
LEMMA ClosePreservesMoney ==
  ASSUME MoneyInv, creator \in Users, status \in {"pending", "active"},
         NEW a \in Nat, NEW b \in Nat, a + b = Pot,
         challenger = NoUser => b = 0,
         PayOut(a, b),
         UNCHANGED <<tier, deckSize, cards, creator, challenger, staked>>
  PROVE  /\ PhaseOK' /\ FundsConserved' /\ EscrowAllOrNothing'
         /\ stake' = [s \in Seats |-> 0]
         /\ paid' \in [Users -> Nat]
         /\ PaidTo(0)' = a /\ PaidTo(1)' = b
<1> USE DuelAssumption DEF MoneyInv
<1>1. stake' = [s \in Seats |-> 0]
  BY DrawAll DEF PayOut, Pot, TypeOK
<1>2. paid \in [Users -> Nat] /\ challenger \in Users \cup {NoUser}
      /\ creator # challenger /\ paid = [u \in Users |-> 0]
  BY DEF TypeOK, PhaseOK
<1>3. /\ paid' \in [Users -> Nat]
      /\ paid'[creator] = a
      /\ challenger \in Users => paid'[challenger] = b
      /\ \A v \in Users \ {creator, challenger} : paid'[v] = 0
  <2>1. paid' = Credit(Credit(paid, creator, a), challenger, b)
    BY DEF PayOut
  <2> HIDE DEF MoneyInv
  <2>2. paid'[creator] = 0 + a /\ (challenger \in Users => paid'[challenger] = 0 + b)
    BY <1>2, <2>1, CreditBoth
  <2>3. paid' \in [Users -> Nat]
    BY <1>2, <2>1, CreditBoth
  <2>4. \A v \in Users \ {creator, challenger} : paid'[v] = paid[v]
    BY <1>2, <2>1 DEF Credit
  <2>5. \A v \in Users : paid[v] = 0
    BY <1>2
  <2> QED BY <2>2, <2>3, <2>4, <2>5
<1>4. status' = "complete"
  BY DEF PayOut
<1>5. PaidTo(0)' = a /\ PaidTo(1)' = b
  BY <1>2, <1>3 DEF PaidTo, Player
<1>6. Pot' = 0
  BY <1>1 DEF Pot, Seats
<1>7. staked[0] + staked[1] = a + b /\ stake'[1] = 0
  BY <1>1 DEF EscrowAllOrNothing, Pot, Seats, TypeOK
<1>8. PhaseOK'
  BY <1>2, <1>4, <1>7 DEF PhaseOK, revealed, PayOut
<1>9. FundsConserved' /\ EscrowAllOrNothing'
  BY <1>3, <1>4, <1>5, <1>6, <1>7 DEF FundsConserved, EscrowAllOrNothing
<1> QED BY <1>1, <1>3, <1>5, <1>8, <1>9

-----------------------------------------------------------------------------
(***************************************************************************)
(* Each entry function preserves the invariant.                            *)
(***************************************************************************)
LEMMA CreateMoney == MoneyInv /\ Create => MoneyInv'
<1> SUFFICES ASSUME MoneyInv, Create PROVE MoneyInv'
  OBVIOUS
<1> USE DuelAssumption
<1>1. PICK u \in Users, amount \in Nat, hash \in Decks, n \in Nat, t \in {"staked", "free"} :
        create_duel_internal(u, amount, hash, n, t) /\ (t = "free" => amount = 0)
  BY DEF Create, create_duel, create_duel_free
<1>2. /\ status = "none" /\ status' = "pending" /\ n > 0 /\ deckSize' = n
      /\ tier' = t /\ deckHash' = hash /\ creator' = u
      /\ UNCHANGED <<cards, challenger, nextIdx, settled, settledCount, payout,
                     premium, startedAt, outcome, now, held, paid>>
  BY <1>1 DEF create_duel_internal
<1>3. /\ stake' = [stake EXCEPT ![0] = amount] /\ staked' = [staked EXCEPT ![0] = amount]
      /\ stake = [s \in Seats |-> 0] /\ staked = stake
  BY <1>1, <1>2 DEF create_duel_internal, MoneyInv, PhaseOK, EscrowAllOrNothing
<1>4. challenger = NoUser /\ cards = NoDeck /\ deckSize = 0 /\ paid = [v \in Users |-> 0]
  BY <1>2 DEF MoneyInv, PhaseOK, revealed
<1>5. TypeOK'
  <2>1. swipes' \in [Seats -> [Cards' -> Swipes]] /\ settlementPrice' \in [Cards' -> Nat]
    BY <1>1, <1>2 DEF create_duel_internal, Cards, CardIdx, NoSwipe, Swipes, Seats
  <2>2. /\ settled \subseteq Cards /\ held \subseteq Seats \X Cards
        /\ nextIdx \in [Seats -> 0 .. deckSize]
    BY DEF MoneyInv, TypeOK
  <2>3. /\ settled' \subseteq Cards' /\ held' \subseteq Seats \X Cards'
        /\ nextIdx' \in [Seats -> 0 .. deckSize']
    BY <2>2, <1>2, <1>4 DEF Cards, CardIdx
  <2>4. stake' \in [Seats -> Nat] /\ staked' \in [Seats -> Nat]
    BY <1>3 DEF Seats
  <2> QED BY <2>1, <2>3, <2>4, <1>2, <1>4 DEF MoneyInv, TypeOK, U64
<1>6. PhaseOK'
  <2>1. t = "free" => staked' = [s \in Seats |-> 0]
    BY <1>1, <1>3 DEF Seats
  <2>2. stake'[1] = 0 /\ staked'[1] = 0
    BY <1>3 DEF Seats
  <2> QED BY <2>1, <2>2, <1>2, <1>4 DEF PhaseOK, revealed
<1>7. FundsConserved' /\ EscrowAllOrNothing'
  BY <1>2, <1>3, <1>4 DEF FundsConserved, EscrowAllOrNothing, Pot, PaidTo, Player, Seats
<1> QED BY <1>5, <1>6, <1>7 DEF MoneyInv

LEMMA JoinMoney == MoneyInv /\ Join => MoneyInv'
<1> SUFFICES ASSUME MoneyInv, Join PROVE MoneyInv'
  OBVIOUS
<1> USE DuelAssumption
<1>1. PICK u \in Users, amount \in Nat :
        join_internal(u, amount) /\ (amount = stake[0] \/ (tier = "free" /\ amount = 0))
  <2>1. PICK u \in Users : join_duel_free(u) \/ \E a \in Stakes : join_duel(u, a)
    BY DEF Join
  <2>2. CASE join_duel_free(u)
    BY <2>2 DEF join_duel_free
  <2>3. CASE \E a \in Stakes : join_duel(u, a)
    <3>1. PICK a \in Stakes : join_duel(u, a)
      BY <2>3
    <3>2. a \in Nat /\ join_internal(u, a) /\ a = stake[0]
      BY <3>1 DEF join_duel
    <3> QED BY <2>1, <3>2
  <2> QED BY <2>1, <2>2, <2>3
<1>2. /\ status = "pending" /\ status' = "active" /\ u # creator /\ challenger = NoUser
      /\ challenger' = u /\ startedAt' = now
      /\ UNCHANGED <<tier, deckSize, deckHash, cards, creator, swipes, nextIdx,
                     settled, settlementPrice, settledCount, payout, premium,
                     outcome, now, held, paid>>
  BY <1>1 DEF join_internal
<1>3. /\ stake \in [Seats -> Nat] /\ staked = stake /\ stake[1] = 0
      /\ creator \in Users /\ paid = [v \in Users |-> 0]
      /\ tier = "free" => stake[0] = 0
  BY <1>2 DEF MoneyInv, TypeOK, PhaseOK, EscrowAllOrNothing, Seats
<1>4. amount = stake[0]
  BY <1>1, <1>3
<1>5. /\ stake' = [stake EXCEPT ![1] = amount] /\ staked' = stake'
      /\ stake' \in [Seats -> Nat] /\ stake'[0] = amount /\ stake'[1] = amount
  <2>1. stake' = [stake EXCEPT ![1] = amount]
    BY <1>1, <1>3 DEF join_internal, Seats
  <2>2. staked' = [staked EXCEPT ![1] = amount]
    BY <1>1 DEF join_internal
  <2> QED BY <2>1, <2>2, <1>3, <1>4 DEF Seats
<1>6. TypeOK'
  BY <1>2, <1>5 DEF MoneyInv, TypeOK, Cards, U64
<1>7. PhaseOK'
  BY <1>2, <1>3, <1>4, <1>5 DEF MoneyInv, PhaseOK, revealed, Seats
<1>8. FundsConserved' /\ EscrowAllOrNothing'
  BY <1>2, <1>3, <1>5 DEF FundsConserved, EscrowAllOrNothing, Pot, PaidTo, Player
<1> QED BY <1>6, <1>7, <1>8 DEF MoneyInv

\* Steps that touch neither money nor seats keep everything but the types.
LEMMA NoMoneyMoves ==
  ASSUME MoneyInv, status = "active", TypeOK',
         UNCHANGED <<status, tier, deckSize, creator, challenger, stake, paid, staked>>
  PROVE  MoneyInv'
<1>1. PhaseOK'
  BY DuelAssumption DEF MoneyInv, PhaseOK, revealed
<1>2. FundsConserved' /\ EscrowAllOrNothing'
  BY DEF MoneyInv, FundsConserved, EscrowAllOrNothing, Pot, PaidTo, Player
<1> QED BY <1>1, <1>2 DEF MoneyInv

LEMMA RevealMoney == MoneyInv /\ Reveal => MoneyInv'
<1> SUFFICES ASSUME MoneyInv, NEW deck \in Decks, reveal_deck(deck) PROVE MoneyInv'
  BY DEF Reveal
<1>1. TypeOK'
  BY DEF MoneyInv, TypeOK, reveal_deck, Cards, U64
<1> QED BY <1>1, NoMoneyMoves DEF reveal_deck

LEMMA SwipedMoney == MoneyInv /\ Swiped => MoneyInv'
<1> SUFFICES ASSUME MoneyInv, Swiped PROVE MoneyInv'
  OBVIOUS
<1> USE DuelAssumption
<1>1. PICK s \in Seats, i \in Cards, up \in BOOLEAN, q \in Nat :
        /\ status = "active"
        /\ record_swipe_internal(s, i, Swipe(up, q))
        /\ held' = held \/ held' = held \cup {<<s, i>>}
  BY DEF Swiped, record_swipe, record_swipe_free, preflight_swipe
<1>2. UNCHANGED <<status, tier, deckSize, deckHash, cards, creator, challenger,
                  stake, settled, settledCount, settlementPrice, payout, premium,
                  startedAt, outcome, now, paid, staked>>
  BY <1>1 DEF record_swipe_internal
<1>3. TypeOK'
  <2>1. swipes' \in [Seats -> [Cards -> Swipes]]
    BY <1>1 DEF record_swipe_internal, MoneyInv, TypeOK, Swipe, Swipes
  <2>2. nextIdx' \in [Seats -> 0 .. deckSize]
    BY <1>1 DEF record_swipe_internal, MoneyInv, TypeOK, Cards, CardIdx
  <2>3. held' \subseteq Seats \X Cards
    BY <1>1 DEF MoneyInv, TypeOK
  <2> QED BY <1>2, <2>1, <2>2, <2>3 DEF MoneyInv, TypeOK, Cards, U64
<1> QED BY <1>1, <1>2, <1>3, NoMoneyMoves

LEMMA SettleMoney == MoneyInv /\ Settle => MoneyInv'
<1> SUFFICES ASSUME MoneyInv, Settle PROVE MoneyInv'
  OBVIOUS
<1> USE DuelAssumption
<1>1. PICK i \in Cards, price \in Nat : \E pay, prem :
        status = "active" /\ commit_card_settlement(i, price, pay, prem)
  BY DEF Settle, settle_card, settle_card_free, preflight_settle
<1>2. /\ status = "active" /\ settled' = settled \cup {i}
      /\ settlementPrice' = [settlementPrice EXCEPT ![i] = price]
      /\ settledCount' = settledCount + 1
      /\ payout' \in [Seats -> U64] /\ premium' \in [Seats -> U64]
      /\ UNCHANGED <<status, tier, deckSize, deckHash, cards, creator, challenger,
                     stake, swipes, nextIdx, startedAt, outcome, now, held, paid,
                     staked>>
  BY <1>1 DEF commit_card_settlement
<1>3. TypeOK'
  <2>1. settled' \subseteq Cards /\ settledCount' \in Nat
        /\ settlementPrice' \in [Cards -> Nat]
    BY <1>1, <1>2 DEF MoneyInv, TypeOK
  <2> QED BY <1>2, <2>1 DEF MoneyInv, TypeOK, Cards
<1> QED BY <1>2, <1>3, NoMoneyMoves

-----------------------------------------------------------------------------
(***************************************************************************)
(* The closing steps.                                                      *)
(***************************************************************************)

\* What a terminal step leaves alone and what it may still record.
ClosedTypes ==
  /\ UNCHANGED <<tier, deckSize, deckHash, cards, creator, challenger, swipes,
                 nextIdx, startedAt, now, held, staked, premium>>
  /\ settled' \subseteq Cards /\ settledCount' \in Nat
  /\ settlementPrice' \in [Cards -> Nat]
  /\ payout' \in [Seats -> U64]
  /\ outcome' \in [kind : {"finalized", "refunded", "forfeited"},
                   winner : Users \cup {NoUser}]

\* The three ways the code splits the pot.
Splits(a, b) ==
  \/ a = Pot /\ b = 0
  \/ a = 0 /\ b = Pot
  \/ a = stake[0] /\ b = stake[1]

LEMMA CloseMoney ==
  ASSUME MoneyInv, status \in {"pending", "active"}, ClosedTypes,
         NEW a, NEW b, PayOut(a, b), Splits(a, b),
         status = "pending" => b = 0
  PROVE  MoneyInv'
<1> USE DuelAssumption
<1>1. stake \in [Seats -> Nat] /\ Pot \in Nat
  BY DEF MoneyInv, TypeOK, Pot, Seats
<1>2. a \in Nat /\ b \in Nat /\ a + b = Pot
  BY <1>1 DEF Splits, Pot, Seats
<1>3. creator \in Users /\ (challenger = NoUser => b = 0)
  BY DEF MoneyInv, PhaseOK
<1>4. /\ PhaseOK' /\ FundsConserved' /\ EscrowAllOrNothing'
      /\ stake' = [s \in Seats |-> 0] /\ paid' \in [Users -> Nat]
  BY <1>2, <1>3, ClosePreservesMoney DEF ClosedTypes
<1>5. TypeOK'
  <2>1. status' = "complete" /\ stake' \in [Seats -> Nat]
    BY <1>4 DEF PayOut
  <2> QED BY <1>4, <2>1 DEF MoneyInv, TypeOK, ClosedTypes, Cards, U64
<1> QED BY <1>4, <1>5 DEF MoneyInv

LEMMA FinalizeInternalSplits ==
  ASSUME MoneyInv, NEW pay, NEW prem, NEW count, finalize_internal(pay, prem, count)
  PROVE  /\ status = "active"
         /\ \E a, b : PayOut(a, b) /\ Splits(a, b)
         /\ outcome' \in [kind : {"finalized"}, winner : Users \cup {NoUser}]
<1>1. status = "active" /\ creator \in Users /\ challenger \in Users
  BY DEF finalize_internal, MoneyInv, PhaseOK
<1>2. ASSUME NEW w \in Seats, WinnerTakesAll(w)
      PROVE  /\ \E a, b : PayOut(a, b) /\ Splits(a, b)
             /\ outcome' \in [kind : {"finalized"}, winner : Users \cup {NoUser}]
  <2>1. CASE w = 0
    BY <1>1, <1>2, <2>1 DEF WinnerTakesAll, Splits, Outcome, Player
  <2>2. CASE w = 1
    BY <1>1, <1>2, <2>2 DEF WinnerTakesAll, Splits, Outcome, Player
  <2> QED BY <2>1, <2>2 DEF Seats
<1>3. ASSUME ReturnStakes("finalized")
      PROVE  /\ \E a, b : PayOut(a, b) /\ Splits(a, b)
             /\ outcome' \in [kind : {"finalized"}, winner : Users \cup {NoUser}]
  BY <1>3 DEF ReturnStakes, Splits, Outcome
<1>4. (\E w \in Seats : WinnerTakesAll(w)) \/ ReturnStakes("finalized")
  BY DEF finalize_internal, ForfeitBranch, ScoredBranch, StuckBranch
<1> QED BY <1>1, <1>2, <1>3, <1>4

LEMMA FiniteCards ==
  ASSUME MoneyInv
  PROVE  IsFiniteSet(Cards) /\ Cardinality(Cards) = deckSize
<1>1. deckSize \in Nat /\ Cards = 0 .. (deckSize - 1)
  BY DEF MoneyInv, TypeOK, Cards, CardIdx
<1> QED BY <1>1, FS_Interval

LEMMA FinalizeMoney == MoneyInv /\ (Finalize \/ FinalizeTest) => MoneyInv'
<1> SUFFICES ASSUME MoneyInv, Finalize \/ FinalizeTest PROVE MoneyInv'
  OBVIOUS
<1>1. ASSUME NEW t, FinalizeAs(t)
      PROVE  ClosedTypes /\ status = "active" /\ \E a, b : PayOut(a, b) /\ Splits(a, b)
  <2>1. /\ status = "active" /\ \E a, b : PayOut(a, b) /\ Splits(a, b)
        /\ outcome' \in [kind : {"finalized"}, winner : Users \cup {NoUser}]
    BY <1>1, FinalizeInternalSplits DEF FinalizeAs
  <2> QED BY <1>1, <2>1 DEF FinalizeAs, UntouchedByFinalize, ClosedTypes,
                            MoneyInv, TypeOK
<1>2. ASSUME NEW price \in Prices, finalize_test_one_price(price)
      PROVE  ClosedTypes /\ status = "active" /\ \E a, b : PayOut(a, b) /\ Splits(a, b)
  <2>1. /\ status = "active" /\ \E a, b : PayOut(a, b) /\ Splits(a, b)
        /\ outcome' \in [kind : {"finalized"}, winner : Users \cup {NoUser}]
    BY <1>2, FinalizeInternalSplits DEF finalize_test_one_price
  <2>2. payout' \in [Seats -> U64]
    BY <1>2 DEF finalize_test_one_price
  <2>3. settled' \subseteq Cards /\ settledCount' \in Nat
    <3>1. IsFiniteSet(Cards \ settled)
      BY FiniteCards, FS_Subset
    <3> QED BY <1>2, <3>1, FS_CardinalityType DEF finalize_test_one_price, MoneyInv, TypeOK
  <2>4. settlementPrice' \in [Cards -> Nat]
    BY <1>2, DuelAssumption DEF finalize_test_one_price, MoneyInv, TypeOK
  <2> QED BY <1>2, <2>1, <2>2, <2>3, <2>4
          DEF finalize_test_one_price, UntouchedByFinalize, ClosedTypes
<1>3. ClosedTypes /\ status = "active" /\ \E a, b : PayOut(a, b) /\ Splits(a, b)
  BY <1>1, <1>2 DEF Finalize, finalize, finalize_free, FinalizeTest
<1> QED BY <1>3, CloseMoney

LEMMA RefundMoney == MoneyInv /\ (Refund \/ Claim) => MoneyInv'
<1> SUFFICES ASSUME MoneyInv, Refund \/ Claim PROVE MoneyInv'
  OBVIOUS
<1>1. ASSUME NEW u, refund_pending(u) PROVE MoneyInv'
  <2>1. ClosedTypes /\ status = "pending" /\ PayOut(stake[0], 0)
    BY <1>1 DEF refund_pending, UntouchedByRefund, UntouchedByFinalize, ClosedTypes,
                Outcome, MoneyInv, TypeOK
  <2>2. Splits(stake[0], 0)
    BY <2>1 DEF Splits, MoneyInv, PhaseOK
  <2> QED BY <2>1, <2>2, CloseMoney
<1>2. ASSUME NEW u, refund_active(u) PROVE MoneyInv'
  <2>1. ClosedTypes /\ status = "active" /\ PayOut(stake[0], stake[1])
    BY <1>2 DEF refund_active, ReturnStakes, UntouchedByRefund, UntouchedByFinalize,
                ClosedTypes, Outcome, MoneyInv, TypeOK
  <2> QED BY <2>1, CloseMoney DEF Splits
<1>3. ASSUME NEW u, claim_reveal_timeout(u) PROVE MoneyInv'
  <2>1. ClosedTypes /\ status = "active" /\ PayOut(0, Pot)
    BY <1>3 DEF claim_reveal_timeout, UntouchedByRefund, UntouchedByFinalize,
                ClosedTypes, Outcome, MoneyInv, TypeOK
  <2> QED BY <2>1, CloseMoney DEF Splits
<1> QED BY <1>1, <1>2, <1>3 DEF Refund, refund_duel, Claim

LEMMA EnvironmentMoney ==
  MoneyInv /\ (Tick \/ RedeemAny \/ UNCHANGED vars) => MoneyInv'
<1> SUFFICES ASSUME MoneyInv, Tick \/ RedeemAny \/ UNCHANGED vars PROVE MoneyInv'
  OBVIOUS
<1>1. /\ UNCHANGED <<duelVars, paid, staked>> /\ now' \in Nat
      /\ held' \subseteq Seats \X Cards
  <2>1. CASE Tick
    BY <2>1 DEF Tick, MoneyInv, TypeOK
  <2>2. CASE RedeemAny
    BY <2>2 DEF RedeemAny, Redeem, MoneyInv, TypeOK
  <2>3. CASE UNCHANGED vars
    BY <2>3 DEF vars, MoneyInv, TypeOK
  <2> QED BY <2>1, <2>2, <2>3
<1>2. TypeOK'
  BY <1>1 DEF duelVars, MoneyInv, TypeOK, Cards, U64
<1>3. PhaseOK' /\ FundsConserved' /\ EscrowAllOrNothing'
  BY <1>1 DEF duelVars, MoneyInv, PhaseOK, FundsConserved, EscrowAllOrNothing,
              revealed, Pot, PaidTo, Player
<1> QED BY <1>2, <1>3 DEF MoneyInv

LEMMA NextMoney == MoneyInv /\ [Next]_vars => MoneyInv'
<1> SUFFICES ASSUME MoneyInv, [Next]_vars PROVE MoneyInv'
  OBVIOUS
<1>1. CASE Create
  BY <1>1, CreateMoney
<1>2. CASE Join
  BY <1>2, JoinMoney
<1>3. CASE Reveal
  BY <1>3, RevealMoney
<1>4. CASE Swiped
  BY <1>4, SwipedMoney
<1>5. CASE Settle
  BY <1>5, SettleMoney
<1>6. CASE Finalize \/ FinalizeTest
  BY <1>6, FinalizeMoney
<1>7. CASE Refund \/ Claim
  BY <1>7, RefundMoney
<1>8. CASE Tick \/ RedeemAny \/ UNCHANGED vars
  BY <1>8, EnvironmentMoney
<1> QED BY <1>1, <1>2, <1>3, <1>4, <1>5, <1>6, <1>7, <1>8 DEF Next, Finished

LEMMA MoneyInvariant == Spec => []MoneyInv
  BY InitMoney, NextMoney, PTL DEF Spec

\* Type correctness of the duel object.
THEOREM DuelTyped == Spec => []TypeOK
  BY MoneyInvariant, PTL DEF MoneyInv

\* Whatever the addresses, stakes, decks and timeouts: no coin of a duel is
\* created, lost or paid to anybody but its two players.
THEOREM DuelConservesFunds == Spec => []FundsConserved
  BY MoneyInvariant, PTL DEF MoneyInv

\* The escrow of an open duel is untouched, that of a closed one empty.
THEOREM DuelEscrowAllOrNothing == Spec => []EscrowAllOrNothing
  BY MoneyInvariant, PTL DEF MoneyInv

-----------------------------------------------------------------------------
(***************************************************************************)
(* The inductive invariant: the money invariant, the agreement of the turn *)
(* counters with the swipe slots and of the settled counter with the cards,*)
(* and that nobody has had a turn before the deck was revealed.            *)
(***************************************************************************)
TurnsNeedDeck == \A s \in Seats : nextIdx[s] > 0 => revealed

RuleInv == MoneyInv /\ SwipesArePrefix /\ SettlementCounted /\ TurnsNeedDeck

Tables == <<deckSize, cards, swipes, nextIdx, settled, settledCount, settlementPrice>>

LEMMA InitRules == Init => RuleInv
<1> SUFFICES ASSUME Init PROVE RuleInv
  OBVIOUS
<1>1. Cards = {} BY DEF Init, Cards, CardIdx
<1>2. SettlementCounted
  BY <1>1, FS_EmptySet DEF Init, SettlementCounted
<1> QED BY <1>1, <1>2, InitMoney DEF RuleInv, SwipesArePrefix, TurnsNeedDeck, Init, Seats

\* Without a deck there is no turn, no settled card and no position.
LEMMA NothingBeforeDeck ==
  ASSUME RuleInv, ~revealed
  PROVE  settled = {} /\ held = {} /\ (\A s \in Seats : nextIdx[s] = 0)
<1>1. \A s \in Seats : nextIdx[s] = 0
  BY DEF RuleInv, TurnsNeedDeck, MoneyInv, TypeOK
<1>2. settled = {} BY DEF RuleInv, SettlementCounted
<1>3. held \subseteq Seats \X Cards BY DEF RuleInv, MoneyInv, TypeOK
<1>4. \A s \in Seats, i \in Cards : <<s, i>> \notin held
  <2> SUFFICES ASSUME NEW s \in Seats, NEW i \in Cards, <<s, i>> \in held PROVE FALSE
    OBVIOUS
  <2>1. i < nextIdx[s] BY DEF RuleInv, SwipesArePrefix
  <2> QED BY <2>1, <1>1 DEF Cards, CardIdx, RuleInv, MoneyInv, TypeOK
<1> QED BY <1>1, <1>2, <1>3, <1>4

\* Steps that only shrink the set of positions keep the tables in agreement.
LEMMA SameTables ==
  ASSUME RuleInv, MoneyInv', UNCHANGED Tables, held' \subseteq held
  PROVE  RuleInv'
  BY DEF RuleInv, Tables, SwipesArePrefix, SettlementCounted, TurnsNeedDeck,
         Cards, revealed

LEMMA CreateRules == RuleInv /\ Create => RuleInv'
<1> SUFFICES ASSUME RuleInv, Create PROVE RuleInv'
  OBVIOUS
<1>1. MoneyInv' BY CreateMoney DEF RuleInv
<1>2. PICK u \in Users, amount \in Nat, hash \in Decks, n \in Nat, t \in {"staked", "free"} :
        create_duel_internal(u, amount, hash, n, t)
  BY DuelAssumption DEF Create, create_duel, create_duel_free
<1>3. ~revealed BY <1>2, DuelAssumption DEF create_duel_internal, RuleInv, MoneyInv, PhaseOK
<1>4. settled = {} /\ held = {} /\ (\A s \in Seats : nextIdx[s] = 0)
  BY <1>3, NothingBeforeDeck
<1>5. SwipesArePrefix'
  BY <1>2, <1>4 DEF create_duel_internal, SwipesArePrefix, Cards, CardIdx, NoSwipe
<1>6. SettlementCounted'
  <2>1. settledCount = 0 BY <1>4, FS_EmptySet DEF RuleInv, SettlementCounted
  <2> QED BY <1>2, <1>4, <2>1, FS_EmptySet
          DEF create_duel_internal, SettlementCounted, Cards, CardIdx
<1>7. TurnsNeedDeck'
  BY <1>2, <1>4 DEF create_duel_internal, TurnsNeedDeck
<1> QED BY <1>1, <1>5, <1>6, <1>7 DEF RuleInv

LEMMA RevealRules == RuleInv /\ Reveal => RuleInv'
<1> SUFFICES ASSUME RuleInv, NEW deck \in Decks, reveal_deck(deck) PROVE RuleInv'
  BY DEF Reveal
<1>1. MoneyInv' BY RevealMoney DEF RuleInv, Reveal
<1>2. settled = {} /\ held = {} /\ (\A s \in Seats : nextIdx[s] = 0)
  BY NothingBeforeDeck DEF reveal_deck
<1> QED BY <1>1, <1>2 DEF reveal_deck, RuleInv, SwipesArePrefix, SettlementCounted,
                          TurnsNeedDeck, Cards

LEMMA SwipedRules == RuleInv /\ Swiped => RuleInv'
<1> SUFFICES ASSUME RuleInv, Swiped PROVE RuleInv'
  OBVIOUS
<1>1. MoneyInv' BY SwipedMoney DEF RuleInv
<1>2. PICK s \in Seats, i \in Cards : \E up, q :
        /\ revealed /\ i = nextIdx[s]
        /\ record_swipe_internal(s, i, Swipe(up, q))
        /\ held' = held \/ held' = held \cup {<<s, i>>}
  BY DEF Swiped, record_swipe, record_swipe_free, preflight_swipe
<1>3. /\ nextIdx \in [Seats -> 0 .. deckSize] /\ deckSize \in Nat
      /\ swipes \in [Seats -> [Cards -> Swipes]]
  BY DEF RuleInv, MoneyInv, TypeOK
<1>4. Cards' = Cards /\ revealed'
  BY <1>2 DEF record_swipe_internal, Cards, revealed
<1>5. SwipesArePrefix'
  <2> SUFFICES ASSUME NEW r \in Seats, NEW c \in Cards
               PROVE  /\ swipes'[r][c].recorded <=> c < nextIdx'[r]
                      /\ <<r, c>> \in held' => c < nextIdx'[r]
    BY <1>4 DEF SwipesArePrefix
  <2>1. /\ swipes[r][c].recorded <=> c < nextIdx[r]
        /\ <<r, c>> \in held => c < nextIdx[r]
    BY DEF RuleInv, SwipesArePrefix
  <2>2. c \in Int /\ nextIdx[r] \in Int BY <1>3 DEF Cards, CardIdx
  <2>3. CASE r # s
    <3>1. swipes'[r] = swipes[r] /\ nextIdx'[r] = nextIdx[r]
      BY <1>2, <1>3, <2>3 DEF record_swipe_internal
    <3>2. <<r, c>> \in held' => <<r, c>> \in held BY <1>2, <2>3
    <3> QED BY <2>1, <3>1, <3>2
  <2>4. CASE r = s /\ c # i
    <3>1. swipes'[r][c] = swipes[r][c] /\ nextIdx'[r] = i + 1
      BY <1>2, <1>3, <2>4 DEF record_swipe_internal
    <3>2. <<r, c>> \in held' => <<r, c>> \in held BY <1>2, <2>4
    <3>3. c < i <=> c < i + 1 BY <1>2, <2>2, <2>4
    <3> QED BY <1>2, <2>1, <2>4, <3>1, <3>2, <3>3
  <2>5. CASE r = s /\ c = i
    <3>1. swipes'[r][c].recorded /\ nextIdx'[r] = i + 1
      BY <1>2, <1>3, <2>5 DEF record_swipe_internal, Swipe
    <3> QED BY <2>2, <2>5, <3>1
  <2> QED BY <2>3, <2>4, <2>5
<1>6. SettlementCounted'
  BY <1>2, <1>4 DEF record_swipe_internal, RuleInv, SettlementCounted, revealed
<1> QED BY <1>1, <1>4, <1>5, <1>6 DEF RuleInv, TurnsNeedDeck

LEMMA SettleRules == RuleInv /\ Settle => RuleInv'
<1> SUFFICES ASSUME RuleInv, Settle PROVE RuleInv'
  OBVIOUS
<1>1. MoneyInv' BY SettleMoney DEF RuleInv
<1>2. PICK i \in Cards, price \in Prices : \E pay, prem :
        preflight_settle(i, price) /\ commit_card_settlement(i, price, pay, prem)
  BY DEF Settle, settle_card, settle_card_free
<1>3. /\ settled' = settled \cup {i} /\ settledCount' = settledCount + 1
      /\ settlementPrice' = [settlementPrice EXCEPT ![i] = price]
      /\ i \notin settled /\ price > 0 /\ revealed
      /\ UNCHANGED <<deckSize, cards, swipes, nextIdx, held>>
  BY <1>2 DEF preflight_settle, commit_card_settlement
<1>4. Cards' = Cards /\ revealed' BY <1>3 DEF Cards, revealed
<1>5. SettlementCounted'
  <2>1. IsFiniteSet(settled)
    BY FiniteCards, FS_Subset DEF RuleInv, MoneyInv, TypeOK
  <2>2. settledCount' = Cardinality(settled')
    BY <1>3, <2>1, FS_AddElement DEF RuleInv, SettlementCounted
  <2>3. \A c \in Cards : settlementPrice'[c] > 0 <=> c \in settled'
    BY <1>2, <1>3 DEF RuleInv, SettlementCounted, MoneyInv, TypeOK
  <2> QED BY <1>4, <2>2, <2>3 DEF SettlementCounted
<1>6. SwipesArePrefix' /\ TurnsNeedDeck'
  BY <1>3, <1>4 DEF RuleInv, SwipesArePrefix, TurnsNeedDeck, revealed
<1> QED BY <1>1, <1>5, <1>6 DEF RuleInv

LEMMA FinalizeTestRules == RuleInv /\ FinalizeTest => RuleInv' /\ settled' = Cards
<1> SUFFICES ASSUME RuleInv, NEW price \in Prices, finalize_test_one_price(price)
             PROVE  RuleInv' /\ settled' = Cards
  BY DEF FinalizeTest
<1>1. MoneyInv' BY FinalizeMoney DEF RuleInv, FinalizeTest
<1>2. settled \subseteq Cards BY DEF RuleInv, MoneyInv, TypeOK
<1>3. /\ settled' = Cards
      /\ settledCount' = settledCount + Cardinality(Cards \ settled)
      /\ settlementPrice' = [c \in Cards |-> IF c \in Cards \ settled
                                             THEN price ELSE settlementPrice[c]]
      /\ price > 0 /\ revealed
      /\ UNCHANGED <<deckSize, cards, swipes, nextIdx, held>>
  BY <1>2 DEF finalize_test_one_price, UntouchedByFinalize
<1>4. Cards' = Cards /\ revealed' BY <1>3 DEF Cards, revealed
<1>5. SettlementCounted'
  <2>1. /\ IsFiniteSet(settled) /\ IsFiniteSet(Cards \ settled)
        /\ settled \cap (Cards \ settled) = {}
        /\ settled \cup (Cards \ settled) = Cards
    BY <1>2, FiniteCards, FS_Subset DEF RuleInv
  <2>2. Cardinality(Cards) = Cardinality(settled) + Cardinality(Cards \ settled)
    <3>1. PICK rest : rest = Cards \ settled OBVIOUS
    <3>2. Cardinality(settled \cup rest)
            = Cardinality(settled) + Cardinality(rest) - Cardinality(settled \cap rest)
      BY <2>1, <3>1, FS_Union
    <3>3. settled \cup rest = Cards /\ settled \cap rest = {} /\ Cardinality({}) = 0
      BY <2>1, <3>1, FS_EmptySet
    <3>4. Cardinality(settled) \in Nat /\ Cardinality(rest) \in Nat
      BY <2>1, <3>1, FS_CardinalityType
    <3>5. Cardinality(Cards) = Cardinality(settled) + Cardinality(rest) - 0
      BY <3>2, <3>3
    <3> QED BY <3>1, <3>4, <3>5
  <2>3. settledCount' = Cardinality(settled')
    BY <1>3, <2>2 DEF RuleInv, SettlementCounted
  <2>4. \A c \in Cards : settlementPrice'[c] > 0 <=> c \in settled'
    BY <1>2, <1>3 DEF RuleInv, SettlementCounted
  <2> QED BY <1>4, <2>3, <2>4 DEF SettlementCounted
<1>6. SwipesArePrefix' /\ TurnsNeedDeck'
  BY <1>3, <1>4 DEF RuleInv, SwipesArePrefix, TurnsNeedDeck, revealed
<1> QED BY <1>1, <1>3, <1>5, <1>6 DEF RuleInv

LEMMA NextRules == RuleInv /\ [Next]_vars => RuleInv'
<1> SUFFICES ASSUME RuleInv, [Next]_vars PROVE RuleInv'
  OBVIOUS
<1>1. MoneyInv' BY NextMoney DEF RuleInv
<1>2. CASE Join
  BY <1>1, <1>2, SameTables DEF Join, join_duel, join_duel_free, join_internal, Tables
<1>3. CASE Finalize
  BY <1>1, <1>3, SameTables DEF Finalize, finalize, finalize_free, FinalizeAs,
                                UntouchedByFinalize, Tables
<1>4. CASE Refund \/ Claim
  BY <1>1, <1>4, SameTables
     DEF Refund, refund_duel, refund_pending, refund_active, Claim,
         claim_reveal_timeout, UntouchedByRefund, UntouchedByFinalize, Tables
<1>5. CASE Tick \/ RedeemAny \/ UNCHANGED vars
  BY <1>1, <1>5, SameTables DEF Tick, RedeemAny, Redeem, vars, duelVars, Tables
<1> QED BY <1>2, <1>3, <1>4, <1>5, CreateRules, RevealRules, SwipedRules,
           SettleRules, FinalizeTestRules DEF Next, Finished

LEMMA RuleInvariant == Spec => []RuleInv
  BY InitRules, NextRules, PTL DEF Spec

-----------------------------------------------------------------------------
(***************************************************************************)
(* How a duel ends.                                                        *)
(***************************************************************************)

\* On the score of a fully played and settled deck, for the higher total.
ByScore ==
  /\ BothDone /\ settled' = Cards /\ outcome'.kind = "finalized"
  /\ \/ \E s \in Seats :
          /\ Value(payout', premium', s) > Value(payout', premium', Other(s))
          /\ WinnerTakesAll(s)
     \/ /\ Value(payout', premium', 0) = Value(payout', premium', 1)
        /\ PayOut(stake[0], stake[1])

\* Or only after the swipe window, for want of swipes or of the deck.
AfterWindow ==
  /\ Expired /\ ~BothDone
  /\ \/ \E s \in Seats : SwipedMore(s) /\ WinnerTakesAll(s)
     \/ PayOut(stake[0], stake[1])
     \/ ~revealed /\ PayOut(0, Pot)

Frozen == <<tier, deckSize, cards, creator, challenger, swipes, nextIdx,
            startedAt, now, held, staked, premium>>

LEMMA FinalizeEnds ==
  ASSUME RuleInv, status = "active", settled' \subseteq Cards,
         settledCount' = Cardinality(settled'), premium' = premium,
         finalize_internal(payout', premium, settledCount')
  PROVE  ByScore \/ AfterWindow
<1>1. /\ deckSize \in Nat /\ nextIdx \in [Seats -> 0 .. deckSize]
      /\ IsFiniteSet(Cards) /\ Cardinality(Cards) = deckSize
  BY FiniteCards DEF RuleInv, MoneyInv, TypeOK
<1>2. CASE ForfeitBranch
  <2>1. PICK s \in Seats : Expired /\ SwipedMore(s) /\ WinnerTakesAll(s)
    BY <1>2 DEF ForfeitBranch
  <2>2. ~BothDone BY <1>1, <2>1 DEF SwipedMore, Other, BothDone, Seats
  <2> QED BY <2>1, <2>2 DEF AfterWindow
<1>3. CASE ScoredBranch(payout', premium, settledCount')
  <2>1. BothDone /\ settled' = Cards
    BY <1>1, <1>3, FS_Subset DEF ScoredBranch
  <2>2. outcome'.kind = "finalized"
    BY <1>3 DEF ScoredBranch, WinnerTakesAll, ReturnStakes, Outcome
  <2> QED BY <1>3, <2>1, <2>2 DEF ScoredBranch, ByScore, ReturnStakes
<1>4. CASE StuckBranch
  BY <1>4 DEF StuckBranch, ReturnStakes, AfterWindow
<1> QED BY <1>2, <1>3, <1>4 DEF finalize_internal

LEMMA ActiveEnds ==
  ASSUME RuleInv, [Next]_vars, status = "active", status' = "complete"
  PROVE  /\ ByScore \/ AfterWindow
         /\ UNCHANGED Frozen /\ settled \subseteq settled' /\ settled' \subseteq Cards
<1> USE DuelAssumption
<1>1. settled \subseteq Cards /\ settledCount = Cardinality(settled)
  BY DEF RuleInv, MoneyInv, TypeOK, SettlementCounted
<1>2. CASE Finalize
  <2>1. /\ finalize_internal(payout, premium, settledCount)
        /\ UNCHANGED Frozen /\ UNCHANGED <<payout, settled, settledCount>>
    BY <1>2 DEF Finalize, finalize, finalize_free, FinalizeAs, UntouchedByFinalize, Frozen
  <2>2. settled' \subseteq Cards /\ settledCount' = Cardinality(settled')
    BY <1>1, <2>1
  <2>3. finalize_internal(payout', premium, settledCount') /\ premium' = premium
    BY <2>1 DEF Frozen
  <2> QED BY <1>1, <2>1, <2>2, <2>3, FinalizeEnds
<1>3. CASE FinalizeTest
  <2>1. settled' = Cards /\ settledCount' = Cardinality(settled')
    <3>1. RuleInv' /\ settled' = Cards BY <1>3, FinalizeTestRules
    <3> QED BY <3>1 DEF RuleInv, SettlementCounted
  <2>2. UNCHANGED Frozen /\ finalize_internal(payout', premium, settledCount')
    BY <1>3 DEF FinalizeTest, finalize_test_one_price, UntouchedByFinalize, Frozen
  <2>3. premium' = premium BY <2>2 DEF Frozen
  <2> QED BY <1>1, <2>1, <2>2, <2>3, FinalizeEnds
<1>4. CASE Refund
  <2>1. PICK u : refund_active(u) BY <1>4 DEF Refund, refund_duel, refund_pending
  <2>2. Expired BY <2>1 DEF refund_active, Expired, RuleInv, MoneyInv, TypeOK
  <2> QED BY <1>1, <2>1, <2>2 DEF refund_active, ReturnStakes, AfterWindow, Frozen,
                                 UntouchedByRefund, UntouchedByFinalize
<1>5. CASE Claim
  <2>1. PICK u : claim_reveal_timeout(u) BY <1>5 DEF Claim
  <2>2. Expired
    BY <2>1 DEF claim_reveal_timeout, Expired, RuleInv, MoneyInv, TypeOK
  <2>3. ~BothDone
    BY <2>1, NothingBeforeDeck
       DEF claim_reveal_timeout, BothDone, RuleInv, MoneyInv, PhaseOK, Seats
  <2> QED BY <1>1, <2>1, <2>2, <2>3 DEF claim_reveal_timeout, AfterWindow, Frozen,
                                 UntouchedByRefund, UntouchedByFinalize
<1>6. CASE Create \/ Join \/ Reveal \/ Swiped \/ Settle \/ Tick \/ RedeemAny \/ UNCHANGED vars
  BY <1>6 DEF Create, create_duel, create_duel_free, create_duel_internal, Join,
      join_duel, join_duel_free, join_internal, Reveal, reveal_deck, Swiped,
      record_swipe, record_swipe_free, record_swipe_internal, Settle, settle_card,
      settle_card_free, commit_card_settlement, Tick, RedeemAny, Redeem, vars, duelVars
<1> QED BY <1>2, <1>3, <1>4, <1>5, <1>6 DEF Next, Finished

\* An open duel that nobody joined ends only by its creator's refund.
LEMMA PendingEnds ==
  ASSUME RuleInv, [Next]_vars, status # "active", status # "complete", status' = "complete"
  PROVE  /\ status = "pending" /\ PayOut(stake[0], 0)
         /\ UNCHANGED Frozen /\ UNCHANGED <<settled, payout>>
<1>1. CASE Refund
  BY <1>1 DEF Refund, refund_duel, refund_pending, refund_active, UntouchedByRefund,
              UntouchedByFinalize, Frozen
<1>2. CASE Finalize \/ FinalizeTest \/ Claim
  BY <1>2 DEF Finalize, finalize, finalize_free, FinalizeAs, FinalizeTest, Claim,
              finalize_test_one_price, finalize_internal, claim_reveal_timeout
<1>3. CASE Create \/ Join \/ Reveal \/ Swiped
  <2>1. Create \/ Join => status' # "complete"
    BY DEF Create, create_duel, create_duel_free, create_duel_internal, Join,
        join_duel, join_duel_free, join_internal
  <2>2. Reveal \/ Swiped => status' = status
    BY DEF Reveal, reveal_deck, Swiped, record_swipe, record_swipe_free,
        record_swipe_internal
  <2> QED BY <1>3, <2>1, <2>2
<1>4. CASE Settle \/ Tick \/ RedeemAny \/ UNCHANGED vars
  <2>1. status' = status
    BY <1>4 DEF Settle, settle_card, settle_card_free, commit_card_settlement, Tick,
        RedeemAny, Redeem, vars, duelVars
  <2> QED BY <2>1
<1> QED BY <1>1, <1>2, <1>3, <1>4 DEF Next, Finished

\* A closed duel moves no money and records nothing any more.
LEMMA ClosedStays ==
  ASSUME RuleInv, [Next]_vars, status = "complete"
  PROVE  UNCHANGED <<duelVars, paid, staked>> /\ (Tick \/ UNCHANGED now)
<1>1. CASE Tick \/ RedeemAny \/ UNCHANGED vars
  BY <1>1 DEF Tick, RedeemAny, Redeem, vars
<1>2. CASE ~(Tick \/ RedeemAny \/ UNCHANGED vars)
  BY <1>2 DEF Next, Finished, Create, create_duel, create_duel_free,
      create_duel_internal, Join, join_duel, join_duel_free, join_internal, Reveal,
      reveal_deck, Swiped, record_swipe, record_swipe_free, preflight_swipe, Settle,
      settle_card, settle_card_free, preflight_settle, Refund, refund_duel,
      refund_pending, refund_active, Finalize, finalize, finalize_free, FinalizeAs,
      FinalizeTest, Claim, finalize_test_one_price, finalize_internal,
      claim_reveal_timeout
<1> QED BY <1>1, <1>2

\* What the two players hold after a pay-out of the whole pot.
LEMMA PaidOut ==
  ASSUME RuleInv, status \in {"pending", "active"}, NEW a \in Nat, NEW b \in Nat,
         a + b = Pot, challenger = NoUser => b = 0, PayOut(a, b), UNCHANGED Frozen
  PROVE  PaidTo(0)' = a /\ PaidTo(1)' = b
<1>1. creator \in Users BY DEF RuleInv, MoneyInv, PhaseOK
<1>2. UNCHANGED <<tier, deckSize, cards, creator, challenger, staked>> BY DEF Frozen
<1> QED BY <1>1, <1>2, ClosePreservesMoney DEF RuleInv

LEMMA ActivePot ==
  ASSUME RuleInv, status = "active"
  PROVE  /\ stake \in [Seats -> Nat] /\ stake = staked /\ stake[0] = stake[1]
         /\ stake[0] \in Nat /\ Pot = stake[0] + stake[1] /\ Pot \in Nat
         /\ challenger # NoUser
  BY DuelAssumption DEF RuleInv, MoneyInv, TypeOK, PhaseOK, EscrowAllOrNothing, Pot, Seats

LEMMA WinnerPaid ==
  ASSUME RuleInv, status = "active", UNCHANGED Frozen,
         NEW s \in Seats, WinnerTakesAll(s)
  PROVE  PaidTo(s)' = Pot /\ PaidTo(Other(s))' = 0
<1>1. CASE s = 0
  <2>1. PayOut(Pot, 0) BY <1>1 DEF WinnerTakesAll
  <2> QED BY <1>1, <2>1, ActivePot, PaidOut DEF Other
<1>2. CASE s = 1
  <2>1. PayOut(0, Pot) BY <1>2 DEF WinnerTakesAll
  <2> QED BY <1>2, <2>1, ActivePot, PaidOut DEF Other
<1> QED BY <1>1, <1>2 DEF Seats

LEMMA StakesReturned ==
  ASSUME RuleInv, status = "active", UNCHANGED Frozen, PayOut(stake[0], stake[1])
  PROVE  \A s \in Seats : PaidTo(s)' = staked[s]
<1>1. PaidTo(0)' = stake[0] /\ PaidTo(1)' = stake[1] BY ActivePot, PaidOut
<1> QED BY <1>1, ActivePot DEF Seats

-----------------------------------------------------------------------------
(***************************************************************************)
(* The pot is earned.                                                      *)
(***************************************************************************)
LEMMA EarnedAtClose ==
  ASSUME RuleInv, [Next]_vars, status # "complete", status' = "complete"
  PROVE  PotEarned'
<1> SUFFICES ASSUME NEW s \in Seats, PaidTo(s)' > staked'[s]
             PROVE  \/ SwipedMore(s)'
                    \/ /\ BothScored'
                       /\ Value(payout', premium', s) > Value(payout', premium', Other(s))
                    \/ s = 1 /\ ~revealed'
  BY DEF PotEarned, Value
<1>1. CASE status = "active"
  <2>1. /\ ByScore \/ AfterWindow
        /\ UNCHANGED Frozen
    BY <1>1, ActiveEnds
  <2>2. /\ staked' = staked /\ (SwipedMore(s)' <=> SwipedMore(s))
        /\ (revealed' <=> revealed) /\ Cards' = Cards
        /\ (BothDone' <=> BothDone)
    BY <2>1 DEF Frozen, SwipedMore, revealed, Cards, BothDone
  <2>3. staked[s] \in Nat BY <1>1, ActivePot
  <2>4. ASSUME NEW w \in Seats, WinnerTakesAll(w) PROVE w = s
    <3>1. PaidTo(Other(w))' = 0 BY <1>1, <2>1, <2>4, WinnerPaid
    <3> QED BY <2>2, <2>3, <3>1 DEF Seats, Other
  <2>5. ~PayOut(stake[0], stake[1])
    BY <1>1, <2>1, <2>2, <2>3, StakesReturned
  <2>6. CASE ByScore
    <3>1. \E w \in Seats : /\ Value(payout', premium', w) > Value(payout', premium', Other(w))
                           /\ WinnerTakesAll(w)
      BY <2>5, <2>6 DEF ByScore
    <3>2. BothDone' /\ settled' = Cards' BY <2>2, <2>6 DEF ByScore
    <3> QED BY <2>4, <3>1, <3>2 DEF BothScored
  <2>7. CASE AfterWindow
    <3>1. CASE \E w \in Seats : SwipedMore(w) /\ WinnerTakesAll(w)
      BY <2>2, <2>4, <3>1
    <3>2. CASE ~revealed /\ PayOut(0, Pot)
      <4>1. PaidTo(0)' = 0 BY <1>1, <2>1, <3>2, ActivePot, PaidOut
      <4> QED BY <2>2, <2>3, <3>2, <4>1 DEF Seats
    <3> QED BY <2>5, <2>7, <3>1, <3>2 DEF AfterWindow
  <2> QED BY <2>1, <2>6, <2>7
<1>2. CASE status # "active"
  <2>1. /\ status = "pending" /\ PayOut(stake[0], 0) /\ UNCHANGED Frozen
    BY <1>2, PendingEnds
  <2>2. /\ stake = staked /\ stake[1] = 0 /\ stake[0] \in Nat
        /\ Pot = stake[0] /\ challenger = NoUser
    BY <2>1 DEF RuleInv, MoneyInv, TypeOK, PhaseOK, EscrowAllOrNothing, Pot, Seats
  <2>3. PaidTo(0)' = stake[0] /\ PaidTo(1)' = 0
    BY <2>1, <2>2, PaidOut
  <2>4. staked' = staked BY <2>1 DEF Frozen
  <2> QED BY <2>2, <2>3, <2>4 DEF Seats
<1> QED BY <1>1, <1>2

LEMMA EarnedStays ==
  ASSUME RuleInv, PotEarned, [Next]_vars PROVE PotEarned'
<1>1. CASE status = "complete"
  <2>1. UNCHANGED <<duelVars, paid, staked>> BY <1>1, ClosedStays
  <2> QED BY <2>1 DEF duelVars, PotEarned, PaidTo, Player, SwipedMore, BothScored,
                      BothDone, Cards, Value, revealed
<1>2. CASE status # "complete" /\ status' = "complete"
  BY <1>2, EarnedAtClose
<1>3. CASE status' # "complete"
  BY <1>3 DEF PotEarned
<1> QED BY <1>1, <1>2, <1>3

\* For all stakes, decks, prices and timeouts, and however the four endings
\* race with each other: a player gets the opponent's stake only by more
\* swipes, by the better score of a settled deck, or because the deck was
\* never revealed (finalize_internal, refund_duel, claim_reveal_timeout).
THEOREM DuelPotEarned == Spec => []PotEarned
<1>1. Init => PotEarned BY DEF Init, PotEarned
<1> QED BY <1>1, EarnedStays, RuleInvariant, PTL DEF Spec

-----------------------------------------------------------------------------
(***************************************************************************)
(* When a duel may end.                                                    *)
(***************************************************************************)

\* Before the window has closed a joined duel ends only fully played and
\* settled.  It rests on REVEAL_TIMEOUT_MS and REFUND_TIMEOUT_MS being no
\* shorter than SWIPE_WINDOW_MS (duel.move, lines 99-101).
THEOREM DuelNeverEndsEarly == Spec => NoPrematureEnd
<1>1. RuleInv /\ [Next]_vars =>
        [status = "active" /\ status' = "complete" /\ ~Expired => BothScored']_vars
  <2> SUFFICES ASSUME RuleInv, [Next]_vars, status = "active", status' = "complete", ~Expired
               PROVE  BothScored'
    OBVIOUS
  <2>1. ByScore /\ UNCHANGED Frozen BY ActiveEnds DEF AfterWindow
  <2> QED BY <2>1 DEF ByScore, Frozen, BothScored, BothDone, Cards
<1> QED BY <1>1, RuleInvariant, PTL DEF Spec, NoPrematureEnd

\* Once both have swiped the whole deck, no refund, forfeit or timeout takes
\* the win from the better score.
THEOREM DuelLoserCannotDodge == Spec => LoserCannotDodge
<1> DEFINE Fair == status = "active" /\ BothDone /\ status' = "complete" =>
       /\ settled' = Cards
       /\ outcome'.kind = "finalized"
       /\ \A s \in Seats :
            Value(payout', premium', s) > Value(payout', premium', Other(s)) =>
              PaidTo(s)' = staked[0] + staked[1]
<1>1. RuleInv /\ RuleInv' /\ [Next]_vars => [Fair]_vars
  <2> SUFFICES ASSUME RuleInv, RuleInv', [Next]_vars,
                      status = "active", BothDone, status' = "complete"
               PROVE  /\ settled' = Cards
                      /\ outcome'.kind = "finalized"
                      /\ \A s \in Seats :
                           Value(payout', premium', s) > Value(payout', premium', Other(s)) =>
                             PaidTo(s)' = staked[0] + staked[1]
    OBVIOUS
  <2>1. ByScore /\ UNCHANGED Frozen BY ActiveEnds DEF AfterWindow
  <2>2. ASSUME NEW s \in Seats,
               Value(payout', premium', s) > Value(payout', premium', Other(s))
        PROVE  PaidTo(s)' = staked[0] + staked[1]
    <3>1. \A r \in Seats : Value(payout', premium', r) \in Int
      BY DEF RuleInv, MoneyInv, TypeOK, Value, Seats, Other, U64
    <3>2. \A r \in Seats : Other(r) \in Seats /\ Other(Other(r)) = r
      BY DEF Seats, Other
    <3>3. PICK w \in Seats : /\ Value(payout', premium', w) > Value(payout', premium', Other(w))
                             /\ WinnerTakesAll(w)
      <4>1. (s = 0 /\ Other(s) = 1) \/ (s = 1 /\ Other(s) = 0) BY DEF Seats, Other
      <4>2. Value(payout', premium', 0) # Value(payout', premium', 1)
        BY <2>2, <3>1, <4>1 DEF Seats
      <4> QED BY <2>1, <4>2 DEF ByScore
    <3>4. w = s
      <4>1. w # s => w = Other(s) /\ Other(w) = s BY DEF Seats, Other
      <4> QED BY <2>2, <3>1, <3>2, <3>3, <4>1
    <3>5. PaidTo(s)' = Pot BY <2>1, <3>3, <3>4, WinnerPaid
    <3> QED BY <3>5, ActivePot
  <2> QED BY <2>1, <2>2 DEF ByScore
<1>2. Spec => [][Fair]_vars
  BY <1>1, RuleInvariant, PTL DEF Spec
<1> QED BY <1>2 DEF LoserCannotDodge

-----------------------------------------------------------------------------
(***************************************************************************)
(* Positions are not paid twice.                                           *)
(***************************************************************************)

\* A staked card scores only for a seat whose account still holds the
\* position (settle_card's has_position, score_payout).
LEMMA ScoredCardIsHeld ==
  ASSUME RuleInv, tier = "staked", Settle, NEW s \in Seats, payout'[s] > payout[s]
  PROVE  \E i \in settled' \ settled : <<s, i>> \in held
<1>1. PICK i \in Cards, price \in Prices, prem \in [Seats -> Premiums], w \in [Seats -> Users] :
        settle_card(w, i, price, prem)
  BY DEF Settle, settle_card_free
<1>2. /\ i \notin settled /\ settled' = settled \cup {i}
      /\ payout'[s] = payout[s] + score_payout(swipes[s][i], price > cards[i],
                                               ~has_position(w[s], s, i))
  BY <1>1 DEF settle_card, preflight_settle, commit_card_settlement
<1>3. payout[s] \in Nat BY DEF RuleInv, MoneyInv, TypeOK, U64
<1>4. CASE has_position(w[s], s, i) BY <1>2, <1>4 DEF has_position
<1>5. CASE ~has_position(w[s], s, i)
  <2>1. payout'[s] = payout[s] + 0 BY <1>2, <1>5 DEF score_payout
  <2> QED BY <1>3, <2>1
<1> QED BY <1>4, <1>5

\* Whatever is redeemed on the prediction market at whatever time, a
\* position redeemed before its card is settled is not paid by the duel.
THEOREM DuelNoReplay == Spec => NoReplayedPosition
<1> DEFINE Backed == \A s \in Seats :
       (tier = "staked" /\ status' = "active" /\ payout'[s] > payout[s]) =>
         \E i \in settled' \ settled : <<s, i>> \in held
<1>1. RuleInv /\ [Next]_vars => [Backed]_vars
  <2> SUFFICES ASSUME RuleInv, [Next]_vars, NEW s \in Seats, tier = "staked",
                      status' = "active", payout'[s] > payout[s]
               PROVE  \E i \in settled' \ settled : <<s, i>> \in held
    OBVIOUS
  <2>1. payout' # payout BY DEF RuleInv, MoneyInv, TypeOK, U64
  <2>2. ~(Create \/ Join \/ Reveal \/ Swiped \/ Tick \/ RedeemAny \/ UNCHANGED vars)
    <3>1. ~(Create \/ Join)
      BY <2>1 DEF Create, create_duel, create_duel_free, create_duel_internal, Join,
          join_duel, join_duel_free, join_internal
    <3>2. ~Reveal BY <2>1 DEF Reveal, reveal_deck
    <3>3. ~Swiped
      BY <2>1 DEF Swiped, record_swipe, record_swipe_free, record_swipe_internal
    <3>4. ~(Tick \/ RedeemAny \/ UNCHANGED vars)
      BY <2>1 DEF Tick, RedeemAny, Redeem, vars, duelVars
    <3> QED BY <3>1, <3>2, <3>3, <3>4
  <2>3. ~(Refund \/ Claim \/ Finalize)
    BY <2>1 DEF Refund, refund_duel, refund_pending, refund_active, Claim,
        claim_reveal_timeout, UntouchedByRefund, Finalize, finalize, finalize_free,
        FinalizeAs
  <2>4. ~FinalizeTest
    <3>1. finalize_internal(payout', premium, settledCount') => status' = "complete"
      BY DEF finalize_internal, ForfeitBranch, ScoredBranch, StuckBranch,
             WinnerTakesAll, ReturnStakes, PayOut
    <3> QED BY <3>1 DEF FinalizeTest, finalize_test_one_price
  <2>5. Settle BY <2>2, <2>3, <2>4 DEF Next, Finished
  <2> QED BY <2>5, ScoredCardIsHeld
<1>2. Spec => [][Backed]_vars
  BY <1>1, RuleInvariant, PTL DEF Spec
<1> QED BY <1>2 DEF NoReplayedPosition

-----------------------------------------------------------------------------
(***************************************************************************)
(* What is recorded: a seat's total is backed by what it bet on the settled*)
(* cards, and nothing recorded is rewritten.  A card may be settled before *)
(* a seat has swiped it, so the bound needs that an empty slot bets nothing*)
(* and is filled once.                                                     *)
(***************************************************************************)
EmptySlotBetsNothing ==
  \A s \in Seats, i \in Cards : ~swipes[s][i].recorded => swipes[s][i].quantity = 0

ScoreInv == RuleInv /\ EmptySlotBetsNothing /\ ScoreBacked

\* What seat s bet on the cards of the set c.
Bets(s, c) == [i \in c |-> swipes[s][i].quantity]

LEMMA BetsAreNat ==
  ASSUME RuleInv, NEW s \in Seats, NEW c, c \subseteq Cards
  PROVE  /\ Bets(s, c) \in [c -> Nat] /\ Bets(s, c) \in [c -> Int] /\ IsFiniteSet(c)
         /\ payout[s] \in Int /\ premium[s] \in Int /\ SumFunction(Bets(s, c)) \in Int
<1>1. swipes \in [Seats -> [Cards -> Swipes]] /\ payout[s] \in Int /\ premium[s] \in Int
  BY DuelAssumption DEF RuleInv, MoneyInv, TypeOK, U64
<1>2. Bets(s, c) \in [c -> Nat] /\ Bets(s, c) \in [c -> Int]
  BY <1>1 DEF Bets, Swipes
<1>3. IsFiniteSet(c) BY FiniteCards, FS_Subset DEF RuleInv
<1>4. SumFunction(Bets(s, c)) \in Int BY <1>2, <1>3, SumType
<1> QED BY <1>1, <1>2, <1>3, <1>4

\* A swipe scores nothing or what it bet.
LEMMA ScoreWithinBet ==
  ASSUME NEW swipe \in Swipes, NEW up, NEW early
  PROVE  score_payout(swipe, up, early) \in 0 .. swipe.quantity
  BY DEF score_payout, Swipes

LEMMA SettleScores ==
  ASSUME ScoreInv, Settle
  PROVE  /\ ScoreBacked'
         /\ \A s \in Seats : payout'[s] >= payout[s] /\ premium'[s] >= premium[s]
<1>1. PICK i \in Cards, price \in Prices, prem \in [Seats -> Premiums], early \in [Seats -> BOOLEAN] :
        /\ preflight_settle(i, price)
        /\ commit_card_settlement(i, price,
             [s \in Seats |-> score_payout(swipes[s][i], price > cards[i], early[s])],
             ChargedPremium(prem, i))
  <2>1. PICK i \in Cards, price \in Prices, prem \in [Seats -> Premiums] :
          \/ \E w \in [Seats -> Users] : settle_card(w, i, price, prem)
          \/ settle_card_free(i, price, prem)
    BY DEF Settle
  <2>2. CASE settle_card_free(i, price, prem)
    <3>1. PICK early \in [Seats -> BOOLEAN] : early = [s \in Seats |-> FALSE] OBVIOUS
    <3>2. [s \in Seats |-> score_payout(swipes[s][i], price > cards[i], early[s])]
            = [s \in Seats |-> score_payout(swipes[s][i], price > cards[i], FALSE)]
      BY <3>1
    <3> QED BY <2>2, <3>2 DEF settle_card_free
  <2>3. ASSUME NEW w \in [Seats -> Users], settle_card(w, i, price, prem)
        PROVE  \E early \in [Seats -> BOOLEAN] :
                 /\ preflight_settle(i, price)
                 /\ commit_card_settlement(i, price,
                      [s \in Seats |-> score_payout(swipes[s][i], price > cards[i], early[s])],
                      ChargedPremium(prem, i))
    <3>1. PICK early \in [Seats -> BOOLEAN] : early = [s \in Seats |-> ~has_position(w[s], s, i)]
      BY DEF has_position
    <3>2. [s \in Seats |-> score_payout(swipes[s][i], price > cards[i], early[s])]
            = [s \in Seats |-> score_payout(swipes[s][i], price > cards[i], ~has_position(w[s], s, i))]
      BY <3>1
    <3> QED BY <2>3, <3>2 DEF settle_card
  <2> QED BY <2>1, <2>2, <2>3
<1>2. swipes \in [Seats -> [Cards -> Swipes]] BY DEF ScoreInv, RuleInv, MoneyInv, TypeOK
<1>3. /\ i \notin settled /\ settled' = settled \cup {i} /\ swipes' = swipes
      /\ settled \subseteq Cards
  BY <1>1 DEF preflight_settle, commit_card_settlement, ScoreInv, RuleInv, MoneyInv, TypeOK
<1>4. ASSUME NEW s \in Seats
      PROVE  /\ payout'[s] >= payout[s] /\ premium'[s] >= premium[s]
             /\ payout'[s] <= SumFunction(Bets(s, settled \cup {i}))
  <2>1. PICK a \in 0 .. swipes[s][i].quantity : payout'[s] = payout[s] + a
    BY <1>1, <1>2, ScoreWithinBet DEF commit_card_settlement
  <2>2. PICK b \in Nat : premium'[s] = premium[s] + b
    BY <1>1, DuelAssumption DEF commit_card_settlement, ChargedPremium
  <2>3. swipes[s][i].quantity \in Nat BY <1>2 DEF Swipes
  <2>4. payout[s] <= SumFunction(Bets(s, settled)) BY DEF ScoreInv, ScoreBacked, Bets
  <2>5. settled \cup {i} \subseteq Cards BY <1>3
  <2>6. SumFunction(Bets(s, settled \cup {i}))
          = swipes[s][i].quantity + SumFunction(Bets(s, settled))
    <3>1. /\ Bets(s, settled) \in [settled -> Int]
          /\ Bets(s, settled \cup {i}) \in [settled \cup {i} -> Int] /\ IsFiniteSet(settled)
      BY <1>3, <2>5, BetsAreNat DEF ScoreInv
    <3>2. Extends(Bets(s, settled \cup {i}), Bets(s, settled), settled, i)
      BY <1>3, <3>1 DEF Extends, Bets
    <3>3. Bets(s, settled \cup {i})[i] = swipes[s][i].quantity BY DEF Bets
    <3> QED BY <3>1, <3>2, <3>3, SumAdd
  <2>7. payout[s] \in Int /\ premium[s] \in Int /\ SumFunction(Bets(s, settled)) \in Int
    BY <1>3, BetsAreNat DEF ScoreInv
  <2> QED BY <2>1, <2>2, <2>3, <2>4, <2>6, <2>7
<1>5. ScoreBacked' BY <1>3, <1>4 DEF ScoreBacked, Bets
<1> QED BY <1>4, <1>5

LEMMA FinalizeTestScores ==
  ASSUME ScoreInv, FinalizeTest
  PROVE  ScoreBacked' /\ premium' = premium /\ \A s \in Seats : payout'[s] >= payout[s]
<1> DEFINE rest == Cards \ settled
<1>1. PICK price \in Prices : finalize_test_one_price(price) BY DEF FinalizeTest
<1> DEFINE scores(s) == [i \in rest |-> score_payout(swipes[s][i], price > cards[i], FALSE)]
<1>2. swipes \in [Seats -> [Cards -> Swipes]] /\ settled \subseteq Cards
  BY DEF ScoreInv, RuleInv, MoneyInv, TypeOK
<1>3. /\ payout' = [s \in Seats |-> payout[s] + SumFunction(scores(s))]
      /\ settled' = Cards /\ swipes' = swipes /\ premium' = premium
  BY <1>1, <1>2 DEF finalize_test_one_price, UntouchedByFinalize
<1>4. ASSUME NEW s \in Seats
      PROVE  payout'[s] >= payout[s] /\ payout'[s] <= SumFunction(Bets(s, Cards))
  <2>1. /\ Bets(s, rest) \in [rest -> Int] /\ Bets(s, settled) \in [settled -> Int]
        /\ Bets(s, Cards) \in [settled \cup rest -> Int]
        /\ IsFiniteSet(rest) /\ IsFiniteSet(settled)
    <3>1. settled \cup rest = Cards /\ rest \subseteq Cards BY <1>2
    <3> HIDE DEF rest
    <3> QED BY <1>2, <3>1, BetsAreNat DEF ScoreInv
  <2>2. \A i \in rest : score_payout(swipes[s][i], price > cards[i], FALSE)
                          \in 0 .. swipes[s][i].quantity
    BY <1>2, ScoreWithinBet
  <2>3. \A i \in rest : swipes[s][i].quantity \in Nat BY <1>2 DEF Swipes
  <2>4. /\ scores(s) \in [rest -> Int]
        /\ \A i \in rest : scores(s)[i] <= Bets(s, rest)[i] /\ 0 <= scores(s)[i]
    <3>1. ASSUME NEW i \in rest
          PROVE  /\ scores(s)[i] \in Int /\ 0 <= scores(s)[i]
                 /\ scores(s)[i] <= Bets(s, rest)[i]
      <4>1. scores(s)[i] \in 0 .. swipes[s][i].quantity BY <2>2
      <4>2. Bets(s, rest)[i] = swipes[s][i].quantity BY DEF Bets
      <4>3. swipes[s][i].quantity \in Nat BY <2>3
      <4> HIDE DEF scores, rest
      <4> QED BY <4>1, <4>2, <4>3
    <3>2. scores(s) = [i \in rest |-> scores(s)[i]] OBVIOUS
    <3> HIDE DEF scores, rest
    <3> QED BY <3>1, <3>2
  <2> DEFINE nothing == [i \in rest |-> 0]
  <2>5. nothing \in [rest -> Int] /\ \A i \in rest : nothing[i] <= scores(s)[i]
    <3> HIDE DEF scores, rest
    <3> QED BY <2>4
  <2>6. settled \cap rest = {} OBVIOUS
  <2>7. /\ Restrict(Bets(s, Cards), settled) = Bets(s, settled)
        /\ Restrict(Bets(s, Cards), rest) = Bets(s, rest)
    BY <1>2 DEF Bets, Restrict
  <2>8. payout'[s] = payout[s] + SumFunction(scores(s)) BY <1>3
  <2>9. payout[s] <= SumFunction(Bets(s, settled)) BY DEF ScoreInv, ScoreBacked, Bets
  <2>10. payout[s] \in Int BY <1>2, BetsAreNat DEF ScoreInv
  <2>11. SumFunction(nothing) = 0 BY <2>1, SumOfNothing
  <2> HIDE DEF rest, scores, nothing
  <2>12. SumFunction(scores(s)) <= SumFunction(Bets(s, rest)) BY <2>1, <2>4, SumMonotone
  <2>13. SumFunction(nothing) <= SumFunction(scores(s)) BY <2>1, <2>4, <2>5, SumMonotone
  <2>14. SumFunction(Bets(s, Cards)) = SumFunction(Bets(s, settled)) + SumFunction(Bets(s, rest))
    <3>1. SumFunction(Bets(s, Cards)) = SumFunction(Restrict(Bets(s, Cards), settled))
                                          + SumFunction(Restrict(Bets(s, Cards), rest))
      BY <2>1, <2>6, SumDisjoint
    <3> QED BY <2>7, <3>1
  <2>15. /\ SumFunction(scores(s)) \in Int /\ SumFunction(Bets(s, rest)) \in Int
         /\ SumFunction(Bets(s, settled)) \in Int
    BY <2>1, <2>4, SumType
  <2> QED BY <2>8, <2>9, <2>10, <2>11, <2>12, <2>13, <2>14, <2>15
<1>5. ScoreBacked'
  <2>1. \A s \in Seats : Bets(s, Cards) = [i \in settled' |-> swipes'[s][i].quantity]
    BY <1>3 DEF Bets
  <2> QED BY <1>4, <2>1 DEF ScoreBacked
<1> QED BY <1>3, <1>4, <1>5

\* A swipe fills an empty slot, the one at the turn counter.
LEMMA SwipeFillsSlot ==
  ASSUME ScoreInv, Swiped
  PROVE  /\ EmptySlotBetsNothing' /\ UNCHANGED <<deckSize, settled, settlementPrice, payout, premium>>
         /\ \A s \in Seats, c \in Cards :
              /\ swipes[s][c].recorded => swipes'[s][c] = swipes[s][c]
              /\ swipes[s][c].quantity <= swipes'[s][c].quantity
<1>1. PICK r \in Seats, i \in Cards, up \in BOOLEAN, q \in Nat :
        i = nextIdx[r] /\ record_swipe_internal(r, i, Swipe(up, q))
  BY DuelAssumption DEF Swiped, record_swipe, record_swipe_free, preflight_swipe
<1>2. swipes \in [Seats -> [Cards -> Swipes]] /\ deckSize \in Nat
  BY DEF ScoreInv, RuleInv, MoneyInv, TypeOK
<1>3. ~swipes[r][i].recorded /\ swipes[r][i].quantity = 0
  <2>1. i \in Int BY <1>2 DEF Cards, CardIdx
  <2>2. ~(i < nextIdx[r]) BY <1>1, <2>1
  <2>3. ~swipes[r][i].recorded BY <2>2 DEF ScoreInv, RuleInv, SwipesArePrefix
  <2> QED BY <2>3 DEF ScoreInv, EmptySlotBetsNothing
<1>4. ASSUME NEW s \in Seats, NEW c \in Cards
      PROVE  swipes'[s][c] = IF s = r /\ c = i THEN Swipe(up, q) ELSE swipes[s][c]
  BY <1>1, <1>2 DEF record_swipe_internal
<1>5. ASSUME NEW s \in Seats, NEW c \in Cards
      PROVE  /\ swipes[s][c].recorded => swipes'[s][c] = swipes[s][c]
             /\ swipes[s][c].quantity <= swipes'[s][c].quantity
             /\ ~swipes'[s][c].recorded => swipes'[s][c].quantity = 0
  <2>1. swipes[s][c].quantity \in Nat BY <1>2 DEF Swipes
  <2>2. ~swipes[s][c].recorded => swipes[s][c].quantity = 0
    BY DEF ScoreInv, EmptySlotBetsNothing
  <2> QED BY <1>3, <1>4, <2>1, <2>2 DEF Swipe
<1>6. UNCHANGED <<deckSize, settled, settlementPrice, payout, premium>>
  BY <1>1 DEF record_swipe_internal
<1>7. Cards' = Cards BY <1>6 DEF Cards
<1> QED BY <1>5, <1>6, <1>7 DEF EmptySlotBetsNothing

LEMMA SwipedScores == ScoreInv /\ Swiped => ScoreBacked'
<1> SUFFICES ASSUME ScoreInv, Swiped, NEW s \in Seats
             PROVE  payout'[s] <= SumFunction(Bets(s, settled)')
  BY DEF ScoreBacked, Bets
<1>1. RuleInv' BY NextRules DEF ScoreInv, Next
<1>2. /\ settled \subseteq Cards /\ settled' \subseteq Cards' /\ settled' = settled
      /\ payout'[s] = payout[s]
  BY <1>1, SwipeFillsSlot DEF ScoreInv, RuleInv, MoneyInv, TypeOK
<1>3. /\ Bets(s, settled) \in [settled -> Int] /\ IsFiniteSet(settled)
      /\ payout[s] \in Int /\ SumFunction(Bets(s, settled)) \in Int
  BY <1>2, BetsAreNat DEF ScoreInv
<1>4. swipes' \in [Seats -> [Cards' -> Swipes]] BY <1>1 DEF RuleInv, MoneyInv, TypeOK
<1>5. PICK new : new = [i \in settled |-> swipes'[s][i].quantity] OBVIOUS
<1>6. new \in [settled -> Int] BY <1>2, <1>4, <1>5 DEF Swipes
<1>7. \A i \in settled : Bets(s, settled)[i] <= new[i]
  BY <1>2, <1>5, SwipeFillsSlot DEF Bets
<1>8. SumFunction(Bets(s, settled)) <= SumFunction(new) BY <1>3, <1>6, <1>7, SumMonotone
<1>9. SumFunction(new) \in Int BY <1>3, <1>6, SumType
<1>10. payout[s] <= SumFunction(Bets(s, settled)) BY DEF ScoreInv, ScoreBacked, Bets
<1> QED BY <1>2, <1>3, <1>5, <1>8, <1>9, <1>10 DEF Bets

\* The other steps leave totals, settled cards and bets as they are.
LEMMA InitScores == Init => ScoreInv
<1> SUFFICES ASSUME Init PROVE ScoreInv
  OBVIOUS
<1>1. RuleInv /\ settled = {} /\ \A s \in Seats : payout[s] = 0
  BY InitRules DEF Init, Seats
<1>2. ASSUME NEW s \in Seats PROVE payout[s] <= SumFunction(Bets(s, settled))
  <2>1. Bets(s, settled) \in [{} -> Int] BY <1>1 DEF Bets
  <2> QED BY <1>1, <2>1, SumEmpty
<1>3. EmptySlotBetsNothing BY DEF Init, EmptySlotBetsNothing, Cards, CardIdx
<1> QED BY <1>1, <1>2, <1>3 DEF ScoreInv, ScoreBacked, Bets

LEMMA CreateScores == ScoreInv /\ Create => ScoreBacked' /\ EmptySlotBetsNothing'
<1> SUFFICES ASSUME ScoreInv, Create PROVE ScoreBacked' /\ EmptySlotBetsNothing'
  OBVIOUS
<1>1. PICK n : /\ UNCHANGED <<settled, payout>> /\ deckSize' = n /\ status = "none"
               /\ swipes' = [s \in Seats |-> [i \in CardIdx(n) |-> NoSwipe]]
  BY DEF Create, create_duel, create_duel_free, create_duel_internal
<1>2. ~revealed BY <1>1, DuelAssumption DEF ScoreInv, RuleInv, MoneyInv, PhaseOK
<1>3. settled = {} BY <1>2, NothingBeforeDeck DEF ScoreInv
<1>4. ScoreBacked'
  <2>1. \A s \in Seats : [i \in settled' |-> swipes'[s][i].quantity] = Bets(s, settled)
    BY <1>1, <1>3 DEF Bets
  <2> QED BY <1>1, <2>1 DEF ScoreInv, ScoreBacked, Bets
<1>5. EmptySlotBetsNothing' BY <1>1 DEF EmptySlotBetsNothing, Cards, NoSwipe
<1> QED BY <1>4, <1>5

Scores == <<deckSize, swipes, settled, settlementPrice, payout, premium>>

LEMMA SameScores ==
  ASSUME [Next]_vars
  PROVE  Create \/ Swiped \/ Settle \/ FinalizeTest \/ UNCHANGED Scores
  BY DEF Next, Finished, Join, join_duel, join_duel_free, join_internal, Reveal,
      reveal_deck, Finalize, finalize, finalize_free, FinalizeAs, UntouchedByFinalize,
      Refund, refund_duel, refund_pending, refund_active, UntouchedByRefund, Claim,
      claim_reveal_timeout, Tick, RedeemAny, Redeem, vars, duelVars, Scores

LEMMA NextScores == ScoreInv /\ [Next]_vars => ScoreInv'
<1> SUFFICES ASSUME ScoreInv, [Next]_vars PROVE ScoreInv'
  OBVIOUS
<1>1. RuleInv' BY NextRules DEF ScoreInv
<1>2. CASE UNCHANGED Scores
  BY <1>1, <1>2 DEF Scores, ScoreInv, ScoreBacked, EmptySlotBetsNothing, Cards
<1>3. CASE Create BY <1>1, <1>3, CreateScores DEF ScoreInv
<1>4. CASE Swiped BY <1>1, <1>4, SwipedScores, SwipeFillsSlot DEF ScoreInv
<1>5. CASE Settle \/ FinalizeTest
  <2>1. UNCHANGED <<deckSize, swipes>>
    BY <1>5 DEF Settle, settle_card, settle_card_free, commit_card_settlement,
                FinalizeTest, finalize_test_one_price, UntouchedByFinalize
  <2>2. EmptySlotBetsNothing' BY <2>1 DEF ScoreInv, EmptySlotBetsNothing, Cards
  <2> QED BY <1>1, <1>5, <2>2, SettleScores, FinalizeTestScores DEF ScoreInv
<1> QED BY <1>2, <1>3, <1>4, <1>5, SameScores

LEMMA ScoreInvariant == Spec => []ScoreInv
  BY InitScores, NextScores, PTL DEF Spec

\* Turn counters, swipe slots, settled cards and totals agree in every duel,
\* for every deck size, however swipes, settlements and redemptions interleave.
THEOREM DuelRecordsAgree == Spec => []RecordsAgree
<1>1. ScoreInv => RecordsAgree BY DEF ScoreInv, RuleInv, RecordsAgree
<1> QED BY <1>1, ScoreInvariant, PTL

\* Totals only grow, a settled card keeps its price, a recorded swipe stays.
THEOREM DuelRecordIsAppendOnly == Spec => RecordIsAppendOnly
<1> DEFINE Kept == status # "none" =>
       /\ \A s \in Seats : payout'[s] >= payout[s] /\ premium'[s] >= premium[s]
       /\ \A i \in settled : settlementPrice'[i] = settlementPrice[i]
       /\ \A s \in Seats, i \in Cards :
            swipes[s][i].recorded => swipes'[s][i] = swipes[s][i]
<1>1. ScoreInv /\ [Next]_vars => [Kept]_vars
  <2> SUFFICES ASSUME ScoreInv, [Next]_vars, status # "none" PROVE Kept
    OBVIOUS
  <2>1. /\ \A s \in Seats : payout[s] \in Int /\ premium[s] \in Int
        /\ settled \subseteq Cards /\ settlementPrice \in [Cards -> Nat]
    BY BetsAreNat DEF ScoreInv, RuleInv, MoneyInv, TypeOK
  <2>2. CASE Create
    BY <2>2 DEF Create, create_duel, create_duel_free, create_duel_internal
  <2>3. CASE Swiped BY <2>1, <2>3, SwipeFillsSlot
  <2>4. CASE Settle
    <3>1. \A i \in settled : settlementPrice'[i] = settlementPrice[i]
      BY <2>1, <2>4 DEF Settle, settle_card, settle_card_free, preflight_settle,
                        commit_card_settlement
    <3>2. swipes' = swipes
      BY <2>4 DEF Settle, settle_card, settle_card_free, commit_card_settlement
    <3> QED BY <2>4, <3>1, <3>2, SettleScores
  <2>5. CASE FinalizeTest
    <3>1. \A i \in settled : settlementPrice'[i] = settlementPrice[i]
      BY <2>1, <2>5 DEF FinalizeTest, finalize_test_one_price
    <3>2. swipes' = swipes
      BY <2>5 DEF FinalizeTest, finalize_test_one_price, UntouchedByFinalize
    <3>3. \A s \in Seats : payout'[s] >= payout[s] /\ premium'[s] >= premium[s]
      BY <2>1, <2>5, FinalizeTestScores
    <3> QED BY <3>1, <3>2, <3>3
  <2>6. CASE UNCHANGED Scores BY <2>1, <2>6 DEF Scores
  <2> QED BY <2>2, <2>3, <2>4, <2>5, <2>6, SameScores
<1>2. Spec => [][Kept]_vars
  BY <1>1, ScoreInvariant, PTL DEF Spec
<1> QED BY <1>2 DEF RecordIsAppendOnly

-----------------------------------------------------------------------------
(***************************************************************************)
(* Duel implements Escrow.                                                 *)
(***************************************************************************)
Parties == [s \in Seats |-> Player(s)]

USE DEF Contract!Seats

LEMMA EscrowInit == Init => Contract!Init
  BY DEF Init, Contract!Init, Contract!NoPot, Player, Seats

LEMMA EscrowOpen == RuleInv /\ Create => Contract!Next
<1> SUFFICES ASSUME RuleInv, Create PROVE Contract!Next
  OBVIOUS
<1>1. PICK u \in Users, amount \in Stakes \cup {0} : \E hash, n, t :
        create_duel_internal(u, amount, hash, n, t)
  BY DEF Create, create_duel, create_duel_free
<1>2. Parties' = [Parties EXCEPT ![0] = u]
  BY <1>1 DEF create_duel_internal, Player, Seats, Parties
<1>3. Contract!Open(u, amount)
  BY <1>1, <1>2 DEF create_duel_internal, Contract!Open, Parties
<1> QED BY <1>3 DEF Contract!Next

LEMMA EscrowMatch == RuleInv /\ Join => Contract!Next
<1> SUFFICES ASSUME RuleInv, Join PROVE Contract!Next
  OBVIOUS
<1>1. PICK u, amount :
        u \in Users /\ join_internal(u, amount) /\ (amount = stake[0] \/ (tier = "free" /\ amount = 0))
  BY DEF Join, join_duel, join_duel_free
<1>2. /\ stake \in [Seats -> Nat] /\ stake[1] = 0 /\ stake = staked
      /\ tier = "free" => stake[0] = 0
  BY <1>1, DuelAssumption
     DEF join_internal, RuleInv, MoneyInv, TypeOK, PhaseOK, EscrowAllOrNothing, Seats
<1>3. amount = stake[0] /\ stake' = [stake EXCEPT ![1] = stake[0]]
  <2>1. amount = stake[0] /\ amount \in Nat BY <1>1, <1>2 DEF Seats
  <2>2. stake' = [stake EXCEPT ![1] = 0 + amount] BY <1>1, <1>2 DEF join_internal
  <2>3. 0 + amount = stake[0] BY <2>1
  <2> QED BY <2>1, <2>2, <2>3
<1>4. Parties' = [Parties EXCEPT ![1] = u] /\ u # Parties[0]
  <2>1. challenger' = u /\ creator' = creator /\ u # creator BY <1>1 DEF join_internal
  <2>2. Parties' = [Parties EXCEPT ![1] = u]
    <3>1. \A s \in Seats : Player(s)' = IF s = 1 THEN u ELSE Player(s)
      BY <2>1 DEF Player, Seats
    <3> QED BY <3>1 DEF Parties, Seats
  <2>3. Parties[0] = creator BY DEF Player, Seats, Parties
  <2> QED BY <2>1, <2>2, <2>3
<1>5. Contract!Match(u)
  <2>1. status = "pending" /\ status' = "active" /\ paid' = paid BY <1>1 DEF join_internal
  <2> QED BY <2>1, <1>3, <1>4 DEF Contract!Match, Parties
<1> QED BY <1>1, <1>5 DEF Contract!Next

\* pay_player for both players is the one hand-out of the contract.
LEMMA EscrowClose ==
  ASSUME RuleInv, status \in {"pending", "active"}, NEW share \in [Seats -> Nat],
         share[0] + share[1] = Pot, PayOut(share[0], share[1]), UNCHANGED Frozen
  PROVE  Contract!Close(share)
<1>1. stake \in [Seats -> Nat] /\ paid \in [Users -> Nat]
  BY DEF RuleInv, MoneyInv, TypeOK
<1>2. stake' = Contract!NoPot
  BY <1>1, DrawAll DEF PayOut, Pot, Contract!NoPot, Seats
<1>3. Parties' = Parties BY DEF Frozen, Player, Parties
<1>4. paid' = [u \in Users |->
                paid[u] + (IF u = Parties[0] THEN share[0] ELSE 0)
                        + (IF u = Parties[1] THEN share[1] ELSE 0)]
  BY <1>1 DEF PayOut, Credit, Parties, Player, Seats
<1>5. status' = "complete" BY DEF PayOut
<1> QED BY <1>2, <1>3, <1>4, <1>5 DEF Contract!Close, Parties

LEMMA EscrowEnd ==
  ASSUME RuleInv, [Next]_vars, status # "complete", status' = "complete"
  PROVE  Contract!Next
<1>1. CASE status = "active"
  <2>1. (ByScore \/ AfterWindow) /\ UNCHANGED Frozen BY <1>1, ActiveEnds
  <2>2. ASSUME PayOut(stake[0], stake[1]) PROVE Contract!Next
    <3>1. Contract!Close(stake) BY <1>1, <2>1, <2>2, ActivePot, EscrowClose
    <3> QED BY <1>1, <3>1 DEF Contract!Next, Contract!Return
  <2>3. ASSUME NEW w \in Seats, PayOut(IF w = 0 THEN Pot ELSE 0, IF w = 1 THEN Pot ELSE 0)
        PROVE  Contract!Next
    <3>1. PICK share : share = [s \in Seats |-> IF s = w THEN stake[0] + stake[1] ELSE 0]
      OBVIOUS
    <3>2. /\ share \in [Seats -> Nat] /\ share[0] + share[1] = Pot
          /\ share[0] = (IF w = 0 THEN Pot ELSE 0) /\ share[1] = (IF w = 1 THEN Pot ELSE 0)
      BY <1>1, <3>1, ActivePot DEF Seats
    <3>3. Contract!Close(share) BY <1>1, <2>1, <2>3, <3>2, EscrowClose
    <3>4. Contract!Award(w) BY <1>1, <3>1, <3>3 DEF Contract!Award, Seats
    <3> QED BY <3>4 DEF Contract!Next, Seats
  <2>4. CASE ByScore BY <2>2, <2>3, <2>4 DEF ByScore, WinnerTakesAll
  <2>5. CASE AfterWindow
    <3>1. PayOut(0, Pot) => Contract!Next BY <2>3 DEF Seats
    <3> QED BY <2>2, <2>3, <2>5, <3>1 DEF AfterWindow, WinnerTakesAll
  <2> QED BY <2>1, <2>4, <2>5
<1>2. CASE status # "active"
  <2>1. status = "pending" /\ PayOut(stake[0], 0) /\ UNCHANGED Frozen
    BY <1>2, PendingEnds
  <2>2. stake \in [Seats -> Nat] /\ stake[1] = 0 /\ stake[0] + stake[1] = Pot
    BY <2>1, DuelAssumption
       DEF RuleInv, MoneyInv, TypeOK, PhaseOK, EscrowAllOrNothing, Pot, Seats
  <2>3. Contract!Close(stake) BY <2>1, <2>2, EscrowClose
  <2> QED BY <2>1, <2>3 DEF Contract!Next, Contract!Cancel
<1> QED BY <1>1, <1>2

\* The money side of a duel is Escrow: open, match with an equal stake, one
\* hand-out of everything, and nothing afterwards.
THEOREM DuelImplementsEscrow == Spec => ImplementsEscrow
<1>1. RuleInv /\ [Next]_vars => [Contract!Next]_(Contract!escrowVars)
  <2> SUFFICES ASSUME RuleInv, [Next]_vars
               PROVE  Contract!Next \/ UNCHANGED Contract!escrowVars
    OBVIOUS
  <2>1. CASE status # "complete" /\ status' = "complete" BY <2>1, EscrowEnd
  <2>2. CASE status = "complete"
    <3>1. UNCHANGED <<duelVars, paid, staked>> BY <2>2, ClosedStays
    <3> QED BY <3>1 DEF duelVars, Contract!escrowVars, Player
  <2>3. CASE Create \/ Join BY <2>3, EscrowOpen, EscrowMatch
  <2>4. CASE Reveal \/ Swiped \/ Settle \/ Tick \/ RedeemAny \/ UNCHANGED vars
    <3> DEFINE Kept == UNCHANGED <<status, creator, challenger, stake, paid>>
    <3>1. Reveal \/ Swiped => Kept
      BY DEF Reveal, reveal_deck, Swiped, record_swipe, record_swipe_free,
          record_swipe_internal
    <3>2. Settle \/ Tick \/ RedeemAny \/ UNCHANGED vars => Kept
      BY DEF Settle, settle_card, settle_card_free, commit_card_settlement, Tick,
          RedeemAny, Redeem, vars, duelVars
    <3> QED BY <2>4, <3>1, <3>2 DEF Contract!escrowVars, Player
  <2>5. Finalize \/ FinalizeTest \/ Refund \/ Claim => status' = "complete"
    BY DEF Finalize, finalize, finalize_free, FinalizeAs, FinalizeTest, Refund,
        refund_duel, refund_pending, refund_active, Claim, claim_reveal_timeout,
        finalize_test_one_price, finalize_internal, ForfeitBranch, ScoredBranch,
        StuckBranch, WinnerTakesAll, ReturnStakes, PayOut
  <2> QED BY <2>1, <2>2, <2>3, <2>4, <2>5 DEF Next, Finished
<1> QED BY <1>1, EscrowInit, RuleInvariant, PTL DEF Spec, ImplementsEscrow, Contract!Spec

-----------------------------------------------------------------------------
(***************************************************************************)
(* Duel implements Lifecycle.                                              *)
(***************************************************************************)
Late == challenger # NoUser /\ Expired

USE DEF Seen!Seats, Seen!Cards, Seen!BothDone

LEMMA SeenDone ==
  ASSUME RuleInv PROVE Seen!BothDone <=> BothDone
  BY DEF BothDone, Seats

LEMMA SeenSame ==
  ASSUME UNCHANGED <<cards, challenger, startedAt, now>>
  PROVE  /\ revealed' = revealed
         /\ (challenger # NoUser /\ Expired)' = (challenger # NoUser /\ Expired)
  BY DEF revealed, Expired

LEMMA SeenInit == Init => Seen!Init
  BY DEF Init, Seen!Init, Seats, revealed

LEMMA SeenCreate == RuleInv /\ Create => Seen!Create
<1> SUFFICES ASSUME RuleInv, Create PROVE Seen!Create
  OBVIOUS
<1>1. PICK n \in DeckSizes : \E u, amount, hash, t : create_duel_internal(u, amount, hash, n, t)
  BY DEF Create, create_duel, create_duel_free
<1>2. /\ status = "none" /\ status' = "pending" /\ deckSize' = n
      /\ UNCHANGED <<cards, challenger, nextIdx, settled, startedAt, now>>
  BY <1>1 DEF create_duel_internal
<1> QED BY <1>2, SeenSame DEF Seen!Create

LEMMA SeenJoin == RuleInv /\ Join => Seen!Join
<1> SUFFICES ASSUME RuleInv, Join PROVE Seen!Join
  OBVIOUS
<1>1. PICK u, amount : join_internal(u, amount)
  BY DEF Join, join_duel, join_duel_free
<1>2. /\ status = "pending" /\ status' = "active" /\ startedAt' = now /\ now' = now
      /\ challenger = NoUser /\ UNCHANGED <<deckSize, cards, nextIdx, settled>>
  BY <1>1 DEF join_internal
<1>3. ~Late' /\ ~Late
  BY <1>2, DuelAssumption DEF Late, Expired, RuleInv, MoneyInv, TypeOK
<1>4. revealed' <=> revealed BY <1>2 DEF revealed
<1> QED BY <1>2, <1>3, <1>4 DEF Seen!Join, Late

LEMMA SeenReveal == RuleInv /\ Reveal => Seen!RevealDeck
<1> SUFFICES ASSUME RuleInv, NEW deck \in Decks, reveal_deck(deck) PROVE Seen!RevealDeck
  BY DEF Reveal
<1>1. /\ status = "active" /\ ~revealed /\ cards' = deck /\ DOMAIN deck = Cards
      /\ UNCHANGED <<status, deckSize, nextIdx, settled, challenger, startedAt, now>>
  BY DEF reveal_deck
<1>2. revealed'
  <2>1. 0 \in Cards
    BY <1>1 DEF RuleInv, MoneyInv, TypeOK, PhaseOK, Cards, CardIdx
  <2> QED BY <1>1, <2>1 DEF revealed, NoDeck
<1>3. Late' <=> Late BY <1>1 DEF Late, Expired
<1> QED BY <1>1, <1>2, <1>3 DEF Seen!RevealDeck, Late

LEMMA SeenSwipe == RuleInv /\ Swiped => \E s \in Seats : Seen!SwipeCard(s)
<1> SUFFICES ASSUME RuleInv, Swiped PROVE \E s \in Seats : Seen!SwipeCard(s)
  OBVIOUS
<1>1. PICK s \in Seats, i \in Cards : \E up, q :
        /\ status = "active" /\ revealed /\ i = nextIdx[s] /\ i < deckSize /\ ~Expired
        /\ record_swipe_internal(s, i, Swipe(up, q))
  BY DEF Swiped, record_swipe, record_swipe_free, preflight_swipe
<1>2. /\ nextIdx' = [nextIdx EXCEPT ![s] = nextIdx[s] + 1]
      /\ UNCHANGED <<status, deckSize, cards, settled, challenger, startedAt, now>>
  BY <1>1 DEF record_swipe_internal
<1>3. (revealed' <=> revealed) /\ (Late' <=> Late) /\ ~Late
  BY <1>1, <1>2 DEF revealed, Late, Expired
<1> QED BY <1>1, <1>2, <1>3 DEF Seen!SwipeCard, Late

LEMMA SeenSettle ==
  RuleInv /\ Settle => \E batch \in SUBSET Cards : Seen!SettleCards(batch)
<1> SUFFICES ASSUME RuleInv, Settle
             PROVE  \E batch \in SUBSET Cards : Seen!SettleCards(batch)
  OBVIOUS
<1>1. PICK i \in Cards : \E price, pay, prem :
        preflight_settle(i, price) /\ commit_card_settlement(i, price, pay, prem)
  BY DEF Settle, settle_card, settle_card_free
<1>2. /\ status = "active" /\ revealed /\ i \notin settled /\ settled' = settled \cup {i}
      /\ UNCHANGED <<status, deckSize, cards, nextIdx, challenger, startedAt, now>>
  BY <1>1 DEF preflight_settle, commit_card_settlement
<1>3. (revealed' <=> revealed) /\ (Late' <=> Late)
  BY <1>2 DEF revealed, Late, Expired
<1>4. PICK batch : batch = {i} OBVIOUS
<1>5. Seen!SettleCards(batch)
  BY <1>1, <1>2, <1>3, <1>4 DEF Seen!SettleCards, Late, Cards, CardIdx
<1> QED BY <1>4, <1>5

LEMMA SeenClose ==
  ASSUME RuleInv, [Next]_vars, status = "active", status' = "complete"
  PROVE  \E batch \in SUBSET Cards : Seen!CloseAfter(batch)
<1>1. /\ ByScore \/ AfterWindow
      /\ UNCHANGED Frozen /\ settled \subseteq settled' /\ settled' \subseteq Cards
  BY ActiveEnds
<1>2. PICK batch : batch = settled' \ settled OBVIOUS
<1>3. /\ batch \subseteq Cards \ settled /\ settled' = settled \cup batch
  BY <1>1, <1>2
<1>4. (revealed' <=> revealed) /\ (Late' <=> Late)
  BY <1>1 DEF Frozen, revealed, Late, Expired
<1>5. batch # {} => revealed
  <2>1. revealed' \/ settled' = {}
    BY NextRules DEF RuleInv, SettlementCounted
  <2> QED BY <1>3, <1>4, <2>1
<1>6. (BothDone /\ settled \cup batch = Cards) \/ (~BothDone /\ Late)
  BY <1>1, <1>3, ActivePot DEF ByScore, AfterWindow, Late
<1>7. /\ status' = "complete"
      /\ UNCHANGED <<deckSize, cards, nextIdx, challenger, startedAt, now>>
  BY <1>1 DEF Frozen
<1>8. batch \subseteq Seen!Cards \ settled /\ Cards = Seen!Cards
  BY <1>3 DEF Cards, CardIdx
<1>9. \/ Seen!BothDone /\ settled \cup batch = Seen!Cards
      \/ ~Seen!BothDone /\ (challenger # NoUser /\ Expired)
  BY <1>6, <1>8, SeenDone DEF Late
<1>10. Seen!CloseAfter(batch)
  BY <1>3, <1>5, <1>7, <1>8, <1>9, SeenSame DEF Seen!CloseAfter
<1> QED BY <1>3, <1>10

LEMMA SeenCancel ==
  ASSUME RuleInv, [Next]_vars, status # "active", status # "complete", status' = "complete"
  PROVE  Seen!Cancel
<1>1. /\ status = "pending" /\ status' = "complete"
      /\ UNCHANGED <<deckSize, cards, nextIdx, settled, challenger, startedAt, now>>
  BY PendingEnds DEF Frozen
<1> QED BY <1>1, SeenSame DEF Seen!Cancel

LEMMA SeenTick == RuleInv /\ Tick => Seen!Elapse \/ UNCHANGED Seen!chainVars
<1> SUFFICES ASSUME RuleInv, Tick PROVE Seen!Elapse \/ UNCHANGED Seen!chainVars
  OBVIOUS
<1>1. UNCHANGED <<status, deckSize, cards, nextIdx, settled, challenger, startedAt>>
  BY DEF Tick, duelVars
<1>2. revealed' <=> revealed BY <1>1 DEF revealed
<1>3. Late => Late'
  BY <1>1, DuelAssumption DEF Tick, Late, Expired, RuleInv, MoneyInv, TypeOK
<1>4. Late' => status \in {"active", "complete"}
  BY <1>1 DEF Late, RuleInv, MoneyInv, TypeOK, PhaseOK
<1>5. CASE Late' <=> Late
  BY <1>1, <1>2, <1>5 DEF Seen!chainVars, Late
<1>6. CASE Late' /\ ~Late
  BY <1>1, <1>2, <1>4, <1>6 DEF Seen!Elapse, Late
<1> QED BY <1>3, <1>5, <1>6

\* The keeper's picture of a duel is right: every transaction anybody may
\* send is a step of Lifecycle or leaves it as it is.
THEOREM DuelImplementsLifecycle == Spec => ImplementsLifecycle
<1>1. RuleInv /\ [Next]_vars => [Seen!Next]_(Seen!chainVars)
  <2> SUFFICES ASSUME RuleInv, [Next]_vars
               PROVE  Seen!Next \/ UNCHANGED Seen!chainVars
    OBVIOUS
  <2>1. CASE Tick BY <2>1, SeenTick DEF Seen!Next
  <2>2. CASE UNCHANGED <<duelVars, now>>
    <3>1. UNCHANGED <<status, deckSize, cards, nextIdx, settled, challenger, startedAt, now>>
      BY <2>2 DEF duelVars
    <3> QED BY <3>1, SeenSame DEF Seen!chainVars
  <2>3. CASE status = "complete" BY <2>1, <2>2, <2>3, ClosedStays
  <2>4. CASE status = "active" /\ status' = "complete"
    BY <2>4, SeenClose DEF Seen!Next, Cards, CardIdx
  <2>5. CASE status # "active" /\ status # "complete" /\ status' = "complete"
    BY <2>5, SeenCancel DEF Seen!Next
  <2>6. CASE Create \/ Join \/ Reveal BY <2>6, SeenCreate, SeenJoin, SeenReveal DEF Seen!Next
  <2>7. CASE Swiped BY <2>7, SeenSwipe DEF Seen!Next, Seats
  <2>8. CASE Settle BY <2>8, SeenSettle DEF Seen!Next, Cards, CardIdx
  <2>9. CASE RedeemAny \/ UNCHANGED vars
    BY <2>2, <2>9 DEF RedeemAny, Redeem, vars
  <2>10. Finalize \/ FinalizeTest \/ Refund \/ Claim => status' = "complete"
    BY DEF Finalize, finalize, finalize_free, FinalizeAs, FinalizeTest, Refund,
        refund_duel, refund_pending, refund_active, Claim, claim_reveal_timeout,
        finalize_test_one_price, finalize_internal, ForfeitBranch, ScoredBranch,
        StuckBranch, WinnerTakesAll, ReturnStakes, PayOut
  <2> QED BY <2>1, <2>3, <2>4, <2>5, <2>6, <2>7, <2>8, <2>9, <2>10 DEF Next, Finished
<1> QED BY <1>1, SeenInit, RuleInvariant, PTL DEF Spec, ImplementsLifecycle, Seen!Spec
=============================================================================
