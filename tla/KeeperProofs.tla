---------------------------- MODULE KeeperProofs ----------------------------
(***************************************************************************)
(* What the keeper remembers is true, for every deck, market and number of *)
(* faults.                                                                 *)
(***************************************************************************)
EXTENDS Keeper, TLAPS

\* A transaction is only ever awaited for a duel that has started, and only a
\* settling one finalizes.
AwaitedMakesSense ==
  /\ stage \in {"reading", "sent"} => status \in {"active", "complete"}
  /\ stage = "sent" =>
       /\ tx.kind \in {"reveal", "settle"}
       /\ tx.kind = "reveal" => ~tx.finalize

\* The deck size is set once, when nothing else is.
EmptyBeforeCreate == status = "none" => size = 0

Inv ==
  /\ TypeOK /\ EmptyBeforeCreate /\ AwaitedMakesSense
  /\ FinalizedIsComplete /\ RevealedIsRevealed

\* What every step on the chain respects, whoever takes it.
ChainKeeps ==
  /\ status = "complete" => status' = "complete"
  /\ status = "active" => status' \in {"active", "complete"}
  /\ revealed => revealed'

ChainTyped ==
  /\ status \in {"none", "pending", "active", "complete"}
  /\ size \in Nat /\ revealed \in BOOLEAN /\ expired \in BOOLEAN
  /\ swiped \in [{0, 1} -> 0 .. size] /\ settled \subseteq Cards

USE DEF Cards, BothDone, Chain!Cards, Chain!BothDone, Chain!Seats

\* One step of the chain.
ChainMove ==
  \/ Chain!Create \/ Chain!Join \/ Chain!Cancel \/ Chain!Elapse \/ Chain!RevealDeck
  \/ \E s \in Chain!Seats : Chain!SwipeCard(s)
  \/ \E batch \in SUBSET Cards : Chain!SettleCards(batch) \/ Chain!CloseAfter(batch)
  \/ UNCHANGED chainVars

LEMMA ChainMoveKeeps ==
  ASSUME ChainTyped, EmptyBeforeCreate, ChainMove
  PROVE  /\ ChainTyped' /\ EmptyBeforeCreate' /\ ChainKeeps
         /\ Cards \subseteq Cards'
<1> USE KeeperAssumption
<1>1. CASE Chain!Create
  <2>1. size = 0 /\ size' \in Nat /\ swiped' = swiped /\ settled' = settled
    BY <1>1 DEF Chain!Create, EmptyBeforeCreate
  <2>2. settled = {}
    BY <2>1 DEF ChainTyped
  <2>3. swiped' \in [{0, 1} -> 0 .. size']
    BY <2>1 DEF ChainTyped
  <2> QED BY <1>1, <2>1, <2>2, <2>3
          DEF Chain!Create, ChainTyped, EmptyBeforeCreate, ChainKeeps
<1>2. CASE Chain!Join \/ Chain!Cancel \/ Chain!Elapse \/ Chain!RevealDeck
  BY <1>2 DEF Chain!Join, Chain!Cancel, Chain!Elapse, Chain!RevealDeck,
              ChainTyped, EmptyBeforeCreate, ChainKeeps
<1>3. ASSUME NEW s \in Chain!Seats, Chain!SwipeCard(s)
      PROVE  /\ ChainTyped' /\ EmptyBeforeCreate' /\ ChainKeeps
             /\ Cards \subseteq Cards'
  BY <1>3 DEF Chain!SwipeCard, ChainTyped, EmptyBeforeCreate, ChainKeeps
<1>4. ASSUME NEW batch \in SUBSET Cards,
             Chain!SettleCards(batch) \/ Chain!CloseAfter(batch)
      PROVE  /\ ChainTyped' /\ EmptyBeforeCreate' /\ ChainKeeps
             /\ Cards \subseteq Cards'
  BY <1>4 DEF Chain!SettleCards, Chain!CloseAfter, ChainTyped,
              EmptyBeforeCreate, ChainKeeps
<1>5. CASE UNCHANGED chainVars
  BY <1>5 DEF chainVars, ChainTyped, EmptyBeforeCreate, ChainKeeps
<1> QED BY <1>1, <1>2, <1>3, <1>4, <1>5 DEF ChainMove

\* A keeper transaction that executes is a step of the chain, and has the
\* effect the keeper expects of it.
LEMMA ExecuteMoves ==
  ASSUME NEW t \in TX, Execute(t), redeemed \subseteq Cards
  PROVE  /\ ChainMove
         /\ t.kind \in {"reveal", "settle"}
         /\ t.kind = "reveal" => revealed'
         /\ t.kind = "settle" /\ t.finalize => status' = "complete"
         /\ redeemed' \subseteq Cards /\ redeemed \subseteq redeemed'
         /\ UNCHANGED <<marketsSettled, deckKnown, buried>>
<1>1. t.batch \in SUBSET Cards
  BY DEF TX
<1>2. redeemed' = redeemed \cup t.batch
  BY DEF Execute
<1>3. UNCHANGED <<marketsSettled, deckKnown, buried>>
  BY DEF Execute
<1>4. CASE t.kind = "reveal" /\ Chain!RevealDeck
  BY <1>1, <1>2, <1>3, <1>4 DEF Chain!RevealDeck, ChainMove
<1>5. CASE t.kind = "settle" /\ ~t.finalize /\ Chain!SettleCards(t.batch)
  BY <1>1, <1>2, <1>3, <1>5 DEF ChainMove
<1>6. CASE t.kind = "settle" /\ t.finalize /\ Chain!CloseAfter(t.batch)
  BY <1>1, <1>2, <1>3, <1>6 DEF Chain!CloseAfter, ChainMove
<1> QED BY <1>4, <1>5, <1>6 DEF Execute

\* The part of TypeOK about the keeper's own memory.
MemoryTyped ==
  /\ redeemed \subseteq Cards /\ marketsSettled \subseteq Markets
  /\ deckKnown \in BOOLEAN /\ buried \in BOOLEAN
  /\ stage \in {"idle", "reading", "sent"} /\ snap \subseteq Cards
  /\ tx \in TX /\ orphans \subseteq TX
  /\ finalizedIds \in BOOLEAN /\ revealedIds \in BOOLEAN
  /\ faults \in 0 .. MaxFaults

LEMMA TypeOKSplits == TypeOK <=> ChainTyped /\ MemoryTyped
BY DEF TypeOK, ChainTyped, MemoryTyped

\* Transactions stay well-formed when the deck size is set.
LEMMA CardsGrow ==
  ASSUME Cards \subseteq Cards'
  PROVE  TX \subseteq TX'
BY DEF TX

\* A step of the chain that leaves the keeper alone.
LEMMA WorldStep ==
  ASSUME Inv, ChainMove, UNCHANGED keeperVars,
         redeemed' \subseteq Cards', redeemed \subseteq redeemed',
         marketsSettled' \subseteq Markets,
         deckKnown' \in BOOLEAN, buried' \in BOOLEAN
  PROVE  Inv'
<1>1. /\ ChainTyped' /\ EmptyBeforeCreate' /\ ChainKeeps /\ Cards \subseteq Cards'
  BY ChainMoveKeeps, TypeOKSplits DEF Inv
<1>2. TX \subseteq TX'
  BY <1>1, CardsGrow
<1>3. MemoryTyped
  BY TypeOKSplits DEF Inv
<1>4. MemoryTyped'
  BY <1>1, <1>2, <1>3 DEF MemoryTyped, keeperVars
<1>5. TypeOK'
  BY <1>1, <1>4 DEF TypeOK, ChainTyped, MemoryTyped
<1>6. AwaitedMakesSense'
  BY <1>1 DEF Inv, AwaitedMakesSense, ChainKeeps, keeperVars
<1>7. FinalizedIsComplete' /\ RevealedIsRevealed'
  BY <1>1, <1>3 DEF Inv, FinalizedIsComplete, RevealedIsRevealed, ChainKeeps,
                 keeperVars
<1> QED BY <1>1, <1>5, <1>6, <1>7 DEF Inv

\* A step of the keeper that leaves the world alone.
LEMMA MemoryStep ==
  ASSUME Inv, UNCHANGED <<chainVars, worldVars>>, MemoryTyped',
         AwaitedMakesSense', FinalizedIsComplete', RevealedIsRevealed'
  PROVE  Inv'
<1>1. ChainTyped' /\ EmptyBeforeCreate'
  BY DEF Inv, TypeOK, ChainTyped, EmptyBeforeCreate, chainVars
<1> QED BY <1>1 DEF Inv, TypeOK, ChainTyped, MemoryTyped

LEMMA TransactionsTyped ==
  /\ Reveal \in TX /\ NoTx \in TX
  /\ \A batch \in SUBSET Cards, final \in BOOLEAN : Settle(batch, final) \in TX
BY DEF Reveal, NoTx, Settle, TX

-----------------------------------------------------------------------------
(* One lemma per handler. *)

USE KeeperAssumption

LEMMA tryCloseKeepsInv ==
  ASSUME Inv, tryClose
  PROVE  Inv'
<1>1. MemoryTyped /\ status \in {"none", "pending", "active", "complete"}
  BY TypeOKSplits DEF Inv, ChainTyped
<1>2. UNCHANGED <<chainVars, worldVars>> /\ orphans' = orphans /\ faults' = faults
  BY DEF tryClose
<1>3. CASE /\ status = "complete" /\ finalizedIds' = TRUE
           /\ UNCHANGED <<stage, snap, tx, revealedIds>>
  BY <1>1, <1>2, <1>3, MemoryStep
     DEF Inv, MemoryTyped, AwaitedMakesSense, FinalizedIsComplete,
         RevealedIsRevealed, chainVars, worldVars, TX
<1>4. CASE /\ status = "active" /\ ~revealed /\ tryReveal
           /\ UNCHANGED <<snap, finalizedIds, revealedIds>>
  <2>1. MemoryTyped' /\ AwaitedMakesSense'
    BY <1>1, <1>2, <1>4, TransactionsTyped
       DEF Inv, MemoryTyped, AwaitedMakesSense, tryReveal, Await, Reveal, TX,
           chainVars, worldVars
  <2>2. FinalizedIsComplete' /\ RevealedIsRevealed'
    BY <1>2, <1>4 DEF Inv, FinalizedIsComplete, RevealedIsRevealed, chainVars,
                      worldVars
  <2> QED BY <1>2, <2>1, <2>2, MemoryStep
<1>5. CASE /\ status = "active" /\ revealed /\ revealedIds' = TRUE
           /\ \/ stage' = "reading" /\ snap' = settled
              \/ UNCHANGED <<stage, snap>>
           /\ UNCHANGED <<tx, finalizedIds>>
  <2>1. settled \subseteq Cards
    BY DEF Inv, TypeOK
  <2> QED BY <1>1, <1>2, <1>5, <2>1, MemoryStep
             DEF Inv, MemoryTyped, AwaitedMakesSense, FinalizedIsComplete,
                 RevealedIsRevealed, chainVars, worldVars, TX
<1> QED BY <1>3, <1>4, <1>5 DEF tryClose

LEMMA SubmitSettleKeepsInv ==
  ASSUME Inv, NEW seen, SubmitSettle(seen), faults' \in 0 .. MaxFaults
  PROVE  Inv'
<1> DEFINE ready == readyCardIndices(seen)
<1>1. MemoryTyped /\ FinalizedIsComplete /\ RevealedIsRevealed
  BY TypeOKSplits DEF Inv
<1>2. /\ UNCHANGED <<chainVars, worldVars>> /\ stage = "reading"
      /\ status \in {"active", "complete"}
      /\ orphans' = orphans /\ snap' = snap
      /\ finalizedIds' = finalizedIds /\ revealedIds' = revealedIds
  BY DEF SubmitSettle, Inv, AwaitedMakesSense
<1>3. Settle(ready, willFinalize(ready)) \in TX
  BY TransactionsTyped DEF readyCardIndices, willFinalize
<1>4. CASE stage' = "idle" /\ tx' = tx
  BY <1>1, <1>2, <1>4, MemoryStep
     DEF MemoryTyped, AwaitedMakesSense, FinalizedIsComplete,
         RevealedIsRevealed, chainVars, worldVars, TX
<1>5. CASE Await(Settle(ready, willFinalize(ready)))
  <2>1. MemoryTyped'
    BY <1>1, <1>2, <1>3, <1>5 DEF MemoryTyped, Await, chainVars, worldVars, TX
  <2>2. AwaitedMakesSense'
    BY <1>2, <1>5 DEF AwaitedMakesSense, Await, Settle, chainVars
  <2>3. FinalizedIsComplete' /\ RevealedIsRevealed'
    BY <1>1, <1>2 DEF FinalizedIsComplete, RevealedIsRevealed, chainVars, worldVars
  <2> QED BY <1>2, <2>1, <2>2, <2>3, MemoryStep
<1> QED BY <1>4, <1>5 DEF SubmitSettle

\* The answer arrived: what the transaction did is remembered, and is true.
LEMMA SucceedsKeepsInv ==
  ASSUME Inv, Succeeds
  PROVE  Inv'
<1>1. MemoryTyped /\ ChainTyped /\ EmptyBeforeCreate
  BY TypeOKSplits DEF Inv
<1>2. tx \in TX /\ redeemed \subseteq Cards
  BY <1>1 DEF MemoryTyped
<1>3. /\ stage = "sent" /\ Execute(tx) /\ stage' = "idle" /\ tx' = NoTx
      /\ revealedIds' = (revealedIds \/ tx.kind = "reveal")
      /\ finalizedIds' = (finalizedIds \/ tx.finalize)
      /\ UNCHANGED <<snap, orphans, faults>>
  BY DEF Succeeds, Done
<1>4. /\ ChainMove
      /\ tx.kind = "reveal" => revealed'
      /\ tx.kind = "settle" /\ tx.finalize => status' = "complete"
      /\ redeemed' \subseteq Cards /\ redeemed \subseteq redeemed'
      /\ UNCHANGED <<marketsSettled, deckKnown, buried>>
  BY <1>2, <1>3, ExecuteMoves
<1>5. /\ ChainTyped' /\ EmptyBeforeCreate' /\ ChainKeeps /\ Cards \subseteq Cards'
  BY <1>1, <1>4, ChainMoveKeeps
<1>6. MemoryTyped'
  <2>1. TX \subseteq TX'
    BY <1>5, CardsGrow
  <2>2. NoTx \in TX /\ tx.finalize \in BOOLEAN
    BY <1>2, TransactionsTyped DEF TX
  <2> QED BY <1>1, <1>3, <1>4, <1>5, <2>1, <2>2 DEF MemoryTyped
<1>7. AwaitedMakesSense'
  BY <1>3 DEF AwaitedMakesSense
<1>8. tx.finalize => status' = "complete"
  BY <1>3, <1>4 DEF Inv, AwaitedMakesSense
<1>9. FinalizedIsComplete'
  BY <1>3, <1>4, <1>5, <1>8 DEF Inv, FinalizedIsComplete, ChainKeeps
<1>10. RevealedIsRevealed'
  BY <1>3, <1>4, <1>5 DEF Inv, RevealedIsRevealed, ChainKeeps
<1> QED BY <1>5, <1>6, <1>7, <1>9, <1>10, TypeOKSplits
        DEF Inv, TypeOK, ChainTyped, MemoryTyped

\* An abort is taken for the end of the duel only if it is over, or a redeem
\* of its batch cannot succeed, or its text is misleading.
LEMMA AbortsKeepInv ==
  ASSUME Inv, SettleAborts \/ RevealAborts
  PROVE  Inv'
<1>1. MemoryTyped /\ status \in {"active", "complete"}
  BY TypeOKSplits DEF Inv, AwaitedMakesSense, SettleAborts, RevealAborts
<1>2. /\ UNCHANGED <<chainVars, worldVars, snap, orphans, faults>>
      /\ stage' = "idle" /\ tx' = NoTx
      /\ revealedIds' \in {revealedIds, revealedIds \/ revealed \/ LooseText}
      /\ finalizedIds' \in {finalizedIds, finalizedIds \/ isTerminalSettleError}
  BY DEF SettleAborts, RevealAborts, Done
<1>3. isTerminalSettleError =>
        status = "complete" \/ (RedeemBlocks /\ redeemed # {}) \/ LooseText
  BY <1>1 DEF isTerminalSettleError, RedeemFails
<1>4. NoTx \in TX
  BY TransactionsTyped
<1>5. revealed \in BOOLEAN /\ isTerminalSettleError \in BOOLEAN
  BY DEF Inv, TypeOK, isTerminalSettleError, RedeemFails
<1>6. MemoryTyped'
  BY <1>1, <1>2, <1>4, <1>5 DEF MemoryTyped, chainVars, worldVars, TX
<1>7. AwaitedMakesSense'
  BY <1>2 DEF AwaitedMakesSense
<1>8. FinalizedIsComplete' /\ RevealedIsRevealed'
  BY <1>2, <1>3 DEF Inv, FinalizedIsComplete, RevealedIsRevealed, chainVars,
                    worldVars
<1> QED BY <1>2, <1>6, <1>7, <1>8, MemoryStep

LEMMA FaultsKeepInv ==
  ASSUME Inv, RevealRefused \/ AnswerLost \/ Restart
  PROVE  Inv'
<1>1. MemoryTyped /\ FinalizedIsComplete /\ RevealedIsRevealed
  BY TypeOKSplits DEF Inv
<1>2. /\ UNCHANGED <<chainVars, worldVars>>
      /\ stage' = "idle" /\ tx' = NoTx
      /\ snap' \in {snap, {}} /\ orphans' \subseteq orphans \cup {tx}
      /\ faults < MaxFaults /\ faults' = faults + 1
  BY DEF RevealRefused, AnswerLost, Restart, Done, Fault
<1>3. /\ finalizedIds' \in {FALSE, finalizedIds, finalizedIds \/ LooseText}
      /\ revealedIds' \in {FALSE, revealedIds, revealedIds \/ LooseText}
  BY DEF RevealRefused, AnswerLost, Restart
<1>4. NoTx \in TX
  BY TransactionsTyped
<1>5. /\ finalizedIds' \in BOOLEAN /\ revealedIds' \in BOOLEAN
      /\ faults' \in 0 .. MaxFaults
  <2>1. finalizedIds \in BOOLEAN /\ revealedIds \in BOOLEAN
    BY <1>1 DEF MemoryTyped
  <2>2. finalizedIds' \in BOOLEAN /\ revealedIds' \in BOOLEAN
    BY <1>3, <2>1
  <2>3. faults' \in 0 .. MaxFaults
    BY <1>1, <1>2 DEF MemoryTyped
  <2> QED BY <2>2, <2>3
<1>6. MemoryTyped'
  BY <1>1, <1>2, <1>4, <1>5 DEF MemoryTyped, chainVars, worldVars, TX
<1>7. AwaitedMakesSense'
  BY <1>2 DEF AwaitedMakesSense
<1>8. FinalizedIsComplete' /\ RevealedIsRevealed'
  BY <1>1, <1>2, <1>3 DEF FinalizedIsComplete, RevealedIsRevealed,
                          chainVars, worldVars
<1> QED BY <1>2, <1>6, <1>7, <1>8, MemoryStep

\* A transaction that was given up may still execute.
LEMMA OrphanEndsKeepsInv ==
  ASSUME Inv, NEW t \in orphans, OrphanEnds(t)
  PROVE  Inv'
<1>1. MemoryTyped /\ ChainTyped /\ EmptyBeforeCreate
  BY TypeOKSplits DEF Inv
<1>2. t \in TX /\ redeemed \subseteq Cards
  BY <1>1 DEF MemoryTyped
<1>3. /\ orphans' \subseteq orphans
      /\ UNCHANGED <<stage, snap, tx, finalizedIds, revealedIds, faults>>
  BY DEF OrphanEnds
<1>4. /\ ChainMove
      /\ redeemed' \subseteq Cards /\ redeemed \subseteq redeemed'
      /\ UNCHANGED <<marketsSettled, deckKnown, buried>>
  <2>1. CASE Execute(t)
    BY <1>2, <2>1, ExecuteMoves
  <2>2. CASE UNCHANGED <<chainVars, worldVars>>
    BY <1>2, <2>2 DEF ChainMove, worldVars
  <2> QED BY <2>1, <2>2 DEF OrphanEnds
<1>5. /\ ChainTyped' /\ EmptyBeforeCreate' /\ ChainKeeps /\ Cards \subseteq Cards'
  BY <1>1, <1>4, ChainMoveKeeps
<1>6. MemoryTyped'
  <2>1. TX \subseteq TX'
    BY <1>5, CardsGrow
  <2> QED BY <1>1, <1>3, <1>4, <1>5, <2>1 DEF MemoryTyped
<1>7. AwaitedMakesSense' /\ FinalizedIsComplete' /\ RevealedIsRevealed'
  BY <1>3, <1>4, <1>5 DEF Inv, AwaitedMakesSense, FinalizedIsComplete,
                          RevealedIsRevealed, ChainKeeps
<1> QED BY <1>5, <1>6, <1>7 DEF Inv, TypeOK, ChainTyped, MemoryTyped

LEMMA OthersKeepInv ==
  ASSUME Inv,
         \/ ChainStep \/ NewerDuels
         \/ \E i \in Cards : PositionRedeemed(i)
         \/ \E m \in Markets : MarketSettles(m)
  PROVE  Inv'
<1>1. MemoryTyped
  BY TypeOKSplits DEF Inv
<1>2. CASE ChainStep
  <2>1. ChainMove /\ UNCHANGED <<worldVars, keeperVars>>
    <3>1. {} \in SUBSET Cards
      OBVIOUS
    <3> QED BY <1>2, <3>1 DEF ChainStep, ChainMove
  <2>2. Cards \subseteq Cards'
    BY <2>1, ChainMoveKeeps, TypeOKSplits DEF Inv
  <2> QED BY <1>1, <2>1, <2>2, WorldStep DEF worldVars, MemoryTyped
<1>3. CASE NewerDuels
  BY <1>1, <1>3, WorldStep
     DEF NewerDuels, ChainMove, MemoryTyped, worldVars, keeperVars, chainVars
<1>4. ASSUME NEW i \in Cards, PositionRedeemed(i) PROVE Inv'
  BY <1>1, <1>4, WorldStep
     DEF PositionRedeemed, ChainMove, MemoryTyped, keeperVars, chainVars
<1>5. ASSUME NEW m \in Markets, MarketSettles(m) PROVE Inv'
  BY <1>1, <1>5, WorldStep
     DEF MarketSettles, ChainMove, MemoryTyped, keeperVars, chainVars
<1> QED BY <1>2, <1>3, <1>4, <1>5

LEMMA StepKeepsInv ==
  ASSUME Inv, [Next]_vars
  PROVE  Inv'
<1>1. CASE tryClose
  BY <1>1, tryCloseKeepsInv
<1>2. CASE MarketsRead
  <2>1. SubmitSettle(marketsSettled) /\ faults' \in 0 .. MaxFaults
    BY <1>2 DEF MarketsRead, Inv, TypeOK
  <2> QED BY <2>1, SubmitSettleKeepsInv
<1>3. CASE SomeReadsFail
  <2>1. PICK seen \in SUBSET marketsSettled : SubmitSettle(seen) /\ Fault
    BY <1>3 DEF SomeReadsFail
  <2>2. faults' \in 0 .. MaxFaults
    BY <2>1 DEF Fault, Inv, TypeOK
  <2> QED BY <2>1, <2>2, SubmitSettleKeepsInv
<1>4. CASE Succeeds
  BY <1>4, SucceedsKeepsInv
<1>5. CASE SettleAborts \/ RevealAborts
  BY <1>5, AbortsKeepInv
<1>6. CASE RevealRefused \/ AnswerLost \/ Restart
  BY <1>6, FaultsKeepInv
<1>7. ASSUME NEW t \in orphans, OrphanEnds(t) PROVE Inv'
  BY <1>7, OrphanEndsKeepsInv
<1>8. CASE \/ ChainStep \/ NewerDuels
           \/ \E i \in Cards : PositionRedeemed(i)
           \/ \E m \in Markets : MarketSettles(m)
  BY <1>8, OthersKeepInv
<1>9. CASE UNCHANGED vars
  <2>1. MemoryTyped
    BY TypeOKSplits DEF Inv
  <2> QED BY <1>9, <2>1, WorldStep
          DEF vars, ChainMove, chainVars, worldVars, keeperVars, MemoryTyped
<1> QED BY <1>1, <1>2, <1>3, <1>4, <1>5, <1>6, <1>7, <1>8, <1>9
        DEF Next, KeeperStep, FaultStep, Idling

LEMMA InitHasInv == Init => Inv
<1> SUFFICES ASSUME Init PROVE Inv
  OBVIOUS
<1>1. ChainTyped
  <2>1. /\ status = "none" /\ size = 0 /\ revealed = FALSE /\ expired = FALSE
        /\ swiped = [s \in {0, 1} |-> 0] /\ settled = {}
    BY DEF Init, Chain!Init
  <2>2. swiped \in [{0, 1} -> 0 .. size]
    BY <2>1
  <2>3. revealed \in BOOLEAN /\ expired \in BOOLEAN
    BY <2>1
  <2> QED BY <2>1, <2>2, <2>3 DEF ChainTyped
<1>2. MemoryTyped
  <2>1. /\ redeemed = {} /\ marketsSettled = {} /\ snap = {} /\ orphans = {}
        /\ stage = "idle" /\ tx = NoTx /\ faults = 0
    BY DEF Init
  <2>2. /\ deckKnown \in BOOLEAN /\ buried \in BOOLEAN
        /\ finalizedIds \in BOOLEAN /\ revealedIds \in BOOLEAN
    BY DEF Init
  <2>3. faults \in 0 .. MaxFaults
    BY <2>1
  <2> QED BY <2>1, <2>2, <2>3, TransactionsTyped DEF MemoryTyped
<1>3. EmptyBeforeCreate /\ AwaitedMakesSense /\ FinalizedIsComplete /\ RevealedIsRevealed
  BY DEF Init, Chain!Init, EmptyBeforeCreate, AwaitedMakesSense,
         FinalizedIsComplete, RevealedIsRevealed
<1> QED BY <1>1, <1>2, <1>3, TypeOKSplits DEF Inv

LEMMA KeeperInvariant == Spec => []Inv
BY InitHasInv, StepKeepsInv, PTL DEF Spec

-----------------------------------------------------------------------------
\* The keeper's state has its types, for every deck and number of faults.
THEOREM KeeperTyped == Spec => []TypeOK
BY KeeperInvariant, PTL DEF Inv

\* keeper.ts never writes off an open duel, whatever is lost, repeated or done
\* by others, except for a redeem that must fail.
THEOREM KeeperFinalizedIsComplete == Spec => []FinalizedIsComplete
BY KeeperInvariant, PTL DEF Inv

\* keeper.ts never takes an unrevealed deck for revealed.
THEOREM KeeperRevealedIsRevealed == Spec => []RevealedIsRevealed
BY KeeperInvariant, PTL DEF Inv

-----------------------------------------------------------------------------
(***************************************************************************)
(* The last batch closes the duel.                                         *)
(***************************************************************************)

\* The copy of cards_settled is never ahead of the chain, and the batch in
\* flight was cut from it: it finalizes exactly when it holds the rest.
BatchFromCopy ==
  /\ stage \in {"reading", "sent"} /\ tx.kind # "reveal" => snap \subseteq settled
  /\ stage = "sent" /\ tx.kind = "settle" =>
       tx.finalize <=> snap \cup tx.batch = Cards
  /\ stage \in {"idle", "reading"} => tx = NoTx

LEMMA DuelUnderWay ==
  ASSUME ChainMove, status \in {"active", "complete"}
  PROVE  size' = size /\ settled \subseteq settled'
BY DEF ChainMove, Chain!Create, Chain!Join, Chain!Cancel, Chain!Elapse,
       Chain!RevealDeck, Chain!SwipeCard, Chain!SettleCards, Chain!CloseAfter, chainVars

LEMMA OthersMove ==
  ASSUME Inv,
         \/ \E t \in orphans : OrphanEnds(t)
         \/ ChainStep \/ NewerDuels \/ UNCHANGED vars
         \/ \E i \in Cards : PositionRedeemed(i)
         \/ \E m \in Markets : MarketSettles(m)
  PROVE  ChainMove /\ UNCHANGED <<stage, snap, tx>>
<1>1. ASSUME NEW t \in orphans, OrphanEnds(t)
      PROVE  ChainMove /\ UNCHANGED <<stage, snap, tx>>
  <2>1. t \in TX /\ redeemed \subseteq Cards BY DEF Inv, TypeOK
  <2>2. ChainMove
    BY <1>1, <2>1, ExecuteMoves DEF OrphanEnds, ChainMove, chainVars
  <2> QED BY <1>1, <2>2 DEF OrphanEnds
<1>2. CASE ChainStep
  <2>1. Chain!CloseAfter({}) => ChainMove
    <3>1. {} \in SUBSET Cards OBVIOUS
    <3> QED BY <3>1 DEF ChainMove
  <2> QED BY <1>2, <2>1 DEF ChainStep, ChainMove, keeperVars
<1>3. CASE \/ NewerDuels \/ UNCHANGED vars
           \/ \E i \in Cards : PositionRedeemed(i)
           \/ \E m \in Markets : MarketSettles(m)
  BY <1>3 DEF NewerDuels, PositionRedeemed, MarketSettles, vars, keeperVars, ChainMove
<1> QED BY <1>1, <1>2, <1>3

LEMMA OthersKeepBatch ==
  ASSUME Inv, BatchFromCopy, ChainMove, UNCHANGED <<stage, snap, tx>>
  PROVE  BatchFromCopy'
<1>1. CASE stage = "idle"
  BY <1>1 DEF BatchFromCopy, NoTx
<1>2. CASE stage # "idle"
  <2>1. size' = size /\ settled \subseteq settled'
    BY <1>2, DuelUnderWay DEF Inv, TypeOK, AwaitedMakesSense
  <2> QED BY <2>1 DEF BatchFromCopy, NoTx
<1> QED BY <1>1, <1>2

LEMMA StepKeepsBatch ==
  ASSUME Inv, BatchFromCopy, [Next]_vars
  PROVE  BatchFromCopy'
<1>1. CASE tryClose
  <2>1. UNCHANGED chainVars /\ stage = "idle" BY <1>1 DEF tryClose
  <2>2. CASE stage' = "reading" /\ snap' = settled /\ tx' = tx
    BY <2>1, <2>2 DEF BatchFromCopy, chainVars, NoTx
  <2>3. CASE tryReveal
    BY <2>1, <2>3 DEF BatchFromCopy, tryReveal, Await, Reveal, NoTx
  <2>4. CASE UNCHANGED <<stage, tx>>
    BY <2>1, <2>4 DEF BatchFromCopy, NoTx
  <2> QED BY <1>1, <2>2, <2>3, <2>4 DEF tryClose
<1>2. ASSUME NEW seen, SubmitSettle(seen) PROVE BatchFromCopy'
  <2>1. /\ UNCHANGED chainVars /\ snap' = snap /\ stage = "reading" /\ tx = NoTx
        /\ snap \subseteq settled
    BY <1>2 DEF SubmitSettle, BatchFromCopy, NoTx
  <2>2. CASE stage' = "idle" /\ tx' = tx
    BY <2>1, <2>2 DEF BatchFromCopy, NoTx
  <2>3. CASE Await(Settle(readyCardIndices(seen), willFinalize(readyCardIndices(seen))))
    BY <2>1, <2>3 DEF BatchFromCopy, Await, Settle, willFinalize, chainVars
  <2> QED BY <1>2, <2>2, <2>3 DEF SubmitSettle
<1>3. CASE stage' = "idle" /\ tx' = NoTx
  BY <1>3 DEF BatchFromCopy, NoTx
<1>4. CASE \/ \E t \in orphans : OrphanEnds(t)
           \/ ChainStep \/ NewerDuels \/ UNCHANGED vars
           \/ \E i \in Cards : PositionRedeemed(i)
           \/ \E m \in Markets : MarketSettles(m)
  BY <1>4, OthersMove, OthersKeepBatch
<1>5. Succeeds \/ SettleAborts \/ RevealAborts \/ RevealRefused \/ AnswerLost \/ Restart
        => stage' = "idle" /\ tx' = NoTx
  BY DEF Succeeds, SettleAborts, RevealAborts, RevealRefused, AnswerLost, Restart, Done
<1> QED BY <1>1, <1>2, <1>3, <1>4, <1>5
        DEF Next, KeeperStep, FaultStep, MarketsRead, SomeReadsFail, Idling

LEMMA LastBatch ==
  ASSUME Inv, BatchFromCopy, [Next]_vars, stage = "sent", stage' = "idle",
         snap = settled, settled' # settled
  PROVE  settled' = Cards <=> status' = "complete"
<1>1. Succeeds
  <2>1. tryClose \/ SettleAborts \/ RevealAborts \/ RevealRefused \/ AnswerLost \/ Restart
          \/ MarketsRead \/ SomeReadsFail => settled' = settled
    BY DEF tryClose, SettleAborts, RevealAborts, RevealRefused, AnswerLost, Restart,
           MarketsRead, SomeReadsFail, SubmitSettle, chainVars
  <2> QED BY <2>1, OthersMove DEF Next, KeeperStep, FaultStep, Idling
<1>2. status \in {"active", "complete"} BY DEF Inv, AwaitedMakesSense
<1>3. CASE tx.kind = "reveal"
  BY <1>1, <1>3 DEF Succeeds, Execute, Chain!RevealDeck
<1>4. CASE tx.kind = "settle" /\ ~tx.finalize /\ Chain!SettleCards(tx.batch)
  BY <1>4 DEF Chain!SettleCards, BatchFromCopy
<1>5. CASE tx.kind = "settle" /\ tx.finalize /\ Chain!CloseAfter(tx.batch)
  BY <1>5 DEF Chain!CloseAfter, BatchFromCopy
<1> QED BY <1>1, <1>3, <1>4, <1>5 DEF Succeeds, Execute

\* Of any deck and however markets settle, batches are cut, transactions are
\* lost or outsiders settle: a batch cut from a copy that is still true closes
\* the duel exactly when it settles the last card (keeper.ts, willFinalize).
THEOREM KeeperLastBatchCloses == Spec => LastBatchCloses
<1>1. Init => BatchFromCopy BY DEF Init, BatchFromCopy
<1>2. Inv /\ BatchFromCopy /\ [Next]_vars =>
        [stage = "sent" /\ stage' = "idle" /\ snap = settled /\ settled' # settled
           => (settled' = Cards <=> status' = "complete")]_vars
  BY LastBatch
<1> QED BY <1>1, <1>2, StepKeepsBatch, KeeperInvariant, PTL DEF Spec, LastBatchCloses
=============================================================================
