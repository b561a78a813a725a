----------------------------- MODULE CardSource -----------------------------
(***************************************************************************)
(* Where the cards of a duel come from (card-source.ts): markets of the    *)
(* prediction service, tried several times, or cards priced off a feed.    *)
(* A try is what one round of reads returned: the tiered selection (empty  *)
(* when it is switched off), the flat one, the markets whose mint is       *)
(* admitted, and whether a read failed.                                    *)
(***************************************************************************)
EXTENDS Deckmaster

\* The tiers a socket may name, and their stakes; joinQueue turns practice away.
STAKE_TIERS == [practice |-> 0, starter |-> 1, casual |-> 3, standard |-> 5, high_roller |-> 10]
QueueTiers == DOMAIN STAKE_TIERS \ {"practice"}

NoDeck == [is |-> "none"]             \* NoCardsAvailableError
Fault == [is |-> "fault"]             \* any other error

usedTiered(t) == t.tiered # <<>>
rawMarkets(t) == IF usedTiered(t) THEN t.tiered ELSE t.flat
Mintable(t) ==
  LET raw == rawMarkets(t)
      kept[i \in 0 .. Len(raw)] ==
        IF i = 0 THEN <<>>
        ELSE IF raw[i].id \in t.mintable THEN Append(kept[i - 1], raw[i]) ELSE kept[i - 1]
  IN  kept[Len(raw)]

\* Tiered decks want two different markets, flat ones only one.
enough(t) == Len(Mintable(t)) >= (IF usedTiered(t) THEN 2 ELSE 1)

\* Mutant: the cards of a tiered deck go round its markets as well.
deckMarketsPadded(t, o) ==
  IF usedTiered(t) THEN [i \in 1 .. o.deckMax |-> MarketOf(Mintable(t), i)] ELSE Mintable(t)
deckMarkets(t, o) ==
  IF usedTiered(t) THEN Take(Mintable(t), o.tierSize) ELSE Mintable(t)
deckSize(t, o) == IF usedTiered(t) THEN Len(deckMarkets(t, o)) ELSE o.deckMax

\* A card's settle time is looked up by its market.
ExpiryOf(ms, id) == (CHOOSE m \in ToSet(ms) : m.id = id).expiry

predictDeck(t, o) ==
  LET ms == deckMarkets(t, o)
      cards == [i \in 1 .. deckSize(t, o) |-> MarketOf(ms, i).id]
  IN  [is |-> "deck", source |-> "predict", cards |-> cards,
       settleAt |-> [i \in DOMAIN cards |-> ExpiryOf(ms, cards[i])]]

\* The first try that fails or has enough decides.
predictCardSource(tries, o) ==
  LET over == {k \in DOMAIN tries : tries[k].fault \/ enough(tries[k])}
  IN  IF over = {} THEN NoDeck
      ELSE IF tries[Min(over)].fault THEN Fault ELSE predictDeck(tries[Min(over)], o)

pythDeck(o) ==
  LET times == Take(o.offsets, o.deckMax)
  IN  [is |-> "deck", source |-> "pyth", cards |-> [i \in DOMAIN times |-> o.feed],
       settleAt |-> [i \in DOMAIN times |-> o.now + times[i]]]

\* feed: the price could be read and is not stale.
pythCardSource(tier, feed, o) ==
  IF tier = "staked" THEN NoDeck ELSE IF feed THEN pythDeck(o) ELSE Fault

buildDeckFromSource(mode, tier, tries, feed, o) ==
  LET first == predictCardSource(tries, o)
  IN  IF mode = "pyth" THEN pythCardSource(tier, feed, o)
      ELSE IF mode = "auto" /\ first = NoDeck THEN pythCardSource(tier, feed, o)
      ELSE first
=============================================================================
