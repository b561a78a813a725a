--------------------------- MODULE MCMatchmaking ---------------------------
(***************************************************************************)
(* Finite instances of Matchmaking: sockets, addresses and call slots are  *)
(* interchangeable.  And what the deck a match waits for may be: its       *)
(* making is one await of matchPair, on whatever inputs MCCards lists.     *)
(***************************************************************************)
EXTENDS Matchmaking, MCCards, TLC

Perms == Permutations(Sockets) \cup Permutations(Addresses) \cup Permutations(Calls)

\* Every tier that is queued for is one that a socket may name.
ASSUME TiersAreQueueable == Tiers \subseteq QueueTiers

\* The calls whose match waits for its deck.
Building == {c \in Calls : calls[c].stage = "deck"}

\* The markets of a match's deck (selectMarketRows, selectTieredMarkets) are
\* different ones, sorted by when they settle, each taken as it was first told
\* of.  The flat selection has the soonest that are not too soon; the tiered
\* one none that is long-lived, the freshest short ones and the soonest mid
\* ones; and both as many as there are, up to their counts.
MarketsPicked == Building # {} => PicksRight

\* The shuffle of a match's deck is fair: every order of the cards comes from
\* exactly one draw, every place is drawn by equally many bytes, and equally many
\* draws put the far strikes on one place as on another, so a card's position
\* tells nothing of its zone.  No deck leans by more than one card, and half of
\* the bytes give an odd one its extra card on either side.
ShuffleIsFair == Building # {} => ShufflesFair

\* The cards of a match's deck are different bets, whichever leans, zones and
\* quotes were drawn: no two have both market and strike in common, but for
\* those that were moved to the price because one of their sides is too
\* unlikely.  Each strike is on its market's grid, on the side of the price that
\* was drawn.
CardsDiffer == Building # {} => CardsApart

\* A match gets the deck its mode and the reads call for (buildDeckFromSource): a
\* failed read is never papered over with another kind of deck; otherwise there
\* is a deck unless a read failed, whatever the service has to offer; a deck of
\* the service is made of one try's admitted markets, tiered ones of different
\* markets in the order they settle; and the tier named "staked" gets no cards
\* that cannot be minted.
SourceKept ==
  /\ \A c \in Building : SourcesRight[calls[c].tier]
  /\ Building # {} => SourcesRight["staked"]
=============================================================================
