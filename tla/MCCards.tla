------------------------------ MODULE MCCards -------------------------------
(***************************************************************************)
(* What deck making does on bounded inputs: every sequence of up to three  *)
(* rows, every draw of a shuffle of up to five, every deck of four cards   *)
(* on up to three markets, every outcome of two tries.  MCMatchmaking says *)
(* it of the decks that its matches wait for.                              *)
(***************************************************************************)
EXTENDS CardSource, FiniteSetsExt

Sorted(s) == \A i, j \in DOMAIN s : i < j => s[i] <= s[j]
Distinct(s) == \A i, j \in DOMAIN s : s[i] = s[j] => i = j

-----------------------------------------------------------------------------
(* Rows: the clock is at 10; m1 is told of first. *)

Selection ==
  [now |-> 10, shortLifetime |-> 5, midLifetime |-> 12, shortFloor |-> 2, midFloor |-> 4,
   maxHorizon |-> 12, shortCount |-> 1, midCount |-> 1, minHeadroom |-> 3, count |-> 2]
RowIds == {<<"m1">>, <<"m1", "m1">>, <<"m1", "m2">>} \cup
          {<<"m1", x, y>> : x \in {"m1", "m2"}, y \in {"m1", "m2", "m3"}}
RowSeqs ==
  UNION {{[i \in DOMAIN ids |-> [id |-> ids[i], btc |-> b # i, expiry |-> t[i][1],
                                 created |-> t[i][2]]] :
            b \in {0, 1},
            t \in [DOMAIN ids -> {<<11, 8>>, <<13, 9>>, <<14, 9>>, <<14, 6>>, <<15, 6>>,
                                  <<15, Unknown>>, <<22, 11>>, <<23, 12>>}]} : ids \in RowIds}

\* The markets of a tier that a deck may use: those whose first row has it.
OfTier(rows, tier, floor, o) ==
  {r \in ToSet(rows) :
     /\ r.btc
     /\ r.expiry \in o.now + floor .. o.now + o.maxHorizon
     /\ classifyTier(r, o) = tier
     /\ r = rows[Min({i \in DOMAIN rows : rows[i].btc /\ rows[i].id = r.id})]}

\* Selected markets are different ones, sorted by when they settle, each taken
\* as it was first told of.  The flat selection has the soonest that are not too
\* soon; the tiered one none that is long-lived, the freshest short ones and the
\* soonest mid ones; and both as many as there are, up to their counts.
Selects(rows, o) ==
  LET flat == selectMarketRows(rows, o)
      tiered == selectTieredMarkets(rows, o)
      far == {r \in UNION {OfTier(rows, t, 0, o) : t \in {"short", "mid", "long"}} :
                r.expiry > o.now + o.minHeadroom}
      short == OfTier(rows, "short", o.shortFloor, o)
      mid == OfTier(rows, "mid", o.midFloor, o)
      Picked(tier) == {r \in ToSet(tiered) : classifyTier(r, o) = tier}
  IN  /\ \A picks \in {flat, tiered} : /\ Distinct([i \in DOMAIN picks |-> picks[i].id])
                                       /\ Sorted([i \in DOMAIN picks |-> picks[i].expiry])
      /\ ToSet(flat) \subseteq far
      /\ Len(flat) = Min({Cardinality(far), o.count})
      /\ \A r \in ToSet(flat), s \in far : s \in ToSet(flat) \/ s.expiry >= r.expiry
      /\ Picked("long") = {}
      /\ Picked("short") \subseteq short /\ Picked("mid") \subseteq mid
      /\ Cardinality(Picked("short")) = Min({Cardinality(short), o.shortCount})
      /\ Cardinality(Picked("mid")) = Min({Cardinality(mid), o.midCount})
      /\ \A r \in Picked("short"), s \in short \ Picked("short") : s.expiry <= r.expiry
      /\ \A r \in Picked("mid"), s \in mid \ Picked("mid") : s.expiry >= r.expiry

PicksRight == \A rows \in RowSeqs : Selects(rows, Selection)

-----------------------------------------------------------------------------
(* Draws. *)

Draws(size) == {d \in [1 .. size -> 1 .. size] : \A i \in 1 .. size : d[i] <= i}
Bytes == 0 .. 255

\* The shuffle of a deck of a size is fair: every order of the cards comes from
\* exactly one draw, every place is drawn by equally many bytes, and equally many
\* draws put the far strikes on one place as on another, so a card's position
\* tells nothing of its zone.  The deck leans by at most one card, and half of the
\* bytes give an odd one its extra card on either side.
FairAt(size) ==
  LET orders == {shuffle([i \in 1 .. size |-> i], d) : d \in Draws(size)}
      Picks(p) == {b \in Bytes : Accepted(b, size) /\ Drawn(b, size) = p}
      Edges(p) == {d \in Draws(size) : allocateZones(size, d)[p] = "edge"}
      Lean(byte, d) == SumFunction(allocateSignBalance(size, byte, d))
  IN  /\ orders = {p \in [1 .. size -> 1 .. size] : Distinct(p)}
      /\ Cardinality(orders) = Cardinality(Draws(size))
      /\ \A p \in 1 .. size : /\ Cardinality(Picks(p)) = 256 \div size
                              /\ Cardinality(Edges(p)) = Cardinality(Edges(1))
      /\ \A d \in Draws(size), byte \in Bytes :
           Lean(byte, d) \in -1 .. 1 /\ Lean(255 - byte, d) = -Lean(byte, d)

ShufflesFair == \A size \in 1 .. 5 : FairAt(size)

-----------------------------------------------------------------------------
(* Strikes. *)

Spot == 20007
Grids == {<<[id |-> "m1", tick |-> 2, admission |-> 4]>>,
          <<[id |-> "m1", tick |-> 1, admission |-> 3], [id |-> "m2", tick |-> 1, admission |-> 1]>>,
          <<[id |-> "m1", tick |-> 1, admission |-> 2], [id |-> "m2", tick |-> 2, admission |-> 4],
            [id |-> "m3", tick |-> 1, admission |-> 4]>>}

\* A card's lean, with its zone or the distance of its quoted strike.
Priced == {[sign |-> s, zone |-> z] : s \in {-1, 1}, z \in DOMAIN ZoneOffsetBps}
Quoted == {[sign |-> s, away |-> d] : s \in {-1, 1}, d \in {0, 1, 3}}
Rungs(m, spot, card) ==
  IF "zone" \in DOMAIN card THEN priceRungs(spot, card.sign, card.zone)
  ELSE sviRungs(spot + card.sign * card.away, card.sign, m.admission)

\* The cards of a deck are different bets, whichever leans, zones and quotes
\* were drawn: no two have both market and strike in common, but for those that
\* were moved to the price because one of their sides is too unlikely.  Each
\* strike is on its market's grid, on the side of the price that was drawn.
Apart(ms, spot, cards, unlikely) ==
  LET rungs == [i \in DOMAIN cards |-> Rungs(MarketOf(ms, i), spot, cards[i])]
      deck == buildProbedDeck(ms, rungs, spot, unlikely)
      AtPrice(i) == Strike(MarketOf(ms, i), spot)
      Below(i) == cards[i].sign * (deck[i].strike - AtPrice(i).strike) < 0
  IN  /\ \A i, j \in DOMAIN cards \ unlikely : deck[i] = deck[j] => i = j
      /\ \A i \in unlikely : deck[i] = AtPrice(i)
      /\ \A i \in DOMAIN cards : /\ deck[i].market = MarketOf(ms, i).id
                                 /\ ~Below(i)
                                 /\ deck[i].strike % MarketOf(ms, i).admission = 0

CardsApart ==
  \A ms \in Grids : \A cards \in [1 .. 4 -> Priced] \cup [1 .. 4 -> Quoted] :
    \A unlikely \in {{}, {2}, {1, 4}} : Apart(ms, Spot, cards, unlikely)

-----------------------------------------------------------------------------
(* Sources: three markets that settle one after the other, of which every  *)
(* subset may be admitted; and a failed read.                              *)

Choice == [now |-> 10, tierSize |-> 2, deckMax |-> 5, feed |-> "btc",
           offsets |-> <<2, 4, 7, 11, 15>>]
M(i) == [id |-> i, expiry |-> 10 + i]
Tries == {[tiered |-> t, flat |-> f, mintable |-> ok, fault |-> FALSE] :
            t \in {<<>>, <<M(1), M(2)>>, <<M(1), M(2), M(3)>>},
            f \in {<<>>, <<M(2)>>, <<M(1), M(3)>>}, ok \in SUBSET (1 .. 3)}
         \cup {[tiered |-> <<>>, flat |-> <<>>, mintable |-> {}, fault |-> TRUE]}

\* A deck of the service is made of one try's admitted markets, each settling
\* with its market; a tiered one has a different market on every card, in the
\* order they settle.
FromTry(d, t, o) ==
  /\ \A i \in DOMAIN d.cards : \E m \in ToSet(IF t.tiered # <<>> THEN t.tiered ELSE t.flat) :
       m.id \in t.mintable /\ m.id = d.cards[i] /\ m.expiry = d.settleAt[i]
  /\ IF t.tiered # <<>>
     THEN Len(d.cards) \in 2 .. o.tierSize /\ Distinct(d.cards) /\ Sorted(d.settleAt)
     ELSE Len(d.cards) = o.deckMax

\* The source a deck for the tier may come from.
SourceOf(mode, tier, tries, feed, o) ==
  LET d == buildDeckFromSource(mode, tier, tries, feed, o)
      Reached(k) == \A j \in 1 .. k - 1 : ~tries[j].fault /\ ~enough(tries[j])
      faulty == \E k \in DOMAIN tries : Reached(k) /\ tries[k].fault
  IN  /\ d.is = "deck" /\ tier = "staked" => d.source = "predict"
      /\ mode # "pyth" /\ faulty => d = Fault
      /\ tier # "staked" /\ mode # "predict" /\ d.is # "deck" => d = Fault /\ (faulty \/ ~feed)
      /\ d.is = "deck" /\ d.source = "predict" =>
           \E k \in DOMAIN tries : Reached(k) /\ enough(tries[k]) /\ FromTry(d, tries[k], o)
      /\ d.is = "deck" /\ d.source = "pyth" =>
           Len(d.cards) = Len(d.settleAt) /\ Distinct(d.settleAt) /\ Sorted(d.settleAt)

SourceRight(tier) ==
  \A first, second \in Tries, mode \in {"predict", "auto", "pyth"}, feed \in BOOLEAN :
    SourceOf(mode, tier, <<first, second>>, feed, Choice)
SourcesRight == [tier \in QueueTiers \cup {"staked"} |-> SourceRight(tier)]
=============================================================================
