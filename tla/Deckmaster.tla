----------------------------- MODULE Deckmaster -----------------------------
(***************************************************************************)
(* How a deck is made (deckmaster.ts, mint-probe.ts): which markets, in    *)
(* what order, which cards lean up or down, and where their strikes are.   *)
(* These are functions of what the server read: the rows of the markets it *)
(* knows, the price, and the bytes of the deck's random stream.            *)
(*                                                                         *)
(* A row is [id, btc, expiry, created]: btc says that it is a created      *)
(* market of the right asset.  A market is [id, expiry, tick, admission].  *)
(* The probability model is floating point: the raw strike of a quoted     *)
(* card, and which cards are too unlikely to be minted, are inputs.        *)
(***************************************************************************)
EXTENDS Integers, SequencesExt

Unknown == -1                        \* no checkpoint_timestamp_ms

-----------------------------------------------------------------------------
(* Markets.  Equal keys keep the order of the rows. *)

Take(s, k) == SubSeq(s, 1, IF k < Len(s) THEN k ELSE Len(s))

\* The first row of each market.  Mutant: every row counts.
AllRows(rows) == {i \in DOMAIN rows : rows[i].btc}
FirstRows(rows) ==
  {i \in DOMAIN rows : /\ rows[i].btc
                       /\ \A j \in 1 .. i - 1 : ~(rows[j].btc /\ rows[j].id = rows[i].id)}

\* Array.sort: each member of S stands behind those that are ahead of it.
InOrder(S, ahead) ==
  [k \in 1 .. Cardinality(S) |-> CHOOSE i \in S : Cardinality(ahead[i]) = k - 1]

SoonestFirst(rows, picked) ==
  InOrder(picked, [i \in picked |-> {j \in picked : \/ rows[j].expiry < rows[i].expiry
                                                    \/ rows[j].expiry = rows[i].expiry /\ j < i}])
LatestFirst(rows, picked) ==
  InOrder(picked, [i \in picked |-> {j \in picked : \/ rows[j].expiry > rows[i].expiry
                                                    \/ rows[j].expiry = rows[i].expiry /\ j < i}])

selectMarketRows(rows, o) ==
  LET far == {i \in FirstRows(rows) : /\ rows[i].expiry > o.now + o.minHeadroom
                                      /\ rows[i].expiry <= o.now + o.maxHorizon}
      best == Take(SoonestFirst(rows, far), o.count)
  IN  [i \in DOMAIN best |-> rows[best[i]]]

classifyTier(r, o) ==
  IF r.created = Unknown \/ r.expiry - r.created > o.midLifetime THEN "long"
  ELSE IF r.expiry - r.created <= o.shortLifetime THEN "short" ELSE "mid"

\* The rows of a tier that live long enough to be swiped.
Safe(rows, tier, floor, o) ==
  {i \in FirstRows(rows) : LET ttl == rows[i].expiry - o.now IN
     /\ ttl > 0 /\ ttl <= o.maxHorizon /\ ttl >= floor
     /\ classifyTier(rows[i], o) = tier}

\* The freshest short ones and the soonest mid ones, sorted by expiry; of equal
\* expiries the short one stands first.
selectTieredMarkets(rows, o) ==
  LET shorts == ToSet(Take(LatestFirst(rows, Safe(rows, "short", o.shortFloor, o)), o.shortCount))
      mids == ToSet(Take(SoonestFirst(rows, Safe(rows, "mid", o.midFloor, o)), o.midCount))
      Before(i, j) == \/ rows[i].expiry < rows[j].expiry
                      \/ /\ rows[i].expiry = rows[j].expiry
                         /\ \/ i \in shorts /\ j \in mids
                            \/ i < j /\ (i \in shorts <=> j \in shorts)
      both == shorts \cup mids
      picked == InOrder(both, [i \in both |-> {j \in both : Before(j, i)}])
  IN  [i \in DOMAIN picked |-> rows[picked[i]]]

-----------------------------------------------------------------------------
(* The random stream.  draw[i] is the place, among the first i, that the   *)
(* i-th element is exchanged with.                                         *)

\* A byte is thrown away when it would favour the low places.
AnyByte(b, i) == TRUE                 \* mutant: no byte is
Accepted(b, i) == b < 256 - (256 % i)
Drawn(b, i) == (b % i) + 1

Exchange(s, i, j) == [s EXCEPT ![i] = s[j], ![j] = s[i]]

shuffle(arr, draw) ==
  LET after[i \in 1 .. Len(arr)] ==
        IF i = Len(arr) THEN arr ELSE Exchange(after[i + 1], i + 1, draw[i + 1])
  IN  after[1]

\* Cards that lean down (their strike is above the price) and up; of an odd
\* number the first byte decides which side has one more.
signBase(size, byte) ==
  LET downs == size \div 2 + (IF size % 2 = 1 /\ byte < 128 THEN 1 ELSE 0)
  IN  [i \in 1 .. size |-> IF i <= downs THEN 1 ELSE -1]
allocateSignBalance(size, byte, draw) == shuffle(signBase(size, byte), draw)

zoneBase(size) ==
  CASE size = 1 -> <<"close">>
    [] size = 2 -> <<"close", "mid">>
    [] size = 3 -> <<"close", "mid", "edge">>
    [] size = 4 -> <<"close", "mid", "mid", "edge">>
    [] OTHER -> [i \in 1 .. size |->
                   <<"close", "close", "mid", "mid", "edge">>[((i - 1) % 5) + 1]]
allocateZones(size, draw) == shuffle(zoneBase(size), draw)

-----------------------------------------------------------------------------
(* Strikes. *)

\* The nearest strike of the market's grid, as a tick.
snapToAdmissionTick(raw, tick, admission) ==
  LET r == IF raw < 0 THEN 0 ELSE raw
  IN  IF admission <= 0 THEN r \div tick
      ELSE (((r + (admission \div 2)) \div admission) * admission) \div tick

Strike(m, raw) ==
  [market |-> m.id, strike |-> snapToAdmissionTick(raw, m.tick, m.admission) * m.tick]

\* The raw strikes a card tries, one after the other, until it differs from the
\* cards before it: ever further from the price.
ZoneOffsetBps == [close |-> 2, mid |-> 4, edge |-> 6]
priceRungs(spot, sign, zone) ==
  [k \in 1 .. 5 |-> spot + sign * ((spot * (ZoneOffsetBps[zone] + 2 * (k - 1))) \div 10000)]
sviRungs(raw, sign, cell) ==
  [k \in 1 .. 11 |-> LET bump == (k - 1) * cell IN
     IF sign > 0 THEN raw + bump ELSE IF raw > bump THEN raw - bump ELSE 0]

MarketOf(markets, i) == markets[((i - 1) % Len(markets)) + 1]

\* Mutant: only the card just before it is looked at.
placedAfterLast(m, rungs, cards) ==
  LET free == {k \in DOMAIN rungs :
                 cards = <<>> \/ Strike(m, rungs[k]) # cards[Len(cards)]}
  IN  Strike(m, rungs[IF free = {} THEN Len(rungs) ELSE Min(free)])

\* The first rung that is free, or the last one.
placed(m, rungs, cards) ==
  LET free == {k \in DOMAIN rungs : Strike(m, rungs[k]) \notin ToSet(cards)}
  IN  Strike(m, rungs[IF free = {} THEN Len(rungs) ELSE Min(free)])

\* One card per element of rungs, round-robin over the markets.
buildDeck(markets, rungs) ==
  LET deck[i \in 0 .. Len(rungs)] ==
        IF i = 0 THEN <<>>
        ELSE Append(deck[i - 1], placed(MarketOf(markets, i), rungs[i], deck[i - 1]))
  IN  deck[Len(rungs)]

\* Cards one of whose sides is too unlikely become at-the-money cards.
buildProbedDeck(markets, rungs, spot, unlikely) ==
  LET deck == buildDeck(markets, rungs)
  IN  [i \in DOMAIN deck |-> IF i \in unlikely THEN Strike(MarketOf(markets, i), spot)
                                               ELSE deck[i]]
=============================================================================
