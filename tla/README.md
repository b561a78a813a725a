# Flicky: formal verification

Flicky is a two-player prediction duel. Two players stake the same amount, are
shown the same deck of cards (one strike on one DeepBook Predict market each),
swipe every card up or down, and the better score takes the pot. A Move
contract holds the stakes and the record; a Bun server matches players, copies
the chain into a database and sends the closing transactions; a web page signs
the players' own transactions.

This directory holds TLA+ models of the parts that carry the game, the TLC
configurations that check them on small instances, and proofs checked by TLAPS.

    tlc -workers 2 -config Duel.cfg MCDuel          # one run
    tlapm DuelProofs.tla                            # one set of proofs

Paths below are relative to `src/apps` unless they start with `src/`.

## 1. Inventory

| Part | Source | State | Operations | Modules |
|---|---|---|---|---|
| Duel contract | `contracts/sources/duel.move` | one shared `Duel` object: status, both balances, deck hash and deck, swipes, settlements, running totals | create, join (staked, free), reveal_deck, record_swipe, settle_card, finalize (three entry points), refund_duel, claim_reveal_timeout | `Duel`, `Escrow`, `Lifecycle` |
| Swap contract | `contracts/swap/sources/swap.move` | reserves, share supply, fee | create_pool, add/remove_liquidity, both swaps, sqrt | `Swap` |
| Matchmaking and rooms | `server/src/ws/matchmaking.ts`, `ws/handlers.ts` | socket registry, a queue per tier, calls in flight, pairings and their timers, room members, forfeit timers | hello, queue_join, queue_leave, subscribe, unsubscribe, close, every timer and resumed await | `Matchmaking` |
| Keeper | `server/src/keeper.ts` | ids it takes for finalized, revealed, in flight | sweep, tryReveal, tryClose | `Keeper` |
| Indexer, database mirror, ratings | `server/src/indexer.ts`, `db.ts`, `mmr.ts` | a cursor per tracker, duel rows, settlements, ratings; the lists of a tick | seed, drain, save cursor, refresh, set winner, rate | `Indexer`, `Mirror` |
| Duel page | `web/src/routes/game/{pvp,play,active-duel}.tsx`, `web/src/hooks/use-flicky-socket.ts` | phase, card on screen, last room_state, pending transactions, route | match, create/join, load, subscribe, swipe by hand, swipe by deadline, reload, exit | `ActiveDuel` |
| Practice mode | `web/src/hooks/use-practice-session.ts`, `practice.tsx`, `server/src/ws/practice.ts` | phase, picks, bot's timers, settled cards | start, deal, swipe, bot reveals, settle, stall, result | `Practice` |
| Making of decks | `server/src/deckmaster.ts`, `mint-probe.ts`, `card-source.ts` | none but the stored decks | select markets, shuffle, place strikes, retry, choose the source | `Deckmaster`, `CardSource` |
| Room snapshots, handlers | `server/src/ws/handlers.ts`, `protocol.ts` | none of their own | a snapshot per subscription | inside `Matchmaking` and `ActiveDuel` |
| Rate limiter, prize pool, sponsor, chat, price stream, HTTP APIs, rest of the client, playground | see PROJECT.json | none the parts above depend on | | not modelled, section 6 |

How the parts interact:

* The **page** talks to the server over one WebSocket and to the chain with
  transactions it signs. Nothing orders the two.
* **Matchmaking** pairs two sockets and tells the creator to create a duel. It
  does not see the duel; the **indexer** does, later, and then calls
  `takeMatchedPair`, which ends the pairing.
* The **indexer** copies every duel an event touched into the **mirror**, and
  tells the room. Whoever subscribes gets a snapshot of the mirror, read
  before an await and sent after it.
* The **keeper** polls the last 30 duels and sends `reveal_deck`,
  `settle_card` and `finalize`. All three are permissionless, so it races with
  players and strangers, and with itself after a lost answer or a restart.
* The **duel contract** serialises everything: one transaction at a time,
  committed whole or aborted whole. A transaction may hold several calls.

What makes the system hard is the list "hazards" of PROJECT.json, each at its
line with the properties that answer it. In short: exits of one escrow that
overlap in time; cards settled in any order by anybody; JavaScript that reads,
awaits, and uses what it read; timers that race the event they guard against;
loops that crash between two writes; a page that is thrown away in the middle
of a transaction; answers that never come for things that happened.

What must hold, part by part: the contract loses no coin and pays only what was
earned; the pool never dilutes a share; the server's tables agree and every
pairing ends; the keeper never takes a live duel for a dead one nor forgets a
dead one; the mirror never goes back and a result that was read is rated once for
each player; the page skips no card, shows no result before there is one and never
waits for ever. Where the code falls short of one of these, section 4 says so.

## 2. How the modules fit together

    Escrow <--refines-- Duel --refines--> Lifecycle <--environment-- Keeper
    Mirror <--refines-- Indexer          (rows only become newer)
       ^-- assumed by ActiveDuel: any row the page sees is some older copy
    Deckmaster <-- CardSource <-- Matchmaking   (in MCMatchmaking: the deck a match awaits)
    Swap     Practice
    Induction <-- DuelProofs, SwapProofs, MatchmakingProofs (of MCMatchmaking)

Two of these edges are refinements in which the abstract module is used on the
other side: the keeper runs against the life cycle the contract is proved to
implement, and the page runs against rows that are old copies, which is what
the indexer is proved to deliver. The page also holds the server's side of one
pairing (`pairing`: armed, taken, gone), which is `Matchmaking`'s pairing with
its timer, seen by one address.

### Duel, Escrow, Lifecycle, MCDuel

One duel object. Each entry function is one action with its name; a Move
`abort` is a disabled action, since it changes nothing. Private functions
(`preflight_swipe`, `score_payout`, `commit_card_settlement`, `pay_player`) are
operators. The variables are the fields of the Move struct (`p0_x`, `p1_x`
become `x[0]`, `x[1]`) and:

* `now`, the clock object; `Tick` advances it while it can still matter (a
  bound, `MaxIdle` before a challenger joins, one past the last timeout after);
* `held`, which account holds which position. `Redeem` takes one away at any
  moment, which is all `predict_account::has_position` can tell the duel;
* `paid` and `staked`, history: coins handed out and coins put up.

Prices and premiums are whatever the caller feeds (the contract cannot verify
them), so they are chosen freely. Running totals are u64 (`U64`): an addition
beyond it aborts. The branches of `finalize_internal` are operators named for
the reason (`ForfeitBranch`, `ScoredBranch`, `StuckBranch`). Events are one
variable, `outcome`.

`Escrow` is what a duel promises about money and nothing else: open, match with
an equal amount, and one hand-out of the whole pot in one of three ways.
`Lifecycle` is the duel as the server sees it: status, deck, swipes per seat,
settled cards, window passed or not; no money and no scores. Its steps are
transactions, so `SettleCards` takes a batch and `CloseAfter` settles a batch
and finalizes.

### Swap, MCSwap

One constant-product pool. Every quotient is rounded as the code rounds it; the
u128 overflow of a product is an abort and is not represented. The square root
is the code's loop (`Newton`, `sqrt`), written as a recursive function;
`SqrtIsFloor` compares it with the definition of a root (`IsSqrt`) on every
product the pool reaches.

### Matchmaking, MCMatchmaking

JavaScript runs one callback at a time, so an action is the code from one
`await` (or timer) to the next. What a call keeps across the await is a record
in `calls[c]`: "rating" (joinQueue waits for the joiner's rating), "pick"
(waits for findClosestOpponent, holding the snapshot of candidates), "deck"
(matchPair waits for a deck, holding the sockets and addresses it read),
"retry" (the pair's retry timer is armed).

`q.splice(q.indexOf(w), 1)` is modelled by what it does (`SpliceOut`): with an
absent `w` it removes the last element. `Snapshot` is the filter and map that
list the candidates. Ratings and waiting times decide only
which candidate is near enough, so the answer is any candidate or none. A
failed database read rejects the call and nothing else happens. A message to a
closed socket is lost (`Tell`); `told` keeps the last message of each socket.

### Keeper, MCKeeper

`tryClose` is three actions: the read of the duel with everything up to the
next await (`tryClose`), the reads of the markets and the choice of the batch
(`MarketsRead`, or `SomeReadsFail` when a market that cannot be read counts as
unsettled), and the end of the transaction (`Succeeds`, `SettleAborts`,
`RevealAborts`, `RevealRefused`, `AnswerLost`). Between two of them anybody may
act (`ChainStep`). A transaction nobody waits for any more sits in `orphans`
and may still execute or disappear. `Restart` empties the sets.

Error texts are classified by `includes("16")` and a regular expression for
`2)`. What other errors look like is not in the repository, so the constant
`LooseText` says whether such a text can appear by accident; the properties
name it as their exception. In the same way `RedeemBlocks` says whether the
market rejects the redeem of a position that is already closed, which aborts
the batch that contains it, and `AccountsFound` whether both players' AccountWrappers
are found: without them `tryClose` returns at every poll (545-548).

### Indexer, Mirror, MCIndexer

One loop. `seedCursor`, then ticks: for each tracker `drainTracker` reads a page
past the cursor and `saveCursor` moves the cursor past it; then each touched
duel is read (`fetchDuel`) and written (`upsertDuel`); then each finished one is
given its winner (`setDuelWinner`) and both ratings, in two writes. Every one of
these calls may fail, and `Crash` empties the memory at any point; the tables
(`cursor`, `mirror`, `settlements`, `rated`) stay. A cursor that cannot be loaded
while seeding ends `start` (`startFails`: `loadCursor` is outside the `try`), and no
loop runs until the process is started again.

Three trackers that only mark a duel as touched are one (`DuelProgress`), and so
are DuelRefunded and DuelForfeited (`DuelClosed`). OrderMinted's tracker is seeded and
drained as MarketSettled's is, MarketCreated's is drained so but never seeded;
both feed tables that no duel is copied from and are left out.

A result's players come from the mirror as it is when the event is read
(`gatherResults`). `slips` is history: `lost`, `missed`, `again` and `unwritten` are
the duels a failure, a crash or a seeded cursor made the indexer skip or repeat;
`late` are those whose result was read, with no failure at all, before the row knew
both players. The properties name these sets, so what they say is: nothing goes
wrong other than in that way. That `late` ones go unrated is finding 4, and
`RatesBoth`, which does not excuse them, is its property. `Mirror` says what a reader of
the duel table may rely on: a row is a copy of the duel at some moment, and a
newer copy never gives way to an older one.

### ActiveDuel, MCActiveDuel

One player's browser, from `match_found` to the result. The other player, the
chain and the server are what the page sees of them: `World` moves the duel on,
`Refresh` copies it to the mirror and broadcasts, `mount` subscribes and causes
a snapshot to be read, `receiveSnapshot` delivers it later, in any order with
broadcasts. The server masks the deck until it is revealed ("hidden" rows), and the
card count of such a row is zero (`CardCount`), which is what the page compares its
swipes with when it locks in.

A transaction (`txs`) is signed, lands or aborts, and is answered, three
separate steps; `live` says whether the page that signed it is still there to
hear. The swipe made by the deadline (`autoSwipe`) does not look whether the
same card is being swiped by hand, as in the code. `onclose`, `reload`, `onExit`
and `openDuel` throw the page's state away and start again. `createEffect` is
the React effect that signs create or join: after an error it runs again,
because its dependencies are new objects at every render.

### Practice, MCPractice

A match the page plays alone. React commits a phase some time after it is set:
`phase` is what was set last, `seen` what the handlers and effects know.
Everything the code does with timers is here: the bot's reveals (`reveals`),
the start timeout, the settlement poll, the timer of the lockup (`HardAt`), the
beat before the result. Time passes only when no timer is due; what falls in
the same step happens in any order. A browser may run the timers of a hidden tab
later than that: there the model is a page in the foreground. The price may never
come, the server need not answer, the socket may drop.

### Deckmaster, CardSource, MCCards

How a deck is made is a function of what was read and of the seed's bytes, so
`Deckmaster` and `CardSource` have operators and no variables. The stream of
bytes appears twice: `Accepted` and `Drawn` say what a byte does, and `shuffle`
takes the places drawn. A card's strike is the first rung of its ladder that no
earlier card of the deck has on that market (`placed`). The probability model
(`sviRawStrike`, `premiumClearsFloor`) is floating point: the quoted strike and
which cards are too unlikely are inputs, any of them possible. So is the answer
of the on-chain probe.

`matchPair` awaits its deck, with the tier of the queue and nothing else, so
what can happen meanwhile does not depend on the cards and the cards do not
depend on it. `Matchmaking` therefore has the await (`AwaitDeck`) and its
failure, `MCCards` what a deck must be, against definitions of its own (the set of usable
markets, the permutations, the grid). Each is an operator of its inputs
(`FairAt` of a size, `Apart` of markets and cards, `SourceOf` of tries) that the
runs evaluate on bounded inputs and section 5 proves for all. `MCMatchmaking`
brings them together: whenever a call waits for a deck of its tier, any deck it
may get is as it should be. The tiers of its runs have real names for that
(`TiersAreQueueable`).

## 3. Runs

| Run | Instance | What it shows |
|---|---|---|
| duel | 2 addresses, decks of one and two cards, both tiers, stakes 0 and 2 | Funds are conserved whatever route closes the duel, nobody gets the opponent's stake without earning it, a position redeemed early is not paid again; counters, slots, prices and totals agree, nothing recorded is overwritten, the duel ends early only when fully played, a loser has no other exit; `Duel` implements `Escrow` and `Lifecycle` |
| swap_pool | reserves and amounts up to 20, 5 fees | No operation dilutes a share, shares and reserves vanish together, the root loop is exact |
| match_queue | 2 sockets, 2 addresses, 1 tier, 2 calls in flight | No callback revives a closed socket, the registry is exact, a pairing always has its timer; pushes, failures and retries act only on players who are still there. While a match waits for its deck: markets are different, in order and the best there are (`MarketsPicked`), the shuffle is fair (`ShuffleIsFair`), cards are different bets on the grid (`CardsDiffer`), the source is the one the mode and the reads call for (`SourceKept`) |
| match_rooms | 2 sockets that may share an address, 1 room, 1 call, fair timers | Room lists agree, a second tab keeps a forfeit from being armed, every pairing ends |
| match_ghost | 2 sockets, 2 calls | **violated**: finding 1 |
| keeper | 2 cards on 2 markets, 2 faults, clear error texts (`LooseText` false), redeems that can fail, strangers who settle, finalize and redeem | What the keeper remembers is true, a last batch closes the duel, every deck is revealed and every card settled in the end |
| keeper_stalls | 2 cards, 2 faults, no strangers | **violated**: finding 2 |
| indexer | 1 duel, 2 markets, pages of one event, 2 failures or crashes | A result that was read is rated once for each player and the zero address only for a late one, a winner and an outcome stay, everything is indexed in the end, each up to what `slips` names; `Indexer` implements `Mirror` |
| duel_page | either role, 2 cards, 1 repeated load, 2 faults, fair page and server | The page skips no card, shows no result early and stops asking for picks only when the chain has them or on a row from before the reveal (section 4); it never waits for ever |
| duel_twice | 1 card, 1 fault | **violated**: finding 3 |
| practice | 2 cards that settle at different times, 3 matches, 1 lost connection | The bot never shows its pick first, a verdict is earned, no phase hangs. |
| rated_late | 1 duel, 1 market, pages of one event, no faults, no seeding past events | **violated**: finding 4 |

Why the bounds are enough to be interesting:

* *Duel.* One card is enough for every exit and every tie; two cards are the
  least that has an order of settlement, a half-swiped and a half-settled deck.
  Stakes are 0 and 2, which must not meet. Premiums are 0 and 1 and a settle
  names either player's account on either side. The timeouts are
  1, 1 and 2 ticks, in the order of the real ones (swipe window = reveal timeout
  < refund timeout), and the clock runs one past the last. `MAX_U64 = 3` puts
  the overflow within reach of the sums. Outsiders, more stakes and longer decks
  are covered by the theorems. Addresses are interchangeable, so
  symmetry is sound; no liveness property is checked under symmetry anywhere.
* *Swap.* Reserves up to 20 with fees from none to almost everything (and one
  that is refused) show every rounding; the theorems cover every value.
* *Matchmaking.* Two sockets are one pair; two calls are two joins that overlap,
  or a join and a retry.
* *Keeper.* Two markets that settle at different times give every split of the
  deck into batches; two faults are what two batches in flight take.
* *Indexer.* Pages of one event put a save, and so a crash, between any two
  events; two faults let a retry fail, too. Duels are independent but for the
  order in which a tick treats them; the theorems cover any number.
* *Page.* Two cards are the least with a card that is skipped, repeated or not
  the last; two faults are, for instance, a lost answer and a reload.
* *Practice.* Three matches let the timers of one run into the next, twice.
* *Decks.* Three rows have a repeated market, a tie and one market too many for
  a count of one; shuffles go up to the five cards of a deck; four cards on one,
  two and three markets, with every lean and zone or three quotes each, collide
  in every way; two tries have one that fails before one that does not.

`CHECK_DEADLOCK FALSE` stands in DuelPage.cfg, DuelTwice.cfg and
PracticeMatch.cfg: a player who has seen the result, or left, need do nothing,
and a match bound is used up. The other systems never stop (the clock, the poll
loops and the pool go on).

### Fairness

* *Matchmaking*: weak fairness of `CallStep(c)` (every await resolves and every
  timer fires) and of the two timers. Clients and the chain owe nothing, so
  `PairingsEnd` rests on the timer alone.
* *Keeper*: weak fairness of `tryClose` (the loop re-arms itself with
  `setTimeout` whatever a sweep throws), of `MarketsRead` and of the end of an
  awaited transaction, and of `MarketSettles` (the market's operator). Players,
  strangers and faults owe nothing. `EventuallyDone` excludes four cases by name: a
  duel buried by 30 newer ones (`buried`: the sweep does not return it), a redeem
  that makes every batch abort (`RedeemBlocks`, the hazard at `keeper.ts:640`), a
  player without an account (`AccountsFound`; the runs have it true, the theorems
  either way) and error texts that are misread (`LooseText`).
* *Indexer*: weak fairness of `Loop`; the process is restarted after a crash. A
  process whose `start` failed goes on without its loop, and nobody owes a restart:
  `EventuallyIndexed` names that state (`stalled`).
* *Page*: the event loop, timers and reconnects of the page, the fate and the
  answer of a signed transaction, the indexer's poll and the wire. Nobody has
  to swipe, and the other player owes nothing.
* *Practice*: timers, effects and time. Nobody has to swipe and the server need
  not answer.

## 4. Disagreements found

Four are runs that TLC must find violated; PROJECT.json quotes the line each
one contradicts.

1. **match_ghost**: `joinQueue` pushes a socket that is already in the bucket
   when two joins of it overlap. Closing removes one copy; the other stays for
   ever.
2. **keeper_stalls**: `finalize` is sent only with the last card. If the last
   cards were settled by two batches that did not know of each other, or by
   somebody else, `tryClose` returns early at every later poll.
3. **duel_twice**: when the answer of `create_duel` is lost, the page's effect
   signs it again. The first may have landed: a second stake for one match.
4. **rated_late**: a tick drains every tracker before it refreshes a duel, and a
   result takes its players from the mirror (`indexer.ts:633`). When a duel's
   creation and its result are read in one tick the row is not there, and neither
   player is rated and no winner written; when its joining and its result are, the
   row is PENDING, and the zero address is rated in the challenger's place. No call
   need fail, and nothing repairs it, since the cursor has passed. A tick comes every
   few seconds and a duel takes minutes, so it needs an indexer that was down or
   behind for that long, as in a deployment.

The following are in the models (or were met while reading) and no run claims
otherwise. They are what the properties' exceptions are made of.

* `duel.move:713`: once the swipe window is over, `finalize` treats a duel whose
  deck was never revealed as zero swipes each, a tie, while the comment at
  792-796 gives the pot to the challenger through `claim_reveal_timeout`.
  Whoever calls first decides. `PotEarned` allows both.
* `matchmaking.ts:222`: an opponent that left during the await has index -1, and
  `splice(-1, 1)` removes the last socket of the bucket, who is told nothing.
* `matchmaking.ts:318`: a match is announced although the opponent closed during
  the await. The pairing is remembered, and its timer armed, only if both still
  have an address, so nothing on the server ends the wait of the one who is
  there; on a challenger's page its own timer does (`EventuallyMovesOn`).
* `matchmaking.ts:444`: a page that subscribes before it says hello does not stop
  its forfeit timer, and is declared gone while present (579-580 say otherwise).
* `active-duel.tsx:497`: a swipe that landed without an answer does not advance
  the card, and `cardIdx` is taken from room_state only when the deck is
  revealed (196-197). The page repeats a card the chain already has until it is
  opened again. `NeverAhead` bounds the error to this side.
* `active-duel.tsx:179-183`: the page locks in when the player's swipes are as many
  as the card count of the row, and a row from before the reveal has none of
  either. The snapshot of a subscription is read before an await and may arrive
  after the broadcast of the reveal (`matchmaking.ts:476`): a player on the first
  card then sees "picks locked in" with no pick made. The comment at 468-470 says
  that 'the next event-driven broadcast corrects any drift'; of this phase only the
  end of the duel or opening the page again does. `NeverAhead` names it.
* `indexer.ts:547`: `loadCursor` is outside the `try` of `seedCursor`, and `index.ts:307`
  does not wait for `start`. One failed read of a cursor at boot and this process
  indexes nothing.
* `card-source.ts:268`: the source of feed cards refuses the tier named "staked",
  and no caller passes that name: `matchmaking.ts:65` passes the queue's tier, one
  of `STAKE_TIERS`. With `DECK_SOURCE` set to auto (the default is predict) and no
  live market, a match with a stake gets cards nobody can mint. The comment at
  292-293 says that 'a staked duel fails loudly'; the test (card-source.test.ts:76)
  passes "staked" itself.
* `indexer.ts:645`: a page whose cursor cannot be saved is rated twice; a crash
  after the save loses the rating.
* `deckmaster.ts:817`: with fixed offsets a ladder has five rungs, so of six or
  more cards on one market two may be the same, which the comment at 781-783
  excludes. Decks of a match have at most five; `/deckmaster/generate` gives up to
  20. A card moved to the price (`mint-probe.ts:365`) may equal another, too.
* `deckmaster.ts:160-161` wants a floor above five minutes for mid markets;
  `env.ts:232` sets two, and says why. Mid cards then need not come after short
  ones; `MarketsPicked` says only that cards come in the order they settle.
* `use-practice-session.ts:188`: the start timer can put ERROR over a deck that
  arrived in the same instant.
* `keeper.ts:45`: a duel buried by 30 newer ones is never looked at again.
  `keeper.ts:597`: a free-tier duel makes its batch abort at every poll.
* `swap.move:118`: a holder of very few shares cannot withdraw when one part
  rounds to zero. `swap.move:148`: a product near the u64 limit aborts.
* `ratelimit.ts:74`: the timer that drops idle buckets looks up a limit by the
  key's text before the first colon. For routes that contain one (`ws:...`,
  `avatar:...`) it finds nothing and drops buckets that are in use; the bucket
  of `sponsor` is compared with its stored, not its refilled, tokens: it stays.

## 5. Proofs

Theorems hold for every value of the constants under the module's named
assumption: types and orders that the source states. The orders are
that the swipe window is no longer than the reveal timeout and than the refund
timeout (`duel.move:99-101`: 300_000, 300_000 and the longer refund), which
`DuelNeverEndsEarly` needs: a shorter timeout would end a duel that is still
being played.

**Induction** holds what the library's induction theorems cannot give here, since
they take a predicate as a parameter and no installed prover instantiates one.
In it a predicate is a set: strict inclusion of finite sets is well founded
(a theorem of the library without such a parameter), so every set of naturals has
a least element (`NatLeast`), and a set of naturals or of finite sets that holds
the base and is closed under the step is everything (`RankInduction`,
`SetInduction`). From these follow the existence of recursively defined
functions (`RecursionExists`: without it the `CHOOSE` that such a definition
stands for says nothing), that a fold over a finite set does not depend on the
order it is taken in (`AnyOrder`), and the laws of sums (`SumAdd`, `SumRemove`,
`SumMonotone`, `SumDisjoint`). The proofs below that speak of a loop, a sum or a
filtered queue rest on it.

**DuelProofs**, first part (`DuelTyped`, `DuelConservesFunds`,
`DuelEscrowAllOrNothing`). The inductive invariant is `MoneyInv`: types, `PhaseOK`,
`FundsConserved`, `EscrowAllOrNothing`. Conservation is not inductive alone: that a
pay-out adds up needs that the pot is what was staked, and that the two players
differ (a payment to one must not overwrite the other's), which `PhaseOK` gives.
Every exit goes through one lemma (`ClosePreservesMoney`): a split whose parts sum
to the pot keeps the invariant.

Second part (`DuelPotEarned`, `DuelNeverEndsEarly`, `DuelLoserCannotDodge`,
`DuelNoReplay`, `DuelImplementsEscrow`, `DuelImplementsLifecycle`). `RuleInv` adds
that slots and counters agree, that the settled counter counts the settled cards,
and that nobody has had a turn before the deck was revealed. Three lemmas say how
a duel can end: from pending only back to its creator (`PendingEnds`), from active
only by score, after the window, or after a timeout (`ActiveEnds`), and a closed
one stays as it is (`ClosedStays`). Each rule and both refinements are read off
these three.

Third part (`DuelRecordsAgree`, `DuelRecordIsAppendOnly`). `ScoreInv` adds
`ScoreBacked`: a seat's total is no more than the sum of what it bet on the settled
cards. A settlement takes one card into that sum and adds at most its bet to the
total (`SumAdd`); a swipe changes a bet of a card that is not in it; the test
finalize settles several at once, and its sum is over a set disjoint from what was
settled (`SumDisjoint`).

**SwapProofs** (`PoolTyped`, `PoolIsBacked`, `PoolNeverDiluted`). The last says
that `x * y / lp^2` never falls, written without division; `SharesBacked`
follows by induction from the first deposit, where the root rounds down.
Everything rests on `FloorDiv` and on one lemma each for a sale, a deposit and
a withdrawal. `PoolRoot` is about the loop of the square root: it ends for every
product, because each guess it goes on with is smaller than the last
(`RecursionExists` over the guess), it never passes below the root
(`BetterBrackets`), and where it stops the guess is the root (`NewtonFindsRoot`).

**KeeperProofs** (`KeeperTyped`, `KeeperFinalizedIsComplete`,
`KeeperRevealedIsRevealed`, `KeeperLastBatchCloses`). The invariant adds
`AwaitedMakesSense` (while a transaction is awaited the duel is active or
complete, since a pending one aborts with the same code) and
`EmptyBeforeCreate`. For the last theorem, `BatchFromCopy`: what the keeper
read as settled is still settled, and its transaction finalizes exactly when
its copy and the batch are the deck. The chain enters only through
`ChainMoveKeeps`: decks do not shrink, complete stays complete, revealed stays
revealed.

**IndexerProofs** (`IndexerTyped`, `WinnerNeverLost`, `OutcomesAreKept`,
`MirrorImplemented`, `ResultsRatedOnce`). The invariant says of every list of the tick what it is:
a page ends within the log (`PageTyped`), a row and the copy about to be written
are between the old row and the chain (`Copied`, `JobAhead`), a result in memory
belongs to a duel that has it (`FinalizedDue`), and a rated duel shows its
winner or is one whose write failed (`RatingShown`). The refinement needs that
between the read of a duel and the write of its copy nobody else writes the
row, which holds because the loop is one. `RatedOnce` has an invariant of its own
(`OnceInv`): a duel is in the log of results once; what is in the list of the
tick was read from below the cursor, or from the page whose cursor is about to be
saved, and is there once; a duel that is rated has left the list, or is the head
of it between the two writes. And a second one (`LateInv`): a result in the list
that has no players, or the zero address, is explained by what is recorded of the
read (`ListExplained`), the zero address was rated only for late ones (`ZeroIsLate`),
and a duel below the cursor is rated, still in the list, lost or late
(`ReadIsRated`); with the list empty between ticks (`ListEmpty`) that is the last
part of `RatedOnce`. The run has one duel; the proof is for any number,
and found what the run could not: a crash between the two writes of a result that
was read twice leaves one of its players with one result more.

**MatchmakingProofs** (`TablesAlwaysAgree`, `RoomsAlwaysMatch`,
`ForfeitOfLastTab`). The tables the properties speak of form an inductive
invariant of their own: types of the sockets', rooms' and pairings' tables,
and the four agreements. Queues and calls in flight do not enter.

On top of it, the queues (`MatchmakingTypes`, `OnlySearchersQueued`,
`DeckFailureKeepsPlayers`, `RetryOfWaiting`). The invariant is that one and `TypeOK`:
a socket with an address is connected, a socket with a tier is, too, so what a
resumed call reads of its socket tells whether it is still there. The lemmas say
what the queue's operators return: removing the first of an element, splicing at
an index that may be absent, the snapshot of a bucket (a recursion over the
queue, `SnapshotType`), the first candidate under an address. `QueuesTyped` is what
every step does to the queues, proved once; for the two requeues of a failed deck
it is an invariant of the state handed from one to the next (`Requeued`). That a
retry or a failed deck means what it says needs that only its own steps change a
call that is not idle (`CallChanges`).

Then the decks, for all inputs; the theorems about a waiting match are instances.

* `DeckFairAtAnySize` (`ShufflesAreFair`). The shuffle of `n` is a chain of
  stages, each the exchange of two places, so every stage is undone by its own
  inverse: draws and orders correspond one to one. A place is drawn by as many
  accepted bytes as there are whole rounds of `n` in 256 (`ByteParts`). Which
  place gets a far strike depends on the order only, and a fixed exchange maps the
  orders that give it to one place on those that give it to another. The leans
  are a sum that is split by place and put together with `SumAdd`.
* `DeckCardsDiffer` (`DecksCardsDiffer`). Consecutive rungs of a ladder are at least
  one cell of the market's grid apart, so after rounding all five are different
  strikes; at most four cards were dealt before, so a free rung exists, and
  `placed` takes it. It is assumed of the inputs (`Dealable`) that admission
  sizes are whole ticks, that a deck has five cards at most, and that the grid is
  fine enough for its ladder: for zones an admission cell is no more than 2 bps of
  the price, for quoted strikes there are ten cells below the strike. Without
  that, rungs fall together (the note on `deckmaster.ts:817` in section 4).
* `DeckSourceRight` (`MatchSourceKept`). The admitted markets are some of those read,
  in their order (`MintableWithin`, by recursion over the list), so a deck cut
  from them has different markets in the order they settle if the selection had
  (`DeckOfTry`); the first try that fails or suffices decides, however many there
  are (`FirstDecides`).
* `SelectionIsRight` (`MarketsAlwaysPicked`). A sort is written by ranks
  (`InOrder`): as many members are ahead of one as its place says. Ranks of a
  finite set in a strict order are different numbers, so they are all the places
  (`InOrderIs`), and a front of them leaves out only what is behind (`FirstFew`).
  Rows of one market count once, so a set of first rows has as many markets as
  places (`RowsAtAre`). It is assumed (`Asked`) that floors are positive and the
  headroom is not negative, as every configuration has them (`env.ts`).
  `SelectionFeedsTries` joins the two: what the selections return is what
  `DeckSourceRight` assumes of a try.

**ActiveDuelProofs** (`PageNeverAhead`). That the page is not ahead, but for the
lock-in on a hidden row, is not inductive: a swipe's answer advances the card, so
the swipe must have been for the card on screen, and there must be only one such
answer still to come. The invariant says that rows anywhere are older copies
(`RowsOld`), so as many swipes as a revealed row has cards are on the chain; that
entry transactions are outstanding only before the game is on screen (`EntryAlone`,
`OffDuel`), swipes only while it is (`SwipesShown`), and that of the swipes that
landed at most one is still to be answered, for the card on screen
(`LandedAlone`). A card swiped by hand and by the deadline at once lands once,
because the contract takes each card once.

`PageTypes` is the type invariant, of which one part is an argument of its own: a
page's duels are at most one more than its faults. `Counted` says that whoever owes
a create (the effect is about to sign it, or it is on its way or was refused) has
a fault left to pay for it (`Owed`), that there is one create at a time, and that
only a creator signs them: a refused or unanswered create costs a fault, and a
reload or an exit does not come back to the screen that signs them.

**PracticeProofs** (`BotPicksHidden`, `VerdictIsEarned`). What carries the
argument is what the committed phase says of the one set last
(`PhasesFollow`), and that time does not pass over a card that is ready to
settle (`FeedSilent`).

**Only model-checked**: every liveness property (`PairingsEnd`, `EventuallyDone`,
`EventuallyIndexed`, `EventuallyMovesOn`, `EventuallyOver`), since fairness is out of
the prover's reach. Every other property of a passing run is a theorem. The type
invariants of `Duel`, `Keeper`, `Swap` and `Indexer` are theorems
(`DuelTyped`, `KeeperTyped`, `PoolTyped`, `IndexerTyped`) and are not run again.

## 6. Not modelled

* Within the models: wording of events and logs, rendering; hash collisions (a
  deck and its hash are one value); gas, object versions and the ordering of
  shared objects (the chain takes one transaction at a time); the prediction
  market (a position exists or not, a market is settled or not, prices are
  arbitrary numbers); the rating formula (floating point); a second
  `match_found` on an open page.
* The free tier in `Lifecycle` and `Keeper`; `Duel` has both tiers.
* Rate limiter: one table touched by one synchronous function and a timer. It
  protects a budget and no modelled part depends on it.
* Prize pool: one object that is created, distributed once and emptied by the
  holder of one capability, while anybody may only add to it.
* In deck making: the probability model (floating point), the hash of the deck,
  the stored decks (a key-value table), the construction of the probe
  transaction. `Matchmaking` and `Keeper` take a deck's success or failure as a
  choice.
* Market readers: cached reads of other services.
* Sponsor, chat, price stream, match clock, HTTP APIs, start-up: validation of
  one request, single-row updates, periodic broadcasts.
* The rest of the web client and the playground: routing, wallets, lists,
  animation. Their transactions are the players' actions of `Duel`.
* The stubs of external packages, scripts and documentation.

## 7. What is left

In this order: the free tier in `Lifecycle` and `Keeper`;
`RateLimit` (an allowance is never exceeded over any interval, idle buckets go);
`PrizePool` (what is paid was deposited, once); two pages and one `Matchmaking`
composed, so that the pairing `ActiveDuel` sees is the one the server keeps.
