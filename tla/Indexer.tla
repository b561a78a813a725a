------------------------------ MODULE Indexer ------------------------------
(***************************************************************************)
(* The event indexer (indexer.ts): one loop that reads the chain's events  *)
(* through a cursor per tracker, copies every duel they touch into the     *)
(* database mirror, and then rates the players of the finished ones.  The  *)
(* cursors, the mirror and the ratings are rows of the database; the lists *)
(* of a tick live in memory and are gone after a crash.                    *)
(*                                                                         *)
(* DeckRevealed, SwipeRecorded and CardSettled only mark the duel as       *)
(* touched and are one tracker here (DuelProgress), and so are DuelRefunded*)
(* and DuelForfeited (DuelClosed).  OrderMinted is seeded and drained as   *)
(* MarketSettled is, MarketCreated is drained but not seeded; they feed    *)
(* tables of their own that no duel is copied from, and are left out.      *)
(***************************************************************************)
EXTENDS Integers, Sequences, SequencesExt, FiniteSets

CONSTANTS
  Duels,
  Markets,          \* expiry markets of the cards, the same deck in each duel
  Winners,          \* results of a finalized duel
  PageSize,         \* events per page
  MaxPages,         \* pages per tracker and tick
  MaxFaults         \* bound on failed calls and crashes

ASSUME IndexerAssumption ==
  /\ IsFiniteSet(Duels) /\ IsFiniteSet(Markets)
  /\ Winners \subseteq {"p0", "p1", "tie"}
  /\ PageSize \in Nat \ {0} /\ MaxPages \in Nat \ {0} /\ MaxFaults \in Nat

VARIABLES
  chain,            \* chain[d]: how far the duel is, its deck, how it ended
  log,              \* log[t]: the events of tracker t, in order
  cursor,           \* event_cursor: events of t already read
  mirror,           \* the duel table
  settlements,      \* the market_settlements table
  rated,            \* rated[d]: how often each side was given its result
  pc, at, pages,    \* where the loop is: step, tracker, pages read of it
  page,             \* the page whose cursor is not saved yet
  touched,          \* duels to refresh in this tick
  finalized,        \* results to rate in this tick
  job,              \* the copy of a duel about to be written
  slips,            \* history: what the indexer skipped or repeated, and why
  faults

dbVars == <<cursor, mirror, settlements, rated>>
tickVars == <<pc, at, pages, page, touched, finalized, job>>
vars == <<chain, log, dbVars, tickVars, slips, faults>>

Trackers == <<"DuelCreated", "DuelJoined", "DuelProgress", "DuelFinalized",
              "DuelClosed", "MarketSettled">>
TrackerNames == ToSet(Trackers)

NoCursor == -1
NoRow == [stage |-> 0, outcomes |-> {}, winner |-> "none"]
NoPage == [upto |-> 0, more |-> FALSE]
NoJob == [duel |-> "none", stage |-> 0, outcomes |-> {}, failed |-> 0]

\* STATUS_MAP: a duel is not there, pending, active, active with its deck
\* revealed, complete.
Absent == 0
Pending == 1
Active == 2
Revealed == 3
Complete == 4

Init ==
  /\ chain = [d \in Duels |-> [stage |-> Absent, deck |-> FALSE, end |-> "open"]]
  /\ log = [t \in TrackerNames |-> <<>>]
  /\ cursor = [t \in TrackerNames |-> NoCursor]
  /\ mirror = [d \in Duels |-> NoRow] /\ settlements = {}
  /\ rated = [d \in Duels |-> [p0 |-> 0, p1 |-> 0, zero |-> 0]]
  /\ pc = "down" /\ at = 1 /\ pages = 0 /\ page = NoPage
  /\ touched = {} /\ finalized = <<>> /\ job = NoJob
  /\ slips = [missed |-> {}, lost |-> {}, late |-> {}, again |-> {}, unwritten |-> {}]
  /\ faults = 0

-----------------------------------------------------------------------------
(* The chain: what it emits and what getObject returns. *)

Emit(t, x) == log' = [log EXCEPT ![t] = Append(@, x)]
Goes(d, stage) == chain' = [chain EXCEPT ![d].stage = stage]

Created(d) == chain[d].stage = Absent /\ Goes(d, Pending) /\ Emit("DuelCreated", d)
Joined(d) == chain[d].stage = Pending /\ Goes(d, Active) /\ Emit("DuelJoined", d)

Progressed(d) ==
  /\ chain[d].stage = Active
  /\ chain' = [chain EXCEPT ![d] = [stage |-> Revealed, deck |-> TRUE, end |-> @.end]]
  /\ Emit("DuelProgress", d)

Ended(d, stages, end, t) ==
  /\ chain[d].stage \in stages
  /\ chain' = [chain EXCEPT ![d] = [stage |-> Complete, deck |-> @.deck, end |-> end]]
  /\ Emit(t, d)

MarketSettled(m) ==
  /\ m \notin ToSet(log["MarketSettled"])
  /\ Emit("MarketSettled", m) /\ UNCHANGED chain

ChainStep ==
  /\ \/ \E d \in Duels :
          \/ Created(d) \/ Joined(d) \/ Progressed(d)
          \/ \E w \in Winners : Ended(d, {Active, Revealed}, w, "DuelFinalized")
          \/ Ended(d, {Pending, Active, Revealed}, "closed", "DuelClosed")
     \/ \E m \in Markets : MarketSettled(m)
  /\ UNCHANGED <<dbVars, tickVars, slips, faults>>

-----------------------------------------------------------------------------
(* start, seedCursor. *)

Fault == faults < MaxFaults /\ faults' = faults + 1
NoFault == UNCHANGED faults
Slip(kind, ds) == slips' = [slips EXCEPT ![kind] = @ \cup ds]
Position(t) == IF cursor[t] = NoCursor THEN 0 ELSE cursor[t]

start ==
  /\ pc = "down" /\ pc' = "seed" /\ at' = 1
  /\ UNCHANGED <<chain, log, dbVars, pages, page, touched, finalized, job,
                 slips, faults>>

SeedNext == IF at = Len(Trackers) THEN pc' = "idle" /\ at' = 1
                                  ELSE pc' = pc /\ at' = at + 1

\* A tracker without a cursor starts at the newest event, if there is one;
\* what came before it is never read.
Seeded(t) ==
  /\ cursor[t] = NoCursor /\ log[t] # <<>>
  /\ cursor' = [cursor EXCEPT ![t] = Len(log[t])]
  /\ slips' = [slips EXCEPT
       !.missed = @ \cup (ToSet(log[t]) \cap Duels),
       !.lost = IF t = "DuelFinalized" THEN @ \cup ToSet(log[t]) ELSE @]

\* Only a failure of the query or of the save is caught.
seedCursor ==
  /\ pc = "seed" /\ SeedNext
  /\ \/ Seeded(Trackers[at]) /\ NoFault
     \/ /\ cursor[Trackers[at]] # NoCursor \/ log[Trackers[at]] = <<>>
        /\ NoFault /\ UNCHANGED <<cursor, slips>>
     \/ cursor[Trackers[at]] = NoCursor /\ Fault /\ UNCHANGED <<cursor, slips>>
  /\ UNCHANGED <<chain, log, mirror, settlements, rated, pages, page, touched,
                 finalized, job>>

\* A cursor that cannot be loaded ends start, and no loop runs in this process.
startFails ==
  /\ pc = "seed" /\ Fault /\ pc' = "stalled"
  /\ UNCHANGED <<chain, log, dbVars, at, pages, page, touched, finalized, job, slips>>

-----------------------------------------------------------------------------
(* drainTracker, drainEvents: one page is read and worked on, then its     *)
(* cursor is saved.                                                        *)

tick ==
  /\ pc = "idle" /\ pc' = "drain" /\ at' = 1 /\ pages' = 0
  /\ UNCHANGED <<chain, log, dbVars, page, touched, finalized, job, slips, faults>>

NextTracker ==
  /\ pages' = 0
  /\ IF at = Len(Trackers) THEN pc' = "refresh" /\ at' = 1
                           ELSE pc' = "drain" /\ at' = at + 1

Nothing == Position(Trackers[at]) = Len(log[Trackers[at]])

TrackerDone ==
  /\ pc = "drain" /\ NextTracker
  /\ \/ Nothing /\ NoFault
     \/ Fault                                           \* the query failed
  /\ UNCHANGED <<chain, log, dbVars, page, touched, finalized, job, slips>>

PageEnd(t) == LET to == Position(t) + PageSize IN
              IF to < Len(log[t]) THEN to ELSE Len(log[t])
PageOf(t, to) == SubSeq(log[t], Position(t) + 1, to)

\* The result as DuelFinalized's handler gathers it: the players come from
\* the mirror, which knows no challenger (the zero address) while pending.
Challenger(row) == IF row.stage = Absent THEN "none"
                   ELSE IF row.stage = Pending THEN "zero" ELSE "p1"
Result(d, row) == [duel |-> d, p1 |-> Challenger(row)]
Results(ds, rows) == [i \in DOMAIN ds |-> Result(ds[i], rows[ds[i]])]

\* The rows as the handler reads them; a read that fails counts as no row.
RowsRead(failed) == [d \in Duels |-> IF d \in failed THEN NoRow ELSE mirror[d]]

\* The duels whose row does not know both players yet: the mirror is as the tick
\* before left it, or a tick that was still under way.
Unready(ds) == {d \in ds : mirror[d].stage < Active}

gatherResults(ds) ==
  \E failed \in SUBSET ToSet(ds) :
    /\ finalized' = finalized \o Results(ds, RowsRead(failed))
    /\ IF failed = {} THEN NoFault ELSE Fault
    /\ slips' = [slips EXCEPT !.lost = @ \cup failed,
                             !.late = @ \cup Unready(ToSet(ds) \ failed)]

drainTracker ==
  /\ pc = "drain" /\ ~Nothing
  /\ pc' = "save" /\ UNCHANGED <<at, pages>>
  /\ LET t == Trackers[at]
         ds == PageOf(t, PageEnd(t))
     IN  /\ page' = [upto |-> PageEnd(t), more |-> PageEnd(t) < Len(log[t])]
         /\ IF t = "MarketSettled"
            THEN /\ \/ settlements' = settlements \cup ToSet(ds) /\ NoFault
                    \/ UNCHANGED settlements /\ Fault     \* only logged
                 /\ UNCHANGED <<touched, finalized, slips>>
            ELSE /\ touched' = touched \cup ToSet(ds)
                 /\ IF t = "DuelFinalized" THEN gatherResults(ds)
                    ELSE NoFault /\ UNCHANGED <<finalized, slips>>
                 /\ UNCHANGED settlements
  /\ UNCHANGED <<chain, log, cursor, mirror, rated, job>>

\* Mutant: the cursor only moves in memory.
cursorNotSaved ==
  /\ pc = "save" /\ NextTracker /\ page' = NoPage
  /\ UNCHANGED <<chain, log, dbVars, touched, finalized, job, slips, faults>>

saveCursor ==
  /\ pc = "save"
  /\ cursor' = [cursor EXCEPT ![Trackers[at]] = page.upto]
  /\ IF page.more /\ pages + 1 < MaxPages
     THEN pc' = "drain" /\ pages' = pages + 1 /\ UNCHANGED at
     ELSE NextTracker
  /\ page' = NoPage
  /\ UNCHANGED <<chain, log, mirror, settlements, rated, touched, finalized,
                 job, slips, faults>>

\* The tracker is given up for this tick, the page it read stays in the lists.
saveCursorFails ==
  /\ pc = "save" /\ Fault
  /\ NextTracker /\ page' = NoPage
  /\ IF Trackers[at] = "DuelFinalized"
     THEN Slip("again", ToSet(PageOf("DuelFinalized", page.upto)))
     ELSE UNCHANGED slips
  /\ UNCHANGED <<chain, log, dbVars, touched, finalized, job>>

-----------------------------------------------------------------------------
(* refreshDuel: fetchDuel reads the duel, then the settlements of its      *)
(* markets one by one; upsertDuel writes the copy some time later.         *)

Deck(d) == IF chain[d].deck THEN Markets ELSE {}

Settled(d) == Deck(d) \cap settlements
\* Mutant: a status STATUS_MAP does not know is taken for PENDING.
StageUnknown(d) == IF chain[d].stage = Complete THEN Pending ELSE chain[d].stage

StageRead(d) == chain[d].stage

\* A complete duel without a single outcome keeps those of its row, if that
\* can be read.
FallsBack(d, read) == read = {} /\ chain[d].stage = Complete
\* Mutant: no fallback to the row.
OutcomesFresh(d, read) == read

OutcomesKept(d, read) ==
  IF FallsBack(d, read) THEN mirror[d].outcomes ELSE read

fetchDuel(d) ==
  /\ pc = "refresh" /\ d \in touched
  /\ touched' = touched \ {d} /\ pc' = "upsert"
  /\ \E read \in SUBSET Settled(d), rowLost \in BOOLEAN :
       LET failed == (IF read = Settled(d) THEN 0 ELSE 1)
                     + (IF rowLost THEN 1 ELSE 0)
       IN  /\ rowLost => FallsBack(d, read)
           /\ faults + failed <= MaxFaults /\ faults' = faults + failed
           /\ job' = [duel |-> d, stage |-> StageRead(d),
                      outcomes |-> IF rowLost THEN {} ELSE OutcomesKept(d, read),
                      failed |-> failed]
  /\ UNCHANGED <<chain, log, dbVars, at, pages, page, finalized, slips>>

\* Mutant: the upsert writes the winner column too.
WrittenWhole(d) == [stage |-> job.stage, outcomes |-> job.outcomes, winner |-> "none"]

\* The whole row but its winner.
Written(d) == [stage |-> job.stage, outcomes |-> job.outcomes, winner |-> mirror[d].winner]

upsertDuel ==
  /\ pc = "upsert" /\ pc' = "refresh" /\ job' = NoJob
  /\ mirror' = [mirror EXCEPT ![job.duel] = Written(job.duel)]
  /\ slips' = [slips EXCEPT !.missed = @ \ {job.duel}]
  /\ UNCHANGED <<chain, log, cursor, settlements, rated, at, pages, page,
                 touched, finalized, faults>>

\* getObject or the write failed: logged, and not tried again.
refreshFails ==
  /\ Fault /\ pc' = "refresh" /\ job' = NoJob
  /\ \/ /\ pc = "upsert" /\ Slip("missed", {job.duel}) /\ UNCHANGED touched
     \/ /\ pc = "refresh"
        /\ \E d \in touched : touched' = touched \ {d} /\ Slip("missed", {d})
  /\ UNCHANGED <<chain, log, dbVars, at, pages, page, finalized>>

\* Mutant: the refreshes are not waited for and end with the tick.
RefreshesDropped ==
  /\ pc = "refresh" /\ pc' = "rate" /\ touched' = {}
  /\ UNCHANGED <<chain, log, dbVars, at, pages, page, finalized, job, slips, faults>>

AllRefreshed ==
  /\ pc = "refresh" /\ touched = {} /\ pc' = "rate"
  /\ UNCHANGED <<chain, log, dbVars, at, pages, page, touched, finalized, job,
                 slips, faults>>

-----------------------------------------------------------------------------
(* The results of the tick, in order: setDuelWinner, then applyDuelOutcome *)
(* with one write per player.                                              *)

Rated == Head(finalized)

RateNext == pc' = "rate" /\ finalized' = Tail(finalized)

\* No players: neither the winner nor the ratings are written.
SkipResult ==
  /\ pc = "rate" /\ finalized # <<>> /\ Rated.p1 = "none"
  /\ RateNext
  /\ UNCHANGED <<chain, log, dbVars, at, pages, page, touched, job, slips, faults>>

\* An UPDATE: it writes nothing where there is no row; an error is only logged.
setDuelWinner ==
  /\ pc = "rate" /\ finalized # <<>> /\ Rated.p1 # "none" /\ pc' = "rateP0"
  /\ \/ /\ mirror' = [mirror EXCEPT ![Rated.duel].winner =
                        IF mirror[Rated.duel].stage = Absent THEN @
                        ELSE chain[Rated.duel].end]
        /\ NoFault /\ UNCHANGED slips
     \/ Fault /\ Slip("unwritten", {Rated.duel}) /\ UNCHANGED mirror
  /\ UNCHANGED <<chain, log, cursor, settlements, rated, at, pages, page,
                 touched, finalized, job>>

Credit(seat) == rated' = [rated EXCEPT ![Rated.duel][seat] = @ + 1]

applyDuelOutcome ==
  /\ \/ pc = "rateP0" /\ Credit("p0") /\ pc' = "rateP1" /\ UNCHANGED finalized
     \/ pc = "rateP1" /\ Credit(Rated.p1) /\ RateNext
  /\ UNCHANGED <<chain, log, cursor, mirror, settlements, at, pages, page,
                 touched, job, slips, faults>>

ratingFails ==
  /\ pc \in {"rateP0", "rateP1"} /\ Fault
  /\ RateNext /\ Slip("lost", {Rated.duel})
  /\ UNCHANGED <<chain, log, dbVars, at, pages, page, touched, job>>

TickDone ==
  /\ pc = "rate" /\ finalized = <<>> /\ pc' = "idle"
  /\ UNCHANGED <<chain, log, dbVars, at, pages, page, touched, finalized, job,
                 slips, faults>>

-----------------------------------------------------------------------------
(* A crash empties the memory.  What was read from pages whose cursor is   *)
(* saved will not be read again, and a result between its two writes stays *)
(* with one of them.  A process whose start failed is restarted, at best.  *)

Remembered == {finalized[i].duel : i \in DOMAIN finalized}
Read(t) == ToSet(SubSeq(log[t], 1, Position(t)))
HalfRated == IF pc = "rateP1" THEN {Rated.duel} ELSE {}

Crash ==
  /\ pc # "down" /\ (IF pc = "stalled" THEN NoFault ELSE Fault)
  /\ pc' = "down" /\ at' = 1 /\ pages' = 0 /\ page' = NoPage
  /\ touched' = {} /\ finalized' = <<>> /\ job' = NoJob
  /\ slips' = [slips EXCEPT
       !.lost = @ \cup (Remembered \cap Read("DuelFinalized")) \cup HalfRated,
       !.missed = @ \cup touched \cup ({job.duel} \cap Duels)]
  /\ UNCHANGED <<chain, log, dbVars>>

-----------------------------------------------------------------------------
Loop ==
  \/ start \/ seedCursor \/ startFails \/ tick \/ TrackerDone \/ drainTracker
  \/ saveCursor \/ saveCursorFails
  \/ (\E d \in Duels : fetchDuel(d)) \/ upsertDuel \/ refreshFails \/ AllRefreshed
  \/ SkipResult \/ setDuelWinner \/ applyDuelOutcome \/ ratingFails \/ TickDone

Next == ChainStep \/ Loop \/ Crash

Spec == Init /\ [][Next]_vars

\* The loop runs as long as the process does, and a crashed one is restarted.
FairSpec == Spec /\ WF_vars(Loop)

-----------------------------------------------------------------------------
TypeOK ==
  /\ \A d \in Duels :
       /\ chain[d].stage \in 0 .. 4 /\ chain[d].deck \in BOOLEAN
       /\ chain[d].end \in Winners \cup {"open", "closed"}
       /\ mirror[d].stage \in 0 .. 4 /\ mirror[d].outcomes \subseteq Markets
       /\ mirror[d].winner \in Winners \cup {"none"}
  /\ \A t \in TrackerNames : cursor[t] \in NoCursor .. Len(log[t])
  /\ settlements \subseteq Markets /\ touched \subseteq Duels
  /\ at \in 1 .. Len(Trackers) /\ pages \in 0 .. MaxPages
  /\ faults \in 0 .. MaxFaults

\* Each finalized duel counts once for its challenger and once for its creator:
\* in the rating of nobody before it is finalized, once unless its page's cursor
\* could not be saved (again), and, when the tick that read it is over, for both.
\* A failure, a crash or the seeding of a cursor may leave it at none or one of
\* them (lost).  Without any of these, so may a result that was read while its row
\* did not know both players yet (late, indexer.ts:633), and only then does the
\* zero address get the challenger's rating; that is RatesBoth's finding.
RatedOnce ==
  \A d \in Duels : LET r == rated[d] IN
    /\ r.p0 > 0 => chain[d].end \in Winners
    /\ d \notin slips.again => r.p0 <= 1
    /\ r.p1 + r.zero <= r.p0
    /\ r.zero > 0 => d \in slips.late
    /\ (pc = "idle" /\ d \notin slips.lost \cup slips.late)
         => r.p1 = r.p0 /\ (d \in Read("DuelFinalized") => r.p0 > 0)

\* mmr.ts:6-8: once the indexer has seen a DuelFinalized, both players are rated,
\* but for failures, crashes and the seeding of cursors.
RatesBoth ==
  \A d \in Duels :
    (pc = "idle" /\ d \in Read("DuelFinalized") /\ d \notin slips.lost)
      => rated[d].p0 > 0 /\ rated[d].p1 > 0

\* The row of a rated duel shows the result the chain gave it, and no later
\* refresh of the row takes it away (unless the write itself failed).
WinnerStays ==
  \A d \in Duels :
    /\ mirror[d].winner # "none" => mirror[d].winner = chain[d].end
    /\ (rated[d].p0 > 0 /\ d \notin slips.unwritten)
         => mirror[d].winner = chain[d].end

\* A refresh takes no outcome away from a row unless one of its reads failed,
\* and it blanks a finished duel only if two of them did: the settlements and
\* then the row it falls back to.
OutcomesStay ==
  [][\A d \in Duels :
       /\ mirror[d].outcomes \subseteq mirror'[d].outcomes \/ job.failed > 0
       /\ (/\ mirror[d].stage = Complete /\ mirror[d].outcomes # {}
           /\ mirror'[d].outcomes = {})
            => job.failed > 1]_vars

\* A finished duel is eventually complete in the mirror, unless a failure, a
\* crash or the seeding of a cursor skipped it; and a decided one is rated, unless
\* one of these skipped it or its result was read too early (late, as above).  A
\* process whose start failed does neither until it is restarted.
EventuallyIndexed ==
  \A d \in Duels :
    /\ (chain[d].stage = Complete)
         ~> (mirror[d].stage = Complete \/ d \in slips.missed \/ pc = "stalled")
    /\ (chain[d].end \in Winners)
         ~> (rated[d].p0 > 0 \/ d \in slips.lost \cup slips.late \/ pc = "stalled")

\* The mirror's rows are copies of the duel that only become newer.
MirrorSpec == INSTANCE Mirror WITH Ids <- Duels,
                ver <- [d \in Duels |-> chain[d].stage],
                row <- [d \in Duels |-> mirror[d].stage]
ImplementsMirror == MirrorSpec!Spec
=============================================================================
