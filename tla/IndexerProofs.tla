---------------------------- MODULE IndexerProofs ----------------------------
(***************************************************************************)
(* The indexer implements the mirror's promise, for any number of duels,   *)
(* markets, pages and faults: a row only moves towards the chain, its      *)
(* outcomes and its winner are not taken away, and a result is rated once, *)
(* but for the exceptions RatedOnce names.  The argument: nothing on the   *)
(* chain is undone, between the read of a duel and the write of its copy   *)
(* nobody else writes the row, a duel is in the log of results once and is *)
(* read from it once, and what was read of its players is explained by     *)
(* what is recorded of the read.                                           *)
(***************************************************************************)
EXTENDS Indexer, TLAPS

USE IndexerAssumption

LEMMA Names ==
  /\ Len(Trackers) = 6
  /\ TrackerNames = {"DuelCreated", "DuelJoined", "DuelProgress", "DuelFinalized",
                     "DuelClosed", "MarketSettled"}
  /\ \A i \in 1 .. 6 : Trackers[i] \in TrackerNames
  <1>1. Len(Trackers) = 6 /\ DOMAIN Trackers = 1 .. 6 BY DEF Trackers
  <1>2. /\ Trackers[1] = "DuelCreated" /\ Trackers[2] = "DuelJoined"
        /\ Trackers[3] = "DuelProgress" /\ Trackers[4] = "DuelFinalized"
        /\ Trackers[5] = "DuelClosed" /\ Trackers[6] = "MarketSettled"
    BY DEF Trackers
  <1>3. \A i \in 1 .. 6 : i = 1 \/ i = 2 \/ i = 3 \/ i = 4 \/ i = 5 \/ i = 6
    OBVIOUS
  <1>4. TrackerNames = {Trackers[i] : i \in 1 .. 6}
    BY <1>1 DEF TrackerNames, ToSet
  <1>q. QED BY <1>1, <1>2, <1>3, <1>4

Subjects(t) == IF t = "MarketSettled" THEN Markets ELSE Duels
Ends == Winners \cup {"open", "closed"}

ChainTyped ==
  /\ chain \in [Duels -> [stage : 0 .. 4, deck : BOOLEAN, end : Ends]]
  /\ \A d \in Duels : chain[d].end \in Winners => chain[d].stage = Complete

LogTyped ==
  /\ DOMAIN log = TrackerNames
  /\ \A t \in TrackerNames : log[t] \in Seq(Subjects(t))
  /\ \A i \in 1 .. Len(log["DuelFinalized"]) :
       chain[log["DuelFinalized"][i]].end \in Winners

CursorTyped ==
  /\ DOMAIN cursor = TrackerNames
  /\ \A t \in TrackerNames : cursor[t] \in -1 .. Len(log[t])

PageTyped ==
  /\ at \in 1 .. 6 /\ pages \in 0 .. MaxPages /\ faults \in 0 .. MaxFaults
  /\ pc = "save" => page.upto \in 0 .. Len(log[Trackers[at]])

MirrorTyped ==
  /\ mirror \in [Duels -> [stage : 0 .. 4, outcomes : SUBSET Markets,
                           winner : Winners \cup {"none"}]]
  /\ settlements \subseteq Markets /\ touched \subseteq Duels

\* A row is behind the chain, and so is a copy on its way, which in turn is
\* ahead of the row it will replace.
Copied ==
  \A d \in Duels : mirror[d].stage <= chain[d].stage /\ mirror[d].outcomes \subseteq Settled(d)

JobAhead ==
  pc = "upsert" =>
    /\ job.duel \in Duels /\ job.stage \in mirror[job.duel].stage .. chain[job.duel].stage
    /\ job.outcomes \subseteq Settled(job.duel)
    /\ mirror[job.duel].outcomes \subseteq job.outcomes \/ job.failed > 0
    /\ (/\ mirror[job.duel].stage = Complete /\ mirror[job.duel].outcomes # {}
        /\ job.outcomes = {}) => job.failed > 1

\* What is to be rated was decided, and has a row if it has players.
Due(r) ==
  /\ r \in [duel : Duels, p1 : {"none", "zero", "p1"}]
  /\ chain[r.duel].end \in Winners
  /\ r.p1 # "none" => mirror[r.duel].stage # Absent
FinalizedDue ==
  finalized \in Seq([duel : Duels, p1 : {"none", "zero", "p1"}])
  /\ \A i \in 1 .. Len(finalized) : Due(finalized[i])

Shown(d) == mirror[d].winner = chain[d].end \/ d \in slips.unwritten
RatingShown ==
  /\ "unwritten" \in DOMAIN slips
  /\ rated \in [Duels -> [p0 : Nat, p1 : Nat, zero : Nat]]
  /\ pc \in {"rateP0", "rateP1"} =>
       finalized # <<>> /\ Rated.p1 # "none" /\ Shown(Rated.duel)
  /\ \A d \in Duels : mirror[d].winner # "none" => mirror[d].winner = chain[d].end
  /\ \A d \in Duels : rated[d].p0 > 0 => Shown(d) /\ chain[d].end \in Winners

IInv ==
  /\ ChainTyped /\ LogTyped /\ CursorTyped /\ PageTyped /\ MirrorTyped
  /\ Copied /\ JobAhead /\ FinalizedDue /\ RatingShown

LEMMA InitIInv == Init => IInv
  <1> SUFFICES ASSUME Init PROVE IInv OBVIOUS
  <1>1. ChainTyped /\ LogTyped
    BY Names DEF Init, ChainTyped, LogTyped, Ends, Absent, Complete, Subjects
  <1>2. CursorTyped /\ PageTyped
    BY Names DEF Init, CursorTyped, PageTyped, NoCursor
  <1>3. MirrorTyped /\ Copied /\ JobAhead
    BY DEF Init, MirrorTyped, Copied, JobAhead, NoRow, Absent
  <1>4. FinalizedDue /\ RatingShown
    BY DEF Init, FinalizedDue, RatingShown, NoRow
  <1>q. QED BY <1>1, <1>2, <1>3, <1>4 DEF IInv

-----------------------------------------------------------------------------
(* The chain only moves on, and nothing else moves it. *)

ChainGrows ==
  /\ \A d \in Duels :
       /\ chain[d].stage <= chain'[d].stage
       /\ chain[d].deck => chain'[d].deck
       /\ chain[d].end \in Winners => chain'[d].end = chain[d].end
  /\ \A t \in TrackerNames : Len(log[t]) <= Len(log'[t])

LEMMA Emitted ==
  ASSUME LogTyped, NEW t \in TrackerNames, NEW x \in Subjects(t), Emit(t, x)
  PROVE  /\ DOMAIN log' = TrackerNames
         /\ \A u \in TrackerNames :
              log'[u] \in Seq(Subjects(u)) /\ Len(log[u]) <= Len(log'[u])
         /\ \A u \in TrackerNames \ {t} : log'[u] = log[u]
         /\ log'[t] = Append(log[t], x)
  BY DEF LogTyped, Emit

ChainType == [Duels -> [stage : 0 .. 4, deck : BOOLEAN, end : Ends]]
Moved(d, stage, end) ==
  /\ chain' \in ChainType
  /\ chain'[d].stage = stage /\ chain'[d].end = end
  /\ chain[d].deck => chain'[d].deck
  /\ \A c \in Duels \ {d} : chain'[c] = chain[c]

\* A duel's own step, told by a tracker that is not the one of results.
LEMMA DuelMoves ==
  ASSUME ChainTyped, LogTyped, NEW d \in Duels,
         NEW stage \in 0 .. 4, NEW end \in Ends,
         NEW t \in TrackerNames \ {"MarketSettled"}, Emit(t, d),
         chain[d].stage <= stage, chain[d].stage < Complete,
         end \in Winners => stage = Complete,
         t = "DuelFinalized" => end \in Winners,
         Moved(d, stage, end)
  PROVE  ChainTyped' /\ LogTyped' /\ ChainGrows
  <1>1. d \in Subjects(t) BY DEF Subjects
  <1>2. /\ chain'[d].stage = stage /\ chain'[d].end = end
        /\ chain[d].deck => chain'[d].deck
        /\ \A c \in Duels : c # d => chain'[c] = chain[c]
    BY DEF Moved
  <1>3. ChainTyped' BY <1>2 DEF ChainTyped, Moved, ChainType
  <1>4. chain[d].end \notin Winners BY DEF ChainTyped
  <1>5. ChainGrows BY <1>1, <1>2, <1>4, Emitted DEF ChainGrows, ChainTyped
  <1>6. \A i \in 1 .. Len(log'["DuelFinalized"]) :
          chain'[log'["DuelFinalized"][i]].end \in Winners
    <2>1. "DuelFinalized" \in TrackerNames BY Names
    <2>2. log["DuelFinalized"] \in Seq(Duels) BY <2>1 DEF LogTyped, Subjects
    <2>3. \A i \in 1 .. Len(log["DuelFinalized"]) :
            chain'[log["DuelFinalized"][i]].end \in Winners
      BY <1>2, <1>4, <2>2 DEF LogTyped
    <2>4. CASE t = "DuelFinalized"
      <3>1. log'["DuelFinalized"] = Append(log["DuelFinalized"], d)
        BY <1>1, <2>4, Emitted
      <3>q. QED BY <1>2, <2>2, <2>3, <2>4, <3>1
    <2>5. CASE t # "DuelFinalized"
      BY <1>1, <2>1, <2>3, <2>5, Emitted
    <2>q. QED BY <2>4, <2>5
  <1>7. LogTyped' BY <1>1, <1>6, Emitted DEF LogTyped
  <1>q. QED BY <1>3, <1>5, <1>7

LEMMA ChainMoves ==
  ASSUME ChainTyped, LogTyped, ChainStep
  PROVE  ChainTyped' /\ LogTyped' /\ ChainGrows
  <1>0. \A d \in Duels : chain[d].stage \in 0 .. 4 /\ chain[d].end \in Ends
    BY DEF ChainTyped
  <1>1. ASSUME NEW d \in Duels, Created(d) \/ Joined(d) \/ Progressed(d)
        PROVE  ChainTyped' /\ LogTyped' /\ ChainGrows
    <2>1. chain[d].end \notin Winners /\ chain[d].stage < Complete
      BY <1>1 DEF Created, Joined, Progressed, ChainTyped, Absent, Pending, Active, Complete
    <2>2. PICK s \in 0 .. 4, t \in {"DuelCreated", "DuelJoined", "DuelProgress"} :
            /\ chain[d].stage <= s /\ Emit(t, d)
            /\ Moved(d, s, chain[d].end)
      <3>1. CASE Created(d)
        <4>1. Moved(d, Pending, chain[d].end)
          BY <3>1 DEF Created, Goes, Moved, ChainType, ChainTyped, Absent, Pending, Active
        <4>q. QED BY <1>0, <3>1, <4>1 DEF Created, Absent, Pending
      <3>2. CASE Joined(d)
        <4>1. Moved(d, Active, chain[d].end)
          BY <3>2 DEF Joined, Goes, Moved, ChainType, ChainTyped, Absent, Pending, Active
        <4>q. QED BY <1>0, <3>2, <4>1 DEF Joined, Active, Pending
      <3>3. CASE Progressed(d)
        <4>2. Moved(d, Revealed, chain[d].end)
          BY <3>3 DEF Progressed, Moved, ChainType, ChainTyped, Revealed
        <4>q. QED BY <1>0, <3>3, <4>2 DEF Progressed, Active, Revealed
      <3>q. QED BY <1>1, <3>1, <3>2, <3>3
    <2>3. t \in TrackerNames \ {"MarketSettled"} /\ t # "DuelFinalized" BY Names
    <2>q. QED BY <1>0, <2>1, <2>2, <2>3, DuelMoves
  <1>2. ASSUME NEW d \in Duels, NEW e \in Ends, NEW stages, NEW t, Ended(d, stages, e, t),
               stages \subseteq {Pending, Active, Revealed},
               t \in {"DuelFinalized", "DuelClosed"},
               t = "DuelFinalized" => e \in Winners
        PROVE  ChainTyped' /\ LogTyped' /\ ChainGrows
    <2>1. chain[d].stage < Complete /\ Emit(t, d)
      BY <1>2 DEF Ended, Pending, Active, Revealed, Complete
    <2>2. Moved(d, Complete, e)
      BY <1>2 DEF Ended, Moved, ChainType, ChainTyped, Complete
    <2>3. t \in TrackerNames \ {"MarketSettled"} BY <1>2, Names
    <2>4. Complete \in 0 .. 4 /\ chain[d].stage <= Complete BY <2>1, <1>0 DEF Complete
    <2>q. QED BY <1>0, <1>2, <2>1, <2>2, <2>3, <2>4, DuelMoves
  <1>3. ASSUME NEW m \in Markets, MarketSettled(m)
        PROVE  ChainTyped' /\ LogTyped' /\ ChainGrows
    <2>1. "MarketSettled" \in TrackerNames /\ "DuelFinalized" \in TrackerNames
      BY Names
    <2>2. m \in Subjects("MarketSettled") BY DEF Subjects
    <2>3. Emit("MarketSettled", m) /\ chain' = chain BY <1>3 DEF MarketSettled
    <2>4. log'["DuelFinalized"] = log["DuelFinalized"] BY <2>1, <2>2, <2>3, Emitted
    <2>5. ChainTyped' BY <2>3 DEF ChainTyped
    <2>6. LogTyped' BY <2>1, <2>2, <2>3, <2>4, Emitted DEF LogTyped
    <2>7. ChainGrows BY <2>1, <2>2, <2>3, <1>0, Emitted DEF ChainGrows
    <2>q. QED BY <2>5, <2>6, <2>7
  <1>4. ASSUME NEW d \in Duels, NEW w \in Winners,
               Ended(d, {Active, Revealed}, w, "DuelFinalized")
        PROVE  ChainTyped' /\ LogTyped' /\ ChainGrows
    BY <1>2, <1>4 DEF Ends
  <1>5. ASSUME NEW d \in Duels, Ended(d, {Pending, Active, Revealed}, "closed", "DuelClosed")
        PROVE  ChainTyped' /\ LogTyped' /\ ChainGrows
    BY <1>2, <1>5 DEF Ends
  <1>q. QED BY <1>1, <1>3, <1>4, <1>5 DEF ChainStep

LEMMA OthersKeepChain == Loop \/ Crash \/ UNCHANGED vars => UNCHANGED <<chain, log>>
  BY DEF Loop, Crash, vars, start, seedCursor, startFails, tick, TrackerDone, drainTracker,
     saveCursor, saveCursorFails, fetchDuel, upsertDuel, refreshFails,
     AllRefreshed, SkipResult, setDuelWinner, applyDuelOutcome, ratingFails,
     TickDone

LEMMA ChainInv ==
  ASSUME ChainTyped, LogTyped, [Next]_vars
  PROVE  ChainTyped' /\ LogTyped' /\ ChainGrows
  <1>1. CASE ChainStep BY <1>1, ChainMoves
  <1>2. CASE UNCHANGED <<chain, log>>
    BY <1>2 DEF ChainTyped, LogTyped, ChainGrows
  <1>q. QED BY <1>1, <1>2, OthersKeepChain DEF Next

-----------------------------------------------------------------------------
(* Cursors and pages. *)

LEMMA PageElements ==
  ASSUME LogTyped, CursorTyped, NEW t \in TrackerNames
  PROVE  /\ PageEnd(t) \in 0 .. Len(log[t])
         /\ PageOf(t, PageEnd(t)) \in Seq(Subjects(t))
         /\ \A i \in 1 .. Len(PageOf(t, PageEnd(t))) :
              \E j \in 1 .. Len(log[t]) : PageOf(t, PageEnd(t))[i] = log[t][j]
  <1>1. Position(t) \in 0 .. Len(log[t]) /\ log[t] \in Seq(Subjects(t))
    BY DEF Position, NoCursor, LogTyped, CursorTyped
  <1>2. Len(log[t]) \in Nat BY <1>1
  <1>3. PageEnd(t) \in Position(t) .. Len(log[t]) BY <1>1, <1>2 DEF PageEnd
  <1> DEFINE p == Position(t)
             q == PageEnd(t)
             s == log[t]
  <1>4. p \in Nat /\ q \in p .. Len(s) /\ s \in Seq(Subjects(t)) BY <1>1, <1>3
  <1> HIDE DEF p, q, s
  <1>5. /\ SubSeq(s, p + 1, q) \in Seq(Subjects(t))
        /\ Len(SubSeq(s, p + 1, q)) = q - p
        /\ \A i \in 1 .. q - p : SubSeq(s, p + 1, q)[i] = s[p + i]
    BY <1>4
  <1>6. \A i \in 1 .. q - p : p + i \in 1 .. Len(s) BY <1>4
  <1>7. PageEnd(t) \in 0 .. Len(log[t]) BY <1>1, <1>2, <1>3
  <1>8. PageOf(t, PageEnd(t)) = SubSeq(s, p + 1, q) BY DEF PageOf, p, q, s
  <1>9. \A i \in 1 .. q - p : \E j \in 1 .. Len(s) : SubSeq(s, p + 1, q)[i] = s[j]
    BY <1>5, <1>6
  <1>10. s = log[t] BY DEF s
  <1>q. QED BY <1>5, <1>7, <1>8, <1>9, <1>10

LEMMA NextTrackerTyped ==
  ASSUME at \in 1 .. 6, NextTracker
  PROVE  at' \in 1 .. 6 /\ pages' = 0 /\ pc' \in {"refresh", "drain"}
  BY Names DEF NextTracker

LEMMA FaultTyped ==
  ASSUME faults \in 0 .. MaxFaults, Fault \/ NoFault PROVE faults' \in 0 .. MaxFaults
  BY DEF Fault, NoFault

LEMMA CursorSame ==
  ASSUME CursorTyped, ChainGrows, LogTyped', LogTyped, UNCHANGED cursor
  PROVE  CursorTyped'
  <1>1. \A t \in TrackerNames : Len(log[t]) \in Nat /\ Len(log'[t]) \in Nat
    BY DEF LogTyped
  <1>q. QED BY <1>1 DEF CursorTyped, ChainGrows

LEMMA CursorInv ==
  ASSUME IInv, [Next]_vars, ChainGrows, LogTyped'
  PROVE  CursorTyped' /\ PageTyped'
  <1> USE DEF IInv
  <1>a. Trackers[at] \in TrackerNames BY Names DEF PageTyped
  <1>0. Trackers[at] \in TrackerNames /\ Len(log[Trackers[at]]) \in Nat
    BY <1>a DEF LogTyped
  <1>1. CASE ChainStep \/ UNCHANGED vars
    <2>1. UNCHANGED <<cursor, at, pages, pc, page, faults>>
      BY <1>1 DEF ChainStep, vars, dbVars, tickVars
    <2>2. Len(log[Trackers[at]]) <= Len(log'[Trackers[at]]) BY <1>0 DEF ChainGrows
    <2>3. Len(log'[Trackers[at]]) \in Nat BY <1>0 DEF LogTyped
    <2>q. QED BY <2>1, <2>2, <2>3, <1>0, CursorSame DEF PageTyped
  <1>2. CASE start \/ tick \/ AllRefreshed \/ TickDone \/ SkipResult
    <2>1. UNCHANGED <<cursor, faults>> /\ pc' # "save" /\ at' \in 1 .. 6 /\ pages' \in {0, pages}
      BY <1>2 DEF start, tick, AllRefreshed, TickDone, SkipResult, RateNext,
         dbVars, PageTyped
    <2>q. QED BY <2>1, CursorSame DEF PageTyped
  <1>3. CASE seedCursor
    <2>1. /\ pc' # "save" /\ at' \in 1 .. 6 /\ pages' = pages
          /\ faults' \in 0 .. MaxFaults
      BY <1>3, Names, FaultTyped DEF seedCursor, SeedNext, PageTyped
    <2>2. CASE UNCHANGED cursor BY <2>1, <2>2, CursorSame DEF PageTyped
    <2>3. CASE cursor' = [cursor EXCEPT ![Trackers[at]] = Len(log[Trackers[at]])]
      <3>1. log' = log BY <1>3 DEF seedCursor
      <3>2. CursorTyped' BY <2>3, <3>1, <1>0 DEF CursorTyped
      <3>q. QED BY <2>1, <3>2 DEF PageTyped
    <2>q. QED BY <1>3, <2>2, <2>3 DEF seedCursor, Seeded
  <1>4. CASE TrackerDone
    <2>1. UNCHANGED cursor /\ NextTracker /\ (Fault \/ NoFault)
      BY <1>4 DEF TrackerDone, dbVars
    <2>q. QED
      BY <2>1, CursorSame, NextTrackerTyped, FaultTyped DEF PageTyped
  <1>5. CASE drainTracker
    <2>1. /\ UNCHANGED <<cursor, at, pages, log>> /\ pc' = "save"
          /\ page'.upto = PageEnd(Trackers[at]) /\ (Fault \/ NoFault)
      BY <1>5 DEF drainTracker, gatherResults
    <2>2. PageEnd(Trackers[at]) \in 0 .. Len(log[Trackers[at]])
      BY <1>0, PageElements
    <2>q. QED BY <2>1, <2>2, CursorSame, FaultTyped DEF PageTyped
  <1>6. CASE saveCursor
    <2>1. /\ cursor' = [cursor EXCEPT ![Trackers[at]] = page.upto]
          /\ pc = "save" /\ log' = log /\ faults' = faults
      BY <1>6 DEF saveCursor
    <2>2. page.upto \in 0 .. Len(log[Trackers[at]]) BY <2>1 DEF PageTyped
    <2>3. CursorTyped' BY <2>1, <2>2, <1>0 DEF CursorTyped
    <2>4. /\ at' \in 1 .. 6 /\ pages' \in 0 .. MaxPages /\ pc' # "save"
      BY <1>6, NextTrackerTyped DEF saveCursor, PageTyped
    <2>q. QED BY <2>1, <2>3, <2>4 DEF PageTyped
  <1>7. CASE saveCursorFails
    <2>1. UNCHANGED cursor /\ NextTracker /\ Fault
      BY <1>7 DEF saveCursorFails, dbVars
    <2>q. QED
      BY <2>1, CursorSame, NextTrackerTyped, FaultTyped DEF PageTyped
  <1>8. CASE \E d \in Duels : fetchDuel(d)
    <2>1. UNCHANGED <<cursor, at, pages>> /\ pc' = "upsert"
      BY <1>8 DEF fetchDuel, dbVars
    <2>2. faults' \in 0 .. MaxFaults BY <1>8 DEF fetchDuel, PageTyped
    <2>q. QED BY <2>1, <2>2, CursorSame DEF PageTyped
  <1>9. CASE upsertDuel \/ refreshFails \/ setDuelWinner \/ applyDuelOutcome \/ ratingFails
    <2>1. /\ UNCHANGED <<cursor, at, pages>> /\ pc' # "save"
          /\ (Fault \/ NoFault)
      BY <1>9 DEF upsertDuel, refreshFails, setDuelWinner, applyDuelOutcome,
         ratingFails, RateNext, dbVars, NoFault
    <2>q. QED BY <2>1, CursorSame, FaultTyped DEF PageTyped
  <1>10. CASE Crash
    <2>1. /\ UNCHANGED cursor /\ pc' = "down" /\ at' = 1 /\ pages' = 0
          /\ (Fault \/ NoFault)
      BY <1>10 DEF Crash, dbVars
    <2>q. QED BY <2>1, CursorSame, FaultTyped DEF PageTyped
  <1>11. CASE startFails
    <2>1. UNCHANGED <<cursor, at, pages>> /\ pc' = "stalled" /\ Fault
      BY <1>11 DEF startFails, dbVars
    <2>q. QED BY <2>1, CursorSame, FaultTyped DEF PageTyped
  <1>q. QED
    BY <1>1, <1>2, <1>3, <1>4, <1>5, <1>6, <1>7, <1>8, <1>9, <1>10, <1>11
       DEF Next, Loop

-----------------------------------------------------------------------------
(* The mirror's rows and the copy on its way. *)

LEMMA SettledGrows ==
  ASSUME ChainGrows, settlements \subseteq settlements', NEW d \in Duels
  PROVE  Settled(d) \subseteq Settled(d)'
  BY DEF ChainGrows, Settled, Deck

\* Steps that write no row and start no copy.
LEMMA RowsSame ==
  ASSUME IInv, ChainGrows, ChainTyped', UNCHANGED mirror,
         pc' = "upsert" => pc = "upsert" /\ UNCHANGED job,
         settlements \subseteq settlements', settlements' \subseteq Markets,
         touched' \subseteq Duels
  PROVE  MirrorTyped' /\ Copied' /\ JobAhead'
  <1> USE DEF IInv
  <1>1. MirrorTyped' BY DEF MirrorTyped
  <1>2. \A d \in Duels : /\ chain[d].stage \in 0 .. 4 /\ chain'[d].stage \in 0 .. 4
                         /\ chain[d].stage <= chain'[d].stage
                         /\ mirror[d].stage \in 0 .. 4
    BY DEF ChainTyped, ChainGrows, MirrorTyped
  <1>3. Copied'
    BY <1>2, SettledGrows DEF Copied
  <1>4. JobAhead'
    <2> SUFFICES ASSUME pc' = "upsert" PROVE JobAhead'
      BY DEF JobAhead
    <2>1. job' = job /\ pc = "upsert" /\ job.duel \in Duels BY DEF JobAhead
    <2>q. QED BY <2>1, <1>2, SettledGrows DEF JobAhead
  <1>q. QED BY <1>1, <1>3, <1>4

\* What a copy holds, when it was read.
LEMMA FetchStep ==
  ASSUME IInv, NEW d \in Duels, fetchDuel(d)
  PROVE  MirrorTyped' /\ Copied' /\ JobAhead'
  <1> USE DEF IInv
  <1>1. /\ UNCHANGED <<chain, mirror, settlements>> /\ touched' = touched \ {d}
    BY DEF fetchDuel, dbVars
  <1>2. MirrorTyped' BY <1>1 DEF MirrorTyped
  <1>3. Copied' BY <1>1 DEF Copied, Settled, Deck
  <1>4. PICK read \in SUBSET Settled(d), rowLost \in BOOLEAN :
          /\ rowLost => FallsBack(d, read)
          /\ job' = [duel |-> d, stage |-> StageRead(d),
                     outcomes |-> IF rowLost THEN {} ELSE OutcomesKept(d, read),
                     failed |-> (IF read = Settled(d) THEN 0 ELSE 1)
                                + (IF rowLost THEN 1 ELSE 0)]
    BY DEF fetchDuel
  <1>5. /\ job'.duel = d /\ job'.stage = chain[d].stage
        /\ job'.outcomes = IF rowLost THEN {} ELSE OutcomesKept(d, read)
        /\ job'.failed = (IF read = Settled(d) THEN 0 ELSE 1)
                         + (IF rowLost THEN 1 ELSE 0)
    BY <1>4 DEF StageRead
  <1>6. /\ mirror[d].outcomes \subseteq Settled(d)
        /\ mirror[d].stage \in 0 .. 4 /\ chain[d].stage \in 0 .. 4
        /\ mirror[d].stage <= chain[d].stage
    BY DEF Copied, MirrorTyped, ChainTyped
  <1>7. job'.outcomes \subseteq Settled(d)
    BY <1>5, <1>6 DEF OutcomesKept
  <1>8. mirror[d].outcomes \subseteq job'.outcomes \/ job'.failed > 0
    <2>1. CASE rowLost \/ read # Settled(d)
      <3>1. job'.failed > 0 BY <1>5, <2>1
      <3>q. QED BY <3>1
    <2>2. CASE ~rowLost /\ read = Settled(d)
      BY <1>5, <1>6, <2>2 DEF OutcomesKept
    <2>q. QED BY <2>1, <2>2
  <1>9. ASSUME mirror[d].stage = Complete, mirror[d].outcomes # {}, job'.outcomes = {}
        PROVE  job'.failed > 1
    <2>1. chain[d].stage = Complete BY <1>6, <1>9 DEF Complete
    <2>2. CASE rowLost
      <3>1. read = {} BY <1>4, <2>2 DEF FallsBack
      <3>2. read # Settled(d) BY <1>6, <1>9, <3>1
      <3>q. QED BY <1>5, <2>2, <3>2
    <2>3. CASE ~rowLost
      <3>1. OutcomesKept(d, read) = {} BY <1>5, <1>9, <2>3
      <3>2. FALSE BY <1>9, <2>1, <3>1 DEF OutcomesKept, FallsBack
      <3>q. QED BY <3>2
    <2>q. QED BY <2>2, <2>3
  <1>10. JobAhead'
    BY <1>1, <1>5, <1>6, <1>7, <1>8, <1>9 DEF JobAhead, Settled, Deck
  <1>q. QED BY <1>2, <1>3, <1>10

LEMMA UpsertStep ==
  ASSUME IInv, upsertDuel
  PROVE  MirrorTyped' /\ Copied' /\ JobAhead'
  <1> USE DEF IInv
  <1> DEFINE d == job.duel
  <1>1. /\ mirror' = [mirror EXCEPT ![d] = Written(d)] /\ pc = "upsert"
        /\ pc' = "refresh" /\ UNCHANGED <<chain, settlements, touched>>
    BY DEF upsertDuel
  <1>2. /\ d \in Duels /\ job.stage \in mirror[d].stage .. chain[d].stage
        /\ job.outcomes \subseteq Settled(d)
    BY <1>1 DEF JobAhead
  <1> HIDE DEF d
  <1>a. mirror[d].stage \in 0 .. 4 /\ chain[d].stage \in 0 .. 4
    BY <1>2 DEF MirrorTyped, ChainTyped
  <1>3. job.stage \in 0 .. 4 /\ job.stage <= chain[d].stage BY <1>2, <1>a
  <1>4. job.outcomes \subseteq Markets
    BY <1>2 DEF MirrorTyped, Settled
  <1>5. MirrorTyped' BY <1>1, <1>2, <1>3, <1>4 DEF MirrorTyped, Written
  <1>6. \A e \in Duels : mirror'[e] = IF e = d THEN Written(d) ELSE mirror[e]
    BY <1>1 DEF MirrorTyped
  <1>7. Copied' BY <1>1, <1>2, <1>3, <1>6 DEF Copied, Written, Settled, Deck
  <1>8. JobAhead' BY <1>1 DEF JobAhead
  <1>q. QED BY <1>5, <1>7, <1>8

LEMMA WinnerStep ==
  ASSUME IInv, setDuelWinner
  PROVE  MirrorTyped' /\ Copied' /\ JobAhead'
  <1> USE DEF IInv
  <1>1. UNCHANGED <<chain, settlements, touched>> /\ pc' # "upsert"
    BY DEF setDuelWinner
  <1>2. Rated \in [duel : Duels, p1 : {"none", "zero", "p1"}] /\ chain[Rated.duel].end \in Winners
    BY DEF setDuelWinner, Rated, FinalizedDue, Due
  <1>3. PICK w \in Winners \cup {"none"} :
          mirror' = mirror \/ mirror' = [mirror EXCEPT ![Rated.duel].winner = w]
    BY <1>2 DEF setDuelWinner, MirrorTyped
  <1>4. MirrorTyped' BY <1>1, <1>2, <1>3 DEF MirrorTyped
  <1>5. \A e \in Duels : mirror'[e].stage = mirror[e].stage /\ mirror'[e].outcomes = mirror[e].outcomes
    BY <1>2, <1>3 DEF MirrorTyped
  <1>6. Copied' BY <1>1, <1>5 DEF Copied, Settled, Deck
  <1>7. JobAhead' BY <1>1 DEF JobAhead
  <1>q. QED BY <1>4, <1>6, <1>7

LEMMA DrainedSubjects ==
  ASSUME IInv, drainTracker
  PROVE  /\ settlements \subseteq settlements' /\ settlements' \subseteq Markets
         /\ touched' \subseteq Duels
  <1> USE DEF IInv
  <1> DEFINE t == Trackers[at]
             ds == PageOf(t, PageEnd(t))
  <1>1. t \in TrackerNames BY Names DEF PageTyped
  <1>2. ds \in Seq(Subjects(t)) BY <1>1, PageElements
  <1>3. /\ t = "MarketSettled" =>
             settlements' \in {settlements, settlements \cup ToSet(ds)} /\ touched' = touched
        /\ t # "MarketSettled" =>
             settlements' = settlements /\ touched' = touched \cup ToSet(ds)
    BY DEF drainTracker
  <1> HIDE DEF ds, t
  <1>4. ToSet(ds) \subseteq Subjects(t) BY <1>2 DEF ToSet
  <1>q. QED BY <1>3, <1>4 DEF Subjects, MirrorTyped

LEMMA MirrorInv ==
  ASSUME IInv, [Next]_vars, ChainGrows, ChainTyped'
  PROVE  MirrorTyped' /\ Copied' /\ JobAhead'
  <1>0. settlements \subseteq Markets /\ touched \subseteq Duels
    BY DEF IInv, MirrorTyped
  <1>1. CASE ChainStep \/ UNCHANGED vars
    <2>1. UNCHANGED <<mirror, settlements, touched, pc, job>>
      BY <1>1 DEF ChainStep, vars, dbVars, tickVars
    <2>q. QED BY <1>0, <2>1, RowsSame
  <1>2. CASE \/ start \/ seedCursor \/ startFails \/ tick \/ TrackerDone \/ saveCursor
             \/ saveCursorFails \/ AllRefreshed \/ SkipResult \/ applyDuelOutcome \/ ratingFails \/ TickDone
    <2>1. UNCHANGED <<mirror, settlements, touched>> /\ pc' # "upsert"
      BY <1>2 DEF start, seedCursor, startFails, SeedNext, tick, TrackerDone, saveCursor,
         saveCursorFails, NextTracker, AllRefreshed, SkipResult, applyDuelOutcome,
         ratingFails, RateNext, TickDone, dbVars
    <2>q. QED BY <1>0, <2>1, RowsSame
  <1>3. CASE drainTracker
    <2>1. UNCHANGED mirror /\ pc' # "upsert" BY <1>3 DEF drainTracker
    <2>q. QED BY <1>3, <2>1, DrainedSubjects, RowsSame
  <1>4. CASE refreshFails \/ Crash
    <2>1. /\ UNCHANGED <<mirror, settlements>> /\ pc' # "upsert"
          /\ touched' \subseteq touched
      BY <1>4 DEF refreshFails, Crash, dbVars
    <2>q. QED BY <1>0, <2>1, RowsSame
  <1>5. CASE \E d \in Duels : fetchDuel(d) BY <1>5, FetchStep
  <1>6. CASE upsertDuel BY <1>6, UpsertStep
  <1>7. CASE setDuelWinner BY <1>7, WinnerStep
  <1>q. QED
    BY <1>1, <1>2, <1>3, <1>4, <1>5, <1>6, <1>7 DEF Next, Loop

-----------------------------------------------------------------------------
(* The results of a tick and the ratings. *)

\* No step takes a row back, and one alone writes winners.
RowsMove ==
  /\ \A d \in Duels : mirror[d].stage <= mirror'[d].stage
  /\ ~setDuelWinner => \A d \in Duels : mirror'[d].winner = mirror[d].winner

LEMMA MirrorWriters ==
  ASSUME [Next]_vars, ~upsertDuel, ~setDuelWinner
  PROVE  UNCHANGED mirror
  BY DEF Next, Loop, ChainStep, Crash, vars, dbVars, start, seedCursor, startFails, tick,
     TrackerDone, drainTracker, saveCursor, saveCursorFails, fetchDuel,
     refreshFails, AllRefreshed, SkipResult, applyDuelOutcome, ratingFails,
     TickDone

LEMMA RowsMoveOn == ASSUME IInv, [Next]_vars PROVE RowsMove
  <1> USE DEF IInv
  <1>0. \A d \in Duels : mirror[d].stage \in 0 .. 4 BY DEF MirrorTyped
  <1>1. CASE upsertDuel
    <2>1. /\ mirror' = [mirror EXCEPT ![job.duel] = Written(job.duel)]
          /\ pc = "upsert" /\ ~setDuelWinner
      BY <1>1 DEF upsertDuel, setDuelWinner
    <2>2. /\ job.duel \in Duels /\ job.stage >= mirror[job.duel].stage
      BY <2>1 DEF JobAhead
    <2>q. QED BY <1>0, <2>1, <2>2 DEF MirrorTyped, Written, RowsMove
  <1>2. CASE setDuelWinner
    <2>1. PICK w : mirror' = mirror \/ mirror' = [mirror EXCEPT ![Rated.duel].winner = w]
      BY <1>2 DEF setDuelWinner
    <2>2. \A d \in Duels : mirror'[d].stage = mirror[d].stage
      BY <2>1 DEF MirrorTyped
    <2>q. QED BY <1>0, <1>2, <2>2 DEF RowsMove
  <1>3. CASE ~upsertDuel /\ ~setDuelWinner
    BY <1>0, <1>3, MirrorWriters DEF RowsMove
  <1>q. QED BY <1>1, <1>2, <1>3

LEMMA DueStays ==
  ASSUME ChainTyped, MirrorTyped, MirrorTyped', ChainGrows, RowsMove, NEW r, Due(r)
  PROVE  Due(r)'
  BY DEF Due, ChainGrows, RowsMove, MirrorTyped, Absent

LEMMA GatheredSlips ==
  ASSUME NEW ds, gatherResults(ds)
  PROVE  \E lost, late : slips' = [slips EXCEPT !.lost = slips.lost \cup lost,
                                               !.late = slips.late \cup late]
  BY DEF gatherResults

LEMMA SlipsGrow ==
  ASSUME [Next]_vars, "unwritten" \in DOMAIN slips
  PROVE  "unwritten" \in DOMAIN slips' /\ slips.unwritten \subseteq slips'.unwritten
  <1>1. CASE UNCHANGED slips BY <1>1
  <1>2. CASE \E kind \in {"missed", "lost", "late", "again", "unwritten"} : \E ds : Slip(kind, ds)
    BY <1>2 DEF Slip
  <1>3. CASE seedCursor BY <1>3 DEF seedCursor, Seeded
  <1>4. CASE upsertDuel BY <1>4 DEF upsertDuel
  <1>5. CASE Crash BY <1>5 DEF Crash
  <1>6. CASE refreshFails BY <1>2, <1>6 DEF refreshFails
  <1>7. CASE saveCursorFails BY <1>1, <1>2, <1>7 DEF saveCursorFails
  <1>8. CASE SkipResult \/ ratingFails \/ setDuelWinner
    BY <1>1, <1>2, <1>8 DEF SkipResult, ratingFails, setDuelWinner
  <1>9. CASE ChainStep \/ start \/ startFails \/ tick \/ TrackerDone \/ saveCursor
    BY <1>1, <1>9 DEF ChainStep, start, startFails, tick, TrackerDone, saveCursor
  <1>11. CASE drainTracker
    <2>1. UNCHANGED slips \/ \E ds : gatherResults(ds) BY <1>11 DEF drainTracker
    <2>2. CASE \E ds : gatherResults(ds)
      <3>1. PICK lost, late : slips' = [slips EXCEPT !.lost = slips.lost \cup lost,
                                                    !.late = slips.late \cup late]
        BY <2>2, GatheredSlips
      <3>q. QED BY <3>1
    <2>q. QED BY <1>1, <2>1, <2>2
  <1>10. CASE \/ (\E d \in Duels : fetchDuel(d)) \/ AllRefreshed \/ applyDuelOutcome
              \/ TickDone \/ UNCHANGED vars
    BY <1>1, <1>10 DEF fetchDuel, AllRefreshed, applyDuelOutcome, TickDone, vars
  <1>q. QED
    BY <1>3, <1>4, <1>5, <1>6, <1>7, <1>8, <1>9, <1>10, <1>11 DEF Next, Loop

Outcomes == [duel : Duels, p1 : {"none", "zero", "p1"}]

\* The results a page of DuelFinalized adds.
LEMMA DrainedDue ==
  ASSUME IInv, drainTracker, FinalizedDue, ChainGrows, MirrorTyped'
  PROVE  FinalizedDue'
  <1> USE DEF IInv
  <1>1. UNCHANGED <<chain, mirror>> BY DEF drainTracker
  <1>2. CASE finalized' = finalized BY <1>1, <1>2 DEF FinalizedDue, Due
  <1>3. CASE Trackers[at] = "DuelFinalized"
    <2> DEFINE ds == PageOf("DuelFinalized", PageEnd("DuelFinalized"))
    <2>1. "DuelFinalized" \in TrackerNames BY Names
    <2>2. /\ ds \in Seq(Duels)
          /\ \A i \in 1 .. Len(ds) : chain[ds[i]].end \in Winners
      <3>1. Subjects("DuelFinalized") = Duels BY DEF Subjects
      <3>2. /\ ds \in Seq(Duels)
            /\ \A i \in 1 .. Len(ds) :
                 \E j \in 1 .. Len(log["DuelFinalized"]) : ds[i] = log["DuelFinalized"][j]
        BY <2>1, <3>1, PageElements
      <3>q. QED BY <3>2 DEF LogTyped
    <2> HIDE DEF ds
    <2>a. gatherResults(ds) BY <1>3 DEF drainTracker, ds
    <2>b. PICK failed : finalized' = finalized \o Results(ds, RowsRead(failed))
      BY <2>a DEF gatherResults
    <2> DEFINE rows == RowsRead(failed)
    <2>c. \A d \in Duels : rows[d] = IF d \in failed THEN NoRow ELSE mirror[d]
      BY DEF RowsRead
    <2> HIDE DEF rows
    <2>3. finalized' = finalized \o Results(ds, rows) BY <2>b DEF rows
    <2>4. \A d \in Duels : Result(d, rows[d]) \in Outcomes
      BY DEF Result, Challenger, Outcomes
    <2>5. \A d \in Duels : Result(d, rows[d]).p1 # "none" => mirror[d].stage # Absent
      <3> SUFFICES ASSUME NEW d \in Duels, mirror[d].stage = Absent
                   PROVE  Result(d, rows[d]).p1 = "none"
        OBVIOUS
      <3>1. rows[d].stage = Absent BY <2>c DEF NoRow, Absent
      <3>q. QED BY <3>1 DEF Result, Challenger
    <2>6. DOMAIN ds = 1 .. Len(ds) /\ Len(ds) \in Nat BY <2>2
    <2>7. /\ Results(ds, rows) \in Seq(Outcomes) /\ Len(Results(ds, rows)) = Len(ds)
          /\ \A i \in 1 .. Len(ds) : Results(ds, rows)[i] = Result(ds[i], rows[ds[i]])
      BY <2>2, <2>4, <2>6 DEF Results
    <2>8. \A i \in 1 .. Len(ds) : Due(Results(ds, rows)[i])
      <3> SUFFICES ASSUME NEW i \in 1 .. Len(ds) PROVE Due(Results(ds, rows)[i])
        OBVIOUS
      <3>1. ds[i] \in Duels /\ chain[ds[i]].end \in Winners BY <2>2
      <3>2. Result(ds[i], rows[ds[i]]).duel = ds[i] BY DEF Result
      <3>q. QED BY <2>4, <2>5, <2>7, <3>1, <3>2 DEF Due, Outcomes
    <2>9. finalized \in Seq(Outcomes) BY DEF FinalizedDue, Outcomes
    <2> DEFINE more == Results(ds, rows)
    <2>10. more \in Seq(Outcomes) /\ \A i \in 1 .. Len(more) : Due(more[i])
      BY <2>7, <2>8
    <2> HIDE DEF more
    <2>11. /\ finalized \o more \in Seq(Outcomes)
           /\ \A i \in 1 .. Len(finalized \o more) : Due((finalized \o more)[i])
      BY <2>9, <2>10 DEF FinalizedDue
    <2>12. finalized' = finalized \o more BY <2>3 DEF more
    <2>q. QED BY <1>1, <2>11, <2>12 DEF FinalizedDue, Outcomes, Due
  <1>q. QED BY <1>2, <1>3 DEF drainTracker

LEMMA FinalizedInv ==
  ASSUME IInv, [Next]_vars, ChainGrows, MirrorTyped', RowsMove
  PROVE  FinalizedDue'
  <1> USE DEF IInv
  <1>0. \A r : Due(r) => Due(r)' BY DueStays
  <1>1. finalized \in Seq(Outcomes) /\ \A i \in 1 .. Len(finalized) : Due(finalized[i])
    BY DEF FinalizedDue, Outcomes
  <1> DEFINE Stays(r) == /\ r \in Outcomes /\ chain'[r.duel].end \in Winners
                         /\ r.p1 # "none" => mirror'[r.duel].stage # Absent
  <1>8. \A r : Due(r) => Stays(r) BY <1>0 DEF Due, Outcomes
  <1>9. \A i \in 1 .. Len(finalized) : Stays(finalized[i]) BY <1>1, <1>8
  <1>10. (/\ finalized' \in Seq(Outcomes)
          /\ \A i \in 1 .. Len(finalized') : Stays(finalized'[i])) => FinalizedDue'
    BY DEF FinalizedDue, Due, Outcomes
  <1> HIDE DEF Stays
  <1>2. CASE drainTracker BY <1>2, DrainedDue
  <1>3. CASE finalized' = finalized BY <1>1, <1>3, <1>9, <1>10
  <1>4. CASE finalized' = Tail(finalized) /\ finalized # <<>>
    <2>1. /\ Tail(finalized) \in Seq(Outcomes)
          /\ \A i \in 1 .. Len(Tail(finalized)) :
               i + 1 \in 1 .. Len(finalized) /\ Tail(finalized)[i] = finalized[i + 1]
      BY <1>1, <1>4
    <2>2. \A i \in 1 .. Len(Tail(finalized)) : Stays(Tail(finalized)[i])
      BY <1>9, <2>1
    <2>q. QED BY <1>4, <1>10, <2>1, <2>2
  <1>5. CASE Crash BY <1>5 DEF Crash, FinalizedDue
  <1>6. CASE SkipResult \/ applyDuelOutcome \/ ratingFails
    <2>1. finalized # <<>>
      BY <1>6 DEF SkipResult, applyDuelOutcome, ratingFails, RatingShown
    <2>2. finalized' = finalized \/ finalized' = Tail(finalized)
      BY <1>6 DEF SkipResult, applyDuelOutcome, ratingFails, RateNext
    <2>q. QED BY <1>3, <1>4, <2>1, <2>2
  <1>7. CASE \/ ChainStep \/ start \/ seedCursor \/ startFails \/ tick \/ TrackerDone \/ saveCursor
             \/ saveCursorFails \/ (\E d \in Duels : fetchDuel(d)) \/ upsertDuel
             \/ refreshFails \/ AllRefreshed \/ setDuelWinner \/ TickDone
             \/ UNCHANGED vars
    <2>1. finalized' = finalized
      BY <1>7 DEF ChainStep, start, seedCursor, startFails, tick, TrackerDone, saveCursor,
         saveCursorFails, fetchDuel, upsertDuel, refreshFails, AllRefreshed,
         setDuelWinner, TickDone, tickVars, vars
    <2>q. QED BY <1>3, <2>1
  <1>q. QED BY <1>2, <1>5, <1>6, <1>7 DEF Next, Loop

LEMMA ShownStays ==
  ASSUME IInv, [Next]_vars, ~setDuelWinner, ChainGrows, RowsMove,
         NEW d \in Duels, chain[d].end \in Winners, Shown(d)
  PROVE  Shown(d)'
  BY SlipsGrow DEF IInv, RatingShown, Shown, ChainGrows, RowsMove

LEMMA WinnersStay ==
  ASSUME IInv, ~setDuelWinner, ChainGrows, RowsMove, NEW d \in Duels,
         mirror'[d].winner # "none"
  PROVE  mirror'[d].winner = chain'[d].end
  <1>1. mirror'[d].winner = mirror[d].winner BY DEF RowsMove
  <1>2. mirror[d].winner = chain[d].end /\ mirror[d].winner \in Winners
    BY <1>1 DEF IInv, RatingShown, MirrorTyped
  <1>q. QED BY <1>1, <1>2 DEF ChainGrows

\* The winner of the head of the list is written.
LEMMA WinnerShown ==
  ASSUME IInv, [Next]_vars, setDuelWinner
  PROVE  RatingShown'
  <1> USE DEF IInv
  <1>1. /\ UNCHANGED <<chain, rated, finalized>> /\ pc' = "rateP0"
        /\ finalized # <<>> /\ Rated.p1 # "none"
    BY DEF setDuelWinner
  <1>a. Rated.duel \in Duels BY <1>1 DEF Rated, FinalizedDue, Due
  <1>b. PICK d \in Duels : d = Rated.duel BY <1>a
  <1>2. d \in Duels /\ chain[d].end \in Winners /\ mirror[d].stage # Absent
    BY <1>1, <1>b DEF Rated, FinalizedDue, Due
  <1>3. \/ mirror' = [mirror EXCEPT ![d].winner = chain[d].end]
        \/ mirror' = mirror /\ Slip("unwritten", {d})
    BY <1>2, <1>b DEF setDuelWinner
  <1>4. Rated' = Rated BY <1>1 DEF Rated
  <1>5. "unwritten" \in DOMAIN slips' /\ slips.unwritten \subseteq slips'.unwritten
    BY SlipsGrow DEF RatingShown
  <1>6. Shown(d)'
    <2>1. CASE mirror' = [mirror EXCEPT ![d].winner = chain[d].end]
      BY <1>1, <1>2, <2>1 DEF Shown, MirrorTyped
    <2>2. CASE Slip("unwritten", {d})
      BY <2>2 DEF Shown, Slip, RatingShown
    <2>q. QED BY <1>3, <2>1, <2>2
  <1>7. \A e \in Duels : mirror'[e].winner = mirror[e].winner \/ mirror'[e].winner = chain[e].end
    BY <1>2, <1>3 DEF MirrorTyped
  <1>8. \A e \in Duels : Shown(e) => Shown(e)'
    BY <1>1, <1>5, <1>7 DEF Shown
  <1>9. \A e \in Duels : mirror'[e].winner # "none" => mirror'[e].winner = chain'[e].end
    BY <1>1, <1>7 DEF RatingShown
  <1>10. \A e \in Duels : rated'[e].p0 > 0 => Shown(e)' /\ chain'[e].end \in Winners
    BY <1>1, <1>8 DEF RatingShown
  <1>11. Rated'.p1 # "none" /\ Shown(Rated.duel)'
    BY <1>1, <1>4, <1>6, <1>b DEF Shown
  <1>q. QED BY <1>1, <1>5, <1>9, <1>10, <1>11 DEF RatingShown

\* A side of the head of the list is rated.
LEMMA CreditShown ==
  ASSUME IInv, [Next]_vars, applyDuelOutcome, ChainGrows, RowsMove
  PROVE  RatingShown'
  <1> USE DEF IInv
  <1>0. ~setDuelWinner BY DEF applyDuelOutcome, setDuelWinner
  <1>a. /\ finalized # <<>> /\ Rated.p1 # "none" /\ Shown(Rated.duel) /\ chain' = chain
    BY DEF applyDuelOutcome, RatingShown
  <1>b. /\ Rated.duel \in Duels /\ chain[Rated.duel].end \in Winners
        /\ Rated.p1 \in {"zero", "p1"}
    BY <1>a DEF Rated, FinalizedDue, Due
  <1>c. PICK d \in Duels : d = Rated.duel BY <1>b
  <1>1. /\ finalized # <<>> /\ Rated.p1 # "none" /\ Shown(d) /\ chain' = chain
    BY <1>a, <1>c
  <1>2. d \in Duels /\ chain[d].end \in Winners /\ Rated.p1 \in {"zero", "p1"}
    BY <1>b, <1>c
  <1>3. Shown(d)' BY <1>0, <1>1, <1>2, ShownStays
  <1>4. PICK seat \in {"p0", "p1", "zero"} :
          rated' = [rated EXCEPT ![d][seat] = @ + 1]
    BY <1>2, <1>c DEF applyDuelOutcome, Credit
  <1>5. \/ pc' = "rateP1" /\ finalized' = finalized
        \/ pc' = "rate"
    BY DEF applyDuelOutcome, RateNext
  <1>6. finalized' = finalized => Rated' = Rated BY DEF Rated
  <1>7. /\ rated' \in [Duels -> [p0 : Nat, p1 : Nat, zero : Nat]]
        /\ \A e \in Duels : e # d => rated'[e] = rated[e]
    <2>1. rated[d] \in [p0 : Nat, p1 : Nat, zero : Nat]
      BY <1>2 DEF RatingShown
    <2>2. [rated[d] EXCEPT ![seat] = @ + 1] \in [p0 : Nat, p1 : Nat, zero : Nat]
      <3>1. CASE seat = "p0" BY <2>1, <3>1
      <3>2. CASE seat = "p1" BY <2>1, <3>2
      <3>3. CASE seat = "zero" BY <2>1, <3>3
      <3>q. QED BY <1>4, <3>1, <3>2, <3>3
    <2>3. rated' = [rated EXCEPT ![d] = [rated[d] EXCEPT ![seat] = @ + 1]]
      BY <1>4
    <2>q. QED BY <1>2, <2>2, <2>3 DEF RatingShown
  <1>8. \A e \in Duels : rated'[e].p0 > 0 => Shown(e)' /\ chain'[e].end \in Winners
    <2> SUFFICES ASSUME NEW e \in Duels, rated'[e].p0 > 0
                 PROVE  Shown(e)' /\ chain'[e].end \in Winners
      OBVIOUS
    <2>1. CASE e = d BY <1>1, <1>2, <1>3, <2>1 DEF Shown
    <2>2. CASE e # d
      <3>1. Shown(e) /\ chain[e].end \in Winners BY <1>7, <2>2 DEF RatingShown
      <3>q. QED BY <1>0, <1>1, <3>1, ShownStays
    <2>q. QED BY <2>1, <2>2
  <1>9. "unwritten" \in DOMAIN slips' BY SlipsGrow DEF RatingShown
  <1>10. \A e \in Duels : mirror'[e].winner # "none" => mirror'[e].winner = chain'[e].end
    BY <1>0, WinnersStay
  <1>11. pc' \in {"rateP0", "rateP1"} =>
           finalized' # <<>> /\ Rated'.p1 # "none" /\ Shown(Rated.duel)'
    BY <1>1, <1>3, <1>5, <1>6, <1>c DEF Shown
  <1>q. QED BY <1>7, <1>8, <1>9, <1>10, <1>11 DEF RatingShown

LEMMA RatingInv ==
  ASSUME IInv, [Next]_vars, ChainGrows, RowsMove
  PROVE  RatingShown'
  <1> USE DEF IInv
  <1>1. CASE setDuelWinner BY <1>1, WinnerShown
  <1>2. CASE applyDuelOutcome BY <1>2, CreditShown
  <1>3. CASE ~setDuelWinner /\ ~applyDuelOutcome
    <2>1. /\ UNCHANGED rated
          /\ pc' \in {"rateP0", "rateP1"} => UNCHANGED <<pc, finalized>>
      <3>1. CASE ChainStep \/ UNCHANGED vars
        BY <3>1 DEF ChainStep, vars, dbVars, tickVars
      <3>2. CASE start \/ seedCursor \/ startFails \/ tick \/ TrackerDone \/ drainTracker
                   \/ saveCursor \/ saveCursorFails \/ Crash
        BY <3>2 DEF start, seedCursor, startFails, SeedNext, tick, TrackerDone, NextTracker,
           drainTracker, saveCursor, saveCursorFails, Crash, dbVars
      <3>3. CASE \/ (\E d \in Duels : fetchDuel(d)) \/ upsertDuel \/ refreshFails
                 \/ AllRefreshed \/ SkipResult \/ ratingFails \/ TickDone
        BY <3>3 DEF fetchDuel, upsertDuel, refreshFails, AllRefreshed, SkipResult,
           ratingFails, RateNext, TickDone, dbVars
      <3>q. QED BY <1>3, <3>1, <3>2, <3>3 DEF Next, Loop
    <2>2. \A d \in Duels : rated'[d].p0 > 0 => Shown(d)' /\ chain'[d].end \in Winners
      <3> SUFFICES ASSUME NEW d \in Duels, rated'[d].p0 > 0
                   PROVE  Shown(d)' /\ chain'[d].end \in Winners
        OBVIOUS
      <3>1. Shown(d) /\ chain[d].end \in Winners BY <2>1 DEF RatingShown
      <3>q. QED BY <1>3, <3>1, ShownStays DEF ChainGrows
    <2>3. "unwritten" \in DOMAIN slips' BY SlipsGrow DEF RatingShown
    <2>4. \A d \in Duels : mirror'[d].winner # "none" => mirror'[d].winner = chain'[d].end
      BY <1>3, WinnersStay
    <2>5. ASSUME pc' \in {"rateP0", "rateP1"}
          PROVE  finalized' # <<>> /\ Rated'.p1 # "none" /\ Shown(Rated.duel)'
      <3>1. /\ pc \in {"rateP0", "rateP1"} /\ finalized' = finalized
        BY <2>1, <2>5
      <3>2. /\ finalized # <<>> /\ Rated.p1 # "none" /\ Shown(Rated.duel)
        BY <3>1 DEF RatingShown
      <3>3. Rated' = Rated BY <3>1 DEF Rated
      <3>4. Rated.duel \in Duels /\ chain[Rated.duel].end \in Winners
        BY <3>2 DEF Rated, FinalizedDue, Due
      <3>a. PICK d \in Duels : d = Rated.duel BY <3>4
      <3>5. d \in Duels /\ chain[d].end \in Winners /\ Shown(d) BY <3>2, <3>4, <3>a
      <3>6. Rated'.duel = d BY <3>3, <3>a
      <3>7. Shown(d)' BY <1>3, <3>5, ShownStays
      <3>q. QED BY <3>1, <3>2, <3>3, <3>6, <3>7 DEF Shown
    <2>q. QED BY <2>1, <2>2, <2>3, <2>4, <2>5 DEF RatingShown
  <1>q. QED BY <1>1, <1>2, <1>3

-----------------------------------------------------------------------------
LEMMA NextIInv == IInv /\ [Next]_vars => IInv' /\ ChainGrows /\ RowsMove
  <1> SUFFICES ASSUME IInv, [Next]_vars PROVE IInv' /\ ChainGrows /\ RowsMove
    OBVIOUS
  <1>1. ChainTyped' /\ LogTyped' /\ ChainGrows BY ChainInv DEF IInv
  <1>2. RowsMove BY RowsMoveOn
  <1>3. MirrorTyped' /\ Copied' /\ JobAhead' BY <1>1, MirrorInv
  <1>4. CursorTyped' /\ PageTyped' BY <1>1, CursorInv
  <1>5. FinalizedDue' BY <1>1, <1>2, <1>3, FinalizedInv
  <1>6. RatingShown' BY <1>1, <1>2, RatingInv
  <1>q. QED BY <1>1, <1>2, <1>3, <1>4, <1>5, <1>6 DEF IInv

LEMMA IInvHolds == Spec => []IInv
  BY InitIInv, NextIInv, PTL DEF Spec

\* Type correctness of the indexer's tables and cursors: a cursor never points
\* past the last event (indexer.ts, seedCursor and drainEvents).
THEOREM IndexerTyped == Spec => []TypeOK
  <1>1. IInv => TypeOK
    BY Names DEF IInv, ChainTyped, MirrorTyped, CursorTyped, PageTyped, Ends,
       TypeOK, NoCursor
  <1>q. QED BY <1>1, IInvHolds, PTL

\* The row of a rated duel shows the chain's result, and a later refresh does
\* not take it away (indexer.ts, the rating loop; db.ts, setDuelWinner and
\* upsertDuel).
THEOREM WinnerNeverLost == Spec => []WinnerStays
  <1>1. IInv => WinnerStays BY DEF IInv, RatingShown, Shown, WinnerStays
  <1>q. QED BY <1>1, IInvHolds, PTL

OutcomesKeptByStep ==
  \A d \in Duels :
    /\ mirror[d].outcomes \subseteq mirror'[d].outcomes \/ job.failed > 0
    /\ (/\ mirror[d].stage = Complete /\ mirror[d].outcomes # {}
        /\ mirror'[d].outcomes = {})
         => job.failed > 1

LEMMA OutcomesStep == IInv /\ [Next]_vars => OutcomesKeptByStep
  <1> SUFFICES ASSUME IInv, [Next]_vars, NEW d \in Duels
               PROVE  /\ mirror[d].outcomes \subseteq mirror'[d].outcomes \/ job.failed > 0
                      /\ (/\ mirror[d].stage = Complete /\ mirror[d].outcomes # {}
                          /\ mirror'[d].outcomes = {})
                           => job.failed > 1
    BY DEF OutcomesKeptByStep
  <1> USE DEF IInv
  <1>1. CASE mirror'[d].outcomes = mirror[d].outcomes BY <1>1
  <1>2. CASE upsertDuel
    <2>1. /\ mirror' = [mirror EXCEPT ![job.duel] = Written(job.duel)] /\ pc = "upsert"
      BY <1>2 DEF upsertDuel
    <2>2. CASE d = job.duel
      <3>1. mirror'[d].outcomes = job.outcomes
        BY <2>1, <2>2 DEF MirrorTyped, Written
      <3>q. QED BY <2>1, <2>2, <3>1 DEF JobAhead
    <2>3. CASE d # job.duel
      <3>1. mirror'[d] = mirror[d] BY <2>1, <2>3 DEF MirrorTyped
      <3>q. QED BY <1>1, <3>1
    <2>q. QED BY <2>2, <2>3
  <1>3. CASE setDuelWinner
    <2>1. PICK w : mirror' = mirror \/ mirror' = [mirror EXCEPT ![Rated.duel].winner = w]
      BY <1>3 DEF setDuelWinner
    <2>2. mirror'[d].outcomes = mirror[d].outcomes BY <2>1 DEF MirrorTyped
    <2>q. QED BY <1>1, <2>2
  <1>q. QED BY <1>1, <1>2, <1>3, MirrorWriters

\* A refresh takes no outcome from a row unless a read of its own failed, and
\* blanks a finished duel only if two did (indexer.ts, fetchDuel's fallback to
\* the row).
THEOREM OutcomesAreKept == Spec => OutcomesStay
  <1>1. IInv /\ [Next]_vars => OutcomesKeptByStep BY OutcomesStep
  <1>q. QED
    BY <1>1, IInvHolds, PTL DEF Spec, OutcomesStay, OutcomesKeptByStep

-----------------------------------------------------------------------------
(* The refinement: every step of the indexer is one of the mirror or leaves *)
(* it alone.                                                                *)

Ver == [d \in Duels |-> chain[d].stage]
Row == [d \in Duels |-> mirror[d].stage]

LEMMA MirrorInit == Init => MirrorSpec!Init
  BY DEF Init, MirrorSpec!Init, NoRow, Absent

\* The chain moves one duel at a time, and no row with it.
LEMMA OneDuelMoves ==
  ASSUME ChainTyped, NEW d \in Duels, ChainGrows, ChainTyped', mirror' = mirror,
         \A c \in Duels : c # d => chain'[c] = chain[c]
  PROVE  MirrorSpec!Next \/ UNCHANGED MirrorSpec!mirrorVars
  <1>1. /\ \A c \in Duels : Ver[c] = chain[c].stage /\ Ver'[c] = chain'[c].stage
        /\ DOMAIN Ver = Duels /\ DOMAIN Ver' = Duels
    BY DEF Ver
  <1>2. chain[d].stage \in 0 .. 4 /\ chain'[d].stage \in 0 .. 4 BY DEF ChainTyped
  <1>3. Row' = Row BY DEF Row
  <1>4. CASE chain'[d].stage = chain[d].stage
    <2>1. \A c \in Duels : chain'[c].stage = chain[c].stage BY <1>4
    <2>2. Ver' = Ver BY <2>1 DEF Ver
    <2>q. QED BY <1>3, <2>2 DEF MirrorSpec!mirrorVars, Ver, Row
  <1>5. CASE chain'[d].stage # chain[d].stage
    <2>1. Ver'[d] > Ver[d] BY <1>1, <1>2, <1>5 DEF ChainGrows
    <2>2. Ver' = [Ver EXCEPT ![d] = Ver'[d]] BY <1>1 DEF Ver
    <2>3. MirrorSpec!Advance(d) BY <1>3, <2>1, <2>2 DEF MirrorSpec!Advance, Ver, Row
    <2>q. QED BY <2>3 DEF MirrorSpec!Next
  <1>q. QED BY <1>4, <1>5

LEMMA ChainMirrors ==
  ASSUME IInv, ChainStep, ChainGrows, ChainTyped'
  PROVE  MirrorSpec!Next \/ UNCHANGED MirrorSpec!mirrorVars
  <1> USE DEF IInv
  <1>1. mirror' = mirror BY DEF ChainStep, dbVars
  <1>2. CASE chain' = chain BY <1>1, <1>2 DEF MirrorSpec!mirrorVars
  <1>3. ASSUME NEW d \in Duels,
               \/ Created(d) \/ Joined(d) \/ Progressed(d)
               \/ \E e, stages, t : Ended(d, stages, e, t)
        PROVE  \A c \in Duels : c # d => chain'[c] = chain[c]
    BY <1>3 DEF Created, Joined, Progressed, Ended, Goes, ChainTyped
  <1>4. ASSUME NEW d \in Duels,
               \/ Created(d) \/ Joined(d) \/ Progressed(d)
               \/ \E e, stages, t : Ended(d, stages, e, t)
        PROVE  MirrorSpec!Next \/ UNCHANGED MirrorSpec!mirrorVars
    BY <1>1, <1>3, <1>4, OneDuelMoves
  <1>q. QED BY <1>2, <1>4 DEF ChainStep, MarketSettled

LEMMA UpsertMirrors ==
  ASSUME IInv, upsertDuel
  PROVE  MirrorSpec!Next \/ UNCHANGED MirrorSpec!mirrorVars
  <1> USE DEF IInv
  <1>1. /\ mirror' = [mirror EXCEPT ![job.duel] = Written(job.duel)]
        /\ pc = "upsert" /\ chain' = chain
    BY DEF upsertDuel
  <1>2. PICK d \in Duels : d = job.duel BY <1>1 DEF JobAhead
  <1>3. PICK v : v = job.stage OBVIOUS
  <1>4. /\ v \in mirror[d].stage .. chain[d].stage
        /\ mirror[d].stage \in 0 .. 4 /\ chain[d].stage \in 0 .. 4
    BY <1>1, <1>2, <1>3 DEF JobAhead, MirrorTyped, ChainTyped
  <1>5. Ver' = Ver BY <1>1 DEF Ver
  <1>6. \A c \in Duels : mirror'[c].stage = IF c = d THEN v ELSE mirror[c].stage
    BY <1>1, <1>2, <1>3 DEF MirrorTyped, Written
  <1>7. Row' = [Row EXCEPT ![d] = v] BY <1>6 DEF Row
  <1>8. Row[d] = mirror[d].stage /\ Ver[d] = chain[d].stage BY DEF Row, Ver
  <1>9. CASE v = mirror[d].stage
    <2>1. Row' = Row BY <1>6, <1>9 DEF Row
    <2>q. QED BY <1>5, <2>1 DEF MirrorSpec!mirrorVars, Ver, Row
  <1>10. CASE v # mirror[d].stage
    <2>1. v \in Row[d] .. Ver[d] /\ v > Row[d] BY <1>4, <1>8, <1>10
    <2>2. MirrorSpec!Copy(d) BY <1>5, <1>7, <2>1 DEF MirrorSpec!Copy, Ver, Row
    <2>q. QED BY <2>2 DEF MirrorSpec!Next
  <1>q. QED BY <1>9, <1>10

LEMMA StepMirrors ==
  IInv /\ [Next]_vars => [MirrorSpec!Next]_(MirrorSpec!mirrorVars)
  <1> SUFFICES ASSUME IInv, [Next]_vars
               PROVE  MirrorSpec!Next \/ UNCHANGED MirrorSpec!mirrorVars
    OBVIOUS
  <1>1. CASE ChainStep BY <1>1, ChainMirrors, ChainInv DEF IInv
  <1>2. CASE upsertDuel BY <1>2, UpsertMirrors
  <1>3. CASE ~ChainStep /\ ~upsertDuel
    <2>1. chain' = chain BY <1>3, OthersKeepChain DEF Next
    <2>2. \A d \in Duels : mirror'[d].stage = mirror[d].stage
      <3>1. CASE setDuelWinner
        <4>1. PICK w : mirror' = mirror \/ mirror' = [mirror EXCEPT ![Rated.duel].winner = w]
          BY <3>1 DEF setDuelWinner
        <4>q. QED BY <4>1 DEF IInv, MirrorTyped
      <3>2. CASE ~setDuelWinner BY <1>3, <3>2, MirrorWriters
      <3>q. QED BY <3>1, <3>2
    <2>q. QED BY <2>1, <2>2 DEF MirrorSpec!mirrorVars
  <1>q. QED BY <1>1, <1>2, <1>3

\* The mirror is one: its rows are copies of the duel that only become newer
\* (indexer.ts, refreshDuel), through any crash, failure or restart.
THEOREM MirrorImplemented == Spec => ImplementsMirror
  <1>1. Init => MirrorSpec!Init BY MirrorInit
  <1>2. IInv /\ [Next]_vars => [MirrorSpec!Next]_(MirrorSpec!mirrorVars)
    BY StepMirrors
  <1>q. QED
    BY <1>1, <1>2, IInvHolds, PTL DEF Spec, ImplementsMirror, MirrorSpec!Spec

-----------------------------------------------------------------------------
(* Every result is rated once and to both of its players.  A duel is in    *)
(* the log of results once; whoever is in the list of a tick was read from *)
(* a page below the cursor, or the one whose cursor is about to be saved,  *)
(* and is rated when it leaves the list.                                   *)

Fin == log["DuelFinalized"]
Done == Position("DuelFinalized")
Reached == IF pc = "save" /\ Trackers[at] = "DuelFinalized" THEN page.upto ELSE Done
Among(d, n) == \E k \in 1 .. n : Fin[k] = d

SlipsTyped == DOMAIN slips = {"missed", "lost", "late", "again", "unwritten"}
FinOnce == Fin \in Seq(Duels) /\ \A i, j \in 1 .. Len(Fin) : Fin[i] = Fin[j] => i = j
ReadInOrder == Done \in Nat /\ Reached \in Nat /\ Done <= Reached /\ Reached <= Len(Fin)

TakenOnce ==
  \A i \in 1 .. Len(finalized) : finalized[i].duel \notin slips.again =>
    /\ Among(finalized[i].duel, Reached)
    /\ \A j \in 1 .. Len(finalized) : finalized[j].duel = finalized[i].duel => j = i

RatedIsPast ==
  \A d \in Duels : d \notin slips.again /\ rated[d].p0 > 0 =>
    /\ rated[d].p0 = 1 /\ Among(d, Done)
    /\ \A i \in 1 .. Len(finalized) : finalized[i].duel = d => pc = "rateP1" /\ i = 1

Owed(d) == IF pc = "rateP1" /\ Rated.duel = d THEN 1 ELSE 0
BothRated ==
  \A d \in Duels :
    /\ rated[d].p1 + rated[d].zero + Owed(d) <= rated[d].p0
    /\ d \notin slips.lost => rated[d].p1 + rated[d].zero + Owed(d) = rated[d].p0

OnceInv == SlipsTyped /\ FinOnce /\ ReadInOrder /\ TakenOnce /\ RatedIsPast /\ BothRated

LEMMA InitOnce == Init => OnceInv
  <1> SUFFICES ASSUME Init PROVE OnceInv OBVIOUS
  <1>1. Fin = <<>> BY Names DEF Init, Fin
  <1>2. Done = 0 /\ Reached = 0 BY Names DEF Init, Done, Reached, Position, NoCursor
  <1>3. finalized = <<>> /\ \A d \in Duels : rated[d] = [p0 |-> 0, p1 |-> 0, zero |-> 0]
    BY DEF Init
  <1>4. SlipsTyped /\ pc = "down" BY DEF Init, SlipsTyped
  <1>q. QED
    BY <1>1, <1>2, <1>3, <1>4 DEF OnceInv, FinOnce, ReadInOrder, TakenOnce,
       RatedIsPast, BothRated, Owed

\* What was skipped or repeated stays on the record.
LEMMA SlipsKept ==
  ASSUME SlipsTyped, [Next]_vars
  PROVE  /\ SlipsTyped' /\ slips.again \subseteq slips'.again
         /\ slips.lost \subseteq slips'.lost /\ slips.late \subseteq slips'.late
  <1> USE DEF SlipsTyped
  <1>1. CASE UNCHANGED slips BY <1>1
  <1>2. CASE \E kind \in {"missed", "lost", "late", "again", "unwritten"} : \E ds : Slip(kind, ds)
    BY <1>2 DEF Slip
  <1>3. CASE seedCursor
    <2>1. CASE \E m, l :
                 slips' = [slips EXCEPT !.missed = slips.missed \cup m, !.lost = l]
                 /\ slips.lost \subseteq l
      BY <2>1
    <2>2. UNCHANGED slips \/ Seeded(Trackers[at]) BY <1>3 DEF seedCursor
    <2>3. CASE Seeded(Trackers[at]) BY <2>1, <2>3 DEF Seeded
    <2>q. QED BY <1>1, <2>2, <2>3
  <1>4. CASE upsertDuel BY <1>4 DEF upsertDuel
  <1>5. CASE Crash BY <1>5 DEF Crash
  <1>6. CASE refreshFails BY <1>2, <1>6 DEF refreshFails
  <1>7. CASE saveCursorFails BY <1>1, <1>2, <1>7 DEF saveCursorFails
  <1>8. CASE SkipResult \/ ratingFails \/ setDuelWinner
    BY <1>1, <1>2, <1>8 DEF SkipResult, ratingFails, setDuelWinner
  <1>9. CASE ChainStep \/ start \/ startFails \/ tick \/ TrackerDone \/ saveCursor
    BY <1>1, <1>9 DEF ChainStep, start, startFails, tick, TrackerDone, saveCursor
  <1>11. CASE drainTracker
    <2>1. UNCHANGED slips \/ \E ds : gatherResults(ds) BY <1>11 DEF drainTracker
    <2>2. CASE \E ds : gatherResults(ds)
      <3>1. PICK lost, late : slips' = [slips EXCEPT !.lost = slips.lost \cup lost,
                                                    !.late = slips.late \cup late]
        BY <2>2, GatheredSlips
      <3>q. QED BY <3>1
    <2>q. QED BY <1>1, <2>1, <2>2
  <1>10. CASE \/ (\E d \in Duels : fetchDuel(d)) \/ AllRefreshed \/ applyDuelOutcome
              \/ TickDone \/ UNCHANGED vars
    BY <1>1, <1>10 DEF fetchDuel, AllRefreshed, applyDuelOutcome, TickDone, vars
  <1>q. QED
    BY <1>3, <1>4, <1>5, <1>6, <1>7, <1>8, <1>9, <1>10, <1>11 DEF Next, Loop

\* The log of results only grows at its end, by a duel that is not in it.
FinGrows == Len(Fin) <= Len(Fin') /\ \A k \in 1 .. Len(Fin) : Fin'[k] = Fin[k]

LEMMA FinMoves ==
  ASSUME IInv, FinOnce, [Next]_vars
  PROVE  FinOnce' /\ FinGrows
  <1> USE DEF IInv
  <1>0. "DuelFinalized" \in TrackerNames BY Names
  <1>1. CASE UNCHANGED log BY <1>1 DEF FinOnce, FinGrows, Fin
  <1>2. ASSUME NEW t \in TrackerNames \ {"DuelFinalized"}, NEW x, Emit(t, x)
        PROVE  FinOnce' /\ FinGrows
    <2>1. Fin' = Fin BY <1>0, <1>2 DEF Emit, Fin, LogTyped
    <2>q. QED BY <2>1 DEF FinOnce, FinGrows
  <1>3. ASSUME NEW d \in Duels, NEW w \in Winners,
               Ended(d, {Active, Revealed}, w, "DuelFinalized")
        PROVE  FinOnce' /\ FinGrows
    <2>1. Fin' = Append(Fin, d) BY <1>0, <1>3 DEF Ended, Emit, Fin, LogTyped
    <2>2. chain[d].stage # Complete BY <1>3 DEF Ended, Active, Revealed, Complete
    <2>3. \A i \in 1 .. Len(Fin) : Fin[i] # d
      BY <2>2 DEF ChainTyped, LogTyped, Fin
    <2>4. Fin \in Seq(Duels) /\ \A i, j \in 1 .. Len(Fin) : Fin[i] = Fin[j] => i = j
      BY DEF FinOnce
    <2>5. /\ Append(Fin, d) \in Seq(Duels) /\ Len(Append(Fin, d)) = Len(Fin) + 1
          /\ \A i \in 1 .. Len(Fin) : Append(Fin, d)[i] = Fin[i]
          /\ Append(Fin, d)[Len(Fin) + 1] = d
      BY <2>4
    <2>6. \A i \in 1 .. Len(Fin) + 1 : i \in 1 .. Len(Fin) \/ i = Len(Fin) + 1
      BY <2>4
    <2>7. \A i, j \in 1 .. Len(Fin) + 1 : Append(Fin, d)[i] = Append(Fin, d)[j] => i = j
      BY <2>3, <2>4, <2>5, <2>6
    <2>q. QED BY <2>1, <2>4, <2>5, <2>7 DEF FinOnce, FinGrows
  <1>4. CASE ChainStep
    <2>1. {"DuelCreated", "DuelJoined", "DuelProgress", "DuelClosed", "MarketSettled"}
            \subseteq TrackerNames \ {"DuelFinalized"}
      BY Names
    <2>2. ASSUME NEW d \in Duels, Created(d) \/ Joined(d) \/ Progressed(d)
          PROVE  FinOnce' /\ FinGrows
      BY <1>2, <2>1, <2>2 DEF Created, Joined, Progressed
    <2>3. ASSUME NEW d \in Duels, Ended(d, {Pending, Active, Revealed}, "closed", "DuelClosed")
          PROVE  FinOnce' /\ FinGrows
      BY <1>2, <2>1, <2>3 DEF Ended
    <2>4. ASSUME NEW m \in Markets, MarketSettled(m)
          PROVE  FinOnce' /\ FinGrows
      BY <1>2, <2>1, <2>4 DEF MarketSettled
    <2>q. QED BY <1>3, <1>4, <2>2, <2>3, <2>4 DEF ChainStep
  <1>q. QED BY <1>1, <1>4, OthersKeepChain DEF Next

\* Where the tick has read to: what is below the cursor stays below it.
LEMMA AmongStays ==
  ASSUME FinGrows, ReadInOrder, NEW d, NEW m \in 0 .. Len(Fin), NEW n \in Nat, m <= n,
         Among(d, m)
  PROVE  Among(d, n)'
  BY DEF Among, FinGrows, ReadInOrder

\* A step that neither rates nor changes the list.
LEMMA QuietOnce ==
  ASSUME OnceInv, ReadInOrder', FinGrows, UNCHANGED <<finalized, rated>>,
         Done <= Done', Reached <= Reached',
         slips.again \subseteq slips'.again, slips.lost \subseteq slips'.lost,
         pc' = "rateP1" <=> pc = "rateP1"
  PROVE  TakenOnce' /\ RatedIsPast' /\ BothRated'
  <1> USE DEF OnceInv
  <1>1. Done \in 0 .. Len(Fin) /\ Reached \in 0 .. Len(Fin) /\ Done' \in Nat /\ Reached' \in Nat
    BY DEF ReadInOrder, FinOnce
  <1>2. \A d : (Among(d, Done) => Among(d, Done)') /\ (Among(d, Reached) => Among(d, Reached)')
    BY <1>1, AmongStays
  <1>3. TakenOnce' BY <1>2 DEF TakenOnce
  <1>4. RatedIsPast' BY <1>2 DEF RatedIsPast
  <1>5. Rated' = Rated BY DEF Rated
  <1>6. \A d : Owed(d)' = Owed(d) BY <1>5 DEF Owed
  <1>7. BothRated' BY <1>6 DEF BothRated
  <1>q. QED BY <1>3, <1>4, <1>7

\* The head of the list leaves it.
LEMMA TailOnce ==
  ASSUME IInv, OnceInv, finalized # <<>>, RateNext,
         UNCHANGED <<log, cursor>>, slips.again \subseteq slips'.again,
         pc \in {"rate", "rateP0", "rateP1"}
  PROVE  /\ TakenOnce' /\ UNCHANGED <<Fin, Done, Reached>>
         /\ \A d \in Duels : d \notin slips.again /\ rated[d].p0 > 0 =>
              \A i \in 1 .. Len(finalized') : finalized'[i].duel # d
         /\ Rated.duel \notin slips.again =>
              /\ Among(Rated.duel, Done)
              /\ \A i \in 1 .. Len(finalized') : finalized'[i].duel # Rated.duel
  <1> USE DEF OnceInv
  <1>1. UNCHANGED <<Fin, Done>> BY DEF Fin, Done, Position
  <1>2. Reached = Done /\ Reached' = Done' BY DEF RateNext, Reached
  <1>3. finalized \in Seq(Outcomes) BY DEF IInv, FinalizedDue, Outcomes
  <1>4. /\ Len(finalized') = Len(finalized) - 1 /\ Len(finalized) \in Nat \ {0}
        /\ \A i \in 1 .. Len(finalized') : finalized'[i] = finalized[i + 1]
        /\ finalized[1] = Rated
    BY <1>3 DEF RateNext, Rated
  <1>5. TakenOnce'
    <2> SUFFICES ASSUME NEW i \in 1 .. Len(finalized'), finalized'[i].duel \notin slips'.again
                 PROVE  /\ Among(finalized[i].duel, Reached)'
                        /\ \A j \in 1 .. Len(finalized') :
                             finalized'[j].duel = finalized'[i].duel => j = i
      BY DEF TakenOnce
    <2>1. i + 1 \in 1 .. Len(finalized) /\ finalized'[i] = finalized[i + 1] BY <1>4
    <2>2. /\ Among(finalized[i + 1].duel, Reached)
          /\ \A j \in 1 .. Len(finalized) :
               finalized[j].duel = finalized[i + 1].duel => j = i + 1
      BY <2>1 DEF TakenOnce
    <2>3. Among(finalized[i].duel, Reached)' BY <1>1, <1>2, <2>1, <2>2 DEF Among
    <2>4. ASSUME NEW j \in 1 .. Len(finalized'), finalized'[j].duel = finalized'[i].duel
          PROVE  j = i
      <3>1. j + 1 \in 1 .. Len(finalized) /\ finalized'[j] = finalized[j + 1] BY <1>4
      <3>q. QED BY <2>1, <2>2, <2>4, <3>1
    <2>q. QED BY <2>3, <2>4
  <1>6. ASSUME NEW d \in Duels, d \notin slips.again, rated[d].p0 > 0,
               NEW i \in 1 .. Len(finalized')
        PROVE  finalized'[i].duel # d
    <2>1. i + 1 \in 1 .. Len(finalized) /\ finalized'[i] = finalized[i + 1] /\ i + 1 # 1
      BY <1>4
    <2>q. QED BY <1>6, <2>1 DEF RatedIsPast
  <1>7. ASSUME Rated.duel \notin slips.again
        PROVE  /\ Among(Rated.duel, Done)
               /\ \A i \in 1 .. Len(finalized') : finalized'[i].duel # Rated.duel
    <2>1. 1 \in 1 .. Len(finalized) BY <1>4
    <2>2. /\ Among(Rated.duel, Reached)
          /\ \A j \in 1 .. Len(finalized) : finalized[j].duel = Rated.duel => j = 1
      BY <1>4, <1>7, <2>1 DEF TakenOnce
    <2>3. \A i \in 1 .. Len(finalized') : i + 1 \in 1 .. Len(finalized) /\ i + 1 # 1
      BY <1>4
    <2>q. QED BY <1>2, <1>4, <2>2, <2>3
  <1>q. QED BY <1>1, <1>2, <1>5, <1>6, <1>7

\* The page of results that is read goes to the end of the list.
LEMMA DrainOnce ==
  ASSUME IInv, OnceInv, drainTracker
  PROVE  ReadInOrder' /\ TakenOnce' /\ RatedIsPast' /\ BothRated'
  <1> USE DEF OnceInv
  <1>0. "DuelFinalized" \in TrackerNames /\ Trackers[at] \in TrackerNames
    BY Names DEF IInv, PageTyped
  <1>1. /\ UNCHANGED <<Fin, Done, rated>> /\ Reached = Done
        /\ pc = "drain" /\ pc' = "save" /\ at' = at
    BY DEF drainTracker, Fin, Done, Position, Reached
  <1>s. slips'.again = slips.again /\ slips.lost \subseteq slips'.lost
    <2>1. CASE UNCHANGED slips BY <2>1
    <2>2. CASE \E ds : gatherResults(ds) BY <2>2, GatheredSlips DEF SlipsTyped
    <2>q. QED BY <2>1, <2>2 DEF drainTracker
  <1>2. Done \in 0 .. Len(Fin) /\ Len(Fin) \in Nat BY DEF ReadInOrder, FinOnce
  <1>3. BothRated' BY <1>1, <1>s DEF BothRated, Owed
  <1>4. CASE Trackers[at] # "DuelFinalized"
    <2>1. finalized' = finalized /\ Reached' = Done BY <1>1, <1>4 DEF drainTracker, Reached
    <2>2. ReadInOrder' BY <1>1, <2>1 DEF ReadInOrder
    <2>q. QED BY <1>1, <1>s, <1>3, <2>1, <2>2 DEF TakenOnce, RatedIsPast, Among
  <1>5. CASE Trackers[at] = "DuelFinalized"
    <2> DEFINE to == PageEnd("DuelFinalized")
               ds == PageOf("DuelFinalized", to)
    <2>1. to \in Done .. Len(Fin)
      BY <1>2 DEF PageEnd, Done, Fin
    <2>2. /\ ds \in Seq(Duels) /\ Len(ds) = to - Done
          /\ \A i \in 1 .. Len(ds) : ds[i] = Fin[Done + i]
      <3>1. ds = SubSeq(Fin, Done + 1, to) BY DEF PageOf, Fin, Done
      <3>2. Fin \in Seq(Duels) BY DEF FinOnce
      <3> HIDE DEF ds, to
      <3>q. QED BY <1>2, <2>1, <3>1, <3>2
    <2>a. gatherResults(ds) BY <1>5 DEF drainTracker
    <2>3. PICK rows : finalized' = finalized \o Results(ds, rows)
      BY <2>a DEF gatherResults
    <2>4. Reached' = to /\ Reached' \in Nat
      <3>1. page'.upto = to BY <1>5 DEF drainTracker
      <3>2. Trackers[at'] = "DuelFinalized" BY <1>1, <1>5
      <3>3. Reached' = to BY <1>1, <3>1, <3>2 DEF Reached
      <3>q. QED BY <1>2, <2>1, <3>3
    <2>5. ReadInOrder' BY <1>1, <1>2, <2>1, <2>4 DEF ReadInOrder
    <2> DEFINE more == Results(ds, rows)
    <2>6. /\ more \in Seq({more[i] : i \in DOMAIN ds}) /\ Len(more) = Len(ds)
          /\ \A i \in 1 .. Len(ds) : more[i].duel = ds[i]
      BY <2>2 DEF Results, Result
    <2>7. finalized \in Seq(Outcomes) BY DEF IInv, FinalizedDue, Outcomes
    <2> HIDE DEF ds, to, more
    <2> DEFINE l == Len(finalized)
               n == Len(ds)
    <2>8. l \in Nat /\ n \in Nat /\ n = to - Done BY <2>2, <2>7
    <2>9. /\ Len(finalized') = l + n
          /\ \A i \in 1 .. l : finalized'[i] = finalized[i]
          /\ \A i \in 1 .. n : finalized'[l + i].duel = Fin[Done + i]
      <3>1. Len(finalized') = l + n /\ \A i \in 1 .. l + n :
              finalized'[i] = IF i <= l THEN finalized[i] ELSE more[i - l]
        BY <2>3, <2>6, <2>7, <2>8 DEF more
      <3>2. \A i \in 1 .. n : l + i \in 1 .. l + n /\ ~(l + i <= l) /\ (l + i) - l = i
        BY <2>8
      <3>3. \A i \in 1 .. l : i \in 1 .. l + n /\ i <= l BY <2>8
      <3> HIDE DEF l, n
      <3>4. \A i \in 1 .. l : finalized'[i] = finalized[i] BY <3>1, <3>3
      <3>5. \A i \in 1 .. n : finalized'[l + i] = more[i] BY <3>1, <3>2
      <3>6. \A i \in 1 .. n : more[i].duel = Fin[Done + i] BY <2>2, <2>6 DEF n
      <3>q. QED BY <3>1, <3>4, <3>5, <3>6
    <2>10. \A i \in 1 .. l + n : i \in 1 .. l \/ \E k \in 1 .. n : i = l + k
      <3> SUFFICES ASSUME NEW i \in 1 .. l + n, i \notin 1 .. l
                   PROVE  \E k \in 1 .. n : i = l + k
        OBVIOUS
      <3>1. i - l \in 1 .. n /\ i = l + (i - l) BY <2>8
      <3>q. QED BY <3>1
    <2> HIDE DEF l, n
    <2>11. \A i \in 1 .. l : finalized[i].duel \notin slips.again =>
             \E k \in 1 .. Done : Fin[k] = finalized[i].duel
      BY <1>1 DEF TakenOnce, Among, l
    <2>12. \A k \in 1 .. n : Done + k \in 1 .. to /\ Done + k \in 1 .. Len(Fin)
      BY <1>2, <2>1, <2>8
    <2>13. \A k \in 1 .. Done, j \in 1 .. n : Fin[k] # Fin[Done + j]
      <3> SUFFICES ASSUME NEW k \in 1 .. Done, NEW j \in 1 .. n PROVE Fin[k] # Fin[Done + j]
        OBVIOUS
      <3>1. k \in 1 .. Len(Fin) /\ Done + j \in 1 .. Len(Fin) /\ k # Done + j
        BY <1>2, <2>8, <2>12
      <3>q. QED BY <3>1 DEF FinOnce
    <2>14. \A i, j \in 1 .. n : Fin[Done + i] = Fin[Done + j] => i = j
      <3> SUFFICES ASSUME NEW i \in 1 .. n, NEW j \in 1 .. n, Fin[Done + i] = Fin[Done + j]
                   PROVE  i = j
        OBVIOUS
      <3>1. Done + i = Done + j BY <2>12 DEF FinOnce
      <3>q. QED BY <1>2, <2>8, <3>1
    <2>15. TakenOnce'
      <3> SUFFICES ASSUME NEW i \in 1 .. l + n, finalized'[i].duel \notin slips.again
                   PROVE  /\ \E k \in 1 .. to : Fin[k] = finalized'[i].duel
                          /\ \A j \in 1 .. l + n :
                               finalized'[j].duel = finalized'[i].duel => j = i
        BY <1>1, <1>s, <2>4, <2>9 DEF TakenOnce, Among
      <3>1. CASE i \in 1 .. l
        <4>1. PICK k \in 1 .. Done : Fin[k] = finalized'[i].duel
          BY <2>9, <2>11, <3>1
        <4>2. k \in 1 .. to BY <1>2, <2>1
        <4>3. \A j \in 1 .. l : finalized'[j].duel = finalized'[i].duel => j = i
          BY <2>9, <3>1 DEF TakenOnce, l
        <4>4. \A j \in 1 .. n : finalized'[l + j].duel # finalized'[i].duel
          BY <2>9, <2>13, <4>1
        <4>q. QED BY <2>10, <4>1, <4>2, <4>3, <4>4
      <3>2. CASE \E k \in 1 .. n : i = l + k
        <4>1. PICK k \in 1 .. n : i = l + k BY <3>2
        <4>2. finalized'[i].duel = Fin[Done + k] BY <2>9, <4>1
        <4>3. \A j \in 1 .. l : finalized'[j].duel # finalized'[i].duel
          <5> SUFFICES ASSUME NEW j \in 1 .. l, finalized'[j].duel = finalized'[i].duel
                       PROVE  FALSE
            OBVIOUS
          <5>1. finalized[j].duel = Fin[Done + k] /\ finalized[j].duel \notin slips.again
            BY <2>9, <4>2
          <5>q. QED BY <2>11, <2>13, <5>1
        <4>4. \A j \in 1 .. n : finalized'[l + j].duel = finalized'[i].duel => l + j = i
          BY <2>9, <2>14, <4>1, <4>2
        <4>q. QED BY <2>10, <2>12, <4>1, <4>2, <4>3, <4>4
      <3>q. QED BY <2>10, <3>1, <3>2
    <2>16. RatedIsPast'
      <3> SUFFICES ASSUME NEW d \in Duels, d \notin slips.again, rated[d].p0 > 0
                   PROVE  /\ rated[d].p0 = 1 /\ Among(d, Done)
                          /\ \A i \in 1 .. l + n : finalized'[i].duel # d
        BY <1>1, <1>s, <2>9 DEF RatedIsPast, Among
      <3>1. rated[d].p0 = 1 /\ Among(d, Done) BY DEF RatedIsPast
      <3>2. \A i \in 1 .. l : finalized'[i].duel # d
        BY <1>1, <2>9 DEF RatedIsPast, l
      <3>3. \A i \in 1 .. n : finalized'[l + i].duel # d
        BY <2>9, <2>13, <3>1 DEF Among
      <3>q. QED BY <2>10, <3>1, <3>2, <3>3
    <2>q. QED BY <1>3, <2>5, <2>15, <2>16
  <1>q. QED BY <1>4, <1>5

\* The page whose cursor cannot be saved stays in the list, as one read again.
LEMMA SaveFailsOnce ==
  ASSUME IInv, OnceInv, saveCursorFails
  PROVE  ReadInOrder' /\ TakenOnce' /\ RatedIsPast' /\ BothRated'
  <1> USE DEF OnceInv
  <1>1. /\ UNCHANGED <<Fin, Done, rated, finalized>>
        /\ pc = "save" /\ pc' \in {"refresh", "drain"}
    BY DEF saveCursorFails, NextTracker, dbVars, Fin, Done, Position
  <1>2. Reached' = Done BY <1>1 DEF Reached
  <1>3. ReadInOrder' BY <1>1, <1>2 DEF ReadInOrder
  <1>4. slips.again \subseteq slips'.again /\ slips'.lost = slips.lost
    BY DEF saveCursorFails, Slip, SlipsTyped
  <1>5. RatedIsPast' BY <1>1, <1>4 DEF RatedIsPast, Among
  <1>6. BothRated' BY <1>1, <1>4 DEF BothRated, Owed
  <1>7. \A d : d \notin slips'.again /\ Among(d, Reached) => Among(d, Done)
    <2>1. CASE Trackers[at] # "DuelFinalized" BY <2>1 DEF Reached
    <2>2. CASE Trackers[at] = "DuelFinalized"
      <3> SUFFICES ASSUME NEW d, d \notin slips'.again, Among(d, Reached), ~Among(d, Done)
                   PROVE  FALSE
        OBVIOUS
      <3>1. Reached = page.upto BY <1>1, <2>2 DEF Reached
      <3>2. PICK k \in 1 .. Reached : Fin[k] = d BY DEF Among
      <3>3. k \in Done + 1 .. Reached /\ Reached \in 0 .. Len(Fin) /\ Done \in Nat
        BY <3>2 DEF Among, ReadInOrder, FinOnce
      <3> DEFINE ds == SubSeq(Fin, Done + 1, Reached)
      <3>4. /\ Len(ds) = Reached - Done
            /\ \A i \in 1 .. Reached - Done : ds[i] = Fin[Done + i] /\ i \in DOMAIN ds
        BY <3>3 DEF FinOnce
      <3> HIDE DEF ds
      <3>5. k - Done \in 1 .. Reached - Done /\ Done + (k - Done) = k BY <3>3
      <3>6. d \in ToSet(ds) BY <3>2, <3>4, <3>5 DEF ToSet
      <3>7. ds = PageOf("DuelFinalized", page.upto) BY <3>1 DEF ds, PageOf, Fin, Done
      <3>8. slips'.again = slips.again \cup ToSet(ds)
        BY <2>2, <3>7 DEF saveCursorFails, Slip, SlipsTyped
      <3>q. QED BY <3>6, <3>8
    <2>q. QED BY <2>1, <2>2
  <1>8. TakenOnce' BY <1>1, <1>2, <1>4, <1>7 DEF TakenOnce, Among
  <1>q. QED BY <1>3, <1>5, <1>6, <1>8

\* A crash empties the list and leaves a half-rated result as it is.
LEMMA CrashOnce ==
  ASSUME IInv, OnceInv, Crash
  PROVE  ReadInOrder' /\ TakenOnce' /\ RatedIsPast' /\ BothRated'
  <1> USE DEF OnceInv
  <1>1. UNCHANGED <<Fin, Done, rated>> /\ finalized' = <<>> /\ pc' = "down"
    BY DEF Crash, dbVars, Fin, Done, Position
  <1>2. Reached' = Done BY <1>1 DEF Reached
  <1>3. ReadInOrder' BY <1>1, <1>2 DEF ReadInOrder
  <1>4. /\ slips'.again = slips.again /\ slips.lost \subseteq slips'.lost
        /\ pc = "rateP1" => Rated.duel \in slips'.lost
    BY DEF Crash, SlipsTyped, HalfRated
  <1>5. TakenOnce' BY <1>1 DEF TakenOnce
  <1>6. RatedIsPast' BY <1>1, <1>4 DEF RatedIsPast, Among
  <1>7. BothRated'
    <2> SUFFICES ASSUME NEW d \in Duels
                 PROVE  /\ rated[d].p1 + rated[d].zero + 0 <= rated[d].p0
                        /\ d \notin slips'.lost =>
                             rated[d].p1 + rated[d].zero + 0 = rated[d].p0
      BY <1>1 DEF BothRated, Owed
    <2>1. rated[d].p1 + rated[d].zero + Owed(d) <= rated[d].p0
      /\ (d \notin slips.lost => rated[d].p1 + rated[d].zero + Owed(d) = rated[d].p0)
      BY DEF BothRated
    <2>2. rated[d].p0 \in Nat /\ rated[d].p1 \in Nat /\ rated[d].zero \in Nat
      BY DEF IInv, RatingShown
    <2>3. CASE pc = "rateP1" /\ Rated.duel = d
      BY <1>4, <2>1, <2>2, <2>3 DEF Owed
    <2>4. CASE ~(pc = "rateP1" /\ Rated.duel = d)
      BY <1>4, <2>1, <2>2, <2>4 DEF Owed
    <2>q. QED BY <2>3, <2>4
  <1>q. QED BY <1>3, <1>5, <1>6, <1>7

\* A result without players, or whose rating failed: the list goes on.
LEMMA DroppedOnce ==
  ASSUME IInv, OnceInv, SkipResult \/ ratingFails
  PROVE  ReadInOrder' /\ TakenOnce' /\ RatedIsPast' /\ BothRated'
  <1> USE DEF OnceInv
  <1>1. /\ RateNext /\ UNCHANGED <<log, cursor, rated>> /\ finalized # <<>>
        /\ pc \in {"rate", "rateP0", "rateP1"}
        /\ Slip("lost", {Rated.duel}) \/ (pc = "rate" /\ UNCHANGED slips)
    BY DEF SkipResult, ratingFails, dbVars, IInv, RatingShown
  <1>2. /\ slips'.again = slips.again /\ slips.lost \subseteq slips'.lost
        /\ pc = "rateP1" => Rated.duel \in slips'.lost
    BY <1>1 DEF Slip, SlipsTyped
  <1>3. /\ TakenOnce' /\ UNCHANGED <<Fin, Done, Reached>>
        /\ \A d \in Duels : d \notin slips.again /\ rated[d].p0 > 0 =>
              \A i \in 1 .. Len(finalized') : finalized'[i].duel # d
    BY <1>1, <1>2, TailOnce
  <1>4. ReadInOrder' BY <1>3 DEF ReadInOrder
  <1>5. RatedIsPast' BY <1>1, <1>2, <1>3 DEF RatedIsPast, Among
  <1>6. BothRated'
    <2> SUFFICES ASSUME NEW d \in Duels
                 PROVE  /\ rated[d].p1 + rated[d].zero + 0 <= rated[d].p0
                        /\ d \notin slips'.lost =>
                             rated[d].p1 + rated[d].zero + 0 = rated[d].p0
      BY <1>1 DEF BothRated, Owed, RateNext
    <2>1. /\ rated[d].p1 + rated[d].zero + Owed(d) <= rated[d].p0
          /\ d \notin slips.lost => rated[d].p1 + rated[d].zero + Owed(d) = rated[d].p0
      BY DEF BothRated
    <2>2. rated[d].p0 \in Nat /\ rated[d].p1 \in Nat /\ rated[d].zero \in Nat
      BY DEF IInv, RatingShown
    <2>3. CASE pc = "rateP1" /\ Rated.duel = d
      BY <1>2, <2>1, <2>2, <2>3 DEF Owed
    <2>4. CASE ~(pc = "rateP1" /\ Rated.duel = d)
      BY <1>2, <2>1, <2>2, <2>4 DEF Owed
    <2>q. QED BY <2>3, <2>4
  <1>q. QED BY <1>3, <1>4, <1>5, <1>6

\* The two writes of a result.
LEMMA CreditOnce ==
  ASSUME IInv, OnceInv, applyDuelOutcome
  PROVE  ReadInOrder' /\ TakenOnce' /\ RatedIsPast' /\ BothRated'
  <1> USE DEF OnceInv
  <1>1. UNCHANGED <<Fin, Done, log, cursor, slips>>
    BY DEF applyDuelOutcome, Fin, Done, Position
  <1>2. /\ finalized \in Seq(Outcomes) /\ finalized # <<>>
        /\ pc \in {"rateP0", "rateP1"} /\ Rated.p1 # "none" /\ Rated.duel \in Duels
        /\ Rated = finalized[1] /\ 1 \in 1 .. Len(finalized)
        /\ Rated.p1 \in {"none", "zero", "p1"}
    BY DEF applyDuelOutcome, IInv, RatingShown, FinalizedDue, Due, Rated, Outcomes
  <1>3. PICK d \in Duels : d = Rated.duel BY <1>2
  <1>4. \A e \in Duels : rated[e] \in [p0 : Nat, p1 : Nat, zero : Nat]
    BY DEF IInv, RatingShown
  <1>5. /\ rated[d].p1 + rated[d].zero + Owed(d) <= rated[d].p0
        /\ d \notin slips.lost => rated[d].p1 + rated[d].zero + Owed(d) = rated[d].p0
    BY DEF BothRated
  <1>6. CASE pc = "rateP0"
    <2>1. /\ pc' = "rateP1" /\ finalized' = finalized /\ Rated' = Rated
          /\ rated' = [rated EXCEPT ![d]["p0"] = @ + 1]
      BY <1>3, <1>6 DEF applyDuelOutcome, Credit, Rated
    <2>2. /\ rated'[d].p0 = rated[d].p0 + 1 /\ rated'[d].p1 = rated[d].p1
          /\ rated'[d].zero = rated[d].zero
          /\ \A e \in Duels : e # d => rated'[e] = rated[e]
      BY <1>4, <2>1 DEF IInv, RatingShown
    <2>3. Reached = Done /\ Reached' = Done BY <1>1, <1>6, <2>1 DEF Reached
    <2>4. ReadInOrder' /\ TakenOnce'
      BY <1>1, <2>1, <2>3 DEF ReadInOrder, TakenOnce, Among
    <2>5. ASSUME d \notin slips.again
          PROVE  /\ rated[d].p0 = 0 /\ Among(d, Done)
                 /\ \A j \in 1 .. Len(finalized) : finalized[j].duel = d => j = 1
      <3>1. ~(rated[d].p0 > 0) BY <1>2, <1>3, <1>6, <2>5 DEF RatedIsPast
      <3>q. QED BY <1>2, <1>3, <1>4, <2>3, <2>5, <3>1 DEF TakenOnce
    <2>6. RatedIsPast'
      <3> SUFFICES ASSUME NEW e \in Duels, e \notin slips.again, rated'[e].p0 > 0
                   PROVE  /\ rated'[e].p0 = 1 /\ Among(e, Done)
                          /\ \A i \in 1 .. Len(finalized) : finalized[i].duel = e => i = 1
        BY <1>1, <2>1 DEF RatedIsPast, Among
      <3>1. CASE e = d BY <2>2, <2>5, <3>1
      <3>2. CASE e # d BY <1>6, <2>2, <3>2 DEF RatedIsPast
      <3>q. QED BY <3>1, <3>2
    <2>7. BothRated'
      <3> SUFFICES ASSUME NEW e \in Duels
                   PROVE  /\ rated'[e].p1 + rated'[e].zero + Owed(e)' <= rated'[e].p0
                          /\ e \notin slips.lost =>
                               rated'[e].p1 + rated'[e].zero + Owed(e)' = rated'[e].p0
        BY <1>1 DEF BothRated
      <3>1. Owed(d) = 0 /\ Owed(d)' = 1 BY <1>3, <1>6, <2>1 DEF Owed
      <3>2. CASE e = d
        <4>1. rated[d].p0 \in Nat /\ rated[d].p1 \in Nat /\ rated[d].zero \in Nat BY <1>4
        <4>q. QED BY <1>5, <2>2, <3>1, <3>2, <4>1
      <3>3. CASE e # d
        <4>1. Owed(e) = 0 /\ Owed(e)' = 0 BY <1>3, <1>6, <2>1, <3>3 DEF Owed
        <4>q. QED BY <2>2, <3>3, <4>1 DEF BothRated
      <3>q. QED BY <3>2, <3>3
    <2>q. QED BY <2>4, <2>6, <2>7
  <1>7. CASE pc = "rateP1"
    <2>1. PICK s \in {"p1", "zero"} :
            RateNext /\ rated' = [rated EXCEPT ![d][s] = @ + 1]
      BY <1>2, <1>3, <1>7 DEF applyDuelOutcome, Credit
    <2>2. /\ rated'[d].p0 = rated[d].p0
          /\ rated'[d].p1 + rated'[d].zero = rated[d].p1 + rated[d].zero + 1
          /\ \A e \in Duels : e # d => rated'[e] = rated[e]
      <3>1. rated[d].p0 \in Nat /\ rated[d].p1 \in Nat /\ rated[d].zero \in Nat BY <1>4
      <3>2. CASE s = "p1" BY <1>4, <2>1, <3>1, <3>2 DEF IInv, RatingShown
      <3>3. CASE s = "zero" BY <1>4, <2>1, <3>1, <3>3 DEF IInv, RatingShown
      <3>q. QED BY <3>2, <3>3
    <2>3. /\ TakenOnce' /\ UNCHANGED <<Fin, Done, Reached>>
          /\ \A e \in Duels : e \notin slips.again /\ rated[e].p0 > 0 =>
                \A i \in 1 .. Len(finalized') : finalized'[i].duel # e
      BY <1>1, <1>2, <2>1, TailOnce
    <2>4. ReadInOrder' BY <2>3 DEF ReadInOrder
    <2>5. \A e \in Duels : rated'[e].p0 = rated[e].p0 BY <2>2
    <2>6. RatedIsPast' BY <1>1, <2>3, <2>5 DEF RatedIsPast, Among
    <2>7. BothRated'
      <3> SUFFICES ASSUME NEW e \in Duels
                   PROVE  /\ rated'[e].p1 + rated'[e].zero + 0 <= rated'[e].p0
                          /\ e \notin slips.lost =>
                               rated'[e].p1 + rated'[e].zero + 0 = rated'[e].p0
        BY <1>1, <2>1 DEF BothRated, Owed, RateNext
      <3>1. /\ rated[e].p1 + rated[e].zero + Owed(e) <= rated[e].p0
            /\ e \notin slips.lost => rated[e].p1 + rated[e].zero + Owed(e) = rated[e].p0
        BY DEF BothRated
      <3>2. rated[e].p0 \in Nat /\ rated[e].p1 \in Nat /\ rated[e].zero \in Nat BY <1>4
      <3>3. CASE e = d
        <4>1. Owed(d) = 1 BY <1>3, <1>7 DEF Owed
        <4>2. rated'[d].p1 + rated'[d].zero + 0 = rated[d].p1 + rated[d].zero + 1
          <5>1. rated'[d].p1 \in Nat /\ rated'[d].zero \in Nat
            BY <2>1, <1>4 DEF IInv, RatingShown
          <5>q. QED BY <2>2, <5>1
        <4>q. QED BY <2>2, <3>1, <3>2, <3>3, <4>1, <4>2
      <3>4. CASE e # d
        <4>1. Owed(e) = 0 BY <1>3, <3>4 DEF Owed
        <4>q. QED BY <2>2, <3>1, <3>4, <4>1
      <3>q. QED BY <3>3, <3>4
    <2>q. QED BY <2>3, <2>4, <2>6, <2>7
  <1>q. QED BY <1>2, <1>6, <1>7

\* A step that saves no cursor and reads nothing.
LEMMA StillOnce ==
  ASSUME IInv, OnceInv, FinOnce', FinGrows, UNCHANGED <<finalized, rated, cursor>>,
         \/ UNCHANGED <<pc, at, page>>
         \/ pc \notin {"save", "rateP1"} /\ pc' \notin {"save", "rateP1"},
         slips.again \subseteq slips'.again, slips.lost \subseteq slips'.lost
  PROVE  ReadInOrder' /\ TakenOnce' /\ RatedIsPast' /\ BothRated'
  <1> USE DEF OnceInv
  <1>1. Done' = Done BY DEF Done, Position
  <1>2. Reached' = Reached BY <1>1 DEF Reached
  <1>3. Len(Fin) \in Nat /\ Len(Fin') \in Nat BY DEF FinOnce
  <1>4. ReadInOrder' BY <1>1, <1>2, <1>3 DEF ReadInOrder, FinGrows
  <1>5. Done <= Done' /\ Reached <= Reached' BY <1>1, <1>2 DEF ReadInOrder
  <1>q. QED BY <1>4, <1>5, QuietOnce

\* A cursor is set: to the newest event, or to the end of the page.
LEMMA SeedOnce ==
  ASSUME IInv, OnceInv, FinGrows, seedCursor,
         slips.again \subseteq slips'.again, slips.lost \subseteq slips'.lost
  PROVE  ReadInOrder' /\ TakenOnce' /\ RatedIsPast' /\ BothRated'
  <1> USE DEF OnceInv
  <1>0. Len(Fin) \in Nat /\ "DuelFinalized" \in TrackerNames BY Names DEF FinOnce
  <1>1. /\ UNCHANGED <<Fin, finalized, rated>> /\ pc = "seed"
        /\ pc' \in {"seed", "idle"}
    BY DEF seedCursor, SeedNext, Fin
  <1>2. Reached = Done /\ Reached' = Done' BY <1>1 DEF Reached
  <1>3. Done' = Done \/ Done' = Len(Fin)
    <2>1. CASE UNCHANGED cursor BY <2>1 DEF Done, Position
    <2>2. CASE cursor' = [cursor EXCEPT ![Trackers[at]] = Len(log[Trackers[at]])]
      <3>1. CASE Trackers[at] = "DuelFinalized"
        <4>1. cursor'["DuelFinalized"] = Len(Fin)
          BY <1>0, <2>2, <3>1 DEF IInv, CursorTyped, Fin
        <4>q. QED BY <1>0, <4>1 DEF Done, Position, NoCursor
      <3>2. CASE Trackers[at] # "DuelFinalized"
        <4>1. cursor'["DuelFinalized"] = cursor["DuelFinalized"]
          BY <1>0, <2>2, <3>2 DEF IInv, CursorTyped
        <4>q. QED BY <4>1 DEF Done, Position
      <3>q. QED BY <3>1, <3>2
    <2>q. QED BY <2>1, <2>2 DEF seedCursor, Seeded
  <1>4. ReadInOrder' /\ Done <= Done' /\ Reached <= Reached'
    BY <1>0, <1>1, <1>2, <1>3 DEF ReadInOrder
  <1>q. QED BY <1>1, <1>4, QuietOnce

LEMMA SaveOnce ==
  ASSUME IInv, OnceInv, FinGrows, saveCursor
  PROVE  ReadInOrder' /\ TakenOnce' /\ RatedIsPast' /\ BothRated'
  <1> USE DEF OnceInv
  <1>0. Len(Fin) \in Nat /\ "DuelFinalized" \in TrackerNames BY Names DEF FinOnce
  <1>1. /\ UNCHANGED <<Fin, finalized, rated, slips>> /\ pc = "save"
        /\ pc' \in {"drain", "refresh"}
    BY DEF saveCursor, NextTracker, Fin
  <1>2. Reached' = Done' BY <1>1 DEF Reached
  <1>3. Done' = Reached
    <2>1. CASE Trackers[at] = "DuelFinalized"
      <3>1. cursor'["DuelFinalized"] = page.upto /\ Reached = page.upto
        BY <1>0, <1>1, <2>1 DEF saveCursor, IInv, CursorTyped, Reached
      <3>q. QED BY <3>1 DEF Done, Position, NoCursor, ReadInOrder
    <2>2. CASE Trackers[at] # "DuelFinalized"
      <3>1. cursor'["DuelFinalized"] = cursor["DuelFinalized"] /\ Reached = Done
        BY <1>0, <2>2 DEF saveCursor, IInv, CursorTyped, Reached
      <3>q. QED BY <3>1 DEF Done, Position
    <2>q. QED BY <2>1, <2>2
  <1>4. ReadInOrder' /\ Done <= Done' /\ Reached <= Reached'
    BY <1>0, <1>1, <1>2, <1>3 DEF ReadInOrder
  <1>q. QED BY <1>1, <1>4, QuietOnce

LEMMA NextOnce == IInv /\ OnceInv /\ [Next]_vars => OnceInv'
  <1> SUFFICES ASSUME IInv, OnceInv, [Next]_vars PROVE OnceInv' OBVIOUS
  <1>1. SlipsTyped' /\ slips.again \subseteq slips'.again /\ slips.lost \subseteq slips'.lost
    BY SlipsKept DEF OnceInv
  <1>2. FinOnce' /\ FinGrows BY FinMoves DEF OnceInv
  <1> DEFINE Rest == ReadInOrder' /\ TakenOnce' /\ RatedIsPast' /\ BothRated'
  <1>3. CASE ChainStep \/ UNCHANGED vars
    <2>1. UNCHANGED <<finalized, rated, cursor, pc, at, page>>
      BY <1>3 DEF ChainStep, vars, dbVars, tickVars
    <2>q. QED BY <1>1, <1>2, <2>1, StillOnce DEF OnceInv
  <1>4. CASE start \/ startFails \/ tick \/ TrackerDone
    <2>1. /\ UNCHANGED <<finalized, rated, cursor>>
          /\ pc \notin {"save", "rateP1"} /\ pc' \notin {"save", "rateP1"}
      BY <1>4 DEF start, startFails, tick, TrackerDone, NextTracker, dbVars
    <2>q. QED BY <1>1, <1>2, <2>1, StillOnce DEF OnceInv
  <1>5. CASE \/ (\E d \in Duels : fetchDuel(d)) \/ upsertDuel \/ refreshFails
             \/ AllRefreshed \/ setDuelWinner \/ TickDone
    <2>1. /\ UNCHANGED <<finalized, rated, cursor>>
          /\ pc \notin {"save", "rateP1"} /\ pc' \notin {"save", "rateP1"}
      BY <1>5 DEF fetchDuel, upsertDuel, refreshFails, AllRefreshed, setDuelWinner,
         TickDone, dbVars
    <2>q. QED BY <1>1, <1>2, <2>1, StillOnce DEF OnceInv
  <1>6. CASE seedCursor BY <1>1, <1>2, <1>6, SeedOnce DEF OnceInv
  <1>7. CASE saveCursor BY <1>1, <1>2, <1>7, SaveOnce DEF OnceInv
  <1>8. CASE drainTracker BY <1>1, <1>2, <1>8, DrainOnce DEF OnceInv
  <1>9. CASE saveCursorFails BY <1>1, <1>2, <1>9, SaveFailsOnce DEF OnceInv
  <1>10. CASE Crash BY <1>1, <1>2, <1>10, CrashOnce DEF OnceInv
  <1>11. CASE SkipResult \/ ratingFails BY <1>1, <1>2, <1>11, DroppedOnce DEF OnceInv
  <1>12. CASE applyDuelOutcome BY <1>1, <1>2, <1>12, CreditOnce DEF OnceInv
  <1>q. QED
    BY <1>3, <1>4, <1>5, <1>6, <1>7, <1>8, <1>9, <1>10, <1>11, <1>12 DEF Next, Loop

-----------------------------------------------------------------------------
(* Why a result that was read is rated.  A result is taken for no players, *)
(* or for the zero address, only if its row could not be read (lost) or did*)
(* not know them yet (late); and a duel below the cursor is rated, still in*)
(* the list, or one of these.                                              *)

Excused(d) == d \in slips.lost \cup slips.late
Listed(d) == \E i \in 1 .. Len(finalized) : finalized[i].duel = d

Explained(r) ==
  /\ r.p1 = "zero" => r.duel \in slips.late
  /\ r.p1 = "none" => Excused(r.duel)
ListExplained == \A i \in 1 .. Len(finalized) : Explained(finalized[i])

ZeroIsLate == \A d \in Duels : rated[d].zero > 0 => d \in slips.late

ReadIsRated ==
  \A d \in Duels : Among(d, Reached) => rated[d].p0 > 0 \/ Listed(d) \/ Excused(d)

ListEmpty == pc \in {"down", "seed", "stalled", "idle"} => finalized = <<>>

LateInv == ListExplained /\ ZeroIsLate /\ ReadIsRated /\ ListEmpty

LEMMA InitLate == Init => LateInv
  <1> SUFFICES ASSUME Init PROVE LateInv OBVIOUS
  <1>1. Reached = 0
    BY Names DEF Init, Done, Reached, Position, NoCursor
  <1>2. finalized = <<>> /\ \A d \in Duels : rated[d] = [p0 |-> 0, p1 |-> 0, zero |-> 0]
    BY DEF Init
  <1> QED
    BY <1>1, <1>2 DEF LateInv, ListExplained, ZeroIsLate, ReadIsRated, ListEmpty, Among

\* What is excused stays so.
LEMMA ExcusedStays ==
  ASSUME SlipsTyped, [Next]_vars
  PROVE  /\ \A d : Excused(d) => Excused(d)'
         /\ \A d : d \in slips.late => d \in slips'.late
  BY SlipsKept DEF Excused

\* A step that rates nobody, takes nothing from the list and reads no further,
\* unless what it passes over is excused.
LEMMA KeepsLate ==
  ASSUME OnceInv, LateInv, [Next]_vars, FinGrows, UNCHANGED <<finalized, rated>>,
         Reached \in 0 .. Len(Fin), ListEmpty',
         \A d \in Duels : Among(d, Reached)' => Among(d, Reached) \/ Excused(d)'
  PROVE  LateInv'
  <1>1. /\ \A d : Excused(d) => Excused(d)'
        /\ \A d : d \in slips.late => d \in slips'.late
    BY ExcusedStays DEF OnceInv
  <1>2. ListExplained' BY <1>1 DEF LateInv, ListExplained, Explained, Excused
  <1>3. ZeroIsLate' BY <1>1 DEF LateInv, ZeroIsLate
  <1>4. \A d : Listed(d)' <=> Listed(d) BY DEF Listed
  <1>5. ReadIsRated' BY <1>1, <1>4 DEF LateInv, ReadIsRated
  <1> QED BY <1>2, <1>3, <1>5 DEF LateInv

\* A step that reads no further.
LEMMA StillLate ==
  ASSUME IInv, OnceInv, LateInv, [Next]_vars, FinGrows,
         UNCHANGED <<finalized, rated>>, ListEmpty',
         Reached' \in 0 .. Reached
  PROVE  LateInv'
  <1>1. Reached \in Nat /\ Reached \in 0 .. Len(Fin) /\ Len(Fin) \in Nat
    BY DEF OnceInv, ReadInOrder, FinOnce
  <1>2. ASSUME NEW d \in Duels, Among(d, Reached)' PROVE Among(d, Reached)
    <2>1. PICK k \in 1 .. Reached' : Fin'[k] = d BY <1>2 DEF Among
    <2>2. k \in 1 .. Reached /\ k \in 1 .. Len(Fin) BY <1>1
    <2>3. Fin[k] = d BY <2>1, <2>2 DEF FinGrows
    <2> QED BY <2>2, <2>3 DEF Among
  <1> QED BY <1>1, <1>2, KeepsLate

\* A seeded cursor passes over results that are lost.
LEMMA SeedLate ==
  ASSUME IInv, OnceInv, LateInv, [Next]_vars, FinGrows, seedCursor
  PROVE  LateInv'
  <1>0. /\ "DuelFinalized" \in TrackerNames /\ Fin \in Seq(Duels) /\ Len(Fin) \in Nat
        /\ Reached \in 0 .. Len(Fin)
    BY Names DEF OnceInv, FinOnce, ReadInOrder
  <1>1. /\ UNCHANGED <<log, finalized, rated>> /\ pc = "seed"
        /\ pc' \in {"seed", "idle"}
    BY DEF seedCursor, SeedNext
  <1>2. ListEmpty' BY <1>1 DEF LateInv, ListEmpty
  <1>3. Reached = Done /\ Reached' = Done' /\ Fin' = Fin BY <1>1 DEF Reached, Fin
  <1>4. CASE Done' = Done
    BY <1>0, <1>1, <1>2, <1>3, <1>4, StillLate
  <1>5. CASE Done' # Done
    <2>1. Seeded(Trackers[at]) BY <1>1, <1>5 DEF seedCursor, Done, Position
    <2>2. Trackers[at] = "DuelFinalized"
      <3>1. CASE Trackers[at] # "DuelFinalized"
        <4>1. cursor'["DuelFinalized"] = cursor["DuelFinalized"]
          BY <1>0, <2>1, <3>1 DEF Seeded, IInv, CursorTyped
        <4> QED BY <1>5, <1>1, <4>1 DEF Done, Position
      <3> QED BY <3>1
    <2>3. slips'.lost = slips.lost \cup ToSet(Fin)
      BY <2>1, <2>2 DEF Seeded, Fin, OnceInv, SlipsTyped
    <2>4. Done' \in 0 .. Len(Fin)
      <3>1. ReadInOrder' BY SeedOnce, SlipsKept DEF OnceInv
      <3> QED BY <1>0, <1>3, <3>1 DEF ReadInOrder
    <2>5. ASSUME NEW d \in Duels, Among(d, Reached)' PROVE Excused(d)'
      <3>1. PICK k \in 1 .. Done' : Fin[k] = d BY <1>3, <2>5 DEF Among
      <3>2. k \in 1 .. Len(Fin) BY <1>0, <2>4
      <3>3. d \in ToSet(Fin) BY <1>0, <3>1, <3>2 DEF ToSet
      <3> QED BY <2>3, <3>3 DEF Excused
    <2> QED BY <1>0, <1>1, <1>2, <2>5, KeepsLate
  <1> QED BY <1>4, <1>5

\* The cursor moves to the end of the page that was read.
LEMMA SaveLate ==
  ASSUME IInv, OnceInv, LateInv, [Next]_vars, FinGrows, saveCursor
  PROVE  LateInv'
  <1>0. "DuelFinalized" \in TrackerNames /\ Reached \in Nat
    BY Names DEF OnceInv, ReadInOrder
  <1>1. /\ UNCHANGED <<log, finalized, rated>> /\ pc = "save"
        /\ pc' \in {"drain", "refresh"}
    BY DEF saveCursor, NextTracker
  <1>2. Reached' = Done' BY <1>1 DEF Reached
  <1>3. Done' = Reached
    <2>1. CASE Trackers[at] = "DuelFinalized"
      <3>1. cursor'["DuelFinalized"] = page.upto /\ Reached = page.upto
        BY <1>0, <1>1, <2>1 DEF saveCursor, IInv, CursorTyped, Reached
      <3> QED BY <1>0, <3>1 DEF Done, Position, NoCursor
    <2>2. CASE Trackers[at] # "DuelFinalized"
      <3>1. cursor'["DuelFinalized"] = cursor["DuelFinalized"] /\ Reached = Done
        BY <1>0, <2>2 DEF saveCursor, IInv, CursorTyped, Reached
      <3> QED BY <3>1 DEF Done, Position
    <2> QED BY <2>1, <2>2
  <1>4. ListEmpty' BY <1>1 DEF ListEmpty
  <1> QED BY <1>0, <1>1, <1>2, <1>3, <1>4, StillLate

\* What a result is taken for, by its row and by what is recorded of it.
LEMMA GatheredExplained ==
  ASSUME IInv, SlipsTyped, NEW ds \in Seq(Duels), NEW failed \in SUBSET ToSet(ds),
         NEW d \in ToSet(ds),
         slips' = [slips EXCEPT !.lost = @ \cup failed,
                                !.late = @ \cup Unready(ToSet(ds) \ failed)]
  PROVE  /\ Result(d, RowsRead(failed)[d]).duel = d
         /\ Result(d, RowsRead(failed)[d]).p1 = "zero" => d \in slips'.late
         /\ Result(d, RowsRead(failed)[d]).p1 = "none" => d \in slips'.lost \cup slips'.late
  <1>1. d \in Duels BY DEF ToSet
  <1>2. RowsRead(failed)[d] = IF d \in failed THEN NoRow ELSE mirror[d]
    BY <1>1 DEF RowsRead
  <1>3. /\ slips'.lost = slips.lost \cup failed
        /\ slips'.late = slips.late \cup Unready(ToSet(ds) \ failed)
    BY DEF SlipsTyped
  <1>4. CASE d \in failed
    BY <1>2, <1>3, <1>4 DEF Result, Challenger, NoRow, Absent
  <1>5. CASE d \notin failed
    <2>1. mirror[d].stage < Active => d \in slips'.late
      BY <1>3, <1>5 DEF Unready
    <2>2. mirror[d].stage \in {Absent, Pending} => d \in slips'.late
      BY <2>1 DEF Absent, Pending, Active
    <2> QED BY <1>2, <1>5, <2>2 DEF Result, Challenger, Absent, Pending
  <1> QED BY <1>4, <1>5

LEMMA EachOfBoth ==
  ASSUME NEW S, NEW T, NEW a \in Seq(S), NEW b \in Seq(T)
  PROVE  /\ Len(a \o b) = Len(a) + Len(b) /\ Len(a) \in Nat /\ Len(b) \in Nat
         /\ \A i \in 1 .. Len(a) + Len(b) :
              (a \o b)[i] = IF i <= Len(a) THEN a[i] ELSE b[i - Len(a)]
  OBVIOUS

\* The page of results that is read goes into the list, result by result.
LEMMA DrainLate ==
  ASSUME IInv, OnceInv, LateInv, [Next]_vars, FinGrows, drainTracker
  PROVE  LateInv'
  <1>0. "DuelFinalized" \in TrackerNames /\ Trackers[at] \in TrackerNames
    BY Names DEF IInv, PageTyped
  <1>1. /\ UNCHANGED <<log, cursor, rated>> /\ pc = "drain" /\ pc' = "save" /\ at' = at
        /\ UNCHANGED <<Fin, Done>> /\ Reached = Done
    BY DEF drainTracker, Fin, Done, Position, Reached
  <1>2. ListEmpty' BY <1>1 DEF ListEmpty
  <1>3. /\ Done \in 0 .. Len(Fin) /\ Len(Fin) \in Nat /\ Fin \in Seq(Duels)
        /\ SlipsTyped
    BY DEF OnceInv, ReadInOrder, FinOnce
  <1>4. CASE Trackers[at] # "DuelFinalized"
    <2>1. finalized' = finalized /\ Reached' = Done
      BY <1>1, <1>4 DEF drainTracker, Reached
    <2> QED BY <1>1, <1>2, <1>3, <2>1, StillLate
  <1>5. CASE Trackers[at] = "DuelFinalized"
    <2> DEFINE to == PageEnd("DuelFinalized")
               ds == PageOf("DuelFinalized", to)
    <2>1. to \in Done .. Len(Fin) BY <1>3 DEF PageEnd, Done, Fin
    <2>2. gatherResults(ds) /\ page'.upto = to BY <1>5 DEF drainTracker
    <2>3. Reached' = to
      BY <1>1, <1>5, <2>2 DEF Reached
    <2>4. /\ ds \in Seq(Duels) /\ Len(ds) = to - Done
          /\ \A i \in 1 .. Len(ds) : ds[i] = Fin[Done + i]
      <3>1. ds = SubSeq(Fin, Done + 1, to) BY DEF PageOf, Fin, Done
      <3> HIDE DEF ds, to
      <3> QED BY <1>3, <2>1, <3>1
    <2> HIDE DEF ds, to
    <2>5. PICK failed \in SUBSET ToSet(ds) :
            /\ finalized' = finalized \o Results(ds, RowsRead(failed))
            /\ slips' = [slips EXCEPT !.lost = @ \cup failed,
                                     !.late = @ \cup Unready(ToSet(ds) \ failed)]
      BY <2>2 DEF gatherResults
    <2> DEFINE rows == RowsRead(failed)
               more == Results(ds, rows)
    <2>6. /\ Len(more) = Len(ds) /\ Len(ds) \in Nat /\ DOMAIN ds = 1 .. Len(ds)
          /\ \A i \in 1 .. Len(ds) : more[i] = Result(ds[i], rows[ds[i]])
      BY <2>4 DEF Results
    <2>7. \A i \in 1 .. Len(ds) : ds[i] \in ToSet(ds) BY <2>6 DEF ToSet
    <2>8. \A i \in 1 .. Len(ds) :
            /\ more[i].duel = ds[i]
            /\ more[i].p1 = "zero" => ds[i] \in slips'.late
            /\ more[i].p1 = "none" => ds[i] \in slips'.lost \cup slips'.late
      <3> SUFFICES ASSUME NEW i \in 1 .. Len(ds)
                   PROVE  /\ more[i].duel = ds[i]
                          /\ more[i].p1 = "zero" => ds[i] \in slips'.late
                          /\ more[i].p1 = "none" => ds[i] \in slips'.lost \cup slips'.late
        OBVIOUS
      <3>1. PICK d \in ToSet(ds) : d = ds[i] BY <2>7
      <3>2. more[i] = Result(d, RowsRead(failed)[d]) BY <2>6, <3>1 DEF rows
      <3>3. /\ Result(d, RowsRead(failed)[d]).duel = d
            /\ Result(d, RowsRead(failed)[d]).p1 = "zero" => d \in slips'.late
            /\ Result(d, RowsRead(failed)[d]).p1 = "none" => d \in slips'.lost \cup slips'.late
        BY <1>3, <2>4, <2>5, GatheredExplained
      <3> HIDE DEF more, rows
      <3> QED BY <3>1, <3>2, <3>3
    <2>9. finalized \in Seq(Outcomes) BY DEF IInv, FinalizedDue, Outcomes
    <2>10. more \in Seq({more[i] : i \in 1 .. Len(ds)}) BY <2>6 DEF Results
    <2>11. finalized' = finalized \o more BY <2>5
    <2> HIDE DEF more, rows
    <2>12. /\ Len(finalized') = Len(finalized) + Len(ds) /\ Len(finalized) \in Nat
           /\ \A i \in 1 .. Len(finalized) + Len(ds) :
                finalized'[i] = IF i <= Len(finalized) THEN finalized[i]
                                ELSE more[i - Len(finalized)]
      <3>1. \A i \in 1 .. Len(finalized) + Len(more) :
              (finalized \o more)[i] = IF i <= Len(finalized) THEN finalized[i]
                                       ELSE more[i - Len(finalized)]
        BY <2>9, <2>10, EachOfBoth
      <3>2. /\ Len(finalized \o more) = Len(finalized) + Len(more)
            /\ Len(finalized) \in Nat
        BY <2>9, <2>10, EachOfBoth
      <3> QED BY <2>6, <2>11, <3>1, <3>2
    <2>13. /\ \A d : Excused(d) => Excused(d)'
           /\ \A d : d \in slips.late => d \in slips'.late
      BY <1>3, ExcusedStays
    <2>14. ListExplained'
      <3> SUFFICES ASSUME NEW i \in 1 .. Len(finalized')
                   PROVE  /\ finalized'[i].p1 = "zero" => finalized'[i].duel \in slips'.late
                          /\ finalized'[i].p1 = "none" =>
                               finalized'[i].duel \in slips'.lost \cup slips'.late
        BY DEF ListExplained, Explained, Excused
      <3>1. CASE i <= Len(finalized)
        <4>1. i \in 1 .. Len(finalized) /\ finalized'[i] = finalized[i]
          BY <2>12, <3>1
        <4>2. Explained(finalized[i]) BY <4>1 DEF LateInv, ListExplained
        <4> QED BY <2>13, <4>1, <4>2 DEF Explained, Excused
      <3>2. CASE ~(i <= Len(finalized))
        <4>1. PICK k : k = i - Len(finalized) OBVIOUS
        <4>2. k \in 1 .. Len(ds) /\ finalized'[i] = more[k]
          BY <2>6, <2>12, <3>2, <4>1
        <4> QED BY <2>8, <4>2
      <3> QED BY <3>1, <3>2
    <2>15. ZeroIsLate' BY <1>1, <2>13 DEF LateInv, ZeroIsLate
    <2>16. ReadIsRated'
      <3> SUFFICES ASSUME NEW d \in Duels, Among(d, to)
                   PROVE  rated[d].p0 > 0 \/ Listed(d)' \/ Excused(d)'
        BY <1>1, <2>3 DEF ReadIsRated, Among
      <3>1. PICK k \in 1 .. to : Fin[k] = d BY DEF Among
      <3>2. CASE k <= Done
        <4>1. Among(d, Done) BY <1>3, <2>1, <3>1, <3>2 DEF Among
        <4>2. rated[d].p0 > 0 \/ Listed(d) \/ Excused(d)
          BY <1>1, <4>1 DEF LateInv, ReadIsRated
        <4>3. Listed(d) => Listed(d)'
          <5> SUFFICES ASSUME Listed(d) PROVE Listed(d)' OBVIOUS
          <5>1. PICK i \in 1 .. Len(finalized) : finalized[i].duel = d BY DEF Listed
          <5>2. i \in 1 .. Len(finalized') /\ finalized'[i] = finalized[i]
            BY <2>6, <2>12
          <5> QED BY <5>1, <5>2 DEF Listed
        <4> QED BY <2>13, <4>2, <4>3
      <3>3. CASE ~(k <= Done)
        <4>1. PICK j : j = k - Done OBVIOUS
        <4>2. j \in 1 .. Len(ds) /\ ds[j] = d
          <5>1. j \in 1 .. to - Done /\ Done + j = k BY <1>3, <2>1, <3>3, <4>1
          <5> QED BY <2>4, <3>1, <5>1
        <4>3. PICK i : i = Len(finalized) + j OBVIOUS
        <4>4. i \in 1 .. Len(finalized') /\ finalized'[i] = more[j]
          BY <2>6, <2>12, <4>2, <4>3
        <4>5. finalized'[i].duel = d BY <2>8, <4>2, <4>4
        <4> QED BY <4>4, <4>5 DEF Listed
      <3> QED BY <3>2, <3>3
    <2> QED BY <1>2, <2>14, <2>15, <2>16 DEF LateInv
  <1> QED BY <1>4, <1>5

\* What was read from the pages below the cursor is lost with the list.
LEMMA CrashLate ==
  ASSUME IInv, OnceInv, LateInv, [Next]_vars, FinGrows, Crash
  PROVE  LateInv'
  <1>0. Done \in 0 .. Len(Fin) /\ Fin \in Seq(Duels) /\ Len(Fin) \in Nat /\ SlipsTyped
        /\ Reached \in Nat /\ Done <= Reached
    BY DEF OnceInv, ReadInOrder, FinOnce
  <1>1. UNCHANGED <<Fin, Done, rated>> /\ finalized' = <<>> /\ pc' = "down"
    BY DEF Crash, dbVars, Fin, Done, Position
  <1>2. Reached' = Done BY <1>1 DEF Reached
  <1>3. /\ \A d : Excused(d) => Excused(d)'
        /\ \A d : d \in slips.late => d \in slips'.late
    BY <1>0, ExcusedStays
  <1>4. ListExplained' /\ ListEmpty' BY <1>1 DEF ListExplained, ListEmpty
  <1>5. ZeroIsLate' BY <1>1, <1>3 DEF LateInv, ZeroIsLate
  <1>6. Remembered \cap Read("DuelFinalized") \subseteq slips'.lost
    BY <1>0 DEF Crash, SlipsTyped
  <1>7. ReadIsRated'
    <2> SUFFICES ASSUME NEW d \in Duels, Among(d, Done)
                 PROVE  rated[d].p0 > 0 \/ Excused(d)'
      BY <1>1, <1>2 DEF ReadIsRated, Among
    <2>1. PICK k \in 1 .. Done : Fin[k] = d BY DEF Among
    <2>2. Among(d, Reached) BY <1>0, <2>1 DEF Among
    <2>3. CASE Listed(d)
      <3>1. d \in Remembered
        <4>1. finalized \in Seq(Outcomes) BY DEF IInv, FinalizedDue, Outcomes
        <4> QED BY <2>3, <4>1 DEF Listed, Remembered
      <3>2. d \in Read("DuelFinalized")
        <4> DEFINE read == SubSeq(Fin, 1, Done)
        <4>1. k \in DOMAIN read /\ read[k] = d BY <1>0, <2>1
        <4>2. Read("DuelFinalized") = ToSet(read) BY DEF Read, Fin, Done
        <4> HIDE DEF read
        <4> QED BY <4>1, <4>2 DEF ToSet
      <3> QED BY <1>6, <3>1, <3>2 DEF Excused
    <2>4. CASE ~Listed(d)
      BY <1>3, <2>2, <2>4 DEF LateInv, ReadIsRated
    <2> QED BY <2>3, <2>4
  <1> QED BY <1>4, <1>5, <1>7 DEF LateInv

\* The head of the list leaves it, rated or excused.
LEMMA TailLate ==
  ASSUME IInv, OnceInv, LateInv, [Next]_vars, FinGrows,
         finalized # <<>>, RateNext, UNCHANGED <<log, cursor>>,
         pc \in {"rate", "rateP0", "rateP1"}, ZeroIsLate',
         \A d \in Duels : rated[d].p0 > 0 => rated'[d].p0 > 0,
         NEW r, r = Rated.duel,
         rated[r].p0 > 0 \/ r \in slips'.lost \cup slips'.late
  PROVE  LateInv'
  <1>1. UNCHANGED <<Fin, Done>> BY DEF Fin, Done, Position
  <1>2. Reached = Done /\ Reached' = Done /\ ListEmpty'
    BY <1>1 DEF RateNext, Reached, ListEmpty
  <1>3. finalized \in Seq(Outcomes) BY DEF IInv, FinalizedDue, Outcomes
  <1>4. /\ Len(finalized') = Len(finalized) - 1 /\ Len(finalized) \in Nat \ {0}
        /\ \A i \in 1 .. Len(finalized') : finalized'[i] = finalized[i + 1]
        /\ finalized[1] = Rated
    BY <1>3 DEF RateNext, Rated
  <1>5. /\ \A d : Excused(d) => Excused(d)'
        /\ \A d : d \in slips.late => d \in slips'.late
    BY ExcusedStays DEF OnceInv
  <1>6. ListExplained'
    <2> SUFFICES ASSUME NEW i \in 1 .. Len(finalized')
                 PROVE  /\ finalized'[i].p1 = "zero" => finalized'[i].duel \in slips'.late
                        /\ finalized'[i].p1 = "none" => Excused(finalized[i].duel)'
      BY DEF ListExplained, Explained, Excused
    <2>1. i + 1 \in 1 .. Len(finalized) /\ finalized'[i] = finalized[i + 1] BY <1>4
    <2>2. Explained(finalized[i + 1]) BY <2>1 DEF LateInv, ListExplained
    <2> QED BY <1>5, <2>1, <2>2 DEF Explained, Excused
  <1>7. ReadIsRated'
    <2> SUFFICES ASSUME NEW d \in Duels, Among(d, Done)
                 PROVE  rated'[d].p0 > 0 \/ Listed(d)' \/ Excused(d)'
      BY <1>1, <1>2 DEF ReadIsRated, Among
    <2>1. rated[d].p0 > 0 \/ Listed(d) \/ Excused(d)
      BY <1>2 DEF LateInv, ReadIsRated
    <2>2. CASE Listed(d)
      <3>1. PICK i \in 1 .. Len(finalized) : finalized[i].duel = d BY <2>2 DEF Listed
      <3>2. CASE i = 1
        <4>1. d = r BY <1>4, <3>1, <3>2
        <4> QED BY <4>1 DEF Excused
      <3>3. CASE i # 1
        <4>1. PICK k : k = i - 1 OBVIOUS
        <4>2. k \in 1 .. Len(finalized') /\ k + 1 = i BY <1>4, <3>3, <4>1
        <4>3. finalized'[k].duel = d BY <1>4, <3>1, <4>2
        <4> QED BY <4>2, <4>3 DEF Listed
      <3> QED BY <3>2, <3>3
    <2> QED BY <1>5, <2>1, <2>2
  <1> QED BY <1>2, <1>6, <1>7 DEF LateInv

\* A result goes without a rating: it has no players, or its writes failed.
LEMMA DroppedLate ==
  ASSUME IInv, OnceInv, LateInv, [Next]_vars, FinGrows, SkipResult \/ ratingFails
  PROVE  LateInv'
  <1>1. /\ UNCHANGED <<log, cursor, rated>> /\ RateNext /\ finalized # <<>>
        /\ pc \in {"rate", "rateP0", "rateP1"}
    BY DEF SkipResult, ratingFails, dbVars, IInv, RatingShown
  <1>2. /\ \A d : Excused(d) => Excused(d)'
        /\ \A d : d \in slips.late => d \in slips'.late
    BY ExcusedStays DEF OnceInv
  <1>3. ZeroIsLate' BY <1>1, <1>2 DEF LateInv, ZeroIsLate
  <1>4. PICK r : r = Rated.duel OBVIOUS
  <1>5. Excused(r)'
    <2>1. CASE SkipResult
      <3>1. finalized \in Seq(Outcomes) BY DEF IInv, FinalizedDue, Outcomes
      <3>2. 1 \in 1 .. Len(finalized) /\ Rated = finalized[1] BY <1>1, <3>1 DEF Rated
      <3>3. Explained(Rated) BY <3>2 DEF LateInv, ListExplained
      <3> QED BY <1>2, <1>4, <2>1, <3>3 DEF Explained, SkipResult
    <2>2. CASE ratingFails
      BY <1>4, <2>2 DEF ratingFails, Slip, Excused, OnceInv, SlipsTyped
    <2> QED BY <2>1, <2>2
  <1>6. rated[r].p0 > 0 \/ r \in slips'.lost \cup slips'.late
    BY <1>5 DEF Excused
  <1> QED BY <1>1, <1>3, <1>4, <1>6, TailLate

\* The two writes of a result.
LEMMA CreditLate ==
  ASSUME IInv, OnceInv, LateInv, [Next]_vars, FinGrows, applyDuelOutcome
  PROVE  LateInv'
  <1>1. UNCHANGED <<log, Fin, Done, cursor, slips>>
    BY DEF applyDuelOutcome, Fin, Done, Position
  <1>2. /\ finalized \in Seq(Outcomes) /\ finalized # <<>>
        /\ pc \in {"rateP0", "rateP1"} /\ Rated.p1 # "none" /\ Rated.duel \in Duels
        /\ Rated = finalized[1] /\ 1 \in 1 .. Len(finalized)
        /\ Rated.p1 \in {"none", "zero", "p1"}
    BY DEF applyDuelOutcome, IInv, RatingShown, FinalizedDue, Due, Rated, Outcomes
  <1>3. PICK d \in Duels : d = Rated.duel BY <1>2
  <1>4. \A e \in Duels : rated[e] \in [p0 : Nat, p1 : Nat, zero : Nat]
    BY DEF IInv, RatingShown
  <1>5. \A e : Excused(e)' <=> Excused(e) BY <1>1 DEF Excused
  <1>6. CASE pc = "rateP0"
    <2>1. /\ pc' = "rateP1" /\ finalized' = finalized
          /\ rated' = [rated EXCEPT ![d]["p0"] = @ + 1]
      BY <1>3, <1>6 DEF applyDuelOutcome, Credit
    <2>2. /\ rated'[d].p0 = rated[d].p0 + 1 /\ rated'[d].zero = rated[d].zero
          /\ \A e \in Duels : e # d => rated'[e] = rated[e]
      BY <1>4, <2>1 DEF IInv, RatingShown
    <2>3. \A e \in Duels : /\ rated[e].p0 > 0 => rated'[e].p0 > 0
                           /\ rated'[e].zero = rated[e].zero
      BY <1>4, <2>2
    <2>4. Reached = Done /\ Reached' = Done BY <1>1, <1>6, <2>1 DEF Reached
    <2>5. ListExplained' BY <1>1, <2>1 DEF LateInv, ListExplained, Explained, Excused
    <2>6. ZeroIsLate' BY <1>1, <2>3 DEF LateInv, ZeroIsLate
    <2>7. ReadIsRated'
      <3> SUFFICES ASSUME NEW e \in Duels, Among(e, Done)
                   PROVE  rated'[e].p0 > 0 \/ Listed(e) \/ Excused(e)
        BY <1>1, <1>5, <2>1, <2>4 DEF ReadIsRated, Among, Listed
      <3> QED BY <2>3, <2>4 DEF LateInv, ReadIsRated
    <2>8. ListEmpty' BY <2>1 DEF ListEmpty
    <2> QED BY <2>5, <2>6, <2>7, <2>8 DEF LateInv
  <1>7. CASE pc = "rateP1"
    <2>1. PICK s \in {"p1", "zero"} :
            RateNext /\ rated' = [rated EXCEPT ![d][s] = @ + 1] /\ s = Rated.p1
      BY <1>2, <1>3, <1>7 DEF applyDuelOutcome, Credit
    <2>2. /\ rated'[d].p0 = rated[d].p0
          /\ s # "zero" => rated'[d].zero = rated[d].zero
          /\ \A e \in Duels : e # d => rated'[e] = rated[e]
      <3>1. CASE s = "p1" BY <1>4, <2>1, <3>1 DEF IInv, RatingShown
      <3>2. CASE s = "zero" BY <1>4, <2>1, <3>2 DEF IInv, RatingShown
      <3> QED BY <3>1, <3>2
    <2>3. s = "zero" => d \in slips.late
      BY <1>2, <1>3, <2>1 DEF LateInv, ListExplained, Explained
    <2>4. ZeroIsLate' BY <1>1, <2>2, <2>3 DEF LateInv, ZeroIsLate
    <2>5. rated[d].p0 > 0
      <3>1. rated[d].p1 + rated[d].zero + Owed(d) <= rated[d].p0
        BY DEF OnceInv, BothRated
      <3>2. Owed(d) = 1 BY <1>3, <1>7 DEF Owed
      <3>3. rated[d].p0 \in Nat /\ rated[d].p1 \in Nat /\ rated[d].zero \in Nat BY <1>4
      <3> QED BY <3>1, <3>2, <3>3
    <2>6. \A e \in Duels : rated[e].p0 > 0 => rated'[e].p0 > 0 BY <2>2
    <2> QED BY <1>1, <1>2, <1>3, <1>7, <2>1, <2>4, <2>5, <2>6, TailLate
  <1> QED BY <1>2, <1>6, <1>7

\* A step that has nothing to do with the results.
LEMMA OtherLate ==
  ASSUME IInv, OnceInv, LateInv, [Next]_vars, FinGrows,
         UNCHANGED <<finalized, rated, cursor>>, ListEmpty',
         \/ UNCHANGED <<pc, at, page>>
         \/ pc # "save" /\ pc' # "save"
  PROVE  LateInv'
  <1>1. Done' = Done BY DEF Done, Position
  <1>2. Reached' = Reached BY <1>1 DEF Reached
  <1>3. Reached \in Nat BY DEF OnceInv, ReadInOrder
  <1> QED BY <1>2, <1>3, StillLate

\* A page whose cursor is not saved is not below it either.
LEMMA SaveFailsLate ==
  ASSUME IInv, OnceInv, LateInv, [Next]_vars, FinGrows, saveCursorFails
  PROVE  LateInv'
  <1>1. /\ UNCHANGED <<finalized, rated, cursor>> /\ pc' \in {"drain", "refresh"}
    BY DEF saveCursorFails, NextTracker, dbVars
  <1>2. Reached' = Done BY <1>1 DEF Reached, Done, Position
  <1>3. Done \in 0 .. Reached BY DEF OnceInv, ReadInOrder
  <1>4. ListEmpty' BY <1>1 DEF ListEmpty
  <1> QED BY <1>1, <1>2, <1>3, <1>4, StillLate

LEMMA NextLate == IInv /\ OnceInv /\ LateInv /\ [Next]_vars => LateInv'
  <1> SUFFICES ASSUME IInv, OnceInv, LateInv, [Next]_vars PROVE LateInv' OBVIOUS
  <1>1. FinGrows BY FinMoves DEF OnceInv
  <1>2. ListEmpty BY DEF LateInv
  <1>3. CASE ChainStep \/ UNCHANGED vars
    <2>1. UNCHANGED <<finalized, rated, cursor, pc, at, page>>
      BY <1>3 DEF ChainStep, vars, dbVars, tickVars
    <2>2. ListEmpty' BY <1>2, <2>1 DEF ListEmpty
    <2> QED BY <1>1, <2>1, <2>2, OtherLate
  <1>4. CASE start \/ startFails \/ tick \/ TrackerDone
    <2>1. /\ UNCHANGED <<finalized, rated, cursor>>
          /\ pc # "save" /\ pc' # "save"
          /\ pc \in {"down", "seed"} \/ pc' \in {"drain", "refresh"}
      BY <1>4 DEF start, startFails, tick, TrackerDone, NextTracker, dbVars
    <2>2. ListEmpty' BY <1>2, <2>1 DEF ListEmpty
    <2> QED BY <1>1, <2>1, <2>2, OtherLate
  <1>5. CASE \/ (\E d \in Duels : fetchDuel(d)) \/ upsertDuel \/ refreshFails
             \/ AllRefreshed \/ setDuelWinner \/ TickDone
    <2>1. /\ UNCHANGED <<finalized, rated, cursor>>
          /\ pc # "save" /\ pc' # "save"
          /\ finalized = <<>> \/ pc' \in {"upsert", "refresh", "rate", "rateP0"}
      BY <1>5 DEF fetchDuel, upsertDuel, refreshFails, AllRefreshed, setDuelWinner,
         TickDone, dbVars
    <2>2. ListEmpty' BY <1>2, <2>1 DEF ListEmpty
    <2> QED BY <1>1, <2>1, <2>2, OtherLate
  <1>6. CASE seedCursor BY <1>1, <1>6, SeedLate
  <1>7. CASE saveCursor BY <1>1, <1>7, SaveLate
  <1>8. CASE drainTracker BY <1>1, <1>8, DrainLate
  <1>9. CASE saveCursorFails BY <1>1, <1>9, SaveFailsLate
  <1>10. CASE Crash BY <1>1, <1>10, CrashLate
  <1>11. CASE SkipResult \/ ratingFails BY <1>1, <1>11, DroppedLate
  <1>12. CASE applyDuelOutcome BY <1>1, <1>12, CreditLate
  <1> QED
    BY <1>3, <1>4, <1>5, <1>6, <1>7, <1>8, <1>9, <1>10, <1>11, <1>12 DEF Next, Loop

\* Each finalized duel counts once for its challenger and once for its creator,
\* whatever the number of duels, pages and faults, and one below the cursor of
\* DuelFinalized does count when the tick is over (indexer.ts, drainEvents and the
\* rating loop; mmr.ts, applyDuelOutcome's two writes).  The exceptions are those
\* RatedOnce names: a page whose cursor could not be saved, a failed read or
\* rating, a crash, a seeded cursor, and a result read before its row knew both
\* players; the zero address is rated in the last case only.
THEOREM ResultsRatedOnce == Spec => []RatedOnce
  <1>1. IInv /\ OnceInv /\ LateInv => RatedOnce
    <2> SUFFICES ASSUME IInv, OnceInv, LateInv, NEW d \in Duels
                 PROVE  LET r == rated[d] IN
                          /\ r.p0 > 0 => chain[d].end \in Winners
                          /\ d \notin slips.again => r.p0 <= 1
                          /\ r.p1 + r.zero <= r.p0
                          /\ r.zero > 0 => d \in slips.late
                          /\ (pc = "idle" /\ d \notin slips.lost \cup slips.late)
                               => r.p1 = r.p0
                                  /\ (d \in Read("DuelFinalized") => r.p0 > 0)
      BY DEF RatedOnce
    <2>1. rated[d].p0 \in Nat /\ rated[d].p1 \in Nat /\ rated[d].zero \in Nat
      BY DEF IInv, RatingShown
    <2>2. rated[d].p0 > 0 => chain[d].end \in Winners BY DEF IInv, RatingShown
    <2>3. d \notin slips.again => rated[d].p0 <= 1
      BY <2>1 DEF OnceInv, RatedIsPast
    <2>4. /\ rated[d].p1 + rated[d].zero + Owed(d) <= rated[d].p0
          /\ d \notin slips.lost => rated[d].p1 + rated[d].zero + Owed(d) = rated[d].p0
      BY DEF OnceInv, BothRated
    <2>5. Owed(d) \in {0, 1} /\ (pc = "idle" => Owed(d) = 0) BY DEF Owed
    <2>6. rated[d].zero > 0 => d \in slips.late BY DEF LateInv, ZeroIsLate
    <2>7. rated[d].p1 + rated[d].zero <= rated[d].p0 BY <2>1, <2>4, <2>5
    <2>8. (pc = "idle" /\ d \notin slips.lost \cup slips.late) => rated[d].p1 = rated[d].p0
      BY <2>1, <2>4, <2>5, <2>6
    <2>9. ASSUME pc = "idle", d \notin slips.lost \cup slips.late,
                 d \in Read("DuelFinalized")
          PROVE  rated[d].p0 > 0
      <3>1. finalized = <<>> /\ Reached = Done BY <2>9 DEF LateInv, ListEmpty, Reached
      <3>2. ~Listed(d) BY <3>1 DEF Listed
      <3>3. Among(d, Done)
        <4> DEFINE read == SubSeq(Fin, 1, Done)
        <4>1. /\ Done \in 0 .. Len(Fin) /\ Fin \in Seq(Duels) /\ Len(Fin) \in Nat
          BY DEF OnceInv, ReadInOrder, FinOnce
        <4>2. read \in Seq(Duels) /\ Len(read) = Done
              /\ \A k \in 1 .. Done : read[k] = Fin[k]
          BY <4>1
        <4>3. d \in ToSet(read) BY <2>9 DEF Read, Fin, Done
        <4> HIDE DEF read
        <4>4. PICK k \in 1 .. Done : read[k] = d BY <4>2, <4>3 DEF ToSet
        <4> QED BY <4>2, <4>4 DEF Among
      <3> QED BY <2>9, <3>1, <3>2, <3>3 DEF LateInv, ReadIsRated, Excused
    <2>q. QED BY <2>2, <2>3, <2>6, <2>7, <2>8, <2>9
  <1>2. Spec => []OnceInv BY InitOnce, NextOnce, IInvHolds, PTL DEF Spec
  <1>3. Spec => []LateInv BY InitLate, NextLate, <1>2, IInvHolds, PTL DEF Spec
  <1>q. QED BY <1>1, <1>2, <1>3, IInvHolds, PTL
=============================================================================
