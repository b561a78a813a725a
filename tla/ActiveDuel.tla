----------------------------- MODULE ActiveDuel -----------------------------
(***************************************************************************)
(* One player's browser in a staked duel: the matchmaking screen (pvp.tsx),*)
(* the route a duel is played at (play.tsx), the game itself               *)
(* (active-duel.tsx) and its socket (use-flicky-socket.ts).  The chain, the*)
(* other player and the server's rooms are what the page sees of them: the *)
(* duel, its copy in the mirror, and the room_state messages made of it.   *)
(*                                                                         *)
(* The wire's delay is part of the server's: at most one broadcast and one *)
(* snapshot are on their way to the page.  React renders between two       *)
(* messages.                                                               *)
(***************************************************************************)
EXTENDS Integers, FiniteSets

CONSTANTS
  cardCount,        \* cards of the deck
  MaxTries,         \* repeats of a failed load
  MaxFaults         \* bound on lost connections, reloads, failed calls

ASSUME ActiveDuelAssumption ==
  cardCount \in Nat \ {0} /\ MaxTries \in Nat /\ MaxFaults \in Nat

VARIABLES
  role,             \* of match_found
  duel,             \* the duel on the chain: stage, how many cards I swiped
  created,          \* duels my page created
  pairing,          \* the server's pendingPairs entry: armed, taken, gone
  mirror,           \* the duel's row
  room,             \* the server has my socket in the duel's room
  news, snap,       \* room_state on its way: a broadcast, a snapshot
  assigned,         \* duel_assigned is on its way
  wsOpen,
  route, at,        \* screen, and the duel it shows (2: not the match's)
  load, tries,      \* play.tsx
  phase, cardIdx,   \* active-duel.tsx
  roomState, sent, waits, autoCard,
  txs,              \* transactions signed and not answered yet
  cutOff,           \* history: this page's snapshot could not be read
  faults

chainVars == <<role, duel, created>>
serverVars == <<pairing, mirror, room, news, snap, assigned>>
gameVars == <<phase, cardIdx, roomState, autoCard>>
entryVars == <<sent, waits>>
loadVars == <<route, at, load, tries>>
vars == <<chainVars, serverVars, wsOpen, loadVars, gameVars, entryVars, txs,
          cutOff, faults>>

Stages == {"none", "pending", "active", "revealed", "complete"}
Nothing == [stage |-> "none", mine |-> 0]
Cards == 0 .. cardCount - 1

\* A transaction: create, join, or a swipe by hand or by the deadline; whether
\* the page that signed it still waits, and what became of it.  A swipe that is
\* sent again because the market's liquidity was short is one still on its way.
Swipes == {"hand", "auto"}
Tx(kind, card) ==
  [kind |-> kind, card |-> card, live |-> TRUE, fate |-> "sent"]

Fault == faults < MaxFaults /\ faults' = faults + 1
NoFault == UNCHANGED faults

Init ==
  /\ role \in {"creator", "challenger"} /\ duel = Nothing /\ created = 0
  /\ pairing = "armed" /\ mirror = Nothing /\ room = FALSE
  /\ news = Nothing /\ snap = Nothing /\ assigned = FALSE
  /\ wsOpen = TRUE /\ route = "pvp" /\ at = 1 /\ load = "none" /\ tries = 0
  /\ phase = "ENTRY" /\ cardIdx = 0 /\ roomState = Nothing /\ autoCard = -1
  /\ sent = FALSE /\ waits = TRUE /\ txs = {} /\ cutOff = FALSE /\ faults = 0

-----------------------------------------------------------------------------
(* The others: opponent, keeper, server. *)

Becomes(stage) == duel' = [duel EXCEPT !.stage = stage]

World ==
  /\ \/ duel.stage = "none" /\ role = "challenger" /\ Becomes("pending")
     \/ duel.stage = "pending" /\ role = "creator" /\ pairing = "taken"
        /\ Becomes("active")
     \/ duel.stage = "active" /\ Becomes("revealed")
     \/ duel.stage \in Stages \ {"none", "complete"} /\ Becomes("complete")
  /\ UNCHANGED <<role, created, serverVars, wsOpen, loadVars, gameVars,
                 entryVars, txs, cutOff, faults>>

\* The indexer reads DuelCreated: duel_assigned goes to the challenger, if the
\* pairing is still there, and is lost if the challenger has no socket.
DuelCreatedSeen ==
  /\ duel.stage # "none" /\ pairing = "armed" /\ pairing' = "taken"
  /\ assigned' = (role = "challenger" /\ wsOpen)
  /\ UNCHANGED <<chainVars, mirror, room, news, snap, wsOpen, loadVars,
                 gameVars, entryVars, txs, cutOff, faults>>

\* The match_abandoned it sends is only a banner on the page.
HandshakeTimeout ==
  /\ pairing = "armed" /\ pairing' = "gone"
  /\ UNCHANGED <<chainVars, mirror, room, news, snap, assigned, wsOpen,
                 loadVars, gameVars, entryVars, txs, cutOff, faults>>

\* refreshDuel: the row is written, the room is told.  What the page makes of a
\* row is the same until the cards are revealed.
Row == [duel EXCEPT !.stage = IF @ \in {"pending", "active"} THEN "hidden" ELSE @]

Refresh ==
  /\ mirror # Row /\ news = Nothing /\ mirror' = Row
  /\ news' = IF room THEN Row ELSE Nothing
  /\ UNCHANGED <<chainVars, pairing, room, snap, assigned, wsOpen, loadVars,
                 gameVars, entryVars, txs, cutOff, faults>>

-----------------------------------------------------------------------------
(* ActiveDuel, ENTRY.  The creator's effect runs after every render, and    *)
(* sentCreateRef alone holds it back; an error resets it.                  *)

createEffect ==
  /\ role = "creator" /\ route = "pvp" /\ ~sent
  /\ sent' = TRUE /\ txs' = txs \cup {Tx("create", created)}
  /\ UNCHANGED <<chainVars, serverVars, wsOpen, loadVars, gameVars, waits,
                 cutOff, faults>>

\* duel_assigned, delivered to whatever page is open.
receiveAssigned ==
  /\ assigned /\ assigned' = FALSE
  /\ IF route = "pvp" /\ ~sent
     THEN sent' = TRUE /\ txs' = txs \cup {Tx("join", 0)}
     ELSE UNCHANGED <<sent, txs>>
  /\ UNCHANGED <<chainVars, pairing, mirror, room, news, snap, wsOpen, loadVars,
                 gameVars, waits, cutOff, faults>>

\* CHALLENGER_ASSIGN_TIMEOUT_MS.
entryTimeout ==
  /\ role = "challenger" /\ route = "pvp" /\ waits /\ waits' = FALSE
  /\ phase' = IF ~sent /\ phase = "ENTRY" THEN "ERROR" ELSE phase
  /\ UNCHANGED <<chainVars, serverVars, wsOpen, loadVars, cardIdx, roomState,
                 autoCard, sent, txs, cutOff, faults>>

-----------------------------------------------------------------------------
(* Transactions: executed or not, then answered. *)

\* Nobody waits for the answer of a page that is gone.
Executed(t, fate) ==
  txs' = (txs \ {t}) \cup (IF t.live THEN {[t EXCEPT !.fate = fate]} ELSE {})

Executable(t) ==
  \/ t.kind = "create"
  \/ t.kind = "join" /\ duel.stage = "pending"
  \/ t.kind \in Swipes /\ duel.stage = "revealed" /\ t.card = duel.mine

execute(t) ==
  /\ t \in txs /\ t.fate = "sent" /\ Executable(t)
  /\ Executed(t, "landed")
  /\ CASE t.kind = "create" ->
            /\ created' = created + 1
            /\ duel' = IF duel.stage = "none"
                       THEN [duel EXCEPT !.stage = "pending"] ELSE duel
       [] t.kind = "join" -> Becomes("active") /\ UNCHANGED created
       [] t.kind \in Swipes ->
            duel' = [duel EXCEPT !.mine = @ + 1] /\ UNCHANGED created
  /\ UNCHANGED <<role, serverVars, wsOpen, loadVars, gameVars, entryVars,
                 cutOff, faults>>

\* Out of turn, too late, or (a fault) refused by the wallet, the sponsor or
\* the market.
abort(t) ==
  /\ t \in txs /\ t.fate = "sent"
  /\ IF Executable(t) THEN Fault ELSE NoFault
  /\ Executed(t, "aborted")
  /\ UNCHANGED <<chainVars, serverVars, wsOpen, loadVars, gameVars, entryVars,
                 cutOff>>

\* The answer of a landed transaction may be lost: the page sees an error.
Answered(t, ok) ==
  /\ t \in txs /\ t.fate # "sent" /\ txs' = txs \ {t}
  /\ \/ ok /\ t.fate = "landed" /\ NoFault
     \/ ~ok /\ t.fate = "aborted" /\ NoFault
     \/ ~ok /\ t.fate = "landed" /\ Fault

\* Each route opens a socket of its own; what was on its way to the old one is
\* lost, and the server forgets the room.
Unheard == room' = FALSE /\ news' = Nothing /\ snap' = Nothing /\ assigned' = FALSE
NewPage == wsOpen' = FALSE /\ Unheard
EntryGone == phase' = "none" /\ sent' = FALSE /\ waits' = FALSE

\* create_duel, join_duel: hand off to the duel's own route, or show the
\* error and let the flow start again.
entryAnswer(t) ==
  /\ t.kind \notin Swipes /\ t.live
  /\ \/ /\ Answered(t, TRUE) /\ route' = "play" /\ load' = "loading"
        /\ at' = IF t.kind = "create" /\ t.card > 0 THEN 2 ELSE 1
        /\ tries' = 0 /\ EntryGone /\ NewPage
     \/ /\ Answered(t, FALSE) /\ sent' = FALSE
        /\ phase' = IF route = "pvp" THEN "ERROR" ELSE phase
        /\ UNCHANGED <<loadVars, waits, room, news, snap, assigned, wsOpen>>
  /\ UNCHANGED <<chainVars, pairing, mirror, cardIdx, roomState, autoCard,
                 cutOff>>

\* pvpSwipe: a success advances the card on screen by one.
CardAfter_Any(ok) == IF phase = "SWIPING" THEN cardIdx + 1 ELSE cardIdx
CardAfter(ok) == IF ok /\ phase = "SWIPING" THEN cardIdx + 1 ELSE cardIdx

swipeAnswer(t) ==
  /\ t.kind \in Swipes /\ t.live
  /\ \E ok \in BOOLEAN : Answered(t, ok) /\ cardIdx' = CardAfter(ok)
  /\ UNCHANGED <<chainVars, serverVars, wsOpen, loadVars, phase, roomState,
                 autoCard, entryVars, cutOff>>

-----------------------------------------------------------------------------
(* play.tsx: find the duel, then mount the game while the socket is open.  *)

Participant == role = "creator" \/ duel.stage # "pending"
ToResult == route' = "result" /\ NewPage /\ UNCHANGED load

fetchDuel ==
  /\ route = "play" /\ load = "loading" /\ Participant
  /\ IF at = 1 /\ duel.stage = "complete"
     THEN ToResult
     ELSE /\ load' = "ready"
          /\ UNCHANGED <<route, wsOpen, room, news, snap, assigned>>
  /\ UNCHANGED <<chainVars, pairing, mirror, at, tries, gameVars, entryVars,
                 txs, cutOff, faults>>

\* The node does not know the duel, the player in it or the wrapper yet.
fetchDuelFails ==
  /\ route = "play" /\ load = "loading" /\ Fault
  /\ \/ /\ tries < MaxTries /\ tries' = tries + 1
        /\ UNCHANGED <<route, load, wsOpen, room, news, snap, assigned>>
     \/ /\ tries = MaxTries /\ UNCHANGED tries
        /\ \/ ToResult
           \/ load' = "error" /\ UNCHANGED <<route, wsOpen, room, news, snap, assigned>>
  /\ UNCHANGED <<chainVars, pairing, mirror, at, gameVars, entryVars, txs, cutOff>>

\* ActiveDuel in resume mode: AWAIT_REVEAL, and room_subscribe, on which the
\* server reads the row for a snapshot.
Snapshot_None == Nothing
Snapshot == IF at = 1 THEN mirror ELSE Nothing

mount ==
  /\ route = "play" /\ load = "ready" /\ wsOpen /\ phase = "none"
  /\ phase' = "AWAIT_REVEAL" /\ cutOff' = FALSE
  /\ room' = (at = 1) /\ snap' = Snapshot
  /\ UNCHANGED <<chainVars, pairing, mirror, news, assigned, wsOpen, loadVars,
                 cardIdx, roomState, autoCard, entryVars, txs, faults>>

-----------------------------------------------------------------------------
(* The room_state handler. *)

nextCardIdx_Past(m) == m.mine + 1
nextCardIdx(m) == m.mine

\* The message's own count of cards, 0 for a row from before the reveal.
CardCount(m) == IF m.stage = "hidden" THEN 0 ELSE cardCount

PhaseAfter(m) ==
  CASE m.stage = "complete" -> "COMPLETE"
    [] m.stage # "complete" /\ phase = "AWAIT_REVEAL" /\ m.stage = "revealed"
         -> "SWIPING"
    [] m.stage # "complete" /\ phase = "SWIPING" /\ m.mine = CardCount(m)
         -> "AWAIT_SETTLEMENT"
    [] OTHER -> phase

onRoomState(m) ==
  /\ roomState' = m /\ phase' = PhaseAfter(m)
  /\ cardIdx' = IF phase' = "SWIPING" /\ phase = "AWAIT_REVEAL"
                THEN nextCardIdx(m) ELSE cardIdx
  /\ UNCHANGED <<chainVars, pairing, mirror, room, assigned, wsOpen, loadVars,
                 autoCard, entryVars, txs>>

receiveNews ==
  /\ news # Nothing /\ news' = Nothing /\ onRoomState(news)
  /\ UNCHANGED <<snap, cutOff, faults>>

\* sendRoomSnapshot, read earlier and sent now.
receiveSnapshot ==
  /\ snap # Nothing /\ snap' = Nothing /\ onRoomState(snap)
  /\ UNCHANGED <<news, cutOff, faults>>

snapshotFails ==
  /\ snap # Nothing /\ snap' = Nothing /\ Fault /\ cutOff' = TRUE
  /\ UNCHANGED <<chainVars, pairing, mirror, room, news, assigned, wsOpen,
                 loadVars, gameVars, entryVars, txs>>

-----------------------------------------------------------------------------
(* Swipes: by hand, one at a time, or once per card when its deadline has  *)
(* passed, which does not look whether one is being made by hand.          *)

Busy == \E t \in txs : t.kind = "hand" /\ t.live
Shown == phase = "SWIPING" /\ roomState # Nothing /\ cardIdx \in Cards
Sends(kind) == txs' = txs \cup {Tx(kind, cardIdx)}

swipe ==
  /\ Shown /\ ~Busy /\ Sends("hand")
  /\ UNCHANGED <<chainVars, serverVars, wsOpen, loadVars, gameVars, entryVars,
                 cutOff, faults>>

autoSwipe ==
  /\ Shown /\ autoCard # cardIdx /\ autoCard' = cardIdx /\ Sends("auto")
  /\ UNCHANGED <<chainVars, serverVars, wsOpen, loadVars, phase, cardIdx,
                 roomState, entryVars, cutOff, faults>>

-----------------------------------------------------------------------------
(* The socket and the page.  ActiveDuel is on screen while the socket is   *)
(* open on the play route, and whatever it keeps goes with it.             *)

\* The transactions go on without a page.
Abandoned(kinds) ==
  {IF t.kind \in kinds THEN [t EXCEPT !.live = FALSE] ELSE t : t \in txs}

Blank == cardIdx' = 0 /\ roomState' = Nothing /\ autoCard' = -1
Unmounted == phase' = "none" /\ Blank /\ txs' = Abandoned(Swipes)

onclose ==
  /\ wsOpen /\ Fault /\ NewPage
  /\ IF route = "play" THEN Unmounted ELSE UNCHANGED <<gameVars, txs>>
  /\ UNCHANGED <<chainVars, pairing, mirror, loadVars, entryVars, cutOff>>

connect ==
  /\ route \in {"pvp", "play"} /\ ~wsOpen /\ wsOpen' = TRUE
  /\ UNCHANGED <<chainVars, serverVars, loadVars, gameVars, entryVars, txs,
                 cutOff, faults>>

\* The browser reloads: a match that is not a duel yet is forgotten.
reload ==
  /\ route \in {"pvp", "play"} /\ Fault /\ NewPage
  /\ route' = (IF route = "pvp" THEN "home" ELSE "play")
  /\ load' = (IF route = "play" THEN "loading" ELSE "none")
  /\ tries' = 0 /\ EntryGone /\ Blank
  /\ txs' = Abandoned({"create", "join"} \cup Swipes)
  /\ UNCHANGED <<chainVars, pairing, mirror, at, cutOff>>

\* onExit; a create or join on its way still hands off when it is answered.
onExit ==
  /\ route \in {"pvp", "play"} /\ Fault /\ route' = "home" /\ NewPage
  /\ Unmounted /\ EntryGone /\ load' = "none" /\ tries' = 0
  /\ UNCHANGED <<chainVars, pairing, mirror, at, cutOff>>

\* Back to the duel's address, with no create or join left to be answered.
openDuel ==
  /\ route \in {"home", "result"} /\ \A t \in txs : ~t.live
  /\ duel.stage # "none" /\ Participant
  /\ route' = "play" /\ at' = 1 /\ load' = "loading" /\ tries' = 0
  /\ NewPage
  /\ UNCHANGED <<chainVars, pairing, mirror, gameVars, entryVars, txs, cutOff,
                 faults>>

-----------------------------------------------------------------------------
Answer(t) == entryAnswer(t) \/ swipeAnswer(t)
Receive == receiveAssigned \/ receiveNews \/ receiveSnapshot
Page == createEffect \/ entryTimeout \/ fetchDuel \/ mount \/ connect

Next ==
  \/ World \/ DuelCreatedSeen \/ HandshakeTimeout \/ Refresh
  \/ Page \/ Receive \/ snapshotFails \/ fetchDuelFails
  \/ \E t \in txs : execute(t) \/ abort(t) \/ Answer(t)
  \/ swipe \/ autoSwipe \/ onclose \/ reload \/ onExit \/ openDuel

Spec == Init /\ [][Next]_vars

\* The event loop, the timers and the reconnects of the page run; a signed
\* transaction is executed or refused and answered; the indexer keeps polling
\* and the wire delivers.  Nobody has to swipe or to open anything.
Fairness ==
  /\ WF_vars(createEffect) /\ WF_vars(entryTimeout) /\ WF_vars(fetchDuel)
  /\ WF_vars(mount) /\ WF_vars(connect)
  /\ WF_vars(\E t \in txs : execute(t) \/ abort(t) \/ Answer(t))
  /\ WF_vars(Refresh) /\ WF_vars(receiveAssigned)
  /\ WF_vars(receiveNews) /\ WF_vars(receiveSnapshot)

FairSpec == Spec /\ Fairness

-----------------------------------------------------------------------------
(* Properties. *)

Rows == [stage : {"none", "hidden", "revealed", "complete"}, mine : 0 .. cardCount]
TypeOK ==
  /\ duel \in [stage : Stages, mine : 0 .. cardCount]
  /\ {mirror, news, snap, roomState} \subseteq Rows /\ created \in 0 .. MaxFaults + 1
  /\ pairing \in {"armed", "taken", "gone"} /\ {room, assigned, wsOpen} \subseteq BOOLEAN
  /\ route \in {"pvp", "play", "result", "home"} /\ at \in {1, 2}
  /\ load \in {"none", "loading", "ready", "error"} /\ tries \in 0 .. MaxTries
  /\ phase \in {"none", "ENTRY", "ERROR", "AWAIT_REVEAL", "SWIPING",
                "AWAIT_SETTLEMENT", "COMPLETE"}
  /\ cardIdx \in 0 .. cardCount /\ autoCard \in -1 .. cardCount - 1

\* However its own swipes, those the deadline makes for it, lost answers, reloads
\* and old messages interleave, the page never skips a card and never shows a
\* result before there is one; and it stops asking for picks only when the last
\* one is on the chain, or on a row from before the reveal, of which it takes
\* none of none for all of them (active-duel.tsx:179-183, see the README).
NeverAhead ==
  /\ [](phase = "SWIPING" => cardIdx <= duel.mine)
  /\ [](phase = "COMPLETE" => duel.stage = "complete")
  /\ [][phase' = "AWAIT_SETTLEMENT" /\ phase # phase' =>
          /\ phase = "SWIPING"
          /\ duel.mine = cardCount \/ roomState'.stage = "hidden"]_vars

\* Nobody waits for ever: a matched player gets to the duel or is told that it
\* fell through, and a page that is open on a duel that has ended shows it,
\* through lost connections and reloads, unless its snapshot could not be read
\* or the duel could not be loaded.
EventuallyMovesOn ==
  /\ (route = "pvp") ~> (route # "pvp" \/ phase = "ERROR")
  /\ (route = "play" /\ at = 1 /\ duel.stage = "complete")
       ~> (phase = "COMPLETE" \/ route # "play" \/ load = "error" \/ cutOff)

\* One match, one duel: a creator's page does not put up a second stake.
OneDuelPerMatch == created <= 1
=============================================================================
