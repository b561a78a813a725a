-------------------------- MODULE ActiveDuelProofs --------------------------
(***************************************************************************)
(* A duel's page is never ahead of the chain, but for the lock-in on a row *)
(* from before the reveal, for every deck size, number of retries and      *)
(* number of faults.  The argument: a row anywhere is an older copy of the *)
(* duel; a transaction to enter the duel is outstanding only before the    *)
(* game is on screen, and a swipe only while it is; and of the swipes that *)
(* landed and are still to be answered there is at most one, for the card  *)
(* on screen.  And a page creates at most one duel more than it meets      *)
(* faults, which is the bound of `created` in TypeOK.                      *)
(***************************************************************************)
EXTENDS ActiveDuel, TLAPS

USE ActiveDuelAssumption

Kinds == {"create", "join"} \cup Swipes
Phases == {"none", "ENTRY", "ERROR", "AWAIT_REVEAL", "SWIPING",
           "AWAIT_SETTLEMENT", "COMPLETE"}
Txs == [kind : Kinds, card : Int, live : BOOLEAN, fate : {"sent", "landed", "aborted"}]

DuelTyped == duel \in [stage : Stages, mine : 0 .. cardCount]
TxsTyped == \A t \in txs : t \in Txs /\ (t.kind \in Swipes => t.card \in Cards)

\* What was once true of the duel.
Old(row) ==
  /\ row \in Rows /\ row.mine <= duel.mine
  /\ row.stage = "complete" => duel.stage = "complete"
RowsOld == Old(mirror) /\ Old(news) /\ Old(snap) /\ Old(roomState)

EntryTx(t) == t.live /\ t.kind \notin Swipes
SwipeTx(t) == t.live /\ t.kind \in Swipes
Landed(t) == SwipeTx(t) /\ t.fate = "landed"

EntryAlone ==
  \A t \in txs : EntryTx(t) =>
    /\ route \in {"pvp", "home"} /\ (route = "pvp" => sent)
    /\ \A u \in txs : EntryTx(u) => u = t

Playing == {"SWIPING", "AWAIT_SETTLEMENT", "COMPLETE"}
SwipesShown ==
  \A t \in txs : SwipeTx(t) => phase \in Playing /\ t.card <= cardIdx

LandedAlone ==
  phase = "SWIPING" =>
    \A t \in txs : Landed(t) =>
      /\ t.card = cardIdx /\ cardIdx < duel.mine
      /\ \A u \in txs : Landed(u) => u = t

NotAhead ==
  /\ phase = "SWIPING" => cardIdx <= duel.mine
  /\ phase = "COMPLETE" => duel.stage = "complete"

PageTyped == phase \in Phases /\ cardIdx \in 0 .. cardCount

\* Without the game on screen no row is on its way and no phase but the entry's.
OffDuel ==
  ~(route = "play" /\ load = "ready") =>
    /\ ~room /\ news = Nothing /\ snap = Nothing
    /\ phase \in {"none", "ENTRY", "ERROR"}

IInv ==
  /\ DuelTyped /\ TxsTyped /\ RowsOld /\ PageTyped /\ OffDuel
  /\ EntryAlone /\ SwipesShown /\ LandedAlone /\ NotAhead

DuelGrows ==
  /\ DuelTyped' /\ duel'.mine >= duel.mine
  /\ duel.stage = "complete" => duel'.stage = "complete"

LEMMA NothingOld == DuelTyped => Old(Nothing)
  BY DEF DuelTyped, Old, Nothing, Rows, Stages

\* A copy of the duel stays one while the duel moves on.
LEMMA OldStaysOld ==
  ASSUME DuelTyped, DuelGrows, NEW row, Old(row)
  PROVE  /\ row \in Rows /\ row.mine <= duel'.mine
         /\ row.stage = "complete" => duel'.stage = "complete"
  BY DEF DuelTyped, DuelGrows, Old, Rows, Stages

LEMMA RowsStayOld ==
  ASSUME DuelTyped, RowsOld, DuelGrows,
         UNCHANGED <<mirror, news, snap, roomState>>
  PROVE  RowsOld'
  BY OldStaysOld DEF RowsOld, Old

LEMMA InitIInv == Init => IInv
  <1> SUFFICES ASSUME Init PROVE IInv OBVIOUS
  <1>1. DuelTyped BY DEF Init, DuelTyped, Nothing, Stages
  <1>2. RowsOld BY <1>1, NothingOld DEF Init, RowsOld
  <1>3. TxsTyped /\ EntryAlone /\ SwipesShown /\ LandedAlone
    BY DEF Init, TxsTyped, EntryAlone, SwipesShown, LandedAlone
  <1>4. PageTyped /\ NotAhead /\ OffDuel
    BY DEF Init, PageTyped, Phases, NotAhead, OffDuel
  <1>q. QED BY <1>1, <1>2, <1>3, <1>4 DEF IInv

\* Steps that leave the page, its transactions and its rows alone, or let the
\* duel move on without it.
Quiet == UNCHANGED <<txs, phase, cardIdx, route, sent>>

LEMMA QuietStep ==
  ASSUME IInv, Quiet, RowsOld', DuelGrows, OffDuel'
  PROVE  IInv'
  <1> USE DEF IInv
  <1>1. TxsTyped' /\ PageTyped' BY DEF Quiet, TxsTyped, PageTyped
  <1>2. EntryAlone' BY DEF Quiet, EntryAlone, EntryTx
  <1>3. SwipesShown' BY DEF Quiet, SwipesShown, SwipeTx
  <1>4. LandedAlone'
    BY DEF Quiet, LandedAlone, Landed, SwipeTx, DuelGrows, DuelTyped, PageTyped
  <1>5. NotAhead'
    BY DEF Quiet, NotAhead, DuelGrows, DuelTyped, PageTyped
  <1>q. QED BY <1>1, <1>2, <1>3, <1>4, <1>5 DEF DuelGrows

LEMMA WorldStep == IInv /\ World => IInv'
  <1> SUFFICES ASSUME IInv, World PROVE IInv' OBVIOUS
  <1>1. DuelGrows
    BY DEF IInv, World, Becomes, DuelGrows, DuelTyped, Stages
  <1>2. RowsOld'
    BY <1>1, RowsStayOld DEF IInv, World, serverVars, gameVars
  <1>3. OffDuel'
    BY DEF IInv, World, OffDuel, serverVars, gameVars, loadVars
  <1>q. QED
    BY <1>1, <1>2, <1>3, QuietStep DEF Quiet, World, loadVars, gameVars, entryVars

LEMMA SameDuelGrows == DuelTyped /\ UNCHANGED duel => DuelGrows
  BY DEF DuelTyped, DuelGrows

LEMMA ServerStep ==
  IInv /\ (DuelCreatedSeen \/ HandshakeTimeout \/ Refresh) => IInv'
  <1> SUFFICES ASSUME IInv, DuelCreatedSeen \/ HandshakeTimeout \/ Refresh
               PROVE  IInv'
    OBVIOUS
  <1> USE DEF IInv, chainVars, serverVars, gameVars, loadVars, entryVars
  <1>1. UNCHANGED duel /\ Quiet
    BY DEF Quiet, DuelCreatedSeen, HandshakeTimeout, Refresh
  <1>2. DuelGrows BY <1>1, SameDuelGrows
  <1>3. RowsOld'
    <2>1. CASE DuelCreatedSeen \/ HandshakeTimeout
      BY <1>2, <2>1, RowsStayOld DEF DuelCreatedSeen, HandshakeTimeout
    <2>2. CASE Refresh
      <3>1. Old(Row)
        BY DEF Row, Old, DuelTyped, Rows, Stages
      <3>2. Old(mirror') /\ Old(news') /\ Old(snap') /\ Old(roomState')
        BY <2>2, <3>1, NothingOld DEF Refresh, RowsOld
      <3>q. QED BY <1>1, <3>2 DEF RowsOld, Old
    <2>q. QED BY <2>1, <2>2
  <1>4. OffDuel'
    BY DEF OffDuel, DuelCreatedSeen, HandshakeTimeout, Refresh
  <1>q. QED BY <1>1, <1>2, <1>3, <1>4, QuietStep

-----------------------------------------------------------------------------
(* Entry: at most one create or join is outstanding, and only before the   *)
(* game.                                                                   *)

\* Steps that leave the duel and every row alone.
LEMMA SameRows ==
  ASSUME RowsOld, UNCHANGED <<duel, mirror, news, snap, roomState>>
  PROVE  RowsOld'
  BY DEF RowsOld, Old

LEMMA EntryTyped ==
  ASSUME NEW kind \in {"create", "join"}, NEW n \in Int
  PROVE  /\ Tx(kind, n) \in Txs /\ Tx(kind, n).kind \notin Swipes
         /\ Tx(kind, n).live
  BY DEF Tx, Txs, Kinds, Swipes

CreatedTyped == created \in Nat

LEMMA EntrySent ==
  ASSUME IInv, route = "pvp", ~sent, sent',
         NEW kind \in {"create", "join"}, NEW n \in Int,
         txs' = txs \cup {Tx(kind, n)},
         UNCHANGED <<duel, mirror, room, news, snap, roomState, phase, cardIdx,
                     route, load>>
  PROVE  IInv'
  <1> USE DEF IInv
  <1>1. DuelTyped' /\ RowsOld' /\ PageTyped' /\ NotAhead' /\ OffDuel'
    BY SameRows DEF DuelTyped, PageTyped, NotAhead, OffDuel
  <1>2. TxsTyped' BY EntryTyped DEF TxsTyped
  <1>3. EntryAlone' BY EntryTyped DEF EntryAlone, EntryTx
  <1>4. SwipesShown' /\ LandedAlone'
    BY EntryTyped DEF SwipesShown, LandedAlone, Landed, SwipeTx
  <1>q. QED BY <1>1, <1>2, <1>3, <1>4

LEMMA EntryStep ==
  IInv /\ CreatedTyped /\ (createEffect \/ receiveAssigned \/ entryTimeout) => IInv'
  <1> SUFFICES ASSUME IInv, CreatedTyped,
                      createEffect \/ receiveAssigned \/ entryTimeout
               PROVE  IInv'
    OBVIOUS
  <1> USE DEF chainVars, serverVars, gameVars, loadVars, entryVars
  <1>1. CASE createEffect
    BY <1>1, EntrySent DEF createEffect, CreatedTyped
  <1>2. CASE receiveAssigned
    <2>1. CASE route = "pvp" /\ ~sent
      BY <1>2, <2>1, EntrySent DEF receiveAssigned
    <2>2. CASE ~(route = "pvp" /\ ~sent)
      <3>1. Quiet /\ UNCHANGED <<duel, mirror, news, snap, roomState>>
        BY <1>2, <2>2 DEF receiveAssigned, Quiet
      <3>2. OffDuel' BY <1>2, <2>2 DEF receiveAssigned, OffDuel, IInv
      <3>q. QED BY <3>1, <3>2, QuietStep, SameRows, SameDuelGrows DEF IInv
    <2>q. QED BY <2>1, <2>2
  <1>3. CASE entryTimeout
    <2> USE DEF IInv
    <2>1. DuelTyped' /\ RowsOld' BY <1>3, SameRows DEF entryTimeout, DuelTyped
    <2>2. phase' = phase \/ (phase = "ENTRY" /\ phase' = "ERROR")
      BY <1>3 DEF entryTimeout
    <2>3. UNCHANGED <<txs, route, sent, cardIdx, duel>> BY <1>3 DEF entryTimeout
    <2>4. PageTyped' /\ NotAhead' BY <2>2, <2>3 DEF PageTyped, NotAhead, Phases
    <2>8. OffDuel' BY <1>3, <2>2 DEF entryTimeout, OffDuel
    <2>5. TxsTyped' /\ EntryAlone' BY <2>3 DEF TxsTyped, EntryAlone, EntryTx
    <2>6. SwipesShown' BY <2>2, <2>3 DEF SwipesShown, SwipeTx, Playing
    <2>7. LandedAlone' BY <2>2, <2>3 DEF LandedAlone, Landed, SwipeTx
    <2>q. QED BY <2>1, <2>4, <2>5, <2>6, <2>7, <2>8
  <1>q. QED BY <1>1, <1>2, <1>3

-----------------------------------------------------------------------------
(* Transactions. *)

\* What execution leaves of the transactions.
LEMMA ExecutedTxs ==
  ASSUME TxsTyped, NEW t \in txs, NEW fate \in {"landed", "aborted"},
         Executed(t, fate)
  PROVE  /\ TxsTyped'
         /\ \A u \in txs' : u \in txs \/ (t.live /\ u = [t EXCEPT !.fate = fate])
  BY DEF TxsTyped, Executed, Txs

LEMMA ExecutedEntry ==
  ASSUME TxsTyped, EntryAlone, NEW t \in txs, NEW fate \in {"landed", "aborted"},
         Executed(t, fate), UNCHANGED <<route, sent>>
  PROVE  EntryAlone'
  <1>1. [t EXCEPT !.fate = fate].live = t.live /\ [t EXCEPT !.fate = fate].kind = t.kind
    BY DEF TxsTyped, Txs
  <1>q. QED BY <1>1 DEF EntryAlone, EntryTx, Executed

LEMMA ExecutedSwipes ==
  ASSUME TxsTyped, SwipesShown, NEW t \in txs, NEW fate \in {"landed", "aborted"},
         Executed(t, fate), UNCHANGED <<phase, cardIdx>>
  PROVE  SwipesShown'
  <1>1. /\ [t EXCEPT !.fate = fate].live = t.live /\ [t EXCEPT !.fate = fate].kind = t.kind
        /\ [t EXCEPT !.fate = fate].card = t.card
    BY DEF TxsTyped, Txs
  <1>q. QED BY <1>1 DEF SwipesShown, SwipeTx, Executed

LEMMA AbortStep == ASSUME IInv, NEW t \in txs, abort(t) PROVE IInv'
  <1> USE DEF IInv, chainVars, serverVars, gameVars, loadVars, entryVars
  <1>1. UNCHANGED <<duel, mirror, room, news, snap, roomState, phase, cardIdx, route, load, sent>>
    BY DEF abort
  <1>2. Executed(t, "aborted") BY DEF abort
  <1>3. DuelTyped' /\ RowsOld' /\ PageTyped' /\ NotAhead' /\ OffDuel'
    BY <1>1, SameRows DEF DuelTyped, PageTyped, NotAhead, OffDuel
  <1>4. TxsTyped' /\ EntryAlone' /\ SwipesShown'
    BY <1>1, <1>2, ExecutedTxs, ExecutedEntry, ExecutedSwipes
  <1>5. LandedAlone'
    <2>1. [t EXCEPT !.fate = "aborted"].fate = "aborted" BY DEF TxsTyped, Txs
    <2>2. \A u \in txs' : Landed(u) => u \in txs
      BY <1>2, <2>1, ExecutedTxs DEF Landed
    <2>q. QED BY <1>1, <2>2 DEF LandedAlone, Landed, SwipeTx
  <1>q. QED BY <1>3, <1>4, <1>5

LEMMA ExecuteStep == ASSUME IInv, NEW t \in txs, execute(t) PROVE IInv'
  <1> USE DEF IInv, chainVars, serverVars, gameVars, loadVars, entryVars
  <1>1. UNCHANGED <<mirror, room, news, snap, roomState, phase, cardIdx, route, load, sent>>
    BY DEF execute
  <1>2. Executed(t, "landed") /\ Executable(t) BY DEF execute
  <1>3. t \in Txs /\ (t.kind \in Swipes => t.card \in Cards) BY DEF TxsTyped
  <1>0. OffDuel' BY <1>1 DEF OffDuel
  <1>4. CASE t.kind \notin Swipes
    <2>1. duel'.mine = duel.mine /\ DuelGrows
      <3>1. CASE t.kind = "create"
        BY <1>4, <3>1 DEF execute, DuelGrows, DuelTyped, Stages, Swipes
      <3>2. CASE t.kind = "join"
        BY <1>2, <3>2 DEF execute, Executable, DuelGrows, DuelTyped, Stages, Becomes, Swipes
      <3>q. QED BY <1>3, <1>4, <3>1, <3>2 DEF Txs, Kinds
    <2>2. RowsOld' BY <1>1, <2>1, RowsStayOld
    <2>3. PageTyped' /\ NotAhead'
      BY <1>1, <2>1 DEF PageTyped, NotAhead, DuelGrows, DuelTyped
    <2>4. LandedAlone'
      <3>1. [t EXCEPT !.fate = "landed"].kind = t.kind BY <1>3 DEF Txs
      <3>2. \A u \in txs' : Landed(u) => u \in txs
        BY <1>2, <1>4, <3>1, ExecutedTxs DEF Landed, SwipeTx
      <3>q. QED BY <1>1, <2>1, <3>2 DEF LandedAlone, Landed, SwipeTx
    <2>q. QED
      BY <1>0, <1>1, <1>2, <2>1, <2>2, <2>3, <2>4, ExecutedTxs, ExecutedEntry,
         ExecutedSwipes DEF DuelGrows
  <1>5. CASE t.kind \in Swipes
    <2>1. duel.stage = "revealed" /\ t.card = duel.mine /\ t.card \in Cards
      BY <1>2, <1>3, <1>5 DEF Executable, Swipes
    <2>2. duel' = [duel EXCEPT !.mine = @ + 1] BY <1>5 DEF execute, Swipes
    <2>3. duel'.mine = duel.mine + 1 /\ duel'.stage = duel.stage
      BY <2>2 DEF DuelTyped
    <2>4. DuelGrows BY <2>1, <2>2 DEF DuelGrows, DuelTyped, Cards
    <2>5. RowsOld' BY <1>1, <2>4, RowsStayOld
    <2>6. PageTyped' /\ NotAhead'
      BY <1>1, <2>1, <2>3, <2>4 DEF PageTyped, NotAhead, DuelGrows, DuelTyped, Cards
    <2>7. LandedAlone'
      <3> SUFFICES ASSUME phase = "SWIPING"
                   PROVE  \A u \in txs' : Landed(u) =>
                            /\ u.card = cardIdx /\ cardIdx < duel'.mine
                            /\ \A v \in txs' : Landed(v) => v = u
        BY <1>1 DEF LandedAlone, Landed, SwipeTx
      <3> DEFINE now == [t EXCEPT !.fate = "landed"]
      <3>1. now.card = t.card /\ now.live = t.live BY <1>3 DEF Txs
      <3>2. cardIdx <= duel.mine BY DEF NotAhead
      <3>3. CASE t.live
        <4>1. t.card = cardIdx
          BY <1>5, <2>1, <3>2, <3>3 DEF SwipesShown, SwipeTx, PageTyped, DuelTyped
        <4>2. \A u \in txs : ~Landed(u)
          BY <2>1, <4>1, <3>2 DEF LandedAlone, DuelTyped, PageTyped
        <4>3. \A u \in txs' : Landed(u) => u = now
          BY <1>2, <4>2, ExecutedTxs
        <4>4. cardIdx < duel'.mine BY <4>1, <2>1, <2>3 DEF DuelTyped
        <4>5. now.card = cardIdx BY <3>1, <4>1
        <4> HIDE DEF now
        <4>q. QED BY <4>3, <4>4, <4>5
      <3>4. CASE ~t.live
        <4>1. txs' \subseteq txs BY <1>2, <3>4 DEF Executed
        <4>q. QED BY <4>1, <2>3 DEF LandedAlone, DuelTyped, PageTyped
      <3>q. QED BY <3>3, <3>4
    <2>q. QED
      BY <1>0, <1>1, <1>2, <2>4, <2>5, <2>6, <2>7, ExecutedTxs, ExecutedEntry,
         ExecutedSwipes DEF DuelGrows
  <1>q. QED BY <1>4, <1>5

\* A transaction answered is gone; the rest is as it was.
LEMMA AnsweredTxs ==
  ASSUME TxsTyped, txs' \subseteq txs
  PROVE  TxsTyped'
  BY DEF TxsTyped

LEMMA NoSwipeOffDuel ==
  ASSUME SwipesShown, phase \notin Playing
  PROVE  \A t \in txs : ~SwipeTx(t)
  BY DEF SwipesShown

LEMMA EntryAnswerStep == ASSUME IInv, NEW t \in txs, entryAnswer(t) PROVE IInv'
  <1> USE DEF IInv, chainVars, serverVars, gameVars, loadVars, entryVars
  <1>1. EntryTx(t) BY DEF entryAnswer, EntryTx
  <1>2. /\ route \in {"pvp", "home"} /\ (route = "pvp" => sent)
        /\ \A u \in txs : EntryTx(u) => u = t
    BY <1>1 DEF EntryAlone
  <1>3. phase \in {"none", "ENTRY", "ERROR"} /\ ~room /\ news = Nothing /\ snap = Nothing
    BY <1>2 DEF OffDuel
  <1>4. \A u \in txs : ~SwipeTx(u) BY <1>3, NoSwipeOffDuel DEF Playing
  <1>5. txs' = txs \ {t} BY DEF entryAnswer, Answered
  <1>6. UNCHANGED <<duel, mirror, roomState, cardIdx>> BY DEF entryAnswer
  <1>7. TxsTyped' /\ DuelTyped' BY <1>5, <1>6, AnsweredTxs DEF DuelTyped
  <1>8. \A u \in txs' : ~EntryTx(u) /\ ~SwipeTx(u) BY <1>2, <1>4, <1>5
  <1>9. EntryAlone' /\ SwipesShown' /\ LandedAlone'
    BY <1>8 DEF EntryAlone, EntryTx, SwipesShown, SwipeTx, LandedAlone, Landed
  <1>10. /\ phase' \in {"none", "ENTRY", "ERROR"} /\ ~room'
         /\ news' = Nothing /\ snap' = Nothing
    <2>1. CASE NewPage /\ EntryGone BY <2>1 DEF NewPage, Unheard, EntryGone
    <2>2. CASE /\ phase' = IF route = "pvp" THEN "ERROR" ELSE phase
               /\ UNCHANGED <<room, news, snap>>
      BY <1>3, <2>2
    <2>q. QED BY <2>1, <2>2 DEF entryAnswer
  <1>11. RowsOld' BY <1>3, <1>6, <1>10 DEF RowsOld, Old
  <1>12. PageTyped' /\ OffDuel' /\ NotAhead'
    BY <1>6, <1>10 DEF PageTyped, Phases, OffDuel, NotAhead, Nothing
  <1>q. QED BY <1>7, <1>9, <1>11, <1>12

LEMMA SwipeAnswerStep == ASSUME IInv, NEW t \in txs, swipeAnswer(t) PROVE IInv'
  <1> USE DEF IInv, chainVars, serverVars, gameVars, loadVars, entryVars
  <1>1. PICK ok \in BOOLEAN : Answered(t, ok) /\ cardIdx' = CardAfter(ok)
    BY DEF swipeAnswer
  <1>2. UNCHANGED <<duel, mirror, room, news, snap, roomState, phase, route, load, sent>>
    BY DEF swipeAnswer
  <1>3. txs' = txs \ {t} BY <1>1 DEF Answered
  <1>4. DuelTyped' /\ RowsOld' /\ OffDuel' /\ TxsTyped'
    BY <1>2, <1>3, SameRows, AnsweredTxs DEF DuelTyped, OffDuel
  <1>5. EntryAlone' BY <1>2, <1>3 DEF EntryAlone, EntryTx
  <1>6. CASE ok /\ phase = "SWIPING"
    <2>1. Landed(t) BY <1>1, <1>6 DEF swipeAnswer, Answered, Landed, SwipeTx
    <2>2. /\ cardIdx < duel.mine
          /\ \A u \in txs : Landed(u) => u = t
      BY <1>6, <2>1 DEF LandedAlone
    <2>3. cardIdx' = cardIdx + 1 BY <1>1, <1>6 DEF CardAfter
    <2>4. PageTyped' /\ NotAhead'
      BY <1>2, <1>6, <2>2, <2>3 DEF PageTyped, NotAhead, DuelTyped
    <2>5. SwipesShown'
      <3>1. \A u \in txs : SwipeTx(u) => u.card \in Cards
        BY DEF TxsTyped, SwipeTx
      <3>q. QED
        BY <1>2, <1>3, <2>3, <3>1 DEF SwipesShown, SwipeTx, PageTyped, Cards
    <2>6. LandedAlone' BY <1>3, <2>2 DEF LandedAlone, Landed, SwipeTx
    <2>q. QED BY <1>4, <1>5, <2>4, <2>5, <2>6
  <1>7. CASE ~(ok /\ phase = "SWIPING")
    <2>1. cardIdx' = cardIdx BY <1>1, <1>7 DEF CardAfter
    <2>2. PageTyped' /\ NotAhead' BY <1>2, <2>1 DEF PageTyped, NotAhead
    <2>3. SwipesShown' /\ LandedAlone'
      BY <1>2, <1>3, <2>1 DEF SwipesShown, SwipeTx, LandedAlone, Landed
    <2>q. QED BY <1>4, <1>5, <2>2, <2>3
  <1>q. QED BY <1>6, <1>7

-----------------------------------------------------------------------------
(* The screens. *)

\* A step after which no game is on screen: what was signed goes on without it.
LEMMA OffStep ==
  ASSUME IInv, UNCHANGED <<duel, mirror>>,
         phase' \in {"none", "ENTRY", "ERROR"}, cardIdx' \in 0 .. cardCount,
         ~room', news' = Nothing, snap' = Nothing,
         roomState' \in {Nothing, roomState},
         \A t \in txs' : ~SwipeTx(t), TxsTyped', EntryAlone'
  PROVE  IInv'
  <1> USE DEF IInv
  <1>1. DuelTyped' BY DEF DuelTyped
  <1>2. RowsOld'
    <2>1. Old(mirror) /\ Old(Nothing) /\ Old(roomState) BY NothingOld DEF RowsOld
    <2>2. Old(mirror') /\ Old(news') /\ Old(snap') /\ Old(roomState') BY <2>1
    <2>q. QED BY <2>2 DEF RowsOld, Old
  <1>3. PageTyped' /\ OffDuel' /\ NotAhead'
    BY DEF PageTyped, Phases, OffDuel, NotAhead, Nothing
  <1>4. SwipesShown' /\ LandedAlone'
    BY DEF SwipesShown, SwipeTx, LandedAlone, Landed
  <1>q. QED BY <1>1, <1>2, <1>3, <1>4

LEMMA LoadStep == IInv /\ (fetchDuel \/ fetchDuelFails) => IInv'
  <1> SUFFICES ASSUME IInv, fetchDuel \/ fetchDuelFails PROVE IInv' OBVIOUS
  <1> USE DEF chainVars, serverVars, gameVars, loadVars, entryVars
  <1>1. route = "play" /\ load = "loading" BY DEF fetchDuel, fetchDuelFails
  <1>2. /\ ~room /\ news = Nothing /\ snap = Nothing
        /\ phase \in {"none", "ENTRY", "ERROR"}
    BY <1>1 DEF IInv, OffDuel
  <1>3. UNCHANGED <<duel, mirror, phase, cardIdx, roomState, txs>>
    BY DEF fetchDuel, fetchDuelFails
  <1>4. ~room' /\ news' = Nothing /\ snap' = Nothing
    BY <1>2 DEF fetchDuel, fetchDuelFails, ToResult, NewPage, Unheard
  <1>5. \A t \in txs : ~SwipeTx(t) /\ ~EntryTx(t)
    BY <1>1, <1>2, NoSwipeOffDuel DEF IInv, Playing, EntryAlone
  <1>6. TxsTyped' /\ EntryAlone' /\ \A t \in txs' : ~SwipeTx(t)
    BY <1>3, <1>5 DEF IInv, TxsTyped, EntryAlone, EntryTx, SwipeTx
  <1>q. QED BY <1>2, <1>3, <1>4, <1>6, OffStep DEF IInv, PageTyped

LEMMA MountStep == IInv /\ mount => IInv'
  <1> SUFFICES ASSUME IInv, mount PROVE IInv' OBVIOUS
  <1> USE DEF IInv, chainVars, serverVars, gameVars, loadVars, entryVars
  <1>1. UNCHANGED <<duel, mirror, news, roomState, cardIdx, txs, route, load, sent>>
    BY DEF mount
  <1>2. \A t \in txs : ~SwipeTx(t) BY NoSwipeOffDuel DEF mount, Playing
  <1>3. DuelTyped' /\ TxsTyped' /\ EntryAlone'
    BY <1>1 DEF DuelTyped, TxsTyped, EntryAlone, EntryTx
  <1>4. Old(snap') BY NothingOld DEF mount, Snapshot, RowsOld
  <1>5. RowsOld' BY <1>1, <1>4 DEF RowsOld, Old
  <1>6. PageTyped' /\ OffDuel' /\ NotAhead'
    BY <1>1 DEF mount, PageTyped, Phases, OffDuel, NotAhead
  <1>7. SwipesShown' /\ LandedAlone'
    BY <1>1, <1>2 DEF mount, SwipesShown, SwipeTx, LandedAlone, Landed
  <1>q. QED BY <1>3, <1>5, <1>6, <1>7

-----------------------------------------------------------------------------
(* The room_state messages and the swipes. *)

LEMMA RoomStateStep ==
  ASSUME IInv, NEW m, Old(m), onRoomState(m), route = "play", load = "ready",
         Old(news'), Old(snap')
  PROVE  IInv'
  <1> USE DEF IInv, loadVars, entryVars, chainVars
  <1>1. UNCHANGED <<duel, mirror, route, load, txs>> /\ roomState' = m
    BY DEF onRoomState
  <1>2. DuelTyped' /\ TxsTyped' /\ OffDuel' /\ RowsOld'
    BY <1>1 DEF DuelTyped, TxsTyped, OffDuel, RowsOld, Old
  <1>3. EntryAlone' BY <1>1 DEF EntryAlone, EntryTx
  <1>4. PageTyped' /\ SwipesShown' /\ LandedAlone' /\ NotAhead'
    <2>1. CASE m.stage = "complete"
      <3>1. phase' = "COMPLETE" /\ cardIdx' = cardIdx /\ duel'.stage = "complete"
        BY <1>1, <2>1 DEF onRoomState, PhaseAfter, Old
      <3>q. QED
        BY <1>1, <3>1 DEF PageTyped, Phases, SwipesShown, SwipeTx, Playing,
                          LandedAlone, NotAhead
    <2>2. CASE m.stage = "revealed" /\ phase = "AWAIT_REVEAL"
      <3>1. phase' = "SWIPING" /\ cardIdx' = m.mine
        BY <2>2 DEF onRoomState, PhaseAfter, nextCardIdx
      <3>2. \A t \in txs' : ~SwipeTx(t) BY <1>1, <2>2, NoSwipeOffDuel DEF Playing
      <3>3. cardIdx' \in 0 .. cardCount /\ cardIdx' <= duel'.mine
        BY <1>1, <3>1 DEF Old, Rows
      <3>q. QED
        BY <3>1, <3>2, <3>3 DEF PageTyped, Phases, SwipesShown, LandedAlone,
           Landed, SwipeTx, NotAhead
    <2>3. CASE m.stage # "complete" /\ phase = "SWIPING" /\ m.mine = CardCount(m)
      <3>1. phase' = "AWAIT_SETTLEMENT" /\ cardIdx' = cardIdx
        BY <2>3 DEF onRoomState, PhaseAfter
      <3>q. QED
        BY <1>1, <3>1 DEF PageTyped, Phases, SwipesShown, SwipeTx, Playing,
                                LandedAlone, NotAhead
    <2>4. CASE /\ m.stage # "complete"
               /\ ~(m.stage = "revealed" /\ phase = "AWAIT_REVEAL")
               /\ ~(phase = "SWIPING" /\ m.mine = CardCount(m))
      <3>1. phase' = phase BY <2>4 DEF onRoomState, PhaseAfter
      <3>2. cardIdx' = cardIdx BY <3>1 DEF onRoomState
      <3>q. QED
        BY <1>1, <3>1, <3>2 DEF PageTyped, SwipesShown, SwipeTx, LandedAlone,
                                Landed, NotAhead
    <2>q. QED BY <2>1, <2>2, <2>3, <2>4
  <1>q. QED BY <1>2, <1>3, <1>4

LEMMA ReceiveStep ==
  IInv /\ (receiveNews \/ receiveSnapshot \/ snapshotFails) => IInv'
  <1> SUFFICES ASSUME IInv, receiveNews \/ receiveSnapshot \/ snapshotFails
               PROVE  IInv'
    OBVIOUS
  <1>1. route = "play" /\ load = "ready"
    BY DEF receiveNews, receiveSnapshot, snapshotFails, IInv, OffDuel
  <1>2. Old(news) /\ Old(snap) /\ Old(Nothing)
    BY NothingOld DEF IInv, RowsOld
  <1>3. CASE receiveNews
    <2>1. Old(news') /\ Old(snap') BY <1>2, <1>3 DEF receiveNews
    <2>q. QED BY <1>1, <1>2, <1>3, <2>1, RoomStateStep DEF receiveNews
  <1>4. CASE receiveSnapshot
    <2>1. Old(news') /\ Old(snap') BY <1>2, <1>4 DEF receiveSnapshot
    <2>q. QED BY <1>1, <1>2, <1>4, <2>1, RoomStateStep DEF receiveSnapshot
  <1>5. CASE snapshotFails
    <2> USE DEF chainVars, gameVars, loadVars, entryVars
    <2>1. Quiet /\ UNCHANGED <<duel, mirror, news, roomState, load, room>>
      BY <1>5 DEF snapshotFails, Quiet
    <2>2. snap' = Nothing BY <1>5 DEF snapshotFails
    <2>3. RowsOld' BY <1>2, <2>1, <2>2 DEF IInv, RowsOld, Old
    <2>4. OffDuel' BY <1>1, <2>1 DEF Quiet, OffDuel
    <2>q. QED BY <2>1, <2>3, <2>4, QuietStep, SameDuelGrows DEF IInv
  <1>q. QED BY <1>3, <1>4, <1>5

LEMMA SwipeStep == IInv /\ (swipe \/ autoSwipe) => IInv'
  <1> SUFFICES ASSUME IInv, swipe \/ autoSwipe PROVE IInv' OBVIOUS
  <1> USE DEF IInv, chainVars, serverVars, gameVars, loadVars, entryVars
  <1>1. UNCHANGED <<duel, mirror, room, news, snap, roomState, phase, cardIdx, route, load, sent>>
    BY DEF swipe, autoSwipe
  <1>2. PICK kind \in Swipes : txs' = txs \cup {Tx(kind, cardIdx)}
    BY DEF swipe, autoSwipe, Sends, Swipes
  <1>3. phase = "SWIPING" /\ cardIdx \in Cards BY DEF swipe, autoSwipe, Shown
  <1>4. /\ Tx(kind, cardIdx) \in Txs /\ Tx(kind, cardIdx).kind \in Swipes
        /\ Tx(kind, cardIdx).card = cardIdx /\ Tx(kind, cardIdx).fate = "sent"
    BY <1>3 DEF Tx, Txs, Kinds, Cards
  <1>5. DuelTyped' /\ RowsOld' /\ PageTyped' /\ OffDuel' /\ NotAhead'
    BY <1>1, SameRows DEF DuelTyped, PageTyped, OffDuel, NotAhead
  <1>6. TxsTyped' BY <1>2, <1>3, <1>4 DEF TxsTyped
  <1>7. EntryAlone' BY <1>1, <1>2, <1>4 DEF EntryAlone, EntryTx
  <1>8. SwipesShown'
    BY <1>1, <1>2, <1>3, <1>4 DEF SwipesShown, SwipeTx, Playing, PageTyped
  <1>9. \A u \in txs' : Landed(u) => u \in txs BY <1>2, <1>4 DEF Landed
  <1>10. LandedAlone' BY <1>1, <1>9 DEF LandedAlone, Landed, SwipeTx
  <1>q. QED BY <1>5, <1>6, <1>7, <1>8, <1>10

-----------------------------------------------------------------------------
(* The socket and the page. *)

LEMMA AbandonedTxs ==
  ASSUME TxsTyped, NEW kinds, txs' = Abandoned(kinds)
  PROVE  /\ TxsTyped'
         /\ \A u \in txs' : u.live => u \in txs /\ u.kind \notin kinds
  <1>1. \A t \in txs : LET u == [t EXCEPT !.live = FALSE]
                       IN  u \in Txs /\ u.kind = t.kind /\ u.card = t.card /\ ~u.live
    BY DEF TxsTyped, Txs
  <1>q. QED BY <1>1 DEF TxsTyped, Abandoned

LEMMA LeaveStep == IInv /\ (onclose \/ reload \/ onExit) => IInv'
  <1> SUFFICES ASSUME IInv, onclose \/ reload \/ onExit PROVE IInv' OBVIOUS
  <1> USE DEF chainVars, serverVars, gameVars, loadVars, entryVars
  <1>1. /\ UNCHANGED <<duel, mirror>>
        /\ ~room' /\ news' = Nothing /\ snap' = Nothing
    BY DEF onclose, reload, onExit, NewPage, Unheard
  <1>2. 0 \in 0 .. cardCount OBVIOUS
  <1>3. CASE onclose
    <2>1. CASE route = "play"
      <3>1. /\ txs' = Abandoned(Swipes) /\ phase' = "none" /\ cardIdx' = 0
            /\ roomState' = Nothing /\ route' = route
        BY <1>3, <2>1 DEF onclose, Unmounted, Blank
      <3>2. TxsTyped' /\ \A u \in txs' : u.live => u \in txs /\ u.kind \notin Swipes
        BY <3>1, AbandonedTxs DEF IInv
      <3>3. \A u \in txs' : ~SwipeTx(u) BY <3>2 DEF SwipeTx
      <3>4. \A u \in txs' : ~EntryTx(u)
        BY <2>1, <3>2 DEF IInv, EntryAlone, EntryTx
      <3>5. EntryAlone' BY <3>4 DEF EntryAlone, EntryTx
      <3>q. QED BY <1>1, <1>2, <3>1, <3>2, <3>3, <3>5, OffStep
    <2>2. CASE route # "play"
      <3>1. UNCHANGED <<txs, phase, cardIdx, roomState, route, sent>>
        BY <1>3, <2>2 DEF onclose
      <3>2. phase \in {"none", "ENTRY", "ERROR"} BY <2>2 DEF IInv, OffDuel
      <3>3. \A u \in txs' : ~SwipeTx(u)
        BY <3>1, <3>2, NoSwipeOffDuel DEF IInv, Playing
      <3>4. TxsTyped' /\ EntryAlone'
        BY <3>1 DEF IInv, TxsTyped, EntryAlone, EntryTx
      <3>q. QED BY <1>1, <3>1, <3>2, <3>3, <3>4, OffStep DEF IInv, PageTyped
    <2>q. QED BY <2>1, <2>2
  <1>4. CASE reload
    <2>1. /\ txs' = Abandoned({"create", "join"} \cup Swipes) /\ phase' = "none"
          /\ cardIdx' = 0 /\ roomState' = Nothing
      BY <1>4 DEF reload, EntryGone, Blank
    <2>2. TxsTyped' /\ \A u \in txs' : ~u.live
      BY <2>1, AbandonedTxs DEF IInv, TxsTyped, Txs, Kinds
    <2>3. EntryAlone' /\ \A u \in txs' : ~SwipeTx(u)
      BY <2>2 DEF EntryAlone, EntryTx, SwipeTx
    <2>q. QED BY <1>1, <1>2, <2>1, <2>2, <2>3, OffStep
  <1>5. CASE onExit
    <2>1. /\ txs' = Abandoned(Swipes) /\ phase' = "none" /\ cardIdx' = 0
          /\ roomState' = Nothing /\ route' = "home"
      BY <1>5 DEF onExit, Unmounted, Blank
    <2>2. TxsTyped' /\ \A u \in txs' : u.live => u \in txs /\ u.kind \notin Swipes
      BY <2>1, AbandonedTxs DEF IInv
    <2>3. EntryAlone' BY <2>1, <2>2 DEF IInv, EntryAlone, EntryTx
    <2>4. \A u \in txs' : ~SwipeTx(u) BY <2>2 DEF SwipeTx
    <2>q. QED BY <1>1, <1>2, <2>1, <2>2, <2>3, <2>4, OffStep
  <1>q. QED BY <1>3, <1>4, <1>5

LEMMA ReturnStep == IInv /\ (connect \/ openDuel) => IInv'
  <1> SUFFICES ASSUME IInv, connect \/ openDuel PROVE IInv' OBVIOUS
  <1> USE DEF chainVars, serverVars, gameVars, loadVars, entryVars
  <1>1. CASE connect
    <2>1. Quiet /\ UNCHANGED <<duel, mirror, news, snap, roomState, load, room>>
      BY <1>1 DEF connect, Quiet
    <2>2. OffDuel' BY <2>1 DEF IInv, OffDuel, Quiet
    <2>q. QED BY <2>1, <2>2, QuietStep, SameRows, SameDuelGrows DEF IInv
  <1>2. CASE openDuel
    <2>1. /\ UNCHANGED <<duel, mirror, phase, cardIdx, roomState, txs>>
          /\ ~room' /\ news' = Nothing /\ snap' = Nothing
      BY <1>2 DEF openDuel, NewPage, Unheard
    <2>2. \A t \in txs' : ~t.live BY <1>2, <2>1 DEF openDuel
    <2>3. phase \in {"none", "ENTRY", "ERROR"} BY <1>2 DEF openDuel, IInv, OffDuel
    <2>4. TxsTyped' /\ EntryAlone' /\ \A t \in txs' : ~SwipeTx(t)
      BY <2>1, <2>2 DEF IInv, TxsTyped, EntryAlone, EntryTx, SwipeTx
    <2>q. QED BY <2>1, <2>3, <2>4, OffStep DEF IInv, PageTyped
  <1>q. QED BY <1>1, <1>2

-----------------------------------------------------------------------------
(* Every step. *)

LEMMA CreatedStep == IInv /\ CreatedTyped /\ [Next]_vars => CreatedTyped'
  <1> SUFFICES ASSUME IInv, CreatedTyped, [Next]_vars PROVE CreatedTyped' OBVIOUS
  <1> USE DEF chainVars
  <1>1. CASE \E t \in txs : execute(t)
    <2> PICK t \in txs : execute(t) BY <1>1
    <2>1. t.kind \in {"create", "join"} \cup Swipes
      BY DEF IInv, TxsTyped, Txs, Kinds
    <2>2. created' = created \/ created' = created + 1 BY <2>1 DEF execute, Swipes
    <2>q. QED BY <2>2 DEF CreatedTyped
  <1>2. CASE UNCHANGED created BY <1>2 DEF CreatedTyped
  <1>3. CASE World BY <1>3, <1>2 DEF World
  <1>4. CASE DuelCreatedSeen \/ HandshakeTimeout \/ Refresh
    BY <1>4, <1>2 DEF DuelCreatedSeen, HandshakeTimeout, Refresh
  <1>5. CASE Page
    BY <1>5, <1>2 DEF Page, createEffect, entryTimeout, fetchDuel, mount, connect
  <1>6. CASE Receive \/ snapshotFails
    BY <1>6, <1>2 DEF Receive, receiveAssigned, receiveNews, receiveSnapshot,
       onRoomState, snapshotFails
  <1>7. CASE \E t \in txs : abort(t) \/ Answer(t)
    BY <1>7, <1>2 DEF abort, Answer, entryAnswer, swipeAnswer
  <1>8. CASE fetchDuelFails \/ swipe \/ autoSwipe
    BY <1>8, <1>2 DEF fetchDuelFails, swipe, autoSwipe
  <1>9. CASE onclose \/ reload \/ onExit \/ openDuel
    BY <1>9, <1>2 DEF onclose, reload, onExit, openDuel
  <1>10. CASE UNCHANGED vars BY <1>10, <1>2 DEF vars
  <1>q. QED
    BY <1>1, <1>3, <1>4, <1>5, <1>6, <1>7, <1>8, <1>9, <1>10 DEF Next

LEMMA NextIInv == IInv /\ CreatedTyped /\ [Next]_vars => IInv'
  <1> SUFFICES ASSUME IInv, CreatedTyped, [Next]_vars PROVE IInv' OBVIOUS
  <1>1. CASE World BY <1>1, WorldStep
  <1>2. CASE DuelCreatedSeen \/ HandshakeTimeout \/ Refresh BY <1>2, ServerStep
  <1>3. CASE createEffect \/ receiveAssigned \/ entryTimeout BY <1>3, EntryStep
  <1>4. CASE \E t \in txs : execute(t) \/ abort(t) BY <1>4, ExecuteStep, AbortStep
  <1>5. CASE \E t \in txs : Answer(t)
    BY <1>5, EntryAnswerStep, SwipeAnswerStep DEF Answer
  <1>6. CASE fetchDuel \/ fetchDuelFails BY <1>6, LoadStep
  <1>7. CASE mount BY <1>7, MountStep
  <1>8. CASE receiveNews \/ receiveSnapshot \/ snapshotFails BY <1>8, ReceiveStep
  <1>9. CASE swipe \/ autoSwipe BY <1>9, SwipeStep
  <1>10. CASE onclose \/ reload \/ onExit BY <1>10, LeaveStep
  <1>11. CASE connect \/ openDuel BY <1>11, ReturnStep
  <1>12. CASE UNCHANGED vars
    <2>1. Quiet /\ UNCHANGED <<duel, mirror, news, snap, roomState, load, room>>
      BY <1>12 DEF vars, Quiet, chainVars, serverVars, gameVars, loadVars, entryVars
    <2>2. OffDuel' BY <2>1 DEF IInv, OffDuel, Quiet
    <2>q. QED BY <2>1, <2>2, QuietStep, SameRows, SameDuelGrows DEF IInv
  <1>q. QED
    BY <1>1, <1>2, <1>3, <1>4, <1>5, <1>6, <1>7, <1>8, <1>9, <1>10, <1>11, <1>12
       DEF Next, Page, Receive

-----------------------------------------------------------------------------
(* Why the page stops asking for picks. *)

\* "Picks locked in": said on the last pick, or on a row from before the reveal.
LocksIn ==
  phase' = "AWAIT_SETTLEMENT" /\ phase # phase' =>
    /\ phase = "SWIPING"
    /\ duel.mine = cardCount \/ roomState'.stage = "hidden"

LEMMA RoomStateLocks ==
  ASSUME DuelTyped, NEW m, Old(m), onRoomState(m)
  PROVE  LocksIn
  <1> SUFFICES ASSUME phase' = "AWAIT_SETTLEMENT", phase # phase'
               PROVE  /\ phase = "SWIPING"
                      /\ duel.mine = cardCount \/ roomState'.stage = "hidden"
    BY DEF LocksIn
  <1>1. roomState' = m /\ phase' = PhaseAfter(m) BY DEF onRoomState
  <1>2. phase = "SWIPING" /\ m.mine = CardCount(m) BY <1>1 DEF PhaseAfter
  <1>3. CASE m.stage = "hidden" BY <1>1, <1>2, <1>3
  <1>4. CASE m.stage # "hidden"
    <2>1. m.mine = cardCount BY <1>2, <1>4 DEF CardCount
    <2>2. duel.mine = cardCount BY <2>1 DEF Old, Rows, DuelTyped
    <2> QED BY <1>2, <2>2
  <1> QED BY <1>3, <1>4

LEMMA NextLocks == IInv /\ [Next]_vars => LocksIn
  <1> SUFFICES ASSUME IInv, [Next]_vars PROVE LocksIn OBVIOUS
  <1> USE DEF chainVars, serverVars, gameVars, loadVars, entryVars
  <1>1. CASE receiveNews \/ receiveSnapshot
    <2>1. DuelTyped /\ Old(news) /\ Old(snap) BY DEF IInv, RowsOld
    <2> QED BY <1>1, <2>1, RoomStateLocks DEF receiveNews, receiveSnapshot
  <1>2. CASE phase' = phase \/ phase' \in {"none", "ERROR", "AWAIT_REVEAL"}
    BY <1>2 DEF LocksIn
  <1>3. CASE World \/ DuelCreatedSeen \/ HandshakeTimeout \/ Refresh
    BY <1>2, <1>3 DEF World, DuelCreatedSeen, HandshakeTimeout, Refresh
  <1>4. CASE Page
    BY <1>2, <1>4 DEF Page, createEffect, entryTimeout, fetchDuel, mount, connect
  <1>5. CASE receiveAssigned \/ snapshotFails \/ fetchDuelFails
    BY <1>2, <1>5 DEF receiveAssigned, snapshotFails, fetchDuelFails
  <1>6. CASE \E t \in txs : execute(t) \/ abort(t) \/ swipeAnswer(t)
    BY <1>2, <1>6 DEF execute, abort, swipeAnswer
  <1>7. CASE \E t \in txs : entryAnswer(t)
    BY <1>2, <1>7 DEF entryAnswer, EntryGone
  <1>8. CASE swipe \/ autoSwipe \/ openDuel
    BY <1>2, <1>8 DEF swipe, autoSwipe, openDuel
  <1>9. CASE onclose \/ reload \/ onExit
    BY <1>2, <1>9 DEF onclose, reload, onExit, Unmounted, EntryGone
  <1>10. CASE UNCHANGED vars BY <1>2, <1>10 DEF vars
  <1> QED
    BY <1>1, <1>3, <1>4, <1>5, <1>6, <1>7, <1>8, <1>9, <1>10
       DEF Next, Receive, Answer

\* The page never skips a card and never shows a result before there is one, and
\* it says "picks locked in" only on the last pick or on a row from before the
\* reveal (active-duel.tsx, the room_state handler and pvpSwipe).
THEOREM PageNeverAhead == Spec => NeverAhead
  <1> DEFINE SwipingShown == phase = "SWIPING" => cardIdx <= duel.mine
             ResultShown == phase = "COMPLETE" => duel.stage = "complete"
  <1>1. Init => IInv /\ CreatedTyped BY InitIInv DEF Init, CreatedTyped
  <1>2. IInv /\ CreatedTyped /\ [Next]_vars => (IInv /\ CreatedTyped)'
    BY NextIInv, CreatedStep
  <1>3. IInv => SwipingShown /\ ResultShown BY DEF IInv, NotAhead
  <1>4. IInv /\ [Next]_vars => [LocksIn]_vars BY NextLocks
  <1>5. Spec => []SwipingShown /\ []ResultShown /\ [][LocksIn]_vars
    BY <1>1, <1>2, <1>3, <1>4, PTL DEF Spec
  <1> QED BY <1>5 DEF NeverAhead, LocksIn

-----------------------------------------------------------------------------
(***************************************************************************)
(* The types.  All but one are step by step; that the duels a page creates *)
(* are at most one more than the faults it met is an invariant of its own: *)
(* whoever still owes a create has a fault to pay for it.                  *)
(***************************************************************************)
Creates(t) == t.kind = "create"

\* A create that is on its way, was refused, or that the effect will sign.
Owed ==
  \/ role = "creator" /\ route = "pvp" /\ ~sent
  \/ \E t \in txs : Creates(t) /\ t.fate # "landed"

OneCreate == \A t, u \in txs : Creates(t) /\ Creates(u) => t = u

OfItsRole ==
  /\ assigned => role = "challenger"
  /\ \A t \in txs : /\ Creates(t) => role = "creator" /\ (route # "pvp" \/ sent)
                    /\ t.kind = "join" => role = "challenger"

FaultsTyped == faults \in 0 .. MaxFaults /\ created \in Nat

Counted ==
  /\ FaultsTyped /\ OneCreate /\ OfItsRole
  /\ created <= faults + 1 /\ (Owed => created <= faults)

LEMMA InitCounted == Init => Counted
  BY DEF Init, Counted, FaultsTyped, OneCreate, OfItsRole

\* A step after which the creates are those of before, further on.
Follows ==
  \A u \in txs' :
    /\ u.kind = "join" => role = "challenger"
    /\ Creates(u) =>
         \E t \in txs : Creates(t) /\ (t.fate = "landed" => u.fate = "landed")

LEMMA Slack ==
  ASSUME NEW c \in Nat, NEW f \in Nat, NEW g \in Nat, c <= f + 1, g >= f
  PROVE  c <= g + 1
  OBVIOUS

LEMMA Within ==
  ASSUME NEW c \in Nat, NEW f \in Nat, c <= f
  PROVE  c <= f + 1
  OBVIOUS

\* Steps that sign no create and answer none.
LEMMA CountedKeeps ==
  ASSUME Counted, UNCHANGED <<role, created>>, Fault \/ NoFault,
         assigned' => role = "challenger",
         route' = "pvp" => route = "pvp" /\ (sent => sent'),
         OneCreate', Follows
  PROVE  Counted'
  <1>1. FaultsTyped' /\ faults' >= faults
    BY DEF Counted, FaultsTyped, Fault, NoFault
  <1>2. OfItsRole' BY DEF Counted, OfItsRole, Creates, Follows
  <1>3. Owed' => Owed BY DEF Owed, Creates, Follows
  <1>4. created' = created /\ created \in Nat /\ faults \in Nat /\ faults' \in Nat
    BY <1>1 DEF Counted, FaultsTyped
  <1>5. created' <= faults' + 1
    <2>1. created <= faults + 1 BY DEF Counted
    <2> QED BY <1>1, <1>4, <2>1, Slack
  <1>6. Owed' => created' <= faults'
    <2>1. Owed => created <= faults BY DEF Counted
    <2> QED BY <1>1, <1>3, <1>4, <2>1
  <1> QED BY <1>1, <1>2, <1>5, <1>6 DEF Counted

\* No new create, no new join.
LEMMA FewerTxs ==
  ASSUME Counted, \A u \in txs' : u.kind \in Swipes \/ u \in txs
  PROVE  OneCreate' /\ Follows
  BY DEF Counted, OneCreate, OfItsRole, Follows, Creates, Swipes

LEMMA SameTxs ==
  ASSUME Counted, UNCHANGED txs PROVE OneCreate' /\ Follows
  BY FewerTxs

LEMMA AbandonedCreates ==
  ASSUME Counted, TxsTyped, NEW kinds, txs' = Abandoned(kinds)
  PROVE  OneCreate' /\ Follows
  <1> DEFINE left(t) == IF t.kind \in kinds THEN [t EXCEPT !.live = FALSE] ELSE t
  <1>1. \A t \in txs : left(t).kind = t.kind /\ left(t).fate = t.fate
    BY DEF TxsTyped, Txs
  <1>2. \A u \in txs' : \E t \in txs : u = left(t) BY DEF Abandoned
  <1> HIDE DEF left
  <1> QED BY <1>1, <1>2 DEF Counted, OneCreate, OfItsRole, Follows, Creates

LEMMA ExecutedCreates ==
  ASSUME Counted, TxsTyped, NEW t \in txs, t.fate = "sent",
         NEW fate \in {"landed", "aborted"}, Executed(t, fate)
  PROVE  OneCreate' /\ Follows
  <1> DEFINE now == [t EXCEPT !.fate = fate]
  <1>1. now.kind = t.kind BY DEF TxsTyped, Txs
  <1>2. \A u \in txs' : u \in txs \ {t} \/ u = now BY DEF Executed
  <1> HIDE DEF now
  <1>3. OneCreate' BY <1>1, <1>2 DEF Counted, OneCreate, Creates
  <1>4. Follows BY <1>1, <1>2 DEF Counted, OfItsRole, Follows, Creates
  <1> QED BY <1>3, <1>4

LEMMA CountedCreate == Counted /\ TxsTyped /\ createEffect => Counted'
  <1> SUFFICES ASSUME Counted, TxsTyped, createEffect PROVE Counted' OBVIOUS
  <1> USE DEF chainVars, serverVars, loadVars
  <1> DEFINE new == Tx("create", created)
  <1>1. /\ role = "creator" /\ route = "pvp" /\ ~sent /\ sent'
        /\ txs' = txs \cup {new}
        /\ UNCHANGED <<role, created, faults, assigned, route>>
    BY DEF createEffect
  <1>2. new.kind = "create" /\ new.fate = "sent" BY DEF Tx
  <1> HIDE DEF new
  <1>3. \A u \in txs : ~Creates(u) /\ u.kind # "join"
    BY <1>1 DEF Counted, OfItsRole
  <1>4. OneCreate' /\ OfItsRole'
    BY <1>1, <1>2, <1>3 DEF Counted, OneCreate, OfItsRole, Creates
  <1>5. Owed BY <1>1 DEF Owed
  <1>6. FaultsTyped' BY <1>1 DEF Counted, FaultsTyped
  <1>7. created' = created /\ faults' = faults BY <1>1
  <1>8. created <= faults /\ created <= faults + 1 BY <1>5 DEF Counted
  <1> QED BY <1>4, <1>6, <1>7, <1>8 DEF Counted

LEMMA CountedExecute ==
  ASSUME Counted, TxsTyped, NEW t \in txs, execute(t) PROVE Counted'
  <1> USE DEF chainVars, serverVars, loadVars, entryVars
  <1>1. /\ t.fate = "sent" /\ Executed(t, "landed")
        /\ UNCHANGED <<role, assigned, route, sent, faults>>
    BY DEF execute
  <1>2. OneCreate' /\ Follows BY <1>1, ExecutedCreates
  <1>3. CASE t.kind # "create"
    <2>1. UNCHANGED created
      BY <1>3 DEF execute, TxsTyped, Txs, Kinds, Swipes
    <2> QED BY <1>1, <1>2, <2>1, CountedKeeps DEF NoFault, Counted, OfItsRole
  <1>4. CASE t.kind = "create"
    <2>1. created' = created + 1 BY <1>4 DEF execute, Swipes
    <2>2. Owed BY <1>1, <1>4 DEF Owed, Creates
    <2>3. created <= faults /\ created \in Nat /\ faults \in Nat
      BY <2>2 DEF Counted, FaultsTyped
    <2>4. created' <= faults' + 1 /\ FaultsTyped'
      BY <1>1, <2>1, <2>3 DEF Counted, FaultsTyped
    <2>5. [t EXCEPT !.fate = "landed"].fate = "landed" BY DEF TxsTyped, Txs
    <2>6. \A u \in txs' : Creates(u) => u.fate = "landed"
      BY <1>1, <1>4, <2>5 DEF Executed, Counted, OneCreate, Creates
    <2>7. role = "creator" /\ (route # "pvp" \/ sent)
      BY <1>4 DEF Counted, OfItsRole, Creates
    <2>8. ~Owed' BY <1>1, <2>6, <2>7 DEF Owed, Creates
    <2>9. OfItsRole' BY <1>1, <1>2, <2>7 DEF Counted, OfItsRole, Follows, Creates
    <2> QED BY <1>2, <2>4, <2>8, <2>9 DEF Counted
  <1> QED BY <1>3, <1>4

\* A create refused, or whose answer was lost, is owed again.
LEMMA CountedAnswer ==
  ASSUME Counted, TxsTyped, NEW t \in txs, entryAnswer(t) PROVE Counted'
  <1> USE DEF chainVars, serverVars, loadVars, entryVars
  <1>1. txs' = txs \ {t} /\ (Fault \/ NoFault) BY DEF entryAnswer, Answered
  <1>2. UNCHANGED <<role, created>> BY DEF entryAnswer
  <1>3. OneCreate' /\ Follows BY <1>1, FewerTxs
  <1>4. assigned' => role = "challenger"
    BY DEF entryAnswer, NewPage, Unheard, Counted, OfItsRole
  <1>5. CASE route' # "pvp" BY <1>1, <1>2, <1>3, <1>4, <1>5, CountedKeeps
  <1>6. CASE route' = "pvp"
    <2>1. Answered(t, FALSE) /\ ~sent' /\ UNCHANGED <<route, assigned>>
      BY <1>6 DEF entryAnswer
    <2>2. t.kind \in {"create", "join"}
      BY DEF entryAnswer, TxsTyped, Txs, Kinds
    <2>3. CASE t.kind = "join"
      <3>1. role = "challenger" /\ \A u \in txs : ~Creates(u)
        BY <2>3 DEF Counted, OfItsRole
      <3>2. OfItsRole' BY <1>1, <1>2, <2>1, <3>1 DEF Counted, OfItsRole, Creates
      <3>3. ~Owed' BY <1>1, <1>2, <3>1 DEF Owed, Creates
      <3>4. FaultsTyped' /\ faults' >= faults /\ faults \in Nat /\ faults' \in Nat
        BY <1>1, <1>2 DEF Counted, FaultsTyped, Fault, NoFault
      <3>5. created' = created /\ created \in Nat /\ created <= faults + 1
        BY <1>2 DEF Counted, FaultsTyped
      <3>6. created' <= faults' + 1 BY <3>4, <3>5, Slack
      <3> QED BY <1>3, <3>2, <3>3, <3>4, <3>6 DEF Counted
    <2>4. CASE t.kind = "create"
      <3>1. \A u \in txs' : ~Creates(u)
        BY <1>1, <2>4 DEF Counted, OneCreate, Creates
      <3>2. OfItsRole' BY <1>1, <1>2, <2>1, <3>1 DEF Counted, OfItsRole, Creates
      <3>3. FaultsTyped' /\ faults \in Nat /\ faults' \in Nat
        BY <1>1, <1>2 DEF Counted, FaultsTyped, Fault, NoFault
      <3>4. created' = created /\ created \in Nat /\ created <= faults + 1
        BY <1>2 DEF Counted, FaultsTyped
      <3>5. created <= faults'
        <4>1. CASE t.fate = "landed"
          <5>1. faults' = faults + 1 BY <2>1, <4>1 DEF Answered, Fault
          <5> QED BY <3>4, <5>1
        <4>2. CASE t.fate # "landed"
          <5>1. Owed BY <2>4, <4>2 DEF Owed, Creates
          <5>2. created <= faults BY <5>1 DEF Counted
          <5>3. faults' = faults BY <2>1, <4>2 DEF Answered, NoFault
          <5> QED BY <5>2, <5>3
        <4> QED BY <4>1, <4>2
      <3>6. created' <= faults' BY <3>4, <3>5
      <3>7. created' <= faults' + 1 BY <3>3, <3>4, <3>6, Within
      <3> QED BY <1>3, <3>2, <3>3, <3>6, <3>7 DEF Counted
    <2> QED BY <2>2, <2>3, <2>4
  <1> QED BY <1>5, <1>6

\* The steps of the page that leave its creates alone.
LEMMA CountedPage ==
  ASSUME Counted, TxsTyped,
         \/ entryTimeout \/ fetchDuel \/ mount \/ connect \/ receiveAssigned
         \/ swipe \/ autoSwipe \/ onclose \/ reload \/ onExit \/ openDuel
  PROVE  Counted'
  <1> USE DEF chainVars, serverVars, gameVars, loadVars, entryVars
  <1>1. UNCHANGED <<role, created>>
    BY DEF entryTimeout, fetchDuel, mount, connect, receiveAssigned, swipe,
       autoSwipe, onclose, reload, onExit, openDuel
  <1>2. Fault \/ NoFault
    BY DEF entryTimeout, fetchDuel, mount, connect, receiveAssigned, swipe,
       autoSwipe, onclose, reload, onExit, openDuel, NoFault
  <1>3. assigned' => assigned
    BY DEF entryTimeout, fetchDuel, mount, connect, receiveAssigned, swipe,
       autoSwipe, onclose, reload, onExit, openDuel, ToResult, NewPage, Unheard
  <1>4. assigned' => role = "challenger" BY <1>3 DEF Counted, OfItsRole
  <1>5. route' = "pvp" => route = "pvp" /\ (sent => sent')
    BY DEF entryTimeout, fetchDuel, mount, connect, receiveAssigned, swipe,
       autoSwipe, onclose, reload, onExit, openDuel, ToResult
  <1>6. OneCreate' /\ Follows
    <2>1. CASE swipe \/ autoSwipe
      <3>1. \A u \in txs' : u.kind \in Swipes \/ u \in txs
        BY <2>1 DEF swipe, autoSwipe, Sends, Tx, Swipes
      <3> QED BY <3>1, FewerTxs
    <2>2. CASE receiveAssigned
      <3>1. assigned BY <2>2 DEF receiveAssigned
      <3>2. role = "challenger" /\ \A u \in txs : ~Creates(u)
        BY <3>1 DEF Counted, OfItsRole
      <3>3. \A u \in txs' : u.kind = "join" \/ u \in txs
        BY <2>2 DEF receiveAssigned, Tx
      <3>4. \A u \in txs' : ~Creates(u) BY <3>2, <3>3 DEF Creates
      <3> QED BY <3>2, <3>4 DEF OneCreate, Follows, Creates
    <2>3. CASE (\E kinds : txs' = Abandoned(kinds)) \/ UNCHANGED txs
      BY <2>3, AbandonedCreates, SameTxs
    <2>4. CASE onclose \/ reload \/ onExit
      BY <2>3, <2>4 DEF onclose, reload, onExit, Unmounted
    <2>5. CASE entryTimeout \/ fetchDuel \/ mount \/ connect \/ openDuel
      BY <2>3, <2>5 DEF entryTimeout, fetchDuel, mount, connect, openDuel
    <2> QED BY <2>1, <2>2, <2>4, <2>5
  <1> QED BY <1>1, <1>2, <1>4, <1>5, <1>6, CountedKeeps

\* The steps of the others, of the wire, and the answers of swipes.
LEMMA CountedOthers ==
  ASSUME Counted, TxsTyped,
         \/ World \/ DuelCreatedSeen \/ HandshakeTimeout \/ Refresh
         \/ receiveNews \/ receiveSnapshot \/ snapshotFails \/ fetchDuelFails
         \/ \E t \in txs : abort(t) \/ swipeAnswer(t)
         \/ UNCHANGED vars
  PROVE  Counted'
  <1> USE DEF chainVars, serverVars, gameVars, loadVars, entryVars, vars
  <1>1. UNCHANGED <<role, created>>
    BY DEF World, DuelCreatedSeen, HandshakeTimeout, Refresh, receiveNews,
       receiveSnapshot, onRoomState, snapshotFails, fetchDuelFails, abort, swipeAnswer
  <1>2. Fault \/ NoFault
    BY DEF World, DuelCreatedSeen, HandshakeTimeout, Refresh, receiveNews,
       receiveSnapshot, onRoomState, snapshotFails, fetchDuelFails, abort,
       swipeAnswer, Answered, NoFault
  <1>3. assigned' => role = "challenger"
    BY DEF World, DuelCreatedSeen, HandshakeTimeout, Refresh, receiveNews,
       receiveSnapshot, onRoomState, snapshotFails, fetchDuelFails, abort,
       swipeAnswer, ToResult, NewPage, Unheard, Counted, OfItsRole
  <1>4. route' = "pvp" => route = "pvp" /\ (sent => sent')
    BY DEF World, DuelCreatedSeen, HandshakeTimeout, Refresh, receiveNews,
       receiveSnapshot, onRoomState, snapshotFails, fetchDuelFails, abort,
       swipeAnswer, ToResult
  <1>5. OneCreate' /\ Follows
    <2>1. CASE \E t \in txs : abort(t) \/ swipeAnswer(t)
      <3> PICK t \in txs : abort(t) \/ swipeAnswer(t) BY <2>1
      <3>1. CASE abort(t) BY <3>1, ExecutedCreates DEF abort
      <3>2. CASE swipeAnswer(t)
        <4>1. txs' \subseteq txs BY <3>2 DEF swipeAnswer, Answered
        <4> QED BY <4>1, FewerTxs
      <3> QED BY <3>1, <3>2
    <2>2. CASE UNCHANGED txs BY <2>2, SameTxs
    <2> QED
      BY <2>1, <2>2 DEF World, DuelCreatedSeen, HandshakeTimeout, Refresh,
         receiveNews, receiveSnapshot, onRoomState, snapshotFails, fetchDuelFails
  <1> QED BY <1>1, <1>2, <1>3, <1>4, <1>5, CountedKeeps

LEMMA NextCounted == Counted /\ TxsTyped /\ [Next]_vars => Counted'
  <1> SUFFICES ASSUME Counted, TxsTyped, [Next]_vars PROVE Counted' OBVIOUS
  <1>1. CASE createEffect BY <1>1, CountedCreate
  <1>2. CASE \E t \in txs : execute(t) BY <1>2, CountedExecute
  <1>3. CASE \E t \in txs : entryAnswer(t) BY <1>3, CountedAnswer
  <1> QED
    BY <1>1, <1>2, <1>3, CountedPage, CountedOthers DEF Next, Page, Receive, Answer

-----------------------------------------------------------------------------
\* The types IInv and Counted leave open.
RestTyped ==
  /\ pairing \in {"armed", "taken", "gone"} /\ {room, assigned, wsOpen} \subseteq BOOLEAN
  /\ route \in {"pvp", "play", "result", "home"} /\ at \in {1, 2}
  /\ load \in {"none", "loading", "ready", "error"} /\ tries \in 0 .. MaxTries
  /\ autoCard \in -1 .. cardCount - 1

LEMMA NextRest == RestTyped /\ IInv /\ [Next]_vars => RestTyped'
  <1> SUFFICES ASSUME RestTyped, IInv, [Next]_vars PROVE RestTyped' OBVIOUS
  <1> USE DEF chainVars, serverVars, gameVars, loadVars, entryVars
  <1>1. CASE \/ World \/ DuelCreatedSeen \/ HandshakeTimeout \/ Refresh
             \/ createEffect \/ entryTimeout \/ connect \/ swipe \/ snapshotFails
             \/ UNCHANGED vars
    BY <1>1 DEF RestTyped, World, DuelCreatedSeen, HandshakeTimeout, Refresh,
       createEffect, entryTimeout, connect, swipe, snapshotFails, vars
  <1>2. CASE receiveAssigned \/ receiveNews \/ receiveSnapshot \/ mount
    BY <1>2 DEF RestTyped, receiveAssigned, receiveNews, receiveSnapshot,
       onRoomState, mount
  <1>3. CASE fetchDuel \/ fetchDuelFails
    <2>1. UNCHANGED <<pairing, autoCard, at>> BY <1>3 DEF fetchDuel, fetchDuelFails
    <2>2. load' \in {load, "ready", "error"} /\ route' \in {route, "result"}
      BY <1>3 DEF fetchDuel, fetchDuelFails, ToResult
    <2>3. tries' = tries \/ (tries < MaxTries /\ tries' = tries + 1)
      BY <1>3 DEF fetchDuel, fetchDuelFails
    <2>4. tries' \in 0 .. MaxTries BY <2>3 DEF RestTyped
    <2>5. {room', assigned', wsOpen'} \subseteq BOOLEAN
      BY <1>3 DEF fetchDuel, fetchDuelFails, ToResult, NewPage, Unheard, RestTyped
    <2> QED BY <2>1, <2>2, <2>4, <2>5 DEF RestTyped
  <1>4. CASE autoSwipe
    <2>1. autoCard' \in -1 .. cardCount - 1 BY <1>4 DEF autoSwipe, Shown, Cards
    <2> QED BY <1>4, <2>1 DEF autoSwipe, RestTyped
  <1>5. CASE \E t \in txs : execute(t) \/ abort(t) \/ swipeAnswer(t)
    BY <1>5 DEF execute, abort, swipeAnswer, RestTyped
  <1>6. CASE \E t \in txs : entryAnswer(t)
    <2>1. UNCHANGED <<pairing, autoCard>> BY <1>6 DEF entryAnswer
    <2>2. /\ load' \in {load, "loading"} /\ route' \in {route, "play"}
          /\ at' \in {at, 1, 2} /\ tries' \in {tries, 0}
      BY <1>6 DEF entryAnswer
    <2>3. {room', assigned', wsOpen'} \subseteq BOOLEAN
      BY <1>6 DEF entryAnswer, NewPage, Unheard, RestTyped
    <2> QED BY <2>1, <2>2, <2>3 DEF RestTyped
  <1>7. CASE onclose \/ reload \/ onExit \/ openDuel
    <2>1. UNCHANGED pairing /\ autoCard' \in {autoCard, -1} /\ at' \in {at, 1}
      BY <1>7 DEF onclose, reload, onExit, openDuel, Unmounted, Blank
    <2>2. /\ load' \in {load, "loading", "none"}
          /\ route' \in {route, "home", "play"} /\ tries' \in {tries, 0}
      BY <1>7 DEF onclose, reload, onExit, openDuel
    <2>3. {room', assigned', wsOpen'} \subseteq BOOLEAN
      BY <1>7 DEF onclose, reload, onExit, openDuel, NewPage, Unheard
    <2> QED BY <2>1, <2>2, <2>3 DEF RestTyped
  <1> QED
    BY <1>1, <1>2, <1>3, <1>4, <1>5, <1>6, <1>7 DEF Next, Page, Receive, Answer

LEMMA InitRest == Init => RestTyped
  <1>1. -1 \in -1 .. cardCount - 1 /\ 0 \in 0 .. MaxTries OBVIOUS
  <1> QED BY <1>1 DEF Init, RestTyped

\* What a page keeps has its type, and it created no more duels than one for
\* its match and one for each fault it met: a second needs a create that was
\* refused or whose answer was lost (active-duel.tsx: sentCreateRef, create_duel).
THEOREM PageTypes == Spec => []TypeOK
  <1>1. Init => IInv /\ CreatedTyped /\ Counted /\ RestTyped
    BY InitIInv, InitCounted, InitRest DEF Init, CreatedTyped
  <1>2. IInv /\ CreatedTyped /\ Counted /\ RestTyped /\ [Next]_vars
          => (IInv /\ CreatedTyped /\ Counted /\ RestTyped)'
    BY NextIInv, CreatedStep, NextCounted, NextRest DEF IInv
  <1>3. IInv /\ Counted /\ RestTyped => TypeOK
    <2> SUFFICES ASSUME IInv, Counted, RestTyped PROVE TypeOK OBVIOUS
    <2>1. {mirror, news, snap, roomState} \subseteq Rows BY DEF IInv, RowsOld, Old
    <2>2. created \in 0 .. MaxFaults + 1 BY DEF Counted, FaultsTyped
    <2> QED
      BY <2>1, <2>2 DEF IInv, DuelTyped, PageTyped, Phases, RestTyped, TypeOK
  <1> QED BY <1>1, <1>2, <1>3, PTL DEF Spec
=============================================================================
