--------------------------- MODULE PracticeProofs ---------------------------
(***************************************************************************)
(* In practice the bot's pick is never shown before the player's own, a    *)
(* result needs every card, and "price feed stalled" is said only of a     *)
(* feed that was silent: for every deck, every schedule of expiries, every *)
(* delay and any number of matches and lost connections.  What carries the *)
(* argument is what the committed phase (`seen') says of the one set last, *)
(* and that time does not pass over a card that is ready to settle.        *)
(***************************************************************************)
EXTENDS Practice, TLAPS

USE PracticeAssumption

LEMMA LockEndLast == LockEnd \in Nat /\ \A c \in Cards : Offset[c] <= LockEnd
  <1> DEFINE ends == {Offset[c] : c \in Cards}
  <1>1. \E m \in ends : \A k \in ends : m >= k OBVIOUS
  <1>2. Max(ends) \in ends /\ \A k \in ends : Max(ends) >= k BY <1>1 DEF Max
  <1>3. ends \subseteq Nat OBVIOUS
  <1>q. QED BY <1>2, <1>3 DEF LockEnd

LEMMA HardAtPositive == HardAt \in Nat /\ HardAt > LockEnd + Grace
  BY LockEndLast DEF HardAt

Typed ==
  /\ since \in Nat /\ cardIdx \in Nat /\ tickAt \in Int /\ resultIn \in Int
  /\ settled \subseteq Cards

\* What is set is committed before anything else of that kind is set.
PhasesFollow ==
  /\ phase = "STARTING" => seen = "STARTING"
  /\ phase = "SWIPING" => seen \in {"STARTING", "SWIPING"}
  /\ phase = "LOCKUP" => seen = "LOCKUP"
  /\ phase = "RESULT" => seen \in {"LOCKUP", "RESULT"}
  /\ phase = "ERROR" /\ cause = "stalled" => seen \in {"LOCKUP", "ERROR"}

\* A match that is being asked for has no bot timer and no result to come.
FreshStart ==
  /\ seen = "STARTING" => reveals = {} /\ resultIn = Off
  /\ seen = "SWIPING" \/ phase = "SWIPING" => resultIn = Off

BotWaits == reveals \cup botRevealed \subseteq swiped

Dealt ==
  /\ phase = "SWIPING" \/ seen = "SWIPING" =>
       cardIdx \in Cards /\ 0 .. cardIdx - 1 \subseteq swiped /\ swiped \subseteq Cards
  /\ seen = "LOCKUP" \/ phase = "RESULT" => swiped = Cards

ResultDue == resultIn # Off => settled = Cards
ResultSettled == phase = "RESULT" => settled = Cards

\* Past the grace of the last card, a match is unsettled only if no price came
\* or one came this very moment.
Silent(t) == tickAt = NoTick \/ tickAt = t
FeedSilent ==
  /\ seen = "LOCKUP" /\ settled # Cards /\ since > LockEnd + Grace => Silent(since)
  /\ phase = "ERROR" /\ cause = "stalled" =>
       Silent(HardAt) /\ (seen = "LOCKUP" => since = HardAt)

IInv ==
  /\ Typed /\ PhasesFollow /\ FreshStart /\ BotWaits /\ Dealt
  /\ ResultDue /\ ResultSettled /\ FeedSilent

LEMMA InitIInv == Init => IInv
  BY DEF Init, IInv, Typed, PhasesFollow, FreshStart, BotWaits, Dealt, ResultDue,
     ResultSettled, FeedSilent, NoTick, Off

-----------------------------------------------------------------------------
(* One lemma per action. *)

LEMMA StartStep == IInv /\ start => IInv'
  BY DEF IInv, start, clearTimers, Blank, Typed, PhasesFollow, FreshStart,
     BotWaits, Dealt, ResultDue, ResultSettled, FeedSilent, Silent, NoTick, Off

LEMMA CommitStep == IInv /\ commit => IInv'
  <1> SUFFICES ASSUME IInv, commit PROVE IInv' OBVIOUS
  <1> USE DEF IInv, matchVars
  <1>1. /\ seen' = phase /\ seen # phase
        /\ UNCHANGED <<phase, cause, matchVars, tickAt, since, resultIn>>
    BY DEF commit
  <1>2. phase # "STARTING" /\ phase # "LOCKUP" BY <1>1 DEF PhasesFollow
  <1>3. PhasesFollow' BY <1>1, <1>2 DEF PhasesFollow
  <1>4. Typed' /\ BotWaits' /\ ResultDue' /\ ResultSettled'
    BY <1>1 DEF Typed, BotWaits, ResultDue, ResultSettled
  <1>5. FreshStart' /\ Dealt' BY <1>1, <1>2 DEF FreshStart, Dealt
  <1>6. FeedSilent' BY <1>1, <1>2 DEF FeedSilent, Silent
  <1>q. QED BY <1>3, <1>4, <1>5, <1>6

LEMMA StartTimeoutStep == IInv /\ startTimeout => IInv'
  <1> SUFFICES ASSUME IInv, startTimeout PROVE IInv' OBVIOUS
  <1>1. /\ seen = "STARTING" /\ phase' = "ERROR" /\ cause' = "no answer"
        /\ since' = 0 /\ UNCHANGED <<seen, matchVars, tickAt, resultIn>>
    BY DEF startTimeout, Error
  <1>q. QED
    BY <1>1 DEF IInv, matchVars, Typed, PhasesFollow, FreshStart, BotWaits, Dealt,
       ResultDue, ResultSettled, FeedSilent

LEMMA ReplyStep == IInv /\ receiveReply => IInv'
  <1> SUFFICES ASSUME IInv, receiveReply PROVE IInv' OBVIOUS
  <1> USE DEF IInv, matchVars, Typed, PhasesFollow, FreshStart, BotWaits, Dealt,
              ResultDue, ResultSettled, FeedSilent, Silent
  <1>1. UNCHANGED <<seen, tickAt, since, resultIn>> BY DEF receiveReply
  <1>2. CASE /\ seen = "STARTING" /\ phase' = "SWIPING" /\ Blank
             /\ UNCHANGED <<reveals, cause>>
    BY <1>1, <1>2 DEF Blank, Cards
  <1>3. CASE seen = "STARTING" /\ Error("failed") /\ UNCHANGED matchVars
    BY <1>1, <1>3 DEF Error
  <1>4. CASE UNCHANGED <<phase, cause, matchVars>> BY <1>1, <1>4
  <1>q. QED BY <1>2, <1>3, <1>4 DEF receiveReply

LEMMA TickStep == IInv /\ spotTick => IInv'
  BY DEF IInv, spotTick, matchVars, Early, Typed, PhasesFollow, FreshStart,
     BotWaits, Dealt, ResultDue, ResultSettled, FeedSilent, Silent

LEMMA SwipeStep == IInv /\ swipe => IInv'
  <1> SUFFICES ASSUME IInv, swipe PROVE IInv' OBVIOUS
  <1> USE DEF IInv, Typed, PhasesFollow, FreshStart, BotWaits, ResultDue,
              ResultSettled
  <1>1. /\ seen = "SWIPING" /\ cardIdx \in Cards /\ swiped \subseteq Cards
        /\ 0 .. cardIdx - 1 \subseteq swiped
    BY DEF swipe, Dealt
  <1>2. /\ swiped' = swiped \cup {cardIdx} /\ reveals' = reveals \cup {cardIdx}
        /\ UNCHANGED <<cause, botRevealed, settled, resultIn>>
    BY DEF swipe
  <1>3. 0 .. cardIdx \subseteq swiped' /\ swiped' \subseteq Cards
    BY <1>1, <1>2 DEF Cards
  <1>4. CASE cardIdx + 1 < n
    <2>1. /\ phase' = "SWIPING" /\ seen' = "SWIPING" /\ cardIdx' = cardIdx + 1
          /\ UNCHANGED <<since, tickAt>>
      BY <1>4 DEF swipe
    <2>2. Dealt' BY <1>1, <1>3, <1>4, <2>1 DEF Dealt, Cards
    <2>q. QED BY <1>1, <1>2, <2>1, <2>2 DEF FeedSilent
  <1>5. CASE ~(cardIdx + 1 < n)
    <2>1. /\ phase' = "LOCKUP" /\ seen' = "LOCKUP" /\ cardIdx' = cardIdx
          /\ since' = 0 /\ tickAt' \in {NoTick, Early}
      BY <1>5 DEF swipe
    <2>0. cardIdx = n - 1 BY <1>1, <1>5 DEF Cards
    <2>2. swiped' = Cards BY <1>3, <2>0 DEF Cards
    <2>3. Dealt' BY <2>1, <2>2 DEF Dealt
    <2>4. ~(since' > LockEnd' + Grace) BY <2>1, LockEndLast DEF LockEnd, Cards
    <2>5. FeedSilent' BY <2>1, <2>4 DEF FeedSilent
    <2>q. QED BY <1>1, <1>2, <2>1, <2>3, <2>5 DEF NoTick, Early
  <1>q. QED BY <1>4, <1>5

LEMMA BotRevealStep == IInv /\ botReveal => IInv'
  BY DEF IInv, botReveal, Typed, PhasesFollow, FreshStart, BotWaits, Dealt,
     ResultDue, ResultSettled, FeedSilent, Silent

LEMMA SettleStep == IInv /\ settle => IInv'
  <1> SUFFICES ASSUME IInv, settle PROVE IInv' OBVIOUS
  <1> USE DEF IInv, Typed
  <1>1. /\ seen = "LOCKUP" /\ settled' = settled \cup Settleable
        /\ resultIn' = IF settled' = Cards THEN ResultDelay ELSE Off
        /\ UNCHANGED <<phase, seen, cause, cardIdx, swiped, botRevealed, reveals,
                       tickAt, since>>
    BY DEF settle
  <1>2. settled \subseteq settled' /\ settled' \subseteq Cards
    BY <1>1 DEF Settleable
  <1>3. Typed' BY <1>1, <1>2 DEF Off
  <1>4. PhasesFollow' /\ FreshStart' /\ BotWaits' /\ Dealt'
    BY <1>1 DEF PhasesFollow, FreshStart, BotWaits, Dealt
  <1>5. ResultDue' BY <1>1 DEF ResultDue
  <1>6. ResultSettled' BY <1>1, <1>2 DEF ResultSettled
  <1>7. FeedSilent' BY <1>1, <1>2 DEF FeedSilent, Silent
  <1>q. QED BY <1>3, <1>4, <1>5, <1>6, <1>7

\* The claim that the feed stalled.
LEMMA StallStep == IInv /\ stallTimeout => IInv'
  <1> SUFFICES ASSUME IInv, stallTimeout PROVE IInv' OBVIOUS
  <1>1. /\ seen = "LOCKUP" /\ since = HardAt /\ settled # Cards
        /\ reveals' = {} /\ phase' = "ERROR" /\ cause' = "stalled"
        /\ UNCHANGED <<seen, cardIdx, swiped, botRevealed, settled, tickAt, since,
                       resultIn>>
    BY DEF stallTimeout, Stalled, clearTimers, Error
  <1>2. Silent(since) BY <1>1, HardAtPositive DEF IInv, FeedSilent
  <1>3. FeedSilent' BY <1>1, <1>2 DEF FeedSilent, Silent
  <1>q. QED
    BY <1>1, <1>3 DEF IInv, Typed, PhasesFollow, FreshStart, BotWaits, Dealt,
                      ResultDue, ResultSettled

LEMMA ResultStep == IInv /\ showResult => IInv'
  BY DEF IInv, showResult, matchVars, Off, Typed, PhasesFollow, FreshStart,
     BotWaits, Dealt, ResultDue, ResultSettled, FeedSilent, Silent

LEMMA SocketStep == IInv /\ (drop \/ reconnect) => IInv'
  BY DEF IInv, drop, reconnect, matchVars, Typed, PhasesFollow, FreshStart,
     BotWaits, Dealt, ResultDue, ResultSettled, FeedSilent, Silent

LEMMA LostStep == IInv /\ connectionLost => IInv'
  BY DEF IInv, connectionLost, Error, clearTimers, Running, Typed, PhasesFollow,
     FreshStart, BotWaits, Dealt, ResultDue, ResultSettled, FeedSilent, Silent

\* Time does not pass over a card that is ready to settle.
LEMMA TimeStep == IInv /\ passTime => IInv'
  <1> SUFFICES ASSUME IInv, passTime PROVE IInv' OBVIOUS
  <1> USE DEF IInv
  <1>1. /\ phase = seen /\ UNCHANGED <<phase, seen, cause, matchVars, tickAt>>
        /\ since' \in Nat /\ since' <= since + 1
        /\ resultIn' = IF resultIn > 0 THEN resultIn - 1 ELSE resultIn
    BY HardAtPositive DEF passTime, Due, Typed
  <1>2. resultIn' \in Int /\ (resultIn = Off => resultIn' = Off)
    BY <1>1 DEF Typed, Off
  <1>3. Typed' BY <1>1, <1>2 DEF Typed, matchVars
  <1>4. PhasesFollow' /\ FreshStart' /\ BotWaits' /\ Dealt' /\ ResultDue' /\ ResultSettled'
    BY <1>1, <1>2 DEF PhasesFollow, FreshStart, BotWaits, Dealt, ResultDue,
                      ResultSettled, matchVars
  <1>5. FeedSilent'
    <2> SUFFICES ASSUME seen = "LOCKUP", settled # Cards, since' > LockEnd + Grace
                 PROVE  tickAt = NoTick
      BY <1>1 DEF FeedSilent, Silent, PhasesFollow, matchVars
    <2>1. PICK c \in Cards : c \notin settled BY DEF Typed
    <2>2. Offset[c] \in Nat /\ Offset[c] <= LockEnd /\ LockEnd \in Nat
      BY LockEndLast
    <2>3. since >= Offset[c] /\ since - Offset[c] >= Grace
      BY <1>1, <2>2 DEF Typed
    <2>4. Settles(c) BY <2>1, <2>3 DEF Settles
    <2>5. Settleable = {} BY DEF passTime, Due
    <2>q. QED BY <2>4, <2>5 DEF Settleable
  <1>q. QED BY <1>3, <1>4, <1>5

LEMMA NextIInv == IInv /\ [Next]_vars => IInv'
  <1> SUFFICES ASSUME IInv, [Next]_vars PROVE IInv' OBVIOUS
  <1>1. CASE UNCHANGED vars
    BY <1>1 DEF vars, matchVars, IInv, Typed, PhasesFollow, FreshStart, BotWaits,
       Dealt, ResultDue, ResultSettled, FeedSilent, Silent
  <1>q. QED
    BY <1>1, StartStep, CommitStep, StartTimeoutStep, ReplyStep, TickStep,
       SwipeStep, BotRevealStep, SettleStep, StallStep, ResultStep, SocketStep,
       LostStep, TimeStep DEF Next, Timers, Effects

LEMMA IInvHolds == Spec => []IInv
  BY InitIInv, NextIInv, PTL DEF Spec

\* The bot's pick on a card is not shown before the player's own
\* (use-practice-session.ts, swipe and the bot timers), whatever match the
\* timers are left over from.
THEOREM BotPicksHidden == Spec => []PicksHidden
  <1>1. IInv => PicksHidden BY DEF IInv, BotWaits, PicksHidden
  <1>q. QED BY <1>1, IInvHolds, PTL

\* A result is shown only of a match in which every card was picked and
\* settled, and a stalled feed is blamed only when no price came
\* (use-practice-session.ts, the two effects of the lockup).
THEOREM VerdictIsEarned == Spec => []VerdictEarned
  <1>1. IInv => VerdictEarned
    BY DEF IInv, Dealt, ResultSettled, FeedSilent, Silent, VerdictEarned
  <1>q. QED BY <1>1, IInvHolds, PTL
=============================================================================
