------------------------------ MODULE Practice ------------------------------
(***************************************************************************)
(* A practice match, played by the page alone (use-practice-session.ts):   *)
(* the server deals a deck and the bot's picks, and streams the price.     *)
(*                                                                         *)
(* setPhase is seen by the handlers and the effects only once React has    *)
(* committed it: `phase' is what was set last, `seen' what was committed   *)
(* (phaseRef, and the timers of the phase's effects).  A click is committed*)
(* with its handler.  Time passes in steps, and not while a timer is due   *)
(* (a page in the foreground: a browser may delay the timers of a hidden   *)
(* tab); what falls in the same step happens in any order.                 *)
(***************************************************************************)
EXTENDS Integers, FiniteSetsExt

CONSTANTS
  n,                  \* cards of the deck
  Offset,             \* card -> expiryOffsetMs, after the lockup began
  StartTimeout, Grace, Buffer, ResultDelay,
  MaxStarts, MaxDrops \* bounds on matches begun and connections lost

Cards == 0 .. n - 1

\* One card settles last: the maximum that lockEnd takes is there to be taken.
ASSUME PracticeAssumption ==
  /\ n \in Nat \ {0} /\ Offset \in [Cards -> Nat]
  /\ \E c \in Cards : \A d \in Cards : Offset[c] >= Offset[d]
  /\ {StartTimeout, Grace, Buffer, ResultDelay} \subseteq Nat \ {0}

VARIABLES
  phase, seen,        \* as last set, as committed
  cardIdx, cause,     \* of SWIPING, of ERROR
  accepted,           \* sessionAcceptedRef
  swiped, botRevealed, settled,   \* playerSwipes, botRevealed, outcomes
  reveals,            \* timersRef: the cards whose bot timer is running
  tickAt,             \* when lastTick came: NoTick, Early, or time in the lockup
  since,              \* time in STARTING or LOCKUP
  resultIn,           \* time left of the beat before the result, or Off
  wsOpen, replies,    \* the socket, answers on their way
  starts, drops

matchVars == <<cardIdx, swiped, botRevealed, settled, reveals>>
vars == <<phase, seen, cause, accepted, matchVars, tickAt, since, resultIn,
          wsOpen, replies, starts, drops>>

NoTick == -2
Early == -1
Off == -1
LockEnd == Max({Offset[c] : c \in Cards})
HardAt_NoGrace == LockEnd + Buffer
HardAt == LockEnd + Grace + Buffer

Init ==
  /\ phase = "INTRO" /\ seen = "INTRO" /\ cause = "none" /\ accepted = FALSE
  /\ cardIdx = 0 /\ swiped = {} /\ botRevealed = {} /\ settled = {} /\ reveals = {}
  /\ tickAt = NoTick /\ since = 0 /\ resultIn = Off
  /\ wsOpen = TRUE /\ replies = {} /\ starts = 0 /\ drops = 0

-----------------------------------------------------------------------------
clearTimers_Keep == reveals' = reveals
clearTimers == reveals' = {}

Blank == cardIdx' = 0 /\ swiped' = {} /\ botRevealed' = {} /\ settled' = {}

\* start; after a result, reset and then start.  A second request may be
\* answered while the first one's answer is still on its way.
start ==
  /\ seen \in {"INTRO", "ERROR", "RESULT"} /\ (seen = "INTRO" => wsOpen)
  /\ starts < MaxStarts /\ starts' = starts + 1
  /\ clearTimers /\ Blank /\ accepted' = FALSE /\ tickAt' = NoTick
  /\ phase' = "STARTING" /\ seen' = "STARTING" /\ cause' = "none"
  /\ since' = 0 /\ resultIn' = Off
  /\ \E r \in {"session", "failed"} :
       replies' = replies \cup (IF wsOpen THEN {[of |-> starts, is |-> r]} ELSE {})
  /\ UNCHANGED <<wsOpen, drops>>

\* React renders and runs the effects of what was set.
commit ==
  /\ seen # phase /\ seen' = phase
  /\ UNCHANGED <<phase, cause, accepted, matchVars, tickAt, since, resultIn,
                 wsOpen, replies, starts, drops>>

Error(why) == phase' = "ERROR" /\ cause' = why

startTimeout ==
  /\ seen = "STARTING" /\ since = StartTimeout /\ Error("no answer")
  /\ since' = 0
  /\ UNCHANGED <<seen, accepted, matchVars, tickAt, resultIn, wsOpen, replies,
                 starts, drops>>

receiveReply ==
  \E r \in replies :
    /\ replies' = replies \ {r}
    /\ IF seen = "STARTING" /\ ~accepted
       THEN IF r.is = "session"
            THEN /\ phase' = "SWIPING" /\ accepted' = TRUE /\ Blank
                 /\ UNCHANGED <<reveals, cause>>
            ELSE Error("failed") /\ UNCHANGED <<accepted, matchVars>>
       ELSE UNCHANGED <<phase, cause, accepted, matchVars>>
    /\ UNCHANGED <<seen, tickAt, since, resultIn, wsOpen, starts, drops>>

spotTick ==
  /\ wsOpen /\ seen \in {"STARTING", "SWIPING", "LOCKUP"}
  /\ tickAt' = IF seen = "LOCKUP" THEN since ELSE Early
  /\ UNCHANGED <<phase, seen, cause, accepted, matchVars, since, resultIn,
                 wsOpen, replies, starts, drops>>

-----------------------------------------------------------------------------
\* A pick; the last one begins the lockup.
swipe ==
  /\ seen = "SWIPING" /\ swiped' = swiped \cup {cardIdx}
  /\ reveals' = reveals \cup {cardIdx}
  /\ IF cardIdx + 1 < n
     THEN /\ phase' = "SWIPING" /\ seen' = "SWIPING" /\ cardIdx' = cardIdx + 1
          /\ UNCHANGED <<since, tickAt>>
     ELSE /\ phase' = "LOCKUP" /\ seen' = "LOCKUP" /\ since' = 0
          /\ tickAt' = (IF tickAt = NoTick THEN NoTick ELSE Early)
          /\ UNCHANGED cardIdx
  /\ UNCHANGED <<cause, accepted, botRevealed, settled, resultIn, wsOpen,
                 replies, starts, drops>>

botReveal ==
  /\ \E c \in reveals : reveals' = reveals \ {c} /\ botRevealed' = botRevealed \cup {c}
  /\ UNCHANGED <<phase, seen, cause, accepted, cardIdx, swiped, settled, tickAt,
                 since, resultIn, wsOpen, replies, starts, drops>>

\* The settlement interval: the latest price, if it came after the card was
\* due or the card has waited long enough.
Settles(c) ==
  /\ c \notin settled /\ since >= Offset[c]
  /\ (tickAt >= Offset[c] \/ since - Offset[c] >= Grace)

Settleable == IF tickAt = NoTick THEN {} ELSE {c \in Cards : Settles(c)}

settle ==
  /\ seen = "LOCKUP" /\ Settleable # {} /\ settled' = settled \cup Settleable
  /\ resultIn' = IF settled' = Cards THEN ResultDelay ELSE Off
  /\ UNCHANGED <<phase, seen, cause, accepted, cardIdx, swiped, botRevealed,
                 reveals, tickAt, since, wsOpen, replies, starts, drops>>

Stalled_Polled == settled # Cards /\ tickAt # NoTick
Stalled == settled # Cards

\* The one-shot timer of the lockup: `price feed stalled'.
stallTimeout ==
  /\ seen = "LOCKUP" /\ since = HardAt /\ Stalled
  /\ clearTimers /\ Error("stalled")
  /\ UNCHANGED <<seen, accepted, cardIdx, swiped, botRevealed, settled, tickAt,
                 since, resultIn, wsOpen, replies, starts, drops>>

showResult ==
  /\ seen = "LOCKUP" /\ resultIn = 0 /\ phase' = "RESULT" /\ resultIn' = Off
  /\ UNCHANGED <<seen, cause, accepted, matchVars, tickAt, since, wsOpen,
                 replies, starts, drops>>

-----------------------------------------------------------------------------
drop ==
  /\ wsOpen /\ drops < MaxDrops /\ drops' = drops + 1
  /\ wsOpen' = FALSE /\ replies' = {}
  /\ UNCHANGED <<phase, seen, cause, accepted, matchVars, tickAt, since,
                 resultIn, starts>>

Running == {"STARTING", "SWIPING", "LOCKUP"}

\* The effect on wsOpen and phase: the server has dropped the price stream, and
\* nothing asks for it again.
connectionLost ==
  /\ ~wsOpen /\ seen \in Running /\ phase = seen
  /\ clearTimers /\ Error("connection lost")
  /\ UNCHANGED <<seen, accepted, cardIdx, swiped, botRevealed, settled, tickAt,
                 since, resultIn, wsOpen, replies, starts, drops>>

reconnect ==
  /\ ~wsOpen /\ seen \notin Running /\ wsOpen' = TRUE
  /\ UNCHANGED <<phase, seen, cause, accepted, matchVars, tickAt, since,
                 resultIn, replies, starts, drops>>

Due ==
  \/ phase # seen
  \/ ~wsOpen /\ seen \in Running
  \/ seen = "STARTING" /\ since = StartTimeout
  \/ seen = "LOCKUP" /\ (Settleable # {} \/ resultIn = 0 \/ (since = HardAt /\ Stalled))

passTime ==
  /\ ~Due /\ seen \in {"STARTING", "LOCKUP"}
  /\ since' = IF since < HardAt THEN since + 1 ELSE since
  /\ resultIn' = IF resultIn > 0 THEN resultIn - 1 ELSE resultIn
  /\ UNCHANGED <<phase, seen, cause, accepted, matchVars, tickAt, wsOpen,
                 replies, starts, drops>>

-----------------------------------------------------------------------------
Timers == startTimeout \/ settle \/ stallTimeout \/ showResult \/ botReveal
Effects == commit \/ connectionLost
Next ==
  start \/ Effects \/ Timers \/ receiveReply \/ spotTick \/ swipe \/ drop
    \/ reconnect \/ passTime

Spec == Init /\ [][Next]_vars

\* Timers, effects and time go on.  Nobody has to swipe, the server need not
\* answer, and the price may never come.
Fairness ==
  /\ WF_vars(commit) /\ WF_vars(connectionLost) /\ WF_vars(passTime)
  /\ WF_vars(startTimeout) /\ WF_vars(settle) /\ WF_vars(stallTimeout)
  /\ WF_vars(showResult)

FairSpec == Spec /\ Fairness

-----------------------------------------------------------------------------
(* Properties. *)

\* The bot's pick is never shown before the player's own on that card, across
\* a lost connection, a retry, and the timers of the match before.
PicksHidden == botRevealed \subseteq swiped

\* `Price feed stalled' is said only if no price came at all before the last
\* moment, and a result only of a match in which every card was settled.
VerdictEarned ==
  /\ phase = "ERROR" /\ cause = "stalled" => tickAt = NoTick \/ tickAt = HardAt
  /\ phase = "RESULT" => settled = Cards /\ swiped = Cards

\* Dealing and the lockup come to an end whatever the server does.
EventuallyOver ==
  /\ (phase = "STARTING") ~> (phase # "STARTING")
  /\ (phase = "LOCKUP") ~> (phase \in {"RESULT", "ERROR"})
=============================================================================
