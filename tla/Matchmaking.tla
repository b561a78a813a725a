----------------------------- MODULE Matchmaking -----------------------------
(***************************************************************************)
(* The in-memory matchmaking and room state of ws/matchmaking.ts: the      *)
(* registry of sockets, one queue per tier, the `joinQueue` and `matchPair`*)
(* calls in flight, the pairings waiting for their duel to appear on       *)
(* chain, the room subscriptions and the forfeit timers.                   *)
(*                                                                         *)
(* JavaScript runs one callback at a time, so an action is the code from   *)
(* one `await` (or timer) to the next.  Everything a call keeps across an  *)
(* await is in its record calls[c].  Ratings and waiting times only decide *)
(* which candidate is close enough: the answer of findClosestOpponent is   *)
(* any candidate or none.  A database read that fails ends its call.       *)
(***************************************************************************)
EXTENDS Naturals, Sequences, SequencesExt

CONSTANTS
  Sockets,      \* the connections of a server's lifetime
  Addresses,    \* wallet addresses a client may announce with `hello`
  Tiers,        \* queueable tiers (every tier but "practice")
  Duels,        \* ids of duels with a room
  Calls,        \* joinQueue calls that can be in flight at a time
  None          \* null

ASSUME MatchmakingAssumption == None \notin Addresses \cup Tiers \cup Calls

VARIABLES
  connected,        \* sockets not closed yet
  address,          \* ws.data.address
  queuedTier,       \* ws.data.queuedTier
  subscribedDuels,  \* ws.data.subscribedDuels
  socketsByAddress, \* address -> its live sockets
  queues,           \* tier -> FIFO of sockets
  calls,            \* what each in-flight call holds across its await
  pendingPairs,     \* creator address -> challenger address
  pendingPairTimers,\* creator address -> the two sockets its timer holds, {}
  roomSubscribers,  \* duel -> sockets in its room
  forfeitTimers,    \* <<duel, address>> with an armed grace timer
  told              \* the last matchmaking message each socket was sent

queueVars == <<queuedTier, queues, calls>>
pairVars == <<pendingPairs, pendingPairTimers>>
roomVars == <<subscribedDuels, roomSubscribers, forfeitTimers>>
socketVars == <<connected, address, socketsByAddress>>
vars == <<queueVars, pairVars, roomVars, socketVars, told>>

-----------------------------------------------------------------------------
(* The records a call keeps across its awaits. *)

Candidate == [ws : Sockets, address : Addresses]
Idle == [stage |-> "idle"]
AwaitRating(w, t) == [stage |-> "rating", ws |-> w, tier |-> t]
AwaitPick(w, t, pool) ==
  [stage |-> "pick", ws |-> w, tier |-> t, pool |-> pool]
AwaitDeck(cr, ch, t) ==
  [stage |-> "deck", creator |-> cr, challenger |-> ch, tier |-> t,
   creatorAddr |-> address[cr], challengerAddr |-> address[ch]]
AwaitRetry(cr, ch, t) ==
  [stage |-> "retry", creator |-> cr, challenger |-> ch, tier |-> t]

Call ==
  {Idle}
    \cup [stage : {"rating"}, ws : Sockets, tier : Tiers]
    \cup [stage : {"pick"}, ws : Sockets, tier : Tiers, pool : Seq(Candidate)]
    \cup [stage : {"deck"}, creator : Sockets, challenger : Sockets,
          tier : Tiers, creatorAddr : Addresses \cup {None},
          challengerAddr : Addresses \cup {None}]
    \cup [stage : {"retry"}, creator : Sockets, challenger : Sockets,
          tier : Tiers]

Messages == {"none", "hello", "queue_status", "queue_left", "creator",
             "challenger", "duel_assigned", "match_abandoned"}

(* `send`: a closed socket gets nothing, and the sender never notices. *)
Tell(ws, m) == [w \in Sockets |-> IF w \in ws \cap connected THEN m ELSE told[w]]

Init ==
  /\ connected = Sockets
  /\ address = [w \in Sockets |-> None]
  /\ queuedTier = [w \in Sockets |-> None]
  /\ subscribedDuels = [w \in Sockets |-> {}]
  /\ socketsByAddress = [a \in Addresses |-> {}]
  /\ queues = [t \in Tiers |-> <<>>]
  /\ calls = [c \in Calls |-> Idle]
  /\ pendingPairs = [a \in Addresses |-> None]
  /\ pendingPairTimers = [a \in Addresses |-> {}]
  /\ roomSubscribers = [d \in Duels |-> {}]
  /\ forfeitTimers = {}
  /\ told = [w \in Sockets |-> "none"]

-----------------------------------------------------------------------------
(* Hello. *)

(* The registry without w, as unregisterAddress leaves it. *)
Unregistered(w) ==
  [a \in Addresses |->
     IF a = address[w] THEN socketsByAddress[a] \ {w} ELSE socketsByAddress[a]]

(* A client announces an address, or another one: it replaces the first.   *)
(* Queue and room membership stay as they are.                             *)
registerAddress(w, a) ==
  /\ w \in connected
  /\ socketsByAddress' = [Unregistered(w) EXCEPT ![a] = @ \cup {w}]
  /\ address' = [address EXCEPT ![w] = a]
  /\ told' = Tell({w}, "hello")
  /\ UNCHANGED <<connected, queueVars, pairVars, roomVars>>

-----------------------------------------------------------------------------
(* The queue. *)

LeaveEffect(w) ==
  [qs |-> IF queuedTier[w] = None THEN queues
          ELSE [queues EXCEPT ![queuedTier[w]] = RemoveFirst(@, w)],
   msgs |-> IF queuedTier[w] = None THEN told ELSE Tell({w}, "queue_left")]

(* `queue_leave`: early return when the socket is not queued. *)
leaveQueue(w) ==
  /\ w \in connected /\ queuedTier[w] # None
  /\ queues' = LeaveEffect(w).qs
  /\ queuedTier' = [queuedTier EXCEPT ![w] = None]
  /\ told' = LeaveEffect(w).msgs
  /\ UNCHANGED <<calls, pairVars, roomVars, socketVars>>

(* joinQueue up to the read of the joiner's rating. *)
joinQueue(c, w, t) ==
  /\ calls[c] = Idle
  /\ address[w] # None
  /\ queues' = LeaveEffect(w).qs
  /\ queuedTier' = [queuedTier EXCEPT ![w] = t]
  /\ told' = LeaveEffect(w).msgs
  /\ calls' = [calls EXCEPT ![c] = AwaitRating(w, t)]
  /\ UNCHANGED <<pairVars, roomVars, socketVars>>

(* The joiner found nobody: it waits in the bucket, unless it closed or    *)
(* moved to another tier while the call was awaiting.                      *)
Enqueue_Unchecked(c) ==
  LET w == calls[c].ws  t == calls[c].tier IN
  /\ calls' = [calls EXCEPT ![c] = Idle]
  /\ queues' = [queues EXCEPT ![t] = Append(@, w)]
  /\ told' = Tell({w}, "queue_status")
  /\ UNCHANGED <<queuedTier, pairVars, roomVars, socketVars>>

Enqueue(c) ==
  LET w == calls[c].ws
      t == calls[c].tier
      stillHere == address[w] # None /\ queuedTier[w] = t
  IN
  /\ calls' = [calls EXCEPT ![c] = Idle]
  /\ queues' = IF stillHere THEN [queues EXCEPT ![t] = Append(@, w)] ELSE queues
  /\ told' = IF stillHere THEN Tell({w}, "queue_status") ELSE told
  /\ UNCHANGED <<queuedTier, pairVars, roomVars, socketVars>>

(* The sockets of the bucket q that are in who, in its order, each with    *)
(* the address it has now: filter, then map.                               *)
Snapshot(q, who) ==
  LET upTo[i \in 0 .. Len(q)] ==
        IF i = 0 THEN <<>>
        ELSE IF q[i] \in who
        THEN Append(upTo[i - 1], [ws |-> q[i], address |-> address[q[i]]])
        ELSE upTo[i - 1]
  IN  upTo[Len(q)]

CandidatesFor_NoAddress(w, t) ==
  Snapshot(queues[t], {o \in Sockets : address[o] # address[w]})

(* The candidates: everybody in the bucket under another address. *)
CandidatesFor(w, t) ==
  Snapshot(queues[t], {o \in Sockets : address[o] # None /\ address[o] # address[w]})

(* The rating arrived: snapshot the candidates and look for the closest.   *)
(* An empty pool is answered without waiting.                              *)
RatingRead(c) ==
  /\ calls[c].stage = "rating"
  /\ LET w == calls[c].ws
         t == calls[c].tier
         pool == CandidatesFor(w, t)
     IN \/ /\ pool = <<>>
           /\ Enqueue(c)
        \/ /\ pool # <<>>
           /\ calls' = [calls EXCEPT ![c] = AwaitPick(w, t, pool)]
           /\ UNCHANGED <<queuedTier, queues, pairVars, roomVars, socketVars, told>>

(* JavaScript's q.splice(q.indexOf(w), 1): when w is not in q, indexOf is  *)
(* -1 and splice removes the last element instead.                         *)
SpliceOut(q, w) ==
  IF Contains(q, w) THEN RemoveFirst(q, w) ELSE SubSeq(q, 1, Len(q) - 1)

(* The first socket of the snapshot under address a. *)
FirstUnder(pool, a) == pool[SelectInSeq(pool, LAMBDA k : k.address = a)].ws

(* The synchronous start of matchPair, up to the wait for the deck. *)
matchPair(c, cr, ch, t) ==
  /\ queuedTier' = [queuedTier EXCEPT ![cr] = None, ![ch] = None]
  /\ calls' = [calls EXCEPT ![c] = AwaitDeck(cr, ch, t)]

(* findClosestOpponent chose an address of the snapshot. *)
OpponentPicked(c) ==
  /\ calls[c].stage = "pick"
  /\ \E i \in 1 .. Len(calls[c].pool) :
       LET t == calls[c].tier
           opponent == FirstUnder(calls[c].pool, calls[c].pool[i].address)
       IN /\ queues' = [queues EXCEPT ![t] = SpliceOut(@, opponent)]
          /\ matchPair(c, opponent, calls[c].ws, t)
  /\ UNCHANGED <<pairVars, roomVars, socketVars, told>>

(* Nobody in the snapshot is close enough. *)
NoOpponent(c) ==
  /\ calls[c].stage = "pick"
  /\ Enqueue(c)

(* A database read of the call failed: the handler's promise is rejected   *)
(* and nothing else runs.                                                  *)
ReadFailed(c) ==
  /\ calls[c].stage \in {"rating", "pick"}
  /\ calls' = [calls EXCEPT ![c] = Idle]
  /\ UNCHANGED <<queuedTier, queues, pairVars, roomVars, socketVars, told>>

-----------------------------------------------------------------------------
(* The pairing. *)

armHandshakeTimeout_Forgotten(cr, ch, a) == pendingPairTimers

(* Arms the teardown of a's pairing in place of an earlier one. *)
armHandshakeTimeout(cr, ch, a) ==
  [pendingPairTimers EXCEPT ![a] = {cr, ch}]

(* The deck is there: the pairing is remembered and announced. *)
DeckReady(c) ==
  /\ calls[c].stage = "deck"
  /\ LET cr == calls[c].creator
         ch == calls[c].challenger
         a == calls[c].creatorAddr
         b == calls[c].challengerAddr
         both == a # None /\ b # None
     IN /\ pendingPairs' = IF both THEN [pendingPairs EXCEPT ![a] = b]
                           ELSE pendingPairs
        /\ pendingPairTimers' = IF both THEN armHandshakeTimeout(cr, ch, a)
                                ELSE pendingPairTimers
        /\ told' = [w \in Sockets |->
             IF w = ch /\ w \in connected THEN "challenger"
             ELSE IF w = cr /\ w \in connected THEN "creator" ELSE told[w]]
  /\ calls' = [calls EXCEPT ![c] = Idle]
  /\ UNCHANGED <<queuedTier, queues, roomVars, socketVars>>

(* requeue on a queue state s: nothing for a socket without an address or  *)
(* queued already.                                                         *)
requeue_Dead(s, w, t) ==
  IF s.tier[w] # None THEN s
  ELSE [tier |-> [s.tier EXCEPT ![w] = t],
        qs |-> [s.qs EXCEPT ![t] = IF Contains(@, w) THEN @ ELSE Append(@, w)],
        back |-> s.back \cup {w}]

requeue(s, w, t) ==
  IF address[w] = None \/ s.tier[w] # None THEN s
  ELSE [tier |-> [s.tier EXCEPT ![w] = t],
        qs |-> [s.qs EXCEPT ![t] = IF Contains(@, w) THEN @ ELSE Append(@, w)],
        back |-> s.back \cup {w}]

Now == [tier |-> queuedTier, qs |-> queues, back |-> {}]
requeueBoth_CreatorOnly(cr, ch, t) == requeue(Now, cr, t)
requeueBoth(cr, ch, t) == requeue(requeue(Now, cr, t), ch, t)

(* No deck could be built: both players wait again, and this pair is tried *)
(* again when the retry timer fires.                                       *)
DeckFailed(c) ==
  /\ calls[c].stage = "deck"
  /\ LET cr == calls[c].creator
         ch == calls[c].challenger
         t == calls[c].tier
         after == requeueBoth(cr, ch, t)
     IN /\ queuedTier' = after.tier
        /\ queues' = after.qs
        /\ told' = Tell(after.back, "queue_status")
        /\ calls' = [calls EXCEPT ![c] = AwaitRetry(cr, ch, t)]
  /\ UNCHANGED <<pairVars, roomVars, socketVars>>

StillPaired_TierOnly(cr, ch, t) == queuedTier[cr] = t /\ queuedTier[ch] = t

StillPaired(cr, ch, t) ==
  /\ queuedTier[cr] = t /\ queuedTier[ch] = t
  /\ Contains(queues[t], cr) /\ Contains(queues[t], ch)

(* The retry timer: matchPair again if both still wait in the tier. *)
RetryPair(c) ==
  /\ calls[c].stage = "retry"
  /\ LET cr == calls[c].creator
         ch == calls[c].challenger
         t == calls[c].tier
     IN \/ /\ StillPaired(cr, ch, t)
           /\ queues' = [queues EXCEPT ![t] = SpliceOut(SpliceOut(@, cr), ch)]
           /\ matchPair(c, cr, ch, t)
        \/ /\ ~StillPaired(cr, ch, t)
           /\ calls' = [calls EXCEPT ![c] = Idle]
           /\ UNCHANGED <<queuedTier, queues>>
  /\ UNCHANGED <<pairVars, roomVars, socketVars, told>>

(* The handshake timer of creator address a. *)
HandshakeTimeout(a) ==
  /\ pendingPairTimers[a] # {}
  /\ pendingPairTimers' = [pendingPairTimers EXCEPT ![a] = {}]
  /\ pendingPairs' = [pendingPairs EXCEPT ![a] = None]
  /\ told' = IF pendingPairs[a] = None THEN told
             ELSE Tell(pendingPairTimers[a], "match_abandoned")
  /\ UNCHANGED <<queueVars, roomVars, socketVars>>

takeMatchedPair(a) ==
  /\ pendingPairs' = [pendingPairs EXCEPT ![a] = None]
  /\ pendingPairTimers' = [pendingPairTimers EXCEPT ![a] = {}]

(* The indexer drains a DuelCreated of creator a and pushes the duel to    *)
(* every socket of the challenger it was paired with.                      *)
DuelCreated(a) ==
  /\ takeMatchedPair(a)
  /\ told' = IF pendingPairs[a] = None THEN told
             ELSE Tell(socketsByAddress[pendingPairs[a]], "duel_assigned")
  /\ UNCHANGED <<queueVars, roomVars, socketVars>>

-----------------------------------------------------------------------------
(* Rooms. *)

(* The address returns: its grace timer is stopped.  (The snapshot sent to *)
(* the subscriber carries no state of this module.)                        *)
subscribeRoom(w, d) ==
  /\ w \in connected
  /\ roomSubscribers' = [roomSubscribers EXCEPT ![d] = @ \cup {w}]
  /\ subscribedDuels' = [subscribedDuels EXCEPT ![w] = @ \cup {d}]
  /\ forfeitTimers' = forfeitTimers \ {<<d, address[w]>>}
  /\ UNCHANGED <<queueVars, pairVars, socketVars, told>>

unsubscribeRoom_KeepsSocketSide(w, d) ==
  /\ w \in connected
  /\ roomSubscribers' = [roomSubscribers EXCEPT ![d] = @ \ {w}]
  /\ UNCHANGED <<subscribedDuels, forfeitTimers, queueVars, pairVars, socketVars, told>>

unsubscribeRoom(w, d) ==
  /\ w \in connected
  /\ roomSubscribers' = [roomSubscribers EXCEPT ![d] = @ \ {w}]
  /\ subscribedDuels' = [subscribedDuels EXCEPT ![w] = @ \ {d}]
  /\ UNCHANGED <<forfeitTimers, queueVars, pairVars, socketVars, told>>

addressStillInRoom_OneTab(d, a, w) == FALSE

addressStillInRoom(d, a, w) ==
  \E o \in roomSubscribers[d] \ {w} : address[o] = a

(* The grace period ends: peer_forfeit goes to the room. *)
ForfeitTimeout(d, a) ==
  /\ <<d, a>> \in forfeitTimers
  /\ forfeitTimers' = forfeitTimers \ {<<d, a>>}
  /\ UNCHANGED <<subscribedDuels, roomSubscribers, queueVars, pairVars, socketVars, told>>

(* The socket closes: it leaves the queue, its rooms and the registry.     *)
onSocketClose(w) ==
  LET a == address[w]
      departed == {d \in subscribedDuels[w] : ~addressStillInRoom(d, a, w)}
  IN
  /\ w \in connected
  /\ connected' = connected \ {w}
  /\ queues' = LeaveEffect(w).qs
  /\ queuedTier' = [queuedTier EXCEPT ![w] = None]
  /\ roomSubscribers' = [d \in Duels |->
       IF d \in subscribedDuels[w] THEN roomSubscribers[d] \ {w}
       ELSE roomSubscribers[d]]
  /\ forfeitTimers' = IF a = None THEN forfeitTimers
                      ELSE forfeitTimers \cup (departed \X {a})
  /\ subscribedDuels' = [subscribedDuels EXCEPT ![w] = {}]
  /\ socketsByAddress' = Unregistered(w)
  /\ address' = [address EXCEPT ![w] = None]
  /\ told' = [told EXCEPT ![w] = "none"]
  /\ UNCHANGED <<calls, pairVars>>

-----------------------------------------------------------------------------
ClientStep(w) ==
  \/ \E a \in Addresses : registerAddress(w, a)
  \/ \E c \in Calls, t \in Tiers : joinQueue(c, w, t)
  \/ leaveQueue(w)
  \/ \E d \in Duels : subscribeRoom(w, d) \/ unsubscribeRoom(w, d)
  \/ onSocketClose(w)

CallStep(c) ==
  \/ RatingRead(c) \/ OpponentPicked(c) \/ NoOpponent(c) \/ ReadFailed(c)
  \/ DeckReady(c) \/ DeckFailed(c) \/ RetryPair(c)

Next ==
  \/ \E w \in Sockets : ClientStep(w)
  \/ \E c \in Calls : CallStep(c)
  \/ \E a \in Addresses : HandshakeTimeout(a) \/ DuelCreated(a)
  \/ \E d \in Duels, a \in Addresses : ForfeitTimeout(d, a)

Spec == Init /\ [][Next]_vars

(* The event loop runs every answered await and every expired timer.       *)
(* Nothing is assumed about clients, nor about the chain.                  *)
Fairness ==
  /\ \A c \in Calls : WF_vars(CallStep(c))
  /\ \A a \in Addresses : WF_vars(HandshakeTimeout(a))
  /\ \A d \in Duels, a \in Addresses : WF_vars(ForfeitTimeout(d, a))

FairSpec == Spec /\ Fairness
-----------------------------------------------------------------------------
(* Properties. *)

TypeOK ==
  /\ connected \subseteq Sockets
  /\ address \in [Sockets -> Addresses \cup {None}]
  /\ queuedTier \in [Sockets -> Tiers \cup {None}]
  /\ subscribedDuels \in [Sockets -> SUBSET Duels]
  /\ socketsByAddress \in [Addresses -> SUBSET Sockets]
  /\ queues \in [Tiers -> Seq(Sockets)]
  /\ calls \in [Calls -> Call]
  /\ pendingPairs \in [Addresses -> Addresses \cup {None}]
  /\ pendingPairTimers \in [Addresses -> SUBSET Sockets]
  /\ roomSubscribers \in [Duels -> SUBSET Sockets]
  /\ forfeitTimers \subseteq Duels \X Addresses
  /\ told \in [Sockets -> Messages]

(* A closed socket is bound to no address and searches in no tier, however *)
(* late the calls that held it resume: no callback may bring it back.      *)
ClosedIsForgotten ==
  \A w \in Sockets \ connected :
    /\ address[w] = None /\ queuedTier[w] = None
    /\ subscribedDuels[w] = {}

(* The registry that duel_assigned and chat are sent through lists exactly *)
(* the live sockets of each address, also after a user changed wallets on  *)
(* one connection.                                                         *)
RegistryMatches ==
  \A a \in Addresses : socketsByAddress[a] = {w \in connected : address[w] = a}

(* The room's list of sockets and the sockets' lists of rooms agree, so a  *)
(* close reaches every room and no room keeps a dead socket.               *)
RoomsMatch ==
  \A d \in Duels : roomSubscribers[d] = {w \in connected : d \in subscribedDuels[w]}

(* A remembered pairing always has its teardown armed, and no teardown is  *)
(* armed for a pairing that is gone: neither the entry nor the timer leaks *)
(* through assignment, timeout or a rematch of the same creator.           *)
PairingHasTimer ==
  \A a \in Addresses : pendingPairs[a] = None <=> pendingPairTimers[a] = {}

(* The tables the server finds sockets and pairings by agree with the       *)
(* sockets themselves.                                                     *)
TablesAgree == ClosedIsForgotten /\ RegistryMatches /\ PairingHasTimer

(* Whatever closed, left or moved tier while a call awaited, the queue only*)
(* ever grows by live sockets that search in that very tier.               *)
PushesOnlySearching ==
  [][\A t \in Tiers : Len(queues'[t]) > Len(queues[t]) =>
       \E w \in connected :
         /\ Last(queues'[t]) = w
         /\ address[w] # None /\ queuedTier'[w] = t]_vars

(* A failed deck keeps both players searching: who is still connected has  *)
(* a tier again when the call turns to its retry.                          *)
FailureKeepsPlayers ==
  [][\A c \in Calls :
       calls[c].stage = "deck" /\ calls'[c].stage = "retry" =>
         \A w \in {calls[c].creator, calls[c].challenger} :
           address[w] # None => queuedTier'[w] # None]_vars

(* A retry pairs two sockets only if both still wait in its tier: it       *)
(* aborts when either left, disconnected or was matched in between.        *)
RetryTakesWaiting ==
  [][\A c \in Calls :
       calls[c].stage = "retry" /\ calls'[c].stage = "deck" =>
         LET t == calls[c].tier IN
         \A w \in {calls[c].creator, calls[c].challenger} :
           /\ w \in connected /\ queuedTier[w] = t
           /\ \E i \in 1 .. Len(queues[t]) : queues[t][i] = w]_vars

(* A player with two tabs in a room is not declared gone when one closes:  *)
(* a grace timer is armed only if no socket of the address remains there.  *)
ForfeitArmedByLastTab ==
  [][\A d \in Duels, a \in Addresses :
       <<d, a>> \in forfeitTimers' \ forfeitTimers =>
         \A w \in roomSubscribers'[d] : address'[w] # a]_vars

(* The pairing of a creator does not outlive its duel's appearance or its  *)
(* timeout for ever, unless the creator is matched again and again.        *)
Rematch(a) == \E c \in Calls : calls[c].stage = "deck" /\ calls[c].creatorAddr = a
                                /\ DeckReady(c)
PairingsEnd ==
  \A a \in Addresses :
    <>[](pendingPairs[a] # None) => []<><<Rematch(a)>>_vars

-----------------------------------------------------------------------------
(* What the comments of the source promise and the code does not keep.     *)

(* A dead socket is never stranded in a bucket.                            *)
NoGhostInQueue ==
  \A t \in Tiers : \A i \in 1 .. Len(queues[t]) : queues[t][i] \in connected
=============================================================================
