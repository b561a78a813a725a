-------------------------- MODULE MatchmakingProofs --------------------------
(***************************************************************************)
(* The tables of the matchmaking server agree, for any number of sockets,  *)
(* addresses, tiers, duels and calls in flight: what it knows of a socket  *)
(* from the socket's side and from the address's, the room's and the       *)
(* pairing's side is the same, whatever closes while a call awaits; and    *)
(* the queues only take in sockets that search, lose none to a failed deck *)
(* and give a retry only who still waits.  Then the decks the matches wait *)
(* for: the shuffle is fair for every size, the cards of a deck are        *)
(* different bets, whatever its markets, leans and zones, they come from   *)
(* the source that its mode and the reads call for, and their markets are  *)
(* the right ones of any list of rows.                                     *)
(***************************************************************************)
EXTENDS MCMatchmaking, Induction, SequenceTheorems

USE MatchmakingAssumption

SocketsTyped ==
  /\ connected \subseteq Sockets
  /\ address \in [Sockets -> Addresses \cup {None}]
  /\ socketsByAddress \in [Addresses -> SUBSET Sockets]

RoomsTyped ==
  /\ subscribedDuels \in [Sockets -> SUBSET Duels]
  /\ roomSubscribers \in [Duels -> SUBSET Sockets]

PairsTyped ==
  DOMAIN pendingPairs = Addresses /\ DOMAIN pendingPairTimers = Addresses

\* A socket that closed is in no tier; requeue is given such tables.
TiersOfLive(tier) ==
  /\ DOMAIN tier = Sockets
  /\ \A w \in Sockets \ connected : tier[w] = None

ClosedHasNothing ==
  \A w \in Sockets \ connected : address[w] = None /\ subscribedDuels[w] = {}

IInv ==
  /\ SocketsTyped /\ RoomsTyped /\ PairsTyped
  /\ TiersOfLive(queuedTier) /\ ClosedHasNothing
  /\ RegistryMatches /\ RoomsMatch /\ PairingHasTimer

LEMMA InitIInv == Init => IInv
  BY DEF Init, IInv, SocketsTyped, RoomsTyped, PairsTyped, TiersOfLive,
     ClosedHasNothing, RegistryMatches, RoomsMatch, PairingHasTimer

-----------------------------------------------------------------------------
(* Each table and the steps that leave it alone. *)

LEMMA SocketsSame ==
  ASSUME SocketsTyped, RegistryMatches, UNCHANGED socketVars
  PROVE  SocketsTyped' /\ RegistryMatches'
  BY DEF SocketsTyped, RegistryMatches, socketVars

LEMMA RoomsSame ==
  ASSUME RoomsTyped, RoomsMatch, ClosedHasNothing,
         UNCHANGED <<connected, address, subscribedDuels, roomSubscribers>>
  PROVE  RoomsTyped' /\ RoomsMatch' /\ ClosedHasNothing'
  BY DEF RoomsTyped, RoomsMatch, ClosedHasNothing

LEMMA PairsSame ==
  ASSUME PairsTyped, PairingHasTimer, UNCHANGED pairVars
  PROVE  PairsTyped' /\ PairingHasTimer'
  BY DEF PairsTyped, PairingHasTimer, pairVars

\* The steps of a call: no socket and no room changes.
LEMMA CallKeeps ==
  ASSUME IInv, UNCHANGED <<socketVars, roomVars>>,
         TiersOfLive(queuedTier'), PairsTyped', PairingHasTimer'
  PROVE  IInv'
  <1>1. SocketsTyped' /\ RegistryMatches' BY SocketsSame DEF IInv
  <1>2. RoomsTyped' /\ RoomsMatch' /\ ClosedHasNothing'
    BY RoomsSame DEF IInv, roomVars, socketVars
  <1>3. TiersOfLive(queuedTier)' BY DEF TiersOfLive, socketVars
  <1> QED BY <1>1, <1>2, <1>3 DEF IInv

-----------------------------------------------------------------------------
(* Clients. *)

LEMMA RegisterStep ==
  ASSUME IInv, NEW w \in Sockets, NEW a \in Addresses, registerAddress(w, a)
  PROVE  IInv'
  <1> USE DEF IInv
  <1>1. /\ w \in connected /\ address' = [address EXCEPT ![w] = a]
        /\ socketsByAddress' = [Unregistered(w) EXCEPT ![a] = @ \cup {w}]
        /\ UNCHANGED <<connected, queuedTier, subscribedDuels, roomSubscribers,
                       pairVars>>
    BY DEF registerAddress, queueVars, roomVars
  <1>2. SocketsTyped' BY <1>1 DEF SocketsTyped, Unregistered
  <1>3. RegistryMatches'
    <2> SUFFICES ASSUME NEW b \in Addresses
                 PROVE  socketsByAddress'[b] = {v \in connected' : address'[v] = b}
      BY DEF RegistryMatches
    <2>1. socketsByAddress[b] = {v \in connected : address[v] = b}
      BY DEF RegistryMatches
    <2>2. \A v \in connected : address'[v] = IF v = w THEN a ELSE address[v]
      BY <1>1 DEF SocketsTyped
    <2>3. Unregistered(w)[b] = {v \in connected : v # w /\ address[v] = b}
      BY <2>1 DEF Unregistered
    <2>4. socketsByAddress'[b] =
            IF b = a THEN Unregistered(w)[b] \cup {w} ELSE Unregistered(w)[b]
      BY <1>1 DEF Unregistered
    <2> QED BY <1>1, <2>2, <2>3, <2>4
  <1>4. RoomsTyped' /\ RoomsMatch' /\ TiersOfLive(queuedTier)'
    BY <1>1 DEF RoomsTyped, RoomsMatch, TiersOfLive
  <1>5. ClosedHasNothing' BY <1>1 DEF ClosedHasNothing, SocketsTyped
  <1> QED BY <1>1, <1>2, <1>3, <1>4, <1>5, PairsSame

\* A new search is of a socket with an address, and that one is connected.
LEMMA QueueStep ==
  ASSUME IInv, NEW w \in Sockets,
         leaveQueue(w) \/ \E c \in Calls, t \in Tiers : joinQueue(c, w, t)
  PROVE  IInv'
  <1>1. w \in connected BY DEF leaveQueue, joinQueue, IInv, ClosedHasNothing
  <1>2. PICK t : queuedTier' = [queuedTier EXCEPT ![w] = t]
    BY DEF leaveQueue, joinQueue
  <1>3. UNCHANGED <<pairVars, roomVars, socketVars>> BY DEF leaveQueue, joinQueue
  <1>4. TiersOfLive(queuedTier') BY <1>1, <1>2 DEF IInv, TiersOfLive
  <1> QED BY <1>3, <1>4, PairsSame, CallKeeps DEF IInv

LEMMA RoomStep ==
  ASSUME IInv, NEW w \in Sockets, NEW d \in Duels,
         subscribeRoom(w, d) \/ unsubscribeRoom(w, d)
  PROVE  IInv'
  <1> USE DEF IInv
  <1>1. w \in connected /\ UNCHANGED <<socketVars, queueVars, pairVars>>
    BY DEF subscribeRoom, unsubscribeRoom
  <1>2. SocketsTyped' /\ RegistryMatches' /\ PairsTyped' /\ PairingHasTimer'
    BY <1>1, SocketsSame, PairsSame
  <1>3. TiersOfLive(queuedTier)'
    BY <1>1 DEF TiersOfLive, socketVars, queueVars
  <1>4. RoomsTyped' /\ RoomsMatch' /\ ClosedHasNothing'
    BY <1>1 DEF subscribeRoom, unsubscribeRoom, RoomsTyped, RoomsMatch,
       ClosedHasNothing, SocketsTyped, socketVars
  <1> QED BY <1>2, <1>3, <1>4

LEMMA CloseStep == ASSUME IInv, NEW w \in Sockets, onSocketClose(w) PROVE IInv'
  <1> USE DEF IInv
  <1>1. /\ w \in connected /\ connected' = connected \ {w}
        /\ address' = [address EXCEPT ![w] = None]
        /\ queuedTier' = [queuedTier EXCEPT ![w] = None]
        /\ subscribedDuels' = [subscribedDuels EXCEPT ![w] = {}]
        /\ roomSubscribers' = [d \in Duels |->
             IF d \in subscribedDuels[w] THEN roomSubscribers[d] \ {w}
             ELSE roomSubscribers[d]]
        /\ socketsByAddress' = Unregistered(w) /\ UNCHANGED pairVars
    BY DEF onSocketClose
  <1>2. SocketsTyped' /\ RoomsTyped' /\ ClosedHasNothing' /\ TiersOfLive(queuedTier)'
    BY <1>1 DEF SocketsTyped, RoomsTyped, Unregistered, ClosedHasNothing, TiersOfLive
  <1>3. RegistryMatches'
    <2> SUFFICES ASSUME NEW b \in Addresses
                 PROVE  socketsByAddress'[b] = {v \in connected' : address'[v] = b}
      BY DEF RegistryMatches
    <2>1. socketsByAddress[b] = {v \in connected : address[v] = b}
      BY DEF RegistryMatches
    <2>2. \A v \in connected' : address'[v] = address[v]
      BY <1>1 DEF SocketsTyped
    <2>3. Unregistered(w)[b] = {v \in connected' : address[v] = b}
      BY <1>1, <2>1 DEF Unregistered
    <2> QED BY <1>1, <2>2, <2>3
  <1>4. RoomsMatch'
    <2> SUFFICES ASSUME NEW d \in Duels
                 PROVE  roomSubscribers'[d] =
                          {v \in connected' : d \in subscribedDuels'[v]}
      BY DEF RoomsMatch
    <2>1. roomSubscribers[d] = {v \in connected : d \in subscribedDuels[v]}
      BY DEF RoomsMatch
    <2>2. \A v \in connected' : subscribedDuels'[v] = subscribedDuels[v]
      BY <1>1 DEF SocketsTyped, RoomsTyped
    <2> QED BY <1>1, <2>1, <2>2
  <1> QED BY <1>1, <1>2, <1>3, <1>4, PairsSame

-----------------------------------------------------------------------------
(* Calls and timers. *)

\* Neither requeue gives a tier to a socket that closed.
LEMMA RequeueLive ==
  ASSUME IInv, NEW s, TiersOfLive(s.tier), NEW w, NEW t
  PROVE  TiersOfLive(requeue(s, w, t).tier)
  BY DEF requeue, TiersOfLive, IInv, ClosedHasNothing

LEMMA MatchedLive ==
  ASSUME TiersOfLive(queuedTier), NEW c, NEW cr, NEW ch, NEW t,
         matchPair(c, cr, ch, t)
  PROVE  TiersOfLive(queuedTier')
  BY DEF matchPair, TiersOfLive

LEMMA CallStepKeeps == ASSUME IInv, NEW c \in Calls, CallStep(c) PROVE IInv'
  <1>1. UNCHANGED <<socketVars, roomVars>>
    BY DEF CallStep, RatingRead, OpponentPicked, NoOpponent, ReadFailed, Enqueue,
       DeckReady, DeckFailed, RetryPair
  <1>2. CASE DeckReady(c)
    <2> DEFINE cr == calls[c].creator
               ch == calls[c].challenger
               a == calls[c].creatorAddr
               b == calls[c].challengerAddr
    <2>1. \/ UNCHANGED pairVars
          \/ /\ a # None /\ b # None /\ pendingPairs' = [pendingPairs EXCEPT ![a] = b]
             /\ pendingPairTimers' = [pendingPairTimers EXCEPT ![a] = {cr, ch}]
      BY <1>2 DEF DeckReady, armHandshakeTimeout, pairVars
    <2>2. TiersOfLive(queuedTier') BY <1>2 DEF DeckReady, IInv
    <2>3. {cr, ch} # {} OBVIOUS
    <2> HIDE DEF cr, ch, a, b
    <2>4. PairsTyped' /\ PairingHasTimer'
      BY <2>1, <2>3, PairsSame DEF IInv, PairsTyped, PairingHasTimer
    <2> QED BY <1>1, <2>2, <2>4, CallKeeps
  <1>3. CASE ~DeckReady(c)
    <2>1. UNCHANGED pairVars
      BY <1>3 DEF CallStep, RatingRead, OpponentPicked, NoOpponent, ReadFailed,
         Enqueue, DeckFailed, RetryPair
    <2>2. TiersOfLive(queuedTier')
      <3>1. CASE RatingRead(c) \/ NoOpponent(c) \/ ReadFailed(c)
        BY <3>1 DEF RatingRead, NoOpponent, ReadFailed, Enqueue, IInv
      <3>2. CASE OpponentPicked(c)
        BY <3>2, MatchedLive DEF OpponentPicked, IInv
      <3>3. CASE RetryPair(c)
        BY <3>3, MatchedLive DEF RetryPair, IInv
      <3>4. CASE DeckFailed(c)
        <4>1. PICK cr, ch, t : queuedTier' = requeueBoth(cr, ch, t).tier
          BY <3>4 DEF DeckFailed
        <4>2. TiersOfLive(Now.tier) BY DEF Now, IInv
        <4>3. TiersOfLive(requeue(Now, cr, t).tier) BY <4>2, RequeueLive
        <4> QED BY <4>1, <4>3, RequeueLive DEF requeueBoth
      <3> QED BY <1>3, <3>1, <3>2, <3>3, <3>4 DEF CallStep
    <2> QED BY <1>1, <2>1, <2>2, PairsSame, CallKeeps DEF IInv
  <1> QED BY <1>2, <1>3

LEMMA PairEndStep ==
  ASSUME IInv, NEW a \in Addresses, HandshakeTimeout(a) \/ DuelCreated(a)
  PROVE  IInv'
  <1>1. /\ pendingPairs' = [pendingPairs EXCEPT ![a] = None]
        /\ pendingPairTimers' = [pendingPairTimers EXCEPT ![a] = {}]
        /\ UNCHANGED <<queueVars, roomVars, socketVars>>
    BY DEF HandshakeTimeout, DuelCreated, takeMatchedPair
  <1>2. PairsTyped' /\ PairingHasTimer'
    BY <1>1 DEF IInv, PairsTyped, PairingHasTimer
  <1> QED BY <1>1, <1>2, CallKeeps DEF IInv, queueVars

LEMMA ForfeitStep ==
  ASSUME IInv, NEW d \in Duels, NEW a \in Addresses, ForfeitTimeout(d, a)
  PROVE  IInv'
  <1>1. UNCHANGED <<socketVars, queueVars, pairVars, subscribedDuels, roomSubscribers>>
    BY DEF ForfeitTimeout
  <1>2. TiersOfLive(queuedTier)'
    BY <1>1 DEF IInv, TiersOfLive, socketVars, queueVars
  <1> QED
    BY <1>1, <1>2, SocketsSame, RoomsSame, PairsSame DEF IInv, socketVars

LEMMA NextIInv == IInv /\ [Next]_vars => IInv'
  <1> SUFFICES ASSUME IInv, [Next]_vars PROVE IInv' OBVIOUS
  <1>1. CASE \E w \in Sockets : ClientStep(w)
    BY <1>1, RegisterStep, QueueStep, RoomStep, CloseStep DEF ClientStep
  <1>2. CASE \E c \in Calls : CallStep(c) BY <1>2, CallStepKeeps
  <1>3. CASE \E a \in Addresses : HandshakeTimeout(a) \/ DuelCreated(a)
    BY <1>3, PairEndStep
  <1>4. CASE \E d \in Duels, a \in Addresses : ForfeitTimeout(d, a)
    BY <1>4, ForfeitStep
  <1>5. CASE UNCHANGED vars
    BY <1>5, PairsSame, CallKeeps DEF vars, queueVars, IInv
  <1> QED BY <1>1, <1>2, <1>3, <1>4, <1>5 DEF Next

LEMMA IInvHolds == Spec => []IInv
  BY InitIInv, NextIInv, PTL DEF Spec

\* The tables the server finds sockets and pairings by agree with the sockets
\* themselves (matchmaking.ts: socketsByAddress, pendingPairs and their timers,
\* onSocketClose), however late a call resumes.
THEOREM TablesAlwaysAgree == Spec => []TablesAgree
  <1>1. IInv => TablesAgree
    BY DEF IInv, TablesAgree, ClosedIsForgotten, TiersOfLive, ClosedHasNothing
  <1> QED BY <1>1, IInvHolds, PTL

\* A room's list of sockets and the sockets' lists of rooms agree
\* (matchmaking.ts: subscribeRoom, unsubscribeRoom, onSocketClose).
THEOREM RoomsAlwaysMatch == Spec => []RoomsMatch
  <1>1. IInv => RoomsMatch BY DEF IInv
  <1> QED BY <1>1, IInvHolds, PTL

-----------------------------------------------------------------------------
(* The grace timers. *)

ArmedByLastTab ==
  \A d \in Duels, a \in Addresses :
    <<d, a>> \in forfeitTimers' \ forfeitTimers =>
      \A w \in roomSubscribers'[d] : address'[w] # a

\* Only a close arms one.
LEMMA OnlyCloseArms ==
  ASSUME [Next]_vars, ~\E w \in Sockets : onSocketClose(w)
  PROVE  forfeitTimers' \subseteq forfeitTimers
  <1>1. CASE \E w \in Sockets : ClientStep(w)
    BY <1>1 DEF ClientStep, registerAddress, joinQueue, leaveQueue, subscribeRoom,
       unsubscribeRoom, roomVars
  <1>2. CASE \E c \in Calls : CallStep(c)
    BY <1>2 DEF CallStep, RatingRead, OpponentPicked, NoOpponent, ReadFailed,
       Enqueue, DeckReady, DeckFailed, RetryPair, roomVars
  <1>3. CASE \E a \in Addresses : HandshakeTimeout(a) \/ DuelCreated(a)
    BY <1>3 DEF HandshakeTimeout, DuelCreated, roomVars
  <1>4. CASE \E d \in Duels, a \in Addresses : ForfeitTimeout(d, a)
    BY <1>4 DEF ForfeitTimeout
  <1>5. CASE UNCHANGED vars BY <1>5 DEF vars, roomVars
  <1> QED BY <1>1, <1>2, <1>3, <1>4, <1>5 DEF Next

LEMMA CloseArms ==
  ASSUME IInv, NEW w \in Sockets, onSocketClose(w) PROVE ArmedByLastTab
  <1> SUFFICES ASSUME NEW d \in Duels, NEW a \in Addresses,
                      <<d, a>> \in forfeitTimers' \ forfeitTimers,
                      NEW v \in roomSubscribers'[d]
               PROVE  address'[v] # a
    BY DEF ArmedByLastTab
  <1>1. /\ a = address[w] /\ d \in subscribedDuels[w]
        /\ ~addressStillInRoom(d, address[w], w)
    BY DEF onSocketClose
  <1>2. v \in roomSubscribers[d] \ {w} BY <1>1 DEF onSocketClose
  <1>3. address[v] # a BY <1>1, <1>2 DEF addressStillInRoom
  <1>4. v \in Sockets BY <1>2 DEF IInv, RoomsTyped
  <1>5. address'[v] = address[v]
    BY <1>2, <1>4 DEF onSocketClose, IInv, SocketsTyped
  <1> QED BY <1>3, <1>5

\* A player with two tabs in a room is not declared gone when one closes
\* (matchmaking.ts: onSocketClose, addressStillInRoom).
THEOREM ForfeitOfLastTab == Spec => ForfeitArmedByLastTab
  <1>1. IInv /\ [Next]_vars => ArmedByLastTab
    BY OnlyCloseArms, CloseArms DEF ArmedByLastTab
  <1> QED
    BY <1>1, IInvHolds, PTL DEF Spec, ForfeitArmedByLastTab, ArmedByLastTab

-----------------------------------------------------------------------------
(***************************************************************************)
(* The queues: what the sequence operators of the model return.            *)
(***************************************************************************)
LEMMA MinIsIn ==
  ASSUME NEW I, I \subseteq Nat, I # {}
  PROVE  Min(I) \in I
  <1>1. \E n \in I : \A m \in I : n <= m BY NatLeast
  <1> QED BY <1>1 DEF Min

LEMMA RemoveAtType ==
  ASSUME NEW S, NEW q \in Seq(S), NEW i \in 1 .. Len(q)
  PROVE  RemoveAt(q, i) \in Seq(S) /\ Len(RemoveAt(q, i)) = Len(q) - 1
  <1>1. PICK a : a = SubSeq(q, 1, i - 1) OBVIOUS
  <1>2. PICK b : b = SubSeq(q, i + 1, Len(q)) OBVIOUS
  <1>3. a \in Seq(S) /\ Len(a) = i - 1 BY <1>1
  <1>4. b \in Seq(S) /\ Len(b) = Len(q) - i BY <1>2
  <1>5. a \o b \in Seq(S) /\ Len(a \o b) = Len(a) + Len(b) BY <1>3, <1>4
  <1>6. RemoveAt(q, i) = a \o b BY <1>1, <1>2 DEF RemoveAt
  <1>7. PICK n \in Nat : n = Len(q) OBVIOUS
  <1>8. Len(a \o b) = n - 1 BY <1>3, <1>4, <1>5, <1>7
  <1> QED BY <1>5, <1>6, <1>7, <1>8

LEMMA RemoveFirstType ==
  ASSUME NEW S, NEW q \in Seq(S), NEW e
  PROVE  RemoveFirst(q, e) \in Seq(S) /\ Len(RemoveFirst(q, e)) <= Len(q)
  <1>1. CASE \E i \in 1 .. Len(q) : q[i] = e
    <2> DEFINE I == {i \in 1 .. Len(q) : q[i] = e}
    <2>1. I \subseteq Nat /\ I # {} BY <1>1
    <2>2. Min(I) \in I
      <3> HIDE DEF I
      <3> QED BY <2>1, MinIsIn
    <2>3. PICK i \in 1 .. Len(q) : i = SelectInSeq(q, LAMBDA v : v = e)
      BY <2>1, <2>2 DEF SelectInSeq
    <2>4. RemoveFirst(q, e) = RemoveAt(q, i) BY <1>1, <2>3 DEF RemoveFirst
    <2>5. Len(q) \in Nat OBVIOUS
    <2> QED BY <2>4, <2>5, RemoveAtType
  <1>2. CASE ~\E i \in 1 .. Len(q) : q[i] = e
    <2>1. Len(q) \in Nat OBVIOUS
    <2> QED BY <1>2, <2>1 DEF RemoveFirst
  <1> QED BY <1>1, <1>2

LEMMA SpliceOutType ==
  ASSUME NEW S, NEW q \in Seq(S), NEW w
  PROVE  SpliceOut(q, w) \in Seq(S) /\ Len(SpliceOut(q, w)) <= Len(q)
  <1>1. SubSeq(q, 1, Len(q) - 1) \in Seq(S) /\ Len(SubSeq(q, 1, Len(q) - 1)) <= Len(q)
    OBVIOUS
  <1> QED BY <1>1, RemoveFirstType DEF SpliceOut

LEMMA AppendType ==
  ASSUME NEW S, NEW q \in Seq(S), NEW w \in S
  PROVE  /\ Append(q, w) \in Seq(S) /\ Len(Append(q, w)) = Len(q) + 1
         /\ Last(Append(q, w)) = w
  BY DEF Last

\* The snapshot of a bucket pairs sockets of it with their addresses.
LEMMA SnapshotType ==
  ASSUME NEW q \in Seq(Sockets), NEW who, \A o \in who : address[o] \in Addresses
  PROVE  Snapshot(q, who) \in Seq(Candidate)
  <1> DEFINE D == 0 .. Len(q)
             grown(i, f) == IF q[i] \in who
                            THEN Append(f, [ws |-> q[i], address |-> address[q[i]]])
                            ELSE f
             Is(f) == f = [i \in D |->
               IF i = 0 THEN <<>>
               ELSE IF q[i] \in who
               THEN Append(f[i - 1], [ws |-> q[i], address |-> address[q[i]]])
               ELSE f[i - 1]]
             rank == [i \in D |-> i]
             base == {0}
             out == [i \in D |-> <<>>]
             prev == [i \in D |-> i - 1]
             step == [p \in D \X Seq(Candidate) |-> grown(p[1], p[2])]
  <1>1. Len(q) \in Nat /\ \A i \in D \ base : i \in 1 .. Len(q) /\ i - 1 \in D OBVIOUS
  <1>2. \A i \in D \ base, f \in Seq(Candidate) : grown(i, f) \in Seq(Candidate)
    <2> SUFFICES ASSUME NEW i \in D \ base, NEW f \in Seq(Candidate), q[i] \in who
                 PROVE  Append(f, [ws |-> q[i], address |-> address[q[i]]]) \in Seq(Candidate)
      OBVIOUS
    <2>1. q[i] \in Sockets BY <1>1
    <2>2. [ws |-> q[i], address |-> address[q[i]]] \in Candidate BY <2>1 DEF Candidate
    <2> QED BY <2>2
  <1>3. Descends(D, rank, base, prev)
    <2>1. rank \in [D -> Nat] /\ base \subseteq D BY <1>1
    <2>2. \A i \in D \ base : prev[i] \in D /\ rank[prev[i]] < rank[i] BY <1>1
    <2> QED BY <2>1, <2>2 DEF Descends
  <1> HIDE DEF grown
  <1>4. \A i \in base : out[i] \in Seq(Candidate) BY <1>1
  <1>5. \A i \in D \ base, f \in Seq(Candidate) : step[<<i, f>>] \in Seq(Candidate) BY <1>2
  <1>6. \E f \in [D -> Seq(Candidate)] : Recurs(f, D, base, out, prev, step)
    <2> HIDE DEF D, rank, base, out, prev, step
    <2> QED BY <1>3, <1>4, <1>5, RecursionExists
  <1>7. PICK f \in [D -> Seq(Candidate)] : Recurs(f, D, base, out, prev, step) BY <1>6
  <1>8. Is(f)
    <2>1. \A i \in D : f[i] = IF i = 0 THEN <<>> ELSE grown(i, f[i - 1])
      <3> SUFFICES ASSUME NEW i \in D
                   PROVE  f[i] = IF i = 0 THEN <<>> ELSE grown(i, f[i - 1])
        OBVIOUS
      <3>1. f[i] = IF i \in base THEN out[i] ELSE step[<<i, f[prev[i]]>>] BY <1>7 DEF Recurs
      <3>2. i \notin base => step[<<i, f[prev[i]]>>] = grown(i, f[i - 1]) BY <1>1
      <3> QED BY <3>1, <3>2
    <2> QED BY <2>1 DEF grown
  <1>9. PICK h : h = CHOOSE k : Is(k) OBVIOUS
  <1>10. Is(h)
    <2> HIDE DEF Is
    <2> QED BY <1>8, <1>9
  <1>11. Snapshot(q, who) = h[Len(q)] BY <1>9 DEF Snapshot
  <1>12. \A i \in D : h[i] \in Seq(Candidate)
    <2> DEFINE P == {i \in D : h[i] \in Seq(Candidate)}
    <2>1. base \subseteq P BY <1>1, <1>10
    <2>2. ASSUME NEW i \in D \ base, prev[i] \in P PROVE i \in P
      <3>1. h[i] = grown(i, h[i - 1]) BY <1>10 DEF grown
      <3> QED BY <1>2, <2>2, <3>1
    <2>3. D \subseteq P
      <3> HIDE DEF D, rank, base, prev, P
      <3> QED BY <1>3, <2>1, <2>2, RankInduction
    <2> QED BY <2>3
  <1> QED BY <1>1, <1>11, <1>12

\* findClosestOpponent's answer is a socket of the snapshot.
LEMMA FirstUnderType ==
  ASSUME NEW pool \in Seq(Candidate), NEW i \in 1 .. Len(pool)
  PROVE  FirstUnder(pool, pool[i].address) \in Sockets
  <1> DEFINE I == {j \in 1 .. Len(pool) : pool[j].address = pool[i].address}
  <1>1. I \subseteq Nat /\ I # {} OBVIOUS
  <1>2. Min(I) \in I
    <2> HIDE DEF I
    <2> QED BY <1>1, MinIsIn
  <1>3. PICK j \in 1 .. Len(pool) :
          j = SelectInSeq(pool, LAMBDA k : k.address = pool[i].address)
    BY <1>1, <1>2 DEF SelectInSeq
  <1>4. FirstUnder(pool, pool[i].address) = pool[j].ws BY <1>3 DEF FirstUnder
  <1>5. pool[j] \in Candidate OBVIOUS
  <1> QED BY <1>4, <1>5 DEF Candidate

-----------------------------------------------------------------------------
(***************************************************************************)
(* The types.  Nothing but TypeOK itself is needed: a call holds sockets,  *)
(* a tier and a snapshot of a bucket whatever happened since it began.     *)
(***************************************************************************)
LEMMA CallFields ==
  ASSUME NEW k \in Call
  PROVE  /\ k.stage \in {"rating", "pick"} => k.ws \in Sockets /\ k.tier \in Tiers
         /\ k.stage = "pick" => k.pool \in Seq(Candidate)
         /\ k.stage \in {"deck", "retry"} =>
              k.creator \in Sockets /\ k.challenger \in Sockets /\ k.tier \in Tiers
         /\ k.stage = "deck" =>
              /\ k.creatorAddr \in Addresses \cup {None}
              /\ k.challengerAddr \in Addresses \cup {None}
  BY DEF Call, Idle

LEMMA TellType ==
  ASSUME told \in [Sockets -> Messages], NEW ws, NEW m \in Messages
  PROVE  Tell(ws, m) \in [Sockets -> Messages]
  BY DEF Tell

LEMMA LeaveType ==
  ASSUME TypeOK, NEW w \in Sockets
  PROVE  /\ LeaveEffect(w).qs \in [Tiers -> Seq(Sockets)]
         /\ LeaveEffect(w).msgs \in [Sockets -> Messages]
         /\ \A t \in Tiers : Len(LeaveEffect(w).qs[t]) <= Len(queues[t])
  <1>1. "queue_left" \in Messages BY DEF Messages
  <1>2. Tell({w}, "queue_left") \in [Sockets -> Messages]
    BY <1>1, TellType DEF TypeOK
  <1>3. queues \in [Tiers -> Seq(Sockets)] BY DEF TypeOK
  <1>4. \A t \in Tiers : Len(queues[t]) \in Nat BY <1>3
  <1>5. CASE queuedTier[w] = None
    BY <1>3, <1>4, <1>5 DEF LeaveEffect, TypeOK
  <1>6. CASE queuedTier[w] # None
    <2>1. queuedTier[w] \in Tiers BY <1>6 DEF TypeOK
    <2>2. PICK q : q = RemoveFirst(queues[queuedTier[w]], w) OBVIOUS
    <2>3. q \in Seq(Sockets) /\ Len(q) <= Len(queues[queuedTier[w]])
      BY <1>3, <2>1, <2>2, RemoveFirstType
    <2>4. LeaveEffect(w).qs = [queues EXCEPT ![queuedTier[w]] = q]
      BY <1>6, <2>2 DEF LeaveEffect
    <2>5. LeaveEffect(w).msgs = Tell({w}, "queue_left") BY <1>6 DEF LeaveEffect
    <2>6. LeaveEffect(w).qs \in [Tiers -> Seq(Sockets)] BY <1>3, <2>1, <2>3, <2>4
    <2>7. ASSUME NEW t \in Tiers
          PROVE  Len(LeaveEffect(w).qs[t]) <= Len(queues[t])
      <3>1. CASE t = queuedTier[w]
        <4>1. LeaveEffect(w).qs[t] = q BY <1>3, <2>4, <3>1
        <4> QED BY <2>3, <3>1, <4>1
      <3>2. CASE t # queuedTier[w]
        <4>1. LeaveEffect(w).qs[t] = queues[t] BY <1>3, <2>4, <3>2
        <4>2. PICK n \in Nat : n = Len(queues[t]) BY <1>4
        <4> QED BY <4>1, <4>2
      <3> QED BY <3>1, <3>2
    <2> QED BY <1>2, <2>5, <2>6, <2>7
  <1> QED BY <1>5, <1>6

\* What the queues take in: the last of a bucket that grew is a live socket
\* that searches in its tier.
Pushed(qs, tier) ==
  \A t \in Tiers : Len(qs[t]) > Len(queues[t]) =>
    \E w \in connected : Last(qs[t]) = w /\ address[w] # None /\ tier[w] = t

Requeued(s) ==
  /\ s.tier \in [Sockets -> Tiers \cup {None}]
  /\ s.qs \in [Tiers -> Seq(Sockets)]
  /\ Pushed(s.qs, s.tier)

LEMMA RequeueType ==
  ASSUME IInv, NEW s, Requeued(s), NEW w \in Sockets, NEW t \in Tiers
  PROVE  Requeued(requeue(s, w, t))
  <1>1. CASE address[w] = None \/ s.tier[w] # None BY <1>1 DEF requeue
  <1>2. CASE address[w] # None /\ s.tier[w] = None
    <2>1. w \in connected BY <1>2 DEF IInv, ClosedHasNothing
    <2>2. PICK q : q = IF Contains(s.qs[t], w) THEN s.qs[t] ELSE Append(s.qs[t], w)
      OBVIOUS
    <2>3. /\ requeue(s, w, t).tier = [s.tier EXCEPT ![w] = t]
          /\ requeue(s, w, t).qs = [s.qs EXCEPT ![t] = q]
      BY <1>2, <2>2 DEF requeue
    <2>4. q \in Seq(Sockets) /\ (q = s.qs[t] \/ Last(q) = w)
      BY <2>2, AppendType DEF Requeued
    <2>5. Pushed([s.qs EXCEPT ![t] = q], [s.tier EXCEPT ![w] = t])
      <3> SUFFICES ASSUME NEW u \in Tiers,
                          Len([s.qs EXCEPT ![t] = q][u]) > Len(queues[u])
                   PROVE  \E v \in connected :
                            /\ Last([s.qs EXCEPT ![t] = q][u]) = v
                            /\ address[v] # None /\ [s.tier EXCEPT ![w] = t][v] = u
        BY DEF Pushed
      <3>1. CASE u = t /\ Last(q) = w
        BY <1>2, <2>1, <3>1 DEF Requeued
      <3>2. CASE u # t \/ q = s.qs[t]
        <4>1. [s.qs EXCEPT ![t] = q][u] = s.qs[u] BY <3>2 DEF Requeued
        <4>2. PICK v \in connected :
                Last(s.qs[u]) = v /\ address[v] # None /\ s.tier[v] = u
          BY <4>1 DEF Requeued, Pushed
        <4>3. v # w BY <1>2, <4>2
        <4>4. [s.tier EXCEPT ![w] = t][v] = u BY <4>2, <4>3 DEF Requeued
        <4> QED BY <4>1, <4>2, <4>4
      <3> QED BY <2>4, <3>1, <3>2
    <2> QED BY <2>3, <2>4, <2>5 DEF Requeued
  <1> QED BY <1>1, <1>2

LEMMA NowRequeued ==
  ASSUME TypeOK PROVE Requeued(Now)
  <1>1. \A t \in Tiers : Len(queues[t]) \in Nat BY DEF TypeOK
  <1> QED BY <1>1 DEF TypeOK, Now, Requeued, Pushed

LEMMA BothRequeued ==
  ASSUME IInv, TypeOK, NEW cr \in Sockets, NEW ch \in Sockets, NEW t \in Tiers
  PROVE  Requeued(requeueBoth(cr, ch, t))
  <1>1. Requeued(requeue(Now, cr, t)) BY NowRequeued, RequeueType
  <1> QED BY <1>1, RequeueType DEF requeueBoth

\* Each step types its queues and pushes only who searches.
QueuesTyped ==
  /\ queuedTier' \in [Sockets -> Tiers \cup {None}]
  /\ queues' \in [Tiers -> Seq(Sockets)]
  /\ calls' \in [Calls -> Call]
  /\ told' \in [Sockets -> Messages]
  /\ Pushed(queues', queuedTier')

LEMMA NothingPushed ==
  ASSUME TypeOK, \A t \in Tiers : Len(queues'[t]) \in Nat /\ Len(queues'[t]) <= Len(queues[t]),
         NEW tier
  PROVE  Pushed(queues', tier)
  <1>1. \A t \in Tiers : Len(queues[t]) \in Nat BY DEF TypeOK
  <1> QED BY <1>1 DEF Pushed

LEMMA EnqueueTypes ==
  ASSUME IInv, TypeOK, NEW c \in Calls, calls[c].stage \in {"rating", "pick"},
         Enqueue(c)
  PROVE  QueuesTyped
  <1> DEFINE w == calls[c].ws
             t == calls[c].tier
  <1>1. w \in Sockets /\ t \in Tiers
    <2>1. calls[c] \in Call BY DEF TypeOK
    <2> QED BY <2>1, CallFields
  <1>2. calls' \in [Calls -> Call] /\ queuedTier' \in [Sockets -> Tiers \cup {None}]
    BY DEF Enqueue, TypeOK, Call
  <1>3. told' \in [Sockets -> Messages]
    <2>1. "queue_status" \in Messages BY DEF Messages
    <2> QED BY <2>1, TellType DEF Enqueue, TypeOK
  <1>4. queues \in [Tiers -> Seq(Sockets)] /\ \A u \in Tiers : Len(queues[u]) \in Nat
    BY DEF TypeOK
  <1>5. CASE address[w] # None /\ queuedTier[w] = t
    <2>1. w \in connected BY <1>1, <1>5 DEF IInv, ClosedHasNothing
    <2>2. PICK q : q = Append(queues[t], w) OBVIOUS
    <2>3. q \in Seq(Sockets) /\ Last(q) = w BY <1>1, <1>4, <2>2, AppendType
    <2>4. queues' = [queues EXCEPT ![t] = q] BY <1>5, <2>2 DEF Enqueue
    <2>5. queuedTier' = queuedTier BY DEF Enqueue
    <2> HIDE DEF w, t
    <2>6. queues' \in [Tiers -> Seq(Sockets)] BY <1>1, <1>4, <2>3, <2>4
    <2>7. Pushed(queues', queuedTier')
      <3> SUFFICES ASSUME NEW u \in Tiers, Len(queues'[u]) > Len(queues[u])
                   PROVE  \E v \in connected :
                            /\ Last(queues'[u]) = v /\ address[v] # None
                            /\ queuedTier'[v] = u
        BY DEF Pushed
      <3>1. u = t
        <4>1. u # t => queues'[u] = queues[u] BY <1>4, <2>4
        <4>2. PICK n \in Nat : n = Len(queues[u]) BY <1>4
        <4> QED BY <4>1, <4>2
      <3>2. queues'[u] = q BY <1>1, <1>4, <2>4, <3>1
      <3> QED BY <1>5, <2>1, <2>3, <2>5, <3>1, <3>2
    <2> QED BY <1>2, <1>3, <2>6, <2>7 DEF QueuesTyped
  <1>6. CASE ~(address[w] # None /\ queuedTier[w] = t)
    <2>1. queues' = queues BY <1>6 DEF Enqueue
    <2>2. Pushed(queues', queuedTier') BY <1>4, <2>1, NothingPushed
    <2> QED BY <1>2, <1>3, <1>4, <2>1, <2>2 DEF QueuesTyped
  <1> QED BY <1>5, <1>6

\* A step that leaves the queues and the searches alone.
LEMMA QuietQueues ==
  ASSUME TypeOK, UNCHANGED <<queues, queuedTier>>, calls' \in [Calls -> Call],
         told' \in [Sockets -> Messages]
  PROVE  QueuesTyped
  <1>1. \A t \in Tiers : Len(queues[t]) \in Nat BY DEF TypeOK
  <1>2. Pushed(queues', queuedTier') BY <1>1, NothingPushed
  <1> QED BY <1>2 DEF TypeOK, QueuesTyped

\* matchPair takes two sockets out of a bucket.
LEMMA MatchedTypes ==
  ASSUME TypeOK, NEW c \in Calls, NEW cr \in Sockets, NEW ch \in Sockets,
         NEW t \in Tiers, matchPair(c, cr, ch, t), UNCHANGED told,
         NEW q \in Seq(Sockets), Len(q) <= Len(queues[t]),
         queues' = [queues EXCEPT ![t] = q]
  PROVE  QueuesTyped
  <1>1. queues \in [Tiers -> Seq(Sockets)] /\ \A u \in Tiers : Len(queues[u]) \in Nat
    BY DEF TypeOK
  <1>2. AwaitDeck(cr, ch, t) \in Call BY DEF AwaitDeck, Call, TypeOK
  <1>3. /\ calls' \in [Calls -> Call]
        /\ queuedTier' \in [Sockets -> Tiers \cup {None}]
        /\ told' \in [Sockets -> Messages]
    BY <1>2 DEF matchPair, TypeOK
  <1>4. queues' \in [Tiers -> Seq(Sockets)] BY <1>1
  <1>5. ASSUME NEW u \in Tiers
        PROVE  Len(queues'[u]) \in Nat /\ Len(queues'[u]) <= Len(queues[u])
    <2>1. queues'[u] = q \/ u # t BY <1>1
    <2>2. u # t => queues'[u] = queues[u] BY <1>1
    <2>3. PICK n \in Nat : n = Len(queues[u]) BY <1>1
    <2>4. Len(q) \in Nat OBVIOUS
    <2>5. CASE u = t
      <3>1. queues'[u] = q BY <2>1, <2>5
      <3> QED BY <2>4, <2>5, <3>1
    <2>6. CASE u # t
      <3>1. queues'[u] = queues[u] BY <2>2, <2>6
      <3> QED BY <2>3, <3>1
    <2> QED BY <2>5, <2>6
  <1>6. Pushed(queues', queuedTier') BY <1>5, NothingPushed
  <1> QED BY <1>3, <1>4, <1>6 DEF QueuesTyped

LEMMA OpponentTypes ==
  ASSUME TypeOK, NEW c \in Calls, OpponentPicked(c) PROVE QueuesTyped
  <1> DEFINE t == calls[c].tier
             pool == calls[c].pool
  <1>1. calls[c] \in Call BY DEF TypeOK
  <1>2. calls[c].ws \in Sockets /\ t \in Tiers /\ pool \in Seq(Candidate)
    BY <1>1, CallFields DEF OpponentPicked
  <1>3. PICK i \in 1 .. Len(pool) :
          LET opponent == FirstUnder(pool, pool[i].address)
          IN  /\ queues' = [queues EXCEPT ![t] = SpliceOut(@, opponent)]
              /\ matchPair(c, opponent, calls[c].ws, t)
    BY DEF OpponentPicked
  <1>4. PICK opponent : opponent = FirstUnder(pool, pool[i].address) OBVIOUS
  <1>5. opponent \in Sockets
    <2> HIDE DEF pool
    <2> QED BY <1>2, <1>4, FirstUnderType
  <1>6. PICK q : q = SpliceOut(queues[t], opponent) OBVIOUS
  <1>7. queues[t] \in Seq(Sockets) BY <1>2 DEF TypeOK
  <1>8. q \in Seq(Sockets) /\ Len(q) <= Len(queues[t]) BY <1>6, <1>7, SpliceOutType
  <1>9. queues' = [queues EXCEPT ![t] = q] /\ matchPair(c, opponent, calls[c].ws, t)
    BY <1>3, <1>4, <1>6
  <1>10. UNCHANGED told BY DEF OpponentPicked
  <1> HIDE DEF t, pool
  <1> QED BY <1>2, <1>5, <1>8, <1>9, <1>10, MatchedTypes

LEMMA RetryTypes ==
  ASSUME TypeOK, NEW c \in Calls, RetryPair(c) PROVE QueuesTyped
  <1> DEFINE cr == calls[c].creator
             ch == calls[c].challenger
             t == calls[c].tier
  <1>1. calls[c] \in Call BY DEF TypeOK
  <1>2. cr \in Sockets /\ ch \in Sockets /\ t \in Tiers
    BY <1>1, CallFields DEF RetryPair
  <1>3. UNCHANGED told BY DEF RetryPair
  <1>4. CASE StillPaired(cr, ch, t)
    <2>1. PICK p : p = SpliceOut(queues[t], cr) OBVIOUS
    <2>2. PICK q : q = SpliceOut(p, ch) OBVIOUS
    <2>3. queues[t] \in Seq(Sockets) BY <1>2 DEF TypeOK
    <2>4. p \in Seq(Sockets) /\ Len(p) <= Len(queues[t]) BY <2>1, <2>3, SpliceOutType
    <2>5. q \in Seq(Sockets) /\ Len(q) <= Len(p) BY <2>2, <2>4, SpliceOutType
    <2>6. Len(q) <= Len(queues[t])
      <3>1. Len(q) \in Nat /\ Len(p) \in Nat /\ Len(queues[t]) \in Nat
        BY <2>3, <2>4, <2>5
      <3> QED BY <2>4, <2>5, <3>1
    <2>7. queues' = [queues EXCEPT ![t] = q] /\ matchPair(c, cr, ch, t)
      BY <1>4, <2>1, <2>2 DEF RetryPair
    <2> HIDE DEF cr, ch, t
    <2> QED BY <1>2, <1>3, <2>5, <2>6, <2>7, MatchedTypes
  <1>5. CASE ~StillPaired(cr, ch, t)
    <2>1. calls' = [calls EXCEPT ![c] = Idle] /\ UNCHANGED <<queues, queuedTier>>
      BY <1>5 DEF RetryPair
    <2>2. calls' \in [Calls -> Call] BY <2>1 DEF TypeOK, Call
    <2> QED BY <1>3, <2>1, <2>2, QuietQueues DEF TypeOK
  <1> QED BY <1>4, <1>5

LEMMA DeckTypes ==
  ASSUME IInv, TypeOK, NEW c \in Calls, DeckReady(c) \/ DeckFailed(c)
  PROVE  QueuesTyped
  <1> DEFINE cr == calls[c].creator
             ch == calls[c].challenger
             t == calls[c].tier
  <1>1. calls[c] \in Call BY DEF TypeOK
  <1>2. cr \in Sockets /\ ch \in Sockets /\ t \in Tiers
    BY <1>1, CallFields DEF DeckReady, DeckFailed
  <1>3. CASE DeckReady(c)
    <2>1. told' \in [Sockets -> Messages] BY <1>3 DEF DeckReady, TypeOK, Messages
    <2>2. calls' \in [Calls -> Call] BY <1>3 DEF DeckReady, TypeOK, Call
    <2> QED BY <1>3, <2>1, <2>2, QuietQueues DEF DeckReady
  <1>4. CASE DeckFailed(c)
    <2>1. PICK after : after = requeueBoth(cr, ch, t) OBVIOUS
    <2>2. Requeued(after) BY <1>2, <2>1, BothRequeued
    <2>3. /\ queuedTier' = after.tier /\ queues' = after.qs
          /\ told' = Tell(after.back, "queue_status")
          /\ calls' = [calls EXCEPT ![c] = AwaitRetry(cr, ch, t)]
      BY <1>4, <2>1 DEF DeckFailed
    <2>4. AwaitRetry(cr, ch, t) \in Call BY <1>2 DEF AwaitRetry, Call
    <2>5. calls' \in [Calls -> Call] BY <2>3, <2>4 DEF TypeOK
    <2>6. "queue_status" \in Messages BY DEF Messages
    <2>7. told' \in [Sockets -> Messages] BY <2>3, <2>6, TellType DEF TypeOK
    <2> QED BY <2>2, <2>3, <2>5, <2>7 DEF Requeued, QueuesTyped
  <1> QED BY <1>3, <1>4

LEMMA RatingTypes ==
  ASSUME IInv, TypeOK, NEW c \in Calls, RatingRead(c) PROVE QueuesTyped
  <1> DEFINE w == calls[c].ws
             t == calls[c].tier
             who == {o \in Sockets : address[o] # None /\ address[o] # address[w]}
  <1>1. calls[c] \in Call BY DEF TypeOK
  <1>2. w \in Sockets /\ t \in Tiers BY <1>1, CallFields DEF RatingRead
  <1>3. CASE Enqueue(c) BY <1>3, EnqueueTypes DEF RatingRead
  <1>4. CASE ~Enqueue(c)
    <2>1. /\ calls' = [calls EXCEPT ![c] = AwaitPick(w, t, CandidatesFor(w, t))]
          /\ UNCHANGED <<queues, queuedTier, told>>
      BY <1>4 DEF RatingRead
    <2>2. queues[t] \in Seq(Sockets) BY <1>2 DEF TypeOK
    <2>3. \A o \in who : address[o] \in Addresses BY DEF TypeOK
    <2>4. CandidatesFor(w, t) = Snapshot(queues[t], who) BY DEF CandidatesFor
    <2>5. CandidatesFor(w, t) \in Seq(Candidate)
      <3> HIDE DEF who
      <3> QED BY <2>2, <2>3, <2>4, SnapshotType
    <2>6. AwaitPick(w, t, CandidatesFor(w, t)) \in Call
      BY <1>2, <2>5 DEF AwaitPick, Call
    <2>7. calls' \in [Calls -> Call] BY <2>1, <2>6 DEF TypeOK
    <2> QED BY <2>1, <2>7, QuietQueues DEF TypeOK
  <1> QED BY <1>3, <1>4

LEMMA CallTypes ==
  ASSUME IInv, TypeOK, NEW c \in Calls, CallStep(c) PROVE QueuesTyped
  <1>1. CASE NoOpponent(c) BY <1>1, EnqueueTypes DEF NoOpponent
  <1>2. CASE ReadFailed(c)
    <2>1. calls' \in [Calls -> Call] BY <1>2 DEF ReadFailed, TypeOK, Call
    <2> QED BY <1>2, <2>1, QuietQueues DEF ReadFailed, TypeOK
  <1> QED
    BY <1>1, <1>2, RatingTypes, OpponentTypes, DeckTypes, RetryTypes DEF CallStep

LEMMA ClientTypes ==
  ASSUME TypeOK, NEW w \in Sockets, ClientStep(w) PROVE QueuesTyped
  <1>1. "hello" \in Messages BY DEF Messages
  <1>2. CASE \E a \in Addresses : registerAddress(w, a)
    <2>1. told' \in [Sockets -> Messages]
      BY <1>1, <1>2, TellType DEF registerAddress, TypeOK
    <2> QED BY <1>2, <2>1, QuietQueues DEF registerAddress, queueVars, TypeOK
  <1>3. CASE \E d \in Duels : subscribeRoom(w, d) \/ unsubscribeRoom(w, d)
    BY <1>3, QuietQueues DEF subscribeRoom, unsubscribeRoom, queueVars, TypeOK
  <1>4. CASE \/ leaveQueue(w) \/ onSocketClose(w)
             \/ \E c \in Calls, t \in Tiers : joinQueue(c, w, t)
    <2>1. queues' = LeaveEffect(w).qs
      BY <1>4 DEF leaveQueue, onSocketClose, joinQueue
    <2>2. queues' \in [Tiers -> Seq(Sockets)] BY <2>1, LeaveType
    <2>3. \A t \in Tiers : Len(queues'[t]) \in Nat /\ Len(queues'[t]) <= Len(queues[t])
      BY <2>1, <2>2, LeaveType
    <2>4. told' \in [Sockets -> Messages]
      <3>1. LeaveEffect(w).msgs \in [Sockets -> Messages] BY LeaveType
      <3>2. [told EXCEPT ![w] = "none"] \in [Sockets -> Messages]
        BY DEF TypeOK, Messages
      <3>3. \/ told' = LeaveEffect(w).msgs
            \/ told' = [told EXCEPT ![w] = "none"]
        BY <1>4 DEF leaveQueue, onSocketClose, joinQueue
      <3> QED BY <3>1, <3>2, <3>3
    <2>5. queuedTier' \in [Sockets -> Tiers \cup {None}]
      BY <1>4 DEF leaveQueue, onSocketClose, joinQueue, TypeOK
    <2>6. calls' \in [Calls -> Call]
      <3>1. \A t \in Tiers : AwaitRating(w, t) \in Call BY DEF AwaitRating, Call
      <3>2. \/ calls' = calls
            \/ \E c \in Calls, t \in Tiers :
                 calls' = [calls EXCEPT ![c] = AwaitRating(w, t)]
        BY <1>4 DEF leaveQueue, onSocketClose, joinQueue
      <3>3. calls \in [Calls -> Call] BY DEF TypeOK
      <3> QED BY <3>1, <3>2, <3>3
    <2>7. Pushed(queues', queuedTier') BY <2>3, NothingPushed
    <2> QED BY <2>2, <2>4, <2>5, <2>6, <2>7 DEF QueuesTyped
  <1> QED BY <1>2, <1>3, <1>4 DEF ClientStep

LEMMA StepTypes == ASSUME IInv, TypeOK, [Next]_vars PROVE QueuesTyped
  <1>1. CASE \E w \in Sockets : ClientStep(w) BY <1>1, ClientTypes
  <1>2. CASE \E c \in Calls : CallStep(c) BY <1>2, CallTypes
  <1>3. CASE \E a \in Addresses : HandshakeTimeout(a) \/ DuelCreated(a)
    <2>1. told' \in [Sockets -> Messages]
      <3>1. {"match_abandoned", "duel_assigned"} \subseteq Messages BY DEF Messages
      <3> QED BY <1>3, <3>1, TellType DEF HandshakeTimeout, DuelCreated, TypeOK
    <2> QED
      BY <1>3, <2>1, QuietQueues DEF HandshakeTimeout, DuelCreated, queueVars, TypeOK
  <1>4. CASE \E d \in Duels, a \in Addresses : ForfeitTimeout(d, a)
    BY <1>4, QuietQueues DEF ForfeitTimeout, queueVars, TypeOK
  <1>5. CASE UNCHANGED vars BY <1>5, QuietQueues DEF vars, queueVars, TypeOK
  <1> QED BY <1>1, <1>2, <1>3, <1>4, <1>5 DEF Next

LEMMA PairTypes ==
  ASSUME TypeOK, [Next]_vars
  PROVE  /\ pendingPairs' \in [Addresses -> Addresses \cup {None}]
         /\ pendingPairTimers' \in [Addresses -> SUBSET Sockets]
  <1>1. CASE \E c \in Calls : DeckReady(c)
    <2> PICK c \in Calls : DeckReady(c) BY <1>1
    <2> DEFINE cr == calls[c].creator
               ch == calls[c].challenger
               a == calls[c].creatorAddr
               b == calls[c].challengerAddr
    <2>1. calls[c] \in Call BY DEF TypeOK
    <2>2. /\ cr \in Sockets /\ ch \in Sockets
          /\ a \in Addresses \cup {None} /\ b \in Addresses \cup {None}
      BY <2>1, CallFields DEF DeckReady
    <2>3. \/ UNCHANGED pairVars
          \/ /\ a # None /\ b # None /\ pendingPairs' = [pendingPairs EXCEPT ![a] = b]
             /\ pendingPairTimers' = [pendingPairTimers EXCEPT ![a] = {cr, ch}]
      BY DEF DeckReady, armHandshakeTimeout, pairVars
    <2> HIDE DEF cr, ch, a, b
    <2>4. a # None /\ b # None => a \in Addresses /\ b \in Addresses BY <2>2
    <2>5. {cr, ch} \in SUBSET Sockets BY <2>2
    <2>6. CASE UNCHANGED pairVars BY <2>6 DEF TypeOK, pairVars
    <2>7. CASE ~UNCHANGED pairVars
      <3>1. /\ a \in Addresses /\ b \in Addresses
            /\ pendingPairs' = [pendingPairs EXCEPT ![a] = b]
            /\ pendingPairTimers' = [pendingPairTimers EXCEPT ![a] = {cr, ch}]
        BY <2>3, <2>4, <2>7
      <3>2. pendingPairs' \in [Addresses -> Addresses \cup {None}]
        BY <3>1 DEF TypeOK
      <3>3. PICK both : both = {cr, ch} OBVIOUS
      <3>4. pendingPairTimers' \in [Addresses -> SUBSET Sockets]
        BY <2>5, <3>1, <3>3 DEF TypeOK
      <3> QED BY <3>2, <3>4
    <2> QED BY <2>6, <2>7
  <1>2. CASE \E a \in Addresses : HandshakeTimeout(a) \/ DuelCreated(a)
    BY <1>2 DEF HandshakeTimeout, DuelCreated, takeMatchedPair, TypeOK
  <1>3. CASE UNCHANGED pairVars BY <1>3 DEF pairVars, TypeOK
  <1>4. CASE \E w \in Sockets : ClientStep(w)
    BY <1>3, <1>4 DEF ClientStep, registerAddress, joinQueue, leaveQueue,
       subscribeRoom, unsubscribeRoom, onSocketClose
  <1>5. CASE \E c \in Calls : CallStep(c)
    BY <1>1, <1>3, <1>5 DEF CallStep, RatingRead, OpponentPicked, NoOpponent,
       ReadFailed, Enqueue, DeckFailed, RetryPair, pairVars
  <1>6. CASE \E d \in Duels, a \in Addresses : ForfeitTimeout(d, a)
    BY <1>3, <1>6 DEF ForfeitTimeout
  <1>7. CASE UNCHANGED vars BY <1>3, <1>7 DEF vars
  <1> QED BY <1>2, <1>4, <1>5, <1>6, <1>7 DEF Next

LEMMA TimerTypes ==
  ASSUME TypeOK, [Next]_vars PROVE forfeitTimers' \subseteq Duels \X Addresses
  <1>1. CASE \E w \in Sockets : onSocketClose(w)
    <2> PICK w \in Sockets : onSocketClose(w) BY <1>1
    <2>1. subscribedDuels[w] \subseteq Duels BY DEF TypeOK
    <2>2. address[w] \in Addresses \/ address[w] = None BY DEF TypeOK
    <2> QED BY <2>1, <2>2 DEF onSocketClose, TypeOK
  <1>2. CASE ~\E w \in Sockets : onSocketClose(w)
    BY <1>2, OnlyCloseArms DEF TypeOK
  <1> QED BY <1>1, <1>2

LEMMA NextTypeOK == IInv /\ TypeOK /\ [Next]_vars => TypeOK'
  <1> SUFFICES ASSUME IInv, TypeOK, [Next]_vars PROVE TypeOK' OBVIOUS
  <1>1. SocketsTyped' /\ RoomsTyped' BY NextIInv DEF IInv
  <1>2. QueuesTyped BY StepTypes
  <1> QED
    BY <1>1, <1>2, PairTypes, TimerTypes DEF TypeOK, SocketsTyped, RoomsTyped, QueuesTyped

LEMMA InitTypeOK == Init => TypeOK
  <1> SUFFICES ASSUME Init PROVE TypeOK OBVIOUS
  <1>1. Idle \in Call /\ "none" \in Messages BY DEF Call, Messages
  <1>2. queues \in [Tiers -> Seq(Sockets)] BY DEF Init
  <1>3. calls \in [Calls -> Call] /\ told \in [Sockets -> Messages]
    BY <1>1 DEF Init
  <1> QED BY <1>2, <1>3 DEF Init, TypeOK

LEMMA TypedTables == Spec => [](IInv /\ TypeOK)
  BY InitIInv, NextIInv, InitTypeOK, NextTypeOK, PTL DEF Spec

\* Every table keeps its type, and every record a call holds across an await
\* names sockets, a tier and addresses (matchmaking.ts).
THEOREM MatchmakingTypes == Spec => []TypeOK
  BY TypedTables, PTL

\* Whatever closed, left or moved tier while a call awaited, the queue only
\* ever grows by live sockets that search in that very tier (matchmaking.ts:
\* joinQueue after its awaits, requeue).
THEOREM OnlySearchersQueued == Spec => PushesOnlySearching
  <1> DEFINE Searching ==
               \A t \in Tiers : Len(queues'[t]) > Len(queues[t]) =>
                 \E w \in connected :
                   /\ Last(queues'[t]) = w
                   /\ address[w] # None /\ queuedTier'[w] = t
  <1>1. IInv /\ TypeOK /\ [Next]_vars => Searching
    BY StepTypes DEF QueuesTyped, Pushed
  <1> QED BY <1>1, TypedTables, PTL DEF Spec, PushesOnlySearching

-----------------------------------------------------------------------------
(* What becomes of one call. *)

\* Only its own steps, and a join, touch a call.
LEMMA CallChanges ==
  ASSUME TypeOK, [Next]_vars, NEW c \in Calls, calls'[c] # calls[c],
         calls[c] # Idle
  PROVE  CallStep(c)
  <1>1. CASE \E w \in Sockets : ClientStep(w)
    BY <1>1 DEF ClientStep, registerAddress, joinQueue, leaveQueue, subscribeRoom,
       unsubscribeRoom, onSocketClose, queueVars, TypeOK
  <1>2. CASE \E d \in Calls : CallStep(d)
    <2> PICK d \in Calls : CallStep(d) BY <1>2
    <2>1. \E k : calls' = [calls EXCEPT ![d] = k]
      BY DEF CallStep, RatingRead, OpponentPicked, NoOpponent, ReadFailed, Enqueue,
         DeckReady, DeckFailed, RetryPair, matchPair
    <2>2. d = c BY <2>1 DEF TypeOK
    <2> QED BY <2>2
  <1>3. CASE \E a \in Addresses : HandshakeTimeout(a) \/ DuelCreated(a)
    BY <1>3 DEF HandshakeTimeout, DuelCreated, queueVars
  <1>4. CASE \E d \in Duels, a \in Addresses : ForfeitTimeout(d, a)
    BY <1>4 DEF ForfeitTimeout, queueVars
  <1>5. CASE UNCHANGED vars BY <1>5 DEF vars, queueVars
  <1> QED BY <1>1, <1>2, <1>3, <1>4, <1>5 DEF Next

\* After requeue a socket with an address has a tier, and none loses its tier.
LEMMA RequeueSearches ==
  ASSUME NEW s, DOMAIN s.tier = Sockets, NEW w \in Sockets, NEW t \in Tiers
  PROVE  /\ DOMAIN requeue(s, w, t).tier = Sockets
         /\ address[w] # None => requeue(s, w, t).tier[w] # None
         /\ \A v \in Sockets : s.tier[v] # None => requeue(s, w, t).tier[v] # None
  <1>1. CASE address[w] = None \/ s.tier[w] # None BY <1>1 DEF requeue
  <1>2. CASE address[w] # None /\ s.tier[w] = None
    <2>1. requeue(s, w, t).tier = [s.tier EXCEPT ![w] = t] BY <1>2 DEF requeue
    <2> QED BY <2>1
  <1> QED BY <1>1, <1>2

LEMMA BothSearch ==
  ASSUME TypeOK, NEW cr \in Sockets, NEW ch \in Sockets, NEW t \in Tiers,
         NEW w \in {cr, ch}, address[w] # None
  PROVE  requeueBoth(cr, ch, t).tier[w] # None
  <1>1. PICK s : s = requeue(Now, cr, t) OBVIOUS
  <1>2. DOMAIN Now.tier = Sockets BY DEF Now, TypeOK
  <1>3. DOMAIN s.tier = Sockets /\ (w = cr => s.tier[w] # None)
    BY <1>1, <1>2, RequeueSearches
  <1>4. requeueBoth(cr, ch, t) = requeue(s, ch, t) BY <1>1 DEF requeueBoth
  <1> QED BY <1>3, <1>4, RequeueSearches

\* A failed deck keeps both players searching (matchmaking.ts: matchPair's
\* requeue, before it arms its retry).
THEOREM DeckFailureKeepsPlayers == Spec => FailureKeepsPlayers
  <1> DEFINE Kept == \A c \in Calls :
               calls[c].stage = "deck" /\ calls'[c].stage = "retry" =>
                 \A w \in {calls[c].creator, calls[c].challenger} :
                   address[w] # None => queuedTier'[w] # None
  <1>1. IInv /\ TypeOK /\ [Next]_vars => Kept
    <2> SUFFICES ASSUME IInv, TypeOK, [Next]_vars, NEW c \in Calls,
                        calls[c].stage = "deck", calls'[c].stage = "retry",
                        NEW w \in {calls[c].creator, calls[c].challenger},
                        address[w] # None
                 PROVE  queuedTier'[w] # None
      OBVIOUS
    <2>1. calls[c] \in Call BY DEF TypeOK
    <2>2. /\ calls[c].creator \in Sockets /\ calls[c].challenger \in Sockets
          /\ calls[c].tier \in Tiers
      BY <2>1, CallFields
    <2>3. CallStep(c) BY CallChanges DEF Idle
    <2>4. DeckReady(c) \/ DeckFailed(c)
      BY <2>3 DEF CallStep, RatingRead, OpponentPicked, NoOpponent, ReadFailed,
         RetryPair
    <2>5. ~DeckReady(c) BY DEF DeckReady, TypeOK, Idle
    <2>6. queuedTier' =
            requeueBoth(calls[c].creator, calls[c].challenger, calls[c].tier).tier
      BY <2>4, <2>5 DEF DeckFailed
    <2> QED BY <2>2, <2>6, BothSearch
  <1> QED BY <1>1, TypedTables, PTL DEF Spec, FailureKeepsPlayers

\* A retry pairs two sockets only if both still wait in its tier
\* (matchmaking.ts: matchPair's retry timer).
THEOREM RetryOfWaiting == Spec => RetryTakesWaiting
  <1> DEFINE Waiting == \A c \in Calls :
               calls[c].stage = "retry" /\ calls'[c].stage = "deck" =>
                 LET t == calls[c].tier IN
                 \A w \in {calls[c].creator, calls[c].challenger} :
                   /\ w \in connected /\ queuedTier[w] = t
                   /\ \E i \in 1 .. Len(queues[t]) : queues[t][i] = w
  <1>1. IInv /\ TypeOK /\ [Next]_vars => Waiting
    <2> SUFFICES ASSUME IInv, TypeOK, [Next]_vars, NEW c \in Calls,
                        calls[c].stage = "retry", calls'[c].stage = "deck",
                        NEW w \in {calls[c].creator, calls[c].challenger}
                 PROVE  /\ w \in connected /\ queuedTier[w] = calls[c].tier
                        /\ \E i \in 1 .. Len(queues[calls[c].tier]) :
                             queues[calls[c].tier][i] = w
      OBVIOUS
    <2>1. calls[c] \in Call BY DEF TypeOK
    <2>2. w \in Sockets /\ calls[c].tier \in Tiers BY <2>1, CallFields
    <2>3. CallStep(c) BY CallChanges DEF Idle
    <2>4. RetryPair(c)
      BY <2>3 DEF CallStep, RatingRead, OpponentPicked, NoOpponent, ReadFailed,
         DeckReady, DeckFailed
    <2>5. calls'[c] # Idle BY DEF Idle
    <2>6. StillPaired(calls[c].creator, calls[c].challenger, calls[c].tier)
      BY <2>4, <2>5 DEF RetryPair, TypeOK
    <2>7. /\ queuedTier[w] = calls[c].tier
          /\ Contains(queues[calls[c].tier], w)
      BY <2>6 DEF StillPaired
    <2>8. w \in connected BY <2>2, <2>7 DEF IInv, TiersOfLive
    <2> QED BY <2>7, <2>8 DEF Contains
  <1> QED BY <1>1, TypedTables, PTL DEF Spec, RetryTakesWaiting

-----------------------------------------------------------------------------
(***************************************************************************)
(* The shuffle.  a[i] is the deck before the exchanges of the places up to *)
(* i; the last of them is what shuffle returns.                            *)
(***************************************************************************)
Sizes == Nat \ {0}

Decks(n, V) == [1 .. n -> V]

Stages(a, arr, d, n) ==
  /\ a[n] = arr
  /\ \A i \in 1 .. n - 1 : a[i] = Exchange(a[i + 1], i + 1, d[i + 1])

\* Down from the last place to the first.
LEMMA DownFrom ==
  ASSUME NEW n \in Sizes, NEW P, n \in P, \A i \in 1 .. n - 1 : i + 1 \in P => i \in P
  PROVE  1 .. n \subseteq P
  <1> DEFINE D == 1 .. n
             rank == [i \in D |-> n - i]
             base == {n}
             prev == [i \in D |-> i + 1]
  <1>1. Descends(D, rank, base, prev) BY DEF Descends, Sizes
  <1>2. base \subseteq P /\ \A i \in D \ base : prev[i] \in P => i \in P
    BY DEF Sizes
  <1> HIDE DEF D, rank, base, prev
  <1>3. D \subseteq P BY <1>1, <1>2, RankInduction
  <1> QED BY <1>3 DEF D

LEMMA UpTo ==
  ASSUME NEW n \in Sizes, NEW P, 1 \in P, \A i \in 1 .. n - 1 : i \in P => i + 1 \in P
  PROVE  1 .. n \subseteq P
  <1> DEFINE D == 1 .. n
             rank == [i \in D |-> i]
             base == {1}
             prev == [i \in D |-> i - 1]
  <1>1. Descends(D, rank, base, prev) BY DEF Descends, Sizes
  <1>2. base \subseteq P /\ \A i \in D \ base : prev[i] \in P => i \in P
    <2> SUFFICES ASSUME NEW i \in D \ base, prev[i] \in P PROVE i \in P OBVIOUS
    <2>1. i - 1 \in 1 .. n - 1 /\ i - 1 \in P BY DEF Sizes
    <2>2. (i - 1) + 1 \in P BY <2>1
    <2> QED BY <2>2
  <1> HIDE DEF D, rank, base, prev
  <1>3. D \subseteq P BY <1>1, <1>2, RankInduction
  <1> QED BY <1>3 DEF D

LEMMA ExchangeType ==
  ASSUME NEW n \in Sizes, NEW V, NEW s \in Decks(n, V), NEW i \in 1 .. n, NEW j \in 1 .. n
  PROVE  /\ Exchange(s, i, j) \in Decks(n, V)
         /\ Exchange(s, i, j)[i] = s[j] /\ Exchange(s, i, j)[j] = s[i]
         /\ \A x \in 1 .. n \ {i, j} : Exchange(s, i, j)[x] = s[x]
  BY DEF Exchange, Decks

LEMMA LenOf ==
  ASSUME NEW n \in Nat, NEW V, NEW s \in [1 .. n -> V]
  PROVE  s \in Seq(V) /\ Len(s) = n
  OBVIOUS

LEMMA ShuffleStages ==
  ASSUME NEW n \in Sizes, NEW V, NEW arr \in Decks(n, V), NEW d \in Draws(n)
  PROVE  \E a \in Decks(n, Decks(n, V)) : Stages(a, arr, d, n) /\ shuffle(arr, d) = a[1]
  <1> USE DEF Decks
  <1> DEFINE D == 1 .. n
             W == [1 .. n -> V]
             Is(f) == f = [i \in D |->
               IF i = n THEN arr ELSE Exchange(f[i + 1], i + 1, d[i + 1])]
             rank == [i \in D |-> n - i]
             base == {n}
             out == [i \in D |-> arr]
             prev == [i \in D |-> i + 1]
             step == [p \in D \X W |-> Exchange(p[2], p[1] + 1, d[p[1] + 1])]
  <1>1. Descends(D, rank, base, prev) BY DEF Descends, Sizes
  <1>2. \A i \in D \ base : i + 1 \in D /\ d[i + 1] \in D BY DEF Draws, Sizes
  <1>3. \A i \in D \ base, s \in W : step[<<i, s>>] \in W
    <2> SUFFICES ASSUME NEW i \in D \ base, NEW s \in W
                 PROVE  Exchange(s, i + 1, d[i + 1]) \in W
      BY <1>2
    <2>1. i + 1 \in D /\ d[i + 1] \in D BY <1>2
    <2> QED BY <2>1, ExchangeType
  <1>4. \A i \in base : out[i] \in W BY DEF Sizes
  <1>5. \E f \in [D -> W] : Recurs(f, D, base, out, prev, step)
    <2> HIDE DEF D, W, rank, base, out, prev, step
    <2> QED BY <1>1, <1>3, <1>4, RecursionExists
  <1>6. PICK f \in [D -> W] : Recurs(f, D, base, out, prev, step) BY <1>5
  <1>7. Is(f)
    <2>1. ASSUME NEW i \in D
          PROVE  f[i] = IF i = n THEN arr ELSE Exchange(f[i + 1], i + 1, d[i + 1])
      <3>1. f[i] = IF i \in base THEN out[i] ELSE step[<<i, f[prev[i]]>>]
        BY <1>6 DEF Recurs
      <3>2. i # n => step[<<i, f[prev[i]]>>] = Exchange(f[i + 1], i + 1, d[i + 1])
        BY <1>2
      <3> QED BY <3>1, <3>2
    <2> QED BY <2>1
  <1>8. PICK h : h = CHOOSE k : Is(k) OBVIOUS
  <1>9. Is(h)
    <2> HIDE DEF Is
    <2> QED BY <1>7, <1>8
  <1>10. Len(arr) = n BY LenOf DEF Sizes
  <1>11. shuffle(arr, d) = h[1] BY <1>8, <1>10 DEF shuffle
  <1>12. D \subseteq {i \in D : h[i] \in W}
    <2> DEFINE P == {i \in D : h[i] \in W}
    <2>1. n \in P BY <1>9 DEF Sizes
    <2>2. ASSUME NEW i \in 1 .. n - 1, i + 1 \in P PROVE i \in P
      <3>1. i \in D /\ i # n /\ i + 1 \in D /\ d[i + 1] \in D BY DEF Draws, Sizes
      <3>2. h[i] = Exchange(h[i + 1], i + 1, d[i + 1]) BY <1>9, <3>1
      <3>3. PICK s \in [1 .. n -> V] : s = h[i + 1] BY <2>2
      <3>4. PICK j \in 1 .. n : j = d[i + 1] BY <3>1
      <3>5. Exchange(s, i + 1, j) \in [1 .. n -> V] BY <3>1, ExchangeType
      <3> QED BY <3>1, <3>2, <3>3, <3>4, <3>5
    <2> HIDE DEF P
    <2>3. 1 .. n \subseteq P BY <2>1, <2>2, DownFrom
    <2> QED BY <2>3 DEF P
  <1>13. h \in [D -> W] BY <1>9, <1>12
  <1>14. Stages(h, arr, d, n) BY <1>9 DEF Stages, Sizes
  <1> QED BY <1>11, <1>13, <1>14

-----------------------------------------------------------------------------
(* What a draw does to the places is the same whatever lies there. *)

InPlace(n) == [i \in 1 .. n |-> i]
Order(n, d) == shuffle(InPlace(n), d)
Orders(n) == {p \in [1 .. n -> 1 .. n] : Distinct(p)}
Through(arr, p) == [x \in DOMAIN p |-> arr[p[x]]]

LEMMA OrdersType ==
  ASSUME NEW n, NEW p \in Orders(n)
  PROVE  p \in [1 .. n -> 1 .. n] /\ DOMAIN p = 1 .. n /\ \A x, y \in 1 .. n : p[x] = p[y] => x = y
  BY DEF Orders, Distinct

LEMMA ExchangeOrders ==
  ASSUME NEW n \in Sizes, NEW s \in Orders(n), NEW i \in 1 .. n, NEW j \in 1 .. n
  PROVE  Exchange(s, i, j) \in Orders(n)
  <1>1. PICK t : t = Exchange(s, i, j) OBVIOUS
  <1>2. /\ t \in [1 .. n -> 1 .. n] /\ t[i] = s[j] /\ t[j] = s[i]
        /\ \A x \in 1 .. n \ {i, j} : t[x] = s[x]
    <2>1. s \in Decks(n, 1 .. n) BY OrdersType DEF Decks
    <2>2. t \in Decks(n, 1 .. n) BY <1>1, <2>1, ExchangeType
    <2>3. /\ t[i] = s[j] /\ t[j] = s[i]
          /\ \A x \in 1 .. n \ {i, j} : t[x] = s[x]
      BY <1>1, <2>1, ExchangeType
    <2> QED BY <2>2, <2>3 DEF Decks
  <1>3. \A x, y \in 1 .. n : s[x] = s[y] => x = y BY OrdersType
  <1>4. \A x, y \in 1 .. n : t[x] = t[y] => x = y
    <2> HIDE DEF Orders
    <2> SUFFICES ASSUME NEW x \in 1 .. n, NEW y \in 1 .. n, t[x] = t[y] PROVE x = y OBVIOUS
    <2> DEFINE at(z) == IF z = i THEN j ELSE IF z = j THEN i ELSE z
    <2>1. \A z \in 1 .. n : t[z] = s[at(z)] /\ at(z) \in 1 .. n BY <1>2
    <2>2. at(x) = at(y) BY <1>3, <2>1
    <2> QED BY <2>2
  <1>5. DOMAIN t = 1 .. n BY <1>2
  <1> QED BY <1>1, <1>2, <1>4, <1>5 DEF Orders, Distinct

LEMMA ExchangeThrough ==
  ASSUME NEW n \in Sizes, NEW V, NEW arr \in Decks(n, V), NEW s \in Orders(n),
         NEW i \in 1 .. n, NEW j \in 1 .. n
  PROVE  Exchange(Through(arr, s), i, j) = Through(arr, Exchange(s, i, j))
  BY OrdersType DEF Exchange, Through, Decks

LEMMA InPlaceOrders == ASSUME NEW n PROVE InPlace(n) \in Orders(n)
  BY DEF InPlace, Orders, Distinct

LEMMA StagesThrough ==
  ASSUME NEW n \in Sizes, NEW V, NEW arr \in Decks(n, V), NEW d \in Draws(n),
         NEW a, Stages(a, InPlace(n), d, n), NEW b, Stages(b, arr, d, n)
  PROVE  \A i \in 1 .. n : a[i] \in Orders(n) /\ b[i] = Through(arr, a[i])
  <1> DEFINE P == {i \in 1 .. n : a[i] \in Orders(n) /\ b[i] = Through(arr, a[i])}
  <1>1. n \in P
    <2>1. a[n] = InPlace(n) /\ b[n] = arr BY DEF Stages
    <2>2. arr = Through(arr, InPlace(n)) BY DEF Through, InPlace, Decks
    <2>3. n \in 1 .. n BY DEF Sizes
    <2> QED BY <2>1, <2>2, <2>3, InPlaceOrders
  <1>2. ASSUME NEW i \in 1 .. n - 1, i + 1 \in P PROVE i \in P
    <2>1. i \in 1 .. n /\ i + 1 \in 1 .. n /\ d[i + 1] \in 1 .. n BY DEF Sizes, Draws
    <2>2. PICK j \in 1 .. n : j = d[i + 1] BY <2>1
    <2>3. PICK s \in Orders(n) : s = a[i + 1] /\ b[i + 1] = Through(arr, s) BY <1>2
    <2>4. a[i] = Exchange(s, i + 1, j) /\ b[i] = Exchange(Through(arr, s), i + 1, j)
      BY <2>2, <2>3 DEF Stages
    <2>5. Exchange(s, i + 1, j) \in Orders(n) BY <2>1, ExchangeOrders
    <2>6. Exchange(Through(arr, s), i + 1, j) = Through(arr, Exchange(s, i + 1, j))
      BY <2>1, ExchangeThrough
    <2> QED BY <2>1, <2>4, <2>5, <2>6
  <1> HIDE DEF P
  <1>3. 1 .. n \subseteq P BY <1>1, <1>2, DownFrom
  <1> QED BY <1>3 DEF P

LEMMA ShuffleThrough ==
  ASSUME NEW n \in Sizes, NEW V, NEW arr \in Decks(n, V), NEW d \in Draws(n)
  PROVE  Order(n, d) \in Orders(n) /\ shuffle(arr, d) = Through(arr, Order(n, d))
  <1>1. PICK b : Stages(b, arr, d, n) /\ shuffle(arr, d) = b[1] BY ShuffleStages
  <1>2. InPlace(n) \in Decks(n, 1 .. n) BY DEF InPlace, Decks
  <1>3. PICK a : Stages(a, InPlace(n), d, n) /\ shuffle(InPlace(n), d) = a[1]
    BY <1>2, ShuffleStages
  <1>4. 1 \in 1 .. n BY DEF Sizes
  <1>5. a[1] \in Orders(n) /\ b[1] = Through(arr, a[1])
    BY <1>1, <1>3, <1>4, StagesThrough
  <1> QED BY <1>1, <1>3, <1>5 DEF Order

-----------------------------------------------------------------------------
(* Every order comes from exactly one draw: the places above i are final   *)
(* once the exchange of i + 1 is made.                                     *)

LEMMA StageKeeps ==
  ASSUME NEW n \in Sizes, NEW d \in Draws(n), NEW a, NEW arr, Stages(a, arr, d, n),
         \A i \in 1 .. n : a[i] \in Orders(n), NEW i \in 1 .. n - 1
  PROVE  /\ a[i][i + 1] = a[i + 1][d[i + 1]]
         /\ \A x \in i + 2 .. n : a[i][x] = a[i + 1][x]
  <1>1. i + 1 \in 1 .. n /\ d[i + 1] \in 1 .. i + 1 /\ d[i + 1] \in 1 .. n BY DEF Draws, Sizes
  <1>2. PICK j \in 1 .. i + 1 : j = d[i + 1] /\ j \in 1 .. n BY <1>1
  <1>3. PICK s : s = a[i + 1] OBVIOUS
  <1>4. s \in Decks(n, 1 .. n) BY <1>1, <1>3, OrdersType DEF Decks
  <1>5. a[i] = Exchange(s, i + 1, j) BY <1>2, <1>3 DEF Stages
  <1>6. /\ a[i][i + 1] = s[j]
        /\ \A x \in 1 .. n \ {i + 1, j} : a[i][x] = s[x]
    BY <1>1, <1>2, <1>4, <1>5, ExchangeType
  <1>7. \A x \in i + 2 .. n : x \in 1 .. n \ {i + 1, j} BY <1>2
  <1> QED BY <1>2, <1>3, <1>6, <1>7

LEMMA PlacesFinal ==
  ASSUME NEW n \in Sizes, NEW d \in Draws(n), NEW a, NEW arr, Stages(a, arr, d, n),
         \A i \in 1 .. n : a[i] \in Orders(n), NEW i \in 1 .. n, NEW x \in i + 1 .. n
  PROVE  a[i][x] = a[1][x]
  <1> DEFINE P == {k \in 1 .. n : \A y \in k + 1 .. n : a[k][y] = a[1][y]}
  <1>1. 1 \in P BY DEF Sizes
  <1>2. ASSUME NEW k \in 1 .. n - 1, k \in P PROVE k + 1 \in P
    <2>1. k + 1 \in 1 .. n BY DEF Sizes
    <2>2. \A y \in k + 1 .. n : a[k][y] = a[1][y] BY <1>2
    <2>3. \A y \in k + 2 .. n : a[k][y] = a[k + 1][y] BY StageKeeps
    <2>4. \A y \in (k + 1) + 1 .. n : y \in k + 1 .. n /\ y \in k + 2 .. n OBVIOUS
    <2> QED BY <2>1, <2>2, <2>3, <2>4
  <1> HIDE DEF P
  <1>3. 1 .. n \subseteq P BY <1>1, <1>2, UpTo
  <1> QED BY <1>3 DEF P

LEMMA SameDeck ==
  ASSUME NEW n, NEW V, NEW f \in Decks(n, V), NEW g \in Decks(n, V),
         \A x \in 1 .. n : f[x] = g[x]
  PROVE  f = g
  <1>1. f = [x \in 1 .. n |-> f[x]] BY DEF Decks
  <1>2. g = [x \in 1 .. n |-> g[x]] BY DEF Decks
  <1>3. [x \in 1 .. n |-> f[x]] = [x \in 1 .. n |-> g[x]] OBVIOUS
  <1> QED BY <1>1, <1>2, <1>3

LEMMA DrawUnique ==
  ASSUME NEW n \in Sizes, NEW d \in Draws(n), NEW e \in Draws(n), Order(n, d) = Order(n, e)
  PROVE  d = e
  <1>1. InPlace(n) \in Decks(n, 1 .. n) BY DEF InPlace, Decks
  <1>2. PICK a : Stages(a, InPlace(n), d, n) /\ Order(n, d) = a[1]
    BY <1>1, ShuffleStages DEF Order
  <1>3. PICK b : Stages(b, InPlace(n), e, n) /\ Order(n, e) = b[1]
    BY <1>1, ShuffleStages DEF Order
  <1>4. \A i \in 1 .. n : a[i] \in Orders(n) BY <1>1, <1>2, StagesThrough
  <1>5. \A i \in 1 .. n : b[i] \in Orders(n) BY <1>1, <1>3, StagesThrough
  <1>6. a[1] = b[1] BY <1>2, <1>3
  <1>7. ASSUME NEW i \in 1 .. n - 1, a[i + 1] = b[i + 1] PROVE d[i + 1] = e[i + 1] /\ a[i] = b[i]
    <2>0. i \in 1 .. n /\ i + 1 \in i + 1 .. n /\ i + 1 \in 1 .. n BY DEF Sizes
    <2>1. /\ i \in 1 .. n /\ i + 1 \in i + 1 .. n /\ i + 1 \in 1 .. n
          /\ d[i + 1] \in 1 .. n /\ e[i + 1] \in 1 .. n
      BY <2>0 DEF Draws
    <2>2. a[i][i + 1] = a[1][i + 1] BY <1>2, <1>4, <2>1, PlacesFinal
    <2>3. b[i][i + 1] = b[1][i + 1] BY <1>3, <1>5, <2>1, PlacesFinal
    <2>4. a[i][i + 1] = a[i + 1][d[i + 1]] BY <1>2, <1>4, StageKeeps
    <2>5. b[i][i + 1] = b[i + 1][e[i + 1]] BY <1>3, <1>5, StageKeeps
    <2>6. a[i + 1] \in Orders(n) BY <1>4, <2>1
    <2>7. d[i + 1] = e[i + 1] BY <1>6, <1>7, <2>1, <2>2, <2>3, <2>4, <2>5, <2>6, OrdersType
    <2> QED BY <1>2, <1>3, <1>7, <2>7 DEF Stages
  <1> DEFINE P == {i \in 1 .. n : a[i] = b[i]}
  <1>8. n \in P BY <1>2, <1>3 DEF Stages, Sizes
  <1>9. ASSUME NEW i \in 1 .. n - 1, i + 1 \in P PROVE i \in P
    <2>1. i \in 1 .. n BY DEF Sizes
    <2> QED BY <1>7, <1>9, <2>1
  <1>10. 1 .. n \subseteq P
    <2> HIDE DEF P
    <2> QED BY <1>8, <1>9, DownFrom
  <1>11. \A i \in 1 .. n : d[i] = e[i]
    <2> SUFFICES ASSUME NEW i \in 1 .. n PROVE d[i] = e[i] OBVIOUS
    <2>1. CASE i = 1
      <3>1. d[1] \in 1 .. n /\ d[1] <= 1 /\ e[1] \in 1 .. n /\ e[1] <= 1 BY <2>1 DEF Draws
      <3> QED BY <2>1, <3>1
    <2>2. CASE i # 1
      <3>1. PICK k \in 1 .. n - 1 : i = k + 1
        <4>1. i - 1 \in 1 .. n - 1 /\ i = (i - 1) + 1 BY <2>2 DEF Sizes
        <4> QED BY <4>1
      <3>2. a[k + 1] = b[k + 1] BY <1>10, <3>1
      <3> QED BY <1>7, <3>1, <3>2
    <2> QED BY <2>1, <2>2
  <1>12. d \in Decks(n, 1 .. n) /\ e \in Decks(n, 1 .. n) BY DEF Draws, Decks
  <1> HIDE DEF P
  <1> QED BY <1>11, <1>12, SameDeck

LEMMA OrdersOnto ==
  ASSUME NEW n \in Sizes, NEW p \in Orders(n), NEW v \in 1 .. n
  PROVE  \E j \in 1 .. n : p[j] = v
  <1>1. p \in Injection(1 .. n, 1 .. n) BY OrdersType DEF Injection, IsInjective
  <1>2. IsFiniteSet(1 .. n) BY FS_Interval DEF Sizes
  <1>3. p \in Surjection(1 .. n, 1 .. n) BY <1>1, <1>2, FS_Injection
  <1> QED BY <1>3 DEF Surjection

Where(s, v) == CHOOSE j \in DOMAIN s : s[j] = v

LEMMA WhereIs ==
  ASSUME NEW n \in Sizes, NEW p \in Orders(n), NEW v \in 1 .. n
  PROVE  Where(p, v) \in 1 .. n /\ p[Where(p, v)] = v
  <1>1. \E j \in 1 .. n : p[j] = v BY OrdersOnto
  <1>2. DOMAIN p = 1 .. n BY OrdersType
  <1> QED BY <1>1, <1>2 DEF Where

LEMMA DrawExists ==
  ASSUME NEW n \in Sizes, NEW p \in Orders(n)
  PROVE  \E d \in Draws(n) : Order(n, d) = p
  <1> DEFINE D == 1 .. n
             V == Orders(n)
             rank == [i \in D |-> n - i]
             base == {n}
             out == [i \in D |-> InPlace(n)]
             prev == [i \in D |-> i + 1]
             step == [q \in D \X V |-> Exchange(q[2], q[1] + 1, Where(q[2], p[q[1] + 1]))]
  <1>1. Descends(D, rank, base, prev) BY DEF Descends, Sizes
  <1>2. \A i \in 1 .. n : p[i] \in 1 .. n
    <2>1. p \in [1 .. n -> 1 .. n] BY OrdersType
    <2> HIDE DEF D, V, rank, base, out, prev, step
    <2> QED BY <2>1
  <1>3. ASSUME NEW i \in D \ base, NEW s \in V
        PROVE  /\ step[<<i, s>>] = Exchange(s, i + 1, Where(s, p[i + 1]))
               /\ step[<<i, s>>] \in V
    <2>1. i + 1 \in 1 .. n BY DEF Sizes
    <2>2. Where(s, p[i + 1]) \in 1 .. n BY <1>2, <2>1, WhereIs
    <2>3. Exchange(s, i + 1, Where(s, p[i + 1])) \in V BY <2>1, <2>2, ExchangeOrders
    <2>4. step[<<i, s>>] = Exchange(s, i + 1, Where(s, p[i + 1])) OBVIOUS
    <2> QED BY <2>3, <2>4
  <1>4. \A i \in base : out[i] \in V BY InPlaceOrders DEF Sizes
  <1>5. \E f \in [D -> V] : Recurs(f, D, base, out, prev, step)
    <2> HIDE DEF D, V, rank, base, out, prev, step
    <2> QED BY <1>1, <1>3, <1>4, RecursionExists
  <1>6. PICK a \in [D -> V] : Recurs(a, D, base, out, prev, step) BY <1>5
  <1>7. a[n] = InPlace(n)
    <2>1. n \in base /\ n \in D /\ out[n] = InPlace(n) BY DEF Sizes
    <2> HIDE DEF D, V, rank, base, out, prev, step
    <2> QED BY <1>6, <2>1 DEF Recurs
  <1>8. ASSUME NEW i \in 1 .. n - 1
        PROVE  a[i] = Exchange(a[i + 1], i + 1, Where(a[i + 1], p[i + 1]))
    <2>1. i \in D \ base /\ i + 1 \in D BY DEF Sizes
    <2>2. prev[i] = i + 1 BY <2>1
    <2>3. a[i] = step[<<i, a[i + 1]>>]
      <3> HIDE DEF step, prev, out
      <3> QED BY <1>6, <2>1, <2>2 DEF Recurs
    <2>4. a[i + 1] \in V BY <2>1
    <2> HIDE DEF step, V, D, base
    <2> QED BY <1>3, <2>1, <2>3, <2>4
  <1>9. \A i \in 1 .. n : a[i] \in Orders(n) OBVIOUS
  <1> HIDE DEF D, V, rank, base, out, prev, step
  <1> DEFINE Settled(i) == \A x \in i + 1 .. n : a[i][x] = p[x]
             j(i) == Where(a[i], p[i])
  <1>10. ASSUME NEW i \in 1 .. n, Settled(i) PROVE j(i) \in 1 .. i /\ a[i][j(i)] = p[i]
    <2>1. j(i) \in 1 .. n /\ a[i][j(i)] = p[i] BY <1>2, <1>9, WhereIs
    <2>2. PICK x \in 1 .. n : x = j(i) BY <2>1
    <2>3. x \in i + 1 .. n => FALSE
      <3> SUFFICES ASSUME x \in i + 1 .. n PROVE FALSE OBVIOUS
      <3>1. p[x] = p[i] BY <1>10, <2>1, <2>2
      <3>2. x = i BY <3>1, OrdersType
      <3> QED BY <3>2
    <2> QED BY <2>1, <2>2, <2>3
  <1>11. ASSUME NEW i \in 1 .. n - 1, Settled(i + 1) PROVE Settled(i)
    <2>1. i + 1 \in 1 .. n BY DEF Sizes
    <2>2. PICK k \in 1 .. i + 1 : k = j(i + 1) /\ a[i + 1][k] = p[i + 1] BY <1>10, <1>11, <2>1
    <2>3. PICK s : s = a[i + 1] OBVIOUS
    <2>4. s \in Decks(n, 1 .. n) BY <1>9, <2>1, <2>3, OrdersType DEF Decks
    <2>5. a[i] = Exchange(s, i + 1, k) BY <1>8, <2>2, <2>3
    <2>6. k \in 1 .. n BY DEF Sizes
    <2>7. a[i][i + 1] = s[k] /\ \A x \in 1 .. n \ {i + 1, k} : a[i][x] = s[x]
      BY <2>1, <2>4, <2>5, <2>6, ExchangeType
    <2>8. ASSUME NEW x \in i + 1 .. n PROVE a[i][x] = p[x]
      <3>1. CASE x = i + 1 BY <2>2, <2>3, <2>7, <3>1
      <3>2. CASE x # i + 1
        <4>1. x \in (i + 1) + 1 .. n /\ x \in 1 .. n \ {i + 1, k} BY <3>2
        <4>2. s[x] = p[x] BY <1>11, <2>3, <4>1
        <4> QED BY <2>7, <4>1, <4>2
      <3> QED BY <3>1, <3>2
    <2> QED BY <2>8
  <1>12. \A i \in 1 .. n : Settled(i)
    <2> DEFINE P == {i \in 1 .. n : Settled(i)}
    <2>1. n \in P BY DEF Sizes
    <2>2. ASSUME NEW i \in 1 .. n - 1, i + 1 \in P PROVE i \in P
      <3>1. i \in 1 .. n BY DEF Sizes
      <3>2. Settled(i + 1) BY <2>2
      <3> HIDE DEF Settled
      <3> QED BY <1>11, <3>1, <3>2
    <2> HIDE DEF P
    <2>3. 1 .. n \subseteq P BY <2>1, <2>2, DownFrom
    <2> QED BY <2>3 DEF P
  <1> DEFINE d == [i \in 1 .. n |-> j(i)]
  <1>13. \A i \in 1 .. n : j(i) \in 1 .. i /\ a[i][j(i)] = p[i] BY <1>10, <1>12
  <1>14. d \in Draws(n)
    <2> HIDE DEF j
    <2>1. \A i \in 1 .. n : d[i] \in 1 .. i BY <1>13
    <2> HIDE DEF d
    <2>2. \A i \in 1 .. n : d[i] \in 1 .. n /\ d[i] <= i BY <2>1 DEF Sizes
    <2>3. d \in [1 .. n -> 1 .. n] BY <2>2 DEF d
    <2> QED BY <2>2, <2>3 DEF Draws
  <1>15. Stages(a, InPlace(n), d, n)
    <2>1. \A i \in 1 .. n - 1 : d[i + 1] = Where(a[i + 1], p[i + 1]) BY DEF Sizes
    <2> HIDE DEF d
    <2> QED BY <1>7, <1>8, <2>1 DEF Stages
  <1>16. InPlace(n) \in Decks(n, 1 .. n) BY DEF InPlace, Decks
  <1>17. 1 \in 1 .. n BY DEF Sizes
  <1>18. a[1] = p
    <2>1. a[1] \in Decks(n, 1 .. n) /\ p \in Decks(n, 1 .. n)
      BY <1>9, <1>17, OrdersType DEF Decks
    <2>2. j(1) = 1 /\ a[1][1] = p[1]
      <3> HIDE DEF j
      <3>1. j(1) \in 1 .. 1 /\ a[1][j(1)] = p[1] BY <1>13, <1>17
      <3>2. j(1) = 1 BY <3>1
      <3> QED BY <3>1, <3>2
    <2>3. \A x \in 1 .. n : a[1][x] = p[x]
      <3>1. \A x \in 1 .. n : x = 1 \/ x \in 1 + 1 .. n OBVIOUS
      <3> QED BY <1>12, <1>17, <2>2, <3>1
    <2> QED BY <2>1, <2>3, SameDeck
  <1>19. Order(n, d) = a[1]
    <2> HIDE DEF d
    <2>1. PICK b : Stages(b, InPlace(n), d, n) /\ shuffle(InPlace(n), d) = b[1]
      BY <1>14, <1>16, ShuffleStages
    <2>2. b[1] = Through(InPlace(n), a[1])
      BY <1>14, <1>15, <1>16, <1>17, <2>1, StagesThrough
    <2>3. a[1] \in [1 .. n -> 1 .. n] BY <1>9, <1>17, OrdersType
    <2>4. Through(InPlace(n), a[1]) = a[1] BY <2>3 DEF Through, InPlace
    <2> QED BY <2>1, <2>2, <2>4 DEF Order
  <1> QED BY <1>14, <1>18, <1>19

-----------------------------------------------------------------------------
(* So there are as many draws as orders, and as many draws put a given     *)
(* thing on one place as on another.                                       *)

LEMMA FunctionsFinite ==
  ASSUME NEW S, NEW T, IsFiniteSet(S), IsFiniteSet(T)
  PROVE  IsFiniteSet([S -> T])
  <1> DEFINE Pairs(f) == {<<x, f[x]>> : x \in S}
             m == [f \in [S -> T] |-> Pairs(f)]
  <1>1. IsFiniteSet(SUBSET (S \X T)) BY FS_Product, FS_SUBSET
  <1>2. ASSUME NEW f \in [S -> T], NEW g \in [S -> T], Pairs(f) = Pairs(g) PROVE f = g
    <2>1. \A x \in S : f[x] = g[x]
      <3> SUFFICES ASSUME NEW x \in S PROVE f[x] = g[x] OBVIOUS
      <3>1. <<x, f[x]>> \in Pairs(g) BY <1>2
      <3> QED BY <3>1
    <2> HIDE DEF Pairs
    <2>2. f = [x \in S |-> f[x]] /\ g = [x \in S |-> g[x]] OBVIOUS
    <2>3. [x \in S |-> f[x]] = [x \in S |-> g[x]] BY <2>1
    <2> QED BY <2>2, <2>3
  <1>3. \A f \in [S -> T] : Pairs(f) \in SUBSET (S \X T) OBVIOUS
  <1> HIDE DEF Pairs
  <1>4. m \in Injection([S -> T], SUBSET (S \X T))
    BY <1>2, <1>3 DEF Injection, IsInjective
  <1> HIDE DEF m
  <1> QED BY <1>1, <1>4, FS_Injection

LEMMA DrawsFinite == ASSUME NEW n \in Sizes PROVE IsFiniteSet(Draws(n))
  <1>1. IsFiniteSet(1 .. n) BY FS_Interval DEF Sizes
  <1>2. IsFiniteSet([1 .. n -> 1 .. n]) BY <1>1, FunctionsFinite
  <1>3. Draws(n) \in SUBSET [1 .. n -> 1 .. n] BY DEF Draws
  <1> QED BY <1>2, <1>3, FS_Subset

LEMMA OrderType == ASSUME NEW n \in Sizes, NEW d \in Draws(n) PROVE Order(n, d) \in Orders(n)
  <1>1. InPlace(n) \in Decks(n, 1 .. n) BY DEF InPlace, Decks
  <1> QED BY <1>1, ShuffleThrough

\* One draw for each order.
LEMMA OrdersDrawn ==
  ASSUME NEW n \in Sizes
  PROVE  /\ {Order(n, d) : d \in Draws(n)} = Orders(n)
         /\ Cardinality(Orders(n)) = Cardinality(Draws(n))
  <1> DEFINE m == [d \in Draws(n) |-> Order(n, d)]
  <1>1. {Order(n, d) : d \in Draws(n)} = Orders(n) BY OrderType, DrawExists
  <1>2. m \in Bijection(Draws(n), Orders(n))
    <2>1. m \in [Draws(n) -> Orders(n)] BY OrderType
    <2>2. IsInjective(m) BY DrawUnique DEF IsInjective
    <2>3. \A p \in Orders(n) : \E d \in Draws(n) : m[d] = p BY DrawExists
    <2> HIDE DEF m
    <2> QED BY <2>1, <2>2, <2>3 DEF Bijection, Injection, Surjection
  <1>3. ExistsBijection(Draws(n), Orders(n)) BY <1>2 DEF ExistsBijection
  <1> QED BY <1>1, <1>3, DrawsFinite, FS_Bijection

DrawsPutting(n, arr, p, v) == {d \in Draws(n) : shuffle(arr, d)[p] = v}

LEMMA PlacesAlike ==
  ASSUME NEW n \in Sizes, NEW V, NEW arr \in Decks(n, V), NEW v,
         NEW p \in 1 .. n, NEW q \in 1 .. n
  PROVE  Cardinality(DrawsPutting(n, arr, p, v)) = Cardinality(DrawsPutting(n, arr, q, v))
  <1> DEFINE A == DrawsPutting(n, arr, p, v)
             B == DrawsPutting(n, arr, q, v)
             Swapped(d) == Exchange(Order(n, d), p, q)
             To(d) == CHOOSE e \in Draws(n) : Order(n, e) = Swapped(d)
             m == [d \in A |-> To(d)]
  <1>1. \A d \in Draws(n) : Order(n, d) \in Orders(n) /\ Swapped(d) \in Orders(n)
    BY OrderType, ExchangeOrders
  <1>2. \A d \in Draws(n) : To(d) \in Draws(n) /\ Order(n, To(d)) = Swapped(d)
    BY <1>1, DrawExists
  <1>3. ASSUME NEW o \in Orders(n)
        PROVE  /\ Exchange(Exchange(o, p, q), p, q) = o
               /\ Exchange(o, p, q)[p] = o[q] /\ Exchange(o, p, q)[q] = o[p]
    <2>1. o \in [1 .. n -> 1 .. n] BY OrdersType
    <2> QED BY <2>1 DEF Exchange
  <1>4. ASSUME NEW d \in Draws(n), NEW x \in 1 .. n
        PROVE  shuffle(arr, d)[x] = arr[Order(n, d)[x]]
    <2>1. shuffle(arr, d) = Through(arr, Order(n, d)) BY ShuffleThrough
    <2>2. DOMAIN Order(n, d) = 1 .. n BY <1>1, OrdersType
    <2> QED BY <2>1, <2>2 DEF Through
  <1> HIDE DEF To
  <1>5. ASSUME NEW d \in Draws(n)
        PROVE  shuffle(arr, To(d))[q] = shuffle(arr, d)[p] /\ shuffle(arr, To(d))[p] = shuffle(arr, d)[q]
    <2>1. PICK o \in Orders(n) : o = Order(n, d) BY <1>1
    <2>2. PICK e \in Draws(n) : e = To(d) BY <1>2
    <2>3. Order(n, e) = Exchange(o, p, q) BY <1>2, <2>1, <2>2
    <2>4. Order(n, e)[q] = o[p] /\ Order(n, e)[p] = o[q] BY <1>3, <2>3
    <2>5. shuffle(arr, e)[q] = arr[o[p]] /\ shuffle(arr, e)[p] = arr[o[q]] BY <1>4, <2>4
    <2>6. shuffle(arr, d)[p] = arr[o[p]] /\ shuffle(arr, d)[q] = arr[o[q]] BY <1>4, <2>1
    <2> QED BY <2>2, <2>5, <2>6
  <1>6. ASSUME NEW d \in Draws(n) PROVE To(To(d)) = d
    <2>1. PICK o \in Orders(n) : o = Order(n, d) BY <1>1
    <2>2. PICK e \in Draws(n) : e = To(d) BY <1>2
    <2>3. PICK c \in Draws(n) : c = To(e) BY <1>2
    <2>4. Order(n, e) = Exchange(o, p, q) BY <1>2, <2>1, <2>2
    <2>5. Order(n, c) = Exchange(Order(n, e), p, q) BY <1>2, <2>3
    <2>6. Order(n, c) = o BY <1>3, <2>4, <2>5
    <2>7. c = d BY <2>1, <2>6, DrawUnique
    <2> QED BY <2>2, <2>3, <2>7
  <1> HIDE DEF Swapped
  <1>7. \A d \in A : d \in Draws(n) /\ To(d) \in B BY <1>2, <1>5 DEF DrawsPutting
  <1>8. \A d \in B : d \in Draws(n) /\ To(d) \in A BY <1>2, <1>5 DEF DrawsPutting
  <1> HIDE DEF A, B
  <1>9. m \in Bijection(A, B)
    <2>1. m \in [A -> B] BY <1>7
    <2>2. \A x, y \in A : m[x] = m[y] => x = y BY <1>6, <1>7
    <2>3. \A y \in B : \E x \in A : m[x] = y BY <1>6, <1>8
    <2>4. DOMAIN m = A OBVIOUS
    <2> HIDE DEF m
    <2> QED BY <2>1, <2>2, <2>3, <2>4 DEF Bijection, Injection, Surjection, IsInjective
  <1>10. ExistsBijection(A, B) BY <1>9 DEF ExistsBijection
  <1>11. IsFiniteSet(A)
    <2>1. A \in SUBSET Draws(n) BY <1>7
    <2> QED BY <2>1, DrawsFinite, FS_Subset
  <1>12. Cardinality(B) = Cardinality(A) BY <1>10, <1>11, FS_Bijection
  <1> QED BY <1>12 DEF A, B

-----------------------------------------------------------------------------
(* Bytes.  The accepted ones are whole rounds of the places. *)

LEMMA DivMod ==
  ASSUME NEW b \in Nat, NEW n \in Nat, n > 0
  PROVE  b = n * (b \div n) + (b % n)
  BY SMT

LEMMA ByteParts ==
  ASSUME NEW b \in Nat, NEW n \in Sizes
  PROVE  /\ b \div n \in Nat /\ b % n \in 0 .. n - 1
         /\ b = n * (b \div n) + (b % n)
  <1>1. n \in Nat /\ n > 0 BY DEF Sizes
  <1>2. b \div n \in Nat BY <1>1
  <1>3. b % n \in Nat /\ b % n < n BY <1>1
  <1>4. b % n \in 0 .. n - 1 BY <1>1, <1>3
  <1>5. b = n * (b \div n) + (b % n) BY <1>1, DivMod
  <1> QED BY <1>2, <1>4, <1>5

LEMMA PartsAre ==
  ASSUME NEW n \in Sizes, NEW k \in Nat, NEW m \in 0 .. n - 1
  PROVE  (n * k + m) % n = m
  BY SMT DEF Sizes

LEMMA RoundsBelow ==
  ASSUME NEW n \in Sizes, NEW j \in Nat, NEW k \in Nat
  PROVE  n * j < n * k <=> j < k
  BY SMT DEF Sizes

LEMMA BytesAlike ==
  ASSUME NEW n \in Sizes, NEW p \in 1 .. n
  PROVE  Cardinality({b \in Bytes : Accepted(b, n) /\ Drawn(b, n) = p}) = 256 \div n
  <1> DEFINE S == {b \in Bytes : Accepted(b, n) /\ Drawn(b, n) = p}
  <1>1. PICK q \in Nat : q = 256 \div n BY ByteParts
  <1>2. PICK r \in 0 .. n - 1 : r = 256 % n BY ByteParts
  <1>3. 256 = n * q + r
    <2>1. PICK c \in Nat : c = 256 OBVIOUS
    <2>2. c = n * (c \div n) + (c % n) BY ByteParts
    <2> QED BY <1>1, <1>2, <2>1, <2>2
  <1> DEFINE byte(k) == n * (k - 1) + (p - 1)
             m == [k \in 1 .. q |-> byte(k)]
  <1>4. p - 1 \in 0 .. n - 1 /\ n \in Nat BY DEF Sizes
  <1>5. PICK t \in Nat : t = n * q
    <2>1. n * q \in Nat BY <1>4
    <2> QED BY <2>1
  <1>6. ASSUME NEW k \in 1 .. q PROVE byte(k) \in S
    <2>1. PICK i \in Nat : i = k - 1 OBVIOUS
    <2>2. PICK x \in Nat : x = n * i
      <3>1. n * i \in Nat BY <1>4
      <3> QED BY <3>1
    <2>3. x + n <= t
      <3>1. n * (i + 1) = x + n BY <1>4, <2>2
      <3>2. ~ (q < i + 1) BY <2>1
      <3>3. ~ (n * q < n * (i + 1)) BY <3>2, RoundsBelow
      <3>4. n \in Nat BY <1>4
      <3> QED BY <1>5, <3>1, <3>3, <3>4
    <2>4. byte(k) = x + (p - 1) BY <2>1, <2>2
    <2>5. (x + (p - 1)) % n = p - 1 BY <1>4, <2>2, PartsAre
    <2>6. 256 = t + r /\ r \in Nat BY <1>3, <1>5, <1>4
    <2>7. byte(k) \in Bytes /\ byte(k) < 256 - r
      <3> HIDE DEF byte
      <3> QED BY <1>4, <2>3, <2>4, <2>6 DEF Bytes
    <2> HIDE DEF byte
    <2> QED BY <1>2, <2>4, <2>5, <2>7 DEF Accepted, Drawn
  <1>7. ASSUME NEW j \in 1 .. q, NEW k \in 1 .. q, byte(j) = byte(k) PROVE j = k
    <2>1. PICK i \in Nat : i = j - 1 OBVIOUS
    <2>2. PICK h \in Nat : h = k - 1 OBVIOUS
    <2>3. PICK x \in Nat : x = n * i
      <3>1. n * i \in Nat BY <1>4
      <3> QED BY <3>1
    <2>4. PICK y \in Nat : y = n * h
      <3>1. n * h \in Nat BY <1>4
      <3> QED BY <3>1
    <2>5. x + (p - 1) = y + (p - 1) BY <1>7, <2>1, <2>2, <2>3, <2>4
    <2>6. x = y BY <1>4, <2>5
    <2>7. ~ (i < h) /\ ~ (h < i)
      <3>1. ~ (x < y) /\ ~ (y < x) BY <2>6
      <3> QED BY <2>3, <2>4, <3>1, RoundsBelow
    <2> QED BY <2>1, <2>2, <2>7
  <1>8. ASSUME NEW b \in S PROVE \E k \in 1 .. q : byte(k) = b
    <2>1. b \in Nat /\ b < 256 - r /\ (b % n) + 1 = p BY <1>2 DEF Bytes, Accepted, Drawn
    <2>2. PICK i \in Nat : i = b \div n BY <2>1, ByteParts
    <2>3. PICK x \in Nat : x = n * i
      <3>1. n * i \in Nat BY <1>4
      <3> QED BY <3>1
    <2>4. b % n = p - 1
      <3>1. b % n \in 0 .. n - 1 BY <2>1, ByteParts
      <3>2. PICK z \in Int : z = b % n BY <3>1
      <3> QED BY <2>1, <3>2
    <2>5. b = x + (p - 1)
      <3>1. b = n * (b \div n) + (b % n) BY <2>1, ByteParts
      <3> QED BY <2>2, <2>3, <2>4, <3>1
    <2>6. x < t
      <3>1. 256 = t + r BY <1>3, <1>5
      <3> QED BY <1>4, <2>1, <2>5, <3>1
    <2>7. i < q BY <1>5, <2>3, <2>6, RoundsBelow
    <2>8. i + 1 \in 1 .. q /\ byte(i + 1) = b BY <2>3, <2>5, <2>7
    <2> QED BY <2>8
  <1> HIDE DEF S, byte
  <1>9. m \in Bijection(1 .. q, S)
    <2>1. m \in [1 .. q -> S] BY <1>6
    <2>2. \A x, y \in 1 .. q : m[x] = m[y] => x = y BY <1>7
    <2>3. \A y \in S : \E x \in 1 .. q : m[x] = y BY <1>8
    <2>4. DOMAIN m = 1 .. q OBVIOUS
    <2> HIDE DEF m
    <2> QED BY <2>1, <2>2, <2>3, <2>4 DEF Bijection, Injection, Surjection, IsInjective
  <1>10. ExistsBijection(1 .. q, S) BY <1>9 DEF ExistsBijection
  <1>11. Cardinality(S) = q BY <1>10, FS_CountingElements
  <1> QED BY <1>1, <1>11 DEF S

-----------------------------------------------------------------------------
(* Leans. *)

LEMMA SumExchange ==
  ASSUME NEW n \in Sizes, NEW s \in Decks(n, Int), NEW i \in 1 .. n, NEW j \in 1 .. n
  PROVE  SumFunction(Exchange(s, i, j)) = SumFunction(s)
  <1>1. PICK t : t = Exchange(s, i, j) OBVIOUS
  <1>2. /\ t \in Decks(n, Int) /\ t[i] = s[j] /\ t[j] = s[i]
        /\ \A x \in 1 .. n \ {i, j} : t[x] = s[x]
    BY <1>1, ExchangeType
  <1>3. CASE i = j
    <2>1. \A x \in 1 .. n : t[x] = s[x] BY <1>2, <1>3
    <2>2. t = s BY <1>2, <2>1, SameDeck
    <2> QED BY <1>1, <2>2
  <1>4. CASE i # j
    <2> DEFINE S == 1 .. n
               R == S \ {i}
               Q == R \ {j}
               On(f, T) == [x \in T |-> f[x]]
    <2>1. IsFiniteSet(S) /\ IsFiniteSet(R) /\ j \in R /\ i \in S
      <3>1. IsFiniteSet(S) BY FS_Interval DEF Sizes
      <3>2. IsFiniteSet(R) BY <3>1, FS_Difference
      <3> QED BY <1>4, <3>1, <3>2
    <2>2. s \in [S -> Int] /\ t \in [S -> Int] BY <1>2 DEF Decks
    <2>3. On(s, Q) = On(t, Q) BY <1>2
    <2>4. ASSUME NEW f \in [S -> Int]
          PROVE  SumFunction(f) = f[i] + (f[j] + SumFunction(On(f, Q)))
      <3>1. PICK g : g = On(f, R) OBVIOUS
      <3>2. PICK h : h = On(f, Q) OBVIOUS
      <3>3. Extends(f, g, R, i) /\ Extends(g, h, Q, j) /\ g[j] = f[j]
        <4>1. R \cup {i} = S /\ Q \cup {j} = R /\ j \in R BY <2>1
        <4>2. g \in [R -> Int] /\ \A y \in R : g[y] = f[y] BY <3>1
        <4>3. h \in [Q -> Int] /\ \A y \in Q : h[y] = g[y] BY <3>1, <3>2
        <4>4. i \notin R /\ j \notin Q OBVIOUS
        <4> HIDE DEF R, Q, S, On
        <4> QED BY <4>1, <4>2, <4>3, <4>4 DEF Extends
      <3>4. IsFiniteSet(R) /\ IsFiniteSet(Q) BY <2>1, FS_Difference
      <3> HIDE DEF On, S, R, Q
      <3>5. SumFunction(f) = f[i] + SumFunction(g) BY <3>3, <3>4, SumAdd
      <3>6. SumFunction(g) = g[j] + SumFunction(h) BY <3>3, <3>4, SumAdd
      <3> QED BY <3>2, <3>3, <3>5, <3>6
    <2>5. SumFunction(On(s, Q)) \in Int
      <3>1. On(s, Q) \in [Q -> Int] BY <2>2
      <3>2. IsFiniteSet(Q) BY <2>1, FS_Difference
      <3> HIDE DEF Q, On
      <3> QED BY <3>1, <3>2, SumType
    <2>6. s[i] \in Int /\ s[j] \in Int BY <2>1, <2>2
    <2> HIDE DEF S, R, Q, On
    <2>7. PICK u \in Int : u = SumFunction(On(s, Q)) BY <2>5
    <2>8. SumFunction(s) = s[i] + (s[j] + u) BY <2>2, <2>4, <2>7
    <2>9. SumFunction(t) = s[j] + (s[i] + u) BY <1>2, <2>2, <2>3, <2>4, <2>7
    <2>10. s[i] + (s[j] + u) = s[j] + (s[i] + u) BY <2>6
    <2> QED BY <1>1, <2>8, <2>9, <2>10
  <1> QED BY <1>3, <1>4

LEMMA ShuffleSum ==
  ASSUME NEW n \in Sizes, NEW arr \in Decks(n, Int), NEW d \in Draws(n)
  PROVE  SumFunction(shuffle(arr, d)) = SumFunction(arr)
  <1>1. PICK a \in Decks(n, Decks(n, Int)) : Stages(a, arr, d, n) /\ shuffle(arr, d) = a[1]
    BY ShuffleStages
  <1> DEFINE P == {i \in 1 .. n : SumFunction(a[i]) = SumFunction(arr)}
  <1>2. n \in P BY <1>1 DEF Stages, Sizes
  <1>3. ASSUME NEW i \in 1 .. n - 1, i + 1 \in P PROVE i \in P
    <2>1. i \in 1 .. n /\ i + 1 \in 1 .. n /\ d[i + 1] \in 1 .. n BY DEF Sizes, Draws
    <2>2. PICK j \in 1 .. n : j = d[i + 1] BY <2>1
    <2>3. PICK s \in Decks(n, Int) : s = a[i + 1] BY <2>1 DEF Decks
    <2>4. a[i] = Exchange(s, i + 1, j) BY <1>1, <2>2, <2>3 DEF Stages
    <2>5. SumFunction(a[i]) = SumFunction(s) BY <2>1, <2>4, SumExchange
    <2> QED BY <1>3, <2>1, <2>3, <2>5
  <1>4. 1 .. n \subseteq P
    <2> HIDE DEF P
    <2> QED BY <1>2, <1>3, DownFrom
  <1>5. 1 \in 1 .. n BY DEF Sizes
  <1> QED BY <1>1, <1>4, <1>5

LEMMA SumOfSigns ==
  ASSUME NEW n \in Sizes, NEW h \in 0 .. n
  PROVE  SumFunction([i \in 1 .. n |-> IF i <= h THEN 1 ELSE -1]) = 2 * h - n
  <1> DEFINE Signs(k) == [i \in 1 .. k |-> IF i <= h THEN 1 ELSE -1]
             Value(k) == IF k <= h THEN k ELSE 2 * h - k
             P == {k \in 1 .. n : SumFunction(Signs(k)) = Value(k)}
  <1>1. ASSUME NEW k \in 1 .. n
        PROVE  Extends(Signs(k), Signs(k - 1), 1 .. k - 1, k) /\ IsFiniteSet(1 .. k - 1)
    <2>1. (1 .. k - 1) \cup {k} = 1 .. k /\ k \notin 1 .. k - 1 OBVIOUS
    <2>2. Signs(k) \in [1 .. k -> Int] /\ Signs(k - 1) \in [1 .. k - 1 -> Int] OBVIOUS
    <2>3. \A y \in 1 .. k - 1 : Signs(k - 1)[y] = Signs(k)[y] OBVIOUS
    <2>4. IsFiniteSet(1 .. k - 1) BY FS_Interval
    <2> HIDE DEF Signs
    <2> QED BY <2>1, <2>2, <2>3, <2>4 DEF Extends
  <1>2. ASSUME NEW k \in 1 .. n
        PROVE  SumFunction(Signs(k)) = (IF k <= h THEN 1 ELSE -1) + SumFunction(Signs(k - 1))
    <2>1. Signs(k)[k] = IF k <= h THEN 1 ELSE -1 OBVIOUS
    <2> HIDE DEF Signs
    <2>2. SumFunction(Signs(k)) = Signs(k)[k] + SumFunction(Signs(k - 1)) BY <1>1, SumAdd
    <2> QED BY <2>1, <2>2
  <1>3. 1 \in P
    <2>1. SumFunction(Signs(0)) = 0
      <3>1. Signs(0) \in [{} -> Int] OBVIOUS
      <3> HIDE DEF Signs
      <3> QED BY <3>1, SumEmpty
    <2>2. 1 \in 1 .. n BY DEF Sizes
    <2>3. SumFunction(Signs(1)) = (IF 1 <= h THEN 1 ELSE -1) + SumFunction(Signs(0))
      <3> HIDE DEF Signs
      <3>1. SumFunction(Signs(1)) = (IF 1 <= h THEN 1 ELSE -1) + SumFunction(Signs(1 - 1))
        BY <1>2, <2>2
      <3>2. 1 - 1 = 0 OBVIOUS
      <3> QED BY <3>1, <3>2
    <2>4. h \in Nat BY DEF Sizes
    <2> HIDE DEF Signs
    <2> QED BY <2>1, <2>2, <2>3, <2>4
  <1>4. ASSUME NEW k \in 1 .. n - 1, k \in P PROVE k + 1 \in P
    <2>1. k + 1 \in 1 .. n /\ h \in Nat BY DEF Sizes
    <2>2. SumFunction(Signs(k)) = Value(k) BY <1>4
    <2> HIDE DEF Signs
    <2>3. SumFunction(Signs(k + 1)) = (IF k + 1 <= h THEN 1 ELSE -1) + SumFunction(Signs((k + 1) - 1))
      BY <1>2, <2>1
    <2>4. (k + 1) - 1 = k OBVIOUS
    <2>5. SumFunction(Signs(k + 1)) = (IF k + 1 <= h THEN 1 ELSE -1) + Value(k)
      BY <2>2, <2>3, <2>4
    <2>6. (IF k + 1 <= h THEN 1 ELSE -1) + Value(k) = Value(k + 1) BY <2>1
    <2> HIDE DEF Value
    <2> QED BY <2>1, <2>5, <2>6
  <1>5. 1 .. n \subseteq P
    <2> HIDE DEF P
    <2> QED BY <1>3, <1>4, UpTo
  <1>6. n \in 1 .. n /\ h \in Nat /\ n \in Nat /\ h <= n BY DEF Sizes
  <1>7. SumFunction(Signs(n)) = Value(n)
    <2> HIDE DEF Signs, Value
    <2> QED BY <1>5, <1>6
  <1>8. Value(n) = 2 * h - n BY <1>6
  <1> QED BY <1>7, <1>8

LEMMA LeanIs ==
  ASSUME NEW n \in Sizes, NEW byte \in Bytes, NEW d \in Draws(n)
  PROVE  SumFunction(allocateSignBalance(n, byte, d)) =
           IF n % 2 = 0 THEN 0 ELSE IF byte < 128 THEN 1 ELSE -1
  <1> DEFINE h == n \div 2 + (IF n % 2 = 1 /\ byte < 128 THEN 1 ELSE 0)
  <1>1. n \in Nat /\ n > 0 BY DEF Sizes
  <1>2. h \in 0 .. n /\ n % 2 \in {0, 1} /\ n = 2 * (n \div 2) + (n % 2) BY <1>1
  <1>3. 2 * h - n = IF n % 2 = 0 THEN 0 ELSE IF byte < 128 THEN 1 ELSE -1 BY <1>1, <1>2
  <1>4. signBase(n, byte) = [i \in 1 .. n |-> IF i <= h THEN 1 ELSE -1] BY DEF signBase
  <1> HIDE DEF h
  <1>5. signBase(n, byte) \in Decks(n, Int) BY <1>4 DEF Decks
  <1>6. SumFunction(allocateSignBalance(n, byte, d)) = SumFunction(signBase(n, byte))
    BY <1>5, ShuffleSum DEF allocateSignBalance
  <1>7. SumFunction(signBase(n, byte)) = 2 * h - n
    <2>1. SumFunction([i \in 1 .. n |-> IF i <= h THEN 1 ELSE -1]) = 2 * h - n
      BY <1>2, SumOfSigns
    <2> QED BY <1>4, <2>1
  <1> QED BY <1>3, <1>6, <1>7

LEMMA ZonesType ==
  ASSUME NEW n \in Sizes
  PROVE  zoneBase(n) \in Decks(n, {"close", "mid", "edge"})
  <1> DEFINE V == {"close", "mid", "edge"}
             five == <<"close", "close", "mid", "mid", "edge">>
  <1>1. CASE n \in {1, 2, 3, 4} BY <1>1 DEF zoneBase, Decks
  <1>2. CASE n \notin {1, 2, 3, 4}
    <2>1. zoneBase(n) = [i \in 1 .. n |-> five[((i - 1) % 5) + 1]] BY <1>2 DEF zoneBase
    <2>2. \A i \in 1 .. n : ((i - 1) % 5) + 1 \in 1 .. 5 BY DEF Sizes
    <2>3. \A k \in 1 .. 5 : five[k] \in V OBVIOUS
    <2> HIDE DEF five, V
    <2>4. zoneBase(n) \in Decks(n, V) BY <2>1, <2>2, <2>3 DEF Decks
    <2> QED BY <2>4 DEF V
  <1> QED BY <1>1, <1>2

\* The shuffle of deckmaster.ts is fair for decks of every size: its exchanges
\* make each order from exactly one draw, the bytes it accepts draw each place
\* equally often, zones do not depend on the place, and leans balance.
THEOREM DeckFairAtAnySize == ASSUME NEW n \in Sizes PROVE FairAt(n)
  <1> DEFINE orders == {shuffle([i \in 1 .. n |-> i], d) : d \in Draws(n)}
             Picks(p) == {b \in Bytes : Accepted(b, n) /\ Drawn(b, n) = p}
             Edges(p) == {d \in Draws(n) : allocateZones(n, d)[p] = "edge"}
             Lean(byte, d) == SumFunction(allocateSignBalance(n, byte, d))
  <1>1. orders = Orders(n) /\ Cardinality(orders) = Cardinality(Draws(n))
    <2>1. orders = {Order(n, d) : d \in Draws(n)} BY DEF Order, InPlace
    <2> QED BY <2>1, OrdersDrawn
  <1>2. \A p \in 1 .. n : Cardinality(Picks(p)) = 256 \div n BY BytesAlike
  <1>3. ASSUME NEW p \in 1 .. n PROVE Cardinality(Edges(p)) = Cardinality(Edges(1))
    <2>1. \A q \in 1 .. n : Edges(q) = DrawsPutting(n, zoneBase(n), q, "edge")
      BY DEF DrawsPutting, allocateZones
    <2>2. 1 \in 1 .. n BY DEF Sizes
    <2> HIDE DEF Edges
    <2> QED BY <2>1, <2>2, ZonesType, PlacesAlike
  <1>4. ASSUME NEW d \in Draws(n), NEW byte \in Bytes
        PROVE  Lean(byte, d) \in -1 .. 1 /\ Lean(255 - byte, d) = -Lean(byte, d)
    <2>1. 255 - byte \in Bytes /\ (255 - byte < 128 <=> ~ (byte < 128)) BY DEF Bytes
    <2>2. Lean(byte, d) = IF n % 2 = 0 THEN 0 ELSE IF byte < 128 THEN 1 ELSE -1 BY LeanIs
    <2>3. Lean(255 - byte, d) = IF n % 2 = 0 THEN 0 ELSE IF 255 - byte < 128 THEN 1 ELSE -1
      BY <2>1, LeanIs
    <2> HIDE DEF Lean
    <2> QED BY <2>1, <2>2, <2>3
  <1> HIDE DEF orders, Picks, Edges, Lean
  <1>5. /\ orders = Orders(n)
        /\ Cardinality(orders) = Cardinality(Draws(n))
        /\ \A p \in 1 .. n : /\ Cardinality(Picks(p)) = 256 \div n
                             /\ Cardinality(Edges(p)) = Cardinality(Edges(1))
        /\ \A d \in Draws(n), byte \in Bytes :
             Lean(byte, d) \in -1 .. 1 /\ Lean(255 - byte, d) = -Lean(byte, d)
    BY <1>1, <1>2, <1>3, <1>4
  <1> QED BY <1>5 DEF FairAt, orders, Picks, Edges, Lean, Orders

\* The deck a match waits for is dealt by a fair shuffle (deckmaster.ts).
THEOREM ShufflesAreFair == Spec => []ShuffleIsFair
  <1>1. \A size \in 1 .. 5 : size \in Sizes BY DEF Sizes
  <1>2. ShufflesFair BY <1>1, DeckFairAtAnySize DEF ShufflesFair
  <1>3. ShuffleIsFair BY <1>2 DEF ShuffleIsFair
  <1> QED BY <1>3, PTL

-----------------------------------------------------------------------------
(* Strikes. *)

Near(r, a) == a * ((r + (a \div 2)) \div a)

LEMMA QuotientsBelow ==
  ASSUME NEW a \in Sizes, NEW x \in Nat, NEW y \in Nat
  PROVE  /\ x <= y => x \div a <= y \div a
         /\ x + a <= y => x \div a < y \div a
  <1>1. a \in Nat /\ a > 0 BY DEF Sizes
  <1>2. PICK q \in Nat : q = x \div a BY ByteParts
  <1>3. PICK p \in Nat : p = y \div a BY ByteParts
  <1>4. PICK u \in Nat : u = a * q
    <2>1. a * q \in Nat BY <1>1
    <2> QED BY <2>1
  <1>5. PICK v \in Nat : v = a * p
    <2>1. a * p \in Nat BY <1>1
    <2> QED BY <2>1
  <1>6. u <= x /\ x < u + a
    <2>1. x = a * (x \div a) + (x % a) /\ x % a \in 0 .. a - 1 BY ByteParts
    <2>2. PICK m \in 0 .. a - 1 : m = x % a BY <2>1
    <2>3. x = u + m BY <1>2, <1>4, <2>1, <2>2
    <2> QED BY <1>1, <2>2, <2>3
  <1>7. v <= y /\ y < v + a
    <2>1. y = a * (y \div a) + (y % a) /\ y % a \in 0 .. a - 1 BY ByteParts
    <2>2. PICK m \in 0 .. a - 1 : m = y % a BY <2>1
    <2>3. y = v + m BY <1>3, <1>5, <2>1, <2>2
    <2> QED BY <1>1, <2>2, <2>3
  <1>8. a * (p + 1) = v + a BY <1>1, <1>5
  <1>9. x <= y => q < p + 1
    <2>1. x <= y => u < v + a BY <1>1, <1>6, <1>7
    <2> QED BY <1>4, <1>8, <2>1, RoundsBelow
  <1>10. x + a <= y => q + 1 < p + 1
    <2>1. a * (q + 1) = u + a BY <1>1, <1>4
    <2>2. x + a <= y => u + a < v + a BY <1>1, <1>6, <1>7
    <2>3. p + 1 \in Nat /\ q + 1 \in Nat OBVIOUS
    <2>4. a * (q + 1) < a * (p + 1) <=> q + 1 < p + 1 BY <2>3, RoundsBelow
    <2> QED BY <1>8, <2>1, <2>2, <2>4
  <1> QED BY <1>2, <1>3, <1>9, <1>10

LEMMA NearIs ==
  ASSUME NEW a \in Sizes, NEW x \in Nat, NEW y \in Nat
  PROVE  /\ Near(x, a) \in Nat /\ Near(x, a) % a = 0
         /\ x <= y => Near(x, a) <= Near(y, a)
         /\ x + a <= y => Near(x, a) < Near(y, a)
  <1>1. a \in Nat /\ a > 0 BY DEF Sizes
  <1>2. PICK h \in Nat : h = a \div 2 BY <1>1
  <1>3. PICK q \in Nat : q = (x + h) \div a
    <2>1. x + h \in Nat OBVIOUS
    <2> QED BY <2>1, ByteParts
  <1>4. PICK p \in Nat : p = (y + h) \div a
    <2>1. y + h \in Nat OBVIOUS
    <2> QED BY <2>1, ByteParts
  <1>5. Near(x, a) = a * q /\ Near(y, a) = a * p BY <1>2, <1>3, <1>4 DEF Near
  <1>6. a * q \in Nat /\ a * p \in Nat BY <1>1
  <1>7. (a * q) % a = 0
    <2>1. 0 \in 0 .. a - 1 BY <1>1
    <2>2. (a * q + 0) % a = 0 BY <2>1, PartsAre
    <2>3. a * q + 0 = a * q BY <1>6
    <2> QED BY <2>2, <2>3
  <1>8. x <= y => ~ (p < q)
    <2>1. x + h \in Nat /\ y + h \in Nat /\ (x <= y => x + h <= y + h) OBVIOUS
    <2>2. x + h <= y + h => (x + h) \div a <= (y + h) \div a BY <2>1, QuotientsBelow
    <2> QED BY <1>3, <1>4, <2>1, <2>2
  <1>9. x + a <= y => q < p
    <2>1. x + h \in Nat /\ y + h \in Nat /\ (x + a <= y => (x + h) + a <= y + h) BY <1>1
    <2>2. (x + h) + a <= y + h => (x + h) \div a < (y + h) \div a BY <2>1, QuotientsBelow
    <2> QED BY <1>3, <1>4, <2>1, <2>2
  <1>10. (a * q < a * p <=> q < p) /\ (a * p < a * q <=> p < q) BY RoundsBelow
  <1>11. x <= y => ~ (a * p < a * q) BY <1>8, <1>10
  <1> QED BY <1>5, <1>6, <1>7, <1>9, <1>10, <1>11

\* A market whose grid is of whole ticks.
Gridded(m) == m.tick \in Sizes /\ m.admission \in Sizes /\ m.admission % m.tick = 0

LEMMA Regroup ==
  ASSUME NEW q \in Nat, NEW t \in Nat, NEW c \in Nat
  PROVE  (t * c) * q = t * (c * q)
  BY SMT

LEMMA DivExact ==
  ASSUME NEW t \in Sizes, NEW x \in Nat
  PROVE  (t * x) \div t = x
  BY SMT DEF Sizes

LEMMA StrikeIs ==
  ASSUME NEW m, Gridded(m), NEW r \in Nat
  PROVE  Strike(m, r) = [market |-> m.id, strike |-> Near(r, m.admission)]
  <1>1. PICK a \in Sizes : a = m.admission BY DEF Gridded
  <1>2. PICK t \in Sizes : t = m.tick BY DEF Gridded
  <1>3. a \in Nat /\ a > 0 /\ t \in Nat BY DEF Sizes
  <1>4. PICK h \in Nat : h = a \div 2 BY <1>3
  <1>5. PICK q \in Nat : q = (r + h) \div a
    <2>1. r + h \in Nat OBVIOUS
    <2> QED BY <2>1, ByteParts
  <1>6. PICK c \in Nat : a = t * c
    <2>1. a = t * (a \div t) + (a % t) /\ a \div t \in Nat BY <1>3, ByteParts
    <2>2. a % t = 0 BY <1>1, <1>2 DEF Gridded
    <2>3. PICK c \in Nat : c = a \div t BY <2>1
    <2>4. t * c \in Nat BY <1>3
    <2>5. a = t * c + 0 BY <2>1, <2>2, <2>3
    <2>6. a = t * c BY <2>4, <2>5
    <2> QED BY <2>6
  <1>7. PICK w \in Nat : w = c * q
    <2>1. c * q \in Nat OBVIOUS
    <2> QED BY <2>1
  <1>8. a * q = t * w BY <1>3, <1>6, <1>7, Regroup
  <1>9. q * a = a * q BY <1>3
  <1>10. snapToAdmissionTick(r, t, a) = (q * a) \div t
    BY <1>3, <1>4, <1>5 DEF snapToAdmissionTick
  <1>11. (t * w) \div t = w BY DivExact
  <1>12. snapToAdmissionTick(r, t, a) * t = a * q
    <2>1. snapToAdmissionTick(r, t, a) = w BY <1>8, <1>9, <1>10, <1>11
    <2>2. w * t = t * w BY <1>3
    <2> QED BY <1>8, <2>1, <2>2
  <1>13. Near(r, a) = a * q BY <1>4, <1>5 DEF Near
  <1> QED BY <1>1, <1>2, <1>12, <1>13 DEF Strike

-----------------------------------------------------------------------------
(* The rungs of a card are an admission cell or more apart, all on its     *)
(* side of the price.                                                      *)

\* A card with a zone needs cells finer than two basis points of the price; a
\* quoted one that leans up, ten cells below it.
Fits(m, spot, card) ==
  /\ card.sign \in {-1, 1}
  /\ \/ /\ "zone" \in DOMAIN card
        /\ card.zone \in {"close", "mid", "edge"}
        /\ 5000 * m.admission <= spot
     \/ /\ "zone" \notin DOMAIN card
        /\ card.away \in Nat
        /\ card.sign = -1 => card.away + 10 * m.admission < spot

Spread(r, K, spot, sign, a) ==
  /\ r \in [1 .. K -> Nat]
  /\ \A k \in 1 .. K : IF sign = 1 THEN spot <= r[k] ELSE r[k] <= spot
  /\ \A k, l \in 1 .. K : k < l => IF sign = 1 THEN r[k] + a <= r[l] ELSE r[l] + a <= r[k]

LEMMA Steps ==
  ASSUME NEW s \in Nat, NEW u \in Nat, NEW w \in Nat, u + 2 <= w
  PROVE  s * u + 2 * s <= s * w
  <1>1. PICK z \in Nat : w = u + 2 + z
    <2>1. w - u - 2 \in Nat /\ w = u + 2 + (w - u - 2) OBVIOUS
    <2> QED BY <2>1
  <1>2. s * w = s * u + 2 * s + s * z BY <1>1
  <1>3. s * z \in Nat /\ s * u \in Nat OBVIOUS
  <1> QED BY <1>2, <1>3

LEMMA PriceSpread ==
  ASSUME NEW spot \in Nat, NEW sign \in {-1, 1}, NEW zone \in {"close", "mid", "edge"},
         NEW a \in Sizes, 5000 * a <= spot
  PROVE  Spread(priceRungs(spot, sign, zone), 5, spot, sign, a)
  <1>1. PICK b \in {2, 4, 6} : b = ZoneOffsetBps[zone] BY DEF ZoneOffsetBps
  <1>2. a \in Nat BY DEF Sizes
  <1> DEFINE bps(k) == b + 2 * (k - 1)
             off(k) == (spot * bps(k)) \div 10000
             r == [k \in 1 .. 5 |-> spot + sign * off(k)]
  <1>3. priceRungs(spot, sign, zone) = r BY <1>1 DEF priceRungs
  <1>4. ASSUME NEW k \in 1 .. 5 PROVE off(k) \in Nat /\ off(k) <= spot
    <2>1. PICK u \in 0 .. 14 : u = bps(k) OBVIOUS
    <2>2. PICK x \in Nat : x = spot * u
      <3>1. spot * u \in Nat OBVIOUS
      <3> QED BY <3>1
    <2>3. x + 2 * spot <= spot * 16
      <3>1. u + 2 <= 16 /\ u \in Nat /\ 16 \in Nat OBVIOUS
      <3> QED BY <2>2, <3>1, Steps
    <2>4. x \div 10000 \in Nat /\ x \div 10000 <= spot BY <2>3
    <2> QED BY <2>1, <2>2, <2>4
  <1>5. ASSUME NEW k \in 1 .. 5, NEW l \in 1 .. 5, k < l PROVE off(k) + a <= off(l)
    <2>1. PICK u \in Nat : u = bps(k) OBVIOUS
    <2>2. PICK w \in Nat : w = bps(l) OBVIOUS
    <2>3. u + 2 <= w BY <1>5, <2>1, <2>2
    <2>4. PICK x \in Nat : x = spot * u
      <3>1. spot * u \in Nat OBVIOUS
      <3> QED BY <3>1
    <2>5. PICK y \in Nat : y = spot * w
      <3>1. spot * w \in Nat OBVIOUS
      <3> QED BY <3>1
    <2>6. x + 2 * spot <= y BY <2>3, <2>4, <2>5, Steps
    <2>7. x + 10000 * a <= y BY <1>2, <2>6
    <2>8. x \div 10000 + a <= y \div 10000 BY <1>2, <2>7
    <2> QED BY <2>1, <2>2, <2>4, <2>5, <2>8
  <1> HIDE DEF off
  <1>6. ASSUME NEW k \in 1 .. 5
        PROVE  r[k] = IF sign = 1 THEN spot + off(k) ELSE spot - off(k)
    <2>1. PICK x \in Nat : x = off(k) BY <1>4
    <2>2. r[k] = spot + sign * x BY <2>1
    <2>3. sign = -1 => spot + sign * x = spot - x OBVIOUS
    <2>4. sign = 1 => spot + sign * x = spot + x OBVIOUS
    <2> HIDE DEF r
    <2> QED BY <2>1, <2>2, <2>3, <2>4
  <1>7. \A k \in 1 .. 5 : r[k] \in Nat /\ (IF sign = 1 THEN spot <= r[k] ELSE r[k] <= spot)
    BY <1>4, <1>6
  <1>8. ASSUME NEW k \in 1 .. 5, NEW l \in 1 .. 5, k < l
        PROVE  IF sign = 1 THEN r[k] + a <= r[l] ELSE r[l] + a <= r[k]
    <2>1. off(k) \in Nat /\ off(l) \in Nat /\ off(k) + a <= off(l) BY <1>4, <1>5, <1>8
    <2>2. /\ r[k] = IF sign = 1 THEN spot + off(k) ELSE spot - off(k)
          /\ r[l] = IF sign = 1 THEN spot + off(l) ELSE spot - off(l)
      BY <1>6
    <2> HIDE DEF r
    <2> QED BY <1>2, <2>1, <2>2
  <1>9. r \in [1 .. 5 -> Nat] BY <1>7
  <1> HIDE DEF r
  <1> QED BY <1>3, <1>7, <1>8, <1>9 DEF Spread

LEMMA QuotedSpread ==
  ASSUME NEW spot \in Nat, NEW sign \in {-1, 1}, NEW away \in Nat, NEW a \in Sizes,
         sign = -1 => away + 10 * a < spot
  PROVE  Spread(sviRungs(spot + sign * away, sign, a), 11, spot, sign, a)
  <1>1. a \in Nat BY DEF Sizes
  <1>2. PICK raw \in Nat : raw = spot + sign * away /\ raw = IF sign = 1 THEN spot + away ELSE spot - away
    <2>1. CASE sign = 1 BY <2>1
    <2>2. CASE sign = -1 BY <1>1, <2>2
    <2> QED BY <2>1, <2>2
  <1> DEFINE bump(k) == (k - 1) * a
             r == sviRungs(raw, sign, a)
  <1>3. ASSUME NEW k \in 1 .. 11 PROVE bump(k) \in Nat /\ bump(k) <= 10 * a
    <2>1. PICK i \in 0 .. 10 : i = k - 1 OBVIOUS
    <2>2. PICK z \in Nat : i + z = 10
      <3>1. 10 - i \in Nat /\ i + (10 - i) = 10 OBVIOUS
      <3> QED BY <3>1
    <2>3. i * a \in Nat /\ z * a \in Nat /\ i * a + z * a = (i + z) * a BY <1>1
    <2>4. i * a \in Nat /\ i * a <= 10 * a BY <1>1, <2>2, <2>3
    <2> QED BY <2>1, <2>4
  <1>4. ASSUME NEW k \in 1 .. 11, NEW l \in 1 .. 11, k < l PROVE bump(k) + a <= bump(l)
    <2>1. PICK i \in Nat : i = k - 1 OBVIOUS
    <2>2. PICK z \in Nat : l - 1 = i + 1 + z
      <3>1. l - k - 1 \in Nat /\ l - 1 = i + 1 + (l - k - 1) BY <1>4, <2>1
      <3> QED BY <3>1
    <2>3. (i + 1 + z) * a = i * a + a + z * a /\ z * a \in Nat /\ i * a \in Nat BY <1>1
    <2>4. i * a + a <= (i + 1 + z) * a BY <1>1, <2>3
    <2> QED BY <2>1, <2>2, <2>4
  <1> HIDE DEF bump
  <1>5. \A k \in 1 .. 11 : r[k] = IF sign = 1 THEN raw + bump(k) ELSE raw - bump(k)
    <2>1. \A k \in 1 .. 11 : r[k] = IF sign > 0 THEN raw + bump(k)
                                    ELSE IF raw > bump(k) THEN raw - bump(k) ELSE 0
      BY DEF sviRungs, bump
    <2>2. sign = -1 => 10 * a < raw BY <1>1, <1>2
    <2>3. \A k \in 1 .. 11 : sign = -1 => raw > bump(k) BY <1>1, <1>3, <2>2
    <2>4. sign > 0 <=> sign = 1 OBVIOUS
    <2> HIDE DEF r
    <2> QED BY <2>1, <2>3, <2>4
  <1>6. DOMAIN r = 1 .. 11 /\ r = [k \in 1 .. 11 |-> r[k]] BY DEF sviRungs
  <1>7. ASSUME NEW k \in 1 .. 11
        PROVE  r[k] \in Nat /\ (IF sign = 1 THEN spot <= r[k] ELSE r[k] <= spot)
    <2>1. r[k] = IF sign = 1 THEN raw + bump(k) ELSE raw - bump(k) BY <1>5
    <2>2. bump(k) \in Nat /\ bump(k) <= 10 * a BY <1>3
    <2> HIDE DEF r
    <2> QED BY <1>1, <1>2, <2>1, <2>2
  <1>8. ASSUME NEW k \in 1 .. 11, NEW l \in 1 .. 11, k < l
        PROVE  IF sign = 1 THEN r[k] + a <= r[l] ELSE r[l] + a <= r[k]
    <2>1. bump(k) \in Nat /\ bump(l) \in Nat /\ bump(k) + a <= bump(l) BY <1>3, <1>4, <1>8
    <2>2. /\ r[k] = IF sign = 1 THEN raw + bump(k) ELSE raw - bump(k)
          /\ r[l] = IF sign = 1 THEN raw + bump(l) ELSE raw - bump(l)
      BY <1>5
    <2> HIDE DEF r
    <2> QED BY <1>1, <2>1, <2>2
  <1>9. r \in [1 .. 11 -> Nat]
    <2> HIDE DEF r
    <2> QED BY <1>6, <1>7
  <1> HIDE DEF r
  <1>10. Spread(r, 11, spot, sign, a) BY <1>7, <1>8, <1>9 DEF Spread
  <1> QED BY <1>2, <1>10 DEF r

LEMMA RungsSpread ==
  ASSUME NEW m, Gridded(m), NEW spot \in Nat, NEW card, Fits(m, spot, card)
  PROVE  \E K \in {5, 11} : Spread(Rungs(m, spot, card), K, spot, card.sign, m.admission)
  <1>1. m.admission \in Sizes /\ card.sign \in {-1, 1} BY DEF Gridded, Fits
  <1>2. CASE "zone" \in DOMAIN card
    <2>1. card.zone \in {"close", "mid", "edge"} /\ 5000 * m.admission <= spot
      BY <1>2 DEF Fits
    <2>2. Spread(priceRungs(spot, card.sign, card.zone), 5, spot, card.sign, m.admission)
      BY <1>1, <2>1, PriceSpread
    <2> QED BY <1>2, <2>2 DEF Rungs
  <1>3. CASE "zone" \notin DOMAIN card
    <2>1. card.away \in Nat /\ (card.sign = -1 => card.away + 10 * m.admission < spot)
      BY <1>3 DEF Fits
    <2>2. Spread(sviRungs(spot + card.sign * card.away, card.sign, m.admission), 11,
                 spot, card.sign, m.admission)
      BY <1>1, <2>1, QuotedSpread
    <2> QED BY <1>3, <2>2 DEF Rungs
  <1> QED BY <1>2, <1>3

-----------------------------------------------------------------------------
(* A card with more rungs than there are cards before it has a free one. *)

LEMMA FewCards ==
  ASSUME NEW s, NEW U, s \in Seq(U)
  PROVE  IsFiniteSet(ToSet(s)) /\ Cardinality(ToSet(s)) <= Len(s)
  <1>1. PICK n \in Nat : n = Len(s) OBVIOUS
  <1>2. DOMAIN s = 1 .. n BY <1>1
  <1> DEFINE m == [i \in 1 .. n |-> s[i]]
  <1>3. m \in Surjection(1 .. n, ToSet(s)) BY <1>2 DEF Surjection, ToSet
  <1>4. IsFiniteSet(1 .. n) /\ Cardinality(1 .. n) = n
    <2>1. IsFiniteSet(1 .. n) /\ Cardinality(1 .. n) = IF 1 > n THEN 0 ELSE n - 1 + 1
      BY FS_Interval
    <2> QED BY <2>1
  <1> HIDE DEF m
  <1> QED BY <1>1, <1>3, <1>4, FS_Surjection

LEMMA LeastOf ==
  ASSUME NEW K \in Nat, NEW free \in SUBSET (1 .. K), free # {}
  PROVE  Min(free) \in free /\ \A k \in free : Min(free) <= k
  <1>1. free \in SUBSET Nat OBVIOUS
  <1>2. \E x \in free : \A y \in free : x <= y BY <1>1, NatLeast
  <1> QED BY <1>2 DEF Min

LEMMA FreeRung ==
  ASSUME NEW m, Gridded(m), NEW K \in Nat, NEW r, NEW spot \in Nat, NEW sign \in {-1, 1},
         Spread(r, K, spot, sign, m.admission),
         NEW U, NEW cards \in Seq(U), Len(cards) < K
  PROVE  \E k \in 1 .. K : /\ placed(m, r, cards) = Strike(m, r[k])
                           /\ Strike(m, r[k]) \notin ToSet(cards)
  <1>1. r \in [1 .. K -> Nat] BY DEF Spread
  <1> DEFINE D == 1 .. K
             T == ToSet(cards)
             f == [k \in D |-> Strike(m, r[k])]
             free == {k \in DOMAIN r : Strike(m, r[k]) \notin T}
  <1>2. DOMAIN r = D BY <1>1
  <1>3. PICK a \in Sizes : a = m.admission BY DEF Gridded
  <1>4. ASSUME NEW k \in D, NEW l \in D, k < l PROVE Strike(m, r[k]) # Strike(m, r[l])
    <2>1. PICK x \in Nat : x = r[k] BY <1>1
    <2>2. PICK y \in Nat : y = r[l] BY <1>1
    <2>3. x + a <= y \/ y + a <= x BY <1>3, <1>4, <2>1, <2>2 DEF Spread
    <2>4. Near(x, a) # Near(y, a)
      <3>1. Near(x, a) \in Nat /\ Near(y, a) \in Nat BY NearIs
      <3>2. x + a <= y => Near(x, a) < Near(y, a) BY NearIs
      <3>3. y + a <= x => Near(y, a) < Near(x, a) BY NearIs
      <3> QED BY <2>3, <3>1, <3>2, <3>3
    <2>5. Strike(m, x) = [market |-> m.id, strike |-> Near(x, a)] BY <1>3, StrikeIs
    <2>6. Strike(m, y) = [market |-> m.id, strike |-> Near(y, a)] BY <1>3, StrikeIs
    <2> QED BY <2>1, <2>2, <2>4, <2>5, <2>6
  <1>5. free # {}
    <2> SUFFICES ASSUME free = {} PROVE FALSE OBVIOUS
    <2>1. f \in [D -> T] BY <1>2
    <2>2. IsFiniteSet(T) /\ Cardinality(T) <= Len(cards) BY FewCards
    <2>3. IsFiniteSet(D) /\ Cardinality(D) = K
      <3>1. IsFiniteSet(1 .. K) /\ Cardinality(1 .. K) = IF 1 > K THEN 0 ELSE K - 1 + 1
        BY FS_Interval
      <3> QED BY <3>1
    <2>4. Cardinality(T) < Cardinality(D)
      <3>1. Cardinality(T) \in Nat BY <2>2, FS_CardinalityType
      <3>2. Len(cards) \in Nat OBVIOUS
      <3> HIDE DEF T, D
      <3> QED BY <2>2, <2>3, <3>1, <3>2
    <2>5. \E x, y \in D : x # y /\ f[x] = f[y]
      <3> HIDE DEF D, T, f
      <3> QED BY <2>1, <2>2, <2>3, <2>4, FS_PigeonHole
    <2>6. PICK x \in D, y \in D : x # y /\ f[x] = f[y] BY <2>5
    <2>7. x < y \/ y < x BY <2>6
    <2>8. Strike(m, r[x]) = Strike(m, r[y]) BY <2>6
    <2> HIDE DEF D
    <2> QED BY <1>4, <2>6, <2>7, <2>8
  <1>6. Min(free) \in free
    <2>1. free \in SUBSET (1 .. K) BY <1>2
    <2> HIDE DEF free
    <2> QED BY <1>5, <2>1, LeastOf
  <1>7. placed(m, r, cards) = Strike(m, r[IF free = {} THEN Len(r) ELSE Min(free)])
    BY DEF placed
  <1>8. Min(free) \in D /\ Strike(m, r[Min(free)]) \notin T BY <1>2, <1>6
  <1> HIDE DEF free
  <1> QED BY <1>5, <1>7, <1>8

\* And when none is free it stands on the last.
LEMMA SomeRung ==
  ASSUME NEW m, NEW K \in {5, 11}, NEW r, NEW spot, NEW sign, NEW a, Spread(r, K, spot, sign, a),
         NEW cards
  PROVE  \E k \in 1 .. K : placed(m, r, cards) = Strike(m, r[k])
  <1>0. r \in [1 .. K -> Nat] BY DEF Spread
  <1> DEFINE free == {k \in DOMAIN r : Strike(m, r[k]) \notin ToSet(cards)}
  <1>1. placed(m, r, cards) = Strike(m, r[IF free = {} THEN Len(r) ELSE Min(free)])
    BY DEF placed
  <1>2. free \in SUBSET (1 .. K) BY <1>0
  <1>3. Len(r) = K /\ K \in Nat /\ K \in 1 .. K
    <2>1. K \in Nat /\ K \in 1 .. K OBVIOUS
    <2>2. Len(r) = K BY <1>0, <2>1
    <2> QED BY <2>1, <2>2
  <1> HIDE DEF free
  <1>4. free # {} => Min(free) \in 1 .. K BY <1>2, <1>3, LeastOf
  <1> QED BY <1>1, <1>3, <1>4

-----------------------------------------------------------------------------
(* Decks. *)

\* A card is on its market's grid and on its side of the price.
Good(c, m, spot, sign) ==
  /\ c.market = m.id /\ c.strike % m.admission = 0
  /\ ~ (sign * (c.strike - Strike(m, spot).strike) < 0)

LEMMA RungGood ==
  ASSUME NEW m, Gridded(m), NEW K \in Nat, NEW r, NEW spot \in Nat, NEW sign \in {-1, 1},
         Spread(r, K, spot, sign, m.admission), NEW k \in 1 .. K
  PROVE  /\ Good(Strike(m, r[k]), m, spot, sign)
         /\ \E x \in Nat : Strike(m, r[k]) = [market |-> m.id, strike |-> x]
  <1>1. PICK a \in Sizes : a = m.admission BY DEF Gridded
  <1>2. PICK x \in Nat : x = r[k] BY DEF Spread
  <1>3. IF sign = 1 THEN spot <= x ELSE x <= spot BY <1>2 DEF Spread
  <1>4. PICK u \in Nat : u = Near(x, a) BY NearIs
  <1>5. PICK w \in Nat : w = Near(spot, a) BY NearIs
  <1>6. u % a = 0 BY <1>4, NearIs
  <1>7. IF sign = 1 THEN w <= u ELSE u <= w BY <1>3, <1>4, <1>5, NearIs
  <1>8. ~ (sign * (u - w) < 0)
    <2>1. CASE sign = 1 BY <1>7, <2>1
    <2>2. CASE sign = -1 BY <1>7, <2>2
    <2> QED BY <2>1, <2>2
  <1>9. Strike(m, r[k]) = [market |-> m.id, strike |-> u] BY <1>1, <1>2, <1>4, StrikeIs
  <1>10. Strike(m, spot) = [market |-> m.id, strike |-> w] BY <1>1, <1>5, StrikeIs
  <1> QED BY <1>1, <1>6, <1>8, <1>9, <1>10 DEF Good

\* A deck that can be dealt: of up to five cards, on some markets.
Dealable(ms, spot, cards, n) ==
  /\ n \in 0 .. 5 /\ DOMAIN cards = 1 .. n
  /\ Len(ms) \in Sizes
  /\ \A i \in 1 .. n : Gridded(MarketOf(ms, i)) /\ Fits(MarketOf(ms, i), spot, cards[i])

RungsFor(ms, spot, cards) == [i \in DOMAIN cards |-> Rungs(MarketOf(ms, i), spot, cards[i])]
AnyCard(ms, n) == {[market |-> MarketOf(ms, i).id, strike |-> x] : i \in 1 .. n, x \in Nat}

Dealt(s, i, ms, spot, cards) ==
  /\ Len(s) = i
  /\ \A j, k \in 1 .. i : s[j] = s[k] => j = k
  /\ \A j \in 1 .. i : Good(s[j], MarketOf(ms, j), spot, cards[j].sign)

\* The next card is a good one that the deck does not have.
LEMMA NextCard ==
  ASSUME NEW ms, NEW spot \in Nat, NEW cards, NEW n, Dealable(ms, spot, cards, n),
         NEW i \in 1 .. n, NEW s \in Seq(AnyCard(ms, n))
  PROVE  LET c == placed(MarketOf(ms, i), RungsFor(ms, spot, cards)[i], s)
         IN  /\ c \in AnyCard(ms, n)
             /\ Len(s) = i - 1 => c \notin ToSet(s) /\ Good(c, MarketOf(ms, i), spot, cards[i].sign)
  <1> DEFINE r == RungsFor(ms, spot, cards)[i]
             c == placed(MarketOf(ms, i), r, s)
  <1>1. PICK m : m = MarketOf(ms, i) OBVIOUS
  <1>2. Gridded(m) /\ Fits(m, spot, cards[i]) BY <1>1 DEF Dealable
  <1>3. r = Rungs(m, spot, cards[i]) BY <1>1 DEF RungsFor, Dealable
  <1>4. cards[i].sign \in {-1, 1} BY <1>2 DEF Fits
  <1> HIDE DEF r
  <1>5. PICK K \in {5, 11} : Spread(r, K, spot, cards[i].sign, m.admission)
    BY <1>2, <1>3, RungsSpread
  <1>6. K \in Nat OBVIOUS
  <1> HIDE DEF c
  <1>7. c \in AnyCard(ms, n)
    <2>1. PICK sign \in {-1, 1} : sign = cards[i].sign BY <1>4
    <2>2. PICK a : a = m.admission OBVIOUS
    <2>3. Spread(r, K, spot, sign, a) BY <1>5, <2>1, <2>2
    <2>4. \E k \in 1 .. K : placed(m, r, s) = Strike(m, r[k]) BY <2>3, SomeRung, SMTT(30)
    <2>5. PICK k \in 1 .. K : placed(m, r, s) = Strike(m, r[k]) BY <2>4
    <2>6. \E x \in Nat : Strike(m, r[k]) = [market |-> m.id, strike |-> x]
      BY <1>2, <1>6, <2>2, <2>3, RungGood
    <2>7. PICK x \in Nat : Strike(m, r[k]) = [market |-> m.id, strike |-> x] BY <2>6
    <2> QED BY <1>1, <2>5, <2>7 DEF AnyCard, c
  <1>8. ASSUME Len(s) = i - 1
        PROVE  c \notin ToSet(s) /\ Good(c, m, spot, cards[i].sign)
    <2>1. Len(s) < K BY <1>8 DEF Dealable
    <2>2. PICK sign \in {-1, 1} : sign = cards[i].sign BY <1>4
    <2>3. PICK a : a = m.admission OBVIOUS
    <2>4. Spread(r, K, spot, sign, a) BY <1>5, <2>2, <2>3
    <2>5. \E k \in 1 .. K : placed(m, r, s) = Strike(m, r[k]) /\ Strike(m, r[k]) \notin ToSet(s)
      BY <1>2, <1>6, <2>1, <2>3, <2>4, FreeRung, SMTT(30)
    <2>6. PICK k \in 1 .. K : placed(m, r, s) = Strike(m, r[k]) /\ Strike(m, r[k]) \notin ToSet(s)
      BY <2>5
    <2>7. Good(Strike(m, r[k]), m, spot, sign) BY <1>2, <1>6, <2>3, <2>4, RungGood
    <2> QED BY <1>1, <2>2, <2>6, <2>7 DEF c
  <1> HIDE DEF c
  <1>9. c \in AnyCard(ms, n) /\ (Len(s) = i - 1 => c \notin ToSet(s) /\ Good(c, MarketOf(ms, i), spot, cards[i].sign))
    BY <1>1, <1>7, <1>8
  <1> QED BY <1>9 DEF c, r

LEMMA Appended ==
  ASSUME NEW U, NEW s \in Seq(U), NEW c \in U, NEW n \in Nat, Len(s) = n
  PROVE  /\ Append(s, c) \in Seq(U) /\ Len(Append(s, c)) = n + 1
         /\ Append(s, c)[n + 1] = c /\ \A j \in 1 .. n : Append(s, c)[j] = s[j]
  OBVIOUS

LEMMA DealtNext ==
  ASSUME NEW ms, NEW spot \in Nat, NEW cards, NEW n, Dealable(ms, spot, cards, n),
         NEW i \in 1 .. n, NEW s \in Seq(AnyCard(ms, n)), Dealt(s, i - 1, ms, spot, cards),
         NEW c, c = placed(MarketOf(ms, i), RungsFor(ms, spot, cards)[i], s)
  PROVE  Dealt(Append(s, c), i, ms, spot, cards)
  <1>1. Len(s) = i - 1 /\ i - 1 \in Nat /\ i \in Nat BY DEF Dealt, Dealable
  <1>2. c \in AnyCard(ms, n) /\ c \notin ToSet(s) /\ Good(c, MarketOf(ms, i), spot, cards[i].sign)
    BY <1>1, NextCard
  <1>3. PICK l \in Nat : l = i - 1 BY <1>1
  <1>4. PICK t : t = Append(s, c) OBVIOUS
  <1>5. Len(t) = l + 1 /\ t[l + 1] = c /\ \A j \in 1 .. l : t[j] = s[j]
    BY <1>1, <1>2, <1>3, <1>4, Appended
  <1>6. l + 1 = i /\ \A j \in 1 .. i : j \in 1 .. l \/ j = i BY <1>1, <1>3
  <1>7. \A j \in 1 .. l : s[j] # c
    <2>1. \A j \in 1 .. l : s[j] \in ToSet(s) BY <1>1, <1>3 DEF ToSet
    <2> QED BY <1>2, <2>1
  <1>8. \A j, k \in 1 .. l : s[j] = s[k] => j = k BY <1>3 DEF Dealt
  <1>9. \A j \in 1 .. l : Good(s[j], MarketOf(ms, j), spot, cards[j].sign) BY <1>3 DEF Dealt
  <1>10. \A j, k \in 1 .. i : t[j] = t[k] => j = k
    BY <1>5, <1>6, <1>7, <1>8
  <1>11. \A j \in 1 .. i : Good(t[j], MarketOf(ms, j), spot, cards[j].sign)
    BY <1>2, <1>5, <1>6, <1>9
  <1> QED BY <1>4, <1>5, <1>6, <1>10, <1>11 DEF Dealt

LEMMA DeckDealt ==
  ASSUME NEW ms, NEW spot \in Nat, NEW cards, NEW n, Dealable(ms, spot, cards, n)
  PROVE  /\ buildDeck(ms, RungsFor(ms, spot, cards)) \in Seq(AnyCard(ms, n))
         /\ Dealt(buildDeck(ms, RungsFor(ms, spot, cards)), n, ms, spot, cards)
  <1> DEFINE D == 0 .. n
             U == AnyCard(ms, n)
             V == Seq(U)
             rungs == RungsFor(ms, spot, cards)
             c(i, s) == placed(MarketOf(ms, i), rungs[i], s)
             Is(f) == f = [i \in D |-> IF i = 0 THEN <<>> ELSE Append(f[i - 1], c(i, f[i - 1]))]
             rank == [i \in D |-> i]
             base == {0}
             out == [i \in D |-> <<>>]
             prev == [i \in D |-> i - 1]
             step == [p \in D \X V |-> Append(p[2], c(p[1], p[2]))]
  <1>1. n \in Nat BY DEF Dealable
  <1>2. Descends(D, rank, base, prev) BY <1>1 DEF Descends
  <1>3. ASSUME NEW i \in 1 .. n, NEW s \in V PROVE c(i, s) \in U
    BY NextCard
  <1>4. \A i \in D \ base : i \in 1 .. n BY <1>1
  <1>5. ASSUME NEW i \in D \ base, NEW s \in V
        PROVE  step[<<i, s>>] = Append(s, c(i, s)) /\ step[<<i, s>>] \in V
    <2>1. c(i, s) \in U BY <1>3, <1>4
    <2>2. step[<<i, s>>] = Append(s, c(i, s)) OBVIOUS
    <2> HIDE DEF c, U, step
    <2> QED BY <2>1, <2>2
  <1>6. \A i \in base : out[i] \in V BY <1>1
  <1>7. \E f \in [D -> V] : Recurs(f, D, base, out, prev, step)
    <2> HIDE DEF D, V, rank, base, out, prev, step
    <2> QED BY <1>2, <1>5, <1>6, RecursionExists
  <1>8. PICK f \in [D -> V] : Recurs(f, D, base, out, prev, step) BY <1>7
  <1>9. Is(f)
    <2>1. ASSUME NEW i \in D
          PROVE  f[i] = IF i = 0 THEN <<>> ELSE Append(f[i - 1], c(i, f[i - 1]))
      <3>1. CASE i = 0
        <4>1. i \in base /\ out[i] = <<>> BY <3>1
        <4> HIDE DEF out, step, prev, base, D, V, c
        <4> QED BY <1>8, <3>1, <4>1 DEF Recurs
      <3>2. CASE i # 0
        <4>1. i \in D \ base /\ prev[i] = i - 1 /\ i - 1 \in D BY <1>1, <3>2
        <4>2. f[i - 1] \in V BY <4>1
        <4> HIDE DEF out, step, prev, base, D, V, c
        <4>3. f[i] = step[<<i, f[i - 1]>>] BY <1>8, <4>1 DEF Recurs
        <4> QED BY <1>5, <3>2, <4>1, <4>2, <4>3
      <3> QED BY <3>1, <3>2
    <2>2. f = [i \in D |-> f[i]] OBVIOUS
    <2> HIDE DEF c, D, V
    <2>3. [i \in D |-> f[i]] = [i \in D |-> IF i = 0 THEN <<>> ELSE Append(f[i - 1], c(i, f[i - 1]))]
      BY <2>1
    <2> QED BY <2>2, <2>3
  <1>10. PICK h : h = CHOOSE k : Is(k) OBVIOUS
  <1>11. Is(h)
    <2> HIDE DEF Is
    <2> QED BY <1>9, <1>10
  <1>12. Len(rungs) = n
    <2>1. DOMAIN cards = 1 .. n BY DEF Dealable
    <2>2. rungs = [i \in 1 .. n |-> rungs[i]] BY <2>1 DEF RungsFor
    <2> HIDE DEF rungs
    <2>3. Len([i \in 1 .. n |-> rungs[i]]) = n BY <1>1
    <2> QED BY <2>2, <2>3
  <1>13. buildDeck(ms, rungs) = h[n]
    <2> HIDE DEF rungs
    <2> QED BY <1>10, <1>12 DEF buildDeck
  <1> DEFINE P == {i \in D : h[i] \in V /\ Dealt(h[i], i, ms, spot, cards)}
  <1>14. 0 \in P
    <2>1. h[0] = <<>> BY <1>1, <1>11
    <2>2. <<>> \in V /\ 0 \in D /\ Len(<<>>) = 0 /\ 1 .. 0 = {} BY <1>1
    <2>3. Dealt(<<>>, 0, ms, spot, cards) BY <2>2 DEF Dealt
    <2> HIDE DEF V
    <2> QED BY <2>1, <2>2, <2>3
  <1>15. ASSUME NEW i \in D \ base, prev[i] \in P PROVE i \in P
    <2>1. i \in 1 .. n /\ prev[i] = i - 1 BY <1>1
    <2>2. PICK s \in V : s = h[i - 1] /\ Dealt(s, i - 1, ms, spot, cards) BY <1>15, <2>1
    <2>3. h[i] = Append(s, c(i, s)) BY <1>11, <2>2
    <2>4. Append(s, c(i, s)) \in V
      <3>1. step[<<i, s>>] = Append(s, c(i, s)) /\ step[<<i, s>>] \in V BY <1>5
      <3> HIDE DEF step, V, c
      <3> QED BY <3>1
    <2>5. Dealt(Append(s, c(i, s)), i, ms, spot, cards)
      <3>1. PICK e : e = c(i, s) OBVIOUS
      <3>2. Dealt(Append(s, e), i, ms, spot, cards) BY <2>1, <2>2, <3>1, DealtNext
      <3> QED BY <3>1, <3>2
    <2> HIDE DEF V, c
    <2> QED BY <2>3, <2>4, <2>5
  <1>16. D \subseteq P
    <2>1. base \subseteq P BY <1>14
    <2> HIDE DEF D, rank, base, prev, P
    <2> QED BY <1>2, <1>15, <2>1, RankInduction
  <1>17. n \in D BY <1>1
  <1> HIDE DEF D, V, c, rungs
  <1>18. h[n] \in V /\ Dealt(h[n], n, ms, spot, cards) BY <1>16, <1>17
  <1> QED BY <1>13, <1>18 DEF V, rungs

LEMMA AtPriceGood ==
  ASSUME NEW m, Gridded(m), NEW spot \in Nat, NEW sign \in {-1, 1}
  PROVE  Good(Strike(m, spot), m, spot, sign)
  <1>1. PICK a \in Sizes : a = m.admission BY DEF Gridded
  <1>2. PICK u \in Nat : u = Near(spot, a) BY NearIs
  <1>3. u % a = 0 BY <1>2, NearIs
  <1>4. Strike(m, spot) = [market |-> m.id, strike |-> u] BY <1>1, <1>2, StrikeIs
  <1>5. ~ (sign * (u - u) < 0) OBVIOUS
  <1> QED BY <1>1, <1>3, <1>4, <1>5 DEF Good

\* The cards of every deck of up to five are different bets on the right side of
\* the price (buildDeck, buildSviDeck, buildProbedDeck), whatever markets and
\* cards it has, if the markets' grids are of whole ticks and fine enough for the
\* rungs that are tried.
THEOREM DeckCardsDiffer ==
  ASSUME NEW ms, NEW spot \in Nat, NEW cards, NEW n, Dealable(ms, spot, cards, n),
         NEW unlikely \in SUBSET (1 .. n)
  PROVE  Apart(ms, spot, cards, unlikely)
  <1> DEFINE rungs == [i \in DOMAIN cards |-> Rungs(MarketOf(ms, i), spot, cards[i])]
             deck == buildProbedDeck(ms, rungs, spot, unlikely)
             AtPrice(i) == Strike(MarketOf(ms, i), spot)
             Below(i) == cards[i].sign * (deck[i].strike - AtPrice(i).strike) < 0
  <1>1. PICK s : s = buildDeck(ms, rungs) OBVIOUS
  <1>2. s \in Seq(AnyCard(ms, n)) /\ Dealt(s, n, ms, spot, cards)
    BY <1>1, DeckDealt DEF RungsFor
  <1>3. n \in Nat /\ DOMAIN cards = 1 .. n BY DEF Dealable
  <1>4. DOMAIN s = 1 .. n BY <1>2, <1>3 DEF Dealt
  <1>5. deck = [i \in 1 .. n |-> IF i \in unlikely THEN AtPrice(i) ELSE s[i]]
    BY <1>1, <1>4 DEF buildProbedDeck
  <1>6. \A i \in 1 .. n : deck[i] = IF i \in unlikely THEN AtPrice(i) ELSE s[i]
    <2> HIDE DEF AtPrice, deck
    <2> QED BY <1>5
  <1>7. ASSUME NEW i \in 1 .. n PROVE Good(deck[i], MarketOf(ms, i), spot, cards[i].sign)
    <2>1. CASE i \in unlikely
      <3>1. Gridded(MarketOf(ms, i)) /\ cards[i].sign \in {-1, 1} BY DEF Dealable, Fits
      <3>2. deck[i] = Strike(MarketOf(ms, i), spot) BY <1>6, <2>1
      <3> QED BY <3>1, <3>2, AtPriceGood
    <2>2. CASE i \notin unlikely
      <3>1. deck[i] = s[i] BY <1>6, <2>2
      <3> HIDE DEF deck
      <3> QED BY <1>2, <3>1 DEF Dealt
    <2> QED BY <2>1, <2>2
  <1> HIDE DEF deck
  <1>8. \A i, j \in DOMAIN cards \ unlikely : deck[i] = deck[j] => i = j
    <2>1. \A i \in DOMAIN cards \ unlikely : i \in 1 .. n /\ deck[i] = s[i] BY <1>3, <1>6
    <2> QED BY <1>2, <2>1 DEF Dealt
  <1>9. \A i \in unlikely : deck[i] = AtPrice(i) BY <1>6
  <1>10. \A i \in DOMAIN cards : /\ deck[i].market = MarketOf(ms, i).id
                                 /\ ~Below(i)
                                 /\ deck[i].strike % MarketOf(ms, i).admission = 0
    BY <1>3, <1>7 DEF Good
  <1> HIDE DEF Below, AtPrice, rungs
  <1> QED BY <1>8, <1>9, <1>10 DEF Apart, deck, Below, AtPrice, rungs

\* The decks of the checked instance are such decks.
LEMMA GridsFine ==
  ASSUME NEW ms \in Grids
  PROVE  /\ Len(ms) \in Sizes
         /\ \A x \in 1 .. Len(ms) : Gridded(ms[x]) /\ ms[x].admission \in 1 .. 4
  <1> USE DEF Gridded, Sizes
  <1>1. CASE ms = <<[id |-> "m1", tick |-> 2, admission |-> 4]>> BY <1>1
  <1>2. CASE ms = <<[id |-> "m1", tick |-> 1, admission |-> 3], [id |-> "m2", tick |-> 1, admission |-> 1]>>
    BY <1>2
  <1>3. CASE ms = <<[id |-> "m1", tick |-> 1, admission |-> 2], [id |-> "m2", tick |-> 2, admission |-> 4],
                    [id |-> "m3", tick |-> 1, admission |-> 4]>>
    BY <1>3
  <1> QED BY <1>1, <1>2, <1>3 DEF Grids

LEMMA CardsFit ==
  ASSUME NEW m, m.admission \in 1 .. 4, NEW card \in Priced \cup Quoted
  PROVE  Fits(m, Spot, card)
  <1>1. CASE card \in Priced
    <2>1. DOMAIN ZoneOffsetBps = {"close", "mid", "edge"} BY DEF ZoneOffsetBps
    <2>2. PICK sign \in {-1, 1}, zone \in {"close", "mid", "edge"} : card = [sign |-> sign, zone |-> zone]
      BY <1>1, <2>1 DEF Priced
    <2>3. 5000 * m.admission <= Spot BY DEF Spot
    <2> QED BY <2>2, <2>3 DEF Fits
  <1>2. CASE card \in Quoted
    <2>1. PICK sign \in {-1, 1}, away \in {0, 1, 3} : card = [sign |-> sign, away |-> away]
      BY <1>2 DEF Quoted
    <2>2. away + 10 * m.admission < Spot BY DEF Spot
    <2> QED BY <2>1, <2>2 DEF Fits
  <1> QED BY <1>1, <1>2

LEMMA CheckedDecks == CardsApart
  <1> SUFFICES ASSUME NEW ms \in Grids, NEW cards \in [1 .. 4 -> Priced] \cup [1 .. 4 -> Quoted],
                      NEW unlikely \in {{}, {2}, {1, 4}}
               PROVE  Apart(ms, Spot, cards, unlikely)
    BY DEF CardsApart
  <1>1. DOMAIN cards = 1 .. 4 /\ \A i \in 1 .. 4 : cards[i] \in Priced \cup Quoted OBVIOUS
  <1>2. \A i \in 1 .. 4 : Gridded(MarketOf(ms, i)) /\ MarketOf(ms, i).admission \in 1 .. 4
    <2>1. PICK k \in Sizes : k = Len(ms) BY GridsFine
    <2>2. \A i \in 1 .. 4 : ((i - 1) % k) + 1 \in 1 .. k
      <3> SUFFICES ASSUME NEW i \in 1 .. 4 PROVE ((i - 1) % k) + 1 \in 1 .. k OBVIOUS
      <3>1. PICK b \in Nat : b = i - 1 OBVIOUS
      <3>2. b % k \in 0 .. k - 1 BY ByteParts
      <3> QED BY <3>1, <3>2 DEF Sizes
    <2> QED BY <2>1, <2>2, GridsFine DEF MarketOf
  <1>3. \A i \in 1 .. 4 : Fits(MarketOf(ms, i), Spot, cards[i]) BY <1>1, <1>2, CardsFit
  <1>4. Dealable(ms, Spot, cards, 4) BY <1>1, <1>2, <1>3, GridsFine DEF Dealable
  <1>5. unlikely \in SUBSET (1 .. 4) /\ Spot \in Nat BY DEF Spot
  <1> QED BY <1>4, <1>5, DeckCardsDiffer

\* The cards of the deck a match waits for are different bets, each on its
\* market's grid and on the side of the price that was drawn (buildDeck).
THEOREM DecksCardsDiffer == Spec => []CardsDiffer
  <1>1. CardsDiffer BY CheckedDecks DEF CardsDiffer
  <1> QED BY <1>1, PTL

-----------------------------------------------------------------------------
(* Sources.  The admitted markets are some of those read, in their order. *)

Within(s, raw, n, ids) ==
  \E pos \in [1 .. Len(s) -> 1 .. n] :
    /\ \A x, y \in 1 .. Len(s) : x < y => pos[x] < pos[y]
    /\ \A x \in 1 .. Len(s) : s[x] = raw[pos[x]] /\ s[x].id \in ids

LEMMA WithinEmpty == ASSUME NEW raw, NEW ids PROVE Within(<<>>, raw, 0, ids)
  <1> DEFINE pos == [x \in 1 .. 0 |-> 0]
  <1>1. Len(<<>>) = 0 /\ 1 .. 0 = {} OBVIOUS
  <1>2. pos \in [1 .. 0 -> 1 .. 0] BY <1>1
  <1> HIDE DEF pos
  <1> QED BY <1>1, <1>2 DEF Within

LEMMA WithinMore ==
  ASSUME NEW raw, NEW ids, NEW n \in Nat, NEW s, Len(s) \in Nat, Within(s, raw, n, ids)
  PROVE  Within(s, raw, n + 1, ids)
  <1>1. PICK l \in Nat : l = Len(s) OBVIOUS
  <1>2. PICK pos \in [1 .. l -> 1 .. n] :
          /\ \A x, y \in 1 .. l : x < y => pos[x] < pos[y]
          /\ \A x \in 1 .. l : s[x] = raw[pos[x]] /\ s[x].id \in ids
    BY <1>1 DEF Within
  <1>3. 1 .. n \subseteq 1 .. n + 1 OBVIOUS
  <1>4. pos \in [1 .. l -> 1 .. n + 1] BY <1>3
  <1> QED BY <1>1, <1>2, <1>4 DEF Within

LEMMA WithinNext ==
  ASSUME NEW U, NEW raw, NEW ids, NEW n \in Nat, NEW s \in Seq(U), Within(s, raw, n, ids),
         raw[n + 1] \in U, raw[n + 1].id \in ids
  PROVE  Within(Append(s, raw[n + 1]), raw, n + 1, ids)
  <1>1. PICK l \in Nat : l = Len(s) OBVIOUS
  <1>2. PICK pos \in [1 .. l -> 1 .. n] :
          /\ \A x, y \in 1 .. l : x < y => pos[x] < pos[y]
          /\ \A x \in 1 .. l : s[x] = raw[pos[x]] /\ s[x].id \in ids
    BY <1>1 DEF Within
  <1>3. PICK t : t = Append(s, raw[n + 1]) OBVIOUS
  <1>4. /\ Len(t) = l + 1 /\ t[l + 1] = raw[n + 1]
        /\ \A x \in 1 .. l : t[x] = s[x]
    BY <1>1, <1>3, Appended
  <1> DEFINE to == [x \in 1 .. l + 1 |-> IF x = l + 1 THEN n + 1 ELSE pos[x]]
  <1>5. \A x \in 1 .. l + 1 : x = l + 1 \/ x \in 1 .. l OBVIOUS
  <1>6. \A x \in 1 .. l : to[x] = pos[x] /\ to[x] \in 1 .. n BY <1>2
  <1>7. to[l + 1] = n + 1 OBVIOUS
  <1>8. to \in [1 .. l + 1 -> 1 .. n + 1] BY <1>2, <1>5
  <1> HIDE DEF to
  <1>9. ASSUME NEW x \in 1 .. l + 1, NEW y \in 1 .. l + 1, x < y PROVE to[x] < to[y]
    <2>1. x \in 1 .. l BY <1>9
    <2>2. CASE y \in 1 .. l BY <1>2, <1>6, <1>9, <2>1, <2>2
    <2>3. CASE y = l + 1
      <3>1. to[x] \in 1 .. n BY <1>6, <2>1
      <3> QED BY <1>7, <2>3, <3>1
    <2> QED BY <1>5, <2>2, <2>3
  <1>10. ASSUME NEW x \in 1 .. l + 1 PROVE t[x] = raw[to[x]] /\ t[x].id \in ids
    <2>1. CASE x = l + 1 BY <1>4, <1>7, <2>1
    <2>2. CASE x \in 1 .. l BY <1>2, <1>4, <1>6, <2>2
    <2> QED BY <1>5, <2>1, <2>2
  <1> QED BY <1>3, <1>4, <1>8, <1>9, <1>10 DEF Within

LEMMA MintableWithin ==
  ASSUME NEW U, NEW t, NEW raw \in Seq(U), raw = rawMarkets(t)
  PROVE  Mintable(t) \in Seq(U) /\ Within(Mintable(t), raw, Len(raw), t.mintable)
  <1>1. PICK n \in Nat : n = Len(raw) OBVIOUS
  <1> DEFINE D == 0 .. n
             V == Seq(U)
             next(i, s) == IF raw[i].id \in t.mintable THEN Append(s, raw[i]) ELSE s
             Is(f) == f = [i \in D |-> IF i = 0 THEN <<>> ELSE next(i, f[i - 1])]
             rank == [i \in D |-> i]
             base == {0}
             out == [i \in D |-> <<>>]
             prev == [i \in D |-> i - 1]
             step == [p \in D \X V |-> next(p[1], p[2])]
  <1>2. Descends(D, rank, base, prev) BY DEF Descends
  <1>3. \A i \in D \ base : raw[i] \in U BY <1>1
  <1>4. ASSUME NEW i \in D \ base, NEW s \in V
        PROVE  step[<<i, s>>] = next(i, s) /\ step[<<i, s>>] \in V
    <2>1. Append(s, raw[i]) \in V
      <3>1. PICK l \in Nat : l = Len(s) OBVIOUS
      <3> QED BY <1>3, <3>1, Appended
    <2>2. step[<<i, s>>] = next(i, s) OBVIOUS
    <2> HIDE DEF V, step
    <2> QED BY <2>1, <2>2
  <1>5. \A i \in base : out[i] \in V OBVIOUS
  <1>6. \E f \in [D -> V] : Recurs(f, D, base, out, prev, step)
    <2> HIDE DEF D, V, rank, base, out, prev, step
    <2> QED BY <1>2, <1>4, <1>5, RecursionExists
  <1>7. PICK f \in [D -> V] : Recurs(f, D, base, out, prev, step) BY <1>6
  <1>8. Is(f)
    <2>1. ASSUME NEW i \in D PROVE f[i] = IF i = 0 THEN <<>> ELSE next(i, f[i - 1])
      <3>1. CASE i = 0
        <4>1. i \in base /\ out[i] = <<>> BY <3>1
        <4> HIDE DEF out, step, prev, base, D, V, next
        <4> QED BY <1>7, <3>1, <4>1 DEF Recurs
      <3>2. CASE i # 0
        <4>1. i \in D \ base /\ prev[i] = i - 1 /\ i - 1 \in D BY <3>2
        <4>2. f[i - 1] \in V BY <4>1
        <4> HIDE DEF out, step, prev, base, D, V, next
        <4>3. f[i] = step[<<i, f[i - 1]>>] BY <1>7, <4>1 DEF Recurs
        <4> QED BY <1>4, <3>2, <4>1, <4>2, <4>3
      <3> QED BY <3>1, <3>2
    <2>2. f = [i \in D |-> f[i]] OBVIOUS
    <2> HIDE DEF next, D, V
    <2>3. [i \in D |-> f[i]] = [i \in D |-> IF i = 0 THEN <<>> ELSE next(i, f[i - 1])]
      BY <2>1
    <2> QED BY <2>2, <2>3
  <1>9. PICK h : h = CHOOSE k : Is(k) OBVIOUS
  <1>10. Is(h)
    <2> HIDE DEF Is
    <2> QED BY <1>8, <1>9
  <1>11. Mintable(t) = h[n] BY <1>1, <1>9 DEF Mintable
  <1> DEFINE P == {i \in D : h[i] \in V /\ Within(h[i], raw, i, t.mintable)}
  <1>12. 0 \in P
    <2>1. h[0] = <<>> /\ <<>> \in V /\ 0 \in D BY <1>10
    <2> HIDE DEF V
    <2> QED BY <2>1, WithinEmpty
  <1>13. ASSUME NEW i \in D \ base, prev[i] \in P PROVE i \in P
    <2>1. PICK k \in Nat : k = i - 1 /\ i = k + 1 /\ prev[i] = k
      <3>1. i - 1 \in Nat /\ i = (i - 1) + 1 /\ prev[i] = i - 1 OBVIOUS
      <3> QED BY <3>1
    <2>2. PICK s \in V : s = h[k] /\ Within(s, raw, k, t.mintable) BY <1>13, <2>1
    <2>3. h[i] = next(i, s) BY <1>10, <2>1, <2>2
    <2>4. step[<<i, s>>] = next(i, s) /\ step[<<i, s>>] \in V BY <1>4
    <2>5. Within(next(i, s), raw, i, t.mintable)
      <3>1. CASE raw[i].id \in t.mintable
        <4>1. raw[k + 1] \in U /\ raw[k + 1].id \in t.mintable BY <1>3, <2>1, <3>1
        <4>2. Within(Append(s, raw[k + 1]), raw, k + 1, t.mintable) BY <2>2, <4>1, WithinNext
        <4> QED BY <2>1, <3>1, <4>2
      <3>2. CASE raw[i].id \notin t.mintable
        <4>1. Len(s) \in Nat OBVIOUS
        <4>2. Within(s, raw, k + 1, t.mintable) BY <2>2, <4>1, WithinMore
        <4> QED BY <2>1, <3>2, <4>2
      <3> QED BY <3>1, <3>2
    <2> HIDE DEF V, next, step
    <2> QED BY <2>3, <2>4, <2>5
  <1>14. D \subseteq P
    <2>1. base \subseteq P BY <1>12
    <2> HIDE DEF D, rank, base, prev, P
    <2> QED BY <1>2, <1>13, <2>1, RankInduction
  <1>15. n \in D OBVIOUS
  <1> HIDE DEF D
  <1>16. h[n] \in V /\ Within(h[n], raw, n, t.mintable) BY <1>14, <1>15
  <1> QED BY <1>1, <1>11, <1>16

\* A list of different markets, sorted by when they settle.
Ordered(raw) ==
  \A x, y \in 1 .. Len(raw) : /\ raw[x].id = raw[y].id => x = y
                              /\ x < y => raw[x].expiry <= raw[y].expiry

LEMMA WithinKeeps ==
  ASSUME NEW U, NEW raw \in Seq(U), NEW ids, NEW s \in Seq(U), Within(s, raw, Len(raw), ids)
  PROVE  /\ \A x \in 1 .. Len(s) : s[x] \in ToSet(raw) /\ s[x].id \in ids
         /\ Ordered(raw) => Ordered(s)
  <1>1. PICK n \in Nat : n = Len(raw) OBVIOUS
  <1>2. PICK l \in Nat : l = Len(s) OBVIOUS
  <1>3. PICK pos \in [1 .. l -> 1 .. n] :
          /\ \A x, y \in 1 .. l : x < y => pos[x] < pos[y]
          /\ \A x \in 1 .. l : s[x] = raw[pos[x]] /\ s[x].id \in ids
    BY <1>1, <1>2 DEF Within
  <1>4. \A p \in 1 .. n : raw[p] \in ToSet(raw) BY <1>1 DEF ToSet
  <1>5. \A x, y \in 1 .. l : pos[x] = pos[y] => x = y
    <2> SUFFICES ASSUME NEW x \in 1 .. l, NEW y \in 1 .. l, pos[x] = pos[y] PROVE x = y OBVIOUS
    <2>1. pos[x] \in 1 .. n /\ pos[y] \in 1 .. n OBVIOUS
    <2>2. ~ (x < y) BY <1>3, <2>1
    <2>3. ~ (y < x) BY <1>3, <2>1
    <2> QED BY <2>2, <2>3
  <1>6. Ordered(raw) => Ordered(s)
    <2> SUFFICES ASSUME Ordered(raw), NEW x \in 1 .. l, NEW y \in 1 .. l
                 PROVE  /\ s[x].id = s[y].id => x = y
                        /\ x < y => s[x].expiry <= s[y].expiry
      BY <1>2 DEF Ordered
    <2>1. pos[x] \in 1 .. n /\ pos[y] \in 1 .. n OBVIOUS
    <2>2. s[x] = raw[pos[x]] /\ s[y] = raw[pos[y]] BY <1>3
    <2>3. raw[pos[x]].id = raw[pos[y]].id => pos[x] = pos[y] BY <1>1, <2>1 DEF Ordered
    <2>4. pos[x] < pos[y] => raw[pos[x]].expiry <= raw[pos[y]].expiry BY <1>1, <2>1 DEF Ordered
    <2> QED BY <1>3, <1>5, <2>2, <2>3, <2>4
  <1> QED BY <1>2, <1>3, <1>4, <1>6

LEMMA TakeIs ==
  ASSUME NEW U, NEW s \in Seq(U), NEW k \in Nat
  PROVE  /\ Take(s, k) \in Seq(U)
         /\ Len(Take(s, k)) = (IF k < Len(s) THEN k ELSE Len(s))
         /\ \A x \in 1 .. Len(Take(s, k)) : x \in 1 .. Len(s) /\ Take(s, k)[x] = s[x]
  <1>1. PICK l \in Nat : l = Len(s) OBVIOUS
  <1>2. PICK m \in Nat : m = IF k < l THEN k ELSE l OBVIOUS
  <1>3. m <= l BY <1>2
  <1>4. \A x \in 1 .. m : x \in 1 .. l BY <1>3
  <1>5. \A x \in 1 .. m : s[x] \in U BY <1>1, <1>4
  <1>6. PICK t : t = SubSeq(s, 1, m) OBVIOUS
  <1>7. t = [x \in 1 .. m |-> s[x]] BY <1>1, <1>3, <1>6
  <1>8. t \in Seq(U) /\ Len(t) = m /\ \A x \in 1 .. m : t[x] = s[x] BY <1>5, <1>7
  <1> QED BY <1>1, <1>2, <1>4, <1>6, <1>8 DEF Take

\* What a try may be: lists of markets, the tiered one sorted; and the options of
\* a deck: one card at least, two markets at least, offsets that grow.
AsRead(t) ==
  /\ t.fault \in BOOLEAN
  /\ rawMarkets(t) \in Seq(ToSet(rawMarkets(t)))
  /\ usedTiered(t) => Ordered(t.tiered)
Dealing(o) ==
  /\ o.deckMax \in Sizes /\ o.tierSize \in Sizes /\ o.tierSize >= 2
  /\ o.now \in Int /\ o.offsets \in Seq(Int)
  /\ \A x, y \in 1 .. Len(o.offsets) : x < y => o.offsets[x] < o.offsets[y]

LEMMA MarketsFound ==
  ASSUME NEW U, NEW ms \in Seq(U), Len(ms) >= 1
  PROVE  /\ \A i \in Sizes : \E x \in 1 .. Len(ms) : MarketOf(ms, i) = ms[x]
         /\ \A i \in 1 .. Len(ms) : MarketOf(ms, i) = ms[i]
         /\ \A x \in 1 .. Len(ms) : \E y \in 1 .. Len(ms) :
              ms[y].id = ms[x].id /\ ExpiryOf(ms, ms[x].id) = ms[y].expiry
  <1>1. PICK k \in Sizes : k = Len(ms) BY DEF Sizes
  <1>2. k \in Nat /\ k >= 1 BY DEF Sizes
  <1>3. ASSUME NEW i \in Sizes PROVE \E x \in 1 .. k : MarketOf(ms, i) = ms[x]
    <2>1. PICK b \in Nat : b = i - 1 BY DEF Sizes
    <2>2. b % k \in 0 .. k - 1 BY ByteParts
    <2>3. PICK m \in 0 .. k - 1 : m = b % k BY <2>2
    <2>4. MarketOf(ms, i) = ms[m + 1] BY <1>1, <2>1, <2>3 DEF MarketOf
    <2>5. m + 1 \in 1 .. k BY <1>2
    <2> QED BY <2>4, <2>5
  <1>4. ASSUME NEW i \in 1 .. k PROVE MarketOf(ms, i) = ms[i]
    <2>1. PICK b \in Nat : b = i - 1 /\ b < k /\ b + 1 = i BY <1>2
    <2>2. b % k = b BY <1>2, <2>1
    <2> QED BY <1>1, <2>1, <2>2 DEF MarketOf
  <1>5. ASSUME NEW x \in 1 .. k
        PROVE  \E y \in 1 .. k : ms[y].id = ms[x].id /\ ExpiryOf(ms, ms[x].id) = ms[y].expiry
    <2>1. DOMAIN ms = 1 .. k BY <1>1
    <2>2. ms[x] \in ToSet(ms) BY <2>1 DEF ToSet
    <2>3. PICK m : m = CHOOSE c \in ToSet(ms) : c.id = ms[x].id OBVIOUS
    <2>4. m \in ToSet(ms) /\ m.id = ms[x].id BY <2>2, <2>3
    <2>5. PICK y \in 1 .. k : m = ms[y] BY <2>1, <2>4 DEF ToSet
    <2>6. ExpiryOf(ms, ms[x].id) = m.expiry BY <2>3 DEF ExpiryOf
    <2> QED BY <2>4, <2>5, <2>6
  <1> QED BY <1>1, <1>3, <1>4, <1>5

LEMMA DeckOfTry ==
  ASSUME NEW t, AsRead(t), enough(t), NEW o, Dealing(o)
  PROVE  FromTry(predictDeck(t, o), t, o)
  <1>1. PICK raw : raw = rawMarkets(t) OBVIOUS
  <1>2. PICK U : U = ToSet(raw) OBVIOUS
  <1>3. PICK all : all = Mintable(t) OBVIOUS
  <1>4. raw \in Seq(U) BY <1>1, <1>2 DEF AsRead
  <1>5. all \in Seq(U) /\ Within(all, raw, Len(raw), t.mintable) BY <1>1, <1>3, <1>4, MintableWithin
  <1>6. PICK ms : ms = deckMarkets(t, o) OBVIOUS
  <1>7. PICK size : size = deckSize(t, o) OBVIOUS
  <1>8. \A x \in 1 .. Len(all) : all[x] \in ToSet(raw) /\ all[x].id \in t.mintable
    BY <1>4, <1>5, WithinKeeps
  <1>9. PICK k \in Nat : k = o.tierSize /\ k >= 2 BY DEF Dealing, Sizes
  <1>10. /\ ms \in Seq(U) /\ Len(ms) >= 1
         /\ \A x \in 1 .. Len(ms) : x \in 1 .. Len(all) /\ ms[x] = all[x]
         /\ usedTiered(t) => Len(ms) \in 2 .. k
    <2>1. CASE usedTiered(t)
      <3>1. ms = Take(all, k) BY <1>3, <1>6, <1>9, <2>1 DEF deckMarkets
      <3>2. Len(all) \in Nat /\ Len(all) >= 2 BY <1>3, <1>5, <2>1 DEF enough
      <3>3. /\ ms \in Seq(U) /\ Len(ms) = (IF k < Len(all) THEN k ELSE Len(all))
            /\ \A x \in 1 .. Len(ms) : x \in 1 .. Len(all) /\ ms[x] = all[x]
        BY <1>5, <3>1, TakeIs
      <3>4. Len(ms) \in 2 .. k BY <1>9, <3>2, <3>3
      <3> QED BY <1>9, <3>3, <3>4
    <2>2. CASE ~usedTiered(t)
      <3>1. ms = all BY <1>3, <1>6, <2>2 DEF deckMarkets
      <3>2. Len(all) >= 1 BY <1>3, <2>2 DEF enough
      <3> QED BY <1>5, <2>2, <3>1, <3>2
    <2> QED BY <2>1, <2>2
  <1>11. PICK l \in Nat : l = Len(ms) /\ l >= 1 BY <1>10
  <1>12. size \in Sizes /\ (usedTiered(t) => size = l) /\ (~usedTiered(t) => size = o.deckMax)
    BY <1>6, <1>7, <1>11 DEF deckSize, Sizes, Dealing
  <1>13. PICK cards : cards = [i \in 1 .. size |-> MarketOf(ms, i).id] OBVIOUS
  <1>14. PICK settle : settle = [i \in DOMAIN cards |-> ExpiryOf(ms, cards[i])] OBVIOUS
  <1>15. predictDeck(t, o) = [is |-> "deck", source |-> "predict", cards |-> cards, settleAt |-> settle]
    BY <1>6, <1>7, <1>13, <1>14 DEF predictDeck
  <1>16. size \in Nat /\ DOMAIN cards = 1 .. size /\ DOMAIN settle = 1 .. size
    BY <1>12, <1>13, <1>14 DEF Sizes
  <1>17. cards \in Seq({cards[i] : i \in 1 .. size}) /\ Len(cards) = size
    BY <1>13, <1>16
  <1>18. ASSUME NEW i \in 1 .. size
         PROVE  \E x, y \in 1 .. l : /\ MarketOf(ms, i) = ms[x] /\ cards[i] = ms[x].id
                                     /\ ms[y].id = ms[x].id /\ settle[i] = ms[y].expiry
    <2>1. i \in Sizes BY <1>16 DEF Sizes
    <2>2. PICK x \in 1 .. l : MarketOf(ms, i) = ms[x] BY <1>10, <1>11, <2>1, MarketsFound
    <2>3. PICK y \in 1 .. l : ms[y].id = ms[x].id /\ ExpiryOf(ms, ms[x].id) = ms[y].expiry
      BY <1>10, <1>11, MarketsFound
    <2>4. cards[i] = ms[x].id BY <1>13, <2>2
    <2>5. settle[i] = ExpiryOf(ms, cards[i]) BY <1>14, <1>16
    <2> QED BY <2>2, <2>3, <2>4, <2>5
  <1>19. \A i \in 1 .. size : \E m \in ToSet(raw) :
           m.id \in t.mintable /\ m.id = cards[i] /\ m.expiry = settle[i]
    <2> SUFFICES ASSUME NEW i \in 1 .. size
                 PROVE  \E m \in ToSet(raw) :
                          m.id \in t.mintable /\ m.id = cards[i] /\ m.expiry = settle[i]
      OBVIOUS
    <2>1. PICK x \in 1 .. l, y \in 1 .. l :
            cards[i] = ms[x].id /\ ms[y].id = ms[x].id /\ settle[i] = ms[y].expiry
      BY <1>18
    <2>2. ms[y] \in ToSet(raw) /\ ms[y].id \in t.mintable BY <1>8, <1>10, <1>11
    <2> QED BY <2>1, <2>2
  <1>20. usedTiered(t) => size \in 2 .. k /\ Distinct(cards) /\ Sorted(settle)
    <2> SUFFICES ASSUME usedTiered(t) PROVE size \in 2 .. k /\ Distinct(cards) /\ Sorted(settle)
      OBVIOUS
    <2>1. size = l /\ size \in 2 .. k BY <1>10, <1>11, <1>12
    <2>2. Ordered(raw) BY <1>1 DEF AsRead, rawMarkets
    <2>3. Ordered(all) BY <1>4, <1>5, <2>2, WithinKeeps
    <2>4. Ordered(ms) BY <1>10, <2>3 DEF Ordered
    <2>5. ASSUME NEW i \in 1 .. l PROVE cards[i] = ms[i].id /\ settle[i] = ms[i].expiry
      <3>1. MarketOf(ms, i) = ms[i] BY <1>10, <1>11, MarketsFound
      <3>2. cards[i] = ms[i].id BY <1>13, <2>1, <3>1
      <3>3. \E y \in 1 .. l : ms[y].id = ms[i].id /\ settle[i] = ms[y].expiry
        <4>1. i \in 1 .. size BY <2>1
        <4>2. PICK x \in 1 .. l, y \in 1 .. l :
                /\ MarketOf(ms, i) = ms[x] /\ cards[i] = ms[x].id
                /\ ms[y].id = ms[x].id /\ settle[i] = ms[y].expiry
          BY <1>18, <4>1
        <4> QED BY <3>2, <4>2
      <3>4. PICK y \in 1 .. l : ms[y].id = ms[i].id /\ settle[i] = ms[y].expiry BY <3>3
      <3>5. y = i BY <1>11, <2>4, <3>4 DEF Ordered
      <3> QED BY <3>2, <3>4, <3>5
    <2>6. Distinct(cards) BY <1>11, <1>16, <2>1, <2>4, <2>5 DEF Distinct, Ordered
    <2>7. Sorted(settle) BY <1>11, <1>16, <2>1, <2>4, <2>5 DEF Sorted, Ordered
    <2> QED BY <2>1, <2>6, <2>7
  <1>21. usedTiered(t) <=> t.tiered # <<>> BY DEF usedTiered
  <1>22. raw = IF t.tiered # <<>> THEN t.tiered ELSE t.flat BY <1>1, <1>21 DEF rawMarkets
  <1> QED BY <1>9, <1>12, <1>15, <1>16, <1>17, <1>19, <1>20, <1>21, <1>22 DEF FromTry

LEMMA PythTimes ==
  ASSUME NEW o, Dealing(o)
  PROVE  LET d == pythDeck(o)
         IN  /\ d.is = "deck" /\ d.source = "pyth"
             /\ Len(d.cards) = Len(d.settleAt) /\ Distinct(d.settleAt) /\ Sorted(d.settleAt)
  <1>1. PICK now \in Int : now = o.now BY DEF Dealing
  <1>2. PICK all \in Seq(Int) : all = o.offsets BY DEF Dealing
  <1>3. PICK k \in Nat : k = o.deckMax BY DEF Dealing, Sizes
  <1>4. PICK times : times = Take(all, k) OBVIOUS
  <1>5. /\ times \in Seq(Int)
        /\ \A x \in 1 .. Len(times) : x \in 1 .. Len(all) /\ times[x] = all[x]
    BY <1>4, TakeIs
  <1>6. PICK n \in Nat : n = Len(times) /\ DOMAIN times = 1 .. n BY <1>5
  <1>7. PICK settle : settle = [i \in DOMAIN times |-> now + times[i]] OBVIOUS
  <1>8. PICK cards : cards = [i \in DOMAIN times |-> o.feed] OBVIOUS
  <1>9. pythDeck(o) = [is |-> "deck", source |-> "pyth", cards |-> cards, settleAt |-> settle]
    BY <1>1, <1>2, <1>3, <1>4, <1>7, <1>8 DEF pythDeck
  <1>10. DOMAIN settle = 1 .. n /\ Len(settle) = n /\ Len(cards) = n
    BY <1>6, <1>7, <1>8
  <1>11. \A x \in 1 .. n : times[x] \in Int /\ settle[x] = now + times[x] BY <1>5, <1>6, <1>7
  <1>12. \A x, y \in 1 .. n : x < y => times[x] < times[y]
    BY <1>2, <1>5, <1>6 DEF Dealing
  <1>13. \A x, y \in 1 .. n : x < y => settle[x] < settle[y] BY <1>11, <1>12
  <1>14. \A x \in 1 .. n : settle[x] \in Int BY <1>11
  <1>15. Distinct(settle)
    <2> SUFFICES ASSUME NEW x \in 1 .. n, NEW y \in 1 .. n, settle[x] = settle[y] PROVE x = y
      BY <1>10 DEF Distinct
    <2>1. ~ (x < y) /\ ~ (y < x) BY <1>13, <1>14
    <2> QED BY <2>1
  <1>16. Sorted(settle) BY <1>10, <1>13, <1>14 DEF Sorted
  <1> QED BY <1>9, <1>10, <1>15, <1>16

\* The first try that decides: no try did, a failed one, or one that makes a deck.
Comes(tries, k) == \A j \in 1 .. k - 1 : ~tries[j].fault /\ ~enough(tries[j])

LEMMA FirstDecides ==
  ASSUME NEW n \in Nat, NEW tries, DOMAIN tries = 1 .. n, \A k \in 1 .. n : AsRead(tries[k]),
         NEW o, Dealing(o), NEW d, d = predictCardSource(tries, o)
  PROVE  \/ d = NoDeck /\ \A k \in 1 .. n : ~tries[k].fault
         \/ d = Fault /\ \E k \in 1 .. n : Comes(tries, k) /\ tries[k].fault
         \/ /\ d.is = "deck" /\ d.source = "predict"
            /\ \E k \in 1 .. n : /\ Comes(tries, k) /\ enough(tries[k])
                                 /\ FromTry(d, tries[k], o)
            /\ ~ \E k \in 1 .. n : Comes(tries, k) /\ tries[k].fault
  <1> DEFINE over == {k \in DOMAIN tries : tries[k].fault \/ enough(tries[k])}
  <1>1. d = IF over = {} THEN NoDeck
            ELSE IF tries[Min(over)].fault THEN Fault ELSE predictDeck(tries[Min(over)], o)
    BY DEF predictCardSource
  <1>2. over \in SUBSET (1 .. n) OBVIOUS
  <1>3. \A k \in 1 .. n : k \in over <=> tries[k].fault \/ enough(tries[k]) OBVIOUS
  <1> HIDE DEF over
  <1>4. CASE over = {} BY <1>1, <1>3, <1>4
  <1>5. CASE over # {}
    <2>1. PICK m \in 1 .. n : m = Min(over) /\ m \in over /\ \A k \in over : m <= k
      BY <1>2, <1>5, LeastOf
    <2>2. Comes(tries, m)
      <3> SUFFICES ASSUME NEW j \in 1 .. m - 1 PROVE ~tries[j].fault /\ ~enough(tries[j])
        BY DEF Comes
      <3>1. j \in 1 .. n /\ ~ (m <= j) OBVIOUS
      <3> QED BY <1>3, <2>1, <3>1
    <2>3. CASE tries[m].fault BY <1>1, <1>5, <2>1, <2>2, <2>3
    <2>4. CASE ~tries[m].fault
      <3>1. enough(tries[m]) BY <1>3, <2>1, <2>4
      <3>2. d = predictDeck(tries[m], o) BY <1>1, <1>5, <2>1, <2>4
      <3>3. AsRead(tries[m]) OBVIOUS
      <3>4. FromTry(d, tries[m], o) BY <3>1, <3>2, <3>3, DeckOfTry
      <3>5. d.is = "deck" /\ d.source = "predict" BY <3>2 DEF predictDeck
      <3>6. ASSUME NEW k \in 1 .. n, Comes(tries, k), tries[k].fault PROVE FALSE
        <4>1. m <= k BY <1>3, <2>1, <3>6
        <4>2. k # m BY <2>4, <3>6
        <4>3. m \in 1 .. k - 1 BY <4>1, <4>2
        <4> QED BY <3>1, <3>6, <4>3 DEF Comes
      <3> QED BY <2>2, <3>1, <3>4, <3>5, <3>6
    <2> QED BY <2>3, <2>4
  <1> QED BY <1>4, <1>5

\* A deck's source is right, whatever the tries read and however many there are,
\* if each read a list of markets, the tiered one sorted (buildDeckFromSource).
THEOREM DeckSourceRight ==
  ASSUME NEW n \in Nat, NEW tries, DOMAIN tries = 1 .. n, \A k \in 1 .. n : AsRead(tries[k]),
         NEW mode \in {"predict", "auto", "pyth"}, NEW tier, NEW feed \in BOOLEAN,
         NEW o, Dealing(o)
  PROVE  SourceOf(mode, tier, tries, feed, o)
  <1> DEFINE d == buildDeckFromSource(mode, tier, tries, feed, o)
             Reached(k) == \A j \in 1 .. k - 1 : ~tries[j].fault /\ ~enough(tries[j])
             faulty == \E k \in DOMAIN tries : Reached(k) /\ tries[k].fault
  <1>1. PICK p : p = predictCardSource(tries, o) OBVIOUS
  <1>2. PICK y : y = pythCardSource(tier, feed, o) OBVIOUS
  <1>3. d = IF mode = "pyth" THEN y ELSE IF mode = "auto" /\ p = NoDeck THEN y ELSE p
    BY <1>1, <1>2 DEF buildDeckFromSource
  <1>4. \A k : Reached(k) <=> Comes(tries, k) BY DEF Comes
  <1>5. faulty <=> \E k \in 1 .. n : Comes(tries, k) /\ tries[k].fault BY <1>4
  <1>6. \/ p = NoDeck /\ \A k \in 1 .. n : ~tries[k].fault
        \/ p = Fault /\ faulty
        \/ /\ p.is = "deck" /\ p.source = "predict"
           /\ \E k \in 1 .. n : Comes(tries, k) /\ enough(tries[k]) /\ FromTry(p, tries[k], o)
           /\ ~faulty
    <2> HIDE DEF faulty
    <2> QED BY <1>1, <1>5, FirstDecides
  <1>7. \/ y = NoDeck /\ tier = "staked"
        \/ y = Fault /\ ~feed /\ tier # "staked"
        \/ /\ tier # "staked" /\ feed /\ y.is = "deck" /\ y.source = "pyth"
           /\ Len(y.cards) = Len(y.settleAt) /\ Distinct(y.settleAt) /\ Sorted(y.settleAt)
    BY <1>2, PythTimes DEF pythCardSource
  <1>8. NoDeck.is = "none" /\ Fault.is = "fault" BY DEF NoDeck, Fault
  <1> HIDE DEF d, Reached, faulty
  <1>9. (\A k \in 1 .. n : ~tries[k].fault) => ~faulty BY <1>5
  <1>10. d.is = "deck" /\ tier = "staked" => d.source = "predict" BY <1>3, <1>6, <1>7, <1>8
  <1>11. mode # "pyth" /\ faulty => d = Fault BY <1>3, <1>6, <1>8, <1>9
  <1>12. tier # "staked" /\ mode # "predict" /\ d.is # "deck" => d = Fault /\ (faulty \/ ~feed)
    BY <1>3, <1>6, <1>7, <1>8
  <1>13. d.is = "deck" /\ d.source = "predict" =>
           \E k \in DOMAIN tries : Reached(k) /\ enough(tries[k]) /\ FromTry(d, tries[k], o)
    BY <1>3, <1>4, <1>6, <1>7, <1>8
  <1>14. d.is = "deck" /\ d.source = "pyth" =>
           Len(d.cards) = Len(d.settleAt) /\ Distinct(d.settleAt) /\ Sorted(d.settleAt)
    BY <1>3, <1>6, <1>7, <1>8
  <1> QED BY <1>10, <1>11, <1>12, <1>13, <1>14 DEF SourceOf, d, Reached, faulty

\* The checked tries are such tries.
LEMMA OwnMembers == ASSUME NEW U, NEW s \in Seq(U) PROVE s \in Seq(ToSet(s))
  <1>1. PICK l \in Nat : l = Len(s) /\ DOMAIN s = 1 .. l OBVIOUS
  <1>2. \A i \in 1 .. l : s[i] \in ToSet(s) BY <1>1 DEF ToSet
  <1>3. s = [i \in 1 .. l |-> s[i]] BY <1>1
  <1> QED BY <1>2, <1>3

LEMMA MarketsInTries ==
  /\ Ordered(<<M(1), M(2)>>) /\ Ordered(<<M(1), M(2), M(3)>>)
  /\ \A t \in Tries : AsRead(t)
  <1>1. \A i \in Int : M(i).id = i /\ M(i).expiry = 10 + i BY DEF M
  <1>2. Ordered(<<M(1), M(2)>>) BY <1>1 DEF Ordered
  <1>3. Ordered(<<M(1), M(2), M(3)>>)
    <2>1. PICK s : s = <<M(1), M(2), M(3)>> OBVIOUS
    <2>2. Len(s) = 3 /\ \A x \in 1 .. 3 : s[x].id = x /\ s[x].expiry = 10 + x BY <1>1, <2>1
    <2> QED BY <2>1, <2>2 DEF Ordered
  <1>4. ASSUME NEW raw \in {<<>>, <<M(1), M(2)>>, <<M(1), M(2), M(3)>>, <<M(2)>>, <<M(1), M(3)>>}
        PROVE  raw \in Seq(ToSet(raw))
    <2>1. PICK a, b, c : a = M(1) /\ b = M(2) /\ c = M(3) OBVIOUS
    <2>2. raw \in {<<>>, <<a, b>>, <<a, b, c>>, <<b>>, <<a, c>>} BY <1>4, <2>1
    <2>3. raw \in Seq({a, b, c})
      <3>1. /\ <<>> \in Seq({a, b, c}) /\ <<a, b>> \in Seq({a, b, c})
            /\ <<a, b, c>> \in Seq({a, b, c}) /\ <<b>> \in Seq({a, b, c})
            /\ <<a, c>> \in Seq({a, b, c})
        OBVIOUS
      <3> QED BY <2>2, <3>1
    <2> QED BY <2>3, OwnMembers
  <1>5. ASSUME NEW t \in Tries PROVE AsRead(t)
    <2>1. /\ t.tiered \in {<<>>, <<M(1), M(2)>>, <<M(1), M(2), M(3)>>}
          /\ t.flat \in {<<>>, <<M(2)>>, <<M(1), M(3)>>}
          /\ t.fault \in BOOLEAN
      <3>1. CASE t = [tiered |-> <<>>, flat |-> <<>>, mintable |-> {}, fault |-> TRUE] BY <3>1
      <3>2. CASE \E a \in {<<>>, <<M(1), M(2)>>, <<M(1), M(2), M(3)>>},
                    b \in {<<>>, <<M(2)>>, <<M(1), M(3)>>}, ok \in SUBSET (1 .. 3) :
                   t = [tiered |-> a, flat |-> b, mintable |-> ok, fault |-> FALSE]
        BY <3>2
      <3> QED BY <3>1, <3>2 DEF Tries
    <2>2. t.tiered # <<>> => Ordered(t.tiered) BY <1>2, <1>3, <2>1
    <2> QED BY <1>4, <2>1, <2>2 DEF AsRead, usedTiered, rawMarkets
  <1> QED BY <1>2, <1>3, <1>5

LEMMA CheckedSources == ASSUME NEW tier PROVE SourceRight(tier)
  <1> SUFFICES ASSUME NEW first \in Tries, NEW second \in Tries,
                      NEW mode \in {"predict", "auto", "pyth"}, NEW feed \in BOOLEAN
               PROVE  SourceOf(mode, tier, <<first, second>>, feed, Choice)
    BY DEF SourceRight
  <1>1. PICK tries : tries = <<first, second>> OBVIOUS
  <1>2. DOMAIN tries = 1 .. 2 /\ \A k \in 1 .. 2 : AsRead(tries[k]) BY <1>1, MarketsInTries
  <1>3. Dealing(Choice) BY DEF Choice, Dealing, Sizes
  <1> QED BY <1>1, <1>2, <1>3, DeckSourceRight

\* A match gets the deck its mode and the reads call for, and the tier named
\* "staked" none that cannot be minted (buildDeckFromSource).
THEOREM MatchSourceKept == Spec => []SourceKept
  <1>1. TypeOK => SourceKept
    <2> SUFFICES ASSUME TypeOK PROVE SourceKept OBVIOUS
    <2>1. \A c \in Building : calls[c].tier \in QueueTiers
      <3> SUFFICES ASSUME NEW c \in Calls, calls[c].stage = "deck" PROVE calls[c].tier \in QueueTiers
        BY DEF Building
      <3>1. calls[c] \in Call BY DEF TypeOK
      <3>2. calls[c].tier \in Tiers BY <3>1 DEF Call, Idle
      <3> QED BY <3>2, TiersAreQueueable
    <2>2. \A tier \in QueueTiers \cup {"staked"} : SourcesRight[tier]
      BY CheckedSources DEF SourcesRight
    <2> QED BY <2>1, <2>2 DEF SourceKept
  <1> QED BY <1>1, MatchmakingTypes, PTL

-----------------------------------------------------------------------------
(* Selections.  Ranks: a member stands behind as many as are ahead of it. *)

\* ahead puts S in order.
InLine(S, ahead) ==
  /\ ahead \in [S -> SUBSET S]
  /\ \A i \in S : i \notin ahead[i]
  /\ \A i, j \in S : i = j \/ i \in ahead[j] \/ j \in ahead[i]
  /\ \A i, j, k \in S : i \in ahead[j] /\ j \in ahead[k] => i \in ahead[k]

\* s holds the n members of S, each behind the ones ahead of it.
Queued(s, S, ahead, n) ==
  /\ s \in Seq(S) /\ Len(s) = n
  /\ \A x, y \in 1 .. n : s[x] \in ahead[s[y]] <=> x < y
  /\ \A i \in S : \E x \in 1 .. n : s[x] = i

LEMMA InOrderIs ==
  ASSUME NEW S, IsFiniteSet(S), NEW ahead, InLine(S, ahead)
  PROVE  Queued(InOrder(S, ahead), S, ahead, Cardinality(S))
  <1>1. PICK n \in Nat : n = Cardinality(S) BY FS_CardinalityType
  <1>2. \A i \in S : ahead[i] \in SUBSET S BY DEF InLine
  <1>3. \A i \in S : IsFiniteSet(ahead[i]) /\ Cardinality(ahead[i]) \in Nat
    BY <1>2, FS_Subset, FS_CardinalityType
  <1>4. ASSUME NEW i \in S, NEW j \in S, i \in ahead[j]
        PROVE  Cardinality(ahead[i]) < Cardinality(ahead[j])
    <2>1. ahead[i] \in SUBSET ahead[j]
      <3> SUFFICES ASSUME NEW k \in ahead[i] PROVE k \in ahead[j] OBVIOUS
      <3>1. k \in S BY <1>2
      <3> QED BY <1>4, <3>1 DEF InLine
    <2>2. ahead[i] # ahead[j] BY <1>4 DEF InLine
    <2>3. /\ Cardinality(ahead[i]) <= Cardinality(ahead[j])
          /\ Cardinality(ahead[j]) # Cardinality(ahead[i])
      BY <1>3, <2>1, <2>2, FS_Subset
    <2> QED BY <1>3, <2>3
  <1>5. ASSUME NEW i \in S PROVE Cardinality(ahead[i]) \in 0 .. n - 1
    <2>1. ahead[i] # S BY DEF InLine
    <2>2. Cardinality(ahead[i]) <= Cardinality(S) /\ Cardinality(S) # Cardinality(ahead[i])
      BY <1>2, <2>1, FS_Subset
    <2> QED BY <1>1, <1>3, <2>2
  <1> DEFINE rank == [i \in S |-> Cardinality(ahead[i])]
  <1>6. rank \in [S -> 0 .. n - 1] BY <1>5
  <1>7. \A i, j \in S : rank[i] = rank[j] => i = j
    <2> SUFFICES ASSUME NEW i \in S, NEW j \in S, rank[i] = rank[j], i # j PROVE FALSE OBVIOUS
    <2>1. i \in ahead[j] \/ j \in ahead[i] BY DEF InLine
    <2>2. rank[i] \in Nat /\ rank[j] \in Nat BY <1>3
    <2> QED BY <1>4, <2>1, <2>2
  <1>8. rank \in Injection(S, 0 .. n - 1)
    <2> HIDE DEF rank
    <2> QED BY <1>6, <1>7 DEF Injection, IsInjective
  <1>9. IsFiniteSet(0 .. n - 1) /\ Cardinality(0 .. n - 1) = n
    <2>1. n - 1 \in Int /\ 0 \in Int OBVIOUS
    <2>2. Cardinality(0 .. n - 1) = IF 0 > n - 1 THEN 0 ELSE (n - 1) - 0 + 1 BY <2>1, FS_Interval
    <2> QED BY <2>1, <2>2, FS_Interval
  <1>10. rank \in Surjection(S, 0 .. n - 1)
    <2> HIDE DEF rank
    <2> QED BY <1>1, <1>8, <1>9, FS_Injection
  <1>11. \A x \in 1 .. n : \E i \in S : Cardinality(ahead[i]) = x - 1
    <2> SUFFICES ASSUME NEW x \in 1 .. n PROVE \E i \in S : Cardinality(ahead[i]) = x - 1 OBVIOUS
    <2>1. x - 1 \in 0 .. n - 1 OBVIOUS
    <2>2. \E i \in S : rank[i] = x - 1
      <3> HIDE DEF rank
      <3> QED BY <1>10, <2>1 DEF Surjection
    <2> QED BY <2>2
  <1>12. PICK s : s = InOrder(S, ahead) OBVIOUS
  <1>13. s = [x \in 1 .. n |-> CHOOSE i \in S : Cardinality(ahead[i]) = x - 1]
    BY <1>1, <1>12 DEF InOrder
  <1>14. \A x \in 1 .. n : s[x] \in S /\ Cardinality(ahead[s[x]]) = x - 1 BY <1>11, <1>13
  <1>15. s \in Seq(S) /\ Len(s) = n BY <1>13, <1>14
  <1>16. ASSUME NEW x \in 1 .. n, NEW y \in 1 .. n PROVE s[x] \in ahead[s[y]] <=> x < y
    <2>1. s[x] \in ahead[s[y]] => x < y BY <1>4, <1>14
    <2>2. s[y] \in ahead[s[x]] => y < x BY <1>4, <1>14
    <2>3. x < y => s[x] # s[y] BY <1>14
    <2>4. s[x] = s[y] \/ s[x] \in ahead[s[y]] \/ s[y] \in ahead[s[x]] BY <1>14 DEF InLine
    <2> QED BY <2>1, <2>2, <2>3, <2>4
  <1>17. ASSUME NEW i \in S PROVE \E x \in 1 .. n : s[x] = i
    <2>1. PICK r \in 0 .. n - 1 : r = rank[i] BY <1>6
    <2>2. r + 1 \in 1 .. n OBVIOUS
    <2>3. s[r + 1] \in S /\ rank[s[r + 1]] = rank[i] BY <1>14, <2>1, <2>2
    <2> HIDE DEF rank
    <2>4. s[r + 1] = i BY <1>7, <2>3
    <2> QED BY <2>2, <2>4
  <1>18. Queued(s, S, ahead, n) BY <1>15, <1>16, <1>17 DEF Queued
  <1> QED BY <1>1, <1>12, <1>18

\* t is the front of S in that order, of up to c members.
FrontOf(t, S, ahead, c) ==
  /\ t \in Seq(S) /\ Len(t) = (IF c < Cardinality(S) THEN c ELSE Cardinality(S))
  /\ \A x, y \in 1 .. Len(t) : t[x] \in ahead[t[y]] <=> x < y
  /\ \A x, y \in 1 .. Len(t) : t[x] = t[y] => x = y
  /\ ToSet(t) \subseteq S
  /\ IsFiniteSet(ToSet(t)) /\ Cardinality(ToSet(t)) = Len(t)
  /\ \A i \in ToSet(t), j \in S \ ToSet(t) : i \in ahead[j]

LEMMA FirstFew ==
  ASSUME NEW S, IsFiniteSet(S), NEW ahead, InLine(S, ahead), NEW c \in Nat,
         NEW t, t = Take(InOrder(S, ahead), c)
  PROVE  FrontOf(t, S, ahead, c)
  <1>1. PICK n \in Nat : n = Cardinality(S) BY FS_CardinalityType
  <1>2. PICK s : s = InOrder(S, ahead) /\ Queued(s, S, ahead, n) BY <1>1, InOrderIs
  <1>3. /\ s \in Seq(S) /\ Len(s) = n
        /\ \A x, y \in 1 .. n : s[x] \in ahead[s[y]] <=> x < y
        /\ \A i \in S : \E x \in 1 .. n : s[x] = i
    BY <1>2 DEF Queued
  <1>4. PICK l \in Nat : l = IF c < n THEN c ELSE n OBVIOUS
  <1>5. l <= n BY <1>4
  <1>6. t \in Seq(S) /\ Len(t) = l /\ \A x \in 1 .. l : x \in 1 .. n /\ t[x] = s[x]
    <2>1. t = Take(s, c) BY <1>2
    <2>2. /\ t \in Seq(S) /\ Len(t) = (IF c < Len(s) THEN c ELSE Len(s))
          /\ \A x \in 1 .. Len(t) : x \in 1 .. Len(s) /\ t[x] = s[x]
      BY <1>3, <2>1, TakeIs
    <2>3. Len(t) = l BY <1>3, <1>4, <2>2
    <2> QED BY <1>3, <2>2, <2>3
  <1>7. \A x, y \in 1 .. l : t[x] \in ahead[t[y]] <=> x < y BY <1>3, <1>6
  <1>8. \A x, y \in 1 .. l : t[x] = t[y] => x = y
    <2> SUFFICES ASSUME NEW x \in 1 .. l, NEW y \in 1 .. l, t[x] = t[y] PROVE x = y OBVIOUS
    <2>1. t[x] \in S BY <1>6
    <2>2. t[x] \notin ahead[t[x]] BY <2>1 DEF InLine
    <2>3. ~ (x < y) BY <1>7, <2>2
    <2>4. ~ (y < x) BY <1>7, <2>2
    <2> QED BY <2>3, <2>4
  <1>9. DOMAIN t = 1 .. l BY <1>6
  <1>10. \A i : i \in ToSet(t) <=> \E x \in 1 .. l : t[x] = i BY <1>9 DEF ToSet
  <1>11. ToSet(t) \subseteq S BY <1>6, <1>10
  <1>12. IsFiniteSet(ToSet(t)) /\ Cardinality(ToSet(t)) = l
    <2>1. PICK f : f = [x \in 1 .. l |-> t[x]] OBVIOUS
    <2>2. f \in [1 .. l -> ToSet(t)] /\ \A x, y \in 1 .. l : f[x] = f[y] => x = y
      BY <1>8, <1>10, <2>1
    <2>3. f \in Injection(1 .. l, ToSet(t)) BY <2>2 DEF Injection, IsInjective
    <2>4. f \in Surjection(1 .. l, ToSet(t)) BY <1>10, <2>1, <2>2 DEF Surjection
    <2>5. IsFiniteSet(1 .. l) /\ Cardinality(1 .. l) = l
      <3>1. 1 \in Int /\ l \in Int OBVIOUS
      <3>2. Cardinality(1 .. l) = IF 1 > l THEN 0 ELSE l - 1 + 1 BY <3>1, FS_Interval
      <3> QED BY <3>1, <3>2, FS_Interval
    <2> QED BY <2>3, <2>4, <2>5, FS_Surjection
  <1>13. ASSUME NEW i \in ToSet(t), NEW j \in S \ ToSet(t) PROVE i \in ahead[j]
    <2>1. PICK x \in 1 .. l : t[x] = i BY <1>10
    <2>2. PICK y \in 1 .. n : s[y] = j BY <1>3
    <2>3. y \notin 1 .. l BY <1>6, <1>10, <2>2
    <2>4. x < y BY <2>3
    <2> QED BY <1>3, <1>6, <2>1, <2>2, <2>4
  <1> QED BY <1>1, <1>4, <1>6, <1>7, <1>8, <1>11, <1>12, <1>13 DEF FrontOf

-----------------------------------------------------------------------------
(* The rows of a market feed, and what is asked of it. *)

Feed(rows) ==
  /\ Len(rows) \in Nat /\ DOMAIN rows = 1 .. Len(rows)
  /\ \A i \in 1 .. Len(rows) : rows[i].btc \in BOOLEAN /\ rows[i].expiry \in Int
                                                       /\ rows[i].created \in Int
Asked(o) ==
  /\ o.now \in Int /\ o.shortLifetime \in Int /\ o.midLifetime \in Int
  /\ o.shortFloor \in Sizes /\ o.midFloor \in Sizes /\ o.maxHorizon \in Nat
  /\ o.shortCount \in Nat /\ o.midCount \in Nat /\ o.minHeadroom \in Nat /\ o.count \in Nat

RowsAt(rows, S) == {rows[i] : i \in S}

LEMMA FirstsAre ==
  ASSUME NEW rows, Feed(rows)
  PROVE  /\ IsFiniteSet(FirstRows(rows)) /\ FirstRows(rows) \subseteq 1 .. Len(rows)
         /\ \A i, j \in FirstRows(rows) : rows[i].id = rows[j].id => i = j
         /\ \A i \in FirstRows(rows) : rows[i].btc
  <1>1. PICK n \in Nat : n = Len(rows) /\ DOMAIN rows = 1 .. n BY DEF Feed
  <1>2. FirstRows(rows) \in SUBSET (1 .. n) BY <1>1 DEF FirstRows
  <1>3. IsFiniteSet(1 .. n)
    <2>1. 1 \in Int /\ n \in Int OBVIOUS
    <2> QED BY <2>1, FS_Interval
  <1>4. IsFiniteSet(FirstRows(rows)) BY <1>2, <1>3, FS_Subset
  <1>5. ASSUME NEW i \in FirstRows(rows), NEW j \in FirstRows(rows), rows[i].id = rows[j].id
        PROVE  i = j
    <2>1. i \in 1 .. n /\ j \in 1 .. n BY <1>2
    <2>2. ~ (i < j)
      <3> SUFFICES ASSUME i < j PROVE FALSE OBVIOUS
      <3>1. i \in 1 .. j - 1 BY <2>1
      <3> QED BY <1>5, <3>1 DEF FirstRows
    <2>3. ~ (j < i)
      <3> SUFFICES ASSUME j < i PROVE FALSE OBVIOUS
      <3>1. j \in 1 .. i - 1 BY <2>1
      <3> QED BY <1>5, <3>1 DEF FirstRows
    <2> QED BY <2>1, <2>2, <2>3
  <1>6. \A i \in FirstRows(rows) : rows[i].btc BY DEF FirstRows
  <1> QED BY <1>1, <1>2, <1>4, <1>5, <1>6

\* The first row of a market is the least that tells of it.
LEMMA OfTierIs ==
  ASSUME NEW rows, Feed(rows), NEW tier, NEW floor, NEW o
  PROVE  OfTier(rows, tier, floor, o) =
           RowsAt(rows, {i \in FirstRows(rows) :
             /\ rows[i].expiry \in o.now + floor .. o.now + o.maxHorizon
             /\ classifyTier(rows[i], o) = tier})
  <1>1. PICK n \in Nat : n = Len(rows) /\ DOMAIN rows = 1 .. n BY DEF Feed
  <1> DEFINE Same(r) == {i \in DOMAIN rows : rows[i].btc /\ rows[i].id = r.id}
             In(r) == /\ r.expiry \in o.now + floor .. o.now + o.maxHorizon
                      /\ classifyTier(r, o) = tier
  <1>2. ASSUME NEW i \in FirstRows(rows)
        PROVE  /\ i \in 1 .. n /\ rows[i].btc /\ rows[i] \in ToSet(rows)
               /\ rows[i] = rows[Min(Same(rows[i]))]
    <2>1. i \in 1 .. n /\ rows[i].btc BY <1>1 DEF FirstRows
    <2>2. Same(rows[i]) \in SUBSET (1 .. n) /\ i \in Same(rows[i]) BY <1>1, <2>1
    <2>3. PICK m \in Same(rows[i]) : m = Min(Same(rows[i])) /\ m <= i
      <3> HIDE DEF Same
      <3> QED BY <2>2, LeastOf
    <2>4. m \in 1 .. n /\ rows[m].btc /\ rows[m].id = rows[i].id BY <2>2, <2>3
    <2>5. ~ (m < i)
      <3> SUFFICES ASSUME m < i PROVE FALSE OBVIOUS
      <3>1. m \in 1 .. i - 1 BY <2>1, <2>4
      <3> QED BY <2>4, <3>1 DEF FirstRows
    <2>6. m = i BY <2>1, <2>3, <2>4, <2>5
    <2>7. rows[i] \in ToSet(rows) BY <1>1, <2>1 DEF ToSet
    <2> QED BY <2>1, <2>3, <2>6, <2>7
  <1>3. ASSUME NEW r \in ToSet(rows), r.btc, r = rows[Min(Same(r))]
        PROVE  \E i \in FirstRows(rows) : r = rows[i]
    <2>1. PICK k \in 1 .. n : r = rows[k] BY <1>1 DEF ToSet
    <2>2. Same(r) \in SUBSET (1 .. n) /\ k \in Same(r) BY <1>1, <1>3, <2>1
    <2>3. PICK m \in Same(r) : m = Min(Same(r)) /\ \A j \in Same(r) : m <= j
      <3> HIDE DEF Same
      <3> QED BY <2>2, LeastOf
    <2>4. m \in 1 .. n /\ rows[m].btc /\ rows[m].id = r.id BY <2>2, <2>3
    <2>5. r = rows[m] BY <1>3, <2>3
    <2>6. m \in FirstRows(rows)
      <3> SUFFICES ASSUME NEW j \in 1 .. m - 1, rows[j].btc, rows[j].id = rows[m].id PROVE FALSE
        BY <1>1, <2>4 DEF FirstRows
      <3>1. j \in 1 .. n /\ ~ (m <= j) BY <2>4
      <3>2. j \in Same(r) BY <1>1, <2>4, <3>1
      <3> QED BY <2>3, <3>1, <3>2
    <2> QED BY <2>5, <2>6
  <1>4. OfTier(rows, tier, floor, o) =
          {r \in ToSet(rows) : r.btc /\ In(r) /\ r = rows[Min(Same(r))]}
    BY DEF OfTier
  <1>5. RowsAt(rows, {i \in FirstRows(rows) : In(rows[i])}) =
          {r \in ToSet(rows) : r.btc /\ In(r) /\ r = rows[Min(Same(r))]}
    <2> HIDE DEF In, Same
    <2> QED BY <1>2, <1>3 DEF RowsAt
  <1> QED BY <1>4, <1>5

LEMMA MinOfTwo ==
  ASSUME NEW a \in Nat, NEW b \in Nat
  PROVE  Min({a, b}) = IF b < a THEN b ELSE a
  <1>1. PICK m : m = IF b < a THEN b ELSE a OBVIOUS
  <1>2. m \in {a, b} /\ m \in Nat /\ \A y \in {a, b} : m <= y BY <1>1
  <1>3. PICK c : c = CHOOSE x \in {a, b} : \A y \in {a, b} : x <= y OBVIOUS
  <1>4. c \in {a, b} /\ \A y \in {a, b} : c <= y BY <1>2, <1>3
  <1>5. c = m BY <1>2, <1>4
  <1> QED BY <1>1, <1>3, <1>5 DEF Min

\* Rows of different markets are as many as their places.
LEMMA RowsAtAre ==
  ASSUME NEW rows, Feed(rows), NEW S \in SUBSET FirstRows(rows)
  PROVE  /\ IsFiniteSet(S) /\ IsFiniteSet(RowsAt(rows, S))
         /\ Cardinality(RowsAt(rows, S)) = Cardinality(S)
         /\ \A i \in FirstRows(rows) : rows[i] \in RowsAt(rows, S) <=> i \in S
  <1>1. IsFiniteSet(S) BY FirstsAre, FS_Subset
  <1>2. \A i, j \in FirstRows(rows) : rows[i] = rows[j] => i = j BY FirstsAre
  <1>3. PICK f : f = [i \in S |-> rows[i]] OBVIOUS
  <1>4. f \in [S -> RowsAt(rows, S)] BY <1>3 DEF RowsAt
  <1>5. f \in Injection(S, RowsAt(rows, S))
    BY <1>2, <1>3, <1>4 DEF Injection, IsInjective
  <1>6. f \in Surjection(S, RowsAt(rows, S)) BY <1>3, <1>4 DEF Surjection, RowsAt
  <1>7. /\ IsFiniteSet(RowsAt(rows, S))
        /\ Cardinality(RowsAt(rows, S)) = Cardinality(S)
    BY <1>1, <1>5, <1>6, FS_Surjection
  <1>8. \A i \in FirstRows(rows) : rows[i] \in RowsAt(rows, S) <=> i \in S
    BY <1>2 DEF RowsAt
  <1> QED BY <1>1, <1>7, <1>8

\* Different places, in the order their rows settle; and the list of those rows.
Ascends(rows, t) ==
  \A x, y \in 1 .. Len(t) : /\ t[x] = t[y] => x = y
                            /\ x < y => rows[t[x]].expiry <= rows[t[y]].expiry
Lists(list, rows, t) ==
  /\ ToSet(list) = RowsAt(rows, ToSet(t)) /\ Len(list) = Len(t)
  /\ list \in Seq(ToSet(list))
  /\ Distinct([i \in DOMAIN list |-> list[i].id])
  /\ Sorted([i \in DOMAIN list |-> list[i].expiry])

LEMMA ListOfRows ==
  ASSUME NEW rows, Feed(rows), NEW S \in SUBSET FirstRows(rows), NEW t \in Seq(S),
         Ascends(rows, t), NEW list, list = [i \in DOMAIN t |-> rows[t[i]]]
  PROVE  Lists(list, rows, t)
  <1>1. PICK l \in Nat : l = Len(t) /\ DOMAIN t = 1 .. l OBVIOUS
  <1>2. \A x \in 1 .. l : t[x] \in S /\ t[x] \in FirstRows(rows) BY <1>1
  <1>3. DOMAIN list = 1 .. l /\ \A x \in 1 .. l : list[x] = rows[t[x]] BY <1>1
  <1>4. Len(list) = l BY <1>1
  <1>5. ToSet(list) = RowsAt(rows, ToSet(t)) BY <1>1, <1>3 DEF ToSet, RowsAt
  <1>6. \A x, y \in 1 .. l : rows[t[x]].id = rows[t[y]].id => x = y
    BY <1>1, <1>2, FirstsAre DEF Ascends
  <1>7. Distinct([i \in DOMAIN list |-> list[i].id]) BY <1>3, <1>6 DEF Distinct
  <1>8. Sorted([i \in DOMAIN list |-> list[i].expiry])
    <2>1. PICK e : e = [i \in DOMAIN list |-> list[i].expiry] OBVIOUS
    <2>2. DOMAIN e = 1 .. l /\ \A x \in 1 .. l : e[x] = rows[t[x]].expiry BY <1>3, <2>1
    <2>3. \A x, y \in 1 .. l : x < y => e[x] <= e[y] BY <1>1, <2>2 DEF Ascends
    <2> QED BY <2>1, <2>2, <2>3 DEF Sorted
  <1>9. list \in Seq(ToSet(list))
    <2>1. \A x \in 1 .. l : list[x] \in ToSet(list) BY <1>3 DEF ToSet
    <2>2. list = [x \in 1 .. l |-> list[x]] BY <1>1, <1>3
    <2> QED BY <2>1, <2>2
  <1> QED BY <1>1, <1>4, <1>5, <1>7, <1>8, <1>9 DEF Lists

\* The soonest of S: as many as there are up to c, none later than one left out.
Soonest(t, rows, S, c) ==
  /\ t \in Seq(S) /\ Len(t) = Min({Cardinality(S), c}) /\ Ascends(rows, t)
  /\ ToSet(t) \in SUBSET S /\ Cardinality(ToSet(t)) = Len(t)
  /\ \A i \in ToSet(t), j \in S \ ToSet(t) : rows[j].expiry >= rows[i].expiry

LEMMA SoonestAre ==
  ASSUME NEW rows, Feed(rows), NEW S \in SUBSET FirstRows(rows), NEW c \in Nat,
         NEW t, t = Take(SoonestFirst(rows, S), c)
  PROVE  Soonest(t, rows, S, c)
  <1>1. \A i \in S : i \in Int /\ rows[i].expiry \in Int BY FirstsAre DEF Feed
  <1>2. PICK ahead : ahead = [i \in S |-> {j \in S : \/ rows[j].expiry < rows[i].expiry
                                                     \/ rows[j].expiry = rows[i].expiry /\ j < i}]
    OBVIOUS
  <1>3. \A i, j \in S : j \in ahead[i] <=> \/ rows[j].expiry < rows[i].expiry
                                           \/ rows[j].expiry = rows[i].expiry /\ j < i
    BY <1>2
  <1>4. ahead \in [S -> SUBSET S] BY <1>2
  <1>5. InLine(S, ahead) BY <1>1, <1>3, <1>4 DEF InLine
  <1>6. IsFiniteSet(S) /\ Cardinality(S) \in Nat BY RowsAtAre, FS_CardinalityType
  <1>7. t = Take(InOrder(S, ahead), c) BY <1>2 DEF SoonestFirst
  <1>8. /\ t \in Seq(S) /\ Len(t) = (IF c < Cardinality(S) THEN c ELSE Cardinality(S))
        /\ \A x, y \in 1 .. Len(t) : t[x] \in ahead[t[y]] <=> x < y
        /\ \A x, y \in 1 .. Len(t) : t[x] = t[y] => x = y
        /\ ToSet(t) \subseteq S /\ Cardinality(ToSet(t)) = Len(t)
        /\ \A i \in ToSet(t), j \in S \ ToSet(t) : i \in ahead[j]
    <2>1. FrontOf(t, S, ahead, c) BY <1>5, <1>6, <1>7, FirstFew
    <2> QED BY <2>1 DEF FrontOf
  <1>9. Len(t) = Min({Cardinality(S), c}) BY <1>6, <1>8, MinOfTwo
  <1>10. PICK l \in Nat : l = Len(t) /\ \A x \in 1 .. l : t[x] \in S BY <1>8
  <1>11. ASSUME NEW x \in 1 .. l, NEW y \in 1 .. l, x < y
         PROVE  rows[t[x]].expiry <= rows[t[y]].expiry
    <2>1. PICK i \in S, j \in S : i = t[x] /\ j = t[y] BY <1>10
    <2>2. i \in ahead[j] BY <1>8, <1>10, <1>11, <2>1
    <2>3. \/ rows[i].expiry < rows[j].expiry
          \/ rows[i].expiry = rows[j].expiry /\ i < j
      BY <1>3, <2>2
    <2> QED BY <1>1, <2>1, <2>3
  <1>12. \A i \in ToSet(t), j \in S \ ToSet(t) : rows[j].expiry >= rows[i].expiry
    BY <1>1, <1>3, <1>8
  <1>13. Ascends(rows, t) BY <1>8, <1>10, <1>11 DEF Ascends
  <1> QED BY <1>8, <1>9, <1>12, <1>13 DEF Soonest

\* The latest of S, likewise.
Latest(t, rows, S, c) ==
  /\ ToSet(t) \in SUBSET S /\ Cardinality(ToSet(t)) = Min({Cardinality(S), c})
  /\ \A i \in ToSet(t), j \in S \ ToSet(t) : rows[j].expiry <= rows[i].expiry

LEMMA LatestAre ==
  ASSUME NEW rows, Feed(rows), NEW S \in SUBSET FirstRows(rows), NEW c \in Nat,
         NEW t, t = Take(LatestFirst(rows, S), c)
  PROVE  Latest(t, rows, S, c)
  <1>1. \A i \in S : i \in Int /\ rows[i].expiry \in Int BY FirstsAre DEF Feed
  <1>2. PICK ahead : ahead = [i \in S |-> {j \in S : \/ rows[j].expiry > rows[i].expiry
                                                     \/ rows[j].expiry = rows[i].expiry /\ j < i}]
    OBVIOUS
  <1>3. \A i, j \in S : j \in ahead[i] <=> \/ rows[j].expiry > rows[i].expiry
                                           \/ rows[j].expiry = rows[i].expiry /\ j < i
    BY <1>2
  <1>4. ahead \in [S -> SUBSET S] BY <1>2
  <1>5. InLine(S, ahead) BY <1>1, <1>3, <1>4 DEF InLine
  <1>6. IsFiniteSet(S) /\ Cardinality(S) \in Nat BY RowsAtAre, FS_CardinalityType
  <1>7. t = Take(InOrder(S, ahead), c) BY <1>2 DEF LatestFirst
  <1>8. /\ Len(t) = (IF c < Cardinality(S) THEN c ELSE Cardinality(S))
        /\ ToSet(t) \subseteq S /\ Cardinality(ToSet(t)) = Len(t)
        /\ \A i \in ToSet(t), j \in S \ ToSet(t) : i \in ahead[j]
    <2>1. FrontOf(t, S, ahead, c) BY <1>5, <1>6, <1>7, FirstFew
    <2> QED BY <2>1 DEF FrontOf
  <1>9. Len(t) = Min({Cardinality(S), c}) BY <1>6, <1>8, MinOfTwo
  <1>10. \A i \in ToSet(t), j \in S \ ToSet(t) : rows[j].expiry <= rows[i].expiry
    BY <1>1, <1>3, <1>8
  <1> QED BY <1>8, <1>9, <1>10 DEF Latest

\* The places that the flat selection may pick, and what it makes of them.
Far(rows, o) == {i \in FirstRows(rows) : /\ rows[i].expiry > o.now + o.minHeadroom
                                         /\ rows[i].expiry <= o.now + o.maxHorizon}
InTurn(list) ==
  /\ list \in Seq(ToSet(list))
  /\ Distinct([i \in DOMAIN list |-> list[i].id])
  /\ Sorted([i \in DOMAIN list |-> list[i].expiry])
SoonestOf(flat, far, c) ==
  /\ ToSet(flat) \subseteq far
  /\ Len(flat) = Min({Cardinality(far), c})
  /\ \A r \in ToSet(flat), q \in far : q \in ToSet(flat) \/ q.expiry >= r.expiry

LEMMA PickFlat ==
  ASSUME NEW rows, Feed(rows), NEW o, Asked(o), NEW flat, flat = selectMarketRows(rows, o)
  PROVE  InTurn(flat) /\ SoonestOf(flat, RowsAt(rows, Far(rows, o)), o.count)
  <1>0. PICK far \in SUBSET FirstRows(rows) : far = Far(rows, o) BY DEF Far
  <1>1. PICK c \in Nat : c = o.count BY DEF Asked
  <1>2. PICK t : t = Take(SoonestFirst(rows, far), c) OBVIOUS
  <1>3. flat = [i \in DOMAIN t |-> rows[t[i]]] BY <1>0, <1>1, <1>2 DEF selectMarketRows, Far
  <1>4. /\ t \in Seq(far) /\ Len(t) = Min({Cardinality(far), c})
        /\ Ascends(rows, t) /\ ToSet(t) \in SUBSET far
        /\ \A i \in ToSet(t), j \in far \ ToSet(t) : rows[j].expiry >= rows[i].expiry
    <2>1. Soonest(t, rows, far, c) BY <1>2, SoonestAre
    <2> QED BY <2>1 DEF Soonest
  <1>5. /\ ToSet(flat) = RowsAt(rows, ToSet(t)) /\ Len(flat) = Len(t)
        /\ flat \in Seq(ToSet(flat))
        /\ Distinct([i \in DOMAIN flat |-> flat[i].id])
        /\ Sorted([i \in DOMAIN flat |-> flat[i].expiry])
    <2>1. Lists(flat, rows, t) BY <1>3, <1>4, ListOfRows
    <2> QED BY <2>1 DEF Lists
  <1>6. Cardinality(RowsAt(rows, far)) = Cardinality(far) BY RowsAtAre
  <1>7. ToSet(flat) \subseteq RowsAt(rows, far) BY <1>4, <1>5 DEF RowsAt
  <1>8. ASSUME NEW r \in ToSet(flat), NEW q \in RowsAt(rows, far)
        PROVE  q \in ToSet(flat) \/ q.expiry >= r.expiry
    <2>1. PICK i \in ToSet(t) : r = rows[i] BY <1>5 DEF RowsAt
    <2>2. PICK j \in far : q = rows[j] BY DEF RowsAt
    <2>3. j \in ToSet(t) => q \in ToSet(flat) BY <1>5, <2>2 DEF RowsAt
    <2> QED BY <1>4, <2>1, <2>2, <2>3
  <1> QED BY <1>0, <1>1, <1>4, <1>5, <1>6, <1>7, <1>8 DEF InTurn, SoonestOf

LEMMA SafeIs ==
  ASSUME NEW rows, Feed(rows), NEW tier, NEW floor \in Sizes, NEW o, Asked(o)
  PROVE  /\ Safe(rows, tier, floor, o) \in SUBSET FirstRows(rows)
         /\ \A i \in Safe(rows, tier, floor, o) : classifyTier(rows[i], o) = tier
         /\ OfTier(rows, tier, floor, o) = RowsAt(rows, Safe(rows, tier, floor, o))
  <1>1. \A i \in FirstRows(rows) : rows[i].expiry \in Int BY FirstsAre DEF Feed
  <1>2. PICK now \in Int, horizon \in Nat : now = o.now /\ horizon = o.maxHorizon BY DEF Asked
  <1>3. floor \in Nat /\ floor >= 1 BY DEF Sizes
  <1>4. \A i \in FirstRows(rows) :
          rows[i].expiry \in now + floor .. now + horizon <=>
            /\ rows[i].expiry - now > 0 /\ rows[i].expiry - now <= horizon
            /\ rows[i].expiry - now >= floor
    BY <1>1, <1>2, <1>3
  <1>5. Safe(rows, tier, floor, o) =
          {i \in FirstRows(rows) : /\ rows[i].expiry \in o.now + floor .. o.now + o.maxHorizon
                                   /\ classifyTier(rows[i], o) = tier}
    BY <1>2, <1>4 DEF Safe
  <1> QED BY <1>5, OfTierIs

\* The tiered selection holds the short and the mid places picked, and no other.
PickedOf(shorts, mids, rows, o) ==
  /\ shorts \subseteq FirstRows(rows) /\ mids \subseteq FirstRows(rows) /\ shorts \cap mids = {}
  /\ shorts = ToSet(Take(LatestFirst(rows, Safe(rows, "short", o.shortFloor, o)), o.shortCount))
  /\ mids = ToSet(Take(SoonestFirst(rows, Safe(rows, "mid", o.midFloor, o)), o.midCount))

LEMMA PickTiered ==
  ASSUME NEW rows, Feed(rows), NEW o, NEW shorts, NEW mids, PickedOf(shorts, mids, rows, o),
         NEW tiered, tiered = selectTieredMarkets(rows, o)
  PROVE  InTurn(tiered) /\ ToSet(tiered) = RowsAt(rows, shorts \cup mids)
  <1> DEFINE Before(i, j) == \/ rows[i].expiry < rows[j].expiry
                             \/ /\ rows[i].expiry = rows[j].expiry
                                /\ \/ i \in shorts /\ j \in mids
                                   \/ i < j /\ (i \in shorts <=> j \in shorts)
  <1>0. /\ shorts \subseteq FirstRows(rows) /\ mids \subseteq FirstRows(rows)
        /\ shorts \cap mids = {}
        /\ shorts = ToSet(Take(LatestFirst(rows, Safe(rows, "short", o.shortFloor, o)), o.shortCount))
        /\ mids = ToSet(Take(SoonestFirst(rows, Safe(rows, "mid", o.midFloor, o)), o.midCount))
    BY DEF PickedOf
  <1>1. PICK both \in SUBSET FirstRows(rows) : both = shorts \cup mids BY <1>0
  <1>2. PICK ahead : ahead = [i \in both |-> {j \in both : Before(j, i)}] OBVIOUS
  <1>3. PICK picked : picked = InOrder(both, ahead) OBVIOUS
  <1>4. tiered = [i \in DOMAIN picked |-> rows[picked[i]]]
    BY <1>0, <1>1, <1>2, <1>3 DEF selectTieredMarkets
  <1>5. \A i \in both : /\ i \in Int /\ rows[i].expiry \in Int
                        /\ i \in shorts <=> ~ (i \in mids)
    BY <1>0, <1>1, FirstsAre DEF Feed
  <1>6. \A i, j \in both : j \in ahead[i] <=> Before(j, i) BY <1>2
  <1>7. ahead \in [both -> SUBSET both] BY <1>2
  <1>8. InLine(both, ahead) BY <1>5, <1>6, <1>7 DEF InLine
  <1>9. IsFiniteSet(both) /\ Cardinality(both) \in Nat BY RowsAtAre, FS_CardinalityType
  <1>10. PICK n \in Nat : n = Cardinality(both) BY <1>9
  <1>11. /\ picked \in Seq(both) /\ Len(picked) = n
         /\ \A x, y \in 1 .. n : picked[x] \in ahead[picked[y]] <=> x < y
         /\ \A i \in both : \E x \in 1 .. n : picked[x] = i
    <2>1. Queued(picked, both, ahead, n) BY <1>3, <1>8, <1>9, <1>10, InOrderIs
    <2> QED BY <2>1 DEF Queued
  <1>12. \A x \in 1 .. n : picked[x] \in both BY <1>11
  <1>13. ASSUME NEW x \in 1 .. n, NEW y \in 1 .. n, picked[x] = picked[y] PROVE x = y
    <2>1. picked[x] \notin ahead[picked[x]] BY <1>8, <1>12 DEF InLine
    <2>2. ~ (x < y) BY <1>11, <1>13, <2>1
    <2>3. ~ (y < x) BY <1>11, <1>13, <2>1
    <2> QED BY <2>2, <2>3
  <1>14. ASSUME NEW x \in 1 .. n, NEW y \in 1 .. n, x < y
         PROVE  rows[picked[x]].expiry <= rows[picked[y]].expiry
    <2>1. PICK i \in both, j \in both : i = picked[x] /\ j = picked[y] BY <1>12
    <2>2. i \in ahead[j] BY <1>11, <1>14, <2>1
    <2>3. Before(i, j) BY <1>6, <2>2
    <2> QED BY <1>5, <2>1, <2>3
  <1> HIDE DEF Before
  <1>15. /\ ToSet(tiered) = RowsAt(rows, ToSet(picked)) /\ tiered \in Seq(ToSet(tiered))
         /\ Distinct([i \in DOMAIN tiered |-> tiered[i].id])
         /\ Sorted([i \in DOMAIN tiered |-> tiered[i].expiry])
    <2>1. Ascends(rows, picked) BY <1>11, <1>13, <1>14 DEF Ascends
    <2>2. Lists(tiered, rows, picked) BY <1>4, <1>11, <2>1, ListOfRows
    <2> QED BY <2>2 DEF Lists
  <1>16. ToSet(picked) = both
    <2>1. DOMAIN picked = 1 .. n BY <1>11
    <2> QED BY <1>11, <1>12, <2>1 DEF ToSet
  <1> QED BY <1>1, <1>15, <1>16 DEF InTurn

\* A tier of the selection: as many of its places as there are up to a count.
TierAt(S, T, both, rows, tier, o, c) ==
  /\ S \subseteq FirstRows(rows) /\ T \subseteq S /\ Cardinality(T) = Min({Cardinality(S), c})
  /\ T \subseteq both
  /\ \A i \in T : classifyTier(rows[i], o) = tier
  /\ \A i \in both \ T : classifyTier(rows[i], o) # tier
InTier(found, list, tier, o) == found = {r \in ToSet(list) : classifyTier(r, o) = tier}

LEMMA TierPicked ==
  ASSUME NEW rows, Feed(rows), NEW S, NEW T, NEW both, NEW o, NEW tier, NEW c, NEW list,
         ToSet(list) = RowsAt(rows, both), TierAt(S, T, both, rows, tier, o, c),
         NEW found, InTier(found, list, tier, o)
  PROVE  /\ found = RowsAt(rows, T) /\ found \subseteq RowsAt(rows, S)
         /\ Cardinality(found) = Min({Cardinality(RowsAt(rows, S)), c})
  <1>1. found = RowsAt(rows, T) BY DEF RowsAt, TierAt, InTier
  <1>2. found \subseteq RowsAt(rows, S) BY <1>1 DEF RowsAt, TierAt
  <1>3. /\ T \in SUBSET FirstRows(rows) /\ S \in SUBSET FirstRows(rows)
        /\ Cardinality(T) = Min({Cardinality(S), c})
    BY DEF TierAt
  <1>4. Cardinality(RowsAt(rows, T)) = Cardinality(T) BY <1>3, RowsAtAre
  <1>5. Cardinality(RowsAt(rows, S)) = Cardinality(S) BY <1>3, RowsAtAre
  <1> QED BY <1>1, <1>2, <1>3, <1>4, <1>5

LEMMA SelectionParts ==
  ASSUME NEW rows, Feed(rows), NEW o, Asked(o)
  PROVE  /\ Selects(rows, o)
         /\ InTurn(selectMarketRows(rows, o)) /\ InTurn(selectTieredMarkets(rows, o))
  <1> DEFINE far == {r \in UNION {OfTier(rows, t, 0, o) : t \in {"short", "mid", "long"}} :
                       r.expiry > o.now + o.minHeadroom}
             Picked(tier, list) == {r \in ToSet(list) : classifyTier(r, o) = tier}
  <1>1. PICK flat : flat = selectMarketRows(rows, o) OBVIOUS
  <1>2. PICK tiered : tiered = selectTieredMarkets(rows, o) OBVIOUS
  <1>3. PICK short : short = OfTier(rows, "short", o.shortFloor, o) OBVIOUS
  <1>4. PICK mid : mid = OfTier(rows, "mid", o.midFloor, o) OBVIOUS
  <1>5. \A i \in FirstRows(rows) : rows[i].expiry \in Int BY FirstsAre DEF Feed
  <1>6. o.shortFloor \in Sizes /\ o.midFloor \in Sizes /\ o.shortCount \in Nat /\ o.midCount \in Nat
    BY DEF Asked
  <1>7. PICK S1 \in SUBSET FirstRows(rows) :
          /\ S1 = Safe(rows, "short", o.shortFloor, o) /\ short = RowsAt(rows, S1)
          /\ \A i \in S1 : classifyTier(rows[i], o) = "short"
    BY <1>3, <1>6, SafeIs
  <1>8. PICK S2 \in SUBSET FirstRows(rows) :
          /\ S2 = Safe(rows, "mid", o.midFloor, o) /\ mid = RowsAt(rows, S2)
          /\ \A i \in S2 : classifyTier(rows[i], o) = "mid"
    BY <1>4, <1>6, SafeIs
  <1>9. PICK T1 \in SUBSET S1 :
          /\ T1 = ToSet(Take(LatestFirst(rows, S1), o.shortCount))
          /\ Cardinality(T1) = Min({Cardinality(S1), o.shortCount})
          /\ \A i \in T1, j \in S1 \ T1 : rows[j].expiry <= rows[i].expiry
    <2>1. PICK t : t = Take(LatestFirst(rows, S1), o.shortCount) OBVIOUS
    <2>2. Latest(t, rows, S1, o.shortCount) BY <1>6, <2>1, LatestAre
    <2> QED BY <2>1, <2>2 DEF Latest
  <1>10. PICK T2 \in SUBSET S2 :
           /\ T2 = ToSet(Take(SoonestFirst(rows, S2), o.midCount))
           /\ Cardinality(T2) = Min({Cardinality(S2), o.midCount})
           /\ \A i \in T2, j \in S2 \ T2 : rows[j].expiry >= rows[i].expiry
    <2>1. PICK t : t = Take(SoonestFirst(rows, S2), o.midCount) OBVIOUS
    <2>2. Soonest(t, rows, S2, o.midCount) BY <1>6, <2>1, SoonestAre
    <2> QED BY <2>1, <2>2 DEF Soonest
  <1>11. PICK both \in SUBSET FirstRows(rows) : both = T1 \cup T2 OBVIOUS
  <1>12. /\ \A i \in T1 : classifyTier(rows[i], o) = "short"
         /\ \A i \in T2 : classifyTier(rows[i], o) = "mid"
    BY <1>7, <1>8
  <1>13. InTurn(tiered) /\ ToSet(tiered) = RowsAt(rows, both)
    <2>1. T1 \in SUBSET FirstRows(rows) /\ T2 \in SUBSET FirstRows(rows) OBVIOUS
    <2>2. T1 \cap T2 = {} BY <1>12
    <2>3. /\ T1 = ToSet(Take(LatestFirst(rows, Safe(rows, "short", o.shortFloor, o)), o.shortCount))
          /\ T2 = ToSet(Take(SoonestFirst(rows, Safe(rows, "mid", o.midFloor, o)), o.midCount))
      BY <1>7, <1>8, <1>9, <1>10
    <2>4. PickedOf(T1, T2, rows, o) BY <2>1, <2>2, <2>3 DEF PickedOf
    <2> QED BY <1>2, <1>11, <2>4, PickTiered
  <1>14. PICK F \in SUBSET FirstRows(rows) : F = Far(rows, o) BY DEF Far
  <1>15. far = RowsAt(rows, F)
    <2>1. PICK now \in Int, head \in Nat, top \in Int :
            now = o.now /\ head = o.minHeadroom /\ top = o.now + o.maxHorizon
      BY DEF Asked
    <2>2. \A i \in FirstRows(rows) : classifyTier(rows[i], o) \in {"short", "mid", "long"}
      BY DEF classifyTier
    <2>3. \A t : OfTier(rows, t, 0, o) =
             RowsAt(rows, {i \in FirstRows(rows) : /\ rows[i].expiry \in now + 0 .. top
                                                   /\ classifyTier(rows[i], o) = t})
      BY <2>1, OfTierIs
    <2>4. \A i \in FirstRows(rows) :
            rows[i].expiry \in now + 0 .. top /\ rows[i].expiry > now + head
              <=> rows[i].expiry > now + head /\ rows[i].expiry <= top
      BY <1>5, <2>1
    <2>5. ASSUME NEW r PROVE r \in far <=> r \in RowsAt(rows, F)
      <3>1. r \in far <=> \E t \in {"short", "mid", "long"}, i \in FirstRows(rows) :
                            /\ r = rows[i] /\ rows[i].expiry \in now + 0 .. top
                            /\ classifyTier(rows[i], o) = t /\ r.expiry > now + head
        BY <2>1, <2>3 DEF RowsAt
      <3>2. r \in RowsAt(rows, F) <=> \E i \in FirstRows(rows) :
                            r = rows[i] /\ rows[i].expiry > now + head /\ rows[i].expiry <= top
        BY <1>14, <2>1 DEF RowsAt, Far
      <3> HIDE DEF far
      <3> QED BY <2>2, <2>4, <3>1, <3>2
    <2> HIDE DEF far
    <2>6. far \subseteq RowsAt(rows, F) /\ RowsAt(rows, F) \subseteq far BY <2>5
    <2> QED BY <2>6
  <1>16. InTurn(flat) /\ SoonestOf(flat, far, o.count)
    <2> HIDE DEF far
    <2> QED BY <1>1, <1>14, <1>15, PickFlat
  <1>17. PICK P1, P2 : P1 = Picked("short", tiered) /\ P2 = Picked("mid", tiered) OBVIOUS
  <1>18. /\ P1 = RowsAt(rows, T1) /\ P1 \subseteq short
         /\ Cardinality(P1) = Min({Cardinality(short), o.shortCount})
    <2>1. TierAt(S1, T1, both, rows, "short", o, o.shortCount) BY <1>9, <1>11, <1>12 DEF TierAt
    <2>2. InTier(P1, tiered, "short", o) BY <1>17 DEF InTier
    <2> QED BY <1>7, <1>13, <2>1, <2>2, TierPicked
  <1>19. /\ P2 = RowsAt(rows, T2) /\ P2 \subseteq mid
         /\ Cardinality(P2) = Min({Cardinality(mid), o.midCount})
    <2>1. TierAt(S2, T2, both, rows, "mid", o, o.midCount) BY <1>10, <1>11, <1>12 DEF TierAt
    <2>2. InTier(P2, tiered, "mid", o) BY <1>17 DEF InTier
    <2> QED BY <1>8, <1>13, <2>1, <2>2, TierPicked
  <1>20. Picked("long", tiered) = {}
    <2> SUFFICES ASSUME NEW r \in ToSet(tiered), classifyTier(r, o) = "long" PROVE FALSE OBVIOUS
    <2>1. PICK i \in both : r = rows[i] BY <1>13 DEF RowsAt
    <2> QED BY <1>11, <1>12, <2>1
  <1>21. \A r \in P1, q \in short \ P1 : q.expiry <= r.expiry
    <2> SUFFICES ASSUME NEW r \in P1, NEW q \in short \ P1 PROVE q.expiry <= r.expiry OBVIOUS
    <2>1. PICK i \in T1 : r = rows[i] BY <1>18 DEF RowsAt
    <2>2. PICK j \in S1 : q = rows[j] BY <1>7 DEF RowsAt
    <2>3. j \notin T1 BY <1>18, <2>2 DEF RowsAt
    <2> QED BY <1>9, <2>1, <2>2, <2>3
  <1>22. \A r \in P2, q \in mid \ P2 : q.expiry >= r.expiry
    <2> SUFFICES ASSUME NEW r \in P2, NEW q \in mid \ P2 PROVE q.expiry >= r.expiry OBVIOUS
    <2>1. PICK i \in T2 : r = rows[i] BY <1>19 DEF RowsAt
    <2>2. PICK j \in S2 : q = rows[j] BY <1>8 DEF RowsAt
    <2>3. j \notin T2 BY <1>19, <2>2 DEF RowsAt
    <2> QED BY <1>10, <2>1, <2>2, <2>3
  <1>23. \A picks \in {flat, tiered} : /\ Distinct([i \in DOMAIN picks |-> picks[i].id])
                                       /\ Sorted([i \in DOMAIN picks |-> picks[i].expiry])
    BY <1>13, <1>16 DEF InTurn
  <1> HIDE DEF far
  <1>24. Picked("short", tiered) = P1 /\ Picked("mid", tiered) = P2 BY <1>17
  <1> HIDE DEF Picked
  <1>25. Selects(rows, o)
    <2> USE <1>1, <1>2, <1>3, <1>4, <1>16, <1>18, <1>19, <1>20, <1>21, <1>22, <1>23, <1>24
    <2> QED BY DEF Selects, far, Picked, SoonestOf
  <1> QED BY <1>1, <1>2, <1>13, <1>16, <1>25

\* The selections are right for every list of rows (selectMarketRows,
\* selectTieredMarkets), if floors are positive and headroom is not negative.
THEOREM SelectionIsRight ==
  ASSUME NEW rows, Feed(rows), NEW o, Asked(o)
  PROVE  Selects(rows, o)
  BY SelectionParts

\* A try that read the two selections is one that DeckSourceRight speaks of: lists
\* of markets, the tiered one of different ones in the order they settle
\* (predictCardSource).
THEOREM SelectionFeedsTries ==
  ASSUME NEW rows, Feed(rows), NEW o, Asked(o), NEW t, t.fault \in BOOLEAN,
         t.flat = selectMarketRows(rows, o),
         t.tiered = selectTieredMarkets(rows, o) \/ t.tiered = <<>>
  PROVE  AsRead(t)
  <1>1. PICK tiered : tiered = selectTieredMarkets(rows, o) OBVIOUS
  <1>2. PICK flat : flat = selectMarketRows(rows, o) OBVIOUS
  <1>3. InTurn(flat) /\ InTurn(tiered) BY <1>1, <1>2, SelectionParts
  <1>4. rawMarkets(t) \in {flat, tiered} BY <1>1, <1>2 DEF rawMarkets, usedTiered
  <1>5. rawMarkets(t) \in Seq(ToSet(rawMarkets(t))) BY <1>3, <1>4 DEF InTurn
  <1>6. Ordered(tiered)
    <2>1. PICK n \in Nat : n = Len(tiered) /\ DOMAIN tiered = 1 .. n BY <1>3 DEF InTurn
    <2>2. PICK ids : ids = [i \in DOMAIN tiered |-> tiered[i].id] OBVIOUS
    <2>3. PICK ends : ends = [i \in DOMAIN tiered |-> tiered[i].expiry] OBVIOUS
    <2>4. Distinct(ids) /\ Sorted(ends) BY <1>3, <2>2, <2>3 DEF InTurn
    <2>5. /\ DOMAIN ids = 1 .. n /\ DOMAIN ends = 1 .. n
          /\ \A i \in 1 .. n : ids[i] = tiered[i].id /\ ends[i] = tiered[i].expiry
      BY <2>1, <2>2, <2>3
    <2>6. \A x, y \in 1 .. n : ids[x] = ids[y] => x = y BY <2>4, <2>5 DEF Distinct
    <2>7. \A x, y \in 1 .. n : x < y => ends[x] <= ends[y] BY <2>4, <2>5 DEF Sorted
    <2> QED BY <2>1, <2>5, <2>6, <2>7 DEF Ordered
  <1>7. usedTiered(t) => Ordered(t.tiered) BY <1>1, <1>6 DEF usedTiered
  <1> QED BY <1>5, <1>7 DEF AsRead

\* The rows of the checked instance are such rows.
LEMMA CheckedRows == PicksRight
  <1> SUFFICES ASSUME NEW rows \in RowSeqs PROVE Feed(rows) /\ Asked(Selection)
    BY SelectionIsRight DEF PicksRight
  <1>1. Asked(Selection) BY DEF Asked, Selection, Sizes
  <1> DEFINE Times == {<<11, 8>>, <<13, 9>>, <<14, 9>>, <<14, 6>>, <<15, 6>>,
                       <<15, Unknown>>, <<22, 11>>, <<23, 12>>}
             Rows(D, ids, b, t) ==
               [i \in D |-> [id |-> ids[i], btc |-> b # i, expiry |-> t[i][1],
                             created |-> t[i][2]]]
  <1>2. PICK ids \in RowIds :
          rows \in {Rows(DOMAIN ids, ids, b, t) : b \in {0, 1}, t \in [DOMAIN ids -> Times]}
    BY DEF RowSeqs
  <1>3. PICK n \in 1 .. 3 : DOMAIN ids = 1 .. n BY DEF RowIds
  <1>6. \A x \in Times : x[1] \in Int /\ x[2] \in Int BY DEF Unknown
  <1> HIDE DEF Times
  <1>4. PICK b \in {0, 1}, t \in [1 .. n -> Times] : rows = Rows(1 .. n, ids, b, t)
    <2> HIDE DEF Rows
    <2> QED BY <1>2, <1>3
  <1>5. DOMAIN rows = 1 .. n /\ Len(rows) = n BY <1>4
  <1>7. \A i \in 1 .. n : /\ rows[i].btc \in BOOLEAN /\ rows[i].expiry = t[i][1]
                          /\ rows[i].created = t[i][2]
    BY <1>4
  <1>8. \A i \in 1 .. n : t[i] \in Times BY <1>4
  <1> QED BY <1>1, <1>5, <1>6, <1>7, <1>8 DEF Feed

\* The markets of the deck a match waits for are the right ones (selectMarketRows,
\* selectTieredMarkets).
THEOREM MarketsAlwaysPicked == Spec => []MarketsPicked
  <1>1. MarketsPicked BY CheckedRows DEF MarketsPicked
  <1> QED BY <1>1, PTL
=============================================================================
