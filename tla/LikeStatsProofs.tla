--------------------------- MODULE LikeStatsProofs ---------------------------
(***************************************************************************)
(* Proofs about the like counters, for any rooms, requests, counts, batch, *)
(* shards and number of faults.                                            *)
(*                                                                         *)
(* The argument: a value a process has read and not yet used was true once *)
(* and what it is compared with has only grown since.  The snapshot in the *)
(* aggregator's hand is below the likes accepted (SnapIsPast), the total   *)
(* in the snapshotter's hand also below the present total, unless Redis    *)
(* lost its data in between (SavedIsPast); and after a broadcast the       *)
(* aggregator has nothing left to give back (BroadcastIsSpent).            *)
(***************************************************************************)
EXTENDS LikeStats, TLAPS

\* What the aggregator is about to broadcast was the total of its room; between
\* rooms it keeps nothing.
SnapIsPast == IF room = NoRoom THEN snap = Nothing ELSE snap.likes <= accepted[room]

\* What the snapshotter is about to store was the total of its room, and the total
\* has not fallen since unless the room is missing.
SavedIsPast ==
    sroom # NoRoom => /\ sval <= accepted[sroom]
                      /\ sroom \notin missing => sval <= total[sroom]

\* After a broadcast that was answered the increment is spent.
BroadcastIsSpent == apc = "remember" => hand = 0

IndInv ==
    /\ TypeOK
    /\ NothingInvented
    /\ LikesConserved
    /\ RecoveredTotals
    /\ SnapIsPast
    /\ SavedIsPast
    /\ BroadcastIsSpent

-----------------------------------------------------------------------------
\* A fault stays within its bound and marks rooms only.
LEMMA FaultType ==
    ASSUME TypeOK, NEW L \in SUBSET Rooms, NEW E \in SUBSET Rooms, Fault(L, E)
    PROVE  faults' \in 0..MaxFaults /\ lossy' \subseteq Rooms /\ echoed' \subseteq Rooms
<1>1. faults' = faults + 1 /\ faults < MaxFaults /\ faults \in 0..MaxFaults
  BY DEF Fault, TypeOK
<1> QED BY <1>1, LikeStatsAssumption DEF Fault, TypeOK

\* ActiveRooms returns rooms of the index.
LEMMA ActiveRoomsType == ASSUME NEW S \in ActiveRooms PROVE S \subseteq Rooms
  BY DEF ActiveRooms

LEMMA PrunedType == TypeOK => Pruned \in [Rooms -> {"absent", "fresh", "old"}]
  BY DEF TypeOK, Pruned

LEMMA TypeInit == Init => TypeOK
  BY LikeStatsAssumption DEF Init, TypeOK, Nothing

LEMMA RequestType ==
    ASSUME TypeOK, NEW q \in Requests,
           \/ \E r \in Rooms, n \in Counts : LikeArrives(q, r, n)
           \/ AddLikes(q) \/ LikeFails(q)
    PROVE  TypeOK'
<1> USE LikeStatsAssumption DEF TypeOK, counters, aggregatorVars, snapshotterVars, screenVars, faultVars
<1>1. ASSUME NEW r \in Rooms, NEW n \in Counts, LikeArrives(q, r, n) PROVE TypeOK'
  BY <1>1 DEF LikeArrives
<1>2. CASE AddLikes(q)
  <2>1. likeRoom[q] \in Rooms
    BY <1>2 DEF AddLikes
  <2>2. Counts \cup {0} \subseteq Nat
    OBVIOUS
  <2>3. likeCount[q] \in Nat
    BY <2>2
  <2> QED BY <1>2, <2>1, <2>3 DEF AddLikes
<1>3. CASE LikeFails(q)
  BY <1>3 DEF LikeFails
<1> QED BY <1>1, <1>2, <1>3

LEMMA RoomType ==
    ASSUME TypeOK, NEW r \in Rooms,
           ViewerArrives(r) \/ ViewerLeaves(r) \/ IndexAges(r) \/ LastViewerExpires(r)
    PROVE  TypeOK'
<1> USE DEF TypeOK, counters, requestVars, aggregatorVars, snapshotterVars, screenVars, faultVars
<1>1. CASE ViewerArrives(r)
  BY <1>1 DEF ViewerArrives
<1>2. CASE ViewerLeaves(r)
  BY <1>2 DEF ViewerLeaves
<1>3. CASE IndexAges(r)
  BY <1>3 DEF IndexAges
<1>4. CASE LastViewerExpires(r)
  BY <1>4 DEF LastViewerExpires
<1> QED BY <1>1, <1>2, <1>3, <1>4

LEMMA AggregateType == ASSUME TypeOK, Aggregate PROVE TypeOK'
<1> USE LikeStatsAssumption
    DEF TypeOK, counters, requestVars, snapshotterVars, screenVars, faultVars, NextRoom, Nothing
<1>1. CASE Tick
  BY <1>1, ActiveRoomsType, PrunedType DEF Tick
<1>2. CASE LoadSnapshot
  BY <1>2 DEF LoadSnapshot
<1>3. CASE ReadLastViewer
  BY <1>3 DEF ReadLastViewer
<1>4. CASE LoadFails
  BY <1>4 DEF LoadFails
<1>5. CASE PublishStats
  BY <1>5 DEF PublishStats, OnScreen
<1>6. CASE PublishFails
  <2>1. room \in Rooms
    BY <1>6 DEF PublishFails
  <2>2. faults' \in 0..MaxFaults /\ lossy' \subseteq Rooms /\ echoed' \subseteq Rooms
    BY <1>6, <2>1, FaultType DEF PublishFails
  <2>3. announced' \in [Rooms -> Nat]
    BY <1>6, <2>1 DEF PublishFails, OnScreen
  <2>4. shown' \in [Rooms -> [likes: Nat, viewers: Nat]]
    BY <1>6, <2>1 DEF PublishFails, OnScreen
  <2> QED BY <1>6, <2>1, <2>2, <2>3, <2>4 DEF PublishFails
<1>7. CASE RememberViewer
  BY <1>7 DEF RememberViewer
<1>8. CASE RestoreIndex
  BY <1>8 DEF RestoreIndex
<1>9. CASE RestoreLikeDelta
  BY <1>9 DEF RestoreLikeDelta
<1>10. CASE RestoreFails
  <2>1. faults' \in 0..MaxFaults /\ lossy' \subseteq Rooms /\ echoed' \subseteq Rooms
    BY <1>10, FaultType DEF RestoreFails
  <2> QED BY <1>10, <2>1 DEF RestoreFails
<1>11. CASE AggregatorCrashes
  <2>1. (IF hand > 0 THEN {room} ELSE {}) \subseteq Rooms
    BY <1>11 DEF AggregatorCrashes
  <2>2. faults' \in 0..MaxFaults /\ lossy' \subseteq Rooms /\ echoed' \subseteq Rooms
    BY <1>11, <2>1, FaultType DEF AggregatorCrashes
  <2> QED BY <1>11, <2>2 DEF AggregatorCrashes
<1>12. ASSUME NEW r \in Rooms, TakeLikeDelta(r) PROVE TypeOK'
  BY <1>12 DEF TakeLikeDelta
<1>13. ASSUME NEW r \in Rooms, TakeFails(r) PROVE TypeOK'
  <2>1. faults' \in 0..MaxFaults /\ lossy' \subseteq Rooms /\ echoed' \subseteq Rooms
    BY <1>13, FaultType DEF TakeFails
  <2>2. delta' \in [Rooms -> Nat]
    BY <1>13 DEF TakeFails
  <2> QED BY <1>13, <2>1, <2>2 DEF TakeFails
<1> QED BY <1>1, <1>2, <1>3, <1>4, <1>5, <1>6, <1>7, <1>8, <1>9, <1>10, <1>11, <1>12, <1>13 DEF Aggregate

LEMMA TakeSnapshotsType == ASSUME TypeOK, TakeSnapshots PROVE TypeOK'
<1> USE LikeStatsAssumption
    DEF TypeOK, counters, requestVars, aggregatorVars, screenVars, faultVars, NextSnapshot, Larger
<1>1. CASE LoadCheckpoints
  BY <1>1 DEF LoadCheckpoints
<1>2. CASE LoadAfterFails
  BY <1>2 DEF LoadAfterFails
<1>3. CASE SnapshotTick
  BY <1>3, ActiveRoomsType, PrunedType DEF SnapshotTick
<1>4. CASE Save
  BY <1>4 DEF Save, Greatest
<1>5. CASE SnapshotterCrashes
  <2>1. faults' \in 0..MaxFaults /\ lossy' \subseteq Rooms /\ echoed' \subseteq Rooms
    BY <1>5, FaultType DEF SnapshotterCrashes
  <2> QED BY <1>5, <2>1 DEF SnapshotterCrashes
<1>6. ASSUME NEW r \in Rooms, Recover(r) PROVE TypeOK'
  BY <1>6 DEF Recover, RestoreLikeSnapshot
<1>7. ASSUME NEW r \in Rooms, ReadTotal(r) PROVE TypeOK'
  BY <1>7 DEF ReadTotal
<1> QED BY <1>1, <1>2, <1>3, <1>4, <1>5, <1>6, <1>7 DEF TakeSnapshots

LEMMA RedisLostType == ASSUME TypeOK, RedisLost PROVE TypeOK'
<1>1. faults' \in 0..MaxFaults /\ lossy' \subseteq Rooms /\ echoed' \subseteq Rooms
  BY FaultType DEF RedisLost
<1> QED BY <1>1 DEF RedisLost, TypeOK, requestVars, aggregatorVars, snapshotterVars, screenVars

LEMMA TypeStep == TypeOK /\ [Next]_vars => TypeOK'
<1> SUFFICES ASSUME TypeOK, [Next]_vars PROVE TypeOK'
  OBVIOUS
<1>1. CASE UNCHANGED vars
  BY <1>1 DEF vars, counters, requestVars, aggregatorVars, snapshotterVars, screenVars, faultVars, TypeOK
<1> QED BY <1>1, RequestType, RoomType, AggregateType, TakeSnapshotsType, RedisLostType DEF Next

-----------------------------------------------------------------------------
LEMMA IndInit == Init => IndInv
<1> SUFFICES ASSUME Init PROVE IndInv
  OBVIOUS
<1>1. TypeOK
  BY TypeInit
<1> QED
  BY <1>1 DEF Init, IndInv, NothingInvented, LikesConserved, InHand, RecoveredTotals, SnapIsPast,
              SavedIsPast, BroadcastIsSpent, Nothing

\* A like in progress touches no counter.
LEMMA LikeArrivesStep ==
    ASSUME IndInv, TypeOK', NEW q \in Requests, NEW r \in Rooms, NEW n \in Counts,
           LikeArrives(q, r, n)
    PROVE  IndInv'
  BY DEF IndInv, NothingInvented, LikesConserved, InHand, RecoveredTotals, SnapIsPast, SavedIsPast,
         BroadcastIsSpent, LikeArrives, counters, aggregatorVars, snapshotterVars, screenVars, faultVars

LEMMA LikeFailsStep == ASSUME IndInv, TypeOK', NEW q \in Requests, LikeFails(q) PROVE IndInv'
  BY DEF IndInv, NothingInvented, LikesConserved, InHand, RecoveredTotals, SnapIsPast, SavedIsPast,
         BroadcastIsSpent, LikeFails, counters, aggregatorVars, snapshotterVars, screenVars, faultVars

\* The script counts the likes in the total, the increment and the history alike.
LEMMA AddLikesStep == ASSUME IndInv, TypeOK', NEW q \in Requests, AddLikes(q) PROVE IndInv'
<1> DEFINE r == likeRoom[q]
           n == likeCount[q]
<1>1. Counts \cup {0} \subseteq Nat
  BY LikeStatsAssumption
<1>2. r \in Rooms /\ n \in Nat
  BY <1>1 DEF AddLikes, IndInv, TypeOK
<1>3. /\ \A x \in Rooms : /\ total'[x] = (IF x = r THEN total[x] + n ELSE total[x])
                          /\ delta'[x] = (IF x = r THEN delta[x] + n ELSE delta[x])
                          /\ accepted'[x] = (IF x = r THEN accepted[x] + n ELSE accepted[x])
      /\ UNCHANGED <<checkpoint, aggregatorVars, snapshotterVars, screenVars, missing, faultVars>>
  BY <1>2 DEF AddLikes, IndInv, TypeOK
<1> HIDE DEF r, n
<1> USE DEF IndInv, aggregatorVars, snapshotterVars, screenVars, faultVars
<1>4. \A x \in Rooms : /\ total[x] \in Nat /\ accepted[x] \in Nat /\ checkpoint[x] \in Nat
                       /\ shown[x].likes \in Nat
  BY DEF TypeOK
<1>5. NothingInvented'
  BY <1>2, <1>3, <1>4 DEF NothingInvented
<1>6. LikesConserved'
  BY <1>2, <1>3 DEF LikesConserved, InHand, TypeOK
<1>7. RecoveredTotals'
  BY <1>2, <1>3 DEF RecoveredTotals, TypeOK
<1>8. SnapIsPast'
  <2>1. snap.likes \in Nat /\ room \in Rooms \cup {NoRoom}
    BY DEF TypeOK
  <2> QED BY <1>2, <1>3, <1>4, <2>1 DEF SnapIsPast
<1>9. SavedIsPast' /\ BroadcastIsSpent'
  BY <1>2, <1>3 DEF SavedIsPast, BroadcastIsSpent, TypeOK
<1> QED BY <1>5, <1>6, <1>7, <1>8, <1>9

\* Viewers and the index hold no likes.
LEMMA RoomStep ==
    ASSUME IndInv, TypeOK', NEW r \in Rooms,
           ViewerArrives(r) \/ ViewerLeaves(r) \/ IndexAges(r) \/ LastViewerExpires(r)
    PROVE  IndInv'
<1>1. UNCHANGED <<counters, checkpoint, aggregatorVars, snapshotterVars, accepted, screenVars,
                  missing, faultVars>>
  BY DEF ViewerArrives, ViewerLeaves, IndexAges, LastViewerExpires
<1> QED
  BY <1>1 DEF IndInv, NothingInvented, LikesConserved, InHand, RecoveredTotals, SnapIsPast,
              SavedIsPast, BroadcastIsSpent, counters, aggregatorVars, snapshotterVars,
              screenVars, faultVars

-----------------------------------------------------------------------------
(* The aggregator *)

\* Steps that move no like: the tick, the reads, and the end of a room's turn with
\* empty hands.
LEMMA QuietStep ==
    ASSUME IndInv, TypeOK',
           UNCHANGED <<counters, checkpoint, snapshotterVars, accepted, screenVars, missing, faultVars>>,
           \/ UNCHANGED <<room, hand>>
           \/ room' = NoRoom /\ hand = 0,
           SnapIsPast', BroadcastIsSpent'
    PROVE  IndInv'
<1> USE DEF IndInv, counters, snapshotterVars, screenVars, faultVars
<1>1. \A x \in Rooms : InHand(x)' = InHand(x)
  BY LikeStatsAssumption DEF InHand, TypeOK
<1>2. LikesConserved'
  BY <1>1 DEF LikesConserved
<1> QED BY <1>2 DEF NothingInvented, RecoveredTotals, SavedIsPast

LEMMA AggregatorReads ==
    ASSUME IndInv, TypeOK', Tick \/ LoadSnapshot \/ ReadLastViewer \/ LoadFails \/ RestoreIndex
                            \/ RememberViewer
    PROVE  IndInv'
<1> USE DEF IndInv, counters, NextRoom, requestVars, SnapIsPast, BroadcastIsSpent
<1>1. CASE Tick
  BY <1>1, QuietStep DEF Tick, TypeOK
<1>2. CASE LoadSnapshot
  <2>1. room \in Rooms /\ total[room] <= accepted[room]
    BY <1>2 DEF LoadSnapshot, TypeOK, NothingInvented
  <2> QED BY <1>2, <2>1, QuietStep DEF LoadSnapshot, TypeOK
<1>3. CASE ReadLastViewer
  BY <1>3, QuietStep DEF ReadLastViewer, TypeOK
<1>4. CASE LoadFails
  BY <1>4, QuietStep DEF LoadFails, TypeOK
<1>5. CASE RestoreIndex
  BY <1>5, QuietStep DEF RestoreIndex, TypeOK
<1>6. CASE RememberViewer
  BY <1>6, QuietStep DEF RememberViewer, TypeOK
<1> QED BY <1>1, <1>2, <1>3, <1>4, <1>5, <1>6

\* GETDEL moves the increment into the aggregator's hand.
LEMMA TakeLikeDeltaStep ==
    ASSUME IndInv, TypeOK', NEW r \in Rooms, TakeLikeDelta(r)
    PROVE  IndInv'
<1> USE DEF IndInv, TakeLikeDelta, snapshotterVars, screenVars, faultVars
<1>1. room = NoRoom /\ r # NoRoom
  BY LikeStatsAssumption DEF TypeOK
<1>2. \A x \in Rooms : delta'[x] + InHand(x)' = delta[x] + InHand(x)
  BY <1>1, LikeStatsAssumption DEF InHand, TypeOK
<1>3. \A x \in Rooms : /\ delta[x] \in Nat /\ delta'[x] \in Nat
                       /\ InHand(x) \in Nat /\ InHand(x)' \in Nat
                       /\ announced[x] \in Nat /\ accepted[x] \in Nat
  BY DEF InHand, TypeOK
<1>4. LikesConserved'
  BY <1>2, <1>3 DEF LikesConserved
<1>5. SnapIsPast'
  <2>1. snap = Nothing /\ accepted[r] \in Nat
    BY <1>1 DEF SnapIsPast, TypeOK
  <2> QED BY <1>1, <2>1 DEF SnapIsPast, Nothing
<1> QED BY <1>4, <1>5 DEF NothingInvented, RecoveredTotals, SavedIsPast, BroadcastIsSpent

\* GETDEL that failed leaves the increment, or the room is lossy.
LEMMA TakeFailsStep ==
    ASSUME IndInv, TypeOK', NEW r \in Rooms, TakeFails(r)
    PROVE  IndInv'
<1> USE DEF IndInv, TakeFails, snapshotterVars, screenVars
<1>1. UNCHANGED <<total, room, hand, snap, checkpoint, snapshotterVars, accepted, screenVars, missing>>
  OBVIOUS
<1>2. \A x \in Rooms : InHand(x)' = InHand(x) /\ InHand(x) \in Nat
  BY <1>1 DEF InHand, TypeOK
<1>3. \A x \in Rooms : /\ delta[x] \in Nat /\ announced[x] \in Nat /\ accepted[x] \in Nat
                       /\ delta'[x] = delta[x] \/ (delta'[x] = 0 /\ x \in lossy')
                       /\ lossy \subseteq lossy' /\ echoed \subseteq echoed'
  BY DEF TypeOK, Fault, faultVars
<1>4. LikesConserved'
  BY <1>1, <1>2, <1>3 DEF LikesConserved
<1>5. BroadcastIsSpent'
  BY DEF BroadcastIsSpent
<1> QED BY <1>1, <1>4, <1>5 DEF NothingInvented, RecoveredTotals, SavedIsPast, SnapIsPast

\* A broadcast spends the increment and shows a past total.
LEMMA OnScreenShows ==
    ASSUME IndInv, room \in Rooms, OnScreen, UNCHANGED <<total, checkpoint, accepted>>
    PROVE  /\ NothingInvented'
           /\ \A x \in Rooms : announced'[x] = announced[x] + InHand(x)
<1> USE DEF IndInv
<1>1. snap.likes <= accepted[room]
  BY LikeStatsAssumption DEF SnapIsPast
<1>2. \A x \in Rooms : shown'[x] = shown[x] \/ (x = room /\ shown'[x] = snap)
  BY DEF OnScreen, TypeOK
<1>3. NothingInvented'
  BY <1>1, <1>2 DEF NothingInvented
<1>4. \A x \in Rooms : announced'[x] = announced[x] + InHand(x)
  BY DEF OnScreen, TypeOK, InHand
<1> QED BY <1>3, <1>4

LEMMA PublishStatsStep == ASSUME IndInv, TypeOK', PublishStats PROVE IndInv'
<1> USE DEF IndInv, PublishStats, counters, snapshotterVars, faultVars
<1>1. room \in Rooms
  BY DEF TypeOK
<1>2. NothingInvented' /\ \A x \in Rooms : announced'[x] = announced[x] + InHand(x)
  BY <1>1, OnScreenShows
<1>3. \A x \in Rooms : /\ InHand(x) \in Nat /\ InHand(x)' = 0
                       /\ announced[x] \in Nat /\ delta[x] \in Nat /\ accepted[x] \in Nat
  BY DEF InHand, TypeOK
<1>4. LikesConserved'
  BY <1>2, <1>3 DEF LikesConserved
<1> QED BY <1>2, <1>4 DEF RecoveredTotals, SnapIsPast, SavedIsPast, BroadcastIsSpent

\* An error that hid a broadcast leaves the increment in hand: the room is echoed.
LEMMA PublishFailsStep == ASSUME IndInv, TypeOK', PublishFails PROVE IndInv'
<1> USE DEF IndInv, PublishFails, counters, snapshotterVars
<1>1. room \in Rooms
  BY DEF TypeOK
<1>2. UNCHANGED <<total, delta, room, hand, snap, checkpoint, snapshotterVars, accepted, missing>>
  OBVIOUS
<1>3. NothingInvented'
  <2>1. CASE UNCHANGED <<screenVars, faultVars>>
    BY <1>2, <2>1 DEF NothingInvented, screenVars
  <2>2. CASE OnScreen
    BY <1>1, <1>2, <2>2, OnScreenShows
  <2> QED BY <2>1, <2>2
<1>4. \A x \in Rooms : /\ InHand(x)' = InHand(x)
                       /\ announced'[x] = announced[x] \/ x \in echoed'
                       /\ lossy \subseteq lossy' /\ echoed \subseteq echoed'
  BY <1>1, <1>2 DEF InHand, OnScreen, Fault, screenVars, faultVars, TypeOK
<1>5. LikesConserved'
  BY <1>2, <1>4 DEF LikesConserved
<1>6. SnapIsPast' /\ BroadcastIsSpent'
  BY <1>2 DEF SnapIsPast, BroadcastIsSpent
<1> QED BY <1>2, <1>3, <1>5, <1>6 DEF RecoveredTotals, SavedIsPast

\* INCRBY gives the increment back on top of the likes that came meanwhile.
LEMMA RestoreLikeDeltaStep == ASSUME IndInv, TypeOK', RestoreLikeDelta PROVE IndInv'
<1> USE DEF IndInv, RestoreLikeDelta, NextRoom, snapshotterVars, screenVars, faultVars
<1>1. room \in Rooms /\ NoRoom \notin Rooms
  BY LikeStatsAssumption DEF TypeOK
<1>2. \A x \in Rooms : delta'[x] = delta[x] + InHand(x) /\ InHand(x)' = 0
  BY <1>1 DEF InHand, TypeOK
<1>3. \A x \in Rooms : /\ InHand(x) \in Nat
                       /\ announced[x] \in Nat /\ delta[x] \in Nat /\ accepted[x] \in Nat
  BY DEF InHand, TypeOK
<1>4. LikesConserved'
  BY <1>2, <1>3 DEF LikesConserved
<1> QED BY <1>4 DEF NothingInvented, RecoveredTotals, SnapIsPast, SavedIsPast, BroadcastIsSpent

\* The increment is gone with the call, or with the process: its room is lossy.
LEMMA LosesHand ==
    ASSUME IndInv, TypeOK', RestoreFails \/ AggregatorCrashes
    PROVE  IndInv'
<1> USE DEF IndInv, counters, snapshotterVars, screenVars
<1>1. /\ UNCHANGED <<total, delta, checkpoint, snapshotterVars, accepted, screenVars, missing>>
      /\ room' = NoRoom /\ hand' = 0 /\ snap' = Nothing
      /\ lossy \subseteq lossy' /\ echoed' = echoed
      /\ hand > 0 => room \in lossy'
  BY DEF RestoreFails, AggregatorCrashes, NextRoom, Fault
<1>2. \A x \in Rooms : /\ InHand(x) \in Nat /\ InHand(x)' = 0
                       /\ InHand(x) > 0 => x \in lossy'
                       /\ announced[x] \in Nat /\ delta[x] \in Nat /\ accepted[x] \in Nat
  BY <1>1 DEF InHand, TypeOK
<1>3. LikesConserved'
  BY <1>1, <1>2 DEF LikesConserved
<1> QED BY <1>1, <1>3 DEF NothingInvented, RecoveredTotals, SnapIsPast, SavedIsPast, BroadcastIsSpent

-----------------------------------------------------------------------------
(* The snapshotter *)

\* Listing the checkpoints or the active rooms, and dying, store nothing.
LEMMA SnapshotterLists ==
    ASSUME IndInv, TypeOK', LoadCheckpoints \/ LoadAfterFails \/ SnapshotTick \/ SnapshotterCrashes
    PROVE  IndInv'
<1> USE DEF IndInv, counters, aggregatorVars, screenVars, faultVars
<1>1. /\ UNCHANGED <<counters, checkpoint, aggregatorVars, accepted, screenVars, missing>>
      /\ UNCHANGED <<sroom, sval>> \/ sroom' = NoRoom
      /\ lossy' = lossy /\ echoed' = echoed
  BY DEF LoadCheckpoints, LoadAfterFails, SnapshotTick, SnapshotterCrashes, Fault
<1> QED
  BY <1>1 DEF NothingInvented, LikesConserved, InHand, RecoveredTotals, SnapIsPast, SavedIsPast,
              BroadcastIsSpent

\* The total read is the total.
LEMMA ReadTotalStep == ASSUME IndInv, TypeOK', NEW r \in Rooms, ReadTotal(r) PROVE IndInv'
<1> USE DEF IndInv, ReadTotal, NextSnapshot, counters, aggregatorVars, screenVars, faultVars
<1>1. SavedIsPast'
  BY DEF SavedIsPast, NothingInvented, TypeOK
<1> QED
  BY <1>1 DEF NothingInvented, LikesConserved, InHand, RecoveredTotals, SnapIsPast, BroadcastIsSpent

\* GREATEST keeps the checkpoint between the accepted likes and the total of a room
\* that is not missing, also when the total stored was read before the loss.
LEMMA SaveStep == ASSUME IndInv, TypeOK', Save PROVE IndInv'
<1> USE DEF IndInv, Save, counters, aggregatorVars, screenVars, faultVars
<1>1. sroom \in Rooms /\ sroom # NoRoom
  BY LikeStatsAssumption DEF TypeOK
<1>2. \A x \in Rooms : \/ checkpoint'[x] = checkpoint[x]
                       \/ x = sroom /\ checkpoint'[x] = sval
  BY <1>1 DEF Greatest, Larger, TypeOK
<1>3. NothingInvented'
  BY <1>1, <1>2 DEF NothingInvented, SavedIsPast
<1>4. RecoveredTotals'
  <2> SUFFICES ASSUME NEW x \in Rooms \ missing PROVE total[x] >= checkpoint'[x]
    BY DEF RecoveredTotals
  <2>1. total[x] \in Nat /\ checkpoint[x] \in Nat /\ sval \in Nat
    BY DEF TypeOK
  <2>2. total[x] >= checkpoint[x]
    BY DEF RecoveredTotals
  <2>3. CASE x = sroom /\ checkpoint'[x] = sval
    BY <1>1, <2>1, <2>3 DEF SavedIsPast
  <2> QED BY <1>2, <2>2, <2>3
<1>5. SavedIsPast'
  BY DEF SavedIsPast
<1> QED BY <1>3, <1>4, <1>5 DEF LikesConserved, InHand, SnapIsPast, BroadcastIsSpent

\* The restored total is the larger of two that are below the accepted likes, and no
\* total falls.
LEMMA RecoverStep == ASSUME IndInv, TypeOK', NEW r \in Rooms, Recover(r) PROVE IndInv'
<1> USE DEF IndInv, Recover, aggregatorVars, screenVars, faultVars
<1>1. /\ \A x \in Rooms : total[x] \in Nat /\ checkpoint[x] \in Nat /\ accepted[x] \in Nat
      /\ \A x \in Rooms : /\ total'[x] >= total[x]
                          /\ total'[x] = total[x] \/ total'[x] = checkpoint[x]
                          /\ x \in missing \ missing' => total'[x] >= checkpoint[x]
      /\ missing' \subseteq missing
  BY DEF RestoreLikeSnapshot, Larger, TypeOK
<1>2. UNCHANGED <<delta, checkpoint, aggregatorVars, accepted, screenVars, faultVars, sroom, sval>>
  OBVIOUS
<1>3. NothingInvented'
  BY <1>1, <1>2 DEF NothingInvented
<1>4. RecoveredTotals'
  <2> SUFFICES ASSUME NEW x \in Rooms \ missing' PROVE total'[x] >= checkpoint[x]
    BY <1>2 DEF RecoveredTotals
  <2>1. total'[x] \in Nat
    BY DEF TypeOK
  <2>2. CASE x \notin missing
    BY <1>1, <2>1, <2>2 DEF RecoveredTotals
  <2> QED BY <1>1, <2>2
<1>5. SavedIsPast'
  <2> SUFFICES ASSUME sroom # NoRoom
               PROVE  /\ sval <= accepted[sroom]
                      /\ sroom \notin missing' => sval <= total'[sroom]
    BY <1>2 DEF SavedIsPast
  <2>1. sroom \in Rooms /\ sval \in Nat /\ spc = "save"
    BY DEF TypeOK
  <2> QED BY <2>1
<1> QED BY <1>2, <1>3, <1>4, <1>5 DEF LikesConserved, InHand, SnapIsPast, BroadcastIsSpent

\* With the totals gone every room is missing, and lossy.
LEMMA RedisLostStep == ASSUME IndInv, TypeOK', RedisLost PROVE IndInv'
<1> USE DEF IndInv, RedisLost, requestVars, aggregatorVars, snapshotterVars, screenVars, Fault
<1>1. \A x \in Rooms : /\ InHand(x)' = InHand(x) /\ InHand(x) \in Nat
                       /\ announced[x] \in Nat /\ delta[x] \in Nat /\ accepted[x] \in Nat
  BY DEF InHand, TypeOK
<1>2. LikesConserved'
  BY <1>1 DEF LikesConserved
<1>3. NothingInvented'
  BY <1>1 DEF NothingInvented
<1>4. SavedIsPast'
  BY DEF SavedIsPast, TypeOK
<1> QED BY <1>2, <1>3, <1>4 DEF RecoveredTotals, SnapIsPast, BroadcastIsSpent

-----------------------------------------------------------------------------
\* Every step keeps the inductive invariant.
LEMMA IndStep == IndInv /\ [Next]_vars => IndInv'
<1> SUFFICES ASSUME IndInv, [Next]_vars PROVE IndInv'
  OBVIOUS
<1>1. TypeOK'
  BY TypeStep DEF IndInv
<1>2. CASE UNCHANGED vars
  BY <1>2 DEF vars, counters, requestVars, aggregatorVars, snapshotterVars, screenVars, faultVars,
              IndInv, TypeOK, NothingInvented, LikesConserved, InHand, RecoveredTotals, SnapIsPast,
              SavedIsPast, BroadcastIsSpent
<1>3. CASE Aggregate
  BY <1>1, <1>3, AggregatorReads, TakeLikeDeltaStep, TakeFailsStep, PublishStatsStep,
     PublishFailsStep, RestoreLikeDeltaStep, LosesHand DEF Aggregate
<1>4. CASE TakeSnapshots
  BY <1>1, <1>4, SnapshotterLists, ReadTotalStep, SaveStep, RecoverStep DEF TakeSnapshots
<1> QED
  BY <1>1, <1>2, <1>3, <1>4, LikeArrivesStep, AddLikesStep, LikeFailsStep, RoomStep, RedisLostStep
     DEF Next

\* The inductive invariant of the like counters.
THEOREM LikeStatsInductive == Spec => []IndInv
  BY IndInit, IndStep, PTL DEF Spec

\* The totals lie between what the room_like_snapshots table holds and what AddLikes
\* accepted, whatever Redis, the aggregator or the snapshotter lost, in any rooms.
THEOREM LikeStatsInvariant == Spec => []LikeStatsInv
<1>1. IndInv => LikeStatsInv
  BY DEF IndInv, LikeStatsInv
<1> QED BY <1>1, LikeStatsInductive, PTL

\* Every accepted like is broadcast, waiting in Redis or in the aggregator's hand, and
\* none is broadcast twice, but for the rooms that a named fault hit.
THEOREM LikesAreConserved == Spec => []LikesConserved
<1>1. IndInv => LikesConserved
  BY DEF IndInv
<1> QED BY <1>1, LikeStatsInductive, PTL

\* Save never lowers a row of room_like_snapshots, also with a total that Redis began
\* again at zero.
THEOREM CheckpointsOnlyGrow == Spec => CheckpointNeverFalls
<1>1. ASSUME TypeOK, [Next]_vars PROVE [\A r \in Rooms : checkpoint'[r] >= checkpoint[r]]_vars
  <2> SUFFICES ASSUME Next PROVE \A r \in Rooms : checkpoint'[r] >= checkpoint[r]
    BY <1>1
  <2>1. \A r \in Rooms : checkpoint[r] \in Nat
    BY <1>1 DEF TypeOK
  <2>2. CASE Save
    BY <1>1, <2>2 DEF Save, Greatest, Larger, TypeOK
  <2>3. Save \/ UNCHANGED checkpoint
    BY DEF Next, Aggregate, TakeSnapshots, LikeArrives, AddLikes, LikeFails, ViewerArrives,
           ViewerLeaves, IndexAges, LastViewerExpires, Tick, LoadSnapshot, ReadLastViewer, LoadFails,
           PublishStats, PublishFails, RememberViewer, RestoreIndex, RestoreLikeDelta, RestoreFails,
           AggregatorCrashes, TakeLikeDelta, TakeFails, LoadCheckpoints, LoadAfterFails, SnapshotTick,
           SnapshotterCrashes, Recover, ReadTotal, RedisLost
  <2> QED BY <2>1, <2>2, <2>3
<1>2. IndInv => TypeOK
  BY DEF IndInv
<1> QED BY <1>1, <1>2, LikeStatsInductive, PTL DEF Spec, CheckpointNeverFalls

\* A total falls only when Redis loses its data: recovering old checkpoints undoes no
\* like that came meanwhile.
THEOREM TotalsOnlyGrow == Spec => TotalNeverFalls
<1>1. ASSUME TypeOK, [Next]_vars
      PROVE  [\A r \in Rooms : total'[r] >= total[r] \/ (total'[r] = 0 /\ r \in missing')]_vars
  <2> SUFFICES ASSUME Next
               PROVE  \A r \in Rooms : total'[r] >= total[r] \/ (total'[r] = 0 /\ r \in missing')
    BY <1>1
  <2>1. \A r \in Rooms : total[r] \in Nat /\ checkpoint[r] \in Nat
    BY <1>1 DEF TypeOK
  <2>2. CASE \E q \in Requests : AddLikes(q)
    <3>1. PICK q \in Requests : AddLikes(q)
      BY <2>2
    <3>2. Counts \cup {0} \subseteq Nat
      BY LikeStatsAssumption
    <3>3. likeCount[q] \in Nat
      BY <1>1, <3>2 DEF TypeOK
    <3> QED BY <1>1, <2>1, <3>1, <3>3 DEF AddLikes, TypeOK
  <2>3. CASE \E r \in Rooms : Recover(r)
    BY <1>1, <2>1, <2>3 DEF Recover, RestoreLikeSnapshot, Larger, TypeOK
  <2>4. CASE RedisLost
    BY <2>4 DEF RedisLost
  <2>5. \/ UNCHANGED total \/ RedisLost
        \/ \E q \in Requests : AddLikes(q)
        \/ \E r \in Rooms : Recover(r)
    BY DEF Next, Aggregate, TakeSnapshots, LikeArrives, LikeFails, ViewerArrives, ViewerLeaves,
           IndexAges, LastViewerExpires, Tick, LoadSnapshot, ReadLastViewer, LoadFails, PublishStats,
           PublishFails, RememberViewer, RestoreIndex, RestoreLikeDelta, RestoreFails,
           AggregatorCrashes, TakeLikeDelta, TakeFails, LoadCheckpoints, LoadAfterFails, SnapshotTick,
           SnapshotterCrashes, Save, ReadTotal, counters
  <2> QED BY <2>1, <2>2, <2>3, <2>4, <2>5
<1>2. IndInv => TypeOK
  BY DEF IndInv
<1> QED BY <1>1, <1>2, LikeStatsInductive, PTL DEF Spec, TotalNeverFalls
=============================================================================
