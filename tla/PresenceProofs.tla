---------------------------- MODULE PresenceProofs ----------------------------
(***************************************************************************)
(* Proofs about the presence of viewers, for any users, any lengths of     *)
(* TTL, window and delay that the configuration allows, and any time.      *)
(*                                                                         *)
(* The argument: a script carries a time of the past (ExpiryIsNear), and   *)
(* the index entry it writes is at most MaxDelay older than any touch that *)
(* ran before it (IndexIsRecent), so the aggregator drops the entry only   *)
(* when the last viewer has expired; a place, also one that outlived the   *)
(* pruning of its viewer, is a start of a stay (PlaceOutlivesPruning).     *)
(***************************************************************************)
EXTENDS Presence, FiniteSetTheorems, TLAPS

HistoryOK ==
    /\ promised \in [Users -> Nat]
    /\ swapped \in [Users -> BOOLEAN]
    /\ starts \in [Users -> SUBSET Nat]

\* No touch carries a time of the future.
ExpiryIsNear == \A u \in Users : expires[u] <= now + Ttl /\ promised[u] <= now + Ttl

\* The index entry of a room with viewers lags behind none of them by more than the
\* delay of a call.
IndexIsRecent ==
    \A u \in Users : Online(u) => index # Never /\ expires[u] <= index + MaxDelay + Ttl

\* A join time is a start of a stay, also while its viewer is pruned.
PlaceOutlivesPruning == \A u \in Users : join[u] # Never => join[u] \in starts[u]

IndInv ==
    /\ TypeOK
    /\ HistoryOK
    /\ ExpiryIsNear
    /\ IndexIsRecent
    /\ PlaceOutlivesPruning
    /\ PromiseIsKept

-----------------------------------------------------------------------------
\* The bounds are numbers, and a window outlasts a stay and a delay.
LEMMA Bounds ==
    /\ Ttl \in Nat /\ Window \in Nat /\ MaxDelay \in Nat /\ MaxGift \in Nat /\ MaxTime \in Nat
    /\ 1 <= MaxTime /\ Ttl > 0 /\ Window > Ttl + MaxDelay
  BY PresenceAssumption DEF ValidWindows

\* A script carries a time between the delay ago and now.
LEMMA ReadTimesRange ==
    ASSUME TypeOK, NEW t \in ReadTimes
    PROVE  t \in Nat /\ 1 <= t /\ t <= now /\ t >= now - MaxDelay /\ now \in Nat /\ now <= MaxTime
  BY Bounds DEF ReadTimes, TypeOK

\* What touchViewer leaves in the two sorted sets.
LEMMA TouchEffect ==
    ASSUME TypeOK, NEW t \in ReadTimes, NEW u \in Users, TouchViewer(u, t)
    PROVE  /\ expires'[u] = t + Ttl
           /\ join'[u] = IF join[u] = Never THEN t ELSE join[u]
           /\ \A v \in Users \ {u} :
                 \/ expires[v] <= t /\ expires'[v] = Never /\ join'[v] = Never
                 \/ expires[v] > t /\ expires'[v] = expires[v] /\ join'[v] = join[v]
           /\ expires' = [v \in Users |-> expires'[v]] /\ join' = [v \in Users |-> join'[v]]
<1> DEFINE zset == [expires EXCEPT ![u] = t + Ttl]
<1>1. t \in Nat /\ Ttl \in Nat /\ Ttl > 0
  BY ReadTimesRange, Bounds
<1>2. /\ expires' = ZRem(zset, Expired(zset, t))
      /\ join' = ZRem([join EXCEPT ![u] = Place(u, t)], Expired(zset, t))
  BY DEF TouchViewer, Expiry
<1>3. DOMAIN zset = Users /\ zset[u] = t + Ttl /\ \A v \in Users \ {u} : zset[v] = expires[v]
  BY DEF TypeOK
<1>4. DOMAIN [join EXCEPT ![u] = Place(u, t)] = Users
  BY DEF TypeOK
<1> HIDE DEF zset
<1>5. expires' = [v \in Users |-> IF v \in Expired(zset, t) THEN Never ELSE zset[v]]
  BY <1>2, <1>3 DEF ZRem
<1>6. join' = [v \in Users |-> IF v \in Expired(zset, t) THEN Never
                               ELSE [join EXCEPT ![u] = Place(u, t)][v]]
  BY <1>2, <1>4 DEF ZRem
<1>7. \A v \in Users : v \in Expired(zset, t) <=> zset[v] <= t
  BY <1>3 DEF Expired
<1>8. u \notin Expired(zset, t)
  BY <1>1, <1>3, <1>7
<1>9. \A v \in Users \ {u} : /\ expires[v] \in Nat
                             /\ v \in Expired(zset, t) <=> expires[v] <= t
  BY <1>3, <1>7, Bounds DEF TypeOK
<1>10. expires'[u] = t + Ttl /\ join'[u] = IF join[u] = Never THEN t ELSE join[u]
  BY <1>3, <1>5, <1>6, <1>8 DEF Place, TypeOK
<1>11. ASSUME NEW v \in Users \ {u}
       PROVE  \/ expires[v] <= t /\ expires'[v] = Never /\ join'[v] = Never
              \/ expires[v] > t /\ expires'[v] = expires[v] /\ join'[v] = join[v]
  <2>1. CASE v \in Expired(zset, t)
    BY <1>5, <1>6, <1>9, <2>1
  <2>2. CASE v \notin Expired(zset, t)
    BY <1>1, <1>3, <1>5, <1>6, <1>9, <2>2 DEF TypeOK
  <2> QED BY <2>1, <2>2
<1> QED BY <1>5, <1>6, <1>10, <1>11

LEMMA SnapshotEffect ==
    ASSUME TypeOK, NEW t \in ReadTimes, Snapshot(t)
    PROVE  /\ \A v \in Users : \/ expires[v] <= t /\ expires'[v] = Never
                               \/ expires[v] > t /\ expires'[v] = expires[v]
           /\ expires' = [v \in Users |-> expires'[v]]
<1>1. expires' = [v \in Users |-> IF v \in Expired(expires, t) THEN Never ELSE expires[v]]
  BY DEF Snapshot, ZRem, TypeOK
<1>2. \A v \in Users : v \in Expired(expires, t) <=> expires[v] <= t
  BY DEF Expired, TypeOK
<1>3. t \in Nat /\ \A v \in Users : expires[v] \in Nat
  BY ReadTimesRange, Bounds DEF TypeOK
<1> QED BY <1>1, <1>2, <1>3

LEMMA IndInit == Init => IndInv
<1> SUFFICES ASSUME Init PROVE IndInv
  OBVIOUS
<1>1. TypeOK /\ HistoryOK
  BY Bounds DEF Init, TypeOK, HistoryOK, Never
<1> QED
  BY <1>1, Bounds DEF Init, IndInv, ExpiryIsNear, IndexIsRecent, Online, PlaceOutlivesPruning,
                      PromiseIsKept, Never

-----------------------------------------------------------------------------
\* A touch, with a time that may be older than the last one's.
LEMMA TouchStep ==
    ASSUME IndInv, NEW t \in ReadTimes, NEW u \in Users, TouchViewer(u, t)
    PROVE  IndInv'
<1> USE DEF IndInv
<1>1. /\ t \in Nat /\ 1 <= t /\ t <= now /\ t >= now - MaxDelay /\ now \in Nat /\ now <= MaxTime
      /\ Ttl \in Nat /\ MaxDelay \in Nat /\ MaxTime \in Nat /\ Ttl > 0
  BY ReadTimesRange, Bounds
<1>2. /\ expires'[u] = t + Ttl
      /\ join'[u] = IF join[u] = Never THEN t ELSE join[u]
      /\ \A v \in Users \ {u} :
            \/ expires[v] <= t /\ expires'[v] = Never /\ join'[v] = Never
            \/ expires[v] > t /\ expires'[v] = expires[v] /\ join'[v] = join[v]
      /\ expires' = [v \in Users |-> expires'[v]] /\ join' = [v \in Users |-> join'[v]]
  BY TouchEffect
<1>3. index' = t /\ now' = now /\ gift' = gift
  BY DEF TouchViewer, IndexScore
<1>4. \A v \in Users : expires[v] \in 0..(MaxTime + Ttl) /\ join[v] \in 0..MaxTime
  BY DEF TypeOK
<1>5. TypeOK'
  <2>1. ASSUME NEW v \in Users
        PROVE  /\ expires'[v] \in 0..(MaxTime + Ttl) /\ join'[v] \in 0..MaxTime
               /\ expires'[v] # Never => join'[v] # Never
    <3>1. CASE v = u
      BY <1>1, <1>2, <1>4, <3>1 DEF Never
    <3>2. CASE v # u
      BY <1>1, <1>2, <1>4, <3>2 DEF Never, TypeOK
    <3> QED BY <3>1, <3>2
  <2>2. expires' \in [Users -> 0..(MaxTime + Ttl)]
    BY <1>2, <2>1
  <2>3. join' \in [Users -> 0..MaxTime]
    BY <1>2, <2>1
  <2> QED BY <1>1, <1>3, <2>1, <2>2, <2>3 DEF TypeOK
<1>6. /\ promised'[u] = IF t + Ttl > promised[u] THEN t + Ttl ELSE promised[u]
      /\ swapped'[u] = ((swapped[u] /\ expires[u] > now) \/ promised[u] > t + Ttl)
      /\ starts'[u] = IF expires[u] <= now THEN starts[u] \cup {t} ELSE starts[u]
      /\ \A v \in Users \ {u} :
            promised'[v] = promised[v] /\ swapped'[v] = swapped[v] /\ starts'[v] = starts[v]
  BY DEF TouchViewer, Promise, HistoryOK
<1>7. HistoryOK'
  <2>1. promised' \in [Users -> Nat]
    BY <1>1 DEF TouchViewer, Promise, HistoryOK
  <2>2. swapped' \in [Users -> BOOLEAN]
    BY Zenon DEF TouchViewer, Promise, HistoryOK
  <2>3. starts' \in [Users -> SUBSET Nat]
    BY <1>1 DEF TouchViewer, Promise, HistoryOK
  <2> QED BY <2>1, <2>2, <2>3 DEF HistoryOK
<1>8. ExpiryIsNear'
  BY <1>1, <1>2, <1>3, <1>6 DEF ExpiryIsNear, Never
<1>9. IndexIsRecent'
  <2> SUFFICES ASSUME NEW v \in Users, expires'[v] > now
               PROVE  t # Never /\ expires'[v] <= t + MaxDelay + Ttl
    BY <1>3 DEF IndexIsRecent, Online
  <2>1. expires'[v] <= now + Ttl
    BY <1>1, <1>2 DEF ExpiryIsNear, Never
  <2>2. expires'[v] \in Nat
    BY <1>5 DEF TypeOK
  <2> QED BY <1>1, <2>1, <2>2 DEF Never
<1>10. PlaceOutlivesPruning'
  <2>1. join[u] = Never => expires[u] <= now
    BY <1>1, <1>4 DEF TypeOK, Never
  <2>2. join'[u] \in starts'[u]
    BY <1>2, <1>6, <2>1 DEF PlaceOutlivesPruning
  <2> QED BY <1>2, <1>6, <2>2 DEF PlaceOutlivesPruning
<1>11. PromiseIsKept'
  <2> SUFFICES ASSUME NEW v \in Users
               PROVE  /\ promised'[v] > now /\ ~swapped'[v] => expires'[v] = promised'[v]
                      /\ promised'[v] > now + MaxDelay => expires'[v] >= promised'[v] - MaxDelay
    BY <1>3 DEF PromiseIsKept
  <2>0. promised[v] \in Nat /\ promised[v] <= now + Ttl
    BY DEF HistoryOK, ExpiryIsNear
  <2>1. CASE v = u
    <3>1. ~swapped'[u] => ~(promised[u] > t + Ttl)
      BY <1>6
    <3>2. expires'[v] = t + Ttl
      BY <1>2, <2>1
    <3>3. promised'[v] = t + Ttl \/ (promised'[v] = promised[v] /\ promised[v] >= t + Ttl)
      BY <1>1, <1>6, <2>0, <2>1
    <3> QED BY <1>1, <2>0, <2>1, <3>1, <3>2, <3>3
  <2>2. CASE v # u
    <3>1. promised'[v] = promised[v] /\ swapped'[v] = swapped[v] /\ expires[v] \in Nat
      BY <1>1, <1>4, <1>6, <2>2
    <3>2. expires[v] > now => expires'[v] = expires[v]
      BY <1>1, <1>2, <2>2, <3>1
    <3>3. promised[v] > now + MaxDelay => expires[v] > now
      BY <1>1, <2>0, <3>1 DEF PromiseIsKept
    <3> QED BY <1>1, <2>0, <3>1, <3>2, <3>3 DEF PromiseIsKept
  <2> QED BY <2>1, <2>2
<1> QED BY <1>5, <1>7, <1>8, <1>9, <1>10, <1>11

\* Only the index entry was written.
LEMMA TouchFailsStep == ASSUME IndInv, NEW t \in ReadTimes, TouchFails(t) PROVE IndInv'
<1> USE DEF IndInv
<1>1. /\ t \in Nat /\ 1 <= t /\ t <= now /\ t >= now - MaxDelay /\ now \in Nat /\ now <= MaxTime
      /\ Ttl \in Nat /\ MaxDelay \in Nat /\ MaxTime \in Nat
  BY ReadTimesRange, Bounds
<1>2. index' = t /\ UNCHANGED <<now, expires, join, gift, promised, swapped, starts>>
  BY DEF TouchFails, IndexScore, historyVars
<1>3. TypeOK' /\ HistoryOK'
  BY <1>1, <1>2 DEF TypeOK, HistoryOK
<1>4. ExpiryIsNear' /\ PlaceOutlivesPruning' /\ PromiseIsKept'
  BY <1>2 DEF ExpiryIsNear, PlaceOutlivesPruning, PromiseIsKept
<1>5. IndexIsRecent'
  <2>1. \A v \in Users : expires[v] \in Nat
    BY <1>1 DEF TypeOK
  <2> QED BY <1>1, <1>2, <2>1 DEF IndexIsRecent, ExpiryIsNear, Online, Never
<1> QED BY <1>3, <1>4, <1>5

\* The user leaves, and nothing is promised any more.
LEMMA RemoveViewerStep == ASSUME IndInv, NEW u \in Users, RemoveViewer(u) PROVE IndInv'
<1> USE DEF IndInv
<1>1. Ttl \in Nat /\ MaxTime \in Nat /\ MaxDelay \in Nat /\ now \in 1..MaxTime
  BY Bounds DEF TypeOK
<1>2. /\ expires'[u] = Never /\ join'[u] = Never /\ promised'[u] = Never
      /\ \A v \in Users \ {u} : /\ expires'[v] = expires[v] /\ join'[v] = join[v]
                                /\ promised'[v] = promised[v] /\ swapped'[v] = swapped[v]
                                /\ starts'[v] = starts[v]
      /\ UNCHANGED <<now, gift, index>>
  BY DEF RemoveViewer, TypeOK, HistoryOK
<1>3. TypeOK'
  BY <1>1 DEF RemoveViewer, TypeOK, Never
<1>4. HistoryOK'
  BY DEF RemoveViewer, HistoryOK, Never
<1>5. ExpiryIsNear' /\ IndexIsRecent'
  BY <1>1, <1>2 DEF ExpiryIsNear, IndexIsRecent, Online, Never
<1>6. PlaceOutlivesPruning'
  BY <1>2 DEF PlaceOutlivesPruning
<1>7. PromiseIsKept'
  BY <1>1, <1>2 DEF PromiseIsKept, Never
<1> QED BY <1>3, <1>4, <1>5, <1>6, <1>7

\* A count prunes nobody to whom more time was promised.
LEMMA SnapshotStep == ASSUME IndInv, NEW t \in ReadTimes, Snapshot(t) PROVE IndInv'
<1> USE DEF IndInv
<1>1. /\ t \in Nat /\ t <= now /\ now \in Nat
      /\ Ttl \in Nat /\ MaxDelay \in Nat /\ MaxTime \in Nat
  BY ReadTimesRange, Bounds
<1>2. /\ \A v \in Users : \/ expires[v] <= t /\ expires'[v] = Never
                          \/ expires[v] > t /\ expires'[v] = expires[v]
      /\ expires' = [v \in Users |-> expires'[v]]
  BY SnapshotEffect
<1>3. UNCHANGED <<now, join, gift, index, promised, swapped, starts>>
  BY DEF Snapshot, historyVars
<1>4. \A v \in Users : expires[v] \in 0..(MaxTime + Ttl)
  BY DEF TypeOK
<1>5. TypeOK'
  <2>1. \A v \in Users : expires'[v] \in 0..(MaxTime + Ttl)
    BY <1>1, <1>2, <1>4 DEF Never
  <2>2. expires' \in [Users -> 0..(MaxTime + Ttl)]
    BY <1>2, <2>1
  <2> QED BY <1>2, <1>3, <2>2 DEF TypeOK
<1>6. HistoryOK' /\ PlaceOutlivesPruning'
  BY <1>3 DEF HistoryOK, PlaceOutlivesPruning
<1>7. ExpiryIsNear' /\ IndexIsRecent'
  BY <1>1, <1>2, <1>3, <1>4 DEF ExpiryIsNear, IndexIsRecent, Online, Never
<1>8. PromiseIsKept'
  BY <1>1, <1>2, <1>3, <1>4 DEF PromiseIsKept, HistoryOK
<1> QED BY <1>5, <1>6, <1>7, <1>8

LEMMA GiftStep == ASSUME IndInv, NEW u \in Users, AddViewerGiftValue(u) PROVE IndInv'
<1>1. gift' \in [Users -> 0..MaxGift]
  <2>1. gift[u] \in 0..MaxGift /\ gift[u] < MaxGift /\ MaxGift \in Nat
    BY Bounds DEF AddViewerGiftValue, IndInv, TypeOK
  <2>2. gift[u] + 1 \in 0..MaxGift
    BY <2>1
  <2> QED BY <2>2 DEF AddViewerGiftValue, IndInv, TypeOK
<1> QED
  BY <1>1 DEF AddViewerGiftValue, historyVars, IndInv, TypeOK, HistoryOK, ExpiryIsNear, IndexIsRecent,
              Online, PlaceOutlivesPruning, PromiseIsKept

\* The aggregator drops the entry only when the last viewer has expired.
LEMMA ActiveRoomsStep == ASSUME IndInv, NEW t \in ReadTimes, ActiveRooms(t) PROVE IndInv'
<1> USE DEF IndInv
<1>1. /\ t \in Nat /\ t <= now /\ now \in Nat
      /\ Ttl \in Nat /\ MaxDelay \in Nat /\ Window \in Nat /\ MaxTime \in Nat /\ Window > Ttl + MaxDelay
  BY ReadTimesRange, Bounds
<1>2. /\ UNCHANGED <<now, expires, join, gift, promised, swapped, starts>>
      /\ index' = IF index <= t - Window THEN Never ELSE index
  BY DEF ActiveRooms, historyVars
<1>3. TypeOK' /\ HistoryOK'
  BY <1>1, <1>2 DEF TypeOK, HistoryOK, Never
<1>4. IndexIsRecent'
  <2> SUFFICES ASSUME NEW v \in Users, expires[v] > now
               PROVE  index' # Never /\ expires[v] <= index' + MaxDelay + Ttl
    BY <1>2 DEF IndexIsRecent, Online
  <2>1. index # Never /\ expires[v] <= index + MaxDelay + Ttl /\ expires[v] \in Nat /\ index \in Nat
    BY <1>1 DEF IndexIsRecent, Online, TypeOK
  <2> QED BY <1>1, <1>2, <2>1
<1> QED BY <1>2, <1>3, <1>4 DEF ExpiryIsNear, PlaceOutlivesPruning, PromiseIsKept

LEMMA TickStep == ASSUME IndInv, Tick PROVE IndInv'
<1> USE DEF IndInv
<1>1. /\ now \in Nat /\ now' = now + 1 /\ now' \in 1..MaxTime
      /\ Ttl \in Nat /\ MaxDelay \in Nat /\ MaxTime \in Nat
      /\ UNCHANGED <<expires, join, gift, index, promised, swapped, starts>>
  BY Bounds DEF Tick, TypeOK, redisVars, historyVars
<1>2. TypeOK' /\ HistoryOK' /\ PlaceOutlivesPruning'
  BY <1>1 DEF TypeOK, HistoryOK, PlaceOutlivesPruning
<1>3. \A v \in Users : expires[v] \in Nat /\ promised[v] \in Nat
  BY <1>1 DEF TypeOK, HistoryOK
<1>4. ExpiryIsNear' /\ IndexIsRecent' /\ PromiseIsKept'
  BY <1>1, <1>3 DEF ExpiryIsNear, IndexIsRecent, Online, PromiseIsKept
<1> QED BY <1>2, <1>4

-----------------------------------------------------------------------------
\* Every step keeps the inductive invariant.
LEMMA IndStep == IndInv /\ [Next]_vars => IndInv'
<1> SUFFICES ASSUME IndInv, [Next]_vars PROVE IndInv'
  OBVIOUS
<1>1. CASE UNCHANGED vars
  BY <1>1 DEF vars, redisVars, historyVars, IndInv, TypeOK, HistoryOK, ExpiryIsNear, IndexIsRecent,
              Online, PlaceOutlivesPruning, PromiseIsKept
<1> QED
  BY <1>1, TouchStep, TouchFailsStep, RemoveViewerStep, SnapshotStep, GiftStep, ActiveRoomsStep, TickStep
     DEF Next

\* The inductive invariant of presence.
THEOREM PresenceInductive == Spec => []IndInv
  BY IndInit, IndStep, PTL DEF Spec

\* Viewers have places, places are starts of stays, and a room with viewers is in the
\* active-rooms index, however the calls of the replicas are delayed and reordered.
THEOREM PresenceInvariant == Spec => []PresenceInv
<1>1. IndInv => PresenceInv
  BY DEF IndInv, PresenceInv, TypeOK, PlaceIsAStart, PlaceOutlivesPruning, ViewersKeepRoomActive,
         IndexIsRecent
<1> QED BY <1>1, PresenceInductive, PTL

\* Whom a touch promised a time is counted that long, whoever prunes in between.
THEOREM PromisesAreKept == Spec => []PromiseIsKept
<1>1. IndInv => PromiseIsKept
  BY DEF IndInv
<1> QED BY <1>1, PresenceInductive, PTL

\* Who stays keeps the place.
THEOREM PlacesAreKept == Spec => PlaceIsKept
<1>1. ASSUME IndInv, [Next]_vars
      PROVE  [\A u \in Users : Online(u) /\ expires'[u] # Never => join'[u] = join[u]]_vars
  <2> SUFFICES ASSUME Next, NEW u \in Users, Online(u), expires'[u] # Never
               PROVE  join'[u] = join[u]
    BY <1>1
  <2>1. now \in Nat /\ expires[u] \in Nat /\ join[u] # Never
    BY <1>1, Bounds DEF IndInv, TypeOK, Online, Never
  <2>2. ASSUME NEW t \in ReadTimes, NEW v \in Users, TouchViewer(v, t) PROVE join'[u] = join[u]
    <3>1. t \in Nat /\ t <= now
      BY <1>1, ReadTimesRange DEF IndInv
    <3>2. CASE v = u
      BY <1>1, <2>1, <2>2, <3>2, TouchEffect DEF IndInv
    <3>3. CASE v # u
      BY <1>1, <2>1, <2>2, <3>1, <3>3, TouchEffect DEF IndInv, Online
    <3> QED BY <3>2, <3>3
  <2>3. ASSUME NEW v \in Users, RemoveViewer(v) PROVE join'[u] = join[u]
    BY <1>1, <2>3 DEF RemoveViewer, IndInv, TypeOK
  <2>4. \/ UNCHANGED join
        \/ \E v \in Users : RemoveViewer(v) \/ \E t \in ReadTimes : TouchViewer(v, t)
    BY DEF Next, TouchFails, Snapshot, ActiveRooms, AddViewerGiftValue, Tick, redisVars
  <2> QED BY <2>2, <2>3, <2>4
<1> QED BY <1>1, PresenceInductive, PTL DEF Spec, PlaceIsKept

-----------------------------------------------------------------------------
(* The ranking *)

\* A sequence of as many different members as a finite set has holds them all.
LEMMA SetToSeqsCovers ==
    ASSUME NEW S, IsFiniteSet(S), NEW z \in SetToSeqs(S), NEW x \in S
    PROVE  \E i \in 1..Cardinality(S) : z[i] = x
<1> DEFINE D == 1..Cardinality(S)
<1>1. Cardinality(S) \in Nat
  BY FS_CardinalityType
<1>2. z \in [D -> S] /\ \A i, j \in D : i # j => z[i] # z[j]
  BY DEF SetToSeqs
<1>3. z \in Injection(D, S)
  BY <1>2 DEF Injection, IsInjective
<1>4. Cardinality(D) = Cardinality(S)
  BY <1>1, FS_Interval
<1>5. z \in Surjection(D, S)
  BY <1>3, <1>4, FS_Injection
<1> QED BY <1>5 DEF Surjection

\* Of two viewers that one ranking lists or could list, the one that outranks the
\* other stands before it: the sort, and the cut at the limit, keep the order.
LEMMA OutrankingIsListedFirst ==
    ASSUME TypeOK, NEW t \in ReadTimes, NEW s \in TopViewers(t), NEW u \in Users, NEW v \in Users,
           Online(u), Outranks(u, v), ~Outranks(v, u), NEW k \in DOMAIN s, s[k] = v
    PROVE  \E i \in 1..(k - 1) : s[i] = u
<1> DEFINE active == {x \in Users : expires[x] >= t /\ expires[x] # Never}
           n == Cardinality(active)
<1>1. IsFiniteSet(active) /\ n \in Nat
  BY PresenceAssumption, FS_Subset, FS_CardinalityType
<1>2. u \in active
  BY ReadTimesRange, Bounds DEF Online, TypeOK, Never
<1>3. PICK z \in SetToSeqs(active) :
         /\ \A i, j \in 1..n : i < j => ~Outranks(z[j], z[i])
         /\ s = SubSeq(z, 1, IF Len(z) < Limit THEN Len(z) ELSE Limit)
  BY DEF TopViewers
<1> HIDE DEF active
<1>4. z \in [1..n -> active]
  BY DEF SetToSeqs
<1> HIDE DEF n
<1>5. z \in Seq(active) /\ Len(z) = n
  BY <1>1, <1>4
<1>6. PICK m \in 0..n : s = SubSeq(z, 1, m)
  <2>1. Limit \in Nat
    BY PresenceAssumption
  <2> QED BY <1>1, <1>3, <1>5, <2>1
<1>7. Len(s) = m /\ \A j \in 1..m : s[j] = z[j]
  BY <1>1, <1>5, <1>6
<1>8. k \in 1..m /\ z[k] = v
  BY <1>5, <1>6, <1>7
<1>9. PICK i \in 1..n : z[i] = u
  BY <1>1, <1>2, <1>3, SetToSeqsCovers DEF n
<1>10. i < k
  <2>1. ~(k < i)
    BY <1>1, <1>3, <1>6, <1>8, <1>9
  <2>2. i # k
    BY <1>8, <1>9
  <2> QED BY <1>1, <1>6, <1>8, <2>1, <2>2
<1>11. i \in 1..(k - 1) /\ s[i] = u
  BY <1>1, <1>6, <1>7, <1>8, <1>9, <1>10
<1> QED BY <1>11

\* Of two viewers with the same gifts, each there since it came, the first one is
\* listed first and never left out for the other, in every ranking the script may
\* return.
THEOREM RankingIsFirstCome == Spec => []FirstComeFirstListed
<1>1. IndInv => FirstComeFirstListed
  <2> SUFFICES ASSUME IndInv, NEW t \in ReadTimes, NEW s \in TopViewers(t),
                      NEW u \in Users, NEW v \in Users, CameBefore(u, v),
                      NEW k \in DOMAIN s, s[k] = v
               PROVE  \E i \in 1..(k - 1) : s[i] = u
    BY DEF FirstComeFirstListed
  <2>1. /\ expires[u] # Never /\ expires[v] # Never
        /\ join[u] \in Nat /\ join[v] \in Nat /\ gift[u] \in Nat /\ gift[v] \in Nat
    BY Bounds DEF CameBefore, Online, IndInv, TypeOK, Never
  <2>2. join[u] \in starts[u] /\ join[v] \in starts[v]
    BY <2>1 DEF IndInv, TypeOK, PlaceOutlivesPruning
  <2>3. join[u] < join[v] /\ gift[u] = gift[v]
    BY <2>2 DEF CameBefore
  <2>4. Outranks(u, v) /\ ~Outranks(v, u)
    BY <2>1, <2>3 DEF Outranks
  <2> QED BY <2>4, OutrankingIsListedFirst DEF IndInv, CameBefore
<1> QED BY <1>1, PresenceInductive, PTL
=============================================================================
