----------------------------- MODULE LikeStats -----------------------------
(***************************************************************************)
(* Likes and viewer counts from the request to the room's screen: AddLikes *)
(* in Redis, the stats aggregator that takes the increments and broadcasts *)
(* them, and the snapshotter that keeps a checkpoint of the totals in      *)
(* MySQL and restores them after Redis lost its data.                      *)
(*                                                                         *)
(* The aggregator and the snapshotter are single processes (one replica,   *)
(* replaced only after it has stopped); a crash starts them again.  A call *)
(* to Redis, MySQL or Centrifugo is one step and the Lua scripts are       *)
(* atomic; a viewer's heartbeats are left out, except that they keep the    *)
(* room's index entry fresh (ACTIVE_ROOM_WINDOW exceeds VIEWER_TTL).       *)
(*                                                                         *)
(* Faults (an error that hides an effect, a crash, a Redis that comes back *)
(* empty) are bounded by MaxFaults; lossy and echoed record the rooms that *)
(* lost an increment to one, or may have been sent one twice.              *)
(***************************************************************************)
EXTENDS Integers, FiniteSets

CONSTANTS
    Rooms,
    Requests,    \* like requests in progress at once
    Counts,      \* the counts clients send
    Batch,       \* ACTIVE_ROOM_BATCH
    Shards,      \* shards of the active-rooms index, ACTIVE_ROOM_SHARDS of them
    ShardOf,     \* the shard of each room
    MaxLikes,    \* bound on the likes of a room
    MaxViewers,  \* bound on its viewers
    MaxFaults,
    NoRoom

ASSUME LikeStatsAssumption ==
    /\ Counts \subseteq 1..100
    /\ Batch \in Nat \ {0}
    /\ Shards # {} /\ IsFiniteSet(Shards)
    /\ ShardOf \in [Rooms -> Shards]
    /\ MaxLikes \in Nat /\ MaxViewers \in Nat /\ MaxFaults \in Nat
    /\ NoRoom \notin Rooms

VARIABLES
    total, delta, \* like:total and like:delta
    index,        \* the active-rooms zset: "absent", "fresh" or "old"
    viewers,      \* size of the presence set
    lastViewer,   \* stats:last_viewer, -1 when the key is absent
    checkpoint,   \* room_like_snapshots.like_count, 0 when there is no row
    likeRoom, likeCount, \* the likes between AddLikes' two calls
    apc, todo, room, hand, snap,    \* the aggregator's Tick
    spc, stodo, sroom, sval,        \* the snapshotter's Recover and Tick
    accepted, announced, shown,     \* history: likes added, broadcast, on screen
    missing,      \* history: rooms not restored since Redis lost its data
    faults, lossy, echoed

counters == <<total, delta>>
requestVars == <<likeRoom, likeCount>>
aggregatorVars == <<apc, todo, room, hand, snap>>
snapshotterVars == <<spc, stodo, sroom, sval>>
screenVars == <<announced, shown>>
faultVars == <<faults, lossy, echoed>>
vars == <<counters, index, viewers, lastViewer, checkpoint, requestVars, aggregatorVars,
          snapshotterVars, accepted, screenVars, missing, faultVars>>

Nothing == [likes |-> 0, viewers |-> 0]

Init ==
    /\ total = [r \in Rooms |-> 0]
    /\ delta = [r \in Rooms |-> 0]
    /\ index = [r \in Rooms |-> "absent"]
    /\ viewers = [r \in Rooms |-> 0]
    /\ lastViewer = [r \in Rooms |-> -1]
    /\ checkpoint = [r \in Rooms |-> 0]
    /\ likeRoom = [q \in Requests |-> NoRoom]
    /\ likeCount = [q \in Requests |-> 0]
    /\ apc = "idle" /\ todo = {} /\ room = NoRoom /\ hand = 0 /\ snap = Nothing
    /\ spc = "new" /\ stodo = {} /\ sroom = NoRoom /\ sval = 0
    /\ accepted = [r \in Rooms |-> 0]
    /\ announced = [r \in Rooms |-> 0]
    /\ shown = [r \in Rooms |-> Nothing]
    /\ missing = {}
    /\ faults = 0 /\ lossy = {} /\ echoed = {}

Larger(a, b) == IF a > b THEN a ELSE b
Smaller(a, b) == IF a < b THEN a ELSE b

Fault(lost, twice) ==
    /\ faults < MaxFaults
    /\ faults' = faults + 1
    /\ lossy' = lossy \cup lost
    /\ echoed' = echoed \cup twice

-----------------------------------------------------------------------------
(* Requests *)

\* AddLikes: the room enters the index first.
LikeArrives(q, r, n) ==
    /\ likeRoom[q] = NoRoom
    /\ index' = [index EXCEPT ![r] = "fresh"]
    /\ likeRoom' = [likeRoom EXCEPT ![q] = r]
    /\ likeCount' = [likeCount EXCEPT ![q] = n]
    /\ UNCHANGED <<counters, viewers, lastViewer, checkpoint, aggregatorVars, snapshotterVars,
                   accepted, screenVars, missing, faultVars>>

\* Then total and delta grow in one script.
AddLikes(q) ==
    LET r == likeRoom[q]
        n == likeCount[q]
    IN
    /\ r # NoRoom
    /\ accepted[r] + n <= MaxLikes
    /\ total' = [total EXCEPT ![r] = @ + n]
    /\ delta' = [delta EXCEPT ![r] = @ + n]
    /\ accepted' = [accepted EXCEPT ![r] = @ + n]
    /\ likeRoom' = [likeRoom EXCEPT ![q] = NoRoom]
    /\ likeCount' = [likeCount EXCEPT ![q] = 0]
    /\ UNCHANGED <<index, viewers, lastViewer, checkpoint, aggregatorVars, snapshotterVars,
                   screenVars, missing, faultVars>>

\* The script fails, or the handler dies before it: nothing is counted.
LikeFails(q) ==
    /\ likeRoom[q] # NoRoom
    /\ likeRoom' = [likeRoom EXCEPT ![q] = NoRoom]
    /\ likeCount' = [likeCount EXCEPT ![q] = 0]
    /\ UNCHANGED <<counters, index, viewers, lastViewer, checkpoint, aggregatorVars,
                   snapshotterVars, accepted, screenVars, missing, faultVars>>

\* TouchViewer of a new viewer.
ViewerArrives(r) ==
    /\ viewers[r] < MaxViewers
    /\ viewers' = [viewers EXCEPT ![r] = @ + 1]
    /\ index' = [index EXCEPT ![r] = "fresh"]
    /\ UNCHANGED <<counters, lastViewer, checkpoint, requestVars, aggregatorVars,
                   snapshotterVars, accepted, screenVars, missing, faultVars>>

\* RemoveViewer, or the TTL of a viewer; the index is not touched.
ViewerLeaves(r) ==
    /\ viewers[r] > 0
    /\ viewers' = [viewers EXCEPT ![r] = @ - 1]
    /\ UNCHANGED <<counters, index, lastViewer, checkpoint, requestVars, aggregatorVars,
                   snapshotterVars, accepted, screenVars, missing, faultVars>>

-----------------------------------------------------------------------------
(* stats.Aggregator *)

\* ActiveRooms: forget the old entries and return the most recent ones of each
\* shard, Batch in all.
Pruned == [r \in Rooms |-> IF index[r] = "old" THEN "absent" ELSE index[r]]
PerShard == (Batch + Cardinality(Shards) - 1) \div Cardinality(Shards)
InShard(S, k) == {r \in S : ShardOf[r] = k}
ActiveRooms ==
    LET fresh == {r \in Rooms : index[r] = "fresh"}
        share(k) == Smaller(PerShard, Cardinality(InShard(fresh, k)))
        full(S) == \A k \in Shards : Cardinality(InShard(S, k)) = share(k)
    IN  {S \in SUBSET fresh :
            /\ \A k \in Shards : Cardinality(InShard(S, k)) <= share(k)
            /\ Cardinality(S) <= Batch
            /\ full(S) \/ Cardinality(S) = Batch}

Tick ==
    /\ apc = "idle"
    /\ index' = Pruned
    /\ todo' \in ActiveRooms
    /\ apc' = IF todo' = {} THEN "idle" ELSE "rooms"
    /\ UNCHANGED <<counters, viewers, lastViewer, checkpoint, requestVars, room, hand, snap,
                   snapshotterVars, accepted, screenVars, missing, faultVars>>

\* On to the next room of the tick.
NextRoom ==
    /\ apc' = IF todo = {} THEN "idle" ELSE "rooms"
    /\ room' = NoRoom
    /\ hand' = 0
    /\ snap' = Nothing
    /\ UNCHANGED todo

\* GETDEL of the increment.
TakeLikeDelta(r) ==
    /\ apc = "rooms"
    /\ r \in todo
    /\ hand' = delta[r]
    /\ delta' = [delta EXCEPT ![r] = 0]
    /\ todo' = todo \ {r}
    /\ room' = r
    /\ apc' = "snapshot"
    /\ UNCHANGED <<total, index, viewers, lastViewer, checkpoint, requestVars, snap,
                   snapshotterVars, accepted, screenVars, missing, faultVars>>

\* GETDEL reports an error: the room is skipped, the increment perhaps deleted.
TakeFails(r) ==
    /\ apc = "rooms"
    /\ r \in todo
    /\ todo' = todo \ {r}
    /\ apc' = IF todo = {r} THEN "idle" ELSE "rooms"
    /\ \/ UNCHANGED <<delta, faultVars>>
       \/ delta' = [delta EXCEPT ![r] = 0] /\ Fault({r}, {})
    /\ UNCHANGED <<total, index, viewers, lastViewer, checkpoint, requestVars, room, hand, snap,
                   snapshotterVars, accepted, screenVars, missing>>

\* Snapshot.
LoadSnapshot ==
    /\ apc = "snapshot"
    /\ snap' = [likes |-> total[room], viewers |-> viewers[room]]
    /\ apc' = "last"
    /\ UNCHANGED <<counters, index, viewers, lastViewer, checkpoint, requestVars, todo, room, hand,
                   snapshotterVars, accepted, screenVars, missing, faultVars>>

\* LastPublishedViewer: without a change there is nothing to broadcast.
ReadLastViewer ==
    /\ apc = "last"
    /\ IF hand = 0 /\ lastViewer[room] = snap.viewers
         THEN NextRoom
         ELSE apc' = "publish" /\ UNCHANGED <<todo, room, hand, snap>>
    /\ UNCHANGED <<counters, index, viewers, lastViewer, checkpoint, requestVars,
                   snapshotterVars, accepted, screenVars, missing, faultVars>>

\* Either read fails: the increment is given back.
LoadFails ==
    /\ apc \in {"snapshot", "last"}
    /\ apc' = "restore"
    /\ UNCHANGED <<counters, index, viewers, lastViewer, checkpoint, requestVars, todo, room, hand,
                   snap, snapshotterVars, accepted, screenVars, missing, faultVars>>

OnScreen ==
    /\ announced' = [announced EXCEPT ![room] = @ + hand]
    /\ shown' = [shown EXCEPT ![room] = snap]

PublishStats ==
    /\ apc = "publish"
    /\ OnScreen
    /\ apc' = "remember"
    /\ hand' = 0
    /\ UNCHANGED <<counters, index, viewers, lastViewer, checkpoint, requestVars, todo, room, snap,
                   snapshotterVars, accepted, missing, faultVars>>

\* The error may hide a broadcast that went out.
PublishFails ==
    /\ apc = "publish"
    /\ apc' = "restore"
    /\ \/ UNCHANGED <<screenVars, faultVars>>
       \/ OnScreen /\ Fault({}, {room})
    /\ UNCHANGED <<counters, index, viewers, lastViewer, checkpoint, requestVars, todo, room, hand,
                   snap, snapshotterVars, accepted, missing>>

\* SetPublishedViewer; its error is only logged.
RememberViewer ==
    /\ apc = "remember"
    /\ lastViewer' \in {lastViewer, [lastViewer EXCEPT ![room] = snap.viewers]}
    /\ NextRoom
    /\ UNCHANGED <<counters, index, viewers, checkpoint, requestVars,
                   snapshotterVars, accepted, screenVars, missing, faultVars>>

\* RestoreLikeDelta: back into the index first ...
RestoreIndex ==
    /\ apc = "restore"
    /\ IF hand = 0
         THEN NextRoom /\ UNCHANGED index
         ELSE /\ index' = [index EXCEPT ![room] = "fresh"]
              /\ apc' = "restoreDelta"
              /\ UNCHANGED <<todo, room, hand, snap>>
    /\ UNCHANGED <<counters, viewers, lastViewer, checkpoint, requestVars,
                   snapshotterVars, accepted, screenVars, missing, faultVars>>

\* Mutant: the key is set instead of incremented.
RestoreLikeDelta_Sets ==
    /\ apc = "restoreDelta"
    /\ delta' = [delta EXCEPT ![room] = hand]
    /\ NextRoom
    /\ UNCHANGED <<total, index, viewers, lastViewer, checkpoint, requestVars,
                   snapshotterVars, accepted, screenVars, missing, faultVars>>

\* ... then INCRBY, on top of the likes that came meanwhile.
RestoreLikeDelta ==
    /\ apc = "restoreDelta"
    /\ delta' = [delta EXCEPT ![room] = @ + hand]
    /\ NextRoom
    /\ UNCHANGED <<total, index, viewers, lastViewer, checkpoint, requestVars,
                   snapshotterVars, accepted, screenVars, missing, faultVars>>

\* Either call fails; the error is ignored and the increment is gone.
RestoreFails ==
    /\ apc \in {"restore", "restoreDelta"}
    /\ hand > 0
    /\ NextRoom
    /\ Fault({room}, {})
    /\ UNCHANGED <<counters, index, viewers, lastViewer, checkpoint, requestVars,
                   snapshotterVars, accepted, screenVars, missing>>

AggregatorCrashes ==
    /\ apc # "idle"
    /\ Fault(IF hand > 0 THEN {room} ELSE {}, {})
    /\ apc' = "idle" /\ todo' = {} /\ room' = NoRoom /\ hand' = 0 /\ snap' = Nothing
    /\ UNCHANGED <<counters, index, viewers, lastViewer, checkpoint, requestVars,
                   snapshotterVars, accepted, screenVars, missing>>

-----------------------------------------------------------------------------
(* like.Snapshotter *)

NextSnapshot == spc' = IF stodo' = {} THEN "idle" ELSE "rooms"

\* Recover lists the checkpoints.  Only this process writes them, so each page
\* still holds when its rows are restored.
LoadCheckpoints ==
    /\ spc = "new"
    /\ stodo' = {r \in Rooms : checkpoint[r] > 0}
    /\ spc' = IF stodo' = {} THEN "idle" ELSE "recover"
    /\ UNCHANGED <<counters, index, viewers, lastViewer, checkpoint, requestVars, aggregatorVars,
                   sroom, sval, accepted, screenVars, missing, faultVars>>

\* Mutants: the checkpoint overwrites a newer total, or is used only when the key is
\* absent.
RestoreLikeSnapshot_Sets(r) == total' = [total EXCEPT ![r] = checkpoint[r]]
RestoreLikeSnapshot_IfAbsent(r) == total' = [total EXCEPT ![r] = IF @ = 0 THEN checkpoint[r] ELSE @]

\* The script raises the total to the checkpoint and never lowers it.
RestoreLikeSnapshot(r) == total' = [total EXCEPT ![r] = Larger(@, checkpoint[r])]

\* The rows are restored one by one; when one failed, Run returns the error at
\* the end and the worker stops, to start again.
Recover(r) ==
    /\ spc \in {"recover", "recoverFailed"}
    /\ r \in stodo
    /\ stodo' = stodo \ {r}
    /\ \/ /\ RestoreLikeSnapshot(r)
          /\ missing' = missing \ {r}
          /\ spc' = IF stodo # {r} THEN spc ELSE IF spc = "recover" THEN "idle" ELSE "new"
       \/ /\ UNCHANGED <<total, missing>>
          /\ spc' = IF stodo # {r} THEN "recoverFailed" ELSE "new"
    /\ UNCHANGED <<delta, index, viewers, lastViewer, checkpoint, requestVars, aggregatorVars,
                   sroom, sval, accepted, screenVars, faultVars>>

\* A further page cannot be read.
LoadAfterFails ==
    /\ spc \in {"recover", "recoverFailed"}
    /\ spc' = "new"
    /\ stodo' = {}
    /\ UNCHANGED <<counters, index, viewers, lastViewer, checkpoint, requestVars, aggregatorVars,
                   sroom, sval, accepted, screenVars, missing, faultVars>>

SnapshotTick ==
    /\ spc = "idle"
    /\ index' = Pruned
    /\ stodo' \in ActiveRooms
    /\ NextSnapshot
    /\ UNCHANGED <<counters, viewers, lastViewer, checkpoint, requestVars, aggregatorVars,
                   sroom, sval, accepted, screenVars, missing, faultVars>>

\* LikeSnapshot; a failed read skips the room.
ReadTotal(r) ==
    /\ spc = "rooms"
    /\ r \in stodo
    /\ stodo' = stodo \ {r}
    /\ \/ sval' = total[r] /\ sroom' = r /\ spc' = "save"
       \/ NextSnapshot /\ UNCHANGED <<sval, sroom>>
    /\ UNCHANGED <<counters, index, viewers, lastViewer, checkpoint, requestVars, aggregatorVars,
                   accepted, screenVars, missing, faultVars>>

\* Mutant: ON DUPLICATE KEY UPDATE without GREATEST.
Greatest_New(old, new) == new

Greatest(old, new) == Larger(old, new)

\* Save; its error is only logged.
Save ==
    /\ spc = "save"
    /\ checkpoint' \in {checkpoint, [checkpoint EXCEPT ![sroom] = Greatest(@, sval)]}
    /\ sroom' = NoRoom /\ sval' = 0
    /\ spc' = IF stodo = {} THEN "idle" ELSE "rooms"
    /\ UNCHANGED <<counters, index, viewers, lastViewer, requestVars, aggregatorVars,
                   stodo, accepted, screenVars, missing, faultVars>>

SnapshotterCrashes ==
    /\ spc # "new"
    /\ Fault({}, {})
    /\ spc' = "new" /\ stodo' = {} /\ sroom' = NoRoom /\ sval' = 0
    /\ UNCHANGED <<counters, index, viewers, lastViewer, checkpoint, requestVars, aggregatorVars,
                   accepted, screenVars, missing>>

-----------------------------------------------------------------------------
(* Time and Redis *)

\* Nobody touched the room within the active window.
IndexAges(r) ==
    /\ index[r] = "fresh"
    /\ viewers[r] = 0
    /\ index' = [index EXCEPT ![r] = "old"]
    /\ UNCHANGED <<counters, viewers, lastViewer, checkpoint, requestVars, aggregatorVars,
                   snapshotterVars, accepted, screenVars, missing, faultVars>>

\* Mutant: SetPublishedViewer without a TTL.
LastViewerExpires_NoTTL(r) == FALSE /\ UNCHANGED vars

\* The TTL of SetPublishedViewer, twice the active window.
LastViewerExpires(r) ==
    /\ lastViewer[r] # -1
    /\ lastViewer' = [lastViewer EXCEPT ![r] = -1]
    /\ UNCHANGED <<counters, index, viewers, checkpoint, requestVars, aggregatorVars,
                   snapshotterVars, accepted, screenVars, missing, faultVars>>

\* Redis comes back without its data.
RedisLost ==
    /\ Fault(Rooms, {})
    /\ total' = [r \in Rooms |-> 0]
    /\ delta' = [r \in Rooms |-> 0]
    /\ index' = [r \in Rooms |-> "absent"]
    /\ viewers' = [r \in Rooms |-> 0]
    /\ lastViewer' = [r \in Rooms |-> -1]
    /\ missing' = Rooms
    /\ UNCHANGED <<checkpoint, requestVars, aggregatorVars, snapshotterVars, accepted, screenVars>>

-----------------------------------------------------------------------------
Aggregate ==
    \/ Tick \/ LoadSnapshot \/ ReadLastViewer \/ LoadFails \/ PublishStats \/ PublishFails
    \/ RememberViewer \/ RestoreIndex \/ RestoreLikeDelta \/ RestoreFails \/ AggregatorCrashes
    \/ \E r \in Rooms : TakeLikeDelta(r) \/ TakeFails(r)

TakeSnapshots ==
    \/ LoadCheckpoints \/ LoadAfterFails \/ SnapshotTick \/ Save \/ SnapshotterCrashes
    \/ \E r \in Rooms : Recover(r) \/ ReadTotal(r)

Next ==
    \/ \E q \in Requests : \/ \E r \in Rooms, n \in Counts : LikeArrives(q, r, n)
                           \/ AddLikes(q) \/ LikeFails(q)
    \/ \E r \in Rooms : ViewerArrives(r) \/ ViewerLeaves(r) \/ IndexAges(r) \/ LastViewerExpires(r)
    \/ Aggregate \/ TakeSnapshots \/ RedisLost

Spec == Init /\ [][Next]_vars

\* Run ticks for ever, Redis and Centrifugo answer a call that is made again and
\* again, and a TTL runs out.
Fairness ==
    /\ WF_vars(Aggregate)
    /\ \A r \in Rooms : SF_vars(TakeLikeDelta(r))
    /\ SF_vars(LoadSnapshot) /\ SF_vars(ReadLastViewer) /\ SF_vars(PublishStats)
    /\ \A r \in Rooms : WF_vars(LastViewerExpires(r))

FairSpec == Spec /\ Fairness

-----------------------------------------------------------------------------
(* Properties *)

TypeOK ==
    /\ total \in [Rooms -> Nat]
    /\ delta \in [Rooms -> Nat]
    /\ index \in [Rooms -> {"absent", "fresh", "old"}]
    /\ viewers \in [Rooms -> Nat]
    /\ lastViewer \in [Rooms -> Nat \cup {-1}]
    /\ checkpoint \in [Rooms -> Nat]
    /\ likeRoom \in [Requests -> Rooms \cup {NoRoom}]
    /\ likeCount \in [Requests -> Counts \cup {0}]
    /\ apc \in {"idle", "rooms", "snapshot", "last", "publish", "remember", "restore", "restoreDelta"}
    /\ todo \subseteq Rooms
    /\ room \in Rooms \cup {NoRoom}
    /\ hand \in Nat
    /\ snap \in [likes: Nat, viewers: Nat]
    /\ spc \in {"new", "recover", "recoverFailed", "idle", "rooms", "save"}
    /\ stodo \subseteq Rooms
    /\ sroom \in Rooms \cup {NoRoom}
    /\ sval \in Nat
    /\ accepted \in [Rooms -> Nat]
    /\ announced \in [Rooms -> Nat]
    /\ shown \in [Rooms -> [likes: Nat, viewers: Nat]]
    /\ missing \subseteq Rooms
    /\ faults \in 0..MaxFaults
    /\ lossy \subseteq Rooms
    /\ echoed \subseteq Rooms
    /\ apc \in {"idle", "rooms"} <=> room = NoRoom
    /\ room = NoRoom => hand = 0
    /\ spc = "save" <=> sroom # NoRoom

\* No like is invented: neither the total, nor its checkpoint, nor what a
\* screen shows exceeds the likes that were accepted, whatever was lost,
\* restored, given back or recovered.
NothingInvented ==
    \A r \in Rooms : /\ total[r] <= accepted[r]
                     /\ checkpoint[r] <= accepted[r]
                     /\ shown[r].likes <= accepted[r]

InHand(r) == IF room = r THEN hand ELSE 0

\* Every accepted like is broadcast, waiting in Redis or in the aggregator's
\* hand: exactly, unless a fault hit the room; and never more than once, unless
\* an error hid a broadcast.
LikesConserved ==
    \A r \in Rooms :
        /\ r \notin echoed => announced[r] + delta[r] + InHand(r) <= accepted[r]
        /\ r \notin lossy \cup echoed => announced[r] + delta[r] + InHand(r) = accepted[r]

\* Once a room is restored its total is at least its checkpoint, also when likes
\* came between the loss and the recovery, and when a checkpoint read before the
\* loss was stored after it.
RecoveredTotals == \A r \in Rooms \ missing : total[r] >= checkpoint[r]

\* The invariant of the totals: between what the room_like_snapshots table holds and
\* what AddLikes accepted, whatever was lost, recovered or stored late.
LikeStatsInv == TypeOK /\ NothingInvented /\ RecoveredTotals

\* A checkpoint never falls, also when Redis restarted at zero (INT-008).
CheckpointNeverFalls == [][\A r \in Rooms : checkpoint'[r] >= checkpoint[r]]_vars

\* A total falls only when Redis loses its data: a worker that restarts and
\* recovers old checkpoints does not undo the likes that came meanwhile.
TotalNeverFalls ==
    [][\A r \in Rooms : total'[r] >= total[r] \/ (total'[r] = 0 /\ r \in missing')]_vars

\* When the likes and the viewers of a watched room stop changing, its screens
\* come to show them, whatever was lost: the TTL of the last published viewer
\* count makes the aggregator broadcast again.
ScreenCatchesUp ==
    \A r \in Rooms : \A n \in 0..MaxLikes, v \in 1..MaxViewers :
        <>[](total[r] = n /\ viewers[r] = v) => <>[](shown[r] = [likes |-> n, viewers |-> v])
=============================================================================
