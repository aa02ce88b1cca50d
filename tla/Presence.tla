------------------------------ MODULE Presence ------------------------------
(***************************************************************************)
(* The presence of the viewers of one room in Redis, in real time: the     *)
(* viewers zset with its expiry times, the viewer-join zset, the gift      *)
(* values, the room's entry in the active-rooms index, and the ranking     *)
(* that live-query reads.  Who may join at all is Moderation's.            *)
(*                                                                         *)
(* Every call carries the time its replica read before it sent the script, *)
(* so a script may run up to MaxDelay after that time and two calls may    *)
(* run in the opposite order.  The clocks of the replicas agree.           *)
(*                                                                         *)
(* promised, swapped and starts are history for the properties: the        *)
(* time until which a user was last told to be counted, whether an older   *)
(* touch of the user ran after a younger one, and the times at which the   *)
(* stays of the user since it last left began.                             *)
(***************************************************************************)
EXTENDS Integers, FiniteSets, SequencesExt

CONSTANTS
    Users,
    Ttl,          \* VIEWER_TTL
    Window,       \* ACTIVE_ROOM_WINDOW
    Limit,        \* places of the ranking
    MaxDelay,     \* between a replica's clock reading and its script
    MaxTime, MaxGift

Never == 0

\* What the configuration guarantees, for calls that are delayed by less than the
\* time by which the window is larger.
ValidWindows == Ttl > 0 /\ Window > Ttl

ASSUME PresenceAssumption ==
    /\ IsFiniteSet(Users)
    /\ {Ttl, Window, Limit, MaxDelay, MaxGift} \subseteq Nat /\ MaxTime \in Nat \ {0}
    /\ ValidWindows
    /\ Window > Ttl + MaxDelay

VARIABLES
    now,
    expires,      \* the viewers zset; Never: not a member
    join,         \* the viewer-join zset; Never: not a member
    gift,         \* the viewer-gift zset
    index,        \* the room's score in the active-rooms index
    promised, swapped, starts

redisVars == <<expires, join, gift, index>>
historyVars == <<promised, swapped, starts>>
vars == <<now, redisVars, historyVars>>

Init ==
    /\ now = 1
    /\ expires = [u \in Users |-> Never]
    /\ join = [u \in Users |-> Never]
    /\ gift = [u \in Users |-> 0]
    /\ index = Never
    /\ promised = [u \in Users |-> Never]
    /\ swapped = [u \in Users |-> FALSE]
    /\ starts = [u \in Users |-> {}]

\* The times a script that runs now may carry.
ReadTimes == {t \in 1..now : t >= now - MaxDelay}

Expired(zset, t) == {u \in DOMAIN zset : zset[u] <= t}
ZRem(zset, gone) == [u \in DOMAIN zset |-> IF u \in gone THEN Never ELSE zset[u]]

\* What the touch of u tells its caller, and whether a stay begins with it.
Promise(u, t) ==
    /\ promised' = [promised EXCEPT ![u] = IF t + Ttl > @ THEN t + Ttl ELSE @]
    /\ swapped' = [swapped EXCEPT ![u] = (@ /\ expires[u] > now) \/ promised[u] > t + Ttl]
    /\ starts' = [starts EXCEPT ![u] = IF expires[u] <= now THEN @ \cup {t} ELSE @]

\* Mutant: a heartbeat does not extend the stay.
Expiry_NotExtended(u, t) == IF expires[u] = Never THEN t + Ttl ELSE expires[u]

\* ZADD: a touch moves the expiry, to its own time.
Expiry(u, t) == t + Ttl

\* Mutant: a heartbeat takes a new place.
Place_New(u, t) == t

\* ZADD NX: the place is the first one.
Place(u, t) == IF join[u] = Never THEN t ELSE join[u]

\* Mutant: only the first viewer puts the room into the index.
IndexScore_Once(t) == IF index = Never THEN t ELSE index

IndexScore(t) == t

\* A join or a heartbeat: the index entry, then the script, which also prunes.
TouchViewer(u, t) ==
    LET zset == [expires EXCEPT ![u] = Expiry(u, t)] IN
    /\ index' = IndexScore(t)
    /\ expires' = ZRem(zset, Expired(zset, t))
    /\ join' = ZRem([join EXCEPT ![u] = Place(u, t)], Expired(zset, t))
    /\ Promise(u, t)
    /\ UNCHANGED <<now, gift>>

\* The script fails after the index entry was written.
TouchFails(t) ==
    /\ index' = IndexScore(t)
    /\ UNCHANGED <<now, expires, join, gift, historyVars>>

RemoveViewer(u) ==
    /\ expires' = [expires EXCEPT ![u] = Never]
    /\ join' = [join EXCEPT ![u] = Never]
    /\ promised' = [promised EXCEPT ![u] = Never]
    /\ swapped' = [swapped EXCEPT ![u] = FALSE]
    /\ starts' = [starts EXCEPT ![u] = {}]
    /\ UNCHANGED <<now, gift, index>>

\* A read of the counters, or of the danmaku pressure, prunes the viewers but not
\* their join times.
Snapshot(t) ==
    /\ expires' = ZRem(expires, Expired(expires, t))
    /\ UNCHANGED <<now, join, gift, index, historyVars>>

AddViewerGiftValue(u) ==
    /\ gift[u] < MaxGift
    /\ gift' = [gift EXCEPT ![u] = @ + 1]
    /\ UNCHANGED <<now, expires, join, index, historyVars>>

\* The aggregator drops the rooms that nobody has touched for the window.
ActiveRooms(t) ==
    /\ index' = IF index <= t - Window THEN Never ELSE index
    /\ UNCHANGED <<now, expires, join, gift, historyVars>>

\* Mutant: the order of two places is not looked at.
Outranks_GiftOnly(u, v) == gift[u] > gift[v]

\* The comparison of the script's sort.
Outranks(u, v) == gift[u] > gift[v] \/ (gift[u] = gift[v] /\ join[u] < join[v])

\* The rankings the script may return: its sort is not stable, so equals come in
\* any order.
TopViewers(t) ==
    LET active == {u \in Users : expires[u] >= t /\ expires[u] # Never}
        sorted == {s \in SetToSeqs(active) :
                     \A i, k \in 1..Cardinality(active) : i < k => ~Outranks(s[k], s[i])}
    IN {SubSeq(s, 1, IF Len(s) < Limit THEN Len(s) ELSE Limit) : s \in sorted}

Tick ==
    /\ now < MaxTime
    /\ now' = now + 1
    /\ UNCHANGED <<redisVars, historyVars>>

Next ==
    \/ \E t \in ReadTimes :
          \/ \E u \in Users : TouchViewer(u, t)
          \/ TouchFails(t) \/ Snapshot(t) \/ ActiveRooms(t)
    \/ \E u \in Users : RemoveViewer(u) \/ AddViewerGiftValue(u)
    \/ Tick

Spec == Init /\ [][Next]_vars

-----------------------------------------------------------------------------
(* Properties *)

Online(u) == expires[u] > now

\* Types, and a viewer has a place as long as it is in the set (the ranking reads a
\* missing place as zero, the first one).
TypeOK ==
    /\ now \in 1..MaxTime /\ index \in 0..MaxTime
    /\ expires \in [Users -> 0..(MaxTime + Ttl)]
    /\ join \in [Users -> 0..MaxTime]
    /\ gift \in [Users -> 0..MaxGift]
    /\ \A u \in Users : expires[u] # Never => join[u] # Never

\* A caller is told expires_in_seconds: for that long the user is counted and
\* listed, whoever prunes in between, unless the user leaves.  An older touch of the
\* same user that runs late takes back no more of it than a call may be delayed.
PromiseIsKept ==
    \A u \in Users :
        /\ promised[u] > now /\ ~swapped[u] => expires[u] = promised[u]
        /\ promised[u] > now + MaxDelay => expires[u] >= promised[u] - MaxDelay

\* A user who stays keeps the place, whatever others do and whatever is pruned.
PlaceIsKept ==
    [][\A u \in Users : Online(u) /\ expires'[u] # Never => join'[u] = join[u]]_vars

\* A place is the beginning of a stay since the user last left: a heartbeat never
\* is one.  (Of which stay depends on whether a touch or a count pruned the user.)
PlaceIsAStart ==
    \A u \in Users : expires[u] # Never => join[u] \in starts[u]

\* As long as somebody is counted, the aggregator finds the room in the index.
ViewersKeepRoomActive ==
    (\E u \in Users : Online(u)) => index # Never

\* The invariant of the room's four sorted sets, which five scripts write and prune at
\* times of their own: viewers have places, places are starts of stays, and a room with
\* viewers is in the index.
PresenceInv == TypeOK /\ PlaceIsAStart /\ ViewersKeepRoomActive

\* Two users with the same gifts who have each been there since they came, u first.
CameBefore(u, v) ==
    /\ Online(u) /\ Online(v) /\ gift[u] = gift[v]
    /\ Cardinality(starts[u]) = 1 /\ Cardinality(starts[v]) = 1
    /\ \A a \in starts[u], b \in starts[v] : a < b

\* Of two users with the same gifts the one who came first is listed first and never
\* left out for the other, at whatever time the ranking is read.
FirstComeFirstListed ==
    \A t \in ReadTimes : \A s \in TopViewers(t) : \A u, v \in Users :
        CameBefore(u, v) => \A k \in DOMAIN s : s[k] = v => \E i \in 1..(k - 1) : s[i] = u
=============================================================================
