----------------------------- MODULE Moderation -----------------------------
(***************************************************************************)
(* Who may be in a room and like it: the room's lifecycle and bans, kept   *)
(* in MySQL by live-identity-room, and what live-interaction derives from  *)
(* them in Redis and Centrifugo: the like path's caches, the presence set  *)
(* and the channel subscriptions.                                          *)
(*                                                                         *)
(* One room; every key of the code carries the room, so rooms do not       *)
(* touch.  A member of Handlers is a request being served by some replica  *)
(* (likeRoom, joinRoom, heartbeatRoom, banUser, unbanUser); it is reused   *)
(* when its request ends.  Each call to MySQL, Redis or Centrifugo is one  *)
(* step.  TTLs are left out: what has one may expire at any time.  A       *)
(* governance request of someone who is not the anchor changes nothing and *)
(* is left out, and so are the like counters (LikeStats).                  *)
(*                                                                         *)
(* settled, clean and overtaken are history for the properties: how the    *)
(* last governance request of a user ended, whether it ran alone and       *)
(* without an error, and whether some request had already passed its ban   *)
(* check when the ban was stored.                                          *)
(***************************************************************************)
EXTENDS FiniteSets

CONSTANTS
    Users,
    Handlers,    \* requests in progress at once
    Requests     \* the kinds of request that arrive

ASSUME ModerationAssumption ==
    /\ Users # {}
    /\ Requests \subseteq {"like", "join", "heartbeat", "ban", "unban"}

VARIABLES
    status,      \* live_rooms.status
    bans,        \* room_bans
    statusCache, \* like:status, with a TTL
    banCache,    \* like:ban of each user: "no" and "yesTTL" expire, "yes" does not
    viewer,      \* the viewers zset: "absent", "online", or "expired" and not yet pruned
    joined,      \* the viewer-join zset
    tokens,      \* users holding an unexpired subscription token
    subs,        \* users subscribed to the room's channels
    pc, who, seen,
    settled, clean, overtaken

roomVars == <<status, bans>>
cacheVars == <<statusCache, banCache>>
presenceVars == <<viewer, joined>>
channelVars == <<tokens, subs>>
handlerVars == <<pc, who, seen>>
historyVars == <<settled, clean, overtaken>>
vars == <<roomVars, cacheVars, presenceVars, channelVars, handlerVars, historyVars>>

Statuses == {"PREPARING", "LIVING", "CLOSED"}
LikeSteps == {"statusCache", "statusLoad", "statusSave", "banCache", "banLoad", "banSave", "add"}
\* joinRoom and heartbeatRoom differ in the steps they take after the ban check.
PresenceSteps == {"joinRoom", "joinBan", "session", "joinTouch", "token",
                  "beatRoom", "beatBan", "beatTouch"}
GovernSteps == {"cacheBan", "evict", "unsubscribe", "uncache"}

Init ==
    /\ status = "PREPARING"
    /\ bans = {}
    /\ statusCache = "none"
    /\ banCache = [u \in Users |-> "none"]
    /\ viewer = [u \in Users |-> "absent"]
    /\ joined = {}
    /\ tokens = {}
    /\ subs = {}
    /\ pc = [h \in Handlers |-> "idle"]
    /\ who \in [Handlers -> Users]
    /\ seen = [h \in Handlers |-> "none"]
    /\ settled = [u \in Users |-> "unbanned"]
    /\ clean = [h \in Handlers |-> FALSE]
    /\ overtaken = {}

Goto(h, step) == pc' = [pc EXCEPT ![h] = step]

\* A request of user u begins.
Begin(h, u, kind, step) ==
    /\ kind \in Requests
    /\ pc[h] = "idle"
    /\ Goto(h, step)
    /\ who' = [who EXCEPT ![h] = u]
    /\ UNCHANGED seen

Forget(h) == seen' = [seen EXCEPT ![h] = "none"]

-----------------------------------------------------------------------------
(* Room lifecycle: one conditional UPDATE each *)

Start ==
    /\ status = "PREPARING"
    /\ status' = "LIVING"
    /\ UNCHANGED <<bans, cacheVars, presenceVars, channelVars, handlerVars, historyVars>>

Stop ==
    /\ status = "LIVING"
    /\ status' = "CLOSED"
    /\ UNCHANGED <<bans, cacheVars, presenceVars, channelVars, handlerVars, historyVars>>

-----------------------------------------------------------------------------
(* like.Service.Add *)

LikeArrives(h, u) ==
    /\ Begin(h, u, "like", "statusCache")
    /\ UNCHANGED <<roomVars, cacheVars, presenceVars, channelVars, historyVars>>

\* roomStatus: a hit decides, a miss asks the identity service.
ReadStatusCache(h) ==
    /\ pc[h] = "statusCache"
    /\ Goto(h, IF statusCache = "none" THEN "statusLoad"
               ELSE IF statusCache = "LIVING" THEN "banCache" ELSE "idle")
    /\ UNCHANGED <<roomVars, cacheVars, presenceVars, channelVars, who, seen, historyVars>>

LoadStatus(h) ==
    /\ pc[h] = "statusLoad"
    /\ seen' = [seen EXCEPT ![h] = status]
    /\ Goto(h, "statusSave")
    /\ UNCHANGED <<roomVars, cacheVars, presenceVars, channelVars, who, historyVars>>

\* The error of a cache write is ignored.
SaveStatus(h) ==
    /\ pc[h] = "statusSave"
    /\ statusCache' \in {statusCache, seen[h]}
    /\ Goto(h, IF seen[h] = "LIVING" THEN "banCache" ELSE "idle")
    /\ Forget(h)
    /\ UNCHANGED <<roomVars, banCache, presenceVars, channelVars, who, historyVars>>

\* isBanned: the same for the ban.
ReadBanCache(h) ==
    LET cached == banCache[who[h]] IN
    /\ pc[h] = "banCache"
    /\ Goto(h, IF cached = "none" THEN "banLoad" ELSE IF cached = "no" THEN "add" ELSE "idle")
    /\ UNCHANGED <<roomVars, cacheVars, presenceVars, channelVars, who, seen, historyVars>>

LoadBan(h) ==
    /\ pc[h] = "banLoad"
    /\ seen' = [seen EXCEPT ![h] = IF who[h] \in bans THEN "banned" ELSE "clear"]
    /\ Goto(h, "banSave")
    /\ UNCHANGED <<roomVars, cacheVars, presenceVars, channelVars, who, historyVars>>

\* CacheLikeBan overwrites whatever the key holds by now.
SaveBan(h) ==
    /\ pc[h] = "banSave"
    /\ banCache' \in {banCache,
                      [banCache EXCEPT ![who[h]] = IF seen[h] = "banned" THEN "yesTTL" ELSE "no"]}
    /\ Goto(h, IF seen[h] = "banned" THEN "idle" ELSE "add")
    /\ Forget(h)
    /\ UNCHANGED <<roomVars, statusCache, presenceVars, channelVars, who, historyVars>>

\* The rate limiter, then AddLikes.
AddLike(h) ==
    /\ pc[h] = "add"
    /\ Goto(h, "idle")
    /\ UNCHANGED <<roomVars, cacheVars, presenceVars, channelVars, who, seen, historyVars>>

-----------------------------------------------------------------------------
(* joinRoom, heartbeatRoom, leaveRoom *)

JoinArrives(h, u) ==
    /\ Begin(h, u, "join", "joinRoom")
    /\ UNCHANGED <<roomVars, cacheVars, presenceVars, channelVars, historyVars>>

HeartbeatArrives(h, u) ==
    /\ Begin(h, u, "heartbeat", "beatRoom")
    /\ UNCHANGED <<roomVars, cacheVars, presenceVars, channelVars, historyVars>>

\* Mutant: the heartbeat does not look at the room.
CheckRoom_JoinOnly(h) ==
    /\ pc[h] \in {"joinRoom", "beatRoom"}
    /\ Goto(h, IF pc[h] = "beatRoom" THEN "beatBan"
               ELSE IF status # "LIVING" THEN "idle" ELSE "joinBan")
    /\ UNCHANGED <<roomVars, cacheVars, presenceVars, channelVars, who, seen, historyVars>>

CheckRoom(h) ==
    /\ pc[h] \in {"joinRoom", "beatRoom"}
    /\ Goto(h, IF status # "LIVING" THEN "idle"
               ELSE IF pc[h] = "joinRoom" THEN "joinBan" ELSE "beatBan")
    /\ UNCHANGED <<roomVars, cacheVars, presenceVars, channelVars, who, seen, historyVars>>

\* Mutant: the heartbeat renews a presence without asking for bans.
CheckBan_NotOnHeartbeat(h) ==
    /\ pc[h] \in {"joinBan", "beatBan"}
    /\ Goto(h, IF pc[h] = "beatBan" THEN "beatTouch"
               ELSE IF who[h] \in bans THEN "idle" ELSE "session")
    /\ UNCHANGED <<roomVars, cacheVars, presenceVars, channelVars, who, seen, historyVars>>

CheckBan(h) ==
    /\ pc[h] \in {"joinBan", "beatBan"}
    /\ Goto(h, IF who[h] \in bans THEN "idle"
               ELSE IF pc[h] = "joinBan" THEN "session" ELSE "beatTouch")
    /\ UNCHANGED <<roomVars, cacheVars, presenceVars, channelVars, who, seen, historyVars>>

\* room.Repository.Join; no service reads the live_sessions row it writes.
SaveSession(h) ==
    /\ pc[h] = "session"
    /\ Goto(h, "joinTouch")
    /\ UNCHANGED <<roomVars, cacheVars, presenceVars, channelVars, who, seen, historyVars>>

\* touchViewer: renew the member, keep its first join time, drop the expired
\* members from both sets.
Touch(h) ==
    /\ pc[h] \in {"joinTouch", "beatTouch"}
    /\ viewer' = [u \in Users |-> IF u = who[h] THEN "online"
                                  ELSE IF viewer[u] = "expired" THEN "absent" ELSE viewer[u]]
    /\ joined' = {who[h]} \cup {u \in joined : viewer[u] # "expired"}
    /\ Goto(h, IF pc[h] = "joinTouch" THEN "token" ELSE "idle")
    /\ UNCHANGED <<roomVars, cacheVars, channelVars, who, seen, historyVars>>

\* joinRoom hands out the subscription tokens.
IssueToken(h) ==
    /\ pc[h] = "token"
    /\ tokens' = tokens \cup {who[h]}
    /\ Goto(h, "idle")
    /\ UNCHANGED <<roomVars, cacheVars, presenceVars, subs, who, seen, historyVars>>

\* RemoveViewer, on leaveRoom.
Leave(u) ==
    /\ viewer[u] # "absent"
    /\ viewer' = [viewer EXCEPT ![u] = "absent"]
    /\ joined' = joined \ {u}
    /\ UNCHANGED <<roomVars, cacheVars, channelVars, handlerVars, historyVars>>

\* The client presents its token to Centrifugo.
Subscribe(u) ==
    /\ u \in tokens \ subs
    /\ subs' = subs \cup {u}
    /\ UNCHANGED <<roomVars, cacheVars, presenceVars, tokens, handlerVars, historyVars>>

-----------------------------------------------------------------------------
(* banUser and unbanUser *)

Governing(u) == {h \in Handlers : pc[h] \in GovernSteps /\ who[h] = u}

\* Requests of u that have passed their ban check and will still act on it.
PastCheck(u) ==
    {h \in Handlers : /\ who[h] = u
                      /\ \/ pc[h] \in {"session", "joinTouch", "beatTouch"}
                         \/ pc[h] = "banSave" /\ seen[h] = "clear"}

BeginGoverning(h, u) ==
    /\ clean' = [x \in Handlers |-> IF x = h THEN Governing(u) = {}
                                    ELSE clean[x] /\ x \notin Governing(u)]
    /\ settled' = [settled EXCEPT ![u] = "open"]

EndGoverning(h, ok, what) ==
    /\ settled' = [settled EXCEPT ![who[h]] = IF ok /\ clean[h] THEN what ELSE "unclear"]
    /\ clean' = [clean EXCEPT ![h] = FALSE]

\* banUser stores the ban.
Ban(h, u) ==
    /\ Begin(h, u, "ban", "cacheBan")
    /\ bans' = bans \cup {u}
    /\ BeginGoverning(h, u)
    /\ overtaken' = IF PastCheck(u) = {} THEN overtaken \ {u} ELSE overtaken \cup {u}
    /\ UNCHANGED <<status, cacheVars, presenceVars, channelVars>>

\* Mutant: enforceBan leaves the like path's cache alone.
CacheBan_Skipped(h) ==
    /\ pc[h] = "cacheBan"
    /\ Goto(h, "evict")
    /\ UNCHANGED <<roomVars, cacheVars, presenceVars, channelVars, who, seen, historyVars>>

\* enforceBan goes on after an error and reports it at the end.
CacheBan(h) ==
    /\ pc[h] = "cacheBan"
    /\ \/ banCache' = [banCache EXCEPT ![who[h]] = "yes"] /\ UNCHANGED clean
       \/ clean' = [clean EXCEPT ![h] = FALSE] /\ UNCHANGED banCache
    /\ Goto(h, "evict")
    /\ UNCHANGED <<roomVars, statusCache, presenceVars, channelVars, who, seen, settled, overtaken>>

Evict(h) ==
    /\ pc[h] = "evict"
    /\ \/ /\ viewer' = [viewer EXCEPT ![who[h]] = "absent"]
          /\ joined' = joined \ {who[h]}
          /\ UNCHANGED clean
       \/ clean' = [clean EXCEPT ![h] = FALSE] /\ UNCHANGED presenceVars
    /\ Goto(h, "unsubscribe")
    /\ UNCHANGED <<roomVars, cacheVars, channelVars, who, seen, settled, overtaken>>

\* The notice and the two channels.
Unsubscribe(h) ==
    /\ pc[h] = "unsubscribe"
    /\ \/ subs' = subs \ {who[h]} /\ EndGoverning(h, TRUE, "banned")
       \/ subs' \in {subs, subs \ {who[h]}} /\ EndGoverning(h, FALSE, "banned")
    /\ Goto(h, "idle")
    /\ UNCHANGED <<roomVars, cacheVars, presenceVars, tokens, who, seen, overtaken>>

\* unbanUser removes the ban.
Unban(h, u) ==
    /\ Begin(h, u, "unban", "uncache")
    /\ bans' = bans \ {u}
    /\ BeginGoverning(h, u)
    /\ UNCHANGED <<status, cacheVars, presenceVars, channelVars, overtaken>>

\* The error of the cache delete is logged; the answer is "unbanned" all the same.
Uncache(h) ==
    /\ pc[h] = "uncache"
    /\ \/ /\ banCache' = [banCache EXCEPT ![who[h]] = "none"]
          /\ EndGoverning(h, TRUE, "unbanned")
       \/ UNCHANGED banCache /\ EndGoverning(h, FALSE, "unbanned")
    /\ Goto(h, "idle")
    /\ UNCHANGED <<roomVars, statusCache, presenceVars, channelVars, who, seen, overtaken>>

-----------------------------------------------------------------------------
\* A call fails and the handler answers an error, or its process dies.
Fail(h) ==
    /\ pc[h] # "idle"
    /\ Goto(h, "idle")
    /\ Forget(h)
    /\ IF pc[h] \in GovernSteps THEN EndGoverning(h, FALSE, "open")
                               ELSE UNCHANGED <<settled, clean>>
    /\ UNCHANGED <<roomVars, cacheVars, presenceVars, channelVars, who, overtaken>>

StatusCacheExpires ==
    /\ statusCache # "none"
    /\ statusCache' = "none"
    /\ UNCHANGED <<roomVars, banCache, presenceVars, channelVars, handlerVars, historyVars>>

BanCacheExpires(u) ==
    /\ banCache[u] \in {"no", "yesTTL"}
    /\ banCache' = [banCache EXCEPT ![u] = "none"]
    /\ UNCHANGED <<roomVars, statusCache, presenceVars, channelVars, handlerVars, historyVars>>

\* No heartbeat came within the viewer TTL.
ViewerExpires(u) ==
    /\ viewer[u] = "online"
    /\ viewer' = [viewer EXCEPT ![u] = "expired"]
    /\ UNCHANGED <<roomVars, cacheVars, joined, channelVars, handlerVars, historyVars>>

\* The statistics and danmaku scripts prune the viewers and not the join times.
Prune ==
    /\ \E u \in Users : viewer[u] = "expired"
    /\ viewer' = [u \in Users |-> IF viewer[u] = "expired" THEN "absent" ELSE viewer[u]]
    /\ UNCHANGED <<roomVars, cacheVars, joined, channelVars, handlerVars, historyVars>>

\* A subscription ends with the token that opened it.
TokenExpires(u) ==
    /\ u \in tokens
    /\ tokens' = tokens \ {u}
    /\ subs' = subs \ {u}
    /\ UNCHANGED <<roomVars, cacheVars, presenceVars, handlerVars, historyVars>>

-----------------------------------------------------------------------------
\* The next call of a request being served.
Serve(h) ==
    \/ ReadStatusCache(h) \/ LoadStatus(h) \/ SaveStatus(h)
    \/ ReadBanCache(h) \/ LoadBan(h) \/ SaveBan(h) \/ AddLike(h)
    \/ CheckRoom(h) \/ CheckBan(h) \/ SaveSession(h) \/ Touch(h) \/ IssueToken(h)
    \/ CacheBan(h) \/ Evict(h) \/ Unsubscribe(h) \/ Uncache(h)

Arrive(h, u) ==
    \/ LikeArrives(h, u) \/ JoinArrives(h, u) \/ HeartbeatArrives(h, u)
    \/ Ban(h, u) \/ Unban(h, u)

Expire(u) == BanCacheExpires(u) \/ ViewerExpires(u) \/ TokenExpires(u)

Next ==
    \/ Start \/ Stop \/ StatusCacheExpires \/ Prune
    \/ \E h \in Handlers : Serve(h) \/ Fail(h)
    \/ \E h \in Handlers, u \in Users : Arrive(h, u)
    \/ \E u \in Users : Leave(u) \/ Subscribe(u) \/ Expire(u)

Spec == Init /\ [][Next]_vars

\* Requests being served go on and TTLs run out; no request need ever arrive.
Fairness ==
    /\ \A h \in Handlers : WF_vars(Serve(h))
    /\ WF_vars(StatusCacheExpires)
    /\ \A u \in Users : WF_vars(BanCacheExpires(u)) /\ WF_vars(ViewerExpires(u))
                        /\ WF_vars(TokenExpires(u))

FairSpec == Spec /\ Fairness

-----------------------------------------------------------------------------
(* Properties *)

TypeOK ==
    /\ status \in Statuses
    /\ bans \subseteq Users
    /\ statusCache \in Statuses \cup {"none"}
    /\ banCache \in [Users -> {"none", "no", "yesTTL", "yes"}]
    /\ viewer \in [Users -> {"absent", "online", "expired"}]
    /\ joined \subseteq Users
    /\ tokens \subseteq Users
    /\ subs \subseteq tokens
    /\ pc \in [Handlers -> LikeSteps \cup PresenceSteps \cup GovernSteps \cup {"idle"}]
    /\ who \in [Handlers -> Users]
    /\ seen \in [Handlers -> Statuses \cup {"none", "banned", "clear"}]
    /\ settled \in [Users -> {"banned", "unbanned", "open", "unclear"}]
    /\ clean \in [Handlers -> BOOLEAN]
    /\ overtaken \subseteq Users

\* A member of the presence set has its join time, which the viewer ranking
\* sorts by: no order of renewals, prunings and removals loses it.
OnlineHasJoinTime == \A u \in Users : viewer[u] # "absent" => u \in joined

\* After a ban that met no error and no other governance request, the user is
\* out of the presence set and the like cache does not clear him, however his
\* own requests interleave with it, unless one of them had already passed its
\* ban check when the ban was stored.
BanHoldsUnlessOvertaken ==
    \A u \in Users : settled[u] = "banned" /\ u \notin overtaken =>
        u \in bans /\ viewer[u] # "online" /\ banCache[u] # "no"

\* After an unban of the same kind nothing in Redis refuses the user for good.
UnbanReopensLikes ==
    \A u \in Users : settled[u] = "unbanned" => u \notin bans /\ banCache[u] # "yes"

\* The invariant of moderation: what Redis says of a viewer, and what it says after
\* banUser and unbanUser answered, agrees with what they stored in MySQL.
ModerationInv == TypeOK /\ OnlineHasJoinTime /\ BanHoldsUnlessOvertaken /\ UnbanReopensLikes

\* A ban that stands takes hold, whatever raced with it: in the end the user is
\* not online, not subscribed, and none of his likes is admitted.
BanTakesHold ==
    \A u \in Users : <>[](u \in bans) =>
        <>[](/\ viewer[u] # "online"
             /\ u \notin subs
             /\ \A h \in Handlers : ~(who[h] = u /\ pc[h] = "add"))

\* A closed room empties: nobody stays online and no like is admitted.
ClosedRoomEmpties ==
    <>[](status = "CLOSED") =>
        <>[](/\ \A u \in Users : viewer[u] # "online"
             /\ \A h \in Handlers : pc[h] # "add")

\* The comment of EnforceLikeBan: an unban deletes the cache, so that the like path
\* asks MySQL again.  When no governance request is in progress, a user without a
\* ban is not refused for ever.
UnbanDeletesCache ==
    \A u \in Users : Governing(u) = {} /\ u \notin bans => banCache[u] # "yes"
=============================================================================
