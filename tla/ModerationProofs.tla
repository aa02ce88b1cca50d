--------------------------- MODULE ModerationProofs ---------------------------
(***************************************************************************)
(* Proofs about bans and presence, for any users, requests in progress and *)
(* kinds of request.                                                       *)
(*                                                                         *)
(* The argument: a governance request that is still clean is the only one  *)
(* of its user (CleanIsAlone), so what it has stored, cached and removed   *)
(* stays as it left it until it ends, unless a request of the user itself  *)
(* undoes it.  Such a request has passed its ban check; a ban that was not *)
(* overtaken found none of them, and none appears while the ban is stored  *)
(* (NobodyIsPast).                                                         *)
(***************************************************************************)
EXTENDS Moderation, TLAPS

\* A clean governance request is the only one of its user.
CleanIsAlone ==
    \A h \in Handlers : clean[h] => pc[h] \in GovernSteps /\ Governing(who[h]) = {h}

\* The outcome of a user is settled when no governance request is in progress.
SettledIsQuiet ==
    \A u \in Users : settled[u] \in {"banned", "unbanned"} => Governing(u) = {}

\* What roomStatus and isBanned are about to cache is an answer of the identity service.
AnswerIsSeen ==
    \A h \in Handlers : /\ pc[h] = "statusSave" => seen[h] \in Statuses
                        /\ pc[h] = "banSave" => seen[h] \in {"banned", "clear"}

\* While a ban that was not overtaken is stored, no request is past its ban check.
NobodyIsPast == \A u \in bans \ overtaken : PastCheck(u) = {}

\* What a clean ban has done so far still holds.
CleanBanHolds ==
    \A h \in Handlers : LET u == who[h] IN
        clean[h] /\ pc[h] \in {"cacheBan", "evict", "unsubscribe"} =>
            /\ u \in bans
            /\ pc[h] # "cacheBan" /\ u \notin overtaken => banCache[u] # "no"
            /\ pc[h] = "unsubscribe" /\ u \notin overtaken => viewer[u] # "online"

\* A clean unban has removed the ban.
CleanUnbanHolds ==
    \A h \in Handlers : clean[h] /\ pc[h] = "uncache" => who[h] \notin bans

IndInv ==
    /\ TypeOK
    /\ OnlineHasJoinTime
    /\ BanHoldsUnlessOvertaken
    /\ UnbanReopensLikes
    /\ CleanIsAlone
    /\ SettledIsQuiet
    /\ AnswerIsSeen
    /\ NobodyIsPast
    /\ CleanBanHolds
    /\ CleanUnbanHolds

-----------------------------------------------------------------------------
LEMMA TypeInit == Init => TypeOK
  BY DEF Init, TypeOK, Statuses, LikeSteps

\* The steps of a request that is not about governance.
LEMMA ServeViewerType ==
    ASSUME TypeOK, AnswerIsSeen, NEW h \in Handlers,
           \/ ReadStatusCache(h) \/ LoadStatus(h) \/ SaveStatus(h)
           \/ ReadBanCache(h) \/ LoadBan(h) \/ SaveBan(h) \/ AddLike(h)
           \/ CheckRoom(h) \/ CheckBan(h) \/ SaveSession(h) \/ Touch(h) \/ IssueToken(h)
    PROVE  TypeOK'
<1> USE DEF TypeOK, Goto, Forget, roomVars, cacheVars, presenceVars, channelVars, historyVars,
            LikeSteps, PresenceSteps
<1>1. CASE ReadStatusCache(h)
  BY <1>1 DEF ReadStatusCache
<1>2. CASE LoadStatus(h)
  BY <1>2 DEF LoadStatus
<1>3. CASE SaveStatus(h)
  <2>1. pc' \in [Handlers -> LikeSteps \cup PresenceSteps \cup GovernSteps \cup {"idle"}]
    BY <1>3 DEF SaveStatus
  <2> QED BY <1>3, <2>1 DEF SaveStatus, AnswerIsSeen
<1>4. CASE ReadBanCache(h)
  BY <1>4 DEF ReadBanCache
<1>5. CASE LoadBan(h)
  BY <1>5 DEF LoadBan
<1>6. CASE SaveBan(h)
  BY <1>6 DEF SaveBan
<1>7. CASE AddLike(h)
  BY <1>7 DEF AddLike
<1>8. CASE CheckRoom(h)
  BY <1>8 DEF CheckRoom
<1>9. CASE CheckBan(h)
  BY <1>9 DEF CheckBan
<1>10. CASE SaveSession(h)
  BY <1>10 DEF SaveSession
<1>11. CASE Touch(h)
  BY <1>11 DEF Touch
<1>12. CASE IssueToken(h)
  BY <1>12 DEF IssueToken
<1> QED BY <1>1, <1>2, <1>3, <1>4, <1>5, <1>6, <1>7, <1>8, <1>9, <1>10, <1>11, <1>12

\* The history that a governance request begins or ends with keeps its type.
LEMMA GoverningType ==
    ASSUME TypeOK, NEW h \in Handlers,
           \/ \E u \in Users : BeginGoverning(h, u)
           \/ \E ok \in BOOLEAN, what \in {"banned", "unbanned", "open"} : EndGoverning(h, ok, what)
    PROVE  /\ settled' \in [Users -> {"banned", "unbanned", "open", "unclear"}]
           /\ clean' \in [Handlers -> BOOLEAN]
<1>1. ASSUME NEW u \in Users, BeginGoverning(h, u)
      PROVE  /\ settled' \in [Users -> {"banned", "unbanned", "open", "unclear"}]
             /\ clean' \in [Handlers -> BOOLEAN]
  <2>1. settled' \in [Users -> {"banned", "unbanned", "open", "unclear"}]
    BY <1>1 DEF BeginGoverning, TypeOK
  <2>2. clean' \in [Handlers -> BOOLEAN]
    <3>1. ASSUME NEW x \in Handlers
          PROVE  (IF x = h THEN Governing(u) = {} ELSE clean[x] /\ x \notin Governing(u)) \in BOOLEAN
      BY Zenon DEF TypeOK
    <3> QED BY <1>1, <3>1, Zenon DEF BeginGoverning
  <2> QED BY <2>1, <2>2
<1>2. ASSUME NEW ok \in BOOLEAN, NEW what \in {"banned", "unbanned", "open"}, EndGoverning(h, ok, what)
      PROVE  /\ settled' \in [Users -> {"banned", "unbanned", "open", "unclear"}]
             /\ clean' \in [Handlers -> BOOLEAN]
  BY <1>2 DEF EndGoverning, TypeOK
<1> QED BY <1>1, <1>2

LEMMA GovernType ==
    ASSUME TypeOK, NEW h \in Handlers,
           CacheBan(h) \/ Evict(h) \/ Unsubscribe(h) \/ Uncache(h) \/ Fail(h)
    PROVE  TypeOK'
<1> USE DEF TypeOK, Goto, roomVars, cacheVars, presenceVars, channelVars, GovernSteps
<1>1. CASE CacheBan(h)
  <2>1. clean' \in [Handlers -> BOOLEAN] /\ banCache' \in [Users -> {"none", "no", "yesTTL", "yes"}]
    BY <1>1 DEF CacheBan
  <2> QED BY <1>1, <2>1 DEF CacheBan
<1>2. CASE Evict(h)
  <2>1. clean' \in [Handlers -> BOOLEAN]
    BY <1>2 DEF Evict
  <2>2. viewer' \in [Users -> {"absent", "online", "expired"}] /\ joined' \subseteq Users
    BY <1>2 DEF Evict
  <2> QED BY <1>2, <2>1, <2>2 DEF Evict
<1>3. CASE Unsubscribe(h)
  <2>1. settled' \in [Users -> {"banned", "unbanned", "open", "unclear"}] /\ clean' \in [Handlers -> BOOLEAN]
    BY <1>3, GoverningType DEF Unsubscribe
  <2> QED BY <1>3, <2>1 DEF Unsubscribe
<1>4. CASE Uncache(h)
  <2>1. settled' \in [Users -> {"banned", "unbanned", "open", "unclear"}] /\ clean' \in [Handlers -> BOOLEAN]
    BY <1>4, GoverningType DEF Uncache
  <2> QED BY <1>4, <2>1 DEF Uncache
<1>5. CASE Fail(h)
  <2>1. settled' \in [Users -> {"banned", "unbanned", "open", "unclear"}] /\ clean' \in [Handlers -> BOOLEAN]
    BY <1>5, GoverningType DEF Fail
  <2> QED BY <1>5, <2>1 DEF Fail, Forget
<1> QED BY <1>1, <1>2, <1>3, <1>4, <1>5

LEMMA ArriveType ==
    ASSUME TypeOK, NEW h \in Handlers, NEW u \in Users, Arrive(h, u)
    PROVE  TypeOK'
<1> USE DEF TypeOK, Goto, Begin, roomVars, cacheVars, presenceVars, channelVars, historyVars,
            LikeSteps, PresenceSteps, GovernSteps
<1>1. CASE LikeArrives(h, u) \/ JoinArrives(h, u) \/ HeartbeatArrives(h, u)
  BY <1>1 DEF LikeArrives, JoinArrives, HeartbeatArrives
<1>2. CASE Ban(h, u)
  <2>1. settled' \in [Users -> {"banned", "unbanned", "open", "unclear"}] /\ clean' \in [Handlers -> BOOLEAN]
    BY <1>2, GoverningType DEF Ban
  <2> QED BY <1>2, <2>1 DEF Ban
<1>3. CASE Unban(h, u)
  <2>1. settled' \in [Users -> {"banned", "unbanned", "open", "unclear"}] /\ clean' \in [Handlers -> BOOLEAN]
    BY <1>3, GoverningType DEF Unban
  <2> QED BY <1>3, <2>1 DEF Unban
<1> QED BY <1>1, <1>2, <1>3 DEF Arrive

\* Every step keeps the types, and subscriptions under a token.
LEMMA TypeStep == TypeOK /\ AnswerIsSeen /\ [Next]_vars => TypeOK'
<1> SUFFICES ASSUME TypeOK, AnswerIsSeen, [Next]_vars PROVE TypeOK'
  OBVIOUS
<1> USE DEF roomVars, cacheVars, presenceVars, channelVars, handlerVars, historyVars
<1>1. CASE Start \/ Stop \/ StatusCacheExpires \/ Prune
  BY <1>1 DEF Start, Stop, StatusCacheExpires, Prune, TypeOK, Statuses
<1>2. ASSUME NEW u \in Users, Leave(u) \/ Subscribe(u) \/ Expire(u) PROVE TypeOK'
  BY <1>2 DEF Leave, Subscribe, Expire, BanCacheExpires, ViewerExpires, TokenExpires, TypeOK
<1>3. CASE UNCHANGED vars
  BY <1>3 DEF vars, TypeOK
<1> QED BY <1>1, <1>2, <1>3, ServeViewerType, GovernType, ArriveType DEF Next, Serve

-----------------------------------------------------------------------------
LEMMA IndInit == Init => IndInv
<1> SUFFICES ASSUME Init PROVE IndInv
  OBVIOUS
<1>1. TypeOK
  BY TypeInit
<1>2. \A u : Governing(u) = {}
  BY DEF Init, Governing, GovernSteps
<1> QED
  BY <1>1, <1>2
     DEF Init, IndInv, OnlineHasJoinTime, BanHoldsUnlessOvertaken, UnbanReopensLikes, CleanIsAlone,
         SettledIsQuiet, AnswerIsSeen, NobodyIsPast, CleanBanHolds, CleanUnbanHolds

\* Room status, the status cache, tokens and subscriptions say nothing of bans.
LEMMA ElsewhereStep ==
    ASSUME IndInv, TypeOK',
           UNCHANGED <<bans, banCache, viewer, joined, handlerVars, historyVars>>
    PROVE  IndInv'
  BY DEF IndInv, handlerVars, historyVars, OnlineHasJoinTime, BanHoldsUnlessOvertaken,
         UnbanReopensLikes, CleanIsAlone, SettledIsQuiet, AnswerIsSeen, NobodyIsPast, CleanBanHolds,
         CleanUnbanHolds, Governing, PastCheck

\* Presence only shrinks, and a cached answer only expires.
LEMMA FadeStep ==
    ASSUME IndInv, TypeOK', UNCHANGED <<bans, handlerVars, historyVars>>, OnlineHasJoinTime',
           \A u \in Users : /\ viewer'[u] = "online" => viewer[u] = "online"
                            /\ banCache'[u] = banCache[u] \/ banCache'[u] = "none"
    PROVE  IndInv'
<1> USE DEF IndInv, handlerVars, historyVars
<1>1. BanHoldsUnlessOvertaken' /\ UnbanReopensLikes'
  BY DEF BanHoldsUnlessOvertaken, UnbanReopensLikes
<1>2. CleanIsAlone' /\ SettledIsQuiet' /\ AnswerIsSeen' /\ NobodyIsPast' /\ CleanUnbanHolds'
  BY DEF CleanIsAlone, SettledIsQuiet, AnswerIsSeen, NobodyIsPast, CleanUnbanHolds, Governing, PastCheck
<1>3. CleanBanHolds'
  BY DEF CleanBanHolds, TypeOK
<1> QED BY <1>1, <1>2, <1>3

\* A request that is not about governance moves on: it changes neither the history nor
\* who governs, and it gets past its ban check only without a ban.
LEMMA ViewerMoves ==
    ASSUME IndInv, TypeOK', NEW h \in Handlers, NEW step,
           Goto(h, step), pc[h] \notin GovernSteps, step \notin GovernSteps,
           UNCHANGED <<bans, who, settled, clean, overtaken>>,
           \A x \in Handlers \ {h} : seen'[x] = seen[x],
           /\ step = "statusSave" => seen'[h] \in Statuses
           /\ step = "banSave" => seen'[h] \in {"banned", "clear"},
           h \in PastCheck(who[h])' => h \in PastCheck(who[h]) \/ who[h] \notin bans
    PROVE  /\ CleanIsAlone' /\ SettledIsQuiet' /\ AnswerIsSeen' /\ NobodyIsPast' /\ CleanUnbanHolds'
           /\ \A u : Governing(u)' = Governing(u)
<1> USE DEF IndInv
<1>1. \A x \in Handlers : pc'[x] = IF x = h THEN step ELSE pc[x]
  BY DEF Goto, TypeOK
<1>2. \A u : Governing(u)' = Governing(u)
  BY <1>1 DEF Governing
<1>3. ~clean[h]
  BY DEF CleanIsAlone
<1>4. CleanIsAlone'
  BY <1>1, <1>2, <1>3 DEF CleanIsAlone
<1>5. SettledIsQuiet'
  BY <1>2 DEF SettledIsQuiet
<1>6. AnswerIsSeen'
  BY <1>1 DEF AnswerIsSeen
<1>7. NobodyIsPast'
  <2> SUFFICES ASSUME NEW u \in bans \ overtaken, NEW x \in PastCheck(u)' PROVE FALSE
    BY DEF NobodyIsPast
  <2>1. x \in Handlers /\ who[x] = u
    BY DEF PastCheck
  <2>2. CASE x = h
    BY <2>1, <2>2 DEF NobodyIsPast
  <2>3. CASE x # h
    <3>1. x \in PastCheck(u)
      BY <1>1, <2>1, <2>3 DEF PastCheck
    <3> QED BY <3>1 DEF NobodyIsPast
  <2> QED BY <2>2, <2>3
<1>8. CleanUnbanHolds'
  BY <1>1, <1>3 DEF CleanUnbanHolds
<1> QED BY <1>2, <1>4, <1>5, <1>6, <1>7, <1>8

\* Such a request that writes neither the ban cache nor the presence set.
LEMMA ReaderStep ==
    ASSUME IndInv, TypeOK', NEW h \in Handlers, NEW step,
           Goto(h, step), pc[h] \notin GovernSteps, step \notin GovernSteps,
           UNCHANGED <<bans, who, settled, clean, overtaken, banCache, viewer, joined>>,
           \A x \in Handlers \ {h} : seen'[x] = seen[x],
           /\ step = "statusSave" => seen'[h] \in Statuses
           /\ step = "banSave" => seen'[h] \in {"banned", "clear"},
           h \in PastCheck(who[h])' => h \in PastCheck(who[h]) \/ who[h] \notin bans
    PROVE  IndInv'
<1> USE DEF IndInv
<1>1. CleanIsAlone' /\ SettledIsQuiet' /\ AnswerIsSeen' /\ NobodyIsPast' /\ CleanUnbanHolds'
  BY ViewerMoves
<1>2. OnlineHasJoinTime' /\ BanHoldsUnlessOvertaken' /\ UnbanReopensLikes'
  BY DEF OnlineHasJoinTime, BanHoldsUnlessOvertaken, UnbanReopensLikes
<1>3. CleanBanHolds'
  <2>1. \A x \in Handlers : pc'[x] = IF x = h THEN step ELSE pc[x]
    BY DEF Goto, TypeOK
  <2>2. ~clean[h]
    BY DEF CleanIsAlone
  <2> QED BY <2>1, <2>2 DEF CleanBanHolds
<1> QED BY <1>1, <1>2, <1>3

LEMMA ReadersStep ==
    ASSUME IndInv, TypeOK', NEW h \in Handlers,
           \/ ReadStatusCache(h) \/ LoadStatus(h) \/ SaveStatus(h)
           \/ ReadBanCache(h) \/ LoadBan(h) \/ AddLike(h)
           \/ CheckRoom(h) \/ CheckBan(h) \/ SaveSession(h) \/ IssueToken(h)
           \/ (Fail(h) /\ pc[h] \notin GovernSteps)
    PROVE  IndInv'
<1> USE DEF roomVars, cacheVars, presenceVars, channelVars, historyVars, GovernSteps
<1>0. h \in PastCheck(who[h])' =>
          \/ pc'[h] \in {"session", "joinTouch", "beatTouch"}
          \/ pc'[h] = "banSave" /\ seen'[h] = "clear"
  BY DEF PastCheck
<1>1. CASE ReadStatusCache(h)
  <2> DEFINE step == IF statusCache = "none" THEN "statusLoad"
                     ELSE IF statusCache = "LIVING" THEN "banCache" ELSE "idle"
  <2>1. Goto(h, step) /\ step \in {"statusLoad", "banCache", "idle"}
    BY <1>1 DEF ReadStatusCache
  <2>2. pc'[h] = step
    BY <2>1 DEF Goto, IndInv, TypeOK
  <2> HIDE DEF step
  <2> QED BY <1>0, <1>1, <2>1, <2>2, ReaderStep DEF ReadStatusCache
<1>2. CASE LoadStatus(h)
  <2>1. pc'[h] = "statusSave" /\ seen'[h] \in Statuses /\ \A x \in Handlers \ {h} : seen'[x] = seen[x]
    BY <1>2 DEF LoadStatus, Goto, IndInv, TypeOK
  <2> QED BY <1>0, <1>2, <2>1, ReaderStep DEF LoadStatus
<1>3. CASE SaveStatus(h)
  <2> DEFINE step == IF seen[h] = "LIVING" THEN "banCache" ELSE "idle"
  <2>1. Goto(h, step) /\ step \in {"banCache", "idle"}
    BY <1>3 DEF SaveStatus
  <2>2. pc'[h] = step /\ \A x \in Handlers \ {h} : seen'[x] = seen[x]
    BY <1>3, <2>1 DEF SaveStatus, Forget, Goto, IndInv, TypeOK
  <2> HIDE DEF step
  <2> QED BY <1>0, <1>3, <2>1, <2>2, ReaderStep DEF SaveStatus
<1>4. CASE ReadBanCache(h)
  <2> DEFINE step == IF banCache[who[h]] = "none" THEN "banLoad"
                     ELSE IF banCache[who[h]] = "no" THEN "add" ELSE "idle"
  <2>1. Goto(h, step) /\ step \in {"banLoad", "add", "idle"}
    BY <1>4 DEF ReadBanCache
  <2>2. pc'[h] = step
    BY <2>1 DEF Goto, IndInv, TypeOK
  <2> HIDE DEF step
  <2> QED BY <1>0, <1>4, <2>1, <2>2, ReaderStep DEF ReadBanCache
<1>5. CASE LoadBan(h)
  <2>1. /\ pc'[h] = "banSave" /\ \A x \in Handlers \ {h} : seen'[x] = seen[x]
        /\ seen'[h] = IF who[h] \in bans THEN "banned" ELSE "clear"
    BY <1>5 DEF LoadBan, Goto, IndInv, TypeOK
  <2> QED BY <1>0, <1>5, <2>1, ReaderStep DEF LoadBan
<1>6. CASE AddLike(h) \/ IssueToken(h)
  <2>1. pc'[h] = "idle" /\ Goto(h, "idle")
    BY <1>6 DEF AddLike, IssueToken, Goto, IndInv, TypeOK
  <2> QED BY <1>0, <1>6, <2>1, ReaderStep DEF AddLike, IssueToken
<1>7. CASE CheckRoom(h)
  <2> DEFINE step == IF status # "LIVING" THEN "idle"
                     ELSE IF pc[h] = "joinRoom" THEN "joinBan" ELSE "beatBan"
  <2>1. Goto(h, step) /\ step \in {"idle", "joinBan", "beatBan"}
    BY <1>7 DEF CheckRoom
  <2>2. pc'[h] = step
    BY <2>1 DEF Goto, IndInv, TypeOK
  <2> HIDE DEF step
  <2> QED BY <1>0, <1>7, <2>1, <2>2, ReaderStep DEF CheckRoom
<1>8. CASE CheckBan(h)
  <2> DEFINE step == IF who[h] \in bans THEN "idle"
                     ELSE IF pc[h] = "joinBan" THEN "session" ELSE "beatTouch"
  <2>1. Goto(h, step) /\ step \in {"idle", "session", "beatTouch"} /\ (who[h] \in bans => step = "idle")
    BY <1>8 DEF CheckBan
  <2>2. pc'[h] = step
    BY <2>1 DEF Goto, IndInv, TypeOK
  <2> HIDE DEF step
  <2> QED BY <1>0, <1>8, <2>1, <2>2, ReaderStep DEF CheckBan
<1>9. CASE SaveSession(h)
  <2>1. h \in PastCheck(who[h])
    BY <1>9 DEF SaveSession, PastCheck
  <2> QED BY <1>9, <2>1, ReaderStep DEF SaveSession
<1>10. CASE Fail(h) /\ pc[h] \notin GovernSteps
  <2>1. pc'[h] = "idle" /\ Goto(h, "idle") /\ \A x \in Handlers \ {h} : seen'[x] = seen[x]
    BY <1>10 DEF Fail, Forget, Goto, IndInv, TypeOK
  <2> QED BY <1>0, <1>10, <2>1, ReaderStep DEF Fail
<1> QED BY <1>1, <1>2, <1>3, <1>4, <1>5, <1>6, <1>7, <1>8, <1>9, <1>10

\* isBanned caches what it was told before; it clears a banned user only when the ban
\* was stored in between, and then the ban counts as overtaken.
LEMMA SaveBanStep == ASSUME IndInv, TypeOK', NEW h \in Handlers, SaveBan(h) PROVE IndInv'
<1> USE DEF IndInv
<1> DEFINE step == IF seen[h] = "banned" THEN "idle" ELSE "add"
<1>1. Goto(h, step) /\ step \in {"idle", "add"} /\ pc[h] = "banSave"
  BY DEF SaveBan
<1>2. \A x \in Handlers : pc'[x] = IF x = h THEN step ELSE pc[x]
  BY <1>1 DEF Goto, TypeOK
<1> HIDE DEF step
<1>3. \A x \in Handlers \ {h} : seen'[x] = seen[x]
  BY DEF SaveBan, Forget, TypeOK
<1>4. UNCHANGED <<bans, who, settled, clean, overtaken, viewer, joined>>
  BY DEF SaveBan, roomVars, presenceVars, historyVars
<1>5. h \notin PastCheck(who[h])'
  BY <1>1, <1>2 DEF PastCheck
<1>6. CleanIsAlone' /\ SettledIsQuiet' /\ AnswerIsSeen' /\ NobodyIsPast' /\ CleanUnbanHolds'
  BY <1>1, <1>3, <1>4, <1>5, ViewerMoves DEF GovernSteps
<1>7. \A u \in Users : /\ banCache'[u] = "no" => \/ banCache[u] = "no"
                                                 \/ u = who[h] /\ seen[h] = "clear"
                       /\ banCache'[u] = "yes" => banCache[u] = "yes"
  BY <1>1 DEF SaveBan, AnswerIsSeen, TypeOK
<1>8. seen[h] = "clear" => who[h] \notin bans \/ who[h] \in overtaken
  BY <1>1 DEF NobodyIsPast, PastCheck
<1>9. OnlineHasJoinTime'
  BY <1>4 DEF OnlineHasJoinTime
<1>10. BanHoldsUnlessOvertaken' /\ UnbanReopensLikes'
  BY <1>4, <1>7, <1>8 DEF BanHoldsUnlessOvertaken, UnbanReopensLikes
<1>11. ~clean[h]
  BY <1>1 DEF CleanIsAlone, GovernSteps
<1>12. CleanBanHolds'
  BY <1>2, <1>4, <1>7, <1>8, <1>11 DEF CleanBanHolds, TypeOK
<1> QED BY <1>6, <1>9, <1>10, <1>12

\* Touch puts a banned user online only when the ban was overtaken; whom it drops from
\* the join times it drops from the presence set.
LEMMA TouchStep == ASSUME IndInv, TypeOK', NEW h \in Handlers, Touch(h) PROVE IndInv'
<1> USE DEF IndInv
<1> DEFINE step == IF pc[h] = "joinTouch" THEN "token" ELSE "idle"
<1>1. Goto(h, step) /\ step \in {"idle", "token"} /\ pc[h] \in {"joinTouch", "beatTouch"}
  BY DEF Touch
<1>2. \A x \in Handlers : pc'[x] = IF x = h THEN step ELSE pc[x]
  BY <1>1 DEF Goto, TypeOK
<1> HIDE DEF step
<1>3. UNCHANGED <<bans, who, seen, settled, clean, overtaken, banCache>>
  BY DEF Touch, roomVars, cacheVars, historyVars
<1>4. h \notin PastCheck(who[h])'
  BY <1>1, <1>2 DEF PastCheck
<1>5. CleanIsAlone' /\ SettledIsQuiet' /\ AnswerIsSeen' /\ NobodyIsPast' /\ CleanUnbanHolds'
  BY <1>1, <1>3, <1>4, ViewerMoves DEF GovernSteps
<1>6. who[h] \notin bans \/ who[h] \in overtaken
  BY <1>1 DEF NobodyIsPast, PastCheck
<1>7. \A u \in Users : viewer'[u] = "online" => viewer[u] = "online" \/ u = who[h]
  BY DEF Touch
<1>8. OnlineHasJoinTime'
  BY DEF Touch, OnlineHasJoinTime
<1>9. BanHoldsUnlessOvertaken' /\ UnbanReopensLikes'
  BY <1>3, <1>6, <1>7 DEF BanHoldsUnlessOvertaken, UnbanReopensLikes
<1>10. ~clean[h]
  BY <1>1 DEF CleanIsAlone, GovernSteps
<1>11. CleanBanHolds'
  BY <1>2, <1>3, <1>6, <1>7, <1>10 DEF CleanBanHolds, TypeOK
<1> QED BY <1>5, <1>8, <1>9, <1>11

-----------------------------------------------------------------------------
(* Governance requests *)

\* A request that is not about governance arrives.
LEMMA ViewerArrives ==
    ASSUME IndInv, TypeOK', NEW h \in Handlers, NEW u \in Users,
           LikeArrives(h, u) \/ JoinArrives(h, u) \/ HeartbeatArrives(h, u)
    PROVE  IndInv'
<1> USE DEF IndInv
<1>1. /\ pc[h] = "idle" /\ pc'[h] \in {"statusCache", "joinRoom", "beatRoom"}
      /\ \A x \in Handlers \ {h} : pc'[x] = pc[x] /\ who'[x] = who[x]
      /\ UNCHANGED <<bans, banCache, viewer, joined, seen, settled, clean, overtaken>>
  BY DEF LikeArrives, JoinArrives, HeartbeatArrives, Begin, Goto, roomVars, cacheVars, presenceVars,
         historyVars, TypeOK
<1>2. ~clean[h]
  BY <1>1 DEF CleanIsAlone, GovernSteps
<1>3. \A v : Governing(v)' = Governing(v)
  BY <1>1 DEF Governing, GovernSteps
<1>4. \A v : PastCheck(v)' = PastCheck(v)
  BY <1>1 DEF PastCheck
<1>5. OnlineHasJoinTime' /\ BanHoldsUnlessOvertaken' /\ UnbanReopensLikes'
  BY <1>1 DEF OnlineHasJoinTime, BanHoldsUnlessOvertaken, UnbanReopensLikes
<1>6. CleanIsAlone'
  BY <1>1, <1>2, <1>3 DEF CleanIsAlone
<1>7. SettledIsQuiet' /\ NobodyIsPast'
  BY <1>1, <1>3, <1>4 DEF SettledIsQuiet, NobodyIsPast
<1>8. AnswerIsSeen'
  BY <1>1 DEF AnswerIsSeen
<1>9. CleanBanHolds' /\ CleanUnbanHolds'
  BY <1>1, <1>2 DEF CleanBanHolds, CleanUnbanHolds
<1> QED BY <1>5, <1>6, <1>7, <1>8, <1>9

\* A governance request begins: it is clean only when it is alone, and those it meets
\* are not.
LEMMA GovernanceBegins ==
    ASSUME IndInv, NEW h \in Handlers, NEW u \in Users, NEW step \in GovernSteps,
           pc[h] = "idle", Goto(h, step), who' = [who EXCEPT ![h] = u], UNCHANGED seen,
           BeginGoverning(h, u)
    PROVE  /\ \A x \in Handlers \ {h} : pc'[x] = pc[x] /\ who'[x] = who[x]
           /\ pc'[h] = step /\ who'[h] = u
           /\ \A x \in Handlers \ {h} : clean'[x] => clean[x] /\ who[x] # u
           /\ CleanIsAlone' /\ SettledIsQuiet' /\ AnswerIsSeen'
           /\ \A v : PastCheck(v)' = PastCheck(v)
           /\ \A v \in Users : settled'[v] \in {"banned", "unbanned"} => v # u /\ settled'[v] = settled[v]
<1> USE DEF IndInv
<1>1. /\ \A x \in Handlers \ {h} : pc'[x] = pc[x] /\ who'[x] = who[x]
      /\ pc'[h] = step /\ who'[h] = u
  BY DEF Goto, TypeOK
<1>2. \A v \in Users : settled'[v] \in {"banned", "unbanned"} => v # u /\ settled'[v] = settled[v]
  BY DEF BeginGoverning, TypeOK
<1>3. \A v : Governing(v)' = IF v = u THEN Governing(v) \cup {h} ELSE Governing(v)
  BY <1>1 DEF Governing, GovernSteps
<1>4. \A x \in Handlers \ {h} : clean'[x] => clean[x] /\ x \notin Governing(u)
  BY Zenon DEF BeginGoverning
<1>5. clean'[h] => Governing(u) = {}
  BY Zenon DEF BeginGoverning
<1>6. \A x \in Handlers \ {h} : clean'[x] => clean[x] /\ who[x] # u
  BY <1>4 DEF CleanIsAlone, Governing
<1>7. CleanIsAlone'
  BY <1>1, <1>3, <1>5, <1>6 DEF CleanIsAlone
<1>8. SettledIsQuiet'
  BY <1>2, <1>3 DEF SettledIsQuiet
<1>9. AnswerIsSeen'
  BY <1>1 DEF AnswerIsSeen, GovernSteps
<1>10. \A v : PastCheck(v)' = PastCheck(v)
  BY <1>1 DEF PastCheck, GovernSteps
<1> QED BY <1>1, <1>2, <1>6, <1>7, <1>8, <1>9, <1>10

LEMMA BanStep ==
    ASSUME IndInv, TypeOK', NEW h \in Handlers, NEW u \in Users, Ban(h, u)
    PROVE  IndInv'
<1> USE DEF IndInv
<1>1. /\ pc[h] = "idle" /\ Goto(h, "cacheBan") /\ who' = [who EXCEPT ![h] = u] /\ UNCHANGED seen
      /\ BeginGoverning(h, u)
      /\ bans' = bans \cup {u}
      /\ UNCHANGED <<banCache, viewer, joined>>
  BY DEF Ban, Begin, cacheVars, presenceVars
<1>2. /\ \A x \in Handlers \ {h} : pc'[x] = pc[x] /\ who'[x] = who[x]
      /\ pc'[h] = "cacheBan" /\ who'[h] = u
      /\ \A x \in Handlers \ {h} : clean'[x] => clean[x] /\ who[x] # u
      /\ CleanIsAlone' /\ SettledIsQuiet' /\ AnswerIsSeen'
      /\ \A v : PastCheck(v)' = PastCheck(v)
      /\ \A v \in Users : settled'[v] \in {"banned", "unbanned"} => v # u /\ settled'[v] = settled[v]
  <2>1. "cacheBan" \in GovernSteps
    BY DEF GovernSteps
  <2> QED BY <1>1, <2>1, GovernanceBegins
<1>3. /\ \A v \in Users \ {u} : v \in overtaken' <=> v \in overtaken
      /\ u \notin overtaken' => PastCheck(u) = {}
  BY DEF Ban
<1>4. OnlineHasJoinTime'
  BY <1>1 DEF OnlineHasJoinTime
<1>5. BanHoldsUnlessOvertaken' /\ UnbanReopensLikes'
  BY <1>1, <1>2, <1>3 DEF BanHoldsUnlessOvertaken, UnbanReopensLikes
<1>6. NobodyIsPast'
  BY <1>1, <1>2, <1>3 DEF NobodyIsPast, TypeOK
<1>7. CleanBanHolds'
  <2> SUFFICES ASSUME NEW x \in Handlers, clean'[x], pc'[x] \in {"cacheBan", "evict", "unsubscribe"}
               PROVE  /\ who'[x] \in bans'
                      /\ pc'[x] # "cacheBan" /\ who'[x] \notin overtaken' => banCache'[who'[x]] # "no"
                      /\ pc'[x] = "unsubscribe" /\ who'[x] \notin overtaken' => viewer'[who'[x]] # "online"
    BY DEF CleanBanHolds
  <2>1. CASE x = h
    BY <1>1, <1>2, <2>1
  <2>2. CASE x # h
    <3>1. clean[x] /\ who[x] # u /\ who[x] \in Users /\ pc'[x] = pc[x] /\ who'[x] = who[x]
      BY <1>2, <2>2 DEF TypeOK
    <3> QED BY <1>1, <1>3, <3>1 DEF CleanBanHolds
  <2> QED BY <2>1, <2>2
<1>8. CleanUnbanHolds'
  BY <1>1, <1>2 DEF CleanUnbanHolds
<1> QED BY <1>2, <1>4, <1>5, <1>6, <1>7, <1>8

LEMMA UnbanStep ==
    ASSUME IndInv, TypeOK', NEW h \in Handlers, NEW u \in Users, Unban(h, u)
    PROVE  IndInv'
<1> USE DEF IndInv
<1>1. /\ pc[h] = "idle" /\ Goto(h, "uncache") /\ who' = [who EXCEPT ![h] = u] /\ UNCHANGED seen
      /\ BeginGoverning(h, u)
      /\ bans' = bans \ {u}
      /\ UNCHANGED <<banCache, viewer, joined, overtaken>>
  BY DEF Unban, Begin, cacheVars, presenceVars
<1>2. /\ \A x \in Handlers \ {h} : pc'[x] = pc[x] /\ who'[x] = who[x]
      /\ pc'[h] = "uncache" /\ who'[h] = u
      /\ \A x \in Handlers \ {h} : clean'[x] => clean[x] /\ who[x] # u
      /\ CleanIsAlone' /\ SettledIsQuiet' /\ AnswerIsSeen'
      /\ \A v : PastCheck(v)' = PastCheck(v)
      /\ \A v \in Users : settled'[v] \in {"banned", "unbanned"} => v # u /\ settled'[v] = settled[v]
  <2>1. "uncache" \in GovernSteps
    BY DEF GovernSteps
  <2> QED BY <1>1, <2>1, GovernanceBegins
<1>3. OnlineHasJoinTime'
  BY <1>1 DEF OnlineHasJoinTime
<1>4. BanHoldsUnlessOvertaken' /\ UnbanReopensLikes'
  BY <1>1, <1>2 DEF BanHoldsUnlessOvertaken, UnbanReopensLikes
<1>5. NobodyIsPast'
  BY <1>1, <1>2 DEF NobodyIsPast
<1>6. CleanBanHolds'
  BY <1>1, <1>2 DEF CleanBanHolds
<1>7. CleanUnbanHolds'
  BY <1>1, <1>2 DEF CleanUnbanHolds
<1> QED BY <1>2, <1>3, <1>4, <1>5, <1>6, <1>7

\* A governance request goes on to its next step, clean or no longer clean.
LEMMA GovernanceGoesOn ==
    ASSUME IndInv, NEW h \in Handlers, NEW step \in GovernSteps, pc[h] \in GovernSteps, Goto(h, step),
           UNCHANGED <<who, seen, settled>>,
           clean' = clean \/ clean' = [clean EXCEPT ![h] = FALSE]
    PROVE  /\ \A x \in Handlers : pc'[x] = IF x = h THEN step ELSE pc[x]
           /\ \A x \in Handlers : clean'[x] => clean[x]
           /\ clean'[h] => clean' = clean
           /\ CleanIsAlone' /\ SettledIsQuiet' /\ AnswerIsSeen'
           /\ \A v : PastCheck(v)' = PastCheck(v)
<1> USE DEF IndInv
<1>1. \A x \in Handlers : pc'[x] = IF x = h THEN step ELSE pc[x]
  BY DEF Goto, TypeOK
<1>2. \A x \in Handlers : clean'[x] => clean[x]
  BY DEF TypeOK
<1>3. clean'[h] => clean' = clean
  BY DEF TypeOK
<1>4. \A v : Governing(v)' = Governing(v)
  BY <1>1 DEF Governing
<1>5. CleanIsAlone'
  BY <1>1, <1>2, <1>4 DEF CleanIsAlone
<1>6. SettledIsQuiet'
  BY <1>4 DEF SettledIsQuiet
<1>7. AnswerIsSeen'
  BY <1>1 DEF AnswerIsSeen, GovernSteps
<1>8. \A v : PastCheck(v)' = PastCheck(v)
  BY <1>1 DEF PastCheck, GovernSteps
<1> QED BY <1>1, <1>2, <1>3, <1>5, <1>6, <1>7, <1>8

\* EnforceLikeBan: nobody else governs the user of a clean ban, so no outcome is
\* settled for him.
LEMMA CacheBanStep == ASSUME IndInv, TypeOK', NEW h \in Handlers, CacheBan(h) PROVE IndInv'
<1> USE DEF IndInv
<1>1. /\ pc[h] = "cacheBan" /\ Goto(h, "evict")
      /\ UNCHANGED <<bans, viewer, joined, who, seen, settled, overtaken>>
      /\ \/ banCache' = [banCache EXCEPT ![who[h]] = "yes"] /\ clean' = clean
         \/ banCache' = banCache /\ clean' = [clean EXCEPT ![h] = FALSE]
  BY DEF CacheBan, roomVars, presenceVars
<1>2. /\ \A x \in Handlers : pc'[x] = IF x = h THEN "evict" ELSE pc[x]
      /\ \A x \in Handlers : clean'[x] => clean[x]
      /\ CleanIsAlone' /\ SettledIsQuiet' /\ AnswerIsSeen'
      /\ \A v : PastCheck(v)' = PastCheck(v)
  <2>1. "evict" \in GovernSteps /\ "cacheBan" \in GovernSteps
    BY DEF GovernSteps
  <2> QED BY <1>1, <2>1, GovernanceGoesOn
<1>3. /\ who[h] \in Users
      /\ \A v \in Users : banCache'[v] = banCache[v] \/ (v = who[h] /\ banCache'[v] = "yes")
      /\ clean'[h] => banCache'[who[h]] = "yes"
  BY <1>1 DEF TypeOK
<1>4. settled[who[h]] \notin {"banned", "unbanned"}
  BY <1>1, <1>3 DEF SettledIsQuiet, Governing, GovernSteps
<1>5. OnlineHasJoinTime' /\ NobodyIsPast'
  BY <1>1, <1>2 DEF OnlineHasJoinTime, NobodyIsPast
<1>6. BanHoldsUnlessOvertaken' /\ UnbanReopensLikes'
  BY <1>1, <1>3, <1>4 DEF BanHoldsUnlessOvertaken, UnbanReopensLikes
<1>7. CleanBanHolds'
  BY <1>1, <1>2, <1>3 DEF CleanBanHolds, TypeOK
<1>8. CleanUnbanHolds'
  BY <1>1, <1>2 DEF CleanUnbanHolds
<1> QED BY <1>2, <1>5, <1>6, <1>7, <1>8

\* RemoveViewer of the banned user.
LEMMA EvictStep == ASSUME IndInv, TypeOK', NEW h \in Handlers, Evict(h) PROVE IndInv'
<1> USE DEF IndInv
<1>1. /\ pc[h] = "evict" /\ Goto(h, "unsubscribe")
      /\ UNCHANGED <<bans, banCache, who, seen, settled, overtaken>>
      /\ \/ /\ viewer' = [viewer EXCEPT ![who[h]] = "absent"]
            /\ joined' = joined \ {who[h]} /\ clean' = clean
         \/ /\ viewer' = viewer /\ joined' = joined
            /\ clean' = [clean EXCEPT ![h] = FALSE]
  BY DEF Evict, roomVars, cacheVars, presenceVars
<1>2. /\ \A x \in Handlers : pc'[x] = IF x = h THEN "unsubscribe" ELSE pc[x]
      /\ \A x \in Handlers : clean'[x] => clean[x]
      /\ CleanIsAlone' /\ SettledIsQuiet' /\ AnswerIsSeen'
      /\ \A v : PastCheck(v)' = PastCheck(v)
  <2>1. "unsubscribe" \in GovernSteps /\ "evict" \in GovernSteps
    BY DEF GovernSteps
  <2> QED BY <1>1, <2>1, GovernanceGoesOn
<1>3. /\ who[h] \in Users
      /\ \A v \in Users : viewer'[v] = "online" => viewer[v] = "online"
      /\ clean'[h] => viewer'[who[h]] = "absent"
  BY <1>1 DEF TypeOK
<1>4. OnlineHasJoinTime'
  BY <1>1 DEF OnlineHasJoinTime, TypeOK
<1>5. NobodyIsPast'
  BY <1>1, <1>2 DEF NobodyIsPast
<1>6. BanHoldsUnlessOvertaken' /\ UnbanReopensLikes'
  BY <1>1, <1>3 DEF BanHoldsUnlessOvertaken, UnbanReopensLikes
<1>7. CleanBanHolds'
  BY <1>1, <1>2, <1>3 DEF CleanBanHolds, TypeOK
<1>8. CleanUnbanHolds'
  BY <1>1, <1>2 DEF CleanUnbanHolds
<1> QED BY <1>2, <1>4, <1>5, <1>6, <1>7, <1>8

\* A governance request ends, and settles the outcome only when it is still clean.
LEMMA GovernanceEnds ==
    ASSUME IndInv, NEW h \in Handlers, NEW ok \in BOOLEAN, NEW what,
           pc[h] \in GovernSteps, Goto(h, "idle"), EndGoverning(h, ok, what),
           UNCHANGED <<bans, who, overtaken>>, \A x \in Handlers \ {h} : seen'[x] = seen[x]
    PROVE  /\ \A x \in Handlers : pc'[x] = IF x = h THEN "idle" ELSE pc[x]
           /\ ~clean'[h] /\ \A x \in Handlers \ {h} : clean'[x] = clean[x]
           /\ \A v \in Users : \/ settled'[v] = settled[v]
                               \/ v = who[h] /\ settled'[v] = "unclear"
                               \/ v = who[h] /\ ok /\ clean[h] /\ settled'[v] = what
           /\ CleanIsAlone' /\ SettledIsQuiet' /\ AnswerIsSeen' /\ NobodyIsPast' /\ CleanUnbanHolds'
<1> USE DEF IndInv
<1>1. \A x \in Handlers : pc'[x] = IF x = h THEN "idle" ELSE pc[x]
  BY DEF Goto, TypeOK
<1>2. ~clean'[h] /\ \A x \in Handlers \ {h} : clean'[x] = clean[x]
  BY DEF EndGoverning, TypeOK
<1>3. \A v \in Users : \/ settled'[v] = settled[v]
                       \/ v = who[h] /\ settled'[v] = "unclear"
                       \/ v = who[h] /\ ok /\ clean[h] /\ settled'[v] = what
  BY DEF EndGoverning, TypeOK
<1>4. \A v : Governing(v)' = Governing(v) \ {h}
  BY <1>1 DEF Governing, GovernSteps
<1>5. CleanIsAlone'
  BY <1>1, <1>2, <1>4 DEF CleanIsAlone
<1>6. SettledIsQuiet'
  <2> SUFFICES ASSUME NEW v \in Users, settled'[v] \in {"banned", "unbanned"} PROVE Governing(v)' = {}
    BY DEF SettledIsQuiet
  <2>1. CASE settled'[v] = settled[v]
    BY <1>4, <2>1 DEF SettledIsQuiet
  <2>2. CASE v = who[h] /\ clean[h]
    BY <1>4, <2>2 DEF CleanIsAlone
  <2> QED BY <1>3, <2>1, <2>2
<1>7. AnswerIsSeen'
  BY <1>1 DEF AnswerIsSeen
<1>8. \A v : PastCheck(v)' \subseteq PastCheck(v)
  BY <1>1 DEF PastCheck, GovernSteps
<1>9. NobodyIsPast'
  BY <1>8 DEF NobodyIsPast
<1>10. CleanUnbanHolds'
  BY <1>1, <1>2 DEF CleanUnbanHolds
<1> QED BY <1>1, <1>2, <1>3, <1>5, <1>6, <1>7, <1>9, <1>10

LEMMA UnsubscribeStep == ASSUME IndInv, TypeOK', NEW h \in Handlers, Unsubscribe(h) PROVE IndInv'
<1> USE DEF IndInv
<1>1. /\ pc[h] = "unsubscribe" /\ Goto(h, "idle")
      /\ UNCHANGED <<bans, banCache, viewer, joined, who, seen, overtaken>>
  BY DEF Unsubscribe, roomVars, cacheVars, presenceVars
<1>2. PICK ok \in BOOLEAN : EndGoverning(h, ok, "banned")
  BY DEF Unsubscribe
<1>3. /\ \A x \in Handlers : pc'[x] = IF x = h THEN "idle" ELSE pc[x]
      /\ ~clean'[h] /\ \A x \in Handlers \ {h} : clean'[x] = clean[x]
      /\ \A v \in Users : \/ settled'[v] = settled[v]
                          \/ v = who[h] /\ settled'[v] = "unclear"
                          \/ v = who[h] /\ ok /\ clean[h] /\ settled'[v] = "banned"
      /\ CleanIsAlone' /\ SettledIsQuiet' /\ AnswerIsSeen' /\ NobodyIsPast' /\ CleanUnbanHolds'
  <2>1. pc[h] \in GovernSteps
    BY <1>1 DEF GovernSteps
  <2> QED BY <1>1, <1>2, <2>1, GovernanceEnds
<1>4. OnlineHasJoinTime'
  BY <1>1 DEF OnlineHasJoinTime
<1>5. BanHoldsUnlessOvertaken'
  BY <1>1, <1>3 DEF BanHoldsUnlessOvertaken, CleanBanHolds
<1>6. UnbanReopensLikes'
  BY <1>1, <1>3 DEF UnbanReopensLikes
<1>7. CleanBanHolds'
  BY <1>1, <1>3 DEF CleanBanHolds
<1> QED BY <1>3, <1>4, <1>5, <1>6, <1>7

LEMMA UncacheStep == ASSUME IndInv, TypeOK', NEW h \in Handlers, Uncache(h) PROVE IndInv'
<1> USE DEF IndInv
<1>1. /\ pc[h] = "uncache" /\ Goto(h, "idle")
      /\ UNCHANGED <<bans, viewer, joined, who, seen, overtaken>>
  BY DEF Uncache, roomVars, presenceVars
<1>2. PICK ok \in BOOLEAN :
         EndGoverning(h, ok, "unbanned") /\ (ok => banCache' = [banCache EXCEPT ![who[h]] = "none"])
  BY DEF Uncache
<1>3. /\ \A x \in Handlers : pc'[x] = IF x = h THEN "idle" ELSE pc[x]
      /\ ~clean'[h] /\ \A x \in Handlers \ {h} : clean'[x] = clean[x]
      /\ \A v \in Users : \/ settled'[v] = settled[v]
                          \/ v = who[h] /\ settled'[v] = "unclear"
                          \/ v = who[h] /\ ok /\ clean[h] /\ settled'[v] = "unbanned"
      /\ CleanIsAlone' /\ SettledIsQuiet' /\ AnswerIsSeen' /\ NobodyIsPast' /\ CleanUnbanHolds'
  <2>1. pc[h] \in GovernSteps
    BY <1>1 DEF GovernSteps
  <2> QED BY <1>1, <1>2, <2>1, GovernanceEnds
<1>4. /\ who[h] \in Users
      /\ \A v \in Users : banCache'[v] = banCache[v] \/ banCache'[v] = "none"
      /\ ok => banCache'[who[h]] = "none"
  <2>1. who[h] \in Users
    BY DEF TypeOK
  <2>2. \A v \in Users : banCache'[v] = banCache[v] \/ banCache'[v] = "none"
    BY <2>1 DEF Uncache, TypeOK
  <2>3. ASSUME ok PROVE banCache'[who[h]] = "none"
    BY <1>2, <2>1, <2>3, Zenon DEF TypeOK
  <2> QED BY <2>1, <2>2, <2>3
<1>5. OnlineHasJoinTime'
  BY <1>1 DEF OnlineHasJoinTime
<1>6. BanHoldsUnlessOvertaken'
  BY <1>1, <1>3, <1>4 DEF BanHoldsUnlessOvertaken
<1>7. UnbanReopensLikes'
  <2> SUFFICES ASSUME NEW v \in Users, settled'[v] = "unbanned" PROVE v \notin bans /\ banCache'[v] # "yes"
    BY <1>1 DEF UnbanReopensLikes
  <2>1. CASE settled'[v] = settled[v]
    BY <1>4, <2>1 DEF UnbanReopensLikes
  <2>2. CASE v = who[h] /\ ok /\ clean[h]
    BY <1>1, <1>4, <2>2 DEF CleanUnbanHolds
  <2> QED BY <1>3, <2>1, <2>2
<1>8. CleanBanHolds'
  BY <1>1, <1>3, <1>4 DEF CleanBanHolds, TypeOK
<1> QED BY <1>3, <1>5, <1>6, <1>7, <1>8

\* A governance request that fails settles nothing.
LEMMA GovernanceFails ==
    ASSUME IndInv, TypeOK', NEW h \in Handlers, Fail(h), pc[h] \in GovernSteps
    PROVE  IndInv'
<1> USE DEF IndInv
<1>1. /\ Goto(h, "idle") /\ EndGoverning(h, FALSE, "open")
      /\ UNCHANGED <<bans, banCache, viewer, joined, who, overtaken>>
      /\ \A x \in Handlers \ {h} : seen'[x] = seen[x]
  <2>1. \A x \in Handlers \ {h} : seen'[x] = seen[x]
    BY DEF Fail, Forget, TypeOK
  <2>2. Goto(h, "idle") /\ EndGoverning(h, FALSE, "open")
    BY DEF Fail
  <2>3. UNCHANGED <<bans, banCache, viewer, joined, who, overtaken>>
    BY DEF Fail, roomVars, cacheVars, presenceVars
  <2> QED BY <2>1, <2>2, <2>3
<1>2. /\ \A x \in Handlers : pc'[x] = IF x = h THEN "idle" ELSE pc[x]
      /\ ~clean'[h] /\ \A x \in Handlers \ {h} : clean'[x] = clean[x]
      /\ \A v \in Users : settled'[v] = settled[v] \/ settled'[v] = "unclear"
      /\ CleanIsAlone' /\ SettledIsQuiet' /\ AnswerIsSeen' /\ NobodyIsPast' /\ CleanUnbanHolds'
  BY <1>1, GovernanceEnds
<1>3. OnlineHasJoinTime' /\ BanHoldsUnlessOvertaken' /\ UnbanReopensLikes'
  BY <1>1, <1>2 DEF OnlineHasJoinTime, BanHoldsUnlessOvertaken, UnbanReopensLikes
<1>4. CleanBanHolds'
  BY <1>1, <1>2 DEF CleanBanHolds
<1> QED BY <1>2, <1>3, <1>4

-----------------------------------------------------------------------------
\* Every step keeps the inductive invariant.
LEMMA IndStep == IndInv /\ [Next]_vars => IndInv'
<1> SUFFICES ASSUME IndInv, [Next]_vars PROVE IndInv'
  OBVIOUS
<1>1. TypeOK'
  BY TypeStep DEF IndInv
<1>2. CASE Start \/ Stop \/ StatusCacheExpires \/ UNCHANGED vars
  BY <1>1, <1>2, ElsewhereStep
     DEF Start, Stop, StatusCacheExpires, vars, roomVars, cacheVars, presenceVars
<1>3. CASE Prune
  BY <1>1, <1>3, FadeStep DEF Prune, OnlineHasJoinTime, IndInv, roomVars, cacheVars
<1>4. ASSUME NEW u \in Users, Subscribe(u) \/ TokenExpires(u) PROVE IndInv'
  BY <1>1, <1>4, ElsewhereStep DEF Subscribe, TokenExpires, roomVars, cacheVars, presenceVars
<1>5. ASSUME NEW u \in Users, Leave(u) \/ ViewerExpires(u) PROVE IndInv'
  <2>1. OnlineHasJoinTime' /\ \A v \in Users : viewer'[v] = "online" => viewer[v] = "online"
    BY <1>5 DEF Leave, ViewerExpires, OnlineHasJoinTime, IndInv, TypeOK
  <2> QED BY <1>1, <1>5, <2>1, FadeStep DEF Leave, ViewerExpires, roomVars, cacheVars
<1>6. ASSUME NEW u \in Users, BanCacheExpires(u) PROVE IndInv'
  <2>1. OnlineHasJoinTime' /\ \A v \in Users : banCache'[v] = banCache[v] \/ banCache'[v] = "none"
    BY <1>6 DEF BanCacheExpires, OnlineHasJoinTime, IndInv, TypeOK, presenceVars
  <2> QED BY <1>1, <1>6, <2>1, FadeStep DEF BanCacheExpires, roomVars, presenceVars
<1>7. ASSUME NEW h \in Handlers, Serve(h) \/ Fail(h) PROVE IndInv'
  BY <1>1, <1>7, ReadersStep, SaveBanStep, TouchStep, CacheBanStep, EvictStep, UnsubscribeStep,
     UncacheStep, GovernanceFails DEF Serve
<1>8. ASSUME NEW h \in Handlers, NEW u \in Users, Arrive(h, u) PROVE IndInv'
  BY <1>1, <1>8, ViewerArrives, BanStep, UnbanStep DEF Arrive
<1> QED BY <1>2, <1>3, <1>4, <1>5, <1>6, <1>7, <1>8 DEF Next, Expire

\* The inductive invariant of moderation.
THEOREM ModerationInductive == Spec => []IndInv
  BY IndInit, IndStep, PTL DEF Spec

\* After a ban or an unban that ran alone and met no error, Redis agrees with MySQL:
\* the banned user is not online and not cleared unless one of his requests had passed
\* its ban check before, the unbanned one is not refused for good; and every member of
\* the presence set has its join time.
THEOREM ModerationInvariant == Spec => []ModerationInv
<1>1. IndInv => ModerationInv
  BY DEF IndInv, ModerationInv
<1> QED BY <1>1, ModerationInductive, PTL
=============================================================================
