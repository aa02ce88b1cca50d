------------------------------- MODULE Danmaku -------------------------------
(***************************************************************************)
(* The danmaku path: danmaku.Service.Send with its checks, the fixed       *)
(* window limiter and the rolling window of the hot-room policy in Redis,  *)
(* the broadcast, the asynchronous hand-over to Kafka and the consumer     *)
(* that archives; and the mutes the anchor sets.                           *)
(*                                                                         *)
(* One room.  A member of Messages is one request and the message it       *)
(* carries: it is sent at most once, and a user who tries again sends      *)
(* another.  Each call to MySQL, Redis, Centrifugo or Kafka is one step.   *)
(* Time is an integer shared by all hosts.  Who watches is arbitrary here  *)
(* (Moderation and Presence model it).  The archive consumer is one        *)
(* member; rebalances and the dead-letter branch are in GiftDelivery.      *)
(*                                                                         *)
(* always, passed, refused and lost are history for the properties: what   *)
(* has barred the author ever since his request arrived, when a request    *)
(* passed or was refused by the limiter, and what Kafka never took.        *)
(***************************************************************************)
EXTENDS FiniteSets, TrafficPolicy, SensitiveFilter

CONSTANTS
    Messages, Users,
    Texts,         \* what users write, after TrimSpace
    Bucket,        \* the hash bucket of each message id
    Words,         \* the configured sensitive words
    MaxLength,     \* 200 letters
    Traffic,       \* the policy's configuration
    Audience,      \* the numbers of viewers that occur
    UserRateLimit, UserRateWindow,
    Durations,     \* of mutes; 0 is for ever
    BufferSize,    \* MaxBufferedRecords of the producer
    MaxTime,       \* bound on the clock
    MaxCrashes,    \* bound on the crashes of the consumer
    MaxChanges,    \* bound on the anchor's actions
    Governed       \* the users the anchor acts on

ASSUME DanmakuAssumption ==
    /\ Users # {} /\ Texts # {}
    /\ Bucket \in [Messages -> 0..Buckets - 1]
    /\ Words \cup Texts \subseteq Seq(DOMAIN Lower)
    /\ Traffic \in TrafficConfigs /\ ValidConfig(Traffic)
    /\ UserRateLimit \in Nat \ {0} /\ UserRateWindow \in Nat \ {0}
    /\ Audience \subseteq Nat /\ Durations \subseteq Nat
    /\ BufferSize \in Nat /\ MaxTime \in Nat /\ MaxCrashes \in Nat /\ MaxChanges \in Nat /\ Governed \subseteq Users

VARIABLES
    now,
    status, banned, changes,
    mutes,         \* room_mutes.muted_until of each user; Unmuted: no row
    limit,         \* the limiter's key of each user: its count and its end; NoKey: none
    rolling,       \* the zset of the rolling window: message -> time
    pc,
    author, text,  \* of each message that was sent
    access,        \* what GetRoomAccess found against the author
    decision,      \* the pressure of a decided message
    screen,        \* messages broadcast to the room
    buffer,        \* the producer's buffered records
    topic, offset, \* the danmaku topic and the committed offset of its consumer
    cpc,
    archive,       \* danmaku_records
    crashes,
    always, passed, refused, lost

roomVars == <<status, banned, mutes, changes>>
redisVars == <<limit, rolling>>
inputVars == <<author, text>>
requestVars == <<pc, inputVars, access, decision>>
archiveVars == <<buffer, topic, offset, cpc, archive, crashes>>
historyVars == <<always, passed, refused, lost>>
vars == <<now, roomVars, redisVars, requestVars, screen, archiveVars, historyVars>>

Unmuted == -1
Forever == MaxTime + 1    \* muted_until IS NULL
NoKey == [count |-> 0, expires |-> 0]
NoPressure == [viewers |-> 0, observed |-> 0]

Init ==
    /\ now = 0
    /\ status = "LIVING" /\ banned = {} /\ changes = 0
    /\ mutes \in {f \in [Users -> {Unmuted} \cup (Durations \ {0})] : \A u \in Users \ Governed : f[u] = Unmuted}
    /\ limit = [u \in Users |-> NoKey]
    /\ rolling = {}
    /\ pc = [m \in Messages |-> "new"]
    /\ author = [m \in Messages |-> CHOOSE u \in Users : TRUE] /\ text = [m \in Messages |-> <<>>]
    /\ access = [m \in Messages |-> {}]
    /\ decision = [m \in Messages |-> NoPressure]
    /\ screen = {}
    /\ buffer = {} /\ topic = <<>> /\ offset = 0 /\ cpc = "poll" /\ archive = {} /\ crashes = 0
    /\ always = [m \in Messages |-> {}]
    /\ passed = {} /\ refused = {} /\ lost = {}

Goto(m, step) == pc' = [pc EXCEPT ![m] = step]

IsMuted(u) == mutes[u] > now

\* What speaks against a danmaku of u.
Bars(u) ==
    {bar \in {"room", "ban", "mute"} :
        CASE bar = "room" -> status # "LIVING"
          [] bar = "ban" -> u \in banned
          [] bar = "mute" -> IsMuted(u)}

\* The history of the bars follows every change of room, bans, mutes and time, and
\* forgets a request that was refused.
Follow == always' = [m \in Messages |-> IF pc[m] \in {"rejected", "failed"} THEN {}
                                        ELSE always[m] \cap Bars(author[m])']

-----------------------------------------------------------------------------
(* danmaku.Service.Send *)

Arrive(m, u, content) ==
    /\ pc[m] = "new"
    /\ author' = [author EXCEPT ![m] = u]
    /\ text' = [text EXCEPT ![m] = content]
    /\ Goto(m, IF Len(content) \in 1..MaxLength THEN "room" ELSE "rejected")
    /\ always' = [always EXCEPT ![m] = Bars(u)]
    /\ UNCHANGED <<now, roomVars, redisVars, access, decision, screen, archiveVars,
                   passed, refused, lost>>

\* GetRoomAccess: three reads, one after the other, and then the verdict.
ReadAccess(m, bar, next) ==
    /\ pc[m] = bar
    /\ access' = [access EXCEPT ![m] = @ \cup (Bars(author[m]) \cap {bar})]
    /\ Goto(m, next)
    /\ UNCHANGED <<now, roomVars, inputVars, redisVars, decision, screen, archiveVars, historyVars>>

\* Mutant: a mute without an end is not found.
ReadMute_NoNull(m) ==
    /\ pc[m] = "mute"
    /\ Goto(m, IF access[m] = {} /\ ~(IsMuted(author[m]) /\ mutes[author[m]] # Forever)
               THEN "limit" ELSE "rejected")
    /\ access' = [access EXCEPT ![m] = {}]
    /\ UNCHANGED <<now, roomVars, inputVars, redisVars, decision, screen, archiveVars, historyVars>>

ReadMute(m) ==
    /\ pc[m] = "mute"
    /\ Goto(m, IF access[m] = {} /\ ~IsMuted(author[m]) THEN "limit" ELSE "rejected")
    /\ access' = [access EXCEPT ![m] = {}]
    /\ UNCHANGED <<now, roomVars, inputVars, redisVars, decision, screen, archiveVars, historyVars>>

\* fixedWindowScript, for n units: the first use of a window sets its end.
Allowed(u, n) == limit[u].count + n <= UserRateLimit

\* Mutant: the window is a unit too short.
Consume_ShortWindow(u, n) ==
    limit' = [limit EXCEPT ![u] =
        [count |-> @.count + n,
         expires |-> IF @.count = 0 THEN now + UserRateWindow - 1 ELSE @.expires]]

Consume(u, n) ==
    limit' = [limit EXCEPT ![u] =
        [count |-> @.count + n,
         expires |-> IF @.count = 0 THEN now + UserRateWindow ELSE @.expires]]

\* A sensitive text is refused after it has used the quota.
CheckLimit(m) ==
    /\ pc[m] = "limit"
    /\ IF Allowed(author[m], 1)
       THEN /\ Consume(author[m], 1)
            /\ Goto(m, IF Contains(Trie(Words), text[m]) THEN "rejected" ELSE "decide")
            /\ passed' = passed \cup {<<m, now>>}
            /\ UNCHANGED refused
       ELSE /\ Goto(m, "rejected")
            /\ refused' = refused \cup {<<m, now>>}
            /\ UNCHANGED <<limit, passed>>
    /\ UNCHANGED <<now, roomVars, inputVars, rolling, access, decision, screen, archiveVars, always, lost>>

\* danmakuPressureScript: the window forgets what is too old and counts this message.
Recent(m) == {r \in rolling : r[2] > now - Traffic.window} \cup {<<m, now>>}

\* The author's name is read, then the policy decides.
Decide(m, viewers) ==
    LET pressure == [viewers |-> viewers, observed |-> Cardinality(Recent(m))] IN
    /\ pc[m] = "decide"
    /\ rolling' = Recent(m)
    /\ decision' = [decision EXCEPT ![m] = pressure]
    /\ Goto(m, IF Keep(Bucket[m], Sample(Traffic, pressure)) THEN "publish" ELSE "produce")
    /\ UNCHANGED <<now, roomVars, inputVars, limit, access, screen, archiveVars, historyVars>>

Publish(m) ==
    /\ pc[m] = "publish"
    /\ screen' = screen \cup {m}
    /\ Goto(m, "produce")
    /\ UNCHANGED <<now, roomVars, inputVars, redisVars, access, decision, archiveVars, historyVars>>

\* Mutant: the error of the broadcast is only logged.
PublishFailed_Ignored(m) ==
    /\ pc[m] = "publish"
    /\ screen' \in {screen, screen \cup {m}}
    /\ Goto(m, "produce")
    /\ UNCHANGED <<now, roomVars, inputVars, redisVars, access, decision, archiveVars, historyVars>>

\* Centrifugo does not answer, and may have broadcast the message all the same.
PublishFailed(m) ==
    /\ pc[m] = "publish"
    /\ screen' \in {screen, screen \cup {m}}
    /\ Goto(m, "failed")
    /\ UNCHANGED <<now, roomVars, inputVars, redisVars, access, decision, archiveVars, historyVars>>

\* TryProduce takes the record unless the buffer is full; the answer is the same.
ProduceDanmaku(m) ==
    /\ pc[m] = "produce"
    /\ IF Cardinality(buffer) < BufferSize
       THEN buffer' = buffer \cup {m} /\ UNCHANGED lost
       ELSE lost' = lost \cup {m} /\ UNCHANGED buffer
    /\ Goto(m, "ok")
    /\ UNCHANGED <<now, roomVars, inputVars, redisVars, access, decision, screen,
                   topic, offset, cpc, archive, crashes, always, passed, refused>>

\* A call before the broadcast fails, and the request with it.  A script may have
\* run although its answer was lost.
CallFailed(m) ==
    /\ pc[m] \in {"room", "ban", "mute", "limit", "decide"}
    /\ Goto(m, "failed")
    /\ access' = [access EXCEPT ![m] = {}]
    /\ \/ UNCHANGED <<limit, rolling, passed>>
       \/ /\ pc[m] = "limit" /\ Allowed(author[m], 1)
          /\ Consume(author[m], 1)
          /\ passed' = passed \cup {<<m, now>>}
          /\ UNCHANGED rolling
       \/ /\ pc[m] = "decide"
          /\ rolling' = Recent(m)
          /\ UNCHANGED <<limit, passed>>
    /\ UNCHANGED <<now, roomVars, inputVars, decision, screen, archiveVars, always, refused, lost>>

Send(m) ==
    \/ \E u \in Users, content \in Texts : Arrive(m, u, content)
    \/ ReadAccess(m, "room", "ban") \/ ReadAccess(m, "ban", "mute") \/ ReadMute(m) \/ CheckLimit(m)
    \/ \E viewers \in Audience : Decide(m, viewers)
    \/ Publish(m) \/ PublishFailed(m) \/ ProduceDanmaku(m) \/ CallFailed(m)

\* live-interaction dies: its requests end without an answer, its buffer is gone.
InteractionCrashes ==
    /\ pc' = [m \in Messages |-> IF pc[m] \in {"new", "ok", "rejected"} THEN pc[m] ELSE "failed"]
    /\ access' = [m \in Messages |-> {}]
    /\ buffer' = {}
    /\ lost' = lost \cup buffer
    /\ UNCHANGED <<now, roomVars, inputVars, redisVars, decision, screen,
                   topic, offset, cpc, archive, crashes, always, passed, refused>>

-----------------------------------------------------------------------------
(* The archive *)

\* The producer delivers a buffered record, or gives it up after its timeout.
Deliver(m) ==
    /\ m \in buffer
    /\ buffer' = buffer \ {m}
    /\ topic' = Append(topic, m)
    /\ UNCHANGED <<now, roomVars, redisVars, requestVars, screen, offset, cpc, archive, crashes,
                   historyVars>>

DeliveryFailed(m) ==
    /\ m \in buffer
    /\ buffer' = buffer \ {m}
    /\ lost' = lost \cup {m}
    /\ UNCHANGED <<now, roomVars, redisVars, requestVars, screen, topic, offset, cpc, archive,
                   crashes, always, passed, refused>>

Poll ==
    /\ cpc = "poll"
    /\ offset < Len(topic)
    /\ cpc' = "insert"
    /\ UNCHANGED <<now, roomVars, redisVars, requestVars, screen, buffer, topic, offset, archive,
                   crashes, historyVars>>

\* PersistenceHandler.Handle: the message id is unique, a second insert changes
\* nothing.  After an error the record is handled again.
Persist ==
    /\ cpc = "insert"
    /\ archive' = archive \cup {topic[offset + 1]}
    /\ cpc' = "commit"
    /\ UNCHANGED <<now, roomVars, redisVars, requestVars, screen, buffer, topic, offset, crashes,
                   historyVars>>

\* Mutant: the offset that was read is committed, not the next one.
CommitOffset_SameOffset ==
    /\ cpc = "commit"
    /\ cpc' = "poll"
    /\ UNCHANGED <<now, roomVars, redisVars, requestVars, screen, buffer, topic, offset, archive, crashes,
                   historyVars>>

CommitOffset ==
    /\ cpc = "commit"
    /\ offset' = offset + 1
    /\ cpc' = "poll"
    /\ UNCHANGED <<now, roomVars, redisVars, requestVars, screen, buffer, topic, archive, crashes,
                   historyVars>>

ConsumerCrashes ==
    /\ cpc # "poll"
    /\ crashes < MaxCrashes
    /\ crashes' = crashes + 1
    /\ cpc' = "poll"
    /\ UNCHANGED <<now, roomVars, redisVars, requestVars, screen, buffer, topic, offset, archive,
                   historyVars>>

-----------------------------------------------------------------------------
(* The room around it *)

Stop ==
    /\ status = "LIVING"
    /\ status' = "CLOSED"
    /\ UNCHANGED <<banned, mutes>>

\* Service.Ban and Service.Unban; what else a ban does is in Moderation.
SetBan(bans) ==
    /\ banned' = bans
    /\ UNCHANGED <<status, mutes>>

\* A new mute replaces the end of an older one, whichever is later.
Mute(u, duration) ==
    /\ mutes' = [mutes EXCEPT ![u] = IF duration > 0 THEN now + duration ELSE Forever]
    /\ UNCHANGED <<status, banned>>

Unmute(u) ==
    /\ mutes' = [mutes EXCEPT ![u] = Unmuted]
    /\ UNCHANGED <<status, banned>>

\* The anchor's requests: one write each.
Govern ==
    /\ changes < MaxChanges
    /\ changes' = changes + 1
    /\ \/ Stop
       \/ \E u \in Governed : \/ SetBan(banned \cup {u}) \/ SetBan(banned \ {u}) \/ Unmute(u)
                              \/ \E d \in Durations : Mute(u, d)
    /\ UNCHANGED <<now, redisVars, requestVars, screen, archiveVars, passed, refused, lost>>
    /\ Follow

\* Time passes, and Redis drops the keys whose time has come.
Tick ==
    /\ now < MaxTime
    /\ now' = now + 1
    /\ limit' = [u \in Users |-> IF limit[u].expires <= now' THEN NoKey ELSE limit[u]]
    /\ UNCHANGED <<roomVars, rolling, requestVars, screen, archiveVars, passed, refused, lost>>
    /\ Follow

Next ==
    \/ \E m \in Messages : Send(m) \/ Deliver(m) \/ DeliveryFailed(m)
    \/ InteractionCrashes
    \/ Poll \/ Persist \/ CommitOffset \/ ConsumerCrashes
    \/ Govern \/ Tick

Spec == Init /\ [][Next]_vars

\* The producer's client and the consumer's loop run by themselves: the one delivers
\* or gives up, the other handles what it polled until that succeeds.
Fairness ==
    /\ \A m \in Messages : WF_vars(Deliver(m) \/ DeliveryFailed(m))
    /\ WF_vars(Poll) /\ WF_vars(Persist) /\ WF_vars(CommitOffset)

FairSpec == Spec /\ Fairness

-----------------------------------------------------------------------------
(* Properties *)

TypeOK ==
    /\ now \in 0..MaxTime
    /\ status \in {"LIVING", "CLOSED"} /\ banned \subseteq Users
    /\ mutes \in [Users -> Nat \cup {Unmuted}] /\ changes \in 0..MaxChanges
    /\ limit \in [Users -> [count: 0..UserRateLimit, expires: Nat]]
    /\ rolling \subseteq Messages \X (0..now)
    /\ pc \in [Messages -> {"new", "room", "ban", "mute", "limit", "decide", "publish", "produce",
                            "ok", "rejected", "failed"}]
    /\ author \in [Messages -> Users] /\ text \in [Messages -> Texts \cup {<<>>}]
    /\ access \in [Messages -> SUBSET {"room", "ban", "mute"}]
    /\ decision \in [Messages -> [viewers: Nat, observed: Nat]]
    /\ screen \subseteq Messages /\ archive \subseteq Messages /\ lost \subseteq Messages
    /\ buffer \subseteq Messages /\ Cardinality(buffer) <= BufferSize
    /\ topic \in Seq(Messages) /\ offset \in 0..Len(topic)
    /\ cpc \in {"poll", "insert", "commit"} /\ (cpc # "poll" => offset < Len(topic))
    /\ crashes \in 0..MaxCrashes
    /\ always \in [Messages -> SUBSET {"room", "ban", "mute"}]
    /\ passed \subseteq Messages \X (0..now) /\ refused \subseteq Messages \X (0..now)

\* What Kafka or the archive ever got of a message.
Recorded == buffer \cup archive \cup {topic[i] : i \in DOMAIN topic}

\* A message is neither broadcast nor archived when the same thing spoke against it
\* from the arrival of its request on: a closed room, a ban, or a mute that had not
\* ended.  (A bar that comes or goes meanwhile may or may not be seen: GetRoomAccess
\* reads the three one after the other.)
BarredIsSilent == \A m \in screen \cup Recorded : always[m] = {}

\* No text that holds a sensitive word, in whatever case, is broadcast or archived,
\* nor one that is empty or too long (INT-001); the trie agrees with plain search.
FilterHolds ==
    \A m \in screen \cup Recorded : /\ ~Occurs(Words, text[m])
                                     /\ Len(text[m]) \in 1..MaxLength

\* What reached the room or Kafka had passed every check of Send.
DanmakuInv == TypeOK /\ BarredIsSilent /\ FilterHolds

Within(history, u, from, to) == {p \in history : author[p[1]] = u /\ p[2] \in from..to}

\* Any span of one window lets at most 2 * limit - 1 requests of a user pass: windows
\* are fixed, and a user can use up one at its end and the next at its beginning.
RateIsBounded ==
    \A u \in Users, t \in 0..now :
        Cardinality(Within(passed, u, t - UserRateWindow + 1, t)) <= 2 * UserRateLimit - 1

\* A user is refused only when he himself has used his whole limit within the last
\* window (INT-003): a window is not prolonged by its use.
RefusedOnlyAtLimit ==
    \A p \in refused :
        Cardinality(Within(passed, author[p[1]], p[2] - UserRateWindow + 1, p[2])) >= UserRateLimit

\* The limiter, under parallel requests and lost answers, is right both ways.
LimiterIsRight == RateIsBounded /\ RefusedOnlyAtLimit

\* What was handed to Kafka was answered with success, and a success is true: the
\* message was broadcast, or the policy had sampled it out (INT-006); and either way it
\* is archived, on its way, or was given up by the producer: the consumer skips nothing.
SuccessIsTrue ==
    \A m \in Messages :
        /\ m \in Recorded => pc[m] = "ok"
        /\ pc[m] = "ok" => /\ m \in screen <=> Keep(Bucket[m], Sample(Traffic, decision[m]))
                           /\ \/ m \in lost \cup buffer \cup archive
                              \/ \E i \in offset + 1..Len(topic) : topic[i] = m

Decided == {m \in Messages : pc[m] \in {"publish", "produce", "ok"}}

\* Sampling is stable and monotone: when one message was decided under no more
\* pressure than another, in a room that has viewers, and its bucket is no higher,
\* it is kept whenever the other is.
SamplingIsMonotone ==
    \A m, n \in Decided :
        /\ decision[m].viewers \in 1..decision[n].viewers
        /\ decision[m].observed <= decision[n].observed
        /\ Bucket[m] <= Bucket[n]
        /\ Keep(Bucket[n], Sample(Traffic, decision[n]))
        => Keep(Bucket[m], Sample(Traffic, decision[m]))

\* Every success is archived or given up in the end (INT-005): again and again nothing
\* is left to do for the archive.
EventuallyArchived == []<>(\A m \in Messages : pc[m] = "ok" => m \in archive \cup lost)
=============================================================================
