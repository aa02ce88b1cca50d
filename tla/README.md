# TLA+ specifications of live-platform

live-platform is a live-streaming back end: rooms with anchors and viewers, likes,
danmaku (bullet comments) and paid gifts, served by a few Go services over MySQL,
Redis, Kafka and Centrifugo. This directory holds a TLA+ model of the parts whose
correctness depends on interleavings, failures and retries, the TLC configurations
that check them, and TLAPS proofs of the safety properties for every value of the constants.

## 1. Inventory

| Part | State it keeps | Operations | Talks to |
| --- | --- | --- | --- |
| Gift orders (`internal/gift`, `internal/wallet`, `internal/commerceapi`) | `gift_orders`, `wallets`, `wallet_transactions`, `outbox_events` | send gift, replay by Idempotency-Key, development credit | identity service (room, ban), Redis (limit, gift score) |
| Outbox (`internal/outbox`) | `outbox_events`: status, lease, retry time | claim, produce, mark published or failed | MySQL, Kafka |
| Gift consumer (`internal/mq`, `internal/gift/consumer.go`, `internal/eventdedup`) | group offset, `processed_events`, dead-letter topic | poll, begin, publish, done or fail, dead-letter, commit | Kafka, MySQL, Centrifugo |
| Dead-letter replay (`internal/mq/dlq.go`, `cmd/dlq-replay`) | none of its own | put exported dead letters back on their topic | Kafka |
| Rooms and bans (`internal/room`) | `live_rooms`, `room_bans`, `room_mutes`, `live_sessions` | create, start, stop, join, ban, unban, mute, unmute | MySQL |
| Presence (`internal/viewer`, Redis scripts) | viewers and join-time sets, gift ranking | touch, remove, expire, prune, top | Redis |
| Subscriptions (`internal/token`, `internal/realtime`) | tokens, channel subscriptions | issue, subscribe, unsubscribe | Centrifugo |
| Like path (`internal/like/service.go`) | status and ban caches, total and increment | add likes, enforce or lift a ban in the cache | Redis, identity service |
| Stats aggregator (`internal/stats`) | increment in hand, last published viewer count | tick: take, snapshot, broadcast, give back | Redis, Centrifugo |
| Like snapshotter (`internal/like/snapshot.go`) | `room_like_snapshots` | recover, tick | Redis, MySQL |
| Danmaku (`internal/danmaku`, `internal/traffic`) | `danmaku_records`, pressure window, the producer's buffer | send, filter, sample, archive | identity service (room, ban, mute), Redis, Centrifugo, Kafka |
| Rate limiter (Redis script) | counters with a TTL | allow, allow N | Redis |
| Accounts (`internal/auth`) | `users`, the tokens that are out | register, log in, verify a token | MySQL |
| Migrations (`cmd/migrate`) | `schema_migrations`, the advisory lock, service accounts | apply the files, provision the accounts | MySQL |
| gateway, query service, configuration, observability, web client, tools | none of their own | | |

The hard behaviours: several handlers and worker processes share rows, keys and
topics; every call to another system can fail before or after it took effect; leases
and TTLs run out under their holders; processes die between two calls; checks made
through a cache or another service are stale when they are used. `PROJECT.json`
lists them as hazards, each at the line where it bites, with the properties that
would catch it.

What makes each part correct, in a sentence:

* gift orders: one key is charged once, exactly, out of money that is there, and the
  order, its ledger row and its event exist together; answers tell the truth;
* outbox and consumer: a committed order's event reaches the room at least once, a
  second time only for a named reason, and nothing is skipped or blocked;
* rooms, bans, presence: a ban takes hold and an unban lifts it, in every copy of the
  fact, whatever requests are in flight;
* likes: an accepted like is broadcast once, totals neither fall nor grow by
  themselves, and what viewers see converges to what was counted;
* presence: who was told to be counted for a while is counted that long, a viewer keeps
  its place, and a room with viewers is aggregated;
* danmaku: nothing gets out that a closed room, a ban, a mute or the filter forbids, and a
  success means shown (or sampled out) and recorded (or given up by Kafka's client);
* the limiter: neither too many nor too few pass;
* accounts: one account per name, whose tokens only its password gives;
* migrations: whenever a job stops, the database holds a prefix of the files and the
  ledger does not claim more.

## 2. Modules

| Module | Models |
| --- | --- |
| `GiftOrder` | `Send`, `Create` and `Credit`, statement by statement, for any number of concurrent handlers |
| `GiftSale` | abstract specification: a sale is one atomic step; `GiftOrder` implements it |
| `GiftTopic` | the partition of the gift topic, which `Outbox` writes and `GiftDelivery` reads |
| `Outbox` | `outbox_events` and the publishers |
| `GiftDelivery` | one partition, the consumer group, the dedup store and the dead-letter topic |
| `GiftPipeline` | `Outbox` and `GiftDelivery` composed over the same log, with dead-letter replays |
| `EventDelivery` | abstract specification of the pipeline: at-least-once, or set aside |
| `Moderation` | room lifecycle, bans, the like path's caches, presence, tokens and subscriptions |
| `LikeStats` | like counters, active-room index, aggregator and snapshotter |
| `Presence` | the four sorted sets of a room's viewers in real time, and the ranking |
| `Danmaku` | `Send`, the limiter, the archive, and the anchor's mutes and bans |
| `TrafficPolicy`, `SensitiveFilter` | the pure parts of the danmaku path: modes and rates, the trie |
| `Migrations` | live-migrate: files, ledger, lock, service accounts |
| `Accounts` | registration, login, tokens, and the creation of a room with one |
| `GiftOrderProofs`, `GiftPipelineProofs`, `ModerationProofs`, `LikeStatsProofs`, `PresenceProofs`, `DanmakuProofs`, `MigrationsProofs`, `AccountsProofs` | the theorems about the module they are named after; `GiftPipelineProofs` also those about `Outbox` and `GiftDelivery`, which `GiftPipeline` extends, `DanmakuProofs` also those about the policy and the filter |
| `MCGiftOrder`, `MCLikeStats`, `MCDanmaku`, `MCMigrations`, `MCPresence`, `MCAccounts` | values of the constants for TLC |

In every module an action is a whole step of the code between two points where
others can interleave: a statement or transaction of MySQL, a Lua script or command
of Redis, a call of Kafka or Centrifugo. Identifiers, payloads, wording and metrics
are left out. So are clocks, except in `Presence`, `Danmaku` and `Accounts`, whose properties
are about time: elsewhere a lease or a TTL may run out at any time.
Operators named `X_Something` are mutants: the operator `X` as a plausible bug would
have it, used to show that a property notices.

**GiftOrder.** `pc[c]` is where the handler `c` is: room, ban and limit checks, the
replay lookup, then the transaction (`create`, `wallet`, `commit`), the reread and the
score (`board`). `keyLock` and `walletLock` are the InnoDB locks the code relies on; the
writes of an open transaction are in `work` and appear in `orders`, `wallets`, `ledger` and
`outbox` at `Commit`. A commit may succeed and still report an error. The answers of
the identity service and the limiter are choices, so every timing of a ban or a room
closing is covered. Arithmetic has a width: `MaxInt64` is 7 in the model, so products
overflow with small numbers.

**Outbox.** A row is absent, pending, claimed or published; `expired` and `due` stand for
the lease and the retry time. A member of `Workers` is a process lifetime, as each start
draws a new worker id. `OutboxFault` bounds the events that can cause a copy.

**GiftDelivery.** `log` is the partition, `committed` the group's offset; `mpc` and `pos` follow
each member through `Run` and `Handle`. `Rebalance` may take the partition from a member
in the middle of a record; it goes on as a zombie. `Malformed` and `BadPayload` events
take the dead-letter branch.

**GiftPipeline** shares `log` between the two and adds the operator who replays dead
letters.

**Moderation.** One room. A member of `Handlers` is a request in progress; `pc` names the
next call it makes, `seen` what it read and has not yet used. The caches record whether an
entry has a TTL: the like path writes entries that expire, a ban writes one that does
not. `settled`, `clean` and `overtaken` are history variables for the properties.

**LikeStats.** `total`, `delta`, the active-room index and the viewer count are Redis;
`apc`, `hand` and `snap` are the aggregator between its calls, `spc`, `stodo` and `sval` the
snapshotter. The deployment runs one replica of the worker roles concerned (`deploy/k8s/base/workloads.yaml`
replaces it only after it stopped), so each is one process that can crash and start
again. `RedisLost` empties Redis.

**Presence.** Where `Moderation` asks who may be present, this module asks how long and in which
order. A call carries the time its replica read, and its script runs up to `MaxDelay` later, so
calls of one user can be reordered. `expires`, `join`, `gift` and `index` are the four sorted sets;
each script prunes what the code makes it prune: a touch the viewers and their places, the
counters only the viewers. `TopViewers` is the set of rankings the script's unstable sort
may return. A touch writes the index entry first and then runs its script, and a failure in between is
`TouchFails`; that the two are one step otherwise hides nothing, as the entry only makes the room
visible to the aggregator earlier.

**Danmaku.** `pc[m]` is where the request of message `m` is: the three reads of `GetRoomAccess`, the
limiter and the filter, the policy's decision, the broadcast, the hand-over to Kafka. `limit` and
`rolling` are the limiter's keys and the pressure window in Redis, with real times. `buffer` is the
producer's memory, bounded by `MaxBufferedRecords`: what does not fit, what times out and what a
crash takes along is `lost`. The hand-over and the answer that follows it are one step (`ProduceDanmaku`):
a crash between the two would leave a recorded message whose sender got no answer. The archive consumer polls, inserts by unique message id and commits;
its rebalances and dead letters are those of `GiftDelivery`. A rate is a number of hash buckets out
of 10000, so the policy is integer arithmetic.

**Migrations.** `applied` is the set of statements in effect, each committed by itself as MySQL does
with DDL; a statement in `Once` fails when it is repeated (`005_user_avatar.sql` adds a column).
`pc` and `at` follow a job through the files and the accounts. Jobs may carry different images: an older
one holds fewer of the files, and a file may differ in its checksum.

**Accounts.** `row` is the `users` table by its unique, normalised name. Look-up, insert, reread and
the issue of the token are separate steps; the account is not looked up when a token is used.
An operator outside the repository may disable an account.

## 3. Runs

| Run | Expect | Shows |
| --- | --- | --- |
| `gift_order` | pass | the ledger explains the balance, a key is charged once, answers are true, scores are not inflated, sold keys are never refused; it refines `GiftSale` (so order, charge and event are one step, and amounts exact); every call is answered |
| `outbox` | pass | no event lost, no publication undone, copies only with a cause, every event published in the end |
| `gift_delivery` | pass | no record skipped, one delivery unless disturbed, offsets only advance, every record settled |
| `gift_pipeline` | pass | the composition implements `EventDelivery`; copies on the topic have a cause and are absorbed, nothing published is lost once the group has caught up |
| `moderation` | pass | bans, unbans, presence, subscriptions and closing rooms |
| `moderation_unban` | violation | an unban can leave the cache refusing for ever |
| `like_stats` | pass | increments conserved, totals and checkpoints neither inflated nor lowered |
| `like_stats_live` | pass | screens converge |
| `danmaku` | pass | nothing barred or sensitive gets out, the limiter is right both ways, successes are true, sampling is monotone, every success is archived or given up |
| `migrations` | pass | a prefix of the files whenever a job stops, recorded files are final, jobs finish with every account provisioned, unless a file is wedged or the image was overtaken, and the accounts keep their privileges in the end |
| `presence` | pass | promised stays are kept, places do not move, who came first is listed first, a room with viewers stays in the index |
| `accounts` | pass | one account per name under races and repetitions, tokens only for its password, a disabled account is locked out a token's life after the last login under way |

A name that ends in `Inv` is the invariant of its module: types together with the relations
between its variables, each part a definition of its own with its comment. `MCDanmaku` also
evaluates, once, the trie against plain search over all short texts (`FilterIsSearch`, an
assumption of the model) and the policy over a grid of configurations around the boundaries
`Load` accepts (`PolicyIsSound`); both are theorems for every word, text and configuration.

### Disagreements met while modelling

`moderation_unban` is checked as a run, and `findings` in `PROJECT.json` quotes the comment it
refutes. The others are visible in the model, and the properties say what the code gives instead:

* a sold key is answered with an error when the ban lookup fails (`gift/service.go:108`), where
  `doc/microservices/01-service-boundaries.md:238` promises the original result whatever the room's
  state; `SoldKeyIsNeverRefused` is about refusals, not about failing calls;
* after a failed produce the next event of the same room overtakes (`outbox/publisher.go:78`);
  `doc/contracts/event-catalog-v1.md:13` says the partition key guarantees a room's order;
* the consumer retries a failing record for ever (`mq/kafka.go:302`); EVENT-007
  (`doc/microservices/03-validation-and-boundary-tests.md:170`) speaks of a retry budget.
  `EveryRecordConsumed` holds because the fairness lets the publication succeed in the end, so it does
  not cover this;
* a like that read "not banned" before a ban stores it over the ban's cache entry
  (`like/service.go:132`), where the comment at `redis.go:173` says a ban overrides the cache at once;
  `BanTakesHold` says "in the end";
* a heartbeat that runs late sets an expiry older than the one promised (`redis.go:183`):
  `PromiseIsKept` allows it to take back as much as a call may be delayed, and no more;
* whether a viewer who returns after an expiry gets the old place or a new one depends on
  whether a touch or a count pruned it (`redis.go:185` and `270`): `PlaceIsAStart` allows both;
* `005_user_avatar.sql` cannot be repeated: a job that stops between its `ALTER TABLE` and the ledger
  row makes every later job fail until someone repairs it by hand; `JobsFinish` excepts `Wedged`;
* a job that stops between `REVOKE` and `GRANT` leaves a running service without privileges until
  the next one; `ServedUnlessInterrupted` excepts it;
* a danmaku the full buffer drops, or a crash takes along, was answered with success: `SuccessIsTrue`
  and `EventuallyArchived` except `lost`;
* disabling an account revokes no token, and a login that has read the account before still gets one:
  `LockedOutAfterTtl` allows a token's life, counted from when no such login is left;
* in a room without viewers the policy falls back to the fixed rate of its mode (`traffic/policy.go:90`),
  which may be lower than the adaptive one for a single viewer: `SamplingIsMonotone` is about rooms with
  viewers.

### Bounds

* `gift_order`: two handler executions and a credit, two users, two keys, and requests
  that retry, conflict, overdraw, exceed the count and overflow. Any property about a
  key or a wallet is about two transactions that meet on it; the theorems remove the bound.
* `outbox`: two events of one room, two publishers of which one may die, two faults.
* `gift_delivery`: two members, a log of three records (good, malformed, bad payload,
  copies included), two faults: a takeover, a zombie and a copy can all occur in one run.
* `gift_pipeline`: two events, one of them malformed, two publishers, one consumer process
  that restarts, one replay, one consumer fault.
* `moderation`: one user and two requests at a time, of every kind: every race is between
  a request and one other, and entries of different users share no key.
* `like_stats`: one room, up to three likes in counts of one and two, two faults: enough for a
  total to be checkpointed, lost, raised anew and recovered. `like_stats_live`: one like, one
  viewer coming and going, one fault.

* `danmaku`: two messages of two users, of which one is governed, a limit of one per two units of
  time, a buffer of one record, one change by the anchor, one crash of the consumer, texts with and
  without a word, an empty and a too long one, and pressures that cross both thresholds: each check meets a
  request that just passes and one that does not, and each can change between two reads. The buckets of
  the messages lie between the rates (10000, 5000, 2500, 1250) the pressures lead to, so either message is
  kept or dropped depending on the pressure it meets, also under more pressure than the other.
* `migrations`: three jobs and three files, of which one has a statement that cannot be repeated; one image
  has edited the last file and one lacks it; two accounts, three failures.
* `presence`: two viewers, a TTL of two and calls up to one late, five units of time: a viewer can
  expire, be pruned by either script and return. The viewers are symmetric.
* `accounts`: two requests at a time, one valid name in two spellings and one invalid, two valid
  passwords and one too short, tokens of two units in a time of five.

`CHECK_DEADLOCK FALSE` is set where the bounded system may come to rest: no more events,
faults or process lifetimes.

### Fairness

* handlers (`GiftOrder`, `Moderation`): weak fairness of the next step of a request being
  served; goroutines are scheduled, and calls have time-outs. No request needs to arrive.
* `Outbox`: weak fairness of the claim loop, the marks, leases and retry times;
  strong fairness of a successful produce, as Kafka accepts a record that is tried
  again and again. A worker in `Mortal` may die at any step, the others do not.
* `GiftDelivery`: the same for `Run`'s steps; strong fairness of a successful publication. Processes are restarted by the platform
  (`Join` is weakly fair).
* `LikeStats`: the aggregator's ticker goes on; Redis and Centrifugo answer a call
  that is made again and again (strong fairness of the successful reads and the
  broadcast); the TTL of the last published count runs out.
* `Danmaku`: the producer's client delivers each record or gives it up, the consumer's loop goes on.
  No request needs to end.
* `Migrations`: a job's calls end and a failed job is started again (`Run` is weakly fair); `GET_LOCK` is
  granted to a job that waits again and again (strong fairness of `Lock`), as MySQL queues the waiters.
  Failures without a cause in the model are bounded.

## 4. Proofs

TLAPS proves the following for every number of handlers, workers, members, events,
users and faults, from the named assumptions of the modules only. They say what the
configuration guarantees (`ValidConfig`, `ValidWindows`: what `Load` accepts; limits and windows are
positive) and what kind of value a constant is: files and service accounts are finitely many, an image
holds the first of the files, words and texts are sequences over the letters that have a lower case.
One assumption goes beyond `Load`: `Window > Ttl + MaxDelay`. `Load` only makes the window larger than the
TTL; that a call is delayed by less than the difference is up to whoever chooses the two (the defaults
leave a minute and a half), and without it a room with viewers can drop out of the index.
The strengthenings in `ModerationProofs`, `MigrationsProofs`, `DanmakuProofs` and `AccountsProofs` were found with TLC, which
checked them as invariants on small instances before they were proved.

**GiftOrderProofs.** The properties about tables are not inductive: they need what an
open transaction knows. `IndInv` conjoins `TypeOK`, `LedgerExplainsBalance` and

* `RequestChecked`: past the checks, a request is valid and its product fits;
* `KeyHeld`, `WalletHeld`, `WorkIsCurrent`, `CreditIsCurrent`: a transaction at its commit holds
  the key and the wallet row, so the key is still free of an order and the balance it
  computed from is still the balance;
* `KeyFree`, `OrderIsOfCall`, `CallHasOrder`: an order is that of the call that committed it, and a
  call that committed has it;
* `RowIsOfOrder`, `RowIsUnique`, `OrderHasRow`, `EventIsOfOrder`: ledger rows, orders and events
  correspond one to one;
* `RefusalIsPending`, `AnswerIsOrder`: what a call is about to answer, and has answered.

From it follow `TypeOK` (no negative balance), `LedgerExplainsBalance`, `NoDoubleCharge`,
`OrderChargeEventTogether`, `ExactAmounts`, `AnswersAreTrue`, the action property
`SoldKeyIsNeverRefused`, and the refinement `ImplementsSale`: the commit of an order or of a credit
is the abstract step, every other step stutters.

**GiftPipelineProofs.** Three parts over one set of variables, so that what is proved of the outbox and
of the consumer alone serves the composition as well.

* Outbox (`OutboxSpec`). `OutboxInd` adds to the properties that an idle publisher has an empty batch
  (`IdleIsEmpty`), that a produced event is in the log (`ProducedIsInLog`), that a publisher working on
  an event holds its row unless it was disturbed (`BatchIsHeld`), and that an event in the log is
  published, or still held by the publisher that produced it, or disturbed (`LoggedIsSettled`).
* Consumer (`DeliverySpec`). `DeliveryInd` has three layers: types and records; offsets (`OwnerIsNext`: the owner
  handles the record after the committed one; `CommitIsSettled`: a member about to commit has settled
  its record); copies (`WorkerHoldsRow`, `OneWorker`: unless disturbed, at most one member works on an
  event and it holds the dedup row; `SentIsSettled`). It is shown for any record that arrives, of
  whatever event and for whatever reason, not only for the arrivals of `GiftDelivery` itself.
* Pipeline (`Spec`). A produce and a replay are arrivals for the consumer, and to the outbox a consumer's
  step is a stutter; a replay only adds a record of an event that cannot be delivered, which no
  publisher's argument depends on. `PipelineInd` conjoins both invariants with what relates them: what
  is in a batch or on the topic is the event of a committed order (`BatchIsAccepted`, `LogIsAccepted`); a
  member past the parsing of its record knows whether it can be delivered (`StepFitsEvent`, hence
  `DeliveredFit` and `DeadLettersFit`); a copy on the topic is a fault's or a replay's
  (`TopicCopiesHaveACause`).

From `PipelineInd` follow the three parts of `PipelineInv` (`TopicCopiesHaveACause`,
`TopicCopiesAreAbsorbed` and `CaughtUpIsSettled`) and `PublishedIsInLog`, `OneHolder`, `NoSilentSkip` and
`ProcessedIsDelivered` under composition (`PipelineKeepsParts`). `CaughtUpIsSettled` says: once the group
has caught up, every published event was delivered if it can be, and is a dead letter if it cannot.
`PipelineKeepsPromise` is the safety half of the refinement of `EventDelivery`: `Insert` is `Accept`, a
publication `Deliver`, a dead letter `Bury`, and every other step stutters, replays too. The fairness
half of `DeliversEveryOrder` is left to the run.

**ModerationProofs.** `ModerationInv` is about what ended; `IndInv` adds what a governance request that is
still clean has done so far (`CleanBanHolds`, `CleanUnbanHolds`), that it is the only one of its user
(`CleanIsAlone`, `SettledIsQuiet`), and that while a ban that was not overtaken is stored no request of
the user is past its ban check (`NobodyIsPast`), so nobody undoes what the ban did.

**LikeStatsProofs.** A value a process has read and not yet used was true once, and what it is compared
with has only grown since: `SnapIsPast` for the aggregator, `SavedIsPast` for the snapshotter (unless
Redis lost its data in between), and `BroadcastIsSpent`: after a broadcast there is nothing left to give
back. `CheckpointNeverFalls` and `TotalNeverFalls` follow as action properties.

**PresenceProofs.** A call carries a time of the past (`ExpiryIsNear`), and the index entry is at most
`MaxDelay` older than any touch that ran before it (`IndexIsRecent`); as the window exceeds the TTL by more
than the delay, the aggregator drops the entry only after the last viewer has expired. A place is a start of a stay even while its
viewer is pruned (`PlaceOutlivesPruning`). `PromiseIsKept` follows from `ExpiryIsNear`: no promise reaches
further than `Ttl` from now, and no touch sets an expiry earlier than `Ttl - MaxDelay` from now.
`PlaceIsKept` is an action property. `RankingIsFirstCome` proves `FirstComeFirstListed`: an arrangement of the viewers lists every one of them (an injection between finite
sets of one size is onto), so the one that outranks stands before, and the cut at the limit keeps that.

**MigrationsProofs.** The advisory lock keeps all but one job out, so what a job found in the ledger still
holds when it acts on it: the files before its own are recorded (`EarlierAreRecorded`), its own is not,
and the statements it has left behind are applied (`FileIsOpen`). So the next statement extends the
prefix, and a recorded file is final. `FinishedHasGranted` is the safety half of `JobsFinish`: the accounts
a job has passed have their privileges, as nobody else revokes any while it holds the lock
(`PassedAreGranted`), so when it finishes all have.

**DanmakuProofs.** First the pure parts. `PolicyLowersRate` and `PolicyCapsFanout` hold for every
configuration `Load` accepts and all pressures: they rest on the monotonicity of the modes and on bounds
of the rounded-up quotient. (The attempt showed that `Mode`, written with `CASE`, left the value open
where both thresholds are reached; it is an `IF` now, as Go's `switch` takes the first case that holds.)
`FilterFindsWords`: the trie agrees with plain search. Then `IndInv`, in four independent layers:

* `BarsFound` and `ChecksPassed`: what has barred the author all along is in force, so each of the three
  reads finds its own; a step is reached only after the checks before it;
* `DecisionFollowed`: the steps after the decision follow it;
* `NothingIsSkipped`: a success is lost, buffered, archived or in the topic after the committed offset,
  and a record about to be committed is archived;
* `TriedOnce` and `WindowCounted`: a request meets the limiter once; a key counts what passed since its
  window began, the window began with a request, and what passed in the window's length before it is
  less than the limit. A span as long as a window therefore holds at most `limit` of the present window
  and `limit - 1` of the one before.

`DanmakuInv`, `LimiterIsRight`, `SuccessIsTrue` and `SamplingIsMonotone` follow.

**AccountsProofs.** What a request read before it answers is still true when it does, because a row never
changes: one about to be given a token holds the password of the row (`CallsAreSound`). Only the insert,
which the unique index lets succeed once, leads to the read that answers a registration, so at most one
request is ever there (`WonOnce`). A token lives `Ttl` from its issue, and no request of a disabled account
reaches the issue but one that was past the check; as long as there is one, `closedAt` follows the clock
(`LockedOut`). `AccountsInv`
and the action properties `OneAccountPerName` and `LockedOutAfterTtl` follow. `AccountsAssumption` says that
a hash is never the absence of a row; that two passwords do not verify against one hash is in
`VerifyPassword` (section 5).

Types, `OrderChargeEventTogether`, `ExactAmounts`, `OneHolder` and `ProcessedIsDelivered` are proved and
not repeated in the runs.

Only model-checked:

* liveness and everything under fairness (`EveryCallAnswered`, `EventuallyPublished`,
  `EveryRecordConsumed`, the fairness half of `DeliversEveryOrder`, `BanTakesHold`, `ClosedRoomEmpties`,
  `ScreenCatchesUp`, `EventuallyArchived`, `JobsFinish`), which the prover does not handle;
* `ScoreNeverOvercounts`: it compares a score with a sum over the orders of a user, and how such a sum
  changes when an order is added is an induction over data.

## 5. Not modelled

Left out for good: password hashing and token signatures (cryptography: `Accounts` takes them to do
what they promise), the gateway and the query service (they change no state; of the reads, only
the viewer ranking has an order worth checking), the identity client (its answers are choices in
the models), parsing of the configuration and of dead-letter files, observability, process wiring,
the web client, load tools and deployment. `roomStats` of the query service calls `s.rooms`, which
`NewQuery` leaves nil; that is a matter of wiring, which no module covers. A quiet room among more
active ones than the aggregator's batch takes is listed as a hazard without a property: no document
says what it is owed.

The answer of the ranking leaves out users whose profile cannot be read, after the cut, and keeps the
order of the rest; `TopViewers` is the ranking before that. Images of live-migrate that lack a file
in the middle of the others are not modelled.

Assumed: the replicas' clocks agree (`Presence`), MySQL, Redis scripts and Kafka partitions behave
as documented, rates do not depend on the rounding of `float64`.

Assumed as well: a Redis command takes effect at most once per call of the code. The client is made with
the default options (`internal/store/redisstore/redis.go:34`), and go-redis then sends a command again, up to
three times, when the connection fails before the reply is read. For commands that can be repeated
(`ZADD`, `SET`, `DEL`, the touch) nothing changes. The others could take effect twice after a lost reply:
the `ZINCRBY` of a gift score, the scripts that add likes or give an increment back, the limiter's script,
and `GETDEL`, whose second run finds nothing and so loses the increment of the first. `ScoreNeverOvercounts`,
`LikesConserved`, `LikeStatsInv` and `LimiterIsRight` are about a client that does not resend; a lost reply
itself, after which the call fails, is modelled.

## 6. Plan

Done: the money path, its pipeline, their composition and their proofs; moderation, likes and
statistics; presence, danmaku with policy, filter and limiter, migrations, accounts.

The proofs cover every component with a safety property of its own, and the composition of the
gift pipeline down to its abstract specification. What is left of the invariants is listed at the end
of section 4, with the reason.

Open: a property for each of the three hazards without one (the order of a room's events after a
failed produce; a record whose publication never succeeds; a quiet room among more active ones than the
batch takes), once the project says what is owed there; and the resending Redis client of section 5.
