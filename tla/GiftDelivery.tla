---------------------------- MODULE GiftDelivery ----------------------------
(***************************************************************************)
(* From the gift topic to the room's realtime channel: mq.Consumer.Run,    *)
(* gift.ConsumerHandler.Handle, eventdedup.Store and the dead-letter       *)
(* topic, for one partition (the partition key keeps every copy of an      *)
(* event in one) and the members of the consumer group.                    *)
(*                                                                         *)
(* A member polls records from the committed offset, handles them one      *)
(* after another and commits each.  A process that stops (a crash, or Run  *)
(* returning an error) is started again with nothing but the tables: the   *)
(* dedup rows do not say who holds them.  While a poll is being handled    *)
(* the client blocks rebalances; after RebalanceTimeout the broker takes   *)
(* the partition away all the same and the old owner goes on as a zombie   *)
(* until its commit is fenced.                                             *)
(*                                                                         *)
(* Begin, Done and Fail of the store are one transaction each on one row,  *)
(* hence one step.  A lease may expire at any time.  Copies counts what    *)
(* the channel received; the faults that may cause a second one are        *)
(* bounded by MaxDeliveryFaults and remembered in deliveryDisturbed.       *)
(***************************************************************************)
EXTENDS GiftTopic

CONSTANTS
    Malformed,   \* events whose record Handle cannot decode or validate
    BadPayload,  \* events with a valid envelope and an invalid gift payload
    Members,     \* consumer processes
    MaxLog,      \* bound on the records of the partition
    MaxDeliveryFaults,
    NoMember

ASSUME GiftDeliveryAssumption ==
    /\ Malformed \subseteq Events
    /\ BadPayload \subseteq Events
    /\ Malformed \cap BadPayload = {}
    /\ MaxLog \in Nat
    /\ MaxDeliveryFaults \in Nat
    /\ NoMember \notin Members

VARIABLES
    committed,   \* the group's committed offset: records 1..committed are done with
    owner,       \* the member the partition is assigned to
    mpc,         \* where each member is in Run and Handle
    pos,         \* the record it is handling
    processed,   \* processed_events.status: "absent", "open" (0), "done" (1)
    locked,      \* locked_at is set
    stale,       \* locked_at is older than the lease
    copies,      \* realtime publications of each event
    dlq,         \* offsets written to the dead-letter topic
    deliveryFaults, deliveryDisturbed

dedupVars == <<processed, locked, stale>>
deliveryVars == <<committed, owner, mpc, pos, dedupVars, copies, dlq, deliveryFaults, deliveryDisturbed>>
groupVars == <<log, deliveryVars>>

Steps == {"new", "poll", "begin", "publish", "fail", "reject", "done", "dead", "commit"}

\* The steps between a poll and AllowRebalance.
Handling == {"begin", "publish", "fail", "reject", "done", "dead", "commit"}

DeliveryInit ==
    /\ log = <<>>
    /\ committed = 0
    /\ owner = NoMember
    /\ mpc = [m \in Members |-> "new"]
    /\ pos = [m \in Members |-> 0]
    /\ processed = [e \in Events |-> "absent"]
    /\ locked = [e \in Events |-> FALSE]
    /\ stale = [e \in Events |-> FALSE]
    /\ copies = [e \in Events |-> 0]
    /\ dlq = {}
    /\ deliveryFaults = 0
    /\ deliveryDisturbed = {}

-----------------------------------------------------------------------------
Goto(m, step) == mpc' = [mpc EXCEPT ![m] = step]

\* The event of the record m is handling.
Current(m) == log[pos[m]]

DeliveryFault(S) ==
    /\ deliveryFaults < MaxDeliveryFaults
    /\ deliveryFaults' = deliveryFaults + 1
    /\ deliveryDisturbed' = deliveryDisturbed \cup S

NoDeliveryFault == UNCHANGED <<deliveryFaults, deliveryDisturbed>>

\* locked_at = NULL, and the row's status.
Release(e, to) ==
    /\ processed' = [processed EXCEPT ![e] = to]
    /\ locked' = [locked EXCEPT ![e] = FALSE]
    /\ stale' = [stale EXCEPT ![e] = FALSE]

\* locked_at = NOW(3) on an open row.
Acquire(e) ==
    /\ processed' = [processed EXCEPT ![e] = "open"]
    /\ locked' = [locked EXCEPT ![e] = TRUE]
    /\ stale' = [stale EXCEPT ![e] = FALSE]

Working(e) == \E m \in Members : mpc[m] \in {"publish", "fail", "reject", "done"} /\ Current(m) = e

-----------------------------------------------------------------------------
\* A record reaches the partition: from the outbox, a copy of it, or from
\* dlq-replay, which sends the original key and value again.
Append1(e) ==
    /\ Len(log) < MaxLog
    /\ log' = Append(log, e)
    /\ UNCHANGED deliveryVars

\* NewConsumer joins the group.
Join(m) ==
    /\ mpc[m] = "new"
    /\ Goto(m, "poll")
    /\ UNCHANGED <<log, committed, owner, pos, dedupVars, copies, dlq, deliveryFaults, deliveryDisturbed>>

\* The coordinator gives the partition of a member that is gone to another.
Assign(m) ==
    /\ mpc[m] = "poll"
    /\ owner \in Members => mpc[owner] = "new"
    /\ owner' = m
    /\ UNCHANGED <<log, committed, mpc, pos, dedupVars, copies, dlq, deliveryFaults, deliveryDisturbed>>

\* A rebalance moves the partition of a live member: between two polls, or
\* after RebalanceTimeout while its owner is still handling a record.
Rebalance(m) ==
    /\ mpc[m] = "poll"
    /\ owner \in Members \ {m}
    /\ mpc[owner] # "new"
    /\ DeliveryFault({})
    /\ owner' = m
    /\ UNCHANGED <<log, committed, mpc, pos, dedupVars, copies, dlq>>

\* PollRecords: handling starts at the committed offset.
Poll(m) ==
    /\ mpc[m] = "poll"
    /\ owner = m
    /\ committed < Len(log)
    /\ pos' = [pos EXCEPT ![m] = committed + 1]
    /\ Goto(m, "begin")
    /\ UNCHANGED <<log, committed, owner, dedupVars, copies, dlq, deliveryFaults, deliveryDisturbed>>

\* Mutant: the lock of another consumer is ignored.
Begin_IgnoresLock(m) ==
    LET e == Current(m) IN
    /\ mpc[m] = "begin"
    /\ processed[e] # "done"
    /\ Acquire(e)
    /\ Goto(m, "publish")
    /\ UNCHANGED <<log, committed, owner, pos, copies, dlq, deliveryFaults, deliveryDisturbed>>

\* Mutant: the lock alone is looked at, not whether the event is processed.
Begin_Reprocesses(m) ==
    LET e == Current(m) IN
    /\ mpc[m] = "begin"
    /\ ~locked[e] \/ stale[e]
    /\ Acquire(e)
    /\ Goto(m, "publish")
    /\ UNCHANGED <<log, committed, owner, pos, copies, dlq, deliveryFaults, deliveryDisturbed>>

\* Mutant: an event somebody else is working on counts as processed.
Begin_BusyIsDone(m) ==
    LET e == Current(m) IN
    /\ mpc[m] = "begin"
    /\ \/ /\ processed[e] = "done" \/ locked[e]
          /\ Goto(m, "commit")
          /\ UNCHANGED dedupVars
       \/ /\ processed[e] # "done" /\ ~locked[e]
          /\ Acquire(e)
          /\ Goto(m, "publish")
    /\ UNCHANGED <<log, committed, owner, pos, copies, dlq, deliveryFaults, deliveryDisturbed>>

\* Mutant: a lock is never taken over.
Begin_NoTakeover(m) ==
    LET e == Current(m) IN
    /\ mpc[m] = "begin"
    /\ \/ /\ e \in Malformed
          /\ Goto(m, "dead")
          /\ UNCHANGED dedupVars
       \/ /\ e \notin Malformed
          /\ processed[e] = "done"
          /\ Goto(m, "commit")
          /\ UNCHANGED dedupVars
       \/ /\ e \notin Malformed
          /\ processed[e] # "done"
          /\ ~locked[e]
          /\ Acquire(e)
          /\ Goto(m, IF e \in BadPayload THEN "reject" ELSE "publish")
    /\ UNCHANGED <<log, committed, owner, pos, copies, dlq, deliveryFaults, deliveryDisturbed>>

\* Handle decodes the envelope; an undecodable record is permanent.  Otherwise
\* Store.Begin: processed already, busy (Run tries again a second later), or
\* the lock is taken.
Begin(m) ==
    LET e == Current(m) IN
    /\ mpc[m] = "begin"
    /\ \/ /\ e \in Malformed
          /\ Goto(m, "dead")
          /\ UNCHANGED dedupVars
       \/ /\ e \notin Malformed
          /\ processed[e] = "done"
          /\ Goto(m, "commit")
          /\ UNCHANGED dedupVars
       \/ /\ e \notin Malformed
          /\ processed[e] # "done"
          /\ ~locked[e] \/ stale[e]
          /\ Acquire(e)
          /\ Goto(m, IF e \in BadPayload THEN "reject" ELSE "publish")
    /\ UNCHANGED <<log, committed, owner, pos, copies, dlq, deliveryFaults, deliveryDisturbed>>

\* Begin commits its lock but reports an error: Run retries and finds it busy.
BeginLost(m) ==
    LET e == Current(m) IN
    /\ mpc[m] = "begin"
    /\ e \notin Malformed
    /\ processed[e] # "done"
    /\ ~locked[e] \/ stale[e]
    /\ Acquire(e)
    /\ DeliveryFault({})
    /\ UNCHANGED <<log, committed, owner, mpc, pos, copies, dlq>>

\* An invalid payload: Fail must release the row before the record is permanent;
\* if it cannot, Run retries the record.  An update that finds the row released
\* already, with the same last_error, changes no row, which Fail takes for a
\* lost lock.
Reject(m) ==
    LET e == Current(m) IN
    /\ mpc[m] = "reject"
    /\ \/ /\ processed[e] = "open"
          /\ Release(e, "open")
          /\ Goto(m, "dead")
          /\ NoDeliveryFault
       \/ /\ processed[e] # "open" \/ ~locked[e]
          /\ Goto(m, "begin")
          /\ UNCHANGED dedupVars
          /\ NoDeliveryFault
       \/ /\ Goto(m, "begin")
          /\ UNCHANGED dedupVars
          /\ DeliveryFault({e})
    /\ UNCHANGED <<log, committed, owner, pos, copies, dlq>>

\* Publish to the room channel succeeds.
Publish(m) ==
    LET e == Current(m) IN
    /\ mpc[m] = "publish"
    /\ copies' = [copies EXCEPT ![e] = @ + 1]
    /\ Goto(m, "done")
    /\ UNCHANGED <<log, committed, owner, pos, dedupVars, dlq, deliveryFaults, deliveryDisturbed>>

\* Publish fails; an error may hide a message that went out.
PublishFailed(m) ==
    LET e == Current(m) IN
    /\ mpc[m] = "publish"
    /\ Goto(m, "fail")
    /\ \/ NoDeliveryFault /\ UNCHANGED copies
       \/ DeliveryFault({e}) /\ copies' = [copies EXCEPT ![e] = @ + 1]
    /\ UNCHANGED <<log, committed, owner, pos, dedupVars, dlq>>

\* Store.Fail gives the row back (whoever holds it); its error is ignored and
\* Run retries the record.
FailRecord(m) ==
    LET e == Current(m) IN
    /\ mpc[m] = "fail"
    /\ Goto(m, "begin")
    /\ \/ /\ processed[e] = "open"
          /\ Release(e, "open")
          /\ NoDeliveryFault
       \/ /\ processed[e] # "open"
          /\ UNCHANGED dedupVars
          /\ NoDeliveryFault
       \/ UNCHANGED dedupVars /\ DeliveryFault({e})
    /\ UNCHANGED <<log, committed, owner, pos, copies, dlq>>

\* Store.Done, without a check of who holds the row.  When it fails the record
\* is retried although the message is out.
Done(m) ==
    LET e == Current(m) IN
    /\ mpc[m] = "done"
    /\ \/ /\ Release(e, "done")
          /\ Goto(m, "commit")
          /\ NoDeliveryFault
       \/ /\ UNCHANGED dedupVars
          /\ Goto(m, "begin")
          /\ DeliveryFault({e})
    /\ UNCHANGED <<log, committed, owner, pos, copies, dlq>>

\* Mutant: the offset is committed although the dead-letter write failed.
DeadLetter_CommitsAnyway(m) ==
    /\ mpc[m] = "dead"
    /\ dlq' \in {dlq, dlq \cup {pos[m]}}
    /\ Goto(m, "commit")
    /\ UNCHANGED <<log, committed, owner, pos, dedupVars, copies, deliveryFaults, deliveryDisturbed>>

\* A permanent record goes to the dead-letter topic before its offset can be
\* committed.  If the write fails Run returns and the process stops, the write
\* itself perhaps done.
DeadLetter(m) ==
    /\ mpc[m] = "dead"
    /\ \/ /\ dlq' = dlq \cup {pos[m]}
          /\ Goto(m, "commit")
          /\ NoDeliveryFault
       \/ /\ dlq' \in {dlq, dlq \cup {pos[m]}}
          /\ Goto(m, "new")
          /\ DeliveryFault({})
    /\ UNCHANGED <<log, committed, owner, pos, dedupVars, copies>>

\* Mutant: the commit of a member that lost the partition is not fenced.
CommitRecord_NotFenced(m) ==
    /\ mpc[m] = "commit"
    /\ committed' = pos[m]
    /\ Goto(m, "poll")
    /\ UNCHANGED <<log, owner, pos, dedupVars, copies, dlq, deliveryFaults, deliveryDisturbed>>

\* CommitRecords succeeds for the owner; Run goes on with the next record of
\* the poll or allows a rebalance and polls again.
CommitRecord(m) ==
    /\ mpc[m] = "commit"
    /\ owner = m
    /\ committed' = pos[m]
    /\ \/ Goto(m, "poll") /\ UNCHANGED pos
       \/ /\ pos[m] < Len(log)
          /\ pos' = [pos EXCEPT ![m] = @ + 1]
          /\ Goto(m, "begin")
    /\ UNCHANGED <<log, owner, dedupVars, copies, dlq, deliveryFaults, deliveryDisturbed>>

\* The commit of a member that lost the partition is fenced, or any commit
\* fails (the broker perhaps having it): Run returns the error and the worker
\* stops.
CommitFailed(m) ==
    /\ mpc[m] = "commit"
    /\ \/ owner # m /\ NoDeliveryFault /\ UNCHANGED committed
       \/ owner = m /\ DeliveryFault({}) /\ committed' \in {committed, pos[m]}
    /\ Goto(m, "new")
    /\ UNCHANGED <<log, owner, pos, dedupVars, copies, dlq>>

\* The lease of a dedup row runs out, a fault while someone works under it.
LockExpires(e) ==
    /\ locked[e]
    /\ ~stale[e]
    /\ stale' = [stale EXCEPT ![e] = TRUE]
    /\ IF Working(e) THEN DeliveryFault({e}) ELSE NoDeliveryFault
    /\ UNCHANGED <<log, committed, owner, mpc, pos, processed, locked, copies, dlq>>

\* The process dies or is stopped, and is started again.
ConsumerCrash(m) ==
    /\ mpc[m] # "new"
    /\ DeliveryFault(IF mpc[m] = "done" THEN {Current(m)} ELSE {})
    /\ Goto(m, "new")
    /\ UNCHANGED <<log, committed, owner, pos, dedupVars, copies, dlq>>

-----------------------------------------------------------------------------
Consume(m) ==
    \/ Join(m) \/ Assign(m) \/ Rebalance(m) \/ Poll(m) \/ Begin(m) \/ BeginLost(m)
    \/ Reject(m) \/ Publish(m) \/ PublishFailed(m) \/ FailRecord(m) \/ Done(m)
    \/ DeadLetter(m) \/ CommitRecord(m) \/ CommitFailed(m) \/ ConsumerCrash(m)

DeliveryNext ==
    \/ \E m \in Members : Consume(m)
    \/ \E e \in Events : LockExpires(e)

DeliveryWithArrivals == DeliveryNext \/ \E e \in Events : Append1(e)

DeliverySpec == DeliveryInit /\ [][DeliveryWithArrivals]_groupVars

\* Run loops for ever, a stopped worker is started again, the coordinator
\* assigns, time passes, and Centrifugo accepts what is offered for ever.
DeliveryFairness ==
    /\ \A m \in Members :
         /\ WF_groupVars(Join(m)) /\ WF_groupVars(Assign(m)) /\ WF_groupVars(Poll(m)) /\ WF_groupVars(Begin(m))
         /\ WF_groupVars(Reject(m)) /\ WF_groupVars(Publish(m) \/ PublishFailed(m)) /\ SF_groupVars(Publish(m))
         /\ WF_groupVars(FailRecord(m)) /\ WF_groupVars(Done(m)) /\ WF_groupVars(DeadLetter(m))
         /\ WF_groupVars(CommitRecord(m) \/ CommitFailed(m))
    /\ \A e \in Events : WF_groupVars(LockExpires(e))

DeliveryFairSpec == DeliverySpec /\ DeliveryFairness

-----------------------------------------------------------------------------
(* Properties *)

DeliveryTypeOK ==
    /\ log \in Seq(Events)
    /\ committed \in 0..Len(log)
    /\ owner \in Members \cup {NoMember}
    /\ mpc \in [Members -> Steps]
    /\ pos \in [Members -> 0..Len(log)]
    /\ processed \in [Events -> {"absent", "open", "done"}]
    /\ locked \in [Events -> BOOLEAN]
    /\ stale \in [Events -> BOOLEAN]
    /\ copies \in [Events -> Nat]
    /\ dlq \subseteq 1..Len(log)
    /\ deliveryFaults \in 0..MaxDeliveryFaults
    /\ deliveryDisturbed \subseteq Events
    /\ \A e \in Events : locked[e] => processed[e] = "open"

\* No record is skipped: an offset is committed only when its event is marked
\* processed or its record is in the dead-letter topic, whoever crashed, lost
\* the partition or committed late.
NoSilentSkip ==
    \A i \in 1..committed : processed[log[i]] = "done" \/ i \in dlq

\* An event is marked processed only when the room has received it.
ProcessedIsDelivered == \A e \in Events : processed[e] = "done" => copies[e] > 0

\* The group's offset never moves back: a zombie cannot undo its successor.
OffsetOnlyAdvances == [][committed' >= committed]_groupVars

\* However many copies of an event the partition holds, the room receives it
\* once unless something happened to it: a lease that ran out under its
\* holder, a crash or a failed Done after the message went out, an error that
\* hid a delivery.
DeliveredOnceUnlessDisturbed ==
    \A e \in Events : copies[e] > 1 => e \in deliveryDisturbed

\* Every record is eventually done with: delivered, found processed already, or
\* dead-lettered.  No crash, zombie or abandoned lock stops the partition.
EveryRecordConsumed ==
    \A i \in 1..MaxLog : (Len(log) >= i) ~> (committed >= i)
=============================================================================
