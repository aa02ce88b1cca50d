------------------------------- MODULE Outbox -------------------------------
(***************************************************************************)
(* The transactional outbox between MySQL and Kafka: outbox.Repository and *)
(* outbox.Publisher, run by any number of live-worker processes.           *)
(*                                                                         *)
(* An event is its outbox_events.id.  A member of Workers is one process   *)
(* lifetime: worker main draws a fresh workerID whenever it starts, so a   *)
(* restart is another member.  Clocks are left out: a lease may expire at  *)
(* any time (locked_at is the database's clock, the cutoff the worker's),  *)
(* and retryDelay becomes a flag that turns true some time later.          *)
(*                                                                         *)
(* OutboxFault counts what makes a copy of an event possible (a lease lost *)
(* while its holder still works, an error reported for something that      *)
(* happened, an update that fails); MaxOutboxFaults bounds it.             *)
(* outboxDisturbed records, for the properties only, the events these      *)
(* happened to.                                                            *)
(***************************************************************************)
EXTENDS GiftTopic, FiniteSets

CONSTANTS
    Workers,     \* worker process lifetimes
    Mortal,      \* the lifetimes that may end in a crash
    BatchSize,   \* Outbox.BatchSize
    MaxOutboxFaults,
    NoWorker

ASSUME OutboxAssumption ==
    /\ Events \subseteq Nat
    /\ Mortal \subseteq Workers
    /\ BatchSize \in Nat \ {0}
    /\ MaxOutboxFaults \in Nat
    /\ NoWorker \notin Workers

VARIABLES
    status,      \* "absent", or 0 = pending, 1 = published, 2 = claimed
    lockedBy,    \* locked_by
    expired,     \* locked_at is older than the lease
    due,         \* next_retry_at has passed
    wpc,         \* where each publisher is in dispatch
    batch,       \* the claimed events it has not finished
    outboxFaults, outboxDisturbed

rowVars == <<status, lockedBy, expired, due>>
outboxVars == <<rowVars, wpc, batch, outboxFaults, outboxDisturbed>>
publisherVars == <<outboxVars, log>>

Statuses == {"absent", "pending", "published", "claimed"}

OutboxInit ==
    /\ status = [e \in Events |-> "absent"]
    /\ lockedBy = [e \in Events |-> NoWorker]
    /\ expired = [e \in Events |-> FALSE]
    /\ due = [e \in Events |-> FALSE]
    /\ wpc = [w \in Workers |-> "new"]
    /\ batch = [w \in Workers |-> {}]
    /\ log = <<>>
    /\ outboxFaults = 0
    /\ outboxDisturbed = {}

-----------------------------------------------------------------------------
\* The event a publisher is working on: batches are processed in id order.
IsCurrent(w, e) == e \in batch[w] /\ \A f \in batch[w] : e <= f

\* Mutant: the claim query does not take over stale claims.
Claimable_NoTakeover == {e \in Events : status[e] = "pending" /\ due[e]}

\* Rows the claim query selects.
Claimable ==
    {e \in Events : \/ status[e] = "pending" /\ due[e]
                    \/ status[e] = "claimed" /\ expired[e]}

\* ORDER BY id LIMIT batch.
FirstById(S) == {e \in S : Cardinality({f \in S : f < e}) < BatchSize}

\* Mutant: the updates are conditional on the id alone.
Holds_Always(w, e) == TRUE

Holds(w, e) == status[e] = "claimed" /\ lockedBy[e] = w

OutboxFault(S) ==
    /\ outboxFaults < MaxOutboxFaults
    /\ outboxFaults' = outboxFaults + 1
    /\ outboxDisturbed' = outboxDisturbed \cup S

NoOutboxFault == UNCHANGED <<outboxFaults, outboxDisturbed>>

Unlock(e, to) ==
    /\ status' = [status EXCEPT ![e] = to]
    /\ lockedBy' = [lockedBy EXCEPT ![e] = NoWorker]
    /\ expired' = [expired EXCEPT ![e] = FALSE]

\* The next event of the batch, or the end of dispatch.
Advance(w, e) ==
    /\ batch' = [batch EXCEPT ![w] = @ \ {e}]
    /\ wpc' = [wpc EXCEPT ![w] = IF batch[w] = {e} THEN "idle" ELSE "produce"]

-----------------------------------------------------------------------------
\* gift.Repository.Create commits: the row appears, due at once.
Insert(e) ==
    /\ status[e] = "absent"
    /\ status' = [status EXCEPT ![e] = "pending"]
    /\ due' = [due EXCEPT ![e] = TRUE]
    /\ UNCHANGED <<lockedBy, expired, wpc, batch, log, outboxFaults, outboxDisturbed>>

\* worker main starts the publisher.
Start(w) ==
    /\ wpc[w] = "new"
    /\ wpc' = [wpc EXCEPT ![w] = "idle"]
    /\ UNCHANGED <<rowVars, batch, log, outboxFaults, outboxDisturbed>>

ClaimRows(w, S) ==
    /\ status' = [e \in Events |-> IF e \in S THEN "claimed" ELSE status[e]]
    /\ lockedBy' = [e \in Events |-> IF e \in S THEN w ELSE lockedBy[e]]
    /\ expired' = [e \in Events |-> IF e \in S THEN FALSE ELSE expired[e]]
    /\ UNCHANGED due

\* Repository.Claim at the head of dispatch.
Claim(w) ==
    /\ wpc[w] = "idle"
    /\ Claimable # {}
    /\ ClaimRows(w, FirstById(Claimable))
    /\ batch' = [batch EXCEPT ![w] = FirstById(Claimable)]
    /\ wpc' = [wpc EXCEPT ![w] = "produce"]
    /\ NoOutboxFault
    /\ UNCHANGED log

\* The claim commits but reports an error: dispatch returns, the rows stay
\* claimed by a worker that does not know of them.
ClaimLost(w) ==
    /\ wpc[w] = "idle"
    /\ Claimable # {}
    /\ ClaimRows(w, FirstById(Claimable))
    /\ OutboxFault({})
    /\ UNCHANGED <<wpc, batch, log>>

\* Mutant: the record is handed to the client and not awaited.
Produce_NotAwaited(w, e) ==
    /\ wpc[w] = "produce"
    /\ IsCurrent(w, e)
    /\ wpc' = [wpc EXCEPT ![w] = "produced"]
    /\ UNCHANGED <<rowVars, batch, log, outboxFaults, outboxDisturbed>>

\* ProduceSync is acknowledged.
Produce(w, e) ==
    /\ wpc[w] = "produce"
    /\ IsCurrent(w, e)
    /\ log' = Append(log, e)
    /\ wpc' = [wpc EXCEPT ![w] = "produced"]
    /\ UNCHANGED <<rowVars, batch, outboxFaults, outboxDisturbed>>

\* ProduceSync reports an error or times out.  Kafka may have the record.
ProduceFailed(w, e) ==
    /\ wpc[w] = "produce"
    /\ IsCurrent(w, e)
    /\ wpc' = [wpc EXCEPT ![w] = "failed"]
    /\ \/ NoOutboxFault /\ UNCHANGED log
       \/ OutboxFault({e}) /\ log' = Append(log, e)
    /\ UNCHANGED <<rowVars, batch>>

\* Mutant: the success path puts the row back to pending.
MarkPublished_Requeues(w, e) ==
    /\ wpc[w] = "produced"
    /\ IsCurrent(w, e)
    /\ IF Holds(w, e)
         THEN Unlock(e, "pending") /\ UNCHANGED due
         ELSE UNCHANGED rowVars
    /\ Advance(w, e)
    /\ NoOutboxFault
    /\ UNCHANGED log

\* Repository.MarkPublished, conditional on still holding the claim; on "lock
\* lost" dispatch only logs and goes on.
MarkPublished(w, e) ==
    /\ wpc[w] = "produced"
    /\ IsCurrent(w, e)
    /\ IF Holds(w, e)
         THEN Unlock(e, "published") /\ UNCHANGED due
         ELSE UNCHANGED rowVars
    /\ Advance(w, e)
    /\ NoOutboxFault
    /\ UNCHANGED log

\* Repository.MarkFailed, under the same condition: back to pending, due after
\* retryDelay.
MarkFailed(w, e) ==
    /\ wpc[w] = "failed"
    /\ IsCurrent(w, e)
    /\ IF Holds(w, e)
         THEN Unlock(e, "pending") /\ due' = [due EXCEPT ![e] = FALSE]
         ELSE UNCHANGED rowVars
    /\ Advance(w, e)
    /\ NoOutboxFault
    /\ UNCHANGED log

\* Either update fails in the database: the row stays claimed.
MarkError(w, e) ==
    /\ wpc[w] \in {"produced", "failed"}
    /\ IsCurrent(w, e)
    /\ Advance(w, e)
    /\ OutboxFault({e})
    /\ UNCHANGED <<rowVars, log>>

\* The lease of a claim runs out.  While its holder is still in its batch this
\* is the fault that lets a second worker take the event over.
ClaimExpires(e) ==
    /\ status[e] = "claimed"
    /\ ~expired[e]
    /\ expired' = [expired EXCEPT ![e] = TRUE]
    /\ IF \E w \in Workers : lockedBy[e] = w /\ e \in batch[w] THEN OutboxFault({e}) ELSE NoOutboxFault
    /\ UNCHANGED <<status, lockedBy, due, wpc, batch, log>>

RetryDue(e) ==
    /\ status[e] = "pending"
    /\ ~due[e]
    /\ due' = [due EXCEPT ![e] = TRUE]
    /\ UNCHANGED <<status, lockedBy, expired, wpc, batch, log, outboxFaults, outboxDisturbed>>

\* The process dies, or worker main stops it because a sibling component failed.
PublisherCrash(w) ==
    /\ w \in Mortal
    /\ wpc[w] \notin {"new", "down"}
    /\ wpc' = [wpc EXCEPT ![w] = "down"]
    /\ batch' = [batch EXCEPT ![w] = {}]
    /\ outboxDisturbed' = outboxDisturbed \cup batch[w]
    /\ UNCHANGED <<rowVars, log, outboxFaults>>

-----------------------------------------------------------------------------
Dispatch(w) ==
    \/ Start(w) \/ Claim(w) \/ ClaimLost(w)
    \/ \E e \in Events : \/ Produce(w, e) \/ ProduceFailed(w, e) \/ MarkPublished(w, e)
                         \/ MarkFailed(w, e) \/ MarkError(w, e)

OutboxNext ==
    \/ \E w \in Workers : Dispatch(w) \/ PublisherCrash(w)
    \/ \E e \in Events : Insert(e) \/ ClaimExpires(e) \/ RetryDue(e)

OutboxSpec == OutboxInit /\ [][OutboxNext]_publisherVars

\* Run dispatches again every interval and a process that has not crashed keeps
\* going; time passes; Kafka accepts an event that is offered for ever.
OutboxFairness ==
    /\ \A w \in Workers :
         /\ WF_publisherVars(Start(w))
         /\ WF_publisherVars(Claim(w))
         /\ \A e \in Events : /\ SF_publisherVars(Produce(w, e))
                              /\ WF_publisherVars(ProduceFailed(w, e) \/ Produce(w, e))
                              /\ WF_publisherVars(MarkPublished(w, e))
                              /\ WF_publisherVars(MarkFailed(w, e))
    /\ \A e \in Events : WF_publisherVars(ClaimExpires(e)) /\ WF_publisherVars(RetryDue(e))

OutboxFairSpec == OutboxSpec /\ OutboxFairness

-----------------------------------------------------------------------------
(* Properties *)

OutboxTypeOK ==
    /\ status \in [Events -> Statuses]
    /\ lockedBy \in [Events -> Workers \cup {NoWorker}]
    /\ expired \in [Events -> BOOLEAN]
    /\ due \in [Events -> BOOLEAN]
    /\ wpc \in [Workers -> {"new", "idle", "produce", "produced", "failed", "down"}]
    /\ batch \in [Workers -> SUBSET Events]
    /\ log \in Seq(Events)
    /\ outboxFaults \in 0..MaxOutboxFaults
    /\ outboxDisturbed \subseteq Events
    /\ \A e \in Events : status[e] = "claimed" <=> lockedBy[e] # NoWorker

InLog(e) == \E i \in 1..Len(log) : log[i] = e

\* A row is marked published only when Kafka has the event: no order of
\* takeovers, late marks and crashes loses one.
PublishedIsInLog == \A e \in Events : status[e] = "published" => InLog(e)

\* A published row stays published: a worker that lost its lease and then
\* fails cannot put the event back to pending.
NeverUnpublished ==
    [][\A e \in Events : status[e] = "published" => status'[e] = "published"]_publisherVars

\* SKIP LOCKED and the claim mark give an event to one worker at a time; only
\* a lease lost under a working holder puts it in two batches.
OneHolder ==
    \A e \in Events : \A v, w \in Workers :
        e \in batch[v] /\ e \in batch[w] /\ v # w => e \in outboxDisturbed

\* Delivery to Kafka is at least once, and a copy has a cause: an event nothing
\* happened to is in the log once.
CopiesHaveACause ==
    \A i, j \in 1..Len(log) : i # j /\ log[i] = log[j] => log[i] \in outboxDisturbed

\* Every committed event reaches Kafka and is marked, whoever crashed on it.
EventuallyPublished ==
    \A e \in Events : status[e] = "pending" ~> status[e] = "published"
=============================================================================
