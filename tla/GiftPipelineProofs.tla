------------------------- MODULE GiftPipelineProofs -------------------------
(***************************************************************************)
(* Proofs about the gift pipeline and its two halves, for any events,      *)
(* publishers, group members and number of faults and replays.  The        *)
(* theorems of a half are about OutboxSpec or DeliverySpec, each alone     *)
(* with its own environment, the pipeline's about Spec.                    *)
(*                                                                         *)
(* Outbox: an event to which nothing untoward happened is in the batch of  *)
(* at most one publisher, which holds its row under a live lease           *)
(* (BatchIsHeld), so a claim cannot take it away; and once it is in Kafka  *)
(* its row is published or its holder is about to publish it               *)
(* (LoggedIsSettled), so nobody produces it again.                         *)
(*                                                                         *)
(* Consumer, offsets: only the owner of the partition commits, and it is   *)
(* always at the record after the committed one (OwnerIsNext), which it    *)
(* commits once the event is marked or dead-lettered (CommitIsSettled).    *)
(* Consumer, copies: an undisturbed event has at most one member working   *)
(* on it, which holds the dedup row under a live lease (WorkerHoldsRow,    *)
(* OneWorker), and once it is out it is marked or about to be              *)
(* (SentIsSettled), so nobody sends it again.  Neither argument asks who   *)
(* put a record on the partition, or why (Arrival).                        *)
(*                                                                         *)
(* Pipeline: what is on the topic belongs to a committed order             *)
(* (LogIsAccepted, BatchIsAccepted), and a member is at the step its       *)
(* record calls for (StepFitsEvent); so every step is a step of            *)
(* EventDelivery or stutters.                                              *)
(***************************************************************************)
EXTENDS GiftPipeline, TLAPS

-----------------------------------------------------------------------------
(* The outbox *)

Idle == {"new", "idle", "down"}

\* A publisher outside dispatch has no batch.
IdleIsEmpty == \A w \in Workers : wpc[w] \in Idle => batch[w] = {}

\* What a publisher is about to mark as published is in Kafka.
ProducedIsInLog ==
    \A w \in Workers, e \in Events : wpc[w] = "produced" /\ IsCurrent(w, e) => InLog(e)

\* An undisturbed event of a batch belongs to the publisher, lease and all.
BatchIsHeld ==
    \A w \in Workers : \A e \in batch[w] :
        e \notin outboxDisturbed => status[e] = "claimed" /\ lockedBy[e] = w /\ ~expired[e]

\* An undisturbed event in Kafka is marked, or its holder is about to mark it.
LoggedIsSettled ==
    \A e \in Events : InLog(e) /\ e \notin outboxDisturbed =>
        \/ status[e] = "published"
        \/ \E w \in Workers : wpc[w] = "produced" /\ IsCurrent(w, e)

OutboxInd ==
    /\ OutboxTypeOK
    /\ IdleIsEmpty
    /\ PublishedIsInLog
    /\ ProducedIsInLog
    /\ BatchIsHeld
    /\ LoggedIsSettled

-----------------------------------------------------------------------------
LEMMA AppendType == ASSUME NEW S, NEW s \in Seq(S), NEW x \in S PROVE Append(s, x) \in Seq(S)
  OBVIOUS

\* The log after a record is appended holds what it held, and the record.
LEMMA AppendLog ==
    ASSUME NEW e \in Events, log \in Seq(Events), log' = Append(log, e)
    PROVE  \A x : InLog(x)' <=> InLog(x) \/ x = e
<1>1. Len(log') = Len(log) + 1 /\ log'[Len(log) + 1] = e /\ \A i \in 1..Len(log) : log'[i] = log[i]
  OBVIOUS
<1>2. Len(log) \in Nat
  OBVIOUS
<1> QED BY <1>1, <1>2 DEF InLog

\* ORDER BY id LIMIT batch selects among the rows it is given.
LEMMA FirstByIdSubset == ASSUME NEW S PROVE FirstById(S) \subseteq S
  BY DEF FirstById

\* A fault stays within its bound.
LEMMA OutboxFaultType ==
    ASSUME OutboxTypeOK, NEW S \in SUBSET Events, OutboxFault(S) \/ NoOutboxFault
    PROVE  outboxFaults' \in 0..MaxOutboxFaults /\ outboxDisturbed' \subseteq Events
<1>1. CASE OutboxFault(S)
  <2>1. outboxFaults' = outboxFaults + 1 /\ outboxFaults < MaxOutboxFaults /\ outboxFaults \in 0..MaxOutboxFaults
    BY <1>1 DEF OutboxFault, OutboxTypeOK
  <2> QED BY <1>1, <2>1, OutboxAssumption DEF OutboxFault, OutboxTypeOK
<1>2. CASE NoOutboxFault
  BY <1>2 DEF NoOutboxFault, OutboxTypeOK
<1> QED BY <1>1, <1>2

LEMMA OutboxTypeInit == OutboxInit => OutboxTypeOK
  BY OutboxAssumption DEF OutboxInit, OutboxTypeOK, Statuses

\* Every step keeps the types, and the lock columns in step with the status.
LEMMA OutboxTypeStep == OutboxTypeOK /\ [OutboxNext]_(publisherVars) => OutboxTypeOK'
<1> SUFFICES ASSUME OutboxTypeOK, [OutboxNext]_(publisherVars) PROVE OutboxTypeOK'
  OBVIOUS
<1> USE OutboxAssumption DEF OutboxTypeOK, Statuses
<1>1. ASSUME NEW e \in Events, Insert(e) PROVE OutboxTypeOK'
  BY <1>1 DEF Insert
<1>2. ASSUME NEW w \in Workers, Start(w) PROVE OutboxTypeOK'
  BY <1>2 DEF Start, rowVars
<1>3. ASSUME NEW w \in Workers, Claim(w) PROVE OutboxTypeOK'
  <2>1. FirstById(Claimable) \subseteq Events
    BY FirstByIdSubset DEF Claimable
  <2> QED BY <1>3, <2>1 DEF Claim, ClaimRows, NoOutboxFault
<1>4. ASSUME NEW w \in Workers, ClaimLost(w) PROVE OutboxTypeOK'
  <2>1. FirstById(Claimable) \subseteq Events
    BY FirstByIdSubset DEF Claimable
  <2>2. outboxFaults' \in 0..MaxOutboxFaults /\ outboxDisturbed' \subseteq Events
    BY <1>4, OutboxFaultType DEF ClaimLost
  <2> QED BY <1>4, <2>1, <2>2 DEF ClaimLost, ClaimRows
<1>5. ASSUME NEW w \in Workers, NEW e \in Events, Produce(w, e) PROVE OutboxTypeOK'
  BY <1>5 DEF Produce, rowVars
<1>6. ASSUME NEW w \in Workers, NEW e \in Events, ProduceFailed(w, e) PROVE OutboxTypeOK'
  <2>1. outboxFaults' \in 0..MaxOutboxFaults /\ outboxDisturbed' \subseteq Events
    BY <1>6, OutboxFaultType DEF ProduceFailed
  <2>2. log' = log \/ log' = Append(log, e)
    BY <1>6 DEF ProduceFailed
  <2>3. log' \in Seq(Events)
    <3>1. log \in Seq(Events)
      OBVIOUS
    <3> HIDE OutboxAssumption DEF OutboxTypeOK, Statuses
    <3> QED BY <2>2, <3>1, AppendType
  <2>4. wpc' \in [Workers -> {"new", "idle", "produce", "produced", "failed", "down"}]
    BY <1>6 DEF ProduceFailed
  <2> QED BY <1>6, <2>1, <2>3, <2>4 DEF ProduceFailed, rowVars
<1>7. ASSUME NEW w \in Workers, NEW e \in Events, MarkPublished(w, e) PROVE OutboxTypeOK'
  BY <1>7 DEF MarkPublished, rowVars, NoOutboxFault, Advance, Unlock, Holds
<1>8. ASSUME NEW w \in Workers, NEW e \in Events, MarkFailed(w, e) PROVE OutboxTypeOK'
  BY <1>8 DEF MarkFailed, rowVars, NoOutboxFault, Advance, Unlock, Holds
<1>9. ASSUME NEW w \in Workers, NEW e \in Events, MarkError(w, e) PROVE OutboxTypeOK'
  <2>1. outboxFaults' \in 0..MaxOutboxFaults /\ outboxDisturbed' \subseteq Events
    BY <1>9, OutboxFaultType DEF MarkError
  <2> QED BY <1>9, <2>1 DEF MarkError, rowVars, Advance
<1>10. ASSUME NEW e \in Events, ClaimExpires(e) PROVE OutboxTypeOK'
  <2>1. outboxFaults' \in 0..MaxOutboxFaults /\ outboxDisturbed' \subseteq Events
    BY <1>10, OutboxFaultType DEF ClaimExpires
  <2>2. expired' \in [Events -> BOOLEAN]
    BY <1>10 DEF ClaimExpires
  <2> QED BY <1>10, <2>1, <2>2 DEF ClaimExpires
<1>11. ASSUME NEW e \in Events, RetryDue(e) PROVE OutboxTypeOK'
  BY <1>11 DEF RetryDue
<1>12. ASSUME NEW w \in Workers, PublisherCrash(w) PROVE OutboxTypeOK'
  BY <1>12 DEF PublisherCrash, rowVars
<1>13. CASE UNCHANGED publisherVars
  BY <1>13 DEF publisherVars, outboxVars, rowVars
<1> QED
  BY <1>1, <1>2, <1>3, <1>4, <1>5, <1>6, <1>7, <1>8, <1>9, <1>10, <1>11, <1>12, <1>13
     DEF OutboxNext, Dispatch

\* One publisher at a time is about to mark an undisturbed event.
LEMMA HeldOnce ==
    ASSUME OutboxTypeOK, BatchIsHeld, NEW e \in Events, e \notin outboxDisturbed,
           NEW v \in Workers, NEW w \in Workers, e \in batch[v], e \in batch[w]
    PROVE  v = w
  BY DEF BatchIsHeld

LEMMA OutboxIndInit == OutboxInit => OutboxInd
<1> SUFFICES ASSUME OutboxInit PROVE OutboxInd
  OBVIOUS
<1>1. OutboxTypeOK
  BY OutboxTypeInit
<1>2. \A x : ~InLog(x)
  BY DEF OutboxInit, InLog
<1> QED
  BY <1>1, <1>2
     DEF OutboxInit, OutboxInd, IdleIsEmpty, PublishedIsInLog, ProducedIsInLog, BatchIsHeld, LoggedIsSettled, IsCurrent

\* Insert, Start and RetryDue touch neither a batch nor Kafka.
LEMMA InsertStep == ASSUME OutboxInd, OutboxTypeOK', NEW e \in Events, Insert(e) PROVE OutboxInd'
<1> USE DEF OutboxInd
<1>1. \A x : InLog(x)' <=> InLog(x)
  BY DEF Insert, InLog
<1>2. \A w \in Workers, x \in Events : IsCurrent(w, x)' <=> IsCurrent(w, x)
  BY DEF Insert, IsCurrent
<1>3. IdleIsEmpty' /\ ProducedIsInLog'
  BY <1>1, <1>2 DEF Insert, IdleIsEmpty, ProducedIsInLog
<1>4. PublishedIsInLog'
  BY <1>1 DEF Insert, PublishedIsInLog, OutboxTypeOK
<1>5. BatchIsHeld'
  BY DEF Insert, BatchIsHeld, OutboxTypeOK
<1>6. LoggedIsSettled'
  BY <1>1, <1>2 DEF Insert, LoggedIsSettled, OutboxTypeOK
<1> QED BY <1>3, <1>4, <1>5, <1>6

LEMMA StartStep == ASSUME OutboxInd, OutboxTypeOK', NEW w \in Workers, Start(w) PROVE OutboxInd'
<1> USE DEF OutboxInd
<1>1. \A x : InLog(x)' <=> InLog(x)
  BY DEF Start, InLog
<1>2. \A v \in Workers, x \in Events : IsCurrent(v, x)' <=> IsCurrent(v, x)
  BY DEF Start, IsCurrent
<1>3. IdleIsEmpty' /\ PublishedIsInLog' /\ BatchIsHeld'
  BY <1>1 DEF Start, rowVars, IdleIsEmpty, PublishedIsInLog, BatchIsHeld, Idle, OutboxTypeOK
<1>4. ProducedIsInLog'
  BY <1>1, <1>2 DEF Start, ProducedIsInLog, OutboxTypeOK
<1>5. LoggedIsSettled'
  <2>1. ASSUME NEW v \in Workers, wpc[v] = "produced" PROVE wpc'[v] = "produced"
    BY <2>1 DEF Start, OutboxTypeOK
  <2> QED BY <1>1, <1>2, <2>1 DEF Start, rowVars, LoggedIsSettled
<1> QED BY <1>3, <1>4, <1>5

LEMMA RetryDueStep == ASSUME OutboxInd, OutboxTypeOK', NEW e \in Events, RetryDue(e) PROVE OutboxInd'
<1> USE DEF OutboxInd
<1>1. \A x : InLog(x)' <=> InLog(x)
  BY DEF RetryDue, InLog
<1>2. \A v \in Workers, x \in Events : IsCurrent(v, x)' <=> IsCurrent(v, x)
  BY DEF RetryDue, IsCurrent
<1> QED
  BY <1>1, <1>2
     DEF RetryDue, IdleIsEmpty, PublishedIsInLog, ProducedIsInLog, BatchIsHeld, LoggedIsSettled

\* A claim takes no undisturbed event out of another batch: its lease is live.
LEMMA ClaimStep == ASSUME OutboxInd, OutboxTypeOK', NEW w \in Workers, Claim(w) PROVE OutboxInd'
<1> USE DEF OutboxInd
<1> DEFINE S == FirstById(Claimable)
<1>1. S \subseteq Claimable /\ S \subseteq Events
  BY FirstByIdSubset DEF Claimable
<1>2. /\ status' = [e \in Events |-> IF e \in S THEN "claimed" ELSE status[e]]
      /\ lockedBy' = [e \in Events |-> IF e \in S THEN w ELSE lockedBy[e]]
      /\ expired' = [e \in Events |-> IF e \in S THEN FALSE ELSE expired[e]]
      /\ batch' = [batch EXCEPT ![w] = S]
      /\ wpc' = [wpc EXCEPT ![w] = "produce"]
      /\ UNCHANGED <<log, outboxDisturbed>>
      /\ wpc[w] = "idle"
  BY DEF Claim, ClaimRows, NoOutboxFault
<1> HIDE DEF S
<1>3. \A x : InLog(x)' <=> InLog(x)
  BY <1>2 DEF InLog
<1>4. batch[w] = {}
  BY <1>2 DEF IdleIsEmpty, Idle
<1>5. \A v \in Workers \ {w} : batch'[v] = batch[v] /\ wpc'[v] = wpc[v]
  BY <1>2 DEF OutboxTypeOK
<1>6. wpc'[w] = "produce" /\ batch'[w] = S
  BY <1>2 DEF OutboxTypeOK
<1>7. \A v \in Workers \ {w}, x \in Events : IsCurrent(v, x)' <=> IsCurrent(v, x)
  BY <1>5 DEF IsCurrent
<1>8. IdleIsEmpty'
  BY <1>2, <1>5, <1>6 DEF IdleIsEmpty, Idle
<1>9. PublishedIsInLog' /\ ProducedIsInLog'
  BY <1>2, <1>3, <1>5, <1>6, <1>7 DEF PublishedIsInLog, ProducedIsInLog
<1>10. BatchIsHeld'
  <2> SUFFICES ASSUME NEW v \in Workers, NEW e \in batch'[v], e \notin outboxDisturbed
               PROVE  status'[e] = "claimed" /\ lockedBy'[e] = v /\ ~expired'[e]
    BY <1>2 DEF BatchIsHeld
  <2>1. CASE v = w
    BY <2>1, <1>1, <1>2, <1>6
  <2>2. CASE v # w
    <3>1. e \in batch[v] /\ e \in Events
      BY <2>2, <1>5 DEF OutboxTypeOK
    <3>2. status[e] = "claimed" /\ lockedBy[e] = v /\ ~expired[e]
      BY <3>1 DEF BatchIsHeld
    <3>3. e \notin S
      BY <3>2, <1>1 DEF Claimable
    <3> QED BY <3>1, <3>2, <3>3, <1>2
  <2> QED BY <2>1, <2>2
<1>11. LoggedIsSettled'
  <2> SUFFICES ASSUME NEW e \in Events, InLog(e), e \notin outboxDisturbed
               PROVE  \/ status'[e] = "published"
                      \/ \E v \in Workers : wpc'[v] = "produced" /\ IsCurrent(v, e)'
    BY <1>2, <1>3 DEF LoggedIsSettled
  <2>1. CASE status[e] = "published"
    BY <2>1, <1>1, <1>2 DEF Claimable
  <2>2. ASSUME NEW v \in Workers, wpc[v] = "produced", IsCurrent(v, e)
        PROVE  wpc'[v] = "produced" /\ IsCurrent(v, e)'
    BY <2>2, <1>2, <1>5, <1>7
  <2> QED BY <2>1, <2>2 DEF LoggedIsSettled
<1> QED BY <1>8, <1>9, <1>10, <1>11

LEMMA ClaimLostStep == ASSUME OutboxInd, OutboxTypeOK', NEW w \in Workers, ClaimLost(w) PROVE OutboxInd'
<1> USE DEF OutboxInd
<1> DEFINE S == FirstById(Claimable)
<1>1. S \subseteq Claimable /\ S \subseteq Events
  BY FirstByIdSubset DEF Claimable
<1>2. /\ status' = [e \in Events |-> IF e \in S THEN "claimed" ELSE status[e]]
      /\ lockedBy' = [e \in Events |-> IF e \in S THEN w ELSE lockedBy[e]]
      /\ expired' = [e \in Events |-> IF e \in S THEN FALSE ELSE expired[e]]
      /\ UNCHANGED <<batch, wpc, log>>
      /\ outboxDisturbed' = outboxDisturbed
  BY DEF ClaimLost, ClaimRows, OutboxFault
<1> HIDE DEF S
<1>3. \A x : InLog(x)' <=> InLog(x)
  BY <1>2 DEF InLog
<1>4. \A v \in Workers, x \in Events : IsCurrent(v, x)' <=> IsCurrent(v, x)
  BY <1>2 DEF IsCurrent
<1>5. IdleIsEmpty' /\ PublishedIsInLog' /\ ProducedIsInLog'
  BY <1>2, <1>3, <1>4 DEF IdleIsEmpty, PublishedIsInLog, ProducedIsInLog
<1>6. BatchIsHeld'
  <2> SUFFICES ASSUME NEW v \in Workers, NEW e \in batch[v], e \notin outboxDisturbed
               PROVE  status'[e] = "claimed" /\ lockedBy'[e] = v /\ ~expired'[e]
    BY <1>2 DEF BatchIsHeld
  <2>1. status[e] = "claimed" /\ lockedBy[e] = v /\ ~expired[e] /\ e \in Events
    BY DEF BatchIsHeld, OutboxTypeOK
  <2>2. e \notin S
    BY <2>1, <1>1 DEF Claimable
  <2> QED BY <2>1, <2>2, <1>2
<1>7. LoggedIsSettled'
  <2>1. \A e \in Events : status[e] = "published" => status'[e] = "published"
    BY <1>1, <1>2 DEF Claimable
  <2> QED BY <2>1, <1>2, <1>3, <1>4 DEF LoggedIsSettled
<1> QED BY <1>5, <1>6, <1>7

\* The holder of an undisturbed event has not produced it before.
LEMMA NotYetProduced ==
    ASSUME OutboxInd, NEW w \in Workers, NEW e \in Events, wpc[w] = "produce", e \in batch[w], InLog(e)
    PROVE  e \in outboxDisturbed
<1> USE DEF OutboxInd
<1> SUFFICES ASSUME e \notin outboxDisturbed PROVE FALSE
  OBVIOUS
<1>1. status[e] = "claimed"
  BY DEF BatchIsHeld
<1>2. PICK v \in Workers : wpc[v] = "produced" /\ IsCurrent(v, e)
  BY <1>1 DEF LoggedIsSettled
<1>3. v = w
  BY <1>2, HeldOnce DEF IsCurrent
<1> QED BY <1>2, <1>3

LEMMA ProduceStep ==
    ASSUME OutboxInd, OutboxTypeOK', NEW w \in Workers, NEW e \in Events, Produce(w, e) PROVE OutboxInd'
<1> USE DEF OutboxInd
<1>1. \A x : InLog(x)' <=> InLog(x) \/ x = e
  BY AppendLog DEF Produce, OutboxTypeOK
<1>2. \A v \in Workers, x \in Events : IsCurrent(v, x)' <=> IsCurrent(v, x)
  BY DEF Produce, IsCurrent
<1>3. /\ wpc'[w] = "produced" /\ wpc[w] = "produce" /\ IsCurrent(w, e)
      /\ \A v \in Workers \ {w} : wpc'[v] = wpc[v]
      /\ UNCHANGED <<status, lockedBy, expired, batch, outboxDisturbed>>
  BY DEF Produce, rowVars, OutboxTypeOK
<1>4. IdleIsEmpty' /\ PublishedIsInLog' /\ BatchIsHeld'
  BY <1>1, <1>3 DEF IdleIsEmpty, Idle, PublishedIsInLog, BatchIsHeld
<1>6. ProducedIsInLog'
  <2> SUFFICES ASSUME NEW v \in Workers, NEW x \in Events, wpc'[v] = "produced", IsCurrent(v, x)
               PROVE  InLog(x)'
    BY <1>2 DEF ProducedIsInLog
  <2>1. CASE v = w
    <3>1. x = e
      <4>1. x \in Nat /\ e \in Nat /\ x <= e /\ e <= x
        BY <2>1, <1>3, OutboxAssumption DEF IsCurrent
      <4> QED BY <4>1
    <3> QED BY <3>1, <1>1
  <2>2. CASE v # w
    BY <2>2, <1>1, <1>3 DEF ProducedIsInLog
  <2> QED BY <2>1, <2>2
<1>7. LoggedIsSettled'
  <2> SUFFICES ASSUME NEW x \in Events, InLog(x) \/ x = e, x \notin outboxDisturbed
               PROVE  \/ status[x] = "published"
                      \/ \E v \in Workers : wpc'[v] = "produced" /\ IsCurrent(v, x)
    BY <1>1, <1>2, <1>3 DEF LoggedIsSettled
  <2>1. CASE x = e
    BY <2>1, <1>3
  <2>2. CASE x # e
    BY <2>2, <1>3 DEF LoggedIsSettled
  <2> QED BY <2>1, <2>2
<1> QED BY <1>4, <1>6, <1>7

LEMMA ProduceFailedStep ==
    ASSUME OutboxInd, OutboxTypeOK', NEW w \in Workers, NEW e \in Events, ProduceFailed(w, e) PROVE OutboxInd'
<1> USE DEF OutboxInd
<1>1. /\ \A x : InLog(x) => InLog(x)'
      /\ \A x : x # e /\ InLog(x)' => InLog(x)
      /\ InLog(e)' => InLog(e) \/ e \in outboxDisturbed'
      /\ outboxDisturbed \subseteq outboxDisturbed'
  <2>1. CASE log' = Append(log, e) /\ OutboxFault({e})
    BY <2>1, AppendLog DEF OutboxTypeOK, OutboxFault
  <2>2. CASE UNCHANGED log /\ NoOutboxFault
    BY <2>2 DEF InLog, NoOutboxFault
  <2> QED BY <2>1, <2>2 DEF ProduceFailed
<1>2. \A v \in Workers, x \in Events : IsCurrent(v, x)' <=> IsCurrent(v, x)
  BY DEF ProduceFailed, IsCurrent
<1>3. /\ wpc'[w] = "failed" /\ wpc[w] = "produce" /\ IsCurrent(w, e)
      /\ \A v \in Workers \ {w} : wpc'[v] = wpc[v]
      /\ UNCHANGED <<status, lockedBy, expired, batch>>
  BY DEF ProduceFailed, rowVars, OutboxTypeOK
<1>4. IdleIsEmpty' /\ PublishedIsInLog' /\ BatchIsHeld' /\ ProducedIsInLog'
  BY <1>1, <1>2, <1>3 DEF IdleIsEmpty, Idle, PublishedIsInLog, BatchIsHeld, ProducedIsInLog
<1>6. LoggedIsSettled'
  BY <1>1, <1>2, <1>3 DEF LoggedIsSettled
<1> QED BY <1>4, <1>6

\* What moving on to the next event of a batch leaves alone.
LEMMA AdvanceFrame ==
    ASSUME OutboxTypeOK, IdleIsEmpty, NEW w \in Workers, NEW e \in Events, e \in batch[w], Advance(w, e)
    PROVE  /\ IdleIsEmpty'
           /\ wpc'[w] # "produced"
           /\ batch'[w] = batch[w] \ {e}
           /\ \A v \in Workers \ {w} : batch'[v] = batch[v] /\ wpc'[v] = wpc[v]
           /\ \A v \in Workers \ {w}, x \in Events : IsCurrent(v, x)' <=> IsCurrent(v, x)
<1>1. /\ batch'[w] = batch[w] \ {e}
      /\ wpc'[w] = IF batch[w] = {e} THEN "idle" ELSE "produce"
      /\ \A v \in Workers \ {w} : batch'[v] = batch[v] /\ wpc'[v] = wpc[v]
  BY DEF Advance, OutboxTypeOK
<1>2. IdleIsEmpty'
  BY <1>1 DEF IdleIsEmpty, Idle
<1>3. \A v \in Workers \ {w}, x \in Events : IsCurrent(v, x)' <=> IsCurrent(v, x)
  BY <1>1 DEF IsCurrent
<1> QED BY <1>1, <1>2, <1>3

\* Only the holder of the row marks it; a late mark finds it in other hands.
LEMMA MarkPublishedStep ==
    ASSUME OutboxInd, OutboxTypeOK', NEW w \in Workers, NEW e \in Events, MarkPublished(w, e) PROVE OutboxInd'
<1> USE DEF OutboxInd
<1>1. /\ e \in batch[w] /\ Advance(w, e) /\ IsCurrent(w, e) /\ wpc[w] = "produced"
      /\ UNCHANGED <<log, outboxDisturbed>>
  BY DEF MarkPublished, IsCurrent, NoOutboxFault
<1>2. /\ IdleIsEmpty'
      /\ wpc'[w] # "produced"
      /\ batch'[w] = batch[w] \ {e}
      /\ \A v \in Workers \ {w} : batch'[v] = batch[v] /\ wpc'[v] = wpc[v]
      /\ \A v \in Workers \ {w}, x \in Events : IsCurrent(v, x)' <=> IsCurrent(v, x)
  BY <1>1, AdvanceFrame
<1>3. \A x : InLog(x)' <=> InLog(x)
  BY <1>1 DEF InLog
<1>4. /\ \A x \in Events \ {e} : status'[x] = status[x] /\ lockedBy'[x] = lockedBy[x] /\ expired'[x] = expired[x]
      /\ \/ Holds(w, e) /\ status'[e] = "published"
         \/ ~Holds(w, e) /\ UNCHANGED <<status, lockedBy, expired>>
  BY DEF MarkPublished, Unlock, rowVars, OutboxTypeOK
<1>5. InLog(e)
  BY <1>1 DEF ProducedIsInLog
<1>6. PublishedIsInLog' /\ ProducedIsInLog'
  BY <1>1, <1>2, <1>3, <1>4, <1>5 DEF PublishedIsInLog, ProducedIsInLog
<1>7. BatchIsHeld'
  <2> SUFFICES ASSUME NEW v \in Workers, NEW x \in batch'[v], x \notin outboxDisturbed
               PROVE  status'[x] = "claimed" /\ lockedBy'[x] = v /\ ~expired'[x]
    BY <1>1 DEF BatchIsHeld
  <2>1. x \in batch[v] /\ x \in Events
    BY <1>2 DEF OutboxTypeOK
  <2>2. x # e
    BY <2>1, <1>1, <1>2, HeldOnce
  <2> QED BY <2>1, <2>2, <1>4 DEF BatchIsHeld
<1>8. LoggedIsSettled'
  <2> SUFFICES ASSUME NEW x \in Events, InLog(x), x \notin outboxDisturbed
               PROVE  \/ status'[x] = "published"
                      \/ \E v \in Workers : wpc'[v] = "produced" /\ IsCurrent(v, x)'
    BY <1>1, <1>3 DEF LoggedIsSettled
  <2>1. CASE x = e
    <3>1. Holds(w, e)
      BY <2>1, <1>1 DEF BatchIsHeld, Holds
    <3> QED BY <3>1, <2>1, <1>4
  <2>2. CASE x # e
    <3>1. ~IsCurrent(w, x)
      <4> SUFFICES ASSUME IsCurrent(w, x) PROVE FALSE
        OBVIOUS
      <4>1. x \in Nat /\ e \in Nat /\ x <= e /\ e <= x
        BY <1>1, OutboxAssumption DEF IsCurrent
      <4> QED BY <4>1, <2>2
    <3> QED BY <3>1, <2>2, <1>2, <1>4 DEF LoggedIsSettled
  <2> QED BY <2>1, <2>2
<1> QED BY <1>2, <1>6, <1>7, <1>8

\* An undisturbed event that failed is not in Kafka: it may be offered again.
LEMMA MarkFailedStep ==
    ASSUME OutboxInd, OutboxTypeOK', NEW w \in Workers, NEW e \in Events, MarkFailed(w, e) PROVE OutboxInd'
<1> USE DEF OutboxInd
<1>1. /\ e \in batch[w] /\ Advance(w, e) /\ wpc[w] = "failed" /\ UNCHANGED <<log, outboxDisturbed>>
  BY DEF MarkFailed, IsCurrent, NoOutboxFault
<1>2. /\ IdleIsEmpty'
      /\ wpc'[w] # "produced"
      /\ batch'[w] = batch[w] \ {e}
      /\ \A v \in Workers \ {w} : batch'[v] = batch[v] /\ wpc'[v] = wpc[v]
      /\ \A v \in Workers \ {w}, x \in Events : IsCurrent(v, x)' <=> IsCurrent(v, x)
  BY <1>1, AdvanceFrame
<1>3. \A x : InLog(x)' <=> InLog(x)
  BY <1>1 DEF InLog
<1>4. /\ \A x \in Events \ {e} : status'[x] = status[x] /\ lockedBy'[x] = lockedBy[x] /\ expired'[x] = expired[x]
      /\ \/ Holds(w, e) /\ status'[e] = "pending"
         \/ ~Holds(w, e) /\ UNCHANGED <<status, lockedBy, expired>>
  BY DEF MarkFailed, Unlock, rowVars, OutboxTypeOK
<1>5. PublishedIsInLog' /\ ProducedIsInLog'
  BY <1>1, <1>2, <1>3, <1>4 DEF PublishedIsInLog, ProducedIsInLog
<1>6. BatchIsHeld'
  <2> SUFFICES ASSUME NEW v \in Workers, NEW x \in batch'[v], x \notin outboxDisturbed
               PROVE  status'[x] = "claimed" /\ lockedBy'[x] = v /\ ~expired'[x]
    BY <1>1 DEF BatchIsHeld
  <2>1. x \in batch[v] /\ x \in Events
    BY <1>2 DEF OutboxTypeOK
  <2>2. x # e
    BY <2>1, <1>1, <1>2, HeldOnce
  <2> QED BY <2>1, <2>2, <1>4 DEF BatchIsHeld
<1>7. LoggedIsSettled'
  <2> SUFFICES ASSUME NEW x \in Events, InLog(x), x \notin outboxDisturbed
               PROVE  \/ status'[x] = "published"
                      \/ \E v \in Workers : wpc'[v] = "produced" /\ IsCurrent(v, x)'
    BY <1>1, <1>3 DEF LoggedIsSettled
  <2>1. x # e
    <3> SUFFICES ASSUME x = e PROVE FALSE
      OBVIOUS
    <3>1. status[e] = "claimed"
      BY <1>1 DEF BatchIsHeld
    <3>2. PICK v \in Workers : wpc[v] = "produced" /\ IsCurrent(v, e)
      BY <3>1 DEF LoggedIsSettled
    <3>3. v = w
      BY <3>2, <1>1, HeldOnce DEF IsCurrent
    <3> QED BY <3>2, <3>3, <1>1
  <2> QED BY <2>1, <1>1, <1>2, <1>4 DEF LoggedIsSettled
<1> QED BY <1>2, <1>5, <1>6, <1>7

LEMMA MarkErrorStep ==
    ASSUME OutboxInd, OutboxTypeOK', NEW w \in Workers, NEW e \in Events, MarkError(w, e) PROVE OutboxInd'
<1> USE DEF OutboxInd
<1>1. /\ e \in batch[w] /\ Advance(w, e) /\ IsCurrent(w, e)
      /\ UNCHANGED <<log, status, lockedBy, expired>> /\ outboxDisturbed' = outboxDisturbed \cup {e}
  BY DEF MarkError, IsCurrent, OutboxFault, rowVars
<1>2. /\ IdleIsEmpty'
      /\ wpc'[w] # "produced"
      /\ batch'[w] = batch[w] \ {e}
      /\ \A v \in Workers \ {w} : batch'[v] = batch[v] /\ wpc'[v] = wpc[v]
      /\ \A v \in Workers \ {w}, x \in Events : IsCurrent(v, x)' <=> IsCurrent(v, x)
  BY <1>1, AdvanceFrame
<1>3. \A x : InLog(x)' <=> InLog(x)
  BY <1>1 DEF InLog
<1>4. PublishedIsInLog' /\ ProducedIsInLog'
  BY <1>1, <1>2, <1>3 DEF PublishedIsInLog, ProducedIsInLog
<1>5. BatchIsHeld'
  <2> SUFFICES ASSUME NEW v \in Workers, NEW x \in batch'[v], x \notin outboxDisturbed'
               PROVE  status[x] = "claimed" /\ lockedBy[x] = v /\ ~expired[x]
    BY <1>1 DEF BatchIsHeld
  <2>1. x \in batch[v] /\ x \notin outboxDisturbed
    BY <1>1, <1>2
  <2> QED BY <2>1 DEF BatchIsHeld
<1>6. LoggedIsSettled'
  <2> SUFFICES ASSUME NEW x \in Events, InLog(x), x \notin outboxDisturbed, x # e
               PROVE  \/ status[x] = "published"
                      \/ \E v \in Workers : wpc'[v] = "produced" /\ IsCurrent(v, x)'
    BY <1>1, <1>3 DEF LoggedIsSettled
  <2>1. ~IsCurrent(w, x)
    <3> SUFFICES ASSUME IsCurrent(w, x) PROVE FALSE
      OBVIOUS
    <3>1. x \in Nat /\ e \in Nat /\ x <= e /\ e <= x
      BY <1>1, OutboxAssumption DEF IsCurrent
    <3> QED BY <3>1
  <2> QED BY <2>1, <1>2 DEF LoggedIsSettled
<1> QED BY <1>2, <1>4, <1>5, <1>6

\* A lease that runs out under its holder is a fault of that event.
LEMMA LeaseExpiresStep ==
    ASSUME OutboxInd, OutboxTypeOK', NEW e \in Events, ClaimExpires(e) PROVE OutboxInd'
<1> USE DEF OutboxInd
<1>1. /\ UNCHANGED <<log, status, lockedBy, wpc, batch>>
      /\ \A x \in Events \ {e} : expired'[x] = expired[x]
      /\ outboxDisturbed \subseteq outboxDisturbed'
  BY DEF ClaimExpires, OutboxFault, NoOutboxFault, OutboxTypeOK
<1>2. ASSUME NEW w \in Workers, e \in batch[w], e \notin outboxDisturbed PROVE e \in outboxDisturbed'
  <2>1. lockedBy[e] = w
    BY <1>2 DEF BatchIsHeld
  <2> QED BY <2>1, <1>2 DEF ClaimExpires, OutboxFault
<1>3. \A x : InLog(x)' <=> InLog(x)
  BY <1>1 DEF InLog
<1>4. \A v \in Workers, x \in Events : IsCurrent(v, x)' <=> IsCurrent(v, x)
  BY <1>1 DEF IsCurrent
<1>5. IdleIsEmpty' /\ PublishedIsInLog' /\ ProducedIsInLog' /\ LoggedIsSettled'
  BY <1>1, <1>3, <1>4
     DEF IdleIsEmpty, PublishedIsInLog, ProducedIsInLog, LoggedIsSettled
<1>6. BatchIsHeld'
  <2> SUFFICES ASSUME NEW v \in Workers, NEW x \in batch[v], x \notin outboxDisturbed'
               PROVE  status[x] = "claimed" /\ lockedBy[x] = v /\ ~expired'[x]
    BY <1>1 DEF BatchIsHeld
  <2>1. x \in Events /\ x \notin outboxDisturbed /\ x # e
    BY <1>1, <1>2 DEF OutboxTypeOK
  <2> QED BY <2>1, <1>1 DEF BatchIsHeld
<1> QED BY <1>5, <1>6

\* A crash disturbs the whole batch.
LEMMA CrashStep == ASSUME OutboxInd, OutboxTypeOK', NEW w \in Workers, PublisherCrash(w) PROVE OutboxInd'
<1> USE DEF OutboxInd
<1>1. /\ UNCHANGED <<log, status, lockedBy, expired>>
      /\ outboxDisturbed' = outboxDisturbed \cup batch[w]
      /\ wpc'[w] = "down" /\ batch'[w] = {}
      /\ \A v \in Workers \ {w} : batch'[v] = batch[v] /\ wpc'[v] = wpc[v]
  BY DEF PublisherCrash, rowVars, OutboxTypeOK
<1>2. \A x : InLog(x)' <=> InLog(x)
  BY <1>1 DEF InLog
<1>3. \A v \in Workers \ {w}, x \in Events : IsCurrent(v, x)' <=> IsCurrent(v, x)
  BY <1>1 DEF IsCurrent
<1>4. IdleIsEmpty' /\ PublishedIsInLog' /\ ProducedIsInLog'
  BY <1>1, <1>2, <1>3 DEF IdleIsEmpty, PublishedIsInLog, ProducedIsInLog
<1>5. BatchIsHeld'
  BY <1>1 DEF BatchIsHeld
<1>6. LoggedIsSettled'
  <2> SUFFICES ASSUME NEW x \in Events, InLog(x), x \notin outboxDisturbed, x \notin batch[w]
               PROVE  \/ status[x] = "published"
                      \/ \E v \in Workers : wpc'[v] = "produced" /\ IsCurrent(v, x)'
    BY <1>1, <1>2 DEF LoggedIsSettled
  <2>1. ~IsCurrent(w, x)
    BY DEF IsCurrent
  <2> QED BY <2>1, <1>1, <1>3 DEF LoggedIsSettled
<1> QED BY <1>4, <1>5, <1>6

LEMMA StutterStep == ASSUME OutboxInd, UNCHANGED publisherVars PROVE OutboxInd'
<1> USE DEF OutboxInd, publisherVars, outboxVars, rowVars
<1>1. OutboxTypeOK' /\ IdleIsEmpty' /\ BatchIsHeld'
  BY DEF OutboxTypeOK, IdleIsEmpty, BatchIsHeld
<1>2. \A x : InLog(x)' <=> InLog(x)
  BY DEF InLog
<1>3. \A v \in Workers, x \in Events : IsCurrent(v, x)' <=> IsCurrent(v, x)
  BY DEF IsCurrent
<1>4. PublishedIsInLog' /\ ProducedIsInLog' /\ LoggedIsSettled'
  BY <1>2, <1>3 DEF PublishedIsInLog, ProducedIsInLog, LoggedIsSettled
<1> QED BY <1>1, <1>4

LEMMA OutboxIndStep == OutboxInd /\ [OutboxNext]_(publisherVars) => OutboxInd'
<1> SUFFICES ASSUME OutboxInd, [OutboxNext]_(publisherVars) PROVE OutboxInd'
  OBVIOUS
<1>1. OutboxTypeOK'
  BY OutboxTypeStep DEF OutboxInd
<1>2. ASSUME NEW w \in Workers, Dispatch(w) \/ PublisherCrash(w) PROVE OutboxInd'
  BY <1>1, <1>2, StartStep, ClaimStep, ClaimLostStep, ProduceStep, ProduceFailedStep,
     MarkPublishedStep, MarkFailedStep, MarkErrorStep, CrashStep DEF Dispatch
<1>3. ASSUME NEW e \in Events, Insert(e) \/ ClaimExpires(e) \/ RetryDue(e) PROVE OutboxInd'
  BY <1>1, <1>3, InsertStep, LeaseExpiresStep, RetryDueStep
<1> QED BY <1>2, <1>3, StutterStep DEF OutboxNext

\* The copies that appending e makes: only of e.
LEMMA AppendCopies ==
    ASSUME NEW e \in Events, log \in Seq(Events), log' = Append(log, e),
           CopiesHaveACause, outboxDisturbed \subseteq outboxDisturbed', InLog(e) => e \in outboxDisturbed'
    PROVE  CopiesHaveACause'
<1>1. Len(log') = Len(log) + 1 /\ log'[Len(log) + 1] = e /\ Len(log) \in Nat
      /\ \A i \in 1..Len(log) : log'[i] = log[i]
  OBVIOUS
<1> SUFFICES ASSUME NEW i \in 1..Len(log'), NEW j \in 1..Len(log'), i # j, log'[i] = log'[j]
             PROVE  log'[i] \in outboxDisturbed'
  BY DEF CopiesHaveACause
<1>2. CASE i \in 1..Len(log) /\ j \in 1..Len(log)
  BY <1>1, <1>2 DEF CopiesHaveACause
<1>3. CASE i = Len(log) + 1 /\ j \in 1..Len(log)
  BY <1>1, <1>3 DEF InLog
<1>4. CASE j = Len(log) + 1 /\ i \in 1..Len(log)
  BY <1>1, <1>4 DEF InLog
<1> QED BY <1>1, <1>2, <1>3, <1>4

\* disturbed only grows, and only a produced record lengthens the log.
LEMMA OutboxCopiesStep ==
    OutboxInd /\ CopiesHaveACause /\ [OutboxNext]_(publisherVars) => CopiesHaveACause'
<1> SUFFICES ASSUME OutboxInd, CopiesHaveACause, [OutboxNext]_(publisherVars) PROVE CopiesHaveACause'
  OBVIOUS
<1>0. OutboxTypeOK
  BY DEF OutboxInd
<1>1. CASE log' = log /\ outboxDisturbed \subseteq outboxDisturbed'
  BY <1>1 DEF CopiesHaveACause
<1>2. ASSUME NEW w \in Workers, NEW e \in Events, Produce(w, e) PROVE CopiesHaveACause'
  <2>1. log' = Append(log, e) /\ outboxDisturbed' = outboxDisturbed /\ wpc[w] = "produce" /\ e \in batch[w]
    BY <1>2 DEF Produce, IsCurrent
  <2>2. InLog(e) => e \in outboxDisturbed
    BY <2>1, NotYetProduced
  <2> QED BY <1>0, <2>1, <2>2, AppendCopies DEF OutboxTypeOK
<1>3. ASSUME NEW w \in Workers, NEW e \in Events, ProduceFailed(w, e) PROVE CopiesHaveACause'
  <2>1. CASE log' = Append(log, e) /\ OutboxFault({e})
    BY <1>0, <2>1, AppendCopies DEF OutboxTypeOK, OutboxFault
  <2>2. CASE UNCHANGED log /\ NoOutboxFault
    BY <2>2, <1>1 DEF NoOutboxFault
  <2> QED BY <1>3, <2>1, <2>2 DEF ProduceFailed
<1>4. ASSUME NEW w \in Workers, Start(w) \/ Claim(w) \/ ClaimLost(w) \/ PublisherCrash(w)
      PROVE  CopiesHaveACause'
  BY <1>1, <1>4 DEF Start, Claim, ClaimLost, PublisherCrash, OutboxFault, NoOutboxFault
<1>5. ASSUME NEW w \in Workers, NEW e \in Events,
             MarkPublished(w, e) \/ MarkFailed(w, e) \/ MarkError(w, e)
      PROVE  CopiesHaveACause'
  BY <1>1, <1>5 DEF MarkPublished, MarkFailed, MarkError, OutboxFault, NoOutboxFault
<1>6. ASSUME NEW e \in Events, Insert(e) \/ ClaimExpires(e) \/ RetryDue(e)
      PROVE  CopiesHaveACause'
  BY <1>1, <1>6 DEF Insert, ClaimExpires, RetryDue, OutboxFault, NoOutboxFault
<1>7. CASE UNCHANGED publisherVars
  BY <1>1, <1>7 DEF publisherVars, outboxVars, rowVars
<1> QED BY <1>2, <1>3, <1>4, <1>5, <1>6, <1>7 DEF OutboxNext, Dispatch

-----------------------------------------------------------------------------
\* The inductive invariant of the outbox.
THEOREM OutboxInvariant == OutboxSpec => []OutboxInd
  BY OutboxIndInit, OutboxIndStep, PTL DEF OutboxSpec

\* The types hold, and locked_by is set exactly on claimed rows.
THEOREM OutboxTypes == OutboxSpec => []OutboxTypeOK
<1>1. OutboxInd => OutboxTypeOK
  BY DEF OutboxInd
<1> QED BY <1>1, OutboxInvariant, PTL

\* The publisher loses no event: a row marked published is in Kafka.
THEOREM OutboxLosesNothing == OutboxSpec => []PublishedIsInLog
<1>1. OutboxInd => PublishedIsInLog
  BY DEF OutboxInd
<1> QED BY <1>1, OutboxInvariant, PTL

\* Claims are exclusive: two batches share an event only after a lease ran out
\* under its holder, or another fault.
THEOREM OutboxClaimsExclusive == OutboxSpec => []OneHolder
<1>1. OutboxInd => OneHolder
  <2> SUFFICES ASSUME OutboxInd, NEW e \in Events, NEW v \in Workers, NEW w \in Workers,
                      e \in batch[v], e \in batch[w], v # w, e \notin outboxDisturbed
               PROVE  FALSE
    BY DEF OneHolder
  <2> QED BY HeldOnce DEF OutboxInd
<1> QED BY <1>1, OutboxInvariant, PTL

\* A second copy in Kafka has a cause: retries and takeovers alone make none.
THEOREM OutboxCopiesHaveACause == OutboxSpec => []CopiesHaveACause
<1>1. OutboxInit => CopiesHaveACause
  BY DEF OutboxInit, CopiesHaveACause
<1> QED BY <1>1, OutboxCopiesStep, OutboxInvariant, PTL DEF OutboxSpec

\* A published row is never taken back by a publisher that is late.
THEOREM OutboxNeverUnpublishes == OutboxSpec => NeverUnpublished
<1>1. ASSUME OutboxTypeOK, [OutboxNext]_(publisherVars)
      PROVE  [\A e \in Events : status[e] = "published" => status'[e] = "published"]_(publisherVars)
  <2> SUFFICES ASSUME NEW e \in Events, status[e] = "published", OutboxNext
               PROVE  status'[e] = "published"
    BY <1>1
  <2>1. ASSUME NEW w \in Workers, Claim(w) \/ ClaimLost(w) PROVE status'[e] = "published"
    <3>1. e \notin FirstById(Claimable)
      BY FirstByIdSubset DEF Claimable
    <3> QED BY <3>1, <2>1 DEF Claim, ClaimLost, ClaimRows
  <2>2. ASSUME NEW w \in Workers, NEW f \in Events, MarkPublished(w, f) \/ MarkFailed(w, f)
        PROVE  status'[e] = "published"
    BY <1>1, <2>2 DEF MarkPublished, MarkFailed, Holds, Unlock, rowVars, OutboxTypeOK
  <2>3. ASSUME NEW w \in Workers, NEW f \in Events,
               Produce(w, f) \/ ProduceFailed(w, f) \/ MarkError(w, f)
        PROVE  status'[e] = "published"
    BY <2>3 DEF Produce, ProduceFailed, MarkError, rowVars
  <2>4. ASSUME NEW w \in Workers, Start(w) \/ PublisherCrash(w) PROVE status'[e] = "published"
    BY <2>4 DEF Start, PublisherCrash, rowVars
  <2>5. ASSUME NEW f \in Events, Insert(f) \/ ClaimExpires(f) \/ RetryDue(f)
        PROVE  status'[e] = "published"
    BY <1>1, <2>5 DEF Insert, ClaimExpires, RetryDue, OutboxTypeOK
  <2> QED BY <2>1, <2>2, <2>3, <2>4, <2>5 DEF OutboxNext, Dispatch
<1> QED BY <1>1, OutboxTypes, PTL DEF OutboxSpec, NeverUnpublished

-----------------------------------------------------------------------------
(* The consumer group *)

\* The steps at which a member works under the dedup row.
Work == {"publish", "fail", "reject", "done"}

On(m, e) == log[pos[m]] = e

OnRecord == \A m \in Members : mpc[m] \in Handling => pos[m] \in 1..Len(log)

OwnerIsNext == \A m \in Members : owner = m /\ mpc[m] \in Handling => pos[m] = committed + 1

CommitIsSettled ==
    \A m \in Members, e \in Events : mpc[m] = "commit" /\ On(m, e) =>
        processed[e] = "done" \/ pos[m] \in dlq

DoneIsDelivered ==
    \A m \in Members, e \in Events : mpc[m] = "done" /\ On(m, e) => copies[e] > 0

WorkerHoldsRow ==
    \A m \in Members, e \in Events : mpc[m] \in Work /\ On(m, e) /\ e \notin deliveryDisturbed =>
        locked[e] /\ ~stale[e]

OneWorker ==
    \A m, n \in Members, e \in Events :
        /\ mpc[m] \in Work /\ On(m, e)
        /\ mpc[n] \in Work /\ On(n, e)
        /\ e \notin deliveryDisturbed
        => m = n

SentIsSettled ==
    \A e \in Events : copies[e] > 0 /\ e \notin deliveryDisturbed =>
        /\ copies[e] = 1
        /\ processed[e] = "done" \/ \E m \in Members : mpc[m] = "done" /\ On(m, e)

Base == DeliveryTypeOK /\ OnRecord

\* The argument about offsets, and the one about copies.
Offsets == OwnerIsNext /\ CommitIsSettled /\ NoSilentSkip
Copies == DoneIsDelivered /\ ProcessedIsDelivered /\ WorkerHoldsRow /\ OneWorker /\ SentIsSettled

DeliveryInd == Base /\ Offsets /\ Copies

\* A record reaches the partition, whoever sends it, and what the group itself does.
Arrival(e) == log' = Append(log, e) /\ UNCHANGED deliveryVars
DeliverySteps == DeliveryNext \/ \E e \in Events : Arrival(e)

-----------------------------------------------------------------------------
(* Types *)

LEMMA DeliveryFaultType ==
    ASSUME DeliveryTypeOK, NEW S \in SUBSET Events, DeliveryFault(S) \/ NoDeliveryFault
    PROVE  /\ deliveryFaults' \in 0..MaxDeliveryFaults /\ deliveryDisturbed' \subseteq Events
           /\ deliveryDisturbed \subseteq deliveryDisturbed'
<1>1. CASE DeliveryFault(S)
  <2>1. /\ deliveryFaults' = deliveryFaults + 1 /\ deliveryFaults < MaxDeliveryFaults
        /\ deliveryFaults \in 0..MaxDeliveryFaults /\ MaxDeliveryFaults \in Nat
    BY <1>1, GiftDeliveryAssumption DEF DeliveryFault, DeliveryTypeOK
  <2> QED BY <1>1, <2>1 DEF DeliveryFault, DeliveryTypeOK
<1>2. CASE NoDeliveryFault
  BY <1>2 DEF NoDeliveryFault, DeliveryTypeOK
<1> QED BY <1>1, <1>2

\* The record a member is handling.
LEMMA CurrentEvent ==
    ASSUME Base, NEW m \in Members, mpc[m] \in Handling
    PROVE  pos[m] \in 1..Len(log) /\ log[pos[m]] \in Events /\ Len(log) \in Nat
  BY DEF Base, DeliveryTypeOK, OnRecord

\* What a change of one dedup row leaves of the types.
LEMMA RowTypes ==
    ASSUME DeliveryTypeOK, NEW e \in Events,
           Acquire(e) \/ Release(e, "open") \/ Release(e, "done") \/ UNCHANGED dedupVars
    PROVE  /\ processed' \in [Events -> {"absent", "open", "done"}]
           /\ locked' \in [Events -> BOOLEAN]
           /\ stale' \in [Events -> BOOLEAN]
           /\ \A x \in Events : locked'[x] => processed'[x] = "open"
  BY DEF DeliveryTypeOK, Acquire, Release, dedupVars

LEMMA BaseInit == DeliveryInit => Base
  BY GiftDeliveryAssumption DEF DeliveryInit, Base, DeliveryTypeOK, OnRecord, Steps, Handling

LEMMA BaseStep == Base /\ [DeliverySteps]_(groupVars) => Base'
<1> SUFFICES ASSUME Base, [DeliverySteps]_(groupVars) PROVE Base'
  OBVIOUS
<1>0. DeliveryTypeOK /\ OnRecord
  BY DEF Base
<1>1. ASSUME NEW e \in Events, Arrival(e) PROVE Base'
  <2>1. log' \in Seq(Events) /\ Len(log') = Len(log) + 1 /\ Len(log) \in Nat
    BY <1>0, <1>1 DEF Arrival, DeliveryTypeOK
  <2>2. 0..Len(log) \subseteq 0..Len(log') /\ 1..Len(log) \subseteq 1..Len(log')
    BY <2>1
  <2> QED BY <1>0, <1>1, <2>1, <2>2 DEF Arrival, deliveryVars, dedupVars, Base, DeliveryTypeOK, OnRecord
<1>2. ASSUME NEW m \in Members, Join(m) \/ Assign(m) PROVE Base'
  BY <1>0, <1>2 DEF Join, Assign, Goto, dedupVars, Base, DeliveryTypeOK, OnRecord, Steps, Handling
<1>3. ASSUME NEW m \in Members, Rebalance(m) PROVE Base'
  <2>1. deliveryFaults' \in 0..MaxDeliveryFaults /\ deliveryDisturbed' \subseteq Events
    BY <1>0, <1>3, DeliveryFaultType DEF Rebalance
  <2> QED BY <1>0, <1>3, <2>1 DEF Rebalance, dedupVars, Base, DeliveryTypeOK, OnRecord
<1>4. ASSUME NEW m \in Members, Poll(m) PROVE Base'
  <2>1. committed + 1 \in 1..Len(log) /\ committed + 1 \in 0..Len(log)
    BY <1>0, <1>4 DEF Poll, DeliveryTypeOK
  <2> QED BY <1>0, <1>4, <2>1 DEF Poll, Goto, dedupVars, Base, DeliveryTypeOK, OnRecord, Steps, Handling
<1>5. ASSUME NEW m \in Members, mpc[m] \in Handling, NEW s \in Steps, Goto(m, s),
             NEW e \in Events, e = Current(m),
             Acquire(e) \/ Release(e, "open") \/ Release(e, "done") \/ UNCHANGED dedupVars,
             copies' \in [Events -> Nat],
             dlq' \in {dlq, dlq \cup {pos[m]}},
             committed' \in {committed, pos[m]},
             deliveryFaults' \in 0..MaxDeliveryFaults, deliveryDisturbed' \subseteq Events,
             UNCHANGED <<log, owner, pos>>
      PROVE  Base'
  <2>1. /\ processed' \in [Events -> {"absent", "open", "done"}]
        /\ locked' \in [Events -> BOOLEAN]
        /\ stale' \in [Events -> BOOLEAN]
        /\ \A x \in Events : locked'[x] => processed'[x] = "open"
    BY <1>0, <1>5, RowTypes
  <2>2. pos[m] \in 1..Len(log) /\ Len(log) \in Nat
    BY <1>5, CurrentEvent
  <2>3. committed' \in 0..Len(log) /\ dlq' \subseteq 1..Len(log)
    BY <1>0, <1>5, <2>2 DEF DeliveryTypeOK
  <2>4. mpc' \in [Members -> Steps] /\ \A n \in Members \ {m} : mpc'[n] = mpc[n]
    BY <1>0, <1>5 DEF DeliveryTypeOK, Goto
  <2> QED BY <1>0, <1>5, <2>1, <2>2, <2>3, <2>4 DEF Base, DeliveryTypeOK, OnRecord
<1>6. ASSUME NEW m \in Members, mpc[m] \in Handling PROVE Current(m) \in Events
  BY <1>6, CurrentEvent DEF Current
<1>7. ASSUME NEW m \in Members, Begin(m) PROVE Base'
  <2>1. mpc[m] \in Handling /\ Current(m) \in Events
    BY <1>6, <1>7 DEF Begin, Handling
  <2>2. \E s \in Steps : Goto(m, s)
    BY <1>7 DEF Begin, Steps
  <2>3. Acquire(Current(m)) \/ UNCHANGED dedupVars
    BY <1>7 DEF Begin
  <2>4. UNCHANGED <<log, committed, owner, pos, copies, dlq, deliveryFaults, deliveryDisturbed>>
    BY <1>7 DEF Begin
  <2> QED BY <1>0, <2>1, <2>2, <2>3, <2>4, <1>5 DEF DeliveryTypeOK
<1>8. ASSUME NEW m \in Members, BeginLost(m) PROVE Base'
  <2>1. mpc[m] \in Handling /\ Current(m) \in Events /\ mpc[m] = "begin" /\ DeliveryFault({}) /\ Acquire(Current(m))
        /\ UNCHANGED <<log, committed, owner, pos, copies, dlq, mpc>>
    BY <1>6, <1>8 DEF BeginLost, Handling
  <2>2. deliveryFaults' \in 0..MaxDeliveryFaults /\ deliveryDisturbed' \subseteq Events
    BY <1>0, <2>1, DeliveryFaultType
  <2>3. "begin" \in Steps /\ Goto(m, "begin")
    BY <1>0, <2>1 DEF Goto, Steps, DeliveryTypeOK
  <2> QED BY <1>0, <2>1, <2>2, <2>3, <1>5 DEF DeliveryTypeOK
<1>9. ASSUME NEW m \in Members, Reject(m) \/ FailRecord(m) \/ Done(m) PROVE Base'
  <2>1. mpc[m] \in Handling /\ Current(m) \in Events
        /\ UNCHANGED <<log, committed, owner, pos, copies, dlq>>
    BY <1>6, <1>9 DEF Reject, FailRecord, Done, Handling
  <2>2. \E s \in Steps : Goto(m, s)
    BY <1>9 DEF Reject, FailRecord, Done, Steps
  <2>3. \/ Release(Current(m), "open") \/ Release(Current(m), "done") \/ UNCHANGED dedupVars
    BY <1>9 DEF Reject, FailRecord, Done
  <2>4. deliveryFaults' \in 0..MaxDeliveryFaults /\ deliveryDisturbed' \subseteq Events
    BY <1>0, <1>9, <2>1, DeliveryFaultType DEF Reject, FailRecord, Done
  <2> QED BY <1>0, <2>1, <2>2, <2>3, <2>4, <1>5 DEF DeliveryTypeOK
<1>10. ASSUME NEW m \in Members, Publish(m) \/ PublishFailed(m) PROVE Base'
  <2>1. mpc[m] \in Handling /\ Current(m) \in Events
        /\ UNCHANGED <<log, committed, owner, pos, dedupVars, dlq>>
    BY <1>6, <1>10 DEF Publish, PublishFailed, Handling
  <2>2. \E s \in Steps : Goto(m, s)
    BY <1>10 DEF Publish, PublishFailed, Steps
  <2>3. copies' \in [Events -> Nat]
    <3>1. copies \in [Events -> Nat] /\ copies[Current(m)] + 1 \in Nat
      BY <1>0, <2>1 DEF DeliveryTypeOK
    <3>2. copies' = [copies EXCEPT ![Current(m)] = copies[Current(m)] + 1] \/ copies' = copies
      BY <1>10 DEF Publish, PublishFailed
    <3> QED BY <3>1, <3>2
  <2>4. deliveryFaults' \in 0..MaxDeliveryFaults /\ deliveryDisturbed' \subseteq Events
    <3>1. DeliveryFault({Current(m)}) \/ NoDeliveryFault
      BY <1>10 DEF Publish, PublishFailed, NoDeliveryFault
    <3> QED BY <1>0, <2>1, <3>1, DeliveryFaultType
  <2> QED BY <1>0, <2>1, <2>2, <2>3, <2>4, <1>5 DEF DeliveryTypeOK
<1>11. ASSUME NEW m \in Members, DeadLetter(m) \/ CommitFailed(m) PROVE Base'
  <2>1. mpc[m] \in Handling /\ Current(m) \in Events
        /\ UNCHANGED <<log, owner, pos, dedupVars, copies>>
        /\ dlq' \in {dlq, dlq \cup {pos[m]}} /\ committed' \in {committed, pos[m]}
    BY <1>6, <1>11 DEF DeadLetter, CommitFailed, Handling
  <2>2. \E s \in Steps : Goto(m, s)
    BY <1>11 DEF DeadLetter, CommitFailed, Steps
  <2>3. deliveryFaults' \in 0..MaxDeliveryFaults /\ deliveryDisturbed' \subseteq Events
    BY <1>0, <1>11, DeliveryFaultType DEF DeadLetter, CommitFailed
  <2> QED BY <1>0, <2>1, <2>2, <2>3, <1>5 DEF DeliveryTypeOK
<1>12. ASSUME NEW m \in Members, CommitRecord(m) PROVE Base'
  <2>1. pos[m] \in 1..Len(log) /\ Len(log) \in Nat
    BY <1>12, CurrentEvent DEF CommitRecord, Handling
  <2>2. pos' \in [Members -> 0..Len(log)] /\ committed' \in 0..Len(log)
    BY <1>0, <1>12, <2>1 DEF CommitRecord, DeliveryTypeOK
  <2>3. mpc' \in [Members -> Steps]
    BY <1>0, <1>12 DEF CommitRecord, Goto, DeliveryTypeOK, Steps
  <2>4. OnRecord'
    <3>1. CASE Goto(m, "poll") /\ UNCHANGED pos
      BY <1>0, <1>12, <3>1 DEF CommitRecord, Goto, DeliveryTypeOK, OnRecord, Handling
    <3>2. CASE pos[m] < Len(log) /\ pos' = [pos EXCEPT ![m] = @ + 1] /\ Goto(m, "begin")
      <4>1. pos'[m] \in 1..Len(log) /\ \A n \in Members \ {m} : pos'[n] = pos[n] /\ mpc'[n] = mpc[n]
        BY <1>0, <3>2, <2>1 DEF Goto, DeliveryTypeOK
      <4> QED BY <1>0, <1>12, <4>1 DEF CommitRecord, OnRecord
    <3> QED BY <1>12, <3>1, <3>2 DEF CommitRecord
  <2> QED BY <1>0, <1>12, <2>2, <2>3, <2>4 DEF CommitRecord, dedupVars, Base, DeliveryTypeOK
<1>13. ASSUME NEW e \in Events, LockExpires(e) PROVE Base'
  <2>1. deliveryFaults' \in 0..MaxDeliveryFaults /\ deliveryDisturbed' \subseteq Events
    BY <1>0, <1>13, DeliveryFaultType DEF LockExpires
  <2>2. stale' \in [Events -> BOOLEAN]
    BY <1>0, <1>13 DEF LockExpires, DeliveryTypeOK
  <2> QED BY <1>0, <1>13, <2>1, <2>2 DEF LockExpires, Base, DeliveryTypeOK, OnRecord
<1>14. ASSUME NEW m \in Members, ConsumerCrash(m) PROVE Base'
  <2>1. (IF mpc[m] = "done" THEN {Current(m)} ELSE {}) \subseteq Events
    BY <1>6 DEF Handling
  <2>2. deliveryFaults' \in 0..MaxDeliveryFaults /\ deliveryDisturbed' \subseteq Events
    BY <1>0, <1>14, <2>1, DeliveryFaultType DEF ConsumerCrash
  <2> QED BY <1>0, <1>14, <2>2 DEF ConsumerCrash, Goto, dedupVars, Base, DeliveryTypeOK, OnRecord, Steps, Handling
<1>15. CASE UNCHANGED groupVars
  BY <1>0, <1>15 DEF groupVars, deliveryVars, dedupVars, Base, DeliveryTypeOK, OnRecord
<1> QED
  BY <1>1, <1>2, <1>3, <1>4, <1>7, <1>8, <1>9, <1>10, <1>11, <1>12, <1>13, <1>14, <1>15
     DEF DeliverySteps, DeliveryNext, Consume

-----------------------------------------------------------------------------
(* Offsets *)

\* An event once processed stays so, and a dead letter is not taken back.
LEMMA SettledStays ==
    ASSUME Base, DeliverySteps
    PROVE  /\ \A e \in Events : processed[e] = "done" => processed'[e] = "done"
           /\ dlq \subseteq dlq'
<1>1. ASSUME NEW m \in Members, Begin(m) \/ BeginLost(m) \/ Reject(m) \/ FailRecord(m) \/ Done(m)
      PROVE  /\ \A e \in Events : processed[e] = "done" => processed'[e] = "done"
             /\ dlq \subseteq dlq'
  BY <1>1 DEF Begin, BeginLost, Reject, FailRecord, Done, Acquire, Release, dedupVars, Base, DeliveryTypeOK
<1>2. ASSUME NEW m \in Members,
             Publish(m) \/ PublishFailed(m) \/ DeadLetter(m) \/ CommitRecord(m) \/ CommitFailed(m)
      PROVE  UNCHANGED processed /\ dlq \subseteq dlq'
  BY <1>2 DEF Publish, PublishFailed, DeadLetter, CommitRecord, CommitFailed, dedupVars
<1>3. ASSUME NEW m \in Members, Join(m) \/ Assign(m) \/ Rebalance(m) \/ Poll(m) \/ ConsumerCrash(m)
      PROVE  UNCHANGED processed /\ dlq \subseteq dlq'
  BY <1>3 DEF Join, Assign, Rebalance, Poll, ConsumerCrash, dedupVars
<1>4. ASSUME NEW e \in Events, Arrival(e) \/ LockExpires(e)
      PROVE  UNCHANGED processed /\ dlq \subseteq dlq'
  BY <1>4 DEF Arrival, LockExpires, deliveryVars, dedupVars
<1> QED BY <1>1, <1>2, <1>3, <1>4 DEF DeliverySteps, DeliveryNext, Consume

\* A member moves within one record without touching an offset.
LEMMA OffsetsWithinRecord ==
    ASSUME Base, Offsets, NEW m \in Members, NEW s \in Steps, Goto(m, s),
           UNCHANGED <<log, committed, owner, pos>>,
           s \in Handling => mpc[m] \in Handling,
           s = "commit" => mpc[m] = "commit" \/ processed'[Current(m)] = "done" \/ pos[m] \in dlq',
           \A e \in Events : processed[e] = "done" => processed'[e] = "done",
           dlq \subseteq dlq'
    PROVE  Offsets'
<1>1. mpc'[m] = s /\ \A n \in Members \ {m} : mpc'[n] = mpc[n]
  BY DEF Goto, Base, DeliveryTypeOK
<1>2. \A n \in Members, e \in Events : On(n, e)' <=> On(n, e)
  BY DEF On
<1>3. OwnerIsNext'
  BY <1>1 DEF Offsets, OwnerIsNext
<1>4. CommitIsSettled'
  <2> SUFFICES ASSUME NEW n \in Members, NEW e \in Events, mpc'[n] = "commit", On(n, e)
               PROVE  processed'[e] = "done" \/ pos[n] \in dlq'
    BY <1>2 DEF CommitIsSettled
  <2>1. CASE n = m /\ mpc[m] # "commit"
    BY <2>1, <1>1 DEF On, Current
  <2>2. CASE mpc[n] = "commit"
    BY <2>2 DEF Offsets, CommitIsSettled
  <2> QED BY <2>1, <2>2, <1>1
<1>5. NoSilentSkip'
  <2>1. \A i \in 1..committed : log[i] \in Events
    BY DEF Base, DeliveryTypeOK
  <2> QED BY <2>1 DEF Offsets, NoSilentSkip
<1> QED BY <1>3, <1>4, <1>5 DEF Offsets

LEMMA OffsetsAppend == ASSUME Base, Offsets, NEW e \in Events, Arrival(e) PROVE Offsets'
<1>1. /\ log \in Seq(Events) /\ Len(log) \in Nat /\ Len(log') = Len(log) + 1
      /\ \A i \in 1..Len(log) : log'[i] = log[i]
  BY DEF Arrival, Base, DeliveryTypeOK
<1>2. UNCHANGED <<committed, owner, mpc, pos, processed, dlq>>
  BY DEF Arrival, deliveryVars, dedupVars
<1>3. ASSUME NEW m \in Members, NEW x \in Events, mpc[m] = "commit"
      PROVE  On(m, x)' <=> On(m, x)
  BY <1>1, <1>2, <1>3 DEF On, Base, OnRecord, Handling
<1>4. OwnerIsNext' /\ CommitIsSettled'
  BY <1>2, <1>3 DEF Offsets, OwnerIsNext, CommitIsSettled
<1>5. NoSilentSkip'
  <2>1. committed \in 0..Len(log)
    BY DEF Base, DeliveryTypeOK
  <2>2. \A i \in 1..committed : log'[i] = log[i]
    BY <1>1, <2>1
  <2> QED BY <2>2, <1>2 DEF Offsets, NoSilentSkip
<1> QED BY <1>4, <1>5 DEF Offsets

\* The partition goes to a member between polls; a lease runs out.
LEMMA OffsetsElsewhere ==
    ASSUME Base, Offsets, UNCHANGED <<log, committed, mpc, pos, processed, dlq>>,
           owner' = owner \/ \A m \in Members : owner' = m => mpc[m] \notin Handling
    PROVE  Offsets'
<1>1. \A n \in Members, e \in Events : On(n, e)' <=> On(n, e)
  BY DEF On
<1> QED BY <1>1 DEF Offsets, OwnerIsNext, CommitIsSettled, NoSilentSkip

LEMMA OffsetsPoll == ASSUME Base, Offsets, NEW m \in Members, Poll(m) PROVE Offsets'
<1>1. /\ mpc[m] = "poll" /\ mpc'[m] = "begin" /\ pos'[m] = committed + 1
      /\ \A n \in Members \ {m} : mpc'[n] = mpc[n] /\ pos'[n] = pos[n]
      /\ UNCHANGED <<log, committed, owner, processed, dlq>>
  BY DEF Poll, Goto, dedupVars, Base, DeliveryTypeOK
<1>2. \A n \in Members \ {m}, e \in Events : On(n, e)' <=> On(n, e)
  BY <1>1 DEF On
<1>3. OwnerIsNext' /\ CommitIsSettled' /\ NoSilentSkip'
  BY <1>1, <1>2 DEF Offsets, OwnerIsNext, CommitIsSettled, NoSilentSkip
<1> QED BY <1>3 DEF Offsets

\* The owner commits the record after the committed one, and it is settled.
LEMMA OffsetsCommit ==
    ASSUME Base, Offsets, NEW m \in Members, mpc[m] = "commit", owner = m,
           UNCHANGED <<log, owner, processed, dlq>>, committed' = pos[m],
           \A n \in Members \ {m} : mpc'[n] = mpc[n] /\ pos'[n] = pos[n],
           mpc'[m] \notin Handling \/ (mpc'[m] = "begin" /\ pos'[m] = pos[m] + 1)
    PROVE  Offsets'
<1>1. \A n \in Members \ {m}, e \in Events : On(n, e)' <=> On(n, e)
  BY DEF On
<1>2. OwnerIsNext' /\ CommitIsSettled'
  BY <1>1 DEF Offsets, OwnerIsNext, CommitIsSettled, Handling
<1>3. pos[m] = committed + 1 /\ committed \in Nat /\ log[pos[m]] \in Events
  BY CurrentEvent DEF Offsets, OwnerIsNext, Handling, Base, DeliveryTypeOK
<1>4. processed[log[pos[m]]] = "done" \/ pos[m] \in dlq
  BY <1>3 DEF Offsets, CommitIsSettled, On
<1>5. NoSilentSkip'
  <2> SUFFICES ASSUME NEW i \in 1..pos[m] PROVE processed[log[i]] = "done" \/ i \in dlq
    BY DEF NoSilentSkip
  <2>1. i \in 1..committed \/ i = pos[m]
    BY <1>3
  <2> QED BY <2>1, <1>4 DEF Offsets, NoSilentSkip
<1> QED BY <1>2, <1>5 DEF Offsets

LEMMA OffsetsStep == ASSUME Base, Offsets, DeliverySteps PROVE Offsets'
<1>1. /\ \A e \in Events : processed[e] = "done" => processed'[e] = "done"
      /\ dlq \subseteq dlq'
  BY SettledStays
<1>2. ASSUME NEW m \in Members, mpc[m] \in Handling, NEW s \in Steps \ {"commit"}, Goto(m, s),
             UNCHANGED <<log, committed, owner, pos>>
      PROVE  Offsets'
  BY <1>1, <1>2, OffsetsWithinRecord
<1>3. ASSUME NEW m \in Members, Join(m) \/ ConsumerCrash(m) PROVE Offsets'
  <2>1. \E s \in {"poll", "new"} : Goto(m, s) /\ UNCHANGED <<log, committed, owner, pos>>
    BY <1>3 DEF Join, ConsumerCrash
  <2> QED BY <1>1, <2>1, OffsetsWithinRecord DEF Steps, Handling
<1>4. ASSUME NEW m \in Members, Assign(m) \/ Rebalance(m) PROVE Offsets'
  <2>1. /\ UNCHANGED <<log, committed, mpc, pos, processed, dlq>>
        /\ owner' = m /\ mpc[m] \notin Handling
    BY <1>4 DEF Assign, Rebalance, dedupVars, Handling
  <2> QED BY <2>1, OffsetsElsewhere
<1>5. ASSUME NEW m \in Members, Poll(m) PROVE Offsets'
  BY <1>5, OffsetsPoll
<1>6. ASSUME NEW m \in Members, Begin(m) PROVE Offsets'
  <2>1. mpc[m] = "begin" /\ UNCHANGED <<log, committed, owner, pos>>
    BY <1>6 DEF Begin
  <2>2. CASE \E s \in {"dead", "reject", "publish"} : Goto(m, s)
    BY <1>2, <2>1, <2>2 DEF Steps, Handling
  <2>3. CASE Goto(m, "commit") /\ processed[Current(m)] = "done" /\ UNCHANGED dedupVars
    <3>1. processed'[Current(m)] = "done" \/ pos[m] \in dlq'
      BY <2>3, <2>1 DEF dedupVars
    <3> QED BY <1>1, <2>1, <2>3, <3>1, OffsetsWithinRecord DEF Steps, Handling
  <2> QED BY <1>6, <2>2, <2>3 DEF Begin
<1>7. ASSUME NEW m \in Members, BeginLost(m) PROVE Offsets'
  <2>1. mpc[m] = "begin" /\ Goto(m, "begin") /\ UNCHANGED <<log, committed, owner, pos>>
    BY <1>7 DEF BeginLost, Goto, Base, DeliveryTypeOK
  <2> QED BY <1>2, <2>1 DEF Steps, Handling
<1>8. ASSUME NEW m \in Members, Reject(m) \/ FailRecord(m) \/ Publish(m) \/ PublishFailed(m) PROVE Offsets'
  <2>1. /\ mpc[m] \in Handling /\ UNCHANGED <<log, committed, owner, pos>>
        /\ \E s \in {"dead", "begin", "done", "fail"} : Goto(m, s)
    BY <1>8 DEF Reject, FailRecord, Publish, PublishFailed, Handling
  <2> QED BY <1>2, <2>1 DEF Steps
<1>9. ASSUME NEW m \in Members, Done(m) PROVE Offsets'
  <2>1. mpc[m] = "done" /\ UNCHANGED <<log, committed, owner, pos>>
    BY <1>9 DEF Done
  <2>2. CASE Goto(m, "begin")
    BY <1>2, <2>1, <2>2 DEF Steps, Handling
  <2>3. CASE Goto(m, "commit") /\ Release(Current(m), "done")
    <3>1. Current(m) \in Events
      BY <2>1, CurrentEvent DEF Current, Handling
    <3>2. processed'[Current(m)] = "done"
      BY <2>3, <3>1 DEF Release, Base, DeliveryTypeOK
    <3> QED BY <1>1, <2>1, <2>3, <3>2, OffsetsWithinRecord DEF Steps, Handling
  <2> QED BY <1>9, <2>2, <2>3 DEF Done
<1>10. ASSUME NEW m \in Members, DeadLetter(m) PROVE Offsets'
  <2>1. mpc[m] = "dead" /\ UNCHANGED <<log, committed, owner, pos>>
    BY <1>10 DEF DeadLetter
  <2>2. CASE Goto(m, "new")
    BY <1>2, <2>1, <2>2 DEF Steps, Handling
  <2>3. CASE Goto(m, "commit") /\ dlq' = dlq \cup {pos[m]}
    BY <1>1, <2>1, <2>3, OffsetsWithinRecord DEF Steps, Handling
  <2> QED BY <1>10, <2>2, <2>3 DEF DeadLetter
<1>11. ASSUME NEW m \in Members, CommitRecord(m) PROVE Offsets'
  <2>1. /\ mpc[m] = "commit" /\ owner = m /\ committed' = pos[m] /\ UNCHANGED <<log, owner, processed, dlq>>
        /\ \A n \in Members \ {m} : mpc'[n] = mpc[n] /\ pos'[n] = pos[n]
        /\ mpc'[m] \notin Handling \/ (mpc'[m] = "begin" /\ pos'[m] = pos[m] + 1)
    BY <1>11 DEF CommitRecord, Goto, dedupVars, Base, DeliveryTypeOK, Handling
  <2> QED BY <2>1, OffsetsCommit
<1>12. ASSUME NEW m \in Members, CommitFailed(m) PROVE Offsets'
  <2>1. /\ mpc[m] = "commit" /\ Goto(m, "new") /\ UNCHANGED <<log, owner, pos, processed, dlq>>
        /\ mpc'[m] \notin Handling
        /\ \A n \in Members \ {m} : mpc'[n] = mpc[n] /\ pos'[n] = pos[n]
    BY <1>12 DEF CommitFailed, Goto, dedupVars, Base, DeliveryTypeOK, Handling
  <2>2. CASE UNCHANGED committed
    BY <1>2, <2>1, <2>2 DEF Steps, Handling
  <2>3. CASE owner = m /\ committed' = pos[m]
    BY <2>1, <2>3, OffsetsCommit
  <2> QED BY <1>12, <2>2, <2>3 DEF CommitFailed
<1>13. ASSUME NEW e \in Events, Arrival(e) PROVE Offsets'
  BY <1>13, OffsetsAppend
<1>14. ASSUME NEW e \in Events, LockExpires(e) PROVE Offsets'
  BY <1>14, OffsetsElsewhere DEF LockExpires
<1> QED
  BY <1>3, <1>4, <1>5, <1>6, <1>7, <1>8, <1>9, <1>10, <1>11, <1>12, <1>13, <1>14
     DEF DeliverySteps, DeliveryNext, Consume

-----------------------------------------------------------------------------
(* Copies *)

\* A member leaves the dedup row, or was never at one, and the row stays.  If it
\* leaves a message unmarked, the event is disturbed.
LEMMA CopiesLeave ==
    ASSUME Base, Copies, NEW m \in Members,
           UNCHANGED <<log, processed, locked, stale, copies>>,
           deliveryDisturbed \subseteq deliveryDisturbed',
           \A n \in Members \ {m} : mpc'[n] = mpc[n] /\ pos'[n] = pos[n],
           mpc'[m] \notin Work,
           mpc[m] = "done" => Current(m) \in deliveryDisturbed'
    PROVE  Copies'
<1>1. \A n \in Members \ {m}, e \in Events : On(n, e)' <=> On(n, e)
  BY DEF On
<1>2. DoneIsDelivered' /\ ProcessedIsDelivered' /\ WorkerHoldsRow' /\ OneWorker'
  BY <1>1 DEF Copies, DoneIsDelivered, ProcessedIsDelivered, WorkerHoldsRow, OneWorker, Work
<1>3. SentIsSettled'
  <2> SUFFICES ASSUME NEW e \in Events, copies[e] > 0, e \notin deliveryDisturbed'
               PROVE  /\ copies[e] = 1
                      /\ processed[e] = "done" \/ \E n \in Members : mpc'[n] = "done" /\ On(n, e)'
    BY DEF SentIsSettled
  <2>1. /\ copies[e] = 1
        /\ processed[e] = "done" \/ \E n \in Members : mpc[n] = "done" /\ On(n, e)
    BY DEF Copies, SentIsSettled
  <2>2. ASSUME NEW n \in Members, mpc[n] = "done", On(n, e) PROVE n # m
    BY <2>2 DEF On, Current
  <2> QED BY <2>1, <2>2, <1>1
<1> QED BY <1>2, <1>3 DEF Copies

LEMMA CopiesAppend == ASSUME Base, Copies, NEW e \in Events, Arrival(e) PROVE Copies'
<1>1. /\ log \in Seq(Events) /\ Len(log) \in Nat /\ Len(log') = Len(log) + 1
      /\ \A i \in 1..Len(log) : log'[i] = log[i]
  BY DEF Arrival, Base, DeliveryTypeOK
<1>2. UNCHANGED <<mpc, pos, processed, locked, stale, copies, deliveryDisturbed>>
  BY DEF Arrival, deliveryVars, dedupVars
<1>3. ASSUME NEW m \in Members, NEW x \in Events, mpc[m] \in Work
      PROVE  On(m, x)' <=> On(m, x)
  BY <1>1, <1>2, <1>3 DEF On, Base, OnRecord, Handling, Work
<1> QED
  BY <1>2, <1>3
     DEF Copies, DoneIsDelivered, ProcessedIsDelivered, WorkerHoldsRow, OneWorker, SentIsSettled, Work

LEMMA CopiesOwner ==
    ASSUME Copies, UNCHANGED <<log, mpc, pos, processed, locked, stale, copies>>, deliveryDisturbed' = deliveryDisturbed
    PROVE  Copies'
<1>1. \A n \in Members, e \in Events : On(n, e)' <=> On(n, e)
  BY DEF On
<1> QED
  BY <1>1 DEF Copies, DoneIsDelivered, ProcessedIsDelivered, WorkerHoldsRow, OneWorker, SentIsSettled

\* A lease that runs out under a working member disturbs the event.
LEMMA CopiesLease == ASSUME Base, Copies, NEW e \in Events, LockExpires(e) PROVE Copies'
<1>1. /\ UNCHANGED <<log, mpc, pos, processed, locked, copies>>
      /\ \A x \in Events \ {e} : stale'[x] = stale[x]
      /\ deliveryDisturbed \subseteq deliveryDisturbed'
      /\ Working(e) => e \in deliveryDisturbed'
  BY DEF LockExpires, DeliveryFault, NoDeliveryFault, Base, DeliveryTypeOK
<1>2. \A n \in Members, x \in Events : On(n, x)' <=> On(n, x)
  BY <1>1 DEF On
<1>3. DoneIsDelivered' /\ ProcessedIsDelivered' /\ OneWorker' /\ SentIsSettled'
  BY <1>1, <1>2 DEF Copies, DoneIsDelivered, ProcessedIsDelivered, OneWorker, SentIsSettled
<1>4. WorkerHoldsRow'
  <2> SUFFICES ASSUME NEW n \in Members, NEW x \in Events, mpc[n] \in Work, On(n, x), x \notin deliveryDisturbed'
               PROVE  locked[x] /\ ~stale'[x]
    BY <1>1, <1>2 DEF WorkerHoldsRow
  <2>1. x # e
    BY <1>1 DEF Working, On, Current, Work
  <2> QED BY <2>1, <1>1 DEF Copies, WorkerHoldsRow
<1> QED BY <1>3, <1>4 DEF Copies

\* Taking a free or stale row: nobody works on the event, unless disturbed.
LEMMA CopiesAcquire ==
    ASSUME Base, Copies, NEW m \in Members, NEW e \in Events, On(m, e), mpc[m] = "begin",
           processed[e] # "done", ~locked[e] \/ stale[e], Acquire(e),
           NEW s \in {"begin", "publish", "reject"}, Goto(m, s),
           UNCHANGED <<log, pos, copies>>, deliveryDisturbed' = deliveryDisturbed
    PROVE  Copies'
<1>1. /\ mpc'[m] = s /\ \A n \in Members \ {m} : mpc'[n] = mpc[n]
      /\ locked'[e] /\ ~stale'[e] /\ processed'[e] = "open"
      /\ \A x \in Events \ {e} : locked'[x] = locked[x] /\ stale'[x] = stale[x] /\ processed'[x] = processed[x]
  BY DEF Goto, Acquire, Base, DeliveryTypeOK
<1>2. \A n \in Members, x \in Events : On(n, x)' <=> On(n, x)
  BY DEF On
<1>3. ASSUME NEW n \in Members, mpc[n] \in Work, On(n, e), e \notin deliveryDisturbed PROVE FALSE
  BY <1>3 DEF Copies, WorkerHoldsRow
<1>4. \A x \in Events : On(m, x) => x = e
  BY DEF On
<1>5. DoneIsDelivered' /\ ProcessedIsDelivered'
  BY <1>1, <1>2 DEF Copies, DoneIsDelivered, ProcessedIsDelivered
<1>6. WorkerHoldsRow'
  BY <1>1, <1>2, <1>4 DEF Copies, WorkerHoldsRow
<1>7. OneWorker'
  <2> SUFFICES ASSUME NEW n \in Members, NEW l \in Members, NEW x \in Events,
                      mpc'[n] \in Work, On(n, x), mpc'[l] \in Work, On(l, x), x \notin deliveryDisturbed
               PROVE  n = l
    BY <1>2 DEF OneWorker
  <2>1. CASE x = e
    BY <2>1, <1>1, <1>3
  <2>2. CASE x # e
    BY <2>2, <1>1, <1>4 DEF Copies, OneWorker
  <2> QED BY <2>1, <2>2
<1>8. SentIsSettled'
  <2> SUFFICES ASSUME NEW x \in Events, copies[x] > 0, x \notin deliveryDisturbed
               PROVE  /\ copies[x] = 1
                      /\ processed'[x] = "done" \/ \E n \in Members : mpc'[n] = "done" /\ On(n, x)
    BY <1>2 DEF SentIsSettled
  <2>1. /\ copies[x] = 1
        /\ processed[x] = "done" \/ \E n \in Members : mpc[n] = "done" /\ On(n, x)
    BY DEF Copies, SentIsSettled
  <2>2. x # e
    BY <2>1, <1>3 DEF Work
  <2>3. ASSUME NEW n \in Members, mpc[n] = "done" PROVE mpc'[n] = "done"
    BY <2>3, <1>1
  <2> QED BY <2>1, <2>2, <2>3, <1>1
<1> QED BY <1>5, <1>6, <1>7, <1>8 DEF Copies

\* The message goes out for the first time.
LEMMA CopiesPublish == ASSUME Base, Copies, NEW m \in Members, Publish(m) PROVE Copies'
<1>1. PICK e \in Events : e = Current(m)
  BY CurrentEvent DEF Publish, Current, Handling
<1>2. /\ mpc[m] = "publish" /\ mpc'[m] = "done" /\ \A n \in Members \ {m} : mpc'[n] = mpc[n]
      /\ copies'[e] = copies[e] + 1 /\ \A x \in Events \ {e} : copies'[x] = copies[x]
      /\ UNCHANGED <<log, pos, processed, locked, stale, deliveryDisturbed>> /\ On(m, e)
      /\ \A x \in Events : copies[x] \in Nat
  BY <1>1 DEF Publish, Goto, dedupVars, Base, DeliveryTypeOK, On, Current
<1>3. \A n \in Members, x \in Events : On(n, x)' <=> On(n, x)
  BY <1>2 DEF On
<1>4. \A x \in Events : On(m, x) => x = e
  BY <1>2 DEF On
<1>5. DoneIsDelivered' /\ ProcessedIsDelivered'
  BY <1>2, <1>3, <1>4 DEF Copies, DoneIsDelivered, ProcessedIsDelivered
<1>6. WorkerHoldsRow' /\ OneWorker'
  BY <1>2, <1>3 DEF Copies, WorkerHoldsRow, OneWorker, Work
<1>7. e \notin deliveryDisturbed => copies[e] = 0
  <2> SUFFICES ASSUME e \notin deliveryDisturbed, copies[e] > 0 PROVE FALSE
    BY <1>2
  <2>1. locked[e]
    BY <1>2 DEF Copies, WorkerHoldsRow, Work
  <2>2. processed[e] # "done"
    BY <2>1 DEF Base, DeliveryTypeOK
  <2>3. PICK n \in Members : mpc[n] = "done" /\ On(n, e)
    BY <2>2 DEF Copies, SentIsSettled
  <2>4. n = m
    BY <2>3, <1>2 DEF Copies, OneWorker, Work
  <2> QED BY <2>3, <2>4, <1>2
<1>8. SentIsSettled'
  <2> SUFFICES ASSUME NEW x \in Events, copies'[x] > 0, x \notin deliveryDisturbed
               PROVE  /\ copies'[x] = 1
                      /\ processed[x] = "done" \/ \E n \in Members : mpc'[n] = "done" /\ On(n, x)
    BY <1>2, <1>3 DEF SentIsSettled
  <2>1. CASE x = e
    BY <2>1, <1>2, <1>7
  <2>2. CASE x # e
    BY <2>2, <1>2 DEF Copies, SentIsSettled
  <2> QED BY <2>1, <2>2
<1> QED BY <1>5, <1>6, <1>8 DEF Copies

LEMMA CopiesPublishFailed == ASSUME Base, Copies, NEW m \in Members, PublishFailed(m) PROVE Copies'
<1>1. PICK e \in Events : e = Current(m)
  BY CurrentEvent DEF PublishFailed, Current, Handling
<1>2. /\ mpc[m] = "publish" /\ mpc'[m] = "fail" /\ \A n \in Members \ {m} : mpc'[n] = mpc[n]
      /\ UNCHANGED <<log, pos, processed, locked, stale>> /\ deliveryDisturbed \subseteq deliveryDisturbed'
      /\ \A x \in Events : copies[x] \in Nat
  BY <1>1 DEF PublishFailed, Goto, dedupVars, Base, DeliveryTypeOK, DeliveryFault, NoDeliveryFault
<1>3. /\ \A x \in Events \ {e} : copies'[x] = copies[x]
      /\ copies'[e] >= copies[e]
      /\ e \notin deliveryDisturbed' => copies'[e] = copies[e]
  BY <1>1, <1>2 DEF PublishFailed, DeliveryFault, NoDeliveryFault, Base, DeliveryTypeOK
<1>4. \A n \in Members, x \in Events : On(n, x)' <=> On(n, x)
  BY <1>2 DEF On
<1>5. \A x \in Events : copies[x] > 0 => copies'[x] > 0
  <2> SUFFICES ASSUME NEW x \in Events, copies[x] > 0 PROVE copies'[x] > 0
    OBVIOUS
  <2>1. copies'[e] \in Int
    BY <1>1, <1>2 DEF PublishFailed, Base, DeliveryTypeOK
  <2> QED BY <2>1, <1>2, <1>3
<1>6. DoneIsDelivered' /\ ProcessedIsDelivered'
  BY <1>2, <1>4, <1>5 DEF Copies, DoneIsDelivered, ProcessedIsDelivered
<1>7. WorkerHoldsRow' /\ OneWorker'
  BY <1>2, <1>4 DEF Copies, WorkerHoldsRow, OneWorker, Work
<1>8. SentIsSettled'
  <2> SUFFICES ASSUME NEW x \in Events, copies'[x] > 0, x \notin deliveryDisturbed'
               PROVE  /\ copies'[x] = 1
                      /\ processed[x] = "done" \/ \E n \in Members : mpc'[n] = "done" /\ On(n, x)
    BY <1>2, <1>4 DEF SentIsSettled
  <2>1. copies'[x] = copies[x] /\ x \notin deliveryDisturbed
    BY <1>2, <1>3
  <2>2. /\ copies[x] = 1
        /\ processed[x] = "done" \/ \E n \in Members : mpc[n] = "done" /\ On(n, x)
    BY <2>1 DEF Copies, SentIsSettled
  <2>3. ASSUME NEW n \in Members, mpc[n] = "done" PROVE mpc'[n] = "done"
    BY <2>3, <1>2
  <2> QED BY <2>1, <2>2, <2>3
<1> QED BY <1>6, <1>7, <1>8 DEF Copies

\* The only worker of an undisturbed event gives its row back, the event
\* marked if the message is out.
LEMMA CopiesRelease ==
    ASSUME Base, Copies, NEW m \in Members, NEW e \in Events, On(m, e), mpc[m] \in Work,
           NEW to \in {"open", "done"}, Release(e, to),
           to = "done" => mpc[m] = "done",
           to = "open" => mpc[m] # "done" /\ processed[e] = "open",
           NEW s \in Steps \ Work, Goto(m, s),
           UNCHANGED <<log, pos, copies>>, deliveryDisturbed' = deliveryDisturbed
    PROVE  Copies'
<1>1. /\ mpc'[m] = s /\ \A n \in Members \ {m} : mpc'[n] = mpc[n]
      /\ processed'[e] = to
      /\ \A x \in Events \ {e} : locked'[x] = locked[x] /\ stale'[x] = stale[x] /\ processed'[x] = processed[x]
  BY DEF Goto, Release, Base, DeliveryTypeOK
<1>2. \A n \in Members, x \in Events : On(n, x)' <=> On(n, x)
  BY DEF On
<1>3. ASSUME NEW n \in Members \ {m}, mpc[n] \in Work, On(n, e), e \notin deliveryDisturbed PROVE FALSE
  BY <1>3 DEF Copies, OneWorker
<1>4. DoneIsDelivered' /\ ProcessedIsDelivered'
  BY <1>1, <1>2 DEF Copies, DoneIsDelivered, ProcessedIsDelivered, Work
<1>5. WorkerHoldsRow' /\ OneWorker'
  BY <1>1, <1>2, <1>3 DEF Copies, WorkerHoldsRow, OneWorker
<1>6. SentIsSettled'
  <2> SUFFICES ASSUME NEW x \in Events, copies[x] > 0, x \notin deliveryDisturbed
               PROVE  /\ copies[x] = 1
                      /\ processed'[x] = "done" \/ \E n \in Members : mpc'[n] = "done" /\ On(n, x)
    BY <1>2 DEF SentIsSettled
  <2>1. /\ copies[x] = 1
        /\ processed[x] = "done" \/ \E n \in Members : mpc[n] = "done" /\ On(n, x)
    BY DEF Copies, SentIsSettled
  <2>2. CASE x = e
    <3>1. to = "done"
      BY <2>1, <2>2, <1>3 DEF Work
    <3> QED BY <2>1, <2>2, <3>1, <1>1
  <2>3. CASE x # e
    <3>1. \A n \in Members : On(n, x) => n # m
      BY <2>3 DEF On
    <3> QED BY <2>1, <2>3, <3>1, <1>1
  <2> QED BY <2>2, <2>3
<1> QED BY <1>4, <1>5, <1>6 DEF Copies

LEMMA CopiesStep == ASSUME Base, Copies, DeliverySteps PROVE Copies'
<1>0. DeliveryTypeOK
  BY DEF Base
<1>1. ASSUME NEW m \in Members, Join(m) \/ Poll(m) \/ CommitRecord(m) PROVE Copies'
  <2>1. /\ UNCHANGED <<log, processed, locked, stale, copies, deliveryDisturbed>>
        /\ \A n \in Members \ {m} : mpc'[n] = mpc[n] /\ pos'[n] = pos[n]
        /\ mpc'[m] \notin Work /\ mpc[m] # "done"
    BY <1>0, <1>1 DEF Join, Poll, CommitRecord, Goto, dedupVars, DeliveryTypeOK, Work
  <2> QED BY <2>1, CopiesLeave
<1>2. ASSUME NEW m \in Members, CommitFailed(m) \/ DeadLetter(m) PROVE Copies'
  <2>1. /\ UNCHANGED <<log, processed, locked, stale, copies>>
        /\ \A n \in Members \ {m} : mpc'[n] = mpc[n] /\ pos'[n] = pos[n]
        /\ mpc'[m] \notin Work /\ mpc[m] # "done"
    BY <1>0, <1>2 DEF CommitFailed, DeadLetter, Goto, dedupVars, DeliveryTypeOK, Work
  <2>2. deliveryDisturbed \subseteq deliveryDisturbed'
    BY <1>2 DEF CommitFailed, DeadLetter, DeliveryFault, NoDeliveryFault
  <2> QED BY <2>1, <2>2, CopiesLeave
<1>3. ASSUME NEW m \in Members, ConsumerCrash(m) PROVE Copies'
  <2>1. /\ UNCHANGED <<log, processed, locked, stale, copies>>
        /\ \A n \in Members \ {m} : mpc'[n] = mpc[n] /\ pos'[n] = pos[n]
        /\ mpc'[m] \notin Work
    BY <1>0, <1>3 DEF ConsumerCrash, Goto, dedupVars, DeliveryTypeOK, Work
  <2>2. deliveryDisturbed \subseteq deliveryDisturbed' /\ (mpc[m] = "done" => Current(m) \in deliveryDisturbed')
    BY <1>3 DEF ConsumerCrash, DeliveryFault
  <2> QED BY <2>1, <2>2, CopiesLeave
<1>4. ASSUME NEW m \in Members, Assign(m) \/ Rebalance(m) PROVE Copies'
  <2>1. UNCHANGED <<log, mpc, pos, processed, locked, stale, copies, deliveryDisturbed>>
    BY <1>4 DEF Assign, Rebalance, DeliveryFault, dedupVars
  <2> QED BY <2>1, CopiesOwner
<1>5. ASSUME NEW m \in Members, mpc[m] \in Handling PROVE Current(m) \in Events /\ On(m, Current(m))
  BY <1>5, CurrentEvent DEF Current, On
\* The branches that leave the dedup row alone.
<1>6. ASSUME NEW m \in Members, NEW s \in Steps \ Work, Goto(m, s), UNCHANGED dedupVars,
             NoDeliveryFault \/ DeliveryFault({Current(m)}), mpc[m] = "done" => DeliveryFault({Current(m)}),
             UNCHANGED <<log, pos, copies>>
      PROVE  Copies'
  <2>1. /\ UNCHANGED <<log, processed, locked, stale, copies>>
        /\ \A n \in Members \ {m} : mpc'[n] = mpc[n] /\ pos'[n] = pos[n]
        /\ mpc'[m] \notin Work
    BY <1>0, <1>6 DEF Goto, dedupVars, DeliveryTypeOK
  <2>2. deliveryDisturbed \subseteq deliveryDisturbed' /\ (mpc[m] = "done" => Current(m) \in deliveryDisturbed')
    BY <1>6 DEF DeliveryFault, NoDeliveryFault
  <2> QED BY <2>1, <2>2, CopiesLeave
<1>7. ASSUME NEW m \in Members, Begin(m) PROVE Copies'
  <2>1. /\ mpc[m] = "begin" /\ UNCHANGED <<log, pos, copies>> /\ NoDeliveryFault /\ deliveryDisturbed' = deliveryDisturbed
        /\ Current(m) \in Events /\ On(m, Current(m))
    BY <1>5, <1>7 DEF Begin, NoDeliveryFault, Handling
  <2>2. CASE (Goto(m, "dead") \/ Goto(m, "commit")) /\ UNCHANGED dedupVars
    BY <1>6, <2>1, <2>2 DEF Steps, Work
  <2>3. CASE /\ processed[Current(m)] # "done" /\ (~locked[Current(m)] \/ stale[Current(m)])
             /\ Acquire(Current(m)) /\ Goto(m, IF Current(m) \in BadPayload THEN "reject" ELSE "publish")
    BY <2>1, <2>3, CopiesAcquire
  <2> QED BY <1>7, <2>2, <2>3 DEF Begin
<1>8. ASSUME NEW m \in Members, BeginLost(m) PROVE Copies'
  <2>1. /\ mpc[m] = "begin" /\ UNCHANGED <<log, pos, copies>> /\ deliveryDisturbed' = deliveryDisturbed
        /\ Current(m) \in Events /\ On(m, Current(m)) /\ Goto(m, "begin")
    BY <1>0, <1>5, <1>8 DEF BeginLost, DeliveryFault, Handling, Goto, DeliveryTypeOK
  <2>2. /\ processed[Current(m)] # "done" /\ (~locked[Current(m)] \/ stale[Current(m)])
        /\ Acquire(Current(m))
    BY <1>8 DEF BeginLost
  <2> QED BY <2>1, <2>2, CopiesAcquire
<1>9. ASSUME NEW m \in Members, Reject(m) \/ FailRecord(m) PROVE Copies'
  <2>1. /\ mpc[m] \in {"reject", "fail"} /\ UNCHANGED <<log, pos, copies>>
        /\ Current(m) \in Events /\ On(m, Current(m))
    BY <1>5, <1>9 DEF Reject, FailRecord, Handling
  <2>2. PICK s \in {"dead", "begin"} : Goto(m, s)
    BY <1>9 DEF Reject, FailRecord
  <2>3. CASE processed[Current(m)] = "open" /\ Release(Current(m), "open") /\ NoDeliveryFault
    <3>1. deliveryDisturbed' = deliveryDisturbed /\ mpc[m] \in Work /\ mpc[m] # "done" /\ s \in Steps \ Work
      BY <2>1, <2>3 DEF NoDeliveryFault, Steps, Work
    <3> QED BY <2>1, <2>2, <2>3, <3>1, CopiesRelease
  <2>4. CASE UNCHANGED dedupVars /\ (NoDeliveryFault \/ DeliveryFault({Current(m)}))
    BY <1>6, <2>1, <2>2, <2>4 DEF Steps, Work
  <2> QED BY <1>9, <2>3, <2>4 DEF Reject, FailRecord
<1>10. ASSUME NEW m \in Members, Done(m) PROVE Copies'
  <2>1. /\ mpc[m] = "done" /\ UNCHANGED <<log, pos, copies>>
        /\ Current(m) \in Events /\ On(m, Current(m))
    BY <1>5, <1>10 DEF Done, Handling
  <2>2. CASE Release(Current(m), "done") /\ Goto(m, "commit") /\ NoDeliveryFault
    <3>1. deliveryDisturbed' = deliveryDisturbed /\ mpc[m] \in Work /\ "commit" \in Steps \ Work
      BY <2>1, <2>2 DEF NoDeliveryFault, Steps, Work
    <3> QED BY <2>1, <2>2, <3>1, CopiesRelease
  <2>3. CASE UNCHANGED dedupVars /\ Goto(m, "begin") /\ DeliveryFault({Current(m)})
    BY <1>6, <2>1, <2>3 DEF Steps, Work
  <2> QED BY <1>10, <2>2, <2>3 DEF Done
<1>11. ASSUME NEW m \in Members, Publish(m) \/ PublishFailed(m) PROVE Copies'
  BY <1>11, CopiesPublish, CopiesPublishFailed
<1>12. ASSUME NEW e \in Events, Arrival(e) \/ LockExpires(e) PROVE Copies'
  BY <1>12, CopiesAppend, CopiesLease
<1> QED
  BY <1>1, <1>2, <1>3, <1>4, <1>7, <1>8, <1>9, <1>10, <1>11, <1>12 DEF DeliverySteps, DeliveryNext, Consume

-----------------------------------------------------------------------------
(* The theorems *)

LEMMA DeliveryIndInit == DeliveryInit => DeliveryInd
<1> SUFFICES ASSUME DeliveryInit PROVE DeliveryInd
  OBVIOUS
<1>1. Base
  BY BaseInit
<1>2. Offsets
  BY DEF DeliveryInit, Offsets, OwnerIsNext, CommitIsSettled, NoSilentSkip, Handling
<1>3. Copies
  BY DEF DeliveryInit, Copies, DoneIsDelivered, ProcessedIsDelivered, WorkerHoldsRow, OneWorker, SentIsSettled, Work
<1> QED BY <1>1, <1>2, <1>3 DEF DeliveryInd

LEMMA DeliveryIndStep == DeliveryInd /\ [DeliverySteps]_(groupVars) => DeliveryInd'
<1> SUFFICES ASSUME DeliveryInd, [DeliverySteps]_(groupVars) PROVE DeliveryInd'
  OBVIOUS
<1>0. Base /\ Offsets /\ Copies
  BY DEF DeliveryInd
<1>1. Base'
  BY <1>0, BaseStep
<1>2. CASE DeliverySteps
  BY <1>0, <1>1, <1>2, OffsetsStep, CopiesStep DEF DeliveryInd
<1>3. CASE UNCHANGED groupVars
  <2>1. UNCHANGED <<log, committed, owner, mpc, pos, processed, locked, stale, copies, dlq, deliveryDisturbed>>
    BY <1>3 DEF groupVars, deliveryVars, dedupVars
  <2>2. Offsets'
    BY <1>0, <2>1, OffsetsElsewhere
  <2>3. Copies'
    BY <1>0, <2>1, CopiesOwner
  <2> QED BY <1>1, <2>2, <2>3 DEF DeliveryInd
<1> QED BY <1>2, <1>3

\* The inductive invariant of the consumer: the types, the argument about
\* offsets (mq.Consumer.Run) and the one about copies (eventdedup.Store).
THEOREM GiftDeliveryInvariant == DeliverySpec => []DeliveryInd
<1>1. DeliveryInit => DeliveryInd
  BY DeliveryIndInit
<1>2. DeliveryInd /\ [DeliveryWithArrivals]_(groupVars) => DeliveryInd'
  BY DeliveryIndStep DEF DeliveryWithArrivals, Append1, DeliverySteps, Arrival
<1> QED BY <1>1, <1>2, PTL DEF DeliverySpec

\* The types of mq.Consumer.Run's and eventdedup.Store's state; only an open
\* dedup row is ever locked.
THEOREM GiftDeliveryTypes == DeliverySpec => []DeliveryTypeOK
<1>1. DeliveryInd => DeliveryTypeOK
  BY DEF DeliveryInd, Base
<1> QED BY <1>1, GiftDeliveryInvariant, PTL

\* mq.Consumer.Run commits an offset only after the record is processed or in
\* the dead-letter topic, for any crashes, rebalances and fenced commits.
THEOREM NoRecordSkipped == DeliverySpec => []NoSilentSkip
<1>1. DeliveryInd => NoSilentSkip
  BY DEF DeliveryInd, Offsets
<1> QED BY <1>1, GiftDeliveryInvariant, PTL

\* eventdedup.Store.Done runs only after Publish: a processed event has been
\* delivered.
THEOREM ProcessedWasDelivered == DeliverySpec => []ProcessedIsDelivered
<1>1. DeliveryInd => ProcessedIsDelivered
  BY DEF DeliveryInd, Copies
<1> QED BY <1>1, GiftDeliveryInvariant, PTL

\* eventdedup.Store absorbs every copy of an event the partition holds: a
\* second publication needs a lease that ran out, a crash or a lost answer.
THEOREM DeliveredOnce == DeliverySpec => []DeliveredOnceUnlessDisturbed
<1>1. ASSUME DeliveryInd PROVE DeliveredOnceUnlessDisturbed
  <2>1. copies \in [Events -> Nat]
    BY <1>1 DEF DeliveryInd, Base, DeliveryTypeOK
  <2>2. SentIsSettled
    BY <1>1 DEF DeliveryInd, Copies
  <2>3. ASSUME NEW e \in Events, copies[e] > 1, e \notin deliveryDisturbed PROVE FALSE
    <3>1. copies[e] \in Nat /\ copies[e] > 0
      BY <2>1, <2>3
    <3>2. copies[e] = 1
      BY <2>2, <2>3, <3>1 DEF SentIsSettled
    <3> QED BY <2>3, <3>2
  <2> QED BY <2>3 DEF DeliveredOnceUnlessDisturbed
<1> QED BY <1>1, GiftDeliveryInvariant, PTL

\* The committed offset of the group never moves back, whatever a member that
\* lost the partition still does.
THEOREM OffsetAdvances == DeliverySpec => OffsetOnlyAdvances
<1>1. DeliveryInd /\ [DeliveryWithArrivals]_(groupVars) => [committed' >= committed]_(groupVars)
  <2> SUFFICES ASSUME DeliveryInd, DeliveryWithArrivals PROVE committed' >= committed
    OBVIOUS
  <2>0. committed \in Nat
    BY DEF DeliveryInd, Base, DeliveryTypeOK
  <2>1. ASSUME NEW m \in Members, CommitRecord(m) \/ CommitFailed(m) PROVE committed' >= committed
    <3>1. mpc[m] \in Handling /\ (committed' = committed \/ (owner = m /\ committed' = pos[m]))
      BY <2>1 DEF CommitRecord, CommitFailed, Handling
    <3> QED BY <2>0, <3>1 DEF DeliveryInd, Offsets, OwnerIsNext
  <2>2. ASSUME NEW m \in Members,
               Join(m) \/ Assign(m) \/ Rebalance(m) \/ Poll(m) \/ Begin(m) \/ BeginLost(m) \/ Reject(m)
        PROVE  committed' = committed
    BY <2>2 DEF Join, Assign, Rebalance, Poll, Begin, BeginLost, Reject
  <2>3. ASSUME NEW m \in Members,
               Publish(m) \/ PublishFailed(m) \/ FailRecord(m) \/ Done(m) \/ DeadLetter(m) \/ ConsumerCrash(m)
        PROVE  committed' = committed
    BY <2>3 DEF Publish, PublishFailed, FailRecord, Done, DeadLetter, ConsumerCrash
  <2>4. ASSUME NEW e \in Events, Append1(e) \/ LockExpires(e) PROVE committed' = committed
    BY <2>4 DEF Append1, LockExpires, deliveryVars, dedupVars
  <2> QED BY <2>0, <2>1, <2>2, <2>3, <2>4 DEF DeliveryWithArrivals, DeliveryNext, Consume
<1> QED BY <1>1, GiftDeliveryInvariant, PTL DEF DeliverySpec, OffsetOnlyAdvances
-----------------------------------------------------------------------------
(* The pipeline *)

\* What is on the topic or in a batch is the event of a committed order.
LogIsAccepted == \A i \in 1..Len(log) : status[log[i]] # "absent"
BatchIsAccepted == \A w \in Workers : \A e \in batch[w] : status[e] # "absent"

\* What Handle found out about the record a member is at.
StepFitsEvent ==
    \A m \in Members :
        /\ mpc[m] \in {"publish", "fail", "done"} => log[pos[m]] \notin Undeliverable
        /\ mpc[m] \in {"reject", "dead"} => log[pos[m]] \in Undeliverable

DeliveredFit == \A e \in Events : copies[e] > 0 => e \notin Undeliverable
DeadLettersFit == \A i \in dlq : log[i] \in Undeliverable

PipelineInd ==
    /\ OutboxInd
    /\ DeliveryInd
    /\ LogIsAccepted
    /\ BatchIsAccepted
    /\ StepFitsEvent
    /\ DeliveredFit
    /\ DeadLettersFit
    /\ TopicCopiesHaveACause
    /\ replays \in Nat

\* What a step of the outbox may do to the rest of the pipeline.
LEMMA OutboxEffects ==
    ASSUME OutboxTypeOK, OutboxNext
    PROVE  /\ \/ \E e \in Events : status[e] = "absent" /\ status' = [status EXCEPT ![e] = "pending"]
              \/ \A e \in Events : status'[e] = "absent" <=> status[e] = "absent"
           /\ \A w \in Workers : \A e \in batch'[w] : e \in batch[w] \/ status'[e] = "claimed"
           /\ outboxDisturbed \subseteq outboxDisturbed'
           /\ \/ log' = log
              \/ \E w \in Workers : \E e \in batch[w] :
                    /\ log' = Append(log, e)
                    /\ wpc[w] = "produce"
<1> DEFINE Rows == \A e \in Events : status'[e] = "absent" <=> status[e] = "absent"
           Batches == \A w \in Workers : \A e \in batch'[w] : e \in batch[w] \/ status'[e] = "claimed"
           Grows == outboxDisturbed \subseteq outboxDisturbed'
<1>1. ASSUME NEW w \in Workers, Start(w) \/ PublisherCrash(w) PROVE Rows /\ Batches /\ Grows /\ log' = log
  BY <1>1 DEF Start, PublisherCrash, rowVars, OutboxTypeOK
<1>2. ASSUME NEW w \in Workers, Claim(w) \/ ClaimLost(w) PROVE Rows /\ Batches /\ Grows /\ log' = log
  <2> DEFINE S == FirstById(Claimable)
  <2>1. S \subseteq Claimable /\ S \subseteq Events
    BY FirstByIdSubset DEF Claimable
  <2>2. \A e \in S : status[e] # "absent"
    BY <2>1 DEF Claimable
  <2>3. /\ status' = [e \in Events |-> IF e \in S THEN "claimed" ELSE status[e]]
        /\ batch' = [batch EXCEPT ![w] = S] \/ batch' = batch
        /\ log' = log
        /\ Grows
    BY <1>2 DEF Claim, ClaimLost, ClaimRows, OutboxFault, NoOutboxFault
  <2> HIDE DEF S
  <2>4. Batches
    BY <2>1, <2>3 DEF OutboxTypeOK
  <2> QED BY <2>1, <2>2, <2>3, <2>4
<1>3. ASSUME NEW w \in Workers, NEW e \in Events, MarkPublished(w, e) \/ MarkFailed(w, e) \/ MarkError(w, e)
      PROVE  Rows /\ Batches /\ Grows /\ log' = log
  <2>1. Rows
    BY <1>3 DEF MarkPublished, MarkFailed, MarkError, Holds, Unlock, rowVars, OutboxTypeOK
  <2>2. Batches
    BY <1>3 DEF MarkPublished, MarkFailed, MarkError, Advance, OutboxTypeOK
  <2>3. Grows /\ log' = log
    BY <1>3 DEF MarkPublished, MarkFailed, MarkError, OutboxFault, NoOutboxFault
  <2> QED BY <2>1, <2>2, <2>3
<1>4. ASSUME NEW w \in Workers, NEW e \in Events, Produce(w, e) \/ ProduceFailed(w, e)
      PROVE  /\ Rows /\ Batches /\ Grows
             /\ e \in batch[w] /\ wpc[w] = "produce"
             /\ log' = log \/ log' = Append(log, e)
  BY <1>4 DEF Produce, ProduceFailed, IsCurrent, OutboxFault, NoOutboxFault, rowVars
<1>5. ASSUME NEW e \in Events, ClaimExpires(e) \/ RetryDue(e) PROVE Rows /\ Batches /\ Grows /\ log' = log
  BY <1>5 DEF ClaimExpires, RetryDue, OutboxFault, NoOutboxFault
<1>6. ASSUME NEW e \in Events, Insert(e)
      PROVE  /\ status[e] = "absent" /\ status' = [status EXCEPT ![e] = "pending"]
             /\ Batches /\ Grows /\ log' = log
  BY <1>6 DEF Insert
<1> HIDE DEF Rows, Batches, Grows
<1>7. \/ \E w \in Workers : Start(w) \/ PublisherCrash(w) \/ Claim(w) \/ ClaimLost(w)
      \/ \E w \in Workers, e \in Events :
            \/ MarkPublished(w, e) \/ MarkFailed(w, e) \/ MarkError(w, e)
            \/ Produce(w, e) \/ ProduceFailed(w, e)
      \/ \E e \in Events : ClaimExpires(e) \/ RetryDue(e) \/ Insert(e)
  BY DEF OutboxNext, Dispatch
<1> QED BY <1>1, <1>2, <1>3, <1>4, <1>5, <1>6, <1>7 DEF Rows, Batches, Grows

\* What a step of the consumer group may do to the rest of the pipeline.
LEMMA DeliveryEffects ==
    ASSUME Base, DeliveryNext
    PROVE  /\ log' = log
           /\ \/ UNCHANGED <<copies, dlq>>
              \/ \E m \in Members :
                    /\ mpc[m] = "publish"
                    /\ copies' = [copies EXCEPT ![log[pos[m]]] = @ + 1]
                    /\ dlq' = dlq
              \/ \E m \in Members :
                    /\ mpc[m] = "dead"
                    /\ dlq' = dlq \cup {pos[m]}
                    /\ copies' = copies
<1>1. ASSUME NEW m \in Members,
             Join(m) \/ Assign(m) \/ Rebalance(m) \/ Poll(m) \/ Begin(m) \/ BeginLost(m)
             \/ Reject(m) \/ FailRecord(m) \/ Done(m) \/ CommitRecord(m) \/ CommitFailed(m)
             \/ ConsumerCrash(m)
      PROVE  UNCHANGED <<log, copies, dlq>>
  BY <1>1 DEF Join, Assign, Rebalance, Poll, Begin, BeginLost, Reject, FailRecord,
              Done, CommitRecord, CommitFailed, ConsumerCrash
<1>2. ASSUME NEW m \in Members, Publish(m) \/ PublishFailed(m)
      PROVE  /\ log' = log /\ dlq' = dlq /\ mpc[m] = "publish"
             /\ copies' = copies \/ copies' = [copies EXCEPT ![log[pos[m]]] = @ + 1]
  BY <1>2 DEF Publish, PublishFailed, Current
<1>3. ASSUME NEW m \in Members, DeadLetter(m)
      PROVE  /\ log' = log /\ copies' = copies /\ mpc[m] = "dead"
             /\ dlq' = dlq \/ dlq' = dlq \cup {pos[m]}
  BY <1>3 DEF DeadLetter
<1>4. ASSUME NEW e \in Events, LockExpires(e) PROVE UNCHANGED <<log, copies, dlq>>
  BY <1>4 DEF LockExpires
<1>5. \/ \E e \in Events : LockExpires(e)
      \/ \E m \in Members : Publish(m) \/ PublishFailed(m)
      \/ \E m \in Members : DeadLetter(m)
      \/ \E m \in Members :
             Join(m) \/ Assign(m) \/ Rebalance(m) \/ Poll(m) \/ Begin(m) \/ BeginLost(m)
             \/ Reject(m) \/ FailRecord(m) \/ Done(m) \/ CommitRecord(m) \/ CommitFailed(m)
             \/ ConsumerCrash(m)
  BY DEF DeliveryNext, Consume
<1> QED BY <1>1, <1>2, <1>3, <1>4, <1>5

\* A member reaches a step only with a record the step is for.
LEMMA StepFitsStep == ASSUME Base, StepFitsEvent, DeliveryNext PROVE StepFitsEvent'
<1>0. log' = log
  BY DeliveryEffects
\* It is enough to look at the member that moves.
<1>1. ASSUME NEW m \in Members,
             \A n \in Members \ {m} : mpc'[n] = mpc[n] /\ pos'[n] = pos[n],
             mpc'[m] \in {"publish", "fail", "done"} => log[pos'[m]] \notin Undeliverable,
             mpc'[m] \in {"reject", "dead"} => log[pos'[m]] \in Undeliverable
      PROVE  StepFitsEvent'
  BY <1>0, <1>1 DEF StepFitsEvent
<1>2. ASSUME NEW m \in Members, Join(m) \/ Poll(m) \/ CommitRecord(m) \/ CommitFailed(m)
                                \/ ConsumerCrash(m) \/ DeadLetter(m) \/ FailRecord(m) \/ Done(m)
      PROVE  StepFitsEvent'
  <2>1. /\ \A n \in Members \ {m} : mpc'[n] = mpc[n] /\ pos'[n] = pos[n]
        /\ mpc'[m] \in {"new", "poll", "begin", "commit"}
    BY <1>2 DEF Join, Poll, CommitRecord, CommitFailed, ConsumerCrash, DeadLetter, FailRecord,
                Done, Goto, Base, DeliveryTypeOK
  <2> QED BY <2>1, <1>1
<1>3. ASSUME NEW m \in Members, Assign(m) \/ Rebalance(m) \/ BeginLost(m) PROVE StepFitsEvent'
  BY <1>0, <1>3 DEF Assign, Rebalance, BeginLost, StepFitsEvent
<1>4. ASSUME NEW e \in Events, LockExpires(e) PROVE StepFitsEvent'
  BY <1>0, <1>4 DEF LockExpires, StepFitsEvent
<1>5. ASSUME NEW m \in Members, Begin(m) PROVE StepFitsEvent'
  <2>1. /\ \A n \in Members \ {m} : mpc'[n] = mpc[n] /\ pos'[n] = pos[n]
        /\ pos'[m] = pos[m]
    BY <1>5 DEF Begin, Goto, Base, DeliveryTypeOK
  <2>2. \/ mpc'[m] = "dead" /\ log[pos[m]] \in Malformed
        \/ mpc'[m] = "commit"
        \/ mpc'[m] = "reject" /\ log[pos[m]] \in BadPayload
        \/ mpc'[m] = "publish" /\ log[pos[m]] \notin BadPayload /\ log[pos[m]] \notin Malformed
    BY <1>5 DEF Begin, Goto, Current, Base, DeliveryTypeOK
  <2> QED BY <2>1, <2>2, <1>1 DEF Undeliverable
<1>6. ASSUME NEW m \in Members, Publish(m) \/ PublishFailed(m) PROVE StepFitsEvent'
  <2>1. /\ \A n \in Members \ {m} : mpc'[n] = mpc[n] /\ pos'[n] = pos[n]
        /\ pos'[m] = pos[m] /\ mpc[m] = "publish" /\ mpc'[m] \in {"done", "fail"}
    BY <1>6 DEF Publish, PublishFailed, Goto, Base, DeliveryTypeOK
  <2> QED BY <2>1, <1>1 DEF StepFitsEvent
<1>7. ASSUME NEW m \in Members, Reject(m) PROVE StepFitsEvent'
  <2>1. /\ \A n \in Members \ {m} : mpc'[n] = mpc[n] /\ pos'[n] = pos[n]
        /\ pos'[m] = pos[m] /\ mpc[m] = "reject" /\ mpc'[m] \in {"dead", "begin"}
    BY <1>7 DEF Reject, Goto, Base, DeliveryTypeOK
  <2> QED BY <2>1, <1>1 DEF StepFitsEvent
<1> QED BY <1>2, <1>3, <1>4, <1>5, <1>6, <1>7 DEF DeliveryNext, Consume

\* What a record that arrives leaves of the log, and of what stands on it.
LEMMA ArrivalFrame ==
    ASSUME Base, NEW e \in Events, log' = Append(log, e)
    PROVE  /\ log' \in Seq(Events) /\ Len(log) \in Nat /\ Len(log') = Len(log) + 1
           /\ log'[Len(log) + 1] = e
           /\ \A i \in 1..Len(log) : log'[i] = log[i]
           /\ \A i \in dlq : log'[i] = log[i]
<1>1. log \in Seq(Events) /\ dlq \subseteq 1..Len(log)
  BY DEF Base, DeliveryTypeOK
<1>2. /\ log' \in Seq(Events) /\ Len(log) \in Nat /\ Len(log') = Len(log) + 1
      /\ log'[Len(log) + 1] = e
      /\ \A i \in 1..Len(log) : log'[i] = log[i]
  BY <1>1
<1> QED BY <1>1, <1>2

LEMMA ArrivalFits ==
    ASSUME Base, StepFitsEvent, DeadLettersFit, NEW e \in Events, Arrival(e)
    PROVE  StepFitsEvent' /\ DeadLettersFit'
<1>1. /\ UNCHANGED <<mpc, pos, dlq>>
      /\ \A i \in 1..Len(log) : log'[i] = log[i]
      /\ \A i \in dlq : log'[i] = log[i]
  BY ArrivalFrame DEF Arrival, deliveryVars, dedupVars
<1>2. \A m \in Members : mpc[m] \in {"publish", "fail", "done", "reject", "dead"} => pos[m] \in 1..Len(log)
  BY DEF Base, OnRecord, Handling
<1>3. StepFitsEvent'
  BY <1>1, <1>2 DEF StepFitsEvent
<1>4. DeadLettersFit'
  BY <1>1 DEF DeadLettersFit
<1> QED BY <1>3, <1>4

LEMMA ArrivalCopies ==
    ASSUME Base, TopicCopiesHaveACause, NEW e \in Events, log' = Append(log, e),
           \A x : MayBeCopied(x) => MayBeCopied(x)',
           InLog(e) => MayBeCopied(e)'
    PROVE  TopicCopiesHaveACause'
<1>1. /\ Len(log) \in Nat /\ Len(log') = Len(log) + 1 /\ log'[Len(log) + 1] = e
      /\ \A i \in 1..Len(log) : log'[i] = log[i]
  BY ArrivalFrame
<1> SUFFICES ASSUME NEW i \in 1..Len(log'), NEW j \in 1..Len(log'), i # j, log'[i] = log'[j]
             PROVE  MayBeCopied(log[i])'
  BY DEF TopicCopiesHaveACause
<1>2. CASE i \in 1..Len(log) /\ j \in 1..Len(log)
  BY <1>1, <1>2 DEF TopicCopiesHaveACause, MayBeCopied
<1>3. CASE i = Len(log) + 1 /\ j \in 1..Len(log)
  BY <1>1, <1>3 DEF InLog, MayBeCopied
<1>4. CASE j = Len(log) + 1 /\ i \in 1..Len(log)
  BY <1>1, <1>4 DEF InLog, MayBeCopied
<1> QED BY <1>1, <1>2, <1>3, <1>4

LEMMA PipelineIndInit == Init => PipelineInd
<1> SUFFICES ASSUME Init PROVE PipelineInd
  OBVIOUS
<1>1. OutboxInd /\ DeliveryInd
  BY OutboxIndInit, DeliveryIndInit DEF Init
<1>2. /\ log = <<>> /\ dlq = {} /\ batch = [w \in Workers |-> {}]
      /\ mpc = [m \in Members |-> "new"] /\ copies = [e \in Events |-> 0]
  BY DEF Init, OutboxInit, DeliveryInit
<1>3. /\ LogIsAccepted /\ BatchIsAccepted /\ StepFitsEvent
      /\ DeliveredFit /\ DeadLettersFit /\ TopicCopiesHaveACause /\ replays \in Nat
  BY <1>2 DEF Init, LogIsAccepted, BatchIsAccepted, StepFitsEvent, DeliveredFit, DeadLettersFit,
              TopicCopiesHaveACause
<1> QED BY <1>1, <1>3 DEF PipelineInd

LEMMA PipelineOutboxStep ==
    ASSUME PipelineInd, OutboxNext, UNCHANGED <<deliveryVars, replays>>
    PROVE  PipelineInd'
<1>0. /\ OutboxInd /\ DeliveryInd /\ LogIsAccepted /\ BatchIsAccepted /\ StepFitsEvent
      /\ DeliveredFit /\ DeadLettersFit /\ TopicCopiesHaveACause /\ Base /\ OutboxTypeOK
      /\ replays' \in Nat /\ replays' = replays
  BY DEF PipelineInd, DeliveryInd, OutboxInd
<1>1. OutboxInd'
  BY <1>0, OutboxIndStep
<1>2. UNCHANGED deliveryVars
  BY DEF deliveryVars, dedupVars
<1>3. UNCHANGED <<mpc, pos, dlq>> /\ DeliveredFit'
  BY <1>0 DEF deliveryVars, dedupVars, DeliveredFit
<1>4. /\ \A e \in Events : status[e] # "absent" => status'[e] # "absent"
      /\ \A w \in Workers : \A e \in batch'[w] : e \in batch[w] \/ status'[e] = "claimed"
      /\ outboxDisturbed \subseteq outboxDisturbed'
  BY <1>0, OutboxEffects DEF OutboxTypeOK
<1>5. log \in Seq(Events) /\ \A w \in Workers : batch[w] \subseteq Events
  BY <1>0 DEF OutboxTypeOK
<1>6. BatchIsAccepted'
  BY <1>0, <1>4, <1>5 DEF BatchIsAccepted
<1>7. CASE log' = log
  <2>1. DeliveryInd'
    BY <1>0, <1>2, <1>7, DeliveryIndStep DEF groupVars
  <2>2. LogIsAccepted'
    BY <1>0, <1>4, <1>5, <1>7 DEF LogIsAccepted
  <2>3. StepFitsEvent' /\ DeadLettersFit' /\ TopicCopiesHaveACause'
    BY <1>0, <1>3, <1>4, <1>7 DEF StepFitsEvent, DeadLettersFit, TopicCopiesHaveACause, MayBeCopied
  <2> QED BY <1>0, <1>1, <1>3, <1>6, <2>1, <2>2, <2>3 DEF PipelineInd
<1>8. ASSUME NEW w \in Workers, NEW e \in batch[w], log' = Append(log, e), wpc[w] = "produce"
      PROVE  PipelineInd'
  <2>1. e \in Events /\ Arrival(e)
    BY <1>2, <1>5, <1>8 DEF Arrival
  <2>2. DeliveryInd'
    BY <1>0, <2>1, DeliveryIndStep DEF DeliverySteps
  <2>3. /\ Len(log) \in Nat /\ Len(log') = Len(log) + 1 /\ log'[Len(log) + 1] = e
        /\ \A i \in 1..Len(log) : log'[i] = log[i] /\ log[i] \in Events
    BY <1>0, <1>5, <1>8, <2>1, ArrivalFrame
  <2>4. status'[e] # "absent"
    BY <1>0, <1>4, <2>1 DEF BatchIsAccepted
  <2>5. LogIsAccepted'
    BY <1>0, <1>4, <2>3, <2>4 DEF LogIsAccepted
  <2>6. StepFitsEvent' /\ DeadLettersFit'
    BY <1>0, <2>1, ArrivalFits
  <2>7. InLog(e) => e \in outboxDisturbed
    BY <1>0, <1>8, <2>1, NotYetProduced
  <2>8. TopicCopiesHaveACause'
    <3>1. \A x : MayBeCopied(x) => MayBeCopied(x)'
      BY <1>0, <1>4 DEF MayBeCopied
    <3>2. InLog(e) => MayBeCopied(e)'
      BY <1>4, <2>7 DEF MayBeCopied
    <3> QED BY <1>0, <1>8, <2>1, <3>1, <3>2, ArrivalCopies
  <2> QED BY <1>0, <1>1, <1>3, <1>6, <2>2, <2>5, <2>6, <2>8 DEF PipelineInd
<1> QED BY <1>0, <1>7, <1>8, OutboxEffects

LEMMA PipelineDeliveryStep ==
    ASSUME PipelineInd, DeliveryNext, UNCHANGED <<outboxVars, replays>>
    PROVE  PipelineInd'
<1>0. /\ OutboxInd /\ DeliveryInd /\ LogIsAccepted /\ BatchIsAccepted /\ StepFitsEvent
      /\ DeliveredFit /\ DeadLettersFit /\ TopicCopiesHaveACause /\ Base
      /\ replays' \in Nat /\ replays' = replays
  BY DEF PipelineInd, DeliveryInd
<1>1. log' = log
  BY <1>0, DeliveryEffects
<1>2. UNCHANGED <<status, batch, outboxDisturbed>>
  BY DEF outboxVars, rowVars
<1>3. OutboxInd'
  BY <1>0, <1>1, StutterStep DEF outboxVars, rowVars, publisherVars
<1>4. DeliveryInd'
  BY <1>0, DeliveryIndStep DEF DeliverySteps
<1>5. StepFitsEvent'
  BY <1>0, StepFitsStep
<1>6. DeadLettersFit'
  <2>1. dlq' = dlq \/ \E m \in Members : mpc[m] = "dead" /\ dlq' = dlq \cup {pos[m]}
    BY <1>0, DeliveryEffects
  <2> QED BY <1>0, <1>1, <2>1 DEF DeadLettersFit, StepFitsEvent
<1>7. DeliveredFit'
  <2>1. \/ copies' = copies
        \/ \E m \in Members : mpc[m] = "publish" /\ copies' = [copies EXCEPT ![log[pos[m]]] = @ + 1]
    BY <1>0, DeliveryEffects
  <2>2. copies \in [Events -> Nat]
    BY <1>0 DEF Base, DeliveryTypeOK
  <2> QED BY <1>0, <2>1, <2>2 DEF DeliveredFit, StepFitsEvent
<1>8. LogIsAccepted' /\ BatchIsAccepted' /\ TopicCopiesHaveACause'
  BY <1>0, <1>1, <1>2 DEF LogIsAccepted, BatchIsAccepted, TopicCopiesHaveACause, MayBeCopied
<1> QED BY <1>0, <1>3, <1>4, <1>5, <1>6, <1>7, <1>8 DEF PipelineInd

\* A dead letter comes back: its event is on the topic already, so the outbox
\* has nothing new to settle.
LEMMA PipelineReplayStep ==
    ASSUME PipelineInd, NEW i \in dlq, ReplayDeadLetter(i)
    PROVE  PipelineInd'
<1>0. /\ OutboxInd /\ DeliveryInd /\ LogIsAccepted /\ BatchIsAccepted /\ StepFitsEvent
      /\ DeliveredFit /\ DeadLettersFit /\ TopicCopiesHaveACause /\ Base /\ OutboxTypeOK
      /\ replays \in Nat /\ replays' = replays + 1
  BY DEF PipelineInd, DeliveryInd, OutboxInd, ReplayDeadLetter
<1>1. /\ log \in Seq(Events) /\ i \in 1..Len(log) /\ log[i] \in Events
      /\ log' = Append(log, log[i])
  BY <1>0 DEF Base, DeliveryTypeOK, ReplayDeadLetter
<1>2. /\ UNCHANGED <<status, lockedBy, expired, due, wpc, batch, outboxFaults, outboxDisturbed>>
      /\ UNCHANGED deliveryVars
  BY DEF ReplayDeadLetter, outboxVars, rowVars, deliveryVars, dedupVars
<1>3. Arrival(log[i])
  BY <1>1, <1>2 DEF Arrival
<1>4. DeliveryInd'
  BY <1>0, <1>1, <1>3, DeliveryIndStep DEF DeliverySteps
<1>5. /\ Len(log) \in Nat /\ Len(log') = Len(log) + 1 /\ log'[Len(log) + 1] = log[i]
      /\ \A j \in 1..Len(log) : log'[j] = log[j]
      /\ log' \in Seq(Events)
  BY <1>0, <1>1, ArrivalFrame
<1>6. LogIsAccepted' /\ BatchIsAccepted' /\ DeliveredFit'
  BY <1>0, <1>1, <1>2, <1>5 DEF LogIsAccepted, BatchIsAccepted, DeliveredFit, deliveryVars, dedupVars
<1>7. StepFitsEvent' /\ DeadLettersFit'
  BY <1>0, <1>1, <1>3, ArrivalFits
<1>8. TopicCopiesHaveACause'
  <2>1. MayBeCopied(log[i])'
    BY <1>0, <1>1, <1>2 DEF DeadLettersFit, MayBeCopied
  <2>2. \A x : MayBeCopied(x) => MayBeCopied(x)'
    BY <1>0, <1>2 DEF MayBeCopied
  <2> QED BY <1>0, <1>1, <2>1, <2>2, ArrivalCopies
<1>9. OutboxInd'
  <2>1. \A x : InLog(x)' <=> InLog(x)
    <3>1. \A x : InLog(x)' <=> InLog(x) \/ x = log[i]
      BY <1>1, AppendLog
    <3>2. InLog(log[i])
      BY <1>1 DEF InLog
    <3> QED BY <3>1, <3>2
  <2>2. \A v \in Workers, x \in Events : IsCurrent(v, x)' <=> IsCurrent(v, x)
    BY <1>2 DEF IsCurrent
  <2>3. OutboxTypeOK' /\ IdleIsEmpty' /\ BatchIsHeld'
    BY <1>0, <1>2, <1>5 DEF OutboxInd, OutboxTypeOK, IdleIsEmpty, BatchIsHeld
  <2>4. PublishedIsInLog' /\ ProducedIsInLog' /\ LoggedIsSettled'
    BY <1>0, <1>2, <2>1, <2>2 DEF OutboxInd, PublishedIsInLog, ProducedIsInLog, LoggedIsSettled
  <2> QED BY <2>3, <2>4 DEF OutboxInd
<1> QED BY <1>0, <1>4, <1>6, <1>7, <1>8, <1>9 DEF PipelineInd

LEMMA PipelineIndStep == PipelineInd /\ [Next]_vars => PipelineInd'
<1> SUFFICES ASSUME PipelineInd, [Next]_vars PROVE PipelineInd'
  OBVIOUS
<1>1. CASE UNCHANGED vars
  <2>1. UNCHANGED publisherVars /\ UNCHANGED groupVars
    BY <1>1 DEF vars, outboxVars, rowVars, deliveryVars, dedupVars, publisherVars, groupVars
  <2>2. OutboxInd' /\ DeliveryInd'
    BY <2>1, StutterStep, DeliveryIndStep DEF PipelineInd
  <2>3. /\ LogIsAccepted' /\ BatchIsAccepted' /\ StepFitsEvent'
        /\ DeliveredFit' /\ DeadLettersFit' /\ TopicCopiesHaveACause' /\ replays' \in Nat
    BY <1>1 DEF vars, outboxVars, rowVars, deliveryVars, dedupVars, PipelineInd, LogIsAccepted,
                BatchIsAccepted, StepFitsEvent, DeliveredFit, DeadLettersFit, TopicCopiesHaveACause, MayBeCopied
  <2> QED BY <2>2, <2>3 DEF PipelineInd
<1> QED
  BY <1>1, PipelineOutboxStep, PipelineDeliveryStep, PipelineReplayStep DEF Next

\* The inductive invariant of the composed pipeline.
THEOREM PipelineInvariant == Spec => []PipelineInd
  BY PipelineIndInit, PipelineIndStep, PTL DEF Spec

\* What the outbox and the consumer promise each on their own they keep when
\* they share the topic with dlq-replay: no published row without its record,
\* no offset passed without its event processed or dead-lettered, and no event
\* processed that the room has not received.
THEOREM PipelineKeepsParts ==
    Spec => [](/\ PublishedIsInLog /\ OneHolder
               /\ NoSilentSkip /\ ProcessedIsDelivered)
<1>1. ASSUME PipelineInd
      PROVE  PublishedIsInLog /\ OneHolder /\ NoSilentSkip /\ ProcessedIsDelivered
  <2>1. OneHolder
    <3> SUFFICES ASSUME NEW e \in Events, NEW v \in Workers, NEW w \in Workers,
                        e \in batch[v], e \in batch[w], v # w, e \notin outboxDisturbed
                 PROVE  FALSE
      BY DEF OneHolder
    <3> QED BY <1>1, HeldOnce DEF PipelineInd, OutboxInd
  <2> QED BY <1>1, <2>1 DEF PipelineInd, OutboxInd, DeliveryInd, Offsets, Copies
<1> QED BY <1>1, PipelineInvariant, PTL

\* Whatever copies of an event the publishers of outbox.Publisher or a replay
\* of mq.ReplayJSONLines put on the topic, eventdedup.Store absorbs them: the
\* room receives a second message only after a fault on the consumer's side.
THEOREM PipelineAbsorbsCopies == Spec => []TopicCopiesAreAbsorbed
<1>1. ASSUME PipelineInd PROVE TopicCopiesAreAbsorbed
  <2>1. copies \in [Events -> Nat] /\ SentIsSettled
    BY <1>1 DEF PipelineInd, DeliveryInd, Base, DeliveryTypeOK, Copies
  <2>2. ASSUME NEW e \in Events, copies[e] > 1, e \notin deliveryDisturbed PROVE FALSE
    <3>1. copies[e] \in Nat /\ copies[e] > 0
      BY <2>1, <2>2
    <3>2. copies[e] = 1
      BY <2>1, <2>2, <3>1 DEF SentIsSettled
    <3> QED BY <2>2, <3>2
  <2> QED BY <2>2 DEF TopicCopiesAreAbsorbed
<1> QED BY <1>1, PipelineInvariant, PTL

\* A copy on the topic itself comes from a fault of the publisher or is the
\* replay of a record that could not be delivered.
THEOREM PipelineCopiesHaveACause == Spec => []TopicCopiesHaveACause
<1>1. PipelineInd => TopicCopiesHaveACause
  BY DEF PipelineInd
<1> QED BY <1>1, PipelineInvariant, PTL

\* The publisher, the topic and the consumer together lose no event: what is
\* published and consumed was delivered or dead-lettered.
THEOREM PipelineLosesNothing == Spec => []CaughtUpIsSettled
<1>1. ASSUME PipelineInd PROVE CaughtUpIsSettled
  <2>1. PublishedIsInLog /\ NoSilentSkip /\ ProcessedIsDelivered /\ DeliveredFit /\ DeadLettersFit
    BY <1>1 DEF PipelineInd, OutboxInd, DeliveryInd, Offsets, Copies
  <2>2. ASSUME committed = Len(log), NEW e \in Events, status[e] = "published"
        PROVE  \/ e \notin Undeliverable /\ copies[e] > 0
               \/ e \in Undeliverable /\ \E i \in dlq : log[i] = e
    <3>1. PICK i \in 1..committed : log[i] = e
      BY <2>1, <2>2 DEF PublishedIsInLog, InLog
    <3>2. CASE processed[e] = "done"
      BY <2>1, <3>2 DEF ProcessedIsDelivered, DeliveredFit
    <3>3. CASE i \in dlq
      BY <2>1, <3>1, <3>3 DEF DeadLettersFit
    <3> QED BY <2>1, <3>1, <3>2, <3>3 DEF NoSilentSkip
  <2> QED BY <2>2 DEF CaughtUpIsSettled
<1> QED BY <1>1, PipelineInvariant, PTL

\* The three together, of outbox.Publisher, mq.Consumer, eventdedup.Store and
\* mq.ReplayJSONLines: copies have causes, are absorbed, and nothing is lost.
THEOREM PipelineIsSafe == Spec => []PipelineInv
  BY PipelineCopiesHaveACause, PipelineAbsorbsCopies, PipelineLosesNothing, PTL DEF PipelineInv

-----------------------------------------------------------------------------
(* The pipeline implements EventDelivery *)

\* A step that accepts, delivers and buries nothing stutters.
LEMMA PromiseStutter ==
    ASSUME \A e \in Events : status'[e] # "absent" <=> status[e] # "absent",
           \A e \in Events : copies'[e] > 0 <=> copies[e] > 0,
           \A e \in Events : (\E i \in dlq' : log'[i] = e) <=> (\E i \in dlq : log[i] = e)
    PROVE  UNCHANGED Promise!pipeVars
<1>1. {e \in Events : status'[e] # "absent"} = {e \in Events : status[e] # "absent"}
  OBVIOUS
<1>2. {e \in Events : copies'[e] > 0} = {e \in Events : copies[e] > 0}
  OBVIOUS
<1>3. {e \in Events : \E i \in dlq' : log'[i] = e} = {e \in Events : \E i \in dlq : log[i] = e}
  OBVIOUS
<1> QED BY <1>1, <1>2, <1>3 DEF Promise!pipeVars

\* A record that arrives leaves the dead letters what they are.
LEMMA BuriedStays ==
    ASSUME Base, dlq' = dlq, log' = log \/ \E x \in Events : log' = Append(log, x)
    PROVE  \A e \in Events : (\E i \in dlq' : log'[i] = e) <=> (\E i \in dlq : log[i] = e)
<1>1. \A i \in dlq : log'[i] = log[i]
  BY ArrivalFrame
<1> QED BY <1>1

\* Insert, the commit of an order, is Accept; any other step of the outbox
\* stutters.
LEMMA OutboxRefines ==
    ASSUME PipelineInd, OutboxNext, UNCHANGED <<deliveryVars, replays>>
    PROVE  [Promise!PipeNext]_(Promise!pipeVars)
<1>0. Base /\ OutboxTypeOK /\ \A w \in Workers : batch[w] \subseteq Events
  BY DEF PipelineInd, DeliveryInd, OutboxInd, OutboxTypeOK
<1>1. copies' = copies /\ dlq' = dlq
  BY DEF deliveryVars, dedupVars
<1>2. log' = log \/ \E x \in Events : log' = Append(log, x)
  BY <1>0, OutboxEffects
<1>3. \A e \in Events : (\E i \in dlq' : log'[i] = e) <=> (\E i \in dlq : log[i] = e)
  BY <1>0, <1>1, <1>2, BuriedStays
<1>4. CASE \A e \in Events : status'[e] = "absent" <=> status[e] = "absent"
  BY <1>1, <1>3, <1>4, PromiseStutter
<1>5. ASSUME NEW e \in Events, status[e] = "absent", status' = [status EXCEPT ![e] = "pending"]
      PROVE  Promise!PipeNext
  <2>1. status \in [Events -> Statuses]
    BY <1>0 DEF OutboxTypeOK
  <2>2. e \notin {x \in Events : status[x] # "absent"}
    BY <1>5
  <2>3. {x \in Events : status'[x] # "absent"} = {x \in Events : status[x] # "absent"} \cup {e}
    BY <1>5, <2>1
  <2>4. {x \in Events : copies'[x] > 0} = {x \in Events : copies[x] > 0}
    BY <1>1
  <2>5. {x \in Events : \E i \in dlq' : log'[i] = x} = {x \in Events : \E i \in dlq : log[i] = x}
    BY <1>3
  <2>6. Promise!Accept(e)
    BY <2>2, <2>3, <2>4, <2>5 DEF Promise!Accept
  <2> QED BY <2>6 DEF Promise!PipeNext
<1> QED BY <1>0, <1>4, <1>5, OutboxEffects

\* A message that goes out is Deliver, a dead letter written is Bury; any other
\* step of the consumer group stutters.
LEMMA DeliveryRefines ==
    ASSUME PipelineInd, DeliveryNext, UNCHANGED <<outboxVars, replays>>
    PROVE  [Promise!PipeNext]_(Promise!pipeVars)
<1>0. /\ Base /\ StepFitsEvent /\ LogIsAccepted
      /\ copies \in [Events -> Nat] /\ log' = log /\ status' = status
  BY DeliveryEffects DEF PipelineInd, DeliveryInd, Base, DeliveryTypeOK, outboxVars, rowVars
<1>1. {x \in Events : status'[x] # "absent"} = {x \in Events : status[x] # "absent"}
  BY <1>0
<1>2. CASE UNCHANGED <<copies, dlq>>
  BY <1>0, <1>2, PromiseStutter
<1>3. ASSUME NEW m \in Members, mpc[m] \in {"publish", "dead"}
      PROVE  log[pos[m]] \in Events /\ status[log[pos[m]]] # "absent"
  BY <1>0, <1>3, CurrentEvent DEF Handling, LogIsAccepted
<1>4. ASSUME NEW m \in Members, mpc[m] = "publish",
             copies' = [copies EXCEPT ![log[pos[m]]] = @ + 1], dlq' = dlq
      PROVE  Promise!PipeNext
  <2>1. PICK e \in Events : e = log[pos[m]]
    BY <1>3, <1>4
  <2>2. status[e] # "absent" /\ e \notin Malformed \cup BadPayload
    BY <1>0, <1>3, <1>4, <2>1 DEF StepFitsEvent, Undeliverable
  <2>3. copies'[e] > 0 /\ \A x \in Events \ {e} : copies'[x] = copies[x]
    BY <1>0, <1>4, <2>1
  <2>4. {x \in Events : copies'[x] > 0} = {x \in Events : copies[x] > 0} \cup {e}
    BY <2>3
  <2>5. {x \in Events : \E i \in dlq' : log'[i] = x} = {x \in Events : \E i \in dlq : log[i] = x}
    BY <1>0, <1>4
  <2>6. e \in {x \in Events : status[x] # "absent"} \cap (Events \ (Malformed \cup BadPayload))
    BY <2>2
  <2>7. Promise!Deliver(e)
    BY <1>1, <2>4, <2>5, <2>6 DEF Promise!Deliver
  <2> QED BY <2>7 DEF Promise!PipeNext
<1>5. ASSUME NEW m \in Members, mpc[m] = "dead", dlq' = dlq \cup {pos[m]}, copies' = copies
      PROVE  Promise!PipeNext
  <2>1. PICK e \in Events : e = log[pos[m]]
    BY <1>3, <1>5
  <2>2. status[e] # "absent" /\ e \in Malformed \cup BadPayload
    BY <1>0, <1>3, <1>5, <2>1 DEF StepFitsEvent, Undeliverable
  <2>3. {x \in Events : \E i \in dlq' : log'[i] = x} = {x \in Events : \E i \in dlq : log[i] = x} \cup {e}
    BY <1>0, <1>5, <2>1
  <2>4. {x \in Events : copies'[x] > 0} = {x \in Events : copies[x] > 0}
    BY <1>5
  <2>5. e \in {x \in Events : status[x] # "absent"} \ (Events \ (Malformed \cup BadPayload))
    BY <2>2
  <2>6. Promise!Bury(e)
    BY <1>1, <2>3, <2>4, <2>5 DEF Promise!Bury
  <2> QED BY <2>6 DEF Promise!PipeNext
<1> QED BY <1>0, <1>2, <1>4, <1>5, DeliveryEffects

\* A replay accepts, delivers and buries nothing.
LEMMA ReplayRefines ==
    ASSUME PipelineInd, NEW i \in dlq, ReplayDeadLetter(i)
    PROVE  UNCHANGED Promise!pipeVars
<1>1. Base /\ log[i] \in Events
  BY DEF PipelineInd, DeliveryInd, Base, DeliveryTypeOK
<1>2. UNCHANGED <<status, copies, dlq>> /\ log' = Append(log, log[i])
  BY DEF ReplayDeadLetter, outboxVars, rowVars, deliveryVars, dedupVars
<1> QED BY <1>1, <1>2, BuriedStays, PromiseStutter

\* The pipeline of outbox.Publisher, mq.Consumer and mq.ReplayJSONLines keeps
\* the safety half of its promise, step for step: an event is delivered or set
\* aside only once its order is committed, delivered only if it can be, set
\* aside only if it cannot, and neither is ever taken back.
THEOREM PipelineKeepsPromise == Spec => Promise!PipeSafety
<1>1. Init => Promise!PipeInit
  BY DEF Init, OutboxInit, DeliveryInit, Promise!PipeInit
<1>2. PipelineInd /\ [Next]_vars => [Promise!PipeNext]_(Promise!pipeVars)
  <2> SUFFICES ASSUME PipelineInd, [Next]_vars PROVE [Promise!PipeNext]_(Promise!pipeVars)
    OBVIOUS
  <2>1. CASE UNCHANGED vars
    BY <2>1, PromiseStutter DEF vars, outboxVars, rowVars, deliveryVars, dedupVars
  <2> QED BY <2>1, OutboxRefines, DeliveryRefines, ReplayRefines DEF Next
<1> QED BY <1>1, <1>2, PipelineInvariant, PTL DEF Spec, Promise!PipeSafety
=============================================================================
