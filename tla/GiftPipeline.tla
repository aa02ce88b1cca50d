---------------------------- MODULE GiftPipeline ----------------------------
(***************************************************************************)
(* Outbox and GiftDelivery composed over the gift topic: the log the       *)
(* publishers append to is the one the consumer group reads.  A further    *)
(* writer is cmd/dlq-replay, which an operator runs over exported dead     *)
(* letters; it sends the original key and value to the source topic.       *)
(***************************************************************************)
EXTENDS Outbox, GiftDelivery

CONSTANT MaxReplays    \* bound on replayed dead letters

ASSUME PipelineAssumption == MaxReplays \in Nat

VARIABLE replays

vars == <<outboxVars, log, deliveryVars, replays>>

Init == OutboxInit /\ DeliveryInit /\ replays = 0

\* mq.ReplayJSONLines produces one exported record; if it stops half way the
\* operator runs the file again, so any dead letter may be sent repeatedly.
ReplayDeadLetter(i) ==
    /\ replays < MaxReplays
    /\ replays' = replays + 1
    /\ log' = Append(log, log[i])
    /\ UNCHANGED <<outboxVars, deliveryVars>>

Next ==
    \/ OutboxNext /\ UNCHANGED <<deliveryVars, replays>>
    \/ DeliveryNext /\ UNCHANGED <<outboxVars, replays>>
    \/ \E i \in dlq : ReplayDeadLetter(i)

Spec == Init /\ [][Next]_vars
FairSpec == Spec /\ OutboxFairness /\ DeliveryFairness

-----------------------------------------------------------------------------
(* Properties *)

\* The pipeline implements the abstract promise.
Promise == INSTANCE EventDelivery WITH
    Deliverable <- Events \ (Malformed \cup BadPayload),
    accepted <- {e \in Events : status[e] # "absent"},
    delivered <- {e \in Events : copies[e] > 0},
    buried <- {e \in Events : \E i \in dlq : log[i] = e}

\* At-least-once delivery end to end: no realtime gift without a committed
\* order, no order's event lost between MySQL, Kafka and the room, and a record
\* that cannot be delivered is kept.
DeliversEveryOrder == Promise!PipeSpec

Undeliverable == Malformed \cup BadPayload

\* What may put an event on the topic again: something happened to it on the
\* publishers' side, or it is a dead letter and the operator replayed some.
MayBeCopied(e) == e \in outboxDisturbed \/ (replays > 0 /\ e \in Undeliverable)

\* A copy of an event on the topic has a cause.
TopicCopiesHaveACause ==
    \A i, j \in 1..Len(log) : i # j /\ log[i] = log[j] => MayBeCopied(log[i])

\* Whatever copies the publishers or a replay put on the topic, the dedup row
\* absorbs them: a duplicate in the room has a cause on the consumer's side.
TopicCopiesAreAbsorbed ==
    \A e \in Events : copies[e] > 1 => e \in deliveryDisturbed

\* No gift event is lost between MySQL and the room: once the group has caught
\* up with the topic, the event of every row marked published was delivered to
\* its room if it can be, and is a dead letter if it cannot.
CaughtUpIsSettled ==
    committed = Len(log) =>
        \A e \in Events : status[e] = "published" =>
            \/ e \notin Undeliverable /\ copies[e] > 0
            \/ e \in Undeliverable /\ \E i \in dlq : log[i] = e

\* What holds of outbox, topic, dedup rows, dead letters and rooms together.
PipelineInv == TopicCopiesHaveACause /\ TopicCopiesAreAbsorbed /\ CaughtUpIsSettled
=============================================================================
