----------------------------- MODULE GiftTopic -----------------------------
(***************************************************************************)
(* What the publishers of the outbox and the gift consumer group share:    *)
(* the partition of the gift topic that the events of a room go to (the    *)
(* room is the partition key).  Outbox appends to it, GiftDelivery reads   *)
(* it.                                                                     *)
(***************************************************************************)
EXTENDS Integers, Sequences

CONSTANT Events    \* event ids: outbox_events.id, and the event_id of the envelope

VARIABLE log       \* the records of the partition by their events, copies included
=============================================================================
