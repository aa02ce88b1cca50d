--------------------------- MODULE EventDelivery ---------------------------
(***************************************************************************)
(* What the asynchronous pipeline promises for the event of a committed    *)
(* gift order: it is delivered to its room at least once, or, if it cannot *)
(* be delivered for what it contains, set aside in the dead-letter topic;  *)
(* never the one for the other, never without the order, and eventually    *)
(* one of the two.                                                         *)
(***************************************************************************)
CONSTANTS Events, Deliverable

VARIABLES accepted, delivered, buried

pipeVars == <<accepted, delivered, buried>>

PipeInit == accepted = {} /\ delivered = {} /\ buried = {}

Accept(e) ==
    /\ e \notin accepted
    /\ accepted' = accepted \cup {e}
    /\ UNCHANGED <<delivered, buried>>

Deliver(e) ==
    /\ e \in accepted \cap Deliverable
    /\ delivered' = delivered \cup {e}
    /\ UNCHANGED <<accepted, buried>>

Bury(e) ==
    /\ e \in accepted \ Deliverable
    /\ buried' = buried \cup {e}
    /\ UNCHANGED <<accepted, delivered>>

PipeNext == \E e \in Events : Accept(e) \/ Deliver(e) \/ Bury(e)

\* What the pipeline may do, and what it must eventually do.
PipeSafety == PipeInit /\ [][PipeNext]_pipeVars

PipeSpec ==
    /\ PipeSafety
    /\ \A e \in Events : WF_pipeVars(Deliver(e) \/ Bury(e))
=============================================================================
