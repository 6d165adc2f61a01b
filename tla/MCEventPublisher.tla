-------------------------- MODULE MCEventPublisher --------------------------
(***************************************************************************)
(* A small instance of the event publisher: all events are of one hold.    *)
(***************************************************************************)
EXTENDS EventPublisher

MCAggregate == [e \in Events |-> 1]
=============================================================================
