------------------------------ MODULE Delivery ------------------------------
(***************************************************************************)
(* What the outbox, Kafka and BaseConsumer together promise a service: an  *)
(* event takes effect only after its row was committed, and at most once,  *)
(* however often it is sent, delivered, dead-lettered and replayed.        *)
(***************************************************************************)
EXTENDS Naturals

CONSTANT Events

VARIABLES
    enqueued,   \* events whose outbox row is committed
    effects,    \* how often the consuming service applied each event
    parked      \* events that were dead-lettered

DelVars == <<enqueued, effects, parked>>

DelInit == enqueued = {} /\ effects = [e \in Events |-> 0] /\ parked = {}

Enqueue(e) ==
    /\ e \notin enqueued
    /\ enqueued' = enqueued \cup {e}
    /\ UNCHANGED <<effects, parked>>

Apply(e) ==
    /\ e \in enqueued
    /\ effects[e] = 0
    /\ effects' = [effects EXCEPT ![e] = 1]
    /\ UNCHANGED <<enqueued, parked>>

Park(e) ==
    /\ e \in enqueued \ parked
    /\ parked' = parked \cup {e}
    /\ UNCHANGED <<enqueued, effects>>

DelNext == \E e \in Events : Enqueue(e) \/ Apply(e) \/ Park(e)

DelSpec == DelInit /\ [][DelNext]_DelVars
=============================================================================
