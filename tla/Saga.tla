-------------------------------- MODULE Saga --------------------------------
(***************************************************************************)
(* The order saga: the order, inventory and payment services composed      *)
(* through their outboxes and Kafka consumers.                             *)
(*                                                                         *)
(* An event is sent once its outbox row is committed and stays available:  *)
(* the publisher retries, Kafka redelivers, and a dead letter can be       *)
(* replayed, so a consumer may meet it at any later time, again and again. *)
(* A consumer handles it in one transaction with its processed_events row  *)
(* (BaseConsumer._dispatch); meeting a processed event again changes       *)
(* nothing.  Topics are separate logs with their own partition counts and  *)
(* failed outbox rows are overtaken by later ones, so nothing orders the   *)
(* topics of one order against each other.  A run may look at two worlds:   *)
(* the real one, and one that is `ordered', as the comment on the          *)
(* inventory consumer group assumes it to be.                              *)
(***************************************************************************)
EXTENDS Order, Inventory, Payment

CONSTANT CrossTopicOrder    \* whether topics keep causal order: FALSE, TRUE or both
ASSUME CrossTopicOrderType == CrossTopicOrder \in (SUBSET BOOLEAN) \ {{}}

VARIABLES
    processed,    \* processed_events of each service
    ordered       \* whether the topics of this behaviour keep causal order

vars == <<orderVars, invVars, payVars, processed, ordered>>

Consumers == {"order", "inventory", "payment"}

Subscribed(c) ==
    CASE c = "order"     -> {INVENTORY_RESERVED, INVENTORY_RESERVATION_FAILED,
                             PAYMENT_SUCCEEDED, PAYMENT_FAILED}
      [] c = "inventory" -> {ORDER_CREATED, PAYMENT_SUCCEEDED, PAYMENT_FAILED,
                             ORDER_CANCELLED}
      [] c = "payment"   -> {INVENTORY_RESERVED, ORDER_CANCELLED}

Sent == orderOutbox \cup invOutbox \cup payOutbox

\* The topics that carry what must have happened to an order before an event
\* of the given topic is published.
Causes(topic) ==
    CASE topic = ORDER_CREATED -> {}
      [] topic \in {PAYMENT_SUCCEEDED, PAYMENT_FAILED} -> {ORDER_CREATED, INVENTORY_RESERVED}
      [] OTHER -> {ORDER_CREATED}

\* Where topics are ordered an event waits for its causes in the same consumer.
InTurn(c, e) ==
    ordered =>
        \A f \in Sent : f.order = e.order /\ f.topic \in Causes(e.topic) \cap Subscribed(c)
                            => f \in processed[c]

\* BaseConsumer._dispatch: skip what was processed, else handle and mark it.
Dispatch(c, e) ==
    /\ e.topic \in Subscribed(c)
    /\ e \notin processed[c]
    /\ InTurn(c, e)
    /\ processed' = [processed EXCEPT ![c] = @ \cup {e}]

-----------------------------------------------------------------------------

OrderConsumer ==
    \E e \in Sent :
        /\ Dispatch("order", e)
        /\ \/ e.topic = INVENTORY_RESERVED           /\ OnInventoryReserved(e.order)
           \/ e.topic = INVENTORY_RESERVATION_FAILED /\ OnReservationFailed(e.order)
           \/ e.topic = PAYMENT_SUCCEEDED            /\ OnPaymentSucceeded(e.order)
           \/ e.topic = PAYMENT_FAILED               /\ OnPaymentFailed(e.order)
        /\ UNCHANGED <<invVars, payVars>>

InventoryConsumer ==
    \E e \in Sent :
        /\ Dispatch("inventory", e)
        /\ \/ e.topic = ORDER_CREATED     /\ Reserve(e.order)
           \/ e.topic = PAYMENT_SUCCEEDED /\ CommitReservation(e.order)
           \/ e.topic = PAYMENT_FAILED    /\ ReleaseReservation(e.order)
           \/ e.topic = ORDER_CANCELLED   /\ ReleaseReservation(e.order)
        /\ UNCHANGED <<orderVars, payVars>>

\* on_order_cancelled asks for a refund only when the event says was_paid.
PaymentConsumer ==
    \E e \in Sent :
        /\ Dispatch("payment", e)
        /\ \/ e.topic = INVENTORY_RESERVED /\ ChargeForOrder(e.order)
           \/ e.topic = ORDER_CANCELLED /\ e.was_paid  /\ RefundForOrder(e.order)
           \/ e.topic = ORDER_CANCELLED /\ ~e.was_paid /\ UNCHANGED payVars
        /\ UNCHANGED <<orderVars, invVars>>

\* The payment consumer dies in a handler, after the gateway captured or gave
\* back: the event is not marked and will be delivered again.
PaymentConsumerCrash ==
    \E e \in Sent :
        /\ e \notin processed["payment"]
        /\ \/ e.topic = INVENTORY_RESERVED           /\ ChargeLost(e.order)
           \/ e.topic = ORDER_CANCELLED /\ e.was_paid /\ RefundLost(e.order)
        /\ UNCHANGED <<orderVars, invVars, processed>>

Sweeper ==
    /\ \E S \in SUBSET Orders : ExpireStaleReservations(S)
    /\ UNCHANGED <<orderVars, payVars, processed>>

StockAdmin ==
    /\ \E p \in Products, n \in Quantities, t \in Thresholds :
           UpsertStockItem(p, n, t) \/ AdjustStock(p, n, t)
    /\ UNCHANGED <<orderVars, payVars, processed>>

People ==
    \/ OrderRequest   /\ UNCHANGED <<invVars, payVars, processed>>
    \/ PaymentRequest /\ UNCHANGED <<orderVars, invVars, processed>>

Init ==
    /\ OrderInit /\ InvInit /\ PayInit
    /\ processed = [c \in Consumers |-> {}]
    /\ ordered \in CrossTopicOrder

Next == /\ \/ OrderConsumer \/ InventoryConsumer \/ PaymentConsumer
           \/ PaymentConsumerCrash \/ Sweeper \/ StockAdmin \/ People
        /\ UNCHANGED ordered

Spec == Init /\ [][Next]_vars

\* Consumers, outbox publishers and the sweeper are restarted for ever, and a
\* message is redelivered until it is handled; people owe nobody a step.
FairSpec == /\ Spec
            /\ WF_vars(OrderConsumer /\ UNCHANGED ordered)
            /\ WF_vars(InventoryConsumer /\ UNCHANGED ordered)
            /\ WF_vars(PaymentConsumer /\ UNCHANGED ordered)
            /\ WF_vars(Sweeper /\ UNCHANGED ordered)

-----------------------------------------------------------------------------

SagaTypeOK ==
    /\ OrderTypeOK /\ InvTypeOK /\ PayTypeOK
    /\ processed \in [Consumers -> SUBSET Envelope]

Captured(o) == payment[o] \in {"SUCCEEDED", "REFUNDED"}

\* Nothing is given away: no order counts as paid, let alone ships, and no unit
\* leaves the shelf for good, unless the payment service captured its payment.
PaidMeansCaptured ==
    \A o \in Orders :
        status[o] \in PAID_STATUSES \/ reservation[o] = "COMMITTED" => Captured(o)

\* The customer is only charged for stock that was set aside for the order, so
\* an order refused for lack of stock is never charged, in any later state.
ChargedMeansReserved ==
    \A o \in Orders :
        payment[o] # "NONE" =>
            /\ reservation[o] # "NONE"
            /\ Event(INVENTORY_RESERVATION_FAILED, o) \notin invOutbox

\* Cancelling a paid order is compensated on both sides.  Once Payment has
\* handled order.cancelled with was_paid, the payment is REFUNDED, as a refund by
\* an admin may have made it before, or the provider refused and a FAILED refund
\* is on record; once Inventory has handled it, the reservation is neither held
\* nor committed, whichever of order.cancelled and payment.succeeded it met first.
PaidCancelCompensated ==
    \A e \in orderOutbox :
        e.topic = ORDER_CANCELLED /\ e.was_paid =>
            /\ e \in processed["payment"] =>
                   payment[e.order] = "REFUNDED" \/ e.order \in refundFailed
            /\ e \in processed["inventory"] =>
                   reservation[e.order] \in {"RELEASED", "EXPIRED"}

\* An order never waits in PENDING: stock is found or refused, and Order hears.
PendingEnds == \A o \in Orders : status[o] = "PENDING" ~> status[o] # "PENDING"

\* An order whose stock is reserved is paid for, fails or is cancelled.
ReservedEnds ==
    \A o \in Orders :
        status[o] = "INVENTORY_RESERVED" ~> status[o] # "INVENTORY_RESERVED"

\* A cancelled order does not keep stock: what Inventory holds or has committed
\* for it goes back.
CancelReturnsStock ==
    \A o \in Orders :
        status[o] = "CANCELLED" ~> [](reservation[o] \notin {"HELD", "COMMITTED"})

\* The two promises above as they hold where topics keep causal order.
ReservedEndsInTurn       == ordered => ReservedEnds
CancelReturnsStockInTurn == ordered => CancelReturnsStock

\* A cancelled order does not keep money.
CancelReturnsMoney ==
    \A o \in Orders :
        status[o] = "CANCELLED" /\ payment[o] = "SUCCEEDED" ~> payment[o] = "REFUNDED"

\* A confirmed order has its units.  No run checks it: commit_reservation answers
\* a payment that comes after the hold expired with an error in the log, and the
\* order is confirmed without stock.
ConfirmedHasStock ==
    \A o \in Orders :
        status[o] \in {"CONFIRMED", "SHIPPED", "DELIVERED"} =>
            reservation[o] \in {"HELD", "COMMITTED"}

\* An order that failed keeps no money.  No run checks it: a retry may still
\* capture after the saga has given the order up.
FailedKeepsNoMoney == \A o \in Orders : status[o] = "FAILED" => captured[o] = returned[o]
=============================================================================
