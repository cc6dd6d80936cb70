-------------------------------- MODULE Order --------------------------------
(***************************************************************************)
(* The order service: the order rows, their status history and the outbox  *)
(* (services/order/app/saga.py, services.py, consumer.py).  Every          *)
(* operation locks the order row first (get_for_update), so each is one    *)
(* atomic action.                                                          *)
(***************************************************************************)
EXTENDS OrderStatus, Events, Sequences

VARIABLES
    status,        \* orders.status, "NONE" before the order is placed
    history,       \* order_status_history.to_status, oldest first
    orderOutbox    \* events ever enqueued by this service

orderVars == <<status, history, orderOutbox>>

OrderInit ==
    /\ status      = [o \in Orders |-> "NONE"]
    /\ history     = [o \in Orders |-> <<>>]
    /\ orderOutbox = {}

Publish(e) == orderOutbox' = orderOutbox \cup {e}

\* OrderSaga.transition once it is allowed: the row and one history row.
Transition(o, target) ==
    /\ status[o] # "NONE"
    /\ can_transition(status[o], target)
    /\ status'  = [status EXCEPT ![o] = target]
    /\ history' = [history EXCEPT ![o] = Append(@, target)]

\* transition(strict=False): an event for an order that is already there, that
\* has moved on, or that this database never had, is logged and dropped.
Drop(o, target) ==
    /\ \/ status[o] = "NONE"
       \/ status[o] # "NONE" /\ ~can_transition(status[o], target)
    /\ UNCHANGED orderVars

\* OrderService.create_order: the row, its first history row and order.created.
CreateOrder(o) ==
    /\ status[o] = "NONE"
    /\ status'  = [status EXCEPT ![o] = "PENDING"]
    /\ history' = [history EXCEPT ![o] = <<"PENDING">>]
    /\ Publish(Event(ORDER_CREATED, o))

OnInventoryReserved(o) ==
    \/ Transition(o, "INVENTORY_RESERVED") /\ UNCHANGED orderOutbox
    \/ Drop(o, "INVENTORY_RESERVED")

\* Mutant of OnPaymentSucceeded: straight to CONFIRMED.
OnPaymentSucceededShortcut(o) ==
    \/ /\ status[o] # "NONE"
       /\ can_transition(status[o], "PAID")
       /\ status'  = [status EXCEPT ![o] = "CONFIRMED"]
       /\ history' = [history EXCEPT ![o] = Append(@, "CONFIRMED")]
       /\ Publish(Event(ORDER_CONFIRMED, o))
    \/ Drop(o, "PAID")

\* PAID and then CONFIRMED, in one transaction.
OnPaymentSucceeded(o) ==
    \/ /\ status[o] # "NONE"
       /\ can_transition(status[o], "PAID")
       /\ status'  = [status EXCEPT ![o] = "CONFIRMED"]
       /\ history' = [history EXCEPT ![o] = @ \o <<"PAID", "CONFIRMED">>]
       /\ Publish(Event(ORDER_CONFIRMED, o))
    \/ Drop(o, "PAID")

\* Mutant of OnPaymentFailed: the order is left for the customer to retry.
OnPaymentFailedWaits(o) == UNCHANGED orderVars

OnPaymentFailed(o) ==
    \/ Transition(o, "FAILED") /\ Publish(Cancelled(o, FALSE))
    \/ Drop(o, "FAILED")

OnReservationFailed(o) ==
    \/ Transition(o, "FAILED") /\ UNCHANGED orderOutbox
    \/ Drop(o, "FAILED")

\* Mutant of CancelOrder: was_paid is computed after the transition.
CancelOrderForgetsPaid(o) ==
    /\ status[o] \in CUSTOMER_CANCELLABLE
    /\ Transition(o, "CANCELLED")
    /\ Publish(Cancelled(o, status'[o] \in PAID_STATUSES))

\* OrderService.cancel_order, by the owner or an admin.
CancelOrder(o) ==
    /\ status[o] \in CUSTOMER_CANCELLABLE
    /\ Transition(o, "CANCELLED")
    /\ Publish(Cancelled(o, status[o] \in PAID_STATUSES))

ShipOrder(o)    == Transition(o, "SHIPPED")   /\ UNCHANGED orderOutbox
DeliverOrder(o) == Transition(o, "DELIVERED") /\ UNCHANGED orderOutbox

\* What people do to an order; the handlers above are driven by events.
OrderRequest ==
    \E o \in Orders :
        CreateOrder(o) \/ CancelOrder(o) \/ ShipOrder(o) \/ DeliverOrder(o)

-----------------------------------------------------------------------------

OrderTypeOK ==
    /\ status  \in [Orders -> OrderStatus \cup {"NONE"}]
    /\ history \in [Orders -> Seq(OrderStatus)]
    /\ orderOutbox \subseteq Envelope

\* The audit trail is honest: it starts at PENDING, every entry follows the
\* one before it along ALLOWED_TRANSITIONS, and it ends at the order's status.
HistoryIsPath ==
    \A o \in Orders :
        IF status[o] = "NONE" THEN history[o] = <<>>
        ELSE /\ Len(history[o]) > 0
             /\ history[o][1] = "PENDING"
             /\ history[o][Len(history[o])] = status[o]
             /\ \A i \in 1 .. Len(history[o]) - 1 :
                    can_transition(history[o][i], history[o][i + 1])

\* The flag Payment and Inventory act on is true: order.cancelled says
\* was_paid exactly when the order had been PAID, and it is published once.
WasPaidIsTrue ==
    \A e \in orderOutbox :
        e.topic = ORDER_CANCELLED =>
            /\ status[e.order] \in {"CANCELLED", "FAILED"}
            /\ e.was_paid <=> \E i \in 1 .. Len(history[e.order]) :
                                  history[e.order][i] = "PAID"
            /\ \A f \in orderOutbox :
                   f.topic = ORDER_CANCELLED /\ f.order = e.order => f = e
=============================================================================
