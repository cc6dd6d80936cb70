------------------------------- MODULE Events -------------------------------
(***************************************************************************)
(* The events the saga exchanges.  An outbox row, once committed, is an    *)
(* event with a unique event_id; here the id is the record itself, because *)
(* no two rows agree in topic, order and number.  `attempt' numbers the    *)
(* events of one topic about one payment: it is the charge attempt for an  *)
(* outcome, and the total given back so far for a refund, which grows with *)
(* each (0 elsewhere).  `was_paid' is the flag of order.cancelled (FALSE   *)
(* elsewhere).  The rest of a payload never decides anything in the saga.  *)
(***************************************************************************)
EXTENDS Naturals

CONSTANT Orders

ORDER_CREATED                == "order.created"
ORDER_CONFIRMED              == "order.confirmed"
ORDER_CANCELLED              == "order.cancelled"
INVENTORY_RESERVED           == "inventory.reserved"
INVENTORY_RESERVATION_FAILED == "inventory.reservation_failed"
PAYMENT_SUCCEEDED            == "payment.succeeded"
PAYMENT_FAILED               == "payment.failed"
PAYMENT_REFUNDED             == "payment.refunded"

Topics == {ORDER_CREATED, ORDER_CONFIRMED, ORDER_CANCELLED,
           INVENTORY_RESERVED, INVENTORY_RESERVATION_FAILED,
           PAYMENT_SUCCEEDED, PAYMENT_FAILED, PAYMENT_REFUNDED}

Envelope == [topic : Topics, order : Orders, attempt : Nat, was_paid : BOOLEAN]

Event(topic, o) ==
    [topic |-> topic, order |-> o, attempt |-> 0, was_paid |-> FALSE]

Cancelled(o, wasPaid) ==
    [topic |-> ORDER_CANCELLED, order |-> o, attempt |-> 0, was_paid |-> wasPaid]

PaymentEvent(topic, o, n) ==
    [topic |-> topic, order |-> o, attempt |-> n, was_paid |-> FALSE]
=============================================================================
