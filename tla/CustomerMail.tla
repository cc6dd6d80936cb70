---------------------------- MODULE CustomerMail ----------------------------
(***************************************************************************)
(* What customers are told about the saga: the notification service        *)
(* listening to the order, inventory and payment services.  Customers have *)
(* registered before they order, but user.registered is one more event,    *)
(* and may be handled after those of the order.                            *)
(***************************************************************************)
EXTENDS Saga, Notification

CONSTANT MaxAlerts  \* bound: inventory.low_stock events followed to the mailbox
ASSUME MailBounds == MaxAlerts \in Nat

VARIABLE alerts     \* inventory.low_stock events ever enqueued

viewVars == <<vars, mailVars, alerts>>

\* inventory.low_stock goes out with the announcement of a row that is low, one
\* event for each transaction.
NewAlerts ==
    {LowStock(p, announced'[p].available, Cardinality(alerts)) :
        p \in {q \in Products : /\ announced'[q] # announced[q] /\ announced'[q].low
                                /\ Cardinality(alerts) < MaxAlerts}}

\* A step of the saga, which the notification service hears of later.
Business(A) ==
    /\ A
    /\ alerts' = alerts \cup NewAlerts
    /\ UNCHANGED <<ordered, mailVars>>

\* Everything the notification group may read from its topics.
Mailbox ==
    {e \in Sent : e.topic \in OrderMailTopics} \cup alerts
        \cup {Registered(u) : u \in Users}

NotificationConsumer ==
    /\ (\E e \in Mailbox : HandleMail(e)) \/ CommitMail
    /\ UNCHANGED <<vars, alerts>>

NotificationConsumerFault ==
    /\ LoseMail \/ Overtake
    /\ UNCHANGED <<vars, alerts>>

ViewInit == Init /\ MailInit /\ alerts = {}

ViewNext ==
    \/ Business(OrderConsumer) \/ Business(InventoryConsumer) \/ Business(PaymentConsumer)
    \/ Business(PaymentConsumerCrash) \/ Business(Sweeper) \/ Business(StockAdmin)
    \/ Business(People)
    \/ NotificationConsumer \/ NotificationConsumerFault

ViewSpec == ViewInit /\ [][ViewNext]_viewVars

\* The loops that owe somebody something once a message is out; no other has to
\* go on for the promises below.
ViewFairSpec ==
    /\ ViewSpec
    /\ WF_viewVars(Business(PaymentConsumer)) /\ WF_viewVars(Business(Sweeper))

-----------------------------------------------------------------------------

\* Somebody was sent the message about e, whatever became of the transaction.
Told(e) == BagIn(e, delivered)

OfOrders == {e \in BagToSet(delivered) : e.topic \in OrderMailTopics}

\* What is behind a message when it is sent, and from then on.
\*   "Your order is confirmed": its payment was captured.
\*   "We have refunded": the payment is closed, and the gateway has given back
\*     no less than the refunds on record when this one was made.
\*   "could not be fulfilled ... You have not been charged": never, and the
\*     order never counts as paid.
\*   "Payment failed ... You have not been charged": the attempt captured
\*     nothing that was committed; the gateway has the amount of a lost process,
\*     or of an attempt that succeeded, and nothing else.
\*   "No payment was taken": this order never counted as paid.
\* The last two are less than the words say: see MailIsTrue.
MailIsBacked ==
    \A e \in OfOrders : LET o == e.order IN
        /\ e.topic = ORDER_CONFIRMED => Captured(o)
        /\ e.topic = PAYMENT_REFUNDED =>
               payment[o] = "REFUNDED" /\ e.attempt \in 1 .. returned[o]
        /\ e.topic = INVENTORY_RESERVATION_FAILED =>
               captured[o] = 0 /\ status[o] \notin PAID_STATUSES
        /\ e.topic = PAYMENT_FAILED =>
               /\ PaymentEvent(PAYMENT_SUCCEEDED, o, e.attempt) \notin payOutbox
               /\ captured[o] <= (IF Captured(o) THEN Amount ELSE 0) + Amount * crashes
        /\ e.topic = ORDER_CANCELLED /\ ~e.was_paid =>
               \A i \in 1 .. Len(history[o]) : history[o][i] # "PAID"

\* The words of templates.py taken at their value: nothing has been taken for a
\* payment that failed, until an attempt succeeds, nor for an order cancelled
\* before it was paid, and nothing is refunded that was not taken.  None of the
\* three is so: a capture can be lost, a charge can be under way while its order
\* is cancelled, and a refund can be given twice.
MailIsTrue ==
    \A e \in OfOrders : LET o == e.order IN
        /\ e.topic = PAYMENT_FAILED /\ payment[o] = "FAILED" => captured[o] = 0
        /\ e.topic = ORDER_CANCELLED /\ ~e.was_paid => captured[o] <= returned[o]
        /\ e.topic = PAYMENT_REFUNDED => returned[o] <= captured[o]

\* What a message promises comes true: "A refund has been issued" is written
\* before Payment has heard of the cancellation, and then the payment is refunded
\* or the provider's refusal is on record for a human; "the items reserved for
\* this order have been returned to stock" is written before Inventory has heard
\* of the decline, and holds for as long as the customer does not try to pay again.
MailKept ==
    \A o \in Orders :
        /\ Told(Cancelled(o, TRUE)) ~> payment[o] = "REFUNDED" \/ o \in refundFailed
        /\ \A n \in 1 .. MaxAttempts :
               Told(PaymentEvent(PAYMENT_FAILED, o, n)) ~>
                   [](reservation[o] \notin {"HELD", "COMMITTED"} \/ attempts[o] > n)
=============================================================================
