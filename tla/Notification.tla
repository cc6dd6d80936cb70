---------------------------- MODULE Notification ----------------------------
(***************************************************************************)
(* The notification service (services/notification/app/consumer.py,        *)
(* sender.py): a read model of contacts built from user.registered, and a  *)
(* row in notifications for every event somebody should hear of.           *)
(*                                                                         *)
(* The message goes out inside the transaction that records it.  A handler *)
(* that loses its transaction after deliver has sent a message nobody will *)
(* find in the table, and the redelivered event sends it again.  Subject   *)
(* and body are functions of the event, so a message is its event.         *)
(***************************************************************************)
EXTENDS Events, Integers, Bags, FiniteSets

CONSTANTS
    Customer,          \* Customer[o]: the user who placed order o
    Undeliverable,     \* recipients whose address deliver rejects
    MaxLosses          \* bound: transactions lost or overtaken after the handler ran

Users == {Customer[o] : o \in Orders}

ASSUME NotificationBounds == MaxLosses \in Nat

VARIABLES
    contacts,        \* users with a row in user_contacts
    notifications,   \* the rows of notifications, a bag of [event, status]
    notified,        \* processed_events of this service
    inHand,          \* what the open transaction of a replica has written
    delivered,       \* how often the message of each event was handed over
    undone           \* what rolled-back transactions had written

mailVars == <<contacts, notifications, notified, inHand, delivered, undone>>

Admin == "admin"   \* settings.admin_alert_email

USER_REGISTERED == "user.registered"
LOW_STOCK       == "inventory.low_stock"

Registered(u)  == [topic |-> USER_REGISTERED, user |-> u]
LowStock(p, n, k) == [topic |-> LOW_STOCK, product |-> p, available |-> n, number |-> k]

\* TOPICS of the consumer, without the two above that belong to no order.
OrderMailTopics == {ORDER_CONFIRMED, ORDER_CANCELLED, PAYMENT_FAILED, PAYMENT_REFUNDED,
                    INVENTORY_RESERVATION_FAILED}

Nothing == [event |-> "none", status |-> "NONE"]

MailInit ==
    /\ contacts = {}
    /\ notifications = EmptyBag
    /\ notified = {}
    /\ inHand = Nothing
    /\ delivered = EmptyBag
    /\ undone = EmptyBag

Add(bag, x)   == bag (+) SetToBag({x})
Count(x, bag) == IF BagIn(x, bag) THEN bag[x] ELSE 0

\* A message that went out, and an intent that is only recorded.
MarkSent(e) ==
    /\ inHand' = [event |-> e, status |-> "SENT"]
    /\ delivered' = Add(delivered, e)
MarkFailed(e) ==
    /\ inHand' = [event |-> e, status |-> "FAILED"]
    /\ UNCHANGED delivered

\* _send: the row, deliver, and SENT or FAILED; a DeliveryError is recorded and
\* not raised.
Send(e, recipient) ==
    IF recipient \in Undeliverable THEN MarkFailed(e) ELSE MarkSent(e)

\* _send_to_user: without a contact the intent is recorded as FAILED, and the
\* event counts as handled.
SendToUser(e) ==
    IF Customer[e.order] \in contacts THEN Send(e, Customer[e.order]) ELSE MarkFailed(e)

\* A replica takes an event that is not marked (BaseConsumer._dispatch) and runs
\* its handler.  on_user_registered and on_low_stock carry their own address.
HandleMail(e) ==
    /\ inHand = Nothing
    /\ e \notin notified
    /\ \/ e.topic \in OrderMailTopics /\ SendToUser(e)
       \/ e.topic = USER_REGISTERED /\ Send(e, e.user)
       \/ e.topic = LOW_STOCK /\ Send(e, Admin)
    /\ UNCHANGED <<contacts, notifications, notified, undone>>

\* Mutant of CommitMail: the mark is a transaction of its own, and is lost.
CommitMailUnmarked ==
    /\ inHand # Nothing
    /\ notifications' = Add(notifications, inHand)
    /\ contacts' = contacts \cup
           IF inHand.event.topic = USER_REGISTERED THEN {inHand.event.user} ELSE {}
    /\ inHand' = Nothing
    /\ UNCHANGED <<notified, undone, delivered>>

\* The writes of a handler that commit together: contact, row and mark.
Write(row) ==
    /\ notified' = notified \cup {row.event}
    /\ notifications' = Add(notifications, row)
    /\ contacts' = contacts \cup
           IF row.event.topic = USER_REGISTERED THEN {row.event.user} ELSE {}

\* COMMIT with mark_processed, or a rollback when another replica has marked
\* the event meanwhile.
CommitMail ==
    /\ inHand # Nothing
    /\ IF inHand.event \in notified
       THEN undone' = Add(undone, inHand) /\ UNCHANGED <<contacts, notifications, notified>>
       ELSE Write(inHand) /\ UNCHANGED undone
    /\ inHand' = Nothing
    /\ UNCHANGED delivered

\* The group rebalances under a slow handler: the replica that gets the partition
\* handles the same event, and commits first.
Overtake ==
    /\ inHand # Nothing
    /\ inHand.event \notin notified
    /\ BagCardinality(undone) < MaxLosses
    /\ Write(inHand)
    /\ delivered' = IF inHand.status = "SENT" THEN Add(delivered, inHand.event) ELSE delivered
    /\ UNCHANGED <<inHand, undone>>

\* The process or its connection is lost before COMMIT; the event is delivered
\* again later.
LoseMail ==
    /\ inHand # Nothing
    /\ BagCardinality(undone) < MaxLosses
    /\ undone' = Add(undone, inHand)
    /\ inHand' = Nothing
    /\ UNCHANGED <<contacts, notifications, notified, delivered>>

-----------------------------------------------------------------------------

MailTypeOK ==
    /\ contacts \subseteq Users
    /\ IsABag(notifications) /\ IsABag(delivered) /\ IsABag(undone)
    /\ inHand.status \in {"NONE", "SENT", "FAILED"}

SentRow(e) == [event |-> e, status |-> "SENT"]

\* "Did the customer get told?" is answered by the table: an event is handled
\* exactly when it has one row, and every message that went out is a SENT row,
\* or was sent by a transaction that is still open or was rolled back.
MailAccounted ==
    \A e \in notified \cup BagToSet(delivered) \cup {r.event : r \in BagToSet(notifications)} :
        /\ Cardinality({r \in BagToSet(notifications) : r.event = e})
               = IF e \in notified THEN 1 ELSE 0
        /\ \A r \in BagToSet(notifications) : notifications[r] = 1
        /\ Count(e, delivered) =
               Count(SentRow(e), notifications) + Count(SentRow(e), undone)
               + (IF inHand = SentRow(e) THEN 1 ELSE 0)
=============================================================================
