----------------------------- MODULE MailProofs -----------------------------
(***************************************************************************)
(* What customers are told, for any number of orders, replicas that fail   *)
(* or overtake each other, and rebalances: every message that went out is  *)
(* accounted for, and something is behind it.  Accounting is a matter of   *)
(* the notification service alone; for what a message stands for one has   *)
(* to know what the other services publish, and when.                      *)
(***************************************************************************)
EXTENDS CustomerMail, SagaProofs

-----------------------------------------------------------------------------
(* Accounts *)

\* A row as a handler writes it.
IsRow(r) == r \in [event : {r.event}, status : {"SENT", "FAILED"}]

Open(e) == IF inHand = SentRow(e) THEN 1 ELSE 0

BagsOK   == IsABag(notifications) /\ IsABag(delivered) /\ IsABag(undone)
InHandOK == inHand = Nothing \/ IsRow(inHand)

\* One row for each event that is marked, and none without the mark.
RowsOK ==
    /\ \A r \in BagToSet(notifications) : r.event \in notified /\ notifications[r] = 1
    /\ \A r, s \in BagToSet(notifications) : r.event = s.event => r = s
    /\ \A e \in notified : \E r \in BagToSet(notifications) : r.event = e

Balanced(e) ==
    Count(e, delivered) =
        Count(SentRow(e), notifications) + Count(SentRow(e), undone) + Open(e)

AccountInv == BagsOK /\ InHandOK /\ RowsOK /\ \A e : Balanced(e)

\* What may happen to the tables of the notification service.
MailStep ==
    \/ \E e : HandleMail(e)
    \/ CommitMail \/ LoseMail \/ Overtake
    \/ UNCHANGED mailVars

LEMMA AddOne ==
  ASSUME NEW b, NEW x, IsABag(b)
  PROVE  /\ IsABag(Add(b, x))
         /\ BagToSet(Add(b, x)) = BagToSet(b) \cup {x}
         /\ Count(x, Add(b, x)) = Count(x, b) + 1
         /\ \A y : y # x => Count(y, Add(b, x)) = Count(y, b)
         /\ \A y : Count(y, b) \in Nat
  <1>1. b \in [DOMAIN b -> {n \in Nat : n > 0}]
    BY DEF IsABag
  <1>2. Add(b, x) = [e \in DOMAIN b \cup {x} |->
                        (IF e \in DOMAIN b THEN b[e] ELSE 0) + (IF e \in {x} THEN 1 ELSE 0)]
    BY DEF Add, SetToBag, (+)
  <1> DEFINE a == Add(b, x)
  <1> HIDE DEF a
  <1>3. DOMAIN a = DOMAIN b \cup {x}
    BY <1>2 DEF a
  <1>4. \A e \in DOMAIN b \cup {x} :
            a[e] = (IF e \in DOMAIN b THEN b[e] ELSE 0) + (IF e \in {x} THEN 1 ELSE 0)
    BY <1>2 DEF a
  <1>5. /\ a[x] = (IF x \in DOMAIN b THEN b[x] ELSE 0) + 1
        /\ \A e \in DOMAIN b : e # x => a[e] = b[e]
    BY <1>1, <1>4
  <1>6. \A e \in DOMAIN a : a[e] \in {n \in Nat : n > 0}
    BY <1>1, <1>3, <1>5
  <1>7. a = [e \in DOMAIN a |-> a[e]]
    BY <1>2 DEF a
  <1>8. a \in [DOMAIN a -> {n \in Nat : n > 0}]
    BY <1>6, <1>7
  <1>9. IsABag(a)
    BY <1>8 DEF IsABag
  <1>10. BagToSet(a) = BagToSet(b) \cup {x}
    BY <1>3 DEF BagToSet
  <1>11. /\ Count(x, a) = Count(x, b) + 1
         /\ \A y : y # x => Count(y, a) = Count(y, b)
         /\ \A y : Count(y, b) \in Nat
    BY <1>1, <1>3, <1>5 DEF Count, BagIn, BagToSet
  <1>12. QED
    BY <1>9, <1>10, <1>11 DEF a

LEMMA Rows ==
  /\ \A e : IsRow(SentRow(e)) /\ SentRow(e).event = e /\ SentRow(e).status = "SENT"
  /\ \A e : IsRow([event |-> e, status |-> "FAILED"])
  /\ \A e : [event |-> e, status |-> "FAILED"].status = "FAILED"
  /\ \A e : Nothing # SentRow(e)
  /\ ~IsRow(Nothing)
  /\ \A r, e : IsRow(r) => (r = SentRow(e) <=> r.event = e /\ r.status = "SENT")
  /\ \A r : IsRow(r) => r.status \in {"SENT", "FAILED"}
  <1>1. /\ \A e : IsRow(SentRow(e)) /\ SentRow(e).event = e /\ SentRow(e).status = "SENT"
        /\ \A e : IsRow([event |-> e, status |-> "FAILED"])
        /\ \A e : [event |-> e, status |-> "FAILED"].status = "FAILED"
    BY DEF IsRow, SentRow
  <1>2. Nothing.status = "NONE"
    BY DEF Nothing
  <1>3. \A r : IsRow(r) => r.status \in {"SENT", "FAILED"}
    BY DEF IsRow
  <1>4. \A r, e : IsRow(r) => (r = SentRow(e) <=> r.event = e /\ r.status = "SENT")
    <2>1. ASSUME NEW r, NEW e, IsRow(r), r.event = e, r.status = "SENT"
          PROVE  r = SentRow(e)
      BY <2>1 DEF IsRow, SentRow
    <2>2. QED
      BY <2>1, <1>1
  <1>5. QED
    BY <1>1, <1>2, <1>3, <1>4


\* A handler is run: what it writes is open, and what went out is an open SENT.
LEMMA HandleKeeps ==
  ASSUME AccountInv, NEW e, HandleMail(e)
  PROVE  AccountInv' /\ inHand' # Nothing /\ inHand'.event = e
                     /\ BagToSet(delivered') \subseteq BagToSet(delivered) \cup {e}
  <1>1. /\ inHand = Nothing
        /\ UNCHANGED <<notifications, notified, undone>>
        /\ MarkSent(e) \/ MarkFailed(e)
    BY DEF HandleMail, SendToUser, Send
  <1>2. BagsOK /\ RowsOK /\ \A x : Balanced(x)
    BY DEF AccountInv
  <1>3. \A x : Open(x) = 0
    BY <1>1, Rows DEF Open
  <1>4. RowsOK'
    BY <1>1, <1>2 DEF RowsOK, BagToSet
  <1>5. CASE MarkSent(e)
    <2>1. inHand' = SentRow(e) /\ delivered' = Add(delivered, e)
      BY <1>5 DEF MarkSent, SentRow
    <2>2. /\ IsABag(delivered')
          /\ BagToSet(delivered') = BagToSet(delivered) \cup {e}
          /\ Count(e, delivered') = Count(e, delivered) + 1
          /\ \A y : y # e => Count(y, delivered') = Count(y, delivered)
      BY <2>1, <1>2, AddOne DEF BagsOK
    <2>3. BagsOK' /\ InHandOK'
      BY <1>1, <1>2, <2>1, <2>2, Rows DEF BagsOK, InHandOK
    <2>4. ASSUME NEW x
          PROVE  Balanced(x)'
      <3>1. Balanced(x)
        BY <1>2
      <3>2. Open(x)' = IF x = e THEN 1 ELSE 0
        BY <2>1, Rows DEF Open
      <3>3. /\ Count(SentRow(x), notifications') = Count(SentRow(x), notifications)
            /\ Count(SentRow(x), undone') = Count(SentRow(x), undone)
        BY <1>1
      <3>4. /\ Count(SentRow(x), notifications) \in Nat
            /\ Count(SentRow(x), undone) \in Nat
        BY <1>2, AddOne DEF BagsOK
      <3>5. Count(x, delivered) = Count(SentRow(x), notifications) + Count(SentRow(x), undone)
        BY <3>1, <3>4, <1>3 DEF Balanced
      <3>6. Count(x, delivered') = Count(SentRow(x), notifications') + Count(SentRow(x), undone')
                                      + (IF x = e THEN 1 ELSE 0)
        BY <2>2, <3>3, <3>4, <3>5
      <3>7. QED
        BY <3>2, <3>6 DEF Balanced, SentRow
    <2>5. QED
      BY <1>4, <2>1, <2>2, <2>3, <2>4, Rows DEF AccountInv
  <1>6. CASE MarkFailed(e)
    <2>1. inHand' = [event |-> e, status |-> "FAILED"] /\ delivered' = delivered
      BY <1>6 DEF MarkFailed
    <2>2. IsRow(inHand') /\ inHand'.status = "FAILED" /\ inHand'.event = e
      BY <2>1, Rows
    <2>3. BagsOK' /\ InHandOK'
      BY <1>1, <1>2, <2>1, <2>2 DEF BagsOK, InHandOK
    <2>4. \A x : Open(x)' = 0
      BY <2>2, Rows DEF Open
    <2>5. ASSUME NEW x
          PROVE  Balanced(x)'
      <3>1. Balanced(x) /\ Open(x)' = Open(x)
        BY <1>2, <1>3, <2>4
      <3>2. QED
        BY <3>1, <1>1, <2>1 DEF Balanced, SentRow
    <2>6. QED
      BY <1>4, <2>1, <2>2, <2>3, <2>5, Rows DEF AccountInv
  <1>7. QED
    BY <1>1, <1>5, <1>6

\* A row and its mark are committed together, for an event without a mark.
LEMMA WriteKeeps ==
  ASSUME BagsOK, RowsOK, NEW row, IsRow(row), row.event \notin notified, Write(row)
  PROVE  /\ RowsOK'
         /\ IsABag(notifications')
         /\ \A x : Count(SentRow(x), notifications') =
                       Count(SentRow(x), notifications) + IF row = SentRow(x) THEN 1 ELSE 0
  <1>1. notified' = notified \cup {row.event} /\ notifications' = Add(notifications, row)
    BY DEF Write
  <1>2. row \notin BagToSet(notifications)
    BY DEF RowsOK
  <1>3. /\ IsABag(notifications')
        /\ BagToSet(notifications') = BagToSet(notifications) \cup {row}
        /\ Count(row, notifications') = Count(row, notifications) + 1
        /\ \A y : y # row => Count(y, notifications') = Count(y, notifications)
        /\ \A y : Count(y, notifications) \in Nat
    BY <1>1, AddOne DEF BagsOK
  <1>a. \A y \in BagToSet(notifications') : notifications'[y] = 1
    <2>1. \A y : /\ Count(y, notifications) =
                         IF y \in BagToSet(notifications) THEN notifications[y] ELSE 0
                 /\ Count(y, notifications') =
                         IF y \in BagToSet(notifications') THEN notifications'[y] ELSE 0
      BY DEF Count, BagIn
    <2>2. \A y \in BagToSet(notifications) : notifications[y] = 1
      BY DEF RowsOK
    <2>3. notifications'[row] = 1
      BY <1>2, <1>3, <2>1
    <2>4. \A y \in BagToSet(notifications) : y # row => notifications'[y] = 1
      BY <1>3, <2>1, <2>2
    <2>5. QED
      BY <1>3, <2>3, <2>4
  <1>4. RowsOK'
    <2>1. \A r \in BagToSet(notifications') : r.event \in notified' /\ notifications'[r] = 1
      BY <1>1, <1>3, <1>a DEF RowsOK
    <2>2. \A r, s \in BagToSet(notifications') : r.event = s.event => r = s
      BY <1>3 DEF RowsOK
    <2>3. \A e \in notified' : \E r \in BagToSet(notifications') : r.event = e
      BY <1>1, <1>3 DEF RowsOK
    <2>4. QED
      BY <2>1, <2>2, <2>3 DEF RowsOK, BagToSet
  <1>5. \A x : Count(SentRow(x), notifications') =
                   Count(SentRow(x), notifications) + IF row = SentRow(x) THEN 1 ELSE 0
    BY <1>3
  <1>6. QED
    BY <1>3, <1>4, <1>5

\* The open transaction ends: COMMIT, a rollback at the mark, or a loss.
LEMMA EndKeeps ==
  ASSUME AccountInv, CommitMail \/ LoseMail
  PROVE  AccountInv'
  <1>1. /\ inHand # Nothing
        /\ inHand' = Nothing
        /\ UNCHANGED delivered
        /\ \/ /\ undone' = Add(undone, inHand)
              /\ UNCHANGED <<notifications, notified>>
           \/ /\ inHand.event \notin notified
              /\ Write(inHand)
              /\ UNCHANGED undone
    BY DEF CommitMail, LoseMail
  <1>2. BagsOK /\ RowsOK /\ IsRow(inHand) /\ \A x : Balanced(x)
    BY <1>1 DEF AccountInv, InHandOK
  <1>3. InHandOK' /\ \A x : Open(x)' = 0
    BY <1>1, Rows DEF InHandOK, Open
  <1>4. \A x : Open(x) = IF inHand = SentRow(x) THEN 1 ELSE 0
    BY DEF Open
  <1>5. \A x : /\ Count(SentRow(x), notifications) \in Nat
               /\ Count(SentRow(x), undone) \in Nat
    BY <1>2, AddOne DEF BagsOK
  <1>6. CASE undone' = Add(undone, inHand) /\ UNCHANGED <<notifications, notified>>
    <2>1. /\ IsABag(undone')
          /\ Count(inHand, undone') = Count(inHand, undone) + 1
          /\ \A y : y # inHand => Count(y, undone') = Count(y, undone)
      BY <1>2, <1>6, AddOne DEF BagsOK
    <2>2. BagsOK' /\ RowsOK'
      BY <1>1, <1>2, <1>6, <2>1 DEF BagsOK, RowsOK, BagToSet
    <2>3. ASSUME NEW x
          PROVE  Balanced(x)'
      <3>1. Count(SentRow(x), undone') =
                Count(SentRow(x), undone) + IF inHand = SentRow(x) THEN 1 ELSE 0
        BY <2>1, <1>5
      <3>2. Count(x, delivered) = Count(SentRow(x), notifications) + Count(SentRow(x), undone)
                                      + Open(x)
        BY <1>2 DEF Balanced
      <3>3. Count(x, delivered') =
                Count(SentRow(x), notifications') + Count(SentRow(x), undone') + 0
        BY <3>1, <3>2, <1>1, <1>4, <1>5, <1>6
      <3>4. QED
        BY <3>3, <1>3 DEF Balanced, SentRow
    <2>4. QED
      BY <1>3, <2>2, <2>3 DEF AccountInv
  <1>7. CASE inHand.event \notin notified /\ Write(inHand) /\ UNCHANGED undone
    <2>1. /\ RowsOK'
          /\ IsABag(notifications')
          /\ \A x : Count(SentRow(x), notifications') =
                        Count(SentRow(x), notifications)
                            + IF inHand = SentRow(x) THEN 1 ELSE 0
      BY <1>2, <1>7, WriteKeeps
    <2>2. BagsOK'
      BY <1>1, <1>2, <1>7, <2>1 DEF BagsOK
    <2>3. ASSUME NEW x
          PROVE  Balanced(x)'
      <3>1. Count(x, delivered) = Count(SentRow(x), notifications) + Count(SentRow(x), undone)
                                      + Open(x)
        BY <1>2 DEF Balanced
      <3>2. Count(x, delivered') =
                Count(SentRow(x), notifications') + Count(SentRow(x), undone') + 0
        BY <2>1, <3>1, <1>1, <1>4, <1>5, <1>7
      <3>3. QED
        BY <3>2, <1>3 DEF Balanced, SentRow
    <2>4. QED
      BY <1>3, <2>1, <2>2, <2>3 DEF AccountInv
  <1>8. QED
    BY <1>1, <1>6, <1>7

\* Another replica handles the event in hand and commits first.
LEMMA OvertakeKeeps ==
  ASSUME AccountInv, Overtake
  PROVE  /\ AccountInv' /\ inHand' = inHand /\ inHand # Nothing
         /\ BagToSet(delivered') \subseteq BagToSet(delivered) \cup {inHand.event}
  <1>1. /\ inHand # Nothing
        /\ inHand.event \notin notified
        /\ Write(inHand)
        /\ delivered' = IF inHand.status = "SENT" THEN Add(delivered, inHand.event) ELSE delivered
        /\ inHand' = inHand
        /\ undone' = undone
    BY DEF Overtake
  <1>2. BagsOK /\ RowsOK /\ IsRow(inHand) /\ \A x : Balanced(x)
    BY <1>1 DEF AccountInv, InHandOK
  <1>3. /\ RowsOK'
        /\ IsABag(notifications')
        /\ \A x : Count(SentRow(x), notifications') =
                      Count(SentRow(x), notifications) + IF inHand = SentRow(x) THEN 1 ELSE 0
    BY <1>1, <1>2, WriteKeeps
  <1>4. /\ IsABag(delivered')
        /\ BagToSet(delivered') \subseteq BagToSet(delivered) \cup {inHand.event}
        /\ \A x : Count(x, delivered') =
                      Count(x, delivered) + IF inHand = SentRow(x) THEN 1 ELSE 0
    <2>1. \A x : inHand = SentRow(x) <=> inHand.event = x /\ inHand.status = "SENT"
      BY <1>2, Rows
    <2>2. \A x : Count(x, delivered) \in Nat
      BY <1>2, AddOne DEF BagsOK
    <2>3. CASE inHand.status = "SENT"
      <3>1. delivered' = Add(delivered, inHand.event)
        BY <1>1, <2>3
      <3>2. /\ IsABag(delivered')
            /\ BagToSet(delivered') = BagToSet(delivered) \cup {inHand.event}
            /\ Count(inHand.event, delivered') = Count(inHand.event, delivered) + 1
            /\ \A y : y # inHand.event => Count(y, delivered') = Count(y, delivered)
        BY <3>1, <1>2, AddOne DEF BagsOK
      <3>3. QED
        BY <3>2, <2>1, <2>2, <2>3
    <2>4. CASE inHand.status # "SENT"
      <3>1. delivered' = delivered
        BY <1>1, <2>4
      <3>2. QED
        BY <3>1, <1>2, <2>1, <2>2, <2>4 DEF BagsOK
    <2>5. QED
      BY <2>3, <2>4
  <1>5. BagsOK' /\ InHandOK'
    BY <1>1, <1>2, <1>3, <1>4 DEF BagsOK, InHandOK
  <1>6. ASSUME NEW x
        PROVE  Balanced(x)'
    <2>1. /\ Count(SentRow(x), notifications) \in Nat
          /\ Count(SentRow(x), undone) \in Nat
      BY <1>2, AddOne DEF BagsOK
    <2>2. Count(x, delivered) = Count(SentRow(x), notifications) + Count(SentRow(x), undone)
                                    + Open(x)
      BY <1>2 DEF Balanced
    <2>3. Open(x)' = Open(x) /\ Open(x) \in Nat
      BY <1>1 DEF Open, SentRow
    <2>4. Count(x, delivered') = Count(SentRow(x), notifications')
                                     + Count(SentRow(x), undone') + Open(x)
      BY <1>1, <1>3, <1>4, <2>1, <2>2, <2>3
    <2>5. QED
      BY <2>3, <2>4 DEF Balanced, SentRow
  <1>7. QED
    BY <1>1, <1>3, <1>4, <1>5, <1>6 DEF AccountInv

LEMMA AccountStep == AccountInv /\ [ViewNext]_viewVars => AccountInv'
  <1> SUFFICES ASSUME AccountInv, [ViewNext]_viewVars
               PROVE  AccountInv'
    OBVIOUS
  <1>1. CASE UNCHANGED mailVars
    <2>1. BagsOK' /\ InHandOK' /\ RowsOK'
      BY <1>1 DEF mailVars, AccountInv, BagsOK, InHandOK, RowsOK, BagToSet
    <2>2. \A x : Balanced(x)'
      BY <1>1 DEF mailVars, AccountInv, Balanced, Open, SentRow
    <2>3. QED
      BY <2>1, <2>2 DEF AccountInv
  <1>2. CASE NotificationConsumer \/ NotificationConsumerFault
    BY <1>2, HandleKeeps, EndKeeps, OvertakeKeeps
       DEF NotificationConsumer, NotificationConsumerFault
  <1>3. UNCHANGED mailVars \/ NotificationConsumer \/ NotificationConsumerFault
    BY DEF ViewNext, Business, viewVars
  <1>4. QED
    BY <1>1, <1>2, <1>3

LEMMA AccountStart == ViewInit => AccountInv
  <1> SUFFICES ASSUME MailInit
               PROVE  AccountInv
    BY DEF ViewInit
  <1>1. /\ notifications = EmptyBag /\ delivered = EmptyBag /\ undone = EmptyBag
        /\ notified = {} /\ inHand = Nothing
    BY DEF MailInit
  <1>2. DOMAIN EmptyBag = {} /\ IsABag(EmptyBag)
    BY DEF EmptyBag, SetToBag, IsABag
  <1>3. \A x : Count(x, EmptyBag) = 0
    BY <1>2 DEF Count, BagIn, BagToSet
  <1>4. \A x : Balanced(x)
    BY <1>1, <1>3, Rows DEF Balanced, Open
  <1>5. QED
    BY <1>1, <1>2, <1>4 DEF AccountInv, BagsOK, InHandOK, RowsOK, BagToSet

\* "Did the customer get told?" is answered by the table, whatever is lost,
\* delivered again or handled twice (consumer._send and BaseConsumer._dispatch):
\* an event is handled exactly when it has its one row, and every message that
\* went out is a SENT row, or belongs to a transaction that is open or undone.
THEOREM AccountsCorrect == ViewSpec => []MailAccounted
  <1>1. ASSUME AccountInv
        PROVE  MailAccounted
    <2> DEFINE R(e) == {r \in BagToSet(notifications) : r.event = e}
    <2>1. RowsOK /\ \A e : Balanced(e)
      BY <1>1 DEF AccountInv
    <2>2. ASSUME NEW e
          PROVE  Cardinality(R(e)) = IF e \in notified THEN 1 ELSE 0
      <3>1. CASE e \in notified
        <4>1. PICK r \in BagToSet(notifications) : r.event = e
          BY <2>1, <3>1 DEF RowsOK
        <4>2. R(e) = {r}
          BY <2>1, <4>1 DEF RowsOK
        <4>3. QED
          BY <3>1, <4>2, FS_Singleton
      <3>2. CASE e \notin notified
        <4>1. R(e) = {}
          BY <2>1, <3>2 DEF RowsOK
        <4>2. QED
          BY <3>2, <4>1, FS_EmptySet
      <3>3. QED
        BY <3>1, <3>2
    <2>3. \A e : Count(e, delivered) =
                     Count(SentRow(e), notifications) + Count(SentRow(e), undone)
                         + (IF inHand = SentRow(e) THEN 1 ELSE 0)
      BY <2>1 DEF Balanced, Open
    <2>4. \A r \in BagToSet(notifications) : notifications[r] = 1
      BY <2>1 DEF RowsOK
    <2>5. QED
      BY <2>2, <2>3, <2>4 DEF MailAccounted
  <1>2. QED
    BY <1>1, AccountStart, AccountStep, PTL DEF ViewSpec


-----------------------------------------------------------------------------
(* What the other services have published by the time a message is sent *)

\* Every step of the view is one of the saga, or none.
LEMMA ViewIsSaga == ViewSpec => Spec
  <1>1. ViewInit => Init
    BY DEF ViewInit
  <1>2. [ViewNext]_viewVars => [Next]_vars
    BY DEF ViewNext, Business, NotificationConsumer, NotificationConsumerFault, viewVars, Next
  <1>3. QED
    BY <1>1, <1>2, PTL DEF ViewSpec, Spec

\* A message is about an event that was on offer, and an alert is no event of
\* an order.
TopicsOK ==
    /\ \A e \in alerts : e.topic = LOW_STOCK
    /\ BagToSet(delivered) \subseteq Mailbox
    /\ inHand # Nothing => inHand.event \in Mailbox

\* What is behind an event: an order is confirmed once it was PAID; a refund closes
\* the payment, the row adds up no more than the gateway gave back, and the event
\* no more than the row; money is only taken after the stock was set aside.
ConfirmedWasPaid ==
    \A e \in orderOutbox : e.topic = ORDER_CONFIRMED => Visited(history[e.order], "PAID")
RefundWasGiven ==
    /\ \A e \in payOutbox :
           e.topic = PAYMENT_REFUNDED =>
               payment[e.order] = "REFUNDED" /\ e.attempt \in 1 .. refunded[e.order]
    /\ \A o \in Orders : refunded[o] <= returned[o]
TakenWasReserved ==
    \A o \in Orders : captured[o] # 0 => Event(INVENTORY_RESERVED, o) \in invOutbox

SaidIsSo == ConfirmedWasPaid /\ RefundWasGiven /\ TakenWasReserved

\* What is known of the saga when the step is taken.
SagaKnown == Known /\ MoneyInv

\* Nothing is taken from the topics.
LEMMA MailboxGrows ==
  ASSUME BaseInv, [ViewNext]_viewVars
  PROVE  /\ Mailbox \subseteq Mailbox'
         /\ alerts \subseteq alerts'
         /\ \A e \in alerts' \ alerts : e.topic = LOW_STOCK
  <1>1. [Next]_vars
    BY DEF ViewNext, Business, NotificationConsumer, NotificationConsumerFault, viewVars, Next
  <1>2. OrderStep /\ PaymentStep /\ InvStep
    BY <1>1, StepOfEach
  <1>3. Sent \subseteq Sent'
    BY <1>2, OrderPublishes, PaymentPublishes, InventoryPublishes DEF Sent
  <1>4. alerts' = alerts \cup NewAlerts \/ alerts' = alerts
    BY DEF ViewNext, Business, NotificationConsumer, NotificationConsumerFault, viewVars
  <1>5. \A e \in NewAlerts : e.topic = LOW_STOCK
    BY DEF NewAlerts, LowStock
  <1>6. QED
    BY <1>3, <1>4, <1>5 DEF Mailbox

LEMMA TopicsStep ==
  ASSUME BaseInv, AccountInv, TopicsOK, [ViewNext]_viewVars
  PROVE  TopicsOK'
  <1>1. /\ Mailbox \subseteq Mailbox'
        /\ \A e \in alerts' : e.topic = LOW_STOCK
    BY MailboxGrows DEF TopicsOK
  <1>2. ASSUME BagToSet(delivered') \subseteq Mailbox',
               inHand' # Nothing => inHand'.event \in Mailbox'
        PROVE  TopicsOK'
    BY <1>1, <1>2 DEF TopicsOK, BagToSet, Nothing
  <1>3. CASE UNCHANGED mailVars
    BY <1>1, <1>2, <1>3 DEF TopicsOK, mailVars
  <1>4. ASSUME NEW e \in Mailbox, HandleMail(e)
        PROVE  TopicsOK'
    BY <1>1, <1>2, <1>4, HandleKeeps DEF TopicsOK
  <1>5. CASE CommitMail \/ LoseMail
    <2>1. inHand' = Nothing /\ delivered' = delivered
      BY <1>5 DEF CommitMail, LoseMail
    <2>2. QED
      BY <1>1, <1>2, <2>1 DEF TopicsOK
  <1>6. CASE Overtake
    BY <1>1, <1>2, <1>6, OvertakeKeeps DEF TopicsOK
  <1>7. QED
    BY <1>3, <1>4, <1>5, <1>6
       DEF ViewNext, Business, NotificationConsumer, NotificationConsumerFault, viewVars

\* A message about an order is about an event its service has sent.
LEMMA ToldWasSent ==
  ASSUME BaseInv, TopicsOK, NEW e \in OfOrders
  PROVE  /\ e.order \in Orders
         /\ e.topic \in OrderTopics => e \in orderOutbox
         /\ e.topic \in InvTopics => e \in invOutbox
         /\ e.topic \in PayTopics => e \in payOutbox
  <1>1. e \in Mailbox /\ e.topic \in OrderMailTopics
    BY DEF OfOrders, TopicsOK
  <1>2. e.topic # LOW_STOCK /\ e.topic # USER_REGISTERED
    BY <1>1 DEF OrderMailTopics, LOW_STOCK, USER_REGISTERED, ORDER_CONFIRMED, ORDER_CANCELLED,
           PAYMENT_FAILED, PAYMENT_REFUNDED, INVENTORY_RESERVATION_FAILED
  <1>3. e \notin alerts
    BY <1>2 DEF TopicsOK
  <1>4. \A u : Registered(u).topic = USER_REGISTERED
    BY DEF Registered
  <1>5. e \in Sent
    BY <1>1, <1>2, <1>3, <1>4 DEF Mailbox
  <1>6. QED
    BY <1>5, Senders

\* Orders are confirmed by OnPaymentSucceeded, which visits PAID on the way.
LEMMA ConfirmedStep ==
  ASSUME OrderInv, OrderStep, ConfirmedWasPaid
  PROVE  ConfirmedWasPaid'
  <1>a. OrderTypeOK /\ \A o \in Orders : RowOK(o)
    BY DEF OrderInv
  <1>b. /\ \A x : Event(ORDER_CREATED, x).topic # ORDER_CONFIRMED
        /\ \A x, b : Cancelled(x, b).topic # ORDER_CONFIRMED
        /\ \A x : Event(ORDER_CONFIRMED, x).order = x
    BY DEF Event, Cancelled, ORDER_CONFIRMED, ORDER_CREATED, ORDER_CANCELLED
  <1>c. orderOutbox' \subseteq Envelope
    BY OrderInvStep DEF OrderInv, OrderTypeOK
  <1> SUFFICES ASSUME NEW e \in orderOutbox', e.topic = ORDER_CONFIRMED,
                      NEW o, o = e.order
               PROVE  Visited(history'[o], "PAID")
    BY DEF ConfirmedWasPaid, Visited
  <1>d. o \in Orders
    BY <1>c DEF Envelope
  <1>1. ASSUME NEW x \in Orders,
               \/ OnInventoryReserved(x) \/ OnReservationFailed(x) \/ OnPaymentFailed(x)
               \/ CreateOrder(x) \/ CancelOrder(x) \/ ShipOrder(x) \/ DeliverOrder(x)
               \/ OnPaymentSucceeded(x) /\ x # o
        PROVE  Visited(history'[o], "PAID")
    <2>1. \/ orderOutbox' = orderOutbox
          \/ orderOutbox' = orderOutbox \cup {Event(ORDER_CREATED, x)}
          \/ \E b \in BOOLEAN : orderOutbox' = orderOutbox \cup {Cancelled(x, b)}
          \/ x # o /\ orderOutbox' = orderOutbox \cup {Event(ORDER_CONFIRMED, x)}
      <3>1. CASE CancelOrder(x)
        <4>1. (status[x] \in PAID_STATUSES) \in BOOLEAN
          OBVIOUS
        <4>2. QED
          BY <3>1, <4>1 DEF CancelOrder, Publish
      <3>2. CASE OnInventoryReserved(x) \/ OnReservationFailed(x) \/ OnPaymentFailed(x)
        BY <3>2 DEF OnInventoryReserved, OnReservationFailed, OnPaymentFailed, Drop, Publish,
                    orderVars
      <3>3. CASE CreateOrder(x) \/ ShipOrder(x) \/ DeliverOrder(x)
        BY <3>3 DEF CreateOrder, ShipOrder, DeliverOrder, Publish
      <3>4. CASE OnPaymentSucceeded(x) /\ x # o
        BY <3>4 DEF OnPaymentSucceeded, Drop, Publish, orderVars
      <3>5. QED
        BY <1>1, <3>1, <3>2, <3>3, <3>4
    <2>2. e \in orderOutbox
      BY <2>1, <1>b
    <2>3. QED
      BY <1>1, <1>d, <2>2, TrailStep DEF ConfirmedWasPaid
  <1>2. CASE UNCHANGED orderVars
    BY <1>2 DEF orderVars, ConfirmedWasPaid
  <1>3. CASE OnPaymentSucceeded(o) /\ ~UNCHANGED orderVars
    <2>1. /\ status[o] # "NONE" /\ can_transition(status[o], "PAID")
          /\ history' = [history EXCEPT ![o] = @ \o <<"PAID", "CONFIRMED">>]
      BY <1>3 DEF OnPaymentSucceeded, Drop
    <2>2. history[o] \in Seq(OrderStatus) /\ Path(history[o], status[o])
      BY <1>a, <1>d, <2>1 DEF OrderTypeOK, RowOK
    <2>3. Visited(history[o] \o <<"PAID", "CONFIRMED">>, "PAID")
      BY <2>1, <2>2, PathOfPayment
    <2>4. history'[o] = history[o] \o <<"PAID", "CONFIRMED">>
      BY <1>a, <1>d, <2>1 DEF OrderTypeOK
    <2>5. QED
      BY <2>3, <2>4
  <1>4. QED
    BY <1>1, <1>2, <1>3, <1>d DEF OrderStep, OrderRequest

\* A refund that is announced closed the payment, and a closed one stays closed;
\* what the row adds up, the gateway gave back.
LEMMA RefundGivenStep ==
  ASSUME PayInv, PaymentStep, RefundWasGiven
  PROVE  RefundWasGiven'
  <1>a. /\ PayTypeOK /\ payOutbox \subseteq Envelope
        /\ refunded \in [Orders -> Nat] /\ returned \in [Orders -> Nat]
    BY DEF PayInv, PayTypeOK
  <1>b. \A e \in payOutbox : e.order \in Orders
    BY <1>a DEF Envelope
  \* A step that publishes no refund adds none to a row.
  <1>1. ASSUME \A e \in payOutbox' \ payOutbox : e.topic # PAYMENT_REFUNDED,
               refunded' = refunded,
               \A o \in Orders : returned[o] <= returned'[o] /\ returned'[o] \in Nat
        PROVE  RefundWasGiven'
    <2>1. ASSUME NEW e \in payOutbox, e.topic = PAYMENT_REFUNDED
          PROVE  payment'[e.order] = "REFUNDED" /\ e.attempt \in 1 .. refunded'[e.order]
      BY <1>b, <1>1, <2>1, PaymentMoves DEF RefundWasGiven, PaymentMoved, Captured
    <2>2. \A o \in Orders : refunded'[o] <= returned'[o]
      BY <1>a, <1>1 DEF RefundWasGiven
    <2>3. QED
      BY <1>1, <2>1, <2>2 DEF RefundWasGiven
  <1>2. ASSUME NEW o \in Orders, NEW amount \in Nat \ {0}, CompleteRefund(o, amount)
        PROVE  RefundWasGiven'
    <2> DEFINE total == refunded[o] + amount
               new == PaymentEvent(PAYMENT_REFUNDED, o, total)
    <2>1. /\ refunded' = [refunded EXCEPT ![o] = total]
          /\ returned' = [returned EXCEPT ![o] = @ + amount]
          /\ payment' = [payment EXCEPT ![o] = "REFUNDED"]
          /\ payOutbox' = payOutbox \cup {new}
      BY <1>2 DEF CompleteRefund, GatewayRefund, Enqueue
    <2>2. new.order = o /\ new.attempt = total /\ total \in Nat \ {0}
      BY <1>a DEF PaymentEvent
    <2>3. \A x \in Orders : /\ refunded[x] <= refunded'[x] /\ refunded'[x] \in Nat
                            /\ refunded'[x] <= returned'[x]
      BY <1>a, <2>1 DEF RefundWasGiven
    <2>4. refunded'[o] = total /\ payment'[o] = "REFUNDED"
      BY <1>a, <2>1 DEF PayTypeOK
    <2> HIDE DEF new, total
    <2>5. ASSUME NEW e \in payOutbox, e.topic = PAYMENT_REFUNDED
          PROVE  payment'[e.order] = "REFUNDED" /\ e.attempt \in 1 .. refunded'[e.order]
      <3>1. payment[e.order] = "REFUNDED" /\ e.attempt \in 1 .. refunded[e.order]
        BY <2>5 DEF RefundWasGiven
      <3>2. /\ payment'[e.order] = "REFUNDED"
            /\ refunded[e.order] \in Nat /\ refunded'[e.order] \in Nat
            /\ refunded[e.order] <= refunded'[e.order]
        BY <1>a, <1>b, <2>1, <2>3, <2>5, <3>1 DEF PayTypeOK
      <3>3. QED
        BY <3>1, <3>2
    <2>6. new.attempt \in 1 .. refunded'[new.order] /\ payment'[new.order] = "REFUNDED"
      BY <2>2, <2>4
    <2>7. QED
      BY <2>1, <2>3, <2>5, <2>6 DEF RefundWasGiven
  <1>3. CASE UNCHANGED <<refunded, returned, payOutbox>>
    BY <1>1, <1>3, <1>a
  <1>4. ASSUME NEW o \in Orders, NEW n, NEW ok \in BOOLEAN, AttemptCharge(o, n, ok)
        PROVE  RefundWasGiven'
    <2>1. UNCHANGED <<refunded, returned>>
      BY <1>4 DEF AttemptCharge
    <2>2. \A e \in payOutbox' \ payOutbox : e.topic # PAYMENT_REFUNDED
      BY <1>4 DEF AttemptCharge, Enqueue, PaymentEvent, PAYMENT_REFUNDED, PAYMENT_SUCCEEDED,
                  PAYMENT_FAILED
    <2>3. QED
      BY <1>1, <1>a, <2>1, <2>2
  <1>5. ASSUME NEW o \in Orders, NEW amount \in Nat \ {0},
               AttemptRefund(o, amount) \/ LoseRefund(o, amount)
        PROVE  RefundWasGiven'
    <2>1. CASE CompleteRefund(o, amount)
      BY <1>2, <2>1
    <2>2. CASE UNCHANGED <<refunded, returned, payOutbox>>
      BY <1>3, <2>2
    <2>3. CASE LoseRefund(o, amount)
      <3>1. /\ payOutbox' = payOutbox /\ refunded' = refunded
            /\ \A x \in Orders : returned[x] <= returned'[x] /\ returned'[x] \in Nat
        BY <1>a, <2>3 DEF LoseRefund, GatewayRefund
      <3>2. QED
        BY <1>1, <3>1
    <2>4. QED
      BY <1>5, <2>1, <2>2, <2>3 DEF AttemptRefund
  <1>6. ASSUME NEW o \in Orders, RefundForOrder(o) \/ RefundLost(o)
        PROVE  RefundWasGiven'
    BY <1>3, <1>5, <1>6, PaymentBounds DEF RefundForOrder, RefundLost, payVars
  <1>7. ASSUME NEW a \in Admins, NEW amount \in 1 .. Amount,
               AdminRefund(a, amount) \/ AdminRefundLost(a, amount)
        PROVE  RefundWasGiven'
    <2>1. amount \in Nat \ {0} /\ (desk[a].status = "SUCCEEDED" => desk[a].order \in Orders)
      BY <1>a, PaymentBounds DEF PayTypeOK, Idle
    <2>2. QED
      BY <1>3, <1>5, <1>7, <2>1 DEF AdminRefund, AdminRefundLost
  <1>8. ASSUME NEW o \in Orders, \/ ChargeForOrder(o) \/ RetryPayment(o)
                                 \/ ChargeLost(o) \/ RetryLost(o)
        PROVE  RefundWasGiven'
    BY <1>3, <1>4, <1>8 DEF ChargeForOrder, RetryPayment, ChargeLost, RetryLost, LoseCapture,
                            payVars
  <1>9. QED
    BY <1>3, <1>6, <1>7, <1>8 DEF PaymentStep, PaymentRequest, AdminLoad, payVars

\* The gateway takes money for inventory.reserved, or for a payment that had it.
LEMMA TakenStep ==
  ASSUME SagaKnown, TakenWasReserved, [Next]_vars
  PROVE  TakenWasReserved'
  <1>a. /\ BaseInv /\ ChargedWasAnswered
        /\ captured \in [Orders -> Nat]
        /\ payment \in [Orders -> (PaymentStatus \cup {"NONE"}) \ {"PENDING"}]
    BY DEF SagaKnown, Known, MoneyInv, BaseInv, PayInv, PayTypeOK
  <1>b. invOutbox \subseteq invOutbox'
    BY <1>a, StepOfEach, InventoryPublishes
  <1> SUFFICES ASSUME NEW o \in Orders, captured'[o] # 0, captured[o] = 0
               PROVE  Event(INVENTORY_RESERVED, o) \in invOutbox
    BY <1>b DEF TakenWasReserved
  <1>1. ASSUME NEW e \in Sent, e.topic = INVENTORY_RESERVED, e.order = o
        PROVE  Event(INVENTORY_RESERVED, o) \in invOutbox
    BY <1>a, <1>1, Senders DEF BaseInv, MessagesInv, InvTopics
  <1>2. ASSUME NEW x \in Orders, NEW ok \in BOOLEAN, GatewayCharge(x, ok)
        PROVE  x = o
    BY <1>a, <1>2 DEF GatewayCharge
  <1>3. ASSUME NEW x, ChargeForOrder(x), x \in Orders
        PROVE  x = o
    BY <1>2, <1>3 DEF ChargeForOrder, AttemptCharge, payVars
  <1>4. \A x : ~RefundForOrder(x) /\ ~RefundLost(x)
    BY DEF RefundForOrder, AttemptRefund, CompleteRefund, RefundLost, LoseRefund, payVars
  <1>5. ASSUME NEW x \in Orders, RetryPayment(x) \/ RetryLost(x) \/ ChargeLost(x)
        PROVE  x = o
    BY <1>2, <1>5 DEF RetryPayment, RetryLost, ChargeLost, LoseCapture, AttemptCharge
  <1>6. ~UNCHANGED payVars
    BY DEF payVars
  <1>7. CASE PaymentConsumer
    <2>1. PICK e \in Sent : e.topic = INVENTORY_RESERVED /\ ChargeForOrder(e.order)
      BY <1>4, <1>6, <1>7 DEF PaymentConsumer
    <2>2. QED
      BY <1>a, <1>1, <1>3, <2>1, Senders
  <1>8. CASE PaymentConsumerCrash
    <2>1. PICK e \in Sent : e.topic = INVENTORY_RESERVED /\ ChargeLost(e.order)
      BY <1>4, <1>8 DEF PaymentConsumerCrash
    <2>2. QED
      BY <1>a, <1>1, <1>5, <2>1, Senders
  <1>9. CASE PaymentRequest
    <2>1. \A a, x, amount :
             ~AdminLoad(a, x) /\ ~AdminRefund(a, amount) /\ ~AdminRefundLost(a, amount)
      BY DEF AdminLoad, AdminRefund, AttemptRefund, CompleteRefund, AdminRefundLost, LoseRefund
    <2>2. PICK x \in Orders : RetryPayment(x) \/ RetryLost(x)
      BY <1>9, <2>1 DEF PaymentRequest
    <2>3. payment[o] = "FAILED"
      BY <1>5, <2>2 DEF RetryPayment, RetryLost
    <2>4. QED
      BY <1>a, <2>3 DEF ChargedWasAnswered
  <1>10. QED
    BY <1>6, <1>7, <1>8, <1>9
       DEF Next, People, OrderConsumer, InventoryConsumer, Sweeper, StockAdmin, vars

LEMMA SaidIsSoCorrect == Spec => [](SagaKnown /\ SaidIsSo)
  <1>1. Init => SaidIsSo
    BY DEF Init, OrderInit, PayInit, SaidIsSo, ConfirmedWasPaid, RefundWasGiven, TakenWasReserved
  <1>2. SagaKnown /\ SaidIsSo /\ [Next]_vars => SaidIsSo'
    <2> SUFFICES ASSUME SagaKnown, SaidIsSo, [Next]_vars
                 PROVE  SaidIsSo'
      OBVIOUS
    <2>1. BaseInv /\ OrderInv /\ PayInv /\ OrderStep /\ PaymentStep
      BY StepOfEach DEF SagaKnown, Known, BaseInv
    <2>2. QED
      BY <2>1, ConfirmedStep, RefundGivenStep, TakenStep DEF SaidIsSo
  <1>3. Known /\ MoneyInv => SagaKnown
    BY DEF SagaKnown
  <1>4. QED
    BY <1>1, <1>2, <1>3, KnownAlways, MoneyInvCorrect, PTL DEF Spec


-----------------------------------------------------------------------------
(* What is behind the messages *)

LEMMA TopicsCorrect == ViewSpec => []TopicsOK
  <1>1. ViewInit => TopicsOK
    BY DEF ViewInit, MailInit, TopicsOK, BagToSet, EmptyBag, SetToBag
  <1>2. BaseInv /\ AccountInv /\ TopicsOK /\ [ViewNext]_viewVars => TopicsOK'
    BY TopicsStep
  <1>3. ViewSpec => [](BaseInv /\ AccountInv)
    BY ViewIsSaga, BaseInvCorrect, AccountStart, AccountStep, PTL DEF ViewSpec
  <1>4. QED
    BY <1>1, <1>2, <1>3, PTL DEF ViewSpec

LEMMA BackedNow ==
  ASSUME SagaKnown, SaidIsSo, TopicsOK
  PROVE  MailIsBacked
  <1>1. /\ BaseInv /\ OneAnswer /\ PaidWasCaptured /\ ChargedWasAnswered
        /\ captured \in [Orders -> Nat] /\ refunded \in [Orders -> Nat]
        /\ returned \in [Orders -> Nat]
        /\ OrderInv /\ AttemptsMade /\ OutcomesPublished /\ CaptureBounded
        /\ ConfirmedWasPaid /\ RefundWasGiven /\ TakenWasReserved
    BY DEF SagaKnown, Known, MoneyInv, SaidIsSo, BaseInv, PayInv, PayTypeOK
  <1>2. /\ ORDER_CONFIRMED \in OrderTopics /\ ORDER_CANCELLED \in OrderTopics
        /\ PAYMENT_REFUNDED \in PayTopics /\ PAYMENT_FAILED \in PayTopics
        /\ INVENTORY_RESERVATION_FAILED \in InvTopics
    BY DEF OrderTopics, PayTopics, InvTopics
  <1> SUFFICES ASSUME NEW e \in OfOrders, NEW o, o = e.order
               PROVE  /\ e.topic = ORDER_CONFIRMED => Captured(o)
                      /\ e.topic = PAYMENT_REFUNDED =>
                             payment[o] = "REFUNDED" /\ e.attempt \in 1 .. returned[o]
                      /\ e.topic = INVENTORY_RESERVATION_FAILED =>
                             captured[o] = 0 /\ status[o] \notin PAID_STATUSES
                      /\ e.topic = PAYMENT_FAILED =>
                             /\ PaymentEvent(PAYMENT_SUCCEEDED, o, e.attempt) \notin payOutbox
                             /\ captured[o] <= (IF Captured(o) THEN Amount ELSE 0)
                                                   + Amount * crashes
                      /\ e.topic = ORDER_CANCELLED /\ ~e.was_paid =>
                             \A i \in 1 .. Len(history[o]) : history[o][i] # "PAID"
    BY DEF MailIsBacked
  <1>3. /\ o \in Orders
        /\ e.topic \in OrderTopics => e \in orderOutbox
        /\ e.topic \in InvTopics => e \in invOutbox
        /\ e.topic \in PayTopics => e \in payOutbox
    BY <1>1, ToldWasSent
  <1>4. ASSUME e.topic = ORDER_CONFIRMED
        PROVE  Captured(o)
    BY <1>1, <1>2, <1>3, <1>4 DEF ConfirmedWasPaid, PaidWasCaptured
  <1>5. ASSUME e.topic = PAYMENT_REFUNDED
        PROVE  payment[o] = "REFUNDED" /\ e.attempt \in 1 .. returned[o]
    <2>1. /\ payment[o] = "REFUNDED" /\ e.attempt \in 1 .. refunded[o]
          /\ refunded[o] <= returned[o]
      BY <1>1, <1>2, <1>3, <1>5 DEF RefundWasGiven
    <2>2. refunded[o] \in Nat /\ returned[o] \in Nat
      BY <1>1, <1>3
    <2>3. QED
      BY <2>1, <2>2
  <1>6. ASSUME e.topic = INVENTORY_RESERVATION_FAILED
        PROVE  captured[o] = 0 /\ status[o] \notin PAID_STATUSES
    <2>1. e \in invOutbox /\ e = Event(INVENTORY_RESERVATION_FAILED, o)
      BY <1>1, <1>2, <1>3, <1>6 DEF BaseInv, MessagesInv
    <2>2. Event(INVENTORY_RESERVED, o) \notin invOutbox
      BY <1>1, <1>3, <2>1 DEF OneAnswer
    <2>3. captured[o] = 0 /\ ~Captured(o)
      BY <1>1, <1>3, <2>2 DEF TakenWasReserved, ChargedWasAnswered, Captured
    <2>4. status[o] \in PAID_STATUSES => Visited(history[o], "PAID")
      BY <1>1, <1>3 DEF OrderInv, RowOK
    <2>5. QED
      BY <1>1, <1>3, <2>3, <2>4 DEF PaidWasCaptured
  <1>7. ASSUME e.topic = PAYMENT_FAILED
        PROVE  /\ PaymentEvent(PAYMENT_SUCCEEDED, o, e.attempt) \notin payOutbox
               /\ captured[o] <= (IF Captured(o) THEN Amount ELSE 0) + Amount * crashes
    <2>1. e \in payOutbox /\ e.topic \in Outcomes
      BY <1>2, <1>3, <1>7 DEF Outcomes
    <2>2. e = PaymentEvent(PAYMENT_FAILED, o, e.attempt) /\ e.attempt \in 1 .. attempts[o]
      BY <1>1, <1>7, <2>1 DEF AttemptsMade
    <2>3. PaymentEvent(PAYMENT_SUCCEEDED, o, e.attempt) \notin payOutbox
      BY <1>1, <1>3, <2>1, <2>2 DEF OutcomesPublished
    <2>4. QED
      BY <1>1, <1>3, <2>3 DEF CaptureBounded
  <1>8. ASSUME e.topic = ORDER_CANCELLED, ~e.was_paid
        PROVE  \A i \in 1 .. Len(history[o]) : history[o][i] # "PAID"
    BY <1>1, <1>2, <1>3, <1>8 DEF OrderInv, WasPaidIsTrue
  <1>9. QED
    BY <1>4, <1>5, <1>6, <1>7, <1>8

\* What a message stands for has happened by the time it is sent, and stays so,
\* however late it goes out, how often, and whoever refunds by hand: payment
\* captured behind "is confirmed", money given back behind "We have refunded",
\* and nothing taken, ever, behind "could not be fulfilled".  Behind "Payment
\* failed" and "No payment was taken" is only what the rows know.
THEOREM BackedCorrect == ViewSpec => []MailIsBacked
  <1>1. SagaKnown /\ SaidIsSo /\ TopicsOK => MailIsBacked
    BY BackedNow
  <1>2. QED
    BY <1>1, ViewIsSaga, SaidIsSoCorrect, TopicsCorrect, PTL
=============================================================================
