----------------------------- MODULE SagaProofs -----------------------------
(***************************************************************************)
(* What the saga promises, for every set of orders and products, every     *)
(* demand and every bound.  The invariants of the order service and of the *)
(* payment service are inductive by themselves; the saga's own need both,  *)
(* what inventory promises (Spec implements InvSpec), and who may have     *)
(* published and handled what.                                             *)
(***************************************************************************)
EXTENDS Saga, InventoryProofs

-----------------------------------------------------------------------------
(* The order service *)

\* What may happen to the tables of the order service.
OrderStep ==
    \/ \E o \in Orders : \/ OnInventoryReserved(o) \/ OnReservationFailed(o)
                         \/ OnPaymentSucceeded(o) \/ OnPaymentFailed(o)
    \/ OrderRequest
    \/ UNCHANGED orderVars

\* h is a walk along ALLOWED_TRANSITIONS from PENDING to s.
Path(h, s) ==
    /\ Len(h) > 0
    /\ h[1] = "PENDING"
    /\ h[Len(h)] = s
    /\ \A i \in 1 .. Len(h) - 1 : can_transition(h[i], h[i + 1])

Visited(h, s) == \E i \in 1 .. Len(h) : h[i] = s

\* An order's row and its audit trail agree, and the trail remembers whether
\* the order was ever paid.
RowOK(o) ==
    /\ status[o] = "NONE" => history[o] = <<>>
    /\ status[o] # "NONE" => Path(history[o], status[o])
    /\ status[o] \in PAID_STATUSES => Visited(history[o], "PAID")
    /\ status[o] \in {"NONE", "PENDING", "INVENTORY_RESERVED", "FAILED"} =>
           ~Visited(history[o], "PAID")

OrderInv == OrderTypeOK /\ (\A o \in Orders : RowOK(o)) /\ WasPaidIsTrue

\* Appending an allowed successor to a walk gives a walk.
LEMMA PathGrows ==
    ASSUME NEW h \in Seq(OrderStatus), NEW s, Path(h, s),
           NEW t \in OrderStatus, can_transition(s, t)
    PROVE  /\ Append(h, t) \in Seq(OrderStatus)
           /\ Path(Append(h, t), t)
           /\ \A x : Visited(Append(h, t), x) <=> Visited(h, x) \/ x = t
  <1> DEFINE g == Append(h, t)
  <1>1. /\ g \in Seq(OrderStatus) /\ Len(g) = Len(h) + 1 /\ g[Len(h) + 1] = t
        /\ \A i \in 1 .. Len(h) : g[i] = h[i]
        /\ Len(h) \in Nat
    OBVIOUS
  <1> HIDE DEF g
  <1>2. ASSUME NEW i \in 1 .. Len(g) - 1
        PROVE  can_transition(g[i], g[i + 1])
    <2>1. CASE i = Len(h)
      BY <1>1, <2>1 DEF Path
    <2>2. CASE i # Len(h)
      <3>1. i \in 1 .. Len(h) - 1 /\ i + 1 \in 1 .. Len(h)
        BY <1>1, <2>2
      <3>2. QED
        BY <1>1, <3>1 DEF Path
    <2>3. QED
      BY <2>1, <2>2
  <1>3. Path(g, t)
    BY <1>1, <1>2 DEF Path
  <1>4. \A x : Visited(g, x) <=> Visited(h, x) \/ x = t
    BY <1>1 DEF Visited
  <1>5. QED
    BY <1>1, <1>3, <1>4 DEF g

\* One walk longer by PAID and CONFIRMED, as OnPaymentSucceeded makes it.
LEMMA PathOfPayment ==
    ASSUME NEW h \in Seq(OrderStatus), NEW s, Path(h, s), can_transition(s, "PAID")
    PROVE  /\ h \o <<"PAID", "CONFIRMED">> \in Seq(OrderStatus)
           /\ Path(h \o <<"PAID", "CONFIRMED">>, "CONFIRMED")
           /\ Visited(h \o <<"PAID", "CONFIRMED">>, "PAID")
  <1>1. h \o <<"PAID", "CONFIRMED">> = Append(Append(h, "PAID"), "CONFIRMED")
    OBVIOUS
  <1>2. "PAID" \in OrderStatus /\ "CONFIRMED" \in OrderStatus
    BY DEF OrderStatus
  <1>3. can_transition("PAID", "CONFIRMED")
    BY DEF can_transition, ALLOWED_TRANSITIONS, OrderStatus
  <1>4. /\ Append(h, "PAID") \in Seq(OrderStatus)
        /\ Path(Append(h, "PAID"), "PAID")
        /\ Visited(Append(h, "PAID"), "PAID")
    BY <1>2, PathGrows
  <1>5. /\ Append(Append(h, "PAID"), "CONFIRMED") \in Seq(OrderStatus)
        /\ Path(Append(Append(h, "PAID"), "CONFIRMED"), "CONFIRMED")
        /\ Visited(Append(Append(h, "PAID"), "CONFIRMED"), "PAID")
    BY <1>2, <1>3, <1>4, PathGrows
  <1>6. QED
    BY <1>1, <1>5

\* The state machine, transition by transition.
LEMMA Transitions ==
    ASSUME NEW s \in OrderStatus
    PROVE  /\ can_transition(s, "PAID") => s = "INVENTORY_RESERVED"
           /\ can_transition(s, "FAILED") => s \in {"PENDING", "INVENTORY_RESERVED"}
           /\ can_transition(s, "INVENTORY_RESERVED") => s = "PENDING"
           /\ can_transition(s, "SHIPPED") => s = "CONFIRMED"
           /\ can_transition(s, "DELIVERED") => s = "SHIPPED"
           /\ can_transition(s, "CANCELLED") => s \in CUSTOMER_CANCELLABLE
  BY DEF can_transition, ALLOWED_TRANSITIONS, OrderStatus, CUSTOMER_CANCELLABLE

\* One allowed transition of order o: its row and its trail move together.
LEMMA RowMoves ==
    ASSUME OrderTypeOK, NEW o \in Orders, RowOK(o), NEW t \in OrderStatus,
           Transition(o, t)
    PROVE  /\ status[o] \in OrderStatus /\ can_transition(status[o], t)
           /\ status' \in [Orders -> OrderStatus \cup {"NONE"}] /\ status'[o] = t
           /\ history' \in [Orders -> Seq(OrderStatus)]
           /\ history'[o] = Append(history[o], t)
           /\ Path(history'[o], t)
           /\ \A x : Visited(history'[o], x) <=> Visited(history[o], x) \/ x = t
  <1>1. status[o] # "NONE" /\ status[o] \in OrderStatus /\ history[o] \in Seq(OrderStatus)
    BY DEF OrderTypeOK, Transition
  <1>2. /\ Append(history[o], t) \in Seq(OrderStatus)
        /\ Path(Append(history[o], t), t)
        /\ \A x : Visited(Append(history[o], t), x) <=> Visited(history[o], x) \/ x = t
    BY <1>1, PathGrows DEF RowOK, Transition
  <1>3. history'[o] = Append(history[o], t)
    BY DEF Transition, OrderTypeOK
  <1>4. QED
    BY <1>1, <1>2, <1>3 DEF Transition, OrderTypeOK

\* What every transition has to show for the order invariant: its row is right
\* and tells of cancellation exactly as the trail does.
LEMMA OrderInvGrows ==
    ASSUME OrderInv, NEW o \in Orders,
           status' \in [Orders -> OrderStatus \cup {"NONE"}],
           history' \in [Orders -> Seq(OrderStatus)],
           \A x \in Orders \ {o} : status'[x] = status[x] /\ history'[x] = history[x],
           RowOK(o)',
           status[o] \notin {"CANCELLED", "FAILED"},
           orderOutbox \subseteq orderOutbox', orderOutbox' \subseteq Envelope,
           \A e \in orderOutbox' \ orderOutbox : e.topic = ORDER_CANCELLED =>
               /\ e.order = o
               /\ status'[o] \in {"CANCELLED", "FAILED"}
               /\ e.was_paid <=> Visited(history'[o], "PAID")
               /\ \A f \in orderOutbox' \ orderOutbox : f.topic = ORDER_CANCELLED => f = e
    PROVE  OrderInv'
  <1>1. OrderTypeOK'
    BY DEF OrderInv, OrderTypeOK
  <1>2. ASSUME NEW x \in Orders
        PROVE  RowOK(x)'
    BY <1>2 DEF OrderInv, RowOK
  <1>3. ASSUME NEW e \in orderOutbox, e.topic = ORDER_CANCELLED
        PROVE  e.order # o /\ e.order \in Orders
    BY <1>3 DEF OrderInv, WasPaidIsTrue, OrderTypeOK, Envelope
  <1>4. ASSUME NEW e \in orderOutbox', e.topic = ORDER_CANCELLED
        PROVE  /\ status'[e.order] \in {"CANCELLED", "FAILED"}
               /\ e.was_paid <=> Visited(history'[e.order], "PAID")
               /\ \A f \in orderOutbox' :
                      f.topic = ORDER_CANCELLED /\ f.order = e.order => f = e
    <2>1. CASE e \in orderOutbox
      <3>1. /\ status'[e.order] = status[e.order]
            /\ history'[e.order] = history[e.order]
        BY <1>3, <1>4, <2>1
      <3>2. /\ status[e.order] \in {"CANCELLED", "FAILED"}
            /\ e.was_paid <=> Visited(history[e.order], "PAID")
            /\ \A f \in orderOutbox :
                   f.topic = ORDER_CANCELLED /\ f.order = e.order => f = e
        BY <1>4, <2>1 DEF OrderInv, WasPaidIsTrue, Visited
      <3>3. \A f \in orderOutbox' \ orderOutbox : f.topic = ORDER_CANCELLED => f.order # e.order
        BY <1>3, <1>4, <2>1
      <3>4. QED
        BY <3>1, <3>2, <3>3
    <2>2. CASE e \notin orderOutbox
      BY <1>3, <1>4, <2>2
    <2>3. QED
      BY <2>1, <2>2
  <1>5. WasPaidIsTrue'
    BY <1>4 DEF WasPaidIsTrue, Visited
  <1>6. QED
    BY <1>1, <1>2, <1>5 DEF OrderInv

LEMMA OrderInvStep ==
    ASSUME OrderInv, OrderStep
    PROVE  OrderInv'
  <1> USE DEF OrderStatus, PAID_STATUSES
  <1>a. OrderTypeOK /\ orderOutbox \subseteq Envelope /\ \A o \in Orders : RowOK(o)
    BY DEF OrderInv, OrderTypeOK
  <1>1. ASSUME NEW o \in Orders, CreateOrder(o)
        PROVE  OrderInv'
    <2>1. Event(ORDER_CREATED, o) \in Envelope
      BY EventsAreEnvelopes DEF Topics
    <2>2. /\ Path(<<"PENDING">>, "PENDING") /\ ~Visited(<<"PENDING">>, "PAID")
          /\ <<"PENDING">> \in Seq(OrderStatus)
      BY DEF Path, Visited
    <2>3. status'[o] = "PENDING" /\ history'[o] = <<"PENDING">>
      BY <1>1, <1>a DEF CreateOrder, OrderTypeOK
    <2>4. RowOK(o)'
      BY <2>2, <2>3 DEF RowOK
    <2>5. /\ status' \in [Orders -> OrderStatus \cup {"NONE"}]
          /\ history' \in [Orders -> Seq(OrderStatus)]
          /\ \A x \in Orders \ {o} : status'[x] = status[x] /\ history'[x] = history[x]
      BY <1>1, <1>a, <2>2 DEF CreateOrder, OrderTypeOK
    <2>6. /\ orderOutbox' = orderOutbox \cup {Event(ORDER_CREATED, o)}
          /\ Event(ORDER_CREATED, o).topic # ORDER_CANCELLED
          /\ status[o] \notin {"CANCELLED", "FAILED"}
      BY <1>1 DEF CreateOrder, Publish, Event, ORDER_CREATED, ORDER_CANCELLED
    <2>7. QED
      BY <1>a, <2>1, <2>4, <2>5, <2>6, OrderInvGrows
  \* A transition that publishes nothing, or the one event E.
  <1>2. ASSUME NEW o \in Orders, NEW t \in OrderStatus, Transition(o, t),
               RowOK(o)',
               orderOutbox \subseteq orderOutbox', orderOutbox' \subseteq Envelope,
               \A e \in orderOutbox' \ orderOutbox : e.topic = ORDER_CANCELLED =>
                   /\ e.order = o
                   /\ t \in {"CANCELLED", "FAILED"}
                   /\ e.was_paid <=> Visited(history'[o], "PAID")
                   /\ \A f \in orderOutbox' \ orderOutbox : f.topic = ORDER_CANCELLED => f = e
        PROVE  OrderInv'
    <2>1. /\ status'[o] = t
          /\ status' \in [Orders -> OrderStatus \cup {"NONE"}]
          /\ history' \in [Orders -> Seq(OrderStatus)]
      BY <1>2, <1>a, RowMoves
    <2>2. \A x \in Orders \ {o} : status'[x] = status[x] /\ history'[x] = history[x]
      BY <1>2, <1>a DEF Transition, OrderTypeOK
    <2>3. status[o] \notin {"CANCELLED", "FAILED"}
      BY <1>2 DEF Transition, can_transition, ALLOWED_TRANSITIONS
    <2>4. QED
      BY <1>2, <2>1, <2>2, <2>3, OrderInvGrows
  <1>3. ASSUME NEW o \in Orders, NEW t \in {"INVENTORY_RESERVED", "FAILED", "SHIPPED", "DELIVERED"},
               Transition(o, t), UNCHANGED orderOutbox
        PROVE  OrderInv'
    <2>1. RowOK(o)'
      BY <1>3, <1>a, RowMoves, Transitions DEF RowOK
    <2>2. orderOutbox' = orderOutbox /\ orderOutbox' \subseteq Envelope
      BY <1>3, <1>a DEF OrderTypeOK
    <2>3. QED
      BY <1>2, <1>3, <2>1, <2>2
  <1>4. ASSUME NEW o \in Orders, Transition(o, "FAILED"), Publish(Cancelled(o, FALSE))
        PROVE  OrderInv'
    <2>1. RowOK(o)' /\ ~Visited(history'[o], "PAID")
      BY <1>4, <1>a, RowMoves, Transitions DEF RowOK
    <2>2. Cancelled(o, FALSE) \in Envelope
      BY DEF Cancelled, Envelope, Topics
    <2>3. /\ orderOutbox' = orderOutbox \cup {Cancelled(o, FALSE)}
          /\ Cancelled(o, FALSE).order = o /\ Cancelled(o, FALSE).was_paid = FALSE
      BY <1>4 DEF Publish, Cancelled
    <2>4. QED
      BY <1>a, <1>2, <1>4, <2>1, <2>2, <2>3
  <1>5. ASSUME NEW o \in Orders, CancelOrder(o)
        PROVE  OrderInv'
    <2>1. Transition(o, "CANCELLED")
      BY <1>5 DEF CancelOrder
    <2>2. Visited(history'[o], "PAID") <=> status[o] \in PAID_STATUSES
      BY <1>5, <1>a, <2>1, RowMoves DEF RowOK, CancelOrder, CUSTOMER_CANCELLABLE
    <2>3. RowOK(o)'
      BY <1>a, <2>1, RowMoves DEF RowOK
    <2>4. Cancelled(o, status[o] \in PAID_STATUSES) \in Envelope
      BY DEF Cancelled, Envelope, Topics
    <2>5. /\ orderOutbox' = orderOutbox \cup {Cancelled(o, status[o] \in PAID_STATUSES)}
          /\ Cancelled(o, status[o] \in PAID_STATUSES).order = o
          /\ Cancelled(o, status[o] \in PAID_STATUSES).was_paid
                 <=> Visited(history'[o], "PAID")
      BY <1>5, <2>2 DEF CancelOrder, Publish, Cancelled
    <2>6. QED
      BY <1>a, <1>2, <2>1, <2>3, <2>4, <2>5
  <1>6. ASSUME NEW o \in Orders, OnPaymentSucceeded(o), ~UNCHANGED orderVars
        PROVE  OrderInv'
    <2>1. /\ status[o] \in OrderStatus /\ can_transition(status[o], "PAID")
          /\ status'  = [status EXCEPT ![o] = "CONFIRMED"]
          /\ history' = [history EXCEPT ![o] = @ \o <<"PAID", "CONFIRMED">>]
          /\ Publish(Event(ORDER_CONFIRMED, o))
      BY <1>6, <1>a DEF OnPaymentSucceeded, Drop, OrderTypeOK
    <2>2. history[o] \in Seq(OrderStatus) /\ Path(history[o], status[o])
      BY <1>a, <2>1 DEF OrderTypeOK, RowOK
    <2>3. /\ history'[o] \in Seq(OrderStatus)
          /\ Path(history'[o], "CONFIRMED")
          /\ Visited(history'[o], "PAID")
      BY <1>a, <2>1, <2>2, PathOfPayment DEF OrderTypeOK
    <2>4. /\ status' \in [Orders -> OrderStatus \cup {"NONE"}] /\ status'[o] = "CONFIRMED"
          /\ history' \in [Orders -> Seq(OrderStatus)]
          /\ \A x \in Orders \ {o} : status'[x] = status[x] /\ history'[x] = history[x]
      BY <1>a, <2>1, <2>3 DEF OrderTypeOK
    <2>5. RowOK(o)'
      BY <2>3, <2>4 DEF RowOK
    <2>6. Event(ORDER_CONFIRMED, o) \in Envelope
      BY EventsAreEnvelopes DEF Topics
    <2>7. status[o] \notin {"CANCELLED", "FAILED"}
      BY <2>1, Transitions
    <2>8. /\ orderOutbox' = orderOutbox \cup {Event(ORDER_CONFIRMED, o)}
          /\ Event(ORDER_CONFIRMED, o).topic # ORDER_CANCELLED
      BY <2>1 DEF Publish, Event, ORDER_CONFIRMED, ORDER_CANCELLED
    <2>9. QED
      BY <1>a, <2>4, <2>5, <2>6, <2>7, <2>8, OrderInvGrows
  <1>7. CASE UNCHANGED orderVars
    BY <1>7 DEF orderVars, OrderInv, OrderTypeOK, RowOK, WasPaidIsTrue
  <1>8. QED
    BY <1>1, <1>3, <1>4, <1>5, <1>6, <1>7
       DEF OrderStep, OrderRequest, OnInventoryReserved, OnReservationFailed,
           OnPaymentFailed, ShipOrder, DeliverOrder, Drop

-----------------------------------------------------------------------------
(* The payment service *)

\* What may happen to the tables of the payment service and at the gateway.
PaymentStep ==
    \/ \E o \in Orders : \/ ChargeForOrder(o) \/ RefundForOrder(o)
                         \/ ChargeLost(o) \/ RefundLost(o)
    \/ PaymentRequest
    \/ UNCHANGED payVars

Outcomes == {PAYMENT_SUCCEEDED, PAYMENT_FAILED}

\* Outcomes are published for attempts that were made, a row exists once there
\* was an attempt, a payment an admin saw captured still is, and the gateway
\* took no more than one amount for the payment and one for each lost process.
AttemptsMade ==
    /\ \A e \in payOutbox :
           e.topic \in Outcomes => /\ e = PaymentEvent(e.topic, e.order, e.attempt)
                                   /\ e.attempt \in 1 .. attempts[e.order]
    /\ \A o \in Orders : payment[o] = "NONE" => attempts[o] = 0
SeenIsCaptured ==
    \A a \in Admins : desk[a].status = "SUCCEEDED" => Captured(desk[a].order)
CaptureBounded ==
    \A o \in Orders : captured[o] <= (IF Captured(o) THEN Amount ELSE 0) + Amount * crashes

PayInv == PayTypeOK /\ OutcomesPublished /\ AttemptsMade /\ SeenIsCaptured /\ CaptureBounded

LEMMA PaymentEvents ==
    ASSUME NEW o \in Orders, NEW n \in Nat, NEW t \in Outcomes
    PROVE  /\ PaymentEvent(t, o, n) \in Envelope
           /\ PaymentEvent(t, o, n).topic = t
           /\ PaymentEvent(t, o, n).order = o
           /\ PaymentEvent(t, o, n).attempt = n
           /\ \A u, x, m : PaymentEvent(u, x, m) = PaymentEvent(t, o, n)
                               => u = t /\ x = o /\ m = n
  BY DEF PaymentEvent, Envelope, Outcomes, Topics

\* The next attempt of an order that is not paid for.
LEMMA ChargeStep ==
    ASSUME PayInv, NEW o \in Orders, NEW ok \in BOOLEAN, ~Captured(o),
           AttemptCharge(o, attempts[o] + 1, ok)
    PROVE  PayInv'
  <1> DEFINE n == attempts[o] + 1
             t == IF ok THEN PAYMENT_SUCCEEDED ELSE PAYMENT_FAILED
             new == PaymentEvent(t, o, n)
  <1> USE PaymentBounds
  <1>1. PayTypeOK /\ OutcomesPublished /\ AttemptsMade /\ SeenIsCaptured /\ CaptureBounded
    BY DEF PayInv
  <1>2. /\ n \in Nat \ {0} /\ attempts[o] \in Nat /\ t \in Outcomes
        /\ PAYMENT_SUCCEEDED # PAYMENT_FAILED
        /\ PAYMENT_SUCCEEDED \in Outcomes /\ PAYMENT_FAILED \in Outcomes
    BY <1>1 DEF PayTypeOK, Outcomes, PAYMENT_SUCCEEDED, PAYMENT_FAILED
  <1>3. /\ payOutbox' = payOutbox \cup {new}
        /\ new \in Envelope /\ new.topic = t /\ new.order = o /\ new.attempt = n
        /\ \A u, x, m : PaymentEvent(u, x, m) = new => u = t /\ x = o /\ m = n
    BY <1>2, PaymentEvents DEF AttemptCharge, Enqueue
  <1>4. /\ attempts' \in [Orders -> Nat] /\ attempts'[o] = n
        /\ payment' \in [Orders -> (PaymentStatus \cup {"NONE"}) \ {"PENDING"}]
        /\ payment'[o] = IF ok THEN "SUCCEEDED" ELSE "FAILED"
        /\ \A x \in Orders \ {o} : attempts'[x] = attempts[x] /\ payment'[x] = payment[x]
    BY <1>1, <1>2 DEF AttemptCharge, PayTypeOK, PaymentStatus
  <1>5. /\ captured' \in [Orders -> Nat]
        /\ captured'[o] = IF ok THEN captured[o] + Amount ELSE captured[o]
        /\ \A x \in Orders \ {o} : captured'[x] = captured[x]
        /\ UNCHANGED <<returned, refunded, refundFailed, desk, crashes>>
    BY <1>1 DEF AttemptCharge, GatewayCharge, PayTypeOK
  <1> HIDE DEF new, t, n
  <1>6. PayTypeOK'
    BY <1>1, <1>3, <1>4, <1>5 DEF PayTypeOK
  <1>7. AttemptsMade'
    <2>1. ASSUME NEW e \in payOutbox', e.topic \in Outcomes
          PROVE  /\ e = PaymentEvent(e.topic, e.order, e.attempt)
                 /\ e.attempt \in 1 .. attempts'[e.order]
      <3>1. CASE e \in payOutbox
        <4>1. e.order \in Orders /\ attempts[e.order] \in Nat /\ e.attempt \in Nat
          BY <1>1, <3>1 DEF PayTypeOK, Envelope
        <4>2. attempts[e.order] <= attempts'[e.order] /\ attempts'[e.order] \in Nat
          BY <1>2, <1>4, <4>1 DEF n
        <4>3. QED
          BY <1>1, <2>1, <3>1, <4>1, <4>2 DEF AttemptsMade
      <3>2. CASE e = new
        BY <1>2, <1>3, <1>4, <3>2 DEF new
      <3>3. QED
        BY <1>3, <3>1, <3>2
    <2>2. QED
      BY <1>1, <1>4, <2>1 DEF AttemptsMade
  <1>8. SeenIsCaptured'
    <2>1. \A x \in Orders : Captured(x) => payment'[x] = payment[x]
      BY <1>4
    <2>2. \A a \in Admins : desk[a].status = "SUCCEEDED" => desk[a].order \in Orders
      BY <1>1 DEF PayTypeOK, Idle
    <2>3. QED
      BY <1>1, <1>5, <2>1, <2>2 DEF SeenIsCaptured, Captured
  <1>9. CaptureBounded'
    <2>1. Amount * crashes \in Nat /\ \A x \in Orders : captured[x] \in Nat
      BY <1>1 DEF PayTypeOK
    <2>2. \A x \in Orders : captured[x] <= (IF Captured(x) THEN Amount ELSE 0) + Amount * crashes
      BY <1>1 DEF CaptureBounded
    <2>3. captured'[o] <= (IF ok THEN Amount ELSE 0) + Amount * crashes
      BY <1>5, <2>1, <2>2
    <2>4. Captured(o)' <=> ok
      BY <1>4 DEF Captured
    <2>5. \A x \in Orders \ {o} : Captured(x)' <=> Captured(x)
      BY <1>4 DEF Captured
    <2>6. QED
      BY <1>5, <2>2, <2>3, <2>4, <2>5 DEF CaptureBounded
  <1>10. OutcomesPublished'
    <2>1. ASSUME NEW x \in Orders \ {o}
          PROVE  \A u, m : PaymentEvent(u, x, m) \in payOutbox' <=> PaymentEvent(u, x, m) \in payOutbox
      BY <1>3
    <2>2. ASSUME NEW u, NEW m \in 1 .. attempts[o]
          PROVE  PaymentEvent(u, o, m) \in payOutbox' <=> PaymentEvent(u, o, m) \in payOutbox
      BY <1>2, <1>3 DEF n
    \* Nothing was published for attempt n before.
    <2>3. ASSUME NEW u \in Outcomes
          PROVE  PaymentEvent(u, o, n) \notin payOutbox
      <3>1. /\ PaymentEvent(u, o, n).topic = u /\ PaymentEvent(u, o, n).order = o
            /\ PaymentEvent(u, o, n).attempt = n
        BY <1>2, PaymentEvents
      <3>2. n \notin 1 .. attempts[o]
        BY <1>2 DEF n
      <3>3. QED
        BY <1>1, <3>1, <3>2 DEF AttemptsMade
    <2>4. ASSUME NEW u \in Outcomes
          PROVE  PaymentEvent(u, o, n) \in payOutbox' <=> u = t
      BY <1>3, <2>3 DEF new
    <2>5. \A m \in 1 .. attempts[o] : /\ PaymentEvent(PAYMENT_SUCCEEDED, o, m) \notin payOutbox
                                      /\ PaymentEvent(PAYMENT_FAILED, o, m) \in payOutbox
      BY <1>1 DEF OutcomesPublished, Captured
    <2>6. 1 .. n = 1 .. attempts[o] \cup {n}
      BY <1>2 DEF n
    <2>7. /\ \A m \in 1 .. n : PaymentEvent(PAYMENT_FAILED, o, m) \in payOutbox' <=>
                   PaymentEvent(PAYMENT_SUCCEEDED, o, m) \notin payOutbox'
          /\ ok <=> \E m \in 1 .. n : PaymentEvent(PAYMENT_SUCCEEDED, o, m) \in payOutbox'
      <3>1. \A m \in 1 .. attempts[o] : /\ PaymentEvent(PAYMENT_SUCCEEDED, o, m) \notin payOutbox'
                                        /\ PaymentEvent(PAYMENT_FAILED, o, m) \in payOutbox'
        BY <2>2, <2>5
      <3>2. /\ PaymentEvent(PAYMENT_SUCCEEDED, o, n) \in payOutbox' <=> ok
            /\ PaymentEvent(PAYMENT_FAILED, o, n) \in payOutbox' <=> ~ok
        BY <1>2, <2>4 DEF t
      <3>3. QED
        BY <2>6, <3>1, <3>2
    <2>8. ASSUME NEW x \in Orders
          PROVE  /\ payment'[x] \in {"SUCCEEDED", "REFUNDED"} <=>
                      \E m \in 1 .. attempts'[x] : PaymentEvent(PAYMENT_SUCCEEDED, x, m) \in payOutbox'
                 /\ \A m \in 1 .. attempts'[x] :
                      PaymentEvent(PAYMENT_FAILED, x, m) \in payOutbox' <=>
                          PaymentEvent(PAYMENT_SUCCEEDED, x, m) \notin payOutbox'
      <3>1. CASE x = o
        BY <1>4, <2>7, <3>1
      <3>2. CASE x # o
        BY <1>1, <1>4, <2>1, <3>2 DEF OutcomesPublished
      <3>3. QED
        BY <3>1, <3>2
    <2>9. QED
      BY <2>8 DEF OutcomesPublished
  <1>11. QED
    BY <1>6, <1>7, <1>8, <1>9, <1>10 DEF PayInv

\* A refund, accepted or refused, of a payment that was captured; the admin's
\* request may end with it.
LEMMA RefundStep ==
    ASSUME PayInv, NEW o \in Orders, NEW amount \in Nat, Captured(o),
           AttemptRefund(o, amount),
           desk' = desk \/ \E a \in Admins : desk' = [desk EXCEPT ![a] = Idle]
    PROVE  PayInv'
  <1>1. PayTypeOK /\ OutcomesPublished /\ AttemptsMade /\ SeenIsCaptured /\ CaptureBounded
    BY DEF PayInv
  <1>2. /\ payOutbox \subseteq payOutbox' /\ payOutbox' \subseteq Envelope
        /\ \A e \in payOutbox' : e.topic \in Outcomes => e \in payOutbox
    <2> DEFINE new == PaymentEvent(PAYMENT_REFUNDED, o, refunded[o] + amount)
    <2>1. refunded[o] + amount \in Nat
      BY <1>1 DEF PayTypeOK
    <2>2. new \in Envelope /\ new.topic \notin Outcomes
      BY <2>1 DEF PaymentEvent, Envelope, Topics, Outcomes, PAYMENT_REFUNDED,
                  PAYMENT_SUCCEEDED, PAYMENT_FAILED
    <2>3. payOutbox' = payOutbox \/ payOutbox' = payOutbox \cup {new}
      BY DEF AttemptRefund, CompleteRefund, Enqueue
    <2> HIDE DEF new
    <2>4. QED
      BY <1>1, <2>2, <2>3 DEF PayTypeOK
  <1>3. /\ payment' \in [Orders -> (PaymentStatus \cup {"NONE"}) \ {"PENDING"}]
        /\ \A x \in Orders : Captured(x)' <=> Captured(x)
        /\ \A x \in Orders : ~Captured(x) => payment'[x] = payment[x]
        /\ UNCHANGED <<attempts, captured, crashes>>
        /\ returned' \in [Orders -> Nat] /\ refunded' \in [Orders -> Nat]
        /\ refundFailed' \subseteq Orders
    BY <1>1 DEF AttemptRefund, CompleteRefund, GatewayRefund, PayTypeOK, Captured, PaymentStatus
  <1>4. PayTypeOK'
    BY <1>1, <1>2, <1>3 DEF PayTypeOK
  <1>5. AttemptsMade'
    BY <1>1, <1>2, <1>3 DEF AttemptsMade, Captured
  <1>6. SeenIsCaptured'
    <2>1. ASSUME NEW a \in Admins, desk'[a].status = "SUCCEEDED"
          PROVE  Captured(desk[a].order)'
      <3>1. desk'[a] = desk[a]
        BY <1>1, <2>1 DEF PayTypeOK, Idle
      <3>2. Captured(desk[a].order) /\ desk[a].order \in Orders
        BY <1>1, <2>1, <3>1 DEF SeenIsCaptured, PayTypeOK, Idle
      <3>3. QED
        BY <1>3, <3>1, <3>2
    <2>2. QED
      BY <2>1 DEF SeenIsCaptured
  <1>7. CaptureBounded'
    BY <1>1, <1>3 DEF CaptureBounded
  <1>8. OutcomesPublished'
    <2>1. ASSUME NEW x \in Orders, NEW m \in 1 .. attempts[x], NEW t \in Outcomes
          PROVE  PaymentEvent(t, x, m) \in payOutbox' <=> PaymentEvent(t, x, m) \in payOutbox
      <3>1. PaymentEvent(t, x, m).topic \in Outcomes
        BY DEF PaymentEvent
      <3>2. QED
        BY <1>2, <3>1
    <2>2. \A x \in Orders : \A m \in 1 .. attempts[x] :
             /\ PaymentEvent(PAYMENT_SUCCEEDED, x, m) \in payOutbox'
                    <=> PaymentEvent(PAYMENT_SUCCEEDED, x, m) \in payOutbox
             /\ PaymentEvent(PAYMENT_FAILED, x, m) \in payOutbox'
                    <=> PaymentEvent(PAYMENT_FAILED, x, m) \in payOutbox
      BY <2>1 DEF Outcomes
    <2>3. QED
      BY <1>1, <1>3, <2>2 DEF OutcomesPublished, Captured
  <1>9. QED
    BY <1>4, <1>5, <1>6, <1>7, <1>8 DEF PayInv

\* A process lost after the capture: no table tells of it.
LEMMA LoseCaptureStep ==
    ASSUME PayInv, NEW o \in Orders, LoseCapture(o)
    PROVE  PayInv'
  <1> USE PaymentBounds
  <1>1. PayTypeOK /\ OutcomesPublished /\ AttemptsMade /\ SeenIsCaptured /\ CaptureBounded
    BY DEF PayInv
  <1>2. /\ UNCHANGED <<payment, attempts, returned, refunded, refundFailed, desk, payOutbox>>
        /\ crashes' = crashes + 1 /\ crashes \in Nat
        /\ captured' \in [Orders -> Nat]
        /\ \A x \in Orders : captured'[x] <= captured[x] + Amount
        /\ \A x \in Orders : captured[x] \in Nat
    BY <1>1 DEF LoseCapture, GatewayCharge, PayTypeOK
  <1>3. Amount * (crashes + 1) = Amount * crashes + Amount /\ Amount * crashes \in Nat
    BY <1>2
  <1>4. CaptureBounded'
    <2> DEFINE old == Amount * crashes
               new == Amount * (crashes + 1)
    <2>1. old \in Nat /\ new \in Nat /\ new = old + Amount
      BY <1>3
    <2>2. \A x \in Orders : captured[x] <= (IF Captured(x) THEN Amount ELSE 0) + old
      BY <1>1 DEF CaptureBounded
    <2> HIDE DEF old, new
    <2>3. \A x \in Orders : captured'[x] <= (IF Captured(x) THEN Amount ELSE 0) + new
      BY <1>2, <2>1, <2>2
    <2>4. QED
      BY <1>2, <2>3 DEF CaptureBounded, Captured, new
  <1>5. QED
    BY <1>1, <1>2, <1>4 DEF PayInv, PayTypeOK, OutcomesPublished, AttemptsMade,
                            SeenIsCaptured, Captured

\* A process lost after the provider gave back: no table tells of it either, and
\* it may have been the request of an admin.
LEMMA LoseRefundStep ==
    ASSUME PayInv, NEW o \in Orders, NEW amount \in Nat, LoseRefund(o, amount),
           desk' = desk \/ \E a \in Admins : desk' = [desk EXCEPT ![a] = Idle]
    PROVE  PayInv'
  <1> USE PaymentBounds
  <1>1. PayTypeOK /\ OutcomesPublished /\ AttemptsMade /\ SeenIsCaptured /\ CaptureBounded
    BY DEF PayInv
  <1>2. /\ UNCHANGED <<payment, attempts, captured, refunded, refundFailed, payOutbox>>
        /\ crashes' = crashes + 1 /\ crashes \in Nat
        /\ returned' \in [Orders -> Nat]
    BY <1>1 DEF LoseRefund, GatewayRefund, PayTypeOK
  <1>3. PayTypeOK' /\ SeenIsCaptured'
    BY <1>1, <1>2 DEF PayTypeOK, SeenIsCaptured, Captured, Idle
  <1>4. CaptureBounded'
    <2> DEFINE old == Amount * crashes
               new == Amount * (crashes + 1)
    <2>1. old \in Nat /\ new \in Nat /\ new = old + Amount
      BY <1>2
    <2>2. \A x \in Orders : captured[x] \in Nat
                /\ captured[x] <= (IF Captured(x) THEN Amount ELSE 0) + old
      BY <1>1 DEF CaptureBounded, PayTypeOK
    <2> HIDE DEF old, new
    <2>3. \A x \in Orders : captured[x] <= (IF Captured(x) THEN Amount ELSE 0) + new
      BY <2>1, <2>2
    <2>4. QED
      BY <1>2, <2>3 DEF CaptureBounded, Captured, new
  <1>5. QED
    BY <1>1, <1>2, <1>3, <1>4 DEF PayInv, OutcomesPublished, AttemptsMade, Captured

LEMMA PayInvStep ==
    ASSUME PayInv, PaymentStep
    PROVE  PayInv'
  <1> USE PaymentBounds
  <1>1. PayTypeOK /\ OutcomesPublished /\ AttemptsMade /\ SeenIsCaptured /\ CaptureBounded
    BY DEF PayInv
  <1>2. CASE UNCHANGED payVars
    BY <1>1, <1>2 DEF payVars, PayInv, PayTypeOK, OutcomesPublished, AttemptsMade,
                      SeenIsCaptured, CaptureBounded, Captured
  <1>3. ASSUME NEW o \in Orders, ChargeForOrder(o)
        PROVE  PayInv'
    <2>1. CASE payment[o] = "NONE"
      <3>1. attempts[o] + 1 = 1 /\ ~Captured(o)
        BY <1>1, <2>1 DEF AttemptsMade, Captured
      <3>2. PICK ok \in BOOLEAN : AttemptCharge(o, 1, ok)
        BY <1>3, <2>1 DEF ChargeForOrder
      <3>3. AttemptCharge(o, attempts[o] + 1, ok)
        BY <3>1, <3>2
      <3>4. QED
        BY <3>1, <3>3, ChargeStep
    <2>2. QED
      BY <1>2, <1>3, <2>1 DEF ChargeForOrder
  <1>4. ASSUME NEW o \in Orders, RefundForOrder(o)
        PROVE  PayInv'
    BY <1>2, <1>4, RefundStep DEF RefundForOrder, Captured
  <1>5. ASSUME NEW o \in Orders, ChargeLost(o) \/ RetryLost(o)
        PROVE  PayInv'
    BY <1>5, LoseCaptureStep DEF ChargeLost, RetryLost
  <1>6. ASSUME NEW o \in Orders, RetryPayment(o)
        PROVE  PayInv'
    BY <1>6, ChargeStep DEF RetryPayment, Captured
  <1>7. ASSUME NEW a \in Admins, NEW o \in Orders, AdminLoad(a, o)
        PROVE  PayInv'
    <2>1. /\ desk' = [desk EXCEPT ![a] =
                         [order |-> o, status |-> payment[o], refunded |-> refunded[o]]]
          /\ [order |-> o, status |-> payment[o], refunded |-> refunded[o]]
               \in [order : Orders, status : PaymentStatus \ {"PENDING"}, refunded : Nat]
          /\ UNCHANGED <<payment, attempts, captured, returned, refunded, refundFailed, crashes,
                         payOutbox>>
      BY <1>1, <1>7 DEF AdminLoad, PayTypeOK
    <2>2. PayTypeOK'
      BY <1>1, <2>1 DEF PayTypeOK
    <2>3. SeenIsCaptured'
      BY <1>1, <2>1 DEF SeenIsCaptured, Captured, PayTypeOK
    <2>4. QED
      BY <1>1, <2>1, <2>2, <2>3 DEF PayInv, OutcomesPublished, AttemptsMade, CaptureBounded,
                                    Captured
  <1>8. ASSUME NEW a \in Admins, NEW amount \in 1 .. Amount, AdminRefund(a, amount)
        PROVE  PayInv'
    <2>1. CASE AttemptRefund(desk[a].order, amount) /\ desk[a].status = "SUCCEEDED"
      <3>1. desk[a].order \in Orders /\ Captured(desk[a].order)
        BY <1>1, <2>1 DEF PayTypeOK, Idle, SeenIsCaptured
      <3>2. desk' = [desk EXCEPT ![a] = Idle] /\ amount \in Nat
        BY <1>8 DEF AdminRefund
      <3>3. QED
        BY <2>1, <3>1, <3>2, RefundStep
    <2>2. CASE UNCHANGED <<payment, attempts, captured, returned, refunded, refundFailed, crashes,
                           payOutbox>>
      <3>1. desk' = [desk EXCEPT ![a] = Idle]
        BY <1>8 DEF AdminRefund
      <3>2. PayTypeOK' /\ SeenIsCaptured'
        BY <1>1, <2>2, <3>1 DEF PayTypeOK, SeenIsCaptured, Captured, Idle
      <3>3. QED
        BY <1>1, <2>2, <3>2 DEF PayInv, OutcomesPublished, AttemptsMade, CaptureBounded,
                                Captured
    <2>3. QED
      BY <1>8, <2>1, <2>2 DEF AdminRefund
  <1>9. ASSUME NEW o \in Orders, RefundLost(o)
        PROVE  PayInv'
    BY <1>9, LoseRefundStep DEF RefundLost
  <1>10. ASSUME NEW a \in Admins, NEW amount \in 1 .. Amount, AdminRefundLost(a, amount)
         PROVE  PayInv'
    <2>1. desk[a].order \in Orders /\ amount \in Nat
      BY <1>1, <1>10 DEF AdminRefundLost, PayTypeOK, Idle
    <2>2. QED
      BY <1>10, <2>1, LoseRefundStep DEF AdminRefundLost
  <1>11. QED
    BY <1>2, <1>3, <1>4, <1>5, <1>6, <1>7, <1>8, <1>9, <1>10 DEF PaymentStep, PaymentRequest

-----------------------------------------------------------------------------
(* Who publishes and who has handled what *)

OrderTopics == {ORDER_CREATED, ORDER_CONFIRMED, ORDER_CANCELLED}
InvTopics   == {INVENTORY_RESERVED, INVENTORY_RESERVATION_FAILED}
PayTopics   == {PAYMENT_SUCCEEDED, PAYMENT_FAILED, PAYMENT_REFUNDED}

\* Each service publishes on topics of its own, a consumer has handled only what
\* was sent, and inventory answers only the order.created it has handled.
MessagesInv ==
    /\ invOutbox \subseteq Envelope
    /\ \A e \in orderOutbox : /\ e.topic \in OrderTopics
                              /\ e.topic = ORDER_CREATED => e = Event(ORDER_CREATED, e.order)
    /\ \A e \in invOutbox : /\ e.topic \in InvTopics
                            /\ e = Event(e.topic, e.order)
                            /\ Event(ORDER_CREATED, e.order) \in processed["inventory"]
    /\ \A e \in payOutbox : e.topic \in PayTopics
    /\ processed \in [Consumers -> SUBSET Sent]

BaseInv == OrderInv /\ PayInv /\ MessagesInv

\* From the topic of an event one can tell who sent it.
LEMMA Senders ==
    ASSUME BaseInv, NEW e \in Sent
    PROVE  /\ e \in Envelope /\ e.order \in Orders
           /\ e.topic \in OrderTopics => e \in orderOutbox
           /\ e.topic \in InvTopics => e \in invOutbox
           /\ e.topic \in PayTopics => e \in payOutbox
  <1>1. orderOutbox \cup invOutbox \cup payOutbox \subseteq Envelope
    BY DEF BaseInv, OrderInv, OrderTypeOK, PayInv, PayTypeOK, MessagesInv
  <1>2. e \in Envelope /\ e.order \in Orders
    BY <1>1 DEF Sent, Envelope
  <1>3. /\ OrderTopics \cap InvTopics = {} /\ OrderTopics \cap PayTopics = {}
        /\ InvTopics \cap PayTopics = {}
    BY DEF OrderTopics, InvTopics, PayTopics, ORDER_CREATED, ORDER_CONFIRMED, ORDER_CANCELLED,
           INVENTORY_RESERVED, INVENTORY_RESERVATION_FAILED, PAYMENT_SUCCEEDED,
           PAYMENT_FAILED, PAYMENT_REFUNDED
  <1>4. QED
    BY <1>2, <1>3 DEF BaseInv, MessagesInv, Sent

\* What the order service publishes in one step.
LEMMA OrderPublishes ==
    ASSUME OrderStep
    PROVE  /\ orderOutbox \subseteq orderOutbox'
           /\ \A e \in orderOutbox' \ orderOutbox :
                 /\ e.topic \in OrderTopics
                 /\ e.topic = ORDER_CREATED => e = Event(ORDER_CREATED, e.order)
  <1>1. ASSUME NEW o \in Orders
        PROVE  /\ Event(ORDER_CREATED, o).topic \in OrderTopics
               /\ Event(ORDER_CREATED, o).order = o
               /\ Event(ORDER_CONFIRMED, o).topic \in OrderTopics \ {ORDER_CREATED}
               /\ \A b : Cancelled(o, b).topic \in OrderTopics \ {ORDER_CREATED}
    BY DEF Event, Cancelled, OrderTopics, ORDER_CREATED, ORDER_CONFIRMED, ORDER_CANCELLED
  <1>2. QED
    BY <1>1 DEF OrderStep, OrderRequest, OnInventoryReserved, OnReservationFailed,
                OnPaymentSucceeded, OnPaymentFailed, CreateOrder, CancelOrder, ShipOrder,
                DeliverOrder, Drop, Publish, orderVars

\* What the payment service publishes in one step.
LEMMA PaymentPublishes ==
    ASSUME PaymentStep
    PROVE  /\ payOutbox \subseteq payOutbox'
           /\ \A e \in payOutbox' \ payOutbox : e.topic \in PayTopics
  <1>1. ASSUME NEW o, NEW n, NEW ok \in BOOLEAN, AttemptCharge(o, n, ok)
        PROVE  /\ payOutbox \subseteq payOutbox'
               /\ \A e \in payOutbox' \ payOutbox : e.topic \in PayTopics
    BY <1>1 DEF AttemptCharge, Enqueue, PaymentEvent, PayTopics
  <1>2. ASSUME NEW o, NEW amount, AttemptRefund(o, amount)
        PROVE  /\ payOutbox \subseteq payOutbox'
               /\ \A e \in payOutbox' \ payOutbox : e.topic \in PayTopics
    BY <1>2 DEF AttemptRefund, CompleteRefund, Enqueue, PaymentEvent, PayTopics
  <1>3. ASSUME NEW o \in Orders, ChargeForOrder(o) \/ RetryPayment(o)
        PROVE  /\ payOutbox \subseteq payOutbox'
               /\ \A e \in payOutbox' \ payOutbox : e.topic \in PayTopics
    BY <1>1, <1>3 DEF ChargeForOrder, RetryPayment, payVars
  <1>4. ASSUME NEW o \in Orders, RefundForOrder(o)
        PROVE  /\ payOutbox \subseteq payOutbox'
               /\ \A e \in payOutbox' \ payOutbox : e.topic \in PayTopics
    BY <1>2, <1>4 DEF RefundForOrder, payVars
  <1>5. ASSUME NEW a \in Admins, NEW amount \in 1 .. Amount, AdminRefund(a, amount)
        PROVE  /\ payOutbox \subseteq payOutbox'
               /\ \A e \in payOutbox' \ payOutbox : e.topic \in PayTopics
    BY <1>2, <1>5 DEF AdminRefund
  <1>6. ASSUME UNCHANGED payOutbox
        PROVE  /\ payOutbox \subseteq payOutbox'
               /\ \A e \in payOutbox' \ payOutbox : e.topic \in PayTopics
    BY <1>6
  <1>7. QED
    BY <1>3, <1>4, <1>5, <1>6
       DEF PaymentStep, PaymentRequest, ChargeLost, RetryLost, LoseCapture, RefundLost,
           AdminRefundLost, LoseRefund, AdminLoad, payVars

\* An order.created that was not handled before.
Asks(o) ==
    /\ Event(ORDER_CREATED, o) \notin processed["inventory"]
    /\ Event(ORDER_CREATED, o) \in processed'["inventory"]
    /\ Reserve(o)

\* What one step of the saga is to inventory.
InvStep ==
    \/ \E o \in Orders : Asks(o)
    \/ \E o \in Orders : CommitReservation(o) \/ ReleaseReservation(o)
    \/ \E S \in SUBSET Orders : ExpireStaleReservations(S)
    \/ \E p \in Products, n \in Quantities, t \in Thresholds :
           UpsertStockItem(p, n, t) \/ AdjustStock(p, n, t)
    \/ UNCHANGED invVars

\* Handling one event marks that event and no other.
LEMMA DispatchMarks ==
    ASSUME BaseInv, NEW c \in Consumers, NEW e \in Sent, Dispatch(c, e)
    PROVE  /\ processed' \in [Consumers -> SUBSET Sent]
           /\ processed'[c] = processed[c] \cup {e}
           /\ \A d \in Consumers \ {c} : processed'[d] = processed[d]
  BY DEF BaseInv, MessagesInv, Dispatch

\* What one step of the saga is to each of the three services.
LEMMA StepOfEach ==
    ASSUME BaseInv, [Next]_vars
    PROVE  /\ OrderStep /\ PaymentStep /\ InvStep
           /\ processed' \in [Consumers -> SUBSET Sent]
           /\ \A c \in Consumers : processed[c] \subseteq processed'[c]
  <1>1. processed \in [Consumers -> SUBSET Sent] /\ Consumers = {"order", "inventory", "payment"}
    BY DEF BaseInv, MessagesInv, Consumers
  <1>2. CASE OrderConsumer
    <2>1. PICK e \in Sent :
            /\ Dispatch("order", e)
            /\ \/ OnInventoryReserved(e.order) \/ OnReservationFailed(e.order)
               \/ OnPaymentSucceeded(e.order) \/ OnPaymentFailed(e.order)
            /\ UNCHANGED <<invVars, payVars>>
      BY <1>2 DEF OrderConsumer
    <2>2. e.order \in Orders
      BY Senders
    <2>3. OrderStep /\ PaymentStep /\ InvStep
      BY <2>1, <2>2 DEF OrderStep, PaymentStep, InvStep
    <2>4. QED
      BY <1>1, <2>1, <2>3, DispatchMarks
  <1>3. CASE InventoryConsumer
    <2>1. PICK e \in Sent :
            /\ Dispatch("inventory", e)
            /\ \/ e.topic = ORDER_CREATED /\ Reserve(e.order)
               \/ CommitReservation(e.order)
               \/ ReleaseReservation(e.order)
            /\ UNCHANGED <<orderVars, payVars>>
      BY <1>3 DEF InventoryConsumer
    <2>2. e.order \in Orders
      BY Senders
    <2>3. e.topic = ORDER_CREATED => e = Event(ORDER_CREATED, e.order)
      BY Senders DEF BaseInv, MessagesInv, OrderTopics
    <2>4. e \notin processed["inventory"] /\ e \in processed'["inventory"]
      BY <1>1, <2>1, DispatchMarks DEF Dispatch
    <2>5. OrderStep /\ PaymentStep /\ InvStep
      BY <2>1, <2>2, <2>3, <2>4 DEF OrderStep, PaymentStep, InvStep, Asks
    <2>6. QED
      BY <1>1, <2>1, <2>5, DispatchMarks
  <1>4. CASE PaymentConsumer
    <2>1. PICK e \in Sent :
            /\ Dispatch("payment", e)
            /\ ChargeForOrder(e.order) \/ RefundForOrder(e.order) \/ UNCHANGED payVars
            /\ UNCHANGED <<orderVars, invVars>>
      BY <1>4 DEF PaymentConsumer
    <2>2. e.order \in Orders
      BY Senders
    <2>3. OrderStep /\ PaymentStep /\ InvStep
      BY <2>1, <2>2 DEF OrderStep, PaymentStep, InvStep
    <2>4. QED
      BY <1>1, <2>1, <2>3, DispatchMarks
  <1>5. CASE PaymentConsumerCrash
    BY <1>1, <1>5, Senders DEF PaymentConsumerCrash, OrderStep, PaymentStep, InvStep
  <1>6. CASE Sweeper \/ StockAdmin
    BY <1>1, <1>6 DEF Sweeper, StockAdmin, OrderStep, PaymentStep, InvStep
  <1>7. CASE People
    BY <1>1, <1>7 DEF People, OrderStep, PaymentStep, InvStep
  <1>8. CASE UNCHANGED vars
    BY <1>1, <1>8 DEF vars, OrderStep, PaymentStep, InvStep
  <1>9. QED
    BY <1>2, <1>3, <1>4, <1>5, <1>6, <1>7, <1>8 DEF Next

\* Inventory publishes only answers, and to the order.created at hand.
LEMMA InventoryPublishes ==
    ASSUME InvStep
    PROVE  \/ UNCHANGED invOutbox
           \/ \E o \in Orders, t \in InvTopics : /\ Asks(o)
                                                 /\ invOutbox' = invOutbox \cup {Event(t, o)}
  <1>1. ASSUME NEW o \in Orders, Asks(o)
        PROVE  \E t \in InvTopics : invOutbox' = invOutbox \cup {Event(t, o)}
    BY <1>1 DEF Asks, Reserve, ReserveFails, ReserveHolds, InvTopics
  <1>2. QED
    BY <1>1 DEF InvStep, CommitReservation, ReleaseReservation, ReleaseHeld, RestockCommitted,
                ExpireStaleReservations, ReturnToShelf, UpsertStockItem, AdjustStock, invVars

LEMMA BaseInvStep ==
    ASSUME BaseInv, [Next]_vars
    PROVE  BaseInv'
  <1>1. /\ OrderStep /\ PaymentStep /\ InvStep
        /\ processed' \in [Consumers -> SUBSET Sent]
        /\ \A c \in Consumers : processed[c] \subseteq processed'[c]
    BY StepOfEach
  <1>2. OrderInv' /\ PayInv'
    BY <1>1, OrderInvStep, PayInvStep DEF BaseInv
  <1>3. invOutbox \subseteq invOutbox'
    BY <1>1, InventoryPublishes
  <1>4. processed' \in [Consumers -> SUBSET Sent']
    <2>1. Sent \subseteq Sent'
      BY <1>1, <1>3, OrderPublishes, PaymentPublishes DEF Sent
    <2>2. QED
      BY <1>1, <2>1
  <1>5. /\ \A e \in orderOutbox' : /\ e.topic \in OrderTopics
                                   /\ e.topic = ORDER_CREATED => e = Event(ORDER_CREATED, e.order)
        /\ \A e \in payOutbox' : e.topic \in PayTopics
    BY <1>1, OrderPublishes, PaymentPublishes DEF BaseInv, MessagesInv
  <1>6. /\ invOutbox' \subseteq Envelope
        /\ \A e \in invOutbox' : /\ e.topic \in InvTopics
                                 /\ e = Event(e.topic, e.order)
                                 /\ Event(ORDER_CREATED, e.order) \in processed'["inventory"]
    <2>1. /\ invOutbox \subseteq Envelope
          /\ \A e \in invOutbox : /\ e.topic \in InvTopics
                                  /\ e = Event(e.topic, e.order)
                                  /\ Event(ORDER_CREATED, e.order) \in processed'["inventory"]
      BY <1>1 DEF BaseInv, MessagesInv, Consumers
    <2>2. CASE UNCHANGED invOutbox
      BY <2>1, <2>2
    <2>3. ASSUME NEW o \in Orders, NEW t \in InvTopics, Asks(o),
                 invOutbox' = invOutbox \cup {Event(t, o)}
          PROVE  /\ invOutbox' \subseteq Envelope
                 /\ \A e \in invOutbox' : /\ e.topic \in InvTopics
                                          /\ e = Event(e.topic, e.order)
                                          /\ Event(ORDER_CREATED, e.order) \in processed'["inventory"]
      <3>1. Event(t, o) \in Envelope
        BY EventsAreEnvelopes DEF InvTopics, Topics
      <3>2. Event(t, o).topic = t /\ Event(t, o).order = o
        BY DEF Event
      <3>3. QED
        BY <2>1, <2>3, <3>1, <3>2 DEF Asks
    <2>4. QED
      BY <1>1, <2>2, <2>3, InventoryPublishes
  <1>7. QED
    BY <1>2, <1>4, <1>5, <1>6 DEF BaseInv, MessagesInv

LEMMA BaseInvInit ==
    ASSUME Init
    PROVE  BaseInv
  <1> USE DEF Init
  <1>1. OrderInv
    BY DEF OrderInit, OrderInv, OrderTypeOK, RowOK, WasPaidIsTrue, Visited, PAID_STATUSES
  <1>2. PayInv
    BY PaymentBounds DEF PayInit, PayInv, PayTypeOK, OutcomesPublished, AttemptsMade,
       SeenIsCaptured, CaptureBounded, Captured, Idle
  <1>3. MessagesInv
    BY DEF OrderInit, InvInit, PayInit, MessagesInv, Sent
  <1>4. QED
    BY <1>1, <1>2, <1>3 DEF BaseInv

LEMMA BaseInvCorrect == Spec => []BaseInv
  BY BaseInvInit, BaseInvStep, PTL DEF Spec

-----------------------------------------------------------------------------
(* Inventory, inside the saga, keeps its promises *)

\* An order.created that was not handled was not answered.
LEMMA InvStepIsInvNext ==
    ASSUME BaseInv, InvStep
    PROVE  [InvNext]_invVars
  <1>1. ASSUME NEW o \in Orders, Asks(o)
        PROVE  ~Decided(o)
    <2>1. \A t : Event(t, o) \in invOutbox => Event(ORDER_CREATED, o) \in processed["inventory"]
      BY DEF BaseInv, MessagesInv, Event
    <2>2. QED
      BY <1>1, <2>1 DEF Asks, Decided
  <1>2. QED
    BY <1>1 DEF InvStep, InvNext, Asks

\* The saga implements the specification of inventory: whatever order the topics
\* bring the events in, and however often, reserve runs once for an order, and
\* everything proved of InvSpec holds of the saga.
THEOREM SagaImplementsInventory == Spec => InvSpec
  <1>1. Init => InvInit
    BY DEF Init
  <1>2. BaseInv /\ [Next]_vars => [InvNext]_invVars
    BY StepOfEach, InvStepIsInvNext
  <1>3. QED
    BY <1>1, <1>2, BaseInvCorrect, PTL DEF Spec, InvSpec

\* The tables of the three services stay well typed.
THEOREM SagaTypeCorrect == Spec => []SagaTypeOK
  <1>1. BaseInv => OrderTypeOK /\ PayTypeOK /\ processed \in [Consumers -> SUBSET Envelope]
    <2> SUFFICES ASSUME BaseInv PROVE OrderTypeOK /\ PayTypeOK /\ processed \in [Consumers -> SUBSET Envelope]
      OBVIOUS
    <2>1. Sent \subseteq Envelope
      BY Senders
    <2>2. QED
      BY <2>1 DEF BaseInv, OrderInv, PayInv, MessagesInv
  <1>2. OrderTypeOK /\ PayTypeOK /\ processed \in [Consumers -> SUBSET Envelope] /\ InvTypeOK
            => SagaTypeOK
    BY DEF SagaTypeOK
  <1>3. QED
    BY <1>1, <1>2, BaseInvCorrect, SagaImplementsInventory, InvTypeCorrect, PTL

\* The audit trail is honest in every behaviour of the saga: whatever events
\* arrive for an order, and whoever ships or cancels it meanwhile, its history is
\* a walk of the state machine that ends where the order is.
THEOREM HistoryCorrect == Spec => []HistoryIsPath
  <1>1. BaseInv => HistoryIsPath
    BY DEF BaseInv, OrderInv, RowOK, Path, HistoryIsPath
  <1>2. QED
    BY <1>1, BaseInvCorrect, PTL

\* order.cancelled tells Payment and Inventory the truth about was_paid, once.
THEOREM WasPaidCorrect == Spec => []WasPaidIsTrue
  <1>1. BaseInv => WasPaidIsTrue
    BY DEF BaseInv, OrderInv
  <1>2. QED
    BY <1>1, BaseInvCorrect, PTL

\* The payment row and the published outcomes tell the same story, for any
\* number of attempts, refunds and admins.
THEOREM OutcomesCorrect == Spec => []OutcomesPublished
  <1>1. BaseInv => OutcomesPublished
    BY DEF BaseInv, PayInv
  <1>2. QED
    BY <1>1, BaseInvCorrect, PTL

\* Nobody is charged again but for a process lost between capture and COMMIT.
THEOREM RechargedCorrect == Spec => []RechargedOnlyByCrash
  <1>1. ASSUME BaseInv
        PROVE  RechargedOnlyByCrash
    <2>1. Amount \in Nat /\ crashes \in Nat /\ captured \in [Orders -> Nat]
      BY <1>1, PaymentBounds DEF BaseInv, PayInv, PayTypeOK
    <2>2. Amount * (1 + crashes) = Amount + Amount * crashes /\ Amount * crashes \in Nat
      BY <2>1
    <2>3. ASSUME NEW o \in Orders
          PROVE  captured[o] <= Amount * (1 + crashes)
      <3> DEFINE all == Amount * (1 + crashes)
                 lost == Amount * crashes
      <3>1. all = Amount + lost /\ lost \in Nat /\ captured[o] \in Nat
        BY <2>1, <2>2
      <3>2. captured[o] <= (IF Captured(o) THEN Amount ELSE 0) + lost
        BY <1>1 DEF BaseInv, PayInv, CaptureBounded
      <3> HIDE DEF all, lost
      <3>3. captured[o] <= all
        BY <2>1, <3>1, <3>2
      <3>4. QED
        BY <3>3 DEF all
    <2>4. QED
      BY <2>3 DEF RechargedOnlyByCrash
  <1>2. QED
    BY <1>1, BaseInvCorrect, PTL

-----------------------------------------------------------------------------
(* Money and goods *)

\* Who was charged had stock set aside, and who counts as paid or has left the
\* building with the goods was charged with success.
ChargedWasAnswered ==
    \A o \in Orders : payment[o] # "NONE" => Event(INVENTORY_RESERVED, o) \in invOutbox
PaidWasCaptured ==
    \A o \in Orders : Visited(history[o], "PAID") \/ reservation[o] = "COMMITTED" => Captured(o)

MoneyInv == ChargedWasAnswered /\ PaidWasCaptured /\ PaidCancelCompensated

\* What is known when the step is taken.
Known == BaseInv /\ InvTypeOK /\ OneAnswer

\* A published success is a captured payment.
LEMMA SuccessIsCaptured ==
    ASSUME BaseInv, NEW e \in Sent, e.topic = PAYMENT_SUCCEEDED
    PROVE  e.order \in Orders /\ Captured(e.order)
  <1>1. e \in payOutbox /\ e.order \in Orders
    BY Senders DEF PayTopics
  <1>2. e = PaymentEvent(PAYMENT_SUCCEEDED, e.order, e.attempt) /\ e.attempt \in 1 .. attempts[e.order]
    BY <1>1 DEF BaseInv, PayInv, AttemptsMade, Outcomes
  <1>3. QED
    BY <1>1, <1>2 DEF BaseInv, PayInv, OutcomesPublished, Captured

\* How a payment row moves.
PaymentMoved(o) ==
    /\ Captured(o) => payment'[o] \in {payment[o], "REFUNDED"}
    /\ payment[o] # "NONE" => payment'[o] # "NONE"
    /\ refundFailed \subseteq refundFailed'

LEMMA PaymentMoves ==
    ASSUME PayInv, PaymentStep, NEW o \in Orders
    PROVE  PaymentMoved(o)
  <1>a. PayTypeOK /\ SeenIsCaptured
    BY DEF PayInv
  <1> USE DEF PaymentMoved, PayTypeOK, Captured
  <1>1. ASSUME NEW x \in Orders, NEW n, NEW ok \in BOOLEAN, AttemptCharge(x, n, ok),
               ~Captured(x)
        PROVE  PaymentMoved(o)
    BY <1>a, <1>1 DEF AttemptCharge
  <1>2. ASSUME NEW x \in Orders, NEW amount, AttemptRefund(x, amount)
        PROVE  PaymentMoved(o)
    BY <1>a, <1>2 DEF AttemptRefund, CompleteRefund
  <1>3. ASSUME UNCHANGED <<payment, refundFailed>>
        PROVE  PaymentMoved(o)
    BY <1>3
  <1>4. ASSUME NEW x \in Orders, ChargeForOrder(x) \/ RetryPayment(x)
        PROVE  PaymentMoved(o)
    BY <1>1, <1>3, <1>4 DEF ChargeForOrder, RetryPayment, payVars
  <1>5. ASSUME NEW x \in Orders, RefundForOrder(x)
        PROVE  PaymentMoved(o)
    BY <1>2, <1>3, <1>5 DEF RefundForOrder, payVars
  <1>6. ASSUME NEW a \in Admins, NEW amount \in 1 .. Amount, AdminRefund(a, amount)
        PROVE  PaymentMoved(o)
    <2>1. desk[a].status = "SUCCEEDED" => desk[a].order \in Orders
      BY <1>a DEF Idle
    <2>2. QED
      BY <1>2, <1>3, <1>6, <2>1 DEF AdminRefund
  <1>7. QED
    BY <1>3, <1>4, <1>5, <1>6
       DEF PaymentStep, PaymentRequest, ChargeLost, RetryLost, LoseCapture, RefundLost,
           AdminRefundLost, LoseRefund, AdminLoad, payVars

\* An order's trail says PAID only by OnPaymentSucceeded.
LEMMA TrailStep ==
    ASSUME OrderInv, NEW x \in Orders, NEW o \in Orders,
           \/ OnInventoryReserved(x) \/ OnReservationFailed(x) \/ OnPaymentFailed(x)
           \/ CreateOrder(x) \/ CancelOrder(x) \/ ShipOrder(x) \/ DeliverOrder(x)
           \/ OnPaymentSucceeded(x) /\ x # o
           \/ UNCHANGED orderVars
    PROVE  Visited(history'[o], "PAID") <=> Visited(history[o], "PAID")
  <1>a. OrderTypeOK /\ RowOK(x)
    BY DEF OrderInv
  <1>1. ASSUME NEW t \in OrderStatus, Transition(x, t), t # "PAID"
        PROVE  Visited(history'[o], "PAID") <=> Visited(history[o], "PAID")
    <2>1. CASE o = x
      BY <1>a, <1>1, <2>1, RowMoves
    <2>2. CASE o # x
      <3>1. history'[o] = history[o]
        BY <1>a, <1>1, <2>2 DEF Transition, OrderTypeOK
      <3>2. QED
        BY <3>1
    <2>3. QED
      BY <2>1, <2>2
  <1>2. CASE CreateOrder(x)
    <2>1. ~Visited(<<"PENDING">>, "PAID") /\ ~Visited(<<>>, "PAID")
      BY DEF Visited
    <2>2. history'[o] = history[o] \/ (history[o] = <<>> /\ history'[o] = <<"PENDING">>)
      BY <1>a, <1>2 DEF CreateOrder, OrderTypeOK, RowOK
    <2>3. QED
      BY <2>1, <2>2
  <1>3. CASE history'[o] = history[o]
    BY <1>3
  <1>4. CASE OnPaymentSucceeded(x) /\ x # o
    BY <1>a, <1>3, <1>4 DEF OnPaymentSucceeded, OrderTypeOK, Drop, orderVars
  <1>5. CASE CancelOrder(x)
    BY <1>1, <1>5 DEF CancelOrder, OrderStatus
  <1>6. CASE ShipOrder(x) \/ DeliverOrder(x)
    BY <1>1, <1>6 DEF ShipOrder, DeliverOrder, OrderStatus
  <1>7. CASE OnInventoryReserved(x) \/ OnReservationFailed(x) \/ OnPaymentFailed(x)
    BY <1>1, <1>3, <1>7 DEF OnInventoryReserved, OnReservationFailed, OnPaymentFailed, Drop,
                            orderVars, OrderStatus
  <1>8. CASE UNCHANGED orderVars
    BY <1>3, <1>8 DEF orderVars
  <1>9. QED
    BY <1>2, <1>4, <1>5, <1>6, <1>7, <1>8

\* An order.cancelled that tells of a paid order is about an order that has
\* visited PAID, and one that appears now has been handled by nobody.
LEMMA CancelledPaid ==
    ASSUME BaseInv, NEW e \in orderOutbox, e.topic = ORDER_CANCELLED, e.was_paid
    PROVE  e.order \in Orders /\ Visited(history[e.order], "PAID")
  BY DEF BaseInv, OrderInv, OrderTypeOK, WasPaidIsTrue, Visited, Envelope

LEMMA NewIsUnhandled ==
    ASSUME BaseInv, NEW e, e \notin orderOutbox, e.topic = ORDER_CANCELLED, NEW c \in Consumers
    PROVE  e \notin processed[c]
  <1>1. ORDER_CANCELLED \notin InvTopics /\ ORDER_CANCELLED \notin PayTopics
    BY DEF ORDER_CANCELLED, InvTopics, PayTopics, INVENTORY_RESERVED, PAYMENT_SUCCEEDED,
           INVENTORY_RESERVATION_FAILED, PAYMENT_FAILED, PAYMENT_REFUNDED
  <1>2. QED
    BY <1>1 DEF BaseInv, MessagesInv, Sent

\* The three facts survive a step that only the order service takes ...
LEMMA MoneyOfOrder ==
    ASSUME Known, MoneyInv,
           UNCHANGED <<invVars, payVars>>,
           processed'["payment"] = processed["payment"],
           processed'["inventory"] = processed["inventory"],
           \A o \in Orders : Visited(history'[o], "PAID") => Visited(history[o], "PAID") \/ Captured(o)
    PROVE  MoneyInv'
  <1> USE DEF Known, MoneyInv
  <1>1. UNCHANGED <<reservation, invOutbox, payment, refundFailed>>
    BY DEF invVars, payVars
  <1>2. ChargedWasAnswered' /\ PaidWasCaptured'
    BY <1>1 DEF ChargedWasAnswered, PaidWasCaptured, Captured
  <1>3. ASSUME NEW e \in orderOutbox', e.topic = ORDER_CANCELLED, e \notin orderOutbox
        PROVE  e \notin processed'["payment"] /\ e \notin processed'["inventory"]
    BY <1>3, NewIsUnhandled DEF Consumers
  <1>4. PaidCancelCompensated'
    BY <1>1, <1>3 DEF PaidCancelCompensated
  <1>5. QED
    BY <1>2, <1>4

\* ... one that only inventory takes, with at most one event marked ...
LEMMA MoneyOfInventory ==
    ASSUME Known, MoneyInv, InvStep,
           UNCHANGED <<orderVars, payVars>>,
           processed'["payment"] = processed["payment"],
           \A o \in Orders : reservation'[o] = "COMMITTED" => reservation[o] = "COMMITTED" \/ Captured(o),
           \A e \in processed'["inventory"] \ processed["inventory"] :
               e \in Sent /\ (e.topic = ORDER_CANCELLED => ReleaseReservation(e.order))
    PROVE  MoneyInv'
  <1> USE DEF Known, MoneyInv
  <1>1. UNCHANGED <<status, history, orderOutbox, payment, refundFailed>>
    BY DEF orderVars, payVars
  <1>2. ChargedWasAnswered'
    BY <1>1, InventoryPublishes DEF ChargedWasAnswered
  <1>3. PaidWasCaptured'
    BY <1>1 DEF PaidWasCaptured, Captured
  <1>4. ASSUME NEW e \in orderOutbox, e.topic = ORDER_CANCELLED, e.was_paid,
               e \in processed'["inventory"]
        PROVE  reservation'[e.order] \in {"RELEASED", "EXPIRED"}
    <2>1. e.order \in Orders /\ Captured(e.order)
      BY <1>4, CancelledPaid DEF PaidWasCaptured
    <2>2. reservation[e.order] # "NONE" /\ reservation[e.order] \in ReservationStatus \cup {"NONE"}
      BY <2>1 DEF ChargedWasAnswered, OneAnswer, Captured, InvTypeOK
    <2>3. CASE e \in processed["inventory"]
      <3>1. reservation[e.order] \in {"RELEASED", "EXPIRED"}
        BY <1>4, <2>3 DEF PaidCancelCompensated
      <3>2. [InvNext]_invVars
        BY InvStepIsInvNext
      <3>3. reservation'[e.order] = reservation[e.order]
        BY <2>1, <3>1, <3>2, ReservationStep
      <3>4. QED
        BY <3>1, <3>3
    <2>4. CASE e \notin processed["inventory"]
      <3>1. ReleaseReservation(e.order)
        BY <1>4, <2>4
      <3>2. QED
        BY <2>1, <2>2, <3>1 DEF ReleaseReservation, ReleaseHeld, RestockCommitted, invVars,
                                InvTypeOK, ReservationStatus
    <2>5. QED
      BY <2>3, <2>4
  <1>5. PaidCancelCompensated'
    BY <1>1, <1>4 DEF PaidCancelCompensated
  <1>6. QED
    BY <1>2, <1>3, <1>5

\* ... and one that only payment takes.
LEMMA MoneyOfPayment ==
    ASSUME Known, MoneyInv, PaymentStep,
           UNCHANGED <<orderVars, invVars>>,
           processed'["inventory"] = processed["inventory"],
           \A o \in Orders : payment[o] = "NONE" /\ payment'[o] # "NONE" =>
               Event(INVENTORY_RESERVED, o) \in invOutbox,
           \A e \in processed'["payment"] \ processed["payment"] :
               e \in Sent /\ (e.topic = ORDER_CANCELLED /\ e.was_paid => RefundForOrder(e.order))
    PROVE  MoneyInv'
  <1> USE DEF Known, MoneyInv
  <1>1. UNCHANGED <<status, history, orderOutbox, reservation, invOutbox>>
    BY DEF orderVars, invVars, stockVars
  <1>2. \A o \in Orders : PaymentMoved(o)
    BY PaymentMoves DEF BaseInv
  <1>3. ChargedWasAnswered'
    BY <1>1 DEF ChargedWasAnswered
  <1>4. PaidWasCaptured'
    BY <1>1, <1>2 DEF PaidWasCaptured, PaymentMoved, Captured
  <1>5. ASSUME NEW e \in orderOutbox, e.topic = ORDER_CANCELLED, e.was_paid,
               e \in processed'["payment"]
        PROVE  payment'[e.order] = "REFUNDED" \/ e.order \in refundFailed'
    <2>1. e.order \in Orders /\ Captured(e.order)
      BY <1>5, CancelledPaid DEF PaidWasCaptured
    <2>2. CASE e \in processed["payment"]
      <3>1. payment[e.order] = "REFUNDED" \/ e.order \in refundFailed
        BY <1>5, <2>2 DEF PaidCancelCompensated
      <3>2. QED
        BY <1>2, <2>1, <3>1 DEF PaymentMoved
    <2>3. CASE e \notin processed["payment"]
      <3>1. RefundForOrder(e.order)
        BY <1>5, <2>3
      <3>2. payment \in [Orders -> (PaymentStatus \cup {"NONE"}) \ {"PENDING"}]
        BY DEF BaseInv, PayInv, PayTypeOK
      <3>3. QED
        BY <2>1, <3>1, <3>2 DEF RefundForOrder, AttemptRefund, CompleteRefund, Captured, payVars
    <2>4. QED
      BY <2>2, <2>3
  <1>6. PaidCancelCompensated'
    BY <1>1, <1>5 DEF PaidCancelCompensated
  <1>7. QED
    BY <1>3, <1>4, <1>6

LEMMA MoneyStep ==
    ASSUME Known, MoneyInv, [Next]_vars
    PROVE  MoneyInv'
  <1>a. BaseInv /\ OrderInv /\ PayInv /\ OrderStep /\ PaymentStep /\ InvStep
    BY StepOfEach DEF Known, BaseInv
  <1>b. Consumers = {"order", "inventory", "payment"}
    BY DEF Consumers
  <1>1. CASE OrderConsumer
    <2>1. PICK e \in Sent :
            /\ Dispatch("order", e)
            /\ \/ OnInventoryReserved(e.order) \/ OnReservationFailed(e.order)
               \/ e.topic = PAYMENT_SUCCEEDED /\ OnPaymentSucceeded(e.order)
               \/ OnPaymentFailed(e.order)
            /\ UNCHANGED <<invVars, payVars>>
      BY <1>1 DEF OrderConsumer
    <2>2. e.order \in Orders
      BY <1>a, Senders
    <2>3. ASSUME NEW o \in Orders, Visited(history'[o], "PAID")
          PROVE  Visited(history[o], "PAID") \/ Captured(o)
      <3>1. CASE OnPaymentSucceeded(e.order) /\ e.order = o /\ e.topic = PAYMENT_SUCCEEDED
        BY <1>a, <3>1, SuccessIsCaptured
      <3>2. CASE \/ OnInventoryReserved(e.order) \/ OnReservationFailed(e.order)
                 \/ OnPaymentFailed(e.order) \/ (OnPaymentSucceeded(e.order) /\ e.order # o)
        BY <1>a, <2>2, <2>3, <3>2, TrailStep
      <3>3. QED
        BY <2>1, <3>1, <3>2
    <2>4. processed'["payment"] = processed["payment"] /\ processed'["inventory"] = processed["inventory"]
      BY <1>a, <1>b, <2>1, DispatchMarks
    <2>5. QED
      BY <2>1, <2>3, <2>4, MoneyOfOrder
  <1>2. CASE InventoryConsumer
    <2>1. PICK e \in Sent :
            /\ Dispatch("inventory", e)
            /\ \/ e.topic = ORDER_CREATED /\ Reserve(e.order)
               \/ e.topic = PAYMENT_SUCCEEDED /\ CommitReservation(e.order)
               \/ e.topic \in {PAYMENT_FAILED, ORDER_CANCELLED} /\ ReleaseReservation(e.order)
            /\ UNCHANGED <<orderVars, payVars>>
      BY <1>2 DEF InventoryConsumer
    <2>2. e.order \in Orders
      BY <1>a, Senders
    <2>3. ASSUME NEW o \in Orders, reservation'[o] = "COMMITTED", reservation[o] # "COMMITTED"
          PROVE  Captured(o)
      <3>1. reservation \in [Orders -> ReservationStatus \cup {"NONE"}]
        BY DEF Known, InvTypeOK
      <3>2. ~Reserve(e.order) /\ ~ReleaseReservation(e.order)
        BY <2>2, <2>3, <3>1 DEF Reserve, ReserveFails, ReserveHolds, ReleaseReservation, ReleaseHeld,
                                RestockCommitted, invVars
      <3>3. e.topic = PAYMENT_SUCCEEDED /\ CommitReservation(e.order)
        BY <2>1, <3>2
      <3>4. e.order = o
        BY <2>2, <2>3, <3>1, <3>3 DEF CommitReservation, invVars
      <3>5. QED
        BY <1>a, <3>3, <3>4, SuccessIsCaptured
    <2>4. processed'["inventory"] = processed["inventory"] \cup {e}
          /\ processed'["payment"] = processed["payment"]
      BY <1>a, <1>b, <2>1, DispatchMarks
    <2>5. e.topic = ORDER_CANCELLED => ReleaseReservation(e.order)
      BY <2>1 DEF ORDER_CANCELLED, ORDER_CREATED, PAYMENT_SUCCEEDED
    <2>6. QED
      BY <1>a, <2>1, <2>3, <2>4, <2>5, MoneyOfInventory
  <1>3. CASE PaymentConsumer
    <2>1. PICK e \in Sent :
            /\ Dispatch("payment", e)
            /\ \/ e.topic = INVENTORY_RESERVED /\ ChargeForOrder(e.order)
               \/ e.topic = ORDER_CANCELLED /\ e.was_paid  /\ RefundForOrder(e.order)
               \/ e.topic = ORDER_CANCELLED /\ ~e.was_paid /\ UNCHANGED payVars
            /\ UNCHANGED <<orderVars, invVars>>
      BY <1>3 DEF PaymentConsumer
    <2>2. e.order \in Orders
      BY <1>a, Senders
    <2>3. INVENTORY_RESERVED # ORDER_CANCELLED
      BY DEF INVENTORY_RESERVED, ORDER_CANCELLED
    <2>4. ASSUME NEW o \in Orders, payment[o] = "NONE", payment'[o] # "NONE"
          PROVE  Event(INVENTORY_RESERVED, o) \in invOutbox
      <3>1. payment \in [Orders -> (PaymentStatus \cup {"NONE"}) \ {"PENDING"}]
        BY <1>a DEF PayInv, PayTypeOK
      <3>2. ~RefundForOrder(e.order)
        BY <2>2, <2>4, <3>1 DEF RefundForOrder, AttemptRefund, CompleteRefund, payVars
      <3>3. e.topic = INVENTORY_RESERVED /\ ChargeForOrder(e.order)
        BY <2>1, <2>4, <3>2 DEF payVars
      <3>4. e.order = o
        BY <2>2, <2>4, <3>1, <3>3 DEF ChargeForOrder, AttemptCharge, payVars
      <3>5. e \in invOutbox
        BY <1>a, <3>3, Senders DEF InvTopics
      <3>6. QED
        BY <1>a, <3>3, <3>4, <3>5 DEF BaseInv, MessagesInv
    <2>5. /\ processed'["payment"] = processed["payment"] \cup {e}
          /\ processed'["inventory"] = processed["inventory"]
      BY <1>a, <1>b, <2>1, DispatchMarks
    <2>6. e.topic = ORDER_CANCELLED /\ e.was_paid => RefundForOrder(e.order)
      BY <2>1, <2>3
    <2>7. QED
      BY <1>a, <2>1, <2>4, <2>5, <2>6, MoneyOfPayment
  <1>4. CASE PaymentConsumerCrash
    <2>1. UNCHANGED <<orderVars, invVars, processed, payment>>
      BY <1>4 DEF PaymentConsumerCrash, ChargeLost, LoseCapture, RefundLost, LoseRefund
    <2>2. QED
      BY <1>a, <2>1, MoneyOfPayment
  <1>5. CASE Sweeper \/ StockAdmin
    <2>1. UNCHANGED <<orderVars, payVars, processed>>
      BY <1>5 DEF Sweeper, StockAdmin
    <2>2. \A o \in Orders : reservation'[o] = "COMMITTED" => reservation[o] = "COMMITTED"
      BY <1>5 DEF Sweeper, StockAdmin, ExpireStaleReservations, UpsertStockItem, AdjustStock
    <2>3. QED
      BY <1>a, <2>1, <2>2, MoneyOfInventory
  <1>6. CASE OrderRequest /\ UNCHANGED <<invVars, payVars, processed>>
    <2>1. \A o \in Orders : Visited(history'[o], "PAID") => Visited(history[o], "PAID")
      BY <1>a, <1>6, TrailStep DEF OrderRequest
    <2>2. QED
      BY <1>6, <2>1, MoneyOfOrder
  <1>7. CASE PaymentRequest /\ UNCHANGED <<orderVars, invVars, processed>>
    <2>1. ASSUME NEW o \in Orders, payment[o] = "NONE"
          PROVE  payment'[o] = "NONE"
      <3>1. /\ payment \in [Orders -> (PaymentStatus \cup {"NONE"}) \ {"PENDING"}]
            /\ \A a \in Admins : desk[a].status = "SUCCEEDED" =>
                   desk[a].order \in Orders /\ Captured(desk[a].order)
        BY <1>a DEF PayInv, PayTypeOK, SeenIsCaptured, Idle
      <3>2. ASSUME NEW x \in Orders, RetryPayment(x) \/ RetryLost(x)
            PROVE  payment'[o] = "NONE"
        BY <2>1, <3>1, <3>2 DEF RetryPayment, RetryLost, LoseCapture, AttemptCharge
      <3>3. ASSUME NEW a \in Admins, NEW amount \in 1 .. Amount, AdminRefund(a, amount)
            PROVE  payment'[o] = "NONE"
        BY <2>1, <3>1, <3>3 DEF AdminRefund, AttemptRefund, CompleteRefund, Captured
      <3>4. QED
        BY <1>7, <2>1, <3>2, <3>3 DEF PaymentRequest, AdminLoad, AdminRefundLost, LoseRefund
    <2>2. QED
      BY <1>a, <1>7, <2>1, MoneyOfPayment
  <1>8. CASE UNCHANGED vars
    BY <1>a, <1>8, MoneyOfPayment DEF vars, payVars
  <1>9. QED
    BY <1>1, <1>2, <1>3, <1>4, <1>5, <1>6, <1>7, <1>8 DEF Next, People

LEMMA KnownAlways == Spec => []Known
  BY BaseInvCorrect, SagaImplementsInventory, InvTypeCorrect, OneAnswerCorrect, PTL DEF Known

LEMMA MoneyInvCorrect == Spec => []MoneyInv
  <1>1. Init => MoneyInv
    BY DEF Init, OrderInit, InvInit, PayInit, MoneyInv, ChargedWasAnswered, PaidWasCaptured,
           PaidCancelCompensated, Visited
  <1>2. Known /\ MoneyInv /\ [Next]_vars => MoneyInv'
    BY MoneyStep
  <1>3. QED
    BY <1>1, <1>2, KnownAlways, PTL DEF Spec

\* The customer is only charged for stock that was set aside for the order: an
\* order refused for lack of stock is never charged, for any number of orders
\* that compete, and whatever crashes and comes again.
THEOREM ChargedCorrect == Spec => []ChargedMeansReserved
  <1>1. Known /\ MoneyInv => ChargedMeansReserved
    BY DEF Known, MoneyInv, ChargedWasAnswered, OneAnswer, ChargedMeansReserved
  <1>2. QED
    BY <1>1, KnownAlways, MoneyInvCorrect, PTL

\* Nothing is given away: an order that counts as paid, and a reservation whose
\* units have left the building, have a captured payment.
THEOREM PaidCorrect == Spec => []PaidMeansCaptured
  <1>1. Known /\ MoneyInv => PaidMeansCaptured
    BY DEF Known, BaseInv, OrderInv, RowOK, MoneyInv, PaidWasCaptured, PaidMeansCaptured
  <1>2. QED
    BY <1>1, KnownAlways, MoneyInvCorrect, PTL

\* Cancelling a paid order is compensated at Payment and at Inventory as soon as
\* each of them has handled the event, and stays so.
THEOREM CancelCorrect == Spec => []PaidCancelCompensated
  <1>1. MoneyInv => PaidCancelCompensated
    BY DEF MoneyInv
  <1>2. QED
    BY <1>1, MoneyInvCorrect, PTL

\* What inventory promises by itself it also promises inside the saga: no unit
\* leaks, is oversold or returned twice, and no reservation moves backwards.
THEOREM SagaStockCorrect ==
    Spec => [](ReservedIsHeld /\ UnitsConserved /\ NeverNegative) /\ ReservationLifecycle
  BY SagaImplementsInventory, StockCorrect, LifecycleCorrect, PTL
=============================================================================
