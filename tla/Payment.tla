------------------------------- MODULE Payment -------------------------------
(***************************************************************************)
(* The payment service (services/payment/app/services.py) and the gateway  *)
(* it charges (mock_gateway.py).  The gateway is called inside the         *)
(* database transaction: what it did is not undone when the transaction is *)
(* lost.  PaymentStatus PENDING lives only inside such a transaction and   *)
(* is never visible in a committed row.                                    *)
(***************************************************************************)
EXTENDS Events, Integers

CONSTANTS
    Amount,        \* the total of an order
    MaxAttempts,   \* bound: charge attempts per order
    MaxCrashes,    \* bound: processes lost between a gateway call and COMMIT
    RefundMayFail, \* whether the provider can refuse a refund of a captured
                   \* charge; the mock gateway never does
    Admins         \* admins refunding by hand (POST /admin/payments/../refund)

ASSUME PaymentBounds == Amount \in Nat \ {0} /\ MaxAttempts \in Nat \ {0}
                        /\ MaxCrashes \in Nat /\ RefundMayFail \in BOOLEAN

VARIABLES
    payment,       \* payments.status by order, "NONE" when there is no row
    attempts,      \* payments.attempts
    captured,      \* money the gateway took for the order
    returned,      \* money the gateway gave back for the order
    refunded,      \* the sum of the order's refunds rows COMPLETED
    refundFailed,  \* orders with a refunds row FAILED, left for a human
    desk,          \* the payment each admin's request has loaded
    crashes,       \* processes lost so far
    payOutbox      \* events ever enqueued by this service

payVars == <<payment, attempts, captured, returned, refunded, refundFailed, desk,
             crashes, payOutbox>>

PaymentStatus == {"PENDING", "SUCCEEDED", "FAILED", "REFUNDED"}

\* A request that has loaded nothing.
Idle == [order |-> "none", status |-> "NONE", refunded |-> 0]

PayInit ==
    /\ payment  = [o \in Orders |-> "NONE"]
    /\ attempts = [o \in Orders |-> 0]
    /\ captured = [o \in Orders |-> 0]
    /\ returned = [o \in Orders |-> 0]
    /\ refunded = [o \in Orders |-> 0]
    /\ refundFailed = {}
    /\ desk     = [a \in Admins |-> Idle]
    /\ crashes  = 0
    /\ payOutbox = {}

Enqueue(e) == payOutbox' = payOutbox \cup {e}

\* gateway.charge: the token decides.  A capture moves the order's amount.
GatewayCharge(o, ok) ==
    captured' = [captured EXCEPT ![o] = IF ok THEN @ + Amount ELSE @]

\* gateway.refund accepts: the amount goes back, whatever becomes of the caller.
GatewayRefund(o, amount) == returned' = [returned EXCEPT ![o] = @ + amount]

\* Mutants of AttemptCharge: a decline is announced as a success; a decline
\* is not published.
AttemptChargeMisreports(o, n, ok) ==
    /\ GatewayCharge(o, ok)
    /\ payment'  = [payment EXCEPT ![o] = IF ok THEN "SUCCEEDED" ELSE "FAILED"]
    /\ attempts' = [attempts EXCEPT ![o] = n]
    /\ Enqueue(PaymentEvent(PAYMENT_SUCCEEDED, o, n))
    /\ UNCHANGED <<returned, refunded, refundFailed, desk, crashes>>
AttemptChargeQuiet(o, n, ok) ==
    /\ GatewayCharge(o, ok)
    /\ payment'  = [payment EXCEPT ![o] = IF ok THEN "SUCCEEDED" ELSE "FAILED"]
    /\ attempts' = [attempts EXCEPT ![o] = n]
    /\ IF ok THEN Enqueue(PaymentEvent(PAYMENT_SUCCEEDED, o, n)) ELSE UNCHANGED payOutbox
    /\ UNCHANGED <<returned, refunded, refundFailed, desk, crashes>>

\* _attempt_charge for attempt n: the outcome is recorded and published.
AttemptCharge(o, n, ok) ==
    /\ GatewayCharge(o, ok)
    /\ payment'  = [payment EXCEPT ![o] = IF ok THEN "SUCCEEDED" ELSE "FAILED"]
    /\ attempts' = [attempts EXCEPT ![o] = n]
    /\ Enqueue(PaymentEvent(IF ok THEN PAYMENT_SUCCEEDED ELSE PAYMENT_FAILED, o, n))
    /\ UNCHANGED <<returned, refunded, refundFailed, desk, crashes>>

\* charge_for_order: an order that has a payment is not charged again.
ChargeForOrder(o) ==
    \/ /\ payment[o] = "NONE"
       /\ \E ok \in BOOLEAN : AttemptCharge(o, 1, ok)
    \/ /\ payment[o] # "NONE"
       /\ UNCHANGED payVars

\* Mutant of RetryPayment: any payment may be retried.
RetryAny(o) ==
    /\ payment[o] # "NONE"
    /\ attempts[o] < MaxAttempts
    /\ \E ok \in BOOLEAN : AttemptCharge(o, attempts[o] + 1, ok)

\* retry_payment: only a payment that failed.
RetryPayment(o) ==
    /\ payment[o] = "FAILED"
    /\ attempts[o] < MaxAttempts
    /\ \E ok \in BOOLEAN : AttemptCharge(o, attempts[o] + 1, ok)

\* The process dies, or its connection is lost, after the gateway captured and
\* before COMMIT: the row, the event and the processed mark are rolled back.
LoseCapture(o) ==
    /\ crashes < MaxCrashes
    /\ crashes' = crashes + 1
    /\ GatewayCharge(o, TRUE)
    /\ UNCHANGED <<payment, attempts, returned, refunded, refundFailed, desk, payOutbox>>

ChargeLost(o) == payment[o] = "NONE"   /\ LoseCapture(o)
RetryLost(o)  == payment[o] = "FAILED" /\ LoseCapture(o)

\* The provider accepted: any completed refund, partial or full, closes the
\* payment and is published, numbered by what has been refunded so far.
CompleteRefund(o, amount) ==
    /\ GatewayRefund(o, amount)
    /\ refunded' = [refunded EXCEPT ![o] = @ + amount]
    /\ payment'  = [payment EXCEPT ![o] = "REFUNDED"]
    /\ Enqueue(PaymentEvent(PAYMENT_REFUNDED, o, refunded[o] + amount))
    /\ UNCHANGED <<attempts, captured, refundFailed, crashes>>

\* Mutant of AttemptRefund: a refusal is logged and not recorded.
AttemptRefundForgets(o, amount) ==
    \/ CompleteRefund(o, amount)
    \/ /\ RefundMayFail
       /\ UNCHANGED <<payment, attempts, captured, returned, refunded, refundFailed,
                      crashes, payOutbox>>

\* refund_for_order past its checks: the provider accepts, or it refuses, and
\* the refund row is left FAILED.
AttemptRefund(o, amount) ==
    \/ CompleteRefund(o, amount)
    \/ /\ RefundMayFail
       /\ refundFailed' = refundFailed \cup {o}
       /\ UNCHANGED <<payment, attempts, captured, returned, refunded, crashes, payOutbox>>

\* Mutant of RefundForOrder: only less than what is left can be refunded.
RefundForOrderBelow(o) ==
    \/ /\ payment[o] = "SUCCEEDED"
       /\ Amount < Amount - refunded[o]
       /\ AttemptRefund(o, Amount)
       /\ UNCHANGED desk
    \/ /\ payment[o] # "SUCCEEDED"
       /\ UNCHANGED payVars

\* refund_for_order for the whole amount, as on_order_cancelled asks for it;
\* a payment that is not SUCCEEDED has nothing to refund.
RefundForOrder(o) ==
    \/ /\ payment[o] = "SUCCEEDED"
       /\ Amount <= Amount - refunded[o]
       /\ AttemptRefund(o, Amount)
       /\ UNCHANGED desk
    \/ /\ payment[o] # "SUCCEEDED"
       /\ UNCHANGED payVars

\* The process dies, or its connection is lost, after gateway.refund gave the
\* money back and before COMMIT: refund row, status and event are rolled back.
LoseRefund(o, amount) ==
    /\ crashes < MaxCrashes
    /\ crashes' = crashes + 1
    /\ GatewayRefund(o, amount)
    /\ UNCHANGED <<payment, attempts, captured, refunded, refundFailed, payOutbox>>

RefundLost(o) ==
    /\ payment[o] = "SUCCEEDED"
    /\ LoseRefund(o, Amount)
    /\ UNCHANGED desk

\* refund_payment loads the row without a lock ...
AdminLoad(a, o) ==
    /\ desk[a] = Idle
    /\ payment[o] # "NONE"
    /\ desk' = [desk EXCEPT ![a] =
                   [order |-> o, status |-> payment[o], refunded |-> refunded[o]]]
    /\ UNCHANGED <<payment, attempts, captured, returned, refunded, refundFailed, crashes,
                   payOutbox>>

\* ... and the locked read of refund_for_order returns the instance the session
\* already holds: its checks see the row as it was loaded.
AdminRefund(a, amount) ==
    LET seen == desk[a] IN
    /\ seen # Idle
    /\ desk' = [desk EXCEPT ![a] = Idle]
    /\ \/ /\ seen.status = "SUCCEEDED"
          /\ amount <= Amount - seen.refunded
          /\ AttemptRefund(seen.order, amount)
       \/ /\ seen.status # "SUCCEEDED" \/ amount > Amount - seen.refunded
          /\ UNCHANGED <<payment, attempts, captured, returned, refunded, refundFailed,
                         crashes, payOutbox>>

\* The same loss under an admin's request, which nobody repeats.
AdminRefundLost(a, amount) ==
    /\ desk[a].status = "SUCCEEDED"
    /\ amount <= Amount - desk[a].refunded
    /\ LoseRefund(desk[a].order, amount)
    /\ desk' = [desk EXCEPT ![a] = Idle]

\* What people do to a payment; the handlers above are driven by events.
PaymentRequest ==
    \/ \E o \in Orders : RetryPayment(o) \/ RetryLost(o)
    \/ \E a \in Admins, o \in Orders : AdminLoad(a, o)
    \/ \E a \in Admins, amount \in 1 .. Amount :
           AdminRefund(a, amount) \/ AdminRefundLost(a, amount)

-----------------------------------------------------------------------------

PayTypeOK ==
    /\ payment  \in [Orders -> (PaymentStatus \cup {"NONE"}) \ {"PENDING"}]
    /\ attempts \in [Orders -> Nat]
    /\ captured \in [Orders -> Nat]
    /\ returned \in [Orders -> Nat]
    /\ refunded \in [Orders -> Nat]
    /\ refundFailed \subseteq Orders
    /\ desk \in [Admins -> {Idle} \cup
                    [order : Orders, status : PaymentStatus \ {"PENDING"}, refunded : Nat]]
    /\ crashes \in Nat
    /\ payOutbox \subseteq Envelope

\* A customer is charged at most once per order, however often the event that
\* asks for it is delivered and however often the payment is retried.
ChargedAtMostOnce == \A o \in Orders : captured[o] <= Amount

\* Only a process lost between capture and COMMIT charges again, once for each
\* loss: neither duplicates nor retries nor racing refunds do.
RechargedOnlyByCrash == \A o \in Orders : captured[o] <= Amount * (1 + crashes)

\* No order gets back more than was taken for it.
RefundWithinCapture == \A o \in Orders : returned[o] <= captured[o]

\* The row, the published outcomes and the gateway tell the same story: one
\* payment.succeeded exactly for a captured payment, and a payment.failed for
\* every other attempt.
OutcomesPublished ==
    \A o \in Orders :
        /\ payment[o] \in {"SUCCEEDED", "REFUNDED"} <=>
               \E n \in 1 .. attempts[o] : PaymentEvent(PAYMENT_SUCCEEDED, o, n) \in payOutbox
        /\ \A n \in 1 .. attempts[o] :
               PaymentEvent(PAYMENT_FAILED, o, n) \in payOutbox <=>
                   PaymentEvent(PAYMENT_SUCCEEDED, o, n) \notin payOutbox
=============================================================================
