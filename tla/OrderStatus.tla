---------------------------- MODULE OrderStatus ----------------------------
(***************************************************************************)
(* The order state machine shared by every service                         *)
(* (common/common/order_status.py).  Statuses are strings, exactly the     *)
(* members of the StrEnum; "NONE" stands for an order id for which no row  *)
(* exists yet.                                                             *)
(***************************************************************************)

OrderStatus == {"PENDING", "INVENTORY_RESERVED", "PAID", "CONFIRMED",
                "SHIPPED", "DELIVERED", "CANCELLED", "FAILED"}

TERMINAL_STATUSES == {"DELIVERED", "CANCELLED", "FAILED"}

\* Statuses in which money has been taken: cancelling needs a refund.
PAID_STATUSES == {"PAID", "CONFIRMED", "SHIPPED", "DELIVERED"}

CUSTOMER_CANCELLABLE == {"PENDING", "INVENTORY_RESERVED", "PAID", "CONFIRMED"}

ALLOWED_TRANSITIONS ==
    [s \in OrderStatus |->
        CASE s = "PENDING"            -> {"INVENTORY_RESERVED", "FAILED", "CANCELLED"}
          [] s = "INVENTORY_RESERVED" -> {"PAID", "FAILED", "CANCELLED"}
          [] s = "PAID"               -> {"CONFIRMED", "CANCELLED"}
          [] s = "CONFIRMED"          -> {"SHIPPED", "CANCELLED"}
          [] s = "SHIPPED"            -> {"DELIVERED"}
          [] OTHER                    -> {}]

can_transition(current, target) == target \in ALLOWED_TRANSITIONS[current]
=============================================================================
