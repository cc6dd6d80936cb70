--------------------------- MODULE MCCustomerMail ---------------------------
(* One customer, who orders one unit of a scarce product.                   *)
EXTENDS CustomerMail
CONSTANTS px, u1

MCProducts     == {px}
MCWanted       == [o \in Orders |-> [p \in MCProducts |-> 1]]
MCInitialStock == [p \in MCProducts |-> 1]
MCQuantities   == {1}
MCCustomer     == [o \in Orders |-> u1]
=============================================================================
