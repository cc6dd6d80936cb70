----------------------------- MODULE MCInventory -----------------------------
(***************************************************************************)
(* Three overlapping orders: oa and ob compete for the same scarce product *)
(* and oc needs both products, so that a partial shortage occurs.          *)
(***************************************************************************)
EXTENDS Inventory
CONSTANTS oa, ob, oc, px, py

MCOrders   == {oa, ob, oc}
MCProducts == {px, py}
MCWanted ==
    [o \in MCOrders |->
        CASE o = oa -> [p \in MCProducts |-> IF p = px THEN 1 ELSE 0]
          [] o = ob -> [p \in MCProducts |-> IF p = px THEN 2 ELSE 0]
          [] o = oc -> [p \in MCProducts |-> 1]]
MCInitialStock == [p \in MCProducts |-> 0]
MCQuantities == {0, 1, 2}
=============================================================================
