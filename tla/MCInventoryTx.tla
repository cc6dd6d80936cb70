---------------------------- MODULE MCInventoryTx ----------------------------
(***************************************************************************)
(* Orders that meet on two products: oa wants one unit of px, ob and oc one *)
(* of each.                                                                *)
(***************************************************************************)
EXTENDS InventoryTx, TLC
CONSTANTS oa, ob, oc, px, py

MCProductOrder == [p \in Products |-> IF p = px THEN 1 ELSE 2]
MCWanted == [o \in Orders |-> [p \in Products |-> IF o = oa /\ p = py THEN 0 ELSE 1]]
MCInitialStock == [p \in Products |-> 1]
WorkerSymmetry == Permutations(Workers)
=============================================================================
