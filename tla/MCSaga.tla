------------------------------- MODULE MCSaga -------------------------------
(* Orders that each want one unit of one scarce product.                    *)
EXTENDS Saga
CONSTANTS px

MCProducts   == {px}
MCWanted     == [o \in Orders |-> [p \in MCProducts |-> 1]]
MCInitialStock == [p \in MCProducts |-> 1]
MCQuantities == {1}
=============================================================================
