------------------------------ MODULE MCGateway ------------------------------
(* Two tabs in which one customer finishes the same checkout.               *)
EXTENDS Gateway
CONSTANTS c1, c2, u1, k1

MCClients    == {c1, c2}
MCIdentities == {u1}
MCUserOf     == [c \in MCClients |-> u1]
MCKeyFor     == [c \in MCClients |-> k1]
=============================================================================
