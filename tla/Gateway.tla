------------------------------- MODULE Gateway -------------------------------
(***************************************************************************)
(* Placing an order from the browser: the API gateway                      *)
(* (services/gateway/app/main.py) with its limiter in front of the order   *)
(* service's checkout.                                                     *)
(*                                                                         *)
(* The gateway stops waiting before the service stops working: after a 504 *)
(* the handler goes on, and the client's retry, with the same              *)
(* Idempotency-Key, meets it.  GET requests have a bucket of their own in  *)
(* the limiter, left out here.                                             *)
(***************************************************************************)
EXTENDS Checkout, RateLimiter

CONSTANTS
    Clients,       \* browsers with one checkout each
    UserOf, KeyFor,  \* who is signed in there, and the key of the checkout
    MaxTries,      \* bound: requests a client sends for its checkout
    MaxFaults      \* bound: handlers and Redis calls that are lost

ASSUME GatewayBounds ==
    /\ {MaxTries, MaxFaults} \subseteq Nat
    /\ UserOf \in [Clients -> Identities] /\ KeyFor \in [Clients -> Keys]

VARIABLES
    client,        \* what each client waits for or was told
    faults

gatewayVars == <<checkoutVars, limiterVars, client, faults>>

Unasked == [pc |-> "idle", code |-> 0, order |-> None, tries |-> 0]

\* Answers after which a client tries again with the same key.
Retryable == {0, 429, 502, 504}

GatewayInit ==
    /\ CheckoutInit /\ LimiterInit
    /\ client = [c \in Clients |-> Unasked]
    /\ faults = 0

Sent(c)          == [client[c] EXCEPT !.pc = "waiting", !.tries = @ + 1]
Limited(c)       == [client[c] EXCEPT !.pc = "told", !.code = 429, !.tries = @ + 1]
Told(c, code, o) == [client[c] EXCEPT !.pc = "told", !.code = code, !.order = o]

\* Whoever waits for handler h hears of it; after a timeout nobody does.
Tell(h, code, o) ==
    client' = IF req[h].client = None THEN client
              ELSE [client EXCEPT ![req[h].client] = Told(req[h].client, code, o)]

\* proxy: the limiter first, and then the upstream, if it let the request pass.
PostOrder(c, h) ==
    LET u == UserOf[c] IN
    /\ client[c].pc # "waiting" /\ client[c].code \in Retryable
    /\ client[c].tries < MaxTries
    /\ req[h] = Free
    /\ \/ /\ Pass(u)
          /\ Accept(h, c, u, KeyFor[c])
          /\ client' = [client EXCEPT ![c] = Sent(c)]
          /\ UNCHANGED faults
       \/ /\ Refuse(u)
          /\ client' = [client EXCEPT ![c] = Limited(c)]
          /\ UNCHANGED <<req, faults>>
       \/ /\ faults < MaxFaults /\ faults' = faults + 1
          /\ FailOpen
          /\ Accept(h, c, u, KeyFor[c])
          /\ client' = [client EXCEPT ![c] = Sent(c)]
    /\ UNCHANGED <<orderVars, keyOf, buyer, onSale>>

\* httpx.TimeoutException: 504, while the handler goes on for nobody.
GatewayTimeout(h) ==
    /\ req[h].client # None
    /\ Tell(h, 504, None)
    /\ req' = [req EXCEPT ![h].client = None]
    /\ UNCHANGED <<orderVars, keyOf, buyer, onSale, limiterVars, faults>>

\* The answer of the service, passed through.
Answer(h) ==
    /\ req[h].pc = "reply"
    /\ Tell(h, req[h].code, req[h].order)
    /\ req' = [req EXCEPT ![h] = Free]
    /\ UNCHANGED <<orderVars, keyOf, buyer, onSale, limiterVars, faults>>

\* The service dies under the request, before or after its COMMIT: the open
\* transaction is rolled back, httpx.RequestError becomes 502.
HandlerDies(h) ==
    /\ req[h] # Free
    /\ faults < MaxFaults /\ faults' = faults + 1
    /\ Tell(h, 502, None)
    /\ req' = [req EXCEPT ![h] = Free]
    /\ UNCHANGED <<orderVars, keyOf, buyer, onSale, limiterVars>>

Service(h) == Handle(h) /\ UNCHANGED <<limiterVars, client, faults>>

GatewayNext ==
    \/ \E c \in Clients, h \in Handlers : PostOrder(c, h)
    \/ \E h \in Handlers : Service(h) \/ Answer(h) \/ GatewayTimeout(h) \/ HandlerDies(h)
    \/ Relist /\ UNCHANGED <<limiterVars, client, faults>>
    \/ (\E i \in Identities : hits[i] # <<>>) /\ Tick /\ UNCHANGED <<checkoutVars, client, faults>>

GatewaySpec == GatewayInit /\ [][GatewayNext]_gatewayVars

\* The service keeps working on what it has accepted; nobody has to buy.
GatewayFairSpec ==
    /\ GatewaySpec
    /\ \A h \in Handlers : WF_gatewayVars(Service(h)) /\ WF_gatewayVars(Answer(h))

-----------------------------------------------------------------------------

\* A checkout makes at most one order, however often it is sent, timed out,
\* thrown away and sent again, and every client that is given an order for a
\* key is given that one, with its event on the way.
OneOrderPerKey ==
    /\ \A k \in Keys : Cardinality(Placed(k)) <= 1
    /\ \A c \in Clients :
           client[c].order # None =>
               /\ Placed(KeyFor[c]) = {client[c].order}
               /\ Event(ORDER_CREATED, client[c].order) \in orderOutbox

\* Every request the service accepted is answered or lost: nobody waits for
\* ever for a key that another request holds.
RequestsEnd == \A h \in Handlers : req[h] # Free ~> req[h] = Free

\* "Same key from a different user: reject rather than leak."  No run checks it:
\* the second look-up (Recheck) does not ask who placed the order.
OrdersStayPrivate ==
    \A c \in Clients : client[c].order # None => buyer[client[c].order] = UserOf[c]
=============================================================================
