------------------------------ MODULE Checkout ------------------------------
(***************************************************************************)
(* POST /orders inside the order service: OrderService.create_order        *)
(* statement by statement, for requests that may carry the same            *)
(* Idempotency-Key (services/order/app/services.py, dependencies.py).      *)
(*                                                                         *)
(* A request is one READ COMMITTED transaction.  The look-up sees only     *)
(* committed orders; the INSERT takes the key in the UNIQUE index, so that *)
(* another INSERT of the key waits until the first transaction ends.  What *)
(* becomes of an order once it is placed is the business of Saga.          *)
(***************************************************************************)
EXTENDS Order, FiniteSets

CONSTANTS
    Handlers,     \* requests the service works on at a time
    Earlier,      \* orders that may have been placed before, by another user
    Keys          \* values of the Idempotency-Key header

ASSUME EarlierType == Earlier \subseteq Orders

VARIABLES
    keyOf,        \* orders.idempotency_key
    buyer,        \* orders.user_id
    onSale,       \* product_snapshots: every product of the basket is there and
                  \* active, and they share one currency
    req           \* the request each handler works on

checkoutVars == <<orderVars, keyOf, buyer, onSale, req>>

None == "none"

ASSUME OrdersType == None \notin Orders

Free == [pc |-> "idle", client |-> None, user |-> None, key |-> None, order |-> None,
         code |-> 0]

Stranger == "stranger"

\* The key may have been used before, by somebody else.
CheckoutInit ==
    \E E \in {{}, Earlier} :
        /\ status  = [o \in Orders |-> IF o \in E THEN "PENDING" ELSE "NONE"]
        /\ history = [o \in Orders |-> IF o \in E THEN <<"PENDING">> ELSE <<>>]
        /\ orderOutbox = {Event(ORDER_CREATED, o) : o \in E}
        /\ keyOf \in [Orders -> Keys \cup {None}]
        /\ \A o \in Orders : keyOf[o] = None <=> o \notin E
        /\ \A o, p \in E : keyOf[o] = keyOf[p] => o = p
        /\ buyer = [o \in Orders |-> IF o \in E THEN Stranger ELSE None]
        /\ onSale \in BOOLEAN
        /\ req = [h \in Handlers |-> Free]

Placed(k) == {o \in Orders : status[o] # "NONE" /\ keyOf[o] = k}

Reply(h, code, o) == req' = [req EXCEPT ![h].pc = "reply", ![h].code = code, ![h].order = o]
Goto(h, pc)       == req' = [req EXCEPT ![h].pc = pc]

\* The request reaches the service with its token and its key.
Accept(h, c, u, k) ==
    /\ req[h] = Free
    /\ req' = [req EXCEPT ![h] = [Free EXCEPT !.pc = "lookup", !.client = c, !.user = u,
                                              !.key = k]]

\* get_by_idempotency_key: a replay gets its order, another user's key is refused.
Lookup(h) ==
    /\ req[h].pc = "lookup"
    /\ IF Placed(req[h].key) = {} THEN Goto(h, "price")
       ELSE LET o == CHOOSE o \in Placed(req[h].key) : TRUE IN
            IF buyer[o] = req[h].user THEN Reply(h, 200, o) ELSE Reply(h, 409, None)
    /\ UNCHANGED <<orderVars, keyOf, buyer, onSale>>

\* products.get_many and the three checks on what it returns.
Price(h) ==
    /\ req[h].pc = "price"
    /\ IF onSale THEN Goto(h, "insert") ELSE Reply(h, 422, None)
    /\ UNCHANGED <<orderVars, keyOf, buyer, onSale>>

\* Requests whose INSERT of key k is not committed yet.
Holding(k) == {h \in Handlers : req[h].pc = "commit" /\ req[h].key = k}

\* Ids no row and no open transaction has (uuid4); that they may run out is a
\* bound of the model.
Fresh == {o \in Orders : status[o] = "NONE" /\ \A h \in Handlers : req[h].order # o}
FreshOrder == CHOOSE o \in Fresh : TRUE

\* Mutants of Insert: without the UNIQUE constraint; one that waits for every
\* other request with the key, and not only for an INSERT.
InsertUnchecked(h) ==
    /\ req[h].pc = "insert"
    /\ Fresh # {}
    /\ req' = [req EXCEPT ![h].pc = "commit", ![h].order = FreshOrder]
    /\ UNCHANGED <<orderVars, keyOf, buyer, onSale>>
InsertAlone(h) ==
    /\ req[h].pc = "insert"
    /\ \A g \in Handlers \ {h} : req[g].key # req[h].key
    /\ IF Placed(req[h].key) # {} THEN Goto(h, "recheck")
       ELSE /\ Fresh # {}
            /\ req' = [req EXCEPT ![h].pc = "commit", ![h].order = FreshOrder]
    /\ UNCHANGED <<orderVars, keyOf, buyer, onSale>>

\* flush: it waits for the transaction that holds the key, and then meets its
\* row (IntegrityError, rolled back) or takes the key itself.
Insert(h) ==
    /\ req[h].pc = "insert"
    /\ Holding(req[h].key) = {}
    /\ IF Placed(req[h].key) # {} THEN Goto(h, "recheck")
       ELSE /\ Fresh # {}
            /\ req' = [req EXCEPT ![h].pc = "commit", ![h].order = FreshOrder]
    /\ UNCHANGED <<orderVars, keyOf, buyer, onSale>>

\* The second look-up, in a new transaction: whoever placed the order, it is
\* returned.  Orders are never deleted, so the 409 is not reached.
Recheck(h) ==
    /\ req[h].pc = "recheck"
    /\ IF Placed(req[h].key) = {} THEN Reply(h, 409, None)
       ELSE Reply(h, 200, CHOOSE o \in Placed(req[h].key) : TRUE)
    /\ UNCHANGED <<orderVars, keyOf, buyer, onSale>>

\* get_session commits: order, items, history and order.created become visible.
Commit(h) ==
    LET o == req[h].order IN
    /\ req[h].pc = "commit"
    /\ CreateOrder(o)
    /\ keyOf' = [keyOf EXCEPT ![o] = req[h].key]
    /\ buyer' = [buyer EXCEPT ![o] = req[h].user]
    /\ Reply(h, 202, o)
    /\ UNCHANGED onSale

\* catalog.product.upserted changes a snapshot.
Relist ==
    /\ onSale' = ~onSale
    /\ UNCHANGED <<orderVars, keyOf, buyer, req>>

Handle(h) == Lookup(h) \/ Price(h) \/ Insert(h) \/ Recheck(h) \/ Commit(h)

-----------------------------------------------------------------------------

CheckoutTypeOK ==
    /\ OrderTypeOK
    /\ keyOf \in [Orders -> Keys \cup {None}]
    /\ onSale \in BOOLEAN
    /\ \A h \in Handlers :
           req[h].pc \in {"idle", "lookup", "price", "insert", "recheck", "commit", "reply"}
=============================================================================
