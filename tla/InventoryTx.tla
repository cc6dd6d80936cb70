----------------------------- MODULE InventoryTx -----------------------------
(***************************************************************************)
(* The inventory service statement by statement.  Several processes        *)
(* (consumer replicas, the sweeper, the admin API) run transactions of     *)
(* InventoryService against one PostgreSQL database at READ COMMITTED: a   *)
(* plain SELECT sees the last committed row, SELECT FOR UPDATE waits for   *)
(* the row's lock and then sees the last committed row, writes become      *)
(* visible at COMMIT, and locks are kept until then.  The ORM session      *)
(* keeps the first version it loads of a row: later SELECTs, locking ones  *)
(* included, return that instance, and UPDATE writes its attributes back.  *)
(*                                                                         *)
(* The variables of Inventory are the committed tables.  Inventory is the  *)
(* specification of this module: every COMMIT must be one of its actions.  *)
(***************************************************************************)
EXTENDS Inventory

CONSTANTS
    Workers,         \* processes with a database session
    Jobs,            \* kinds of transaction that take part
    ProductOrder,    \* ORDER BY stock_items.product_id: the place of each product
    Nobody           \* holder of a free lock

ASSUME ProductOrderType ==
    /\ ProductOrder \in [Products -> Nat]
    /\ \A p, q \in Products : ProductOrder[p] = ProductOrder[q] => p = q
ASSUME NobodyType == Nobody \notin Workers

VARIABLES
    handled,    \* processed_events, primary key event_id
    tx,         \* the open transaction of each worker
    rowLock,    \* holder of each stock_items row lock
    resLock     \* holder of each reservations row lock

txVars  == <<handled, tx, rowLock, resLock>>
allVars == <<invVars, txVars>>

NoEvent == [topic |-> "none"]

\* pc: the statement to execute next.  batch: the reservations being worked
\* on.  queue: lines whose stock row is still to be locked.  loaded: the
\* session's instances of stock rows.  plan: what COMMIT will make visible.
NoTx == [pc |-> "idle", kind |-> "none", event |-> NoEvent, quantity |-> 0,
         batch |-> {}, queue |-> {}, loaded |-> <<>>, plan |-> "nothing"]

\* The lines of the nth reservation of a transaction, which is that of order o.
Line == [nth : Nat, product : Products]
Lines(n, o) == [nth : {n}, product : Items(o)]

\* Mutant of IsNext: reserve without its ORDER BY.
IsNextUnordered(w, l) ==
    l \in tx[w].queue /\ \A k \in tx[w].queue \ {l} : l.nth <= k.nth

\* The lines that may come next when w asks for the row of a line.  Reservations
\* are worked on one after the other.  reserve is one SELECT ... ORDER BY
\* product_id FOR UPDATE; the others walk through reservation.items, which comes
\* in no particular order: the relationship has no order_by.
IsNext(w, l) ==
    /\ l \in tx[w].queue
    /\ \A k \in tx[w].queue \ {l} :
           /\ l.nth <= k.nth
           /\ tx[w].plan = "reserve" => ProductOrder[l.product] < ProductOrder[k.product]

\* The handlers of InventoryConsumer.
Handler(topic) ==
    CASE topic = ORDER_CREATED     -> "reserve"
      [] topic = PAYMENT_SUCCEEDED -> "commit"
      [] OTHER                     -> "release"

\* What Kafka may deliver: Payment speaks of an order only after
\* inventory.reserved; an order may be cancelled at any time.
Deliverable ==
    {Event(t, o) : t \in {ORDER_CREATED, ORDER_CANCELLED}, o \in Orders}
        \cup {PaymentEvent(t, o, 1) : t \in {PAYMENT_SUCCEEDED, PAYMENT_FAILED},
                                      o \in {x \in Orders : reservation[x] # "NONE"}}

-----------------------------------------------------------------------------

Begin(w, kind, pc, event, n, batch, queue) ==
    /\ tx[w] = NoTx
    /\ kind \in Jobs
    /\ tx' = [tx EXCEPT ![w] = [NoTx EXCEPT !.kind = kind, !.pc = pc, !.event = event,
                                            !.quantity = n, !.batch = batch, !.queue = queue]]

\* _dispatch: already_processed sees the committed processed_events.
BeginEvent(w, e) ==
    /\ e \notin handled
    /\ LET kind == Handler(e.topic) IN
         Begin(w, kind, IF kind = "reserve" THEN "lookup" ELSE "lockReservation",
               e, 0, {e.order}, {})
    /\ UNCHANGED <<invVars, handled, rowLock, resLock>>

\* reserve: the unlocked SELECT of an existing reservation.
LookupReservation(w) ==
    /\ tx[w].pc = "lookup"
    /\ LET o == tx[w].event.order IN
         tx' = [tx EXCEPT
            ![w].pc    = IF reservation[o] = "NONE" THEN "lockRows" ELSE "commit",
            ![w].queue = IF reservation[o] = "NONE" THEN Lines(1, o) ELSE {},
            ![w].plan  = IF reservation[o] = "NONE" THEN "reserve" ELSE "nothing"]
    /\ UNCHANGED <<invVars, handled, rowLock, resLock>>

\* What commit_reservation and release_reservation do to a row they locked.
PlanFor(kind, s) ==
    CASE kind = "commit"  /\ s = "HELD"      -> "commit"
      [] kind = "release" /\ s = "HELD"      -> "release"
      [] kind = "release" /\ s = "COMMITTED" -> "putBack"
      [] OTHER                               -> "nothing"

\* Mutant of LockReservation: the row is read and not locked.
ReadReservation(w) ==
    /\ tx[w].pc = "lockReservation"
    /\ LET o    == tx[w].event.order
           plan == PlanFor(tx[w].kind, reservation[o])
       IN  tx' = [tx EXCEPT
                ![w].pc    = IF plan = "nothing" THEN "commit" ELSE "lockRows",
                ![w].queue = IF plan = "nothing" THEN {} ELSE Lines(1, o),
                ![w].plan  = plan]
    /\ UNCHANGED <<invVars, handled, rowLock, resLock>>

\* _get_reservation_by_order(for_update=True): a row that is not committed yet
\* is not seen, and not waited for.
LockReservation(w) ==
    /\ tx[w].pc = "lockReservation"
    /\ LET o    == tx[w].event.order
           plan == PlanFor(tx[w].kind, reservation[o])
       IN  /\ \/ reservation[o] = "NONE" /\ UNCHANGED resLock
              \/ /\ reservation[o] # "NONE"
                 /\ resLock[o] = Nobody
                 /\ resLock' = [resLock EXCEPT ![o] = w]
           /\ tx' = [tx EXCEPT
                ![w].pc    = IF plan = "nothing" THEN "commit" ELSE "lockRows",
                ![w].queue = IF plan = "nothing" THEN {} ELSE Lines(1, o),
                ![w].plan  = plan]
    /\ UNCHANGED <<invVars, handled, rowLock>>

\* expire_stale_reservations: FOR UPDATE SKIP LOCKED takes a batch, in the order
\* `nth' of their age; the rows of one reservation are locked after those of the
\* one before.
SelectStale(w, batch, nth) ==
    /\ batch # {}
    /\ Cardinality(batch) <= SweepBatch
    /\ \A o, q \in batch : nth[o] = nth[q] => o = q
    /\ \A o \in batch : reservation[o] = "HELD" /\ resLock[o] = Nobody
    /\ resLock' = [o \in Orders |-> IF o \in batch THEN w ELSE resLock[o]]
    /\ tx[w] = NoTx
    /\ "sweep" \in Jobs
    /\ tx' = [tx EXCEPT ![w] =
          [NoTx EXCEPT !.kind = "sweep", !.pc = "lockRows", !.batch = batch, !.plan = "expire",
                       !.queue = UNION {Lines(nth[o], o) : o \in batch}]]
    /\ UNCHANGED <<invVars, handled, rowLock>>

\* The admin routes that lock at once: POST /stock and PATCH /stock/{id}.
BeginAdmin(w, kind, p, n) ==
    /\ kind \in {"upsert", "adjust"}
    /\ Begin(w, kind, "lockRows", NoEvent, n, {}, [nth : {1}, product : {p}])
    /\ UNCHANGED <<invVars, handled, rowLock, resLock>>

\* POST /stock/{id}/restock loads the row without a lock, and only then locks.
BeginRestock(w, p, n) ==
    /\ Begin(w, "restock", "load", NoEvent, n, {}, [nth : {1}, product : {p}])
    /\ UNCHANGED <<invVars, handled, rowLock, resLock>>

\* The session keeps the first instance of a row it loads.
Load(w, p) ==
    IF p \in DOMAIN tx[w].loaded THEN tx[w].loaded
    ELSE [q \in DOMAIN tx[w].loaded \cup {p} |->
             IF q = p THEN [available |-> available[p], reserved |-> reserved[p]]
                      ELSE tx[w].loaded[q]]

LoadUnlocked(w) ==
    /\ tx[w].pc = "load"
    /\ \E l \in tx[w].queue :
           tx' = [tx EXCEPT ![w].pc = "lockRows", ![w].loaded = Load(w, l.product)]
    /\ UNCHANGED <<invVars, handled, rowLock, resLock>>

\* The row of line l is locked; after the last one comes COMMIT.
Locked(w, l) ==
    /\ rowLock' = [rowLock EXCEPT ![l.product] = w]
    /\ tx' = [tx EXCEPT ![w].loaded = Load(w, l.product),
                        ![w].queue  = @ \ {l},
                        ![w].pc     = IF tx[w].queue = {l} THEN "commit" ELSE "lockRows"]
    /\ UNCHANGED <<invVars, handled, resLock>>

\* Mutant of LockRow: SELECT without FOR UPDATE; the row is taken, not awaited.
TakeRow(w) ==
    /\ tx[w].pc = "lockRows"
    /\ \E l \in tx[w].queue : IsNext(w, l) /\ Locked(w, l)

\* The next stock row of SELECT ... FOR UPDATE.
LockRow(w) ==
    /\ tx[w].pc = "lockRows"
    /\ \E l \in tx[w].queue :
           /\ IsNext(w, l)
           /\ rowLock[l.product] \in {Nobody, w}
           /\ Locked(w, l)

\* Rollback: the process or its connection is lost, the handler raised (a
\* UNIQUE or primary key violation included), or PostgreSQL chose this
\* transaction to break a deadlock.  An event stays unhandled and comes again.
ReleaseLocks(w) ==
    /\ rowLock' = [p \in Products |-> IF rowLock[p] = w THEN Nobody ELSE rowLock[p]]
    /\ resLock' = [o \in Orders |-> IF resLock[o] = w THEN Nobody ELSE resLock[o]]
    /\ tx' = [tx EXCEPT ![w] = NoTx]

Abort(w) ==
    /\ tx[w] # NoTx
    /\ ReleaseLocks(w)
    /\ UNCHANGED <<invVars, handled>>

\* mark_processed and COMMIT: the primary key of processed_events refuses an
\* event that another transaction marked since already_processed looked.
MarkAndCommit(w) ==
    /\ tx[w].pc = "commit"
    /\ tx[w].event \notin handled
    /\ handled' = IF tx[w].event = NoEvent THEN handled ELSE handled \cup {tx[w].event}
    /\ ReleaseLocks(w)

\* The flush writes back the changed columns of the session's instances, with
\* da units more available and dr more reserved; the events carry them, with
\* low_stock for the rows in Low.
Flush(w, da, dr, Low) ==
    LET row == tx[w].loaded IN
    /\ available' = [p \in Products |->
          IF p \in DOMAIN row /\ da[p] # 0 THEN row[p].available + da[p] ELSE available[p]]
    /\ reserved' = [p \in Products |->
          IF p \in DOMAIN row /\ dr[p] # 0 THEN row[p].reserved + dr[p] ELSE reserved[p]]
    /\ announced' = [p \in Products |->
          IF p \in DOMAIN row THEN [available |-> row[p].available + da[p],
                                    reserved  |-> row[p].reserved + dr[p],
                                    low       |-> p \in Low]
                              ELSE announced[p]]
    /\ UNCHANGED tracked

\* The session's rows that is_low, once da units are added.
LowRows(w, da) ==
    {p \in DOMAIN tx[w].loaded : tx[w].loaded[p].available + da[p] <= threshold'[p]}

Plus(O)  == [p \in Products |-> Units(O, p)]
Minus(O) == [p \in Products |-> -Units(O, p)]
Zero     == [p \in Products |-> 0]

\* The ledger rows of the reservations in the batch.
FlushOrderLedger(w, sign) ==
    /\ orderLedger' = [o \in Orders |->
          IF o \in tx[w].batch
          THEN [p \in Products |-> orderLedger[o][p] + sign * Wanted[o][p]]
          ELSE orderLedger[o]]
    /\ UNCHANGED adminLedger

SetStatus(w, s) ==
    reservation' = [o \in Orders |-> IF o \in tx[w].batch THEN s ELSE reservation[o]]

\* Nothing to do: a duplicate, or nothing to commit or release.
CommitNothing(w) ==
    /\ tx[w].event # NoEvent
    /\ tx[w].plan = "nothing"
    /\ MarkAndCommit(w)
    /\ UNCHANGED invVars

Short(w) == \E p \in DOMAIN tx[w].loaded :
                tx[w].loaded[p].available < Wanted[tx[w].event.order][p]

CommitReserveFails(w) ==
    /\ tx[w].plan = "reserve"
    /\ Short(w)
    /\ MarkAndCommit(w)
    /\ invOutbox' = invOutbox \cup {Event(INVENTORY_RESERVATION_FAILED, tx[w].event.order)}
    /\ UNCHANGED <<stockVars, reservation>>

\* UNIQUE(reservations.order_id) refuses a second row for the order.
CommitReserveHolds(w) ==
    /\ tx[w].plan = "reserve"
    /\ ~Short(w)
    /\ reservation[tx[w].event.order] = "NONE"
    /\ MarkAndCommit(w)
    /\ UNCHANGED threshold
    /\ Flush(w, Minus(tx[w].batch), Plus(tx[w].batch), LowRows(w, Minus(tx[w].batch)))
    /\ FlushOrderLedger(w, -1)
    /\ SetStatus(w, "HELD")
    /\ invOutbox' = invOutbox \cup {Event(INVENTORY_RESERVED, tx[w].event.order)}

CommitCommit(w) ==
    /\ tx[w].plan = "commit"
    /\ MarkAndCommit(w)
    /\ Flush(w, Zero, Minus(tx[w].batch), {})
    /\ SetStatus(w, "COMMITTED")
    /\ UNCHANGED <<orderLedger, adminLedger, threshold, invOutbox>>

CommitRelease(w) ==
    /\ tx[w].plan = "release"
    /\ MarkAndCommit(w)
    /\ Flush(w, Plus(tx[w].batch), Minus(tx[w].batch), {})
    /\ FlushOrderLedger(w, 1)
    /\ SetStatus(w, "RELEASED")
    /\ UNCHANGED <<threshold, invOutbox>>

CommitPutBack(w) ==
    /\ tx[w].plan = "putBack"
    /\ MarkAndCommit(w)
    /\ Flush(w, Plus(tx[w].batch), Zero, {})
    /\ FlushOrderLedger(w, 1)
    /\ SetStatus(w, "RELEASED")
    /\ UNCHANGED <<threshold, invOutbox>>

CommitExpire(w) ==
    /\ tx[w].plan = "expire"
    /\ MarkAndCommit(w)
    /\ Flush(w, Plus(tx[w].batch), Minus(tx[w].batch), {})
    /\ FlushOrderLedger(w, 1)
    /\ SetStatus(w, "EXPIRED")
    /\ UNCHANGED <<threshold, invOutbox>>

\* upsert_stock_item and adjust_stock on the one row they loaded; t is the
\* threshold it ends up with.
AdminDelta(w) ==
    [p \in Products |->
        IF p \notin DOMAIN tx[w].loaded THEN 0
        ELSE IF tx[w].kind = "adjust" THEN tx[w].quantity - tx[w].loaded[p].available
        ELSE tx[w].quantity]

CommitAdmin(w, t) ==
    LET da == AdminDelta(w) IN
    /\ tx[w].kind \in {"upsert", "restock", "adjust"}
    /\ \A p \in DOMAIN tx[w].loaded : tx[w].loaded[p].available + da[p] <= MaxSupply
    /\ MarkAndCommit(w)
    /\ threshold' = [p \in Products |->
                        IF p \in DOMAIN tx[w].loaded THEN t ELSE threshold[p]]
    /\ Flush(w, da, Zero, IF tx[w].kind = "adjust" THEN LowRows(w, da) ELSE {})
    /\ adminLedger' = [p \in Products |-> adminLedger[p] + da[p]]
    /\ UNCHANGED <<orderLedger, reservation, invOutbox>>

-----------------------------------------------------------------------------

TxInit ==
    /\ InvInit
    /\ handled = {}
    /\ tx = [w \in Workers |-> NoTx]
    /\ rowLock = [p \in Products |-> Nobody]
    /\ resLock = [o \in Orders |-> Nobody]

TxNext ==
    \E w \in Workers :
        \/ \E e \in Deliverable : BeginEvent(w, e)
        \/ LookupReservation(w)
        \/ LockReservation(w)
        \/ \E S \in SUBSET Orders : \E nth \in [S -> 1 .. SweepBatch] :
               SelectStale(w, S, nth)
        \/ \E k \in {"upsert", "adjust"}, p \in Products, n \in Quantities :
               BeginAdmin(w, k, p, n)
        \/ LockRow(w)
        \/ Abort(w)
        \/ CommitNothing(w)
        \/ CommitReserveFails(w)
        \/ CommitReserveHolds(w)
        \/ CommitCommit(w)
        \/ CommitRelease(w)
        \/ CommitPutBack(w)
        \/ CommitExpire(w)
        \/ \E t \in Thresholds : CommitAdmin(w, t)

TxSpec == TxInit /\ [][TxNext]_allVars

\* The same with the one route that reads a stock row before it locks it.
RestockNext ==
    \/ TxNext
    \/ \E w \in Workers :
           \/ \E p \in Products, n \in Quantities \ {0} : BeginRestock(w, p, n)
           \/ LoadUnlocked(w)

RestockSpec == TxInit /\ [][RestockNext]_allVars

-----------------------------------------------------------------------------

\* A lock has an owner with an open transaction.
TxTypeOK ==
    /\ InvTypeOK
    /\ handled \subseteq Envelope
    /\ \A p \in Products : rowLock[p] = Nobody \/ tx[rowLock[p]] # NoTx
    /\ \A o \in Orders : resLock[o] = Nobody \/ tx[resLock[o]] # NoTx

\* The instance a session will write back is the committed row: once a
\* transaction holds a stock row's lock, what it loaded is not stale.
LockedRowIsCurrent ==
    \A w \in Workers : \A p \in DOMAIN tx[w].loaded :
        rowLock[p] = w =>
            tx[w].loaded[p] = [available |-> available[p], reserved |-> reserved[p]]

\* The locks that w's next statement may have to wait for belong to these
\* workers.
Blockers(w) ==
    CASE tx[w].pc = "lockRows" -> {rowLock[l.product] : l \in {k \in tx[w].queue : IsNext(w, k)}}
      [] tx[w].pc = "lockReservation" -> {resLock[tx[w].event.order]}
      [] OTHER -> {}

WaitsForItself(W) == W # {} /\ \A w \in W : Blockers(w) \cap (W \ {w}) # {}

\* The transactions that take several stock rows in one statement, or only one.
OrderedKinds == {"reserve", "upsert", "adjust"}

\* Every deadlock has a part in it for a transaction that walks through the
\* lines of a reservation: reserves that overlap, and the admin's updates between
\* them, never wait for each other in a circle (services.py:77-81).
ReservesNeverCycle ==
    \A W \in SUBSET Workers :
        WaitsForItself(W) => \E w \in W : tx[w].kind \notin OrderedKinds

\* "it never happens", said of all of the service's transactions.  commit, release
\* and the sweeper lock row by row, so it does; no run checks this.
NoLockCycle == \A W \in SUBSET Workers : ~WaitsForItself(W)
=============================================================================
