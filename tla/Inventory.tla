------------------------------ MODULE Inventory ------------------------------
(***************************************************************************)
(* The inventory service at the granularity of its database transactions:  *)
(* every action is one committed transaction of InventoryService           *)
(* (services/inventory/app/services.py).  It is what the service promises  *)
(* about stock; InventoryTx breaks the same operations into the statements *)
(* the code really issues and is checked to implement this module.         *)
(***************************************************************************)
EXTENDS Events, Integers, FiniteSets

CONSTANTS
    Products,            \* product ids
    Wanted,              \* Wanted[o][p]: units of p the lines of order o add up to
    Stocked,             \* products that already have a stock row at the start,
    InitialStock,        \* and the units an admin created it with
    Quantities,          \* quantities an admin may restock or count
    MaxSupply,           \* bound: units of one product an admin leaves available
    SweepBatch,          \* settings.sweeper_batch_size
    Thresholds,          \* thresholds an admin may set, and
    DefaultThreshold     \* settings.default_low_stock_threshold

ASSUME OrdersFinite     == IsFiniteSet(Orders)
ASSUME WantedType       == Wanted \in [Orders -> [Products -> Nat]]
ASSUME OrdersNotEmpty   == \A o \in Orders : \E p \in Products : Wanted[o][p] > 0
ASSUME StockedType      == Stocked \subseteq Products /\ InitialStock \in [Products -> Nat]
ASSUME QuantitiesType   == Quantities \subseteq Nat
ASSUME ThresholdsType   == Thresholds \subseteq Nat /\ DefaultThreshold \in Thresholds
ASSUME BoundsType       == MaxSupply \in Nat /\ SweepBatch \in Nat \ {0}

VARIABLES
    tracked,       \* products that have a stock_items row
    available,     \* stock_items.available_qty
    reserved,      \* stock_items.reserved_qty
    reservation,   \* reservations.status by order, "NONE" when there is no row
    orderLedger,   \* sum of stock_ledger.delta by ref_order_id and product
    adminLedger,   \* sum of stock_ledger.delta with no ref_order_id, by product
    threshold,     \* stock_items.low_stock_threshold
    announced,     \* the row as the newest inventory.stock_changed carries it,
                   \* and whether inventory.low_stock was enqueued with it
    invOutbox      \* order-scoped events ever enqueued by this service

stockVars == <<tracked, available, reserved, orderLedger, adminLedger,
               threshold, announced>>
invVars   == <<stockVars, reservation, invOutbox>>

ReservationStatus == {"HELD", "COMMITTED", "RELEASED", "EXPIRED"}

\* The products that appear in the order's lines.
Items(o) == {p \in Products : Wanted[o][p] > 0}

OrdersIn(status) == {o \in Orders : reservation[o] = status}

\* The physical units that the orders in O ask of product p, one element per
\* unit, so that counting the set adds up the quantities.
UnitsOf(O, p) == UNION {{o} \X (1 .. Wanted[o][p]) : o \in O}
Units(O, p)   == Cardinality(UnitsOf(O, p))

\* _publish_stock_changed for the rows P, after they were written, with
\* low_stock for those in Low.
PublishStockChanged(P, Low) ==
    announced' = [p \in Products |->
        IF p \in P THEN [available |-> available'[p], reserved |-> reserved'[p],
                         low |-> p \in Low]
                   ELSE announced[p]]

\* Mutant of MaybePublishLowStock: a row exactly at its threshold is not low.
LowStockStrictly(P) == {p \in P : available'[p] < threshold'[p]}

\* _maybe_publish_low_stock: the rows of P for which it publishes (is_low).
MaybePublishLowStock(P) == {p \in P : available'[p] <= threshold'[p]}

-----------------------------------------------------------------------------

\* available_qty of a row as it was created, 0 while there is no row.
Created(p) == IF p \in Stocked THEN InitialStock[p] ELSE 0

InvInit ==
    /\ tracked = Stocked
    /\ available   = [p \in Products |-> Created(p)]
    /\ reserved    = [p \in Products |-> 0]
    /\ reservation = [o \in Orders |-> "NONE"]
    /\ orderLedger = [o \in Orders |-> [p \in Products |-> 0]]
    /\ adminLedger = [p \in Products |-> Created(p)]
    /\ threshold   = [p \in Products |-> DefaultThreshold]
    /\ announced   = [p \in Products |-> [available |-> Created(p), reserved |-> 0,
                                          low |-> FALSE]]
    /\ invOutbox = {}

Insufficient(o) == {p \in Items(o) : p \notin tracked \/ available[p] < Wanted[o][p]}

\* Mutants of ReserveFails: the failure is never published, or published as a
\* success.
ReserveFailsSilently(o) ==
    /\ reservation[o] = "NONE"
    /\ Insufficient(o) # {}
    /\ UNCHANGED invVars
ReserveFailsAsReserved(o) ==
    /\ reservation[o] = "NONE"
    /\ Insufficient(o) # {}
    /\ invOutbox' = invOutbox \cup {Event(INVENTORY_RESERVED, o)}
    /\ UNCHANGED <<stockVars, reservation>>

\* reserve, out of stock: nothing is set aside, the failure is published.
ReserveFails(o) ==
    /\ reservation[o] = "NONE"
    /\ Insufficient(o) # {}
    /\ invOutbox' = invOutbox \cup {Event(INVENTORY_RESERVATION_FAILED, o)}
    /\ UNCHANGED <<stockVars, reservation>>

\* reserve, all lines available: every line moves to reserved, or none does.
ReserveHolds(o) ==
    /\ reservation[o] = "NONE"
    /\ Insufficient(o) = {}
    /\ reservation' = [reservation EXCEPT ![o] = "HELD"]
    /\ available'   = [p \in Products |-> available[p] - Wanted[o][p]]
    /\ reserved'    = [p \in Products |-> reserved[p] + Wanted[o][p]]
    /\ orderLedger' = [orderLedger EXCEPT
                          ![o] = [p \in Products |-> @[p] - Wanted[o][p]]]
    /\ UNCHANGED threshold
    /\ PublishStockChanged(Items(o), MaybePublishLowStock(Items(o)))
    /\ invOutbox' = invOutbox \cup {Event(INVENTORY_RESERVED, o)}
    /\ UNCHANGED <<tracked, adminLedger>>

Reserve(o) == ReserveFails(o) \/ ReserveHolds(o)

\* Mutants of CommitReservation: stock_changed forgotten; a status that is not
\* one of ReservationStatus.
CommitUnannounced(o) ==
    /\ reservation[o] = "HELD"
    /\ reservation' = [reservation EXCEPT ![o] = "COMMITTED"]
    /\ reserved' = [p \in Products |-> reserved[p] - Wanted[o][p]]
    /\ UNCHANGED <<tracked, available, orderLedger, adminLedger, threshold, announced,
                   invOutbox>>

CommitAsConfirmed(o) ==
    /\ reservation[o] = "HELD"
    /\ reservation' = [reservation EXCEPT ![o] = "CONFIRMED"]
    /\ UNCHANGED <<stockVars, invOutbox>>

\* commit_reservation: the held units leave the building.  A reservation that
\* is missing, already committed, released or expired is left as it is.
CommitReservation(o) ==
    \/ /\ reservation[o] = "HELD"
       /\ reservation' = [reservation EXCEPT ![o] = "COMMITTED"]
       /\ reserved' = [p \in Products |-> reserved[p] - Wanted[o][p]]
       /\ UNCHANGED available
       /\ PublishStockChanged(Items(o), {})
       /\ UNCHANGED <<tracked, orderLedger, adminLedger, threshold, invOutbox>>
    \/ /\ reservation[o] # "HELD"
       /\ UNCHANGED invVars

\* Mutant of ReturnToShelf: no ledger row.
ReturnUnbooked(S) ==
    /\ available' = [p \in Products |-> available[p] + Units(S, p)]
    /\ UNCHANGED <<tracked, orderLedger, adminLedger, threshold, invOutbox>>

\* Units of the orders in S return to available, and to the ledger of each.
ReturnToShelf(S) ==
    /\ available'   = [p \in Products |-> available[p] + Units(S, p)]
    /\ orderLedger' = [o \in Orders |->
          IF o \in S THEN [p \in Products |-> orderLedger[o][p] + Wanted[o][p]]
                     ELSE orderLedger[o]]
    /\ UNCHANGED <<tracked, adminLedger, threshold, invOutbox>>

\* release_reservation of held units: back on the shelf.
ReleaseHeld(o) ==
    /\ reservation[o] = "HELD"
    /\ reservation' = [reservation EXCEPT ![o] = "RELEASED"]
    /\ ReturnToShelf({o})
    /\ reserved' = [p \in Products |-> reserved[p] - Wanted[o][p]]
    /\ PublishStockChanged(Items(o), {})

\* Mutant of RestockCommitted: treats the units as still held.
RestockAsRelease(o) ==
    /\ reservation[o] = "COMMITTED"
    /\ reservation' = [reservation EXCEPT ![o] = "RELEASED"]
    /\ ReturnToShelf({o})
    /\ reserved' = [p \in Products |-> reserved[p] - Wanted[o][p]]
    /\ PublishStockChanged(Items(o), {})

\* release_reservation of committed units: _restock_committed.
RestockCommitted(o) ==
    /\ reservation[o] = "COMMITTED"
    /\ reservation' = [reservation EXCEPT ![o] = "RELEASED"]
    /\ ReturnToShelf({o})
    /\ UNCHANGED reserved
    /\ PublishStockChanged(Items(o), {})

\* Mutants of ReleaseReservation: an expired reservation is released again; a
\* committed one is left alone.
ReleaseAgain(o) ==
    \/ ReleaseHeld(o)
    \/ RestockCommitted(o)
    \/ /\ reservation[o] = "EXPIRED"
       /\ reservation' = [reservation EXCEPT ![o] = "RELEASED"]
       /\ ReturnToShelf({o})
       /\ UNCHANGED reserved
       /\ PublishStockChanged(Items(o), {})
ReleaseOnlyHeld(o) == ReleaseHeld(o) \/ (reservation[o] # "HELD" /\ UNCHANGED invVars)

\* release_reservation: a missing or already released reservation is a no-op.
ReleaseReservation(o) ==
    \/ ReleaseHeld(o)
    \/ RestockCommitted(o)
    \/ /\ reservation[o] \notin {"HELD", "COMMITTED"}
       /\ UNCHANGED invVars

\* Mutants of ExpireStaleReservations: the status is not filtered; the sweeper
\* waits for a full batch.
ExpireAny(S) ==
    /\ S # {}
    /\ \A o \in S : reservation[o] # "NONE"
    /\ reservation' = [o \in Orders |-> IF o \in S THEN "EXPIRED" ELSE reservation[o]]
    /\ UNCHANGED <<stockVars, invOutbox>>
ExpireFullBatch(S) ==
    /\ S \subseteq OrdersIn("HELD")
    /\ Cardinality(S) = SweepBatch
    /\ reservation' = [o \in Orders |-> IF o \in S THEN "EXPIRED" ELSE reservation[o]]
    /\ ReturnToShelf(S)
    /\ reserved' = [p \in Products |-> reserved[p] - Units(S, p)]
    /\ PublishStockChanged(UNION {Items(o) : o \in S}, {})

\* expire_stale_reservations: one transaction expires a batch.  Time is
\* abstracted: any held reservation may be past its expires_at, and rows
\* another sweeper has locked are skipped, so the batch is any subset.
ExpireStaleReservations(S) ==
    /\ S \subseteq OrdersIn("HELD")
    /\ S # {}
    /\ Cardinality(S) <= SweepBatch
    /\ reservation' = [o \in Orders |-> IF o \in S THEN "EXPIRED" ELSE reservation[o]]
    /\ ReturnToShelf(S)
    /\ reserved' = [p \in Products |-> reserved[p] - Units(S, p)]
    /\ PublishStockChanged(UNION {Items(o) : o \in S}, {})

\* upsert_stock_item: creates the row, or adds to it.  t is the threshold the
\* row ends up with: the request's, or the one it had (the default if new).
UpsertStockItem(p, quantity, t) ==
    /\ available[p] + quantity <= MaxSupply
    /\ tracked' = tracked \cup {p}
    /\ available' = [available EXCEPT ![p] = @ + quantity]
    /\ adminLedger' = [adminLedger EXCEPT ![p] = @ + quantity]
    /\ threshold' = [threshold EXCEPT ![p] = t]
    /\ UNCHANGED reserved
    /\ PublishStockChanged({p}, {})
    /\ UNCHANGED <<reservation, orderLedger, invOutbox>>

\* adjust_stock: an absolute count; the ledger records the signed difference.
AdjustStock(p, counted, t) ==
    /\ p \in tracked
    /\ counted <= MaxSupply
    /\ available' = [available EXCEPT ![p] = counted]
    /\ adminLedger' = [adminLedger EXCEPT ![p] = @ + (counted - available[p])]
    /\ threshold' = [threshold EXCEPT ![p] = t]
    /\ UNCHANGED reserved
    /\ PublishStockChanged({p}, MaybePublishLowStock({p}))
    /\ UNCHANGED <<tracked, reservation, orderLedger, invOutbox>>

\* Mutant of Decided: a refused order may be asked for again.
DecidedByReservation(o) == Event(INVENTORY_RESERVED, o) \in invOutbox

\* order.created is handled once: its outcome has been published.
Decided(o) == \/ Event(INVENTORY_RESERVED, o) \in invOutbox
              \/ Event(INVENTORY_RESERVATION_FAILED, o) \in invOutbox

InvNext ==
    \/ \E o \in Orders : ~Decided(o) /\ Reserve(o)
    \/ \E o \in Orders : CommitReservation(o)
    \/ \E o \in Orders : ReleaseReservation(o)
    \/ \E S \in SUBSET Orders : ExpireStaleReservations(S)
    \/ \E p \in Products, n \in Quantities, t \in Thresholds : UpsertStockItem(p, n, t)
    \/ \E p \in Products, n \in Quantities, t \in Thresholds : AdjustStock(p, n, t)

InvSpec == InvInit /\ [][InvNext]_invVars

\* The sweeper loop (sweeper.main) never stops while the process lives.
InvFairSpec ==
    InvSpec /\ WF_invVars(\E S \in SUBSET Orders : ExpireStaleReservations(S))

-----------------------------------------------------------------------------

InvTypeOK ==
    /\ tracked \subseteq Products
    /\ available   \in [Products -> Int]
    /\ reserved    \in [Products -> Int]
    /\ reservation \in [Orders -> ReservationStatus \cup {"NONE"}]
    /\ orderLedger \in [Orders -> [Products -> Int]]
    /\ adminLedger \in [Products -> Int]
    /\ threshold   \in [Products -> Nat]
    /\ announced   \in [Products -> [available : Int, reserved : Int, low : BOOLEAN]]
    /\ invOutbox \subseteq Envelope

\* stock_items.reserved_qty of a product is exactly what the HELD reservations
\* hold of it: no release, commit, expiry or restock leaks or double-returns
\* units, in whatever order they reach a reservation.
ReservedIsHeld == \A p \in Products : reserved[p] = Units(OrdersIn("HELD"), p)

\* Nothing is oversold and nothing is invented: the units on the shelf and the
\* units promised to held or committed orders are together the units that the
\* admins' ledger rows brought in.
UnitsConserved ==
    \A p \in Products :
        available[p] + Units(OrdersIn("HELD") \cup OrdersIn("COMMITTED"), p) = adminLedger[p]

\* The CHECK constraints of stock_items never fire: no legal sequence of
\* operations drives either counter below zero.
NeverNegative == \A p \in Products : available[p] >= 0 /\ reserved[p] >= 0

\* The ledger rows of one order cancel out once its reservation is released or
\* expired, and sum to minus what it took while it is held or committed.
LedgerNetsPerOrder ==
    \A o \in Orders, p \in Products :
        orderLedger[o][p] =
            IF reservation[o] \in {"HELD", "COMMITTED"} THEN -Wanted[o][p] ELSE 0

\* The newest inventory.stock_changed always describes the row as it is, so a
\* read model that applies the events in order ends up with the truth.
AnnouncedIsCurrent ==
    \A p \in Products : /\ announced[p].available = available[p]
                         /\ announced[p].reserved = reserved[p]

\* No sale and no count passes the alarm by: a transaction that takes units of
\* a product and leaves it at or below its threshold enqueues low_stock.
LowStockNotMissed ==
    [][\A p \in Products :
         available'[p] < available[p] /\ available'[p] <= threshold'[p]
            => announced'[p].low]_invVars

\* An order gets one answer: inventory.reserved exactly when it has a
\* reservation, and then never inventory.reservation_failed.
OneAnswer ==
    \A o \in Orders :
        /\ Event(INVENTORY_RESERVED, o) \in invOutbox <=> reservation[o] # "NONE"
        /\ Event(INVENTORY_RESERVATION_FAILED, o) \in invOutbox => reservation[o] = "NONE"

\* A reservation only moves forward: HELD to COMMITTED, RELEASED or EXPIRED,
\* COMMITTED to RELEASED; returned units are never handed out again for the
\* same order.
ReservationLifecycle ==
    [][\A o \in Orders :
         reservation'[o] # reservation[o] =>
            <<reservation[o], reservation'[o]>> \in
                {<<"NONE", "HELD">>, <<"HELD", "COMMITTED">>, <<"HELD", "RELEASED">>,
                 <<"HELD", "EXPIRED">>, <<"COMMITTED", "RELEASED">>}]_invVars

\* Stock is never stranded: a held reservation is eventually committed,
\* released or expired, even if every other service stops.
HoldsEnd == \A o \in Orders : reservation[o] = "HELD" ~> reservation[o] # "HELD"
=============================================================================
