--------------------------- MODULE InventoryProofs ---------------------------
(***************************************************************************)
(* What Inventory promises, for every set of orders and products and every *)
(* demand.  The units an order asks for are counted as set elements        *)
(* (UnitsOf), so that the arithmetic of a batch rests on the library's     *)
(* theorems about cardinality.                                             *)
(***************************************************************************)
EXTENDS Inventory, FiniteSetTheorems, TLAPS

-----------------------------------------------------------------------------
(* Counting units *)

\* A row of n pairs has n elements.
LEMMA RowOfUnits ==
    ASSUME NEW o, NEW n \in Nat
    PROVE  IsFiniteSet({o} \X (1 .. n)) /\ Cardinality({o} \X (1 .. n)) = n
  <1>1. IsFiniteSet(1 .. n) /\ Cardinality(1 .. n) = IF 1 > n THEN 0 ELSE n - 1 + 1
    <2>1. 1 \in Int /\ n \in Int
      OBVIOUS
    <2>2. QED
      BY <2>1, FS_Interval, Zenon
  <1>2. Cardinality(1 .. n) = n
    BY <1>1
  <1>3. IsFiniteSet({o}) /\ Cardinality({o}) = 1
    BY FS_Singleton
  <1>4. /\ IsFiniteSet({o} \X (1 .. n))
        /\ Cardinality({o} \X (1 .. n)) = Cardinality({o}) * Cardinality(1 .. n)
    BY <1>1, <1>3, FS_Product, Zenon
  <1>5. Cardinality({o}) * Cardinality(1 .. n) = n
    BY <1>2, <1>3
  <1>6. QED
    BY <1>4, <1>5

\* The units of one order are as many as its quantity.
LEMMA UnitsOfOne ==
    ASSUME NEW o \in Orders, NEW p \in Products
    PROVE  /\ IsFiniteSet({o} \X (1 .. Wanted[o][p]))
           /\ Cardinality({o} \X (1 .. Wanted[o][p])) = Wanted[o][p]
  <1>1. Wanted[o][p] \in Nat
    BY WantedType
  <1>2. QED
    BY <1>1, RowOfUnits

\* The units of any set of orders are finitely many.
LEMMA UnitsFinite ==
    ASSUME NEW O \in SUBSET Orders, NEW p \in Products
    PROVE  IsFiniteSet(UnitsOf(O, p)) /\ Units(O, p) \in Nat
  <1> DEFINE lines == {{o} \X (1 .. Wanted[o][p]) : o \in O}
             f == [o \in O |-> {o} \X (1 .. Wanted[o][p])]
  <1>1. IsFiniteSet(O)
    BY OrdersFinite, FS_Subset
  <1>2. f \in Surjection(O, lines)
    BY DEF Surjection
  <1>3. IsFiniteSet(lines)
    BY <1>1, <1>2, FS_Surjection
  <1>4. \A u \in lines : IsFiniteSet(u)
    BY UnitsOfOne
  <1>5. IsFiniteSet(UNION lines)
    BY <1>3, <1>4, FS_UNION
  <1>6. QED
    BY <1>5, FS_CardinalityType DEF UnitsOf, Units

LEMMA UnitsSingle ==
    ASSUME NEW o \in Orders, NEW p \in Products
    PROVE  Units({o}, p) = Wanted[o][p]
  <1>1. UnitsOf({o}, p) = {o} \X (1 .. Wanted[o][p])
    BY DEF UnitsOf
  <1>2. QED
    BY <1>1, UnitsOfOne DEF Units

LEMMA UnitsNone ==
    ASSUME NEW p \in Products
    PROVE  Units({}, p) = 0
  <1>1. UnitsOf({}, p) = {}
    BY DEF UnitsOf
  <1>2. QED
    BY <1>1, FS_EmptySet DEF Units

\* Disjoint sets of orders have disjoint units: quantities add up.
LEMMA UnitsAddUp ==
    ASSUME NEW A \in SUBSET Orders, NEW B \in SUBSET Orders, A \cap B = {},
           NEW p \in Products
    PROVE  Units(A \cup B, p) = Units(A, p) + Units(B, p)
  <1>1. UnitsOf(A \cup B, p) = UnitsOf(A, p) \cup UnitsOf(B, p)
    BY DEF UnitsOf
  <1>2. UnitsOf(A, p) \cap UnitsOf(B, p) = {}
    BY DEF UnitsOf
  <1>3. IsFiniteSet(UnitsOf(A, p)) /\ IsFiniteSet(UnitsOf(B, p))
    BY UnitsFinite
  <1>4. Cardinality(UnitsOf(A, p)) \in Nat /\ Cardinality(UnitsOf(B, p)) \in Nat
    BY <1>3, FS_CardinalityType
  <1>5. Cardinality(UnitsOf(A, p) \cup UnitsOf(B, p)) =
            Cardinality(UnitsOf(A, p)) + Cardinality(UnitsOf(B, p)) - Cardinality({})
    BY <1>2, <1>3, FS_Union
  <1>6. QED
    BY <1>1, <1>4, <1>5, FS_EmptySet DEF Units

\* Taking a subset away subtracts its units.
LEMMA UnitsTakeAway ==
    ASSUME NEW A \in SUBSET Orders, NEW S \in SUBSET A, NEW p \in Products
    PROVE  /\ Units(A \ S, p) = Units(A, p) - Units(S, p)
           /\ Units(A, p) \in Nat /\ Units(S, p) \in Nat /\ Units(A \ S, p) \in Nat
  <1>1. /\ Units(A, p) \in Nat /\ Units(S, p) \in Nat /\ Units(A \ S, p) \in Nat
    BY UnitsFinite
  <1>2. A = (A \ S) \cup S /\ (A \ S) \cap S = {}
    OBVIOUS
  <1>3. Units((A \ S) \cup S, p) = Units(A \ S, p) + Units(S, p)
    BY <1>2, UnitsAddUp
  <1>4. QED
    BY <1>1, <1>2, <1>3

-----------------------------------------------------------------------------
(* Type correctness *)

LEMMA EventsAreEnvelopes ==
    ASSUME NEW o \in Orders, NEW t \in Topics
    PROVE  Event(t, o) \in Envelope
  BY DEF Event, Envelope

\* Publishing well-typed rows keeps the record of what was announced well typed.
LEMMA AnnouncedType ==
    ASSUME NEW P, NEW Low, PublishStockChanged(P, Low),
           announced \in [Products -> [available : Int, reserved : Int, low : BOOLEAN]],
           available' \in [Products -> Int], reserved' \in [Products -> Int]
    PROVE  announced' \in [Products -> [available : Int, reserved : Int, low : BOOLEAN]]
  <1>1. ASSUME NEW p \in Products
        PROVE  [available |-> available'[p], reserved |-> reserved'[p], low |-> p \in Low]
                 \in [available : Int, reserved : Int, low : BOOLEAN]
    <2>1. available'[p] \in Int /\ reserved'[p] \in Int /\ (p \in Low) \in BOOLEAN
      OBVIOUS
    <2>2. QED
      BY <2>1, Zenon
  <1>2. QED
    BY <1>1 DEF PublishStockChanged

\* Every operation of the inventory service keeps its tables well typed.
LEMMA InvTypeStep ==
    ASSUME InvTypeOK, [InvNext]_invVars
    PROVE  InvTypeOK'
  <1> USE DEF InvTypeOK, ReservationStatus
  <1>1. ASSUME NEW o \in Orders, ReserveFails(o)
        PROVE  InvTypeOK'
    <2>1. Event(INVENTORY_RESERVATION_FAILED, o) \in Envelope
      BY EventsAreEnvelopes DEF Topics
    <2>2. QED
      BY <1>1, <2>1 DEF ReserveFails, stockVars
  <1>2. ASSUME NEW o \in Orders, ReserveHolds(o)
        PROVE  InvTypeOK'
    <2>1. Event(INVENTORY_RESERVED, o) \in Envelope
      BY EventsAreEnvelopes DEF Topics
    <2>2. \A p \in Products : Wanted[o][p] \in Nat
      BY WantedType
    <2>3. available' \in [Products -> Int] /\ reserved' \in [Products -> Int]
      BY <1>2, <2>2 DEF ReserveHolds
    <2>4. orderLedger' \in [Orders -> [Products -> Int]]
      BY <1>2, <2>2 DEF ReserveHolds
    <2>5. announced' \in [Products -> [available : Int, reserved : Int, low : BOOLEAN]]
      BY AnnouncedType, <1>2, <2>3 DEF ReserveHolds
    <2>6. QED
      BY <1>2, <2>1, <2>3, <2>4, <2>5 DEF ReserveHolds
  <1>3. ASSUME NEW o \in Orders, CommitReservation(o)
        PROVE  InvTypeOK'
    <2>1. \A p \in Products : Wanted[o][p] \in Nat
      BY WantedType
    <2>2. CASE UNCHANGED invVars
      BY <2>2 DEF invVars, stockVars
    <2>3. CASE reservation[o] = "HELD"
      <3>1. reserved' \in [Products -> Int] /\ available' = available
        BY <1>3, <2>1, <2>3 DEF CommitReservation
      <3>2. announced' \in [Products -> [available : Int, reserved : Int, low : BOOLEAN]]
        BY AnnouncedType, <1>3, <2>3, <3>1 DEF CommitReservation
      <3>3. QED
        BY <1>3, <2>3, <3>1, <3>2 DEF CommitReservation
    <2>4. QED
      BY <1>3, <2>2, <2>3 DEF CommitReservation
  <1>4. ASSUME NEW S \in SUBSET Orders, ReturnToShelf(S)
        PROVE  /\ available' \in [Products -> Int]
               /\ orderLedger' \in [Orders -> [Products -> Int]]
               /\ UNCHANGED <<tracked, adminLedger, threshold, invOutbox>>
    <2>1. \A p \in Products : Units(S, p) \in Nat
      BY UnitsFinite
    <2>2. \A o \in Orders, p \in Products : Wanted[o][p] \in Nat
      BY WantedType
    <2>3. QED
      BY <1>4, <2>1, <2>2 DEF ReturnToShelf
  <1>5. ASSUME NEW o \in Orders, ReleaseReservation(o)
        PROVE  InvTypeOK'
    <2>1. \A p \in Products : Wanted[o][p] \in Nat
      BY WantedType
    <2>2. CASE UNCHANGED invVars
      BY <2>2 DEF invVars, stockVars
    <2>3. CASE ReleaseHeld(o) \/ RestockCommitted(o)
      <3>1. ReturnToShelf({o})
        BY <2>3 DEF ReleaseHeld, RestockCommitted
      <3>2. reserved' \in [Products -> Int]
        BY <2>1, <2>3 DEF ReleaseHeld, RestockCommitted
      <3>3. announced' \in [Products -> [available : Int, reserved : Int, low : BOOLEAN]]
        BY AnnouncedType, <1>4, <2>3, <3>1, <3>2
           DEF ReleaseHeld, RestockCommitted
      <3>4. reservation' \in [Orders -> ReservationStatus \cup {"NONE"}]
        BY <2>3 DEF ReleaseHeld, RestockCommitted
      <3>5. QED
        BY <1>4, <3>1, <3>2, <3>3, <3>4
    <2>4. QED
      BY <1>5, <2>2, <2>3 DEF ReleaseReservation
  <1>6. ASSUME NEW S \in SUBSET Orders, ExpireStaleReservations(S)
        PROVE  InvTypeOK'
    <2>1. \A p \in Products : Units(S, p) \in Nat
      BY UnitsFinite
    <2>2. ReturnToShelf(S)
      BY <1>6 DEF ExpireStaleReservations
    <2>3. reserved' \in [Products -> Int]
      BY <1>6, <2>1 DEF ExpireStaleReservations
    <2>4. announced' \in [Products -> [available : Int, reserved : Int, low : BOOLEAN]]
      BY AnnouncedType, <1>4, <1>6, <2>2, <2>3 DEF ExpireStaleReservations
    <2>5. reservation' \in [Orders -> ReservationStatus \cup {"NONE"}]
      BY <1>6 DEF ExpireStaleReservations
    <2>6. QED
      BY <1>4, <2>2, <2>3, <2>4, <2>5
  <1>7. ASSUME NEW p \in Products, NEW n \in Quantities, NEW t \in Thresholds,
               UpsertStockItem(p, n, t)
        PROVE  InvTypeOK'
    <2>1. n \in Nat /\ t \in Nat
      BY QuantitiesType, ThresholdsType
    <2>2. available' \in [Products -> Int] /\ reserved' = reserved
      BY <1>7, <2>1 DEF UpsertStockItem
    <2>3. announced' \in [Products -> [available : Int, reserved : Int, low : BOOLEAN]]
      BY AnnouncedType, <1>7, <2>2 DEF UpsertStockItem
    <2>4. QED
      BY <1>7, <2>1, <2>2, <2>3 DEF UpsertStockItem
  <1>8. ASSUME NEW p \in Products, NEW n \in Quantities, NEW t \in Thresholds,
               AdjustStock(p, n, t)
        PROVE  InvTypeOK'
    <2>1. n \in Nat /\ t \in Nat
      BY QuantitiesType, ThresholdsType
    <2>2. available' \in [Products -> Int] /\ reserved' = reserved
      BY <1>8, <2>1 DEF AdjustStock
    <2>3. announced' \in [Products -> [available : Int, reserved : Int, low : BOOLEAN]]
      BY AnnouncedType, <1>8, <2>2 DEF AdjustStock
    <2>4. adminLedger' \in [Products -> Int]
      BY <1>8, <2>1 DEF AdjustStock
    <2>5. QED
      BY <1>8, <2>1, <2>2, <2>3, <2>4 DEF AdjustStock
  <1>9. CASE UNCHANGED invVars
    BY <1>9 DEF invVars, stockVars
  <1>10. QED
    BY <1>1, <1>2, <1>3, <1>5, <1>6, <1>7, <1>8, <1>9 DEF InvNext, Reserve

\* The tables of the inventory service stay well typed.
THEOREM InvTypeCorrect == InvSpec => []InvTypeOK
  <1>1. InvInit => InvTypeOK
    BY StockedType, ThresholdsType DEF InvInit, InvTypeOK, Created, ReservationStatus
  <1>2. QED
    BY <1>1, InvTypeStep, PTL DEF InvSpec

-----------------------------------------------------------------------------
(* Stock is conserved *)

\* What the reservations hold or have taken.
Held  == OrdersIn("HELD")
Taken == OrdersIn("HELD") \cup OrdersIn("COMMITTED")

StockInv == ReservedIsHeld /\ UnitsConserved /\ NeverNegative

\* One more order is set aside: both counts grow by what it wants.
LEMMA UnitsOneMore ==
    ASSUME NEW A \in SUBSET Orders, NEW o \in Orders, o \notin A, NEW p \in Products
    PROVE  /\ Units(A \cup {o}, p) = Units(A, p) + Wanted[o][p]
           /\ Units(A, p) \in Nat /\ Wanted[o][p] \in Nat
  <1>1. A \cap {o} = {} /\ {o} \in SUBSET Orders
    OBVIOUS
  <1>2. Units(A \cup {o}, p) = Units(A, p) + Units({o}, p)
    BY <1>1, UnitsAddUp
  <1>3. QED
    BY <1>2, UnitsSingle, UnitsFinite, WantedType

\* One order fewer: both counts drop by what it wants.
LEMMA UnitsOneLess ==
    ASSUME NEW A \in SUBSET Orders, NEW o \in A, NEW p \in Products
    PROVE  /\ Units(A \ {o}, p) = Units(A, p) - Wanted[o][p]
           /\ Units(A, p) \in Nat /\ Wanted[o][p] \in Nat
           /\ Units(A \ {o}, p) \in Nat
  <1>1. {o} \in SUBSET A
    OBVIOUS
  <1>2. /\ Units(A \ {o}, p) = Units(A, p) - Units({o}, p)
        /\ Units(A, p) \in Nat /\ Units(A \ {o}, p) \in Nat
    BY <1>1, UnitsTakeAway
  <1>3. QED
    BY <1>2, UnitsSingle, WantedType

\* Each transaction of the inventory service preserves the stock accounts.
LEMMA StockStep ==
    ASSUME InvTypeOK, StockInv, [InvNext]_invVars
    PROVE  StockInv'
  <1> USE DEF InvTypeOK
  <1>a. Held \in SUBSET Orders /\ Taken \in SUBSET Orders
    BY DEF Held, Taken, OrdersIn
  <1>b. \A p \in Products : /\ reserved[p] = Units(Held, p)
                            /\ available[p] + Units(Taken, p) = adminLedger[p]
                            /\ available[p] >= 0 /\ available[p] \in Int
                            /\ adminLedger[p] \in Int
    BY DEF StockInv, ReservedIsHeld, UnitsConserved, NeverNegative, Held, Taken
  \* The goal, for the sets of orders that hold and have taken units afterwards.
  <1>c. ASSUME NEW H \in SUBSET Orders, NEW T \in SUBSET Orders,
               Held' = H, Taken' = T,
               \A p \in Products : /\ reserved'[p] = Units(H, p)
                                   /\ available'[p] + Units(T, p) = adminLedger'[p]
                                   /\ available'[p] >= 0
        PROVE  StockInv'
    <2>1. \A p \in Products : Units(H, p) >= 0
      BY UnitsFinite
    <2>2. QED
      BY <1>c, <2>1 DEF StockInv, ReservedIsHeld, UnitsConserved, NeverNegative,
                        Held, Taken, Units, UnitsOf
  <1>1. ASSUME NEW o \in Orders, ReserveFails(o)
        PROVE  StockInv'
    <2>1. Held' = Held /\ Taken' = Taken
      BY <1>1 DEF ReserveFails, Held, Taken, OrdersIn
    <2>2. QED
      BY <1>1, <1>a, <1>b, <1>c, <2>1 DEF ReserveFails, stockVars
  <1>2. ASSUME NEW o \in Orders, ReserveHolds(o)
        PROVE  StockInv'
    <2>1. /\ Held' = Held \cup {o} /\ Taken' = Taken \cup {o}
          /\ o \notin Held /\ o \notin Taken
      BY <1>2 DEF ReserveHolds, Held, Taken, OrdersIn
    <2>2. ASSUME NEW p \in Products
          PROVE  /\ reserved'[p] = Units(Held \cup {o}, p)
                 /\ available'[p] + Units(Taken \cup {o}, p) = adminLedger'[p]
                 /\ available'[p] >= 0
      <3>1. /\ Units(Held \cup {o}, p) = Units(Held, p) + Wanted[o][p]
            /\ Units(Taken \cup {o}, p) = Units(Taken, p) + Wanted[o][p]
            /\ Units(Held, p) \in Nat /\ Units(Taken, p) \in Nat /\ Wanted[o][p] \in Nat
        BY <1>a, <2>1, UnitsOneMore
      <3>2. /\ reserved'[p] = reserved[p] + Wanted[o][p]
            /\ available'[p] = available[p] - Wanted[o][p]
            /\ adminLedger' = adminLedger
        BY <1>2 DEF ReserveHolds
      <3>3. Wanted[o][p] > 0 => available[p] >= Wanted[o][p]
        BY <1>2, <1>b, <3>1 DEF ReserveHolds, Insufficient, Items
      <3>4. QED
        BY <1>b, <3>1, <3>2, <3>3
    <2>3. QED
      BY <1>a, <1>c, <2>1, <2>2
  <1>3. ASSUME NEW o \in Orders, CommitReservation(o), reservation[o] = "HELD"
        PROVE  StockInv'
    <2>1. Held' = Held \ {o} /\ Taken' = Taken /\ o \in Held
      BY <1>3 DEF CommitReservation, Held, Taken, OrdersIn
    <2>2. ASSUME NEW p \in Products
          PROVE  /\ reserved'[p] = Units(Held \ {o}, p)
                 /\ available'[p] + Units(Taken, p) = adminLedger'[p]
                 /\ available'[p] >= 0
      <3>1. Units(Held \ {o}, p) = Units(Held, p) - Wanted[o][p]
        BY <1>a, <2>1, UnitsOneLess
      <3>2. /\ reserved'[p] = reserved[p] - Wanted[o][p]
            /\ available' = available /\ adminLedger' = adminLedger
        BY <1>3 DEF CommitReservation
      <3>3. QED
        BY <1>b, <3>1, <3>2
    <2>3. QED
      BY <1>a, <1>c, <2>1, <2>2
  <1>4. ASSUME NEW o \in Orders, ReleaseHeld(o)
        PROVE  StockInv'
    <2>1. Held' = Held \ {o} /\ Taken' = Taken \ {o} /\ o \in Held /\ o \in Taken
      BY <1>4 DEF ReleaseHeld, Held, Taken, OrdersIn
    <2>2. ASSUME NEW p \in Products
          PROVE  /\ reserved'[p] = Units(Held \ {o}, p)
                 /\ available'[p] + Units(Taken \ {o}, p) = adminLedger'[p]
                 /\ available'[p] >= 0
      <3>1. /\ Units(Held \ {o}, p) = Units(Held, p) - Wanted[o][p]
            /\ Units(Taken \ {o}, p) = Units(Taken, p) - Wanted[o][p]
            /\ Units(Taken, p) \in Nat /\ Wanted[o][p] \in Nat
        BY <1>a, <2>1, UnitsOneLess
      <3>2. /\ reserved'[p] = reserved[p] - Wanted[o][p]
            /\ available'[p] = available[p] + Wanted[o][p]
            /\ adminLedger' = adminLedger
        BY <1>4, UnitsSingle DEF ReleaseHeld, ReturnToShelf
      <3>3. QED
        BY <1>b, <3>1, <3>2
    <2>3. QED
      BY <1>a, <1>c, <2>1, <2>2
  <1>5. ASSUME NEW o \in Orders, RestockCommitted(o)
        PROVE  StockInv'
    <2>1. Held' = Held /\ Taken' = Taken \ {o} /\ o \in Taken
      BY <1>5 DEF RestockCommitted, Held, Taken, OrdersIn
    <2>2. ASSUME NEW p \in Products
          PROVE  /\ reserved'[p] = Units(Held, p)
                 /\ available'[p] + Units(Taken \ {o}, p) = adminLedger'[p]
                 /\ available'[p] >= 0
      <3>1. /\ Units(Taken \ {o}, p) = Units(Taken, p) - Wanted[o][p]
            /\ Units(Taken, p) \in Nat /\ Wanted[o][p] \in Nat
        BY <1>a, <2>1, UnitsOneLess
      <3>2. /\ reserved' = reserved
            /\ available'[p] = available[p] + Wanted[o][p]
            /\ adminLedger' = adminLedger
        BY <1>5, UnitsSingle DEF RestockCommitted, ReturnToShelf
      <3>3. QED
        BY <1>b, <3>1, <3>2
    <2>3. QED
      BY <1>a, <1>c, <2>1, <2>2
  <1>6. ASSUME NEW S \in SUBSET Orders, ExpireStaleReservations(S)
        PROVE  StockInv'
    <2>1. /\ Held' = Held \ S /\ Taken' = Taken \ S
          /\ S \in SUBSET Held /\ S \in SUBSET Taken
      BY <1>6 DEF ExpireStaleReservations, Held, Taken, OrdersIn
    <2>2. ASSUME NEW p \in Products
          PROVE  /\ reserved'[p] = Units(Held \ S, p)
                 /\ available'[p] + Units(Taken \ S, p) = adminLedger'[p]
                 /\ available'[p] >= 0
      <3>1. /\ Units(Held \ S, p) = Units(Held, p) - Units(S, p)
            /\ Units(Taken \ S, p) = Units(Taken, p) - Units(S, p)
            /\ Units(Taken, p) \in Nat /\ Units(S, p) \in Nat
        BY <1>a, <2>1, UnitsTakeAway
      <3>2. /\ reserved'[p] = reserved[p] - Units(S, p)
            /\ available'[p] = available[p] + Units(S, p)
            /\ adminLedger' = adminLedger
        BY <1>6 DEF ExpireStaleReservations, ReturnToShelf
      <3>3. QED
        BY <1>b, <3>1, <3>2
    <2>3. QED
      BY <1>a, <1>c, <2>1, <2>2
  \* An admin changes one row and the ledger by the same amount.
  <1>7. ASSUME NEW p \in Products, NEW n \in Quantities, NEW t \in Thresholds,
               UpsertStockItem(p, n, t) \/ AdjustStock(p, n, t)
        PROVE  StockInv'
    <2>1. Held' = Held /\ Taken' = Taken
      BY <1>7 DEF UpsertStockItem, AdjustStock, Held, Taken, OrdersIn
    <2>2. n \in Nat
      BY QuantitiesType
    <2>3. ASSUME NEW q \in Products
          PROVE  /\ reserved'[q] = Units(Held, q)
                 /\ available'[q] + Units(Taken, q) = adminLedger'[q]
                 /\ available'[q] >= 0
      <3>1. Units(Taken, q) \in Nat
        BY <1>a, UnitsFinite
      <3>2. CASE UpsertStockItem(p, n, t)
        BY <1>b, <2>2, <3>1, <3>2 DEF UpsertStockItem
      <3>3. CASE AdjustStock(p, n, t)
        BY <1>b, <2>2, <3>1, <3>3 DEF AdjustStock
      <3>4. QED
        BY <1>7, <3>2, <3>3
    <2>4. QED
      BY <1>a, <1>c, <2>1, <2>3
  <1>8. CASE UNCHANGED invVars
    <2>1. Held' = Held /\ Taken' = Taken
      BY <1>8 DEF invVars, Held, Taken, OrdersIn
    <2>2. QED
      BY <1>8, <1>a, <1>b, <1>c, <2>1 DEF invVars, stockVars
  <1>9. QED
    BY <1>1, <1>2, <1>3, <1>4, <1>5, <1>6, <1>7, <1>8
       DEF InvNext, Reserve, CommitReservation, ReleaseReservation

\* For every set of orders, products and demands: the reserved counter is what
\* the held reservations hold, nothing is oversold or invented, and no counter
\* of stock_items ever goes negative.
THEOREM StockCorrect == InvSpec => [](ReservedIsHeld /\ UnitsConserved /\ NeverNegative)
  <1>1. InvInit => StockInv
    <2> SUFFICES ASSUME InvInit PROVE StockInv
      OBVIOUS
    <2>1. OrdersIn("HELD") = {} /\ OrdersIn("HELD") \cup OrdersIn("COMMITTED") = {}
      BY DEF InvInit, OrdersIn
    <2>2. \A p \in Products : Created(p) \in Nat
      BY StockedType DEF Created
    <2>3. \A p \in Products : /\ available[p] = Created(p)
                              /\ adminLedger[p] = Created(p)
                              /\ reserved[p] = 0
      BY DEF InvInit
    <2>4. \A p \in Products : /\ Units(OrdersIn("HELD"), p) = 0
                              /\ Units(OrdersIn("HELD") \cup OrdersIn("COMMITTED"), p) = 0
      BY <2>1, UnitsNone
    <2>5. ReservedIsHeld
      BY <2>3, <2>4 DEF ReservedIsHeld
    <2>6. UnitsConserved
      <3>1. ASSUME NEW p \in Products
            PROVE  available[p] + Units(OrdersIn("HELD") \cup OrdersIn("COMMITTED"), p)
                     = adminLedger[p]
        <4>1. /\ available[p] = adminLedger[p] /\ available[p] \in Nat
              /\ Units(OrdersIn("HELD") \cup OrdersIn("COMMITTED"), p) = 0
          BY <2>2, <2>3, <2>4
        <4>2. QED
          BY <4>1
      <3>2. QED
        BY <3>1 DEF UnitsConserved
    <2>7. NeverNegative
      BY <2>2, <2>3 DEF NeverNegative
    <2>8. QED
      BY <2>5, <2>6, <2>7 DEF StockInv
  <1>2. InvTypeOK /\ StockInv /\ [InvNext]_invVars => StockInv'
    BY StockStep
  <1>3. StockInv => ReservedIsHeld /\ UnitsConserved /\ NeverNegative
    BY DEF StockInv
  <1>4. QED
    BY <1>1, <1>2, <1>3, InvTypeCorrect, PTL DEF InvSpec

-----------------------------------------------------------------------------
(* The answers and the books *)

\* A reservation moves as ReservationLifecycle says, and only by these steps.
LEMMA ReservationStep ==
    ASSUME InvTypeOK, [InvNext]_invVars, NEW o \in Orders,
           reservation'[o] # reservation[o]
    PROVE  <<reservation[o], reservation'[o]>> \in
                {<<"NONE", "HELD">>, <<"HELD", "COMMITTED">>, <<"HELD", "RELEASED">>,
                 <<"HELD", "EXPIRED">>, <<"COMMITTED", "RELEASED">>}
  <1> USE DEF InvTypeOK
  <1>1. ASSUME NEW x \in Orders, Reserve(x)
        PROVE  reservation[o] = "NONE" /\ reservation'[o] = "HELD"
    BY <1>1 DEF Reserve, ReserveFails, ReserveHolds
  <1>2. ASSUME NEW x \in Orders, CommitReservation(x)
        PROVE  reservation[o] = "HELD" /\ reservation'[o] = "COMMITTED"
    BY <1>2 DEF CommitReservation, invVars
  <1>3. ASSUME NEW x \in Orders, ReleaseReservation(x)
        PROVE  reservation[o] \in {"HELD", "COMMITTED"} /\ reservation'[o] = "RELEASED"
    BY <1>3 DEF ReleaseReservation, ReleaseHeld, RestockCommitted, invVars
  <1>4. ASSUME NEW S \in SUBSET Orders, ExpireStaleReservations(S)
        PROVE  reservation[o] = "HELD" /\ reservation'[o] = "EXPIRED"
    BY <1>4 DEF ExpireStaleReservations, OrdersIn
  <1>5. ASSUME NEW p \in Products, NEW n \in Quantities, NEW t \in Thresholds,
               UpsertStockItem(p, n, t) \/ AdjustStock(p, n, t)
        PROVE  FALSE
    BY <1>5 DEF UpsertStockItem, AdjustStock
  <1>6. reservation' # reservation
    OBVIOUS
  <1>7. InvNext
    BY <1>6 DEF invVars
  <1>8. QED
    BY <1>1, <1>2, <1>3, <1>4, <1>5, <1>7 DEF InvNext

\* An order gets one answer, for every set of orders and products: a delivery
\* of order.created that is handled again never contradicts the first.
THEOREM OneAnswerCorrect == InvSpec => []OneAnswer
  <1>1. InvInit => OneAnswer
    BY DEF InvInit, OneAnswer, Event
  <1>2. ASSUME InvTypeOK, OneAnswer, [InvNext]_invVars
        PROVE  OneAnswer'
    <2> USE <1>2 DEF InvTypeOK, OneAnswer
    <2>1. ASSUME NEW o \in Orders, ~Decided(o), Reserve(o)
          PROVE  OneAnswer'
      <3>1. \A x \in Orders, y \in Orders :
               /\ Event(INVENTORY_RESERVED, x) # Event(INVENTORY_RESERVATION_FAILED, y)
               /\ Event(INVENTORY_RESERVED, x) = Event(INVENTORY_RESERVED, y) => x = y
               /\ Event(INVENTORY_RESERVATION_FAILED, x)
                     = Event(INVENTORY_RESERVATION_FAILED, y) => x = y
        BY DEF Event, INVENTORY_RESERVED, INVENTORY_RESERVATION_FAILED
      <3>2. CASE ReserveFails(o)
        BY <2>1, <3>1, <3>2 DEF ReserveFails, Decided
      <3>3. CASE ReserveHolds(o)
        BY <2>1, <3>1, <3>3 DEF ReserveHolds, Decided
      <3>4. QED
        BY <2>1, <3>2, <3>3 DEF Reserve
    <2>2. ASSUME invOutbox' = invOutbox,
                 \A o \in Orders : reservation'[o] = "NONE" <=> reservation[o] = "NONE"
          PROVE  OneAnswer'
      BY <2>2
    <2>3. ASSUME NEW o \in Orders, CommitReservation(o)
          PROVE  OneAnswer'
      BY <2>2, <2>3 DEF CommitReservation, invVars
    <2>4. ASSUME NEW o \in Orders, ReleaseReservation(o)
          PROVE  OneAnswer'
      BY <2>2, <2>4 DEF ReleaseReservation, ReleaseHeld, RestockCommitted,
                        ReturnToShelf, invVars
    <2>5. ASSUME NEW S \in SUBSET Orders, ExpireStaleReservations(S)
          PROVE  OneAnswer'
      BY <2>2, <2>5 DEF ExpireStaleReservations, ReturnToShelf, OrdersIn
    <2>6. ASSUME NEW p \in Products, NEW n \in Quantities, NEW t \in Thresholds,
                 UpsertStockItem(p, n, t) \/ AdjustStock(p, n, t)
          PROVE  OneAnswer'
      BY <2>2, <2>6 DEF UpsertStockItem, AdjustStock
    <2>7. CASE UNCHANGED invVars
      BY <2>2, <2>7 DEF invVars
    <2>8. QED
      BY <1>2, <2>1, <2>3, <2>4, <2>5, <2>6, <2>7 DEF InvNext
  <1>3. QED
    BY <1>1, <1>2, InvTypeCorrect, PTL DEF InvSpec

\* A reservation never moves backwards, whatever is delivered and in whatever
\* order: in particular RELEASED and EXPIRED units are never handed out again.
THEOREM LifecycleCorrect == InvSpec => ReservationLifecycle
  <1>1. InvTypeOK /\ [InvNext]_invVars =>
           [\A o \in Orders :
              reservation'[o] # reservation[o] =>
                <<reservation[o], reservation'[o]>> \in
                    {<<"NONE", "HELD">>, <<"HELD", "COMMITTED">>, <<"HELD", "RELEASED">>,
                     <<"HELD", "EXPIRED">>, <<"COMMITTED", "RELEASED">>}]_invVars
    BY ReservationStep
  <1>2. QED
    BY <1>1, InvTypeCorrect, PTL DEF InvSpec, ReservationLifecycle

\* Orders that have no line for a product hold no units of it.
LEMMA UnitsUntouched ==
    ASSUME NEW S \in SUBSET Orders, NEW p \in Products, p \notin UNION {Items(o) : o \in S}
    PROVE  Units(S, p) = 0
  <1>1. \A o \in S : Wanted[o][p] = 0
    BY WantedType DEF Items
  <1>2. \A o \in S : {o} \X (1 .. Wanted[o][p]) = {}
    BY <1>1
  <1>3. UnitsOf(S, p) = {}
    BY <1>2 DEF UnitsOf
  <1>4. QED
    BY <1>3, FS_EmptySet DEF Units

\* The newest stock_changed describes the row, and an order's ledger rows net
\* out once its reservation has ended: every write of a stock row is published
\* and booked in the same transaction, for the rows it touches and no others.
BooksInv == AnnouncedIsCurrent /\ LedgerNetsPerOrder

LEMMA BooksStep ==
    ASSUME InvTypeOK, BooksInv, [InvNext]_invVars
    PROVE  BooksInv'
  <1> USE DEF InvTypeOK
  <1>a. \A o \in Orders, p \in Products :
            /\ Wanted[o][p] \in Nat /\ orderLedger[o][p] \in Int
            /\ orderLedger[o][p] =
                 IF reservation[o] \in {"HELD", "COMMITTED"} THEN -Wanted[o][p] ELSE 0
    BY WantedType DEF BooksInv, LedgerNetsPerOrder
  <1>b. \A p \in Products : /\ announced[p].available = available[p]
                            /\ announced[p].reserved = reserved[p]
                            /\ available[p] \in Int /\ reserved[p] \in Int
    BY DEF BooksInv, AnnouncedIsCurrent
  \* Publishing the rows that changed is enough.
  <1>c. ASSUME NEW P, NEW Low, PublishStockChanged(P, Low),
               \A p \in Products \ P : available'[p] = available[p] /\ reserved'[p] = reserved[p]
        PROVE  AnnouncedIsCurrent'
    BY <1>b, <1>c DEF PublishStockChanged, AnnouncedIsCurrent
  <1>1. ASSUME NEW o \in Orders, ReserveHolds(o)
        PROVE  BooksInv'
    <2>1. \A p \in Products \ Items(o) : Wanted[o][p] = 0
      BY <1>a DEF Items
    <2>2. \A p \in Products \ Items(o) :
             available'[p] = available[p] /\ reserved'[p] = reserved[p]
      BY <1>1, <1>b, <2>1 DEF ReserveHolds
    <2>3. AnnouncedIsCurrent'
      BY <1>1, <1>c, <2>2 DEF ReserveHolds
    <2>4. LedgerNetsPerOrder'
      BY <1>1, <1>a DEF ReserveHolds, LedgerNetsPerOrder
    <2>5. QED
      BY <2>3, <2>4 DEF BooksInv
  <1>2. ASSUME NEW o \in Orders, CommitReservation(o), reservation[o] = "HELD"
        PROVE  BooksInv'
    <2>1. \A p \in Products \ Items(o) : Wanted[o][p] = 0
      BY <1>a DEF Items
    <2>2. \A p \in Products \ Items(o) :
             available'[p] = available[p] /\ reserved'[p] = reserved[p]
      BY <1>2, <1>b, <2>1 DEF CommitReservation
    <2>3. AnnouncedIsCurrent'
      BY <1>2, <1>c, <2>2 DEF CommitReservation
    <2>4. LedgerNetsPerOrder'
      BY <1>2, <1>a DEF CommitReservation, LedgerNetsPerOrder
    <2>5. QED
      BY <2>3, <2>4 DEF BooksInv
  \* Release, restock and expiry: what S took goes back.
  <1>3. ASSUME NEW S \in SUBSET Orders, ReturnToShelf(S), NEW s \in {"RELEASED", "EXPIRED"},
               \A o \in S : reservation[o] \in {"HELD", "COMMITTED"},
               reservation' = [o \in Orders |-> IF o \in S THEN s ELSE reservation[o]]
        PROVE  LedgerNetsPerOrder'
    BY <1>3, <1>a DEF ReturnToShelf, LedgerNetsPerOrder
  <1>4. ASSUME NEW o \in Orders, ReleaseHeld(o) \/ RestockCommitted(o)
        PROVE  BooksInv'
    <2>1. \A p \in Products \ Items(o) : Wanted[o][p] = 0
      BY <1>a DEF Items
    <2>2. ASSUME NEW p \in Products \ Items(o)
          PROVE  available'[p] = available[p] /\ reserved'[p] = reserved[p]
      <3>1. Units({o}, p) = 0
        BY <2>1, UnitsSingle
      <3>2. available'[p] = available[p] + Units({o}, p)
        BY <1>4 DEF ReleaseHeld, RestockCommitted, ReturnToShelf
      <3>3. reserved'[p] = reserved[p]
        BY <1>4, <1>b, <2>1 DEF ReleaseHeld, RestockCommitted
      <3>4. QED
        BY <1>b, <3>1, <3>2, <3>3
    <2>3. AnnouncedIsCurrent'
      BY <1>4, <1>c, <2>2 DEF ReleaseHeld, RestockCommitted
    <2>4. /\ reservation' = [x \in Orders |-> IF x \in {o} THEN "RELEASED" ELSE reservation[x]]
          /\ ReturnToShelf({o}) /\ reservation[o] \in {"HELD", "COMMITTED"}
      BY <1>4 DEF ReleaseHeld, RestockCommitted
    <2>5. LedgerNetsPerOrder'
      BY <1>3, <2>4
    <2>6. QED
      BY <2>3, <2>5 DEF BooksInv
  <1>5. ASSUME NEW S \in SUBSET Orders, ExpireStaleReservations(S)
        PROVE  BooksInv'
    <2>1. \A p \in Products \ UNION {Items(o) : o \in S} : Units(S, p) = 0
      BY UnitsUntouched
    <2>2. ASSUME NEW p \in Products \ UNION {Items(o) : o \in S}
          PROVE  available'[p] = available[p] /\ reserved'[p] = reserved[p]
      <3>1. /\ available'[p] = available[p] + Units(S, p)
            /\ reserved'[p] = reserved[p] - Units(S, p)
        BY <1>5 DEF ExpireStaleReservations, ReturnToShelf
      <3>2. Units(S, p) = 0
        BY <2>1
      <3>3. QED
        BY <1>b, <3>1, <3>2
    <2>3. AnnouncedIsCurrent'
      BY <1>5, <1>c, <2>2 DEF ExpireStaleReservations
    <2>4. LedgerNetsPerOrder'
      BY <1>3, <1>5 DEF ExpireStaleReservations, OrdersIn
    <2>5. QED
      BY <2>3, <2>4 DEF BooksInv
  <1>6. ASSUME NEW p \in Products, NEW n \in Quantities, NEW t \in Thresholds,
               UpsertStockItem(p, n, t) \/ AdjustStock(p, n, t)
        PROVE  BooksInv'
    <2>1. \A q \in Products \ {p} : available'[q] = available[q] /\ reserved'[q] = reserved[q]
      BY <1>6 DEF UpsertStockItem, AdjustStock
    <2>2. AnnouncedIsCurrent'
      BY <1>6, <1>c, <2>1 DEF UpsertStockItem, AdjustStock
    <2>3. LedgerNetsPerOrder'
      BY <1>6, <1>a DEF UpsertStockItem, AdjustStock, LedgerNetsPerOrder
    <2>4. QED
      BY <2>2, <2>3 DEF BooksInv
  <1>7. ASSUME UNCHANGED <<stockVars, reservation>>
        PROVE  BooksInv'
    BY <1>7 DEF stockVars, BooksInv, AnnouncedIsCurrent, LedgerNetsPerOrder
  <1>8. QED
    BY <1>1, <1>2, <1>4, <1>5, <1>6, <1>7
       DEF InvNext, Reserve, ReserveFails, CommitReservation, ReleaseReservation, invVars

\* For every set of orders and products, what was announced and what was booked
\* agree with the stock rows.
THEOREM BooksCorrect == InvSpec => [](AnnouncedIsCurrent /\ LedgerNetsPerOrder)
  <1>1. InvInit => BooksInv
    BY WantedType DEF InvInit, BooksInv, AnnouncedIsCurrent, LedgerNetsPerOrder
  <1>2. InvTypeOK /\ BooksInv /\ [InvNext]_invVars => BooksInv'
    BY BooksStep
  <1>3. BooksInv => AnnouncedIsCurrent /\ LedgerNetsPerOrder
    BY DEF BooksInv
  <1>4. QED
    BY <1>1, <1>2, <1>3, InvTypeCorrect, PTL DEF InvSpec

-----------------------------------------------------------------------------
(* Each promise by its name *)

\* No release, commit, expiry or restock leaks or double-returns a unit.
THEOREM ReservedIsHeldCorrect == InvSpec => []ReservedIsHeld
  BY StockCorrect, PTL

\* A read model that applies the events in order ends up with the stock row.
THEOREM AnnouncedIsCurrentCorrect == InvSpec => []AnnouncedIsCurrent
  BY BooksCorrect, PTL

\* The CHECK constraints of stock_items never fire.
THEOREM NeverNegativeCorrect == InvSpec => []NeverNegative
  BY StockCorrect, PTL

\* Only reserve and adjust_stock take units of a product, and both look at the
\* threshold of every row they leave lower; all other transactions leave rows
\* as they are or add to them.
LEMMA LowStockStep ==
    ASSUME InvTypeOK, InvNext, NEW p \in Products,
           available'[p] < available[p], available'[p] <= threshold'[p]
    PROVE  announced'[p].low
  <1> USE DEF InvTypeOK
  <1>a. \A o \in Orders : Wanted[o][p] \in Nat
    BY WantedType
  <1>1. ASSUME NEW o \in Orders, Reserve(o)
        PROVE  announced'[p].low
    <2>1. ReserveHolds(o)
      BY <1>1 DEF Reserve, ReserveFails, stockVars
    <2>2. available'[p] = available[p] - Wanted[o][p]
      BY <2>1 DEF ReserveHolds
    <2>3. p \in Items(o)
      BY <1>a, <2>2 DEF Items
    <2>4. p \in MaybePublishLowStock(Items(o))
      BY <2>3 DEF MaybePublishLowStock
    <2>5. QED
      BY <2>1, <2>3, <2>4 DEF ReserveHolds, PublishStockChanged
  \* What goes back to the shelf takes nothing away.
  <1>2. ASSUME NEW S \in SUBSET Orders, ReturnToShelf(S)
        PROVE  FALSE
    <2>1. Units(S, p) \in Nat
      BY UnitsFinite
    <2>2. available'[p] = available[p] + Units(S, p)
      BY <1>2 DEF ReturnToShelf
    <2>3. QED
      BY <2>1, <2>2
  <1>3. ASSUME NEW o \in Orders, CommitReservation(o) \/ ReleaseReservation(o)
        PROVE  FALSE
    BY <1>2, <1>3 DEF CommitReservation, ReleaseReservation, ReleaseHeld, RestockCommitted,
                      invVars, stockVars
  <1>4. ASSUME NEW S \in SUBSET Orders, ExpireStaleReservations(S)
        PROVE  FALSE
    BY <1>2, <1>4 DEF ExpireStaleReservations
  <1>5. ASSUME NEW q \in Products, NEW n \in Quantities, NEW t \in Thresholds,
               UpsertStockItem(q, n, t)
        PROVE  FALSE
    BY <1>5, QuantitiesType DEF UpsertStockItem
  <1>6. ASSUME NEW q \in Products, NEW n \in Quantities, NEW t \in Thresholds,
               AdjustStock(q, n, t)
        PROVE  announced'[p].low
    <2>1. p = q
      BY <1>6 DEF AdjustStock
    <2>2. p \in MaybePublishLowStock({q})
      BY <2>1 DEF MaybePublishLowStock
    <2>3. QED
      BY <1>6, <2>1, <2>2 DEF AdjustStock, PublishStockChanged
  <1>7. QED
    BY <1>1, <1>3, <1>4, <1>5, <1>6 DEF InvNext

\* No sale and no count leaves a product at or below its threshold without an
\* alert, for every set of orders, products and thresholds.
THEOREM LowStockCorrect == InvSpec => LowStockNotMissed
  <1>1. InvTypeOK /\ [InvNext]_invVars =>
           [\A p \in Products :
              available'[p] < available[p] /\ available'[p] <= threshold'[p]
                 => announced'[p].low]_invVars
    BY LowStockStep
  <1>2. QED
    BY <1>1, InvTypeCorrect, PTL DEF InvSpec, LowStockNotMissed
=============================================================================
