---------------------------- MODULE CatalogProofs ----------------------------
(***************************************************************************)
(* For any number of admins, readers, prices and stock movements, and      *)
(* events that are handled in any order, late or never: the display copy   *)
(* of the stock is that of the event handled last, the order service's     *)
(* copy of the product that of the last request no other overlapped, and a *)
(* page that shows something else was raced or refused.                    *)
(***************************************************************************)
EXTENDS Catalog, TLAPS

EventType == [price : Nat, active : BOOLEAN]
TxType ==
    [pc    : {"idle", "flush", "dropProduct", "dropListings", "commit"},
     kind  : {"none", "create", "update", "deactivate", "stock"},
     seen  : Row \cup {Nothing}, new : Row \cup {Nothing}, event : EventType,
     nth   : Nat, met : BOOLEAN]

\* The tables and the transactions.
TablesOK ==
    /\ row \in Row \cup {Nothing}
    /\ tx \in [Writers -> TxType]
    /\ announced \in 0 .. Len(Movements)
    /\ taken \subseteq 1 .. announced /\ shown \in taken \cup {0}
    /\ upserts \in Seq(EventType) /\ calm \in BOOLEAN
    /\ followed \subseteq DOMAIN upserts /\ priced \in followed \cup {0}

\* What a reader may hold: a product it found, or a page.
ReaderType ==
    {got \in [key : Keys \cup {"none"}, value : Row \cup {Empty, Nothing}, raced : BOOLEAN] :
         /\ got.key = "none" => got = NoRead
         /\ got.key = "product" => got.value \in Row
         /\ got.key = "listing" => got.value \in Row \cup {Empty}}

\* Redis and its readers.
EntriesOK ==
    /\ cache \in [Keys -> Row \cup {Empty, Nothing}] /\ cache["product"] # Empty
    /\ doubt \in [Keys -> {"none", "raced", "refused"}]
    /\ reader \in [Readers -> ReaderType]

\* The row lock belongs to an open transaction.
LockOK ==
    /\ lock \in Writers \cup {Nobody}
    /\ lock # Nobody => tx[lock].pc # "idle"

\* What an open transaction is about to write: an admin's has the stock it
\* loaded, the consumer's everything else, and nobody changes the stock under it.
TxOK(w) ==
    /\ tx[w].pc = "idle" => tx[w] = NoTx
    /\ tx[w].pc # "idle" =>
           /\ tx[w].kind \in IF w = Consumer THEN {"stock"} ELSE {"create", "update", "deactivate"}
           /\ tx[w].new \in Row
           /\ tx[w].kind # "create" => row \in Row /\ tx[w].seen \in Row
           /\ tx[w].kind \in {"update", "deactivate"} => tx[w].new.stock = tx[w].seen.stock
           /\ w = Consumer =>
                  /\ tx[w].new.price = tx[w].seen.price /\ tx[w].new.active = tx[w].seen.active
                  /\ tx[w].seen.stock = row.stock
                  /\ tx[w].nth \in 1 .. announced /\ tx[w].new.stock = Movements[tx[w].nth]

\* The row shows the stock event that was applied to it last.
StockOK == shown # 0 => row \in Row /\ row.stock = Movements[shown]

CatInv == TablesOK /\ EntriesOK /\ LockOK /\ (\A w \in Writers : TxOK(w)) /\ StockOK

-----------------------------------------------------------------------------
(* Rows *)

LEMMA Rows ==
    /\ Nothing \notin Row
    /\ Empty \notin Row /\ Empty # Nothing
    /\ \A r \in Row : /\ r.exists = TRUE /\ r.active \in BOOLEAN /\ r.price \in Prices
                      /\ r.stock \in Stocks
                      /\ Upserted(r) \in EventType
    /\ NoEvent \in EventType
    /\ NoTx \in TxType /\ NoTx.pc = "idle" /\ NoTx.kind = "none" /\ NoTx.met = FALSE
    /\ NoRead \in ReaderType /\ NoRead.key = "none"
  <1>1. Nothing.exists = FALSE /\ Empty.exists = FALSE
    BY DEF Nothing, Empty
  <1>2. \A r \in Row : /\ r.exists = TRUE /\ r.active \in BOOLEAN /\ r.price \in Prices
                       /\ r.stock \in Stocks
    BY DEF Row
  <1>3. Empty # Nothing
    BY DEF Empty, Nothing
  <1>4. \A r \in Row : Upserted(r) \in EventType
    BY <1>2, CatalogBounds DEF Upserted, EventType
  <1>5. NoEvent \in EventType
    BY DEF NoEvent, EventType
  <1>6. NoTx \in TxType /\ NoTx.pc = "idle" /\ NoTx.kind = "none" /\ NoTx.met = FALSE
    BY <1>5 DEF NoTx, TxType
  <1>7. NoRead \in ReaderType /\ NoRead.key = "none"
    BY DEF NoRead, ReaderType, Keys
  <1>8. QED
    BY <1>1, <1>2, <1>3, <1>4, <1>5, <1>6, <1>7

LEMMA RowFields ==
    ASSUME NEW r \in Row
    PROVE  /\ \A p \in Prices : /\ [r EXCEPT !.price = p] \in Row
                                /\ [r EXCEPT !.price = p].stock = r.stock
           /\ \A b \in BOOLEAN : /\ [r EXCEPT !.active = b] \in Row
                                 /\ [r EXCEPT !.active = b].stock = r.stock
                                 /\ [r EXCEPT !.active = b].price = r.price
           /\ \A n \in Stocks : /\ [r EXCEPT !.stock = n] \in Row
                                /\ [r EXCEPT !.stock = n].stock = n
                                /\ [r EXCEPT !.stock = n].price = r.price
                                /\ [r EXCEPT !.stock = n].active = r.active
  BY DEF Row

LEMMA MovementsType ==
    ASSUME NEW i \in 1 .. Len(Movements)
    PROVE  Movements[i] \in Stocks
  BY CatalogBounds

\* What COMMIT writes into the row.
LEMMA MergedRow ==
    ASSUME NEW t \in TxType, t.new \in Row, t.kind # "create" => row \in Row /\ t.seen \in Row
    PROVE  /\ Merged(t) \in Row
           /\ t.kind = "create" => Merged(t) = t.new
           /\ t.kind # "create" =>
                  /\ Merged(t).stock = IF t.seen.stock # t.new.stock THEN t.new.stock ELSE row.stock
                  /\ Merged(t).price = IF t.seen.price # t.new.price THEN t.new.price ELSE row.price
                  /\ Merged(t).active = IF t.seen.active # t.new.active THEN t.new.active ELSE row.active
  <1>1. CASE t.kind = "create"
    BY <1>1 DEF Merged
  <1>2. CASE t.kind # "create"
    <2> DEFINE M == [c \in DOMAIN row |-> IF c \in Changed(t) THEN t.new[c] ELSE row[c]]
    <2>1. Merged(t) = M
      BY <1>2 DEF Merged
    <2>2. row \in Row /\ DOMAIN row = {"exists", "active", "price", "stock"}
      BY <1>2 DEF Row
    <2>3. M.stock = IF t.seen.stock # t.new.stock THEN t.new.stock ELSE row.stock
      BY <2>2 DEF Changed
    <2>4. M.price = IF t.seen.price # t.new.price THEN t.new.price ELSE row.price
      BY <2>2 DEF Changed
    <2>5. M.active = IF t.seen.active # t.new.active THEN t.new.active ELSE row.active
      BY <2>2 DEF Changed
    <2>6. M.exists = TRUE
      BY <2>2 DEF Changed, Row
    <2>7. DOMAIN M = {"exists", "active", "price", "stock"}
      BY <2>2
    <2>8. M = [exists |-> M.exists, active |-> M.active, price |-> M.price, stock |-> M.stock]
      BY <2>7
    <2>9. M.active \in BOOLEAN /\ M.price \in Prices /\ M.stock \in Stocks
      BY <1>2, <2>3, <2>4, <2>5, Rows
    <2> HIDE DEF M
    <2>10. M \in Row
      BY <2>6, <2>8, <2>9 DEF Row
    <2>11. QED
      BY <1>2, <2>1, <2>3, <2>4, <2>5, <2>10
  <1>3. QED
    BY <1>1, <1>2

-----------------------------------------------------------------------------
(* CatInv *)

\* Two versions of a transaction that differ at most in how far it is, what it
\* is going to announce, and whom it met.
SameJob(t, u) ==
    /\ t.pc = "idle" => u = t
    /\ t.pc # "idle" => u.pc # "idle"
    /\ u.kind = t.kind /\ u.seen = t.seen /\ u.new = t.new /\ u.nth = t.nth

\* A transaction with the same job, under the steps of the others.
LEMMA TxStays ==
    ASSUME CatInv, NEW v \in Writers, SameJob(tx[v], tx'[v]), row \in Row => row' \in Row,
           v = Consumer /\ tx[v].pc # "idle" =>
               row'.stock = row.stock /\ 1 .. announced \subseteq 1 .. announced'
    PROVE  TxOK(v)'
  <1>1. TxOK(v)
    BY DEF CatInv
  <1>2. QED
    BY <1>1 DEF TxOK, SameJob

\* A step that leaves the tables alone, and every transaction its job.
LEMMA TablesStay ==
    ASSUME CatInv, UNCHANGED <<row, announced, taken, shown, upserts, calm>>,
           followed' \subseteq DOMAIN upserts, priced' \in followed' \cup {0},
           tx' \in [Writers -> TxType], \A v \in Writers : SameJob(tx[v], tx'[v]),
           EntriesOK', LockOK'
    PROVE  CatInv'
  <1>1. TablesOK'
    BY DEF CatInv, TablesOK
  <1>2. StockOK'
    BY DEF CatInv, StockOK
  <1>3. \A v \in Writers : TxOK(v)'
    BY TxStays
  <1>4. QED
    BY <1>1, <1>2, <1>3 DEF CatInv

\* The types and the lock, of what a step leaves alone.
LEMMA Unmoved ==
    ASSUME CatInv
    PROVE  /\ tx \in [Writers -> TxType]
           /\ followed \subseteq DOMAIN upserts /\ priced \in followed \cup {0}
           /\ \A v \in Writers : tx'[v] = tx[v] => SameJob(tx[v], tx'[v])
           /\ UNCHANGED <<cache, doubt, reader>> => EntriesOK'
           /\ UNCHANGED <<lock, tx>> => LockOK'
  BY DEF CatInv, TablesOK, EntriesOK, LockOK, SameJob

\* A writer begins, and the others at most learn that they met it.
LEMMA BeginsOK ==
    ASSUME CatInv, NEW w \in Writers, tx[w] = NoTx,
           UNCHANGED <<tables, lock, orderModel, redis, reader>>,
           NEW kind \in IF w = Consumer THEN {"stock"} ELSE {"create", "update", "deactivate"},
           NEW new \in Row, NEW nth \in Nat, NEW met \in BOOLEAN,
           tx' \in [Writers -> TxType], tx'[w] = Loaded(kind, new, nth, met),
           \A v \in Writers \ {w} : SameJob(tx[v], tx'[v]),
           kind # "create" => row \in Row,
           kind \in {"update", "deactivate"} => new.stock = row.stock,
           w = Consumer => /\ new.price = row.price /\ new.active = row.active
                           /\ nth \in 1 .. announced /\ new.stock = Movements[nth]
    PROVE  CatInv'
  <1>1. /\ tx'[w].pc = "flush" /\ tx'[w].kind = kind /\ tx'[w].seen = row /\ tx'[w].new = new
        /\ tx'[w].nth = nth
    BY DEF Loaded, NoTx
  <1>2. UNCHANGED <<row, announced, taken, shown, upserts, calm, lock, followed, priced,
                    cache, doubt, reader>>
    BY DEF tables, orderModel, redis
  <1>3. TxOK(w)'
    BY <1>1, <1>2 DEF TxOK
  <1>4. \A v \in Writers \ {w} : TxOK(v)'
    BY <1>2, TxStays
  <1>5. LockOK'
    <2>1. \A v \in Writers : tx[v].pc # "idle" => tx'[v].pc # "idle"
      BY <1>1 DEF SameJob
    <2>2. QED
      BY <1>2, <2>1 DEF CatInv, LockOK
  <1>6. TablesOK' /\ StockOK' /\ EntriesOK'
    BY <1>2, Unmoved DEF CatInv, TablesOK, StockOK
  <1>7. QED
    BY <1>3, <1>4, <1>5, <1>6 DEF CatInv

\* What Begin does to the transactions.
LEMMA BeginMeets ==
    ASSUME CatInv, NEW a \in Admins, tx[a] = NoTx, NEW kind, NEW new, Begin(a, kind, new)
    PROVE  /\ a \in Writers /\ a # Consumer
           /\ tx'[a] = Loaded(kind, new, 0, OpenAdmins # {})
           /\ \A v \in Writers \ {a} :
                  tx'[v] = IF v \in OpenAdmins THEN [tx[v] EXCEPT !.met = TRUE] ELSE tx[v]
           /\ \A v \in Writers \ {a} : tx'[v] \in TxType /\ SameJob(tx[v], tx'[v])
  <1>1. a \in Writers /\ a # Consumer
    BY WritersType DEF Writers
  <1>2. /\ tx'[a] = Loaded(kind, new, 0, OpenAdmins # {})
        /\ \A v \in Writers \ {a} :
               tx'[v] = IF v \in OpenAdmins THEN [tx[v] EXCEPT !.met = TRUE] ELSE tx[v]
    BY <1>1 DEF Begin
  <1>3. ASSUME NEW v \in Writers \ {a} PROVE tx'[v] \in TxType /\ SameJob(tx[v], tx'[v])
    <2>1. tx[v] \in TxType /\ TxOK(v)
      BY DEF CatInv, TablesOK
    <2>2. CASE v \in OpenAdmins
      <3>1. tx[v].pc # "idle"
        BY <2>1, <2>2 DEF TxOK, OpenAdmins
      <3>2. QED
        BY <1>2, <2>1, <2>2, <3>1 DEF TxType, SameJob
    <2>3. CASE v \notin OpenAdmins
      BY <1>2, <2>1, <2>3 DEF SameJob
    <2>4. QED
      BY <2>2, <2>3
  <1>4. QED
    BY <1>1, <1>2, <1>3

LEMMA LoadedType ==
    ASSUME CatInv, NEW kind \in {"create", "update", "deactivate", "stock"}, NEW new \in Row,
           NEW nth \in Nat, NEW met \in BOOLEAN
    PROVE  Loaded(kind, new, nth, met) \in TxType
  <1>1. row \in Row \cup {Nothing}
    BY DEF CatInv, TablesOK
  <1>2. QED
    BY <1>1, Rows DEF Loaded, NoTx, TxType

LEMMA AdminRequestOK ==
    ASSUME CatInv, NEW a \in Admins, AdminRequest(a)
    PROVE  CatInv'
  <1>1. row \in Row \cup {Nothing} /\ tx[a] = NoTx
        /\ UNCHANGED <<tables, lock, orderModel, redis, reader>>
    BY DEF CatInv, TablesOK, AdminRequest
  <1>2. ASSUME NEW kind \in {"create", "update", "deactivate"}, NEW new \in Row, Begin(a, kind, new),
               kind # "create" => row \in Row /\ new.stock = row.stock
        PROVE  CatInv'
    <2> DEFINE met == OpenAdmins # {}
    <2>1. /\ a \in Writers /\ a # Consumer
          /\ tx'[a] = Loaded(kind, new, 0, met)
          /\ \A v \in Writers \ {a} : tx'[v] \in TxType /\ SameJob(tx[v], tx'[v])
      BY <1>1, <1>2, BeginMeets
    <2>2. met \in BOOLEAN
      OBVIOUS
    <2> HIDE DEF met
    <2>3. tx' \in [Writers -> TxType]
      <3>1. \A v \in Writers : tx'[v] \in TxType
        BY <2>1, <2>2, LoadedType
      <3>2. tx' = [v \in Writers |-> tx'[v]]
        BY <1>2 DEF Begin
      <3>3. QED
        BY <3>1, <3>2
    <2>4. QED
      BY <1>1, <1>2, <2>1, <2>2, <2>3, BeginsOK
  <1>3. ASSUME NEW price \in Prices, NEW stock \in Stocks, Begin(a, "create", Product(price, stock))
        PROVE  CatInv'
    <2>1. Product(price, stock) \in Row
      BY DEF Product, Row
    <2>2. QED
      BY <1>2, <1>3, <2>1
  <1>4. ASSUME row # Nothing, NEW price \in Prices, Begin(a, "update", [row EXCEPT !.price = price])
        PROVE  CatInv'
    BY <1>1, <1>2, <1>4, RowFields
  <1>5. ASSUME row # Nothing, NEW b \in BOOLEAN, Begin(a, "update", [row EXCEPT !.active = b])
        PROVE  CatInv'
    BY <1>1, <1>2, <1>5, RowFields
  <1>6. ASSUME row # Nothing, Begin(a, "deactivate", [row EXCEPT !.active = FALSE])
        PROVE  CatInv'
    BY <1>1, <1>2, <1>6, RowFields
  <1>7. QED
    BY <1>3, <1>4, <1>5, <1>6 DEF AdminRequest

LEMMA StockChangedOK ==
    ASSUME CatInv, StockChanged
    PROVE  CatInv'
  <1>1. PICK i \in (1 .. announced) \ taken :
            tx' = [tx EXCEPT ![Consumer] = Loaded("stock", [row EXCEPT !.stock = Movements[i]], i, FALSE)]
    BY DEF StockChanged
  <1> DEFINE new == [row EXCEPT !.stock = Movements[i]]
  <1>2. /\ row \in Row /\ tx[Consumer] = NoTx /\ Consumer \in Writers
        /\ UNCHANGED <<tables, lock, orderModel, redis, reader>>
        /\ announced \in 0 .. Len(Movements) /\ tx \in [Writers -> TxType]
    BY DEF CatInv, TablesOK, StockChanged, Writers
  <1>3. i \in Nat /\ i \in 1 .. announced /\ Movements[i] \in Stocks
    <2>1. Len(Movements) \in Nat
      BY CatalogBounds
    <2>2. i \in Nat /\ i \in 1 .. announced /\ i \in 1 .. Len(Movements)
      BY <1>2, <2>1
    <2>3. QED
      BY <2>2, MovementsType
  <1>4. /\ new \in Row /\ new.stock = Movements[i] /\ new.price = row.price
        /\ new.active = row.active
    BY <1>2, <1>3, RowFields
  <1> HIDE DEF new
  <1>5. /\ tx' \in [Writers -> TxType] /\ tx'[Consumer] = Loaded("stock", new, i, FALSE)
        /\ \A v \in Writers \ {Consumer} : tx'[v] = tx[v]
    <2>1. Loaded("stock", new, i, FALSE) \in TxType
      BY <1>3, <1>4, LoadedType
    <2>2. QED
      BY <1>1, <1>2, <2>1 DEF new
  <1>6. \A v \in Writers \ {Consumer} : SameJob(tx[v], tx'[v])
    BY <1>5, Unmoved
  <1>7. QED
    BY <1>2, <1>3, <1>4, <1>5, <1>6, BeginsOK

LEMMA UnknownProductOK ==
    ASSUME CatInv, StockOfUnknownProduct
    PROVE  CatInv'
  <1>1. /\ \E i \in (1 .. announced) \ taken : taken' = taken \cup {i}
        /\ UNCHANGED <<row, lock, tx, announced, shown, upserts, calm, followed, priced,
                       cache, doubt, reader>>
    BY DEF StockOfUnknownProduct, orderModel, redis
  <1>2. TablesOK'
    BY <1>1 DEF CatInv, TablesOK
  <1>3. StockOK' /\ EntriesOK' /\ LockOK'
    BY <1>1, Unmoved DEF CatInv, StockOK
  <1>4. \A v \in Writers : TxOK(v)'
    BY <1>1, Unmoved, TxStays
  <1>5. QED
    BY <1>2, <1>3, <1>4 DEF CatInv

LEMMA FlushOK ==
    ASSUME CatInv, NEW w \in Writers, Flush(w)
    PROVE  CatInv'
  <1> DEFINE t == tx[w]
             pc == IF t.kind = "create" THEN "dropListings" ELSE "dropProduct"
             event == CASE t.kind = "stock"      -> NoEvent
                        [] t.kind = "deactivate" -> Upserted(t.new)
                        [] OTHER                 -> Upserted(Merged(t))
  <1>1. /\ t.pc = "flush" /\ lock' \in {w, lock}
        /\ tx' = [tx EXCEPT ![w].pc = pc, ![w].event = event]
        /\ UNCHANGED <<row, announced, taken, shown, upserts, calm, followed, priced,
                       cache, doubt, reader>>
    BY DEF Flush, tables, orderModel, redis
  <1>2. /\ t \in TxType /\ TxOK(w) /\ tx \in [Writers -> TxType]
    BY DEF CatInv, TablesOK
  <1>3. event \in EventType
    <2>1. t.new \in Row /\ Merged(t) \in Row
      BY <1>1, <1>2, MergedRow DEF TxOK
    <2>2. QED
      BY <2>1, Rows
  <1>4. pc \in {"dropListings", "dropProduct"}
    OBVIOUS
  <1> HIDE DEF event, pc
  <1>5. /\ tx' \in [Writers -> TxType] /\ tx'[w].pc # "idle"
        /\ SameJob(t, tx'[w])
        /\ \A v \in Writers \ {w} : tx'[v] = tx[v]
    BY <1>1, <1>2, <1>3, <1>4 DEF TxType, SameJob
  <1>6. LockOK'
    BY <1>1, <1>5 DEF CatInv, LockOK
  <1>7. QED
    BY <1>1, <1>5, <1>6, Unmoved, TablesStay

\* Dropping an entry.
LEMMA DropOK ==
    ASSUME CatInv, NEW k \in Keys, Drop(k)
    PROVE  EntriesOK'
  <1>1. cache' \in [Keys -> Row \cup {Empty, Nothing}] /\ cache'["product"] # Empty
    BY Rows DEF Drop, CatInv, EntriesOK, Keys
  <1>2. doubt' \in [Keys -> {"none", "raced", "refused"}]
    BY DEF Drop, CatInv, EntriesOK
  <1>3. ASSUME NEW r \in Readers, reader[r].key = k
        PROVE  [reader[r] EXCEPT !.raced = TRUE] \in ReaderType
    <2>1. reader[r] \in ReaderType /\ k # "none"
      BY DEF CatInv, EntriesOK, Keys
    <2>2. QED
      BY <1>3, <2>1 DEF ReaderType
  <1>4. reader' \in [Readers -> ReaderType]
    BY <1>3 DEF Drop, CatInv, EntriesOK
  <1>5. QED
    BY <1>1, <1>2, <1>4 DEF EntriesOK

\* The two steps that drop an entry.
LEMMA DropStep ==
    ASSUME CatInv, NEW w \in Writers, DropProduct(w) \/ DropListings(w)
    PROVE  /\ \/ /\ tx[w].pc = "dropProduct" /\ tx'[w].pc = "dropListings" /\ Drop("product")
              \/ /\ tx[w].pc = "dropListings" /\ tx'[w].pc = "commit" /\ Drop("listing")
           /\ tx' \in [Writers -> TxType]
           /\ SameJob(tx[w], tx'[w])
           /\ tx'[w].event = tx[w].event /\ tx'[w].met = tx[w].met
           /\ \A v \in Writers \ {w} : tx'[v] = tx[v]
           /\ UNCHANGED <<row, lock, announced, taken, shown, upserts, calm, followed, priced,
                          snapshot>>
  <1>1. tx \in [Writers -> TxType] /\ {"dropListings", "commit"} \subseteq
            {"idle", "flush", "dropProduct", "dropListings", "commit"}
    BY DEF CatInv, TablesOK
  <1>2. CASE DropProduct(w)
    BY <1>1, <1>2 DEF DropProduct, TxType, SameJob, tables, orderModel
  <1>3. CASE DropListings(w)
    BY <1>1, <1>3 DEF DropListings, TxType, SameJob, tables, orderModel
  <1>4. QED
    BY <1>2, <1>3

LEMMA DropsOK ==
    ASSUME CatInv, NEW w \in Writers, DropProduct(w) \/ DropListings(w)
    PROVE  CatInv'
  <1>1. EntriesOK'
    BY DropStep, DropOK DEF Keys
  <1>2. LockOK'
    BY DropStep DEF CatInv, LockOK
  <1>3. QED
    BY <1>1, <1>2, DropStep, Unmoved, TablesStay

\* Who ends its transaction, lets go of the row.
LEMMA CloseOK ==
    ASSUME CatInv, NEW w \in Writers, Close(w)
    PROVE  /\ tx' \in [Writers -> TxType] /\ tx'[w] = NoTx /\ TxOK(w)'
           /\ \A v \in Writers \ {w} : tx'[v] = tx[v] /\ SameJob(tx[v], tx'[v])
           /\ LockOK'
  <1>1. tx' = [tx EXCEPT ![w] = NoTx] /\ lock' = IF lock = w THEN Nobody ELSE lock
    BY DEF Close
  <1>2. /\ tx' \in [Writers -> TxType] /\ tx'[w] = NoTx
        /\ \A v \in Writers \ {w} : tx'[v] = tx[v]
    BY <1>1, Rows DEF CatInv, TablesOK
  <1>3. TxOK(w)'
    BY <1>2, Rows DEF TxOK
  <1>4. LockOK'
    BY <1>1, <1>2 DEF CatInv, LockOK
  <1>5. QED
    BY <1>2, <1>3, <1>4, Unmoved

LEMMA AbortOK ==
    ASSUME CatInv, NEW w \in Writers, Abort(w)
    PROVE  CatInv'
  <1>1. /\ Close(w)
        /\ UNCHANGED <<row, announced, taken, shown, upserts, calm, followed, priced,
                       cache, doubt, reader>>
    BY DEF Abort, tables, orderModel, redis
  <1>2. \A v \in Writers : TxOK(v)'
    <2> SUFFICES ASSUME NEW v \in Writers \ {w} PROVE TxOK(v)'
      BY <1>1, CloseOK
    <2>1. SameJob(tx[v], tx'[v])
      BY <1>1, CloseOK
    <2>2. QED
      BY <1>1, <2>1, TxStays
  <1>3. EntriesOK' /\ LockOK'
    BY <1>1, CloseOK, Unmoved
  <1>4. TablesOK' /\ StockOK'
    BY <1>1, CloseOK DEF CatInv, TablesOK, StockOK
  <1>5. QED
    BY <1>2, <1>3, <1>4 DEF CatInv

LEMMA CommitOK ==
    ASSUME CatInv, NEW w \in Writers, Commit(w)
    PROVE  CatInv'
  <1> DEFINE t == tx[w]
  <1>1. /\ t.pc = "commit"
        /\ t.kind = "create" => row = Nothing
        /\ row' = Merged(t)
        /\ t.kind = "stock" => /\ taken' = taken \cup {t.nth} /\ shown' = t.nth
                               /\ UNCHANGED <<upserts, calm>>
        /\ t.kind # "stock" => /\ upserts' = Append(upserts, t.event) /\ calm' = ~t.met
                               /\ UNCHANGED <<taken, shown>>
        /\ Close(w)
        /\ UNCHANGED <<announced, followed, priced, cache, doubt, reader>>
    BY DEF Commit, orderModel, redis
  <1>2. /\ t \in TxType /\ t.new \in Row
        /\ t.kind \in IF w = Consumer THEN {"stock"} ELSE {"create", "update", "deactivate"}
        /\ t.kind # "create" => row \in Row /\ t.seen \in Row
        /\ t.kind \in {"update", "deactivate"} => t.new.stock = t.seen.stock
        /\ w = Consumer => /\ t.seen.stock = row.stock
                           /\ t.nth \in 1 .. announced /\ t.new.stock = Movements[t.nth]
    BY <1>1 DEF CatInv, TablesOK, TxOK
  <1> HIDE DEF t
  <1>3. row' \in Row
    BY <1>1, <1>2, MergedRow
  <1>4. w = Consumer => row'.stock = Movements[t.nth]
    BY <1>1, <1>2, MergedRow
  <1>5. w # Consumer /\ row \in Row => row'.stock = row.stock
    BY <1>1, <1>2, MergedRow, Rows
  <1>6. /\ tx' \in [Writers -> TxType] /\ TxOK(w)'
        /\ \A v \in Writers \ {w} : tx'[v] = tx[v] /\ SameJob(tx[v], tx'[v])
        /\ LockOK'
    BY <1>1, CloseOK
  <1>7. \A v \in Writers : TxOK(v)'
    <2> SUFFICES ASSUME NEW v \in Writers \ {w} PROVE TxOK(v)'
      BY <1>6
    <2>1. CASE v = Consumer /\ tx[v].pc # "idle"
      <3>1. row \in Row
        BY <2>1 DEF CatInv, TxOK
      <3>2. QED
        BY <1>1, <1>3, <1>5, <1>6, <2>1, <3>1, TxStays
    <2>2. CASE ~(v = Consumer /\ tx[v].pc # "idle")
      BY <1>3, <1>6, <2>2, TxStays
    <2>3. QED
      BY <2>1, <2>2
  <1>8. StockOK'
    <2>1. CASE w = Consumer
      BY <1>1, <1>2, <1>3, <1>4, <2>1 DEF StockOK
    <2>2. CASE w # Consumer
      BY <1>1, <1>2, <1>3, <1>5, <2>2 DEF CatInv, StockOK
    <2>3. QED
      BY <2>1, <2>2
  <1>9. TablesOK'
    <2>1. /\ announced \in 0 .. Len(Movements)
          /\ taken \subseteq 1 .. announced /\ shown \in taken \cup {0}
          /\ upserts \in Seq(EventType) /\ calm \in BOOLEAN
          /\ followed \subseteq DOMAIN upserts /\ priced \in followed \cup {0}
      BY DEF CatInv, TablesOK
    <2>2. taken' \subseteq 1 .. announced /\ shown' \in taken' \cup {0}
      BY <1>1, <1>2, <2>1
    <2>3. t.event \in EventType /\ (~t.met) \in BOOLEAN
      BY <1>2 DEF TxType
    <2>4. upserts' \in Seq(EventType) /\ calm' \in BOOLEAN /\ followed \subseteq DOMAIN upserts'
      <3>1. CASE t.kind = "stock"
        BY <1>1, <2>1, <3>1
      <3>2. CASE t.kind # "stock"
        <4>1. upserts' = Append(upserts, t.event) /\ calm' = (~t.met)
          BY <1>1, <3>2
        <4>2. upserts' \in Seq(EventType) /\ DOMAIN upserts \subseteq DOMAIN upserts'
          BY <2>1, <2>3, <4>1
        <4>3. calm' \in BOOLEAN
          BY <2>3, <4>1
        <4>4. QED
          BY <2>1, <4>2, <4>3
      <3>3. QED
        BY <3>1, <3>2
    <2>5. QED
      BY <1>1, <1>3, <1>6, <2>1, <2>2, <2>4 DEF TablesOK
  <1>10. EntriesOK'
    BY <1>1, Unmoved
  <1>11. QED
    BY <1>6, <1>7, <1>8, <1>9, <1>10 DEF CatInv

LEMMA ReadDatabaseOK ==
    ASSUME CatInv, NEW r \in Readers, NEW k \in Keys, ReadDatabase(r, k)
    PROVE  CatInv'
  <1> DEFINE got == [key |-> k, value |-> Page, raced |-> Dropping(k) # {}]
  <1>1. /\ reader' = [reader EXCEPT ![r] = got]
        /\ k = "product" => OnSale
        /\ UNCHANGED <<row, tx, announced, taken, shown, upserts, calm, followed, priced, cache,
                       doubt, lock>>
    BY DEF ReadDatabase, tables, orderModel, redis
  <1>2. /\ Page \in Row \cup {Empty}
        /\ k = "product" => Page \in Row
    BY <1>1 DEF CatInv, TablesOK, Page, OnSale
  <1>3. got \in ReaderType
    BY <1>2 DEF ReaderType, Keys
  <1> HIDE DEF got
  <1>4. EntriesOK'
    BY <1>1, <1>3 DEF CatInv, EntriesOK
  <1>5. QED
    BY <1>1, <1>4, Unmoved, TablesStay

LEMMA FillOK ==
    ASSUME CatInv, NEW r \in Readers, Fill(r)
    PROVE  CatInv'
  <1> DEFINE got == reader[r]
  <1>1. /\ got # NoRead
        /\ \/ /\ cache' = [cache EXCEPT ![got.key] = got.value]
              /\ doubt' = [doubt EXCEPT ![got.key] = IF got.raced THEN "raced" ELSE "none"]
           \/ UNCHANGED <<cache, doubt>>
        /\ reader' = [reader EXCEPT ![r] = NoRead]
        /\ UNCHANGED <<row, tx, announced, taken, shown, upserts, calm, followed, priced, lock>>
    BY DEF Fill, tables, orderModel, redis
  <1>2. /\ got.key \in Keys /\ got.value \in Row \cup {Empty}
        /\ got.key = "product" => got.value # Empty
    <2>1. got \in ReaderType
      BY DEF CatInv, EntriesOK
    <2>2. QED
      BY <1>1, <2>1, Rows DEF ReaderType, Keys
  <1> HIDE DEF got
  <1>3. cache' \in [Keys -> Row \cup {Empty, Nothing}] /\ cache'["product"] # Empty
    BY <1>1, <1>2, Rows DEF CatInv, EntriesOK, Keys
  <1>4. doubt' \in [Keys -> {"none", "raced", "refused"}]
    BY <1>1, <1>2 DEF CatInv, EntriesOK
  <1>5. reader' \in [Readers -> ReaderType]
    BY <1>1, Rows DEF CatInv, EntriesOK
  <1>6. EntriesOK'
    BY <1>3, <1>4, <1>5 DEF EntriesOK
  <1>7. QED
    BY <1>1, <1>6, Unmoved, TablesStay

LEMMA ExpireOK ==
    ASSUME CatInv, NEW k \in Keys, Expire(k)
    PROVE  CatInv'
  <1>1. /\ cache' = [cache EXCEPT ![k] = Nothing] /\ doubt' = [doubt EXCEPT ![k] = "none"]
        /\ UNCHANGED <<row, tx, announced, taken, shown, upserts, calm, followed, priced, lock,
                       reader>>
    BY DEF Expire, tables, orderModel
  <1>2. EntriesOK'
    BY <1>1, Rows DEF CatInv, EntriesOK
  <1>3. QED
    BY <1>1, <1>2, Unmoved, TablesStay

LEMMA AnnounceOK ==
    ASSUME CatInv, Announce
    PROVE  CatInv'
  <1>1. /\ announced < Len(Movements) /\ announced' = announced + 1
        /\ UNCHANGED <<row, lock, tx, taken, shown, upserts, calm, followed, priced,
                       cache, doubt, reader>>
    BY DEF Announce, orderModel, redis
  <1>2. announced \in 0 .. Len(Movements) /\ Len(Movements) \in Nat
    BY CatalogBounds DEF CatInv, TablesOK
  <1>3. announced' \in 0 .. Len(Movements) /\ 1 .. announced \subseteq 1 .. announced'
    BY <1>1, <1>2
  <1>4. TablesOK' /\ StockOK' /\ EntriesOK' /\ LockOK'
    BY <1>1, <1>3, Unmoved DEF CatInv, TablesOK, StockOK
  <1>5. \A v \in Writers : TxOK(v)'
    BY <1>1, <1>3, Unmoved, TxStays
  <1>6. QED
    BY <1>4, <1>5 DEF CatInv

LEMMA ProductUpsertedOK ==
    ASSUME CatInv, ProductUpserted
    PROVE  CatInv'
  <1>1. /\ \E i \in DOMAIN upserts \ followed : followed' = followed \cup {i} /\ priced' = i
        /\ UNCHANGED <<row, lock, tx, announced, taken, shown, upserts, calm, cache, doubt, reader>>
    BY DEF ProductUpserted, tables, redis
  <1>2. followed' \subseteq DOMAIN upserts /\ priced' \in followed' \cup {0}
    BY <1>1, Unmoved
  <1>3. QED
    BY <1>1, <1>2, Unmoved, TablesStay

LEMMA CatInvInit == CatInit => CatInv
  <1> SUFFICES ASSUME CatInit PROVE CatInv
    OBVIOUS
  <1>1. row \in Row \cup {Nothing} /\ upserts \in Seq(EventType)
    <2>1. CASE row = Nothing /\ upserts = <<>>
      BY <2>1
    <2>2. CASE row \in Seeded /\ upserts = <<Upserted(row)>>
      <3>1. row \in Row
        BY <2>2, CatalogBounds
      <3>2. Upserted(row) \in EventType
        BY <3>1, Rows
      <3>3. QED
        BY <2>2, <3>1, <3>2
    <2>3. QED
      BY <2>1, <2>2 DEF CatInit
  <1>2. TablesOK
    <2>1. tx \in [Writers -> TxType]
      BY Rows DEF CatInit
    <2>2. announced \in 0 .. Len(Movements)
      BY CatalogBounds DEF CatInit
    <2>3. QED
      BY <1>1, <2>1, <2>2 DEF CatInit, TablesOK
  <1>3. EntriesOK
    BY Rows DEF CatInit, EntriesOK, Keys
  <1>4. LockOK /\ StockOK
    BY DEF CatInit, LockOK, StockOK
  <1>5. \A v \in Writers : TxOK(v)
    BY Rows DEF CatInit, TxOK
  <1>6. QED
    BY <1>2, <1>3, <1>4, <1>5 DEF CatInv

LEMMA CatInvStep == CatInv /\ [CatNext]_catVars => CatInv'
  <1> SUFFICES ASSUME CatInv, [CatNext]_catVars PROVE CatInv'
    OBVIOUS
  <1>1. CASE UNCHANGED catVars
    BY <1>1, Unmoved, TablesStay DEF catVars, tables, orderModel, redis
  <1>2. ASSUME NEW w \in Writers, Flush(w) \/ DropProduct(w) \/ DropListings(w) \/ Commit(w) \/ Abort(w)
        PROVE  CatInv'
    BY <1>2, FlushOK, DropsOK, CommitOK, AbortOK
  <1>3. ASSUME NEW r \in Readers, (\E k \in Keys : ReadDatabase(r, k)) \/ Fill(r)
        PROVE  CatInv'
    BY <1>3, ReadDatabaseOK, FillOK
  <1>4. QED
    BY <1>1, <1>2, <1>3, AdminRequestOK, StockChangedOK, UnknownProductOK, ExpireOK, AnnounceOK,
       ProductUpsertedOK DEF CatNext

LEMMA CatInvCorrect == CatSpec => []CatInv
  BY CatInvInit, CatInvStep, PTL DEF CatSpec

\* The row, its lock, the open transactions and the cached copies have the types
\* the code gives them, and a row lock has an open transaction.
THEOREM CatTypeCorrect == CatSpec => []CatTypeOK
  <1>1. CatInv => CatTypeOK
    <2> SUFFICES ASSUME CatInv PROVE CatTypeOK
      OBVIOUS
    <2>1. \A w \in Writers : {tx[w].seen, tx[w].new} \subseteq Row \cup {Nothing}
      BY DEF CatInv, TablesOK, TxType
    <2>2. lock # Nobody => tx[lock] # NoTx
      BY Rows DEF CatInv, LockOK
    <2>3. QED
      BY <2>1, <2>2 DEF CatInv, TablesOK, EntriesOK, LockOK, CatTypeOK
  <1>2. QED
    BY <1>1, CatInvCorrect, PTL

\* The stock on display is what the stock event handled last says, for any
\* number of admins writing the row from copies they loaded before it, and in
\* whatever order, and after whatever failures, the events are handled.
THEOREM StockFollowsCorrect == CatSpec => []StockFollows
  <1>1. CatInv => StockFollows
    BY DEF CatInv, StockOK, StockFollows
  <1>2. QED
    BY <1>1, CatInvCorrect, PTL

-----------------------------------------------------------------------------
(* SnapInv: what the order service has, while requests do not overlap.      *)

PricedOK == priced # 0 => snapshot = upserts[priced]

\* A product has been announced, and the last event tells what its row says.
LastEventOK ==
    row \in Row => /\ Len(upserts) > 0
                   /\ calm => upserts[Len(upserts)] = Upserted(row)

\* An admin that no other met still has the row it loaded, but for the stock,
\* and announces what it writes.
AdminOK(a) ==
    tx[a].pc # "idle" /\ ~tx[a].met =>
        /\ tx[a].kind # "create" => /\ tx[a].seen.price = row.price
                                    /\ tx[a].seen.active = row.active
        /\ tx[a].pc # "flush" => tx[a].event = Upserted(tx[a].new)

MetOK ==
    \A a, b \in Admins :
        a # b /\ tx[a].pc # "idle" /\ tx[b].pc # "idle" => tx[a].met /\ tx[b].met

SnapInv == PricedOK /\ LastEventOK /\ (\A a \in Admins : AdminOK(a)) /\ MetOK

\* An admin's transaction ends, or goes on with what it had flushed.
GoesOn(t, u) ==
    \/ u.pc = "idle"
    \/ /\ t.pc # "idle" /\ (t.pc = "flush" => u.pc = "flush")
       /\ u.kind = t.kind /\ u.seen = t.seen /\ u.new = t.new
       /\ u.event = t.event /\ u.met = t.met

\* A step that announces no product and changes at most the stock in the row.
LEMMA SnapStays ==
    ASSUME CatInv, SnapInv, UNCHANGED <<upserts, calm, priced, snapshot>>,
           row \in Row => row' \in Row /\ row'.price = row.price /\ row'.active = row.active,
           row' \in Row => row \in Row,
           \A a \in Admins : GoesOn(tx[a], tx'[a])
    PROVE  SnapInv'
  <1>1. PricedOK'
    BY DEF SnapInv, PricedOK
  <1>2. LastEventOK'
    BY DEF SnapInv, LastEventOK, Upserted
  <1>3. ASSUME NEW a \in Admins PROVE AdminOK(a)'
    <2>1. AdminOK(a) /\ GoesOn(tx[a], tx'[a])
      BY DEF SnapInv
    <2>2. tx[a].pc # "idle" /\ tx[a].kind # "create" => row \in Row
      BY WritersType DEF CatInv, TxOK, Writers
    <2>3. QED
      BY <2>1, <2>2 DEF AdminOK, GoesOn
  <1>4. MetOK'
    BY DEF SnapInv, MetOK, GoesOn
  <1>5. QED
    BY <1>1, <1>2, <1>3, <1>4 DEF SnapInv

\* What has no other admin's transaction ending, goes on.
LEMMA SnapSame ==
    ASSUME CatInv, NEW a \in Admins, tx'[a] = tx[a]
    PROVE  GoesOn(tx[a], tx'[a])
  BY DEF GoesOn

LEMMA SnapBegin ==
    ASSUME CatInv, SnapInv, NEW a \in Admins, AdminRequest(a)
    PROVE  SnapInv'
  <1>1. /\ tx[a] = NoTx
        /\ \E kind, new : Begin(a, kind, new)
        /\ UNCHANGED <<row, upserts, calm, priced, snapshot>>
    BY DEF AdminRequest, tables, orderModel
  <1>2. PICK kind, new : Begin(a, kind, new)
    BY <1>1
  <1> DEFINE met == OpenAdmins # {}
  <1>3. /\ tx'[a] = Loaded(kind, new, 0, met)
        /\ \A v \in Writers \ {a} :
               tx'[v] = IF v \in OpenAdmins THEN [tx[v] EXCEPT !.met = TRUE] ELSE tx[v]
    BY <1>1, <1>2, BeginMeets
  <1>4. /\ tx'[a].pc = "flush" /\ tx'[a].kind = kind /\ tx'[a].seen = row /\ tx'[a].met = met
    BY <1>3 DEF Loaded, NoTx
  <1>5. ASSUME NEW b \in Admins \ {a}, tx'[b].pc # "idle"
        PROVE  tx'[b].met /\ met
    <2>1. b \in Writers \ {a} /\ tx[b] \in TxType
      BY DEF Writers, CatInv, TablesOK
    <2>2. b \in OpenAdmins
      <3>1. CASE tx[b] = NoTx
        BY <1>3, <1>5, <2>1, <3>1, Rows DEF OpenAdmins
      <3>2. QED
        BY <3>1 DEF OpenAdmins
    <2>3. QED
      BY <1>3, <2>1, <2>2 DEF TxType
  <1> HIDE DEF met
  <1>6. PricedOK' /\ LastEventOK'
    BY <1>1 DEF SnapInv, PricedOK, LastEventOK
  <1>7. MetOK'
    BY <1>4, <1>5 DEF MetOK
  <1>8. ASSUME NEW b \in Admins PROVE AdminOK(b)'
    BY <1>1, <1>4, <1>5 DEF AdminOK
  <1>9. QED
    BY <1>6, <1>7, <1>8 DEF SnapInv

\* What an admin that no other met is going to write, and what its event tells.
LEMMA UnmetWrites ==
    ASSUME CatInv, SnapInv, NEW a \in Admins, tx[a].pc # "idle", ~tx[a].met
    PROVE  Upserted(Merged(tx[a])) = Upserted(tx[a].new)
  <1>1. /\ tx[a] \in TxType /\ TxOK(a) /\ AdminOK(a)
    BY DEF Writers, CatInv, TablesOK, SnapInv
  <1>2. /\ tx[a].new \in Row
        /\ tx[a].kind # "create" => row \in Row /\ tx[a].seen \in Row
    BY <1>1 DEF TxOK
  <1>3. /\ Merged(tx[a]).price = tx[a].new.price /\ Merged(tx[a]).active = tx[a].new.active
    <2>1. CASE tx[a].kind = "create"
      BY <1>1, <1>2, <2>1, MergedRow
    <2>2. CASE tx[a].kind # "create"
      BY <1>1, <1>2, <2>2, MergedRow DEF AdminOK
    <2>3. QED
      BY <2>1, <2>2
  <1>4. QED
    BY <1>3 DEF Upserted

LEMMA SnapFlush ==
    ASSUME CatInv, SnapInv, NEW w \in Writers, Flush(w)
    PROVE  SnapInv'
  <1> DEFINE t == tx[w]
             pc == IF t.kind = "create" THEN "dropListings" ELSE "dropProduct"
             event == CASE t.kind = "stock"      -> NoEvent
                        [] t.kind = "deactivate" -> Upserted(t.new)
                        [] OTHER                 -> Upserted(Merged(t))
  <1>1. /\ t.pc = "flush"
        /\ tx' = [tx EXCEPT ![w].pc = pc, ![w].event = event]
        /\ UNCHANGED <<row, upserts, calm, priced, snapshot>>
    BY DEF Flush, tables, orderModel
  <1>2. t \in TxType /\ tx \in [Writers -> TxType] /\ TxOK(w)
    BY DEF CatInv, TablesOK
  <1>3. ASSUME w \in Admins, ~t.met PROVE event = Upserted(t.new)
    <2>1. t.kind # "stock"
      BY <1>1, <1>2, <1>3, WritersType DEF TxOK
    <2>2. QED
      BY <1>1, <1>3, <2>1, UnmetWrites
  <1> HIDE DEF event, pc
  <1>4. /\ tx'[w].kind = t.kind /\ tx'[w].seen = t.seen /\ tx'[w].new = t.new
        /\ tx'[w].event = event /\ tx'[w].met = t.met
        /\ \A v \in Writers \ {w} : tx'[v] = tx[v]
    BY <1>1, <1>2 DEF TxType
  <1>5. PricedOK' /\ LastEventOK'
    BY <1>1 DEF SnapInv, PricedOK, LastEventOK
  <1>6. ASSUME NEW a \in Admins PROVE AdminOK(a)'
    <2>1. CASE a = w
      BY <1>1, <1>3, <1>4, <2>1 DEF SnapInv, AdminOK
    <2>2. CASE a # w
      BY <1>1, <1>4, <2>2 DEF SnapInv, AdminOK, Writers
    <2>3. QED
      BY <2>1, <2>2
  <1>7. MetOK'
    <2>1. \A a \in Admins : tx'[a].met = tx[a].met /\ (tx'[a].pc # "idle" => tx[a].pc # "idle")
      BY <1>1, <1>4 DEF Writers
    <2>2. QED
      BY <2>1 DEF SnapInv, MetOK
  <1>8. QED
    BY <1>5, <1>6, <1>7 DEF SnapInv

LEMMA SnapDrop ==
    ASSUME CatInv, SnapInv, NEW w \in Writers, DropProduct(w) \/ DropListings(w)
    PROVE  SnapInv'
  <1>1. UNCHANGED <<row, upserts, calm, priced, snapshot>>
    BY DropStep
  <1>2. ASSUME NEW a \in Admins PROVE GoesOn(tx[a], tx'[a])
    <2>1. CASE a = w
      BY <2>1, DropStep DEF GoesOn, SameJob
    <2>2. CASE a # w
      BY <2>2, DropStep, SnapSame DEF Writers
    <2>3. QED
      BY <2>1, <2>2
  <1>3. QED
    BY <1>1, <1>2, SnapStays

LEMMA SnapClose ==
    ASSUME CatInv, NEW w \in Writers, Close(w), NEW a \in Admins
    PROVE  GoesOn(tx[a], tx'[a])
  <1>1. CASE a = w
    BY <1>1, CloseOK, Rows DEF GoesOn
  <1>2. CASE a # w
    BY <1>2, CloseOK, SnapSame DEF Writers
  <1>3. QED
    BY <1>1, <1>2

\* The consumer commits: only the stock changes.
LEMMA SnapConsumer ==
    ASSUME CatInv, SnapInv, Commit(Consumer)
    PROVE  SnapInv'
  <1> DEFINE t == tx[Consumer]
  <1>1. t.pc = "commit" /\ row' = Merged(t) /\ Close(Consumer) /\ Consumer \in Writers
        /\ UNCHANGED <<priced, snapshot>>
    BY DEF Commit, Writers, orderModel
  <1>2. /\ t \in TxType /\ t.new \in Row /\ t.kind = "stock" /\ row \in Row /\ t.seen \in Row
        /\ t.new.price = t.seen.price /\ t.new.active = t.seen.active
    BY <1>1 DEF CatInv, TablesOK, TxOK
  <1>3. UNCHANGED <<upserts, calm>>
    BY <1>2 DEF Commit
  <1> HIDE DEF t
  <1>4. row' \in Row /\ row'.price = row.price /\ row'.active = row.active
    BY <1>1, <1>2, MergedRow
  <1>5. QED
    BY <1>1, <1>2, <1>3, <1>4, SnapClose, SnapStays

\* An admin commits and announces: if nobody overlapped it, what the row says.
LEMMA SnapCommit ==
    ASSUME CatInv, SnapInv, NEW a \in Admins, Commit(a)
    PROVE  SnapInv'
  <1> DEFINE t == tx[a]
  <1>1. /\ t.pc = "commit" /\ row' = Merged(t) /\ Close(a) /\ a \in Writers /\ a # Consumer
        /\ UNCHANGED <<priced, snapshot>>
    BY WritersType DEF Commit, Writers, orderModel
  <1>2. t \in TxType /\ t.kind # "stock" /\ t.event \in EventType
    BY <1>1 DEF CatInv, TablesOK, TxOK, TxType
  <1>3. upserts' = Append(upserts, t.event) /\ calm' = (~t.met)
    BY <1>2 DEF Commit
  <1>4. AdminOK(a)
    BY DEF SnapInv
  <1>5. t.event = Upserted(t.new) \/ t.met
    BY <1>1, <1>4 DEF AdminOK
  <1>6. t.met \/ Upserted(row') = t.event
    BY <1>1, <1>5, UnmetWrites
  <1>7. /\ tx'[a].pc = "idle"
        /\ \A v \in Writers \ {a} : tx'[v] = tx[v]
    BY <1>1, CloseOK, Rows
  <1> HIDE DEF t
  <1>8. /\ upserts \in Seq(EventType) /\ priced \in DOMAIN upserts \cup {0}
    BY DEF CatInv, TablesOK
  <1>9. /\ Len(upserts') = Len(upserts) + 1 /\ upserts'[Len(upserts')] = t.event
        /\ \A i \in DOMAIN upserts : upserts'[i] = upserts[i]
        /\ Len(upserts) \in Nat
    BY <1>2, <1>3, <1>8
  <1>10. PricedOK'
    BY <1>1, <1>8, <1>9 DEF SnapInv, PricedOK
  <1>11. LastEventOK'
    <2>1. calm' => Upserted(row') = t.event
      BY <1>3, <1>6
    <2>2. Len(upserts') > 0 /\ upserts'[Len(upserts')] = t.event
      BY <1>9
    <2>3. QED
      BY <2>1, <2>2 DEF LastEventOK
  <1>12. ASSUME NEW b \in Admins PROVE AdminOK(b)'
    <2>1. CASE b = a
      BY <1>7, <2>1 DEF AdminOK
    <2>2. CASE b # a
      <3>1. tx'[b] = tx[b] /\ (tx[b].pc # "idle" => tx[b].met)
        BY <1>1, <1>7, <2>2 DEF SnapInv, MetOK, Writers, t
      <3>2. QED
        BY <3>1 DEF AdminOK
    <2>3. QED
      BY <2>1, <2>2
  <1>13. MetOK'
    BY <1>1, <1>7, SnapClose DEF SnapInv, MetOK, GoesOn
  <1>14. QED
    BY <1>10, <1>11, <1>12, <1>13 DEF SnapInv

LEMMA SnapUpserted ==
    ASSUME CatInv, SnapInv, ProductUpserted
    PROVE  SnapInv'
  <1>1. PICK i \in DOMAIN upserts : priced' = i /\ snapshot' = upserts[i]
    BY DEF ProductUpserted, UpsertSnapshot
  <1>2. UNCHANGED <<row, upserts, calm, tx>>
    BY DEF ProductUpserted, tables
  <1>3. PricedOK'
    BY <1>1, <1>2 DEF PricedOK
  <1>4. LastEventOK' /\ MetOK' /\ \A a \in Admins : AdminOK(a)'
    BY <1>2 DEF SnapInv, LastEventOK, MetOK, AdminOK
  <1>5. QED
    BY <1>3, <1>4 DEF SnapInv

LEMMA SnapInvInit == CatInit => SnapInv
  <1> SUFFICES ASSUME CatInit PROVE SnapInv
    OBVIOUS
  <1>1. PricedOK
    BY DEF CatInit, PricedOK
  <1>2. LastEventOK
    BY Rows DEF CatInit, LastEventOK
  <1>3. \A a \in Admins : tx[a].pc = "idle"
    BY Rows DEF CatInit, Writers
  <1>4. (\A a \in Admins : AdminOK(a)) /\ MetOK
    BY <1>3 DEF AdminOK, MetOK
  <1>5. QED
    BY <1>1, <1>2, <1>4 DEF SnapInv

LEMMA SnapInvStep == CatInv /\ SnapInv /\ [CatNext]_catVars => SnapInv'
  <1> SUFFICES ASSUME CatInv, SnapInv, [CatNext]_catVars PROVE SnapInv'
    OBVIOUS
  <1>1. ASSUME UNCHANGED <<row, tx, upserts, calm, priced, snapshot>>
        PROVE  SnapInv'
    BY <1>1, SnapSame, SnapStays
  <1>2. CASE UNCHANGED catVars
    BY <1>1, <1>2 DEF catVars, tables, orderModel
  <1>3. CASE StockChanged
    <2>1. \A a \in Admins : tx'[a] = tx[a]
      BY <1>3, WritersType DEF StockChanged, Writers, CatInv, TablesOK
    <2>2. UNCHANGED <<row, upserts, calm, priced, snapshot>>
      BY <1>3 DEF StockChanged, tables, orderModel
    <2>3. QED
      BY <2>1, <2>2, SnapSame, SnapStays
  <1>4. CASE StockOfUnknownProduct \/ Announce
    BY <1>1, <1>4 DEF StockOfUnknownProduct, Announce, orderModel
  <1>5. ASSUME NEW w \in Writers, Abort(w)
        PROVE  SnapInv'
    BY <1>5, SnapClose, SnapStays DEF Abort, tables, orderModel
  <1>6. ASSUME NEW w \in Writers, Commit(w)
        PROVE  SnapInv'
    BY <1>6, SnapConsumer, SnapCommit DEF Writers
  <1>7. ASSUME NEW r \in Readers, (\E k \in Keys : ReadDatabase(r, k)) \/ Fill(r)
        PROVE  SnapInv'
    BY <1>1, <1>7 DEF ReadDatabase, Fill, tables, orderModel
  <1>8. ASSUME NEW k \in Keys, Expire(k)
        PROVE  SnapInv'
    BY <1>1, <1>8 DEF Expire, tables, orderModel
  <1>9. QED
    BY <1>2, <1>3, <1>4, <1>5, <1>6, <1>7, <1>8, SnapBegin, SnapFlush, SnapDrop, SnapUpserted
       DEF CatNext

\* Checkout prices from the row of the catalog, and sells what it sells, when
\* the order service handled the last event last and the request that wrote it
\* did not overlap another admin's.
THEOREM SnapshotFollowsCorrect == CatSpec => []SnapshotFollows
  <1>1. CatInv /\ SnapInv => SnapshotFollows
    BY DEF CatInv, TablesOK, SnapInv, PricedOK, LastEventOK, SnapshotFollows
  <1>2. QED
    BY <1>1, CatInvCorrect, SnapInvInit, SnapInvStep, PTL DEF CatSpec

-----------------------------------------------------------------------------
(* PageInv: what a page shows.                                              *)

\* An entry of which nothing is known to be wrong shows the row, and nobody has
\* dropped it who has yet to commit.
EntryOK(k) ==
    cache[k] # Nothing /\ doubt[k] = "none" => cache[k] = Page /\ Dropping(k) = {}

\* So does what a reader holds that no invalidation raced.
ReadOK(r) ==
    reader[r] # NoRead /\ ~reader[r].raced =>
        reader[r].value = Page /\ Dropping(reader[r].key) = {}

PageInv == (\A k \in Keys : EntryOK(k)) /\ (\A r \in Readers : ReadOK(r))

\* A transaction that does not come to have dropped more than it had.
DropsNoMore(t, u) ==
    \/ u.pc = t.pc /\ u.kind = t.kind
    \/ u.pc \in {"idle", "flush", "dropProduct"}
    \/ u.pc = "dropListings" /\ u.kind = "create"

LEMMA DroppingStays ==
    ASSUME NEW k \in Keys, \A v \in Writers : DropsNoMore(tx[v], tx'[v])
    PROVE  Dropping(k)' \subseteq Dropping(k)
  BY DEF Dropping, DropsNoMore

LEMMA PageStays ==
    ASSUME CatInv, PageInv, UNCHANGED <<row, cache, doubt, reader>>,
           \A v \in Writers : DropsNoMore(tx[v], tx'[v])
    PROVE  PageInv'
  <1>1. Page' = Page
    BY DEF Page, OnSale
  <1>2. \A k \in Keys : Dropping(k)' \subseteq Dropping(k)
    BY DroppingStays
  <1>3. ASSUME NEW k \in Keys PROVE EntryOK(k)'
    <2>1. EntryOK(k) /\ (Dropping(k) = {} => Dropping(k)' = {})
      BY <1>2 DEF PageInv
    <2>2. QED
      BY <1>1, <2>1 DEF EntryOK
  <1>4. ASSUME NEW r \in Readers PROVE ReadOK(r)'
    <2>1. CASE reader[r] = NoRead
      BY <2>1 DEF ReadOK
    <2>2. CASE reader[r] # NoRead
      <3>1. reader[r].key \in Keys
        BY <2>2 DEF CatInv, EntriesOK, ReaderType
      <3>2. ReadOK(r) /\ (Dropping(reader[r].key) = {} => Dropping(reader[r].key)' = {})
        BY <1>2, <3>1 DEF PageInv
      <3>3. QED
        BY <1>1, <3>2 DEF ReadOK
    <2>3. QED
      BY <2>1, <2>2
  <1>5. QED
    BY <1>3, <1>4 DEF PageInv

\* An entry is dropped: readers that have read it are raced, and only it has one
\* more writer that is to commit.
LEMMA PageDrop ==
    ASSUME CatInv, PageInv, NEW k \in Keys, Drop(k), UNCHANGED row,
           \A j \in Keys \ {k} : Dropping(j)' \subseteq Dropping(j)
    PROVE  PageInv'
  <1>1. Page' = Page
    BY DEF Page, OnSale
  <1>2. /\ cache \in [Keys -> Row \cup {Empty, Nothing}]
        /\ doubt \in [Keys -> {"none", "raced", "refused"}]
        /\ \A r \in Readers : reader[r] \in ReaderType
    BY DEF CatInv, EntriesOK
  <1>3. ASSUME NEW j \in Keys PROVE EntryOK(j)'
    <2>1. CASE j = k
      BY <1>2, <2>1 DEF EntryOK, Drop
    <2>2. CASE j # k
      <3>1. cache'[j] = cache[j] /\ doubt'[j] = doubt[j]
        BY <1>2, <2>2 DEF Drop
      <3>2. EntryOK(j) /\ (Dropping(j) = {} => Dropping(j)' = {})
        BY <2>2 DEF PageInv
      <3>3. QED
        BY <1>1, <3>1, <3>2 DEF EntryOK
    <2>3. QED
      BY <2>1, <2>2
  <1>4. ASSUME NEW r \in Readers PROVE ReadOK(r)'
    <2>1. CASE reader[r].key = k
      <3>1. reader'[r].raced = TRUE
        BY <1>2, <2>1 DEF Drop, ReaderType
      <3>2. QED
        BY <3>1 DEF ReadOK
    <2>2. CASE reader[r].key # k
      <3>1. reader'[r] = reader[r]
        BY <2>2 DEF Drop
      <3>2. ReadOK(r)
        BY DEF PageInv
      <3>3. CASE reader[r] = NoRead
        BY <3>1, <3>3 DEF ReadOK
      <3>4. CASE reader[r] # NoRead
        <4>1. PICK j \in Keys \ {k} : reader[r].key = j
          BY <1>2, <2>2, <3>4 DEF ReaderType
        <4>2. Dropping(j) = {} => Dropping(j)' = {}
          BY <4>1
        <4>3. QED
          BY <1>1, <3>1, <3>2, <4>1, <4>2 DEF ReadOK
      <3>5. QED
        BY <3>3, <3>4
    <2>3. QED
      BY <2>1, <2>2
  <1>5. QED
    BY <1>3, <1>4 DEF PageInv

LEMMA PageDrops ==
    ASSUME CatInv, PageInv, NEW w \in Writers, DropProduct(w) \/ DropListings(w)
    PROVE  PageInv'
  <1>1. UNCHANGED row /\ tx'[w].kind = tx[w].kind
        /\ \A v \in Writers \ {w} : tx'[v] = tx[v]
    BY DropStep DEF SameJob
  <1>2. CASE tx[w].pc = "dropProduct" /\ tx'[w].pc = "dropListings" /\ Drop("product")
    <2>1. Dropping("listing")' \subseteq Dropping("listing")
      BY <1>1, <1>2 DEF Dropping
    <2>2. QED
      BY <1>1, <1>2, <2>1, PageDrop DEF Keys
  <1>3. CASE tx[w].pc = "dropListings" /\ tx'[w].pc = "commit" /\ Drop("listing")
    <2>1. Dropping("product")' \subseteq Dropping("product")
      BY <1>1, <1>3 DEF Dropping
    <2>2. QED
      BY <1>1, <1>3, <2>1, PageDrop DEF Keys
  <1>4. QED
    BY <1>2, <1>3, DropStep

\* A commit changes the row: by then everything that shows it was dropped, and
\* whoever had read it before was raced.
LEMMA PageCommit ==
    ASSUME CatInv, PageInv, NEW w \in Writers, Commit(w)
    PROVE  PageInv'
  <1>1. /\ tx[w].pc = "commit"
        /\ tx[w].kind = "create" => row = Nothing
        /\ UNCHANGED <<cache, doubt, reader>>
    BY DEF Commit, redis
  <1>2. /\ cache["product"] # Empty
        /\ \A r \in Readers : reader[r] \in ReaderType
    BY DEF CatInv, EntriesOK
  <1>3. \A k \in Keys : \/ Dropping(k) # {}
                        \/ k = "product" /\ Page = Empty
    <2>1. CASE tx[w].kind = "create"
      <3>1. Page = Empty
        BY <1>1, <2>1 DEF Page, OnSale
      <3>2. w \in Dropping("listing")
        BY <1>1 DEF Dropping
      <3>3. QED
        BY <3>1, <3>2 DEF Keys
    <2>2. CASE tx[w].kind # "create"
      <3>1. \A k \in Keys : w \in Dropping(k)
        BY <1>1, <2>2 DEF Dropping, Keys
      <3>2. QED
        BY <3>1
    <2>3. QED
      BY <2>1, <2>2
  <1>4. \A k \in Keys : ~(cache[k] # Nothing /\ doubt[k] = "none")
    BY <1>2, <1>3 DEF PageInv, EntryOK
  <1>5. \A r \in Readers : ~(reader[r] # NoRead /\ ~reader[r].raced)
    <2> SUFFICES ASSUME NEW r \in Readers, reader[r] # NoRead, ~reader[r].raced PROVE FALSE
      OBVIOUS
    <2>1. /\ reader[r].key \in Keys
          /\ reader[r].key = "product" => reader[r].value # Empty
      BY <1>2, Rows DEF ReaderType
    <2>2. ReadOK(r)
      BY DEF PageInv
    <2>3. QED
      BY <1>3, <2>1, <2>2 DEF ReadOK
  <1>6. QED
    BY <1>1, <1>4, <1>5 DEF PageInv, EntryOK, ReadOK

LEMMA PageRead ==
    ASSUME CatInv, PageInv, NEW r \in Readers, NEW k \in Keys, ReadDatabase(r, k)
    PROVE  PageInv'
  <1>1. /\ reader' = [reader EXCEPT ![r] = [key |-> k, value |-> Page, raced |-> Dropping(k) # {}]]
        /\ UNCHANGED <<row, tx, cache, doubt>>
    BY DEF ReadDatabase, tables, redis
  <1>2. Page' = Page /\ \A j : Dropping(j)' = Dropping(j)
    BY <1>1 DEF Page, OnSale, Dropping
  <1>3. \A j \in Keys : EntryOK(j)'
    BY <1>1, <1>2 DEF PageInv, EntryOK
  <1>4. ASSUME NEW q \in Readers PROVE ReadOK(q)'
    <2>1. CASE q = r
      <3>1. /\ reader'[r].key = k /\ reader'[r].value = Page
            /\ ~reader'[r].raced => Dropping(k) = {}
        BY <1>1 DEF CatInv, EntriesOK
      <3>2. Page' = Page /\ Dropping(k)' = Dropping(k)
        BY <1>2
      <3>3. QED
        BY <2>1, <3>1, <3>2 DEF ReadOK
    <2>2. CASE q # r
      <3>1. reader'[q] = reader[q] /\ ReadOK(q)
        BY <1>1, <2>2 DEF PageInv, CatInv, EntriesOK
      <3>2. QED
        BY <1>2, <3>1 DEF ReadOK
    <2>3. QED
      BY <2>1, <2>2
  <1>5. QED
    BY <1>3, <1>4 DEF PageInv

LEMMA PageFill ==
    ASSUME CatInv, PageInv, NEW r \in Readers, Fill(r)
    PROVE  PageInv'
  <1> DEFINE got == reader[r]
  <1>1. /\ got # NoRead
        /\ \/ /\ cache' = [cache EXCEPT ![got.key] = got.value]
              /\ doubt' = [doubt EXCEPT ![got.key] = IF got.raced THEN "raced" ELSE "none"]
           \/ UNCHANGED <<cache, doubt>>
        /\ reader' = [reader EXCEPT ![r] = NoRead]
        /\ UNCHANGED <<row, tx>>
    BY DEF Fill, tables, redis
  <1>2. Page' = Page /\ \A j : Dropping(j)' = Dropping(j)
    BY <1>1 DEF Page, OnSale, Dropping
  <1>3. /\ cache \in [Keys -> Row \cup {Empty, Nothing}]
        /\ doubt \in [Keys -> {"none", "raced", "refused"}]
        /\ reader \in [Readers -> ReaderType]
    BY DEF CatInv, EntriesOK
  <1>4. ReadOK(r)
    BY DEF PageInv
  <1> HIDE DEF got
  <1>5. ASSUME NEW k \in Keys PROVE EntryOK(k)'
    <2>1. EntryOK(k)
      BY DEF PageInv
    <2>2. CASE cache'[k] = cache[k] /\ doubt'[k] = doubt[k]
      BY <1>2, <2>1, <2>2 DEF EntryOK
    <2>3. CASE k = got.key /\ cache'[k] = got.value /\ doubt'[k] = IF got.raced THEN "raced" ELSE "none"
      BY <1>1, <1>2, <1>4, <2>3 DEF EntryOK, ReadOK, got
    <2>4. QED
      BY <1>1, <1>3, <2>2, <2>3
  <1>6. ASSUME NEW q \in Readers PROVE ReadOK(q)'
    <2>1. reader'[q] \in {reader[q], NoRead} /\ ReadOK(q)
      BY <1>1, <1>3 DEF PageInv
    <2>2. QED
      BY <1>2, <2>1 DEF ReadOK
  <1>7. QED
    BY <1>5, <1>6 DEF PageInv

LEMMA PageExpire ==
    ASSUME CatInv, PageInv, NEW k \in Keys, Expire(k)
    PROVE  PageInv'
  <1>1. /\ cache' = [cache EXCEPT ![k] = Nothing] /\ doubt' = [doubt EXCEPT ![k] = "none"]
        /\ UNCHANGED <<row, tx, reader>>
    BY DEF Expire, tables
  <1>2. Page' = Page /\ \A j : Dropping(j)' = Dropping(j)
    BY <1>1 DEF Page, OnSale, Dropping
  <1>3. ASSUME NEW j \in Keys PROVE EntryOK(j)'
    <2>1. CASE j = k
      BY <1>1, <2>1 DEF EntryOK, CatInv, EntriesOK
    <2>2. CASE j # k
      <3>1. cache'[j] = cache[j] /\ doubt'[j] = doubt[j]
        BY <1>1, <2>2 DEF CatInv, EntriesOK
      <3>2. EntryOK(j)
        BY DEF PageInv
      <3>3. QED
        BY <1>2, <3>1, <3>2 DEF EntryOK
    <2>3. QED
      BY <2>1, <2>2
  <1>4. \A r \in Readers : ReadOK(r)'
    BY <1>1, <1>2 DEF PageInv, ReadOK
  <1>5. QED
    BY <1>3, <1>4 DEF PageInv

LEMMA PageBegin ==
    ASSUME CatInv, PageInv, NEW a \in Admins, AdminRequest(a)
    PROVE  PageInv'
  <1>1. /\ tx[a] = NoTx
        /\ \E kind, new : Begin(a, kind, new)
        /\ UNCHANGED <<row, cache, doubt, reader>>
    BY DEF AdminRequest, tables, redis
  <1>2. PICK kind, new : Begin(a, kind, new)
    BY <1>1
  <1>3. tx'[a].pc = "flush" /\ \A v \in Writers \ {a} : SameJob(tx[v], tx'[v]) /\ tx'[v].pc = tx[v].pc
    <2>1. tx'[a] = Loaded(kind, new, 0, OpenAdmins # {})
      BY <1>1, <1>2, BeginMeets
    <2>2. tx'[a].pc = "flush"
      BY <2>1 DEF Loaded, NoTx
    <2>3. ASSUME NEW v \in Writers \ {a} PROVE SameJob(tx[v], tx'[v]) /\ tx'[v].pc = tx[v].pc
      <3>1. tx[v] \in TxType
        BY DEF CatInv, TablesOK
      <3>2. SameJob(tx[v], tx'[v]) /\ tx'[v] \in {tx[v], [tx[v] EXCEPT !.met = TRUE]}
        BY <1>1, <1>2, BeginMeets
      <3>3. QED
        BY <3>1, <3>2 DEF TxType
    <2>4. QED
      BY <2>2, <2>3
  <1>4. \A v \in Writers : DropsNoMore(tx[v], tx'[v])
    BY <1>3 DEF DropsNoMore, SameJob
  <1>5. QED
    BY <1>1, <1>4, PageStays

LEMMA PageFlush ==
    ASSUME CatInv, PageInv, NEW w \in Writers, Flush(w)
    PROVE  PageInv'
  <1> DEFINE pc == IF tx[w].kind = "create" THEN "dropListings" ELSE "dropProduct"
             event == CASE tx[w].kind = "stock"      -> NoEvent
                        [] tx[w].kind = "deactivate" -> Upserted(tx[w].new)
                        [] OTHER                     -> Upserted(Merged(tx[w]))
  <1>1. /\ tx' = [tx EXCEPT ![w].pc = pc, ![w].event = event]
        /\ UNCHANGED <<row, cache, doubt, reader>>
    BY DEF Flush, tables, redis
  <1>2. tx \in [Writers -> TxType]
    BY DEF CatInv, TablesOK
  <1> HIDE DEF event
  <1>3. /\ tx'[w].pc = pc /\ tx'[w].kind = tx[w].kind
        /\ \A v \in Writers \ {w} : tx'[v] = tx[v]
    BY <1>1, <1>2 DEF TxType
  <1>4. \A v \in Writers : DropsNoMore(tx[v], tx'[v])
    BY <1>3 DEF DropsNoMore
  <1>5. QED
    BY <1>1, <1>4, PageStays

LEMMA PageInvInit == CatInit => PageInv
  BY Rows DEF CatInit, PageInv, EntryOK, ReadOK

LEMMA PageInvStep == CatInv /\ PageInv /\ [CatNext]_catVars => PageInv'
  <1> SUFFICES ASSUME CatInv, PageInv, [CatNext]_catVars PROVE PageInv'
    OBVIOUS
  <1>1. ASSUME UNCHANGED <<row, tx, cache, doubt, reader>>
        PROVE  PageInv'
    BY <1>1, PageStays DEF DropsNoMore
  <1>2. CASE UNCHANGED catVars
    BY <1>1, <1>2 DEF catVars, tables, redis
  <1>3. CASE StockChanged
    <2>1. UNCHANGED <<row, cache, doubt, reader>>
      BY <1>3 DEF StockChanged, tables, redis
    <2>2. \A v \in Writers : tx'[v].pc = "flush" \/ tx'[v] = tx[v]
      BY <1>3 DEF StockChanged, CatInv, TablesOK, Loaded, NoTx
    <2>3. QED
      BY <2>1, <2>2, PageStays DEF DropsNoMore
  <1>4. CASE StockOfUnknownProduct \/ Announce \/ ProductUpserted
    BY <1>1, <1>4 DEF StockOfUnknownProduct, Announce, ProductUpserted, tables, redis
  <1>5. ASSUME NEW w \in Writers, Abort(w)
        PROVE  PageInv'
    <2>1. UNCHANGED <<row, cache, doubt, reader>> /\ Close(w)
      BY <1>5 DEF Abort, tables, redis
    <2>2. QED
      BY <2>1, CloseOK, Rows, PageStays DEF DropsNoMore
  <1>6. QED
    BY <1>2, <1>3, <1>4, <1>5, PageBegin, PageFlush, PageDrops, PageCommit, PageRead, PageFill,
       PageExpire DEF CatNext

\* What a page shows is in the row, unless it was put back by a reader that had
\* read before a COMMIT and filled after the invalidation that precedes it, or
\* Redis refused to drop it.
THEOREM PagesFollowCorrect == CatSpec => []PagesFollow
  <1>1. PageInv => PagesFollow
    BY DEF PageInv, EntryOK, PagesFollow
  <1>2. QED
    BY <1>1, CatInvCorrect, PageInvInit, PageInvStep, PTL DEF CatSpec
=============================================================================
