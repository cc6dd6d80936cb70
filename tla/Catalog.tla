------------------------------- MODULE Catalog -------------------------------
(***************************************************************************)
(* One product of the catalog service: its row, the Redis entries that     *)
(* show it, the stock copied from inventory.stock.changed, and the copy    *)
(* the order service prices from, fed by catalog.product.upserted.         *)
(* Products do not interact: rows, cache keys and event keys are per       *)
(* product, and listings are dropped as a whole.                           *)
(*                                                                         *)
(* A writer is an admin's request or the catalog consumer: it loads the    *)
(* row without a lock, flushes the columns it changed (the UPDATE locks    *)
(* the row), drops the cache entries and only then commits.  Redis may     *)
(* fail at any call; the service goes on.                                  *)
(*                                                                         *)
(* An event is handled at most once (Messaging), and otherwise whenever:   *)
(* the publisher passes over a row whose send failed, a consumer dead-     *)
(* letters what keeps failing and goes on, and an admin may replay it long *)
(* after, or never.                                                        *)
(***************************************************************************)
EXTENDS Naturals, Sequences

CONSTANTS
    Admins,      \* requests to /admin/products that may be open at a time
    Readers,     \* requests that read through the cache
    Prices,
    Stocks,      \* stock levels
    Movements,   \* the stock each inventory.stock.changed carries, as committed
    Seeded,      \* rows the seed script may have left
    MaxWrites    \* bound: admin requests

Consumer == "catalog-consumer"
Writers  == Admins \cup {Consumer}
Nobody   == "nobody"

ASSUME WritersType == Consumer \notin Admins /\ Nobody \notin Writers

VARIABLES
    row,         \* the committed products row
    lock,        \* holder of its row lock
    tx,          \* the open transaction of each writer
    announced,   \* how many stock movements inventory has announced
    taken,       \* those the consumer has handled
    shown,       \* the one of them it applied to the row last, or 0
    upserts,     \* the catalog.product.upserted events
    calm,        \* the last of them is of a request that no other overlapped
    followed,    \* those the order service has handled
    priced,      \* the one of them it handled last, or 0
    snapshot,    \* its product_snapshots row
    cache,       \* product:{id} and listing:{hash} in Redis
    doubt,       \* what may be wrong with each of these two entries
    reader,      \* what each reader has read and not cached yet
    writes       \* admin requests so far

tables  == <<row, announced, taken, shown, upserts, calm>>
orderModel == <<followed, priced, snapshot>>
redis   == <<cache, doubt>>
catVars == <<tables, lock, tx, orderModel, redis, reader, writes>>

Keys == {"product", "listing"}

Nothing == [exists |-> FALSE]
Empty   == [exists |-> FALSE, page |-> "empty"]    \* a listing without the product
Row     == [exists : {TRUE}, active : BOOLEAN, price : Prices, stock : Stocks]
Product(price, stock) ==
    [exists |-> TRUE, active |-> TRUE, price |-> price, stock |-> stock]

ASSUME CatalogBounds ==
    /\ MaxWrites \in Nat /\ Prices \subseteq Nat /\ Stocks \subseteq Nat
    /\ Movements \in Seq(Stocks) /\ Seeded \subseteq Row

\* The payload of catalog.product.upserted.
Upserted(r) == [price |-> r.price, active |-> r.active]
NoEvent     == [price |-> 0, active |-> FALSE]

\* nth: the stock event being handled.  met: another admin's request was open
\* at the same time.
NoTx == [pc |-> "idle", kind |-> "none", seen |-> Nothing, new |-> Nothing,
         event |-> NoEvent, nth |-> 0, met |-> FALSE]

NoRead == [key |-> "none", value |-> Nothing, raced |-> FALSE]

\* seed enqueues the event of each product it inserts.
CatInit ==
    /\ \/ row = Nothing /\ upserts = <<>>
       \/ row \in Seeded /\ upserts = <<Upserted(row)>>
    /\ calm = TRUE /\ lock = Nobody
    /\ tx = [w \in Writers |-> NoTx]
    /\ announced = 0 /\ taken = {} /\ shown = 0
    /\ followed = {} /\ priced = 0 /\ snapshot = NoEvent
    /\ cache = [k \in Keys |-> Nothing]
    /\ doubt = [k \in Keys |-> "none"]
    /\ reader = [r \in Readers |-> NoRead]
    /\ writes = 0

-----------------------------------------------------------------------------
(* Writers.                                                                *)

\* The writer has loaded the row and set attributes: it now wants `new'.
Loaded(kind, new, nth, met) ==
    [NoTx EXCEPT !.pc = "flush", !.kind = kind, !.seen = row, !.new = new,
                 !.nth = nth, !.met = met]

OpenAdmins == {a \in Admins : tx[a] # NoTx}

Begin(a, kind, new) ==
    tx' = [w \in Writers |->
              IF w = a THEN Loaded(kind, new, 0, OpenAdmins # {})
              ELSE IF w \in OpenAdmins THEN [tx[w] EXCEPT !.met = TRUE]
              ELSE tx[w]]

\* create_product, past the sku_exists check; cached_stock shows initial_stock.
\* update_product sets what the request names; deactivate_product is_active.
AdminRequest(a) ==
    /\ tx[a] = NoTx
    /\ writes < MaxWrites
    /\ writes' = writes + 1
    /\ \/ /\ row = Nothing
          /\ \E price \in Prices, stock \in Stocks : Begin(a, "create", Product(price, stock))
       \/ /\ row # Nothing
          /\ \/ \E price \in Prices : Begin(a, "update", [row EXCEPT !.price = price])
             \/ \E b \in BOOLEAN : Begin(a, "update", [row EXCEPT !.active = b])
             \/ Begin(a, "deactivate", [row EXCEPT !.active = FALSE])
    /\ UNCHANGED <<tables, lock, orderModel, redis, reader>>

\* on_stock_changed, for some event that was not handled yet.
StockChanged ==
    /\ tx[Consumer] = NoTx
    /\ row # Nothing
    /\ \E i \in (1 .. announced) \ taken :
           tx' = [tx EXCEPT ![Consumer] =
                     Loaded("stock", [row EXCEPT !.stock = Movements[i]], i, FALSE)]
    /\ UNCHANGED <<tables, lock, orderModel, redis, reader, writes>>

StockOfUnknownProduct ==
    /\ tx[Consumer] = NoTx
    /\ row = Nothing
    /\ \E i \in (1 .. announced) \ taken : taken' = taken \cup {i}
    /\ UNCHANGED <<row, announced, shown, upserts, calm, lock, tx, orderModel, redis, reader,
                   writes>>

\* The columns an UPDATE names: those whose value differs from the one loaded.
Changed(t) == {c \in {"active", "price", "stock"} : t.seen[c] # t.new[c]}

\* Mutant of Merged: the UPDATE names every column.
WholeRow(t) == t.new

\* The row with the writer's columns written into it.
Merged(t) ==
    IF t.kind = "create" THEN t.new
    ELSE [c \in DOMAIN row |-> IF c \in Changed(t) THEN t.new[c] ELSE row[c]]

\* flush, then _publish_product_upserted: update_product refreshes the instance
\* it publishes, deactivate_product publishes the one it loaded.
Flush(w) ==
    LET t == tx[w]
        writesRow == t.kind # "create" /\ Changed(t) # {}
    IN
    /\ t.pc = "flush"
    /\ writesRow => lock = Nobody
    /\ lock' = IF writesRow THEN w ELSE lock
    /\ tx' = [tx EXCEPT
          ![w].pc    = IF t.kind = "create" THEN "dropListings" ELSE "dropProduct",
          ![w].event = CASE t.kind = "stock"      -> NoEvent
                         [] t.kind = "deactivate" -> Upserted(t.new)
                         [] OTHER                 -> Upserted(Merged(t))]
    /\ UNCHANGED <<tables, orderModel, redis, reader, writes>>

\* DEL, or Redis fails and it is logged.  Who has read the database by now and
\* fills later puts back what is being dropped.
Drop(k) ==
    /\ \/ /\ cache' = [cache EXCEPT ![k] = Nothing]
          /\ doubt' = [doubt EXCEPT ![k] = "none"]
       \/ /\ UNCHANGED cache
          /\ doubt' = [doubt EXCEPT ![k] = IF cache[k] = Nothing THEN @ ELSE "refused"]
    /\ reader' = [r \in Readers |->
                     IF reader[r].key = k THEN [reader[r] EXCEPT !.raced = TRUE] ELSE reader[r]]

\* Mutant of DropProduct: the listings that contain the product are left alone.
DropProductOnly(w) ==
    /\ tx[w].pc = "dropProduct"
    /\ tx' = [tx EXCEPT ![w].pc = "commit"]
    /\ Drop("product")
    /\ UNCHANGED <<tables, lock, orderModel, writes>>

\* invalidate_product
DropProduct(w) ==
    /\ tx[w].pc = "dropProduct"
    /\ tx' = [tx EXCEPT ![w].pc = "dropListings"]
    /\ Drop("product")
    /\ UNCHANGED <<tables, lock, orderModel, writes>>

\* invalidate_listings
DropListings(w) ==
    /\ tx[w].pc = "dropListings"
    /\ tx' = [tx EXCEPT ![w].pc = "commit"]
    /\ Drop("listing")
    /\ UNCHANGED <<tables, lock, orderModel, writes>>

Close(w) ==
    /\ tx' = [tx EXCEPT ![w] = NoTx]
    /\ lock' = IF lock = w THEN Nobody ELSE lock

\* get_session, or BaseConsumer with its processed_events row.
Commit(w) ==
    LET t == tx[w] IN
    /\ t.pc = "commit"
    /\ t.kind = "create" => row = Nothing        \* UNIQUE(sku)
    /\ row' = Merged(t)
    /\ IF t.kind = "stock"
       THEN /\ taken' = taken \cup {t.nth} /\ shown' = t.nth
            /\ UNCHANGED <<upserts, calm>>
       ELSE /\ upserts' = Append(upserts, t.event) /\ calm' = ~t.met
            /\ UNCHANGED <<taken, shown>>
    /\ Close(w)
    /\ UNCHANGED <<announced, orderModel, redis, reader, writes>>

\* The request or the handler fails and rolls back; an event is not handled, and
\* comes again, sooner or later or never.
Abort(w) ==
    /\ tx[w] # NoTx
    /\ Close(w)
    /\ UNCHANGED <<tables, orderModel, redis, reader, writes>>

-----------------------------------------------------------------------------
(* Readers, the clock, and the services at both ends.                      *)

\* What a read of the database returns: active products only.
OnSale == row # Nothing /\ row.active
Page   == IF OnSale THEN row ELSE Empty

\* Writers that have dropped the entry and not committed yet.
Dropping(k) ==
    {w \in Writers : \/ k = "listing" /\ tx[w].pc = "commit"
                     \/ k = "product" /\ tx[w].pc \in {"dropListings", "commit"}
                                      /\ tx[w].kind # "create"}

\* get_product and list_products fall through to the database when the entry
\* is missing or Redis does not answer.  A product not found is not cached.
ReadDatabase(r, k) ==
    /\ reader[r] = NoRead
    /\ k = "product" => OnSale
    /\ reader' = [reader EXCEPT ![r] = [key |-> k, value |-> Page,
                                        raced |-> Dropping(k) # {}]]
    /\ UNCHANGED <<tables, lock, tx, orderModel, redis, writes>>

\* set_product, set_listing, or Redis fails.
Fill(r) ==
    LET got == reader[r] IN
    /\ got # NoRead
    /\ \/ /\ cache' = [cache EXCEPT ![got.key] = got.value]
          /\ doubt' = [doubt EXCEPT ![got.key] = IF got.raced THEN "raced" ELSE "none"]
       \/ UNCHANGED redis
    /\ reader' = [reader EXCEPT ![r] = NoRead]
    /\ UNCHANGED <<tables, lock, tx, orderModel, writes>>

\* ex=ttl
Expire(k) ==
    /\ cache[k] # Nothing
    /\ cache' = [cache EXCEPT ![k] = Nothing]
    /\ doubt' = [doubt EXCEPT ![k] = "none"]
    /\ UNCHANGED <<tables, lock, tx, orderModel, reader, writes>>

\* Inventory announces the stock of the product (_publish_stock_changed).
Announce ==
    /\ announced < Len(Movements)
    /\ announced' = announced + 1
    /\ UNCHANGED <<row, taken, shown, upserts, calm, lock, tx, orderModel, redis, reader,
                   writes>>

\* Mutant of UpsertSnapshot: is_active is only set when the row is inserted.
UpsertSnapshotKeepsActive(e) ==
    snapshot' = [price  |-> e.price,
                 active |-> IF snapshot = NoEvent THEN e.active ELSE snapshot.active]

\* ProductSnapshotRepository.upsert: every column is the event's, on insert
\* and on update.
UpsertSnapshot(e) == snapshot' = e

\* on_product_upserted at the order service: the event replaces the snapshot.
ProductUpserted ==
    /\ \E i \in DOMAIN upserts \ followed :
           /\ followed' = followed \cup {i}
           /\ priced' = i
           /\ UpsertSnapshot(upserts[i])
    /\ UNCHANGED <<tables, lock, tx, redis, reader, writes>>

CatNext ==
    \/ \E a \in Admins : AdminRequest(a)
    \/ StockChanged \/ StockOfUnknownProduct
    \/ \E w \in Writers : \/ Flush(w) \/ DropProduct(w) \/ DropListings(w)
                          \/ Commit(w) \/ Abort(w)
    \/ \E r \in Readers : \/ \E k \in Keys : ReadDatabase(r, k)
                          \/ Fill(r)
    \/ \E k \in Keys : Expire(k)
    \/ Announce \/ ProductUpserted

CatSpec == CatInit /\ [][CatNext]_catVars

-----------------------------------------------------------------------------

\* The row lock belongs to an open transaction.
CatTypeOK ==
    /\ row \in Row \cup {Nothing}
    /\ lock \in Writers \cup {Nobody}
    /\ lock # Nobody => tx[lock] # NoTx
    /\ \A w \in Writers : {tx[w].seen, tx[w].new} \subseteq Row \cup {Nothing}
    /\ announced \in 0 .. Len(Movements)
    /\ taken \subseteq 1 .. announced
    /\ shown \in taken \cup {0}
    /\ followed \subseteq DOMAIN upserts
    /\ priced \in followed \cup {0}
    /\ cache \in [Keys -> Row \cup {Empty, Nothing}]

\* The display stock is what the event handled last says: admins who loaded the
\* row before it, and write it back after, do not bring an older stock back.
StockFollows == shown # 0 => row.stock = Movements[shown]

\* Checkout prices from the catalog's price, and sells exactly what the catalog
\* sells, whenever the event the order service handled last is the last one and
\* the request that wrote it did not overlap another admin's.
SnapshotFollows ==
    row # Nothing /\ calm /\ priced = Len(upserts) => snapshot = Upserted(row)

\* A page that shows what is not in the row was put back by a reader that had
\* read before the writer's COMMIT and filled after its invalidation, which runs
\* first, or is one that Redis refused to drop.
PagesFollow ==
    \A k \in Keys : cache[k] # Nothing /\ doubt[k] = "none" => cache[k] = Page

\* What the sources say without these conditions; no run checks the following.
\* "A price change lands here within one event."
SnapshotWithinOneEvent ==
    row # Nothing /\ priced = Len(upserts) => snapshot = Upserted(row)

\* "A product page reflects a stock movement within one event rather than one
\* TTL": once everybody is done, if Redis answered.
PagesWithinOneEvent ==
    (\A w \in Writers : tx[w] = NoTx) /\ (\A r \in Readers : reader[r] = NoRead) =>
        \A k \in Keys : cache[k] # Nothing /\ doubt[k] # "refused" => cache[k] = Page
=============================================================================
