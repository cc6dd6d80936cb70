-------------------------- MODULE InventoryTxProofs --------------------------
(***************************************************************************)
(* The locks protect what the transactions write back: whatever the        *)
(* workers, their statements' interleaving and their rollbacks, every      *)
(* COMMIT is one of the actions of Inventory.  TxInv, which says what each *)
(* open transaction has locked and loaded and means to do, is inductive.   *)
(***************************************************************************)
EXTENDS InventoryTx, InventoryProofs, WellFoundedInduction

\* Every product has its row; what Inventory says of a missing row is not
\* repeated statement by statement.
AllTracked == Stocked = Products

Row == [available : Int, reserved : Int]
SessionType == UNION {[P -> Row] : P \in SUBSET Products}

Tx == [pc       : {"idle", "lookup", "lockReservation", "lockRows", "commit"},
       kind     : {"none", "reserve", "commit", "release", "sweep", "upsert", "adjust"},
       event    : Envelope \cup {NoEvent},
       quantity : Nat,
       batch    : SUBSET Orders,
       queue    : SUBSET [nth : Nat, product : Products],
       loaded   : SessionType,
       plan     : {"nothing", "reserve", "commit", "release", "putBack", "expire"}]

\* The rows a transaction has loaded or is going to.
RowsOf(w) == DOMAIN tx[w].loaded \cup {l.product : l \in tx[w].queue}

\* What a transaction of each kind works on.
JobOK(w) ==
    LET t == tx[w] IN
    /\ t.pc = "idle" => t = NoTx
    /\ t.pc = "lookup" => t.kind = "reserve"
    /\ t.pc = "lockReservation" => t.kind \in {"commit", "release"}
    /\ t.kind = "reserve" => /\ t.event = Event(ORDER_CREATED, t.event.order)
                             /\ t.event.order \in Orders
                             /\ t.batch = {t.event.order}
    /\ t.kind \in {"commit", "release"} => /\ t.event \in Envelope
                                           /\ t.batch = {t.event.order}
    /\ t.kind = "sweep" => /\ t.event = NoEvent
                           /\ t.batch # {} /\ Cardinality(t.batch) <= SweepBatch
    /\ t.kind \in {"upsert", "adjust"} => /\ t.event = NoEvent
                                          /\ t.quantity \in Quantities
                                          /\ t.plan = "nothing"
                                          /\ \E p \in Products : RowsOf(w) = {p}
    /\ t.plan = "reserve" => t.kind = "reserve"
    /\ t.plan \in {"commit", "release", "putBack"} => t.kind \in {"commit", "release"}
    /\ t.plan = "expire" => t.kind = "sweep"

\* It touches the stock rows of its reservations, and all of them are locked
\* and loaded when it commits.
RowsOK(w) ==
    /\ tx[w].plan # "nothing" => RowsOf(w) = UNION {Items(o) : o \in tx[w].batch}
    /\ tx[w].pc \in {"idle", "lookup", "lockReservation", "commit"} => tx[w].queue = {}
    /\ tx[w].pc \in {"idle", "lookup", "lockReservation"} =>
           tx[w].plan = "nothing" /\ DOMAIN tx[w].loaded = {}

\* The session has loaded exactly the rows it has locked, and they are current.
SessionOK(w) ==
    /\ DOMAIN tx[w].loaded = {p \in Products : rowLock[p] = w}
    /\ \A p \in DOMAIN tx[w].loaded :
           tx[w].loaded[p] = [available |-> available[p], reserved |-> reserved[p]]

\* The reservations it decided about are locked, and still what they were.
PlanOK(w) ==
    /\ tx[w].plan \in {"commit", "release", "expire"} =>
           \A o \in tx[w].batch : resLock[o] = w /\ reservation[o] = "HELD"
    /\ tx[w].plan = "putBack" =>
           \A o \in tx[w].batch : resLock[o] = w /\ reservation[o] = "COMMITTED"
    /\ tx[w].pc \in {"idle", "lookup", "lockReservation"} => \A o \in Orders : resLock[o] # w

WorkerOK(w) == JobOK(w) /\ RowsOK(w) /\ SessionOK(w) /\ PlanOK(w)

\* Whoever answered order.created, or reserved for it, has marked it handled.
AnsweredIsHandled ==
    \A o \in Orders :
        reservation[o] # "NONE" \/ Decided(o) => Event(ORDER_CREATED, o) \in handled

LocksType ==
    /\ tracked = Products
    /\ handled \subseteq Envelope
    /\ tx \in [Workers -> Tx]
    /\ rowLock \in [Products -> Workers \cup {Nobody}]
    /\ resLock \in [Orders -> Workers \cup {Nobody}]

TxInv == InvTypeOK /\ LocksType /\ AnsweredIsHandled /\ \A w \in Workers : WorkerOK(w)

-----------------------------------------------------------------------------
(* The session *)

LEMMA NoTxType == NoTx \in Tx
  <1>1. <<>> \in [{} -> Row]
    OBVIOUS
  <1>2. <<>> \in SessionType
    BY <1>1 DEF SessionType
  <1>3. QED
    BY <1>2 DEF Tx, NoTx

LEMMA SessionRow ==
    ASSUME NEW s \in SessionType
    PROVE  /\ DOMAIN s \in SUBSET Products
           /\ s \in [DOMAIN s -> Row]
           /\ \A p \in DOMAIN s : s[p] \in Row
  BY DEF SessionType

\* Loading a row adds it to the session, unless it is there already.
LEMMA LoadAdds ==
    ASSUME TxInv, NEW w \in Workers, NEW p \in Products
    PROVE  /\ Load(w, p) \in SessionType
           /\ DOMAIN Load(w, p) = DOMAIN tx[w].loaded \cup {p}
           /\ \A q \in DOMAIN tx[w].loaded : Load(w, p)[q] = tx[w].loaded[q]
           /\ p \notin DOMAIN tx[w].loaded =>
                  Load(w, p)[p] = [available |-> available[p], reserved |-> reserved[p]]
  <1> DEFINE s == tx[w].loaded
             P == DOMAIN s \cup {p}
             now == [available |-> available[p], reserved |-> reserved[p]]
  <1>1. s \in SessionType
    BY DEF TxInv, LocksType, Tx
  <1>2. DOMAIN s \in SUBSET Products /\ \A q \in DOMAIN s : s[q] \in Row
    BY <1>1, SessionRow
  <1>3. now \in Row
    BY DEF TxInv, InvTypeOK, Row
  <1>4. CASE p \in DOMAIN s
    <2>1. Load(w, p) = s
      BY <1>4 DEF Load
    <2>2. QED
      BY <1>1, <1>4, <2>1
  <1>5. CASE p \notin DOMAIN s
    <2>1. Load(w, p) = [q \in P |-> IF q = p THEN now ELSE s[q]]
      BY <1>5 DEF Load
    <2>2. Load(w, p) \in [P -> Row]
      BY <1>2, <1>3, <2>1
    <2>3. P \in SUBSET Products
      BY <1>2
    <2>4. Load(w, p) \in SessionType
      BY <2>2, <2>3 DEF SessionType
    <2>5. QED
      BY <1>5, <2>1, <2>4
  <1>6. QED
    BY <1>4, <1>5

-----------------------------------------------------------------------------
(* What the other workers rely on *)

\* Worker w leaves alone what the others have open, locked or locked for it.
LeavesOthers(w) ==
    \A v \in Workers \ {w} :
        /\ tx'[v] = tx[v]
        /\ \A p \in Products : /\ rowLock'[p] = v <=> rowLock[p] = v
                               /\ rowLock[p] = v => /\ available'[p] = available[p]
                                                    /\ reserved'[p] = reserved[p]
        /\ \A o \in Orders : /\ resLock'[o] = v <=> resLock[o] = v
                             /\ resLock[o] = v /\ reservation[o] # "NONE" =>
                                    reservation'[o] = reservation[o]

LEMMA OthersKeep ==
    ASSUME TxInv, NEW w \in Workers, LeavesOthers(w), NEW v \in Workers \ {w}
    PROVE  WorkerOK(v)'
  <1>1. WorkerOK(v) /\ tx[v] \in Tx /\ tx'[v] = tx[v]
    BY DEF TxInv, LocksType, LeavesOthers
  <1>2. JobOK(v)' /\ RowsOK(v)'
    BY <1>1 DEF WorkerOK, JobOK, RowsOK, RowsOf
  <1>3. SessionOK(v)'
    <2>1. {p \in Products : rowLock'[p] = v} = {p \in Products : rowLock[p] = v}
      BY DEF LeavesOthers
    <2>2. \A p \in DOMAIN tx[v].loaded : available'[p] = available[p] /\ reserved'[p] = reserved[p]
      BY <1>1 DEF WorkerOK, SessionOK, LeavesOthers
    <2>3. QED
      BY <1>1, <2>1, <2>2 DEF WorkerOK, SessionOK
  <1>4. PlanOK(v)'
    <2>1. tx[v].batch \subseteq Orders
      BY <1>1 DEF Tx
    <2>2. QED
      BY <1>1, <2>1 DEF WorkerOK, PlanOK, LeavesOthers
  <1>5. QED
    BY <1>2, <1>3, <1>4 DEF WorkerOK

\* So it is enough to look at the worker that moves.
LEMMA OneWorkerMoves ==
    ASSUME TxInv, NEW w \in Workers, LeavesOthers(w), InvTypeOK', LocksType', AnsweredIsHandled',
           WorkerOK(w)'
    PROVE  TxInv'
  <1>1. \A v \in Workers \ {w} : WorkerOK(v)'
    BY OthersKeep
  <1>2. QED
    BY <1>1 DEF TxInv

\* A transaction that ends, and wrote only what it had locked, leaves the others
\* alone.
LEMMA EndOfTransaction ==
    ASSUME TxInv, NEW w \in Workers, ReleaseLocks(w),
           \A p \in Products : rowLock[p] # w =>
               available'[p] = available[p] /\ reserved'[p] = reserved[p],
           \A o \in Orders : resLock[o] # w /\ reservation[o] # "NONE" =>
               reservation'[o] = reservation[o]
    PROVE  /\ LeavesOthers(w) /\ WorkerOK(w)'
           /\ tx' \in [Workers -> Tx]
           /\ rowLock' \in [Products -> Workers \cup {Nobody}]
           /\ resLock' \in [Orders -> Workers \cup {Nobody}]
  <1>1. /\ tx' = [tx EXCEPT ![w] = NoTx]
        /\ \A p \in Products : rowLock'[p] = IF rowLock[p] = w THEN Nobody ELSE rowLock[p]
        /\ \A o \in Orders : resLock'[o] = IF resLock[o] = w THEN Nobody ELSE resLock[o]
    BY DEF ReleaseLocks
  <1>2. /\ tx \in [Workers -> Tx]
        /\ rowLock \in [Products -> Workers \cup {Nobody}]
        /\ resLock \in [Orders -> Workers \cup {Nobody}]
    BY DEF TxInv, LocksType
  <1>3. tx' \in [Workers -> Tx] /\ tx'[w] = NoTx /\ \A v \in Workers \ {w} : tx'[v] = tx[v]
    BY <1>1, <1>2, NoTxType
  <1>4. /\ rowLock' \in [Products -> Workers \cup {Nobody}]
        /\ resLock' \in [Orders -> Workers \cup {Nobody}]
    BY <1>2 DEF ReleaseLocks
  <1>5. LeavesOthers(w)
    BY <1>1, <1>3, NobodyType DEF LeavesOthers
  <1>6. WorkerOK(w)'
    <2>1. \A p \in Products : rowLock'[p] # w
      BY <1>1, NobodyType
    <2>2. \A o \in Orders : resLock'[o] # w
      BY <1>1, NobodyType
    <2>3. DOMAIN NoTx.loaded = {} /\ NoTx.queue = {} /\ NoTx.plan = "nothing"
          /\ NoTx.kind = "none" /\ NoTx.pc = "idle"
      BY DEF NoTx
    <2>4. JobOK(w)'
      BY <1>3, <2>3 DEF JobOK
    <2>5. RowsOK(w)'
      BY <1>3, <2>3 DEF RowsOK
    <2>6. SessionOK(w)'
      BY <1>3, <2>1, <2>3 DEF SessionOK
    <2>7. PlanOK(w)'
      BY <1>3, <2>2, <2>3 DEF PlanOK
    <2>8. QED
      BY <2>4, <2>5, <2>6, <2>7 DEF WorkerOK
  <1>7. QED
    BY <1>3, <1>4, <1>5, <1>6

-----------------------------------------------------------------------------
(* Statements that are not a COMMIT *)

\* They leave the committed tables alone.
Uncommitted == UNCHANGED <<invVars, handled>>

LEMMA UncommittedKeeps ==
    ASSUME TxInv, Uncommitted
    PROVE  /\ InvTypeOK' /\ AnsweredIsHandled' /\ tracked' = Products /\ handled' \subseteq Envelope
           /\ \A p \in Products : available'[p] = available[p] /\ reserved'[p] = reserved[p]
           /\ reservation' = reservation
  <1>1. UNCHANGED <<tracked, available, reserved, orderLedger, adminLedger, threshold,
                    announced, reservation, invOutbox, handled>>
    BY DEF Uncommitted, invVars, stockVars
  <1>2. InvTypeOK'
    BY <1>1 DEF TxInv, InvTypeOK
  <1>3. AnsweredIsHandled'
    BY <1>1 DEF TxInv, AnsweredIsHandled, Decided
  <1>4. QED
    BY <1>1, <1>2, <1>3 DEF TxInv, LocksType

LEMMA AbortKeeps ==
    ASSUME TxInv, NEW w \in Workers, Abort(w)
    PROVE  TxInv'
  <1>1. ReleaseLocks(w) /\ Uncommitted
    BY DEF Abort, Uncommitted
  <1>2. /\ InvTypeOK' /\ AnsweredIsHandled' /\ tracked' = Products /\ handled' \subseteq Envelope
        /\ \A p \in Products : available'[p] = available[p] /\ reserved'[p] = reserved[p]
        /\ reservation' = reservation
    BY <1>1, UncommittedKeeps
  <1>3. /\ LeavesOthers(w) /\ WorkerOK(w)'
        /\ tx' \in [Workers -> Tx]
        /\ rowLock' \in [Products -> Workers \cup {Nobody}]
        /\ resLock' \in [Orders -> Workers \cup {Nobody}]
    BY <1>1, <1>2, EndOfTransaction
  <1>4. QED
    BY <1>2, <1>3, OneWorkerMoves DEF LocksType

\* A worker that only changes its own transaction leaves the others alone.
LEMMA OwnTransaction ==
    ASSUME TxInv, NEW w \in Workers, Uncommitted, UNCHANGED <<rowLock, resLock>>,
           NEW t \in Tx, tx' = [tx EXCEPT ![w] = t]
    PROVE  LeavesOthers(w) /\ InvTypeOK' /\ LocksType' /\ AnsweredIsHandled' /\ tx'[w] = t
  <1>1. /\ tx \in [Workers -> Tx]
        /\ rowLock \in [Products -> Workers \cup {Nobody}]
        /\ resLock \in [Orders -> Workers \cup {Nobody}]
    BY DEF TxInv, LocksType
  <1>2. /\ InvTypeOK' /\ AnsweredIsHandled' /\ tracked' = Products /\ handled' \subseteq Envelope
        /\ \A p \in Products : available'[p] = available[p] /\ reserved'[p] = reserved[p]
        /\ reservation' = reservation
    BY UncommittedKeeps
  <1>3. tx' \in [Workers -> Tx] /\ tx'[w] = t /\ \A v \in Workers \ {w} : tx'[v] = tx[v]
    BY <1>1
  <1>4. QED
    BY <1>1, <1>2, <1>3 DEF LocksType, LeavesOthers

\* An idle worker has no lock.
LEMMA IdleHasNoLock ==
    ASSUME TxInv, NEW w \in Workers, tx[w] = NoTx
    PROVE  /\ \A p \in Products : rowLock[p] # w
           /\ \A o \in Orders : resLock[o] # w
  <1>1. DOMAIN tx[w].loaded = {} /\ tx[w].pc = "idle"
    BY DEF NoTx
  <1>2. QED
    BY <1>1 DEF TxInv, WorkerOK, SessionOK, PlanOK

LEMMA BeginKeeps ==
    ASSUME TxInv, NEW w \in Workers, Uncommitted, UNCHANGED <<rowLock, resLock>>,
           NEW kind \in {"reserve", "commit", "release", "upsert", "adjust"},
           NEW pc \in {"lookup", "lockReservation", "lockRows"},
           NEW event \in Envelope \cup {NoEvent}, NEW n \in Nat, NEW batch \in SUBSET Orders,
           NEW queue \in SUBSET [nth : Nat, product : Products],
           Begin(w, kind, pc, event, n, batch, queue),
           pc \in {"lookup", "lockReservation"} => queue = {},
           pc = "lookup" => kind = "reserve",
           pc = "lockReservation" => kind \in {"commit", "release"},
           kind \in {"reserve", "commit", "release"} =>
               /\ event \in Envelope
               /\ kind = "reserve" => event = Event(ORDER_CREATED, event.order)
               /\ batch = {event.order},
           kind \in {"upsert", "adjust"} =>
               /\ event = NoEvent /\ n \in Quantities
               /\ \E p \in Products : {l.product : l \in queue} = {p}
    PROVE  TxInv'
  <1> DEFINE t == [NoTx EXCEPT !.kind = kind, !.pc = pc, !.event = event, !.quantity = n,
                               !.batch = batch, !.queue = queue]
  <1>1. tx[w] = NoTx /\ tx' = [tx EXCEPT ![w] = t]
    BY DEF Begin
  <1>2. /\ t \in Tx
        /\ t.pc = pc /\ t.kind = kind /\ t.event = event /\ t.quantity = n /\ t.batch = batch
        /\ t.queue = queue /\ t.loaded = NoTx.loaded /\ t.plan = NoTx.plan
    BY NoTxType DEF Tx
  <1>3. t.plan = "nothing" /\ DOMAIN t.loaded = {}
    BY <1>2 DEF NoTx
  <1> HIDE DEF t
  <1>4. /\ LeavesOthers(w) /\ InvTypeOK' /\ LocksType' /\ AnsweredIsHandled' /\ tx'[w] = t
    BY <1>1, <1>2, OwnTransaction
  <1>5. JobOK(w)'
    BY <1>2, <1>3, <1>4 DEF JobOK, RowsOf, Envelope
  <1>6. RowsOK(w)'
    BY <1>2, <1>3, <1>4 DEF RowsOK
  <1>7. SessionOK(w)'
    BY <1>1, <1>3, <1>4, IdleHasNoLock DEF SessionOK
  <1>8. PlanOK(w)'
    BY <1>1, <1>3, <1>4, IdleHasNoLock DEF PlanOK
  <1>9. QED
    BY <1>4, <1>5, <1>6, <1>7, <1>8, OneWorkerMoves DEF WorkerOK

LEMMA BeginEventKeeps ==
    ASSUME TxInv, NEW w \in Workers, NEW e \in Deliverable, BeginEvent(w, e)
    PROVE  TxInv'
  <1> DEFINE kind == Handler(e.topic)
             pc == IF kind = "reserve" THEN "lookup" ELSE "lockReservation"
  <1>1. /\ e \in Envelope /\ e.order \in Orders
        /\ e.topic = ORDER_CREATED => e = Event(ORDER_CREATED, e.order)
    <2>1. ASSUME NEW t \in {ORDER_CREATED, ORDER_CANCELLED}, NEW o \in Orders, e = Event(t, o)
          PROVE  /\ e \in Envelope /\ e.order \in Orders
                 /\ e.topic = ORDER_CREATED => e = Event(ORDER_CREATED, e.order)
      <3>1. t \in Topics
        BY DEF Topics
      <3>2. e.topic = t /\ e.order = o
        BY <2>1 DEF Event
      <3>3. QED
        BY <2>1, <3>1, <3>2, EventsAreEnvelopes
    <2>2. ASSUME NEW t \in {PAYMENT_SUCCEEDED, PAYMENT_FAILED}, NEW o \in Orders,
                 e = PaymentEvent(t, o, 1)
          PROVE  e \in Envelope /\ e.order \in Orders /\ e.topic # ORDER_CREATED
      BY <2>2 DEF PaymentEvent, Envelope, Topics, ORDER_CREATED, PAYMENT_SUCCEEDED, PAYMENT_FAILED
    <2>3. QED
      BY <2>1, <2>2 DEF Deliverable
  <1>2. /\ kind \in {"reserve", "commit", "release"}
        /\ kind = "reserve" => e.topic = ORDER_CREATED
    BY DEF Handler
  <1>3. Uncommitted /\ UNCHANGED <<rowLock, resLock>> /\ Begin(w, kind, pc, e, 0, {e.order}, {})
    BY DEF BeginEvent, Uncommitted
  <1>4. {e.order} \in SUBSET Orders /\ {} \in SUBSET [nth : Nat, product : Products] /\ 0 \in Nat
    BY <1>1
  <1>5. /\ kind \notin {"upsert", "adjust"} /\ pc \in {"lookup", "lockReservation", "lockRows"}
        /\ kind = "reserve" => e = Event(ORDER_CREATED, e.order)
        /\ pc = "lookup" => kind = "reserve"
        /\ pc = "lockReservation" => kind \in {"commit", "release"}
    BY <1>1, <1>2
  <1> HIDE DEF kind, pc
  <1>6. QED
    BY <1>1, <1>2, <1>3, <1>4, <1>5, BeginKeeps

LEMMA BeginAdminKeeps ==
    ASSUME TxInv, NEW w \in Workers, NEW kind \in {"upsert", "adjust"}, NEW p \in Products,
           NEW n \in Quantities, BeginAdmin(w, kind, p, n)
    PROVE  TxInv'
  <1> DEFINE queue == [nth : {1}, product : {p}]
  <1>1. Uncommitted /\ UNCHANGED <<rowLock, resLock>>
        /\ Begin(w, kind, "lockRows", NoEvent, n, {}, queue)
    BY DEF BeginAdmin, Uncommitted
  <1>2. queue \in SUBSET [nth : Nat, product : Products]
    OBVIOUS
  <1>3. {l.product : l \in queue} = {p}
    <2>1. [nth |-> 1, product |-> p] \in queue
      OBVIOUS
    <2>2. QED
      BY <2>1
  <1> HIDE DEF queue
  <1>4. n \in Nat /\ {} \in SUBSET Orders
    BY QuantitiesType
  <1>5. QED
    BY <1>1, <1>2, <1>3, <1>4, BeginKeeps

\* The lines of a reservation ask for the rows of its products.
LEMMA LinesAreItems ==
    ASSUME NEW n, NEW o \in Orders
    PROVE  {l.product : l \in Lines(n, o)} = Items(o)
  <1>1. \A p \in Items(o) : [nth |-> n, product |-> p] \in Lines(n, o)
    BY DEF Lines
  <1>2. \A p \in Items(o) : p \in {l.product : l \in Lines(n, o)}
    <2>1. \A p : [nth |-> n, product |-> p].product = p
      OBVIOUS
    <2>2. QED
      BY <1>1, <2>1
  <1>3. \A l \in Lines(n, o) : l.product \in Items(o)
    BY DEF Lines
  <1>4. QED
    BY <1>2, <1>3

\* Lookups and the decision on a locked reservation: the queue is that of the
\* reservation, unless there is nothing to do.
LEMMA PlanKeeps ==
    ASSUME TxInv, NEW w \in Workers, Uncommitted, UNCHANGED rowLock,
           tx[w].pc \in {"lookup", "lockReservation"},
           NEW o \in Orders, tx[w].batch = {o},
           NEW pc \in {"lockRows", "commit"}, NEW queue \in SUBSET Line,
           NEW plan \in {"nothing", "reserve", "commit", "release", "putBack"},
           tx' = [tx EXCEPT ![w].pc = pc, ![w].queue = queue, ![w].plan = plan],
           IF plan = "nothing" THEN pc = "commit" /\ queue = {}
                               ELSE pc = "lockRows" /\ queue = Lines(1, o),
           plan = "reserve" => tx[w].kind = "reserve",
           plan \in {"commit", "release", "putBack"} => tx[w].kind \in {"commit", "release"},
           tx[w].kind \notin {"upsert", "adjust"},
           \A q \in Orders : q # o => resLock'[q] = resLock[q],
           resLock[o] # resLock'[o] => resLock[o] = Nobody /\ resLock'[o] = w,
           resLock' \in [Orders -> Workers \cup {Nobody}],
           plan \in {"commit", "release"} => resLock'[o] = w /\ reservation[o] = "HELD",
           plan = "putBack" => resLock'[o] = w /\ reservation[o] = "COMMITTED"
    PROVE  TxInv'
  <1>1. tx[w] \in Tx /\ tx \in [Workers -> Tx] /\ WorkerOK(w)
        /\ rowLock \in [Products -> Workers \cup {Nobody}]
    BY DEF TxInv, LocksType
  <1>2. /\ InvTypeOK' /\ AnsweredIsHandled' /\ tracked' = Products /\ handled' \subseteq Envelope
        /\ \A p \in Products : available'[p] = available[p] /\ reserved'[p] = reserved[p]
        /\ reservation' = reservation
    BY UncommittedKeeps
  <1>3. /\ \A v \in Workers \ {w} : tx'[v] = tx[v]
        /\ tx'[w] = [tx[w] EXCEPT !.pc = pc, !.queue = queue, !.plan = plan]
    BY <1>1
  <1>4. tx'[w] \in Tx
    BY <1>1, <1>3 DEF Tx, Line
  <1>5. LocksType'
    <2>1. tx' \in [Workers -> Tx]
      BY <1>1, <1>3, <1>4
    <2>2. QED
      BY <1>1, <1>2, <2>1 DEF LocksType
  <1>6. LeavesOthers(w)
    <2>1. \A v \in Workers \ {w}, q \in Orders : resLock'[q] = v <=> resLock[q] = v
      BY NobodyType
    <2>2. QED
      BY <1>2, <1>3, <2>1 DEF LeavesOthers
  <1>7. /\ tx'[w].pc = pc /\ tx'[w].queue = queue /\ tx'[w].plan = plan
        /\ tx'[w].kind = tx[w].kind /\ tx'[w].event = tx[w].event /\ tx'[w].batch = {o}
        /\ tx'[w].loaded = tx[w].loaded /\ DOMAIN tx[w].loaded = {}
    BY <1>1, <1>3 DEF Tx, WorkerOK, RowsOK
  <1>8. JobOK(w)'
    BY <1>1, <1>7 DEF WorkerOK, JobOK
  <1>9. RowsOK(w)'
    <2>1. RowsOf(w)' = {l.product : l \in queue}
      BY <1>7 DEF RowsOf
    <2>2. plan # "nothing" => RowsOf(w)' = Items(o)
      BY <2>1, LinesAreItems
    <2>3. UNION {Items(q) : q \in {o}} = Items(o)
      OBVIOUS
    <2>4. QED
      BY <1>7, <2>2, <2>3 DEF RowsOK
  <1>10. SessionOK(w)'
    BY <1>1, <1>2, <1>7 DEF WorkerOK, SessionOK
  <1>11. PlanOK(w)'
    BY <1>2, <1>7 DEF PlanOK
  <1>12. QED
    BY <1>2, <1>5, <1>6, <1>8, <1>9, <1>10, <1>11, OneWorkerMoves DEF WorkerOK

LEMMA LinesType ==
    ASSUME NEW n \in Nat, NEW o \in Orders
    PROVE  Lines(n, o) \in SUBSET Line
  BY DEF Lines, Line, Items

LEMMA LookupKeeps ==
    ASSUME TxInv, NEW w \in Workers, LookupReservation(w)
    PROVE  TxInv'
  <1> DEFINE o == tx[w].event.order
             free == reservation[o] = "NONE"
             pc == IF free THEN "lockRows" ELSE "commit"
             queue == IF free THEN Lines(1, o) ELSE {}
             plan == IF free THEN "reserve" ELSE "nothing"
  <1>1. /\ Uncommitted /\ UNCHANGED <<rowLock, resLock>> /\ tx[w].pc = "lookup"
        /\ tx' = [tx EXCEPT ![w].pc = pc, ![w].queue = queue, ![w].plan = plan]
    BY DEF LookupReservation, Uncommitted
  <1>2. tx[w].kind = "reserve" /\ o \in Orders /\ tx[w].batch = {o}
    BY <1>1 DEF TxInv, WorkerOK, JobOK
  <1>3. queue \in SUBSET Line
    BY <1>2, LinesType
  <1>4. /\ pc \in {"lockRows", "commit"} /\ plan \in {"nothing", "reserve"}
        /\ IF plan = "nothing" THEN pc = "commit" /\ queue = {}
                               ELSE pc = "lockRows" /\ queue = Lines(1, o)
    OBVIOUS
  <1>5. resLock' \in [Orders -> Workers \cup {Nobody}]
    BY <1>1 DEF TxInv, LocksType
  <1> HIDE DEF pc, queue, plan, o
  <1>6. QED
    BY <1>1, <1>2, <1>3, <1>4, <1>5, PlanKeeps

LEMMA LockReservationKeeps ==
    ASSUME TxInv, NEW w \in Workers, LockReservation(w)
    PROVE  TxInv'
  <1> DEFINE o == tx[w].event.order
             plan == PlanFor(tx[w].kind, reservation[o])
             pc == IF plan = "nothing" THEN "commit" ELSE "lockRows"
             queue == IF plan = "nothing" THEN {} ELSE Lines(1, o)
  <1>1. /\ Uncommitted /\ UNCHANGED rowLock /\ tx[w].pc = "lockReservation"
        /\ tx' = [tx EXCEPT ![w].pc = pc, ![w].queue = queue, ![w].plan = plan]
        /\ \/ reservation[o] = "NONE" /\ UNCHANGED resLock
           \/ /\ reservation[o] # "NONE" /\ resLock[o] = Nobody
              /\ resLock' = [resLock EXCEPT ![o] = w]
    BY DEF LockReservation, Uncommitted
  <1>2. tx[w].kind \in {"commit", "release"} /\ o \in Orders /\ tx[w].batch = {o}
    BY <1>1 DEF TxInv, WorkerOK, JobOK, Envelope
  <1>3. /\ plan \in {"nothing", "commit", "release", "putBack"}
        /\ plan \in {"commit", "release"} => reservation[o] = "HELD"
        /\ plan = "putBack" => reservation[o] = "COMMITTED"
    BY <1>2 DEF PlanFor
  <1> HIDE DEF plan
  <1>4. queue \in SUBSET Line
    BY <1>2, LinesType
  <1>5. /\ pc \in {"lockRows", "commit"}
        /\ IF plan = "nothing" THEN pc = "commit" /\ queue = {}
                               ELSE pc = "lockRows" /\ queue = Lines(1, o)
    OBVIOUS
  <1>6. /\ resLock' \in [Orders -> Workers \cup {Nobody}]
        /\ \A q \in Orders : q # o => resLock'[q] = resLock[q]
        /\ resLock[o] # resLock'[o] => resLock[o] = Nobody /\ resLock'[o] = w
        /\ plan # "nothing" => resLock'[o] = w
    BY <1>1, <1>2, <1>3 DEF TxInv, LocksType
  <1> HIDE DEF pc, queue, o
  <1>7. QED
    BY <1>1, <1>2, <1>3, <1>4, <1>5, <1>6, PlanKeeps

LEMMA SelectStaleKeeps ==
    ASSUME TxInv, NEW w \in Workers, NEW S \in SUBSET Orders, NEW nth \in [S -> 1 .. SweepBatch],
           SelectStale(w, S, nth)
    PROVE  TxInv'
  <1> DEFINE queue == UNION {Lines(nth[o], o) : o \in S}
             t == [NoTx EXCEPT !.kind = "sweep", !.pc = "lockRows", !.batch = S,
                               !.plan = "expire", !.queue = queue]
  <1>1. /\ Uncommitted /\ UNCHANGED rowLock /\ tx[w] = NoTx
        /\ tx' = [tx EXCEPT ![w] = t]
        /\ S # {} /\ Cardinality(S) <= SweepBatch
        /\ \A o \in S : reservation[o] = "HELD" /\ resLock[o] = Nobody
        /\ resLock' = [o \in Orders |-> IF o \in S THEN w ELSE resLock[o]]
    BY DEF SelectStale, Uncommitted
  <1>2. queue \in SUBSET Line
    <2>1. \A o \in S : nth[o] \in Nat
      BY BoundsType
    <2>2. QED
      BY <2>1, LinesType
  <1>3. {l.product : l \in queue} = UNION {Items(o) : o \in S}
    <2>1. \A o \in S : {l.product : l \in Lines(nth[o], o)} = Items(o)
      BY LinesAreItems
    <2>2. QED
      BY <2>1
  <1> HIDE DEF queue
  <1>4. /\ t \in Tx
        /\ t.pc = "lockRows" /\ t.kind = "sweep" /\ t.event = NoTx.event /\ t.batch = S
        /\ t.queue = queue /\ t.loaded = NoTx.loaded /\ t.plan = "expire"
    BY <1>2, NoTxType DEF Tx, Line
  <1>5. t.event = NoEvent /\ DOMAIN t.loaded = {}
    BY <1>4 DEF NoTx
  <1> HIDE DEF t
  <1>6. /\ tx \in [Workers -> Tx]
        /\ rowLock \in [Products -> Workers \cup {Nobody}]
        /\ resLock \in [Orders -> Workers \cup {Nobody}]
    BY DEF TxInv, LocksType
  <1>7. tx'[w] = t /\ \A v \in Workers \ {w} : tx'[v] = tx[v]
    BY <1>1, <1>6
  <1>8. /\ InvTypeOK' /\ AnsweredIsHandled' /\ tracked' = Products /\ handled' \subseteq Envelope
        /\ \A p \in Products : available'[p] = available[p] /\ reserved'[p] = reserved[p]
        /\ reservation' = reservation
    BY <1>1, UncommittedKeeps
  <1>9. LocksType'
    <2>1. tx' \in [Workers -> Tx]
      BY <1>1, <1>4, <1>6
    <2>2. resLock' \in [Orders -> Workers \cup {Nobody}]
      BY <1>1, <1>6
    <2>3. QED
      BY <1>1, <1>6, <1>8, <2>1, <2>2 DEF LocksType
  <1>10. LeavesOthers(w)
    <2>1. \A v \in Workers \ {w}, q \in Orders : resLock'[q] = v <=> resLock[q] = v
      BY <1>1, NobodyType
    <2>2. QED
      BY <1>1, <1>7, <1>8, <2>1 DEF LeavesOthers
  <1>11. JobOK(w)'
    BY <1>1, <1>4, <1>5, <1>7 DEF JobOK
  <1>12. RowsOK(w)'
    BY <1>3, <1>4, <1>5, <1>7 DEF RowsOK, RowsOf
  <1>13. SessionOK(w)'
    BY <1>1, <1>5, <1>7, IdleHasNoLock DEF SessionOK
  <1>14. PlanOK(w)'
    BY <1>1, <1>4, <1>7, <1>8 DEF PlanOK
  <1>15. QED
    BY <1>8, <1>9, <1>10, <1>11, <1>12, <1>13, <1>14, OneWorkerMoves DEF WorkerOK

LEMMA LockRowKeeps ==
    ASSUME TxInv, NEW w \in Workers, LockRow(w)
    PROVE  TxInv'
  <1>1. PICK l \in tx[w].queue : rowLock[l.product] \in {Nobody, w} /\ Locked(w, l)
    BY DEF LockRow
  <1> DEFINE p == l.product
             pc == IF tx[w].queue = {l} THEN "commit" ELSE "lockRows"
  <1>2. /\ tx \in [Workers -> Tx] /\ tx[w] \in Tx /\ WorkerOK(w) /\ tx[w].pc = "lockRows"
        /\ rowLock \in [Products -> Workers \cup {Nobody}]
        /\ resLock \in [Orders -> Workers \cup {Nobody}]
    BY DEF TxInv, LocksType, LockRow
  <1>3. p \in Products
    BY <1>2 DEF Tx
  <1>4. /\ Uncommitted /\ UNCHANGED resLock
        /\ rowLock' = [rowLock EXCEPT ![p] = w]
        /\ tx' = [tx EXCEPT ![w].loaded = Load(w, p), ![w].queue = @ \ {l}, ![w].pc = pc]
    BY <1>1 DEF Locked, Uncommitted
  <1> DEFINE t == [tx[w] EXCEPT !.loaded = Load(w, p), !.queue = @ \ {l}, !.pc = pc]
  <1>5. /\ Load(w, p) \in SessionType
        /\ DOMAIN Load(w, p) = DOMAIN tx[w].loaded \cup {p}
        /\ \A q \in DOMAIN tx[w].loaded : Load(w, p)[q] = tx[w].loaded[q]
        /\ p \notin DOMAIN tx[w].loaded =>
               Load(w, p)[p] = [available |-> available[p], reserved |-> reserved[p]]
    BY <1>3, LoadAdds
  <1>6. /\ t \in Tx
        /\ t.pc = pc /\ t.kind = tx[w].kind /\ t.event = tx[w].event
        /\ t.quantity = tx[w].quantity /\ t.batch = tx[w].batch /\ t.plan = tx[w].plan
        /\ t.queue = tx[w].queue \ {l} /\ t.loaded = Load(w, p)
    BY <1>2, <1>5 DEF Tx
  <1>7. tx'[w] = t /\ \A v \in Workers \ {w} : tx'[v] = tx[v]
    BY <1>2, <1>4
  <1>8. tx' \in [Workers -> Tx]
    BY <1>2, <1>4, <1>6, <1>7
  <1> HIDE DEF t
  <1>9. /\ InvTypeOK' /\ AnsweredIsHandled' /\ tracked' = Products /\ handled' \subseteq Envelope
        /\ \A q \in Products : available'[q] = available[q] /\ reserved'[q] = reserved[q]
        /\ reservation' = reservation
    BY <1>4, UncommittedKeeps
  <1>10. LocksType'
    BY <1>2, <1>3, <1>4, <1>8, <1>9 DEF LocksType
  <1>11. LeavesOthers(w)
    <2>1. \A v \in Workers \ {w}, q \in Products : rowLock'[q] = v <=> rowLock[q] = v
      BY <1>1, <1>2, <1>3, <1>4, NobodyType
    <2>2. QED
      BY <1>4, <1>7, <1>9, <2>1 DEF LeavesOthers
  <1>12. RowsOf(w)' = RowsOf(w)
    <2>1. RowsOf(w)' = DOMAIN Load(w, p) \cup {k.product : k \in tx[w].queue \ {l}}
      BY <1>6, <1>7 DEF RowsOf
    <2>2. QED
      BY <1>1, <1>5, <2>1 DEF RowsOf
  <1>13. JobOK(w)'
    <2>1. JobOK(w) /\ t.pc \in {"commit", "lockRows"}
      BY <1>2, <1>6 DEF WorkerOK
    <2>2. QED
      BY <1>6, <1>7, <1>12, <2>1 DEF JobOK
  <1>14. RowsOK(w)'
    <2>1. RowsOK(w) /\ t.pc \in {"commit", "lockRows"} /\ (t.pc = "commit" => t.queue = {})
      BY <1>2, <1>6 DEF WorkerOK
    <2>2. QED
      BY <1>6, <1>7, <1>12, <2>1 DEF RowsOK
  <1>15. SessionOK(w)'
    <2>1. SessionOK(w)
      BY <1>2 DEF WorkerOK
    <2>2. {q \in Products : rowLock'[q] = w} = {q \in Products : rowLock[q] = w} \cup {p}
      BY <1>2, <1>3, <1>4
    <2>3. QED
      BY <1>5, <1>6, <1>7, <1>9, <2>1, <2>2 DEF SessionOK
  <1>16. PlanOK(w)'
    <2>1. PlanOK(w) /\ t.pc \in {"commit", "lockRows"}
      BY <1>2, <1>6 DEF WorkerOK
    <2>2. QED
      BY <1>4, <1>6, <1>7, <1>9, <2>1 DEF PlanOK
  <1>17. QED
    BY <1>9, <1>10, <1>11, <1>13, <1>14, <1>15, <1>16, OneWorkerMoves DEF WorkerOK

-----------------------------------------------------------------------------
(* COMMIT *)

\* The rows a transaction has loaded, when it commits.
LEMMA LoadedAtCommit ==
    ASSUME TxInv, NEW w \in Workers, tx[w].pc = "commit"
    PROVE  /\ DOMAIN tx[w].loaded = RowsOf(w)
           /\ tx[w].plan # "nothing" =>
                  DOMAIN tx[w].loaded = UNION {Items(o) : o \in tx[w].batch}
           /\ DOMAIN tx[w].loaded \in SUBSET Products
           /\ \A p \in DOMAIN tx[w].loaded : /\ rowLock[p] = w
                                            /\ tx[w].loaded[p].available = available[p]
                                            /\ tx[w].loaded[p].reserved = reserved[p]
  <1>1. WorkerOK(w) /\ tx[w].queue = {}
    BY DEF TxInv, WorkerOK, RowsOK
  <1>2. DOMAIN tx[w].loaded = RowsOf(w)
    BY <1>1 DEF RowsOf
  <1>3. tx[w].plan # "nothing" => DOMAIN tx[w].loaded = UNION {Items(o) : o \in tx[w].batch}
    BY <1>1, <1>2 DEF WorkerOK, RowsOK
  <1>4. \A p \in DOMAIN tx[w].loaded :
            tx[w].loaded[p] = [available |-> available[p], reserved |-> reserved[p]]
    BY <1>1 DEF WorkerOK, SessionOK
  <1>5. \A p \in DOMAIN tx[w].loaded :
            tx[w].loaded[p].available = available[p] /\ tx[w].loaded[p].reserved = reserved[p]
    <2> SUFFICES ASSUME NEW p \in DOMAIN tx[w].loaded
                 PROVE  tx[w].loaded[p].available = available[p] /\ tx[w].loaded[p].reserved = reserved[p]
      OBVIOUS
    <2> DEFINE r == tx[w].loaded[p]
    <2>1. r = [available |-> available[p], reserved |-> reserved[p]]
      BY <1>4
    <2> HIDE DEF r
    <2>2. r.available = available[p] /\ r.reserved = reserved[p]
      BY <2>1
    <2>3. QED
      BY <2>2 DEF r
  <1>6. DOMAIN tx[w].loaded \in SUBSET Products
    BY SessionRow DEF TxInv, LocksType, Tx
  <1>7. \A p \in DOMAIN tx[w].loaded : rowLock[p] = w
    BY <1>1 DEF WorkerOK, SessionOK
  <1>8. QED
    BY <1>2, <1>3, <1>5, <1>6, <1>7

\* What the flush writes: its instances are the committed rows, so it adds the
\* difference to them, and touches no row that another worker has locked.
LEMMA FlushWrites ==
    ASSUME TxInv, NEW w \in Workers, tx[w].pc = "commit",
           NEW da, NEW dr, NEW Low, Flush(w, da, dr, Low),
           \A p \in Products : da[p] \in Int /\ dr[p] \in Int
    PROVE  /\ available' = [p \in Products |-> IF p \in DOMAIN tx[w].loaded
                                               THEN available[p] + da[p] ELSE available[p]]
           /\ reserved' = [p \in Products |-> IF p \in DOMAIN tx[w].loaded
                                              THEN reserved[p] + dr[p] ELSE reserved[p]]
           /\ PublishStockChanged(DOMAIN tx[w].loaded, Low)
           /\ tracked' = tracked
           /\ \A p \in Products : rowLock[p] # w =>
                  available'[p] = available[p] /\ reserved'[p] = reserved[p]
  <1> DEFINE s == tx[w].loaded
             P == DOMAIN s
  <1>1. /\ P \in SUBSET Products
        /\ \A p \in P : /\ rowLock[p] = w
                        /\ s[p].available = available[p] /\ s[p].reserved = reserved[p]
    BY LoadedAtCommit
  <1>2. /\ available \in [Products -> Int] /\ reserved \in [Products -> Int]
        /\ announced \in [Products -> [available : Int, reserved : Int, low : BOOLEAN]]
    BY DEF TxInv, InvTypeOK
  <1>3. /\ available' = [p \in Products |->
                            IF p \in P /\ da[p] # 0 THEN s[p].available + da[p] ELSE available[p]]
        /\ reserved' = [p \in Products |->
                            IF p \in P /\ dr[p] # 0 THEN s[p].reserved + dr[p] ELSE reserved[p]]
        /\ announced' = [p \in Products |->
              IF p \in P THEN [available |-> s[p].available + da[p],
                               reserved  |-> s[p].reserved + dr[p],
                               low       |-> p \in Low]
                         ELSE announced[p]]
        /\ UNCHANGED tracked
    BY DEF Flush
  <1> HIDE DEF s
  <1>4. available' = [p \in Products |-> IF p \in P THEN available[p] + da[p] ELSE available[p]]
    BY <1>1, <1>2, <1>3
  <1>5. reserved' = [p \in Products |-> IF p \in P THEN reserved[p] + dr[p] ELSE reserved[p]]
    BY <1>1, <1>2, <1>3
  <1>6. PublishStockChanged(P, Low)
    <2>1. \A p \in P : /\ s[p].available + da[p] = available'[p]
                       /\ s[p].reserved + dr[p] = reserved'[p]
      BY <1>1, <1>4, <1>5
    <2>2. announced' = [p \in Products |->
              IF p \in P THEN [available |-> available'[p], reserved |-> reserved'[p],
                               low |-> p \in Low]
                         ELSE announced[p]]
      BY <1>1, <1>3, <2>1
    <2>3. QED
      BY <2>2 DEF PublishStockChanged
  <1>7. QED
    BY <1>1, <1>3, <1>4, <1>5, <1>6 DEF s

LEMMA LowRowsAreLow ==
    ASSUME TxInv, NEW w \in Workers, tx[w].pc = "commit", NEW da,
           available' = [p \in Products |-> IF p \in DOMAIN tx[w].loaded
                                            THEN available[p] + da[p] ELSE available[p]]
    PROVE  LowRows(w, da) = MaybePublishLowStock(DOMAIN tx[w].loaded)
  BY LoadedAtCommit DEF LowRows, MaybePublishLowStock

\* A COMMIT that is a step of Inventory, wrote no row and decided on no
\* reservation that another worker has locked, and marks what it answered.
LEMMA CommitKeeps ==
    ASSUME TxInv, NEW w \in Workers, MarkAndCommit(w), [InvNext]_invVars, tracked' = tracked,
           \A p \in Products : rowLock[p] # w =>
               available'[p] = available[p] /\ reserved'[p] = reserved[p],
           \A o \in Orders : resLock[o] # w /\ reservation[o] # "NONE" =>
               reservation'[o] = reservation[o],
           \A o \in Orders :
               \/ tx[w].event = Event(ORDER_CREATED, o)
               \/ reservation'[o] # "NONE" \/ Decided(o)' => reservation[o] # "NONE" \/ Decided(o)
    PROVE  TxInv'
  <1>1. ReleaseLocks(w) /\ tx[w].event \in Envelope \cup {NoEvent}
        /\ handled' = IF tx[w].event = NoEvent THEN handled ELSE handled \cup {tx[w].event}
    BY DEF MarkAndCommit, TxInv, LocksType, Tx
  <1>2. /\ LeavesOthers(w) /\ WorkerOK(w)'
        /\ tx' \in [Workers -> Tx]
        /\ rowLock' \in [Products -> Workers \cup {Nobody}]
        /\ resLock' \in [Orders -> Workers \cup {Nobody}]
    BY <1>1, EndOfTransaction
  <1>3. InvTypeOK'
    BY InvTypeStep DEF TxInv
  <1>4. LocksType'
    BY <1>1, <1>2 DEF TxInv, LocksType
  <1>5. AnsweredIsHandled'
    <2> SUFFICES ASSUME NEW o \in Orders, reservation'[o] # "NONE" \/ Decided(o)'
                 PROVE  Event(ORDER_CREATED, o) \in handled'
      BY DEF AnsweredIsHandled
    <2>1. CASE tx[w].event = Event(ORDER_CREATED, o)
      <3>1. tx[w].event # NoEvent
        <4>1. tx[w].event.topic = ORDER_CREATED /\ NoEvent.topic = "none"
          BY <2>1 DEF Event, NoEvent
        <4>2. QED
          BY <4>1 DEF ORDER_CREATED
      <3>2. QED
        BY <1>1, <2>1, <3>1
    <2>2. CASE reservation[o] # "NONE" \/ Decided(o)
      <3>1. Event(ORDER_CREATED, o) \in handled
        BY <2>2 DEF TxInv, AnsweredIsHandled
      <3>2. QED
        BY <1>1, <3>1
    <2>3. QED
      BY <2>1, <2>2
  <1>6. QED
    BY <1>2, <1>3, <1>4, <1>5, OneWorkerMoves

-----------------------------------------------------------------------------
(* Every COMMIT is a step of Inventory *)

LEMMA CommitNothingKeeps ==
    ASSUME TxInv, NEW w \in Workers, CommitNothing(w)
    PROVE  TxInv' /\ UNCHANGED invVars
  <1>1. MarkAndCommit(w) /\ UNCHANGED invVars
    BY DEF CommitNothing
  <1>2. UNCHANGED <<tracked, available, reserved, reservation, invOutbox>>
    BY <1>1 DEF invVars, stockVars
  <1>3. \A o \in Orders : reservation'[o] # "NONE" \/ Decided(o)' => reservation[o] # "NONE" \/ Decided(o)
    BY <1>2 DEF Decided
  <1>4. QED
    BY <1>1, <1>2, <1>3, CommitKeeps

\* The order a transaction of reserve works on, which has no answer yet: it
\* would be marked otherwise.
LEMMA Reserving ==
    ASSUME TxInv, NEW w \in Workers, tx[w].plan = "reserve", MarkAndCommit(w)
    PROVE  LET o == tx[w].event.order IN
           /\ o \in Orders /\ tx[w].batch = {o} /\ tx[w].event = Event(ORDER_CREATED, o)
           /\ reservation[o] = "NONE" /\ ~Decided(o)
           /\ DOMAIN tx[w].loaded = Items(o)
           /\ Short(w) <=> Insufficient(o) # {}
  <1> DEFINE o == tx[w].event.order
  <1>1. o \in Orders /\ tx[w].batch = {o} /\ tx[w].event = Event(ORDER_CREATED, o)
    BY DEF TxInv, WorkerOK, JobOK
  <1>2. reservation[o] = "NONE" /\ ~Decided(o)
    BY <1>1 DEF TxInv, AnsweredIsHandled, MarkAndCommit
  <1>3. tx[w].pc = "commit"
    BY DEF MarkAndCommit
  <1>4. DOMAIN tx[w].loaded = Items(o)
    <2>1. DOMAIN tx[w].loaded = UNION {Items(q) : q \in {o}}
      BY <1>1, <1>3, LoadedAtCommit
    <2>2. UNION {Items(q) : q \in {o}} = Items(o)
      OBVIOUS
    <2>3. QED
      BY <2>1, <2>2
  <1>5. \A p \in Items(o) : tx[w].loaded[p].available = available[p] /\ p \in tracked
    <2>1. Items(o) \subseteq Products
      BY DEF Items
    <2>2. QED
      BY <1>3, <1>4, <2>1, LoadedAtCommit DEF TxInv, LocksType
  <1>6. Short(w) <=> Insufficient(o) # {}
    BY <1>4, <1>5 DEF Short, Insufficient
  <1>7. QED
    BY <1>1, <1>2, <1>4, <1>6

LEMMA CommitReserveFailsKeeps ==
    ASSUME TxInv, NEW w \in Workers, CommitReserveFails(w)
    PROVE  TxInv' /\ InvNext
  <1> DEFINE o == tx[w].event.order
  <1>1. MarkAndCommit(w) /\ tx[w].plan = "reserve" /\ Short(w)
        /\ invOutbox' = invOutbox \cup {Event(INVENTORY_RESERVATION_FAILED, o)}
        /\ UNCHANGED <<stockVars, reservation>>
    BY DEF CommitReserveFails
  <1>2. /\ o \in Orders /\ tx[w].event = Event(ORDER_CREATED, o)
        /\ reservation[o] = "NONE" /\ ~Decided(o) /\ Insufficient(o) # {}
    BY <1>1, Reserving
  <1> HIDE DEF o
  <1>3. InvNext
    BY <1>1, <1>2 DEF ReserveFails, Reserve, InvNext
  <1>4. UNCHANGED <<tracked, available, reserved, reservation>>
    BY <1>1 DEF stockVars
  <1>5. \A q \in Orders \ {o} : Decided(q)' => Decided(q)
    BY <1>1, <1>2 DEF Decided, Event, INVENTORY_RESERVED, INVENTORY_RESERVATION_FAILED
  <1>6. TxInv'
    BY <1>1, <1>2, <1>3, <1>4, <1>5, CommitKeeps
  <1>7. QED
    BY <1>3, <1>6

\* A batch wants nothing of the rows it did not load, so what it gives back or
\* takes can be added to every row.
LEMMA BatchRows ==
    ASSUME NEW S \in SUBSET Orders, NEW p \in Products, NEW x \in Int, NEW k \in {-1, 0, 1}
    PROVE  (IF p \in UNION {Items(o) : o \in S} THEN x + k * Units(S, p) ELSE x)
               = x + k * Units(S, p)
  <1>1. CASE p \in UNION {Items(o) : o \in S}
    BY <1>1
  <1>2. CASE p \notin UNION {Items(o) : o \in S}
    <2>1. Units(S, p) = 0
      BY <1>2, UnitsUntouched
    <2>2. x + k * 0 = x
      OBVIOUS
    <2>3. QED
      BY <1>2, <2>1, <2>2
  <1>3. QED
    BY <1>1, <1>2

\* A difference of k times the units of the batch S.
IsUnits(d, k, S) == \A p \in Products : d[p] = k * Units(S, p)

\* What a transaction that works on the batch S writes to the stock rows.
BatchWritten(w, S, k, j, da, Low) ==
    /\ S \in SUBSET Orders
    /\ available' = [p \in Products |-> available[p] + k * Units(S, p)]
    /\ reserved' = [p \in Products |-> reserved[p] + j * Units(S, p)]
    /\ PublishStockChanged(UNION {Items(o) : o \in S}, Low)
    /\ LowRows(w, da) = MaybePublishLowStock(UNION {Items(o) : o \in S})
    /\ tracked' = tracked
    /\ \A p \in Products : rowLock[p] # w =>
           available'[p] = available[p] /\ reserved'[p] = reserved[p]

LEMMA BatchFlush ==
    ASSUME TxInv, NEW w \in Workers, MarkAndCommit(w), tx[w].plan # "nothing",
           NEW S, S = tx[w].batch,
           NEW k \in {-1, 0, 1}, NEW j \in {-1, 0, 1}, NEW da, NEW dr, NEW Low,
           Flush(w, da, dr, Low), IsUnits(da, k, S), IsUnits(dr, j, S)
    PROVE  BatchWritten(w, S, k, j, da, Low)
  <1> DEFINE P == UNION {Items(o) : o \in S}
  <1>1. S \in SUBSET Orders /\ tx[w].pc = "commit"
    BY DEF MarkAndCommit, TxInv, LocksType, Tx
  <1>2. DOMAIN tx[w].loaded = P
    BY <1>1, LoadedAtCommit
  <1>3. \A p \in Products : Units(S, p) \in Nat
    BY <1>1, UnitsFinite
  <1>4. \A p \in Products : da[p] \in Int /\ dr[p] \in Int
    BY <1>3 DEF IsUnits
  <1>5. /\ available' = [p \in Products |-> IF p \in DOMAIN tx[w].loaded
                                            THEN available[p] + da[p] ELSE available[p]]
        /\ reserved' = [p \in Products |-> IF p \in DOMAIN tx[w].loaded
                                           THEN reserved[p] + dr[p] ELSE reserved[p]]
        /\ PublishStockChanged(DOMAIN tx[w].loaded, Low)
        /\ tracked' = tracked
        /\ \A p \in Products : rowLock[p] # w =>
               available'[p] = available[p] /\ reserved'[p] = reserved[p]
    BY <1>1, <1>4, FlushWrites
  <1>6. /\ available' = [p \in Products |-> IF p \in P THEN available[p] + k * Units(S, p)
                                                     ELSE available[p]]
        /\ reserved' = [p \in Products |-> IF p \in P THEN reserved[p] + j * Units(S, p)
                                                    ELSE reserved[p]]
    BY <1>2, <1>5 DEF IsUnits
  <1>7. available \in [Products -> Int] /\ reserved \in [Products -> Int]
    BY DEF TxInv, InvTypeOK
  <1>8. available' = [p \in Products |-> available[p] + k * Units(S, p)]
    <2>1. \A p \in Products : (IF p \in P THEN available[p] + k * Units(S, p) ELSE available[p])
                                 = available[p] + k * Units(S, p)
      BY <1>1, <1>7, BatchRows
    <2>2. QED
      BY <1>6, <2>1
  <1>9. reserved' = [p \in Products |-> reserved[p] + j * Units(S, p)]
    <2>1. \A p \in Products : (IF p \in P THEN reserved[p] + j * Units(S, p) ELSE reserved[p])
                                 = reserved[p] + j * Units(S, p)
      BY <1>1, <1>7, BatchRows
    <2>2. QED
      BY <1>6, <2>1
  <1>10. LowRows(w, da) = MaybePublishLowStock(P)
    <2>1. LowRows(w, da) = MaybePublishLowStock(DOMAIN tx[w].loaded)
      BY <1>1, <1>5, LowRowsAreLow
    <2>2. QED
      BY <1>2, <2>1
  <1>11. QED
    BY <1>1, <1>2, <1>5, <1>8, <1>9, <1>10 DEF BatchWritten

LEMMA OneOrderItems ==
    ASSUME NEW o
    PROVE  UNION {Items(q) : q \in {o}} = Items(o)
  OBVIOUS

LEMMA OneOrderUnits ==
    ASSUME NEW o \in Orders, NEW p \in Products
    PROVE  /\ Minus({o})[p] = (-1) * Units({o}, p) /\ Plus({o})[p] = 1 * Units({o}, p)
           /\ Zero[p] = 0 * Units({o}, p)
           /\ Units({o}, p) = Wanted[o][p] /\ Wanted[o][p] \in Nat
  <1>1. Units({o}, p) = Wanted[o][p] /\ Wanted[o][p] \in Nat
    BY UnitsSingle, WantedType
  <1>2. Minus({o})[p] = -Units({o}, p) /\ Plus({o})[p] = Units({o}, p) /\ Zero[p] = 0
    BY DEF Minus, Plus, Zero
  <1>3. QED
    BY <1>1, <1>2

LEMMA CommitReserveHoldsKeeps ==
    ASSUME TxInv, NEW w \in Workers, CommitReserveHolds(w)
    PROVE  TxInv' /\ InvNext
  <1> DEFINE o == tx[w].event.order
             S == tx[w].batch
             da == Minus(S)
             dr == Plus(S)
             low == LowRows(w, da)
  <1>1. /\ tx[w].plan = "reserve" /\ ~Short(w) /\ MarkAndCommit(w)
        /\ UNCHANGED threshold
        /\ Flush(w, da, dr, low)
        /\ FlushOrderLedger(w, -1)
        /\ SetStatus(w, "HELD")
        /\ invOutbox' = invOutbox \cup {Event(INVENTORY_RESERVED, o)}
    BY DEF CommitReserveHolds
  <1>2. /\ o \in Orders /\ S = {o} /\ tx[w].event = Event(ORDER_CREATED, o)
        /\ reservation[o] = "NONE" /\ ~Decided(o) /\ Insufficient(o) = {}
    BY <1>1, Reserving
  <1>3. \A p \in Products : /\ da[p] = (-1) * Units(S, p) /\ dr[p] = 1 * Units(S, p)
                            /\ Units(S, p) = Wanted[o][p] /\ Wanted[o][p] \in Nat
    BY <1>2, OneOrderUnits
  <1>4. UNION {Items(q) : q \in S} = Items(o)
    BY <1>2, OneOrderItems
  <1>5. /\ available' = [p \in Products |-> available[p] + (-1) * Units(S, p)]
        /\ reserved' = [p \in Products |-> reserved[p] + 1 * Units(S, p)]
        /\ PublishStockChanged(Items(o), low)
        /\ low = MaybePublishLowStock(Items(o))
        /\ tracked' = tracked
        /\ \A p \in Products : rowLock[p] # w =>
               available'[p] = available[p] /\ reserved'[p] = reserved[p]
    <2>1. S = tx[w].batch /\ low = LowRows(w, da) /\ tx[w].plan # "nothing" /\ MarkAndCommit(w)
          /\ Flush(w, da, dr, low)
      BY <1>1
    <2> HIDE DEF o, S, da, dr, low
    <2>2. BatchWritten(w, S, -1, 1, da, low)
      BY <1>3, <2>1, BatchFlush DEF IsUnits
    <2>3. QED
      BY <1>4, <2>1, <2>2 DEF BatchWritten
  <1> HIDE DEF o, S, da, dr, low
  <1>6. /\ available \in [Products -> Int] /\ reserved \in [Products -> Int]
        /\ reservation \in [Orders -> ReservationStatus \cup {"NONE"}]
        /\ orderLedger \in [Orders -> [Products -> Int]]
    BY DEF TxInv, InvTypeOK
  <1>7. /\ available' = [p \in Products |-> available[p] - Wanted[o][p]]
        /\ reserved'  = [p \in Products |-> reserved[p] + Wanted[o][p]]
    BY <1>3, <1>5, <1>6
  <1>8. reservation' = [reservation EXCEPT ![o] = "HELD"]
    BY <1>1, <1>2, <1>6 DEF SetStatus, S
  <1>9. orderLedger' = [orderLedger EXCEPT ![o] = [p \in Products |-> @[p] - Wanted[o][p]]]
        /\ UNCHANGED adminLedger
    <2>1. orderLedger' = [q \in Orders |->
              IF q \in {o} THEN [p \in Products |-> orderLedger[q][p] + (-1) * Wanted[q][p]]
                           ELSE orderLedger[q]]
          /\ UNCHANGED adminLedger
      BY <1>1, <1>2 DEF FlushOrderLedger, S
    <2>2. [p \in Products |-> orderLedger[o][p] + (-1) * Wanted[o][p]]
              = [p \in Products |-> orderLedger[o][p] - Wanted[o][p]]
      BY <1>2, <1>3, <1>6
    <2>3. QED
      BY <1>2, <1>6, <2>1, <2>2
  <1>10. ReserveHolds(o)
    BY <1>1, <1>2, <1>5, <1>7, <1>8, <1>9 DEF ReserveHolds
  <1>11. InvNext
    BY <1>2, <1>10 DEF Reserve, InvNext
  <1>12. \A q \in Orders \ {o} : /\ Decided(q)' => Decided(q)
                                /\ reservation'[q] = reservation[q]
    BY <1>1, <1>2, <1>6, <1>8 DEF Decided, Event
  <1>13. TxInv'
    BY <1>1, <1>2, <1>5, <1>11, <1>12, CommitKeeps
  <1>14. QED
    BY <1>11, <1>13

LEMMA BatchUnits ==
    ASSUME NEW S \in SUBSET Orders
    PROVE  IsUnits(Minus(S), -1, S) /\ IsUnits(Plus(S), 1, S) /\ IsUnits(Zero, 0, S)
  <1>1. \A p \in Products : Units(S, p) \in Nat
    BY UnitsFinite
  <1>2. \A p \in Products : Minus(S)[p] = -Units(S, p) /\ Plus(S)[p] = Units(S, p) /\ Zero[p] = 0
    BY DEF Minus, Plus, Zero
  <1>3. \A n \in Nat : -n = (-1) * n /\ n = 1 * n /\ 0 = 0 * n
    OBVIOUS
  <1>4. QED
    BY <1>1, <1>2, <1>3 DEF IsUnits

\* The rows row1 are the rows row with k times the units of the batch S added.
Added(row, row1, k, S) == row1 = [p \in Products |-> row[p] + k * Units(S, p)]

\* In terms of the actions of Inventory: rows that get units back, give them up or
\* stay as they are.
LEMMA RowsWritten ==
    ASSUME NEW S \in SUBSET Orders, NEW row \in [Products -> Int], NEW row1
    PROVE  /\ Added(row, row1, 0, S) => row1 = row
           /\ Added(row, row1, 1, S) => row1 = [p \in Products |-> row[p] + Units(S, p)]
           /\ Added(row, row1, -1, S) => row1 = [p \in Products |-> row[p] - Units(S, p)]
  <1>1. \A p \in Products : Units(S, p) \in Nat /\ row[p] \in Int
    BY UnitsFinite
  <1>2. \A x \in Int, n \in Nat : x + 0 * n = x /\ x + 1 * n = x + n /\ x + (-1) * n = x - n
    OBVIOUS
  <1>3. ASSUME Added(row, row1, 0, S) PROVE row1 = row
    <2>1. \A p \in Products : row[p] + 0 * Units(S, p) = row[p]
      BY <1>1, <1>2
    <2>2. row1 = [p \in Products |-> row[p]]
      BY <1>3, <2>1 DEF Added
    <2>3. QED
      BY <2>2
  <1>4. ASSUME Added(row, row1, 1, S)
        PROVE  row1 = [p \in Products |-> row[p] + Units(S, p)]
    <2>1. \A p \in Products : row[p] + 1 * Units(S, p) = row[p] + Units(S, p)
      BY <1>1, <1>2
    <2>2. QED
      BY <1>4, <2>1 DEF Added
  <1>5. ASSUME Added(row, row1, -1, S)
        PROVE  row1 = [p \in Products |-> row[p] - Units(S, p)]
    <2>1. \A p \in Products : row[p] + (-1) * Units(S, p) = row[p] - Units(S, p)
      BY <1>1, <1>2
    <2>2. QED
      BY <1>5, <2>1 DEF Added
  <1>6. QED
    BY <1>3, <1>4, <1>5

LEMMA LedgerWritten ==
    ASSUME TxInv, NEW w \in Workers, FlushOrderLedger(w, 1), NEW S, S = tx[w].batch
    PROVE  /\ orderLedger' = [o \in Orders |->
                  IF o \in S THEN [p \in Products |-> orderLedger[o][p] + Wanted[o][p]]
                             ELSE orderLedger[o]]
           /\ UNCHANGED adminLedger
  <1>1. \A o \in Orders : [p \in Products |-> orderLedger[o][p] + 1 * Wanted[o][p]]
                          = [p \in Products |-> orderLedger[o][p] + Wanted[o][p]]
    BY WantedType
  <1>2. orderLedger' = [o \in Orders |->
            IF o \in S THEN [p \in Products |-> orderLedger[o][p] + 1 * Wanted[o][p]]
                       ELSE orderLedger[o]]
    BY DEF FlushOrderLedger
  <1>3. QED
    BY <1>1, <1>2 DEF FlushOrderLedger

\* The batch of a plan that changes reservations: they are locked, and what the
\* plan takes them for.
LEMMA Planned ==
    ASSUME TxInv, NEW w \in Workers, MarkAndCommit(w), NEW S, S = tx[w].batch,
           tx[w].plan \in {"commit", "release", "putBack", "expire"}
    PROVE  /\ S \in SUBSET Orders
           /\ \A o \in S : resLock[o] = w
           /\ tx[w].plan # "putBack" => \A o \in S : reservation[o] = "HELD"
           /\ tx[w].plan = "putBack" => \A o \in S : reservation[o] = "COMMITTED"
           /\ tx[w].plan # "expire" => \E o \in Orders : S = {o}
           /\ tx[w].plan = "expire" => S # {} /\ Cardinality(S) <= SweepBatch
  <1>1. tx[w] \in Tx /\ JobOK(w) /\ PlanOK(w)
    BY DEF TxInv, LocksType, WorkerOK
  <1>2. S \in SUBSET Orders
    BY <1>1 DEF Tx
  <1>3. tx[w].plan # "expire" => \E o \in Orders : S = {o}
    BY <1>1 DEF JobOK, Envelope
  <1>4. QED
    BY <1>1, <1>2, <1>3 DEF JobOK, PlanOK

\* Committing, releasing, putting back and expiring: a step of Inventory that
\* publishes nothing of the order and changes only the reservations of the batch.
LEMMA PlanCommitted ==
    ASSUME TxInv, NEW w \in Workers, MarkAndCommit(w),
           tx[w].plan \in {"commit", "release", "putBack", "expire"},
           NEW S, S = tx[w].batch, NEW k \in {-1, 0, 1}, NEW j \in {-1, 0, 1}, NEW da,
           BatchWritten(w, S, k, j, da, {}), NEW s, SetStatus(w, s), InvNext, UNCHANGED invOutbox
    PROVE  TxInv'
  <1>1. /\ S \in SUBSET Orders /\ \A o \in S : resLock[o] = w /\ reservation[o] # "NONE"
    BY Planned
  <1>2. reservation' = [o \in Orders |-> IF o \in S THEN s ELSE reservation[o]]
    BY DEF SetStatus
  <1>3. \A o \in Orders : resLock[o] # w => reservation'[o] = reservation[o]
    BY <1>1, <1>2
  <1>4. \A o \in Orders :
            reservation'[o] # "NONE" \/ Decided(o)' => reservation[o] # "NONE" \/ Decided(o)
    BY <1>1, <1>2 DEF Decided
  <1>5. QED
    BY <1>3, <1>4, CommitKeeps DEF BatchWritten

LEMMA CommitCommitKeeps ==
    ASSUME TxInv, NEW w \in Workers, CommitCommit(w)
    PROVE  TxInv' /\ InvNext
  <1> DEFINE S == tx[w].batch
             da == Zero
  <1>1. /\ tx[w].plan = "commit" /\ MarkAndCommit(w) /\ Flush(w, da, Minus(S), {})
        /\ SetStatus(w, "COMMITTED") /\ UNCHANGED <<orderLedger, adminLedger, threshold, invOutbox>>
        /\ S = tx[w].batch
    BY DEF CommitCommit
  <1> HIDE DEF S, da
  <1>2. PICK o \in Orders : S = {o} /\ reservation[o] = "HELD"
    BY <1>1, Planned
  <1>3. BatchWritten(w, S, 0, -1, da, {})
    BY <1>1, <1>2, BatchUnits, BatchFlush DEF da
  <1>4. /\ available' = available
        /\ reserved' = [p \in Products |-> reserved[p] - Units(S, p)]
    <2>1. available \in [Products -> Int] /\ reserved \in [Products -> Int]
      BY DEF TxInv, InvTypeOK
    <2>2. /\ S \in SUBSET Orders
          /\ Added(available, available', 0, S) /\ Added(reserved, reserved', -1, S)
      BY <1>3 DEF BatchWritten, Added
    <2>3. available' = available
      BY <2>1, <2>2, RowsWritten
    <2>4. reserved' = [p \in Products |-> reserved[p] - Units(S, p)]
      BY <2>1, <2>2, RowsWritten
    <2>5. QED
      BY <2>3, <2>4
  <1>5. reserved' = [p \in Products |-> reserved[p] - Wanted[o][p]]
    BY <1>2, <1>4, UnitsSingle
  <1>6. reservation' = [reservation EXCEPT ![o] = "COMMITTED"]
    BY <1>1, <1>2 DEF SetStatus, TxInv, InvTypeOK
  <1>7. PublishStockChanged(Items(o), {}) /\ tracked' = tracked
    BY <1>2, <1>3, OneOrderItems DEF BatchWritten
  <1>8. CommitReservation(o)
    BY <1>1, <1>2, <1>4, <1>5, <1>6, <1>7 DEF CommitReservation
  <1>9. InvNext
    BY <1>8 DEF InvNext
  <1>10. TxInv'
    BY <1>1, <1>3, <1>9, PlanCommitted
  <1>11. QED
    BY <1>9, <1>10

\* The units of the batch S go back to the shelf, and to its orders' ledgers.
LEMMA BatchReturned ==
    ASSUME TxInv, NEW w \in Workers, NEW S, S = tx[w].batch, NEW j \in {-1, 0, 1}, NEW da,
           BatchWritten(w, S, 1, j, da, {}), FlushOrderLedger(w, 1),
           UNCHANGED <<threshold, invOutbox>>
    PROVE  /\ S \in SUBSET Orders
           /\ ReturnToShelf(S)
           /\ Added(reserved, reserved', j, S)
           /\ PublishStockChanged(UNION {Items(o) : o \in S}, {})
  <1>1. /\ S \in SUBSET Orders /\ tracked' = tracked
        /\ Added(available, available', 1, S) /\ Added(reserved, reserved', j, S)
        /\ PublishStockChanged(UNION {Items(o) : o \in S}, {})
    BY DEF BatchWritten, Added
  <1>2. available \in [Products -> Int]
    BY DEF TxInv, InvTypeOK
  <1>3. available' = [p \in Products |-> available[p] + Units(S, p)]
    BY <1>1, <1>2, RowsWritten
  <1>4. /\ orderLedger' = [o \in Orders |->
               IF o \in S THEN [p \in Products |-> orderLedger[o][p] + Wanted[o][p]]
                          ELSE orderLedger[o]]
        /\ UNCHANGED adminLedger
    BY LedgerWritten
  <1>5. QED
    BY <1>1, <1>3, <1>4 DEF ReturnToShelf

LEMMA CommitReleaseKeeps ==
    ASSUME TxInv, NEW w \in Workers, CommitRelease(w)
    PROVE  TxInv' /\ InvNext
  <1> DEFINE S == tx[w].batch
             da == Plus(S)
  <1>1. /\ tx[w].plan = "release" /\ MarkAndCommit(w) /\ Flush(w, da, Minus(S), {})
        /\ FlushOrderLedger(w, 1) /\ SetStatus(w, "RELEASED")
        /\ UNCHANGED <<threshold, invOutbox>> /\ S = tx[w].batch
    BY DEF CommitRelease
  <1> HIDE DEF S, da
  <1>2. PICK o \in Orders : S = {o} /\ reservation[o] = "HELD"
    BY <1>1, Planned
  <1>3. BatchWritten(w, S, 1, -1, da, {})
    BY <1>1, <1>2, BatchUnits, BatchFlush DEF da
  <1>4. ReturnToShelf(S) /\ Added(reserved, reserved', -1, S) /\ S \in SUBSET Orders
        /\ PublishStockChanged(UNION {Items(q) : q \in S}, {})
    BY <1>1, <1>3, BatchReturned
  <1>5. reserved' = [p \in Products |-> reserved[p] - Units(S, p)]
    BY <1>4, RowsWritten DEF TxInv, InvTypeOK
  <1>6. reserved' = [p \in Products |-> reserved[p] - Wanted[o][p]]
    BY <1>2, <1>5, UnitsSingle
  <1>7. reservation' = [reservation EXCEPT ![o] = "RELEASED"]
    BY <1>1, <1>2 DEF SetStatus, TxInv, InvTypeOK
  <1>8. ReleaseHeld(o)
    BY <1>2, <1>4, <1>6, <1>7, OneOrderItems DEF ReleaseHeld
  <1>9. InvNext
    BY <1>8 DEF ReleaseReservation, InvNext
  <1>10. TxInv'
    BY <1>1, <1>3, <1>9, PlanCommitted
  <1>11. QED
    BY <1>9, <1>10

LEMMA CommitPutBackKeeps ==
    ASSUME TxInv, NEW w \in Workers, CommitPutBack(w)
    PROVE  TxInv' /\ InvNext
  <1> DEFINE S == tx[w].batch
             da == Plus(S)
  <1>1. /\ tx[w].plan = "putBack" /\ MarkAndCommit(w) /\ Flush(w, da, Zero, {})
        /\ FlushOrderLedger(w, 1) /\ SetStatus(w, "RELEASED")
        /\ UNCHANGED <<threshold, invOutbox>> /\ S = tx[w].batch
    BY DEF CommitPutBack
  <1> HIDE DEF S, da
  <1>2. PICK o \in Orders : S = {o} /\ reservation[o] = "COMMITTED"
    BY <1>1, Planned
  <1>3. BatchWritten(w, S, 1, 0, da, {})
    BY <1>1, <1>2, BatchUnits, BatchFlush DEF da
  <1>4. ReturnToShelf(S) /\ Added(reserved, reserved', 0, S) /\ S \in SUBSET Orders
        /\ PublishStockChanged(UNION {Items(q) : q \in S}, {})
    BY <1>1, <1>3, BatchReturned
  <1>5. reserved' = reserved
    BY <1>4, RowsWritten DEF TxInv, InvTypeOK
  <1>6. reservation' = [reservation EXCEPT ![o] = "RELEASED"]
    BY <1>1, <1>2 DEF SetStatus, TxInv, InvTypeOK
  <1>7. RestockCommitted(o)
    BY <1>2, <1>4, <1>5, <1>6, OneOrderItems DEF RestockCommitted
  <1>8. InvNext
    BY <1>7 DEF ReleaseReservation, InvNext
  <1>9. TxInv'
    BY <1>1, <1>3, <1>8, PlanCommitted
  <1>10. QED
    BY <1>8, <1>9

LEMMA CommitExpireKeeps ==
    ASSUME TxInv, NEW w \in Workers, CommitExpire(w)
    PROVE  TxInv' /\ InvNext
  <1> DEFINE S == tx[w].batch
             da == Plus(S)
  <1>1. /\ tx[w].plan = "expire" /\ MarkAndCommit(w) /\ Flush(w, da, Minus(S), {})
        /\ FlushOrderLedger(w, 1) /\ SetStatus(w, "EXPIRED")
        /\ UNCHANGED <<threshold, invOutbox>> /\ S = tx[w].batch
    BY DEF CommitExpire
  <1> HIDE DEF S, da
  <1>2. /\ S \in SUBSET Orders /\ \A o \in S : reservation[o] = "HELD"
        /\ S # {} /\ Cardinality(S) <= SweepBatch
    BY <1>1, Planned
  <1>3. BatchWritten(w, S, 1, -1, da, {})
    BY <1>1, <1>2, BatchUnits, BatchFlush DEF da
  <1>4. ReturnToShelf(S) /\ Added(reserved, reserved', -1, S)
        /\ PublishStockChanged(UNION {Items(q) : q \in S}, {})
    BY <1>1, <1>3, BatchReturned
  <1>5. reserved' = [p \in Products |-> reserved[p] - Units(S, p)]
    BY <1>2, <1>4, RowsWritten DEF TxInv, InvTypeOK
  <1>6. reservation' = [o \in Orders |-> IF o \in S THEN "EXPIRED" ELSE reservation[o]]
    BY <1>1 DEF SetStatus
  <1>7. S \subseteq OrdersIn("HELD")
    BY <1>2 DEF OrdersIn
  <1>8. ExpireStaleReservations(S)
    BY <1>2, <1>4, <1>5, <1>6, <1>7 DEF ExpireStaleReservations
  <1>9. InvNext
    BY <1>2, <1>8 DEF InvNext
  <1>10. TxInv'
    BY <1>1, <1>3, <1>9, PlanCommitted
  <1>11. QED
    BY <1>9, <1>10

\* What an admin's transaction adds to the one row it loaded.
LEMMA AdminRow ==
    ASSUME TxInv, NEW w \in Workers, tx[w].pc = "commit", tx[w].kind \in {"upsert", "adjust"}
    PROVE  \E p \in Products :
               /\ DOMAIN tx[w].loaded = {p}
               /\ AdminDelta(w) = [q \in Products |-> IF q = p THEN AdminDelta(w)[p] ELSE 0]
               /\ tx[w].loaded[p].available = available[p]
               /\ tx[w].kind = "upsert" => AdminDelta(w)[p] = tx[w].quantity
               /\ tx[w].kind = "adjust" => AdminDelta(w)[p] = tx[w].quantity - available[p]
               /\ AdminDelta(w)[p] \in Int
               /\ tx[w].quantity \in Quantities /\ tx[w].event = NoEvent
  <1>1. tx[w].quantity \in Quantities /\ tx[w].event = NoEvent
        /\ \E p \in Products : RowsOf(w) = {p}
    BY DEF TxInv, WorkerOK, JobOK
  <1>2. PICK p \in Products : DOMAIN tx[w].loaded = {p}
    BY <1>1, LoadedAtCommit
  <1>3. tx[w].loaded[p].available = available[p]
    BY <1>2, LoadedAtCommit
  <1>4. available[p] \in Int /\ tx[w].quantity \in Int
    <2>1. available \in [Products -> Int]
      BY DEF TxInv, InvTypeOK
    <2>2. tx[w].quantity \in Nat
      BY <1>1, QuantitiesType
    <2>3. QED
      BY <2>1, <2>2
  <1>5. /\ AdminDelta(w)[p] = IF tx[w].kind = "adjust" THEN tx[w].quantity - available[p]
                                                      ELSE tx[w].quantity
        /\ \A q \in Products \ {p} : AdminDelta(w)[q] = 0
    BY <1>2, <1>3 DEF AdminDelta
  <1>6. AdminDelta(w) = [q \in Products |-> IF q = p THEN AdminDelta(w)[p] ELSE 0]
    <2>1. AdminDelta(w) = [q \in Products |-> AdminDelta(w)[q]]
      BY DEF AdminDelta
    <2>2. \A q \in Products : AdminDelta(w)[q] = IF q = p THEN AdminDelta(w)[p] ELSE 0
      BY <1>5
    <2>3. QED
      BY <2>1, <2>2
  <1>7. QED
    BY <1>1, <1>2, <1>3, <1>4, <1>5, <1>6

LEMMA CommitAdminKeeps ==
    ASSUME TxInv, NEW w \in Workers, NEW t \in Thresholds, CommitAdmin(w, t)
    PROVE  TxInv' /\ InvNext
  <1> DEFINE da == AdminDelta(w)
             low == IF tx[w].kind = "adjust" THEN LowRows(w, da) ELSE {}
             n == tx[w].quantity
             dr == Zero
  <1>1. /\ tx[w].kind \in {"upsert", "restock", "adjust"}
        /\ \A p \in DOMAIN tx[w].loaded : tx[w].loaded[p].available + da[p] <= MaxSupply
        /\ MarkAndCommit(w)
        /\ threshold' = [p \in Products |-> IF p \in DOMAIN tx[w].loaded THEN t ELSE threshold[p]]
        /\ Flush(w, da, dr, low)
        /\ adminLedger' = [p \in Products |-> adminLedger[p] + da[p]]
        /\ UNCHANGED <<orderLedger, reservation, invOutbox>>
    BY DEF CommitAdmin
  <1>2. tx[w].pc = "commit" /\ tx[w].kind \in {"upsert", "adjust"}
    BY <1>1 DEF MarkAndCommit, TxInv, LocksType, Tx
  <1>3. PICK p \in Products :
               /\ DOMAIN tx[w].loaded = {p}
               /\ da = [q \in Products |-> IF q = p THEN da[p] ELSE 0]
               /\ tx[w].loaded[p].available = available[p]
               /\ tx[w].kind = "upsert" => da[p] = n
               /\ tx[w].kind = "adjust" => da[p] = n - available[p]
               /\ da[p] \in Int
               /\ n \in Quantities /\ tx[w].event = NoEvent
    BY <1>2, AdminRow
  <1>n. n \in Quantities /\ n \in Nat /\ p \in Products
    BY <1>3, QuantitiesType
  <1>4. \A q \in Products : dr[q] = 0
    BY DEF Zero
  <1>5. /\ available \in [Products -> Int] /\ reserved \in [Products -> Int]
        /\ adminLedger \in [Products -> Int] /\ threshold \in [Products -> Nat]
        /\ tracked = Products /\ n \in Int
    BY <1>n DEF TxInv, InvTypeOK, LocksType
  <1>6. LowRows(w, da) = MaybePublishLowStock(DOMAIN tx[w].loaded)
        \/ tx[w].kind # "adjust"
    <2>1. CASE tx[w].kind = "adjust"
      <3>1. available' = [q \in Products |-> IF q \in DOMAIN tx[w].loaded
                                            THEN available[q] + da[q] ELSE available[q]]
        <4> HIDE DEF da, dr, low
        <4>1. \A q \in Products : da[q] \in Int /\ dr[q] \in Int
          BY <1>3, <1>4
        <4>2. QED
          BY <1>1, <1>2, <4>1, FlushWrites
      <3>2. QED
        BY <1>2, <3>1, LowRowsAreLow
    <2>2. QED
      BY <2>1
  <1>7. low = IF tx[w].kind = "adjust" THEN MaybePublishLowStock({p}) ELSE {}
    BY <1>3, <1>6
  <1> HIDE DEF da, dr, low, n
  <1>8. /\ available' = [q \in Products |-> IF q \in {p} THEN available[q] + da[q] ELSE available[q]]
        /\ reserved' = [q \in Products |-> IF q \in {p} THEN reserved[q] + dr[q] ELSE reserved[q]]
        /\ PublishStockChanged({p}, low)
        /\ tracked' = tracked
        /\ \A q \in Products : rowLock[q] # w =>
               available'[q] = available[q] /\ reserved'[q] = reserved[q]
    <2>1. \A q \in Products : da[q] \in Int /\ dr[q] \in Int
      BY <1>3, <1>4
    <2>2. /\ available' = [q \in Products |-> IF q \in DOMAIN tx[w].loaded
                                              THEN available[q] + da[q] ELSE available[q]]
          /\ reserved' = [q \in Products |-> IF q \in DOMAIN tx[w].loaded
                                              THEN reserved[q] + dr[q] ELSE reserved[q]]
          /\ PublishStockChanged(DOMAIN tx[w].loaded, low)
          /\ tracked' = tracked
          /\ \A q \in Products : rowLock[q] # w =>
                 available'[q] = available[q] /\ reserved'[q] = reserved[q]
      BY <1>1, <1>2, <2>1, FlushWrites
    <2>3. DOMAIN tx[w].loaded = {p}
      BY <1>3
    <2>4. QED
      BY <2>2, <2>3
  <1>9. reserved' = reserved
    <2>1. reserved' = [q \in Products |-> reserved[q]]
      BY <1>4, <1>5, <1>8
    <2>2. QED
      BY <1>5, <2>1
  <1>10. /\ available' = [available EXCEPT ![p] = available[p] + da[p]]
         /\ adminLedger' = [adminLedger EXCEPT ![p] = adminLedger[p] + da[p]]
         /\ threshold' = [threshold EXCEPT ![p] = t]
    <2>1. available' = [available EXCEPT ![p] = available[p] + da[p]]
      BY <1>5, <1>8
    <2>2. \A q \in Products : q # p => adminLedger[q] + da[q] = adminLedger[q]
      BY <1>3, <1>5
    <2>3. adminLedger' = [adminLedger EXCEPT ![p] = adminLedger[p] + da[p]]
      BY <1>1, <1>5, <2>2
    <2>4. threshold' = [threshold EXCEPT ![p] = t]
      BY <1>1, <1>3, <1>5
    <2>5. QED
      BY <2>1, <2>3, <2>4
  <1>11. available[p] + da[p] <= MaxSupply
    BY <1>1, <1>3
  <1>12. ASSUME tx[w].kind = "upsert" PROVE InvNext
    <2>1. da[p] = n /\ low = {}
      BY <1>3, <1>7, <1>12
    <2>2. tracked' = tracked \cup {p}
      BY <1>5, <1>8
    <2>3. /\ available' = [available EXCEPT ![p] = @ + n]
          /\ adminLedger' = [adminLedger EXCEPT ![p] = @ + n]
          /\ threshold' = [threshold EXCEPT ![p] = t]
      BY <1>10, <2>1
    <2>4. UpsertStockItem(p, n, t)
      BY <1>1, <1>8, <1>9, <1>11, <2>1, <2>2, <2>3 DEF UpsertStockItem
    <2>5. \E x \in Products, y \in Quantities, z \in Thresholds : UpsertStockItem(x, y, z)
      BY <1>n, <2>4
    <2>6. QED
      BY <2>5 DEF InvNext
  <1>13. ASSUME tx[w].kind = "adjust" PROVE InvNext
    <2>1. available[p] + da[p] = n /\ da[p] = n - available[p]
      BY <1>3, <1>5, <1>13
    <2>2. AdjustStock(p, n, t)
      BY <1>1, <1>5, <1>7, <1>8, <1>9, <1>10, <1>11, <1>13, <2>1 DEF AdjustStock
    <2>3. \E x \in Products, y \in Quantities, z \in Thresholds : AdjustStock(x, y, z)
      BY <1>n, <2>2
    <2>4. QED
      BY <2>3 DEF InvNext
  <1>14. InvNext
    BY <1>2, <1>12, <1>13
  <1>15. \A o \in Orders : reservation'[o] # "NONE" \/ Decided(o)' => reservation[o] # "NONE" \/ Decided(o)
    BY <1>1 DEF Decided
  <1>16. TxInv'
    BY <1>1, <1>8, <1>14, <1>15, CommitKeeps
  <1>17. QED
    BY <1>14, <1>16

-----------------------------------------------------------------------------
(* The theorems *)

LEMMA TxInvInit == AllTracked /\ TxInit => TxInv
  <1> SUFFICES ASSUME AllTracked, TxInit PROVE TxInv
    OBVIOUS
  <1>1. InvTypeOK
    BY StockedType, ThresholdsType DEF TxInit, InvInit, InvTypeOK, Created, ReservationStatus
  <1>2. LocksType
    BY NoTxType DEF TxInit, InvInit, LocksType, AllTracked
  <1>3. AnsweredIsHandled
    BY DEF TxInit, InvInit, AnsweredIsHandled, Decided
  <1>4. ASSUME NEW w \in Workers PROVE WorkerOK(w)
    <2>1. tx[w] = NoTx /\ (\A p \in Products : rowLock[p] # w) /\ (\A o \in Orders : resLock[o] # w)
      BY NobodyType DEF TxInit
    <2>2. DOMAIN NoTx.loaded = {} /\ NoTx.queue = {} /\ NoTx.plan = "nothing"
          /\ NoTx.kind = "none" /\ NoTx.pc = "idle"
      BY DEF NoTx
    <2>3. JobOK(w)
      BY <2>1, <2>2 DEF JobOK
    <2>4. RowsOK(w)
      BY <2>1, <2>2 DEF RowsOK
    <2>5. SessionOK(w)
      BY <2>1, <2>2 DEF SessionOK
    <2>6. PlanOK(w)
      BY <2>1, <2>2 DEF PlanOK
    <2>7. QED
      BY <2>3, <2>4, <2>5, <2>6 DEF WorkerOK
  <1>5. QED
    BY <1>1, <1>2, <1>3, <1>4 DEF TxInv

LEMMA TxInvStep ==
    ASSUME TxInv, [TxNext]_allVars
    PROVE  TxInv' /\ [InvNext]_invVars
  <1>1. CASE UNCHANGED allVars
    <2>1. UNCHANGED <<invVars, handled, tx, rowLock, resLock>>
      BY <1>1 DEF allVars, txVars
    <2>2. UNCHANGED <<tracked, available, reserved, orderLedger, adminLedger, threshold,
                      announced, reservation, invOutbox>>
      BY <2>1 DEF invVars, stockVars
    <2>3. InvTypeOK' /\ LocksType'
      BY <2>1, <2>2 DEF TxInv, InvTypeOK, LocksType
    <2>4. AnsweredIsHandled'
      BY <2>1, <2>2 DEF TxInv, AnsweredIsHandled, Decided
    <2>5. ASSUME NEW w \in Workers PROVE WorkerOK(w)'
      <3>1. WorkerOK(w)
        BY DEF TxInv
      <3>2. JobOK(w)' /\ RowsOK(w)'
        BY <2>1, <3>1 DEF WorkerOK, JobOK, RowsOK, RowsOf
      <3>3. SessionOK(w)'
        BY <2>1, <2>2, <3>1 DEF WorkerOK, SessionOK
      <3>4. PlanOK(w)'
        BY <2>1, <2>2, <3>1 DEF WorkerOK, PlanOK
      <3>5. QED
        BY <3>2, <3>3, <3>4 DEF WorkerOK
    <2>6. QED
      BY <2>1, <2>3, <2>4, <2>5 DEF TxInv
  <1>2. CASE TxNext
    <2>1. PICK w \in Workers :
              \/ \E e \in Deliverable : BeginEvent(w, e)
              \/ LookupReservation(w)
              \/ LockReservation(w)
              \/ \E S \in SUBSET Orders : \E nth \in [S -> 1 .. SweepBatch] : SelectStale(w, S, nth)
              \/ \E k \in {"upsert", "adjust"}, p \in Products, n \in Quantities :
                     BeginAdmin(w, k, p, n)
              \/ LockRow(w)
              \/ Abort(w)
              \/ CommitNothing(w)
              \/ CommitReserveFails(w)
              \/ CommitReserveHolds(w)
              \/ CommitCommit(w)
              \/ CommitRelease(w)
              \/ CommitPutBack(w)
              \/ CommitExpire(w)
              \/ \E t \in Thresholds : CommitAdmin(w, t)
      BY <1>2 DEF TxNext
    <2>2. ASSUME NEW e \in Deliverable, BeginEvent(w, e) PROVE TxInv' /\ [InvNext]_invVars
      BY <2>2, BeginEventKeeps DEF BeginEvent
    <2>3. CASE LookupReservation(w)
      <3>1. UNCHANGED invVars
        BY <2>3 DEF LookupReservation
      <3>2. QED
        BY <2>3, <3>1, LookupKeeps
    <2>4. CASE LockReservation(w)
      <3>1. UNCHANGED invVars
        BY <2>4 DEF LockReservation
      <3>2. QED
        BY <2>4, <3>1, LockReservationKeeps
    <2>5. ASSUME NEW S \in SUBSET Orders, NEW nth \in [S -> 1 .. SweepBatch], SelectStale(w, S, nth)
          PROVE  TxInv' /\ [InvNext]_invVars
      <3>1. TxInv'
        BY <2>5, SelectStaleKeeps
      <3>2. QED
        BY <2>5, <3>1 DEF SelectStale
    <2>6. ASSUME NEW k \in {"upsert", "adjust"}, NEW p \in Products, NEW n \in Quantities,
                 BeginAdmin(w, k, p, n)
          PROVE  TxInv' /\ [InvNext]_invVars
      BY <2>6, BeginAdminKeeps DEF BeginAdmin
    <2>7. CASE LockRow(w)
      <3>1. UNCHANGED invVars
        BY <2>7 DEF LockRow, Locked
      <3>2. QED
        BY <2>7, <3>1, LockRowKeeps
    <2>8. CASE Abort(w)
      BY <2>8, AbortKeeps DEF Abort
    <2>9. CASE CommitNothing(w)
      BY <2>9, CommitNothingKeeps
    <2>10. CASE CommitReserveFails(w)
      BY <2>10, CommitReserveFailsKeeps
    <2>11. CASE CommitReserveHolds(w)
      BY <2>11, CommitReserveHoldsKeeps
    <2>12. CASE CommitCommit(w)
      BY <2>12, CommitCommitKeeps
    <2>13. CASE CommitRelease(w)
      BY <2>13, CommitReleaseKeeps
    <2>14. CASE CommitPutBack(w)
      BY <2>14, CommitPutBackKeeps
    <2>15. CASE CommitExpire(w)
      BY <2>15, CommitExpireKeeps
    <2>16. ASSUME NEW t \in Thresholds, CommitAdmin(w, t) PROVE TxInv' /\ [InvNext]_invVars
      BY <2>16, CommitAdminKeeps
    <2>17. QED
      BY <2>1, <2>2, <2>3, <2>4, <2>5, <2>6, <2>7, <2>8, <2>9, <2>10, <2>11, <2>12, <2>13,
         <2>14, <2>15, <2>16
  <1>3. QED
    BY <1>1, <1>2

LEMMA TxInvCorrect == AllTracked => (TxSpec => []TxInv)
  BY TxInvInit, TxInvStep, PTL DEF TxSpec

\* A lock has an owner with an open transaction: nothing is left locked by a
\* rollback or a COMMIT.
THEOREM TxTypeCorrect == AllTracked => (TxSpec => []TxTypeOK)
  <1>1. TxInv => TxTypeOK
    <2> SUFFICES ASSUME TxInv PROVE TxTypeOK
      OBVIOUS
    <2>1. InvTypeOK /\ handled \subseteq Envelope
          /\ rowLock \in [Products -> Workers \cup {Nobody}]
          /\ resLock \in [Orders -> Workers \cup {Nobody}]
      BY DEF TxInv, LocksType
    <2>2. \A p \in Products : rowLock[p] = Nobody \/ tx[rowLock[p]] # NoTx
      BY <2>1, IdleHasNoLock
    <2>3. \A o \in Orders : resLock[o] = Nobody \/ tx[resLock[o]] # NoTx
      BY <2>1, IdleHasNoLock
    <2>4. QED
      BY <2>1, <2>2, <2>3 DEF TxTypeOK
  <1>2. QED
    BY <1>1, TxInvCorrect, PTL

\* What a session will write back is the committed row, whoever else committed
\* since it began.
THEOREM LockedRowIsCurrentCorrect == AllTracked => (TxSpec => []LockedRowIsCurrent)
  <1>1. TxInv => LockedRowIsCurrent
    BY DEF TxInv, WorkerOK, SessionOK, LockedRowIsCurrent
  <1>2. QED
    BY <1>1, TxInvCorrect, PTL

\* The statements of any number of workers, however interleaved and rolled
\* back, amount to one operation of Inventory at each COMMIT.
THEOREM TxImplementsInventory == AllTracked => (TxSpec => InvSpec)
  <1>1. TxInit => InvInit
    BY DEF TxInit
  <1>2. QED
    BY <1>1, TxInvCorrect, TxInvStep, PTL DEF TxSpec, InvSpec

\* So what is proved of Inventory holds of them.
COROLLARY TxStockCorrect ==
    AllTracked => (TxSpec => [](ReservedIsHeld /\ UnitsConserved /\ NeverNegative))
  BY TxImplementsInventory, StockCorrect, PTL

-----------------------------------------------------------------------------
(* No deadlock among those that take their rows in order *)

\* Of the transactions that take their rows in order only reserve may take
\* several, and the rows it has yet to lock come after all those it has locked.
QueueOK(w) ==
    tx[w].kind \in OrderedKinds =>
        \A l \in tx[w].queue :
            /\ \A k \in tx[w].queue \ {l} : tx[w].plan = "reserve"
            /\ \A p \in Products : rowLock[p] = w => ProductOrder[p] < ProductOrder[l.product]

QueuesOK == \A w \in Workers : QueueOK(w)

LEMMA OneQueueMoves ==
    ASSUME QueuesOK, NEW w \in Workers, QueueOK(w)',
           \A v \in Workers \ {w} : /\ tx'[v] = tx[v]
                                    /\ \A p \in Products : rowLock'[p] = v => rowLock[p] = v
    PROVE  QueuesOK'
  BY DEF QueuesOK, QueueOK

\* A transaction that ends has no line left.
LEMMA EndKeepsQueues ==
    ASSUME TxInv, QueuesOK, NEW w \in Workers, ReleaseLocks(w)
    PROVE  QueuesOK'
  <1>1. tx \in [Workers -> Tx]
    BY DEF TxInv, LocksType
  <1>2. tx'[w] = NoTx /\ \A v \in Workers \ {w} : tx'[v] = tx[v]
    BY <1>1 DEF ReleaseLocks
  <1>3. \A v \in Workers \ {w}, p \in Products : rowLock'[p] = v => rowLock[p] = v
    BY NobodyType DEF ReleaseLocks
  <1>4. QueueOK(w)'
    BY <1>2 DEF QueueOK, NoTx
  <1>5. QED
    BY <1>2, <1>3, <1>4, OneQueueMoves

\* One that has no row yet may ask for any.
LEMMA NewQueue ==
    ASSUME TxInv, QueuesOK, NEW w \in Workers, UNCHANGED rowLock,
           \A p \in Products : rowLock[p] # w,
           \A v \in Workers \ {w} : tx'[v] = tx[v],
           tx'[w].kind \in OrderedKinds =>
               \A k, l \in tx'[w].queue : k # l => tx'[w].plan = "reserve"
    PROVE  QueuesOK'
  <1>1. QueueOK(w)'
    BY DEF QueueOK
  <1>2. QED
    BY <1>1, OneQueueMoves

LEMMA BeginKeepsQueues ==
    ASSUME TxInv, QueuesOK, NEW w \in Workers, UNCHANGED rowLock,
           NEW kind, NEW pc, NEW event, NEW n, NEW batch, NEW queue,
           Begin(w, kind, pc, event, n, batch, queue), \A k, l \in queue : k = l
    PROVE  QueuesOK'
  <1> DEFINE t == [NoTx EXCEPT !.kind = kind, !.pc = pc, !.event = event, !.quantity = n,
                               !.batch = batch, !.queue = queue]
  <1>1. tx[w] = NoTx /\ tx' = [tx EXCEPT ![w] = t] /\ tx \in [Workers -> Tx]
    BY DEF Begin, TxInv, LocksType
  <1>2. t.queue = queue
    BY DEF NoTx
  <1> HIDE DEF t
  <1>3. tx'[w].queue = queue /\ \A v \in Workers \ {w} : tx'[v] = tx[v]
    BY <1>1, <1>2
  <1>4. \A p \in Products : rowLock[p] # w
    BY <1>1, IdleHasNoLock
  <1>5. QED
    BY <1>3, <1>4, NewQueue

\* A reservation that was looked up or locked: its lines are queued, or none.
LEMMA PlanKeepsQueues ==
    ASSUME TxInv, QueuesOK, NEW w \in Workers, UNCHANGED rowLock,
           tx[w].pc \in {"lookup", "lockReservation"},
           \A v \in Workers \ {w} : tx'[v] = tx[v],
           tx'[w].kind \in OrderedKinds /\ tx'[w].queue # {} => tx'[w].plan = "reserve"
    PROVE  QueuesOK'
  <1>1. tx[w] \in Tx /\ WorkerOK(w)
    BY DEF TxInv, LocksType
  <1>2. \A p \in Products : rowLock[p] # w
    <2>1. DOMAIN tx[w].loaded = {}
      BY <1>1 DEF WorkerOK, RowsOK
    <2>2. QED
      BY <1>1, <2>1 DEF WorkerOK, SessionOK
  <1>3. QED
    BY <1>2, NewQueue

LEMMA LookupKeepsQueues ==
    ASSUME TxInv, QueuesOK, NEW w \in Workers, LookupReservation(w)
    PROVE  QueuesOK'
  <1> DEFINE o == tx[w].event.order
             free == reservation[o] = "NONE"
             pc == IF free THEN "lockRows" ELSE "commit"
             queue == IF free THEN Lines(1, o) ELSE {}
             plan == IF free THEN "reserve" ELSE "nothing"
  <1>1. /\ Uncommitted /\ UNCHANGED <<rowLock, resLock>> /\ tx[w].pc = "lookup"
        /\ tx' = [tx EXCEPT ![w].pc = pc, ![w].queue = queue, ![w].plan = plan]
    BY DEF LookupReservation, Uncommitted
  <1>2. queue # {} => plan = "reserve"
    OBVIOUS
  <1> HIDE DEF pc, queue, plan
  <1>3. /\ tx'[w].queue = queue /\ tx'[w].plan = plan
        /\ \A v \in Workers \ {w} : tx'[v] = tx[v]
    BY <1>1 DEF TxInv, LocksType, Tx
  <1>4. QED
    BY <1>1, <1>2, <1>3, PlanKeepsQueues

LEMMA LockReservationKeepsQueues ==
    ASSUME TxInv, QueuesOK, NEW w \in Workers, LockReservation(w)
    PROVE  QueuesOK'
  <1> DEFINE o == tx[w].event.order
             plan == PlanFor(tx[w].kind, reservation[o])
             pc == IF plan = "nothing" THEN "commit" ELSE "lockRows"
             queue == IF plan = "nothing" THEN {} ELSE Lines(1, o)
  <1>1. /\ Uncommitted /\ UNCHANGED rowLock /\ tx[w].pc = "lockReservation"
        /\ tx' = [tx EXCEPT ![w].pc = pc, ![w].queue = queue, ![w].plan = plan]
        /\ \/ reservation[o] = "NONE" /\ UNCHANGED resLock
           \/ /\ reservation[o] # "NONE" /\ resLock[o] = Nobody
              /\ resLock' = [resLock EXCEPT ![o] = w]
    BY DEF LockReservation, Uncommitted
  <1>2. tx[w].kind \in {"commit", "release"}
    BY <1>1 DEF TxInv, WorkerOK, JobOK
  <1> HIDE DEF pc, queue, plan
  <1>3. /\ tx'[w].kind = tx[w].kind
        /\ \A v \in Workers \ {w} : tx'[v] = tx[v]
    BY <1>1 DEF TxInv, LocksType, Tx
  <1>4. tx'[w].kind \notin OrderedKinds
    BY <1>2, <1>3 DEF OrderedKinds
  <1>5. QED
    BY <1>1, <1>3, <1>4, PlanKeepsQueues

LEMMA LockRowKeepsQueues ==
    ASSUME TxInv, QueuesOK, NEW w \in Workers, LockRow(w)
    PROVE  QueuesOK'
  <1>1. PICK l \in tx[w].queue : /\ IsNext(w, l)
                                 /\ rowLock[l.product] \in {Nobody, w} /\ Locked(w, l)
    BY DEF LockRow
  <1>2. /\ tx \in [Workers -> Tx] /\ tx[w] \in Tx
        /\ rowLock \in [Products -> Workers \cup {Nobody}]
    BY DEF TxInv, LocksType
  <1>3. /\ rowLock' = [rowLock EXCEPT ![l.product] = w] /\ l.product \in Products
        /\ \A v \in Workers \ {w} : tx'[v] = tx[v]
        /\ tx'[w].queue = tx[w].queue \ {l}
        /\ tx'[w].kind = tx[w].kind /\ tx'[w].plan = tx[w].plan
    BY <1>1, <1>2 DEF Locked, Tx
  <1>4. QueueOK(w)'
    <2> SUFFICES ASSUME tx[w].kind \in OrderedKinds, NEW k \in tx[w].queue \ {l}
                 PROVE  /\ \A j \in (tx[w].queue \ {l}) \ {k} : tx[w].plan = "reserve"
                        /\ \A p \in Products :
                               rowLock'[p] = w => ProductOrder[p] < ProductOrder[k.product]
      BY <1>3 DEF QueueOK
    <2>1. QueueOK(w)
      BY DEF QueuesOK
    <2>2. tx[w].plan = "reserve"
      BY <1>1, <2>1 DEF QueueOK
    <2>3. ProductOrder[l.product] < ProductOrder[k.product]
      BY <1>1, <2>2 DEF IsNext
    <2>4. \A p \in Products : rowLock'[p] = w => rowLock[p] = w \/ p = l.product
      BY <1>2, <1>3
    <2>5. \A p \in Products : rowLock[p] = w => ProductOrder[p] < ProductOrder[k.product]
      BY <2>1 DEF QueueOK
    <2>6. QED
      BY <2>2, <2>3, <2>4, <2>5
  <1>5. \A v \in Workers \ {w}, p \in Products : rowLock'[p] = v => rowLock[p] = v
    BY <1>2, <1>3
  <1>6. QED
    BY <1>3, <1>4, <1>5, OneQueueMoves

LEMMA QueuesStep ==
    ASSUME TxInv, QueuesOK, [TxNext]_allVars
    PROVE  QueuesOK'
  <1>1. CASE UNCHANGED allVars
    <2>1. tx' = tx /\ rowLock' = rowLock
      BY <1>1 DEF allVars, txVars
    <2>2. QED
      BY <2>1 DEF QueuesOK, QueueOK
  <1>2. CASE TxNext
    <2>1. PICK w \in Workers :
              \/ \E e \in Deliverable : BeginEvent(w, e)
              \/ LookupReservation(w)
              \/ LockReservation(w)
              \/ \E S \in SUBSET Orders : \E nth \in [S -> 1 .. SweepBatch] : SelectStale(w, S, nth)
              \/ \E k \in {"upsert", "adjust"}, p \in Products, n \in Quantities :
                     BeginAdmin(w, k, p, n)
              \/ LockRow(w)
              \/ ReleaseLocks(w)
      BY <1>2 DEF TxNext, Abort, CommitNothing, CommitReserveFails, CommitReserveHolds, CommitCommit,
                  CommitRelease, CommitPutBack, CommitExpire, CommitAdmin, MarkAndCommit
    <2>2. ASSUME NEW e \in Deliverable, BeginEvent(w, e) PROVE QueuesOK'
      <3> DEFINE kind == Handler(e.topic)
                 pc == IF kind = "reserve" THEN "lookup" ELSE "lockReservation"
      <3>1. Begin(w, kind, pc, e, 0, {e.order}, {}) /\ UNCHANGED rowLock
        BY <2>2 DEF BeginEvent
      <3> HIDE DEF kind, pc
      <3>2. QED
        BY <3>1, BeginKeepsQueues
    <2>3. CASE LookupReservation(w)
      BY <2>3, LookupKeepsQueues
    <2>4. CASE LockReservation(w)
      BY <2>4, LockReservationKeepsQueues
    <2>5. ASSUME NEW S \in SUBSET Orders, NEW nth \in [S -> 1 .. SweepBatch], SelectStale(w, S, nth)
          PROVE  QueuesOK'
      <3> DEFINE queue == UNION {Lines(nth[o], o) : o \in S}
                 t == [NoTx EXCEPT !.kind = "sweep", !.pc = "lockRows", !.batch = S,
                                   !.plan = "expire", !.queue = queue]
      <3>1. UNCHANGED rowLock /\ tx[w] = NoTx /\ tx' = [tx EXCEPT ![w] = t]
            /\ tx \in [Workers -> Tx]
        BY <2>5 DEF SelectStale, TxInv, LocksType
      <3> HIDE DEF queue
      <3>2. t.kind = "sweep"
        BY DEF NoTx
      <3> HIDE DEF t
      <3>3. tx'[w].kind \notin OrderedKinds /\ \A v \in Workers \ {w} : tx'[v] = tx[v]
        BY <3>1, <3>2 DEF OrderedKinds
      <3>4. \A p \in Products : rowLock[p] # w
        BY <3>1, IdleHasNoLock
      <3>5. QED
        BY <3>1, <3>3, <3>4, NewQueue
    <2>6. ASSUME NEW k \in {"upsert", "adjust"}, NEW p \in Products, NEW n \in Quantities,
                 BeginAdmin(w, k, p, n)
          PROVE  QueuesOK'
      <3> DEFINE queue == [nth : {1}, product : {p}]
      <3>1. Begin(w, k, "lockRows", NoEvent, n, {}, queue) /\ UNCHANGED rowLock
        BY <2>6 DEF BeginAdmin
      <3>2. \A j, l \in queue : j = l
        OBVIOUS
      <3> HIDE DEF queue
      <3>3. QED
        BY <3>1, <3>2, BeginKeepsQueues
    <2>7. CASE LockRow(w)
      BY <2>7, LockRowKeepsQueues
    <2>8. CASE ReleaseLocks(w)
      BY <2>8, EndKeepsQueues
    <2>9. QED
      BY <2>1, <2>2, <2>3, <2>4, <2>5, <2>6, <2>7, <2>8
  <1>3. QED
    BY <1>1, <1>2

\* The products whose rows come after p's.
Behind(p) == {q \in Products : ProductOrder[p] < ProductOrder[q]}

\* Among finitely many rows there is a last one.
LEMMA SomeRowIsLast ==
    ASSUME IsFiniteSet(Products), NEW T \in SUBSET Products, T # {}
    PROVE  \E p \in T : \A q \in T : ~(ProductOrder[p] < ProductOrder[q])
  <1> DEFINE R == StrictSubsetOrdering(Products)
             B == {Behind(p) : p \in T}
  <1>1. IsWellFoundedOn(R, SUBSET Products)
    BY FS_StrictSubsetOrderingWellFounded, FS_FiniteSubsetsOfFinite
  <1>2. B \subseteq SUBSET Products /\ B # {}
    BY DEF Behind
  <1>3. \E x \in B : \A y \in B : <<y, x>> \notin R
    <2> HIDE DEF R, B
    <2>1. QED
      BY <1>1, <1>2, WFMin
  <1>4. PICK p \in T : \A y \in B : <<y, Behind(p)>> \notin R
    BY <1>3
  <1>5. ASSUME NEW q \in T, ProductOrder[p] < ProductOrder[q] PROVE FALSE
    <2>1. \A r \in Products : ProductOrder[r] \in Nat
      BY ProductOrderType
    <2>2. Behind(q) \subseteq Behind(p)
      BY <1>5, <2>1 DEF Behind
    <2>3. q \in Behind(p) /\ q \notin Behind(q)
      BY <1>5, <2>1 DEF Behind
    <2>4. <<Behind(q), Behind(p)>> \in R
      BY <1>2, <2>2, <2>3 DEF StrictSubsetOrdering
    <2>5. QED
      BY <1>4, <2>4
  <1>6. QED
    BY <1>5

\* Wherever one of them waits for a lock, its owner waits for the lock of a row
\* that comes after all it has locked: a cycle would have to go round in
\* ProductOrder.
LEMMA NoCycleOfRows ==
    ASSUME TxInv, QueuesOK, IsFiniteSet(Products)
    PROVE  ReservesNeverCycle
  <1> SUFFICES ASSUME NEW W \in SUBSET Workers, WaitsForItself(W),
                      \A w \in W : tx[w].kind \in OrderedKinds
               PROVE  FALSE
    BY DEF ReservesNeverCycle
  <1>1. /\ \A w \in W : WorkerOK(w) /\ QueueOK(w) /\ tx[w] \in Tx
        /\ W # {} /\ \A w \in W : Blockers(w) \cap (W \ {w}) # {}
    BY DEF TxInv, LocksType, QueuesOK, WaitsForItself
  <1>2. \A w \in W : tx[w].pc = "lockRows"
    <2>1. \A w \in W : tx[w].pc \in {"lockRows", "lockReservation"}
      BY <1>1 DEF Blockers
    <2>2. \A w \in W : tx[w].pc # "lockReservation"
      BY <1>1 DEF WorkerOK, JobOK, OrderedKinds
    <2>3. QED
      BY <2>1, <2>2
  <1> DEFINE T == {p \in Products : \E w \in W : /\ \E l \in tx[w].queue : l.product = p
                                                 /\ rowLock[p] \in W \ {w}}
  <1>3. ASSUME NEW w \in W PROVE \E l \in tx[w].queue : l.product \in T
    <2>1. PICK v \in W \ {w} : v \in Blockers(w)
      BY <1>1
    <2>2. PICK l \in tx[w].queue : rowLock[l.product] = v
      BY <1>2, <2>1 DEF Blockers
    <2>3. l.product \in Products
      BY <1>1 DEF Tx
    <2>4. QED
      BY <2>1, <2>2, <2>3
  <1>4. T # {}
    BY <1>1, <1>3
  <1>5. ASSUME NEW p \in T PROVE \E q \in T : ProductOrder[p] < ProductOrder[q]
    <2> DEFINE v == rowLock[p]
    <2>1. v \in W /\ p \in Products
      OBVIOUS
    <2>2. PICK l \in tx[v].queue : l.product \in T
      BY <1>3, <2>1
    <2>3. ProductOrder[p] < ProductOrder[l.product]
      BY <1>1, <2>1, <2>2 DEF QueueOK
    <2>4. QED
      BY <2>2, <2>3
  <1>6. T \in SUBSET Products
    OBVIOUS
  <1> HIDE DEF T
  <1>7. QED
    BY <1>4, <1>5, <1>6, SomeRowIsLast

\* reserve takes its rows in the order of product_id, and the admin's updates
\* take one: no set of them waits for itself, however many orders overlap in
\* however many products, and whatever commits, releases and sweeps of whatever
\* batch go on meanwhile.
THEOREM ReservesNeverCycleCorrect ==
    AllTracked /\ IsFiniteSet(Products) => (TxSpec => []ReservesNeverCycle)
  <1> SUFFICES ASSUME AllTracked, IsFiniteSet(Products)
               PROVE  TxSpec => []ReservesNeverCycle
    OBVIOUS
  <1>1. TxInit => QueuesOK
    BY DEF TxInit, QueuesOK, QueueOK, NoTx
  <1>2. TxInv /\ QueuesOK /\ [TxNext]_allVars => QueuesOK'
    BY QueuesStep
  <1>3. TxInv /\ QueuesOK => ReservesNeverCycle
    BY NoCycleOfRows
  <1>4. QED
    BY <1>1, <1>2, <1>3, TxInvCorrect, PTL DEF TxSpec
=============================================================================
