------------------------------ MODULE Inventory ------------------------------
(***************************************************************************)
(* The stock ledger of backend/app/modules/inventory: balances, movements, *)
(* reservations, transfers and the moving-average cost, with every request *)
(* one PostgreSQL transaction at READ COMMITTED.                           *)
(*                                                                         *)
(* A transaction locks rows one at a time (SELECT ... FOR UPDATE), works   *)
(* on its own image of the rows it locked (the SQLAlchemy session runs     *)
(* with autoflush off), and makes them visible all at once when it         *)
(* commits.  Any transaction may also roll back: a business error, a       *)
(* crash, a timeout, or PostgreSQL choosing it as a deadlock victim.       *)
(*                                                                         *)
(* Quantities are integers in units of the last decimal place, costs are   *)
(* integers in units of 10^-6.  A missing balance row and a zero balance   *)
(* row are the same state, because ensure_balance creates it on demand.    *)
(***************************************************************************)
EXTENDS Integers, Sequences, FiniteSets, Functions

CONSTANTS
    Product,        \* product ids; their order as integers is the UUID byte order
    Warehouse,      \* warehouse ids
    Txn,            \* concurrent database sessions
    Reservation,    \* ids reservations may get
    Transfer,       \* ids transfers may get
    Key,            \* Idempotency-Key header values
    NoKey, NoDoc,
    Quantity,       \* quantities a request may carry
    UnitCost,       \* unit costs a receipt may carry
    AllowNegative,  \* Tenant.allow_negative_inventory
    Offered,        \* the operations clients issue in this instance
    SweepLimit,     \* limit of one expiry sweep (500 in the code)
    MaxMovements    \* bound: no request starts once a cell has this many movements

LockingOps == {"receipt", "issue", "adjust", "reserve", "create", "ship", "receive", "checkout",
               "refund"}
DocumentOps == {"goods_receipt", "fulfil", "restock"}
ReleasingOps == {"release", "sweep"}
Op == LockingOps \cup DocumentOps \cup ReleasingOps
PostingOps == (LockingOps \ {"reserve", "create"}) \cup DocumentOps

\* The callers of post_movement_for_document; those of the till lock the product.
CallerOps == DocumentOps \cup {"checkout", "refund"}
Sells(op) == op \in {"fulfil", "checkout"}

\* MovementType; nobody posts a PURCHASE_RETURN.
MovementType(op) ==
    CASE op \in {"receipt", "goods_receipt"} -> "RECEIPT"
      [] op = "issue"   -> "ISSUE"
      [] op = "adjust"  -> "ADJUSTMENT"
      [] op = "ship"    -> "TRANSFER_OUT"
      [] op = "receive" -> "TRANSFER_IN"
      [] op \in {"restock", "refund"} -> "SALE_RETURN"
      [] OTHER          -> "SALE"

ASSUME ProductAssumption == Product \subseteq Nat
ASSUME ReservationAssumption == IsFiniteSet(Reservation)
ASSUME QuantityAssumption == Quantity \subseteq Nat \ {0}
ASSUME UnitCostAssumption == UnitCost \subseteq Nat
ASSUME AllowNegativeAssumption == AllowNegative \in BOOLEAN
ASSUME NoKeyAssumption == NoKey \notin Key
ASSUME NoDocAssumption == NoDoc \notin Transfer \cup Reservation \cup Warehouse
ASSUME DocAssumption == Transfer \cap Reservation = {}
ASSUME OfferedAssumption == Offered \subseteq Op \cup {"update_product", "deactivate_product"}
ASSUME BoundAssumption == SweepLimit \in Nat \ {0} /\ MaxMovements \in Nat

VARIABLES
    cell,         \* committed inventory_balances row and movements of each cell
    cost,         \* committed products.cost_price
    retired,      \* products with is_active = false
    reservation,  \* committed stock_reservations rows
    expired,      \* reservations whose expires_at has passed
    transfer,     \* committed stock_transfers rows with their lines
    productLock,  \* holders of products row FOR UPDATE
    cellLock,     \* holders of inventory_balances row FOR UPDATE
    docLock,      \* holders of a reservation or transfer row FOR UPDATE
    txn,          \* where each session is in its request
    image,        \* each session's image of the balance rows it locked
    newCost,      \* each session's image of the cost of the products it read
    dirty         \* products whose cost the session has assigned

committed == <<cell, cost, retired, reservation, expired, transfer>>
locks == <<productLock, cellLock, docLock>>
session == <<txn, image, newCost, dirty>>
vars == <<committed, locks, session>>

Cell == Warehouse \X Product
Doc == Reservation \cup Transfer

\* One unit of work of a request: change the cell <<w, p>> by q; r is the
\* reservation a release gives back.
Item == [w : Warehouse, p : Product, q : Int, r : Reservation \cup {NoDoc}]
CellOf(i) == <<i.w, i.p>>

Movement == [type : {MovementType(op) : op \in PostingOps}, q : Int, unit : Int,
             key : Key \cup {NoKey}, ref : Transfer \cup {NoDoc}, after : Int]
BalanceRow == [onHand : Int, reserved : Int, ledger : Seq(Movement)]
EmptyRow == [onHand |-> 0, reserved |-> 0, ledger |-> <<>>]

NoReservation == [status |-> "none", w |-> NoDoc, p |-> 0, q |-> 0]
NoTransfer == [status |-> "none", src |-> NoDoc, dst |-> NoDoc, lines |-> {}]
Line == [p : Product, q : Quantity]

Idle == [pc |-> "idle", op |-> "none", key |-> NoKey, unit |-> 0, doc |-> NoDoc,
         dst |-> NoDoc, items |-> {}, todo |-> {}, cur |-> NoDoc]
EmptyImage == [c \in Cell |-> EmptyRow]
NoCosts == [p \in Product |-> 0]

Available(row) == row.onHand - row.reserved

\* The committed movements of a cell.
Movements(c) == {cell[c].ledger[n] : n \in DOMAIN cell[c].ledger}

-----------------------------------------------------------------------------
(* Idempotency keys of movements.  A transfer stores its header's key       *)
(* suffixed with the movement type and the product.                         *)

TransferTypes == {"TRANSFER_OUT", "TRANSFER_IN"}

SameStoredKey(type, p, k, otherType, otherP, otherK) ==
    /\ k # NoKey
    /\ k = otherK
    /\ type \in TransferTypes \/ otherType \in TransferTypes
         => type = otherType /\ p = otherP

\* The committed movements stored under the key of a (type, product) request.
KeyHolders(type, p, k) ==
    UNION { {[c |-> c, mv |-> m] : m \in {mv \in Movements(c) :
                SameStoredKey(type, p, k, mv.type, c[2], mv.key)}} : c \in Cell }

Holders(t) == KeyHolders(MovementType(txn[t].op), txn[t].cur.p, txn[t].key)

\* The unit cost the movement records; a received transfer moves at cost_price.
UnitOf(t, currentCost) == IF txn[t].op = "receive" THEN currentCost ELSE txn[t].unit

\* An adjustment's reference_id is a fresh id, so it never repeats a request.
SameRequest(t, h) ==
    /\ h.c = CellOf(txn[t].cur)
    /\ h.mv.type = MovementType(txn[t].op)
    /\ h.mv.q = txn[t].cur.q
    /\ h.mv.unit = UnitOf(t, cost[txn[t].cur.p])
    /\ h.mv.ref = txn[t].doc
    /\ txn[t].op # "adjust"

-----------------------------------------------------------------------------
(* Moving-average cost.                                                      *)

\* Quotient rounded to the last place, ties away from zero (ROUND_HALF_UP).
RoundedQuotient(n, d) ==
    LET nn == IF d < 0 THEN -n ELSE n
        dd == IF d < 0 THEN -d ELSE d
    IN  IF nn >= 0 THEN (2 * nn + dd) \div (2 * dd)
                   ELSE -((-2 * nn + dd) \div (2 * dd))

AverageCost(onHand, oldCost, q, unit) ==
    IF onHand + q = 0 THEN oldCost
    ELSE RoundedQuotient(onHand * oldCost + q * unit, onHand + q)

-----------------------------------------------------------------------------
(* Starting a request.                                                       *)

\* The next unit of work: transfers and documents sort their lines by product
\* id; create_transfer follows the payload, a credit note its invoice lines and
\* the sweep expires_at, all of which may be any order.
MayComeNext(op, S, i) ==
    /\ i \in S
    /\ op \in ({"ship", "receive"} \cup CallerOps) \ {"restock"} => \A j \in S : i.p <= j.p

FirstStage(op) == IF op \in ReleasingOps THEN "balance" ELSE "product"

\* The session t has read its request and stands before its first lock.
Started(t, op, key, unit, doc, dst, items, stage) ==
    /\ txn[t].pc = "idle"
    /\ op \in Offered
    /\ \A c \in Cell : Len(cell[c].ledger) < MaxMovements
    /\ items # {}
    /\ \E i \in items :
         /\ MayComeNext(op, items, i)
         /\ txn' = [txn EXCEPT ![t] =
                      [pc |-> stage, op |-> op, key |-> key, unit |-> unit,
                       doc |-> doc, dst |-> dst, items |-> items, todo |-> items,
                       cur |-> i]]

OneItem(w, p, q) == {[w |-> w, p |-> p, q |-> q, r |-> NoDoc]}
Lines(w, q) == {[w |-> w, p |-> p, q |-> q[p], r |-> NoDoc] : p \in DOMAIN q}

Receipt(t) ==
    /\ \E w \in Warehouse, p \in Product, q \in Quantity,
          u \in UnitCost, k \in Key \cup {NoKey} :
          Started(t, "receipt", k, u, NoDoc, NoDoc, OneItem(w, p, q), "product")
    /\ UNCHANGED <<committed, locks, image, newCost, dirty>>

Issue(t) ==
    /\ \E w \in Warehouse, p \in Product, q \in Quantity, k \in Key \cup {NoKey} :
          Started(t, "issue", k, 0, NoDoc, NoDoc, OneItem(w, p, -q), "product")
    /\ UNCHANGED <<committed, locks, image, newCost, dirty>>

Adjust(t) ==
    /\ \E w \in Warehouse, p \in Product, q \in Quantity, k \in Key \cup {NoKey} :
          \/ Started(t, "adjust", k, 0, NoDoc, NoDoc, OneItem(w, p, q), "product")
          \/ Started(t, "adjust", k, 0, NoDoc, NoDoc, OneItem(w, p, -q), "product")
    /\ UNCHANGED <<committed, locks, image, newCost, dirty>>

\* uuid7() makes an id no row and no other session has.
Fresh(d) == \A u \in Txn : txn[u].doc # d

Reserve(t) ==
    /\ \E w \in Warehouse, p \in Product, q \in Quantity, r \in Reservation :
          /\ reservation[r].status = "none" /\ Fresh(r)
          /\ Started(t, "reserve", NoKey, 0, r, NoDoc, OneItem(w, p, q), "product")
    /\ UNCHANGED <<committed, locks, image, newCost, dirty>>

\* The payload's lines name each product once.
CreateTransfer(t) ==
    /\ \E src \in Warehouse, dst \in Warehouse, P \in SUBSET Product,
          x \in Transfer : \E q \in [P -> Quantity] :
          /\ src # dst
          /\ transfer[x].status = "none" /\ Fresh(x)
          /\ Started(t, "create", NoKey, 0, x, dst, Lines(src, q), "product")
    /\ UNCHANGED <<committed, locks, image, newCost, dirty>>

GivesBack(r) ==
    [w |-> reservation[r].w, p |-> reservation[r].p, q |-> reservation[r].q, r |-> r]

Release(t) ==
    /\ \E r \in Reservation :
          /\ reservation[r].status # "none"
          /\ Started(t, "release", NoKey, 0, r, NoDoc, {GivesBack(r)}, "document")
    /\ UNCHANGED <<committed, locks, image, newCost, dirty>>

\* Lines of transfer x as work at one of its warehouses.
TransferItems(x, op) ==
    {[w |-> IF op = "ship" THEN transfer[x].src ELSE transfer[x].dst,
      p |-> l.p, q |-> IF op = "ship" THEN -l.q ELSE l.q, r |-> NoDoc] : l \in transfer[x].lines}

TransitionTransfer(t, op) ==
    /\ \E x \in Transfer, k \in Key \cup {NoKey} :
          /\ transfer[x].status # "none"
          /\ Started(t, op, k, 0, x, NoDoc, TransferItems(x, op), "document")
    /\ UNCHANGED <<committed, locks, image, newCost, dirty>>

\* post_movement_for_document as its callers use it: a goods receipt with a
\* unit cost, a fulfilment, a credit note that restocks, a checkout and a
\* refund; one warehouse, each product once, no key.  A checkout locks the
\* balances it needs before the products as well, which only takes
\* interleavings away.
Document(t, op) ==
    /\ \E w \in Warehouse, P \in SUBSET Product, q \in Quantity,
          u \in IF op = "goods_receipt" THEN UnitCost ELSE {0} :
          Started(t, op, NoKey, u, NoDoc, NoDoc,
                  Lines(w, [p \in P |-> IF Sells(op) THEN -q ELSE q]), "product")
    /\ UNCHANGED <<committed, locks, image, newCost, dirty>>

\* The sweep takes the expired ACTIVE reservations nobody has locked
\* (SKIP LOCKED), at most SweepLimit of them, and locks them all.
Sweepable == {r \in Reservation : /\ reservation[r].status = "ACTIVE"
                                  /\ r \in expired
                                  /\ docLock[r] = {}}

ReleaseExpired(t) ==
    /\ \E S \in SUBSET Sweepable :
          /\ Cardinality(S) = IF Cardinality(Sweepable) < SweepLimit
                              THEN Cardinality(Sweepable) ELSE SweepLimit
          /\ Started(t, "sweep", NoKey, 0, NoDoc, NoDoc, {GivesBack(r) : r \in S}, "balance")
          /\ docLock' = [d \in Doc |-> IF d \in S THEN {t} ELSE docLock[d]]
    /\ UNCHANGED <<committed, productLock, cellLock, image, newCost, dirty>>

-----------------------------------------------------------------------------
(* Locking and working, one row at a time.  A row's lock is the set of its   *)
(* holders; FOR UPDATE waits until no other session holds it.                *)

Free(lock, row, t) == lock[row] \subseteq {t}
Locked(lock, row, t) == [lock EXCEPT ![row] = @ \cup {t}]

\* After the unit of work cur: the next one, or the commit.
Advance(t) ==
    LET rest == txn[t].todo \ {txn[t].cur}
    IN  IF rest = {}
        THEN txn' = [txn EXCEPT ![t].pc = "commit", ![t].todo = rest]
        ELSE \E i \in rest :
               /\ MayComeNext(txn[t].op, rest, i)
               /\ txn' = [txn EXCEPT ![t].pc = FirstStage(txn[t].op),
                                     ![t].todo = rest, ![t].cur = i]

\* SELECT ... FOR UPDATE of the reservation or transfer, then its status check.
ExpectedStatus(op) ==
    CASE op = "release" -> "ACTIVE" [] op = "ship" -> "DRAFT" [] OTHER -> "IN_TRANSIT"

\* Mistake: trusting the status read before the row was locked.
DocStatusUnchecked(t) == ExpectedStatus(txn[t].op)

DocStatus(t) ==
    IF txn[t].op = "release" THEN reservation[txn[t].doc].status
                             ELSE transfer[txn[t].doc].status

MayLockDocument(t) == txn[t].pc = "document" /\ Free(docLock, txn[t].doc, t)

LockDocument(t) ==
    /\ MayLockDocument(t)
    /\ DocStatus(t) = ExpectedStatus(txn[t].op)
    /\ docLock' = Locked(docLock, txn[t].doc, t)
    /\ txn' = [txn EXCEPT ![t].pc = FirstStage(txn[t].op)]
    /\ UNCHANGED <<committed, productLock, cellLock, image, newCost, dirty>>

\* _validate_pair: lock the product, refuse an inactive one, read its cost;
\* then _post_movement's look-up of the idempotency key.
MayLockProduct(t) ==
    /\ txn[t].pc = "product"
    /\ txn[t].op \in LockingOps
    /\ Free(productLock, txn[t].cur.p, t)

NewKey(t) == txn[t].op \in PostingOps => Holders(t) = {}
ReplayedKey(t) == txn[t].op \in PostingOps /\ \E h \in Holders(t) : SameRequest(t, h)

ReadProduct(t, p) == newCost' = [newCost EXCEPT ![t][p] = cost[p]]

LockProduct(t) ==
    /\ MayLockProduct(t)
    /\ txn[t].cur.p \notin retired
    /\ productLock' = Locked(productLock, txn[t].cur.p, t)
    /\ ReadProduct(t, txn[t].cur.p)
    /\ \/ /\ txn[t].op # "create"
          /\ NewKey(t)
          /\ txn' = [txn EXCEPT ![t].pc = "balance"]
       \/ /\ txn[t].op = "create" \/ ReplayedKey(t)
          /\ Advance(t)
    /\ UNCHANGED <<committed, cellLock, docLock, image, dirty>>

\* A document of sales or purchasing reads the product with session.get: no lock, no is_active check.
LoadProduct(t) ==
    /\ txn[t].pc = "product"
    /\ txn[t].op \in DocumentOps
    /\ ReadProduct(t, txn[t].cur.p)
    /\ txn' = [txn EXCEPT ![t].pc = "balance"]
    /\ UNCHANGED <<committed, locks, image, dirty>>

\* The balance row as the session sees it once it holds the lock.
RowSeen(t, c) == IF t \in cellLock[c] THEN image[t][c] ELSE cell[c]

\* Mistake: reading the balance without FOR UPDATE.
MayLockBalanceUnguarded(t) == txn[t].pc = "balance"

MayLockBalance(t) ==
    /\ txn[t].pc = "balance"
    /\ Free(cellLock, CellOf(txn[t].cur), t)

NewMovement(t, onHand) ==
    [type |-> MovementType(txn[t].op), q |-> txn[t].cur.q,
     unit |-> UnitOf(t, newCost[t][txn[t].cur.p]),
     key |-> txn[t].key, ref |-> txn[t].doc, after |-> onHand + txn[t].cur.q]

\* Mistake: comparing with the stock on hand instead of the available stock.
EnoughOnHand(row, q) == AllowNegative \/ q <= row.onHand

Enough(row, q) == AllowNegative \/ q <= Available(row)

Work(t, row) ==
    [c \in Cell |-> IF c = CellOf(txn[t].cur) THEN row ELSE image[t][c]]

\* _post_movement from the balance lock on.
PostMovement(t) ==
    LET i == txn[t].cur
        row == RowSeen(t, CellOf(i))
    IN  /\ MayLockBalance(t)
        /\ txn[t].op \in PostingOps
        /\ i.q < 0 => Enough(row, -i.q)
        /\ cellLock' = Locked(cellLock, CellOf(i), t)
        /\ image' = [image EXCEPT ![t] = Work(t,
                       [onHand |-> row.onHand + i.q, reserved |-> row.reserved,
                        ledger |-> Append(row.ledger, NewMovement(t, row.onHand))])]
        /\ IF MovementType(txn[t].op) = "RECEIPT"
           THEN LET avg == AverageCost(row.onHand, newCost[t][i.p], i.q, txn[t].unit)
                IN  /\ newCost' = [newCost EXCEPT ![t][i.p] = avg]
                    /\ dirty' = IF avg = newCost[t][i.p] THEN dirty
                                ELSE [dirty EXCEPT ![t] = @ \cup {i.p}]
           ELSE UNCHANGED <<newCost, dirty>>
        /\ Advance(t)
        /\ UNCHANGED <<committed, productLock, docLock>>

ReserveStock(t) ==
    LET i == txn[t].cur
        row == RowSeen(t, CellOf(i))
    IN  /\ MayLockBalance(t)
        /\ txn[t].op = "reserve"
        /\ Enough(row, i.q)
        /\ cellLock' = Locked(cellLock, CellOf(i), t)
        /\ image' = [image EXCEPT ![t] = Work(t, [row EXCEPT !.reserved = @ + i.q])]
        /\ Advance(t)
        /\ UNCHANGED <<committed, productLock, docLock, newCost, dirty>>

ReleaseStock(t) ==
    LET i == txn[t].cur
        row == RowSeen(t, CellOf(i))
    IN  /\ MayLockBalance(t)
        /\ txn[t].op \in ReleasingOps
        /\ cellLock' = Locked(cellLock, CellOf(i), t)
        /\ image' = [image EXCEPT ![t] = Work(t, [row EXCEPT !.reserved = @ - i.q])]
        /\ Advance(t)
        /\ UNCHANGED <<committed, productLock, docLock, newCost, dirty>>

-----------------------------------------------------------------------------
(* The end of a transaction.                                                 *)

Unlocked(lock, t) == [row \in DOMAIN lock |-> lock[row] \ {t}]

EndTransaction(t) ==
    /\ productLock' = Unlocked(productLock, t)
    /\ cellLock' = Unlocked(cellLock, t)
    /\ docLock' = Unlocked(docLock, t)
    /\ txn' = [txn EXCEPT ![t] = Idle]
    /\ image' = [image EXCEPT ![t] = EmptyImage]
    /\ newCost' = [newCost EXCEPT ![t] = NoCosts]
    /\ dirty' = [dirty EXCEPT ![t] = {}]

\* Mistake: relying on the look-up alone, without the unique index.
UniqueKeysUnchecked(t) == TRUE

\* The flush.  The unique index on the stored key refuses a key committed since
\* the look-up; the CHECK refuses a negative reserved quantity.
UniqueKeys(t) ==
    \A c \in Cell : t \in cellLock[c] =>
        \A n \in DOMAIN image[t][c].ledger :
            LET mv == image[t][c].ledger[n]
            IN  n > Len(cell[c].ledger) => KeyHolders(mv.type, c[2], mv.key) = {}
ReservedNonNegative(t) == \A c \in Cell : t \in cellLock[c] => image[t][c].reserved >= 0

\* The CHECK on cost_price.
CostsNonNegative(t) == \A p \in dirty[t] : newCost[t][p] >= 0

\* A document's INSERT of a movement takes the foreign key's share lock on the
\* product, and its UPDATE of cost_price a row lock: both wait for FOR UPDATE.
MayFlush(t) ==
    /\ txn[t].pc = "commit"
    /\ txn[t].op \in DocumentOps => \A i \in txn[t].items : Free(productLock, i.p, t)

CommitReservations(t) ==
    LET i == txn[t].cur
        back == IF txn[t].op \in ReleasingOps THEN {j.r : j \in txn[t].items} ELSE {}
    IN  reservation' = [r \in Reservation |->
            IF txn[t].op = "reserve" /\ r = txn[t].doc
            THEN [status |-> "ACTIVE", w |-> i.w, p |-> i.p, q |-> i.q]
            ELSE IF r \in back THEN [reservation[r] EXCEPT !.status = "RELEASED"]
            ELSE reservation[r]]

CommitTransfers(t) ==
    transfer' = [x \in Transfer |->
        IF x # txn[t].doc THEN transfer[x]
        ELSE CASE txn[t].op = "create" ->
                    [status |-> "DRAFT", src |-> txn[t].cur.w, dst |-> txn[t].dst,
                     lines |-> {[p |-> i.p, q |-> i.q] : i \in txn[t].items}]
               [] txn[t].op = "ship" -> [transfer[x] EXCEPT !.status = "IN_TRANSIT"]
               [] txn[t].op = "receive" -> [transfer[x] EXCEPT !.status = "COMPLETED"]
               [] OTHER -> transfer[x]]

Commit(t) ==
    /\ MayFlush(t)
    /\ UniqueKeys(t)
    /\ ReservedNonNegative(t) /\ CostsNonNegative(t)
    /\ cell' = [c \in Cell |-> IF t \in cellLock[c] THEN image[t][c] ELSE cell[c]]
    /\ cost' = [p \in Product |-> IF p \in dirty[t] THEN newCost[t][p] ELSE cost[p]]
    /\ CommitReservations(t)
    /\ CommitTransfers(t)
    /\ EndTransaction(t)
    /\ UNCHANGED <<retired, expired>>

\* A guard of the service refuses the request and service_transaction rolls back.
Refused(t) ==
    \/ /\ MayLockDocument(t)
       /\ DocStatus(t) # ExpectedStatus(txn[t].op)
    \/ /\ MayLockProduct(t)
       /\ \/ txn[t].cur.p \in retired
          \/ ~NewKey(t) /\ ~ReplayedKey(t)
    \/ /\ MayLockBalance(t)
       /\ LET i == txn[t].cur
              row == RowSeen(t, CellOf(i))
          IN  \/ txn[t].op \in PostingOps /\ i.q < 0 /\ ~Enough(row, -i.q)
              \/ txn[t].op = "reserve" /\ ~Enough(row, i.q)
    \/ /\ MayFlush(t)
       /\ ~UniqueKeys(t) \/ ~ReservedNonNegative(t) \/ ~CostsNonNegative(t)

Reject(t) == Refused(t) /\ EndTransaction(t) /\ UNCHANGED committed

\* The worker dies, the client disconnects or a statement times out.
Crash(t) == txn[t].pc # "idle" /\ EndTransaction(t) /\ UNCHANGED committed

-----------------------------------------------------------------------------
(* Waiting, and PostgreSQL's deadlock detector.                              *)

\* The sessions that hold a row t is waiting for.
BlockedBy(t) ==
    LET i == txn[t].cur
        holders == CASE txn[t].pc = "document" -> docLock[txn[t].doc]
                     [] txn[t].pc = "product" /\ txn[t].op \in LockingOps -> productLock[i.p]
                     [] txn[t].pc = "balance" -> cellLock[CellOf(i)]
                     [] txn[t].pc = "commit" /\ txn[t].op \in DocumentOps ->
                          UNION {productLock[j.p] : j \in txn[t].items}
                     [] OTHER -> {}
    IN  holders \ {t}

\* t is on a cycle of the waits-for graph: a set of sessions, each blocked by
\* another of the set.
Deadlocked(t) ==
    \E S \in SUBSET Txn : t \in S /\ \A u \in S : BlockedBy(u) \cap S # {}

DeadlockVictim(t) == Deadlocked(t) /\ EndTransaction(t) /\ UNCHANGED committed

-----------------------------------------------------------------------------
(* The clock, and the catalogue.                                             *)

Expire(r) ==
    /\ reservation[r].status # "none"
    /\ r \notin expired
    /\ expired' = expired \cup {r}
    /\ UNCHANGED <<cell, cost, retired, reservation, transfer, locks, session>>

\* PATCH of a product may set is_active either way; DELETE sets it to false
\* only when the product has no movements.  Both lock the row and commit.
UpdateProduct(p) ==
    /\ "update_product" \in Offered
    /\ productLock[p] = {}
    /\ retired' = IF p \in retired THEN retired \ {p} ELSE retired \cup {p}
    /\ UNCHANGED <<cell, cost, reservation, expired, transfer, locks, session>>

DeactivateProduct(p) ==
    /\ "deactivate_product" \in Offered
    /\ productLock[p] = {}
    /\ \A w \in Warehouse : Movements(<<w, p>>) = {}
    /\ retired' = retired \cup {p}
    /\ UNCHANGED <<cell, cost, reservation, expired, transfer, locks, session>>

-----------------------------------------------------------------------------
Init ==
    /\ cell = [c \in Cell |-> EmptyRow]
    /\ cost = [p \in Product |-> 0]
    /\ retired = {}
    /\ reservation = [r \in Reservation |-> NoReservation]
    /\ expired = {}
    /\ transfer = [x \in Transfer |-> NoTransfer]
    /\ productLock = [p \in Product |-> {}]
    /\ cellLock = [c \in Cell |-> {}]
    /\ docLock = [d \in Doc |-> {}]
    /\ txn = [t \in Txn |-> Idle]
    /\ image = [t \in Txn |-> EmptyImage]
    /\ newCost = [t \in Txn |-> NoCosts]
    /\ dirty = [t \in Txn |-> {}]

Start(t) ==
    \/ Receipt(t) \/ Issue(t) \/ Adjust(t) \/ Reserve(t) \/ Release(t)
    \/ CreateTransfer(t) \/ TransitionTransfer(t, "ship") \/ TransitionTransfer(t, "receive")
    \/ (\E op \in CallerOps : Document(t, op)) \/ ReleaseExpired(t)

Step(t) ==
    \/ LockDocument(t) \/ LockProduct(t) \/ LoadProduct(t)
    \/ PostMovement(t) \/ ReserveStock(t) \/ ReleaseStock(t)
    \/ Commit(t) \/ Reject(t) \/ DeadlockVictim(t)

Next ==
    \/ \E t \in Txn : Start(t) \/ Step(t) \/ Crash(t)
    \/ \E r \in Reservation : Expire(r)
    \/ \E p \in Product : UpdateProduct(p) \/ DeactivateProduct(p)

Spec == Init /\ [][Next]_vars

-----------------------------------------------------------------------------
(* Correctness.                                                              *)

Status == {"none", "ACTIVE", "RELEASED"}
ReservationRow == [status : Status, w : Warehouse \cup {NoDoc}, p : Nat, q : Nat]
TransferRow == [status : {"none", "DRAFT", "IN_TRANSIT", "COMPLETED"},
                src : Warehouse \cup {NoDoc}, dst : Warehouse \cup {NoDoc}, lines : SUBSET Line]
Stage == {"idle", "document", "product", "balance", "commit"}
Request == [pc : Stage, op : Op \cup {"none"}, key : Key \cup {NoKey}, unit : Int,
            doc : Doc \cup {NoDoc}, dst : Warehouse \cup {NoDoc},
            items : SUBSET Item, todo : SUBSET Item, cur : Item \cup {NoDoc}]

\* Every variable holds a value of its table's or its session's shape.
TypeOK ==
    /\ cell \in [Cell -> BalanceRow]
    /\ cost \in [Product -> Int]
    /\ retired \subseteq Product
    /\ reservation \in [Reservation -> ReservationRow]
    /\ expired \subseteq Reservation
    /\ transfer \in [Transfer -> TransferRow]
    /\ productLock \in [Product -> SUBSET Txn]
    /\ cellLock \in [Cell -> SUBSET Txn]
    /\ docLock \in [Doc -> SUBSET Txn]
    /\ txn \in [Txn -> Request]
    /\ image \in [Txn -> [Cell -> BalanceRow]]
    /\ newCost \in [Txn -> [Product -> Int]]
    /\ dirty \in [Txn -> SUBSET Product]

\* What a request that has started looks like, and a document that exists; with
\* TypeOK this is inductive.
RequestWellFormed(x) ==
    /\ x.op \in Op
    /\ x.cur \in x.items
    /\ x.todo \subseteq x.items
    /\ x.pc = "document" => x.doc \in Doc
    /\ x.op \in PostingOps => x.doc \in Transfer \cup {NoDoc}
    /\ x.op \in {"reserve", "create"} => \A i \in x.items : i.q \in Quantity
    /\ x.op \in ReleasingOps => \A i \in x.items : i.q \in Nat
    /\ x.op = "create" => x.dst \in Warehouse
TargetsExist(x) ==
    /\ x.op \in ReleasingOps =>
         \A i \in x.items : i.r \in Reservation /\ reservation[i.r].status # "none"
    /\ x.op \in {"ship", "receive"} => x.doc \in Transfer /\ transfer[x.doc].status # "none"
WellFormed ==
    /\ \A t \in Txn : txn[t].pc # "idle" => RequestWellFormed(txn[t])
    /\ \A t \in Txn : txn[t].pc # "idle" => TargetsExist(txn[t])
    /\ \A r \in Reservation : reservation[r].status # "none" =>
         reservation[r].w \in Warehouse /\ reservation[r].p \in Product
    /\ \A x \in Transfer : transfer[x].status # "none" =>
         transfer[x].src \in Warehouse /\ transfer[x].dst \in Warehouse

\* A movement's balance_after is the one before it plus its quantity, and the
\* cached quantity_on_hand is the last balance_after.
Chained(row) ==
    /\ \A n \in DOMAIN row.ledger :
         row.ledger[n].after = row.ledger[n].q + (IF n = 1 THEN 0 ELSE row.ledger[n - 1].after)
    /\ row.onHand = IF row.ledger = <<>> THEN 0 ELSE row.ledger[Len(row.ledger)].after

\* The movement ledger and the cached balance agree in every committed state,
\* whatever the sessions interleave: _post_movement never loses an update.
LedgerChain == \A c \in Cell : Chained(cell[c])

\* The ACTIVE reservations of a cell.
ActiveAt(c) == {r \in Reservation : /\ reservation[r].status = "ACTIVE"
                                    /\ <<reservation[r].w, reservation[r].p>> = c}

\* The cells an inventory reconciliation reports: their movements do not add up
\* to the cached quantity.
Quantities(ledger) == [n \in DOMAIN ledger |-> ledger[n].q]
Drift == {c \in Cell : cell[c].onHand # SumFunction(Quantities(cell[c].ledger))}

\* The movements of a balance chain up to its cached quantity, so that a
\* reconciliation never finds drift (_post_movement, inventory/service.py:136),
\* and reserved_quantity is the sum of the ACTIVE reservations: a release and
\* the expiry sweep that race for one reservation give its stock back once
\* (inventory/service.py:492, :522).
CachedSumsMatch ==
    /\ LedgerChain /\ Drift = {}
    /\ \A c \in Cell : cell[c].reserved =
           SumFunction([r \in ActiveAt(c) |-> reservation[r].q])

\* Unless the tenant allows negative stock, no interleaving of receipts,
\* issues, sales, transfers and reservations promises more than is on hand.
NoOversell ==
    AllowNegative \/ \A c \in Cell : 0 <= cell[c].reserved /\ cell[c].reserved <= cell[c].onHand

\* The ledger is append-only: a commit adds movements after the committed ones
\* and changes none, even when its image was taken long before it commits.  A
\* session that wrote a balance computed from an older row would write the row
\* and its ledger without the movement it never saw (inventory/service.py:136).
Extends(new, old) ==
    /\ Len(old) <= Len(new)
    /\ \A n \in DOMAIN old : new[n] = old[n]
LedgerAppendOnly == [][\A c \in Cell : Extends(cell'[c].ledger, cell[c].ledger)]_vars

\* At most one session holds a balance row, and what it holds is the committed
\* row followed by its own movements, chained and not oversold: the image taken
\* at lock time is never stale.
ImageSound(row, old) ==
    /\ Chained(row)
    /\ AllowNegative \/ row.reserved <= row.onHand
    /\ Extends(row.ledger, old.ledger)
HeldRowsAreCurrent ==
    \A c \in Cell : \A t \in cellLock[c] :
        cellLock[c] = {t} /\ ImageSound(image[t][c], cell[c])

\* A stored idempotency key names at most one movement, although two sessions
\* on different products can both look it up before either commits.
KeyPostsOnce ==
    \A c, d \in Cell : \A n \in DOMAIN cell[c].ledger, m \in DOMAIN cell[d].ledger :
        LET a == cell[c].ledger[n]
            b == cell[d].ledger[m]
        IN  SameStoredKey(a.type, c[2], a.key, b.type, d[2], b.key) => c = d /\ n = m

\* The movements of transfer x of one type, as <<cell, position>> pairs.
TransferMovements(x, type) ==
    {cn \in UNION {{<<c, n>> : n \in DOMAIN cell[c].ledger} : c \in Cell} :
        /\ cell[cn[1]].ledger[cn[2]].ref = x
        /\ cell[cn[1]].ledger[cn[2]].type = type}

\* One movement for each line at warehouse w, and no other.
PostedLines(x, type, w, sign) ==
    LET M == TransferMovements(x, type)
        MovedBy(l, cn) == cn[1] = <<w, l.p>> /\ cell[cn[1]].ledger[cn[2]].q = sign * l.q
    IN  /\ \A l \in transfer[x].lines : \E cn \in M : MovedBy(l, cn)
        /\ \A cn \in M : \E l \in transfer[x].lines : MovedBy(l, cn)
        /\ \A a, b \in M : a[1] = b[1] => a = b

\* However many sessions ship or receive the same transfer, each line leaves
\* the source once, when it ships, and reaches the destination once, when it
\* is received: stock is neither lost nor created.
TransferMovesEachLineOnce ==
    \A x \in Transfer :
        /\ IF transfer[x].status \in {"IN_TRANSIT", "COMPLETED"}
           THEN PostedLines(x, "TRANSFER_OUT", transfer[x].src, -1)
           ELSE TransferMovements(x, "TRANSFER_OUT") = {}
        /\ IF transfer[x].status = "COMPLETED"
           THEN PostedLines(x, "TRANSFER_IN", transfer[x].dst, 1)
           ELSE TransferMovements(x, "TRANSFER_IN") = {}

\* A product's cost changes only with a receipt it commits with, and then to the
\* average of the stock and cost committed before it and what it brings, as the
\* formula of docs/ACCOUNTING.md over the current average says.
NewReceipts(p) ==
    {cn \in UNION {{<<c, n>> : n \in DOMAIN cell'[c].ledger} : c \in Cell} :
        /\ cn[1][2] = p
        /\ cn[2] > Len(cell[cn[1]].ledger)
        /\ cell'[cn[1]].ledger[cn[2]].type = "RECEIPT"}
CostFollowsReceipts ==
    [][\A p \in Product : \A cn \in NewReceipts(p) :
         LET mv == cell'[cn[1]].ledger[cn[2]]
         IN  cost'[p] = AverageCost(cell[cn[1]].onHand, cost[p], mv.q, mv.unit)]_vars

=============================================================================
