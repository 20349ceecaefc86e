-------------------------- MODULE Inventory_proofs --------------------------
(***************************************************************************)
(* What holds of Inventory for any products, warehouses, sessions, keys    *)
(* and quantities, and for both settings of allow_negative_inventory.      *)
(***************************************************************************)
EXTENDS Inventory, Sums_proofs

-----------------------------------------------------------------------------
(* Lemmas about the operators.                                               *)

\* The rounded average cost is an integer.
LEMMA AverageCostType ==
    ASSUME NEW onHand \in Int, NEW oldCost \in Int, NEW q \in Int, NEW unit \in Int
    PROVE  AverageCost(onHand, oldCost, q, unit) \in Int
<1> DEFINE d == onHand + q
           n == onHand * oldCost + q * unit
           nn == IF d < 0 THEN -n ELSE n
           dd == IF d < 0 THEN -d ELSE d
<1>1. CASE d = 0
  BY <1>1 DEF AverageCost
<1>2. CASE d # 0
  <2>1. n \in Int
    OBVIOUS
  <2>2. nn \in Int /\ dd \in Int /\ dd > 0
    BY <1>2, <2>1
  <2> HIDE DEF nn, dd
  <2>3. (2 * nn + dd) \div (2 * dd) \in Int /\ (-2 * nn + dd) \div (2 * dd) \in Int
    BY <2>2
  <2>4. RoundedQuotient(n, d) \in Int
    BY <2>2, <2>3 DEF RoundedQuotient, nn, dd
  <2>5. QED
    BY <2>4, <1>2 DEF AverageCost
<1>3. QED
  BY <1>1, <1>2

\* Appending a movement whose balance_after is the new balance keeps a row chained.
LEMMA AppendKeepsChain ==
    ASSUME NEW row \in BalanceRow, Chained(row),
           NEW mv \in Movement, mv.after = row.onHand + mv.q, NEW res \in Int
    PROVE  LET new == [onHand |-> row.onHand + mv.q, reserved |-> res,
                       ledger |-> Append(row.ledger, mv)]
           IN  new \in BalanceRow /\ Chained(new) /\ Extends(new.ledger, row.ledger)
<1> DEFINE new == [onHand |-> row.onHand + mv.q, reserved |-> res,
                   ledger |-> Append(row.ledger, mv)]
           L == row.ledger
<1>1. L \in Seq(Movement) /\ row.onHand \in Int /\ mv.q \in Int
  BY DEF BalanceRow, Movement
<1>2. new \in BalanceRow
  BY <1>1 DEF BalanceRow
<1>3. /\ Len(new.ledger) = Len(L) + 1
      /\ new.ledger[Len(L) + 1] = mv
      /\ \A n \in 1..Len(L) : new.ledger[n] = L[n]
      /\ DOMAIN new.ledger = 1..(Len(L) + 1)
      /\ DOMAIN L = 1..Len(L)
      /\ Len(L) \in Nat
  BY <1>1
<1>4. Extends(new.ledger, L)
  BY <1>3 DEF Extends
<1>5. row.onHand = IF Len(L) = 0 THEN 0 ELSE L[Len(L)].after
  BY <1>1, <1>3 DEF Chained
<1>6. ASSUME NEW n \in DOMAIN new.ledger
      PROVE  new.ledger[n].after =
               new.ledger[n].q + (IF n = 1 THEN 0 ELSE new.ledger[n - 1].after)
  <2>1. CASE n \in 1..Len(L)
    <3>1. L[n].after = L[n].q + (IF n = 1 THEN 0 ELSE L[n - 1].after)
      BY <2>1, <1>3 DEF Chained
    <3>2. n # 1 => n - 1 \in 1..Len(L)
      BY <2>1, <1>3
    <3>3. QED
      BY <3>1, <3>2, <2>1, <1>3
  <2>2. CASE n = Len(L) + 1
    <3>1. CASE Len(L) = 0
      BY <3>1, <2>2, <1>1, <1>3, <1>5
    <3>2. CASE Len(L) # 0
      <4>1. n # 1 /\ n - 1 = Len(L) /\ n - 1 \in 1..Len(L)
        BY <3>2, <2>2, <1>3
      <4>2. new.ledger[n - 1] = L[Len(L)] /\ new.ledger[n] = mv
        BY <4>1, <2>2, <1>3
      <4>3. mv.after = mv.q + row.onHand
        BY <1>1
      <4>4. QED
        BY <4>1, <4>2, <4>3, <3>2, <1>5
    <3>3. QED
      BY <3>1, <3>2
  <2>3. QED
    BY <2>1, <2>2, <1>3
<1>7. new.ledger # <<>> /\ new.onHand = new.ledger[Len(new.ledger)].after
  BY <1>3
<1>8. Chained(new)
  BY <1>6, <1>7 DEF Chained
<1>9. QED
  BY <1>2, <1>4, <1>8

-----------------------------------------------------------------------------
(* Types.                                                                    *)

\* The part of TypeOK and WellFormed about sessions, and the part about rows.
SessionsOK ==
    /\ txn \in [Txn -> Request]
    /\ \A t \in Txn : txn[t].pc # "idle" => RequestWellFormed(txn[t]) /\ TargetsExist(txn[t])
DocumentsOK ==
    /\ reservation \in [Reservation -> ReservationRow]
    /\ transfer \in [Transfer -> TransferRow]
    /\ \A r \in Reservation : reservation[r].status # "none" =>
         reservation[r].w \in Warehouse /\ reservation[r].p \in Product
    /\ \A x \in Transfer : transfer[x].status # "none" =>
         transfer[x].src \in Warehouse /\ transfer[x].dst \in Warehouse

\* The inputs of Started that make a well-formed request.
GoodInputs(op, key, unit, doc, dst, items, stage) ==
    /\ op \in Op /\ key \in Key \cup {NoKey} /\ unit \in Int
    /\ doc \in Doc \cup {NoDoc} /\ dst \in Warehouse \cup {NoDoc}
    /\ items \in SUBSET Item /\ stage \in Stage
    /\ stage = "document" => doc \in Doc
    /\ op \in PostingOps => doc \in Transfer \cup {NoDoc}
    /\ op \in {"reserve", "create"} => \A i \in items : i.q \in Quantity
    /\ op \in ReleasingOps => \A i \in items : i.q \in Nat
    /\ op = "create" => dst \in Warehouse
    /\ op \in ReleasingOps =>
         \A i \in items : i.r \in Reservation /\ reservation[i.r].status # "none"
    /\ op \in {"ship", "receive"} => doc \in Transfer /\ transfer[doc].status # "none"

\* A well-formed request leaves the sessions well-formed when it starts.
LEMMA StartedOK ==
    ASSUME SessionsOK, NEW t \in Txn, NEW op, NEW key, NEW unit, NEW doc, NEW dst,
           NEW items, NEW stage, GoodInputs(op, key, unit, doc, dst, items, stage),
           Started(t, op, key, unit, doc, dst, items, stage),
           UNCHANGED <<reservation, transfer>>
    PROVE  SessionsOK'
<1>1. PICK i \in items :
        txn' = [txn EXCEPT ![t] =
                  [pc |-> stage, op |-> op, key |-> key, unit |-> unit, doc |-> doc,
                   dst |-> dst, items |-> items, todo |-> items, cur |-> i]]
  BY DEF Started
<1> DEFINE x == [pc |-> stage, op |-> op, key |-> key, unit |-> unit, doc |-> doc,
                 dst |-> dst, items |-> items, todo |-> items, cur |-> i]
<1>2. x \in Request
  BY DEF Request, GoodInputs
<1>3. RequestWellFormed(x) /\ TargetsExist(x)
  BY DEF RequestWellFormed, TargetsExist, GoodInputs
<1> HIDE DEF x
<1>4. txn' = [txn EXCEPT ![t] = x]
  BY <1>1 DEF x
<1>5. QED
  BY <1>2, <1>3, <1>4 DEF SessionsOK, TargetsExist

\* No step makes a row disappear.
StatusesSurvive ==
    /\ \A r \in Reservation : reservation[r].status # "none" => reservation'[r].status # "none"
    /\ \A x \in Transfer : transfer[x].status # "none" => transfer'[x].status # "none"

\* Replacing one session by a well-formed one keeps the sessions well-formed.
LEMMA SessionUpdate ==
    ASSUME SessionsOK, NEW t \in Txn, NEW x \in Request,
           x.pc # "idle" => RequestWellFormed(x) /\ TargetsExist(x),
           txn' = [txn EXCEPT ![t] = x], StatusesSurvive
    PROVE  SessionsOK'
BY DEF SessionsOK, TargetsExist, StatusesSurvive

\* Moving on to the next unit of work does.
LEMMA AdvanceOK ==
    ASSUME SessionsOK, NEW t \in Txn, txn[t].pc # "idle", Advance(t),
           StatusesSurvive
    PROVE  SessionsOK'
<1> DEFINE rest == txn[t].todo \ {txn[t].cur}
<1>1. /\ txn \in [Txn -> Request] /\ txn[t] \in Request /\ RequestWellFormed(txn[t])
      /\ TargetsExist(txn[t])
  BY DEF SessionsOK
<1>2. rest \subseteq txn[t].items
  BY <1>1 DEF RequestWellFormed
<1>3. CASE rest = {}
  <2> DEFINE x == [txn[t] EXCEPT !.pc = "commit", !.todo = rest]
  <2>1. txn' = [txn EXCEPT ![t] = x]
    BY <1>3, <1>1 DEF Advance, Request
  <2>2. x \in Request
    BY <1>1, <1>2 DEF Request, RequestWellFormed, Stage
  <2>3. /\ x.pc = "commit" /\ x.todo = rest /\ x.op = txn[t].op /\ x.doc = txn[t].doc
        /\ x.dst = txn[t].dst /\ x.items = txn[t].items /\ x.cur = txn[t].cur
    BY <1>1 DEF Request
  <2> HIDE DEF x
  <2>4. RequestWellFormed(x) /\ TargetsExist(x)
    BY <1>1, <1>2, <2>3 DEF RequestWellFormed, TargetsExist
  <2>5. QED
    BY <2>1, <2>2, <2>4, SessionUpdate
<1>4. CASE rest # {}
  <2>1. PICK i \in rest :
          txn' = [txn EXCEPT ![t].pc = FirstStage(txn[t].op), ![t].todo = rest, ![t].cur = i]
    BY <1>4 DEF Advance
  <2> DEFINE x == [txn[t] EXCEPT !.pc = FirstStage(txn[t].op), !.todo = rest, !.cur = i]
  <2>2. txn' = [txn EXCEPT ![t] = x]
    BY <2>1, <1>1 DEF Request
  <2>3. FirstStage(txn[t].op) \in {"product", "balance"}
    BY DEF FirstStage
  <2>4. x \in Request
    BY <1>1, <1>2, <2>3 DEF Request, RequestWellFormed, Stage
  <2>5. /\ x.pc = FirstStage(txn[t].op) /\ x.todo = rest /\ x.op = txn[t].op /\ x.doc = txn[t].doc
        /\ x.dst = txn[t].dst /\ x.items = txn[t].items /\ x.cur = i
    BY <1>1 DEF Request
  <2> HIDE DEF x
  <2>6. RequestWellFormed(x) /\ TargetsExist(x)
    BY <1>1, <1>2, <2>3, <2>5 DEF RequestWellFormed, TargetsExist
  <2>7. QED
    BY <2>2, <2>4, <2>6, SessionUpdate
<1>5. QED
  BY <1>3, <1>4

\* So does changing only the stage, to one that is not the document lock.
LEMMA StageOK ==
    ASSUME SessionsOK, NEW t \in Txn, txn[t].pc # "idle",
           NEW stage \in {"product", "balance"}, txn' = [txn EXCEPT ![t].pc = stage],
           StatusesSurvive
    PROVE  SessionsOK'
<1>1. /\ txn \in [Txn -> Request] /\ txn[t] \in Request /\ RequestWellFormed(txn[t])
      /\ TargetsExist(txn[t])
  BY DEF SessionsOK
<1> DEFINE x == [txn[t] EXCEPT !.pc = stage]
<1>2. txn' = [txn EXCEPT ![t] = x]
  BY <1>1 DEF Request
<1>3. x \in Request /\ RequestWellFormed(x) /\ TargetsExist(x)
  BY <1>1 DEF Request, RequestWellFormed, TargetsExist, Stage
<1>4. QED
  BY <1>2, <1>3, SessionUpdate

\* So does ending a transaction; the locks and images keep their types.
LEMMA EndOK ==
    ASSUME TypeOK, SessionsOK, NEW t \in Txn, EndTransaction(t), StatusesSurvive
    PROVE  /\ SessionsOK'
           /\ productLock' \in [Product -> SUBSET Txn]
           /\ cellLock' \in [Cell -> SUBSET Txn]
           /\ docLock' \in [Doc -> SUBSET Txn]
           /\ image' \in [Txn -> [Cell -> BalanceRow]]
           /\ newCost' \in [Txn -> [Product -> Int]]
           /\ dirty' \in [Txn -> SUBSET Product]
<1>1. Idle \in Request
  BY DEF Idle, Request, Stage
<1>2. txn' = [txn EXCEPT ![t] = Idle] /\ Idle.pc = "idle"
  BY DEF EndTransaction, Idle
<1>3. SessionsOK'
  BY <1>1, <1>2, SessionUpdate
<1>4. EmptyRow \in BalanceRow
  BY DEF EmptyRow, BalanceRow
<1>5. EmptyImage \in [Cell -> BalanceRow]
  BY <1>4 DEF EmptyImage
<1>6. QED
  BY <1>3, <1>5 DEF TypeOK, EndTransaction, Unlocked, NoCosts
\* Every request a client can start is well-formed.
LEMMA StartOK ==
    ASSUME TypeOK, WellFormed, NEW t \in Txn, Start(t)
    PROVE  TypeOK' /\ WellFormed'
<1> USE ProductAssumption, QuantityAssumption, UnitCostAssumption, NoDocAssumption
<1>0. SessionsOK /\ DocumentsOK
  BY DEF TypeOK, WellFormed, SessionsOK, DocumentsOK
<1>u. UNCHANGED <<reservation, transfer>>
  BY DEF Start, Receipt, Issue, Adjust, Reserve, Release, CreateTransfer,
         TransitionTransfer, Document, ReleaseExpired, committed
<1>s. /\ {"document", "product", "balance"} \subseteq Stage
      /\ {"receipt", "issue", "adjust", "reserve", "create", "ship", "receive",
          "release", "sweep"} \cup CallerOps \subseteq Op
      /\ Quantity \subseteq Int /\ UnitCost \subseteq Int
      /\ Transfer \subseteq Doc /\ Reservation \subseteq Doc
  BY DEF Stage, Op, LockingOps, DocumentOps, ReleasingOps, Doc, CallerOps
<1>p. /\ {"reserve", "create", "release", "sweep"} \cap PostingOps = {}
      /\ ReleasingOps = {"release", "sweep"}
      /\ CallerOps \cap ({"reserve", "create", "ship", "receive"} \cup ReleasingOps) = {}
  BY DEF PostingOps, LockingOps, DocumentOps, ReleasingOps, CallerOps
<1>i. \A w \in Warehouse, p \in Product, q \in Int : OneItem(w, p, q) \in SUBSET Item
  BY DEF OneItem, Item
<1>q. \A w \in Warehouse, p \in Product, q \in Int : \A i \in OneItem(w, p, q) : i.q = q
  BY DEF OneItem
<1>g. \A r \in Reservation : reservation[r].status # "none" =>
         GivesBack(r) \in Item /\ GivesBack(r).q \in Nat /\ GivesBack(r).r = r
  BY <1>0 DEF GivesBack, Item, DocumentsOK, ReservationRow
<1>1. CASE Receipt(t)
  <2>1. PICK w \in Warehouse, p \in Product, q \in Quantity, u \in UnitCost,
             k \in Key \cup {NoKey} :
               Started(t, "receipt", k, u, NoDoc, NoDoc, OneItem(w, p, q), "product")
    BY <1>1 DEF Receipt
  <2>i. OneItem(w, p, q) \in SUBSET Item
    BY <1>i, <1>s
  <2>g. GoodInputs("receipt", k, u, NoDoc, NoDoc, OneItem(w, p, q), "product")
    BY <2>i, <1>s, <1>p DEF GoodInputs
  <2>2. SessionsOK'
    BY <2>1, <2>g, <1>0, <1>u, StartedOK
  <2>3. QED
    BY <2>2, <1>1 DEF Receipt, TypeOK, WellFormed, SessionsOK, TargetsExist, committed, locks
<1>2. CASE Issue(t)
  <2>1. PICK w \in Warehouse, p \in Product, q \in Quantity, k \in Key \cup {NoKey} :
               Started(t, "issue", k, 0, NoDoc, NoDoc, OneItem(w, p, -q), "product")
    BY <1>2 DEF Issue
  <2>i. OneItem(w, p, -q) \in SUBSET Item
    BY <1>i, <1>s
  <2>g. GoodInputs("issue", k, 0, NoDoc, NoDoc, OneItem(w, p, -q), "product")
    BY <2>i, <1>s, <1>p DEF GoodInputs
  <2>2. SessionsOK'
    BY <2>1, <2>g, <1>0, <1>u, StartedOK
  <2>3. QED
    BY <2>2, <1>2 DEF Issue, TypeOK, WellFormed, SessionsOK, TargetsExist, committed, locks
<1>3. CASE Adjust(t)
  <2>1. PICK w \in Warehouse, p \in Product, q \in Int, k \in Key \cup {NoKey} :
               Started(t, "adjust", k, 0, NoDoc, NoDoc, OneItem(w, p, q), "product")
    BY <1>3, <1>s DEF Adjust
  <2>i. OneItem(w, p, q) \in SUBSET Item
    BY <1>i
  <2>g. GoodInputs("adjust", k, 0, NoDoc, NoDoc, OneItem(w, p, q), "product")
    BY <2>i, <1>s, <1>p DEF GoodInputs
  <2>2. SessionsOK'
    BY <2>1, <2>g, <1>0, <1>u, StartedOK
  <2>3. QED
    BY <2>2, <1>3 DEF Adjust, TypeOK, WellFormed, SessionsOK, TargetsExist, committed, locks
<1>4. CASE Reserve(t)
  <2>1. PICK w \in Warehouse, p \in Product, q \in Quantity, r \in Reservation :
               Started(t, "reserve", NoKey, 0, r, NoDoc, OneItem(w, p, q), "product")
    BY <1>4 DEF Reserve
  <2>i. OneItem(w, p, q) \in SUBSET Item /\ \A i \in OneItem(w, p, q) : i.q \in Quantity
    BY <1>i, <1>q, <1>s
  <2>g. GoodInputs("reserve", NoKey, 0, r, NoDoc, OneItem(w, p, q), "product")
    BY <2>i, <1>s, <1>p DEF GoodInputs
  <2>2. SessionsOK'
    BY <2>1, <2>g, <1>0, <1>u, StartedOK
  <2>3. QED
    BY <2>2, <1>4 DEF Reserve, TypeOK, WellFormed, SessionsOK, TargetsExist, committed, locks
<1>5. CASE Release(t)
  <2>1. PICK r \in Reservation :
               /\ reservation[r].status # "none"
               /\ Started(t, "release", NoKey, 0, r, NoDoc, {GivesBack(r)}, "document")
    BY <1>5 DEF Release
  <2>g. GoodInputs("release", NoKey, 0, r, NoDoc, {GivesBack(r)}, "document")
    BY <2>1, <1>g, <1>s, <1>p DEF GoodInputs
  <2>2. SessionsOK'
    BY <2>1, <2>g, <1>0, <1>u, StartedOK
  <2>3. QED
    BY <2>2, <1>5 DEF Release, TypeOK, WellFormed, SessionsOK, TargetsExist, committed, locks
<1>l. ASSUME NEW w \in Warehouse, NEW P \in SUBSET Product, NEW q, \A p \in P : q[p] \in Int,
             DOMAIN q = P
      PROVE  Lines(w, q) \in SUBSET Item /\ \A i \in Lines(w, q) : \E p \in P : i.q = q[p]
  <2>1. ASSUME NEW i \in Lines(w, q)
        PROVE  i \in Item /\ \E p \in P : i.q = q[p]
    <3>1. PICK p \in P : i = [w |-> w, p |-> p, q |-> q[p], r |-> NoDoc]
      BY <1>l DEF Lines
    <3>2. QED
      BY <3>1, <1>l DEF Item
  <2>2. QED
    BY <2>1
<1>6. CASE CreateTransfer(t)
  <2>1. PICK src \in Warehouse, dst \in Warehouse, P \in SUBSET Product,
             x \in Transfer : \E q \in [P -> Quantity] :
               Started(t, "create", NoKey, 0, x, dst, Lines(src, q), "product")
    BY <1>6 DEF CreateTransfer
  <2>2. PICK q \in [P -> Quantity] :
               Started(t, "create", NoKey, 0, x, dst, Lines(src, q), "product")
    BY <2>1
  <2>3. DOMAIN q = P /\ (\A p \in P : q[p] \in Quantity /\ q[p] \in Int)
    BY <1>s
  <2>4. Lines(src, q) \in SUBSET Item /\ \A i \in Lines(src, q) : i.q \in Quantity
    BY <2>3, <1>l
  <2>g. GoodInputs("create", NoKey, 0, x, dst, Lines(src, q), "product")
    BY <2>4, <1>s, <1>p DEF GoodInputs
  <2>5. SessionsOK'
    BY <2>2, <2>g, <1>0, <1>u, StartedOK
  <2>6. QED
    BY <2>5, <1>6 DEF CreateTransfer, TypeOK, WellFormed, SessionsOK, TargetsExist, committed, locks
<1>7. ASSUME NEW op \in {"ship", "receive"}, TransitionTransfer(t, op)
      PROVE  TypeOK' /\ WellFormed'
  <2>1. PICK x \in Transfer, k \in Key \cup {NoKey} :
               /\ transfer[x].status # "none"
               /\ Started(t, op, k, 0, x, NoDoc, TransferItems(x, op), "document")
    BY <1>7 DEF TransitionTransfer
  <2>2. transfer[x].lines \subseteq Line /\ transfer[x].src \in Warehouse
        /\ transfer[x].dst \in Warehouse
    BY <2>1, <1>0 DEF DocumentsOK, TransferRow
  <2>3. TransferItems(x, op) \in SUBSET Item
    <3>1. ASSUME NEW i \in TransferItems(x, op)
          PROVE  i \in Item
      <4>1. PICK l \in Line :
              i = [w |-> IF op = "ship" THEN transfer[x].src ELSE transfer[x].dst,
                   p |-> l.p, q |-> IF op = "ship" THEN -l.q ELSE l.q, r |-> NoDoc]
        BY <2>2 DEF TransferItems
      <4>2. l.p \in Product /\ l.q \in Int
        BY <1>s DEF Line
      <4>3. QED
        BY <4>1, <4>2, <2>2 DEF Item
    <3>2. QED
      BY <3>1
  <2>g. GoodInputs(op, k, 0, x, NoDoc, TransferItems(x, op), "document")
    BY <2>1, <2>3, <1>s, <1>p DEF GoodInputs
  <2>4. SessionsOK'
    BY <2>1, <2>g, <1>0, <1>u, StartedOK
  <2>5. QED
    BY <2>4, <1>7 DEF TransitionTransfer, TypeOK, WellFormed, SessionsOK, TargetsExist, committed, locks
<1>8. ASSUME NEW op \in CallerOps, Document(t, op)
      PROVE  TypeOK' /\ WellFormed'
  <2>1. PICK w \in Warehouse, P \in SUBSET Product, q \in Quantity, u \in Int :
          Started(t, op, NoKey, u, NoDoc, NoDoc,
                  Lines(w, [p \in P |-> IF Sells(op) THEN -q ELSE q]), "product")
    <3>1. (IF op = "goods_receipt" THEN UnitCost ELSE {0}) \subseteq Int
      BY <1>s
    <3>2. QED
      BY <1>8, <3>1 DEF Document
  <2> DEFINE items == Lines(w, [p \in P |-> IF Sells(op) THEN -q ELSE q])
  <2>2. items \in SUBSET Item
    BY <1>l, <1>s
  <2>g. GoodInputs(op, NoKey, u, NoDoc, NoDoc, items, "product")
    BY <2>2, <1>s, <1>p DEF GoodInputs
  <2>3. SessionsOK'
    BY <2>1, <2>g, <1>0, <1>u, StartedOK
  <2>4. QED
    BY <2>3, <1>8 DEF Document, TypeOK, WellFormed, SessionsOK, TargetsExist, committed, locks
<1>9. CASE ReleaseExpired(t)
  <2>1. PICK S \in SUBSET Sweepable :
               /\ Started(t, "sweep", NoKey, 0, NoDoc, NoDoc, {GivesBack(r) : r \in S}, "balance")
               /\ docLock' = [d \in Doc |-> IF d \in S THEN {t} ELSE docLock[d]]
    BY <1>9 DEF ReleaseExpired
  <2>2. S \subseteq Reservation /\ \A r \in S : reservation[r].status # "none"
    BY DEF Sweepable
  <2>3. {GivesBack(r) : r \in S} \in SUBSET Item
        /\ \A i \in {GivesBack(r) : r \in S} :
             i.q \in Nat /\ i.r \in Reservation /\ reservation[i.r].status # "none"
    BY <2>2, <1>g
  <2>g. GoodInputs("sweep", NoKey, 0, NoDoc, NoDoc, {GivesBack(r) : r \in S}, "balance")
    BY <2>1, <2>3, <1>s, <1>p DEF GoodInputs
  <2>4. SessionsOK'
    BY <2>1, <2>g, <1>0, <1>u, StartedOK
  <2>5. docLock' \in [Doc -> SUBSET Txn]
    BY <2>1 DEF TypeOK
  <2>6. QED
    BY <2>4, <2>5, <1>9 DEF ReleaseExpired, TypeOK, WellFormed, SessionsOK, TargetsExist, committed
<1>10. QED
  BY <1>1, <1>2, <1>3, <1>4, <1>5, <1>6, <1>7, <1>8, <1>9 DEF Start

\* The three steps that lock a balance row leave every type as it was.
LEMMA WorkOK ==
    ASSUME TypeOK, WellFormed, NEW t \in Txn, txn[t].pc = "balance", Advance(t),
           NEW row \in BalanceRow,
           cellLock' = Locked(cellLock, CellOf(txn[t].cur), t),
           image' = [image EXCEPT ![t] = Work(t, row)],
           newCost' \in [Txn -> [Product -> Int]], dirty' \in [Txn -> SUBSET Product],
           UNCHANGED <<committed, productLock, docLock>>
    PROVE  TypeOK' /\ WellFormed'
<1>0. SessionsOK
  BY DEF TypeOK, WellFormed, SessionsOK
<1>1. SessionsOK'
  BY <1>0, AdvanceOK DEF committed, StatusesSurvive
<1>2. cellLock' \in [Cell -> SUBSET Txn]
  BY DEF TypeOK, Locked
<1>3. Work(t, row) \in [Cell -> BalanceRow]
  BY DEF TypeOK, Work
<1>4. image' \in [Txn -> [Cell -> BalanceRow]]
  BY <1>3 DEF TypeOK
<1>5. QED
  BY <1>1, <1>2, <1>4 DEF TypeOK, WellFormed, SessionsOK, TargetsExist, committed

\* What a session standing before a balance row knows of its current item, and
\* of the row it is about to see.
LEMMA CurrentItem ==
    ASSUME TypeOK, WellFormed, NEW t \in Txn, txn[t].pc # "idle"
    PROVE  /\ txn[t] \in Request
           /\ RequestWellFormed(txn[t])
           /\ txn[t].cur \in Item
           /\ txn[t].cur.q \in Int
           /\ txn[t].cur.p \in Product
           /\ CellOf(txn[t].cur) \in Cell
           /\ RowSeen(t, CellOf(txn[t].cur)) \in BalanceRow
<1>1. txn[t] \in Request /\ RequestWellFormed(txn[t])
  BY DEF TypeOK, WellFormed
<1>2. txn[t].cur \in Item
  BY <1>1 DEF Request, RequestWellFormed
<1>3. CellOf(txn[t].cur) \in Cell /\ txn[t].cur.q \in Int /\ txn[t].cur.p \in Product
  BY <1>2 DEF Item, CellOf, Cell
<1>4. RowSeen(t, CellOf(txn[t].cur)) \in BalanceRow
  BY <1>3 DEF TypeOK, RowSeen
<1>5. QED
  BY <1>1, <1>2, <1>3, <1>4

\* The movement _post_movement builds is a movement, and carries the new balance.
LEMMA NewMovementOK ==
    ASSUME TypeOK, WellFormed, NEW t \in Txn, txn[t].pc # "idle",
           txn[t].op \in PostingOps, NEW onHand \in Int
    PROVE  /\ NewMovement(t, onHand) \in Movement
           /\ NewMovement(t, onHand).q = txn[t].cur.q
           /\ NewMovement(t, onHand).after = onHand + txn[t].cur.q
<1>1. /\ txn[t] \in Request /\ RequestWellFormed(txn[t])
      /\ txn[t].cur.q \in Int /\ txn[t].cur.p \in Product
  BY CurrentItem
<1>2. newCost[t][txn[t].cur.p] \in Int
  BY <1>1 DEF TypeOK
<1>3. UnitOf(t, newCost[t][txn[t].cur.p]) \in Int
  BY <1>1, <1>2 DEF UnitOf, Request
<1>4. MovementType(txn[t].op) \in {MovementType(op) : op \in PostingOps}
  OBVIOUS
<1>5. txn[t].key \in Key \cup {NoKey} /\ txn[t].doc \in Transfer \cup {NoDoc}
  BY <1>1 DEF Request, RequestWellFormed
<1>6. QED
  BY <1>1, <1>3, <1>4, <1>5 DEF NewMovement, Movement

\* The image PostMovement leaves of the balance row it locked.
PostedRow(t) ==
    LET row == RowSeen(t, CellOf(txn[t].cur))
    IN  [onHand |-> row.onHand + txn[t].cur.q, reserved |-> row.reserved,
         ledger |-> Append(row.ledger, NewMovement(t, row.onHand))]

\* Posting a movement, reserving and releasing keep the types.
LEMMA BalanceStepOK ==
    ASSUME TypeOK, WellFormed, NEW t \in Txn,
           PostMovement(t) \/ ReserveStock(t) \/ ReleaseStock(t)
    PROVE  TypeOK' /\ WellFormed'
<1> DEFINE i == txn[t].cur
           c == CellOf(i)
           row == RowSeen(t, c)
<1>1. txn[t].pc = "balance"
  BY DEF PostMovement, ReserveStock, ReleaseStock, MayLockBalance
<1>2. /\ i.q \in Int /\ i.p \in Product /\ row \in BalanceRow
      /\ row.onHand \in Int /\ row.reserved \in Int /\ row.ledger \in Seq(Movement)
  BY <1>1, CurrentItem DEF BalanceRow
<1>3. CASE PostMovement(t)
  <2>1. NewMovement(t, row.onHand) \in Movement
    BY <1>1, <1>2, <1>3, NewMovementOK DEF PostMovement
  <2>2. PostedRow(t) \in BalanceRow
    BY <1>2, <2>1 DEF PostedRow, BalanceRow
  <2>3. newCost[t][i.p] \in Int /\ txn[t].unit \in Int
    BY <1>2, <1>1, CurrentItem DEF TypeOK, Request
  <2>4. AverageCost(row.onHand, newCost[t][i.p], i.q, txn[t].unit) \in Int
    BY <1>2, <2>3, AverageCostType
  <2>5. newCost' \in [Txn -> [Product -> Int]] /\ dirty' \in [Txn -> SUBSET Product]
    <3>1. CASE MovementType(txn[t].op) = "RECEIPT"
      <4> DEFINE avg == AverageCost(row.onHand, newCost[t][i.p], i.q, txn[t].unit)
      <4> HIDE DEF avg
      <4>1. newCost' = [newCost EXCEPT ![t][i.p] = avg]
        BY <3>1, <1>3 DEF PostMovement, avg
      <4>2. dirty' = dirty \/ dirty' = [dirty EXCEPT ![t] = @ \cup {i.p}]
        BY <3>1, <1>3 DEF PostMovement, avg
      <4>3. avg \in Int
        BY <2>4 DEF avg
      <4>4. newCost \in [Txn -> [Product -> Int]] /\ dirty \in [Txn -> SUBSET Product]
        BY DEF TypeOK
      <4>5. i.p \in Product
        BY <1>2
      <4> HIDE DEF i
      <4>6. newCost' \in [Txn -> [Product -> Int]]
        BY <4>1, <4>3, <4>4, <4>5
      <4>7. dirty' \in [Txn -> SUBSET Product]
        BY <4>2, <4>4, <4>5
      <4>8. QED
        BY <4>6, <4>7
    <3>2. CASE MovementType(txn[t].op) # "RECEIPT"
      BY <3>2, <1>3 DEF PostMovement, TypeOK
    <3>3. QED
      BY <3>1, <3>2
  <2>6. /\ cellLock' = Locked(cellLock, CellOf(txn[t].cur), t)
        /\ image' = [image EXCEPT ![t] = Work(t, PostedRow(t))]
        /\ Advance(t)
        /\ UNCHANGED <<committed, productLock, docLock>>
    BY <1>3 DEF PostMovement, PostedRow
  <2>7. QED
    BY <1>1, <2>2, <2>5, <2>6, WorkOK
<1>4. CASE ReserveStock(t)
  <2>1. [row EXCEPT !.reserved = @ + i.q] \in BalanceRow
    BY <1>2 DEF BalanceRow
  <2>2. QED
    BY <1>1, <1>4, <2>1, WorkOK DEF ReserveStock, TypeOK
<1>5. CASE ReleaseStock(t)
  <2>1. [row EXCEPT !.reserved = @ - i.q] \in BalanceRow
    BY <1>2 DEF BalanceRow
  <2>2. QED
    BY <1>1, <1>5, <2>1, WorkOK DEF ReleaseStock, TypeOK
<1>6. QED
  BY <1>3, <1>4, <1>5

\* A commit keeps the types of the rows it writes.
LEMMA CommitOK ==
    ASSUME TypeOK, WellFormed, NEW t \in Txn, Commit(t)
    PROVE  TypeOK' /\ WellFormed'
<1> USE QuantityAssumption, ProductAssumption
<1>0. SessionsOK
  BY DEF TypeOK, WellFormed, SessionsOK
<1>1. txn[t].pc = "commit" /\ EndTransaction(t)
  BY DEF Commit, MayFlush
<1>2. /\ txn[t] \in Request /\ RequestWellFormed(txn[t]) /\ txn[t].cur \in Item
      /\ txn[t].items \subseteq Item /\ txn[t].cur \in txn[t].items
  BY <1>1, CurrentItem DEF Request, RequestWellFormed
<1>3. cell' \in [Cell -> BalanceRow] /\ cost' \in [Product -> Int]
  BY DEF Commit, TypeOK
<1>4. /\ reservation' \in [Reservation -> ReservationRow]
      /\ \A r \in Reservation : reservation'[r].status # "none" =>
           reservation'[r].w \in Warehouse /\ reservation'[r].p \in Product
  <2> DEFINE i == txn[t].cur
             back == IF txn[t].op \in ReleasingOps THEN {j.r : j \in txn[t].items} ELSE {}
  <2>1. reservation' = [r \in Reservation |->
            IF txn[t].op = "reserve" /\ r = txn[t].doc
            THEN [status |-> "ACTIVE", w |-> i.w, p |-> i.p, q |-> i.q]
            ELSE IF r \in back THEN [reservation[r] EXCEPT !.status = "RELEASED"]
            ELSE reservation[r]]
    BY DEF Commit, CommitReservations
  <2> HIDE DEF back
  <2>2. ASSUME NEW r \in Reservation
        PROVE  /\ reservation'[r] \in ReservationRow
               /\ reservation'[r].status # "none" =>
                    reservation'[r].w \in Warehouse /\ reservation'[r].p \in Product
    <3>1. CASE txn[t].op = "reserve" /\ r = txn[t].doc
      <4>1. i.q \in Nat /\ i.p \in Product /\ i.p \in Nat /\ i.w \in Warehouse
        BY <3>1, <1>2 DEF RequestWellFormed, Item
      <4>2. reservation'[r] = [status |-> "ACTIVE", w |-> i.w, p |-> i.p, q |-> i.q]
        BY <3>1, <2>1
      <4>3. QED
        BY <4>1, <4>2 DEF ReservationRow, Status
    <3>2. CASE ~(txn[t].op = "reserve" /\ r = txn[t].doc) /\ r \in back
      <4>1. reservation'[r] = [reservation[r] EXCEPT !.status = "RELEASED"]
        BY <3>2, <2>1
      <4>2. reservation[r] \in ReservationRow
        BY DEF TypeOK
      <4>3. reservation[r].status # "none"
        <5>1. txn[t].op \in ReleasingOps /\ r \in {j.r : j \in txn[t].items}
          BY <3>2 DEF back
        <5>2. TargetsExist(txn[t])
          BY <1>1 DEF WellFormed
        <5>3. QED
          BY <5>1, <5>2 DEF TargetsExist
      <4>4. QED
        BY <4>1, <4>2, <4>3 DEF ReservationRow, Status, WellFormed
    <3>3. CASE ~(txn[t].op = "reserve" /\ r = txn[t].doc) /\ r \notin back
      BY <3>3, <2>1 DEF TypeOK, WellFormed
    <3>4. QED
      BY <3>1, <3>2, <3>3
  <2>3. QED
    BY <2>1, <2>2
<1>5. /\ transfer' \in [Transfer -> TransferRow]
      /\ \A x \in Transfer : transfer'[x].status # "none" =>
           transfer'[x].src \in Warehouse /\ transfer'[x].dst \in Warehouse
  <2> DEFINE lines == {[p |-> i.p, q |-> i.q] : i \in txn[t].items}
             op == txn[t].op
  <2>1. transfer' = [x \in Transfer |->
           IF x # txn[t].doc THEN transfer[x]
           ELSE CASE op = "create" ->
                       [status |-> "DRAFT", src |-> txn[t].cur.w, dst |-> txn[t].dst,
                        lines |-> lines]
                  [] op = "ship" -> [transfer[x] EXCEPT !.status = "IN_TRANSIT"]
                  [] op = "receive" -> [transfer[x] EXCEPT !.status = "COMPLETED"]
                  [] OTHER -> transfer[x]]
    BY DEF Commit, CommitTransfers
  <2>2. op = "create" => lines \subseteq Line
    <3>1. SUFFICES ASSUME op = "create", NEW l \in lines PROVE l \in Line
      OBVIOUS
    <3>2. PICK i \in txn[t].items : l = [p |-> i.p, q |-> i.q]
      BY <3>1
    <3>3. i.p \in Product /\ i.q \in Quantity
      BY <3>1, <1>2 DEF RequestWellFormed, Item
    <3>4. QED
      BY <3>2, <3>3 DEF Line
  <2> HIDE DEF lines
  <2>3. ASSUME NEW x \in Transfer
        PROVE  /\ transfer'[x] \in TransferRow
               /\ transfer'[x].status # "none" =>
                    transfer'[x].src \in Warehouse /\ transfer'[x].dst \in Warehouse
    <3>0. transfer[x] \in TransferRow
      BY DEF TypeOK
    <3>1. CASE x = txn[t].doc /\ op = "create"
      <4>1. txn[t].cur.w \in Warehouse /\ txn[t].dst \in Warehouse
        BY <3>1, <1>2 DEF RequestWellFormed, Item
      <4>2. transfer'[x] = [status |-> "DRAFT", src |-> txn[t].cur.w, dst |-> txn[t].dst,
                            lines |-> lines]
        BY <3>1, <2>1
      <4>3. QED
        BY <4>1, <4>2, <3>1, <2>2 DEF TransferRow
    <3>2. CASE x = txn[t].doc /\ op \in {"ship", "receive"}
      <4>1. transfer[x].status # "none"
        BY <3>2, <1>1 DEF WellFormed, TargetsExist
      <4>2. \/ transfer'[x] = [transfer[x] EXCEPT !.status = "IN_TRANSIT"]
            \/ transfer'[x] = [transfer[x] EXCEPT !.status = "COMPLETED"]
        BY <3>2, <2>1
      <4>3. QED
        BY <4>1, <4>2, <3>0 DEF TransferRow, WellFormed
    <3>3. CASE x # txn[t].doc \/ op \notin {"create", "ship", "receive"}
      <4>1. transfer'[x] = transfer[x]
        BY <3>3, <2>1
      <4>2. QED
        BY <4>1, <3>0 DEF WellFormed
    <3>4. QED
      BY <3>1, <3>2, <3>3
  <2>4. QED
    BY <2>1, <2>3
<1>6. StatusesSurvive
  <2>1. ASSUME NEW r \in Reservation, reservation[r].status # "none"
        PROVE  reservation'[r].status # "none"
    <3>1. reservation[r] \in ReservationRow
      BY DEF TypeOK
    <3>2. \/ reservation'[r] = reservation[r]
          \/ reservation'[r] = [reservation[r] EXCEPT !.status = "RELEASED"]
          \/ reservation'[r].status = "ACTIVE"
      BY DEF Commit, CommitReservations
    <3>3. QED
      BY <3>1, <3>2, <2>1 DEF ReservationRow
  <2>2. ASSUME NEW x \in Transfer, transfer[x].status # "none"
        PROVE  transfer'[x].status # "none"
    <3>1. transfer[x] \in TransferRow
      BY DEF TypeOK
    <3>2. \/ transfer'[x] = transfer[x]
          \/ transfer'[x] = [transfer[x] EXCEPT !.status = "IN_TRANSIT"]
          \/ transfer'[x] = [transfer[x] EXCEPT !.status = "COMPLETED"]
          \/ transfer'[x].status = "DRAFT"
      BY DEF Commit, CommitTransfers
    <3>3. QED
      BY <3>1, <3>2, <2>2 DEF TransferRow
  <2>3. QED
    BY <2>1, <2>2 DEF StatusesSurvive
<1>7. QED
  BY <1>0, <1>1, <1>3, <1>4, <1>5, <1>6, EndOK DEF Commit, TypeOK, WellFormed, SessionsOK

\* Locking a document or a product, or reading one without a lock, keeps the types.
LEMMA LockStepOK ==
    ASSUME TypeOK, WellFormed, NEW t \in Txn,
           LockDocument(t) \/ LockProduct(t) \/ LoadProduct(t)
    PROVE  TypeOK' /\ WellFormed'
<1>0. SessionsOK
  BY DEF TypeOK, WellFormed, SessionsOK
<1>1. txn[t].pc \in {"document", "product"}
  BY DEF LockDocument, MayLockDocument, LockProduct, MayLockProduct, LoadProduct
<1>2. txn[t] \in Request /\ RequestWellFormed(txn[t]) /\ txn[t].cur.p \in Product
  BY <1>1, CurrentItem
<1>3. UNCHANGED committed
  BY DEF LockDocument, LockProduct, LoadProduct
<1>4. StatusesSurvive
  BY <1>3 DEF committed, StatusesSurvive
<1>5. SessionsOK'
  <2>1. CASE LockDocument(t)
    <3>1. FirstStage(txn[t].op) \in {"product", "balance"}
      BY DEF FirstStage
    <3>2. QED
      BY <2>1, <3>1, <1>0, <1>1, <1>4, StageOK DEF LockDocument
  <2>2. CASE Advance(t)
    BY <2>2, <1>0, <1>1, <1>4, AdvanceOK
  <2>3. CASE txn' = [txn EXCEPT ![t].pc = "balance"]
    BY <2>3, <1>0, <1>1, <1>4, StageOK
  <2>4. QED
    BY <2>1, <2>2, <2>3 DEF LockProduct, LoadProduct
<1>6. docLock' \in [Doc -> SUBSET Txn] /\ productLock' \in [Product -> SUBSET Txn]
  <2>1. ASSUME NEW S, NEW lock \in [S -> SUBSET Txn], NEW row
        PROVE  Locked(lock, row, t) \in [S -> SUBSET Txn]
    BY DEF Locked
  <2>2. docLock' = docLock \/ docLock' = Locked(docLock, txn[t].doc, t)
    BY DEF LockDocument, LockProduct, LoadProduct, locks
  <2>3. productLock' = productLock \/ productLock' = Locked(productLock, txn[t].cur.p, t)
    BY DEF LockDocument, LockProduct, LoadProduct, locks
  <2>4. QED
    BY <2>1, <2>2, <2>3 DEF TypeOK
<1>7. newCost' \in [Txn -> [Product -> Int]]
  BY <1>2 DEF TypeOK, LockDocument, LockProduct, LoadProduct, ReadProduct
<1>8. UNCHANGED <<cellLock, image, dirty>>
  BY DEF LockDocument, LockProduct, LoadProduct, locks
<1>9. QED
  BY <1>3, <1>5, <1>6, <1>7, <1>8 DEF TypeOK, WellFormed, SessionsOK, TargetsExist, committed

\* So does a rollback, whatever its cause.
LEMMA RollbackOK ==
    ASSUME TypeOK, WellFormed, NEW t \in Txn, EndTransaction(t), UNCHANGED committed
    PROVE  TypeOK' /\ WellFormed'
<1>1. SessionsOK /\ StatusesSurvive
  BY DEF TypeOK, WellFormed, SessionsOK, StatusesSurvive, committed
<1>2. QED
  BY <1>1, EndOK DEF TypeOK, WellFormed, SessionsOK, committed

\* So do the clock and the catalogue, which leave the sessions alone.
LEMMA OutsideOK ==
    ASSUME TypeOK, WellFormed,
           \/ \E r \in Reservation : Expire(r)
           \/ \E p \in Product : UpdateProduct(p) \/ DeactivateProduct(p)
    PROVE  TypeOK' /\ WellFormed'
BY DEF TypeOK, WellFormed, Expire, UpdateProduct, DeactivateProduct, locks, session, TargetsExist

\* Every variable keeps its type, and every request and document stays well-formed.
LEMMA NextOK ==
    ASSUME TypeOK, WellFormed, [Next]_vars
    PROVE  TypeOK' /\ WellFormed'
<1>1. ASSUME NEW t \in Txn, Start(t) \/ Step(t) \/ Crash(t)
      PROVE  TypeOK' /\ WellFormed'
  <2>1. CASE Start(t)
    BY <2>1, StartOK
  <2>2. CASE LockDocument(t) \/ LockProduct(t) \/ LoadProduct(t)
    BY <2>2, LockStepOK
  <2>3. CASE PostMovement(t) \/ ReserveStock(t) \/ ReleaseStock(t)
    BY <2>3, BalanceStepOK
  <2>4. CASE Commit(t)
    BY <2>4, CommitOK
  <2>5. CASE Reject(t) \/ DeadlockVictim(t) \/ Crash(t)
    BY <2>5, RollbackOK DEF Reject, DeadlockVictim, Crash
  <2>6. QED
    BY <1>1, <2>1, <2>2, <2>3, <2>4, <2>5 DEF Step
<1>2. CASE UNCHANGED vars
  BY <1>2 DEF TypeOK, WellFormed, vars, committed, locks, session, TargetsExist
<1>3. QED
  BY <1>1, <1>2, OutsideOK DEF Next

\* The empty database with idle sessions is well-typed.
LEMMA InitOK == Init => TypeOK /\ WellFormed
<1> SUFFICES ASSUME Init PROVE TypeOK /\ WellFormed
  OBVIOUS
<1> USE DEF Init
<1>1. EmptyRow \in BalanceRow
  BY DEF EmptyRow, BalanceRow
<1>2. cell \in [Cell -> BalanceRow] /\ image \in [Txn -> [Cell -> BalanceRow]]
  BY <1>1 DEF EmptyImage
<1>3. Idle \in Request /\ Idle.pc = "idle"
  BY DEF Idle, Request, Stage
<1>4. NoReservation \in ReservationRow /\ NoReservation.status = "none"
  BY DEF NoReservation, ReservationRow, Status
<1>5. NoTransfer \in TransferRow /\ NoTransfer.status = "none"
  BY DEF NoTransfer, TransferRow
<1>6. TypeOK
  BY <1>2, <1>3, <1>4, <1>5 DEF TypeOK, NoCosts
<1>7. WellFormed
  BY <1>3, <1>4, <1>5 DEF WellFormed
<1>8. QED
  BY <1>6, <1>7

\* Every reachable state is well-typed, whatever the sessions, the expiry sweep
\* and the catalogue interleave.
THEOREM TypeCorrect == Spec => [](TypeOK /\ WellFormed)
BY InitOK, NextOK, PTL DEF Spec

-----------------------------------------------------------------------------
(* The ledger.  LedgerChain and NoOversell speak of committed rows only, and *)
(* a commit copies a session's image over them; so the invariant must also   *)
(* say that the image a session holds is sound and nobody else holds it.     *)

StockInv == TypeOK /\ WellFormed /\ LedgerChain /\ NoOversell /\ HeldRowsAreCurrent

\* A row seen under its lock is sound, whether it was loaded just now or before.
LEMMA RowSeenSound ==
    ASSUME StockInv, NEW t \in Txn, NEW c \in Cell
    PROVE  ImageSound(RowSeen(t, c), cell[c])
<1>1. CASE t \in cellLock[c]
  BY <1>1 DEF StockInv, HeldRowsAreCurrent, RowSeen
<1>2. CASE t \notin cellLock[c]
  <2>1. cell[c] \in BalanceRow
    BY DEF StockInv, TypeOK
  <2>2. Extends(cell[c].ledger, cell[c].ledger)
    BY <2>1 DEF BalanceRow, Extends
  <2>3. QED
    BY <1>2, <2>2 DEF StockInv, LedgerChain, NoOversell, RowSeen, ImageSound
<1>3. QED
  BY <1>1, <1>2

\* What PostMovement, ReserveStock and ReleaseStock leave in the image is sound.
LEMMA WorkedRowSound ==
    ASSUME StockInv, NEW t \in Txn,
           PostMovement(t) \/ ReserveStock(t) \/ ReleaseStock(t)
    PROVE  LET c == CellOf(txn[t].cur)
           IN  \E new : ImageSound(new, cell[c]) /\ image' = [image EXCEPT ![t] = Work(t, new)]
<1> DEFINE i == txn[t].cur
           c == CellOf(i)
           row == RowSeen(t, c)
<1>0. TypeOK /\ WellFormed /\ txn[t].pc = "balance"
  BY DEF StockInv, PostMovement, ReserveStock, ReleaseStock, MayLockBalance
<1>1. /\ i.q \in Int /\ c \in Cell /\ row \in BalanceRow
      /\ row.onHand \in Int /\ row.reserved \in Int /\ row.ledger \in Seq(Movement)
  BY <1>0, CurrentItem DEF BalanceRow
<1>2. ImageSound(row, cell[c])
  BY <1>1, RowSeenSound
<1>3. CASE PostMovement(t)
  <2> DEFINE mv == NewMovement(t, row.onHand)
             new == [onHand |-> row.onHand + mv.q, reserved |-> row.reserved,
                     ledger |-> Append(row.ledger, mv)]
  <2>1. mv \in Movement /\ mv.q = i.q /\ mv.after = row.onHand + mv.q
    BY <1>0, <1>1, <1>3, NewMovementOK DEF PostMovement
  <2>2. image' = [image EXCEPT ![t] = Work(t, new)]
    BY <1>3, <2>1 DEF PostMovement
  <2>3. AllowNegative \/ row.reserved <= row.onHand + i.q
    <3>1. CASE i.q < 0
      BY <3>1, <1>3, <1>1 DEF PostMovement, Enough, Available
    <3>2. CASE i.q >= 0
      BY <3>2, <1>1, <1>2 DEF ImageSound
    <3>3. QED
      BY <3>1, <3>2, <1>1
  <2>4. Chained(row)
    BY <1>2 DEF ImageSound
  <2> HIDE DEF mv, row, i, c
  <2>5. Chained(new) /\ Extends(new.ledger, row.ledger)
    BY <1>1, <2>1, <2>4, AppendKeepsChain
  <2>6. Extends(new.ledger, cell[c].ledger)
    <3>1. cell[c].ledger \in Seq(Movement) /\ new.ledger \in Seq(Movement)
      BY <1>0, <1>1, <2>1 DEF TypeOK, BalanceRow
    <3>2. Extends(row.ledger, cell[c].ledger)
      BY <1>2 DEF ImageSound
    <3>3. QED
      BY <3>1, <3>2, <2>5, <1>1 DEF Extends
  <2>7. ImageSound(new, cell[c])
    BY <2>1, <2>3, <2>5, <2>6 DEF ImageSound
  <2>8. QED
    BY <2>2, <2>7 DEF c, i
<1>4. CASE ReserveStock(t)
  <2> DEFINE new == [row EXCEPT !.reserved = @ + i.q]
  <2>1. new.onHand = row.onHand /\ new.ledger = row.ledger /\ new.reserved = row.reserved + i.q
    BY <1>1 DEF BalanceRow
  <2>2. AllowNegative \/ row.reserved + i.q <= row.onHand
    BY <1>4, <1>1 DEF ReserveStock, Enough, Available
  <2>3. image' = [image EXCEPT ![t] = Work(t, new)]
    BY <1>4 DEF ReserveStock
  <2> HIDE DEF new
  <2>4. ImageSound(new, cell[c])
    BY <1>2, <2>1, <2>2 DEF ImageSound, Chained
  <2>5. QED
    BY <2>3, <2>4
<1>5. CASE ReleaseStock(t)
  <2> DEFINE new == [row EXCEPT !.reserved = @ - i.q]
  <2>1. new.onHand = row.onHand /\ new.ledger = row.ledger /\ new.reserved = row.reserved - i.q
    BY <1>1 DEF BalanceRow
  <2>2. i.q \in Nat
    BY <1>0, <1>5, CurrentItem DEF ReleaseStock, RequestWellFormed
  <2>3. image' = [image EXCEPT ![t] = Work(t, new)]
    BY <1>5 DEF ReleaseStock
  <2>4. AllowNegative \/ row.reserved - i.q <= row.onHand
    BY <1>1, <1>2, <2>2 DEF ImageSound
  <2> HIDE DEF new
  <2>5. ImageSound(new, cell[c])
    BY <1>2, <2>1, <2>4 DEF ImageSound, Chained
  <2>6. QED
    BY <2>3, <2>5
<1>6. QED
  BY <1>3, <1>4, <1>5

\* Once it has taken the lock nobody else holds, the session's image is current.
LEMMA HeldAfterWork ==
    ASSUME StockInv, NEW t \in Txn,
           PostMovement(t) \/ ReserveStock(t) \/ ReleaseStock(t)
    PROVE  HeldRowsAreCurrent'
<1> DEFINE c == CellOf(txn[t].cur)
<1>1. PICK new : ImageSound(new, cell[c]) /\ image' = [image EXCEPT ![t] = Work(t, new)]
  BY WorkedRowSound
<1>2. c \in Cell
  BY CurrentItem DEF StockInv, PostMovement, ReserveStock, ReleaseStock, MayLockBalance
<1>3. /\ cellLock[c] \subseteq {t} /\ cellLock' = [cellLock EXCEPT ![c] = @ \cup {t}]
      /\ cell' = cell
  BY DEF PostMovement, ReserveStock, ReleaseStock, MayLockBalance, Free, Locked, committed
<1>4. /\ cellLock \in [Cell -> SUBSET Txn] /\ image \in [Txn -> [Cell -> BalanceRow]]
      /\ HeldRowsAreCurrent
  BY DEF StockInv, TypeOK
<1>w. Work(t, new) = [d \in Cell |-> IF d = c THEN new ELSE image[t][d]]
  BY DEF Work
<1> HIDE DEF c
<1>5. ASSUME NEW d \in Cell, NEW u \in cellLock'[d]
      PROVE  cellLock'[d] = {u} /\ ImageSound(image'[u][d], cell'[d])
  <2>1. CASE d = c
    <3>1. cellLock'[d] = {t} /\ u = t
      BY <2>1, <1>3, <1>4, <1>5
    <3>2. image'[u][d] = new
      BY <2>1, <3>1, <1>1, <1>2, <1>4, <1>w
    <3>3. QED
      BY <2>1, <3>1, <3>2, <1>1, <1>3
  <2>2. CASE d # c
    <3>1. cellLock'[d] = cellLock[d]
      BY <2>2, <1>3, <1>4
    <3>2. u \in Txn
      BY <3>1, <1>4, <1>5
    <3>3. image'[u][d] = image[u][d]
      BY <2>2, <3>2, <1>1, <1>4, <1>w
    <3>4. QED
      BY <3>1, <3>3, <1>3, <1>4, <1>5 DEF HeldRowsAreCurrent
  <2>3. QED
    BY <2>1, <2>2
<1>6. QED
  BY <1>5 DEF HeldRowsAreCurrent

\* Ending a transaction disturbs nobody else's image: the rows it may have
\* written are the ones it alone held.
LEMMA HeldAfterEnd ==
    ASSUME StockInv, NEW t \in Txn, EndTransaction(t),
           \A c \in Cell : cell'[c] = cell[c] \/ t \in cellLock[c]
    PROVE  HeldRowsAreCurrent'
<1>1. ASSUME NEW c \in Cell, NEW u \in cellLock'[c]
      PROVE  cellLock'[c] = {u} /\ ImageSound(image'[u][c], cell'[c])
  <2>1. cellLock'[c] = cellLock[c] \ {t}
    BY DEF EndTransaction, Unlocked, StockInv, TypeOK
  <2>2. u \in cellLock[c] /\ u # t /\ u \in Txn
    BY <1>1, <2>1 DEF StockInv, TypeOK
  <2>3. cellLock[c] = {u} /\ ImageSound(image[u][c], cell[c])
    BY <2>2 DEF StockInv, HeldRowsAreCurrent
  <2>4. image'[u] = image[u]
    BY <2>2 DEF EndTransaction, StockInv, TypeOK
  <2>5. cell'[c] = cell[c]
    BY <2>2, <2>3
  <2>6. QED
    BY <2>1, <2>2, <2>3, <2>4, <2>5
<1>2. QED
  BY <1>1 DEF HeldRowsAreCurrent

\* A commit puts sound rows in place of the ones it held.
LEMMA CommitSound ==
    ASSUME StockInv, NEW t \in Txn, Commit(t)
    PROVE  /\ LedgerChain' /\ NoOversell'
           /\ \A c \in Cell : Extends(cell'[c].ledger, cell[c].ledger)
<1>1. ASSUME NEW c \in Cell
      PROVE  /\ Chained(cell'[c])
             /\ AllowNegative \/ (0 <= cell'[c].reserved /\ cell'[c].reserved <= cell'[c].onHand)
             /\ Extends(cell'[c].ledger, cell[c].ledger)
  <2>1. CASE t \in cellLock[c]
    <3>1. cell'[c] = image[t][c] /\ image[t][c].reserved >= 0
      BY <2>1 DEF Commit, ReservedNonNegative
    <3>2. ImageSound(image[t][c], cell[c])
      BY <2>1 DEF StockInv, HeldRowsAreCurrent
    <3>3. image[t][c].reserved \in Int /\ image[t][c].onHand \in Int
      BY DEF StockInv, TypeOK, BalanceRow
    <3>4. QED
      BY <3>1, <3>2, <3>3 DEF ImageSound
  <2>2. CASE t \notin cellLock[c]
    <3>1. cell'[c] = cell[c] /\ cell[c].ledger \in Seq(Movement)
      BY <2>2 DEF Commit, StockInv, TypeOK, BalanceRow
    <3>2. Extends(cell[c].ledger, cell[c].ledger)
      BY <3>1 DEF Extends
    <3>3. QED
      BY <3>1, <3>2 DEF StockInv, LedgerChain, NoOversell
  <2>3. QED
    BY <2>1, <2>2
<1>2. QED
  BY <1>1 DEF LedgerChain, NoOversell

\* Every step keeps the invariant, and extends every ledger.
LEMMA StockStep ==
    ASSUME StockInv, [Next]_vars
    PROVE  StockInv' /\ \A c \in Cell : Extends(cell'[c].ledger, cell[c].ledger)
<1>0. TypeOK' /\ WellFormed'
  BY NextOK DEF StockInv
<1>1. \A c \in Cell : Extends(cell[c].ledger, cell[c].ledger)
  BY DEF StockInv, TypeOK, BalanceRow, Extends
<1>2. CASE UNCHANGED <<cell, cellLock, image>>
  BY <1>0, <1>1, <1>2 DEF StockInv, LedgerChain, NoOversell, HeldRowsAreCurrent
<1>3. ASSUME NEW t \in Txn, PostMovement(t) \/ ReserveStock(t) \/ ReleaseStock(t)
      PROVE  StockInv' /\ \A c \in Cell : Extends(cell'[c].ledger, cell[c].ledger)
  <2>1. HeldRowsAreCurrent' /\ cell' = cell
    BY <1>3, HeldAfterWork DEF PostMovement, ReserveStock, ReleaseStock, committed
  <2>2. QED
    BY <2>1, <1>0, <1>1 DEF StockInv, LedgerChain, NoOversell
<1>4. ASSUME NEW t \in Txn, Commit(t)
      PROVE  StockInv' /\ \A c \in Cell : Extends(cell'[c].ledger, cell[c].ledger)
  <2>1. EndTransaction(t) /\ \A c \in Cell : cell'[c] = cell[c] \/ t \in cellLock[c]
    BY <1>4 DEF Commit
  <2>2. HeldRowsAreCurrent'
    BY <2>1, HeldAfterEnd
  <2>3. QED
    BY <2>2, <1>0, <1>4, CommitSound DEF StockInv
<1>5. ASSUME NEW t \in Txn, Reject(t) \/ DeadlockVictim(t) \/ Crash(t)
      PROVE  StockInv' /\ \A c \in Cell : Extends(cell'[c].ledger, cell[c].ledger)
  <2>1. EndTransaction(t) /\ cell' = cell
    BY <1>5 DEF Reject, DeadlockVictim, Crash, committed
  <2>2. HeldRowsAreCurrent'
    BY <2>1, HeldAfterEnd
  <2>3. QED
    BY <2>1, <2>2, <1>0, <1>1 DEF StockInv, LedgerChain, NoOversell
<1>6. ASSUME NEW t \in Txn, Start(t)
      PROVE  UNCHANGED <<cell, cellLock, image>>
  BY <1>6 DEF Start, Receipt, Issue, Adjust, Reserve, Release, CreateTransfer,
              TransitionTransfer, Document, ReleaseExpired, committed, locks
<1>7. ASSUME NEW t \in Txn, LockDocument(t) \/ LockProduct(t) \/ LoadProduct(t)
      PROVE  UNCHANGED <<cell, cellLock, image>>
  BY <1>7 DEF LockDocument, LockProduct, LoadProduct, committed, locks
<1>8. ASSUME \/ \E r \in Reservation : Expire(r)
             \/ \E p \in Product : UpdateProduct(p) \/ DeactivateProduct(p)
      PROVE  UNCHANGED <<cell, cellLock, image>>
  BY <1>8 DEF Expire, UpdateProduct, DeactivateProduct, locks, session
<1>9. UNCHANGED vars => UNCHANGED <<cell, cellLock, image>>
  BY DEF vars, committed, locks, session
<1>10. QED
  BY <1>2, <1>3, <1>4, <1>5, <1>6, <1>7, <1>8, <1>9 DEF Next, Step

\* The empty database satisfies the invariant.
LEMMA StockInit == Init => StockInv
<1> SUFFICES ASSUME Init PROVE StockInv
  OBVIOUS
<1>1. \A c \in Cell : cell[c] = EmptyRow /\ cellLock[c] = {}
  BY DEF Init
<1>2. Chained(EmptyRow) /\ EmptyRow.reserved = 0 /\ EmptyRow.onHand = 0
  BY DEF Chained, EmptyRow
<1>3. QED
  BY <1>1, <1>2, InitOK DEF StockInv, LedgerChain, NoOversell, HeldRowsAreCurrent

\* StockInv is an inductive invariant of the specification.
THEOREM StockInvariant == Spec => []StockInv
BY StockInit, StockStep, PTL DEF Spec

\* No interleaving reserves or sells more than is on hand.
THEOREM NeverOversold == Spec => []NoOversell
<1>1. StockInv => NoOversell
  BY DEF StockInv
<1>2. QED
  BY <1>1, StockInvariant, PTL

\* The image a session works on is never stale, and never shared.
THEOREM ImagesAreCurrent == Spec => []HeldRowsAreCurrent
<1>1. StockInv => HeldRowsAreCurrent
  BY DEF StockInv
<1>2. QED
  BY <1>1, StockInvariant, PTL

\* Committed movements are never changed, removed or reordered.
THEOREM LedgerNeverRewritten == Spec => LedgerAppendOnly
<1>1. StockInv /\ [Next]_vars => [\A c \in Cell : Extends(cell'[c].ledger, cell[c].ledger)]_vars
  BY StockStep
<1>2. QED
  BY <1>1, StockInvariant, PTL DEF Spec, LedgerAppendOnly

-----------------------------------------------------------------------------
(* Keys and transfers.  What a commit adds is what its session has posted    *)
(* since it started, so the invariant follows each session: what it holds of *)
(* a balance row is the committed ledger and at most one movement more, that *)
(* of a unit of work it has done.                                            *)

\* The ledger of c in the image of t is the committed one and the movement of i.
Posted(t, c, i) ==
    LET L == image[t][c].ledger
        n == Len(cell[c].ledger) + 1
    IN  /\ Len(L) = n
        /\ L[n].type = MovementType(txn[t].op)
        /\ L[n].key = txn[t].key
        /\ L[n].ref = txn[t].doc
        /\ L[n].q = i.q

\* The shape of the work of a request: one unit per product; one unit when it
\* stores the key as it is; no key for a document.
WorkShape(x) ==
    /\ IF x.pc = "commit" THEN x.todo = {} ELSE x.cur \in x.todo
    /\ x.op \in PostingOps \cup {"create"} => \A i, j \in x.items : i.p = j.p => i = j
    /\ x.op \in {"receipt", "issue", "adjust"} => \A i, j \in x.items : i = j
    /\ x.op \in CallerOps => x.key = NoKey
    /\ x.op = "create" => \A i, j \in x.items : i.w = j.w

HoldsItsWork(t) ==
    \A c \in Cell : t \in cellLock[c] =>
        /\ txn[t].pc # "idle"
        /\ txn[t].op \notin PostingOps => image[t][c].ledger = cell[c].ledger
        /\ txn[t].op \in PostingOps =>
             \E i \in txn[t].items \ txn[t].todo : CellOf(i) = c /\ Posted(t, c, i)

\* A session that ships or receives holds the transfer's row in the status it
\* found, works on the lines of the transfer, and has posted each line it is
\* done with; one that creates a transfer has its identifier for itself.
TransferWork(t) ==
    /\ txn[t].pc # "idle" /\ txn[t].op \in {"ship", "receive"} =>
         /\ txn[t].items = TransferItems(txn[t].doc, txn[t].op)
         /\ \A i \in txn[t].items \ txn[t].todo : t \in cellLock[CellOf(i)]
         /\ txn[t].pc # "document" =>
              /\ docLock[txn[t].doc] = {t}
              /\ transfer[txn[t].doc].status = ExpectedStatus(txn[t].op)
    /\ txn[t].pc # "idle" /\ txn[t].op = "create" =>
         /\ txn[t].doc \in Transfer
         /\ transfer[txn[t].doc].status = "none"
         /\ \A u \in Txn : u # t => txn[u].doc # txn[t].doc

LinesDistinct ==
    \A x \in Transfer : \A l, m \in transfer[x].lines : l.p = m.p => l = m

WorkInv ==
    /\ \A t \in Txn : txn[t].pc # "idle" => WorkShape(txn[t])
    /\ \A t \in Txn : HoldsItsWork(t)
    /\ \A t \in Txn : TransferWork(t)
    /\ LinesDistinct

\* A session keeps what it holds when another one takes a step that leaves its
\* request, its image, its locks and the documents it works on alone.
LEMMA OthersKeepWork ==
    ASSUME TypeOK, WellFormed, WorkInv, NEW t \in Txn, NEW u \in Txn, u # t,
           \A v \in Txn : v # t => txn'[v] = txn[v],
           image'[u] = image[u],
           \A c \in Cell : u \in cellLock'[c] <=> u \in cellLock[c],
           \A c \in Cell : u \in cellLock[c] => cell'[c] = cell[c],
           \A x \in Transfer : transfer[x].status # "none" =>
              /\ transfer'[x].src = transfer[x].src
              /\ transfer'[x].dst = transfer[x].dst
              /\ transfer'[x].lines = transfer[x].lines,
           \A x \in Transfer : docLock[x] = {u} /\ transfer[x].status # "none" =>
              docLock'[x] = {u} /\ transfer'[x].status = transfer[x].status,
           \A x \in Transfer : txn[u].pc # "idle" /\ txn[u].op = "create" /\ txn[u].doc = x =>
              transfer'[x].status = transfer[x].status /\ txn'[t].doc # x
    PROVE  (txn[u].pc # "idle" => WorkShape(txn'[u])) /\ HoldsItsWork(u)' /\ TransferWork(u)'
<1>1. txn'[u] = txn[u]
  OBVIOUS
<1>2. HoldsItsWork(u)'
  <2> SUFFICES ASSUME NEW c \in Cell, u \in cellLock'[c]
               PROVE  /\ txn'[u].pc # "idle"
                      /\ txn'[u].op \notin PostingOps => image'[u][c].ledger = cell'[c].ledger
                      /\ txn'[u].op \in PostingOps =>
                           \E i \in txn'[u].items \ txn'[u].todo :
                              CellOf(i) = c /\ Posted(u, c, i)'
    BY DEF HoldsItsWork
  <2>1. u \in cellLock[c] /\ cell'[c] = cell[c] /\ HoldsItsWork(u)
    BY DEF WorkInv
  <2>2. \A i : Posted(u, c, i) => Posted(u, c, i)'
    BY <1>1, <2>1 DEF Posted
  <2>3. QED
    BY <1>1, <2>1, <2>2 DEF HoldsItsWork
<1>3. TransferWork(u)'
  <2>0. TransferWork(u)
    BY DEF WorkInv
  <2>1. ASSUME txn[u].pc # "idle", txn[u].op \in {"ship", "receive"}
        PROVE  /\ txn[u].items = TransferItems(txn[u].doc, txn[u].op)'
               /\ \A i \in txn[u].items \ txn[u].todo : u \in cellLock'[CellOf(i)]
               /\ txn[u].pc # "document" =>
                    /\ docLock'[txn[u].doc] = {u}
                    /\ transfer'[txn[u].doc].status = ExpectedStatus(txn[u].op)
    <3>1. txn[u].doc \in Transfer /\ transfer[txn[u].doc].status # "none"
      BY <2>1 DEF WellFormed, TargetsExist
    <3>2. TransferItems(txn[u].doc, txn[u].op)' = TransferItems(txn[u].doc, txn[u].op)
      BY <1>1, <3>1 DEF TransferItems
    <3>3. ASSUME NEW i \in txn[u].items \ txn[u].todo
          PROVE  u \in cellLock'[CellOf(i)]
      <4>1. txn[u].items \subseteq Item
        BY DEF TypeOK, Request
      <4>2. CellOf(i) \in Cell
        BY <4>1 DEF Item, CellOf, Cell
      <4>3. QED
        BY <4>2, <2>0, <2>1 DEF TransferWork
    <3>4. QED
      BY <2>0, <2>1, <3>1, <3>2, <3>3 DEF TransferWork
  <2>2. ASSUME txn[u].pc # "idle", txn[u].op = "create"
        PROVE  /\ txn[u].doc \in Transfer
               /\ transfer'[txn[u].doc].status = "none"
               /\ \A v \in Txn : v # u => txn'[v].doc # txn[u].doc
    BY <2>0, <2>2 DEF TransferWork
  <2>3. QED
    BY <1>1, <2>1, <2>2 DEF TransferWork
<1>4. QED
  BY <1>1, <1>2, <1>3 DEF WorkInv

\* The request of a session after it has moved on to its next unit of work.
LEMMA AdvancedRequest ==
    ASSUME TypeOK, NEW t \in Txn, WorkShape(txn[t]), Advance(t)
    PROVE  \E y \in [pc : {"commit", "product", "balance"}, op : {txn[t].op}, key : {txn[t].key},
                     unit : {txn[t].unit}, doc : {txn[t].doc}, dst : {txn[t].dst},
                     items : {txn[t].items}, todo : {txn[t].todo \ {txn[t].cur}},
                     cur : Item \cup {NoDoc}] :
             txn' = [txn EXCEPT ![t] = y] /\ WorkShape(y)
<1> DEFINE rest == txn[t].todo \ {txn[t].cur}
           R == [pc : {"commit", "product", "balance"}, op : {txn[t].op}, key : {txn[t].key},
                 unit : {txn[t].unit}, doc : {txn[t].doc}, dst : {txn[t].dst},
                 items : {txn[t].items}, todo : {rest}, cur : Item \cup {NoDoc}]
<1>1. txn \in [Txn -> Request] /\ txn[t] \in Request
  BY DEF TypeOK
<1>2. CASE rest = {}
  <2> DEFINE y == [txn[t] EXCEPT !.pc = "commit", !.todo = rest]
  <2>1. txn' = [txn EXCEPT ![t] = y]
    BY <1>1, <1>2 DEF Advance, Request
  <2>2. y.todo = {} /\ y.pc = "commit" /\ y.op = txn[t].op /\ y.key = txn[t].key
        /\ y.items = txn[t].items
    BY <1>1, <1>2 DEF Request
  <2>4. y \in R /\ WorkShape(y)
    BY <1>1, <2>2 DEF Request, WorkShape
  <2>3. QED
    BY <2>1, <2>4
<1>3. CASE rest # {}
  <2>1. PICK i \in rest :
          txn' = [txn EXCEPT ![t].pc = FirstStage(txn[t].op), ![t].todo = rest, ![t].cur = i]
    BY <1>3 DEF Advance
  <2> DEFINE y == [txn[t] EXCEPT !.pc = FirstStage(txn[t].op), !.todo = rest, !.cur = i]
  <2>2. txn' = [txn EXCEPT ![t] = y]
    BY <2>1, <1>1 DEF Request
  <2>3. FirstStage(txn[t].op) \in {"product", "balance"}
    BY DEF FirstStage
  <2>4. i \in Item
    BY <1>1 DEF Request
  <2>5. y \in R /\ WorkShape(y)
    BY <1>1, <2>3, <2>4 DEF Request, WorkShape
  <2>6. QED
    BY <2>2, <2>5
<1>4. QED
  BY <1>2, <1>3

\* The inputs of Started that make a request with the shape WorkInv asks for.
GoodWork(op, key, doc, items, stage) ==
    /\ stage # "commit"
    /\ op \in PostingOps \cup {"create"} => \A i, j \in items : i.p = j.p => i = j
    /\ op \in {"receipt", "issue", "adjust"} => \A i, j \in items : i = j
    /\ op \in CallerOps => key = NoKey
    /\ op = "create" => /\ \A i, j \in items : i.w = j.w
                        /\ doc \in Transfer /\ transfer[doc].status = "none"
    /\ op \in {"ship", "receive"} => stage = "document" /\ items = TransferItems(doc, op)
    /\ doc \in Transfer => transfer[doc].status = "none" <=> op = "create"
    /\ op = "create" => Fresh(doc)

\* Such a request starts with nothing done and nothing held.
LEMMA StartedWork ==
    ASSUME TypeOK, WellFormed, WorkInv, NEW t \in Txn, NEW op, NEW key, NEW unit, NEW doc,
           NEW dst, NEW items, NEW stage, GoodWork(op, key, doc, items, stage),
           Started(t, op, key, unit, doc, dst, items, stage),
           UNCHANGED <<cell, transfer, cellLock, image>>,
           \A x \in Transfer : docLock'[x] = docLock[x]
    PROVE  WorkInv'
<1>1. PICK i \in items :
        txn' = [txn EXCEPT ![t] =
                  [pc |-> stage, op |-> op, key |-> key, unit |-> unit, doc |-> doc,
                   dst |-> dst, items |-> items, todo |-> items, cur |-> i]]
  BY DEF Started
<1> DEFINE y == [pc |-> stage, op |-> op, key |-> key, unit |-> unit, doc |-> doc,
                 dst |-> dst, items |-> items, todo |-> items, cur |-> i]
<1>2. WorkShape(y)
  BY DEF GoodWork, WorkShape
<1>3. /\ y.pc = stage /\ y.op = op /\ y.doc = doc /\ y.items = items /\ y.todo = items
      /\ txn' = [txn EXCEPT ![t] = y]
  BY <1>1
<1> HIDE DEF y
<1>4. txn'[t] = y /\ \A v \in Txn : v # t => txn'[v] = txn[v]
  BY <1>3 DEF TypeOK
<1>5. txn[t].pc = "idle" /\ \A c \in Cell : t \notin cellLock[c]
  BY DEF Started, WorkInv, HoldsItsWork
<1>6. HoldsItsWork(t)'
  BY <1>5 DEF HoldsItsWork
<1>7. TransferWork(t)'
  <2>1. ASSUME op \in {"ship", "receive"}
        PROVE  items = TransferItems(doc, op)'
    BY <2>1 DEF GoodWork, TransferItems
  <2>2. ASSUME op = "create"
        PROVE  /\ doc \in Transfer /\ transfer'[doc].status = "none"
               /\ \A v \in Txn : v # t => txn'[v].doc # doc
    BY <2>2, <1>4 DEF GoodWork, Fresh
  <2>3. (TransferItems(txn[t].doc, txn[t].op))' = TransferItems(doc, op)'
    BY <1>3, <1>4 DEF TransferItems
  <2>4. QED
    BY <1>3, <1>4, <2>1, <2>2, <2>3 DEF TransferWork, GoodWork
<1>8. ASSUME NEW u \in Txn, u # t
      PROVE  /\ txn[u].pc # "idle" => WorkShape(txn'[u])
             /\ HoldsItsWork(u)' /\ TransferWork(u)'
  <2>1. ASSUME txn[u].pc # "idle", txn[u].op = "create"
        PROVE  txn'[t].doc # txn[u].doc
    <3>1. txn[u].doc \in Transfer /\ transfer[txn[u].doc].status = "none"
      BY <2>1 DEF WorkInv, TransferWork
    <3>2. QED
      BY <3>1, <1>3, <1>4 DEF GoodWork, Fresh
  <2>2. QED
    BY <2>1, <1>4, <1>8, OthersKeepWork
<1>9. LinesDistinct'
  BY DEF WorkInv, LinesDistinct
<1>10. QED
  BY <1>2, <1>4, <1>6, <1>7, <1>8, <1>9 DEF WorkInv

\* Every request a client can start has that shape.
LEMMA StartWork ==
    ASSUME TypeOK, WellFormed, WorkInv, NEW t \in Txn, Start(t)
    PROVE  WorkInv'
<1> USE NoDocAssumption, DocAssumption
<1>u. UNCHANGED <<cell, transfer, cellLock, image>>
  BY DEF Start, Receipt, Issue, Adjust, Reserve, Release, CreateTransfer,
         TransitionTransfer, Document, ReleaseExpired, committed, locks
<1>d. \A x \in Transfer : docLock'[x] = docLock[x]
  <2>1. CASE ReleaseExpired(t)
    <3>1. PICK S \in SUBSET Sweepable :
             docLock' = [d \in Doc |-> IF d \in S THEN {t} ELSE docLock[d]]
      BY <2>1 DEF ReleaseExpired
    <3>2. S \subseteq Reservation
      BY DEF Sweepable
    <3>3. QED
      BY <3>1, <3>2 DEF Doc
  <2>2. CASE ~ReleaseExpired(t)
    BY <2>2 DEF Start, Receipt, Issue, Adjust, Reserve, Release, CreateTransfer,
         TransitionTransfer, Document, locks
  <2>3. QED
    BY <2>1, <2>2
<1>s. /\ {"reserve", "create", "release", "sweep"} \cap PostingOps = {}
      /\ CallerOps = {"goods_receipt", "fulfil", "restock", "checkout", "refund"}
  BY DEF PostingOps, LockingOps, DocumentOps, CallerOps
<1>i. \A w, p, q : \A i, j \in OneItem(w, p, q) : i = j
  BY DEF OneItem
<1>l. ASSUME NEW w, NEW q, NEW i \in Lines(w, q), NEW j \in Lines(w, q)
      PROVE  i.w = j.w /\ (i.p = j.p => i = j)
  BY DEF Lines
<1>1. ASSUME NEW op \in {"receipt", "issue", "adjust"}, NEW k, NEW u, NEW w, NEW p, NEW q,
             Started(t, op, k, u, NoDoc, NoDoc, OneItem(w, p, q), "product")
      PROVE  WorkInv'
  <2>1. GoodWork(op, k, NoDoc, OneItem(w, p, q), "product")
    BY <1>s, <1>i DEF GoodWork
  <2>2. QED
    BY <1>1, <2>1, <1>u, <1>d, StartedWork
<1>2. CASE Receipt(t)
  BY <1>1, <1>2 DEF Receipt
<1>3. CASE Issue(t)
  BY <1>1, <1>3 DEF Issue
<1>4. CASE Adjust(t)
  BY <1>1, <1>4 DEF Adjust
<1>5. CASE Reserve(t)
  <2>1. PICK w \in Warehouse, p \in Product, q \in Quantity, r \in Reservation :
               Started(t, "reserve", NoKey, 0, r, NoDoc, OneItem(w, p, q), "product")
    BY <1>5 DEF Reserve
  <2>2. GoodWork("reserve", NoKey, r, OneItem(w, p, q), "product")
    BY <1>s DEF GoodWork
  <2>3. QED
    BY <2>1, <2>2, <1>u, <1>d, StartedWork
<1>6. CASE Release(t)
  <2>1. PICK r \in Reservation :
               Started(t, "release", NoKey, 0, r, NoDoc, {GivesBack(r)}, "document")
    BY <1>6 DEF Release
  <2>2. GoodWork("release", NoKey, r, {GivesBack(r)}, "document")
    BY <1>s DEF GoodWork
  <2>3. QED
    BY <2>1, <2>2, <1>u, <1>d, StartedWork
<1>7. CASE CreateTransfer(t)
  <2>1. PICK src \in Warehouse, dst \in Warehouse, P \in SUBSET Product, x \in Transfer :
          \E q \in [P -> Quantity] :
               /\ transfer[x].status = "none" /\ Fresh(x)
               /\ Started(t, "create", NoKey, 0, x, dst, Lines(src, q), "product")
    BY <1>7 DEF CreateTransfer
  <2>2. PICK q \in [P -> Quantity] :
               /\ transfer[x].status = "none" /\ Fresh(x)
               /\ Started(t, "create", NoKey, 0, x, dst, Lines(src, q), "product")
    BY <2>1
  <2>3. GoodWork("create", NoKey, x, Lines(src, q), "product")
    BY <2>2, <1>s, <1>l DEF GoodWork
  <2>4. QED
    BY <2>2, <2>3, <1>u, <1>d, StartedWork
<1>8. ASSUME NEW op \in {"ship", "receive"}, TransitionTransfer(t, op)
      PROVE  WorkInv'
  <2>1. PICK x \in Transfer, k \in Key \cup {NoKey} :
               /\ transfer[x].status # "none"
               /\ Started(t, op, k, 0, x, NoDoc, TransferItems(x, op), "document")
    BY <1>8 DEF TransitionTransfer
  <2>2. \A l, m \in transfer[x].lines : l.p = m.p => l = m
    BY DEF WorkInv, LinesDistinct
  <2>3. \A i, j \in TransferItems(x, op) : i.p = j.p => i = j
    BY <2>2 DEF TransferItems
  <2>4. GoodWork(op, k, x, TransferItems(x, op), "document")
    BY <2>1, <2>3, <1>s DEF GoodWork
  <2>5. QED
    BY <2>1, <2>4, <1>u, <1>d, StartedWork
<1>9. ASSUME NEW op \in CallerOps, Document(t, op)
      PROVE  WorkInv'
  <2>1. PICK w \in Warehouse, P \in SUBSET Product, q \in Quantity,
             u \in (IF op = "goods_receipt" THEN UnitCost ELSE {0}) :
          Started(t, op, NoKey, u, NoDoc, NoDoc,
                  Lines(w, [p \in P |-> IF Sells(op) THEN -q ELSE q]), "product")
    BY <1>9 DEF Document
  <2> DEFINE items == Lines(w, [p \in P |-> IF Sells(op) THEN -q ELSE q])
  <2>2. \A i, j \in items : i.p = j.p => i = j
    BY <1>l
  <2> HIDE DEF items
  <2>3. GoodWork(op, NoKey, NoDoc, items, "product")
    BY <2>2, <1>s DEF GoodWork
  <2>4. QED
    BY <2>1, <2>3, <1>u, <1>d, StartedWork DEF items
<1>10. CASE ReleaseExpired(t)
  <2>1. PICK S \in SUBSET Sweepable :
          Started(t, "sweep", NoKey, 0, NoDoc, NoDoc, {GivesBack(r) : r \in S}, "balance")
    BY <1>10 DEF ReleaseExpired
  <2>2. GoodWork("sweep", NoKey, NoDoc, {GivesBack(r) : r \in S}, "balance")
    BY <1>s DEF GoodWork
  <2>3. QED
    BY <2>1, <2>2, <1>u, <1>d, StartedWork
<1>11. QED
  BY <1>2, <1>3, <1>4, <1>5, <1>6, <1>7, <1>8, <1>9, <1>10 DEF Start

\* A step that only moves a session on, over a unit of work at most.
LEMMA MovedOnWork ==
    ASSUME TypeOK, WellFormed, WorkInv, NEW t \in Txn, txn[t].pc # "idle",
           NEW y, txn' = [txn EXCEPT ![t] = y], WorkShape(y),
           y.pc \notin {"idle", "document"},
           y.op = txn[t].op, y.key = txn[t].key, y.doc = txn[t].doc, y.items = txn[t].items,
           y.todo \subseteq txn[t].todo,
           txn[t].op \in {"ship", "receive"} =>
              /\ y.todo = txn[t].todo
              /\ docLock'[txn[t].doc] = {t}
              /\ transfer[txn[t].doc].status = ExpectedStatus(txn[t].op),
           \A u \in Txn : u # t =>
              \A x \in Transfer : docLock[x] = {u} => docLock'[x] = {u},
           UNCHANGED <<cell, transfer, cellLock, image>>
    PROVE  WorkInv'
<1>1. txn'[t] = y /\ \A v \in Txn : v # t => txn'[v] = txn[v]
  BY DEF TypeOK
<1>2. HoldsItsWork(t)'
  <2> SUFFICES ASSUME NEW c \in Cell, t \in cellLock[c]
               PROVE  /\ y.pc # "idle"
                      /\ y.op \notin PostingOps => image[t][c].ledger = cell[c].ledger
                      /\ y.op \in PostingOps =>
                           \E i \in y.items \ y.todo : CellOf(i) = c /\ Posted(t, c, i)'
    BY <1>1 DEF HoldsItsWork
  <2>1. HoldsItsWork(t)
    BY DEF WorkInv
  <2>2. \A i : Posted(t, c, i) => Posted(t, c, i)'
    BY <1>1 DEF Posted
  <2>3. QED
    BY <2>1, <2>2 DEF HoldsItsWork
<1>3. TransferWork(t)'
  <2>0. TransferWork(t)
    BY DEF WorkInv
  <2>1. (TransferItems(txn[t].doc, txn[t].op))' = TransferItems(txn[t].doc, txn[t].op)
    BY <1>1 DEF TransferItems
  <2>2. QED
    BY <1>1, <2>0, <2>1 DEF TransferWork
<1>4. ASSUME NEW u \in Txn, u # t
      PROVE  /\ txn[u].pc # "idle" => WorkShape(txn'[u])
             /\ HoldsItsWork(u)' /\ TransferWork(u)'
  <2>1. ASSUME txn[u].pc # "idle", txn[u].op = "create"
        PROVE  txn'[t].doc # txn[u].doc
    BY <2>1, <1>1, <1>4 DEF WorkInv, TransferWork
  <2>2. QED
    BY <2>1, <1>1, <1>4, OthersKeepWork
<1>5. LinesDistinct'
  BY DEF WorkInv, LinesDistinct
<1>6. QED
  BY <1>1, <1>2, <1>3, <1>4, <1>5 DEF WorkInv

\* A movement of a transfer that has not made this transition is never replayed.
LEMMA NoTransferReplay ==
    ASSUME TypeOK, WellFormed, WorkInv, TransferMovesEachLineOnce, NEW t \in Txn,
           txn[t].pc = "product", txn[t].op \in {"ship", "receive"}
    PROVE  ~ReplayedKey(t)
<1> SUFFICES ASSUME ReplayedKey(t) PROVE FALSE
  OBVIOUS
<1> DEFINE x == txn[t].doc
           type == MovementType(txn[t].op)
<1>1. PICK h \in Holders(t) : SameRequest(t, h)
  BY DEF ReplayedKey
<1>2. PICK c \in Cell : \E n \in DOMAIN cell[c].ledger : h = [c |-> c, mv |-> cell[c].ledger[n]]
  BY <1>1 DEF Holders, KeyHolders, Movements
<1>n. PICK n \in DOMAIN cell[c].ledger : h = [c |-> c, mv |-> cell[c].ledger[n]]
  BY <1>2
<1>3. cell[c].ledger[n].ref = x /\ cell[c].ledger[n].type = type
  BY <1>1, <1>n DEF SameRequest
<1>4. <<c, n>> \in TransferMovements(x, type)
  BY <1>3 DEF TransferMovements
<1>5. x \in Transfer
  BY DEF WellFormed, TargetsExist
<1>6. transfer[x].status = ExpectedStatus(txn[t].op)
  BY DEF WorkInv, TransferWork
<1>7. QED
  BY <1>4, <1>5, <1>6 DEF TransferMovesEachLineOnce, ExpectedStatus, MovementType

\* Locking a document or a product, or reading one, keeps the invariant.
LEMMA LockStepWork ==
    ASSUME TypeOK, WellFormed, WorkInv, TransferMovesEachLineOnce, NEW t \in Txn,
           LockDocument(t) \/ LockProduct(t) \/ LoadProduct(t)
    PROVE  WorkInv'
<1>0. txn[t].pc \in {"document", "product"} /\ UNCHANGED <<cell, transfer, cellLock, image>>
  BY DEF LockDocument, MayLockDocument, LockProduct, MayLockProduct, LoadProduct, committed, locks
<1>1. /\ txn \in [Txn -> Request] /\ txn[t] \in Request /\ RequestWellFormed(txn[t])
      /\ WorkShape(txn[t]) /\ TransferWork(t)
  BY <1>0 DEF TypeOK, WellFormed, WorkInv
<1>2. CASE LockDocument(t)
  <2> DEFINE y == [txn[t] EXCEPT !.pc = FirstStage(txn[t].op)]
             d == txn[t].doc
  <2>1. txn' = [txn EXCEPT ![t] = y]
    BY <1>1, <1>2 DEF LockDocument, Request
  <2>2. FirstStage(txn[t].op) \in {"product", "balance"}
    BY DEF FirstStage
  <2>3. /\ y.pc \in {"product", "balance"} /\ y.op = txn[t].op /\ y.key = txn[t].key
        /\ y.doc = d /\ y.items = txn[t].items /\ y.todo = txn[t].todo /\ y.cur = txn[t].cur
    BY <1>1, <2>2 DEF Request
  <2>4. WorkShape(y)
    BY <1>1, <1>2, <2>3 DEF WorkShape, LockDocument, MayLockDocument
  <2>5. d \in Doc /\ docLock[d] \subseteq {t} /\ docLock' = [docLock EXCEPT ![d] = @ \cup {t}]
    BY <1>1, <1>2 DEF LockDocument, MayLockDocument, Free, Locked, RequestWellFormed
  <2>6. docLock \in [Doc -> SUBSET Txn]
    BY DEF TypeOK
  <2>7. docLock'[d] = {t}
    BY <2>5, <2>6
  <2>8. ASSUME NEW u \in Txn, u # t, NEW x \in Transfer, docLock[x] = {u}
        PROVE  docLock'[x] = {u}
    BY <2>5, <2>6, <2>8 DEF Doc
  <2>9. txn[t].op \in {"ship", "receive"} =>
          transfer[d].status = ExpectedStatus(txn[t].op)
    BY <1>2 DEF LockDocument, DocStatus
  <2> HIDE DEF y
  <2>10. QED
    BY <1>0, <2>1, <2>3, <2>4, <2>7, <2>8, <2>9, MovedOnWork
<1>3. CASE LockProduct(t) \/ LoadProduct(t)
  <2>0. txn[t].pc = "product" /\ docLock' = docLock
    BY <1>3 DEF LockProduct, MayLockProduct, LoadProduct, locks
  <2>1. txn[t].op \in {"ship", "receive"} =>
          /\ docLock[txn[t].doc] = {t}
          /\ transfer[txn[t].doc].status = ExpectedStatus(txn[t].op)
    BY <2>0, <1>1 DEF TransferWork
  <2>2. CASE txn' = [txn EXCEPT ![t].pc = "balance"]
    <3> DEFINE y == [txn[t] EXCEPT !.pc = "balance"]
    <3>1. txn' = [txn EXCEPT ![t] = y]
      BY <1>1, <2>2 DEF Request
    <3>2. /\ y.pc = "balance" /\ y.op = txn[t].op /\ y.key = txn[t].key
          /\ y.doc = txn[t].doc /\ y.items = txn[t].items /\ y.todo = txn[t].todo
          /\ y.cur = txn[t].cur
      BY <1>1 DEF Request
    <3>3. WorkShape(y)
      BY <1>1, <2>0, <3>2 DEF WorkShape
    <3> HIDE DEF y
    <3>4. QED
      BY <1>0, <2>0, <2>1, <3>1, <3>2, <3>3, MovedOnWork
  <2>3. CASE (txn[t].op = "create" \/ ReplayedKey(t)) /\ Advance(t)
    <3>1. txn[t].op \notin {"ship", "receive"}
      BY <2>0, <2>3, NoTransferReplay
    <3>2. PICK y \in [pc : {"commit", "product", "balance"}, op : {txn[t].op}, key : {txn[t].key},
                      unit : {txn[t].unit}, doc : {txn[t].doc}, dst : {txn[t].dst},
                      items : {txn[t].items}, todo : {txn[t].todo \ {txn[t].cur}},
                      cur : Item \cup {NoDoc}] :
             txn' = [txn EXCEPT ![t] = y] /\ WorkShape(y)
      BY <1>1, <2>3, AdvancedRequest
    <3>3. /\ y.pc \notin {"idle", "document"} /\ y.op = txn[t].op /\ y.key = txn[t].key
          /\ y.doc = txn[t].doc /\ y.items = txn[t].items /\ y.todo \subseteq txn[t].todo
      OBVIOUS
    <3>4. QED
      BY <1>0, <2>0, <3>1, <3>2, <3>3, MovedOnWork
  <2>4. QED
    BY <1>3, <2>2, <2>3 DEF LockProduct, LoadProduct
<1>4. QED
  BY <1>2, <1>3

\* A session posts to a balance row it does not hold yet.
LEMMA PostsOncePerRow ==
    ASSUME TypeOK, WellFormed, WorkInv, NEW t \in Txn, PostMovement(t)
    PROVE  t \notin cellLock[CellOf(txn[t].cur)]
<1> DEFINE c == CellOf(txn[t].cur)
<1>1. txn[t].pc = "balance" /\ txn[t].op \in PostingOps
  BY DEF PostMovement, MayLockBalance
<1>2. /\ RequestWellFormed(txn[t]) /\ WorkShape(txn[t]) /\ c \in Cell
      /\ txn[t].cur \in txn[t].items /\ txn[t].cur \in txn[t].todo
  BY <1>1, CurrentItem DEF WorkInv, WorkShape, RequestWellFormed
<1>3. ASSUME t \in cellLock[c]
      PROVE  FALSE
  <2>1. PICK i \in txn[t].items \ txn[t].todo : CellOf(i) = c
    BY <1>1, <1>2, <1>3 DEF WorkInv, HoldsItsWork
  <2>2. i.p = txn[t].cur.p
    BY <2>1 DEF CellOf
  <2>3. QED
    BY <1>1, <1>2, <2>1, <2>2 DEF WorkShape
<1>4. QED
  BY <1>3

\* The ledger a session holds of the row after each of the three balance steps.
LEMMA WorkedLedger ==
    ASSUME TypeOK, WellFormed, WorkInv, NEW t \in Txn,
           PostMovement(t) \/ ReserveStock(t) \/ ReleaseStock(t)
    PROVE  LET c == CellOf(txn[t].cur)
               L == image'[t][c].ledger
               n == Len(cell[c].ledger) + 1
           IN  /\ PostMovement(t) => /\ Len(L) = n
                                     /\ L[n].type = MovementType(txn[t].op)
                                     /\ L[n].key = txn[t].key
                                     /\ L[n].ref = txn[t].doc
                                     /\ L[n].q = txn[t].cur.q
               /\ ~PostMovement(t) => txn[t].op \notin PostingOps /\ L = cell[c].ledger
               /\ \A d \in Cell : d # c => image'[t][d] = image[t][d]
               /\ \A u \in Txn : u # t => image'[u] = image[u]
<1> DEFINE c == CellOf(txn[t].cur)
           row == RowSeen(t, c)
<1>1. txn[t].pc = "balance"
  BY DEF PostMovement, ReserveStock, ReleaseStock, MayLockBalance
<1>2. c \in Cell /\ row \in BalanceRow /\ image \in [Txn -> [Cell -> BalanceRow]]
  BY <1>1, CurrentItem DEF TypeOK
<1>3. PICK new : image' = [image EXCEPT ![t] = Work(t, new)]
  BY DEF PostMovement, ReserveStock, ReleaseStock
<1>4. /\ \A d \in Cell : d # c => image'[t][d] = image[t][d]
      /\ \A u \in Txn : u # t => image'[u] = image[u]
  BY <1>2, <1>3 DEF Work
<1>5. CASE PostMovement(t)
  <2> DEFINE mv == NewMovement(t, row.onHand)
             post == [onHand |-> row.onHand + txn[t].cur.q, reserved |-> row.reserved,
                      ledger |-> Append(row.ledger, mv)]
  <2>1. image' = [image EXCEPT ![t] = Work(t, post)]
    BY <1>5 DEF PostMovement
  <2>2. image'[t][c] = post
    BY <2>1, <1>2 DEF Work
  <2>3. row = cell[c]
    BY <1>5, PostsOncePerRow DEF RowSeen
  <2>4. cell[c].ledger \in Seq(Movement) /\ row.onHand \in Int
    BY <1>2, <2>3 DEF BalanceRow
  <2>5. mv \in Movement
    BY <1>1, <1>5, <2>4, NewMovementOK DEF PostMovement
  <2>6. /\ mv.type = MovementType(txn[t].op) /\ mv.key = txn[t].key
        /\ mv.ref = txn[t].doc /\ mv.q = txn[t].cur.q
    BY DEF NewMovement
  <2> HIDE DEF mv
  <2>7. image'[t][c].ledger = Append(cell[c].ledger, mv)
    BY <2>2, <2>3
  <2>8. /\ Len(image'[t][c].ledger) = Len(cell[c].ledger) + 1
        /\ image'[t][c].ledger[Len(cell[c].ledger) + 1] = mv
    BY <2>4, <2>5, <2>7
  <2>9. QED
    BY <1>4, <1>5, <2>6, <2>8
<1>6. CASE ReserveStock(t) \/ ReleaseStock(t)
  <2>1. txn[t].op \notin PostingOps /\ ~PostMovement(t)
    BY <1>6 DEF ReserveStock, ReleaseStock, PostMovement, PostingOps, LockingOps,
                DocumentOps, ReleasingOps
  <2>2. PICK q : image' = [image EXCEPT ![t] = Work(t, [row EXCEPT !.reserved = q])]
    BY <1>6 DEF ReserveStock, ReleaseStock
  <2>3. image'[t][c] = [row EXCEPT !.reserved = q]
    BY <2>2, <1>2 DEF Work
  <2>4. image'[t][c].ledger = row.ledger
    BY <2>3, <1>2 DEF BalanceRow
  <2>5. row.ledger = cell[c].ledger
    BY <2>1, <1>2 DEF RowSeen, WorkInv, HoldsItsWork
  <2>6. QED
    BY <1>4, <2>1, <2>4, <2>5
<1>7. QED
  BY <1>5, <1>6

\* Posting, reserving and releasing keep the invariant.
LEMMA BalanceStepWork ==
    ASSUME TypeOK, WellFormed, WorkInv, NEW t \in Txn,
           PostMovement(t) \/ ReserveStock(t) \/ ReleaseStock(t)
    PROVE  WorkInv'
<1> DEFINE c == CellOf(txn[t].cur)
<1>1. /\ txn[t].pc = "balance" /\ UNCHANGED <<cell, transfer, docLock>> /\ Advance(t)
      /\ cellLock[c] \subseteq {t} /\ cellLock' = [cellLock EXCEPT ![c] = @ \cup {t}]
  BY DEF PostMovement, ReserveStock, ReleaseStock, MayLockBalance, committed, Free, Locked
<1>2. /\ txn \in [Txn -> Request] /\ txn[t] \in Request /\ RequestWellFormed(txn[t])
      /\ WorkShape(txn[t]) /\ HoldsItsWork(t) /\ TransferWork(t) /\ c \in Cell
      /\ cellLock \in [Cell -> SUBSET Txn] /\ txn[t].cur \in txn[t].items
  BY <1>1, CurrentItem DEF TypeOK, WorkInv, RequestWellFormed
<1>3. PICK y \in [pc : {"commit", "product", "balance"}, op : {txn[t].op}, key : {txn[t].key},
                  unit : {txn[t].unit}, doc : {txn[t].doc}, dst : {txn[t].dst},
                  items : {txn[t].items}, todo : {txn[t].todo \ {txn[t].cur}},
                  cur : Item \cup {NoDoc}] :
         txn' = [txn EXCEPT ![t] = y] /\ WorkShape(y)
  BY <1>1, <1>2, AdvancedRequest
<1>4. /\ y.pc \notin {"idle", "document"} /\ y.op = txn[t].op /\ y.key = txn[t].key
      /\ y.doc = txn[t].doc /\ y.items = txn[t].items
      /\ y.todo = txn[t].todo \ {txn[t].cur}
  OBVIOUS
<1>5. txn'[t] = y /\ \A v \in Txn : v # t => txn'[v] = txn[v]
  BY <1>2, <1>3
<1>6. /\ t \in cellLock'[c]
      /\ \A d \in Cell : d # c => cellLock'[d] = cellLock[d]
      /\ \A d \in Cell, u \in Txn : u # t => (u \in cellLock'[d] <=> u \in cellLock[d])
  BY <1>1, <1>2
<1>7. HoldsItsWork(t)'
  <2> SUFFICES ASSUME NEW d \in Cell, t \in cellLock'[d]
               PROVE  /\ y.pc # "idle"
                      /\ y.op \notin PostingOps => image'[t][d].ledger = cell[d].ledger
                      /\ y.op \in PostingOps =>
                           \E i \in y.items \ y.todo : CellOf(i) = d /\ Posted(t, d, i)'
    BY <1>1, <1>5 DEF HoldsItsWork
  <2>1. CASE d = c
    <3>1. CASE PostMovement(t)
      <4>1. PICK i : i = txn[t].cur
        OBVIOUS
      <4> DEFINE L == image'[t][d].ledger
                 n == Len(cell[d].ledger) + 1
      <4>4. /\ Len(L) = n /\ L[n].type = MovementType(txn[t].op) /\ L[n].key = txn[t].key
            /\ L[n].ref = txn[t].doc /\ L[n].q = i.q
        BY <2>1, <3>1, <4>1, WorkedLedger
      <4>5. Posted(t, d, i)'
        BY <4>4, <1>1, <1>4, <1>5 DEF Posted
      <4>2. txn[t].op \in PostingOps
        BY <3>1 DEF PostMovement
      <4>3. QED
        BY <2>1, <4>1, <4>2, <4>5, <1>2, <1>4
    <3>2. CASE ~PostMovement(t)
      BY <2>1, <3>2, <1>4, WorkedLedger
    <3>3. QED
      BY <3>1, <3>2
  <2>2. CASE d # c
    <3>1. t \in cellLock[d] /\ image'[t][d] = image[t][d]
      BY <2>2, <1>6, WorkedLedger
    <3>2. \A i : Posted(t, d, i) => Posted(t, d, i)'
      BY <3>1, <1>1, <1>4, <1>5 DEF Posted
    <3>3. QED
      BY <3>1, <3>2, <1>2, <1>4 DEF HoldsItsWork
  <2>3. QED
    BY <2>1, <2>2
<1>8. TransferWork(t)'
  <2>1. (TransferItems(txn[t].doc, txn[t].op))' = TransferItems(txn[t].doc, txn[t].op)
    BY <1>1, <1>4, <1>5 DEF TransferItems
  <2>2. ASSUME NEW i \in y.items \ y.todo, txn[t].op \in {"ship", "receive"}
        PROVE  t \in cellLock'[CellOf(i)]
    <3>1. CASE i = txn[t].cur
      BY <3>1, <1>6
    <3>2. CASE i # txn[t].cur
      <4>1. t \in cellLock[CellOf(i)]
        BY <3>2, <2>2, <1>1, <1>2, <1>4 DEF TransferWork
      <4>2. CellOf(i) \in Cell
        BY <2>2, <1>2, <1>4 DEF Request, Item, CellOf, Cell
      <4>3. QED
        BY <4>1, <4>2, <1>6
    <3>3. QED
      BY <3>1, <3>2
  <2>3. QED
    BY <1>1, <1>2, <1>4, <1>5, <2>1, <2>2 DEF TransferWork
<1>9. ASSUME NEW u \in Txn, u # t
      PROVE  /\ txn[u].pc # "idle" => WorkShape(txn'[u])
             /\ HoldsItsWork(u)' /\ TransferWork(u)'
  <2>1. ASSUME txn[u].pc # "idle", txn[u].op = "create"
        PROVE  txn'[t].doc # txn[u].doc
    BY <2>1, <1>4, <1>5, <1>9 DEF WorkInv, TransferWork
  <2>2. image'[u] = image[u]
    BY <1>9, WorkedLedger
  <2>3. QED
    BY <2>1, <2>2, <1>1, <1>5, <1>6, <1>9, OthersKeepWork
<1>10. LinesDistinct'
  BY <1>1 DEF WorkInv, LinesDistinct
<1>11. QED
  BY <1>3, <1>5, <1>7, <1>8, <1>9, <1>10 DEF WorkInv

\* The end of a transaction leaves the others their work: the rows it may have
\* written are the ones it alone held.
LEMMA EndWork ==
    ASSUME StockInv, WorkInv, NEW t \in Txn, EndTransaction(t),
           \A c \in Cell : cell'[c] = cell[c] \/ t \in cellLock[c],
           \A x \in Transfer : x # txn[t].doc => transfer'[x] = transfer[x],
           \A x \in Transfer : transfer[x].status # "none" =>
              /\ transfer'[x].src = transfer[x].src
              /\ transfer'[x].dst = transfer[x].dst
              /\ transfer'[x].lines = transfer[x].lines
              /\ transfer'[x].status = transfer[x].status \/ docLock[x] = {t},
           LinesDistinct'
    PROVE  WorkInv'
<1>1. TypeOK /\ WellFormed
  BY DEF StockInv
<1>2. txn'[t] = Idle /\ (\A v \in Txn : v # t => txn'[v] = txn[v] /\ image'[v] = image[v])
  BY <1>1 DEF TypeOK, EndTransaction
<1>3. /\ \A c \in Cell : cellLock'[c] = cellLock[c] \ {t}
      /\ \A x \in Transfer : docLock'[x] = docLock[x] \ {t}
  BY <1>1 DEF TypeOK, EndTransaction, Unlocked, Doc
<1>4. Idle.pc = "idle" /\ Idle.doc = NoDoc
  BY DEF Idle
<1>5. HoldsItsWork(t)' /\ TransferWork(t)'
  BY <1>2, <1>3, <1>4 DEF HoldsItsWork, TransferWork
<1>6. ASSUME NEW u \in Txn, u # t
      PROVE  /\ txn[u].pc # "idle" => WorkShape(txn'[u])
             /\ HoldsItsWork(u)' /\ TransferWork(u)'
  <2>1. \A c \in Cell : u \in cellLock'[c] <=> u \in cellLock[c]
    BY <1>3, <1>6
  <2>2. ASSUME NEW c \in Cell, u \in cellLock[c]
        PROVE  cell'[c] = cell[c]
    BY <1>6, <2>2 DEF StockInv, HeldRowsAreCurrent
  <2>3. ASSUME NEW x \in Transfer, docLock[x] = {u}, transfer[x].status # "none"
        PROVE  docLock'[x] = {u} /\ transfer'[x].status = transfer[x].status
    BY <1>3, <1>6, <2>3
  <2>4. ASSUME NEW x \in Transfer, txn[u].pc # "idle", txn[u].op = "create", txn[u].doc = x
        PROVE  transfer'[x].status = transfer[x].status /\ txn'[t].doc # x
    <3>1. txn[t].doc # x
      BY <1>6, <2>4 DEF WorkInv, TransferWork
    <3>2. QED
      BY <3>1, <1>2, <1>4, NoDocAssumption
  <2>5. QED
    BY <1>1, <1>2, <1>6, <2>1, <2>2, <2>3, <2>4, OthersKeepWork
<1>7. QED
  BY <1>2, <1>4, <1>5, <1>6 DEF WorkInv

\* A rollback keeps the invariant.
LEMMA RollbackWork ==
    ASSUME StockInv, WorkInv, NEW t \in Txn, EndTransaction(t), UNCHANGED committed
    PROVE  WorkInv'
<1>1. UNCHANGED <<cell, transfer>>
  BY DEF committed
<1>2. LinesDistinct'
  BY <1>1 DEF WorkInv, LinesDistinct
<1>3. QED
  BY <1>1, <1>2, EndWork

\* What a commit makes of the transfers.
LEMMA CommittedTransfers ==
    ASSUME StockInv, WorkInv, NEW t \in Txn, Commit(t)
    PROVE  /\ \A x \in Transfer : x # txn[t].doc => transfer'[x] = transfer[x]
           /\ \A x \in Transfer : transfer[x].status # "none" =>
                /\ transfer'[x].src = transfer[x].src
                /\ transfer'[x].dst = transfer[x].dst
                /\ transfer'[x].lines = transfer[x].lines
           /\ \A x \in Transfer :
                CASE x = txn[t].doc /\ txn[t].op = "create" ->
                       transfer[x].status = "none" /\ transfer'[x].status = "DRAFT"
                  [] x = txn[t].doc /\ txn[t].op = "ship" ->
                       /\ transfer[x].status = "DRAFT" /\ transfer'[x].status = "IN_TRANSIT"
                       /\ docLock[x] = {t}
                  [] x = txn[t].doc /\ txn[t].op = "receive" ->
                       /\ transfer[x].status = "IN_TRANSIT" /\ transfer'[x].status = "COMPLETED"
                       /\ docLock[x] = {t}
                  [] OTHER -> transfer'[x] = transfer[x]
           /\ LinesDistinct'
<1>1. txn[t].pc = "commit" /\ TypeOK /\ WellFormed
  BY DEF Commit, MayFlush, StockInv
<1>2. WorkShape(txn[t]) /\ TransferWork(t)
  BY <1>1 DEF WorkInv
<1> DEFINE new == [status |-> "DRAFT", src |-> txn[t].cur.w, dst |-> txn[t].dst,
                   lines |-> {[p |-> i.p, q |-> i.q] : i \in txn[t].items}]
<1>3. transfer' = [x \in Transfer |->
           IF x # txn[t].doc THEN transfer[x]
           ELSE CASE txn[t].op = "create" -> new
                  [] txn[t].op = "ship" -> [transfer[x] EXCEPT !.status = "IN_TRANSIT"]
                  [] txn[t].op = "receive" -> [transfer[x] EXCEPT !.status = "COMPLETED"]
                  [] OTHER -> transfer[x]]
  BY DEF Commit, CommitTransfers
<1>4. ASSUME NEW x \in Transfer, x # txn[t].doc \/ txn[t].op \notin {"create", "ship", "receive"}
      PROVE  transfer'[x] = transfer[x]
  BY <1>3, <1>4
<1>5. ASSUME NEW x \in Transfer, x = txn[t].doc, txn[t].op = "create"
      PROVE  transfer[x].status = "none" /\ transfer'[x] = new
  BY <1>1, <1>2, <1>3, <1>5 DEF TransferWork
<1>6. ASSUME NEW x \in Transfer, x = txn[t].doc, txn[t].op \in {"ship", "receive"}
      PROVE  /\ transfer[x].status = IF txn[t].op = "ship" THEN "DRAFT" ELSE "IN_TRANSIT"
             /\ transfer'[x].status = IF txn[t].op = "ship" THEN "IN_TRANSIT" ELSE "COMPLETED"
             /\ transfer'[x].src = transfer[x].src
             /\ transfer'[x].dst = transfer[x].dst
             /\ transfer'[x].lines = transfer[x].lines
             /\ docLock[x] = {t}
  <2>1. transfer[x] \in TransferRow
    BY <1>1 DEF TypeOK
  <2>2. docLock[x] = {t} /\ transfer[x].status = ExpectedStatus(txn[t].op)
    BY <1>1, <1>2, <1>6 DEF TransferWork
  <2>3. transfer'[x] = IF txn[t].op = "ship" THEN [transfer[x] EXCEPT !.status = "IN_TRANSIT"]
                       ELSE [transfer[x] EXCEPT !.status = "COMPLETED"]
    BY <1>3, <1>6
  <2>4. QED
    BY <1>6, <2>1, <2>2, <2>3 DEF TransferRow, ExpectedStatus
<1>7. LinesDistinct'
  <2> SUFFICES ASSUME NEW x \in Transfer, NEW l \in transfer'[x].lines,
                      NEW m \in transfer'[x].lines, l.p = m.p
               PROVE  l = m
    BY DEF LinesDistinct
  <2>1. CASE x = txn[t].doc /\ txn[t].op = "create"
    <3>0. transfer'[x] = new
      BY <1>5, <2>1
    <3> HIDE DEF new
    <3>n. new.lines = {[p |-> i.p, q |-> i.q] : i \in txn[t].items}
      BY DEF new
    <3>1. transfer'[x].lines = {[p |-> i.p, q |-> i.q] : i \in txn[t].items}
      BY <3>0, <3>n
    <3>2. PICK i \in txn[t].items : l = [p |-> i.p, q |-> i.q]
      BY <3>1
    <3>3. PICK j \in txn[t].items : m = [p |-> j.p, q |-> j.q]
      BY <3>1
    <3>4. i.p = j.p
      BY <3>2, <3>3
    <3>5. QED
      BY <3>2, <3>3, <3>4, <2>1, <1>2 DEF WorkShape
  <2>2. CASE ~(x = txn[t].doc /\ txn[t].op = "create")
    <3>1. transfer'[x].lines = transfer[x].lines
      BY <1>4, <1>6, <2>2
    <3>2. QED
      BY <3>1 DEF WorkInv, LinesDistinct
  <2>3. QED
    BY <2>1, <2>2
<1> HIDE DEF new
<1>8. \A x \in Transfer : transfer[x].status # "none" =>
                /\ transfer'[x].src = transfer[x].src
                /\ transfer'[x].dst = transfer[x].dst
                /\ transfer'[x].lines = transfer[x].lines
  BY <1>4, <1>5, <1>6
<1>9. new.status = "DRAFT"
  BY DEF new
<1>10. QED
  BY <1>4, <1>5, <1>6, <1>7, <1>8, <1>9

\* So does a commit.
LEMMA CommitWork ==
    ASSUME StockInv, WorkInv, NEW t \in Txn, Commit(t)
    PROVE  WorkInv'
<1>1. EndTransaction(t) /\ \A c \in Cell : cell'[c] = cell[c] \/ t \in cellLock[c]
  BY DEF Commit
<1>2. ASSUME NEW x \in Transfer, transfer[x].status # "none"
      PROVE  transfer'[x].status = transfer[x].status \/ docLock[x] = {t}
  BY <1>2, CommittedTransfers
<1>3. QED
  BY <1>1, <1>2, CommittedTransfers, EndWork

\* A commit appends to each ledger nothing, or one movement: that of a unit of
\* work of its session.
Unmoved(c) == cell'[c].ledger = cell[c].ledger
MovedFor(t, c, i) ==
    LET n == Len(cell[c].ledger) + 1
        L == cell'[c].ledger
    IN  /\ t \in cellLock[c] /\ CellOf(i) = c
        /\ Len(L) = n
        /\ \A m \in 1..Len(cell[c].ledger) : L[m] = cell[c].ledger[m]
        /\ L[n].type = MovementType(txn[t].op)
        /\ L[n].key = txn[t].key
        /\ L[n].ref = txn[t].doc
        /\ L[n].q = i.q

LEMMA CommittedLedger ==
    ASSUME StockInv, WorkInv, NEW t \in Txn, Commit(t), NEW c \in Cell
    PROVE  /\ cell[c].ledger \in Seq(Movement) /\ cell'[c].ledger \in Seq(Movement)
           /\ \/ Unmoved(c) /\ (txn[t].op \in PostingOps => t \notin cellLock[c])
              \/ txn[t].op \in PostingOps /\ \E i \in txn[t].items : MovedFor(t, c, i)
<1>1. TypeOK /\ TypeOK'
  BY CommitOK DEF StockInv
<1>2. cell[c].ledger \in Seq(Movement) /\ cell'[c].ledger \in Seq(Movement)
  BY <1>1 DEF TypeOK, BalanceRow
<1>3. CASE t \in cellLock[c]
  <2>1. cell'[c] = image[t][c]
    BY <1>3 DEF Commit
  <2>2. Extends(cell'[c].ledger, cell[c].ledger)
    BY CommitSound
  <2>3. HoldsItsWork(t)
    BY DEF WorkInv
  <2>4. CASE txn[t].op \notin PostingOps
    BY <1>2, <1>3, <2>1, <2>3, <2>4 DEF HoldsItsWork, Unmoved
  <2>5. CASE txn[t].op \in PostingOps
    <3>1. PICK i \in txn[t].items : CellOf(i) = c /\ Posted(t, c, i)
      BY <1>3, <2>3, <2>5 DEF HoldsItsWork
    <3>2. \A m \in 1..Len(cell[c].ledger) : cell'[c].ledger[m] = cell[c].ledger[m]
      BY <1>2, <2>2 DEF Extends
    <3>3. MovedFor(t, c, i)
      BY <1>3, <2>1, <3>1, <3>2 DEF MovedFor, Posted
    <3>4. QED
      BY <1>2, <2>5, <3>3
  <2>6. QED
    BY <2>4, <2>5
<1>4. CASE t \notin cellLock[c]
  BY <1>2, <1>4 DEF Commit, Unmoved
<1>5. QED
  BY <1>3, <1>4

\* A movement of the committed ledger is an old one in its place, or the one
\* its session posted.
LEMMA CommittedMovement ==
    ASSUME StockInv, WorkInv, NEW t \in Txn, Commit(t), NEW c \in Cell,
           NEW n \in DOMAIN cell'[c].ledger
    PROVE  \/ n \in DOMAIN cell[c].ledger /\ cell'[c].ledger[n] = cell[c].ledger[n]
           \/ /\ n = Len(cell[c].ledger) + 1 /\ t \in cellLock[c]
              /\ txn[t].op \in PostingOps
              /\ \E i \in txn[t].items : MovedFor(t, c, i)
<1>1. cell[c].ledger \in Seq(Movement) /\ cell'[c].ledger \in Seq(Movement)
  BY CommittedLedger
<1>2. /\ DOMAIN cell'[c].ledger = 1..Len(cell'[c].ledger) /\ Len(cell'[c].ledger) \in Nat
      /\ DOMAIN cell[c].ledger = 1..Len(cell[c].ledger) /\ Len(cell[c].ledger) \in Nat
  BY <1>1
<1>3. CASE Unmoved(c)
  BY <1>2, <1>3 DEF Unmoved
<1>4. CASE txn[t].op \in PostingOps /\ \E i \in txn[t].items : MovedFor(t, c, i)
  <2>1. PICK i \in txn[t].items : MovedFor(t, c, i)
    BY <1>4
  <2>2. /\ Len(cell'[c].ledger) = Len(cell[c].ledger) + 1 /\ t \in cellLock[c]
        /\ \A m \in 1..Len(cell[c].ledger) : cell'[c].ledger[m] = cell[c].ledger[m]
    BY <2>1 DEF MovedFor
  <2>3. n \in 1..Len(cell[c].ledger) \/ n = Len(cell[c].ledger) + 1
    BY <1>2, <2>2
  <2>4. QED
    BY <1>2, <1>4, <2>2, <2>3
<1>5. QED
  BY <1>3, <1>4, CommittedLedger

\* An old movement keeps its place.
LEMMA OldMovement ==
    ASSUME StockInv, NEW t \in Txn, Commit(t), NEW c \in Cell, NEW n \in DOMAIN cell[c].ledger
    PROVE  n \in DOMAIN cell'[c].ledger /\ cell'[c].ledger[n] = cell[c].ledger[n]
<1>1. Extends(cell'[c].ledger, cell[c].ledger) /\ TypeOK /\ TypeOK'
  BY CommitSound, CommitOK DEF StockInv
<1>2. cell[c].ledger \in Seq(Movement) /\ cell'[c].ledger \in Seq(Movement)
  BY <1>1 DEF TypeOK, BalanceRow
<1>3. QED
  BY <1>1, <1>2 DEF Extends

\* A committed movement stored under a key is one of the key's holders.
LEMMA HolderFound ==
    ASSUME NEW f \in Cell, NEW x \in Movements(f), NEW type, NEW p, NEW k,
           SameStoredKey(type, p, k, x.type, f[2], x.key)
    PROVE  KeyHolders(type, p, k) # {}
<1> DEFINE S(c) == {[c |-> c, mv |-> m] : m \in {mv \in Movements(c) :
                       SameStoredKey(type, p, k, mv.type, c[2], mv.key)}}
<1>1. [c |-> f, mv |-> x] \in S(f)
  OBVIOUS
<1>2. KeyHolders(type, p, k) = UNION {S(c) : c \in Cell}
  BY DEF KeyHolders
<1> HIDE DEF S
<1>3. QED
  BY <1>1, <1>2

\* The unique index, and one movement per key in a transaction, keep every
\* stored key to one movement.
LEMMA CommitKeys ==
    ASSUME StockInv, WorkInv, KeyPostsOnce, NEW t \in Txn, Commit(t)
    PROVE  KeyPostsOnce'
<1> SUFFICES ASSUME NEW c \in Cell, NEW d \in Cell,
                    NEW n \in DOMAIN cell'[c].ledger, NEW m \in DOMAIN cell'[d].ledger,
                    SameStoredKey(cell'[c].ledger[n].type, c[2], cell'[c].ledger[n].key,
                                  cell'[d].ledger[m].type, d[2], cell'[d].ledger[m].key)
             PROVE  c = d /\ n = m
  BY DEF KeyPostsOnce
<1> DEFINE a == cell'[c].ledger[n]
           b == cell'[d].ledger[m]
<1>0. txn[t].pc = "commit" /\ TypeOK /\ WellFormed
  BY DEF Commit, MayFlush, StockInv
<1>1. ASSUME NEW e \in Cell, NEW k, k = Len(cell[e].ledger) + 1, t \in cellLock[e],
             NEW f \in Cell, NEW j \in DOMAIN cell[f].ledger, k \in DOMAIN cell'[e].ledger,
             SameStoredKey(cell'[e].ledger[k].type, e[2], cell'[e].ledger[k].key,
                           cell[f].ledger[j].type, f[2], cell[f].ledger[j].key)
      PROVE  FALSE
  <2>1. image[t][e].ledger = cell'[e].ledger
    BY <1>1 DEF Commit
  <2>2. k > Len(cell[e].ledger)
    <3>1. cell[e].ledger \in Seq(Movement)
      BY <1>0 DEF TypeOK, BalanceRow
    <3>2. QED
      BY <3>1, <1>1
  <2> DEFINE mv == cell'[e].ledger[k]
  <2>3. KeyHolders(mv.type, e[2], mv.key) = {}
    BY <1>1, <2>1, <2>2 DEF Commit, UniqueKeys
  <2>4. cell[f].ledger[j] \in Movements(f)
    BY <1>1 DEF Movements
  <2>5. KeyHolders(mv.type, e[2], mv.key) # {}
    BY <1>1, <2>4, HolderFound
  <2>6. QED
    BY <2>3, <2>5
<1>2. CASE n \in DOMAIN cell[c].ledger /\ m \in DOMAIN cell[d].ledger
  <2>1. a = cell[c].ledger[n] /\ b = cell[d].ledger[m]
    BY <1>2, OldMovement
  <2>2. QED
    BY <1>2, <2>1 DEF KeyPostsOnce
<1>3. CASE n \notin DOMAIN cell[c].ledger /\ m \in DOMAIN cell[d].ledger
  <2>1. n = Len(cell[c].ledger) + 1 /\ t \in cellLock[c] /\ b = cell[d].ledger[m]
    BY <1>3, CommittedMovement, OldMovement
  <2>2. QED
    BY <1>1, <1>3, <2>1
<1>4. CASE n \in DOMAIN cell[c].ledger /\ m \notin DOMAIN cell[d].ledger
  <2>1. m = Len(cell[d].ledger) + 1 /\ t \in cellLock[d] /\ a = cell[c].ledger[n]
    BY <1>4, CommittedMovement, OldMovement
  <2>2. SameStoredKey(b.type, d[2], b.key, a.type, c[2], a.key)
    BY DEF SameStoredKey
  <2>3. QED
    BY <1>1, <1>4, <2>1, <2>2
<1>5. CASE n \notin DOMAIN cell[c].ledger /\ m \notin DOMAIN cell[d].ledger
  <2>1. PICK i \in txn[t].items : MovedFor(t, c, i) /\ n = Len(cell[c].ledger) + 1
    BY <1>5, CommittedMovement
  <2>2. PICK j \in txn[t].items : MovedFor(t, d, j) /\ m = Len(cell[d].ledger) + 1
    BY <1>5, CommittedMovement
  <2>3. txn[t].op \in PostingOps
    BY <1>5, CommittedMovement
  <2>4. /\ a.type = MovementType(txn[t].op) /\ b.type = MovementType(txn[t].op)
        /\ a.key = txn[t].key /\ CellOf(i) = c /\ CellOf(j) = d
    BY <2>1, <2>2 DEF MovedFor
  <2>5. txn[t].key # NoKey /\ (a.type \in TransferTypes => c[2] = d[2])
    BY <2>4 DEF SameStoredKey
  <2>6. WorkShape(txn[t])
    BY <1>0 DEF WorkInv
  <2>7. i = j
    <3>1. CASE txn[t].op \in {"receipt", "issue", "adjust"}
      BY <3>1, <2>6 DEF WorkShape
    <3>2. CASE txn[t].op \in {"ship", "receive"}
      <4>1. MovementType(txn[t].op) \in TransferTypes
        BY <3>2 DEF MovementType, TransferTypes
      <4>2. i.p = j.p
        BY <4>1, <2>4, <2>5 DEF CellOf
      <4>3. QED
        BY <4>2, <2>3, <2>6 DEF WorkShape
    <3>3. CASE txn[t].op \in CallerOps
      BY <3>3, <2>5, <2>6 DEF WorkShape
    <3>4. QED
      BY <2>3, <3>1, <3>2, <3>3 DEF PostingOps, LockingOps, CallerOps
  <2>8. QED
    BY <2>1, <2>2, <2>4, <2>7
<1>6. QED
  BY <1>2, <1>3, <1>4, <1>5

\* The movements of a transfer that the commit is not about stay as they were.
LEMMA OtherTransferMovements ==
    ASSUME StockInv, WorkInv, NEW t \in Txn, Commit(t), NEW x, NEW type \in TransferTypes,
           x # txn[t].doc \/ type # MovementType(txn[t].op)
    PROVE  /\ TransferMovements(x, type)' = TransferMovements(x, type)
           /\ \A cn \in TransferMovements(x, type) :
                cell'[cn[1]].ledger[cn[2]] = cell[cn[1]].ledger[cn[2]]
<1>1. ASSUME NEW cn \in TransferMovements(x, type)
      PROVE  /\ cn \in TransferMovements(x, type)'
             /\ cell'[cn[1]].ledger[cn[2]] = cell[cn[1]].ledger[cn[2]]
  <2>1. PICK c \in Cell : \E n \in DOMAIN cell[c].ledger : cn = <<c, n>>
    BY DEF TransferMovements
  <2>2. PICK n \in DOMAIN cell[c].ledger : cn = <<c, n>>
    BY <2>1
  <2>3. n \in DOMAIN cell'[c].ledger /\ cell'[c].ledger[n] = cell[c].ledger[n]
    BY OldMovement
  <2>4. cell[c].ledger[n].ref = x /\ cell[c].ledger[n].type = type
    BY <1>1, <2>2 DEF TransferMovements
  <2>5. QED
    BY <2>2, <2>3, <2>4 DEF TransferMovements
<1>2. ASSUME NEW cn \in TransferMovements(x, type)'
      PROVE  cn \in TransferMovements(x, type)
  <2>1. PICK c \in Cell : \E n \in DOMAIN cell'[c].ledger : cn = <<c, n>>
    BY DEF TransferMovements
  <2>2. PICK n \in DOMAIN cell'[c].ledger : cn = <<c, n>>
    BY <2>1
  <2>3. cell'[c].ledger[n].ref = x /\ cell'[c].ledger[n].type = type
    BY <1>2, <2>2 DEF TransferMovements
  <2>4. n \in DOMAIN cell[c].ledger /\ cell'[c].ledger[n] = cell[c].ledger[n]
    <3>1. ASSUME NEW i, MovedFor(t, c, i), n = Len(cell[c].ledger) + 1
          PROVE  FALSE
      BY <3>1, <2>3 DEF MovedFor
    <3>2. QED
      BY <3>1, CommittedMovement
  <2>5. QED
    BY <2>2, <2>3, <2>4 DEF TransferMovements
<1>3. QED
  BY <1>1, <1>2

\* Lines already moved stay moved, once.
LEMMA MovedLinesKept ==
    ASSUME StockInv, WorkInv, NEW t \in Txn, Commit(t), NEW x, NEW type \in TransferTypes,
           x # txn[t].doc \/ type # MovementType(txn[t].op), NEW w, NEW sign,
           transfer'[x].lines = transfer[x].lines, PostedLines(x, type, w, sign)
    PROVE  PostedLines(x, type, w, sign)'
<1> DEFINE M == TransferMovements(x, type)
<1>1. M' = M /\ \A cn \in M : cell'[cn[1]].ledger[cn[2]] = cell[cn[1]].ledger[cn[2]]
  BY OtherTransferMovements
<1> HIDE DEF M
<1>2. /\ \A l \in transfer[x].lines : \E cn \in M :
           cn[1] = <<w, l.p>> /\ cell[cn[1]].ledger[cn[2]].q = sign * l.q
      /\ \A cn \in M : \E l \in transfer[x].lines :
           cn[1] = <<w, l.p>> /\ cell[cn[1]].ledger[cn[2]].q = sign * l.q
      /\ \A a, b \in M : a[1] = b[1] => a = b
  BY DEF PostedLines, M
<1>3. /\ \A l \in transfer'[x].lines : \E cn \in M' :
           cn[1] = <<w, l.p>> /\ cell'[cn[1]].ledger[cn[2]].q = sign * l.q
      /\ \A cn \in M' : \E l \in transfer'[x].lines :
           cn[1] = <<w, l.p>> /\ cell'[cn[1]].ledger[cn[2]].q = sign * l.q
      /\ \A a, b \in M' : a[1] = b[1] => a = b
  BY <1>1, <1>2
<1>4. QED
  BY <1>3 DEF PostedLines, M

\* A commit that ships or receives a transfer has moved each line of it, once.
LEMMA LinesMoved ==
    ASSUME StockInv, WorkInv, NEW t \in Txn, Commit(t), txn[t].op \in {"ship", "receive"},
           NEW x \in Transfer, x = txn[t].doc, NEW type, type = MovementType(txn[t].op),
           TransferMovements(x, type) = {}, NEW w, NEW sign,
           w = IF txn[t].op = "ship" THEN transfer[x].src ELSE transfer[x].dst,
           sign = IF txn[t].op = "ship" THEN -1 ELSE 1
    PROVE  PostedLines(x, type, w, sign)'
<1> DEFINE M == TransferMovements(x, type)'
           op == txn[t].op
<1>0. /\ txn[t].pc = "commit" /\ TypeOK /\ WellFormed /\ txn[t] \in Request
      /\ WorkShape(txn[t]) /\ TransferWork(t) /\ HoldsItsWork(t)
  BY DEF Commit, MayFlush, StockInv, TypeOK, WorkInv
<1>1. transfer[x].status # "none" /\ transfer[x].lines \subseteq Line
  BY <1>0 DEF WellFormed, TargetsExist, TypeOK, TransferRow
<1>2. transfer'[x].lines = transfer[x].lines
  BY <1>1, CommittedTransfers
<1>3. txn[t].items = TransferItems(x, op) /\ op \in PostingOps
  BY <1>0 DEF TransferWork, PostingOps, LockingOps
<1>4. ASSUME NEW l \in Line
      PROVE  l.q \in Int /\ (-l.q = -1 * l.q) /\ (l.q = 1 * l.q)
  <2>1. l.q \in Quantity
    BY DEF Line
  <2>5. \A q \in Quantity : q \in Int
    BY QuantityAssumption
  <2>2. PICK q \in Int : q = l.q
    BY <2>1, <2>5
  <2>3. -q = -1 * q /\ q = 1 * q
    OBVIOUS
  <2>4. QED
    BY <2>2, <2>3
<1>5. ASSUME NEW i \in txn[t].items
      PROVE  \E l \in transfer[x].lines : CellOf(i) = <<w, l.p>> /\ i.q = sign * l.q
  <2>1. PICK l \in transfer[x].lines :
           i = [w |-> IF op = "ship" THEN transfer[x].src ELSE transfer[x].dst,
                p |-> l.p, q |-> IF op = "ship" THEN -l.q ELSE l.q, r |-> NoDoc]
    BY <1>3, <1>5 DEF TransferItems
  <2>2. i.w = w /\ i.p = l.p /\ i.q = IF op = "ship" THEN -l.q ELSE l.q
    BY <2>1
  <2>3. l \in Line
    BY <1>1
  <2>4. QED
    BY <1>4, <2>2, <2>3 DEF CellOf
<1>6. ASSUME NEW l \in transfer[x].lines
      PROVE  \E i \in txn[t].items : i.p = l.p /\ CellOf(i) = <<w, l.p>> /\ i.q = sign * l.q
  <2> DEFINE i == [w |-> IF op = "ship" THEN transfer[x].src ELSE transfer[x].dst,
                   p |-> l.p, q |-> IF op = "ship" THEN -l.q ELSE l.q, r |-> NoDoc]
  <2>1. i \in txn[t].items
    BY <1>3 DEF TransferItems
  <2>2. i.w = w /\ i.p = l.p /\ i.q = IF op = "ship" THEN -l.q ELSE l.q
    OBVIOUS
  <2> HIDE DEF i
  <2>3. i.q = sign * l.q
    BY <1>1, <1>4, <2>2
  <2>4. QED
    BY <2>1, <2>2, <2>3 DEF CellOf
<1>7. ASSUME NEW c \in Cell, NEW i \in txn[t].items, MovedFor(t, c, i)
      PROVE  /\ <<c, Len(cell[c].ledger) + 1>> \in M
             /\ cell'[c].ledger[Len(cell[c].ledger) + 1].q = i.q
  <2> DEFINE n == Len(cell[c].ledger) + 1
  <2>1. cell[c].ledger \in Seq(Movement) /\ cell'[c].ledger \in Seq(Movement)
    BY CommittedLedger
  <2>2. n \in DOMAIN cell'[c].ledger
    BY <2>1, <1>7 DEF MovedFor
  <2>3. cell'[c].ledger[n].ref = x /\ cell'[c].ledger[n].type = type
        /\ cell'[c].ledger[n].q = i.q
    BY <1>7 DEF MovedFor
  <2>4. QED
    BY <2>2, <2>3 DEF TransferMovements
<1>8. ASSUME NEW cn \in M
      PROVE  \E c \in Cell : /\ cn = <<c, Len(cell[c].ledger) + 1>>
                             /\ \E i \in txn[t].items : MovedFor(t, c, i)
  <2>1. PICK c \in Cell : \E n \in DOMAIN cell'[c].ledger : cn = <<c, n>>
    BY <1>8 DEF TransferMovements
  <2>2. PICK n \in DOMAIN cell'[c].ledger : cn = <<c, n>>
    BY <2>1
  <2>3. cell'[c].ledger[n].ref = x /\ cell'[c].ledger[n].type = type
    BY <1>8, <2>2 DEF TransferMovements
  <2>4. ~(n \in DOMAIN cell[c].ledger /\ cell'[c].ledger[n] = cell[c].ledger[n])
    <3>1. ASSUME n \in DOMAIN cell[c].ledger, cell'[c].ledger[n] = cell[c].ledger[n]
          PROVE  <<c, n>> \in TransferMovements(x, type)
      BY <3>1, <2>3 DEF TransferMovements
    <3>2. QED
      BY <3>1
  <2>5. QED
    BY <2>2, <2>4, CommittedMovement
<1>9. ASSUME NEW l \in transfer[x].lines
      PROVE  \E cn \in M : cn[1] = <<w, l.p>> /\ cell'[cn[1]].ledger[cn[2]].q = sign * l.q
  <2>1. PICK i \in txn[t].items : i.p = l.p /\ CellOf(i) = <<w, l.p>> /\ i.q = sign * l.q
    BY <1>6
  <2>2. t \in cellLock[CellOf(i)]
    BY <1>0 DEF TransferWork, WorkShape
  <2>3. CellOf(i) \in Cell
    BY <1>0 DEF Request, Item, CellOf, Cell
  <2>4. PICK j \in txn[t].items : MovedFor(t, CellOf(i), j)
    BY <2>2, <2>3, <1>3, CommittedLedger
  <2>5. j.p = i.p
    BY <2>4 DEF MovedFor, CellOf
  <2>6. j = i
    BY <2>5, <1>0, <1>3 DEF WorkShape
  <2> DEFINE c == CellOf(i)
             cn == <<c, Len(cell[c].ledger) + 1>>
  <2>7. cn \in M /\ cell'[c].ledger[Len(cell[c].ledger) + 1].q = i.q
    BY <1>7, <2>3, <2>4, <2>6
  <2>8. cn[1] = <<w, l.p>> /\ cell'[cn[1]].ledger[cn[2]].q = sign * l.q
    BY <2>1, <2>7
  <2>9. QED
    BY <2>7, <2>8
<1>10. ASSUME NEW cn \in M
       PROVE  \E l \in transfer[x].lines :
                cn[1] = <<w, l.p>> /\ cell'[cn[1]].ledger[cn[2]].q = sign * l.q
  <2>1. PICK c \in Cell : /\ cn = <<c, Len(cell[c].ledger) + 1>>
                          /\ \E i \in txn[t].items : MovedFor(t, c, i)
    BY <1>8
  <2>2. PICK i \in txn[t].items : MovedFor(t, c, i)
    BY <2>1
  <2>3. PICK l \in transfer[x].lines : CellOf(i) = <<w, l.p>> /\ i.q = sign * l.q
    BY <1>5
  <2>4. cell'[c].ledger[Len(cell[c].ledger) + 1].q = i.q /\ CellOf(i) = c
    BY <1>7, <2>2 DEF MovedFor
  <2>5. QED
    BY <2>1, <2>3, <2>4
<1>11. ASSUME NEW a \in M, NEW b \in M, a[1] = b[1]
       PROVE  a = b
  BY <1>8, <1>11
<1> HIDE DEF M
<1>12. QED
  BY <1>2, <1>9, <1>10, <1>11 DEF PostedLines, M

\* Every transfer's movements still match its status after a commit.
LEMMA CommitTransfersOnce ==
    ASSUME StockInv, WorkInv, TransferMovesEachLineOnce, NEW t \in Txn, Commit(t)
    PROVE  TransferMovesEachLineOnce'
<1> DEFINE Out(x) == IF transfer[x].status \in {"IN_TRANSIT", "COMPLETED"}
                     THEN PostedLines(x, "TRANSFER_OUT", transfer[x].src, -1)
                     ELSE TransferMovements(x, "TRANSFER_OUT") = {}
           In(x) == IF transfer[x].status = "COMPLETED"
                    THEN PostedLines(x, "TRANSFER_IN", transfer[x].dst, 1)
                    ELSE TransferMovements(x, "TRANSFER_IN") = {}
           op == txn[t].op
<1>0. {"TRANSFER_OUT", "TRANSFER_IN"} = TransferTypes
  BY DEF TransferTypes
<1>1. ASSUME NEW x \in Transfer
      PROVE  Out(x)' /\ In(x)'
  <2>1. Out(x) /\ In(x)
    BY DEF TransferMovesEachLineOnce
  <2>2. PICK s, d : s = transfer[x].src /\ d = transfer[x].dst
    OBVIOUS
  <2>k. ASSUME NEW type \in TransferTypes, x # txn[t].doc \/ type # MovementType(op)
        PROVE  /\ TransferMovements(x, type)' = TransferMovements(x, type)
               /\ \A w, sign : transfer'[x].lines = transfer[x].lines
                                 /\ PostedLines(x, type, w, sign) => PostedLines(x, type, w, sign)'
    BY <2>k, OtherTransferMovements, MovedLinesKept
  <2>3. ASSUME x # txn[t].doc \/ MovementType(op) # "TRANSFER_OUT",
               transfer'[x].status \in {"IN_TRANSIT", "COMPLETED"} <=>
                 transfer[x].status \in {"IN_TRANSIT", "COMPLETED"},
               transfer[x].status # "none" =>
                  transfer'[x].src = s /\ transfer'[x].lines = transfer[x].lines
        PROVE  Out(x)'
    <3>1. TransferMovements(x, "TRANSFER_OUT")' = TransferMovements(x, "TRANSFER_OUT")
      BY <1>0, <2>3, <2>k
    <3>2. ASSUME transfer[x].status \in {"IN_TRANSIT", "COMPLETED"}
          PROVE  PostedLines(x, "TRANSFER_OUT", s, -1)'
      BY <1>0, <2>1, <2>2, <2>3, <2>k, <3>2
    <3>3. transfer[x].status \in {"IN_TRANSIT", "COMPLETED"} =>
             PostedLines(x, "TRANSFER_OUT", transfer[x].src, -1)'
      BY <3>2, <2>3 DEF PostedLines
    <3>4. QED
      BY <2>1, <2>3, <3>1, <3>3
  <2>4. ASSUME x # txn[t].doc \/ MovementType(op) # "TRANSFER_IN",
               transfer'[x].status = "COMPLETED" <=> transfer[x].status = "COMPLETED",
               transfer[x].status # "none" =>
                  transfer'[x].dst = d /\ transfer'[x].lines = transfer[x].lines
        PROVE  In(x)'
    <3>1. TransferMovements(x, "TRANSFER_IN")' = TransferMovements(x, "TRANSFER_IN")
      BY <1>0, <2>4, <2>k
    <3>2. ASSUME transfer[x].status = "COMPLETED"
          PROVE  PostedLines(x, "TRANSFER_IN", d, 1)'
      BY <1>0, <2>1, <2>2, <2>4, <2>k, <3>2
    <3>3. transfer[x].status = "COMPLETED" =>
             PostedLines(x, "TRANSFER_IN", transfer[x].dst, 1)'
      BY <3>2, <2>4 DEF PostedLines
    <3>4. QED
      BY <2>1, <2>4, <3>1, <3>3
  <2>5. transfer[x].status # "none" =>
          transfer'[x].src = s /\ transfer'[x].dst = d /\ transfer'[x].lines = transfer[x].lines
    BY <2>2, CommittedTransfers
  <2>6. CASE x # txn[t].doc \/ op \notin {"create", "ship", "receive"}
    <3>1. transfer'[x] = transfer[x]
      BY <2>6, CommittedTransfers
    <3>2. x # txn[t].doc \/ MovementType(op) \notin TransferTypes
      BY <2>6 DEF MovementType, TransferTypes
    <3>3. QED
      BY <3>1, <3>2, <1>0, <2>2, <2>3, <2>4
  <2>7. CASE x = txn[t].doc /\ op = "create"
    <3>1. transfer[x].status = "none" /\ transfer'[x].status = "DRAFT"
      BY <2>7, CommittedTransfers
    <3>2. MovementType(op) = "SALE"
      BY <2>7 DEF MovementType
    <3>3. QED
      BY <3>1, <3>2, <2>3, <2>4
  <2>8. CASE x = txn[t].doc /\ op = "ship"
    <3>1. transfer[x].status = "DRAFT" /\ transfer'[x].status = "IN_TRANSIT"
      BY <2>8, CommittedTransfers
    <3>2. MovementType(op) = "TRANSFER_OUT"
      BY <2>8 DEF MovementType
    <3>3. PostedLines(x, "TRANSFER_OUT", s, -1)'
      BY <2>1, <2>2, <2>8, <3>1, <3>2, LinesMoved
    <3>4. Out(x)'
      BY <3>1, <3>3, <2>5 DEF PostedLines
    <3>5. QED
      BY <3>1, <3>2, <3>4, <2>4, <2>5
  <2>9. CASE x = txn[t].doc /\ op = "receive"
    <3>1. transfer[x].status = "IN_TRANSIT" /\ transfer'[x].status = "COMPLETED"
      BY <2>9, CommittedTransfers
    <3>2. MovementType(op) = "TRANSFER_IN"
      BY <2>9 DEF MovementType
    <3>3. PostedLines(x, "TRANSFER_IN", d, 1)'
      BY <2>1, <2>2, <2>9, <3>1, <3>2, LinesMoved
    <3>4. In(x)'
      BY <3>1, <3>3, <2>5 DEF PostedLines
    <3>5. QED
      BY <3>1, <3>2, <3>4, <2>3, <2>5
  <2>10. QED
    BY <2>6, <2>7, <2>8, <2>9
<1>2. QED
  BY <1>1 DEF TransferMovesEachLineOnce

PostingInv == StockInv /\ WorkInv /\ KeyPostsOnce /\ TransferMovesEachLineOnce

\* Every step keeps the invariant.
LEMMA PostingStep ==
    ASSUME PostingInv, [Next]_vars
    PROVE  PostingInv'
<1>0. /\ StockInv /\ WorkInv /\ KeyPostsOnce /\ TransferMovesEachLineOnce
      /\ TypeOK /\ WellFormed
  BY DEF PostingInv, StockInv
<1>1. StockInv'
  BY <1>0, StockStep
<1>2. UNCHANGED <<cell, transfer>> => KeyPostsOnce' /\ TransferMovesEachLineOnce'
  <2> SUFFICES ASSUME UNCHANGED <<cell, transfer>>
               PROVE  KeyPostsOnce' /\ TransferMovesEachLineOnce'
    OBVIOUS
  <2>1. \A x, type : TransferMovements(x, type)' = TransferMovements(x, type)
    BY DEF TransferMovements
  <2>2. \A x, type, w, sign : PostedLines(x, type, w, sign)' = PostedLines(x, type, w, sign)
    BY <2>1 DEF PostedLines
  <2>3. \A x \in Transfer :
          /\ PostedLines(x, "TRANSFER_OUT", transfer[x].src, -1)' =
               PostedLines(x, "TRANSFER_OUT", transfer[x].src, -1)
          /\ PostedLines(x, "TRANSFER_IN", transfer[x].dst, 1)' =
               PostedLines(x, "TRANSFER_IN", transfer[x].dst, 1)
    BY <2>1 DEF PostedLines
  <2>4. KeyPostsOnce'
    BY <1>0 DEF KeyPostsOnce
  <2>5. QED
    BY <1>0, <2>1, <2>3, <2>4 DEF TransferMovesEachLineOnce
<1>3. ASSUME NEW t \in Txn, Start(t)
      PROVE  WorkInv' /\ UNCHANGED <<cell, transfer>>
  <2>1. UNCHANGED <<cell, transfer>>
    BY <1>3 DEF Start, Receipt, Issue, Adjust, Reserve, Release, CreateTransfer,
                TransitionTransfer, Document, ReleaseExpired, committed
  <2>2. QED
    BY <1>0, <1>3, <2>1, StartWork
<1>4. ASSUME NEW t \in Txn, LockDocument(t) \/ LockProduct(t) \/ LoadProduct(t)
      PROVE  WorkInv' /\ UNCHANGED <<cell, transfer>>
  <2>1. UNCHANGED <<cell, transfer>>
    BY <1>4 DEF LockDocument, LockProduct, LoadProduct, committed
  <2>2. QED
    BY <1>0, <1>4, <2>1, LockStepWork
<1>5. ASSUME NEW t \in Txn, PostMovement(t) \/ ReserveStock(t) \/ ReleaseStock(t)
      PROVE  WorkInv' /\ UNCHANGED <<cell, transfer>>
  <2>1. UNCHANGED <<cell, transfer>>
    BY <1>5 DEF PostMovement, ReserveStock, ReleaseStock, committed
  <2>2. QED
    BY <1>0, <1>5, <2>1, BalanceStepWork
<1>6. ASSUME NEW t \in Txn, Commit(t)
      PROVE  WorkInv' /\ KeyPostsOnce' /\ TransferMovesEachLineOnce'
  BY <1>0, <1>6, CommitWork, CommitKeys, CommitTransfersOnce
<1>7. ASSUME NEW t \in Txn, Reject(t) \/ DeadlockVictim(t) \/ Crash(t)
      PROVE  WorkInv' /\ UNCHANGED <<cell, transfer>>
  <2>1. EndTransaction(t) /\ UNCHANGED committed
    BY <1>7 DEF Reject, DeadlockVictim, Crash
  <2>2. QED
    BY <1>0, <2>1, RollbackWork DEF committed
<1>8. ASSUME UNCHANGED <<cell, transfer, cellLock, docLock, txn, image>>
      PROVE  WorkInv' /\ UNCHANGED <<cell, transfer>>
  <2>1. \A t \in Txn : HoldsItsWork(t)' = HoldsItsWork(t)
    BY <1>8 DEF HoldsItsWork, Posted
  <2>2. \A t \in Txn : TransferWork(t)' = TransferWork(t)
    BY <1>8 DEF TransferWork, TransferItems
  <2>3. QED
    BY <1>0, <1>8, <2>1, <2>2 DEF WorkInv, LinesDistinct
<1>9. ASSUME \/ \E r \in Reservation : Expire(r)
             \/ \E p \in Product : UpdateProduct(p) \/ DeactivateProduct(p)
             \/ UNCHANGED vars
      PROVE  UNCHANGED <<cell, transfer, cellLock, docLock, txn, image>>
  BY <1>9 DEF Expire, UpdateProduct, DeactivateProduct, vars, committed, locks, session
<1>10. WorkInv' /\ KeyPostsOnce' /\ TransferMovesEachLineOnce'
  BY <1>2, <1>3, <1>4, <1>5, <1>6, <1>7, <1>8, <1>9 DEF Next, Step
<1>11. QED
  BY <1>1, <1>10 DEF PostingInv

\* With no movement, no transfer and no session at work, it holds.
LEMMA PostingInit == Init => PostingInv
<1> SUFFICES ASSUME Init PROVE PostingInv
  OBVIOUS
<1>1. /\ \A c \in Cell : cell[c].ledger = <<>> /\ cellLock[c] = {}
      /\ \A x \in Transfer : transfer[x] = NoTransfer
      /\ \A t \in Txn : txn[t] = Idle
  BY DEF Init, EmptyRow
<1>2. NoTransfer.status = "none" /\ NoTransfer.lines = {} /\ Idle.pc = "idle"
  BY DEF NoTransfer, Idle
<1>3. WorkInv
  BY <1>1, <1>2 DEF WorkInv, HoldsItsWork, TransferWork, LinesDistinct
<1>4. KeyPostsOnce
  BY <1>1 DEF KeyPostsOnce
<1>5. \A x, type : TransferMovements(x, type) = {}
  BY <1>1 DEF TransferMovements
<1>6. TransferMovesEachLineOnce
  BY <1>1, <1>2, <1>5 DEF TransferMovesEachLineOnce
<1>7. QED
  BY <1>3, <1>4, <1>6, StockInit DEF PostingInv

\* PostingInv is an inductive invariant of the specification.
THEOREM PostingInvariant == Spec => []PostingInv
BY PostingInit, PostingStep, PTL DEF Spec

\* A stored idempotency key names at most one movement, in every interleaving of
\* look-ups, postings and commits (_post_movement, the unique index).
THEOREM KeysPostOnce == Spec => []KeyPostsOnce
<1>1. PostingInv => KeyPostsOnce
  BY DEF PostingInv
<1>2. QED
  BY <1>1, PostingInvariant, PTL

\* Each line of a transfer leaves its source once, when it ships, and reaches its
\* destination once, when it is received.
THEOREM TransfersMoveOnce == Spec => []TransferMovesEachLineOnce
<1>1. PostingInv => TransferMovesEachLineOnce
  BY DEF PostingInv
<1>2. QED
  BY <1>1, PostingInvariant, PTL

-----------------------------------------------------------------------------
(* Cached sums.  reserved_quantity changes with the status of a reservation, *)
(* but the two rows are written by one commit long after they were read: the *)
(* invariant says what a session has taken or given back in its image, and   *)
(* that the reservations it gives back are its own until it commits.         *)

\* What the reservations hold of c, each its quantity or nothing.
Held(c) == [r \in Reservation |-> IF r \in ActiveAt(c) THEN reservation[r].q ELSE 0]

\* What t has given back of c so far.
GivenBack(t, c) ==
    [r \in Reservation |->
        IF \E i \in txn[t].items \ txn[t].todo : i.r = r /\ CellOf(i) = c
        THEN reservation[r].q ELSE 0]

Added(row) == row.onHand = SumFunction(Quantities(row.ledger))

\* A session that reserves has its identifier for itself, and takes its one quantity.
ReserveWork(t) ==
    /\ txn[t].doc \in Reservation
    /\ reservation[txn[t].doc].status = "none"
    /\ \A u \in Txn : u # t => txn[u].doc # txn[t].doc
    /\ \A i, j \in txn[t].items : i = j
    /\ txn[t].pc = "commit" => t \in cellLock[CellOf(txn[t].cur)]
    /\ \A c \in Cell : t \in cellLock[c] =>
         /\ txn[t].pc = "commit"
         /\ c = CellOf(txn[t].cur)
         /\ image[t][c].reserved = cell[c].reserved + txn[t].cur.q

\* The reservation of a unit of work, as it was read and as it still is.
Returns(t, i) ==
    /\ i.r \in Reservation
    /\ i = GivesBack(i.r)
    /\ txn[t].op = "release" => i.r = txn[t].doc
    /\ txn[t].op = "sweep" \/ txn[t].pc # "document" =>
         docLock[i.r] = {t} /\ reservation[i.r].status = "ACTIVE"
ReleaseWork(t) ==
    /\ \A i \in txn[t].items : Returns(t, i)
    /\ \A i \in txn[t].items \ txn[t].todo : t \in cellLock[CellOf(i)]
    /\ \A c \in Cell : t \in cellLock[c] =>
         image[t][c].reserved = cell[c].reserved - SumFunction(GivenBack(t, c))

HoldWork(t) ==
    /\ txn[t].pc # "idle" /\ txn[t].op = "reserve" => ReserveWork(t)
    /\ txn[t].pc # "idle" /\ txn[t].op \in ReleasingOps => ReleaseWork(t)
    /\ \A c \in Cell : t \in cellLock[c] =>
         /\ Added(image[t][c])
         /\ txn[t].op \notin {"reserve"} \cup ReleasingOps =>
              image[t][c].reserved = cell[c].reserved

HoldInv ==
    /\ \A t \in Txn : HoldWork(t)
    /\ \A c \in Cell : Added(cell[c]) /\ cell[c].reserved = SumFunction(Held(c))

\* The columns are of integers, and only ACTIVE reservations count.
LEMMA HeldNumbers ==
    ASSUME TypeOK, NEW c \in Cell
    PROVE  /\ Numbers(Held(c))
           /\ SumFunction(Held(c)) = SumFunction([r \in ActiveAt(c) |-> reservation[r].q])
<1> DEFINE f == [r \in ActiveAt(c) |-> reservation[r].q]
<1>1. \A r \in Reservation : reservation[r].q \in Int
  BY DEF TypeOK, ReservationRow
<1>2. /\ DOMAIN Held(c) = Reservation /\ DOMAIN f = ActiveAt(c) /\ ActiveAt(c) \subseteq Reservation
      /\ \A r \in Reservation : Held(c)[r] = IF r \in ActiveAt(c) THEN reservation[r].q ELSE 0
      /\ \A r \in ActiveAt(c) : f[r] = reservation[r].q
  BY DEF Held, ActiveAt
<1> HIDE DEF f
<1>3. Numbers(Held(c)) /\ Numbers(f)
  BY <1>1, <1>2, ReservationAssumption, FS_Subset DEF Numbers
<1>4. SumFunction(Held(c)) = SumFunction(f)
  <2>1. /\ DOMAIN f \subseteq DOMAIN Held(c) /\ \A r \in DOMAIN f : Held(c)[r] = f[r]
        /\ \A r \in DOMAIN Held(c) \ DOMAIN f : Held(c)[r] = 0
    BY <1>2
  <2>2. QED
    BY <1>3, <2>1, SumNonZero
<1>5. QED
  BY <1>3, <1>4 DEF f

LEMMA GivenBackNumbers ==
    ASSUME TypeOK, NEW t \in Txn, NEW c \in Cell
    PROVE  Numbers(GivenBack(t, c)) /\ SumFunction(GivenBack(t, c)) \in Int
<1>1. \A r \in Reservation : reservation[r].q \in Int
  BY DEF TypeOK, ReservationRow
<1>2. /\ DOMAIN GivenBack(t, c) = Reservation
      /\ \A r \in Reservation : GivenBack(t, c)[r] = reservation[r].q \/ GivenBack(t, c)[r] = 0
  BY DEF GivenBack
<1>3. Numbers(GivenBack(t, c))
  BY <1>1, <1>2, ReservationAssumption DEF Numbers
<1>4. QED
  BY <1>3, NumbersSum

\* A movement more adds its quantity to both sides.
LEMMA AddedMore ==
    ASSUME NEW row \in BalanceRow, Added(row), NEW mv \in Movement, NEW res
    PROVE  Added([onHand |-> row.onHand + mv.q, reserved |-> res, ledger |-> Append(row.ledger, mv)])
<1> DEFINE L == row.ledger
           M == Append(row.ledger, mv)
           k == Len(row.ledger) + 1
<1>1. L \in Seq(Movement) /\ row.onHand \in Int /\ mv.q \in Int
  BY DEF BalanceRow, Movement
<1>2. /\ DOMAIN M = DOMAIN L \cup {k} /\ k \notin DOMAIN L /\ M[k] = mv
      /\ \A n \in DOMAIN L : M[n] = L[n]
  BY <1>1, Appended
<1>3. IsFiniteSet(DOMAIN L) /\ \A n \in DOMAIN L : L[n] \in Movement
  BY <1>1, RowsFinite
<1> HIDE DEF L, M, k
<1>4. Numbers(Quantities(L))
  BY <1>3 DEF Numbers, Quantities, Movement
<1>5. /\ DOMAIN Quantities(M) = DOMAIN Quantities(L) \cup {k} /\ k \notin DOMAIN Quantities(L)
      /\ Quantities(M)[k] = mv.q
      /\ \A n \in DOMAIN Quantities(L) : Quantities(M)[n] = Quantities(L)[n]
  BY <1>2 DEF Quantities
<1>6. SumFunction(Quantities(M)) = SumFunction(Quantities(L)) + mv.q
  BY <1>1, <1>4, <1>5, SumOneMore
<1>7. row.onHand = SumFunction(Quantities(L))
  BY DEF Added, L
<1>8. QED
  BY <1>6, <1>7 DEF Added, M

\* A session keeps what it relies on when another one takes a step that leaves its
\* request, its image and its locks alone, and the reservations it holds.
LEMMA OthersKeepHold ==
    ASSUME TypeOK, WellFormed, NEW t \in Txn, NEW u \in Txn, u # t, HoldWork(u),
           \A v \in Txn : v # t => txn'[v] = txn[v],
           image'[u] = image[u],
           \A c \in Cell : u \in cellLock'[c] <=> u \in cellLock[c],
           \A c \in Cell : u \in cellLock[c] => cell'[c] = cell[c],
           \A r \in Reservation : reservation[r].status # "none" =>
              /\ reservation'[r].w = reservation[r].w
              /\ reservation'[r].p = reservation[r].p
              /\ reservation'[r].q = reservation[r].q,
           \A r \in Reservation : docLock[r] = {u} /\ reservation[r].status = "ACTIVE" =>
              docLock'[r] = {u} /\ reservation'[r].status = "ACTIVE",
           \A r \in Reservation : txn[u].pc # "idle" /\ txn[u].op = "reserve" /\ txn[u].doc = r =>
              reservation'[r].status = reservation[r].status /\ txn'[t].doc # r
    PROVE  HoldWork(u)'
<1>1. txn'[u] = txn[u]
  OBVIOUS
<1>2. txn[u].items \subseteq Item /\ txn[u] \in Request
  BY DEF TypeOK, Request
<1>3. ASSUME txn[u].pc # "idle", txn[u].op = "reserve"
      PROVE  ReserveWork(u)'
  <2>1. ReserveWork(u)
    BY <1>3 DEF HoldWork
  <2>2. txn[u].cur \in Item
    BY <1>2, <1>3 DEF WellFormed, RequestWellFormed
  <2>3. CellOf(txn[u].cur) \in Cell
    BY <2>2 DEF Item, CellOf, Cell
  <2>4. \A c \in Cell : u \in cellLock'[c] =>
          /\ txn[u].pc = "commit" /\ c = CellOf(txn[u].cur)
          /\ image'[u][c].reserved = cell'[c].reserved + txn[u].cur.q
    BY <2>1 DEF ReserveWork
  <2>5. txn[u].pc = "commit" => u \in cellLock'[CellOf(txn[u].cur)]
    BY <2>1, <2>3 DEF ReserveWork
  <2>6. /\ reservation'[txn[u].doc].status = "none" /\ txn[u].doc \in Reservation
        /\ \A v \in Txn : v # u => txn'[v].doc # txn[u].doc
        /\ \A i, j \in txn[u].items : i = j
    BY <1>3, <2>1 DEF ReserveWork
  <2>7. QED
    BY <1>1, <2>4, <2>5, <2>6 DEF ReserveWork
<1>4. ASSUME txn[u].pc # "idle", txn[u].op \in ReleasingOps
      PROVE  ReleaseWork(u)'
  <2>1. ReleaseWork(u) /\ \A i \in txn[u].items : i.r \in Reservation /\ reservation[i.r].status # "none"
    BY <1>4 DEF HoldWork, WellFormed, TargetsExist
  <2>2. ASSUME NEW i \in txn[u].items
        PROVE  Returns(u, i)'
    <3>1. PICK r \in Reservation : r = i.r
      BY <2>1
    <3>2. Returns(u, i)
      BY <2>1 DEF ReleaseWork
    <3>3. GivesBack(r)' = GivesBack(r)
      BY <2>1, <3>1 DEF GivesBack
    <3>4. QED
      BY <1>1, <3>1, <3>2, <3>3 DEF Returns
  <2>3. ASSUME NEW i \in txn[u].items \ txn[u].todo
        PROVE  u \in cellLock'[CellOf(i)]
    <3>1. CellOf(i) \in Cell
      BY <1>2 DEF Item, CellOf, Cell
    <3>2. QED
      BY <2>1, <3>1 DEF ReleaseWork
  <2>4. ASSUME NEW c \in Cell, u \in cellLock'[c]
        PROVE  image'[u][c].reserved = cell'[c].reserved - SumFunction(GivenBack(u, c)')
    <3>1. ASSUME NEW r \in Reservation
          PROVE  (IF \E i \in txn[u].items \ txn[u].todo : i.r = r /\ CellOf(i) = c
                  THEN reservation'[r].q ELSE 0) =
                 (IF \E i \in txn[u].items \ txn[u].todo : i.r = r /\ CellOf(i) = c
                  THEN reservation[r].q ELSE 0)
      BY <2>1
    <3>2. GivenBack(u, c)' = GivenBack(u, c)
      BY <1>1, <3>1 DEF GivenBack
    <3>3. image[u][c].reserved = cell[c].reserved - SumFunction(GivenBack(u, c))
      BY <2>1, <2>4 DEF ReleaseWork
    <3>4. QED
      BY <2>4, <3>2, <3>3
  <2>5. QED
    BY <1>1, <2>2, <2>3, <2>4 DEF ReleaseWork
<1>5. QED
  <2>1. ASSUME NEW c \in Cell, u \in cellLock'[c]
        PROVE  /\ Added(image[u][c])
               /\ txn[u].op \notin {"reserve"} \cup ReleasingOps =>
                    image[u][c].reserved = cell'[c].reserved
    BY <2>1 DEF HoldWork
  <2>2. QED
    BY <1>1, <1>3, <1>4, <2>1 DEF HoldWork

\* Ending a transaction, for every session.
LEMMA EndHold ==
    ASSUME StockInv, NEW t \in Txn, EndTransaction(t), \A v \in Txn : HoldWork(v),
           \A c \in Cell : cell'[c] = cell[c] \/ t \in cellLock[c],
           \A r \in Reservation : reservation[r].status # "none" =>
              /\ reservation'[r].w = reservation[r].w
              /\ reservation'[r].p = reservation[r].p
              /\ reservation'[r].q = reservation[r].q
              /\ reservation'[r].status = reservation[r].status \/ docLock[r] = {t},
           \A r \in Reservation : r # txn[t].doc /\ reservation[r].status = "none" =>
              reservation'[r].status = reservation[r].status
    PROVE  \A v \in Txn : HoldWork(v)'
<1>1. TypeOK /\ WellFormed
  BY DEF StockInv
<1>2. txn'[t] = Idle /\ (\A v \in Txn : v # t => txn'[v] = txn[v] /\ image'[v] = image[v])
  BY <1>1 DEF TypeOK, EndTransaction
<1>3. /\ \A c \in Cell : cellLock'[c] = cellLock[c] \ {t}
      /\ \A r \in Reservation : docLock'[r] = docLock[r] \ {t}
  BY <1>1 DEF TypeOK, EndTransaction, Unlocked, Doc
<1>4. Idle.pc = "idle" /\ Idle.doc = NoDoc
  BY DEF Idle
<1>5. HoldWork(t)'
  BY <1>2, <1>3, <1>4 DEF HoldWork
<1>6. ASSUME NEW u \in Txn, u # t
      PROVE  HoldWork(u)'
  <2>1. \A c \in Cell : u \in cellLock'[c] <=> u \in cellLock[c]
    BY <1>3, <1>6
  <2>2. ASSUME NEW c \in Cell, u \in cellLock[c]
        PROVE  cell'[c] = cell[c]
    BY <1>6, <2>2 DEF StockInv, HeldRowsAreCurrent
  <2>3. ASSUME NEW r \in Reservation, docLock[r] = {u}, reservation[r].status = "ACTIVE"
        PROVE  docLock'[r] = {u} /\ reservation'[r].status = "ACTIVE"
    BY <1>3, <1>6, <2>3
  <2>4. ASSUME NEW r \in Reservation, txn[u].pc # "idle", txn[u].op = "reserve", txn[u].doc = r
        PROVE  reservation'[r].status = reservation[r].status /\ txn'[t].doc # r
    <3>1. txn[t].doc # r /\ reservation[r].status = "none"
      BY <1>6, <2>4 DEF HoldWork, ReserveWork
    <3>2. QED
      BY <3>1, <1>2, <1>4, NoDocAssumption
  <2>5. QED
    BY <1>1, <1>2, <1>6, <2>1, <2>2, <2>3, <2>4, OthersKeepHold
<1>7. QED
  BY <1>5, <1>6

\* A step that only advances the request of t, and perhaps locks a document for it.
LEMMA StepHold ==
    ASSUME TypeOK, WellFormed, NEW t \in Txn, \A v \in Txn : HoldWork(v), HoldWork(t)',
           UNCHANGED <<cell, reservation>>,
           \A v \in Txn : v # t => txn'[v] = txn[v] /\ image'[v] = image[v],
           \A c \in Cell, v \in Txn : v # t => (v \in cellLock'[c] <=> v \in cellLock[c]),
           \A r \in Reservation, v \in Txn : v # t /\ docLock[r] = {v} => docLock'[r] = {v},
           txn'[t].doc = txn[t].doc
             \/ \A r \in Reservation : Fresh(r) \/ reservation[r].status # "none" \/ txn'[t].doc # r
    PROVE  \A v \in Txn : HoldWork(v)'
<1>1. ASSUME NEW u \in Txn, u # t
      PROVE  HoldWork(u)'
  <2>1. ASSUME NEW r \in Reservation, txn[u].pc # "idle", txn[u].op = "reserve", txn[u].doc = r
        PROVE  reservation'[r].status = reservation[r].status /\ txn'[t].doc # r
    <3>1. txn[t].doc # r /\ reservation[r].status = "none" /\ ~Fresh(r)
      BY <1>1, <2>1 DEF HoldWork, ReserveWork, Fresh
    <3>2. QED
      BY <3>1
  <2>2. /\ \A v \in Txn : v # t => txn'[v] = txn[v]
        /\ image'[u] = image[u]
        /\ \A c \in Cell : u \in cellLock'[c] <=> u \in cellLock[c]
        /\ \A c \in Cell : u \in cellLock[c] => cell'[c] = cell[c]
        /\ \A r \in Reservation : reservation[r].status # "none" =>
              /\ reservation'[r].w = reservation[r].w
              /\ reservation'[r].p = reservation[r].p
              /\ reservation'[r].q = reservation[r].q
        /\ \A r \in Reservation : docLock[r] = {u} /\ reservation[r].status = "ACTIVE" =>
              docLock'[r] = {u} /\ reservation'[r].status = "ACTIVE"
    BY <1>1
  <2>3. QED
    BY <1>1, <2>1, <2>2, OthersKeepHold
<1>2. QED
  BY <1>1

\* A session that reserves or gives back has begun, and has done nothing yet.
LEMMA StartHold ==
    ASSUME StockInv, WorkInv, NEW t \in Txn, Start(t), \A v \in Txn : HoldWork(v)
    PROVE  \A v \in Txn : HoldWork(v)'
<1>1. /\ TypeOK /\ WellFormed /\ txn \in [Txn -> Request] /\ docLock \in [Doc -> SUBSET Txn]
      /\ UNCHANGED <<cell, reservation, cellLock, image>>
  BY DEF StockInv, TypeOK, Start, Receipt, Issue, Adjust, Reserve, Release, CreateTransfer,
         TransitionTransfer, Document, ReleaseExpired, locks, committed
<1> DEFINE New(op, doc, items, stage) ==
             \E key, unit, dst : Started(t, op, key, unit, doc, dst, items, stage)
<1>2. \/ \E op \in Op \ ({"reserve"} \cup ReleasingOps), doc \in Transfer \cup {NoDoc} :
           \E items, stage : New(op, doc, items, stage) /\ UNCHANGED docLock
      \/ \E w \in Warehouse, p \in Product, q \in Quantity, r \in Reservation :
           /\ New("reserve", r, OneItem(w, p, q), "product") /\ UNCHANGED docLock
           /\ reservation[r].status = "none" /\ Fresh(r)
      \/ \E r \in Reservation :
           /\ New("release", r, {GivesBack(r)}, "document") /\ UNCHANGED docLock
           /\ reservation[r].status # "none"
      \/ \E S \in SUBSET Sweepable :
           /\ New("sweep", NoDoc, {GivesBack(r) : r \in S}, "balance")
           /\ docLock' = [d \in Doc |-> IF d \in S THEN {t} ELSE docLock[d]]
  <2>0. {"receipt", "issue", "adjust", "create", "ship", "receive"} \cup CallerOps
          \subseteq Op \ ({"reserve"} \cup ReleasingOps)
    BY DEF Op, LockingOps, DocumentOps, ReleasingOps, CallerOps
  <2> HIDE DEF New
  <2>1. /\ Receipt(t) => \E items, stage : New("receipt", NoDoc, items, stage) /\ UNCHANGED docLock
        /\ Issue(t) => \E items, stage : New("issue", NoDoc, items, stage) /\ UNCHANGED docLock
        /\ Adjust(t) => \E items, stage : New("adjust", NoDoc, items, stage) /\ UNCHANGED docLock
    BY Zenon DEF Receipt, Issue, Adjust, New, locks
  <2>2. CreateTransfer(t) =>
          \E x \in Transfer : \E items, stage : New("create", x, items, stage) /\ UNCHANGED docLock
    BY Zenon DEF CreateTransfer, New, locks
  <2>3. /\ TransitionTransfer(t, "ship") =>
             \E x \in Transfer : \E items, stage : New("ship", x, items, stage) /\ UNCHANGED docLock
        /\ TransitionTransfer(t, "receive") =>
             \E x \in Transfer : \E items, stage : New("receive", x, items, stage) /\ UNCHANGED docLock
    BY Zenon DEF TransitionTransfer, New, locks
  <2>4. \A op \in CallerOps : Document(t, op) =>
             \E items, stage : New(op, NoDoc, items, stage) /\ UNCHANGED docLock
    BY Zenon DEF Document, New, locks
  <2>5. Reserve(t) => \E w \in Warehouse, p \in Product, q \in Quantity, r \in Reservation :
           /\ New("reserve", r, OneItem(w, p, q), "product") /\ UNCHANGED docLock
           /\ reservation[r].status = "none" /\ Fresh(r)
    BY Zenon DEF Reserve, New, locks
  <2>6. Release(t) => \E r \in Reservation :
           /\ New("release", r, {GivesBack(r)}, "document") /\ UNCHANGED docLock
           /\ reservation[r].status # "none"
    BY Zenon DEF Release, New, locks
  <2>7. ReleaseExpired(t) => \E S \in SUBSET Sweepable :
           /\ New("sweep", NoDoc, {GivesBack(r) : r \in S}, "balance")
           /\ docLock' = [d \in Doc |-> IF d \in S THEN {t} ELSE docLock[d]]
    BY Zenon DEF ReleaseExpired, New
  <2>8. CASE \/ Receipt(t) \/ Issue(t) \/ Adjust(t) \/ CreateTransfer(t)
             \/ TransitionTransfer(t, "ship") \/ TransitionTransfer(t, "receive")
             \/ \E op \in CallerOps : Document(t, op)
    BY <2>0, <2>1, <2>2, <2>3, <2>4, <2>8
  <2>9. QED
    BY <2>5, <2>6, <2>7, <2>8 DEF Start
<1>3. ASSUME NEW op, NEW doc, NEW items, NEW stage, New(op, doc, items, stage)
      PROVE  /\ txn'[t].pc = stage /\ txn'[t].op = op /\ txn'[t].doc = doc /\ txn'[t].items = items
             /\ txn'[t].todo = items /\ txn[t].pc = "idle"
             /\ \A v \in Txn : v # t => txn'[v] = txn[v]
  BY <1>1, <1>3 DEF Started
<1> HIDE DEF New
<1>4. \A c \in Cell : t \notin cellLock'[c] /\ t \notin cellLock[c]
  <2>1. txn[t].pc = "idle"
    BY <1>2, <1>3
  <2>2. QED
    BY <1>1, <2>1 DEF WorkInv, HoldsItsWork
<1>5. /\ UNCHANGED <<cell, reservation>> /\ TypeOK /\ WellFormed
      /\ \A c \in Cell, v \in Txn : v # t => (v \in cellLock'[c] <=> v \in cellLock[c])
      /\ \A v \in Txn : v # t => txn'[v] = txn[v] /\ image'[v] = image[v]
  BY <1>1, <1>2, <1>3
<1>6. ASSUME NEW op \in Op \ ({"reserve"} \cup ReleasingOps), NEW doc \in Transfer \cup {NoDoc},
             NEW items, NEW stage, New(op, doc, items, stage), UNCHANGED docLock
      PROVE  \A v \in Txn : HoldWork(v)'
  <2>1. HoldWork(t)'
    BY <1>3, <1>4, <1>6 DEF HoldWork
  <2>2. \A r \in Reservation : txn'[t].doc # r
    BY <1>3, <1>6, NoDocAssumption, DocAssumption
  <2>3. QED
    BY <1>5, <1>6, <2>1, <2>2, StepHold
<1>7. ASSUME NEW w \in Warehouse, NEW p \in Product, NEW q \in Quantity, NEW r \in Reservation,
             New("reserve", r, OneItem(w, p, q), "product"), UNCHANGED docLock,
             reservation[r].status = "none", Fresh(r)
      PROVE  \A v \in Txn : HoldWork(v)'
  <2>1. ReserveWork(t)'
    <3>1. /\ txn'[t].doc = r /\ reservation'[r].status = "none" /\ txn'[t].pc = "product"
          /\ \A u \in Txn : u # t => txn'[u].doc # r
      BY <1>1, <1>3, <1>7 DEF Fresh
    <3>2. \A i, j \in txn'[t].items : i = j
      BY <1>3, <1>7 DEF OneItem
    <3>3. QED
      BY <1>4, <3>1, <3>2 DEF ReserveWork
  <2>2. HoldWork(t)'
    BY <1>3, <1>4, <1>7, <2>1 DEF HoldWork, ReleasingOps
  <2>3. \A s \in Reservation : Fresh(s) \/ txn'[t].doc # s
    BY <1>3, <1>7
  <2>4. QED
    BY <1>5, <1>7, <2>2, <2>3, StepHold
<1>8. ASSUME NEW r \in Reservation, New("release", r, {GivesBack(r)}, "document"),
             UNCHANGED docLock, reservation[r].status # "none"
      PROVE  \A v \in Txn : HoldWork(v)'
  <2>1. ASSUME NEW i \in txn'[t].items
        PROVE  Returns(t, i)'
    <3>1. i = GivesBack(r) /\ i.r = r /\ GivesBack(r)' = GivesBack(r)
      BY <1>1, <1>3, <1>8, <2>1 DEF GivesBack
    <3>2. QED
      BY <1>3, <1>8, <3>1 DEF Returns
  <2>2. ReleaseWork(t)'
    BY <1>3, <1>4, <1>8, <2>1 DEF ReleaseWork
  <2>3. HoldWork(t)'
    BY <1>3, <1>4, <1>8, <2>2 DEF HoldWork
  <2>4. \A s \in Reservation : reservation[s].status # "none" \/ txn'[t].doc # s
    BY <1>3, <1>8
  <2>5. QED
    BY <1>5, <1>8, <2>3, <2>4, StepHold
<1>9. ASSUME NEW S \in SUBSET Sweepable, New("sweep", NoDoc, {GivesBack(r) : r \in S}, "balance"),
             docLock' = [d \in Doc |-> IF d \in S THEN {t} ELSE docLock[d]]
      PROVE  \A v \in Txn : HoldWork(v)'
  <2>0. /\ S \subseteq Reservation /\ \A r \in S : reservation[r].status = "ACTIVE" /\ docLock[r] = {}
    BY DEF Sweepable
  <2>1. ASSUME NEW i \in txn'[t].items
        PROVE  Returns(t, i)'
    <3>1. PICK r \in S : i = GivesBack(r)
      BY <1>3, <1>9
    <3>2. i.r = r /\ GivesBack(r)' = GivesBack(r)
      BY <1>1, <3>1 DEF GivesBack
    <3>3. docLock'[r] = {t} /\ reservation'[r].status = "ACTIVE"
      BY <1>1, <1>9, <2>0 DEF Doc
    <3>4. QED
      BY <1>3, <1>9, <2>0, <3>1, <3>2, <3>3 DEF Returns
  <2>2. ReleaseWork(t)'
    BY <1>3, <1>4, <1>9, <2>1 DEF ReleaseWork
  <2>3. HoldWork(t)'
    BY <1>3, <1>4, <1>9, <2>2 DEF HoldWork
  <2>4. \A s \in Reservation : txn'[t].doc # s
    BY <1>3, <1>9, NoDocAssumption
  <2>5. \A r \in Reservation, v \in Txn : v # t /\ docLock[r] = {v} => docLock'[r] = {v}
    BY <1>9, <2>0 DEF Doc
  <2>6. QED
    BY <1>5, <2>3, <2>4, <2>5, StepHold
<1>10. QED
  BY <1>2, <1>6, <1>7, <1>8, <1>9

\* Locking a document or a product, or reading one.
LEMMA LockHold ==
    ASSUME StockInv, WorkInv, NEW t \in Txn, LockDocument(t) \/ LockProduct(t) \/ LoadProduct(t),
           \A v \in Txn : HoldWork(v)
    PROVE  \A v \in Txn : HoldWork(v)'
<1>1. /\ TypeOK /\ WellFormed /\ txn \in [Txn -> Request] /\ docLock \in [Doc -> SUBSET Txn]
      /\ UNCHANGED <<cell, reservation, cellLock, image>> /\ txn[t].pc \in {"document", "product"}
  BY DEF StockInv, TypeOK, LockDocument, LockProduct, LoadProduct, MayLockDocument,
         MayLockProduct, locks, committed
<1>2. RequestWellFormed(txn[t]) /\ WorkShape(txn[t]) /\ HoldWork(t)
  BY <1>1 DEF WellFormed, WorkInv
<1>3. CASE LockDocument(t)
  <2>1. /\ docLock' = [docLock EXCEPT ![txn[t].doc] = @ \cup {t}] /\ docLock[txn[t].doc] \subseteq {t}
        /\ txn' = [txn EXCEPT ![t].pc = FirstStage(txn[t].op)] /\ txn[t].pc = "document"
        /\ DocStatus(t) = ExpectedStatus(txn[t].op)
    BY <1>3 DEF LockDocument, MayLockDocument, Free, Locked
  <2>2. /\ txn'[t].op = txn[t].op /\ txn'[t].doc = txn[t].doc /\ txn'[t].items = txn[t].items
        /\ txn'[t].todo = txn[t].todo /\ txn'[t].cur = txn[t].cur
        /\ txn'[t].pc = FirstStage(txn[t].op) /\ FirstStage(txn[t].op) \in {"product", "balance"}
        /\ \A v \in Txn : v # t => txn'[v] = txn[v]
    BY <1>1, <2>1 DEF Request, FirstStage
  <2>3. ASSUME txn[t].op = "reserve"
        PROVE  ReserveWork(t)'
    <3>1. ReserveWork(t)
      BY <1>2, <2>1, <2>3 DEF HoldWork
    <3>2. \A c \in Cell : t \notin cellLock[c]
      BY <2>1, <3>1 DEF ReserveWork
    <3>3. QED
      BY <1>1, <2>2, <3>1, <3>2 DEF ReserveWork
  <2>4. ASSUME txn[t].op \in ReleasingOps
        PROVE  ReleaseWork(t)'
    <3>1. ReleaseWork(t)
      BY <1>2, <2>1, <2>4 DEF HoldWork
    <3>2. txn[t].op = "release" \/ txn[t].op = "sweep"
      BY <2>4 DEF ReleasingOps
    <3>3. ASSUME NEW i \in txn[t].items
          PROVE  Returns(t, i)'
      <4>1. PICK r \in Reservation : r = i.r
        BY <3>1 DEF ReleaseWork, Returns
      <4>2. Returns(t, i) /\ GivesBack(r)' = GivesBack(r)
        BY <1>1, <3>1 DEF ReleaseWork, GivesBack
      <4>3. CASE txn[t].op = "release"
        <5>1. r = txn[t].doc /\ reservation[r].status = "ACTIVE"
          BY <2>1, <4>1, <4>2, <4>3 DEF Returns, DocStatus, ExpectedStatus
        <5>2. docLock'[r] = {t}
          BY <1>1, <2>1, <5>1 DEF Doc
        <5>3. QED
          BY <1>1, <2>2, <4>1, <4>2, <5>1, <5>2 DEF Returns
      <4>4. CASE txn[t].op = "sweep"
        <5>1. docLock[r] = {t} /\ reservation[r].status = "ACTIVE"
          BY <4>1, <4>2, <4>4 DEF Returns
        <5>2. docLock'[r] = {t}
          BY <1>1, <2>1, <5>1 DEF Doc
        <5>3. QED
          BY <1>1, <2>2, <4>1, <4>2, <4>4, <5>1, <5>2 DEF Returns
      <4>5. QED
        BY <3>2, <4>3, <4>4
    <3>4. \A c \in Cell : GivenBack(t, c)' = GivenBack(t, c)
      BY <1>1, <2>2 DEF GivenBack
    <3>5. QED
      BY <1>1, <2>2, <3>1, <3>3, <3>4 DEF ReleaseWork
  <2>5. HoldWork(t)'
    <3>1. \A c \in Cell : t \in cellLock'[c] =>
            /\ Added(image'[t][c])
            /\ txn'[t].op \notin {"reserve"} \cup ReleasingOps =>
                 image'[t][c].reserved = cell'[c].reserved
      BY <1>1, <1>2, <2>2 DEF HoldWork
    <3>2. QED
      BY <2>2, <2>3, <2>4, <3>1 DEF HoldWork
  <2>6. \A r \in Reservation, v \in Txn : v # t /\ docLock[r] = {v} => docLock'[r] = {v}
    BY <1>1, <2>1 DEF Doc
  <2>7. QED
    BY <1>1, <2>2, <2>5, <2>6, StepHold
<1>4. CASE LockProduct(t) \/ LoadProduct(t)
  <2>1. txn[t].pc = "product" /\ txn[t].op \in LockingOps \cup DocumentOps /\ UNCHANGED docLock
    BY <1>4 DEF LockProduct, LoadProduct, MayLockProduct, locks
  <2>2. txn[t].op \notin ReleasingOps
    BY <2>1 DEF LockingOps, DocumentOps, ReleasingOps
  <2>3. Advance(t) => txn[t].op # "reserve"  \/ ~ReplayedKey(t)
    BY DEF ReplayedKey, PostingOps, LockingOps, DocumentOps
  <2>4. /\ txn'[t].op = txn[t].op /\ txn'[t].doc = txn[t].doc /\ txn'[t].items = txn[t].items
        /\ \A v \in Txn : v # t => txn'[v] = txn[v]
        /\ txn[t].op = "reserve" => txn'[t].pc = "balance" /\ txn'[t].cur = txn[t].cur
    <3>1. CASE txn' = [txn EXCEPT ![t].pc = "balance"]
      BY <3>1, <1>1 DEF Request
    <3>2. CASE Advance(t) /\ txn[t].op # "reserve"
      BY <3>2, <1>1, <1>2, AdvancedRequest
    <3>3. QED
      BY <1>4, <2>3, <3>1, <3>2 DEF LockProduct, LoadProduct
  <2>5. ASSUME txn[t].op = "reserve"
        PROVE  ReserveWork(t)'
    <3>1. ReserveWork(t)
      BY <1>2, <2>1, <2>5 DEF HoldWork
    <3>2. \A c \in Cell : t \notin cellLock[c]
      BY <2>1, <3>1 DEF ReserveWork
    <3>3. QED
      BY <1>1, <2>4, <2>5, <3>1, <3>2 DEF ReserveWork
  <2>6. HoldWork(t)'
    <3>1. \A c \in Cell : t \in cellLock'[c] =>
            /\ Added(image'[t][c])
            /\ txn'[t].op \notin {"reserve"} \cup ReleasingOps =>
                 image'[t][c].reserved = cell'[c].reserved
      BY <1>1, <1>2, <2>4 DEF HoldWork
    <3>2. QED
      BY <2>2, <2>4, <2>5, <3>1 DEF HoldWork
  <2>7. QED
    BY <1>1, <2>1, <2>4, <2>6, StepHold
<1>5. QED
  BY <1>3, <1>4

\* What t has given back of c once it is done with the unit of work i.
LEMMA OneMoreBack ==
    ASSUME TypeOK, NEW t \in Txn, NEW i \in txn[t].todo, txn[t].todo \subseteq txn[t].items,
           txn[t].items \subseteq Item,
           \A j \in txn[t].items : j.r \in Reservation /\ j = GivesBack(j.r),
           UNCHANGED reservation, txn'[t].items = txn[t].items, txn'[t].todo = txn[t].todo \ {i},
           NEW c \in Cell
    PROVE  SumFunction(GivenBack(t, c)') =
             SumFunction(GivenBack(t, c)) + (IF CellOf(i) = c THEN i.q ELSE 0)
<1> DEFINE f == GivenBack(t, c)
           g == GivenBack(t, c)'
           Done(r) == \E j \in txn[t].items \ txn[t].todo : j.r = r /\ CellOf(j) = c
           Next1(r) == \E j \in txn[t].items \ (txn[t].todo \ {i}) : j.r = r /\ CellOf(j) = c
<1>1. /\ DOMAIN f = Reservation /\ DOMAIN g = Reservation
      /\ \A r \in Reservation : f[r] = IF Done(r) THEN reservation[r].q ELSE 0
      /\ \A r \in Reservation : g[r] = IF Next1(r) THEN reservation[r].q ELSE 0
  BY DEF GivenBack
<1>2. PICK s \in Reservation : s = i.r /\ i = GivesBack(s)
  OBVIOUS
<1>3. /\ \A r \in Reservation \ {s} : Next1(r) <=> Done(r)
      /\ Next1(s) <=> CellOf(i) = c
      /\ ~Done(s) /\ reservation[s].q = i.q /\ i.q \in Int
  <2>1. \A j \in txn[t].items : j.r = s => j = i
    BY <1>2
  <2>2. reservation[s].q = i.q /\ i.q \in Int
    BY <1>2 DEF GivesBack, Item
  <2>3. QED
    BY <1>2, <2>1, <2>2
<1> HIDE DEF Done, Next1
<1>4. Numbers(f)
  BY GivenBackNumbers
<1> HIDE DEF f, g
<1>5. /\ \A r \in Reservation \ {s} : g[r] = f[r]
      /\ f[s] = 0 /\ g[s] = IF CellOf(i) = c THEN i.q ELSE 0
  BY <1>1, <1>2, <1>3
<1>6. SumFunction(g) = SumFunction(f) - f[s] + g[s]
  BY <1>1, <1>3, <1>4, <1>5, SumExcept DEF Numbers
<1>7. SumFunction(f) \in Int
  BY <1>4, NumbersSum
<1>8. SumFunction(g) = SumFunction(f) + (IF CellOf(i) = c THEN i.q ELSE 0)
  BY <1>3, <1>5, <1>6, <1>7
<1>9. QED
  BY <1>8 DEF f, g

\* Posting, reserving and giving back.
LEMMA BalanceHold ==
    ASSUME StockInv, WorkInv, HoldInv, NEW t \in Txn,
           PostMovement(t) \/ ReserveStock(t) \/ ReleaseStock(t)
    PROVE  \A v \in Txn : HoldWork(v)'
<1>1. /\ TypeOK /\ WellFormed /\ txn \in [Txn -> Request] /\ cellLock \in [Cell -> SUBSET Txn]
      /\ image \in [Txn -> [Cell -> BalanceRow]] /\ cell \in [Cell -> BalanceRow]
      /\ UNCHANGED <<cell, reservation, docLock>> /\ txn[t].pc = "balance" /\ Advance(t)
      /\ cellLock' = Locked(cellLock, CellOf(txn[t].cur), t)
  BY DEF StockInv, TypeOK, PostMovement, ReserveStock, ReleaseStock, MayLockBalance, committed
<1>2. /\ RequestWellFormed(txn[t]) /\ WorkShape(txn[t]) /\ HoldWork(t)
      /\ \A c \in Cell : Added(cell[c])
  BY <1>1 DEF WellFormed, WorkInv, HoldInv
<1>3. PICK i \in Item : i = txn[t].cur
  BY <1>1, <1>2 DEF RequestWellFormed, Request
<1>4. PICK e \in Cell : e = CellOf(i)
  BY <1>3 DEF Item, CellOf, Cell
<1>5. /\ \A c \in Cell : t \in cellLock'[c] <=> t \in cellLock[c] \/ c = e
      /\ \A c \in Cell, v \in Txn : v # t => (v \in cellLock'[c] <=> v \in cellLock[c])
  BY <1>1, <1>3, <1>4 DEF Locked
<1>6. /\ txn'[t].op = txn[t].op /\ txn'[t].doc = txn[t].doc /\ txn'[t].items = txn[t].items
      /\ txn'[t].todo = txn[t].todo \ {i} /\ txn'[t].pc \in {"product", "balance", "commit"}
      /\ \A v \in Txn : v # t => txn'[v] = txn[v]
  BY <1>1, <1>2, <1>3, AdvancedRequest
<1>7. PICK row \in BalanceRow : row = RowSeen(t, e) /\ Added(row)
  BY <1>1, <1>2 DEF RowSeen, HoldWork
<1>8. PICK new :
        /\ image'[t][e] = new /\ Added(new)
        /\ \A d \in Cell : d # e => image'[t][d] = image[t][d]
        /\ \A v \in Txn : v # t => image'[v] = image[v]
        /\ txn[t].op \notin {"reserve"} \cup ReleasingOps => new.reserved = row.reserved
        /\ txn[t].op = "reserve" => new.reserved = row.reserved + i.q
        /\ txn[t].op \in ReleasingOps => new.reserved = row.reserved - i.q
  <2>1. CASE PostMovement(t)
    <3> DEFINE mv == NewMovement(t, row.onHand)
               new == [onHand |-> row.onHand + i.q, reserved |-> row.reserved,
                       ledger |-> Append(row.ledger, mv)]
    <3>1. image' = [image EXCEPT ![t] = Work(t, new)]
      BY <2>1, <1>3, <1>4, <1>7 DEF PostMovement
    <3>2. mv \in Movement /\ mv.q = i.q
      <4>1. row.onHand \in Int /\ txn[t].op \in PostingOps
        BY <2>1 DEF BalanceRow, PostMovement
      <4>2. QED
        BY <1>1, <1>3, <4>1, NewMovementOK DEF NewMovement
    <3> HIDE DEF mv
    <3>3. Added(new)
      BY <1>7, <3>2, AddedMore
    <3>4. new.reserved = row.reserved /\ txn[t].op \notin {"reserve"} \cup ReleasingOps
      BY <2>1 DEF PostMovement, PostingOps, LockingOps, DocumentOps, ReleasingOps
    <3> HIDE DEF new
    <3>5. QED
      BY <1>1, <1>3, <1>4, <3>1, <3>3, <3>4 DEF Work
  <2>2. CASE ReserveStock(t) \/ ReleaseStock(t)
    <3>1. PICK q \in Int : /\ image' = [image EXCEPT ![t] = Work(t, [row EXCEPT !.reserved = q])]
                           /\ txn[t].op = "reserve" => q = row.reserved + i.q
                           /\ txn[t].op \in ReleasingOps => q = row.reserved - i.q
                           /\ txn[t].op \in {"reserve"} \cup ReleasingOps
      <4>1. row.reserved \in Int /\ i.q \in Int
        BY DEF BalanceRow, Item
      <4>2. CASE ReserveStock(t)
        <5>1. /\ image' = [image EXCEPT ![t] = Work(t, [row EXCEPT !.reserved = row.reserved + i.q])]
              /\ txn[t].op = "reserve"
          BY <4>2, <1>3, <1>4, <1>7 DEF ReserveStock
        <5>2. PICK q \in Int : q = row.reserved + i.q
          BY <4>1
        <5>3. image' = [image EXCEPT ![t] = Work(t, [row EXCEPT !.reserved = q])]
          BY <5>1, <5>2
        <5>4. "reserve" \notin ReleasingOps
          BY DEF ReleasingOps
        <5>5. QED
          BY <5>1, <5>2, <5>3, <5>4
      <4>3. CASE ReleaseStock(t)
        <5>1. /\ image' = [image EXCEPT ![t] = Work(t, [row EXCEPT !.reserved = row.reserved - i.q])]
              /\ txn[t].op \in ReleasingOps
          BY <4>3, <1>3, <1>4, <1>7 DEF ReleaseStock
        <5>2. PICK q \in Int : q = row.reserved - i.q
          BY <4>1
        <5>3. image' = [image EXCEPT ![t] = Work(t, [row EXCEPT !.reserved = q])]
          BY <5>1, <5>2
        <5>4. "reserve" \notin ReleasingOps
          BY DEF ReleasingOps
        <5>5. QED
          BY <5>1, <5>2, <5>3, <5>4
      <4>4. QED
        BY <2>2, <4>2, <4>3
    <3> DEFINE new == [row EXCEPT !.reserved = q]
    <3>2. new.reserved = q /\ new.onHand = row.onHand /\ new.ledger = row.ledger
      BY DEF BalanceRow
    <3> HIDE DEF new
    <3>3. Added(new)
      BY <1>7, <3>2 DEF Added
    <3>4. image' = [image EXCEPT ![t] = Work(t, new)]
      BY <3>1 DEF new
    <3>5. /\ image'[t][e] = new /\ \A d \in Cell : d # e => image'[t][d] = image[t][d]
          /\ \A v \in Txn : v # t => image'[v] = image[v]
      BY <1>1, <1>3, <1>4, <3>4 DEF Work
    <3>6. QED
      BY <3>1, <3>2, <3>3, <3>5
  <2>3. QED
    BY <2>1, <2>2
<1>9. ASSUME txn[t].op = "reserve"
      PROVE  ReserveWork(t)'
  <2>1. ReserveWork(t)
    BY <1>1, <1>2, <1>9 DEF HoldWork
  <2>2. \A c \in Cell : t \notin cellLock[c]
    BY <1>1, <2>1 DEF ReserveWork
  <2>3. txn'[t].pc = "commit" /\ txn'[t].cur = i
    <3>1. txn[t].todo \ {txn[t].cur} = {}
      BY <1>1, <1>2, <2>1 DEF RequestWellFormed, ReserveWork
    <3>2. QED
      BY <1>1, <1>3, <3>1 DEF Advance, Request
  <2>4. row = cell[e]
    BY <1>7, <2>2 DEF RowSeen
  <2>5. \A c \in Cell : t \in cellLock'[c] =>
          c = e /\ image'[t][c].reserved = cell[c].reserved + i.q
    BY <1>5, <1>8, <1>9, <2>2, <2>4
  <2>6. t \in cellLock'[e] /\ CellOf(txn'[t].cur) = e
    BY <1>4, <1>5, <2>3
  <2>7. QED
    BY <1>1, <1>6, <2>1, <2>3, <2>5, <2>6 DEF ReserveWork
<1>10. ASSUME txn[t].op \in ReleasingOps
       PROVE  ReleaseWork(t)'
  <2>1. ReleaseWork(t)
    BY <1>1, <1>2, <1>10 DEF HoldWork
  <2>2. ASSUME NEW j \in txn[t].items
        PROVE  Returns(t, j)'
    <3>1. PICK r \in Reservation : r = j.r
      BY <2>1 DEF ReleaseWork, Returns
    <3>2. Returns(t, j) /\ GivesBack(r)' = GivesBack(r)
      BY <1>1, <2>1 DEF ReleaseWork, GivesBack
    <3>3. QED
      BY <1>1, <1>6, <3>1, <3>2 DEF Returns
  <2>3. ASSUME NEW j \in txn[t].items \ (txn[t].todo \ {i})
        PROVE  t \in cellLock'[CellOf(j)]
    <3>1. j \in Item
      BY <1>1 DEF Request
    <3>2. CellOf(j) \in Cell
      BY <3>1 DEF Item, CellOf, Cell
    <3>3. QED
      BY <1>4, <1>5, <2>1, <2>3, <3>2 DEF ReleaseWork
  <2>4. /\ i \in txn[t].todo /\ txn[t].todo \subseteq txn[t].items /\ txn[t].items \subseteq Item
        /\ \A j \in txn[t].items : j.r \in Reservation /\ j = GivesBack(j.r)
    BY <1>1, <1>2, <1>3, <2>1 DEF RequestWellFormed, WorkShape, ReleaseWork, Returns, Request
  <2>5. ASSUME NEW c \in Cell, t \in cellLock'[c]
        PROVE  image'[t][c].reserved = cell[c].reserved - SumFunction(GivenBack(t, c)')
    <3>1. /\ SumFunction(GivenBack(t, c)') =
               SumFunction(GivenBack(t, c)) + (IF e = c THEN i.q ELSE 0)
          /\ SumFunction(GivenBack(t, c)) \in Int
      BY <1>1, <1>4, <1>6, <2>4, OneMoreBack, GivenBackNumbers
    <3>2. i.q \in Int /\ cell[c].reserved \in Int
      BY <1>1 DEF Item, BalanceRow
    <3>3. CASE t \in cellLock[c]
      <4>1. image[t][c].reserved = cell[c].reserved - SumFunction(GivenBack(t, c))
        BY <2>1, <3>3 DEF ReleaseWork
      <4>2. CASE c = e
        <5>1. image'[t][c].reserved = image[t][c].reserved - i.q
          BY <1>7, <1>8, <1>10, <3>3, <4>2 DEF RowSeen
        <5>2. QED
          BY <3>1, <3>2, <4>1, <4>2, <5>1
      <4>3. CASE c # e
        BY <1>8, <3>1, <4>1, <4>3
      <4>4. QED
        BY <4>2, <4>3
    <3>4. CASE t \notin cellLock[c]
      <4>1. c = e /\ image'[t][c].reserved = cell[c].reserved - i.q
        BY <1>5, <1>7, <1>8, <1>10, <2>5, <3>4 DEF RowSeen
      <4>2. SumFunction(GivenBack(t, c)) = 0
        <5>1. \A j \in txn[t].items \ txn[t].todo : CellOf(j) # c
          BY <2>1, <3>4 DEF ReleaseWork
        <5>2. /\ DOMAIN GivenBack(t, c) = Reservation
              /\ \A r \in Reservation : GivenBack(t, c)[r] = 0
          BY <5>1 DEF GivenBack
        <5>3. QED
          BY <5>2, SumOfZeros, ReservationAssumption
      <4>3. QED
        BY <3>1, <3>2, <4>1, <4>2
    <3>5. QED
      BY <3>3, <3>4
  <2>6. QED
    BY <1>1, <1>6, <2>2, <2>3, <2>5 DEF ReleaseWork
<1>11. ASSUME NEW c \in Cell, t \in cellLock'[c]
       PROVE  /\ Added(image'[t][c])
              /\ txn[t].op \notin {"reserve"} \cup ReleasingOps =>
                   image'[t][c].reserved = cell[c].reserved
  <2>1. t \in cellLock[c] =>
          /\ Added(image[t][c])
          /\ txn[t].op \notin {"reserve"} \cup ReleasingOps => image[t][c].reserved = cell[c].reserved
    BY <1>2 DEF HoldWork
  <2>2. CASE c = e
    BY <1>7, <1>8, <2>1, <2>2 DEF RowSeen
  <2>3. CASE c # e
    BY <1>5, <1>8, <1>11, <2>1, <2>3
  <2>4. QED
    BY <2>2, <2>3
<1>12. HoldWork(t)'
  BY <1>1, <1>6, <1>9, <1>10, <1>11 DEF HoldWork
<1>13. QED
  <2>1. \A v \in Txn : HoldWork(v)
    BY DEF HoldInv
  <2>2. QED
    BY <1>1, <1>5, <1>6, <1>8, <1>12, <2>1, StepHold

\* What a commit writes to the reservations.
LEMMA CommittedReservations ==
    ASSUME StockInv, WorkInv, NEW t \in Txn, Commit(t), HoldWork(t)
    PROVE  \A r \in Reservation :
             \/ /\ reservation'[r] = reservation[r]
                /\ ~(txn[t].op = "reserve" /\ r = txn[t].doc)
                /\ txn[t].op \in ReleasingOps => ~\E i \in txn[t].items : i.r = r
             \/ /\ txn[t].op = "reserve" /\ r = txn[t].doc /\ reservation[r].status = "none"
                /\ reservation'[r] = [status |-> "ACTIVE", w |-> txn[t].cur.w, p |-> txn[t].cur.p,
                                      q |-> txn[t].cur.q]
             \/ /\ txn[t].op \in ReleasingOps /\ docLock[r] = {t} /\ reservation[r].status = "ACTIVE"
                /\ \E i \in txn[t].items : i.r = r /\ i = GivesBack(r)
                /\ reservation'[r] = [reservation[r] EXCEPT !.status = "RELEASED"]
<1>1. txn[t].pc = "commit"
  BY DEF Commit, MayFlush
<1>2. txn[t].op = "reserve" => txn[t].op \notin ReleasingOps
  BY DEF ReleasingOps
<1>3. ASSUME NEW r \in Reservation
      PROVE  reservation'[r] =
               IF txn[t].op = "reserve" /\ r = txn[t].doc
               THEN [status |-> "ACTIVE", w |-> txn[t].cur.w, p |-> txn[t].cur.p, q |-> txn[t].cur.q]
               ELSE IF txn[t].op \in ReleasingOps /\ \E i \in txn[t].items : i.r = r
               THEN [reservation[r] EXCEPT !.status = "RELEASED"] ELSE reservation[r]
  <2>1. (r \in IF txn[t].op \in ReleasingOps THEN {j.r : j \in txn[t].items} ELSE {}) <=>
          txn[t].op \in ReleasingOps /\ \E i \in txn[t].items : i.r = r
    OBVIOUS
  <2>2. QED
    BY <2>1 DEF Commit, CommitReservations
<1>4. ASSUME NEW r \in Reservation, txn[t].op = "reserve", r = txn[t].doc
      PROVE  reservation[r].status = "none"
  BY <1>1, <1>4 DEF HoldWork, ReserveWork
<1>5. ASSUME NEW i \in txn[t].items, txn[t].op \in ReleasingOps
      PROVE  docLock[i.r] = {t} /\ reservation[i.r].status = "ACTIVE" /\ i = GivesBack(i.r)
  BY <1>1, <1>5 DEF HoldWork, ReleaseWork, Returns
<1>6. SUFFICES ASSUME NEW r \in Reservation
               PROVE
             \/ /\ reservation'[r] = reservation[r]
                /\ ~(txn[t].op = "reserve" /\ r = txn[t].doc)
                /\ txn[t].op \in ReleasingOps => ~\E i \in txn[t].items : i.r = r
             \/ /\ txn[t].op = "reserve" /\ r = txn[t].doc /\ reservation[r].status = "none"
                /\ reservation'[r] = [status |-> "ACTIVE", w |-> txn[t].cur.w, p |-> txn[t].cur.p,
                                      q |-> txn[t].cur.q]
             \/ /\ txn[t].op \in ReleasingOps /\ docLock[r] = {t} /\ reservation[r].status = "ACTIVE"
                /\ \E i \in txn[t].items : i.r = r /\ i = GivesBack(r)
                /\ reservation'[r] = [reservation[r] EXCEPT !.status = "RELEASED"]
  OBVIOUS
<1>7. CASE txn[t].op = "reserve" /\ r = txn[t].doc
  BY <1>3, <1>4, <1>7
<1>8. CASE txn[t].op \in ReleasingOps /\ \E i \in txn[t].items : i.r = r
  BY <1>2, <1>3, <1>5, <1>8
<1>9. CASE /\ ~(txn[t].op = "reserve" /\ r = txn[t].doc)
           /\ ~(txn[t].op \in ReleasingOps /\ \E i \in txn[t].items : i.r = r)
  BY <1>3, <1>9
<1>10. QED
  BY <1>7, <1>8, <1>9

\* A commit keeps what the other sessions rely on.
LEMMA CommitHold ==
    ASSUME StockInv, WorkInv, HoldInv, NEW t \in Txn, Commit(t)
    PROVE  \A v \in Txn : HoldWork(v)'
<1>1. /\ EndTransaction(t) /\ \A c \in Cell : cell'[c] = cell[c] \/ t \in cellLock[c]
      /\ \A v \in Txn : HoldWork(v)
  BY DEF Commit, HoldInv
<1>2. \A r \in Reservation : reservation[r] \in ReservationRow
  BY DEF StockInv, TypeOK
<1>3. ASSUME NEW r \in Reservation, reservation[r].status # "none"
      PROVE  /\ reservation'[r].w = reservation[r].w
             /\ reservation'[r].p = reservation[r].p
             /\ reservation'[r].q = reservation[r].q
             /\ reservation'[r].status = reservation[r].status \/ docLock[r] = {t}
  <2>1. \/ reservation'[r] = reservation[r]
        \/ docLock[r] = {t} /\ reservation'[r] = [reservation[r] EXCEPT !.status = "RELEASED"]
    BY <1>1, <1>3, CommittedReservations
  <2>2. QED
    BY <1>2, <2>1 DEF ReservationRow
<1>4. ASSUME NEW r \in Reservation, r # txn[t].doc, reservation[r].status = "none"
      PROVE  reservation'[r].status = reservation[r].status
  BY <1>1, <1>4, CommittedReservations
<1>5. QED
  BY <1>1, <1>3, <1>4, EndHold

\* What a commit writes to a balance is what the reservations then hold of it.
LEMMA CommitSums ==
    ASSUME StockInv, WorkInv, HoldInv, NEW t \in Txn, Commit(t), NEW c \in Cell
    PROVE  Added(cell'[c]) /\ cell'[c].reserved = SumFunction(Held(c)')
<1>1. /\ TypeOK /\ WellFormed /\ HoldWork(t) /\ txn[t].pc = "commit" /\ RequestWellFormed(txn[t])
      /\ Added(cell[c]) /\ cell[c].reserved = SumFunction(Held(c))
      /\ Numbers(Held(c)) /\ SumFunction(Held(c)) \in Int
  BY HeldNumbers, NumbersSum DEF StockInv, HoldInv, Commit, MayFlush, WellFormed
<1>2. cell'[c] = IF t \in cellLock[c] THEN image[t][c] ELSE cell[c]
  BY DEF Commit
<1>3. Added(cell'[c])
  BY <1>1, <1>2 DEF HoldWork
<1>4. /\ DOMAIN Held(c) = Reservation /\ DOMAIN Held(c)' = Reservation
      /\ \A r \in Reservation : Held(c)[r] = IF r \in ActiveAt(c) THEN reservation[r].q ELSE 0
      /\ \A r \in Reservation : Held(c)'[r] = IF r \in ActiveAt(c)' THEN reservation'[r].q ELSE 0
  BY DEF Held
<1>r. \A r \in Reservation : reservation[r] \in ReservationRow
  BY <1>1 DEF TypeOK
<1>5. CASE txn[t].op = "reserve"
  <2>1. ReserveWork(t)
    BY <1>1, <1>5 DEF HoldWork
  <2>2. PICK s \in Reservation : s = txn[t].doc /\ reservation[s].status = "none"
    BY <2>1 DEF ReserveWork
  <2>3. PICK i \in Item : i = txn[t].cur
    BY <1>1 DEF RequestWellFormed, TypeOK, Request
  <2>4. /\ reservation'[s] = [status |-> "ACTIVE", w |-> i.w, p |-> i.p, q |-> i.q]
        /\ \A r \in Reservation \ {s} : reservation'[r] = reservation[r]
    BY <1>1, <1>5, <2>2, <2>3, CommittedReservations DEF ReleasingOps
  <2>5. /\ Held(c)[s] = 0
        /\ Held(c)'[s] = IF CellOf(i) = c THEN i.q ELSE 0
        /\ \A r \in Reservation \ {s} : Held(c)'[r] = Held(c)[r]
    BY <1>4, <2>2, <2>4 DEF ActiveAt, CellOf
  <2>6. PICK f, g : f = Held(c) /\ g = Held(c)'
    OBVIOUS
  <2>7. SumFunction(g) = SumFunction(f) - f[s] + g[s]
    <3>1. i.q \in Int
      BY DEF Item
    <3>2. g[s] \in Int
      BY <2>5, <2>6, <3>1
    <3>3. QED
      BY <1>1, <1>4, <2>5, <2>6, <3>2, SumExcept DEF Numbers
  <2>8. t \in cellLock[c] <=> CellOf(i) = c
    BY <1>1, <2>1, <2>3 DEF ReserveWork
  <2>9. t \in cellLock[c] => image[t][c].reserved = cell[c].reserved + i.q
    BY <2>1, <2>3 DEF ReserveWork
  <2>10. i.q \in Int
    BY DEF Item
  <2>11. QED
    BY <1>1, <1>2, <1>3, <2>5, <2>6, <2>7, <2>8, <2>9, <2>10
<1>6. CASE txn[t].op \in ReleasingOps
  <2>1. ReleaseWork(t) /\ txn[t].op # "reserve" /\ txn[t].todo = {}
    BY <1>1, <1>6 DEF HoldWork, ReleasingOps, WorkInv, WorkShape
  <2> DEFINE Back(r) == \E i \in txn[t].items : i.r = r /\ CellOf(i) = c
  <2>2. /\ DOMAIN GivenBack(t, c) = Reservation
        /\ \A r \in Reservation : GivenBack(t, c)[r] = IF Back(r) THEN reservation[r].q ELSE 0
    BY <2>1 DEF GivenBack
  <2>3. ASSUME NEW r \in Reservation
        PROVE  Held(c)'[r] = Held(c)[r] - GivenBack(t, c)[r]
    <3>0. reservation[r].q \in Int /\ Held(c)[r] \in Int
      BY <1>r, <1>4 DEF ReservationRow
    <3>c. \/ /\ reservation'[r] = reservation[r]
             /\ ~\E i \in txn[t].items : i.r = r
          \/ /\ reservation[r].status = "ACTIVE"
             /\ \E i \in txn[t].items : i.r = r /\ i = GivesBack(r)
             /\ reservation'[r] = [reservation[r] EXCEPT !.status = "RELEASED"]
      BY <1>1, <1>6, <2>1, CommittedReservations
    <3>1. CASE \E i \in txn[t].items : i.r = r
      <4>1. PICK i \in txn[t].items : i.r = r /\ i = GivesBack(r)
        BY <3>c, <3>1
      <4>2. reservation[r].status = "ACTIVE" /\ reservation'[r].status = "RELEASED"
        BY <1>r, <3>c, <3>1 DEF ReservationRow
      <4>3. CellOf(i) = <<reservation[r].w, reservation[r].p>>
        BY <4>1 DEF GivesBack, CellOf
      <4>4. \A j \in txn[t].items : j.r = r => j = i
        BY <2>1, <4>1 DEF ReleaseWork, Returns
      <4>5. Back(r) <=> r \in ActiveAt(c)
        BY <4>1, <4>2, <4>3, <4>4 DEF ActiveAt
      <4>6. r \notin ActiveAt(c)'
        BY <4>2 DEF ActiveAt
      <4>7. QED
        BY <1>4, <2>2, <3>0, <4>5, <4>6
    <3>2. CASE ~\E i \in txn[t].items : i.r = r
      <4>1. reservation'[r] = reservation[r]
        BY <3>c, <3>2
      <4>2. r \in ActiveAt(c)' <=> r \in ActiveAt(c)
        BY <4>1 DEF ActiveAt
      <4>3. GivenBack(t, c)[r] = 0
        BY <2>2, <3>2
      <4>4. QED
        BY <1>4, <3>0, <4>1, <4>2, <4>3
    <3>3. QED
      BY <3>1, <3>2
  <2>4. PICK f, g, h : f = Held(c) /\ g = GivenBack(t, c) /\ h = Held(c)'
    OBVIOUS
  <2>5. SumFunction(h) = SumFunction(f) - SumFunction(g) /\ SumFunction(g) \in Int
    <3>1. Numbers(f) /\ Numbers(g) /\ DOMAIN f = Reservation /\ DOMAIN g = Reservation
          /\ DOMAIN h = Reservation /\ \A r \in Reservation : h[r] = f[r] - g[r]
      BY <1>1, <1>4, <2>2, <2>3, <2>4, GivenBackNumbers
    <3>2. QED
      BY <3>1, SumMinus
  <2>6. CASE t \in cellLock[c]
    BY <1>1, <1>2, <1>3, <2>1, <2>4, <2>5, <2>6 DEF ReleaseWork
  <2>7. CASE t \notin cellLock[c]
    <3>1. \A i \in txn[t].items : CellOf(i) # c
      BY <2>1, <2>7 DEF ReleaseWork
    <3>2. SumFunction(g) = 0
      BY <2>2, <2>4, <3>1, SumOfZeros, ReservationAssumption
    <3>3. QED
      BY <1>1, <1>2, <1>3, <2>4, <2>5, <2>7, <3>2
  <2>8. QED
    BY <2>6, <2>7
<1>7. CASE txn[t].op \notin {"reserve"} \cup ReleasingOps
  <2>1. \A r \in Reservation : reservation'[r] = reservation[r]
    BY <1>1, <1>7, CommittedReservations
  <2>2. \A r \in Reservation : r \in ActiveAt(c)' <=> r \in ActiveAt(c)
    BY <2>1 DEF ActiveAt
  <2>3. Held(c)' = Held(c)
    BY <2>1, <2>2 DEF Held
  <2>4. cell'[c].reserved = cell[c].reserved
    BY <1>1, <1>2, <1>7 DEF HoldWork
  <2>5. QED
    BY <1>1, <1>3, <2>3, <2>4
<1>8. QED
  BY <1>5, <1>6, <1>7

SumsInv == PostingInv /\ HoldInv

\* Every step keeps the invariant.
LEMMA SumsStep ==
    ASSUME SumsInv, [Next]_vars
    PROVE  SumsInv'
<1>0. /\ PostingInv /\ StockInv /\ WorkInv /\ HoldInv /\ TypeOK /\ WellFormed
      /\ \A t \in Txn : HoldWork(t)
  BY DEF SumsInv, PostingInv, StockInv, HoldInv
<1>1. PostingInv'
  BY <1>0, PostingStep
<1>2. ASSUME UNCHANGED <<cell, reservation>>, \A t \in Txn : HoldWork(t)'
      PROVE  HoldInv'
  <2>1. ASSUME NEW c \in Cell
        PROVE  Added(cell'[c]) /\ cell'[c].reserved = SumFunction(Held(c)')
    <3>1. Held(c)' = Held(c)
      BY <1>2 DEF Held, ActiveAt
    <3>2. QED
      BY <1>0, <1>2, <3>1 DEF HoldInv
  <2>2. QED
    BY <1>2, <2>1 DEF HoldInv
<1>3. ASSUME NEW t \in Txn, Start(t)
      PROVE  HoldInv'
  <2>1. UNCHANGED <<cell, reservation>>
    BY <1>3 DEF Start, Receipt, Issue, Adjust, Reserve, Release, CreateTransfer,
                TransitionTransfer, Document, ReleaseExpired, committed
  <2>2. QED
    BY <1>0, <1>2, <1>3, <2>1, StartHold
<1>4. ASSUME NEW t \in Txn, LockDocument(t) \/ LockProduct(t) \/ LoadProduct(t)
      PROVE  HoldInv'
  <2>1. UNCHANGED <<cell, reservation>>
    BY <1>4 DEF LockDocument, LockProduct, LoadProduct, committed
  <2>2. QED
    BY <1>0, <1>2, <1>4, <2>1, LockHold
<1>5. ASSUME NEW t \in Txn, PostMovement(t) \/ ReserveStock(t) \/ ReleaseStock(t)
      PROVE  HoldInv'
  <2>1. UNCHANGED <<cell, reservation>>
    BY <1>5 DEF PostMovement, ReserveStock, ReleaseStock, committed
  <2>2. QED
    BY <1>0, <1>2, <1>5, <2>1, BalanceHold
<1>6. ASSUME NEW t \in Txn, Commit(t)
      PROVE  HoldInv'
  BY <1>0, <1>6, CommitHold, CommitSums DEF HoldInv
<1>7. ASSUME NEW t \in Txn, Reject(t) \/ DeadlockVictim(t) \/ Crash(t)
      PROVE  HoldInv'
  <2>1. EndTransaction(t) /\ UNCHANGED <<cell, reservation>>
    BY <1>7 DEF Reject, DeadlockVictim, Crash, committed
  <2>2. \A v \in Txn : HoldWork(v)'
    BY <1>0, <2>1, EndHold
  <2>3. QED
    BY <1>2, <2>1, <2>2
<1>8. ASSUME \/ \E r \in Reservation : Expire(r)
             \/ \E p \in Product : UpdateProduct(p) \/ DeactivateProduct(p)
             \/ UNCHANGED vars
      PROVE  HoldInv'
  <2>1. UNCHANGED <<cell, reservation, cellLock, docLock, txn, image>>
    BY <1>8 DEF Expire, UpdateProduct, DeactivateProduct, vars, committed, locks, session
  <2>2. \A t \in Txn, c \in Cell : GivenBack(t, c)' = GivenBack(t, c)
    BY <2>1 DEF GivenBack
  <2>3. \A t \in Txn : ReserveWork(t)' = ReserveWork(t)
    BY <2>1 DEF ReserveWork
  <2>4. ASSUME NEW t \in Txn, NEW i
        PROVE  Returns(t, i)' = Returns(t, i)
    BY <2>1 DEF Returns, GivesBack
  <2>5. \A t \in Txn : ReleaseWork(t)' = ReleaseWork(t)
    BY <2>1, <2>2, <2>4 DEF ReleaseWork
  <2>6. \A t \in Txn : HoldWork(t)'
    BY <1>0, <2>1, <2>3, <2>5 DEF HoldWork
  <2>7. QED
    BY <1>2, <2>1, <2>6
<1>9. HoldInv'
  BY <1>3, <1>4, <1>5, <1>6, <1>7, <1>8 DEF Next, Step
<1>10. QED
  BY <1>1, <1>9 DEF SumsInv

LEMMA SumsInit == Init => SumsInv
<1> SUFFICES ASSUME Init PROVE SumsInv
  OBVIOUS
<1>1. /\ \A c \in Cell : cell[c] = EmptyRow /\ cellLock[c] = {}
      /\ \A r \in Reservation : reservation[r] = NoReservation
      /\ \A t \in Txn : txn[t] = Idle
  BY DEF Init
<1>2. Idle.pc = "idle"
  BY DEF Idle
<1>3. \A t \in Txn : HoldWork(t)
  BY <1>1, <1>2 DEF HoldWork
<1>4. ASSUME NEW c \in Cell
      PROVE  Added(cell[c]) /\ cell[c].reserved = SumFunction(Held(c))
  <2>1. cell[c].onHand = 0 /\ cell[c].reserved = 0 /\ cell[c].ledger = <<>>
    BY <1>1 DEF EmptyRow
  <2>2. DOMAIN Quantities(<<>>) = {}
    BY DEF Quantities
  <2>3. SumFunction(Quantities(<<>>)) = 0
    BY <2>2, SumOfNone
  <2>4. DOMAIN Held(c) = Reservation /\ \A r \in Reservation : Held(c)[r] = 0
    BY <1>1 DEF Held, ActiveAt, NoReservation
  <2>5. SumFunction(Held(c)) = 0
    BY <2>4, SumOfZeros, ReservationAssumption
  <2>6. QED
    BY <2>1, <2>3, <2>5 DEF Added
<1>5. QED
  BY <1>3, <1>4, PostingInit DEF SumsInv, HoldInv

\* The cached quantities are the sums of their tables in every committed state: the
\* movements of a balance add up to quantity_on_hand, and the ACTIVE reservations to
\* reserved_quantity, although a release and the sweep may race for one reservation and
\* a rollback may come at any point (_post_movement, release, release_expired).
THEOREM SumsMatch == Spec => []CachedSumsMatch
<1>1. SumsInv => CachedSumsMatch
  <2> SUFFICES ASSUME SumsInv PROVE CachedSumsMatch
    OBVIOUS
  <2>1. TypeOK /\ LedgerChain /\ HoldInv
    BY DEF SumsInv, PostingInv, StockInv
  <2>2. Drift = {}
    BY <2>1 DEF Drift, HoldInv, Added
  <2>3. \A c \in Cell : cell[c].reserved = SumFunction([r \in ActiveAt(c) |-> reservation[r].q])
    BY <2>1, HeldNumbers DEF HoldInv
  <2>4. QED
    BY <2>1, <2>2, <2>3 DEF CachedSumsMatch
<1>2. QED
  BY <1>1, SumsInit, SumsStep, PTL DEF Spec

=============================================================================
