----------------------------- MODULE Purchasing -----------------------------
(***************************************************************************)
(* Purchase documents (modules/purchasing/service.py): order, goods        *)
(* receipt, supplier bill and payment, with what each writes to the books. *)
(* A Supplier stands for the pair of a supplier and a branch.              *)
(***************************************************************************)
EXTENDS Sales

CONSTANTS
    Supplier,           \* suppliers, with the branch that buys from them
    PurchaseBasket,     \* the lines a request may carry; price is the unit cost
    Overrides,          \* unit costs a receipt may state instead of the order's
    MaxPurchaseOrders, MaxSupplierPayments  \* bounds

ASSUME PurchasingAssumption ==
    /\ IsFiniteSet(Supplier) /\ PurchaseBasket \subseteq PerProduct(Line)
    /\ \A b \in PurchaseBasket : \A p \in DOMAIN b : b[p].disc = 0
    /\ Overrides \subseteq Nat
    /\ {MaxPurchaseOrders, MaxSupplierPayments} \subseteq Nat

VARIABLES purchaseOrders, goodsReceipts, bills, supplierPayments

purchases == <<purchaseOrders, goodsReceipts, bills, supplierPayments>>

PurchaseOrderStatus == {"DRAFT", "CONFIRMED", "PARTIALLY_RECEIVED", "RECEIVED", "CANCELLED"}
SupplierBillStatus == {"DRAFT", "ISSUED", "PARTIALLY_PAID", "PAID", "CANCELLED"}

PurchaseOrderLineRow == [qty : Nat, price : Nat, disc : {0}, tax : 0..Scale,
                         received : Nat, billed : Nat]
PurchaseOrderRow == [supplier : Supplier, warehouse : Warehouse, status : PurchaseOrderStatus,
                     lines : PerProduct(PurchaseOrderLineRow)]
GoodsReceiptRow == [order : Nat, qty : PerProduct(Nat), unit : PerProduct(Nat), cost : Nat]
SupplierBillRow == [supplier : Supplier, order : Nat, status : SupplierBillStatus, date : Date,
                    qty : PerProduct(Nat), net : Nat, tax : Nat, paid : Nat]

(* Constraints of the tables *)
PurchaseOrderKeys(o) == o.supplier \in Supplier /\ o.warehouse \in Warehouse
PurchaseOrderLineChecks(l) ==
    l.qty > 0 /\ l.price >= 0 /\ l.received \in 0..l.qty /\ l.billed \in 0..l.qty
GoodsReceiptKeys(r) == r.order \in DOMAIN purchaseOrders
GoodsReceiptLineChecks(r) == \A p \in DOMAIN r.qty : r.qty[p] > 0 /\ r.unit[p] >= 0
SupplierBillKeys(b) == b.supplier \in Supplier /\ b.order \in DOMAIN purchaseOrders
SupplierBillChecks(b) == b.net + b.tax >= 0 /\ b.paid \in 0..(b.net + b.tax)
SupplierBillLineChecks(qty) == \A p \in DOMAIN qty : qty[p] > 0

PurchasingChecks ==
    /\ \A i \in DOMAIN purchaseOrders :
            /\ PurchaseOrderKeys(purchaseOrders[i])
            /\ \A p \in DOMAIN purchaseOrders[i].lines :
                    PurchaseOrderLineChecks(purchaseOrders[i].lines[p])
    /\ \A i \in DOMAIN goodsReceipts :
            GoodsReceiptKeys(goodsReceipts[i]) /\ GoodsReceiptLineChecks(goodsReceipts[i])
    /\ \A i \in DOMAIN bills : /\ SupplierBillKeys(bills[i]) /\ SupplierBillChecks(bills[i])
                               /\ SupplierBillLineChecks(bills[i].qty)
    /\ \A i \in DOMAIN supplierPayments :
            /\ PaymentKeys(supplierPayments[i], Supplier) /\ PaymentChecks(supplierPayments[i])
            /\ PaymentAllocationChecks(supplierPayments[i].allocated, bills)

PurchasingRows ==
    /\ purchaseOrders \in Seq(PurchaseOrderRow) /\ goodsReceipts \in Seq(GoodsReceiptRow)
    /\ bills \in Seq(SupplierBillRow) /\ supplierPayments \in Seq(PaymentRow(Supplier))

----------------------------------------------------------------------------
(* Orders *)

NewPurchaseOrder(s, w, basket) ==
    [supplier |-> s, warehouse |-> w, status |-> "DRAFT",
     lines |-> [p \in DOMAIN basket |->
        [qty |-> basket[p].qty, price |-> basket[p].price, disc |-> 0, tax |-> basket[p].tax,
         received |-> 0, billed |-> 0]]]

create_purchase_order(s, w, basket) ==
    /\ Len(purchaseOrders) < MaxPurchaseOrders
    /\ purchaseOrders' = Append(purchaseOrders, NewPurchaseOrder(s, w, basket))
    /\ UNCHANGED <<goodsReceipts, bills, supplierPayments, sales, books>>

confirm_purchase_order(i) ==
    /\ purchaseOrders[i].status = "DRAFT"
    /\ purchaseOrders' = [purchaseOrders EXCEPT ![i].status = "CONFIRMED"]
    /\ UNCHANGED <<goodsReceipts, bills, supplierPayments, sales, books>>

Withdrawable(o) ==
    /\ o.status \in {"DRAFT", "CONFIRMED", "PARTIALLY_RECEIVED"}
    /\ \A p \in DOMAIN o.lines : o.lines[p].received = 0

cancel_purchase_order(i) ==
    /\ Withdrawable(purchaseOrders[i])
    /\ purchaseOrders' = [purchaseOrders EXCEPT ![i].status = "CANCELLED"]
    /\ UNCHANGED <<goodsReceipts, bills, supplierPayments, sales, books>>

----------------------------------------------------------------------------
(* Goods receipts *)

ToReceive(o) == [p \in DOMAIN o.lines |-> o.lines[p].qty - o.lines[p].received]

ReceivedStatus(lines) ==
    IF \A p \in DOMAIN lines : lines[p].received >= lines[p].qty
    THEN "RECEIVED" ELSE "PARTIALLY_RECEIVED"

\* A stated unit cost takes the place of the order's.
UnitCost(l, override) == IF override = {} THEN l.price ELSE CHOOSE u \in override : TRUE

\* Only tracked products enter stock, move the average and carry cost.  read: the
\* costs as read without a lock.
receive(i, qty, override, read) ==
    LET o == purchaseOrders[i]
        unit == [p \in DOMAIN qty |-> UnitCost(o.lines[p], override)]
        lines == [p \in DOMAIN o.lines |->
                    IF p \in DOMAIN qty THEN [o.lines[p] EXCEPT !.received = @ + qty[p]]
                                        ELSE o.lines[p]]
        cost == SumFunction([p \in DOMAIN Moved(qty) |-> qty[p] * unit[p]])
        entry == IF cost > 0 THEN goods_receipt(PostedCost(cost)) ELSE NoEntry
    IN  /\ o.status \in {"CONFIRMED", "PARTIALLY_RECEIVED"}
        /\ \E today \in Date : Accepted(today, entry)
        /\ purchaseOrders' = [purchaseOrders EXCEPT ![i].lines = lines,
                                                    ![i].status = ReceivedStatus(lines)]
        /\ goodsReceipts' = Append(goodsReceipts, [order |-> i, qty |-> qty, unit |-> unit,
                                                   cost |-> cost])
        /\ onHand' = PutBack(o.warehouse, qty)
        /\ costPrice' = [p \in Product |->
                IF p \in DOMAIN Moved(qty)
                THEN Repriced(p, read[p], AverageCost(o.warehouse, p, qty[p], unit[p], read[p]))
                ELSE costPrice[p]]
        /\ balance' = Posted(balance, entry)
        /\ UNCHANGED <<bills, supplierPayments, sales, register, returns>>

----------------------------------------------------------------------------
(* Supplier bills *)

ToBill(o, receivedOnly) ==
    LET left(l) == (IF receivedOnly THEN l.received ELSE l.qty) - l.billed
    IN  [p \in {p \in DOMAIN o.lines : left(o.lines[p]) > 0} |-> left(o.lines[p])]

create_bill(i, receivedOnly, date) ==
    LET o == purchaseOrders[i]
        qty == ToBill(o, receivedOnly)
        amounts == Amounts(qty, o.lines, CostScale)
    IN  /\ o.status \in {"CONFIRMED", "PARTIALLY_RECEIVED", "RECEIVED"}
        /\ DOMAIN qty # {}
        /\ bills' = Append(bills,
                [supplier |-> o.supplier, order |-> i, status |-> "DRAFT", date |-> date,
                 qty |-> qty, net |-> NetOf(amounts), tax |-> TaxOf(amounts), paid |-> 0])
        /\ purchaseOrders' = [purchaseOrders EXCEPT ![i].lines =
                [p \in DOMAIN o.lines |->
                    IF p \in DOMAIN qty THEN [o.lines[p] EXCEPT !.billed = @ + qty[p]]
                                        ELSE o.lines[p]]]
        /\ UNCHANGED <<goodsReceipts, supplierPayments, sales, books>>

VatOfBill(i) ==
    LET lines == purchaseOrders[bills[i].order].lines
    IN  RowsPerRate(<<"supplier_bill", i>>, "INPUT", bills[i].date, 1, lines,
                    Amounts(bills[i].qty, lines, CostScale))

\* A bill of nothing is posted all the same, and refused: post takes no empty entry.
issue_bill(i) ==
    /\ bills[i].status = "DRAFT"
    /\ Accepted(bills[i].date, supplier_bill(bills[i].net, bills[i].tax))
    /\ bills' = [bills EXCEPT ![i].status = "ISSUED"]
    /\ balance' = Posted(balance, supplier_bill(bills[i].net, bills[i].tax))
    /\ register' = register \cup VatOfBill(i)
    /\ UNCHANGED <<purchaseOrders, goodsReceipts, supplierPayments, sales, onHand, costPrice,
                   returns>>

pay_supplier(s, method, amount, allocated) ==
    /\ Len(supplierPayments) < MaxSupplierPayments
    /\ OpenDates # {}
    /\ SumFunction(allocated) <= amount
    /\ \A i \in DOMAIN allocated : Allocatable(bills[i], allocated[i])
    /\ supplierPayments' = Append(supplierPayments,
            [party |-> s, amount |-> amount, allocated |-> allocated])
    /\ bills' = [i \in DOMAIN bills |->
            IF i \in DOMAIN allocated THEN Settled(bills[i], allocated[i]) ELSE bills[i]]
    /\ balance' = Posted(balance, supplier_payment(amount, method = "CASH"))
    /\ UNCHANGED <<purchaseOrders, goodsReceipts, sales, onHand, costPrice, register, returns>>

payables(s) ==
    SumFunction([i \in {i \in IssuedDocs(bills) : bills[i].supplier = s} |->
                    TotalOf(bills[i]) - bills[i].paid])

PurchasingInit == purchaseOrders = <<>> /\ goodsReceipts = <<>> /\ bills = <<>>
                  /\ supplierPayments = <<>>

NewPurchaseDocument ==
    \/ \E i \in DOMAIN purchaseOrders : \E qty \in Parts(ToReceive(purchaseOrders[i])) :
            \E override \in {{}} \cup {{u} : u \in Overrides}, read \in CostsRead :
                receive(i, qty, override, read)
    \/ \E i \in DOMAIN purchaseOrders, only \in BOOLEAN, d \in Date : create_bill(i, only, d)
    \/ \E s \in Supplier, method \in Methods, amount \in Receipts :
            \E allocated \in Allocations({i \in DOMAIN bills : bills[i].supplier = s}) :
                pay_supplier(s, method, amount, allocated)

MovePurchaseDocument ==
    \/ \E s \in Supplier, w \in Warehouse, b \in PurchaseBasket : create_purchase_order(s, w, b)
    \/ \E i \in DOMAIN purchaseOrders : confirm_purchase_order(i) \/ cancel_purchase_order(i)
    \/ \E i \in DOMAIN bills : issue_bill(i)

============================================================================
