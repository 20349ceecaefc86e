------------------------------- MODULE Trade -------------------------------
(***************************************************************************)
(* Buying, selling and VAT returns over the same stock and the same books. *)
(* A step is the transaction of one request; the database refuses one that *)
(* breaks a constraint of a table.                                         *)
(***************************************************************************)
EXTENDS Purchasing

vars == <<books, sales, purchases>>

Init == BooksInit /\ SalesInit /\ PurchasingInit

Documents ==
    Len(quotations) + Len(orders) + Len(shipments) + Len(invoices) + Len(payments) + Len(notes)
    + Len(purchaseOrders) + Len(goodsReceipts) + Len(bills) + Len(supplierPayments) + Len(returns)

Room == Documents < MaxDocuments
Commit == ProductChecks' /\ SalesChecks' /\ PurchasingChecks'

AddSales == Room /\ NewSalesDocument /\ UNCHANGED purchases /\ Commit
MoveSales == MoveSalesDocument /\ UNCHANGED purchases /\ Commit
AddPurchase == Room /\ NewPurchaseDocument /\ Commit
MovePurchase == MovePurchaseDocument /\ Commit
PrepareReturn == Room /\ \E span \in Spans : prepare_return(span) /\ UNCHANGED <<sales, purchases>>
FileReturn == \E i \in DOMAIN returns : file_return(i) /\ UNCHANGED <<sales, purchases>>

Next == AddSales \/ MoveSales \/ AddPurchase \/ MovePurchase \/ PrepareReturn \/ FileReturn

Spec == Init /\ [][Next]_vars

----------------------------------------------------------------------------
(* Type invariant: the shape of every table the trading documents use. *)
TypeOK == BooksRows /\ SalesRows /\ PurchasingRows

QtyOn(doc, p) == IF p \in DOMAIN doc.qty THEN doc.qty[p] ELSE 0
\* Quantity of product p on the documents ids.
QtyOf(docs, ids, p) == SumFunction([j \in ids |-> QtyOn(docs[j], p)])
OfOrder(docs, i) == {j \in DOMAIN docs : docs[j].order = i}
OfInvoice(i) == {n \in DOMAIN notes : notes[n].invoice = i}
\* What the payments allocate to document i, and what they do not allocate.
AllocatedTo(pays, i) ==
    SumFunction([y \in DOMAIN pays |->
                    IF i \in DOMAIN pays[y].allocated THEN pays[y].allocated[i] ELSE 0])
Unallocated(pays) ==
    SumFunction([y \in DOMAIN pays |-> pays[y].amount - SumFunction(pays[y].allocated)])
Distance(a, b) == IF a > b THEN a - b ELSE b - a

(* The receivables and payables reports, less the payments not allocated   *)
(* to a document, are the balances of the control accounts: issuing,       *)
(* paying and crediting move both sides by the same amount.                *)
SubledgersAgree ==
    /\ balance["AR_CONTROL"] =
            SumFunction([c \in Customer |-> receivables(c)]) - Unallocated(payments)
    /\ -balance["AP_CONTROL"] =
            SumFunction([s \in Supplier |-> payables(s)]) - Unallocated(supplierPayments)

(* The counters of a document line are the sums of the documents made from *)
(* it: shipped, invoiced and credited, received and billed.  What an       *)
(* invoice or a bill counts as paid is what payments allocate to it.       *)
CountersMatchDocuments ==
    /\ \A i \in DOMAIN orders : \A p \in DOMAIN orders[i].lines :
            /\ orders[i].lines[p].fulfilled = QtyOf(shipments, OfOrder(shipments, i), p)
            /\ orders[i].lines[p].invoiced = QtyOf(invoices, OfOrder(invoices, i), p)
    /\ \A i \in DOMAIN purchaseOrders : \A p \in DOMAIN purchaseOrders[i].lines :
            /\ purchaseOrders[i].lines[p].received =
                    QtyOf(goodsReceipts, OfOrder(goodsReceipts, i), p)
            /\ purchaseOrders[i].lines[p].billed = QtyOf(bills, OfOrder(bills, i), p)
    /\ \A i \in DOMAIN invoices :
            /\ \A p \in DOMAIN invoices[i].qty :
                    invoices[i].credited[p] = QtyOf(notes, OfInvoice(i), p)
            /\ invoices[i].paid = AllocatedTo(payments, i)
    /\ \A i \in DOMAIN bills : bills[i].paid = AllocatedTo(supplierPayments, i)

(* A quotation becomes at most one order, for the same customer and with   *)
(* its lines; a cancelled order shipped or received nothing; a fulfilled   *)
(* one everything.                                                         *)
OrdersTrace ==
    /\ \A i, j \in DOMAIN orders :
            orders[i].quotation = orders[j].quotation /\ orders[i].quotation # 0 => i = j
    /\ \A i \in DOMAIN quotations : quotations[i].converted # 0 =>
            LET o == orders[quotations[i].converted]
            IN  /\ o.quotation = i /\ o.customer = quotations[i].customer
                /\ DOMAIN o.lines = DOMAIN quotations[i].lines
                /\ \A p \in DOMAIN o.lines : o.lines[p].qty = quotations[i].lines[p].qty
    /\ \A i \in DOMAIN orders :
            /\ orders[i].status = "CANCELLED" => OfOrder(shipments, i) = {}
            /\ orders[i].status = "FULFILLED" <=> \A p \in DOMAIN orders[i].lines :
                    QtyOf(shipments, OfOrder(shipments, i), p) = orders[i].lines[p].qty
    /\ \A i \in DOMAIN purchaseOrders : purchaseOrders[i].status = "CANCELLED" =>
            OfOrder(goodsReceipts, i) = {}

\* The documents that move goods in and out of warehouse w.
ShippedFrom(w) == {j \in DOMAIN shipments : orders[shipments[j].order].warehouse = w}
ReceivedInto(w) ==
    {j \in DOMAIN goodsReceipts : purchaseOrders[goodsReceipts[j].order].warehouse = w}
RestockedInto(w) == {n \in DOMAIN notes : notes[n].into = {w}}

(* The stock of each warehouse is what was there, received into it and     *)
(* taken back into it, less what was shipped from it, below zero too.  In  *)
(* money, inventory and cost of sales together are the cost of all goods   *)
(* received: what a shipment or a restocking return takes from the one it  *)
(* puts on the other, however stale the cost it read.                      *)
StockFollowsDocuments ==
    /\ \A w \in Warehouse, p \in Tracked :
            onHand[w][p] = OpeningStock + QtyOf(goodsReceipts, ReceivedInto(w), p)
                           + QtyOf(notes, RestockedInto(w), p) - QtyOf(shipments, ShippedFrom(w), p)
    /\ balance["INVENTORY"] + balance["COGS"] =
            SumFunction([r \in DOMAIN goodsReceipts |-> PostedCost(goodsReceipts[r].cost)])

(* Goods received not invoiced: once every tracked line is billed as       *)
(* received, at the order's cost, and the bills are issued, the account is *)
(* clear but for half a unit of rounding per receipt and bill line.        *)
GrniClears ==
    (/\ \A i \in DOMAIN purchaseOrders : \A p \in DOMAIN purchaseOrders[i].lines :
            p \in Tracked /\ purchaseOrders[i].lines[p].received = purchaseOrders[i].lines[p].billed
     /\ \A r \in DOMAIN goodsReceipts : \A p \in DOMAIN goodsReceipts[r].qty :
            goodsReceipts[r].unit[p] = purchaseOrders[goodsReceipts[r].order].lines[p].price
     /\ \A b \in DOMAIN bills : bills[b].status # "DRAFT")
    => 2 * Distance(balance["GRNI"], 0)
       <= Len(goodsReceipts) + SumFunction([b \in DOMAIN bills |-> Cardinality(DOMAIN bills[b].qty)])

(* The VAT accounts hold what the register holds: a document posts and     *)
(* records the same tax, with the same sign.                               *)
VatAccountsMatchRegister ==
    /\ -balance["VAT_OUTPUT"] = VatOf(register, "OUTPUT")
    /\ balance["VAT_INPUT"] = VatOf(register, "INPUT")

(* A filed return states exactly the rows it claimed, all of its period; a *)
(* draft claims none.  Rows recorded after the draft are in the filing.    *)
FiledMatchesClaimed ==
    \A i \in DOMAIN returns :
        LET claimed == {r \in register : r.claim = i}
        IN  /\ returns[i].status = "FILED" => returns[i].boxes = Boxes(claimed)
            /\ returns[i].status = "DRAFT" => claimed = {}
            /\ \A r \in claimed : r.date \in returns[i].span[1]..returns[i].span[2]

(* Nothing that happens after a filing, back-dated documents and other     *)
(* returns of an overlapping period included, changes the return or the    *)
(* rows it claimed, and a row is never dropped from the register.          *)
FilingIsFinal ==
    [][/\ \A i \in DOMAIN returns : returns[i].status = "FILED" =>
            /\ returns'[i] = returns[i]
            /\ {r \in register : r.claim = i} = {r \in register' : r.claim = i}
       /\ \A r \in register : \E s \in register' : [s EXCEPT !.claim = r.claim] = r]_vars

============================================================================
