----------------------------- MODULE Trade_proofs -----------------------------
(***************************************************************************)
(* What holds of Trade for any products, prices, costs, customers,         *)
(* suppliers, baskets and dates, and any number of documents.              *)
(*                                                                         *)
(*   1. what each request changes, and what it posts;                      *)
(*   2. Tables: every row keeps its type, its constraints and the amounts  *)
(*      it took over (TablesCorrect, TypeCorrect);                         *)
(*   3. VAT: what is filed stays filed, boxes equal what they claim, and   *)
(*      the VAT accounts equal the register;                               *)
(*   4. counters on order lines and documents equal the documents made;    *)
(*   5. quotation, order and documents trace to each other;                *)
(*   6. the control accounts equal the subledgers;                         *)
(*   7. the stock of each warehouse follows its documents;                 *)
(*   8. goods received not invoiced clear, up to rounding.                 *)
(***************************************************************************)
EXTENDS Trade, Books_proofs

\* Quantities a request may ask for.
LEMMA PartsType ==
  ASSUME NEW left, \A p \in DOMAIN left : left[p] \in Int, DOMAIN left \subseteq Product,
         NEW qty \in Parts(left)
  PROVE  /\ qty \in PerProduct(Nat \ {0}) /\ DOMAIN qty \subseteq DOMAIN left
         /\ \A p \in DOMAIN qty : qty[p] <= left[p]
<1>1. PICK S \in (SUBSET {p \in DOMAIN left : left[p] > 0}) \ {{}} :
          qty \in {q \in [S -> UNION {1..left[p] : p \in S}] : \A p \in S : q[p] <= left[p]}
  BY DEF Parts
<1>2. UNION {1..left[p] : p \in S} \subseteq Nat \ {0}
  OBVIOUS
<1>3. qty \in [S -> Nat \ {0}]
  BY <1>1, <1>2
<1>4. QED
  BY <1>1, <1>3, IsOnProducts

-----------------------------------------------------------------------------
(***************************************************************************)
(* One formula per request, and what it leaves alone.                      *)
(***************************************************************************)

CreateQuotation == \E c \in Customer, b \in SalesBasket : create_quotation(c, b)

Fulfil ==
    \E i \in DOMAIN orders : \E qty \in Parts(Outstanding(orders[i])), read \in CostsRead : fulfil(i, qty, read)

CreateInvoice == \E i \in DOMAIN orders, only \in BOOLEAN, d \in Date : create_invoice(i, only, d)

RecordPayment ==
    \E c \in Customer, method \in Methods, amount \in Receipts :
        \E allocated \in Allocations({i \in DOMAIN invoices : invoices[i].customer = c}) :
            record_payment(c, method, amount, allocated)

\* The warehouse a credit note puts the goods back into, or none.
Into == {{}} \cup {{w} : w \in Warehouse}

IssueCreditNote ==
    \E i \in DOMAIN invoices, into \in Into, d \in Date :
        \E qty \in Parts(Creditable(invoices[i])), read \in CostsRead :
            issue_credit_note(i, qty, into, d, read)

SetQuotationStatus ==
    \E i \in DOMAIN quotations, s \in {"SENT", "ACCEPTED", "REJECTED"} : set_quotation_status(i, s)

ConvertQuotation == \E i \in DOMAIN quotations, w \in Warehouse : convert_quotation(i, w)

CreateOrder == \E c \in Customer, w \in Warehouse, b \in SalesBasket : create_order(c, w, b)

ConfirmOrder == \E i \in DOMAIN orders : confirm_order(i)

CancelOrder == \E i \in DOMAIN orders : cancel_order(i)

IssueInvoice == \E i \in DOMAIN invoices : issue_invoice(i)

Receive ==
    \E i \in DOMAIN purchaseOrders : \E qty \in Parts(ToReceive(purchaseOrders[i])) :
        \E override \in {{}} \cup {{u} : u \in Overrides}, read \in CostsRead :
            receive(i, qty, override, read)

CreateBill ==
    \E i \in DOMAIN purchaseOrders, only \in BOOLEAN, d \in Date : create_bill(i, only, d)

PaySupplier ==
    \E s \in Supplier, method \in Methods, amount \in Receipts :
        \E allocated \in Allocations({i \in DOMAIN bills : bills[i].supplier = s}) :
            pay_supplier(s, method, amount, allocated)

CreatePurchaseOrder ==
    \E s \in Supplier, w \in Warehouse, b \in PurchaseBasket : create_purchase_order(s, w, b)

ConfirmPurchaseOrder == \E i \in DOMAIN purchaseOrders : confirm_purchase_order(i)

CancelPurchaseOrder == \E i \in DOMAIN purchaseOrders : cancel_purchase_order(i)

IssueBill == \E i \in DOMAIN bills : issue_bill(i)

SalesStep ==
    \/ CreateQuotation \/ Fulfil \/ CreateInvoice \/ RecordPayment \/ IssueCreditNote
    \/ SetQuotationStatus \/ ConvertQuotation \/ CreateOrder \/ ConfirmOrder \/ CancelOrder
    \/ IssueInvoice

PurchaseStep ==
    \/ Receive \/ CreateBill \/ PaySupplier \/ CreatePurchaseOrder \/ ConfirmPurchaseOrder
    \/ CancelPurchaseOrder \/ IssueBill

\* What each sales request leaves alone.
LEMMA SalesFrames ==
  /\ CreateQuotation => UNCHANGED <<orders, shipments, invoices, payments, notes, books>>
  /\ Fulfil => UNCHANGED <<quotations, invoices, payments, notes, costPrice, register, returns>>
  /\ CreateInvoice => UNCHANGED <<quotations, shipments, payments, notes, books>>
  /\ RecordPayment =>
        UNCHANGED <<quotations, orders, shipments, notes, onHand, costPrice, register, returns>>
  /\ IssueCreditNote =>
        UNCHANGED <<quotations, orders, shipments, payments, costPrice, returns>>
  /\ SetQuotationStatus => UNCHANGED <<orders, shipments, invoices, payments, notes, books>>
  /\ ConvertQuotation => UNCHANGED <<shipments, invoices, payments, notes, books>>
  /\ CreateOrder => UNCHANGED <<quotations, shipments, invoices, payments, notes, books>>
  /\ ConfirmOrder => UNCHANGED <<quotations, shipments, invoices, payments, notes, books>>
  /\ CancelOrder => UNCHANGED <<quotations, shipments, invoices, payments, notes, books>>
  /\ IssueInvoice =>
        UNCHANGED <<quotations, orders, shipments, payments, notes, onHand, costPrice, returns>>
<1>1. Fulfil => UNCHANGED <<quotations, invoices, payments, notes, costPrice, register, returns>>
  BY DEF Fulfil, fulfil
<1>2. CreateInvoice => UNCHANGED <<quotations, shipments, payments, notes, books>>
  BY DEF CreateInvoice, create_invoice
<1>3. RecordPayment =>
        UNCHANGED <<quotations, orders, shipments, notes, onHand, costPrice, register, returns>>
  BY DEF RecordPayment, record_payment
<1>4. IssueCreditNote =>
        UNCHANGED <<quotations, orders, shipments, payments, costPrice, returns>>
  BY DEF IssueCreditNote, issue_credit_note
<1>5. IssueInvoice =>
        UNCHANGED <<quotations, orders, shipments, payments, notes, onHand, costPrice, returns>>
  BY DEF IssueInvoice, issue_invoice
<1>6. QED
  BY <1>1, <1>2, <1>3, <1>4, <1>5
     DEF CreateQuotation, create_quotation, SetQuotationStatus, set_quotation_status,
         ConvertQuotation, convert_quotation, CreateOrder, create_order, ConfirmOrder,
         confirm_order, CancelOrder, cancel_order

\* What each purchasing request leaves alone.
LEMMA PurchaseFrames ==
  /\ Receive => UNCHANGED <<bills, supplierPayments, sales, register, returns>>
  /\ CreateBill => UNCHANGED <<goodsReceipts, supplierPayments, sales, books>>
  /\ PaySupplier =>
        UNCHANGED <<purchaseOrders, goodsReceipts, sales, onHand, costPrice, register, returns>>
  /\ CreatePurchaseOrder => UNCHANGED <<goodsReceipts, bills, supplierPayments, sales, books>>
  /\ ConfirmPurchaseOrder => UNCHANGED <<goodsReceipts, bills, supplierPayments, sales, books>>
  /\ CancelPurchaseOrder => UNCHANGED <<goodsReceipts, bills, supplierPayments, sales, books>>
  /\ IssueBill => UNCHANGED <<purchaseOrders, goodsReceipts, supplierPayments, sales, onHand,
                              costPrice, returns>>
<1>1. Receive => UNCHANGED <<bills, supplierPayments, sales, register, returns>>
  <2>1. ASSUME NEW i, NEW qty, NEW override, NEW read, receive(i, qty, override, read)
        PROVE  UNCHANGED <<bills, supplierPayments, sales, register, returns>>
    BY <2>1, Zenon DEF receive
  <2>2. QED
    BY <2>1 DEF Receive
<1>2. CreateBill => UNCHANGED <<goodsReceipts, supplierPayments, sales, books>>
  BY DEF CreateBill, create_bill
<1>3. PaySupplier =>
        UNCHANGED <<purchaseOrders, goodsReceipts, sales, onHand, costPrice, register, returns>>
  BY DEF PaySupplier, pay_supplier
<1>4. IssueBill => UNCHANGED <<purchaseOrders, goodsReceipts, supplierPayments, sales, onHand,
                              costPrice, returns>>
  BY DEF IssueBill, issue_bill
<1>5. CreatePurchaseOrder => UNCHANGED <<goodsReceipts, bills, supplierPayments, sales, books>>
  BY DEF CreatePurchaseOrder, create_purchase_order
<1>6. ConfirmPurchaseOrder => UNCHANGED <<goodsReceipts, bills, supplierPayments, sales, books>>
  BY DEF ConfirmPurchaseOrder, confirm_purchase_order
<1>7. CancelPurchaseOrder => UNCHANGED <<goodsReceipts, bills, supplierPayments, sales, books>>
  BY DEF CancelPurchaseOrder, cancel_purchase_order
<1>8. QED
  BY <1>1, <1>2, <1>3, <1>4, <1>5, <1>6, <1>7

\* A step is a request of sales or of purchasing, or a VAT return's.
LEMMA Steps ==
  ASSUME [Next]_vars
  PROVE  \/ SalesStep /\ UNCHANGED purchases /\ Commit
         \/ PurchaseStep /\ UNCHANGED sales /\ Commit
         \/ PrepareReturn
         \/ FileReturn
         \/ UNCHANGED vars
<1>1. CASE AddSales \/ MoveSales
  <2>1. NewSalesDocument \/ MoveSalesDocument => SalesStep
    BY DEF SalesStep, NewSalesDocument, MoveSalesDocument, CreateQuotation, Fulfil, CreateInvoice,
           RecordPayment, IssueCreditNote, SetQuotationStatus, ConvertQuotation, CreateOrder,
           ConfirmOrder, CancelOrder, IssueInvoice, Into
  <2>2. QED
    BY <1>1, <2>1 DEF AddSales, MoveSales
<1>2. CASE AddPurchase \/ MovePurchase
  <2>1. NewPurchaseDocument \/ MovePurchaseDocument => PurchaseStep
    BY DEF PurchaseStep, NewPurchaseDocument, MovePurchaseDocument, Receive, CreateBill,
           PaySupplier, CreatePurchaseOrder, ConfirmPurchaseOrder, CancelPurchaseOrder, IssueBill
  <2>2. PurchaseStep => UNCHANGED sales
    BY PurchaseFrames DEF PurchaseStep
  <2>3. QED
    BY <1>2, <2>1, <2>2 DEF AddPurchase, MovePurchase
<1>3. QED
  BY <1>1, <1>2 DEF Next

-----------------------------------------------------------------------------
(* What payments, documents and stock movements post *)

\* A payment moves one control account.
LEMMA PaymentMoves ==
  ASSUME NEW amount \in Nat, NEW cash
  PROVE  /\ Moves(customer_payment(amount, cash), -amount, 0, 0, 0, 0, 0)
         /\ Moves(supplier_payment(amount, cash), 0, amount, 0, 0, 0, 0)
<1>1. Moves(customer_payment(amount, cash), -amount, 0, 0, 0, 0, 0)
  <2>1. PICK e : e = customer_payment(amount, cash)
    OBVIOUS
  <2>2. \E m \in {"CASH", "BANK"} : DOMAIN e = {m, "AR_CONTROL"} /\ e[m] = amount
                                    /\ e["AR_CONTROL"] = -amount
    BY <2>1 DEF customer_payment
  <2>3. /\ \A a \in SystemAccount : On(e, a) \in Int
        /\ On(e, "AR_CONTROL") = -amount /\ On(e, "AP_CONTROL") = 0 /\ On(e, "VAT_OUTPUT") = 0
        /\ On(e, "VAT_INPUT") = 0 /\ On(e, "INVENTORY") + On(e, "COGS") = 0 /\ On(e, "GRNI") = 0
    BY <2>2 DEF On
  <2>4. QED
    BY <2>1, <2>3, MovesBy
<1>2. Moves(supplier_payment(amount, cash), 0, amount, 0, 0, 0, 0)
  <2>1. PICK e : e = supplier_payment(amount, cash)
    OBVIOUS
  <2>2. \E m \in {"CASH", "BANK"} : DOMAIN e = {m, "AP_CONTROL"} /\ e[m] = -amount
                                    /\ e["AP_CONTROL"] = amount
    BY <2>1 DEF supplier_payment
  <2>3. /\ \A a \in SystemAccount : On(e, a) \in Int
        /\ On(e, "AR_CONTROL") = 0 /\ On(e, "AP_CONTROL") = amount /\ On(e, "VAT_OUTPUT") = 0
        /\ On(e, "VAT_INPUT") = 0 /\ On(e, "INVENTORY") + On(e, "COGS") = 0 /\ On(e, "GRNI") = 0
    BY <2>2 DEF On
  <2>4. QED
    BY <2>1, <2>3, MovesBy
<1>3. QED
  BY <1>1, <1>2

\* The entry of an invoice, the empty one included.
LEMMA InvoiceMoves ==
  ASSUME NEW inv, inv.net \in Nat, inv.tax \in Nat
  PROVE  Moves(InvoiceEntry(inv), TotalOf(inv), 0, -inv.tax, 0, 0, 0)
<1>1. CASE inv.net + inv.tax <= 0
  <2>1. inv.net = 0 /\ inv.tax = 0
    BY <1>1
  <2>2. TotalOf(inv) = 0 /\ -inv.tax = 0
    BY <1>1 DEF TotalOf
  <2>3. InvoiceEntry(inv) = NoEntry
    BY <1>1 DEF TotalOf, InvoiceEntry
  <2>4. QED
    BY <2>2, <2>3, MovesNothing
<1>2. CASE ~(inv.net + inv.tax <= 0)
  <2>1. InvoiceEntry(inv) = credit_sale(inv.net, inv.tax)
    BY <1>2 DEF TotalOf, InvoiceEntry
  <2>2. QED
    BY <2>1, SaleMoves DEF TotalOf
<1>3. QED
  BY <1>1, <1>2

\* The entry of a credit note, the empty one included.
LEMMA NoteMoves ==
  ASSUME NEW net \in Nat, NEW tax \in Nat
  PROVE  Moves(ReturnEntry(net, tax), -(net + tax), 0, tax, 0, 0, 0)
<1>1. CASE net + tax > 0
  BY <1>1, ReturnMoves DEF ReturnEntry
<1>2. CASE ~(net + tax > 0)
  <2>1. net = 0 /\ tax = 0
    BY <1>2
  <2>2. -(net + tax) = 0 /\ tax = 0
    BY <1>2
  <2>3. ReturnEntry(net, tax) = NoEntry
    BY <1>2 DEF ReturnEntry
  <2>4. QED
    BY <2>2, <2>3, MovesNothing
<1>3. QED
  BY <1>1, <1>2

\* The entries of a shipment, a restocking and a receipt.
LEMMA StockMoves ==
  ASSUME NEW cost \in Nat
  PROVE  /\ Moves(FulfilmentEntry(cost), 0, 0, 0, 0, 0, 0)
         /\ Moves(CostReversal(cost), 0, 0, 0, 0, 0, 0)
         /\ Moves(IF cost > 0 THEN goods_receipt(PostedCost(cost)) ELSE NoEntry,
                  0, 0, 0, 0, PostedCost(cost), -PostedCost(cost))
<1>1. PICK c \in Nat : c = PostedCost(cost)
  BY PostedCostType
<1>2. CASE cost = 0
  <2>1. c = 0 /\ -c = 0
    BY <1>1, <1>2, PostedCostType
  <2>2. /\ FulfilmentEntry(cost) = NoEntry /\ CostReversal(cost) = NoEntry
        /\ (IF cost > 0 THEN goods_receipt(PostedCost(cost)) ELSE NoEntry) = NoEntry
    BY <1>2 DEF FulfilmentEntry, CostReversal
  <2>3. QED
    BY <1>1, <2>1, <2>2, MovesNothing
<1>3. CASE cost # 0
  <2>1. /\ FulfilmentEntry(cost) = cogs_recognition(c) /\ CostReversal(cost) = cogs_reversal(c)
        /\ (IF cost > 0 THEN goods_receipt(PostedCost(cost)) ELSE NoEntry) = goods_receipt(c)
    BY <1>1, <1>3 DEF FulfilmentEntry, CostReversal
  <2>2. QED
    BY <1>1, <2>1, CostMoves
<1>4. QED
  BY <1>2, <1>3

-----------------------------------------------------------------------------
(***************************************************************************)
(* Lines of an order keep their products, quantities and prices.           *)
(***************************************************************************)

\* The amounts of a document depend on the terms of the lines only.
LEMMA AmountsKept ==
  ASSUME NEW ls, NEW ms, SameTerms(ls, ms), NEW qty, DOMAIN qty \subseteq DOMAIN ls, NEW per
  PROVE  Amounts(qty, ms, per) = Amounts(qty, ls, per)
<1>1. \A p \in DOMAIN qty : line_totals(qty[p], ms[p], per) = line_totals(qty[p], ls[p], per)
  BY DEF SameTerms, line_totals
<1>2. QED
  BY <1>1 DEF Amounts

\* What an invoice and a bill took over from the lines of their order.
Matches(doc, os, per) ==
    /\ doc.order \in DOMAIN os
    /\ DOMAIN doc.qty \subseteq DOMAIN os[doc.order].lines
    /\ doc.net = NetOf(Amounts(doc.qty, os[doc.order].lines, per))
    /\ doc.tax = TaxOf(Amounts(doc.qty, os[doc.order].lines, per))

\* A document matches an order that keeps its terms.
LEMMA MatchesKept ==
  ASSUME NEW os, NEW ns, Kept(os, ns), NEW doc, NEW per, Matches(doc, os, per)
  PROVE  Matches(doc, ns, per)
<1>1. SameTerms(os[doc.order].lines, ns[doc.order].lines) /\ doc.order \in DOMAIN ns
  BY DEF Kept, Matches
<1>2. Amounts(doc.qty, ns[doc.order].lines, per) = Amounts(doc.qty, os[doc.order].lines, per)
  BY <1>1, AmountsKept DEF Matches
<1>3. QED
  BY <1>1, <1>2 DEF Matches, SameTerms

(* Orders of sales *)

\* A new sales order is a row with nothing shipped or invoiced.
LEMMA NewOrderType ==
  ASSUME NEW c \in Customer, NEW w \in Warehouse, NEW lines \in PerProduct(Line), NEW q \in Nat
  PROVE  /\ NewOrder(c, w, lines, q) \in SalesOrderRow
         /\ DOMAIN NewOrder(c, w, lines, q).lines = DOMAIN lines
         /\ \A p \in DOMAIN lines :
                /\ NewOrder(c, w, lines, q).lines[p].qty = lines[p].qty
                /\ NewOrder(c, w, lines, q).lines[p].fulfilled = 0
                /\ NewOrder(c, w, lines, q).lines[p].invoiced = 0
<1> DEFINE ls == [p \in DOMAIN lines |-> OrderLine(lines[p])]
<1>1. \A p \in DOMAIN lines : lines[p] \in Line
  BY OnProducts
<1>2. \A p \in DOMAIN lines : OrderLine(lines[p]) \in OrderLineRow
  BY <1>1 DEF Line, OrderLine, OrderLineRow
<1>3. ls \in [DOMAIN lines -> OrderLineRow]
  BY <1>2
<1>4. ls \in PerProduct(OrderLineRow)
  BY <1>3, OnProducts, IsOnProducts
<1>5. \A p \in DOMAIN lines : ls[p].qty = lines[p].qty /\ ls[p].fulfilled = 0 /\ ls[p].invoiced = 0
  BY DEF OrderLine
<1>6. DOMAIN ls = DOMAIN lines
  OBVIOUS
<1> HIDE DEF ls
<1>7. NewOrder(c, w, lines, q) =
        [customer |-> c, warehouse |-> w, status |-> "DRAFT", quotation |-> q, lines |-> ls]
  BY DEF NewOrder, ls
<1>8. QED
  BY <1>4, <1>5, <1>6, <1>7 DEF SalesOrderRow, SalesOrderStatus

\* One order with other lines or status.
LEMMA OrderReplaced ==
  ASSUME NEW i \in DOMAIN orders, orders \in Seq(SalesOrderRow), NEW ls \in PerProduct(OrderLineRow),
         NEW st \in SalesOrderStatus
  PROVE  LET row == [orders[i] EXCEPT !.lines = ls, !.status = st]
         IN  /\ row \in SalesOrderRow /\ row.lines = ls /\ row.status = st
             /\ row.customer = orders[i].customer /\ row.quotation = orders[i].quotation
             /\ [orders EXCEPT ![i].lines = ls, ![i].status = st] = [orders EXCEPT ![i] = row]
<1>1. orders[i] \in SalesOrderRow
  BY RowsFinite
<1>2. PICK o \in SalesOrderRow : o = orders[i]
  BY <1>1
<1>3. LET row == [o EXCEPT !.lines = ls, !.status = st]
      IN  /\ row \in SalesOrderRow /\ row.lines = ls /\ row.status = st
          /\ row.customer = o.customer /\ row.quotation = o.quotation
  BY DEF SalesOrderRow
<1>4. [orders EXCEPT ![i].lines = ls, ![i].status = st] = [orders EXCEPT ![i] = [orders[i] EXCEPT !.lines = ls, !.status = st]]
  OBVIOUS
<1>5. QED
  BY <1>2, <1>3, <1>4

\* A sales order with another status is a row.
LEMMA StatusReplaced ==
  ASSUME NEW i \in DOMAIN orders, orders \in Seq(SalesOrderRow), NEW st \in SalesOrderStatus
  PROVE  LET row == [orders[i] EXCEPT !.status = st]
         IN  /\ row \in SalesOrderRow /\ row.lines = orders[i].lines /\ row.status = st
             /\ row.customer = orders[i].customer /\ row.quotation = orders[i].quotation
             /\ [orders EXCEPT ![i].status = st] = [orders EXCEPT ![i] = row]
<1>1. orders[i] \in SalesOrderRow
  BY RowsFinite
<1>2. PICK o \in SalesOrderRow : o = orders[i]
  BY <1>1
<1>3. LET row == [o EXCEPT !.status = st]
      IN  /\ row \in SalesOrderRow /\ row.lines = o.lines /\ row.status = st
          /\ row.customer = o.customer /\ row.quotation = o.quotation
  BY DEF SalesOrderRow
<1>4. [orders EXCEPT ![i].status = st] = [orders EXCEPT ![i] = [orders[i] EXCEPT !.status = st]]
  OBVIOUS
<1>5. QED
  BY <1>2, <1>3, <1>4

\* A sales order with other lines is a row.
LEMMA LinesReplaced ==
  ASSUME NEW i \in DOMAIN orders, orders \in Seq(SalesOrderRow), NEW ls \in PerProduct(OrderLineRow)
  PROVE  LET row == [orders[i] EXCEPT !.lines = ls]
         IN  /\ row \in SalesOrderRow /\ row.lines = ls /\ row.status = orders[i].status
             /\ row.customer = orders[i].customer /\ row.quotation = orders[i].quotation
             /\ [orders EXCEPT ![i].lines = ls] = [orders EXCEPT ![i] = row]
<1>1. orders[i] \in SalesOrderRow
  BY RowsFinite
<1>2. PICK o \in SalesOrderRow : o = orders[i]
  BY <1>1
<1>3. LET row == [o EXCEPT !.lines = ls]
      IN  /\ row \in SalesOrderRow /\ row.lines = ls /\ row.status = o.status
          /\ row.customer = o.customer /\ row.quotation = o.quotation
  BY DEF SalesOrderRow
<1>4. [orders EXCEPT ![i].lines = ls] = [orders EXCEPT ![i] = [orders[i] EXCEPT !.lines = ls]]
  OBVIOUS
<1>5. QED
  BY <1>2, <1>3, <1>4

\* Lines whose fulfilled, or invoiced, counter goes up by the quantities qty.
Fulfilled(ls, ms, qty) ==
    SameTerms(ls, ms) /\ \A p \in DOMAIN ls : /\ ms[p].fulfilled = ls[p].fulfilled + On(qty, p)
                                              /\ ms[p].invoiced = ls[p].invoiced

Invoiced(ls, ms, qty) ==
    SameTerms(ls, ms) /\ \A p \in DOMAIN ls : /\ ms[p].invoiced = ls[p].invoiced + On(qty, p)
                                              /\ ms[p].fulfilled = ls[p].fulfilled

\* The lines after a shipment.
LEMMA FulfilledLines ==
  ASSUME NEW ls \in PerProduct(OrderLineRow), NEW qty, \A p \in DOMAIN qty : qty[p] \in Nat
  PROVE  LET ms == [p \in DOMAIN ls |-> IF p \in DOMAIN qty
                                        THEN [ls[p] EXCEPT !.fulfilled = @ + qty[p]] ELSE ls[p]]
         IN  ms \in PerProduct(OrderLineRow) /\ Fulfilled(ls, ms, qty)
<1> DEFINE ms == [p \in DOMAIN ls |-> IF p \in DOMAIN qty
                                      THEN [ls[p] EXCEPT !.fulfilled = @ + qty[p]] ELSE ls[p]]
<1>1. \A p \in DOMAIN ls : ls[p] \in OrderLineRow
  BY OnProducts
<1>2. \A p \in DOMAIN ls : /\ ms[p] \in OrderLineRow /\ ms[p].qty = ls[p].qty
                           /\ ms[p].price = ls[p].price /\ ms[p].disc = ls[p].disc
                           /\ ms[p].tax = ls[p].tax /\ ms[p].invoiced = ls[p].invoiced
                           /\ ms[p].fulfilled = ls[p].fulfilled + On(qty, p)
  BY <1>1 DEF OrderLineRow, On
<1>3. DOMAIN ms = DOMAIN ls /\ ms \in [DOMAIN ls -> OrderLineRow]
  BY <1>2
<1>4. ms \in PerProduct(OrderLineRow)
  BY <1>3, OnProducts, IsOnProducts
<1>5. QED
  BY <1>2, <1>3, <1>4 DEF Fulfilled, SameTerms

\* The lines after an invoice.
LEMMA InvoicedLines ==
  ASSUME NEW ls \in PerProduct(OrderLineRow), NEW qty, \A p \in DOMAIN qty : qty[p] \in Nat
  PROVE  LET ms == [p \in DOMAIN ls |-> IF p \in DOMAIN qty
                                        THEN [ls[p] EXCEPT !.invoiced = @ + qty[p]] ELSE ls[p]]
         IN  ms \in PerProduct(OrderLineRow) /\ Invoiced(ls, ms, qty)
<1> DEFINE ms == [p \in DOMAIN ls |-> IF p \in DOMAIN qty
                                      THEN [ls[p] EXCEPT !.invoiced = @ + qty[p]] ELSE ls[p]]
<1>1. \A p \in DOMAIN ls : ls[p] \in OrderLineRow
  BY OnProducts
<1>2. \A p \in DOMAIN ls : /\ ms[p] \in OrderLineRow /\ ms[p].qty = ls[p].qty
                           /\ ms[p].price = ls[p].price /\ ms[p].disc = ls[p].disc
                           /\ ms[p].tax = ls[p].tax /\ ms[p].fulfilled = ls[p].fulfilled
                           /\ ms[p].invoiced = ls[p].invoiced + On(qty, p)
  BY <1>1 DEF OrderLineRow, On
<1>3. DOMAIN ms = DOMAIN ls /\ ms \in [DOMAIN ls -> OrderLineRow]
  BY <1>2
<1>4. ms \in PerProduct(OrderLineRow)
  BY <1>3, OnProducts, IsOnProducts
<1>5. QED
  BY <1>2, <1>3, <1>4 DEF Invoiced, SameTerms

-----------------------------------------------------------------------------
(* Purchase orders *)

\* A new purchase order is a row with nothing received or billed.
LEMMA NewPurchaseOrderType ==
  ASSUME NEW s \in Supplier, NEW w \in Warehouse, NEW basket \in PurchaseBasket
  PROVE  /\ NewPurchaseOrder(s, w, basket) \in PurchaseOrderRow
         /\ DOMAIN NewPurchaseOrder(s, w, basket).lines = DOMAIN basket
         /\ \A p \in DOMAIN basket :
                /\ NewPurchaseOrder(s, w, basket).lines[p].received = 0
                /\ NewPurchaseOrder(s, w, basket).lines[p].billed = 0
<1> DEFINE ls == [p \in DOMAIN basket |->
        [qty |-> basket[p].qty, price |-> basket[p].price, disc |-> 0, tax |-> basket[p].tax,
         received |-> 0, billed |-> 0]]
<1>1. basket \in PerProduct(Line)
  BY PurchasingAssumption
<1>2. \A p \in DOMAIN basket : basket[p] \in Line
  BY <1>1, OnProducts
<1>3. \A p \in DOMAIN basket :
        [qty |-> basket[p].qty, price |-> basket[p].price, disc |-> 0, tax |-> basket[p].tax,
         received |-> 0, billed |-> 0] \in PurchaseOrderLineRow
  BY <1>2 DEF Line, PurchaseOrderLineRow
<1>4. ls \in [DOMAIN basket -> PurchaseOrderLineRow]
  BY <1>3
<1>5. ls \in PerProduct(PurchaseOrderLineRow)
  BY <1>1, <1>4, OnProducts, IsOnProducts
<1>6. DOMAIN ls = DOMAIN basket /\ \A p \in DOMAIN basket : ls[p].received = 0 /\ ls[p].billed = 0
  OBVIOUS
<1> HIDE DEF ls
<1>7. NewPurchaseOrder(s, w, basket) = [supplier |-> s, warehouse |-> w, status |-> "DRAFT", lines |-> ls]
  BY DEF NewPurchaseOrder, ls
<1>8. QED
  BY <1>5, <1>6, <1>7 DEF PurchaseOrderRow, PurchaseOrderStatus

\* A purchase order with other lines and status is a row.
LEMMA PurchaseOrderReplaced ==
  ASSUME NEW i \in DOMAIN purchaseOrders, purchaseOrders \in Seq(PurchaseOrderRow),
         NEW ls \in PerProduct(PurchaseOrderLineRow), NEW st \in PurchaseOrderStatus
  PROVE  LET row == [purchaseOrders[i] EXCEPT !.lines = ls, !.status = st]
         IN  /\ row \in PurchaseOrderRow /\ row.lines = ls /\ row.status = st
             /\ [purchaseOrders EXCEPT ![i].lines = ls, ![i].status = st]
                    = [purchaseOrders EXCEPT ![i] = row]
<1>1. purchaseOrders[i] \in PurchaseOrderRow
  BY RowsFinite
<1>2. PICK o \in PurchaseOrderRow : o = purchaseOrders[i]
  BY <1>1
<1>3. LET row == [o EXCEPT !.lines = ls, !.status = st]
      IN  row \in PurchaseOrderRow /\ row.lines = ls /\ row.status = st
  BY DEF PurchaseOrderRow
<1>4. [purchaseOrders EXCEPT ![i].lines = ls, ![i].status = st]
      = [purchaseOrders EXCEPT ![i] = [purchaseOrders[i] EXCEPT !.lines = ls, !.status = st]]
  OBVIOUS
<1>5. QED
  BY <1>2, <1>3, <1>4

\* A purchase order with another status is a row.
LEMMA PurchaseStatusReplaced ==
  ASSUME NEW i \in DOMAIN purchaseOrders, purchaseOrders \in Seq(PurchaseOrderRow),
         NEW st \in PurchaseOrderStatus
  PROVE  LET row == [purchaseOrders[i] EXCEPT !.status = st]
         IN  /\ row \in PurchaseOrderRow /\ row.lines = purchaseOrders[i].lines /\ row.status = st
             /\ [purchaseOrders EXCEPT ![i].status = st] = [purchaseOrders EXCEPT ![i] = row]
<1>1. purchaseOrders[i] \in PurchaseOrderRow
  BY RowsFinite
<1>2. PICK o \in PurchaseOrderRow : o = purchaseOrders[i]
  BY <1>1
<1>3. LET row == [o EXCEPT !.status = st]
      IN  row \in PurchaseOrderRow /\ row.lines = o.lines /\ row.status = st
  BY DEF PurchaseOrderRow
<1>4. [purchaseOrders EXCEPT ![i].status = st]
      = [purchaseOrders EXCEPT ![i] = [purchaseOrders[i] EXCEPT !.status = st]]
  OBVIOUS
<1>5. QED
  BY <1>2, <1>3, <1>4

\* A purchase order with other lines is a row.
LEMMA PurchaseLinesReplaced ==
  ASSUME NEW i \in DOMAIN purchaseOrders, purchaseOrders \in Seq(PurchaseOrderRow),
         NEW ls \in PerProduct(PurchaseOrderLineRow)
  PROVE  LET row == [purchaseOrders[i] EXCEPT !.lines = ls]
         IN  /\ row \in PurchaseOrderRow /\ row.lines = ls /\ row.status = purchaseOrders[i].status
             /\ [purchaseOrders EXCEPT ![i].lines = ls] = [purchaseOrders EXCEPT ![i] = row]
<1>1. purchaseOrders[i] \in PurchaseOrderRow
  BY RowsFinite
<1>2. PICK o \in PurchaseOrderRow : o = purchaseOrders[i]
  BY <1>1
<1>3. LET row == [o EXCEPT !.lines = ls]
      IN  row \in PurchaseOrderRow /\ row.lines = ls /\ row.status = o.status
  BY DEF PurchaseOrderRow
<1>4. [purchaseOrders EXCEPT ![i].lines = ls]
      = [purchaseOrders EXCEPT ![i] = [purchaseOrders[i] EXCEPT !.lines = ls]]
  OBVIOUS
<1>5. QED
  BY <1>2, <1>3, <1>4

Received(ls, ms, qty) ==
    SameTerms(ls, ms) /\ \A p \in DOMAIN ls : /\ ms[p].received = ls[p].received + On(qty, p)
                                              /\ ms[p].billed = ls[p].billed

Billed(ls, ms, qty) ==
    SameTerms(ls, ms) /\ \A p \in DOMAIN ls : /\ ms[p].billed = ls[p].billed + On(qty, p)
                                              /\ ms[p].received = ls[p].received

\* The lines after a receipt.
LEMMA ReceivedLines ==
  ASSUME NEW ls \in PerProduct(PurchaseOrderLineRow), NEW qty, \A p \in DOMAIN qty : qty[p] \in Nat
  PROVE  LET ms == [p \in DOMAIN ls |-> IF p \in DOMAIN qty
                                        THEN [ls[p] EXCEPT !.received = @ + qty[p]] ELSE ls[p]]
         IN  ms \in PerProduct(PurchaseOrderLineRow) /\ Received(ls, ms, qty)
<1> DEFINE ms == [p \in DOMAIN ls |-> IF p \in DOMAIN qty
                                      THEN [ls[p] EXCEPT !.received = @ + qty[p]] ELSE ls[p]]
<1>1. \A p \in DOMAIN ls : ls[p] \in PurchaseOrderLineRow
  BY OnProducts
<1>2. \A p \in DOMAIN ls : /\ ms[p] \in PurchaseOrderLineRow /\ ms[p].qty = ls[p].qty
                           /\ ms[p].price = ls[p].price /\ ms[p].disc = ls[p].disc
                           /\ ms[p].tax = ls[p].tax /\ ms[p].billed = ls[p].billed
                           /\ ms[p].received = ls[p].received + On(qty, p)
  BY <1>1 DEF PurchaseOrderLineRow, On
<1>3. DOMAIN ms = DOMAIN ls /\ ms \in [DOMAIN ls -> PurchaseOrderLineRow]
  BY <1>2
<1>4. ms \in PerProduct(PurchaseOrderLineRow)
  BY <1>3, OnProducts, IsOnProducts
<1>5. QED
  BY <1>2, <1>3, <1>4 DEF Received, SameTerms

\* The lines after a bill.
LEMMA BilledLines ==
  ASSUME NEW ls \in PerProduct(PurchaseOrderLineRow), NEW qty, \A p \in DOMAIN qty : qty[p] \in Nat
  PROVE  LET ms == [p \in DOMAIN ls |-> IF p \in DOMAIN qty
                                        THEN [ls[p] EXCEPT !.billed = @ + qty[p]] ELSE ls[p]]
         IN  ms \in PerProduct(PurchaseOrderLineRow) /\ Billed(ls, ms, qty)
<1> DEFINE ms == [p \in DOMAIN ls |-> IF p \in DOMAIN qty
                                      THEN [ls[p] EXCEPT !.billed = @ + qty[p]] ELSE ls[p]]
<1>1. \A p \in DOMAIN ls : ls[p] \in PurchaseOrderLineRow
  BY OnProducts
<1>2. \A p \in DOMAIN ls : /\ ms[p] \in PurchaseOrderLineRow /\ ms[p].qty = ls[p].qty
                           /\ ms[p].price = ls[p].price /\ ms[p].disc = ls[p].disc
                           /\ ms[p].tax = ls[p].tax /\ ms[p].received = ls[p].received
                           /\ ms[p].billed = ls[p].billed + On(qty, p)
  BY <1>1 DEF PurchaseOrderLineRow, On
<1>3. DOMAIN ms = DOMAIN ls /\ ms \in [DOMAIN ls -> PurchaseOrderLineRow]
  BY <1>2
<1>4. ms \in PerProduct(PurchaseOrderLineRow)
  BY <1>3, OnProducts, IsOnProducts
<1>5. QED
  BY <1>2, <1>3, <1>4 DEF Billed, SameTerms

(* Stock *)

\* A cost is a natural number.
LEMMA CostType ==
  ASSUME NEW qty \in PerProduct(Nat), NEW unit, \A p \in DOMAIN qty : unit[p] \in Nat
  PROVE  SumFunction([p \in DOMAIN Moved(qty) |-> qty[p] * unit[p]]) \in Nat
<1> DEFINE f == [p \in DOMAIN Moved(qty) |-> qty[p] * unit[p]]
<1>1. \A p \in DOMAIN qty : qty[p] \in Nat
  BY OnProducts
<1>2. \A p \in DOMAIN qty : qty[p] * unit[p] \in Nat
  BY <1>1
<1>3. DOMAIN f = DOMAIN Moved(qty) /\ \A p \in DOMAIN f : f[p] \in Nat
  BY <1>2, MovedIs
<1>4. IsFiniteSet(DOMAIN f)
  BY <1>3, MovedIs
<1> HIDE DEF f
<1>5. SumFunction(f) \in Nat
  BY <1>3, <1>4, SumNat
<1>6. QED
  BY <1>5 DEF f

-----------------------------------------------------------------------------
(***************************************************************************)
(* The tables: their shapes and constraints, and that an invoice and a     *)
(* bill still carry what they took over from the lines of their order.     *)
(***************************************************************************)

Tables ==
    /\ TypeOK /\ SalesChecks /\ PurchasingChecks
    /\ \A i \in DOMAIN invoices : /\ Matches(invoices[i], orders, 1)
                                  /\ DOMAIN invoices[i].credited = DOMAIN invoices[i].qty
    /\ \A i \in DOMAIN bills : Matches(bills[i], purchaseOrders, CostScale)
    /\ IsFiniteSet(register) /\ Len(returns) <= MaxDocuments
    /\ \A r \in register : r.claim <= Len(returns)

\* The rows of every table.
LEMMA Rows ==
  ASSUME TypeOK
  PROVE  /\ \A i \in DOMAIN quotations : quotations[i] \in QuotationRow
         /\ \A i \in DOMAIN orders : orders[i] \in SalesOrderRow
         /\ \A i \in DOMAIN shipments : shipments[i] \in FulfillmentRow
         /\ \A i \in DOMAIN invoices : invoices[i] \in InvoiceRow
         /\ \A i \in DOMAIN payments : payments[i] \in PaymentRow(Customer)
         /\ \A i \in DOMAIN notes : notes[i] \in CreditNoteRow
         /\ \A i \in DOMAIN purchaseOrders : purchaseOrders[i] \in PurchaseOrderRow
         /\ \A i \in DOMAIN goodsReceipts : goodsReceipts[i] \in GoodsReceiptRow
         /\ \A i \in DOMAIN bills : bills[i] \in SupplierBillRow
         /\ \A i \in DOMAIN supplierPayments : supplierPayments[i] \in PaymentRow(Supplier)
         /\ \A i \in DOMAIN returns : returns[i] \in VatReturnRow
BY RowsFinite DEF TypeOK, BooksRows, SalesRows, PurchasingRows

\* The lines of a sales order.
LEMMA SalesLines ==
  ASSUME TypeOK, NEW i \in DOMAIN orders
  PROVE  /\ orders[i].lines \in PerProduct(OrderLineRow)
         /\ DOMAIN orders[i].lines \subseteq Product /\ DOMAIN orders[i].lines # {}
         /\ \A p \in DOMAIN orders[i].lines :
                /\ orders[i].lines[p] \in OrderLineRow
                /\ orders[i].lines[p].qty \in Nat /\ orders[i].lines[p].price \in Nat
                /\ orders[i].lines[p].disc \in 0..Scale /\ orders[i].lines[p].tax \in 0..Scale
                /\ orders[i].lines[p].fulfilled \in Nat /\ orders[i].lines[p].invoiced \in Nat
<1>1. orders[i].lines \in PerProduct(OrderLineRow)
  BY Rows DEF SalesOrderRow
<1>2. \A p \in DOMAIN orders[i].lines : orders[i].lines[p] \in OrderLineRow
  BY <1>1, OnProducts
<1>3. \A l \in OrderLineRow : /\ l.qty \in Nat /\ l.price \in Nat /\ l.disc \in 0..Scale
                              /\ l.tax \in 0..Scale /\ l.fulfilled \in Nat /\ l.invoiced \in Nat
  BY DEF OrderLineRow
<1>4. DOMAIN orders[i].lines \subseteq Product /\ DOMAIN orders[i].lines # {}
  BY <1>1, OnProducts
<1>5. QED
  BY <1>1, <1>2, <1>3, <1>4

\* The lines of a purchase order.
LEMMA PurchaseLines ==
  ASSUME TypeOK, NEW i \in DOMAIN purchaseOrders
  PROVE  /\ purchaseOrders[i].lines \in PerProduct(PurchaseOrderLineRow)
         /\ DOMAIN purchaseOrders[i].lines \subseteq Product /\ DOMAIN purchaseOrders[i].lines # {}
         /\ \A p \in DOMAIN purchaseOrders[i].lines :
                /\ purchaseOrders[i].lines[p] \in PurchaseOrderLineRow
                /\ purchaseOrders[i].lines[p].qty \in Nat /\ purchaseOrders[i].lines[p].price \in Nat
                /\ purchaseOrders[i].lines[p].disc \in 0..Scale
                /\ purchaseOrders[i].lines[p].disc = 0
                /\ purchaseOrders[i].lines[p].tax \in 0..Scale
                /\ purchaseOrders[i].lines[p].received \in Nat
                /\ purchaseOrders[i].lines[p].billed \in Nat
<1>1. purchaseOrders[i].lines \in PerProduct(PurchaseOrderLineRow)
  BY Rows DEF PurchaseOrderRow
<1>2. \A p \in DOMAIN purchaseOrders[i].lines : purchaseOrders[i].lines[p] \in PurchaseOrderLineRow
  BY <1>1, OnProducts
<1>3. \A l \in PurchaseOrderLineRow :
          /\ l.qty \in Nat /\ l.price \in Nat /\ l.disc \in 0..Scale /\ l.disc = 0
          /\ l.tax \in 0..Scale /\ l.received \in Nat /\ l.billed \in Nat
  BY BooksAssumption DEF PurchaseOrderLineRow
<1>4. DOMAIN purchaseOrders[i].lines \subseteq Product /\ DOMAIN purchaseOrders[i].lines # {}
  BY <1>1, OnProducts
<1>5. QED
  BY <1>1, <1>2, <1>3, <1>4

(* Fulfilment *)

\* What fulfil does.
LEMMA FulfilEffect ==
  ASSUME Tables, NEW i \in DOMAIN orders, NEW qty \in Parts(Outstanding(orders[i])),
         NEW read \in CostsRead, fulfil(i, qty, read)
  PROVE  /\ qty \in PerProduct(Nat \ {0}) /\ qty \in PerProduct(Nat)
         /\ DOMAIN qty \subseteq DOMAIN orders[i].lines /\ CostOf(qty, read) \in Nat
         /\ orders[i].status \in {"CONFIRMED", "PARTIALLY_FULFILLED"}
         /\ \E row \in SalesOrderRow :
                /\ orders' = [orders EXCEPT ![i] = row]
                /\ row.customer = orders[i].customer /\ row.quotation = orders[i].quotation
                /\ row.status = ShippedStatus(row.lines)
                /\ Fulfilled(orders[i].lines, row.lines, qty)
         /\ [order |-> i, qty |-> qty, cost |-> CostOf(qty, read)] \in FulfillmentRow
         /\ shipments' = Append(shipments, [order |-> i, qty |-> qty, cost |-> CostOf(qty, read)])
         /\ balance' = Posted(balance, FulfilmentEntry(CostOf(qty, read)))
         /\ onHand' = TakeOut(orders[i].warehouse, qty)
<1> USE DEF Tables
<1>1. /\ \A p \in DOMAIN Outstanding(orders[i]) : Outstanding(orders[i])[p] \in Int
      /\ DOMAIN Outstanding(orders[i]) = DOMAIN orders[i].lines
  BY SalesLines DEF Outstanding
<1>2. DOMAIN Outstanding(orders[i]) \subseteq Product
  BY <1>1, SalesLines
<1>3. /\ qty \in PerProduct(Nat \ {0}) /\ DOMAIN qty \subseteq DOMAIN orders[i].lines
  BY <1>1, <1>2, PartsType
<1>4. qty \in PerProduct(Nat)
  BY <1>3, Weaker
<1>5. \A p \in DOMAIN qty : qty[p] \in Nat
  BY <1>4, OnProducts
<1>6. CostOf(qty, read) \in Nat
  <2>1. \A p \in DOMAIN qty : read[p] \in Nat
    BY <1>3, SalesLines, ReadType DEF TypeOK
  <2>2. QED
    BY <1>4, <2>1, CostType DEF CostOf
<1> DEFINE ls == orders[i].lines
           ms == [p \in DOMAIN ls |-> IF p \in DOMAIN qty
                                      THEN [ls[p] EXCEPT !.fulfilled = @ + qty[p]] ELSE ls[p]]
<1>7. ms \in PerProduct(OrderLineRow) /\ Fulfilled(ls, ms, qty)
  BY <1>5, SalesLines, FulfilledLines
<1>8. /\ orders' = [orders EXCEPT ![i].lines = ms, ![i].status = ShippedStatus(ms)]
      /\ orders[i].status \in {"CONFIRMED", "PARTIALLY_FULFILLED"}
      /\ shipments' = Append(shipments, [order |-> i, qty |-> qty, cost |-> CostOf(qty, read)])
      /\ onHand' = TakeOut(orders[i].warehouse, qty)
      /\ balance' = Posted(balance, FulfilmentEntry(CostOf(qty, read)))
  BY DEF fulfil
<1> HIDE DEF ms
<1>9. PICK st \in SalesOrderStatus : st = ShippedStatus(ms)
  BY DEF ShippedStatus, SalesOrderStatus
<1>10. PICK row : row = [orders[i] EXCEPT !.lines = ms, !.status = st]
  OBVIOUS
<1>11. orders \in Seq(SalesOrderRow) /\ orders' = [orders EXCEPT ![i].lines = ms, ![i].status = st]
  BY <1>8, <1>9 DEF TypeOK, SalesRows
<1>12. /\ row \in SalesOrderRow /\ row.lines = ms /\ row.status = ShippedStatus(ms)
       /\ row.customer = orders[i].customer /\ row.quotation = orders[i].quotation
       /\ orders' = [orders EXCEPT ![i] = row]
  <2>1. ms \in PerProduct(OrderLineRow) /\ orders \in Seq(SalesOrderRow)
    BY <1>7, <1>11
  <2>2. LET r == [orders[i] EXCEPT !.lines = ms, !.status = st]
        IN  /\ r \in SalesOrderRow /\ r.lines = ms /\ r.status = st
            /\ r.customer = orders[i].customer /\ r.quotation = orders[i].quotation
            /\ [orders EXCEPT ![i].lines = ms, ![i].status = st] = [orders EXCEPT ![i] = r]
    BY <2>1, OrderReplaced, Zenon
  <2>3. QED
    BY <1>9, <1>10, <1>11, <2>2, Zenon
<1>13. [order |-> i, qty |-> qty, cost |-> CostOf(qty, read)] \in FulfillmentRow
  BY <1>4, <1>6, <1>11, RowsFinite DEF FulfillmentRow
<1>14. QED
  BY <1>3, <1>4, <1>6, <1>7, <1>8, <1>12, <1>13

\* What create_invoice does.
LEMMA InvoiceEffect ==
  ASSUME Tables, NEW i \in DOMAIN orders, NEW only \in BOOLEAN, NEW d \in Date,
         create_invoice(i, only, d)
  PROVE  \E doc \in InvoiceRow, row \in SalesOrderRow :
            /\ invoices' = Append(invoices, doc)
            /\ doc.order = i /\ doc.status = "DRAFT" /\ doc.date = d /\ doc.paid = 0
            /\ doc.customer = orders[i].customer
            /\ doc.credited = [p \in DOMAIN doc.qty |-> 0]
            /\ doc.qty \in PerProduct(Nat \ {0})
            /\ Matches(doc, orders, 1)
            /\ orders' = [orders EXCEPT ![i] = row]
            /\ row.customer = orders[i].customer /\ row.quotation = orders[i].quotation
            /\ row.status = orders[i].status
            /\ Invoiced(orders[i].lines, row.lines, doc.qty)
<1> USE DEF Tables
<1> DEFINE ls == orders[i].lines
           q == ToInvoice(orders[i], only)
<1>1. PICK qty : qty = q
  OBVIOUS
<1>2. DOMAIN qty \subseteq DOMAIN ls /\ \A p \in DOMAIN qty : qty[p] \in Nat \ {0}
  <2>1. ASSUME NEW l \in OrderLineRow
        PROVE  (IF only THEN l.fulfilled ELSE l.qty) - l.invoiced \in Int
    BY DEF OrderLineRow
  <2>2. \A p \in DOMAIN ls : ls[p] \in OrderLineRow
    BY SalesLines
  <2>3. QED
    BY <1>1, <2>1, <2>2 DEF ToInvoice
<1>3. qty = [p \in DOMAIN qty |-> qty[p]]
  BY <1>1 DEF ToInvoice
<1>4. DOMAIN qty # {}
  BY <1>1 DEF create_invoice
<1>5. qty \in [DOMAIN qty -> Nat \ {0}]
  BY <1>2, <1>3
<1>6. qty \in PerProduct(Nat \ {0})
  BY <1>2, <1>4, <1>5, SalesLines, IsOnProducts
<1>7. qty \in PerProduct(Nat)
  BY <1>6, Weaker
<1> DEFINE ms == [p \in DOMAIN ls |-> IF p \in DOMAIN qty
                                      THEN [ls[p] EXCEPT !.invoiced = @ + qty[p]] ELSE ls[p]]
           am == Amounts(qty, ls, 1)
           zeros == [p \in DOMAIN qty |-> 0]
           doc == [customer |-> orders[i].customer, order |-> i, status |-> "DRAFT", date |-> d,
                   qty |-> qty, credited |-> zeros,
                   net |-> NetOf(am), tax |-> TaxOf(am), paid |-> 0]
<1>8. ms \in PerProduct(OrderLineRow) /\ Invoiced(ls, ms, qty)
  BY <1>2, SalesLines, InvoicedLines
<1>9. orders' = [orders EXCEPT ![i].lines = ms] /\ invoices' = Append(invoices, doc)
  BY <1>1 DEF create_invoice
<1>10. NetOf(am) \in Nat /\ TaxOf(am) \in Nat
  <2>1. \A p \in DOMAIN ls : ls[p].price \in Nat /\ ls[p].disc \in 0..Scale /\ ls[p].tax \in 0..Scale
    BY SalesLines
  <2>2. 1 \in Nat \ {0} /\ Nat \subseteq Nat
    OBVIOUS
  <2>3. QED
    BY <1>2, <1>7, <2>1, <2>2, AmountsType
<1>11. zeros \in [DOMAIN qty -> Nat]
  OBVIOUS
<1>12. zeros \in PerProduct(Nat)
  BY <1>2, <1>4, <1>11, SalesLines, IsOnProducts
<1>13. orders \in Seq(SalesOrderRow) /\ i \in Nat /\ orders[i].customer \in Customer
  BY RowsFinite, Rows DEF TypeOK, SalesRows, SalesOrderRow
<1> HIDE DEF ms, am, zeros
<1>14. doc \in InvoiceRow
  BY <1>7, <1>10, <1>12, <1>13 DEF InvoiceRow, InvoiceStatus
<1>15. /\ doc.order = i /\ doc.status = "DRAFT" /\ doc.date = d /\ doc.paid = 0 /\ doc.qty = qty
       /\ doc.customer = orders[i].customer /\ doc.credited = zeros
       /\ doc.net = NetOf(am) /\ doc.tax = TaxOf(am)
  OBVIOUS
<1> HIDE DEF doc
<1>16. Matches(doc, orders, 1)
  BY <1>2, <1>15 DEF Matches, am
<1>17. PICK row : row = [orders[i] EXCEPT !.lines = ms]
  OBVIOUS
<1>18. /\ row \in SalesOrderRow /\ row.lines = ms /\ row.status = orders[i].status
       /\ row.customer = orders[i].customer /\ row.quotation = orders[i].quotation
       /\ orders' = [orders EXCEPT ![i] = row]
  BY <1>8, <1>9, <1>13, <1>17, LinesReplaced
<1>19. zeros = [p \in DOMAIN doc.qty |-> 0]
  BY <1>15 DEF zeros
<1>20. QED
  BY <1>6, <1>8, <1>9, <1>14, <1>15, <1>16, <1>18, <1>19

-----------------------------------------------------------------------------
(* Payments *)

\* A table rewritten row by row is a table.
LEMMA MapRows ==
  ASSUME NEW R, NEW s \in Seq(R), NEW f \in [DOMAIN s -> R]
  PROVE  f \in Seq(R) /\ Len(f) = Len(s) /\ DOMAIN f = DOMAIN s
<1>1. DOMAIN s = 1..Len(s) /\ Len(s) \in Nat
  OBVIOUS
<1>2. PICK n \in Nat : n = Len(s)
  BY <1>1
<1>3. f \in [1..n -> R]
  BY <1>1, <1>2
<1>4. f \in Seq(R) /\ Len(f) = n
  BY <1>3
<1>5. QED
  BY <1>2, <1>4

\* The rest of a document when some of it is paid.
PaidMore(doc, new, amount) ==
    /\ new.order = doc.order /\ new.date = doc.date /\ new.qty = doc.qty
    /\ new.net = doc.net /\ new.tax = doc.tax /\ new.paid = doc.paid + amount
    /\ new.status \in {"PARTIALLY_PAID", "PAID"}

\* An invoice that is paid more is an invoice.
LEMMA InvoiceSettled ==
  ASSUME NEW doc \in InvoiceRow, NEW amount \in Nat
  PROVE  /\ Settled(doc, amount) \in InvoiceRow /\ PaidMore(doc, Settled(doc, amount), amount)
         /\ Settled(doc, amount).customer = doc.customer
         /\ Settled(doc, amount).credited = doc.credited
<1>1. PICK st : st = IF doc.paid + amount >= TotalOf(doc) THEN "PAID" ELSE "PARTIALLY_PAID"
  OBVIOUS
<1>2. st \in {"PARTIALLY_PAID", "PAID"}
  BY <1>1
<1>3. PICK n \in Nat : n = doc.paid + amount
  BY DEF InvoiceRow
<1>4. Settled(doc, amount) = [doc EXCEPT !.paid = n, !.status = st]
  BY <1>1, <1>3, Zenon DEF Settled
<1>5. PICK new : new = [doc EXCEPT !.paid = n, !.status = st]
  OBVIOUS
<1>6. new \in InvoiceRow
  BY <1>2, <1>5 DEF InvoiceRow, InvoiceStatus
<1>7. /\ new.order = doc.order /\ new.date = doc.date /\ new.qty = doc.qty
      /\ new.net = doc.net /\ new.tax = doc.tax /\ new.paid = n /\ new.status = st
      /\ new.customer = doc.customer /\ new.credited = doc.credited
  BY <1>5 DEF InvoiceRow
<1>8. QED
  BY <1>2, <1>3, <1>4, <1>5, <1>6, <1>7 DEF PaidMore

\* A bill that is paid more is a bill.
LEMMA BillSettled ==
  ASSUME NEW doc \in SupplierBillRow, NEW amount \in Nat
  PROVE  /\ Settled(doc, amount) \in SupplierBillRow /\ PaidMore(doc, Settled(doc, amount), amount)
         /\ Settled(doc, amount).supplier = doc.supplier
<1>1. PICK st : st = IF doc.paid + amount >= TotalOf(doc) THEN "PAID" ELSE "PARTIALLY_PAID"
  OBVIOUS
<1>2. st \in {"PARTIALLY_PAID", "PAID"}
  BY <1>1
<1>3. PICK n \in Nat : n = doc.paid + amount
  BY DEF SupplierBillRow
<1>4. Settled(doc, amount) = [doc EXCEPT !.paid = n, !.status = st]
  BY <1>1, <1>3, Zenon DEF Settled
<1>5. PICK new : new = [doc EXCEPT !.paid = n, !.status = st]
  OBVIOUS
<1>6. new \in SupplierBillRow
  BY <1>2, <1>5 DEF SupplierBillRow, SupplierBillStatus
<1>7. /\ new.order = doc.order /\ new.date = doc.date /\ new.qty = doc.qty
      /\ new.net = doc.net /\ new.tax = doc.tax /\ new.paid = n /\ new.status = st
      /\ new.supplier = doc.supplier
  BY <1>5 DEF SupplierBillRow
<1>8. QED
  BY <1>2, <1>3, <1>4, <1>5, <1>6, <1>7 DEF PaidMore

\* Allocations are positive amounts of finitely many documents.
LEMMA AllocationsType ==
  ASSUME NEW D, D \subseteq Nat, IsFiniteSet(D), NEW allocated \in Allocations(D)
  PROVE  /\ allocated \in PerDocument(Nat) /\ DOMAIN allocated \subseteq D
         /\ IsFiniteSet(DOMAIN allocated)
         /\ \A i \in DOMAIN allocated : allocated[i] \in Nat
         /\ SumFunction(allocated) \in Nat
<1>1. PICK S \in SUBSET D : allocated \in [S -> Receipts]
  BY DEF Allocations
<1>2. allocated \in [S -> Nat] /\ S \in SUBSET Nat
  BY <1>1, SalesAssumption
<1>3. allocated \in PerDocument(Nat)
  BY <1>2 DEF PerDocument
<1>4. IsFiniteSet(S) /\ DOMAIN allocated = S /\ \A i \in DOMAIN allocated : allocated[i] \in Nat
  BY <1>1, <1>2, FS_Subset
<1>5. SumFunction(allocated) \in Nat
  BY <1>4, SumNat
<1>6. QED
  BY <1>3, <1>4, <1>5

\* What record_payment does.
LEMMA PaymentEffect ==
  ASSUME Tables, NEW c \in Customer, NEW method \in Methods, NEW amount \in Receipts,
         NEW allocated \in Allocations({i \in DOMAIN invoices : invoices[i].customer = c}),
         record_payment(c, method, amount, allocated)
  PROVE  /\ allocated \in PerDocument(Nat) /\ DOMAIN allocated \subseteq DOMAIN invoices
         /\ IsFiniteSet(DOMAIN allocated) /\ \A i \in DOMAIN allocated : allocated[i] \in Nat
         /\ amount \in Nat /\ SumFunction(allocated) \in Nat /\ SumFunction(allocated) <= amount
         /\ [party |-> c, amount |-> amount, allocated |-> allocated] \in PaymentRow(Customer)
         /\ payments' = Append(payments, [party |-> c, amount |-> amount, allocated |-> allocated])
         /\ invoices' \in Seq(InvoiceRow) /\ DOMAIN invoices' = DOMAIN invoices
         /\ \A i \in DOMAIN allocated :
                /\ invoices[i].status \in {"ISSUED", "PARTIALLY_PAID"}
                /\ PaidMore(invoices[i], invoices'[i], allocated[i])
                /\ invoices'[i].customer = invoices[i].customer
                /\ invoices'[i].credited = invoices[i].credited
         /\ \A i \in DOMAIN invoices \ DOMAIN allocated : invoices'[i] = invoices[i]
         /\ balance' = Posted(balance, customer_payment(amount, method = "CASH"))
<1> USE DEF Tables
<1>1. PICK D : D = {i \in DOMAIN invoices : invoices[i].customer = c}
  OBVIOUS
<1>2. invoices \in Seq(InvoiceRow) /\ IsFiniteSet(DOMAIN invoices) /\ DOMAIN invoices \subseteq Nat
  BY RowsFinite DEF TypeOK, SalesRows
<1>3. D \subseteq Nat /\ IsFiniteSet(D) /\ D \subseteq DOMAIN invoices
  BY <1>1, <1>2, FS_Subset
<1>4. /\ allocated \in PerDocument(Nat) /\ DOMAIN allocated \subseteq D
      /\ IsFiniteSet(DOMAIN allocated)
      /\ \A i \in DOMAIN allocated : allocated[i] \in Nat
      /\ SumFunction(allocated) \in Nat
  BY <1>1, <1>3, AllocationsType
<1>5. amount \in Nat
  BY SalesAssumption
<1>6. [party |-> c, amount |-> amount, allocated |-> allocated] \in PaymentRow(Customer)
  BY <1>4, <1>5 DEF PaymentRow
<1>7. /\ SumFunction(allocated) <= amount
      /\ \A i \in DOMAIN allocated : invoices[i].status \in {"ISSUED", "PARTIALLY_PAID"}
      /\ payments' = Append(payments, [party |-> c, amount |-> amount, allocated |-> allocated])
      /\ invoices' = [i \in DOMAIN invoices |->
            IF i \in DOMAIN allocated THEN Settled(invoices[i], allocated[i]) ELSE invoices[i]]
      /\ balance' = Posted(balance, customer_payment(amount, method = "CASH"))
  BY DEF record_payment, Allocatable
<1>8. \A i \in DOMAIN invoices : invoices[i] \in InvoiceRow
  BY Rows
<1>9. ASSUME NEW i \in DOMAIN allocated
      PROVE  /\ Settled(invoices[i], allocated[i]) \in InvoiceRow
             /\ PaidMore(invoices[i], Settled(invoices[i], allocated[i]), allocated[i])
             /\ Settled(invoices[i], allocated[i]).customer = invoices[i].customer
             /\ Settled(invoices[i], allocated[i]).credited = invoices[i].credited
  <2>1. invoices[i] \in InvoiceRow /\ allocated[i] \in Nat
    BY <1>3, <1>4, <1>8
  <2>2. QED
    BY <2>1, InvoiceSettled
<1>10. invoices' \in [DOMAIN invoices -> InvoiceRow]
  BY <1>7, <1>8, <1>9
<1>11. invoices' \in Seq(InvoiceRow) /\ DOMAIN invoices' = DOMAIN invoices
  BY <1>2, <1>10, MapRows
<1>12. ASSUME NEW i \in DOMAIN allocated
       PROVE  /\ PaidMore(invoices[i], invoices'[i], allocated[i])
              /\ invoices'[i].customer = invoices[i].customer
              /\ invoices'[i].credited = invoices[i].credited
  <2>1. invoices'[i] = Settled(invoices[i], allocated[i])
    BY <1>3, <1>4, <1>7
  <2>2. QED
    BY <1>9, <2>1
<1>13. \A i \in DOMAIN invoices \ DOMAIN allocated : invoices'[i] = invoices[i]
  BY <1>7
<1>14. QED
  BY <1>3, <1>4, <1>5, <1>6, <1>7, <1>11, <1>12, <1>13

\* What pay_supplier does.
LEMMA SupplierPaymentEffect ==
  ASSUME Tables, NEW s \in Supplier, NEW method \in Methods, NEW amount \in Receipts,
         NEW allocated \in Allocations({i \in DOMAIN bills : bills[i].supplier = s}),
         pay_supplier(s, method, amount, allocated)
  PROVE  /\ allocated \in PerDocument(Nat) /\ DOMAIN allocated \subseteq DOMAIN bills
         /\ IsFiniteSet(DOMAIN allocated) /\ \A i \in DOMAIN allocated : allocated[i] \in Nat
         /\ amount \in Nat /\ SumFunction(allocated) \in Nat /\ SumFunction(allocated) <= amount
         /\ [party |-> s, amount |-> amount, allocated |-> allocated] \in PaymentRow(Supplier)
         /\ supplierPayments' = Append(supplierPayments,
                [party |-> s, amount |-> amount, allocated |-> allocated])
         /\ bills' \in Seq(SupplierBillRow) /\ DOMAIN bills' = DOMAIN bills
         /\ \A i \in DOMAIN allocated :
                /\ bills[i].status \in {"ISSUED", "PARTIALLY_PAID"}
                /\ PaidMore(bills[i], bills'[i], allocated[i])
                /\ bills'[i].supplier = bills[i].supplier
         /\ \A i \in DOMAIN bills \ DOMAIN allocated : bills'[i] = bills[i]
         /\ balance' = Posted(balance, supplier_payment(amount, method = "CASH"))
<1> USE DEF Tables
<1>1. PICK D : D = {i \in DOMAIN bills : bills[i].supplier = s}
  OBVIOUS
<1>2. bills \in Seq(SupplierBillRow) /\ IsFiniteSet(DOMAIN bills) /\ DOMAIN bills \subseteq Nat
  BY RowsFinite DEF TypeOK, PurchasingRows
<1>3. D \subseteq Nat /\ IsFiniteSet(D) /\ D \subseteq DOMAIN bills
  BY <1>1, <1>2, FS_Subset
<1>4. /\ allocated \in PerDocument(Nat) /\ DOMAIN allocated \subseteq D
      /\ IsFiniteSet(DOMAIN allocated)
      /\ \A i \in DOMAIN allocated : allocated[i] \in Nat
      /\ SumFunction(allocated) \in Nat
  BY <1>1, <1>3, AllocationsType
<1>5. amount \in Nat
  BY SalesAssumption
<1>6. [party |-> s, amount |-> amount, allocated |-> allocated] \in PaymentRow(Supplier)
  BY <1>4, <1>5 DEF PaymentRow
<1>7. /\ SumFunction(allocated) <= amount
      /\ \A i \in DOMAIN allocated : bills[i].status \in {"ISSUED", "PARTIALLY_PAID"}
      /\ supplierPayments' = Append(supplierPayments,
            [party |-> s, amount |-> amount, allocated |-> allocated])
      /\ bills' = [i \in DOMAIN bills |->
            IF i \in DOMAIN allocated THEN Settled(bills[i], allocated[i]) ELSE bills[i]]
      /\ balance' = Posted(balance, supplier_payment(amount, method = "CASH"))
  BY DEF pay_supplier, Allocatable
<1>8. \A i \in DOMAIN bills : bills[i] \in SupplierBillRow
  BY Rows
<1>9. ASSUME NEW i \in DOMAIN allocated
      PROVE  /\ Settled(bills[i], allocated[i]) \in SupplierBillRow
             /\ PaidMore(bills[i], Settled(bills[i], allocated[i]), allocated[i])
             /\ Settled(bills[i], allocated[i]).supplier = bills[i].supplier
  <2>1. bills[i] \in SupplierBillRow /\ allocated[i] \in Nat
    BY <1>3, <1>4, <1>8
  <2>2. QED
    BY <2>1, BillSettled
<1>10. bills' \in [DOMAIN bills -> SupplierBillRow]
  BY <1>7, <1>8, <1>9
<1>11. bills' \in Seq(SupplierBillRow) /\ DOMAIN bills' = DOMAIN bills
  BY <1>2, <1>10, MapRows
<1>12. ASSUME NEW i \in DOMAIN allocated
       PROVE  /\ PaidMore(bills[i], bills'[i], allocated[i])
              /\ bills'[i].supplier = bills[i].supplier
  <2>1. bills'[i] = Settled(bills[i], allocated[i])
    BY <1>3, <1>4, <1>7
  <2>2. QED
    BY <1>9, <2>1
<1>13. \A i \in DOMAIN bills \ DOMAIN allocated : bills'[i] = bills[i]
  BY <1>7
<1>14. QED
  BY <1>3, <1>4, <1>5, <1>6, <1>7, <1>11, <1>12, <1>13

-----------------------------------------------------------------------------
(* Issuing an invoice, and crediting it *)

\* The amounts of an invoice, line by line.
LEMMA InvoiceAmounts ==
  ASSUME Tables, NEW i \in DOMAIN invoices
  PROVE  /\ invoices[i] \in InvoiceRow /\ invoices[i].order \in DOMAIN orders
         /\ invoices[i].qty \in PerProduct(Nat)
         /\ DOMAIN invoices[i].qty \subseteq DOMAIN PricesOf(invoices[i])
         /\ \A p \in DOMAIN PricesOf(invoices[i]) :
                /\ PricesOf(invoices[i])[p].price \in Nat /\ PricesOf(invoices[i])[p].disc \in 0..Scale
                /\ PricesOf(invoices[i])[p].tax \in 0..Scale
<1>1. invoices[i] \in InvoiceRow /\ Matches(invoices[i], orders, 1) /\ TypeOK
  BY Rows DEF Tables
<1>2. invoices[i].qty \in PerProduct(Nat) /\ invoices[i].order \in DOMAIN orders
  BY <1>1 DEF InvoiceRow, Matches
<1>3. QED
  BY <1>1, <1>2, SalesLines DEF Matches, PricesOf

\* The quantities of a document at the prices of its lines.
LEMMA Priced ==
  ASSUME NEW qty \in PerProduct(Nat), NEW lines, DOMAIN qty \subseteq DOMAIN lines,
         \A p \in DOMAIN lines : /\ lines[p].price \in Nat /\ lines[p].disc \in 0..Scale
                                 /\ lines[p].tax \in 0..Scale,
         NEW per \in Nat \ {0}
  PROVE  /\ Amounts(qty, lines, per) \in [DOMAIN qty -> Amount] /\ IsFiniteSet(DOMAIN qty)
         /\ NetOf(Amounts(qty, lines, per)) \in Nat /\ TaxOf(Amounts(qty, lines, per)) \in Nat
<1>1. Nat \subseteq Nat
  OBVIOUS
<1>2. QED
  BY <1>1, AmountsType, OnProducts

\* Issuing invoice i, which becomes doc, and its rows of the register.
IssueInvoiceChange(i, doc, rows) ==
    /\ invoices[i].status = "DRAFT" /\ doc.status = "ISSUED"
    /\ doc.customer = invoices[i].customer
    /\ doc.order = invoices[i].order /\ doc.qty = invoices[i].qty
    /\ doc.credited = invoices[i].credited /\ doc.net = invoices[i].net
    /\ doc.tax = invoices[i].tax /\ doc.paid = invoices[i].paid
    /\ invoices' = [invoices EXCEPT ![i] = doc]
    /\ balance' = Posted(balance, InvoiceEntry(invoices[i]))
    /\ register' = register \cup rows /\ IsFiniteSet(rows)
    /\ \A r \in rows : /\ r \in VatRow /\ r.source = <<"invoice", i>>
                       /\ r.direction = "OUTPUT" /\ r.claim = 0 /\ r.vat >= 0
    /\ SumFunction([r \in rows |-> r.vat]) = invoices[i].tax

\* What issue_invoice does.
LEMMA IssueInvoiceEffect ==
  ASSUME Tables, NEW i \in DOMAIN invoices, issue_invoice(i)
  PROVE  \E doc \in InvoiceRow : \E rows : IssueInvoiceChange(i, doc, rows)
<1>1. PICK inv \in InvoiceRow : inv = invoices[i]
  BY InvoiceAmounts
<1>2. PICK doc : doc = [inv EXCEPT !.status = "ISSUED"]
  OBVIOUS
<1>3. /\ doc \in InvoiceRow /\ doc.status = "ISSUED" /\ doc.customer = inv.customer
      /\ doc.order = inv.order /\ doc.qty = inv.qty /\ doc.credited = inv.credited
      /\ doc.net = inv.net /\ doc.tax = inv.tax /\ doc.paid = inv.paid
  BY <1>2 DEF InvoiceRow, InvoiceStatus
<1>4. /\ inv.status = "DRAFT" /\ invoices' = [invoices EXCEPT ![i] = doc]
      /\ balance' = Posted(balance, InvoiceEntry(invoices[i]))
      /\ register' = register \cup VatOfInvoice(i)
  BY <1>1, <1>2 DEF issue_invoice, Issuable
<1>5. PICK rows : rows = VatOfInvoice(i)
  OBVIOUS
<1>6. PICK lines, qty, am : lines = PricesOf(inv) /\ qty = inv.qty /\ am = Amounts(qty, lines, 1)
  OBVIOUS
<1>7. rows = RowsPerRate(<<"invoice", i>>, "OUTPUT", inv.date, 1, lines, am)
  BY <1>1, <1>5, <1>6, Zenon DEF VatOfInvoice
<1>8. /\ qty \in PerProduct(Nat) /\ DOMAIN qty \subseteq DOMAIN lines
      /\ \A p \in DOMAIN lines : /\ lines[p].price \in Nat /\ lines[p].disc \in 0..Scale
                                 /\ lines[p].tax \in 0..Scale
  BY <1>1, <1>6, InvoiceAmounts
<1>9. 1 \in Nat \ {0}
  OBVIOUS
<1>10. am \in [DOMAIN qty -> Amount] /\ IsFiniteSet(DOMAIN qty) /\ TaxOf(am) \in Nat
  BY <1>6, <1>8, <1>9, Priced
<1>11. TaxOf(am) = inv.tax
  BY <1>1, <1>6 DEF Tables, Matches, PricesOf
<1>12. PICK source : source = <<"invoice", i>>
  OBVIOUS
<1>13. /\ source \in {"invoice", "credit_note", "supplier_bill", "pos_sale", "pos_return"} \X Nat
       /\ inv.date \in Date /\ \A p \in DOMAIN qty : lines[p].tax \in 0..Scale
       /\ 1 \in {1, -1} /\ "OUTPUT" \in {"OUTPUT", "INPUT"}
       /\ rows = RowsPerRate(source, "OUTPUT", inv.date, 1, lines, am)
  <2>1. i \in Nat
    BY RowsFinite DEF Tables, TypeOK, SalesRows
  <2>2. inv.date \in Date
    BY DEF InvoiceRow
  <2>3. QED
    BY <1>7, <1>8, <1>12, <2>1, <2>2
<1>14. /\ IsFiniteSet(rows)
       /\ \A r \in rows : /\ r \in VatRow /\ r.source = source
                          /\ r.direction = "OUTPUT" /\ r.claim = 0 /\ r.vat >= 0
       /\ SumFunction([r \in rows |-> r.vat]) = 1 * TaxOf(am)
  <2>1. RowsFor(rows, source, "OUTPUT", inv.date, 1, lines, DOMAIN qty, am)
    BY <1>10, <1>13 DEF RowsFor
  <2>2. RowsAddUp(rows, source, "OUTPUT", 1, TaxOf(am), NetOf(am))
    BY <2>1, RateRows, Zenon
  <2>3. QED
    BY <2>2 DEF RowsAddUp
<1>15. SumFunction([r \in rows |-> r.vat]) = inv.tax
  BY <1>10, <1>11, <1>14
<1>16. IssueInvoiceChange(i, doc, rows)
  BY <1>1, <1>3, <1>4, <1>5, <1>12, <1>14, <1>15 DEF IssueInvoiceChange
<1>17. QED
  BY <1>3, <1>16

\* A credit note: note on invoice i, which becomes doc, and its rows of the register.
CreditNoteChange(i, qty, into, doc, note, rows) ==
    /\ doc.status = invoices[i].status /\ doc.customer = invoices[i].customer
    /\ doc.order = invoices[i].order /\ doc.qty = invoices[i].qty
    /\ doc.net = invoices[i].net /\ doc.tax = invoices[i].tax /\ doc.paid = invoices[i].paid
    /\ DOMAIN doc.credited = DOMAIN invoices[i].credited
    /\ \A p \in DOMAIN doc.credited : doc.credited[p] = invoices[i].credited[p] + On(qty, p)
    /\ invoices' = [invoices EXCEPT ![i] = doc]
    /\ note.invoice = i /\ note.qty = qty /\ note.into = into
    /\ note.cost \in Nat /\ note.net \in Nat /\ note.tax \in Nat
    /\ notes' = Append(notes, note)
    /\ balance' = Posted(Posted(balance, ReturnEntry(note.net, note.tax)),
                                 CostReversal(note.cost))
    /\ register' = register \cup rows /\ IsFiniteSet(rows)
    /\ \A r \in rows : /\ r \in VatRow /\ r.source = <<"credit_note", Len(notes) + 1>>
                       /\ r.direction = "OUTPUT" /\ r.claim = 0 /\ r.vat <= 0
    /\ SumFunction([r \in rows |-> r.vat]) = -note.tax

\* What issue_credit_note does.
LEMMA CreditNoteEffect ==
  ASSUME Tables, NEW i \in DOMAIN invoices, NEW into \in Into, NEW d \in Date,
         NEW qty \in Parts(Creditable(invoices[i])), NEW read \in CostsRead,
         issue_credit_note(i, qty, into, d, read)
  PROVE  /\ qty \in PerProduct(Nat \ {0}) /\ qty \in PerProduct(Nat)
         /\ DOMAIN qty \subseteq DOMAIN invoices[i].qty
         /\ invoices[i].status \in {"ISSUED", "PARTIALLY_PAID", "PAID"}
         /\ onHand' = Restocked(into, qty)
         /\ \E doc \in InvoiceRow, note \in CreditNoteRow : \E rows :
            CreditNoteChange(i, qty, into, doc, note, rows)
<1>0. TypeOK
  BY DEF Tables
<1>1. PICK inv \in InvoiceRow : inv = invoices[i]
  BY InvoiceAmounts
<1>2. inv.qty \in PerProduct(Nat) /\ inv.credited \in PerProduct(Nat)
  BY DEF InvoiceRow
<1>3. DOMAIN inv.credited = DOMAIN inv.qty
  BY <1>1 DEF Tables
<1>4. /\ \A p \in DOMAIN inv.qty : inv.qty[p] \in Nat /\ inv.credited[p] \in Nat
      /\ DOMAIN inv.qty \subseteq Product /\ DOMAIN inv.qty # {}
  BY <1>2, <1>3, OnProducts
<1>5. /\ \A p \in DOMAIN Creditable(inv) : Creditable(inv)[p] \in Int
      /\ DOMAIN Creditable(inv) = DOMAIN inv.qty
  BY <1>4 DEF Creditable
<1>6. qty \in Parts(Creditable(inv)) /\ DOMAIN Creditable(inv) \subseteq Product
  BY <1>1, <1>4, <1>5
<1>7. qty \in PerProduct(Nat \ {0}) /\ DOMAIN qty \subseteq DOMAIN inv.qty
  BY <1>5, <1>6, PartsType
<1>8. qty \in PerProduct(Nat)
  BY <1>7, Weaker
<1>9. \A p \in DOMAIN qty : qty[p] \in Nat
  BY <1>8, OnProducts
<1>10. PICK lines, am, cost, net, tax :
          /\ lines = PricesOf(inv) /\ am = Amounts(qty, lines, 1)
          /\ cost = (IF into = {} THEN 0 ELSE CostOf(qty, read)) /\ net = NetOf(am) /\ tax = TaxOf(am)
  OBVIOUS
<1>11. /\ DOMAIN qty \subseteq DOMAIN lines
       /\ \A p \in DOMAIN lines : /\ lines[p].price \in Nat /\ lines[p].disc \in 0..Scale
                                  /\ lines[p].tax \in 0..Scale
  BY <1>1, <1>7, <1>10, InvoiceAmounts
<1>12. 1 \in Nat \ {0}
  OBVIOUS
<1>13. am \in [DOMAIN qty -> Amount] /\ IsFiniteSet(DOMAIN qty) /\ net \in Nat /\ tax \in Nat
  BY <1>8, <1>10, <1>11, <1>12, Priced
<1>14. cost \in Nat
  <2>1. \A p \in DOMAIN qty : read[p] \in Nat
    BY <1>0, <1>4, <1>7, ReadType DEF TypeOK
  <2>2. CostOf(qty, read) \in Nat
    BY <1>8, <2>1, CostType DEF CostOf
  <2>3. QED
    BY <1>10, <2>2
<1>15. PICK cr : cr = [p \in DOMAIN inv.credited |-> inv.credited[p] + IF p \in DOMAIN qty THEN qty[p] ELSE 0]
  OBVIOUS
<1>16. cr \in [DOMAIN inv.qty -> Nat] /\ \A p \in DOMAIN cr : cr[p] = inv.credited[p] + On(qty, p)
  BY <1>3, <1>4, <1>9, <1>15 DEF On
<1>17. cr \in PerProduct(Nat)
  BY <1>4, <1>16, IsOnProducts
<1>18. PICK doc : doc = [inv EXCEPT !.credited = cr]
  OBVIOUS
<1>19. /\ doc \in InvoiceRow /\ doc.status = inv.status /\ doc.customer = inv.customer
       /\ doc.order = inv.order /\ doc.qty = inv.qty /\ doc.credited = cr
       /\ doc.net = inv.net /\ doc.tax = inv.tax /\ doc.paid = inv.paid
  BY <1>17, <1>18 DEF InvoiceRow
<1>20. PICK note : note = [invoice |-> i, qty |-> qty, into |-> into,
                           net |-> net, tax |-> tax, cost |-> cost]
  OBVIOUS
<1>21. i \in Nat /\ Len(notes) + 1 \in Nat
  BY <1>0, RowsFinite DEF TypeOK, SalesRows
<1>22. /\ note \in CreditNoteRow /\ note.invoice = i /\ note.qty = qty /\ note.into = into
       /\ note.net = net /\ note.tax = tax /\ note.cost = cost
  BY <1>8, <1>13, <1>14, <1>20, <1>21 DEF CreditNoteRow, Into
<1>23. PICK rows : rows = VatOfNote(Len(notes) + 1, d, lines, am)
  OBVIOUS
<1>24. /\ inv.status \in {"ISSUED", "PARTIALLY_PAID", "PAID"}
       /\ invoices' = [invoices EXCEPT ![i].credited =
                [p \in DOMAIN @ |-> @[p] + IF p \in DOMAIN qty THEN qty[p] ELSE 0]]
       /\ notes' = Append(notes, note)
       /\ onHand' = Restocked(into, qty)
       /\ balance' = Posted(Posted(balance, ReturnEntry(net, tax)), CostReversal(cost))
       /\ register' = register \cup rows
  BY <1>1, <1>10, <1>20, <1>23, Zenon DEF issue_credit_note
<1>25. invoices' = [invoices EXCEPT ![i] = doc]
  <2>1. [invoices EXCEPT ![i].credited =
                [p \in DOMAIN @ |-> @[p] + IF p \in DOMAIN qty THEN qty[p] ELSE 0]]
        = [invoices EXCEPT ![i] = [invoices[i] EXCEPT !.credited =
                [p \in DOMAIN invoices[i].credited |->
                    invoices[i].credited[p] + IF p \in DOMAIN qty THEN qty[p] ELSE 0]]]
    OBVIOUS
  <2>2. QED
    BY <1>1, <1>15, <1>18, <1>24, <2>1
<1>26. PICK source : source = <<"credit_note", Len(notes) + 1>>
  OBVIOUS
<1>270. PICK sign : sign = -1
  OBVIOUS
<1>27. /\ source \in {"invoice", "credit_note", "supplier_bill", "pos_sale", "pos_return"} \X Nat
       /\ \A p \in DOMAIN qty : lines[p].tax \in 0..Scale
       /\ sign \in {1, -1} /\ "OUTPUT" \in {"OUTPUT", "INPUT"}
       /\ rows = RowsPerRate(source, "OUTPUT", d, sign, lines, am)
  BY <1>11, <1>21, <1>23, <1>26, <1>270 DEF VatOfNote
<1>28. /\ IsFiniteSet(rows)
       /\ \A r \in rows : /\ r \in VatRow /\ r.source = source
                          /\ r.direction = "OUTPUT" /\ r.claim = 0 /\ r.vat <= 0
       /\ SumFunction([r \in rows |-> r.vat]) = sign * TaxOf(am)
  <2>1. RowsFor(rows, source, "OUTPUT", d, sign, lines, DOMAIN qty, am)
    BY <1>13, <1>27 DEF RowsFor
  <2>2. RowsAddUp(rows, source, "OUTPUT", sign, TaxOf(am), NetOf(am))
    BY <2>1, RateRows, Zenon
  <2>3. QED
    BY <1>270, <2>2 DEF RowsAddUp
<1>29. SumFunction([r \in rows |-> r.vat]) = -tax
  BY <1>10, <1>13, <1>270, <1>28
<1>30. /\ doc \in InvoiceRow /\ note \in CreditNoteRow
       /\ doc.status = invoices[i].status /\ doc.customer = invoices[i].customer
       /\ doc.order = invoices[i].order /\ doc.qty = invoices[i].qty
       /\ doc.net = invoices[i].net /\ doc.tax = invoices[i].tax /\ doc.paid = invoices[i].paid
       /\ DOMAIN doc.credited = DOMAIN invoices[i].credited
       /\ \A p \in DOMAIN doc.credited : doc.credited[p] = invoices[i].credited[p] + On(qty, p)
  BY <1>1, <1>3, <1>16, <1>19, <1>22
<1>31. /\ note.cost \in Nat /\ note.net \in Nat /\ note.tax \in Nat
       /\ note.invoice = i /\ note.qty = qty /\ note.into = into
       /\ balance' = Posted(Posted(balance, ReturnEntry(note.net, note.tax)),
                            CostReversal(note.cost))
       /\ SumFunction([r \in rows |-> r.vat]) = -note.tax
       /\ \A r \in rows : /\ r \in VatRow /\ r.source = <<"credit_note", Len(notes) + 1>>
                          /\ r.direction = "OUTPUT" /\ r.claim = 0 /\ r.vat <= 0
  BY <1>10, <1>13, <1>14, <1>22, <1>24, <1>26, <1>28, <1>29
<1>32. CreditNoteChange(i, qty, into, doc, note, rows)
  BY <1>24, <1>25, <1>28, <1>30, <1>31 DEF CreditNoteChange
<1>33. /\ DOMAIN qty \subseteq DOMAIN invoices[i].qty
       /\ invoices[i].status \in {"ISSUED", "PARTIALLY_PAID", "PAID"}
       /\ onHand' = Restocked(into, qty)
  BY <1>1, <1>7, <1>24
<1>34. QED
  BY <1>7, <1>8, <1>30, <1>32, <1>33, Zenon

-----------------------------------------------------------------------------
(* Receipts and bills *)

\* A receipt: note on purchase order i, which becomes row.
ReceiptChange(i, qty, row, receipt) ==
    /\ purchaseOrders' = [purchaseOrders EXCEPT ![i] = row]
    /\ row.status = ReceivedStatus(row.lines)
    /\ Received(purchaseOrders[i].lines, row.lines, qty)
    /\ receipt.order = i /\ receipt.qty = qty /\ DOMAIN receipt.unit = DOMAIN qty
    /\ \A p \in DOMAIN qty : receipt.unit[p] \in Nat
    /\ receipt.cost = SumFunction([p \in DOMAIN Moved(qty) |-> qty[p] * receipt.unit[p]])
    /\ receipt.cost \in Nat
    /\ goodsReceipts' = Append(goodsReceipts, receipt)
    /\ onHand' = PutBack(purchaseOrders[i].warehouse, qty)
    /\ balance' = Posted(balance, IF receipt.cost > 0 THEN goods_receipt(PostedCost(receipt.cost))
                                                      ELSE NoEntry)

\* What receive does.
LEMMA ReceiveEffect ==
  ASSUME Tables, NEW i \in DOMAIN purchaseOrders,
         NEW qty \in Parts(ToReceive(purchaseOrders[i])),
         NEW override \in {{}} \cup {{u} : u \in Overrides}, NEW read \in CostsRead,
         receive(i, qty, override, read)
  PROVE  /\ qty \in PerProduct(Nat \ {0}) /\ qty \in PerProduct(Nat)
         /\ DOMAIN qty \subseteq DOMAIN purchaseOrders[i].lines
         /\ purchaseOrders[i].status \in {"CONFIRMED", "PARTIALLY_RECEIVED"}
         /\ \E row \in PurchaseOrderRow, receipt \in GoodsReceiptRow :
                ReceiptChange(i, qty, row, receipt)
         /\ ProductChecks' => costPrice' \in [Product -> Seq(Nat) \ {<<>>}]
<1>0. TypeOK
  BY DEF Tables
<1> DEFINE o == purchaseOrders[i]
<1>1. /\ \A p \in DOMAIN ToReceive(o) : ToReceive(o)[p] \in Int
      /\ DOMAIN ToReceive(o) = DOMAIN o.lines
  BY <1>0, PurchaseLines DEF ToReceive
<1>2. DOMAIN ToReceive(o) \subseteq Product
  BY <1>0, <1>1, PurchaseLines
<1>3. qty \in PerProduct(Nat \ {0}) /\ DOMAIN qty \subseteq DOMAIN o.lines
  BY <1>1, <1>2, PartsType
<1>4. qty \in PerProduct(Nat)
  BY <1>3, Weaker
<1>5. /\ \A p \in DOMAIN qty : qty[p] \in Nat \ {0}
      /\ DOMAIN qty \subseteq Product /\ DOMAIN qty # {}
  BY <1>3, OnProducts
<1>6. PICK unit : unit = [p \in DOMAIN qty |-> UnitCost(o.lines[p], override)]
  OBVIOUS
<1>7. unit \in [DOMAIN qty -> Nat]
  <2>1. \A p \in DOMAIN qty : UnitCost(o.lines[p], override) \in Nat
    <3> SUFFICES ASSUME NEW p \in DOMAIN qty PROVE UnitCost(o.lines[p], override) \in Nat
      OBVIOUS
    <3>1. o.lines[p].price \in Nat
      BY <1>0, <1>3, PurchaseLines
    <3>2. CASE override = {}
      BY <3>1, <3>2 DEF UnitCost
    <3>3. CASE override # {}
      <4>1. PICK u \in Overrides : override = {u}
        BY <3>3
      <4>2. (CHOOSE x \in override : TRUE) = u
        BY <4>1
      <4>3. QED
        BY <3>3, <4>2, PurchasingAssumption DEF UnitCost
    <3>4. QED
      BY <3>2, <3>3
  <2>2. QED
    BY <1>6, <2>1
<1>8. unit \in PerProduct(Nat)
  BY <1>5, <1>7, IsOnProducts
<1>9. PICK cost : cost = SumFunction([p \in DOMAIN Moved(qty) |-> qty[p] * unit[p]])
  OBVIOUS
<1>10. cost \in Nat
  BY <1>4, <1>7, <1>9, CostType
<1>11. PICK ms : ms = [p \in DOMAIN o.lines |-> IF p \in DOMAIN qty
                        THEN [o.lines[p] EXCEPT !.received = @ + qty[p]] ELSE o.lines[p]]
  OBVIOUS
<1>12. ms \in PerProduct(PurchaseOrderLineRow) /\ Received(o.lines, ms, qty)
  BY <1>0, <1>5, <1>11, PurchaseLines, ReceivedLines
<1>13. PICK st \in PurchaseOrderStatus : st = ReceivedStatus(ms)
  BY DEF ReceivedStatus, PurchaseOrderStatus
<1>14. PICK entry : entry = IF cost > 0 THEN goods_receipt(PostedCost(cost)) ELSE NoEntry
  OBVIOUS
<1>15. PICK receipt : receipt = [order |-> i, qty |-> qty, unit |-> unit, cost |-> cost]
  OBVIOUS
<1>16. /\ o.status \in {"CONFIRMED", "PARTIALLY_RECEIVED"}
       /\ purchaseOrders' = [purchaseOrders EXCEPT ![i].lines = ms, ![i].status = st]
       /\ goodsReceipts' = Append(goodsReceipts, receipt)
       /\ onHand' = PutBack(o.warehouse, qty)
       /\ costPrice' = [p \in Product |->
                IF p \in DOMAIN Moved(qty)
                THEN Repriced(p, read[p], AverageCost(o.warehouse, p, qty[p], unit[p], read[p]))
                ELSE costPrice[p]]
       /\ balance' = Posted(balance, entry)
  <2> DEFINE U == [p \in DOMAIN qty |-> UnitCost(o.lines[p], override)]
             M == [p \in DOMAIN o.lines |-> IF p \in DOMAIN qty
                        THEN [o.lines[p] EXCEPT !.received = @ + qty[p]] ELSE o.lines[p]]
             C == SumFunction([p \in DOMAIN Moved(qty) |-> qty[p] * U[p]])
             E == IF C > 0 THEN goods_receipt(PostedCost(C)) ELSE NoEntry
  <2>1. /\ o.status \in {"CONFIRMED", "PARTIALLY_RECEIVED"}
        /\ purchaseOrders' = [purchaseOrders EXCEPT ![i].lines = M, ![i].status = ReceivedStatus(M)]
        /\ goodsReceipts' = Append(goodsReceipts, [order |-> i, qty |-> qty, unit |-> U, cost |-> C])
        /\ onHand' = PutBack(o.warehouse, qty)
        /\ costPrice' = [p \in Product |->
                IF p \in DOMAIN Moved(qty)
                THEN Repriced(p, read[p], AverageCost(o.warehouse, p, qty[p], U[p], read[p]))
                ELSE costPrice[p]]
        /\ balance' = Posted(balance, E)
    BY Zenon DEF receive
  <2>2. U = unit
    BY <1>6
  <2> HIDE DEF U
  <2>3. C = cost
    BY <1>9, <2>2, Zenon
  <2> HIDE DEF C
  <2>4. E = entry
    BY <1>14, <2>3, Zenon
  <2>5. M = ms
    BY <1>11
  <2> HIDE DEF E, M
  <2>6. QED
    BY <1>13, <1>15, <2>1, <2>2, <2>3, <2>4, <2>5, Zenon
<1>17. PICK row : row = [o EXCEPT !.lines = ms, !.status = st]
  OBVIOUS
<1>18. /\ row \in PurchaseOrderRow /\ row.lines = ms /\ row.status = st
       /\ purchaseOrders' = [purchaseOrders EXCEPT ![i] = row]
  <2>1. ms \in PerProduct(PurchaseOrderLineRow) /\ purchaseOrders \in Seq(PurchaseOrderRow)
    BY <1>0, <1>12 DEF TypeOK, PurchasingRows
  <2>2. LET r == [purchaseOrders[i] EXCEPT !.lines = ms, !.status = st]
        IN  /\ r \in PurchaseOrderRow /\ r.lines = ms /\ r.status = st
            /\ [purchaseOrders EXCEPT ![i].lines = ms, ![i].status = st]
                   = [purchaseOrders EXCEPT ![i] = r]
    BY <2>1, PurchaseOrderReplaced, Zenon
  <2>3. QED
    BY <1>16, <1>17, <2>2, Zenon
<1>19. /\ receipt \in GoodsReceiptRow /\ receipt.order = i /\ receipt.qty = qty
       /\ receipt.unit = unit /\ receipt.cost = cost
  <2>1. i \in Nat
    BY <1>0, RowsFinite DEF TypeOK, PurchasingRows
  <2>2. QED
    BY <1>4, <1>8, <1>10, <1>15, <2>1 DEF GoodsReceiptRow
<1>20. ProductChecks' => costPrice' \in [Product -> Seq(Nat) \ {<<>>}]
  <2> SUFFICES ASSUME ProductChecks', NEW p \in Product
               PROVE  costPrice'[p] \in Seq(Nat) \ {<<>>}
    BY <1>16
  <2>1. CASE p \in DOMAIN Moved(qty)
    <3>1. p \in DOMAIN qty
      BY <1>4, <2>1, MovedIs
    <3>2. qty[p] \in Nat /\ unit[p] \in Nat
      BY <1>5, <1>7, <3>1
    <3>3. BooksRows /\ o.warehouse \in Warehouse
      BY <1>0, Rows DEF TypeOK, PurchaseOrderRow
    <3>4. PICK r \in Nat : r = read[p]
      BY <3>3, ReadType
    <3>5. PICK a \in Int : a = AverageCost(o.warehouse, p, qty[p], unit[p], r)
      BY <3>2, <3>3, <3>4, AverageType
    <3>6. costPrice'[p] = Repriced(p, r, a)
      BY <1>16, <2>1, <3>4, <3>5
    <3>7. costPrice'[p][Len(costPrice'[p])] >= 0
      BY DEF ProductChecks, CurrentCost
    <3>8. QED
      BY <3>3, <3>6, <3>7, RepricedType
  <2>2. CASE p \notin DOMAIN Moved(qty)
    BY <1>0, <1>16, <2>2 DEF TypeOK, BooksRows
  <2>3. QED
    BY <2>1, <2>2
<1>21. ReceiptChange(i, qty, row, receipt)
  <2>1. DOMAIN unit = DOMAIN qty /\ \A p \in DOMAIN qty : unit[p] \in Nat
    BY <1>7
  <2>2. purchaseOrders[i] = o
    OBVIOUS
  <2> HIDE DEF o
  <2>3. QED
    BY <1>9, <1>10, <1>12, <1>13, <1>14, <1>16, <1>18, <1>19, <2>1, <2>2, Zenon DEF ReceiptChange
<1>22. QED
  BY <1>3, <1>4, <1>16, <1>18, <1>19, <1>20, <1>21

\* A bill: doc for purchase order i, which becomes row.
BillChange(i, d, row, doc) ==
    /\ bills' = Append(bills, doc)
    /\ doc.order = i /\ doc.status = "DRAFT" /\ doc.date = d /\ doc.paid = 0
    /\ doc.qty \in PerProduct(Nat \ {0})
    /\ Matches(doc, purchaseOrders, CostScale)
    /\ purchaseOrders' = [purchaseOrders EXCEPT ![i] = row]
    /\ row.status = purchaseOrders[i].status
    /\ Billed(purchaseOrders[i].lines, row.lines, doc.qty)

\* What create_bill does.
LEMMA BillEffect ==
  ASSUME Tables, NEW i \in DOMAIN purchaseOrders, NEW only \in BOOLEAN, NEW d \in Date,
         create_bill(i, only, d)
  PROVE  \E row \in PurchaseOrderRow, doc \in SupplierBillRow : BillChange(i, d, row, doc)
<1>0. TypeOK
  BY DEF Tables
<1> DEFINE o == purchaseOrders[i]
           ls == o.lines
<1>1. PICK qty : qty = ToBill(o, only)
  OBVIOUS
<1>2. DOMAIN qty \subseteq DOMAIN ls /\ \A p \in DOMAIN qty : qty[p] \in Nat \ {0}
  <2>1. ASSUME NEW l \in PurchaseOrderLineRow
        PROVE  (IF only THEN l.received ELSE l.qty) - l.billed \in Int
    BY DEF PurchaseOrderLineRow
  <2>2. \A p \in DOMAIN ls : ls[p] \in PurchaseOrderLineRow
    BY <1>0, PurchaseLines
  <2>3. QED
    BY <1>1, <2>1, <2>2 DEF ToBill
<1>3. qty = [p \in DOMAIN qty |-> qty[p]]
  BY <1>1 DEF ToBill
<1>4. DOMAIN qty # {}
  BY <1>1 DEF create_bill
<1>5. qty \in [DOMAIN qty -> Nat \ {0}]
  BY <1>2, <1>3
<1>6. qty \in PerProduct(Nat \ {0})
  BY <1>0, <1>2, <1>4, <1>5, PurchaseLines, IsOnProducts
<1>7. qty \in PerProduct(Nat)
  BY <1>6, Weaker
<1>8. PICK ms, am, net, tax :
        /\ ms = [p \in DOMAIN ls |-> IF p \in DOMAIN qty
                                     THEN [ls[p] EXCEPT !.billed = @ + qty[p]] ELSE ls[p]]
        /\ am = Amounts(qty, ls, CostScale) /\ net = NetOf(am) /\ tax = TaxOf(am)
  OBVIOUS
<1>9. ms \in PerProduct(PurchaseOrderLineRow) /\ Billed(ls, ms, qty)
  BY <1>0, <1>2, <1>8, PurchaseLines, BilledLines
<1>10. PICK doc : doc = [supplier |-> o.supplier, order |-> i, status |-> "DRAFT", date |-> d,
                         qty |-> qty, net |-> net, tax |-> tax, paid |-> 0]
  OBVIOUS
<1>11. purchaseOrders' = [purchaseOrders EXCEPT ![i].lines = ms] /\ bills' = Append(bills, doc)
  BY <1>1, <1>8, <1>10, Zenon DEF create_bill
<1>12. net \in Nat /\ tax \in Nat
  <2>1. \A p \in DOMAIN ls : ls[p].price \in Nat /\ ls[p].disc \in 0..Scale /\ ls[p].tax \in 0..Scale
    BY <1>0, PurchaseLines
  <2>2. CostScale \in Nat \ {0}
    BY BooksAssumption
  <2>3. QED
    BY <1>2, <1>7, <1>8, <2>1, <2>2, Priced
<1>13. purchaseOrders \in Seq(PurchaseOrderRow) /\ i \in Nat /\ o.supplier \in Supplier
  BY <1>0, RowsFinite, Rows DEF TypeOK, PurchasingRows, PurchaseOrderRow
<1>14. /\ doc \in SupplierBillRow /\ doc.order = i /\ doc.status = "DRAFT" /\ doc.date = d
       /\ doc.paid = 0 /\ doc.qty = qty /\ doc.net = net /\ doc.tax = tax
  BY <1>7, <1>10, <1>12, <1>13 DEF SupplierBillRow, SupplierBillStatus
<1>15. Matches(doc, purchaseOrders, CostScale)
  BY <1>2, <1>8, <1>14 DEF Matches
<1>16. PICK row : row = [purchaseOrders[i] EXCEPT !.lines = ms]
  OBVIOUS
<1>17. /\ row \in PurchaseOrderRow /\ row.lines = ms /\ row.status = purchaseOrders[i].status
       /\ purchaseOrders' = [purchaseOrders EXCEPT ![i] = row]
  BY <1>9, <1>11, <1>13, <1>16, PurchaseLinesReplaced
<1>18. BillChange(i, d, row, doc)
  BY <1>6, <1>9, <1>11, <1>14, <1>15, <1>17 DEF BillChange
<1>19. QED
  BY <1>14, <1>17, <1>18

\* Issuing bill i, which becomes doc, and its rows of the register.
IssueBillChange(i, doc, rows) ==
    /\ bills[i].status = "DRAFT" /\ doc.status = "ISSUED" /\ doc.supplier = bills[i].supplier
    /\ doc.order = bills[i].order /\ doc.qty = bills[i].qty /\ doc.net = bills[i].net
    /\ doc.tax = bills[i].tax /\ doc.paid = bills[i].paid
    /\ bills' = [bills EXCEPT ![i] = doc]
    /\ balance' = Posted(balance, supplier_bill(bills[i].net, bills[i].tax))
    /\ register' = register \cup rows /\ IsFiniteSet(rows)
    /\ \A r \in rows : /\ r \in VatRow /\ r.source = <<"supplier_bill", i>>
                       /\ r.direction = "INPUT" /\ r.claim = 0 /\ r.vat >= 0
    /\ SumFunction([r \in rows |-> r.vat]) = bills[i].tax

\* What issue_bill does.
LEMMA IssueBillEffect ==
  ASSUME Tables, NEW i \in DOMAIN bills, issue_bill(i)
  PROVE  \E doc \in SupplierBillRow : \E rows : IssueBillChange(i, doc, rows)
<1>0. TypeOK
  BY DEF Tables
<1>1. PICK b \in SupplierBillRow : b = bills[i]
  BY <1>0, Rows
<1>2. PICK doc : doc = [b EXCEPT !.status = "ISSUED"]
  OBVIOUS
<1>3. /\ doc \in SupplierBillRow /\ doc.status = "ISSUED" /\ doc.supplier = b.supplier
      /\ doc.order = b.order /\ doc.qty = b.qty
      /\ doc.net = b.net /\ doc.tax = b.tax /\ doc.paid = b.paid
  BY <1>2 DEF SupplierBillRow, SupplierBillStatus
<1>4. /\ b.status = "DRAFT" /\ bills' = [bills EXCEPT ![i] = doc]
      /\ balance' = Posted(balance, supplier_bill(bills[i].net, bills[i].tax))
      /\ register' = register \cup VatOfBill(i)
  BY <1>1, <1>2 DEF issue_bill
<1>5. PICK rows, lines, qty, am, source :
        /\ rows = VatOfBill(i) /\ lines = purchaseOrders[b.order].lines /\ qty = b.qty
        /\ am = Amounts(qty, lines, CostScale) /\ source = <<"supplier_bill", i>>
  OBVIOUS
<1>6. rows = RowsPerRate(source, "INPUT", b.date, 1, lines, am)
  BY <1>1, <1>5, Zenon DEF VatOfBill
<1>7. Matches(b, purchaseOrders, CostScale)
  BY <1>1 DEF Tables
<1>8. b.order \in DOMAIN purchaseOrders /\ qty \in PerProduct(Nat)
  BY <1>5, <1>7 DEF Matches, SupplierBillRow
<1>9. /\ DOMAIN qty \subseteq DOMAIN lines
      /\ \A p \in DOMAIN lines : /\ lines[p].price \in Nat /\ lines[p].disc \in 0..Scale
                                 /\ lines[p].tax \in 0..Scale
  BY <1>0, <1>5, <1>7, <1>8, PurchaseLines DEF Matches
<1>10. CostScale \in Nat \ {0}
  BY BooksAssumption
<1>11. am \in [DOMAIN qty -> Amount] /\ IsFiniteSet(DOMAIN qty) /\ TaxOf(am) \in Nat
  BY <1>5, <1>8, <1>9, <1>10, Priced
<1>12. TaxOf(am) = b.tax
  BY <1>5, <1>7 DEF Matches
<1>13. /\ source \in {"invoice", "credit_note", "supplier_bill", "pos_sale", "pos_return"} \X Nat
       /\ b.date \in Date /\ \A p \in DOMAIN qty : lines[p].tax \in 0..Scale
       /\ 1 \in {1, -1} /\ "INPUT" \in {"OUTPUT", "INPUT"}
  <2>1. i \in Nat
    BY <1>0, RowsFinite DEF TypeOK, PurchasingRows
  <2>2. b.date \in Date
    BY DEF SupplierBillRow
  <2>3. QED
    BY <1>5, <1>9, <2>1, <2>2
<1>14. /\ IsFiniteSet(rows)
       /\ \A r \in rows : /\ r \in VatRow /\ r.source = source
                          /\ r.direction = "INPUT" /\ r.claim = 0 /\ r.vat >= 0
       /\ SumFunction([r \in rows |-> r.vat]) = 1 * TaxOf(am)
  <2>1. RowsFor(rows, source, "INPUT", b.date, 1, lines, DOMAIN qty, am)
    BY <1>6, <1>11, <1>13 DEF RowsFor
  <2>2. RowsAddUp(rows, source, "INPUT", 1, TaxOf(am), NetOf(am))
    BY <2>1, RateRows, Zenon
  <2>3. QED
    BY <2>2 DEF RowsAddUp
<1>15. SumFunction([r \in rows |-> r.vat]) = b.tax
  BY <1>11, <1>12, <1>14
<1>16. IssueBillChange(i, doc, rows)
  BY <1>1, <1>3, <1>4, <1>5, <1>14, <1>15, Zenon DEF IssueBillChange
<1>17. QED
  BY <1>3, <1>16

-----------------------------------------------------------------------------
(***************************************************************************)
(* Every request keeps the tables.                                         *)
(***************************************************************************)

\* Documents keep what they took over, whatever else of them changes.
LEMMA DocumentsMatch ==
  ASSUME NEW os, NEW ns, NEW ds, NEW es, NEW per, Kept(os, ns),
         \A i \in DOMAIN ds : Matches(ds[i], os, per),
         \A i \in DOMAIN es : \/ /\ i \in DOMAIN ds /\ es[i].order = ds[i].order
                                 /\ es[i].qty = ds[i].qty /\ es[i].net = ds[i].net
                                 /\ es[i].tax = ds[i].tax
                              \/ Matches(es[i], os, per)
  PROVE  \A i \in DOMAIN es : Matches(es[i], ns, per)
<1> SUFFICES ASSUME NEW i \in DOMAIN es PROVE Matches(es[i], os, per)
  BY MatchesKept
<1>1. CASE Matches(es[i], os, per)
  BY <1>1
<1>2. CASE /\ i \in DOMAIN ds /\ es[i].order = ds[i].order
           /\ es[i].qty = ds[i].qty /\ es[i].net = ds[i].net /\ es[i].tax = ds[i].tax
  BY <1>2, Zenon DEF Matches
<1>3. QED
  BY <1>1, <1>2

Links ==
    /\ \A i \in DOMAIN invoices : /\ Matches(invoices[i], orders, 1)
                                  /\ DOMAIN invoices[i].credited = DOMAIN invoices[i].qty
    /\ \A i \in DOMAIN bills : Matches(bills[i], purchaseOrders, CostScale)

Claims ==
    /\ IsFiniteSet(register) /\ Len(returns) <= MaxDocuments
    /\ \A r \in register : r.claim <= Len(returns)

\* Tables, part by part.
LEMMA TablesParts == Tables <=> TypeOK /\ SalesChecks /\ PurchasingChecks /\ Links /\ Claims
BY DEF Tables, Links, Claims

\* Tables after a step, part by part.
LEMMA TablesPartsNext ==
  Tables' <=> TypeOK' /\ SalesChecks' /\ PurchasingChecks' /\ Links' /\ Claims'
BY DEF Tables, Links, Claims

\* The tables as sequences, and what stays as it is.
LEMMA TypedRows ==
  ASSUME TypeOK
  PROVE  /\ quotations \in Seq(QuotationRow) /\ orders \in Seq(SalesOrderRow)
         /\ shipments \in Seq(FulfillmentRow) /\ invoices \in Seq(InvoiceRow)
         /\ payments \in Seq(PaymentRow(Customer)) /\ notes \in Seq(CreditNoteRow)
         /\ purchaseOrders \in Seq(PurchaseOrderRow) /\ goodsReceipts \in Seq(GoodsReceiptRow)
         /\ bills \in Seq(SupplierBillRow) /\ supplierPayments \in Seq(PaymentRow(Supplier))
         /\ returns \in Seq(VatReturnRow)
         /\ balance \in [SystemAccount -> Int] /\ onHand \in [Warehouse -> [Product -> Int]]
         /\ costPrice \in [Product -> Seq(Nat) \ {<<>>}]
BY DEF TypeOK, BooksRows, SalesRows, PurchasingRows

\* A step that leaves the books alone keeps their types.
LEMMA BooksFrame ==
  ASSUME UNCHANGED books, BooksRows, Claims
  PROVE  BooksRows' /\ Claims'
BY DEF books, BooksRows, Claims

\* A step that leaves the purchase documents alone keeps their types.
LEMMA PurchasesFrame ==
  ASSUME UNCHANGED purchases, PurchasingRows
  PROVE  PurchasingRows'
BY DEF purchases, PurchasingRows

\* A step that leaves the sales documents alone keeps their types.
LEMMA SalesFrame ==
  ASSUME UNCHANGED sales, SalesRows
  PROVE  SalesRows'
BY DEF sales, SalesRows

\* Requests that change a quotation or an order of sales only.
LEMMA OrderTables ==
  ASSUME Tables, UNCHANGED <<purchases, shipments, invoices, payments, notes, books>>,
         quotations' \in Seq(QuotationRow), orders' \in Seq(SalesOrderRow), Kept(orders, orders')
  PROVE  TypeOK' /\ Links' /\ Claims'
<1>1. TypeOK /\ Links /\ Claims
  BY TablesParts
<1>2. BooksRows' /\ Claims' /\ PurchasingRows'
  BY <1>1, BooksFrame, PurchasesFrame DEF TypeOK
<1>3. SalesRows'
  BY <1>1 DEF TypeOK, SalesRows
<1>4. \A i \in DOMAIN invoices : Matches(invoices[i], orders', 1)
  BY <1>1, MatchesKept DEF Links
<1>5. bills' = bills /\ purchaseOrders' = purchaseOrders /\ invoices' = invoices
  BY DEF purchases
<1>6. Links'
  BY <1>1, <1>4, <1>5 DEF Links
<1>7. QED
  BY <1>2, <1>3, <1>6 DEF TypeOK

\* create_quotation keeps the tables.
LEMMA CreateQuotationTables ==
  ASSUME Tables, CreateQuotation, UNCHANGED purchases
  PROVE  TypeOK' /\ Links' /\ Claims'
<1>1. PICK c \in Customer, b \in SalesBasket : create_quotation(c, b)
  BY DEF CreateQuotation
<1>2. PICK q : q = [customer |-> c, status |-> "DRAFT", lines |-> b, converted |-> 0]
  OBVIOUS
<1>3. q \in QuotationRow
  BY <1>2, SalesAssumption DEF QuotationRow, QuotationStatus
<1>4. quotations' = Append(quotations, q) /\ UNCHANGED <<orders, shipments, invoices, payments, notes, books>>
  BY <1>1, <1>2 DEF create_quotation
<1>5. TypeOK
  BY DEF Tables
<1>6. quotations' \in Seq(QuotationRow) /\ orders' \in Seq(SalesOrderRow)
  BY <1>3, <1>4, <1>5, TypedRows, Appended
<1>7. Kept(orders, orders')
  BY <1>4, KeptSame
<1>8. QED
  BY <1>4, <1>6, <1>7, OrderTables

\* A quotation with another status is a row.
LEMMA QuotationReplaced ==
  ASSUME TypeOK, NEW i \in DOMAIN quotations
  PROVE  /\ \A s \in QuotationStatus :
                LET row == [quotations[i] EXCEPT !.status = s]
                IN  /\ [quotations EXCEPT ![i].status = s] = [quotations EXCEPT ![i] = row]
                    /\ row \in QuotationRow /\ row.customer = quotations[i].customer
                    /\ row.lines = quotations[i].lines /\ row.converted = quotations[i].converted
         /\ \A n \in Nat :
                LET row == [quotations[i] EXCEPT !.converted = n]
                IN  /\ [quotations EXCEPT ![i].converted = n] = [quotations EXCEPT ![i] = row]
                    /\ row \in QuotationRow /\ row.customer = quotations[i].customer
                    /\ row.lines = quotations[i].lines /\ row.converted = n
<1>1. PICK q \in QuotationRow : q = quotations[i]
  BY Rows
<1>2. ASSUME NEW s \in QuotationStatus
      PROVE  LET row == [q EXCEPT !.status = s]
             IN  /\ row \in QuotationRow /\ row.customer = q.customer
                 /\ row.lines = q.lines /\ row.converted = q.converted
  BY DEF QuotationRow
<1>3. ASSUME NEW n \in Nat
      PROVE  LET row == [q EXCEPT !.converted = n]
             IN  /\ row \in QuotationRow /\ row.customer = q.customer
                 /\ row.lines = q.lines /\ row.converted = n
  BY DEF QuotationRow
<1>4. /\ \A s : [quotations EXCEPT ![i].status = s]
                = [quotations EXCEPT ![i] = [quotations[i] EXCEPT !.status = s]]
      /\ \A n : [quotations EXCEPT ![i].converted = n]
                = [quotations EXCEPT ![i] = [quotations[i] EXCEPT !.converted = n]]
  OBVIOUS
<1>5. QED
  BY <1>1, <1>2, <1>3, <1>4, Zenon

\* set_quotation_status keeps the tables.
LEMMA SetQuotationStatusTables ==
  ASSUME Tables, SetQuotationStatus, UNCHANGED purchases
  PROVE  TypeOK' /\ Links' /\ Claims'
<1>0. TypeOK
  BY DEF Tables
<1>1. PICK i \in DOMAIN quotations, s \in {"SENT", "ACCEPTED", "REJECTED"} : set_quotation_status(i, s)
  BY DEF SetQuotationStatus
<1>2. PICK row : row = [quotations[i] EXCEPT !.status = s]
  OBVIOUS
<1>3. s \in QuotationStatus
  BY DEF QuotationStatus
<1>4. row \in QuotationRow /\ [quotations EXCEPT ![i].status = s] = [quotations EXCEPT ![i] = row]
  BY <1>0, <1>2, <1>3, QuotationReplaced, Zenon
<1>5. /\ quotations' = [quotations EXCEPT ![i] = row]
      /\ UNCHANGED <<orders, shipments, invoices, payments, notes, books>>
  BY <1>1, <1>4 DEF set_quotation_status
<1>6. quotations' \in Seq(QuotationRow) /\ orders' \in Seq(SalesOrderRow)
  BY <1>0, <1>4, <1>5, TypedRows, Replaced
<1>7. Kept(orders, orders')
  BY <1>5, KeptSame
<1>8. QED
  BY <1>5, <1>6, <1>7, OrderTables

\* Converting quotation i into the order new.
ConvertChange(i, row, new) ==
    /\ quotations[i].converted = 0
    /\ new.customer = quotations[i].customer /\ new.quotation = i /\ new.status = "DRAFT"
    /\ DOMAIN new.lines = DOMAIN quotations[i].lines
    /\ \A p \in DOMAIN new.lines : /\ new.lines[p].qty = quotations[i].lines[p].qty
                                   /\ new.lines[p].fulfilled = 0 /\ new.lines[p].invoiced = 0
    /\ orders' = Append(orders, new)
    /\ quotations' = [quotations EXCEPT ![i] = row]
    /\ row.customer = quotations[i].customer /\ row.lines = quotations[i].lines
    /\ row.converted = Len(orders) + 1
    /\ UNCHANGED <<shipments, invoices, payments, notes, books>>

\* What convert_quotation does.
LEMMA ConvertEffect ==
  ASSUME TypeOK, NEW i \in DOMAIN quotations, NEW w \in Warehouse, convert_quotation(i, w)
  PROVE  \E row \in QuotationRow, new \in SalesOrderRow : ConvertChange(i, row, new)
<1>1. PICK q \in QuotationRow : q = quotations[i]
  BY Rows
<1>2. q.customer \in Customer /\ q.lines \in PerProduct(Line) /\ i \in Nat /\ Len(orders) + 1 \in Nat
  BY RowsFinite, TypedRows DEF QuotationRow
<1>3. PICK new : new = NewOrder(q.customer, w, q.lines, i)
  OBVIOUS
<1>4. /\ new \in SalesOrderRow /\ DOMAIN new.lines = DOMAIN q.lines
      /\ \A p \in DOMAIN q.lines : /\ new.lines[p].qty = q.lines[p].qty
                                   /\ new.lines[p].fulfilled = 0 /\ new.lines[p].invoiced = 0
  BY <1>2, <1>3, NewOrderType
<1>5. new.customer = q.customer /\ new.quotation = i /\ new.status = "DRAFT"
  BY <1>3 DEF NewOrder
<1>6. PICK n \in Nat : n = Len(orders) + 1
  BY <1>2
<1>7. PICK row : row = [quotations[i] EXCEPT !.converted = n]
  OBVIOUS
<1>8. /\ row \in QuotationRow /\ row.customer = q.customer /\ row.lines = q.lines /\ row.converted = n
      /\ [quotations EXCEPT ![i].converted = n] = [quotations EXCEPT ![i] = row]
  BY <1>1, <1>7, QuotationReplaced, Zenon
<1>9. /\ q.converted = 0 /\ orders' = Append(orders, new)
      /\ quotations' = [quotations EXCEPT ![i].converted = n]
      /\ UNCHANGED <<shipments, invoices, payments, notes, books>>
  BY <1>1, <1>3, <1>6, Zenon DEF convert_quotation, Convertible
<1>10. ConvertChange(i, row, new)
  BY <1>1, <1>3, <1>4, <1>5, <1>6, <1>8, <1>9 DEF ConvertChange
<1>11. QED
  BY <1>4, <1>8, <1>10

\* convert_quotation keeps the tables.
LEMMA ConvertQuotationTables ==
  ASSUME Tables, ConvertQuotation, UNCHANGED purchases
  PROVE  TypeOK' /\ Links' /\ Claims'
<1>0. TypeOK
  BY DEF Tables
<1>1. PICK i \in DOMAIN quotations, w \in Warehouse : convert_quotation(i, w)
  BY DEF ConvertQuotation
<1>2. PICK row \in QuotationRow, new \in SalesOrderRow : ConvertChange(i, row, new)
  BY <1>0, <1>1, ConvertEffect
<1>3. /\ orders' = Append(orders, new) /\ quotations' = [quotations EXCEPT ![i] = row]
      /\ UNCHANGED <<shipments, invoices, payments, notes, books>>
  BY <1>2 DEF ConvertChange
<1>4. quotations' \in Seq(QuotationRow) /\ orders' \in Seq(SalesOrderRow)
  BY <1>0, <1>3, TypedRows, Replaced, Appended
<1>5. Kept(orders, orders')
  BY <1>0, <1>3, TypedRows, KeptAppended
<1>6. QED
  BY <1>3, <1>4, <1>5, OrderTables

\* create_order keeps the tables.
LEMMA CreateOrderTables ==
  ASSUME Tables, CreateOrder, UNCHANGED purchases
  PROVE  TypeOK' /\ Links' /\ Claims'
<1>0. TypeOK
  BY DEF Tables
<1>1. PICK c \in Customer, w \in Warehouse, b \in SalesBasket : create_order(c, w, b)
  BY DEF CreateOrder
<1>2. PICK new : new = NewOrder(c, w, b, 0)
  OBVIOUS
<1>3. new \in SalesOrderRow
  BY <1>2, NewOrderType, SalesAssumption
<1>4. /\ orders' = Append(orders, new)
      /\ UNCHANGED <<quotations, shipments, invoices, payments, notes, books>>
  BY <1>1, <1>2 DEF create_order
<1>5. quotations' \in Seq(QuotationRow) /\ orders' \in Seq(SalesOrderRow)
  BY <1>0, <1>3, <1>4, TypedRows, Appended
<1>6. Kept(orders, orders')
  BY <1>0, <1>3, <1>4, TypedRows, KeptAppended
<1>7. QED
  BY <1>4, <1>5, <1>6, OrderTables

\* Confirming or cancelling: order i becomes row.
StatusChange(i, row, st) ==
    /\ row.lines = orders[i].lines /\ row.status = st
    /\ row.customer = orders[i].customer /\ row.quotation = orders[i].quotation
    /\ orders' = [orders EXCEPT ![i] = row]
    /\ UNCHANGED <<quotations, shipments, invoices, payments, notes, books>>

\* What confirm_order and cancel_order do.
LEMMA StatusEffect ==
  ASSUME TypeOK, NEW i \in DOMAIN orders
  PROVE  /\ confirm_order(i) => \E row \in SalesOrderRow : StatusChange(i, row, "CONFIRMED")
         /\ cancel_order(i) => \E row \in SalesOrderRow : StatusChange(i, row, "CANCELLED")
<1>1. "CONFIRMED" \in SalesOrderStatus /\ "CANCELLED" \in SalesOrderStatus
  BY DEF SalesOrderStatus
<1>2. ASSUME NEW st \in SalesOrderStatus, orders' = [orders EXCEPT ![i].status = st],
             UNCHANGED <<quotations, shipments, invoices, payments, notes, books>>
      PROVE  \E row \in SalesOrderRow : StatusChange(i, row, st)
  <2>1. orders \in Seq(SalesOrderRow)
    BY TypedRows
  <2>2. PICK row : row = [orders[i] EXCEPT !.status = st]
    OBVIOUS
  <2>3. /\ row \in SalesOrderRow /\ row.lines = orders[i].lines /\ row.status = st
        /\ row.customer = orders[i].customer /\ row.quotation = orders[i].quotation
        /\ [orders EXCEPT ![i].status = st] = [orders EXCEPT ![i] = row]
    BY <2>1, <2>2, StatusReplaced
  <2>4. QED
    BY <1>2, <2>3 DEF StatusChange
<1>3. QED
  BY <1>1, <1>2 DEF confirm_order, cancel_order

\* confirm_order and cancel_order keep the tables.
LEMMA OrderStatusTables ==
  ASSUME Tables, ConfirmOrder \/ CancelOrder, UNCHANGED purchases
  PROVE  TypeOK' /\ Links' /\ Claims'
<1>0. TypeOK
  BY DEF Tables
<1>1. PICK i \in DOMAIN orders : confirm_order(i) \/ cancel_order(i)
  BY DEF ConfirmOrder, CancelOrder
<1>2. PICK st \in {"CONFIRMED", "CANCELLED"} : \E row \in SalesOrderRow : StatusChange(i, row, st)
  BY <1>0, <1>1, StatusEffect
<1>3. PICK row \in SalesOrderRow : StatusChange(i, row, st)
  BY <1>2
<1>4. /\ orders' = [orders EXCEPT ![i] = row] /\ row.lines = orders[i].lines
      /\ UNCHANGED <<quotations, shipments, invoices, payments, notes, books>>
  BY <1>3 DEF StatusChange
<1>5. quotations' \in Seq(QuotationRow) /\ orders' \in Seq(SalesOrderRow)
  BY <1>0, <1>4, TypedRows, Replaced
<1>6. SameTerms(orders[i].lines, row.lines)
  BY <1>4 DEF SameTerms
<1>7. Kept(orders, orders')
  BY <1>0, <1>4, <1>6, TypedRows, KeptReplaced
<1>8. QED
  BY <1>4, <1>5, <1>7, OrderTables

\* Posting keeps the type of the balances.
LEMMA MovesType ==
  ASSUME NEW e, NEW ar, NEW ap, NEW vo, NEW vi, NEW inv, NEW grni, Moves(e, ar, ap, vo, vi, inv, grni),
         NEW b \in [SystemAccount -> Int]
  PROVE  Posted(b, e) \in [SystemAccount -> Int]
BY DEF Moves

\* fulfil keeps the tables.
LEMMA FulfilTables ==
  ASSUME Tables, Fulfil, UNCHANGED purchases
  PROVE  TypeOK' /\ Links' /\ Claims'
<1>0. TypeOK /\ Links /\ Claims
  BY TablesParts
<1>1. PICK i \in DOMAIN orders :
        \E qty \in Parts(Outstanding(orders[i])), read \in CostsRead : fulfil(i, qty, read)
  BY DEF Fulfil
<1>2. PICK qty \in Parts(Outstanding(orders[i])), read \in CostsRead : fulfil(i, qty, read)
  BY <1>1
<1>3. UNCHANGED <<quotations, invoices, payments, notes, costPrice, register, returns>>
  BY SalesFrames
<1>4. PICK row \in SalesOrderRow :
        orders' = [orders EXCEPT ![i] = row] /\ Fulfilled(orders[i].lines, row.lines, qty)
  BY <1>2, FulfilEffect
<1>5. PICK doc \in FulfillmentRow : shipments' = Append(shipments, doc)
  BY <1>2, FulfilEffect
<1>6. balance' \in [SystemAccount -> Int] /\ onHand' \in [Warehouse -> [Product -> Int]]
  <2>1. /\ balance' = Posted(balance, FulfilmentEntry(CostOf(qty, read)))
        /\ CostOf(qty, read) \in Nat
        /\ onHand' = TakeOut(orders[i].warehouse, qty) /\ qty \in PerProduct(Nat)
        /\ orders[i].warehouse \in Warehouse
    BY <1>0, <1>2, FulfilEffect, Rows DEF SalesOrderRow
  <2>2. balance' \in [SystemAccount -> Int]
    BY <1>0, <2>1, StockMoves, MovesType, TypedRows
  <2>3. QED
    BY <1>0, <2>1, <2>2, StockType, TypedRows
<1>7. orders' \in Seq(SalesOrderRow) /\ shipments' \in Seq(FulfillmentRow)
  BY <1>0, <1>4, <1>5, TypedRows, Appended, Replaced
<1>8. TypeOK'
  <2>1. BooksRows'
    BY <1>0, <1>3, <1>6 DEF TypeOK, BooksRows
  <2>2. SalesRows'
    BY <1>0, <1>3, <1>7 DEF TypeOK, SalesRows
  <2>3. QED
    BY <1>0, <2>1, <2>2, PurchasesFrame DEF TypeOK
<1>9. Kept(orders, orders')
  BY <1>0, <1>4, TypedRows, KeptReplaced DEF Fulfilled
<1>10. Links'
  <2>1. \A j \in DOMAIN invoices : Matches(invoices[j], orders', 1)
    BY <1>0, <1>9, MatchesKept DEF Links
  <2>2. bills' = bills /\ purchaseOrders' = purchaseOrders /\ invoices' = invoices
    BY <1>3 DEF purchases
  <2>3. QED
    BY <1>0, <2>1, <2>2 DEF Links
<1>11. QED
  BY <1>0, <1>3, <1>8, <1>10 DEF Claims

\* create_invoice keeps the tables.
LEMMA CreateInvoiceTables ==
  ASSUME Tables, CreateInvoice, UNCHANGED purchases
  PROVE  TypeOK' /\ Links' /\ Claims'
<1>0. TypeOK /\ Links /\ Claims
  BY TablesParts
<1>1. PICK i \in DOMAIN orders, only \in BOOLEAN, d \in Date : create_invoice(i, only, d)
  BY DEF CreateInvoice
<1>2. UNCHANGED <<quotations, shipments, payments, notes, books>>
  BY SalesFrames
<1>3. PICK doc \in InvoiceRow, row \in SalesOrderRow :
        /\ invoices' = Append(invoices, doc) /\ Matches(doc, orders, 1)
        /\ doc.credited = [p \in DOMAIN doc.qty |-> 0]
        /\ orders' = [orders EXCEPT ![i] = row] /\ Invoiced(orders[i].lines, row.lines, doc.qty)
  BY <1>1, InvoiceEffect
<1>4. orders' \in Seq(SalesOrderRow) /\ invoices' \in Seq(InvoiceRow)
  BY <1>0, <1>3, TypedRows, Appended, Replaced
<1>5. TypeOK' /\ Claims'
  <2>1. BooksRows' /\ Claims' /\ PurchasingRows'
    BY <1>0, <1>2, BooksFrame, PurchasesFrame DEF TypeOK
  <2>2. SalesRows'
    BY <1>0, <1>2, <1>4 DEF TypeOK, SalesRows
  <2>3. QED
    BY <2>1, <2>2 DEF TypeOK
<1>6. Kept(orders, orders')
  BY <1>0, <1>3, TypedRows, KeptReplaced DEF Invoiced
<1>7. Links'
  <2>1. \A j \in DOMAIN invoices' : \/ j \in DOMAIN invoices /\ invoices'[j] = invoices[j]
                                    \/ invoices'[j] = doc
    BY <1>0, <1>3, TypedRows, Appended
  <2>2. \A j \in DOMAIN invoices' : Matches(invoices'[j], orders, 1)
    BY <1>0, <1>3, <2>1 DEF Links
  <2>3. \A j \in DOMAIN invoices' : Matches(invoices'[j], orders', 1)
    BY <1>6, <2>2, MatchesKept
  <2>4. DOMAIN doc.credited = DOMAIN doc.qty
    BY <1>3
  <2>5. \A j \in DOMAIN invoices' : DOMAIN invoices'[j].credited = DOMAIN invoices'[j].qty
    BY <1>0, <2>1, <2>4 DEF Links
  <2>6. bills' = bills /\ purchaseOrders' = purchaseOrders
    BY DEF purchases
  <2>7. QED
    BY <1>0, <2>3, <2>5, <2>6 DEF Links
<1>8. QED
  BY <1>5, <1>7

\* record_payment keeps the tables.
LEMMA RecordPaymentTables ==
  ASSUME Tables, RecordPayment, UNCHANGED purchases
  PROVE  TypeOK' /\ Links' /\ Claims'
<1>0. TypeOK /\ Links /\ Claims
  BY TablesParts
<1>1. PICK c \in Customer, method \in Methods, amount \in Receipts :
        \E allocated \in Allocations({i \in DOMAIN invoices : invoices[i].customer = c}) :
            record_payment(c, method, amount, allocated)
  BY DEF RecordPayment
<1>2. PICK allocated \in Allocations({i \in DOMAIN invoices : invoices[i].customer = c}) :
            record_payment(c, method, amount, allocated)
  BY <1>1
<1>3. UNCHANGED <<quotations, orders, shipments, notes, onHand, costPrice, register, returns>>
  BY SalesFrames
<1>4. /\ [party |-> c, amount |-> amount, allocated |-> allocated] \in PaymentRow(Customer)
      /\ payments' = Append(payments, [party |-> c, amount |-> amount, allocated |-> allocated])
      /\ amount \in Nat /\ invoices' \in Seq(InvoiceRow) /\ DOMAIN invoices' = DOMAIN invoices
      /\ balance' = Posted(balance, customer_payment(amount, method = "CASH"))
  BY <1>2, PaymentEffect
<1>5. \A i \in DOMAIN invoices : /\ invoices'[i].order = invoices[i].order
                                 /\ invoices'[i].qty = invoices[i].qty
                                 /\ invoices'[i].net = invoices[i].net
                                 /\ invoices'[i].tax = invoices[i].tax
                                 /\ invoices'[i].credited = invoices[i].credited
  <2>1. /\ \A i \in DOMAIN allocated : /\ PaidMore(invoices[i], invoices'[i], allocated[i])
                                       /\ invoices'[i].credited = invoices[i].credited
        /\ \A i \in DOMAIN invoices \ DOMAIN allocated : invoices'[i] = invoices[i]
    BY <1>2, PaymentEffect
  <2>2. QED
    BY <2>1 DEF PaidMore
<1>6. payments' \in Seq(PaymentRow(Customer))
  BY <1>0, <1>4, TypedRows, Appended
<1>7. balance' \in [SystemAccount -> Int]
  BY <1>0, <1>4, PaymentMoves, MovesType, TypedRows
<1>8. TypeOK'
  <2>1. BooksRows'
    BY <1>0, <1>3, <1>7 DEF TypeOK, BooksRows
  <2>2. SalesRows'
    BY <1>0, <1>3, <1>4, <1>6 DEF TypeOK, SalesRows
  <2>3. QED
    BY <1>0, <2>1, <2>2, PurchasesFrame DEF TypeOK
<1>9. Links'
  <2>1. Kept(orders, orders)
    BY KeptSame
  <2>2. /\ \A i \in DOMAIN invoices : Matches(invoices[i], orders, 1)
        /\ \A i \in DOMAIN invoices' :
              \/ /\ i \in DOMAIN invoices /\ invoices'[i].order = invoices[i].order
                 /\ invoices'[i].qty = invoices[i].qty /\ invoices'[i].net = invoices[i].net
                 /\ invoices'[i].tax = invoices[i].tax
              \/ Matches(invoices'[i], orders, 1)
    BY <1>0, <1>4, <1>5 DEF Links
  <2>3. PICK es : es = invoices'
    OBVIOUS
  <2>4. \A i \in DOMAIN es : Matches(es[i], orders, 1)
    BY <2>1, <2>2, <2>3, DocumentsMatch
  <2>5. \A i \in DOMAIN invoices' : DOMAIN invoices'[i].credited = DOMAIN invoices'[i].qty
    BY <1>0, <1>4, <1>5 DEF Links
  <2>6. bills' = bills /\ purchaseOrders' = purchaseOrders /\ orders' = orders
    BY <1>3 DEF purchases
  <2>7. QED
    BY <1>0, <2>3, <2>4, <2>5, <2>6 DEF Links
<1>10. QED
  BY <1>0, <1>3, <1>8, <1>9 DEF Claims

\* Rows a document adds to the register.
LEMMA RegisterAdded ==
  ASSUME BooksRows, Claims, NEW rows, IsFiniteSet(rows), register' = register \cup rows,
         \A r \in rows : /\ r \in VatRow /\ r.claim = 0
                         /\ VatRowChecks(r, r.source[1] \in {"credit_note", "pos_return"}),
         UNCHANGED returns, balance' \in [SystemAccount -> Int], onHand' \in [Warehouse -> [Product -> Int]],
         UNCHANGED costPrice
  PROVE  BooksRows' /\ Claims'
<1>1. IsFiniteSet(register')
  BY FS_Union DEF Claims
<1>2. Len(returns) \in Nat
  BY DEF BooksRows
<1>3. \A r \in register' : r.claim <= Len(returns)
  BY <1>2 DEF Claims
<1>4. BooksRows'
  BY DEF BooksRows
<1>5. QED
  BY <1>1, <1>3, <1>4 DEF Claims

\* New register rows satisfy the constraints of their table.
LEMMA RowChecks ==
  ASSUME NEW r \in VatRow
  PROVE  /\ r.vat >= 0 /\ r.source[1] \in {"invoice", "supplier_bill"} =>
                VatRowChecks(r, r.source[1] \in {"credit_note", "pos_return"})
         /\ r.vat <= 0 /\ r.source[1] = "credit_note" =>
                VatRowChecks(r, r.source[1] \in {"credit_note", "pos_return"})
<1>1. r.base \in Nat /\ r.rate \in 0..Scale /\ Scale \in Nat
  BY BooksAssumption DEF VatRow
<1>2. r.base >= 0 /\ r.rate <= Scale
  BY <1>1
<1>3. QED
  BY <1>2 DEF VatRowChecks

\* issue_invoice keeps the tables.
LEMMA IssueInvoiceTables ==
  ASSUME Tables, IssueInvoice, UNCHANGED purchases
  PROVE  TypeOK' /\ Links' /\ Claims'
<1>0. TypeOK /\ Links /\ Claims
  BY TablesParts
<1>1. PICK i \in DOMAIN invoices : issue_invoice(i)
  BY DEF IssueInvoice
<1>2. UNCHANGED <<quotations, orders, shipments, payments, notes, onHand, costPrice, returns>>
  BY SalesFrames
<1>3. PICK doc \in InvoiceRow : \E rows : IssueInvoiceChange(i, doc, rows)
  BY <1>1, IssueInvoiceEffect
<1>4. PICK rows : IssueInvoiceChange(i, doc, rows)
  BY <1>3
<1>41. /\ doc.order = invoices[i].order /\ doc.qty = invoices[i].qty
       /\ doc.credited = invoices[i].credited /\ doc.net = invoices[i].net
       /\ doc.tax = invoices[i].tax
       /\ invoices' = [invoices EXCEPT ![i] = doc]
       /\ balance' = Posted(balance, InvoiceEntry(invoices[i]))
       /\ register' = register \cup rows /\ IsFiniteSet(rows)
       /\ \A r \in rows : /\ r \in VatRow /\ r.source = <<"invoice", i>>
                          /\ r.claim = 0 /\ r.vat >= 0
  BY <1>4 DEF IssueInvoiceChange
<1>5. \A r \in rows : VatRowChecks(r, r.source[1] \in {"credit_note", "pos_return"})
  <2> SUFFICES ASSUME NEW r \in rows
               PROVE  VatRowChecks(r, r.source[1] \in {"credit_note", "pos_return"})
    OBVIOUS
  <2>1. r.source[1] \in {"invoice", "supplier_bill"} /\ r.vat >= 0 /\ r \in VatRow
    BY <1>41
  <2>2. QED
    BY <2>1, RowChecks
<1>6. balance' \in [SystemAccount -> Int] /\ onHand' \in [Warehouse -> [Product -> Int]]
  <2>1. invoices[i].net \in Nat /\ invoices[i].tax \in Nat
    BY <1>0, Rows DEF InvoiceRow
  <2>2. balance' = Posted(balance, InvoiceEntry(invoices[i]))
    BY <1>41
  <2>3. balance' \in [SystemAccount -> Int]
    BY <1>0, <2>1, <2>2, InvoiceMoves, MovesType, TypedRows
  <2>4. QED
    BY <1>0, <1>2, <2>3, TypedRows
<1>7. BooksRows' /\ Claims'
  BY <1>0, <1>2, <1>41, <1>5, <1>6, RegisterAdded DEF TypeOK
<1>8. invoices' \in Seq(InvoiceRow) /\ DOMAIN invoices' = DOMAIN invoices /\ invoices'[i] = doc
      /\ \A j \in DOMAIN invoices : j # i => invoices'[j] = invoices[j]
  BY <1>0, <1>41, TypedRows, Replaced
<1>9. TypeOK'
  <2>1. SalesRows'
    BY <1>0, <1>2, <1>8 DEF TypeOK, SalesRows
  <2>2. QED
    BY <1>0, <1>7, <2>1, PurchasesFrame DEF TypeOK
<1>10. Links'
  <2>1. \A j \in DOMAIN invoices : /\ invoices'[j].order = invoices[j].order
                                   /\ invoices'[j].qty = invoices[j].qty
                                   /\ invoices'[j].net = invoices[j].net
                                   /\ invoices'[j].tax = invoices[j].tax
                                   /\ invoices'[j].credited = invoices[j].credited
    BY <1>41, <1>8
  <2>2. \A j \in DOMAIN invoices' : Matches(invoices'[j], orders, 1)
    BY <1>0, <1>8, <2>1, Zenon DEF Links, Matches
  <2>3. \A j \in DOMAIN invoices' : DOMAIN invoices'[j].credited = DOMAIN invoices'[j].qty
    BY <1>0, <1>8, <2>1 DEF Links
  <2>4. bills' = bills /\ purchaseOrders' = purchaseOrders /\ orders' = orders
    BY <1>2 DEF purchases
  <2>5. QED
    BY <1>0, <2>2, <2>3, <2>4 DEF Links
<1>11. QED
  BY <1>7, <1>9, <1>10

\* issue_credit_note keeps the tables.
LEMMA IssueCreditNoteTables ==
  ASSUME Tables, IssueCreditNote, UNCHANGED purchases
  PROVE  TypeOK' /\ Links' /\ Claims'
<1>0. TypeOK /\ Links /\ Claims
  BY TablesParts
<1>1. PICK i \in DOMAIN invoices, into \in Into, d \in Date :
        \E qty \in Parts(Creditable(invoices[i])), read \in CostsRead :
            issue_credit_note(i, qty, into, d, read)
  BY DEF IssueCreditNote
<1>2. PICK qty \in Parts(Creditable(invoices[i])), read \in CostsRead :
          issue_credit_note(i, qty, into, d, read)
  BY <1>1
<1>3. UNCHANGED <<quotations, orders, shipments, payments, costPrice, returns>>
  BY SalesFrames
<1>4. /\ qty \in PerProduct(Nat) /\ onHand' = Restocked(into, qty)
      /\ \E doc \in InvoiceRow, note \in CreditNoteRow : \E rows :
            CreditNoteChange(i, qty, into, doc, note, rows)
  BY <1>2, CreditNoteEffect
<1>5. PICK doc \in InvoiceRow, note \in CreditNoteRow :
        \E rows : CreditNoteChange(i, qty, into, doc, note, rows)
  BY <1>4
<1>6. PICK rows : CreditNoteChange(i, qty, into, doc, note, rows)
  BY <1>5
<1>7. \A r \in rows : VatRowChecks(r, r.source[1] \in {"credit_note", "pos_return"})
  <2> SUFFICES ASSUME NEW r \in rows
               PROVE  VatRowChecks(r, r.source[1] \in {"credit_note", "pos_return"})
    OBVIOUS
  <2>1. r.source = <<"credit_note", Len(notes) + 1>> /\ r.vat <= 0 /\ r \in VatRow
    BY <1>6 DEF CreditNoteChange
  <2>2. r.source[1] = "credit_note"
    BY <2>1
  <2>3. QED
    BY <2>1, <2>2, RowChecks
<1>8. balance' \in [SystemAccount -> Int] /\ onHand' \in [Warehouse -> [Product -> Int]]
  <2>1. /\ note.net \in Nat /\ note.tax \in Nat /\ note.cost \in Nat
        /\ balance' = Posted(Posted(balance, ReturnEntry(note.net, note.tax)), CostReversal(note.cost))
    BY <1>6 DEF CreditNoteChange
  <2>2. PICK b \in [SystemAccount -> Int] : b = Posted(balance, ReturnEntry(note.net, note.tax))
    BY <1>0, <2>1, NoteMoves, MovesType, TypedRows
  <2>3. balance' \in [SystemAccount -> Int]
    BY <2>1, <2>2, StockMoves, MovesType
  <2>4. onHand \in [Warehouse -> [Product -> Int]] /\ onHand' = Restocked(into, qty)
    BY <1>0, <1>4, TypedRows
  <2>5. CASE into = {}
    BY <2>3, <2>4, <2>5 DEF Restocked
  <2>6. CASE into # {}
    <3>1. PICK v \in Warehouse : into = {v}
      BY <2>6 DEF Into
    <3>2. onHand' = PutBack(v, qty)
      BY <2>4, <3>1 DEF Restocked
    <3>3. PutBack(v, qty) \in [Warehouse -> [Product -> Int]]
      BY <1>4, <2>4, StockType
    <3>4. QED
      BY <2>3, <3>2, <3>3
  <2>7. QED
    BY <2>5, <2>6
<1>9. BooksRows' /\ Claims'
  <2>1. /\ register' = register \cup rows /\ IsFiniteSet(rows)
        /\ \A r \in rows : r \in VatRow /\ r.claim = 0
    BY <1>6 DEF CreditNoteChange
  <2>2. QED
    BY <1>0, <1>3, <1>7, <1>8, <2>1, RegisterAdded DEF TypeOK
<1>10. invoices' \in Seq(InvoiceRow) /\ DOMAIN invoices' = DOMAIN invoices /\ invoices'[i] = doc
       /\ (\A j \in DOMAIN invoices : j # i => invoices'[j] = invoices[j])
       /\ notes' \in Seq(CreditNoteRow)
  BY <1>0, <1>6, TypedRows, Replaced, Appended DEF CreditNoteChange
<1>11. TypeOK'
  <2>1. SalesRows'
    BY <1>0, <1>3, <1>10 DEF TypeOK, SalesRows
  <2>2. QED
    BY <1>0, <1>9, <2>1, PurchasesFrame DEF TypeOK
<1>12. Links'
  <2>1. \A j \in DOMAIN invoices : /\ invoices'[j].order = invoices[j].order
                                   /\ invoices'[j].qty = invoices[j].qty
                                   /\ invoices'[j].net = invoices[j].net
                                   /\ invoices'[j].tax = invoices[j].tax
                                   /\ DOMAIN invoices'[j].credited = DOMAIN invoices[j].credited
    BY <1>6, <1>10 DEF CreditNoteChange
  <2>2. \A j \in DOMAIN invoices' : Matches(invoices'[j], orders, 1)
    BY <1>0, <1>10, <2>1, Zenon DEF Links, Matches
  <2>3. \A j \in DOMAIN invoices' : DOMAIN invoices'[j].credited = DOMAIN invoices'[j].qty
    BY <1>0, <1>10, <2>1 DEF Links
  <2>4. bills' = bills /\ purchaseOrders' = purchaseOrders /\ orders' = orders
    BY <1>3 DEF purchases
  <2>5. QED
    BY <1>0, <2>2, <2>3, <2>4 DEF Links
<1>13. QED
  BY <1>9, <1>11, <1>12

-----------------------------------------------------------------------------
(* The same for purchases *)

\* A step that only opens or moves on a purchase order keeps the tables.
LEMMA PurchaseOrderTables ==
  ASSUME Tables, UNCHANGED <<sales, goodsReceipts, bills, supplierPayments, books>>,
         purchaseOrders' \in Seq(PurchaseOrderRow), Kept(purchaseOrders, purchaseOrders')
  PROVE  TypeOK' /\ Links' /\ Claims'
<1>1. TypeOK /\ Links /\ Claims
  BY TablesParts
<1>2. BooksRows' /\ Claims' /\ SalesRows'
  BY <1>1, BooksFrame, SalesFrame DEF TypeOK
<1>3. PurchasingRows'
  BY <1>1 DEF TypeOK, PurchasingRows
<1>4. \A i \in DOMAIN bills : Matches(bills[i], purchaseOrders', CostScale)
  BY <1>1, MatchesKept DEF Links
<1>5. bills' = bills /\ orders' = orders /\ invoices' = invoices
  BY DEF sales
<1>6. Links'
  BY <1>1, <1>4, <1>5 DEF Links
<1>7. QED
  BY <1>2, <1>3, <1>6 DEF TypeOK

\* create_purchase_order keeps the tables.
LEMMA CreatePurchaseOrderTables ==
  ASSUME Tables, CreatePurchaseOrder
  PROVE  TypeOK' /\ Links' /\ Claims'
<1>0. TypeOK
  BY DEF Tables
<1>1. PICK s \in Supplier, w \in Warehouse, b \in PurchaseBasket : create_purchase_order(s, w, b)
  BY DEF CreatePurchaseOrder
<1>2. PICK new : new = NewPurchaseOrder(s, w, b)
  OBVIOUS
<1>3. new \in PurchaseOrderRow
  BY <1>2, NewPurchaseOrderType
<1>4. /\ purchaseOrders' = Append(purchaseOrders, new)
      /\ UNCHANGED <<goodsReceipts, bills, supplierPayments, sales, books>>
  BY <1>1, <1>2 DEF create_purchase_order
<1>5. purchaseOrders' \in Seq(PurchaseOrderRow)
  BY <1>0, <1>3, <1>4, TypedRows, Appended
<1>6. Kept(purchaseOrders, purchaseOrders')
  BY <1>0, <1>3, <1>4, TypedRows, KeptAppended
<1>7. QED
  BY <1>4, <1>5, <1>6, PurchaseOrderTables

PurchaseStatusChange(i, row, st) ==
    /\ row.lines = purchaseOrders[i].lines /\ row.status = st
    /\ purchaseOrders' = [purchaseOrders EXCEPT ![i] = row]
    /\ UNCHANGED <<goodsReceipts, bills, supplierPayments, sales, books>>

\* What confirm_purchase_order and cancel_purchase_order do.
LEMMA PurchaseStatusEffect ==
  ASSUME TypeOK, NEW i \in DOMAIN purchaseOrders
  PROVE  /\ confirm_purchase_order(i) =>
                \E row \in PurchaseOrderRow : PurchaseStatusChange(i, row, "CONFIRMED")
         /\ cancel_purchase_order(i) =>
                \E row \in PurchaseOrderRow : PurchaseStatusChange(i, row, "CANCELLED")
<1>1. "CONFIRMED" \in PurchaseOrderStatus /\ "CANCELLED" \in PurchaseOrderStatus
  BY DEF PurchaseOrderStatus
<1>2. ASSUME NEW st \in PurchaseOrderStatus,
             purchaseOrders' = [purchaseOrders EXCEPT ![i].status = st],
             UNCHANGED <<goodsReceipts, bills, supplierPayments, sales, books>>
      PROVE  \E row \in PurchaseOrderRow : PurchaseStatusChange(i, row, st)
  <2>1. purchaseOrders \in Seq(PurchaseOrderRow)
    BY TypedRows
  <2>2. PICK row : row = [purchaseOrders[i] EXCEPT !.status = st]
    OBVIOUS
  <2>3. /\ row \in PurchaseOrderRow /\ row.lines = purchaseOrders[i].lines /\ row.status = st
        /\ [purchaseOrders EXCEPT ![i].status = st] = [purchaseOrders EXCEPT ![i] = row]
    BY <2>1, <2>2, PurchaseStatusReplaced
  <2>4. QED
    BY <1>2, <2>3 DEF PurchaseStatusChange
<1>3. QED
  BY <1>1, <1>2 DEF confirm_purchase_order, cancel_purchase_order

\* confirm_purchase_order and cancel_purchase_order keep the tables.
LEMMA PurchaseStatusTables ==
  ASSUME Tables, ConfirmPurchaseOrder \/ CancelPurchaseOrder
  PROVE  TypeOK' /\ Links' /\ Claims'
<1>0. TypeOK
  BY DEF Tables
<1>1. PICK i \in DOMAIN purchaseOrders : confirm_purchase_order(i) \/ cancel_purchase_order(i)
  BY DEF ConfirmPurchaseOrder, CancelPurchaseOrder
<1>2. PICK st \in {"CONFIRMED", "CANCELLED"} :
        \E row \in PurchaseOrderRow : PurchaseStatusChange(i, row, st)
  BY <1>0, <1>1, PurchaseStatusEffect
<1>3. PICK row \in PurchaseOrderRow : PurchaseStatusChange(i, row, st)
  BY <1>2
<1>4. /\ purchaseOrders' = [purchaseOrders EXCEPT ![i] = row]
      /\ row.lines = purchaseOrders[i].lines
      /\ UNCHANGED <<goodsReceipts, bills, supplierPayments, sales, books>>
  BY <1>3 DEF PurchaseStatusChange
<1>5. purchaseOrders' \in Seq(PurchaseOrderRow)
  BY <1>0, <1>4, TypedRows, Replaced
<1>6. SameTerms(purchaseOrders[i].lines, row.lines)
  BY <1>4 DEF SameTerms
<1>7. Kept(purchaseOrders, purchaseOrders')
  BY <1>0, <1>4, <1>6, TypedRows, KeptReplaced
<1>8. QED
  BY <1>4, <1>5, <1>7, PurchaseOrderTables

\* receive keeps the tables.
LEMMA ReceiveTables ==
  ASSUME Tables, Receive, ProductChecks'
  PROVE  TypeOK' /\ Links' /\ Claims'
<1>0. TypeOK /\ Links /\ Claims
  BY TablesParts
<1>1. PICK i \in DOMAIN purchaseOrders : \E qty \in Parts(ToReceive(purchaseOrders[i])) :
        \E override \in {{}} \cup {{u} : u \in Overrides}, read \in CostsRead :
            receive(i, qty, override, read)
  BY DEF Receive
<1>2. PICK qty \in Parts(ToReceive(purchaseOrders[i])) :
        \E override \in {{}} \cup {{u} : u \in Overrides}, read \in CostsRead :
            receive(i, qty, override, read)
  BY <1>1
<1>3. PICK override \in {{}} \cup {{u} : u \in Overrides}, read \in CostsRead :
        receive(i, qty, override, read)
  BY <1>2
<1>4. UNCHANGED <<bills, supplierPayments, sales, register, returns>>
  BY PurchaseFrames
<1>5. PICK row \in PurchaseOrderRow, receipt \in GoodsReceiptRow : ReceiptChange(i, qty, row, receipt)
  BY <1>3, ReceiveEffect
<1>6. costPrice' \in [Product -> Seq(Nat) \ {<<>>}] /\ qty \in PerProduct(Nat)
  BY <1>3, ReceiveEffect
<1>7. balance' \in [SystemAccount -> Int] /\ onHand' \in [Warehouse -> [Product -> Int]]
  <2>1. /\ balance' = Posted(balance, IF receipt.cost > 0 THEN goods_receipt(PostedCost(receipt.cost))
                                                          ELSE NoEntry)
        /\ receipt.cost \in Nat /\ onHand' = PutBack(purchaseOrders[i].warehouse, qty)
    BY <1>5 DEF ReceiptChange
  <2>2. balance' \in [SystemAccount -> Int]
    BY <1>0, <2>1, StockMoves, MovesType, TypedRows
  <2>3. PICK v \in Warehouse : v = purchaseOrders[i].warehouse
    BY <1>0, Rows DEF PurchaseOrderRow
  <2>4. onHand \in [Warehouse -> [Product -> Int]]
    BY <1>0, TypedRows
  <2>5. PutBack(v, qty) \in [Warehouse -> [Product -> Int]]
    BY <1>6, <2>4, StockType
  <2>6. QED
    BY <2>1, <2>2, <2>3, <2>5
<1>8. purchaseOrders' \in Seq(PurchaseOrderRow) /\ goodsReceipts' \in Seq(GoodsReceiptRow)
  BY <1>0, <1>5, TypedRows, Appended, Replaced DEF ReceiptChange
<1>9. TypeOK'
  <2>1. BooksRows'
    BY <1>0, <1>4, <1>6, <1>7 DEF TypeOK, BooksRows
  <2>2. PurchasingRows'
    BY <1>0, <1>4, <1>8 DEF TypeOK, PurchasingRows
  <2>3. QED
    BY <1>0, <1>4, <2>1, <2>2, SalesFrame DEF TypeOK
<1>10. Kept(purchaseOrders, purchaseOrders')
  <2>1. /\ purchaseOrders' = [purchaseOrders EXCEPT ![i] = row]
        /\ SameTerms(purchaseOrders[i].lines, row.lines)
    BY <1>5 DEF ReceiptChange, Received
  <2>2. QED
    BY <1>0, <2>1, TypedRows, KeptReplaced
<1>11. Links'
  <2>1. \A j \in DOMAIN bills : Matches(bills[j], purchaseOrders', CostScale)
    BY <1>0, <1>10, MatchesKept DEF Links
  <2>2. bills' = bills /\ orders' = orders /\ invoices' = invoices
    BY <1>4 DEF sales
  <2>3. QED
    BY <1>0, <2>1, <2>2 DEF Links
<1>12. QED
  BY <1>0, <1>4, <1>9, <1>11 DEF Claims

\* create_bill keeps the tables.
LEMMA CreateBillTables ==
  ASSUME Tables, CreateBill
  PROVE  TypeOK' /\ Links' /\ Claims'
<1>0. TypeOK /\ Links /\ Claims
  BY TablesParts
<1>1. PICK i \in DOMAIN purchaseOrders, only \in BOOLEAN, d \in Date : create_bill(i, only, d)
  BY DEF CreateBill
<1>2. UNCHANGED <<goodsReceipts, supplierPayments, sales, books>>
  BY PurchaseFrames
<1>3. PICK row \in PurchaseOrderRow, doc \in SupplierBillRow : BillChange(i, d, row, doc)
  BY <1>1, BillEffect
<1>4. /\ bills' = Append(bills, doc) /\ Matches(doc, purchaseOrders, CostScale)
      /\ purchaseOrders' = [purchaseOrders EXCEPT ![i] = row]
      /\ SameTerms(purchaseOrders[i].lines, row.lines)
  BY <1>3 DEF BillChange, Billed
<1>5. purchaseOrders' \in Seq(PurchaseOrderRow) /\ bills' \in Seq(SupplierBillRow)
  BY <1>0, <1>4, TypedRows, Appended, Replaced
<1>6. TypeOK' /\ Claims'
  <2>1. BooksRows' /\ Claims' /\ SalesRows'
    BY <1>0, <1>2, BooksFrame, SalesFrame DEF TypeOK
  <2>2. PurchasingRows'
    BY <1>0, <1>2, <1>5 DEF TypeOK, PurchasingRows
  <2>3. QED
    BY <2>1, <2>2 DEF TypeOK
<1>7. Kept(purchaseOrders, purchaseOrders')
  BY <1>0, <1>4, TypedRows, KeptReplaced
<1>8. Links'
  <2>1. \A j \in DOMAIN bills' : \/ j \in DOMAIN bills /\ bills'[j] = bills[j]
                                 \/ bills'[j] = doc
    BY <1>0, <1>4, TypedRows, Appended
  <2>2. \A j \in DOMAIN bills' : Matches(bills'[j], purchaseOrders, CostScale)
    BY <1>0, <1>4, <2>1 DEF Links
  <2>3. \A j \in DOMAIN bills' : Matches(bills'[j], purchaseOrders', CostScale)
    BY <1>7, <2>2, MatchesKept
  <2>4. invoices' = invoices /\ orders' = orders
    BY <1>2 DEF sales
  <2>5. QED
    BY <1>0, <2>3, <2>4 DEF Links
<1>9. QED
  BY <1>6, <1>8

\* pay_supplier keeps the tables.
LEMMA PaySupplierTables ==
  ASSUME Tables, PaySupplier
  PROVE  TypeOK' /\ Links' /\ Claims'
<1>0. TypeOK /\ Links /\ Claims
  BY TablesParts
<1>1. PICK s \in Supplier, method \in Methods, amount \in Receipts :
        \E allocated \in Allocations({i \in DOMAIN bills : bills[i].supplier = s}) :
            pay_supplier(s, method, amount, allocated)
  BY DEF PaySupplier
<1>2. PICK allocated \in Allocations({i \in DOMAIN bills : bills[i].supplier = s}) :
            pay_supplier(s, method, amount, allocated)
  BY <1>1
<1>3. UNCHANGED <<purchaseOrders, goodsReceipts, sales, onHand, costPrice, register, returns>>
  BY PurchaseFrames
<1>4. /\ [party |-> s, amount |-> amount, allocated |-> allocated] \in PaymentRow(Supplier)
      /\ supplierPayments' = Append(supplierPayments,
                [party |-> s, amount |-> amount, allocated |-> allocated])
      /\ amount \in Nat /\ bills' \in Seq(SupplierBillRow) /\ DOMAIN bills' = DOMAIN bills
      /\ balance' = Posted(balance, supplier_payment(amount, method = "CASH"))
  BY <1>2, SupplierPaymentEffect
<1>5. \A i \in DOMAIN bills : /\ bills'[i].order = bills[i].order /\ bills'[i].qty = bills[i].qty
                              /\ bills'[i].net = bills[i].net /\ bills'[i].tax = bills[i].tax
  <2>1. /\ \A i \in DOMAIN allocated : PaidMore(bills[i], bills'[i], allocated[i])
        /\ \A i \in DOMAIN bills \ DOMAIN allocated : bills'[i] = bills[i]
    BY <1>2, SupplierPaymentEffect
  <2>2. QED
    BY <2>1 DEF PaidMore
<1>6. supplierPayments' \in Seq(PaymentRow(Supplier))
  BY <1>0, <1>4, TypedRows, Appended
<1>7. balance' \in [SystemAccount -> Int]
  BY <1>0, <1>4, PaymentMoves, MovesType, TypedRows
<1>8. TypeOK'
  <2>1. BooksRows'
    BY <1>0, <1>3, <1>7 DEF TypeOK, BooksRows
  <2>2. PurchasingRows'
    BY <1>0, <1>3, <1>4, <1>6 DEF TypeOK, PurchasingRows
  <2>3. QED
    BY <1>0, <1>3, <2>1, <2>2, SalesFrame DEF TypeOK
<1>9. Links'
  <2>1. Kept(purchaseOrders, purchaseOrders)
    BY KeptSame
  <2>2. /\ \A i \in DOMAIN bills : Matches(bills[i], purchaseOrders, CostScale)
        /\ \A i \in DOMAIN bills' :
              \/ /\ i \in DOMAIN bills /\ bills'[i].order = bills[i].order
                 /\ bills'[i].qty = bills[i].qty /\ bills'[i].net = bills[i].net
                 /\ bills'[i].tax = bills[i].tax
              \/ Matches(bills'[i], purchaseOrders, CostScale)
    BY <1>0, <1>4, <1>5 DEF Links
  <2>3. PICK es : es = bills'
    OBVIOUS
  <2>4. \A i \in DOMAIN es : Matches(es[i], purchaseOrders, CostScale)
    BY <2>1, <2>2, <2>3, DocumentsMatch
  <2>5. invoices' = invoices /\ orders' = orders /\ purchaseOrders' = purchaseOrders
    BY <1>3 DEF sales
  <2>6. QED
    BY <1>0, <2>3, <2>4, <2>5 DEF Links
<1>10. QED
  BY <1>0, <1>3, <1>8, <1>9 DEF Claims

\* issue_bill keeps the tables.
LEMMA IssueBillTables ==
  ASSUME Tables, IssueBill
  PROVE  TypeOK' /\ Links' /\ Claims'
<1>0. TypeOK /\ Links /\ Claims
  BY TablesParts
<1>1. PICK i \in DOMAIN bills : issue_bill(i)
  BY DEF IssueBill
<1>2. UNCHANGED <<purchaseOrders, goodsReceipts, supplierPayments, sales, onHand, costPrice, returns>>
  BY PurchaseFrames
<1>3. PICK doc \in SupplierBillRow : \E rows : IssueBillChange(i, doc, rows)
  BY <1>1, IssueBillEffect
<1>4. PICK rows : IssueBillChange(i, doc, rows)
  BY <1>3
<1>5. \A r \in rows : VatRowChecks(r, r.source[1] \in {"credit_note", "pos_return"})
  <2> SUFFICES ASSUME NEW r \in rows
               PROVE  VatRowChecks(r, r.source[1] \in {"credit_note", "pos_return"})
    OBVIOUS
  <2>1. r.source = <<"supplier_bill", i>> /\ r.vat >= 0 /\ r \in VatRow
    BY <1>4 DEF IssueBillChange
  <2>2. r.source[1] \in {"invoice", "supplier_bill"}
    BY <2>1
  <2>3. QED
    BY <2>1, <2>2, RowChecks
<1>6. balance' \in [SystemAccount -> Int] /\ onHand' \in [Warehouse -> [Product -> Int]]
  <2>1. bills[i].net \in Nat /\ bills[i].tax \in Nat
    BY <1>0, Rows DEF SupplierBillRow
  <2>2. balance' = Posted(balance, supplier_bill(bills[i].net, bills[i].tax))
    BY <1>4 DEF IssueBillChange
  <2>3. balance' \in [SystemAccount -> Int]
    BY <1>0, <2>1, <2>2, BillMoves, MovesType, TypedRows
  <2>4. QED
    BY <1>0, <1>2, <2>3, TypedRows
<1>7. BooksRows' /\ Claims'
  <2>1. /\ register' = register \cup rows /\ IsFiniteSet(rows)
        /\ \A r \in rows : r \in VatRow /\ r.claim = 0
    BY <1>4 DEF IssueBillChange
  <2>2. QED
    BY <1>0, <1>2, <1>5, <1>6, <2>1, RegisterAdded DEF TypeOK
<1>8. bills' \in Seq(SupplierBillRow) /\ DOMAIN bills' = DOMAIN bills /\ bills'[i] = doc
      /\ \A j \in DOMAIN bills : j # i => bills'[j] = bills[j]
  BY <1>0, <1>4, TypedRows, Replaced DEF IssueBillChange
<1>9. TypeOK'
  <2>1. PurchasingRows'
    BY <1>0, <1>2, <1>8 DEF TypeOK, PurchasingRows
  <2>2. QED
    BY <1>0, <1>2, <1>7, <2>1, SalesFrame DEF TypeOK
<1>10. Links'
  <2>1. \A j \in DOMAIN bills : /\ bills'[j].order = bills[j].order /\ bills'[j].qty = bills[j].qty
                                /\ bills'[j].net = bills[j].net /\ bills'[j].tax = bills[j].tax
    BY <1>4, <1>8 DEF IssueBillChange
  <2>2. \A j \in DOMAIN bills' : Matches(bills'[j], purchaseOrders, CostScale)
    BY <1>0, <1>8, <2>1, Zenon DEF Links, Matches
  <2>3. invoices' = invoices /\ orders' = orders /\ purchaseOrders' = purchaseOrders
    BY <1>2 DEF sales
  <2>4. QED
    BY <1>0, <2>2, <2>3 DEF Links
<1>11. QED
  BY <1>7, <1>9, <1>10

-----------------------------------------------------------------------------
(***************************************************************************)
(* VAT returns                                                             *)
(***************************************************************************)

LEMMA ClaimedRow ==
  ASSUME NEW r \in VatRow, NEW i \in 0..MaxDocuments
  PROVE  LET s == [r EXCEPT !.claim = i]
         IN  /\ s \in VatRow /\ s.claim = i /\ s.source = r.source /\ s.direction = r.direction
             /\ s.date = r.date /\ s.rate = r.rate /\ s.base = r.base /\ s.vat = r.vat
             /\ \A b : VatRowChecks(r, b) => VatRowChecks(s, b)
<1>1. LET s == [r EXCEPT !.claim = i]
      IN  /\ s \in VatRow /\ s.claim = i /\ s.source = r.source /\ s.direction = r.direction
          /\ s.date = r.date /\ s.rate = r.rate /\ s.base = r.base /\ s.vat = r.vat
  BY DEF VatRow
<1>2. QED
  BY <1>1 DEF VatRowChecks

\* The boxes of a return are numbers.
LEMMA BoxesType ==
  ASSUME NEW rows, IsFiniteSet(rows), \A r \in rows : r \in VatRow
  PROVE  Boxes(rows) \in [output : Int, input : Int, sales : Nat, purchases : Nat]
<1>1. ASSUME NEW direction
      PROVE  VatOf(rows, direction) \in Int /\ BaseOf(rows, direction) \in Nat
  <2> DEFINE S == {r \in rows : r.direction = direction}
             f == [r \in S |-> r.vat]
             g == [r \in S |-> r.base]
  <2>1. IsFiniteSet(S) /\ \A r \in S : r.vat \in Int /\ r.base \in Nat
    <3>1. \A r \in rows : r.vat \in Int /\ r.base \in Nat
      BY DEF VatRow
    <3>2. S \subseteq rows
      OBVIOUS
    <3>3. IsFiniteSet(S)
      BY <3>2, FS_Subset
    <3>4. QED
      BY <3>1, <3>3
  <2>2. VatOf(rows, direction) = SumFunction(f) /\ BaseOf(rows, direction) = SumFunction(g)
    BY DEF VatOf, BaseOf
  <2> HIDE DEF S
  <2>3. /\ DOMAIN f = S /\ DOMAIN g = S
        /\ \A r \in DOMAIN f : f[r] \in Int
        /\ \A r \in DOMAIN g : g[r] \in Nat
    BY <2>1
  <2> HIDE DEF f, g
  <2>4. QED
    BY <2>1, <2>2, <2>3, SumSplit, SumNat
<1>2. QED
  BY <1>1 DEF Boxes

\* The rows a return may claim are finitely many rows of the register.
LEMMA UnclaimedRows ==
  ASSUME BooksRows, Claims, NEW span
  PROVE  /\ Unclaimed(span) \subseteq register /\ IsFiniteSet(Unclaimed(span))
         /\ \A r \in Unclaimed(span) : r \in VatRow /\ r.claim = 0
         /\ Boxes(Unclaimed(span)) \in [output : Int, input : Int, sales : Nat, purchases : Nat]
<1>1. Unclaimed(span) \subseteq register /\ \A r \in Unclaimed(span) : r \in VatRow /\ r.claim = 0
  BY DEF Unclaimed, BooksRows
<1>2. IsFiniteSet(Unclaimed(span))
  BY <1>1, FS_Subset DEF Claims
<1>3. QED
  BY <1>1, <1>2, BoxesType

\* There is room for one more return.
LEMMA RoomForReturn ==
  ASSUME TypeOK, Room
  PROVE  Len(returns) + 1 <= MaxDocuments
<1>1. /\ Len(quotations) \in Nat /\ Len(shipments) \in Nat /\ Len(invoices) \in Nat
      /\ Len(payments) \in Nat /\ Len(notes) \in Nat /\ Len(goodsReceipts) \in Nat
      /\ Len(bills) \in Nat /\ Len(supplierPayments) \in Nat /\ Len(returns) \in Nat
      /\ Len(orders) \in Nat /\ Len(purchaseOrders) \in Nat
  BY TypedRows
<1>2. QED
  BY <1>1, BooksAssumption DEF Room, Documents

PrepareChange(span, new) ==
    /\ new.span = span /\ new.status = "DRAFT" /\ new.boxes = Boxes(Unclaimed(span))
    /\ returns' = Append(returns, new)
    /\ UNCHANGED <<balance, onHand, costPrice, register, sales, purchases>>

\* What prepare_return does.
LEMMA PrepareEffect ==
  ASSUME Tables, PrepareReturn
  PROVE  \E span \in Spans, new \in VatReturnRow : PrepareChange(span, new)
<1>0. TypeOK /\ Links /\ Claims
  BY TablesParts
<1>1. PICK span \in Spans : prepare_return(span) /\ UNCHANGED <<sales, purchases>>
  BY DEF PrepareReturn
<1>2. PICK b \in [output : Int, input : Int, sales : Nat, purchases : Nat] :
        b = Boxes(Unclaimed(span))
  BY <1>0, UnclaimedRows DEF TypeOK
<1>3. PICK new : new = [span |-> span, status |-> "DRAFT", boxes |-> b]
  OBVIOUS
<1>4. new \in VatReturnRow /\ new.span = span /\ new.status = "DRAFT" /\ new.boxes = b
  BY <1>3 DEF VatReturnRow
<1>5. returns' = Append(returns, new) /\ UNCHANGED <<balance, onHand, costPrice, register>>
  BY <1>1, <1>2, <1>3 DEF prepare_return
<1>6. QED
  BY <1>1, <1>2, <1>4, <1>5 DEF PrepareChange

\* prepare_return keeps the tables.
LEMMA PrepareReturnTables ==
  ASSUME Tables, PrepareReturn
  PROVE  Tables'
<1>0. TypeOK /\ Links /\ Claims /\ SalesChecks /\ PurchasingChecks
  BY TablesParts
<1>1. PICK span \in Spans, new \in VatReturnRow : PrepareChange(span, new)
  BY PrepareEffect
<1>2. /\ returns' = Append(returns, new)
      /\ UNCHANGED <<balance, onHand, costPrice, register, sales, purchases>>
  BY <1>1 DEF PrepareChange
<1>3. returns' \in Seq(VatReturnRow) /\ Len(returns') = Len(returns) + 1 /\ Len(returns) \in Nat
  BY <1>0, <1>2, TypedRows, Appended
<1>4. BooksRows'
  BY <1>0, <1>2, <1>3 DEF TypeOK, BooksRows
<1>5. Claims'
  <2>1. Len(returns) + 1 <= MaxDocuments
    BY <1>0, RoomForReturn DEF PrepareReturn
  <2>2. \A r \in register : r.claim <= Len(returns) + 1
    <3>1. \A r \in register : r.claim \in Int
      BY <1>0, BooksAssumption DEF TypeOK, BooksRows, VatRow
    <3>2. QED
      BY <1>0, <1>3, <3>1 DEF Claims
  <2>3. QED
    BY <1>0, <1>2, <1>3, <2>1, <2>2 DEF Claims
<1>6. SalesRows' /\ PurchasingRows'
  BY <1>0, <1>2, SalesFrame, PurchasesFrame DEF TypeOK
<1>7. Links' /\ SalesChecks' /\ PurchasingChecks'
  <2>1. /\ quotations' = quotations /\ orders' = orders /\ shipments' = shipments
        /\ invoices' = invoices /\ payments' = payments /\ notes' = notes
        /\ purchaseOrders' = purchaseOrders /\ goodsReceipts' = goodsReceipts /\ bills' = bills
        /\ supplierPayments' = supplierPayments
    BY <1>2 DEF sales, purchases
  <2>2. Links'
    BY <1>0, <2>1 DEF Links
  <2>3. SalesChecks'
    BY <1>0, <2>1 DEF SalesChecks, SalesOrderKeys, FulfillmentKeys, InvoiceKeys, CreditNoteKeys
  <2>4. PurchasingChecks'
    BY <1>0, <2>1 DEF PurchasingChecks, GoodsReceiptKeys, SupplierBillKeys
  <2>5. QED
    BY <2>2, <2>3, <2>4
<1>8. QED
  BY <1>4, <1>5, <1>6, <1>7, TablesPartsNext DEF TypeOK

\* Filing return i: it becomes row, and the unclaimed rows of its period get its number.
FileChange(i, row) ==
    /\ returns[i].status = "DRAFT" /\ row.span = returns[i].span /\ row.status = "FILED"
    /\ row.boxes = Boxes(Unclaimed(returns[i].span))
    /\ returns' = [returns EXCEPT ![i] = row]
    /\ register' = (register \ Unclaimed(returns[i].span))
                   \cup {[r EXCEPT !.claim = i] : r \in Unclaimed(returns[i].span)}
    /\ UNCHANGED <<balance, onHand, costPrice, sales, purchases>>

\* What file_return does.
LEMMA FileEffect ==
  ASSUME Tables, FileReturn
  PROVE  \E i \in DOMAIN returns, row \in VatReturnRow : FileChange(i, row)
<1>0. TypeOK /\ Links /\ Claims
  BY TablesParts
<1>1. PICK i \in DOMAIN returns : file_return(i) /\ UNCHANGED <<sales, purchases>>
  BY DEF FileReturn
<1>2. PICK b \in [output : Int, input : Int, sales : Nat, purchases : Nat] :
        b = Boxes(Unclaimed(returns[i].span))
  BY <1>0, UnclaimedRows DEF TypeOK
<1>3. PICK v \in VatReturnRow : v = returns[i]
  BY <1>0, Rows
<1>4. PICK row : row = [v EXCEPT !.status = "FILED", !.boxes = b]
  OBVIOUS
<1>5. row \in VatReturnRow /\ row.span = v.span /\ row.status = "FILED" /\ row.boxes = b
  BY <1>4 DEF VatReturnRow
<1>6. /\ returns' = [returns EXCEPT ![i].status = "FILED", ![i].boxes = b]
      /\ returns[i].status = "DRAFT"
      /\ register' = (register \ Unclaimed(returns[i].span))
                     \cup {[r EXCEPT !.claim = i] : r \in Unclaimed(returns[i].span)}
      /\ UNCHANGED <<balance, onHand, costPrice>>
  BY <1>1, <1>2, Zenon DEF file_return, FiledBoxes
<1>7. [returns EXCEPT ![i].status = "FILED", ![i].boxes = b]
      = [returns EXCEPT ![i] = [returns[i] EXCEPT !.status = "FILED", !.boxes = b]]
  OBVIOUS
<1>8. returns' = [returns EXCEPT ![i] = row]
  BY <1>3, <1>4, <1>6, <1>7
<1>9. FileChange(i, row)
  BY <1>1, <1>2, <1>3, <1>5, <1>6, <1>8 DEF FileChange
<1>10. QED
  BY <1>5, <1>9

\* file_return keeps the tables.
LEMMA FileReturnTables ==
  ASSUME Tables, FileReturn
  PROVE  Tables'
<1>0. TypeOK /\ Links /\ Claims /\ SalesChecks /\ PurchasingChecks
  BY TablesParts
<1>1. PICK i \in DOMAIN returns, row \in VatReturnRow : FileChange(i, row)
  BY FileEffect
<1>2. PICK rows : rows = Unclaimed(returns[i].span)
  OBVIOUS
<1>3. /\ returns' = [returns EXCEPT ![i] = row]
      /\ register' = (register \ rows) \cup {[r EXCEPT !.claim = i] : r \in rows}
      /\ UNCHANGED <<balance, onHand, costPrice, sales, purchases>>
  BY <1>1, <1>2 DEF FileChange
<1>4. returns' \in Seq(VatReturnRow) /\ Len(returns') = Len(returns) /\ Len(returns) \in Nat
      /\ i \in 1..Len(returns)
  BY <1>0, <1>3, TypedRows, Replaced
<1>5. i \in 0..MaxDocuments
  BY <1>0, <1>4, BooksAssumption DEF Claims
<1>6. rows \subseteq register /\ IsFiniteSet(rows) /\ \A r \in rows : r \in VatRow
  BY <1>0, <1>2, UnclaimedRows DEF TypeOK
<1>7. \A r \in rows : LET s == [r EXCEPT !.claim = i]
                      IN  /\ s \in VatRow /\ s.claim = i /\ s.source = r.source
                          /\ \A b : VatRowChecks(r, b) => VatRowChecks(s, b)
  BY <1>5, <1>6, ClaimedRow, Zenon
<1>8. BooksRows'
  <2>1. \A r \in register : r \in VatRow /\ VatRowChecks(r, r.source[1] \in {"credit_note", "pos_return"})
    BY <1>0 DEF TypeOK, BooksRows
  <2>2. \A r \in register' : r \in VatRow /\ VatRowChecks(r, r.source[1] \in {"credit_note", "pos_return"})
    <3> SUFFICES ASSUME NEW s \in register'
                 PROVE  s \in VatRow /\ VatRowChecks(s, s.source[1] \in {"credit_note", "pos_return"})
      OBVIOUS
    <3>1. CASE s \in register
      BY <2>1, <3>1
    <3>2. CASE s \notin register
      <4>1. PICK r \in rows : s = [r EXCEPT !.claim = i]
        BY <1>3, <3>2
      <4>2. s \in VatRow /\ s.source = r.source /\ \A b : VatRowChecks(r, b) => VatRowChecks(s, b)
        BY <1>7, <4>1, Zenon
      <4>3. VatRowChecks(r, s.source[1] \in {"credit_note", "pos_return"})
        BY <1>6, <2>1, <4>2
      <4>4. QED
        BY <4>2, <4>3
    <3>3. QED
      BY <3>1, <3>2
  <2>3. QED
    BY <1>0, <1>3, <1>4, <2>2 DEF TypeOK, BooksRows
<1>9. Claims'
  <2>1. IsFiniteSet({[r EXCEPT !.claim = i] : r \in rows})
    <3> DEFINE f == [r \in rows |-> [r EXCEPT !.claim = i]]
    <3>1. PICK T : T = {[r EXCEPT !.claim = i] : r \in rows}
      OBVIOUS
    <3>2. f \in [rows -> T] /\ \A t \in T : \E r \in rows : f[r] = t
      BY <3>1
    <3> HIDE DEF f
    <3>3. f \in Surjection(rows, T)
      BY <3>2 DEF Surjection
    <3>4. QED
      BY <1>6, <3>1, <3>3, FS_Surjection
  <2>2. IsFiniteSet(register \ rows)
    BY <1>0, FS_Difference DEF Claims
  <2>3. IsFiniteSet(register')
    BY <1>3, <2>1, <2>2, FS_Union
  <2>4. \A r \in register' : r.claim <= Len(returns)
    <3>1. \A r \in register : r.claim <= Len(returns)
      BY <1>0 DEF Claims
    <3>2. i <= Len(returns)
      BY <1>4
    <3>3. \A r \in rows : [r EXCEPT !.claim = i].claim = i
      BY <1>7, Zenon
    <3>4. QED
      BY <1>3, <3>1, <3>2, <3>3
  <2>5. Len(returns) <= MaxDocuments
    BY <1>0 DEF Claims
  <2>6. QED
    BY <1>4, <2>3, <2>4, <2>5 DEF Claims
<1>10. SalesRows' /\ PurchasingRows'
  BY <1>0, <1>3, SalesFrame, PurchasesFrame DEF TypeOK
<1>11. Links' /\ SalesChecks' /\ PurchasingChecks'
  <2>1. /\ quotations' = quotations /\ orders' = orders /\ shipments' = shipments
        /\ invoices' = invoices /\ payments' = payments /\ notes' = notes
        /\ purchaseOrders' = purchaseOrders /\ goodsReceipts' = goodsReceipts /\ bills' = bills
        /\ supplierPayments' = supplierPayments
    BY <1>3 DEF sales, purchases
  <2>2. Links'
    BY <1>0, <2>1 DEF Links
  <2>3. SalesChecks'
    BY <1>0, <2>1 DEF SalesChecks, SalesOrderKeys, FulfillmentKeys, InvoiceKeys, CreditNoteKeys
  <2>4. PurchasingChecks'
    BY <1>0, <2>1 DEF PurchasingChecks, GoodsReceiptKeys, SupplierBillKeys
  <2>5. QED
    BY <2>2, <2>3, <2>4
<1>12. QED
  BY <1>8, <1>9, <1>10, <1>11, TablesPartsNext DEF TypeOK

\* The tables at the start.
LEMMA TablesInit ==
  ASSUME Init
  PROVE  Tables
<1>1. /\ quotations = <<>> /\ orders = <<>> /\ shipments = <<>> /\ invoices = <<>>
      /\ payments = <<>> /\ notes = <<>> /\ purchaseOrders = <<>> /\ goodsReceipts = <<>>
      /\ bills = <<>> /\ supplierPayments = <<>> /\ returns = <<>> /\ register = {}
  BY DEF Init, BooksInit, SalesInit, PurchasingInit
<1>2. TypeOK
  <2>1. BooksRows
    BY <1>1, BooksAssumption DEF Init, BooksInit, BooksRows
  <2>2. SalesRows /\ PurchasingRows
    BY <1>1 DEF SalesRows, PurchasingRows
  <2>3. QED
    BY <2>1, <2>2 DEF TypeOK
<1>3. SalesChecks /\ PurchasingChecks
  BY <1>1 DEF SalesChecks, PurchasingChecks
<1>4. Links
  BY <1>1 DEF Links
<1>5. Claims
  BY <1>1, FS_EmptySet, BooksAssumption DEF Claims
<1>6. QED
  BY <1>2, <1>3, <1>4, <1>5, TablesParts

\* A step that changes nothing keeps the tables.
LEMMA TablesSame ==
  ASSUME Tables, UNCHANGED vars
  PROVE  Tables'
<1>1. /\ quotations' = quotations /\ orders' = orders /\ shipments' = shipments
      /\ invoices' = invoices /\ payments' = payments /\ notes' = notes
      /\ purchaseOrders' = purchaseOrders /\ goodsReceipts' = goodsReceipts /\ bills' = bills
      /\ supplierPayments' = supplierPayments /\ returns' = returns /\ register' = register
      /\ balance' = balance /\ onHand' = onHand /\ costPrice' = costPrice
  BY DEF vars, books, sales, purchases
<1>2. TypeOK /\ SalesChecks /\ PurchasingChecks /\ Links /\ Claims
  BY TablesParts
<1>3. TypeOK'
  BY <1>1, <1>2 DEF TypeOK, BooksRows, SalesRows, PurchasingRows
<1>4. SalesChecks'
  BY <1>1, <1>2 DEF SalesChecks, SalesOrderKeys, FulfillmentKeys, InvoiceKeys, CreditNoteKeys
<1>5. PurchasingChecks'
  BY <1>1, <1>2 DEF PurchasingChecks, GoodsReceiptKeys, SupplierBillKeys
<1>6. Links' /\ Claims'
  BY <1>1, <1>2 DEF Links, Claims
<1>7. QED
  BY <1>3, <1>4, <1>5, <1>6, TablesPartsNext

\* Every step keeps the tables.
LEMMA TablesStep ==
  ASSUME Tables, [Next]_vars
  PROVE  Tables'
<1>1. CASE SalesStep /\ UNCHANGED purchases /\ Commit
  <2>1. TypeOK' /\ Links' /\ Claims'
    BY <1>1, CreateQuotationTables, FulfilTables, CreateInvoiceTables, RecordPaymentTables,
       IssueCreditNoteTables, SetQuotationStatusTables, ConvertQuotationTables, CreateOrderTables,
       OrderStatusTables, IssueInvoiceTables DEF SalesStep
  <2>2. QED
    BY <1>1, <2>1, TablesPartsNext DEF Commit
<1>2. CASE PurchaseStep /\ UNCHANGED sales /\ Commit
  <2>1. TypeOK' /\ Links' /\ Claims'
    BY <1>2, ReceiveTables, CreateBillTables, PaySupplierTables, CreatePurchaseOrderTables,
       PurchaseStatusTables, IssueBillTables DEF PurchaseStep, Commit
  <2>2. QED
    BY <1>2, <2>1, TablesPartsNext DEF Commit
<1>3. CASE PrepareReturn
  BY <1>3, PrepareReturnTables
<1>4. CASE FileReturn
  BY <1>4, FileReturnTables
<1>5. CASE UNCHANGED vars
  BY <1>5, TablesSame
<1>6. QED
  BY <1>1, <1>2, <1>3, <1>4, <1>5, Steps

(* The tables always have their shape and keep their constraints *)

THEOREM TablesCorrect == Spec => []Tables
<1>1. Init => Tables
  BY TablesInit
<1>2. Tables /\ [Next]_vars => Tables'
  BY TablesStep
<1>3. QED
  BY <1>1, <1>2, PTL DEF Spec

(* Type correctness: what the requests write has the shape of the tables. *)

THEOREM TypeCorrect == Spec => []TypeOK
<1>1. Tables => TypeOK
  BY DEF Tables
<1>2. QED
  BY <1>1, TablesCorrect, PTL

(* Filed returns *)

\* A document only adds rows, none of them claimed.
LEMMA RegisterGrows ==
  ASSUME Tables, (SalesStep /\ UNCHANGED purchases) \/ PurchaseStep
  PROVE  /\ UNCHANGED returns
         /\ \E rows : /\ register' = register \cup rows
                      /\ \A r \in rows : r \in VatRow /\ r.claim = 0
<1> DEFINE Goal == /\ UNCHANGED returns
                   /\ \E rows : /\ register' = register \cup rows
                                /\ \A r \in rows : r \in VatRow /\ r.claim = 0
<1>1. UNCHANGED register /\ UNCHANGED returns => Goal
  <2>1. PICK none : none = {}
    OBVIOUS
  <2>2. register = register \cup none /\ \A r \in none : r \in VatRow /\ r.claim = 0
    BY <2>1
  <2>3. QED
    BY <2>2
<1>2. UNCHANGED books => UNCHANGED register /\ UNCHANGED returns
  BY DEF books
<1>3. CASE IssueInvoice
  <2>1. PICK i \in DOMAIN invoices : issue_invoice(i)
    BY <1>3 DEF IssueInvoice
  <2>2. PICK doc \in InvoiceRow : \E rows : IssueInvoiceChange(i, doc, rows)
    BY <2>1, IssueInvoiceEffect
  <2>3. PICK rows : IssueInvoiceChange(i, doc, rows)
    BY <2>2
  <2>4. /\ register' = register \cup rows
        /\ \A r \in rows : r \in VatRow /\ r.claim = 0
    BY <2>3 DEF IssueInvoiceChange
  <2>5. QED
    BY <1>3, <2>4, SalesFrames
<1>4. CASE IssueCreditNote
  <2>1. PICK i \in DOMAIN invoices, into \in Into, d \in Date :
          \E qty \in Parts(Creditable(invoices[i])), read \in CostsRead :
              issue_credit_note(i, qty, into, d, read)
    BY <1>4 DEF IssueCreditNote
  <2>2. PICK qty \in Parts(Creditable(invoices[i])), read \in CostsRead :
          issue_credit_note(i, qty, into, d, read)
    BY <2>1
  <2>3. PICK doc \in InvoiceRow, note \in CreditNoteRow :
          \E rows : CreditNoteChange(i, qty, into, doc, note, rows)
    BY <2>2, CreditNoteEffect
  <2>4. PICK rows : CreditNoteChange(i, qty, into, doc, note, rows)
    BY <2>3
  <2>5. /\ register' = register \cup rows
        /\ \A r \in rows : r \in VatRow /\ r.claim = 0
    BY <2>4 DEF CreditNoteChange
  <2>6. QED
    BY <1>4, <2>5, SalesFrames
<1>5. CASE IssueBill
  <2>1. PICK i \in DOMAIN bills : issue_bill(i)
    BY <1>5 DEF IssueBill
  <2>2. PICK doc \in SupplierBillRow : \E rows : IssueBillChange(i, doc, rows)
    BY <2>1, IssueBillEffect
  <2>3. PICK rows : IssueBillChange(i, doc, rows)
    BY <2>2
  <2>4. /\ register' = register \cup rows
        /\ \A r \in rows : r \in VatRow /\ r.claim = 0
    BY <2>3 DEF IssueBillChange
  <2>5. QED
    BY <1>5, <2>4, PurchaseFrames
<1>6. CASE CreateQuotation \/ Fulfil \/ CreateInvoice \/ RecordPayment \/ SetQuotationStatus
           \/ ConvertQuotation \/ CreateOrder \/ ConfirmOrder \/ CancelOrder
  BY <1>1, <1>2, <1>6, SalesFrames
<1>7. CASE Receive \/ CreateBill \/ PaySupplier \/ CreatePurchaseOrder \/ ConfirmPurchaseOrder
           \/ CancelPurchaseOrder
  BY <1>1, <1>2, <1>7, PurchaseFrames
<1>8. QED
  BY <1>3, <1>4, <1>5, <1>6, <1>7 DEF SalesStep, PurchaseStep

\* What a filing does to the rows claimed by return j.
Claimed(rows, j) == {r \in rows : r.claim = j}

\* A filing claims rows no return has claimed, for its own return.
LEMMA FilingClaims ==
  ASSUME Tables, NEW i \in DOMAIN returns, NEW row \in VatReturnRow, FileChange(i, row),
         NEW rows, rows = Unclaimed(returns[i].span), NEW next, next = register'
  PROVE  /\ \A j \in Nat \ {0} : j # i => Claimed(next, j) = Claimed(register, j)
         /\ \E new : /\ new = {[r EXCEPT !.claim = i] : r \in rows}
                     /\ Claimed(register, i) = {} => Claimed(next, i) = new
<1>0. TypeOK /\ Links /\ Claims
  BY TablesParts
<1>1. i \in 0..MaxDocuments /\ i \in Nat \ {0}
  <2>1. i \in 1..Len(returns) /\ Len(returns) \in Nat
    BY <1>0, TypedRows
  <2>2. QED
    BY <1>0, <2>1, BooksAssumption DEF Claims
<1>2. rows \subseteq register /\ \A r \in rows : r \in VatRow /\ r.claim = 0
  BY <1>0, UnclaimedRows DEF TypeOK
<1>3. \A r \in rows : [r EXCEPT !.claim = i].claim = i
  BY <1>1, <1>2, ClaimedRow, Zenon
<1>4. next = (register \ rows) \cup {[r EXCEPT !.claim = i] : r \in rows}
  BY DEF FileChange
<1>5. PICK new : new = {[r EXCEPT !.claim = i] : r \in rows}
  OBVIOUS
<1>6. \A s \in new : s.claim = i
  BY <1>3, <1>5, Zenon
<1>7. ASSUME NEW j \in Nat \ {0}, j # i
      PROVE  Claimed(next, j) = Claimed(register, j)
  BY <1>2, <1>4, <1>5, <1>6, <1>7 DEF Claimed
<1>8. ASSUME Claimed(register, i) = {}
      PROVE  Claimed(next, i) = new
  BY <1>2, <1>4, <1>5, <1>6, <1>8 DEF Claimed
<1>9. QED
  BY <1>5, <1>7, <1>8, Zenon

(* Nothing changes a filed return or the rows it claimed *)

FilingFinalStep ==
    /\ \A i \in DOMAIN returns : returns[i].status = "FILED" =>
         /\ returns'[i] = returns[i]
         /\ {r \in register : r.claim = i} = {r \in register' : r.claim = i}
    /\ \A r \in register : \E s \in register' : [s EXCEPT !.claim = r.claim] = r

\* Only the claim of a row differs.
LEMMA SameRow ==
  ASSUME NEW r \in VatRow
  PROVE  /\ [r EXCEPT !.claim = r.claim] = r
         /\ \A i \in 0..MaxDocuments : [[r EXCEPT !.claim = i] EXCEPT !.claim = r.claim] = r
BY DEF VatRow

\* What the other steps do to filed returns: nothing.
LEMMA FilingFinalAfter ==
  ASSUME Tables, [Next]_vars
  PROVE  FilingFinalStep
<1>0. TypeOK /\ Links /\ Claims
  BY TablesParts
<1>1. /\ returns \in Seq(VatReturnRow) /\ \A i \in DOMAIN returns : i \in Nat \ {0}
      /\ \A r \in register : r \in VatRow
  BY <1>0, TypedRows DEF TypeOK, BooksRows
<1>2. ASSUME NEW rows, register' = register \cup rows, \A r \in rows : r.claim = 0,
             \A i \in DOMAIN returns : returns'[i] = returns[i]
      PROVE  FilingFinalStep
  <2>1. \A i \in DOMAIN returns : {r \in register : r.claim = i} = {r \in register' : r.claim = i}
    BY <1>1, <1>2
  <2>2. \A r \in register : \E s \in register' : [s EXCEPT !.claim = r.claim] = r
    <3> SUFFICES ASSUME NEW r \in register
                 PROVE  \E s \in register' : [s EXCEPT !.claim = r.claim] = r
      OBVIOUS
    <3>1. [r EXCEPT !.claim = r.claim] = r
      BY <1>1, SameRow
    <3>2. r \in register'
      BY <1>2
    <3>3. QED
      BY <3>1, <3>2
  <2>3. QED
    BY <1>2, <2>1, <2>2 DEF FilingFinalStep
<1>3. CASE (SalesStep /\ UNCHANGED purchases) \/ PurchaseStep
  <2>1. UNCHANGED returns
    BY <1>3, RegisterGrows
  <2>2. PICK rows : register' = register \cup rows /\ \A r \in rows : r.claim = 0
    BY <1>3, RegisterGrows
  <2>3. QED
    BY <1>2, <2>1, <2>2
<1>4. CASE PrepareReturn
  <2>1. PICK span \in Spans, new \in VatReturnRow : PrepareChange(span, new)
    BY <1>4, PrepareEffect
  <2>2. returns' = Append(returns, new) /\ register' = register
    BY <2>1 DEF PrepareChange
  <2>3. \A i \in DOMAIN returns : returns'[i] = returns[i]
    BY <1>1, <2>2, Appended
  <2>4. PICK none : none = {}
    OBVIOUS
  <2>5. register' = register \cup none /\ \A r \in none : r.claim = 0
    BY <2>2, <2>4
  <2>6. QED
    BY <1>2, <2>3, <2>5
<1>5. CASE UNCHANGED vars
  <2>1. returns' = returns /\ register' = register
    BY <1>5 DEF vars, books
  <2>2. PICK none : none = {}
    OBVIOUS
  <2>3. register' = register \cup none /\ \A r \in none : r.claim = 0
    BY <2>1, <2>2
  <2>4. QED
    BY <1>2, <2>1, <2>3
<1>6. CASE FileReturn
  <2>1. PICK i \in DOMAIN returns, row \in VatReturnRow : FileChange(i, row)
    BY <1>6, FileEffect
  <2>2. PICK rows, next : rows = Unclaimed(returns[i].span) /\ next = register'
    OBVIOUS
  <2>3. \A j \in DOMAIN returns : j # i => Claimed(next, j) = Claimed(register, j)
    BY <1>1, <2>1, <2>2, FilingClaims
  <2>4. /\ returns[i].status = "DRAFT" /\ returns' = [returns EXCEPT ![i] = row]
        /\ register' = (register \ rows) \cup {[r EXCEPT !.claim = i] : r \in rows}
    BY <2>1, <2>2 DEF FileChange
  <2>5. \A j \in DOMAIN returns : j # i => returns'[j] = returns[j]
    BY <1>1, <2>4, Replaced
  <2>6. i \in 0..MaxDocuments
    BY <1>0, <1>1, BooksAssumption DEF Claims
  <2>7. ASSUME NEW r \in register
        PROVE  \E s \in register' : [s EXCEPT !.claim = r.claim] = r
    <3>0. r \in VatRow
      BY <1>1
    <3>1. CASE r \notin rows
      <4>1. [r EXCEPT !.claim = r.claim] = r /\ r \in register'
        BY <2>4, <3>0, <3>1, SameRow
      <4>2. QED
        BY <4>1
    <3>2. CASE r \in rows
      <4>1. PICK s : s = [r EXCEPT !.claim = i]
        OBVIOUS
      <4>2. s \in register'
        BY <2>4, <3>2, <4>1, Zenon
      <4>3. [s EXCEPT !.claim = r.claim] = r
        BY <2>6, <3>0, <4>1, SameRow, Zenon
      <4>4. QED
        BY <4>2, <4>3
    <3>3. QED
      BY <3>1, <3>2
  <2>8. \A j \in DOMAIN returns : returns[j].status = "FILED" =>
          /\ returns'[j] = returns[j]
          /\ {r \in register : r.claim = j} = {r \in register' : r.claim = j}
    BY <2>2, <2>3, <2>4, <2>5 DEF Claimed
  <2>9. QED
    BY <2>7, <2>8 DEF FilingFinalStep
<1>7. QED
  BY <1>3, <1>4, <1>5, <1>6, Steps

(* A filed return and the rows it claimed never change again, and no row   *)
(* is dropped: back-dated documents and other returns claim what is free.  *)

THEOREM FiledIsFinal == Spec => FilingIsFinal
<1>1. Tables /\ [Next]_vars => FilingFinalStep
  BY FilingFinalAfter
<1>2. FilingIsFinal <=> [][FilingFinalStep]_vars
  BY PTL DEF FilingIsFinal, FilingFinalStep
<1>3. QED
  BY <1>1, <1>2, TablesCorrect, PTL DEF Spec

\* Claiming rows changes none of the sums over them.
LEMMA ClaimedSum ==
  ASSUME NEW rows, IsFiniteSet(rows), NEW i \in 0..MaxDocuments, NEW direction,
         \A r \in rows : r \in VatRow /\ r.claim = 0,
         NEW new, new = {[r EXCEPT !.claim = i] : r \in rows}
  PROVE  /\ VatOf(new, direction) = VatOf(rows, direction)
         /\ BaseOf(new, direction) = BaseOf(rows, direction)
         /\ IsFiniteSet(new)
<1> DEFINE k == [r \in rows |-> [r EXCEPT !.claim = i]]
           S == {r \in rows : r.direction = direction}
           T == {r \in new : r.direction = direction}
           fv == [r \in S |-> r.vat]
           gv == [r \in T |-> r.vat]
           fb == [r \in S |-> r.base]
           gb == [r \in T |-> r.base]
<1>1. \A r \in rows : /\ k[r].direction = r.direction /\ k[r].base = r.base /\ k[r].vat = r.vat
                      /\ k[r] \in new /\ r.vat \in Int /\ r.base \in Int
                      /\ [k[r] EXCEPT !.claim = 0] = r
  <2> SUFFICES ASSUME NEW r \in rows
               PROVE  /\ k[r].direction = r.direction /\ k[r].base = r.base /\ k[r].vat = r.vat
                      /\ k[r] \in new /\ r.vat \in Int /\ r.base \in Int
                      /\ [k[r] EXCEPT !.claim = 0] = r
    OBVIOUS
  <2>1. PICK s : s = [r EXCEPT !.claim = i]
    OBVIOUS
  <2>2. s.direction = r.direction /\ s.base = r.base /\ s.vat = r.vat /\ r \in VatRow
    BY <2>1, ClaimedRow, Zenon
  <2>3. [s EXCEPT !.claim = 0] = r
    BY <2>1, <2>2, SameRow, Zenon
  <2>4. r.vat \in Int /\ r.base \in Int
    BY <2>2 DEF VatRow
  <2>5. k[r] = s /\ s \in new
    BY <2>1, Zenon
  <2>6. QED
    BY <2>2, <2>3, <2>4, <2>5
<1>2. \A s \in new : \E r \in rows : k[r] = s
  BY Zenon
<1>3. \A r, s \in rows : k[r] = k[s] => r = s
  BY <1>1
<1>4. DOMAIN fv = S /\ DOMAIN fb = S /\ DOMAIN gv = T /\ DOMAIN gb = T /\ S \subseteq rows
  OBVIOUS
<1>5. IsFiniteSet(S)
  BY <1>4, FS_Subset
<1> HIDE DEF k
<1>6. /\ \A r \in S : /\ fv[r] \in Int /\ fb[r] \in Int /\ k[r] \in T
                      /\ gv[k[r]] = fv[r] /\ gb[k[r]] = fb[r]
      /\ \A r, s \in S : k[r] = k[s] => r = s
      /\ \A t \in T : \E r \in S : k[r] = t
  BY <1>1, <1>2, <1>3
<1>7. VatOf(new, direction) = SumFunction(gv) /\ VatOf(rows, direction) = SumFunction(fv)
      /\ BaseOf(new, direction) = SumFunction(gb) /\ BaseOf(rows, direction) = SumFunction(fb)
  BY DEF VatOf, BaseOf
<1>9. IsFiniteSet(new)
  <2>1. k \in [rows -> new]
    BY <1>1 DEF k
  <2>2. k \in Surjection(rows, new)
    BY <1>2, <2>1 DEF Surjection
  <2>3. QED
    BY <2>2, FS_Surjection
<1> HIDE DEF fv, gv, fb, gb, S, T
<1>10. SumFunction(gv) = SumFunction(fv)
  <2>1. /\ IsFiniteSet(DOMAIN fv) /\ \A r \in DOMAIN fv : fv[r] \in Int
        /\ \A r \in DOMAIN fv : k[r] \in DOMAIN gv /\ gv[k[r]] = fv[r]
        /\ \A r, s \in DOMAIN fv : k[r] = k[s] => r = s
        /\ \A t \in DOMAIN gv : \E r \in DOMAIN fv : k[r] = t
    BY <1>4, <1>5, <1>6
  <2>2. QED
    BY <2>1, SumReindex
<1>11. SumFunction(gb) = SumFunction(fb)
  <2>1. /\ IsFiniteSet(DOMAIN fb) /\ \A r \in DOMAIN fb : fb[r] \in Int
        /\ \A r \in DOMAIN fb : k[r] \in DOMAIN gb /\ gb[k[r]] = fb[r]
        /\ \A r, s \in DOMAIN fb : k[r] = k[s] => r = s
        /\ \A t \in DOMAIN gb : \E r \in DOMAIN fb : k[r] = t
    BY <1>4, <1>5, <1>6
  <2>2. QED
    BY <2>1, SumReindex
<1>12. QED
  BY <1>7, <1>9, <1>10, <1>11

\* What FiledMatchesClaimed says of one return.
Filed(row, claimed) ==
    /\ row.status = "FILED" => row.boxes = Boxes(claimed)
    /\ row.status = "DRAFT" => claimed = {}
    /\ \A r \in claimed : r.date \in row.span[1]..row.span[2]

\* The invariant of a return, part by part.
LEMMA FiledParts ==
  /\ FiledMatchesClaimed <=> \A i \in DOMAIN returns : Filed(returns[i], Claimed(register, i))
  /\ FiledMatchesClaimed' <=> \A i \in DOMAIN returns' : Filed(returns'[i], Claimed(register', i))
BY Zenon DEF FiledMatchesClaimed, Filed, Claimed

\* Every step keeps filed returns equal to what they claimed.
LEMMA FiledStep ==
  ASSUME Tables, FiledMatchesClaimed, [Next]_vars
  PROVE  FiledMatchesClaimed'
<1>0. TypeOK /\ Links /\ Claims
  BY TablesParts
<1>1. /\ returns \in Seq(VatReturnRow) /\ \A i \in DOMAIN returns : i \in Nat \ {0}
      /\ \A r \in register : r \in VatRow
  BY <1>0, TypedRows DEF TypeOK, BooksRows
<1>2. \A i \in DOMAIN returns : Filed(returns[i], Claimed(register, i))
  BY FiledParts
<1>3. ASSUME NEW rows, register' = register \cup rows, \A r \in rows : r.claim = 0, returns' = returns
      PROVE  FiledMatchesClaimed'
  <2>1. PICK next : next = register'
    OBVIOUS
  <2>2. \A i \in DOMAIN returns : Claimed(next, i) = Claimed(register, i)
    BY <1>1, <1>3, <2>1 DEF Claimed
  <2>3. QED
    BY <1>2, <1>3, <2>1, <2>2, FiledParts
<1>4. CASE (SalesStep /\ UNCHANGED purchases) \/ PurchaseStep
  <2>1. UNCHANGED returns
    BY <1>4, RegisterGrows
  <2>2. PICK rows : register' = register \cup rows /\ \A r \in rows : r.claim = 0
    BY <1>4, RegisterGrows
  <2>3. QED
    BY <1>3, <2>1, <2>2
<1>5. CASE PrepareReturn
  <2>1. PICK span \in Spans, new \in VatReturnRow : PrepareChange(span, new)
    BY <1>5, PrepareEffect
  <2>2. returns' = Append(returns, new) /\ register' = register /\ new.status = "DRAFT"
    BY <2>1 DEF PrepareChange
  <2>3. \A i \in DOMAIN returns' : \/ i \in DOMAIN returns /\ returns'[i] = returns[i]
                                   \/ i = Len(returns) + 1 /\ returns'[i] = new
    BY <1>1, <2>2, Appended
  <2>4. Claimed(register, Len(returns) + 1) = {}
    <3>1. \A r \in register : r.claim \in Int /\ r.claim <= Len(returns)
      BY <1>0, <1>1, BooksAssumption DEF VatRow, Claims
    <3>2. Len(returns) \in Nat
      BY <1>1
    <3>3. QED
      BY <3>1, <3>2 DEF Claimed
  <2>5. Filed(new, {})
    BY <2>2 DEF Filed
  <2>6. \A i \in DOMAIN returns' : Filed(returns'[i], Claimed(register, i))
    BY <1>2, <2>3, <2>4, <2>5
  <2>7. QED
    BY <2>2, <2>6, FiledParts
<1>6. CASE UNCHANGED vars
  <2>1. returns' = returns /\ register' = register
    BY <1>6 DEF vars, books
  <2>2. QED
    BY <1>2, <2>1, FiledParts
<1>7. CASE FileReturn
  <2>1. PICK i \in DOMAIN returns, row \in VatReturnRow : FileChange(i, row)
    BY <1>7, FileEffect
  <2>2. PICK rows, next : rows = Unclaimed(returns[i].span) /\ next = register'
    OBVIOUS
  <2>3. PICK new : /\ new = {[r EXCEPT !.claim = i] : r \in rows}
                   /\ Claimed(register, i) = {} => Claimed(next, i) = new
    BY <2>1, <2>2, FilingClaims, Zenon
  <2>4. /\ returns[i].status = "DRAFT" /\ returns' = [returns EXCEPT ![i] = row]
        /\ row.span = returns[i].span /\ row.status = "FILED" /\ row.boxes = Boxes(rows)
    BY <2>1, <2>2 DEF FileChange
  <2>5. Claimed(register, i) = {}
    BY <1>2, <2>4 DEF Filed
  <2>6. /\ Claimed(next, i) = new /\ \A j \in Nat \ {0} : j # i => Claimed(next, j) = Claimed(register, j)
        /\ rows \subseteq register /\ IsFiniteSet(rows) /\ \A r \in rows : r \in VatRow /\ r.claim = 0
    BY <1>0, <2>1, <2>2, <2>3, <2>5, FilingClaims, UnclaimedRows DEF TypeOK
  <2>7. i \in 0..MaxDocuments
    BY <1>0, <1>1, BooksAssumption DEF Claims
  <2>8. Boxes(new) = Boxes(rows)
    BY <2>3, <2>6, <2>7, ClaimedSum DEF Boxes
  <2>9. \A r \in new : r.date \in row.span[1]..row.span[2]
    <3> SUFFICES ASSUME NEW r \in rows
                 PROVE  [r EXCEPT !.claim = i].date \in row.span[1]..row.span[2]
      BY <2>3
    <3>1. [r EXCEPT !.claim = i].date = r.date
      BY <2>6, <2>7, ClaimedRow, Zenon
    <3>2. r.date \in row.span[1]..row.span[2]
      BY <2>2, <2>4 DEF Unclaimed
    <3>3. QED
      BY <3>1, <3>2
  <2>10. Filed(row, new)
    BY <2>4, <2>8, <2>9 DEF Filed
  <2>11. /\ DOMAIN returns' = DOMAIN returns /\ returns'[i] = row
         /\ \A j \in DOMAIN returns : j # i => returns'[j] = returns[j]
    BY <1>1, <2>4, Replaced
  <2>12. ASSUME NEW j \in DOMAIN returns'
         PROVE  Filed(returns'[j], Claimed(next, j))
    <3>1. CASE j = i
      BY <2>6, <2>10, <2>11, <3>1
    <3>2. CASE j # i
      <4>1. Claimed(next, j) = Claimed(register, j) /\ returns'[j] = returns[j]
        BY <1>1, <2>6, <2>11, <3>2
      <4>2. QED
        BY <1>2, <2>11, <4>1
    <3>3. QED
      BY <3>1, <3>2
  <2>13. QED
    BY <2>2, <2>12, FiledParts
<1>8. QED
  BY <1>4, <1>5, <1>6, <1>7, Steps

(* A filed return states exactly the rows it claimed *)

THEOREM FiledIsClaimed == Spec => []FiledMatchesClaimed
<1>1. Init => FiledMatchesClaimed
  BY DEF Init, BooksInit, FiledMatchesClaimed
<1>2. Tables /\ FiledMatchesClaimed /\ [Next]_vars => FiledMatchesClaimed'
  BY FiledStep
<1>3. QED
  BY <1>1, <1>2, TablesCorrect, PTL DEF Spec

-----------------------------------------------------------------------------
(***************************************************************************)
(* What each request that posts or counts does, in the terms of the        *)
(* properties.                                                             *)
(***************************************************************************)

Shift(ar, ap, output, input, goods, grni) ==
    /\ balance'["AR_CONTROL"] = balance["AR_CONTROL"] + ar
    /\ balance'["AP_CONTROL"] = balance["AP_CONTROL"] + ap
    /\ balance'["VAT_OUTPUT"] = balance["VAT_OUTPUT"] + output
    /\ balance'["VAT_INPUT"] = balance["VAT_INPUT"] + input
    /\ balance'["INVENTORY"] + balance'["COGS"] = balance["INVENTORY"] + balance["COGS"] + goods
    /\ balance'["GRNI"] = balance["GRNI"] + grni

\* The balances the properties speak of are numbers.
Balances ==
    /\ balance["AR_CONTROL"] \in Int /\ balance["AP_CONTROL"] \in Int
    /\ balance["VAT_OUTPUT"] \in Int /\ balance["VAT_INPUT"] \in Int
    /\ balance["INVENTORY"] \in Int /\ balance["COGS"] \in Int /\ balance["GRNI"] \in Int

\* The balances are numbers.
LEMMA BalancesType ==
  ASSUME TypeOK
  PROVE  Balances
BY TypedRows DEF Balances, SystemAccount

\* Nothing posted moves nothing.
LEMMA NoShift ==
  ASSUME TypeOK, UNCHANGED balance
  PROVE  Shift(0, 0, 0, 0, 0, 0)
BY BalancesType DEF Shift, Balances

\* A posted entry moves the balances by what it moves.
LEMMA ShiftBy ==
  ASSUME TypeOK, NEW e, NEW ar, NEW ap, NEW output, NEW input, NEW goods, NEW grni,
         Moves(e, ar, ap, output, input, goods, grni), balance' = Posted(balance, e)
  PROVE  Shift(ar, ap, output, input, goods, grni)
BY TypedRows DEF Shift, Moves

\* Order i becomes row when ship leaves for it.
Shipped(i, row, ship) ==
    /\ orders[i].status \in {"CONFIRMED", "PARTIALLY_FULFILLED"}
    /\ orders' = [orders EXCEPT ![i] = row]
    /\ row.customer = orders[i].customer /\ row.quotation = orders[i].quotation
    /\ row.status = ShippedStatus(row.lines)
    /\ Fulfilled(orders[i].lines, row.lines, ship.qty)
    /\ ship.order = i /\ ship.qty \in PerProduct(Nat \ {0})
    /\ DOMAIN ship.qty \subseteq DOMAIN orders[i].lines
    /\ shipments' = Append(shipments, ship)
    /\ onHand' = TakeOut(orders[i].warehouse, ship.qty)
    /\ Shift(0, 0, 0, 0, 0, 0)
    /\ UNCHANGED <<quotations, invoices, payments, notes, costPrice, register, returns>>

\* A shipment, its order and its cost.
LEMMA FulfilSummary ==
  ASSUME Tables, Fulfil
  PROVE  \E i \in DOMAIN orders, row \in SalesOrderRow, ship \in FulfillmentRow :
            Shipped(i, row, ship)
<1>0. TypeOK
  BY DEF Tables
<1>1. PICK i \in DOMAIN orders :
        \E qty \in Parts(Outstanding(orders[i])), read \in CostsRead : fulfil(i, qty, read)
  BY DEF Fulfil
<1>2. PICK qty \in Parts(Outstanding(orders[i])), read \in CostsRead : fulfil(i, qty, read)
  BY <1>1
<1>3. /\ qty \in PerProduct(Nat \ {0}) /\ DOMAIN qty \subseteq DOMAIN orders[i].lines
      /\ orders[i].status \in {"CONFIRMED", "PARTIALLY_FULFILLED"} /\ CostOf(qty, read) \in Nat
      /\ [order |-> i, qty |-> qty, cost |-> CostOf(qty, read)] \in FulfillmentRow
      /\ shipments' = Append(shipments, [order |-> i, qty |-> qty, cost |-> CostOf(qty, read)])
      /\ balance' = Posted(balance, FulfilmentEntry(CostOf(qty, read)))
      /\ onHand' = TakeOut(orders[i].warehouse, qty)
  BY <1>2, FulfilEffect
<1>4. PICK row \in SalesOrderRow :
        /\ orders' = [orders EXCEPT ![i] = row]
        /\ row.customer = orders[i].customer /\ row.quotation = orders[i].quotation
        /\ row.status = ShippedStatus(row.lines)
        /\ Fulfilled(orders[i].lines, row.lines, qty)
  BY <1>2, FulfilEffect
<1>5. PICK ship \in FulfillmentRow : ship = [order |-> i, qty |-> qty, cost |-> CostOf(qty, read)]
  BY <1>3
<1>6. ship.order = i /\ ship.qty = qty
  BY <1>5
<1>7. Shift(0, 0, 0, 0, 0, 0)
  BY <1>0, <1>3, StockMoves, ShiftBy
<1>8. Shipped(i, row, ship)
  BY <1>3, <1>4, <1>5, <1>6, <1>7, SalesFrames DEF Shipped
<1>9. QED
  BY <1>8

\* Invoice doc takes over what order i, which becomes row, has left to invoice.
Drafted(i, row, doc) ==
    /\ invoices' = Append(invoices, doc)
    /\ doc.order = i /\ doc.status = "DRAFT" /\ doc.paid = 0
    /\ doc.credited = [p \in DOMAIN doc.qty |-> 0]
    /\ doc.qty \in PerProduct(Nat \ {0})
    /\ DOMAIN doc.qty \subseteq DOMAIN orders[i].lines
    /\ orders' = [orders EXCEPT ![i] = row]
    /\ row.customer = orders[i].customer /\ row.quotation = orders[i].quotation
    /\ row.status = orders[i].status
    /\ Invoiced(orders[i].lines, row.lines, doc.qty)
    /\ UNCHANGED <<quotations, shipments, payments, notes, books>>

\* An invoice and what its order has left.
LEMMA CreateInvoiceSummary ==
  ASSUME Tables, CreateInvoice
  PROVE  \E i \in DOMAIN orders, row \in SalesOrderRow, doc \in InvoiceRow : Drafted(i, row, doc)
<1>1. PICK i \in DOMAIN orders, only \in BOOLEAN, d \in Date : create_invoice(i, only, d)
  BY DEF CreateInvoice
<1>2. PICK doc \in InvoiceRow, row \in SalesOrderRow :
            /\ invoices' = Append(invoices, doc)
            /\ doc.order = i /\ doc.status = "DRAFT" /\ doc.paid = 0
            /\ doc.credited = [p \in DOMAIN doc.qty |-> 0]
            /\ doc.qty \in PerProduct(Nat \ {0})
            /\ Matches(doc, orders, 1)
            /\ orders' = [orders EXCEPT ![i] = row]
            /\ row.customer = orders[i].customer /\ row.quotation = orders[i].quotation
            /\ row.status = orders[i].status
            /\ Invoiced(orders[i].lines, row.lines, doc.qty)
  BY <1>1, InvoiceEffect
<1>3. DOMAIN doc.qty \subseteq DOMAIN orders[i].lines
  BY <1>2 DEF Matches
<1>4. UNCHANGED <<quotations, shipments, payments, notes, books>>
  BY SalesFrames
<1>5. Drafted(i, row, doc)
  BY <1>2, <1>3, <1>4 DEF Drafted
<1>6. QED
  BY <1>5

\* A payment, and what it settles of the documents before and after.
Settles(pay, docs, news) ==
    /\ pay.allocated \in PerDocument(Nat) /\ DOMAIN pay.allocated \subseteq DOMAIN docs
    /\ IsFiniteSet(DOMAIN pay.allocated)
    /\ \A i \in DOMAIN pay.allocated : pay.allocated[i] \in Nat
    /\ pay.amount \in Nat /\ SumFunction(pay.allocated) \in Nat
    /\ DOMAIN news = DOMAIN docs
    /\ \A i \in DOMAIN pay.allocated :
            /\ docs[i].status \in {"ISSUED", "PARTIALLY_PAID"}
            /\ PaidMore(docs[i], news[i], pay.allocated[i])
    /\ \A i \in DOMAIN docs \ DOMAIN pay.allocated : news[i] = docs[i]

PaymentChange(pay) ==
    /\ payments' = Append(payments, pay)
    /\ Settles(pay, invoices, invoices') /\ invoices' \in Seq(InvoiceRow)
    /\ \A i \in DOMAIN invoices : /\ invoices'[i].customer = invoices[i].customer
                                  /\ invoices'[i].credited = invoices[i].credited
    /\ Shift(-pay.amount, 0, 0, 0, 0, 0)
    /\ UNCHANGED <<quotations, orders, shipments, notes, onHand, costPrice, register, returns>>

\* A payment, the invoices it settles and the receivables.
LEMMA RecordPaymentSummary ==
  ASSUME Tables, RecordPayment
  PROVE  \E pay \in PaymentRow(Customer) : PaymentChange(pay)
<1>0. TypeOK
  BY DEF Tables
<1>1. PICK c \in Customer, method \in Methods, amount \in Receipts :
        \E allocated \in Allocations({i \in DOMAIN invoices : invoices[i].customer = c}) :
            record_payment(c, method, amount, allocated)
  BY DEF RecordPayment
<1>2. PICK allocated \in Allocations({i \in DOMAIN invoices : invoices[i].customer = c}) :
            record_payment(c, method, amount, allocated)
  BY <1>1
<1>3. PICK pay : pay = [party |-> c, amount |-> amount, allocated |-> allocated]
  OBVIOUS
<1>4. pay.party = c /\ pay.amount = amount /\ pay.allocated = allocated
  BY <1>3
<1>5. /\ pay.allocated \in PerDocument(Nat) /\ DOMAIN pay.allocated \subseteq DOMAIN invoices
      /\ IsFiniteSet(DOMAIN pay.allocated)
      /\ \A i \in DOMAIN pay.allocated : pay.allocated[i] \in Nat
      /\ pay.amount \in Nat /\ SumFunction(pay.allocated) \in Nat
      /\ pay \in PaymentRow(Customer)
      /\ payments' = Append(payments, pay)
      /\ invoices' \in Seq(InvoiceRow) /\ DOMAIN invoices' = DOMAIN invoices
      /\ balance' = Posted(balance, customer_payment(amount, method = "CASH"))
  BY <1>2, <1>3, <1>4, PaymentEffect
<1>6. /\ \A i \in DOMAIN pay.allocated :
            /\ invoices[i].status \in {"ISSUED", "PARTIALLY_PAID"}
            /\ PaidMore(invoices[i], invoices'[i], pay.allocated[i])
            /\ invoices'[i].customer = invoices[i].customer
            /\ invoices'[i].credited = invoices[i].credited
      /\ \A i \in DOMAIN invoices \ DOMAIN pay.allocated : invoices'[i] = invoices[i]
  BY <1>2, <1>4, PaymentEffect
<1>7. Shift(-amount, 0, 0, 0, 0, 0)
  <2>1. amount \in Nat
    BY <1>4, <1>5
  <2>2. QED
    BY <1>0, <1>5, <2>1, PaymentMoves, ShiftBy
<1>8. Settles(pay, invoices, invoices')
  BY <1>5, <1>6 DEF Settles
<1>9. PaymentChange(pay)
  BY <1>4, <1>5, <1>6, <1>7, <1>8, SalesFrames DEF PaymentChange
<1>10. QED
  BY <1>5, <1>9

SupplierPaymentChange(pay) ==
    /\ supplierPayments' = Append(supplierPayments, pay)
    /\ Settles(pay, bills, bills') /\ bills' \in Seq(SupplierBillRow)
    /\ \A i \in DOMAIN bills : bills'[i].supplier = bills[i].supplier
    /\ Shift(0, pay.amount, 0, 0, 0, 0)
    /\ UNCHANGED <<purchaseOrders, goodsReceipts, sales, onHand, costPrice, register, returns>>

\* A payment, the bills it settles and the payables.
LEMMA PaySupplierSummary ==
  ASSUME Tables, PaySupplier
  PROVE  \E pay \in PaymentRow(Supplier) : SupplierPaymentChange(pay)
<1>0. TypeOK
  BY DEF Tables
<1>1. PICK s \in Supplier, method \in Methods, amount \in Receipts :
        \E allocated \in Allocations({i \in DOMAIN bills : bills[i].supplier = s}) :
            pay_supplier(s, method, amount, allocated)
  BY DEF PaySupplier
<1>2. PICK allocated \in Allocations({i \in DOMAIN bills : bills[i].supplier = s}) :
            pay_supplier(s, method, amount, allocated)
  BY <1>1
<1>3. PICK pay : pay = [party |-> s, amount |-> amount, allocated |-> allocated]
  OBVIOUS
<1>4. pay.party = s /\ pay.amount = amount /\ pay.allocated = allocated
  BY <1>3
<1>5. /\ pay.allocated \in PerDocument(Nat) /\ DOMAIN pay.allocated \subseteq DOMAIN bills
      /\ IsFiniteSet(DOMAIN pay.allocated)
      /\ \A i \in DOMAIN pay.allocated : pay.allocated[i] \in Nat
      /\ pay.amount \in Nat /\ SumFunction(pay.allocated) \in Nat
      /\ pay \in PaymentRow(Supplier)
      /\ supplierPayments' = Append(supplierPayments, pay)
      /\ bills' \in Seq(SupplierBillRow) /\ DOMAIN bills' = DOMAIN bills
      /\ balance' = Posted(balance, supplier_payment(amount, method = "CASH"))
  BY <1>2, <1>3, <1>4, SupplierPaymentEffect
<1>6. /\ \A i \in DOMAIN pay.allocated :
            /\ bills[i].status \in {"ISSUED", "PARTIALLY_PAID"}
            /\ PaidMore(bills[i], bills'[i], pay.allocated[i])
            /\ bills'[i].supplier = bills[i].supplier
      /\ \A i \in DOMAIN bills \ DOMAIN pay.allocated : bills'[i] = bills[i]
  BY <1>2, <1>4, SupplierPaymentEffect
<1>7. Shift(0, amount, 0, 0, 0, 0)
  <2>1. amount \in Nat
    BY <1>4, <1>5
  <2>2. QED
    BY <1>0, <1>5, <2>1, PaymentMoves, ShiftBy
<1>8. Settles(pay, bills, bills')
  BY <1>5, <1>6 DEF Settles
<1>9. SupplierPaymentChange(pay)
  BY <1>4, <1>5, <1>6, <1>7, <1>8, PurchaseFrames DEF SupplierPaymentChange
<1>10. QED
  BY <1>5, <1>9

\* An issued invoice and what it charges.
LEMMA IssueInvoiceSummary ==
  ASSUME Tables, IssueInvoice
  PROVE  \E i \in DOMAIN invoices, doc \in InvoiceRow : \E rows :
            /\ IssueInvoiceChange(i, doc, rows)
            /\ Shift(TotalOf(invoices[i]), 0, -invoices[i].tax, 0, 0, 0)
            /\ UNCHANGED <<quotations, orders, shipments, payments, notes, onHand, costPrice, returns>>
<1>0. TypeOK
  BY DEF Tables
<1>1. PICK i \in DOMAIN invoices : issue_invoice(i)
  BY DEF IssueInvoice
<1>2. PICK doc \in InvoiceRow : \E rows : IssueInvoiceChange(i, doc, rows)
  BY <1>1, IssueInvoiceEffect
<1>3. PICK rows : IssueInvoiceChange(i, doc, rows)
  BY <1>2
<1>4. invoices[i].net \in Nat /\ invoices[i].tax \in Nat
  BY <1>0, Rows DEF InvoiceRow
<1>5. balance' = Posted(balance, InvoiceEntry(invoices[i]))
  BY <1>3 DEF IssueInvoiceChange
<1>6. Shift(TotalOf(invoices[i]), 0, -invoices[i].tax, 0, 0, 0)
  BY <1>0, <1>4, <1>5, InvoiceMoves, ShiftBy
<1>7. QED
  BY <1>3, <1>6, SalesFrames

\* A credit note and what it takes back.
LEMMA CreditNoteSummary ==
  ASSUME Tables, IssueCreditNote
  PROVE  \E i \in DOMAIN invoices, doc \in InvoiceRow, note \in CreditNoteRow : \E rows :
            /\ CreditNoteChange(i, note.qty, note.into, doc, note, rows)
            /\ invoices[i].status \in {"ISSUED", "PARTIALLY_PAID", "PAID"}
            /\ note.qty \in PerProduct(Nat \ {0})
            /\ DOMAIN note.qty \subseteq DOMAIN invoices[i].qty
            /\ note.into \in Into /\ onHand' = Restocked(note.into, note.qty)
            /\ Shift(-TotalOf(note), 0, note.tax, 0, 0, 0)
            /\ UNCHANGED <<quotations, orders, shipments, payments, costPrice, returns>>
<1>0. TypeOK
  BY DEF Tables
<1>1. PICK i \in DOMAIN invoices, into \in Into, d \in Date :
        \E qty \in Parts(Creditable(invoices[i])), read \in CostsRead :
            issue_credit_note(i, qty, into, d, read)
  BY DEF IssueCreditNote
<1>2. PICK qty \in Parts(Creditable(invoices[i])), read \in CostsRead :
          issue_credit_note(i, qty, into, d, read)
  BY <1>1
<1>3. /\ qty \in PerProduct(Nat \ {0}) /\ onHand' = Restocked(into, qty)
      /\ DOMAIN qty \subseteq DOMAIN invoices[i].qty
      /\ invoices[i].status \in {"ISSUED", "PARTIALLY_PAID", "PAID"}
      /\ \E doc \in InvoiceRow, note \in CreditNoteRow : \E rows :
            CreditNoteChange(i, qty, into, doc, note, rows)
  BY <1>2, CreditNoteEffect
<1>4. PICK doc \in InvoiceRow, note \in CreditNoteRow :
        \E rows : CreditNoteChange(i, qty, into, doc, note, rows)
  BY <1>3
<1>5. PICK rows : CreditNoteChange(i, qty, into, doc, note, rows)
  BY <1>4
<1>6. /\ note.net \in Nat /\ note.tax \in Nat /\ note.cost \in Nat /\ note.qty = qty
      /\ note.into = into
      /\ balance' = Posted(Posted(balance, ReturnEntry(note.net, note.tax)), CostReversal(note.cost))
  BY <1>5 DEF CreditNoteChange
<1>7. Shift(-TotalOf(note), 0, note.tax, 0, 0, 0)
  <2>1. PICK b : b = Posted(balance, ReturnEntry(note.net, note.tax))
    OBVIOUS
  <2>2. /\ Moves(ReturnEntry(note.net, note.tax), -(note.net + note.tax), 0, note.tax, 0, 0, 0)
        /\ Moves(CostReversal(note.cost), 0, 0, 0, 0, 0, 0)
    BY <1>6, NoteMoves, StockMoves
  <2>3. balance \in [SystemAccount -> Int] /\ Balances
    BY <1>0, TypedRows, BalancesType
  <2>4. /\ b \in [SystemAccount -> Int]
        /\ b["AR_CONTROL"] = balance["AR_CONTROL"] - (note.net + note.tax)
        /\ b["AP_CONTROL"] = balance["AP_CONTROL"]
        /\ b["VAT_OUTPUT"] = balance["VAT_OUTPUT"] + note.tax
        /\ b["VAT_INPUT"] = balance["VAT_INPUT"]
        /\ b["INVENTORY"] + b["COGS"] = balance["INVENTORY"] + balance["COGS"]
        /\ b["GRNI"] = balance["GRNI"]
    BY <1>6, <2>1, <2>2, <2>3 DEF Moves, Balances
  <2>5. /\ balance'["AR_CONTROL"] = b["AR_CONTROL"] + 0
        /\ balance'["AP_CONTROL"] = b["AP_CONTROL"] + 0
        /\ balance'["VAT_OUTPUT"] = b["VAT_OUTPUT"] + 0
        /\ balance'["VAT_INPUT"] = b["VAT_INPUT"] + 0
        /\ balance'["INVENTORY"] + balance'["COGS"] = b["INVENTORY"] + b["COGS"] + 0
        /\ balance'["GRNI"] = b["GRNI"] + 0
    BY <1>6, <2>1, <2>2, <2>4 DEF Moves
  <2>6. QED
    BY <1>6, <2>3, <2>4, <2>5 DEF Shift, Balances, TotalOf
<1>8. UNCHANGED <<quotations, orders, shipments, payments, costPrice, returns>>
  BY SalesFrames
<1>9. CreditNoteChange(i, note.qty, note.into, doc, note, rows)
  BY <1>5, <1>6
<1>10. QED
  BY <1>3, <1>6, <1>7, <1>8, <1>9

\* An issued bill and what it owes.
LEMMA IssueBillSummary ==
  ASSUME Tables, IssueBill
  PROVE  \E i \in DOMAIN bills, doc \in SupplierBillRow : \E rows :
            /\ IssueBillChange(i, doc, rows)
            /\ Shift(0, -TotalOf(bills[i]), 0, bills[i].tax, 0, bills[i].net)
            /\ UNCHANGED <<purchaseOrders, goodsReceipts, supplierPayments, sales, onHand,
                           costPrice, returns>>
<1>0. TypeOK
  BY DEF Tables
<1>1. PICK i \in DOMAIN bills : issue_bill(i)
  BY DEF IssueBill
<1>2. PICK doc \in SupplierBillRow : \E rows : IssueBillChange(i, doc, rows)
  BY <1>1, IssueBillEffect
<1>3. PICK rows : IssueBillChange(i, doc, rows)
  BY <1>2
<1>4. PICK net \in Nat, tax \in Nat : net = bills[i].net /\ tax = bills[i].tax
  BY <1>0, Rows DEF SupplierBillRow
<1>5. balance' = Posted(balance, supplier_bill(net, tax))
  BY <1>3, <1>4 DEF IssueBillChange
<1>6. Shift(0, -(net + tax), 0, tax, 0, net)
  BY <1>0, <1>4, <1>5, BillMoves, ShiftBy
<1>7. QED
  BY <1>3, <1>4, <1>6, PurchaseFrames DEF TotalOf

\* A receipt, its order and its cost.
LEMMA ReceiveSummary ==
  ASSUME Tables, Receive
  PROVE  \E i \in DOMAIN purchaseOrders, row \in PurchaseOrderRow, receipt \in GoodsReceiptRow :
            /\ ReceiptChange(i, receipt.qty, row, receipt)
            /\ receipt.qty \in PerProduct(Nat \ {0})
            /\ DOMAIN receipt.qty \subseteq DOMAIN purchaseOrders[i].lines
            /\ purchaseOrders[i].status \in {"CONFIRMED", "PARTIALLY_RECEIVED"}
            /\ Shift(0, 0, 0, 0, PostedCost(receipt.cost), -PostedCost(receipt.cost))
            /\ UNCHANGED <<bills, supplierPayments, sales, register, returns>>
<1>0. TypeOK
  BY DEF Tables
<1>1. PICK i \in DOMAIN purchaseOrders : \E qty \in Parts(ToReceive(purchaseOrders[i])) :
        \E override \in {{}} \cup {{u} : u \in Overrides}, read \in CostsRead :
            receive(i, qty, override, read)
  BY DEF Receive
<1>2. PICK qty \in Parts(ToReceive(purchaseOrders[i])) :
        \E override \in {{}} \cup {{u} : u \in Overrides}, read \in CostsRead :
            receive(i, qty, override, read)
  BY <1>1
<1>3. PICK override \in {{}} \cup {{u} : u \in Overrides}, read \in CostsRead :
        receive(i, qty, override, read)
  BY <1>2
<1>4. /\ qty \in PerProduct(Nat \ {0})
      /\ DOMAIN qty \subseteq DOMAIN purchaseOrders[i].lines
      /\ purchaseOrders[i].status \in {"CONFIRMED", "PARTIALLY_RECEIVED"}
  BY <1>3, ReceiveEffect
<1>5. PICK row \in PurchaseOrderRow, receipt \in GoodsReceiptRow : ReceiptChange(i, qty, row, receipt)
  BY <1>3, ReceiveEffect
<1>6. /\ balance' = Posted(balance, IF receipt.cost > 0 THEN goods_receipt(PostedCost(receipt.cost))
                                                        ELSE NoEntry)
      /\ receipt.cost \in Nat /\ receipt.qty = qty
  BY <1>5 DEF ReceiptChange
<1>7. Shift(0, 0, 0, 0, PostedCost(receipt.cost), -PostedCost(receipt.cost))
  BY <1>0, <1>6, StockMoves, ShiftBy
<1>8. UNCHANGED <<bills, supplierPayments, sales, register, returns>>
  BY PurchaseFrames
<1>9. ReceiptChange(i, receipt.qty, row, receipt)
  BY <1>5, <1>6
<1>10. QED
  BY <1>4, <1>6, <1>7, <1>8, <1>9

\* A bill and what its order has left.
LEMMA CreateBillSummary ==
  ASSUME Tables, CreateBill
  PROVE  \E i \in DOMAIN purchaseOrders, d \in Date, row \in PurchaseOrderRow,
            doc \in SupplierBillRow :
                /\ BillChange(i, d, row, doc)
                /\ UNCHANGED <<goodsReceipts, supplierPayments, sales, books>>
<1>1. PICK i \in DOMAIN purchaseOrders, only \in BOOLEAN, d \in Date : create_bill(i, only, d)
  BY DEF CreateBill
<1>2. PICK row \in PurchaseOrderRow, doc \in SupplierBillRow : BillChange(i, d, row, doc)
  BY <1>1, BillEffect
<1>3. QED
  BY <1>2, PurchaseFrames

-----------------------------------------------------------------------------
(***************************************************************************)
(* The VAT accounts and the register                                       *)
(***************************************************************************)

\* A row of the register comes from a document that was issued.
Sourced ==
    \A r \in register : \A i \in Nat :
        /\ r.source = <<"invoice", i>> => i \in DOMAIN invoices /\ invoices[i].status # "DRAFT"
        /\ r.source = <<"credit_note", i>> => i \in DOMAIN notes
        /\ r.source = <<"supplier_bill", i>> => i \in DOMAIN bills /\ bills[i].status # "DRAFT"

\* Issued documents stay issued.
StillIssued(docs, news) ==
    \A i \in DOMAIN docs : /\ i \in DOMAIN news
                           /\ docs[i].status # "DRAFT" => news[i].status # "DRAFT"

\* Nothing changed is still issued.
LEMMA IssuedSame ==
  ASSUME NEW docs
  PROVE  StillIssued(docs, docs)
BY DEF StillIssued

\* A new document leaves the others issued.
LEMMA IssuedAppended ==
  ASSUME NEW R, NEW docs \in Seq(R), NEW doc \in R
  PROVE  StillIssued(docs, Append(docs, doc))
BY Appended DEF StillIssued

\* A document that stays issued when it was.
LEMMA IssuedReplaced ==
  ASSUME NEW R, NEW docs \in Seq(R), NEW i \in DOMAIN docs, NEW doc \in R,
         docs[i].status # "DRAFT" => doc.status # "DRAFT"
  PROVE  StillIssued(docs, [docs EXCEPT ![i] = doc])
BY Replaced DEF StillIssued

\* A payment leaves documents issued.
LEMMA IssuedSettled ==
  ASSUME NEW docs, NEW news, NEW pay, Settles(pay, docs, news)
  PROVE  StillIssued(docs, news)
BY DEF StillIssued, Settles, PaidMore

\* A register row keeps its source.
LEMMA SourcedKept ==
  ASSUME Sourced, StillIssued(invoices, invoices'), StillIssued(bills, bills'),
         DOMAIN notes \subseteq DOMAIN notes',
         \A r \in register' :
            \/ \E s \in register : s.source = r.source
            \/ \E i \in DOMAIN invoices' : r.source = <<"invoice", i>> /\ invoices'[i].status # "DRAFT"
            \/ \E i \in DOMAIN notes' : r.source = <<"credit_note", i>>
            \/ \E i \in DOMAIN bills' : r.source = <<"supplier_bill", i>> /\ bills'[i].status # "DRAFT"
  PROVE  Sourced'
<1> SUFFICES ASSUME NEW r \in register', NEW n \in Nat
             PROVE  /\ r.source = <<"invoice", n>> => n \in DOMAIN invoices' /\ invoices'[n].status # "DRAFT"
                    /\ r.source = <<"credit_note", n>> => n \in DOMAIN notes'
                    /\ r.source = <<"supplier_bill", n>> => n \in DOMAIN bills' /\ bills'[n].status # "DRAFT"
  BY DEF Sourced
<1>1. CASE \E s \in register : s.source = r.source
  BY <1>1 DEF Sourced, StillIssued
<1>2. CASE \E i \in DOMAIN invoices' : r.source = <<"invoice", i>> /\ invoices'[i].status # "DRAFT"
  BY <1>2
<1>3. CASE \E i \in DOMAIN notes' : r.source = <<"credit_note", i>>
  BY <1>3
<1>4. CASE \E i \in DOMAIN bills' : r.source = <<"supplier_bill", i>> /\ bills'[i].status # "DRAFT"
  BY <1>4
<1>5. QED
  BY <1>1, <1>2, <1>3, <1>4

VatBooks == Sourced /\ VatAccountsMatchRegister

\* A step that leaves the register and the VAT accounts alone.
LEMMA VatFrame ==
  ASSUME Tables, VatBooks, UNCHANGED register, StillIssued(invoices, invoices'), StillIssued(bills, bills'),
         DOMAIN notes \subseteq DOMAIN notes',
         NEW ar, NEW ap, NEW inv, NEW grni, Shift(ar, ap, 0, 0, inv, grni)
  PROVE  VatBooks'
<1>1. Sourced'
  BY SourcedKept DEF VatBooks
<1>2. TypeOK
  BY DEF Tables
<1>3. balance'["VAT_OUTPUT"] = balance["VAT_OUTPUT"] /\ balance'["VAT_INPUT"] = balance["VAT_INPUT"]
  BY <1>2, BalancesType DEF Shift, Balances
<1>4. VatAccountsMatchRegister'
  BY <1>3 DEF VatBooks, VatAccountsMatchRegister
<1>5. QED
  BY <1>1, <1>4 DEF VatBooks

\* A step that adds the rows of one document and posts their tax.
LEMMA VatAdded ==
  ASSUME Tables, VatBooks, NEW rows, IsFiniteSet(rows), register' = register \cup rows,
         \A r \in rows : r \in VatRow /\ r \notin register,
         NEW d \in {"OUTPUT", "INPUT"}, \A r \in rows : r.direction = d,
         NEW tax \in Int, SumFunction([r \in rows |-> r.vat]) = tax,
         balance'["VAT_OUTPUT"] = balance["VAT_OUTPUT"] - (IF d = "OUTPUT" THEN tax ELSE 0),
         balance'["VAT_INPUT"] = balance["VAT_INPUT"] + (IF d = "INPUT" THEN tax ELSE 0)
  PROVE  VatAccountsMatchRegister'
<1>1. TypeOK /\ Claims
  BY TablesParts
<1>2. Balances /\ IsFiniteSet(register) /\ \A r \in register : r \in VatRow
  BY <1>1, BalancesType DEF Claims, TypeOK, BooksRows
<1>3. \A e : /\ VatOf(register \cup rows, e) = VatOf(register, e) + VatOf(rows, e)
             /\ VatOf(register, e) \in Int /\ VatOf(rows, e) \in Int
  BY <1>2, VatUnion
<1>4. VatOf(rows, d) = tax /\ \A e : e # d => VatOf(rows, e) = 0
  BY VatOfOneDirection
<1>5. PICK o \in Int, n \in Int : /\ o = VatOf(register, "OUTPUT") /\ n = VatOf(register, "INPUT")
  BY <1>3
<1>6. -balance["VAT_OUTPUT"] = o /\ balance["VAT_INPUT"] = n
  BY <1>5 DEF VatBooks, VatAccountsMatchRegister
<1>7. CASE d = "OUTPUT"
  <2>1. VatOf(register', "OUTPUT") = o + tax /\ VatOf(register', "INPUT") = n + 0
    BY <1>3, <1>4, <1>5, <1>7
  <2>2. -balance'["VAT_OUTPUT"] = o + tax /\ balance'["VAT_INPUT"] = n
    BY <1>2, <1>6, <1>7 DEF Balances
  <2>3. QED
    BY <2>1, <2>2 DEF VatAccountsMatchRegister
<1>8. CASE d = "INPUT"
  <2>1. VatOf(register', "OUTPUT") = o + 0 /\ VatOf(register', "INPUT") = n + tax
    BY <1>3, <1>4, <1>5, <1>8
  <2>2. -balance'["VAT_OUTPUT"] = o /\ balance'["VAT_INPUT"] = n + tax
    BY <1>2, <1>6, <1>8 DEF Balances
  <2>3. QED
    BY <2>1, <2>2 DEF VatAccountsMatchRegister
<1>9. QED
  BY <1>7, <1>8

\* issue_invoice posts and records the same output VAT.
LEMMA VatIssueInvoice ==
  ASSUME Tables, VatBooks, IssueInvoice, UNCHANGED purchases
  PROVE  VatBooks'
<1>0. TypeOK
  BY DEF Tables
<1>1. PICK i \in DOMAIN invoices, doc \in InvoiceRow : \E rows :
            /\ IssueInvoiceChange(i, doc, rows)
            /\ Shift(TotalOf(invoices[i]), 0, -invoices[i].tax, 0, 0, 0)
            /\ UNCHANGED <<quotations, orders, shipments, payments, notes, onHand, costPrice, returns>>
  BY IssueInvoiceSummary
<1>2. PICK rows :
            /\ IssueInvoiceChange(i, doc, rows)
            /\ Shift(TotalOf(invoices[i]), 0, -invoices[i].tax, 0, 0, 0)
            /\ UNCHANGED <<quotations, orders, shipments, payments, notes, onHand, costPrice, returns>>
  BY <1>1
<1>3. /\ invoices[i].status = "DRAFT" /\ doc.status = "ISSUED"
      /\ invoices' = [invoices EXCEPT ![i] = doc]
      /\ register' = register \cup rows /\ IsFiniteSet(rows)
      /\ \A r \in rows : /\ r \in VatRow /\ r.source = <<"invoice", i>> /\ r.direction = "OUTPUT"
      /\ SumFunction([r \in rows |-> r.vat]) = invoices[i].tax
  BY <1>2 DEF IssueInvoiceChange
<1>4. i \in Nat /\ invoices \in Seq(InvoiceRow)
  BY <1>0, TypedRows, RowsFinite
<1>5. \A r \in rows : r \notin register
  BY <1>3, <1>4 DEF VatBooks, Sourced
<1>6. DOMAIN invoices' = DOMAIN invoices /\ invoices'[i] = doc
  BY <1>3, <1>4, Replaced
<1>7. Sourced'
  <2>1. StillIssued(invoices, invoices')
    BY <1>3, <1>4, IssuedReplaced
  <2>2. bills' = bills /\ notes' = notes
    BY <1>2 DEF purchases
  <2>3. StillIssued(bills, bills')
    BY <2>2, IssuedSame
  <2>4. \A r \in register' :
            \/ \E s \in register : s.source = r.source
            \/ \E j \in DOMAIN invoices' : r.source = <<"invoice", j>> /\ invoices'[j].status # "DRAFT"
    BY <1>3, <1>6
  <2>5. QED
    BY <2>1, <2>2, <2>3, <2>4, SourcedKept DEF VatBooks
<1>8. PICK tax \in Int : tax = invoices[i].tax
  BY <1>0, Rows DEF InvoiceRow
<1>9. /\ balance'["VAT_OUTPUT"] = balance["VAT_OUTPUT"] - tax
      /\ balance'["VAT_INPUT"] = balance["VAT_INPUT"] + 0
  BY <1>0, <1>2, <1>8, BalancesType DEF Shift, Balances
<1>10. PICK d \in {"OUTPUT", "INPUT"} : d = "OUTPUT"
  OBVIOUS
<1>11. /\ balance'["VAT_OUTPUT"] = balance["VAT_OUTPUT"] - (IF d = "OUTPUT" THEN tax ELSE 0)
       /\ balance'["VAT_INPUT"] = balance["VAT_INPUT"] + (IF d = "INPUT" THEN tax ELSE 0)
       /\ \A r \in rows : r.direction = d
       /\ \A r \in rows : r \in VatRow /\ r \notin register
       /\ SumFunction([r \in rows |-> r.vat]) = tax
  BY <1>3, <1>5, <1>8, <1>9, <1>10
<1>12. VatAccountsMatchRegister'
  BY <1>3, <1>11, VatAdded
<1>13. QED
  BY <1>7, <1>12 DEF VatBooks

\* issue_credit_note takes the same output VAT from both.
LEMMA VatIssueCreditNote ==
  ASSUME Tables, VatBooks, IssueCreditNote, UNCHANGED purchases
  PROVE  VatBooks'
<1>0. TypeOK
  BY DEF Tables
<1>1. PICK i \in DOMAIN invoices, doc \in InvoiceRow, note \in CreditNoteRow : \E rows :
            /\ CreditNoteChange(i, note.qty, note.into, doc, note, rows)
            /\ Shift(-TotalOf(note), 0, note.tax, 0, 0, 0)
  BY CreditNoteSummary
<1>2. PICK rows :
            /\ CreditNoteChange(i, note.qty, note.into, doc, note, rows)
            /\ Shift(-TotalOf(note), 0, note.tax, 0, 0, 0)
  BY <1>1
<1>3. /\ doc.status = invoices[i].status /\ note.tax \in Nat
      /\ invoices' = [invoices EXCEPT ![i] = doc] /\ notes' = Append(notes, note)
      /\ register' = register \cup rows /\ IsFiniteSet(rows)
      /\ \A r \in rows : /\ r \in VatRow /\ r.source = <<"credit_note", Len(notes) + 1>>
                         /\ r.direction = "OUTPUT"
      /\ SumFunction([r \in rows |-> r.vat]) = -note.tax
  BY <1>2 DEF CreditNoteChange
<1>4. invoices \in Seq(InvoiceRow) /\ notes \in Seq(CreditNoteRow)
  BY <1>0, TypedRows
<1>5. Len(notes) + 1 \in DOMAIN notes' /\ Len(notes) + 1 \notin DOMAIN notes
      /\ DOMAIN notes \subseteq DOMAIN notes' /\ Len(notes) + 1 \in Nat
  BY <1>3, <1>4, Appended
<1>6. \A r \in rows : r \notin register
  BY <1>3, <1>5 DEF VatBooks, Sourced
<1>7. Sourced'
  <2>1. StillIssued(invoices, invoices')
    BY <1>3, <1>4, IssuedReplaced
  <2>2. bills' = bills
    BY DEF purchases
  <2>3. StillIssued(bills, bills')
    BY <2>2, IssuedSame
  <2>4. \A r \in register' :
            \/ \E s \in register : s.source = r.source
            \/ \E j \in DOMAIN notes' : r.source = <<"credit_note", j>>
    BY <1>3, <1>5
  <2>5. QED
    BY <1>5, <2>1, <2>3, <2>4, SourcedKept DEF VatBooks
<1>8. PICK tax \in Int : tax = -note.tax
  BY <1>3
<1>9. /\ balance'["VAT_OUTPUT"] = balance["VAT_OUTPUT"] - tax
      /\ balance'["VAT_INPUT"] = balance["VAT_INPUT"] + 0
  BY <1>0, <1>2, <1>3, <1>8, BalancesType DEF Shift, Balances
<1>10. PICK d \in {"OUTPUT", "INPUT"} : d = "OUTPUT"
  OBVIOUS
<1>11. /\ balance'["VAT_OUTPUT"] = balance["VAT_OUTPUT"] - (IF d = "OUTPUT" THEN tax ELSE 0)
       /\ balance'["VAT_INPUT"] = balance["VAT_INPUT"] + (IF d = "INPUT" THEN tax ELSE 0)
       /\ \A r \in rows : r.direction = d
       /\ \A r \in rows : r \in VatRow /\ r \notin register
       /\ SumFunction([r \in rows |-> r.vat]) = tax
  BY <1>3, <1>6, <1>8, <1>9, <1>10
<1>12. VatAccountsMatchRegister'
  BY <1>3, <1>11, VatAdded
<1>13. QED
  BY <1>7, <1>12 DEF VatBooks

\* issue_bill posts and records the same input VAT.
LEMMA VatIssueBill ==
  ASSUME Tables, VatBooks, IssueBill
  PROVE  VatBooks'
<1>0. TypeOK
  BY DEF Tables
<1>1. PICK i \in DOMAIN bills, doc \in SupplierBillRow : \E rows :
            /\ IssueBillChange(i, doc, rows)
            /\ Shift(0, -TotalOf(bills[i]), 0, bills[i].tax, 0, bills[i].net)
            /\ UNCHANGED <<purchaseOrders, goodsReceipts, supplierPayments, sales, onHand,
                           costPrice, returns>>
  BY IssueBillSummary
<1>2. PICK rows :
            /\ IssueBillChange(i, doc, rows)
            /\ Shift(0, -TotalOf(bills[i]), 0, bills[i].tax, 0, bills[i].net)
            /\ UNCHANGED <<purchaseOrders, goodsReceipts, supplierPayments, sales, onHand,
                           costPrice, returns>>
  BY <1>1
<1>3. /\ bills[i].status = "DRAFT" /\ doc.status = "ISSUED"
      /\ bills' = [bills EXCEPT ![i] = doc]
      /\ register' = register \cup rows /\ IsFiniteSet(rows)
      /\ \A r \in rows : /\ r \in VatRow /\ r.source = <<"supplier_bill", i>> /\ r.direction = "INPUT"
      /\ SumFunction([r \in rows |-> r.vat]) = bills[i].tax
  BY <1>2 DEF IssueBillChange
<1>4. i \in Nat /\ bills \in Seq(SupplierBillRow)
  BY <1>0, TypedRows, RowsFinite
<1>5. \A r \in rows : r \notin register
  BY <1>3, <1>4 DEF VatBooks, Sourced
<1>6. DOMAIN bills' = DOMAIN bills /\ bills'[i] = doc
  BY <1>3, <1>4, Replaced
<1>7. Sourced'
  <2>1. StillIssued(bills, bills')
    BY <1>3, <1>4, IssuedReplaced
  <2>2. invoices' = invoices /\ notes' = notes
    BY <1>2 DEF sales
  <2>3. StillIssued(invoices, invoices')
    BY <2>2, IssuedSame
  <2>4. \A r \in register' :
            \/ \E s \in register : s.source = r.source
            \/ \E j \in DOMAIN bills' : r.source = <<"supplier_bill", j>> /\ bills'[j].status # "DRAFT"
    BY <1>3, <1>6
  <2>5. QED
    BY <2>1, <2>2, <2>3, <2>4, SourcedKept DEF VatBooks
<1>8. PICK tax \in Int : tax = bills[i].tax
  BY <1>0, Rows DEF SupplierBillRow
<1>9. /\ balance'["VAT_OUTPUT"] = balance["VAT_OUTPUT"] - 0
      /\ balance'["VAT_INPUT"] = balance["VAT_INPUT"] + tax
  BY <1>0, <1>2, <1>8, BalancesType DEF Shift, Balances
<1>10. PICK d \in {"OUTPUT", "INPUT"} : d = "INPUT"
  OBVIOUS
<1>11. /\ balance'["VAT_OUTPUT"] = balance["VAT_OUTPUT"] - (IF d = "OUTPUT" THEN tax ELSE 0)
       /\ balance'["VAT_INPUT"] = balance["VAT_INPUT"] + (IF d = "INPUT" THEN tax ELSE 0)
       /\ \A r \in rows : r.direction = d
       /\ \A r \in rows : r \in VatRow /\ r \notin register
       /\ SumFunction([r \in rows |-> r.vat]) = tax
  BY <1>3, <1>5, <1>8, <1>9, <1>10
<1>12. VatAccountsMatchRegister'
  BY <1>3, <1>11, VatAdded
<1>13. QED
  BY <1>7, <1>12 DEF VatBooks

\* file_return marks rows and changes no amount.
LEMMA VatFileReturn ==
  ASSUME Tables, FiledMatchesClaimed, VatBooks, FileReturn
  PROVE  VatBooks'
<1>0. TypeOK /\ Claims
  BY TablesParts
<1>1. PICK i \in DOMAIN returns, row \in VatReturnRow : FileChange(i, row)
  BY FileEffect
<1>2. PICK rows, new : /\ rows = Unclaimed(returns[i].span)
                       /\ new = {[r EXCEPT !.claim = i] : r \in rows}
  OBVIOUS
<1>3. /\ register' = (register \ rows) \cup new /\ returns[i].status = "DRAFT"
      /\ balance' = balance /\ UNCHANGED <<sales, purchases>>
  BY <1>1, <1>2 DEF FileChange
<1>4. rows \subseteq register /\ IsFiniteSet(rows) /\ \A r \in rows : r \in VatRow /\ r.claim = 0
  BY <1>0, <1>2, UnclaimedRows DEF TypeOK
<1>5. i \in 0..MaxDocuments
  <2>1. i \in 1..Len(returns) /\ Len(returns) \in Nat
    BY <1>0, TypedRows
  <2>2. QED
    BY <1>0, <2>1, BooksAssumption DEF Claims
<1>6. IsFiniteSet(register) /\ \A r \in register : r \in VatRow
  BY <1>0 DEF Claims, TypeOK, BooksRows
<1>7. \A s \in new : \E r \in rows : s.source = r.source /\ s.claim = i /\ s \in VatRow
  <2> SUFFICES ASSUME NEW r \in rows
               PROVE  LET s == [r EXCEPT !.claim = i]
                      IN  s.source = r.source /\ s.claim = i /\ s \in VatRow
    BY <1>2, Zenon
  <2>1. QED
    BY <1>4, <1>5, ClaimedRow, Zenon
<1>8. \A r \in register : r.claim # i
  <2>1. Filed(returns[i], Claimed(register, i))
    BY FiledParts
  <2>2. QED
    BY <1>3, <2>1 DEF Filed, Claimed
<1>9. ASSUME NEW e PROVE VatOf(new, e) = VatOf(rows, e) /\ IsFiniteSet(new)
  <2>1. new = {[r EXCEPT !.claim = i] : r \in rows} /\ \A r \in rows : r \in VatRow /\ r.claim = 0
    BY <1>2, <1>4
  <2>2. QED
    BY <1>4, <1>5, <2>1, ClaimedSum
<1>10. PICK rest : rest = register \ rows
  OBVIOUS
<1>11. IsFiniteSet(rest) /\ register = rest \cup rows /\ (\A r \in rest : r \in VatRow /\ r \notin rows /\ r \notin new)
  <2>1. IsFiniteSet(rest)
    BY <1>6, <1>10, FS_Difference
  <2>2. QED
    BY <1>4, <1>6, <1>7, <1>8, <1>10, <2>1
<1>12. \A r \in new : r \in VatRow
  BY <1>7
<1>13. ASSUME NEW e PROVE VatOf(register', e) = VatOf(register, e)
  <2>1. VatOf(rest \cup rows, e) = VatOf(rest, e) + VatOf(rows, e)
    BY <1>4, <1>11, VatUnion
  <2>2. VatOf(rest \cup new, e) = VatOf(rest, e) + VatOf(new, e)
    BY <1>9, <1>11, <1>12, VatUnion
  <2>3. QED
    BY <1>3, <1>9, <1>10, <1>11, <2>1, <2>2
<1>14. VatAccountsMatchRegister'
  BY <1>3, <1>13 DEF VatBooks, VatAccountsMatchRegister
<1>15. Sourced'
  <2>1. invoices' = invoices /\ notes' = notes /\ bills' = bills
    BY <1>3 DEF sales, purchases
  <2>2. StillIssued(invoices, invoices') /\ StillIssued(bills, bills')
    BY <2>1, IssuedSame
  <2>3. \A r \in register' : \E s \in register : s.source = r.source
    BY <1>3, <1>4, <1>7
  <2>4. QED
    BY <2>1, <2>2, <2>3, SourcedKept DEF VatBooks
<1>16. QED
  BY <1>14, <1>15 DEF VatBooks

\* Every sales request keeps the VAT accounts and the register equal.
LEMMA VatSalesStep ==
  ASSUME Tables, VatBooks, SalesStep, UNCHANGED purchases
  PROVE  VatBooks'
<1>0. TypeOK
  BY DEF Tables
<1>1. bills' = bills /\ StillIssued(bills, bills')
  <2>1. bills' = bills
    BY DEF purchases
  <2>2. QED
    BY <2>1, IssuedSame
<1>2. CASE CreateQuotation \/ SetQuotationStatus \/ ConvertQuotation \/ CreateOrder
           \/ ConfirmOrder \/ CancelOrder
  <2>1. invoices' = invoices /\ notes' = notes /\ books' = books
    BY <1>2, SalesFrames
  <2>2. balance' = balance /\ register' = register
    BY <2>1 DEF books
  <2>3. Shift(0, 0, 0, 0, 0, 0)
    BY <1>0, <2>2, NoShift
  <2>4. StillIssued(invoices, invoices')
    BY <2>1, IssuedSame
  <2>5. QED
    BY <1>1, <2>1, <2>2, <2>3, <2>4, VatFrame
<1>3. CASE Fulfil
  <2>1. PICK i \in DOMAIN orders, row \in SalesOrderRow, ship \in FulfillmentRow : Shipped(i, row, ship)
    BY <1>3, FulfilSummary
  <2>2. /\ Shift(0, 0, 0, 0, 0, 0)
        /\ invoices' = invoices /\ notes' = notes /\ register' = register
    BY <2>1 DEF Shipped
  <2>3. StillIssued(invoices, invoices')
    BY <2>2, IssuedSame
  <2>4. QED
    BY <1>1, <2>2, <2>3, VatFrame
<1>4. CASE CreateInvoice
  <2>1. PICK i \in DOMAIN orders, row \in SalesOrderRow, doc \in InvoiceRow : Drafted(i, row, doc)
    BY <1>4, CreateInvoiceSummary
  <2>2. invoices' = Append(invoices, doc) /\ notes' = notes /\ balance' = balance /\ register' = register
    BY <2>1 DEF Drafted, books
  <2>3. Shift(0, 0, 0, 0, 0, 0)
    BY <1>0, <2>2, NoShift
  <2>4. StillIssued(invoices, invoices')
    BY <1>0, <2>2, TypedRows, IssuedAppended
  <2>5. QED
    BY <1>1, <2>2, <2>3, <2>4, VatFrame
<1>5. CASE RecordPayment
  <2>1. PICK pay \in PaymentRow(Customer) : PaymentChange(pay)
    BY <1>5, RecordPaymentSummary
  <2>2. /\ Settles(pay, invoices, invoices') /\ Shift(-pay.amount, 0, 0, 0, 0, 0)
        /\ notes' = notes /\ register' = register
    BY <2>1 DEF PaymentChange
  <2>3. PICK news : news = invoices'
    OBVIOUS
  <2>4. StillIssued(invoices, news)
    BY <2>2, <2>3, IssuedSettled
  <2>5. QED
    BY <1>1, <2>2, <2>3, <2>4, VatFrame
<1>6. CASE IssueCreditNote
  BY <1>6, VatIssueCreditNote
<1>7. CASE IssueInvoice
  BY <1>7, VatIssueInvoice
<1>8. QED
  BY <1>2, <1>3, <1>4, <1>5, <1>6, <1>7 DEF SalesStep

\* Every purchasing request keeps the VAT accounts and the register equal.
LEMMA VatPurchaseStep ==
  ASSUME Tables, VatBooks, PurchaseStep
  PROVE  VatBooks'
<1>0. TypeOK
  BY DEF Tables
<1>1. invoices' = invoices /\ notes' = notes /\ StillIssued(invoices, invoices')
  <2>1. invoices' = invoices /\ notes' = notes
    BY PurchaseFrames DEF PurchaseStep, sales
  <2>2. QED
    BY <2>1, IssuedSame
<1>2. CASE CreatePurchaseOrder \/ ConfirmPurchaseOrder \/ CancelPurchaseOrder
  <2>1. bills' = bills /\ books' = books
    BY <1>2, PurchaseFrames
  <2>2. balance' = balance /\ register' = register
    BY <2>1 DEF books
  <2>3. Shift(0, 0, 0, 0, 0, 0)
    BY <1>0, <2>2, NoShift
  <2>4. StillIssued(bills, bills')
    BY <2>1, IssuedSame
  <2>5. QED
    BY <1>1, <2>1, <2>2, <2>3, <2>4, VatFrame
<1>3. CASE Receive
  <2>1. PICK i \in DOMAIN purchaseOrders, row \in PurchaseOrderRow, receipt \in GoodsReceiptRow :
            /\ Shift(0, 0, 0, 0, PostedCost(receipt.cost), -PostedCost(receipt.cost))
            /\ UNCHANGED <<bills, supplierPayments, sales, register, returns>>
    BY <1>3, ReceiveSummary
  <2>2. StillIssued(bills, bills')
    BY <2>1, IssuedSame
  <2>3. QED
    BY <1>1, <2>1, <2>2, VatFrame
<1>4. CASE CreateBill
  <2>1. PICK i \in DOMAIN purchaseOrders, d \in Date, row \in PurchaseOrderRow,
             doc \in SupplierBillRow : /\ BillChange(i, d, row, doc)
                                       /\ UNCHANGED <<goodsReceipts, supplierPayments, sales, books>>
    BY <1>4, CreateBillSummary
  <2>2. bills' = Append(bills, doc) /\ balance' = balance /\ register' = register
    BY <2>1 DEF BillChange, books
  <2>3. Shift(0, 0, 0, 0, 0, 0)
    BY <1>0, <2>2, NoShift
  <2>4. StillIssued(bills, bills')
    BY <1>0, <2>2, TypedRows, IssuedAppended
  <2>5. QED
    BY <1>1, <2>2, <2>3, <2>4, VatFrame
<1>5. CASE PaySupplier
  <2>1. PICK pay \in PaymentRow(Supplier) : SupplierPaymentChange(pay)
    BY <1>5, PaySupplierSummary
  <2>2. /\ Settles(pay, bills, bills') /\ Shift(0, pay.amount, 0, 0, 0, 0) /\ register' = register
    BY <2>1 DEF SupplierPaymentChange
  <2>3. PICK news : news = bills'
    OBVIOUS
  <2>4. StillIssued(bills, news)
    BY <2>2, <2>3, IssuedSettled
  <2>5. QED
    BY <1>1, <2>2, <2>3, <2>4, VatFrame
<1>6. CASE IssueBill
  BY <1>6, VatIssueBill
<1>7. QED
  BY <1>2, <1>3, <1>4, <1>5, <1>6 DEF PurchaseStep

\* Every step keeps the VAT accounts and the register equal.
LEMMA VatStep ==
  ASSUME Tables, FiledMatchesClaimed, VatBooks, [Next]_vars
  PROVE  VatBooks'
<1>0. TypeOK
  BY DEF Tables
<1>1. CASE SalesStep /\ UNCHANGED purchases
  BY <1>1, VatSalesStep
<1>2. CASE PurchaseStep
  BY <1>2, VatPurchaseStep
<1>3. CASE FileReturn
  BY <1>3, VatFileReturn
<1>4. ASSUME balance' = balance, register' = register, UNCHANGED <<sales, purchases>>
      PROVE  VatBooks'
  <2>1. invoices' = invoices /\ notes' = notes /\ bills' = bills
    BY <1>4 DEF sales, purchases
  <2>2. StillIssued(invoices, invoices') /\ StillIssued(bills, bills')
    BY <2>1, IssuedSame
  <2>3. Shift(0, 0, 0, 0, 0, 0)
    BY <1>0, <1>4, NoShift
  <2>4. QED
    BY <1>4, <2>1, <2>2, <2>3, VatFrame
<1>5. CASE PrepareReturn
  <2>1. PICK span \in Spans, new \in VatReturnRow : PrepareChange(span, new)
    BY <1>5, PrepareEffect
  <2>2. QED
    BY <1>4, <2>1 DEF PrepareChange
<1>6. CASE UNCHANGED vars
  BY <1>4, <1>6 DEF vars, books
<1>7. QED
  BY <1>1, <1>2, <1>3, <1>5, <1>6, Steps

(* The VAT accounts hold what the register holds *)

THEOREM VatAccountsAgree == Spec => []VatAccountsMatchRegister
<1>1. Init => VatBooks
  <2>1. ASSUME Init
        PROVE  VatBooks
    <3>1. register = {} /\ balance = [a \in SystemAccount |-> 0]
      BY <2>1 DEF Init, BooksInit
    <3>2. Sourced
      BY <3>1 DEF Sourced
    <3>3. PICK none : none = register /\ none = {}
      BY <3>1
    <3>4. \A r \in none : r.direction = "NONE"
      BY <3>3
    <3>5. "OUTPUT" # "NONE" /\ "INPUT" # "NONE"
      OBVIOUS
    <3>6. VatOf(none, "OUTPUT") = 0 /\ VatOf(none, "INPUT") = 0
      BY <3>4, <3>5, VatOfOneDirection
    <3>7. balance["VAT_OUTPUT"] = 0 /\ balance["VAT_INPUT"] = 0
      BY <3>1 DEF SystemAccount
    <3>8. QED
      BY <3>2, <3>3, <3>6, <3>7 DEF VatBooks, VatAccountsMatchRegister
  <2>2. QED
    BY <2>1
<1>2. Tables /\ FiledMatchesClaimed /\ VatBooks /\ [Next]_vars => VatBooks'
  BY VatStep
<1>3. VatBooks => VatAccountsMatchRegister
  BY DEF VatBooks
<1>4. QED
  BY <1>1, <1>2, <1>3, TablesCorrect, FiledIsClaimed, PTL DEF Spec

-----------------------------------------------------------------------------
(* Counters: what a line or a document counts is a column of a table of    *)
(* the documents made from it.                                             *)

\* What the documents count as paid is what the rows a of the payments allocate.
Paid(c, a) == \A i \in DOMAIN c : c[i] = Column(a, DOMAIN a, i)

\* A payment adds what it allocates to each document.
LEMMA PaidAdded ==
  ASSUME NEW c, NEW a, Paid(c, a), IsFiniteSet(DOMAIN a), \A j \in DOMAIN a : Countable(a[j]),
         NEW b, NEW k, NEW allocated, Countable(allocated), Lengthens(a, b, k, allocated),
         NEW d, DOMAIN d = DOMAIN c, \A i \in DOMAIN c : d[i] = c[i] + On(allocated, i)
  PROVE  Paid(d, b)
<1> SUFFICES ASSUME NEW i \in DOMAIN c PROVE d[i] = Column(b, DOMAIN b, i)
  BY DEF Paid
<1>1. /\ k \notin DOMAIN a /\ DOMAIN b = DOMAIN a \cup {k} /\ b[k] = allocated
      /\ \A j \in DOMAIN a : b[j] = a[j]
  BY DEF Lengthens
<1>2. /\ \A j \in DOMAIN a : On(a[j], i) \in Int
      /\ On(b[k], i) \in Int
  BY <1>1 DEF Countable
<1>3. Column(b, DOMAIN a \cup {k}, i) = Column(a, DOMAIN a, i) + On(b[k], i)
  BY <1>1, <1>2, ColumnAdded
<1>4. QED
  BY <1>1, <1>3 DEF Paid

\* A new document has no payment.
LEMMA PaidOpened ==
  ASSUME NEW c, NEW a, Paid(c, a), IsFiniteSet(DOMAIN a),
         \A j \in DOMAIN a : DOMAIN a[j] \subseteq DOMAIN c,
         NEW d, NEW k, k \notin DOMAIN c, DOMAIN d = DOMAIN c \cup {k},
         \A i \in DOMAIN c : d[i] = c[i], d[k] = 0
  PROVE  Paid(d, a)
<1>1. Column(a, DOMAIN a, k) = 0
  <2>1. \A j \in DOMAIN a : On(a[j], k) = 0
    BY DEF On
  <2>2. QED
    BY <2>1, ColumnOfNone
<1>2. QED
  BY <1>1 DEF Paid

FulfilledOf(os) == [i \in DOMAIN os |-> [p \in DOMAIN os[i].lines |-> os[i].lines[p].fulfilled]]

InvoicedOf(os) == [i \in DOMAIN os |-> [p \in DOMAIN os[i].lines |-> os[i].lines[p].invoiced]]

ReceivedOf(os) == [i \in DOMAIN os |-> [p \in DOMAIN os[i].lines |-> os[i].lines[p].received]]

BilledOf(os) == [i \in DOMAIN os |-> [p \in DOMAIN os[i].lines |-> os[i].lines[p].billed]]

CreditedOf(docs) == [i \in DOMAIN docs |-> docs[i].credited]

PaidOf(docs) == [i \in DOMAIN docs |-> docs[i].paid]

OrderKey(docs) == [j \in DOMAIN docs |-> docs[j].order]

InvoiceKey(ns) == [n \in DOMAIN ns |-> ns[n].invoice]

QtyIn(docs) == [j \in DOMAIN docs |-> docs[j].qty]

AllocatedIn(pays) == [y \in DOMAIN pays |-> pays[y].allocated]

SalesCounted ==
    /\ Tally(FulfilledOf(orders), OrderKey(shipments), QtyIn(shipments))
    /\ Tally(InvoicedOf(orders), OrderKey(invoices), QtyIn(invoices))
    /\ Tally(CreditedOf(invoices), InvoiceKey(notes), QtyIn(notes))
    /\ Paid(PaidOf(invoices), AllocatedIn(payments))

PurchasesCounted ==
    /\ Tally(ReceivedOf(purchaseOrders), OrderKey(goodsReceipts), QtyIn(goodsReceipts))
    /\ Tally(BilledOf(purchaseOrders), OrderKey(bills), QtyIn(bills))
    /\ Paid(PaidOf(bills), AllocatedIn(supplierPayments))

\* The counters in the words of CountersMatchDocuments.
LEMMA QtyOfColumn ==
  ASSUME NEW docs, IsFiniteSet(DOMAIN docs), NEW i, NEW p
  PROVE  QtyOf(docs, OfOrder(docs, i), p) = Column(QtyIn(docs), RowsOf(OrderKey(docs), i), p)
<1>1. PICK ids : ids = OfOrder(docs, i)
  OBVIOUS
<1>2. RowsOf(OrderKey(docs), i) = ids /\ ids \subseteq DOMAIN docs
  BY <1>1 DEF RowsOf, OrderKey, OfOrder
<1>3. QtyOf(docs, ids, p) = Column(QtyIn(docs), ids, p)
  <2>1. [j \in ids |-> QtyOn(docs[j], p)] = [j \in ids |-> On(QtyIn(docs)[j], p)]
    BY <1>2 DEF QtyIn, On, QtyOn
  <2>2. QED
    BY <2>1 DEF QtyOf, Column
<1>4. QED
  BY <1>1, <1>2, <1>3

\* What an invoice counts as credited is a column of the credit notes.
LEMMA CreditedColumn ==
  ASSUME NEW i, NEW p
  PROVE  QtyOf(notes, OfInvoice(i), p) = Column(QtyIn(notes), RowsOf(InvoiceKey(notes), i), p)
<1>1. PICK ids : ids = OfInvoice(i)
  OBVIOUS
<1>2. RowsOf(InvoiceKey(notes), i) = ids /\ ids \subseteq DOMAIN notes
  BY <1>1 DEF RowsOf, InvoiceKey, OfInvoice
<1>3. QtyOf(notes, ids, p) = Column(QtyIn(notes), ids, p)
  <2>1. [j \in ids |-> QtyOn(notes[j], p)] = [j \in ids |-> On(QtyIn(notes)[j], p)]
    BY <1>2 DEF QtyIn, On, QtyOn
  <2>2. QED
    BY <2>1 DEF QtyOf, Column
<1>4. QED
  BY <1>1, <1>2, <1>3

\* What a document counts as paid is a column of the payments.
LEMMA AllocatedColumn ==
  ASSUME NEW pays, NEW i
  PROVE  AllocatedTo(pays, i) = Column(AllocatedIn(pays), DOMAIN AllocatedIn(pays), i)
<1>1. PICK ids : ids = DOMAIN pays
  OBVIOUS
<1>2. DOMAIN AllocatedIn(pays) = ids
  BY <1>1 DEF AllocatedIn
<1>3. [y \in ids |-> IF i \in DOMAIN pays[y].allocated THEN pays[y].allocated[i] ELSE 0]
      = [y \in ids |-> On(AllocatedIn(pays)[y], i)]
  BY <1>1 DEF AllocatedIn, On
<1>4. QED
  BY <1>1, <1>2, <1>3 DEF AllocatedTo, Column

\* The quantities of every document can be counted.
LEMMA QtyRows ==
  ASSUME TypeOK
  PROVE  /\ \A j \in DOMAIN shipments : Countable(shipments[j].qty)
         /\ \A j \in DOMAIN invoices : Countable(invoices[j].qty)
         /\ \A j \in DOMAIN notes : Countable(notes[j].qty)
         /\ \A j \in DOMAIN goodsReceipts : Countable(goodsReceipts[j].qty)
         /\ \A j \in DOMAIN bills : Countable(bills[j].qty)
         /\ \A j \in DOMAIN payments : Countable(payments[j].allocated)
         /\ \A j \in DOMAIN supplierPayments : Countable(supplierPayments[j].allocated)
<1>1. \A q \in PerProduct(Nat) : Countable(q)
  BY OnProducts DEF On, Countable
<1>2. \A a \in PerDocument(Nat) : Countable(a)
  BY DEF On, PerDocument, Countable
<1>3. QED
  BY <1>1, <1>2, Rows DEF FulfillmentRow, InvoiceRow, CreditNoteRow, GoodsReceiptRow, SupplierBillRow,
     PaymentRow

\* The tables are finite.
LEMMA TablesFinite ==
  ASSUME TypeOK
  PROVE  /\ IsFiniteSet(DOMAIN orders) /\ IsFiniteSet(DOMAIN shipments) /\ IsFiniteSet(DOMAIN invoices)
         /\ IsFiniteSet(DOMAIN payments) /\ IsFiniteSet(DOMAIN notes)
         /\ IsFiniteSet(DOMAIN purchaseOrders) /\ IsFiniteSet(DOMAIN goodsReceipts)
         /\ IsFiniteSet(DOMAIN bills) /\ IsFiniteSet(DOMAIN supplierPayments)
BY TypedRows, RowsFinite

\* The counters, in the words of the property.
LEMMA CountedIs ==
  ASSUME Tables, SalesCounted, PurchasesCounted
  PROVE  CountersMatchDocuments
<1>1. TypeOK
  BY DEF Tables
<1>2. ASSUME NEW i \in DOMAIN orders, NEW p \in DOMAIN orders[i].lines
      PROVE  /\ orders[i].lines[p].fulfilled = QtyOf(shipments, OfOrder(shipments, i), p)
             /\ orders[i].lines[p].invoiced = QtyOf(invoices, OfOrder(invoices, i), p)
  <2>1. /\ FulfilledOf(orders)[i][p] = Column(QtyIn(shipments), RowsOf(OrderKey(shipments), i), p)
        /\ InvoicedOf(orders)[i][p] = Column(QtyIn(invoices), RowsOf(OrderKey(invoices), i), p)
    BY DEF SalesCounted, Tally, FulfilledOf, InvoicedOf
  <2>2. FulfilledOf(orders)[i][p] = orders[i].lines[p].fulfilled
    BY DEF FulfilledOf
  <2>3. InvoicedOf(orders)[i][p] = orders[i].lines[p].invoiced
    BY DEF InvoicedOf
  <2>4. /\ QtyOf(shipments, OfOrder(shipments, i), p)
                = Column(QtyIn(shipments), RowsOf(OrderKey(shipments), i), p)
        /\ QtyOf(invoices, OfOrder(invoices, i), p)
                = Column(QtyIn(invoices), RowsOf(OrderKey(invoices), i), p)
    BY <1>1, TablesFinite, QtyOfColumn
  <2>5. QED
    BY <2>1, <2>2, <2>3, <2>4
<1>3. ASSUME NEW i \in DOMAIN purchaseOrders, NEW p \in DOMAIN purchaseOrders[i].lines
      PROVE  /\ purchaseOrders[i].lines[p].received =
                        QtyOf(goodsReceipts, OfOrder(goodsReceipts, i), p)
             /\ purchaseOrders[i].lines[p].billed = QtyOf(bills, OfOrder(bills, i), p)
  <2>1. /\ ReceivedOf(purchaseOrders)[i][p]
                = Column(QtyIn(goodsReceipts), RowsOf(OrderKey(goodsReceipts), i), p)
        /\ BilledOf(purchaseOrders)[i][p] = Column(QtyIn(bills), RowsOf(OrderKey(bills), i), p)
    BY DEF PurchasesCounted, Tally, ReceivedOf, BilledOf
  <2>2. ReceivedOf(purchaseOrders)[i][p] = purchaseOrders[i].lines[p].received
    BY DEF ReceivedOf
  <2>3. BilledOf(purchaseOrders)[i][p] = purchaseOrders[i].lines[p].billed
    BY DEF BilledOf
  <2>4. /\ QtyOf(goodsReceipts, OfOrder(goodsReceipts, i), p)
                = Column(QtyIn(goodsReceipts), RowsOf(OrderKey(goodsReceipts), i), p)
        /\ QtyOf(bills, OfOrder(bills, i), p) = Column(QtyIn(bills), RowsOf(OrderKey(bills), i), p)
    BY <1>1, TablesFinite, QtyOfColumn
  <2>5. QED
    BY <2>1, <2>2, <2>3, <2>4
<1>4. ASSUME NEW i \in DOMAIN invoices, NEW p \in DOMAIN invoices[i].qty
      PROVE  invoices[i].credited[p] = QtyOf(notes, OfInvoice(i), p)
  <2>1. DOMAIN invoices[i].credited = DOMAIN invoices[i].qty
    BY DEF Tables
  <2>2. CreditedOf(invoices)[i][p] = Column(QtyIn(notes), RowsOf(InvoiceKey(notes), i), p)
    BY <2>1 DEF SalesCounted, Tally, CreditedOf
  <2>3. CreditedOf(invoices)[i][p] = invoices[i].credited[p]
    BY DEF CreditedOf
  <2>4. QED
    BY <2>2, <2>3, CreditedColumn
<1>5. ASSUME NEW i \in DOMAIN invoices PROVE invoices[i].paid = AllocatedTo(payments, i)
  BY AllocatedColumn DEF SalesCounted, Paid, PaidOf
<1>6. ASSUME NEW i \in DOMAIN bills PROVE bills[i].paid = AllocatedTo(supplierPayments, i)
  BY AllocatedColumn DEF PurchasesCounted, Paid, PaidOf
<1>7. QED
  BY <1>2, <1>3, <1>4, <1>5, <1>6 DEF CountersMatchDocuments

\* Replacing a row that keeps a counter keeps the table of it.
SameFulfilled(ls, ms) == DOMAIN ms = DOMAIN ls /\ \A p \in DOMAIN ls : ms[p].fulfilled = ls[p].fulfilled

\* An order that keeps its shipped quantities.
LEMMA FulfilledKept ==
  ASSUME NEW os \in Seq(SalesOrderRow), NEW i \in DOMAIN os, NEW row \in SalesOrderRow, NEW ns,
         ns = [os EXCEPT ![i] = row], SameFulfilled(os[i].lines, row.lines)
  PROVE  FulfilledOf(ns) = FulfilledOf(os)
<1>1. /\ DOMAIN ns = DOMAIN os /\ ns[i] = row
      /\ \A j \in DOMAIN os : j # i => ns[j] = os[j]
  BY Replaced
<1>2. \A j \in DOMAIN os :
        /\ DOMAIN ns[j].lines = DOMAIN os[j].lines
        /\ \A p \in DOMAIN os[j].lines : ns[j].lines[p].fulfilled = os[j].lines[p].fulfilled
  BY <1>1 DEF SameFulfilled
<1>3. QED
  BY <1>1, <1>2 DEF FulfilledOf

SameInvoiced(ls, ms) == DOMAIN ms = DOMAIN ls /\ \A p \in DOMAIN ls : ms[p].invoiced = ls[p].invoiced

\* An order that keeps its invoiced quantities.
LEMMA InvoicedKept ==
  ASSUME NEW os \in Seq(SalesOrderRow), NEW i \in DOMAIN os, NEW row \in SalesOrderRow, NEW ns,
         ns = [os EXCEPT ![i] = row], SameInvoiced(os[i].lines, row.lines)
  PROVE  InvoicedOf(ns) = InvoicedOf(os)
<1>1. /\ DOMAIN ns = DOMAIN os /\ ns[i] = row
      /\ \A j \in DOMAIN os : j # i => ns[j] = os[j]
  BY Replaced
<1>2. \A j \in DOMAIN os :
        /\ DOMAIN ns[j].lines = DOMAIN os[j].lines
        /\ \A p \in DOMAIN os[j].lines : ns[j].lines[p].invoiced = os[j].lines[p].invoiced
  BY <1>1 DEF SameInvoiced
<1>3. QED
  BY <1>1, <1>2 DEF InvoicedOf

SameReceived(ls, ms) == DOMAIN ms = DOMAIN ls /\ \A p \in DOMAIN ls : ms[p].received = ls[p].received

\* An order that keeps its received quantities.
LEMMA ReceivedKept ==
  ASSUME NEW os \in Seq(PurchaseOrderRow), NEW i \in DOMAIN os, NEW row \in PurchaseOrderRow, NEW ns,
         ns = [os EXCEPT ![i] = row], SameReceived(os[i].lines, row.lines)
  PROVE  ReceivedOf(ns) = ReceivedOf(os)
<1>1. /\ DOMAIN ns = DOMAIN os /\ ns[i] = row
      /\ \A j \in DOMAIN os : j # i => ns[j] = os[j]
  BY Replaced
<1>2. \A j \in DOMAIN os :
        /\ DOMAIN ns[j].lines = DOMAIN os[j].lines
        /\ \A p \in DOMAIN os[j].lines : ns[j].lines[p].received = os[j].lines[p].received
  BY <1>1 DEF SameReceived
<1>3. QED
  BY <1>1, <1>2 DEF ReceivedOf

SameBilled(ls, ms) == DOMAIN ms = DOMAIN ls /\ \A p \in DOMAIN ls : ms[p].billed = ls[p].billed

\* An order that keeps its billed quantities.
LEMMA BilledKept ==
  ASSUME NEW os \in Seq(PurchaseOrderRow), NEW i \in DOMAIN os, NEW row \in PurchaseOrderRow, NEW ns,
         ns = [os EXCEPT ![i] = row], SameBilled(os[i].lines, row.lines)
  PROVE  BilledOf(ns) = BilledOf(os)
<1>1. /\ DOMAIN ns = DOMAIN os /\ ns[i] = row
      /\ \A j \in DOMAIN os : j # i => ns[j] = os[j]
  BY Replaced
<1>2. \A j \in DOMAIN os :
        /\ DOMAIN ns[j].lines = DOMAIN os[j].lines
        /\ \A p \in DOMAIN os[j].lines : ns[j].lines[p].billed = os[j].lines[p].billed
  BY <1>1 DEF SameBilled
<1>3. QED
  BY <1>1, <1>2 DEF BilledOf

\* Replacing a document that keeps its order, its quantities and what it counts.
SameDocument(doc, new) == new.order = doc.order /\ new.qty = doc.qty

SamePaid(doc, new) == new.paid = doc.paid

SameCredited(doc, new) == new.credited = doc.credited

\* Documents that keep their orders and quantities.
LEMMA DocumentKept ==
  ASSUME NEW docs, NEW news, DOMAIN news = DOMAIN docs, \A j \in DOMAIN docs : SameDocument(docs[j], news[j])
  PROVE  OrderKey(news) = OrderKey(docs) /\ QtyIn(news) = QtyIn(docs)
BY DEF OrderKey, QtyIn, SameDocument

\* Documents that keep what was paid.
LEMMA PaidKept ==
  ASSUME NEW docs, NEW news, DOMAIN news = DOMAIN docs, \A j \in DOMAIN docs : SamePaid(docs[j], news[j])
  PROVE  PaidOf(news) = PaidOf(docs)
BY DEF PaidOf, SamePaid

\* Documents that keep what was credited.
LEMMA CreditedKept ==
  ASSUME NEW docs, NEW news, DOMAIN news = DOMAIN docs, \A j \in DOMAIN docs : SameCredited(docs[j], news[j])
  PROVE  CreditedOf(news) = CreditedOf(docs)
BY DEF CreditedOf, SameCredited

\* The tables of keys and quantities with one document more.
LEMMA DocumentAdded ==
  ASSUME NEW R, NEW docs \in Seq(R), NEW doc \in R, NEW news, news = Append(docs, doc)
  PROVE  /\ Lengthens(OrderKey(docs), OrderKey(news), Len(docs) + 1, doc.order)
         /\ Lengthens(InvoiceKey(docs), InvoiceKey(news), Len(docs) + 1, doc.invoice)
         /\ Lengthens(QtyIn(docs), QtyIn(news), Len(docs) + 1, doc.qty)
         /\ Lengthens(AllocatedIn(docs), AllocatedIn(news), Len(docs) + 1, doc.allocated)
<1>1. /\ Len(docs) + 1 \notin DOMAIN docs /\ DOMAIN news = DOMAIN docs \cup {Len(docs) + 1}
      /\ news[Len(docs) + 1] = doc /\ \A j \in DOMAIN docs : news[j] = docs[j]
  BY Appended
<1>2. PICK k : k = Len(docs) + 1
  OBVIOUS
<1>3. /\ k \notin DOMAIN docs /\ DOMAIN news = DOMAIN docs \cup {k}
      /\ news[k] = doc /\ \A j \in DOMAIN docs : news[j] = docs[j]
  BY <1>1, <1>2
<1>4. Lengthens(OrderKey(docs), OrderKey(news), k, doc.order)
  BY <1>3 DEF Lengthens, OrderKey
<1>5. Lengthens(InvoiceKey(docs), InvoiceKey(news), k, doc.invoice)
  BY <1>3 DEF Lengthens, InvoiceKey
<1>6. Lengthens(QtyIn(docs), QtyIn(news), k, doc.qty)
  BY <1>3 DEF Lengthens, QtyIn
<1>7. Lengthens(AllocatedIn(docs), AllocatedIn(news), k, doc.allocated)
  BY <1>3 DEF Lengthens, AllocatedIn
<1>8. QED
  BY <1>2, <1>4, <1>5, <1>6, <1>7

\* The lines of one order replaced by lines with more on the counter.
LEMMA CountersAdd ==
  ASSUME NEW c, NEW d, NEW i, NEW qty, DOMAIN d = DOMAIN c, DOMAIN d[i] = DOMAIN c[i],
         \A j \in DOMAIN c : j # i => d[j] = c[j],
         \A j \in DOMAIN c : \A p \in DOMAIN c[j] : c[j][p] \in Int,
         \A p \in DOMAIN c[i] : d[i][p] = c[i][p] + On(qty, p)
  PROVE  Adds(c, d, i, qty)
<1>1. ASSUME NEW j \in DOMAIN c
      PROVE  /\ DOMAIN d[j] = DOMAIN c[j]
             /\ \A p \in DOMAIN c[j] : d[j][p] = c[j][p] + (IF j = i THEN On(qty, p) ELSE 0)
  <2>1. CASE j = i
    BY <2>1
  <2>2. CASE j # i
    BY <2>2
  <2>3. QED
    BY <2>1, <2>2
<1>2. QED
  BY <1>1 DEF Adds

\* A shipment adds to one order.
LEMMA FulfilledAdds ==
  ASSUME NEW os \in Seq(SalesOrderRow), NEW i \in DOMAIN os, NEW row \in SalesOrderRow, NEW ns,
         ns = [os EXCEPT ![i] = row], NEW qty, Fulfilled(os[i].lines, row.lines, qty),
         \A j \in DOMAIN os : \A p \in DOMAIN os[j].lines : os[j].lines[p].fulfilled \in Nat
  PROVE  Adds(FulfilledOf(os), FulfilledOf(ns), i, qty)
<1>1. /\ DOMAIN ns = DOMAIN os /\ ns[i] = row
      /\ \A j \in DOMAIN os : j # i => ns[j] = os[j]
  BY Replaced
<1>2. /\ DOMAIN row.lines = DOMAIN os[i].lines
      /\ \A p \in DOMAIN os[i].lines : row.lines[p].fulfilled = os[i].lines[p].fulfilled + On(qty, p)
  BY DEF Fulfilled, SameTerms
<1> DEFINE c == FulfilledOf(os)
           d == FulfilledOf(ns)
<1>3. DOMAIN d = DOMAIN c /\ DOMAIN c = DOMAIN os /\ DOMAIN d[i] = DOMAIN c[i]
  BY <1>1, <1>2 DEF FulfilledOf
<1>4. \A j \in DOMAIN c : j # i => d[j] = c[j]
  BY <1>1 DEF FulfilledOf
<1>5. \A j \in DOMAIN c : \A p \in DOMAIN c[j] : c[j][p] \in Int
  BY <1>3 DEF FulfilledOf
<1>6. \A p \in DOMAIN c[i] : d[i][p] = c[i][p] + On(qty, p)
  BY <1>1, <1>2 DEF FulfilledOf
<1> HIDE DEF c, d
<1>7. Adds(c, d, i, qty)
  BY <1>3, <1>4, <1>5, <1>6, CountersAdd
<1>8. QED
  BY <1>7 DEF c, d

\* A new order has shipped nothing.
LEMMA FulfilledOpens ==
  ASSUME NEW os \in Seq(SalesOrderRow), NEW row \in SalesOrderRow, NEW ns, ns = Append(os, row),
         \A p \in DOMAIN row.lines : row.lines[p].fulfilled = 0
  PROVE  Opens(FulfilledOf(os), FulfilledOf(ns), Len(os) + 1)
<1>1. PICK k : k = Len(os) + 1
  OBVIOUS
<1>2. /\ k \notin DOMAIN os /\ DOMAIN ns = DOMAIN os \cup {k}
      /\ ns[k] = row /\ \A j \in DOMAIN os : ns[j] = os[j]
  BY <1>1, Appended
<1>3. Opens(FulfilledOf(os), FulfilledOf(ns), k)
  BY <1>2 DEF Opens, FulfilledOf
<1>4. QED
  BY <1>1, <1>3

\* An invoice adds to one order.
LEMMA InvoicedAdds ==
  ASSUME NEW os \in Seq(SalesOrderRow), NEW i \in DOMAIN os, NEW row \in SalesOrderRow, NEW ns,
         ns = [os EXCEPT ![i] = row], NEW qty, Invoiced(os[i].lines, row.lines, qty),
         \A j \in DOMAIN os : \A p \in DOMAIN os[j].lines : os[j].lines[p].invoiced \in Nat
  PROVE  Adds(InvoicedOf(os), InvoicedOf(ns), i, qty)
<1>1. /\ DOMAIN ns = DOMAIN os /\ ns[i] = row
      /\ \A j \in DOMAIN os : j # i => ns[j] = os[j]
  BY Replaced
<1>2. /\ DOMAIN row.lines = DOMAIN os[i].lines
      /\ \A p \in DOMAIN os[i].lines : row.lines[p].invoiced = os[i].lines[p].invoiced + On(qty, p)
  BY DEF Invoiced, SameTerms
<1> DEFINE c == InvoicedOf(os)
           d == InvoicedOf(ns)
<1>3. DOMAIN d = DOMAIN c /\ DOMAIN c = DOMAIN os /\ DOMAIN d[i] = DOMAIN c[i]
  BY <1>1, <1>2 DEF InvoicedOf
<1>4. \A j \in DOMAIN c : j # i => d[j] = c[j]
  BY <1>1 DEF InvoicedOf
<1>5. \A j \in DOMAIN c : \A p \in DOMAIN c[j] : c[j][p] \in Int
  BY <1>3 DEF InvoicedOf
<1>6. \A p \in DOMAIN c[i] : d[i][p] = c[i][p] + On(qty, p)
  BY <1>1, <1>2 DEF InvoicedOf
<1> HIDE DEF c, d
<1>7. Adds(c, d, i, qty)
  BY <1>3, <1>4, <1>5, <1>6, CountersAdd
<1>8. QED
  BY <1>7 DEF c, d

\* A new order has invoiced nothing.
LEMMA InvoicedOpens ==
  ASSUME NEW os \in Seq(SalesOrderRow), NEW row \in SalesOrderRow, NEW ns, ns = Append(os, row),
         \A p \in DOMAIN row.lines : row.lines[p].invoiced = 0
  PROVE  Opens(InvoicedOf(os), InvoicedOf(ns), Len(os) + 1)
<1>1. PICK k : k = Len(os) + 1
  OBVIOUS
<1>2. /\ k \notin DOMAIN os /\ DOMAIN ns = DOMAIN os \cup {k}
      /\ ns[k] = row /\ \A j \in DOMAIN os : ns[j] = os[j]
  BY <1>1, Appended
<1>3. Opens(InvoicedOf(os), InvoicedOf(ns), k)
  BY <1>2 DEF Opens, InvoicedOf
<1>4. QED
  BY <1>1, <1>3

\* A receipt adds to one order.
LEMMA ReceivedAdds ==
  ASSUME NEW os \in Seq(PurchaseOrderRow), NEW i \in DOMAIN os, NEW row \in PurchaseOrderRow, NEW ns,
         ns = [os EXCEPT ![i] = row], NEW qty, Received(os[i].lines, row.lines, qty),
         \A j \in DOMAIN os : \A p \in DOMAIN os[j].lines : os[j].lines[p].received \in Nat
  PROVE  Adds(ReceivedOf(os), ReceivedOf(ns), i, qty)
<1>1. /\ DOMAIN ns = DOMAIN os /\ ns[i] = row
      /\ \A j \in DOMAIN os : j # i => ns[j] = os[j]
  BY Replaced
<1>2. /\ DOMAIN row.lines = DOMAIN os[i].lines
      /\ \A p \in DOMAIN os[i].lines : row.lines[p].received = os[i].lines[p].received + On(qty, p)
  BY DEF Received, SameTerms
<1> DEFINE c == ReceivedOf(os)
           d == ReceivedOf(ns)
<1>3. DOMAIN d = DOMAIN c /\ DOMAIN c = DOMAIN os /\ DOMAIN d[i] = DOMAIN c[i]
  BY <1>1, <1>2 DEF ReceivedOf
<1>4. \A j \in DOMAIN c : j # i => d[j] = c[j]
  BY <1>1 DEF ReceivedOf
<1>5. \A j \in DOMAIN c : \A p \in DOMAIN c[j] : c[j][p] \in Int
  BY <1>3 DEF ReceivedOf
<1>6. \A p \in DOMAIN c[i] : d[i][p] = c[i][p] + On(qty, p)
  BY <1>1, <1>2 DEF ReceivedOf
<1> HIDE DEF c, d
<1>7. Adds(c, d, i, qty)
  BY <1>3, <1>4, <1>5, <1>6, CountersAdd
<1>8. QED
  BY <1>7 DEF c, d

\* A new order has received nothing.
LEMMA ReceivedOpens ==
  ASSUME NEW os \in Seq(PurchaseOrderRow), NEW row \in PurchaseOrderRow, NEW ns, ns = Append(os, row),
         \A p \in DOMAIN row.lines : row.lines[p].received = 0
  PROVE  Opens(ReceivedOf(os), ReceivedOf(ns), Len(os) + 1)
<1>1. PICK k : k = Len(os) + 1
  OBVIOUS
<1>2. /\ k \notin DOMAIN os /\ DOMAIN ns = DOMAIN os \cup {k}
      /\ ns[k] = row /\ \A j \in DOMAIN os : ns[j] = os[j]
  BY <1>1, Appended
<1>3. Opens(ReceivedOf(os), ReceivedOf(ns), k)
  BY <1>2 DEF Opens, ReceivedOf
<1>4. QED
  BY <1>1, <1>3

\* A bill adds to one order.
LEMMA BilledAdds ==
  ASSUME NEW os \in Seq(PurchaseOrderRow), NEW i \in DOMAIN os, NEW row \in PurchaseOrderRow, NEW ns,
         ns = [os EXCEPT ![i] = row], NEW qty, Billed(os[i].lines, row.lines, qty),
         \A j \in DOMAIN os : \A p \in DOMAIN os[j].lines : os[j].lines[p].billed \in Nat
  PROVE  Adds(BilledOf(os), BilledOf(ns), i, qty)
<1>1. /\ DOMAIN ns = DOMAIN os /\ ns[i] = row
      /\ \A j \in DOMAIN os : j # i => ns[j] = os[j]
  BY Replaced
<1>2. /\ DOMAIN row.lines = DOMAIN os[i].lines
      /\ \A p \in DOMAIN os[i].lines : row.lines[p].billed = os[i].lines[p].billed + On(qty, p)
  BY DEF Billed, SameTerms
<1> DEFINE c == BilledOf(os)
           d == BilledOf(ns)
<1>3. DOMAIN d = DOMAIN c /\ DOMAIN c = DOMAIN os /\ DOMAIN d[i] = DOMAIN c[i]
  BY <1>1, <1>2 DEF BilledOf
<1>4. \A j \in DOMAIN c : j # i => d[j] = c[j]
  BY <1>1 DEF BilledOf
<1>5. \A j \in DOMAIN c : \A p \in DOMAIN c[j] : c[j][p] \in Int
  BY <1>3 DEF BilledOf
<1>6. \A p \in DOMAIN c[i] : d[i][p] = c[i][p] + On(qty, p)
  BY <1>1, <1>2 DEF BilledOf
<1> HIDE DEF c, d
<1>7. Adds(c, d, i, qty)
  BY <1>3, <1>4, <1>5, <1>6, CountersAdd
<1>8. QED
  BY <1>7 DEF c, d

\* A new order has billed nothing.
LEMMA BilledOpens ==
  ASSUME NEW os \in Seq(PurchaseOrderRow), NEW row \in PurchaseOrderRow, NEW ns, ns = Append(os, row),
         \A p \in DOMAIN row.lines : row.lines[p].billed = 0
  PROVE  Opens(BilledOf(os), BilledOf(ns), Len(os) + 1)
<1>1. PICK k : k = Len(os) + 1
  OBVIOUS
<1>2. /\ k \notin DOMAIN os /\ DOMAIN ns = DOMAIN os \cup {k}
      /\ ns[k] = row /\ \A j \in DOMAIN os : ns[j] = os[j]
  BY <1>1, Appended
<1>3. Opens(BilledOf(os), BilledOf(ns), k)
  BY <1>2 DEF Opens, BilledOf
<1>4. QED
  BY <1>1, <1>3

\* A document is counted on its order.
LEMMA TallyDocument ==
  ASSUME NEW S, NEW docs \in Seq(S), NEW doc \in S, NEW news, news = Append(docs, doc),
         \A j \in DOMAIN docs : Countable(docs[j].qty), Countable(doc.qty),
         NEW i, doc.order = i,
         NEW c, NEW d, Adds(c, d, i, doc.qty), Tally(c, OrderKey(docs), QtyIn(docs))
  PROVE  Tally(d, OrderKey(news), QtyIn(news))
<1>1. /\ Lengthens(OrderKey(docs), OrderKey(news), Len(docs) + 1, i)
      /\ Lengthens(QtyIn(docs), QtyIn(news), Len(docs) + 1, doc.qty)
  BY DocumentAdded
<1>2. IsFiniteSet(DOMAIN docs)
  BY RowsFinite
<1>3. DOMAIN OrderKey(docs) = DOMAIN docs /\ DOMAIN QtyIn(docs) = DOMAIN docs
  BY DEF OrderKey, QtyIn
<1>4. \A j \in DOMAIN QtyIn(docs) : Countable(QtyIn(docs)[j])
  BY DEF QtyIn
<1>5. QED
  BY <1>1, <1>2, <1>3, <1>4, TallyAdded

\* A credit note is counted on its invoice.
LEMMA TallyNote ==
  ASSUME NEW S, NEW docs \in Seq(S), NEW doc \in S, NEW news, news = Append(docs, doc),
         \A j \in DOMAIN docs : Countable(docs[j].qty), Countable(doc.qty),
         NEW i, doc.invoice = i,
         NEW c, NEW d, Adds(c, d, i, doc.qty), Tally(c, InvoiceKey(docs), QtyIn(docs))
  PROVE  Tally(d, InvoiceKey(news), QtyIn(news))
<1>1. /\ Lengthens(InvoiceKey(docs), InvoiceKey(news), Len(docs) + 1, i)
      /\ Lengthens(QtyIn(docs), QtyIn(news), Len(docs) + 1, doc.qty)
  BY DocumentAdded
<1>2. IsFiniteSet(DOMAIN docs)
  BY RowsFinite
<1>3. DOMAIN InvoiceKey(docs) = DOMAIN docs /\ DOMAIN QtyIn(docs) = DOMAIN docs
  BY DEF InvoiceKey, QtyIn
<1>4. \A j \in DOMAIN QtyIn(docs) : Countable(QtyIn(docs)[j])
  BY DEF QtyIn
<1>5. QED
  BY <1>1, <1>2, <1>3, <1>4, TallyAdded

\* Every document is made from an order, a note from an invoice, a payment settles documents.
LEMMA KeysKnown ==
  ASSUME Tables
  PROVE  /\ \A j \in DOMAIN OrderKey(shipments) : OrderKey(shipments)[j] \in DOMAIN FulfilledOf(orders)
         /\ \A j \in DOMAIN OrderKey(invoices) : OrderKey(invoices)[j] \in DOMAIN InvoicedOf(orders)
         /\ \A j \in DOMAIN InvoiceKey(notes) : InvoiceKey(notes)[j] \in DOMAIN CreditedOf(invoices)
         /\ \A j \in DOMAIN AllocatedIn(payments) :
                DOMAIN AllocatedIn(payments)[j] \subseteq DOMAIN PaidOf(invoices)
         /\ \A j \in DOMAIN OrderKey(goodsReceipts) :
                OrderKey(goodsReceipts)[j] \in DOMAIN ReceivedOf(purchaseOrders)
         /\ \A j \in DOMAIN OrderKey(bills) : OrderKey(bills)[j] \in DOMAIN BilledOf(purchaseOrders)
         /\ \A j \in DOMAIN AllocatedIn(supplierPayments) :
                DOMAIN AllocatedIn(supplierPayments)[j] \subseteq DOMAIN PaidOf(bills)
<1>1. /\ DOMAIN FulfilledOf(orders) = DOMAIN orders /\ DOMAIN InvoicedOf(orders) = DOMAIN orders
      /\ DOMAIN CreditedOf(invoices) = DOMAIN invoices /\ DOMAIN PaidOf(invoices) = DOMAIN invoices
      /\ DOMAIN ReceivedOf(purchaseOrders) = DOMAIN purchaseOrders
      /\ DOMAIN BilledOf(purchaseOrders) = DOMAIN purchaseOrders /\ DOMAIN PaidOf(bills) = DOMAIN bills
  BY DEF FulfilledOf, InvoicedOf, CreditedOf, PaidOf, ReceivedOf, BilledOf
<1>2. /\ \A j \in DOMAIN shipments : shipments[j].order \in DOMAIN orders
      /\ \A j \in DOMAIN invoices : invoices[j].order \in DOMAIN orders
      /\ \A j \in DOMAIN notes : notes[j].invoice \in DOMAIN invoices
      /\ \A j \in DOMAIN payments : DOMAIN payments[j].allocated \subseteq DOMAIN invoices
  BY DEF Tables, SalesChecks, FulfillmentKeys, InvoiceKeys, CreditNoteKeys, PaymentAllocationChecks
<1>3. /\ \A j \in DOMAIN goodsReceipts : goodsReceipts[j].order \in DOMAIN purchaseOrders
      /\ \A j \in DOMAIN bills : bills[j].order \in DOMAIN purchaseOrders
      /\ \A j \in DOMAIN supplierPayments : DOMAIN supplierPayments[j].allocated \subseteq DOMAIN bills
  BY DEF Tables, PurchasingChecks, GoodsReceiptKeys, SupplierBillKeys, PaymentAllocationChecks
<1>4. QED
  BY <1>1, <1>2, <1>3 DEF OrderKey, InvoiceKey, AllocatedIn

\* A new order, with nothing shipped or invoiced.
LEMMA NewOrderCounted ==
  ASSUME Tables, SalesCounted, NEW new \in SalesOrderRow, orders' = Append(orders, new),
         \A p \in DOMAIN new.lines : new.lines[p].fulfilled = 0,
         \A p \in DOMAIN new.lines : new.lines[p].invoiced = 0,
         UNCHANGED <<shipments, invoices, payments, notes>>
  PROVE  SalesCounted'
<1>1. orders \in Seq(SalesOrderRow)
  BY TypedRows DEF Tables
<1>2. /\ Opens(FulfilledOf(orders), FulfilledOf(orders'), Len(orders) + 1)
      /\ Opens(InvoicedOf(orders), InvoicedOf(orders'), Len(orders) + 1)
  BY <1>1, FulfilledOpens, InvoicedOpens
<1>3. Tally(FulfilledOf(orders'), OrderKey(shipments), QtyIn(shipments))
  BY <1>2, KeysKnown, TallyOpened DEF SalesCounted
<1>4. Tally(InvoicedOf(orders'), OrderKey(invoices), QtyIn(invoices))
  BY <1>2, KeysKnown, TallyOpened DEF SalesCounted
<1>5. QED
  BY <1>3, <1>4 DEF SalesCounted

\* A new order counts nothing.
LEMMA OpenOrderCounted ==
  ASSUME Tables, SalesCounted, ConvertQuotation \/ CreateOrder
  PROVE  SalesCounted'
<1>0. TypeOK
  BY DEF Tables
<1>1. CASE ConvertQuotation
  <2>1. PICK i \in DOMAIN quotations, w \in Warehouse : convert_quotation(i, w)
    BY <1>1 DEF ConvertQuotation
  <2>2. PICK row \in QuotationRow, new \in SalesOrderRow : ConvertChange(i, row, new)
    BY <1>0, <2>1, ConvertEffect
  <2>3. QED
    BY <2>2, NewOrderCounted DEF ConvertChange
<1>2. CASE CreateOrder
  <2>1. PICK c \in Customer, w \in Warehouse, b \in SalesBasket : create_order(c, w, b)
    BY <1>2 DEF CreateOrder
  <2>2. PICK new : new = NewOrder(c, w, b, 0)
    OBVIOUS
  <2>3. /\ new \in SalesOrderRow
        /\ \A p \in DOMAIN new.lines : new.lines[p].fulfilled = 0 /\ new.lines[p].invoiced = 0
    BY <2>2, NewOrderType, SalesAssumption
  <2>4. orders' = Append(orders, new) /\ UNCHANGED <<shipments, invoices, payments, notes>>
    BY <2>1, <2>2 DEF create_order
  <2>5. QED
    BY <2>3, <2>4, NewOrderCounted
<1>3. QED
  BY <1>1, <1>2

\* confirm_order and cancel_order change no counter.
LEMMA OrderStatusCounted ==
  ASSUME Tables, SalesCounted, ConfirmOrder \/ CancelOrder
  PROVE  SalesCounted'
<1>0. TypeOK /\ orders \in Seq(SalesOrderRow)
  BY TypedRows DEF Tables
<1>1. PICK i \in DOMAIN orders : confirm_order(i) \/ cancel_order(i)
  BY DEF ConfirmOrder, CancelOrder
<1>2. PICK st \in {"CONFIRMED", "CANCELLED"} : \E row \in SalesOrderRow : StatusChange(i, row, st)
  BY <1>0, <1>1, StatusEffect
<1>3. PICK row \in SalesOrderRow : StatusChange(i, row, st)
  BY <1>2
<1>4. /\ orders' = [orders EXCEPT ![i] = row] /\ row.lines = orders[i].lines
      /\ shipments' = shipments /\ invoices' = invoices /\ payments' = payments /\ notes' = notes
  BY <1>3 DEF StatusChange
<1>5. FulfilledOf(orders') = FulfilledOf(orders) /\ InvoicedOf(orders') = InvoicedOf(orders)
  <2>1. SameFulfilled(orders[i].lines, row.lines) /\ SameInvoiced(orders[i].lines, row.lines)
    BY <1>4 DEF SameFulfilled, SameInvoiced
  <2>2. QED
    BY <1>0, <1>4, <2>1, FulfilledKept, InvoicedKept
<1>6. QED
  BY <1>4, <1>5 DEF SalesCounted

\* fulfil counts what it ships.
LEMMA FulfilCounted ==
  ASSUME Tables, SalesCounted, Fulfil
  PROVE  SalesCounted'
<1>0. TypeOK
  BY DEF Tables
<1>1. PICK i \in DOMAIN orders, row \in SalesOrderRow, ship \in FulfillmentRow : Shipped(i, row, ship)
  BY FulfilSummary
<1>2. /\ orders' = [orders EXCEPT ![i] = row] /\ Fulfilled(orders[i].lines, row.lines, ship.qty)
      /\ ship.order = i /\ shipments' = Append(shipments, ship)
      /\ invoices' = invoices /\ payments' = payments /\ notes' = notes
      /\ ship.qty \in PerProduct(Nat \ {0})
  BY <1>1 DEF Shipped
<1>3. orders \in Seq(SalesOrderRow) /\ shipments \in Seq(FulfillmentRow)
  BY <1>0, TypedRows
<1>4. SameInvoiced(orders[i].lines, row.lines)
  BY <1>2 DEF Fulfilled, SameTerms, SameInvoiced
<1>5. InvoicedOf(orders') = InvoicedOf(orders)
  BY <1>2, <1>3, <1>4, InvoicedKept
<1>6. Adds(FulfilledOf(orders), FulfilledOf(orders'), i, ship.qty)
  <2>1. \A j \in DOMAIN orders : \A p \in DOMAIN orders[j].lines : orders[j].lines[p].fulfilled \in Nat
    BY <1>0, SalesLines
  <2>2. QED
    BY <1>2, <1>3, <2>1, FulfilledAdds
<1>7. Tally(FulfilledOf(orders'), OrderKey(shipments'), QtyIn(shipments'))
  <2>1. \A j \in DOMAIN shipments : Countable(shipments[j].qty)
    BY <1>0, QtyRows
  <2>2. Countable(ship.qty)
    BY <1>2, OnProducts DEF On, Countable
  <2>3. Tally(FulfilledOf(orders), OrderKey(shipments), QtyIn(shipments))
    BY DEF SalesCounted
  <2>4. QED
    BY <1>2, <1>3, <1>6, <2>1, <2>2, <2>3, TallyDocument
<1>8. QED
  BY <1>2, <1>5, <1>7 DEF SalesCounted

\* create_invoice counts what it invoices.
LEMMA CreateInvoiceCounted ==
  ASSUME Tables, SalesCounted, CreateInvoice
  PROVE  SalesCounted'
<1>0. TypeOK
  BY DEF Tables
<1>1. PICK i \in DOMAIN orders, row \in SalesOrderRow, doc \in InvoiceRow : Drafted(i, row, doc)
  BY CreateInvoiceSummary
<1>2. /\ orders' = [orders EXCEPT ![i] = row] /\ Invoiced(orders[i].lines, row.lines, doc.qty)
      /\ doc.order = i /\ invoices' = Append(invoices, doc)
      /\ doc.credited = [p \in DOMAIN doc.qty |-> 0] /\ doc.paid = 0
      /\ shipments' = shipments /\ payments' = payments /\ notes' = notes
      /\ doc.qty \in PerProduct(Nat \ {0})
  BY <1>1 DEF Drafted
<1>3. orders \in Seq(SalesOrderRow) /\ invoices \in Seq(InvoiceRow)
  BY <1>0, TypedRows
<1>4. SameFulfilled(orders[i].lines, row.lines)
  BY <1>2 DEF Invoiced, SameTerms, SameFulfilled
<1>5. FulfilledOf(orders') = FulfilledOf(orders)
  BY <1>2, <1>3, <1>4, FulfilledKept
<1>6. Adds(InvoicedOf(orders), InvoicedOf(orders'), i, doc.qty)
  <2>1. \A j \in DOMAIN orders : \A p \in DOMAIN orders[j].lines : orders[j].lines[p].invoiced \in Nat
    BY <1>0, SalesLines
  <2>2. QED
    BY <1>2, <1>3, <2>1, InvoicedAdds
<1>7. Tally(InvoicedOf(orders'), OrderKey(invoices'), QtyIn(invoices'))
  <2>1. \A j \in DOMAIN invoices : Countable(invoices[j].qty)
    BY <1>0, QtyRows
  <2>2. Countable(doc.qty)
    BY <1>2, OnProducts DEF On, Countable
  <2>3. Tally(InvoicedOf(orders), OrderKey(invoices), QtyIn(invoices))
    BY DEF SalesCounted
  <2>4. QED
    BY <1>2, <1>3, <1>6, <2>1, <2>2, <2>3, TallyDocument
<1>8. PICK k : k = Len(invoices) + 1
  OBVIOUS
<1>9. /\ k \notin DOMAIN invoices /\ DOMAIN invoices' = DOMAIN invoices \cup {k} /\ invoices'[k] = doc
      /\ \A j \in DOMAIN invoices : invoices'[j] = invoices[j]
  BY <1>2, <1>3, <1>8, Appended
<1>10. Tally(CreditedOf(invoices'), InvoiceKey(notes), QtyIn(notes))
  <2>1. Opens(CreditedOf(invoices), CreditedOf(invoices'), k)
    BY <1>2, <1>9 DEF Opens, CreditedOf
  <2>2. QED
    BY <2>1, KeysKnown, TallyOpened DEF SalesCounted
<1>11. Paid(PaidOf(invoices'), AllocatedIn(payments))
  <2>1. /\ DOMAIN PaidOf(invoices') = DOMAIN PaidOf(invoices) \cup {k} /\ k \notin DOMAIN PaidOf(invoices)
        /\ \A j \in DOMAIN PaidOf(invoices) : PaidOf(invoices')[j] = PaidOf(invoices)[j]
        /\ PaidOf(invoices')[k] = 0
    BY <1>2, <1>9 DEF PaidOf
  <2>2. IsFiniteSet(DOMAIN AllocatedIn(payments))
    BY <1>0, TablesFinite DEF AllocatedIn
  <2>3. QED
    BY <2>1, <2>2, KeysKnown, PaidOpened DEF SalesCounted
<1>12. QED
  BY <1>2, <1>5, <1>7, <1>10, <1>11 DEF SalesCounted

\* issue_invoice changes no counter.
LEMMA IssueInvoiceCounted ==
  ASSUME Tables, SalesCounted, IssueInvoice
  PROVE  SalesCounted'
<1>0. invoices \in Seq(InvoiceRow)
  BY TypedRows DEF Tables
<1>1. PICK i \in DOMAIN invoices, doc \in InvoiceRow : \E rows :
            /\ IssueInvoiceChange(i, doc, rows)
            /\ UNCHANGED <<quotations, orders, shipments, payments, notes, onHand, costPrice, returns>>
  BY IssueInvoiceSummary
<1>2. /\ invoices' = [invoices EXCEPT ![i] = doc] /\ doc.order = invoices[i].order
      /\ doc.qty = invoices[i].qty /\ doc.credited = invoices[i].credited /\ doc.paid = invoices[i].paid
      /\ orders' = orders /\ shipments' = shipments /\ payments' = payments /\ notes' = notes
  BY <1>1 DEF IssueInvoiceChange
<1>3. /\ OrderKey(invoices') = OrderKey(invoices) /\ QtyIn(invoices') = QtyIn(invoices)
      /\ PaidOf(invoices') = PaidOf(invoices) /\ CreditedOf(invoices') = CreditedOf(invoices)
  <2>1. /\ DOMAIN invoices' = DOMAIN invoices /\ invoices'[i] = doc
        /\ \A j \in DOMAIN invoices : j # i => invoices'[j] = invoices[j]
    BY <1>0, <1>2, Replaced
  <2>2. \A j \in DOMAIN invoices : /\ SameDocument(invoices[j], invoices'[j])
                                   /\ SamePaid(invoices[j], invoices'[j])
                                   /\ SameCredited(invoices[j], invoices'[j])
    BY <1>2, <2>1 DEF SameDocument, SamePaid, SameCredited
  <2>3. QED
    BY <2>1, <2>2, DocumentKept, PaidKept, CreditedKept
<1>4. QED
  BY <1>2, <1>3 DEF SalesCounted

\* issue_credit_note counts what it credits.
LEMMA CreditNoteCounted ==
  ASSUME Tables, SalesCounted, IssueCreditNote
  PROVE  SalesCounted'
<1>0. TypeOK /\ invoices \in Seq(InvoiceRow) /\ notes \in Seq(CreditNoteRow)
  BY TypedRows DEF Tables
<1>1. PICK i \in DOMAIN invoices, doc \in InvoiceRow, note \in CreditNoteRow : \E rows :
            /\ CreditNoteChange(i, note.qty, note.into, doc, note, rows)
            /\ note.qty \in PerProduct(Nat \ {0})
            /\ UNCHANGED <<quotations, orders, shipments, payments, costPrice, returns>>
  BY CreditNoteSummary
<1>2. /\ invoices' = [invoices EXCEPT ![i] = doc] /\ doc.order = invoices[i].order
      /\ doc.qty = invoices[i].qty /\ doc.paid = invoices[i].paid
      /\ orders' = orders /\ shipments' = shipments /\ payments' = payments
      /\ note.invoice = i /\ notes' = Append(notes, note) /\ note.qty \in PerProduct(Nat \ {0})
      /\ DOMAIN doc.credited = DOMAIN invoices[i].credited
      /\ \A p \in DOMAIN doc.credited : doc.credited[p] = invoices[i].credited[p] + On(note.qty, p)
  BY <1>1 DEF CreditNoteChange
<1>3. /\ OrderKey(invoices') = OrderKey(invoices) /\ QtyIn(invoices') = QtyIn(invoices)
      /\ PaidOf(invoices') = PaidOf(invoices)
  <2>1. /\ DOMAIN invoices' = DOMAIN invoices /\ invoices'[i] = doc
        /\ \A j \in DOMAIN invoices : j # i => invoices'[j] = invoices[j]
    BY <1>0, <1>2, Replaced
  <2>2. \A j \in DOMAIN invoices : /\ SameDocument(invoices[j], invoices'[j])
                                   /\ SamePaid(invoices[j], invoices'[j])
    BY <1>2, <2>1 DEF SameDocument, SamePaid
  <2>3. QED
    BY <2>1, <2>2, DocumentKept, PaidKept
<1>4. Adds(CreditedOf(invoices), CreditedOf(invoices'), i, note.qty)
  <2>1. /\ DOMAIN invoices' = DOMAIN invoices /\ invoices'[i] = doc
        /\ \A j \in DOMAIN invoices : j # i => invoices'[j] = invoices[j]
    BY <1>0, <1>2, Replaced
  <2>2. \A j \in DOMAIN invoices : \A p \in DOMAIN invoices[j].credited : invoices[j].credited[p] \in Nat
    BY <1>0, Rows, OnProducts DEF InvoiceRow
  <2> DEFINE c == CreditedOf(invoices)
             d == CreditedOf(invoices')
  <2>3. /\ DOMAIN d = DOMAIN c /\ DOMAIN d[i] = DOMAIN c[i]
        /\ \A j \in DOMAIN c : j # i => d[j] = c[j]
        /\ \A p \in DOMAIN c[i] : d[i][p] = c[i][p] + On(note.qty, p)
    BY <1>2, <2>1 DEF CreditedOf
  <2>4. \A j \in DOMAIN c : \A p \in DOMAIN c[j] : c[j][p] \in Int
    BY <2>2 DEF CreditedOf
  <2> HIDE DEF c, d
  <2>5. Adds(c, d, i, note.qty)
    BY <2>3, <2>4, CountersAdd
  <2>6. QED
    BY <2>5 DEF c, d
<1>5. Tally(CreditedOf(invoices'), InvoiceKey(notes'), QtyIn(notes'))
  <2>1. \A j \in DOMAIN notes : Countable(notes[j].qty)
    BY <1>0, QtyRows
  <2>2. Countable(note.qty)
    BY <1>2, OnProducts DEF On, Countable
  <2>3. Tally(CreditedOf(invoices), InvoiceKey(notes), QtyIn(notes))
    BY DEF SalesCounted
  <2>4. QED
    BY <1>0, <1>2, <1>4, <2>1, <2>2, <2>3, TallyNote
<1>6. QED
  BY <1>2, <1>3, <1>5 DEF SalesCounted

\* What a payment does to the tables of the documents it settles.
LEMMA SettledTables ==
  ASSUME NEW pay, NEW docs, NEW news, Settles(pay, docs, news)
  PROVE  /\ OrderKey(news) = OrderKey(docs) /\ QtyIn(news) = QtyIn(docs)
         /\ (\A i \in DOMAIN docs : news[i].credited = docs[i].credited)
                => CreditedOf(news) = CreditedOf(docs)
         /\ DOMAIN PaidOf(news) = DOMAIN PaidOf(docs) /\ Countable(pay.allocated)
         /\ (\A i \in DOMAIN docs : docs[i].paid \in Int)
                => \A i \in DOMAIN PaidOf(docs) : PaidOf(news)[i] = PaidOf(docs)[i] + On(pay.allocated, i)
<1>1. /\ DOMAIN news = DOMAIN docs /\ DOMAIN pay.allocated \subseteq DOMAIN docs
      /\ \A i \in DOMAIN pay.allocated : pay.allocated[i] \in Nat
      /\ \A i \in DOMAIN docs \ DOMAIN pay.allocated : news[i] = docs[i]
  BY DEF Settles
<1>2. \A i \in DOMAIN docs : news[i].order = docs[i].order /\ news[i].qty = docs[i].qty
  BY DEF Settles, PaidMore
<1>3. OrderKey(news) = OrderKey(docs) /\ QtyIn(news) = QtyIn(docs)
  BY <1>1, <1>2 DEF OrderKey, QtyIn
<1>4. (\A i \in DOMAIN docs : news[i].credited = docs[i].credited) => CreditedOf(news) = CreditedOf(docs)
  BY <1>1 DEF CreditedOf
<1>5. DOMAIN PaidOf(news) = DOMAIN PaidOf(docs) /\ Countable(pay.allocated)
  BY <1>1 DEF PaidOf, Countable, On
<1>6. ASSUME \A i \in DOMAIN docs : docs[i].paid \in Int, NEW i \in DOMAIN docs
      PROVE  PaidOf(news)[i] = PaidOf(docs)[i] + On(pay.allocated, i)
  <2>1. PaidOf(news)[i] = news[i].paid /\ PaidOf(docs)[i] = docs[i].paid
    BY <1>1 DEF PaidOf
  <2>2. CASE i \in DOMAIN pay.allocated
    <3>1. news[i].paid = docs[i].paid + pay.allocated[i]
      BY <2>2 DEF Settles, PaidMore
    <3>2. QED
      BY <2>1, <2>2, <3>1 DEF On
  <2>3. CASE i \notin DOMAIN pay.allocated
    BY <1>1, <1>6, <2>1, <2>3 DEF On
  <2>4. QED
    BY <2>2, <2>3
<1>7. DOMAIN PaidOf(docs) = DOMAIN docs
  BY DEF PaidOf
<1>8. QED
  BY <1>3, <1>4, <1>5, <1>6, <1>7

\* record_payment counts what it allocates.
LEMMA RecordPaymentCounted ==
  ASSUME Tables, SalesCounted, RecordPayment
  PROVE  SalesCounted'
<1>0. TypeOK /\ payments \in Seq(PaymentRow(Customer))
  BY TypedRows DEF Tables
<1>1. PICK pay \in PaymentRow(Customer) : PaymentChange(pay)
  BY RecordPaymentSummary
<1>2. /\ payments' = Append(payments, pay) /\ Settles(pay, invoices, invoices')
      /\ \A i \in DOMAIN invoices : invoices'[i].credited = invoices[i].credited
      /\ orders' = orders /\ shipments' = shipments /\ notes' = notes
  BY <1>1 DEF PaymentChange
<1>3. \A i \in DOMAIN invoices : invoices[i].paid \in Int
  BY <1>0, Rows DEF InvoiceRow
<1>4. /\ OrderKey(invoices') = OrderKey(invoices) /\ QtyIn(invoices') = QtyIn(invoices)
      /\ CreditedOf(invoices') = CreditedOf(invoices)
      /\ DOMAIN PaidOf(invoices') = DOMAIN PaidOf(invoices) /\ Countable(pay.allocated)
      /\ \A i \in DOMAIN PaidOf(invoices) :
            PaidOf(invoices')[i] = PaidOf(invoices)[i] + On(pay.allocated, i)
  BY <1>2, <1>3, SettledTables
<1>5. Lengthens(AllocatedIn(payments), AllocatedIn(payments'), Len(payments) + 1, pay.allocated)
  BY <1>0, <1>2, DocumentAdded
<1>6. /\ IsFiniteSet(DOMAIN AllocatedIn(payments))
      /\ \A j \in DOMAIN AllocatedIn(payments) : Countable(AllocatedIn(payments)[j])
  BY <1>0, TablesFinite, QtyRows DEF AllocatedIn
<1>7. Paid(PaidOf(invoices'), AllocatedIn(payments'))
  BY <1>4, <1>5, <1>6, PaidAdded DEF SalesCounted
<1>8. QED
  BY <1>2, <1>4, <1>7 DEF SalesCounted

\* Every sales request keeps the counters.
LEMMA SalesCountedStep ==
  ASSUME Tables, SalesCounted, SalesStep
  PROVE  SalesCounted'
<1>1. CASE CreateQuotation \/ SetQuotationStatus
  <2>1. orders' = orders /\ shipments' = shipments /\ invoices' = invoices /\ payments' = payments
        /\ notes' = notes
    BY <1>1, SalesFrames
  <2>2. QED
    BY <2>1 DEF SalesCounted
<1>2. QED
  BY <1>1, OpenOrderCounted, OrderStatusCounted, FulfilCounted, CreateInvoiceCounted,
     IssueInvoiceCounted, CreditNoteCounted, RecordPaymentCounted DEF SalesStep

\* A new purchase order counts nothing.
LEMMA OpenPurchaseOrderCounted ==
  ASSUME Tables, PurchasesCounted, CreatePurchaseOrder
  PROVE  PurchasesCounted'
<1>0. purchaseOrders \in Seq(PurchaseOrderRow)
  BY TypedRows DEF Tables
<1>1. PICK s \in Supplier, w \in Warehouse, b \in PurchaseBasket : create_purchase_order(s, w, b)
  BY DEF CreatePurchaseOrder
<1>2. PICK new : new = NewPurchaseOrder(s, w, b)
  OBVIOUS
<1>3. /\ new \in PurchaseOrderRow
      /\ \A p \in DOMAIN new.lines : new.lines[p].received = 0
      /\ \A p \in DOMAIN new.lines : new.lines[p].billed = 0
  BY <1>2, NewPurchaseOrderType
<1>4. /\ purchaseOrders' = Append(purchaseOrders, new)
      /\ UNCHANGED <<goodsReceipts, bills, supplierPayments>>
  BY <1>1, <1>2 DEF create_purchase_order
<1>5. /\ Opens(ReceivedOf(purchaseOrders), ReceivedOf(purchaseOrders'), Len(purchaseOrders) + 1)
      /\ Opens(BilledOf(purchaseOrders), BilledOf(purchaseOrders'), Len(purchaseOrders) + 1)
  BY <1>0, <1>3, <1>4, ReceivedOpens, BilledOpens
<1>6. Tally(ReceivedOf(purchaseOrders'), OrderKey(goodsReceipts), QtyIn(goodsReceipts))
  BY <1>5, KeysKnown, TallyOpened DEF PurchasesCounted
<1>7. Tally(BilledOf(purchaseOrders'), OrderKey(bills), QtyIn(bills))
  BY <1>5, KeysKnown, TallyOpened DEF PurchasesCounted
<1>8. QED
  BY <1>4, <1>6, <1>7 DEF PurchasesCounted

\* confirm_purchase_order and cancel_purchase_order change no counter.
LEMMA PurchaseStatusCounted ==
  ASSUME Tables, PurchasesCounted, ConfirmPurchaseOrder \/ CancelPurchaseOrder
  PROVE  PurchasesCounted'
<1>0. TypeOK /\ purchaseOrders \in Seq(PurchaseOrderRow)
  BY TypedRows DEF Tables
<1>1. PICK i \in DOMAIN purchaseOrders : confirm_purchase_order(i) \/ cancel_purchase_order(i)
  BY DEF ConfirmPurchaseOrder, CancelPurchaseOrder
<1>2. PICK st \in {"CONFIRMED", "CANCELLED"} :
        \E row \in PurchaseOrderRow : PurchaseStatusChange(i, row, st)
  BY <1>0, <1>1, PurchaseStatusEffect
<1>3. PICK row \in PurchaseOrderRow : PurchaseStatusChange(i, row, st)
  BY <1>2
<1>4. /\ purchaseOrders' = [purchaseOrders EXCEPT ![i] = row] /\ row.lines = purchaseOrders[i].lines
      /\ goodsReceipts' = goodsReceipts /\ bills' = bills /\ supplierPayments' = supplierPayments
  BY <1>3 DEF PurchaseStatusChange
<1>5. /\ ReceivedOf(purchaseOrders') = ReceivedOf(purchaseOrders)
      /\ BilledOf(purchaseOrders') = BilledOf(purchaseOrders)
  <2>1. /\ SameReceived(purchaseOrders[i].lines, row.lines)
        /\ SameBilled(purchaseOrders[i].lines, row.lines)
    BY <1>4 DEF SameReceived, SameBilled
  <2>2. QED
    BY <1>0, <1>4, <2>1, ReceivedKept, BilledKept
<1>6. QED
  BY <1>4, <1>5 DEF PurchasesCounted

\* receive counts what it receives.
LEMMA ReceiveCounted ==
  ASSUME Tables, PurchasesCounted, Receive
  PROVE  PurchasesCounted'
<1>0. TypeOK
  BY DEF Tables
<1>1. PICK i \in DOMAIN purchaseOrders, row \in PurchaseOrderRow, receipt \in GoodsReceiptRow :
            /\ ReceiptChange(i, receipt.qty, row, receipt)
            /\ receipt.qty \in PerProduct(Nat \ {0})
            /\ UNCHANGED <<bills, supplierPayments, sales, register, returns>>
  BY ReceiveSummary
<1>2. /\ purchaseOrders' = [purchaseOrders EXCEPT ![i] = row]
      /\ Received(purchaseOrders[i].lines, row.lines, receipt.qty)
      /\ receipt.order = i /\ goodsReceipts' = Append(goodsReceipts, receipt)
      /\ bills' = bills /\ supplierPayments' = supplierPayments
      /\ receipt.qty \in PerProduct(Nat \ {0})
  BY <1>1 DEF ReceiptChange
<1>3. purchaseOrders \in Seq(PurchaseOrderRow) /\ goodsReceipts \in Seq(GoodsReceiptRow)
  BY <1>0, TypedRows
<1>4. SameBilled(purchaseOrders[i].lines, row.lines)
  BY <1>2 DEF Received, SameTerms, SameBilled
<1>5. BilledOf(purchaseOrders') = BilledOf(purchaseOrders)
  BY <1>2, <1>3, <1>4, BilledKept
<1>6. Adds(ReceivedOf(purchaseOrders), ReceivedOf(purchaseOrders'), i, receipt.qty)
  <2>1. \A j \in DOMAIN purchaseOrders : \A p \in DOMAIN purchaseOrders[j].lines :
            purchaseOrders[j].lines[p].received \in Nat
    BY <1>0, PurchaseLines
  <2>2. QED
    BY <1>2, <1>3, <2>1, ReceivedAdds
<1>7. Tally(ReceivedOf(purchaseOrders'), OrderKey(goodsReceipts'), QtyIn(goodsReceipts'))
  <2>1. \A j \in DOMAIN goodsReceipts : Countable(goodsReceipts[j].qty)
    BY <1>0, QtyRows
  <2>2. Countable(receipt.qty)
    BY <1>2, OnProducts DEF On, Countable
  <2>3. Tally(ReceivedOf(purchaseOrders), OrderKey(goodsReceipts), QtyIn(goodsReceipts))
    BY DEF PurchasesCounted
  <2>4. QED
    BY <1>2, <1>3, <1>6, <2>1, <2>2, <2>3, TallyDocument
<1>8. QED
  BY <1>2, <1>5, <1>7 DEF PurchasesCounted

\* create_bill counts what it bills.
LEMMA CreateBillCounted ==
  ASSUME Tables, PurchasesCounted, CreateBill
  PROVE  PurchasesCounted'
<1>0. TypeOK
  BY DEF Tables
<1>1. PICK i \in DOMAIN purchaseOrders, d \in Date, row \in PurchaseOrderRow, doc \in SupplierBillRow :
            /\ BillChange(i, d, row, doc)
            /\ UNCHANGED <<goodsReceipts, supplierPayments, sales, books>>
  BY CreateBillSummary
<1>2. /\ purchaseOrders' = [purchaseOrders EXCEPT ![i] = row]
      /\ Billed(purchaseOrders[i].lines, row.lines, doc.qty)
      /\ doc.order = i /\ bills' = Append(bills, doc) /\ doc.paid = 0
      /\ goodsReceipts' = goodsReceipts /\ supplierPayments' = supplierPayments
      /\ doc.qty \in PerProduct(Nat \ {0})
  BY <1>1 DEF BillChange
<1>3. purchaseOrders \in Seq(PurchaseOrderRow) /\ bills \in Seq(SupplierBillRow)
  BY <1>0, TypedRows
<1>4. SameReceived(purchaseOrders[i].lines, row.lines)
  BY <1>2 DEF Billed, SameTerms, SameReceived
<1>5. ReceivedOf(purchaseOrders') = ReceivedOf(purchaseOrders)
  BY <1>2, <1>3, <1>4, ReceivedKept
<1>6. Adds(BilledOf(purchaseOrders), BilledOf(purchaseOrders'), i, doc.qty)
  <2>1. \A j \in DOMAIN purchaseOrders : \A p \in DOMAIN purchaseOrders[j].lines :
            purchaseOrders[j].lines[p].billed \in Nat
    BY <1>0, PurchaseLines
  <2>2. QED
    BY <1>2, <1>3, <2>1, BilledAdds
<1>7. Tally(BilledOf(purchaseOrders'), OrderKey(bills'), QtyIn(bills'))
  <2>1. \A j \in DOMAIN bills : Countable(bills[j].qty)
    BY <1>0, QtyRows
  <2>2. Countable(doc.qty)
    BY <1>2, OnProducts DEF On, Countable
  <2>3. Tally(BilledOf(purchaseOrders), OrderKey(bills), QtyIn(bills))
    BY DEF PurchasesCounted
  <2>4. QED
    BY <1>2, <1>3, <1>6, <2>1, <2>2, <2>3, TallyDocument
<1>8. PICK k : k = Len(bills) + 1
  OBVIOUS
<1>9. /\ k \notin DOMAIN bills /\ DOMAIN bills' = DOMAIN bills \cup {k} /\ bills'[k] = doc
      /\ \A j \in DOMAIN bills : bills'[j] = bills[j]
  BY <1>2, <1>3, <1>8, Appended
<1>10. Paid(PaidOf(bills'), AllocatedIn(supplierPayments))
  <2>1. /\ DOMAIN PaidOf(bills') = DOMAIN PaidOf(bills) \cup {k} /\ k \notin DOMAIN PaidOf(bills)
        /\ \A j \in DOMAIN PaidOf(bills) : PaidOf(bills')[j] = PaidOf(bills)[j]
        /\ PaidOf(bills')[k] = 0
    BY <1>2, <1>9 DEF PaidOf
  <2>2. IsFiniteSet(DOMAIN AllocatedIn(supplierPayments))
    BY <1>0, TablesFinite DEF AllocatedIn
  <2>3. QED
    BY <2>1, <2>2, KeysKnown, PaidOpened DEF PurchasesCounted
<1>11. QED
  BY <1>2, <1>5, <1>7, <1>10 DEF PurchasesCounted

\* issue_bill changes no counter.
LEMMA IssueBillCounted ==
  ASSUME Tables, PurchasesCounted, IssueBill
  PROVE  PurchasesCounted'
<1>0. bills \in Seq(SupplierBillRow)
  BY TypedRows DEF Tables
<1>1. PICK i \in DOMAIN bills, doc \in SupplierBillRow : \E rows :
            /\ IssueBillChange(i, doc, rows)
            /\ UNCHANGED <<purchaseOrders, goodsReceipts, supplierPayments, sales, onHand, costPrice, returns>>
  BY IssueBillSummary
<1>2. /\ bills' = [bills EXCEPT ![i] = doc] /\ doc.order = bills[i].order
      /\ doc.qty = bills[i].qty /\ doc.paid = bills[i].paid
      /\ purchaseOrders' = purchaseOrders /\ goodsReceipts' = goodsReceipts
      /\ supplierPayments' = supplierPayments
  BY <1>1 DEF IssueBillChange
<1>3. /\ OrderKey(bills') = OrderKey(bills) /\ QtyIn(bills') = QtyIn(bills)
      /\ PaidOf(bills') = PaidOf(bills)
  <2>1. /\ DOMAIN bills' = DOMAIN bills /\ bills'[i] = doc
        /\ \A j \in DOMAIN bills : j # i => bills'[j] = bills[j]
    BY <1>0, <1>2, Replaced
  <2>2. \A j \in DOMAIN bills : SameDocument(bills[j], bills'[j]) /\ SamePaid(bills[j], bills'[j])
    BY <1>2, <2>1 DEF SameDocument, SamePaid
  <2>3. QED
    BY <2>1, <2>2, DocumentKept, PaidKept
<1>4. QED
  BY <1>2, <1>3 DEF PurchasesCounted

\* pay_supplier counts what it allocates.
LEMMA PaySupplierCounted ==
  ASSUME Tables, PurchasesCounted, PaySupplier
  PROVE  PurchasesCounted'
<1>0. TypeOK /\ supplierPayments \in Seq(PaymentRow(Supplier))
  BY TypedRows DEF Tables
<1>1. PICK pay \in PaymentRow(Supplier) : SupplierPaymentChange(pay)
  BY PaySupplierSummary
<1>2. /\ supplierPayments' = Append(supplierPayments, pay) /\ Settles(pay, bills, bills')
      /\ purchaseOrders' = purchaseOrders /\ goodsReceipts' = goodsReceipts
  BY <1>1 DEF SupplierPaymentChange
<1>3. \A i \in DOMAIN bills : bills[i].paid \in Int
  BY <1>0, Rows DEF SupplierBillRow
<1>4. /\ OrderKey(bills') = OrderKey(bills) /\ QtyIn(bills') = QtyIn(bills)
      /\ DOMAIN PaidOf(bills') = DOMAIN PaidOf(bills) /\ Countable(pay.allocated)
      /\ \A i \in DOMAIN PaidOf(bills) : PaidOf(bills')[i] = PaidOf(bills)[i] + On(pay.allocated, i)
  BY <1>2, <1>3, SettledTables
<1>5. Lengthens(AllocatedIn(supplierPayments), AllocatedIn(supplierPayments'), Len(supplierPayments) + 1,
              pay.allocated)
  BY <1>0, <1>2, DocumentAdded
<1>6. /\ IsFiniteSet(DOMAIN AllocatedIn(supplierPayments))
      /\ \A j \in DOMAIN AllocatedIn(supplierPayments) : Countable(AllocatedIn(supplierPayments)[j])
  BY <1>0, TablesFinite, QtyRows DEF AllocatedIn
<1>7. Paid(PaidOf(bills'), AllocatedIn(supplierPayments'))
  BY <1>4, <1>5, <1>6, PaidAdded DEF PurchasesCounted
<1>8. QED
  BY <1>2, <1>4, <1>7 DEF PurchasesCounted

\* Every purchasing request keeps the counters.
LEMMA PurchasesCountedStep ==
  ASSUME Tables, PurchasesCounted, PurchaseStep
  PROVE  PurchasesCounted'
BY OpenPurchaseOrderCounted, PurchaseStatusCounted, ReceiveCounted, CreateBillCounted,
   IssueBillCounted, PaySupplierCounted DEF PurchaseStep

\* Every step keeps the counters.
LEMMA CountedStep ==
  ASSUME Tables, SalesCounted, PurchasesCounted, [Next]_vars
  PROVE  SalesCounted' /\ PurchasesCounted'
<1>1. ASSUME UNCHANGED sales PROVE SalesCounted'
  <2>1. orders' = orders /\ shipments' = shipments /\ invoices' = invoices /\ payments' = payments
        /\ notes' = notes
    BY <1>1 DEF sales
  <2>2. QED
    BY <2>1 DEF SalesCounted
<1>2. ASSUME UNCHANGED purchases PROVE PurchasesCounted'
  <2>1. purchaseOrders' = purchaseOrders /\ goodsReceipts' = goodsReceipts /\ bills' = bills
        /\ supplierPayments' = supplierPayments
    BY <1>2 DEF purchases
  <2>2. QED
    BY <2>1 DEF PurchasesCounted
<1>3. CASE PrepareReturn \/ FileReturn \/ UNCHANGED vars
  BY <1>1, <1>2, <1>3 DEF PrepareReturn, FileReturn, vars
<1>4. QED
  BY <1>1, <1>2, <1>3, Steps, SalesCountedStep, PurchasesCountedStep

\* At the start there is nothing to count.
LEMMA CountedInit ==
  ASSUME Init
  PROVE  SalesCounted /\ PurchasesCounted
<1>1. /\ orders = <<>> /\ shipments = <<>> /\ invoices = <<>> /\ payments = <<>> /\ notes = <<>>
      /\ purchaseOrders = <<>> /\ goodsReceipts = <<>> /\ bills = <<>> /\ supplierPayments = <<>>
  BY DEF Init, SalesInit, PurchasingInit
<1>2. QED
  BY <1>1 DEF SalesCounted, PurchasesCounted, Tally, Paid, FulfilledOf, InvoicedOf, CreditedOf, PaidOf,
     ReceivedOf, BilledOf

(* The counters of every line and document are the sums of what was made   *)
(* from it.                                                                *)

THEOREM CountersAgree == Spec => []CountersMatchDocuments
<1>1. Init => SalesCounted /\ PurchasesCounted
  BY CountedInit
<1>2. Tables /\ SalesCounted /\ PurchasesCounted /\ [Next]_vars => SalesCounted' /\ PurchasesCounted'
  BY CountedStep
<1>3. Tables /\ SalesCounted /\ PurchasesCounted => CountersMatchDocuments
  BY CountedIs
<1>4. QED
  BY <1>1, <1>2, <1>3, TablesCorrect, PTL DEF Spec

-----------------------------------------------------------------------------
(* From quotation to order, and what a status says of the lines. *)

\* A converted quotation and its order name each other and agree.
Linked(qs, os) ==
    /\ \A i \in DOMAIN os : os[i].quotation # 0 =>
            os[i].quotation \in DOMAIN qs /\ qs[os[i].quotation].converted = i
    /\ \A i \in DOMAIN qs : qs[i].converted # 0 =>
            LET o == os[qs[i].converted]
            IN  /\ qs[i].converted \in DOMAIN os
                /\ o.quotation = i /\ o.customer = qs[i].customer
                /\ DOMAIN o.lines = DOMAIN qs[i].lines
                /\ \A p \in DOMAIN o.lines : o.lines[p].qty = qs[i].lines[p].qty

\* Cancelled orders shipped nothing, fulfilled ones everything.
StatusOfLines(o) ==
    /\ o.status = "CANCELLED" => \A p \in DOMAIN o.lines : o.lines[p].fulfilled = 0
    /\ o.status = "FULFILLED" <=> \A p \in DOMAIN o.lines : o.lines[p].fulfilled = o.lines[p].qty

NothingReceived(o) == o.status = "CANCELLED" => \A p \in DOMAIN o.lines : o.lines[p].received = 0

\* An order keeps what it was agreed on.
SameOrder(o, n) == n.customer = o.customer /\ n.quotation = o.quotation /\ SameTerms(o.lines, n.lines)

\* Orders that keep their terms stay linked.
LEMMA LinkedKept ==
  ASSUME NEW qs, NEW os, NEW ns, Linked(qs, os), DOMAIN ns = DOMAIN os,
         \A i \in DOMAIN os : SameOrder(os[i], ns[i])
  PROVE  Linked(qs, ns)
<1>1. ASSUME NEW i \in DOMAIN os, ns[i].quotation # 0
      PROVE  ns[i].quotation \in DOMAIN qs /\ qs[ns[i].quotation].converted = i
  BY <1>1 DEF Linked, SameOrder
<1>2. ASSUME NEW i \in DOMAIN qs, qs[i].converted # 0
      PROVE  /\ qs[i].converted \in DOMAIN ns
             /\ ns[qs[i].converted].quotation = i /\ ns[qs[i].converted].customer = qs[i].customer
             /\ DOMAIN ns[qs[i].converted].lines = DOMAIN qs[i].lines
             /\ \A p \in DOMAIN ns[qs[i].converted].lines :
                    ns[qs[i].converted].lines[p].qty = qs[i].lines[p].qty
  <2>1. PICK k : k = qs[i].converted
    OBVIOUS
  <2>2. /\ k \in DOMAIN os /\ os[k].quotation = i /\ os[k].customer = qs[i].customer
        /\ DOMAIN os[k].lines = DOMAIN qs[i].lines
        /\ \A p \in DOMAIN os[k].lines : os[k].lines[p].qty = qs[i].lines[p].qty
    BY <1>2, <2>1 DEF Linked
  <2>3. SameOrder(os[k], ns[k])
    BY <2>2
  <2>4. QED
    BY <2>1, <2>2, <2>3 DEF SameOrder, SameTerms
<1>3. QED
  BY <1>1, <1>2 DEF Linked

\* A quotation is added, or one changes its status.
SameQuotation(q, r) == r.customer = q.customer /\ r.lines = q.lines /\ r.converted = q.converted

\* Quotations that keep their order stay linked.
LEMMA LinkedQuotations ==
  ASSUME NEW qs, NEW os, NEW rs, Linked(qs, os), DOMAIN qs \subseteq DOMAIN rs,
         \A i \in DOMAIN qs : SameQuotation(qs[i], rs[i]),
         \A i \in DOMAIN rs \ DOMAIN qs : rs[i].converted = 0
  PROVE  Linked(rs, os)
<1>1. ASSUME NEW i \in DOMAIN os, os[i].quotation # 0
      PROVE  os[i].quotation \in DOMAIN rs /\ rs[os[i].quotation].converted = i
  <2>1. PICK q : q = os[i].quotation
    OBVIOUS
  <2>2. q \in DOMAIN qs /\ qs[q].converted = i
    BY <1>1, <2>1 DEF Linked
  <2>3. SameQuotation(qs[q], rs[q])
    BY <2>2
  <2>4. QED
    BY <2>1, <2>2, <2>3 DEF SameQuotation
<1>2. ASSUME NEW i \in DOMAIN rs, rs[i].converted # 0
      PROVE  /\ rs[i].converted \in DOMAIN os
             /\ os[rs[i].converted].quotation = i /\ os[rs[i].converted].customer = rs[i].customer
             /\ DOMAIN os[rs[i].converted].lines = DOMAIN rs[i].lines
             /\ \A p \in DOMAIN os[rs[i].converted].lines :
                    os[rs[i].converted].lines[p].qty = rs[i].lines[p].qty
  <2>1. i \in DOMAIN qs
    BY <1>2
  <2>2. SameQuotation(qs[i], rs[i])
    BY <2>1
  <2>3. QED
    BY <1>2, <2>1, <2>2 DEF Linked, SameQuotation
<1>3. QED
  BY <1>1, <1>2 DEF Linked

\* The order k is added.
Added(os, ns, k) ==
    /\ k \notin DOMAIN os /\ k # 0 /\ 0 \notin DOMAIN os
    /\ DOMAIN ns = DOMAIN os \cup {k} /\ \A j \in DOMAIN os : ns[j] = os[j]

\* Quotation i is converted to the order o, numbered k.
Converted(qs, rs, i, k, o) ==
    /\ i \in DOMAIN qs /\ qs[i].converted = 0 /\ o.quotation = i /\ o.customer = qs[i].customer
    /\ DOMAIN o.lines = DOMAIN qs[i].lines
    /\ \A p \in DOMAIN o.lines : o.lines[p].qty = qs[i].lines[p].qty
    /\ DOMAIN rs = DOMAIN qs /\ \A j \in DOMAIN qs \ {i} : rs[j] = qs[j]
    /\ rs[i].customer = qs[i].customer /\ rs[i].lines = qs[i].lines /\ rs[i].converted = k

\* A conversion links a quotation and its order.
LEMMA LinkedConverted ==
  ASSUME NEW qs, NEW os, NEW rs, NEW ns, NEW i, NEW k,
         Linked(qs, os), Added(os, ns, k), Converted(qs, rs, i, k, ns[k])
  PROVE  Linked(rs, ns)
<1> USE DEF Added, Converted
<1>1. ASSUME NEW j \in DOMAIN ns, ns[j].quotation # 0
      PROVE  ns[j].quotation \in DOMAIN rs /\ rs[ns[j].quotation].converted = j
  <2>1. CASE j = k
    BY <2>1
  <2>2. CASE j # k
    <3>1. j \in DOMAIN os /\ ns[j] = os[j]
      BY <2>2
    <3>2. PICK q : q = os[j].quotation
      OBVIOUS
    <3>3. q \in DOMAIN qs /\ qs[q].converted = j
      BY <1>1, <3>1, <3>2 DEF Linked
    <3>4. q # i
      BY <3>1, <3>3
    <3>5. QED
      BY <3>1, <3>2, <3>3, <3>4
  <2>3. QED
    BY <2>1, <2>2
<1>2. ASSUME NEW j \in DOMAIN rs, rs[j].converted # 0
      PROVE  /\ rs[j].converted \in DOMAIN ns
             /\ ns[rs[j].converted].quotation = j /\ ns[rs[j].converted].customer = rs[j].customer
             /\ DOMAIN ns[rs[j].converted].lines = DOMAIN rs[j].lines
             /\ \A p \in DOMAIN ns[rs[j].converted].lines :
                    ns[rs[j].converted].lines[p].qty = rs[j].lines[p].qty
  <2>1. CASE j = i
    BY <2>1
  <2>2. CASE j # i
    <3>1. j \in DOMAIN qs /\ rs[j] = qs[j]
      BY <2>2
    <3>2. PICK c : c = qs[j].converted
      OBVIOUS
    <3>3. /\ c \in DOMAIN os /\ os[c].quotation = j /\ os[c].customer = qs[j].customer
          /\ DOMAIN os[c].lines = DOMAIN qs[j].lines
          /\ \A p \in DOMAIN os[c].lines : os[c].lines[p].qty = qs[j].lines[p].qty
      BY <1>2, <3>1, <3>2 DEF Linked
    <3>4. ns[c] = os[c] /\ c \in DOMAIN ns
      BY <3>3
    <3>5. QED
      BY <3>1, <3>2, <3>3, <3>4
  <2>3. QED
    BY <2>1, <2>2
<1>3. QED
  BY <1>1, <1>2 DEF Linked

\* An order without a quotation links nothing.
LEMMA LinkedOrdered ==
  ASSUME NEW qs, NEW os, NEW ns, NEW k, Linked(qs, os), Added(os, ns, k), ns[k].quotation = 0
  PROVE  Linked(qs, ns)
<1> USE DEF Added
<1>1. ASSUME NEW j \in DOMAIN ns, ns[j].quotation # 0
      PROVE  ns[j].quotation \in DOMAIN qs /\ qs[ns[j].quotation].converted = j
  <2>1. j \in DOMAIN os /\ ns[j] = os[j]
    BY <1>1
  <2>2. QED
    BY <1>1, <2>1 DEF Linked
<1>2. ASSUME NEW j \in DOMAIN qs, qs[j].converted # 0
      PROVE  /\ qs[j].converted \in DOMAIN ns
             /\ ns[qs[j].converted].quotation = j /\ ns[qs[j].converted].customer = qs[j].customer
             /\ DOMAIN ns[qs[j].converted].lines = DOMAIN qs[j].lines
             /\ \A p \in DOMAIN ns[qs[j].converted].lines :
                    ns[qs[j].converted].lines[p].qty = qs[j].lines[p].qty
  <2>1. PICK c : c = qs[j].converted
    OBVIOUS
  <2>2. /\ c \in DOMAIN os /\ os[c].quotation = j /\ os[c].customer = qs[j].customer
        /\ DOMAIN os[c].lines = DOMAIN qs[j].lines
        /\ \A p \in DOMAIN os[c].lines : os[c].lines[p].qty = qs[j].lines[p].qty
    BY <1>2, <2>1 DEF Linked
  <2>3. ns[c] = os[c] /\ c \in DOMAIN ns
    BY <2>2
  <2>4. QED
    BY <2>1, <2>2, <2>3
<1>3. QED
  BY <1>1, <1>2 DEF Linked

\* The sales part of Traced, over the tables it speaks of.
SalesTraced ==
    /\ Linked(quotations, orders)
    /\ \A i \in DOMAIN orders : StatusOfLines(orders[i])
    /\ Covers(shipments, orders)

PurchasesTraced ==
    /\ \A i \in DOMAIN purchaseOrders : NothingReceived(purchaseOrders[i])
    /\ Covers(goodsReceipts, purchaseOrders)

\* Quotations change no order.
LEMMA QuotationTraced ==
  ASSUME Tables, SalesTraced, CreateQuotation \/ SetQuotationStatus
  PROVE  SalesTraced'
<1>0. TypeOK /\ quotations \in Seq(QuotationRow)
  BY TypedRows DEF Tables
<1>1. orders' = orders /\ shipments' = shipments
  BY SalesFrames
<1>2. /\ DOMAIN quotations \subseteq DOMAIN quotations'
      /\ \A i \in DOMAIN quotations : SameQuotation(quotations[i], quotations'[i])
      /\ \A i \in DOMAIN quotations' \ DOMAIN quotations : quotations'[i].converted = 0
  <2>1. CASE CreateQuotation
    <3>1. PICK c \in Customer, b \in SalesBasket : create_quotation(c, b)
      BY <2>1 DEF CreateQuotation
    <3>2. PICK row : row = [customer |-> c, status |-> "DRAFT", lines |-> b, converted |-> 0]
      OBVIOUS
    <3>3. row \in QuotationRow /\ row.converted = 0
      BY <3>2, SalesAssumption DEF QuotationRow, QuotationStatus
    <3>4. quotations' = Append(quotations, row)
      BY <3>1, <3>2 DEF create_quotation
    <3>5. /\ DOMAIN quotations' = DOMAIN quotations \cup {Len(quotations) + 1}
          /\ \A i \in DOMAIN quotations : quotations'[i] = quotations[i]
          /\ quotations'[Len(quotations) + 1] = row
      BY <1>0, <3>3, <3>4, Appended
    <3>6. QED
      BY <3>3, <3>5 DEF SameQuotation
  <2>2. CASE SetQuotationStatus
    <3>1. PICK i \in DOMAIN quotations, s \in {"SENT", "ACCEPTED", "REJECTED"} : set_quotation_status(i, s)
      BY <2>2 DEF SetQuotationStatus
    <3>2. PICK row : row = [quotations[i] EXCEPT !.status = s]
      OBVIOUS
    <3>3. s \in QuotationStatus
      BY DEF QuotationStatus
    <3>4. /\ row \in QuotationRow /\ [quotations EXCEPT ![i].status = s] = [quotations EXCEPT ![i] = row]
          /\ row.customer = quotations[i].customer
          /\ row.lines = quotations[i].lines /\ row.converted = quotations[i].converted
      BY <1>0, <3>2, <3>3, QuotationReplaced, Zenon
    <3>5. quotations' = [quotations EXCEPT ![i] = row]
      BY <3>1, <3>4 DEF set_quotation_status
    <3>6. /\ DOMAIN quotations' = DOMAIN quotations /\ quotations'[i] = row
          /\ \A j \in DOMAIN quotations : j # i => quotations'[j] = quotations[j]
      BY <1>0, <3>4, <3>5, Replaced
    <3>7. QED
      BY <3>4, <3>6 DEF SameQuotation
  <2>3. QED
    BY <2>1, <2>2
<1>3. Linked(quotations', orders)
  BY <1>2, LinkedQuotations DEF SalesTraced
<1>4. QED
  BY <1>1, <1>3 DEF SalesTraced

\* A new order is a draft with something to ship.
LEMMA NewOrderStatus ==
  ASSUME NEW new \in SalesOrderRow, new.status = "DRAFT",
         \A p \in DOMAIN new.lines : new.lines[p].fulfilled = 0,
         \A p \in DOMAIN new.lines : SalesOrderLineChecks(new.lines[p])
  PROVE  StatusOfLines(new)
<1>1. new.lines \in PerProduct(OrderLineRow)
  BY DEF SalesOrderRow
<1>2. PICK p \in DOMAIN new.lines : TRUE
  BY <1>1, OnProducts
<1>3. new.lines[p].qty > 0 /\ new.lines[p].qty \in Nat /\ new.lines[p].fulfilled = 0
  <2>1. new.lines[p] \in OrderLineRow
    BY <1>1, <1>2, OnProducts
  <2>2. SalesOrderLineChecks(new.lines[p]) /\ new.lines[p].fulfilled = 0
    BY <1>2
  <2>3. QED
    BY <2>1, <2>2 DEF SalesOrderLineChecks, OrderLineRow
<1>4. new.lines[p].fulfilled # new.lines[p].qty
  BY <1>3
<1>5. new.status # "CANCELLED" /\ new.status # "FULFILLED"
  OBVIOUS
<1>6. ~ \A q \in DOMAIN new.lines : new.lines[q].fulfilled = new.lines[q].qty
  BY <1>2, <1>4
<1>7. QED
  BY <1>5, <1>6 DEF StatusOfLines

\* A new order is linked to its quotation and has shipped nothing.
LEMMA OpenOrderTraced ==
  ASSUME Tables, SalesTraced, ConvertQuotation \/ CreateOrder, SalesChecks'
  PROVE  SalesTraced'
<1>0. /\ TypeOK /\ quotations \in Seq(QuotationRow) /\ orders \in Seq(SalesOrderRow)
      /\ shipments' = shipments
  BY TypedRows, SalesFrames DEF Tables
<1>1. PICK k : k = Len(orders) + 1
  OBVIOUS
<1>2. ASSUME NEW new \in SalesOrderRow, orders' = Append(orders, new), new.status = "DRAFT",
             \A p \in DOMAIN new.lines : new.lines[p].fulfilled = 0,
             Linked(quotations', orders')
      PROVE  SalesTraced'
  <2>1. /\ DOMAIN orders' = DOMAIN orders \cup {k} /\ orders'[k] = new
        /\ \A j \in DOMAIN orders : orders'[j] = orders[j]
    BY <1>0, <1>1, <1>2, Appended
  <2>2. \A p \in DOMAIN new.lines : SalesOrderLineChecks(new.lines[p])
    BY <2>1 DEF SalesChecks
  <2>3. StatusOfLines(new)
    BY <1>2, <2>2, NewOrderStatus
  <2>4. \A i \in DOMAIN orders' : StatusOfLines(orders'[i])
    BY <2>1, <2>3 DEF SalesTraced
  <2>5. Covers(shipments, orders')
    BY <1>0, <1>2, KeptAppended, CoversKept DEF SalesTraced
  <2>6. QED
    BY <1>0, <1>2, <2>4, <2>5 DEF SalesTraced
<1>3. CASE ConvertQuotation
  <2>1. PICK i \in DOMAIN quotations, w \in Warehouse : convert_quotation(i, w)
    BY <1>3 DEF ConvertQuotation
  <2>2. PICK row \in QuotationRow, new \in SalesOrderRow : ConvertChange(i, row, new)
    BY <1>0, <2>1, ConvertEffect
  <2>3. /\ quotations[i].converted = 0 /\ new.customer = quotations[i].customer /\ new.quotation = i
        /\ new.status = "DRAFT" /\ DOMAIN new.lines = DOMAIN quotations[i].lines
        /\ \A p \in DOMAIN new.lines : new.lines[p].qty = quotations[i].lines[p].qty
        /\ \A p \in DOMAIN new.lines : new.lines[p].fulfilled = 0
        /\ orders' = Append(orders, new) /\ quotations' = [quotations EXCEPT ![i] = row]
        /\ row.customer = quotations[i].customer /\ row.lines = quotations[i].lines
        /\ row.converted = k
    BY <1>1, <2>2 DEF ConvertChange
  <2>4. /\ DOMAIN orders' = DOMAIN orders \cup {k} /\ orders'[k] = new /\ k \notin DOMAIN orders
        /\ \A j \in DOMAIN orders : orders'[j] = orders[j]
        /\ k # 0 /\ 0 \notin DOMAIN orders
    BY <1>0, <1>1, <2>3, Appended
  <2>5. /\ DOMAIN quotations' = DOMAIN quotations /\ quotations'[i] = row
        /\ \A j \in DOMAIN quotations \ {i} : quotations'[j] = quotations[j]
    BY <1>0, <2>3, Replaced
  <2>6. Linked(quotations', orders')
    <3>1. Linked(quotations, orders)
      BY DEF SalesTraced
    <3>2. /\ orders'[k].quotation = i /\ orders'[k].customer = quotations[i].customer
          /\ DOMAIN orders'[k].lines = DOMAIN quotations[i].lines
          /\ \A p \in DOMAIN orders'[k].lines : orders'[k].lines[p].qty = quotations[i].lines[p].qty
          /\ quotations'[i].customer = quotations[i].customer
          /\ quotations'[i].lines = quotations[i].lines /\ quotations'[i].converted = k
      BY <2>3, <2>4, <2>5
    <3>3. Added(orders, orders', k)
      BY <2>4 DEF Added
    <3>4. Converted(quotations, quotations', i, k, orders'[k])
      BY <2>3, <2>5, <3>2 DEF Converted
    <3>5. QED
      BY <3>1, <3>3, <3>4, LinkedConverted
  <2>7. QED
    BY <1>2, <2>3, <2>6
<1>4. CASE CreateOrder
  <2>1. PICK c \in Customer, w \in Warehouse, b \in SalesBasket : create_order(c, w, b)
    BY <1>4 DEF CreateOrder
  <2>2. PICK new : new = NewOrder(c, w, b, 0)
    OBVIOUS
  <2>3. new \in SalesOrderRow /\ \A p \in DOMAIN new.lines : new.lines[p].fulfilled = 0
    BY <2>2, NewOrderType, SalesAssumption
  <2>4. orders' = Append(orders, new) /\ quotations' = quotations
    BY <2>1, <2>2 DEF create_order
  <2>5. new.quotation = 0 /\ new.status = "DRAFT"
    BY <2>2 DEF NewOrder
  <2>6. /\ DOMAIN orders' = DOMAIN orders \cup {k} /\ orders'[k] = new /\ k \notin DOMAIN orders
        /\ \A j \in DOMAIN orders : orders'[j] = orders[j]
        /\ k # 0 /\ 0 \notin DOMAIN orders
    BY <1>0, <1>1, <2>3, <2>4, Appended
  <2>7. Linked(quotations', orders')
    <3>1. Linked(quotations, orders) /\ orders'[k].quotation = 0
      BY <2>5, <2>6 DEF SalesTraced
    <3>2. Added(orders, orders', k)
      BY <2>6 DEF Added
    <3>3. QED
      BY <2>4, <3>1, <3>2, LinkedOrdered
  <2>8. QED
    BY <1>2, <2>3, <2>4, <2>5, <2>7
<1>5. QED
  BY <1>3, <1>4

\* Order i becomes row, which keeps its terms; ships are the documents of it.
LEMMA OrderMovedOn ==
  ASSUME Tables, SalesTraced, NEW i \in DOMAIN orders, NEW row \in SalesOrderRow,
         orders' = [orders EXCEPT ![i] = row], SameOrder(orders[i], row), StatusOfLines(row),
         UNCHANGED quotations
  PROVE  /\ Linked(quotations', orders')
         /\ \A j \in DOMAIN orders' : StatusOfLines(orders'[j])
         /\ Covers(shipments, orders')
<1>0. orders \in Seq(SalesOrderRow)
  BY TypedRows DEF Tables
<1>1. /\ DOMAIN orders' = DOMAIN orders /\ orders'[i] = row
      /\ \A j \in DOMAIN orders : j # i => orders'[j] = orders[j]
  BY <1>0, Replaced
<1>2. \A j \in DOMAIN orders : SameOrder(orders[j], orders'[j])
  BY <1>1 DEF SameOrder, SameTerms
<1>3. Linked(quotations, orders')
  BY <1>1, <1>2, LinkedKept DEF SalesTraced
<1>4. \A j \in DOMAIN orders' : StatusOfLines(orders'[j])
  BY <1>1 DEF SalesTraced
<1>5. Kept(orders, orders')
  BY <1>1, <1>2 DEF Kept, SameOrder
<1>6. Covers(shipments, orders')
  BY <1>5, CoversKept DEF SalesTraced
<1>7. QED
  BY <1>3, <1>4, <1>6

\* confirm_order and cancel_order keep statuses true.
LEMMA OrderStatusTraced ==
  ASSUME Tables, SalesTraced, ConfirmOrder \/ CancelOrder
  PROVE  SalesTraced'
<1>0. TypeOK
  BY DEF Tables
<1>1. PICK i \in DOMAIN orders : confirm_order(i) \/ cancel_order(i)
  BY DEF ConfirmOrder, CancelOrder
<1>2. \/ orders[i].status = "DRAFT" /\ \E row \in SalesOrderRow : StatusChange(i, row, "CONFIRMED")
      \/ Cancellable(orders[i]) /\ \E row \in SalesOrderRow : StatusChange(i, row, "CANCELLED")
  BY <1>0, <1>1, StatusEffect DEF confirm_order, cancel_order
<1>3. PICK row \in SalesOrderRow :
        \/ orders[i].status = "DRAFT" /\ StatusChange(i, row, "CONFIRMED")
        \/ Cancellable(orders[i]) /\ StatusChange(i, row, "CANCELLED")
  BY <1>2
<1>4. /\ row.lines = orders[i].lines /\ row.customer = orders[i].customer
      /\ row.quotation = orders[i].quotation /\ orders' = [orders EXCEPT ![i] = row]
      /\ quotations' = quotations /\ shipments' = shipments
      /\ \/ orders[i].status = "DRAFT" /\ row.status = "CONFIRMED"
         \/ Cancellable(orders[i]) /\ row.status = "CANCELLED"
  BY <1>3 DEF StatusChange
<1>5. SameOrder(orders[i], row)
  BY <1>4 DEF SameOrder, SameTerms
<1>6. StatusOfLines(row)
  BY <1>4 DEF SalesTraced, StatusOfLines, Cancellable
<1>7. QED
  BY <1>4, <1>5, <1>6, OrderMovedOn DEF SalesTraced

\* fulfil writes the status its lines have.
LEMMA FulfilTraced ==
  ASSUME Tables, SalesTraced, Fulfil, SalesChecks'
  PROVE  SalesTraced'
<1>0. orders \in Seq(SalesOrderRow) /\ shipments \in Seq(FulfillmentRow)
  BY TypedRows DEF Tables
<1>1. PICK i \in DOMAIN orders, row \in SalesOrderRow, ship \in FulfillmentRow : Shipped(i, row, ship)
  BY FulfilSummary
<1>2. /\ orders' = [orders EXCEPT ![i] = row] /\ Fulfilled(orders[i].lines, row.lines, ship.qty)
      /\ row.customer = orders[i].customer /\ row.quotation = orders[i].quotation
      /\ row.status = ShippedStatus(row.lines) /\ quotations' = quotations
      /\ ship.order = i /\ shipments' = Append(shipments, ship)
      /\ DOMAIN ship.qty \subseteq DOMAIN orders[i].lines
  BY <1>1 DEF Shipped
<1>3. SameOrder(orders[i], row) /\ SameTerms(orders[i].lines, row.lines)
  BY <1>2 DEF SameOrder, Fulfilled
<1>4. orders'[i] = row /\ i \in DOMAIN orders'
  BY <1>0, <1>2, Replaced
<1>5. StatusOfLines(row)
  <2>1. \A p \in DOMAIN row.lines : row.lines[p].fulfilled \in 0..row.lines[p].qty /\ row.lines[p].qty \in Nat
    <3>1. row.lines \in PerProduct(OrderLineRow)
      BY DEF SalesOrderRow
    <3>2. \A p \in DOMAIN row.lines : SalesOrderLineChecks(row.lines[p])
      BY <1>4 DEF SalesChecks
    <3>3. \A p \in DOMAIN row.lines : row.lines[p] \in OrderLineRow
      BY <3>1, OnProducts
    <3>4. QED
      BY <3>2, <3>3 DEF SalesOrderLineChecks, OrderLineRow
  <2>2. (\A p \in DOMAIN row.lines : row.lines[p].fulfilled >= row.lines[p].qty)
            <=> \A p \in DOMAIN row.lines : row.lines[p].fulfilled = row.lines[p].qty
    BY <2>1
  <2>3. QED
    BY <1>2, <2>2 DEF StatusOfLines, ShippedStatus
<1>6. /\ Linked(quotations', orders')
      /\ \A j \in DOMAIN orders' : StatusOfLines(orders'[j])
      /\ Covers(shipments, orders')
  BY <1>2, <1>3, <1>5, OrderMovedOn
<1>7. Covers(shipments', orders')
  <2>1. ship.order \in DOMAIN orders' /\ DOMAIN ship.qty \subseteq DOMAIN orders'[ship.order].lines
    BY <1>2, <1>3, <1>4 DEF SameTerms
  <2>2. QED
    BY <1>0, <1>2, <1>6, <2>1, CoversAppended
<1>8. QED
  BY <1>6, <1>7 DEF SalesTraced

\* create_invoice changes no status.
LEMMA CreateInvoiceTraced ==
  ASSUME Tables, SalesTraced, CreateInvoice
  PROVE  SalesTraced'
<1>1. PICK i \in DOMAIN orders, row \in SalesOrderRow, doc \in InvoiceRow : Drafted(i, row, doc)
  BY CreateInvoiceSummary
<1>2. /\ orders' = [orders EXCEPT ![i] = row] /\ Invoiced(orders[i].lines, row.lines, doc.qty)
      /\ row.customer = orders[i].customer /\ row.quotation = orders[i].quotation
      /\ row.status = orders[i].status /\ quotations' = quotations /\ shipments' = shipments
  BY <1>1 DEF Drafted
<1>3. SameOrder(orders[i], row)
  BY <1>2 DEF SameOrder, Invoiced
<1>4. StatusOfLines(row)
  <2>1. StatusOfLines(orders[i])
    BY DEF SalesTraced
  <2>2. /\ DOMAIN row.lines = DOMAIN orders[i].lines
        /\ \A p \in DOMAIN row.lines : /\ row.lines[p].fulfilled = orders[i].lines[p].fulfilled
                                       /\ row.lines[p].qty = orders[i].lines[p].qty
    BY <1>2 DEF Invoiced, SameTerms
  <2>3. QED
    BY <1>2, <2>1, <2>2 DEF StatusOfLines
<1>5. QED
  BY <1>2, <1>3, <1>4, OrderMovedOn DEF SalesTraced

\* Every sales request keeps statuses and links.
LEMMA SalesTracedStep ==
  ASSUME Tables, SalesTraced, SalesStep, SalesChecks'
  PROVE  SalesTraced'
<1>1. CASE RecordPayment \/ IssueCreditNote \/ IssueInvoice
  <2>1. quotations' = quotations /\ orders' = orders /\ shipments' = shipments
    BY <1>1, SalesFrames
  <2>2. QED
    BY <2>1 DEF SalesTraced
<1>2. QED
  BY <1>1, QuotationTraced, OpenOrderTraced, OrderStatusTraced, FulfilTraced, CreateInvoiceTraced
     DEF SalesStep

\* Purchase order i becomes row, which keeps its terms.
LEMMA PurchaseMovedOn ==
  ASSUME Tables, PurchasesTraced, NEW i \in DOMAIN purchaseOrders, NEW row \in PurchaseOrderRow,
         purchaseOrders' = [purchaseOrders EXCEPT ![i] = row],
         SameTerms(purchaseOrders[i].lines, row.lines), NothingReceived(row)
  PROVE  /\ \A j \in DOMAIN purchaseOrders' : NothingReceived(purchaseOrders'[j])
         /\ Covers(goodsReceipts, purchaseOrders')
<1>0. purchaseOrders \in Seq(PurchaseOrderRow)
  BY TypedRows DEF Tables
<1>1. /\ DOMAIN purchaseOrders' = DOMAIN purchaseOrders /\ purchaseOrders'[i] = row
      /\ \A j \in DOMAIN purchaseOrders : j # i => purchaseOrders'[j] = purchaseOrders[j]
  BY <1>0, Replaced
<1>2. \A j \in DOMAIN purchaseOrders' : NothingReceived(purchaseOrders'[j])
  BY <1>1 DEF PurchasesTraced
<1>3. Kept(purchaseOrders, purchaseOrders')
  BY <1>0, KeptReplaced
<1>4. Covers(goodsReceipts, purchaseOrders')
  BY <1>3, CoversKept DEF PurchasesTraced
<1>5. QED
  BY <1>2, <1>4

\* A new purchase order is a draft.
LEMMA PurchaseOpenedTraced ==
  ASSUME Tables, PurchasesTraced, CreatePurchaseOrder
  PROVE  PurchasesTraced'
<1>0. purchaseOrders \in Seq(PurchaseOrderRow)
  BY TypedRows DEF Tables
<1>1. PICK s \in Supplier, w \in Warehouse, b \in PurchaseBasket : create_purchase_order(s, w, b)
  BY DEF CreatePurchaseOrder
<1>2. PICK new : new = NewPurchaseOrder(s, w, b)
  OBVIOUS
<1>3. new \in PurchaseOrderRow
  BY <1>2, NewPurchaseOrderType
<1>4. purchaseOrders' = Append(purchaseOrders, new) /\ goodsReceipts' = goodsReceipts
  BY <1>1, <1>2 DEF create_purchase_order
<1>5. NothingReceived(new)
  BY <1>2 DEF NewPurchaseOrder, NothingReceived
<1>6. /\ DOMAIN purchaseOrders' = DOMAIN purchaseOrders \cup {Len(purchaseOrders) + 1}
      /\ \A j \in DOMAIN purchaseOrders : purchaseOrders'[j] = purchaseOrders[j]
      /\ purchaseOrders'[Len(purchaseOrders) + 1] = new
  BY <1>0, <1>3, <1>4, Appended
<1>7. \A j \in DOMAIN purchaseOrders' : NothingReceived(purchaseOrders'[j])
  BY <1>5, <1>6 DEF PurchasesTraced
<1>8. Covers(goodsReceipts, purchaseOrders')
  BY <1>0, <1>3, <1>4, KeptAppended, CoversKept DEF PurchasesTraced
<1>9. QED
  BY <1>4, <1>7, <1>8 DEF PurchasesTraced

\* confirm_purchase_order and cancel_purchase_order keep statuses true.
LEMMA PurchaseStatusTraced ==
  ASSUME Tables, PurchasesTraced, ConfirmPurchaseOrder \/ CancelPurchaseOrder
  PROVE  PurchasesTraced'
<1>0. TypeOK
  BY DEF Tables
<1>1. PICK i \in DOMAIN purchaseOrders : confirm_purchase_order(i) \/ cancel_purchase_order(i)
  BY DEF ConfirmPurchaseOrder, CancelPurchaseOrder
<1>2. \/ \E row \in PurchaseOrderRow : PurchaseStatusChange(i, row, "CONFIRMED")
      \/ /\ Withdrawable(purchaseOrders[i])
         /\ \E row \in PurchaseOrderRow : PurchaseStatusChange(i, row, "CANCELLED")
  BY <1>0, <1>1, PurchaseStatusEffect DEF cancel_purchase_order
<1>3. PICK row \in PurchaseOrderRow :
        \/ PurchaseStatusChange(i, row, "CONFIRMED")
        \/ Withdrawable(purchaseOrders[i]) /\ PurchaseStatusChange(i, row, "CANCELLED")
  BY <1>2
<1>4. /\ row.lines = purchaseOrders[i].lines /\ purchaseOrders' = [purchaseOrders EXCEPT ![i] = row]
      /\ goodsReceipts' = goodsReceipts
      /\ row.status = "CONFIRMED" \/ Withdrawable(purchaseOrders[i])
  BY <1>3 DEF PurchaseStatusChange
<1>5. SameTerms(purchaseOrders[i].lines, row.lines)
  BY <1>4 DEF SameTerms
<1>6. NothingReceived(row)
  BY <1>4 DEF NothingReceived, Withdrawable
<1>7. QED
  BY <1>4, <1>5, <1>6, PurchaseMovedOn DEF PurchasesTraced

\* receive writes no cancelled order.
LEMMA ReceiveTraced ==
  ASSUME Tables, PurchasesTraced, Receive
  PROVE  PurchasesTraced'
<1>0. purchaseOrders \in Seq(PurchaseOrderRow) /\ goodsReceipts \in Seq(GoodsReceiptRow)
  BY TypedRows DEF Tables
<1>1. PICK i \in DOMAIN purchaseOrders, row \in PurchaseOrderRow, receipt \in GoodsReceiptRow :
            /\ ReceiptChange(i, receipt.qty, row, receipt)
            /\ DOMAIN receipt.qty \subseteq DOMAIN purchaseOrders[i].lines
  BY ReceiveSummary
<1>2. /\ purchaseOrders' = [purchaseOrders EXCEPT ![i] = row]
      /\ SameTerms(purchaseOrders[i].lines, row.lines) /\ row.status = ReceivedStatus(row.lines)
      /\ receipt.order = i /\ goodsReceipts' = Append(goodsReceipts, receipt)
  BY <1>1 DEF ReceiptChange, Received
<1>3. NothingReceived(row)
  BY <1>2 DEF NothingReceived, ReceivedStatus
<1>4. /\ \A j \in DOMAIN purchaseOrders' : NothingReceived(purchaseOrders'[j])
      /\ Covers(goodsReceipts, purchaseOrders')
  BY <1>2, <1>3, PurchaseMovedOn
<1>5. purchaseOrders'[i] = row /\ i \in DOMAIN purchaseOrders'
  BY <1>0, <1>2, Replaced
<1>6. /\ receipt.order \in DOMAIN purchaseOrders'
      /\ DOMAIN receipt.qty \subseteq DOMAIN purchaseOrders'[receipt.order].lines
  BY <1>1, <1>2, <1>5 DEF SameTerms
<1>7. Covers(goodsReceipts', purchaseOrders')
  BY <1>0, <1>2, <1>4, <1>6, CoversAppended
<1>8. QED
  BY <1>4, <1>7 DEF PurchasesTraced

\* create_bill changes no status.
LEMMA CreateBillTraced ==
  ASSUME Tables, PurchasesTraced, CreateBill
  PROVE  PurchasesTraced'
<1>1. PICK i \in DOMAIN purchaseOrders, d \in Date, row \in PurchaseOrderRow, doc \in SupplierBillRow :
            /\ BillChange(i, d, row, doc)
            /\ UNCHANGED <<goodsReceipts, supplierPayments, sales, books>>
  BY CreateBillSummary
<1>2. /\ purchaseOrders' = [purchaseOrders EXCEPT ![i] = row]
      /\ Billed(purchaseOrders[i].lines, row.lines, doc.qty)
      /\ row.status = purchaseOrders[i].status /\ goodsReceipts' = goodsReceipts
  BY <1>1 DEF BillChange
<1>3. NothingReceived(row)
  <2>1. NothingReceived(purchaseOrders[i])
    BY DEF PurchasesTraced
  <2>2. /\ DOMAIN row.lines = DOMAIN purchaseOrders[i].lines
        /\ \A p \in DOMAIN row.lines : row.lines[p].received = purchaseOrders[i].lines[p].received
    BY <1>2 DEF Billed, SameTerms
  <2>3. QED
    BY <1>2, <2>1, <2>2 DEF NothingReceived
<1>4. SameTerms(purchaseOrders[i].lines, row.lines)
  BY <1>2 DEF Billed
<1>5. QED
  BY <1>2, <1>3, <1>4, PurchaseMovedOn DEF PurchasesTraced

\* Every purchasing request keeps statuses.
LEMMA PurchasesTracedStep ==
  ASSUME Tables, PurchasesTraced, PurchaseStep
  PROVE  PurchasesTraced'
<1>1. CASE PaySupplier \/ IssueBill
  <2>1. purchaseOrders' = purchaseOrders /\ goodsReceipts' = goodsReceipts
    BY <1>1, PurchaseFrames
  <2>2. QED
    BY <2>1 DEF PurchasesTraced
<1>2. QED
  BY <1>1, PurchaseOpenedTraced, PurchaseStatusTraced, ReceiveTraced, CreateBillTraced DEF PurchaseStep

\* Every step keeps statuses and links.
LEMMA TracedStep ==
  ASSUME Tables, SalesTraced, PurchasesTraced, [Next]_vars
  PROVE  SalesTraced' /\ PurchasesTraced'
<1>1. ASSUME UNCHANGED sales PROVE SalesTraced'
  <2>1. quotations' = quotations /\ orders' = orders /\ shipments' = shipments
    BY <1>1 DEF sales
  <2>2. QED
    BY <2>1 DEF SalesTraced
<1>2. ASSUME UNCHANGED purchases PROVE PurchasesTraced'
  <2>1. purchaseOrders' = purchaseOrders /\ goodsReceipts' = goodsReceipts
    BY <1>2 DEF purchases
  <2>2. QED
    BY <2>1 DEF PurchasesTraced
<1>3. CASE PrepareReturn \/ FileReturn \/ UNCHANGED vars
  BY <1>1, <1>2, <1>3 DEF PrepareReturn, FileReturn, vars
<1>4. QED
  BY <1>1, <1>2, <1>3, Steps, SalesTracedStep, PurchasesTracedStep DEF Commit

\* At the start there is nothing to trace.
LEMMA TracedInit ==
  ASSUME Init
  PROVE  SalesTraced /\ PurchasesTraced
<1>1. /\ quotations = <<>> /\ orders = <<>> /\ shipments = <<>>
      /\ purchaseOrders = <<>> /\ goodsReceipts = <<>>
  BY DEF Init, SalesInit, PurchasingInit
<1>2. QED
  BY <1>1 DEF SalesTraced, PurchasesTraced, Linked, Covers

\* An order none of whose lines counts anything has no document.
LEMMA NoDocument ==
  ASSUME NEW docs, IsFiniteSet(DOMAIN docs), \A j \in DOMAIN docs : Countable(docs[j].qty),
         \A j \in DOMAIN docs : DOMAIN docs[j].qty # {} /\ \A p \in DOMAIN docs[j].qty : docs[j].qty[p] > 0,
         NEW os, Covers(docs, os), NEW i,
         \A p \in DOMAIN os[i].lines : QtyOf(docs, OfOrder(docs, i), p) = 0
  PROVE  OfOrder(docs, i) = {}
<1>1. SUFFICES ASSUME NEW j \in OfOrder(docs, i) PROVE FALSE
  OBVIOUS
<1>2. PICK ids : ids = RowsOf(OrderKey(docs), i)
  OBVIOUS
<1>3. j \in DOMAIN docs /\ docs[j].order = i /\ j \in ids /\ ids \subseteq DOMAIN docs
  BY <1>1, <1>2 DEF OfOrder, RowsOf, OrderKey
<1>4. PICK p \in DOMAIN docs[j].qty : docs[j].qty[p] > 0
  BY <1>3
<1>5. p \in DOMAIN os[i].lines
  BY <1>3, <1>4 DEF Covers
<1>6. Column(QtyIn(docs), ids, p) = 0
  BY <1>2, <1>5, QtyOfColumn
<1>7. IsFiniteSet(ids)
  BY <1>3, FS_Subset
<1>8. \A n \in ids : On(QtyIn(docs)[n], p) \in Nat
  BY <1>3 DEF QtyIn, Countable
<1>9. Column(QtyIn(docs), ids, p) >= On(QtyIn(docs)[j], p)
  BY <1>3, <1>7, <1>8, ColumnCovers
<1>10. On(QtyIn(docs)[j], p) > 0
  BY <1>3, <1>4 DEF QtyIn, On
<1>11. QED
  BY <1>3, <1>6, <1>8, <1>9, <1>10

\* Statuses and links, in the words of the property.
LEMMA TracedIs ==
  ASSUME Tables, CountersMatchDocuments, SalesTraced, PurchasesTraced
  PROVE  OrdersTrace
<1>0. /\ TypeOK /\ SalesChecks /\ PurchasingChecks
  BY DEF Tables
<1>1. /\ \A j \in DOMAIN shipments : Countable(shipments[j].qty)
      /\ \A j \in DOMAIN goodsReceipts : Countable(goodsReceipts[j].qty)
      /\ IsFiniteSet(DOMAIN shipments) /\ IsFiniteSet(DOMAIN goodsReceipts)
  BY <1>0, QtyRows, TablesFinite
<1>2. \A j \in DOMAIN shipments :
        DOMAIN shipments[j].qty # {} /\ \A p \in DOMAIN shipments[j].qty : shipments[j].qty[p] > 0
  <2>1. \A j \in DOMAIN shipments : shipments[j].qty \in PerProduct(Nat)
    BY <1>0, Rows DEF FulfillmentRow
  <2>2. \A j \in DOMAIN shipments : \A p \in DOMAIN shipments[j].qty : shipments[j].qty[p] > 0
    BY <1>0 DEF SalesChecks, FulfillmentLineChecks
  <2>3. QED
    BY <2>1, <2>2, OnProducts
<1>3. \A j \in DOMAIN goodsReceipts :
        DOMAIN goodsReceipts[j].qty # {}
        /\ \A p \in DOMAIN goodsReceipts[j].qty : goodsReceipts[j].qty[p] > 0
  <2>1. \A j \in DOMAIN goodsReceipts : goodsReceipts[j].qty \in PerProduct(Nat)
    BY <1>0, Rows DEF GoodsReceiptRow
  <2>2. \A j \in DOMAIN goodsReceipts : \A p \in DOMAIN goodsReceipts[j].qty : goodsReceipts[j].qty[p] > 0
    BY <1>0 DEF PurchasingChecks, GoodsReceiptLineChecks
  <2>3. QED
    BY <2>1, <2>2, OnProducts
<1>4. ASSUME NEW i \in DOMAIN orders, NEW j \in DOMAIN orders,
             orders[i].quotation = orders[j].quotation, orders[i].quotation # 0
      PROVE  i = j
  BY <1>4 DEF SalesTraced, Linked
<1>5. \A i \in DOMAIN quotations : quotations[i].converted # 0 =>
            LET o == orders[quotations[i].converted]
            IN  /\ o.quotation = i /\ o.customer = quotations[i].customer
                /\ DOMAIN o.lines = DOMAIN quotations[i].lines
                /\ \A p \in DOMAIN o.lines : o.lines[p].qty = quotations[i].lines[p].qty
  BY DEF SalesTraced, Linked
<1>6. ASSUME NEW i \in DOMAIN orders, orders[i].status = "CANCELLED"
      PROVE  OfOrder(shipments, i) = {}
  <2>1. \A p \in DOMAIN orders[i].lines : QtyOf(shipments, OfOrder(shipments, i), p) = 0
    BY <1>6 DEF SalesTraced, StatusOfLines, CountersMatchDocuments
  <2>2. Covers(shipments, orders)
    BY DEF SalesTraced
  <2>3. QED
    BY <1>1, <1>2, <2>1, <2>2, NoDocument
<1>7. ASSUME NEW i \in DOMAIN orders
      PROVE  orders[i].status = "FULFILLED" <=> \A p \in DOMAIN orders[i].lines :
                    QtyOf(shipments, OfOrder(shipments, i), p) = orders[i].lines[p].qty
  <2>1. \A p \in DOMAIN orders[i].lines :
            orders[i].lines[p].fulfilled = QtyOf(shipments, OfOrder(shipments, i), p)
    BY DEF CountersMatchDocuments
  <2>2. orders[i].status = "FULFILLED" <=>
            \A p \in DOMAIN orders[i].lines : orders[i].lines[p].fulfilled = orders[i].lines[p].qty
    BY DEF SalesTraced, StatusOfLines
  <2>3. QED
    BY <2>1, <2>2
<1>8. ASSUME NEW i \in DOMAIN purchaseOrders, purchaseOrders[i].status = "CANCELLED"
      PROVE  OfOrder(goodsReceipts, i) = {}
  <2>1. \A p \in DOMAIN purchaseOrders[i].lines : QtyOf(goodsReceipts, OfOrder(goodsReceipts, i), p) = 0
    BY <1>8 DEF PurchasesTraced, NothingReceived, CountersMatchDocuments
  <2>2. Covers(goodsReceipts, purchaseOrders)
    BY DEF PurchasesTraced
  <2>3. QED
    BY <1>1, <1>3, <2>1, <2>2, NoDocument
<1>9. QED
  BY <1>4, <1>5, <1>6, <1>7, <1>8 DEF OrdersTrace

(* A quotation becomes one order at most, with its customer and lines; an  *)
(* order is fulfilled exactly when everything was shipped, and a cancelled *)
(* one has no shipment and no receipt: the statuses that fulfil, receive   *)
(* and cancel write stay true to the documents.                            *)

THEOREM OrdersAreTraced == Spec => []OrdersTrace
<1>1. Init => SalesTraced /\ PurchasesTraced
  BY TracedInit
<1>2. Tables /\ SalesTraced /\ PurchasesTraced /\ [Next]_vars => SalesTraced' /\ PurchasesTraced'
  BY TracedStep
<1>3. Tables /\ CountersMatchDocuments /\ SalesTraced /\ PurchasesTraced => OrdersTrace
  BY TracedIs
<1>4. QED
  BY <1>1, <1>2, <1>3, TablesCorrect, CountersAgree, PTL DEF Spec

-----------------------------------------------------------------------------
(* Subledgers: the control accounts hold what was issued, less what was    *)
(* credited and paid.                                                      *)

IsIssued(doc) == doc.status \in {"ISSUED", "PARTIALLY_PAID", "PAID"}

Charged(docs) == [i \in DOMAIN docs |-> IF IsIssued(docs[i]) THEN TotalOf(docs[i]) ELSE 0]

Totals(docs) == [i \in DOMAIN docs |-> TotalOf(docs[i])]

\* Only what was issued is paid.
PaidWhenIssued(docs) == \A i \in DOMAIN docs : ~IsIssued(docs[i]) => docs[i].paid = 0

SalesBooked ==
    /\ PaidWhenIssued(invoices)
    /\ \A n \in DOMAIN notes : /\ notes[n].invoice \in DOMAIN invoices
                               /\ IsIssued(invoices[notes[n].invoice])
    /\ balance["AR_CONTROL"] = SumFunction(Charged(invoices)) - SumFunction(Totals(notes))
                               - SumFunction(AmountsOf(payments))
    /\ SumFunction(PaidOf(invoices)) = SumFunction(AllocatedSums(payments))

PurchasesBooked ==
    /\ PaidWhenIssued(bills)
    /\ -balance["AP_CONTROL"] = SumFunction(Charged(bills)) - SumFunction(AmountsOf(supplierPayments))
    /\ SumFunction(PaidOf(bills)) = SumFunction(AllocatedSums(supplierPayments))

\* The columns of the tables are numbers.
LEMMA Booked ==
  ASSUME Tables
  PROVE  /\ Numbers(Charged(invoices)) /\ Numbers(Totals(notes)) /\ Numbers(AmountsOf(payments))
         /\ Numbers(PaidOf(invoices)) /\ Numbers(AllocatedSums(payments))
         /\ Numbers(Charged(bills)) /\ Numbers(AmountsOf(supplierPayments))
         /\ Numbers(PaidOf(bills)) /\ Numbers(AllocatedSums(supplierPayments))
<1>0. /\ TypeOK /\ SalesChecks /\ PurchasingChecks
  BY DEF Tables
<1>1. /\ \A i \in DOMAIN invoices : TotalOf(invoices[i]) \in Nat /\ invoices[i].paid \in Nat
      /\ \A i \in DOMAIN notes : TotalOf(notes[i]) \in Nat
      /\ \A i \in DOMAIN bills : TotalOf(bills[i]) \in Nat /\ bills[i].paid \in Nat
  BY <1>0, Rows DEF TotalOf, InvoiceRow, CreditNoteRow, SupplierBillRow
<1>2. /\ \A y \in DOMAIN payments : payments[y].amount \in Nat /\ payments[y].allocated \in PerDocument(Nat)
      /\ \A y \in DOMAIN supplierPayments :
            supplierPayments[y].amount \in Nat /\ supplierPayments[y].allocated \in PerDocument(Nat)
  BY <1>0, Rows DEF PaymentRow
<1>3. ASSUME NEW a \in PerDocument(Nat), NEW docs, IsFiniteSet(DOMAIN docs), PaymentAllocationChecks(a, docs)
      PROVE  SumFunction(a) \in Int
  <2>0. PICK D \in SUBSET Nat : a \in [D -> Nat]
    BY DEF PerDocument
  <2>1. \A i \in DOMAIN a : a[i] \in Int
    BY <2>0
  <2>2. DOMAIN a \subseteq DOMAIN docs
    BY <1>3 DEF PaymentAllocationChecks
  <2>3. IsFiniteSet(DOMAIN a)
    BY <1>3, <2>2, FS_Subset
  <2>4. QED
    BY <2>1, <2>3, SumSplit
<1>4. /\ IsFiniteSet(DOMAIN invoices) /\ IsFiniteSet(DOMAIN payments) /\ IsFiniteSet(DOMAIN notes)
      /\ IsFiniteSet(DOMAIN bills) /\ IsFiniteSet(DOMAIN supplierPayments)
  BY <1>0, TablesFinite
<1>5. \A y \in DOMAIN payments : SumFunction(payments[y].allocated) \in Int
  BY <1>0, <1>2, <1>3, <1>4 DEF SalesChecks
<1>6. \A y \in DOMAIN supplierPayments : SumFunction(supplierPayments[y].allocated) \in Int
  BY <1>0, <1>2, <1>3, <1>4 DEF PurchasingChecks
<1>7. QED
  BY <1>1, <1>2, <1>4, <1>5, <1>6 DEF Numbers, Charged, Totals, AmountsOf, PaidOf, AllocatedSums

\* A draft document is added.
LEMMA ChargedDrafted ==
  ASSUME NEW R, NEW docs \in Seq(R), NEW doc \in R, Numbers(Charged(docs)), Numbers(PaidOf(docs)),
         PaidWhenIssued(docs), doc.status = "DRAFT", doc.paid = 0
  PROVE  /\ SumFunction(Charged(Append(docs, doc))) = SumFunction(Charged(docs))
         /\ SumFunction(PaidOf(Append(docs, doc))) = SumFunction(PaidOf(docs))
         /\ PaidWhenIssued(Append(docs, doc))
<1>1. PICK k, news : k = Len(docs) + 1 /\ news = Append(docs, doc)
  OBVIOUS
<1>2. /\ DOMAIN news = DOMAIN docs \cup {k} /\ k \notin DOMAIN docs /\ news[k] = doc
      /\ \A i \in DOMAIN docs : news[i] = docs[i]
  BY <1>1, Appended
<1>3. /\ DOMAIN Charged(news) = DOMAIN Charged(docs) \cup {k} /\ k \notin DOMAIN Charged(docs)
      /\ \A i \in DOMAIN Charged(docs) : Charged(news)[i] = Charged(docs)[i]
      /\ Charged(news)[k] = 0
  BY <1>2 DEF Charged, IsIssued
<1>4. /\ DOMAIN PaidOf(news) = DOMAIN PaidOf(docs) \cup {k} /\ k \notin DOMAIN PaidOf(docs)
      /\ \A i \in DOMAIN PaidOf(docs) : PaidOf(news)[i] = PaidOf(docs)[i]
      /\ PaidOf(news)[k] = 0
  BY <1>2 DEF PaidOf
<1>5. SumFunction(Charged(news)) = SumFunction(Charged(docs)) + 0 /\ SumFunction(Charged(docs)) \in Int
  BY <1>3, SumOneMore
<1>6. SumFunction(PaidOf(news)) = SumFunction(PaidOf(docs)) + 0 /\ SumFunction(PaidOf(docs)) \in Int
  BY <1>4, SumOneMore
<1>7. PaidWhenIssued(news)
  BY <1>2 DEF PaidWhenIssued
<1>8. QED
  BY <1>1, <1>5, <1>6, <1>7

\* Draft i is issued.
Issues(docs, news, i) ==
    /\ i \in DOMAIN docs /\ DOMAIN news = DOMAIN docs
    /\ \A j \in DOMAIN docs : j # i => news[j] = docs[j]
    /\ docs[i].status = "DRAFT" /\ news[i].status = "ISSUED"
    /\ TotalOf(news[i]) = TotalOf(docs[i]) /\ news[i].paid = docs[i].paid

\* An issued draft is charged.
LEMMA ChargedIssued ==
  ASSUME NEW docs, NEW news, NEW i, Issues(docs, news, i), Numbers(Charged(docs)), PaidWhenIssued(docs),
         TotalOf(docs[i]) \in Int
  PROVE  /\ SumFunction(Charged(news)) = SumFunction(Charged(docs)) + TotalOf(docs[i])
         /\ PaidOf(news) = PaidOf(docs) /\ PaidWhenIssued(news)
<1> USE DEF Issues
<1>3. /\ DOMAIN Charged(news) = DOMAIN Charged(docs) /\ i \in DOMAIN Charged(docs)
      /\ \A j \in DOMAIN Charged(docs) \ {i} : Charged(news)[j] = Charged(docs)[j]
      /\ Charged(news)[i] = TotalOf(docs[i]) /\ Charged(docs)[i] = 0
  BY DEF Charged, IsIssued
<1>4. SumFunction(Charged(news)) = SumFunction(Charged(docs)) - 0 + TotalOf(docs[i])
  BY <1>3, SumExcept DEF Numbers
<1>5. SumFunction(Charged(docs)) \in Int
  BY NumbersSum
<1>6. PaidOf(news) = PaidOf(docs)
  BY DEF PaidOf
<1>7. PaidWhenIssued(news)
  BY DEF PaidWhenIssued, IsIssued
<1>8. QED
  BY <1>4, <1>5, <1>6, <1>7

\* A payment settles documents.
LEMMA ChargedSettled ==
  ASSUME NEW pay, NEW docs, NEW news, Settles(pay, docs, news), Numbers(PaidOf(docs)), PaidWhenIssued(docs)
  PROVE  /\ Charged(news) = Charged(docs) /\ PaidWhenIssued(news)
         /\ SumFunction(PaidOf(news)) = SumFunction(PaidOf(docs)) + SumFunction(pay.allocated)
         /\ \A i \in DOMAIN docs : IsIssued(docs[i]) => i \in DOMAIN news /\ IsIssued(news[i])
<1>1. /\ DOMAIN pay.allocated \subseteq DOMAIN docs /\ IsFiniteSet(DOMAIN pay.allocated)
      /\ \A i \in DOMAIN pay.allocated : pay.allocated[i] \in Nat
      /\ DOMAIN news = DOMAIN docs
      /\ \A i \in DOMAIN docs \ DOMAIN pay.allocated : news[i] = docs[i]
  BY DEF Settles
<1>2. \A i \in DOMAIN pay.allocated :
        /\ IsIssued(docs[i]) /\ IsIssued(news[i]) /\ TotalOf(news[i]) = TotalOf(docs[i])
        /\ news[i].paid = docs[i].paid + pay.allocated[i]
  BY DEF Settles, PaidMore, IsIssued, TotalOf
<1>3. Charged(news) = Charged(docs)
  BY <1>1, <1>2 DEF Charged
<1>4. PaidWhenIssued(news)
  BY <1>1, <1>2 DEF PaidWhenIssued
<1>5. PICK h : h = [i \in DOMAIN docs |-> On(pay.allocated, i)]
  OBVIOUS
<1>6. /\ DOMAIN h = DOMAIN docs /\ \A i \in DOMAIN docs : h[i] \in Int
      /\ \A i \in DOMAIN pay.allocated : h[i] = pay.allocated[i]
      /\ \A i \in DOMAIN h \ DOMAIN pay.allocated : h[i] = 0
  BY <1>1, <1>5 DEF On
<1>7. IsFiniteSet(DOMAIN docs) /\ \A i \in DOMAIN docs : docs[i].paid \in Int
  BY DEF Numbers, PaidOf
<1>8. Numbers(h) /\ Numbers(pay.allocated)
  BY <1>1, <1>6, <1>7 DEF Numbers
<1>9. SumFunction(h) = SumFunction(pay.allocated)
  BY <1>1, <1>6, <1>8, SumNonZero
<1>10. /\ DOMAIN PaidOf(docs) = DOMAIN docs /\ DOMAIN PaidOf(news) = DOMAIN docs
       /\ \A i \in DOMAIN docs :
            PaidOf(docs)[i] \in Int /\ h[i] \in Int /\ PaidOf(news)[i] = PaidOf(docs)[i] + h[i]
  <2>1. \A i \in DOMAIN docs : news[i].paid = docs[i].paid + h[i]
    BY <1>1, <1>2, <1>6, <1>7
  <2>2. QED
    BY <1>1, <1>6, <1>7, <2>1 DEF PaidOf
<1>11. SumFunction(PaidOf(news)) = SumFunction(PaidOf(docs)) + SumFunction(h)
  BY <1>6, <1>7, <1>10, SumPlus
<1>12. QED
  BY <1>1, <1>2, <1>3, <1>4, <1>9, <1>11

\* A step on none of the documents that the account of receivables counts.
LEMMA SalesBookedFrame ==
  ASSUME SalesBooked, UNCHANGED <<invoices, notes, payments>>,
         balance'["AR_CONTROL"] = balance["AR_CONTROL"]
  PROVE  SalesBooked'
<1>1. invoices' = invoices /\ notes' = notes /\ payments' = payments
  OBVIOUS
<1>2. QED
  BY <1>1 DEF SalesBooked

\* A step on none of the documents that the account of payables counts.
LEMMA PurchasesBookedFrame ==
  ASSUME PurchasesBooked, UNCHANGED <<bills, supplierPayments>>,
         balance'["AP_CONTROL"] = balance["AP_CONTROL"]
  PROVE  PurchasesBooked'
<1>1. bills' = bills /\ supplierPayments' = supplierPayments
  OBVIOUS
<1>2. QED
  BY <1>1 DEF PurchasesBooked

\* create_invoice charges nothing.
LEMMA CreateInvoiceBooked ==
  ASSUME Tables, SalesBooked, CreateInvoice
  PROVE  SalesBooked'
<1>0. invoices \in Seq(InvoiceRow)
  BY TypedRows DEF Tables
<1>1. PICK i \in DOMAIN orders, row \in SalesOrderRow, doc \in InvoiceRow : Drafted(i, row, doc)
  BY CreateInvoiceSummary
<1>2. /\ invoices' = Append(invoices, doc) /\ doc.status = "DRAFT" /\ doc.paid = 0
      /\ payments' = payments /\ notes' = notes /\ balance' = balance
  BY <1>1 DEF Drafted, books
<1>3. /\ SumFunction(Charged(invoices')) = SumFunction(Charged(invoices))
      /\ SumFunction(PaidOf(invoices')) = SumFunction(PaidOf(invoices))
      /\ PaidWhenIssued(invoices')
  BY <1>0, <1>2, Booked, ChargedDrafted DEF SalesBooked
<1>4. \A i_1 \in DOMAIN invoices : i_1 \in DOMAIN invoices' /\ invoices'[i_1] = invoices[i_1]
  BY <1>0, <1>2, Appended
<1>5. \A n \in DOMAIN notes : notes[n].invoice \in DOMAIN invoices' /\ IsIssued(invoices'[notes[n].invoice])
  BY <1>4 DEF SalesBooked
<1>6. QED
  BY <1>2, <1>3, <1>5 DEF SalesBooked

\* issue_invoice charges its total.
LEMMA IssueInvoiceBooked ==
  ASSUME Tables, SalesBooked, IssueInvoice
  PROVE  SalesBooked'
<1>0. invoices \in Seq(InvoiceRow) /\ TypeOK
  BY TypedRows DEF Tables
<1>1. PICK i \in DOMAIN invoices, doc \in InvoiceRow : \E rows :
            /\ IssueInvoiceChange(i, doc, rows)
            /\ Shift(TotalOf(invoices[i]), 0, -invoices[i].tax, 0, 0, 0)
            /\ UNCHANGED <<quotations, orders, shipments, payments, notes, onHand, costPrice, returns>>
  BY IssueInvoiceSummary
<1>2. /\ invoices' = [invoices EXCEPT ![i] = doc] /\ doc.status = "ISSUED" /\ doc.paid = invoices[i].paid
      /\ invoices[i].status = "DRAFT" /\ TotalOf(doc) = TotalOf(invoices[i])
      /\ payments' = payments /\ notes' = notes
      /\ balance'["AR_CONTROL"] = balance["AR_CONTROL"] + TotalOf(invoices[i])
  BY <1>1 DEF IssueInvoiceChange, Shift, TotalOf
<1>3. PICK total : total = TotalOf(invoices[i])
  OBVIOUS
<1>4. total \in Int
  BY <1>0, <1>3, Rows DEF TotalOf, InvoiceRow
<1>5. /\ SumFunction(Charged(invoices')) = SumFunction(Charged(invoices)) + total
      /\ PaidOf(invoices') = PaidOf(invoices) /\ PaidWhenIssued(invoices')
  <2>1. Numbers(Charged(invoices)) /\ PaidWhenIssued(invoices) /\ TotalOf(invoices[i]) \in Int
    BY <1>3, <1>4, Booked DEF SalesBooked
  <2>2. Issues(invoices, invoices', i)
    BY <1>0, <1>2, Replaced DEF Issues
  <2>3. QED
    BY <1>3, <2>1, <2>2, ChargedIssued
<1>6. \A n \in DOMAIN notes : notes[n].invoice \in DOMAIN invoices' /\ IsIssued(invoices'[notes[n].invoice])
  <2>1. DOMAIN invoices' = DOMAIN invoices /\ invoices'[i] = doc
        /\ \A j \in DOMAIN invoices : j # i => invoices'[j] = invoices[j]
    BY <1>0, <1>2, Replaced
  <2>2. QED
    BY <1>2, <2>1 DEF SalesBooked, IsIssued
<1>7. balance'["AR_CONTROL"] = SumFunction(Charged(invoices')) - SumFunction(Totals(notes'))
                               - SumFunction(AmountsOf(payments'))
  <2>1. /\ SumFunction(Charged(invoices)) \in Int /\ SumFunction(Totals(notes)) \in Int
        /\ SumFunction(AmountsOf(payments)) \in Int
    BY Booked, NumbersSum
  <2>2. QED
    BY <1>2, <1>3, <1>4, <1>5, <2>1 DEF SalesBooked
<1>8. QED
  BY <1>2, <1>5, <1>6, <1>7 DEF SalesBooked

\* issue_credit_note credits its total.
LEMMA CreditNoteBooked ==
  ASSUME Tables, SalesBooked, IssueCreditNote
  PROVE  SalesBooked'
<1>0. invoices \in Seq(InvoiceRow) /\ notes \in Seq(CreditNoteRow) /\ TypeOK
  BY TypedRows DEF Tables
<1>1. PICK i \in DOMAIN invoices, doc \in InvoiceRow, note \in CreditNoteRow : \E rows :
            /\ CreditNoteChange(i, note.qty, note.into, doc, note, rows)
            /\ invoices[i].status \in {"ISSUED", "PARTIALLY_PAID", "PAID"}
            /\ Shift(-TotalOf(note), 0, note.tax, 0, 0, 0)
            /\ UNCHANGED <<quotations, orders, shipments, payments, costPrice, returns>>
  BY CreditNoteSummary
<1>2. /\ invoices' = [invoices EXCEPT ![i] = doc] /\ doc.status = invoices[i].status
      /\ doc.paid = invoices[i].paid /\ TotalOf(doc) = TotalOf(invoices[i])
      /\ notes' = Append(notes, note) /\ note.invoice = i /\ IsIssued(invoices[i])
      /\ payments' = payments /\ note.net \in Nat /\ note.tax \in Nat
      /\ balance'["AR_CONTROL"] = balance["AR_CONTROL"] + (-TotalOf(note))
  BY <1>1 DEF CreditNoteChange, Shift, TotalOf, IsIssued
<1>3. /\ DOMAIN invoices' = DOMAIN invoices /\ invoices'[i] = doc
      /\ \A j \in DOMAIN invoices : j # i => invoices'[j] = invoices[j]
  BY <1>0, <1>2, Replaced
<1>4. \A j \in DOMAIN invoices :
        /\ invoices'[j].status = invoices[j].status /\ invoices'[j].paid = invoices[j].paid
        /\ TotalOf(invoices'[j]) = TotalOf(invoices[j])
  BY <1>2, <1>3
<1>5. Charged(invoices') = Charged(invoices) /\ PaidOf(invoices') = PaidOf(invoices)
  BY <1>3, <1>4 DEF Charged, PaidOf, IsIssued
<1>6. PaidWhenIssued(invoices')
  BY <1>3, <1>4 DEF SalesBooked, PaidWhenIssued, IsIssued
<1>7. PICK k : k = Len(notes) + 1
  OBVIOUS
<1>8. /\ DOMAIN notes' = DOMAIN notes \cup {k} /\ k \notin DOMAIN notes /\ notes'[k] = note
      /\ \A n \in DOMAIN notes : notes'[n] = notes[n]
  BY <1>0, <1>2, <1>7, Appended
<1>9. \A n \in DOMAIN notes' :
        notes'[n].invoice \in DOMAIN invoices' /\ IsIssued(invoices'[notes'[n].invoice])
  BY <1>2, <1>3, <1>4, <1>8 DEF SalesBooked, IsIssued
<1>10. PICK total : total = TotalOf(note)
  OBVIOUS
<1>11. total \in Int
  BY <1>2, <1>10 DEF TotalOf
<1>12. SumFunction(Totals(notes')) = SumFunction(Totals(notes)) + total
  <2>1. /\ DOMAIN Totals(notes') = DOMAIN Totals(notes) \cup {k} /\ k \notin DOMAIN Totals(notes)
        /\ \A n \in DOMAIN Totals(notes) : Totals(notes')[n] = Totals(notes)[n]
        /\ Totals(notes')[k] = total
    BY <1>8, <1>10 DEF Totals
  <2>2. QED
    BY <1>11, <2>1, Booked, SumOneMore
<1>13. balance'["AR_CONTROL"] = SumFunction(Charged(invoices')) - SumFunction(Totals(notes'))
                                - SumFunction(AmountsOf(payments'))
  <2>1. /\ SumFunction(Charged(invoices)) \in Int /\ SumFunction(Totals(notes)) \in Int
        /\ SumFunction(AmountsOf(payments)) \in Int
    BY Booked, NumbersSum
  <2>2. QED
    BY <1>2, <1>5, <1>10, <1>11, <1>12, <2>1 DEF SalesBooked
<1>14. QED
  BY <1>2, <1>5, <1>6, <1>9, <1>13 DEF SalesBooked

\* record_payment pays its amount.
LEMMA RecordPaymentBooked ==
  ASSUME Tables, SalesBooked, RecordPayment
  PROVE  SalesBooked'
<1>0. payments \in Seq(PaymentRow(Customer))
  BY TypedRows DEF Tables
<1>1. PICK pay \in PaymentRow(Customer) : PaymentChange(pay)
  BY RecordPaymentSummary
<1>2. /\ payments' = Append(payments, pay) /\ Settles(pay, invoices, invoices') /\ notes' = notes
      /\ balance'["AR_CONTROL"] = balance["AR_CONTROL"] + (-pay.amount)
  BY <1>1 DEF PaymentChange, Shift
<1>3. pay.amount \in Nat /\ SumFunction(pay.allocated) \in Nat
  BY <1>2 DEF Settles
<1>4. /\ Charged(invoices') = Charged(invoices) /\ PaidWhenIssued(invoices')
      /\ SumFunction(PaidOf(invoices')) = SumFunction(PaidOf(invoices)) + SumFunction(pay.allocated)
      /\ \A i \in DOMAIN invoices : IsIssued(invoices[i]) => i \in DOMAIN invoices' /\ IsIssued(invoices'[i])
  BY <1>2, Booked, ChargedSettled DEF SalesBooked
<1>5. /\ SumFunction(AmountsOf(payments')) = SumFunction(AmountsOf(payments)) + pay.amount
      /\ SumFunction(AllocatedSums(payments')) = SumFunction(AllocatedSums(payments)) + SumFunction(pay.allocated)
  BY <1>0, <1>2, <1>3, Booked, PaymentsAdded
<1>6. \A n \in DOMAIN notes : notes[n].invoice \in DOMAIN invoices' /\ IsIssued(invoices'[notes[n].invoice])
  BY <1>4 DEF SalesBooked
<1>7. balance'["AR_CONTROL"] = SumFunction(Charged(invoices')) - SumFunction(Totals(notes'))
                               - SumFunction(AmountsOf(payments'))
  <2>1. /\ SumFunction(Charged(invoices)) \in Int /\ SumFunction(Totals(notes)) \in Int
        /\ SumFunction(AmountsOf(payments)) \in Int
    BY Booked, NumbersSum
  <2>2. QED
    BY <1>2, <1>3, <1>4, <1>5, <2>1 DEF SalesBooked
<1>8. QED
  BY <1>2, <1>4, <1>5, <1>6, <1>7 DEF SalesBooked

\* Every sales request keeps the receivables booked.
LEMMA SalesBookedStep ==
  ASSUME Tables, SalesBooked, SalesStep
  PROVE  SalesBooked'
<1>0. TypeOK
  BY DEF Tables
<1>1. CASE Fulfil
  <2>1. PICK i \in DOMAIN orders, row \in SalesOrderRow, ship \in FulfillmentRow : Shipped(i, row, ship)
    BY <1>1, FulfilSummary
  <2>2. balance'["AR_CONTROL"] = balance["AR_CONTROL"]
    BY <1>0, <2>1, BalancesType DEF Shipped, Shift, Balances
  <2>3. UNCHANGED <<invoices, notes, payments>>
    BY <1>1, SalesFrames
  <2>4. QED
    BY <2>2, <2>3, SalesBookedFrame
<1>2. CASE CreateQuotation \/ SetQuotationStatus \/ ConvertQuotation \/ CreateOrder \/ ConfirmOrder \/ CancelOrder
  <2>1. UNCHANGED <<invoices, notes, payments, balance>>
    BY <1>2, SalesFrames DEF books
  <2>2. QED
    BY <2>1, SalesBookedFrame
<1>3. QED
  BY <1>1, <1>2, CreateInvoiceBooked, IssueInvoiceBooked, CreditNoteBooked, RecordPaymentBooked
     DEF SalesStep

\* create_bill owes nothing.
LEMMA CreateBillBooked ==
  ASSUME Tables, PurchasesBooked, CreateBill
  PROVE  PurchasesBooked'
<1>0. bills \in Seq(SupplierBillRow)
  BY TypedRows DEF Tables
<1>1. PICK i \in DOMAIN purchaseOrders, d \in Date, row \in PurchaseOrderRow, doc \in SupplierBillRow :
            /\ BillChange(i, d, row, doc)
            /\ UNCHANGED <<goodsReceipts, supplierPayments, sales, books>>
  BY CreateBillSummary
<1>2. /\ bills' = Append(bills, doc) /\ doc.status = "DRAFT" /\ doc.paid = 0
      /\ supplierPayments' = supplierPayments /\ balance' = balance
  BY <1>1 DEF BillChange, books
<1>3. /\ SumFunction(Charged(bills')) = SumFunction(Charged(bills))
      /\ SumFunction(PaidOf(bills')) = SumFunction(PaidOf(bills))
      /\ PaidWhenIssued(bills')
  BY <1>0, <1>2, Booked, ChargedDrafted DEF PurchasesBooked
<1>4. QED
  BY <1>2, <1>3 DEF PurchasesBooked

\* issue_bill owes its total.
LEMMA IssueBillBooked ==
  ASSUME Tables, PurchasesBooked, IssueBill
  PROVE  PurchasesBooked'
<1>0. bills \in Seq(SupplierBillRow) /\ TypeOK
  BY TypedRows DEF Tables
<1>1. PICK i \in DOMAIN bills, doc \in SupplierBillRow : \E rows :
            /\ IssueBillChange(i, doc, rows)
            /\ Shift(0, -TotalOf(bills[i]), 0, bills[i].tax, 0, bills[i].net)
            /\ UNCHANGED <<purchaseOrders, goodsReceipts, supplierPayments, sales, onHand,
                           costPrice, returns>>
  BY IssueBillSummary
<1>2. /\ bills' = [bills EXCEPT ![i] = doc] /\ doc.status = "ISSUED" /\ doc.paid = bills[i].paid
      /\ bills[i].status = "DRAFT" /\ TotalOf(doc) = TotalOf(bills[i])
      /\ supplierPayments' = supplierPayments
      /\ balance'["AP_CONTROL"] = balance["AP_CONTROL"] + (-TotalOf(bills[i]))
  BY <1>1 DEF IssueBillChange, Shift, TotalOf
<1>3. PICK total : total = TotalOf(bills[i])
  OBVIOUS
<1>4. total \in Int
  BY <1>0, <1>3, Rows DEF TotalOf, SupplierBillRow
<1>5. /\ SumFunction(Charged(bills')) = SumFunction(Charged(bills)) + total
      /\ PaidOf(bills') = PaidOf(bills) /\ PaidWhenIssued(bills')
  <2>1. Numbers(Charged(bills)) /\ PaidWhenIssued(bills) /\ TotalOf(bills[i]) \in Int
    BY <1>3, <1>4, Booked DEF PurchasesBooked
  <2>2. Issues(bills, bills', i)
    BY <1>0, <1>2, Replaced DEF Issues
  <2>3. QED
    BY <1>3, <2>1, <2>2, ChargedIssued
<1>6. -balance'["AP_CONTROL"] = SumFunction(Charged(bills')) - SumFunction(AmountsOf(supplierPayments'))
  <2>1. SumFunction(Charged(bills)) \in Int /\ SumFunction(AmountsOf(supplierPayments)) \in Int
    BY Booked, NumbersSum
  <2>2. balance["AP_CONTROL"] \in Int
    BY <1>0, BalancesType DEF Balances
  <2>3. QED
    BY <1>2, <1>3, <1>4, <1>5, <2>1, <2>2 DEF PurchasesBooked
<1>7. QED
  BY <1>2, <1>5, <1>6 DEF PurchasesBooked

\* pay_supplier pays its amount.
LEMMA PaySupplierBooked ==
  ASSUME Tables, PurchasesBooked, PaySupplier
  PROVE  PurchasesBooked'
<1>0. supplierPayments \in Seq(PaymentRow(Supplier)) /\ TypeOK
  BY TypedRows DEF Tables
<1>1. PICK pay \in PaymentRow(Supplier) : SupplierPaymentChange(pay)
  BY PaySupplierSummary
<1>2. /\ supplierPayments' = Append(supplierPayments, pay) /\ Settles(pay, bills, bills')
      /\ balance'["AP_CONTROL"] = balance["AP_CONTROL"] + pay.amount
  BY <1>1 DEF SupplierPaymentChange, Shift
<1>3. pay.amount \in Nat /\ SumFunction(pay.allocated) \in Nat
  BY <1>2 DEF Settles
<1>4. /\ Charged(bills') = Charged(bills) /\ PaidWhenIssued(bills')
      /\ SumFunction(PaidOf(bills')) = SumFunction(PaidOf(bills)) + SumFunction(pay.allocated)
  BY <1>2, Booked, ChargedSettled DEF PurchasesBooked
<1>5. /\ SumFunction(AmountsOf(supplierPayments')) = SumFunction(AmountsOf(supplierPayments)) + pay.amount
      /\ SumFunction(AllocatedSums(supplierPayments'))
            = SumFunction(AllocatedSums(supplierPayments)) + SumFunction(pay.allocated)
  BY <1>0, <1>2, <1>3, Booked, PaymentsAdded
<1>6. -balance'["AP_CONTROL"] = SumFunction(Charged(bills')) - SumFunction(AmountsOf(supplierPayments'))
  <2>1. SumFunction(Charged(bills)) \in Int /\ SumFunction(AmountsOf(supplierPayments)) \in Int
    BY Booked, NumbersSum
  <2>2. PICK b, amount : b = balance["AP_CONTROL"] /\ amount = pay.amount
    OBVIOUS
  <2>3. b \in Int /\ amount \in Int
    BY <1>0, <1>3, <2>2, BalancesType DEF Balances
  <2>4. -b = SumFunction(Charged(bills)) - SumFunction(AmountsOf(supplierPayments))
    BY <2>2 DEF PurchasesBooked
  <2>5. -(b + amount) = SumFunction(Charged(bills)) - (SumFunction(AmountsOf(supplierPayments)) + amount)
    BY <2>1, <2>3, <2>4
  <2>6. QED
    BY <1>2, <1>4, <1>5, <2>2, <2>5
<1>7. QED
  BY <1>4, <1>5, <1>6 DEF PurchasesBooked

\* Every purchasing request keeps the payables booked.
LEMMA PurchasesBookedStep ==
  ASSUME Tables, PurchasesBooked, PurchaseStep
  PROVE  PurchasesBooked'
<1>0. TypeOK
  BY DEF Tables
<1>1. CASE Receive
  <2>1. PICK i \in DOMAIN purchaseOrders, row \in PurchaseOrderRow, receipt \in GoodsReceiptRow :
            Shift(0, 0, 0, 0, PostedCost(receipt.cost), -PostedCost(receipt.cost))
    BY <1>1, ReceiveSummary
  <2>2. balance'["AP_CONTROL"] = balance["AP_CONTROL"]
    BY <1>0, <2>1, BalancesType DEF Shift, Balances
  <2>3. UNCHANGED <<bills, supplierPayments>>
    BY <1>1, PurchaseFrames
  <2>4. QED
    BY <2>2, <2>3, PurchasesBookedFrame
<1>2. CASE CreatePurchaseOrder \/ ConfirmPurchaseOrder \/ CancelPurchaseOrder
  <2>1. UNCHANGED <<bills, supplierPayments, balance>>
    BY <1>2, PurchaseFrames DEF books
  <2>2. QED
    BY <2>1, PurchasesBookedFrame
<1>3. QED
  BY <1>1, <1>2, CreateBillBooked, IssueBillBooked, PaySupplierBooked DEF PurchaseStep

\* Sales leave the payables alone, purchases the receivables.
LEMMA OtherAccount ==
  ASSUME Tables
  PROVE  /\ SalesStep => balance'["AP_CONTROL"] = balance["AP_CONTROL"]
         /\ PurchaseStep => balance'["AR_CONTROL"] = balance["AR_CONTROL"]
<1>0. Balances
  BY BalancesType DEF Tables
<1>1. ASSUME NEW a, NEW b, NEW c, NEW d, NEW e, Shift(a, 0, b, c, d, e)
      PROVE  balance'["AP_CONTROL"] = balance["AP_CONTROL"]
  BY <1>0, <1>1 DEF Shift, Balances
<1>2. ASSUME NEW a, NEW b, NEW c, NEW d, NEW e, Shift(0, a, b, c, d, e)
      PROVE  balance'["AR_CONTROL"] = balance["AR_CONTROL"]
  BY <1>0, <1>2 DEF Shift, Balances
<1>3. ASSUME SalesStep PROVE balance'["AP_CONTROL"] = balance["AP_CONTROL"]
  <2>1. CASE Fulfil
    BY <1>1, <2>1, FulfilSummary DEF Shipped
  <2>2. CASE IssueInvoice
    BY <1>1, <2>2, IssueInvoiceSummary
  <2>3. CASE IssueCreditNote
    BY <1>1, <2>3, CreditNoteSummary
  <2>4. CASE RecordPayment
    BY <1>1, <2>4, RecordPaymentSummary DEF PaymentChange
  <2>5. CASE \/ CreateQuotation \/ SetQuotationStatus \/ ConvertQuotation \/ CreateOrder \/ ConfirmOrder
             \/ CancelOrder \/ CreateInvoice
    BY <2>5, SalesFrames DEF books
  <2>6. QED
    BY <1>3, <2>1, <2>2, <2>3, <2>4, <2>5 DEF SalesStep
<1>4. ASSUME PurchaseStep PROVE balance'["AR_CONTROL"] = balance["AR_CONTROL"]
  <2>1. CASE Receive
    BY <1>2, <2>1, ReceiveSummary
  <2>2. CASE IssueBill
    BY <1>2, <2>2, IssueBillSummary
  <2>3. CASE PaySupplier
    BY <1>2, <2>3, PaySupplierSummary DEF SupplierPaymentChange
  <2>4. CASE CreatePurchaseOrder \/ ConfirmPurchaseOrder \/ CancelPurchaseOrder \/ CreateBill
    BY <2>4, PurchaseFrames DEF books
  <2>5. QED
    BY <1>4, <2>1, <2>2, <2>3, <2>4 DEF PurchaseStep
<1>5. QED
  BY <1>3, <1>4

\* Every step keeps both booked.
LEMMA BookedStep ==
  ASSUME Tables, SalesBooked, PurchasesBooked, [Next]_vars
  PROVE  SalesBooked' /\ PurchasesBooked'
<1>1. CASE SalesStep /\ UNCHANGED purchases
  <2>1. UNCHANGED <<bills, supplierPayments>>
    BY <1>1 DEF purchases
  <2>2. QED
    BY <1>1, <2>1, SalesBookedStep, OtherAccount, PurchasesBookedFrame
<1>2. CASE PurchaseStep /\ UNCHANGED sales
  <2>1. UNCHANGED <<invoices, notes, payments>>
    BY <1>2 DEF sales
  <2>2. QED
    BY <1>2, <2>1, PurchasesBookedStep, OtherAccount, SalesBookedFrame
<1>3. ASSUME UNCHANGED <<balance, sales, purchases>> PROVE SalesBooked' /\ PurchasesBooked'
  BY <1>3, SalesBookedFrame, PurchasesBookedFrame DEF sales, purchases
<1>4. CASE PrepareReturn
  <2>1. UNCHANGED <<balance, sales, purchases>>
    BY <1>4 DEF PrepareReturn, prepare_return
  <2>2. QED
    BY <1>3, <2>1
<1>5. CASE FileReturn
  <2>1. UNCHANGED <<balance, sales, purchases>>
    BY <1>5 DEF FileReturn, file_return
  <2>2. QED
    BY <1>3, <2>1
<1>6. CASE UNCHANGED vars
  BY <1>3, <1>6 DEF vars, books
<1>7. QED
  BY <1>1, <1>2, <1>4, <1>5, <1>6, Steps

\* At the start nothing is booked.
LEMMA BookedInit ==
  ASSUME Init
  PROVE  SalesBooked /\ PurchasesBooked
<1>1. /\ invoices = <<>> /\ payments = <<>> /\ notes = <<>> /\ bills = <<>> /\ supplierPayments = <<>>
      /\ balance = [a \in SystemAccount |-> 0]
  BY DEF Init, BooksInit, SalesInit, PurchasingInit
<1>2. balance["AR_CONTROL"] = 0 /\ balance["AP_CONTROL"] = 0
  BY <1>1 DEF SystemAccount
<1>3. /\ DOMAIN Charged(invoices) = {} /\ DOMAIN Totals(notes) = {} /\ DOMAIN AmountsOf(payments) = {}
      /\ DOMAIN PaidOf(invoices) = {} /\ DOMAIN AllocatedSums(payments) = {}
      /\ DOMAIN Charged(bills) = {} /\ DOMAIN AmountsOf(supplierPayments) = {}
      /\ DOMAIN PaidOf(bills) = {} /\ DOMAIN AllocatedSums(supplierPayments) = {}
  BY <1>1 DEF Charged, Totals, AmountsOf, PaidOf, AllocatedSums
<1>4. /\ SumFunction(Charged(invoices)) = 0 /\ SumFunction(Totals(notes)) = 0
      /\ SumFunction(AmountsOf(payments)) = 0 /\ SumFunction(PaidOf(invoices)) = 0
      /\ SumFunction(AllocatedSums(payments)) = 0 /\ SumFunction(Charged(bills)) = 0
      /\ SumFunction(AmountsOf(supplierPayments)) = 0 /\ SumFunction(PaidOf(bills)) = 0
      /\ SumFunction(AllocatedSums(supplierPayments)) = 0
  BY <1>3, SumOfNone
<1>5. PaidWhenIssued(invoices) /\ PaidWhenIssued(bills) /\ DOMAIN notes = {}
  BY <1>1 DEF PaidWhenIssued
<1>6. /\ balance["AR_CONTROL"] = SumFunction(Charged(invoices)) - SumFunction(Totals(notes))
                               - SumFunction(AmountsOf(payments))
      /\ -balance["AP_CONTROL"] = SumFunction(Charged(bills)) - SumFunction(AmountsOf(supplierPayments))
  <2>1. PICK net : net = SumFunction(Charged(bills)) - SumFunction(AmountsOf(supplierPayments))
    OBVIOUS
  <2>2. net \in Int /\ balance["AP_CONTROL"] \in Int /\ balance["AP_CONTROL"] + net = 0
    BY <1>2, <1>4, <2>1
  <2>3. -balance["AP_CONTROL"] = net
    BY <2>2, Opposite
  <2>4. QED
    BY <1>2, <1>4, <2>1, <2>3
<1>7. SumFunction(PaidOf(invoices)) = SumFunction(AllocatedSums(payments))
      /\ SumFunction(PaidOf(bills)) = SumFunction(AllocatedSums(supplierPayments))
  BY <1>4
<1>8. QED
  BY <1>5, <1>6, <1>7, Zenon DEF SalesBooked, PurchasesBooked

\* What payments do not allocate, as a difference of two sums.
LEMMA UnallocatedIs ==
  ASSUME NEW pays, Numbers(AmountsOf(pays)), Numbers(AllocatedSums(pays))
  PROVE  /\ Unallocated(pays) = SumFunction(AmountsOf(pays)) - SumFunction(AllocatedSums(pays))
         /\ SumFunction(AmountsOf(pays)) \in Int /\ SumFunction(AllocatedSums(pays)) \in Int
<1>1. PICK h : h = [y \in DOMAIN pays |-> pays[y].amount - SumFunction(pays[y].allocated)]
  OBVIOUS
<1>2. PICK f, g : f = AmountsOf(pays) /\ g = AllocatedSums(pays)
  OBVIOUS
<1>3. /\ DOMAIN g = DOMAIN f /\ DOMAIN h = DOMAIN f /\ \A x \in DOMAIN f : h[x] = f[x] - g[x]
  BY <1>1, <1>2 DEF AmountsOf, AllocatedSums
<1>4. Numbers(f) /\ Numbers(g)
  BY <1>2
<1>5. SumFunction(h) = SumFunction(f) - SumFunction(g) /\ SumFunction(f) \in Int /\ SumFunction(g) \in Int
  BY <1>3, <1>4, SumMinus
<1>6. QED
  BY <1>1, <1>2, <1>5 DEF Unallocated

\* The credits of the invoices are all the credit notes.
LEMMA CreditsAre ==
  ASSUME Tables, SalesBooked, NEW credits, credits = [i \in DOMAIN invoices |-> CreditedOn(i)]
  PROVE  /\ SumFunction(credits) = SumFunction(Totals(notes)) /\ Numbers(credits)
         /\ \A i \in DOMAIN invoices : ~IsIssued(invoices[i]) => credits[i] = 0
<1>1. PICK f, k : f = Totals(notes) /\ k = [n \in DOMAIN notes |-> notes[n].invoice]
  OBVIOUS
<1>2. Numbers(f) /\ DOMAIN f = DOMAIN notes /\ DOMAIN k = DOMAIN notes
  BY <1>1, Booked DEF Totals
<1>3. \A n \in DOMAIN f : k[n] \in DOMAIN invoices /\ IsIssued(invoices[k[n]])
  BY <1>1, <1>2 DEF SalesBooked
<1>4. IsFiniteSet(DOMAIN invoices)
  BY TablesFinite DEF Tables
<1>5. ASSUME NEW i
      PROVE  CreditedOn(i) = SumFunction(Part(f, {n \in DOMAIN f : k[n] = i}))
  <2>1. PICK ids : ids = {n \in DOMAIN notes : notes[n].invoice = i}
    OBVIOUS
  <2>2. {n \in DOMAIN f : k[n] = i} = ids /\ ids \subseteq DOMAIN notes
    BY <1>1, <1>2, <2>1
  <2>3. [n \in ids |-> TotalOf(notes[n])] = Part(f, ids)
    BY <1>1, <2>2 DEF Part, Totals
  <2>4. QED
    BY <2>1, <2>2, <2>3 DEF CreditedOn
<1>6. SumFunction(credits) = SumFunction(f)
  <2>1. /\ DOMAIN credits = DOMAIN invoices
        /\ \A r \in DOMAIN invoices : credits[r] = SumFunction(Part(f, {i \in DOMAIN f : k[i] = r}))
    BY <1>5
  <2>2. QED
    BY <1>2, <1>3, <1>4, <2>1, PerParty
<1>7. \A i \in DOMAIN invoices : credits[i] \in Int
  <2>1. SUFFICES ASSUME NEW i \in DOMAIN invoices PROVE SumFunction(Part(f, {n \in DOMAIN f : k[n] = i})) \in Int
    BY <1>5
  <2>2. PICK D : D = DOMAIN f
    OBVIOUS
  <2>3. IsFiniteSet(D) /\ \A x \in D : f[x] \in Int
    BY <1>2, <2>2 DEF Numbers
  <2>4. {n \in DOMAIN f : k[n] = i} \in SUBSET D
    BY <2>2
  <2>5. QED
    BY <2>3, <2>4, PartInt
<1>8. ASSUME NEW i \in DOMAIN invoices, ~IsIssued(invoices[i]) PROVE credits[i] = 0
  <2>1. PICK none : none = {n \in DOMAIN f : k[n] = i}
    OBVIOUS
  <2>2. none = {}
    BY <1>3, <1>8, <2>1
  <2>3. credits[i] = SumFunction(Part(f, none))
    BY <1>5, <2>1
  <2>4. QED
    BY <2>2, <2>3, PartNone
<1>9. QED
  BY <1>1, <1>4, <1>6, <1>7, <1>8 DEF Numbers

\* The receivables reports, as sums of tables.
LEMMA ReceivablesAre ==
  ASSUME Tables, SalesBooked
  PROVE  SumFunction([c \in Customer |-> receivables(c)])
            = SumFunction(Charged(invoices)) - SumFunction(Totals(notes)) - SumFunction(PaidOf(invoices))
<1>0. /\ \A i \in DOMAIN invoices : invoices[i].customer \in Customer
      /\ IsFiniteSet(DOMAIN invoices) /\ IsFiniteSet(Customer)
  BY Rows, TablesFinite, SalesAssumption DEF Tables, InvoiceRow
<1>1. PICK credits : credits = [i \in DOMAIN invoices |-> CreditedOn(i)]
  OBVIOUS
<1>2. /\ SumFunction(credits) = SumFunction(Totals(notes)) /\ Numbers(credits)
      /\ \A i \in DOMAIN invoices : ~IsIssued(invoices[i]) => credits[i] = 0
      /\ DOMAIN credits = DOMAIN invoices
  BY <1>1, CreditsAre
<1>3. PICK charged, paid : charged = Charged(invoices) /\ paid = PaidOf(invoices)
  OBVIOUS
<1>4. /\ Numbers(charged) /\ Numbers(paid) /\ DOMAIN charged = DOMAIN invoices
      /\ DOMAIN paid = DOMAIN invoices
  BY <1>3, Booked DEF Charged, PaidOf
<1>5. PICK net : net = [i \in DOMAIN invoices |-> charged[i] - credits[i]]
  OBVIOUS
<1>6. PICK h : h = [i \in DOMAIN invoices |-> net[i] - paid[i]]
  OBVIOUS
<1>7. SumFunction(net) = SumFunction(charged) - SumFunction(credits) /\ Numbers(net)
  <2>1. /\ DOMAIN credits = DOMAIN charged /\ DOMAIN net = DOMAIN charged
        /\ \A i \in DOMAIN charged : net[i] = charged[i] - credits[i]
    BY <1>2, <1>4, <1>5
  <2>2. QED
    BY <1>2, <1>4, <2>1, SumMinus
<1>8. SumFunction(h) = SumFunction(net) - SumFunction(paid) /\ Numbers(h)
  <2>1. /\ DOMAIN paid = DOMAIN net /\ DOMAIN h = DOMAIN net
        /\ \A i \in DOMAIN net : h[i] = net[i] - paid[i]
    BY <1>4, <1>5, <1>6
  <2>2. QED
    BY <1>4, <1>7, <2>1, SumMinus
<1>9. PICK due : due = [i \in IssuedDocs(invoices) |->
                            TotalOf(invoices[i]) - CreditedOn(i) - invoices[i].paid]
  OBVIOUS
<1>10. /\ DOMAIN due \subseteq DOMAIN invoices /\ \A i \in DOMAIN due : IsIssued(invoices[i])
       /\ \A i \in DOMAIN invoices \ DOMAIN due : ~IsIssued(invoices[i])
       /\ DOMAIN due = IssuedDocs(invoices)
  BY <1>9 DEF IssuedDocs, IsIssued
<1>11. /\ \A i \in DOMAIN due : h[i] = due[i]
       /\ \A i \in DOMAIN h \ DOMAIN due : h[i] = 0
  <2>1. ASSUME NEW i \in DOMAIN due PROVE h[i] = due[i]
    <3>1. /\ h[i] = charged[i] - credits[i] - paid[i] /\ charged[i] = TotalOf(invoices[i])
          /\ credits[i] = CreditedOn(i) /\ paid[i] = invoices[i].paid
      BY <1>1, <1>3, <1>5, <1>6, <1>10 DEF Charged, PaidOf
    <3>2. due[i] = TotalOf(invoices[i]) - CreditedOn(i) - invoices[i].paid
      BY <1>9, <1>10
    <3>3. QED
      BY <3>1, <3>2
  <2>2. ASSUME NEW i \in DOMAIN h \ DOMAIN due PROVE h[i] = 0
    <3>1. i \in DOMAIN invoices /\ ~IsIssued(invoices[i])
      BY <1>6, <1>10
    <3>2. charged[i] = 0 /\ credits[i] = 0 /\ paid[i] = 0
      BY <1>2, <1>3, <3>1 DEF Charged, PaidOf, SalesBooked, PaidWhenIssued
    <3>3. QED
      BY <1>5, <1>6, <3>1, <3>2
  <2>3. QED
    BY <2>1, <2>2
<1>12. Numbers(due)
  BY <1>0, <1>6, <1>8, <1>10, <1>11, FS_Subset DEF Numbers
<1>13. SumFunction(h) = SumFunction(due)
  BY <1>6, <1>8, <1>10, <1>11, <1>12, SumNonZero
<1>14. PICK sums : sums = [c \in Customer |-> receivables(c)]
  OBVIOUS
<1>15. SumFunction(sums) = SumFunction(due)
  <2>1. PICK party : party = [i \in DOMAIN invoices |-> invoices[i].customer]
    OBVIOUS
  <2>2. \A i \in DOMAIN due : party[i] \in Customer
    BY <1>0, <1>10, <2>1
  <2>3. ASSUME NEW c \in Customer
        PROVE  sums[c] = SumFunction(Part(due, {i \in DOMAIN due : party[i] = c}))
    <3>1. PICK ids : ids = {i \in IssuedDocs(invoices) : invoices[i].customer = c}
      OBVIOUS
    <3>2. {i \in DOMAIN due : party[i] = c} = ids /\ ids \subseteq DOMAIN due
      BY <1>10, <2>1, <3>1
    <3>3. [i \in ids |-> TotalOf(invoices[i]) - CreditedOn(i) - invoices[i].paid] = Part(due, ids)
      BY <1>9, <1>10, <3>2 DEF Part
    <3>4. QED
      BY <1>14, <3>1, <3>2, <3>3 DEF receivables
  <2>4. QED
    BY <1>0, <1>12, <1>14, <2>2, <2>3, PerParty
<1>16. QED
  BY <1>2, <1>3, <1>7, <1>8, <1>13, <1>14, <1>15

\* The payables reports, as sums of tables.
LEMMA PayablesAre ==
  ASSUME Tables, PurchasesBooked
  PROVE  SumFunction([s \in Supplier |-> payables(s)])
            = SumFunction(Charged(bills)) - SumFunction(PaidOf(bills))
<1>0. /\ \A i \in DOMAIN bills : bills[i].supplier \in Supplier
      /\ IsFiniteSet(DOMAIN bills) /\ IsFiniteSet(Supplier)
  BY Rows, TablesFinite, PurchasingAssumption DEF Tables, SupplierBillRow
<1>3. PICK charged, paid : charged = Charged(bills) /\ paid = PaidOf(bills)
  OBVIOUS
<1>4. /\ Numbers(charged) /\ Numbers(paid) /\ DOMAIN charged = DOMAIN bills
      /\ DOMAIN paid = DOMAIN bills
  BY <1>3, Booked DEF Charged, PaidOf
<1>6. PICK h : h = [i \in DOMAIN bills |-> charged[i] - paid[i]]
  OBVIOUS
<1>8. SumFunction(h) = SumFunction(charged) - SumFunction(paid) /\ Numbers(h)
  <2>1. /\ DOMAIN paid = DOMAIN charged /\ DOMAIN h = DOMAIN charged
        /\ \A i \in DOMAIN charged : h[i] = charged[i] - paid[i]
    BY <1>4, <1>6
  <2>2. QED
    BY <1>4, <2>1, SumMinus
<1>9. PICK due : due = [i \in IssuedDocs(bills) |-> TotalOf(bills[i]) - bills[i].paid]
  OBVIOUS
<1>10. /\ DOMAIN due \subseteq DOMAIN bills /\ \A i \in DOMAIN due : IsIssued(bills[i])
       /\ \A i \in DOMAIN bills \ DOMAIN due : ~IsIssued(bills[i])
       /\ DOMAIN due = IssuedDocs(bills)
  BY <1>9 DEF IssuedDocs, IsIssued
<1>11. /\ \A i \in DOMAIN due : h[i] = due[i]
       /\ \A i \in DOMAIN h \ DOMAIN due : h[i] = 0
  <2>1. ASSUME NEW i \in DOMAIN due PROVE h[i] = due[i]
    <3>1. /\ h[i] = charged[i] - paid[i] /\ charged[i] = TotalOf(bills[i])
          /\ paid[i] = bills[i].paid
      BY <1>3, <1>6, <1>10 DEF Charged, PaidOf
    <3>2. due[i] = TotalOf(bills[i]) - bills[i].paid
      BY <1>9, <1>10
    <3>3. QED
      BY <3>1, <3>2
  <2>2. ASSUME NEW i \in DOMAIN h \ DOMAIN due PROVE h[i] = 0
    <3>1. i \in DOMAIN bills /\ ~IsIssued(bills[i])
      BY <1>6, <1>10
    <3>2. charged[i] = 0 /\ paid[i] = 0
      BY <1>3, <3>1 DEF Charged, PaidOf, PurchasesBooked, PaidWhenIssued
    <3>3. QED
      BY <1>6, <3>1, <3>2
  <2>3. QED
    BY <2>1, <2>2
<1>12. Numbers(due)
  BY <1>0, <1>6, <1>8, <1>10, <1>11, FS_Subset DEF Numbers
<1>13. SumFunction(h) = SumFunction(due)
  BY <1>6, <1>8, <1>10, <1>11, <1>12, SumNonZero
<1>14. PICK sums : sums = [s \in Supplier |-> payables(s)]
  OBVIOUS
<1>15. SumFunction(sums) = SumFunction(due)
  <2>1. PICK party : party = [i \in DOMAIN bills |-> bills[i].supplier]
    OBVIOUS
  <2>2. \A i \in DOMAIN due : party[i] \in Supplier
    BY <1>0, <1>10, <2>1
  <2>3. ASSUME NEW s \in Supplier
        PROVE  sums[s] = SumFunction(Part(due, {i \in DOMAIN due : party[i] = s}))
    <3>1. PICK ids : ids = {i \in IssuedDocs(bills) : bills[i].supplier = s}
      OBVIOUS
    <3>2. {i \in DOMAIN due : party[i] = s} = ids /\ ids \subseteq DOMAIN due
      BY <1>10, <2>1, <3>1
    <3>3. [i \in ids |-> TotalOf(bills[i]) - bills[i].paid] = Part(due, ids)
      BY <1>9, <1>10, <3>2 DEF Part
    <3>4. QED
      BY <1>14, <3>1, <3>2, <3>3 DEF payables
  <2>4. QED
    BY <1>0, <1>12, <1>14, <2>2, <2>3, PerParty
<1>16. QED
  BY <1>3, <1>8, <1>13, <1>14, <1>15

\* The control accounts, in the words of the property.
LEMMA BookedIs ==
  ASSUME Tables, SalesBooked, PurchasesBooked
  PROVE  SubledgersAgree
<1>1. /\ SumFunction(Charged(invoices)) \in Int /\ SumFunction(Totals(notes)) \in Int
      /\ SumFunction(AmountsOf(payments)) \in Int /\ SumFunction(PaidOf(invoices)) \in Int
      /\ SumFunction(Charged(bills)) \in Int /\ SumFunction(AmountsOf(supplierPayments)) \in Int
      /\ SumFunction(PaidOf(bills)) \in Int
  BY Booked, NumbersSum
<1>2. /\ Unallocated(payments) = SumFunction(AmountsOf(payments)) - SumFunction(PaidOf(invoices))
      /\ Unallocated(supplierPayments) = SumFunction(AmountsOf(supplierPayments)) - SumFunction(PaidOf(bills))
  BY Booked, UnallocatedIs DEF SalesBooked, PurchasesBooked
<1>3. balance["AR_CONTROL"] = SumFunction([c \in Customer |-> receivables(c)]) - Unallocated(payments)
  BY <1>1, <1>2, ReceivablesAre DEF SalesBooked
<1>4. -balance["AP_CONTROL"] = SumFunction([s \in Supplier |-> payables(s)]) - Unallocated(supplierPayments)
  BY <1>1, <1>2, PayablesAre DEF PurchasesBooked
<1>5. QED
  BY <1>3, <1>4 DEF SubledgersAgree

(* The control accounts are the receivables and payables reports, less the *)
(* payments not allocated.                                                 *)

THEOREM SubledgersHold == Spec => []SubledgersAgree
<1>1. Init => SalesBooked /\ PurchasesBooked
  BY BookedInit
<1>2. Tables /\ SalesBooked /\ PurchasesBooked /\ [Next]_vars => SalesBooked' /\ PurchasesBooked'
  BY BookedStep
<1>3. Tables /\ SalesBooked /\ PurchasesBooked => SubledgersAgree
  BY BookedIs
<1>4. QED
  BY <1>1, <1>2, <1>3, TablesCorrect, PTL DEF Spec

-----------------------------------------------------------------------------
(* The stock of each warehouse: an order keeps the warehouse it names, so  *)
(* a shipment and a receipt stay with the warehouse they moved goods out   *)
(* of or into, and every movement of goods is one document more.           *)

\* To the documents docs of ids comes document k.
OneMore(docs, ids, new, k) ==
    /\ IsFiniteSet(ids) /\ k \notin ids /\ Countable(new[k].qty)
    /\ \A j \in ids : new[j] = docs[j] /\ Countable(docs[j].qty)

\* Quantities of documents, and one more document if it is one of them.
LEMMA QtyMore ==
  ASSUME NEW docs, NEW ids, NEW new, NEW k, NEW p, OneMore(docs, ids, new, k), NEW c \in BOOLEAN,
         NEW is, is = IF c THEN ids \cup {k} ELSE ids
  PROVE  /\ QtyOf(docs, ids, p) \in Nat /\ On(new[k].qty, p) \in Nat
         /\ QtyOf(new, is, p) = QtyOf(docs, ids, p) + IF c THEN On(new[k].qty, p) ELSE 0
<1>1. PICK f, g : /\ f = [j \in ids |-> QtyOn(docs[j], p)]
                  /\ g = [j \in ids \cup {k} |-> QtyOn(new[j], p)]
  OBVIOUS
<1>2. /\ DOMAIN f = ids /\ \A j \in ids : f[j] = On(docs[j].qty, p) /\ f[j] \in Nat
      /\ DOMAIN g = ids \cup {k} /\ \A j \in ids : g[j] = f[j]
      /\ g[k] = On(new[k].qty, p) /\ g[k] \in Nat
  BY <1>1 DEF QtyOn, On, Countable, OneMore
<1>3. Numbers(f) /\ k \notin DOMAIN f
  BY <1>2 DEF Numbers, OneMore
<1>4. SumFunction(g) = SumFunction(f) + g[k]
  BY <1>2, <1>3, SumOneMore
<1>5. SumFunction(f) \in Nat
  BY <1>2, <1>3, SumNat DEF Numbers
<1>6. [j \in ids |-> QtyOn(new[j], p)] = f
  BY <1>1 DEF OneMore
<1>7. CASE c
  BY <1>1, <1>2, <1>4, <1>5, <1>7 DEF QtyOf
<1>8. CASE ~c
  BY <1>1, <1>2, <1>5, <1>6, <1>8 DEF QtyOf
<1>9. QED
  BY <1>7, <1>8

\* No document yet.
LEMMA QtyNone ==
  ASSUME NEW docs, NEW p
  PROVE  QtyOf(docs, {}, p) = 0
BY SumOfNone DEF QtyOf

\* Orders that keep the warehouse they name.
SameWarehouses(os, ns) == \A i \in DOMAIN os : i \in DOMAIN ns /\ ns[i].warehouse = os[i].warehouse

\* No sales request moves an order to another warehouse.
LEMMA SalesWarehouses ==
  ASSUME TypeOK, SalesStep
  PROVE  SameWarehouses(orders, orders')
<1>1. orders \in Seq(SalesOrderRow) /\ \A i \in DOMAIN orders : orders[i] \in SalesOrderRow
  BY TypedRows, Rows
<1>2. ASSUME NEW i \in DOMAIN orders, NEW ls, NEW st
      PROVE  /\ SameWarehouses(orders, [orders EXCEPT ![i].lines = ls, ![i].status = st])
             /\ SameWarehouses(orders, [orders EXCEPT ![i].status = st])
             /\ SameWarehouses(orders, [orders EXCEPT ![i].lines = ls])
  BY <1>1 DEF SameWarehouses, SalesOrderRow
<1>3. ASSUME NEW new PROVE SameWarehouses(orders, Append(orders, new))
  <2>1. \A i \in DOMAIN orders : i \in DOMAIN Append(orders, new) /\ Append(orders, new)[i] = orders[i]
    BY <1>1
  <2>2. QED
    BY <2>1 DEF SameWarehouses
<1>4. CASE Fulfil
  <2>1. PICK i \in DOMAIN orders : \E qty, read : fulfil(i, qty, read)
    BY <1>4 DEF Fulfil
  <2>2. PICK qty, read : fulfil(i, qty, read)
    BY <2>1
  <2>3. PICK ls, st : orders' = [orders EXCEPT ![i].lines = ls, ![i].status = st]
    BY <2>2, Zenon DEF fulfil
  <2>4. SameWarehouses(orders, [orders EXCEPT ![i].lines = ls, ![i].status = st])
    BY <1>2, Zenon
  <2>5. QED
    BY <2>3, <2>4, Zenon
<1>5. CASE CreateInvoice
  BY <1>2, <1>5 DEF CreateInvoice, create_invoice
<1>6. CASE ConfirmOrder \/ CancelOrder
  BY <1>2, <1>6 DEF ConfirmOrder, confirm_order, CancelOrder, cancel_order
<1>7. CASE ConvertQuotation \/ CreateOrder
  BY <1>3, <1>7 DEF ConvertQuotation, convert_quotation, CreateOrder, create_order
<1>8. CASE UNCHANGED orders
  BY <1>8 DEF SameWarehouses
<1>9. QED
  BY <1>4, <1>5, <1>6, <1>7, <1>8, SalesFrames DEF SalesStep

\* No purchasing request moves a purchase order to another warehouse.
LEMMA PurchaseWarehouses ==
  ASSUME TypeOK, PurchaseStep
  PROVE  SameWarehouses(purchaseOrders, purchaseOrders')
<1>1. /\ purchaseOrders \in Seq(PurchaseOrderRow)
      /\ \A i \in DOMAIN purchaseOrders : purchaseOrders[i] \in PurchaseOrderRow
  BY TypedRows, Rows
<1>2. ASSUME NEW i \in DOMAIN purchaseOrders, NEW ls, NEW st
      PROVE  /\ SameWarehouses(purchaseOrders, [purchaseOrders EXCEPT ![i].lines = ls, ![i].status = st])
             /\ SameWarehouses(purchaseOrders, [purchaseOrders EXCEPT ![i].status = st])
             /\ SameWarehouses(purchaseOrders, [purchaseOrders EXCEPT ![i].lines = ls])
  BY <1>1 DEF SameWarehouses, PurchaseOrderRow
<1>3. ASSUME NEW new PROVE SameWarehouses(purchaseOrders, Append(purchaseOrders, new))
  <2>1. \A i \in DOMAIN purchaseOrders : /\ i \in DOMAIN Append(purchaseOrders, new)
                                         /\ Append(purchaseOrders, new)[i] = purchaseOrders[i]
    BY <1>1
  <2>2. QED
    BY <2>1 DEF SameWarehouses
<1>4. CASE Receive
  <2>1. PICK i \in DOMAIN purchaseOrders : \E qty, override, read : receive(i, qty, override, read)
    BY <1>4 DEF Receive
  <2>2. PICK qty, override, read : receive(i, qty, override, read)
    BY <2>1
  <2>3. PICK ls, st : purchaseOrders' = [purchaseOrders EXCEPT ![i].lines = ls, ![i].status = st]
    BY <2>2, Zenon DEF receive
  <2>4. SameWarehouses(purchaseOrders, [purchaseOrders EXCEPT ![i].lines = ls, ![i].status = st])
    BY <1>2, Zenon
  <2>5. QED
    BY <2>3, <2>4, Zenon
<1>5. CASE CreateBill
  BY <1>2, <1>5 DEF CreateBill, create_bill
<1>6. CASE ConfirmPurchaseOrder \/ CancelPurchaseOrder
  BY <1>2, <1>6 DEF ConfirmPurchaseOrder, confirm_purchase_order, CancelPurchaseOrder,
                    cancel_purchase_order
<1>7. CASE CreatePurchaseOrder
  BY <1>3, <1>7 DEF CreatePurchaseOrder, create_purchase_order
<1>8. CASE UNCHANGED purchaseOrders
  BY <1>8 DEF SameWarehouses
<1>9. QED
  BY <1>4, <1>5, <1>6, <1>7, <1>8, PurchaseFrames DEF PurchaseStep

\* The documents of an order are documents of its warehouse.
LEMMA OrdersKnown ==
  ASSUME Tables
  PROVE  /\ \A j \in DOMAIN shipments : shipments[j].order \in DOMAIN orders
         /\ \A j \in DOMAIN goodsReceipts : goodsReceipts[j].order \in DOMAIN purchaseOrders
BY DEF Tables, SalesChecks, FulfillmentKeys, PurchasingChecks, GoodsReceiptKeys

\* Documents stay with their warehouse.
LEMMA PlacesKept ==
  ASSUME Tables, NEW w
  PROVE  /\ SameWarehouses(orders, orders') /\ UNCHANGED shipments => UNCHANGED ShippedFrom(w)
         /\ SameWarehouses(purchaseOrders, purchaseOrders') /\ UNCHANGED goodsReceipts =>
                UNCHANGED ReceivedInto(w)
         /\ UNCHANGED notes => UNCHANGED RestockedInto(w)
BY OrdersKnown DEF SameWarehouses, ShippedFrom, ReceivedInto, RestockedInto

\* Quantities are counted in natural numbers.
LEMMA QtyOfType ==
  ASSUME NEW docs, NEW ids, IsFiniteSet(ids), NEW p, \A j \in ids : Countable(docs[j].qty)
  PROVE  QtyOf(docs, ids, p) \in Nat
<1>1. PICK f : f = [j \in ids |-> QtyOn(docs[j], p)]
  OBVIOUS
<1>2. IsFiniteSet(DOMAIN f) /\ \A j \in DOMAIN f : f[j] \in Nat
  BY <1>1 DEF QtyOn, On, Countable
<1>3. SumFunction(f) \in Nat
  BY <1>2, SumNat
<1>4. QED
  BY <1>1, <1>3 DEF QtyOf

\* What was received, restocked and shipped are natural numbers.
LEMMA PlacesType ==
  ASSUME TypeOK, NEW w, NEW p
  PROVE  /\ IsFiniteSet(ShippedFrom(w)) /\ IsFiniteSet(ReceivedInto(w)) /\ IsFiniteSet(RestockedInto(w))
         /\ ShippedFrom(w) \subseteq DOMAIN shipments /\ ReceivedInto(w) \subseteq DOMAIN goodsReceipts
         /\ RestockedInto(w) \subseteq DOMAIN notes
         /\ QtyOf(shipments, ShippedFrom(w), p) \in Nat
         /\ QtyOf(goodsReceipts, ReceivedInto(w), p) \in Nat
         /\ QtyOf(notes, RestockedInto(w), p) \in Nat
<1>1. /\ ShippedFrom(w) \subseteq DOMAIN shipments /\ ReceivedInto(w) \subseteq DOMAIN goodsReceipts
      /\ RestockedInto(w) \subseteq DOMAIN notes
  BY DEF ShippedFrom, ReceivedInto, RestockedInto
<1>2. IsFiniteSet(ShippedFrom(w)) /\ IsFiniteSet(ReceivedInto(w)) /\ IsFiniteSet(RestockedInto(w))
  BY <1>1, TablesFinite, FS_Subset
<1>3. QED
  BY <1>1, <1>2, QtyOfType, QtyRows

\* The two halves of the property.
GoodsCounted(w, p) ==
    onHand[w][p] = OpeningStock + QtyOf(goodsReceipts, ReceivedInto(w), p)
                   + QtyOf(notes, RestockedInto(w), p) - QtyOf(shipments, ShippedFrom(w), p)

CostsPosted(docs) == [r \in DOMAIN docs |-> PostedCost(docs[r].cost)]

GoodsBooked == balance["INVENTORY"] + balance["COGS"] = SumFunction(CostsPosted(goodsReceipts))

\* The property, by halves.
LEMMA StockFollowsIs ==
  StockFollowsDocuments <=> (\A w \in Warehouse, p \in Tracked : GoodsCounted(w, p)) /\ GoodsBooked
BY DEF StockFollowsDocuments, GoodsCounted, GoodsBooked, CostsPosted

\* The same after a step.
LEMMA StockFollowsNext ==
  ASSUME \A w \in Warehouse, p \in Tracked : GoodsCounted(w, p)', GoodsBooked'
  PROVE  StockFollowsDocuments'
BY DEF StockFollowsDocuments, GoodsCounted, GoodsBooked, CostsPosted

\* The books of a step without a receipt.
LEMMA GoodsKept ==
  ASSUME TypeOK, GoodsBooked, UNCHANGED goodsReceipts, NEW a, NEW b, NEW c, NEW d, NEW e,
         Shift(a, b, c, d, 0, e)
  PROVE  GoodsBooked'
BY BalancesType DEF Shift, Balances, GoodsBooked

\* A step that moves no goods.
LEMMA StockFrame ==
  ASSUME Tables, StockFollowsDocuments, UNCHANGED <<onHand, shipments, goodsReceipts, notes>>,
         SameWarehouses(orders, orders'), SameWarehouses(purchaseOrders, purchaseOrders'),
         NEW a, NEW b, NEW c, NEW d, NEW e, Shift(a, b, c, d, 0, e)
  PROVE  StockFollowsDocuments'
<1>1. ASSUME NEW w \in Warehouse, NEW p \in Tracked PROVE GoodsCounted(w, p)'
  <2>1. GoodsCounted(w, p)
    BY StockFollowsIs
  <2>2. UNCHANGED ShippedFrom(w) /\ UNCHANGED ReceivedInto(w) /\ UNCHANGED RestockedInto(w)
    BY PlacesKept
  <2>3. QED
    BY <2>1, <2>2 DEF GoodsCounted, QtyOf, QtyOn
<1>2. GoodsBooked'
  BY StockFollowsIs, GoodsKept DEF Tables
<1>3. QED
  BY <1>1, <1>2, StockFollowsNext

\* A document added to a table, seen from its rows.
LEMMA RowAdded ==
  ASSUME NEW R, NEW docs \in Seq(R), NEW doc \in R, NEW new, new = Append(docs, doc), NEW k,
         k = Len(docs) + 1, NEW ids, ids \subseteq DOMAIN docs,
         \A j \in DOMAIN docs : Countable(docs[j].qty), Countable(doc.qty)
  PROVE  /\ OneMore(docs, ids, new, k) /\ new[k] = doc /\ k \notin DOMAIN docs
         /\ DOMAIN new = DOMAIN docs \cup {k} /\ \A j \in DOMAIN docs : new[j] = docs[j]
<1>1. /\ k \notin DOMAIN docs /\ DOMAIN new = DOMAIN docs \cup {k} /\ new[k] = doc
      /\ \A j \in DOMAIN docs : new[j] = docs[j]
  BY Appended
<1>2. IsFiniteSet(ids)
  BY RowsFinite, FS_Subset
<1>3. QED
  BY <1>1, <1>2 DEF OneMore

\* fulfil takes from the warehouse of its order what the shipment says.
LEMMA FulfilStock ==
  ASSUME Tables, StockFollowsDocuments, Fulfil, UNCHANGED purchases
  PROVE  StockFollowsDocuments'
<1>0. TypeOK /\ UNCHANGED <<goodsReceipts, purchaseOrders>>
  BY DEF Tables, purchases
<1>1. PICK i \in DOMAIN orders, row \in SalesOrderRow, ship \in FulfillmentRow : Shipped(i, row, ship)
  BY FulfilSummary
<1>2. /\ shipments' = Append(shipments, ship) /\ ship.order = i /\ notes' = notes
      /\ onHand' = TakeOut(orders[i].warehouse, ship.qty) /\ Shift(0, 0, 0, 0, 0, 0)
  BY <1>1 DEF Shipped
<1>3. SameWarehouses(orders, orders') /\ SameWarehouses(purchaseOrders, purchaseOrders')
  BY <1>0, SalesWarehouses DEF SalesStep, SameWarehouses
<1>4. ship.qty \in PerProduct(Nat) /\ Countable(ship.qty) /\ orders[i].warehouse \in Warehouse
  <2>1. ship.qty \in PerProduct(Nat)
    BY DEF FulfillmentRow
  <2>2. QED
    BY <1>0, <2>1, OnProducts, Rows DEF Countable, On, SalesOrderRow
<1>5. ASSUME NEW w \in Warehouse, NEW p \in Tracked PROVE GoodsCounted(w, p)'
  <2> DEFINE here == orders[i].warehouse = w
  <2>1. GoodsCounted(w, p) /\ here \in BOOLEAN
    BY StockFollowsIs
  <2>2. UNCHANGED ReceivedInto(w) /\ UNCHANGED RestockedInto(w)
    BY <1>0, <1>2, <1>3, PlacesKept
  <2>3. PICK k : k = Len(shipments) + 1
    OBVIOUS
  <2>4. /\ OneMore(shipments, ShippedFrom(w), shipments', k) /\ shipments'[k] = ship
        /\ DOMAIN shipments' = DOMAIN shipments \cup {k} /\ k \notin DOMAIN shipments
        /\ \A j \in DOMAIN shipments : shipments'[j] = shipments[j]
    <3>1. /\ shipments \in Seq(FulfillmentRow) /\ ShippedFrom(w) \subseteq DOMAIN shipments
          /\ \A j \in DOMAIN shipments : Countable(shipments[j].qty)
      BY <1>0, TypedRows, QtyRows, PlacesType
    <3>2. OneMore(shipments, ShippedFrom(w), shipments', k)
      BY <1>2, <1>4, <2>3, <3>1, RowAdded
    <3>3. QED
      BY <1>2, <2>3, <3>1, <3>2, Appended
  <2>5. ShippedFrom(w)' = IF here THEN ShippedFrom(w) \cup {k} ELSE ShippedFrom(w)
    <3>1. \A j \in DOMAIN shipments : orders'[shipments'[j].order].warehouse = orders[shipments[j].order].warehouse
      BY <1>3, <2>4, OrdersKnown DEF SameWarehouses
    <3>2. orders'[shipments'[k].order].warehouse = orders[i].warehouse
      BY <1>2, <1>3, <2>4 DEF SameWarehouses
    <3>3. QED
      BY <2>4, <3>1, <3>2 DEF ShippedFrom
  <2>6. /\ QtyOf(shipments, ShippedFrom(w), p) \in Nat /\ On(ship.qty, p) \in Nat
        /\ QtyOf(shipments', ShippedFrom(w)', p) =
               QtyOf(shipments, ShippedFrom(w), p) + IF here THEN On(ship.qty, p) ELSE 0
    <3> HIDE DEF here
    <3>1. PICK c \in BOOLEAN : c = here
      BY <2>1
    <3>2. PICK ids, is, new : ids = ShippedFrom(w) /\ is = ShippedFrom(w)' /\ new = shipments'
      OBVIOUS
    <3>3. OneMore(shipments, ids, new, k) /\ is = IF c THEN ids \cup {k} ELSE ids
      BY <2>5, <2>4, <3>1, <3>2
    <3>4. /\ QtyOf(shipments, ids, p) \in Nat /\ On(new[k].qty, p) \in Nat
          /\ QtyOf(new, is, p) = QtyOf(shipments, ids, p) + IF c THEN On(new[k].qty, p) ELSE 0
      BY <3>3, QtyMore
    <3>5. QED
      BY <2>4, <3>1, <3>2, <3>4
  <2>7. onHand'[w][p] = onHand[w][p] - IF here THEN On(ship.qty, p) ELSE 0
    <3>1. PICK v \in Warehouse : v = orders[i].warehouse
      BY <1>4
    <3>2. onHand \in [Warehouse -> [Product -> Int]]
      BY <1>0, TypedRows
    <3>3. TakeOut(v, ship.qty)[w][p] = onHand[w][p] - IF w = v THEN On(ship.qty, p) ELSE 0
      BY <1>4, <3>2, StockType
    <3>4. QED
      BY <1>2, <3>1, <3>3
  <2>8. /\ QtyOf(goodsReceipts, ReceivedInto(w), p) \in Nat /\ QtyOf(notes, RestockedInto(w), p) \in Nat
        /\ OpeningStock \in Nat
        /\ QtyOf(goodsReceipts', ReceivedInto(w)', p) = QtyOf(goodsReceipts, ReceivedInto(w), p)
        /\ QtyOf(notes', RestockedInto(w)', p) = QtyOf(notes, RestockedInto(w), p)
    BY <1>0, <1>2, <2>2, PlacesType, BooksAssumption
  <2> HIDE DEF here
  <2>9. QED
    BY <2>1, <2>6, <2>7, <2>8 DEF GoodsCounted
<1>6. GoodsBooked'
  BY <1>0, <1>2, StockFollowsIs, GoodsKept
<1>7. QED
  BY <1>5, <1>6, StockFollowsNext

\* issue_credit_note puts back into the warehouse it names, or moves no goods.
LEMMA CreditNoteStock ==
  ASSUME Tables, StockFollowsDocuments, IssueCreditNote, UNCHANGED purchases
  PROVE  StockFollowsDocuments'
<1>0. TypeOK /\ UNCHANGED <<goodsReceipts, purchaseOrders>>
  BY DEF Tables, purchases
<1>1. PICK i \in DOMAIN invoices, doc \in InvoiceRow, note \in CreditNoteRow : \E rows :
        /\ CreditNoteChange(i, note.qty, note.into, doc, note, rows)
        /\ note.into \in Into /\ onHand' = Restocked(note.into, note.qty)
        /\ Shift(-TotalOf(note), 0, note.tax, 0, 0, 0)
        /\ UNCHANGED <<quotations, orders, shipments, payments, costPrice, returns>>
  BY CreditNoteSummary
<1>2. /\ notes' = Append(notes, note) /\ note.into \in Into /\ onHand' = Restocked(note.into, note.qty)
      /\ Shift(-TotalOf(note), 0, note.tax, 0, 0, 0) /\ UNCHANGED <<orders, shipments>>
  BY <1>1 DEF CreditNoteChange
<1>3. SameWarehouses(orders, orders') /\ SameWarehouses(purchaseOrders, purchaseOrders')
  BY <1>0, <1>2 DEF SameWarehouses
<1>4. note.qty \in PerProduct(Nat) /\ Countable(note.qty)
  <2>1. note.qty \in PerProduct(Nat)
    BY DEF CreditNoteRow
  <2>2. QED
    BY <2>1, OnProducts DEF Countable, On
<1>5. ASSUME NEW w \in Warehouse, NEW p \in Tracked PROVE GoodsCounted(w, p)'
  <2> DEFINE here == note.into = {w}
  <2>1. GoodsCounted(w, p) /\ here \in BOOLEAN
    BY StockFollowsIs
  <2>2. UNCHANGED ReceivedInto(w) /\ UNCHANGED ShippedFrom(w)
    BY <1>0, <1>2, <1>3, PlacesKept
  <2>3. PICK k : k = Len(notes) + 1
    OBVIOUS
  <2>4. /\ OneMore(notes, RestockedInto(w), notes', k) /\ notes'[k] = note
        /\ DOMAIN notes' = DOMAIN notes \cup {k} /\ k \notin DOMAIN notes
        /\ \A j \in DOMAIN notes : notes'[j] = notes[j]
    <3>1. /\ notes \in Seq(CreditNoteRow) /\ RestockedInto(w) \subseteq DOMAIN notes
          /\ \A j \in DOMAIN notes : Countable(notes[j].qty)
      BY <1>0, TypedRows, QtyRows, PlacesType
    <3>2. OneMore(notes, RestockedInto(w), notes', k)
      BY <1>2, <1>4, <2>3, <3>1, RowAdded
    <3>3. QED
      BY <1>2, <2>3, <3>1, <3>2, Appended
  <2>5. RestockedInto(w)' = IF here THEN RestockedInto(w) \cup {k} ELSE RestockedInto(w)
    BY <2>4 DEF RestockedInto
  <2>6. /\ QtyOf(notes, RestockedInto(w), p) \in Nat /\ On(note.qty, p) \in Nat
        /\ QtyOf(notes', RestockedInto(w)', p) =
               QtyOf(notes, RestockedInto(w), p) + IF here THEN On(note.qty, p) ELSE 0
    <3> HIDE DEF here
    <3>1. PICK c \in BOOLEAN : c = here
      BY <2>1
    <3>2. PICK ids, is, new : ids = RestockedInto(w) /\ is = RestockedInto(w)' /\ new = notes'
      OBVIOUS
    <3>3. OneMore(notes, ids, new, k) /\ is = IF c THEN ids \cup {k} ELSE ids
      BY <2>5, <2>4, <3>1, <3>2
    <3>4. /\ QtyOf(notes, ids, p) \in Nat /\ On(new[k].qty, p) \in Nat
          /\ QtyOf(new, is, p) = QtyOf(notes, ids, p) + IF c THEN On(new[k].qty, p) ELSE 0
      BY <3>3, QtyMore
    <3>5. QED
      BY <2>4, <3>1, <3>2, <3>4
  <2>7. onHand'[w][p] = onHand[w][p] + IF here THEN On(note.qty, p) ELSE 0
    <3>1. onHand \in [Warehouse -> [Product -> Int]] /\ p \in Product
      BY <1>0, TypedRows, BooksAssumption
    <3>2. CASE note.into = {}
      BY <1>2, <3>1, <3>2 DEF Restocked
    <3>3. CASE note.into # {}
      <4>1. PICK v \in Warehouse : note.into = {v}
        BY <1>2, <3>3 DEF Into
      <4>2. onHand' = PutBack(v, note.qty)
        BY <1>2, <4>1 DEF Restocked
      <4>3. PutBack(v, note.qty)[w][p] = onHand[w][p] + IF w = v THEN On(note.qty, p) ELSE 0
        BY <1>4, <3>1, StockType
      <4>4. here <=> w = v
        BY <4>1
      <4>5. QED
        BY <4>2, <4>3, <4>4
    <3>4. QED
      BY <3>2, <3>3
  <2>8. /\ QtyOf(goodsReceipts, ReceivedInto(w), p) \in Nat /\ QtyOf(shipments, ShippedFrom(w), p) \in Nat
        /\ OpeningStock \in Nat
        /\ QtyOf(goodsReceipts', ReceivedInto(w)', p) = QtyOf(goodsReceipts, ReceivedInto(w), p)
        /\ QtyOf(shipments', ShippedFrom(w)', p) = QtyOf(shipments, ShippedFrom(w), p)
    BY <1>0, <1>2, <2>2, PlacesType, BooksAssumption
  <2> HIDE DEF here
  <2>9. QED
    BY <2>1, <2>6, <2>7, <2>8 DEF GoodsCounted
<1>6. GoodsBooked'
  BY <1>0, <1>2, StockFollowsIs, GoodsKept
<1>7. QED
  BY <1>5, <1>6, StockFollowsNext

\* receive adds to the warehouse of its order, and its cost to the books.
LEMMA ReceiveStock ==
  ASSUME Tables, StockFollowsDocuments, Receive
  PROVE  StockFollowsDocuments'
<1>0. TypeOK
  BY DEF Tables
<1>1. PICK i \in DOMAIN purchaseOrders, row \in PurchaseOrderRow, receipt \in GoodsReceiptRow :
        /\ ReceiptChange(i, receipt.qty, row, receipt)
        /\ Shift(0, 0, 0, 0, PostedCost(receipt.cost), -PostedCost(receipt.cost))
        /\ UNCHANGED <<bills, supplierPayments, sales, register, returns>>
  BY ReceiveSummary
<1>2. /\ goodsReceipts' = Append(goodsReceipts, receipt) /\ receipt.order = i
      /\ onHand' = PutBack(purchaseOrders[i].warehouse, receipt.qty) /\ receipt.cost \in Nat
      /\ UNCHANGED <<orders, shipments, notes>>
      /\ balance'["INVENTORY"] + balance'["COGS"]
            = balance["INVENTORY"] + balance["COGS"] + PostedCost(receipt.cost)
  BY <1>1 DEF ReceiptChange, sales, Shift
<1>3. SameWarehouses(orders, orders') /\ SameWarehouses(purchaseOrders, purchaseOrders')
  BY <1>0, <1>2, PurchaseWarehouses DEF PurchaseStep, SameWarehouses
<1>4. /\ receipt.qty \in PerProduct(Nat) /\ Countable(receipt.qty)
      /\ purchaseOrders[i].warehouse \in Warehouse
  <2>1. receipt.qty \in PerProduct(Nat)
    BY DEF GoodsReceiptRow
  <2>2. QED
    BY <1>0, <2>1, OnProducts, Rows DEF Countable, On, PurchaseOrderRow
<1>5. PICK k : k = Len(goodsReceipts) + 1
  OBVIOUS
<1>6. /\ goodsReceipts'[k] = receipt /\ DOMAIN goodsReceipts' = DOMAIN goodsReceipts \cup {k}
      /\ k \notin DOMAIN goodsReceipts
      /\ \A j \in DOMAIN goodsReceipts : goodsReceipts'[j] = goodsReceipts[j]
  BY <1>0, <1>2, <1>5, TypedRows, Appended
<1>7. ASSUME NEW w \in Warehouse, NEW p \in Tracked PROVE GoodsCounted(w, p)'
  <2> DEFINE here == purchaseOrders[i].warehouse = w
  <2>1. GoodsCounted(w, p) /\ here \in BOOLEAN
    BY StockFollowsIs
  <2>2. UNCHANGED ShippedFrom(w) /\ UNCHANGED RestockedInto(w)
    BY <1>2, <1>3, PlacesKept
  <2>3. ReceivedInto(w)' = IF here THEN ReceivedInto(w) \cup {k} ELSE ReceivedInto(w)
    <3>1. \A j \in DOMAIN goodsReceipts : purchaseOrders'[goodsReceipts'[j].order].warehouse
                                          = purchaseOrders[goodsReceipts[j].order].warehouse
      BY <1>3, <1>6, OrdersKnown DEF SameWarehouses
    <3>2. purchaseOrders'[goodsReceipts'[k].order].warehouse = purchaseOrders[i].warehouse
      BY <1>2, <1>3, <1>6 DEF SameWarehouses
    <3>3. QED
      BY <1>6, <3>1, <3>2 DEF ReceivedInto
  <2>4. /\ QtyOf(goodsReceipts, ReceivedInto(w), p) \in Nat /\ On(receipt.qty, p) \in Nat
        /\ QtyOf(goodsReceipts', ReceivedInto(w)', p) =
               QtyOf(goodsReceipts, ReceivedInto(w), p) + IF here THEN On(receipt.qty, p) ELSE 0
    <3>0. OneMore(goodsReceipts, ReceivedInto(w), goodsReceipts', k)
      <4>1. /\ goodsReceipts \in Seq(GoodsReceiptRow) /\ ReceivedInto(w) \subseteq DOMAIN goodsReceipts
            /\ \A j \in DOMAIN goodsReceipts : Countable(goodsReceipts[j].qty)
        BY <1>0, TypedRows, QtyRows, PlacesType
      <4>2. QED
        BY <1>2, <1>4, <1>5, <4>1, RowAdded
    <3> HIDE DEF here
    <3>1. PICK c \in BOOLEAN : c = here
      BY <2>1
    <3>2. PICK ids, is, new : ids = ReceivedInto(w) /\ is = ReceivedInto(w)' /\ new = goodsReceipts'
      OBVIOUS
    <3>3. OneMore(goodsReceipts, ids, new, k) /\ is = IF c THEN ids \cup {k} ELSE ids
      BY <2>3, <3>0, <3>1, <3>2
    <3>4. /\ QtyOf(goodsReceipts, ids, p) \in Nat /\ On(new[k].qty, p) \in Nat
          /\ QtyOf(new, is, p) = QtyOf(goodsReceipts, ids, p) + IF c THEN On(new[k].qty, p) ELSE 0
      BY <3>3, QtyMore
    <3>5. QED
      BY <1>6, <3>1, <3>2, <3>4
  <2>5. onHand'[w][p] = onHand[w][p] + IF here THEN On(receipt.qty, p) ELSE 0
    <3>1. PICK v \in Warehouse : v = purchaseOrders[i].warehouse
      BY <1>4
    <3>2. onHand \in [Warehouse -> [Product -> Int]]
      BY <1>0, TypedRows
    <3>3. PutBack(v, receipt.qty)[w][p] = onHand[w][p] + IF w = v THEN On(receipt.qty, p) ELSE 0
      BY <1>4, <3>2, StockType
    <3>4. QED
      BY <1>2, <3>1, <3>3
  <2>6. /\ QtyOf(shipments, ShippedFrom(w), p) \in Nat /\ QtyOf(notes, RestockedInto(w), p) \in Nat
        /\ OpeningStock \in Nat
        /\ QtyOf(shipments', ShippedFrom(w)', p) = QtyOf(shipments, ShippedFrom(w), p)
        /\ QtyOf(notes', RestockedInto(w)', p) = QtyOf(notes, RestockedInto(w), p)
    BY <1>0, <1>2, <2>2, PlacesType, BooksAssumption
  <2> HIDE DEF here
  <2>7. QED
    BY <2>1, <2>4, <2>5, <2>6 DEF GoodsCounted
<1>8. GoodsBooked'
  <2>1. PICK f, g, n : /\ f = CostsPosted(goodsReceipts) /\ g = CostsPosted(goodsReceipts')
                       /\ n = PostedCost(receipt.cost)
    OBVIOUS
  <2>2. /\ k \notin DOMAIN f /\ DOMAIN g = DOMAIN f \cup {k} /\ g[k] = n /\ n \in Int
        /\ \A x \in DOMAIN f : g[x] = f[x]
    <3>1. DOMAIN f = DOMAIN goodsReceipts /\ DOMAIN g = DOMAIN goodsReceipts'
      BY <2>1 DEF CostsPosted
    <3>2. g[k] = PostedCost(goodsReceipts'[k].cost) /\ k \in DOMAIN goodsReceipts'
      BY <1>6, <2>1 DEF CostsPosted
    <3>3. n \in Int
      BY <1>2, <2>1, PostedCostType
    <3>4. \A x \in DOMAIN goodsReceipts : g[x] = f[x]
      BY <1>6, <2>1 DEF CostsPosted
    <3>5. QED
      BY <1>6, <2>1, <3>1, <3>2, <3>3, <3>4
  <2>3. Numbers(f)
    <3>1. \A r \in DOMAIN goodsReceipts : PostedCost(goodsReceipts[r].cost) \in Int
      BY <1>0, Rows, PostedCostType DEF GoodsReceiptRow
    <3>2. QED
      BY <1>0, <2>1, <3>1, TablesFinite DEF Numbers, CostsPosted
  <2>4. SumFunction(g) = SumFunction(f) + n
    BY <2>2, <2>3, SumOneMore
  <2>5. QED
    BY <1>2, <2>1, <2>4, StockFollowsIs DEF GoodsBooked
<1>9. QED
  BY <1>7, <1>8, StockFollowsNext

\* At the start there is the opening stock.
LEMMA StockInit ==
  ASSUME Init
  PROVE  StockFollowsDocuments
<1>1. /\ shipments = <<>> /\ notes = <<>> /\ goodsReceipts = <<>>
      /\ balance = [a \in SystemAccount |-> 0]
      /\ onHand = [w \in Warehouse |-> [p \in Product |-> IF p \in Tracked THEN OpeningStock ELSE 0]]
  BY DEF Init, BooksInit, SalesInit, PurchasingInit
<1>2. ASSUME NEW w \in Warehouse, NEW p \in Tracked PROVE GoodsCounted(w, p)
  <2>1. ShippedFrom(w) = {} /\ ReceivedInto(w) = {} /\ RestockedInto(w) = {}
    BY <1>1 DEF ShippedFrom, ReceivedInto, RestockedInto
  <2>2. onHand[w][p] = OpeningStock /\ OpeningStock \in Nat
    BY <1>1, BooksAssumption
  <2>3. QED
    BY <2>1, <2>2, QtyNone DEF GoodsCounted
<1>3. GoodsBooked
  <2>1. DOMAIN CostsPosted(goodsReceipts) = {}
    BY <1>1 DEF CostsPosted
  <2>2. balance["INVENTORY"] = 0 /\ balance["COGS"] = 0
    BY <1>1 DEF SystemAccount
  <2>3. QED
    BY <2>1, <2>2, SumOfNone DEF GoodsBooked
<1>4. QED
  BY <1>2, <1>3, StockFollowsIs

\* Every step keeps it.
LEMMA StockStep ==
  ASSUME Tables, StockFollowsDocuments, [Next]_vars
  PROVE  StockFollowsDocuments'
<1>0. TypeOK
  BY DEF Tables
<1>1. CASE SalesStep /\ UNCHANGED purchases
  <2>0. /\ UNCHANGED <<goodsReceipts, purchaseOrders>>
        /\ SameWarehouses(orders, orders') /\ SameWarehouses(purchaseOrders, purchaseOrders')
    BY <1>0, <1>1, SalesWarehouses DEF purchases, SameWarehouses
  <2>1. CASE Fulfil
    BY <1>1, <2>1, FulfilStock
  <2>2. CASE IssueInvoice
    <3>1. PICK j \in DOMAIN invoices : Shift(TotalOf(invoices[j]), 0, -invoices[j].tax, 0, 0, 0)
      BY <2>2, IssueInvoiceSummary
    <3>2. UNCHANGED <<onHand, shipments, notes>>
      BY <2>2, SalesFrames
    <3>3. QED
      BY <2>0, <3>1, <3>2, StockFrame
  <2>3. CASE IssueCreditNote
    BY <1>1, <2>3, CreditNoteStock
  <2>4. CASE RecordPayment
    <3>1. PICK n : Shift(n, 0, 0, 0, 0, 0)
      BY <2>4, RecordPaymentSummary DEF PaymentChange
    <3>2. UNCHANGED <<onHand, shipments, notes>>
      BY <2>4, SalesFrames
    <3>3. QED
      BY <2>0, <3>1, <3>2, StockFrame
  <2>5. CASE \/ CreateQuotation \/ SetQuotationStatus \/ ConvertQuotation \/ CreateOrder \/ ConfirmOrder
             \/ CancelOrder \/ CreateInvoice
    <3>1. UNCHANGED <<shipments, notes, books>>
      BY <2>5, SalesFrames
    <3>2. UNCHANGED onHand /\ Shift(0, 0, 0, 0, 0, 0)
      BY <1>0, <3>1, NoShift DEF books
    <3>3. QED
      BY <2>0, <3>1, <3>2, StockFrame
  <2>6. QED
    BY <1>1, <2>1, <2>2, <2>3, <2>4, <2>5 DEF SalesStep
<1>2. CASE PurchaseStep /\ UNCHANGED sales
  <2>0. /\ UNCHANGED <<shipments, notes, orders>>
        /\ SameWarehouses(orders, orders') /\ SameWarehouses(purchaseOrders, purchaseOrders')
    BY <1>0, <1>2, PurchaseWarehouses DEF sales, SameWarehouses
  <2>1. CASE Receive
    BY <2>1, ReceiveStock
  <2>2. CASE IssueBill
    <3>1. PICK j \in DOMAIN bills : Shift(0, -TotalOf(bills[j]), 0, bills[j].tax, 0, bills[j].net)
      BY <2>2, IssueBillSummary
    <3>2. UNCHANGED <<onHand, goodsReceipts>>
      BY <2>2, PurchaseFrames
    <3>3. QED
      BY <2>0, <3>1, <3>2, StockFrame
  <2>3. CASE PaySupplier
    <3>1. PICK n : Shift(0, n, 0, 0, 0, 0)
      BY <2>3, PaySupplierSummary DEF SupplierPaymentChange
    <3>2. UNCHANGED <<onHand, goodsReceipts>>
      BY <2>3, PurchaseFrames
    <3>3. QED
      BY <2>0, <3>1, <3>2, StockFrame
  <2>4. CASE CreatePurchaseOrder \/ ConfirmPurchaseOrder \/ CancelPurchaseOrder \/ CreateBill
    <3>1. UNCHANGED <<goodsReceipts, books>>
      BY <2>4, PurchaseFrames
    <3>2. UNCHANGED onHand /\ Shift(0, 0, 0, 0, 0, 0)
      BY <1>0, <3>1, NoShift DEF books
    <3>3. QED
      BY <2>0, <3>1, <3>2, StockFrame
  <2>5. QED
    BY <1>2, <2>1, <2>2, <2>3, <2>4 DEF PurchaseStep
<1>3. ASSUME UNCHANGED <<balance, onHand, sales, purchases>> PROVE StockFollowsDocuments'
  <2>1. /\ UNCHANGED <<onHand, shipments, goodsReceipts, notes>> /\ Shift(0, 0, 0, 0, 0, 0)
        /\ SameWarehouses(orders, orders') /\ SameWarehouses(purchaseOrders, purchaseOrders')
    BY <1>0, <1>3, NoShift DEF sales, purchases, SameWarehouses
  <2>2. QED
    BY <2>1, StockFrame
<1>4. CASE PrepareReturn
  <2>1. UNCHANGED <<balance, onHand, sales, purchases>>
    BY <1>4 DEF PrepareReturn, prepare_return
  <2>2. QED
    BY <1>3, <2>1
<1>5. CASE FileReturn
  <2>1. UNCHANGED <<balance, onHand, sales, purchases>>
    BY <1>5 DEF FileReturn, file_return
  <2>2. QED
    BY <1>3, <2>1
<1>6. CASE UNCHANGED vars
  BY <1>3, <1>6 DEF vars, books
<1>7. QED
  BY <1>1, <1>2, <1>4, <1>5, <1>6, Steps

(* The stock of every warehouse is what its documents moved, below zero    *)
(* too, and inventory and cost of sales together are the cost of the goods *)
(* received: for any number of warehouses, whatever costs fulfil, receive  *)
(* and issue_credit_note read.                                             *)

THEOREM StockFollows == Spec => []StockFollowsDocuments
<1>1. Init => StockFollowsDocuments
  BY StockInit
<1>2. Tables /\ StockFollowsDocuments /\ [Next]_vars => StockFollowsDocuments'
  BY StockStep
<1>3. QED
  BY <1>1, <1>2, TablesCorrect, PTL DEF Spec

-----------------------------------------------------------------------------
(* Goods received not invoiced: a receipt credits its cost and an issued   *)
(* bill debits its net.  At the prices of the orders, the receipts are     *)
(* worth what the lines count as received and the bills what they count as *)
(* billed.                                                                 *)

NetCharged(docs) == [b \in DOMAIN docs |-> IF docs[b].status = "DRAFT" THEN 0 ELSE docs[b].net]

CostStated(doc) == doc.cost = SumFunction([p \in DOMAIN Moved(doc.qty) |-> doc.qty[p] * doc.unit[p]])

ReceiptsValued ==
    Valued(ReceivedOf(purchaseOrders), OrderKey(goodsReceipts), QtyIn(goodsReceipts), purchaseOrders)

BillsValued == Valued(BilledOf(purchaseOrders), OrderKey(bills), QtyIn(bills), purchaseOrders)

GrniBooked == balance["GRNI"] = SumFunction(NetCharged(bills)) - SumFunction(CostsPosted(goodsReceipts))

GrniKept ==
    /\ ReceiptsValued /\ BillsValued /\ GrniBooked
    /\ \A r \in DOMAIN goodsReceipts : CostStated(goodsReceipts[r])

\* What is posted to the account is numbers.
LEMMA GrniType ==
  ASSUME TypeOK
  PROVE  /\ Numbers(NetCharged(bills)) /\ Numbers(CostsPosted(goodsReceipts)) /\ balance["GRNI"] \in Int
         /\ SumFunction(NetCharged(bills)) \in Int /\ SumFunction(CostsPosted(goodsReceipts)) \in Int
<1>1. /\ \A b \in DOMAIN bills : bills[b].net \in Nat
      /\ \A r \in DOMAIN goodsReceipts : goodsReceipts[r].cost \in Nat
  BY Rows DEF SupplierBillRow, GoodsReceiptRow
<1>2. \A r \in DOMAIN goodsReceipts : PostedCost(goodsReceipts[r].cost) \in Int
  BY <1>1, PostedCostType
<1>3. Numbers(NetCharged(bills)) /\ Numbers(CostsPosted(goodsReceipts))
  BY <1>1, <1>2, TablesFinite DEF Numbers, NetCharged, CostsPosted
<1>4. QED
  BY <1>3, NumbersSum, BalancesType DEF Balances

\* Quantities of the lines of an order have a value.
LEMMA OrderValuable ==
  ASSUME TypeOK, NEW i \in DOMAIN purchaseOrders, NEW qty \in PerProduct(Nat),
         DOMAIN qty \subseteq DOMAIN purchaseOrders[i].lines
  PROVE  Valuable(qty, purchaseOrders[i].lines)
BY OnProducts, PurchaseLines DEF Valuable

\* A step on none of the documents the account counts.
LEMMA GrniFrame ==
  ASSUME GrniKept, UNCHANGED purchases, balance'["GRNI"] = balance["GRNI"]
  PROVE  GrniKept'
<1>1. purchaseOrders' = purchaseOrders /\ goodsReceipts' = goodsReceipts /\ bills' = bills
  BY DEF purchases
<1>2. QED
  BY <1>1 DEF GrniKept, ReceiptsValued, BillsValued, GrniBooked

\* The orders change, and neither what they count nor the prices agreed.
LEMMA GrniOrders ==
  ASSUME GrniKept, UNCHANGED <<goodsReceipts, bills>>, balance'["GRNI"] = balance["GRNI"],
         Valued(ReceivedOf(purchaseOrders'), OrderKey(goodsReceipts), QtyIn(goodsReceipts), purchaseOrders'),
         Valued(BilledOf(purchaseOrders'), OrderKey(bills), QtyIn(bills), purchaseOrders')
  PROVE  GrniKept'
<1>1. goodsReceipts' = goodsReceipts /\ bills' = bills
  OBVIOUS
<1>2. QED
  BY <1>1 DEF GrniKept, ReceiptsValued, BillsValued, GrniBooked

\* A new purchase order is worth nothing yet.
LEMMA OpenPurchaseOrderGrni ==
  ASSUME Tables, GrniKept, CreatePurchaseOrder
  PROVE  GrniKept'
<1>0. purchaseOrders \in Seq(PurchaseOrderRow)
  BY TypedRows DEF Tables
<1>1. PICK s \in Supplier, w \in Warehouse, b \in PurchaseBasket : create_purchase_order(s, w, b)
  BY DEF CreatePurchaseOrder
<1>2. PICK new, k : new = NewPurchaseOrder(s, w, b) /\ k = Len(purchaseOrders) + 1
  OBVIOUS
<1>3. /\ new \in PurchaseOrderRow
      /\ \A p \in DOMAIN new.lines : new.lines[p].received = 0
      /\ \A p \in DOMAIN new.lines : new.lines[p].billed = 0
  BY <1>2, NewPurchaseOrderType
<1>4. /\ purchaseOrders' = Append(purchaseOrders, new)
      /\ UNCHANGED <<goodsReceipts, bills, balance>>
  BY <1>1, <1>2 DEF create_purchase_order, books
<1>5. /\ Opens(ReceivedOf(purchaseOrders), ReceivedOf(purchaseOrders'), k)
      /\ Opens(BilledOf(purchaseOrders), BilledOf(purchaseOrders'), k)
  BY <1>0, <1>2, <1>3, <1>4, ReceivedOpens, BilledOpens
<1>6. Kept(purchaseOrders, purchaseOrders') /\ k \in DOMAIN purchaseOrders' /\ purchaseOrders'[k] = new
  BY <1>0, <1>2, <1>3, <1>4, KeptAppended, Appended
<1>7. /\ Valuable(ReceivedOf(purchaseOrders')[k], purchaseOrders'[k].lines)
      /\ Valuable(BilledOf(purchaseOrders')[k], purchaseOrders'[k].lines)
  <2>1. IsFiniteSet(DOMAIN new.lines) /\ \A p \in DOMAIN new.lines : new.lines[p].price \in Nat
    <3>1. new.lines \in PerProduct(PurchaseOrderLineRow)
      BY <1>3 DEF PurchaseOrderRow
    <3>2. IsFiniteSet(DOMAIN new.lines) /\ \A p \in DOMAIN new.lines : new.lines[p] \in PurchaseOrderLineRow
      BY <3>1, OnProducts
    <3>3. QED
      BY <3>2 DEF PurchaseOrderLineRow
  <2>2. QED
    BY <1>3, <1>6, <2>1 DEF Valuable, ReceivedOf, BilledOf
<1>8. Valued(ReceivedOf(purchaseOrders'), OrderKey(goodsReceipts), QtyIn(goodsReceipts), purchaseOrders')
  BY <1>5, <1>6, <1>7, ValuedOpened DEF GrniKept, ReceiptsValued
<1>9. Valued(BilledOf(purchaseOrders'), OrderKey(bills), QtyIn(bills), purchaseOrders')
  BY <1>5, <1>6, <1>7, ValuedOpened DEF GrniKept, BillsValued
<1>10. QED
  BY <1>4, <1>8, <1>9, GrniOrders

\* confirm_purchase_order and cancel_purchase_order post nothing.
LEMMA PurchaseStatusGrni ==
  ASSUME Tables, GrniKept, ConfirmPurchaseOrder \/ CancelPurchaseOrder
  PROVE  GrniKept'
<1>0. TypeOK /\ purchaseOrders \in Seq(PurchaseOrderRow)
  BY TypedRows DEF Tables
<1>1. PICK i \in DOMAIN purchaseOrders : confirm_purchase_order(i) \/ cancel_purchase_order(i)
  BY DEF ConfirmPurchaseOrder, CancelPurchaseOrder
<1>2. PICK st \in {"CONFIRMED", "CANCELLED"} :
        \E row \in PurchaseOrderRow : PurchaseStatusChange(i, row, st)
  BY <1>0, <1>1, PurchaseStatusEffect
<1>3. PICK row \in PurchaseOrderRow : PurchaseStatusChange(i, row, st)
  BY <1>2
<1>4. /\ purchaseOrders' = [purchaseOrders EXCEPT ![i] = row] /\ row.lines = purchaseOrders[i].lines
      /\ goodsReceipts' = goodsReceipts /\ bills' = bills /\ balance' = balance
  BY <1>3 DEF PurchaseStatusChange, books
<1>5. /\ SameTerms(purchaseOrders[i].lines, row.lines) /\ SameReceived(purchaseOrders[i].lines, row.lines)
      /\ SameBilled(purchaseOrders[i].lines, row.lines)
  BY <1>4 DEF SameTerms, SameReceived, SameBilled
<1>6. /\ Kept(purchaseOrders, purchaseOrders') /\ ReceivedOf(purchaseOrders') = ReceivedOf(purchaseOrders)
      /\ BilledOf(purchaseOrders') = BilledOf(purchaseOrders)
  BY <1>0, <1>4, <1>5, KeptReplaced, ReceivedKept, BilledKept
<1>7. QED
  BY <1>4, <1>6, ValuedKept, GrniOrders DEF GrniKept, ReceiptsValued, BillsValued

\* receive credits its cost and counts what it receives.
LEMMA ReceiveGrni ==
  ASSUME Tables, GrniKept, Receive
  PROVE  GrniKept'
<1>0. TypeOK
  BY DEF Tables
<1>1. PICK i \in DOMAIN purchaseOrders, row \in PurchaseOrderRow, receipt \in GoodsReceiptRow :
            /\ ReceiptChange(i, receipt.qty, row, receipt)
            /\ receipt.qty \in PerProduct(Nat \ {0})
            /\ DOMAIN receipt.qty \subseteq DOMAIN purchaseOrders[i].lines
            /\ Shift(0, 0, 0, 0, PostedCost(receipt.cost), -PostedCost(receipt.cost))
            /\ UNCHANGED <<bills, supplierPayments, sales, register, returns>>
  BY ReceiveSummary
<1>2. /\ purchaseOrders' = [purchaseOrders EXCEPT ![i] = row]
      /\ Received(purchaseOrders[i].lines, row.lines, receipt.qty)
      /\ receipt.order = i /\ goodsReceipts' = Append(goodsReceipts, receipt) /\ bills' = bills
      /\ receipt.qty \in PerProduct(Nat) /\ CostStated(receipt) /\ receipt.cost \in Nat
      /\ balance'["GRNI"] = balance["GRNI"] + (-PostedCost(receipt.cost))
  BY <1>1, Weaker DEF ReceiptChange, Shift, CostStated
<1>3. purchaseOrders \in Seq(PurchaseOrderRow) /\ goodsReceipts \in Seq(GoodsReceiptRow)
  BY <1>0, TypedRows
<1>4. SameTerms(purchaseOrders[i].lines, row.lines) /\ SameBilled(purchaseOrders[i].lines, row.lines)
  BY <1>2 DEF Received, SameTerms, SameBilled
<1>5. BilledOf(purchaseOrders') = BilledOf(purchaseOrders) /\ Kept(purchaseOrders, purchaseOrders')
  BY <1>2, <1>3, <1>4, BilledKept, KeptReplaced
<1>6. BillsValued'
  BY <1>2, <1>5, ValuedKept DEF GrniKept, BillsValued
<1>7. ReceiptsValued'
  <2>1. \A j \in DOMAIN purchaseOrders : \A p \in DOMAIN purchaseOrders[j].lines :
            purchaseOrders[j].lines[p].received \in Nat
    BY <1>0, PurchaseLines
  <2>2. Adds(ReceivedOf(purchaseOrders), ReceivedOf(purchaseOrders'), i, receipt.qty)
    BY <1>2, <1>3, <2>1, ReceivedAdds
  <2>3. /\ Lengthens(OrderKey(goodsReceipts), OrderKey(goodsReceipts'), Len(goodsReceipts) + 1, i)
        /\ Lengthens(QtyIn(goodsReceipts), QtyIn(goodsReceipts'), Len(goodsReceipts) + 1, receipt.qty)
    BY <1>2, <1>3, DocumentAdded
  <2>4. /\ i \in DOMAIN ReceivedOf(purchaseOrders)
        /\ DOMAIN receipt.qty \subseteq DOMAIN ReceivedOf(purchaseOrders)[i]
        /\ Valuable(receipt.qty, purchaseOrders[i].lines)
    BY <1>0, <1>1, <1>2, OrderValuable DEF ReceivedOf
  <2>5. Valued(ReceivedOf(purchaseOrders'), OrderKey(goodsReceipts'), QtyIn(goodsReceipts'), purchaseOrders)
    BY <2>2, <2>3, <2>4, ValuedAdded DEF GrniKept, ReceiptsValued
  <2>6. QED
    BY <1>5, <2>5, ValuedKept DEF ReceiptsValued
<1>8. PICK k : k = Len(goodsReceipts) + 1
  OBVIOUS
<1>9. /\ k \notin DOMAIN goodsReceipts /\ DOMAIN goodsReceipts' = DOMAIN goodsReceipts \cup {k}
      /\ goodsReceipts'[k] = receipt /\ \A r \in DOMAIN goodsReceipts : goodsReceipts'[r] = goodsReceipts[r]
  BY <1>2, <1>3, <1>8, Appended
<1>10. \A r \in DOMAIN goodsReceipts' : CostStated(goodsReceipts'[r])
  BY <1>2, <1>9 DEF GrniKept
<1>11. GrniBooked'
  <2>1. PICK f, g, n : /\ f = CostsPosted(goodsReceipts) /\ g = CostsPosted(goodsReceipts')
                       /\ n = PostedCost(receipt.cost)
    OBVIOUS
  <2>2. /\ k \notin DOMAIN f /\ DOMAIN g = DOMAIN f \cup {k} /\ g[k] = n /\ n \in Int
        /\ \A x \in DOMAIN f : g[x] = f[x]
    BY <1>2, <1>9, <2>1, PostedCostType DEF CostsPosted
  <2>3. Numbers(f) /\ SumFunction(NetCharged(bills)) \in Int /\ balance["GRNI"] \in Int
    BY <1>0, <2>1, GrniType
  <2>4. SumFunction(g) = SumFunction(f) + n /\ SumFunction(f) \in Int
    BY <2>2, <2>3, SumOneMore
  <2>5. QED
    BY <1>2, <2>1, <2>2, <2>3, <2>4 DEF GrniKept, GrniBooked
<1>12. QED
  BY <1>6, <1>7, <1>10, <1>11 DEF GrniKept

\* create_bill counts what it bills and posts nothing yet.
LEMMA CreateBillGrni ==
  ASSUME Tables, GrniKept, CreateBill
  PROVE  GrniKept'
<1>0. TypeOK
  BY DEF Tables
<1>1. PICK i \in DOMAIN purchaseOrders, d \in Date, row \in PurchaseOrderRow, doc \in SupplierBillRow :
            /\ BillChange(i, d, row, doc)
            /\ UNCHANGED <<goodsReceipts, supplierPayments, sales, books>>
  BY CreateBillSummary
<1>2. /\ purchaseOrders' = [purchaseOrders EXCEPT ![i] = row]
      /\ Billed(purchaseOrders[i].lines, row.lines, doc.qty) /\ doc.status = "DRAFT"
      /\ doc.order = i /\ bills' = Append(bills, doc) /\ goodsReceipts' = goodsReceipts
      /\ doc.qty \in PerProduct(Nat) /\ DOMAIN doc.qty \subseteq DOMAIN purchaseOrders[i].lines
      /\ balance' = balance
  BY <1>1, Weaker DEF BillChange, Matches, books
<1>3. purchaseOrders \in Seq(PurchaseOrderRow) /\ bills \in Seq(SupplierBillRow)
  BY <1>0, TypedRows
<1>4. SameTerms(purchaseOrders[i].lines, row.lines) /\ SameReceived(purchaseOrders[i].lines, row.lines)
  BY <1>2 DEF Billed, SameTerms, SameReceived
<1>5. ReceivedOf(purchaseOrders') = ReceivedOf(purchaseOrders) /\ Kept(purchaseOrders, purchaseOrders')
  BY <1>2, <1>3, <1>4, ReceivedKept, KeptReplaced
<1>6. ReceiptsValued'
  BY <1>2, <1>5, ValuedKept DEF GrniKept, ReceiptsValued
<1>7. BillsValued'
  <2>1. \A j \in DOMAIN purchaseOrders : \A p \in DOMAIN purchaseOrders[j].lines :
            purchaseOrders[j].lines[p].billed \in Nat
    BY <1>0, PurchaseLines
  <2>2. Adds(BilledOf(purchaseOrders), BilledOf(purchaseOrders'), i, doc.qty)
    BY <1>2, <1>3, <2>1, BilledAdds
  <2>3. /\ Lengthens(OrderKey(bills), OrderKey(bills'), Len(bills) + 1, i)
        /\ Lengthens(QtyIn(bills), QtyIn(bills'), Len(bills) + 1, doc.qty)
    BY <1>2, <1>3, DocumentAdded
  <2>4. /\ i \in DOMAIN BilledOf(purchaseOrders)
        /\ DOMAIN doc.qty \subseteq DOMAIN BilledOf(purchaseOrders)[i]
        /\ Valuable(doc.qty, purchaseOrders[i].lines)
    BY <1>0, <1>1, <1>2, OrderValuable DEF BilledOf
  <2>5. Valued(BilledOf(purchaseOrders'), OrderKey(bills'), QtyIn(bills'), purchaseOrders)
    BY <2>2, <2>3, <2>4, ValuedAdded DEF GrniKept, BillsValued
  <2>6. QED
    BY <1>5, <2>5, ValuedKept DEF BillsValued
<1>8. GrniBooked'
  <2>1. PICK f, g, k : f = NetCharged(bills) /\ g = NetCharged(bills') /\ k = Len(bills) + 1
    OBVIOUS
  <2>2. /\ k \notin DOMAIN f /\ DOMAIN g = DOMAIN f \cup {k} /\ g[k] = 0 /\ \A x \in DOMAIN f : g[x] = f[x]
    BY <1>2, <1>3, <2>1, Appended DEF NetCharged
  <2>3. Numbers(f)
    BY <1>0, <2>1, GrniType
  <2>4. SumFunction(g) = SumFunction(f) + 0 /\ SumFunction(f) \in Int
    BY <2>2, <2>3, SumOneMore
  <2>5. QED
    BY <1>2, <2>1, <2>4 DEF GrniKept, GrniBooked
<1>9. QED
  BY <1>2, <1>6, <1>7, <1>8 DEF GrniKept

\* Bills that keep their orders and quantities, whatever is posted.
LEMMA GrniBills ==
  ASSUME GrniKept, UNCHANGED <<purchaseOrders, goodsReceipts>>, OrderKey(bills') = OrderKey(bills),
         QtyIn(bills') = QtyIn(bills), GrniBooked'
  PROVE  GrniKept'
<1>1. purchaseOrders' = purchaseOrders /\ goodsReceipts' = goodsReceipts
  OBVIOUS
<1>2. QED
  BY <1>1 DEF GrniKept, ReceiptsValued, BillsValued

\* issue_bill debits its net.
LEMMA IssueBillGrni ==
  ASSUME Tables, GrniKept, IssueBill
  PROVE  GrniKept'
<1>0. bills \in Seq(SupplierBillRow) /\ TypeOK
  BY TypedRows DEF Tables
<1>1. PICK i \in DOMAIN bills, doc \in SupplierBillRow : \E rows :
            /\ IssueBillChange(i, doc, rows)
            /\ Shift(0, -TotalOf(bills[i]), 0, bills[i].tax, 0, bills[i].net)
            /\ UNCHANGED <<purchaseOrders, goodsReceipts, supplierPayments, sales, onHand, costPrice, returns>>
  BY IssueBillSummary
<1>2. /\ bills' = [bills EXCEPT ![i] = doc] /\ doc.order = bills[i].order /\ doc.qty = bills[i].qty
      /\ bills[i].status = "DRAFT" /\ doc.status = "ISSUED" /\ doc.net = bills[i].net
      /\ purchaseOrders' = purchaseOrders /\ goodsReceipts' = goodsReceipts
      /\ balance'["GRNI"] = balance["GRNI"] + bills[i].net
  BY <1>1 DEF IssueBillChange, Shift
<1>3. /\ DOMAIN bills' = DOMAIN bills /\ bills'[i] = doc
      /\ \A j \in DOMAIN bills : j # i => bills'[j] = bills[j]
  BY <1>0, <1>2, Replaced
<1>4. OrderKey(bills') = OrderKey(bills) /\ QtyIn(bills') = QtyIn(bills)
  BY <1>2, <1>3 DEF OrderKey, QtyIn
<1>5. PICK f, g, n : f = NetCharged(bills) /\ g = NetCharged(bills') /\ n = bills[i].net
  OBVIOUS
<1>6. /\ DOMAIN g = DOMAIN f /\ i \in DOMAIN f /\ f[i] = 0 /\ g[i] = n
      /\ \A j \in DOMAIN f \ {i} : g[j] = f[j]
  BY <1>2, <1>3, <1>5 DEF NetCharged
<1>7. /\ Numbers(f) /\ SumFunction(f) \in Int /\ SumFunction(CostsPosted(goodsReceipts)) \in Int
      /\ balance["GRNI"] \in Int /\ n \in Int
  BY <1>0, <1>5, GrniType, Rows DEF SupplierBillRow
<1>8. SumFunction(g) = SumFunction(f) - f[i] + g[i]
  BY <1>6, <1>7, SumExcept DEF Numbers
<1>9. GrniBooked'
  BY <1>2, <1>5, <1>6, <1>7, <1>8 DEF GrniKept, GrniBooked
<1>10. QED
  BY <1>2, <1>4, <1>9, GrniBills

\* pay_supplier leaves what was billed.
LEMMA PaySupplierGrni ==
  ASSUME Tables, GrniKept, PaySupplier
  PROVE  GrniKept'
<1>0. TypeOK
  BY DEF Tables
<1>1. PICK pay \in PaymentRow(Supplier) : SupplierPaymentChange(pay)
  BY PaySupplierSummary
<1>2. /\ Settles(pay, bills, bills') /\ purchaseOrders' = purchaseOrders /\ goodsReceipts' = goodsReceipts
      /\ balance'["GRNI"] = balance["GRNI"] + 0
  BY <1>1 DEF SupplierPaymentChange, Shift
<1>3. OrderKey(bills') = OrderKey(bills) /\ QtyIn(bills') = QtyIn(bills)
  BY <1>2, SettledTables
<1>4. /\ DOMAIN bills' = DOMAIN bills
      /\ \A j \in DOMAIN bills : (IF bills'[j].status = "DRAFT" THEN 0 ELSE bills'[j].net)
                                 = (IF bills[j].status = "DRAFT" THEN 0 ELSE bills[j].net)
  BY <1>2 DEF Settles, PaidMore
<1>5. NetCharged(bills') = NetCharged(bills)
  BY <1>4 DEF NetCharged
<1>6. GrniBooked'
  BY <1>0, <1>2, <1>5, GrniType DEF GrniKept, GrniBooked
<1>7. QED
  BY <1>2, <1>3, <1>6, GrniBills

\* Nothing received and nothing billed.
LEMMA GrniInit ==
  ASSUME Init
  PROVE  GrniKept
<1>1. /\ purchaseOrders = <<>> /\ goodsReceipts = <<>> /\ bills = <<>>
      /\ balance = [a \in SystemAccount |-> 0]
  BY DEF Init, BooksInit, PurchasingInit
<1>2. DOMAIN purchaseOrders = {} /\ DOMAIN goodsReceipts = {} /\ DOMAIN bills = {} /\ balance["GRNI"] = 0
  BY <1>1 DEF SystemAccount
<1>3. ASSUME NEW c, NEW key, NEW q, NEW os, DOMAIN c = {}, DOMAIN key = {}, DOMAIN q = {}
      PROVE  Valued(c, key, q, os)
  <2>1. DOMAIN CountValues(c, os) = {} /\ DOMAIN DocValues(key, q, os) = {}
    BY <1>3 DEF CountValues, DocValues
  <2>2. SumFunction(CountValues(c, os)) = 0 /\ SumFunction(DocValues(key, q, os)) = 0
    BY <2>1, SumOfNone
  <2>3. Charted(c, key, q, os)
    BY <1>3, FS_EmptySet DEF Charted
  <2>4. QED
    BY <2>2, <2>3 DEF Valued
<1>4. ReceiptsValued /\ BillsValued
  <2>1. /\ DOMAIN ReceivedOf(purchaseOrders) = {} /\ DOMAIN BilledOf(purchaseOrders) = {}
        /\ DOMAIN OrderKey(goodsReceipts) = {} /\ DOMAIN QtyIn(goodsReceipts) = {}
        /\ DOMAIN OrderKey(bills) = {} /\ DOMAIN QtyIn(bills) = {}
    BY <1>2 DEF ReceivedOf, BilledOf, OrderKey, QtyIn
  <2>2. QED
    BY <1>3, <2>1 DEF ReceiptsValued, BillsValued
<1>5. GrniBooked
  <2>1. DOMAIN NetCharged(bills) = {} /\ DOMAIN CostsPosted(goodsReceipts) = {}
    BY <1>2 DEF NetCharged, CostsPosted
  <2>2. SumFunction(NetCharged(bills)) = 0 /\ SumFunction(CostsPosted(goodsReceipts)) = 0
    BY <2>1, SumOfNone
  <2>3. QED
    BY <1>2, <2>2 DEF GrniBooked
<1>6. QED
  BY <1>2, <1>4, <1>5 DEF GrniKept

\* Every step keeps it.
LEMMA GrniStep ==
  ASSUME Tables, GrniKept, [Next]_vars
  PROVE  GrniKept'
<1>1. Balances
  BY BalancesType DEF Tables
<1>2. ASSUME NEW a, NEW b, NEW c, NEW d, NEW e, Shift(a, b, c, d, e, 0)
      PROVE  balance'["GRNI"] = balance["GRNI"]
  BY <1>1, <1>2 DEF Shift, Balances
<1>3. CASE SalesStep /\ UNCHANGED purchases
  <2>1. balance'["GRNI"] = balance["GRNI"]
    <3>1. CASE Fulfil
      BY <1>2, <3>1, FulfilSummary DEF Shipped
    <3>2. CASE IssueInvoice
      BY <1>2, <3>2, IssueInvoiceSummary
    <3>3. CASE IssueCreditNote
      BY <1>2, <3>3, CreditNoteSummary
    <3>4. CASE RecordPayment
      BY <1>2, <3>4, RecordPaymentSummary DEF PaymentChange
    <3>5. CASE \/ CreateQuotation \/ SetQuotationStatus \/ ConvertQuotation \/ CreateOrder \/ ConfirmOrder
               \/ CancelOrder \/ CreateInvoice
      BY <3>5, SalesFrames DEF books
    <3>6. QED
      BY <1>3, <3>1, <3>2, <3>3, <3>4, <3>5 DEF SalesStep
  <2>2. QED
    BY <1>3, <2>1, GrniFrame
<1>4. CASE PurchaseStep
  BY <1>4, OpenPurchaseOrderGrni, PurchaseStatusGrni, ReceiveGrni, CreateBillGrni, IssueBillGrni,
     PaySupplierGrni DEF PurchaseStep
<1>5. CASE PrepareReturn
  <2>1. UNCHANGED <<balance, purchases>>
    BY <1>5 DEF PrepareReturn, prepare_return
  <2>2. QED
    BY <2>1, GrniFrame
<1>6. CASE FileReturn
  <2>1. UNCHANGED <<balance, purchases>>
    BY <1>6 DEF FileReturn, file_return
  <2>2. QED
    BY <2>1, GrniFrame
<1>7. CASE UNCHANGED vars
  BY <1>7, GrniFrame DEF vars, books
<1>8. QED
  BY <1>3, <1>4, <1>5, <1>6, <1>7, Steps

\* The nets of issued bills are the value billed, but for half a unit of money a line.
LEMMA NetsBilled ==
  ASSUME Tables, BillsValued, \A b \in DOMAIN bills : bills[b].status # "DRAFT"
  PROVE  LET v == SumFunction(CountValues(BilledOf(purchaseOrders), purchaseOrders))
             m == SumFunction([b \in DOMAIN bills |-> Cardinality(DOMAIN bills[b].qty)])
             a == SumFunction(NetCharged(bills))
         IN  /\ a \in Int /\ v \in Int /\ m \in Int
             /\ 2 * (CostScale * a) <= 2 * v + CostScale * m
             /\ 2 * v - CostScale * m <= 2 * (CostScale * a)
<1>0. TypeOK
  BY DEF Tables
<1>1. PICK f, g, n : /\ f = NetCharged(bills) /\ g = DocValues(OrderKey(bills), QtyIn(bills), purchaseOrders)
                     /\ n = [b \in DOMAIN bills |-> Cardinality(DOMAIN bills[b].qty)]
  OBVIOUS
<1>2. /\ Charted(BilledOf(purchaseOrders), OrderKey(bills), QtyIn(bills), purchaseOrders)
      /\ SumFunction(CountValues(BilledOf(purchaseOrders), purchaseOrders)) = SumFunction(g)
  BY <1>1 DEF BillsValued, Valued
<1>3. /\ DOMAIN f = DOMAIN bills /\ DOMAIN g = DOMAIN bills /\ DOMAIN n = DOMAIN bills
      /\ Numbers(f) /\ Numbers(g)
  <2>1. Numbers(g) /\ DOMAIN g = DOMAIN QtyIn(bills)
    BY <1>1, <1>2, ValuesType
  <2>2. QED
    BY <1>0, <1>1, <2>1, GrniType DEF NetCharged, QtyIn
<1>4. ASSUME NEW b \in DOMAIN bills
      PROVE  /\ n[b] \in Int
             /\ 2 * (CostScale * f[b]) <= 2 * g[b] + CostScale * n[b]
             /\ 2 * g[b] - CostScale * n[b] <= 2 * (CostScale * f[b])
  <2>1. PICK qty, ls, i : qty = bills[b].qty /\ i = bills[b].order /\ ls = purchaseOrders[i].lines
    OBVIOUS
  <2>2. Matches(bills[b], purchaseOrders, CostScale)
    BY DEF Tables
  <2>3. i \in DOMAIN purchaseOrders /\ DOMAIN qty \subseteq DOMAIN ls /\ bills[b].net = NetOf(Amounts(qty, ls, CostScale))
    BY <2>1, <2>2 DEF Matches
  <2>4. \A p \in DOMAIN qty : ls[p].disc = 0
    BY <1>0, <2>1, <2>3, PurchaseLines
  <2>5. Valuable(qty, ls) /\ g[b] = ValueOf(qty, ls)
    BY <1>1, <1>2, <2>1 DEF Charted, DocValues, OrderKey, QtyIn
  <2>6. f[b] = NetOf(Amounts(qty, ls, CostScale)) /\ n[b] = Cardinality(DOMAIN qty)
    BY <1>1, <2>1, <2>3 DEF NetCharged
  <2>7. QED
    BY <2>4, <2>5, <2>6, NetOfCosts
<1>5. Numbers(n)
  BY <1>3, <1>4 DEF Numbers
<1>6. CostScale \in Nat
  BY BooksAssumption
<1>7. /\ SumFunction(f) \in Int /\ SumFunction(g) \in Int /\ SumFunction(n) \in Int
      /\ 2 * (CostScale * SumFunction(f)) <= 2 * SumFunction(g) + CostScale * SumFunction(n)
      /\ 2 * SumFunction(g) - CostScale * SumFunction(n) <= 2 * (CostScale * SumFunction(f))
  BY <1>3, <1>4, <1>5, <1>6, RoundedSum
<1>8. QED
  BY <1>1, <1>2, <1>7

\* The costs posted for receipts at the prices of their orders are the value
\* received, but for half a unit of money a receipt.
LEMMA CostsReceived ==
  ASSUME TypeOK, ReceiptsValued, \A r \in DOMAIN goodsReceipts : CostStated(goodsReceipts[r]),
         \A i \in DOMAIN purchaseOrders : DOMAIN purchaseOrders[i].lines \subseteq Tracked,
         \A r \in DOMAIN goodsReceipts : \A p \in DOMAIN goodsReceipts[r].qty :
            goodsReceipts[r].unit[p] = purchaseOrders[goodsReceipts[r].order].lines[p].price
  PROVE  LET v == SumFunction(CountValues(ReceivedOf(purchaseOrders), purchaseOrders))
             a == SumFunction(CostsPosted(goodsReceipts))
         IN  /\ a \in Int /\ v \in Int /\ Len(goodsReceipts) \in Int
             /\ 2 * (CostScale * a) <= 2 * v + CostScale * Len(goodsReceipts)
             /\ 2 * v - CostScale * Len(goodsReceipts) <= 2 * (CostScale * a)
<1>1. PICK f, g, n :
        /\ f = CostsPosted(goodsReceipts) /\ n = [r \in DOMAIN goodsReceipts |-> 1]
        /\ g = DocValues(OrderKey(goodsReceipts), QtyIn(goodsReceipts), purchaseOrders)
  OBVIOUS
<1>2. /\ Charted(ReceivedOf(purchaseOrders), OrderKey(goodsReceipts), QtyIn(goodsReceipts), purchaseOrders)
      /\ SumFunction(CountValues(ReceivedOf(purchaseOrders), purchaseOrders)) = SumFunction(g)
  BY <1>1 DEF ReceiptsValued, Valued
<1>3. /\ DOMAIN f = DOMAIN goodsReceipts /\ DOMAIN g = DOMAIN goodsReceipts /\ DOMAIN n = DOMAIN goodsReceipts
      /\ Numbers(f) /\ Numbers(g) /\ Numbers(n)
  <2>1. Numbers(g) /\ DOMAIN g = DOMAIN QtyIn(goodsReceipts)
    BY <1>1, <1>2, ValuesType
  <2>2. DOMAIN n = DOMAIN goodsReceipts /\ Numbers(n)
    BY <1>1, TablesFinite DEF Numbers
  <2>3. QED
    BY <1>1, <2>1, <2>2, GrniType DEF CostsPosted, QtyIn
<1>4. CostScale \in Nat
  BY BooksAssumption
<1>5. ASSUME NEW r \in DOMAIN goodsReceipts
      PROVE  /\ 2 * (CostScale * f[r]) <= 2 * g[r] + CostScale * n[r]
             /\ 2 * g[r] - CostScale * n[r] <= 2 * (CostScale * f[r])
  <2>1. PICK doc, ls : doc = goodsReceipts[r] /\ ls = purchaseOrders[doc.order].lines
    OBVIOUS
  <2>2. /\ doc.order \in DOMAIN purchaseOrders /\ Valuable(doc.qty, ls) /\ g[r] = ValueOf(doc.qty, ls)
    BY <1>1, <1>2, <2>1 DEF Charted, DocValues, OrderKey, QtyIn
  <2>3. DOMAIN Moved(doc.qty) = DOMAIN doc.qty
    <3>1. DOMAIN doc.qty \cap Tracked = DOMAIN doc.qty
      BY <2>1, <2>2 DEF Valuable
    <3>2. QED
      BY <3>1 DEF Moved, Restrict
  <2>4. \A p \in DOMAIN doc.qty : doc.unit[p] = ls[p].price
    BY <2>1
  <2>5. [p \in DOMAIN Moved(doc.qty) |-> doc.qty[p] * doc.unit[p]]
        = [p \in DOMAIN doc.qty |-> doc.qty[p] * ls[p].price]
    BY <2>3, <2>4
  <2>6. doc.cost = ValueOf(doc.qty, ls)
    BY <2>1, <2>5 DEF CostStated, ValueOf
  <2>7. doc.cost \in Nat
    BY <2>1, Rows DEF GoodsReceiptRow
  <2>8. f[r] = PostedCost(doc.cost) /\ n[r] = 1 /\ CostScale * 1 = CostScale
    BY <1>1, <1>4, <2>1 DEF CostsPosted
  <2>9. QED
    BY <2>2, <2>6, <2>7, <2>8, PostedBound
<1>6. /\ SumFunction(f) \in Int /\ SumFunction(g) \in Int /\ SumFunction(n) \in Int
      /\ 2 * (CostScale * SumFunction(f)) <= 2 * SumFunction(g) + CostScale * SumFunction(n)
      /\ 2 * SumFunction(g) - CostScale * SumFunction(n) <= 2 * (CostScale * SumFunction(f))
  BY <1>3, <1>4, <1>5, RoundedSum
<1>7. SumFunction(n) = Len(goodsReceipts)
  <2>1. goodsReceipts \in Seq(GoodsReceiptRow)
    BY TypedRows
  <2>2. DOMAIN n = 1..Len(goodsReceipts) /\ Len(goodsReceipts) \in Nat
    BY <1>3, <2>1
  <2>3. Cardinality(DOMAIN n) = Len(goodsReceipts)
    BY <2>2, FS_Interval
  <2>4. IsFiniteSet(DOMAIN n) /\ \A r \in DOMAIN n : n[r] = 1
    BY <1>1, <1>3 DEF Numbers
  <2>5. QED
    BY <2>3, <2>4, SumOfOnes
<1>8. QED
  BY <1>1, <1>2, <1>6, <1>7

\* What is kept says what the account holds once it is cleared.
LEMMA GrniIs ==
  ASSUME Tables, GrniKept
  PROVE  GrniClears
<1> SUFFICES ASSUME \A i \in DOMAIN purchaseOrders : \A p \in DOMAIN purchaseOrders[i].lines :
                        /\ p \in Tracked
                        /\ purchaseOrders[i].lines[p].received = purchaseOrders[i].lines[p].billed,
                    \A r \in DOMAIN goodsReceipts : \A p \in DOMAIN goodsReceipts[r].qty :
                        goodsReceipts[r].unit[p] = purchaseOrders[goodsReceipts[r].order].lines[p].price,
                    \A b \in DOMAIN bills : bills[b].status # "DRAFT"
             PROVE  2 * Distance(balance["GRNI"], 0) <= Len(goodsReceipts)
                      + SumFunction([b \in DOMAIN bills |-> Cardinality(DOMAIN bills[b].qty)])
  BY DEF GrniClears
<1>0. TypeOK /\ CostScale \in Nat \ {0}
  BY BooksAssumption DEF Tables
<1>1. ReceivedOf(purchaseOrders) = BilledOf(purchaseOrders)
  BY DEF ReceivedOf, BilledOf
<1>2. PICK a, b, v, m, n :
        /\ a = SumFunction(NetCharged(bills)) /\ b = SumFunction(CostsPosted(goodsReceipts))
        /\ v = SumFunction(CountValues(BilledOf(purchaseOrders), purchaseOrders))
        /\ m = SumFunction([c \in DOMAIN bills |-> Cardinality(DOMAIN bills[c].qty)])
        /\ n = Len(goodsReceipts)
  OBVIOUS
<1>3. /\ a \in Int /\ v \in Int /\ m \in Int
      /\ 2 * (CostScale * a) <= 2 * v + CostScale * m /\ 2 * v - CostScale * m <= 2 * (CostScale * a)
  BY <1>2, NetsBilled DEF GrniKept
<1>4. /\ b \in Int /\ n \in Int
      /\ 2 * (CostScale * b) <= 2 * v + CostScale * n /\ 2 * v - CostScale * n <= 2 * (CostScale * b)
  <2>1. \A i \in DOMAIN purchaseOrders : DOMAIN purchaseOrders[i].lines \subseteq Tracked
    OBVIOUS
  <2>2. ReceiptsValued /\ \A r \in DOMAIN goodsReceipts : CostStated(goodsReceipts[r])
    BY DEF GrniKept
  <2>3. QED
    BY <1>0, <1>1, <1>2, <2>1, <2>2, CostsReceived
<1>5. 2 * (a - b) <= m + n /\ 2 * (b - a) <= m + n
  BY <1>0, <1>3, <1>4, RoundedApart
<1>6. balance["GRNI"] = a - b
  BY <1>2 DEF GrniKept, GrniBooked
<1>7. 2 * Distance(a - b, 0) <= n + m
  BY <1>3, <1>4, <1>5 DEF Distance
<1>8. QED
  BY <1>2, <1>6, <1>7

(* The account of goods received not invoiced is clear, but for half a unit *)
(* of rounding per receipt and bill line, once everything is billed as      *)
(* received, at the order's cost, and the bills are issued.                 *)
THEOREM GrniAccountClears == Spec => []GrniClears
<1>1. Init => GrniKept
  BY GrniInit
<1>2. Tables /\ GrniKept /\ [Next]_vars => GrniKept'
  BY GrniStep
<1>3. Tables /\ GrniKept => GrniClears
  BY GrniIs
<1>4. QED
  BY <1>1, <1>2, <1>3, TablesCorrect, PTL DEF Spec

=============================================================================
