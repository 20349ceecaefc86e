------------------------------- MODULE Sales -------------------------------
(***************************************************************************)
(* Sales documents (modules/sales/service.py): quotation, order,           *)
(* fulfilment, invoice, payment and credit note, with what each writes to  *)
(* the books.  Documents are numbered in the order of their creation.  A   *)
(* Customer stands for the pair of a customer and a branch, which a        *)
(* payment has to match; requests name warehouses of that branch.  A       *)
(* repeated request with the key of an earlier one returns the stored      *)
(* answer and changes nothing (Idempotency).                               *)
(***************************************************************************)
EXTENDS Books

CONSTANTS
    Customer,       \* customers, with the branch that serves them
    SalesBasket,    \* the lines a request may carry: functions of products to Line
    Receipts,       \* amounts of payments and of allocations
    Methods,        \* the payment methods in use
    MaxQuotations, MaxOrders, MaxPayments, MaxNotes  \* bounds

PaymentMethod == {"CASH", "CARD", "BANK_TRANSFER", "MOBILE", "CREDIT"}

ASSUME SalesAssumption ==
    /\ IsFiniteSet(Customer) /\ SalesBasket \subseteq PerProduct(Line)
    /\ Receipts \subseteq Nat \ {0} /\ Methods \subseteq PaymentMethod
    /\ {MaxQuotations, MaxOrders, MaxPayments, MaxNotes} \subseteq Nat

VARIABLES quotations, orders, shipments, invoices, payments, notes

sales == <<quotations, orders, shipments, invoices, payments, notes>>

QuotationStatus == {"DRAFT", "SENT", "ACCEPTED", "REJECTED", "EXPIRED"}
SalesOrderStatus == {"DRAFT", "CONFIRMED", "PARTIALLY_FULFILLED", "FULFILLED", "CANCELLED"}
InvoiceStatus == {"DRAFT", "ISSUED", "PARTIALLY_PAID", "PAID", "CANCELLED"}

(* Rows: what the mapped classes hold. *)
PerDocument(S) == UNION {[D -> S] : D \in SUBSET Nat}
OrderLineRow == [qty : Nat, price : Nat, disc : 0..Scale, tax : 0..Scale,
                 fulfilled : Nat, invoiced : Nat]
QuotationRow == [customer : Customer, status : QuotationStatus, lines : PerProduct(Line),
                 converted : Nat]
SalesOrderRow == [customer : Customer, warehouse : Warehouse, status : SalesOrderStatus,
                  quotation : Nat, lines : PerProduct(OrderLineRow)]
FulfillmentRow == [order : Nat, qty : PerProduct(Nat), cost : Nat]
InvoiceRow == [customer : Customer, order : Nat, status : InvoiceStatus, date : Date,
               qty : PerProduct(Nat), credited : PerProduct(Nat), net : Nat, tax : Nat,
               paid : Nat]
PaymentRow(Party) == [party : Party, amount : Nat, allocated : PerDocument(Nat)]
CreditNoteRow == [invoice : Nat, qty : PerProduct(Nat), into : SUBSET Warehouse, net : Nat,
                  tax : Nat, cost : Nat]

(* Constraints of the tables: a transaction that breaks one is rolled      *)
(* back.  converted_order_id is no foreign key.  Left out are the keys to  *)
(* branches, tenants and to rows a row here keeps by value, the totals of  *)
(* quotations and orders, which nothing reads, and the uniqueness of       *)
(* document numbers, the subject of Numbering.                             *)
QuotationKeys(q) == q.customer \in Customer
QuotationChecks(q) == \A p \in DOMAIN q.lines : q.lines[p].qty > 0 /\ q.lines[p].price >= 0
SalesOrderKeys(o) ==
    o.customer \in Customer /\ o.warehouse \in Warehouse /\ o.quotation \in 0..Len(quotations)
SalesOrderLineChecks(l) ==
    l.qty > 0 /\ l.price >= 0 /\ l.fulfilled \in 0..l.qty /\ l.invoiced \in 0..l.qty
FulfillmentKeys(f) == f.order \in DOMAIN orders
FulfillmentLineChecks(qty) == \A p \in DOMAIN qty : qty[p] > 0
InvoiceKeys(i) == i.customer \in Customer /\ i.order \in DOMAIN orders
InvoiceChecks(inv) == inv.net + inv.tax >= 0 /\ inv.paid \in 0..(inv.net + inv.tax)
InvoiceLineChecks(inv) ==
    \A p \in DOMAIN inv.qty : inv.qty[p] > 0 /\ inv.credited[p] \in 0..inv.qty[p]
PaymentKeys(y, Party) == y.party \in Party
PaymentChecks(pay) == pay.amount > 0 /\ SumFunction(pay.allocated) \in 0..pay.amount
PaymentAllocationChecks(allocated, docs) ==
    \A i \in DOMAIN allocated : i \in DOMAIN docs /\ allocated[i] > 0
CreditNoteKeys(n) == n.invoice \in DOMAIN invoices /\ n.into \subseteq Warehouse
CreditNoteChecks(n) == n.net + n.tax >= 0
CreditNoteLineChecks(n) == \A p \in DOMAIN n.qty : n.qty[p] > 0

SalesChecks ==
    /\ \A i \in DOMAIN quotations : QuotationKeys(quotations[i]) /\ QuotationChecks(quotations[i])
    /\ \A i \in DOMAIN orders :
            /\ SalesOrderKeys(orders[i])
            /\ \A p \in DOMAIN orders[i].lines : SalesOrderLineChecks(orders[i].lines[p])
    /\ \A i \in DOMAIN shipments :
            FulfillmentKeys(shipments[i]) /\ FulfillmentLineChecks(shipments[i].qty)
    /\ \A i \in DOMAIN invoices : /\ InvoiceKeys(invoices[i]) /\ InvoiceChecks(invoices[i])
                                  /\ InvoiceLineChecks(invoices[i])
    /\ \A i \in DOMAIN payments :
            /\ PaymentKeys(payments[i], Customer) /\ PaymentChecks(payments[i])
            /\ PaymentAllocationChecks(payments[i].allocated, invoices)
    /\ \A i \in DOMAIN notes : /\ CreditNoteKeys(notes[i]) /\ CreditNoteChecks(notes[i])
                               /\ CreditNoteLineChecks(notes[i])

SalesRows ==
    /\ quotations \in Seq(QuotationRow) /\ orders \in Seq(SalesOrderRow)
    /\ shipments \in Seq(FulfillmentRow) /\ invoices \in Seq(InvoiceRow)
    /\ payments \in Seq(PaymentRow(Customer)) /\ notes \in Seq(CreditNoteRow)

\* Quantities a request may ask for, line by line, at most what is left of each.
Parts(left) ==
    UNION {{q \in [S -> UNION {1..left[p] : p \in S}] : \A p \in S : q[p] <= left[p]} :
           S \in (SUBSET {p \in DOMAIN left : left[p] > 0}) \ {{}}}

----------------------------------------------------------------------------
(* Quotations *)

create_quotation(c, basket) ==
    /\ Len(quotations) < MaxQuotations
    /\ quotations' = Append(quotations,
            [customer |-> c, status |-> "DRAFT", lines |-> basket, converted |-> 0])
    /\ UNCHANGED <<orders, shipments, invoices, payments, notes, books>>

legal == [SENT |-> {"DRAFT"}, ACCEPTED |-> {"SENT"}, REJECTED |-> {"SENT"},
          EXPIRED |-> {"DRAFT", "SENT"}]

\* send_quotation, accept_quotation, reject_quotation; nothing sets EXPIRED.
set_quotation_status(i, status) ==
    /\ quotations[i].status \in legal[status]
    /\ quotations' = [quotations EXCEPT ![i].status = status]
    /\ UNCHANGED <<orders, shipments, invoices, payments, notes, books>>

OrderLine(l) == [qty |-> l.qty, price |-> l.price, disc |-> l.disc, tax |-> l.tax,
                 fulfilled |-> 0, invoiced |-> 0]
NewOrder(c, w, lines, quotation) ==
    [customer |-> c, warehouse |-> w, status |-> "DRAFT", quotation |-> quotation,
     lines |-> [p \in DOMAIN lines |-> OrderLine(lines[p])]]

Convertible(q) == q.status = "ACCEPTED" /\ q.converted = 0

convert_quotation(i, w) ==
    /\ Len(orders) < MaxOrders
    /\ Convertible(quotations[i])
    /\ orders' = Append(orders, NewOrder(quotations[i].customer, w, quotations[i].lines, i))
    /\ quotations' = [quotations EXCEPT ![i].converted = Len(orders) + 1]
    /\ UNCHANGED <<shipments, invoices, payments, notes, books>>

----------------------------------------------------------------------------
(* Orders *)

create_order(c, w, basket) ==
    /\ Len(orders) < MaxOrders
    /\ orders' = Append(orders, NewOrder(c, w, basket, 0))
    /\ UNCHANGED <<quotations, shipments, invoices, payments, notes, books>>

confirm_order(i) ==
    /\ orders[i].status = "DRAFT"
    /\ orders' = [orders EXCEPT ![i].status = "CONFIRMED"]
    /\ UNCHANGED <<quotations, shipments, invoices, payments, notes, books>>

\* Mistake: only the status is looked at.
CancellableByStatus(o) == o.status \in {"DRAFT", "CONFIRMED", "PARTIALLY_FULFILLED"}

Cancellable(o) ==
    /\ o.status \in {"DRAFT", "CONFIRMED", "PARTIALLY_FULFILLED"}
    /\ \A p \in DOMAIN o.lines : o.lines[p].fulfilled = 0

cancel_order(i) ==
    /\ Cancellable(orders[i])
    /\ orders' = [orders EXCEPT ![i].status = "CANCELLED"]
    /\ UNCHANGED <<quotations, shipments, invoices, payments, notes, books>>

----------------------------------------------------------------------------
(* Fulfilment *)

Outstanding(o) == [p \in DOMAIN o.lines |-> o.lines[p].qty - o.lines[p].fulfilled]

ShippedStatus(lines) ==
    IF \A p \in DOMAIN lines : lines[p].fulfilled >= lines[p].qty
    THEN "FULFILLED" ELSE "PARTIALLY_FULFILLED"

\* _post_fulfillment: no entry without cost.
FulfilmentEntry(cost) == IF cost <= 0 THEN NoEntry ELSE cogs_recognition(PostedCost(cost))

\* A request without lines asks for everything outstanding.  read: the costs as
\* read without a lock.
fulfil(i, qty, read) ==
    LET o == orders[i]
        lines == [p \in DOMAIN o.lines |->
                    IF p \in DOMAIN qty THEN [o.lines[p] EXCEPT !.fulfilled = @ + qty[p]]
                                        ELSE o.lines[p]]
        entry == FulfilmentEntry(CostOf(qty, read))
    IN  /\ o.status \in {"CONFIRMED", "PARTIALLY_FULFILLED"}
        /\ Available(o.warehouse, qty)
        /\ \E today \in Date : Accepted(today, entry)
        /\ orders' = [orders EXCEPT ![i].lines = lines, ![i].status = ShippedStatus(lines)]
        /\ shipments' = Append(shipments, [order |-> i, qty |-> qty, cost |-> CostOf(qty, read)])
        /\ onHand' = TakeOut(o.warehouse, qty)
        /\ balance' = Posted(balance, entry)
        /\ UNCHANGED <<quotations, invoices, payments, notes, costPrice, register, returns>>

----------------------------------------------------------------------------
(* Invoices *)

ToInvoice(o, fulfilledOnly) ==
    LET left(l) == (IF fulfilledOnly THEN l.fulfilled ELSE l.qty) - l.invoiced
    IN  [p \in {p \in DOMAIN o.lines : left(o.lines[p]) > 0} |-> left(o.lines[p])]

create_invoice(i, fulfilledOnly, date) ==
    LET o == orders[i]
        qty == ToInvoice(o, fulfilledOnly)
        amounts == Amounts(qty, o.lines, 1)
    IN  /\ o.status \in {"CONFIRMED", "PARTIALLY_FULFILLED", "FULFILLED"}
        /\ DOMAIN qty # {}
        /\ invoices' = Append(invoices,
                [customer |-> o.customer, order |-> i, status |-> "DRAFT", date |-> date,
                 qty |-> qty, credited |-> [p \in DOMAIN qty |-> 0],
                 net |-> NetOf(amounts), tax |-> TaxOf(amounts), paid |-> 0])
        /\ orders' = [orders EXCEPT ![i].lines =
                [p \in DOMAIN o.lines |->
                    IF p \in DOMAIN qty THEN [o.lines[p] EXCEPT !.invoiced = @ + qty[p]]
                                        ELSE o.lines[p]]]
        /\ UNCHANGED <<quotations, shipments, payments, notes, books>>

\* The invoice copies the prices and rates of its order's lines.
PricesOf(inv) == orders[inv.order].lines
TotalOf(doc) == doc.net + doc.tax

InvoiceEntry(inv) == IF TotalOf(inv) <= 0 THEN NoEntry ELSE credit_sale(inv.net, inv.tax)
VatOfInvoice(i) ==
    LET inv == invoices[i]
    IN  RowsPerRate(<<"invoice", i>>, "OUTPUT", inv.date, 1, PricesOf(inv),
                    Amounts(inv.qty, PricesOf(inv), 1))

\* Mistake: an invoice may be issued again.
IssuableAgain(inv) == inv.status \in {"DRAFT", "ISSUED"}

Issuable(inv) == inv.status = "DRAFT"

issue_invoice(i) ==
    /\ Issuable(invoices[i])
    /\ Accepted(invoices[i].date, InvoiceEntry(invoices[i]))
    /\ invoices' = [invoices EXCEPT ![i].status = "ISSUED"]
    /\ balance' = Posted(balance, InvoiceEntry(invoices[i]))
    /\ register' = register \cup VatOfInvoice(i)
    /\ UNCHANGED <<quotations, orders, shipments, payments, notes, onHand, costPrice, returns>>

----------------------------------------------------------------------------
(* Payments *)

\* Mistake: any payment settles the whole document.
SettledInFull(doc, amount) == [doc EXCEPT !.paid = TotalOf(doc), !.status = "PAID"]

Settled(doc, amount) ==
    [doc EXCEPT !.paid = @ + amount,
                !.status = IF doc.paid + amount >= TotalOf(doc) THEN "PAID" ELSE "PARTIALLY_PAID"]

Allocatable(doc, amount) ==
    doc.status \in {"ISSUED", "PARTIALLY_PAID"} /\ amount <= TotalOf(doc) - doc.paid

\* At most one allocation to each of the documents a payment may settle.
Allocations(docs) == UNION {[S -> Receipts] : S \in SUBSET docs}

record_payment(c, method, amount, allocated) ==
    /\ Len(payments) < MaxPayments
    /\ OpenDates # {}
    /\ SumFunction(allocated) <= amount
    /\ \A i \in DOMAIN allocated : Allocatable(invoices[i], allocated[i])
    /\ payments' = Append(payments, [party |-> c, amount |-> amount, allocated |-> allocated])
    /\ invoices' = [i \in DOMAIN invoices |->
            IF i \in DOMAIN allocated THEN Settled(invoices[i], allocated[i]) ELSE invoices[i]]
    /\ balance' = Posted(balance, customer_payment(amount, method = "CASH"))
    /\ UNCHANGED <<quotations, orders, shipments, notes, onHand, costPrice, register, returns>>

----------------------------------------------------------------------------
(* Credit notes *)

Creditable(inv) == [p \in DOMAIN inv.qty |-> inv.qty[p] - inv.credited[p]]

ReturnEntry(net, tax) == IF net + tax > 0 THEN sales_return(net, tax) ELSE NoEntry
CostReversal(cost) == IF cost = 0 THEN NoEntry ELSE cogs_reversal(PostedCost(cost))

\* Mistake: the note is recorded as another sale.
VatOfNoteAsSale(n, date, lines, amounts) ==
    RowsPerRate(<<"credit_note", n>>, "OUTPUT", date, 1, lines, amounts)

VatOfNote(n, date, lines, amounts) ==
    RowsPerRate(<<"credit_note", n>>, "OUTPUT", date, -1, lines, amounts)

\* restock and warehouse_id: the warehouse the goods go back into, if they do.
Restocked(into, qty) == IF into = {} THEN onHand ELSE PutBack(CHOOSE w \in into : TRUE, qty)

issue_credit_note(i, qty, into, date, read) ==
    LET inv == invoices[i]
        amounts == Amounts(qty, PricesOf(inv), 1)
        cost == IF into = {} THEN 0 ELSE CostOf(qty, read)
    IN  /\ Len(notes) < MaxNotes
        /\ inv.status \in {"ISSUED", "PARTIALLY_PAID", "PAID"}
        /\ Accepted(date, ReturnEntry(NetOf(amounts), TaxOf(amounts)))
        /\ Accepted(date, CostReversal(cost))
        /\ notes' = Append(notes, [invoice |-> i, qty |-> qty, into |-> into,
                                   net |-> NetOf(amounts), tax |-> TaxOf(amounts), cost |-> cost])
        /\ invoices' = [invoices EXCEPT ![i].credited =
                [p \in DOMAIN @ |-> @[p] + IF p \in DOMAIN qty THEN qty[p] ELSE 0]]
        /\ onHand' = Restocked(into, qty)
        /\ balance' = Posted(Posted(balance, ReturnEntry(NetOf(amounts), TaxOf(amounts))),
                             CostReversal(cost))
        /\ register' = register \cup VatOfNote(Len(notes) + 1, date, PricesOf(inv), amounts)
        /\ UNCHANGED <<quotations, orders, shipments, payments, costPrice, returns>>

----------------------------------------------------------------------------
(* Reports *)

IssuedDocs(docs) == {i \in DOMAIN docs : docs[i].status \in {"ISSUED", "PARTIALLY_PAID", "PAID"}}
CreditedOn(i) ==
    SumFunction([n \in {n \in DOMAIN notes : notes[n].invoice = i} |-> TotalOf(notes[n])])

receivables(c) ==
    SumFunction([i \in {i \in IssuedDocs(invoices) : invoices[i].customer = c} |->
                    TotalOf(invoices[i]) - CreditedOn(i) - invoices[i].paid])

SalesInit == quotations = <<>> /\ orders = <<>> /\ shipments = <<>> /\ invoices = <<>>
             /\ payments = <<>> /\ notes = <<>>

\* Requests that add a document, and those that order or move one on.
NewSalesDocument ==
    \/ \E c \in Customer, b \in SalesBasket : create_quotation(c, b)
    \/ \E i \in DOMAIN orders : \E qty \in Parts(Outstanding(orders[i])), read \in CostsRead :
            fulfil(i, qty, read)
    \/ \E i \in DOMAIN orders, only \in BOOLEAN, d \in Date : create_invoice(i, only, d)
    \/ \E c \in Customer, method \in Methods, amount \in Receipts :
            \E allocated \in Allocations({i \in DOMAIN invoices : invoices[i].customer = c}) :
                record_payment(c, method, amount, allocated)
    \/ \E i \in DOMAIN invoices, into \in {{}} \cup {{w} : w \in Warehouse}, d \in Date :
            \E qty \in Parts(Creditable(invoices[i])), read \in CostsRead :
                issue_credit_note(i, qty, into, d, read)

MoveSalesDocument ==
    \/ \E i \in DOMAIN quotations, s \in {"SENT", "ACCEPTED", "REJECTED"} :
            set_quotation_status(i, s)
    \/ \E i \in DOMAIN quotations, w \in Warehouse : convert_quotation(i, w)
    \/ \E c \in Customer, w \in Warehouse, b \in SalesBasket : create_order(c, w, b)
    \/ \E i \in DOMAIN orders : confirm_order(i) \/ cancel_order(i)
    \/ \E i \in DOMAIN invoices : issue_invoice(i)

============================================================================
