-------------------------- MODULE PointOfSale_proofs --------------------------
(***************************************************************************)
(* What holds of the tills for any terminals, carts, tenders and costs,    *)
(* and any number of requests at once, sessions, sales and returns.        *)
(*                                                                         *)
(*   1. what the rows of a sale and of a return are, and what they post;   *)
(*   2. what each step changes;                                            *)
(*   3. Tills: every table keeps its shape and its constraints, and the    *)
(*      locks protect the session and the sale a request has read;         *)
(*   4. the count of a closed session stays true (CountsAreFinal);         *)
(*   5. refunds stay within the sale, and the stock follows                *)
(*      (RefundsStayWithin);                                               *)
(*   6. cash, revenue, returns and VAT follow the tills (LedgerAgrees);    *)
(*   7. refunds reverse what their sales recognised (RefundsReverse).      *)
(***************************************************************************)
EXTENDS PointOfSale, Books_proofs

-----------------------------------------------------------------------------
(* Rows *)

\* What the amounts of some lines add up to.
LEMMA SumsOfAmounts ==
  ASSUME NEW D, IsFiniteSet(D), NEW amounts \in [D -> Amount]
  PROVE  NetOf(amounts) \in Nat /\ TaxOf(amounts) \in Nat
<1>1. PICK n, t : n = [p \in DOMAIN amounts |-> amounts[p].net] /\ t = [p \in DOMAIN amounts |-> amounts[p].tax]
  OBVIOUS
<1>2. DOMAIN n = D /\ DOMAIN t = D /\ \A p \in D : n[p] \in Nat /\ t[p] \in Nat
  BY <1>1 DEF Amount
<1>3. SumFunction(n) \in Nat /\ SumFunction(t) \in Nat
  BY <1>2, SumNat
<1>4. QED
  BY <1>1, <1>3 DEF NetOf, TaxOf

\* The amounts and the total of a sale.
LEMMA TotalType ==
  ASSUME NEW lines \in PerProduct(SaleLineRow)
  PROVE  /\ LineAmounts(lines) \in [DOMAIN lines -> Amount]
         /\ NetOf(LineAmounts(lines)) \in Nat /\ TaxOf(LineAmounts(lines)) \in Nat
         /\ SaleTotal(lines) \in Nat
<1>1. IsFiniteSet(DOMAIN lines) /\ \A p \in DOMAIN lines : lines[p] \in SaleLineRow
  BY OnProducts
<1>2. \A p \in DOMAIN lines : lines[p].amounts \in Amount
  BY <1>1 DEF SaleLineRow, Amount
<1>3. LineAmounts(lines) \in [DOMAIN lines -> Amount]
  BY <1>2 DEF LineAmounts
<1>4. NetOf(LineAmounts(lines)) \in Nat /\ TaxOf(LineAmounts(lines)) \in Nat
  BY <1>1, <1>3, SumsOfAmounts
<1>5. QED
  BY <1>3, <1>4 DEF SaleTotal

\* The total depends on the amounts only.
LEMMA TotalKept ==
  ASSUME NEW lines, NEW new, DOMAIN new = DOMAIN lines, \A p \in DOMAIN lines : new[p].amounts = lines[p].amounts
  PROVE  LineAmounts(new) = LineAmounts(lines) /\ SaleTotal(new) = SaleTotal(lines)
<1>1. LineAmounts(new) = LineAmounts(lines)
  BY DEF LineAmounts
<1>2. QED
  BY <1>1 DEF SaleTotal

\* The lines of a cart.
LEMMA CartType ==
  ASSUME NEW cart \in Cart
  PROVE  cart \in PerProduct(Line)
<1>1. PICK D \in (SUBSET Product) \ {{}} : cart \in [D -> Line]
  BY TillAssumption
<1>2. QED
  BY <1>1, IsOnProducts

LEMMA SaleLinesType ==
  ASSUME BooksRows, NEW cart \in Cart
  PROVE  /\ SaleLines(cart) \in PerProduct(SaleLineRow) /\ DOMAIN SaleLines(cart) = DOMAIN cart
         /\ \A p \in DOMAIN cart : /\ SaleLines(cart)[p].qty = cart[p].qty /\ cart[p].qty \in Nat \ {0}
                                   /\ SaleLines(cart)[p].refunded = 0 /\ SaleLines(cart)[p].tax = cart[p].tax
         /\ [p \in DOMAIN cart |-> cart[p].qty] \in PerProduct(Nat)
<1>1. /\ DOMAIN cart \subseteq Product /\ DOMAIN cart # {} /\ \A p \in DOMAIN cart : cart[p] \in Line
  BY CartType, OnProducts
<1>2. \A p \in DOMAIN cart : /\ cart[p].qty \in Nat \ {0} /\ cart[p].price \in Nat
                             /\ cart[p].disc \in 0..Scale /\ cart[p].tax \in 0..Scale
  BY <1>1 DEF Line
<1>3. \A p \in DOMAIN cart : line_totals(cart[p].qty, cart[p], 1) \in Amount
  <2> SUFFICES ASSUME NEW p \in DOMAIN cart PROVE line_totals(cart[p].qty, cart[p], 1) \in Amount
    OBVIOUS
  <2>1. 1 \in Nat \ {0} /\ cart[p].qty \in Nat
    BY <1>2
  <2>2. QED
    BY <1>2, <2>1, LineTotalsType DEF Amount
<1>4. \A p \in DOMAIN cart : CurrentCost(p) \in Nat
  BY <1>1, CurrentType
<1>5. PICK s : s = SaleLines(cart)
  OBVIOUS
<1>6. /\ DOMAIN s = DOMAIN cart
      /\ \A p \in DOMAIN cart :
            s[p] = [qty |-> cart[p].qty, tax |-> cart[p].tax, amounts |-> line_totals(cart[p].qty, cart[p], 1),
                    cost |-> CurrentCost(p), refunded |-> 0]
  BY <1>5 DEF SaleLines
<1>7. s = [p \in DOMAIN cart |-> s[p]]
  BY <1>5 DEF SaleLines
<1>8. \A p \in DOMAIN cart : s[p] \in SaleLineRow
  BY <1>2, <1>3, <1>4, <1>6 DEF SaleLineRow, Amount
<1>9. s \in [DOMAIN cart -> SaleLineRow]
  BY <1>7, <1>8
<1>10. s \in PerProduct(SaleLineRow)
  BY <1>1, <1>9, IsOnProducts
<1>11. [p \in DOMAIN cart |-> cart[p].qty] \in PerProduct(Nat)
  <2>1. PICK q : q = [p \in DOMAIN cart |-> cart[p].qty]
    OBVIOUS
  <2>2. q \in [DOMAIN cart -> Nat]
    BY <1>2, <2>1
  <2>3. QED
    BY <1>1, <2>1, <2>2, IsOnProducts
<1>12. QED
  BY <1>2, <1>5, <1>6, <1>10, <1>11

\* What customers pay with.
LEMMA PaymentsType ==
  ASSUME NEW payments \in PaymentsOffered
  PROVE  payments \in SalePayments
<1>1. PICK S \in (SUBSET Tenders) \ {{}} : payments \in [S -> [amount : TenderAmounts, change : Changes]]
  BY DEF PaymentsOffered
<1>2. S \in SUBSET TenderType /\ \A x \in [amount : TenderAmounts, change : Changes] : x \in [amount : Nat, change : Nat]
  BY TillAssumption
<1>3. payments \in [S -> [amount : Nat, change : Nat]]
  BY <1>1, <1>2
<1>4. QED
  BY <1>2, <1>3 DEF SalePayments

LEMMA PaymentsAre ==
  ASSUME NEW payments \in SalePayments
  PROVE  /\ DOMAIN payments \subseteq TenderType /\ IsFiniteSet(DOMAIN payments)
         /\ \A t \in DOMAIN payments : payments[t].amount \in Nat /\ payments[t].change \in Nat
<1>1. PICK S \in SUBSET TenderType : payments \in [S -> [amount : Nat, change : Nat]]
  BY DEF SalePayments
<1>2. IsFiniteSet(TenderType)
  <2>1. PICK A : A = {"CASH", "CARD"}
    OBVIOUS
  <2>2. A = ({} \cup {"CASH"}) \cup {"CARD"} /\ TenderType = (A \cup {"MOBILE"}) \cup {"VOUCHER"}
    BY <2>1 DEF TenderType
  <2>3. IsFiniteSet(A)
    BY <2>2, FS_EmptySet, FS_AddElement
  <2>4. QED
    BY <2>2, <2>3, FS_AddElement
<1>3. IsFiniteSet(S)
  BY <1>2, FS_Subset
<1>4. QED
  BY <1>1, <1>3

\* The quantities a refund may ask for.
LEMMA RefundPartsType ==
  ASSUME NEW sale \in SaleRow, NEW qty \in RefundParts(sale)
  PROVE  /\ qty \in PerProduct(Nat \ {0}) /\ DOMAIN qty \subseteq DOMAIN sale.lines
         /\ \A p \in DOMAIN qty : qty[p] <= sale.lines[p].qty - sale.lines[p].refunded
<1>1. sale.lines \in PerProduct(SaleLineRow)
  BY DEF SaleRow
<1>2. PICK ls : ls = sale.lines
  OBVIOUS
<1>3. DOMAIN ls \subseteq Product /\ \A p \in DOMAIN ls : ls[p].qty \in Nat /\ ls[p].refunded \in Nat
  <2>1. DOMAIN ls \subseteq Product /\ \A p \in DOMAIN ls : ls[p] \in SaleLineRow
    BY <1>1, <1>2, OnProducts
  <2>2. QED
    BY <2>1 DEF SaleLineRow
<1>4. PICK left : left = Refundable(sale)
  OBVIOUS
<1>5. DOMAIN left = DOMAIN ls /\ \A p \in DOMAIN ls : left[p] = ls[p].qty - ls[p].refunded /\ left[p] \in Int
  BY <1>2, <1>3, <1>4 DEF Refundable
<1>6. PICK S \in (SUBSET {p \in DOMAIN ls : left[p] > 0}) \ {{}} :
          qty \in {q \in [S -> UNION {1..left[p] : p \in S}] : \A p \in S : q[p] <= left[p]}
  BY <1>2, <1>4 DEF RefundParts
<1>7. UNION {1..left[p] : p \in S} \subseteq Nat \ {0}
  OBVIOUS
<1>8. qty \in [S -> Nat \ {0}] /\ S # {} /\ S \subseteq DOMAIN ls
  BY <1>6, <1>7
<1>9. qty \in PerProduct(Nat \ {0}) /\ DOMAIN qty = S
  BY <1>3, <1>8, IsOnProducts
<1>10. QED
  BY <1>2, <1>5, <1>6, <1>8, <1>9

\* A sale whose lines satisfy the constraints of their table.
SoldLines(sale) == \A p \in DOMAIN sale.lines : SaleLineChecks(sale.lines[p])

LEMMA ShareType ==
  ASSUME NEW amount \in Nat, NEW q \in Nat, NEW l, l.qty \in Nat \ {0}
  PROVE  Share(amount, q, l) \in Nat
<1>1. amount * q \in Nat
  OBVIOUS
<1>2. QED
  BY <1>1, RoundNat DEF Share

\* The amounts and the cost of a refund.
LEMMA RefundType ==
  ASSUME NEW sale \in SaleRow, SoldLines(sale), NEW qty \in PerProduct(Nat \ {0}),
         DOMAIN qty \subseteq DOMAIN sale.lines
  PROVE  /\ RefundAmounts(qty, sale.lines) \in [DOMAIN qty -> Amount]
         /\ NetOf(RefundAmounts(qty, sale.lines)) \in Nat /\ TaxOf(RefundAmounts(qty, sale.lines)) \in Nat
         /\ \A p \in DOMAIN qty : LineRefund(qty[p], sale.lines[p]) \in Nat
         /\ SumFunction([p \in DOMAIN qty |-> LineRefund(qty[p], sale.lines[p])]) \in Nat
         /\ RefundCost(qty, sale.lines) \in Nat
<1>1. PICK ls : ls = sale.lines
  OBVIOUS
<1>2. ls \in PerProduct(SaleLineRow)
  BY <1>1 DEF SaleRow
<1>3. \A p \in DOMAIN ls : ls[p] \in SaleLineRow
  BY <1>2, OnProducts
<1>4. \A p \in DOMAIN ls : /\ ls[p].qty \in Nat \ {0} /\ ls[p].amounts.net \in Nat /\ ls[p].amounts.tax \in Nat
                           /\ ls[p].cost \in Nat
  BY <1>1, <1>3 DEF SaleLineRow, SoldLines, SaleLineChecks
<1>5. IsFiniteSet(DOMAIN qty) /\ \A p \in DOMAIN qty : qty[p] \in Nat
  BY OnProducts
<1>6. \A p \in DOMAIN qty : /\ Share(ls[p].amounts.net, qty[p], ls[p]) \in Nat
                            /\ Share(ls[p].amounts.tax, qty[p], ls[p]) \in Nat
  BY <1>1, <1>4, <1>5, ShareType
<1>7. \A p \in DOMAIN qty : LineRefund(qty[p], ls[p]) \in Nat
  <2> SUFFICES ASSUME NEW p \in DOMAIN qty PROVE LineRefund(qty[p], ls[p]) \in Nat
    OBVIOUS
  <2>1. p \in DOMAIN ls /\ ls[p].amounts.net + ls[p].amounts.tax \in Nat
    BY <1>1, <1>4
  <2>2. QED
    BY <1>4, <1>5, <2>1, ShareType DEF LineRefund
<1>8. RefundAmounts(qty, ls) \in [DOMAIN qty -> Amount]
  BY <1>6 DEF RefundAmounts, Amount
<1>9. NetOf(RefundAmounts(qty, ls)) \in Nat /\ TaxOf(RefundAmounts(qty, ls)) \in Nat
  BY <1>5, <1>8, SumsOfAmounts
<1>10. PICK a, c : /\ a = [p \in DOMAIN qty |-> LineRefund(qty[p], ls[p])]
                   /\ c = [p \in DOMAIN qty |-> qty[p] * ls[p].cost]
  OBVIOUS
<1>11. DOMAIN a = DOMAIN qty /\ DOMAIN c = DOMAIN qty /\ \A p \in DOMAIN qty : a[p] \in Nat
  BY <1>7, <1>10
<1>12. \A p \in DOMAIN qty : c[p] \in Nat
  BY <1>1, <1>4, <1>5, <1>10
<1>13. SumFunction(a) \in Nat /\ SumFunction(c) \in Nat
  BY <1>5, <1>11, <1>12, SumNat
<1>14. QED
  BY <1>1, <1>7, <1>8, <1>9, <1>10, <1>13 DEF RefundCost

\* The row of the sale after a refund.
LEMMA RefundedSaleType ==
  ASSUME NEW sale \in SaleRow, NEW qty \in PerProduct(Nat \ {0}), DOMAIN qty \subseteq DOMAIN sale.lines,
         NEW total \in Nat
  PROVE  /\ RefundedSale(sale, qty, total) \in SaleRow
         /\ RefundedSale(sale, qty, total).session = sale.session
         /\ RefundedSale(sale, qty, total).warehouse = sale.warehouse
         /\ RefundedSale(sale, qty, total).payments = sale.payments
         /\ RefundedSale(sale, qty, total).refunded = sale.refunded + total
         /\ DOMAIN RefundedSale(sale, qty, total).lines = DOMAIN sale.lines
         /\ \A p \in DOMAIN sale.lines :
                /\ RefundedSale(sale, qty, total).lines[p].refunded = sale.lines[p].refunded + On(qty, p)
                /\ RefundedSale(sale, qty, total).lines[p].qty = sale.lines[p].qty
                /\ RefundedSale(sale, qty, total).lines[p].tax = sale.lines[p].tax
                /\ RefundedSale(sale, qty, total).lines[p].cost = sale.lines[p].cost
                /\ RefundedSale(sale, qty, total).lines[p].amounts = sale.lines[p].amounts
<1>1. PICK ls : ls = sale.lines
  OBVIOUS
<1>2. ls \in PerProduct(SaleLineRow)
  BY <1>1 DEF SaleRow
<1>3. DOMAIN ls \subseteq Product /\ DOMAIN ls # {} /\ \A p \in DOMAIN ls : ls[p] \in SaleLineRow
  BY <1>2, OnProducts
<1>4. \A p \in DOMAIN qty : qty[p] \in Nat
  BY OnProducts
<1>5. PICK new : new = [p \in DOMAIN ls |-> IF p \in DOMAIN qty THEN RefundedLine(ls[p], qty[p]) ELSE ls[p]]
  OBVIOUS
<1>6. \A p \in DOMAIN ls :
          /\ new[p] \in SaleLineRow /\ new[p].refunded = ls[p].refunded + On(qty, p)
          /\ new[p].qty = ls[p].qty /\ new[p].tax = ls[p].tax /\ new[p].cost = ls[p].cost
          /\ new[p].amounts = ls[p].amounts
  <2> SUFFICES ASSUME NEW p \in DOMAIN ls
               PROVE  /\ new[p] \in SaleLineRow /\ new[p].refunded = ls[p].refunded + On(qty, p)
                      /\ new[p].qty = ls[p].qty /\ new[p].tax = ls[p].tax /\ new[p].cost = ls[p].cost
                      /\ new[p].amounts = ls[p].amounts
    OBVIOUS
  <2>1. PICK l \in SaleLineRow : l = ls[p]
    BY <1>3
  <2>2. CASE p \in DOMAIN qty
    <3>1. PICK q \in Nat : q = qty[p]
      BY <1>4, <2>2
    <3>2. new[p] = [l EXCEPT !.refunded = @ + q] /\ On(qty, p) = q
      BY <1>5, <2>1, <2>2, <3>1 DEF RefundedLine, On
    <3>3. QED
      BY <2>1, <3>2 DEF SaleLineRow
  <2>3. CASE p \notin DOMAIN qty
    <3>1. new[p] = l /\ On(qty, p) = 0
      BY <1>5, <2>1, <2>3 DEF On
    <3>2. QED
      BY <2>1, <3>1 DEF SaleLineRow
  <2>4. QED
    BY <2>2, <2>3
<1>7. new \in PerProduct(SaleLineRow) /\ DOMAIN new = DOMAIN ls
  <2>1. new \in [DOMAIN ls -> SaleLineRow]
    BY <1>5, <1>6
  <2>2. QED
    BY <1>3, <2>1, IsOnProducts
<1>8. RefundedSale(sale, qty, total) = [sale EXCEPT !.refunded = @ + total, !.lines = new]
  BY <1>1, <1>5 DEF RefundedSale
<1>9. PICK after : after = RefundedSale(sale, qty, total)
  OBVIOUS
<1>10. after \in SaleRow /\ after.session = sale.session /\ after.warehouse = sale.warehouse /\ after.payments = sale.payments
       /\ after.refunded = sale.refunded + total /\ after.lines = new
  <2>1. sale = [session |-> sale.session, warehouse |-> sale.warehouse, lines |-> sale.lines,
                 payments |-> sale.payments, refunded |-> sale.refunded]
        /\ sale.session \in Nat /\ sale.warehouse \in Warehouse /\ sale.payments \in SalePayments /\ sale.refunded \in Nat
    BY DEF SaleRow
  <2>2. after = [session |-> sale.session, warehouse |-> sale.warehouse, lines |-> new,
                  payments |-> sale.payments, refunded |-> sale.refunded + total]
    BY <1>8, <1>9, <2>1
  <2>3. sale.refunded + total \in Nat
    BY <2>1
  <2>4. QED
    BY <1>7, <2>1, <2>2, <2>3 DEF SaleRow
<1>11. QED
  BY <1>1, <1>6, <1>7, <1>9, <1>10

-----------------------------------------------------------------------------
(* Entries *)

\* What an entry brings to the accounts the tills write to.
Brings(e, cash, revenue, returned, output, cogs) ==
    \A b \in [SystemAccount -> Int] :
        /\ Posted(b, e) \in [SystemAccount -> Int]
        /\ Posted(b, e)["CASH"] = b["CASH"] + cash
        /\ Posted(b, e)["SALES_REVENUE"] = b["SALES_REVENUE"] + revenue
        /\ Posted(b, e)["SALES_RETURNS"] = b["SALES_RETURNS"] + returned
        /\ Posted(b, e)["VAT_OUTPUT"] = b["VAT_OUTPUT"] + output
        /\ Posted(b, e)["COGS"] = b["COGS"] + cogs

LEMMA BringsBy ==
  ASSUME NEW e, \A a \in SystemAccount : On(e, a) \in Int
  PROVE  Brings(e, On(e, "CASH"), On(e, "SALES_REVENUE"), On(e, "SALES_RETURNS"), On(e, "VAT_OUTPUT"),
                On(e, "COGS"))
<1> SUFFICES ASSUME NEW b \in [SystemAccount -> Int]
             PROVE  /\ Posted(b, e) \in [SystemAccount -> Int]
                    /\ \A a \in SystemAccount : Posted(b, e)[a] = b[a] + On(e, a)
  BY DEF Brings, SystemAccount
<1>1. Posted(b, e) = [a \in SystemAccount |-> b[a] + On(e, a)]
  BY DEF Posted, On
<1>2. QED
  BY <1>1

LEMMA BringsNothing == Brings(NoEntry, 0, 0, 0, 0, 0)
<1>1. \A a \in SystemAccount : On(NoEntry, a) = 0
  BY DEF On, NoEntry
<1>2. QED
  BY <1>1, BringsBy DEF SystemAccount

\* cash_sale: cash in, revenue and output VAT.
LEMMA CashSaleBrings ==
  ASSUME NEW net \in Nat, NEW tax \in Nat
  PROVE  Brings(cash_sale(net, tax), net + tax, -net, 0, -tax, 0)
<1> DEFINE l == [CASH |-> net + tax, SALES_REVENUE |-> -net, VAT_OUTPUT |-> -tax]
<1>1. DOMAIN l = {"CASH", "SALES_REVENUE", "VAT_OUTPUT"} /\ l["CASH"] = net + tax
      /\ l["SALES_REVENUE"] = -net /\ l["VAT_OUTPUT"] = -tax
  OBVIOUS
<1>2. cash_sale(net, tax) = IfTaxed(l)
  BY DEF cash_sale
<1> HIDE DEF l
<1>3. \A a : On(IfTaxed(l), a) = On(l, a)
  BY OnIfTaxed
<1>4. /\ \A a \in SystemAccount : On(l, a) \in Int
      /\ On(l, "CASH") = net + tax /\ On(l, "SALES_REVENUE") = -net /\ On(l, "SALES_RETURNS") = 0
      /\ On(l, "VAT_OUTPUT") = -tax /\ On(l, "COGS") = 0
  BY <1>1 DEF On
<1>5. PICK e : e = IfTaxed(l)
  OBVIOUS
<1>6. QED
  BY <1>2, <1>3, <1>4, <1>5, BringsBy

\* pos_refund gives cash back, and revenue and output VAT with it; a refund of nothing posts nothing.
LEMMA RefundBrings ==
  ASSUME NEW net \in Nat, NEW tax \in Nat
  PROVE  Brings(RefundEntry(net, tax), -(net + tax), 0, net, tax, 0)
<1>1. CASE net + tax > 0
  <2> DEFINE l == [SALES_RETURNS |-> net, VAT_OUTPUT |-> tax, CASH |-> -(net + tax)]
  <2>1. DOMAIN l = {"CASH", "SALES_RETURNS", "VAT_OUTPUT"} /\ l["CASH"] = -(net + tax)
        /\ l["SALES_RETURNS"] = net /\ l["VAT_OUTPUT"] = tax
    OBVIOUS
  <2>2. RefundEntry(net, tax) = IfTaxed(l)
    BY <1>1 DEF RefundEntry, pos_refund
  <2> HIDE DEF l
  <2>3. \A a : On(IfTaxed(l), a) = On(l, a)
    BY OnIfTaxed
  <2>4. /\ \A a \in SystemAccount : On(l, a) \in Int
        /\ On(l, "CASH") = -(net + tax) /\ On(l, "SALES_REVENUE") = 0 /\ On(l, "SALES_RETURNS") = net
        /\ On(l, "VAT_OUTPUT") = tax /\ On(l, "COGS") = 0
    BY <2>1 DEF On
  <2>5. PICK e : e = IfTaxed(l)
    OBVIOUS
  <2>6. QED
    BY <2>2, <2>3, <2>4, <2>5, BringsBy
<1>2. CASE ~(net + tax > 0)
  <2>1. net = 0 /\ tax = 0
    BY <1>2
  <2>2. -(net + tax) = 0
    BY <1>2
  <2>3. RefundEntry(net, tax) = NoEntry
    BY <1>2 DEF RefundEntry
  <2>4. QED
    BY <2>1, <2>2, <2>3, BringsNothing
<1>3. QED
  BY <1>1, <1>2

\* The cost of a sale and of a refund, and of goods that arrive.
LEMMA CostBrings ==
  ASSUME NEW cost \in Nat
  PROVE  /\ Brings(IF cost > 0 THEN cogs_recognition(PostedCost(cost)) ELSE NoEntry, 0, 0, 0, 0, PostedCost(cost))
         /\ Brings(RefundCostEntry(cost), 0, 0, 0, 0, -PostedCost(cost))
         /\ Brings(goods_receipt(PostedCost(cost)), 0, 0, 0, 0, 0)
<1>1. PICK c \in Nat : c = PostedCost(cost)
  BY PostedCostType
<1>2. Brings(cogs_recognition(c), 0, 0, 0, 0, c)
  <2>1. PICK e : e = cogs_recognition(c)
    OBVIOUS
  <2>2. DOMAIN e = {"COGS", "INVENTORY"} /\ e["COGS"] = c /\ e["INVENTORY"] = -c
    BY <2>1 DEF cogs_recognition
  <2>3. /\ \A a \in SystemAccount : On(e, a) \in Int
        /\ On(e, "CASH") = 0 /\ On(e, "SALES_REVENUE") = 0 /\ On(e, "SALES_RETURNS") = 0
        /\ On(e, "VAT_OUTPUT") = 0 /\ On(e, "COGS") = c
    BY <2>2 DEF On
  <2>4. QED
    BY <2>1, <2>3, BringsBy
<1>3. Brings(cogs_reversal(c), 0, 0, 0, 0, -c)
  <2>1. PICK e : e = cogs_reversal(c)
    OBVIOUS
  <2>2. DOMAIN e = {"COGS", "INVENTORY"} /\ e["COGS"] = -c /\ e["INVENTORY"] = c
    BY <2>1 DEF cogs_reversal
  <2>3. /\ \A a \in SystemAccount : On(e, a) \in Int
        /\ On(e, "CASH") = 0 /\ On(e, "SALES_REVENUE") = 0 /\ On(e, "SALES_RETURNS") = 0
        /\ On(e, "VAT_OUTPUT") = 0 /\ On(e, "COGS") = -c
    BY <2>2 DEF On
  <2>4. QED
    BY <2>1, <2>3, BringsBy
<1>4. Brings(goods_receipt(c), 0, 0, 0, 0, 0)
  <2>1. PICK e : e = goods_receipt(c)
    OBVIOUS
  <2>2. DOMAIN e = {"GRNI", "INVENTORY"} /\ e["GRNI"] = -c /\ e["INVENTORY"] = c
    BY <2>1 DEF goods_receipt
  <2>3. /\ \A a \in SystemAccount : On(e, a) \in Int
        /\ On(e, "CASH") = 0 /\ On(e, "SALES_REVENUE") = 0 /\ On(e, "SALES_RETURNS") = 0
        /\ On(e, "VAT_OUTPUT") = 0 /\ On(e, "COGS") = 0
    BY <2>2 DEF On
  <2>4. QED
    BY <2>1, <2>3, BringsBy
<1>5. CASE cost = 0
  <2>1. c = 0 /\ -c = 0
    BY <1>1, <1>5, PostedCostType
  <2>2. /\ (IF cost > 0 THEN cogs_recognition(PostedCost(cost)) ELSE NoEntry) = NoEntry
        /\ RefundCostEntry(cost) = NoEntry
    BY <1>5 DEF RefundCostEntry
  <2>3. QED
    BY <1>1, <1>4, <2>1, <2>2, BringsNothing
<1>6. CASE cost # 0
  <2>1. /\ (IF cost > 0 THEN cogs_recognition(PostedCost(cost)) ELSE NoEntry) = cogs_recognition(c)
        /\ RefundCostEntry(cost) = cogs_reversal(c)
    BY <1>1, <1>6 DEF RefundCostEntry
  <2>2. QED
    BY <1>1, <1>2, <1>3, <1>4, <2>1
<1>7. QED
  BY <1>5, <1>6

\* The cost of the lines of a sale.
LEMMA SaleCostType ==
  ASSUME NEW lines \in PerProduct(SaleLineRow)
  PROVE  /\ SaleCost(lines) \in Nat
         /\ Brings(SaleCostEntry(lines), 0, 0, 0, 0, PostedCost(SaleCost(lines)))
<1>1. IsFiniteSet(DOMAIN lines) /\ \A p \in DOMAIN lines : lines[p] \in SaleLineRow
  BY OnProducts
<1>2. PICK f : f = [p \in DOMAIN lines |-> lines[p].qty * lines[p].cost]
  OBVIOUS
<1>3. \A p \in DOMAIN lines : lines[p].qty \in Nat /\ lines[p].cost \in Nat
  BY <1>1 DEF SaleLineRow
<1>4. DOMAIN f = DOMAIN lines /\ \A p \in DOMAIN lines : f[p] \in Nat
  BY <1>2, <1>3
<1>5. SumFunction(f) \in Nat
  BY <1>1, <1>4, SumNat
<1>6. SaleCost(lines) \in Nat
  BY <1>2, <1>5 DEF SaleCost
<1>7. QED
  BY <1>6, CostBrings DEF SaleCostEntry

-----------------------------------------------------------------------------
(* What the locks and the tables keep *)

RequestRow ==
    [op : {"idle", "close", "checkout", "hold", "refund", "resume"}, session : Nat, expected : Nat,
     sale : Nat, read : SaleRow \cup {NoSale}, held : Nat]

\* The session a request has locked is open until the request commits; a count is
\* of the sales there are.
SessionLocks ==
    /\ \A r \in Request :
            /\ request[r].op \in {"close", "checkout", "hold", "refund"} => request[r].session # 0
            /\ request[r].session # 0 => /\ request[r].session \in DOMAIN sessions
                                         /\ sessions[request[r].session].status = "OPEN"
    /\ \A r, q \in Request :
            request[r].session # 0 /\ request[q].session = request[r].session => q = r

Counts ==
    \A r \in Request, s \in DOMAIN sessions :
        request[r].op = "close" /\ request[r].session = s => request[r].expected = sessions[s].float + cash_net(s)

\* The sale a request has locked is as the request read it.
SaleLocks ==
    /\ \A r \in Request : request[r].sale # 0 =>
            /\ request[r].sale \in DOMAIN tillSales /\ request[r].session # 0
            /\ request[r].read = tillSales[request[r].sale]
    /\ \A r, q \in Request :
            request[r].sale # 0 /\ request[q].sale = request[r].sale => q = r

\* A sale was paid in full.
PaidInFull ==
    \A i \in DOMAIN tillSales : Tendered(tillSales[i].payments) = SaleTotal(tillSales[i].lines)

\* The register holds the rows of the sales and returns there are.
Registered ==
    /\ IsFiniteSet(register)
    /\ \A w \in register :
            /\ w.direction = "OUTPUT"
            /\ \/ w.source[1] = "pos_sale" /\ w.source[2] \in DOMAIN tillSales
               \/ w.source[1] = "pos_return" /\ w.source[2] \in DOMAIN tillReturns

Tills ==
    /\ TypeOK /\ request \in [Request -> RequestRow] /\ TillChecks
    /\ SessionLocks /\ SaleLocks /\ PaidInFull /\ Registered

-----------------------------------------------------------------------------
(* What a step changes *)

\* What is in the tables.
LEMMA TillFacts ==
  ASSUME Tills
  PROVE  /\ BooksRows /\ tillSales \in Seq(SaleRow) /\ tillReturns \in Seq(SaleReturnRow)
         /\ sessions \in Seq(SessionRow) /\ Len(tillSales) \in Nat /\ Len(tillReturns) \in Nat
         /\ DOMAIN tillSales = 1..Len(tillSales) /\ DOMAIN tillReturns = 1..Len(tillReturns)
         /\ \A i \in DOMAIN tillSales :
                /\ tillSales[i] \in SaleRow /\ SoldLines(tillSales[i])
                /\ tillSales[i].lines \in PerProduct(SaleLineRow)
                /\ tillSales[i].payments \in SalePayments /\ SalePaymentChecks(tillSales[i].payments)
         /\ \A d \in DOMAIN tillReturns : tillReturns[d] \in SaleReturnRow
         /\ \A r \in Request : request[r] \in RequestRow
<1>1. BooksRows /\ TillRows /\ TillChecks
  BY DEF Tills, TypeOK
<1>2. /\ tillSales \in Seq(SaleRow) /\ tillReturns \in Seq(SaleReturnRow) /\ sessions \in Seq(SessionRow)
  BY <1>1 DEF TillRows
<1>3. \A i \in DOMAIN tillSales : tillSales[i] \in SaleRow
  BY <1>2, RowsFinite
<1>4. \A i \in DOMAIN tillSales : SoldLines(tillSales[i]) /\ SalePaymentChecks(tillSales[i].payments)
  BY <1>1 DEF TillChecks, SoldLines
<1>5. \A i \in DOMAIN tillSales : /\ tillSales[i].lines \in PerProduct(SaleLineRow)
                                  /\ tillSales[i].payments \in SalePayments
  BY <1>3 DEF SaleRow
<1>6. /\ Len(tillSales) \in Nat /\ Len(tillReturns) \in Nat
      /\ DOMAIN tillSales = 1..Len(tillSales) /\ DOMAIN tillReturns = 1..Len(tillReturns)
      /\ \A d \in DOMAIN tillReturns : tillReturns[d] \in SaleReturnRow
  BY <1>2, RowsFinite
<1>7. \A r \in Request : request[r] \in RequestRow
  BY DEF Tills
<1>8. QED
  BY <1>1, <1>2, <1>3, <1>4, <1>5, <1>6, <1>7

\* A transaction posts the net and tax of its amounts and their cost.
Posts(cash, revenue, returned, output, cogs) ==
    /\ balance' \in [SystemAccount -> Int]
    /\ balance'["CASH"] = balance["CASH"] + cash
    /\ balance'["SALES_REVENUE"] = balance["SALES_REVENUE"] + revenue
    /\ balance'["SALES_RETURNS"] = balance["SALES_RETURNS"] + returned
    /\ balance'["VAT_OUTPUT"] = balance["VAT_OUTPUT"] + output
    /\ balance'["COGS"] = balance["COGS"] + cogs

LEMMA BothPosted ==
  ASSUME BooksRows, NEW e, NEW f, balance' = Posted(Posted(balance, e), f),
         NEW c \in Int, NEW v \in Int, NEW t \in Int, NEW o \in Int, NEW g \in Int,
         Brings(e, c, v, t, o, 0), Brings(f, 0, 0, 0, 0, g)
  PROVE  Posts(c, v, t, o, g)
<1>1. balance \in [SystemAccount -> Int]
  BY DEF BooksRows
<1>2. PICK b : b = Posted(balance, e)
  OBVIOUS
<1>3. /\ b \in [SystemAccount -> Int] /\ b["CASH"] = balance["CASH"] + c
      /\ b["SALES_REVENUE"] = balance["SALES_REVENUE"] + v /\ b["SALES_RETURNS"] = balance["SALES_RETURNS"] + t
      /\ b["VAT_OUTPUT"] = balance["VAT_OUTPUT"] + o /\ b["COGS"] = balance["COGS"] + 0
  BY <1>1, <1>2 DEF Brings
<1>4. balance' = Posted(b, f)
  BY <1>2
<1>5. /\ balance' \in [SystemAccount -> Int] /\ balance'["CASH"] = b["CASH"] + 0
      /\ balance'["SALES_REVENUE"] = b["SALES_REVENUE"] + 0 /\ balance'["SALES_RETURNS"] = b["SALES_RETURNS"] + 0
      /\ balance'["VAT_OUTPUT"] = b["VAT_OUTPUT"] + 0 /\ balance'["COGS"] = b["COGS"] + g
  BY <1>3, <1>4 DEF Brings
<1>6. \A a \in {"CASH", "SALES_REVENUE", "SALES_RETURNS", "VAT_OUTPUT", "COGS"} : balance[a] \in Int
  BY <1>1 DEF SystemAccount
<1>7. QED
  BY <1>3, <1>5, <1>6 DEF Posts

\* Rows of one document of the tills are added to the register.
Registers(rows, kind, n, tax, net) ==
    /\ register' = register \cup rows /\ IsFiniteSet(rows)
    /\ \A w \in rows : /\ w \in VatRow /\ w.source = <<kind, n>> /\ w.direction = "OUTPUT"
                       /\ VatRowChecks(w, w.source[1] \in {"credit_note", "pos_return"})
    /\ SumFunction([w \in rows |-> w.vat]) = tax
    /\ SumFunction([w \in rows |-> w.base]) = net

\* checkout: the sale of request r.
CheckoutChange(r, sale, rows) ==
    /\ request[r].op = "checkout"
    /\ tillSales' = Append(tillSales, sale)
    /\ sale.session = request[r].session /\ sale.refunded = 0
    /\ \A p \in DOMAIN sale.lines : sale.lines[p].refunded = 0
    /\ Tendered(sale.payments) = SaleTotal(sale.lines)
    /\ onHand' \in [Warehouse -> [Product -> Int]]
    /\ \A v \in Warehouse, p \in Tracked :
            onHand'[v][p] = onHand[v][p] - IF v = sale.warehouse /\ p \in DOMAIN sale.lines
                                           THEN sale.lines[p].qty ELSE 0
    /\ Posts(SaleTotal(sale.lines), -NetOf(LineAmounts(sale.lines)), 0, -TaxOf(LineAmounts(sale.lines)),
             PostedCost(SaleCost(sale.lines)))
    /\ Registers(rows, "pos_sale", Len(tillSales) + 1, TaxOf(LineAmounts(sale.lines)), NetOf(LineAmounts(sale.lines)))
    /\ request' = [request EXCEPT ![r] = Idle]
    /\ UNCHANGED <<terminals, sessions, tillReturns, holds, arrivals, costPrice, returns>>

LEMMA CheckoutEffect ==
  ASSUME Tills, NEW r \in Request, NEW cart \in Cart, NEW payments \in PaymentsOffered, NEW d \in Date,
         checkout(r, cart, payments, d)
  PROVE  \E sale \in SaleRow : \E rows : CheckoutChange(r, sale, rows)
<1>1. BooksRows /\ Len(tillSales) \in Nat /\ request[r] \in RequestRow
  BY TillFacts
<1>2. PICK lines : lines = SaleLines(cart)
  OBVIOUS
<1>3. /\ lines \in PerProduct(SaleLineRow) /\ DOMAIN lines = DOMAIN cart
      /\ \A p \in DOMAIN cart : /\ lines[p].qty = cart[p].qty /\ lines[p].refunded = 0
      /\ [p \in DOMAIN cart |-> cart[p].qty] \in PerProduct(Nat)
  BY <1>1, <1>2, SaleLinesType
<1>4. PICK quantities \in PerProduct(Nat) : quantities = [p \in DOMAIN cart |-> cart[p].qty]
  BY <1>3
<1>5. PICK net, tax, cost :
          net = NetOf(LineAmounts(lines)) /\ tax = TaxOf(LineAmounts(lines)) /\ cost = PostedCost(SaleCost(lines))
  OBVIOUS
<1>6. net \in Nat /\ tax \in Nat /\ LineAmounts(lines) \in [DOMAIN lines -> Amount] /\ SaleTotal(lines) = net + tax
  BY <1>3, <1>5, TotalType DEF SaleTotal
<1>7. cost \in Nat /\ Brings(SaleCostEntry(lines), 0, 0, 0, 0, cost)
  BY <1>3, <1>5, SaleCostType, PostedCostType
<1>0. PICK from \in Warehouse : from = Shelf[sessions[request[r].session].terminal]
  <2>1. request[r].session \in DOMAIN sessions
    BY DEF checkout, Tills, SessionLocks
  <2>2. sessions[request[r].session] \in SessionRow
    BY <2>1, TillFacts, RowsFinite
  <2>3. QED
    BY <2>2, TillAssumption DEF SessionRow
<1>8. PICK sale : sale = [session |-> request[r].session, warehouse |-> from, lines |-> lines,
                          payments |-> payments, refunded |-> 0]
  OBVIOUS
<1>9. /\ sale \in SaleRow /\ sale.session = request[r].session /\ sale.refunded = 0 /\ sale.lines = lines
      /\ sale.payments = payments /\ sale.warehouse = from
  <2>1. request[r].session \in Nat /\ payments \in SalePayments
    BY <1>1, PaymentsType DEF RequestRow
  <2>2. QED
    BY <1>3, <1>8, <2>1 DEF SaleRow
<1>10. /\ request[r].op = "checkout" /\ Tendered(payments) = SaleTotal(lines)
       /\ tillSales' = Append(tillSales, sale) /\ onHand' = TakeOut(from, quantities)
       /\ balance' = Posted(Posted(balance, cash_sale(net, tax)), SaleCostEntry(lines))
       /\ register' = register \cup VatOfSale(Len(tillSales) + 1, d, lines)
       /\ request' = [request EXCEPT ![r] = Idle]
       /\ UNCHANGED <<terminals, sessions, tillReturns, holds, arrivals, costPrice, returns>>
  BY <1>0, <1>2, <1>4, <1>5, <1>8 DEF checkout
<1>11. /\ onHand' \in [Warehouse -> [Product -> Int]]
       /\ \A v \in Warehouse, p \in Tracked :
             onHand'[v][p] = onHand[v][p] - IF v = from /\ p \in DOMAIN lines THEN lines[p].qty ELSE 0
  <2>1. onHand \in [Warehouse -> [Product -> Int]]
    BY <1>1 DEF BooksRows
  <2>2. /\ onHand' \in [Warehouse -> [Product -> Int]]
        /\ \A v \in Warehouse, p \in Tracked :
              onHand'[v][p] = onHand[v][p] - IF v = from THEN On(quantities, p) ELSE 0
    BY <1>10, <2>1, StockType
  <2>3. DOMAIN quantities = DOMAIN lines /\ \A p \in DOMAIN lines : quantities[p] = lines[p].qty
    BY <1>3, <1>4
  <2>4. \A p : On(quantities, p) = IF p \in DOMAIN lines THEN lines[p].qty ELSE 0
    BY <2>3 DEF On
  <2>5. QED
    BY <2>2, <2>4
<1>12. Posts(net + tax, -net, 0, -tax, cost)
  <2>1. Brings(cash_sale(net, tax), net + tax, -net, 0, -tax, 0)
    BY <1>6, CashSaleBrings
  <2>2. net + tax \in Int /\ -net \in Int /\ 0 \in Int /\ -tax \in Int /\ cost \in Int
    BY <1>6, <1>7
  <2>3. QED
    BY <1>1, <1>7, <1>10, <2>1, <2>2, BothPosted
<1>13. PICK rows : rows = VatOfSale(Len(tillSales) + 1, d, lines)
  OBVIOUS
<1>14. Registers(rows, "pos_sale", Len(tillSales) + 1, tax, net)
  <2>1. PICK source : source = <<"pos_sale", Len(tillSales) + 1>>
    OBVIOUS
  <2>2. source \in {"invoice", "credit_note", "supplier_bill", "pos_sale", "pos_return"} \X Nat
        /\ source[1] = "pos_sale"
    BY <1>1, <2>1
  <2>3. IsFiniteSet(DOMAIN lines) /\ \A p \in DOMAIN lines : lines[p].tax \in 0..Scale
    <3>1. IsFiniteSet(DOMAIN lines) /\ \A p \in DOMAIN lines : lines[p] \in SaleLineRow
      BY <1>3, OnProducts
    <3>2. QED
      BY <3>1 DEF SaleLineRow
  <2>4. rows = RowsPerRate(source, "OUTPUT", d, 1, lines, LineAmounts(lines))
    BY <1>13, <2>1 DEF VatOfSale
  <2>6. /\ IsFiniteSet(rows)
        /\ \A w \in rows : /\ w \in VatRow /\ w.source = source /\ w.direction = "OUTPUT" /\ w.vat >= 0
        /\ SumFunction([w \in rows |-> w.vat]) = 1 * TaxOf(LineAmounts(lines))
        /\ SumFunction([w \in rows |-> w.base]) = NetOf(LineAmounts(lines))
    <3>1. RowsFor(rows, source, "OUTPUT", d, 1, lines, DOMAIN lines, LineAmounts(lines))
      BY <1>6, <2>2, <2>3, <2>4 DEF RowsFor
    <3>2. RowsAddUp(rows, source, "OUTPUT", 1, TaxOf(LineAmounts(lines)), NetOf(LineAmounts(lines)))
      BY <3>1, RateRows, Zenon
    <3>3. QED
      BY <3>2 DEF RowsAddUp
  <2>7. \A w \in rows : VatRowChecks(w, w.source[1] \in {"credit_note", "pos_return"})
    <3> SUFFICES ASSUME NEW w \in rows PROVE VatRowChecks(w, w.source[1] \in {"credit_note", "pos_return"})
      OBVIOUS
    <3>1. w.source[1] = "pos_sale" /\ w.vat >= 0
      BY <2>2, <2>6
    <3>2. w.base \in Nat /\ w.rate \in 0..Scale /\ Scale \in Nat
      BY <2>6, BooksAssumption DEF VatRow
    <3>3. QED
      BY <3>1, <3>2 DEF VatRowChecks
  <2>8. 1 * TaxOf(LineAmounts(lines)) = tax
    BY <1>5, <1>6
  <2>9. QED
    BY <1>5, <1>10, <1>13, <2>1, <2>6, <2>7, <2>8 DEF Registers
<1>15. \A p \in DOMAIN lines : lines[p].refunded = 0
  BY <1>3
<1>16. CheckoutChange(r, sale, rows)
  BY <1>5, <1>6, <1>9, <1>10, <1>11, <1>12, <1>14, <1>15 DEF CheckoutChange
<1>17. QED
  BY <1>9, <1>16


\* refund: quantities of the sale request r has locked.
Repaid(qty, lines) == SumFunction([p \in DOMAIN qty |-> LineRefund(qty[p], lines[p])])

RefundChange(r, qty, rows) ==
    LET i == request[r].sale
        sale == tillSales[i]
        net == NetOf(RefundAmounts(qty, sale.lines))
        tax == TaxOf(RefundAmounts(qty, sale.lines))
    IN  /\ i \in DOMAIN tillSales
        /\ qty \in PerProduct(Nat \ {0}) /\ DOMAIN qty \subseteq DOMAIN sale.lines
        /\ \A p \in DOMAIN qty : qty[p] <= sale.lines[p].qty - sale.lines[p].refunded
        /\ Repaid(qty, sale.lines) \in Nat /\ net \in Nat /\ tax \in Nat /\ RefundCost(qty, sale.lines) \in Nat
        /\ tillSales' = [tillSales EXCEPT ![i] = RefundedSale(sale, qty, Repaid(qty, sale.lines))]
        /\ tillReturns' = Append(tillReturns, [sale |-> i, session |-> request[r].session, qty |-> qty,
                                               amount |-> Repaid(qty, sale.lines)])
        /\ onHand' \in [Warehouse -> [Product -> Int]]
        /\ \A v \in Warehouse, p \in Tracked :
              onHand'[v][p] = onHand[v][p] + IF v = sale.warehouse THEN On(qty, p) ELSE 0
        /\ Posts(-(net + tax), 0, net, tax, -PostedCost(RefundCost(qty, sale.lines)))
        /\ Registers(rows, "pos_return", Len(tillReturns) + 1, -tax, net)
        /\ request' = [request EXCEPT ![r] = Idle]
        /\ UNCHANGED <<terminals, sessions, holds, arrivals, costPrice, returns>>

LEMMA RefundEffect ==
  ASSUME Tills, NEW r \in Request, request[r].sale # 0, NEW qty \in RefundParts(request[r].read), NEW d \in Date,
         refund(r, qty, d)
  PROVE  \E rows : RefundChange(r, qty, rows)
<1>1. BooksRows /\ Len(tillReturns) \in Nat /\ request[r] \in RequestRow
  BY TillFacts
<1>2. PICK i, sale : i = request[r].sale /\ sale = tillSales[i]
  OBVIOUS
<1>3. i \in DOMAIN tillSales /\ request[r].read = sale
  BY <1>2 DEF Tills, SaleLocks
<1>4. sale \in SaleRow /\ SoldLines(sale) /\ sale.lines \in PerProduct(SaleLineRow)
  BY <1>2, <1>3, TillFacts
<1>5. /\ qty \in PerProduct(Nat \ {0}) /\ DOMAIN qty \subseteq DOMAIN sale.lines
      /\ \A p \in DOMAIN qty : qty[p] <= sale.lines[p].qty - sale.lines[p].refunded
  BY <1>3, <1>4, RefundPartsType
<1>6. PICK amounts, net, tax, total, cost :
          /\ amounts = RefundAmounts(qty, sale.lines) /\ net = NetOf(amounts) /\ tax = TaxOf(amounts)
          /\ total = Repaid(qty, sale.lines) /\ cost = RefundCost(qty, sale.lines)
  OBVIOUS
<1>7. amounts \in [DOMAIN qty -> Amount] /\ net \in Nat /\ tax \in Nat /\ total \in Nat /\ cost \in Nat
  BY <1>4, <1>5, <1>6, RefundType DEF Repaid
<1>8. /\ tillSales' = [tillSales EXCEPT ![i] = RefundedSale(sale, qty, total)]
      /\ tillReturns' = Append(tillReturns, [sale |-> i, session |-> request[r].session, qty |-> qty,
                                             amount |-> total])
      /\ onHand' = PutBack(sale.warehouse, qty)
      /\ balance' = Posted(Posted(balance, RefundEntry(net, tax)), RefundCostEntry(cost))
      /\ register' = register \cup VatOfRefund(Len(tillReturns) + 1, d, sale.lines, amounts)
      /\ request' = [request EXCEPT ![r] = Idle]
      /\ UNCHANGED <<terminals, sessions, holds, arrivals, costPrice, returns>>
  BY <1>2, <1>3, <1>6 DEF refund, Repaid
<1>9. /\ onHand' \in [Warehouse -> [Product -> Int]]
      /\ \A v \in Warehouse, p \in Tracked :
            onHand'[v][p] = onHand[v][p] + IF v = sale.warehouse THEN On(qty, p) ELSE 0
  <2>1. onHand \in [Warehouse -> [Product -> Int]]
    BY <1>1 DEF BooksRows
  <2>2. qty \in PerProduct(Nat)
    BY <1>5, Weaker
  <2>3. PICK w \in Warehouse : w = sale.warehouse
    BY <1>4 DEF SaleRow
  <2>4. /\ PutBack(w, qty) \in [Warehouse -> [Product -> Int]]
        /\ \A v \in Warehouse, p \in Tracked :
              PutBack(w, qty)[v][p] = onHand[v][p] + IF v = w THEN On(qty, p) ELSE 0
    BY <2>1, <2>2, StockType
  <2>5. QED
    BY <1>8, <2>3, <2>4
<1>10. Posts(-(net + tax), 0, net, tax, -PostedCost(cost))
  <2>1. Brings(RefundEntry(net, tax), -(net + tax), 0, net, tax, 0)
    BY <1>7, RefundBrings
  <2>2. Brings(RefundCostEntry(cost), 0, 0, 0, 0, -PostedCost(cost))
    BY <1>7, CostBrings
  <2>3. PostedCost(cost) \in Nat
    BY <1>7, PostedCostType
  <2>4. -(net + tax) \in Int /\ 0 \in Int /\ net \in Int /\ tax \in Int /\ -PostedCost(cost) \in Int
    BY <1>7, <2>3
  <2>5. QED
    BY <1>1, <1>8, <2>1, <2>2, <2>4, BothPosted
<1>11. PICK rows : rows = VatOfRefund(Len(tillReturns) + 1, d, sale.lines, amounts)
  OBVIOUS
<1>12. Registers(rows, "pos_return", Len(tillReturns) + 1, -tax, net)
  <2>1. PICK source : source = <<"pos_return", Len(tillReturns) + 1>>
    OBVIOUS
  <2>2. source \in {"invoice", "credit_note", "supplier_bill", "pos_sale", "pos_return"} \X Nat
        /\ source[1] = "pos_return"
    BY <1>1, <2>1
  <2>3. IsFiniteSet(DOMAIN qty) /\ \A p \in DOMAIN qty : sale.lines[p].tax \in 0..Scale
    <3>1. /\ IsFiniteSet(DOMAIN qty) /\ \A p \in DOMAIN sale.lines : sale.lines[p] \in SaleLineRow
      BY <1>4, <1>5, OnProducts
    <3>2. QED
      BY <1>5, <3>1 DEF SaleLineRow
  <2>4. rows = RowsPerRate(source, "OUTPUT", d, -1, sale.lines, amounts)
    BY <1>11, <2>1 DEF VatOfRefund
  <2>5. PICK sign : sign = -1
    OBVIOUS
  <2>6. RowsAddUp(rows, source, "OUTPUT", sign, TaxOf(amounts), NetOf(amounts))
    <3>1. RowsFor(rows, source, "OUTPUT", d, sign, sale.lines, DOMAIN qty, amounts)
      BY <1>7, <2>2, <2>3, <2>4, <2>5 DEF RowsFor
    <3>2. QED
      BY <3>1, RateRows, Zenon
  <2>7. /\ IsFiniteSet(rows)
        /\ \A w \in rows : /\ w \in VatRow /\ w.source = source /\ w.direction = "OUTPUT" /\ w.vat <= 0
        /\ SumFunction([w \in rows |-> w.vat]) = sign * tax
        /\ SumFunction([w \in rows |-> w.base]) = net
    BY <1>6, <2>5, <2>6 DEF RowsAddUp
  <2>8. \A w \in rows : VatRowChecks(w, w.source[1] \in {"credit_note", "pos_return"})
    <3> SUFFICES ASSUME NEW w \in rows PROVE VatRowChecks(w, w.source[1] \in {"credit_note", "pos_return"})
      OBVIOUS
    <3>1. w.source[1] = "pos_return" /\ w.vat <= 0
      BY <2>2, <2>7
    <3>2. w.base \in Nat /\ w.rate \in 0..Scale /\ Scale \in Nat
      BY <2>7, BooksAssumption DEF VatRow
    <3>3. QED
      BY <3>1, <3>2 DEF VatRowChecks
  <2>9. sign * tax = -tax
    BY <1>7, <2>5
  <2>10. QED
    BY <1>8, <1>11, <2>1, <2>7, <2>8, <2>9 DEF Registers
<1>13. RefundChange(r, qty, rows)
  BY <1>2, <1>3, <1>5, <1>6, <1>7, <1>8, <1>9, <1>10, <1>12 DEF RefundChange
<1>14. QED
  BY <1>13

\* A step that leaves sales, returns, arrivals and the books alone.
SameTrade == UNCHANGED <<tillSales, tillReturns, arrivals, books>>

\* A receipt of goods.
ArriveChange(w, p, qty) ==
    /\ w \in Warehouse /\ p \in Tracked /\ qty \in Nat \ {0}
    /\ arrivals' = Append(arrivals, [warehouse |-> w, product |-> p, qty |-> qty])
    /\ onHand' \in [Warehouse -> [Product -> Int]] /\ costPrice' \in [Product -> Seq(Nat) \ {<<>>}]
    /\ \A v \in Warehouse, x \in Tracked :
          onHand'[v][x] = onHand[v][x] + IF v = w /\ x = p THEN qty ELSE 0
    /\ Posts(0, 0, 0, 0, 0)
    /\ UNCHANGED <<terminals, sessions, tillSales, tillReturns, holds, request, register, returns>>

LEMMA ArriveEffect ==
  ASSUME Tills, NEW w \in Warehouse, NEW p \in Tracked, NEW a \in Arrivals, NEW read \in CostsRead,
         GoodsArrive(w, p, a[1], a[2], read), ProductChecks'
  PROVE  \E qty : ArriveChange(w, p, qty)
<1>1. BooksRows
  BY TillFacts
<1>2. PICK q, u : q = a[1] /\ u = a[2]
  OBVIOUS
<1>3. q \in Nat \ {0} /\ u \in Nat
  BY <1>2, TillAssumption
<1>4. PICK m : m = [x \in {p} |-> q]
  OBVIOUS
<1>5. p \in Product /\ onHand \in [Warehouse -> [Product -> Int]] /\ costPrice \in [Product -> Seq(Nat) \ {<<>>}]
      /\ balance \in [SystemAccount -> Int] /\ Tracked \subseteq Product
  BY <1>1, BooksAssumption DEF BooksRows
<1>6. m \in PerProduct(Nat) /\ DOMAIN m = {p} /\ m[p] = q
  <2>1. m \in [{p} -> Nat] /\ {p} \subseteq Product /\ {p} # {}
    BY <1>3, <1>4, <1>5
  <2>2. QED
    BY <1>4, <2>1, IsOnProducts
<1>7. /\ arrivals' = Append(arrivals, [warehouse |-> w, product |-> p, qty |-> q])
      /\ onHand' = PutBack(w, m)
      /\ costPrice' = [costPrice EXCEPT ![p] = Repriced(p, read[p], AverageCost(w, p, q, u, read[p]))]
      /\ balance' = Posted(balance, goods_receipt(PostedCost(q * u)))
      /\ UNCHANGED <<terminals, sessions, tillSales, tillReturns, holds, request, register, returns>>
  BY <1>2, <1>4 DEF GoodsArrive
<1>8. /\ PutBack(w, m) \in [Warehouse -> [Product -> Int]]
      /\ \A v \in Warehouse, x \in Tracked :
            PutBack(w, m)[v][x] = onHand[v][x] + IF v = w THEN On(m, x) ELSE 0
  BY <1>5, <1>6, StockType
<1>9. \A x : On(m, x) = IF x = p THEN q ELSE 0
  BY <1>6 DEF On
<1>10. costPrice' \in [Product -> Seq(Nat) \ {<<>>}]
  <2>1. PICK known \in Nat : known = read[p]
    BY <1>1, <1>5, ReadType
  <2>2. PICK average \in Int : average = AverageCost(w, p, q, u, known)
    BY <1>1, <1>3, <1>5, AverageType
  <2>3. PICK costs : costs = Repriced(p, known, average)
    OBVIOUS
  <2>4. costPrice' = [costPrice EXCEPT ![p] = costs]
    BY <1>7, <2>1, <2>2, <2>3
  <2>5. costs[Len(costs)] >= 0
    BY <1>5, <2>4 DEF ProductChecks, CurrentCost
  <2>6. costs \in Seq(Nat) \ {<<>>}
    BY <1>1, <1>5, <2>3, <2>5, RepricedType
  <2>7. QED
    BY <1>5, <2>4, <2>6
<1>11. q * u \in Nat
  BY <1>3
<1>12. Brings(goods_receipt(PostedCost(q * u)), 0, 0, 0, 0, 0)
  BY <1>11, CostBrings
<1>13. Posts(0, 0, 0, 0, 0)
  <2>1. PICK e : e = goods_receipt(PostedCost(q * u))
    OBVIOUS
  <2>2. balance' = Posted(balance, e) /\ Brings(e, 0, 0, 0, 0, 0)
    BY <1>7, <1>12, <2>1
  <2>3. QED
    BY <1>5, <2>2 DEF Brings, Posts
<1>14. /\ onHand' \in [Warehouse -> [Product -> Int]]
       /\ \A v \in Warehouse, x \in Tracked :
             onHand'[v][x] = onHand[v][x] + IF v = w /\ x = p THEN q ELSE 0
  BY <1>7, <1>8, <1>9
<1>15. ArriveChange(w, p, q)
  BY <1>3, <1>7, <1>10, <1>13, <1>14 DEF ArriveChange
<1>16. QED
  BY <1>15

-----------------------------------------------------------------------------
(* Tills is kept *)

TradeStep ==
    \/ SameTrade
    \/ \E r \in Request, sale \in SaleRow : \E rows : CheckoutChange(r, sale, rows)
    \/ \E r \in Request : \E qty, rows : request[r].sale # 0 /\ RefundChange(r, qty, rows)
    \/ \E w, p, qty : ArriveChange(w, p, qty)

\* Every step leaves sales, returns, arrivals and the books alone, or is one of three.
LEMMA TradeSteps ==
  ASSUME Tills, [Next]_vars
  PROVE  TradeStep
<1>1. CASE UNCHANGED vars
  BY <1>1 DEF vars, tills, TradeStep, SameTrade
<1>2. ASSUME NEW t \in Terminal, create_terminal(t) PROVE TradeStep
  BY <1>2 DEF create_terminal, TradeStep, SameTrade
<1>3. ASSUME NEW t \in DOMAIN terminals, NEW active \in BOOLEAN, update_terminal(t, active) PROVE TradeStep
  BY <1>3 DEF update_terminal, TradeStep, SameTrade
<1>4. ASSUME NEW t \in DOMAIN terminals, NEW float \in Floats, open_session(t, float) PROVE TradeStep
  BY <1>4 DEF open_session, TradeStep, SameTrade
<1>5. ASSUME NEW w \in Warehouse, NEW p \in Tracked, NEW a \in Arrivals, NEW read \in CostsRead,
             GoodsArrive(w, p, a[1], a[2], read), ProductChecks'
      PROVE  TradeStep
  BY <1>5, ArriveEffect DEF TradeStep
<1>6. ASSUME NEW r \in Request, TillStep(r) PROVE TradeStep
  <2>1. ASSUME NEW s \in DOMAIN sessions, NEW op \in {"close", "checkout", "hold", "refund"}, EnterSession(r, op, s)
        PROVE  TradeStep
    BY <2>1 DEF EnterSession, TradeStep, SameTrade
  <2>2. ASSUME NEW counted \in Floats, close_session(r, counted) PROVE TradeStep
    BY <2>2 DEF close_session, TradeStep, SameTrade
  <2>3. ASSUME NEW cart \in Cart, NEW payments \in PaymentsOffered, NEW d \in Date, checkout(r, cart, payments, d)
        PROVE  TradeStep
    BY <2>3, CheckoutEffect DEF TradeStep
  <2>4. ASSUME NEW cart \in Cart, hold(r, cart) PROVE TradeStep
    BY <2>4 DEF hold, TradeStep, SameTrade
  <2>5. ASSUME NEW h \in DOMAIN holds, LockHeld(r, h) PROVE TradeStep
    BY <2>5 DEF LockHeld, TradeStep, SameTrade
  <2>6. CASE resume(r)
    BY <2>6 DEF resume, TradeStep, SameTrade
  <2>7. ASSUME NEW i \in DOMAIN tillSales, LockSale(r, i) PROVE TradeStep
    BY <2>7 DEF LockSale, TradeStep, SameTrade
  <2>8. ASSUME request[r].sale # 0, NEW qty \in RefundParts(request[r].read), NEW d \in Date, refund(r, qty, d)
        PROVE  TradeStep
    BY <2>8, RefundEffect DEF TradeStep
  <2>9. CASE Rollback(r)
    BY <2>9 DEF Rollback, TradeStep, SameTrade
  <2>10. QED
    BY <1>6, <2>1, <2>2, <2>3, <2>4, <2>5, <2>6, <2>7, <2>8, <2>9 DEF TillStep
<1>7. QED
  BY <1>1, <1>2, <1>3, <1>4, <1>5, <1>6 DEF Next, TillChecks

\* What a refund does to the rows of the sale and of the returns.
RefundedRows(i, sale, new, doc, qty) ==
    /\ i \in DOMAIN tillSales /\ sale \in SaleRow /\ new \in SaleRow /\ doc \in SaleReturnRow
    /\ tillSales' = [tillSales EXCEPT ![i] = new] /\ tillReturns' = Append(tillReturns, doc)
    /\ new.session = sale.session /\ new.payments = sale.payments /\ new.warehouse = sale.warehouse
    /\ new.refunded = sale.refunded + Repaid(qty, sale.lines) /\ Repaid(qty, sale.lines) \in Nat
    /\ DOMAIN new.lines = DOMAIN sale.lines
    /\ \A p \in DOMAIN sale.lines :
            /\ new.lines[p].refunded = sale.lines[p].refunded + On(qty, p)
            /\ new.lines[p].qty = sale.lines[p].qty
            /\ new.lines[p].tax = sale.lines[p].tax
            /\ new.lines[p].cost = sale.lines[p].cost
            /\ new.lines[p].amounts = sale.lines[p].amounts
    /\ LineAmounts(new.lines) = LineAmounts(sale.lines) /\ SaleTotal(new.lines) = SaleTotal(sale.lines)

LEMMA RefundRows ==
  ASSUME Tills, NEW r \in Request, NEW qty, NEW rows, RefundChange(r, qty, rows),
         NEW i, i = request[r].sale, NEW sale, sale = tillSales[i],
         NEW new, new = RefundedSale(sale, qty, Repaid(qty, sale.lines)),
         NEW doc, doc = [sale |-> i, session |-> request[r].session, qty |-> qty, amount |-> Repaid(qty, sale.lines)]
  PROVE  RefundedRows(i, sale, new, doc, qty)
<1>1. /\ i \in DOMAIN tillSales /\ qty \in PerProduct(Nat \ {0}) /\ DOMAIN qty \subseteq DOMAIN sale.lines
      /\ Repaid(qty, sale.lines) \in Nat
      /\ tillSales' = [tillSales EXCEPT ![i] = new] /\ tillReturns' = Append(tillReturns, doc)
  BY DEF RefundChange
<1>2. sale \in SaleRow /\ request[r].session \in Nat
  <2>1. request[r] \in RequestRow
    BY TillFacts
  <2>2. QED
    BY <1>1, <2>1, TillFacts DEF RequestRow
<1>3. PICK total \in Nat : total = Repaid(qty, sale.lines)
  BY <1>1
<1>4. /\ new \in SaleRow /\ new.session = sale.session /\ new.payments = sale.payments
      /\ new.warehouse = sale.warehouse
      /\ new.refunded = sale.refunded + total
      /\ DOMAIN new.lines = DOMAIN sale.lines
      /\ \A p \in DOMAIN sale.lines :
                /\ new.lines[p].refunded = sale.lines[p].refunded + On(qty, p)
                /\ new.lines[p].qty = sale.lines[p].qty
                /\ new.lines[p].tax = sale.lines[p].tax
                /\ new.lines[p].cost = sale.lines[p].cost
                /\ new.lines[p].amounts = sale.lines[p].amounts
  <2>1. new = RefundedSale(sale, qty, total)
    BY <1>3
  <2>2. QED
    BY ONLY <1>1, <1>2, <2>1, total \in Nat, RefundedSaleType
<1>5. LineAmounts(new.lines) = LineAmounts(sale.lines) /\ SaleTotal(new.lines) = SaleTotal(sale.lines)
  <2>1. PICK ls, ms : ls = sale.lines /\ ms = new.lines
    OBVIOUS
  <2>2. DOMAIN ms = DOMAIN ls /\ \A p \in DOMAIN ls : ms[p].amounts = ls[p].amounts
    BY ONLY <1>4, <2>1
  <2>3. LineAmounts(ms) = LineAmounts(ls) /\ SaleTotal(ms) = SaleTotal(ls)
    BY ONLY <2>2, TotalKept
  <2>4. QED
    BY ONLY <2>1, <2>3
<1>6. i \in Nat
  BY <1>1, TillFacts
<1>7. doc \in SaleReturnRow
  BY <1>1, <1>2, <1>6 DEF SaleReturnRow
<1>8. QED
  BY <1>1, <1>2, <1>3, <1>4, <1>5, <1>7 DEF RefundedRows

\* The rows of sales, returns and arrivals keep their types, and paid sales stay paid.
LEMMA TradeRowsKept ==
  ASSUME Tills, TradeStep
  PROVE  /\ tillSales' \in Seq(SaleRow) /\ tillReturns' \in Seq(SaleReturnRow)
         /\ arrivals' \in Seq([warehouse : Warehouse, product : Tracked, qty : Nat]) /\ PaidInFull'
<1>1. /\ tillSales \in Seq(SaleRow) /\ tillReturns \in Seq(SaleReturnRow)
      /\ arrivals \in Seq([warehouse : Warehouse, product : Tracked, qty : Nat]) /\ PaidInFull
  BY DEF Tills, TypeOK, TillRows
<1>2. CASE SameTrade
  BY <1>1, <1>2 DEF SameTrade, PaidInFull
<1>3. ASSUME NEW r \in Request, NEW sale \in SaleRow, NEW rows, CheckoutChange(r, sale, rows)
      PROVE  /\ tillSales' \in Seq(SaleRow) /\ tillReturns' \in Seq(SaleReturnRow)
             /\ arrivals' \in Seq([warehouse : Warehouse, product : Tracked, qty : Nat]) /\ PaidInFull'
  <2>1. /\ tillSales' = Append(tillSales, sale) /\ tillReturns' = tillReturns /\ arrivals' = arrivals
        /\ Tendered(sale.payments) = SaleTotal(sale.lines)
    BY <1>3 DEF CheckoutChange
  <2>2. /\ tillSales' \in Seq(SaleRow) /\ DOMAIN tillSales' = DOMAIN tillSales \cup {Len(tillSales) + 1}
        /\ \A i \in DOMAIN tillSales : tillSales'[i] = tillSales[i]
        /\ tillSales'[Len(tillSales) + 1] = sale
    BY <1>1, <2>1, Appended
  <2>3. QED
    BY <1>1, <2>1, <2>2 DEF PaidInFull
<1>4. ASSUME NEW r \in Request, NEW qty, NEW rows, RefundChange(r, qty, rows)
      PROVE  /\ tillSales' \in Seq(SaleRow) /\ tillReturns' \in Seq(SaleReturnRow)
             /\ arrivals' \in Seq([warehouse : Warehouse, product : Tracked, qty : Nat]) /\ PaidInFull'
  <2>1. PICK i, sale : i = request[r].sale /\ sale = tillSales[i]
    OBVIOUS
  <2>2. PICK new, doc :
            /\ new = RefundedSale(sale, qty, Repaid(qty, sale.lines))
            /\ doc = [sale |-> i, session |-> request[r].session, qty |-> qty, amount |-> Repaid(qty, sale.lines)]
    OBVIOUS
  <2>3. /\ i \in DOMAIN tillSales /\ new \in SaleRow /\ doc \in SaleReturnRow
        /\ tillSales' = [tillSales EXCEPT ![i] = new] /\ tillReturns' = Append(tillReturns, doc)
        /\ new.payments = sale.payments /\ SaleTotal(new.lines) = SaleTotal(sale.lines)
    BY <1>4, <2>1, <2>2, RefundRows DEF RefundedRows
  <2>4. arrivals' = arrivals
    BY <1>4 DEF RefundChange
  <2>5. tillReturns' \in Seq(SaleReturnRow)
    BY <1>1, <2>3, Appended
  <2>6. /\ tillSales' \in Seq(SaleRow) /\ DOMAIN tillSales' = DOMAIN tillSales /\ tillSales'[i] = new
        /\ \A j \in DOMAIN tillSales : j # i => tillSales'[j] = tillSales[j]
    BY <1>1, <2>3, Replaced
  <2>7. PaidInFull'
    BY <1>1, <2>1, <2>3, <2>6 DEF PaidInFull
  <2>8. QED
    BY <1>1, <2>4, <2>5, <2>6, <2>7
<1>5. ASSUME NEW w, NEW p, NEW qty, ArriveChange(w, p, qty)
      PROVE  /\ tillSales' \in Seq(SaleRow) /\ tillReturns' \in Seq(SaleReturnRow)
             /\ arrivals' \in Seq([warehouse : Warehouse, product : Tracked, qty : Nat]) /\ PaidInFull'
  <2>1. /\ tillSales' = tillSales /\ tillReturns' = tillReturns
        /\ w \in Warehouse /\ p \in Tracked /\ qty \in Nat
        /\ arrivals' = Append(arrivals, [warehouse |-> w, product |-> p, qty |-> qty])
    BY <1>5 DEF ArriveChange
  <2>2. arrivals' \in Seq([warehouse : Warehouse, product : Tracked, qty : Nat])
    BY <1>1, <2>1, Appended
  <2>3. QED
    BY <1>1, <2>1, <2>2 DEF PaidInFull
<1>6. QED
  BY <1>2, <1>3, <1>4, <1>5 DEF TradeStep

\* New rows of a new document: the register keeps its shape.
LEMMA RegisterGrows ==
  ASSUME Tills, NEW rows, NEW kind, NEW n, NEW tax, NEW net, Registers(rows, kind, n, tax, net)
  PROVE  /\ IsFiniteSet(register')
         /\ \A w \in register' : /\ w \in VatRow /\ w.direction = "OUTPUT"
                                 /\ VatRowChecks(w, w.source[1] \in {"credit_note", "pos_return"})
                                 /\ w \in register \/ w.source = <<kind, n>>
<1>1. /\ register' = register \cup rows /\ IsFiniteSet(rows)
      /\ \A w \in rows : /\ w \in VatRow /\ w.source = <<kind, n>> /\ w.direction = "OUTPUT"
                         /\ VatRowChecks(w, w.source[1] \in {"credit_note", "pos_return"})
  BY DEF Registers
<1>2. /\ IsFiniteSet(register)
      /\ \A w \in register : /\ w \in VatRow /\ w.direction = "OUTPUT"
                             /\ VatRowChecks(w, w.source[1] \in {"credit_note", "pos_return"})
  BY DEF Tills, TypeOK, BooksRows, Registered
<1>3. IsFiniteSet(register \cup rows)
  BY <1>1, <1>2, FS_Union
<1>4. QED
  BY <1>1, <1>2, <1>3

\* The books keep their shape.
LEMMA BooksKept ==
  ASSUME Tills, TradeStep
  PROVE  BooksRows' /\ Registered'
<1>1. BooksRows /\ Registered /\ Len(tillSales) \in Nat /\ Len(tillReturns) \in Nat
      /\ tillSales \in Seq(SaleRow) /\ tillReturns \in Seq(SaleReturnRow)
  BY TillFacts DEF Tills
<1>2. CASE SameTrade
  BY <1>1, <1>2 DEF SameTrade, books, BooksRows, Registered, VatRowChecks
<1>3. ASSUME NEW r \in Request, NEW sale \in SaleRow, NEW rows, CheckoutChange(r, sale, rows)
      PROVE  BooksRows' /\ Registered'
  <2>1. PICK n, tax, net : Registers(rows, "pos_sale", n, tax, net) /\ n = Len(tillSales) + 1
    BY <1>3 DEF CheckoutChange
  <2>2. /\ IsFiniteSet(register')
        /\ \A w \in register' : /\ w \in VatRow /\ w.direction = "OUTPUT"
                                /\ VatRowChecks(w, w.source[1] \in {"credit_note", "pos_return"})
                                /\ w \in register \/ w.source = <<"pos_sale", n>>
    BY <2>1, RegisterGrows
  <2>3. /\ balance' \in [SystemAccount -> Int] /\ onHand' \in [Warehouse -> [Product -> Int]] /\ costPrice' = costPrice
        /\ returns' = returns /\ tillReturns' = tillReturns /\ tillSales' = Append(tillSales, sale)
    BY <1>3 DEF CheckoutChange, Posts
  <2>4. BooksRows'
    BY <1>1, <2>2, <2>3 DEF BooksRows, VatRowChecks
  <2>5. DOMAIN tillSales' = DOMAIN tillSales \cup {n}
    BY <1>1, <2>1, <2>3, Appended
  <2>6. Registered'
    BY <1>1, <2>2, <2>3, <2>5 DEF Registered
  <2>7. QED
    BY <2>4, <2>6
<1>4. ASSUME NEW r \in Request, NEW qty, NEW rows, RefundChange(r, qty, rows)
      PROVE  BooksRows' /\ Registered'
  <2>1. PICK n, tax, net : Registers(rows, "pos_return", n, tax, net) /\ n = Len(tillReturns) + 1
    BY <1>4 DEF RefundChange
  <2>2. /\ IsFiniteSet(register')
        /\ \A w \in register' : /\ w \in VatRow /\ w.direction = "OUTPUT"
                                /\ VatRowChecks(w, w.source[1] \in {"credit_note", "pos_return"})
                                /\ w \in register \/ w.source = <<"pos_return", n>>
    BY <2>1, RegisterGrows
  <2>3. /\ balance' \in [SystemAccount -> Int] /\ onHand' \in [Warehouse -> [Product -> Int]] /\ costPrice' = costPrice
        /\ returns' = returns
    BY <1>4 DEF RefundChange, Posts
  <2>4. BooksRows'
    BY <1>1, <2>2, <2>3 DEF BooksRows, VatRowChecks
  <2>5. PICK i, sale : i = request[r].sale /\ sale = tillSales[i]
    OBVIOUS
  <2>6. PICK new, doc :
            /\ new = RefundedSale(sale, qty, Repaid(qty, sale.lines))
            /\ doc = [sale |-> i, session |-> request[r].session, qty |-> qty, amount |-> Repaid(qty, sale.lines)]
    OBVIOUS
  <2>7. /\ i \in DOMAIN tillSales /\ new \in SaleRow /\ doc \in SaleReturnRow
        /\ tillSales' = [tillSales EXCEPT ![i] = new] /\ tillReturns' = Append(tillReturns, doc)
    BY <1>4, <2>5, <2>6, RefundRows DEF RefundedRows
  <2>8. DOMAIN tillReturns' = DOMAIN tillReturns \cup {n} /\ DOMAIN tillSales' = DOMAIN tillSales
    BY <1>1, <2>1, <2>7, Appended, Replaced
  <2>9. Registered'
    BY <1>1, <2>2, <2>8 DEF Registered
  <2>10. QED
    BY <2>4, <2>9
<1>5. ASSUME NEW w, NEW p, NEW qty, ArriveChange(w, p, qty) PROVE BooksRows' /\ Registered'
  BY <1>1, <1>5 DEF ArriveChange, Posts, BooksRows, Registered, VatRowChecks
<1>6. QED
  BY <1>2, <1>3, <1>4, <1>5 DEF TradeStep

-----------------------------------------------------------------------------
(* Sessions, held carts and locks *)

\* The cash of a sale, and of a session.
LEMMA CashType ==
  ASSUME NEW payments \in SalePayments, SalePaymentChecks(payments), NEW sale, sale.payments = payments
  PROVE  CashTaken(sale) \in Nat
<1>1. \A t \in DOMAIN payments : payments[t].amount \in Nat /\ payments[t].change \in Nat
                                 /\ payments[t].change \in 0..payments[t].amount
  BY PaymentsAre DEF SalePaymentChecks
<1>2. QED
  BY <1>1 DEF CashTaken

LEMMA CashNetType ==
  ASSUME Tills, NEW s
  PROVE  cash_net(s) \in Nat
<1>1. /\ tillSales \in Seq(SaleRow)
      /\ \A i \in DOMAIN tillSales : /\ tillSales[i].payments \in SalePayments
                                     /\ SalePaymentChecks(tillSales[i].payments)
  BY TillFacts
<1>2. PICK f : f = [i \in SalesOf(s) |-> CashTaken(tillSales[i])]
  OBVIOUS
<1>3. IsFiniteSet(DOMAIN tillSales) /\ SalesOf(s) \in SUBSET DOMAIN tillSales
  BY <1>1, RowsFinite DEF SalesOf
<1>4. IsFiniteSet(SalesOf(s))
  BY <1>3, FS_Subset
<1>5. \A i \in DOMAIN tillSales : CashTaken(tillSales[i]) \in Nat
  BY <1>1, CashType
<1>6. DOMAIN f = SalesOf(s) /\ \A i \in DOMAIN f : f[i] \in Nat
  BY <1>2, <1>3, <1>5
<1>7. SumFunction(f) \in Nat
  BY <1>4, <1>6, SumNat
<1>8. QED
  BY <1>2, <1>7 DEF cash_net

LEMMA IdleRow == Idle \in RequestRow /\ Idle.session = 0 /\ Idle.sale = 0 /\ Idle.op = "idle"
BY DEF Idle, RequestRow, NoSale

\* What a request locks.
SessionHeld(n, ss) ==
    /\ n.op \in {"close", "checkout", "hold", "refund"} => n.session # 0
    /\ n.session # 0 => n.session \in DOMAIN ss /\ ss[n.session].status = "OPEN"

SaleHeld(n, sales) ==
    n.sale # 0 => n.sale \in DOMAIN sales /\ n.session # 0 /\ n.read = sales[n.sale]

\* One request takes or gives back a lock, and may change the rows it had locked.
LockChange(r, n) ==
    /\ request' = [request EXCEPT ![r] = n] /\ n \in RequestRow
    /\ SessionHeld(n, sessions') /\ SaleHeld(n, tillSales')
    /\ n.session # 0 => \A q \in Request \ {r} : request[q].session # n.session
    /\ n.sale # 0 => \A q \in Request \ {r} : request[q].sale # n.sale
    /\ \A s \in DOMAIN sessions : /\ s \in DOMAIN sessions'
                                  /\ s # request[r].session => sessions'[s] = sessions[s]
    /\ \A i \in DOMAIN tillSales : /\ i \in DOMAIN tillSales'
                                   /\ i # request[r].sale => tillSales'[i] = tillSales[i]

Locks == request \in [Request -> RequestRow] /\ SessionLocks /\ SaleLocks

LEMMA LocksAfterChange ==
  ASSUME Locks, NEW r \in Request, NEW n, LockChange(r, n)
  PROVE  Locks'
<1>1. /\ request \in [Request -> RequestRow] /\ n \in RequestRow
      /\ request' = [request EXCEPT ![r] = n]
  BY DEF Locks, LockChange
<1>2. /\ request' \in [Request -> RequestRow] /\ request'[r] = n
      /\ \A q \in Request \ {r} : request'[q] = request[q]
  BY <1>1
<1>3. SessionLocks'
  <2>1. \A q \in Request : SessionHeld(request'[q], sessions')
    <3> SUFFICES ASSUME NEW q \in Request PROVE SessionHeld(request'[q], sessions')
      OBVIOUS
    <3>1. CASE q = r
      BY <1>2, <3>1 DEF LockChange
    <3>2. CASE q # r
      <4>1. SessionHeld(request[q], sessions)
        BY DEF Locks, SessionLocks, SessionHeld
      <4>2. request[q].session # 0 => request[q].session # request[r].session
        BY <3>2 DEF Locks, SessionLocks
      <4>3. request'[q] = request[q]
        BY <1>2, <3>2
      <4>4. QED
        BY <4>1, <4>2, <4>3 DEF LockChange, SessionHeld
    <3>3. QED
      BY <3>1, <3>2
  <2>2. ASSUME NEW p \in Request, NEW q \in Request, request'[p].session # 0,
               request'[q].session = request'[p].session
        PROVE  q = p
    BY <1>2, <2>2 DEF Locks, SessionLocks, LockChange
  <2>3. QED
    BY <2>1, <2>2 DEF SessionLocks, SessionHeld
<1>4. SaleLocks'
  <2>1. \A q \in Request : SaleHeld(request'[q], tillSales')
    <3> SUFFICES ASSUME NEW q \in Request PROVE SaleHeld(request'[q], tillSales')
      OBVIOUS
    <3>1. CASE q = r
      BY <1>2, <3>1 DEF LockChange
    <3>2. CASE q # r
      <4>1. SaleHeld(request[q], tillSales)
        BY DEF Locks, SaleLocks, SaleHeld
      <4>2. request[q].sale # 0 => request[q].sale # request[r].sale
        BY <3>2 DEF Locks, SaleLocks
      <4>3. request'[q] = request[q]
        BY <1>2, <3>2
      <4>4. QED
        BY <4>1, <4>2, <4>3 DEF LockChange, SaleHeld
    <3>3. QED
      BY <3>1, <3>2
  <2>2. ASSUME NEW p \in Request, NEW q \in Request, request'[p].sale # 0,
               request'[q].sale = request'[p].sale
        PROVE  q = p
    BY <1>2, <2>2 DEF Locks, SaleLocks, LockChange
  <2>3. QED
    BY <2>1, <2>2 DEF SaleLocks, SaleHeld
<1>5. QED
  BY <1>2, <1>3, <1>4 DEF Locks

\* A step of no request: rows that may be locked stay.
LEMMA LocksAfterOther ==
  ASSUME Locks, request' = request,
         \A s \in DOMAIN sessions : s \in DOMAIN sessions' /\ sessions'[s] = sessions[s],
         \A i \in DOMAIN tillSales : i \in DOMAIN tillSales' /\ tillSales'[i] = tillSales[i]
  PROVE  Locks'
<1>1. request' \in [Request -> RequestRow]
  BY DEF Locks
<1>2. SessionLocks'
  BY DEF Locks, SessionLocks
<1>3. SaleLocks'
  BY DEF Locks, SaleLocks
<1>4. QED
  BY <1>1, <1>2, <1>3 DEF Locks

\* Giving back all locks.
LEMMA LocksReleased ==
  ASSUME Locks, NEW r \in Request, request' = [request EXCEPT ![r] = Idle],
         \A s \in DOMAIN sessions : /\ s \in DOMAIN sessions'
                                    /\ s # request[r].session => sessions'[s] = sessions[s],
         \A i \in DOMAIN tillSales : /\ i \in DOMAIN tillSales'
                                     /\ i # request[r].sale => tillSales'[i] = tillSales[i]
  PROVE  Locks'
<1>1. LockChange(r, Idle)
  BY IdleRow DEF LockChange, SessionHeld, SaleHeld
<1>2. QED
  BY <1>1, LocksAfterChange

\* What a step does to terminals, sessions and held carts.
FrontRows ==
    /\ \A t \in DOMAIN terminals : t \in Terminal /\ terminals[t] \in BOOLEAN
    /\ sessions \in Seq(SessionRow) /\ holds \in Seq(HeldSaleRow)

LEMMA OpenSessionEffect ==
  ASSUME FrontRows, NEW t \in DOMAIN terminals, NEW float \in Floats, open_session(t, float)
  PROVE  LET row == [terminal |-> t, status |-> "OPEN", float |-> float, expected |-> 0, variance |-> 0]
         IN  /\ row \in SessionRow /\ sessions' = Append(sessions, row) /\ sessions' \in Seq(SessionRow)
             /\ DOMAIN sessions' = DOMAIN sessions \cup {Len(sessions) + 1} /\ Len(sessions) + 1 \notin DOMAIN sessions
             /\ \A s \in DOMAIN sessions : sessions'[s] = sessions[s]
             /\ sessions'[Len(sessions) + 1] = row
<1>1. PICK row : row = [terminal |-> t, status |-> "OPEN", float |-> float, expected |-> 0, variance |-> 0]
  OBVIOUS
<1>2. row \in SessionRow
  BY <1>1, TillAssumption DEF SessionRow, SessionStatus, FrontRows
<1>3. sessions' = Append(sessions, row) /\ sessions \in Seq(SessionRow)
  BY <1>1 DEF open_session, FrontRows
<1>4. /\ sessions' \in Seq(SessionRow)
      /\ DOMAIN sessions' = DOMAIN sessions \cup {Len(sessions) + 1} /\ Len(sessions) + 1 \notin DOMAIN sessions
      /\ \A s \in DOMAIN sessions : sessions'[s] = sessions[s]
      /\ sessions'[Len(sessions) + 1] = row
  BY <1>2, <1>3, Appended
<1>5. QED
  BY <1>1, <1>2, <1>3, <1>4

LEMMA CloseSessionEffect ==
  ASSUME Tills, NEW r \in Request, NEW counted \in Floats, close_session(r, counted)
  PROVE  LET s == request[r].session
         IN  /\ request[r].op = "close" /\ s # 0 /\ s \in DOMAIN sessions /\ sessions' \in Seq(SessionRow)
             /\ DOMAIN sessions' = DOMAIN sessions
             /\ sessions'[s].status = "CLOSED" /\ sessions'[s].terminal = sessions[s].terminal
             /\ sessions'[s].float = sessions[s].float /\ sessions'[s].expected = request[r].expected
             /\ \A u \in DOMAIN sessions : u # s => sessions'[u] = sessions[u]
<1>1. PICK s, e : s = request[r].session /\ e = request[r].expected
  OBVIOUS
<1>2. request[r] \in RequestRow /\ sessions \in Seq(SessionRow)
  BY TillFacts
<1>3. e \in Nat /\ counted \in Nat
  BY <1>1, <1>2, TillAssumption DEF RequestRow
<1>4. request[r].op = "close" /\ s # 0 /\ s \in DOMAIN sessions
  BY <1>1 DEF close_session, Tills, SessionLocks
<1>5. PICK row \in SessionRow : row = sessions[s]
  BY <1>2, <1>4, RowsFinite
<1>6. PICK new : new = [row EXCEPT !.status = "CLOSED", !.expected = e, !.variance = counted - e]
  OBVIOUS
<1>7. /\ new \in SessionRow /\ new.status = "CLOSED" /\ new.terminal = row.terminal /\ new.float = row.float
      /\ new.expected = e
  <2>1. PICK v \in Int : v = counted - e
    BY <1>3
  <2>2. row = [terminal |-> row.terminal, status |-> row.status, float |-> row.float, expected |-> row.expected,
               variance |-> row.variance] /\ row.terminal \in Terminal /\ row.float \in Nat
    BY DEF SessionRow
  <2>3. new = [terminal |-> row.terminal, status |-> "CLOSED", float |-> row.float, expected |-> e, variance |-> v]
    BY <1>6, <2>1, <2>2
  <2>4. QED
    BY <1>3, <2>2, <2>3 DEF SessionRow, SessionStatus
<1>8. sessions' = [sessions EXCEPT ![s] = new]
  BY <1>1, <1>5, <1>6 DEF close_session
<1>9. /\ sessions' \in Seq(SessionRow) /\ DOMAIN sessions' = DOMAIN sessions /\ sessions'[s] = new
      /\ \A u \in DOMAIN sessions : u # s => sessions'[u] = sessions[u]
  BY <1>2, <1>4, <1>7, <1>8, Replaced
<1>10. QED
  BY <1>1, <1>4, <1>5, <1>7, <1>9

\* The request that enters a session.
LEMMA EnterEffect ==
  ASSUME Tills, NEW r \in Request, NEW s \in DOMAIN sessions, NEW op \in {"close", "checkout", "hold", "refund"},
         EnterSession(r, op, s)
  PROVE  \E n \in RequestRow :
            /\ request' = [request EXCEPT ![r] = n] /\ n.op = op /\ n.session = s /\ n.sale = 0 /\ n.held = 0
            /\ op = "close" => n.expected = sessions[s].float + cash_net(s)
            /\ s # 0 /\ sessions[s].status = "OPEN" /\ \A q \in Request : request[q].session # s
<1>1. cash_net(s) \in Nat /\ sessions \in Seq(SessionRow)
  BY CashNetType, TillFacts
<1>2. s \in Nat /\ s # 0 /\ sessions[s] \in SessionRow
  BY <1>1, RowsFinite
<1>3. PICK e : e = IF op = "close" THEN sessions[s].float + cash_net(s) ELSE 0
  OBVIOUS
<1>4. e \in Nat
  BY <1>1, <1>2, <1>3 DEF SessionRow
<1>5. PICK n : n = [Idle EXCEPT !.op = op, !.session = s, !.expected = e]
  OBVIOUS
<1>6. n \in RequestRow /\ n.op = op /\ n.session = s /\ n.expected = e /\ n.sale = 0 /\ n.held = 0
  BY <1>2, <1>4, <1>5 DEF Idle, RequestRow, NoSale
<1>7. request' = [request EXCEPT ![r] = n]
  BY <1>3, <1>5 DEF EnterSession
<1>8. sessions[s].status = "OPEN" /\ \A q \in Request : request[q].session # s
  BY DEF EnterSession, UsableSession, SessionFree
<1>9. QED
  BY <1>2, <1>3, <1>6, <1>7, <1>8

\* Terminals, sessions and held carts keep their types, and the locks protect what is read.
LEMMA FrontKept ==
  ASSUME Tills, [Next]_vars
  PROVE  FrontRows' /\ Locks'
<1>1. FrontRows /\ Locks /\ tillSales \in Seq(SaleRow) /\ BooksRows
  BY TillFacts DEF Tills, TypeOK, TillRows, FrontRows, Locks
<1>2. CASE UNCHANGED vars
  <2>1. UNCHANGED <<terminals, sessions, holds, request, tillSales>>
    BY <1>2 DEF vars, tills
  <2>2. FrontRows'
    BY <1>1, <2>1 DEF FrontRows
  <2>3. QED
    BY <1>1, <2>1, <2>2, LocksAfterOther
<1>3. ASSUME NEW t \in Terminal, create_terminal(t) PROVE FrontRows' /\ Locks'
  <2>1. /\ terminals' = [u \in DOMAIN terminals \cup {t} |-> u = t \/ terminals[u]]
        /\ UNCHANGED <<sessions, holds, request, tillSales>>
    BY <1>3 DEF create_terminal
  <2>2. \A u \in DOMAIN terminals' : u \in Terminal /\ terminals'[u] \in BOOLEAN
    BY <1>1, <2>1 DEF FrontRows
  <2>3. FrontRows'
    BY <1>1, <2>1, <2>2 DEF FrontRows
  <2>4. QED
    BY <1>1, <2>1, <2>3, LocksAfterOther
<1>4. ASSUME NEW t \in DOMAIN terminals, NEW active \in BOOLEAN, update_terminal(t, active)
      PROVE  FrontRows' /\ Locks'
  <2>1. /\ terminals' = [terminals EXCEPT ![t] = active] /\ UNCHANGED <<sessions, holds, request, tillSales>>
    BY <1>4 DEF update_terminal
  <2>2. \A u \in DOMAIN terminals' : u \in Terminal /\ terminals'[u] \in BOOLEAN
    BY <1>1, <2>1 DEF FrontRows
  <2>3. FrontRows'
    BY <1>1, <2>1, <2>2 DEF FrontRows
  <2>4. QED
    BY <1>1, <2>1, <2>3, LocksAfterOther
<1>5. ASSUME NEW t \in DOMAIN terminals, NEW float \in Floats, open_session(t, float) PROVE FrontRows' /\ Locks'
  <2>1. UNCHANGED <<terminals, holds, request, tillSales>>
    BY <1>5 DEF open_session
  <2>2. /\ sessions' \in Seq(SessionRow)
        /\ \A s \in DOMAIN sessions : s \in DOMAIN sessions' /\ sessions'[s] = sessions[s]
    BY <1>1, <1>5, OpenSessionEffect
  <2>3. FrontRows'
    BY <1>1, <2>1, <2>2 DEF FrontRows
  <2>4. QED
    BY <1>1, <2>1, <2>2, <2>3, LocksAfterOther
<1>6. ASSUME NEW w, NEW p, NEW a, NEW read, GoodsArrive(w, p, a[1], a[2], read) PROVE FrontRows' /\ Locks'
  <2>1. UNCHANGED <<terminals, sessions, holds, request, tillSales>>
    BY <1>6 DEF GoodsArrive
  <2>2. FrontRows'
    BY <1>1, <2>1 DEF FrontRows
  <2>3. QED
    BY <1>1, <2>1, <2>2, LocksAfterOther
<1>7. ASSUME NEW r \in Request, TillStep(r) PROVE FrontRows' /\ Locks'
  <2>0. ASSUME request' = [request EXCEPT ![r] = Idle], FrontRows',
               \A s \in DOMAIN sessions : /\ s \in DOMAIN sessions'
                                          /\ s # request[r].session => sessions'[s] = sessions[s],
               \A i \in DOMAIN tillSales : /\ i \in DOMAIN tillSales'
                                           /\ i # request[r].sale => tillSales'[i] = tillSales[i]
        PROVE  FrontRows' /\ Locks'
    BY <1>1, <2>0, LocksReleased
  <2>1. ASSUME NEW s \in DOMAIN sessions, NEW op \in {"close", "checkout", "hold", "refund"}, EnterSession(r, op, s)
        PROVE  FrontRows' /\ Locks'
    <3>1. UNCHANGED <<terminals, sessions, holds, tillSales>>
      BY <2>1 DEF EnterSession
    <3>2. PICK n \in RequestRow :
              /\ request' = [request EXCEPT ![r] = n] /\ n.op = op /\ n.session = s /\ n.sale = 0
              /\ s # 0 /\ sessions[s].status = "OPEN" /\ \A q \in Request : request[q].session # s
      BY <2>1, EnterEffect
    <3>3. LockChange(r, n)
      BY <3>1, <3>2 DEF LockChange, SessionHeld, SaleHeld
    <3>4. FrontRows'
      BY <1>1, <3>1 DEF FrontRows
    <3>5. QED
      BY <1>1, <3>3, <3>4, LocksAfterChange
  <2>2. ASSUME NEW counted \in Floats, close_session(r, counted) PROVE FrontRows' /\ Locks'
    <3>1. UNCHANGED <<terminals, holds, tillSales>> /\ request' = [request EXCEPT ![r] = Idle]
      BY <2>2 DEF close_session
    <3>2. /\ sessions' \in Seq(SessionRow)
          /\ \A s \in DOMAIN sessions : /\ s \in DOMAIN sessions'
                                        /\ s # request[r].session => sessions'[s] = sessions[s]
      BY <2>2, CloseSessionEffect
    <3>3. FrontRows'
      BY <1>1, <3>1, <3>2 DEF FrontRows
    <3>4. QED
      BY <2>0, <3>1, <3>2, <3>3
  <2>3. ASSUME NEW cart \in Cart, NEW payments \in PaymentsOffered, NEW d \in Date, checkout(r, cart, payments, d)
        PROVE  FrontRows' /\ Locks'
    <3>1. PICK sale \in SaleRow : \E rows : CheckoutChange(r, sale, rows)
      BY <2>3, CheckoutEffect
    <3>2. /\ UNCHANGED <<terminals, sessions, holds>> /\ request' = [request EXCEPT ![r] = Idle]
          /\ tillSales' = Append(tillSales, sale)
      BY <3>1 DEF CheckoutChange
    <3>3. \A i \in DOMAIN tillSales : i \in DOMAIN tillSales' /\ tillSales'[i] = tillSales[i]
      BY <1>1, <3>2, Appended
    <3>4. FrontRows'
      BY <1>1, <3>2 DEF FrontRows
    <3>5. QED
      BY <2>0, <3>2, <3>3, <3>4
  <2>4. ASSUME NEW cart \in Cart, hold(r, cart) PROVE FrontRows' /\ Locks'
    <3>1. /\ UNCHANGED <<terminals, sessions, tillSales>> /\ request' = [request EXCEPT ![r] = Idle]
          /\ holds' = Append(holds, [session |-> request[r].session, cart |-> cart, resumed |-> 0])
      BY <2>4 DEF hold
    <3>2. PICK row : row = [session |-> request[r].session, cart |-> cart, resumed |-> 0]
      OBVIOUS
    <3>3. request[r] \in RequestRow
      BY TillFacts
    <3>4. row \in HeldSaleRow
      BY <3>2, <3>3 DEF HeldSaleRow, RequestRow
    <3>5. holds' \in Seq(HeldSaleRow)
      BY <1>1, <3>1, <3>2, <3>4, Appended DEF FrontRows
    <3>6. FrontRows'
      BY <1>1, <3>1, <3>5 DEF FrontRows
    <3>7. QED
      BY <2>0, <3>1, <3>6
  <2>5. ASSUME NEW h \in DOMAIN holds, LockHeld(r, h) PROVE FrontRows' /\ Locks'
    <3>1. UNCHANGED <<terminals, sessions, holds, tillSales>>
      BY <2>5 DEF LockHeld
    <3>2. PICK n : n = [Idle EXCEPT !.op = "resume", !.held = h]
      OBVIOUS
    <3>3. h \in Nat
      BY <1>1, RowsFinite DEF FrontRows
    <3>4. n \in RequestRow /\ n.op = "resume" /\ n.session = 0 /\ n.sale = 0
      BY <3>2, <3>3 DEF Idle, RequestRow, NoSale
    <3>5. request' = [request EXCEPT ![r] = n]
      BY <2>5, <3>2 DEF LockHeld
    <3>6. LockChange(r, n)
      BY <3>1, <3>4, <3>5 DEF LockChange, SessionHeld, SaleHeld
    <3>7. FrontRows'
      BY <1>1, <3>1 DEF FrontRows
    <3>8. QED
      BY <1>1, <3>6, <3>7, LocksAfterChange
  <2>6. CASE resume(r)
    <3>1. PICK h : h = request[r].held
      OBVIOUS
    <3>2. /\ UNCHANGED <<terminals, sessions, tillSales>> /\ request' = [request EXCEPT ![r] = Idle]
          /\ holds' = [holds EXCEPT ![h].resumed = @ + 1]
      BY <2>6, <3>1 DEF resume
    <3>3. holds' \in Seq(HeldSaleRow)
      <4>1. holds \in Seq(HeldSaleRow)
        BY <1>1 DEF FrontRows
      <4>2. CASE h \in DOMAIN holds
        <5>1. PICK row \in HeldSaleRow : row = holds[h]
          BY <4>1, <4>2, RowsFinite
        <5>2. [row EXCEPT !.resumed = @ + 1] \in HeldSaleRow
          BY DEF HeldSaleRow
        <5>3. PICK new \in HeldSaleRow : new = [row EXCEPT !.resumed = @ + 1]
          BY <5>2
        <5>4. holds' = [holds EXCEPT ![h] = new]
          BY <3>2, <4>2, <5>1, <5>3
        <5>5. QED
          BY <4>1, <4>2, <5>4, Replaced
      <4>3. CASE h \notin DOMAIN holds
        <5>1. holds = [x \in DOMAIN holds |-> holds[x]]
          BY <4>1
        <5>2. DOMAIN holds' = DOMAIN holds /\ \A x \in DOMAIN holds : holds'[x] = holds[x]
          BY <3>2, <4>3
        <5>3. holds' = [x \in DOMAIN holds |-> holds[x]]
          BY <3>2, <4>3
        <5>4. QED
          BY <4>1, <5>1, <5>3
      <4>4. QED
        BY <4>2, <4>3
    <3>4. FrontRows'
      BY <1>1, <3>2, <3>3 DEF FrontRows
    <3>5. QED
      BY <2>0, <3>2, <3>4
  <2>7. ASSUME NEW i \in DOMAIN tillSales, LockSale(r, i) PROVE FrontRows' /\ Locks'
    <3>1. UNCHANGED <<terminals, sessions, holds, tillSales>>
      BY <2>7 DEF LockSale
    <3>2. PICK q \in RequestRow : q = request[r]
      BY TillFacts
    <3>3. PICK sale \in SaleRow : sale = tillSales[i]
      BY TillFacts
    <3>4. PICK n : n = [q EXCEPT !.sale = i, !.read = sale]
      OBVIOUS
    <3>5. i \in Nat
      BY <1>1, RowsFinite
    <3>6. n \in RequestRow /\ n.op = q.op /\ n.session = q.session /\ n.sale = i /\ n.read = sale
      <4>1. q = [op |-> q.op, session |-> q.session, expected |-> q.expected, sale |-> q.sale, read |-> q.read,
                 held |-> q.held]
            /\ q.op \in {"idle", "close", "checkout", "hold", "refund", "resume"} /\ q.session \in Nat
            /\ q.expected \in Nat /\ q.held \in Nat
        BY DEF RequestRow
      <4>2. n = [op |-> q.op, session |-> q.session, expected |-> q.expected, sale |-> i, read |-> sale,
                 held |-> q.held]
        BY <3>4, <4>1
      <4>3. QED
        BY <3>5, <4>1, <4>2 DEF RequestRow
    <3>7. request' = [request EXCEPT ![r] = n]
      BY <2>7, <3>2, <3>3, <3>4 DEF LockSale
    <3>8. q.op = "refund" /\ \A x \in Request : request[x].sale # i
      BY <2>7, <3>2 DEF LockSale, SaleFree
    <3>9. SessionHeld(n, sessions')
      BY <1>1, <3>1, <3>2, <3>6 DEF Locks, SessionLocks, SessionHeld
    <3>10. n.session # 0 /\ \A x \in Request \ {r} : request[x].session # n.session
      BY <1>1, <3>2, <3>6, <3>8 DEF Locks, SessionLocks
    <3>11. LockChange(r, n)
      BY <3>1, <3>3, <3>6, <3>7, <3>8, <3>9, <3>10 DEF LockChange, SaleHeld
    <3>12. FrontRows'
      BY <1>1, <3>1 DEF FrontRows
    <3>13. QED
      BY <1>1, <3>11, <3>12, LocksAfterChange
  <2>8. ASSUME request[r].sale # 0, NEW qty \in RefundParts(request[r].read), NEW d \in Date, refund(r, qty, d)
        PROVE  FrontRows' /\ Locks'
    <3>1. PICK rows : RefundChange(r, qty, rows)
      BY <2>8, RefundEffect
    <3>2. UNCHANGED <<terminals, sessions, holds>> /\ request' = [request EXCEPT ![r] = Idle]
      BY <3>1 DEF RefundChange
    <3>3. PICK i, sale, new : i = request[r].sale /\ sale = tillSales[i]
                              /\ new = RefundedSale(sale, qty, Repaid(qty, sale.lines))
      OBVIOUS
    <3>4. i \in DOMAIN tillSales /\ tillSales' = [tillSales EXCEPT ![i] = new]
      BY <3>1, <3>3 DEF RefundChange
    <3>5. \A j \in DOMAIN tillSales : /\ j \in DOMAIN tillSales'
                                      /\ j # request[r].sale => tillSales'[j] = tillSales[j]
      BY <3>3, <3>4
    <3>6. FrontRows'
      BY <1>1, <3>2 DEF FrontRows
    <3>7. QED
      BY <2>0, <3>2, <3>5, <3>6
  <2>9. CASE Rollback(r)
    <3>1. UNCHANGED <<terminals, sessions, holds, tillSales>> /\ request' = [request EXCEPT ![r] = Idle]
      BY <2>9 DEF Rollback
    <3>2. FrontRows'
      BY <1>1, <3>1 DEF FrontRows
    <3>3. QED
      BY <2>0, <3>1, <3>2
  <2>10. QED
    BY <1>7, <2>1, <2>2, <2>3, <2>4, <2>5, <2>6, <2>7, <2>8, <2>9 DEF TillStep
<1>8. QED
  BY <1>2, <1>3, <1>4, <1>5, <1>6, <1>7 DEF Next

\* The constraints of the tables hold: a transaction that breaks one does not commit.
LEMMA ChecksKept ==
  ASSUME Tills, [Next]_vars
  PROVE  TillChecks'
<1>1. CASE UNCHANGED vars
  BY <1>1 DEF Tills, vars, tills, books, TillChecks, ProductChecks, CurrentCost, SessionChecks, HeldSaleKeys, SaleChecks,
              SalePaymentChecks, SaleLineChecks, SaleReturnKeys, SaleReturnLineChecks
<1>2. CASE Next
  BY <1>2 DEF Next
<1>3. QED
  BY <1>1, <1>2

LEMMA TillsKept ==
  ASSUME Tills, [Next]_vars
  PROVE  Tills'
<1>1. TradeStep
  BY TradeSteps
<1>2. FrontRows' /\ Locks' /\ TillChecks'
  BY FrontKept, ChecksKept
<1>3. /\ tillSales' \in Seq(SaleRow) /\ tillReturns' \in Seq(SaleReturnRow)
      /\ arrivals' \in Seq([warehouse : Warehouse, product : Tracked, qty : Nat]) /\ PaidInFull'
  BY <1>1, TradeRowsKept
<1>4. BooksRows' /\ Registered'
  BY <1>1, BooksKept
<1>5. TypeOK'
  BY <1>2, <1>3, <1>4 DEF TypeOK, TillRows, FrontRows
<1>6. QED
  BY <1>2, <1>3, <1>4, <1>5 DEF Tills, Locks

LEMMA TillsInit ==
  ASSUME Init
  PROVE  Tills
<1>1. BooksRows /\ IsFiniteSet(register) /\ register = {} /\ ProductChecks
  <2>1. OpeningStock \in Nat /\ OpeningCost \in Nat
    BY BooksAssumption
  <2>2. /\ balance \in [SystemAccount -> Int] /\ onHand \in [Warehouse -> [Product -> Int]]
        /\ costPrice \in [Product -> Seq(Nat) \ {<<>>}] /\ \A p \in Product : CurrentCost(p) = OpeningCost
        /\ register = {} /\ returns = <<>>
    BY <2>1 DEF Init, BooksInit, CurrentCost
  <2>3. QED
    BY <2>1, <2>2, FS_EmptySet DEF BooksRows, ProductChecks
<1>2. /\ DOMAIN terminals = {} /\ sessions = <<>> /\ tillSales = <<>> /\ tillReturns = <<>> /\ holds = <<>>
      /\ arrivals = <<>> /\ request = [r \in Request |-> Idle]
  BY DEF Init
<1>3. /\ sessions \in Seq(SessionRow) /\ tillSales \in Seq(SaleRow) /\ tillReturns \in Seq(SaleReturnRow)
      /\ holds \in Seq(HeldSaleRow) /\ arrivals \in Seq([warehouse : Warehouse, product : Tracked, qty : Nat])
      /\ DOMAIN sessions = {} /\ DOMAIN tillSales = {} /\ DOMAIN tillReturns = {} /\ DOMAIN holds = {}
  BY <1>2
<1>4. TypeOK
  BY <1>1, <1>2, <1>3 DEF TypeOK, TillRows
<1>5. TillChecks
  BY <1>1, <1>3 DEF TillChecks
<1>6. request \in [Request -> RequestRow] /\ SessionLocks /\ SaleLocks
  BY <1>2, IdleRow DEF SessionLocks, SaleLocks
<1>7. PaidInFull /\ Registered
  BY <1>1, <1>3 DEF PaidInFull, Registered
<1>8. QED
  BY <1>4, <1>5, <1>6, <1>7 DEF Tills

-----------------------------------------------------------------------------
(* The count of a closed session stays true *)

CashOf(sales, s) == SumFunction([i \in {i \in DOMAIN sales : sales[i].session = s} |-> CashTaken(sales[i])])

LEMMA CashNetIs ==
  ASSUME NEW s
  PROVE  cash_net(s) = CashOf(tillSales, s) /\ cash_net(s)' = CashOf(tillSales', s)
BY DEF cash_net, SalesOf, CashOf, CashTaken

\* The cash depends on the session and payments of the sales of the session.
LEMMA CashSame ==
  ASSUME NEW sales, NEW new, NEW s,
         \A i \in DOMAIN sales : i \in DOMAIN new /\ new[i].session = sales[i].session
                                 /\ new[i].payments = sales[i].payments,
         \A i \in DOMAIN new \ DOMAIN sales : new[i].session # s
  PROVE  CashOf(new, s) = CashOf(sales, s)
<1>1. PICK I, J : I = {i \in DOMAIN sales : sales[i].session = s} /\ J = {i \in DOMAIN new : new[i].session = s}
  OBVIOUS
<1>2. J = I
  BY <1>1
<1>3. \A i \in I : CashTaken(new[i]) = CashTaken(sales[i])
  BY <1>1 DEF CashTaken
<1>4. PICK f, g : f = [i \in I |-> CashTaken(sales[i])] /\ g = [i \in J |-> CashTaken(new[i])]
  OBVIOUS
<1>5. g = f
  BY <1>2, <1>3, <1>4
<1>6. CashOf(new, s) = SumFunction(g) /\ CashOf(sales, s) = SumFunction(f)
  BY <1>1, <1>4 DEF CashOf
<1>7. QED
  BY <1>5, <1>6

\* Only a checkout adds to the cash of a session, and it has locked the session.
LEMMA CashKept ==
  ASSUME Tills, TradeStep, NEW s, \A r \in Request : request[r].op = "checkout" => request[r].session # s
  PROVE  cash_net(s)' = cash_net(s)
<1>1. tillSales \in Seq(SaleRow)
  BY TillFacts
<1>2. /\ \A i \in DOMAIN tillSales : /\ i \in DOMAIN tillSales' /\ tillSales'[i].session = tillSales[i].session
                                     /\ tillSales'[i].payments = tillSales[i].payments
      /\ \A i \in DOMAIN tillSales' \ DOMAIN tillSales : tillSales'[i].session # s
  <2>1. CASE tillSales' = tillSales
    BY <2>1
  <2>2. ASSUME NEW r \in Request, NEW sale \in SaleRow, NEW rows, CheckoutChange(r, sale, rows)
        PROVE  /\ \A i \in DOMAIN tillSales : /\ i \in DOMAIN tillSales' /\ tillSales'[i].session = tillSales[i].session
                                              /\ tillSales'[i].payments = tillSales[i].payments
               /\ \A i \in DOMAIN tillSales' \ DOMAIN tillSales : tillSales'[i].session # s
    <3>1. tillSales' = Append(tillSales, sale) /\ sale.session # s
      BY <2>2 DEF CheckoutChange
    <3>2. /\ DOMAIN tillSales' = DOMAIN tillSales \cup {Len(tillSales) + 1}
          /\ \A i \in DOMAIN tillSales : tillSales'[i] = tillSales[i]
          /\ tillSales'[Len(tillSales) + 1] = sale
      BY <1>1, <3>1, Appended
    <3>3. QED
      BY <3>1, <3>2
  <2>3. ASSUME NEW r \in Request, NEW qty, NEW rows, RefundChange(r, qty, rows)
        PROVE  /\ \A i \in DOMAIN tillSales : /\ i \in DOMAIN tillSales' /\ tillSales'[i].session = tillSales[i].session
                                              /\ tillSales'[i].payments = tillSales[i].payments
               /\ \A i \in DOMAIN tillSales' \ DOMAIN tillSales : tillSales'[i].session # s
    <3>1. PICK i, sale : i = request[r].sale /\ sale = tillSales[i]
      OBVIOUS
    <3>2. PICK new, doc :
              /\ new = RefundedSale(sale, qty, Repaid(qty, sale.lines))
              /\ doc = [sale |-> i, session |-> request[r].session, qty |-> qty, amount |-> Repaid(qty, sale.lines)]
      OBVIOUS
    <3>3. /\ i \in DOMAIN tillSales /\ tillSales' = [tillSales EXCEPT ![i] = new]
          /\ new.session = sale.session /\ new.payments = sale.payments
      BY <2>3, <3>1, <3>2, RefundRows DEF RefundedRows
    <3>4. QED
      BY <1>1, <3>1, <3>3
  <2>4. QED
    BY <2>1, <2>2, <2>3 DEF TradeStep, SameTrade, ArriveChange
<1>3. PICK sales, new : sales = tillSales /\ new = tillSales'
  OBVIOUS
<1>4. CashOf(new, s) = CashOf(sales, s)
  BY <1>2, <1>3, CashSame
<1>5. QED
  BY <1>3, <1>4, CashNetIs

Counted == Counts /\ ClosedCountIsFinal

\* A session no checkout has locked keeps its cash: closed sessions, and those being counted.
LEMMA CountedCash ==
  ASSUME Tills, TradeStep, NEW s \in DOMAIN sessions,
         \/ sessions[s].status = "CLOSED"
         \/ \E r \in Request : request[r].op = "close" /\ request[r].session = s
  PROVE  cash_net(s)' = cash_net(s)
<1>0. s # 0
  <2>1. sessions \in Seq(SessionRow)
    BY TillFacts
  <2>2. QED
    BY <2>1
<1>1. \A r \in Request : request[r].op = "checkout" => request[r].session # s
  BY <1>0 DEF Tills, SessionLocks
<1>2. QED
  BY <1>1, CashKept

\* Steps that leave the sessions alone and start no count.
LEMMA CountedQuiet ==
  ASSUME Tills, TradeStep, Counted, sessions' = sessions,
         \A r \in Request : request'[r].op = "close" => request'[r] = request[r]
  PROVE  Counted'
<1>1. ASSUME NEW r \in Request, NEW s \in DOMAIN sessions, request'[r].op = "close", request'[r].session = s
      PROVE  request'[r].expected = sessions'[s].float + cash_net(s)'
  <2>1. request'[r] = request[r] /\ cash_net(s)' = cash_net(s)
    BY <1>1, CountedCash
  <2>2. QED
    BY <1>1, <2>1 DEF Counted, Counts
<1>2. Counts'
  BY <1>1 DEF Counts
<1>3. ASSUME NEW s \in DOMAIN sessions, sessions[s].status = "CLOSED"
      PROVE  sessions'[s].expected = sessions'[s].float + cash_net(s)'
  <2>1. cash_net(s)' = cash_net(s)
    BY <1>3, CountedCash
  <2>2. QED
    BY <1>3, <2>1 DEF Counted, ClosedCountIsFinal
<1>4. ClosedCountIsFinal'
  BY <1>3 DEF Counted, ClosedCountIsFinal
<1>5. QED
  BY <1>2, <1>4 DEF Counted

LEMMA CountedKept ==
  ASSUME Tills, Counted, [Next]_vars
  PROVE  Counted'
<1>1. TradeStep /\ sessions \in Seq(SessionRow) /\ request \in [Request -> RequestRow] /\ FrontRows
  BY TradeSteps, TillFacts DEF Tills, TypeOK, TillRows, FrontRows
<1>2. ASSUME NEW r \in Request, sessions' = sessions, request' = [request EXCEPT ![r] = Idle] PROVE Counted'
  <2>1. \A q \in Request : request'[q].op = "close" => request'[q] = request[q]
    BY <1>1, <1>2, IdleRow
  <2>2. QED
    BY <1>1, <1>2, <2>1, CountedQuiet
<1>3. ASSUME UNCHANGED <<sessions, request>> PROVE Counted'
  BY <1>1, <1>3, CountedQuiet
<1>4. ASSUME NEW t \in DOMAIN terminals, NEW float \in Floats, open_session(t, float) PROVE Counted'
  <2>1. PICK row : row = [terminal |-> t, status |-> "OPEN", float |-> float, expected |-> 0, variance |-> 0]
    OBVIOUS
  <2>2. PICK k : k = Len(sessions) + 1
    OBVIOUS
  <2>3. /\ DOMAIN sessions' = DOMAIN sessions \cup {k} /\ k \notin DOMAIN sessions
        /\ \A s \in DOMAIN sessions : sessions'[s] = sessions[s]
        /\ sessions'[k] = row
    BY <1>1, <1>4, <2>1, <2>2, OpenSessionEffect
  <2>4. request' = request /\ FreeTerminal(t)
    BY <1>4 DEF open_session
  <2>5. row.status = "OPEN" /\ row.terminal = t
    BY <2>1
  <2>6. Counts'
    <3>1. ASSUME NEW r \in Request, NEW s \in DOMAIN sessions', request'[r].op = "close", request'[r].session = s
          PROVE  request'[r].expected = sessions'[s].float + cash_net(s)'
      <4>1. s \in DOMAIN sessions
        BY <2>4, <3>1 DEF Tills, SessionLocks
      <4>2. cash_net(s)' = cash_net(s)
        BY <1>1, <2>4, <3>1, <4>1, CountedCash
      <4>3. QED
        BY <2>3, <2>4, <3>1, <4>1, <4>2 DEF Counted, Counts
    <3>2. QED
      BY <3>1 DEF Counts
  <2>7. ClosedCountIsFinal'
    <3>1. ASSUME NEW s \in DOMAIN sessions', sessions'[s].status = "CLOSED"
          PROVE  sessions'[s].expected = sessions'[s].float + cash_net(s)'
      <4>1. s \in DOMAIN sessions /\ sessions[s].status = "CLOSED"
        BY <2>3, <2>5, <3>1
      <4>2. cash_net(s)' = cash_net(s)
        BY <1>1, <4>1, CountedCash
      <4>3. QED
        BY <2>3, <4>1, <4>2 DEF Counted, ClosedCountIsFinal
    <3>2. ASSUME NEW s \in DOMAIN sessions', NEW u \in DOMAIN sessions', sessions'[s].status = "OPEN",
                 sessions'[u].status = "OPEN", sessions'[s].terminal = sessions'[u].terminal
          PROVE  s = u
      <4>1. \A x \in DOMAIN sessions : sessions[x].terminal = t => sessions[x].status = "CLOSED"
        BY <2>4 DEF FreeTerminal
      <4>2. QED
        BY <2>3, <2>5, <3>2, <4>1 DEF Counted, ClosedCountIsFinal
    <3>3. QED
      BY <3>1, <3>2 DEF ClosedCountIsFinal
  <2>8. QED
    BY <2>6, <2>7 DEF Counted
<1>5. ASSUME NEW r \in Request, NEW s \in DOMAIN sessions, NEW op \in {"close", "checkout", "hold", "refund"},
             EnterSession(r, op, s)
      PROVE  Counted'
  <2>1. sessions' = sessions /\ tillSales' = tillSales
    BY <1>5 DEF EnterSession
  <2>2. PICK n \in RequestRow :
            /\ request' = [request EXCEPT ![r] = n] /\ n.op = op /\ n.session = s
            /\ op = "close" => n.expected = sessions[s].float + cash_net(s)
    BY <1>5, EnterEffect
  <2>3. \A x : cash_net(x)' = cash_net(x)
    BY <2>1, CashNetIs
  <2>4. ASSUME NEW q \in Request, NEW x \in DOMAIN sessions, request'[q].op = "close", request'[q].session = x
        PROVE  request'[q].expected = sessions'[x].float + cash_net(x)'
    <3>1. CASE q = r
      <4>1. request'[q] = n
        BY <1>1, <2>2, <3>1
      <4>2. QED
        BY <2>1, <2>2, <2>3, <2>4, <4>1
    <3>2. CASE q # r
      <4>1. request'[q] = request[q]
        BY <1>1, <2>2, <3>2
      <4>2. QED
        BY <2>1, <2>3, <2>4, <4>1 DEF Counted, Counts
    <3>3. QED
      BY <3>1, <3>2
  <2>5. Counts'
    BY <2>1, <2>4 DEF Counts
  <2>6. ClosedCountIsFinal'
    BY <2>1, <2>3 DEF Counted, ClosedCountIsFinal
  <2>7. QED
    BY <2>5, <2>6 DEF Counted
<1>6. ASSUME NEW r \in Request, NEW counted \in Floats, close_session(r, counted) PROVE Counted'
  <2>1. PICK s : s = request[r].session
    OBVIOUS
  <2>2. /\ request[r].op = "close" /\ s # 0 /\ s \in DOMAIN sessions
        /\ DOMAIN sessions' = DOMAIN sessions
        /\ sessions'[s].status = "CLOSED" /\ sessions'[s].terminal = sessions[s].terminal
        /\ sessions'[s].float = sessions[s].float /\ sessions'[s].expected = request[r].expected
        /\ \A u \in DOMAIN sessions : u # s => sessions'[u] = sessions[u]
    BY <1>6, <2>1, CloseSessionEffect
  <2>3. request' = [request EXCEPT ![r] = Idle] /\ tillSales' = tillSales
    BY <1>6 DEF close_session
  <2>4. \A x : cash_net(x)' = cash_net(x)
    BY <2>3, CashNetIs
  <2>5. ASSUME NEW q \in Request, NEW x \in DOMAIN sessions, request'[q].op = "close", request'[q].session = x
        PROVE  request'[q].expected = sessions'[x].float + cash_net(x)'
    <3>1. q # r /\ request'[q] = request[q]
      BY <1>1, <2>3, <2>5, IdleRow
    <3>2. x # s
      BY <2>1, <2>2, <2>5, <3>1 DEF Tills, SessionLocks
    <3>3. QED
      BY <2>2, <2>4, <2>5, <3>1, <3>2 DEF Counted, Counts
  <2>6. Counts'
    BY <2>2, <2>5 DEF Counts
  <2>7. ClosedCountIsFinal'
    <3>1. ASSUME NEW x \in DOMAIN sessions, sessions'[x].status = "CLOSED"
          PROVE  sessions'[x].expected = sessions'[x].float + cash_net(x)'
      <4>1. CASE x = s
        BY <2>1, <2>2, <2>4, <4>1 DEF Counted, Counts
      <4>2. CASE x # s
        BY <2>2, <2>4, <3>1, <4>2 DEF Counted, ClosedCountIsFinal
      <4>3. QED
        BY <4>1, <4>2
    <3>2. ASSUME NEW x \in DOMAIN sessions, NEW u \in DOMAIN sessions, sessions'[x].status = "OPEN",
                 sessions'[u].status = "OPEN", sessions'[x].terminal = sessions'[u].terminal
          PROVE  x = u
      BY <2>2, <3>2 DEF Counted, ClosedCountIsFinal
    <3>3. QED
      BY <2>2, <3>1, <3>2 DEF ClosedCountIsFinal
  <2>8. QED
    BY <2>6, <2>7 DEF Counted
<1>7. ASSUME NEW r \in Request, NEW n, n.op # "close" \/ n = request[r], sessions' = sessions,
             request' = [request EXCEPT ![r] = n]
      PROVE  Counted'
  <2>1. \A q \in Request : request'[q].op = "close" => request'[q] = request[q]
    BY <1>1, <1>7
  <2>2. QED
    BY <1>1, <1>7, <2>1, CountedQuiet
<1>8. ASSUME NEW r \in Request, TillStep(r) PROVE Counted'
  <2>1. ASSUME NEW cart \in Cart, NEW payments \in PaymentsOffered, NEW d \in Date, checkout(r, cart, payments, d)
        PROVE  Counted'
    BY <1>2, <2>1 DEF checkout
  <2>2. ASSUME NEW cart \in Cart, hold(r, cart) PROVE Counted'
    BY <1>2, <2>2 DEF hold
  <2>3. ASSUME NEW h \in DOMAIN holds, LockHeld(r, h) PROVE Counted'
    <3>1. PICK n : n = [Idle EXCEPT !.op = "resume", !.held = h]
      OBVIOUS
    <3>2. n.op # "close"
      BY <3>1 DEF Idle
    <3>3. sessions' = sessions /\ request' = [request EXCEPT ![r] = n]
      BY <2>3, <3>1 DEF LockHeld
    <3>4. QED
      BY <1>7, <3>2, <3>3
  <2>4. CASE resume(r)
    BY <1>2, <2>4 DEF resume
  <2>5. ASSUME NEW i \in DOMAIN tillSales, LockSale(r, i) PROVE Counted'
    <3>1. PICK q \in RequestRow : q = request[r]
      BY TillFacts
    <3>2. PICK n : n = [q EXCEPT !.sale = i, !.read = tillSales[i]]
      OBVIOUS
    <3>3. sessions' = sessions /\ request' = [request EXCEPT ![r] = n] /\ q.op = "refund"
      BY <2>5, <3>1, <3>2 DEF LockSale
    <3>4. n.op # "close"
      BY <3>2, <3>3 DEF RequestRow
    <3>5. QED
      BY <1>7, <3>3, <3>4
  <2>6. ASSUME NEW qty, NEW d \in Date, refund(r, qty, d) PROVE Counted'
    BY <1>2, <2>6 DEF refund
  <2>7. CASE Rollback(r)
    BY <1>2, <2>7 DEF Rollback
  <2>8. QED
    BY <1>5, <1>6, <1>8, <2>1, <2>2, <2>3, <2>4, <2>5, <2>6, <2>7 DEF TillStep
<1>9. QED
  BY <1>3, <1>4, <1>8 DEF Next, vars, tills, create_terminal, update_terminal, GoodsArrive

LEMMA CountedInit ==
  ASSUME Init
  PROVE  Counted
<1>1. DOMAIN sessions = {}
  BY DEF Init
<1>2. QED
  BY <1>1 DEF Counted, Counts, ClosedCountIsFinal

TillsInvariant == Tills /\ Counted

LEMMA TillsHold == Spec => []TillsInvariant
<1>1. Init => TillsInvariant
  BY TillsInit, CountedInit DEF TillsInvariant
<1>2. TillsInvariant /\ [Next]_vars => TillsInvariant'
  BY TillsKept, CountedKept DEF TillsInvariant
<1>3. QED
  BY <1>1, <1>2, PTL DEF Spec

\* The tables of the tills keep their shape whatever requests do at once
\* (modules/pos/service.py and the constraints of its tables).
THEOREM TillsTypeCorrect == Spec => []TypeOK
<1>1. TillsInvariant => TypeOK
  BY DEF TillsInvariant, Tills
<1>2. QED
  BY <1>1, TillsHold, PTL

\* The count of a closed session stays true: no checkout in progress when the
\* drawer is counted adds a sale (_open_session and close_session).
THEOREM CountsAreFinal == Spec => []ClosedCountIsFinal
<1>1. TillsInvariant => ClosedCountIsFinal
  BY DEF TillsInvariant, Counted
<1>2. QED
  BY <1>1, TillsHold, PTL

-----------------------------------------------------------------------------
(* Refunds stay within the sale *)

Replaces(s, new, i, row) ==
    /\ i \in DOMAIN s /\ DOMAIN new = DOMAIN s /\ new[i] = row
    /\ \A j \in DOMAIN s \ {i} : new[j] = s[j]

\* What a refund adds: the return doc of quantities qty, and the sale's row after it.
Returned(i, sale, new, doc) ==
    /\ i \in DOMAIN tillSales /\ sale = tillSales[i] /\ sale \in SaleRow /\ new \in SaleRow /\ doc \in SaleReturnRow
    /\ SoldLines(sale)
    /\ doc.sale = i /\ DOMAIN doc.qty \subseteq DOMAIN sale.lines /\ doc.qty \in PerProduct(Nat \ {0})
    /\ doc.amount = Repaid(doc.qty, sale.lines)
    /\ \A p \in DOMAIN doc.qty : doc.qty[p] <= sale.lines[p].qty - sale.lines[p].refunded
    /\ new.warehouse = sale.warehouse
    /\ new.refunded = sale.refunded + doc.amount /\ DOMAIN new.lines = DOMAIN sale.lines
    /\ \A p \in DOMAIN sale.lines :
            /\ new.lines[p].refunded = sale.lines[p].refunded + On(doc.qty, p)
            /\ new.lines[p].qty = sale.lines[p].qty /\ new.lines[p].cost = sale.lines[p].cost
            /\ new.lines[p].amounts = sale.lines[p].amounts
    /\ LineAmounts(new.lines) = LineAmounts(sale.lines) /\ SaleTotal(new.lines) = SaleTotal(sale.lines)

\* A step as the tables see it: nothing, one sale more, one return more, one arrival more.
SoldStep(sale) ==
    /\ Lengthens(tillSales, tillSales', Len(tillSales) + 1, sale) /\ sale \in SaleRow
    /\ sale.refunded = 0 /\ \A p \in DOMAIN sale.lines : sale.lines[p].refunded = 0
    /\ UNCHANGED <<tillReturns, arrivals>>
    /\ \A v \in Warehouse, p \in Tracked :
            onHand'[v][p] = onHand[v][p] - IF v = sale.warehouse /\ p \in DOMAIN sale.lines
                                           THEN sale.lines[p].qty ELSE 0

ReturnedStep(i, sale, new, doc) ==
    /\ Returned(i, sale, new, doc)
    /\ Replaces(tillSales, tillSales', i, new)
    /\ Lengthens(tillReturns, tillReturns', Len(tillReturns) + 1, doc)
    /\ arrivals' = arrivals
    /\ \A v \in Warehouse, p \in Tracked :
          onHand'[v][p] = onHand[v][p] + IF v = sale.warehouse THEN On(doc.qty, p) ELSE 0

ArrivedStep(w, p, qty) ==
    /\ Lengthens(arrivals, arrivals', Len(arrivals) + 1, [warehouse |-> w, product |-> p, qty |-> qty])
    /\ w \in Warehouse /\ p \in Tracked /\ qty \in Nat /\ UNCHANGED <<tillSales, tillReturns>>
    /\ \A v \in Warehouse, x \in Tracked :
          onHand'[v][x] = onHand[v][x] + IF v = w /\ x = p THEN qty ELSE 0

LEMMA SoldSteps ==
  ASSUME Tills, NEW r \in Request, NEW sale \in SaleRow, NEW rows, CheckoutChange(r, sale, rows)
  PROVE  SoldStep(sale)
<1>1. /\ tillSales' = Append(tillSales, sale) /\ sale.refunded = 0 /\ UNCHANGED <<tillReturns, arrivals>>
      /\ \A p \in DOMAIN sale.lines : sale.lines[p].refunded = 0
      /\ \A v \in Warehouse, p \in Tracked :
            onHand'[v][p] = onHand[v][p] - IF v = sale.warehouse /\ p \in DOMAIN sale.lines
                                           THEN sale.lines[p].qty ELSE 0
  BY DEF CheckoutChange
<1>2. tillSales \in Seq(SaleRow)
  BY TillFacts
<1>3. Lengthens(tillSales, tillSales', Len(tillSales) + 1, sale)
  BY <1>1, <1>2, Appended DEF Lengthens
<1>4. QED
  BY <1>1, <1>3 DEF SoldStep

LEMMA ReturnedSteps ==
  ASSUME Tills, NEW r \in Request, NEW qty, NEW rows, RefundChange(r, qty, rows)
  PROVE  \E i, sale, new, doc : ReturnedStep(i, sale, new, doc) /\ i = request[r].sale /\ doc.qty = qty
<1>1. PICK i, sale : i = request[r].sale /\ sale = tillSales[i]
  OBVIOUS
<1>2. PICK new, doc :
          /\ new = RefundedSale(sale, qty, Repaid(qty, sale.lines))
          /\ doc = [sale |-> i, session |-> request[r].session, qty |-> qty, amount |-> Repaid(qty, sale.lines)]
  OBVIOUS
<1>12. RefundedRows(i, sale, new, doc, qty)
  BY <1>1, <1>2, RefundRows, Zenon
<1>3. /\ i \in DOMAIN tillSales /\ sale \in SaleRow /\ new \in SaleRow /\ doc \in SaleReturnRow
      /\ tillSales' = [tillSales EXCEPT ![i] = new] /\ tillReturns' = Append(tillReturns, doc)
      /\ new.refunded = sale.refunded + Repaid(qty, sale.lines)
  BY <1>12, Zenon DEF RefundedRows
<1>4. /\ arrivals' = arrivals
      /\ \A v \in Warehouse, p \in Tracked :
            onHand'[v][p] = onHand[v][p] + IF v = sale.warehouse THEN On(qty, p) ELSE 0
      /\ qty \in PerProduct(Nat \ {0}) /\ DOMAIN qty \subseteq DOMAIN sale.lines
      /\ \A p \in DOMAIN qty : qty[p] <= sale.lines[p].qty - sale.lines[p].refunded
  BY <1>1 DEF RefundChange
<1>5. doc.sale = i /\ doc.qty = qty /\ doc.amount = Repaid(qty, sale.lines)
  BY <1>2
<1>6. tillSales \in Seq(SaleRow) /\ tillReturns \in Seq(SaleReturnRow) /\ SoldLines(sale)
  BY <1>1, <1>3, TillFacts
<1>7. Returned(i, sale, new, doc)
  BY <1>1, <1>4, <1>5, <1>6, <1>12, Zenon DEF Returned, RefundedRows
<1>8. Replaces(tillSales, tillSales', i, new)
  BY <1>3, <1>6, Replaced DEF Replaces
<1>9. Lengthens(tillReturns, tillReturns', Len(tillReturns) + 1, doc)
  BY <1>3, <1>6, Appended DEF Lengthens
<1>10. ReturnedStep(i, sale, new, doc)
  BY <1>4, <1>5, <1>7, <1>8, <1>9 DEF ReturnedStep
<1>11. QED
  BY <1>1, <1>5, <1>10

LEMMA ArrivedSteps ==
  ASSUME Tills, NEW w, NEW p, NEW qty, ArriveChange(w, p, qty)
  PROVE  ArrivedStep(w, p, qty)
<1>1. /\ arrivals' = Append(arrivals, [warehouse |-> w, product |-> p, qty |-> qty])
      /\ UNCHANGED <<tillSales, tillReturns>> /\ w \in Warehouse /\ p \in Tracked /\ qty \in Nat
      /\ \A v \in Warehouse, x \in Tracked :
            onHand'[v][x] = onHand[v][x] + IF v = w /\ x = p THEN qty ELSE 0
  BY DEF ArriveChange
<1>2. arrivals \in Seq([warehouse : Warehouse, product : Tracked, qty : Nat])
  BY DEF Tills, TypeOK, TillRows
<1>3. PICK row \in [warehouse : Warehouse, product : Tracked, qty : Nat] : row = [warehouse |-> w, product |-> p, qty |-> qty]
  BY <1>1
<1>4. Lengthens(arrivals, arrivals', Len(arrivals) + 1, row)
  BY <1>1, <1>2, <1>3, Appended DEF Lengthens
<1>5. QED
  BY <1>1, <1>3, <1>4 DEF ArrivedStep

TableStep ==
    \/ UNCHANGED <<tillSales, tillReturns, arrivals, onHand>>
    \/ \E sale : SoldStep(sale)
    \/ \E i, sale, new, doc : ReturnedStep(i, sale, new, doc)
    \/ \E w, p, qty : ArrivedStep(w, p, qty)

LEMMA TableSteps ==
  ASSUME Tills, TradeStep
  PROVE  TableStep
BY SoldSteps, ReturnedSteps, ArrivedSteps DEF TradeStep, SameTrade, books, TableStep

\* Counters on the lines and on the sale, and the returns they count.
LineBack(sale) == [p \in DOMAIN sale.lines |-> sale.lines[p].refunded]
InMoney(amount) == [x \in {"amount"} |-> amount]
LinesBack(sales) == [i \in DOMAIN sales |-> LineBack(sales[i])]
MoneyBack(sales) == [i \in DOMAIN sales |-> InMoney(sales[i].refunded)]
SaleKeys(docs) == [d \in DOMAIN docs |-> docs[d].sale]
QtyBack(docs) == [d \in DOMAIN docs |-> docs[d].qty]
AmountBack(docs) == [d \in DOMAIN docs |-> InMoney(docs[d].amount)]

TalliedBy(sales, docs) ==
    /\ Tally(LinesBack(sales), SaleKeys(docs), QtyBack(docs))
    /\ Tally(MoneyBack(sales), SaleKeys(docs), AmountBack(docs))

LEMMA TalliedKept ==
  ASSUME Tills, TableStep, TalliedBy(tillSales, tillReturns)
  PROVE  TalliedBy(tillSales', tillReturns')
<1>1. PICK S, D, T, E : S = tillSales /\ D = tillReturns /\ T = tillSales' /\ E = tillReturns'
  OBVIOUS
<1>2. TalliedBy(S, D) /\ IsFiniteSet(DOMAIN D) /\ D \in Seq(SaleReturnRow)
      /\ \A d \in DOMAIN D : D[d] \in SaleReturnRow /\ D[d].sale \in DOMAIN S
  <2>1. D \in Seq(SaleReturnRow)
    BY <1>1, TillFacts
  <2>2. \A d \in DOMAIN D : D[d].sale \in DOMAIN S
    BY <1>1 DEF Tills, TillChecks, SaleReturnKeys
  <2>3. QED
    BY <1>1, <2>1, <2>2, RowsFinite
<1>3. PICK key, q, a : key = SaleKeys(D) /\ q = QtyBack(D) /\ a = AmountBack(D)
  OBVIOUS
<1>4. /\ DOMAIN key = DOMAIN D /\ DOMAIN q = DOMAIN D /\ DOMAIN a = DOMAIN D
      /\ \A d \in DOMAIN D : key[d] = D[d].sale /\ q[d] = D[d].qty /\ a[d] = InMoney(D[d].amount)
  BY <1>3 DEF SaleKeys, QtyBack, AmountBack
<1>5. \A d \in DOMAIN D : Countable(q[d]) /\ Countable(a[d])
  <2> SUFFICES ASSUME NEW d \in DOMAIN D PROVE Countable(q[d]) /\ Countable(a[d])
    OBVIOUS
  <2>1. D[d].qty \in PerProduct(Nat \ {0}) /\ D[d].amount \in Nat
    BY <1>2 DEF SaleReturnRow
  <2>2. \A p \in DOMAIN D[d].qty : D[d].qty[p] \in Nat
    BY <2>1, OnProducts
  <2>3. QED
    BY <1>4, <2>1, <2>2 DEF Countable, On, InMoney
<1>6. PICK c, m : c = LinesBack(S) /\ m = MoneyBack(S)
  OBVIOUS
<1>7. /\ DOMAIN c = DOMAIN S /\ DOMAIN m = DOMAIN S
      /\ \A i \in DOMAIN S : /\ c[i] = LineBack(S[i])
                             /\ m[i] = InMoney(S[i].refunded)
  BY <1>6 DEF LinesBack, MoneyBack
<1>8. Tally(c, key, q) /\ Tally(m, key, a)
  BY <1>2, <1>3, <1>6 DEF TalliedBy
<1>9. CASE T = S /\ E = D
  BY <1>2, <1>9, <1>1
<1>10. ASSUME NEW sale, SoldStep(sale) PROVE TalliedBy(T, E)
  <2>1. PICK k : k = Len(tillSales) + 1
    OBVIOUS
  <2>2. /\ k \notin DOMAIN S /\ DOMAIN T = DOMAIN S \cup {k} /\ \A i \in DOMAIN S : T[i] = S[i]
        /\ T[k] = sale /\ E = D /\ sale.refunded = 0 /\ \A p \in DOMAIN sale.lines : sale.lines[p].refunded = 0
    BY <1>1, <1>10, <2>1 DEF SoldStep, Lengthens
  <2>3. PICK c2, m2 : c2 = LinesBack(T) /\ m2 = MoneyBack(T)
    OBVIOUS
  <2>4. /\ DOMAIN c2 = DOMAIN T /\ DOMAIN m2 = DOMAIN T
        /\ \A i \in DOMAIN T : /\ c2[i] = LineBack(T[i])
                               /\ m2[i] = InMoney(T[i].refunded)
    BY <2>3 DEF LinesBack, MoneyBack
  <2>5. Opens(c, c2, k) /\ Opens(m, m2, k)
    <3>1. k \notin DOMAIN c /\ DOMAIN c2 = DOMAIN c \cup {k} /\ k \notin DOMAIN m /\ DOMAIN m2 = DOMAIN m \cup {k}
      BY <1>7, <2>2, <2>4
    <3>2. \A i \in DOMAIN S : c2[i] = c[i] /\ m2[i] = m[i]
      BY <1>7, <2>2, <2>4
    <3>3. k \in DOMAIN T /\ c2[k] = LineBack(sale) /\ m2[k] = InMoney(sale.refunded)
      BY <2>2, <2>4
    <3>4. (\A p \in DOMAIN c2[k] : c2[k][p] = 0) /\ \A p \in DOMAIN m2[k] : m2[k][p] = 0
      BY <2>2, <3>3 DEF LineBack, InMoney
    <3>5. QED
      BY <1>7, <3>1, <3>2, <3>4 DEF Opens
  <2>6. \A j \in DOMAIN key : key[j] \in DOMAIN c /\ key[j] \in DOMAIN m
    BY <1>2, <1>4, <1>7
  <2>7. Tally(c2, key, q) /\ Tally(m2, key, a)
    BY <1>8, <2>5, <2>6, TallyOpened
  <2>8. QED
    BY <1>3, <2>2, <2>3, <2>7 DEF TalliedBy
<1>11. ASSUME NEW i, NEW sale, NEW new, NEW doc, ReturnedStep(i, sale, new, doc) PROVE TalliedBy(T, E)
  <2>1. PICK k : k = Len(tillReturns) + 1
    OBVIOUS
  <2>2. /\ i \in DOMAIN S /\ sale = S[i] /\ doc \in SaleReturnRow /\ doc.sale = i
        /\ DOMAIN doc.qty \subseteq DOMAIN sale.lines /\ doc.qty \in PerProduct(Nat \ {0})
        /\ new.refunded = sale.refunded + doc.amount /\ DOMAIN new.lines = DOMAIN sale.lines
        /\ \A p \in DOMAIN sale.lines : new.lines[p].refunded = sale.lines[p].refunded + On(doc.qty, p)
        /\ DOMAIN T = DOMAIN S /\ T[i] = new /\ \A j \in DOMAIN S \ {i} : T[j] = S[j]
        /\ k \notin DOMAIN D /\ DOMAIN E = DOMAIN D \cup {k} /\ \A d \in DOMAIN D : E[d] = D[d]
        /\ E[k] = doc
    BY <1>1, <1>11, <2>1 DEF ReturnedStep, Returned, Replaces, Lengthens
  <2>3. PICK c2, m2, key2, q2, a2 :
            c2 = LinesBack(T) /\ m2 = MoneyBack(T) /\ key2 = SaleKeys(E) /\ q2 = QtyBack(E) /\ a2 = AmountBack(E)
    OBVIOUS
  <2>4. /\ DOMAIN c2 = DOMAIN T /\ DOMAIN m2 = DOMAIN T
        /\ \A j \in DOMAIN T : /\ c2[j] = LineBack(T[j])
                               /\ m2[j] = InMoney(T[j].refunded)
    BY <2>3 DEF LinesBack, MoneyBack
  <2>5. /\ DOMAIN key2 = DOMAIN E /\ DOMAIN q2 = DOMAIN E /\ DOMAIN a2 = DOMAIN E
        /\ \A d \in DOMAIN E : key2[d] = E[d].sale /\ q2[d] = E[d].qty /\ a2[d] = InMoney(E[d].amount)
    BY <2>3 DEF SaleKeys, QtyBack, AmountBack
  <2>6. PICK back, paid : back = doc.qty /\ paid = InMoney(doc.amount)
    OBVIOUS
  <2>7. Lengthens(key, key2, k, i) /\ Lengthens(q, q2, k, back) /\ Lengthens(a, a2, k, paid)
    <3>1. k \in DOMAIN E /\ key2[k] = i /\ q2[k] = back /\ a2[k] = paid
      BY <2>2, <2>5, <2>6
    <3>2. \A d \in DOMAIN D : d \in DOMAIN E /\ key2[d] = key[d] /\ q2[d] = q[d] /\ a2[d] = a[d]
      BY <1>4, <2>2, <2>5
    <3>3. k \notin DOMAIN D /\ DOMAIN E = DOMAIN D \cup {k}
      BY <2>2
    <3>4. QED
      BY <1>4, <2>5, <3>1, <3>2, <3>3 DEF Lengthens
  <2>8. /\ Countable(back) /\ Countable(paid)
        /\ \A j \in DOMAIN S : \A p \in DOMAIN S[j].lines : S[j].lines[p].refunded \in Nat
        /\ \A j \in DOMAIN S : S[j].refunded \in Nat
    <3>1. doc.qty \in PerProduct(Nat \ {0}) /\ doc.amount \in Nat
      BY <2>2 DEF SaleReturnRow
    <3>2. \A p \in DOMAIN doc.qty : doc.qty[p] \in Nat
      BY <3>1, OnProducts
    <3>3. Countable(back) /\ Countable(paid)
      BY <2>6, <3>1, <3>2 DEF Countable, On, InMoney
    <3>4. \A j \in DOMAIN S : S[j] \in SaleRow /\ S[j].lines \in PerProduct(SaleLineRow)
      BY <1>1, TillFacts
    <3>5. \A j \in DOMAIN S : \A p \in DOMAIN S[j].lines : S[j].lines[p] \in SaleLineRow
      BY <3>4, OnProducts
    <3>6. QED
      BY <3>3, <3>4, <3>5 DEF SaleRow, SaleLineRow
  <2>9. Adds(c, c2, i, back)
    <3>1. /\ DOMAIN c2 = DOMAIN c /\ \A j \in DOMAIN c : DOMAIN c2[j] = DOMAIN c[j]
      BY <1>7, <2>2, <2>4 DEF LineBack
    <3>2. ASSUME NEW j \in DOMAIN c, NEW p \in DOMAIN c[j]
          PROVE  c2[j][p] = c[j][p] + (IF j = i THEN On(back, p) ELSE 0)
      <4>1. /\ j \in DOMAIN S /\ p \in DOMAIN S[j].lines /\ c[j][p] = S[j].lines[p].refunded
            /\ p \in DOMAIN T[j].lines /\ c2[j][p] = T[j].lines[p].refunded /\ c[j][p] \in Nat
        BY <1>7, <2>2, <2>4, <2>8 DEF LineBack
      <4>2. CASE j = i
        BY <2>2, <2>6, <4>1, <4>2
      <4>3. CASE j # i
        BY <2>2, <4>1, <4>3
      <4>4. QED
        BY <4>2, <4>3
    <3>3. QED
      BY <3>1, <3>2 DEF Adds
  <2>10. Adds(m, m2, i, paid)
    <3>1. /\ DOMAIN m2 = DOMAIN m /\ \A j \in DOMAIN m : DOMAIN m2[j] = DOMAIN m[j] /\ DOMAIN m[j] = {"amount"}
      BY <1>7, <2>2, <2>4 DEF InMoney
    <3>2. ASSUME NEW j \in DOMAIN m, NEW p \in DOMAIN m[j]
          PROVE  m2[j][p] = m[j][p] + (IF j = i THEN On(paid, p) ELSE 0)
      <4>1. /\ j \in DOMAIN S /\ p = "amount" /\ m[j][p] = S[j].refunded /\ m2[j][p] = T[j].refunded /\ m[j][p] \in Nat
            /\ On(paid, p) = doc.amount
        BY <1>7, <2>2, <2>4, <2>6, <2>8 DEF On, InMoney
      <4>2. CASE j = i
        BY <2>2, <4>1, <4>2
      <4>3. CASE j # i
        BY <2>2, <4>1, <4>3
      <4>4. QED
        BY <4>2, <4>3
    <3>3. QED
      BY <3>1, <3>2 DEF Adds
  <2>11. Tally(c2, key2, q2)
    <3>1. IsFiniteSet(DOMAIN key) /\ DOMAIN q = DOMAIN key /\ \A j \in DOMAIN q : Countable(q[j])
      BY <1>2, <1>4, <1>5
    <3>2. QED
      BY <1>8, <2>7, <2>8, <2>9, <3>1, TallyAdded
  <2>12. Tally(m2, key2, a2)
    <3>1. IsFiniteSet(DOMAIN key) /\ DOMAIN a = DOMAIN key /\ \A j \in DOMAIN a : Countable(a[j])
      BY <1>2, <1>4, <1>5
    <3>2. QED
      BY <1>8, <2>7, <2>8, <2>10, <3>1, TallyAdded
  <2>13. QED
    BY <2>3, <2>11, <2>12 DEF TalliedBy
<1>12. QED
  BY <1>1, <1>9, <1>10, <1>11 DEF TableStep, ArrivedStep

\* A column of a table with one row more, and with one row replaced.
LEMMA ColumnGrows ==
  ASSUME NEW f, NEW g, NEW k, NEW v \in Int, Numbers(f), Lengthens(f, g, k, v)
  PROVE  SumFunction(g) = SumFunction(f) + v /\ SumFunction(f) \in Int /\ Numbers(g)
<1>1. /\ k \notin DOMAIN f /\ DOMAIN g = DOMAIN f \cup {k} /\ g[k] = v /\ \A x \in DOMAIN f : g[x] = f[x]
  BY DEF Lengthens
<1>2. SumFunction(g) = SumFunction(f) + g[k] /\ SumFunction(f) \in Int
  BY <1>1, SumOneMore
<1>3. IsFiniteSet(DOMAIN g)
  BY <1>1, FS_AddElement DEF Numbers
<1>4. QED
  BY <1>1, <1>2, <1>3 DEF Numbers

LEMMA ColumnChanges ==
  ASSUME NEW f, NEW g, NEW i, NEW v \in Int, Numbers(f), Replaces(f, g, i, v)
  PROVE  SumFunction(g) = SumFunction(f) - f[i] + v /\ SumFunction(f) \in Int /\ Numbers(g)
<1>1. /\ i \in DOMAIN f /\ DOMAIN g = DOMAIN f /\ g[i] = v /\ \A x \in DOMAIN f \ {i} : g[x] = f[x]
  BY DEF Replaces
<1>2. IsFiniteSet(DOMAIN f) /\ \A y \in DOMAIN f : f[y] \in Int
  BY DEF Numbers
<1>3. SumFunction(g) = SumFunction(f) - f[i] + g[i]
  BY <1>1, <1>2, SumExcept
<1>4. Numbers(g)
  BY <1>1, <1>2 DEF Numbers
<1>5. QED
  BY <1>1, <1>3, <1>4, NumbersSum

KeptColumn(sales, v, p) == [i \in DOMAIN sales |-> KeptOf(sales[i], v, p)]
ArrivedColumn(docs, v, p) == [a \in DOMAIN docs |-> IF docs[a].warehouse = v /\ docs[a].product = p THEN docs[a].qty ELSE 0]

StockFollows(on, docs, sales) ==
    \A v \in Warehouse, p \in Tracked :
        on[v][p] = OpeningStock + SumFunction(ArrivedColumn(docs, v, p)) - SumFunction(KeptColumn(sales, v, p))

LEMMA KeptType ==
  ASSUME NEW sale \in SaleRow, NEW v, NEW p
  PROVE  KeptOf(sale, v, p) \in Int
<1>1. sale.lines \in PerProduct(SaleLineRow)
  BY DEF SaleRow
<1>2. \A x \in DOMAIN sale.lines : sale.lines[x] \in SaleLineRow
  BY <1>1, OnProducts
<1>3. \A x \in DOMAIN sale.lines : sale.lines[x].qty \in Nat /\ sale.lines[x].refunded \in Nat
  BY <1>2 DEF SaleLineRow
<1>4. QED
  BY <1>3 DEF KeptOf

LEMMA StockColumns ==
  ASSUME Tills, NEW v, NEW p
  PROVE  Numbers(KeptColumn(tillSales, v, p)) /\ Numbers(ArrivedColumn(arrivals, v, p))
<1>1. tillSales \in Seq(SaleRow) /\ arrivals \in Seq([warehouse : Warehouse, product : Tracked, qty : Nat])
  BY DEF Tills, TypeOK, TillRows
<1>2. IsFiniteSet(DOMAIN tillSales) /\ IsFiniteSet(DOMAIN arrivals)
  BY <1>1, RowsFinite
<1>3. \A i \in DOMAIN tillSales : KeptOf(tillSales[i], v, p) \in Int
  BY <1>1, RowsFinite, KeptType
<1>4. \A a \in DOMAIN arrivals : arrivals[a].qty \in Nat
  <2>1. \A a \in DOMAIN arrivals : arrivals[a] \in [warehouse : Warehouse, product : Tracked, qty : Nat]
    BY <1>1, RowsFinite
  <2>2. QED
    BY <2>1
<1>5. QED
  BY <1>2, <1>3, <1>4 DEF Numbers, KeptColumn, ArrivedColumn

LEMMA StockKept ==
  ASSUME Tills, TableStep, StockFollows(onHand, arrivals, tillSales)
  PROVE  StockFollows(onHand', arrivals', tillSales')
<1> SUFFICES ASSUME NEW v \in Warehouse, NEW p \in Tracked
             PROVE  onHand'[v][p] = OpeningStock + SumFunction(ArrivedColumn(arrivals', v, p))
                                 - SumFunction(KeptColumn(tillSales', v, p))
  BY DEF StockFollows
<1>1. PICK kept, came, kept2, came2 :
          /\ kept = KeptColumn(tillSales, v, p) /\ came = ArrivedColumn(arrivals, v, p)
          /\ kept2 = KeptColumn(tillSales', v, p) /\ came2 = ArrivedColumn(arrivals', v, p)
  OBVIOUS
<1>2. Numbers(kept) /\ Numbers(came)
  BY <1>1, StockColumns
<1>3. PICK n, k, c : n = onHand[v][p] /\ k = SumFunction(kept) /\ c = SumFunction(came)
  OBVIOUS
<1>4. n = OpeningStock + c - k /\ k \in Int /\ c \in Int /\ OpeningStock \in Int
  BY <1>1, <1>2, <1>3, NumbersSum, BooksAssumption DEF StockFollows
<1>5. /\ DOMAIN kept = DOMAIN tillSales /\ DOMAIN kept2 = DOMAIN tillSales'
      /\ \A i \in DOMAIN tillSales : kept[i] = KeptOf(tillSales[i], v, p)
      /\ \A i \in DOMAIN tillSales' : kept2[i] = KeptOf(tillSales'[i], v, p)
  BY <1>1 DEF KeptColumn
<1>6. SUFFICES onHand'[v][p] = OpeningStock + SumFunction(came2) - SumFunction(kept2)
  BY <1>1
<1>7. CASE UNCHANGED <<tillSales, tillReturns, arrivals, onHand>>
  BY <1>1, <1>3, <1>4, <1>7
<1>8. ASSUME NEW sale, SoldStep(sale)
      PROVE  onHand'[v][p] = OpeningStock + SumFunction(came2) - SumFunction(kept2)
  <2>1. PICK q : q = IF v = sale.warehouse /\ p \in DOMAIN sale.lines THEN sale.lines[p].qty ELSE 0
    OBVIOUS
  <2>2. /\ Lengthens(tillSales, tillSales', Len(tillSales) + 1, sale) /\ sale \in SaleRow
        /\ \A x \in DOMAIN sale.lines : sale.lines[x].refunded = 0
        /\ arrivals' = arrivals /\ onHand'[v][p] = n - q
    BY <1>3, <1>8, <2>1 DEF SoldStep
  <2>3. KeptOf(sale, v, p) = q /\ q \in Int
    <3>1. sale.lines \in PerProduct(SaleLineRow)
      BY <2>2 DEF SaleRow
    <3>2. \A x \in DOMAIN sale.lines : sale.lines[x] \in SaleLineRow
      BY <3>1, OnProducts
    <3>3. \A x \in DOMAIN sale.lines : sale.lines[x].qty \in Nat
      BY <3>2 DEF SaleLineRow
    <3>4. QED
      BY <2>1, <2>2, <3>3 DEF KeptOf
  <2>4. Lengthens(kept, kept2, Len(tillSales) + 1, q)
    BY <1>5, <2>2, <2>3 DEF Lengthens
  <2>5. SumFunction(kept2) = k + q
    BY <1>2, <1>3, <2>3, <2>4, ColumnGrows
  <2>6. came2 = came
    BY <1>1, <2>2
  <2>7. QED
    BY <1>3, <1>4, <2>2, <2>3, <2>5, <2>6
<1>9. ASSUME NEW i, NEW sale, NEW new, NEW doc, ReturnedStep(i, sale, new, doc)
      PROVE  onHand'[v][p] = OpeningStock + SumFunction(came2) - SumFunction(kept2)
  <2>1. PICK q : q = IF v = sale.warehouse THEN On(doc.qty, p) ELSE 0
    OBVIOUS
  <2>2. /\ Replaces(tillSales, tillSales', i, new) /\ new \in SaleRow /\ sale \in SaleRow /\ sale = tillSales[i]
        /\ arrivals' = arrivals /\ onHand'[v][p] = n + q
        /\ DOMAIN doc.qty \subseteq DOMAIN sale.lines /\ doc.qty \in PerProduct(Nat \ {0})
        /\ DOMAIN new.lines = DOMAIN sale.lines /\ new.warehouse = sale.warehouse
        /\ \A x \in DOMAIN sale.lines : /\ new.lines[x].refunded = sale.lines[x].refunded + On(doc.qty, x)
                                        /\ new.lines[x].qty = sale.lines[x].qty
    BY <1>3, <1>9, <2>1 DEF ReturnedStep, Returned
  <2>3. KeptOf(new, v, p) = KeptOf(sale, v, p) - q /\ q \in Int /\ KeptOf(sale, v, p) \in Int
    <3>1. sale.lines \in PerProduct(SaleLineRow)
      BY <2>2 DEF SaleRow
    <3>2. /\ \A x \in DOMAIN sale.lines : sale.lines[x] \in SaleLineRow
          /\ \A x \in DOMAIN doc.qty : doc.qty[x] \in Nat
      BY <2>2, <3>1, OnProducts
    <3>3. \A x \in DOMAIN sale.lines : sale.lines[x].qty \in Nat /\ sale.lines[x].refunded \in Nat
      BY <3>2 DEF SaleLineRow
    <3>4. q \in Int
      BY <2>1, <3>2 DEF On
    <3>5. CASE p \in DOMAIN sale.lines
      BY <2>1, <2>2, <3>3, <3>4, <3>5 DEF KeptOf
    <3>6. CASE p \notin DOMAIN sale.lines
      BY <2>1, <2>2, <3>4, <3>6 DEF KeptOf, On
    <3>7. QED
      BY <3>5, <3>6, <3>4
  <2>4. PICK u \in Int : u = KeptOf(sale, v, p)
    BY <2>3
  <2>5. Replaces(kept, kept2, i, u - q) /\ kept[i] = u
    BY <1>5, <2>2, <2>3, <2>4 DEF Replaces
  <2>6. SumFunction(kept2) = k - u + (u - q)
    BY <1>2, <1>3, <2>3, <2>4, <2>5, ColumnChanges
  <2>7. came2 = came
    BY <1>1, <2>2
  <2>8. QED
    BY <1>3, <1>4, <2>2, <2>3, <2>6, <2>7
<1>10. ASSUME NEW w, NEW x, NEW qty, ArrivedStep(w, x, qty)
       PROVE  onHand'[v][p] = OpeningStock + SumFunction(came2) - SumFunction(kept2)
  <2>1. PICK q : q = IF v = w /\ p = x THEN qty ELSE 0
    OBVIOUS
  <2>2. PICK row : row = [warehouse |-> w, product |-> x, qty |-> qty]
    OBVIOUS
  <2>3. /\ Lengthens(arrivals, arrivals', Len(arrivals) + 1, row) /\ qty \in Nat
        /\ tillSales' = tillSales /\ onHand'[v][p] = n + q
    BY <1>3, <1>10, <2>1, <2>2 DEF ArrivedStep
  <2>4. row.warehouse = w /\ row.product = x /\ row.qty = qty /\ q \in Int
    BY <2>1, <2>2, <2>3
  <2>5. Lengthens(came, came2, Len(arrivals) + 1, q)
    BY <1>1, <2>1, <2>3, <2>4 DEF Lengthens, ArrivedColumn
  <2>6. SumFunction(came2) = c + q
    BY <1>2, <1>3, <2>4, <2>5, ColumnGrows
  <2>7. kept2 = kept
    BY <1>1, <2>3
  <2>8. QED
    BY <1>3, <1>4, <2>3, <2>4, <2>6, <2>7
<1>11. QED
  BY <1>7, <1>8, <1>9, <1>10 DEF TableStep

RefundsCounted == TalliedBy(tillSales, tillReturns) /\ StockFollows(onHand, arrivals, tillSales)

LEMMA RefundsCountedInit ==
  ASSUME Init
  PROVE  RefundsCounted
<1>1. /\ tillSales = <<>> /\ tillReturns = <<>> /\ arrivals = <<>>
      /\ onHand = [w \in Warehouse |-> [p \in Product |-> IF p \in Tracked THEN OpeningStock ELSE 0]]
  BY DEF Init, BooksInit
<1>2. DOMAIN tillSales = {} /\ DOMAIN arrivals = {}
  BY <1>1
<1>3. TalliedBy(tillSales, tillReturns)
  BY <1>2 DEF TalliedBy, Tally, LinesBack, MoneyBack
<1>4. ASSUME NEW v \in Warehouse, NEW p \in Tracked
      PROVE  onHand[v][p] = OpeningStock + SumFunction(ArrivedColumn(arrivals, v, p)) - SumFunction(KeptColumn(tillSales, v, p))
  <2>1. PICK f, g : f = ArrivedColumn(arrivals, v, p) /\ g = KeptColumn(tillSales, v, p)
    OBVIOUS
  <2>2. DOMAIN f = {} /\ DOMAIN g = {}
    BY <1>2, <2>1 DEF ArrivedColumn, KeptColumn
  <2>3. IsFiniteSet(DOMAIN f) /\ IsFiniteSet(DOMAIN g) /\ (\A x \in DOMAIN f : f[x] = 0) /\ \A x \in DOMAIN g : g[x] = 0
    BY <2>2, FS_EmptySet
  <2>4. SumFunction(f) = 0 /\ SumFunction(g) = 0
    BY <2>3, SumOfZeros
  <2>5. onHand[v][p] = OpeningStock /\ OpeningStock \in Int
    BY <1>1, BooksAssumption
  <2>6. QED
    BY <2>1, <2>4, <2>5
<1>5. QED
  BY <1>3, <1>4 DEF RefundsCounted, StockFollows

\* What the counters and the constraints of the tables say of a sale.
LEMMA RefundsWithin ==
  ASSUME Tills, RefundsCounted
  PROVE  RefundsWithinSale
<1>1. ASSUME NEW i \in DOMAIN tillSales
      PROVE  /\ \A p \in DOMAIN tillSales[i].lines :
                    /\ tillSales[i].lines[p].refunded = ReturnedOf(i, p)
                    /\ ReturnedOf(i, p) <= tillSales[i].lines[p].qty
             /\ tillSales[i].refunded = PaidBackOf(i)
             /\ tillSales[i].refunded <= Tendered(tillSales[i].payments)
  <2>1. PICK key : key = SaleKeys(tillReturns)
    OBVIOUS
  <2>2. RowsOf(key, i) = ReturnsOf(i)
    BY <2>1 DEF RowsOf, ReturnsOf, SaleKeys
  <2>3. ASSUME NEW p \in DOMAIN tillSales[i].lines
        PROVE  /\ tillSales[i].lines[p].refunded = ReturnedOf(i, p)
               /\ ReturnedOf(i, p) <= tillSales[i].lines[p].qty
    <3>1. LinesBack(tillSales)[i][p] = Column(QtyBack(tillReturns), ReturnsOf(i), p)
      <4>1. i \in DOMAIN LinesBack(tillSales) /\ p \in DOMAIN LinesBack(tillSales)[i]
        BY DEF LinesBack, LineBack
      <4>2. QED
        BY <2>1, <2>2, <4>1 DEF RefundsCounted, TalliedBy, Tally
    <3>2. LinesBack(tillSales)[i][p] = tillSales[i].lines[p].refunded
      BY DEF LinesBack, LineBack
    <3>3. Column(QtyBack(tillReturns), ReturnsOf(i), p) = ReturnedOf(i, p)
      <4>1. PICK f, g : /\ f = [d \in ReturnsOf(i) |-> On(QtyBack(tillReturns)[d], p)]
                        /\ g = [d \in ReturnsOf(i) |->
                                    IF p \in DOMAIN tillReturns[d].qty THEN tillReturns[d].qty[p] ELSE 0]
        OBVIOUS
      <4>2. f = g
        BY <4>1 DEF On, QtyBack, ReturnsOf
      <4>3. QED
        BY <4>1, <4>2 DEF Column, ReturnedOf
    <3>4. tillSales[i].lines[p].refunded \in 0..tillSales[i].lines[p].qty
      BY DEF Tills, TillChecks, SaleLineChecks
    <3>5. tillSales[i].lines[p].qty \in Nat
      <4>1. tillSales[i].lines \in PerProduct(SaleLineRow)
        BY TillFacts
      <4>2. tillSales[i].lines[p] \in SaleLineRow
        BY <4>1, OnProducts
      <4>3. QED
        BY <4>2 DEF SaleLineRow
    <3>6. tillSales[i].lines[p].refunded = ReturnedOf(i, p)
      BY <3>1, <3>2, <3>3
    <3>7. tillSales[i].lines[p].refunded <= tillSales[i].lines[p].qty
      BY <3>4, <3>5
    <3>8. QED
      BY <3>6, <3>7, Zenon
  <2>4. tillSales[i].refunded = PaidBackOf(i)
    <3>1. MoneyBack(tillSales)[i]["amount"] = Column(AmountBack(tillReturns), ReturnsOf(i), "amount")
      <4>1. i \in DOMAIN MoneyBack(tillSales) /\ "amount" \in DOMAIN MoneyBack(tillSales)[i]
        BY DEF MoneyBack, InMoney
      <4>2. QED
        BY <2>1, <2>2, <4>1 DEF RefundsCounted, TalliedBy, Tally
    <3>2. MoneyBack(tillSales)[i]["amount"] = tillSales[i].refunded
      BY DEF MoneyBack, InMoney
    <3>3. Column(AmountBack(tillReturns), ReturnsOf(i), "amount") = PaidBackOf(i)
      <4>1. PICK f, g : /\ f = [d \in ReturnsOf(i) |-> On(AmountBack(tillReturns)[d], "amount")]
                        /\ g = [d \in ReturnsOf(i) |-> tillReturns[d].amount]
        OBVIOUS
      <4>2. f = g
        BY <4>1 DEF On, AmountBack, InMoney, ReturnsOf
      <4>3. QED
        BY <4>1, <4>2 DEF Column, PaidBackOf
    <3>4. QED
      BY <3>1, <3>2, <3>3
  <2>5. tillSales[i].refunded <= Tendered(tillSales[i].payments)
    <3>1. tillSales[i].lines \in PerProduct(SaleLineRow)
      BY TillFacts
    <3>2. SaleTotal(tillSales[i].lines) \in Nat
      BY <3>1, TotalType
    <3>3. tillSales[i].refunded \in 0..SaleTotal(tillSales[i].lines)
      BY DEF Tills, TillChecks, SaleChecks
    <3>4. Tendered(tillSales[i].payments) = SaleTotal(tillSales[i].lines)
      BY DEF Tills, PaidInFull
    <3>5. QED
      BY <3>2, <3>3, <3>4
  <2>6. QED
    BY <2>3, <2>4, <2>5
<1>2. \A w \in Warehouse, p \in Tracked : onHand[w][p] = OpeningStock + Arrived(w, p) - KeptByCustomers(w, p)
  BY DEF RefundsCounted, StockFollows, Arrived, KeptByCustomers, ArrivedColumn, KeptColumn
<1>3. QED
  BY <1>1, <1>2 DEF RefundsWithinSale

LEMMA RefundsCountedHolds == Spec => [](Tills /\ RefundsCounted)
<1>1. Init => Tills /\ RefundsCounted
  BY TillsInit, RefundsCountedInit
<1>2. ASSUME Tills, RefundsCounted, [Next]_vars PROVE Tills' /\ RefundsCounted'
  <2>1. TableStep /\ Tills'
    BY <1>2, TradeSteps, TableSteps, TillsKept
  <2>2. TalliedBy(tillSales', tillReturns') /\ StockFollows(onHand', arrivals', tillSales')
    BY <1>2, <2>1, TalliedKept, StockKept DEF RefundsCounted
  <2>3. RefundsCounted'
    BY <2>2 DEF RefundsCounted, TalliedBy, Tally, StockFollows, LinesBack, MoneyBack, SaleKeys, QtyBack, AmountBack,
                LineBack, ArrivedColumn, KeptColumn, KeptOf, RowsOf, Column, On, InMoney
  <2>4. QED
    BY <2>1, <2>3
<1>3. QED
  BY <1>1, <1>2, PTL DEF Spec

\* Refunds of one sale from several tills at once are all counted: no more comes
\* back than was sold, no more money than was paid, and the stock moves by what
\* was sold and brought back (refund and the lock it takes on the sale).
THEOREM RefundsStayWithin == Spec => []RefundsWithinSale
<1>1. Tills /\ RefundsCounted => RefundsWithinSale
  BY RefundsWithin
<1>2. QED
  BY <1>1, RefundsCountedHolds, PTL

-----------------------------------------------------------------------------
(* The ledger follows the tills *)

\* What a refund of qty gives back of the lines of a sale.
BackNet(qty, lines) == NetOf(RefundAmounts(qty, lines))
BackTax(qty, lines) == TaxOf(RefundAmounts(qty, lines))

\* A step as the books see it: nothing that matters to a till, one sale more, one return more.
SoldBooks(sale, rows) ==
    /\ SoldStep(sale)
    /\ Posts(SaleTotal(sale.lines), -NetOf(LineAmounts(sale.lines)), 0, -TaxOf(LineAmounts(sale.lines)),
             PostedCost(SaleCost(sale.lines)))
    /\ Registers(rows, "pos_sale", Len(tillSales) + 1, TaxOf(LineAmounts(sale.lines)), NetOf(LineAmounts(sale.lines)))

ReturnedBooks(i, sale, new, doc, rows) ==
    /\ ReturnedStep(i, sale, new, doc)
    /\ BackNet(doc.qty, sale.lines) \in Nat /\ BackTax(doc.qty, sale.lines) \in Nat
    /\ RefundCost(doc.qty, sale.lines) \in Nat /\ Repaid(doc.qty, sale.lines) \in Nat
    /\ Posts(-(BackNet(doc.qty, sale.lines) + BackTax(doc.qty, sale.lines)), 0, BackNet(doc.qty, sale.lines),
             BackTax(doc.qty, sale.lines), -PostedCost(RefundCost(doc.qty, sale.lines)))
    /\ Registers(rows, "pos_return", Len(tillReturns) + 1, -BackTax(doc.qty, sale.lines), BackNet(doc.qty, sale.lines))

TillAccounts == {"CASH", "SALES_REVENUE", "SALES_RETURNS", "VAT_OUTPUT", "COGS"}

QuietBooks ==
    /\ UNCHANGED <<tillSales, tillReturns, register>>
    /\ \A a \in TillAccounts : balance'[a] = balance[a]

BookStep ==
    \/ QuietBooks
    \/ \E sale, rows : SoldBooks(sale, rows)
    \/ \E i, sale, new, doc, rows : ReturnedBooks(i, sale, new, doc, rows)

LEMMA BookSteps ==
  ASSUME Tills, TradeStep
  PROVE  BookStep
<1>0. balance \in [SystemAccount -> Int] /\ TillAccounts \subseteq SystemAccount
  BY TillFacts DEF BooksRows, TillAccounts, SystemAccount
<1>1. CASE SameTrade
  BY <1>1 DEF SameTrade, books, BookStep, QuietBooks
<1>2. ASSUME NEW r \in Request, NEW sale \in SaleRow, NEW rows, CheckoutChange(r, sale, rows)
      PROVE  BookStep
  <2>1. SoldStep(sale)
    BY <1>2, SoldSteps
  <2>2. SoldBooks(sale, rows)
    BY <1>2, <2>1 DEF CheckoutChange, SoldBooks
  <2>3. QED
    BY <2>2 DEF BookStep
<1>3. ASSUME NEW r \in Request, NEW qty, NEW rows, RefundChange(r, qty, rows)
      PROVE  BookStep
  <2>1. PICK i, sale, new, doc : ReturnedStep(i, sale, new, doc) /\ i = request[r].sale /\ doc.qty = qty
    BY <1>3, ReturnedSteps
  <2>2. sale = tillSales[i]
    BY <2>1 DEF ReturnedStep, Returned
  <2>3. ReturnedBooks(i, sale, new, doc, rows)
    BY <1>3, <2>1, <2>2, Zenon DEF RefundChange, ReturnedBooks, BackNet, BackTax
  <2>4. QED
    BY <2>3 DEF BookStep
<1>4. ASSUME NEW w, NEW p, NEW qty, ArriveChange(w, p, qty)
      PROVE  BookStep
  <2>1. UNCHANGED <<tillSales, tillReturns, register>> /\ Posts(0, 0, 0, 0, 0)
    BY <1>4 DEF ArriveChange
  <2>2. \A a \in TillAccounts : balance'[a] = balance[a]
    BY <1>0, <2>1 DEF Posts, TillAccounts
  <2>3. QED
    BY <2>1, <2>2 DEF BookStep, QuietBooks
<1>5. QED
  BY <1>1, <1>2, <1>3, <1>4 DEF TradeStep

\* Sums whose terms differ by one at most.
LEMMA SumsClose ==
  ASSUME NEW f, NEW g, Numbers(f), Numbers(g), DOMAIN g = DOMAIN f, \A x \in DOMAIN f : f[x] <= g[x] + 1
  PROVE  /\ SumFunction(f) <= SumFunction(g) + Cardinality(DOMAIN f)
         /\ SumFunction(f) \in Int /\ SumFunction(g) \in Int /\ Cardinality(DOMAIN f) \in Nat
<1>1. PICK o, h : o = [x \in DOMAIN f |-> 1] /\ h = [x \in DOMAIN f |-> g[x] + 1]
  OBVIOUS
<1>2. /\ DOMAIN o = DOMAIN f /\ DOMAIN h = DOMAIN f /\ Numbers(o) /\ Numbers(h)
      /\ (\A x \in DOMAIN o : o[x] = 1) /\ (\A x \in DOMAIN g : h[x] = g[x] + o[x])
      /\ \A x \in DOMAIN f : f[x] <= h[x]
  BY <1>1 DEF Numbers
<1>3. SumFunction(o) = Cardinality(DOMAIN f)
  BY <1>2, SumOfOnes DEF Numbers
<1>4. SumFunction(h) = SumFunction(g) + SumFunction(o) /\ SumFunction(g) \in Int
  BY <1>2, SumAdd
<1>5. SumFunction(f) <= SumFunction(h) /\ SumFunction(f) \in Int
  BY <1>2, SumWithin
<1>6. Cardinality(DOMAIN f) \in Nat
  BY FS_CardinalityType DEF Numbers
<1>7. QED
  BY <1>3, <1>4, <1>5, <1>6

\* Rounding half up never falls short by half a unit.
LEMMA RoundAbove ==
  ASSUME NEW n \in Nat, NEW d \in Nat \ {0}
  PROVE  2 * n < 2 * d * RoundHalfUp(n, d) + d
BY DEF RoundHalfUp

\* Two parts rounded by themselves, and their sum rounded once.
LEMMA RoundSplits ==
  ASSUME NEW m \in Nat, NEW n \in Nat, NEW d \in Nat \ {0}, NEW x, NEW y, NEW z,
         x = RoundHalfUp(m, d), y = RoundHalfUp(n, d), z = RoundHalfUp(m + n, d)
  PROVE  x \in Nat /\ y \in Nat /\ z \in Nat /\ x + y <= z + 1 /\ z <= x + y + 1
<1>1. x \in Nat /\ 2 * d * x <= 2 * m + d /\ 2 * m < 2 * d * x + d
  BY RoundBound, RoundAbove
<1>2. y \in Nat /\ 2 * d * y <= 2 * n + d /\ 2 * n < 2 * d * y + d
  BY RoundBound, RoundAbove
<1>3. m + n \in Nat
  OBVIOUS
<1>4. z \in Nat /\ 2 * d * z <= 2 * (m + n) + d /\ 2 * (m + n) < 2 * d * z + d
  BY <1>3, RoundBound, RoundAbove
<1>5. PICK a \in Nat, b \in Nat, c \in Nat : a = d * x /\ b = d * y /\ c = d * z
  BY <1>1, <1>2, <1>4
<1>6. /\ 2 * a <= 2 * m + d /\ 2 * m < 2 * a + d /\ 2 * b <= 2 * n + d /\ 2 * n < 2 * b + d
      /\ 2 * c <= 2 * (m + n) + d /\ 2 * (m + n) < 2 * c + d
  <2>1. 2 * d * x = 2 * a /\ 2 * d * y = 2 * b /\ 2 * d * z = 2 * c
    BY <1>1, <1>2, <1>4, <1>5
  <2>2. QED
    BY <1>1, <1>2, <1>4, <2>1
<1>7. 2 * (a + b) < 2 * c + 3 * d /\ 2 * c < 2 * (a + b) + 3 * d
  BY <1>6
<1>8. ASSUME x + y >= z + 2 PROVE FALSE
  <2>1. PICK w \in Nat : x + y = z + 2 + w
    BY <1>1, <1>2, <1>4, <1>8
  <2>2. d * (x + y) = d * (z + 2 + w)
    BY <2>1
  <2>3. d * (x + y) = a + b /\ d * (z + 2 + w) = c + 2 * d + d * w /\ d * w \in Nat
    BY <1>1, <1>2, <1>4, <1>5
  <2>4. QED
    BY <1>7, <2>2, <2>3
<1>9. ASSUME z >= x + y + 2 PROVE FALSE
  <2>1. PICK w \in Nat : z = x + y + 2 + w
    BY <1>1, <1>2, <1>4, <1>9
  <2>2. d * z = d * (x + y + 2 + w)
    BY <2>1
  <2>3. d * (x + y + 2 + w) = a + b + 2 * d + d * w /\ d * w \in Nat
    BY <1>1, <1>2, <1>4, <1>5
  <2>4. QED
    BY <1>5, <1>7, <2>2, <2>3
<1>10. QED
  BY <1>1, <1>2, <1>4, <1>8, <1>9

\* The net and the tax given back of a line, and the amount.
LEMMA LineSplits ==
  ASSUME NEW l \in SaleLineRow, l.qty > 0, NEW q \in Nat, NEW x, NEW y, NEW z,
         x = Share(l.amounts.net, q, l), y = Share(l.amounts.tax, q, l), z = LineRefund(q, l)
  PROVE  x \in Nat /\ y \in Nat /\ z \in Nat /\ x + y <= z + 1 /\ z <= x + y + 1
<1>1. PICK a, b, d : a = l.amounts.net /\ b = l.amounts.tax /\ d = l.qty
  OBVIOUS
<1>2. a \in Nat /\ b \in Nat /\ d \in Nat \ {0}
  BY <1>1 DEF SaleLineRow
<1>3. PICK m, n : m = a * q /\ n = b * q
  OBVIOUS
<1>4. m \in Nat /\ n \in Nat /\ (a + b) * q = m + n
  BY <1>2, <1>3
<1>5. x = RoundHalfUp(m, d) /\ y = RoundHalfUp(n, d) /\ z = RoundHalfUp(m + n, d)
  BY <1>1, <1>3, <1>4 DEF Share, LineRefund
<1>6. QED
  BY <1>2, <1>4, <1>5, RoundSplits

\* A refund as it is paid and as it is posted: one unit per line at most.
LEMMA RefundSplits ==
  ASSUME NEW i, NEW sale, NEW new, NEW doc, Returned(i, sale, new, doc),
         NEW net, NEW tax, NEW paid, NEW n,
         net = BackNet(doc.qty, sale.lines), tax = BackTax(doc.qty, sale.lines),
         paid = Repaid(doc.qty, sale.lines), n = Cardinality(DOMAIN doc.qty)
  PROVE  /\ net \in Int /\ tax \in Int /\ paid \in Int /\ n \in Nat
         /\ net + tax <= paid + n /\ paid <= net + tax + n
<1>1. PICK qty, ls : qty = doc.qty /\ ls = sale.lines
  OBVIOUS
<1>2. /\ qty \in PerProduct(Nat \ {0}) /\ DOMAIN qty \subseteq DOMAIN ls /\ ls \in PerProduct(SaleLineRow)
      /\ \A p \in DOMAIN ls : ls[p].qty > 0
  <2>1. sale \in SaleRow /\ SoldLines(sale) /\ doc.qty \in PerProduct(Nat \ {0}) /\ DOMAIN doc.qty \subseteq DOMAIN sale.lines
    BY DEF Returned
  <2>2. sale.lines \in PerProduct(SaleLineRow)
    BY <2>1 DEF SaleRow
  <2>3. QED
    BY <1>1, <2>1, <2>2 DEF SoldLines, SaleLineChecks
<1>3. /\ IsFiniteSet(DOMAIN qty) /\ (\A p \in DOMAIN qty : qty[p] \in Nat)
  BY <1>2, OnProducts
<1>4. \A p \in DOMAIN qty : ls[p] \in SaleLineRow /\ ls[p].qty > 0
  BY <1>2, OnProducts
<1>5. PICK x, y, s, z :
        /\ x = [p \in DOMAIN qty |-> Share(ls[p].amounts.net, qty[p], ls[p])]
        /\ y = [p \in DOMAIN qty |-> Share(ls[p].amounts.tax, qty[p], ls[p])]
        /\ s = [p \in DOMAIN qty |-> x[p] + y[p]]
        /\ z = [p \in DOMAIN qty |-> LineRefund(qty[p], ls[p])]
  OBVIOUS
<1>6. ASSUME NEW p \in DOMAIN qty
      PROVE  x[p] \in Int /\ y[p] \in Int /\ z[p] \in Int /\ x[p] + y[p] <= z[p] + 1 /\ z[p] <= x[p] + y[p] + 1
  <2>1. x[p] = Share(ls[p].amounts.net, qty[p], ls[p]) /\ y[p] = Share(ls[p].amounts.tax, qty[p], ls[p])
        /\ z[p] = LineRefund(qty[p], ls[p])
    BY <1>5
  <2>2. PICK l \in SaleLineRow, q \in Nat : l = ls[p] /\ q = qty[p] /\ l.qty > 0
    BY <1>3, <1>4
  <2>3. QED
    BY <2>1, <2>2, LineSplits
<1>7. /\ DOMAIN x = DOMAIN qty /\ DOMAIN y = DOMAIN qty /\ DOMAIN s = DOMAIN qty /\ DOMAIN z = DOMAIN qty
      /\ \A p \in DOMAIN qty : s[p] = x[p] + y[p]
  BY <1>5
<1>8. Numbers(x) /\ Numbers(y) /\ Numbers(z)
  BY <1>3, <1>6, <1>7 DEF Numbers
<1>9. SumFunction(s) = SumFunction(x) + SumFunction(y) /\ SumFunction(x) \in Int /\ SumFunction(y) \in Int /\ Numbers(s)
  BY <1>7, <1>8, SumAdd
<1>10. (\A p \in DOMAIN s : s[p] <= z[p] + 1) /\ (\A p \in DOMAIN z : z[p] <= s[p] + 1)
  BY <1>6, <1>7
<1>11. SumFunction(s) <= SumFunction(z) + n /\ SumFunction(z) \in Int /\ n \in Nat
  BY <1>1, <1>7, <1>8, <1>9, <1>10, SumsClose
<1>12. SumFunction(z) <= SumFunction(s) + n
  BY <1>1, <1>7, <1>8, <1>9, <1>10, SumsClose
<1>13. net = SumFunction(x) /\ tax = SumFunction(y)
  <2>1. PICK am : am = RefundAmounts(qty, ls)
    OBVIOUS
  <2>2. /\ DOMAIN am = DOMAIN qty
        /\ \A p \in DOMAIN qty : am[p].net = x[p] /\ am[p].tax = y[p]
    BY <1>5, <2>1 DEF RefundAmounts
  <2>3. [p \in DOMAIN am |-> am[p].net] = x /\ [p \in DOMAIN am |-> am[p].tax] = y
    BY <1>5, <2>2
  <2>4. QED
    BY <1>1, <2>1, <2>3 DEF BackNet, BackTax, NetOf, TaxOf
<1>14. paid = SumFunction(z)
  BY <1>1, <1>5 DEF Repaid
<1>15. QED
  BY <1>9, <1>11, <1>12, <1>13, <1>14

\* What customers paid and kept, sale by sale, and the lines they brought back, return by return.
PaidColumn(sales) == [i \in DOMAIN sales |-> SaleTotal(sales[i].lines) - sales[i].refunded]
LinesColumn(docs) == [d \in DOMAIN docs |-> Cardinality(DOMAIN docs[d].qty)]

LEMMA PaidType ==
  ASSUME NEW sale \in SaleRow
  PROVE  SaleTotal(sale.lines) \in Nat /\ sale.refunded \in Nat
<1>1. sale.lines \in PerProduct(SaleLineRow) /\ sale.refunded \in Nat
  BY DEF SaleRow
<1>2. QED
  BY <1>1, TotalType

LEMMA ReturnLines ==
  ASSUME NEW doc \in SaleReturnRow
  PROVE  Cardinality(DOMAIN doc.qty) \in Nat
<1>1. doc.qty \in PerProduct(Nat \ {0})
  BY DEF SaleReturnRow
<1>2. QED
  BY <1>1, OnProducts, FS_CardinalityType

LEMMA LedgerColumns ==
  ASSUME Tills
  PROVE  Numbers(PaidColumn(tillSales)) /\ Numbers(LinesColumn(tillReturns))
<1>1. tillSales \in Seq(SaleRow) /\ tillReturns \in Seq(SaleReturnRow)
  BY TillFacts
<1>2. /\ IsFiniteSet(DOMAIN tillSales) /\ IsFiniteSet(DOMAIN tillReturns)
      /\ (\A i \in DOMAIN tillSales : tillSales[i] \in SaleRow) /\ \A d \in DOMAIN tillReturns : tillReturns[d] \in SaleReturnRow
  BY <1>1, RowsFinite
<1>3. \A i \in DOMAIN tillSales : SaleTotal(tillSales[i].lines) \in Nat /\ tillSales[i].refunded \in Nat
  BY <1>2, PaidType
<1>4. \A d \in DOMAIN tillReturns : Cardinality(DOMAIN tillReturns[d].qty) \in Nat
  BY <1>2, ReturnLines
<1>5. QED
  BY <1>2, <1>3, <1>4 DEF Numbers, PaidColumn, LinesColumn

\* Cash is off by one unit per returned line at most.
CashFollows(cash, sales, docs) ==
    /\ cash <= SumFunction(PaidColumn(sales)) + SumFunction(LinesColumn(docs))
    /\ SumFunction(PaidColumn(sales)) <= cash + SumFunction(LinesColumn(docs))

CashOK == CashFollows(balance["CASH"], tillSales, tillReturns)

LEMMA CashStays ==
  ASSUME Tills, BookStep, CashOK
  PROVE  CashOK'
<1>0. PICK cash, cash2 : cash = balance["CASH"] /\ cash2 = balance'["CASH"]
  OBVIOUS
<1>1. PICK paid, lines, paid2, lines2 :
        /\ paid = PaidColumn(tillSales) /\ paid2 = PaidColumn(tillSales')
        /\ lines = LinesColumn(tillReturns) /\ lines2 = LinesColumn(tillReturns')
  OBVIOUS
<1>2. Numbers(paid) /\ Numbers(lines)
  BY <1>1, LedgerColumns
<1>3. cash \in Int /\ SumFunction(paid) \in Int /\ SumFunction(lines) \in Int
  <2>1. balance \in [SystemAccount -> Int] /\ "CASH" \in SystemAccount
    BY TillFacts DEF BooksRows, SystemAccount
  <2>2. QED
    BY <1>0, <1>1, <1>2, <2>1, NumbersSum
<1>4. cash <= SumFunction(paid) + SumFunction(lines) /\ SumFunction(paid) <= cash + SumFunction(lines)
  BY <1>0, <1>1 DEF CashOK, CashFollows
<1>6. ASSUME QuietBooks
      PROVE  cash2 <= SumFunction(paid2) + SumFunction(lines2) /\ SumFunction(paid2) <= cash2 + SumFunction(lines2)
  <2>1. paid2 = paid /\ lines2 = lines /\ cash2 = cash
    BY <1>0, <1>1, <1>6 DEF QuietBooks, TillAccounts
  <2>2. QED
    BY <1>4, <2>1
<1>7. ASSUME NEW sale, NEW rows, SoldBooks(sale, rows)
      PROVE  cash2 <= SumFunction(paid2) + SumFunction(lines2) /\ SumFunction(paid2) <= cash2 + SumFunction(lines2)
  <2>1. PICK k, v : k = Len(tillSales) + 1 /\ v = SaleTotal(sale.lines)
    OBVIOUS
  <2>2. /\ Lengthens(tillSales, tillSales', k, sale) /\ sale \in SaleRow /\ sale.refunded = 0
        /\ tillReturns' = tillReturns /\ cash2 = cash + v
    BY <1>0, <1>1, <1>7, <2>1 DEF SoldBooks, SoldStep, Posts
  <2>3. v \in Int /\ v - 0 = v
    BY <2>1, <2>2, PaidType
  <2>4. Lengthens(paid, paid2, k, v)
    <3>1. PICK S, T : S = tillSales /\ T = tillSales'
      OBVIOUS
    <3>2. /\ k \notin DOMAIN S /\ DOMAIN T = DOMAIN S \cup {k} /\ T[k] = sale /\ \A j \in DOMAIN S : T[j] = S[j]
      BY <2>2, <3>1 DEF Lengthens
    <3>3. paid = PaidColumn(S) /\ paid2 = PaidColumn(T)
      BY <1>1, <3>1
    <3>4. /\ DOMAIN paid = DOMAIN S /\ DOMAIN paid2 = DOMAIN T
          /\ \A j \in DOMAIN S : paid[j] = SaleTotal(S[j].lines) - S[j].refunded
          /\ \A j \in DOMAIN T : paid2[j] = SaleTotal(T[j].lines) - T[j].refunded
      BY <3>3 DEF PaidColumn
    <3>5. QED
      BY <2>1, <2>2, <2>3, <3>2, <3>4 DEF Lengthens
  <2>5. SumFunction(paid2) = SumFunction(paid) + v
    BY <1>2, <2>3, <2>4, ColumnGrows
  <2>6. lines2 = lines
    BY <1>1, <2>2
  <2>7. QED
    BY <1>3, <1>4, <2>2, <2>3, <2>5, <2>6
<1>8. ASSUME NEW i, NEW sale, NEW new, NEW doc, NEW rows, ReturnedBooks(i, sale, new, doc, rows)
      PROVE  cash2 <= SumFunction(paid2) + SumFunction(lines2) /\ SumFunction(paid2) <= cash2 + SumFunction(lines2)
  <2>1. PICK net, tax, back, n, k :
          /\ net = BackNet(doc.qty, sale.lines) /\ tax = BackTax(doc.qty, sale.lines)
          /\ back = Repaid(doc.qty, sale.lines) /\ n = Cardinality(DOMAIN doc.qty) /\ k = Len(tillReturns) + 1
    OBVIOUS
  <2>2. Returned(i, sale, new, doc)
    BY <1>8 DEF ReturnedBooks, ReturnedStep
  <2>3. /\ net \in Int /\ tax \in Int /\ back \in Int /\ n \in Nat
        /\ net + tax <= back + n /\ back <= net + tax + n
    BY <2>1, <2>2, RefundSplits
  <2>4. /\ Replaces(tillSales, tillSales', i, new) /\ Lengthens(tillReturns, tillReturns', k, doc)
        /\ cash2 = cash + (-(net + tax))
    BY <1>0, <1>1, <1>8, <2>1 DEF ReturnedBooks, ReturnedStep, Posts
  <2>5. /\ sale = tillSales[i] /\ i \in DOMAIN tillSales /\ sale \in SaleRow /\ new \in SaleRow
        /\ new.refunded = sale.refunded + back /\ SaleTotal(new.lines) = SaleTotal(sale.lines)
    BY <2>1, <2>2 DEF Returned
  <2>5a. PICK t \in Int, f \in Int : t = SaleTotal(sale.lines) /\ f = sale.refunded
    BY <2>5, PaidType
  <2>6. PICK v : v = t - (f + back)
    OBVIOUS
  <2>7. Replaces(paid, paid2, i, v) /\ paid[i] = t - f
    <3>1. PICK S, T : S = tillSales /\ T = tillSales'
      OBVIOUS
    <3>2. /\ i \in DOMAIN S /\ DOMAIN T = DOMAIN S /\ T[i] = new /\ S[i] = sale /\ \A j \in DOMAIN S \ {i} : T[j] = S[j]
      BY <2>4, <2>5, <3>1 DEF Replaces
    <3>3. paid = PaidColumn(S) /\ paid2 = PaidColumn(T)
      BY <1>1, <3>1
    <3>4. /\ DOMAIN paid = DOMAIN S /\ DOMAIN paid2 = DOMAIN T
          /\ \A j \in DOMAIN S : paid[j] = SaleTotal(S[j].lines) - S[j].refunded
          /\ \A j \in DOMAIN T : paid2[j] = SaleTotal(T[j].lines) - T[j].refunded
      BY <3>3 DEF PaidColumn
    <3>5. QED
      BY <2>5, <2>5a, <2>6, <3>2, <3>4 DEF Replaces
  <2>8. SumFunction(paid2) = SumFunction(paid) - (t - f) + v
    <3>1. v \in Int
      BY <2>3, <2>6
    <3>2. QED
      BY <1>2, <2>7, <3>1, ColumnChanges
  <2>9. Lengthens(lines, lines2, k, n)
    <3>1. PICK S, T : S = tillReturns /\ T = tillReturns'
      OBVIOUS
    <3>2. /\ k \notin DOMAIN S /\ DOMAIN T = DOMAIN S \cup {k} /\ T[k] = doc /\ \A j \in DOMAIN S : T[j] = S[j]
      BY <2>4, <3>1 DEF Lengthens
    <3>3. lines = LinesColumn(S) /\ lines2 = LinesColumn(T)
      BY <1>1, <3>1
    <3>4. QED
      BY <2>1, <3>2, <3>3 DEF Lengthens, LinesColumn
  <2>10. SumFunction(lines2) = SumFunction(lines) + n
    <3>1. n \in Int
      BY <2>3
    <3>2. QED
      BY <1>2, <2>9, <3>1, ColumnGrows
  <2>11. QED
    BY <1>3, <1>4, <2>3, <2>4, <2>5a, <2>6, <2>8, <2>10
<1>9. cash2 <= SumFunction(paid2) + SumFunction(lines2) /\ SumFunction(paid2) <= cash2 + SumFunction(lines2)
  BY <1>6, <1>7, <1>8, Zenon DEF BookStep
<1>10. QED
  BY <1>0, <1>1, <1>9 DEF CashOK, CashFollows

\* The rows of the VAT register that documents of one kind wrote.
OfKind(rows, kind) == {w \in rows : w.source[1] = kind}

\* A document of the next number adds its tax to the register and its net to the rows of its kind.
LEMMA RegisterAdds ==
  ASSUME Tills, NEW rows, NEW kind, NEW n, NEW tax, NEW net, Registers(rows, kind, n, tax, net),
         \/ kind = "pos_sale" /\ n = Len(tillSales) + 1
         \/ kind = "pos_return" /\ n = Len(tillReturns) + 1
  PROVE  /\ VatOf(register, "OUTPUT") \in Int /\ BaseOf(OfKind(register, kind), "OUTPUT") \in Int
         /\ VatOf(register', "OUTPUT") = VatOf(register, "OUTPUT") + tax
         /\ BaseOf(OfKind(register', kind), "OUTPUT") = BaseOf(OfKind(register, kind), "OUTPUT") + net
         /\ \A k : k # kind => OfKind(register', k) = OfKind(register, k)
<1>1. PICK A, C, K : A = register /\ C = register' /\ K = OfKind(A, kind)
  OBVIOUS
<1>2. /\ C = A \cup rows /\ IsFiniteSet(rows)
      /\ \A w \in rows : w \in VatRow /\ w.source = <<kind, n>> /\ w.direction = "OUTPUT"
      /\ SumFunction([w \in rows |-> w.vat]) = tax /\ SumFunction([w \in rows |-> w.base]) = net
  BY <1>1 DEF Registers
<1>3. /\ IsFiniteSet(A)
      /\ \A w \in A : /\ w \in VatRow /\ w.direction = "OUTPUT"
                      /\ \/ w.source[1] = "pos_sale" /\ w.source[2] \in DOMAIN tillSales
                         \/ w.source[1] = "pos_return" /\ w.source[2] \in DOMAIN tillReturns
  BY <1>1 DEF Tills, TypeOK, BooksRows, Registered
<1>4. \A w \in A : w \notin rows
  <2>1. /\ Len(tillSales) \in Nat /\ Len(tillReturns) \in Nat
        /\ DOMAIN tillSales = 1..Len(tillSales) /\ DOMAIN tillReturns = 1..Len(tillReturns)
    BY TillFacts
  <2>2. Len(tillSales) + 1 \notin DOMAIN tillSales /\ Len(tillReturns) + 1 \notin DOMAIN tillReturns
    BY <2>1
  <2>3. \A w \in rows : w.source[1] = kind /\ w.source[2] = n
    BY <1>2
  <2>4. QED
    BY <1>3, <2>2, <2>3
<1>5. /\ VatOf(A \cup rows, "OUTPUT") = VatOf(A, "OUTPUT") + VatOf(rows, "OUTPUT")
      /\ VatOf(A, "OUTPUT") \in Int
  BY <1>2, <1>3, <1>4, VatUnion
<1>6. VatOf(rows, "OUTPUT") = tax /\ BaseOf(rows, "OUTPUT") = net
  BY <1>2, VatOfOneDirection, BaseOfOneDirection
<1>7. /\ OfKind(C, kind) = K \cup rows
      /\ \A k : k # kind => OfKind(C, k) = OfKind(A, k)
  <2>1. \A w \in rows : w.source[1] = kind
    BY <1>2
  <2>2. QED
    BY <1>1, <1>2, <2>1 DEF OfKind
<1>8. IsFiniteSet(K) /\ \A w \in K : w \in VatRow /\ w \notin rows
  <2>1. K \subseteq A
    BY <1>1 DEF OfKind
  <2>2. QED
    BY <1>3, <1>4, <2>1, FS_Subset
<1>9. /\ BaseOf(K \cup rows, "OUTPUT") = BaseOf(K, "OUTPUT") + BaseOf(rows, "OUTPUT")
      /\ BaseOf(K, "OUTPUT") \in Int
  <2>1. /\ IsFiniteSet(K) /\ IsFiniteSet(rows) /\ (\A r \in K : r \notin rows)
        /\ (\A r \in K : r \in VatRow) /\ (\A r \in rows : r \in VatRow)
    BY <1>2, <1>8
  <2>2. PICK d : d = "OUTPUT"
    OBVIOUS
  <2>3. BaseOf(K \cup rows, d) = BaseOf(K, d) + BaseOf(rows, d)
    BY ONLY <2>1, BaseUnion
  <2>4. BaseOf(K, d) \in Int
    BY ONLY <2>1, BaseUnion
  <2>5. QED
    BY <2>2, <2>3, <2>4
<1>10. /\ VatOf(C, "OUTPUT") = VatOf(A, "OUTPUT") + tax
       /\ BaseOf(OfKind(C, kind), "OUTPUT") = BaseOf(K, "OUTPUT") + net
  BY <1>2, <1>5, <1>6, <1>7, <1>9
<1>11. QED
  BY <1>1, <1>5, <1>7, <1>9, <1>10, Zenon

\* Output VAT is what the register says, revenue and returns are the bases it keeps.
VatFollows(bal, rows) ==
    /\ -bal["VAT_OUTPUT"] = VatOf(rows, "OUTPUT")
    /\ BaseOf(OfKind(rows, "pos_sale"), "OUTPUT") = -bal["SALES_REVENUE"]
    /\ BaseOf(OfKind(rows, "pos_return"), "OUTPUT") = bal["SALES_RETURNS"]

LEMMA VatStays ==
  ASSUME Tills, BookStep, VatFollows(balance, register)
  PROVE  VatFollows(balance', register')
<1>0. /\ balance \in [SystemAccount -> Int] /\ {"VAT_OUTPUT", "SALES_REVENUE", "SALES_RETURNS"} \subseteq SystemAccount
  BY TillFacts DEF BooksRows, SystemAccount
<1>1. PICK A, B, C : A = register /\ C = register' /\ B = balance'
  OBVIOUS
<1>2. PICK v \in Int, s \in Int, t \in Int : v = balance["VAT_OUTPUT"] /\ s = balance["SALES_REVENUE"] /\ t = balance["SALES_RETURNS"]
  BY <1>0
<1>3. /\ -v = VatOf(A, "OUTPUT") /\ BaseOf(OfKind(A, "pos_sale"), "OUTPUT") = -s
      /\ BaseOf(OfKind(A, "pos_return"), "OUTPUT") = t
  BY <1>1, <1>2 DEF VatFollows
<1>4. ASSUME QuietBooks PROVE VatFollows(B, C)
  <2>1. C = A /\ B["VAT_OUTPUT"] = v /\ B["SALES_REVENUE"] = s /\ B["SALES_RETURNS"] = t
    BY <1>1, <1>2, <1>4 DEF QuietBooks, TillAccounts
  <2>2. QED
    BY <1>3, <2>1 DEF VatFollows
<1>5. ASSUME NEW sale, NEW rows, SoldBooks(sale, rows) PROVE VatFollows(B, C)
  <2>1. PICK net, tax, n : n = Len(tillSales) + 1 /\ net = NetOf(LineAmounts(sale.lines)) /\ tax = TaxOf(LineAmounts(sale.lines))
    OBVIOUS
  <2>2. Registers(rows, "pos_sale", n, tax, net)
    BY <1>5, <2>1 DEF SoldBooks
  <2>3. B["VAT_OUTPUT"] = v + (-tax) /\ B["SALES_REVENUE"] = s + (-net) /\ B["SALES_RETURNS"] = t + 0
    BY <1>1, <1>2, <1>5, <2>1 DEF SoldBooks, Posts
  <2>4. net \in Int /\ tax \in Int
    <3>1. sale.lines \in PerProduct(SaleLineRow)
      BY <1>5 DEF SoldBooks, SoldStep, SaleRow
    <3>2. QED
      BY <2>1, <3>1, TotalType
  <2>5. /\ VatOf(C, "OUTPUT") = VatOf(A, "OUTPUT") + tax
        /\ BaseOf(OfKind(C, "pos_sale"), "OUTPUT") = BaseOf(OfKind(A, "pos_sale"), "OUTPUT") + net
        /\ OfKind(C, "pos_return") = OfKind(A, "pos_return")
    BY <1>1, <2>1, <2>2, RegisterAdds
  <2>6. /\ -(v + (-tax)) = -v + tax /\ -s + net = -(s + (-net)) /\ t + 0 = t
    BY <2>4
  <2>7. QED
    BY <1>3, <2>3, <2>5, <2>6 DEF VatFollows
<1>6. ASSUME NEW i, NEW sale, NEW new, NEW doc, NEW rows, ReturnedBooks(i, sale, new, doc, rows) PROVE VatFollows(B, C)
  <2>1. PICK net, tax, minus, n : /\ n = Len(tillReturns) + 1 /\ net = BackNet(doc.qty, sale.lines)
                                  /\ tax = BackTax(doc.qty, sale.lines) /\ minus = -tax
    OBVIOUS
  <2>2. Registers(rows, "pos_return", n, minus, net)
    BY <1>6, <2>1 DEF ReturnedBooks
  <2>3. B["VAT_OUTPUT"] = v + tax /\ B["SALES_REVENUE"] = s + 0 /\ B["SALES_RETURNS"] = t + net
    BY <1>1, <1>2, <1>6, <2>1 DEF ReturnedBooks, Posts
  <2>4. net \in Int /\ tax \in Int
    BY <1>6, <2>1 DEF ReturnedBooks
  <2>5. /\ VatOf(C, "OUTPUT") = VatOf(A, "OUTPUT") + minus
        /\ BaseOf(OfKind(C, "pos_return"), "OUTPUT") = BaseOf(OfKind(A, "pos_return"), "OUTPUT") + net
        /\ OfKind(C, "pos_sale") = OfKind(A, "pos_sale")
    BY <1>1, <2>1, <2>2, RegisterAdds
  <2>6. /\ -(v + tax) = -v + minus /\ s + 0 = s
    BY <2>1, <2>4
  <2>7. QED
    BY <1>3, <2>3, <2>5, <2>6 DEF VatFollows
<1>7. VatFollows(B, C)
  BY <1>4, <1>5, <1>6, Zenon DEF BookStep
<1>8. QED
  BY <1>1, <1>7

LedgerKept == CashOK /\ VatFollows(balance, register)

LEMMA LedgerKeptInit ==
  ASSUME Init
  PROVE  LedgerKept
<1>1. tillSales = <<>> /\ tillReturns = <<>> /\ register = {} /\ balance = [a \in SystemAccount |-> 0]
  BY DEF Init, BooksInit
<1>2. /\ {"CASH", "VAT_OUTPUT", "SALES_REVENUE", "SALES_RETURNS"} \subseteq SystemAccount
  BY DEF SystemAccount
<1>3. /\ balance["CASH"] = 0 /\ balance["VAT_OUTPUT"] = 0 /\ balance["SALES_REVENUE"] = 0 /\ balance["SALES_RETURNS"] = 0
  BY <1>1, <1>2
<1>4. CashOK
  <2>1. PICK f, g : f = PaidColumn(tillSales) /\ g = LinesColumn(tillReturns)
    OBVIOUS
  <2>2. DOMAIN tillSales = {} /\ DOMAIN tillReturns = {}
    BY <1>1
  <2>3. DOMAIN f = {} /\ DOMAIN g = {}
    BY <2>1, <2>2 DEF PaidColumn, LinesColumn
  <2>4. SumFunction(f) = 0 /\ SumFunction(g) = 0
    BY <2>3, SumOfNone
  <2>5. QED
    BY <1>3, <2>1, <2>4 DEF CashOK, CashFollows
<1>5. VatFollows(balance, register)
  <2>1. VatOf({}, "OUTPUT") = 0 /\ BaseOf({}, "OUTPUT") = 0
    <3> DEFINE f == [r \in {r \in {} : r.direction = "OUTPUT"} |-> r.vat]
               g == [r \in {r \in {} : r.direction = "OUTPUT"} |-> r.base]
    <3>1. DOMAIN f = {} /\ DOMAIN g = {}
      OBVIOUS
    <3>2. SumFunction(f) = 0 /\ SumFunction(g) = 0
      BY <3>1, SumOfNone
    <3>3. QED
      BY <3>2 DEF VatOf, BaseOf
  <2>2. OfKind(register, "pos_sale") = {} /\ OfKind(register, "pos_return") = {}
    BY <1>1 DEF OfKind
  <2>3. PICK x \in Int : x = 0
    OBVIOUS
  <2>3a. x + x = 0
    BY <2>3
  <2>4. -x = x
    BY <2>3a, Opposite
  <2>5. VatOf(register, "OUTPUT") = x /\ BaseOf(OfKind(register, "pos_sale"), "OUTPUT") = x
        /\ BaseOf(OfKind(register, "pos_return"), "OUTPUT") = x
    BY <1>1, <2>1, <2>2, <2>3
  <2>6. balance["VAT_OUTPUT"] = x /\ balance["SALES_REVENUE"] = x /\ balance["SALES_RETURNS"] = x
    BY <1>3, <2>3
  <2>7. QED
    BY <2>4, <2>5, <2>6, Zenon DEF VatFollows
<1>6. QED
  BY <1>4, <1>5 DEF LedgerKept

LEMMA LedgerFollows ==
  ASSUME Tills, LedgerKept
  PROVE  LedgerFollowsTills
<1>1. PICK cash, paid, lines : cash = balance["CASH"] /\ paid = SumFunction(PaidColumn(tillSales)) /\ lines = SumFunction(LinesColumn(tillReturns))
  OBVIOUS
<1>2. cash <= paid + lines /\ paid <= cash + lines
  BY <1>1 DEF LedgerKept, CashOK, CashFollows
<1>3. cash \in Int /\ paid \in Int /\ lines \in Int
  <2>1. balance \in [SystemAccount -> Int] /\ "CASH" \in SystemAccount
    BY TillFacts DEF BooksRows, SystemAccount
  <2>2. QED
    BY <1>1, <2>1, LedgerColumns, NumbersSum
<1>4. Off(cash, paid) <= lines
  BY <1>2, <1>3 DEF Off
<1>5. paid = PaidAndKept /\ lines = ReturnedLines
  BY <1>1 DEF PaidAndKept, ReturnedLines, PaidColumn, LinesColumn
<1>6. Off(balance["CASH"], PaidAndKept) <= ReturnedLines
  BY <1>1, <1>4, <1>5
<1>7. /\ -balance["VAT_OUTPUT"] = VatOf(register, "OUTPUT")
      /\ BaseOf({w \in register : w.source[1] = "pos_sale"}, "OUTPUT") = -balance["SALES_REVENUE"]
      /\ BaseOf({w \in register : w.source[1] = "pos_return"}, "OUTPUT") = balance["SALES_RETURNS"]
  BY DEF LedgerKept, VatFollows, OfKind
<1>8. QED
  BY <1>6, <1>7 DEF LedgerFollowsTills

LEMMA LedgerKeptHolds == Spec => [](Tills /\ LedgerKept)
<1>1. Init => Tills /\ LedgerKept
  BY TillsInit, LedgerKeptInit
<1>2. ASSUME Tills, LedgerKept, [Next]_vars PROVE Tills' /\ LedgerKept'
  <2>1. TradeStep /\ Tills'
    BY <1>2, TradeSteps, TillsKept
  <2>2. BookStep
    BY <1>2, <2>1, BookSteps
  <2>3. CashOK'
    BY <1>2, <2>2, CashStays DEF LedgerKept
  <2>4. VatFollows(balance', register')
    BY <1>2, <2>2, VatStays DEF LedgerKept
  <2>5. VatFollows(balance, register)'
    BY <2>4 DEF VatFollows, OfKind, VatOf, BaseOf
  <2>6. QED
    BY <2>1, <2>3, <2>5 DEF LedgerKept
<1>3. QED
  BY <1>1, <1>2, PTL DEF Spec

\* The books follow the tills: the cash account is what customers paid and kept,
\* but for a rounding unit per returned line, and output VAT, revenue and returns
\* are what the VAT register says (_post_sale, _post_refund, record_sale_vat).
THEOREM LedgerAgrees == Spec => []LedgerFollowsTills
<1>1. Tills /\ LedgerKept => LedgerFollowsTills
  BY LedgerFollows
<1>2. QED
  BY <1>1, LedgerKeptHolds, PTL

-----------------------------------------------------------------------------
(* Refunds reverse their sales *)

\* A table of rows of numbers: the sum of each row.
Tabled(b) == IsFiniteSet(DOMAIN b) /\ \A i \in DOMAIN b : Numbers(b[i])
RowSums(b) == [i \in DOMAIN b |-> SumFunction(b[i])]
AddRow(f, s) == [p \in DOMAIN f |-> f[p] + On(s, p)]
ZeroRow(D) == [p \in D |-> 0]
Adding(b, i, s) == [j \in DOMAIN b |-> IF j = i THEN AddRow(b[i], s) ELSE b[j]]
Opening(b, k, D) == [j \in DOMAIN b \cup {k} |-> IF j = k THEN ZeroRow(D) ELSE b[j]]

LEMMA TableSums ==
  ASSUME NEW b, Tabled(b)
  PROVE  Numbers(RowSums(b))
<1>1. \A i \in DOMAIN b : SumFunction(b[i]) \in Int
  BY NumbersSum DEF Tabled
<1>2. QED
  BY <1>1 DEF Numbers, RowSums, Tabled

\* A row with something added to some of its places.
LEMMA RowAdded ==
  ASSUME NEW f, NEW s, Numbers(f), Numbers(s), DOMAIN s \subseteq DOMAIN f
  PROVE  /\ Numbers(AddRow(f, s)) /\ SumFunction(AddRow(f, s)) = SumFunction(f) + SumFunction(s)
         /\ SumFunction(f) \in Int /\ SumFunction(s) \in Int
<1>1. PICK g, h : g = AddRow(f, s) /\ h = [p \in DOMAIN f |-> On(s, p)]
  OBVIOUS
<1>2. /\ DOMAIN g = DOMAIN f /\ DOMAIN h = DOMAIN f /\ (\A p \in DOMAIN f : g[p] = f[p] + h[p])
      /\ (\A p \in DOMAIN s : h[p] = s[p]) /\ (\A p \in DOMAIN h \ DOMAIN s : h[p] = 0)
  BY <1>1 DEF AddRow, On
<1>3. Numbers(h)
  <2>1. ASSUME NEW p \in DOMAIN h PROVE h[p] \in Int
    <3>1. CASE p \in DOMAIN s
      BY <1>2, <3>1 DEF Numbers
    <3>2. CASE p \notin DOMAIN s
      BY <1>2, <3>2
    <3>3. QED
      BY <3>1, <3>2
  <2>2. QED
    BY <1>2, <2>1 DEF Numbers
<1>4. SumFunction(h) = SumFunction(s)
  BY <1>2, <1>3, SumNonZero
<1>5. SumFunction(g) = SumFunction(f) + SumFunction(h) /\ Numbers(g)
  BY <1>2, <1>3, SumAdd
<1>6. QED
  BY <1>1, <1>4, <1>5, NumbersSum

LEMMA TableAdded ==
  ASSUME NEW b, Tabled(b), NEW i \in DOMAIN b, NEW s, Numbers(s), DOMAIN s \subseteq DOMAIN b[i]
  PROVE  /\ Tabled(Adding(b, i, s))
         /\ SumFunction(RowSums(Adding(b, i, s))) = SumFunction(RowSums(b)) + SumFunction(s)
<1>1. PICK d, f, g, row : d = Adding(b, i, s) /\ f = RowSums(b) /\ g = RowSums(d) /\ row = AddRow(b[i], s)
  OBVIOUS
<1>2. DOMAIN d = DOMAIN b /\ d[i] = row /\ \A j \in DOMAIN b \ {i} : d[j] = b[j]
  BY <1>1 DEF Adding
<1>3. Numbers(b[i]) /\ \A j \in DOMAIN b : Numbers(b[j])
  BY DEF Tabled
<1>4. /\ Numbers(row) /\ SumFunction(row) = SumFunction(b[i]) + SumFunction(s)
      /\ SumFunction(b[i]) \in Int /\ SumFunction(s) \in Int
  BY <1>1, <1>3, RowAdded
<1>5. Tabled(d)
  <2>1. ASSUME NEW j \in DOMAIN d PROVE Numbers(d[j])
    <3>1. CASE j = i
      BY <1>2, <1>4, <3>1
    <3>2. CASE j # i
      BY <1>2, <1>3, <3>2
    <3>3. QED
      BY <3>1, <3>2
  <2>2. QED
    BY <1>2, <2>1 DEF Tabled
<1>6. PICK v \in Int : v = SumFunction(row)
  BY <1>4
<1>7. Replaces(f, g, i, v) /\ f[i] = SumFunction(b[i])
  BY <1>1, <1>2, <1>6 DEF Replaces, RowSums
<1>8. Numbers(f)
  BY <1>1, TableSums
<1>9. SumFunction(g) = SumFunction(f) - f[i] + v /\ SumFunction(f) \in Int
  BY <1>7, <1>8, ColumnChanges
<1>10. SumFunction(g) = SumFunction(f) + SumFunction(s)
  BY <1>4, <1>6, <1>7, <1>9
<1>11. QED
  BY <1>1, <1>5, <1>10

LEMMA TableOpened ==
  ASSUME NEW b, Tabled(b), NEW k, k \notin DOMAIN b, NEW D, IsFiniteSet(D)
  PROVE  /\ Tabled(Opening(b, k, D))
         /\ SumFunction(RowSums(Opening(b, k, D))) = SumFunction(RowSums(b))
<1>1. PICK d, f, g, row : d = Opening(b, k, D) /\ f = RowSums(b) /\ g = RowSums(d) /\ row = ZeroRow(D)
  OBVIOUS
<1>2. DOMAIN d = DOMAIN b \cup {k} /\ d[k] = row /\ \A j \in DOMAIN b : d[j] = b[j]
  BY <1>1 DEF Opening
<1>3. DOMAIN row = D /\ \A p \in D : row[p] = 0
  BY <1>1 DEF ZeroRow
<1>4. SumFunction(row) = 0 /\ Numbers(row)
  BY <1>3, SumOfZeros DEF Numbers
<1>5. Tabled(d)
  <2>1. IsFiniteSet(DOMAIN d)
    BY <1>2, FS_AddElement DEF Tabled
  <2>2. \A j \in DOMAIN d : Numbers(d[j])
    BY <1>2, <1>4 DEF Tabled
  <2>3. QED
    BY <2>1, <2>2 DEF Tabled
<1>6. PICK v \in Int : v = 0
  OBVIOUS
<1>7. Lengthens(f, g, k, v)
  BY <1>1, <1>2, <1>4, <1>6 DEF Lengthens, RowSums
<1>8. Numbers(f)
  BY <1>1, TableSums
<1>9. SumFunction(g) = SumFunction(f) + v /\ SumFunction(f) \in Int
  BY <1>7, <1>8, ColumnGrows
<1>10. SumFunction(g) = SumFunction(f)
  BY <1>6, <1>9
<1>11. QED
  BY <1>1, <1>5, <1>10

\* Columns that are within half of a third, place by place, are so in sum.
HalfClose(f, g, h) == \A x \in DOMAIN f : 2 * f[x] <= 2 * g[x] + h[x]

LEMMA SumsHalfClose ==
  ASSUME NEW f, NEW g, NEW h, Numbers(f), Numbers(g), Numbers(h), DOMAIN g = DOMAIN f, DOMAIN h = DOMAIN f, HalfClose(f, g, h)
  PROVE  /\ 2 * SumFunction(f) <= 2 * SumFunction(g) + SumFunction(h)
         /\ SumFunction(f) \in Int /\ SumFunction(g) \in Int /\ SumFunction(h) \in Int
<1>1. PICK ff, gg, gh : /\ ff = [x \in DOMAIN f |-> f[x] + f[x]] /\ gg = [x \in DOMAIN f |-> g[x] + g[x]]
                        /\ gh = [x \in DOMAIN f |-> gg[x] + h[x]]
  OBVIOUS
<1>2. /\ DOMAIN ff = DOMAIN f /\ DOMAIN gg = DOMAIN f /\ DOMAIN gh = DOMAIN f
      /\ (\A x \in DOMAIN f : ff[x] = f[x] + f[x]) /\ (\A x \in DOMAIN g : gg[x] = g[x] + g[x])
      /\ \A x \in DOMAIN gg : gh[x] = gg[x] + h[x]
  BY <1>1
<1>3. SumFunction(ff) = SumFunction(f) + SumFunction(f) /\ Numbers(ff) /\ SumFunction(f) \in Int
  BY <1>2, SumAdd
<1>4. SumFunction(gg) = SumFunction(g) + SumFunction(g) /\ Numbers(gg) /\ SumFunction(g) \in Int
  BY <1>2, SumAdd
<1>5. SumFunction(gh) = SumFunction(gg) + SumFunction(h) /\ Numbers(gh) /\ SumFunction(h) \in Int
  BY <1>2, <1>4, SumAdd
<1>6. \A x \in DOMAIN ff : ff[x] <= gh[x]
  <2>1. \A x \in DOMAIN f : f[x] \in Int /\ g[x] \in Int /\ h[x] \in Int
    BY DEF Numbers
  <2>2. QED
    BY <1>2, <2>1 DEF HalfClose
<1>7. SumFunction(ff) <= SumFunction(gh)
  BY <1>2, <1>3, <1>5, <1>6, SumWithin
<1>8. QED
  BY <1>3, <1>4, <1>5, <1>7

\* The net or the tax of a line; of a sale; of what comes back of it.
PartOf(amounts, part) == IF part = "net" THEN amounts.net ELSE amounts.tax
SoldPart(lines, part) == SumFunction([p \in DOMAIN lines |-> PartOf(lines[p].amounts, part)])
ShareRow(qty, lines, part) == [p \in DOMAIN qty |-> Share(PartOf(lines[p].amounts, part), qty[p], lines[p])]
OneRow(qty) == [p \in DOMAIN qty |-> 1]

LEMMA SoldParts ==
  ASSUME NEW lines
  PROVE  NetOf(LineAmounts(lines)) = SoldPart(lines, "net") /\ TaxOf(LineAmounts(lines)) = SoldPart(lines, "tax")
<1>1. PICK am : am = LineAmounts(lines)
  OBVIOUS
<1>2. DOMAIN am = DOMAIN lines /\ \A p \in DOMAIN lines : am[p] = lines[p].amounts
  BY <1>1 DEF LineAmounts
<1>3. /\ [p \in DOMAIN am |-> am[p].net] = [p \in DOMAIN lines |-> PartOf(lines[p].amounts, "net")]
      /\ [p \in DOMAIN am |-> am[p].tax] = [p \in DOMAIN lines |-> PartOf(lines[p].amounts, "tax")]
  BY <1>2 DEF PartOf
<1>4. QED
  BY <1>1, <1>3 DEF NetOf, TaxOf, SoldPart

LEMMA BackParts ==
  ASSUME NEW qty, NEW lines
  PROVE  /\ BackNet(qty, lines) = SumFunction(ShareRow(qty, lines, "net"))
         /\ BackTax(qty, lines) = SumFunction(ShareRow(qty, lines, "tax"))
<1>1. PICK am : am = RefundAmounts(qty, lines)
  OBVIOUS
<1>2. /\ DOMAIN am = DOMAIN qty
      /\ \A p \in DOMAIN qty : /\ am[p].net = Share(lines[p].amounts.net, qty[p], lines[p])
                               /\ am[p].tax = Share(lines[p].amounts.tax, qty[p], lines[p])
  BY <1>1 DEF RefundAmounts
<1>3. /\ [p \in DOMAIN am |-> am[p].net] = ShareRow(qty, lines, "net")
      /\ [p \in DOMAIN am |-> am[p].tax] = ShareRow(qty, lines, "tax")
  BY <1>2 DEF PartOf, ShareRow
<1>4. QED
  BY <1>1, <1>3 DEF BackNet, BackTax, NetOf, TaxOf

\* What came back of a line, b, is its share of amount, to within half a unit for each of c refunds.
Close(b, c, amount, l) ==
    /\ 2 * (l.qty * b) <= 2 * (amount * l.refunded) + l.qty * c
    /\ 2 * (amount * l.refunded) <= 2 * (l.qty * b) + l.qty * c

LEMMA CloseAfter ==
  ASSUME NEW b \in Int, NEW c \in Int, NEW n \in Nat, NEW d \in Nat \ {0}, NEW r \in Nat, NEW q \in Nat, NEW s,
         s = RoundHalfUp(n * q, d),
         2 * (d * b) <= 2 * (n * r) + d * c, 2 * (n * r) <= 2 * (d * b) + d * c
  PROVE  /\ s \in Nat
         /\ 2 * (d * (b + s)) <= 2 * (n * (r + q)) + d * (c + 1)
         /\ 2 * (n * (r + q)) <= 2 * (d * (b + s)) + d * (c + 1)
<1>1. n * q \in Nat
  OBVIOUS
<1>2. s \in Nat /\ 2 * d * s <= 2 * (n * q) + d /\ 2 * (n * q) - d <= 2 * d * s
  BY <1>1, RoundBound
<1>3. PICK x \in Int, y \in Int, z \in Int, w \in Int, u \in Int : x = d * b /\ y = n * r /\ z = d * c /\ w = d * s /\ u = n * q
  BY <1>2
<1>4. 2 * d * s = 2 * w
  BY <1>2, <1>3
<1>5. d * (b + s) = x + w /\ n * (r + q) = y + u /\ d * (c + 1) = z + d
  BY <1>2, <1>3
<1>6. /\ 2 * x <= 2 * y + z /\ 2 * y <= 2 * x + z /\ 2 * w <= 2 * u + d /\ 2 * u - d <= 2 * w
  BY <1>2, <1>3, <1>4
<1>7. 2 * (x + w) <= 2 * (y + u) + (z + d) /\ 2 * (y + u) <= 2 * (x + w) + (z + d)
  BY <1>6
<1>8. QED
  BY <1>2, <1>5, <1>7

\* All of a line came back: its amount did, to within half a unit for each refund.
LEMMA CloseInTheEnd ==
  ASSUME NEW b \in Int, NEW c \in Int, NEW n \in Nat, NEW d \in Nat \ {0},
         2 * (d * b) <= 2 * (n * d) + d * c, 2 * (n * d) <= 2 * (d * b) + d * c
  PROVE  2 * b <= 2 * n + c /\ 2 * n <= 2 * b + c
<1>1. ASSUME 2 * b > 2 * n + c PROVE FALSE
  <2>1. PICK w \in Nat : 2 * b = 2 * n + c + 1 + w
    <3>1. 2 * b - (2 * n + c + 1) \in Nat
      BY <1>1
    <3>2. 2 * b = 2 * n + c + 1 + (2 * b - (2 * n + c + 1))
      OBVIOUS
    <3>3. QED
      BY <3>1, <3>2
  <2>2. d * (2 * b) = d * (2 * n + c + 1 + w)
    BY <2>1
  <2>3. d * (2 * b) = 2 * (d * b) /\ d * (2 * n + c + 1 + w) = 2 * (n * d) + d * c + d + d * w /\ d * w \in Nat
    OBVIOUS
  <2>4. QED
    BY <2>2, <2>3
<1>2. ASSUME 2 * n > 2 * b + c PROVE FALSE
  <2>1. PICK w \in Nat : 2 * n = 2 * b + c + 1 + w
    <3>1. 2 * n - (2 * b + c + 1) \in Nat
      BY <1>2
    <3>2. 2 * n = 2 * b + c + 1 + (2 * n - (2 * b + c + 1))
      OBVIOUS
    <3>3. QED
      BY <3>1, <3>2
  <2>2. d * (2 * n) = d * (2 * b + c + 1 + w)
    BY <2>1
  <2>3. d * (2 * n) = 2 * (n * d) /\ d * (2 * b + c + 1 + w) = 2 * (d * b) + d * c + d + d * w /\ d * w \in Nat
    OBVIOUS
  <2>4. QED
    BY <2>2, <2>3
<1>3. QED
  BY <1>1, <1>2

\* Line by line of a sale, what its refunds gave back of the net or the tax.
CloseSale(f, g, part, sale) ==
    /\ DOMAIN f = DOMAIN sale.lines /\ DOMAIN g = DOMAIN sale.lines
    /\ \A p \in DOMAIN sale.lines : Close(f[p], g[p], PartOf(sale.lines[p].amounts, part), sale.lines[p])

\* The same for all sales: b adds up to what was given back, c to the lines it was given back for.
Backed(b, c, part, sales, total, lines) ==
    /\ Tabled(b) /\ Tabled(c) /\ DOMAIN b = DOMAIN sales /\ DOMAIN c = DOMAIN sales
    /\ \A i \in DOMAIN sales : CloseSale(b[i], c[i], part, sales[i])
    /\ SumFunction(RowSums(b)) = total /\ SumFunction(RowSums(c)) = lines

LEMMA LineTypes ==
  ASSUME NEW sale \in SaleRow, NEW part
  PROVE  /\ IsFiniteSet(DOMAIN sale.lines)
         /\ \A p \in DOMAIN sale.lines :
                /\ sale.lines[p] \in SaleLineRow /\ sale.lines[p].qty \in Nat /\ sale.lines[p].refunded \in Nat
                /\ sale.lines[p].cost \in Nat /\ PartOf(sale.lines[p].amounts, part) \in Nat
<1>1. sale.lines \in PerProduct(SaleLineRow)
  BY DEF SaleRow
<1>2. IsFiniteSet(DOMAIN sale.lines) /\ \A p \in DOMAIN sale.lines : sale.lines[p] \in SaleLineRow
  BY <1>1, OnProducts
<1>3. \A l \in SaleLineRow : /\ l.qty \in Nat /\ l.refunded \in Nat /\ l.cost \in Nat
                             /\ l.amounts.net \in Nat /\ l.amounts.tax \in Nat
  BY DEF SaleLineRow
<1>4. QED
  BY <1>2, <1>3 DEF PartOf

LEMMA CloseNew ==
  ASSUME NEW sale \in SaleRow, NEW part, \A p \in DOMAIN sale.lines : sale.lines[p].refunded = 0
  PROVE  CloseSale(ZeroRow(DOMAIN sale.lines), ZeroRow(DOMAIN sale.lines), part, sale)
<1>1. ASSUME NEW p \in DOMAIN sale.lines
      PROVE  Close(0, 0, PartOf(sale.lines[p].amounts, part), sale.lines[p])
  <2>1. PICK n \in Nat, d \in Nat : n = PartOf(sale.lines[p].amounts, part) /\ d = sale.lines[p].qty
    BY LineTypes
  <2>2. d * 0 = 0 /\ n * 0 = 0 /\ 2 * 0 <= 2 * 0 + 0
    OBVIOUS
  <2>3. QED
    BY <2>1, <2>2 DEF Close
<1>2. PICK z : z = ZeroRow(DOMAIN sale.lines)
  OBVIOUS
<1>3. DOMAIN z = DOMAIN sale.lines /\ \A p \in DOMAIN sale.lines : z[p] = 0
  BY <1>2 DEF ZeroRow
<1>4. CloseSale(z, z, part, sale)
  BY <1>1, <1>3 DEF CloseSale
<1>5. QED
  BY <1>2, <1>4

LEMMA CloseRefunded ==
  ASSUME NEW i, NEW sale, NEW new, NEW doc, Returned(i, sale, new, doc), NEW part, NEW f, NEW g,
         Numbers(f), Numbers(g), CloseSale(f, g, part, sale)
  PROVE  /\ CloseSale(AddRow(f, ShareRow(doc.qty, sale.lines, part)), AddRow(g, OneRow(doc.qty)), part, new)
         /\ Numbers(ShareRow(doc.qty, sale.lines, part)) /\ Numbers(OneRow(doc.qty))
         /\ DOMAIN ShareRow(doc.qty, sale.lines, part) \subseteq DOMAIN sale.lines
         /\ DOMAIN OneRow(doc.qty) \subseteq DOMAIN sale.lines
         /\ SumFunction(OneRow(doc.qty)) = Cardinality(DOMAIN doc.qty)
<1>1. PICK qty, s, o : qty = doc.qty /\ s = ShareRow(qty, sale.lines, part) /\ o = OneRow(qty)
  OBVIOUS
<1>2. PICK ff, gg : ff = AddRow(f, s) /\ gg = AddRow(g, o)
  OBVIOUS
<1>3. /\ sale \in SaleRow /\ SoldLines(sale) /\ qty \in PerProduct(Nat \ {0}) /\ DOMAIN qty \subseteq DOMAIN sale.lines
      /\ DOMAIN new.lines = DOMAIN sale.lines
      /\ \A p \in DOMAIN sale.lines :
            /\ new.lines[p].refunded = sale.lines[p].refunded + On(qty, p)
            /\ new.lines[p].qty = sale.lines[p].qty /\ new.lines[p].amounts = sale.lines[p].amounts
  BY <1>1 DEF Returned
<1>4. IsFiniteSet(DOMAIN qty) /\ \A p \in DOMAIN qty : qty[p] \in Nat
  BY <1>3, OnProducts
<1>5. \A p \in DOMAIN sale.lines : sale.lines[p].qty > 0
  BY <1>3 DEF SoldLines, SaleLineChecks
<1>6. /\ DOMAIN s = DOMAIN qty /\ DOMAIN o = DOMAIN qty /\ (\A p \in DOMAIN qty : o[p] = 1)
      /\ \A p \in DOMAIN qty : s[p] = Share(PartOf(sale.lines[p].amounts, part), qty[p], sale.lines[p])
  BY <1>1 DEF ShareRow, OneRow
<1>7. /\ DOMAIN f = DOMAIN sale.lines /\ DOMAIN g = DOMAIN sale.lines
      /\ \A p \in DOMAIN sale.lines : f[p] \in Int /\ g[p] \in Int
      /\ \A p \in DOMAIN sale.lines : Close(f[p], g[p], PartOf(sale.lines[p].amounts, part), sale.lines[p])
  BY DEF CloseSale, Numbers
<1>8. /\ DOMAIN ff = DOMAIN sale.lines /\ DOMAIN gg = DOMAIN sale.lines
      /\ \A p \in DOMAIN sale.lines : ff[p] = f[p] + On(s, p) /\ gg[p] = g[p] + On(o, p)
  BY <1>2, <1>7 DEF AddRow
<1>9. ASSUME NEW p \in DOMAIN sale.lines
      PROVE  /\ Close(ff[p], gg[p], PartOf(new.lines[p].amounts, part), new.lines[p])
             /\ p \in DOMAIN qty => s[p] \in Int
  <2>1. PICK n \in Nat, d \in Nat \ {0}, r \in Nat, b \in Int, c \in Int :
          /\ n = PartOf(sale.lines[p].amounts, part) /\ d = sale.lines[p].qty /\ r = sale.lines[p].refunded
          /\ b = f[p] /\ c = g[p]
    <3>1. /\ sale.lines[p].qty \in Nat /\ sale.lines[p].refunded \in Nat
          /\ PartOf(sale.lines[p].amounts, part) \in Nat
      BY <1>3, LineTypes
    <3>2. sale.lines[p].qty > 0 /\ f[p] \in Int /\ g[p] \in Int
      BY <1>5, <1>7
    <3>3. QED
      BY <3>1, <3>2
  <2>2. 2 * (d * b) <= 2 * (n * r) + d * c /\ 2 * (n * r) <= 2 * (d * b) + d * c
    BY <1>7, <2>1 DEF Close
  <2>3. PartOf(new.lines[p].amounts, part) = n /\ new.lines[p].qty = d /\ new.lines[p].refunded = r + On(qty, p)
    BY <1>3, <2>1
  <2>4. CASE p \in DOMAIN qty
    <3>1. PICK q \in Nat : q = qty[p]
      BY <1>4, <2>4
    <3>2. s[p] = RoundHalfUp(n * q, d)
      BY <1>6, <2>1, <2>4, <3>1 DEF Share
    <3>3. On(qty, p) = q /\ On(s, p) = s[p] /\ On(o, p) = 1
      BY <1>6, <2>4, <3>1 DEF On
    <3>4. PICK sh : sh = s[p]
      OBVIOUS
    <3>5. /\ sh \in Nat
          /\ 2 * (d * (b + sh)) <= 2 * (n * (r + q)) + d * (c + 1)
          /\ 2 * (n * (r + q)) <= 2 * (d * (b + sh)) + d * (c + 1)
      BY <2>2, <3>2, <3>4, CloseAfter
    <3>6. ff[p] = b + sh /\ gg[p] = c + 1 /\ new.lines[p].refunded = r + q
      BY <1>8, <2>1, <2>3, <3>3, <3>4
    <3>7. QED
      BY <2>3, <3>4, <3>5, <3>6 DEF Close
  <2>5. CASE p \notin DOMAIN qty
    <3>1. On(qty, p) = 0 /\ On(s, p) = 0 /\ On(o, p) = 0
      BY <1>6, <2>5 DEF On
    <3>2. ff[p] = b /\ gg[p] = c /\ new.lines[p].refunded = r
      BY <1>8, <2>1, <2>3, <3>1
    <3>3. QED
      BY <2>2, <2>3, <2>5, <3>2 DEF Close
  <2>6. QED
    BY <2>4, <2>5
<1>10. CloseSale(ff, gg, part, new)
  BY <1>3, <1>8, <1>9 DEF CloseSale
<1>11. Numbers(s) /\ Numbers(o)
  BY <1>3, <1>4, <1>6, <1>9 DEF Numbers
<1>12. SumFunction(o) = Cardinality(DOMAIN qty)
  BY <1>4, <1>6, SumOfOnes
<1>13. DOMAIN s \subseteq DOMAIN sale.lines /\ DOMAIN o \subseteq DOMAIN sale.lines
  BY <1>3, <1>6
<1>14. QED
  BY <1>1, <1>2, <1>10, <1>11, <1>12, <1>13, Zenon

LEMMA BackedSold ==
  ASSUME NEW sales, NEW new, NEW k, NEW sale \in SaleRow, Lengthens(sales, new, k, sale),
         \A p \in DOMAIN sale.lines : sale.lines[p].refunded = 0,
         NEW b, NEW c, NEW part, NEW total, NEW lines, Backed(b, c, part, sales, total, lines)
  PROVE  \E b2, c2 : Backed(b2, c2, part, new, total, lines)
<1>1. PICK D : D = DOMAIN sale.lines
  OBVIOUS
<1>2. PICK b2, c2 : b2 = Opening(b, k, D) /\ c2 = Opening(c, k, D)
  OBVIOUS
<1>3. k \notin DOMAIN sales /\ DOMAIN new = DOMAIN sales \cup {k} /\ new[k] = sale /\ \A j \in DOMAIN sales : new[j] = sales[j]
  BY DEF Lengthens
<1>4. /\ Tabled(b) /\ Tabled(c) /\ DOMAIN b = DOMAIN sales /\ DOMAIN c = DOMAIN sales
      /\ \A i \in DOMAIN sales : CloseSale(b[i], c[i], part, sales[i])
      /\ SumFunction(RowSums(b)) = total /\ SumFunction(RowSums(c)) = lines
  BY DEF Backed
<1>5. IsFiniteSet(D) /\ k \notin DOMAIN b /\ k \notin DOMAIN c
  BY <1>1, <1>3, <1>4, LineTypes
<1>6. Tabled(b2) /\ SumFunction(RowSums(b2)) = SumFunction(RowSums(b))
  BY <1>2, <1>4, <1>5, TableOpened
<1>7. Tabled(c2) /\ SumFunction(RowSums(c2)) = SumFunction(RowSums(c))
  BY <1>2, <1>4, <1>5, TableOpened
<1>8. CloseSale(ZeroRow(D), ZeroRow(D), part, sale)
  BY <1>1, CloseNew
<1>9. /\ DOMAIN b2 = DOMAIN new /\ DOMAIN c2 = DOMAIN new /\ b2[k] = ZeroRow(D) /\ c2[k] = ZeroRow(D)
      /\ \A j \in DOMAIN sales : b2[j] = b[j] /\ c2[j] = c[j]
  BY <1>2, <1>3, <1>4 DEF Opening
<1>10. \A i \in DOMAIN new : CloseSale(b2[i], c2[i], part, new[i])
  BY <1>3, <1>4, <1>8, <1>9
<1>11. Backed(b2, c2, part, new, total, lines)
  BY <1>4, <1>6, <1>7, <1>9, <1>10 DEF Backed
<1>12. QED
  BY <1>11

LEMMA BackedReturned ==
  ASSUME NEW i, NEW sale, NEW row, NEW doc, Returned(i, sale, row, doc),
         NEW new, Replaces(tillSales, new, i, row),
         NEW b, NEW c, NEW part, NEW total, NEW lines, Backed(b, c, part, tillSales, total, lines)
  PROVE  \E b2, c2 : Backed(b2, c2, part, new, total + SumFunction(ShareRow(doc.qty, sale.lines, part)),
                            lines + Cardinality(DOMAIN doc.qty))
<1>1. PICK s, o : s = ShareRow(doc.qty, sale.lines, part) /\ o = OneRow(doc.qty)
  OBVIOUS
<1>2. PICK b2, c2 : b2 = Adding(b, i, s) /\ c2 = Adding(c, i, o)
  OBVIOUS
<1>3. /\ i \in DOMAIN tillSales /\ DOMAIN new = DOMAIN tillSales /\ new[i] = row
      /\ \A j \in DOMAIN tillSales \ {i} : new[j] = tillSales[j]
  BY DEF Replaces
<1>4. /\ Tabled(b) /\ Tabled(c) /\ DOMAIN b = DOMAIN tillSales /\ DOMAIN c = DOMAIN tillSales
      /\ \A j \in DOMAIN tillSales : CloseSale(b[j], c[j], part, tillSales[j])
      /\ SumFunction(RowSums(b)) = total /\ SumFunction(RowSums(c)) = lines
  BY DEF Backed
<1>5. sale = tillSales[i]
  BY DEF Returned
<1>6. PICK f, g : f = b[i] /\ g = c[i]
  OBVIOUS
<1>7. Numbers(f) /\ Numbers(g) /\ CloseSale(f, g, part, sale)
  BY <1>3, <1>4, <1>5, <1>6 DEF Tabled
<1>8. /\ CloseSale(AddRow(f, s), AddRow(g, o), part, row) /\ Numbers(s) /\ Numbers(o)
      /\ DOMAIN s \subseteq DOMAIN sale.lines /\ DOMAIN o \subseteq DOMAIN sale.lines
      /\ SumFunction(o) = Cardinality(DOMAIN doc.qty)
  BY <1>1, <1>7, CloseRefunded, Zenon
<1>9. DOMAIN b[i] = DOMAIN sale.lines /\ DOMAIN c[i] = DOMAIN sale.lines
  BY <1>6, <1>7 DEF CloseSale
<1>10. Tabled(b2) /\ SumFunction(RowSums(b2)) = SumFunction(RowSums(b)) + SumFunction(s)
  BY <1>2, <1>3, <1>4, <1>8, <1>9, TableAdded
<1>11. Tabled(c2) /\ SumFunction(RowSums(c2)) = SumFunction(RowSums(c)) + SumFunction(o)
  BY <1>2, <1>3, <1>4, <1>8, <1>9, TableAdded
<1>12. /\ DOMAIN b2 = DOMAIN new /\ DOMAIN c2 = DOMAIN new /\ b2[i] = AddRow(f, s) /\ c2[i] = AddRow(g, o)
       /\ \A j \in DOMAIN tillSales \ {i} : b2[j] = b[j] /\ c2[j] = c[j]
  BY <1>2, <1>3, <1>4, <1>6 DEF Adding
<1>13. \A j \in DOMAIN new : CloseSale(b2[j], c2[j], part, new[j])
  BY <1>3, <1>4, <1>8, <1>12
<1>14. Backed(b2, c2, part, new, total + SumFunction(s), lines + Cardinality(DOMAIN doc.qty))
  BY <1>4, <1>8, <1>10, <1>11, <1>12, <1>13 DEF Backed
<1>15. QED
  BY <1>1, <1>14

\* What the goods that customers kept of a sale cost.
LeftRow(sale) == [p \in DOMAIN sale.lines |-> (sale.lines[p].qty - sale.lines[p].refunded) * sale.lines[p].cost]
LeftCost(sale) == SumFunction(LeftRow(sale))
LeftColumn(sales) == [i \in DOMAIN sales |-> LeftCost(sales[i])]
SoldColumn(sales, part) == [i \in DOMAIN sales |-> SoldPart(sales[i].lines, part)]

LEMMA LeftType ==
  ASSUME NEW sale \in SaleRow
  PROVE  Numbers(LeftRow(sale)) /\ LeftCost(sale) \in Int
<1>1. PICK f : f = LeftRow(sale)
  OBVIOUS
<1>2. IsFiniteSet(DOMAIN sale.lines)
  BY LineTypes
<1>3. \A p \in DOMAIN sale.lines : sale.lines[p].qty \in Nat /\ sale.lines[p].refunded \in Nat /\ sale.lines[p].cost \in Nat
  BY LineTypes
<1>4. DOMAIN f = DOMAIN sale.lines /\ \A p \in DOMAIN f : f[p] \in Int
  BY <1>1, <1>3 DEF LeftRow
<1>5. Numbers(f)
  BY <1>2, <1>4 DEF Numbers
<1>6. QED
  BY <1>1, <1>5, NumbersSum DEF LeftCost

LEMMA SoldType ==
  ASSUME NEW sale \in SaleRow, NEW part
  PROVE  Numbers([p \in DOMAIN sale.lines |-> PartOf(sale.lines[p].amounts, part)]) /\ SoldPart(sale.lines, part) \in Int
<1>1. PICK f : f = [p \in DOMAIN sale.lines |-> PartOf(sale.lines[p].amounts, part)]
  OBVIOUS
<1>2. IsFiniteSet(DOMAIN sale.lines) /\ \A p \in DOMAIN sale.lines : PartOf(sale.lines[p].amounts, part) \in Nat
  BY LineTypes
<1>3. Numbers(f)
  BY <1>1, <1>2 DEF Numbers
<1>4. QED
  BY <1>1, <1>3, NumbersSum DEF SoldPart

LEMMA CostSold ==
  ASSUME NEW sale \in SaleRow, \A p \in DOMAIN sale.lines : sale.lines[p].refunded = 0
  PROVE  LeftCost(sale) = SaleCost(sale.lines)
<1>1. \A p \in DOMAIN sale.lines : sale.lines[p].qty \in Nat
  BY LineTypes
<1>2. \A p \in DOMAIN sale.lines : sale.lines[p].qty - sale.lines[p].refunded = sale.lines[p].qty
  BY <1>1
<1>3. LeftRow(sale) = [p \in DOMAIN sale.lines |-> sale.lines[p].qty * sale.lines[p].cost]
  BY <1>2 DEF LeftRow
<1>4. QED
  BY <1>3 DEF LeftCost, SaleCost

LEMMA CostBack ==
  ASSUME NEW i, NEW sale, NEW new, NEW doc, Returned(i, sale, new, doc)
  PROVE  /\ LeftCost(sale) = LeftCost(new) + RefundCost(doc.qty, sale.lines)
         /\ LeftCost(new) \in Int /\ RefundCost(doc.qty, sale.lines) \in Int
<1>1. PICK qty, e, f, h : /\ qty = doc.qty /\ e = [p \in DOMAIN qty |-> qty[p] * sale.lines[p].cost]
                          /\ f = LeftRow(sale) /\ h = LeftRow(new)
  OBVIOUS
<1>2. /\ sale \in SaleRow /\ new \in SaleRow /\ qty \in PerProduct(Nat \ {0}) /\ DOMAIN qty \subseteq DOMAIN sale.lines
      /\ DOMAIN new.lines = DOMAIN sale.lines
      /\ \A p \in DOMAIN sale.lines :
            /\ new.lines[p].refunded = sale.lines[p].refunded + On(qty, p)
            /\ new.lines[p].qty = sale.lines[p].qty /\ new.lines[p].cost = sale.lines[p].cost
  BY <1>1 DEF Returned
<1>3. IsFiniteSet(DOMAIN qty) /\ \A p \in DOMAIN qty : qty[p] \in Nat
  BY <1>2, OnProducts
<1>4. \A p \in DOMAIN sale.lines : sale.lines[p].qty \in Nat /\ sale.lines[p].refunded \in Nat /\ sale.lines[p].cost \in Nat
  BY <1>2, LineTypes
<1>5. DOMAIN e = DOMAIN qty /\ DOMAIN f = DOMAIN sale.lines /\ DOMAIN h = DOMAIN sale.lines
      /\ (\A p \in DOMAIN qty : e[p] = qty[p] * sale.lines[p].cost)
      /\ (\A p \in DOMAIN sale.lines : f[p] = (sale.lines[p].qty - sale.lines[p].refunded) * sale.lines[p].cost)
      /\ (\A p \in DOMAIN sale.lines : h[p] = (new.lines[p].qty - new.lines[p].refunded) * new.lines[p].cost)
  BY <1>1, <1>2 DEF LeftRow
<1>6. Numbers(e)
  BY <1>2, <1>3, <1>4, <1>5 DEF Numbers
<1>7. Numbers(h)
  BY <1>1, <1>2, LeftType
<1>8. ASSUME NEW p \in DOMAIN sale.lines PROVE f[p] = h[p] + On(e, p)
  <2>1. PICK a \in Nat, r \in Nat, c \in Nat : a = sale.lines[p].qty /\ r = sale.lines[p].refunded /\ c = sale.lines[p].cost
    BY <1>4
  <2>2. f[p] = (a - r) * c /\ h[p] = (a - (r + On(qty, p))) * c
    BY <1>2, <1>5, <2>1
  <2>3. CASE p \in DOMAIN qty
    <3>1. PICK q \in Nat : q = qty[p]
      BY <1>3, <2>3
    <3>2. On(qty, p) = q /\ On(e, p) = q * c
      BY <1>5, <2>1, <2>3, <3>1 DEF On
    <3>3. (a - r) * c = (a - (r + q)) * c + q * c
      OBVIOUS
    <3>4. QED
      BY <2>2, <3>2, <3>3
  <2>4. CASE p \notin DOMAIN qty
    <3>1. On(qty, p) = 0 /\ On(e, p) = 0
      BY <1>5, <2>4 DEF On
    <3>2. (a - (r + 0)) * c = (a - r) * c /\ (a - r) * c \in Int
      OBVIOUS
    <3>3. QED
      BY <2>2, <3>1, <3>2
  <2>5. QED
    BY <2>3, <2>4
<1>9. f = AddRow(h, e)
  <2>1. f = [p \in DOMAIN sale.lines |-> f[p]]
    BY <1>1 DEF LeftRow
  <2>2. QED
    BY <1>5, <1>8, <2>1 DEF AddRow
<1>10. SumFunction(f) = SumFunction(h) + SumFunction(e) /\ SumFunction(h) \in Int /\ SumFunction(e) \in Int
  BY <1>2, <1>5, <1>6, <1>7, <1>9, RowAdded
<1>11. QED
  BY <1>1, <1>10 DEF LeftCost, RefundCost

\* Cost of sales is what the goods kept cost, to within half a unit for each posting.
CostClose(cogs, left, n) ==
    /\ 2 * (CostScale * cogs) <= 2 * left + CostScale * n
    /\ 2 * left <= 2 * (CostScale * cogs) + CostScale * n

LEMMA CostRounds ==
  ASSUME NEW g \in Int, NEW left \in Int, NEW n \in Int, CostClose(g, left, n), NEW cost \in Nat
  PROVE  /\ CostClose(g + PostedCost(cost), left + cost, n + 1)
         /\ CostClose(g - PostedCost(cost), left - cost, n + 1)
<1>1. CostScale \in Nat \ {0}
  BY BooksAssumption
<1>2. PICK s \in Nat \ {0} : s = CostScale
  BY <1>1
<1>3. PICK x : x = RoundHalfUp(cost, s)
  OBVIOUS
<1>4. x \in Nat /\ 2 * s * x <= 2 * cost + s /\ 2 * cost - s <= 2 * s * x
  BY <1>3, RoundBound
<1>5. PICK a \in Int, w \in Int, z \in Int : a = s * g /\ w = s * x /\ z = s * n
  BY <1>4
<1>6. 2 * a <= 2 * left + z /\ 2 * left <= 2 * a + z
  BY <1>2, <1>5 DEF CostClose
<1>7. 2 * w <= 2 * cost + s /\ 2 * cost - s <= 2 * w
  <2>1. 2 * s * x = 2 * w
    BY <1>4, <1>5
  <2>2. QED
    BY <1>4, <2>1
<1>8. s * (g + x) = a + w /\ s * (g - x) = a - w /\ s * (n + 1) = z + s
  BY <1>4, <1>5
<1>9. /\ 2 * (a + w) <= 2 * (left + cost) + (z + s) /\ 2 * (left + cost) <= 2 * (a + w) + (z + s)
      /\ 2 * (a - w) <= 2 * (left - cost) + (z + s) /\ 2 * (left - cost) <= 2 * (a - w) + (z + s)
  BY <1>6, <1>7
<1>10. /\ 2 * (s * (g + x)) <= 2 * (left + cost) + s * (n + 1) /\ 2 * (left + cost) <= 2 * (s * (g + x)) + s * (n + 1)
       /\ 2 * (s * (g - x)) <= 2 * (left - cost) + s * (n + 1) /\ 2 * (left - cost) <= 2 * (s * (g - x)) + s * (n + 1)
  BY <1>8, <1>9
<1>11. PostedCost(cost) = x
  BY <1>2, <1>3 DEF PostedCost
<1>12. QED
  BY <1>2, <1>10, <1>11 DEF CostClose

\* No goods kept: half a unit for each posting is left.
LEMMA CostInTheEnd ==
  ASSUME NEW g \in Int, NEW n \in Nat, CostClose(g, 0, n)
  PROVE  2 * Off(g, 0) <= n
<1>1. PICK s \in Nat \ {0} : s = CostScale
  BY BooksAssumption
<1>2. PICK zero \in Nat : zero = 0
  OBVIOUS
<1>3. 2 * (s * g) <= 2 * (zero * s) + s * n /\ 2 * (zero * s) <= 2 * (s * g) + s * n
  BY <1>1, <1>2 DEF CostClose
<1>4. n \in Int
  OBVIOUS
<1>5. 2 * g <= 2 * zero + n /\ 2 * zero <= 2 * g + n
  BY <1>3, <1>4, CloseInTheEnd
<1>6. QED
  BY <1>2, <1>5 DEF Off

\* Revenue is the net of all sales; cost, returned net and output VAT are off by the roundings at most.
Reversing(bal, sales, docs) ==
    /\ bal["SALES_REVENUE"] + SumFunction(SoldColumn(sales, "net")) = 0
    /\ CostClose(bal["COGS"], SumFunction(LeftColumn(sales)), Len(sales) + Len(docs))
    /\ \E b, c : Backed(b, c, "net", sales, bal["SALES_RETURNS"], SumFunction(LinesColumn(docs)))
    /\ \E b, c : Backed(b, c, "tax", sales, bal["VAT_OUTPUT"] + SumFunction(SoldColumn(sales, "tax")),
                        SumFunction(LinesColumn(docs)))

LEMMA ReversalColumns ==
  ASSUME Tills, NEW part
  PROVE  Numbers(SoldColumn(tillSales, part)) /\ Numbers(LeftColumn(tillSales)) /\ Numbers(LinesColumn(tillReturns))
<1>1. tillSales \in Seq(SaleRow)
  BY TillFacts
<1>2. IsFiniteSet(DOMAIN tillSales) /\ \A i \in DOMAIN tillSales : tillSales[i] \in SaleRow
  BY <1>1, RowsFinite
<1>3. \A i \in DOMAIN tillSales : SoldPart(tillSales[i].lines, part) \in Int
  BY <1>2, SoldType
<1>4. \A i \in DOMAIN tillSales : LeftCost(tillSales[i]) \in Int
  BY <1>2, LeftType
<1>5. Numbers(SoldColumn(tillSales, part)) /\ Numbers(LeftColumn(tillSales))
  BY <1>2, <1>3, <1>4 DEF Numbers, SoldColumn, LeftColumn
<1>6. QED
  BY <1>5, LedgerColumns

\* The columns after one sale more.
LEMMA ColumnsSold ==
  ASSUME Tills, NEW sale \in SaleRow, NEW k, NEW new, Lengthens(tillSales, new, k, sale), NEW part
  PROVE  /\ SumFunction(SoldColumn(new, part)) = SumFunction(SoldColumn(tillSales, part)) + SoldPart(sale.lines, part)
         /\ SumFunction(LeftColumn(new)) = SumFunction(LeftColumn(tillSales)) + LeftCost(sale)
         /\ SumFunction(SoldColumn(tillSales, part)) \in Int /\ SumFunction(LeftColumn(tillSales)) \in Int
<1>1. PICK S, f, g, f2, g2 : /\ S = tillSales /\ f = SoldColumn(S, part) /\ g = LeftColumn(S)
                             /\ f2 = SoldColumn(new, part) /\ g2 = LeftColumn(new)
  OBVIOUS
<1>2. k \notin DOMAIN S /\ DOMAIN new = DOMAIN S \cup {k} /\ new[k] = sale /\ \A j \in DOMAIN S : new[j] = S[j]
  BY <1>1 DEF Lengthens
<1>3. PICK v \in Int, w \in Int : v = SoldPart(sale.lines, part) /\ w = LeftCost(sale)
  BY SoldType, LeftType
<1>4. Numbers(f) /\ Numbers(g)
  BY <1>1, ReversalColumns
<1>5. Lengthens(f, f2, k, v)
  BY <1>1, <1>2, <1>3 DEF Lengthens, SoldColumn
<1>6. Lengthens(g, g2, k, w)
  BY <1>1, <1>2, <1>3 DEF Lengthens, LeftColumn
<1>7. SumFunction(f2) = SumFunction(f) + v /\ SumFunction(f) \in Int
  BY <1>4, <1>5, ColumnGrows
<1>8. SumFunction(g2) = SumFunction(g) + w /\ SumFunction(g) \in Int
  BY <1>4, <1>6, ColumnGrows
<1>9. QED
  BY <1>1, <1>3, <1>7, <1>8

\* The columns after one return more.
LEMMA ColumnsReturned ==
  ASSUME Tills, NEW i, NEW sale, NEW row, NEW doc, Returned(i, sale, row, doc),
         NEW new, Replaces(tillSales, new, i, row), NEW docs, NEW k, Lengthens(tillReturns, docs, k, doc)
  PROVE  /\ \A part \in {"net", "tax"} : SoldColumn(new, part) = SoldColumn(tillSales, part)
         /\ SumFunction(LeftColumn(new)) = SumFunction(LeftColumn(tillSales)) - RefundCost(doc.qty, sale.lines)
         /\ SumFunction(LeftColumn(tillSales)) \in Int
         /\ SumFunction(LinesColumn(docs)) = SumFunction(LinesColumn(tillReturns)) + Cardinality(DOMAIN doc.qty)
<1>1. PICK S, g, g2, h, h2 : /\ S = tillSales /\ g = LeftColumn(S) /\ g2 = LeftColumn(new)
                             /\ h = LinesColumn(tillReturns) /\ h2 = LinesColumn(docs)
  OBVIOUS
<1>2. i \in DOMAIN S /\ DOMAIN new = DOMAIN S /\ new[i] = row /\ \A j \in DOMAIN S \ {i} : new[j] = S[j]
  BY <1>1 DEF Replaces
<1>3. S[i] = sale /\ LineAmounts(row.lines) = LineAmounts(sale.lines) /\ doc \in SaleReturnRow
  BY <1>1 DEF Returned
<1>4. ASSUME NEW part \in {"net", "tax"} PROVE SoldColumn(new, part) = SoldColumn(S, part)
  <2>1. SoldPart(row.lines, part) = SoldPart(sale.lines, part)
    BY <1>3, SoldParts
  <2>2. \A j \in DOMAIN S : SoldPart(new[j].lines, part) = SoldPart(S[j].lines, part)
    BY <1>2, <1>3, <2>1
  <2>3. QED
    BY <1>2, <2>2 DEF SoldColumn
<1>5. PICK v \in Int, u \in Int : v = LeftCost(row) /\ u = RefundCost(doc.qty, sale.lines)
  BY CostBack
<1>6. Replaces(g, g2, i, v) /\ g[i] = LeftCost(sale)
  BY <1>1, <1>2, <1>3, <1>5 DEF Replaces, LeftColumn
<1>7. LeftCost(sale) = v + u
  BY <1>5, CostBack
<1>8. Numbers(g) /\ Numbers(h)
  BY <1>1, ReversalColumns
<1>9. SumFunction(g2) = SumFunction(g) - g[i] + v /\ SumFunction(g) \in Int
  BY <1>6, <1>8, ColumnChanges
<1>10. SumFunction(g2) = SumFunction(g) - u
  BY <1>6, <1>7, <1>9
<1>11. PICK n \in Nat : n = Cardinality(DOMAIN doc.qty)
  BY <1>3, ReturnLines
<1>12. Lengthens(h, h2, k, n)
  BY <1>1, <1>11 DEF Lengthens, LinesColumn
<1>13. n \in Int
  OBVIOUS
<1>14. SumFunction(h2) = SumFunction(h) + n
  BY <1>8, <1>12, <1>13, ColumnGrows
<1>15. QED
  BY <1>1, <1>4, <1>5, <1>9, <1>10, <1>11, <1>14

\* Rows are numbered 1, 2, 3, ...
Numbered(s) == Len(s) \in Nat /\ DOMAIN s = 1..Len(s)

LEMMA NumberedLonger ==
  ASSUME NEW s, NEW t, NEW row, Numbered(s), Numbered(t), Lengthens(s, t, Len(s) + 1, row)
  PROVE  Len(t) = Len(s) + 1
<1>1. PICK m \in Nat, n \in Nat : m = Len(s) /\ n = Len(t)
  BY DEF Numbered
<1>2. 1..n = (1..m) \cup {m + 1}
  BY <1>1 DEF Numbered, Lengthens
<1>3. n = m + 1
  BY <1>2
<1>4. QED
  BY <1>1, <1>3

LEMMA NumberedSame ==
  ASSUME NEW s, NEW t, Numbered(s), Numbered(t), DOMAIN t = DOMAIN s
  PROVE  Len(t) = Len(s)
<1>1. PICK m \in Nat, n \in Nat : m = Len(s) /\ n = Len(t)
  BY DEF Numbered
<1>2. 1..n = 1..m
  BY <1>1 DEF Numbered
<1>3. n = m
  BY <1>2
<1>4. QED
  BY <1>1, <1>3

LEMMA ReversalStays ==
  ASSUME Tills, BookStep, Reversing(balance, tillSales, tillReturns), Numbered(tillSales'), Numbered(tillReturns')
  PROVE  Reversing(balance', tillSales', tillReturns')
<1>1. PICK S, T, R, U, B : /\ S = tillSales /\ T = tillSales' /\ R = tillReturns /\ U = tillReturns' /\ B = balance'
  OBVIOUS
<1>2. /\ balance \in [SystemAccount -> Int] /\ {"SALES_REVENUE", "COGS", "SALES_RETURNS", "VAT_OUTPUT"} \subseteq SystemAccount
  BY TillFacts DEF BooksRows, SystemAccount
<1>3. PICK rev \in Int, g \in Int, ret \in Int, vat \in Int :
        /\ rev = balance["SALES_REVENUE"] /\ g = balance["COGS"] /\ ret = balance["SALES_RETURNS"] /\ vat = balance["VAT_OUTPUT"]
  BY <1>2
<1>4. PICK net, tax, left, lines : /\ net = SumFunction(SoldColumn(S, "net")) /\ tax = SumFunction(SoldColumn(S, "tax"))
                                   /\ left = SumFunction(LeftColumn(S)) /\ lines = SumFunction(LinesColumn(R))
  OBVIOUS
<1>5. net \in Int /\ tax \in Int /\ left \in Int /\ lines \in Int
  BY <1>1, <1>4, ReversalColumns, NumbersSum
<1>6. Numbered(S) /\ Numbered(R) /\ Numbered(T) /\ Numbered(U)
  BY <1>1, TillFacts DEF Numbered
<1>7. PICK n \in Nat : n = Len(S) + Len(R)
  BY <1>6 DEF Numbered
<1>8. /\ rev + net = 0 /\ CostClose(g, left, n)
      /\ (\E b, c : Backed(b, c, "net", S, ret, lines)) /\ (\E b, c : Backed(b, c, "tax", S, vat + tax, lines))
  BY <1>1, <1>3, <1>4, <1>7 DEF Reversing
<1>9. ASSUME QuietBooks PROVE Reversing(B, T, U)
  <2>1. /\ T = S /\ U = R /\ B["SALES_REVENUE"] = rev /\ B["COGS"] = g /\ B["SALES_RETURNS"] = ret /\ B["VAT_OUTPUT"] = vat
    BY <1>1, <1>3, <1>9 DEF QuietBooks, TillAccounts
  <2>2. QED
    BY <1>4, <1>7, <1>8, <2>1, Zenon DEF Reversing
<1>10. ASSUME NEW sale, NEW rows, SoldBooks(sale, rows) PROVE Reversing(B, T, U)
  <2>1. PICK a, t, cost, k : /\ a = SoldPart(sale.lines, "net") /\ t = SoldPart(sale.lines, "tax")
                             /\ cost = SaleCost(sale.lines) /\ k = Len(tillSales) + 1
    OBVIOUS
  <2>2. /\ sale \in SaleRow /\ Lengthens(S, T, k, sale) /\ U = R /\ \A p \in DOMAIN sale.lines : sale.lines[p].refunded = 0
    BY <1>1, <1>10, <2>1 DEF SoldBooks, SoldStep
  <2>3. a = NetOf(LineAmounts(sale.lines)) /\ t = TaxOf(LineAmounts(sale.lines))
    BY <2>1, SoldParts
  <2>4. /\ B["SALES_REVENUE"] = rev + (-a) /\ B["SALES_RETURNS"] = ret + 0 /\ B["VAT_OUTPUT"] = vat + (-t)
        /\ B["COGS"] = g + PostedCost(cost)
    BY <1>1, <1>3, <1>10, <2>1, <2>3 DEF SoldBooks, Posts
  <2>5. a \in Int /\ t \in Int
    BY <2>1, <2>2, SoldType
  <2>6. cost \in Nat /\ LeftCost(sale) = cost
    <3>1. sale.lines \in PerProduct(SaleLineRow)
      BY <2>2 DEF SaleRow
    <3>2. QED
      BY <2>1, <2>2, <3>1, SaleCostType, CostSold
  <2>7. /\ SumFunction(SoldColumn(T, "net")) = net + a /\ SumFunction(SoldColumn(T, "tax")) = tax + t
        /\ SumFunction(LeftColumn(T)) = left + cost
    BY <1>1, <1>4, <2>1, <2>2, <2>6, ColumnsSold
  <2>8. CostClose(g + PostedCost(cost), left + cost, n + 1)
    BY <1>5, <1>8, <2>6, CostRounds
  <2>9. Len(T) + Len(U) = n + 1
    <3>1. Len(T) = Len(S) + 1
      BY <1>1, <1>6, <2>1, <2>2, NumberedLonger
    <3>2. Len(S) \in Nat /\ Len(R) \in Nat
      BY <1>6 DEF Numbered
    <3>3. QED
      BY <1>7, <2>2, <3>1, <3>2
  <2>10. \E b, c : Backed(b, c, "net", T, ret, lines)
    BY <1>8, <2>2, BackedSold
  <2>11. \E b, c : Backed(b, c, "tax", T, vat + tax, lines)
    BY <1>8, <2>2, BackedSold
  <2>12. /\ rev + (-a) + (net + a) = 0 /\ ret + 0 = ret /\ vat + (-t) + (tax + t) = vat + tax
    BY <1>5, <1>8, <2>5
  <2>13. /\ B["SALES_REVENUE"] + SumFunction(SoldColumn(T, "net")) = 0 /\ B["SALES_RETURNS"] = ret
         /\ B["VAT_OUTPUT"] + SumFunction(SoldColumn(T, "tax")) = vat + tax
    BY <2>4, <2>7, <2>12
  <2>14. CostClose(B["COGS"], SumFunction(LeftColumn(T)), Len(T) + Len(U)) /\ SumFunction(LinesColumn(U)) = lines
    BY <1>4, <2>2, <2>4, <2>7, <2>8, <2>9
  <2>15. QED
    BY <2>10, <2>11, <2>13, <2>14, Zenon DEF Reversing
<1>11. ASSUME NEW i, NEW sale, NEW new, NEW doc, NEW rows, ReturnedBooks(i, sale, new, doc, rows) PROVE Reversing(B, T, U)
  <2>1. PICK a, t, cost, m, k : /\ a = SumFunction(ShareRow(doc.qty, sale.lines, "net"))
                                /\ t = SumFunction(ShareRow(doc.qty, sale.lines, "tax"))
                                /\ cost = RefundCost(doc.qty, sale.lines) /\ m = Cardinality(DOMAIN doc.qty)
                                /\ k = Len(tillReturns) + 1
    OBVIOUS
  <2>2. Returned(i, sale, new, doc) /\ Replaces(S, T, i, new) /\ Lengthens(R, U, k, doc)
    BY <1>1, <1>11, <2>1 DEF ReturnedBooks, ReturnedStep
  <2>3. a = BackNet(doc.qty, sale.lines) /\ t = BackTax(doc.qty, sale.lines)
    BY <2>1, BackParts
  <2>4. /\ B["SALES_REVENUE"] = rev + 0 /\ B["SALES_RETURNS"] = ret + a /\ B["VAT_OUTPUT"] = vat + t
        /\ B["COGS"] = g + (-PostedCost(cost)) /\ a \in Int /\ t \in Int /\ cost \in Nat
    BY <1>1, <1>3, <1>11, <2>1, <2>3 DEF ReturnedBooks, Posts
  <2>5. PICK x \in Nat : x = PostedCost(cost)
    BY <2>4, PostedCostType
  <2>6. /\ SoldColumn(T, "net") = SoldColumn(S, "net") /\ SoldColumn(T, "tax") = SoldColumn(S, "tax")
        /\ SumFunction(LeftColumn(T)) = left - cost /\ SumFunction(LinesColumn(U)) = lines + m
    BY <1>1, <1>4, <2>1, <2>2, ColumnsReturned
  <2>7. CostClose(g - x, left - cost, n + 1)
    BY <1>5, <1>8, <2>4, <2>5, CostRounds
  <2>8. Len(T) + Len(U) = n + 1
    <3>1. Len(U) = Len(R) + 1
      BY <1>1, <1>6, <2>1, <2>2, NumberedLonger
    <3>2. DOMAIN T = DOMAIN S
      BY <2>2 DEF Replaces
    <3>3. Len(T) = Len(S)
      BY <1>6, <3>2, NumberedSame
    <3>4. Len(S) \in Nat /\ Len(R) \in Nat
      BY <1>6 DEF Numbered
    <3>5. QED
      BY <1>7, <3>1, <3>3, <3>4
  <2>9. \E b, c : Backed(b, c, "net", T, ret + a, lines + m)
    <3>1. PICK b, c : Backed(b, c, "net", tillSales, ret, lines)
      BY <1>1, <1>8
    <3>2. Replaces(tillSales, T, i, new)
      BY <1>1, <2>2
    <3>3. QED
      BY <2>1, <2>2, <3>1, <3>2, BackedReturned, Zenon
  <2>10. \E b, c : Backed(b, c, "tax", T, vat + tax + t, lines + m)
    <3>1. PICK b, c, v : Backed(b, c, "tax", tillSales, v, lines) /\ v = vat + tax
      BY <1>1, <1>8
    <3>2. Replaces(tillSales, T, i, new)
      BY <1>1, <2>2
    <3>3. \E b2, c2 : Backed(b2, c2, "tax", T, v + t, lines + m)
      BY <2>1, <2>2, <3>1, <3>2, BackedReturned, Zenon
    <3>4. QED
      BY <3>1, <3>3
  <2>11. /\ rev + 0 = rev /\ vat + t + tax = vat + tax + t /\ g + (-x) = g - x
    BY <1>5, <2>4
  <2>12. /\ B["SALES_REVENUE"] + SumFunction(SoldColumn(T, "net")) = 0 /\ B["SALES_RETURNS"] = ret + a
         /\ B["VAT_OUTPUT"] + SumFunction(SoldColumn(T, "tax")) = vat + tax + t
    BY <1>4, <1>8, <2>4, <2>6, <2>11
  <2>13. CostClose(B["COGS"], SumFunction(LeftColumn(T)), Len(T) + Len(U))
    BY <2>4, <2>5, <2>6, <2>7, <2>8, <2>11
  <2>14. QED
    BY <2>6, <2>9, <2>10, <2>12, <2>13, Zenon DEF Reversing
<1>12. Reversing(B, T, U)
  BY <1>9, <1>10, <1>11, Zenon DEF BookStep
<1>13. QED
  BY <1>1, <1>12

LEMMA ReversingInit ==
  ASSUME Init
  PROVE  Reversing(balance, tillSales, tillReturns)
<1>1. tillSales = <<>> /\ tillReturns = <<>> /\ balance = [a \in SystemAccount |-> 0]
  BY DEF Init, BooksInit
<1>2. /\ {"SALES_REVENUE", "COGS", "SALES_RETURNS", "VAT_OUTPUT"} \subseteq SystemAccount
  BY DEF SystemAccount
<1>3. /\ balance["SALES_REVENUE"] = 0 /\ balance["COGS"] = 0 /\ balance["SALES_RETURNS"] = 0 /\ balance["VAT_OUTPUT"] = 0
  BY <1>1, <1>2
<1>4. DOMAIN tillSales = {} /\ DOMAIN tillReturns = {} /\ Len(tillSales) = 0 /\ Len(tillReturns) = 0
  BY <1>1
<1>5. PICK S, R : S = tillSales /\ R = tillReturns
  OBVIOUS
<1>6. /\ SumFunction(SoldColumn(S, "net")) = 0 /\ SumFunction(SoldColumn(S, "tax")) = 0
      /\ SumFunction(LeftColumn(S)) = 0 /\ SumFunction(LinesColumn(R)) = 0
  <2>1. /\ DOMAIN SoldColumn(S, "net") = {} /\ DOMAIN SoldColumn(S, "tax") = {}
        /\ DOMAIN LeftColumn(S) = {} /\ DOMAIN LinesColumn(R) = {}
    BY <1>4, <1>5 DEF SoldColumn, LeftColumn, LinesColumn
  <2>2. QED
    BY <2>1, SumOfNone
<1>7. CostClose(0, 0, 0)
  <2>1. CostScale \in Nat
    BY BooksAssumption
  <2>2. QED
    BY <2>1 DEF CostClose
<1>8. ASSUME NEW part PROVE \E b, c : Backed(b, c, part, S, 0, 0)
  <2>1. PICK b : b = [x \in {} |-> <<>>]
    OBVIOUS
  <2>2. DOMAIN b = {} /\ DOMAIN RowSums(b) = {}
    BY <2>1 DEF RowSums
  <2>3. Tabled(b) /\ SumFunction(RowSums(b)) = 0
    BY <2>2, FS_EmptySet, SumOfNone DEF Tabled
  <2>4. Backed(b, b, part, S, 0, 0)
    BY <1>4, <1>5, <2>2, <2>3 DEF Backed
  <2>5. QED
    BY <2>4
<1>9. \E b, c : Backed(b, c, "net", tillSales, balance["SALES_RETURNS"], SumFunction(LinesColumn(tillReturns)))
  BY <1>3, <1>5, <1>6, <1>8
<1>10. PICK v : v = balance["VAT_OUTPUT"] + SumFunction(SoldColumn(tillSales, "tax"))
  OBVIOUS
<1>11. v = 0
  BY <1>3, <1>5, <1>6, <1>10
<1>12. \E b, c : Backed(b, c, "tax", tillSales, v, SumFunction(LinesColumn(tillReturns)))
  BY <1>5, <1>6, <1>8, <1>11
<1>13. balance["SALES_REVENUE"] + SumFunction(SoldColumn(tillSales, "net")) = 0
  BY <1>3, <1>5, <1>6
<1>14. CostClose(balance["COGS"], SumFunction(LeftColumn(tillSales)), Len(tillSales) + Len(tillReturns))
  BY <1>3, <1>4, <1>5, <1>6, <1>7
<1>15. QED
  BY <1>9, <1>10, <1>12, <1>13, <1>14, Zenon DEF Reversing

\* All goods of all sales came back.
AllBack == \A i \in DOMAIN tillSales : \A p \in DOMAIN tillSales[i].lines :
               tillSales[i].lines[p].refunded = tillSales[i].lines[p].qty

LEMMA PartInTheEnd ==
  ASSUME Tills, AllBack, NEW part, NEW b, NEW c, NEW total, NEW lines, Backed(b, c, part, tillSales, total, lines)
  PROVE  /\ 2 * total <= 2 * SumFunction(SoldColumn(tillSales, part)) + lines
         /\ 2 * SumFunction(SoldColumn(tillSales, part)) <= 2 * total + lines
         /\ total \in Int /\ lines \in Int
<1>1. PICK S, f, g, h : S = tillSales /\ f = RowSums(b) /\ g = SoldColumn(S, part) /\ h = RowSums(c)
  OBVIOUS
<1>2. /\ Tabled(b) /\ Tabled(c) /\ DOMAIN b = DOMAIN S /\ DOMAIN c = DOMAIN S
      /\ (\A i \in DOMAIN S : CloseSale(b[i], c[i], part, S[i]))
      /\ SumFunction(f) = total /\ SumFunction(h) = lines
  BY <1>1 DEF Backed
<1>3. Numbers(f) /\ Numbers(g) /\ Numbers(h)
  BY <1>1, <1>2, TableSums, ReversalColumns
<1>4. DOMAIN f = DOMAIN S /\ DOMAIN g = DOMAIN S /\ DOMAIN h = DOMAIN S
      /\ \A i \in DOMAIN S : f[i] = SumFunction(b[i]) /\ g[i] = SoldPart(S[i].lines, part) /\ h[i] = SumFunction(c[i])
  BY <1>1, <1>2 DEF RowSums, SoldColumn
<1>5. ASSUME NEW i \in DOMAIN S
      PROVE  2 * f[i] <= 2 * g[i] + h[i] /\ 2 * g[i] <= 2 * f[i] + h[i]
  <2>1. PICK x, y, z : x = b[i] /\ z = c[i] /\ y = [p \in DOMAIN S[i].lines |-> PartOf(S[i].lines[p].amounts, part)]
    OBVIOUS
  <2>2. S[i] \in SaleRow /\ SoldLines(S[i])
    BY <1>1, TillFacts
  <2>3. Numbers(x) /\ Numbers(z) /\ CloseSale(x, z, part, S[i])
    BY <1>2, <2>1 DEF Tabled
  <2>4. Numbers(y)
    BY <2>1, <2>2, SoldType
  <2>5. DOMAIN x = DOMAIN S[i].lines /\ DOMAIN z = DOMAIN S[i].lines /\ DOMAIN y = DOMAIN S[i].lines
    BY <2>1, <2>3 DEF CloseSale
  <2>6. ASSUME NEW p \in DOMAIN S[i].lines
        PROVE  2 * x[p] <= 2 * y[p] + z[p] /\ 2 * y[p] <= 2 * x[p] + z[p]
    <3>1. Close(x[p], z[p], PartOf(S[i].lines[p].amounts, part), S[i].lines[p])
      BY <2>3 DEF CloseSale
    <3>2. S[i].lines[p].qty \in Nat /\ PartOf(S[i].lines[p].amounts, part) \in Nat
      BY <2>2, LineTypes
    <3>3. S[i].lines[p].qty > 0
      BY <2>2 DEF SoldLines, SaleLineChecks
    <3>4. x[p] \in Int /\ z[p] \in Int
      BY <2>3, <2>5 DEF Numbers
    <3>5. PICK bb \in Int, cc \in Int, n \in Nat, d \in Nat \ {0} :
            bb = x[p] /\ cc = z[p] /\ n = PartOf(S[i].lines[p].amounts, part) /\ d = S[i].lines[p].qty
      BY <3>2, <3>3, <3>4
    <3>6. S[i].lines[p].refunded = d
      BY <1>1, <3>5 DEF AllBack
    <3>7. 2 * (d * bb) <= 2 * (n * d) + d * cc /\ 2 * (n * d) <= 2 * (d * bb) + d * cc
      BY <3>1, <3>5, <3>6 DEF Close
    <3>8. 2 * bb <= 2 * n + cc /\ 2 * n <= 2 * bb + cc
      BY <3>7, CloseInTheEnd
    <3>9. y[p] = n
      BY <2>1, <3>5
    <3>10. QED
      BY <3>5, <3>8, <3>9
  <2>7. HalfClose(x, y, z) /\ HalfClose(y, x, z)
    BY <2>5, <2>6 DEF HalfClose
  <2>8. 2 * SumFunction(x) <= 2 * SumFunction(y) + SumFunction(z)
    BY <2>3, <2>4, <2>5, <2>7, SumsHalfClose
  <2>9. 2 * SumFunction(y) <= 2 * SumFunction(x) + SumFunction(z)
    BY <2>3, <2>4, <2>5, <2>7, SumsHalfClose
  <2>10. f[i] = SumFunction(x) /\ g[i] = SumFunction(y) /\ h[i] = SumFunction(z)
    BY <1>4, <2>1 DEF SoldPart
  <2>11. QED
    BY <2>8, <2>9, <2>10
<1>6. HalfClose(f, g, h) /\ HalfClose(g, f, h)
  BY <1>4, <1>5 DEF HalfClose
<1>7. 2 * SumFunction(f) <= 2 * SumFunction(g) + SumFunction(h) /\ SumFunction(f) \in Int /\ SumFunction(h) \in Int
  BY <1>3, <1>4, <1>6, SumsHalfClose
<1>8. 2 * SumFunction(g) <= 2 * SumFunction(f) + SumFunction(h)
  BY <1>3, <1>4, <1>6, SumsHalfClose
<1>9. QED
  BY <1>1, <1>2, <1>7, <1>8

LEMMA Reverses ==
  ASSUME Tills, Reversing(balance, tillSales, tillReturns)
  PROVE  RefundReversesSale
<1>1. SUFFICES ASSUME AllBack
               PROVE  /\ 2 * Off(balance["COGS"], 0) <= Len(tillSales) + Len(tillReturns)
                      /\ 2 * Off(balance["SALES_REVENUE"], -balance["SALES_RETURNS"]) <= ReturnedLines
                      /\ 2 * Off(balance["VAT_OUTPUT"], 0) <= ReturnedLines
  BY DEF RefundReversesSale, AllBack
<1>2. PICK rev \in Int, g \in Int, ret \in Int, vat \in Int :
        /\ rev = balance["SALES_REVENUE"] /\ g = balance["COGS"] /\ ret = balance["SALES_RETURNS"] /\ vat = balance["VAT_OUTPUT"]
  <2>1. balance \in [SystemAccount -> Int] /\ {"SALES_REVENUE", "COGS", "SALES_RETURNS", "VAT_OUTPUT"} \subseteq SystemAccount
    BY TillFacts DEF BooksRows, SystemAccount
  <2>2. QED
    BY <2>1
<1>3. PICK net, tax, left, lines : /\ net = SumFunction(SoldColumn(tillSales, "net")) /\ tax = SumFunction(SoldColumn(tillSales, "tax"))
                                   /\ left = SumFunction(LeftColumn(tillSales)) /\ lines = SumFunction(LinesColumn(tillReturns))
  OBVIOUS
<1>4. net \in Int /\ tax \in Int
  BY <1>3, ReversalColumns, NumbersSum
<1>5. PICK n \in Nat : n = Len(tillSales) + Len(tillReturns)
  BY TillFacts
<1>6. /\ rev + net = 0 /\ CostClose(g, left, n)
      /\ (\E b, c : Backed(b, c, "net", tillSales, ret, lines)) /\ (\E b, c : Backed(b, c, "tax", tillSales, vat + tax, lines))
  BY <1>2, <1>3, <1>5 DEF Reversing
<1>7. left = 0
  <2>1. tillSales \in Seq(SaleRow)
    BY TillFacts
  <2>2. IsFiniteSet(DOMAIN tillSales) /\ \A i \in DOMAIN tillSales : tillSales[i] \in SaleRow
    BY <2>1, RowsFinite
  <2>3. ASSUME NEW i \in DOMAIN tillSales PROVE LeftCost(tillSales[i]) = 0
    <3>1. PICK f : f = LeftRow(tillSales[i])
      OBVIOUS
    <3>2. IsFiniteSet(DOMAIN tillSales[i].lines)
      BY <2>2, LineTypes
    <3>3. ASSUME NEW p \in DOMAIN tillSales[i].lines
          PROVE  (tillSales[i].lines[p].qty - tillSales[i].lines[p].refunded) * tillSales[i].lines[p].cost = 0
      <4>1. tillSales[i].lines[p].qty \in Nat /\ tillSales[i].lines[p].cost \in Nat
        BY <2>2, LineTypes
      <4>2. PICK a \in Nat, c \in Nat : a = tillSales[i].lines[p].qty /\ c = tillSales[i].lines[p].cost
        BY <4>1
      <4>3. tillSales[i].lines[p].refunded = a
        BY <1>1, <4>2 DEF AllBack
      <4>4. (a - a) * c = 0
        OBVIOUS
      <4>5. QED
        BY <4>2, <4>3, <4>4
    <3>4. DOMAIN f = DOMAIN tillSales[i].lines /\ \A p \in DOMAIN f : f[p] = 0
      BY <3>1, <3>3 DEF LeftRow
    <3>5. QED
      BY <3>1, <3>2, <3>4, SumOfZeros DEF LeftCost
  <2>4. PICK h : h = LeftColumn(tillSales)
    OBVIOUS
  <2>5. IsFiniteSet(DOMAIN h) /\ \A i \in DOMAIN h : h[i] = 0
    BY <2>2, <2>3, <2>4 DEF LeftColumn
  <2>6. QED
    BY <1>3, <2>4, <2>5, SumOfZeros
<1>8. 2 * Off(g, 0) <= n
  BY <1>6, <1>7, CostInTheEnd
<1>9. PICK b, c : Backed(b, c, "net", tillSales, ret, lines)
  BY <1>6
<1>10. 2 * ret <= 2 * net + lines /\ 2 * net <= 2 * ret + lines /\ lines \in Int
  BY <1>1, <1>3, <1>9, PartInTheEnd
<1>10a. PICK v \in Int : v = vat + tax
  BY <1>4
<1>11. PICK d, e : Backed(d, e, "tax", tillSales, v, lines)
  BY <1>6, <1>10a
<1>12. 2 * v <= 2 * tax + lines /\ 2 * tax <= 2 * v + lines
  BY <1>1, <1>3, <1>11, PartInTheEnd
<1>13. 2 * Off(rev, -ret) <= lines
  BY <1>4, <1>6, <1>10 DEF Off
<1>14. 2 * Off(vat, 0) <= lines
  BY <1>4, <1>10, <1>10a, <1>12 DEF Off
<1>15. lines = ReturnedLines
  BY <1>3 DEF ReturnedLines, LinesColumn
<1>16. QED
  BY <1>2, <1>5, <1>8, <1>13, <1>14, <1>15

LEMMA ReversingHolds == Spec => [](Tills /\ Reversing(balance, tillSales, tillReturns))
<1>1. Init => Tills /\ Reversing(balance, tillSales, tillReturns)
  BY TillsInit, ReversingInit
<1>2. ASSUME Tills, Reversing(balance, tillSales, tillReturns), [Next]_vars
      PROVE  Tills' /\ Reversing(balance, tillSales, tillReturns)'
  <2>1. TradeStep /\ Tills'
    BY <1>2, TradeSteps, TillsKept
  <2>2. BookStep
    BY <1>2, <2>1, BookSteps
  <2>3. Numbered(tillSales') /\ Numbered(tillReturns')
    <3>1. tillSales' \in Seq(SaleRow) /\ tillReturns' \in Seq(SaleReturnRow)
      BY <2>1 DEF Tills, TypeOK, TillRows
    <3>2. QED
      BY <3>1, RowsFinite DEF Numbered
  <2>4. Reversing(balance', tillSales', tillReturns')
    BY <1>2, <2>2, <2>3, ReversalStays
  <2>5. QED
    BY <2>1, <2>4
<1>3. QED
  BY <1>1, <1>2, PTL DEF Spec

\* Refunds of a sale, in whatever parts and from whatever tills, reverse what the
\* sale recognised: once all goods are back, cost of sales, revenue less returns
\* and output VAT are zero but for half a unit for each posting and each returned
\* line, whatever goods arrived at another cost in between (refund).
THEOREM RefundsReverse == Spec => []RefundReversesSale
<1>1. Tills /\ Reversing(balance, tillSales, tillReturns) => RefundReversesSale
  BY Reverses
<1>2. QED
  BY <1>1, ReversingHolds, PTL
=============================================================================
