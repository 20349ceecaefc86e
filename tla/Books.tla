------------------------------- MODULE Books -------------------------------
(***************************************************************************)
(* What the trading documents write to besides themselves: the balances of *)
(* the system accounts (modules/accounting/posting_rules.py), the stock    *)
(* and its moving average cost (modules/inventory/service.py) and the VAT  *)
(* register with its returns (modules/vat/service.py).                     *)
(*                                                                         *)
(* A money amount counts units of the fourth decimal, a rate counts        *)
(* Scale-ths, and a unit cost counts CostScale-ths of a money unit: it     *)
(* keeps two more decimals than money.  A document's transaction is one    *)
(* step: it locks the rows it changes.  The one row it may read without a  *)
(* lock is the product: fulfil, receive and issue_credit_note compute with *)
(* a cost_price that another transaction may have replaced by the time     *)
(* they commit.  Number series, the steps of a posting, reservations and   *)
(* the locks of the stock have modules of their own (Numbering,            *)
(* Accounting, Inventory).                                                 *)
(***************************************************************************)
EXTENDS Integers, FiniteSets, FiniteSetsExt, Functions, Sequences

CONSTANTS
    Product,        \* products
    Tracked,        \* the products with is_stock_tracked
    Warehouse,      \* warehouses of the branch that trades
    AllowNegative,  \* allow_negative_inventory; TRUE also stands for a setting that changes
    LastDate,       \* bound: dates are 1..LastDate
    OpenDates,      \* dates in a fiscal period that takes postings
    Spans,          \* bound: the periods <<first, last>> a VAT return may ask for
    Scale,          \* 10^6 in the code: denominator of a rate
    CostScale,      \* 100 in the code: unit costs per money unit
    OpeningStock,   \* stock on hand in each warehouse before the first document
    OpeningCost,    \* and its unit cost
    MaxDocuments    \* bound: but for orders, nothing is added to this many documents and returns

Date == 1..LastDate

ASSUME BooksAssumption ==
    /\ IsFiniteSet(Product) /\ Tracked \subseteq Product
    /\ IsFiniteSet(Warehouse) /\ AllowNegative \in BOOLEAN
    /\ LastDate \in Nat \ {0} /\ OpenDates \subseteq Date /\ Spans \subseteq Date \X Date
    /\ Scale \in Nat \ {0} /\ CostScale \in Nat \ {0}
    /\ OpeningStock \in Nat /\ OpeningCost \in Nat /\ MaxDocuments \in Nat

VARIABLES
    balance,    \* net debit of each system account
    onHand,     \* inventory_balances.quantity_on_hand, by warehouse and product
    costPrice,  \* products.cost_price: the values committed so far, the last one current
    register,   \* vat_transactions
    returns     \* vat_returns

books == <<balance, onHand, costPrice, register, returns>>

SystemAccount ==
    {"CASH", "BANK", "AR_CONTROL", "AP_CONTROL", "INVENTORY", "GRNI", "VAT_INPUT",
     "VAT_OUTPUT", "SALES_REVENUE", "SALES_RETURNS", "COGS"}

----------------------------------------------------------------------------
(* Line arithmetic *)

RoundHalfUp(n, d) == (2 * n + d) \div (2 * d)

\* What is kept for each of some products, at least one.
PerProduct(S) == UNION {[D -> S] : D \in (SUBSET Product) \ {{}}}
Line == [qty : Nat \ {0}, price : Nat, disc : 0..Scale, tax : 0..Scale]

\* Tax is taken of the net before the net is rounded.  A price counts per-ths
\* of a money unit: 1 for a selling price, CostScale for a unit cost.
line_totals(qty, l, per) ==
    LET unrounded == qty * l.price * (Scale - l.disc)
    IN  [net |-> RoundHalfUp(unrounded, Scale * per),
         tax |-> RoundHalfUp(unrounded * l.tax, Scale * Scale * per)]

\* Amounts of the lines of a document: quantities qty, prices and rates of lines.
Amounts(qty, lines, per) == [p \in DOMAIN qty |-> line_totals(qty[p], lines[p], per)]
NetOf(amounts) == SumFunction([p \in DOMAIN amounts |-> amounts[p].net])
TaxOf(amounts) == SumFunction([p \in DOMAIN amounts |-> amounts[p].tax])

----------------------------------------------------------------------------
(* Posting rules: an entry is the net debit of each account it has a line on *)

NoEntry == [a \in {} |-> 0]

\* There is a VAT line only if there is tax.
IfTaxed(lines) ==
    Restrict(lines, {a \in DOMAIN lines : a \in {"VAT_INPUT", "VAT_OUTPUT"} => lines[a] # 0})

cogs_recognition(cost) == [COGS |-> cost, INVENTORY |-> -cost]
cogs_reversal(cost) == [INVENTORY |-> cost, COGS |-> -cost]
cash_sale(net, tax) ==
    IfTaxed([CASH |-> net + tax, SALES_REVENUE |-> -net, VAT_OUTPUT |-> -tax])
credit_sale(net, tax) ==
    IfTaxed([AR_CONTROL |-> net + tax, SALES_REVENUE |-> -net, VAT_OUTPUT |-> -tax])
customer_payment(amount, cash) ==
    IF cash THEN [CASH |-> amount, AR_CONTROL |-> -amount]
            ELSE [BANK |-> amount, AR_CONTROL |-> -amount]
sales_return(net, tax) ==
    IfTaxed([SALES_RETURNS |-> net, VAT_OUTPUT |-> tax, AR_CONTROL |-> -(net + tax)])
pos_refund(net, tax) ==
    IfTaxed([SALES_RETURNS |-> net, VAT_OUTPUT |-> tax, CASH |-> -(net + tax)])
goods_receipt(cost) == [INVENTORY |-> cost, GRNI |-> -cost]

\* Mistake: the reclaimable tax is not split off.
supplier_bill_gross(net, tax) == [GRNI |-> net + tax, AP_CONTROL |-> -(net + tax)]

supplier_bill(net, tax) ==
    IfTaxed([GRNI |-> net, VAT_INPUT |-> tax, AP_CONTROL |-> -(net + tax)])
supplier_payment(amount, cash) ==
    IF cash THEN [AP_CONTROL |-> amount, CASH |-> -amount]
            ELSE [AP_CONTROL |-> amount, BANK |-> -amount]

\* post refuses an entry without amount or outside an open period, and the
\* table a line whose two sides are zero.  NoEntry: the caller does not post.
Accepted(date, entry) ==
    entry # NoEntry =>
        /\ date \in OpenDates
        /\ \A a \in DOMAIN entry : entry[a] # 0
        /\ SumFunction(entry) = 0

Posted(b, entry) ==
    [a \in DOMAIN b |-> b[a] + IF a \in DOMAIN entry THEN entry[a] ELSE 0]

\* A cost of CostScale-ths is rounded when a journal line stores it.
PostedCost(cost) == RoundHalfUp(cost, CostScale)

----------------------------------------------------------------------------
(* Stock: quantities is a function of products, only tracked ones move *)

Moved(quantities) == Restrict(quantities, DOMAIN quantities \cap Tracked)
TakeOut(w, quantities) ==
    [onHand EXCEPT ![w] =
        [p \in Product |-> @[p] - IF p \in DOMAIN Moved(quantities) THEN quantities[p] ELSE 0]]
PutInto(w, quantities) ==
    [onHand EXCEPT ![w] =
        [p \in Product |-> @[p] + IF p \in DOMAIN Moved(quantities) THEN quantities[p] ELSE 0]]

\* Mistake: goods go to one warehouse, whichever the document names.
PutBackAnywhere(w, quantities) == PutInto(CHOOSE v \in Warehouse : TRUE, quantities)

PutBack(w, quantities) == PutInto(w, quantities)
Available(w, quantities) ==
    AllowNegative \/ \A p \in DOMAIN Moved(quantities) : quantities[p] <= onHand[w][p]

\* What a transaction that locks the product reads, and one that does not: its
\* value may be out of date, by any number of commits, when it is used.
CurrentCost(p) == costPrice[p][Len(costPrice[p])]
CostsRead ==
    {c \in [Product -> UNION {Range(costPrice[p]) : p \in Product}] :
        \A p \in Product : c[p] \in Range(costPrice[p])}
CostOf(quantities, read) ==
    SumFunction([p \in DOMAIN Moved(quantities) |-> quantities[p] * read[p]])

\* Ties are rounded away from zero, whatever the signs.
RoundedQuotient(n, d) ==
    IF n * d >= 0 THEN RoundHalfUp(IF n < 0 THEN -n ELSE n, IF d < 0 THEN -d ELSE d)
                  ELSE -RoundHalfUp(IF n < 0 THEN -n ELSE n, IF d < 0 THEN -d ELSE d)

\* The stock of the receiving warehouse is averaged with the cost of the product.
AverageCost(w, p, qty, unitCost, read) ==
    IF onHand[w][p] + qty = 0 THEN read
    ELSE RoundedQuotient(onHand[w][p] * read + qty * unitCost, onHand[w][p] + qty)

\* An average equal to the value read is no change to write.
Repriced(p, read, average) ==
    IF average = read THEN costPrice[p] ELSE Append(costPrice[p], average)

\* Constraint of products.
ProductChecks == \A p \in Product : CurrentCost(p) >= 0

----------------------------------------------------------------------------
(* VAT register and returns *)

VatRow == [source : {"invoice", "credit_note", "supplier_bill", "pos_sale", "pos_return"} \X Nat,
           direction : {"OUTPUT", "INPUT"}, date : Date, rate : 0..Scale, base : Nat,
           vat : Int, claim : 0..MaxDocuments]
VatReturnRow == [span : Spans, status : {"DRAFT", "FILED"},
                 boxes : [output : Int, input : Int, sales : Nat, purchases : Nat]]

\* One row per rate of the document with a base or a tax; claim 0 is NULL.
RowsPerRate(source, direction, date, sign, lines, amounts) ==
    {r \in {LET at == {p \in DOMAIN amounts : lines[p].tax = rate}
            IN  [source |-> source, direction |-> direction, date |-> date, rate |-> rate,
                 base |-> NetOf(Restrict(amounts, at)),
                 vat |-> sign * TaxOf(Restrict(amounts, at)), claim |-> 0] :
            rate \in {lines[p].tax : p \in DOMAIN amounts}} :
        r.base # 0 \/ r.vat # 0}

VatOf(rows, direction) ==
    SumFunction([r \in {r \in rows : r.direction = direction} |-> r.vat])
BaseOf(rows, direction) ==
    SumFunction([r \in {r \in rows : r.direction = direction} |-> r.base])
Boxes(rows) ==
    [output |-> VatOf(rows, "OUTPUT"), input |-> VatOf(rows, "INPUT"),
     sales |-> BaseOf(rows, "OUTPUT"), purchases |-> BaseOf(rows, "INPUT")]

\* Constraints of vat_transactions and vat_returns.
VatRowChecks(r, reversal) ==
    r.base >= 0 /\ r.rate <= Scale /\ IF reversal THEN r.vat <= 0 ELSE r.vat >= 0
Storable(boxes) == boxes.output >= 0 /\ boxes.input >= 0

\* Mistake: rows of an earlier return are counted again.
UnclaimedEver(span) == {r \in register : r.date \in span[1]..span[2]}

Unclaimed(span) == {r \in register : r.date \in span[1]..span[2] /\ r.claim = 0}

prepare_return(span) ==
    /\ span[1] <= span[2]
    /\ \A i \in DOMAIN returns : returns[i].span # span
    /\ Storable(Boxes(Unclaimed(span)))
    /\ returns' = Append(returns, [span |-> span, status |-> "DRAFT",
                                   boxes |-> Boxes(Unclaimed(span))])
    /\ UNCHANGED <<balance, onHand, costPrice, register>>

\* Mistake: the boxes of the draft are filed as they are.
FiledBoxesOfDraft(i) == returns[i].boxes

FiledBoxes(i) == Boxes(Unclaimed(returns[i].span))

file_return(i) ==
    /\ returns[i].status = "DRAFT"
    /\ Storable(FiledBoxes(i))
    /\ LET rows == Unclaimed(returns[i].span)
       IN  register' = (register \ rows) \cup {[r EXCEPT !.claim = i] : r \in rows}
    /\ returns' = [returns EXCEPT ![i].status = "FILED", ![i].boxes = FiledBoxes(i)]
    /\ UNCHANGED <<balance, onHand, costPrice>>

BooksRows ==
    /\ balance \in [SystemAccount -> Int] /\ onHand \in [Warehouse -> [Product -> Int]]
    /\ costPrice \in [Product -> Seq(Nat) \ {<<>>}]
    /\ \A r \in register : r \in VatRow /\ VatRowChecks(r, r.source[1] \in {"credit_note", "pos_return"})
    /\ returns \in Seq(VatReturnRow)

BooksInit ==
    /\ balance = [a \in SystemAccount |-> 0]
    /\ onHand = [w \in Warehouse |-> [p \in Product |-> IF p \in Tracked THEN OpeningStock ELSE 0]]
    /\ costPrice = [p \in Product |-> <<OpeningCost>>]
    /\ register = {}
    /\ returns = <<>>

============================================================================
