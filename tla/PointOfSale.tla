---------------------------- MODULE PointOfSale ----------------------------
(***************************************************************************)
(* Terminals, cash sessions, held carts, checkout and refund at the till   *)
(* (modules/pos/service.py).  Several requests are in progress at once: a  *)
(* step locks a row and reads it, or does the rest of the transaction and  *)
(* commits.  Requests of a cashier who did not open the session are        *)
(* refused and change nothing; so is a repeated request with a used key    *)
(* (Idempotency).  Terminals share one branch, each sells from its         *)
(* warehouse, and products stay active.                                    *)
(***************************************************************************)
EXTENDS Books

CONSTANTS
    Request,        \* requests that may be in progress at once
    Terminal,       \* terminals that may be created
    Shelf,          \* the warehouse a terminal is created with; nothing changes it
    Cart,           \* carts: functions of products to Line
    Floats,         \* opening floats and counted cash
    Tenders,        \* the tender types in use
    TenderAmounts,  \* amounts tendered
    Changes,        \* change given
    Arrivals,       \* quantity and unit cost <<q, u>> of goods that arrive
    MaxSessions, MaxSales, MaxReturns, MaxHolds, MaxArrivals   \* bounds

TenderType == {"CASH", "CARD", "MOBILE", "VOUCHER"}

ASSUME TillAssumption ==
    /\ \A c \in Cart : \E D \in (SUBSET Product) \ {{}} : c \in [D -> Line]
    /\ Tenders \subseteq TenderType /\ Shelf \in [Terminal -> Warehouse]
    /\ Floats \subseteq Nat /\ TenderAmounts \subseteq Nat \ {0} /\ Changes \subseteq Nat
    /\ Arrivals \subseteq (Nat \ {0}) \X Nat
    /\ {MaxSessions, MaxSales, MaxReturns, MaxHolds, MaxArrivals} \subseteq Nat

VARIABLES
    terminals,  \* pos_terminals: is_active of those that exist
    sessions,   \* pos_sessions
    tillSales,  \* sales with their lines and payments
    tillReturns,\* sale_returns with their lines
    holds,      \* held_sales, in the order they were held, with a flag when deleted
    arrivals,   \* goods received from suppliers, for the stock count
    request     \* what each request has locked and read

tills == <<terminals, sessions, tillSales, tillReturns, holds, arrivals, request>>
vars == <<books, tills>>

NoSale == [session |-> 0, warehouse |-> 0, lines |-> NoEntry, payments |-> NoEntry, refunded |-> 0]

\* No session, sale or cart has number 0: of that kind, no row is locked.
Idle == [op |-> "idle", session |-> 0, expected |-> 0, sale |-> 0, read |-> NoSale, held |-> 0]

SessionStatus == {"OPEN", "CLOSED"}

(* Rows: what the mapped classes hold. *)
SessionRow == [terminal : Terminal, status : SessionStatus, float : Nat, expected : Nat,
               variance : Int]
SaleLineRow == [qty : Nat, tax : 0..Scale, amounts : [net : Nat, tax : Nat], cost : Nat,
                refunded : Nat]
SalePayments == UNION {[S -> [amount : Nat, change : Nat]] : S \in SUBSET TenderType}
SaleRow == [session : Nat, warehouse : Warehouse, lines : PerProduct(SaleLineRow),
            payments : SalePayments, refunded : Nat]
HeldSaleRow == [session : Nat, cart : Cart, resumed : Nat]
SaleReturnRow == [sale : Nat, session : Nat, qty : PerProduct(Nat \ {0}), amount : Nat]

TillRows ==
    /\ \A t \in DOMAIN terminals : t \in Terminal /\ terminals[t] \in BOOLEAN
    /\ sessions \in Seq(SessionRow)
    /\ tillSales \in Seq(SaleRow)
    /\ holds \in Seq(HeldSaleRow)
    /\ tillReturns \in Seq(SaleReturnRow)
    /\ arrivals \in Seq([warehouse : Warehouse, product : Tracked, qty : Nat])

----------------------------------------------------------------------------
(* Terminals and the catalogue's goods *)

\* UNIQUE (tenant_id, code)
UniqueCode(t) == t \notin DOMAIN terminals

create_terminal(t) ==
    /\ UniqueCode(t)
    /\ terminals' = [u \in DOMAIN terminals \cup {t} |-> u = t \/ terminals[u]]
    /\ UNCHANGED <<sessions, tillSales, tillReturns, holds, arrivals, request, books>>

update_terminal(t, active) ==
    /\ terminals[t] # active
    /\ terminals' = [terminals EXCEPT ![t] = active]
    /\ UNCHANGED <<sessions, tillSales, tillReturns, holds, arrivals, request, books>>

\* A goods receipt of another part of the system, seen from the till.
GoodsArrive(w, p, qty, unit, read) ==
    /\ Len(arrivals) < MaxArrivals
    /\ arrivals' = Append(arrivals, [warehouse |-> w, product |-> p, qty |-> qty])
    /\ onHand' = PutBack(w, [x \in {p} |-> qty])
    /\ costPrice' = [costPrice EXCEPT ![p] =
            Repriced(p, read[p], AverageCost(w, p, qty, unit, read[p]))]
    /\ balance' = Posted(balance, goods_receipt(PostedCost(qty * unit)))
    /\ UNCHANGED <<terminals, sessions, tillSales, tillReturns, holds, request, register, returns>>

----------------------------------------------------------------------------
(* Sessions *)

\* uq_pos_sessions_open_terminal
FreeTerminal(t) ==
    \A s \in DOMAIN sessions : sessions[s].terminal = t => sessions[s].status = "CLOSED"

open_session(t, float) ==
    /\ Len(sessions) < MaxSessions
    /\ terminals[t]
    /\ FreeTerminal(t)
    /\ sessions' = Append(sessions, [terminal |-> t, status |-> "OPEN", float |-> float,
                                     expected |-> 0, variance |-> 0])
    /\ UNCHANGED <<terminals, tillSales, tillReturns, holds, arrivals, request, books>>

\* Mistake: the session is read without FOR UPDATE.
SessionFreeUnlocked(s) == TRUE

\* A locked row is free again when the request that locked it commits.
SessionFree(s) == \A r \in Request : request[r].session # s

UsableSession(s) ==
    /\ SessionFree(s)
    /\ sessions[s].status = "OPEN"
    /\ terminals[sessions[s].terminal]

CashTaken(sale) ==
    IF "CASH" \in DOMAIN sale.payments
    THEN sale.payments["CASH"].amount - sale.payments["CASH"].change ELSE 0
SalesOf(s) == {i \in DOMAIN tillSales : tillSales[i].session = s}
cash_net(s) == SumFunction([i \in SalesOf(s) |-> CashTaken(tillSales[i])])

\* _open_session; close_session then reads the cash of the session's sales.
\* Requests of other operations ignore what is read.
EnterSession(r, op, s) ==
    /\ request[r] = Idle
    /\ UsableSession(s)
    /\ request' = [request EXCEPT ![r] =
            [Idle EXCEPT !.op = op, !.session = s,
                         !.expected = IF op = "close" THEN sessions[s].float + cash_net(s) ELSE 0]]
    /\ UNCHANGED <<terminals, sessions, tillSales, tillReturns, holds, arrivals, books>>

close_session(r, counted) ==
    LET q == request[r]
    IN  /\ q.op = "close"
        /\ sessions' = [sessions EXCEPT ![q.session] =
                [@ EXCEPT !.status = "CLOSED", !.expected = q.expected,
                          !.variance = counted - q.expected]]
        /\ request' = [request EXCEPT ![r] = Idle]
        /\ UNCHANGED <<terminals, tillSales, tillReturns, holds, arrivals, books>>

----------------------------------------------------------------------------
(* Checkout *)

SaleLines(cart) ==
    [p \in DOMAIN cart |->
        LET totals == line_totals(cart[p].qty, cart[p], 1)
        IN  [qty |-> cart[p].qty, tax |-> cart[p].tax, amounts |-> totals,
             cost |-> CurrentCost(p), refunded |-> 0]]
LineAmounts(lines) == [p \in DOMAIN lines |-> lines[p].amounts]
SaleTotal(lines) == NetOf(LineAmounts(lines)) + TaxOf(LineAmounts(lines))

\* Every line has cost, of a tracked product or not.
SaleCost(lines) == SumFunction([p \in DOMAIN lines |-> lines[p].qty * lines[p].cost])

Tendered(payments) ==
    SumFunction([t \in DOMAIN payments |-> payments[t].amount - payments[t].change])
PaymentsOffered ==
    UNION {[S -> [amount : TenderAmounts, change : Changes]] : S \in (SUBSET Tenders) \ {{}}}
SaleCostEntry(lines) ==
    IF SaleCost(lines) > 0 THEN cogs_recognition(PostedCost(SaleCost(lines))) ELSE NoEntry

\* _record_vat_for_sale
VatOfSale(i, date, lines) ==
    RowsPerRate(<<"pos_sale", i>>, "OUTPUT", date, 1, lines, LineAmounts(lines))

\* A sale of nothing is posted all the same, and refused.
checkout(r, cart, payments, date) ==
    LET lines == SaleLines(cart)
        revenue == cash_sale(NetOf(LineAmounts(lines)), TaxOf(LineAmounts(lines)))
        quantities == [p \in DOMAIN cart |-> cart[p].qty]
        w == Shelf[sessions[request[r].session].terminal]
    IN  /\ request[r].op = "checkout"
        /\ Len(tillSales) < MaxSales
        /\ Available(w, quantities)
        /\ Tendered(payments) = SaleTotal(lines)
        /\ Accepted(date, revenue) /\ Accepted(date, SaleCostEntry(lines))
        /\ tillSales' = Append(tillSales, [session |-> request[r].session, warehouse |-> w,
                                           lines |-> lines, payments |-> payments,
                                           refunded |-> 0])
        /\ onHand' = TakeOut(w, quantities)
        /\ balance' = Posted(Posted(balance, revenue), SaleCostEntry(lines))
        /\ register' = register \cup VatOfSale(Len(tillSales) + 1, date, lines)
        /\ request' = [request EXCEPT ![r] = Idle]
        /\ UNCHANGED <<terminals, sessions, tillReturns, holds, arrivals, costPrice, returns>>

----------------------------------------------------------------------------
(* Held carts *)

hold(r, cart) ==
    /\ request[r].op = "hold"
    /\ Len(holds) < MaxHolds
    /\ holds' = Append(holds, [session |-> request[r].session, cart |-> cart, resumed |-> 0])
    /\ request' = [request EXCEPT ![r] = Idle]
    /\ UNCHANGED <<terminals, sessions, tillSales, tillReturns, arrivals, books>>

HeldFree(h) == holds[h].resumed = 0 /\ \A r \in Request : request[r].held # h

LockHeld(r, h) ==
    /\ request[r] = Idle
    /\ HeldFree(h)
    /\ request' = [request EXCEPT ![r] = [Idle EXCEPT !.op = "resume", !.held = h]]
    /\ UNCHANGED <<terminals, sessions, tillSales, tillReturns, holds, arrivals, books>>

\* The cart goes to the cashier and its row away.
resume(r) ==
    LET h == request[r].held
    IN  /\ request[r].op = "resume"
        /\ UsableSession(holds[h].session)
        /\ holds' = [holds EXCEPT ![h].resumed = @ + 1]
        /\ request' = [request EXCEPT ![r] = Idle]
        /\ UNCHANGED <<terminals, sessions, tillSales, tillReturns, arrivals, books>>

----------------------------------------------------------------------------
(* Refunds *)

\* Mistake: the sale and its lines are read without FOR UPDATE.
SaleFreeUnlocked(i) == TRUE

SaleFree(i) == \A r \in Request : request[r].sale # i

\* The sale's row and its lines are locked and read together.
LockSale(r, i) ==
    /\ request[r].op = "refund" /\ request[r].sale = 0
    /\ SaleFree(i)
    /\ request' = [request EXCEPT ![r].sale = i, ![r].read = tillSales[i]]
    /\ UNCHANGED <<terminals, sessions, tillSales, tillReturns, holds, arrivals, books>>

Refundable(sale) == [p \in DOMAIN sale.lines |-> sale.lines[p].qty - sale.lines[p].refunded]

\* Quantities asked for: of some lines, at most what is left of each.
RefundParts(sale) ==
    UNION {{q \in [S -> UNION {1..Refundable(sale)[p] : p \in S}] :
                \A p \in S : q[p] <= Refundable(sale)[p]} :
           S \in (SUBSET {p \in DOMAIN sale.lines : Refundable(sale)[p] > 0}) \ {{}}}

\* The part of an amount of the line, rounded by itself.
Share(amount, q, l) == RoundHalfUp(amount * q, l.qty)
LineRefund(q, l) == Share(l.amounts.net + l.amounts.tax, q, l)
RefundAmounts(qty, lines) ==
    [p \in DOMAIN qty |-> [net |-> Share(lines[p].amounts.net, qty[p], lines[p]),
                           tax |-> Share(lines[p].amounts.tax, qty[p], lines[p])]]

\* Mistake: goods come back at today's average cost.
RefundCostToday(qty, lines) == SumFunction([p \in DOMAIN qty |-> qty[p] * CurrentCost(p)])

RefundCost(qty, lines) == SumFunction([p \in DOMAIN qty |-> qty[p] * lines[p].cost])

\* Mistake: the rule of a credit note, which owes the customer, is taken.
RefundEntryOnAccount(net, tax) == IF net + tax > 0 THEN sales_return(net, tax) ELSE NoEntry

RefundEntry(net, tax) == IF net + tax > 0 THEN pos_refund(net, tax) ELSE NoEntry
RefundCostEntry(cost) == IF cost = 0 THEN NoEntry ELSE cogs_reversal(PostedCost(cost))

\* _record_vat_for_refund
VatOfRefund(i, date, lines, amounts) ==
    RowsPerRate(<<"pos_return", i>>, "OUTPUT", date, -1, lines, amounts)

RefundedLine(l, q) == [l EXCEPT !.refunded = @ + q]
RefundedSale(sale, qty, total) ==
    [sale EXCEPT
        !.refunded = @ + total,
        !.lines = [p \in DOMAIN sale.lines |->
                    IF p \in DOMAIN qty THEN RefundedLine(sale.lines[p], qty[p]) ELSE sale.lines[p]]]

refund(r, qty, date) ==
    LET i == request[r].sale
        lines == request[r].read.lines
        amount == SumFunction([p \in DOMAIN qty |-> LineRefund(qty[p], lines[p])])
        amounts == RefundAmounts(qty, lines)
        entry == RefundEntry(NetOf(amounts), TaxOf(amounts))
        costEntry == RefundCostEntry(RefundCost(qty, lines))
        sale == RefundedSale(request[r].read, qty, amount)
    IN  /\ Len(tillReturns) < MaxReturns
        /\ Accepted(date, entry) /\ Accepted(date, costEntry)
        /\ tillSales' = [tillSales EXCEPT ![i] = sale]
        /\ tillReturns' = Append(tillReturns, [sale |-> i, session |-> request[r].session,
                                               qty |-> qty, amount |-> amount])
        /\ onHand' = PutBack(request[r].read.warehouse, qty)
        /\ balance' = Posted(Posted(balance, entry), costEntry)
        /\ register' = register \cup VatOfRefund(Len(tillReturns) + 1, date, lines, amounts)
        /\ request' = [request EXCEPT ![r] = Idle]
        /\ UNCHANGED <<terminals, sessions, holds, arrivals, costPrice, returns>>

----------------------------------------------------------------------------
(* Constraints of the tables: a transaction that breaks one is rolled back. *)

SessionChecks(s) == s.float >= 0 /\ s.terminal \in DOMAIN terminals
HeldSaleKeys(h) == h.session \in DOMAIN sessions
\* refund_within_total
SaleChecks(sale) ==
    /\ sale.session \in DOMAIN sessions /\ sale.warehouse \in Warehouse
    /\ sale.refunded \in 0..SaleTotal(sale.lines)
\* refund_within_quantity
SaleLineChecks(l) == l.qty > 0 /\ l.refunded \in 0..l.qty
SalePaymentChecks(payments) ==
    \A t \in DOMAIN payments :
        /\ payments[t].amount > 0
        /\ payments[t].change \in 0..payments[t].amount
        /\ t # "CASH" => payments[t].change = 0
SaleReturnKeys(d) == d.sale \in DOMAIN tillSales /\ d.session \in DOMAIN sessions
SaleReturnLineChecks(d) ==
    \A p \in DOMAIN d.qty : p \in DOMAIN tillSales[d.sale].lines /\ d.qty[p] > 0

TillChecks ==
    /\ ProductChecks
    /\ \A s \in DOMAIN sessions : SessionChecks(sessions[s])
    /\ \A h \in DOMAIN holds : HeldSaleKeys(holds[h])
    /\ \A i \in DOMAIN tillSales :
            /\ SaleChecks(tillSales[i]) /\ SalePaymentChecks(tillSales[i].payments)
            /\ \A p \in DOMAIN tillSales[i].lines : SaleLineChecks(tillSales[i].lines[p])
    /\ \A d \in DOMAIN tillReturns :
            SaleReturnKeys(tillReturns[d]) /\ SaleReturnLineChecks(tillReturns[d])

----------------------------------------------------------------------------
\* A request that is refused, or whose client is gone, gives its locks back.
Rollback(r) ==
    /\ request[r] # Idle
    /\ request' = [request EXCEPT ![r] = Idle]
    /\ UNCHANGED <<terminals, sessions, tillSales, tillReturns, holds, arrivals, books>>

Init ==
    /\ BooksInit
    /\ terminals = [t \in {} |-> TRUE] /\ sessions = <<>> /\ tillSales = <<>>
    /\ tillReturns = <<>> /\ holds = <<>> /\ arrivals = <<>>
    /\ request = [r \in Request |-> Idle]

TillStep(r) ==
    \/ \E s \in DOMAIN sessions, op \in {"close", "checkout", "hold", "refund"} :
            EnterSession(r, op, s)
    \/ \E counted \in Floats : close_session(r, counted)
    \/ \E cart \in Cart, payments \in PaymentsOffered, d \in Date : checkout(r, cart, payments, d)
    \/ \E cart \in Cart : hold(r, cart)
    \/ \E h \in DOMAIN holds : LockHeld(r, h)
    \/ resume(r)
    \/ \E i \in DOMAIN tillSales : LockSale(r, i)
    \/ /\ request[r].sale # 0
       /\ \E qty \in RefundParts(request[r].read), d \in Date : refund(r, qty, d)
    \/ Rollback(r)

Next ==
    /\ \/ \E t \in Terminal : create_terminal(t)
       \/ \E t \in DOMAIN terminals, active \in BOOLEAN : update_terminal(t, active)
       \/ \E t \in DOMAIN terminals, float \in Floats : open_session(t, float)
       \/ \E w \in Warehouse, p \in Tracked, a \in Arrivals, read \in CostsRead :
                GoodsArrive(w, p, a[1], a[2], read)
       \/ \E r \in Request : TillStep(r)
    /\ TillChecks'

Spec == Init /\ [][Next]_vars

----------------------------------------------------------------------------
(* Type invariant: the shape of every table a till uses. *)
TypeOK == BooksRows /\ TillRows

ReturnsOf(i) == {d \in DOMAIN tillReturns : tillReturns[d].sale = i}
ReturnedOf(i, p) ==
    SumFunction([d \in ReturnsOf(i) |->
                    IF p \in DOMAIN tillReturns[d].qty THEN tillReturns[d].qty[p] ELSE 0])
PaidBackOf(i) == SumFunction([d \in ReturnsOf(i) |-> tillReturns[d].amount])
Arrived(w, p) ==
    SumFunction([a \in DOMAIN arrivals |->
                    IF arrivals[a].warehouse = w /\ arrivals[a].product = p THEN arrivals[a].qty ELSE 0])
\* What a customer keeps of product p from warehouse w.
KeptOf(sale, w, p) ==
    IF sale.warehouse = w /\ p \in DOMAIN sale.lines
    THEN sale.lines[p].qty - sale.lines[p].refunded ELSE 0
KeptByCustomers(w, p) == SumFunction([i \in DOMAIN tillSales |-> KeptOf(tillSales[i], w, p)])
PaidAndKept ==
    SumFunction([i \in DOMAIN tillSales |-> SaleTotal(tillSales[i].lines) - tillSales[i].refunded])
ReturnedLines ==
    SumFunction([d \in DOMAIN tillReturns |-> Cardinality(DOMAIN tillReturns[d].qty)])
Off(a, b) == IF a > b THEN a - b ELSE b - a

(* The count of a closed session stays true: what it expected is its float *)
(* and the cash its sales took, no sale being added by a checkout that was *)
(* in progress when the drawer was counted; and a terminal has at most one *)
(* open session.                                                           *)
ClosedCountIsFinal ==
    /\ \A s \in DOMAIN sessions : sessions[s].status = "CLOSED" =>
            sessions[s].expected = sessions[s].float + cash_net(s)
    /\ \A s, u \in DOMAIN sessions :
            sessions[s].status = "OPEN" /\ sessions[u].status = "OPEN"
            /\ sessions[s].terminal = sessions[u].terminal => s = u

(* Refunds of one sale from two tills at once are all counted on its       *)
(* lines: no more comes back than was sold, no more money than was paid,   *)
(* and the stock of each warehouse is what arrived there less what its     *)
(* customers kept, wherever they brought the rest back.                    *)
RefundsWithinSale ==
    /\ \A i \in DOMAIN tillSales :
            /\ \A p \in DOMAIN tillSales[i].lines :
                    /\ tillSales[i].lines[p].refunded = ReturnedOf(i, p)
                    /\ ReturnedOf(i, p) <= tillSales[i].lines[p].qty
            /\ tillSales[i].refunded = PaidBackOf(i)
            /\ tillSales[i].refunded <= Tendered(tillSales[i].payments)
    /\ \A w \in Warehouse, p \in Tracked :
            onHand[w][p] = OpeningStock + Arrived(w, p) - KeptByCustomers(w, p)

(* The accounts follow the tills.  Cash is what customers paid and got     *)
(* back, but for one unit of rounding per returned line: the amount given  *)
(* back is rounded once, its net and its tax each by themselves.  A basket *)
(* of several rates is posted as one amount of tax and recorded as one row *)
(* per rate: the register and the VAT, revenue and returns accounts agree. *)
LedgerFollowsTills ==
    /\ Off(balance["CASH"], PaidAndKept) <= ReturnedLines
    /\ -balance["VAT_OUTPUT"] = VatOf(register, "OUTPUT")
    /\ BaseOf({w \in register : w.source[1] = "pos_sale"}, "OUTPUT") = -balance["SALES_REVENUE"]
    /\ BaseOf({w \in register : w.source[1] = "pos_return"}, "OUTPUT") = balance["SALES_RETURNS"]

(* Sales all of whose goods came back leave nothing in cost of sales, in   *)
(* revenue less returns and in output VAT but the rounding of each posting *)
(* and of each returned line, whatever goods arrived at another cost in    *)
(* between: a refund reverses what the sale recognised.                    *)
RefundReversesSale ==
    (\A i \in DOMAIN tillSales : \A p \in DOMAIN tillSales[i].lines :
        tillSales[i].lines[p].refunded = tillSales[i].lines[p].qty)
    => /\ 2 * Off(balance["COGS"], 0) <= Len(tillSales) + Len(tillReturns)
       /\ 2 * Off(balance["SALES_REVENUE"], -balance["SALES_RETURNS"]) <= ReturnedLines
       /\ 2 * Off(balance["VAT_OUTPUT"], 0) <= ReturnedLines

============================================================================
