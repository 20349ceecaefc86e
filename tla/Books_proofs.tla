----------------------------- MODULE Books_proofs -----------------------------
(***************************************************************************)
(* The arithmetic of lines, entries, stock, cost and the VAT register, for *)
(* the documents of Trade and of PointOfSale.                              *)
(***************************************************************************)
EXTENDS Books, Sums_proofs

\* Functions of products.
LEMMA OnProducts ==
  ASSUME NEW S, NEW f \in PerProduct(S)
  PROVE  /\ DOMAIN f \subseteq Product /\ DOMAIN f # {} /\ IsFiniteSet(DOMAIN f)
         /\ f \in [DOMAIN f -> S] /\ \A p \in DOMAIN f : f[p] \in S
<1>1. PICK D \in (SUBSET Product) \ {{}} : f \in [D -> S]
  BY DEF PerProduct
<1>2. QED
  BY <1>1, FS_Subset, BooksAssumption

\* A function of some products.
LEMMA IsOnProducts ==
  ASSUME NEW S, NEW D, D \subseteq Product, D # {}, NEW f \in [D -> S]
  PROVE  f \in PerProduct(S)
BY DEF PerProduct

\* Rounding.
LEMMA RoundNat ==
  ASSUME NEW n \in Nat, NEW d \in Nat \ {0}
  PROVE  RoundHalfUp(n, d) \in Nat
BY DEF RoundHalfUp

\* The totals of a line are natural numbers.
LEMMA LineTotalsType ==
  ASSUME NEW qty \in Nat, NEW l, l.price \in Nat, l.disc \in 0..Scale, l.tax \in 0..Scale,
         NEW per \in Nat \ {0}
  PROVE  line_totals(qty, l, per) \in [net : Nat, tax : Nat]
<1>1. Scale \in Nat /\ Scale # 0
  BY BooksAssumption
<1>2. PICK a, b, t : a = l.price /\ b = l.disc /\ t = l.tax
  OBVIOUS
<1>3. a \in Nat /\ Scale - b \in Nat /\ t \in Nat
  BY <1>1, <1>2
<1>4. PICK c \in Nat : c = Scale - b
  BY <1>3
<1>5. qty * a \in Nat
  BY <1>3
<1>6. qty * a * c \in Nat
  BY <1>3, <1>5
<1>7. qty * a * c * t \in Nat
  BY <1>3, <1>6
<1>8. Scale * per \in Nat \ {0}
  BY <1>1
<1>9. Scale * Scale \in Nat \ {0}
  BY <1>1
<1>10. Scale * Scale * per \in Nat \ {0}
  BY <1>9
<1>11. /\ RoundHalfUp(qty * a * c, Scale * per) \in Nat
       /\ RoundHalfUp(qty * a * c * t, Scale * Scale * per) \in Nat
  BY <1>6, <1>7, <1>8, <1>10, RoundNat
<1>12. QED
  BY <1>2, <1>4, <1>11 DEF line_totals

Amount == [net : Nat, tax : Nat]

\* Positive quantities are quantities.
LEMMA Weaker ==
  ASSUME NEW S, NEW T, S \subseteq T, NEW f \in PerProduct(S)
  PROVE  f \in PerProduct(T)
BY DEF PerProduct

\* The tax line of an entry, left out when there is no tax, adds the tax.
LEMMA OnIfTaxed ==
  ASSUME NEW lines, NEW a
  PROVE  On(IfTaxed(lines), a) = On(lines, a)
<1>1. DOMAIN IfTaxed(lines) = {x \in DOMAIN lines : x \in {"VAT_INPUT", "VAT_OUTPUT"} => lines[x] # 0}
  BY DEF IfTaxed, Restrict
<1>2. \A x \in DOMAIN IfTaxed(lines) : IfTaxed(lines)[x] = lines[x]
  BY DEF IfTaxed, Restrict
<1>3. QED
  BY <1>1, <1>2 DEF On

\* An entry that is left out when it would be of nothing.
LEMMA RoundZero ==
  ASSUME NEW d \in Nat \ {0}
  PROVE  RoundHalfUp(0, d) = 0
BY DEF RoundHalfUp

\* Rounding half up is off by half a unit at most.
LEMMA RoundBound ==
  ASSUME NEW n \in Nat, NEW d \in Nat \ {0}
  PROVE  /\ RoundHalfUp(n, d) \in Nat
         /\ 2 * d * RoundHalfUp(n, d) <= 2 * n + d
         /\ 2 * n - d <= 2 * d * RoundHalfUp(n, d)
BY DEF RoundHalfUp

\* A posted cost is a natural number.
LEMMA PostedCostType ==
  ASSUME NEW c \in Nat
  PROVE  PostedCost(c) \in Nat /\ PostedCost(0) = 0
BY RoundNat, RoundZero, BooksAssumption DEF PostedCost

\* Moved keeps the tracked products.
LEMMA MovedIs ==
  ASSUME NEW qty \in PerProduct(Nat)
  PROVE  DOMAIN Moved(qty) = DOMAIN qty \cap Tracked /\ IsFiniteSet(DOMAIN Moved(qty))
<1>1. DOMAIN Moved(qty) = DOMAIN qty \cap Tracked
  BY DEF Moved, Restrict
<1>2. IsFiniteSet(DOMAIN qty) /\ DOMAIN qty \cap Tracked \subseteq DOMAIN qty
  BY OnProducts
<1>3. IsFiniteSet(DOMAIN qty \cap Tracked)
  BY <1>2, FS_Subset
<1>4. QED
  BY <1>1, <1>3

\* Stock moves keep the types of the stock.
LEMMA StockType ==
  ASSUME NEW w \in Warehouse, NEW qty \in PerProduct(Nat), onHand \in [Warehouse -> [Product -> Int]]
  PROVE  /\ PutBack(w, qty) \in [Warehouse -> [Product -> Int]]
         /\ \A v \in Warehouse, p \in Tracked :
                PutBack(w, qty)[v][p] = onHand[v][p] + IF v = w THEN On(qty, p) ELSE 0
         /\ TakeOut(w, qty) \in [Warehouse -> [Product -> Int]]
         /\ \A v \in Warehouse, p \in Tracked :
                TakeOut(w, qty)[v][p] = onHand[v][p] - IF v = w THEN On(qty, p) ELSE 0
<1>1. /\ \A p \in DOMAIN qty : qty[p] \in Nat
      /\ DOMAIN Moved(qty) = DOMAIN qty \cap Tracked /\ Tracked \subseteq Product
      /\ \A v \in Warehouse, p \in Product : onHand[v][p] \in Int
  <2>1. \A p \in DOMAIN qty : qty[p] \in Nat
    BY OnProducts
  <2>2. \A v \in Warehouse, p \in Product : onHand[v][p] \in Int
    OBVIOUS
  <2>3. QED
    BY <2>1, <2>2, MovedIs, BooksAssumption
<1>2. PICK g, h :
        /\ g = [p \in Product |-> onHand[w][p] + IF p \in DOMAIN Moved(qty) THEN qty[p] ELSE 0]
        /\ h = [p \in Product |-> onHand[w][p] - IF p \in DOMAIN Moved(qty) THEN qty[p] ELSE 0]
  OBVIOUS
<1>3. g \in [Product -> Int] /\ h \in [Product -> Int]
  BY <1>1, <1>2
<1>4. /\ \A p \in Tracked : g[p] = onHand[w][p] + On(qty, p)
      /\ \A p \in Tracked : h[p] = onHand[w][p] - On(qty, p)
  BY <1>1, <1>2 DEF On
<1>5. PutBack(w, qty) = [onHand EXCEPT ![w] = g] /\ TakeOut(w, qty) = [onHand EXCEPT ![w] = h]
  BY <1>2 DEF PutBack, PutInto, TakeOut
<1>6. /\ [onHand EXCEPT ![w] = g] \in [Warehouse -> [Product -> Int]]
      /\ [onHand EXCEPT ![w] = h] \in [Warehouse -> [Product -> Int]]
  BY <1>3
<1>7. /\ \A v \in Warehouse, p \in Tracked :
            [onHand EXCEPT ![w] = g][v][p] = onHand[v][p] + IF v = w THEN On(qty, p) ELSE 0
      /\ \A v \in Warehouse, p \in Tracked :
            [onHand EXCEPT ![w] = h][v][p] = onHand[v][p] - IF v = w THEN On(qty, p) ELSE 0
  BY <1>1, <1>4
<1>8. QED
  BY <1>5, <1>6, <1>7

\* A cost that was read, however stale, is a natural number.
LEMMA ReadType ==
  ASSUME BooksRows, NEW read \in CostsRead
  PROVE  \A p \in Product : read[p] \in Nat
<1>1. \A p \in Product : costPrice[p] \in Seq(Nat) /\ read[p] \in Range(costPrice[p])
  BY DEF BooksRows, CostsRead
<1>2. ASSUME NEW s \in Seq(Nat) PROVE Range(s) \subseteq Nat
  BY DEF Range
<1>3. QED
  BY <1>1, <1>2

\* So is the current one.
LEMMA CurrentType ==
  ASSUME BooksRows, NEW p \in Product
  PROVE  CurrentCost(p) \in Nat
<1>1. PICK s \in Seq(Nat) : s = costPrice[p] /\ s # <<>>
  BY DEF BooksRows
<1>2. Len(s) \in 1..Len(s)
  BY <1>1
<1>3. QED
  BY <1>1, <1>2 DEF CurrentCost

\* The moving average is a whole number, of either sign.
LEMMA AverageType ==
  ASSUME BooksRows, NEW w \in Warehouse, NEW p \in Product, NEW q \in Nat, NEW u \in Nat, NEW r \in Nat
  PROVE  AverageCost(w, p, q, u, r) \in Int
<1>1. PICK h \in Int : h = onHand[w][p]
  BY DEF BooksRows
<1>2. PICK n \in Int, d \in Int : n = h * r + q * u /\ d = h + q
  BY <1>1
<1>3. CASE d = 0
  BY <1>1, <1>2, <1>3 DEF AverageCost
<1>4. CASE d # 0
  <2>1. PICK m \in Nat, e \in Nat \ {0} : m = (IF n < 0 THEN -n ELSE n) /\ e = (IF d < 0 THEN -d ELSE d)
    BY <1>2, <1>4
  <2>2. RoundHalfUp(m, e) \in Nat
    BY RoundNat
  <2>3. RoundedQuotient(n, d) = RoundHalfUp(m, e) \/ RoundedQuotient(n, d) = -RoundHalfUp(m, e)
    BY <2>1 DEF RoundedQuotient
  <2>4. AverageCost(w, p, q, u, r) = RoundedQuotient(n, d)
    BY <1>1, <1>2, <1>4 DEF AverageCost
  <2>5. QED
    BY <2>2, <2>3, <2>4
<1>5. QED
  BY <1>3, <1>4

\* The costs of a product after a receipt that the table accepts.
LEMMA RepricedType ==
  ASSUME BooksRows, NEW p \in Product, NEW r \in Nat, NEW a \in Int, NEW s, s = Repriced(p, r, a),
         s[Len(s)] >= 0
  PROVE  s \in Seq(Nat) \ {<<>>}
<1>1. PICK c \in Seq(Nat) : c = costPrice[p] /\ c # <<>>
  BY DEF BooksRows
<1>2. CASE a = r
  BY <1>1, <1>2 DEF Repriced
<1>3. CASE a # r
  <2>1. s = Append(c, a)
    BY <1>1, <1>3 DEF Repriced
  <2>2. c \in Seq(Int)
    BY <1>1
  <2>3. Len(s) = Len(c) + 1 /\ s[Len(c) + 1] = a
    BY <2>1, <2>2
  <2>4. a \in Nat
    BY <2>3
  <2>5. QED
    BY <1>1, <2>1, <2>4
<1>4. QED
  BY <1>2, <1>3

\* Rows that each carry the sum of a group, none left out but groups that add up to nothing.
Grouped(v, k, R, N, row, g) ==
    /\ Numbers(v) /\ IsFiniteSet(R) /\ \A x \in DOMAIN v : k[x] \in R
    /\ N \in SUBSET R /\ \A a, b \in N : row[a] = row[b] => a = b
    /\ \A a \in N : row[a] \in DOMAIN g
    /\ \A r \in DOMAIN g : \E a \in N : r = row[a]
    /\ \A a \in N : g[row[a]] = SumFunction(Part(v, {x \in DOMAIN v : k[x] = a}))
    /\ \A a \in R \ N : SumFunction(Part(v, {x \in DOMAIN v : k[x] = a})) = 0

LEMMA GroupedRows ==
  ASSUME NEW v, NEW k, NEW R, NEW N, NEW row, NEW g, Grouped(v, k, R, N, row, g)
  PROVE  SumFunction(g) = SumFunction(v) /\ IsFiniteSet(DOMAIN g)
<1>0. /\ Numbers(v) /\ IsFiniteSet(R) /\ \A x \in DOMAIN v : k[x] \in R
      /\ N \in SUBSET R /\ \A a, b \in N : row[a] = row[b] => a = b
      /\ \A a \in N : row[a] \in DOMAIN g
      /\ \A r \in DOMAIN g : \E a \in N : r = row[a]
      /\ \A a \in N : g[row[a]] = SumFunction(Part(v, {x \in DOMAIN v : k[x] = a}))
      /\ \A a \in R \ N : SumFunction(Part(v, {x \in DOMAIN v : k[x] = a})) = 0
  BY DEF Grouped
<1>1. PICK F : F = Gathered(v, k, R)
  OBVIOUS
<1>2. SumFunction(F) = SumFunction(v)
  BY <1>0, <1>1, SumFibers DEF ByKey, Numbers
<1>3. DOMAIN F = R /\ \A a \in R : F[a] = SumFunction(Part(v, {x \in DOMAIN v : k[x] = a}))
  BY <1>1 DEF Gathered
<1>4. \A a \in R : F[a] \in Int
  <2> SUFFICES ASSUME NEW a \in R PROVE F[a] \in Int
    OBVIOUS
  <2>1. PICK s \in SUBSET DOMAIN v : s = {x \in DOMAIN v : k[x] = a}
    OBVIOUS
  <2>2. SumFunction(Part(v, s)) \in Int
    BY <1>0, PartInt DEF Numbers
  <2>3. QED
    BY <1>3, <2>1, <2>2
<1>5. PICK H : H = [a \in N |-> F[a]]
  OBVIOUS
<1>6. /\ DOMAIN H = N /\ IsFiniteSet(N) /\ \A a \in N : H[a] = F[a] /\ H[a] \in Int
      /\ DOMAIN H \subseteq DOMAIN F /\ Numbers(H) /\ Numbers(F)
      /\ \A x \in DOMAIN F \ DOMAIN H : F[x] = 0
  BY <1>0, <1>3, <1>4, <1>5, FS_Subset DEF Numbers
<1>7. SumFunction(F) = SumFunction(H)
  BY <1>6, SumNonZero
<1>8. /\ IsFiniteSet(DOMAIN H) /\ \A x \in DOMAIN H : H[x] \in Int
      /\ \A x \in DOMAIN H : row[x] \in DOMAIN g /\ g[row[x]] = H[x]
      /\ \A x, y \in DOMAIN H : row[x] = row[y] => x = y
      /\ \A y \in DOMAIN g : \E x \in DOMAIN H : row[x] = y
  BY <1>0, <1>3, <1>6
<1>9. SumFunction(g) = SumFunction(H) /\ IsFiniteSet(DOMAIN g)
  BY <1>8, SumReindex
<1>10. QED
  BY <1>2, <1>7, <1>9

\* Sums over some lines of a document.
LEMMA PartialSums ==
  ASSUME NEW D, IsFiniteSet(D), NEW amounts \in [D -> Amount], NEW S \in SUBSET D
  PROVE  /\ NetOf(Restrict(amounts, S)) \in Nat /\ TaxOf(Restrict(amounts, S)) \in Nat
         /\ TaxOf(Restrict(amounts, S)) = SumFunction(Part([p \in D |-> amounts[p].tax], S))
         /\ NetOf(Restrict(amounts, S)) = SumFunction(Part([p \in D |-> amounts[p].net], S))
<1>1. PICK a : a = Restrict(amounts, S)
  OBVIOUS
<1>2. DOMAIN a = S /\ \A p \in S : a[p] = amounts[p] /\ a[p].net \in Nat /\ a[p].tax \in Nat
  BY <1>1 DEF Restrict, Amount
<1>3. IsFiniteSet(S)
  BY FS_Subset
<1>4. PICK n, t : n = [p \in DOMAIN a |-> a[p].net] /\ t = [p \in DOMAIN a |-> a[p].tax]
  OBVIOUS
<1>5. DOMAIN n = S /\ DOMAIN t = S /\ \A p \in S : n[p] \in Nat /\ t[p] \in Nat
  BY <1>2, <1>4
<1>6. SumFunction(n) \in Nat /\ SumFunction(t) \in Nat
  BY <1>3, <1>5, SumNat
<1>7. t = Part([p \in D |-> amounts[p].tax], S) /\ n = Part([p \in D |-> amounts[p].net], S)
  BY <1>2, <1>4 DEF Part
<1>8. QED
  BY <1>1, <1>4, <1>6, <1>7 DEF TaxOf, NetOf

\* The register rows of a document: one per rate, with its tax and its base in all.
RowsFor(rows, source, direction, date, sign, lines, D, amounts) ==
    /\ source \in {"invoice", "credit_note", "supplier_bill", "pos_sale", "pos_return"} \X Nat
    /\ direction \in {"OUTPUT", "INPUT"} /\ date \in Date /\ sign \in {1, -1}
    /\ IsFiniteSet(D) /\ amounts \in [D -> Amount] /\ \A p \in D : lines[p].tax \in 0..Scale
    /\ rows = RowsPerRate(source, direction, date, sign, lines, amounts)

RowsAddUp(rows, source, direction, sign, tax, net) ==
    /\ IsFiniteSet(rows)
    /\ \A r \in rows : /\ r \in VatRow /\ r.source = source /\ r.direction = direction
                       /\ r.claim = 0 /\ (sign = 1 => r.vat >= 0) /\ (sign = -1 => r.vat <= 0)
    /\ SumFunction([r \in rows |-> r.vat]) = sign * tax
    /\ SumFunction([r \in rows |-> r.base]) = net

LEMMA RateRows ==
  ASSUME NEW rows, NEW source, NEW direction, NEW date, NEW sign, NEW lines, NEW D, NEW amounts,
         RowsFor(rows, source, direction, date, sign, lines, D, amounts)
  PROVE  RowsAddUp(rows, source, direction, sign, TaxOf(amounts), NetOf(amounts))
<1>0. /\ source \in {"invoice", "credit_note", "supplier_bill", "pos_sale", "pos_return"} \X Nat
      /\ direction \in {"OUTPUT", "INPUT"} /\ date \in Date /\ sign \in {1, -1}
      /\ IsFiniteSet(D) /\ amounts \in [D -> Amount] /\ \A p \in D : lines[p].tax \in 0..Scale
      /\ rows = RowsPerRate(source, direction, date, sign, lines, amounts)
  BY DEF RowsFor
<1> USE <1>0
<1> DEFINE Rates == {lines[p].tax : p \in D}
           At(rate) == {p \in D : lines[p].tax = rate}
           tax == [p \in D |-> amounts[p].tax]
           net == [p \in D |-> amounts[p].net]
           RowOf(rate) == [source |-> source, direction |-> direction, date |-> date, rate |-> rate,
                           base |-> NetOf(Restrict(amounts, At(rate))),
                           vat |-> sign * TaxOf(Restrict(amounts, At(rate))), claim |-> 0]
           N == {rate \in Rates : RowOf(rate).base # 0 \/ RowOf(rate).vat # 0}
<1>1. rows = {r \in {RowOf(rate) : rate \in Rates} : r.base # 0 \/ r.vat # 0}
  BY DEF RowsPerRate
<1>2. /\ \A rate : RowOf(rate).rate = rate /\ RowOf(rate).direction = direction
                   /\ RowOf(rate).source = source /\ RowOf(rate).claim = 0
      /\ \A rate : /\ RowOf(rate).base = NetOf(Restrict(amounts, At(rate)))
                   /\ RowOf(rate).vat = sign * TaxOf(Restrict(amounts, At(rate)))
  OBVIOUS
<1>3. \A rate : At(rate) \in SUBSET D
  OBVIOUS
<1>4. ASSUME NEW rate
      PROVE  /\ NetOf(Restrict(amounts, At(rate))) \in Nat /\ TaxOf(Restrict(amounts, At(rate))) \in Nat
             /\ TaxOf(Restrict(amounts, At(rate))) = SumFunction(Part(tax, At(rate)))
             /\ NetOf(Restrict(amounts, At(rate))) = SumFunction(Part(net, At(rate)))
  BY <1>3, PartialSums
<1>5. Rates \subseteq 0..Scale /\ IsFiniteSet(Rates)
  <2>1. Rates \subseteq 0..Scale
    OBVIOUS
  <2>2. IsFiniteSet(0..Scale)
    <3>1. 0 \in Int /\ Scale \in Int
      BY BooksAssumption
    <3>2. QED
      BY <3>1, FS_Interval, Zenon
  <2>3. Rates \in SUBSET (0..Scale)
    BY <2>1, Zenon
  <2>4. QED
    BY <2>1, <2>2, <2>3, FS_Subset, Zenon
<1>6. \A rate \in Rates : RowOf(rate) \in VatRow
  <2> SUFFICES ASSUME NEW rate \in Rates PROVE RowOf(rate) \in VatRow
    OBVIOUS
  <2>1. PICK n, t : n = NetOf(Restrict(amounts, At(rate))) /\ t = sign * TaxOf(Restrict(amounts, At(rate)))
    OBVIOUS
  <2>2. n \in Nat /\ t \in Int
    <3>1. n \in Nat
      BY <1>4, <2>1, Zenon
    <3>2. PICK u \in Nat : u = TaxOf(Restrict(amounts, At(rate)))
      BY <1>4, Zenon
    <3>3. t = sign * u
      BY <2>1, <3>2, Zenon
    <3>4. QED
      BY <3>1, <3>3
  <2>3. rate \in 0..Scale /\ 0 \in 0..MaxDocuments
    BY <1>5, BooksAssumption
  <2>4. RowOf(rate) = [source |-> source, direction |-> direction, date |-> date, rate |-> rate,
                       base |-> n, vat |-> t, claim |-> 0]
    BY <2>1, Zenon
  <2>5. [source |-> source, direction |-> direction, date |-> date, rate |-> rate,
         base |-> n, vat |-> t, claim |-> 0] \in VatRow
    BY <2>2, <2>3 DEF VatRow
  <2>6. QED
    BY <2>4, <2>5, Zenon
<1> DEFINE k == [p \in D |-> lines[p].tax]
<1>7. /\ Numbers(tax) /\ Numbers(net) /\ DOMAIN tax = D /\ DOMAIN net = D
      /\ \A p \in D : k[p] \in Rates
      /\ \A rate : At(rate) = {x \in D : k[x] = rate}
  BY DEF Amount, Numbers
<1>8. SumFunction(tax) = TaxOf(amounts) /\ SumFunction(net) = NetOf(amounts)
  <2>1. tax = [p \in DOMAIN amounts |-> amounts[p].tax] /\ net = [p \in DOMAIN amounts |-> amounts[p].net]
    OBVIOUS
  <2>2. QED
    BY <2>1 DEF TaxOf, NetOf
<1> DEFINE row == [rate \in Rates |-> RowOf(rate)]
<1>9. \A rate \in Rates : row[rate] = RowOf(rate)
  OBVIOUS
<1> HIDE DEF Rates, At, tax, net, RowOf, k, row
<1>10. N \in SUBSET Rates /\ (\A r \in rows : \E rate \in N : r = RowOf(rate)) /\ \A rate \in N : RowOf(rate) \in rows
  BY <1>1
<1>11. \A rate \in Rates \ N : RowOf(rate).base = 0 /\ RowOf(rate).vat = 0
  OBVIOUS
<1> HIDE DEF N
<1>12. \A r \in rows : /\ r \in VatRow /\ r.source = source /\ r.direction = direction
                       /\ r.claim = 0 /\ (sign = 1 => r.vat >= 0) /\ (sign = -1 => r.vat <= 0)
  BY <1>2, <1>4, <1>6, <1>10
<1>13. /\ \A a, b \in N : row[a] = row[b] => a = b
       /\ \A a \in N : row[a] \in rows
       /\ \A r \in rows : \E a \in N : r = row[a]
  BY <1>2, <1>9, <1>10
<1>14. PICK b, g : b = [r \in rows |-> r.base] /\ g = [r \in rows |-> sign * r.vat]
  OBVIOUS
<1>15. DOMAIN b = rows /\ DOMAIN g = rows /\ \A r \in rows : b[r] = r.base /\ g[r] = sign * r.vat
  BY <1>14
<1>16. SumFunction(b) = SumFunction(net) /\ IsFiniteSet(DOMAIN b)
  <2>1. \A a \in N : b[row[a]] = SumFunction(Part(net, {x \in DOMAIN net : k[x] = a}))
    <3> SUFFICES ASSUME NEW a \in N PROVE b[row[a]] = SumFunction(Part(net, {x \in DOMAIN net : k[x] = a}))
      OBVIOUS
    <3>1. b[row[a]] = RowOf(a).base
      BY <1>9, <1>10, <1>15
    <3>2. {x \in DOMAIN net : k[x] = a} = At(a)
      BY <1>7
    <3>3. QED
      BY <1>2, <1>4, <3>1, <3>2
  <2>2. \A a \in Rates \ N : SumFunction(Part(net, {x \in DOMAIN net : k[x] = a})) = 0
    <3> SUFFICES ASSUME NEW a \in Rates \ N PROVE SumFunction(Part(net, {x \in DOMAIN net : k[x] = a})) = 0
      OBVIOUS
    <3>1. RowOf(a).base = 0 /\ RowOf(a).base = SumFunction(Part(net, At(a)))
      BY <1>2, <1>4, <1>11
    <3>2. {x \in DOMAIN net : k[x] = a} = At(a)
      BY <1>7
    <3>3. QED
      BY <3>1, <3>2
  <2>3. \A x \in DOMAIN net : k[x] \in Rates
    BY <1>7
  <2>4. Grouped(net, k, Rates, N, row, b)
    BY <1>5, <1>7, <1>10, <1>13, <1>15, <2>1, <2>2, <2>3, Zenon DEF Grouped
  <2>5. QED
    BY <2>4, GroupedRows, Zenon
<1>17. \A a \in Rates : sign * RowOf(a).vat = SumFunction(Part(tax, At(a))) /\ RowOf(a).vat \in Int
  <2> SUFFICES ASSUME NEW a \in Rates
               PROVE  sign * RowOf(a).vat = SumFunction(Part(tax, At(a))) /\ RowOf(a).vat \in Int
    OBVIOUS
  <2>1. PICK t, u : t = SumFunction(Part(tax, At(a))) /\ u = RowOf(a).vat
    OBVIOUS
  <2>2. t \in Nat /\ u = sign * t
    BY <1>2, <1>4, <2>1
  <2>3. sign * u = t /\ u \in Int
    BY <2>2
  <2>4. QED
    BY <2>1, <2>3
<1>18. SumFunction(g) = SumFunction(tax) /\ IsFiniteSet(DOMAIN g)
  <2>1. \A a \in N : g[row[a]] = SumFunction(Part(tax, {x \in DOMAIN tax : k[x] = a}))
    <3> SUFFICES ASSUME NEW a \in N PROVE g[row[a]] = SumFunction(Part(tax, {x \in DOMAIN tax : k[x] = a}))
      OBVIOUS
    <3>1. g[row[a]] = sign * RowOf(a).vat
      BY <1>9, <1>10, <1>15
    <3>2. {x \in DOMAIN tax : k[x] = a} = At(a)
      BY <1>7
    <3>3. QED
      BY <1>10, <1>17, <3>1, <3>2
  <2>2. \A a \in Rates \ N : SumFunction(Part(tax, {x \in DOMAIN tax : k[x] = a})) = 0
    <3> SUFFICES ASSUME NEW a \in Rates \ N PROVE SumFunction(Part(tax, {x \in DOMAIN tax : k[x] = a})) = 0
      OBVIOUS
    <3>1. RowOf(a).vat = 0 /\ sign * RowOf(a).vat = SumFunction(Part(tax, At(a)))
      BY <1>11, <1>17
    <3>2. {x \in DOMAIN tax : k[x] = a} = At(a)
      BY <1>7
    <3>3. PICK t : t = SumFunction(Part(tax, At(a)))
      OBVIOUS
    <3>4. sign * 0 = 0
      OBVIOUS
    <3>5. QED
      BY <3>1, <3>2, <3>4
  <2>3. \A x \in DOMAIN tax : k[x] \in Rates
    BY <1>7
  <2>4. Grouped(tax, k, Rates, N, row, g)
    BY <1>5, <1>7, <1>10, <1>13, <1>15, <2>1, <2>2, <2>3, Zenon DEF Grouped
  <2>5. QED
    BY <2>4, GroupedRows, Zenon
<1>19. PICK h : h = [r \in rows |-> r.vat]
  OBVIOUS
<1>20. DOMAIN h = rows /\ \A r \in rows : h[r] = r.vat /\ h[r] \in Int
  BY <1>12, <1>19 DEF VatRow
<1>21. SumFunction(h) = sign * SumFunction(g)
  <2>1. \A r \in rows : g[r] \in Int /\ g[r] = sign * h[r]
    BY <1>15, <1>20
  <2>2. SumFunction(g) \in Int
    BY <1>15, <1>18, <2>1, SumSplit
  <2>3. CASE sign = 1
    <3>1. \A r \in DOMAIN g : h[r] = g[r]
      BY <1>15, <1>20, <2>1, <2>3
    <3>2. SumFunction(h) = SumFunction(g)
      BY <1>15, <1>18, <1>20, <3>1, SumSame
    <3>3. QED
      BY <2>2, <2>3, <3>2
  <2>4. CASE sign = -1
    <3>1. \A r \in DOMAIN g : g[r] \in Int /\ h[r] = -g[r]
      BY <1>15, <1>20, <2>1, <2>4
    <3>2. SumFunction(h) = -SumFunction(g)
      BY <1>15, <1>18, <1>20, <3>1, SumNegated
    <3>3. QED
      BY <2>2, <2>4, <3>2
  <2>5. QED
    BY <2>3, <2>4
<1>22. QED
  BY <1>8, <1>12, <1>14, <1>15, <1>16, <1>18, <1>19, <1>21 DEF RowsAddUp

\* The VAT and the base of two disjoint sets of register rows.
LEMMA VatUnion ==
  ASSUME NEW A, NEW B, IsFiniteSet(A), IsFiniteSet(B), \A r \in A : r \notin B,
         \A r \in A : r \in VatRow, \A r \in B : r \in VatRow, NEW direction
  PROVE  /\ VatOf(A \cup B, direction) = VatOf(A, direction) + VatOf(B, direction)
         /\ VatOf(A, direction) \in Int /\ VatOf(B, direction) \in Int
<1> DEFINE f == [r \in {r \in A : r.direction = direction} |-> r.vat]
           g == [r \in {r \in B : r.direction = direction} |-> r.vat]
           h == [r \in {r \in A \cup B : r.direction = direction} |-> r.vat]
<1>1. /\ VatOf(A \cup B, direction) = SumFunction(h) /\ VatOf(A, direction) = SumFunction(f)
      /\ VatOf(B, direction) = SumFunction(g)
  BY DEF VatOf
<1>2. \A r \in A \cup B : r.vat \in Int
  BY DEF VatRow
<1>3. DOMAIN f \subseteq A /\ DOMAIN g \subseteq B
  OBVIOUS
<1>4. IsFiniteSet(DOMAIN f) /\ IsFiniteSet(DOMAIN g)
  BY <1>3, FS_Subset
<1>5. /\ \A x \in DOMAIN f : x \notin DOMAIN g
      /\ \A x : x \in DOMAIN h <=> x \in DOMAIN f \/ x \in DOMAIN g
      /\ \A x \in DOMAIN f : f[x] \in Int /\ h[x] = f[x]
      /\ \A x \in DOMAIN g : g[x] \in Int /\ h[x] = g[x]
  BY <1>2
<1> HIDE DEF f, g, h
<1>6. SumFunction(h) = SumFunction(f) + SumFunction(g)
  BY <1>4, <1>5, SumTwo
<1>7. SumFunction(f) \in Int /\ SumFunction(g) \in Int
  BY <1>4, <1>5, SumSplit
<1>8. QED
  BY <1>1, <1>6, <1>7

LEMMA BaseUnion ==
  ASSUME NEW A, NEW B, IsFiniteSet(A), IsFiniteSet(B), \A r \in A : r \notin B,
         \A r \in A : r \in VatRow, \A r \in B : r \in VatRow, NEW direction
  PROVE  /\ BaseOf(A \cup B, direction) = BaseOf(A, direction) + BaseOf(B, direction)
         /\ BaseOf(A, direction) \in Int /\ BaseOf(B, direction) \in Int
<1> DEFINE f == [r \in {r \in A : r.direction = direction} |-> r.base]
           g == [r \in {r \in B : r.direction = direction} |-> r.base]
           h == [r \in {r \in A \cup B : r.direction = direction} |-> r.base]
<1>1. /\ BaseOf(A \cup B, direction) = SumFunction(h) /\ BaseOf(A, direction) = SumFunction(f)
      /\ BaseOf(B, direction) = SumFunction(g)
  BY DEF BaseOf
<1>2. \A r \in A \cup B : r.base \in Int
  BY DEF VatRow
<1>3. DOMAIN f \subseteq A /\ DOMAIN g \subseteq B
  OBVIOUS
<1>4. IsFiniteSet(DOMAIN f) /\ IsFiniteSet(DOMAIN g)
  BY <1>3, FS_Subset
<1>5. /\ \A x \in DOMAIN f : x \notin DOMAIN g
      /\ \A x : x \in DOMAIN h <=> x \in DOMAIN f \/ x \in DOMAIN g
      /\ \A x \in DOMAIN f : f[x] \in Int /\ h[x] = f[x]
      /\ \A x \in DOMAIN g : g[x] \in Int /\ h[x] = g[x]
  BY <1>2
<1> HIDE DEF f, g, h
<1>6. SumFunction(h) = SumFunction(f) + SumFunction(g)
  BY <1>4, <1>5, SumTwo
<1>7. SumFunction(f) \in Int /\ SumFunction(g) \in Int
  BY <1>4, <1>5, SumSplit
<1>8. QED
  BY <1>1, <1>6, <1>7

\* Rows of one direction count in that direction only.
LEMMA VatOfOneDirection ==
  ASSUME NEW rows, NEW d, \A r \in rows : r.direction = d
  PROVE  /\ VatOf(rows, d) = SumFunction([r \in rows |-> r.vat])
         /\ \A e : e # d => VatOf(rows, e) = 0
<1>1. {r \in rows : r.direction = d} = rows
  OBVIOUS
<1>2. VatOf(rows, d) = SumFunction([r \in rows |-> r.vat])
  BY <1>1 DEF VatOf
<1>3. ASSUME NEW e, e # d
      PROVE  VatOf(rows, e) = 0
  <2> DEFINE f == [r \in {r \in rows : r.direction = e} |-> r.vat]
  <2>1. DOMAIN f = {}
    BY <1>3
  <2>2. SumFunction(f) = 0
    BY <2>1, SumOfNone
  <2>3. QED
    BY <2>2 DEF VatOf
<1>4. QED
  BY <1>2, <1>3

LEMMA BaseOfOneDirection ==
  ASSUME NEW rows, NEW d, \A r \in rows : r.direction = d
  PROVE  /\ BaseOf(rows, d) = SumFunction([r \in rows |-> r.base])
         /\ \A e : e # d => BaseOf(rows, e) = 0
<1>1. {r \in rows : r.direction = d} = rows
  OBVIOUS
<1>2. BaseOf(rows, d) = SumFunction([r \in rows |-> r.base])
  BY <1>1 DEF BaseOf
<1>3. ASSUME NEW e, e # d
      PROVE  BaseOf(rows, e) = 0
  <2> DEFINE f == [r \in {r \in rows : r.direction = e} |-> r.base]
  <2>1. DOMAIN f = {}
    BY <1>3
  <2>2. SumFunction(f) = 0
    BY <2>1, SumOfNone
  <2>3. QED
    BY <2>2 DEF BaseOf
<1>4. QED
  BY <1>2, <1>3

\* The amounts of a document, and what they add up to.
LEMMA AmountsType ==
  ASSUME NEW S, NEW T, NEW qty \in PerProduct(S), S \subseteq Nat, NEW lines, DOMAIN qty \subseteq DOMAIN lines,
         \A p \in DOMAIN lines : /\ lines[p].price \in Nat /\ lines[p].disc \in 0..Scale
                                 /\ lines[p].tax \in 0..Scale,
         NEW per \in Nat \ {0}
  PROVE  /\ Amounts(qty, lines, per) \in [DOMAIN qty -> Amount]
         /\ NetOf(Amounts(qty, lines, per)) \in Nat /\ TaxOf(Amounts(qty, lines, per)) \in Nat
<1>1. \A p \in DOMAIN qty : line_totals(qty[p], lines[p], per) \in Amount
  BY OnProducts, LineTotalsType DEF Amount
<1>2. Amounts(qty, lines, per) \in [DOMAIN qty -> Amount]
  BY <1>1 DEF Amounts
<1>3. IsFiniteSet(DOMAIN qty)
  BY OnProducts
<1>4. PICK a \in [DOMAIN qty -> Amount] : a = Amounts(qty, lines, per)
  BY <1>2
<1>5. NetOf(a) \in Nat
  <2> DEFINE f == [p \in DOMAIN a |-> a[p].net]
  <2>1. DOMAIN f = DOMAIN qty /\ \A p \in DOMAIN f : f[p] \in Nat
    BY DEF Amount
  <2> HIDE DEF f
  <2>2. SumFunction(f) \in Nat
    BY <1>3, <2>1, SumNat
  <2>3. QED
    BY <2>2 DEF NetOf, f
<1>6. TaxOf(a) \in Nat
  <2> DEFINE f == [p \in DOMAIN a |-> a[p].tax]
  <2>1. DOMAIN f = DOMAIN qty /\ \A p \in DOMAIN f : f[p] \in Nat
    BY DEF Amount
  <2> HIDE DEF f
  <2>2. SumFunction(f) \in Nat
    BY <1>3, <2>1, SumNat
  <2>3. QED
    BY <2>2 DEF TaxOf, f
<1>7. QED
  BY <1>2, <1>4, <1>5, <1>6

-----------------------------------------------------------------------------
(* What posting an entry does to the accounts the properties of Trade speak of *)

\* Inventory and cost of sales are looked at together: goods.
Moves(e, ar, ap, output, input, goods, grni) ==
    \A b \in [SystemAccount -> Int] :
        /\ Posted(b, e) \in [SystemAccount -> Int]
        /\ Posted(b, e)["AR_CONTROL"] = b["AR_CONTROL"] + ar
        /\ Posted(b, e)["AP_CONTROL"] = b["AP_CONTROL"] + ap
        /\ Posted(b, e)["VAT_OUTPUT"] = b["VAT_OUTPUT"] + output
        /\ Posted(b, e)["VAT_INPUT"] = b["VAT_INPUT"] + input
        /\ Posted(b, e)["INVENTORY"] + Posted(b, e)["COGS"] = b["INVENTORY"] + b["COGS"] + goods
        /\ Posted(b, e)["GRNI"] = b["GRNI"] + grni

\* What an entry moves the accounts the properties speak of by.
LEMMA MovesBy ==
  ASSUME NEW e, \A a \in SystemAccount : On(e, a) \in Int
  PROVE  Moves(e, On(e, "AR_CONTROL"), On(e, "AP_CONTROL"), On(e, "VAT_OUTPUT"),
               On(e, "VAT_INPUT"), On(e, "INVENTORY") + On(e, "COGS"), On(e, "GRNI"))
<1> SUFFICES ASSUME NEW b \in [SystemAccount -> Int]
             PROVE  /\ Posted(b, e) \in [SystemAccount -> Int]
                    /\ \A a \in SystemAccount : Posted(b, e)[a] = b[a] + On(e, a)
  BY DEF Moves, SystemAccount
<1>1. Posted(b, e) = [a \in SystemAccount |-> b[a] + On(e, a)]
  BY DEF Posted, On
<1>2. QED
  BY <1>1

\* No entry moves nothing.
LEMMA MovesNothing == Moves(NoEntry, 0, 0, 0, 0, 0, 0)
<1>1. \A a \in SystemAccount : On(NoEntry, a) = 0
  BY DEF On, NoEntry
<1>2. QED
  BY <1>1, MovesBy DEF SystemAccount

\* credit_sale charges the receivables and the output VAT.
LEMMA SaleMoves ==
  ASSUME NEW net \in Nat, NEW tax \in Nat
  PROVE  Moves(credit_sale(net, tax), net + tax, 0, -tax, 0, 0, 0)
<1> DEFINE l == [AR_CONTROL |-> net + tax, SALES_REVENUE |-> -net, VAT_OUTPUT |-> -tax]
<1>1. DOMAIN l = {"AR_CONTROL", "SALES_REVENUE", "VAT_OUTPUT"} /\ l["AR_CONTROL"] = net + tax
      /\ l["SALES_REVENUE"] = -net /\ l["VAT_OUTPUT"] = -tax
  OBVIOUS
<1>2. credit_sale(net, tax) = IfTaxed(l)
  BY DEF credit_sale
<1> HIDE DEF l
<1>3. \A a : On(IfTaxed(l), a) = On(l, a)
  BY OnIfTaxed
<1>4. /\ \A a \in SystemAccount : On(l, a) \in Int
      /\ On(l, "AR_CONTROL") = net + tax /\ On(l, "AP_CONTROL") = 0 /\ On(l, "VAT_OUTPUT") = -tax
      /\ On(l, "VAT_INPUT") = 0 /\ On(l, "INVENTORY") + On(l, "COGS") = 0 /\ On(l, "GRNI") = 0
  BY <1>1 DEF On
<1>5. PICK e : e = IfTaxed(l)
  OBVIOUS
<1>6. QED
  BY <1>2, <1>3, <1>4, <1>5, MovesBy

\* sales_return takes both back.
LEMMA ReturnMoves ==
  ASSUME NEW net \in Nat, NEW tax \in Nat
  PROVE  Moves(sales_return(net, tax), -(net + tax), 0, tax, 0, 0, 0)
<1> DEFINE l == [SALES_RETURNS |-> net, VAT_OUTPUT |-> tax, AR_CONTROL |-> -(net + tax)]
<1>1. DOMAIN l = {"AR_CONTROL", "SALES_RETURNS", "VAT_OUTPUT"} /\ l["AR_CONTROL"] = -(net + tax)
      /\ l["SALES_RETURNS"] = net /\ l["VAT_OUTPUT"] = tax
  OBVIOUS
<1>2. sales_return(net, tax) = IfTaxed(l)
  BY DEF sales_return
<1> HIDE DEF l
<1>3. \A a : On(IfTaxed(l), a) = On(l, a)
  BY OnIfTaxed
<1>4. /\ \A a \in SystemAccount : On(l, a) \in Int
      /\ On(l, "AR_CONTROL") = -(net + tax) /\ On(l, "AP_CONTROL") = 0 /\ On(l, "VAT_OUTPUT") = tax
      /\ On(l, "VAT_INPUT") = 0 /\ On(l, "INVENTORY") + On(l, "COGS") = 0 /\ On(l, "GRNI") = 0
  BY <1>1 DEF On
<1>5. PICK e : e = IfTaxed(l)
  OBVIOUS
<1>6. QED
  BY <1>2, <1>3, <1>4, <1>5, MovesBy

\* supplier_bill clears goods received and owes the supplier.
LEMMA BillMoves ==
  ASSUME NEW net \in Nat, NEW tax \in Nat
  PROVE  Moves(supplier_bill(net, tax), 0, -(net + tax), 0, tax, 0, net)
<1> DEFINE l == [GRNI |-> net, VAT_INPUT |-> tax, AP_CONTROL |-> -(net + tax)]
<1>1. DOMAIN l = {"GRNI", "VAT_INPUT", "AP_CONTROL"} /\ l["AP_CONTROL"] = -(net + tax)
      /\ l["GRNI"] = net /\ l["VAT_INPUT"] = tax
  OBVIOUS
<1>2. supplier_bill(net, tax) = IfTaxed(l)
  BY DEF supplier_bill
<1> HIDE DEF l
<1>3. \A a : On(IfTaxed(l), a) = On(l, a)
  BY OnIfTaxed
<1>4. /\ \A a \in SystemAccount : On(l, a) \in Int
      /\ On(l, "AR_CONTROL") = 0 /\ On(l, "AP_CONTROL") = -(net + tax) /\ On(l, "VAT_OUTPUT") = 0
      /\ On(l, "VAT_INPUT") = tax /\ On(l, "INVENTORY") + On(l, "COGS") = 0 /\ On(l, "GRNI") = net
  BY <1>1 DEF On
<1>5. PICK e : e = IfTaxed(l)
  OBVIOUS
<1>6. QED
  BY <1>2, <1>3, <1>4, <1>5, MovesBy

\* The entries of stock: only a receipt moves inventory and cost of sales together.
LEMMA CostMoves ==
  ASSUME NEW c \in Int
  PROVE  /\ Moves(cogs_recognition(c), 0, 0, 0, 0, 0, 0)
         /\ Moves(cogs_reversal(c), 0, 0, 0, 0, 0, 0)
         /\ Moves(goods_receipt(c), 0, 0, 0, 0, c, -c)
<1>1. Moves(cogs_recognition(c), 0, 0, 0, 0, 0, 0)
  <2>1. PICK e : e = cogs_recognition(c)
    OBVIOUS
  <2>2. DOMAIN e = {"COGS", "INVENTORY"} /\ e["COGS"] = c /\ e["INVENTORY"] = -c
    BY <2>1 DEF cogs_recognition
  <2>3. /\ \A a \in SystemAccount : On(e, a) \in Int
        /\ On(e, "AR_CONTROL") = 0 /\ On(e, "AP_CONTROL") = 0 /\ On(e, "VAT_OUTPUT") = 0
        /\ On(e, "VAT_INPUT") = 0 /\ On(e, "INVENTORY") + On(e, "COGS") = 0 /\ On(e, "GRNI") = 0
    BY <2>2 DEF On
  <2>4. QED
    BY <2>1, <2>3, MovesBy
<1>2. Moves(cogs_reversal(c), 0, 0, 0, 0, 0, 0)
  <2>1. PICK e : e = cogs_reversal(c)
    OBVIOUS
  <2>2. DOMAIN e = {"COGS", "INVENTORY"} /\ e["COGS"] = -c /\ e["INVENTORY"] = c
    BY <2>1 DEF cogs_reversal
  <2>3. /\ \A a \in SystemAccount : On(e, a) \in Int
        /\ On(e, "AR_CONTROL") = 0 /\ On(e, "AP_CONTROL") = 0 /\ On(e, "VAT_OUTPUT") = 0
        /\ On(e, "VAT_INPUT") = 0 /\ On(e, "INVENTORY") + On(e, "COGS") = 0 /\ On(e, "GRNI") = 0
    BY <2>2 DEF On
  <2>4. QED
    BY <2>1, <2>3, MovesBy
<1>3. Moves(goods_receipt(c), 0, 0, 0, 0, c, -c)
  <2>1. PICK e : e = goods_receipt(c)
    OBVIOUS
  <2>2. DOMAIN e = {"GRNI", "INVENTORY"} /\ e["GRNI"] = -c /\ e["INVENTORY"] = c
    BY <2>1 DEF goods_receipt
  <2>3. /\ \A a \in SystemAccount : On(e, a) \in Int
        /\ On(e, "AR_CONTROL") = 0 /\ On(e, "AP_CONTROL") = 0 /\ On(e, "VAT_OUTPUT") = 0
        /\ On(e, "VAT_INPUT") = 0 /\ On(e, "INVENTORY") + On(e, "COGS") = c /\ On(e, "GRNI") = -c
    BY <2>2 DEF On
  <2>4. QED
    BY <2>1, <2>3, MovesBy
<1>4. QED
  BY <1>1, <1>2, <1>3

-----------------------------------------------------------------------------
\* The posted cost is off by half a unit of money at most.
LEMMA PostedBound ==
  ASSUME NEW cost \in Nat
  PROVE  /\ PostedCost(cost) \in Nat /\ CostScale * PostedCost(cost) \in Int
         /\ 2 * (CostScale * PostedCost(cost)) <= 2 * cost + CostScale
         /\ 2 * cost - CostScale <= 2 * (CostScale * PostedCost(cost))
<1>1. CostScale \in Nat \ {0}
  BY BooksAssumption
<1>2. PICK k, n : k \in Nat \ {0} /\ k = CostScale /\ n = PostedCost(cost)
  BY <1>1
<1>3. n \in Nat /\ 2 * k * n <= 2 * cost + k /\ 2 * cost - k <= 2 * k * n
  BY <1>1, <1>2, RoundBound DEF PostedCost
<1>4. k * n \in Int /\ 2 * (k * n) = 2 * k * n
  BY <1>2, <1>3
<1>5. QED
  BY <1>2, <1>3, <1>4

(* What documents are worth at the prices of their orders *)

ValueOf(qty, ls) == SumFunction([p \in DOMAIN qty |-> qty[p] * ls[p].price])

Valuable(qty, ls) ==
    /\ IsFiniteSet(DOMAIN qty) /\ DOMAIN qty \subseteq DOMAIN ls
    /\ \A p \in DOMAIN qty : qty[p] \in Nat /\ ls[p].price \in Nat

\* The terms of a value are numbers.
LEMMA ValueType ==
  ASSUME NEW qty, NEW ls, Valuable(qty, ls)
  PROVE  Numbers([p \in DOMAIN qty |-> qty[p] * ls[p].price]) /\ ValueOf(qty, ls) \in Int
<1> DEFINE f == [p \in DOMAIN qty |-> qty[p] * ls[p].price]
<1>1. \A p \in DOMAIN qty : qty[p] * ls[p].price \in Int
  BY DEF Valuable
<1>2. Numbers(f)
  BY <1>1 DEF Numbers, Valuable
<1> HIDE DEF f
<1>3. SumFunction(f) \in Int
  BY <1>2, NumbersSum
<1>4. QED
  BY <1>2, <1>3 DEF f, ValueOf

\* Lines that keep their terms keep the value of what is taken from them.
LEMMA ValueSame ==
  ASSUME NEW qty, NEW ls, NEW ms, SameTerms(ls, ms), Valuable(qty, ls)
  PROVE  Valuable(qty, ms) /\ ValueOf(qty, ms) = ValueOf(qty, ls)
<1>1. \A p \in DOMAIN qty : ms[p].price = ls[p].price
  BY DEF SameTerms, Valuable
<1>2. [p \in DOMAIN qty |-> qty[p] * ms[p].price] = [p \in DOMAIN qty |-> qty[p] * ls[p].price]
  BY <1>1
<1>3. QED
  BY <1>1, <1>2 DEF ValueOf, Valuable, SameTerms

\* What is counted more is worth more.
LEMMA ValueMore ==
  ASSUME NEW c, NEW qty, NEW d, NEW ls, Valuable(c, ls), Valuable(qty, ls), DOMAIN qty \subseteq DOMAIN c,
         DOMAIN d = DOMAIN c, \A p \in DOMAIN c : d[p] = c[p] + On(qty, p)
  PROVE  Valuable(d, ls) /\ ValueOf(d, ls) = ValueOf(c, ls) + ValueOf(qty, ls)
<1>1. PICK f, g, h, z :
        /\ f = [p \in DOMAIN c |-> c[p] * ls[p].price] /\ h = [p \in DOMAIN d |-> d[p] * ls[p].price]
        /\ g = [p \in DOMAIN qty |-> qty[p] * ls[p].price]
        /\ z = [p \in DOMAIN c |-> On(qty, p) * ls[p].price]
  OBVIOUS
<1>2. \A p \in DOMAIN c : /\ c[p] \in Nat /\ On(qty, p) \in Nat /\ ls[p].price \in Nat
                          /\ (p \in DOMAIN qty => On(qty, p) = qty[p])
                          /\ (p \notin DOMAIN qty => On(qty, p) = 0)
  BY DEF Valuable, On
<1>v. Valuable(d, ls)
  BY <1>2 DEF Valuable
<1>3. Numbers(f) /\ Numbers(g)
  BY <1>1, ValueType
<1>4. ASSUME NEW p \in DOMAIN c
      PROVE  /\ z[p] \in Int /\ h[p] = f[p] + z[p]
             /\ (p \in DOMAIN g => z[p] = g[p]) /\ (p \notin DOMAIN g => z[p] = 0)
  <2>1. PICK a \in Nat, b \in Nat, t \in Nat : a = c[p] /\ b = On(qty, p) /\ t = ls[p].price
    BY <1>2
  <2>2. (a + b) * t = a * t + b * t /\ b * t \in Int /\ 0 * t = 0
    OBVIOUS
  <2>3. QED
    BY <1>1, <1>2, <2>1, <2>2
<1>5. /\ Numbers(z) /\ DOMAIN z = DOMAIN f /\ DOMAIN h = DOMAIN f /\ DOMAIN g \subseteq DOMAIN z
      /\ (\A x \in DOMAIN g : z[x] = g[x]) /\ (\A x \in DOMAIN z \ DOMAIN g : z[x] = 0)
      /\ \A x \in DOMAIN f : h[x] = f[x] + z[x]
  BY <1>1, <1>4 DEF Numbers, Valuable
<1>6. SumFunction(z) = SumFunction(g)
  BY <1>3, <1>5, SumNonZero
<1>7. SumFunction(h) = SumFunction(f) + SumFunction(z)
  BY <1>3, <1>5, SumAdd
<1>8. QED
  BY <1>1, <1>v, <1>6, <1>7 DEF ValueOf

CountValues(c, os) == [i \in DOMAIN c |-> ValueOf(c[i], os[i].lines)]

DocValues(key, q, os) == [j \in DOMAIN q |-> ValueOf(q[j], os[key[j]].lines)]

\* The counters c of the lines of the orders os, and the rows q made from the orders key.
Charted(c, key, q, os) ==
    /\ IsFiniteSet(DOMAIN c) /\ IsFiniteSet(DOMAIN q) /\ DOMAIN key = DOMAIN q
    /\ \A i \in DOMAIN c : i \in DOMAIN os /\ Valuable(c[i], os[i].lines)
    /\ \A j \in DOMAIN q : key[j] \in DOMAIN os /\ Valuable(q[j], os[key[j]].lines)

\* What is counted is worth what the rows are worth.
Valued(c, key, q, os) ==
    /\ Charted(c, key, q, os)
    /\ SumFunction(CountValues(c, os)) = SumFunction(DocValues(key, q, os))

\* Both columns are numbers.
LEMMA ValuesType ==
  ASSUME NEW c, NEW key, NEW q, NEW os, Charted(c, key, q, os)
  PROVE  /\ Numbers(CountValues(c, os)) /\ DOMAIN CountValues(c, os) = DOMAIN c
         /\ Numbers(DocValues(key, q, os)) /\ DOMAIN DocValues(key, q, os) = DOMAIN q
<1>1. /\ \A i \in DOMAIN c : ValueOf(c[i], os[i].lines) \in Int
      /\ \A j \in DOMAIN q : ValueOf(q[j], os[key[j]].lines) \in Int
  BY ValueType DEF Charted
<1>2. QED
  BY <1>1 DEF CountValues, DocValues, Numbers, Charted

\* Orders that keep their terms.
LEMMA ValuedKept ==
  ASSUME NEW c, NEW key, NEW q, NEW os, NEW ns, Valued(c, key, q, os), Kept(os, ns)
  PROVE  Valued(c, key, q, ns)
<1>1. \A i \in DOMAIN os : i \in DOMAIN ns /\ SameTerms(os[i].lines, ns[i].lines)
  BY DEF Kept
<1>2. \A i \in DOMAIN c : /\ i \in DOMAIN ns /\ Valuable(c[i], ns[i].lines)
                          /\ ValueOf(c[i], ns[i].lines) = ValueOf(c[i], os[i].lines)
  BY <1>1, ValueSame DEF Valued, Charted
<1>3. \A j \in DOMAIN q : /\ key[j] \in DOMAIN ns /\ Valuable(q[j], ns[key[j]].lines)
                          /\ ValueOf(q[j], ns[key[j]].lines) = ValueOf(q[j], os[key[j]].lines)
  BY <1>1, ValueSame DEF Valued, Charted
<1>4. CountValues(c, ns) = CountValues(c, os) /\ DocValues(key, q, ns) = DocValues(key, q, os)
  BY <1>2, <1>3 DEF CountValues, DocValues
<1>5. QED
  BY <1>2, <1>3, <1>4 DEF Valued, Charted

\* A row made from order i and counted there.
LEMMA ValuedAdded ==
  ASSUME NEW c, NEW key, NEW q, NEW os, Valued(c, key, q, os),
         NEW d, NEW i \in DOMAIN c, NEW qty, Adds(c, d, i, qty), Valuable(qty, os[i].lines),
         DOMAIN qty \subseteq DOMAIN c[i],
         NEW l, NEW r, NEW k, Lengthens(key, l, k, i), Lengthens(q, r, k, qty)
  PROVE  Valued(d, l, r, os)
<1>0. Charted(c, key, q, os)
  BY DEF Valued
<1>1. /\ DOMAIN d = DOMAIN c /\ \A j \in DOMAIN c : DOMAIN d[j] = DOMAIN c[j]
      /\ \A p \in DOMAIN c[i] : d[i][p] = c[i][p] + On(qty, p)
      /\ \A j \in DOMAIN c : j # i => \A p \in DOMAIN c[j] : d[j][p] = c[j][p] + 0
  BY DEF Adds
<1>2. Valuable(d[i], os[i].lines) /\ ValueOf(d[i], os[i].lines) = ValueOf(c[i], os[i].lines) + ValueOf(qty, os[i].lines)
  <2>1. Valuable(c[i], os[i].lines) /\ DOMAIN d[i] = DOMAIN c[i]
    BY <1>0, <1>1 DEF Charted
  <2>2. QED
    BY <1>1, <2>1, ValueMore
<1>3. ASSUME NEW j \in DOMAIN c, j # i
      PROVE  Valuable(d[j], os[j].lines) /\ ValueOf(d[j], os[j].lines) = ValueOf(c[j], os[j].lines)
  <2>1. Valuable(c[j], os[j].lines) /\ DOMAIN d[j] = DOMAIN c[j]
    BY <1>0, <1>1 DEF Charted
  <2>2. \A p \in DOMAIN c[j] : d[j][p] = c[j][p]
    BY <1>1, <1>3, <2>1 DEF Valuable
  <2>3. [p \in DOMAIN d[j] |-> d[j][p] * os[j].lines[p].price]
        = [p \in DOMAIN c[j] |-> c[j][p] * os[j].lines[p].price]
    BY <2>1, <2>2
  <2>4. QED
    BY <2>1, <2>2, <2>3 DEF ValueOf, Valuable
<1>4. /\ k \notin DOMAIN q /\ DOMAIN r = DOMAIN q \cup {k} /\ DOMAIN l = DOMAIN r
      /\ \A j \in DOMAIN q : r[j] = q[j] /\ l[j] = key[j]
      /\ r[k] = qty /\ l[k] = i
  BY <1>0 DEF Lengthens, Charted
<1>5. IsFiniteSet(DOMAIN r) /\ i \in DOMAIN os
  BY <1>0, <1>4, FS_AddElement DEF Charted
<1>6. Charted(d, l, r, os)
  <2>1. \A j \in DOMAIN d : j \in DOMAIN os /\ Valuable(d[j], os[j].lines)
    BY <1>0, <1>1, <1>2, <1>3 DEF Charted
  <2>2. \A j \in DOMAIN r : l[j] \in DOMAIN os /\ Valuable(r[j], os[l[j]].lines)
    <3>1. \A j \in DOMAIN q : l[j] \in DOMAIN os /\ Valuable(r[j], os[l[j]].lines)
      BY <1>0, <1>4 DEF Charted
    <3>2. l[k] \in DOMAIN os /\ Valuable(r[k], os[l[k]].lines)
      BY <1>4, <1>5
    <3>3. QED
      BY <1>4, <3>1, <3>2
  <2>3. QED
    BY <1>0, <1>1, <1>4, <1>5, <2>1, <2>2 DEF Charted
<1>7. PICK f, g, u, v, w :
        /\ f = CountValues(c, os) /\ g = CountValues(d, os) /\ u = DocValues(key, q, os)
        /\ v = DocValues(l, r, os) /\ w = ValueOf(qty, os[i].lines)
  OBVIOUS
<1>8. /\ Numbers(f) /\ DOMAIN f = DOMAIN c /\ Numbers(g) /\ DOMAIN g = DOMAIN c
      /\ Numbers(u) /\ DOMAIN u = DOMAIN q /\ w \in Int
  <2>1. Numbers(f) /\ DOMAIN f = DOMAIN c /\ Numbers(u) /\ DOMAIN u = DOMAIN q
    BY <1>0, <1>7, ValuesType
  <2>2. Numbers(g) /\ DOMAIN g = DOMAIN c
    BY <1>1, <1>6, <1>7, ValuesType
  <2>3. QED
    BY <1>7, <2>1, <2>2, ValueType
<1>9. /\ g[i] = f[i] + w
      /\ \A j \in DOMAIN f \ {i} : g[j] = f[j]
  BY <1>1, <1>2, <1>3, <1>7 DEF CountValues
<1>10. SumFunction(g) = SumFunction(f) + w
  <2>1. f[i] \in Int /\ g[i] \in Int /\ SumFunction(f) \in Int
    BY <1>8, NumbersSum DEF Numbers
  <2>2. SumFunction(g) = SumFunction(f) - f[i] + g[i]
    BY <1>8, <1>9, <2>1, SumExcept DEF Numbers
  <2>3. QED
    BY <1>8, <1>9, <2>1, <2>2
<1>11. SumFunction(v) = SumFunction(u) + w
  <2>1. /\ DOMAIN v = DOMAIN u \cup {k} /\ k \notin DOMAIN u /\ v[k] = w
        /\ \A j \in DOMAIN u : v[j] = u[j]
    BY <1>4, <1>7 DEF DocValues
  <2>2. QED
    BY <1>8, <2>1, SumOneMore
<1>12. QED
  BY <1>6, <1>7, <1>10, <1>11 DEF Valued

\* A new order k with nothing counted.
LEMMA ValuedOpened ==
  ASSUME NEW c, NEW key, NEW q, NEW os, NEW ns, Valued(c, key, q, os), Kept(os, ns),
         NEW d, NEW k, Opens(c, d, k), k \in DOMAIN ns, Valuable(d[k], ns[k].lines)
  PROVE  Valued(d, key, q, ns)
<1>0. Valued(c, key, q, ns)
  BY ValuedKept
<1>1. /\ k \notin DOMAIN c /\ DOMAIN d = DOMAIN c \cup {k} /\ \A i \in DOMAIN c : d[i] = c[i]
      /\ \A p \in DOMAIN d[k] : d[k][p] = 0
  BY DEF Opens
<1>2. Charted(d, key, q, ns)
  BY <1>0, <1>1, FS_AddElement DEF Valued, Charted
<1>3. ValueOf(d[k], ns[k].lines) = 0
  <2>1. PICK f : f = [p \in DOMAIN d[k] |-> d[k][p] * ns[k].lines[p].price]
    OBVIOUS
  <2>2. IsFiniteSet(DOMAIN f) /\ \A p \in DOMAIN f : f[p] = 0
    BY <1>1, <2>1 DEF Valuable
  <2>3. QED
    BY <2>1, <2>2, SumOfZeros DEF ValueOf
<1>4. PICK f, g : f = CountValues(c, ns) /\ g = CountValues(d, ns)
  OBVIOUS
<1>5. /\ Numbers(f) /\ k \notin DOMAIN f /\ DOMAIN g = DOMAIN f \cup {k} /\ g[k] = 0
      /\ \A x \in DOMAIN f : g[x] = f[x]
  BY <1>0, <1>1, <1>3, <1>4, ValuesType DEF CountValues, Valued
<1>6. SumFunction(g) = SumFunction(f) + 0 /\ SumFunction(f) \in Int
  BY <1>5, SumOneMore
<1>7. QED
  BY <1>0, <1>2, <1>4, <1>6 DEF Valued

\* A line billed at cost is off by half a unit of money at most.
LEMMA RoundLine ==
  ASSUME NEW n \in Nat, NEW S \in Nat \ {0}, NEW K \in Nat \ {0}
  PROVE  LET r == RoundHalfUp(n * S, S * K)
         IN  r \in Nat /\ 2 * (K * r) <= 2 * n + K /\ 2 * n - K <= 2 * (K * r)
<1>1. n * S \in Nat /\ S * K \in Nat \ {0}
  OBVIOUS
<1>2. PICK r : r = RoundHalfUp(n * S, S * K)
  OBVIOUS
<1>3. r \in Nat /\ 2 * (S * K) * r <= 2 * (n * S) + S * K /\ 2 * (n * S) - S * K <= 2 * (S * K) * r
  BY <1>1, <1>2, RoundBound
<1>4. ASSUME NEW x \in Int, S * x >= 0 PROVE x >= 0
  <2>1. CASE x < 0
    <3>1. PICK y \in Nat : x = -1 - y
      <4>1. -1 - x \in Nat /\ x = -1 - (-1 - x)
        BY <2>1
      <4>2. QED
        BY <4>1
    <3>2. S * x = -S - S * y /\ S * y \in Nat
      BY <3>1
    <3>3. QED
      BY <1>4, <3>2
  <2>2. QED
    BY <2>1
<1>5. PICK a \in Int : a = K * r
  BY <1>3
<1>6. /\ 2 * (S * K) * r = 2 * (S * a) /\ S * a \in Int /\ S * K \in Int /\ n * S = S * n /\ S * n \in Int
  BY <1>3, <1>5
<1>7. /\ S * (2 * n + K - 2 * a) = 2 * (S * n) + S * K - 2 * (S * a)
      /\ S * (2 * a - 2 * n + K) = 2 * (S * a) - 2 * (S * n) + S * K
  OBVIOUS
<1>8. S * (2 * n + K - 2 * a) >= 0 /\ S * (2 * a - 2 * n + K) >= 0
  BY <1>3, <1>6, <1>7
<1>9. 2 * n + K - 2 * a >= 0 /\ 2 * a - 2 * n + K >= 0
  BY <1>4, <1>8
<1>10. QED
  BY <1>2, <1>3, <1>5, <1>9

\* The net of a bill is the value of its lines, but for half a unit of money a line.
LEMMA NetOfCosts ==
  ASSUME NEW qty, NEW ls, Valuable(qty, ls), \A p \in DOMAIN qty : ls[p].disc = 0
  PROVE  LET net == NetOf(Amounts(qty, ls, CostScale))
             n == Cardinality(DOMAIN qty)
         IN  /\ net \in Int /\ ValueOf(qty, ls) \in Int /\ n \in Nat
             /\ 2 * (CostScale * net) <= 2 * ValueOf(qty, ls) + CostScale * n
             /\ 2 * ValueOf(qty, ls) - CostScale * n <= 2 * (CostScale * net)
<1>1. CostScale \in Nat \ {0} /\ Scale \in Nat \ {0}
  BY BooksAssumption
<1>2. PICK am, f, g, o :
        /\ am = Amounts(qty, ls, CostScale) /\ f = [p \in DOMAIN am |-> am[p].net]
        /\ g = [p \in DOMAIN qty |-> qty[p] * ls[p].price] /\ o = [p \in DOMAIN qty |-> 1]
  OBVIOUS
<1>3. ASSUME NEW p \in DOMAIN qty
      PROVE  /\ f[p] \in Int
             /\ 2 * (CostScale * f[p]) <= 2 * g[p] + CostScale * o[p]
             /\ 2 * g[p] - CostScale * o[p] <= 2 * (CostScale * f[p])
  <2>1. PICK m : m = qty[p] * ls[p].price
    OBVIOUS
  <2>2. m \in Nat
    BY <2>1 DEF Valuable
  <2>3. m * (Scale - ls[p].disc) = m * Scale
    BY <1>1, <2>2
  <2>4. f[p] = RoundHalfUp(m * Scale, Scale * CostScale)
    BY <1>2, <2>1, <2>3 DEF Amounts, line_totals
  <2>5. f[p] \in Nat /\ 2 * (CostScale * f[p]) <= 2 * m + CostScale /\ 2 * m - CostScale <= 2 * (CostScale * f[p])
    BY <1>1, <2>2, <2>4, RoundLine
  <2>6. g[p] = m /\ o[p] = 1 /\ CostScale * 1 = CostScale
    BY <1>1, <1>2, <2>1
  <2>7. QED
    BY <2>5, <2>6
<1>4. /\ Numbers(f) /\ Numbers(g) /\ Numbers(o) /\ DOMAIN g = DOMAIN f /\ DOMAIN o = DOMAIN f
      /\ DOMAIN f = DOMAIN qty
  <2>1. DOMAIN f = DOMAIN qty /\ DOMAIN o = DOMAIN qty /\ DOMAIN g = DOMAIN qty
    BY <1>2 DEF Amounts
  <2>2. Numbers(g)
    BY <1>2, ValueType
  <2>3. QED
    BY <1>2, <1>3, <2>1, <2>2 DEF Numbers
<1>5. /\ SumFunction(f) \in Int /\ SumFunction(g) \in Int
      /\ 2 * (CostScale * SumFunction(f)) <= 2 * SumFunction(g) + CostScale * SumFunction(o)
      /\ 2 * SumFunction(g) - CostScale * SumFunction(o) <= 2 * (CostScale * SumFunction(f))
  BY <1>1, <1>3, <1>4, RoundedSum
<1>6. SumFunction(o) = Cardinality(DOMAIN qty) /\ Cardinality(DOMAIN qty) \in Nat
  <2>1. IsFiniteSet(DOMAIN o) /\ \A p \in DOMAIN o : o[p] = 1
    BY <1>2, <1>4 DEF Numbers
  <2>2. SumFunction(o) = Cardinality(DOMAIN o)
    BY <2>1, SumOfOnes
  <2>3. QED
    BY <1>4, <2>1, <2>2, FS_CardinalityType
<1>7. SumFunction(f) = NetOf(am) /\ SumFunction(g) = ValueOf(qty, ls)
  BY <1>2 DEF NetOf, ValueOf
<1>8. QED
  BY <1>2, <1>5, <1>6, <1>7

=============================================================================
