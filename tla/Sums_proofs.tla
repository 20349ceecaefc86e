----------------------------- MODULE Sums_proofs -----------------------------
(***************************************************************************)
(* Sums over finite sets, and rows of tables: the lemmas the proofs about  *)
(* balances, subledgers and reservations rest on.  What SumFunction of the *)
(* library computes is shown by taking a least set on which it would fail. *)
(***************************************************************************)
EXTENDS Integers, FiniteSets, Functions, Sequences, FiniteSetTheorems, WellFoundedInduction, TLAPS

\* A set of naturals that is not empty has a least element.
LEMMA LeastNatural ==
  ASSUME NEW T \in SUBSET Nat, T # {}
  PROVE  \E n \in T : \A m \in T : n <= m
<1> DEFINE R == {yz \in Nat \X Nat : yz[1] < yz[2]}
<1>1. IsWellFoundedOn(R, Nat)
  <2>1. R = OpToRel(<, Nat)
    BY DEF OpToRel
  <2>2. QED
    BY <2>1, NatLessThanWellFounded, Zenon
<1>2. PICK x \in T : \A y \in T : <<y, x>> \notin R
  <2> HIDE DEF R
  <2> QED BY <1>1, WFMin
<1>3. ASSUME NEW y \in T PROVE x <= y
  <2>1. <<y, x>> \in Nat \X Nat /\ <<y, x>>[1] = y /\ <<y, x>>[2] = x
    OBVIOUS
  <2>2. ~(<<y, x>>[1] < <<y, x>>[2])
    BY <1>2, <2>1, Zenon
  <2>3. QED
    BY <2>1, <2>2
<1>4. QED
  BY <1>3

\* Induction over the subsets of a finite set: the good ones are closed under one element more.
LEMMA FiniteSubsetInduction ==
  ASSUME NEW D, IsFiniteSet(D), NEW T, {} \in T,
         \A s \in SUBSET D : \A x \in D \ s : s \in T => s \cup {x} \in T
  PROVE  D \in T
<1> DEFINE Bad == {n \in Nat : \E s \in SUBSET D : s \notin T /\ Cardinality(s) = n}
<1>1. SUFFICES ASSUME D \notin T
               PROVE  FALSE
  OBVIOUS
<1>2. Cardinality(D) \in Bad
  BY <1>1, FS_CardinalityType
<1>3. PICK n \in Bad : \A m \in Bad : n <= m
  <2> HIDE DEF Bad
  <2>1. Bad \in SUBSET Nat
    BY DEF Bad
  <2>2. QED
    BY <1>2, <2>1, LeastNatural
<1>4. PICK s \in SUBSET D : s \notin T /\ Cardinality(s) = n
  BY <1>3
<1>5. PICK x \in s : TRUE
  BY <1>4
<1>6. /\ IsFiniteSet(s) /\ Cardinality(s) \in Nat
      /\ IsFiniteSet(s \ {x}) /\ Cardinality(s \ {x}) = n - 1 /\ Cardinality(s \ {x}) \in Nat
  BY <1>4, <1>5, FS_Subset, FS_RemoveElement, FS_CardinalityType
<1>7. s \ {x} \in T
  BY <1>3, <1>6
<1>8. (s \ {x}) \cup {x} = s /\ x \in D \ (s \ {x}) /\ s \ {x} \in SUBSET D
  BY <1>5
<1>9. QED
  BY <1>4, <1>7, <1>8

AnyOf(s) == CHOOSE x \in s : TRUE

\* g adds up f over the subsets of D, one element after the other.
AddsUp(f, g, D) ==
    g = [s \in SUBSET D |-> IF s = {} THEN 0 ELSE f[AnyOf(s)] + g[s \ {AnyOf(s)}]]

\* The library's fold is a sum of all the terms, in some order.
LEMMA SumUnfolded ==
  ASSUME NEW f
  PROVE  SumFunction(f) = (CHOOSE g : AddsUp(f, g, DOMAIN f))[DOMAIN f]
BY DEF SumFunction, SumFunctionOnSet, FoldFunctionOnSet, MapThenFoldSet, AddsUp, AnyOf

\* The same for the subsets of at most n elements.
AddsUpTo(f, g, D, n) ==
    g = [s \in {t \in SUBSET D : Cardinality(t) <= n} |->
            IF s = {} THEN 0 ELSE f[AnyOf(s)] + g[s \ {AnyOf(s)}]]

\* The recursion is well defined.
LEMMA AddingUpExists ==
  ASSUME NEW f, NEW D, IsFiniteSet(D)
  PROVE  \E g : AddsUp(f, g, D)
<1> DEFINE Bad == {n \in Nat : ~\E g : AddsUpTo(f, g, D, n)}
<1>0. \A s \in SUBSET D : IsFiniteSet(s) /\ Cardinality(s) \in Nat /\ Cardinality(s) <= Cardinality(D)
  BY FS_Subset, FS_CardinalityType
<1>00. Cardinality(D) \in Nat
  BY FS_CardinalityType
<1>1. Bad = {}
  <2>1. SUFFICES ASSUME Bad # {}
                 PROVE  FALSE
    OBVIOUS
  <2>2. PICK n \in Bad : \A m \in Bad : n <= m
    <3> HIDE DEF Bad
    <3>1. Bad \in SUBSET Nat
      BY DEF Bad
    <3>2. QED
      BY <2>1, <3>1, LeastNatural
  <2>3. CASE n = 0
    <3> DEFINE g == [s \in {t \in SUBSET D : Cardinality(t) <= 0} |-> 0]
    <3>1. \A s \in SUBSET D : Cardinality(s) <= 0 => s = {}
      BY <1>0, FS_EmptySet
    <3>2. AddsUpTo(f, g, D, 0)
      BY <3>1 DEF AddsUpTo
    <3>3. QED
      BY <2>2, <2>3, <3>2
  <2>4. CASE n # 0
    <3>1. n \in Nat /\ n - 1 \in Nat /\ n - 1 \notin Bad
      BY <2>2, <2>4
    <3>2. PICK g : AddsUpTo(f, g, D, n - 1)
      BY <3>1
    <3> DEFINE U == {t \in SUBSET D : Cardinality(t) <= n}
               h == [s \in U |-> IF s = {} THEN 0 ELSE f[AnyOf(s)] + g[s \ {AnyOf(s)}]]
    <3>3. ASSUME NEW s \in U, s # {}
          PROVE  h[s \ {AnyOf(s)}] = g[s \ {AnyOf(s)}]
      <4> DEFINE t == s \ {AnyOf(s)}
      <4>1. AnyOf(s) \in s
        BY <3>3 DEF AnyOf
      <4>2. Cardinality(t) = Cardinality(s) - 1 /\ Cardinality(s) \in Nat
        BY <4>1, <1>0, FS_RemoveElement
      <4>3. t \in U /\ Cardinality(t) <= n - 1 /\ t \in SUBSET D
        BY <4>2, <3>1
      <4> HIDE DEF t
      <4>4. h[t] = IF t = {} THEN 0 ELSE f[AnyOf(t)] + g[t \ {AnyOf(t)}]
        BY <4>3
      <4>5. g[t] = IF t = {} THEN 0 ELSE f[AnyOf(t)] + g[t \ {AnyOf(t)}]
        BY <4>3, <3>2 DEF AddsUpTo
      <4>6. QED
        BY <4>4, <4>5 DEF t
    <3>4. h = [s \in U |-> IF s = {} THEN 0 ELSE f[AnyOf(s)] + h[s \ {AnyOf(s)}]]
      <4> HIDE DEF U
      <4>1. \A s \in U : (IF s = {} THEN 0 ELSE f[AnyOf(s)] + g[s \ {AnyOf(s)}])
                         = IF s = {} THEN 0 ELSE f[AnyOf(s)] + h[s \ {AnyOf(s)}]
        BY <3>3
      <4>2. QED
        BY <4>1
    <3>5. AddsUpTo(f, h, D, n)
      BY <3>4 DEF AddsUpTo
    <3>6. QED
      <4> HIDE DEF h
      <4> QED BY <2>2, <3>5
  <2>5. QED
    BY <2>3, <2>4
<1>2. PICK g : AddsUpTo(f, g, D, Cardinality(D))
  BY <1>1, <1>00
<1>3. {t \in SUBSET D : Cardinality(t) <= Cardinality(D)} = SUBSET D
  BY <1>0
<1>4. QED
  BY <1>2, <1>3 DEF AddsUp, AddsUpTo

\* What is added up does not depend on the order.
LEMMA AddsUpAnyOrder ==
  ASSUME NEW f, NEW g, NEW D, IsFiniteSet(D), AddsUp(f, g, D), \A x \in D : f[x] \in Int
  PROVE  \A s \in SUBSET D : g[s] \in Int /\ \A x \in s : g[s] = f[x] + g[s \ {x}]
<1> DEFINE Good(s) == g[s] \in Int /\ \A x \in s : g[s] = f[x] + g[s \ {x}]
           Bad == {n \in Nat : \E s \in SUBSET D : Cardinality(s) = n /\ ~Good(s)}
<1>0. \A s \in SUBSET D : /\ IsFiniteSet(s) /\ Cardinality(s) \in Nat
                          /\ \A x \in s : Cardinality(s \ {x}) = Cardinality(s) - 1
  BY FS_Subset, FS_CardinalityType, FS_RemoveElement
<1>1. SUFFICES ASSUME Bad # {}
               PROVE  FALSE
  BY <1>0
<1>2. PICK n \in Bad : \A m \in Bad : n <= m
  <2> HIDE DEF Bad
  <2>1. Bad \in SUBSET Nat
    BY DEF Bad
  <2>2. QED
    BY <1>1, <2>1, LeastNatural
<1>3. PICK s \in SUBSET D : Cardinality(s) = n /\ ~Good(s)
  BY <1>2
<1>4. \A t \in SUBSET D : Cardinality(t) = n - 1 => Good(t)
  <2>1. SUFFICES ASSUME NEW t \in SUBSET D, Cardinality(t) = n - 1, ~Good(t)
                 PROVE  FALSE
    OBVIOUS
  <2>2. n - 1 \in Bad
    <3> HIDE DEF Good
    <3> QED BY <2>1, <1>0
  <2>3. QED
    BY <1>2, <2>2
<1>5. g[s] = IF s = {} THEN 0 ELSE f[AnyOf(s)] + g[s \ {AnyOf(s)}]
  BY DEF AddsUp
<1>6. s # {}
  BY <1>3, <1>5
<1> DEFINE c == AnyOf(s)
<1>7. c \in s
  BY <1>6 DEF AnyOf
<1>8. g[s] = f[c] + g[s \ {c}] /\ f[c] \in Int
  BY <1>5, <1>6, <1>7
<1> HIDE DEF c
<1>9. Good(s \ {c})
  BY <1>0, <1>3, <1>4, <1>7
<1>10. ASSUME NEW x \in s
       PROVE  g[s] = f[x] + g[s \ {x}]
  <2>1. CASE x = c
    BY <2>1, <1>8
  <2>2. CASE x # c
    <3>1. Good(s \ {x})
      BY <1>0, <1>3, <1>4
    <3>2. g[s \ {c}] = f[x] + g[(s \ {c}) \ {x}]
      BY <1>9, <2>2
    <3>3. g[s \ {x}] = f[c] + g[(s \ {x}) \ {c}]
      BY <3>1, <2>2, <1>7
    <3>4. (s \ {c}) \ {x} = (s \ {x}) \ {c}
      OBVIOUS
    <3>5. f[x] \in Int /\ g[(s \ {x}) \ {c}] \in Int
      <4>1. Cardinality(s) = n /\ n \in Nat /\ s \ {x} \in SUBSET D /\ c \in s \ {x}
        BY <1>3, <2>2, <1>7
      <4>2. g[s \ {x}] \in Int /\ g[s \ {c}] \in Int
        BY <3>1, <1>9
      <4>3. f[x] \in Int
        OBVIOUS
      <4>4. Cardinality((s \ {x}) \ {c}) = n - 2 /\ n - 2 \in Nat
        <5>1. Cardinality(s \ {x}) = n - 1
          BY <4>1, <1>0
        <5>2. Cardinality((s \ {x}) \ {c}) = n - 2 /\ (s \ {x}) \ {c} \in SUBSET D
          <6>1. Cardinality((s \ {x}) \ {c}) = Cardinality(s \ {x}) - 1
            BY <4>1, <1>0, Zenon
          <6>2. QED
            BY <5>1, <4>1, <6>1
        <5>3. Cardinality((s \ {x}) \ {c}) \in Nat
          BY <5>2, <1>0
        <5>4. QED
          BY <5>2, <5>3
      <4>5. Good((s \ {x}) \ {c})
        <5>1. SUFFICES ASSUME ~Good((s \ {x}) \ {c})
                       PROVE  FALSE
          OBVIOUS
        <5>2. n - 2 \in Bad
          <6> HIDE DEF Good
          <6> QED BY <5>1, <4>4, <4>1
        <5>3. QED
          BY <5>2, <1>2, <4>1, <4>4
      <4>6. QED
        BY <4>3, <4>5
    <3>6. PICK w \in Int : w = g[(s \ {x}) \ {c}]
      BY <3>5
    <3>7. g[s \ {c}] = f[x] + w /\ g[s \ {x}] = f[c] + w
      BY <3>2, <3>3, <3>4, <3>6
    <3>8. QED
      BY <1>8, <3>5, <3>7
  <2>3. QED
    BY <2>1, <2>2
<1>11. g[s] \in Int
  BY <1>8, <1>9
<1>12. QED
  BY <1>3, <1>10, <1>11

\* Two functions that agree add up to the same.
LEMMA AddsUpAgree ==
  ASSUME NEW f, NEW g, NEW D, NEW e, NEW h, NEW E, AddsUp(f, g, D), AddsUp(e, h, E),
         IsFiniteSet(E), E \in SUBSET D, \A x \in E : e[x] = f[x]
  PROVE  h[E] = g[E]
<1> DEFINE Bad == {n \in Nat : \E s \in SUBSET E : Cardinality(s) = n /\ h[s] # g[s]}
<1>0. \A s \in SUBSET E : /\ IsFiniteSet(s) /\ Cardinality(s) \in Nat
                          /\ \A x \in s : Cardinality(s \ {x}) = Cardinality(s) - 1
  BY FS_Subset, FS_CardinalityType, FS_RemoveElement
<1>1. SUFFICES ASSUME Bad # {}
               PROVE  FALSE
  BY <1>0
<1>2. PICK n \in Bad : \A m \in Bad : n <= m
  <2> HIDE DEF Bad
  <2>1. Bad \in SUBSET Nat
    BY DEF Bad
  <2>2. QED
    BY <1>1, <2>1, LeastNatural
<1>3. PICK s \in SUBSET E : Cardinality(s) = n /\ h[s] # g[s]
  BY <1>2
<1>4. /\ g[s] = IF s = {} THEN 0 ELSE f[AnyOf(s)] + g[s \ {AnyOf(s)}]
      /\ h[s] = IF s = {} THEN 0 ELSE e[AnyOf(s)] + h[s \ {AnyOf(s)}]
  BY DEF AddsUp
<1>5. s # {}
  BY <1>3, <1>4
<1> DEFINE c == AnyOf(s)
<1>6. c \in s
  BY <1>5 DEF AnyOf
<1>7. g[s] = f[c] + g[s \ {c}] /\ h[s] = e[c] + h[s \ {c}]
  BY <1>4, <1>5
<1> HIDE DEF c
<1>8. Cardinality(s \ {c}) = n - 1 /\ Cardinality(s \ {c}) \in Nat /\ s \ {c} \in SUBSET E
  BY <1>0, <1>3, <1>6
<1>9. h[s \ {c}] = g[s \ {c}]
  <2>1. SUFFICES ASSUME h[s \ {c}] # g[s \ {c}]
                 PROVE  FALSE
    OBVIOUS
  <2>2. n - 1 \in Bad
    BY <1>8, <2>1
  <2>3. QED
    BY <1>2, <2>2
<1>10. QED
  BY <1>3, <1>6, <1>7, <1>9

\* A sum without terms.
LEMMA SumOfNone ==
  ASSUME NEW f, DOMAIN f = {}
  PROVE  SumFunction(f) = 0
<1>1. PICK g : AddsUp(f, g, {})
  BY AddingUpExists, FS_EmptySet
<1>2. \A h : AddsUp(f, h, {}) => h[{}] = 0
  BY DEF AddsUp
<1>3. AddsUp(f, CHOOSE h : AddsUp(f, h, {}), {})
  BY <1>1
<1>4. QED
  BY <1>2, <1>3, SumUnfolded

\* A sum is an integer, and any term may be split off.
LEMMA SumSplit ==
  ASSUME NEW f, IsFiniteSet(DOMAIN f), \A x \in DOMAIN f : f[x] \in Int
  PROVE  /\ SumFunction(f) \in Int
         /\ \A x \in DOMAIN f :
                SumFunction(f) = f[x] + SumFunction([y \in DOMAIN f \ {x} |-> f[y]])
<1>0. PICK D : D = DOMAIN f
  OBVIOUS
<1>1. IsFiniteSet(D) /\ \A x \in D : f[x] \in Int
  BY <1>0
<1>2. PICK g : AddsUp(f, g, D) /\ SumFunction(f) = g[D]
  BY <1>0, <1>1, AddingUpExists, SumUnfolded
<1>3. \A s \in SUBSET D : g[s] \in Int /\ \A x \in s : g[s] = f[x] + g[s \ {x}]
  BY <1>1, <1>2, AddsUpAnyOrder
<1>4. ASSUME NEW x \in D
      PROVE  SumFunction([y \in D \ {x} |-> f[y]]) = g[D \ {x}]
  <2> DEFINE E == D \ {x}
             e == [y \in E |-> f[y]]
             h == CHOOSE k : AddsUp(e, k, E)
  <2>1. IsFiniteSet(E) /\ E \in SUBSET D
    BY <1>1, FS_Subset
  <2>2. DOMAIN e = E /\ \A y \in E : e[y] = f[y]
    OBVIOUS
  <2> HIDE DEF e
  <2>3. AddsUp(e, h, E)
    BY <2>1, AddingUpExists
  <2>4. SumFunction(e) = h[E]
    BY <2>2, SumUnfolded
  <2> HIDE DEF h
  <2>5. h[E] = g[E]
    BY <1>2, <2>1, <2>2, <2>3, AddsUpAgree
  <2>6. QED
    BY <2>4, <2>5 DEF e
<1>5. SumFunction(f) \in Int
  BY <1>2, <1>3
<1>6. ASSUME NEW x \in D
      PROVE  SumFunction(f) = f[x] + SumFunction([y \in D \ {x} |-> f[y]])
  BY <1>2, <1>3, <1>4
<1>7. QED
  BY <1>0, <1>5, <1>6, Zenon

\* Functions with the same terms have the same sum.
LEMMA SumSame ==
  ASSUME NEW f, NEW g, IsFiniteSet(DOMAIN f), DOMAIN g = DOMAIN f,
         \A x \in DOMAIN f : g[x] = f[x]
  PROVE  SumFunction(g) = SumFunction(f)
<1>0. PICK D : D = DOMAIN f
  OBVIOUS
<1>1. PICK h : AddsUp(f, h, D) /\ SumFunction(f) = h[D]
  BY <1>0, AddingUpExists, SumUnfolded
<1>2. PICK k : AddsUp(g, k, D) /\ SumFunction(g) = k[D]
  BY <1>0, AddingUpExists, SumUnfolded
<1>3. k[D] = h[D]
  BY <1>0, <1>1, <1>2, AddsUpAgree
<1>4. QED
  BY <1>1, <1>2, <1>3

\* A function g with one term less than f.
LEMMA SumWithout ==
  ASSUME NEW f, NEW x \in DOMAIN f, NEW g, IsFiniteSet(DOMAIN f),
         \A y \in DOMAIN f : f[y] \in Int,
         DOMAIN g = DOMAIN f \ {x}, \A y \in DOMAIN g : g[y] = f[y]
  PROVE  SumFunction(f) = f[x] + SumFunction(g) /\ SumFunction(f) \in Int /\ SumFunction(g) \in Int
<1> DEFINE h == [y \in DOMAIN f \ {x} |-> f[y]]
<1>1. SumFunction(f) \in Int /\ SumFunction(f) = f[x] + SumFunction(h)
  BY SumSplit
<1>2. DOMAIN h = DOMAIN f \ {x} /\ \A y \in DOMAIN h : h[y] = f[y]
  OBVIOUS
<1>3. IsFiniteSet(DOMAIN h)
  BY <1>2, FS_Subset
<1> HIDE DEF h
<1>4. SumFunction(g) = SumFunction(h)
  BY <1>2, <1>3, SumSame
<1>5. SumFunction(h) \in Int
  BY <1>2, <1>3, SumSplit
<1>6. QED
  BY <1>1, <1>4, <1>5

\* The terms of f at the indices s.
Part(f, s) == [x \in s |-> f[x]]

\* One more index adds its term.
LEMMA PartAdded ==
  ASSUME NEW D, IsFiniteSet(D), NEW f, \A x \in D : f[x] \in Int, NEW s \in SUBSET D, NEW x \in D \ s
  PROVE  /\ SumFunction(Part(f, s \cup {x})) = f[x] + SumFunction(Part(f, s))
         /\ SumFunction(Part(f, s)) \in Int
<1> DEFINE h == Part(f, s \cup {x})
           g == Part(f, s)
<1>1. /\ DOMAIN h = s \cup {x} /\ DOMAIN g = s
      /\ \A y \in s \cup {x} : h[y] = f[y]
      /\ \A y \in s : g[y] = f[y]
  BY DEF Part
<1>2. IsFiniteSet(s \cup {x})
  BY FS_Subset
<1> HIDE DEF h, g
<1>3. (s \cup {x}) \ {x} = s
  OBVIOUS
<1>4. SumFunction(h) = h[x] + SumFunction(g) /\ SumFunction(g) \in Int
  <2>1. /\ x \in DOMAIN h /\ IsFiniteSet(DOMAIN h) /\ \A y \in DOMAIN h : h[y] \in Int
        /\ DOMAIN g = DOMAIN h \ {x} /\ \A y \in DOMAIN g : g[y] = h[y]
    BY <1>1, <1>2, <1>3
  <2>2. QED
    BY <2>1, SumWithout
<1>5. QED
  BY <1>1, <1>4 DEF h, g

\* A part of the terms sums to an integer.
LEMMA PartInt ==
  ASSUME NEW D, IsFiniteSet(D), NEW f, \A x \in D : f[x] \in Int, NEW s \in SUBSET D
  PROVE  SumFunction(Part(f, s)) \in Int
<1>1. DOMAIN Part(f, s) = s /\ \A x \in s : Part(f, s)[x] = f[x]
  BY DEF Part
<1>2. IsFiniteSet(s)
  BY FS_Subset
<1>3. QED
  BY <1>1, <1>2, SumSplit

\* All the indices give the whole sum.
LEMMA PartAll ==
  ASSUME NEW f, IsFiniteSet(DOMAIN f)
  PROVE  SumFunction(Part(f, DOMAIN f)) = SumFunction(f)
<1>1. DOMAIN Part(f, DOMAIN f) = DOMAIN f /\ \A x \in DOMAIN f : Part(f, DOMAIN f)[x] = f[x]
  BY DEF Part
<1>2. QED
  BY <1>1, SumSame

\* No index gives zero.
LEMMA PartNone ==
  ASSUME NEW f
  PROVE  SumFunction(Part(f, {})) = 0
<1>1. DOMAIN Part(f, {}) = {}
  BY DEF Part
<1>2. QED
  BY <1>1, SumOfNone

\* The sum of the sums of terms.
LEMMA SumPlus ==
  ASSUME NEW D, IsFiniteSet(D), NEW f, NEW g, NEW h, DOMAIN f = D, DOMAIN g = D, DOMAIN h = D,
         \A x \in D : f[x] \in Int /\ g[x] \in Int /\ h[x] = f[x] + g[x]
  PROVE  SumFunction(h) = SumFunction(f) + SumFunction(g)
<1> DEFINE T == {s \in SUBSET D :
                   SumFunction(Part(h, s)) = SumFunction(Part(f, s)) + SumFunction(Part(g, s))}
<1>1. {} \in T
  BY PartNone
<1>2. ASSUME NEW s \in SUBSET D, NEW x \in D \ s, s \in T
      PROVE  s \cup {x} \in T
  <2>1. /\ SumFunction(Part(f, s \cup {x})) = f[x] + SumFunction(Part(f, s))
        /\ SumFunction(Part(f, s)) \in Int
    BY PartAdded
  <2>2. /\ SumFunction(Part(g, s \cup {x})) = g[x] + SumFunction(Part(g, s))
        /\ SumFunction(Part(g, s)) \in Int
    BY PartAdded
  <2>3. /\ SumFunction(Part(h, s \cup {x})) = h[x] + SumFunction(Part(h, s))
        /\ SumFunction(Part(h, s)) \in Int
    <3>1. \A y \in D : h[y] \in Int
      OBVIOUS
    <3>2. QED
      BY <3>1, PartAdded
  <2>4. h[x] = f[x] + g[x] /\ f[x] \in Int /\ g[x] \in Int
    OBVIOUS
  <2>5. QED
    BY <1>2, <2>1, <2>2, <2>3, <2>4
<1> HIDE DEF T
<1>3. D \in T
  BY <1>1, <1>2, FiniteSubsetInduction
<1>4. QED
  BY <1>3, PartAll DEF T

\* Zeros add up to zero.
LEMMA SumOfZeros ==
  ASSUME NEW f, IsFiniteSet(DOMAIN f), \A x \in DOMAIN f : f[x] = 0
  PROVE  SumFunction(f) = 0
<1> DEFINE T == {s \in SUBSET DOMAIN f : SumFunction(Part(f, s)) = 0}
<1>1. {} \in T
  BY PartNone
<1>2. ASSUME NEW s \in SUBSET DOMAIN f, NEW x \in DOMAIN f \ s, s \in T
      PROVE  s \cup {x} \in T
  <2>1. SumFunction(Part(f, s \cup {x})) = f[x] + SumFunction(Part(f, s))
    BY PartAdded
  <2>2. QED
    BY <1>2, <2>1
<1> HIDE DEF T
<1>3. DOMAIN f \in T
  BY <1>1, <1>2, FiniteSubsetInduction
<1>4. QED
  BY <1>3, PartAll DEF T

\* As many ones as there are indices.
LEMMA SumOfOnes ==
  ASSUME NEW f, IsFiniteSet(DOMAIN f), \A x \in DOMAIN f : f[x] = 1
  PROVE  SumFunction(f) = Cardinality(DOMAIN f)
<1> DEFINE T == {s \in SUBSET DOMAIN f : SumFunction(Part(f, s)) = Cardinality(s)}
<1>1. {} \in T
  BY PartNone, FS_EmptySet
<1>2. ASSUME NEW s \in SUBSET DOMAIN f, NEW x \in DOMAIN f \ s, s \in T
      PROVE  s \cup {x} \in T
  <2>1. SumFunction(Part(f, s \cup {x})) = f[x] + SumFunction(Part(f, s))
    BY PartAdded
  <2>2. IsFiniteSet(s)
    BY FS_Subset
  <2>3. Cardinality(s \cup {x}) = Cardinality(s) + 1 /\ Cardinality(s) \in Nat
    BY <2>2, FS_AddElement, FS_CardinalityType
  <2>4. f[x] = 1 /\ SumFunction(Part(f, s)) = Cardinality(s)
    BY <1>2
  <2>5. QED
    BY <2>1, <2>3, <2>4
<1> HIDE DEF T
<1>3. DOMAIN f \in T
  BY <1>1, <1>2, FiniteSubsetInduction
<1>4. QED
  BY <1>3, PartAll DEF T

\* The terms of two sets of indices that do not overlap.
LEMMA SumUnion ==
  ASSUME NEW A, NEW B, IsFiniteSet(A), IsFiniteSet(B), A \cap B = {},
         NEW f, NEW g, NEW h, DOMAIN f = A, DOMAIN g = B, DOMAIN h = A \cup B,
         \A x \in A : f[x] \in Int /\ h[x] = f[x],
         \A x \in B : g[x] \in Int /\ h[x] = g[x]
  PROVE  SumFunction(h) = SumFunction(f) + SumFunction(g)
<1> DEFINE T == {s \in SUBSET B :
                   SumFunction(Part(h, A \cup s)) = SumFunction(f) + SumFunction(Part(g, s))}
<1>0. IsFiniteSet(A \cup B) /\ \A x \in A \cup B : h[x] \in Int
  BY FS_Union
<1>1. {} \in T
  <2>1. SumFunction(Part(g, {})) = 0
    BY PartNone
  <2>2. A \cup {} = A
    OBVIOUS
  <2>3. DOMAIN Part(h, A) = A /\ \A x \in A : Part(h, A)[x] = f[x]
    BY DEF Part
  <2>4. SumFunction(Part(h, A)) = SumFunction(f)
    BY <2>3, SumSame
  <2>5. SumFunction(f) \in Int
    BY SumSplit
  <2>6. QED
    BY <2>1, <2>2, <2>4, <2>5
<1>2. ASSUME NEW s \in SUBSET B, NEW x \in B \ s, s \in T
      PROVE  s \cup {x} \in T
  <2>1. /\ SumFunction(Part(g, s \cup {x})) = g[x] + SumFunction(Part(g, s))
        /\ SumFunction(Part(g, s)) \in Int
    BY PartAdded
  <2>2. /\ SumFunction(Part(h, (A \cup s) \cup {x})) = h[x] + SumFunction(Part(h, A \cup s))
        /\ SumFunction(Part(h, A \cup s)) \in Int
    <3>1. A \cup s \in SUBSET (A \cup B) /\ x \in (A \cup B) \ (A \cup s)
      OBVIOUS
    <3>2. QED
      BY <1>0, <3>1, PartAdded
  <2>3. SumFunction(Part(h, A \cup (s \cup {x}))) = SumFunction(Part(h, (A \cup s) \cup {x}))
    <3>1. A \cup (s \cup {x}) = (A \cup s) \cup {x}
      OBVIOUS
    <3>2. QED
      BY <3>1, Zenon
  <2>4. h[x] = g[x] /\ g[x] \in Int /\ SumFunction(f) \in Int
    BY SumSplit
  <2>5. SumFunction(Part(h, A \cup s)) = SumFunction(f) + SumFunction(Part(g, s))
    BY <1>2
  <2>6. SumFunction(Part(h, A \cup (s \cup {x}))) = SumFunction(f) + SumFunction(Part(g, s \cup {x}))
    BY <2>1, <2>2, <2>3, <2>4, <2>5
  <2>7. QED
    BY <2>6
<1> HIDE DEF T
<1>3. B \in T
  BY <1>1, <1>2, FiniteSubsetInduction
<1>4. QED
  <2>1. SumFunction(Part(h, A \cup B)) = SumFunction(h)
    BY <1>0, PartAll
  <2>2. SumFunction(Part(g, B)) = SumFunction(g)
    BY PartAll
  <2>3. QED
    BY <1>3, <2>1, <2>2 DEF T

\* One term changes.
LEMMA SumExcept ==
  ASSUME NEW f, NEW g, IsFiniteSet(DOMAIN f), DOMAIN g = DOMAIN f, NEW x \in DOMAIN f,
         \A y \in DOMAIN f : f[y] \in Int, g[x] \in Int,
         \A y \in DOMAIN f \ {x} : g[y] = f[y]
  PROVE  SumFunction(g) = SumFunction(f) - f[x] + g[x]
<1> DEFINE h == [y \in DOMAIN f \ {x} |-> f[y]]
<1>1. DOMAIN h = DOMAIN f \ {x} /\ \A y \in DOMAIN h : h[y] = f[y] /\ h[y] = g[y]
  OBVIOUS
<1> HIDE DEF h
<1>2. SumFunction(f) = f[x] + SumFunction(h) /\ SumFunction(h) \in Int
  BY <1>1, SumWithout
<1>3. SumFunction(g) = g[x] + SumFunction(h)
  <2>1. /\ x \in DOMAIN g /\ IsFiniteSet(DOMAIN g) /\ \A y \in DOMAIN g : g[y] \in Int
        /\ DOMAIN h = DOMAIN g \ {x} /\ \A y \in DOMAIN h : h[y] = g[y]
    BY <1>1
  <2>2. QED
    BY <2>1, SumWithout
<1>4. QED
  BY <1>2, <1>3

ByKey(f, k, R) ==
    IsFiniteSet(DOMAIN f) /\ IsFiniteSet(R) /\ \A x \in DOMAIN f : f[x] \in Int /\ k[x] \in R

Gathered(f, k, R) == [r \in R |-> SumFunction(Part(f, {x \in DOMAIN f : k[x] = r}))]

\* A sum, gathered by the value of k.
LEMMA SumFibers ==
  ASSUME NEW f, NEW k, NEW R, ByKey(f, k, R)
  PROVE  SumFunction(Gathered(f, k, R)) = SumFunction(f)
<1> USE DEF ByKey, Gathered
<1>0. PICK D : D = DOMAIN f
  OBVIOUS
<1> DEFINE At(s, r) == {x \in s : k[x] = r}
           F(s) == [r \in R |-> SumFunction(Part(f, At(s, r)))]
           T == {s \in SUBSET D : SumFunction(F(s)) = SumFunction(Part(f, s))}
<1>1. {} \in T
  <2>1. \A r \in R : At({}, r) = {}
    OBVIOUS
  <2>2. \A r \in R : F({})[r] = 0
    BY <2>1, PartNone
  <2>3. DOMAIN F({}) = R
    OBVIOUS
  <2> HIDE DEF F
  <2>4. SumFunction(F({})) = 0
    BY <2>2, <2>3, SumOfZeros
  <2>5. QED
    BY <2>4, PartNone
<1>2. ASSUME NEW s \in SUBSET D, NEW x \in D \ s, s \in T
      PROVE  s \cup {x} \in T
  <2> DEFINE u == s \cup {x}
             r0 == k[x]
  <2>1. \A r \in R : At(s, r) \in SUBSET D
    BY <1>2
  <2>2. \A r \in R : F(s)[r] \in Int
    BY <1>0, <2>1, PartInt
  <2>3. DOMAIN F(s) = R /\ DOMAIN F(u) = R /\ r0 \in R
    BY <1>0
  <2>4. \A r \in R \ {r0} : F(u)[r] = F(s)[r]
    <3>1. \A r \in R \ {r0} : At(u, r) = At(s, r)
      OBVIOUS
    <3>2. QED
      BY <3>1
  <2>5. F(u)[r0] = f[x] + F(s)[r0]
    <3>1. At(u, r0) = At(s, r0) \cup {x} /\ x \in D \ At(s, r0)
      OBVIOUS
    <3>2. SumFunction(Part(f, At(s, r0) \cup {x})) = f[x] + SumFunction(Part(f, At(s, r0)))
      <4>1. /\ IsFiniteSet(D) /\ \A y \in D : f[y] \in Int
            /\ At(s, r0) \in SUBSET D /\ x \in D \ At(s, r0)
        BY <1>0, <2>1, <2>3, <3>1
      <4> HIDE DEF At, r0
      <4>2. QED
        BY <4>1, PartAdded
    <3>3. QED
      BY <2>3, <3>1, <3>2
  <2> HIDE DEF F, r0
  <2>6. f[x] \in Int
    BY <1>0
  <2>7. SumFunction(F(u)) = SumFunction(F(s)) - F(s)[r0] + F(u)[r0] /\ SumFunction(F(s)) \in Int
    <3>1. F(u)[r0] \in Int
      BY <2>2, <2>3, <2>5, <2>6
    <3>2. SumFunction(F(s)) \in Int
      BY <2>2, <2>3, SumSplit
    <3> HIDE DEF u
    <3>3. QED
      BY <2>2, <2>3, <2>4, <3>1, <3>2, SumExcept
  <2>8. SumFunction(Part(f, u)) = f[x] + SumFunction(Part(f, s))
    BY <1>0, PartAdded
  <2>9. QED
    BY <1>2, <2>2, <2>3, <2>5, <2>6, <2>7, <2>8
<1> HIDE DEF T
<1>3. D \in T
  BY <1>0, <1>1, <1>2, FiniteSubsetInduction
<1>4. QED
  BY <1>0, <1>3, PartAll DEF T

\* The terms under other names.
LEMMA SumReindex ==
  ASSUME NEW f, NEW g, NEW k, IsFiniteSet(DOMAIN f),
         \A x \in DOMAIN f : f[x] \in Int,
         \A x \in DOMAIN f : k[x] \in DOMAIN g /\ g[k[x]] = f[x],
         \A x, y \in DOMAIN f : k[x] = k[y] => x = y,
         \A y \in DOMAIN g : \E x \in DOMAIN f : k[x] = y
  PROVE  SumFunction(g) = SumFunction(f) /\ IsFiniteSet(DOMAIN g)
<1>0. PICK D : D = DOMAIN f
  OBVIOUS
<1> DEFINE Image(s) == {y \in DOMAIN g : \E x \in s : k[x] = y}
           T == {s \in SUBSET D : /\ IsFiniteSet(Image(s))
                                  /\ SumFunction(Part(g, Image(s))) = SumFunction(Part(f, s))}
<1>1. {} \in T
  <2>1. Image({}) = {}
    OBVIOUS
  <2>2. QED
    BY <2>1, PartNone, FS_EmptySet
<1>2. ASSUME NEW s \in SUBSET D, NEW x \in D \ s, s \in T
      PROVE  s \cup {x} \in T
  <2> DEFINE u == Image(s)
  <2>1. Image(s \cup {x}) = u \cup {k[x]} /\ k[x] \notin u
    BY <1>0
  <2>2. IsFiniteSet(u \cup {k[x]})
    BY <1>2, FS_AddElement
  <2>3. \A y \in u \cup {k[x]} : g[y] \in Int
    BY <1>0
  <2> HIDE DEF u
  <2>4. /\ SumFunction(Part(g, u \cup {k[x]})) = g[k[x]] + SumFunction(Part(g, u))
        /\ SumFunction(Part(g, u)) \in Int
    <3>1. u \in SUBSET (u \cup {k[x]}) /\ k[x] \in (u \cup {k[x]}) \ u
      BY <2>1
    <3>2. QED
      BY <2>2, <2>3, <3>1, PartAdded
  <2>5. SumFunction(Part(f, s \cup {x})) = f[x] + SumFunction(Part(f, s))
    BY <1>0, PartAdded
  <2>6. g[k[x]] = f[x] /\ SumFunction(Part(g, u)) = SumFunction(Part(f, s))
    BY <1>0, <1>2 DEF u
  <2>7. QED
    BY <2>1, <2>2, <2>4, <2>5, <2>6
<1> HIDE DEF T
<1>3. D \in T
  BY <1>0, <1>1, <1>2, FiniteSubsetInduction
<1>4. Image(D) = DOMAIN g
  BY <1>0
<1>5. QED
  BY <1>0, <1>3, <1>4, PartAll DEF T

\* The sum of the negated terms.
LEMMA SumNegated ==
  ASSUME NEW f, NEW g, IsFiniteSet(DOMAIN f), DOMAIN g = DOMAIN f,
         \A x \in DOMAIN f : f[x] \in Int /\ g[x] = -f[x]
  PROVE  SumFunction(g) = -SumFunction(f)
<1> DEFINE z == [x \in DOMAIN f |-> 0]
<1>1. DOMAIN z = DOMAIN f /\ \A x \in DOMAIN f : z[x] = 0
  OBVIOUS
<1> HIDE DEF z
<1>2. SumFunction(z) = 0
  BY <1>1, SumOfZeros
<1>3. \A x \in DOMAIN f : f[x] \in Int /\ g[x] \in Int /\ z[x] = f[x] + g[x]
  BY <1>1
<1>4. SumFunction(z) = SumFunction(f) + SumFunction(g)
  BY <1>1, <1>3, SumPlus
<1>5. SumFunction(f) \in Int /\ SumFunction(g) \in Int
  BY <1>3, SumSplit
<1>6. QED
  BY <1>2, <1>4, <1>5

\* Terms that are not negative.
LEMMA SumNat ==
  ASSUME NEW f, IsFiniteSet(DOMAIN f), \A x \in DOMAIN f : f[x] \in Nat
  PROVE  SumFunction(f) \in Nat
<1>0. PICK D : D = DOMAIN f
  OBVIOUS
<1> DEFINE T == {s \in SUBSET D : SumFunction(Part(f, s)) \in Nat}
<1>1. {} \in T
  BY PartNone
<1>2. ASSUME NEW s \in SUBSET D, NEW x \in D \ s, s \in T
      PROVE  s \cup {x} \in T
  <2>1. \A y \in D : f[y] \in Int
    BY <1>0
  <2>2. SumFunction(Part(f, s \cup {x})) = f[x] + SumFunction(Part(f, s)) /\ f[x] \in Nat
    BY <1>0, <2>1, PartAdded
  <2>3. QED
    BY <1>2, <2>2
<1> HIDE DEF T
<1>3. D \in T
  BY <1>0, <1>1, <1>2, FiniteSubsetInduction
<1>4. QED
  BY <1>0, <1>3, PartAll DEF T

\* The same, by domains.
LEMMA SumTwo ==
  ASSUME NEW f, NEW g, NEW h, IsFiniteSet(DOMAIN f), IsFiniteSet(DOMAIN g),
         \A x \in DOMAIN f : x \notin DOMAIN g,
         \A x : x \in DOMAIN h <=> x \in DOMAIN f \/ x \in DOMAIN g,
         \A x \in DOMAIN f : f[x] \in Int /\ h[x] = f[x],
         \A x \in DOMAIN g : g[x] \in Int /\ h[x] = g[x]
  PROVE  SumFunction(h) = SumFunction(f) + SumFunction(g)
<1>1. PICK A, B : A = DOMAIN f /\ B = DOMAIN g
  OBVIOUS
<1>2. /\ IsFiniteSet(A) /\ IsFiniteSet(B) /\ A \cap B = {}
      /\ DOMAIN f = A /\ DOMAIN g = B /\ DOMAIN h = A \cup B
      /\ \A x \in A : f[x] \in Int /\ h[x] = f[x]
      /\ \A x \in B : g[x] \in Int /\ h[x] = g[x]
  BY <1>1
<1>3. QED
  BY <1>2, SumUnion

\* A sequence with one row more, and with one row replaced.
LEMMA Appended ==
  ASSUME NEW R, NEW s \in Seq(R), NEW e \in R
  PROVE  /\ Append(s, e) \in Seq(R) /\ Len(Append(s, e)) = Len(s) + 1 /\ Len(s) \in Nat
         /\ DOMAIN s = 1..Len(s) /\ DOMAIN Append(s, e) = 1..(Len(s) + 1)
         /\ DOMAIN Append(s, e) = DOMAIN s \cup {Len(s) + 1} /\ Len(s) + 1 \notin DOMAIN s
         /\ \A i \in DOMAIN s : Append(s, e)[i] = s[i]
         /\ Append(s, e)[Len(s) + 1] = e
OBVIOUS

\* A row of a table is replaced.
LEMMA Replaced ==
  ASSUME NEW R, NEW s \in Seq(R), NEW i \in DOMAIN s, NEW e \in R
  PROVE  /\ [s EXCEPT ![i] = e] \in Seq(R) /\ DOMAIN [s EXCEPT ![i] = e] = DOMAIN s
         /\ Len([s EXCEPT ![i] = e]) = Len(s) /\ [s EXCEPT ![i] = e][i] = e
         /\ \A j \in DOMAIN s : j # i => [s EXCEPT ![i] = e][j] = s[j]
OBVIOUS

\* A table is finite and its rows have the table's type.
LEMMA RowsFinite ==
  ASSUME NEW R, NEW s \in Seq(R)
  PROVE  /\ IsFiniteSet(DOMAIN s) /\ DOMAIN s \subseteq Nat /\ \A i \in DOMAIN s : s[i] \in R
         /\ DOMAIN s = 1..Len(s) /\ Len(s) \in Nat
BY FS_Interval

On(e, a) == IF a \in DOMAIN e THEN e[a] ELSE 0

SameTerms(ls, ms) ==
    /\ DOMAIN ms = DOMAIN ls
    /\ \A p \in DOMAIN ls : /\ ms[p].qty = ls[p].qty /\ ms[p].price = ls[p].price
                            /\ ms[p].disc = ls[p].disc /\ ms[p].tax = ls[p].tax

Kept(os, ns) == \A i \in DOMAIN os : i \in DOMAIN ns /\ SameTerms(os[i].lines, ns[i].lines)

LEMMA KeptReplaced ==
  ASSUME NEW R, NEW os \in Seq(R), NEW i \in DOMAIN os, NEW row \in R,
         SameTerms(os[i].lines, row.lines)
  PROVE  Kept(os, [os EXCEPT ![i] = row])
BY Replaced DEF Kept, SameTerms

\* A new order leaves the others as agreed.
LEMMA KeptAppended ==
  ASSUME NEW R, NEW os \in Seq(R), NEW row \in R
  PROVE  Kept(os, Append(os, row))
BY Appended DEF Kept, SameTerms

\* Nothing changed is kept.
LEMMA KeptSame ==
  ASSUME NEW os
  PROVE  Kept(os, os)
BY DEF Kept, SameTerms

\* What the rows q of ids hold for p.
Column(q, ids, p) == SumFunction([j \in ids |-> On(q[j], p)])

\* A column depends on its rows only.
LEMMA ColumnSame ==
  ASSUME NEW ids, IsFiniteSet(ids), NEW q, NEW r, \A j \in ids : r[j] = q[j], NEW p
  PROVE  Column(r, ids, p) = Column(q, ids, p)
<1> DEFINE f == [j \in ids |-> On(q[j], p)]
           g == [j \in ids |-> On(r[j], p)]
<1>1. IsFiniteSet(DOMAIN f) /\ DOMAIN g = DOMAIN f /\ \A j \in DOMAIN f : g[j] = f[j]
  OBVIOUS
<1> HIDE DEF f, g
<1>2. SumFunction(g) = SumFunction(f)
  BY <1>1, SumSame
<1>3. QED
  BY <1>2 DEF f, g, Column

\* One more row adds its entry to the column.
LEMMA ColumnAdded ==
  ASSUME NEW ids, IsFiniteSet(ids), NEW k, k \notin ids, NEW q, NEW r,
         \A j \in ids : r[j] = q[j], NEW p,
         \A j \in ids : On(q[j], p) \in Int, On(r[k], p) \in Int
  PROVE  /\ Column(r, ids \cup {k}, p) = Column(q, ids, p) + On(r[k], p)
         /\ Column(q, ids, p) \in Int
<1> DEFINE f == [j \in ids \cup {k} |-> On(r[j], p)]
           g == [j \in ids |-> On(q[j], p)]
<1>1. /\ IsFiniteSet(DOMAIN f) /\ k \in DOMAIN f /\ \A y \in DOMAIN f : f[y] \in Int
      /\ DOMAIN g = DOMAIN f \ {k} /\ \A y \in DOMAIN g : g[y] = f[y]
      /\ f[k] = On(r[k], p)
  BY FS_AddElement
<1> HIDE DEF f, g
<1>2. SumFunction(f) = f[k] + SumFunction(g) /\ SumFunction(g) \in Int
  BY <1>1, SumWithout
<1>3. QED
  BY <1>1, <1>2 DEF f, g, Column

\* A column without an entry is zero.
LEMMA ColumnOfNone ==
  ASSUME NEW q, NEW ids, IsFiniteSet(ids), NEW p, \A j \in ids : On(q[j], p) = 0
  PROVE  Column(q, ids, p) = 0
<1> DEFINE f == [j \in ids |-> On(q[j], p)]
<1>1. IsFiniteSet(DOMAIN f) /\ \A j \in DOMAIN f : f[j] = 0
  OBVIOUS
<1> HIDE DEF f
<1>2. SumFunction(f) = 0
  BY <1>1, SumOfZeros
<1>3. QED
  BY <1>2 DEF f, Column

\* A column is at least each of its entries.
LEMMA ColumnCovers ==
  ASSUME NEW ids, IsFiniteSet(ids), NEW q, NEW p, \A j \in ids : On(q[j], p) \in Nat, NEW k \in ids
  PROVE  Column(q, ids, p) >= On(q[k], p)
<1> DEFINE f == [j \in ids |-> On(q[j], p)]
           g == [j \in ids \ {k} |-> On(q[j], p)]
<1>1. /\ IsFiniteSet(DOMAIN f) /\ k \in DOMAIN f /\ \A y \in DOMAIN f : f[y] \in Int
      /\ DOMAIN g = DOMAIN f \ {k} /\ \A y \in DOMAIN g : g[y] = f[y]
      /\ f[k] = On(q[k], p) /\ f[k] \in Nat
  OBVIOUS
<1>2. IsFiniteSet(DOMAIN g) /\ \A y \in DOMAIN g : g[y] \in Nat
  BY FS_RemoveElement
<1> HIDE DEF f, g
<1>3. SumFunction(f) = f[k] + SumFunction(g)
  BY <1>1, SumWithout
<1>4. SumFunction(g) \in Nat
  BY <1>2, SumNat
<1>5. QED
  BY <1>1, <1>3, <1>4 DEF f, Column

\* The rows of i, and the counters c of every line of every i.
RowsOf(key, i) == {j \in DOMAIN key : key[j] = i}

Tally(c, key, q) ==
    \A i \in DOMAIN c : \A p \in DOMAIN c[i] : c[i][p] = Column(q, RowsOf(key, i), p)

\* The function g is f with the value v for one k more.
Lengthens(f, g, k, v) ==
    /\ k \notin DOMAIN f /\ DOMAIN g = DOMAIN f \cup {k}
    /\ \A j \in DOMAIN f : g[j] = f[j]
    /\ g[k] = v

\* The counters d are the counters c with qty added on the lines of i.
Adds(c, d, i, qty) ==
    /\ DOMAIN d = DOMAIN c
    /\ \A j \in DOMAIN c : DOMAIN d[j] = DOMAIN c[j]
    /\ \A j \in DOMAIN c : \A p \in DOMAIN c[j] : d[j][p] = c[j][p] + (IF j = i THEN On(qty, p) ELSE 0)

Countable(qty) == \A p : On(qty, p) \in Nat

\* One row more, counted on the lines of its order.
LEMMA TallyAdded ==
  ASSUME NEW c, NEW key, NEW q, Tally(c, key, q), IsFiniteSet(DOMAIN key), DOMAIN q = DOMAIN key,
         \A j \in DOMAIN q : Countable(q[j]),
         NEW d, NEW l, NEW r, NEW k, NEW o, NEW qty, Countable(qty),
         Lengthens(key, l, k, o), Lengthens(q, r, k, qty), Adds(c, d, o, qty)
  PROVE  Tally(d, l, r)
<1>0. /\ DOMAIN d = DOMAIN c /\ \A i \in DOMAIN c : DOMAIN d[i] = DOMAIN c[i]
      /\ \A i \in DOMAIN c : \A p \in DOMAIN c[i] :
            d[i][p] = c[i][p] + (IF i = o THEN On(qty, p) ELSE 0)
      /\ DOMAIN l = DOMAIN key \cup {k} /\ k \notin DOMAIN key /\ l[k] = o /\ r[k] = qty
      /\ \A j \in DOMAIN key : l[j] = key[j] /\ r[j] = q[j]
  BY DEF Lengthens, Adds
<1> SUFFICES ASSUME NEW i \in DOMAIN c, NEW p \in DOMAIN c[i]
             PROVE  d[i][p] = Column(r, RowsOf(l, i), p)
  BY <1>0 DEF Tally
<1>1. c[i][p] = Column(q, RowsOf(key, i), p)
  BY DEF Tally
<1>2. PICK ids : ids = RowsOf(key, i)
  OBVIOUS
<1>3. IsFiniteSet(ids) /\ ids \subseteq DOMAIN key /\ k \notin ids
  BY <1>0, <1>2, FS_Subset DEF RowsOf
<1>4. d[i][p] = Column(q, ids, p) + (IF i = o THEN On(qty, p) ELSE 0)
  BY <1>0, <1>1, <1>2
<1>5. /\ Column(r, ids \cup {k}, p) = Column(q, ids, p) + On(qty, p)
      /\ Column(q, ids, p) \in Int
  <2>1. /\ \A j \in ids : On(q[j], p) \in Int
        /\ \A j \in ids : r[j] = q[j]
        /\ On(r[k], p) \in Int /\ r[k] = qty
    BY <1>0, <1>3 DEF Countable
  <2>2. /\ Column(r, ids \cup {k}, p) = Column(q, ids, p) + On(r[k], p)
        /\ Column(q, ids, p) \in Int
    BY <1>3, <2>1, ColumnAdded
  <2>3. QED
    BY <2>1, <2>2
<1>6. CASE i = o
  <2>1. RowsOf(l, i) = ids \cup {k}
    BY <1>0, <1>2, <1>6 DEF RowsOf
  <2>2. d[i][p] = Column(q, ids, p) + On(qty, p)
    BY <1>4, <1>6
  <2>3. QED
    BY <1>5, <2>1, <2>2
<1>7. CASE i # o
  <2>1. RowsOf(l, i) = ids
    BY <1>0, <1>2, <1>7 DEF RowsOf
  <2>2. Column(r, ids, p) = Column(q, ids, p)
    BY <1>0, <1>3, ColumnSame
  <2>3. QED
    BY <1>4, <1>5, <1>7, <2>1, <2>2
<1>8. QED
  BY <1>6, <1>7

\* The counters d are the counters c with those of a new k, all zero.
Opens(c, d, k) ==
    /\ k \notin DOMAIN c /\ DOMAIN d = DOMAIN c \cup {k} /\ \A i \in DOMAIN c : d[i] = c[i]
    /\ \A p \in DOMAIN d[k] : d[k][p] = 0

\* Nothing is made yet from a new order or invoice.
LEMMA TallyOpened ==
  ASSUME NEW c, NEW key, NEW q, Tally(c, key, q), \A j \in DOMAIN key : key[j] \in DOMAIN c,
         NEW d, NEW k, Opens(c, d, k)
  PROVE  Tally(d, key, q)
<1>1. ASSUME NEW i \in DOMAIN c PROVE \A p \in DOMAIN d[i] : d[i][p] = Column(q, RowsOf(key, i), p)
  BY DEF Tally, Opens
<1>2. ASSUME NEW p \in DOMAIN d[k] PROVE d[k][p] = Column(q, RowsOf(key, k), p)
  <2>1. PICK none : none = RowsOf(key, k)
    OBVIOUS
  <2>2. none = {}
    BY <2>1 DEF RowsOf, Opens
  <2>3. IsFiniteSet(none) /\ \A j \in none : On(q[j], p) = 0
    BY <2>2, FS_EmptySet
  <2>4. Column(q, none, p) = 0
    BY <2>3, ColumnOfNone
  <2>5. QED
    BY <2>1, <2>4 DEF Opens
<1>3. QED
  BY <1>1, <1>2 DEF Tally, Opens

\* A document has lines of its order only.
Covers(docs, os) ==
    \A j \in DOMAIN docs :
        docs[j].order \in DOMAIN os /\ DOMAIN docs[j].qty \subseteq DOMAIN os[docs[j].order].lines

\* Documents and the lines of their orders.
LEMMA CoversKept ==
  ASSUME NEW docs, NEW os, NEW ns, Covers(docs, os), Kept(os, ns)
  PROVE  Covers(docs, ns)
BY DEF Covers, Kept, SameTerms

\* A document with lines of its order only.
LEMMA CoversAppended ==
  ASSUME NEW R, NEW docs \in Seq(R), NEW doc \in R, NEW os, Covers(docs, os),
         doc.order \in DOMAIN os, DOMAIN doc.qty \subseteq DOMAIN os[doc.order].lines
  PROVE  Covers(Append(docs, doc), os)
<1>1. /\ DOMAIN Append(docs, doc) = DOMAIN docs \cup {Len(docs) + 1}
      /\ \A i \in DOMAIN docs : Append(docs, doc)[i] = docs[i]
      /\ Append(docs, doc)[Len(docs) + 1] = doc
  BY Appended
<1>2. QED
  BY <1>1 DEF Covers

AmountsOf(pays) == [y \in DOMAIN pays |-> pays[y].amount]

AllocatedSums(pays) == [y \in DOMAIN pays |-> SumFunction(pays[y].allocated)]

Numbers(f) == IsFiniteSet(DOMAIN f) /\ \A x \in DOMAIN f : f[x] \in Int

\* One more term, and one that changes.
LEMMA SumOneMore ==
  ASSUME NEW f, NEW g, Numbers(f), NEW k, k \notin DOMAIN f, DOMAIN g = DOMAIN f \cup {k}, g[k] \in Int,
         \A x \in DOMAIN f : g[x] = f[x]
  PROVE  SumFunction(g) = SumFunction(f) + g[k] /\ SumFunction(f) \in Int
<1>1. /\ IsFiniteSet(DOMAIN g) /\ k \in DOMAIN g /\ \A y \in DOMAIN g : g[y] \in Int
      /\ DOMAIN f = DOMAIN g \ {k} /\ \A y \in DOMAIN f : f[y] = g[y]
  BY FS_AddElement DEF Numbers
<1>2. SumFunction(g) = g[k] + SumFunction(f) /\ SumFunction(f) \in Int
  BY <1>1, SumWithout
<1>3. QED
  BY <1>2

\* Numbers sum to a number.
LEMMA NumbersSum ==
  ASSUME NEW f, Numbers(f)
  PROVE  SumFunction(f) \in Int
BY SumSplit DEF Numbers

\* The part of a sum that is not zero.
LEMMA SumNonZero ==
  ASSUME NEW f, NEW h, Numbers(f), Numbers(h), DOMAIN f \subseteq DOMAIN h,
         \A x \in DOMAIN f : h[x] = f[x], \A x \in DOMAIN h \ DOMAIN f : h[x] = 0
  PROVE  SumFunction(h) = SumFunction(f)
<1> DEFINE z == [x \in DOMAIN h \ DOMAIN f |-> 0]
<1>1. IsFiniteSet(DOMAIN z) /\ \A x \in DOMAIN z : z[x] = 0
  BY FS_Subset DEF Numbers
<1>2. /\ \A x \in DOMAIN f : x \notin DOMAIN z
      /\ \A x : x \in DOMAIN h <=> x \in DOMAIN f \/ x \in DOMAIN z
      /\ \A x \in DOMAIN f : f[x] \in Int /\ h[x] = f[x]
      /\ \A x \in DOMAIN z : z[x] \in Int /\ h[x] = z[x]
  BY DEF Numbers
<1> HIDE DEF z
<1>3. SumFunction(h) = SumFunction(f) + SumFunction(z)
  BY <1>1, <1>2, SumTwo DEF Numbers
<1>4. SumFunction(z) = 0
  BY <1>1, SumOfZeros
<1>5. QED
  BY <1>3, <1>4, NumbersSum

\* A payment is added.
LEMMA PaymentsAdded ==
  ASSUME NEW R, NEW pays \in Seq(R), NEW pay \in R, Numbers(AmountsOf(pays)), Numbers(AllocatedSums(pays)),
         pay.amount \in Nat, SumFunction(pay.allocated) \in Nat
  PROVE  /\ SumFunction(AmountsOf(Append(pays, pay))) = SumFunction(AmountsOf(pays)) + pay.amount
         /\ SumFunction(AllocatedSums(Append(pays, pay)))
                = SumFunction(AllocatedSums(pays)) + SumFunction(pay.allocated)
<1>1. PICK k, news : k = Len(pays) + 1 /\ news = Append(pays, pay)
  OBVIOUS
<1>2. /\ DOMAIN news = DOMAIN pays \cup {k} /\ k \notin DOMAIN pays /\ news[k] = pay
      /\ \A i \in DOMAIN pays : news[i] = pays[i]
  BY <1>1, Appended
<1>3. /\ DOMAIN AmountsOf(news) = DOMAIN AmountsOf(pays) \cup {k} /\ k \notin DOMAIN AmountsOf(pays)
      /\ \A i \in DOMAIN AmountsOf(pays) : AmountsOf(news)[i] = AmountsOf(pays)[i]
      /\ AmountsOf(news)[k] = pay.amount
  BY <1>2 DEF AmountsOf
<1>4. PICK sum : sum = SumFunction(pay.allocated)
  OBVIOUS
<1>5. /\ DOMAIN AllocatedSums(news) = DOMAIN AllocatedSums(pays) \cup {k}
      /\ k \notin DOMAIN AllocatedSums(pays)
      /\ \A i \in DOMAIN AllocatedSums(pays) : AllocatedSums(news)[i] = AllocatedSums(pays)[i]
      /\ AllocatedSums(news)[k] = sum /\ sum \in Int
  BY <1>2, <1>4 DEF AllocatedSums
<1>6. SumFunction(AmountsOf(news)) = SumFunction(AmountsOf(pays)) + pay.amount
  BY <1>3, SumOneMore
<1>7. SumFunction(AllocatedSums(news)) = SumFunction(AllocatedSums(pays)) + sum
  BY <1>5, SumOneMore
<1>8. QED
  BY <1>1, <1>4, <1>6, <1>7

\* A number and its opposite.
LEMMA Opposite ==
  ASSUME NEW x \in Int, NEW y \in Int, x + y = 0
  PROVE  -x = y
OBVIOUS

\* The difference of two columns.
LEMMA SumMinus ==
  ASSUME NEW f, NEW g, NEW h, Numbers(f), Numbers(g), DOMAIN g = DOMAIN f, DOMAIN h = DOMAIN f,
         \A x \in DOMAIN f : h[x] = f[x] - g[x]
  PROVE  /\ SumFunction(h) = SumFunction(f) - SumFunction(g) /\ Numbers(h)
         /\ SumFunction(f) \in Int /\ SumFunction(g) \in Int /\ SumFunction(h) \in Int
<1>1. Numbers(h)
  BY DEF Numbers
<1>2. PICK D : D = DOMAIN f
  OBVIOUS
<1>3. /\ IsFiniteSet(D) /\ DOMAIN h = D /\ DOMAIN g = D /\ DOMAIN f = D
      /\ \A x \in D : h[x] \in Int /\ g[x] \in Int /\ f[x] = h[x] + g[x]
  BY <1>1, <1>2 DEF Numbers
<1>4. SumFunction(f) = SumFunction(h) + SumFunction(g)
  BY <1>3, SumPlus
<1>5. SumFunction(f) \in Int /\ SumFunction(g) \in Int /\ SumFunction(h) \in Int
  BY <1>1, NumbersSum
<1>6. QED
  BY <1>1, <1>4, <1>5

\* What is due, party by party, is what is due.
LEMMA PerParty ==
  ASSUME NEW due, NEW party, NEW R, IsFiniteSet(R), Numbers(due), \A i \in DOMAIN due : party[i] \in R,
         NEW sums, DOMAIN sums = R,
         \A r \in R : sums[r] = SumFunction(Part(due, {i \in DOMAIN due : party[i] = r}))
  PROVE  SumFunction(sums) = SumFunction(due)
<1>1. PICK h : h = [r \in R |-> SumFunction(Part(due, {i \in DOMAIN due : party[i] = r}))]
  OBVIOUS
<1>2. DOMAIN h = R /\ \A r \in R : sums[r] = h[r]
  BY <1>1
<1>3. SumFunction(sums) = SumFunction(h)
  BY <1>2, SumSame
<1>4. SumFunction(h) = SumFunction(due)
  <2>1. ByKey(due, party, R) /\ h = Gathered(due, party, R)
    BY <1>1 DEF Numbers, ByKey, Gathered
  <2>2. QED
    BY <2>1, SumFibers, Zenon
<1>5. QED
  BY <1>3, <1>4

\* A smaller column has a smaller sum.
LEMMA SumWithin ==
  ASSUME NEW f, NEW g, Numbers(f), Numbers(g), DOMAIN g = DOMAIN f, \A x \in DOMAIN f : f[x] <= g[x]
  PROVE  SumFunction(f) <= SumFunction(g) /\ SumFunction(f) \in Int /\ SumFunction(g) \in Int
<1>1. PICK h : h = [x \in DOMAIN f |-> g[x] - f[x]]
  OBVIOUS
<1>2. /\ DOMAIN h = DOMAIN g /\ IsFiniteSet(DOMAIN h)
      /\ \A x \in DOMAIN g : h[x] = g[x] - f[x]
      /\ \A x \in DOMAIN h : h[x] \in Nat
  BY <1>1 DEF Numbers
<1>3. SumFunction(h) = SumFunction(g) - SumFunction(f)
      /\ SumFunction(f) \in Int /\ SumFunction(g) \in Int
  BY <1>2, SumMinus
<1>4. SumFunction(h) \in Nat
  BY <1>2, SumNat
<1>5. QED
  BY <1>3, <1>4

\* The sum of two columns.
LEMMA SumAdd ==
  ASSUME NEW f, NEW g, NEW h, Numbers(f), Numbers(g), DOMAIN g = DOMAIN f, DOMAIN h = DOMAIN f,
         \A x \in DOMAIN f : h[x] = f[x] + g[x]
  PROVE  /\ SumFunction(h) = SumFunction(f) + SumFunction(g) /\ Numbers(h)
         /\ SumFunction(f) \in Int /\ SumFunction(g) \in Int /\ SumFunction(h) \in Int
<1>1. Numbers(h)
  BY DEF Numbers
<1>2. PICK D : D = DOMAIN f
  OBVIOUS
<1>3. /\ IsFiniteSet(D) /\ DOMAIN f = D /\ DOMAIN g = D /\ DOMAIN h = D
      /\ \A x \in D : f[x] \in Int /\ g[x] \in Int /\ h[x] = f[x] + g[x]
  BY <1>2 DEF Numbers
<1>4. SumFunction(h) = SumFunction(f) + SumFunction(g)
  BY <1>3, SumPlus
<1>5. QED
  BY <1>1, <1>4, NumbersSum

\* Products of natural numbers.
LEMMA ProductGrows ==
  ASSUME NEW r \in Nat, NEW e \in Nat, NEW f \in Nat, e <= f
  PROVE  /\ r * e \in Nat /\ r * f \in Nat /\ r * e <= r * f
         /\ (r + 1) * f \in Nat /\ (r + 1) * f = r * f + f
<1>1. PICK d \in Nat : f = e + d
  <2>1. f - e \in Nat /\ f = e + (f - e)
    OBVIOUS
  <2>2. QED
    BY <2>1
<1>2. r * e \in Nat /\ r * d \in Nat /\ r * f \in Nat /\ (r + 1) * f \in Nat
  BY <1>1
<1>3. r * (e + d) = r * e + r * d /\ (r + 1) * f = r * f + f
  OBVIOUS
<1>4. QED
  BY <1>1, <1>2, <1>3

\* Sums whose terms, K times over, are half of K n[x] from g[x] at most.
LEMMA RoundedSum ==
  ASSUME NEW K \in Nat, NEW f, NEW g, NEW n, Numbers(f), Numbers(g), Numbers(n),
         DOMAIN g = DOMAIN f, DOMAIN n = DOMAIN f,
         \A x \in DOMAIN f : /\ 2 * (K * f[x]) <= 2 * g[x] + K * n[x]
                             /\ 2 * g[x] - K * n[x] <= 2 * (K * f[x])
  PROVE  /\ SumFunction(f) \in Int /\ SumFunction(g) \in Int /\ SumFunction(n) \in Int
         /\ 2 * (K * SumFunction(f)) <= 2 * SumFunction(g) + K * SumFunction(n)
         /\ 2 * SumFunction(g) - K * SumFunction(n) <= 2 * (K * SumFunction(f))
<1>1. PICK D : D = DOMAIN f
  OBVIOUS
<1>2. /\ IsFiniteSet(D) /\ DOMAIN f = D /\ DOMAIN g = D /\ DOMAIN n = D
      /\ \A x \in D : f[x] \in Int /\ g[x] \in Int /\ n[x] \in Int
  BY <1>1 DEF Numbers
<1> DEFINE T == {s \in SUBSET D :
                   /\ 2 * (K * SumFunction(Part(f, s)))
                        <= 2 * SumFunction(Part(g, s)) + K * SumFunction(Part(n, s))
                   /\ 2 * SumFunction(Part(g, s)) - K * SumFunction(Part(n, s))
                        <= 2 * (K * SumFunction(Part(f, s)))}
<1>3. {} \in T
  BY PartNone
<1>4. ASSUME NEW s \in SUBSET D, NEW x \in D \ s, s \in T
      PROVE  s \cup {x} \in T
  <2>1. /\ SumFunction(Part(f, s \cup {x})) = f[x] + SumFunction(Part(f, s))
        /\ SumFunction(Part(f, s)) \in Int
    BY <1>2, PartAdded
  <2>g. /\ SumFunction(Part(g, s \cup {x})) = g[x] + SumFunction(Part(g, s))
        /\ SumFunction(Part(g, s)) \in Int
    BY <1>2, PartAdded
  <2>n. /\ SumFunction(Part(n, s \cup {x})) = n[x] + SumFunction(Part(n, s))
        /\ SumFunction(Part(n, s)) \in Int
    BY <1>2, PartAdded
  <2>2. PICK a \in Int, b \in Int, c \in Int, u \in Int, v \in Int, w \in Int :
            /\ a = SumFunction(Part(f, s)) /\ b = SumFunction(Part(g, s))
            /\ c = SumFunction(Part(n, s)) /\ u = f[x] /\ v = g[x] /\ w = n[x]
    BY <1>2, <2>1, <2>g, <2>n
  <2>3. /\ 2 * (K * a) <= 2 * b + K * c /\ 2 * b - K * c <= 2 * (K * a)
        /\ 2 * (K * u) <= 2 * v + K * w /\ 2 * v - K * w <= 2 * (K * u)
    BY <1>1, <1>4, <2>2
  <2>4. /\ K * (u + a) = K * u + K * a /\ K * (w + c) = K * w + K * c
        /\ K * u \in Int /\ K * a \in Int /\ K * w \in Int /\ K * c \in Int
    OBVIOUS
  <2>5. /\ 2 * (K * (u + a)) <= 2 * (v + b) + K * (w + c)
        /\ 2 * (v + b) - K * (w + c) <= 2 * (K * (u + a))
    BY <2>3, <2>4
  <2>6. QED
    BY <2>1, <2>g, <2>n, <2>2, <2>5
<1> HIDE DEF T
<1>5. D \in T
  BY <1>2, <1>3, <1>4, FiniteSubsetInduction
<1>6. QED
  BY <1>2, <1>5, PartAll, NumbersSum DEF T

\* Two sums rounded from the same value differ by half a unit of money a term.
LEMMA RoundedApart ==
  ASSUME NEW K \in Nat \ {0}, NEW a \in Int, NEW b \in Int, NEW v \in Int, NEW m \in Int, NEW n \in Int,
         2 * (K * a) <= 2 * v + K * m, 2 * v - K * m <= 2 * (K * a),
         2 * (K * b) <= 2 * v + K * n, 2 * v - K * n <= 2 * (K * b)
  PROVE  2 * (a - b) <= m + n /\ 2 * (b - a) <= m + n
<1>1. ASSUME NEW x \in Int, K * x >= 0 PROVE x >= 0
  <2>1. CASE x < 0
    <3>1. PICK y \in Nat : x = -1 - y
      <4>1. -1 - x \in Nat /\ x = -1 - (-1 - x)
        BY <2>1
      <4>2. QED
        BY <4>1
    <3>2. K * x = -K - K * y /\ K * y \in Nat
      BY <3>1
    <3>3. QED
      BY <1>1, <3>2
  <2>2. QED
    BY <2>1
<1>2. /\ K * (m + n - 2 * (a - b)) = K * m + K * n - 2 * (K * a) + 2 * (K * b)
      /\ K * (m + n - 2 * (b - a)) = K * m + K * n - 2 * (K * b) + 2 * (K * a)
      /\ K * a \in Int /\ K * b \in Int /\ K * m \in Int /\ K * n \in Int
  OBVIOUS
<1>3. K * (m + n - 2 * (a - b)) >= 0 /\ K * (m + n - 2 * (b - a)) >= 0
  BY <1>2
<1>4. m + n - 2 * (a - b) >= 0 /\ m + n - 2 * (b - a) >= 0
  BY <1>1, <1>3
<1>5. QED
  BY <1>4

=============================================================================
