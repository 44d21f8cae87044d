--------------------------- MODULE DataInduction ---------------------------
(***************************************************************************)
(* Induction over data, in first-order form: a set of counterexamples that *)
(* is not empty has a least element, or one that is smallest for           *)
(* inclusion.  The equations of the recursive definitions the models use   *)
(* follow from it: powers and units of numbers, loops with an accumulator, *)
(* sums over a finite set.                                                 *)
(***************************************************************************)
EXTENDS Integers, Functions, FiniteSetTheorems, WellFoundedInduction, TLAPS

\* A set of numbers that is not empty has a least element.
LEMMA Least ==
  ASSUME NEW T \in SUBSET Nat, T # {}
  PROVE  \E n \in T : \A m \in T : n <= m
<1> DEFINE R == OpToRel(<, Nat)
<1>1. IsWellFoundedOn(R, Nat)
  BY NatLessThanWellFounded, Zenon
<1>2. \A m, n \in Nat : m < n => <<m, n>> \in R
  BY DEF OpToRel
<1> HIDE DEF R
<1>3. PICK n \in T : \A m \in T : <<m, n>> \notin R
  BY <1>1, WFMin
<1>4. \A m \in T : ~ (m < n)
  BY <1>2, <1>3
<1> QED BY <1>4

\* A set of finite sets that is not empty has an element such that none of its
\* subsets with one element less is in the set.
LEMMA Smallest ==
  ASSUME NEW F, F # {}, \A S \in F : IsFiniteSet(S)
  PROVE  \E S \in F : \A x \in S : S \ {x} \notin F
<1> DEFINE T == {Cardinality(S) : S \in F}
<1>1. T \in SUBSET Nat /\ T # {}
  BY FS_CardinalityType
<1>2. PICK n \in T : \A m \in T : n <= m
  BY <1>1, Least
<1>3. PICK S \in F : Cardinality(S) = n
  BY <1>2
<1>4. ASSUME NEW x \in S, S \ {x} \in F PROVE FALSE
  <2>1. Cardinality(S \ {x}) = n - 1 /\ n \in Nat
    BY <1>1, <1>3, FS_RemoveElement, FS_CardinalityType
  <2>2. Cardinality(S \ {x}) \in T
    BY <1>4
  <2> HIDE DEF T
  <2>3. n <= Cardinality(S \ {x})
    BY <1>2, <2>2
  <2> QED BY <2>1, <2>3
<1> QED BY <1>4
-----------------------------------------------------------------------------
(* Recursion: c on the set B, elsewhere k times the value at a smaller      *)
(* argument, p[n].                                                         *)

Recursive(g, B, c, k, p) == g = [n \in Nat |-> IF n \in B THEN c ELSE k * g[p[n]]]

RecursiveUpTo(g, n, B, c, k, p) ==
  g = [m \in 0..n |-> IF m \in B THEN c ELSE k * g[p[m]]]

\* There is one up to every number.
LEMMA RecursionUpTo ==
  ASSUME NEW B \in SUBSET Nat, NEW c, NEW k, NEW p,
         \A n \in Nat \ B : p[n] \in Nat /\ p[n] < n,
         NEW n \in Nat
  PROVE  \E g : RecursiveUpTo(g, n, B, c, k, p)
<1> DEFINE Bad == {m \in Nat : ~ \E g : RecursiveUpTo(g, m, B, c, k, p)}
<1> SUFFICES ASSUME Bad # {} PROVE FALSE
  OBVIOUS
<1>0. Bad \in SUBSET Nat
  OBVIOUS
<1>1. PICK m \in Bad : \A l \in Bad : m <= l
  BY <1>0, Least
<1> HIDE DEF Bad
<1>m. m \in Nat
  BY <1>0, <1>1
<1>z. 0 \in B
  OBVIOUS
<1>2. CASE m = 0
  <2>1. RecursiveUpTo([l \in 0..0 |-> c], 0, B, c, k, p)
    <3> DEFINE h == [l \in 0..0 |-> c]
    <3>1. \A l \in 0..0 : h[l] = IF l \in B THEN c ELSE k * h[p[l]]
      BY <1>z
    <3>2. h = [l \in 0..0 |-> h[l]]
      OBVIOUS
    <3> HIDE DEF h
    <3>3. h = [l \in 0..0 |-> IF l \in B THEN c ELSE k * h[p[l]]]
      BY <3>1, <3>2
    <3> QED BY <3>3 DEF RecursiveUpTo, h
  <2> QED BY <1>1, <1>2, <2>1 DEF Bad
<1>3. CASE m # 0
  <2>1. PICK g : RecursiveUpTo(g, m - 1, B, c, k, p)
    BY <1>1, <1>3, <1>m DEF Bad
  <2> DEFINE h == [l \in 0..m |-> IF l \in B THEN c ELSE k * g[p[l]]]
  <2>2. \A l \in 0..(m - 1) : h[l] = g[l]
    BY <1>m, <2>1 DEF RecursiveUpTo
  <2>3. ASSUME NEW l \in 0..m PROVE h[l] = IF l \in B THEN c ELSE k * h[p[l]]
    <3>1. l \notin B => p[l] \in 0..(m - 1)
      BY <1>m
    <3> QED BY <2>2, <3>1
  <2>4. h = [l \in 0..m |-> h[l]]
    OBVIOUS
  <2> HIDE DEF h
  <2>5. h = [l \in 0..m |-> IF l \in B THEN c ELSE k * h[p[l]]]
    BY <2>3, <2>4
  <2> QED BY <1>1, <2>5 DEF RecursiveUpTo, Bad
<1> QED BY <1>2, <1>3

\* And so one on all of them: their values agree where both are defined.
LEMMA RecursionExists ==
  ASSUME NEW B \in SUBSET Nat, NEW c, NEW k, NEW p,
         \A n \in Nat \ B : p[n] \in Nat /\ p[n] < n
  PROVE  \E g : Recursive(g, B, c, k, p)
<1> DEFINE U(n) == CHOOSE g : RecursiveUpTo(g, n, B, c, k, p)
           h == [n \in Nat |-> U(n)[n]]
<1>1. \A n \in Nat : RecursiveUpTo(U(n), n, B, c, k, p)
  BY RecursionUpTo
<1> HIDE DEF U
<1>2. ASSUME NEW n \in Nat, NEW m \in Nat, m <= n
      PROVE  U(n)[m] = U(m)[m]
  <2> DEFINE Bad == {l \in 0..m : U(n)[l] # U(m)[l]}
  <2>1. ASSUME Bad # {} PROVE FALSE
    <3>0. Bad \in SUBSET Nat
      OBVIOUS
    <3>1. PICK l \in Bad : \A q \in Bad : l <= q
      BY <2>1, <3>0, Least
    <3>2. l \in 0..m /\ l \in 0..n /\ U(n)[l] # U(m)[l]
      BY <1>2, <3>1
    <3>3. /\ U(n)[l] = (IF l \in B THEN c ELSE k * U(n)[p[l]])
          /\ U(m)[l] = (IF l \in B THEN c ELSE k * U(m)[p[l]])
      BY <1>1, <3>2 DEF RecursiveUpTo
    <3>4. l \notin B => p[l] \in 0..m /\ p[l] < l
      BY <3>2
    <3>5. l \notin B => p[l] \notin Bad
      BY <3>0, <3>1, <3>4, <3>2
    <3> QED BY <3>2, <3>3, <3>4, <3>5
  <2> QED BY <2>1
<1>3. ASSUME NEW n \in Nat PROVE h[n] = IF n \in B THEN c ELSE k * h[p[n]]
  <2>1. U(n)[n] = IF n \in B THEN c ELSE k * U(n)[p[n]]
    BY <1>1 DEF RecursiveUpTo
  <2>2. n \notin B => U(n)[p[n]] = U(p[n])[p[n]]
    BY <1>2
  <2> QED BY <2>1, <2>2
<1>4. h = [n \in Nat |-> h[n]]
  OBVIOUS
<1> HIDE DEF h
<1>5. h = [n \in Nat |-> IF n \in B THEN c ELSE k * h[p[n]]]
  BY <1>3, <1>4
<1> QED BY <1>5 DEF Recursive
-----------------------------------------------------------------------------
(* Tail recursion: c[x] on the set B, elsewhere the value at p[x], whose    *)
(* rank r is smaller.                                                       *)

TailRecursive(g, D, B, c, p) == g = [x \in D |-> IF x \in B THEN c[x] ELSE g[p[x]]]

Below(D, r, n) == {x \in D : r[x] < n}

\* There is one on the arguments of every bounded rank.
LEMMA TailRecursionUpTo ==
  ASSUME NEW D, NEW B, NEW c, NEW p, NEW r,
         \A x \in D : r[x] \in Nat,
         \A x \in D \ B : p[x] \in D /\ r[p[x]] < r[x],
         NEW n \in Nat
  PROVE  \E g : TailRecursive(g, Below(D, r, n), B, c, p)
<1> DEFINE Bad == {m \in Nat : ~ \E g : TailRecursive(g, Below(D, r, m), B, c, p)}
<1> SUFFICES ASSUME Bad # {} PROVE FALSE
  OBVIOUS
<1>0. Bad \in SUBSET Nat
  OBVIOUS
<1>1. PICK m \in Bad : \A l \in Bad : m <= l
  BY <1>0, Least
<1>2. m \in Nat /\ ~ \E g : TailRecursive(g, Below(D, r, m), B, c, p)
  BY <1>0, <1>1
<1>3. CASE m = 0
  <2> DEFINE h == [x \in {} |-> c[x]]
  <2>1. Below(D, r, m) = {}
    BY <1>3 DEF Below
  <2>2. h = [x \in {} |-> IF x \in B THEN c[x] ELSE h[p[x]]]
    OBVIOUS
  <2> HIDE DEF h
  <2> QED BY <1>2, <2>1, <2>2 DEF TailRecursive
<1>4. CASE m # 0
  <2>1. m - 1 \in Nat /\ m - 1 \notin Bad
    BY <1>1, <1>2, <1>4
  <2>2. PICK g : TailRecursive(g, Below(D, r, m - 1), B, c, p)
    BY <2>1
  <2> DEFINE h == [x \in Below(D, r, m) |-> IF x \in B THEN c[x] ELSE g[p[x]]]
  <2>3. \A x \in Below(D, r, m - 1) : x \in Below(D, r, m) /\ h[x] = g[x]
    <3>1. \A x \in Below(D, r, m - 1) : x \in Below(D, r, m)
      BY <1>2 DEF Below
    <3>2. \A x \in Below(D, r, m - 1) : g[x] = IF x \in B THEN c[x] ELSE g[p[x]]
      BY <2>2 DEF TailRecursive
    <3> QED BY <3>1, <3>2
  <2>4. ASSUME NEW x \in Below(D, r, m) \ B PROVE p[x] \in Below(D, r, m - 1)
    <3>1. r[x] \in Nat /\ r[x] < m /\ p[x] \in D /\ r[p[x]] \in Nat /\ r[p[x]] < r[x]
      BY DEF Below
    <3> QED BY <1>2, <3>1 DEF Below
  <2>5. \A x \in Below(D, r, m) : h[x] = IF x \in B THEN c[x] ELSE h[p[x]]
    BY <2>3, <2>4
  <2>6. h = [x \in Below(D, r, m) |-> h[x]]
    OBVIOUS
  <2> HIDE DEF h
  <2>7. h = [x \in Below(D, r, m) |-> IF x \in B THEN c[x] ELSE h[p[x]]]
    BY <2>5, <2>6
  <2> QED BY <1>2, <2>7 DEF TailRecursive
<1> QED BY <1>3, <1>4

\* And so one on all of them.
LEMMA TailRecursionExists ==
  ASSUME NEW D, NEW B, NEW c, NEW p, NEW r,
         \A x \in D : r[x] \in Nat,
         \A x \in D \ B : p[x] \in D /\ r[p[x]] < r[x]
  PROVE  \E g : TailRecursive(g, D, B, c, p)
<1> DEFINE U(n) == CHOOSE g : TailRecursive(g, Below(D, r, n), B, c, p)
           h == [x \in D |-> U(r[x] + 1)[x]]
<1>1. \A n \in Nat : TailRecursive(U(n), Below(D, r, n), B, c, p)
  BY TailRecursionUpTo
<1> HIDE DEF U
<1>2. \A n \in Nat : \A x \in Below(D, r, n) :
        U(n)[x] = IF x \in B THEN c[x] ELSE U(n)[p[x]]
  BY <1>1 DEF TailRecursive
<1>3. ASSUME NEW n \in Nat, NEW m \in Nat,
             NEW y \in Below(D, r, n) \cap Below(D, r, m)
      PROVE  U(n)[y] = U(m)[y]
  <2> DEFINE Bad == {k \in Nat : \E x \in Below(D, r, n) \cap Below(D, r, m) :
                                   r[x] = k /\ U(n)[x] # U(m)[x]}
  <2>1. ASSUME Bad # {} PROVE FALSE
    <3>1. PICK k \in Bad : \A l \in Bad : k <= l
      BY <2>1, Least, Bad \in SUBSET Nat
    <3>2. PICK x \in Below(D, r, n) \cap Below(D, r, m) : r[x] = k /\ U(n)[x] # U(m)[x]
      BY <3>1
    <3>3. x \notin B
      BY <1>2, <3>2
    <3>4. p[x] \in D /\ r[p[x]] \in Nat /\ r[p[x]] < r[x] /\ r[x] \in Nat /\ r[x] < n /\ r[x] < m
      BY <3>2, <3>3 DEF Below
    <3>5. p[x] \in Below(D, r, n) \cap Below(D, r, m)
      BY <3>4 DEF Below
    <3>6. r[p[x]] \notin Bad
      BY <3>1, <3>2, <3>4
    <3>7. U(n)[p[x]] = U(m)[p[x]]
      BY <3>4, <3>5, <3>6
    <3> QED BY <1>2, <3>2, <3>3, <3>7
  <2>2. r[y] \in Nat
    BY DEF Below
  <2> QED BY <2>1, <2>2
<1>4. ASSUME NEW x \in D PROVE h[x] = IF x \in B THEN c[x] ELSE h[p[x]]
  <2>1. r[x] \in Nat /\ r[x] + 1 \in Nat /\ x \in Below(D, r, r[x] + 1)
    BY DEF Below
  <2>2. CASE x \in B
    BY <1>2, <2>1, <2>2
  <2>3. CASE x \notin B
    <3>1. p[x] \in D /\ r[p[x]] \in Nat /\ r[p[x]] + 1 \in Nat /\ r[p[x]] < r[x]
      BY <2>3
    <3>2. p[x] \in Below(D, r, r[x] + 1) \cap Below(D, r, r[p[x]] + 1)
      BY <2>1, <3>1 DEF Below
    <3>3. U(r[x] + 1)[p[x]] = U(r[p[x]] + 1)[p[x]]
      BY <1>3, <2>1, <3>1, <3>2
    <3>4. h[p[x]] = U(r[p[x]] + 1)[p[x]] /\ h[x] = U(r[x] + 1)[x]
      BY <3>1
    <3>5. h[x] = U(r[x] + 1)[p[x]]
      BY <1>2, <2>1, <2>3, <3>4
    <3> QED BY <2>3, <3>3, <3>4, <3>5
  <2> QED BY <2>2, <2>3
<1>5. h = [x \in D |-> h[x]]
  OBVIOUS
<1> HIDE DEF h
<1>6. h = [x \in D |-> IF x \in B THEN c[x] ELSE h[p[x]]]
  BY <1>4, <1>5
<1> QED BY <1>6 DEF TailRecursive
-----------------------------------------------------------------------------
(* Powers *)

Power(b, n) == (CHOOSE g : Recursive(g, {0}, 1, b, [m \in Nat |-> m - 1]))[n]

LEMMA PowerDef ==
  ASSUME NEW b
  PROVE  Power(b, 0) = 1 /\ \A n \in Nat : Power(b, n + 1) = b * Power(b, n)
<1> DEFINE p == [m \in Nat |-> m - 1]
           g == CHOOSE f : Recursive(f, {0}, 1, b, p)
<1>1. \A n \in Nat \ {0} : p[n] \in Nat /\ p[n] < n
  OBVIOUS
<1>2. \A n \in Nat : p[n + 1] = n
  OBVIOUS
<1>3. \A n \in Nat : Power(b, n) = g[n]
  BY DEF Power
<1> HIDE DEF p
<1>4. Recursive(g, {0}, 1, b, p)
  BY <1>1, RecursionExists, {0} \in SUBSET Nat
<1> HIDE DEF g
<1>5. \A n \in Nat : g[n] = IF n \in {0} THEN 1 ELSE b * g[p[n]]
  BY <1>4 DEF Recursive
<1>6. \A n \in Nat : n + 1 \in Nat /\ n + 1 \notin {0}
  OBVIOUS
<1>7. \A n \in Nat : g[n + 1] = b * g[n]
  BY <1>2, <1>5, <1>6
<1> QED BY <1>3, <1>5, <1>6, <1>7

LEMMA PowerNat ==
  ASSUME NEW b \in Nat
  PROVE  \A n \in Nat : Power(b, n) \in Nat /\ (b > 0 => Power(b, n) > 0)
<1> DEFINE Bad == {n \in Nat : ~(Power(b, n) \in Nat /\ (b > 0 => Power(b, n) > 0))}
<1> SUFFICES ASSUME Bad # {} PROVE FALSE
  OBVIOUS
<1>1. PICK n \in Bad : \A m \in Bad : n <= m
  BY Least, Bad \in SUBSET Nat
<1>2. n # 0
  BY <1>1, PowerDef
<1>3. n - 1 \in Nat /\ n - 1 \notin Bad /\ n = (n - 1) + 1
  BY <1>1, <1>2
<1>4. Power(b, n) = b * Power(b, n - 1)
  BY <1>3, PowerDef
<1>5. \A k \in Nat : b * k \in Nat /\ (b > 0 /\ k > 0 => b * k > 0)
  OBVIOUS
<1> QED BY <1>1, <1>3, <1>4, <1>5

\* The power of a product.
LEMMA PowerProduct ==
  ASSUME NEW a \in Nat, NEW b \in Nat
  PROVE  \A n \in Nat : Power(a * b, n) = Power(a, n) * Power(b, n)
<1> DEFINE Bad == {n \in Nat : Power(a * b, n) # Power(a, n) * Power(b, n)}
<1> SUFFICES ASSUME Bad # {} PROVE FALSE
  OBVIOUS
<1>1. PICK n \in Bad : \A m \in Bad : n <= m
  BY Least, Bad \in SUBSET Nat
<1>2. n # 0
  BY <1>1, PowerDef
<1>3. n - 1 \in Nat /\ n - 1 \notin Bad /\ n = (n - 1) + 1
  BY <1>1, <1>2
<1>4. /\ Power(a, n) = a * Power(a, n - 1) /\ Power(b, n) = b * Power(b, n - 1)
      /\ Power(a * b, n) = (a * b) * Power(a * b, n - 1)
  BY <1>3, PowerDef
<1>5. Power(a * b, n - 1) = Power(a, n - 1) * Power(b, n - 1)
  BY <1>3
<1>6. Power(a, n - 1) \in Nat /\ Power(b, n - 1) \in Nat
  BY <1>3, PowerNat
<1>7. \A k, l \in Nat : (a * b) * (k * l) = (a * k) * (b * l)
  OBVIOUS
<1> QED BY <1>1, <1>4, <1>5, <1>6, <1>7

\* The power of a square.
LEMMA PowerSquare ==
  ASSUME NEW b \in Nat
  PROVE  \A n \in Nat : Power(b * b, n) = Power(b, 2 * n)
<1> DEFINE Bad == {n \in Nat : Power(b * b, n) # Power(b, 2 * n)}
<1> SUFFICES ASSUME Bad # {} PROVE FALSE
  OBVIOUS
<1>1. PICK n \in Bad : \A m \in Bad : n <= m
  BY Least, Bad \in SUBSET Nat
<1>2. n # 0
  BY <1>1, PowerDef
<1>3. /\ n - 1 \in Nat /\ n - 1 \notin Bad /\ n = (n - 1) + 1
      /\ 2 * (n - 1) \in Nat /\ 2 * (n - 1) + 1 \in Nat /\ 2 * n = (2 * (n - 1) + 1) + 1
  BY <1>1, <1>2
<1>4. Power(b * b, n) = (b * b) * Power(b * b, n - 1)
  BY <1>3, PowerDef
<1>5. Power(b, 2 * n) = b * (b * Power(b, 2 * (n - 1)))
  BY <1>3, PowerDef
<1>6. Power(b * b, n - 1) = Power(b, 2 * (n - 1)) /\ Power(b, 2 * (n - 1)) \in Nat
  BY <1>3, PowerNat
<1>7. \A k \in Nat : (b * b) * k = b * (b * k)
  OBVIOUS
<1> QED BY <1>1, <1>4, <1>5, <1>6, <1>7

\* Factors of products of numbers.
LEMMA Monotone ==
  ASSUME NEW a \in Nat, NEW b \in Nat, NEW c \in Nat, NEW d \in Nat, a <= b, c <= d
  PROVE  a * c <= b * d
<1>1. PICK e \in Nat : b = a + e
  BY b - a \in Nat
<1>2. PICK f \in Nat : d = c + f
  BY d - c \in Nat
<1>3. b * d = a * c + (a * f + e * c + e * f)
  BY <1>1, <1>2
<1>4. a * c \in Nat /\ a * f \in Nat /\ e * c \in Nat /\ e * f \in Nat
  OBVIOUS
<1> QED BY <1>3, <1>4

LEMMA Cancel ==
  ASSUME NEW a \in Int, NEW b \in Int, NEW k \in Nat, k > 0, k * a <= k * b
  PROVE  a <= b
<1> SUFFICES ASSUME a > b PROVE FALSE
  OBVIOUS
<1>1. PICK e \in Nat : a = b + e + 1
  BY a - b - 1 \in Nat
<1>2. k * a = k * b + k * e + k
  BY <1>1
<1>3. k * e \in Nat /\ k * b \in Int
  OBVIOUS
<1> QED BY <1>2, <1>3

LEMMA PowerMonotone ==
  ASSUME NEW a \in Nat, NEW b \in Nat, a <= b
  PROVE  \A n \in Nat : Power(a, n) <= Power(b, n)
<1> DEFINE Bad == {n \in Nat : ~(Power(a, n) <= Power(b, n))}
<1> SUFFICES ASSUME Bad # {} PROVE FALSE
  OBVIOUS
<1>1. PICK n \in Bad : \A m \in Bad : n <= m
  BY Least, Bad \in SUBSET Nat
<1>2. n # 0
  BY <1>1, PowerDef
<1>3. n - 1 \in Nat /\ n - 1 \notin Bad /\ n = (n - 1) + 1
  BY <1>1, <1>2
<1>4. Power(a, n) = a * Power(a, n - 1) /\ Power(b, n) = b * Power(b, n - 1)
  BY <1>3, PowerDef
<1>5. Power(a, n - 1) <= Power(b, n - 1)
  BY <1>3
<1>6. Power(a, n - 1) \in Nat /\ Power(b, n - 1) \in Nat
  BY <1>3, PowerNat
<1> QED BY <1>1, <1>4, <1>5, <1>6, Monotone

\* Bernoulli's inequality: (1 - 1/s)^n is at least 1 - n/s.
LEMMA Bernoulli ==
  ASSUME NEW s \in Nat, s > 0
  PROVE  \A n \in Nat : Power(s, n) * (s - n) <= Power(s - 1, n) * s
<1> DEFINE Bad == {n \in Nat : ~(Power(s, n) * (s - n) <= Power(s - 1, n) * s)}
<1> SUFFICES ASSUME Bad # {} PROVE FALSE
  OBVIOUS
<1>1. PICK n \in Bad : \A m \in Bad : n <= m
  BY Least, Bad \in SUBSET Nat
<1>2. n # 0
  BY <1>1, PowerDef
<1>3. PICK m \in Nat : n = m + 1 /\ m \notin Bad
  BY <1>1, <1>2, n - 1 \in Nat, (n - 1) + 1 = n
<1>4. PICK t \in Nat : s = t + 1
  BY s - 1 \in Nat
<1>5. PICK x \in Nat : x = Power(s, m)
  BY PowerNat
<1>6. PICK y \in Nat : y = Power(s - 1, m)
  BY <1>4, PowerNat
<1>7. Power(s, n) = s * x /\ Power(s - 1, n) = t * y
  <2>1. s - 1 = t
    BY <1>4
  <2>2. Power(s, m + 1) = s * Power(s, m) /\ Power(t, m + 1) = t * Power(t, m)
    BY PowerDef
  <2> QED BY <1>3, <1>5, <1>6, <2>1, <2>2
<1>8. x * (s - m) <= y * s
  BY <1>3, <1>5, <1>6
<1>9. t * (x * (s - m)) <= t * (y * s)
  <2>1. PICK d \in Nat : y * s = x * (s - m) + d
    BY <1>8, y * s - x * (s - m) \in Nat
  <2>2. t * (y * s) = t * (x * (s - m)) + t * d
    BY <2>1
  <2> QED BY <2>2, t * d \in Nat
<1>10. t * (x * (s - m)) = (s * x) * (s - n) + m * x
  <2>1. t * (x * (t + 1 - m)) = ((t + 1) * x) * (t + 1 - (m + 1)) + m * x
    OBVIOUS
  <2> QED BY <1>3, <1>4, <2>1
<1>11. t * (y * s) = (t * y) * s
  OBVIOUS
<1>12. m * x \in Nat
  OBVIOUS
<1> QED BY <1>1, <1>7, <1>9, <1>10, <1>11, <1>12
-----------------------------------------------------------------------------
(* Sums *)

Some(s) == CHOOSE x \in s : TRUE

\* g sums w over every subset of S, one element after the other.
Sums(g, w, S) ==
  g = [s \in SUBSET S |-> IF s = {} THEN 0 ELSE w[Some(s)] + g[s \ {Some(s)}]]

LEMMA SumDef ==
  ASSUME NEW w, NEW S
  PROVE  SumFunctionOnSet(w, S) = (CHOOSE g : Sums(g, w, S))[S]
BY DEF SumFunctionOnSet, FoldFunctionOnSet, MapThenFoldSet, Sums, Some

\* Two such functions agree where both are defined.
LEMMA SumsAgree ==
  ASSUME NEW w, NEW S, IsFiniteSet(S), NEW T \in SUBSET S, NEW g, NEW h,
         Sums(g, w, S), Sums(h, w, T)
  PROVE  g[T] = h[T]
<1> DEFINE F == {s \in SUBSET T : g[s] # h[s]}
<1> SUFFICES ASSUME F # {} PROVE FALSE
  OBVIOUS
<1>1. \A s \in F : IsFiniteSet(s)
  BY FS_Subset
<1>2. PICK s \in F : \A x \in s : s \ {x} \notin F
  BY <1>1, Smallest
<1>3. g[s] = (IF s = {} THEN 0 ELSE w[Some(s)] + g[s \ {Some(s)}])
  BY DEF Sums
<1>4. h[s] = (IF s = {} THEN 0 ELSE w[Some(s)] + h[s \ {Some(s)}])
  BY DEF Sums
<1>5. s # {} => Some(s) \in s
  BY DEF Some
<1>6. CASE s = {}
  BY <1>3, <1>4, <1>6
<1>7. CASE s # {}
  <2>1. g[s \ {Some(s)}] = h[s \ {Some(s)}]
    BY <1>2, <1>5, <1>7
  <2> QED BY <1>3, <1>4, <1>7, <2>1
<1> QED BY <1>6, <1>7

\* Every finite set has one.
LEMMA SumsExist ==
  ASSUME NEW w, NEW S, IsFiniteSet(S)
  PROVE  \E g : Sums(g, w, S)
<1> DEFINE F == {s \in SUBSET S : ~ \E g : Sums(g, w, s)}
<1> SUFFICES ASSUME F # {} PROVE FALSE
  OBVIOUS
<1>1. \A s \in F : IsFiniteSet(s)
  BY FS_Subset
<1>2. PICK s \in F : \A x \in s : s \ {x} \notin F
  BY <1>1, Smallest
<1>s. IsFiniteSet(s)
  BY <1>1
<1>3. CASE s = {}
  <2>1. Sums([u \in SUBSET {} |-> 0], w, {})
    BY DEF Sums
  <2> QED BY <1>3, <2>1
<1>4. CASE s # {}
  <2> DEFINE x == Some(s)
  <2>1. x \in s
    BY <1>4 DEF Some
  <2> HIDE DEF x
  <2>2. \A y \in s : \E g : Sums(g, w, s \ {y})
    BY <1>2
  <2> DEFINE Part(y) == CHOOSE g : Sums(g, w, s \ {y})
             h == [u \in SUBSET s |->
                     IF u = s THEN w[x] + Part(x)[s \ {x}]
                     ELSE Part(CHOOSE y \in s : y \notin u)[u]]
  <2>3. \A y \in s : Sums(Part(y), w, s \ {y})
    BY <2>2
  <2> HIDE DEF Part
  \* Whichever part u is looked up in, the sum is the same.
  <2>4. ASSUME NEW y \in s, NEW z \in s, NEW u \in SUBSET s, y \notin u, z \notin u
        PROVE  Part(y)[u] = Part(z)[u]
    <3> DEFINE g == [v \in SUBSET u |-> Part(y)[v]]
    <3>1. Sums(g, w, u)
      <4>1. u \in SUBSET (s \ {y})
        BY <2>4
      <4>2. ASSUME NEW v \in SUBSET u
            PROVE  g[v] = IF v = {} THEN 0 ELSE w[Some(v)] + g[v \ {Some(v)}]
        <5>1. v \in SUBSET (s \ {y}) /\ v \ {Some(v)} \in SUBSET u
          BY <4>1
        <5>2. Part(y)[v] = IF v = {} THEN 0 ELSE w[Some(v)] + Part(y)[v \ {Some(v)}]
          BY <2>3, <5>1 DEF Sums
        <5> QED BY <5>1, <5>2
      <4>3. g = [v \in SUBSET u |-> IF v = {} THEN 0 ELSE w[Some(v)] + g[v \ {Some(v)}]]
        BY <4>2
      <4> QED BY <4>3 DEF Sums
    <3>2. g[u] = Part(y)[u]
      OBVIOUS
    <3> HIDE DEF g
    <3>3. /\ IsFiniteSet(s \ {y}) /\ IsFiniteSet(s \ {z})
          /\ u \in SUBSET (s \ {y}) /\ u \in SUBSET (s \ {z})
      BY <1>s, <2>4, FS_RemoveElement
    <3>4. Part(z)[u] = g[u]
      BY <2>3, <3>1, <3>3, SumsAgree
    <3> QED BY <3>2, <3>4
  <2>5. ASSUME NEW u \in SUBSET s, u # s, NEW y \in s, y \notin u
        PROVE  h[u] = Part(y)[u]
    <3>1. (CHOOSE z \in s : z \notin u) \in s /\ (CHOOSE z \in s : z \notin u) \notin u
      BY <2>5
    <3> QED BY <2>4, <2>5, <3>1
  <2>6. h[s] = w[x] + h[s \ {x}]
    BY <2>1, <2>5
  <2>7. ASSUME NEW u \in SUBSET s, u # s
        PROVE  h[u] = IF u = {} THEN 0 ELSE w[Some(u)] + h[u \ {Some(u)}]
    <3>1. PICK y \in s : y \notin u
      BY <2>7
    <3>2. h[u] = Part(y)[u] /\ h[u \ {Some(u)}] = Part(y)[u \ {Some(u)}]
      BY <2>5, <2>7, <3>1
    <3>3. u \in SUBSET (s \ {y})
      BY <3>1
    <3>4. Part(y)[u] = IF u = {} THEN 0 ELSE w[Some(u)] + Part(y)[u \ {Some(u)}]
      BY <2>3, <3>3 DEF Sums
    <3> QED BY <3>2, <3>4
  <2>8. DOMAIN h = SUBSET s /\ h = [u \in SUBSET s |-> h[u]]
    OBVIOUS
  <2> HIDE DEF h
  <2>9. ASSUME NEW u \in SUBSET s
        PROVE  h[u] = IF u = {} THEN 0 ELSE w[Some(u)] + h[u \ {Some(u)}]
    BY <1>4, <2>6, <2>7 DEF x
  <2>10. h = [u \in SUBSET s |-> IF u = {} THEN 0 ELSE w[Some(u)] + h[u \ {Some(u)}]]
    BY <2>8, <2>9
  <2> QED BY <1>2, <2>10 DEF Sums
<1> QED BY <1>3, <1>4

\* The equation of SumFunctionOnSet.
LEMMA SumStep ==
  ASSUME NEW w, NEW S, IsFiniteSet(S)
  PROVE  /\ S = {} => SumFunctionOnSet(w, S) = 0
         /\ S # {} => \E x \in S :
              SumFunctionOnSet(w, S) = w[x] + SumFunctionOnSet(w, S \ {x})
<1> DEFINE g == CHOOSE f : Sums(f, w, S)
<1>1. Sums(g, w, S) /\ SumFunctionOnSet(w, S) = g[S]
  BY SumsExist, SumDef
<1> HIDE DEF g
<1>2. g[S] = IF S = {} THEN 0 ELSE w[Some(S)] + g[S \ {Some(S)}]
  BY <1>1 DEF Sums
<1>3. CASE S # {}
  <2> DEFINE x == Some(S)
             h == CHOOSE f : Sums(f, w, S \ {x})
  <2>1. x \in S
    BY <1>3 DEF Some
  <2>2. IsFiniteSet(S \ {x})
    BY FS_RemoveElement
  <2>3. Sums(h, w, S \ {x}) /\ SumFunctionOnSet(w, S \ {x}) = h[S \ {x}]
    BY <2>2, SumsExist, SumDef
  <2> HIDE DEF h
  <2>4. g[S \ {x}] = h[S \ {x}]
    BY <1>1, <2>3, SumsAgree
  <2> QED BY <1>1, <1>2, <1>3, <2>1, <2>3, <2>4
<1> QED BY <1>1, <1>2, <1>3

Pairs(w, S) == {p \in S \X Nat : 1 <= p[2] /\ p[2] <= w[p[1]]}

\* A sum of natural numbers counts that many things of every element.
LEMMA PairsCounted ==
  ASSUME NEW w, NEW S, IsFiniteSet(S), \A j \in S : w[j] \in Nat
  PROVE  /\ IsFiniteSet(Pairs(w, S))
         /\ Cardinality(Pairs(w, S)) = SumFunctionOnSet(w, S)
<1> DEFINE Right(s) == /\ IsFiniteSet(Pairs(w, s))
                       /\ Cardinality(Pairs(w, s)) = SumFunctionOnSet(w, s)
           F == {s \in SUBSET S : ~Right(s)}
<1> SUFFICES ASSUME F # {} PROVE FALSE
  OBVIOUS
<1>1. \A s \in F : IsFiniteSet(s)
  BY FS_Subset
<1>2. PICK s \in F : \A x \in s : s \ {x} \notin F
  BY <1>1, Smallest
<1>s. IsFiniteSet(s) /\ s \subseteq S
  BY <1>1
<1>3. CASE s = {}
  <2>1. Pairs(w, s) = {}
    BY <1>3 DEF Pairs
  <2> QED BY <1>2, <1>3, <1>s, <2>1, FS_EmptySet, SumStep
<1>4. CASE s # {}
  <2>1. PICK x \in s : SumFunctionOnSet(w, s) = w[x] + SumFunctionOnSet(w, s \ {x})
    BY <1>4, <1>s, SumStep
  <2> DEFINE Mine == {x} \X (1..w[x])
             Rest == Pairs(w, s \ {x})
  <2>2. w[x] \in Nat /\ IsFiniteSet(Rest)
        /\ Cardinality(Rest) = SumFunctionOnSet(w, s \ {x})
    BY <1>2, <1>s
  <2>3. IsFiniteSet(Mine) /\ Cardinality(Mine) = w[x]
    <3>1. IsFiniteSet({x}) /\ Cardinality({x}) = 1
      BY FS_Singleton
    <3>2. IsFiniteSet(1..w[x]) /\ Cardinality(1..w[x]) = w[x]
      BY <2>2, FS_Interval
    <3>3. IsFiniteSet(Mine) /\ Cardinality(Mine) = 1 * w[x]
      BY <3>1, <3>2, FS_Product
    <3> QED BY <2>2, <3>3
  <2>4. Rest \cap Mine = {}
    BY DEF Pairs
  <2>5. Pairs(w, s) = Rest \cup Mine
    <3>1. \A p \in Pairs(w, s) : p \in Rest \cup Mine
      BY <1>s DEF Pairs
    <3>2. \A p \in Rest \cup Mine : p \in Pairs(w, s)
      BY <2>2 DEF Pairs
    <3> QED BY <3>1, <3>2
  <2> HIDE DEF Mine, Rest
  <2>6. Cardinality({}) = 0 /\ Cardinality(Rest) \in Nat
    BY <2>2, FS_EmptySet, FS_CardinalityType
  <2>7. /\ IsFiniteSet(Pairs(w, s))
        /\ Cardinality(Pairs(w, s)) = Cardinality(Rest) + w[x]
    <3>1. /\ IsFiniteSet(Rest \cup Mine)
          /\ Cardinality(Rest \cup Mine)
               = Cardinality(Rest) + Cardinality(Mine) - Cardinality(Rest \cap Mine)
      BY <2>2, <2>3, FS_Union
    <3>2. Cardinality(Rest) + w[x] - 0 = Cardinality(Rest) + w[x]
      BY <2>2, <2>6
    <3> QED BY <2>3, <2>4, <2>5, <2>6, <3>1, <3>2
  <2> QED BY <1>2, <2>1, <2>2, <2>6, <2>7
<1> QED BY <1>3, <1>4
=============================================================================
