---------------------------- MODULE HelperProofs ----------------------------
(***************************************************************************)
(* Proofs about the two modules of MCHelpers: AccountOwner, for every page *)
(* length and every chain, and BinMath, for every scale of the prices,     *)
(* every width of a double, every number of digits and every amount.       *)
(***************************************************************************)
EXTENDS AccountOwner, BinMath, DataInduction, TLAPS

(* Why CreatorIsFirst: the cursor is the oldest signature seen, and the    *)
(* search leaves the pages only when nothing older is left.                *)
Search ==
  /\ before <= signatures
  /\ pc \in {"account", "page"} => oldest = before
  /\ pc = "transaction" => oldest = 1

IInv == TypeOK /\ Search /\ CreatorIsFirst

LEMMA InitIInv == Init => IInv
  BY AccountOwnerAssumption DEF Init, IInv, TypeOK, Search, CreatorIsFirst

LEMMA ChainKeeps ==
  ASSUME IInv, Sign \/ Close
  PROVE  IInv'
<1> USE AccountOwnerAssumption DEF IInv, TypeOK, Search, CreatorIsFirst
<1>1. CASE Sign
  BY <1>1 DEF Sign
<1>2. CASE Close
  BY <1>2 DEF Close
<1> QED
  BY <1>1, <1>2

LEMMA GetTokenAccountKeeps ==
  ASSUME IInv, GetTokenAccount
  PROVE  IInv'
BY AccountOwnerAssumption
  DEF IInv, TypeOK, Search, CreatorIsFirst, GetTokenAccount, Answer, chain, Owner, Null, Error

(* A page that is not full reaches back to the first signature, an empty   *)
(* one excepted: then the page before it had.                              *)
LEMMA GetPageKeeps ==
  ASSUME IInv, GetPage
  PROVE  IInv'
<1> DEFINE newest == IF before = 0 THEN signatures ELSE before - 1
           count == IF newest < Limit THEN newest ELSE Limit
<1> USE AccountOwnerAssumption
<1>1. /\ newest \in 0..MaxSignatures /\ newest <= signatures
      /\ count \in Nat /\ count <= newest /\ count <= Limit
  BY DEF IInv, TypeOK, Search
<1>2. /\ oldest' = (IF count = 0 THEN oldest ELSE newest - count + 1)
      /\ before' = (IF count = Limit THEN oldest' ELSE before)
      /\ UNCHANGED <<chain, retries, faults>>
      /\ pc = "page"
      /\ \/ count = Limit /\ UNCHANGED <<pc, answer>>
         \/ count # Limit /\ oldest' = 0 /\ pc' = "done" /\ answer' = Null
         \/ count # Limit /\ oldest' # 0 /\ pc' = "transaction" /\ UNCHANGED answer
  BY DEF GetPage, Answer
<1>3. oldest' \in 0..MaxSignatures /\ before' \in 0..MaxSignatures
  BY <1>1, <1>2 DEF IInv, TypeOK
<1>4. TypeOK'
  BY <1>2, <1>3 DEF IInv, TypeOK, chain, Null, Owner, Error
<1>5. count = Limit => before' = oldest' /\ oldest' <= signatures
  BY <1>1, <1>2 DEF IInv, TypeOK
<1>6. count # Limit /\ count # 0 => oldest' = 1
  BY <1>1, <1>2 DEF IInv, TypeOK
<1>7. CASE count = Limit
  BY <1>7, <1>2, <1>4, <1>5 DEF IInv, Search, CreatorIsFirst, chain, TypeOK
<1>8. CASE count # Limit /\ count = 0
  <2>1. newest = 0
    BY <1>8, <1>1
  <2>2. oldest \in {0, 1}
    BY <2>1, <1>2 DEF IInv, Search, TypeOK
  <2>3. UNCHANGED <<signatures, before, oldest>>
    BY <1>8, <1>2 DEF chain
  <2>4. Search'
    BY <1>8, <1>2, <2>2, <2>3 DEF IInv, Search
  <2>5. CreatorIsFirst'
    BY <1>8, <1>2 DEF IInv, CreatorIsFirst, Null
  <2> QED
    BY <1>4, <2>4, <2>5 DEF IInv
<1>9. CASE count # Limit /\ count # 0
  <2>1. oldest' = 1 /\ pc' = "transaction" /\ UNCHANGED <<signatures, before, answer>>
    BY <1>9, <1>2, <1>6 DEF chain
  <2> QED
    BY <1>4, <2>1 DEF IInv, Search, CreatorIsFirst
<1> QED
  BY <1>7, <1>8, <1>9

LEMMA GetTransactionKeeps ==
  ASSUME IInv, GetTransaction
  PROVE  IInv'
BY AccountOwnerAssumption
  DEF IInv, TypeOK, Search, CreatorIsFirst, GetTransaction, Answer, chain, Owner, Null, Error

LEMMA RequestFailsKeeps ==
  ASSUME IInv, RequestFails
  PROVE  IInv'
BY AccountOwnerAssumption
  DEF IInv, TypeOK, Search, CreatorIsFirst, RequestFails, Answer, chain, Owner, Null, Error

LEMMA Invariance == Spec => []IInv
<1>1. IInv /\ [Next]_vars => IInv'
  <2> SUFFICES ASSUME IInv, [Next]_vars PROVE IInv'
    OBVIOUS
  <2>1. CASE UNCHANGED vars
    BY <2>1 DEF IInv, TypeOK, Search, CreatorIsFirst, vars
  <2> QED
    BY <2>1, ChainKeeps, GetTokenAccountKeeps, GetPageKeeps, GetTransactionKeeps,
       RequestFailsKeeps DEF Next, Request
<1> QED
  BY InitIInv, <1>1, PTL DEF Spec

(* The variables of the search keep their types. *)
THEOREM TypeCorrect == Spec => []TypeOK
<1>1. IInv => TypeOK
  BY DEF IInv
<1> QED
  BY Invariance, <1>1, PTL

(* However long the pages and the history of the account are, whatever is  *)
(* signed meanwhile and whichever requests fail, the creator that is    *)
(* answered is the payer of the first signature.                           *)
THEOREM FirstPayer == Spec => []CreatorIsFirst
<1>1. IInv => CreatorIsFirst
  BY DEF IInv
<1> QED
  BY Invariance, <1>1, PTL
-----------------------------------------------------------------------------
(* Powers and quotients *)

\* The equation of Ten.
LEMMA TenDef == \A n \in Nat : Ten[n] = IF n = 0 THEN 1 ELSE 10 * Ten[n - 1]
<1> DEFINE p == [n \in Nat |-> n - 1]
           IsTen(g) == g = [n \in Nat |-> IF n = 0 THEN 1 ELSE 10 * g[n - 1]]
<1>0. \A n \in Nat \ {0} : p[n] \in Nat /\ p[n] < n
  OBVIOUS
<1> HIDE DEF p
<1>1. PICK g : Recursive(g, {0}, 1, 10, p)
  BY <1>0, {0} \in SUBSET Nat, RecursionExists
<1>2. IsTen(g)
  <2>1. \A n \in Nat : p[n] = n - 1 /\ (n \in {0} <=> n = 0)
    BY DEF p
  <2> QED BY <1>1, <2>1 DEF Recursive
<1>3. Ten = CHOOSE f : IsTen(f)
  BY DEF Ten
<1> HIDE DEF IsTen
<1>4. IsTen(Ten)
  BY <1>2, <1>3
<1> QED BY <1>4 DEF IsTen

\* The equation of Two.
LEMMA TwoDef == \A n \in Nat : Two[n] = IF n = 0 THEN 1 ELSE 2 * Two[n - 1]
<1> DEFINE p == [n \in Nat |-> n - 1]
           IsTwo(g) == g = [n \in Nat |-> IF n = 0 THEN 1 ELSE 2 * g[n - 1]]
<1>0. \A n \in Nat \ {0} : p[n] \in Nat /\ p[n] < n
  OBVIOUS
<1> HIDE DEF p
<1>1. PICK g : Recursive(g, {0}, 1, 2, p)
  BY <1>0, {0} \in SUBSET Nat, RecursionExists
<1>2. IsTwo(g)
  <2>1. \A n \in Nat : p[n] = n - 1 /\ (n \in {0} <=> n = 0)
    BY DEF p
  <2> QED BY <1>1, <2>1 DEF Recursive
<1>3. Two = CHOOSE f : IsTwo(f)
  BY DEF Two
<1> HIDE DEF IsTwo
<1>4. IsTwo(Two)
  BY <1>2, <1>3
<1> QED BY <1>4 DEF IsTwo

\* Powers of ten are positive.
LEMMA TenNat == \A n \in Nat : Ten[n] \in Nat /\ Ten[n] > 0
<1> DEFINE Bad == {n \in Nat : ~(Ten[n] \in Nat /\ Ten[n] > 0)}
<1> SUFFICES ASSUME Bad # {} PROVE FALSE
  OBVIOUS
<1>1. PICK n \in Bad : \A m \in Bad : n <= m
  BY Least, Bad \in SUBSET Nat
<1>2. n = 0 \/ (n - 1 \in Nat /\ n - 1 \notin Bad)
  BY <1>1
<1> QED BY <1>2, TenDef

\* Powers of two are positive.
LEMMA TwoNat == \A n \in Nat : Two[n] \in Nat /\ Two[n] > 0
<1> DEFINE Bad == {n \in Nat : ~(Two[n] \in Nat /\ Two[n] > 0)}
<1> SUFFICES ASSUME Bad # {} PROVE FALSE
  OBVIOUS
<1>1. PICK n \in Bad : \A m \in Bad : n <= m
  BY Least, Bad \in SUBSET Nat
<1>2. n = 0 \/ (n - 1 \in Nat /\ n - 1 \notin Bad)
  BY <1>1
<1> QED BY <1>2, TwoDef

\* 10^n = 10^m * 10^(n - m)
LEMMA TenSplit ==
  ASSUME NEW m \in Nat
  PROVE  \A n \in Nat : Ten[m + n] = Ten[m] * Ten[n]
<1> DEFINE Bad == {n \in Nat : Ten[m + n] # Ten[m] * Ten[n]}
<1> SUFFICES ASSUME Bad # {} PROVE FALSE
  OBVIOUS
<1>1. PICK n \in Bad : \A k \in Bad : n <= k
  BY Least, Bad \in SUBSET Nat
<1>2. CASE n = 0
  BY <1>1, <1>2, TenDef, TenNat
<1>3. CASE n # 0
  <2>1. n - 1 \in Nat /\ n - 1 \notin Bad
    BY <1>1, <1>3
  <2>2. Ten[m + (n - 1)] = Ten[m] * Ten[n - 1]
    BY <2>1
  <2>3. Ten[m + n] = 10 * Ten[m + (n - 1)]
    <3>1. m + n \in Nat /\ m + n # 0 /\ (m + n) - 1 = m + (n - 1)
      BY <2>1
    <3> QED BY <3>1, TenDef
  <2>4. Ten[n] = 10 * Ten[n - 1]
    BY <2>1, <1>3, TenDef
  <2>5. \A a, b \in Nat : 10 * (a * b) = a * (10 * b)
    OBVIOUS
  <2> QED BY <1>1, <2>1, <2>2, <2>3, <2>4, <2>5, TenNat
<1> QED BY <1>2, <1>3

\* The equation of Unit.
LEMMA UnitDef == \A n \in Nat : Unit[n] = IF n < Two[Mantissa] THEN 1 ELSE 2 * Unit[n \div 2]
<1> DEFINE p == [n \in Nat |-> n \div 2]
           B == {n \in Nat : n < Two[Mantissa]}
           IsUnit(g) == g = [n \in Nat |-> IF n < Two[Mantissa] THEN 1 ELSE 2 * g[n \div 2]]
<1>1. \A n \in Nat \ B : p[n] \in Nat /\ p[n] < n
  <2>1. \A n \in Nat : n >= 1 => n \div 2 \in Nat /\ n \div 2 < n
    OBVIOUS
  <2>2. Two[Mantissa] \in Nat /\ Two[Mantissa] >= 1
    BY BinMathAssumption, TwoNat
  <2> QED BY <2>1, <2>2
<1>2. PICK g : Recursive(g, B, 1, 2, p)
  BY <1>1, RecursionExists
<1>3. IsUnit(g)
  <2>1. \A n \in Nat : p[n] = n \div 2 /\ (n \in B <=> n < Two[Mantissa])
    OBVIOUS
  <2> HIDE DEF p, B
  <2> QED BY <1>2, <2>1 DEF Recursive
<1>4. Unit = CHOOSE f : IsUnit(f)
  BY DEF Unit
<1> HIDE DEF IsUnit
<1>5. IsUnit(Unit)
  BY <1>3, <1>4
<1> QED BY <1>5 DEF IsUnit

\* Quotient and remainder.
LEMMA Division ==
  ASSUME NEW n \in Nat, NEW t \in Nat, t > 0
  PROVE  /\ n \div t \in Nat /\ n % t \in 0..(t - 1)
         /\ n = t * (n \div t) + (n % t)
<1>1. n \div t \in Nat
  OBVIOUS
<1>2. n % t \in 0..(t - 1)
  OBVIOUS
<1>3. n = t * (n \div t) + (n % t)
  OBVIOUS
<1> QED BY <1>1, <1>2, <1>3

\* A product divided by its factor.
LEMMA ExactDivision ==
  ASSUME NEW n \in Nat, NEW t \in Nat, t > 0
  PROVE  (n * t) \div t = n
<1> DEFINE q == (n * t) \div t
           r == (n * t) % t
<1>1. n * t \in Nat
  OBVIOUS
<1>2. q \in Nat /\ r \in 0..(t - 1) /\ n * t = t * q + r
  BY <1>1, Division
<1> HIDE DEF q, r
<1>3. \A d \in Nat : d >= 1 => d * t >= t
  OBVIOUS
<1>4. CASE n > q
  <2>1. n - q \in Nat /\ n - q >= 1
    BY <1>2, <1>4
  <2>2. (n - q) * t >= t
    BY <2>1, <1>3
  <2>3. (n - q) * t = n * t - t * q
    BY <1>2
  <2> QED BY <2>2, <2>3, <1>2
<1>5. CASE n < q
  <2>1. q - n \in Nat /\ q - n >= 1
    BY <1>2, <1>5
  <2>2. (q - n) * t >= t
    BY <2>1, <1>3
  <2>3. (q - n) * t = t * q - n * t
    BY <1>2
  <2> QED BY <2>2, <2>3, <1>2
<1>6. n = q
  BY <1>2, <1>4, <1>5
<1> QED BY <1>6 DEF q

\* No digit of an amount is lost while the decimals fit.
LEMMA NormalizeExact ==
  ASSUME NEW amount \in Nat, NEW d \in 0..FractionDigits
  PROVE  NormalizeAmount(amount, d) * Ten[d] = amount * Ten[FractionDigits]
<1> DEFINE T == Ten[d]
           S == Ten[FractionDigits - d]
           w == amount \div T
           r == amount % T
<1>1. T \in Nat /\ T > 0 /\ S \in Nat
  BY BinMathAssumption, TenNat
<1>2. Ten[FractionDigits] = T * S
  <2>1. d \in Nat /\ FractionDigits - d \in Nat /\ d + (FractionDigits - d) = FractionDigits
    BY BinMathAssumption
  <2> QED BY <2>1, TenSplit
<1> HIDE DEF T, S
<1>3. w \in Nat /\ r \in Nat /\ amount = T * w + r
  BY <1>1, Division
<1>4. (r * (T * S)) \div T = r * S
  <2>1. r * (T * S) = (r * S) * T /\ r * S \in Nat
    BY <1>1, <1>3
  <2> QED BY <1>1, <2>1, ExactDivision
<1>5. NormalizeAmount(amount, d) = w * (T * S) + r * S
  BY <1>2, <1>4 DEF NormalizeAmount, T
<1> HIDE DEF w, r
<1>6. (w * (T * S) + r * S) * T = (T * w + r) * (T * S)
  BY <1>1, <1>3
<1> QED BY <1>2, <1>3, <1>5, <1>6 DEF T

\* Of what does not fit, less than one unit of the last digit is lost.
LEMMA NormalizeTruncates ==
  ASSUME NEW amount \in Nat, NEW d \in Nat
  PROVE  /\ NormalizeAmount(amount, d) * Ten[d] <= amount * Ten[FractionDigits]
         /\ amount * Ten[FractionDigits] < NormalizeAmount(amount, d) * Ten[d] + Ten[d]
<1> DEFINE T == Ten[d]
           F == Ten[FractionDigits]
           w == amount \div T
           r == amount % T
           q == (r * F) \div T
           t == (r * F) % T
<1>1. T \in Nat /\ T > 0 /\ F \in Nat
  BY BinMathAssumption, TenNat
<1> HIDE DEF T, F, q, t
<1>2. w \in Nat /\ r \in Nat /\ amount = T * w + r
  BY <1>1, Division
<1> HIDE DEF w, r
<1> USE DEF q, t
<1>3. q \in Nat /\ t \in 0..(T - 1) /\ r * F = T * q + t
  <2>1. r * F \in Nat
    BY <1>1, <1>2
  <2> QED BY <1>1, <2>1, Division
<1>4. NormalizeAmount(amount, d) = w * F + q
  BY DEF NormalizeAmount, T, F, w, r
<1> HIDE DEF q, t
<1>5. (w * F + q) * T + t = amount * F
  <2>1. (w * F + q) * T = (T * w) * F + T * q
    BY <1>1, <1>2, <1>3
  <2>2. (T * w + r) * F = (T * w) * F + r * F
    BY <1>1, <1>2
  <2>3. (T * w) * F \in Nat /\ T * q \in Nat
    BY <1>1, <1>2, <1>3
  <2> QED BY <1>2, <1>3, <2>1, <2>2, <2>3
<1>6. (w * F + q) * T \in Nat
  BY <1>1, <1>2, <1>3
<1> HIDE DEF T, F
<1>7. (w * F + q) * T <= amount * F /\ amount * F < (w * F + q) * T + T
  BY <1>1, <1>3, <1>5, <1>6
<1> QED BY <1>4, <1>7 DEF T, F
-----------------------------------------------------------------------------
(* Doubles *)

\* A power of two with an exponent of at least two is a multiple of four.
LEMMA EvenBits == \E h \in Nat : Two[Mantissa] = 4 * h /\ h > 0
<1>1. /\ Two[Mantissa] = 2 * Two[Mantissa - 1]
      /\ Two[Mantissa - 1] = 2 * Two[Mantissa - 2]
  BY BinMathAssumption, TwoDef
<1>2. Two[Mantissa - 2] \in Nat /\ Two[Mantissa - 2] > 0
  BY BinMathAssumption, TwoNat
<1> QED BY <1>1, <1>2

\* Units are positive.
LEMMA UnitNat == \A n \in Nat : Unit[n] \in Nat /\ Unit[n] > 0
<1> DEFINE Bad == {n \in Nat : ~(Unit[n] \in Nat /\ Unit[n] > 0)}
<1> SUFFICES ASSUME Bad # {} PROVE FALSE
  OBVIOUS
<1>1. PICK n \in Bad : \A m \in Bad : n <= m
  BY Least, Bad \in SUBSET Nat
<1>2. n < Two[Mantissa] \/ (n \div 2 \in Nat /\ n \div 2 \notin Bad)
  <2>1. n >= 1 => n \div 2 \in Nat /\ n \div 2 < n
    BY <1>1
  <2>2. Two[Mantissa] \in Nat /\ Two[Mantissa] >= 1
    BY BinMathAssumption, TwoNat
  <2>3. n < Two[Mantissa] \/ n >= 1
    BY <1>1, <2>2
  <2> QED BY <1>1, <2>1, <2>3
<1> QED BY BinMathAssumption, <1>1, <1>2, UnitDef, TwoNat

\* A number of Mantissa bits, counted in its unit.
LEMMA BelowUnit == \A n \in Nat : n < Unit[n] * Two[Mantissa]
<1> DEFINE P == Two[Mantissa]
           Bad == {n \in Nat : ~(n < Unit[n] * P)}
<1> SUFFICES ASSUME Bad # {} PROVE FALSE
  OBVIOUS
<1>0. P \in Nat /\ P >= 1
  BY BinMathAssumption, TwoNat
<1>1. PICK n \in Bad : \A m \in Bad : n <= m
  BY Least, Bad \in SUBSET Nat
<1>u. \A m \in Nat : Unit[m] = IF m < P THEN 1 ELSE 2 * Unit[m \div 2]
  BY BinMathAssumption, UnitDef
<1> HIDE DEF P
<1>2. CASE n < P
  BY <1>0, <1>1, <1>2, <1>u
<1>3. CASE ~(n < P)
  <2>1. n \div 2 \in Nat /\ n \div 2 < n
    BY <1>0, <1>1, <1>3
  <2>2. n \div 2 < Unit[n \div 2] * P
    BY <1>1, <2>1
  <2>3. Unit[n] = 2 * Unit[n \div 2] /\ Unit[n \div 2] \in Nat
    BY <1>1, <1>3, <1>u, <2>1, UnitNat
  <2>4. (2 * Unit[n \div 2]) * P = 2 * (Unit[n \div 2] * P) /\ Unit[n \div 2] * P \in Nat
    BY <1>0, <2>3
  <2>5. \A y \in Nat : n \div 2 < y => n < 2 * y
    BY <1>1
  <2> QED BY <1>1, <2>2, <2>3, <2>4, <2>5
<1> QED BY <1>2, <1>3

\* The unit of a smaller number divides that of a larger one.
LEMMA UnitDivides ==
  \A n, k \in Nat : n < Unit[k] * Two[Mantissa] =>
    \E c \in Nat : c > 0 /\ Unit[k] = c * Unit[n]
<1> DEFINE P == Two[Mantissa]
           Right(n) == \A k \in Nat : n < Unit[k] * P =>
                         \E c \in Nat : c > 0 /\ Unit[k] = c * Unit[n]
           Bad == {n \in Nat : ~Right(n)}
<1> SUFFICES ASSUME Bad # {} PROVE FALSE
  OBVIOUS
<1>0. P \in Nat /\ P >= 1
  BY BinMathAssumption, TwoNat
<1>1. PICK n \in Bad : \A m \in Bad : n <= m
  BY Least, Bad \in SUBSET Nat
<1>2. PICK k \in Nat : n < Unit[k] * P /\ ~\E c \in Nat : c > 0 /\ Unit[k] = c * Unit[n]
  BY <1>1
<1>u. \A m \in Nat : Unit[m] = IF m < P THEN 1 ELSE 2 * Unit[m \div 2]
  BY BinMathAssumption, UnitDef
<1> HIDE DEF P
<1>3. CASE n < P
  <2>1. Unit[n] = 1 /\ Unit[k] \in Nat /\ Unit[k] > 0
    BY <1>1, <1>3, <1>u, UnitNat
  <2>2. Unit[k] = Unit[k] * Unit[n]
    BY <2>1
  <2> QED BY <1>2, <2>1, <2>2
<1>4. CASE ~(n < P)
  <2>1. k >= P
    <3>1. k < P => Unit[k] = 1
      BY <1>u
    <3> QED BY <1>0, <1>1, <1>2, <1>4, <3>1
  <2>2. /\ Unit[k] = 2 * Unit[k \div 2] /\ Unit[n] = 2 * Unit[n \div 2]
        /\ k \div 2 \in Nat /\ n \div 2 \in Nat /\ n \div 2 < n
    BY <1>0, <1>1, <1>4, <1>u, <2>1
  <2>3. Unit[k \div 2] \in Nat /\ Unit[n \div 2] \in Nat
    BY <2>2, UnitNat
  <2>4. n \div 2 < Unit[k \div 2] * P
    <3>1. (2 * Unit[k \div 2]) * P = 2 * (Unit[k \div 2] * P) /\ Unit[k \div 2] * P \in Nat
      BY <1>0, <2>3
    <3>2. \A y \in Nat : n < 2 * y => n \div 2 < y
      BY <1>1
    <3> QED BY <1>2, <2>2, <3>1, <3>2
  <2>5. PICK c \in Nat : c > 0 /\ Unit[k \div 2] = c * Unit[n \div 2]
    <3>1. Right(n \div 2)
      BY <1>1, <2>2
    <3> QED BY <2>2, <2>4, <3>1
  <2>6. 2 * (c * Unit[n \div 2]) = c * (2 * Unit[n \div 2])
    BY <2>3
  <2> QED BY <1>2, <2>2, <2>5, <2>6
<1> QED BY <1>3, <1>4

\* One bit more, twice the unit.
LEMMA UnitDoubles ==
  \A k, n \in Nat :
    Unit[k] * Two[Mantissa] <= n /\ n < 2 * (Unit[k] * Two[Mantissa]) => Unit[n] = 2 * Unit[k]
<1> DEFINE P == Two[Mantissa]
           Right(k) == \A n \in Nat : Unit[k] * P <= n /\ n < 2 * (Unit[k] * P)
                                        => Unit[n] = 2 * Unit[k]
           Bad == {k \in Nat : ~Right(k)}
<1> SUFFICES ASSUME Bad # {} PROVE FALSE
  OBVIOUS
<1>0. P \in Nat /\ P >= 1
  BY BinMathAssumption, TwoNat
<1>1. PICK k \in Bad : \A m \in Bad : k <= m
  BY Least, Bad \in SUBSET Nat
<1>2. PICK n \in Nat : Unit[k] * P <= n /\ n < 2 * (Unit[k] * P) /\ Unit[n] # 2 * Unit[k]
  BY <1>1
<1>u. \A m \in Nat : Unit[m] = IF m < P THEN 1 ELSE 2 * Unit[m \div 2]
  BY BinMathAssumption, UnitDef
<1> HIDE DEF P
<1>3. CASE k < P
  <2>1. Unit[k] = 1
    BY <1>1, <1>3, <1>u
  <2>2. P <= n /\ n < 2 * P
    BY <1>0, <1>2, <2>1
  <2>3. n \div 2 \in Nat /\ n \div 2 < P
    BY <1>0, <2>2
  <2>4. Unit[n \div 2] = 1
    BY <1>u, <2>3
  <2>5. Unit[n] = 2 * Unit[n \div 2]
    <3>1. ~(n < P)
      BY <1>0, <2>2
    <3> QED BY <1>u, <3>1
  <2> QED BY <1>2, <2>1, <2>4, <2>5
<1>4. CASE ~(k < P)
  <2> DEFINE V == Unit[k \div 2]
  <2>1. k \div 2 \in Nat /\ k \div 2 < k /\ Unit[k] = 2 * V
    BY <1>0, <1>1, <1>4, <1>u
  <2>2. V \in Nat /\ V > 0
    BY <2>1, UnitNat
  <2> HIDE DEF V
  <2>3. (2 * V) * P = 2 * (V * P) /\ V * P \in Nat /\ V * P >= P
    BY <1>0, <2>2
  <2>4. V * P <= n \div 2 /\ n \div 2 < 2 * (V * P) /\ n >= P /\ n \div 2 \in Nat
    <3>1. 2 * (V * P) <= n /\ n < 4 * (V * P)
      BY <1>2, <2>1, <2>3
    <3>2. \A y \in Nat : 2 * y <= n /\ n < 4 * y => y <= n \div 2 /\ n \div 2 < 2 * y
      OBVIOUS
    <3> QED BY <1>0, <2>3, <3>1, <3>2
  <2>5. Unit[n \div 2] = 2 * V
    <3>1. Right(k \div 2)
      BY <1>1, <2>1
    <3> QED BY <2>4, <3>1 DEF V
  <2>6. Unit[n] = 2 * Unit[n \div 2]
    <3>1. ~(n < P)
      BY <1>0, <2>4
    <3> QED BY <1>u, <3>1
  <2> QED BY <1>2, <2>1, <2>5, <2>6
<1> QED BY <1>3, <1>4

\* A multiple of its own unit is a double.
LEMMA NearestMultiple ==
  ASSUME NEW m \in Nat, NEW n \in Nat, n = m * Unit[n]
  PROVE  Nearest(n) = n
<1> DEFINE u == Unit[n]
           r == n % u
<1>1. u \in Nat /\ u > 0
  BY UnitNat
<1>e. n = m * u
  OBVIOUS
<1>2. r \in Nat /\ n = u * (n \div u) + r
  <2> HIDE DEF u
  <2> QED BY <1>1, Division
<1>3. n \div u = m
  <2> HIDE DEF u
  <2>1. (m * u) \div u = m
    BY <1>1, ExactDivision
  <2> QED BY <1>e, <2>1
<1>4. Nearest(n) = IF 2 * r < u \/ (2 * r = u /\ (n \div u) % 2 = 0)
                   THEN (n \div u) * u ELSE ((n \div u) + 1) * u
  BY DEF Nearest
<1> HIDE DEF u, r
<1>5. r = 0
  BY <1>1, <1>2, <1>3, <1>e
<1> QED BY <1>1, <1>3, <1>4, <1>5, <1>e

\* What has no more bits than a double is left as it is.
LEMMA NearestExact ==
  ASSUME NEW k \in Nat, NEW j \in 0..Two[Mantissa]
  PROVE  Nearest(j * Unit[k]) = j * Unit[k]
<1> DEFINE P == Two[Mantissa]
           U == Unit[k]
           v == j * U
<1>0. P \in Nat /\ U \in Nat /\ U > 0 /\ P > 0
  BY BinMathAssumption, TwoNat, UnitNat
<1>j. j \in Nat /\ j <= P
  BY <1>0
<1>1. CASE j < P
  <2>1. v \in Nat /\ v < U * P
    <3> HIDE DEF U, P
    <3>1. v \in Nat
      BY <1>0, <1>j
    <3>2. P - j \in Nat /\ P - j >= 1
      BY <1>0, <1>j, <1>1
    <3>3. \A d \in Nat : d >= 1 => d * U >= U
      BY <1>0
    <3>4. (P - j) * U = U * P - v
      BY <1>0, <1>j
    <3> QED BY <1>0, <3>1, <3>2, <3>3, <3>4
  <2> HIDE DEF v
  <2>2. PICK c \in Nat : U = c * Unit[v]
    BY <2>1, UnitDivides
  <2>3. v = (j * c) * Unit[v] /\ j * c \in Nat
    <3>1. Unit[v] \in Nat
      BY <2>1, UnitNat
    <3> QED BY <1>j, <2>2, <3>1 DEF v
  <2> QED BY <2>1, <2>3, NearestMultiple DEF v
<1>2. CASE j = P
  <2>1. PICK h \in Nat : P = 4 * h /\ h > 0
    BY EvenBits
  <2>2. v = U * P /\ v \in Nat /\ v > 0
    BY <1>0, <1>2
  <2> HIDE DEF v
  <2>3. Unit[v] = 2 * U
    BY <2>2, UnitDoubles
  <2>4. v = (2 * h) * Unit[v]
    <3> HIDE DEF U, P
    <3> QED BY <1>0, <2>1, <2>2, <2>3
  <2> QED BY <2>1, <2>2, <2>4, NearestMultiple DEF v
<1>3. j < P \/ j = P
  BY <1>0, <1>j
<1> QED BY <1>1, <1>2, <1>3

\* A nearest double is at most half a unit away, and is a double.
LEMMA NearestOwnUnit ==
  ASSUME NEW n \in Nat
  PROVE  \E j \in 0..Two[Mantissa] :
           /\ Nearest(n) = j * Unit[n]
           /\ 2 * Distance(Nearest(n), n) <= Unit[n]
<1> DEFINE P == Two[Mantissa]
           u == Unit[n]
           q == n \div u
           r == n % u
<1>1. u \in Nat /\ u > 0 /\ P \in Nat /\ P > 0
  BY BinMathAssumption, UnitNat, TwoNat
<1>2. q \in Nat /\ r \in 0..(u - 1) /\ n = u * q + r
  BY <1>1, Division
<1>3. Nearest(n) = IF 2 * r < u \/ (2 * r = u /\ q % 2 = 0) THEN q * u ELSE (q + 1) * u
  BY DEF Nearest
<1>4. n < u * P
  BY BelowUnit
<1> HIDE DEF u, q, r, P
<1>5. q < P
  <2>1. ASSUME q >= P PROVE FALSE
    <3>1. q - P \in Nat
      BY <1>1, <1>2, <2>1
    <3>2. u * (q - P) \in Nat
      BY <1>1, <3>1
    <3>3. u * (q - P) = u * q - u * P
      BY <1>1, <1>2
    <3> QED BY <1>1, <1>2, <1>4, <3>2, <3>3
  <2> QED BY <1>1, <1>2, <2>1
<1>6. q * u = n - r /\ (q + 1) * u = n - r + u
  BY <1>1, <1>2
<1>7. CASE 2 * r < u \/ (2 * r = u /\ q % 2 = 0)
  <2>1. Nearest(n) = q * u /\ Nearest(n) = n - r
    BY <1>3, <1>6, <1>7
  <2>2. 2 * Distance(Nearest(n), n) <= u
    BY <1>1, <1>2, <1>7, <2>1 DEF Distance
  <2> QED BY <1>1, <1>2, <1>5, <2>1, <2>2 DEF u, P
<1>8. CASE ~(2 * r < u \/ (2 * r = u /\ q % 2 = 0))
  <2>1. Nearest(n) = (q + 1) * u /\ Nearest(n) = n - r + u
    BY <1>3, <1>6, <1>8
  <2>2. 2 * Distance(Nearest(n), n) <= u
    BY <1>1, <1>2, <1>8, <2>1 DEF Distance
  <2>3. q + 1 \in 0..P
    BY <1>1, <1>2, <1>5
  <2> QED BY <2>1, <2>2, <2>3 DEF u, P
<1> QED BY <1>7, <1>8

\* The numbers up to it are counted in Unit[k] or less.
Bound(k) == Unit[k] * Two[Mantissa]

\* Up to the last number counted in a unit, no rounding errs by more than half of it.
LEMMA NearestClose ==
  ASSUME NEW k \in Nat, NEW n \in Nat, n <= Bound(k)
  PROVE  /\ Nearest(n) \in Nat /\ Nearest(n) <= Bound(k)
         /\ 2 * Distance(Nearest(n), n) <= Unit[k]
         /\ Nearest(Nearest(n)) = Nearest(n)
<1> DEFINE P == Two[Mantissa]
           U == Unit[k]
           u == Unit[n]
<1>1. u \in Nat /\ u > 0 /\ P \in Nat /\ P > 0 /\ U \in Nat /\ U > 0
  BY BinMathAssumption, UnitNat, TwoNat
<1>2. PICK j \in 0..P : Nearest(n) = j * u /\ 2 * Distance(Nearest(n), n) <= u
  BY NearestOwnUnit
<1>3. Nearest(Nearest(n)) = Nearest(n)
  BY <1>2, NearestExact
<1>4. Nearest(n) \in Nat
  <2> HIDE DEF u, P
  <2> QED BY <1>1, <1>2
<1>5. CASE n < Bound(k)
  <2>1. PICK c \in Nat : c > 0 /\ U = c * u
    BY <1>5, UnitDivides DEF Bound
  <2> HIDE DEF U, u, P
  <2>2. u <= U
    <3>1. \A d \in Nat : d >= 1 => d * u >= u
      BY <1>1
    <3> QED BY <2>1, <3>1
  <2>3. j * u <= U * P
    <3>1. j * u <= P * u
      <4>1. P - j \in Nat /\ j \in Nat
        BY <1>1
      <4>2. (P - j) * u \in Nat
        BY <1>1, <4>1
      <4>3. (P - j) * u = P * u - j * u
        BY <1>1, <4>1
      <4> QED BY <1>1, <4>1, <4>2, <4>3
    <3>2. P * u <= U * P
      <4>1. U - u \in Nat
        BY <1>1, <2>2
      <4>2. P * (U - u) \in Nat
        BY <1>1, <4>1
      <4>3. P * (U - u) = U * P - P * u
        BY <1>1
      <4> QED BY <1>1, <4>2, <4>3
    <3> QED BY <1>1, <3>1, <3>2
  <2>4. 2 * Distance(Nearest(n), n) <= U
    BY <1>1, <1>2, <1>4, <2>2 DEF Distance
  <2> QED BY <1>2, <1>3, <1>4, <2>3, <2>4 DEF Bound, U, P
<1>6. CASE n = Bound(k)
  <2>1. n = P * U
    BY <1>1, <1>6 DEF Bound
  <2>2. P \in 0..P
    BY <1>1
  <2>3. Nearest(n) = n
    BY <2>1, <2>2, NearestExact
  <2>4. Distance(n, n) = 0
    BY DEF Distance
  <2> QED BY <1>1, <1>6, <2>3, <2>4
<1>7. Bound(k) \in Nat
  BY <1>1 DEF Bound
<1> QED BY <1>5, <1>6, <1>7

\* The same with a sign.
LEMMA DoubleClose ==
  ASSUME NEW k \in Nat, NEW n \in Int, -Bound(k) <= n, n <= Bound(k)
  PROVE  /\ Double(n) \in Int /\ -Bound(k) <= Double(n) /\ Double(n) <= Bound(k)
         /\ 2 * Distance(Double(n), n) <= Unit[k]
         /\ Double(Double(n)) = Double(n)
<1> DEFINE m == IF n < 0 THEN -n ELSE n
           B == Bound(k)
<1>1. B \in Nat /\ Unit[k] \in Nat
  BY BinMathAssumption, UnitNat, TwoNat DEF Bound
<1>2. m \in Nat /\ m <= B
  BY <1>1
<1> HIDE DEF m
<1>3. /\ Nearest(m) \in Nat /\ Nearest(m) <= B
      /\ 2 * Distance(Nearest(m), m) <= Unit[k]
      /\ Nearest(Nearest(m)) = Nearest(m)
  BY <1>2, NearestClose
<1> HIDE DEF B
<1>4. CASE n < 0
  <2>1. m = -n /\ Double(n) = -Nearest(m)
    BY <1>4 DEF Double, m
  <2>2. Double(Double(n)) = Double(n)
    <3>1. CASE Nearest(m) = 0
      <4>1. Double(n) = 0 /\ Nearest(0) = 0
        BY <1>3, <2>1, <3>1
      <4>2. Double(0) = Nearest(0)
        BY DEF Double
      <4> QED BY <4>1, <4>2
    <3>2. CASE Nearest(m) # 0
      <4>1. Double(n) < 0 /\ -Double(n) = Nearest(m)
        BY <1>3, <2>1, <3>2
      <4>2. Double(Double(n)) = -Nearest(-Double(n))
        BY <4>1 DEF Double
      <4> QED BY <1>3, <2>1, <4>1, <4>2
    <3> QED BY <3>1, <3>2
  <2>3. 2 * Distance(Double(n), n) <= Unit[k]
    BY <1>1, <1>3, <2>1, <1>2 DEF Distance
  <2> QED BY <1>1, <1>3, <2>1, <2>2, <2>3 DEF B
<1>5. CASE ~(n < 0)
  <2>1. m = n /\ Double(n) = Nearest(n)
    BY <1>5 DEF Double, m
  <2>2. Double(Double(n)) = Nearest(Double(n))
    BY <1>3, <2>1 DEF Double
  <2> QED BY <1>1, <1>3, <2>1, <2>2 DEF B
<1> QED BY <1>4, <1>5

\* Integers of few bits are doubles.
LEMMA DoubleExact ==
  ASSUME NEW n \in Int, -Two[Mantissa] <= n, n <= Two[Mantissa]
  PROVE  Double(n) = n
<1>1. Two[Mantissa] \in Nat /\ Two[Mantissa] > 0
  BY BinMathAssumption, TwoNat
<1>2. Unit[0] = 1
  BY BinMathAssumption, <1>1, UnitDef
<1>3. \A j \in 0..Two[Mantissa] : Nearest(j) = j
  <2> TAKE j \in 0..Two[Mantissa]
  <2>1. j * Unit[0] = j
    BY <1>1, <1>2
  <2>2. Nearest(j * Unit[0]) = j * Unit[0]
    BY NearestExact
  <2> QED BY <2>1, <2>2
<1>4. CASE n < 0
  BY <1>1, <1>3, <1>4, -n \in 0..Two[Mantissa] DEF Double
<1>5. CASE ~(n < 0)
  BY <1>1, <1>3, <1>5, n \in 0..Two[Mantissa] DEF Double
<1> QED BY <1>4, <1>5

\* Just above the last number counted in a unit, doubles are two units apart,
\* and the bound itself is the even one.
LEMMA NearestAbove ==
  ASSUME NEW k \in Nat, NEW s \in Nat, Bound(k) <= s, s < Bound(k) + 2 * Unit[k]
  PROVE  Nearest(s) = IF s <= Bound(k) + Unit[k] THEN Bound(k) ELSE Bound(k) + 2 * Unit[k]
<1> DEFINE U == Unit[k]
           P == Two[Mantissa]
           B == Bound(k)
           r == s - B
<1>1. PICK h \in Nat : P = 4 * h /\ h > 0
  BY EvenBits
<1>2. U \in Nat /\ U > 0 /\ P \in Nat /\ B = U * P
  BY BinMathAssumption, UnitNat, TwoNat DEF Bound
<1> HIDE DEF U, P
<1>3. B = (2 * h) * (2 * U) /\ B >= 4 * U /\ B \in Nat
  <2>1. B = (2 * h) * (2 * U)
    BY <1>1, <1>2
  <2>2. \A d \in Nat : d >= 1 => d * (4 * U) >= 4 * U
    BY <1>2
  <2>3. B = h * (4 * U) /\ B \in Nat
    BY <1>1, <1>2
  <2> QED BY <1>1, <2>1, <2>2, <2>3
<1>4. Unit[s] = 2 * U
  <2>1. Unit[k] * Two[Mantissa] <= s /\ s < 2 * (Unit[k] * Two[Mantissa])
    <3>1. B = Unit[k] * Two[Mantissa]
      BY DEF Bound
    <3>2. B <= s /\ s < 2 * B
      BY <1>2, <1>3 DEF U
    <3> QED BY <3>1, <3>2
  <2> QED BY <2>1, UnitDoubles DEF U
<1>5. r \in 0..(2 * U - 1) /\ s = (2 * U) * (2 * h) + r
  <2>1. r \in 0..(2 * U - 1)
    BY <1>2, <1>3 DEF U
  <2>2. (2 * h) * (2 * U) = (2 * U) * (2 * h)
    BY <1>2
  <2> QED BY <1>3, <2>1, <2>2
<1> DEFINE q == s \div (2 * U)
           t == s % (2 * U)
<1>6. q \in Nat /\ t \in 0..(2 * U - 1) /\ s = (2 * U) * q + t
  <2>1. 2 * U \in Nat /\ 2 * U > 0
    BY <1>2
  <2> HIDE DEF U
  <2> QED BY <2>1, Division
<1>7. Nearest(s) = IF 2 * t < 2 * U \/ (2 * t = 2 * U /\ q % 2 = 0)
                   THEN q * (2 * U) ELSE (q + 1) * (2 * U)
  BY <1>4 DEF Nearest
<1> HIDE DEF q, t, r
<1>8. q = 2 * h
  <2>1. \A d \in Nat : d >= 1 => (2 * U) * d >= 2 * U
    BY <1>2
  <2>2. CASE q > 2 * h
    <3>1. q - 2 * h \in Nat /\ q - 2 * h >= 1
      BY <1>6, <2>2
    <3>2. (2 * U) * (q - 2 * h) = (2 * U) * q - (2 * U) * (2 * h)
      BY <1>2, <1>6
    <3>3. (2 * U) * (q - 2 * h) = r - t
      BY <1>2, <1>5, <1>6, <3>2
    <3> QED BY <1>2, <1>5, <1>6, <2>1, <3>1, <3>3
  <2>3. CASE q < 2 * h
    <3>1. 2 * h - q \in Nat /\ 2 * h - q >= 1
      BY <1>6, <2>3
    <3>2. (2 * U) * (2 * h - q) = (2 * U) * (2 * h) - (2 * U) * q
      BY <1>2, <1>6
    <3>3. (2 * U) * (2 * h - q) = t - r
      BY <1>2, <1>5, <1>6, <3>2
    <3> QED BY <1>2, <1>5, <1>6, <2>1, <3>1, <3>3
  <2> QED BY <1>6, <2>2, <2>3
<1>9. t = r /\ q % 2 = 0 /\ q * (2 * U) = B /\ (q + 1) * (2 * U) = B + 2 * U
  <2>1. (2 * U) * q \in Nat /\ (2 * U) * q = (2 * U) * (2 * h)
    BY <1>2, <1>6, <1>8
  <2>2. t = r
    BY <1>5, <1>6, <2>1
  <2>3. q * (2 * U) = B
    BY <1>3, <1>8
  <2>4. (q + 1) * (2 * U) = q * (2 * U) + 2 * U
    BY <1>2, <1>6
  <2> QED BY <1>8, <2>2, <2>3, <2>4
<1>10. s <= B + U <=> t <= U
  BY <1>2, <1>3, <1>9 DEF r
<1>11. Nearest(s) = IF s <= B + U THEN B ELSE B + 2 * U
  BY <1>2, <1>6, <1>7, <1>9, <1>10
<1> QED BY <1>11 DEF U

\* The bound of a unit is at least four of them.
LEMMA BoundNat ==
  ASSUME NEW k \in Nat
  PROVE  /\ Unit[k] \in Nat /\ Unit[k] > 0 /\ Bound(k) \in Nat
         /\ k < Bound(k) /\ Bound(k) >= 4 * Unit[k]
<1>1. PICK h \in Nat : Two[Mantissa] = 4 * h /\ h > 0
  BY EvenBits
<1>2. Unit[k] \in Nat /\ Unit[k] > 0 /\ Two[Mantissa] \in Nat
  BY BinMathAssumption, UnitNat, TwoNat
<1>3. k < Bound(k)
  BY BelowUnit DEF Bound
<1>4. Bound(k) \in Nat /\ Bound(k) = h * (4 * Unit[k])
  BY <1>1, <1>2 DEF Bound
<1>5. \A d \in Nat : d >= 1 => d * (4 * Unit[k]) >= 4 * Unit[k]
  BY <1>2
<1> QED BY <1>1, <1>2, <1>3, <1>4, <1>5

\* A sum that is off by less than two units, after its own rounding.  One bit
\* more doubles the unit: then the doubles near are those of NearestAbove.
LEMMA LastRounding ==
  ASSUME NEW k \in Nat, NEW s \in Int, NEW true \in Nat, true <= k,
         Distance(s, true) <= 2 * Unit[k], -Bound(k) <= s
  PROVE  Distance(Double(s), true) < 3 * Unit[k]
<1> DEFINE U == Unit[k]
           B == Bound(k)
<1>1. U \in Nat /\ U > 0 /\ B \in Nat /\ true < B /\ B >= 4 * U
  BY BoundNat
<1>2. s <= true + 2 * U /\ true <= s + 2 * U
  BY <1>1 DEF Distance
<1>3. CASE s <= B
  <2>1. Double(s) \in Int /\ 2 * Distance(Double(s), s) <= U
    BY <1>3, DoubleClose
  <2> HIDE DEF U, B
  <2>2. Distance(Double(s), true) < 3 * U
    BY <1>1, <1>2, <2>1 DEF Distance
  <2> QED BY <2>2 DEF U
<1>4. CASE s > B
  <2>0. s \in Nat
    BY <1>1, <1>4
  <2>1. Double(s) = Nearest(s)
    <3>1. ~(s < 0)
      BY <2>0
    <3> QED BY <3>1 DEF Double
  <2>2. Nearest(s) = IF s <= B + U THEN B ELSE B + 2 * U
    BY <1>1, <1>2, <1>4, <2>0, NearestAbove
  <2> HIDE DEF U, B
  <2>3. Distance(Double(s), true) < 3 * U
    BY <1>1, <1>2, <1>4, <2>0, <2>1, <2>2 DEF Distance
  <2> QED BY <2>3 DEF U
<1> QED BY <1>1, <1>3, <1>4

\* What came in: three roundings of half a unit, the reserve's own and the sum's.
LEMMA IntoClose ==
  ASSUME NEW reserve \in Nat, NEW amount \in Nat, NEW protocol \in 0..amount
  PROVE  Distance(Add(reserve, Double(Double(amount) - Double(protocol))),
                  reserve + amount - protocol) < 3 * Unit[reserve + amount]
<1> DEFINE k == reserve + amount
           U == Unit[k]
           B == Bound(k)
           diff == Double(amount) - Double(protocol)
           s == Double(reserve) + Double(diff)
           true == reserve + amount - protocol
<1>1. /\ U \in Nat /\ U > 0 /\ B \in Nat /\ k < B /\ k \in Nat
      /\ true \in Nat /\ true <= k
  BY BoundNat
<1> HIDE DEF U, B, k
<1>2. /\ reserve \in Int /\ -B <= reserve /\ reserve <= B
      /\ amount \in Int /\ -B <= amount /\ amount <= B
      /\ protocol \in Int /\ -B <= protocol /\ protocol <= B
  BY <1>1 DEF k
<1>3. /\ Double(reserve) \in Int /\ 2 * Distance(Double(reserve), reserve) <= U
      /\ -B <= Double(reserve) /\ Double(reserve) <= B
  BY <1>1, <1>2, DoubleClose DEF U, B
<1>4. /\ Double(amount) \in Int /\ 2 * Distance(Double(amount), amount) <= U
      /\ -B <= Double(amount) /\ Double(amount) <= B
  BY <1>1, <1>2, DoubleClose DEF U, B
<1>5. /\ Double(protocol) \in Int /\ 2 * Distance(Double(protocol), protocol) <= U
      /\ -B <= Double(protocol) /\ Double(protocol) <= B
  BY <1>1, <1>2, DoubleClose DEF U, B
<1>p. /\ Double(protocol) >= 0 /\ Double(reserve) >= 0 /\ Double(amount) >= 0
  BY <1>1, <1>2, NearestClose DEF B, Double
<1>6. diff \in Int /\ -B <= diff /\ diff <= B
  BY <1>1, <1>4, <1>5, <1>p
<1> HIDE DEF diff
<1>7. /\ Double(diff) \in Int /\ 2 * Distance(Double(diff), diff) <= U
      /\ Double(Double(diff)) = Double(diff)
      /\ -B <= Double(diff) /\ Double(diff) <= B
  BY <1>1, <1>6, DoubleClose DEF U, B
<1>8. s \in Int /\ -B <= s
  BY <1>1, <1>3, <1>7, <1>p
<1>9. Distance(s, true) <= 2 * U
  BY <1>1, <1>2, <1>3, <1>4, <1>5, <1>7 DEF Distance, diff
<1>10. Distance(Double(s), true) < 3 * U
  <2> HIDE DEF s, true
  <2> QED BY <1>1, <1>8, <1>9, LastRounding DEF U, B
<1>11. Add(reserve, Double(diff)) = Double(s)
  BY <1>7 DEF Add
<1> QED BY <1>10, <1>11 DEF U, k, diff

\* What went out.
LEMMA OutClose ==
  ASSUME NEW reserve \in Nat, NEW amount \in Nat, NEW taken \in 0..reserve
  PROVE  Distance(Add(reserve, -taken), reserve - taken) < 3 * Unit[reserve + amount]
<1> DEFINE k == reserve + amount
           U == Unit[k]
           B == Bound(k)
           s == Double(reserve) + Double(-taken)
           true == reserve - taken
<1>1. /\ U \in Nat /\ U > 0 /\ B \in Nat /\ k < B /\ k \in Nat
      /\ true \in Nat /\ true <= k
  BY BoundNat
<1> HIDE DEF U, B, k
<1>2. /\ reserve \in Int /\ -B <= reserve /\ reserve <= B
      /\ -taken \in Int /\ -B <= -taken /\ -taken <= B
  BY <1>1 DEF k
<1>3. /\ Double(reserve) \in Int /\ 2 * Distance(Double(reserve), reserve) <= U
      /\ -B <= Double(reserve) /\ Double(reserve) <= B
  BY <1>1, <1>2, DoubleClose DEF U, B
<1>4. /\ Double(-taken) \in Int /\ 2 * Distance(Double(-taken), -taken) <= U
      /\ -B <= Double(-taken) /\ Double(-taken) <= B
  BY <1>1, <1>2, DoubleClose DEF U, B
<1>p. Double(reserve) >= 0
  BY <1>1, <1>2, NearestClose DEF B, Double
<1>5. s \in Int /\ -B <= s
  BY <1>1, <1>3, <1>4, <1>p
<1>6. Distance(s, true) <= 2 * U
  BY <1>1, <1>2, <1>3, <1>4 DEF Distance
<1>7. Distance(Double(s), true) < 3 * U
  <2> HIDE DEF s, true
  <2> QED BY <1>1, <1>5, <1>6, LastRounding DEF U, B
<1> QED BY <1>7 DEF U, k, Add

\* Below 2^53 nothing is rounded.
LEMMA AddExact ==
  ASSUME NEW a \in Int, NEW b \in Int,
         \A n \in {a, b, a + b} : -Two[Mantissa] <= n /\ n <= Two[Mantissa]
  PROVE  Add(a, b) = a + b
<1>1. Double(a) = a /\ Double(b) = b /\ Double(a + b) = a + b
  BY DoubleExact
<1> QED BY <1>1 DEF Add
-----------------------------------------------------------------------------
(* The properties *)

\* A call with amounts has an event and a reserve.
LEMMA AmountsTyped ==
  ASSUME call \in Calls, OfAmounts
  PROVE  /\ call.reserve \in Nat /\ call.x \in Nat /\ call.y \in Nat
         /\ call.event.amount_in \in Nat /\ call.event.amount_out \in Nat
         /\ call.event.fee \in Nat /\ call.event.swap_for_y \in BOOLEAN
         /\ call.event.protocol_fee \in 0..call.event.amount_in
<1> DEFINE e == call.event
<1>1. call.reserve \in Reserves /\ call.x \in Decimals /\ call.y \in Decimals
  BY DEF Calls, OfAmounts
<1>2. e \in BinSwapEvent(Amounts)
  BY DEF Calls, OfAmounts
<1>3. /\ e.amount_in \in Nat /\ e.amount_out \in Nat /\ e.fee \in Nat
      /\ e.protocol_fee \in Nat /\ e.swap_for_y \in BOOLEAN
      /\ e.protocol_fee <= e.fee /\ e.fee <= e.amount_in
  BY <1>2, BinMathAssumption DEF BinSwapEvent
<1> HIDE DEF e
<1>4. e.protocol_fee \in 0..e.amount_in
  BY <1>3
<1> QED BY <1>1, <1>3, <1>4, BinMathAssumption DEF e

\* The reserves after one call.
LEMMA ReservesOfCall ==
  ASSUME call \in Calls
  PROVE  ReservesAgree
<1> SUFFICES ASSUME OfAmounts PROVE ReservesAgree
  BY DEF ReservesAgree
<1> DEFINE e == call.event
           reserve == call.reserve
           in == reserve + e.amount_in - e.protocol_fee
           out == reserve - e.amount_out
           most == reserve + e.amount_in
           into == Double(Double(e.amount_in) - Double(e.protocol_fee))
           Near(n, m) == IF most <= Two[Mantissa] THEN n = m
                         ELSE Distance(n, m) < 3 * Unit[most]
<1>1. /\ reserve \in Nat /\ e.amount_in \in Nat /\ e.amount_out \in Nat
      /\ e.protocol_fee \in 0..e.amount_in /\ e.swap_for_y \in BOOLEAN
  BY AmountsTyped
<1> SUFFICES ASSUME out >= 0
             PROVE  /\ Near(Add(reserve, into), in)
                    /\ Near(Add(reserve, -e.amount_out), out)
  BY <1>1 DEF ReservesAgree, NewReserves, SwapDelta
<1> HIDE DEF e, reserve
<1>2. CASE most <= Two[Mantissa]
  <2>1. Two[Mantissa] \in Nat
    BY BinMathAssumption, TwoNat
  <2>2. into = e.amount_in - e.protocol_fee
    <3>1. Double(e.amount_in) = e.amount_in /\ Double(e.protocol_fee) = e.protocol_fee
      BY <1>1, <1>2, <2>1, DoubleExact
    <3>2. Double(e.amount_in - e.protocol_fee) = e.amount_in - e.protocol_fee
      BY <1>1, <1>2, <2>1, DoubleExact
    <3> QED BY <3>1, <3>2
  <2>3. Add(reserve, e.amount_in - e.protocol_fee) = reserve + (e.amount_in - e.protocol_fee)
    <3>1. \A n \in {reserve, e.amount_in - e.protocol_fee, reserve + (e.amount_in - e.protocol_fee)} :
            n \in Int /\ -Two[Mantissa] <= n /\ n <= Two[Mantissa]
      BY <1>1, <1>2, <2>1
    <3> QED BY <3>1, AddExact
  <2>4. Add(reserve, -e.amount_out) = reserve + -e.amount_out
    BY <1>1, <1>2, <2>1, AddExact
  <2> QED BY <1>1, <1>2, <2>2, <2>3, <2>4
<1>3. CASE ~(most <= Two[Mantissa])
  <2>1. Distance(Add(reserve, into), in) < 3 * Unit[most]
    BY <1>1, IntoClose
  <2>2. e.amount_out \in 0..reserve
    BY <1>1
  <2>3. Distance(Add(reserve, -e.amount_out), out) < 3 * Unit[most]
    BY <1>1, <2>2, OutClose
  <2> QED BY <1>3, <2>1, <2>3
<1> QED BY <1>2, <1>3

\* The amounts shown after one call.
LEMMA AmountsOfCall ==
  ASSUME call \in Calls
  PROVE  AmountsNormalized
<1> SUFFICES ASSUME OfAmounts PROVE AmountsNormalized
  BY DEF AmountsNormalized
<1> DEFINE e == call.event
           Shows(n, amount, d) ==
             IF d <= FractionDigits THEN n * Ten[d] = amount * Ten[FractionDigits]
             ELSE /\ n * Ten[d] <= amount * Ten[FractionDigits]
                  /\ amount * Ten[FractionDigits] < n * Ten[d] + Ten[d]
           into == IF e.swap_for_y THEN call.x ELSE call.y
           out == IF e.swap_for_y THEN call.y ELSE call.x
<1>1. \A amount \in Nat, d \in Nat : Shows(NormalizeAmount(amount, d), amount, d)
  <2> TAKE amount \in Nat, d \in Nat
  <2>1. CASE d <= FractionDigits
    BY <2>1, d \in 0..FractionDigits, BinMathAssumption, NormalizeExact
  <2>2. CASE ~(d <= FractionDigits)
    BY <2>2, NormalizeTruncates
  <2> QED BY <2>1, <2>2
<1>2. /\ into \in Nat /\ out \in Nat /\ e.amount_in \in Nat /\ e.amount_out \in Nat
      /\ e.fee \in Nat /\ e.protocol_fee \in Nat
  BY AmountsTyped
<1>3. SwapAmounts(e, call) =
        [in |-> NormalizeAmount(e.amount_in, into), out |-> NormalizeAmount(e.amount_out, out),
         fee |-> NormalizeAmount(e.fee, into), protocolFee |-> NormalizeAmount(e.protocol_fee, into)]
  BY DEF SwapAmounts
<1> DEFINE a == SwapAmounts(e, call)
<1>4. /\ a.in = NormalizeAmount(e.amount_in, into) /\ a.out = NormalizeAmount(e.amount_out, out)
      /\ a.fee = NormalizeAmount(e.fee, into)
      /\ a.protocolFee = NormalizeAmount(e.protocol_fee, into)
  BY <1>3
<1> HIDE DEF Shows, a, into, out, e
<1>5. /\ Shows(a.in, e.amount_in, into) /\ Shows(a.out, e.amount_out, out)
      /\ Shows(a.fee, e.fee, into) /\ Shows(a.protocolFee, e.protocol_fee, into)
  BY <1>1, <1>2, <1>4
<1> QED BY <1>5 DEF AmountsNormalized, Shows, a, into, out, e

\* At most one call is made.
LEMMA CallInv == CallSpec => [](call = NoCall \/ call \in Calls)
<1>1. (call = NoCall \/ call \in Calls) /\ [Call]_call => (call = NoCall \/ call \in Calls)'
  BY DEF Call
<1> QED BY <1>1, PTL DEF CallSpec

(* Whatever the bits of a double, the reserve and the event: a swap leaves  *)
(* each reserve exact, or off by less than three units of the last bit.     *)
THEOREM ReservesAgreeAlways == CallSpec => []ReservesAgree
<1>1. call = NoCall => ReservesAgree
  BY DEF NoCall, ReservesAgree, OfAmounts
<1> QED BY <1>1, ReservesOfCall, CallInv, PTL

(* Whatever the decimals of the two mints: an amount shown is the exact one, *)
(* or that without the digits that are not kept.                            *)
THEOREM AmountsNormalizedAlways == CallSpec => []AmountsNormalized
<1>1. call = NoCall => AmountsNormalized
  BY DEF NoCall, AmountsNormalized, OfAmounts
<1> QED BY <1>1, AmountsOfCall, CallInv, PTL
-----------------------------------------------------------------------------
(* Prices.  Every truncation of powQ64 is compared with the exact power of  *)
(* what is left: from above it is nothing, from below a factor 1 - 1/Scale, *)
(* since no number of the loop is less than Scale.  Over the loop these     *)
(* become (1 - 1/Scale)^e, which is 1 - e/Scale or more (Bernoulli).        *)

\* The equation of PowLoop.
LEMMA PowLoopDef ==
  ASSUME Scale > 0, NEW r \in Nat, NEW x \in Nat, NEW e \in Nat
  PROVE  PowLoop[<<r, x, e>>] =
           IF e = 0 THEN r
           ELSE PowLoop[<<IF e % 2 = 1 THEN (r * x) \div Scale ELSE r,
                          (x * x) \div Scale, e \div 2>>]
<1> DEFINE D == Nat \X Nat \X Nat
           B == {t \in D : t[3] = 0}
           c == [t \in D |-> t[1]]
           p == [t \in D |-> <<IF t[3] % 2 = 1 THEN (t[1] * t[2]) \div Scale ELSE t[1],
                               (t[2] * t[2]) \div Scale, t[3] \div 2>>]
           rank == [t \in D |-> t[3]]
           IsLoop(g) == g = [t \in D |->
             IF t[3] = 0 THEN t[1]
             ELSE g[<<IF t[3] % 2 = 1 THEN (t[1] * t[2]) \div Scale ELSE t[1],
                      (t[2] * t[2]) \div Scale, t[3] \div 2>>]]
<1>s. Scale \in Nat /\ Scale > 0
  BY BinMathAssumption
<1>q. \A n \in Nat : n \div Scale \in Nat
  BY <1>s, Division
<1>h. \A n \in Nat : n \div 2 \in Nat /\ (n # 0 => n \div 2 < n)
  OBVIOUS
<1>1. \A t \in D : rank[t] \in Nat
  OBVIOUS
<1>2. ASSUME NEW t \in D \ B PROVE p[t] \in D /\ rank[p[t]] < rank[t]
  <2>1. t[1] \in Nat /\ t[2] \in Nat /\ t[3] \in Nat /\ t[3] # 0
    OBVIOUS
  <2>2. t[1] * t[2] \in Nat /\ t[2] * t[2] \in Nat
    BY <2>1
  <2>3. /\ (t[1] * t[2]) \div Scale \in Nat /\ (t[2] * t[2]) \div Scale \in Nat
        /\ t[3] \div 2 \in Nat /\ t[3] \div 2 < t[3]
    BY <1>q, <1>h, <2>1, <2>2
  <2>4. PICK u \in Nat : u = IF t[3] % 2 = 1 THEN (t[1] * t[2]) \div Scale ELSE t[1]
    BY <2>1, <2>3
  <2>5. p[t] = <<u, (t[2] * t[2]) \div Scale, t[3] \div 2>>
    BY <2>4
  <2> QED BY <2>3, <2>5
<1>3. \E g : TailRecursive(g, D, B, c, p)
  <2> HIDE DEF D, B, c, p, rank
  <2> QED BY <1>1, <1>2, TailRecursionExists
<1>4. PICK g : TailRecursive(g, D, B, c, p)
  BY <1>3
<1>5. IsLoop(g)
  <2>1. \A t \in D : (IF t \in B THEN c[t] ELSE g[p[t]]) =
          IF t[3] = 0 THEN t[1]
          ELSE g[<<IF t[3] % 2 = 1 THEN (t[1] * t[2]) \div Scale ELSE t[1],
                   (t[2] * t[2]) \div Scale, t[3] \div 2>>]
    OBVIOUS
  <2> HIDE DEF D, B, c, p
  <2> QED BY <1>4, <2>1 DEF TailRecursive
<1>6. PowLoop = CHOOSE f : IsLoop(f)
  BY DEF PowLoop
<1> HIDE DEF IsLoop
<1>7. IsLoop(PowLoop)
  BY <1>5, <1>6
<1>8. <<r, x, e>> \in D
  OBVIOUS
<1> QED BY <1>7, <1>8 DEF IsLoop

\* One turn of the loop: y is the square, q the result so far.
Turned(r, x, e, q, y, m) ==
  /\ PowLoop[<<r, x, e>>] = PowLoop[<<q, y, m>>]
  /\ m < e
  /\ y * Scale <= x * x /\ x * x < y * Scale + Scale
  /\ \/ e = 2 * m /\ q = r
     \/ e = 2 * m + 1 /\ q * Scale <= r * x /\ r * x < q * Scale + Scale

LEMMA Turn ==
  ASSUME Scale > 0, NEW r \in Nat, NEW x \in Nat, NEW e \in Nat, e # 0
  PROVE  \E q, y, m \in Nat : Turned(r, x, e, q, y, m)
<1> DEFINE y == (x * x) \div Scale
           u == (r * x) \div Scale
           m == e \div 2
           q == IF e % 2 = 1 THEN u ELSE r
<1>s. Scale \in Nat /\ Scale > 0
  BY BinMathAssumption
<1>1. \A n \in Nat : /\ n \div Scale \in Nat /\ (n \div Scale) * Scale <= n
                     /\ n < (n \div Scale) * Scale + Scale
  <2> SUFFICES ASSUME NEW n \in Nat
               PROVE  /\ n \div Scale \in Nat /\ (n \div Scale) * Scale <= n
                      /\ n < (n \div Scale) * Scale + Scale
    OBVIOUS
  <2>1. PICK d \in Nat, k \in 0..(Scale - 1) : d = n \div Scale /\ n = Scale * d + k
    BY <1>s, Division
  <2>2. d * Scale = Scale * d /\ d * Scale \in Nat
    BY <1>s
  <2> QED BY <1>s, <2>1, <2>2
<1>2. x * x \in Nat /\ r * x \in Nat
  OBVIOUS
<1>3. /\ y \in Nat /\ y * Scale <= x * x /\ x * x < y * Scale + Scale
      /\ u \in Nat /\ u * Scale <= r * x /\ r * x < u * Scale + Scale
  BY <1>1, <1>2
<1>4. m \in Nat /\ m < e /\ (e = 2 * m \/ e = 2 * m + 1)
      /\ (e = 2 * m + 1 <=> e % 2 = 1)
  OBVIOUS
<1>5. PowLoop[<<r, x, e>>] = PowLoop[<<q, y, m>>]
  BY PowLoopDef
<1>6. q \in Nat /\ Turned(r, x, e, q, y, m)
  <2> HIDE DEF y, u, m
  <2> QED BY <1>3, <1>4, <1>5 DEF Turned
<1> HIDE DEF y, u, m, q
<1> QED BY <1>3, <1>4, <1>6

\* From above: truncation only takes away.
LEMMA LoopAbove ==
  ASSUME Scale > 0
  PROVE  \A e \in Nat : \A r, x \in Nat :
           /\ PowLoop[<<r, x, e>>] \in Nat
           /\ PowLoop[<<r, x, e>>] * Power(Scale, e) <= r * Power(x, e)
<1> DEFINE Good(r, x, e) == /\ PowLoop[<<r, x, e>>] \in Nat
                            /\ PowLoop[<<r, x, e>>] * Power(Scale, e) <= r * Power(x, e)
           Bad == {e \in Nat : ~ \A r, x \in Nat : Good(r, x, e)}
<1> SUFFICES ASSUME Bad # {} PROVE FALSE
  OBVIOUS
<1>s. Scale \in Nat /\ Scale > 0
  BY BinMathAssumption
<1>1. PICK e \in Bad : \A m \in Bad : e <= m
  BY Least, Bad \in SUBSET Nat
<1>2. PICK r \in Nat, x \in Nat : e \in Nat /\ ~Good(r, x, e)
  BY <1>1
<1>3. e # 0
  <2>1. ASSUME e = 0 PROVE FALSE
    <3>1. PowLoop[<<r, x, e>>] = r /\ Power(Scale, e) = 1 /\ Power(x, e) = 1
      BY <1>2, <2>1, PowLoopDef, PowerDef
    <3> QED BY <1>2, <3>1
  <2> QED BY <2>1
<1>t. PICK q \in Nat, y \in Nat, m \in Nat : Turned(r, x, e, q, y, m)
  BY <1>s, <1>2, <1>3, Turn
<1>4. /\ PowLoop[<<r, x, e>>] = PowLoop[<<q, y, m>>]
      /\ m < e
      /\ y * Scale <= x * x /\ x * x < y * Scale + Scale
      /\ \/ e = 2 * m /\ q = r
         \/ e = 2 * m + 1 /\ q * Scale <= r * x /\ r * x < q * Scale + Scale
  BY <1>t DEF Turned
<1>5. Good(q, y, m)
  BY <1>1, <1>4
<1>6. PICK P \in Nat : P = PowLoop[<<r, x, e>>] /\ P * Power(Scale, m) <= q * Power(y, m)
  BY <1>4, <1>5
<1>7. PICK A \in Nat, Y \in Nat, X \in Nat :
        /\ A = Power(Scale, m) /\ Y = Power(y, m) /\ X = Power(x, 2 * m)
        /\ Power(Scale, 2 * m) = A * A
  <2>1. Power(Scale, 2 * m) = Power(Scale, m) * Power(Scale, m)
    BY <1>s, PowerSquare, PowerProduct
  <2>2. 2 * m \in Nat
    OBVIOUS
  <2> QED BY <1>s, <2>1, <2>2, PowerNat
<1>8. Y * A <= X
  <2>1. Power(y * Scale, m) <= Power(x * x, m)
    BY <1>4, <1>s, PowerMonotone, y * Scale \in Nat, x * x \in Nat
  <2> QED BY <1>s, <1>7, <2>1, PowerProduct, PowerSquare
<1>9. P * (A * A) <= q * X
  <2>1. (P * A) * A <= (q * Y) * A
    BY <1>6, <1>7, Monotone, P * A \in Nat, q * Y \in Nat
  <2>2. q * (Y * A) <= q * X
    BY <1>8, Monotone, Y * A \in Nat
  <2>3. (P * A) * A = P * (A * A) /\ (q * Y) * A = q * (Y * A)
    OBVIOUS
  <2>4. P * (A * A) \in Nat /\ q * (Y * A) \in Nat /\ q * X \in Nat
    OBVIOUS
  <2> QED BY <2>1, <2>2, <2>3, <2>4
<1>10. CASE e = 2 * m /\ q = r
  BY <1>2, <1>6, <1>7, <1>9, <1>10
<1>11. CASE e = 2 * m + 1 /\ q * Scale <= r * x
  <2>1. Power(Scale, e) = Scale * (A * A) /\ Power(x, e) = x * X
    <3>1. 2 * m \in Nat
      OBVIOUS
    <3>2. /\ Power(Scale, 2 * m + 1) = Scale * Power(Scale, 2 * m)
          /\ Power(x, 2 * m + 1) = x * Power(x, 2 * m)
      BY <3>1, PowerDef
    <3> QED BY <1>7, <1>11, <3>2
  <2>2. (P * (A * A)) * Scale <= (q * X) * Scale
    BY <1>s, <1>9, Monotone, P * (A * A) \in Nat, q * X \in Nat
  <2>3. (q * Scale) * X <= (r * x) * X
    BY <1>s, <1>11, Monotone, q * Scale \in Nat, r * x \in Nat
  <2>4. /\ (P * (A * A)) * Scale = P * (Scale * (A * A))
        /\ (q * X) * Scale = (q * Scale) * X /\ (r * x) * X = r * (x * X)
    BY <1>s
  <2>5. P * (Scale * (A * A)) \in Nat /\ (q * X) * Scale \in Nat /\ r * (x * X) \in Nat
    BY <1>s
  <2> QED BY <1>2, <1>6, <2>1, <2>2, <2>3, <2>4, <2>5
<1> QED BY <1>4, <1>10, <1>11

\* From below: a quotient of at least Scale keeps all but one part in Scale.
LEMMA Kept ==
  ASSUME NEW s \in Nat, s > 0, NEW q \in Nat, NEW t \in Nat, s * s <= t,
         q * s <= t, t < q * s + s
  PROVE  s <= q /\ t * (s - 1) <= q * (s * s)
<1>1. s <= q
  <2> SUFFICES ASSUME q < s PROVE FALSE
    OBVIOUS
  <2>1. (q + 1) * s <= s * s
    BY Monotone
  <2>2. (q + 1) * s = q * s + s
    OBVIOUS
  <2>3. q * s \in Nat /\ s * s \in Nat
    OBVIOUS
  <2> QED BY <2>1, <2>2, <2>3
<1>2. t * (s - 1) <= (q * s + s - 1) * (s - 1)
  BY Monotone, q * s + s - 1 \in Nat, s - 1 \in Nat
<1>3. (q * s + s - 1) * (s - 1) = q * (s * s) - ((q - (s - 1)) * s + (s - 1))
  OBVIOUS
<1>4. (q - (s - 1)) * s \in Nat
  BY <1>1, q - (s - 1) \in Nat
<1>5. t * (s - 1) \in Int /\ q * (s * s) \in Int /\ s - 1 \in Nat
  OBVIOUS
<1> QED BY <1>1, <1>2, <1>3, <1>4, <1>5

LEMMA LoopBelow ==
  ASSUME Scale > 0
  PROVE  \A e \in Nat : \A r, x \in Nat : r >= Scale /\ x >= Scale =>
           /\ PowLoop[<<r, x, e>>] \in Nat
           /\ PowLoop[<<r, x, e>>] >= r
           /\ r * (Power(x, e) * Power(Scale - 1, e))
                <= PowLoop[<<r, x, e>>] * Power(Scale * Scale, e)
<1> DEFINE Good(r, x, e) == /\ PowLoop[<<r, x, e>>] \in Nat
                            /\ PowLoop[<<r, x, e>>] >= r
                            /\ r * (Power(x, e) * Power(Scale - 1, e))
                                 <= PowLoop[<<r, x, e>>] * Power(Scale * Scale, e)
           Bad == {e \in Nat : ~ \A r, x \in Nat : r >= Scale /\ x >= Scale => Good(r, x, e)}
<1> SUFFICES ASSUME Bad # {} PROVE FALSE
  OBVIOUS
<1>s. Scale \in Nat /\ Scale > 0
  BY BinMathAssumption
<1>T. PICK T \in Nat : T = Scale - 1
  BY <1>s
<1>Z. PICK Z \in Nat : Z = Scale * Scale
  BY <1>s
<1>1. PICK e \in Bad : \A m \in Bad : e <= m
  BY Least, Bad \in SUBSET Nat
<1>2. PICK r \in Nat, x \in Nat : e \in Nat /\ r >= Scale /\ x >= Scale /\ ~Good(r, x, e)
  BY <1>1
<1>3. e # 0
  <2>1. ASSUME e = 0 PROVE FALSE
    <3>1. /\ PowLoop[<<r, x, e>>] = r /\ Power(Scale * Scale, e) = 1
          /\ Power(x, e) = 1 /\ Power(Scale - 1, e) = 1
      BY <1>s, <1>2, <2>1, PowLoopDef, PowerDef
    <3> QED BY <1>2, <3>1
  <2> QED BY <2>1
<1>t. PICK q \in Nat, y \in Nat, m \in Nat : Turned(r, x, e, q, y, m)
  BY <1>s, <1>2, <1>3, Turn
<1>4. /\ PowLoop[<<r, x, e>>] = PowLoop[<<q, y, m>>]
      /\ m < e
      /\ y * Scale <= x * x /\ x * x < y * Scale + Scale
      /\ \/ e = 2 * m /\ q = r
         \/ e = 2 * m + 1 /\ q * Scale <= r * x /\ r * x < q * Scale + Scale
  BY <1>t DEF Turned
<1>y. Scale <= y /\ (x * x) * T <= y * Z
  <2>1. Scale * Scale <= x * x /\ x * x \in Nat
    BY <1>s, <1>2, Monotone
  <2> QED BY <1>s, <1>T, <1>Z, <1>4, <2>1, Kept
<1>q. r <= q /\ (e = 2 * m + 1 => (r * x) * T <= q * Z)
  <2>1. CASE e = 2 * m /\ q = r
    BY <1>2, <2>1
  <2>2. CASE e = 2 * m + 1 /\ q * Scale <= r * x /\ r * x < q * Scale + Scale
    <3>1. Scale * Scale <= r * x /\ r * x \in Nat
      BY <1>s, <1>2, Monotone
    <3>2. (r * x) * T <= q * Z
      BY <1>s, <1>T, <1>Z, <2>2, <3>1, Kept
    <3>3. r * Scale <= r * x
      BY <1>s, <1>2, Monotone
    <3>4. ASSUME q < r PROVE FALSE
      <4>1. (q + 1) * Scale <= r * Scale
        BY <1>s, <3>4, Monotone
      <4>2. (q + 1) * Scale = q * Scale + Scale /\ q * Scale \in Nat /\ r * Scale \in Nat
        BY <1>s
      <4> QED BY <1>s, <2>2, <3>1, <3>3, <4>1, <4>2
    <3> QED BY <3>2, <3>4
  <2> QED BY <1>4, <2>1, <2>2
<1>5. Good(q, y, m)
  <2>1. m \notin Bad
    BY <1>1, <1>2, <1>4
  <2>2. q >= Scale /\ y >= Scale
    BY <1>s, <1>2, <1>y, <1>q
  <2> HIDE DEF Good
  <2> QED BY <2>1, <2>2
<1>6. PICK P \in Nat : /\ P = PowLoop[<<r, x, e>>] /\ P >= r
                       /\ q * (Power(y, m) * Power(T, m)) <= P * Power(Z, m)
  BY <1>T, <1>Z, <1>2, <1>4, <1>5, <1>q
<1>7. PICK V \in Nat, W \in Nat, X \in Nat, Y \in Nat :
        /\ V = Power(T, m) /\ W = Power(Z, m) /\ X = Power(x, 2 * m) /\ Y = Power(y, m)
        /\ Power(T, 2 * m) = V * V /\ Power(Z, 2 * m) = W * W
  <2>1. Power(T, 2 * m) = Power(T, m) * Power(T, m) /\ Power(Z, 2 * m) = Power(Z, m) * Power(Z, m)
    <3>1. Power(T * T, m) = Power(T, 2 * m) /\ Power(Z * Z, m) = Power(Z, 2 * m)
      BY PowerSquare
    <3>2. Power(T * T, m) = Power(T, m) * Power(T, m)
      BY PowerProduct
    <3>3. Power(Z * Z, m) = Power(Z, m) * Power(Z, m)
      BY PowerProduct
    <3> QED BY <3>1, <3>2, <3>3
  <2>2. 2 * m \in Nat
    OBVIOUS
  <2> QED BY <2>1, <2>2, PowerNat
<1>8. X * V <= Y * W
  <2>1. Power((x * x) * T, m) <= Power(y * Z, m)
    BY <1>y, PowerMonotone, (x * x) * T \in Nat, y * Z \in Nat
  <2>2. Power((x * x) * T, m) = Power(x * x, m) * Power(T, m) /\ Power(x * x, m) = Power(x, 2 * m)
    <3>1. Power((x * x) * T, m) = Power(x * x, m) * Power(T, m)
      BY PowerProduct, x * x \in Nat
    <3>2. Power(x * x, m) = Power(x, 2 * m)
      BY PowerSquare
    <3> QED BY <3>1, <3>2
  <2>3. Power(y * Z, m) = Power(y, m) * Power(Z, m)
    BY PowerProduct
  <2> QED BY <1>7, <2>1, <2>2, <2>3
<1>9. q * (X * (V * V)) <= P * (W * W)
  <2>1. (q * (Y * V)) * W <= (P * W) * W
    BY <1>6, <1>7, Monotone, q * (Y * V) \in Nat, P * W \in Nat
  <2>2. (q * V) * (X * V) <= (q * V) * (Y * W)
    BY <1>8, Monotone, q * V \in Nat, X * V \in Nat, Y * W \in Nat
  <2>3. /\ (q * V) * (X * V) = q * (X * (V * V)) /\ (q * V) * (Y * W) = (q * (Y * V)) * W
        /\ (P * W) * W = P * (W * W)
    OBVIOUS
  <2>4. q * (X * (V * V)) \in Nat /\ (q * (Y * V)) * W \in Nat /\ P * (W * W) \in Nat
    OBVIOUS
  <2> QED BY <2>1, <2>2, <2>3, <2>4
<1>n. ~(r * (Power(x, e) * Power(T, e)) <= P * Power(Z, e))
  BY <1>T, <1>Z, <1>2, <1>6
<1>10. CASE e = 2 * m /\ q = r
  BY <1>n, <1>7, <1>9, <1>10
<1>11. CASE e = 2 * m + 1
  <2>1. Power(Z, e) = Z * (W * W) /\ Power(x, e) = x * X /\ Power(T, e) = T * (V * V)
    <3>1. 2 * m \in Nat
      OBVIOUS
    <3>2. /\ Power(Z, 2 * m + 1) = Z * Power(Z, 2 * m)
          /\ Power(x, 2 * m + 1) = x * Power(x, 2 * m)
          /\ Power(T, 2 * m + 1) = T * Power(T, 2 * m)
      BY <3>1, PowerDef
    <3> QED BY <1>7, <1>11, <3>2
  <2>2. (q * (X * (V * V))) * Z <= (P * (W * W)) * Z
    BY <1>9, Monotone, q * (X * (V * V)) \in Nat, P * (W * W) \in Nat
  <2>3. ((r * x) * T) * (X * (V * V)) <= (q * Z) * (X * (V * V))
    BY <1>q, <1>11, Monotone, (r * x) * T \in Nat, q * Z \in Nat, X * (V * V) \in Nat
  <2>4. /\ ((r * x) * T) * (X * (V * V)) = r * ((x * X) * (T * (V * V)))
        /\ (q * Z) * (X * (V * V)) = (q * (X * (V * V))) * Z
        /\ (P * (W * W)) * Z = P * (Z * (W * W))
    OBVIOUS
  <2>5. /\ r * ((x * X) * (T * (V * V))) \in Nat /\ (q * (X * (V * V))) * Z \in Nat
        /\ P * (Z * (W * W)) \in Nat
    OBVIOUS
  <2> QED BY <1>n, <2>1, <2>2, <2>3, <2>4, <2>5
<1> QED BY <1>4, <1>10, <1>11

(* powQ64 is never more than the exact power, in Q64.64, and less by no     *)
(* more than one part in Scale for each factor.                            *)
THEOREM PowQ64Accurate ==
  ASSUME Scale > 0, NEW b \in Nat, b >= Scale, NEW e \in Nat
  PROVE  /\ PowQ64(b, e) \in Nat /\ PowQ64(b, e) >= Scale
         /\ PowQ64(b, e) * Power(Scale, e) <= Scale * Power(b, e)
         /\ (Scale - e) * Power(b, e) <= PowQ64(b, e) * Power(Scale, e)
<1>s. Scale \in Nat /\ Scale > 0
  BY BinMathAssumption
<1>T. PICK T \in Nat : T = Scale - 1
  BY <1>s
<1>Z. PICK Z \in Nat : Z = Scale * Scale
  BY <1>s
<1>1. PICK A \in Nat, B \in Nat, V \in Nat, W \in Nat :
        /\ A = Power(Scale, e) /\ B = Power(b, e) /\ V = Power(T, e) /\ W = Power(Z, e)
        /\ A > 0 /\ W = A * A
  <2>1. Power(Z, e) = Power(Scale, e) * Power(Scale, e)
    BY <1>s, <1>Z, PowerProduct
  <2> QED BY <1>s, <2>1, PowerNat
<1>2. PICK P \in Nat : /\ P = PowQ64(b, e) /\ P >= Scale
                       /\ P * A <= Scale * B /\ Scale * (B * V) <= P * W
  <2>1. CASE e = 0
    <3>1. A = 1 /\ B = 1 /\ V = 1 /\ W = 1 /\ PowQ64(b, e) = Scale
      BY <1>1, <2>1, PowerDef DEF PowQ64
    <3> QED BY <1>s, <3>1
  <2>2. CASE e = 1
    <3>1. \A k \in Nat : Power(k, 0 + 1) = k * 1
      BY PowerDef
    <3>2. A = Scale /\ B = b /\ V = T /\ W = Scale * Scale /\ PowQ64(b, e) = b
      BY <1>s, <1>1, <1>Z, <2>2, <3>1 DEF PowQ64
    <3>3. Scale * (b * T) <= b * (Scale * Scale)
      <4>1. (Scale * b) * T <= (Scale * b) * Scale
        BY <1>s, <1>T, Monotone, Scale * b \in Nat
      <4> QED BY <1>s, <4>1
    <3>4. b * Scale = Scale * b /\ Scale * b \in Nat
      BY <1>s
    <3> QED BY <1>s, <3>2, <3>3, <3>4
  <2>3. CASE e # 0 /\ e # 1
    <3>1. PowQ64(b, e) = PowLoop[<<Scale, b, e>>]
      BY <2>3 DEF PowQ64
    <3>2. PowQ64(b, e) \in Nat /\ PowQ64(b, e) * A <= Scale * B
      BY <1>s, <1>1, <3>1, LoopAbove
    <3>3. PowQ64(b, e) >= Scale /\ Scale * (B * V) <= PowQ64(b, e) * W
      <4>1. /\ PowLoop[<<Scale, b, e>>] >= Scale
            /\ Scale * (Power(b, e) * Power(Scale - 1, e))
                 <= PowLoop[<<Scale, b, e>>] * Power(Scale * Scale, e)
        BY <1>s, LoopBelow, Scale >= Scale
      <4> QED BY <1>1, <1>T, <1>Z, <3>1, <4>1
    <3> QED BY <3>2, <3>3
  <2> QED BY <2>1, <2>2, <2>3
<1>3. A * (Scale - e) <= V * Scale
  BY <1>s, <1>1, <1>T, Bernoulli
<1>4. (Scale - e) * B <= P * A
  <2>1. PICK d \in Nat : V * Scale = A * (Scale - e) + d
    BY <1>s, <1>3, V * Scale - A * (Scale - e) \in Nat
  <2>2. Scale * (B * V) = A * ((Scale - e) * B) + d * B
    <3>1. Scale * (B * V) = (V * Scale) * B
      BY <1>s
    <3>2. (A * (Scale - e) + d) * B = A * ((Scale - e) * B) + d * B
      BY <1>s
    <3> QED BY <2>1, <3>1, <3>2
  <2>3. P * W = A * (P * A)
    BY <1>1
  <2>4. d * B \in Nat /\ A * ((Scale - e) * B) \in Int /\ A * (P * A) \in Nat
    BY <1>s
  <2>5. A * ((Scale - e) * B) <= A * (P * A)
    BY <1>2, <2>2, <2>3, <2>4
  <2> QED BY <1>s, <1>1, <2>5, Cancel, (Scale - e) * B \in Int, P * A \in Int
<1> QED BY <1>1, <1>2, <1>4

\* Neighbouring powers differ by the base, but for a part of them for each factor.
LEMMA PowersGeometric ==
  ASSUME Scale > 0, NEW b \in Nat, b >= Scale, NEW e \in Nat, e + 1 <= Scale,
         NEW P \in Nat, P = PowQ64(b, e), NEW R \in Nat, R = PowQ64(b, e + 1)
  PROVE  /\ P >= Scale /\ R >= Scale
         /\ R * (Scale - e) <= b * P
         /\ (b * P) * (Scale - (e + 1)) <= R * (Scale * Scale)
<1>s. Scale \in Nat /\ Scale > 0 /\ e + 1 \in Nat
  BY BinMathAssumption
<1>1. PICK A \in Nat, B \in Nat :
        /\ A = Power(Scale, e) /\ B = Power(b, e) /\ A > 0
        /\ Power(Scale, e + 1) = Scale * A /\ Power(b, e + 1) = b * B
  <2>1. Power(Scale, e + 1) = Scale * Power(Scale, e) /\ Power(b, e + 1) = b * Power(b, e)
    BY PowerDef
  <2>2. Power(Scale, e) \in Nat /\ Power(Scale, e) > 0 /\ Power(b, e) \in Nat
    BY <1>s, PowerNat
  <2> QED BY <2>1, <2>2
<1>2. PICK k \in Nat, l \in Nat : k = Scale - e /\ l = Scale - (e + 1)
  BY <1>s
<1>3. P >= Scale /\ P * A <= Scale * B /\ k * B <= P * A
  BY <1>s, <1>1, <1>2, PowQ64Accurate
<1>4. R >= Scale /\ R * (Scale * A) <= Scale * (b * B) /\ l * (b * B) <= R * (Scale * A)
  BY <1>s, <1>1, <1>2, PowQ64Accurate
<1>5. R * k <= b * P
  <2>1. (R * (Scale * A)) * k <= (Scale * (b * B)) * k
    BY <1>s, <1>4, Monotone, R * (Scale * A) \in Nat, Scale * (b * B) \in Nat
  <2>2. (Scale * b) * (k * B) <= (Scale * b) * (P * A)
    <3>1. PICK n \in Nat : n = Scale * b
      BY <1>s
    <3>2. PICK i \in Nat : i = k * B
      OBVIOUS
    <3>3. PICK j \in Nat : j = P * A
      OBVIOUS
    <3>4. n * i <= n * j
      BY <1>3, <3>2, <3>3, Monotone
    <3> QED BY <3>1, <3>2, <3>3, <3>4
  <2>3. /\ (R * (Scale * A)) * k = (Scale * A) * (R * k)
        /\ (Scale * (b * B)) * k = (Scale * b) * (k * B)
        /\ (Scale * b) * (P * A) = (Scale * A) * (b * P)
    BY <1>s
  <2>4. /\ (Scale * A) * (R * k) \in Nat /\ (Scale * b) * (k * B) \in Nat
        /\ (Scale * A) * (b * P) \in Nat /\ Scale * A \in Nat /\ Scale * A > 0
    BY <1>s, <1>1
  <2>5. (Scale * A) * (R * k) <= (Scale * A) * (b * P)
    BY <2>1, <2>2, <2>3, <2>4
  <2> QED BY <2>4, <2>5, Cancel, R * k \in Int, b * P \in Int
<1>6. (b * P) * l <= R * (Scale * Scale)
  <2>1. (b * l) * (P * A) <= (b * l) * (Scale * B)
    BY <1>s, <1>3, Monotone, b * l \in Nat, P * A \in Nat, Scale * B \in Nat
  <2>2. (l * (b * B)) * Scale <= (R * (Scale * A)) * Scale
    BY <1>s, <1>4, Monotone, l * (b * B) \in Nat, R * (Scale * A) \in Nat
  <2>3. /\ (b * l) * (P * A) = A * ((b * P) * l)
        /\ (b * l) * (Scale * B) = (l * (b * B)) * Scale
        /\ (R * (Scale * A)) * Scale = A * (R * (Scale * Scale))
    BY <1>s
  <2>4. /\ A * ((b * P) * l) \in Nat /\ (l * (b * B)) * Scale \in Nat
        /\ A * (R * (Scale * Scale)) \in Nat
    BY <1>s
  <2>5. A * ((b * P) * l) <= A * (R * (Scale * Scale))
    BY <2>1, <2>2, <2>3, <2>4
  <2> QED BY <1>s, <1>1, <2>5, Cancel, (b * P) * l \in Int, R * (Scale * Scale) \in Int
<1> QED BY <1>2, <1>3, <1>4, <1>5, <1>6

\* What is at most a quotient.
LEMMA AtMostQuotient ==
  ASSUME NEW s \in Nat, s > 0, NEW n \in Int, NEW t \in Nat, s * n <= t
  PROVE  n <= t \div s
<1>1. PICK d \in Nat, k \in 0..(s - 1) : d = t \div s /\ t = s * d + k
  BY Division
<1>2. s * n < s * (d + 1)
  <2>1. s * (d + 1) = s * d + s /\ s * d \in Nat /\ s * n \in Int
    OBVIOUS
  <2> QED BY <1>1, <2>1
<1>3. n < d + 1
  <2> SUFFICES ASSUME d + 1 <= n PROVE FALSE
    OBVIOUS
  <2>1. s * (d + 1) <= s * n
    BY Monotone, d + 1 \in Nat, n \in Nat
  <2> QED BY <1>2, <2>1, s * (d + 1) \in Nat, s * n \in Int
<1> QED BY <1>1, <1>3

\* Two numbers, either of which keeps all but k parts in s of the other.
LEMMA Near ==
  ASSUME NEW s \in Nat, s > 0, NEW k \in Nat, NEW n \in Nat, NEW g \in Nat, NEW u \in Nat,
         n * (s - k) <= s * (g + u), g * (s - k) <= s * (n + u)
  PROVE  LET larger == IF n < g THEN g ELSE n
         IN Distance(n, g) <= (k * larger) \div s + u
<1>1. /\ n * (s - k) = s * n - k * n /\ g * (s - k) = s * g - k * g
      /\ s * (g + u) = s * g + s * u /\ s * (n + u) = s * n + s * u
      /\ s * (n - g - u) = s * n - s * g - s * u
      /\ s * (g - n - u) = s * g - s * n - s * u
  OBVIOUS
<1>2. /\ s * n \in Nat /\ s * g \in Nat /\ s * u \in Nat /\ k * n \in Nat /\ k * g \in Nat
      /\ n * (s - k) \in Int /\ g * (s - k) \in Int
  OBVIOUS
<1>3. CASE n < g
  <2>1. s * (g - n - u) <= k * g
    BY <1>1, <1>2
  <2>2. g - n - u <= (k * g) \div s
    BY <1>2, <2>1, AtMostQuotient, g - n - u \in Int
  <2>3. (k * g) \div s \in Nat
    BY <1>2, Division
  <2> QED BY <1>3, <2>2, <2>3 DEF Distance
<1>4. CASE ~(n < g)
  <2>1. s * (n - g - u) <= k * n
    BY <1>1, <1>2
  <2>2. n - g - u <= (k * n) \div s
    BY <1>2, <2>1, AtMostQuotient, n - g - u \in Int
  <2>3. (k * n) \div s \in Nat
    BY <1>2, Division
  <2> QED BY <1>4, <2>2, <2>3 DEF Distance
<1> QED BY <1>3, <1>4

\* The base of a bin step outweighs k truncations.
LEMMA BaseOutweighs ==
  ASSUME NEW step \in BinSteps, NEW k \in Nat, BasisPoints + (BasisPoints + 1) * k <= Scale
  PROVE  /\ Scale \in Nat /\ Scale > 0 /\ k < Scale
         /\ Base(step) \in Nat /\ Base(step) >= Scale
         /\ Scale * Scale <= Base(step) * (Scale - k)
<1>1. /\ Scale \in Nat /\ BasisPoints \in Nat /\ BasisPoints > 0
      /\ step \in Nat /\ step >= 1
  BY BinMathAssumption DEF BinSteps
<1>2. (BasisPoints + 1) * k = BasisPoints * k + k /\ BasisPoints * k \in Nat
  BY <1>1
<1>3. Scale > 0 /\ k < Scale
  BY <1>1, <1>2
<1>4. PICK d \in Nat, i \in 0..(BasisPoints - 1) :
        /\ d = (step * Scale) \div BasisPoints
        /\ step * Scale = BasisPoints * d + i
  BY <1>1, Division, step * Scale \in Nat
<1>5. Base(step) = Scale + d
  BY <1>4 DEF Base
<1>6. Scale <= BasisPoints * d + (BasisPoints - 1)
  <2>1. 1 * Scale <= step * Scale
    BY <1>1, Monotone
  <2> QED BY <1>1, <1>4, <2>1, BasisPoints * d \in Nat
<1>7. Scale * Scale <= (Scale + d) * (Scale - k)
  <2>1. PICK l \in Nat : l = Scale - k /\ l > 0
    BY <1>1, <1>3
  <2>2. Scale * l <= (BasisPoints * d + (BasisPoints - 1)) * l
    BY <1>1, <1>6, Monotone, BasisPoints * d + (BasisPoints - 1) \in Nat
  <2>3. (BasisPoints + (BasisPoints + 1) * k) * Scale <= Scale * Scale
    BY <1>1, Monotone, BasisPoints + (BasisPoints + 1) * k \in Nat
  <2>4. BasisPoints * (Scale * Scale) <= BasisPoints * ((Scale + d) * l)
    <3>1. /\ (BasisPoints * d + (BasisPoints - 1)) * l
                = BasisPoints * (d * l) + BasisPoints * l - l
          /\ (BasisPoints + (BasisPoints + 1) * k) * Scale
                = BasisPoints * Scale + BasisPoints * (k * Scale) + k * Scale
          /\ BasisPoints * ((Scale + d) * l) = BasisPoints * (Scale * l) + BasisPoints * (d * l)
      BY <1>1
    <3>2. /\ Scale * l = Scale * Scale - k * Scale
          /\ BasisPoints * (Scale * l) = BasisPoints * (Scale * Scale) - BasisPoints * (k * Scale)
          /\ BasisPoints * l = BasisPoints * Scale - BasisPoints * k
      BY <1>1, <2>1
    <3>3. /\ Scale * Scale \in Nat /\ k * Scale \in Nat /\ BasisPoints * Scale \in Nat
          /\ BasisPoints * (k * Scale) \in Nat /\ BasisPoints * (Scale * Scale) \in Nat
          /\ BasisPoints * (d * l) \in Nat /\ BasisPoints * k \in Nat
      BY <1>1
    <3>4. BasisPoints * k <= BasisPoints * Scale
      BY <1>1, <1>3, Monotone
    <3> QED BY <1>1, <2>1, <2>2, <2>3, <3>1, <3>2, <3>3, <3>4
  <2> QED BY <1>1, <2>1, <2>4, Cancel, Scale * Scale \in Int, (Scale + d) * l \in Int
<1> QED BY <1>1, <1>3, <1>5, <1>7

\* What lies between a quotient and the next number.
LEMMA Quotient ==
  ASSUME NEW n \in Nat, NEW t \in Nat, t > 0, NEW d \in Nat, d = n \div t
  PROVE  d * t <= n /\ n < (d + 1) * t
<1>1. n % t \in 0..(t - 1) /\ n = t * d + (n % t)
  BY Division
<1>2. (d + 1) * t = t * d + t /\ d * t = t * d /\ t * d \in Nat
  OBVIOUS
<1> QED BY <1>1, <1>2

\* From the middle on.
LEMMA AboveTheMiddle ==
  ASSUME NEW step \in BinSteps, NEW e \in Nat,
         BasisPoints + (BasisPoints + 1) * (e + 1) <= Scale,
         NEW b \in Nat, b = Base(step),
         NEW P \in Nat, P = PowQ64(b, e), NEW R \in Nat, R = PowQ64(b, e + 1)
  PROVE  LET larger == IF R * Scale < P * b THEN P * b ELSE R * Scale
         IN P <= R /\ Distance(R * Scale, P * b) <= ((e + 1) * larger) \div Scale + 0
<1>1. /\ Scale \in Nat /\ Scale > 0 /\ e + 1 < Scale /\ b >= Scale
      /\ Scale * Scale <= b * (Scale - (e + 1))
  BY BaseOutweighs, e + 1 \in Nat
<1>2. R * (Scale - e) <= b * P /\ (b * P) * (Scale - (e + 1)) <= R * (Scale * Scale)
  BY <1>1, PowersGeometric
<1>3. PICK l \in Nat : l = Scale - (e + 1)
  BY <1>1
<1>4. P <= R
  <2>1. (Scale * Scale) * P <= (b * l) * P
    BY <1>1, <1>3, Monotone, Scale * Scale \in Nat, b * l \in Nat
  <2>2. (b * l) * P = (b * P) * l /\ R * (Scale * Scale) = (Scale * Scale) * R
    BY <1>1
  <2>3. /\ (Scale * Scale) * P \in Nat /\ (b * P) * l \in Nat /\ (Scale * Scale) * R \in Nat
        /\ Scale * Scale \in Nat /\ Scale * Scale > 0
    BY <1>1
  <2>4. (Scale * Scale) * P <= (Scale * Scale) * R
    BY <1>2, <1>3, <2>1, <2>2, <2>3
  <2> QED BY <2>3, <2>4, Cancel
<1>5. (R * Scale) * l <= Scale * (P * b + 0)
  <2>1. (R * l) * Scale <= (b * P) * Scale
    <3>1. R * l <= R * (Scale - e)
      BY <1>1, <1>3, Monotone, Scale - e \in Nat
    <3>2. R * l \in Nat /\ b * P \in Nat /\ R * (Scale - e) \in Int
      BY <1>1
    <3>3. R * l <= b * P
      BY <1>2, <3>1, <3>2
    <3> QED BY <1>1, <3>2, <3>3, Monotone
  <2>2. (R * l) * Scale = (R * Scale) * l /\ (b * P) * Scale = Scale * (P * b + 0)
    BY <1>1
  <2> QED BY <2>1, <2>2
<1>6. (P * b) * l <= Scale * (R * Scale + 0)
  <2>1. (b * P) * l = (P * b) * l /\ R * (Scale * Scale) = Scale * (R * Scale + 0)
    BY <1>1
  <2> QED BY <1>2, <1>3, <2>1
<1> QED BY <1>1, <1>3, <1>4, <1>5, <1>6, Near, R * Scale \in Nat, P * b \in Nat, e + 1 \in Nat

\* Below it, where the prices are the quotients of Scale * Scale.
LEMMA BelowTheMiddle ==
  ASSUME NEW step \in BinSteps, NEW e \in Nat,
         BasisPoints + (BasisPoints + 1) * (e + 1) <= Scale,
         NEW b \in Nat, b = Base(step),
         NEW P \in Nat, P = PowQ64(b, e), NEW R \in Nat, R = PowQ64(b, e + 1),
         NEW N \in Nat, N = (Scale * Scale) \div P, NEW L \in Nat, L = (Scale * Scale) \div R
  PROVE  LET larger == IF N * Scale < L * b THEN L * b ELSE N * Scale
         IN L <= N /\ Distance(N * Scale, L * b) <= ((e + 1) * larger) \div Scale + b
<1>1. /\ Scale \in Nat /\ Scale > 0 /\ e + 1 < Scale /\ b >= Scale
  BY BaseOutweighs, e + 1 \in Nat
<1>2. /\ P >= Scale /\ R >= Scale
      /\ R * (Scale - e) <= b * P /\ (b * P) * (Scale - (e + 1)) <= R * (Scale * Scale)
  BY <1>1, PowersGeometric
<1>3. PICK l \in Nat : l = Scale - (e + 1)
  BY <1>1
<1>4. PICK Z \in Nat : Z = Scale * Scale
  BY <1>1
<1>5. P <= R
  BY AboveTheMiddle
<1>6. N * P <= Z /\ Z < (N + 1) * P
  BY <1>1, <1>2, <1>4, Quotient, P > 0
<1>7. L * R <= Z /\ Z < (L + 1) * R
  BY <1>1, <1>2, <1>4, Quotient, R > 0
<1>8. L <= N
  <2> SUFFICES ASSUME N + 1 <= L PROVE FALSE
    OBVIOUS
  <2>1. (N + 1) * P <= L * R
    BY <1>5, Monotone, N + 1 \in Nat
  <2> QED BY <1>6, <1>7, <2>1, (N + 1) * P \in Nat, L * R \in Nat
<1>9. (N * Scale) * l <= Scale * (L * b + b)
  <2>1. R * l <= b * P
    <3>1. R * l <= R * (Scale - e)
      BY <1>1, <1>3, Monotone, Scale - e \in Nat
    <3> QED BY <1>1, <1>2, <3>1, R * l \in Nat, b * P \in Nat, R * (Scale - e) \in Int
  <2>2. (R * l) * N <= (b * P) * N
    BY <2>1, Monotone, R * l \in Nat, b * P \in Nat
  <2>3. (N * P) * b <= ((L + 1) * R) * b
    BY <1>6, <1>7, Monotone, N * P \in Nat, (L + 1) * R \in Nat
  <2>4. R * (N * l) <= R * ((L + 1) * b)
    <3>1. /\ (R * l) * N = R * (N * l) /\ (b * P) * N = (N * P) * b
          /\ ((L + 1) * R) * b = R * ((L + 1) * b)
      OBVIOUS
    <3>2. R * (N * l) \in Nat /\ (N * P) * b \in Nat /\ R * ((L + 1) * b) \in Nat
      OBVIOUS
    <3> QED BY <2>2, <2>3, <3>1, <3>2
  <2>5. N * l <= (L + 1) * b
    BY <1>1, <1>2, <2>4, Cancel, N * l \in Int, (L + 1) * b \in Int
  <2>6. (N * l) * Scale <= ((L + 1) * b) * Scale
    BY <1>1, <2>5, Monotone, N * l \in Nat, (L + 1) * b \in Nat
  <2>7. (N * l) * Scale = (N * Scale) * l /\ ((L + 1) * b) * Scale = Scale * (L * b + b)
    BY <1>1
  <2> QED BY <2>6, <2>7
<1>10. (L * b) * l <= Scale * (N * Scale + b)
  <2>1. ((b * P) * l) * L <= (R * Z) * L
    BY <1>2, <1>3, <1>4, Monotone, (b * P) * l \in Nat, R * Z \in Nat
  <2>2. (L * R) * Z <= ((N + 1) * P) * Z
    BY <1>6, <1>7, Monotone, L * R \in Nat, (N + 1) * P \in Nat
  <2>3. P * ((L * b) * l) <= P * ((N + 1) * Z)
    <3>1. /\ ((b * P) * l) * L = P * ((L * b) * l) /\ (R * Z) * L = (L * R) * Z
          /\ ((N + 1) * P) * Z = P * ((N + 1) * Z)
      OBVIOUS
    <3>2. P * ((L * b) * l) \in Nat /\ (L * R) * Z \in Nat /\ P * ((N + 1) * Z) \in Nat
      OBVIOUS
    <3> QED BY <2>1, <2>2, <3>1, <3>2
  <2>4. (L * b) * l <= (N + 1) * Z
    BY <1>1, <1>2, <2>3, Cancel, (L * b) * l \in Int, (N + 1) * Z \in Int
  <2>5. (N + 1) * Z = Scale * (N * Scale) + Scale * Scale
    BY <1>1, <1>4
  <2>6. Scale * Scale <= Scale * b
    BY <1>1, Monotone
  <2>7. Scale * (N * Scale + b) = Scale * (N * Scale) + Scale * b
    BY <1>1
  <2>8. /\ (L * b) * l \in Nat /\ Scale * (N * Scale) \in Nat /\ Scale * Scale \in Nat
        /\ Scale * b \in Nat
    BY <1>1
  <2> QED BY <2>4, <2>5, <2>6, <2>7, <2>8
<1> QED BY <1>1, <1>3, <1>8, <1>9, <1>10, Near, N * Scale \in Nat, L * b \in Nat, e + 1 \in Nat

\* The price k bins above the middle, and k below.
LEMMA PriceDef ==
  ASSUME NEW step, NEW k \in Nat, NEW id \in Int
  PROVE  /\ id - MiddleBinId = k => PriceQ64(step, id) = PowQ64(Base(step), k)
         /\ MiddleBinId - id = k /\ k # 0 =>
              PriceQ64(step, id) = (Scale * Scale) \div PowQ64(Base(step), k)
<1>1. MiddleBinId \in Nat
  BY BinMathAssumption
<1>2. CASE id - MiddleBinId = k /\ k = 0
  BY <1>1, <1>2 DEF PriceQ64, PowQ64
<1>3. CASE id - MiddleBinId = k /\ k # 0
  BY <1>1, <1>3 DEF PriceQ64
<1>4. CASE MiddleBinId - id = k /\ k # 0
  <2>1. id - MiddleBinId # 0 /\ ~(id - MiddleBinId > 0) /\ id - MiddleBinId < 0
        /\ -(id - MiddleBinId) = k
    BY <1>1, <1>4
  <2> QED BY <1>1, <1>4, <2>1 DEF PriceQ64
<1> QED BY <1>1, <1>2, <1>3, <1>4

\* The Q64.64 prices of an id and of the next one.
Geometric(step, id) ==
  LET Price(i) == PriceQ64(step, i)
      next == Price(id + 1) * Scale
      grown == Price(id) * Base(step)
      larger == IF next < grown THEN grown ELSE next
      unit == IF id < MiddleBinId THEN Base(step) ELSE 0
  IN /\ Price(MiddleBinId) = Scale
     /\ Price(id) <= Price(id + 1)
     /\ Price(id) \in Nat /\ Price(id + 1) \in Nat
     /\ Distance(next, grown) <= (Reach(id) * larger) \div Scale + unit

LEMMA PriceSteps ==
  ASSUME NEW step \in BinSteps, NEW id \in Nat,
         BasisPoints + (BasisPoints + 1) * Reach(id) <= Scale
  PROVE  Geometric(step, id)
<1> DEFINE b == Base(step)
           m == Reach(id)
           e == m - 1
           P == PowQ64(b, e)
           R == PowQ64(b, m)
<1>1. /\ step \in BinSteps /\ id \in Nat /\ MiddleBinId \in Nat
      /\ m \in Nat /\ e \in Nat /\ e + 1 = m /\ BasisPoints + (BasisPoints + 1) * m <= Scale
  <2>1. Reach(id) \in Nat /\ Reach(id) > 0 /\ MiddleBinId \in Nat
    BY BinMathAssumption DEF Reach
  <2> HIDE DEF m
  <2>2. m - 1 \in Nat /\ (m - 1) + 1 = m
    BY <2>1 DEF m
  <2> QED BY <2>1, <2>2 DEF m
<1>2. Scale \in Nat /\ Scale > 0 /\ b \in Nat /\ b >= Scale
  BY <1>1, BaseOutweighs
<1> DEFINE Price(i) == PriceQ64(step, i)
<1>p. P \in Nat /\ R \in Nat /\ P >= Scale /\ R >= Scale
  BY <1>1, <1>2, PowQ64Accurate
<1>3. Price(MiddleBinId) = Scale
  BY <1>1 DEF PriceQ64
<1>4. CASE id >= MiddleBinId
  <2>1. Price(id) = P /\ Price(id + 1) = R
    <3>1. e = id - MiddleBinId /\ m = id + 1 - MiddleBinId /\ m > 0
      BY <1>1, <1>4 DEF Reach
    <3>2. id \in Int /\ id + 1 \in Int
      BY <1>1
    <3> HIDE DEF b, m, e
    <3> QED BY <1>1, <3>1, <3>2, PriceDef DEF b
  <2>2. ~(id < MiddleBinId)
    BY <1>1, <1>4
  <2> HIDE DEF b, m, e, P, R
  <2>3. LET larger == IF R * Scale < P * b THEN P * b ELSE R * Scale
        IN P <= R /\ Distance(R * Scale, P * b) <= (m * larger) \div Scale + 0
    BY <1>1, <1>2, <1>p, AboveTheMiddle DEF b, P, R
  <2> QED BY <1>3, <1>p, <2>1, <2>2, <2>3 DEF Geometric, b, m
<1>5. CASE id < MiddleBinId
  <2> DEFINE N == (Scale * Scale) \div P
             L == (Scale * Scale) \div R
  <2>1. Price(id) = L /\ Price(id + 1) = N
    <3>1. m = MiddleBinId - id /\ e = MiddleBinId - (id + 1)
      BY <1>1, <1>5 DEF Reach
    <3>i. id \in Int /\ id + 1 \in Int
      BY <1>1
    <3>m. m # 0
      BY <1>1
    <3>0. P = IF e = 0 THEN Scale ELSE P
      BY DEF PowQ64
    <3>s. (Scale * Scale) \div Scale = Scale
      BY <1>2
    <3>o. id + 1 - MiddleBinId = 0 <=> e = 0
      BY <1>1, <3>1
    <3> HIDE DEF b, m, e
    <3>2. Price(id) = L
      BY <1>1, <3>1, <3>i, <3>m, PriceDef DEF b
    <3>3. CASE e = 0
      <4>1. Price(id + 1) = P
        BY <1>1, <3>1, <3>3, <3>i, <3>o, PriceDef DEF b
      <4> HIDE DEF P
      <4> QED BY <3>2, <3>3, <3>0, <3>s, <4>1
    <3>4. CASE e # 0
      <4>1. Price(id + 1) = N
        BY <1>1, <3>1, <3>4, <3>i, PriceDef DEF b
      <4> QED BY <3>2, <4>1
    <3> QED BY <3>3, <3>4
  <2>2. N \in Nat /\ L \in Nat
    BY <1>2, <1>p, Division, Scale * Scale \in Nat, P > 0, R > 0
  <2> HIDE DEF b, m, e, P, R, N, L
  <2>3. LET larger == IF N * Scale < L * b THEN L * b ELSE N * Scale
        IN L <= N /\ Distance(N * Scale, L * b) <= (m * larger) \div Scale + b
    BY <1>1, <1>2, <1>p, <2>2, BelowTheMiddle DEF b, P, R, N, L
  <2> QED BY <1>3, <1>5, <2>1, <2>2, <2>3 DEF Geometric, b, m
<1> QED BY <1>1, <1>4, <1>5

-----------------------------------------------------------------------------
(* Prices as doubles *)

\* A number counted in units above 1 has all the bits of a double.
LEMMA UnitAtLeast ==
  \A n \in Nat : Unit[n] # 1 => Unit[n] * Two[Mantissa] <= 2 * n
<1> DEFINE P == Two[Mantissa]
           Bad == {n \in Nat : ~(Unit[n] # 1 => Unit[n] * P <= 2 * n)}
<1> SUFFICES ASSUME Bad # {} PROVE FALSE
  OBVIOUS
<1>0. P \in Nat /\ P >= 1
  BY BinMathAssumption, TwoNat
<1>1. PICK n \in Bad : \A m \in Bad : n <= m
  BY Least, Bad \in SUBSET Nat
<1>u. \A m \in Nat : Unit[m] = IF m < P THEN 1 ELSE 2 * Unit[m \div 2]
  BY BinMathAssumption, UnitDef
<1> HIDE DEF P
<1>2. ~(n < P)
  BY <1>1, <1>u
<1>3. n \div 2 \in Nat /\ n \div 2 < n /\ 2 * (n \div 2) <= n /\ Unit[n] = 2 * Unit[n \div 2]
  BY <1>0, <1>1, <1>2, <1>u
<1>4. CASE Unit[n \div 2] = 1
  BY <1>0, <1>1, <1>2, <1>3, <1>4
<1>5. CASE Unit[n \div 2] # 1
  <2>1. Unit[n \div 2] * P <= 2 * (n \div 2)
    BY <1>1, <1>3, <1>5
  <2>2. Unit[n \div 2] \in Nat
    BY <1>3, UnitNat
  <2>3. (2 * Unit[n \div 2]) * P = 2 * (Unit[n \div 2] * P) /\ Unit[n \div 2] * P \in Nat
    BY <1>0, <2>2
  <2> QED BY <1>1, <1>3, <2>1, <2>3
<1> QED BY <1>4, <1>5

\* Nor does rounding take one of them away.
LEMMA NearestAtLeast ==
  ASSUME NEW n \in Nat, Unit[n] # 1
  PROVE  Unit[n] * Two[Mantissa] <= 2 * Nearest(n)
<1> DEFINE P == Two[Mantissa]
           u == Unit[n]
<1>1. PICK h \in Nat : P = 4 * h /\ h > 0
  BY EvenBits
<1>2. u \in Nat /\ u > 0
  BY UnitNat
<1>3. u * P <= 2 * n
  BY UnitAtLeast
<1>4. PICK j \in 0..P : Nearest(n) = j * u /\ 2 * Distance(Nearest(n), n) <= u
  BY NearestOwnUnit
<1> HIDE DEF u, P
<1>5. /\ j \in Nat /\ u * P = 4 * (h * u) /\ h * u \in Nat /\ j * u \in Nat
      /\ (2 * h) * u = 2 * (h * u)
  BY <1>1, <1>2
<1>6. j >= 2 * h
  <2> SUFFICES ASSUME j + 1 <= 2 * h PROVE FALSE
    BY <1>1, <1>5
  <2>1. (j + 1) * u <= (2 * h) * u
    <3>1. 2 * h - (j + 1) \in Nat
      BY <1>1, <1>5
    <3>2. (2 * h - (j + 1)) * u \in Nat
      BY <1>2, <3>1
    <3>3. (2 * h - (j + 1)) * u = (2 * h) * u - (j + 1) * u
      BY <1>1, <1>2, <1>5
    <3>4. (j + 1) * u \in Nat /\ (2 * h) * u \in Nat
      BY <1>2, <1>5
    <3> QED BY <3>2, <3>3, <3>4
  <2>2. (j + 1) * u = j * u + u
    BY <1>2, <1>5
  <2>3. j * u + u <= n
    BY <1>2, <1>3, <1>5, <2>1, <2>2
  <2> QED BY <1>2, <1>4, <1>5, <2>3 DEF Distance
<1>7. (2 * h) * u <= j * u
  <2>1. (j - 2 * h) * u \in Nat /\ (j - 2 * h) * u = j * u - (2 * h) * u
    BY <1>1, <1>2, <1>5, <1>6
  <2> QED BY <1>5, <2>1
<1> QED BY <1>4, <1>5, <1>7 DEF u, P

\* Rounding to a double does not make its last bit smaller.
LEMMA UnitOfNearest ==
  ASSUME NEW n \in Nat
  PROVE  Nearest(n) \in Nat /\ Unit[n] <= Unit[Nearest(n)]
<1> DEFINE P == Two[Mantissa]
           v == Nearest(n)
           u == Unit[n]
           w == Unit[v]
<1>1. v \in Nat
  <2>1. n <= Bound(n)
    BY BelowUnit, BinMathAssumption, TwoNat, UnitNat DEF Bound
  <2> QED BY <2>1, NearestClose
<1>2. u \in Nat /\ u > 0 /\ w \in Nat /\ w > 0 /\ P \in Nat /\ P > 0
  BY <1>1, BinMathAssumption, UnitNat, TwoNat
<1> SUFFICES ASSUME w < u PROVE FALSE
  BY <1>1, <1>2
<1>3. u * P <= 2 * v
  BY <1>2, NearestAtLeast
<1>4. v < w * P
  BY <1>1, BelowUnit
<1>5. v < u * P
  <2> HIDE DEF u, v, w, P
  <2>1. (u - w) * P \in Nat /\ (u - w) * P = u * P - w * P /\ u * P \in Nat /\ w * P \in Nat
    BY <1>2
  <2> QED BY <1>1, <1>4, <2>1
<1>6. PICK c \in Nat : c > 0 /\ u = c * w
  BY <1>1, <1>5, UnitDivides
<1> HIDE DEF u, v, w, P
<1>7. c # 1
  BY <1>2, <1>6
<1>8. (2 * w) * P <= u * P
  <2>1. (c - 2) * w \in Nat /\ (c - 2) * w = c * w - 2 * w
    BY <1>2, <1>6, <1>7
  <2>2. u - 2 * w \in Nat
    BY <1>2, <1>6, <2>1
  <2>3. (u - 2 * w) * P \in Nat /\ (u - 2 * w) * P = u * P - (2 * w) * P
    BY <1>2, <2>2
  <2> QED BY <1>2, <2>3, u * P \in Nat, (2 * w) * P \in Nat
<1>9. (2 * w) * P = 2 * (w * P) /\ w * P \in Nat /\ u * P \in Nat
  BY <1>2
<1> QED BY <1>1, <1>3, <1>4, <1>8, <1>9

\* A double is in order with the doubles of larger numbers.
LEMMA NearestMonotone ==
  ASSUME NEW a \in Nat, NEW b \in Nat, a <= b
  PROVE  Nearest(a) <= Nearest(b)
<1> DEFINE P == Two[Mantissa]
           u == Unit[a]
           w == Unit[b]
<1>1. u \in Nat /\ u > 0 /\ w \in Nat /\ w > 0 /\ P \in Nat /\ P > 0
  BY BinMathAssumption, UnitNat, TwoNat
<1>2. a < u * P /\ b < w * P /\ a < w * P
  BY BelowUnit, <1>1
<1>3. PICK c \in Nat : c > 0 /\ w = c * u
  BY <1>2, UnitDivides
<1>4. PICK i \in 0..P : Nearest(a) = i * u /\ 2 * Distance(Nearest(a), a) <= u
  BY NearestOwnUnit
<1>5. PICK j \in 0..P : Nearest(b) = j * w /\ 2 * Distance(Nearest(b), b) <= w
  BY NearestOwnUnit
<1>6. Nearest(b) \in Nat /\ Nearest(a) \in Nat
  BY UnitOfNearest
<1>7. CASE c = 1
  <2>1. w = u
    BY <1>1, <1>3, <1>7
  <2> HIDE DEF u, w, P
  <2> SUFFICES ASSUME i * u > j * u PROVE FALSE
    BY <1>4, <1>5, <1>6, <2>1
  <2>2. i \in Nat /\ j \in Nat /\ i * u \in Nat /\ j * u \in Nat
    BY <1>1
  <2>3. i > j
    <3> SUFFICES ASSUME i <= j PROVE FALSE
      BY <2>2
    <3>1. (j - i) * u \in Nat /\ (j - i) * u = j * u - i * u
      BY <1>1, <2>2
    <3> QED BY <2>2, <3>1
  <2>4. i * u >= j * u + u
    <3>1. (i - j - 1) * u \in Nat /\ (i - j - 1) * u = i * u - j * u - u
      BY <1>1, <2>2, <2>3
    <3> QED BY <1>1, <2>2, <3>1
  <2>5. a = b
    BY <1>1, <1>4, <1>5, <2>1, <2>2, <2>4 DEF Distance
  <2> QED BY <1>4, <1>5, <2>1, <2>2, <2>5
<1>8. CASE c # 1
  <2>1. Nearest(a) <= u * P
    <3>1. a <= Bound(a)
      BY <1>1, <1>2 DEF Bound
    <3> QED BY <3>1, NearestClose DEF Bound
  <2>2. w >= 2 * u
    <3> HIDE DEF u, w
    <3>1. (c - 2) * u \in Nat /\ (c - 2) * u = c * u - 2 * u
      BY <1>1, <1>3, <1>8
    <3> QED BY <1>1, <1>3, <3>1
  <2>3. w * P <= 2 * Nearest(b)
    BY <1>1, <2>2, NearestAtLeast
  <2> HIDE DEF u, w, P
  <2>4. 2 * (u * P) <= w * P
    <3>1. (w - 2 * u) * P \in Nat /\ (w - 2 * u) * P = w * P - 2 * (u * P)
      BY <1>1, <2>2
    <3> QED BY <1>1, <3>1, w * P \in Nat, u * P \in Nat
  <2> QED BY <1>1, <1>6, <2>1, <2>3, <2>4, w * P \in Nat, u * P \in Nat
<1> QED BY <1>7, <1>8

\* A power of two is a double.
LEMMA NearestTwo == \A n \in Nat : Nearest(Two[n]) = Two[n]
<1> DEFINE P == Two[Mantissa]
           Own(n) == \E m \in Nat : Two[n] = m * Unit[Two[n]]
           Bad == {n \in Nat : ~Own(n)}
<1>1. \A n \in Nat : Own(n)
  <2> SUFFICES ASSUME Bad # {} PROVE FALSE
    OBVIOUS
  <2>1. PICK n \in Bad : \A m \in Bad : n <= m
    BY Least, Bad \in SUBSET Nat
  <2>2. Two[n] \in Nat /\ Unit[Two[n]] = IF Two[n] < P THEN 1 ELSE 2 * Unit[Two[n] \div 2]
    BY <2>1, BinMathAssumption, TwoNat, UnitDef
  <2>3. CASE Two[n] < P
    <3>1. Two[n] = Two[n] * Unit[Two[n]]
      BY <2>2, <2>3
    <3> QED BY <2>1, <2>2, <3>1
  <2>4. CASE ~(Two[n] < P)
    <3>1. P \in Nat /\ P > 1
      <4>1. PICK h \in Nat : P = 4 * h /\ h > 0
        BY EvenBits
      <4> QED BY <4>1
    <3>2. n # 0
      BY <2>4, <3>1, TwoDef
    <3>3. n - 1 \in Nat /\ Two[n] = 2 * Two[n - 1]
      BY <2>1, <3>2, TwoDef
    <3>4. Two[n - 1] \in Nat
      BY <3>3, TwoNat
    <3>5. Two[n] \div 2 = Two[n - 1]
      <4> HIDE DEF P
      <4> QED BY <3>3, <3>4
    <3>6. PICK m \in Nat : Two[n - 1] = m * Unit[Two[n - 1]]
      BY <2>1, <3>3
    <3>7. Unit[Two[n - 1]] \in Nat
      BY <3>4, UnitNat
    <3>8. Two[n] = m * Unit[Two[n]]
      <4>1. Unit[Two[n]] = 2 * Unit[Two[n - 1]]
        BY <2>2, <2>4, <3>5
      <4>2. \A x \in Nat : 2 * (m * x) = m * (2 * x)
        OBVIOUS
      <4> QED BY <3>3, <3>6, <3>7, <4>1, <4>2
    <3> QED BY <2>1, <3>8
  <2> QED BY <2>3, <2>4
<1> QED BY <1>1, TwoNat, NearestMultiple

\* Two numbers that are near stay near when their factors are rounded.
LEMMA NearRounded ==
  ASSUME NEW q \in Nat, NEW p \in Nat, NEW s \in Nat, s > 0, NEW b \in Nat,
         NEW m \in Nat, m <= s, NEW unit \in Nat,
         LET larger == IF q * s < p * b THEN p * b ELSE q * s
         IN Distance(q * s, p * b) <= (m * larger) \div s + unit
  PROVE  LET next == Nearest(q) * s
             grown == Nearest(p) * b
             larger == IF next < grown THEN grown ELSE next
         IN Distance(next, grown) <= (m * larger) \div s + unit
                                     + (Unit[Nearest(q)] * s + Unit[Nearest(p)] * b)
<1> DEFINE x == q * s
           y == p * b
           X == Nearest(q) * s
           Y == Nearest(p) * b
           l == IF x < y THEN y ELSE x
           L == IF X < Y THEN Y ELSE X
           Ux == Unit[Nearest(q)] * s
           Uy == Unit[Nearest(p)] * b
<1>1. /\ x \in Nat /\ y \in Nat /\ X \in Nat /\ Y \in Nat
      /\ Ux \in Nat /\ Uy \in Nat
  BY UnitOfNearest, UnitNat
<1>2. ASSUME NEW n \in Nat, NEW f \in Nat
      PROVE  2 * Distance(Nearest(n) * f, n * f) <= Unit[Nearest(n)] * f
  <2>1. /\ Nearest(n) \in Nat /\ Unit[n] <= Unit[Nearest(n)]
        /\ Unit[n] \in Nat /\ Unit[Nearest(n)] \in Nat
    BY UnitOfNearest, UnitNat
  <2>2. 2 * Distance(Nearest(n), n) <= Unit[n]
    BY NearestOwnUnit
  <2>3. PICK d \in Nat : d = Distance(Nearest(n), n)
    BY <2>1 DEF Distance
  <2>4. Distance(Nearest(n) * f, n * f) = d * f
    <3>1. CASE Nearest(n) < n
      <4>1. d = n - Nearest(n)
        BY <2>3, <3>1 DEF Distance
      <4>2. d * f = n * f - Nearest(n) * f /\ d * f \in Nat
        BY <2>1, <4>1
      <4> QED BY <2>1, <4>2, n * f \in Nat, Nearest(n) * f \in Nat DEF Distance
    <3>2. CASE ~(Nearest(n) < n)
      <4>1. d = Nearest(n) - n
        BY <2>3, <3>2 DEF Distance
      <4>2. d * f = Nearest(n) * f - n * f /\ d * f \in Nat
        BY <2>1, <4>1
      <4> QED BY <2>1, <4>2, n * f \in Nat, Nearest(n) * f \in Nat DEF Distance
    <3> QED BY <3>1, <3>2
  <2>5. PICK w \in Nat : w = Unit[Nearest(n)]
    BY <2>1
  <2>6. 2 * d <= w
    BY <2>1, <2>2, <2>3, <2>5
  <2>7. 2 * (d * f) <= w * f
    <3>1. (w - 2 * d) * f \in Nat /\ (w - 2 * d) * f = w * f - 2 * (d * f)
      BY <2>6
    <3> QED BY <3>1, w * f \in Nat, d * f \in Nat
  <2> QED BY <2>4, <2>5, <2>7
<1>3. 2 * Distance(X, x) <= Ux /\ 2 * Distance(Y, y) <= Uy
  BY <1>2
<1>4. Distance(x, y) <= (m * l) \div s + unit
  OBVIOUS
<1> HIDE DEF x, y, X, Y, Ux, Uy
<1>5. PICK h \in Nat : h = Distance(X, x) + Distance(Y, y)
  BY <1>1 DEF Distance
<1>6. 2 * h <= Ux + Uy
  BY <1>1, <1>3, <1>5 DEF Distance
<1>7. l \in Nat /\ L \in Nat /\ l <= L + h /\ Distance(X, Y) <= Distance(x, y) + h
  BY <1>1, <1>5 DEF Distance
<1>8. Distance(X, Y) \in Nat /\ Distance(x, y) \in Nat
  BY <1>1 DEF Distance
<1> HIDE DEF l, L
<1>9. PICK d \in Nat, r \in 0..(s - 1) : d = (m * l) \div s /\ m * l = s * d + r
  BY <1>7, Division, m * l \in Nat
<1>10. d - h <= (m * L) \div s
  <2>1. m * l <= m * L + m * h
    <3>1. m * (L + h - l) \in Nat /\ m * (L + h - l) = m * L + m * h - m * l
      BY <1>7
    <3> QED BY <1>7, <3>1, m * l \in Nat, m * L \in Nat, m * h \in Nat
  <2>2. m * h <= s * h
    <3>1. (s - m) * h \in Nat /\ (s - m) * h = s * h - m * h
      OBVIOUS
    <3> QED BY <3>1, m * h \in Nat, s * h \in Nat
  <2>3. s * (d - h) = s * d - s * h
    OBVIOUS
  <2>4. s * d \in Nat /\ s * h \in Nat /\ m * l \in Nat /\ m * L \in Nat /\ m * h \in Nat
    BY <1>7
  <2>5. s * (d - h) <= m * L
    BY <1>9, <2>1, <2>2, <2>3, <2>4
  <2> QED BY <2>4, <2>5, AtMostQuotient, d - h \in Int
<1>11. PICK k \in Nat : k = (m * L) \div s
  BY <1>7, Division, m * L \in Nat
<1>12. Distance(X, Y) <= k + unit + (Ux + Uy)
  BY <1>1, <1>4, <1>6, <1>7, <1>8, <1>9, <1>10, <1>11
<1> QED BY <1>11, <1>12 DEF X, Y, L, Ux, Uy

\* What getPriceFromId returns is the double nearest to the Q64.64 price.
LEMMA Returned ==
  ASSUME NEW step, NEW id, PriceQ64(step, id) \in Nat
  PROVE  PriceFromId(step, id) = Nearest(PriceQ64(step, id))
<1>1. CASE id = MiddleBinId
  <2>1. PriceQ64(step, id) = Scale /\ PriceFromId(step, id) = Scale
    BY <1>1, BinMathAssumption DEF PriceQ64, PriceFromId
  <2>2. Nearest(Scale) = Scale
    BY BinMathAssumption, NearestTwo, 0..Scale \subseteq Nat
  <2> QED BY <2>1, <2>2
<1>2. CASE id # MiddleBinId
  BY <1>2 DEF PriceFromId, Double
<1> QED BY <1>1, <1>2

\* The prices of an id and of the next one, as they are returned.
GeometricDoubles(step, id) ==
  LET Price(i) == PriceFromId(step, i)
      next == Price(id + 1) * Scale
      grown == Price(id) * Base(step)
      larger == IF next < grown THEN grown ELSE next
      unit == IF id < MiddleBinId THEN Base(step) ELSE 0
      lastBits == Unit[Price(id + 1)] * Scale + Unit[Price(id)] * Base(step)
  IN /\ Price(MiddleBinId) = Scale
     /\ Price(id) <= Price(id + 1)
     /\ Price(id) \in Nat
     /\ Distance(next, grown) <= (Reach(id) * larger) \div Scale + unit + lastBits

LEMMA DoubleSteps ==
  ASSUME NEW step \in BinSteps, NEW id \in Nat,
         BasisPoints + (BasisPoints + 1) * Reach(id) <= Scale
  PROVE  GeometricDoubles(step, id)
<1> DEFINE m == Reach(id)
           p == PriceQ64(step, id)
           q == PriceQ64(step, id + 1)
           b == Base(step)
           unit == IF id < MiddleBinId THEN b ELSE 0
<1>1. /\ p <= q /\ p \in Nat
      /\ LET larger == IF q * Scale < p * b THEN p * b ELSE q * Scale
         IN Distance(q * Scale, p * b) <= (m * larger) \div Scale + unit
  BY PriceSteps DEF Geometric
<1>2. m \in Nat /\ BasisPoints \in Nat \ {0} /\ Scale \in Nat
  BY BinMathAssumption DEF Reach
<1>3. m <= Scale /\ Scale > 0 /\ b \in Nat /\ unit \in Nat
  <2>1. Scale > 0 /\ b \in Nat
    BY <1>2, BaseOutweighs
  <2> HIDE DEF m
  <2>2. m <= Scale
    <3>1. (BasisPoints + 1) * m >= m /\ (BasisPoints + 1) * m \in Nat
      <4>1. (BasisPoints + 1) * m = BasisPoints * m + m /\ BasisPoints * m \in Nat
        BY <1>2
      <4> QED BY <1>2, <4>1
    <3> QED BY <1>2, <3>1 DEF m
  <2> QED BY <2>1, <2>2
<1>4. q \in Nat
  BY PriceSteps DEF Geometric
<1>5. PriceFromId(step, id) = Nearest(p) /\ PriceFromId(step, id + 1) = Nearest(q)
  BY <1>1, <1>4, Returned
<1>6. Nearest(p) <= Nearest(q) /\ Nearest(p) \in Nat
  BY <1>1, <1>4, NearestMonotone, UnitOfNearest
<1>7. PriceFromId(step, MiddleBinId) = Scale
  BY DEF PriceFromId
<1> HIDE DEF p, q, b, m, unit
<1>8. LET next == Nearest(q) * Scale
          grown == Nearest(p) * b
          larger == IF next < grown THEN grown ELSE next
      IN Distance(next, grown) <= (m * larger) \div Scale + unit
                                  + (Unit[Nearest(q)] * Scale + Unit[Nearest(p)] * b)
  BY <1>1, <1>2, <1>3, <1>4, NearRounded
<1> QED BY <1>5, <1>6, <1>7, <1>8 DEF GeometricDoubles, b, m, unit

LEMMA PriceOfCall ==
  ASSUME call \in Calls
  PROVE  PricesGeometric
<1> SUFFICES ASSUME call \in [kind : {"price"}, binStep : BinSteps, id : Ids]
             PROVE  PricesGeometric
  BY DEF Calls, PricesGeometric, OfPrice
<1>1. call.binStep \in BinSteps /\ call.id \in Ids
  OBVIOUS
<1>2. call.id \in Nat /\ BasisPoints + (BasisPoints + 1) * Reach(call.id) <= Scale
  BY <1>1, BinMathAssumption
<1>3. GeometricDoubles(call.binStep, call.id)
  BY <1>1, <1>2, DoubleSteps
<1> QED BY <1>3 DEF PricesGeometric, GeometricDoubles

(* Whatever the scale, the bin step and the id, as long as the steps from   *)
(* the middle are few for the scale: prices are in the order of their ids, *)
(* and neighbours are a bin step apart but for the parts truncated and     *)
(* the last bits of the doubles that are returned.                         *)
THEOREM PricesGeometricAlways == CallSpec => []PricesGeometric
<1>1. call = NoCall => PricesGeometric
  BY DEF NoCall, PricesGeometric, OfPrice
<1> QED BY <1>1, PriceOfCall, CallInv, PTL

(* The prices of all bins of a pair are in the order of their ids: neither  *)
(* the truncations and the rounding to doubles nor the turn from quotients *)
(* to products at the middle put two of them out of order.                 *)
THEOREM PricesOrdered ==
  ASSUME NEW step \in BinSteps, NEW a \in Nat, NEW b \in Nat, a <= b,
         \A id \in a..b : BasisPoints + (BasisPoints + 1) * Reach(id) <= Scale
  PROVE  PriceFromId(step, a) <= PriceFromId(step, b)
<1> DEFINE Bad == {n \in Nat : n \in a..b /\ ~(PriceFromId(step, a) <= PriceFromId(step, n))}
<1> SUFFICES ASSUME Bad # {} PROVE FALSE
  OBVIOUS
<1>1. \A id \in a..b : GeometricDoubles(step, id)
  BY DoubleSteps, \A id \in a..b : id \in Nat
<1>2. \A id \in a..b : /\ PriceFromId(step, id) \in Nat
                       /\ PriceFromId(step, id) <= PriceFromId(step, id + 1)
  BY <1>1 DEF GeometricDoubles
<1>3. PICK n \in Bad : \A m \in Bad : n <= m
  BY Least, Bad \in SUBSET Nat
<1>4. PriceFromId(step, a) \in Nat /\ a \in a..b
  BY <1>2
<1>5. n # a
  BY <1>3, <1>4
<1>6. n - 1 \in a..b /\ n \in a..b /\ n - 1 \notin Bad /\ (n - 1) + 1 = n
  BY <1>3, <1>5
<1>7. PriceFromId(step, a) <= PriceFromId(step, n - 1)
  BY <1>6
<1>8. PriceFromId(step, n - 1) <= PriceFromId(step, n) /\ PriceFromId(step, n - 1) \in Nat
      /\ PriceFromId(step, n) \in Nat
  BY <1>2, <1>6
<1> QED BY <1>3, <1>4, <1>7, <1>8

(* The search ends in spite of a chain that grows.  Left is the number of   *)
(* requests ahead, unless one fails: every request makes it less, and once *)
(* the first page is had, what is signed does not add to it.               *)
Newest == IF before = 0 THEN signatures ELSE before - 1

Left ==
  CASE pc = "account"     -> 3 + signatures \div Limit
    [] pc = "page"        -> 2 + Newest \div Limit
    [] pc = "transaction" -> 1
    [] pc = "done"        -> 0

SearchShrinks ==
  [][/\ Request => Left' < Left
     /\ (Sign \/ Close) /\ before # 0 => Left' = Left]_vars

NoPage == pc = "account" => before = 0

LEMMA FullPage ==
  ASSUME NEW n \in Nat, NEW t \in Nat, t > 0, t <= n
  PROVE  (n - t) \div t < n \div t /\ (n - t) \div t \in Nat /\ n \div t \in Nat
<1>1. PICK c \in Nat, d \in Nat : c = (n - t) \div t /\ d = n \div t
  BY Division, n - t \in Nat
<1>2. c * t <= n - t /\ n < (d + 1) * t
  BY <1>1, Quotient, n - t \in Nat
<1>3. (c + 1) * t = c * t + t /\ c * t \in Nat
  OBVIOUS
<1>4. ASSUME d <= c PROVE FALSE
  <2>1. (d + 1) * t <= (c + 1) * t
    BY <1>4, Monotone
  <2> QED BY <1>2, <1>3, <2>1, (d + 1) * t \in Nat
<1> QED BY <1>1, <1>4

LEMMA RequestShrinks ==
  ASSUME IInv, NoPage, Request
  PROVE  Left' < Left
<1>l. Limit \in Nat /\ Limit > 0
  BY AccountOwnerAssumption
<1>0. signatures \in Nat /\ signatures \div Limit \in Nat
  BY <1>l, AccountOwnerAssumption, Division DEF IInv, TypeOK
<1>1. CASE GetTokenAccount
  <2>1. pc = "account" /\ before = 0 /\ before' = before /\ signatures' = signatures
    BY <1>1 DEF GetTokenAccount, NoPage, chain
  <2>2. pc' = "done" \/ pc' = "page"
    BY <1>1 DEF GetTokenAccount, Answer
  <2>3. Left = 3 + signatures \div Limit /\ Newest' = signatures
    BY <2>1 DEF Left, Newest
  <2>4. Left' = 0 \/ Left' = 2 + Newest' \div Limit
    BY <2>2 DEF Left
  <2> QED BY <1>0, <2>3, <2>4
<1>2. CASE GetPage
  <2> DEFINE count == IF Newest < Limit THEN Newest ELSE Limit
  <2>1. /\ pc = "page" /\ signatures' = signatures
        /\ oldest' = (IF count = 0 THEN oldest ELSE Newest - count + 1)
        /\ before' = (IF count = Limit THEN oldest' ELSE before)
        /\ IF count = Limit THEN pc' = pc ELSE pc' \in {"done", "transaction"}
    BY <1>2 DEF GetPage, Newest, chain, Answer
  <2>2. Newest \in Nat
    BY <1>0, AccountOwnerAssumption DEF Newest, IInv, TypeOK
  <2>3. Newest \div Limit \in Nat /\ Left = 2 + Newest \div Limit
    BY <1>l, <2>1, <2>2, Division DEF Left
  <2>4. CASE count = Limit
    <3>1. Limit <= Newest /\ before' = Newest - Limit + 1 /\ pc' = "page"
      BY <1>l, <2>1, <2>2, <2>4
    <3>2. Newest' = Newest - Limit
      BY <1>l, <2>2, <3>1 DEF Newest
    <3>3. Left' = 2 + Newest' \div Limit
      BY <3>1 DEF Left
    <3> QED BY <1>l, <2>2, <2>3, <3>1, <3>2, <3>3, FullPage
  <2>5. CASE count # Limit
    <3>1. Left' = 0 \/ Left' = 1
      BY <2>1, <2>5 DEF Left
    <3> QED BY <2>3, <3>1
  <2> QED BY <2>4, <2>5
<1>3. CASE GetTransaction
  BY <1>3 DEF GetTransaction, Answer, Left
<1> QED BY <1>1, <1>2, <1>3 DEF Request

LEMMA NoPageInv == Spec => []NoPage
<1>1. Init => NoPage
  BY DEF Init, NoPage
<1>2. IInv /\ NoPage /\ [Next]_vars => NoPage'
  BY DEF IInv, TypeOK, NoPage, Next, Sign, Close, Request, GetTokenAccount, GetPage,
         GetTransaction, RequestFails, Answer, chain, vars
<1> QED BY <1>1, <1>2, Invariance, PTL DEF Spec

(* However the chain grows: what a search has ahead of it shrinks with      *)
(* every request, to nothing, and only failed requests begin it anew.      *)
THEOREM SearchEnds == Spec => SearchShrinks
<1>1. (Sign \/ Close) /\ before # 0 /\ IInv /\ NoPage => Left' = Left
  BY DEF Sign, Close, Left, Newest, NoPage, IInv, TypeOK
<1>2. IInv /\ NoPage /\ [Next]_vars =>
        [/\ Request => Left' < Left
         /\ (Sign \/ Close) /\ before # 0 => Left' = Left]_vars
  BY <1>1, RequestShrinks
<1> QED BY <1>2, Invariance, NoPageInv, PTL DEF Spec, SearchShrinks
=============================================================================
