---------------------------- MODULE HelperProofs ----------------------------
(***************************************************************************)
(* What the operators the models share return: rounding and positions      *)
(* (PageArithmetic), sorting in one step (RowOrder), the pages of a table  *)
(* and the locations of its rows (Storage), and the sums over finite sets  *)
(* and the lists of the library.                                           *)
(*                                                                         *)
(* The provers cannot instantiate an induction over an operator; the       *)
(* inductions here are over a set instead, of the numbers or of the        *)
(* finite sets for which something holds.                                  *)
(***************************************************************************)
EXTENDS Storage, FiniteSetTheorems, SequenceTheorems, WellFoundedInduction, TLAPS

-----------------------------------------------------------------------------
(* Rounding up.                                                            *)

LEMMA TimesMonotonic ==
  ASSUME NEW a \in Int, NEW b \in Int, NEW c \in Nat, a <= b
  PROVE  c * a <= c * b
  BY SMT

LEMMA CancelTimes ==
  ASSUME NEW c \in Nat \ {0}, NEW a \in Int, NEW b \in Int, c * a < c * b
  PROVE  a < b
<1>1. b <= a => c * b <= c * a
  BY TimesMonotonic
<1>2. c * a \in Int /\ c * b \in Int
  BY SMT
<1> QED BY <1>1, <1>2

(* CeilDiv(a, b) is the least number of groups of b that hold a.           *)
LEMMA CeilDivBounds ==
  ASSUME NEW a \in Nat, NEW b \in Nat \ {0}
  PROVE  /\ CeilDiv(a, b) \in Nat
         /\ b * (CeilDiv(a, b) - 1) < a
         /\ a <= b * CeilDiv(a, b)
<1> DEFINE n == a + b - 1
           q == n \div b
<1>1. n \in Nat /\ q \in Nat
  BY SMT
<1>2. n = (b * q) + (n % b) /\ n % b \in 0 .. b-1
  BY SMT
<1>3. b * (q - 1) = (b * q) - b /\ b * q \in Nat
  BY <1>1, SMT
<1> HIDE DEF q
<1>4. (b * q) - b < a /\ a <= b * q
  BY <1>1, <1>2, <1>3
<1> QED BY <1>1, <1>3, <1>4 DEF CeilDiv, q

LEMMA CeilDivIs ==
  ASSUME NEW a \in Nat, NEW b \in Nat \ {0}, NEW q \in Nat,
         b * (q - 1) < a, a <= b * q
  PROVE  CeilDiv(a, b) = q
<1> DEFINE c == CeilDiv(a, b)
<1>1. c \in Nat /\ b * (c - 1) < a /\ a <= b * c
  BY CeilDivBounds
<1> HIDE DEF c
<1>2. /\ b * (c - 1) \in Int /\ b * c \in Int
      /\ b * (q - 1) \in Int /\ b * q \in Int
  BY <1>1, SMT
<1>3. b * (c - 1) < b * q /\ b * (q - 1) < b * c
  BY <1>1, <1>2
<1>4. c - 1 < q /\ q - 1 < c
  BY <1>1, <1>3, CancelTimes
<1> QED BY <1>1, <1>4 DEF c

(* Rows to pages and pages to groups of pages round up to what rows to     *)
(* groups of rows do.                                                      *)
LEMMA CeilDivTwice ==
  ASSUME NEW a \in Nat, NEW b \in Nat \ {0}, NEW c \in Nat \ {0}
  PROVE  CeilDiv(CeilDiv(a, b), c) = CeilDiv(a, c * b)
<1> DEFINE p == CeilDiv(a, b)
           q == CeilDiv(p, c)
<1>1. p \in Nat /\ b * (p - 1) < a /\ a <= b * p
  BY CeilDivBounds
<1> HIDE DEF p
<1>2. q \in Nat /\ c * (q - 1) < p /\ p <= c * q
  BY <1>1, CeilDivBounds
<1> HIDE DEF q
<1>3. c * b \in Nat \ {0} /\ c * q \in Nat /\ c * (q - 1) \in Int
  BY <1>2, SMT
<1>4. (c * b) * (q - 1) = b * (c * (q - 1)) /\ (c * b) * q = b * (c * q)
  BY <1>2, SMT
<1>5. c * (q - 1) <= p - 1
  BY <1>1, <1>2, <1>3
<1>6. b * (c * (q - 1)) <= b * (p - 1) /\ b * p <= b * (c * q)
  BY <1>1, <1>2, <1>3, <1>5, TimesMonotonic
<1>7. /\ b * (c * (q - 1)) \in Int /\ b * (c * q) \in Int
      /\ b * (p - 1) \in Int /\ b * p \in Int
  BY <1>1, <1>3, SMT
<1>8. (c * b) * (q - 1) < a /\ a <= (c * b) * q
  BY <1>1, <1>4, <1>6, <1>7
<1> QED BY <1>2, <1>3, <1>8, CeilDivIs DEF p, q

(* The number n - 1 in the place-value notation of a rows by w columns.    *)
LEMMA RowAndColumn ==
  ASSUME NEW a \in Nat, NEW w \in Nat \ {0}, NEW n \in 1 .. a * w
  PROVE  /\ (n - 1) \div w \in 0 .. a - 1
         /\ (n - 1) % w \in 0 .. w - 1
         /\ n = w * ((n - 1) \div w) + ((n - 1) % w) + 1
<1> DEFINE k == n - 1
           q == k \div w
           r == k % w
<1>1. a * w \in Nat
  BY SMT
<1>2. k \in Nat /\ k < a * w
  BY <1>1
<1>3. q \in Nat /\ r \in 0 .. w - 1 /\ k = (w * q) + r
  BY <1>2, SMT
<1> HIDE DEF q, r
<1>4. w * q \in Nat /\ w * a = a * w /\ w * a \in Nat
  BY <1>3, SMT
<1>5. w * q < w * a
  BY <1>2, <1>3, <1>4
<1>6. q < a
  BY <1>3, <1>5, CancelTimes
<1> QED BY <1>2, <1>3, <1>4, <1>6 DEF q, r

LEMMA PlaceOfRowAndColumn ==
  ASSUME NEW a \in Nat, NEW w \in Nat \ {0}, NEW x \in 0 .. a - 1, NEW y \in 0 .. w - 1
  PROVE  LET n == w * x + y + 1
         IN  /\ n \in 1 .. a * w
             /\ (n - 1) \div w = x
             /\ (n - 1) % w = y
<1> DEFINE b == w * x
           n == b + y + 1
<1>1. x \in Nat /\ y \in Nat /\ y < w
  OBVIOUS
<1>2. b \in Nat /\ w * (x + 1) = b + w /\ w * a = a * w /\ a * w \in Nat
  BY <1>1, SMT
<1>3. w * (x + 1) <= w * a
  BY <1>1, TimesMonotonic
<1>4. (b + y) \div w = x /\ (b + y) % w = y
  BY <1>1, SMT
<1> HIDE DEF b
<1>5. n \in 1 .. a * w
  BY <1>1, <1>2, <1>3
<1>6. n - 1 = b + y
  BY <1>1, <1>2
<1> HIDE DEF n
<1>7. n \in 1 .. a * w /\ (n - 1) \div w = x /\ (n - 1) % w = y
  BY <1>4, <1>5, <1>6
<1> QED BY <1>7 DEF n, b

(* Row n of rows laid out with w on a page.                                *)
PlaceOf(n, w) == <<1 + ((n - 1) \div w), 1 + ((n - 1) % w)>>

(* Later rows come on later pages, or later on the same page.              *)
LEMMA PlacesInOrder ==
  ASSUME NEW w \in Nat \ {0}, NEW m \in Nat \ {0}, NEW n \in Nat \ {0}, m < n
  PROVE  LET l == PlaceOf(m, w)
             k == PlaceOf(n, w)
         IN  l[1] < k[1] \/ (l[1] = k[1] /\ l[2] < k[2])
<1> DEFINE p == (m - 1) \div w
           x == (m - 1) % w
           q == (n - 1) \div w
           y == (n - 1) % w
<1>1. /\ p \in Nat /\ x \in 0 .. w - 1 /\ m - 1 = (w * p) + x
      /\ q \in Nat /\ y \in 0 .. w - 1 /\ n - 1 = (w * q) + y
  BY SMT
<1>2. /\ PlaceOf(m, w)[1] = 1 + p /\ PlaceOf(m, w)[2] = 1 + x
      /\ PlaceOf(n, w)[1] = 1 + q /\ PlaceOf(n, w)[2] = 1 + y
  BY DEF PlaceOf
<1> HIDE DEF p, q, x, y
<1>3. CASE q < p
  <2>1. w * (q + 1) <= w * p
    BY <1>1, <1>3, TimesMonotonic
  <2>2. w * (q + 1) = (w * q) + w /\ w * q \in Nat /\ w * p \in Nat
    BY <1>1, SMT
  <2> QED BY <1>1, <2>1, <2>2
<1>4. CASE p = q
  <2>1. w * p \in Nat
    BY <1>1, SMT
  <2> QED BY <1>1, <1>2, <1>4, <2>1
<1>5. CASE p < q
  BY <1>1, <1>2, <1>5
<1> QED BY <1>1, <1>3, <1>4, <1>5

LEMMA LeastElement ==
  ASSUME NEW T \in SUBSET Nat, T # {}
  PROVE  \E x \in T : \A y \in T : x <= y
<1>1. PICK x \in T : \A y \in T : <<y, x>> \notin OpToRel(<, Nat)
  BY NatLessThanWellFounded, WFMin
<1>2. ASSUME NEW y \in T  PROVE x <= y
  <2>1. <<y, x>> \notin {ss \in Nat \X Nat : ss[1] < ss[2]}
    BY <1>1 DEF OpToRel
  <2>2. ~(y < x) /\ x \in Nat /\ y \in Nat
    BY <2>1
  <2> QED BY <2>2
<1> QED BY <1>2

-----------------------------------------------------------------------------
(* Sorting in one step.                                                    *)

IsTotalOrder(order, S) ==
  /\ \A x \in S : <<x, x>> \notin order
  /\ \A x, y \in S : x = y \/ <<x, y>> \in order \/ <<y, x>> \in order
  /\ \A x, y, z \in S : <<x, y>> \in order /\ <<y, z>> \in order => <<x, z>> \in order

(* What is before x is a proper part of what is before anything after x,   *)
(* so that different elements have different numbers of others before them *)
(* and each number below the count is that of one element.                 *)
LEMMA ArrangedInOrder ==
  ASSUME NEW S, IsFiniteSet(S), NEW order, IsTotalOrder(order, S)
  PROVE  LET s == Arranged(S, order)
         IN  /\ Cardinality(S) \in Nat
             /\ s \in [1 .. Cardinality(S) -> S]
             /\ IsInjective(s)
             /\ Range(s) = S
             /\ \A m, n \in 1 .. Cardinality(S) : m < n => <<s[m], s[n]>> \in order
<1> DEFINE s == Arranged(S, order)
           N == Cardinality(S)
           before == [x \in S |-> {y \in S : <<y, x>> \in order}]
           rank == [x \in S |-> Cardinality({y \in S : <<y, x>> \in order})]
<1>1. N \in Nat
  BY FS_CardinalityType
<1> HIDE DEF N
<1>2. ASSUME NEW x \in S
      PROVE  IsFiniteSet(before[x]) /\ rank[x] \in 0 .. N - 1
  <2>1. before[x] \in SUBSET S /\ x \notin before[x]
    BY DEF IsTotalOrder
  <2>2. IsFiniteSet(before[x]) /\ Cardinality(before[x]) <= N
        /\ (N = Cardinality(before[x]) => S = before[x])
    BY <2>1, FS_Subset DEF N
  <2>3. Cardinality(before[x]) \in Nat
    BY <2>2, FS_CardinalityType
  <2>4. Cardinality(before[x]) # N
    BY <2>1, <2>2
  <2>5. rank[x] = Cardinality(before[x])
    OBVIOUS
  <2> HIDE DEF before, rank
  <2>6. rank[x] \in Nat /\ rank[x] <= N /\ rank[x] # N
    BY <2>2, <2>3, <2>4, <2>5
  <2> QED BY <1>1, <2>2, <2>6
<1>3. ASSUME NEW x \in S, NEW y \in S, <<x, y>> \in order
      PROVE  rank[x] < rank[y]
  <2>1. before[x] \in SUBSET before[y] /\ x \in before[y] /\ x \notin before[x]
    BY <1>3 DEF IsTotalOrder
  <2>2. IsFiniteSet(before[y]) /\ rank[x] \in 0 .. N - 1 /\ rank[y] \in 0 .. N - 1
    BY <1>2
  <2>3. Cardinality(before[x]) <= Cardinality(before[y])
        /\ (Cardinality(before[y]) = Cardinality(before[x]) => before[y] = before[x])
    BY <2>1, <2>2, FS_Subset
  <2>4. rank[x] = Cardinality(before[x]) /\ rank[y] = Cardinality(before[y])
    OBVIOUS
  <2> HIDE DEF before, rank
  <2> QED BY <1>1, <2>1, <2>2, <2>3, <2>4
<1>4. rank \in Injection(S, 0 .. N - 1)
  <2>1. rank \in [S -> 0 .. N - 1]
    BY <1>2
  <2> HIDE DEF rank
  <2>2. ASSUME NEW x \in S, NEW y \in S, x # y  PROVE rank[x] # rank[y]
    <3>1. <<x, y>> \in order \/ <<y, x>> \in order
      BY <2>2 DEF IsTotalOrder
    <3>2. rank[x] < rank[y] \/ rank[y] < rank[x]
      BY <1>3, <3>1
    <3>3. rank[x] \in 0 .. N - 1 /\ rank[y] \in 0 .. N - 1
      BY <2>1
    <3> QED BY <1>1, <3>2, <3>3
  <2> QED BY <2>1, <2>2 DEF Injection, IsInjective
<1>5. rank \in Surjection(S, 0 .. N - 1)
  <2>1. IsFiniteSet(0 .. N - 1) /\ Cardinality(0 .. N - 1) = N
    <3>1. IsFiniteSet(0 .. N - 1)
          /\ Cardinality(0 .. N - 1) = IF 0 > N - 1 THEN 0 ELSE (N - 1) - 0 + 1
      BY <1>1, FS_Interval
    <3> QED BY <1>1, <3>1
  <2> HIDE DEF rank
  <2>2. Cardinality(S) = Cardinality(0 .. N - 1)
    BY <2>1 DEF N
  <2> QED BY <1>4, <2>1, <2>2, FS_Injection
<1>6. ASSUME NEW n \in 1 .. N
      PROVE  s[n] \in S /\ rank[s[n]] = n - 1
  <2>1. n - 1 \in 0 .. N - 1
    BY <1>1
  <2>2. \E x \in S : rank[x] = n - 1
    BY <1>5, <2>1 DEF Surjection
  <2>3. s[n] = CHOOSE x \in S : rank[x] = n - 1
    BY DEF Arranged, N
  <2> HIDE DEF rank, s
  <2> QED BY <2>2, <2>3
<1>7. s \in [1 .. N -> S]
  <2> DEFINE pick(n) == CHOOSE x \in S : rank[x] = n - 1
  <2>1. s = [n \in 1 .. N |-> pick(n)]
    BY DEF Arranged, N
  <2> HIDE DEF s, pick
  <2> QED BY <1>6, <2>1
<1> HIDE DEF rank, s
<1>8. ASSUME NEW m \in 1 .. N, NEW n \in 1 .. N, m < n
      PROVE  <<s[m], s[n]>> \in order
  <2>1. s[m] \in S /\ s[n] \in S /\ rank[s[m]] = m - 1 /\ rank[s[n]] = n - 1
    BY <1>6
  <2>2. s[m] # s[n] /\ ~(rank[s[n]] < rank[s[m]])
    BY <1>1, <1>8, <2>1
  <2> QED BY <1>3, <2>1, <2>2 DEF IsTotalOrder
<1>9. IsInjective(s)
  <2>1. \A m, n \in 1 .. N : s[m] = s[n] => m - 1 = n - 1
    BY <1>6
  <2>2. \A m, n \in 1 .. N : m - 1 = n - 1 => m = n
    BY <1>1
  <2> QED BY <1>7, <2>1, <2>2 DEF IsInjective
<1>10. Range(s) = S
  <2>1. ASSUME NEW x \in S  PROVE x \in Range(s)
    <3>1. rank[x] \in 0 .. N - 1
      BY <1>2
    <3>2. rank[x] + 1 \in 1 .. N
      BY <1>1, <3>1
    <3>3. s[rank[x] + 1] \in S /\ rank[s[rank[x] + 1]] = (rank[x] + 1) - 1
      BY <1>6, <3>2
    <3>4. rank[s[rank[x] + 1]] = rank[x]
      BY <3>1, <3>3
    <3>5. s[rank[x] + 1] = x
      BY <1>4, <3>3, <3>4 DEF Injection, IsInjective
    <3> QED BY <1>7, <3>2, <3>5 DEF Range
  <2> QED BY <1>7, <2>1 DEF Range
<1> QED BY <1>1, <1>7, <1>8, <1>9, <1>10 DEF s, N

(* There is one way only to put the elements of a set in order.            *)
LEMMA ArrangedIs ==
  ASSUME NEW S, NEW order, IsTotalOrder(order, S),
         NEW N \in Nat, NEW s \in [1 .. N -> S], Range(s) = S,
         \A m, n \in 1 .. N : m < n => <<s[m], s[n]>> \in order
  PROVE  /\ s = Arranged(S, order)
         /\ IsFiniteSet(S) /\ Cardinality(S) = N
<1> DEFINE before(x) == {y \in S : <<y, x>> \in order}
<1>1. \A m, n \in 1 .. N : <<s[m], s[n]>> \in order => m < n
  <2> SUFFICES ASSUME NEW m \in 1 .. N, NEW n \in 1 .. N,
                      <<s[m], s[n]>> \in order, ~(m < n)
               PROVE  FALSE
    OBVIOUS
  <2>1. s[m] \in S /\ s[n] \in S
    OBVIOUS
  <2>2. m = n \/ n < m
    OBVIOUS
  <2>3. m = n => FALSE
    BY <2>1 DEF IsTotalOrder
  <2>4. n < m => FALSE
    BY <2>1 DEF IsTotalOrder
  <2> QED BY <2>2, <2>3, <2>4
<1>2. \A m, n \in 1 .. N : s[m] = s[n] => m = n
  <2> SUFFICES ASSUME NEW m \in 1 .. N, NEW n \in 1 .. N, s[m] = s[n], m # n
               PROVE  FALSE
    OBVIOUS
  <2>1. m < n \/ n < m
    OBVIOUS
  <2>2. s[m] \in S /\ s[n] \in S
    OBVIOUS
  <2>3. <<s[m], s[n]>> \in order \/ <<s[n], s[m]>> \in order
    BY <2>1
  <2> QED BY <2>2, <2>3 DEF IsTotalOrder
<1>3. ASSUME NEW k \in 0 .. N, NEW T, T = {s[m] : m \in 1 .. k}
      PROVE  IsFiniteSet(T) /\ Cardinality(T) = k
  <2> DEFINE t == [m \in 1 .. k |-> s[m]]
  <2>1. t \in Bijection(1 .. k, T)
    <3>1. t \in [1 .. k -> T] /\ \A y \in T : \E m \in 1 .. k : t[m] = y
      BY <1>3
    <3>2. \A m, n \in 1 .. k : t[m] = t[n] => m = n
      <4>1. \A m \in 1 .. k : m \in 1 .. N
        OBVIOUS
      <4> QED BY <1>2, <4>1
    <3> HIDE DEF t
    <3> QED BY <3>1, <3>2 DEF Bijection, Injection, Surjection, IsInjective
  <2>2. ExistsBijection(1 .. k, T)
    BY <2>1 DEF ExistsBijection
  <2>3. IsFiniteSet(1 .. k) /\ Cardinality(1 .. k) = k
    <3>1. 1 \in Int /\ k \in Int /\ (1 > k => k = 0)
      OBVIOUS
    <3>2. IsFiniteSet(1 .. k) /\ Cardinality(1 .. k) = IF 1 > k THEN 0 ELSE k - 1 + 1
      BY <3>1, FS_Interval
    <3> QED BY <3>1, <3>2
  <2> QED BY <2>2, <2>3, FS_Bijection
<1>4. IsFiniteSet(S) /\ Cardinality(S) = N
  <2>1. S = {s[m] : m \in 1 .. N}
    BY DEF Range
  <2> QED BY <1>3, <2>1
<1>5. ASSUME NEW n \in 1 .. N
      PROVE  Cardinality(before(s[n])) = n - 1
  <2>1. before(s[n]) = {s[m] : m \in 1 .. n - 1}
    <3>1. ASSUME NEW y \in before(s[n])  PROVE \E m \in 1 .. n - 1 : y = s[m]
      <4>1. PICK m \in 1 .. N : y = s[m]
        BY <3>1 DEF Range
      <4>2. m < n
        BY <1>1, <3>1, <4>1
      <4> QED BY <4>1, <4>2
    <3>2. ASSUME NEW m \in 1 .. n - 1  PROVE s[m] \in before(s[n])
      <4>1. m \in 1 .. N /\ m < n
        OBVIOUS
      <4> QED BY <4>1
    <3> HIDE DEF before
    <3> QED BY <3>1, <3>2
  <2>2. n - 1 \in 0 .. N
    OBVIOUS
  <2> HIDE DEF before
  <2> QED BY <1>3, <2>1, <2>2
<1> DEFINE rank == [x \in S |-> Cardinality({y \in S : <<y, x>> \in order})]
<1>6. ASSUME NEW n \in 1 .. N
      PROVE  s[n] = CHOOSE x \in S : rank[x] = n - 1
  <2>1. \A x \in S : rank[x] = Cardinality(before(x))
    OBVIOUS
  <2> HIDE DEF rank
  <2>2. s[n] \in S /\ rank[s[n]] = n - 1
    BY <1>5, <2>1
  <2>3. ASSUME NEW x \in S, rank[x] = n - 1
        PROVE  x = s[n]
    <3>1. PICK m \in 1 .. N : x = s[m]
      BY DEF Range
    <3> HIDE DEF before
    <3>2. s[m] \in S /\ rank[s[m]] = m - 1
      BY <1>5, <2>1
    <3>3. m - 1 = n - 1
      BY <2>3, <3>1, <3>2
    <3>4. m = n
      BY <3>3
    <3> QED BY <3>1, <3>4
  <2> HIDE DEF before
  <2> QED BY <2>2, <2>3
<1>7. s = [n \in 1 .. N |-> s[n]]
  OBVIOUS
<1>8. Arranged(S, order) = [n \in 1 .. N |-> CHOOSE x \in S : rank[x] = n - 1]
  BY <1>4 DEF Arranged
<1> HIDE DEF rank
<1>9. Arranged(S, order) = [n \in 1 .. N |-> s[n]]
  BY <1>6, <1>8
<1> QED BY <1>4, <1>7, <1>9

-----------------------------------------------------------------------------
(* Sorting rows by their keys, in one step.                                *)
LEMMA KeyBeforeTransitive ==
  ASSUME NEW k, NEW i \in Int, NEW j \in Int, NEW l \in Int,
         k[i] \in Int, k[j] \in Int, k[l] \in Int,
         KeyBefore(k, i, j), KeyBefore(k, j, l)
  PROVE  KeyBefore(k, i, l)
BY DEF KeyBefore

LEMMA KeyOrderIsTotal ==
  ASSUME NEW k \in Seq(Int), NEW rows \in SUBSET (DOMAIN k)
  PROVE  IsTotalOrder(KeyOrder(k, rows), rows)
<1>1. /\ \A x \in rows : x \in Int /\ k[x] \in Int
  BY LenProperties, ElementOfSeq
<1>2. \A x, y \in rows : <<x, y>> \in KeyOrder(k, rows) <=> KeyBefore(k, x, y)
  BY DEF KeyOrder
<1>3. \A x \in rows : ~KeyBefore(k, x, x)
  BY <1>1 DEF KeyBefore
<1>4. \A x, y \in rows : x = y \/ KeyBefore(k, x, y) \/ KeyBefore(k, y, x)
  BY <1>1 DEF KeyBefore
<1>5. \A x, y, z \in rows : KeyBefore(k, x, y) /\ KeyBefore(k, y, z) => KeyBefore(k, x, z)
  BY <1>1, KeyBeforeTransitive
<1> QED BY <1>2, <1>3, <1>4, <1>5 DEF IsTotalOrder

KeyOrdered(k, list) == \A x, y \in DOMAIN list : x < y => KeyBefore(k, list[x], list[y])

(* A slice of the input that is sorted has its rows, each once, in order.  *)
LEMMA SortedRows ==
  ASSUME NEW k \in Seq(Int), NEW first \in Nat \ {0}, NEW last \in 0 .. Len(k)
  PROVE  LET s == Sorted(k, first .. last)
         IN  /\ s \in Seq(Nat)
             /\ Len(s) = IF first > last THEN 0 ELSE last - first + 1
             /\ IsInjective(s)
             /\ Range(s) = first .. last
             /\ KeyOrdered(k, s)
<1> DEFINE S == first .. last
           order == KeyOrder(k, S)
           s == Arranged(S, order)
           N == Cardinality(S)
<1>1. Len(k) \in Nat /\ DOMAIN k = 1 .. Len(k)
  BY LenProperties
<1>2. S \in SUBSET (DOMAIN k) /\ S \subseteq Nat
  BY <1>1
<1>3. IsFiniteSet(S) /\ N = IF first > last THEN 0 ELSE last - first + 1
  <2>1. first \in Int /\ last \in Int
    BY <1>1
  <2> QED BY <2>1, FS_Interval
<1>4. IsTotalOrder(order, S)
  BY <1>2, KeyOrderIsTotal
<1> HIDE DEF order
<1>5. /\ N \in Nat /\ s \in [1 .. N -> S] /\ IsInjective(s) /\ Range(s) = S
      /\ \A m, n \in 1 .. N : m < n => <<s[m], s[n]>> \in order
  BY <1>3, <1>4, ArrangedInOrder
<1> HIDE DEF s, N
<1>6. s \in Seq(Nat) /\ Len(s) = N /\ DOMAIN s = 1 .. N
  <2>1. s \in [1 .. N -> Nat]
    BY <1>2, <1>5
  <2> QED BY <1>5, <2>1
<1>7. KeyOrdered(k, s)
  BY <1>5, <1>6 DEF KeyOrdered, order, KeyOrder
<1> QED BY <1>3, <1>5, <1>6, <1>7 DEF Sorted, s, order

(* The image of a finite set under a function.                             *)
LEMMA FiniteImage ==
  ASSUME NEW S, IsFiniteSet(S), NEW f
  PROVE  /\ IsFiniteSet({f[x] : x \in S})
         /\ Cardinality({f[x] : x \in S}) <= Cardinality(S)
<1> DEFINE T == {f[x] : x \in S}
           g == [x \in S |-> f[x]]
<1>1. g \in Surjection(S, T)
  BY DEF Surjection
<1> HIDE DEF g, T
<1>2. IsFiniteSet(T) /\ Cardinality(T) <= Cardinality(S)
  BY <1>1, FS_Surjection
<1> QED BY <1>2 DEF T

-----------------------------------------------------------------------------
(* Induction, with a set in place of the formula.                          *)
LEMMA NatSetInduction ==
  ASSUME NEW Good, 0 \in Good, \A n \in Nat : n \in Good => n + 1 \in Good
  PROVE  Nat \subseteq Good
<1> SUFFICES ASSUME Nat \ Good # {}  PROVE FALSE
  OBVIOUS
<1>1. PICK n \in Nat \ Good : \A m \in Nat \ Good : n <= m
  BY LeastElement
<1>2. n # 0 /\ n \in Nat
  OBVIOUS
<1>3. n - 1 \in Nat /\ n - 1 < n /\ (n - 1) + 1 = n
  BY <1>2
<1>4. n - 1 \in Good
  BY <1>1, <1>3
<1> QED BY <1>1, <1>3, <1>4

LEMMA FiniteSetInduction ==
  ASSUME NEW S, IsFiniteSet(S), NEW Good, {} \in Good,
         \A T \in SUBSET S, x \in S : T \in Good => T \cup {x} \in Good
  PROVE  S \in Good
<1> DEFINE OfSize == {n \in Nat : \A T \in SUBSET S : Cardinality(T) = n => T \in Good}
<1>1. 0 \in OfSize
  <2> SUFFICES ASSUME NEW T \in SUBSET S, Cardinality(T) = 0
               PROVE  T \in Good
    OBVIOUS
  <2> QED BY FS_Subset, FS_EmptySet
<1>2. ASSUME NEW n \in Nat, n \in OfSize  PROVE n + 1 \in OfSize
  <2> SUFFICES ASSUME NEW T \in SUBSET S, Cardinality(T) = n + 1
               PROVE  T \in Good
    OBVIOUS
  <2>1. IsFiniteSet(T) /\ T # {}
    BY <1>2, FS_Subset, FS_EmptySet
  <2>2. PICK x : x \in T
    BY <2>1
  <2>3. Cardinality(T \ {x}) = n
    <3>1. Cardinality(T \ {x}) = Cardinality(T) - 1
      BY <2>1, <2>2, FS_RemoveElement
    <3> QED BY <3>1
  <2>4. T \ {x} \in Good
    BY <1>2, <2>3
  <2>5. (T \ {x}) \cup {x} = T
    BY <2>2
  <2> QED BY <2>2, <2>4, <2>5
<1>3. Nat \subseteq OfSize
  <2> HIDE DEF OfSize
  <2> QED BY <1>1, <1>2, NatSetInduction
<1>4. Cardinality(S) \in Nat
  BY FS_CardinalityType
<1> QED BY <1>3, <1>4

-----------------------------------------------------------------------------
(* Sums over finite sets.                                                  *)

SumStep(f, S, g) ==
  [s \in SUBSET S |-> IF s = {} THEN 0
                      ELSE f[CHOOSE x \in s : TRUE] + g[s \ {CHOOSE x \in s : TRUE}]]

LEMMA SumIs ==
  ASSUME NEW f, NEW S
  PROVE  SumFunctionOnSet(f, S) = (CHOOSE g : g = SumStep(f, S, g))[S]
BY DEF SumFunctionOnSet, FoldFunctionOnSet, MapThenFoldSet, SumStep

(* The recursion has a solution: for subsets of one more element there is  *)
(* one that agrees with that for the smaller ones.                         *)
LEMMA SumExists ==
  ASSUME NEW f, NEW S, IsFiniteSet(S)
  PROVE  \E g : g = SumStep(f, S, g)
<1> DEFINE UpTo(n) == {s \in SUBSET S : Cardinality(s) <= n}
           x(s) == CHOOSE e \in s : TRUE
           Step(n, g) == [s \in UpTo(n) |-> IF s = {} THEN 0 ELSE f[x(s)] + g[s \ {x(s)}]]
           Solved == {n \in Nat : \E g : g = Step(n, g)}
<1>1. ASSUME NEW n \in Nat, NEW s \in UpTo(n), s # {}
      PROVE  s \ {x(s)} \in UpTo(n - 1)
  <2>1. IsFiniteSet(s) /\ x(s) \in s
    BY <1>1, FS_Subset
  <2> HIDE DEF x
  <2>2. Cardinality(s \ {x(s)}) = Cardinality(s) - 1 /\ Cardinality(s) \in Nat
    BY <2>1, FS_RemoveElement, FS_CardinalityType
  <2> QED BY <2>2
<1>2. 0 \in Solved
  <2> DEFINE g == [s \in UpTo(0) |-> 0]
  <2>1. ASSUME NEW s \in UpTo(0)  PROVE s = {}
    <3>1. IsFiniteSet(s) /\ Cardinality(s) \in Nat
      BY FS_Subset, FS_CardinalityType
    <3>2. Cardinality(s) = 0
      BY <3>1
    <3> QED BY <3>1, <3>2, FS_EmptySet
  <2>2. g = Step(0, g)
    <3> HIDE DEF UpTo
    <3> QED BY <2>1
  <2> QED BY <2>2
<1>3. ASSUME NEW n \in Nat, n \in Solved  PROVE n + 1 \in Solved
  <2>1. PICK g : g = Step(n, g)
    BY <1>3
  <2> DEFINE h == Step(n + 1, g)
  <2>2. \A s \in UpTo(n) : s \in UpTo(n + 1)
    <3> SUFFICES ASSUME NEW s \in UpTo(n)  PROVE Cardinality(s) <= n + 1
      OBVIOUS
    <3>1. Cardinality(s) \in Nat /\ Cardinality(s) <= n
      BY FS_Subset, FS_CardinalityType
    <3> QED BY <3>1
  <2>3. ASSUME NEW s \in UpTo(n)  PROVE h[s] = g[s]
    <3> HIDE DEF x, UpTo
    <3> QED BY <2>1, <2>2
  <2>4. ASSUME NEW s \in UpTo(n + 1), s # {}
        PROVE  s \ {x(s)} \in UpTo(n)
    <3>1. n + 1 \in Nat /\ (n + 1) - 1 = n
      OBVIOUS
    <3> HIDE DEF x, UpTo
    <3> QED BY <1>1, <2>4, <3>1
  <2>5. h = Step(n + 1, h)
    <3> HIDE DEF x, UpTo
    <3>1. \A s \in UpTo(n + 1) : s # {} => h[s \ {x(s)}] = g[s \ {x(s)}]
      <4> HIDE DEF h
      <4> QED BY <2>3, <2>4
    <3>2. h = [s \in UpTo(n + 1) |-> IF s = {} THEN 0 ELSE f[x(s)] + g[s \ {x(s)}]]
      OBVIOUS
    <3> HIDE DEF h
    <3> QED BY <3>1, <3>2
  <2>6. \E k : k = Step(n + 1, k)
    <3> HIDE DEF h, Step
    <3> QED BY <2>5
  <2> HIDE DEF Step
  <2> QED BY <2>6
<1>4. Nat \subseteq Solved
  <2> HIDE DEF Solved
  <2> QED BY <1>2, <1>3, NatSetInduction
<1>5. PICK g : g = Step(Cardinality(S), g)
  <2>1. Cardinality(S) \in Nat
    BY FS_CardinalityType
  <2> HIDE DEF Step
  <2> QED BY <1>4, <2>1
<1>6. UpTo(Cardinality(S)) = SUBSET S
  BY FS_Subset
<1>7. g = SumStep(f, S, g)
  <2> HIDE DEF UpTo
  <2> QED BY <1>5, <1>6 DEF SumStep
<1> QED BY <1>7

(* Solutions for two sets agree on the subsets of both.                    *)
LEMMA SumsAgree ==
  ASSUME NEW f, NEW S, NEW T, NEW g, NEW h, g = SumStep(f, S, g), h = SumStep(f, T, h),
         NEW u, u \subseteq S, u \subseteq T, IsFiniteSet(u)
  PROVE  g[u] = h[u]
<1> DEFINE x(s) == CHOOSE e \in s : TRUE
           Good == {n \in Nat : \A s \in SUBSET u : Cardinality(s) = n => g[s] = h[s]}
<1>1. ASSUME NEW s \in SUBSET u
      PROVE  /\ g[s] = IF s = {} THEN 0 ELSE f[x(s)] + g[s \ {x(s)}]
             /\ h[s] = IF s = {} THEN 0 ELSE f[x(s)] + h[s \ {x(s)}]
  <2>1. s \in SUBSET S /\ s \in SUBSET T
    OBVIOUS
  <2> QED BY <2>1 DEF SumStep
<1>2. 0 \in Good
  <2> SUFFICES ASSUME NEW s \in SUBSET u, Cardinality(s) = 0
               PROVE  g[s] = h[s]
    OBVIOUS
  <2>1. s = {}
    BY FS_Subset, FS_EmptySet
  <2> QED BY <1>1, <2>1
<1>3. ASSUME NEW n \in Nat, n \in Good  PROVE n + 1 \in Good
  <2> SUFFICES ASSUME NEW s \in SUBSET u, Cardinality(s) = n + 1
               PROVE  g[s] = h[s]
    OBVIOUS
  <2>1. IsFiniteSet(s) /\ s # {}
    BY <1>3, FS_Subset, FS_EmptySet
  <2>2. x(s) \in s
    BY <2>1
  <2> HIDE DEF x
  <2>3. Cardinality(s \ {x(s)}) = Cardinality(s) - 1
    BY <2>1, <2>2, FS_RemoveElement
  <2>4. Cardinality(s \ {x(s)}) = n
    BY <2>3
  <2>5. g[s \ {x(s)}] = h[s \ {x(s)}]
    BY <1>3, <2>4
  <2> QED BY <1>1, <2>1, <2>5
<1>4. Nat \subseteq Good
  <2> HIDE DEF Good
  <2> QED BY <1>2, <1>3, NatSetInduction
<1> QED BY <1>4, FS_CardinalityType

LEMMA SumEmpty ==
  ASSUME NEW f
  PROVE  SumFunctionOnSet(f, {}) = 0
<1> DEFINE g == CHOOSE h : h = SumStep(f, {}, h)
<1>1. g = SumStep(f, {}, g)
  BY SumExists, FS_EmptySet
<1>2. SumFunctionOnSet(f, {}) = g[{}]
  BY SumIs
<1> HIDE DEF g
<1> QED BY <1>1, <1>2 DEF SumStep

LEMMA SumChosen ==
  ASSUME NEW f, NEW S, IsFiniteSet(S), S # {}
  PROVE  LET x == CHOOSE e \in S : TRUE
         IN  SumFunctionOnSet(f, S) = f[x] + SumFunctionOnSet(f, S \ {x})
<1> DEFINE x == CHOOSE e \in S : TRUE
           T == S \ {x}
           g == CHOOSE k : k = SumStep(f, S, k)
           h == CHOOSE k : k = SumStep(f, T, k)
<1>1. g = SumStep(f, S, g) /\ SumFunctionOnSet(f, S) = g[S]
  BY SumExists, SumIs
<1>2. IsFiniteSet(T) /\ T \subseteq S
  BY FS_Subset
<1>3. h = SumStep(f, T, h) /\ SumFunctionOnSet(f, T) = h[T]
  <2> HIDE DEF T
  <2> QED BY <1>2, SumExists, SumIs
<1> HIDE DEF g, h
<1>4. g[S] = f[x] + g[T]
  BY <1>1 DEF SumStep
<1>5. g[T] = h[T]
  <2> HIDE DEF T
  <2> QED BY <1>1, <1>2, <1>3, SumsAgree
<1> QED BY <1>1, <1>3, <1>4, <1>5

LEMMA SumType ==
  ASSUME NEW S, IsFiniteSet(S), NEW f, \A i \in S : f[i] \in Int
  PROVE  SumFunctionOnSet(f, S) \in Int
<1> DEFINE Good == {n \in Nat : \A T \in SUBSET S : Cardinality(T) = n => SumFunctionOnSet(f, T) \in Int}
<1>1. 0 \in Good
  <2> SUFFICES ASSUME NEW T \in SUBSET S, Cardinality(T) = 0
               PROVE  SumFunctionOnSet(f, T) \in Int
    OBVIOUS
  <2>1. T = {}
    BY FS_Subset, FS_EmptySet
  <2> QED BY <2>1, SumEmpty
<1>2. ASSUME NEW n \in Nat, n \in Good  PROVE n + 1 \in Good
  <2> SUFFICES ASSUME NEW T \in SUBSET S, Cardinality(T) = n + 1
               PROVE  SumFunctionOnSet(f, T) \in Int
    OBVIOUS
  <2> DEFINE x == CHOOSE e \in T : TRUE
  <2>1. IsFiniteSet(T) /\ T # {}
    BY <1>2, FS_Subset, FS_EmptySet
  <2>2. x \in T
    BY <2>1
  <2>3. SumFunctionOnSet(f, T) = f[x] + SumFunctionOnSet(f, T \ {x})
    BY <2>1, SumChosen
  <2> HIDE DEF x
  <2>4. Cardinality(T \ {x}) = Cardinality(T) - 1
    BY <2>1, <2>2, FS_RemoveElement
  <2>5. SumFunctionOnSet(f, T \ {x}) \in Int
    BY <1>2, <2>4
  <2>6. f[x] \in Int
    BY <2>2
  <2> QED BY <2>3, <2>5, <2>6
<1>3. Nat \subseteq Good
  <2> HIDE DEF Good
  <2> QED BY <1>1, <1>2, NatSetInduction
<1> QED BY <1>3, FS_CardinalityType

(* Any element may be taken out first.                                     *)
LEMMA SumWithout ==
  ASSUME NEW S, IsFiniteSet(S), NEW f, \A i \in S : f[i] \in Int, NEW e \in S
  PROVE  SumFunctionOnSet(f, S) = f[e] + SumFunctionOnSet(f, S \ {e})
<1> DEFINE Sum(T) == SumFunctionOnSet(f, T)
           Good == {n \in Nat : \A T \in SUBSET S : Cardinality(T) = n =>
                                  \A d \in T : Sum(T) = f[d] + Sum(T \ {d})}
<1>1. 0 \in Good
  <2> SUFFICES ASSUME NEW T \in SUBSET S, Cardinality(T) = 0
               PROVE  T = {}
    OBVIOUS
  <2> QED BY FS_Subset, FS_EmptySet
<1>2. ASSUME NEW n \in Nat, n \in Good  PROVE n + 1 \in Good
  <2> SUFFICES ASSUME NEW T \in SUBSET S, Cardinality(T) = n + 1, NEW d \in T
               PROVE  Sum(T) = f[d] + Sum(T \ {d})
    OBVIOUS
  <2> DEFINE x == CHOOSE c \in T : TRUE
  <2>1. IsFiniteSet(T) /\ x \in T
    BY FS_Subset
  <2>2. Sum(T) = f[x] + Sum(T \ {x})
    BY <2>1, SumChosen
  <2> HIDE DEF x
  <2>3. CASE d = x
    BY <2>2, <2>3
  <2>4. CASE d # x
    <3> DEFINE U == T \ {x}
               V == T \ {d}
               W == T \ {d, x}
    <3>1. /\ Cardinality(U) = n /\ Cardinality(V) = n
          /\ U \in SUBSET S /\ V \in SUBSET S /\ IsFiniteSet(W) /\ W \subseteq S
      <4>1. Cardinality(U) = Cardinality(T) - 1 /\ Cardinality(V) = Cardinality(T) - 1
        BY <2>1, FS_RemoveElement
      <4>2. IsFiniteSet(W)
        BY <2>1, FS_Subset
      <4> QED BY <4>1, <4>2
    <3>2. U \ {d} = W /\ V \ {x} = W /\ d \in U /\ x \in V
      BY <2>1, <2>4
    <3>3. Sum(U) = f[d] + Sum(W)
      <4> HIDE DEF U, V, W, Sum
      <4> QED BY <1>2, <3>1, <3>2
    <3>4. Sum(V) = f[x] + Sum(W)
      <4> HIDE DEF U, V, W, Sum
      <4> QED BY <1>2, <3>1, <3>2
    <3>5. Sum(W) \in Int
      BY <3>1, SumType
    <3>6. f[d] \in Int /\ f[x] \in Int
      BY <2>1
    <3> HIDE DEF Sum
    <3> QED BY <2>2, <3>3, <3>4, <3>5, <3>6
  <2> QED BY <2>3, <2>4
<1>3. Nat \subseteq Good
  <2> HIDE DEF Good
  <2> QED BY <1>1, <1>2, NatSetInduction
<1>4. Cardinality(S) \in Good
  BY <1>3, FS_CardinalityType
<1> QED BY <1>4

LEMMA SumWith ==
  ASSUME NEW S, IsFiniteSet(S), NEW e, e \notin S,
         NEW f, f[e] \in Int, \A i \in S : f[i] \in Int
  PROVE  SumFunctionOnSet(f, S \cup {e}) = f[e] + SumFunctionOnSet(f, S)
<1> DEFINE T == S \cup {e}
<1>1. IsFiniteSet(T) /\ e \in T /\ T \ {e} = S /\ \A i \in T : f[i] \in Int
  BY FS_AddElement
<1> HIDE DEF T
<1>2. SumFunctionOnSet(f, T) = f[e] + SumFunctionOnSet(f, T \ {e})
  BY <1>1, SumWithout
<1> QED BY <1>1, <1>2 DEF T

(* The terms of one sum against those of another.                          *)
LEMMA SumsCompare ==
  ASSUME NEW S, IsFiniteSet(S), NEW f, NEW g,
         \A i \in S : f[i] \in Int /\ g[i] \in Int /\ f[i] <= g[i]
  PROVE  SumFunctionOnSet(f, S) <= SumFunctionOnSet(g, S)
<1> DEFINE F(T) == SumFunctionOnSet(f, T)
           G(T) == SumFunctionOnSet(g, T)
           Good == {T \in SUBSET S : F(T) <= G(T)}
<1>1. {} \in Good
  BY SumEmpty
<1>2. ASSUME NEW T \in SUBSET S, NEW e \in S, T \in Good
      PROVE  T \cup {e} \in Good
  <2>1. CASE e \in T
    <3>1. T \cup {e} = T
      BY <2>1
    <3> HIDE DEF Good
    <3> QED BY <1>2, <3>1
  <2>2. CASE e \notin T
    <3>1. IsFiniteSet(T)
      BY FS_Subset
    <3>2. F(T \cup {e}) = f[e] + F(T) /\ G(T \cup {e}) = g[e] + G(T)
      BY <2>2, <3>1, SumWith
    <3>3. F(T) \in Int /\ G(T) \in Int
      BY <3>1, SumType
    <3>4. f[e] \in Int /\ g[e] \in Int /\ f[e] <= g[e] /\ F(T) <= G(T)
      BY <1>2
    <3>5. T \cup {e} \in SUBSET S
      OBVIOUS
    <3> HIDE DEF F, G
    <3>6. F(T \cup {e}) <= G(T \cup {e})
      BY <3>2, <3>3, <3>4
    <3> QED BY <3>5, <3>6
  <2> QED BY <2>1, <2>2
<1>3. S \in Good
  <2> HIDE DEF Good
  <2> QED BY <1>1, <1>2, FiniteSetInduction
<1> QED BY <1>3

LEMMA SumsEqual ==
  ASSUME NEW S, IsFiniteSet(S), NEW f, NEW g, \A i \in S : f[i] \in Int /\ g[i] = f[i]
  PROVE  SumFunctionOnSet(f, S) = SumFunctionOnSet(g, S)
<1>1. /\ SumFunctionOnSet(f, S) \in Int /\ SumFunctionOnSet(g, S) \in Int
      /\ SumFunctionOnSet(f, S) <= SumFunctionOnSet(g, S)
      /\ SumFunctionOnSet(g, S) <= SumFunctionOnSet(f, S)
  BY SumType, SumsCompare
<1> QED BY <1>1

LEMMA SumOfUnion ==
  ASSUME NEW S, IsFiniteSet(S), NEW T, IsFiniteSet(T), S \cap T = {},
         NEW f, \A i \in S \cup T : f[i] \in Int
  PROVE  SumFunctionOnSet(f, S \cup T) = SumFunctionOnSet(f, S) + SumFunctionOnSet(f, T)
<1> DEFINE F(U) == SumFunctionOnSet(f, U)
           Good == {U \in SUBSET T : F(S \cup U) = F(S) + F(U)}
<1>1. {} \in Good
  <2>1. S \cup {} = S /\ F({}) = 0 /\ F(S) \in Int
    BY SumEmpty, SumType
  <2> HIDE DEF F
  <2> QED BY <2>1
<1>2. ASSUME NEW U \in SUBSET T, NEW e \in T, U \in Good
      PROVE  U \cup {e} \in Good
  <2>1. CASE e \in U
    <3>1. U \cup {e} = U
      BY <2>1
    <3> HIDE DEF Good
    <3> QED BY <1>2, <3>1
  <2>2. CASE e \notin U
    <3>1. IsFiniteSet(U) /\ IsFiniteSet(S \cup U) /\ e \notin S \cup U
      BY <2>2, FS_Subset, FS_Union
    <3>2. F(U \cup {e}) = f[e] + F(U) /\ F((S \cup U) \cup {e}) = f[e] + F(S \cup U)
      BY <2>2, <3>1, SumWith
    <3>3. F(S) \in Int /\ F(U) \in Int /\ f[e] \in Int
      BY <3>1, SumType
    <3>4. F(S \cup U) = F(S) + F(U)
      BY <1>2
    <3>5. S \cup (U \cup {e}) = (S \cup U) \cup {e} /\ U \cup {e} \in SUBSET T
      OBVIOUS
    <3> HIDE DEF F
    <3>7. F(S \cup (U \cup {e})) = f[e] + (F(S) + F(U))
      BY <3>2, <3>4, <3>5
    <3>6. F(S \cup (U \cup {e})) = F(S) + F(U \cup {e})
      BY <3>2, <3>3, <3>7
    <3> QED BY <3>5, <3>6
  <2> QED BY <2>1, <2>2
<1>3. T \in Good
  <2> HIDE DEF Good
  <2> QED BY <1>1, <1>2, FiniteSetInduction
<1> QED BY <1>3

LEMMA SumOfEquals ==
  ASSUME NEW S, IsFiniteSet(S), NEW c \in Int, NEW f, \A i \in S : f[i] = c
  PROVE  SumFunctionOnSet(f, S) = c * Cardinality(S)
<1> DEFINE F(T) == SumFunctionOnSet(f, T)
           Good == {T \in SUBSET S : F(T) = c * Cardinality(T)}
<1>1. {} \in Good
  BY SumEmpty, FS_EmptySet, SMT
<1>2. ASSUME NEW T \in SUBSET S, NEW e \in S, T \in Good
      PROVE  T \cup {e} \in Good
  <2>1. CASE e \in T
    <3>1. T \cup {e} = T
      BY <2>1
    <3> HIDE DEF Good
    <3> QED BY <1>2, <3>1
  <2>2. CASE e \notin T
    <3>1. IsFiniteSet(T) /\ Cardinality(T) \in Nat
      BY FS_Subset, FS_CardinalityType
    <3>2. F(T \cup {e}) = f[e] + F(T)
      <4>1. \A i \in T : f[i] \in Int
        OBVIOUS
      <4> QED BY <2>2, <3>1, <4>1, SumWith
    <3>6. Cardinality(T \cup {e}) = Cardinality(T) + 1
      BY <2>2, <3>1, FS_AddElement
    <3>3. f[e] = c /\ F(T) = c * Cardinality(T) /\ T \cup {e} \in SUBSET S
      BY <1>2
    <3>4. \A n \in Nat : c * (n + 1) = c + c * n
      BY SMT
    <3> HIDE DEF F
    <3>5. F(T \cup {e}) = c * Cardinality(T \cup {e})
      BY <3>1, <3>2, <3>3, <3>4, <3>6
    <3> QED BY <3>3, <3>5
  <2> QED BY <2>1, <2>2
<1>3. S \in Good
  <2> HIDE DEF Good
  <2> QED BY <1>1, <1>2, FiniteSetInduction
<1> QED BY <1>3

(* Places 1 .. n of a sequence, from the last one down.                    *)
LEMMA SumUpTo ==
  ASSUME NEW n \in Nat, NEW f, \A i \in 1 .. n + 1 : f[i] \in Int
  PROVE  /\ SumFunctionOnSet(f, 1 .. 0) = 0
         /\ SumFunctionOnSet(f, 1 .. n) \in Int
         /\ SumFunctionOnSet(f, 1 .. n + 1) = SumFunctionOnSet(f, 1 .. n) + f[n + 1]
<1>1. 1 .. 0 = {}
  OBVIOUS
<1>2. IsFiniteSet(1 .. n)
  BY FS_Interval
<1>3. /\ 1 .. n + 1 = (1 .. n) \cup {n + 1} /\ n + 1 \notin 1 .. n
      /\ f[n + 1] \in Int /\ \A i \in 1 .. n : f[i] \in Int
  OBVIOUS
<1>4. /\ SumFunctionOnSet(f, 1 .. n) \in Int
      /\ SumFunctionOnSet(f, (1 .. n) \cup {n + 1}) = f[n + 1] + SumFunctionOnSet(f, 1 .. n)
  <2> DEFINE S == 1 .. n
             e == n + 1
  <2>1. IsFiniteSet(S) /\ e \notin S /\ f[e] \in Int /\ \A i \in S : f[i] \in Int
    BY <1>2, <1>3
  <2> HIDE DEF S, e
  <2>2. /\ SumFunctionOnSet(f, S) \in Int
        /\ SumFunctionOnSet(f, S \cup {e}) = f[e] + SumFunctionOnSet(f, S)
    BY <2>1, SumType, SumWith
  <2> QED BY <2>2 DEF S, e
<1>5. SumFunctionOnSet(f, 1 .. n + 1) = SumFunctionOnSet(f, 1 .. n) + f[n + 1]
  <2>1. SumFunctionOnSet(f, 1 .. n + 1) = f[n + 1] + SumFunctionOnSet(f, 1 .. n)
    BY <1>3, <1>4
  <2> QED BY <1>3, <1>4, <2>1
<1>6. SumFunctionOnSet(f, 1 .. 0) = 0
  BY <1>1, SumEmpty
<1> QED BY <1>4, <1>5, <1>6

-----------------------------------------------------------------------------
(* Lists of anything: sequences of their own elements.                     *)
IsList(s) == s \in Seq(Range(s))

LEMMA ListFacts ==
  ASSUME NEW s, IsList(s)
  PROVE  /\ Len(s) \in Nat /\ DOMAIN s = 1 .. Len(s)
         /\ Range(s) = {s[i] : i \in 1 .. Len(s)}
         /\ \A T : Range(s) \subseteq T => s \in Seq(T)
BY LenProperties, SeqMonotonic DEF IsList, Range

LEMMA ListOf ==
  ASSUME NEW S, NEW s \in Seq(S)
  PROVE  IsList(s) /\ Range(s) \subseteq S
<1>1. s \in [1 .. Len(s) -> S] /\ Len(s) \in Nat
  BY LenProperties
<1>2. s \in [1 .. Len(s) -> Range(s)]
  BY <1>1 DEF Range
<1> QED BY <1>1, <1>2, IsASeq DEF IsList, Range

LEMMA ListWith ==
  ASSUME NEW n \in Nat, NEW s, s = [i \in 1 .. n |-> s[i]]
  PROVE  IsList(s) /\ Len(s) = n /\ DOMAIN s = 1 .. n
<1>1. DOMAIN s = 1 .. n
  OBVIOUS
<1>2. s \in [1 .. n -> Range(s)]
  BY <1>1 DEF Range
<1>3. s \in Seq(Range(s)) /\ Len(s) = n
  BY <1>2, IsASeq, LenProperties
<1> QED BY <1>1, <1>3 DEF IsList

LEMMA ConcatLists ==
  ASSUME NEW s, IsList(s), NEW t, IsList(t)
  PROVE  LET u == s \o t
         IN  /\ IsList(u) /\ Len(u) = Len(s) + Len(t)
             /\ DOMAIN u = 1 .. Len(s) + Len(t)
             /\ \A i \in 1 .. Len(s) : u[i] = s[i]
             /\ \A i \in 1 .. Len(t) : u[Len(s) + i] = t[i]
             /\ Range(u) = Range(s) \cup Range(t)
<1> DEFINE T == Range(s) \cup Range(t)
           u == s \o t
<1>1. s \in Seq(T) /\ t \in Seq(T) /\ Len(s) \in Nat /\ Len(t) \in Nat
  BY ListFacts
<1> HIDE DEF T
<1>2. /\ u \in Seq(T) /\ Len(u) = Len(s) + Len(t)
      /\ \A i \in 1 .. Len(s) + Len(t) : u[i] = IF i <= Len(s) THEN s[i] ELSE t[i - Len(s)]
  BY <1>1, ConcatProperties
<1> HIDE DEF u
<1>3. DOMAIN u = 1 .. Len(s) + Len(t) /\ IsList(u)
  BY <1>2, LenProperties, ListOf
<1>4. \A i \in 1 .. Len(s) : i \in 1 .. Len(s) + Len(t) /\ u[i] = s[i]
  BY <1>1, <1>2
<1>5. \A i \in 1 .. Len(t) : Len(s) + i \in 1 .. Len(s) + Len(t) /\ u[Len(s) + i] = t[i]
  <2> TAKE i \in 1 .. Len(t)
  <2>1. Len(s) + i \in 1 .. Len(s) + Len(t) /\ ~(Len(s) + i <= Len(s)) /\ (Len(s) + i) - Len(s) = i
    BY <1>1
  <2> QED BY <1>2, <2>1
<1>6. Range(u) = Range(s) \cup Range(t)
  <2>1. \A i \in 1 .. Len(s) + Len(t) : u[i] \in Range(s) \cup Range(t)
    BY <1>1, <1>2, ListFacts
  <2>2. \A x \in Range(s) : x \in Range(u)
    BY <1>3, <1>4, ListFacts DEF Range
  <2>3. \A x \in Range(t) : x \in Range(u)
    BY <1>3, <1>5, ListFacts DEF Range
  <2>4. Range(u) = {u[i] : i \in 1 .. Len(s) + Len(t)}
    BY <1>3 DEF Range
  <2> QED BY <2>1, <2>2, <2>3, <2>4
<1> QED BY <1>2, <1>3, <1>4, <1>5, <1>6 DEF u

LEMMA AppendList ==
  ASSUME NEW s, IsList(s), NEW e
  PROVE  LET u == Append(s, e)
         IN  /\ IsList(u) /\ Len(u) = Len(s) + 1 /\ Len(u) \in Nat /\ Len(s) \in Nat
             /\ DOMAIN u = 1 .. Len(s) + 1
             /\ \A i \in 1 .. Len(s) : u[i] = s[i]
             /\ u[Len(s) + 1] = e
             /\ Range(u) = Range(s) \cup {e}
<1> DEFINE T == Range(s) \cup {e}
           u == Append(s, e)
<1>1. s \in Seq(T) /\ e \in T /\ Len(s) \in Nat
  BY ListFacts
<1> HIDE DEF T
<1>2. /\ u \in Seq(T) /\ Len(u) = Len(s) + 1
      /\ \A i \in 1 .. Len(s) : u[i] = s[i]
      /\ u[Len(s) + 1] = e
  BY <1>1, AppendProperties
<1> HIDE DEF u
<1>3. DOMAIN u = 1 .. Len(s) + 1 /\ IsList(u)
  BY <1>2, LenProperties, ListOf
<1>4. \A i \in 1 .. Len(s) + 1 : i \in 1 .. Len(s) \/ i = Len(s) + 1
  BY <1>1
<1>5. Range(u) = Range(s) \cup {e}
  <2>1. \A i \in 1 .. Len(s) + 1 : u[i] \in Range(s) \cup {e}
    BY <1>2, <1>4, ListFacts
  <2>2. \A x \in Range(s) : x \in Range(u)
    <3> TAKE x \in Range(s)
    <3>1. PICK i \in 1 .. Len(s) : x = s[i]
      BY ListFacts
    <3>2. i \in 1 .. Len(s) + 1
      BY <1>1
    <3> QED BY <1>2, <1>3, <3>1, <3>2 DEF Range
  <2>3. e \in Range(u)
    <3>1. Len(s) + 1 \in 1 .. Len(s) + 1
      BY <1>1
    <3> QED BY <1>2, <1>3, <3>1 DEF Range
  <2>4. Range(u) = {u[i] : i \in 1 .. Len(s) + 1}
    BY <1>3 DEF Range
  <2> QED BY <2>1, <2>2, <2>3, <2>4
<1> QED BY <1>1, <1>2, <1>3, <1>5 DEF u

LEMMA PrefixList ==
  ASSUME NEW s, IsList(s), NEW k \in 0 .. Len(s)
  PROVE  LET u == SubSeq(s, 1, k)
         IN  /\ IsList(u) /\ Len(u) = k /\ DOMAIN u = 1 .. k
             /\ \A i \in 1 .. k : u[i] = s[i]
             /\ Range(u) \subseteq Range(s)
<1> DEFINE u == SubSeq(s, 1, k)
<1>1. Len(s) \in Nat /\ s \in Seq(Range(s)) /\ k \in Nat
  BY ListFacts
<1>2. u \in Seq(Range(s)) /\ Len(u) = k /\ \A i \in 1 .. k : u[i] = s[i]
  <2>1. u = [i \in 1 .. k |-> s[i]]
    BY <1>1
  <2>2. \A i \in 1 .. k : s[i] \in Range(s)
    BY ListFacts
  <2>3. [i \in 1 .. k |-> s[i]] \in [1 .. k -> Range(s)]
    BY <2>2
  <2> HIDE DEF u
  <2> QED BY <1>1, <2>1, <2>3, IsASeq, LenProperties
<1> HIDE DEF u
<1> QED BY <1>2, LenProperties, ListOf DEF u

LEMMA SameLists ==
  ASSUME NEW s, IsList(s), NEW t, IsList(t), Len(s) = Len(t), \A i \in 1 .. Len(s) : s[i] = t[i]
  PROVE  s = t
<1> DEFINE T == Range(s) \cup Range(t)
<1>1. s \in Seq(T) /\ t \in Seq(T)
  BY ListFacts
<1> HIDE DEF T
<1> QED BY <1>1, SeqEqual

-----------------------------------------------------------------------------
(* FlattenSeq of the library, one list after the other.                    *)
FlattenStep(s, n, f) == [i \in 1 .. n |-> IF i = 1 THEN s[i] ELSE f[i-1] \o s[i]]

LEMMA FlattenIs ==
  ASSUME NEW s
  PROVE  FlattenSeq(s) = IF Len(s) = 0 THEN s
                         ELSE (CHOOSE f : f = FlattenStep(s, Len(s), f))[Len(s)]
BY DEF FlattenSeq, FlattenStep

LEMMA FlattenAt ==
  ASSUME NEW s, NEW n, NEW f, f = FlattenStep(s, n, f), NEW i \in 1 .. n
  PROVE  f[i] = IF i = 1 THEN s[i] ELSE f[i-1] \o s[i]
<1>1. f[i] = FlattenStep(s, n, f)[i]
  OBVIOUS
<1>2. FlattenStep(s, n, f)[i] = IF i = 1 THEN s[i] ELSE f[i-1] \o s[i]
  BY DEF FlattenStep
<1> QED BY <1>1, <1>2

LEMMA FlattenExists ==
  ASSUME NEW s, NEW n \in Nat
  PROVE  \E f : f = FlattenStep(s, n, f)
<1> DEFINE Solved == {k \in Nat : \E f : f = FlattenStep(s, k, f)}
<1>1. 0 \in Solved
  <2> DEFINE f == [i \in 1 .. 0 |-> s[i]]
  <2>1. f = FlattenStep(s, 0, f)
    BY DEF FlattenStep
  <2> QED BY <2>1
<1>2. ASSUME NEW k \in Nat, k \in Solved  PROVE k + 1 \in Solved
  <2>1. PICK f : f = FlattenStep(s, k, f)
    BY <1>2
  <2> DEFINE g == FlattenStep(s, k + 1, f)
  <2>2. \A i \in 1 .. k : i \in 1 .. k + 1 /\ g[i] = f[i]
    <3> SUFFICES ASSUME NEW i \in 1 .. k  PROVE i \in 1 .. k + 1 /\ g[i] = f[i]
      OBVIOUS
    <3>1. i \in 1 .. k + 1
      OBVIOUS
    <3>2. g[i] = IF i = 1 THEN s[i] ELSE f[i-1] \o s[i]
      BY <3>1 DEF FlattenStep
    <3>3. f[i] = IF i = 1 THEN s[i] ELSE f[i-1] \o s[i]
      BY <2>1, FlattenAt
    <3> HIDE DEF g
    <3> QED BY <3>1, <3>2, <3>3
  <2>3. \A i \in 1 .. k + 1 : i = 1 \/ i - 1 \in 1 .. k
    OBVIOUS
  <2>4. g = FlattenStep(s, k + 1, g)
    <3>1. \A i \in 1 .. k + 1 : i # 1 => g[i-1] = f[i-1]
      BY <2>2, <2>3
    <3>2. g = [i \in 1 .. k + 1 |-> IF i = 1 THEN s[i] ELSE f[i-1] \o s[i]]
      BY DEF FlattenStep
    <3> HIDE DEF g
    <3> QED BY <3>1, <3>2 DEF FlattenStep
  <2> HIDE DEF g
  <2> QED BY <2>4
<1> HIDE DEF Solved
<1>3. n \in Solved
  BY <1>1, <1>2, NatSetInduction
<1> QED BY <1>3 DEF Solved

LEMMA FlattenAgree ==
  ASSUME NEW s, NEW t, NEW n \in Nat, NEW m \in Nat, NEW f, NEW g,
         f = FlattenStep(s, n, f), g = FlattenStep(t, m, g),
         NEW k \in 1 .. n, k <= m, \A i \in 1 .. k : s[i] = t[i]
  PROVE  f[k] = g[k]
<1> DEFINE Good == {l \in Nat : l \in 1 .. k => f[l] = g[l]}
<1>1. 0 \in Good
  OBVIOUS
<1>2. ASSUME NEW l \in Nat, l \in Good  PROVE l + 1 \in Good
  <2> SUFFICES ASSUME l + 1 \in 1 .. k  PROVE f[l + 1] = g[l + 1]
    OBVIOUS
  <2>1. l + 1 \in 1 .. n /\ l + 1 \in 1 .. m /\ (l + 1) - 1 = l /\ (l + 1 = 1 \/ l \in 1 .. k)
    OBVIOUS
  <2>2. f[l + 1] = IF l + 1 = 1 THEN s[l + 1] ELSE f[(l + 1) - 1] \o s[l + 1]
    BY <2>1 DEF FlattenStep
  <2>3. g[l + 1] = IF l + 1 = 1 THEN t[l + 1] ELSE g[(l + 1) - 1] \o t[l + 1]
    BY <2>1 DEF FlattenStep
  <2> QED BY <1>2, <2>1, <2>2, <2>3
<1> HIDE DEF Good
<1>3. k \in Good
  BY <1>1, <1>2, NatSetInduction
<1> QED BY <1>3 DEF Good

(* The first k lists are the first k-1 of them and the k-th.               *)
LEMMA FlattenPrefix ==
  ASSUME NEW s, IsList(s), \A i \in 1 .. Len(s) : IsList(s[i])
  PROVE  /\ FlattenSeq(SubSeq(s, 1, 0)) = <<>>
         /\ \A k \in 1 .. Len(s) :
              FlattenSeq(SubSeq(s, 1, k)) = FlattenSeq(SubSeq(s, 1, k - 1)) \o s[k]
         /\ FlattenSeq(s) = FlattenSeq(SubSeq(s, 1, Len(s)))
<1>0. Len(s) \in Nat
  BY ListFacts
<1>1. FlattenSeq(SubSeq(s, 1, 0)) = <<>>
  <2>1. SubSeq(s, 1, 0) = <<>> /\ Len(SubSeq(s, 1, 0)) = 0
    BY <1>0, PrefixList, EmptySeq
  <2> QED BY <2>1, FlattenIs
<1>2. ASSUME NEW k \in 1 .. Len(s)
      PROVE  FlattenSeq(SubSeq(s, 1, k)) = FlattenSeq(SubSeq(s, 1, k - 1)) \o s[k]
  <2> DEFINE u == SubSeq(s, 1, k)
             v == SubSeq(s, 1, k - 1)
             f == CHOOSE h : h = FlattenStep(u, Len(u), h)
             g == CHOOSE h : h = FlattenStep(v, Len(v), h)
  <2>1. k \in 0 .. Len(s) /\ k - 1 \in 0 .. Len(s) /\ k \in Nat /\ k - 1 \in Nat
    BY <1>0
  <2>2. Len(u) = k /\ \A i \in 1 .. k : u[i] = s[i]
    BY <2>1, PrefixList
  <2>3. Len(v) = k - 1 /\ \A i \in 1 .. k - 1 : v[i] = s[i]
    BY <2>1, PrefixList
  <2> HIDE DEF u, v
  <2>4. f = FlattenStep(u, k, f)
    BY <2>1, <2>2, FlattenExists
  <2>5. g = FlattenStep(v, k - 1, g)
    BY <2>1, <2>3, FlattenExists
  <2>6. FlattenSeq(u) = f[k]
    BY <2>1, <2>2, FlattenIs
  <2> HIDE DEF f, g
  <2>7. f[k] = IF k = 1 THEN s[k] ELSE f[k-1] \o s[k]
    <3>1. k \in 1 .. k
      BY <2>1
    <3>2. f[k] = IF k = 1 THEN u[k] ELSE f[k-1] \o u[k]
      BY <2>4, <3>1, FlattenAt
    <3> QED BY <2>2, <3>1, <3>2
  <2>8. CASE k = 1
    <3>1. v = <<>> /\ FlattenSeq(v) = <<>>
      BY <1>1, <2>8 DEF v
    <3>2. <<>> \o s[k] = s[k]
      BY ConcatEmptySeq DEF IsList
    <3> QED BY <2>6, <2>7, <2>8, <3>1, <3>2 DEF u, v
  <2>9. CASE k # 1
    <3>1. k - 1 \in 1 .. k /\ k - 1 <= k - 1 /\ k - 1 # 0
      BY <2>1, <2>9
    <3>2. \A i \in 1 .. k - 1 : u[i] = v[i]
      BY <2>1, <2>2, <2>3
    <3>3. f[k-1] = g[k-1]
      BY <2>1, <2>4, <2>5, <3>1, <3>2, FlattenAgree
    <3>4. FlattenSeq(v) = g[k-1]
      BY <2>3, <3>1, FlattenIs DEF g
    <3> QED BY <2>6, <2>7, <2>9, <3>3, <3>4 DEF u, v
  <2> QED BY <2>8, <2>9
<1>3. SubSeq(s, 1, Len(s)) = s
  BY SubSeqFull DEF IsList
<1> QED BY <1>1, <1>2, <1>3

(* What the lists together have, and where.                                *)
LEMMA FlattenFacts ==
  ASSUME NEW s, IsList(s), \A i \in 1 .. Len(s) : IsList(s[i])
  PROVE  /\ IsList(FlattenSeq(s))
         /\ Range(FlattenSeq(s)) = UNION {Range(s[i]) : i \in 1 .. Len(s)}
         /\ \A k \in 1 .. Len(s) :
              LET before == FlattenSeq(SubSeq(s, 1, k - 1))
              IN  /\ IsList(before)
                  /\ \A i \in 1 .. Len(s[k]) :
                       /\ Len(before) + i \in DOMAIN FlattenSeq(s)
                       /\ FlattenSeq(s)[Len(before) + i] = s[k][i]
<1> DEFINE F(k) == FlattenSeq(SubSeq(s, 1, k))
           n == Len(s)
           Good == {k \in Nat : k \in 0 .. n =>
                      /\ IsList(F(k))
                      /\ Range(F(k)) = UNION {Range(s[i]) : i \in 1 .. k}
                      /\ \A j \in 1 .. k : \A i \in 1 .. Len(s[j]) :
                           /\ Len(F(j-1)) + i \in DOMAIN F(k)
                           /\ F(k)[Len(F(j-1)) + i] = s[j][i]}
<1>0. n \in Nat
  BY ListFacts
<1>1. /\ F(0) = <<>>
      /\ \A k \in 1 .. n : F(k) = F(k-1) \o s[k]
      /\ FlattenSeq(s) = F(n)
  BY FlattenPrefix
<1> HIDE DEF F, n
<1>2. 0 \in Good
  <2>1. IsList(<<>>) /\ Range(<<>>) = {}
    BY DEF IsList, Range
  <2> QED BY <1>1, <2>1
<1>3. ASSUME NEW k \in Nat, k \in Good  PROVE k + 1 \in Good
  <2> SUFFICES ASSUME k + 1 \in 0 .. n
               PROVE  /\ IsList(F(k+1))
                      /\ Range(F(k+1)) = UNION {Range(s[i]) : i \in 1 .. k+1}
                      /\ \A j \in 1 .. k+1 : \A i \in 1 .. Len(s[j]) :
                           /\ Len(F(j-1)) + i \in DOMAIN F(k+1)
                           /\ F(k+1)[Len(F(j-1)) + i] = s[j][i]
    OBVIOUS
  <2>1. k \in 0 .. n /\ k + 1 \in 1 .. n /\ (k + 1) - 1 = k
    BY <1>0
  <2>2. /\ IsList(F(k)) /\ Range(F(k)) = UNION {Range(s[i]) : i \in 1 .. k}
        /\ \A j \in 1 .. k : \A i \in 1 .. Len(s[j]) :
             Len(F(j-1)) + i \in DOMAIN F(k) /\ F(k)[Len(F(j-1)) + i] = s[j][i]
    BY <1>3, <2>1
  <2>3. IsList(s[k+1]) /\ F(k+1) = F(k) \o s[k+1]
    BY <1>1, <2>1 DEF n
  <2> DEFINE u == F(k) \o s[k+1]
  <2>4. /\ IsList(u) /\ DOMAIN u = 1 .. Len(F(k)) + Len(s[k+1])
        /\ \A i \in 1 .. Len(F(k)) : u[i] = F(k)[i]
        /\ \A i \in 1 .. Len(s[k+1]) : u[Len(F(k)) + i] = s[k+1][i]
        /\ Range(u) = Range(F(k)) \cup Range(s[k+1])
    <3>1. IsList(F(k)) /\ IsList(s[k+1])
      BY <2>2, <2>3
    <3> QED BY <3>1, ConcatLists
  <2>5. Len(F(k)) \in Nat /\ Len(s[k+1]) \in Nat /\ DOMAIN F(k) = 1 .. Len(F(k))
    BY <2>2, <2>3, ListFacts
  <2> HIDE DEF u
  <2>6. UNION {Range(s[i]) : i \in 1 .. k+1} = (UNION {Range(s[i]) : i \in 1 .. k}) \cup Range(s[k+1])
    <3>1. 1 .. k + 1 = (1 .. k) \cup {k + 1}
      OBVIOUS
    <3> QED BY <3>1
  <2>7. ASSUME NEW j \in 1 .. k+1, NEW i \in 1 .. Len(s[j])
        PROVE  Len(F(j-1)) + i \in DOMAIN u /\ u[Len(F(j-1)) + i] = s[j][i]
    <3>1. CASE j = k + 1
      <4>1. j - 1 = k /\ i \in 1 .. Len(s[k+1])
        BY <2>1, <3>1
      <4>2. Len(F(k)) + i \in 1 .. Len(F(k)) + Len(s[k+1])
        BY <2>5, <4>1
      <4> QED BY <2>4, <3>1, <4>1, <4>2
    <3>2. CASE j # k + 1
      <4>1. j \in 1 .. k
        BY <3>2
      <4>2. Len(F(j-1)) + i \in DOMAIN F(k) /\ F(k)[Len(F(j-1)) + i] = s[j][i]
        BY <2>2, <4>1
      <4>3. Len(F(j-1)) + i \in 1 .. Len(F(k)) /\ Len(F(j-1)) + i \in 1 .. Len(F(k)) + Len(s[k+1])
        BY <2>5, <4>2
      <4> QED BY <2>4, <4>2, <4>3
    <3> QED BY <3>1, <3>2
  <2>8. F(k+1) = u
    BY <2>3 DEF u
  <2> HIDE DEF Good
  <2> QED BY <2>2, <2>4, <2>6, <2>7, <2>8
<1>4. \A k \in 0 .. n : k \in Good
  <2> HIDE DEF Good
  <2> QED BY <1>2, <1>3, NatSetInduction
<1>5. n \in Good /\ \A k \in 1 .. n : k - 1 \in Good /\ k - 1 \in 0 .. n
  <2> HIDE DEF Good
  <2> QED BY <1>0, <1>4
<1>6. n \in 0 .. n
  BY <1>0
<1>7. \A k \in 1 .. n : IsList(F(k-1))
  BY <1>5
<1> QED BY <1>0, <1>1, <1>5, <1>6, <1>7 DEF F, n

-----------------------------------------------------------------------------
(* Choosing from lists: Selected, Ranked and Product of RowOrder.          *)
LEMMA SmallerIsTotal ==
  ASSUME NEW S \in SUBSET Int
  PROVE  IsTotalOrder({pair \in S \X S : pair[1] < pair[2]}, S)
<1> DEFINE order == {pair \in S \X S : pair[1] < pair[2]}
<1>1. \A x, y \in S : <<x, y>> \in order <=> x < y
  OBVIOUS
<1> HIDE DEF order
<1>2. IsTotalOrder(order, S)
  <2>1. \A x \in S : <<x, x>> \notin order
    BY <1>1
  <2>2. \A x, y \in S : x \in Int /\ y \in Int /\ (x = y \/ x < y \/ y < x)
    OBVIOUS
  <2>3. \A x, y, z \in S : <<x, y>> \in order /\ <<y, z>> \in order => <<x, z>> \in order
    BY <1>1
  <2>4. \A x, y \in S : x = y \/ <<x, y>> \in order \/ <<y, x>> \in order
    BY <1>1, <2>2, Zenon
  <2> HIDE DEF order
  <2> QED BY <2>1, <2>3, <2>4 DEF IsTotalOrder
<1> QED BY <1>2 DEF order

LEMMA SelectedFacts ==
  ASSUME NEW s, IsList(s), NEW places \in SUBSET (DOMAIN s)
  PROVE  LET u == Selected(s, places)
         IN  /\ IsList(u) /\ Len(u) = Cardinality(places) /\ Cardinality(places) \in Nat
             /\ Range(u) = {s[p] : p \in places}
<1> DEFINE order == {pair \in places \X places : pair[1] < pair[2]}
           a == Arranged(places, order)
           u == Selected(s, places)
           N == Cardinality(places)
<1>1. Len(s) \in Nat /\ DOMAIN s = 1 .. Len(s)
  BY ListFacts
<1>2. IsFiniteSet(places) /\ places \in SUBSET Int
  <2>1. IsFiniteSet(1 .. Len(s))
    BY <1>1, FS_Interval
  <2> QED BY <1>1, <2>1, FS_Subset
<1>3. IsTotalOrder(order, places)
  BY <1>2, SmallerIsTotal
<1> HIDE DEF order
<1>4. N \in Nat /\ a \in [1 .. N -> places] /\ Range(a) = places
  BY <1>2, <1>3, ArrangedInOrder
<1>5. u = [n \in DOMAIN a |-> s[a[n]]]
  BY DEF Selected, Ascending, a, order
<1> HIDE DEF a, u, N
<1>6. u = [n \in 1 .. N |-> s[a[n]]]
  BY <1>4, <1>5
<1>7. u = [n \in 1 .. N |-> u[n]]
  BY <1>6
<1>8. IsList(u) /\ Len(u) = N /\ DOMAIN u = 1 .. N
  BY <1>4, <1>7, ListWith
<1>9. Range(u) = {s[p] : p \in places}
  <2>1. \A n \in 1 .. N : u[n] = s[a[n]] /\ a[n] \in places
    BY <1>4, <1>6
  <2>2. \A p \in places : \E n \in 1 .. N : u[n] = s[p]
    <3> TAKE p \in places
    <3>1. PICK n \in 1 .. N : a[n] = p
      BY <1>4 DEF Range
    <3> QED BY <1>6, <3>1
  <2> QED BY <1>8, <2>1, <2>2 DEF Range
<1> QED BY <1>4, <1>8, <1>9 DEF u, N

LEMMA FiniteFunctions ==
  ASSUME NEW T, IsFiniteSet(T), NEW n \in Nat
  PROVE  IsFiniteSet([1 .. n -> T])
<1> DEFINE Good == {k \in Nat : IsFiniteSet([1 .. k -> T])}
<1>1. 0 \in Good
  <2>1. \A f \in [1 .. 0 -> T] : f = [i \in 1 .. 0 |-> 0]
    OBVIOUS
  <2>2. [1 .. 0 -> T] \in SUBSET {[i \in 1 .. 0 |-> 0]}
    BY <2>1
  <2>3. IsFiniteSet({[i \in 1 .. 0 |-> 0]})
    BY FS_Singleton
  <2>4. IsFiniteSet([1 .. 0 -> T])
    BY <2>2, <2>3, FS_Subset
  <2> QED BY <2>4
<1>2. ASSUME NEW k \in Nat, k \in Good  PROVE k + 1 \in Good
  <2> DEFINE P == [1 .. k -> T] \X T
             g == [z \in P |-> [i \in 1 .. k + 1 |-> IF i = k + 1 THEN z[2] ELSE z[1][i]]]
  <2>1. IsFiniteSet(P)
    BY <1>2, FS_Product
  <2>2. IsFiniteSet({g[z] : z \in P})
    <3> HIDE DEF P, g
    <3> QED BY <2>1, FiniteImage
  <2>3. ASSUME NEW f \in [1 .. k + 1 -> T]
        PROVE  f \in {g[z] : z \in P}
    <3> DEFINE h == [i \in 1 .. k |-> f[i]]
               z == <<h, f[k + 1]>>
    <3>1. \A i \in 1 .. k : i \in 1 .. k + 1
      OBVIOUS
    <3>2. h \in [1 .. k -> T] /\ f[k + 1] \in T
      BY <3>1
    <3> HIDE DEF h
    <3>3. z \in P
      BY <3>2
    <3>4. \A i \in 1 .. k + 1 : i # k + 1 => i \in 1 .. k /\ h[i] = f[i]
      BY DEF h
    <3>5. f = [i \in 1 .. k + 1 |-> IF i = k + 1 THEN f[k + 1] ELSE h[i]]
      BY <3>4
    <3>6. g[z] = [i \in 1 .. k + 1 |-> IF i = k + 1 THEN z[2] ELSE z[1][i]]
      BY <3>3
    <3>7. g[z] = f
      BY <3>5, <3>6
    <3> HIDE DEF g, P, z
    <3> QED BY <3>3, <3>7
  <2>4. [1 .. k + 1 -> T] \in SUBSET {g[z] : z \in P}
    <3> HIDE DEF g, P
    <3> QED BY <2>3
  <2>5. IsFiniteSet([1 .. k + 1 -> T])
    <3> HIDE DEF g, P
    <3> QED BY <2>2, <2>4, FS_Subset
  <2> QED BY <2>5
<1> HIDE DEF Good
<1>3. n \in Good
  BY <1>1, <1>2, NatSetInduction
<1> QED BY <1>3 DEF Good

(* The lexicographic order.                                                *)
LEMMA RankIsTotal ==
  ASSUME NEW n \in Nat, NEW S \in SUBSET [1 .. n -> Int]
  PROVE  IsTotalOrder({pair \in S \X S : RankBefore(pair[1], pair[2])}, S)
<1> DEFINE order == {pair \in S \X S : RankBefore(pair[1], pair[2])}
<1>1. ASSUME NEW x \in S, NEW y \in S
      PROVE  <<x, y>> \in order <=>
               \E i \in 1 .. n : x[i] < y[i] /\ \A m \in 1 .. i - 1 : x[m] = y[m]
  <2>1. DOMAIN x = 1 .. n
    OBVIOUS
  <2> QED BY <2>1 DEF RankBefore
<1> HIDE DEF order
<1>2. \A x \in S : \A i \in 1 .. n : x[i] \in Int
  OBVIOUS
<1>3. \A x \in S : <<x, x>> \notin order
  <2> SUFFICES ASSUME NEW x \in S, <<x, x>> \in order  PROVE FALSE
    OBVIOUS
  <2>1. PICK i \in 1 .. n : x[i] < x[i]
    BY <1>1
  <2> QED BY <1>2, <2>1
<1>4. ASSUME NEW x \in S, NEW y \in S, x # y
      PROVE  <<x, y>> \in order \/ <<y, x>> \in order
  <2> DEFINE D == {i \in 1 .. n : x[i] # y[i]}
  <2>1. D # {}
    <3>1. x \in [1 .. n -> Int] /\ y \in [1 .. n -> Int]
      OBVIOUS
    <3> QED BY <1>4, <3>1
  <2>2. D \in SUBSET Nat
    OBVIOUS
  <2>3. PICK i \in D : \A j \in D : i <= j
    <3> HIDE DEF D
    <3> QED BY <2>1, <2>2, LeastElement
  <2>4. \A m \in 1 .. i - 1 : x[m] = y[m]
    <3> SUFFICES ASSUME NEW m \in 1 .. i - 1, x[m] # y[m]  PROVE FALSE
      OBVIOUS
    <3>1. i \in 1 .. n /\ m \in 1 .. n /\ m < i
      OBVIOUS
    <3>2. m \in D
      BY <3>1
    <3> QED BY <2>3, <3>1, <3>2
  <2>5. x[i] < y[i] \/ y[i] < x[i]
    <3>1. x[i] \in Int /\ y[i] \in Int /\ x[i] # y[i]
      BY <1>2
    <3> QED BY <3>1
  <2>6. i \in 1 .. n
    OBVIOUS
  <2> HIDE DEF D
  <2>7. CASE x[i] < y[i]
    BY <1>1, <2>4, <2>6, <2>7
  <2>8. CASE y[i] < x[i]
    BY <1>1, <2>4, <2>6, <2>8
  <2> QED BY <2>5, <2>7, <2>8
<1>5. ASSUME NEW x \in S, NEW y \in S, NEW z \in S, <<x, y>> \in order, <<y, z>> \in order
      PROVE  <<x, z>> \in order
  <2>1. PICK i \in 1 .. n : x[i] < y[i] /\ \A m \in 1 .. i - 1 : x[m] = y[m]
    BY <1>1, <1>5
  <2>2. PICK j \in 1 .. n : y[j] < z[j] /\ \A m \in 1 .. j - 1 : y[m] = z[m]
    BY <1>1, <1>5
  <2>3. \A m \in 1 .. n : x[m] \in Int /\ y[m] \in Int /\ z[m] \in Int
    BY <1>2
  <2>4. CASE i < j
    <3>1. i \in 1 .. j - 1 /\ y[i] = z[i]
      BY <2>2, <2>4
    <3>2. \A m \in 1 .. i - 1 : m \in 1 .. j - 1 /\ x[m] = z[m]
      BY <2>1, <2>2, <2>4
    <3> QED BY <1>1, <2>1, <3>1, <3>2
  <2>5. CASE i = j
    <3>1. x[i] < z[i]
      BY <2>1, <2>2, <2>3, <2>5
    <3>2. \A m \in 1 .. i - 1 : x[m] = z[m]
      BY <2>1, <2>2, <2>5
    <3> QED BY <1>1, <3>1, <3>2
  <2>6. CASE j < i
    <3>1. j \in 1 .. i - 1 /\ x[j] = y[j]
      BY <2>1, <2>6
    <3>2. \A m \in 1 .. j - 1 : m \in 1 .. i - 1 /\ x[m] = z[m]
      BY <2>1, <2>2, <2>6
    <3> QED BY <1>1, <2>2, <3>1, <3>2
  <2> QED BY <2>4, <2>5, <2>6
<1>6. IsTotalOrder(order, S)
  BY <1>3, <1>4, <1>5 DEF IsTotalOrder
<1> QED BY <1>6 DEF order

(* A product has every choice of one element of each list.                 *)
LEMMA ProductFacts ==
  ASSUME NEW n \in Nat, NEW options, DOMAIN options = 1 .. n,
         \A o \in 1 .. n : IsList(options[o])
  PROVE  LET u == Product(options)
         IN  /\ IsList(u)
             /\ Range(u) = {x \in [1 .. n -> UNION {Range(options[o]) : o \in 1 .. n}] :
                              \A o \in 1 .. n : x[o] \in Range(options[o])}
<1> DEFINE C == Selections(options)
           order == {pair \in C \X C : RankBefore(pair[1], pair[2])}
           a == Ranked(C)
           u == Product(options)
           U == UNION {DOMAIN options[o] : o \in 1 .. n}
           R == UNION {Range(options[o]) : o \in 1 .. n}
           of(c) == [o \in 1 .. n |-> options[o][c[o]]]
           N == Cardinality(C)
<1>1. \A o \in 1 .. n : Len(options[o]) \in Nat /\ DOMAIN options[o] = 1 .. Len(options[o])
  BY ListFacts
<1>2. C = {c \in [1 .. n -> U] : \A o \in 1 .. n : c[o] \in DOMAIN options[o]}
  BY DEF Selections
<1>3. IsFiniteSet(U) /\ U \in SUBSET Int
  <2>1. \A o \in 1 .. n : IsFiniteSet(DOMAIN options[o])
    <3> TAKE o \in 1 .. n
    <3>1. Len(options[o]) \in Int /\ DOMAIN options[o] = 1 .. Len(options[o])
      BY <1>1
    <3>2. IsFiniteSet(1 .. Len(options[o]))
      BY <3>1, FS_Interval
    <3> QED BY <3>1, <3>2
  <2> DEFINE g == [o \in 1 .. n |-> DOMAIN options[o]]
  <2>2. IsFiniteSet(1 .. n)
    BY FS_Interval
  <2>3. IsFiniteSet({g[o] : o \in 1 .. n})
    <3> HIDE DEF g
    <3> QED BY <2>2, FiniteImage
  <2>4. {g[o] : o \in 1 .. n} = {DOMAIN options[o] : o \in 1 .. n}
    OBVIOUS
  <2>5. IsFiniteSet(U)
    BY <2>1, <2>3, <2>4, FS_UNION
  <2> QED BY <1>1, <2>5
<1> HIDE DEF U, C
<1>4. IsFiniteSet(C) /\ C \in SUBSET [1 .. n -> Int]
  <2>1. IsFiniteSet([1 .. n -> U]) /\ C \in SUBSET [1 .. n -> U]
    BY <1>2, <1>3, FiniteFunctions
  <2>2. [1 .. n -> U] \in SUBSET [1 .. n -> Int]
    BY <1>3
  <2> QED BY <2>1, <2>2, FS_Subset
<1>5. N \in Nat /\ a \in [1 .. N -> C] /\ Range(a) = C
  <2>1. IsTotalOrder(order, C)
    BY <1>4, RankIsTotal
  <2> HIDE DEF order
  <2>2. a = Arranged(C, order)
    BY DEF Ranked, order
  <2> HIDE DEF a
  <2> QED BY <1>4, <2>1, <2>2, ArrangedInOrder
<1>6. u = [i \in 1 .. N |-> of(a[i])]
  <2>1. u = [i \in DOMAIN a |-> [o \in DOMAIN options |-> options[o][a[i][o]]]]
    BY DEF Product, C
  <2> HIDE DEF a, u
  <2> QED BY <1>5, <2>1
<1> HIDE DEF a, N, u
<1>7. IsList(u) /\ DOMAIN u = 1 .. N
  <2>1. u = [i \in 1 .. N |-> u[i]]
    BY <1>6
  <2> QED BY <1>5, <2>1, ListWith
<1>8. Range(u) = {of(c) : c \in C}
  <2> HIDE DEF of
  <2>1. \A i \in 1 .. N : u[i] = of(a[i]) /\ a[i] \in C
    BY <1>5, <1>6
  <2>2. \A c \in C : \E i \in 1 .. N : u[i] = of(c)
    <3> TAKE c \in C
    <3>1. PICK i \in 1 .. N : a[i] = c
      BY <1>5 DEF Range
    <3> QED BY <1>6, <3>1
  <2> QED BY <1>7, <2>1, <2>2 DEF Range
<1>9. ASSUME NEW c \in C
      PROVE  of(c) \in [1 .. n -> R] /\ \A o \in 1 .. n : of(c)[o] \in Range(options[o])
  <2>1. \A o \in 1 .. n : options[o][c[o]] \in Range(options[o])
    BY <1>2 DEF Range
  <2> QED BY <2>1
<1>10. ASSUME NEW x \in [1 .. n -> R], \A o \in 1 .. n : x[o] \in Range(options[o])
       PROVE  \E c \in C : of(c) = x
  <2> DEFINE c == [o \in 1 .. n |-> CHOOSE i \in DOMAIN options[o] : options[o][i] = x[o]]
  <2>1. \A o \in 1 .. n : c[o] \in DOMAIN options[o] /\ options[o][c[o]] = x[o]
    <3> TAKE o \in 1 .. n
    <3>1. \E i \in DOMAIN options[o] : options[o][i] = x[o]
      BY <1>10 DEF Range
    <3> QED BY <3>1
  <2>2. c \in [1 .. n -> U]
    <3>1. \A o \in 1 .. n : c[o] \in U
      BY <2>1 DEF U
    <3>2. c = [o \in 1 .. n |-> c[o]]
      OBVIOUS
    <3> HIDE DEF c
    <3> QED BY <3>1, <3>2
  <2> HIDE DEF c
  <2>3. c \in C
    BY <1>2, <2>1, <2>2
  <2>4. of(c) = x
    BY <2>1
  <2> QED BY <2>3, <2>4
<1> HIDE DEF of
<1>11. {of(c) : c \in C} = {x \in [1 .. n -> R] : \A o \in 1 .. n : x[o] \in Range(options[o])}
  <2> HIDE DEF R
  <2>1. \A c \in C : of(c) \in {x \in [1 .. n -> R] : \A o \in 1 .. n : x[o] \in Range(options[o])}
    BY <1>9
  <2>2. \A x \in {x \in [1 .. n -> R] : \A o \in 1 .. n : x[o] \in Range(options[o])} :
          \E c \in C : x = of(c)
    BY <1>10
  <2> QED BY <2>1, <2>2
<1> QED BY <1>7, <1>8, <1>11 DEF u

-----------------------------------------------------------------------------
(* Pages and locations as values.                                          *)

(* Rows go to the pages in order, as many to each as it takes for all of   *)
(* them to find a place.                                                   *)
LEMMA PageLayout ==
  ASSUME NEW rows, rows \in Seq(Range(rows)), NEW target \in Nat
  PROVE  LET count == PageCount(rows, target)
             size == RowsPerPage(rows, target)
         IN  /\ count \in Nat \ {0} /\ size \in Nat \ {0}
             /\ Len(rows) \in Nat /\ Len(rows) <= count * size
             /\ count * size \in Nat
<1> DEFINE n == Len(rows)
           count == PageCount(rows, target)
           c == CeilDiv(n, count)
<1>1. n \in Nat
  BY LenProperties
<1>2. count \in Nat \ {0}
  <2>1. CeilDiv(n, TableTuplesPerPage) \in Nat
    BY <1>1, CeilDivBounds, StorageAssumption
  <2>2. AtLeastOne(CeilDiv(n, TableTuplesPerPage)) \in Nat \ {0}
    BY <2>1 DEF AtLeastOne, AtLeast
  <2> QED BY <2>2 DEF PageCount
<1> HIDE DEF count
<1>3. c \in Nat /\ n <= count * c
  BY <1>1, <1>2, CeilDivBounds
<1>4. RowsPerPage(rows, target) = AtLeastOne(c)
  BY DEF RowsPerPage, count
<1> HIDE DEF c
<1>5. AtLeastOne(c) \in Nat \ {0} /\ c <= AtLeastOne(c)
  BY <1>3 DEF AtLeastOne, AtLeast
<1>6. count * c <= count * AtLeastOne(c)
  BY <1>2, <1>3, <1>5, TimesMonotonic
<1>7. count * c \in Nat /\ count * AtLeastOne(c) \in Nat
  BY <1>2, <1>3, <1>5, SMT
<1> QED BY <1>1, <1>2, <1>3, <1>4, <1>5, <1>6, <1>7 DEF count

Slices(pages, rows, count, size) ==
  /\ DOMAIN pages = 1 .. count /\ Len(pages) = count
  /\ \A p \in 1 .. count : \A o \in Nat \ {0} :
       o \in DOMAIN pages[p] <=> o <= size /\ (size * (p - 1)) + o <= Len(rows)
  /\ \A p \in 1 .. count : \A o \in DOMAIN pages[p] :
       o \in Nat \ {0} /\ pages[p][o] = rows[(size * (p - 1)) + o]

LEMMA RowsOfPage ==
  ASSUME NEW rows, rows \in Seq(Range(rows)), NEW target \in Nat
  PROVE  Slices(MakePages(rows, target), rows, PageCount(rows, target),
                RowsPerPage(rows, target))
<1> DEFINE n == Len(rows)
           count == PageCount(rows, target)
           size == RowsPerPage(rows, target)
           pages == MakePages(rows, target)
           last(start) == IF start + size < n THEN start + size ELSE n
<1>1. count \in Nat \ {0} /\ size \in Nat \ {0} /\ n \in Nat
  BY PageLayout
<1>2. pages = [p \in 1 .. count |->
                 SubSeq(rows, ((p - 1) * size) + 1, last((p - 1) * size))]
  BY DEF MakePages
<1> HIDE DEF count, size, pages
<1>3. DOMAIN pages = 1 .. count /\ Len(pages) = count
  <2>1. DOMAIN pages = 1 .. count
    BY <1>2
  <2>2. \A p \in 1 .. count : pages[p] \in {pages[q] : q \in 1 .. count}
    OBVIOUS
  <2>3. pages \in [1 .. count -> {pages[q] : q \in 1 .. count}]
    BY <1>2, <2>2
  <2>4. Len(pages) = count
    BY <1>1, <2>3, LenProperties
  <2> QED BY <2>1, <2>4
<1>4. ASSUME NEW p \in 1 .. count
      PROVE  /\ \A o \in Nat \ {0} :
                  o \in DOMAIN pages[p] <=> o <= size /\ (size * (p - 1)) + o <= n
             /\ \A o \in DOMAIN pages[p] :
                  o \in Nat \ {0} /\ pages[p][o] = rows[(size * (p - 1)) + o]
  <2> DEFINE start == size * (p - 1)
             end == last(start)
             page == SubSeq(rows, start + 1, end)
  <2>1. start \in Nat /\ start = (p - 1) * size
    BY <1>1, SMT
  <2>2. pages[p] = page
    BY <1>2, <2>1
  <2> HIDE DEF start
  <2>3. /\ end \in Int /\ end <= n /\ end <= start + size
        /\ end < n => end = start + size
    BY <1>1, <2>1
  <2> HIDE DEF end
  <2>4. \A i \in start + 1 .. end : rows[i] \in Range(rows)
    <3>1. \A i \in start + 1 .. end : i \in 1 .. n
      BY <1>1, <2>1, <2>3
    <3> QED BY <3>1, ElementOfSeq
  <2>5. /\ page \in Seq(Range(rows))
        /\ Len(page) = IF start + 1 <= end THEN end - (start + 1) + 1 ELSE 0
        /\ \A i \in 1 .. end - (start + 1) + 1 : page[i] = rows[(start + 1) + i - 1]
    BY <2>1, <2>3, <2>4, SubSeqProperties
  <2>6. DOMAIN page = 1 .. Len(page) /\ Len(page) \in Nat
    BY <2>5, LenProperties
  <2> HIDE DEF page
  <2>7. \A o \in Nat \ {0} : o \in DOMAIN page <=> o <= size /\ start + o <= n
    BY <1>1, <2>1, <2>3, <2>5, <2>6
  <2>8. ASSUME NEW o \in DOMAIN page
        PROVE  o \in Nat \ {0} /\ page[o] = rows[start + o]
    <3>1. o \in 1 .. end - (start + 1) + 1 /\ o \in Nat \ {0}
      BY <2>1, <2>3, <2>5, <2>6
    <3>2. (start + 1) + o - 1 = start + o
      BY <2>1, <3>1
    <3>3. page[o] = rows[(start + 1) + o - 1]
      BY <2>5, <3>1
    <3> QED BY <3>1, <3>2, <3>3
  <2> QED BY <2>2, <2>7, <2>8 DEF start
<1>5. Slices(pages, rows, count, size)
  BY <1>3, <1>4 DEF Slices
<1> QED BY <1>5 DEF count, size, pages

(* The locations of the pages are the places of the rows.                  *)
LEMMA LocationsArePlaces ==
  ASSUME NEW rows, rows \in Seq(Range(rows)), NEW target \in Nat
  PROVE  LET size == RowsPerPage(rows, target)
             pages == MakePages(rows, target)
         IN  /\ RowLocations(pages) = {PlaceOf(i, size) : i \in 1 .. Len(rows)}
             /\ \A i \in 1 .. Len(rows) : RowAt(pages, PlaceOf(i, size)) = rows[i]
<1> DEFINE n == Len(rows)
           count == PageCount(rows, target)
           size == RowsPerPage(rows, target)
           pages == MakePages(rows, target)
<1>1. /\ count \in Nat \ {0} /\ size \in Nat \ {0} /\ n \in Nat
      /\ n <= count * size /\ count * size \in Nat
  BY PageLayout
<1>2. /\ DOMAIN pages = 1 .. count
      /\ \A p \in 1 .. count : \A o \in Nat \ {0} :
           o \in DOMAIN pages[p] <=> o <= size /\ (size * (p - 1)) + o <= n
      /\ \A p \in 1 .. count : \A o \in DOMAIN pages[p] :
           o \in Nat \ {0} /\ pages[p][o] = rows[(size * (p - 1)) + o]
  <2>1. Slices(pages, rows, count, size)
    BY RowsOfPage
  <2> HIDE DEF pages, count, size
  <2> QED BY <2>1 DEF Slices
<1> HIDE DEF n, count, size, pages
<1>3. \A l : l \in RowLocations(pages) <=>
        \E p \in 1 .. count : \E o \in DOMAIN pages[p] : l = <<p, o>>
  BY <1>2 DEF RowLocations
<1>4. ASSUME NEW i \in 1 .. n
      PROVE  PlaceOf(i, size) \in RowLocations(pages) /\ RowAt(pages, PlaceOf(i, size)) = rows[i]
  <2> DEFINE q == (i - 1) \div size
             r == (i - 1) % size
  <2>1. i \in 1 .. count * size
    BY <1>1
  <2>2. q \in 0 .. count - 1 /\ r \in 0 .. size - 1 /\ i = (size * q) + r + 1
    BY <1>1, <2>1, RowAndColumn
  <2>3. PlaceOf(i, size) = <<1 + q, 1 + r>>
    BY DEF PlaceOf
  <2> HIDE DEF q, r
  <2> DEFINE p == 1 + q
             o == 1 + r
  <2>4. p \in 1 .. count /\ o \in Nat \ {0} /\ o <= size /\ p - 1 = q
    BY <1>1, <2>2
  <2>5. size * q \in Nat
    BY <1>1, <2>2, SMT
  <2>6. (size * (p - 1)) + o = i
    BY <2>2, <2>4, <2>5
  <2>7. i <= n
    BY <1>1
  <2> HIDE DEF p, o
  <2>8. o \in DOMAIN pages[p]
    BY <1>2, <2>4, <2>6, <2>7
  <2>9. pages[p][o] = rows[i]
    BY <1>2, <2>4, <2>6, <2>8
  <2>10. PlaceOf(i, size) = <<p, o>>
    BY <2>3 DEF p, o
  <2> QED BY <1>3, <2>4, <2>8, <2>9, <2>10 DEF RowAt
<1>5. ASSUME NEW p \in 1 .. count, NEW o \in DOMAIN pages[p]
      PROVE  \E i \in 1 .. n : <<p, o>> = PlaceOf(i, size)
  <2>1. o \in Nat \ {0}
    BY <1>2
  <2>2. o <= size /\ (size * (p - 1)) + o <= n
    BY <1>2, <2>1
  <2> DEFINE x == p - 1
             y == o - 1
             i == (size * x) + y + 1
  <2>3. x \in 0 .. count - 1 /\ y \in 0 .. size - 1
    BY <1>1, <2>1, <2>2
  <2>4. size * x \in Nat /\ x + 1 = p /\ y + 1 = o /\ x = p - 1
    BY <1>1, <2>1, <2>3, SMT
  <2> HIDE DEF x, y
  <2>5. (i - 1) \div size = x /\ (i - 1) % size = y /\ i \in 1 .. count * size
    BY <1>1, <2>3, PlaceOfRowAndColumn
  <2>6. i = (size * (p - 1)) + o
    BY <2>1, <2>3, <2>4
  <2> HIDE DEF i
  <2>7. i \in 1 .. n
    BY <1>1, <2>2, <2>5, <2>6
  <2>8. PlaceOf(i, size) = <<p, o>>
    <3>1. 1 + x = p /\ 1 + y = o
      BY <2>1, <2>3, <2>4
    <3> QED BY <2>5, <3>1 DEF PlaceOf
  <2> QED BY <2>7, <2>8
<1>6. RowLocations(pages) = {PlaceOf(i, size) : i \in 1 .. n}
  BY <1>3, <1>4, <1>5
<1> QED BY <1>4, <1>6 DEF n, size, pages

LEMMA ScanOrderIsTotal ==
  ASSUME NEW L \in SUBSET (Nat \X Nat)
  PROVE  IsTotalOrder({pair \in L \X L :
                         LET l == pair[1]
                             m == pair[2]
                         IN  l[1] < m[1] \/ (l[1] = m[1] /\ l[2] < m[2])}, L)
<1> DEFINE before(l, m) == l[1] < m[1] \/ (l[1] = m[1] /\ l[2] < m[2])
           order == {pair \in L \X L : before(pair[1], pair[2])}
<1>1. \A l \in L : l[1] \in Nat /\ l[2] \in Nat /\ l = <<l[1], l[2]>>
  OBVIOUS
<1>2. \A l, m \in L : <<l, m>> \in order <=> before(l, m)
  OBVIOUS
<1> HIDE DEF order
<1>3. \A l \in L : ~before(l, l)
  BY <1>1
<1>4. \A l, m \in L : l = m \/ before(l, m) \/ before(m, l)
  <2> SUFFICES ASSUME NEW l \in L, NEW m \in L, ~before(l, m), ~before(m, l)
               PROVE  l = m
    OBVIOUS
  <2>1. l[1] = m[1] /\ l[2] = m[2]
    BY <1>1
  <2> QED BY <1>1, <2>1
<1>5. \A l, m, k \in L : before(l, m) /\ before(m, k) => before(l, k)
  BY <1>1
<1>6. IsTotalOrder(order, L)
  <2> HIDE DEF before
  <2> QED BY <1>2, <1>3, <1>4, <1>5 DEF IsTotalOrder
<1> QED BY <1>6 DEF order

LEMMA AscendingInOrder ==
  ASSUME NEW n \in Nat, NEW M \in SUBSET (1 .. n)
  PROVE  LET s == Ascending(M)
             N == Cardinality(M)
         IN  /\ IsTotalOrder({pair \in M \X M : pair[1] < pair[2]}, M)
             /\ N \in Nat /\ s \in [1 .. N -> M] /\ Range(s) = M
             /\ \A j, k \in 1 .. N : j < k => s[j] < s[k]
<1> DEFINE order == {pair \in M \X M : pair[1] < pair[2]}
           s == Arranged(M, order)
           N == Cardinality(M)
<1>1. \A x, y \in M : <<x, y>> \in order <=> x < y
  OBVIOUS
<1> HIDE DEF order
<1>2. IsTotalOrder(order, M)
  <2>1. \A x \in M : x \in Int
    OBVIOUS
  <2> QED BY <1>1, <2>1 DEF IsTotalOrder
<1>3. IsFiniteSet(M)
  <2>1. IsFiniteSet(1 .. n)
    BY FS_Interval
  <2> QED BY <2>1, FS_Subset
<1>4. /\ N \in Nat /\ s \in [1 .. N -> M] /\ Range(s) = M
      /\ \A j, k \in 1 .. N : j < k => <<s[j], s[k]>> \in order
  BY <1>2, <1>3, ArrangedInOrder
<1> HIDE DEF s, N
<1>5. \A j, k \in 1 .. N : j < k => s[j] < s[k]
  BY <1>1, <1>4
<1> QED BY <1>2, <1>4, <1>5 DEF Ascending, order, s, N

(* Rows in ascending order are at locations in scan order.                 *)
LEMMA PlacesAscend ==
  ASSUME NEW n \in Nat, NEW M \in SUBSET (1 .. n), NEW size \in Nat \ {0}
  PROVE  LET s == Ascending(M)
         IN  InScanOrder({PlaceOf(i, size) : i \in M}) = [k \in DOMAIN s |-> PlaceOf(s[k], size)]
<1> DEFINE s == Ascending(M)
           N == Cardinality(M)
           L == {PlaceOf(i, size) : i \in M}
           order == {pair \in L \X L :
                       LET l == pair[1]
                           m == pair[2]
                       IN  l[1] < m[1] \/ (l[1] = m[1] /\ l[2] < m[2])}
           t == [k \in 1 .. N |-> PlaceOf(s[k], size)]
<1>1. /\ N \in Nat /\ s \in [1 .. N -> M] /\ Range(s) = M
      /\ \A j, k \in 1 .. N : j < k => s[j] < s[k]
  BY AscendingInOrder
<1> HIDE DEF s, N
<1>2. \A i \in M : i \in Nat \ {0}
  OBVIOUS
<1>3. L \in SUBSET (Nat \X Nat)
  <2>1. ASSUME NEW i \in M
        PROVE  (i - 1) \div size \in Nat /\ (i - 1) % size \in Nat
    <3>1. i - 1 \in Nat
      BY <1>2
    <3> QED BY <3>1, SMT
  <2>2. \A i \in M : PlaceOf(i, size) \in Nat \X Nat
    <3> SUFFICES ASSUME NEW i \in M  PROVE PlaceOf(i, size) \in Nat \X Nat
      OBVIOUS
    <3>1. 1 + ((i - 1) \div size) \in Nat /\ 1 + ((i - 1) % size) \in Nat
      BY <2>1
    <3> QED BY <3>1 DEF PlaceOf
  <2> QED BY <2>2
<1>4. IsTotalOrder(order, L)
  BY <1>3, ScanOrderIsTotal
<1>5. \A l, m : <<l, m>> \in order <=>
        l \in L /\ m \in L /\ (l[1] < m[1] \/ (l[1] = m[1] /\ l[2] < m[2]))
  OBVIOUS
<1>6. \A i \in M : PlaceOf(i, size) \in L
  OBVIOUS
<1>7. \A l \in L : \E i \in M : l = PlaceOf(i, size)
  OBVIOUS
<1>8. InScanOrder(L) = Arranged(L, order)
  BY DEF InScanOrder
<1> HIDE DEF order, L
<1>9. \A k \in 1 .. N : s[k] \in M /\ t[k] = PlaceOf(s[k], size)
  BY <1>1
<1>10. t \in [1 .. N -> L]
  BY <1>6, <1>9
<1>11. Range(t) = L
  <2>1. ASSUME NEW l \in L  PROVE \E k \in 1 .. N : t[k] = l
    <3>1. PICK i \in M : l = PlaceOf(i, size)
      BY <1>7
    <3>2. PICK k \in 1 .. N : s[k] = i
      BY <1>1 DEF Range
    <3> QED BY <3>1, <3>2
  <2> HIDE DEF t
  <2> QED BY <1>10, <2>1 DEF Range
<1>12. ASSUME NEW j \in 1 .. N, NEW k \in 1 .. N, j < k
       PROVE  <<t[j], t[k]>> \in order
  <2>1. s[j] \in Nat \ {0} /\ s[k] \in Nat \ {0} /\ s[j] < s[k]
    BY <1>1, <1>2, <1>9, <1>12
  <2> DEFINE l == PlaceOf(s[j], size)
             m == PlaceOf(s[k], size)
  <2>2. l[1] < m[1] \/ (l[1] = m[1] /\ l[2] < m[2])
    BY <2>1, PlacesInOrder
  <2>3. l \in L /\ m \in L /\ t[j] = l /\ t[k] = m
    BY <1>6, <1>9
  <2> HIDE DEF l, m, t
  <2> QED BY <1>5, <2>2, <2>3
<1> HIDE DEF t
<1>13. t = Arranged(L, order)
  BY <1>1, <1>4, <1>10, <1>11, <1>12, ArrangedIs
<1>14. DOMAIN s = 1 .. N
  BY <1>1
<1> QED BY <1>8, <1>13, <1>14 DEF L, s, t

LEMMA AscendingAll ==
  ASSUME NEW n \in Nat
  PROVE  Ascending(1 .. n) = [i \in 1 .. n |-> i]
<1> DEFINE S == 1 .. n
           order == {pair \in S \X S : pair[1] < pair[2]}
           s == [i \in 1 .. n |-> i]
<1>1. IsTotalOrder(order, S)
  BY AscendingInOrder
<1>2. s \in [1 .. n -> S] /\ Range(s) = S
  BY DEF Range
<1>3. \A j, k \in 1 .. n : j < k => <<s[j], s[k]>> \in order
  OBVIOUS
<1> HIDE DEF s, order, S
<1>4. s = Arranged(S, order)
  BY <1>1, <1>2, <1>3, ArrangedIs
<1> QED BY <1>4 DEF Ascending, s, order, S

(* A scan of the pages meets the rows in order, and the locations of a     *)
(* value are those of the rows with it, in order.                          *)
LEMMA ScanOfPages ==
  ASSUME NEW rows, rows \in Seq(Range(rows)), NEW target \in Nat
  PROVE  LET pages == MakePages(rows, target)
             scan == ScanOrder(pages)
         IN  [n \in DOMAIN scan |-> RowAt(pages, scan[n])] = rows
<1> DEFINE n == Len(rows)
           size == RowsPerPage(rows, target)
           pages == MakePages(rows, target)
           scan == ScanOrder(pages)
<1>1. n \in Nat /\ DOMAIN rows = 1 .. n /\ size \in Nat \ {0}
  BY LenProperties, PageLayout
<1>2. /\ RowLocations(pages) = {PlaceOf(i, size) : i \in 1 .. n}
      /\ \A i \in 1 .. n : RowAt(pages, PlaceOf(i, size)) = rows[i]
  BY LocationsArePlaces
<1>3. rows = [i \in 1 .. n |-> rows[i]]
  BY <1>1
<1> HIDE DEF n, size, pages
<1>4. scan = InScanOrder({PlaceOf(i, size) : i \in 1 .. n})
  BY <1>2 DEF ScanOrder
<1> HIDE DEF scan
<1>5. scan = [k \in 1 .. n |-> PlaceOf(k, size)]
  <2> DEFINE M == 1 .. n
             a == Ascending(M)
  <2>1. M \in SUBSET (1 .. n)
    OBVIOUS
  <2>2. a = [i \in 1 .. n |-> i]
    BY <1>1, AscendingAll
  <2> HIDE DEF M, a
  <2>3. InScanOrder({PlaceOf(i, size) : i \in M}) = [k \in DOMAIN a |-> PlaceOf(a[k], size)]
    BY <1>1, <2>1, PlacesAscend DEF a
  <2>4. [k \in DOMAIN a |-> PlaceOf(a[k], size)] = [k \in 1 .. n |-> PlaceOf(k, size)]
    BY <2>2
  <2> QED BY <1>4, <2>3, <2>4 DEF M
<1>6. [k \in DOMAIN scan |-> RowAt(pages, scan[k])] = [k \in 1 .. n |-> rows[k]]
  <2>1. DOMAIN scan = 1 .. n /\ \A k \in 1 .. n : scan[k] = PlaceOf(k, size)
    BY <1>5
  <2>2. \A k \in 1 .. n : RowAt(pages, scan[k]) = rows[k]
    BY <1>2, <2>1
  <2> QED BY <2>1, <2>2
<1> QED BY <1>3, <1>6 DEF pages, scan

RowsWith(rows, column, v) == {j \in DOMAIN rows : rows[j][column] = v}

LEMMA LocationsOfValue ==
  ASSUME NEW rows, rows \in Seq(Range(rows)), NEW target \in Nat, NEW column, NEW v
  PROVE  LET pages == MakePages(rows, target)
             locations == LocationsOf(pages, column, v)
             scan == Ascending(RowsWith(rows, column, v))
         IN  [k \in DOMAIN locations |-> RowAt(pages, locations[k])]
               = [k \in DOMAIN scan |-> rows[scan[k]]]
<1> DEFINE n == Len(rows)
           size == RowsPerPage(rows, target)
           pages == MakePages(rows, target)
           M == RowsWith(rows, column, v)
           locations == LocationsOf(pages, column, v)
           scan == Ascending(M)
<1>1. n \in Nat /\ DOMAIN rows = 1 .. n /\ size \in Nat \ {0}
  BY LenProperties, PageLayout
<1>2. /\ RowLocations(pages) = {PlaceOf(i, size) : i \in 1 .. n}
      /\ \A i \in 1 .. n : RowAt(pages, PlaceOf(i, size)) = rows[i]
  BY LocationsArePlaces
<1> HIDE DEF n, size, pages
<1>3. \A i : i \in M <=> i \in 1 .. n /\ rows[i][column] = v
  BY <1>1 DEF RowsWith
<1>4. locations = InScanOrder({l \in RowLocations(pages) : RowAt(pages, l)[column] = v})
  BY DEF LocationsOf
<1> HIDE DEF M, locations, scan
<1>5. {l \in RowLocations(pages) : RowAt(pages, l)[column] = v} = {PlaceOf(i, size) : i \in M}
  <2>1. ASSUME NEW l, l \in RowLocations(pages), RowAt(pages, l)[column] = v
        PROVE  \E i \in M : l = PlaceOf(i, size)
    <3>1. PICK i \in 1 .. n : l = PlaceOf(i, size)
      BY <1>2, <2>1
    <3>2. rows[i][column] = v
      BY <1>2, <2>1, <3>1
    <3> QED BY <1>3, <3>1, <3>2
  <2>2. ASSUME NEW i \in M
        PROVE  PlaceOf(i, size) \in RowLocations(pages) /\ RowAt(pages, PlaceOf(i, size))[column] = v
    BY <1>2, <1>3
  <2> QED BY <2>1, <2>2
<1>6. M \in SUBSET (1 .. n)
  BY <1>3
<1>7. locations = [k \in DOMAIN scan |-> PlaceOf(scan[k], size)]
  <2>1. InScanOrder({PlaceOf(i, size) : i \in M}) = [k \in DOMAIN scan |-> PlaceOf(scan[k], size)]
    BY <1>1, <1>6, PlacesAscend DEF scan
  <2> QED BY <1>4, <1>5, <2>1
<1>8. \A k \in DOMAIN scan : scan[k] \in 1 .. n
  BY <1>1, <1>6, AscendingInOrder DEF scan
<1>9. [k \in DOMAIN locations |-> RowAt(pages, locations[k])] = [k \in DOMAIN scan |-> rows[scan[k]]]
  <2>1. DOMAIN locations = DOMAIN scan
        /\ \A k \in DOMAIN scan : locations[k] = PlaceOf(scan[k], size)
    BY <1>7
  <2>2. \A k \in DOMAIN scan : RowAt(pages, locations[k]) = rows[scan[k]]
    BY <1>2, <1>8, <2>1
  <2> QED BY <2>1, <2>2
<1> QED BY <1>9 DEF M, pages, locations, scan

-----------------------------------------------------------------------------
(* More of lists: the empty one, parts of one, and finite ones.            *)
LEMMA TailList ==
  ASSUME NEW s, IsList(s), s # <<>>
  PROVE  IsList(Tail(s)) /\ Range(Tail(s)) \subseteq Range(s)
<1>1. s \in Seq(Range(s))
  BY DEF IsList
<1> DEFINE T == Range(s)
<1> HIDE DEF T
<1>2. s \in Seq(T)
  BY <1>1 DEF T
<1>3. Tail(s) \in Seq(T)
  BY <1>2, HeadTailProperties
<1>4. IsList(Tail(s)) /\ Range(Tail(s)) \subseteq T
  BY <1>3, ListOf
<1> QED BY <1>4 DEF T

LEMMA EmptyList == IsList(<<>>) /\ Len(<<>>) = 0 /\ DOMAIN <<>> = {} /\ Range(<<>>) = {}
BY DEF IsList, Range

LEMMA PairRange == \A x, y : Range(<<x, y>>) = {x, y}
<1> TAKE x, y
<1>1. DOMAIN <<x, y>> = {1, 2} /\ <<x, y>>[1] = x /\ <<x, y>>[2] = y
  OBVIOUS
<1> QED BY <1>1 DEF Range

LEMMA SliceList ==
  ASSUME NEW s, IsList(s), NEW k \in 0 .. Len(s), NEW e \in k .. Len(s)
  PROVE  IsList(SubSeq(s, k + 1, e)) /\ Range(SubSeq(s, k + 1, e)) \subseteq Range(s)
<1> DEFINE n == e - k
           u == SubSeq(s, k + 1, e)
<1>1. Len(s) \in Nat /\ DOMAIN s = 1 .. Len(s) /\ Range(s) = {s[i] : i \in 1 .. Len(s)}
  BY ListFacts
<1>2. s \in Seq(Range(s)) /\ k \in Nat /\ e \in Nat /\ n \in Nat /\ (e - (k + 1)) + 1 = n
  BY <1>1 DEF IsList
<1>3. u = [i \in 1 .. n |-> s[i + k]]
  <2>1. u = [i \in 1 .. (e - (k + 1)) + 1 |-> s[i + (k + 1) - 1]]
    BY <1>1, <1>2, SMTT(60)
  <2>2. \A i \in 1 .. n : i + (k + 1) - 1 = i + k
    BY <1>2
  <2>3. u = [i \in 1 .. n |-> s[i + (k + 1) - 1]]
    <3> HIDE DEF n, u
    <3> QED BY <1>2, <2>1
  <2> HIDE DEF n, u
  <2> QED BY <2>2, <2>3
<1> HIDE DEF u
<1>4. u = [i \in 1 .. n |-> u[i]]
  BY <1>3
<1>5. IsList(u) /\ Len(u) = n /\ DOMAIN u = 1 .. n
  BY <1>2, <1>4, ListWith
<1>6. \A i \in 1 .. n : i + k \in 1 .. Len(s)
  BY <1>1, <1>2
<1>7. Range(u) = {u[i] : i \in 1 .. n}
  BY <1>5 DEF Range
<1>8. Range(u) \subseteq Range(s)
  BY <1>1, <1>3, <1>6, <1>7
<1> QED BY <1>5, <1>8 DEF u

LEMMA WithoutOne ==
  ASSUME NEW s, IsList(s), NEW i \in 1 .. Len(s)
  PROVE  IsList(RemoveAt(s, i)) /\ Range(RemoveAt(s, i)) \subseteq Range(s)
<1> DEFINE a == SubSeq(s, 1, i - 1)
           b == SubSeq(s, i + 1, Len(s))
<1>1. Len(s) \in Nat /\ i \in 0 .. Len(s) /\ i - 1 \in 0 .. Len(s) /\ Len(s) \in i .. Len(s)
  BY ListFacts
<1>2. IsList(a) /\ Range(a) \subseteq Range(s)
  BY <1>1, PrefixList
<1>3. IsList(b) /\ Range(b) \subseteq Range(s)
  BY <1>1, SliceList
<1>4. RemoveAt(s, i) = a \o b
  BY DEF RemoveAt
<1> HIDE DEF a, b
<1> QED BY <1>2, <1>3, <1>4, ConcatLists

LEMMA FirstAndRest ==
  ASSUME NEW s, IsList(s), s # <<>>
  PROVE  /\ IsList(Tail(s)) /\ Range(s) = {s[1]} \cup Range(Tail(s))
         /\ Len(s) \in Nat \ {0} /\ Len(Tail(s)) = Len(s) - 1
         /\ \A i \in 1 .. Len(s) - 1 : Tail(s)[i] = s[i + 1]
<1>1. Len(s) \in Nat /\ Range(s) = {s[i] : i \in 1 .. Len(s)} /\ s \in Seq(Range(s))
  BY ListFacts DEF IsList
<1>2. Len(s) # 0
  BY <1>1, EmptySeq
<1>3. IsList(Tail(s)) /\ Range(Tail(s)) \subseteq Range(s)
  BY TailList
<1> DEFINE t == Tail(s)
<1>4. Len(t) = Len(s) - 1 /\ \A i \in 1 .. Len(s) - 1 : t[i] = s[i + 1]
  <2> DEFINE T == Range(s)
  <2>1. s \in Seq(T)
    BY <1>1
  <2> HIDE DEF T
  <2> QED BY <2>1, HeadTailProperties
<1> HIDE DEF t
<1>5. IsList(t) => DOMAIN t = 1 .. Len(t)
  BY ListFacts
<1>6. Range(s) = {s[1]} \cup Range(t)
  <2>1. s[1] \in Range(s) /\ Range(t) \subseteq Range(s)
    BY <1>1, <1>2, <1>3 DEF t
  <2>2. ASSUME NEW i \in 1 .. Len(s)  PROVE s[i] = s[1] \/ s[i] \in Range(t)
    <3>1. CASE i # 1
      <4>1. i - 1 \in 1 .. Len(s) - 1 /\ (i - 1) + 1 = i
        BY <1>1, <3>1
      <4>2. t[i - 1] = s[i] /\ i - 1 \in DOMAIN t
        BY <1>3, <1>4, <1>5, <4>1 DEF t
      <4> QED BY <4>2 DEF Range
    <3> QED BY <3>1
  <2> QED BY <1>1, <2>1, <2>2
<1> QED BY <1>1, <1>2, <1>3, <1>4, <1>6 DEF t

LEMMA ListUpTo ==
  ASSUME NEW n \in Int, NEW s, s = [i \in 1 .. n |-> s[i]]
  PROVE  IsList(s)
<1>1. CASE n \in Nat
  BY <1>1, ListWith
<1>2. CASE n \notin Nat
  <2>1. 1 .. n = 1 .. 0
    BY <1>2
  <2>2. s = [i \in 1 .. 0 |-> s[i]]
    BY <2>1
  <2> QED BY <2>2, ListWith
<1> QED BY <1>1, <1>2

(* The first element of the rest moves to the end of what went before.     *)
LEMMA FirstMoves ==
  ASSUME NEW d, IsList(d), NEW a, IsList(a), a # <<>>
  PROVE  /\ Append(d, a[1]) \o Tail(a) = d \o a
         /\ IsList(Append(d, a[1])) /\ Append(d, a[1]) # <<>>
         /\ Append(d, a[1])[Len(Append(d, a[1]))] = a[1]
         /\ Range(Append(d, a[1])) = Range(d) \cup {a[1]}
<1> DEFINE b == Append(d, a[1])
           t == Tail(a)
           u == b \o t
           v == d \o a
<1>1. /\ IsList(t) /\ Len(a) \in Nat \ {0} /\ Len(t) = Len(a) - 1
      /\ \A i \in 1 .. Len(a) - 1 : t[i] = a[i + 1]
  BY FirstAndRest
<1>2. /\ IsList(b) /\ Len(b) = Len(d) + 1 /\ Len(d) \in Nat /\ b[Len(d) + 1] = a[1]
      /\ \A i \in 1 .. Len(d) : b[i] = d[i]
      /\ Range(b) = Range(d) \cup {a[1]}
  BY AppendList
<1> HIDE DEF b, t
<1>3. /\ IsList(u) /\ Len(u) = Len(b) + Len(t)
      /\ \A i \in 1 .. Len(b) : u[i] = b[i]
      /\ \A i \in 1 .. Len(t) : u[Len(b) + i] = t[i]
  <2>1. IsList(b) /\ IsList(t)
    BY <1>1, <1>2
  <2> QED BY <2>1, ConcatLists
<1>4. /\ IsList(v) /\ Len(v) = Len(d) + Len(a)
      /\ \A i \in 1 .. Len(d) : v[i] = d[i]
      /\ \A i \in 1 .. Len(a) : v[Len(d) + i] = a[i]
  BY ConcatLists
<1> HIDE DEF u, v
<1>5. Len(u) = Len(v)
  BY <1>1, <1>2, <1>3, <1>4
<1>6. ASSUME NEW i \in 1 .. Len(u)  PROVE u[i] = v[i]
  <2>1. CASE i \in 1 .. Len(d)
    <3>1. i \in 1 .. Len(b)
      BY <1>2, <2>1
    <3> QED BY <1>2, <1>3, <1>4, <2>1, <3>1
  <2>2. CASE i = Len(d) + 1
    <3>1. Len(d) + 1 \in 1 .. Len(b) /\ 1 \in 1 .. Len(a)
      BY <1>1, <1>2
    <3>2. u[Len(d) + 1] = a[1]
      BY <1>2, <1>3, <3>1
    <3>3. v[Len(d) + 1] = a[1]
      BY <1>4, <3>1
    <3> QED BY <2>2, <3>2, <3>3
  <2>3. CASE i \notin 1 .. Len(d) + 1
    <3> DEFINE k == i - Len(b)
    <3>1. /\ k \in 1 .. Len(t) /\ Len(b) + k = i /\ k \in 1 .. Len(a) - 1
          /\ k + 1 \in 1 .. Len(a) /\ Len(d) + (k + 1) = i
      BY <1>1, <1>2, <1>3, <2>3
    <3>2. u[i] = t[k] /\ t[k] = a[k + 1]
      BY <1>1, <1>3, <3>1
    <3>3. v[Len(d) + (k + 1)] = a[k + 1]
      BY <1>4, <3>1
    <3> QED BY <3>1, <3>2, <3>3
  <2> QED BY <1>2, <2>1, <2>2, <2>3
<1>7. u = v
  BY <1>3, <1>4, <1>5, <1>6, SameLists
<1>8. b # <<>> /\ b[Len(b)] = a[1]
  BY <1>2, EmptyList
<1> QED BY <1>2, <1>7, <1>8 DEF b, t, u, v

LEMMA FiniteList ==
  ASSUME NEW s, IsList(s)
  PROVE  IsFiniteSet(Range(s)) /\ Cardinality(Range(s)) \in Nat
<1>1. Len(s) \in Nat /\ Range(s) = {s[i] : i \in 1 .. Len(s)}
  BY ListFacts
<1>2. IsFiniteSet(1 .. Len(s))
  BY <1>1, FS_Interval
<1>3. IsFiniteSet({s[i] : i \in 1 .. Len(s)})
  BY <1>2, FiniteImage
<1> QED BY <1>1, <1>3, FS_CardinalityType

LEMMA OneMore ==
  ASSUME NEW A, IsFiniteSet(A), NEW k
  PROVE  /\ IsFiniteSet(A \cup {k}) /\ Cardinality(A) \in Nat /\ Cardinality(A \cup {k}) \in Nat
         /\ Cardinality(A \cup {k}) <= Cardinality(A) + 1
         /\ k \notin A => Cardinality(A \cup {k}) = Cardinality(A) + 1
<1>1. IsFiniteSet(A \cup {k}) /\ Cardinality(A \cup {k}) = IF k \in A THEN Cardinality(A) ELSE Cardinality(A) + 1
  BY FS_AddElement
<1>2. Cardinality(A) \in Nat /\ Cardinality(A \cup {k}) \in Nat
  BY <1>1, FS_CardinalityType
<1> QED BY <1>1, <1>2

(* Pages of rows, and the places of a value in them.                       *)
LEMMA ArrangedList ==
  ASSUME NEW S, Cardinality(S) \in Nat, NEW order
  PROVE  IsList(Arranged(S, order)) /\ Len(Arranged(S, order)) = Cardinality(S)
<1> DEFINE before == [x \in S |-> Cardinality({y \in S : <<y, x>> \in order})]
           in(n) == CHOOSE x \in S : before[x] = n - 1
           s == [n \in 1 .. Cardinality(S) |-> in(n)]
<1>1. Arranged(S, order) = s
  BY DEF Arranged
<1> HIDE DEF in
<1>2. s = [n \in 1 .. Cardinality(S) |-> s[n]]
  OBVIOUS
<1> HIDE DEF s
<1> QED BY <1>1, <1>2, ListWith

LEMMA CeilDivInt ==
  ASSUME NEW a \in Int, NEW b \in Nat \ {0}
  PROVE  CeilDiv(a, b) \in Int
<1>1. a + b - 1 \in Int
  OBVIOUS
<1> QED BY <1>1 DEF CeilDiv

LEMMA PagesOfTable ==
  ASSUME NEW rs, IsList(rs), NEW target \in Nat
  PROVE  LET pages == MakePages(rs, target)
         IN  /\ DOMAIN pages = 1 .. PageCount(rs, target) /\ PageCount(rs, target) \in Nat \ {0}
             /\ IsFiniteSet(RowLocations(pages))
<1>1. /\ PageCount(rs, target) \in Nat \ {0} /\ RowsPerPage(rs, target) \in Nat \ {0}
      /\ Len(rs) \in Nat
  BY PageLayout DEF IsList
<1>2. DOMAIN MakePages(rs, target) = 1 .. PageCount(rs, target)
  BY DEF MakePages
<1>3. RowLocations(MakePages(rs, target))
        = {PlaceOf(i, RowsPerPage(rs, target)) : i \in 1 .. Len(rs)}
  BY LocationsArePlaces DEF IsList
<1>4. IsFiniteSet({PlaceOf(i, RowsPerPage(rs, target)) : i \in 1 .. Len(rs)})
  <2> DEFINE f == [i \in 1 .. Len(rs) |-> PlaceOf(i, RowsPerPage(rs, target))]
  <2>1. IsFiniteSet({f[i] : i \in 1 .. Len(rs)})
    <3>1. IsFiniteSet(1 .. Len(rs))
      BY <1>1, FS_Interval
    <3> HIDE DEF f
    <3> QED BY <3>1, FiniteImage
  <2>2. {f[i] : i \in 1 .. Len(rs)} = {PlaceOf(i, RowsPerPage(rs, target)) : i \in 1 .. Len(rs)}
    OBVIOUS
  <2> QED BY <2>1, <2>2
<1> QED BY <1>1, <1>2, <1>3, <1>4

(* The locations of a value are in the order of their pages.               *)
LEMMA LocationsInPageOrder ==
  ASSUME NEW rs, IsList(rs), NEW target \in Nat, NEW column, NEW value
  PROVE  LET s == LocationsOf(MakePages(rs, target), column, value)
         IN  \A a, b \in DOMAIN s : a < b =>
               s[a][1] \in Nat /\ s[b][1] \in Nat /\ s[a][1] <= s[b][1]
<1> DEFINE pages == MakePages(rs, target)
           w == RowsPerPage(rs, target)
           L == {l \in RowLocations(pages) : RowAt(pages, l)[column] = value}
           before == {pair \in L \X L :
                       LET l == pair[1]
                           m == pair[2]
                       IN  l[1] < m[1] \/ (l[1] = m[1] /\ l[2] < m[2])}
           s == Arranged(L, before)
<1>1. w \in Nat \ {0} /\ Len(rs) \in Nat
  BY PageLayout DEF IsList
<1>2. RowLocations(pages) = {PlaceOf(i, w) : i \in 1 .. Len(rs)}
  BY LocationsArePlaces DEF IsList
<1>3. \A i \in 1 .. Len(rs) : PlaceOf(i, w) \in Nat \X Nat
  <2> TAKE i \in 1 .. Len(rs)
  <2> HIDE DEF w
  <2>1. i - 1 \in Nat
    BY <1>1
  <2>2. (i - 1) \div w \in Nat /\ (i - 1) % w \in Nat
    BY <1>1, <2>1
  <2> QED BY <2>2 DEF PlaceOf
<1>4. IsFiniteSet(RowLocations(pages))
  BY PagesOfTable
<1>5. IsFiniteSet(L) /\ L \in SUBSET (Nat \X Nat)
  <2>1. L \subseteq RowLocations(pages)
    OBVIOUS
  <2> HIDE DEF L, pages, w
  <2> QED BY <1>2, <1>3, <1>4, <2>1, FS_Subset
<1>6. LocationsOf(pages, column, value) = s
  BY DEF LocationsOf, InScanOrder
<1> HIDE DEF L
<1>7. IsTotalOrder(before, L)
  BY <1>5, ScanOrderIsTotal
<1>8. /\ Cardinality(L) \in Nat /\ s \in [1 .. Cardinality(L) -> L]
      /\ \A m, n \in 1 .. Cardinality(L) : m < n => <<s[m], s[n]>> \in before
  <2> HIDE DEF before
  <2> QED BY <1>5, <1>7, ArrangedInOrder
<1> HIDE DEF s
<1>9. ASSUME NEW a \in DOMAIN s, NEW b \in DOMAIN s, a < b
      PROVE  s[a][1] \in Nat /\ s[b][1] \in Nat /\ s[a][1] <= s[b][1]
  <2>1. a \in 1 .. Cardinality(L) /\ b \in 1 .. Cardinality(L)
    BY <1>8
  <2>2. s[a] \in Nat \X Nat /\ s[b] \in Nat \X Nat
    BY <1>5, <1>8, <2>1
  <2>3. <<s[a], s[b]>> \in before
    BY <1>8, <1>9, <2>1
  <2>4. s[a][1] < s[b][1] \/ s[a][1] = s[b][1]
    BY <2>3
  <2> QED BY <2>2, <2>4
<1> QED BY <1>6, <1>9
=============================================================================
