--------------------------- MODULE HistogramProofs ---------------------------
(***************************************************************************)
(* The column statistics, for columns of any length and any number of      *)
(* buckets: what the histogram says of the rows, and what is estimated     *)
(* from it.                                                                *)
(***************************************************************************)
EXTENDS MCHistogram, HelperProofs

-----------------------------------------------------------------------------
(* The values of a column in order, and their slices.                      *)

SortedValues(col) ==
  [n \in DOMAIN Sorted(col, DOMAIN col) |-> col[Sorted(col, DOMAIN col)[n]]]

LEMMA SortedValuesFacts ==
  ASSUME NEW col \in Seq(Int)
  PROVE  LET s == SortedValues(col)
         IN  /\ s \in Seq(Int) /\ Len(s) = Len(col) /\ DOMAIN s = 1 .. Len(col)
             /\ \A i \in 1 .. Len(col) : s[i] \in Int
             /\ \A i, j \in 1 .. Len(col) : i <= j => s[i] <= s[j]
             /\ ToSet(col) = {s[i] : i \in 1 .. Len(col)}
<1> DEFINE n == Len(col)
           t == Sorted(col, DOMAIN col)
           s == SortedValues(col)
<1>1. n \in Nat /\ DOMAIN col = 1 .. n /\ \A i \in 1 .. n : col[i] \in Int
  BY LenProperties, ElementOfSeq
<1>2. t = Sorted(col, 1 .. n) /\ 1 \in Nat \ {0} /\ n \in 0 .. Len(col)
  BY <1>1
<1>3. /\ t \in Seq(Nat) /\ Len(t) = (IF 1 > n THEN 0 ELSE n - 1 + 1)
      /\ IsInjective(t) /\ Range(t) = 1 .. n /\ KeyOrdered(col, t)
  <2> HIDE DEF t, n
  <2> QED BY <1>2, SortedRows
<1>4. Len(t) = n /\ DOMAIN t = 1 .. n
  BY <1>1, <1>3, LenProperties
<1>5. s = [i \in 1 .. n |-> col[t[i]]]
  BY <1>4 DEF SortedValues
<1> HIDE DEF t, s, n
<1>6. \A i \in 1 .. n : t[i] \in 1 .. n
  BY <1>3, <1>4 DEF Range
<1>7. \A i \in 1 .. n : s[i] = col[t[i]] /\ s[i] \in Int
  BY <1>1, <1>5, <1>6
<1>8. s \in Seq(Int) /\ Len(s) = n /\ DOMAIN s = 1 .. n
  <2>1. s \in [1 .. n -> Int]
    BY <1>5, <1>7
  <2> QED BY <1>1, <2>1
<1>9. ASSUME NEW i \in 1 .. n, NEW j \in 1 .. n, i <= j  PROVE s[i] <= s[j]
  <2>1. i < j \/ i = j
    BY <1>1, <1>9
  <2>2. i < j => KeyBefore(col, t[i], t[j])
    BY <1>3, <1>4 DEF KeyOrdered
  <2> QED BY <1>7, <2>1, <2>2 DEF KeyBefore
<1>10. ToSet(col) = {s[i] : i \in 1 .. n}
  <2>1. ToSet(col) = {col[i] : i \in 1 .. n}
    BY <1>1 DEF ToSet
  <2>2. ASSUME NEW i \in 1 .. n  PROVE \E j \in 1 .. n : t[j] = i
    BY <1>3, <1>4 DEF Range
  <2> QED BY <1>6, <1>7, <2>1, <2>2
<1> QED BY <1>7, <1>8, <1>9, <1>10 DEF n, s

FirstOf(b, size) == (b-1) * size + 1
LastOf(b, size, n) == IF b * size < n THEN b * size ELSE n

LEMMA SlicesCover ==
  ASSUME NEW n \in Nat \ {0}, NEW size \in Nat \ {0}
  PROVE  /\ CeilDiv(n, size) \in Nat \ {0}
         /\ FirstOf(1, size) = 1 /\ LastOf(CeilDiv(n, size), size, n) = n
         /\ \A b \in 1 .. CeilDiv(n, size) :
              /\ FirstOf(b, size) \in 1 .. n
              /\ LastOf(b, size, n) \in FirstOf(b, size) .. n
              /\ b > 1 => b - 1 \in 1 .. CeilDiv(n, size) /\ FirstOf(b, size) = LastOf(b-1, size, n) + 1
<1> DEFINE m == CeilDiv(n, size)
<1>1. m \in Nat /\ size * (m - 1) < n /\ n <= size * m
  BY CeilDivBounds
<1> HIDE DEF m
<1>2. m # 0
  <2>1. size * 0 = 0
    BY SMT
  <2> QED BY <1>1, <2>1
<1>3. \A a \in Int : size * a = a * size /\ a * size \in Int
  BY SMT
<1>4. FirstOf(1, size) = 1
  BY SMT DEF FirstOf
<1>5. LastOf(m, size, n) = n
  BY <1>1, <1>3 DEF LastOf
<1>6. ASSUME NEW b \in 1 .. m
      PROVE  /\ FirstOf(b, size) \in 1 .. n
             /\ LastOf(b, size, n) \in FirstOf(b, size) .. n
             /\ b > 1 => b - 1 \in 1 .. m /\ FirstOf(b, size) = LastOf(b-1, size, n) + 1
  <2>1. b \in Int /\ b - 1 \in Int /\ m - 1 \in Int /\ 0 <= b - 1 /\ b - 1 <= m - 1
    BY <1>1
  <2>2. size * 0 <= size * (b - 1) /\ size * (b - 1) <= size * (m - 1)
    BY <2>1, TimesMonotonic
  <2>3. size * b = size * (b - 1) + size /\ size * 0 = 0
    BY <2>1, SMT
  <2> DEFINE p == (b - 1) * size
             q == b * size
  <2>4. p \in Int /\ q \in Int /\ 0 <= p /\ p < n /\ q = p + size
    BY <1>1, <1>3, <2>1, <2>2, <2>3
  <2>5. b > 1 => LastOf(b-1, size, n) = p
    BY <2>4 DEF LastOf
  <2>6. FirstOf(b, size) = p + 1 /\ LastOf(b, size, n) = IF q < n THEN q ELSE n
    BY DEF FirstOf, LastOf
  <2> HIDE DEF p, q
  <2> QED BY <1>1, <2>1, <2>4, <2>5, <2>6
<1> QED BY <1>1, <1>2, <1>4, <1>5, <1>6 DEF m

(* Rounded up, the slices are no more than the buckets asked for.          *)
LEMMA SizeOfSlices ==
  ASSUME NEW n \in Nat \ {0}, NEW k \in Nat \ {0}
  PROVE  /\ BucketSize(n, k) \in Nat \ {0}
         /\ CeilDiv(n, BucketSize(n, k)) <= k
<1> DEFINE c == CeilDiv(n, k)
           size == BucketSize(n, k)
<1>1. c \in Nat /\ n <= k * c
  BY CeilDivBounds
<1>2. size = (IF c < 1 THEN 1 ELSE c)
  BY DEF BucketSize, AtLeastOne, AtLeast
<1> HIDE DEF c, size
<1>3. size \in Nat \ {0} /\ c <= size
  BY <1>1, <1>2
<1>4. k * c <= k * size
  BY <1>1, <1>3, TimesMonotonic
<1> DEFINE m == CeilDiv(n, size)
<1>5. m \in Nat /\ size * (m - 1) < n
  BY <1>3, CeilDivBounds
<1> HIDE DEF m
<1>6. k * c \in Int /\ k * size \in Int /\ size * k = k * size /\ size * (m - 1) \in Int
  BY <1>1, <1>3, <1>5, SMT
<1>7. size * (m - 1) < size * k
  BY <1>1, <1>4, <1>5, <1>6
<1>8. m - 1 < k
  BY <1>3, <1>5, <1>7, CancelTimes
<1> QED BY <1>3, <1>5, <1>8 DEF m, size

-----------------------------------------------------------------------------
(* The histogram of a column.                                              *)

ValuesIn(s, lo, hi) == {s[i] : i \in lo .. hi}

LEMMA SliceOf ==
  ASSUME NEW s \in Seq(Int), NEW lo \in 1 .. Len(s), NEW hi \in lo .. Len(s)
  PROVE  LET slice == SubSeq(s, lo, hi)
         IN  /\ Head(slice) = s[lo] /\ Last(slice) = s[hi]
             /\ Len(slice) = hi - lo + 1
             /\ ToSet(slice) = ValuesIn(s, lo, hi)
<1> DEFINE slice == SubSeq(s, lo, hi)
<1>1. Len(s) \in Nat /\ lo \in Nat /\ hi \in Nat /\ 1 <= lo /\ lo <= hi /\ hi <= Len(s)
  BY LenProperties
<1>2. /\ slice \in Seq(Int) /\ Len(slice) = hi - lo + 1
      /\ \A i \in 1 .. hi - lo + 1 : slice[i] = s[lo + i - 1]
  BY <1>1, SubSeqProperties
<1> HIDE DEF slice
<1>3. DOMAIN slice = 1 .. hi - lo + 1
  BY <1>2, LenProperties
<1>4. slice # <<>> /\ Head(slice) = slice[1]
  <2>1. Len(slice) # 0
    BY <1>1, <1>2
  <2> QED BY <1>2, <2>1, EmptySeq, HeadTailProperties
<1>5. Last(slice) = slice[Len(slice)]
  BY DEF Last
<1>6. 1 \in 1 .. hi - lo + 1 /\ Len(slice) \in 1 .. hi - lo + 1
  BY <1>1, <1>2
<1>7. lo + 1 - 1 = lo /\ lo + Len(slice) - 1 = hi
  BY <1>1, <1>2
<1>8. ToSet(slice) = ValuesIn(s, lo, hi)
  <2>1. ToSet(slice) = {slice[i] : i \in 1 .. hi - lo + 1}
    BY <1>3 DEF ToSet
  <2>2. ASSUME NEW i \in 1 .. hi - lo + 1  PROVE slice[i] \in ValuesIn(s, lo, hi)
    <3>1. lo + i - 1 \in lo .. hi
      BY <1>1
    <3> QED BY <1>2, <3>1 DEF ValuesIn
  <2>3. ASSUME NEW j \in lo .. hi  PROVE \E i \in 1 .. hi - lo + 1 : slice[i] = s[j]
    <3>1. j - lo + 1 \in 1 .. hi - lo + 1 /\ lo + (j - lo + 1) - 1 = j
      BY <1>1
    <3> QED BY <1>2, <3>1
  <2> QED BY <2>1, <2>2, <2>3 DEF ValuesIn
<1> QED BY <1>2, <1>4, <1>5, <1>6, <1>7, <1>8 DEF slice

LEMMA BuildIs ==
  ASSUME NEW col \in Seq(Int), col # <<>>, NEW k \in Nat \ {0}
  PROVE  LET n == Len(col)
             s == SortedValues(col)
             size == BucketSize(n, k)
             buckets == Build(col, k).buckets
         IN  /\ Build(col, k).total_rows = n
             /\ DOMAIN buckets = 1 .. CeilDiv(n, size) /\ Len(buckets) = CeilDiv(n, size)
             /\ \A b \in 1 .. CeilDiv(n, size) :
                  LET lo == FirstOf(b, size)
                      hi == LastOf(b, size, n)
                  IN  /\ buckets[b].lower = s[lo] /\ buckets[b].upper = s[hi]
                      /\ buckets[b].row_count = hi - lo + 1
                      /\ buckets[b].distinct_count = Cardinality(ValuesIn(s, lo, hi))
<1> DEFINE n == Len(col)
           s == SortedValues(col)
           size == BucketSize(n, k)
           m == CeilDiv(n, size)
           slice(b) == SubSeq(s, FirstOf(b, size), LastOf(b, size, n))
           bucket(b) == [lower          |-> Head(slice(b)),
                         upper          |-> Last(slice(b)),
                         row_count      |-> Len(slice(b)),
                         distinct_count |-> Cardinality(ToSet(slice(b)))]
<1>1. Build(col, k) = [buckets |-> [b \in 1 .. m |-> bucket(b)], total_rows |-> n]
  BY DEF Build, SortedValues, FirstOf, LastOf
<1>2. n \in Nat \ {0}
  BY LenProperties, EmptySeq
<1>3. s \in Seq(Int) /\ Len(s) = n
  BY SortedValuesFacts
<1> HIDE DEF n, s
<1>4. size \in Nat \ {0}
  BY <1>2, SizeOfSlices
<1> HIDE DEF size
<1>5. /\ m \in Nat \ {0}
      /\ \A b \in 1 .. m : FirstOf(b, size) \in 1 .. n /\ LastOf(b, size, n) \in FirstOf(b, size) .. n
  BY <1>2, <1>4, SlicesCover
<1> HIDE DEF m
<1>6. ASSUME NEW b \in 1 .. m
      PROVE  LET lo == FirstOf(b, size)
                 hi == LastOf(b, size, n)
             IN  /\ Head(slice(b)) = s[lo] /\ Last(slice(b)) = s[hi]
                 /\ Len(slice(b)) = hi - lo + 1
                 /\ ToSet(slice(b)) = ValuesIn(s, lo, hi)
  BY <1>3, <1>5, SliceOf
<1>7. /\ DOMAIN Build(col, k).buckets = 1 .. m /\ Len(Build(col, k).buckets) = m
      /\ \A b \in 1 .. m : Build(col, k).buckets[b] = bucket(b)
  <2> HIDE DEF bucket
  <2>1. Build(col, k).buckets = [b \in 1 .. m |-> bucket(b)]
    BY <1>1
  <2> QED BY <1>5, <2>1
<1>8. \A b \in 1 .. m : /\ bucket(b).lower = Head(slice(b)) /\ bucket(b).upper = Last(slice(b))
                        /\ bucket(b).row_count = Len(slice(b))
                        /\ bucket(b).distinct_count = Cardinality(ToSet(slice(b)))
  OBVIOUS
<1> HIDE DEF bucket, slice
<1>9. ASSUME NEW b \in 1 .. m
      PROVE  LET lo == FirstOf(b, size)
                 hi == LastOf(b, size, n)
                 buckets == Build(col, k).buckets
             IN  /\ buckets[b].lower = s[lo] /\ buckets[b].upper = s[hi]
                 /\ buckets[b].row_count = hi - lo + 1
                 /\ buckets[b].distinct_count = Cardinality(ValuesIn(s, lo, hi))
  BY <1>6, <1>7, <1>8
<1>10. Build(col, k).total_rows = n
  BY <1>1
<1> QED BY <1>7, <1>9, <1>10 DEF m, size, s, n

LEMMA RowsUpToBucket ==
  ASSUME NEW n \in Nat \ {0}, NEW size \in Nat \ {0}, NEW f,
         \A b \in 1 .. CeilDiv(n, size) : f[b] = LastOf(b, size, n) - FirstOf(b, size) + 1
  PROVE  /\ \A b \in 1 .. CeilDiv(n, size) : SumFunctionOnSet(f, 1 .. b) = LastOf(b, size, n)
         /\ SumFunctionOnSet(f, 1 .. CeilDiv(n, size)) = n
<1> DEFINE m == CeilDiv(n, size)
           F(b) == FirstOf(b, size)
           L(b) == LastOf(b, size, n)
           Good == {b \in Nat : b \in 1 .. m => SumFunctionOnSet(f, 1 .. b) = L(b)}
<1>1. /\ m \in Nat \ {0} /\ F(1) = 1 /\ L(m) = n
      /\ \A b \in 1 .. m : /\ F(b) \in 1 .. n /\ L(b) \in F(b) .. n
                           /\ b > 1 => b - 1 \in 1 .. m /\ F(b) = L(b-1) + 1
  BY SlicesCover
<1>2. \A b \in 1 .. m : f[b] = L(b) - F(b) + 1
  OBVIOUS
<1> HIDE DEF m, F, L
<1>3. 0 \in Good
  OBVIOUS
<1>4. ASSUME NEW b \in Nat, b \in Good  PROVE b + 1 \in Good
  <2> SUFFICES ASSUME b + 1 \in 1 .. m
               PROVE  SumFunctionOnSet(f, 1 .. b + 1) = L(b + 1)
    OBVIOUS
  <2>1. \A i \in 1 .. b + 1 : f[i] \in Int
    BY <1>1, <1>2
  <2>2. SumFunctionOnSet(f, 1 .. b + 1) = SumFunctionOnSet(f, 1 .. b) + f[b + 1]
    BY <2>1, SumUpTo
  <2>3. F(b + 1) \in 1 .. n /\ L(b + 1) \in F(b + 1) .. n /\ f[b + 1] = L(b + 1) - F(b + 1) + 1
    BY <1>1, <1>2
  <2>4. CASE b = 0
    <3>1. SumFunctionOnSet(f, 1 .. b) = 0
      BY <2>1, <2>4, SumUpTo
    <3> QED BY <1>1, <2>2, <2>3, <2>4, <3>1
  <2>5. CASE b > 0
    <3>1. b + 1 > 1 /\ (b + 1) - 1 = b
      BY <2>5
    <3>2. b \in 1 .. m /\ F(b + 1) = L(b) + 1
      BY <1>1, <3>1
    <3>3. SumFunctionOnSet(f, 1 .. b) = L(b) /\ L(b) \in Int
      BY <1>1, <1>4, <3>2
    <3> QED BY <2>2, <2>3, <3>2, <3>3
  <2> QED BY <2>4, <2>5
<1>5. Nat \subseteq Good
  <2> HIDE DEF Good
  <2> QED BY <1>3, <1>4, NatSetInduction
<1>6. \A b \in 1 .. m : SumFunctionOnSet(f, 1 .. b) = L(b)
  BY <1>1, <1>5
<1>7. SumFunctionOnSet(f, 1 .. m) = n
  BY <1>1, <1>6
<1> QED BY <1>6, <1>7 DEF m, L

-----------------------------------------------------------------------------
ColumnInv ==
  /\ values \in Seq(1 .. MaxValue) /\ values # <<>>
  /\ bucketCount \in BucketCounts
  /\ histogram = Build(values, bucketCount)

LEMMA ColumnInvariant == Spec => []ColumnInv
<1>1. Init => ColumnInv
  <2> SUFFICES ASSUME Init  PROVE values \in Seq(1 .. MaxValue) /\ values # <<>>
    BY DEF Init, ColumnInv
  <2>1. PICK v \in 1 .. MaxValue : values = <<v>>
    BY DEF Init
  <2> QED BY <2>1
<1>2. ColumnInv /\ [Next]_vars => ColumnInv'
  <2> SUFFICES ASSUME ColumnInv, [Next]_vars  PROVE ColumnInv'
    OBVIOUS
  <2>1. ASSUME NEW v \in 1 .. MaxValue, AddValue(v)
        PROVE  ColumnInv'
    <3>1. values' = Append(values, v)
      BY <2>1 DEF AddValue
    <3>2. values' \in Seq(1 .. MaxValue) /\ Len(values') = Len(values) + 1
      BY <3>1, AppendProperties DEF ColumnInv
    <3>3. values' # <<>>
      BY <3>2, LenProperties DEF ColumnInv
    <3> QED BY <2>1, <3>2, <3>3 DEF ColumnInv, AddValue
  <2>2. CASE UNCHANGED vars
    BY <2>2 DEF ColumnInv, vars
  <2> QED BY <2>1, <2>2 DEF Next
<1> QED BY <1>1, <1>2, PTL DEF Spec

(* What Build makes of the column, place by place.                         *)
Size == BucketSize(Len(values), bucketCount)
LowerRow(b) == FirstOf(b, Size)
UpperRow(b) == LastOf(b, Size, Len(values))
InOrder == SortedValues(values)
ValuesOf(b) == ValuesIn(InOrder, LowerRow(b), UpperRow(b))

LEMMA ColumnFacts ==
  ASSUME ColumnInv
  PROVE  /\ Len(values) \in Nat \ {0} /\ bucketCount \in Nat \ {0} /\ Size \in Nat \ {0}
         /\ values \in Seq(Int)
         /\ \A i \in 1 .. Len(values) : InOrder[i] \in Int
         /\ \A i, j \in 1 .. Len(values) : i <= j => InOrder[i] <= InOrder[j]
         /\ ToSet(values) = {InOrder[i] : i \in 1 .. Len(values)}
         /\ histogram.total_rows = Len(values)
         /\ Len(Buckets) \in 1 .. bucketCount /\ DOMAIN Buckets = 1 .. Len(Buckets)
         /\ Len(Buckets) = CeilDiv(Len(values), Size)
         /\ UpperRow(Len(Buckets)) = Len(values) /\ LowerRow(1) = 1
         /\ \A b \in 1 .. Len(Buckets) :
              /\ LowerRow(b) \in 1 .. Len(values) /\ UpperRow(b) \in LowerRow(b) .. Len(values)
              /\ b > 1 => b - 1 \in 1 .. Len(Buckets) /\ LowerRow(b) = UpperRow(b-1) + 1
              /\ Buckets[b].lower = InOrder[LowerRow(b)] /\ Buckets[b].upper = InOrder[UpperRow(b)]
              /\ Buckets[b].row_count = UpperRow(b) - LowerRow(b) + 1
              /\ Buckets[b].distinct_count = Cardinality(ValuesOf(b))
<1> DEFINE n == Len(values)
<1>1. values \in Seq(Int) /\ values # <<>> /\ bucketCount \in Nat \ {0}
  <2>1. 1 .. MaxValue \subseteq Int
    OBVIOUS
  <2> QED BY <2>1, ColumnAssumption, SeqMonotonic DEF ColumnInv
<1>2. n \in Nat \ {0}
  BY <1>1, LenProperties, EmptySeq
<1>3. Size \in Nat \ {0} /\ CeilDiv(n, Size) <= bucketCount
  BY <1>1, <1>2, SizeOfSlices DEF Size
<1>4. histogram = Build(values, bucketCount)
  BY DEF ColumnInv
<1>5. /\ CeilDiv(n, Size) \in Nat \ {0}
      /\ LowerRow(1) = 1 /\ UpperRow(CeilDiv(n, Size)) = n
      /\ \A b \in 1 .. CeilDiv(n, Size) :
              /\ LowerRow(b) \in 1 .. n /\ UpperRow(b) \in LowerRow(b) .. n
              /\ b > 1 => b - 1 \in 1 .. CeilDiv(n, Size) /\ LowerRow(b) = UpperRow(b-1) + 1
  BY <1>2, <1>3, SlicesCover DEF LowerRow, UpperRow
<1>6. /\ histogram.total_rows = n
      /\ DOMAIN Buckets = 1 .. CeilDiv(n, Size) /\ Len(Buckets) = CeilDiv(n, Size)
      /\ \A b \in 1 .. CeilDiv(n, Size) :
              /\ Buckets[b].lower = InOrder[LowerRow(b)] /\ Buckets[b].upper = InOrder[UpperRow(b)]
              /\ Buckets[b].row_count = UpperRow(b) - LowerRow(b) + 1
              /\ Buckets[b].distinct_count = Cardinality(ValuesOf(b))
  BY <1>1, <1>4, BuildIs DEF Buckets, InOrder, LowerRow, UpperRow, ValuesOf, Size
<1>7. /\ \A i \in 1 .. n : InOrder[i] \in Int
      /\ \A i, j \in 1 .. n : i <= j => InOrder[i] <= InOrder[j]
      /\ ToSet(values) = {InOrder[i] : i \in 1 .. n}
  BY <1>1, SortedValuesFacts DEF InOrder
<1> HIDE DEF n
<1>8. Len(Buckets) \in 1 .. bucketCount
  BY <1>1, <1>3, <1>5, <1>6
<1> QED BY <1>1, <1>2, <1>3, <1>5, <1>6, <1>7, <1>8 DEF n

(* The values of the column from the lower to the upper bound of a bucket  *)
(* are those of its rows: a row before it has its lower bound at most, and *)
(* a row after it its upper bound at least.                                *)
LEMMA BucketHasItsValues ==
  ASSUME ColumnInv, NEW b \in 1 .. Len(Buckets)
  PROVE  /\ {v \in ToSet(values) : Buckets[b].lower <= v /\ v <= Buckets[b].upper} = ValuesOf(b)
         /\ IsFiniteSet(ValuesOf(b))
         /\ Buckets[b].distinct_count \in 1 .. Buckets[b].row_count
         /\ Buckets[b].row_count \in Nat
<1> DEFINE lo == LowerRow(b)
           hi == UpperRow(b)
           n == Len(values)
           s == InOrder
<1>1. /\ n \in Nat /\ lo \in 1 .. n /\ hi \in lo .. n
      /\ \A i \in 1 .. n : s[i] \in Int
      /\ \A i, j \in 1 .. n : i <= j => s[i] <= s[j]
      /\ ToSet(values) = {s[i] : i \in 1 .. n}
      /\ Buckets[b].lower = s[lo] /\ Buckets[b].upper = s[hi]
      /\ Buckets[b].row_count = hi - lo + 1
      /\ Buckets[b].distinct_count = Cardinality(ValuesOf(b))
  BY ColumnFacts
<1>2. ValuesOf(b) = {s[i] : i \in lo .. hi}
  BY DEF ValuesOf, ValuesIn
<1> HIDE DEF lo, hi, n, s
<1>3. ASSUME NEW v \in ToSet(values), s[lo] <= v, v <= s[hi]
      PROVE  \E i \in lo .. hi : v = s[i]
  <2>1. PICK i \in 1 .. n : v = s[i]
    BY <1>1
  <2>2. CASE i < lo
    <3>1. s[i] <= s[lo] /\ s[i] \in Int /\ s[lo] \in Int
      BY <1>1, <2>2
    <3>2. v = s[lo] /\ lo \in lo .. hi
      BY <1>1, <1>3, <2>1, <3>1
    <3> QED BY <3>2
  <2>3. CASE i > hi
    <3>1. s[hi] <= s[i] /\ s[i] \in Int /\ s[hi] \in Int
      BY <1>1, <2>3
    <3>2. v = s[hi] /\ hi \in lo .. hi
      BY <1>1, <1>3, <2>1, <3>1
    <3> QED BY <3>2
  <2>4. CASE i \in lo .. hi
    BY <2>1, <2>4
  <2> QED BY <1>1, <2>2, <2>3, <2>4
<1>4. ASSUME NEW i \in lo .. hi
      PROVE  s[i] \in ToSet(values) /\ s[lo] <= s[i] /\ s[i] <= s[hi]
  <2>1. i \in 1 .. n /\ lo <= i /\ i <= hi /\ lo \in 1 .. n /\ hi \in 1 .. n
    BY <1>1
  <2> QED BY <1>1, <2>1
<1>5. {v \in ToSet(values) : Buckets[b].lower <= v /\ v <= Buckets[b].upper} = ValuesOf(b)
  BY <1>1, <1>2, <1>3, <1>4
<1>6. /\ IsFiniteSet(lo .. hi) /\ Cardinality(lo .. hi) = hi - lo + 1
  <2>1. lo \in Int /\ hi \in Int /\ ~(lo > hi)
    BY <1>1
  <2> QED BY <2>1, FS_Interval
<1>7. IsFiniteSet(ValuesOf(b)) /\ Cardinality(ValuesOf(b)) <= hi - lo + 1
  <2> DEFINE I == lo .. hi
             V == {s[i] : i \in I}
  <2>1. IsFiniteSet(I)
    BY <1>6
  <2> HIDE DEF I
  <2>2. IsFiniteSet(V) /\ Cardinality(V) <= Cardinality(I)
    BY <2>1, FiniteImage
  <2> QED BY <1>2, <1>6, <2>2 DEF I
<1>8. Cardinality(ValuesOf(b)) \in Nat /\ Cardinality(ValuesOf(b)) # 0
  <2>1. lo \in lo .. hi
    BY <1>1
  <2>2. s[lo] \in ValuesOf(b)
    BY <1>2, <2>1
  <2> QED BY <1>7, <2>2, FS_EmptySet, FS_CardinalityType
<1> QED BY <1>1, <1>5, <1>7, <1>8

(* The buckets of any column are at least one and no more than asked for,  *)
(* in order, and have every row in one of them and every value between     *)
(* their bounds.                                                           *)
THEOREM HistogramSplitsTheColumn == Spec => []BucketsSplitTheColumn
<1>1. ASSUME ColumnInv  PROVE BucketsSplitTheColumn
  <2> DEFINE rows == [b \in DOMAIN Buckets |-> Buckets[b].row_count]
             n == Len(values)
             m == Len(Buckets)
  <2>1. /\ n \in Nat \ {0} /\ Size \in Nat \ {0} /\ m = CeilDiv(n, Size)
        /\ DOMAIN Buckets = 1 .. m /\ m \in 1 .. bucketCount
        /\ \A b \in 1 .. m : Buckets[b].row_count = UpperRow(b) - LowerRow(b) + 1
    BY <1>1, ColumnFacts
  <2>2. SumFunction(rows) = n
    <3>1. \A b \in 1 .. m : rows[b] = LastOf(b, Size, n) - FirstOf(b, Size) + 1
      BY <2>1 DEF UpperRow, LowerRow
    <3>2. SumFunction(rows) = SumFunctionOnSet(rows, 1 .. m)
      BY <2>1 DEF SumFunction
    <3> HIDE DEF rows, n, m
    <3>3. SumFunctionOnSet(rows, 1 .. m) = n
      BY <2>1, <3>1, RowsUpToBucket
    <3> QED BY <3>2, <3>3
  <2>3. ASSUME NEW b \in 1 .. m
        PROVE  /\ Buckets[b].lower <= Buckets[b].upper
               /\ b > 1 => Buckets[b-1].upper <= Buckets[b].lower
               /\ Cardinality({v \in ToSet(values) : Buckets[b].lower <= v /\ v <= Buckets[b].upper})
                    = Buckets[b].distinct_count
    <3>1. /\ \A i, j \in 1 .. n : i <= j => InOrder[i] <= InOrder[j]
          /\ LowerRow(b) \in 1 .. n /\ UpperRow(b) \in LowerRow(b) .. n
          /\ b > 1 => b - 1 \in 1 .. m /\ LowerRow(b) = UpperRow(b-1) + 1
          /\ \A c \in 1 .. m : /\ LowerRow(c) \in 1 .. n /\ UpperRow(c) \in LowerRow(c) .. n
                               /\ Buckets[c].lower = InOrder[LowerRow(c)]
                               /\ Buckets[c].upper = InOrder[UpperRow(c)]
          /\ Buckets[b].distinct_count = Cardinality(ValuesOf(b))
      BY <1>1, ColumnFacts
    <3>2. {v \in ToSet(values) : Buckets[b].lower <= v /\ v <= Buckets[b].upper} = ValuesOf(b)
      BY <1>1, BucketHasItsValues
    <3>3. Buckets[b].lower <= Buckets[b].upper
      <4>1. LowerRow(b) \in 1 .. n /\ UpperRow(b) \in 1 .. n /\ LowerRow(b) <= UpperRow(b)
        BY <2>1, <3>1
      <4> QED BY <3>1, <4>1
    <3>4. ASSUME b > 1  PROVE Buckets[b-1].upper <= Buckets[b].lower
      <4>1. /\ b - 1 \in 1 .. m /\ LowerRow(b) = UpperRow(b-1) + 1
            /\ UpperRow(b-1) \in LowerRow(b-1) .. n /\ LowerRow(b-1) \in 1 .. n
            /\ LowerRow(b) \in 1 .. n
        BY <3>1, <3>4
      <4>2. UpperRow(b-1) \in 1 .. n /\ UpperRow(b-1) <= LowerRow(b)
        BY <2>1, <4>1
      <4> QED BY <3>1, <4>1, <4>2
    <3> QED BY <3>1, <3>2, <3>3, <3>4
  <2> QED BY <2>1, <2>2, <2>3 DEF BucketsSplitTheColumn
<1> QED BY <1>1, ColumnInvariant, PTL

-----------------------------------------------------------------------------
(* What is estimated for one of the values of bucket b.                    *)
Share(b) == (Scale * Buckets[b].row_count * Len(values))
              \div (Buckets[b].distinct_count * Len(values))

LEMMA QuotientBounds ==
  ASSUME NEW r \in Nat \ {0}, NEW d \in 1 .. r, NEW n \in Nat \ {0}
  PROVE  LET q == (60 * r * n) \div (d * n)
         IN  q \in Nat \ {0} /\ d * q <= 60 * r
<1> DEFINE x == d * n
           y == r * n
           a == 60 * r * n
           q == a \div x
<1>1. x \in Nat \ {0} /\ y \in Nat /\ x <= y /\ a = 60 * y
  <2>1. n * d <= n * r /\ n * 1 <= n * d
    BY TimesMonotonic
  <2>2. n * d = d * n /\ n * r = r * n /\ n * 1 = n /\ r * n \in Nat /\ 60 * r * n = 60 * (r * n)
    BY SMT
  <2> HIDE DEF x, y, a
  <2>3. x \in Int /\ x = n * d /\ y = n * r /\ a = 60 * y /\ y \in Nat
    BY <2>2, SMT DEF x, y, a
  <2> QED BY <2>1, <2>2, <2>3
<1>2. a = n * (60 * r) /\ x = n * d
  BY SMT
<1> HIDE DEF x, y, a
<1>3. a \in Nat /\ x <= a
  BY <1>1
<1>4. q \in Nat /\ a % x \in 0 .. x - 1 /\ a = (x * q) + (a % x)
  BY <1>1, <1>3, SMT
<1> HIDE DEF q
<1>5. x * q \in Nat /\ x * q <= a
  BY <1>1, <1>4, SMT
<1>6. q # 0
  <2>1. x * 0 = 0
    BY <1>1, SMT
  <2> QED BY <1>1, <1>3, <1>4, <2>1
<1>7. d * q <= 60 * r
  <2>1. x * q = n * (d * q)
    BY <1>2, <1>4, SMT
  <2>2. d * q \in Int /\ 60 * r \in Int
    BY <1>4, SMT
  <2>3. n * (d * q) <= n * (60 * r)
    BY <1>2, <1>5, <2>1
  <2>4. ~(n * (60 * r) < n * (d * q))
    BY <2>2, <2>3, SMT
  <2>5. 60 * r < d * q => n * (60 * r + 1) <= n * (d * q)
    BY <2>2, TimesMonotonic
  <2>6. n * (60 * r + 1) = n * (60 * r) + n /\ n * (60 * r) \in Int /\ n * (d * q) \in Int
    BY <2>2, SMT
  <2> QED BY <2>2, <2>3, <2>5, <2>6
<1> QED BY <1>4, <1>6, <1>7 DEF q, a, x

LEMMA ShareBounds ==
  ASSUME ColumnInv, NEW b \in 1 .. Len(Buckets)
  PROVE  /\ Share(b) \in Nat \ {0}
         /\ Buckets[b].distinct_count * Share(b) <= Scale * Buckets[b].row_count
<1> DEFINE r == Buckets[b].row_count
           d == Buckets[b].distinct_count
           n == Len(values)
<1>1. r \in Nat \ {0} /\ d \in 1 .. r /\ n \in Nat \ {0}
  <2>1. r \in Nat /\ d \in 1 .. r
    BY BucketHasItsValues
  <2>2. n \in Nat \ {0}
    BY ColumnFacts
  <2> HIDE DEF r, d, n
  <2> QED BY <2>1, <2>2
<1>2. Share(b) = (60 * r * n) \div (d * n)
  BY DEF Share, Scale
<1> HIDE DEF r, d, n
<1>3. Share(b) \in Nat \ {0} /\ d * Share(b) <= 60 * r
  BY <1>1, <1>2, QuotientBounds
<1> QED BY <1>3 DEF Scale, r, d

(* A value of the column is estimated from one bucket that has it.         *)
LEMMA EstimateOfValue ==
  ASSUME ColumnInv, NEW v \in ToSet(values)
  PROVE  \E b \in 1 .. Len(Buckets) : v \in ValuesOf(b) /\ EstimatedRows(v) = Share(b)
<1> DEFINE m == Len(Buckets)
           n == Len(values)
           covering == {b \in DOMAIN Buckets : Buckets[b].lower <= v /\ v <= Buckets[b].upper}
           first == CHOOSE b \in covering : \A c \in covering : b <= c
<1>0. n \in Nat \ {0} /\ m \in Nat \ {0} /\ DOMAIN Buckets = 1 .. m
  BY ColumnFacts
<1>1. /\ n \in Nat \ {0} /\ m \in Nat \ {0} /\ DOMAIN Buckets = 1 .. m
      /\ \A i, j \in 1 .. n : i <= j => InOrder[i] <= InOrder[j]
      /\ ToSet(values) = {InOrder[i] : i \in 1 .. n}
      /\ UpperRow(m) = n /\ LowerRow(1) = 1
      /\ histogram.total_rows = n
      /\ \A b \in 1 .. m : /\ LowerRow(b) \in 1 .. n /\ UpperRow(b) \in LowerRow(b) .. n
                           /\ b > 1 => b - 1 \in 1 .. m /\ LowerRow(b) = UpperRow(b-1) + 1
                           /\ Buckets[b].lower = InOrder[LowerRow(b)]
                           /\ Buckets[b].upper = InOrder[UpperRow(b)]
  BY <1>0, ColumnFacts, ZenonT(30)
<1>2. PICK i \in 1 .. n : v = InOrder[i]
  BY <1>1
<1> HIDE DEF m, n
<1>3. \E b \in 1 .. m : i \in LowerRow(b) .. UpperRow(b)
  <2> DEFINE after == {b \in 1 .. m : i <= UpperRow(b)}
  <2>1. m \in after /\ after \in SUBSET Nat
    BY <1>1
  <2>2. PICK b \in after : \A c \in after : b <= c
    <3> HIDE DEF after
    <3> QED BY <2>1, LeastElement
  <2>3. CASE b = 1
    BY <1>1, <2>2, <2>3
  <2>4. CASE b > 1
    <3>1. b - 1 \in 1 .. m /\ LowerRow(b) = UpperRow(b-1) + 1
      BY <1>1, <2>4
    <3>2. b - 1 \notin after
      BY <2>2, <3>1
    <3>3. UpperRow(b-1) \in LowerRow(b-1) .. n /\ LowerRow(b-1) \in 1 .. n
      BY <1>1, <3>1
    <3>4. UpperRow(b-1) < i
      BY <3>1, <3>2, <3>3
    <3> QED BY <1>1, <2>2, <3>1, <3>3, <3>4
  <2> QED BY <2>2, <2>3, <2>4
<1>4. PICK b \in 1 .. m : i \in LowerRow(b) .. UpperRow(b)
  BY <1>3
<1>5. b \in covering
  <2>1. /\ LowerRow(b) \in 1 .. n /\ UpperRow(b) \in 1 .. n
        /\ LowerRow(b) <= i /\ i <= UpperRow(b)
    BY <1>1, <1>4
  <2>2. InOrder[LowerRow(b)] <= InOrder[i] /\ InOrder[i] <= InOrder[UpperRow(b)]
    BY <1>1, <2>1
  <2> QED BY <1>1, <1>2, <2>2
<1>6. first \in covering
  <2>1. covering \subseteq 1 .. m
    BY <1>1
  <2>2. covering \in SUBSET Nat /\ covering # {}
    <3> HIDE DEF covering
    <3> QED BY <1>1, <1>5, <2>1
  <2> HIDE DEF covering
  <2> QED BY <2>2, LeastElement
<1>7. first \in 1 .. m /\ v \in ValuesOf(first)
  <2>1. first \in 1 .. Len(Buckets)
    BY <1>1, <1>6 DEF m
  <2>2. Buckets[first].lower <= v /\ v <= Buckets[first].upper
    BY <1>6
  <2> HIDE DEF first, covering
  <2> QED BY <2>1, <2>2, BucketHasItsValues DEF m
<1>8. EstimateEquality(histogram, v) =
        <<Buckets[first].row_count, Buckets[first].distinct_count * n>>
  BY <1>1, <1>5 DEF EstimateEquality, Buckets
<1>9. EstimatedRows(v) = Share(first)
  <2> HIDE DEF first
  <2> QED BY <1>8 DEF EstimatedRows, Share, n
<1> QED BY <1>7, <1>9 DEF m

(* The values of the column that are estimated from one bucket are no more *)
(* than its distinct values, each of which gets its share of the rows.     *)
LEMMA SumOfShares ==
  ASSUME ColumnInv, NEW b \in 1 .. Len(Buckets),
         NEW Home, Home \subseteq ValuesOf(b),
         NEW f, \A v \in Home : f[v] = Share(b)
  PROVE  /\ IsFiniteSet(Home)
         /\ SumFunctionOnSet(f, Home) \in Int
         /\ SumFunctionOnSet(f, Home) <= Scale * Buckets[b].row_count
<1> DEFINE c == Cardinality(Home)
           d == Buckets[b].distinct_count
           r == Scale * Buckets[b].row_count
<1>1. IsFiniteSet(ValuesOf(b)) /\ Buckets[b].distinct_count \in 1 .. Buckets[b].row_count
      /\ Buckets[b].row_count \in Nat
  BY BucketHasItsValues
<1>2. d = Cardinality(ValuesOf(b))
  BY ColumnFacts
<1>3. IsFiniteSet(Home) /\ c \in Nat /\ c <= d
  BY <1>1, <1>2, FS_Subset, FS_CardinalityType
<1>4. Share(b) \in Nat \ {0} /\ d * Share(b) <= r
  BY ShareBounds
<1>5. SumFunctionOnSet(f, Home) = Share(b) * c
  BY <1>3, <1>4, SumOfEquals
<1>6. d \in Int /\ r \in Int
  BY <1>1, SMT DEF Scale
<1> DEFINE q == Share(b)
<1> HIDE DEF c, d, r, q
<1>7. q * c <= q * d
  BY <1>3, <1>4, <1>6, TimesMonotonic DEF q
<1>8. q \in Int /\ c \in Int /\ d \in Int /\ d * q <= r
  BY <1>3, <1>4, <1>6 DEF q
<1>9. q * c \in Int /\ q * d \in Int /\ q * d = d * q
  BY <1>8, SMT
<1>10. q * c <= r
  BY <1>6, <1>7, <1>8, <1>9
<1> QED BY <1>3, <1>5, <1>9, <1>10 DEF q, r

(* Every value of the column is estimated from one bucket; the values of   *)
(* the buckets up to one have at most the rows up to its last.             *)
LEMMA SumOfEstimates ==
  ASSUME ColumnInv
  PROVE  SumFunctionOnSet([v \in ToSet(values) |-> EstimatedRows(v)], ToSet(values))
           <= Scale * Len(values)
<1> DEFINE V == ToSet(values)
           m == Len(Buckets)
           n == Len(values)
           f == [v \in V |-> EstimatedRows(v)]
           h == [v \in V |-> CHOOSE b \in 1 .. m : v \in ValuesOf(b) /\ EstimatedRows(v) = Share(b)]
           Home(b) == {v \in V : h[v] = b}
           Before(b) == {v \in V : h[v] <= b}
           S(T) == SumFunctionOnSet(f, T)
<1>1. \A v \in V : h[v] \in 1 .. m /\ v \in ValuesOf(h[v]) /\ f[v] = Share(h[v])
  BY EstimateOfValue
<1>2. /\ n \in Nat \ {0} /\ m \in Nat \ {0} /\ UpperRow(m) = n /\ LowerRow(1) = 1
      /\ \A b \in 1 .. m : /\ LowerRow(b) \in 1 .. n /\ UpperRow(b) \in LowerRow(b) .. n
                           /\ b > 1 => b - 1 \in 1 .. m /\ LowerRow(b) = UpperRow(b-1) + 1
                           /\ Buckets[b].row_count = UpperRow(b) - LowerRow(b) + 1
  BY ColumnFacts
<1>3. \A v \in V : f[v] \in Int
  <2>1. \A b \in 1 .. m : Share(b) \in Int
    BY ShareBounds
  <2> HIDE DEF h, f, V, m
  <2> QED BY <1>1, <2>1
<1>4. ASSUME NEW b \in 1 .. m
      PROVE  /\ IsFiniteSet(Home(b)) /\ S(Home(b)) \in Int
             /\ S(Home(b)) <= Scale * (UpperRow(b) - LowerRow(b) + 1)
  <2> DEFINE H == Home(b)
  <2>1. H \subseteq ValuesOf(b) /\ \A v \in H : f[v] = Share(b)
    BY <1>1
  <2> HIDE DEF H, f, h, V
  <2>2. /\ IsFiniteSet(H) /\ SumFunctionOnSet(f, H) \in Int
        /\ SumFunctionOnSet(f, H) <= Scale * Buckets[b].row_count
    BY <2>1, SumOfShares
  <2> QED BY <1>2, <2>2 DEF H
<1> HIDE DEF h, f, V, m, n
<1> DEFINE Good == {b \in Nat : b \in 1 .. m =>
                      /\ IsFiniteSet(Before(b)) /\ S(Before(b)) \in Int
                      /\ S(Before(b)) <= Scale * UpperRow(b)}
<1>5. 0 \in Good
  OBVIOUS
<1>6. ASSUME NEW b \in Nat, b \in Good  PROVE b + 1 \in Good
  <2> HIDE DEF S, Before
  <2> SUFFICES ASSUME b + 1 \in 1 .. m
               PROVE  /\ IsFiniteSet(Before(b+1)) /\ S(Before(b+1)) \in Int
                      /\ S(Before(b+1)) <= Scale * UpperRow(b+1)
    OBVIOUS
  <2> DEFINE H == Home(b+1)
             B == Before(b)
  <2>1. IsFiniteSet(H) /\ S(H) \in Int /\ S(H) <= Scale * (UpperRow(b+1) - LowerRow(b+1) + 1)
    BY <1>4
  <2>2. UpperRow(b+1) \in Int /\ LowerRow(b+1) \in Int
    BY <1>2
  <2>3. CASE b = 0
    <3>1. Before(b+1) = H
      BY <1>1, <2>3 DEF Before
    <3>2. LowerRow(b+1) = 1
      BY <1>2, <2>3
    <3> HIDE DEF Before, H, S
    <3> QED BY <2>1, <2>2, <3>1, <3>2
  <2>4. CASE b # 0
    <3>1. b \in 1 .. m /\ UpperRow(b) \in Int /\ LowerRow(b+1) = UpperRow(b) + 1
      <4>1. b + 1 > 1 /\ b = (b + 1) - 1
        BY <2>4
      <4>2. b \in 1 .. m /\ LowerRow(b+1) = UpperRow(b) + 1
        BY <1>2, <4>1
      <4> QED BY <1>2, <4>2
    <3>2. IsFiniteSet(B) /\ S(B) \in Int /\ S(B) <= Scale * UpperRow(b)
      BY <1>6, <3>1
    <3>3. Before(b+1) = B \cup H /\ B \cap H = {}
      BY <1>1 DEF Before
    <3>4. \A v \in B \cup H : f[v] \in Int
      BY <1>3 DEF Before
    <3> HIDE DEF B, H
    <3>5. IsFiniteSet(B \cup H)
      BY <2>1, <3>2, FS_Union
    <3>6. S(B \cup H) = S(B) + S(H)
      BY <2>1, <3>2, <3>3, <3>4, SumOfUnion DEF S
    <3>7. S(B) + S(H) <= Scale * UpperRow(b+1)
      BY <2>1, <2>2, <3>1, <3>2 DEF Scale
    <3>8. S(Before(b+1)) = S(B) + S(H) /\ IsFiniteSet(Before(b+1))
      BY <3>3, <3>5, <3>6, Zenon
    <3> QED BY <2>1, <3>2, <3>7, <3>8
  <2> QED BY <2>3, <2>4
<1>7. m \in Good
  <2> HIDE DEF Good
  <2> QED BY <1>2, <1>5, <1>6, NatSetInduction
<1>8. Before(m) = V
  BY <1>1, <1>2
<1>9. SumFunctionOnSet(f, V) <= Scale * n
  <2> HIDE DEF Before
  <2> QED BY <1>2, <1>7, <1>8
<1> QED BY <1>2, <1>9, <1>8 DEF V, f, n, m

(* However the values of a column are repeated and whatever straddles a    *)
(* border, no value that occurs is estimated at nothing, and the estimates *)
(* of all values together are at most the rows there are.                  *)
THEOREM EstimatesStayBelowTheRows == Spec => []EstimatesNeverOvercount
<1>1. ASSUME ColumnInv  PROVE EstimatesNeverOvercount
  <2>1. ASSUME NEW v \in ToSet(values)  PROVE EstimatedRows(v) > 0
    <3>1. PICK b \in 1 .. Len(Buckets) : EstimatedRows(v) = Share(b)
      BY <1>1, EstimateOfValue
    <3>2. Share(b) \in Nat \ {0}
      BY <1>1, ShareBounds
    <3> QED BY <3>1, <3>2
  <2>2. SumFunction([v \in ToSet(values) |-> EstimatedRows(v)]) <= Scale * Len(values)
    BY <1>1, SumOfEstimates DEF SumFunction
  <2> QED BY <2>1, <2>2 DEF EstimatesNeverOvercount
<1> QED BY <1>1, ColumnInvariant, PTL

-----------------------------------------------------------------------------
(* Ranges: the column from its least to its greatest value.                *)
Least == InOrder[1]
Greatest == InOrder[Len(values)]

LEMMA RangeOfTheColumn ==
  ASSUME ColumnInv
  PROVE  LET stats == ColumnStats(values, bucketCount)
         IN  /\ Least \in ToSet(values) /\ Greatest \in ToSet(values)
             /\ \A v \in ToSet(values) : v \in Int /\ Least <= v /\ v <= Greatest
             /\ stats.minimum = Least /\ stats.maximum = Greatest
             /\ Cardinality(ToSet(values)) = 1 <=> Least = Greatest
<1> DEFINE n == Len(values)
           V == ToSet(values)
           low(v) == \A w \in V : v <= w
           high(v) == \A w \in V : v >= w
<1>1. /\ n \in Nat \ {0} /\ \A i \in 1 .. n : InOrder[i] \in Int
      /\ \A i, j \in 1 .. n : i <= j => InOrder[i] <= InOrder[j]
      /\ V = {InOrder[i] : i \in 1 .. n}
  BY ColumnFacts
<1> HIDE DEF n, V
<1>2. 1 \in 1 .. n /\ n \in 1 .. n /\ \A i \in 1 .. n : 1 <= i /\ i <= n
  BY <1>1
<1>3. /\ Least \in V /\ Greatest \in V
      /\ \A v \in V : v \in Int /\ Least <= v /\ v <= Greatest
  BY <1>1, <1>2 DEF Least, Greatest, n
<1>4. (CHOOSE v \in V : low(v)) = Least
  <2>1. \E v \in V : low(v)
    BY <1>3
  <2> DEFINE x == CHOOSE v \in V : low(v)
  <2>2. x \in V /\ low(x)
    BY <2>1
  <2> HIDE DEF x
  <2>3. x \in Int /\ x <= Least /\ Least <= x /\ Least \in Int
    BY <1>3, <2>2
  <2>4. x = Least
    BY <2>3
  <2> QED BY <2>4 DEF x
<1>5. (CHOOSE v \in V : high(v)) = Greatest
  <2>1. \E v \in V : high(v)
    BY <1>3
  <2> DEFINE x == CHOOSE v \in V : high(v)
  <2>2. x \in V /\ high(x)
    BY <2>1
  <2> HIDE DEF x
  <2>3. x \in Int /\ x >= Greatest /\ Greatest >= x /\ Greatest \in Int
    BY <1>3, <2>2
  <2>4. x = Greatest
    BY <2>3
  <2> QED BY <2>4 DEF x
<1>6. Cardinality(V) = 1 <=> Least = Greatest
  <2>1. ASSUME Cardinality(V) = 1  PROVE Least = Greatest
    <3>1. IsFiniteSet(1 .. n)
      BY <1>1, FS_Interval
    <3>2. IsFiniteSet(V)
      BY <1>1, <3>1, FiniteImage
    <3> QED BY <1>3, <2>1, <3>2, FS_Singleton
  <2>2. ASSUME Least = Greatest  PROVE Cardinality(V) = 1
    <3>1. V = {Least}
      <4>1. \A v \in V : v = Least
        BY <1>3, <2>2
      <4> QED BY <1>3, <4>1
    <3> QED BY <3>1, FS_Singleton
  <2> QED BY <2>1, <2>2
<1>7. ColumnStats(values, bucketCount).minimum = Least
  BY <1>4 DEF ColumnStats, V
<1>8. ColumnStats(values, bucketCount).maximum = Greatest
  BY <1>5 DEF ColumnStats, V
<1> QED BY <1>3, <1>6, <1>7, <1>8 DEF V

(* What a range of a literal is estimated at: the place of the literal in  *)
(* the range of the column, or the end of it that the literal is beyond.   *)
Clamped(v) == IF v > Greatest THEN Greatest ELSE IF v < Least THEN Least ELSE v

LEMMA RangeEstimateIs ==
  ASSUME ColumnInv, NEW v, NEW operator \in {"<", "<=", ">", ">="}
  PROVE  RangeEstimate(operator, v) =
           IF Least = Greatest THEN <<1, 1>>
           ELSE IF operator \in {"<", "<="} THEN <<Clamped(v) - Least, Greatest - Least>>
           ELSE <<(Greatest - Least) - (Clamped(v) - Least), Greatest - Least>>
<1> DEFINE stats == ColumnStats(values, bucketCount)
           predicate == [operator |-> operator, value |-> v]
<1>1. stats.minimum = Least /\ stats.maximum = Greatest
  BY RangeOfTheColumn
<1>2. predicate.operator = operator /\ predicate.value = v
  OBVIOUS
<1>3. RangeEstimate(operator, v) = EstimatePredicate(predicate, stats, TRUE)
  BY DEF RangeEstimate
<1> HIDE DEF stats, predicate
<1>4. FractionBelow(v, stats) = <<Clamped(v) - Least, Greatest - Least>>
  BY <1>1 DEF FractionBelow, AtLeast, Clamped
<1>5. operator # "="
  OBVIOUS
<1> QED BY <1>1, <1>2, <1>3, <1>4, <1>5 DEF EstimatePredicate

(* A range estimate only depends on where the literal lies between the     *)
(* least and the greatest value of the column: it grows with it, is        *)
(* nothing or everything exactly when no row is on one side, and the two   *)
(* sides add up to one.                                                    *)
THEOREM RangesSpanTheColumn == Spec => []RangeEstimatesSpanTheColumn
<1>1. ASSUME ColumnInv  PROVE RangeEstimatesSpanTheColumn
  <2> DEFINE rows == ToSet(values)
             lo == Least
             hi == Greatest
             x(v) == Clamped(v)
  <2>1. /\ lo \in rows /\ hi \in rows
        /\ \A v \in rows : v \in Int /\ lo <= v /\ v <= hi
        /\ Cardinality(rows) = 1 <=> lo = hi
    BY <1>1, RangeOfTheColumn
  <2>2. Literals \subseteq Int
    BY ColumnAssumption DEF Literals
  <2> SUFFICES ASSUME NEW v \in Literals
               PROVE  LET below == RangeEstimate("<", v)
                          above == RangeEstimate(">=", v)
                      IN  IF Cardinality(rows) = 1
                          THEN SameAs(below, <<1, 1>>) /\ SameAs(above, <<1, 1>>)
                          ELSE /\ \A w \in Literals : v <= w => LessEq(below, RangeEstimate("<=", w))
                               /\ SameAs(below, <<0, 1>>) <=> \A row \in rows : row >= v
                               /\ SameAs(below, <<1, 1>>) <=> \A row \in rows : row <= v
                               /\ below[1] + above[1] = below[2]
    BY DEF RangeEstimatesSpanTheColumn
  <2> DEFINE below == RangeEstimate("<", v)
             above == RangeEstimate(">=", v)
  <2> HIDE DEF rows
  <2>3. v \in Int /\ lo \in Int /\ hi \in Int /\ lo <= hi
    BY <2>1, <2>2
  <2>4. CASE Cardinality(rows) = 1
    <3>1. below = <<1, 1>> /\ above = <<1, 1>>
      BY <1>1, <2>1, <2>4, RangeEstimateIs
    <3> HIDE DEF below, above
    <3>2. SameAs(below, <<1, 1>>) /\ SameAs(above, <<1, 1>>)
      BY <3>1 DEF SameAs
    <3> QED BY <2>4, <3>2 DEF below, above
  <2>5. CASE Cardinality(rows) # 1
    <3>1. /\ below = <<x(v) - lo, hi - lo>>
          /\ above = <<(hi - lo) - (x(v) - lo), hi - lo>>
          /\ \A w : RangeEstimate("<=", w) = <<x(w) - lo, hi - lo>>
      BY <1>1, <2>1, <2>5, RangeEstimateIs
    <3>2. \A w \in Int : x(w) = (IF w > hi THEN hi ELSE IF w < lo THEN lo ELSE w) /\ x(w) \in Int
      BY <2>3 DEF Clamped
    <3> HIDE DEF below, above, lo, hi, x
    <3>3. ASSUME NEW w \in Literals, v <= w  PROVE LessEq(below, RangeEstimate("<=", w))
      <4>1. w \in Int
        BY <2>2
      <4>2. x(v) - lo <= x(w) - lo /\ x(v) - lo \in Int /\ x(w) - lo \in Int /\ hi - lo \in Nat
        BY <2>3, <3>2, <3>3, <4>1
      <4>3. (hi - lo) * (x(v) - lo) <= (hi - lo) * (x(w) - lo)
        BY <4>2, TimesMonotonic
      <4>4. /\ (hi - lo) * (x(v) - lo) = (x(v) - lo) * (hi - lo)
            /\ (hi - lo) * (x(w) - lo) = (x(w) - lo) * (hi - lo)
        BY <4>2, SMT
      <4>5. (x(v) - lo) * (hi - lo) <= (x(w) - lo) * (hi - lo)
        BY <4>3, <4>4
      <4> DEFINE b == RangeEstimate("<=", w)
      <4>6. b = <<x(w) - lo, hi - lo>>
        BY <3>1
      <4> HIDE DEF b
      <4> QED BY <3>1, <4>5, <4>6 DEF LessEq, b
    <3>4. SameAs(below, <<0, 1>>) <=> \A row \in rows : row >= v
      <4>1. SameAs(below, <<0, 1>>) <=> x(v) - lo = 0
        <5>1. 0 * (hi - lo) = 0 /\ (x(v) - lo) * 1 = x(v) - lo
          BY <2>3, <3>2
        <5> QED BY <3>1, <5>1 DEF SameAs
      <4>2. x(v) - lo = 0 <=> v <= lo
        BY <2>1, <2>3, <2>5, <3>2
      <4> QED BY <2>1, <2>3, <4>1, <4>2
    <3>5. SameAs(below, <<1, 1>>) <=> \A row \in rows : row <= v
      <4>1. SameAs(below, <<1, 1>>) <=> x(v) - lo = hi - lo
        <5>1. 1 * (hi - lo) = hi - lo /\ (x(v) - lo) * 1 = x(v) - lo
          BY <2>3, <3>2
        <5> QED BY <3>1, <5>1 DEF SameAs
      <4>2. x(v) - lo = hi - lo <=> v >= hi
        BY <2>1, <2>3, <2>5, <3>2
      <4> QED BY <2>1, <2>3, <4>1, <4>2
    <3>6. below[1] + above[1] = below[2]
      BY <2>3, <3>1, <3>2
    <3> QED BY <2>5, <3>3, <3>4, <3>5, <3>6 DEF below, above
  <2> QED BY <2>4, <2>5
<1> QED BY <1>1, ColumnInvariant, PTL
=============================================================================
