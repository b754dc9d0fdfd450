---------------------------- MODULE MCHistogram -----------------------------
(***************************************************************************)
(* The statistics of every small column: a column of values is filled one  *)
(* value after the other and its histogram built afresh each time.         *)
(***************************************************************************)
EXTENDS Selectivity

CONSTANTS
  MaxValue,          (* Values are 1 .. MaxValue.                          *)
  MaxLength,         (* Bound on the length of the column.                 *)
  BucketCounts

ASSUME ColumnAssumption ==
  /\ MaxValue \in Nat \ {0} /\ MaxLength \in Nat
  /\ BucketCounts \subseteq Nat \ {0}

VARIABLES values, bucketCount, histogram

vars == <<values, bucketCount, histogram>>

Init ==
  /\ values \in {<<v>> : v \in 1 .. MaxValue}
  /\ bucketCount \in BucketCounts
  /\ histogram = Build(values, bucketCount)

AddValue(v) ==
  /\ Len(values) < MaxLength
  /\ values' = Append(values, v)
  /\ histogram' = Build(values', bucketCount)
  /\ UNCHANGED bucketCount

Next == \E v \in 1 .. MaxValue : AddValue(v)

Spec == Init /\ [][Next]_vars

-----------------------------------------------------------------------------
Buckets == histogram.buckets

(* The buckets are non-empty, no more than asked for, ordered with at most *)
(* their borders in common, and lose or count twice no row.                *)
BucketsSplitTheColumn ==
  /\ Len(Buckets) \in 1 .. bucketCount
  /\ SumFunction([b \in DOMAIN Buckets |-> Buckets[b].row_count]) = Len(values)
  /\ \A b \in DOMAIN Buckets :
       /\ Buckets[b].lower <= Buckets[b].upper
       /\ b > 1 => Buckets[b-1].upper <= Buckets[b].lower
       /\ LET inside == {v \in ToSet(values) : Buckets[b].lower <= v /\ v <= Buckets[b].upper}
          IN  Cardinality(inside) = Buckets[b].distinct_count

(* Rows are estimated in units of 1/Scale, a multiple of every denominator.*)
Scale == 60
EstimatedRows(v) ==
  LET selectivity == EstimateEquality(histogram, v)
  IN  (Scale * selectivity[1] * Len(values)) \div selectivity[2]

(* A value that occurs is never estimated away, and the estimates of all   *)
(* values together never exceed the rows there are, although a value that  *)
(* straddles buckets is answered from the first of them alone.             *)
EstimatesNeverOvercount ==
  /\ \A v \in ToSet(values) : EstimatedRows(v) > 0
  /\ SumFunction([v \in ToSet(values) |-> EstimatedRows(v)]) <= Scale * Len(values)

Literals == 0 .. MaxValue + 1

RangeEstimate(operator, v) ==
  EstimatePredicate([operator |-> operator, value |-> v], ColumnStats(values, bucketCount), TRUE)

(* Literals in and outside of the range of the column, whose fractions are *)
(* not of its rows but of its range: a range is never estimated as less    *)
(* than a narrower one; without a row below the literal the estimate is    *)
(* nothing and without one above it everything, and only then; the two     *)
(* sides of a literal add up to one.  A constant column has no range, and  *)
(* all of its rows are estimated for any literal and either side.          *)
RangeEstimatesSpanTheColumn ==
  LET rows == ToSet(values)
  IN  \A v \in Literals :
        LET below == RangeEstimate("<", v)
            above == RangeEstimate(">=", v)
        IN  IF Cardinality(rows) = 1 THEN SameAs(below, <<1, 1>>) /\ SameAs(above, <<1, 1>>)
            ELSE /\ \A w \in Literals : v <= w => LessEq(below, RangeEstimate("<=", w))
                 /\ SameAs(below, <<0, 1>>) <=> \A row \in rows : row >= v
                 /\ SameAs(below, <<1, 1>>) <=> \A row \in rows : row <= v
                 /\ below[1] + above[1] = below[2]
=============================================================================
