------------------------------ MODULE Histogram ------------------------------
(***************************************************************************)
(* The column statistics of querylab/catalog/stats.py: an equi-depth       *)
(* histogram over the sorted values, and the selectivity it gives an       *)
(* equality.  A selectivity is a pair <<numerator, denominator>>.          *)
(***************************************************************************)
EXTENDS PageArithmetic, RowOrder, Sequences, FiniteSets, SequencesExt

\* Mutant: bucket size rounded down.
BucketSizeRoundedDown(count, bucketCount) == AtLeastOne(count \div bucketCount)

BucketSize(count, bucketCount) == AtLeastOne(CeilDiv(count, bucketCount))

(* Slices of equal length of the sorted values; a run of equal values may  *)
(* cross into the next slice.                                              *)
Build(values, bucketCount) ==
  LET order == Sorted(values, DOMAIN values)
      sorted == [n \in DOMAIN order |-> values[order[n]]]
      size == BucketSize(Len(values), bucketCount)
      slice(b) == SubSeq(sorted, (b-1) * size + 1,
                         IF b * size < Len(values) THEN b * size ELSE Len(values))
  IN  [buckets |-> [b \in 1 .. CeilDiv(Len(values), size) |->
                     [lower          |-> Head(slice(b)),
                      upper          |-> Last(slice(b)),
                      row_count      |-> Len(slice(b)),
                      distinct_count |-> Cardinality(ToSet(slice(b)))]],
       total_rows |-> Len(values)]

\* Mutant: all rows of the bucket for each of its values.
EstimateWholeBucket(histogram, value) ==
  LET covering == {b \in DOMAIN histogram.buckets :
                     /\ histogram.buckets[b].lower <= value
                     /\ value <= histogram.buckets[b].upper}
      first == histogram.buckets[CHOOSE b \in covering : \A c \in covering : b <= c]
  IN  IF covering = {} THEN <<0, 1>>
      ELSE <<first.row_count, histogram.total_rows>>

(* estimate_equality stops at the first bucket whose range has the value.  *)
EstimateEquality(histogram, value) ==
  LET covering == {b \in DOMAIN histogram.buckets :
                     /\ histogram.buckets[b].lower <= value
                     /\ value <= histogram.buckets[b].upper}
      first == histogram.buckets[CHOOSE b \in covering : \A c \in covering : b <= c]
  IN  IF covering = {} THEN <<0, 1>>
      ELSE <<first.row_count, first.distinct_count * histogram.total_rows>>

(* ColumnStats of a column with at least one value.                        *)
ColumnStats(values, bucketCount) ==
  [distinct_count |-> Cardinality(ToSet(values)),
   minimum        |-> CHOOSE v \in ToSet(values) : \A w \in ToSet(values) : v <= w,
   maximum        |-> CHOOSE v \in ToSet(values) : \A w \in ToSet(values) : v >= w,
   histogram      |-> Build(values, bucketCount)]

TableStats(table, bucketCount) ==
  [row_count  |-> Len(table.rows),
   page_count |-> Len(table.pages),
   columns    |-> [c \in table.columns |->
                    ColumnStats([i \in DOMAIN table.rows |-> table.rows[i][c]], bucketCount)]]
=============================================================================
