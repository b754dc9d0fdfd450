----------------------------- MODULE Selectivity -----------------------------
(***************************************************************************)
(* The selectivity estimates of querylab/optimizer/selectivity.py.  A      *)
(* predicate is a record with a column reference, an operator and a value. *)
(* numeric tells a column of numbers from one of text; the literal of a    *)
(* predicate is taken to be of the type of its column.                     *)
(***************************************************************************)
EXTENDS Histogram

\* Mutant: literals outside of the range are not clamped into it.
FractionBelowUnclamped(value, stats) ==
  <<value - stats.minimum, stats.maximum - stats.minimum>>

FractionBelow(value, stats) ==
  LET clamped == IF value > stats.maximum THEN stats.maximum
                                          ELSE AtLeast(stats.minimum, value)
  IN  <<clamped - stats.minimum, stats.maximum - stats.minimum>>

EstimatePredicate(predicate, stats, numeric) ==
  LET below == FractionBelow(predicate.value, stats)
  IN  IF predicate.operator = "=" THEN EstimateEquality(stats.histogram, predicate.value)
      ELSE IF ~numeric THEN <<1, 2>>
      ELSE IF stats.maximum = stats.minimum THEN <<1, 1>>
      ELSE IF predicate.operator \in {"<", "<="} THEN below
      ELSE <<below[2] - below[1], below[2]>>

(* The independence assumption.                                            *)
EstimateConjunction(predicates, column_stats, text_columns) ==
  LET estimate(p) == EstimatePredicate(p, column_stats[p.column.name],
                                       p.column.name \notin text_columns)
      first[n \in 0 .. Len(predicates)] ==
        IF n = 0 THEN <<1, 1>> ELSE Times(first[n-1], estimate(predicates[n]))
  IN  first[Len(predicates)]
=============================================================================
