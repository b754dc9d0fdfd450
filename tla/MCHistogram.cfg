CONSTANTS
  MaxValue = 4
  MaxLength = 6
  BucketCounts = {1, 2, 3, 4}
SPECIFICATION Spec
CHECK_DEADLOCK FALSE
INVARIANTS
  BucketsSplitTheColumn
  EstimatesNeverOvercount
  RangeEstimatesSpanTheColumn
