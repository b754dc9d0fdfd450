CONSTANTS
  Inputs <- MCInputs
  InputsOf <- MCInputsOf
  SortInputs <- MCSortInputs
  Hashes <- MCHashes
  BufferFrames = 4
  HashFrames = 3
  TuplesPerPage = 2
  MaxRows = 5
  MaxSorted = 7
  MaxPages = 40
SPECIFICATION Spec
INVARIANTS
  EndsWithJoinResult
  ScansAsEstimated
  PartnersShareAPartition
  SpillCloseToEstimate
  CursorsPassNoMatch
  RunsAreSortedSlices
  ResultIsStableSort
  SortIOAsEstimated
PROPERTIES
  ImplementsEquiJoin
  EveryOperatorReturns
