CONSTANTS
  Inputs <- MCInputs
  BufferFrames = 4
  TuplesPerPage = 2
SPECIFICATION Spec
INVARIANT
  SameResultAsEveryPlan
