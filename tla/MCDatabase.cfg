CONSTANTS
  TableTuplesPerPage = 2
  EntriesPerPage = 2
  TableNames = {"fixed", "sized"}
  IndexableColumns = {"k", "v"}
  PageTarget <- MCPageTarget
  InitialRows <- MCInitialRows
  Batches <- MCBatches
  MaxRows = 3
SPECIFICATION Spec
INVARIANTS
  TypeOK
  PagesHoldEveryRow
  IndexScanAgreesWithSeqScan
PROPERTY
  InsertsOnlyAppend
