CONSTANTS
  TableTuplesPerPage = 2
  EntriesPerPage = 2
  TableNames = {"fixed", "sized"}
  IndexableColumns = {"k", "v"}
  PageTarget <- MCPageTarget
  InitialRows <- MCInitialRows
  Batches <- RaggedBatches
  MaxRows = 3
SPECIFICATION Spec
INVARIANT
  InsertedRowsMatchColumns
