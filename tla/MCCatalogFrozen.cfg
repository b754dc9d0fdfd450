CONSTANTS
  TableTuplesPerPage = 1
  EntriesPerPage = 2
  TableNames = {"sized"}
  IndexableColumns = {"k"}
  PageTarget <- MCPageTarget
  InitialRows <- GrowingRows
  Batches <- GrowingBatches
  MaxRows = 4
  BucketCount = 2
  NoSnapshot = NoSnapshot
  OtherDatabases = {}
SPECIFICATION CatalogSpec
PROPERTY
  LoadedIndexEstimateStands
