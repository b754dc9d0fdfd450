CONSTANTS
  TableTuplesPerPage = 1
  EntriesPerPage = 2
  TableNames = {"fixed", "sized"}
  IndexableColumns = {"k"}
  PageTarget <- MCPageTarget
  InitialRows <- MCInitialRows
  Batches <- MCBatches
  MaxRows = 3
  BucketCount = 2
  NoSnapshot = NoSnapshot
  OtherDatabases <- MCOtherDatabases
SPECIFICATION CatalogSpec
INVARIANTS
  CatalogTypeOK
  StatsAreOneMoment
