CONSTANTS
  BufferFrames = 2
  TuplesPerPage = 2
  TableTuplesPerPage = 2
  EntriesPerPage = 3
  MaxRequests = 100
  TextColumns = {"w"}
  NoAlias = ""
  Tables <- MCTables
  LiveTables = {"r", "s", "t"}
  Indexes <- MCIndexes
  Hash <- MCHash
  Catalogs <- MCCatalogs
  Queries <- MCQueries
  Literals <- MCLiterals
  Calls <- HavingCalls
SPECIFICATION Spec
INVARIANT
  OnlySubsetAccepted
