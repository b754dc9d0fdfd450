CONSTANTS
  BufferFrames = 2
  TuplesPerPage = 1
  TextColumns = {}
  LiveTables = {"r", "s", "t"}
  Indexes <- MCIndexes
  NoAlias = ""
  Queries <- MCQueries
  Catalogs <- MCCatalogs
  MaxTables = 3
SPECIFICATION PlanSpec
INVARIANTS
  EveryConditionApplied
  ConnectedQueriesHavePlans
  EstimatedRowsSameForEveryPlan
PROPERTY
  SharedNodesKeepTheirEstimates
