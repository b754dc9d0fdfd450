------------------------------- MODULE Catalog -------------------------------
(***************************************************************************)
(* The statistics catalog of querylab/catalog/catalog.py over the live     *)
(* database: analyze, freeze, unfreeze, save and load, while inserts and   *)
(* new indexes keep changing the database underneath.                      *)
(*                                                                         *)
(* The last three variables are history: analyzed holds the tables as they *)
(* were when the statistics in force were computed, loaded tells that      *)
(* these statistics were read from a snapshot, and foreign that they are   *)
(* of another database: a file that another run of the program saved.      *)
(***************************************************************************)
EXTENDS Database

CONSTANTS
  BucketCount,       (* bucket_count of analyze.                           *)
  NoSnapshot,        (* This run has saved no snapshot yet.                *)
  OtherDatabases     (* What other runs had analyzed when they saved their *)
                     (* snapshots: functions from names to tables.         *)

(* analyze computes no statistics of tables without pages, and an empty    *)
(* catalog is not saved.                                                   *)
ASSUME OtherDatabaseAssumption ==
  \A database \in OtherDatabases :
    /\ DOMAIN database # {}
    /\ \A t \in DOMAIN database :
         Len(database[t].rows) \in Nat /\ Len(database[t].pages) \in Nat \ {0}

VARIABLES
  table_stats,       (* From table names to TableStats.                    *)
  frozen,
  snapshot,          (* The saved document, or NoSnapshot.                 *)
  analyzed,          (* The tables behind table_stats.                     *)
  loaded,            (* Whether table_stats comes from a snapshot.         *)
  foreign            (* Whether analyzed is of another run.                *)

catalogVars == <<table_stats, frozen, snapshot, analyzed, loaded, foreign>>
vars == <<dbVars, catalogVars>>

Stats == INSTANCE Histogram

CatalogInit ==
  /\ Init
  /\ table_stats = <<>>
  /\ frozen = FALSE
  /\ snapshot = NoSnapshot
  /\ analyzed = <<>>
  /\ loaded = FALSE
  /\ foreign = FALSE

-----------------------------------------------------------------------------
(* [row[column_name] for row in rows] raises KeyError for a row without it.*)
Analyzable(table) ==
  \A i \in DOMAIN table.rows : table.columns \subseteq DOMAIN table.rows[i]

TableStats(table) == Stats!TableStats(table, BucketCount)

\* Mutant: entries replaced one by one, up to the table that fails.
AnalyzedOneByOne(old) ==
  [t \in DOMAIN old \cup {u \in DOMAIN tables : Analyzable(tables[u])} |->
    IF t \in DOMAIN tables /\ Analyzable(tables[t]) THEN TableStats(tables[t]) ELSE old[t]]

(* The statistics analyze leaves: all of them new, or, when some table     *)
(* cannot be analyzed, the old ones.                                       *)
Analyzed(old) ==
  IF \A t \in DOMAIN tables : Analyzable(tables[t])
  THEN [t \in DOMAIN tables |-> TableStats(tables[t])]
  ELSE old

Analyze(force) ==
  /\ UNCHANGED <<tables, indexes, frozen, snapshot>>
  /\ IF frozen /\ ~force
     THEN outcome' = "RuntimeError" /\ UNCHANGED <<table_stats, analyzed, loaded, foreign>>
     ELSE LET complete == \A t \in DOMAIN tables : Analyzable(tables[t])
          IN  /\ table_stats' = Analyzed(table_stats)
              /\ analyzed' = IF complete THEN tables ELSE analyzed
              /\ loaded' = (loaded /\ ~complete)
              /\ foreign' = (foreign /\ ~complete)
              /\ outcome' = IF complete THEN "ok" ELSE "KeyError"

SetFrozen(value) ==
  /\ frozen' = value
  /\ outcome' = "ok"
  /\ UNCHANGED <<tables, indexes, table_stats, snapshot, analyzed, loaded, foreign>>

Freeze == SetFrozen(TRUE)
Unfreeze == SetFrozen(FALSE)

(* to_dict: the statistics, and the indexes as they are when it is called. *)
Document ==
  [frozen  |-> frozen,
   tables  |-> table_stats,
   indexes |-> {[table |-> indexes[i].table, column |-> indexes[i].column,
                 height |-> indexes[i].height, clustered |-> indexes[i].clustered] :
                i \in {j \in DOMAIN indexes : indexes[j].table \in DOMAIN table_stats}},
   behind  |-> analyzed,
   foreign |-> foreign]

Save ==
  /\ UNCHANGED <<tables, indexes, table_stats, frozen, analyzed, loaded, foreign>>
  /\ \/ /\ table_stats = <<>>
        /\ outcome' = "RuntimeError"
        /\ UNCHANGED snapshot
     \/ /\ table_stats # <<>>
        /\ snapshot' = Document
        /\ outcome' = "ok"

(* What load reads of the file of another run, over its own database.      *)
SnapshotOf(database) ==
  [tables  |-> [t \in DOMAIN database |-> TableStats(database[t])],
   behind  |-> database,
   foreign |-> TRUE]

(* load: a new catalog over the live database, which nothing in the file   *)
(* is compared with.  The statistics go through the document unchanged;    *)
(* the index metadata and the flag in it are not read, and the catalog is  *)
(* always frozen.                                                          *)
LoadDocument(document) ==
  /\ table_stats' = document.tables
  /\ analyzed' = document.behind
  /\ foreign' = document.foreign
  /\ frozen' = TRUE
  /\ loaded' = TRUE
  /\ outcome' = "ok"
  /\ UNCHANGED <<tables, indexes, snapshot>>

(* The file is this run's own, of another run, or not a snapshot.          *)
Load ==
  \/ snapshot # NoSnapshot /\ LoadDocument(snapshot)
  \/ \E database \in OtherDatabases : LoadDocument(SnapshotOf(database))
  \/ outcome' = "ValueError" /\ UNCHANGED <<tables, indexes, catalogVars>>

CatalogNext ==
  \/ Next /\ UNCHANGED catalogVars
  \/ \E force \in BOOLEAN : Analyze(force)
  \/ Freeze
  \/ Unfreeze
  \/ Save
  \/ Load

CatalogSpec == CatalogInit /\ [][CatalogNext]_vars

-----------------------------------------------------------------------------
(* What the optimizer makes of the statistics: the page estimate of an     *)
(* index scan (querylab/optimizer/cost_estimator.py).                      *)

(* An equality on the index column, with no other predicate.               *)
IndexScanIO(index, value) ==
  LET stats == table_stats[index.table]
      selectivity == Stats!EstimateEquality(stats.columns[index.column].histogram, value)
      spread == IF index.clustered THEN stats.page_count ELSE stats.row_count
  IN  index.height + CeilDiv(selectivity[1] * spread, selectivity[2])

(* The indexes the catalog can estimate a scan of.                         *)
Estimable ==
  {i \in DOMAIN indexes :
     /\ indexes[i].table \in DOMAIN table_stats
     /\ indexes[i].column \in DOMAIN table_stats[indexes[i].table].columns}

-----------------------------------------------------------------------------
(* The statistics, the flags and the snapshot have their shapes, whatever  *)
(* run saved them; a table has some page.  Statistics of this database,    *)
(* also when they went through a file, are of tables that exist, of their  *)
(* columns and of no more rows than they have by now.  Those of another    *)
(* run may name other tables and columns, and more rows.                   *)
CatalogTypeOK ==
  /\ \A t \in DOMAIN table_stats :
       /\ table_stats[t].row_count \in Nat
       /\ table_stats[t].page_count \in Nat \ {0}
  /\ ~foreign => \A t \in DOMAIN table_stats :
       /\ t \in DOMAIN tables
       /\ DOMAIN table_stats[t].columns = tables[t].columns
       /\ table_stats[t].row_count <= Len(tables[t].rows)
  /\ frozen \in BOOLEAN /\ loaded \in BOOLEAN /\ foreign \in BOOLEAN
  /\ snapshot # NoSnapshot => snapshot.tables # <<>>
  /\ outcome \in {"ok", "ValueError", "KeyError", "RuntimeError"}

(* The statistics in force are always those of one moment: of every table  *)
(* that existed at some analyze, of this run or of the one that saved the  *)
(* file, never a mix of old and new entries or of two databases, even      *)
(* after an analyze that failed half way, a save, inserts and loads.       *)
StatsAreOneMoment ==
  table_stats = [t \in DOMAIN analyzed |-> TableStats(analyzed[t])]

(* README.md: "A loaded snapshot is frozen. The optimizer continues to use *)
(* its stored values even if the generated table data changes" - so that   *)
(* an insert leaves the estimate of an index scan alone.                   *)
LoadedIndexEstimateStands ==
  [][loaded /\ loaded' /\ tables' # tables
       => \A i \in Estimable : \A v \in 1 .. 2 :
            IndexScanIO(indexes'[i], v) = IndexScanIO(indexes[i], v)]_vars
=============================================================================
