------------------------------ MODULE Database ------------------------------
(***************************************************************************)
(* The database container of querylab/database.py: tables, their optional  *)
(* indexes, and the inserts that change both.                              *)
(*                                                                         *)
(* insert_rows first changes the table and then rebuilds the indexes one   *)
(* after the other in the order of the dictionary; an exception in the     *)
(* middle leaves the earlier steps done.                                   *)
(***************************************************************************)
EXTENDS Storage

CONSTANTS
  TableNames,
  IndexableColumns,
  PageTarget,        (* target_page_count of each table, 0 for None.       *)
  InitialRows,       (* The row lists tables are created with.             *)
  Batches,           (* The row lists callers insert.                      *)
  MaxRows            (* Bound on the rows of a table.                      *)

ASSUME RowListAssumption ==
  \A rows \in InitialRows \cup Batches : rows \in Seq(Range(rows))

(* Table raises ValueError for a page count below one.                     *)
ASSUME PageTargetAssumption == \A t \in TableNames : PageTarget[t] \in Nat

VARIABLES
  tables,            (* From the names of the existing tables to tables.   *)
  indexes,           (* The index dictionary as a sequence, oldest first.  *)
  outcome            (* How the last call ended.                           *)

dbVars == <<tables, indexes, outcome>>

Init ==
  /\ tables = <<>>
  /\ indexes = <<>>
  /\ outcome = "ok"

AddTable(t, rows) ==
  IF t \in DOMAIN tables
  THEN outcome' = "ValueError" /\ UNCHANGED <<tables, indexes>>
  ELSE /\ tables' = [u \in DOMAIN tables \cup {t} |->
                       IF u = t THEN NewTable(rows, PageTarget[t]) ELSE tables[u]]
       /\ outcome' = "ok"
       /\ UNCHANGED indexes

\* Mutant: a list of indexes instead of a dictionary.
IndexPositionAtEnd(t, c) == Len(indexes) + 1

(* The position of an index in the dictionary, or where a new one goes.    *)
IndexPosition(t, c) ==
  IF \E i \in DOMAIN indexes : indexes[i].table = t /\ indexes[i].column = c
  THEN CHOOSE i \in DOMAIN indexes : indexes[i].table = t /\ indexes[i].column = c
  ELSE Len(indexes) + 1

(* KeyError: no such table, or a row without the column.                   *)
CreateIndex(t, c, clustered) ==
  /\ IF t \in DOMAIN tables /\ CanIndex(tables[t], c)
     THEN /\ indexes' = [i \in 1 .. Len(indexes) \cup {IndexPosition(t, c)} |->
                           IF i = IndexPosition(t, c)
                           THEN BTreeIndex(t, tables[t], c, clustered)
                           ELSE indexes[i]]
          /\ outcome' = "ok"
     ELSE outcome' = "KeyError" /\ UNCHANGED indexes
  /\ UNCHANGED tables

(* The first index of the table that cannot be built any more, if any.     *)
RebuildStop(t, table) ==
  Min({i \in DOMAIN indexes :
         indexes[i].table = t /\ ~CanIndex(table, indexes[i].column)}
      \cup {Len(indexes) + 1})

\* Mutants: a loop that returns after its first index, and a rebuild with
\* the default for clustered.
RebuiltFirstOnly(t, table) ==
  [i \in DOMAIN indexes |->
    IF /\ indexes[i].table = t /\ i < RebuildStop(t, table)
       /\ \A j \in 1 .. i-1 : indexes[j].table # t
    THEN BTreeIndex(t, table, indexes[i].column, indexes[i].clustered)
    ELSE indexes[i]]
RebuiltUnclustered(t, table) ==
  [i \in DOMAIN indexes |->
    IF indexes[i].table = t /\ i < RebuildStop(t, table)
    THEN BTreeIndex(t, table, indexes[i].column, FALSE)
    ELSE indexes[i]]

(* The indexes after the rebuild loop of insert_rows.                      *)
Rebuilt(t, table) ==
  [i \in DOMAIN indexes |->
    IF indexes[i].table = t /\ i < RebuildStop(t, table)
    THEN BTreeIndex(t, table, indexes[i].column, indexes[i].clustered)
    ELSE indexes[i]]

InsertRows(t, batch) ==
  IF t \notin DOMAIN tables
  THEN outcome' = "KeyError" /\ UNCHANGED <<tables, indexes>>
  ELSE /\ Len(tables[t].rows) + Len(batch) <= MaxRows
       /\ \/ /\ BatchRefused(tables[t], batch) \/ MayBeReordered(tables[t], batch)
             /\ outcome' = "ValueError"
             /\ UNCHANGED <<tables, indexes>>
          \/ /\ ~BatchRefused(tables[t], batch)
             /\ LET table == Extended(tables[t], batch)
                IN  /\ tables' = [tables EXCEPT ![t] = table]
                    /\ indexes' = Rebuilt(t, table)
                    /\ outcome' = IF RebuildStop(t, table) <= Len(indexes)
                                  THEN "KeyError" ELSE "ok"

Next ==
  \/ \E t \in TableNames, rows \in InitialRows : AddTable(t, rows)
  \/ \E t \in TableNames, c \in IndexableColumns, clustered \in BOOLEAN :
       CreateIndex(t, c, clustered)
  \/ \E t \in TableNames, batch \in Batches : InsertRows(t, batch)

Spec == Init /\ [][Next]_dbVars

-----------------------------------------------------------------------------
(* The dictionaries have their shapes: one entry per table and column.     *)
TypeOK ==
  /\ DOMAIN tables \subseteq TableNames
  /\ \A i \in DOMAIN indexes :
       indexes[i].table \in DOMAIN tables /\ indexes[i].column \in IndexableColumns
  /\ \A i, j \in DOMAIN indexes :
       indexes[i].table = indexes[j].table /\ indexes[i].column = indexes[j].column
         => i = j
  /\ outcome \in {"ok", "ValueError", "KeyError"}

(* Whatever the layout knobs and however a table grew, a scan of its pages *)
(* meets every row once, in insertion order, and a fixed page count stays. *)
PagesHoldEveryRow ==
  \A t \in DOMAIN tables :
    /\ LET scan == ScanOrder(tables[t].pages)
       IN  [n \in DOMAIN scan |-> RowAt(tables[t].pages, scan[n])] = tables[t].rows
    /\ PageTarget[t] # 0 => Len(tables[t].pages) = PageTarget[t]

(* Rows a query gets from an index scan, before the other predicates.      *)
ThroughIndex(index, value) ==
  LET locations == EqualitySearch(index, value)
  IN  [i \in DOMAIN locations |-> RowAt(tables[index.table].pages, locations[i])]

(* An index that no insert has left behind: neither it nor one that comes  *)
(* before it has a column that rows of the table lack.                     *)
KeptUp(i) ==
  \A j \in 1 .. i :
    indexes[j].table = indexes[i].table =>
      CanIndex(tables[indexes[i].table], indexes[j].column)

(* An index scan returns what a sequential scan with the same equality     *)
(* predicate returns, row by row, after every insert and re-pagination -   *)
(* unless a ragged batch has ended the rebuild loop before that index.     *)
IndexScanAgreesWithSeqScan ==
  \A i \in DOMAIN indexes : KeptUp(i) =>
    LET index == indexes[i]
        rows == tables[index.table].rows
    IN  \A v \in UNION {Range(rows[j]) : j \in DOMAIN rows} \cup DOMAIN index.locations :
          LET scan == Ascending({j \in DOMAIN rows : rows[j][index.column] = v})
          IN  ThroughIndex(index, v) = [n \in DOMAIN scan |-> rows[scan[n]]]

(* table.py: "inserted rows must match the table columns" - once a table   *)
(* has columns, every row of it has them and no others.                    *)
InsertedRowsMatchColumns ==
  \A t \in DOMAIN tables : tables[t].columns # {} =>
    \A i \in DOMAIN tables[t].rows : DOMAIN tables[t].rows[i] = tables[t].columns

(* An insert never loses, reorders or reshapes what was there: rows are    *)
(* appended, and an index keeps its place and whether it is clustered.     *)
InsertsOnlyAppend ==
  [][/\ \A t \in DOMAIN tables : IsPrefix(tables[t].rows, tables'[t].rows)
     /\ tables' # tables =>
          \A i \in DOMAIN indexes :
            /\ indexes'[i].table = indexes[i].table
            /\ indexes'[i].column = indexes[i].column
            /\ indexes'[i].clustered = indexes[i].clustered]_dbVars
=============================================================================
