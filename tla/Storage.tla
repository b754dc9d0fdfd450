------------------------------- MODULE Storage -------------------------------
(***************************************************************************)
(* Tables and indexes as values: the page layout of                        *)
(* querylab/storage/table.py and the B+tree stand-in of                    *)
(* querylab/storage/index.py.                                              *)
(*                                                                         *)
(* A row is a function from its columns to values; pages and offsets are   *)
(* counted from one.                                                       *)
(***************************************************************************)
EXTENDS PageArithmetic, RowOrder, Sequences, FiniteSets, SequencesExt

CONSTANTS
  TableTuplesPerPage,(* tuples_per_page of a table.                        *)
  EntriesPerPage     (* entries_per_page of an index.                      *)

ASSUME StorageAssumption ==
  /\ TableTuplesPerPage \in Nat \ {0}
  /\ EntriesPerPage \in Nat \ {0, 1}

-----------------------------------------------------------------------------
(* Table.  target is target_page_count, with 0 for None.                   *)

\* Mutant: no page for an empty table.
PageCountOfContents(rows, target) ==
  IF target = 0 THEN CeilDiv(Len(rows), TableTuplesPerPage) ELSE target

PageCount(rows, target) ==
  IF target = 0 THEN AtLeastOne(CeilDiv(Len(rows), TableTuplesPerPage)) ELSE target

\* Mutant: rows per page rounded down.
RowsPerPageRoundedDown(rows, target) ==
  AtLeastOne(Len(rows) \div PageCount(rows, target))

RowsPerPage(rows, target) ==
  AtLeastOne(CeilDiv(Len(rows), PageCount(rows, target)))

(* _make_pages: equal slices of the rows; trailing pages may be empty.     *)
MakePages(rows, target) ==
  [p \in 1 .. PageCount(rows, target) |->
    LET size == RowsPerPage(rows, target)
        start == (p - 1) * size
    IN  SubSeq(rows, start + 1, IF start + size < Len(rows) THEN start + size
                                                            ELSE Len(rows))]

(* The columns are those of the first row, and none for an empty table.    *)
NewTable(rows, target) ==
  [columns |-> IF rows = <<>> THEN {} ELSE DOMAIN rows[1],
   rows    |-> rows,
   target  |-> target,
   pages   |-> MakePages(rows, target)]

(* insert_rows looks at the first row of the batch only.                   *)
BatchRefused(table, batch) ==
  /\ batch # <<>>
  /\ table.columns # {}
  /\ DOMAIN batch[1] # table.columns

(* It compares columns in their order, which rows do not have here: the    *)
(* first row of a batch may have two columns or more in another order than *)
(* the table, and is refused then.                                         *)
MayBeReordered(table, batch) == batch # <<>> /\ Cardinality(table.columns) > 1

Extended(table, batch) ==
  IF batch = <<>> THEN table
  ELSE [table EXCEPT !.rows  = @ \o batch,
                     !.pages = MakePages(table.rows \o batch, table.target)]

-----------------------------------------------------------------------------
(* BTreeIndex.                                                             *)

RowAt(pages, location) == pages[location[1]][location[2]]

\* Mutant: the first rows of all pages before the second ones.
InOffsetOrder(locations) ==
  Arranged(locations, {pair \in locations \X locations :
    LET l == pair[1]
        m == pair[2]
    IN  l[2] < m[2] \/ (l[2] = m[2] /\ l[1] < m[1])})

(* Locations in the order in which a scan comes to them: page by page.     *)
InScanOrder(locations) ==
  Arranged(locations, {pair \in locations \X locations :
    LET l == pair[1]
        m == pair[2]
    IN  l[1] < m[1] \/ (l[1] = m[1] /\ l[2] < m[2])})

RowLocations(pages) == UNION {{p} \X DOMAIN pages[p] : p \in DOMAIN pages}

(* Every row location, in the order of a scan.                             *)
ScanOrder(pages) == InScanOrder(RowLocations(pages))

(* Building the index reads the column in every row.                       *)
CanIndex(table, column) == \A i \in DOMAIN table.rows : column \in DOMAIN table.rows[i]

LocationsOf(pages, column, value) ==
  InScanOrder({l \in RowLocations(pages) : RowAt(pages, l)[column] = value})

IndexLocations(table, column) ==
  [v \in {table.rows[i][column] : i \in DOMAIN table.rows} |->
    LocationsOf(table.pages, column, v)]

IndexHeight(rowCount) ==
  LET leafPages == AtLeastOne(CeilDiv(rowCount, EntriesPerPage))
  IN  IF leafPages = 1 THEN 1 ELSE 1 + CeilLog(leafPages, EntriesPerPage)

BTreeIndex(name, table, column, clustered) ==
  [table     |-> name,
   column    |-> column,
   clustered |-> clustered,
   locations |-> IndexLocations(table, column),
   height    |-> IndexHeight(Len(table.rows))]

(* The locations equality_search returns for a value.                      *)
EqualitySearch(index, value) ==
  IF value \in DOMAIN index.locations THEN index.locations[value] ELSE <<>>
=============================================================================
