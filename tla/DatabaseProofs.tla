--------------------------- MODULE DatabaseProofs ----------------------------
(***************************************************************************)
(* The database container and the catalog over it, for any tables,         *)
(* columns, row lists and batches, ragged ones included.                   *)
(***************************************************************************)
EXTENDS Catalog, HelperProofs, SequenceTheorems, TLAPS

-----------------------------------------------------------------------------
(* Tables, indexes and what calls do to them.  What pages and locations    *)
(* contain does not matter here.                                           *)

(* TypeOK without the outcome, which calls of the catalog set, too.        *)
DictionariesOK ==
  /\ DOMAIN tables \subseteq TableNames
  /\ \A i \in DOMAIN indexes :
       indexes[i].table \in DOMAIN tables /\ indexes[i].column \in IndexableColumns
  /\ \A i, j \in DOMAIN indexes :
       indexes[i].table = indexes[j].table /\ indexes[i].column = indexes[j].column
         => i = j

(* Tables are records whose rows are a list, and the index dictionary has  *)
(* no gaps: what the type invariant leaves to the values themselves.       *)
TableOK(table) ==
  /\ table = [columns |-> table.columns, rows |-> table.rows,
              target |-> table.target, pages |-> table.pages]
  /\ table.rows \in Seq(Range(table.rows))

DatabaseInv ==
  /\ DictionariesOK
  /\ tables = [t \in DOMAIN tables |-> tables[t]]
  /\ \A t \in DOMAIN tables : TableOK(tables[t])
  /\ indexes \in Seq(Range(indexes))

LEMMA AppendOnly ==
  ASSUME NEW rows, rows \in Seq(Range(rows)),
         NEW batch, batch \in Seq(Range(batch))
  PROVE  /\ rows \o batch \in Seq(Range(rows \o batch))
         /\ IsPrefix(rows, rows) /\ IsPrefix(rows, rows \o batch)
<1> DEFINE S == Range(rows) \cup Range(batch)
           n == Len(rows)
           both == rows \o batch
<1>1. rows \in Seq(S) /\ batch \in Seq(S)
  BY SeqMonotonic
<1>2. /\ both \in Seq(S) /\ Len(both) = n + Len(batch)
      /\ \A i \in 1 .. n + Len(batch) :
           both[i] = IF i <= n THEN rows[i] ELSE batch[i - n]
  BY <1>1, ConcatProperties
<1>3. n \in Nat /\ Len(batch) \in Nat /\ DOMAIN rows = 1 .. n
  BY LenProperties
<1> HIDE DEF both, S
<1>4. both \in Seq(Range(both))
  <2>1. both \in Seq(S)
    BY <1>2
  <2> QED BY <2>1, SeqOfRange
<1>5. \A i \in 1 .. n : rows[i] \in S /\ both[i] \in S /\ both[i] = rows[i]
  <2>1. \A i \in 1 .. n : rows[i] \in S
    BY <1>1, ElementOfSeq
  <2>2. \A i \in 1 .. n : i \in 1 .. n + Len(batch) /\ i <= n
    BY <1>3
  <2> QED BY <1>2, <2>1, <2>2
<1>6. SubSeq(rows, 1, n) = SubSeq(both, 1, n)
  <2>1. /\ SubSeq(rows, 1, n) \in Seq(S)
        /\ Len(SubSeq(rows, 1, n)) = IF 1 <= n THEN n-1+1 ELSE 0
        /\ \A i \in 1 .. n-1+1 : SubSeq(rows, 1, n)[i] = rows[1+i-1]
    BY <1>3, <1>5, SubSeqProperties
  <2>2. /\ SubSeq(both, 1, n) \in Seq(S)
        /\ Len(SubSeq(both, 1, n)) = IF 1 <= n THEN n-1+1 ELSE 0
        /\ \A i \in 1 .. n-1+1 : SubSeq(both, 1, n)[i] = both[1+i-1]
    BY <1>3, <1>5, SubSeqProperties
  <2>3. \A i \in 1 .. n : SubSeq(rows, 1, n)[i] = SubSeq(both, 1, n)[i]
    BY <1>3, <1>5, <2>1, <2>2
  <2> QED BY <1>3, <2>1, <2>2, <2>3, SeqEqual
<1>7. IsPrefix(rows, rows)
  BY <1>3 DEF IsPrefix
<1>8. IsPrefix(rows, both)
  BY <1>2, <1>3, <1>6 DEF IsPrefix
<1> QED BY <1>4, <1>7, <1>8 DEF both

LEMMA IndexesList ==
  ASSUME DatabaseInv
  PROVE  Len(indexes) \in Nat /\ DOMAIN indexes = 1 .. Len(indexes)
BY LenProperties DEF DatabaseInv

LEMMA ExtendedOK ==
  ASSUME NEW table, TableOK(table), NEW batch \in Batches
  PROVE  TableOK(Extended(table, batch)) /\ IsPrefix(table.rows, Extended(table, batch).rows)
<1>1. batch \in Seq(Range(batch)) /\ table.rows \in Seq(Range(table.rows))
  BY RowListAssumption DEF TableOK
<1>2. /\ table.rows \o batch \in Seq(Range(table.rows \o batch))
      /\ IsPrefix(table.rows, table.rows) /\ IsPrefix(table.rows, table.rows \o batch)
  BY <1>1, AppendOnly
<1>3. CASE batch = <<>>
  BY <1>2, <1>3 DEF Extended
<1>4. CASE batch # <<>>
  <2>1. Extended(table, batch) =
          [columns |-> table.columns, rows |-> table.rows \o batch, target |-> table.target,
           pages |-> MakePages(table.rows \o batch, table.target)]
    BY <1>4 DEF Extended, TableOK
  <2> QED BY <1>2, <2>1 DEF TableOK
<1> QED BY <1>3, <1>4

LEMMA InitDatabaseInv ==
  ASSUME Init
  PROVE  DatabaseInv
<1>1. DOMAIN tables = {} /\ DOMAIN indexes = {} /\ outcome = "ok"
  BY DEF Init
<1>2. indexes \in Seq(Range(indexes))
  BY EmptySeq DEF Init
<1>3. tables = [t \in DOMAIN tables |-> tables[t]]
  BY DEF Init
<1> QED BY <1>1, <1>2, <1>3 DEF DatabaseInv, DictionariesOK

LEMMA AddTableKeepsInv ==
  ASSUME DatabaseInv, NEW t \in TableNames, NEW rows \in InitialRows, AddTable(t, rows)
  PROVE  /\ DatabaseInv'
         /\ \A u \in DOMAIN tables : tables'[u] = tables[u]
         /\ UNCHANGED indexes
<1>1. CASE t \in DOMAIN tables
  BY <1>1 DEF AddTable, DatabaseInv, DictionariesOK
<1>2. CASE t \notin DOMAIN tables
  <2>1. /\ tables' = [u \in DOMAIN tables \cup {t} |->
                       IF u = t THEN NewTable(rows, PageTarget[t]) ELSE tables[u]]
        /\ outcome' = "ok" /\ UNCHANGED indexes
    BY <1>2 DEF AddTable
  <2>2. /\ DOMAIN tables' = DOMAIN tables \cup {t}
        /\ tables' = [u \in DOMAIN tables' |-> tables'[u]]
        /\ \A u \in DOMAIN tables : tables'[u] = tables[u]
        /\ tables'[t] = NewTable(rows, PageTarget[t])
    BY <1>2, <2>1
  <2>3. TableOK(tables'[t])
    BY <2>2, RowListAssumption DEF TableOK, NewTable
  <2>4. DictionariesOK'
    BY <2>1, <2>2 DEF DatabaseInv, DictionariesOK
  <2>5. \A u \in DOMAIN tables' : TableOK(tables'[u])
    BY <2>2, <2>3 DEF DatabaseInv
  <2> QED BY <2>1, <2>2, <2>4, <2>5 DEF DatabaseInv, TableOK
<1> QED BY <1>1, <1>2

(* An index replaces the one of its table and column, or comes last.       *)
LEMMA CreateIndexKeepsInv ==
  ASSUME DatabaseInv, NEW t \in TableNames, NEW c \in IndexableColumns,
         NEW clustered \in BOOLEAN, CreateIndex(t, c, clustered)
  PROVE  DatabaseInv' /\ UNCHANGED tables
<1>1. UNCHANGED tables
  BY DEF CreateIndex
<1>2. CASE UNCHANGED indexes /\ outcome' = "KeyError"
  BY <1>1, <1>2 DEF DatabaseInv, DictionariesOK
<1>3. CASE ~(UNCHANGED indexes /\ outcome' = "KeyError")
  <2> DEFINE n == Len(indexes)
             p == IndexPosition(t, c)
             new == BTreeIndex(t, tables[t], c, clustered)
  <2>1. /\ t \in DOMAIN tables
        /\ indexes' = [i \in 1 .. n \cup {p} |-> IF i = p THEN new ELSE indexes[i]]
        /\ outcome' = "ok"
    BY <1>3 DEF CreateIndex
  <2>2. n \in Nat /\ DOMAIN indexes = 1 .. n
    BY IndexesList
  <2>3. \/ /\ p \in 1 .. n /\ indexes[p].table = t /\ indexes[p].column = c
        \/ /\ p = n + 1
           /\ \A i \in 1 .. n : ~(indexes[i].table = t /\ indexes[i].column = c)
    BY <2>2 DEF IndexPosition
  <2>4. new.table = t /\ new.column = c
    BY DEF BTreeIndex
  <2> HIDE DEF n, p, new
  <2>5. PICK k \in Nat : 1 .. n \cup {p} = 1 .. k
    <3>1. CASE p \in 1 .. n
      <4>1. 1 .. n \cup {p} = 1 .. n
        BY <3>1
      <4> QED BY <2>2, <4>1
    <3>2. CASE p = n + 1
      <4>1. 1 .. n \cup {p} = 1 .. (n + 1) /\ n + 1 \in Nat
        BY <2>2, <3>2
      <4> QED BY <4>1
    <3> QED BY <2>3, <3>1, <3>2
  <2>6. /\ DOMAIN indexes' = 1 .. k
        /\ \A i \in 1 .. k : i = p \/ i \in 1 .. n
        /\ p \in 1 .. k
        /\ \A i \in 1 .. k : indexes'[i] = IF i = p THEN new ELSE indexes[i]
    <3>1. p \in 1 .. k /\ \A i \in 1 .. k : i = p \/ i \in 1 .. n
      BY <2>5
    <3>2. indexes' = [i \in 1 .. k |-> IF i = p THEN new ELSE indexes[i]]
      BY <2>1, <2>5
    <3> QED BY <3>1, <3>2
  <2>7. indexes' \in Seq(Range(indexes'))
    <3> DEFINE R == Range(indexes')
               e(i) == indexes'[i]
    <3>1. \A i \in 1 .. k : e(i) \in R
      BY <2>6 DEF Range
    <3>2. indexes' = [i \in 1 .. k |-> e(i)]
      BY <2>1, <2>5
    <3> HIDE DEF R, e
    <3>3. [i \in 1 .. k |-> e(i)] \in Seq(R)
      BY <3>1, IsASeq
    <3> QED BY <3>2, <3>3 DEF R
  <2>8. \A i \in 1 .. k : /\ indexes'[i].table \in DOMAIN tables
                          /\ indexes'[i].column \in IndexableColumns
    BY <2>1, <2>2, <2>4, <2>6 DEF DatabaseInv, DictionariesOK
  <2>9. ASSUME NEW i \in 1 .. k, NEW j \in 1 .. k,
               indexes'[i].table = indexes'[j].table, indexes'[i].column = indexes'[j].column
        PROVE  i = j
    <3>1. CASE i = p /\ j = p
      BY <3>1
    <3>2. CASE i # p /\ j # p
      BY <2>2, <2>6, <2>9, <3>2 DEF DatabaseInv, DictionariesOK
    <3>3. CASE i = p /\ j # p
      <4>1. j \in 1 .. n /\ indexes[j].table = t /\ indexes[j].column = c
        BY <2>4, <2>6, <2>9, <3>3
      <4> QED BY <2>2, <2>3, <3>3, <4>1 DEF DatabaseInv, DictionariesOK
    <3>4. CASE i # p /\ j = p
      <4>1. i \in 1 .. n /\ indexes[i].table = t /\ indexes[i].column = c
        BY <2>4, <2>6, <2>9, <3>4
      <4> QED BY <2>2, <2>3, <3>4, <4>1 DEF DatabaseInv, DictionariesOK
    <3> QED BY <3>1, <3>2, <3>3, <3>4
  <2>10. DictionariesOK'
    BY <1>1, <2>1, <2>6, <2>8, <2>9 DEF DatabaseInv, DictionariesOK
  <2> QED BY <1>1, <2>7, <2>10 DEF DatabaseInv
<1> QED BY <1>2, <1>3, <1>1

(* The rebuild loop assigns to keys that exist, in their places.           *)
LEMMA InsertKeepsInv ==
  ASSUME DatabaseInv, NEW t \in TableNames, NEW batch \in Batches, InsertRows(t, batch)
  PROVE  /\ DatabaseInv'
         /\ \A u \in DOMAIN tables : IsPrefix(tables[u].rows, tables'[u].rows)
         /\ \A i \in DOMAIN indexes :
              /\ indexes'[i].table = indexes[i].table
              /\ indexes'[i].column = indexes[i].column
              /\ indexes'[i].clustered = indexes[i].clustered
<1>1. \A u \in DOMAIN tables : TableOK(tables[u]) /\ IsPrefix(tables[u].rows, tables[u].rows)
  BY AppendOnly DEF DatabaseInv, TableOK
<1>2. CASE UNCHANGED <<tables, indexes>>
  BY <1>1, <1>2 DEF DatabaseInv, DictionariesOK
<1>3. CASE ~UNCHANGED <<tables, indexes>>
  <2> DEFINE table == Extended(tables[t], batch)
  <2>1. /\ t \in DOMAIN tables
        /\ tables' = [tables EXCEPT ![t] = table]
        /\ indexes' = Rebuilt(t, table)
    BY <1>3 DEF InsertRows
  <2>2. TableOK(table) /\ IsPrefix(tables[t].rows, table.rows)
    BY <1>1, <2>1, ExtendedOK
  <2> HIDE DEF table
  <2>3. /\ DOMAIN tables' = DOMAIN tables
        /\ tables' = [u \in DOMAIN tables' |-> tables'[u]]
        /\ \A u \in DOMAIN tables : tables'[u] = IF u = t THEN table ELSE tables[u]
    BY <2>1 DEF DatabaseInv
  <2>4. /\ DOMAIN indexes' = DOMAIN indexes
        /\ \A i \in DOMAIN indexes :
             /\ indexes'[i].table = indexes[i].table
             /\ indexes'[i].column = indexes[i].column
             /\ indexes'[i].clustered = indexes[i].clustered
    BY <2>1 DEF Rebuilt, BTreeIndex
  <2>5. indexes' \in Seq(Range(indexes'))
    <3> DEFINE R == Range(indexes')
               e(i) == indexes'[i]
    <3>1. Len(indexes) \in Nat /\ DOMAIN indexes' = 1 .. Len(indexes)
      BY <2>4, IndexesList
    <3>2. \A i \in 1 .. Len(indexes) : e(i) \in R
      BY <3>1 DEF Range
    <3>3. indexes' = [i \in 1 .. Len(indexes) |-> e(i)]
      BY <2>1, <3>1 DEF Rebuilt
    <3> HIDE DEF R, e
    <3>4. [i \in 1 .. Len(indexes) |-> e(i)] \in Seq(R)
      BY <3>1, <3>2, IsASeq
    <3> QED BY <3>3, <3>4 DEF R
  <2>6. DictionariesOK'
    BY <2>1, <2>3, <2>4 DEF DatabaseInv, DictionariesOK
  <2>7. \A u \in DOMAIN tables' : TableOK(tables'[u])
    BY <1>1, <2>2, <2>3
  <2>8. \A u \in DOMAIN tables : IsPrefix(tables[u].rows, tables'[u].rows)
    BY <1>1, <2>2, <2>3
  <2>9. DatabaseInv'
    BY <2>3, <2>5, <2>6, <2>7 DEF DatabaseInv, TableOK
  <2> QED BY <2>4, <2>8, <2>9
<1> QED BY <1>2, <1>3

-----------------------------------------------------------------------------
LEMMA StepKeepsDatabaseInv ==
  ASSUME DatabaseInv, [Next]_dbVars
  PROVE  DatabaseInv'
<1>1. CASE UNCHANGED dbVars
  BY <1>1 DEF dbVars, DatabaseInv, DictionariesOK
<1> QED BY <1>1, AddTableKeepsInv, CreateIndexKeepsInv, InsertKeepsInv DEF Next

(* The dictionaries keep their shapes: one index a table and column, of a  *)
(* table that exists, however calls succeed, are refused or fail half way. *)
THEOREM DatabaseTypeCorrect == Spec => []TypeOK
<1> DEFINE OutcomeOK == outcome \in {"ok", "ValueError", "KeyError"}
<1>1. Init => DatabaseInv /\ OutcomeOK
  BY InitDatabaseInv DEF Init
<1>2. DatabaseInv /\ OutcomeOK /\ [Next]_dbVars => (DatabaseInv /\ OutcomeOK)'
  <2> SUFFICES ASSUME DatabaseInv, OutcomeOK, [Next]_dbVars
               PROVE  DatabaseInv' /\ OutcomeOK'
    OBVIOUS
  <2>1. OutcomeOK'
    BY DEF Next, dbVars, AddTable, CreateIndex, InsertRows
  <2> QED BY <2>1, StepKeepsDatabaseInv
<1>3. DatabaseInv /\ OutcomeOK => TypeOK
  BY DEF DatabaseInv, DictionariesOK, TypeOK
<1> HIDE DEF OutcomeOK
<1> QED BY <1>1, <1>2, <1>3, PTL DEF Spec

(* No call loses or reorders rows, and an insert that fails in the middle  *)
(* of its rebuilds has not moved, renamed or re-clustered an index.        *)
THEOREM DatabaseOnlyAppends == Spec => InsertsOnlyAppend
<1> DEFINE Appends ==
      /\ \A t \in DOMAIN tables : IsPrefix(tables[t].rows, tables'[t].rows)
      /\ tables' # tables =>
           \A i \in DOMAIN indexes :
             /\ indexes'[i].table = indexes[i].table
             /\ indexes'[i].column = indexes[i].column
             /\ indexes'[i].clustered = indexes[i].clustered
<1>1. Init => DatabaseInv
  BY InitDatabaseInv
<1>2. DatabaseInv /\ [Next]_dbVars => DatabaseInv'
  BY StepKeepsDatabaseInv
<1>3. DatabaseInv /\ [Next]_dbVars => [Appends]_dbVars
  <2> SUFFICES ASSUME DatabaseInv, Next  PROVE Appends
    OBVIOUS
  <2>1. \A t \in DOMAIN tables : IsPrefix(tables[t].rows, tables[t].rows)
    BY AppendOnly DEF DatabaseInv, TableOK
  <2>2. ASSUME NEW t \in TableNames, NEW rows \in InitialRows, AddTable(t, rows)
        PROVE  Appends
    BY <2>1, <2>2, AddTableKeepsInv
  <2>3. ASSUME NEW t \in TableNames, NEW c \in IndexableColumns,
               NEW clustered \in BOOLEAN, CreateIndex(t, c, clustered)
        PROVE  Appends
    BY <2>1, <2>3, CreateIndexKeepsInv
  <2>4. ASSUME NEW t \in TableNames, NEW batch \in Batches, InsertRows(t, batch)
        PROVE  Appends
    BY <2>4, InsertKeepsInv
  <2> QED BY <2>2, <2>3, <2>4 DEF Next
<1> QED BY <1>1, <1>2, <1>3, PTL DEF Spec, InsertsOnlyAppend

-----------------------------------------------------------------------------
(* Pages and indexes over the life of the database.                        *)

(* A table is always on the pages its rows and its layout ask for, and an  *)
(* index has the locations on these pages, unless it was left behind.      *)
PagesOK(t) ==
  /\ tables[t].target = PageTarget[t]
  /\ tables[t].pages = MakePages(tables[t].rows, tables[t].target)

IndexOK(i) ==
  KeptUp(i) =>
    indexes[i].locations = IndexLocations(tables[indexes[i].table], indexes[i].column)

LayoutInv ==
  /\ DatabaseInv
  /\ \A t \in DOMAIN tables : PagesOK(t)
  /\ \A i \in DOMAIN indexes : IndexOK(i)

LEMMA InitLayoutInv ==
  ASSUME Init
  PROVE  LayoutInv
<1>1. DOMAIN tables = {} /\ DOMAIN indexes = {}
  BY DEF Init
<1> QED BY <1>1, InitDatabaseInv DEF LayoutInv

LEMMA AddTableKeepsLayout ==
  ASSUME LayoutInv, NEW t \in TableNames, NEW rows \in InitialRows, AddTable(t, rows)
  PROVE  LayoutInv'
<1>1. DatabaseInv /\ DatabaseInv' /\ UNCHANGED indexes
      /\ \A u \in DOMAIN tables : tables'[u] = tables[u]
  BY AddTableKeepsInv DEF LayoutInv
<1>2. \A u \in DOMAIN tables' : PagesOK(u)'
  <2>1. CASE t \in DOMAIN tables
    BY <2>1 DEF AddTable, LayoutInv, PagesOK
  <2>2. CASE t \notin DOMAIN tables
    <3>1. /\ DOMAIN tables' = DOMAIN tables \cup {t}
          /\ tables'[t] = NewTable(rows, PageTarget[t])
      BY <2>2 DEF AddTable
    <3>2. PagesOK(t)'
      BY <3>1 DEF PagesOK, NewTable
    <3>3. \A u \in DOMAIN tables : PagesOK(u)'
      BY <1>1 DEF LayoutInv, PagesOK
    <3> QED BY <3>1, <3>2, <3>3
  <2> QED BY <2>1, <2>2
<1>3. ASSUME NEW i \in DOMAIN indexes  PROVE IndexOK(i)'
  <2>1. indexes[i].table \in DOMAIN tables
    BY <1>1 DEF DatabaseInv, DictionariesOK
  <2>2. tables'[indexes[i].table] = tables[indexes[i].table]
    BY <1>1, <2>1
  <2>3. KeptUp(i)' = KeptUp(i)
    BY <1>1, <2>2 DEF KeptUp
  <2>4. IndexOK(i)
    BY DEF LayoutInv
  <2> QED BY <1>1, <2>2, <2>3, <2>4 DEF IndexOK
<1> QED BY <1>1, <1>2, <1>3 DEF LayoutInv

LEMMA CreateIndexKeepsLayout ==
  ASSUME LayoutInv, NEW t \in TableNames, NEW c \in IndexableColumns,
         NEW clustered \in BOOLEAN, CreateIndex(t, c, clustered)
  PROVE  LayoutInv'
<1>1. DatabaseInv /\ DatabaseInv' /\ UNCHANGED tables
  BY CreateIndexKeepsInv DEF LayoutInv
<1>2. \A u \in DOMAIN tables' : PagesOK(u)'
  BY <1>1 DEF LayoutInv, PagesOK
<1>3. CASE UNCHANGED indexes
  <2>1. \A i \in DOMAIN indexes : KeptUp(i)' = KeptUp(i)
    BY <1>1, <1>3 DEF KeptUp
  <2>2. \A i \in DOMAIN indexes : IndexOK(i)'
    BY <1>1, <1>3, <2>1 DEF LayoutInv, IndexOK
  <2> QED BY <1>1, <1>2, <1>3, <2>2 DEF LayoutInv
<1>4. CASE ~UNCHANGED indexes
  <2> DEFINE n == Len(indexes)
             new == BTreeIndex(t, tables[t], c, clustered)
  <2>0. PICK p : p = IndexPosition(t, c)
    OBVIOUS
  <2>1. indexes' = [i \in 1 .. n \cup {p} |-> IF i = p THEN new ELSE indexes[i]]
    BY <1>4, <2>0 DEF CreateIndex
  <2>2. n \in Nat /\ DOMAIN indexes = 1 .. n
    BY <1>1, IndexesList
  <2>3. \/ p \in 1 .. n /\ indexes[p].table = t /\ indexes[p].column = c
        \/ p = n + 1
    BY <2>0, <2>2 DEF IndexPosition
  <2>4. /\ new.table = t /\ new.column = c
        /\ new.locations = IndexLocations(tables[t], c)
    BY DEF BTreeIndex
  <2> HIDE DEF n, new
  <2>5. /\ DOMAIN indexes' = 1 .. n \cup {p}
        /\ indexes'[p] = new
        /\ \A i \in 1 .. n : i # p => indexes'[i] = indexes[i]
    BY <2>1
  <2>6. \A i \in 1 .. n : indexes'[i].table = indexes[i].table
                          /\ indexes'[i].column = indexes[i].column
    <3> SUFFICES ASSUME NEW i \in 1 .. n
                 PROVE  indexes'[i].table = indexes[i].table
                        /\ indexes'[i].column = indexes[i].column
      OBVIOUS
    <3>1. CASE i = p
      BY <2>2, <2>3, <2>4, <2>5, <3>1
    <3>2. CASE i # p
      BY <2>5, <3>2
    <3> QED BY <3>1, <3>2
  <2>7. IndexOK(p)'
    <3>1. indexes'[p].table = t /\ indexes'[p].column = c
          /\ indexes'[p].locations = IndexLocations(tables'[t], c)
      BY <1>1, <2>4, <2>5
    <3> QED BY <3>1 DEF IndexOK
  <2>8. ASSUME NEW i \in 1 .. n, i # p  PROVE IndexOK(i)'
    <3>1. \A j \in 1 .. i : j \in 1 .. n
      BY <2>2
    <3>2. KeptUp(i)' => KeptUp(i)
      BY <1>1, <2>6, <3>1 DEF KeptUp
    <3>3. IndexOK(i)
      BY <2>2 DEF LayoutInv
    <3> QED BY <1>1, <2>5, <2>8, <3>2, <3>3 DEF IndexOK
  <2>9. \A i \in DOMAIN indexes' : IndexOK(i)'
    BY <2>5, <2>7, <2>8
  <2> QED BY <1>1, <1>2, <2>9 DEF LayoutInv
<1> QED BY <1>3, <1>4

(* An index before the first one that cannot be built is built anew; one   *)
(* behind it is left behind.                                               *)
LEMMA RebuildStopsAt ==
  ASSUME DatabaseInv, NEW t, NEW table, NEW i \in DOMAIN indexes,
         indexes[i].table = t,
         \A j \in 1 .. i : indexes[j].table = t => CanIndex(table, indexes[j].column)
  PROVE  i < RebuildStop(t, table)
<1> DEFINE n == Len(indexes)
           bad == {j \in DOMAIN indexes :
                     indexes[j].table = t /\ ~CanIndex(table, indexes[j].column)}
           S == bad \cup {n + 1}
           stop == RebuildStop(t, table)
<1>1. n \in Nat /\ DOMAIN indexes = 1 .. n
  BY IndexesList
<1>2. \A j : j \in bad => j \in 1 .. n /\ indexes[j].table = t
                          /\ ~CanIndex(table, indexes[j].column)
  BY <1>1
<1>3. stop = CHOOSE x \in S : \A y \in S : x <= y
  BY DEF RebuildStop, Min
<1> HIDE DEF bad, stop
<1>4. S \in SUBSET Nat /\ S # {}
  BY <1>1, <1>2
<1>5. \E x \in S : \A y \in S : x <= y
  BY <1>4, LeastElement
<1>6. stop \in S
  BY <1>3, <1>5
<1>7. CASE stop = n + 1
  BY <1>1, <1>7 DEF stop
<1>8. CASE stop \in bad
  <2>1. stop \in 1 .. n /\ stop \notin 1 .. i
    BY <1>2, <1>8
  <2>2. i < stop
    BY <1>1, <2>1
  <2> QED BY <2>2 DEF stop
<1> QED BY <1>6, <1>7, <1>8

LEMMA InsertKeepsLayout ==
  ASSUME LayoutInv, NEW t \in TableNames, NEW batch \in Batches, InsertRows(t, batch)
  PROVE  LayoutInv'
<1>1. DatabaseInv /\ DatabaseInv'
  BY InsertKeepsInv DEF LayoutInv
<1>2. CASE UNCHANGED <<tables, indexes>>
  <2>1. \A i : KeptUp(i)' = KeptUp(i)
    BY <1>2 DEF KeptUp
  <2> QED BY <1>1, <1>2, <2>1 DEF LayoutInv, PagesOK, IndexOK
<1>3. CASE ~UNCHANGED <<tables, indexes>>
  <2> DEFINE table == Extended(tables[t], batch)
  <2>1. /\ t \in DOMAIN tables
        /\ tables' = [tables EXCEPT ![t] = table]
        /\ indexes' = Rebuilt(t, table)
    BY <1>3 DEF InsertRows
  <2>2. tables'[t] = table /\ DOMAIN tables' = DOMAIN tables
        /\ \A u \in DOMAIN tables : u # t => tables'[u] = tables[u]
    BY <2>1
  <2>3. table.target = PageTarget[t] /\ table.pages = MakePages(table.rows, table.target)
    <3>1. PagesOK(t) /\ TableOK(tables[t])
      BY <1>1, <2>1 DEF LayoutInv, DatabaseInv
    <3>2. CASE batch = <<>>
      BY <3>1, <3>2 DEF Extended, PagesOK
    <3>3. CASE batch # <<>>
      <4>1. table =
              [columns |-> tables[t].columns, rows |-> tables[t].rows \o batch,
               target |-> tables[t].target,
               pages |-> MakePages(tables[t].rows \o batch, tables[t].target)]
        BY <3>1, <3>3 DEF Extended, TableOK
      <4> QED BY <3>1, <4>1 DEF PagesOK
    <3> QED BY <3>2, <3>3
  <2>4. DOMAIN indexes' = DOMAIN indexes
        /\ \A i \in DOMAIN indexes :
             /\ indexes'[i].table = indexes[i].table
             /\ indexes'[i].column = indexes[i].column
             /\ indexes[i].table # t => indexes'[i] = indexes[i]
             /\ indexes[i].table = t /\ i < RebuildStop(t, table) =>
                  indexes'[i].locations = IndexLocations(table, indexes[i].column)
    BY <2>1 DEF Rebuilt, BTreeIndex
  <2> HIDE DEF table
  <2>5. \A u \in DOMAIN tables' : PagesOK(u)'
    <3>1. PagesOK(t)'
      BY <2>2, <2>3 DEF PagesOK
    <3>2. \A u \in DOMAIN tables : u # t => PagesOK(u)'
      BY <2>2 DEF LayoutInv, PagesOK
    <3> QED BY <2>2, <3>1, <3>2
  <2>6. ASSUME NEW i \in DOMAIN indexes, KeptUp(i)'
        PROVE  indexes'[i].locations
                 = IndexLocations(tables'[indexes[i].table], indexes[i].column)
    <3> DEFINE u == indexes[i].table
    <3>1. \A j \in 1 .. i : j \in DOMAIN indexes
      BY <1>1, IndexesList
    <3>2. \A j \in 1 .. i : indexes[j].table = u =>
            CanIndex(tables'[u], indexes[j].column)
      BY <2>4, <2>6, <3>1 DEF KeptUp
    <3>3. u \in DOMAIN tables
      BY <1>1 DEF DatabaseInv, DictionariesOK
    <3>4. CASE u = t
      <4>1. \A j \in 1 .. i : indexes[j].table = t => CanIndex(table, indexes[j].column)
        BY <2>2, <3>2, <3>4
      <4>2. i < RebuildStop(t, table)
        BY <1>1, <3>4, <4>1, RebuildStopsAt
      <4> QED BY <2>2, <2>4, <3>4, <4>2
    <3>5. CASE u # t
      <4>1. tables'[u] = tables[u] /\ indexes'[i] = indexes[i]
        BY <2>2, <2>4, <3>3, <3>5
      <4>2. KeptUp(i)
        BY <3>2, <4>1 DEF KeptUp
      <4> QED BY <4>1, <4>2 DEF LayoutInv, IndexOK
    <3> QED BY <3>4, <3>5
  <2>7. \A i \in DOMAIN indexes' : IndexOK(i)'
    BY <2>4, <2>6 DEF IndexOK
  <2> QED BY <1>1, <2>5, <2>7 DEF LayoutInv
<1> QED BY <1>2, <1>3

LEMMA StepKeepsLayoutInv ==
  ASSUME LayoutInv, [Next]_dbVars
  PROVE  LayoutInv'
<1>1. CASE UNCHANGED dbVars
  <2>1. \A i : KeptUp(i)' = KeptUp(i)
    BY <1>1 DEF KeptUp, dbVars
  <2>2. DatabaseInv'
    BY StepKeepsDatabaseInv DEF LayoutInv
  <2> QED BY <1>1, <2>1, <2>2 DEF dbVars, LayoutInv, PagesOK, IndexOK
<1> QED BY <1>1, AddTableKeepsLayout, CreateIndexKeepsLayout, InsertKeepsLayout DEF Next

LEMMA LayoutOfTable ==
  ASSUME LayoutInv, NEW t \in DOMAIN tables
  PROVE  /\ tables[t].rows \in Seq(Range(tables[t].rows))
         /\ PageTarget[t] \in Nat
         /\ tables[t].pages = MakePages(tables[t].rows, PageTarget[t])
<1>1. t \in TableNames
  BY DEF LayoutInv, DatabaseInv, DictionariesOK
<1> QED BY <1>1, PageTargetAssumption DEF LayoutInv, DatabaseInv, TableOK, PagesOK

LEMMA LayoutHoldsRows ==
  ASSUME LayoutInv
  PROVE  PagesHoldEveryRow
<1> SUFFICES ASSUME NEW t \in DOMAIN tables
             PROVE  /\ LET scan == ScanOrder(tables[t].pages)
                       IN  [n \in DOMAIN scan |-> RowAt(tables[t].pages, scan[n])] = tables[t].rows
                    /\ PageTarget[t] # 0 => Len(tables[t].pages) = PageTarget[t]
  BY DEF PagesHoldEveryRow
<1> DEFINE rows == tables[t].rows
           pages == tables[t].pages
           target == PageTarget[t]
<1>1. rows \in Seq(Range(rows)) /\ target \in Nat /\ pages = MakePages(rows, target)
  BY LayoutOfTable
<1> HIDE DEF rows, pages, target
<1>2. LET scan == ScanOrder(pages) IN [n \in DOMAIN scan |-> RowAt(pages, scan[n])] = rows
  BY <1>1, ScanOfPages
<1>3. Len(pages) = PageCount(rows, target)
  BY <1>1, RowsOfPage DEF Slices
<1>4. target # 0 => PageCount(rows, target) = target
  BY DEF PageCount
<1> QED BY <1>2, <1>3, <1>4 DEF rows, pages, target

AnswersAsScan(index, v) ==
  LET rows == tables[index.table].rows
      scan == Ascending({j \in DOMAIN rows : rows[j][index.column] = v})
  IN  ThroughIndex(index, v) = [n \in DOMAIN scan |-> rows[scan[n]]]

LEMMA LayoutAnswersLookups ==
  ASSUME LayoutInv, NEW i \in DOMAIN indexes, KeptUp(i), NEW v
  PROVE  AnswersAsScan(indexes[i], v)
<1> DEFINE index == indexes[i]
           t == index.table
           rows == tables[t].rows
           pages == tables[t].pages
           target == PageTarget[t]
           column == index.column
           scan == Ascending(RowsWith(rows, column, v))
           locations == EqualitySearch(index, v)
<1>1. t \in DOMAIN tables
  BY DEF LayoutInv, DatabaseInv, DictionariesOK
<1>2. rows \in Seq(Range(rows)) /\ target \in Nat /\ pages = MakePages(rows, target)
  BY <1>1, LayoutOfTable
<1>3. index.locations = [x \in {rows[j][column] : j \in DOMAIN rows} |->
                           LocationsOf(pages, column, x)]
  BY DEF LayoutInv, IndexOK, IndexLocations
<1>4. ThroughIndex(index, v) = [k \in DOMAIN locations |-> RowAt(pages, locations[k])]
  BY DEF ThroughIndex
<1>5. locations = IF \E j \in DOMAIN rows : rows[j][column] = v
                  THEN LocationsOf(pages, column, v) ELSE <<>>
  <2> DEFINE found == index.locations
             values == {rows[j][column] : j \in DOMAIN rows}
  <2>1. locations = IF v \in DOMAIN found THEN found[v] ELSE <<>>
    BY DEF EqualitySearch
  <2>2. DOMAIN found = values /\ (v \in values => found[v] = LocationsOf(pages, column, v))
    BY <1>3
  <2>3. v \in values <=> \E j \in DOMAIN rows : rows[j][column] = v
    OBVIOUS
  <2> HIDE DEF found, values, locations
  <2> QED BY <2>1, <2>2, <2>3
<1> HIDE DEF locations, column, rows, pages, target
<1>6. [k \in DOMAIN locations |-> RowAt(pages, locations[k])] = [k \in DOMAIN scan |-> rows[scan[k]]]
  <2>1. CASE \E j \in DOMAIN rows : rows[j][column] = v
    <3>1. locations = LocationsOf(pages, column, v)
      BY <1>5, <2>1
    <3> QED BY <1>2, <3>1, LocationsOfValue
  <2>2. CASE ~\E j \in DOMAIN rows : rows[j][column] = v
    <3>1. RowsWith(rows, column, v) = {}
      BY <2>2 DEF RowsWith
    <3>2. scan = <<>>
      <4>1. 1 .. 0 = {} /\ 0 \in Nat
        OBVIOUS
      <4>2. Ascending(1 .. 0) = [k \in 1 .. 0 |-> k]
        BY <4>1, AscendingAll
      <4>3. [k \in {} |-> k] = <<>>
        OBVIOUS
      <4> QED BY <3>1, <4>1, <4>2, <4>3
    <3>3. locations = <<>>
      BY <1>5, <2>2
    <3> HIDE DEF scan
    <3>4. DOMAIN locations = {} /\ DOMAIN scan = {}
      BY <3>2, <3>3
    <3> QED BY <3>4
  <2> QED BY <2>1, <2>2
<1>7. ThroughIndex(index, v) = [n \in DOMAIN scan |-> rows[scan[n]]]
  BY <1>4, <1>6
<1> QED BY <1>7 DEF rows, column, RowsWith, AnswersAsScan

-----------------------------------------------------------------------------
(* Whatever its page size or page count, and after inserts of any batches, *)
(* a table has each of its rows on one place of its pages, in the order of *)
(* insertion.                                                              *)
THEOREM DatabasePagesHoldEveryRow == Spec => []PagesHoldEveryRow
<1>1. Init => LayoutInv
  BY InitLayoutInv
<1>2. LayoutInv /\ [Next]_dbVars => LayoutInv'
  BY StepKeepsLayoutInv
<1>3. LayoutInv => PagesHoldEveryRow
  BY LayoutHoldsRows
<1> QED BY <1>1, <1>2, <1>3, PTL DEF Spec

(* An index answers every lookup as a scan would, over inserts that move   *)
(* all rows to other pages and ones that fail half way; those that were    *)
(* left behind by a failure are the only exception.                        *)
THEOREM DatabaseIndexesAgree == Spec => []IndexScanAgreesWithSeqScan
<1>1. Init => LayoutInv
  BY InitLayoutInv
<1>2. LayoutInv /\ [Next]_dbVars => LayoutInv'
  BY StepKeepsLayoutInv
<1>3. LayoutInv => IndexScanAgreesWithSeqScan
  <2> SUFFICES ASSUME LayoutInv, NEW i \in DOMAIN indexes, KeptUp(i)
               PROVE  LET index == indexes[i]
                          rows == tables[index.table].rows
                      IN  \A v \in UNION {Range(rows[j]) : j \in DOMAIN rows}
                                    \cup DOMAIN index.locations :
                            LET scan == Ascending({j \in DOMAIN rows : rows[j][index.column] = v})
                            IN  ThroughIndex(index, v) = [n \in DOMAIN scan |-> rows[scan[n]]]
    BY DEF IndexScanAgreesWithSeqScan
  <2>1. \A v : AnswersAsScan(indexes[i], v)
    BY LayoutAnswersLookups
  <2> QED BY <2>1 DEF AnswersAsScan
<1> QED BY <1>1, <1>2, <1>3, PTL DEF Spec

-----------------------------------------------------------------------------
(* The catalog over the database.  How statistics are computed does not    *)
(* matter, and columns are never summarised in the proofs.                 *)

(* Saved statistics belong to one moment too: without it, load could put a *)
(* mix into force that no analyze of any run ever made.                    *)
SnapshotIsOneMoment ==
  snapshot # NoSnapshot =>
    snapshot.tables = [t \in DOMAIN snapshot.behind |-> TableStats(snapshot.behind[t])]

MomentInv == StatsAreOneMoment /\ SnapshotIsOneMoment

LEMMA InitMomentInv ==
  ASSUME CatalogInit
  PROVE  MomentInv
<1>1. table_stats = <<>> /\ analyzed = <<>> /\ snapshot = NoSnapshot
  BY DEF CatalogInit
<1>2. [t \in DOMAIN <<>> |-> TableStats(<<>>[t])] = <<>>
  OBVIOUS
<1> QED BY <1>1, <1>2 DEF MomentInv, StatsAreOneMoment, SnapshotIsOneMoment

(* analyze assigns all entries or none.                                    *)
LEMMA AnalyzeKeepsMomentInv ==
  ASSUME MomentInv, NEW force \in BOOLEAN, Analyze(force)
  PROVE  MomentInv'
<1> DEFINE complete == \A t \in DOMAIN tables : Analyzable(tables[t])
<1>1. SnapshotIsOneMoment'
  BY DEF MomentInv, SnapshotIsOneMoment, Analyze
<1>2. StatsAreOneMoment
  BY DEF MomentInv
<1>3. CASE frozen /\ ~force
  <2>1. UNCHANGED <<table_stats, analyzed>>
    BY <1>3 DEF Analyze
  <2>2. StatsAreOneMoment'
    BY <1>2, <2>1 DEF StatsAreOneMoment
  <2> QED BY <1>1, <2>2 DEF MomentInv
<1>4. CASE ~(frozen /\ ~force)
  <2>1. /\ table_stats' = Analyzed(table_stats)
        /\ analyzed' = IF complete THEN tables ELSE analyzed
    BY <1>4 DEF Analyze
  <2>2. StatsAreOneMoment'
    <3>1. CASE complete
      BY <2>1, <3>1 DEF Analyzed, StatsAreOneMoment
    <3>2. CASE ~complete
      BY <1>2, <2>1, <3>2 DEF Analyzed, StatsAreOneMoment
    <3> QED BY <3>1, <3>2
  <2> QED BY <1>1, <2>2 DEF MomentInv
<1> QED BY <1>3, <1>4

LEMMA StepKeepsMomentInv ==
  ASSUME MomentInv, [CatalogNext]_vars
  PROVE  MomentInv'
<1>1. CASE Next /\ UNCHANGED catalogVars
  BY <1>1 DEF catalogVars, MomentInv, StatsAreOneMoment, SnapshotIsOneMoment
<1>2. ASSUME NEW force \in BOOLEAN, Analyze(force)
      PROVE  MomentInv'
  BY <1>2, AnalyzeKeepsMomentInv
<1>3. CASE Freeze \/ Unfreeze
  BY <1>3 DEF Freeze, Unfreeze, SetFrozen,
              MomentInv, StatsAreOneMoment, SnapshotIsOneMoment
<1>4. CASE Save
  <2>1. UNCHANGED <<table_stats, analyzed>>
    BY <1>4 DEF Save
  <2>2. StatsAreOneMoment'
    BY <2>1 DEF MomentInv, StatsAreOneMoment
  <2>3. snapshot' = snapshot \/ snapshot' = Document
    BY <1>4 DEF Save
  <2>4. Document.tables = table_stats /\ Document.behind = analyzed
    BY DEF Document
  <2>5. SnapshotIsOneMoment'
    BY <2>3, <2>4 DEF MomentInv, StatsAreOneMoment, SnapshotIsOneMoment
  <2> QED BY <2>2, <2>5 DEF MomentInv
<1>5. CASE Load
  <2>1. CASE snapshot # NoSnapshot /\ LoadDocument(snapshot)
    BY <2>1 DEF LoadDocument, MomentInv, StatsAreOneMoment, SnapshotIsOneMoment
  <2>2. ASSUME NEW database \in OtherDatabases, LoadDocument(SnapshotOf(database))
        PROVE  MomentInv'
    <3>1. /\ table_stats' = [t \in DOMAIN database |-> TableStats(database[t])]
          /\ analyzed' = database
          /\ UNCHANGED snapshot
      BY <2>2 DEF LoadDocument, SnapshotOf
    <3>2. StatsAreOneMoment'
      BY <3>1 DEF StatsAreOneMoment
    <3> QED BY <3>1, <3>2 DEF MomentInv, SnapshotIsOneMoment
  <2>3. CASE UNCHANGED catalogVars
    BY <2>3 DEF catalogVars, MomentInv, StatsAreOneMoment, SnapshotIsOneMoment
  <2> QED BY <1>5, <2>1, <2>2, <2>3 DEF Load
<1>6. CASE UNCHANGED vars
  BY <1>6 DEF vars, catalogVars, MomentInv, StatsAreOneMoment, SnapshotIsOneMoment
<1> QED BY <1>1, <1>2, <1>3, <1>4, <1>5, <1>6 DEF CatalogNext

(* An analyze that fails half way, inserts between save and load, files of *)
(* other runs and forced analyzes of a frozen catalog never leave a mix of *)
(* statistics that no single state of any database had.                    *)
THEOREM CatalogKeepsOneMoment == CatalogSpec => []StatsAreOneMoment
<1>1. CatalogInit => MomentInv
  BY InitMomentInv
<1>2. MomentInv /\ [CatalogNext]_vars => MomentInv'
  BY StepKeepsMomentInv
<1>3. MomentInv => StatsAreOneMoment
  BY DEF MomentInv
<1> QED BY <1>1, <1>2, <1>3, PTL DEF CatalogSpec

-----------------------------------------------------------------------------
(* The shapes of statistics follow from the tables they were computed of:  *)
(* earlier states of the tables that exist now, or tables of another run.  *)

Summarised(old) ==
  \A t \in DOMAIN old : Len(old[t].rows) \in Nat /\ Len(old[t].pages) \in Nat \ {0}

Earlier(old) ==
  /\ DOMAIN old \subseteq DOMAIN tables
  /\ \A t \in DOMAIN old :
       /\ old[t].columns = tables[t].columns
       /\ Len(old[t].rows) <= Len(tables[t].rows)

Behind(old, other) == Summarised(old) /\ (other \/ Earlier(old))

CatalogInv ==
  /\ LayoutInv
  /\ MomentInv
  /\ Behind(analyzed, foreign)
  /\ snapshot # NoSnapshot => /\ Behind(snapshot.behind, snapshot.foreign)
                              /\ snapshot.foreign \in BOOLEAN
                              /\ snapshot.tables # <<>>
  /\ frozen \in BOOLEAN /\ loaded \in BOOLEAN /\ foreign \in BOOLEAN
  /\ outcome \in {"ok", "ValueError", "KeyError", "RuntimeError"}

LEMMA InitCatalogInv ==
  ASSUME CatalogInit
  PROVE  CatalogInv
<1>1. Init /\ DOMAIN analyzed = {} /\ snapshot = NoSnapshot
      /\ frozen = FALSE /\ loaded = FALSE /\ foreign = FALSE /\ outcome = "ok"
  BY DEF CatalogInit, Init
<1> QED BY <1>1, InitLayoutInv, InitMomentInv DEF CatalogInv, Behind, Summarised, Earlier

LEMMA TablesAreEarlier ==
  ASSUME LayoutInv
  PROVE  Behind(tables, FALSE)
<1> SUFFICES ASSUME NEW t \in DOMAIN tables
             PROVE  /\ Len(tables[t].rows) \in Nat
                    /\ Len(tables[t].rows) <= Len(tables[t].rows)
                    /\ Len(tables[t].pages) \in Nat \ {0}
  BY DEF Behind, Summarised, Earlier
<1> DEFINE rows == tables[t].rows
           pages == tables[t].pages
           target == PageTarget[t]
<1>1. rows \in Seq(Range(rows)) /\ target \in Nat /\ pages = MakePages(rows, target)
  BY LayoutOfTable
<1> HIDE DEF rows, pages, target
<1>2. Len(rows) \in Nat /\ PageCount(rows, target) \in Nat \ {0}
  BY <1>1, PageLayout
<1>3. Len(pages) = PageCount(rows, target)
  BY <1>1, RowsOfPage DEF Slices
<1> QED BY <1>2, <1>3 DEF rows, pages

(* Tables are never dropped or reshaped, and only grow.                    *)
LEMMA StepGrowsTables ==
  ASSUME DatabaseInv, [Next]_dbVars, NEW t \in DOMAIN tables
  PROVE  /\ t \in DOMAIN tables'
         /\ tables'[t].columns = tables[t].columns
         /\ Len(tables[t].rows) <= Len(tables'[t].rows)
         /\ Len(tables[t].rows) \in Nat /\ Len(tables'[t].rows) \in Nat
<1>1. /\ TableOK(tables[t])
      /\ IsPrefix(tables[t].rows, tables[t].rows)
  BY AppendOnly DEF DatabaseInv, TableOK
<1>2. /\ t \in DOMAIN tables'
      /\ tables'[t].columns = tables[t].columns
      /\ IsPrefix(tables[t].rows, tables'[t].rows)
  <2>1. CASE UNCHANGED tables
    BY <1>1, <2>1
  <2>2. ASSUME NEW u \in TableNames, NEW rows \in InitialRows, AddTable(u, rows)
        PROVE  t \in DOMAIN tables' /\ tables'[t] = tables[t]
    BY <2>2, AddTableKeepsInv DEF AddTable
  <2>3. ASSUME NEW u \in TableNames, NEW batch \in Batches, InsertRows(u, batch)
        PROVE  /\ t \in DOMAIN tables'
               /\ tables'[t].columns = tables[t].columns
               /\ IsPrefix(tables[t].rows, tables'[t].rows)
    <3>1. IsPrefix(tables[t].rows, tables'[t].rows)
      BY <2>3, InsertKeepsInv
    <3>2. \/ tables' = tables
          \/ u \in DOMAIN tables /\ tables' = [tables EXCEPT ![u] = Extended(tables[u], batch)]
      BY <2>3 DEF InsertRows
    <3>3. u \in DOMAIN tables => Extended(tables[u], batch).columns = tables[u].columns
      <4>1. SUFFICES ASSUME u \in DOMAIN tables
                     PROVE  Extended(tables[u], batch).columns = tables[u].columns
        OBVIOUS
      <4>2. TableOK(tables[u])
        BY <4>1 DEF DatabaseInv
      <4>3. CASE batch = <<>>
        BY <4>3 DEF Extended
      <4>4. CASE batch # <<>>
        <5>1. Extended(tables[u], batch) =
                [columns |-> tables[u].columns, rows |-> tables[u].rows \o batch,
                 target |-> tables[u].target,
                 pages |-> MakePages(tables[u].rows \o batch, tables[u].target)]
          BY <4>2, <4>4 DEF Extended, TableOK
        <5> QED BY <5>1
      <4> QED BY <4>3, <4>4
    <3>4. DOMAIN tables' = DOMAIN tables
          /\ tables'[t].columns = tables[t].columns
      BY <3>2, <3>3
    <3> QED BY <3>1, <3>4
  <2>4. \/ UNCHANGED tables
        \/ \E u \in TableNames, rows \in InitialRows : AddTable(u, rows)
        \/ \E u \in TableNames, batch \in Batches : InsertRows(u, batch)
    BY DEF Next, dbVars, CreateIndex
  <2> QED BY <1>1, <2>1, <2>2, <2>3, <2>4
<1>3. DatabaseInv'
  BY StepKeepsDatabaseInv
<1>4. TableOK(tables'[t])
  BY <1>2, <1>3 DEF DatabaseInv, TableOK
<1>5. Len(tables[t].rows) \in Nat /\ Len(tables'[t].rows) \in Nat
  BY <1>1, <1>4, LenProperties DEF TableOK
<1>6. Len(tables[t].rows) <= Len(tables'[t].rows)
  BY <1>2 DEF IsPrefix
<1> QED BY <1>2, <1>5, <1>6

LEMMA EarlierStaysEarlier ==
  ASSUME DatabaseInv, [Next]_dbVars, NEW old, Earlier(old)
  PROVE  /\ DOMAIN old \subseteq DOMAIN tables'
         /\ \A t \in DOMAIN old :
              /\ old[t].columns = tables'[t].columns
              /\ Len(old[t].rows) \in Nat => Len(old[t].rows) <= Len(tables'[t].rows)
<1> SUFFICES ASSUME NEW t \in DOMAIN old
             PROVE  /\ t \in DOMAIN tables'
                    /\ old[t].columns = tables'[t].columns
                    /\ Len(old[t].rows) \in Nat => Len(old[t].rows) <= Len(tables'[t].rows)
  OBVIOUS
<1>1. /\ t \in DOMAIN tables
      /\ old[t].columns = tables[t].columns
      /\ Len(old[t].rows) <= Len(tables[t].rows)
  BY DEF Earlier
<1>2. /\ t \in DOMAIN tables'
      /\ tables'[t].columns = tables[t].columns
      /\ Len(tables[t].rows) <= Len(tables'[t].rows)
      /\ Len(tables[t].rows) \in Nat /\ Len(tables'[t].rows) \in Nat
  BY <1>1, StepGrowsTables
<1> QED BY <1>1, <1>2

(* What a step does to the tables behind the statistics in force and to    *)
(* those behind the snapshot.                                              *)
LEMMA StatisticsComeFrom ==
  ASSUME CatalogInv, [CatalogNext]_vars
  PROVE  /\ \/ UNCHANGED <<analyzed, foreign>>
            \/ analyzed' = tables /\ foreign' = FALSE
            \/ /\ snapshot # NoSnapshot
               /\ analyzed' = snapshot.behind /\ foreign' = snapshot.foreign
            \/ analyzed' \in OtherDatabases /\ foreign' = TRUE
         /\ \/ UNCHANGED snapshot
            \/ /\ snapshot'.behind = analyzed /\ snapshot'.foreign = foreign
               /\ snapshot'.tables # <<>>
               /\ UNCHANGED <<analyzed, foreign>>
         /\ frozen' \in BOOLEAN /\ loaded' \in BOOLEAN
         /\ outcome' \in {"ok", "ValueError", "KeyError", "RuntimeError"}
         /\ \/ UNCHANGED <<tables, indexes>>
            \/ [Next]_dbVars /\ UNCHANGED catalogVars
<1>1. CASE Next /\ UNCHANGED catalogVars
  BY <1>1 DEF catalogVars, CatalogInv, Next, AddTable, CreateIndex, InsertRows
<1>2. ASSUME NEW force \in BOOLEAN, Analyze(force)
      PROVE  /\ \/ UNCHANGED <<analyzed, foreign>>
                \/ analyzed' = tables /\ foreign' = FALSE
             /\ UNCHANGED <<tables, indexes, snapshot>>
             /\ frozen' \in BOOLEAN /\ loaded' \in BOOLEAN
             /\ outcome' \in {"ok", "KeyError", "RuntimeError"}
  BY <1>2 DEF Analyze, CatalogInv
<1>3. CASE Freeze \/ Unfreeze
  BY <1>3 DEF Freeze, Unfreeze, SetFrozen, CatalogInv
<1>4. CASE Save
  <2>1. /\ Document.behind = analyzed /\ Document.foreign = foreign
        /\ Document.tables = table_stats
    BY DEF Document
  <2> QED BY <1>4, <2>1 DEF Save, CatalogInv
<1>5. CASE Load
  <2>1. \A database : /\ SnapshotOf(database).behind = database
                      /\ SnapshotOf(database).foreign = TRUE
    BY DEF SnapshotOf
  <2>2. ASSUME NEW document, LoadDocument(document)
        PROVE  /\ analyzed' = document.behind /\ foreign' = document.foreign
               /\ frozen' = TRUE /\ loaded' = TRUE /\ outcome' = "ok"
               /\ UNCHANGED <<tables, indexes, snapshot>>
    BY <2>2 DEF LoadDocument
  <2>3. CASE outcome' = "ValueError" /\ UNCHANGED <<tables, indexes, catalogVars>>
    BY <2>3 DEF catalogVars, CatalogInv
  <2>4. CASE snapshot # NoSnapshot /\ LoadDocument(snapshot)
    BY <2>2, <2>4
  <2>5. CASE \E database \in OtherDatabases : LoadDocument(SnapshotOf(database))
    BY <2>1, <2>2, <2>5
  <2> QED BY <1>5, <2>3, <2>4, <2>5 DEF Load
<1>6. CASE UNCHANGED vars
  BY <1>6 DEF vars, dbVars, catalogVars, CatalogInv
<1> QED BY <1>1, <1>2, <1>3, <1>4, <1>5, <1>6 DEF CatalogNext

LEMMA StepKeepsCatalogInv ==
  ASSUME CatalogInv, [CatalogNext]_vars
  PROVE  CatalogInv'
<1> DEFINE Kept(old, other) ==
      /\ Summarised(old)
      /\ \/ other
         \/ /\ DOMAIN old \subseteq DOMAIN tables'
            /\ \A t \in DOMAIN old :
                 /\ old[t].columns = tables'[t].columns
                 /\ Len(old[t].rows) <= Len(tables'[t].rows)
<1>1. MomentInv'
  BY StepKeepsMomentInv DEF CatalogInv
<1>2. LayoutInv'
  <2>1. CASE UNCHANGED <<tables, indexes>>
    <3>1. \A i : KeptUp(i)' = KeptUp(i)
      BY <2>1 DEF KeptUp
    <3>2. LayoutInv
      BY DEF CatalogInv
    <3> QED BY <2>1, <3>1, <3>2 DEF LayoutInv, DatabaseInv, DictionariesOK, PagesOK, IndexOK
  <2>2. CASE [Next]_dbVars
    BY <2>2, StepKeepsLayoutInv DEF CatalogInv
  <2> QED BY <2>1, <2>2, StatisticsComeFrom
<1>3. ASSUME NEW old, NEW other, Behind(old, other)
      PROVE  Kept(old, other)
  <2>1. CASE other
    BY <1>3, <2>1 DEF Behind
  <2>2. CASE UNCHANGED tables
    BY <1>3, <2>2 DEF Behind, Earlier
  <2>3. CASE ~other /\ [Next]_dbVars
    <3>1. Summarised(old) /\ Earlier(old)
      BY <1>3, <2>3 DEF Behind
    <3>2. DatabaseInv
      BY DEF CatalogInv, LayoutInv
    <3> QED BY <2>3, <3>1, <3>2, EarlierStaysEarlier DEF Summarised
  <2> QED BY <2>1, <2>2, <2>3, StatisticsComeFrom
<1>4. Kept(tables, FALSE)
  BY <1>3, TablesAreEarlier DEF CatalogInv
<1>5. ASSUME NEW database \in OtherDatabases  PROVE Kept(database, TRUE)
  BY OtherDatabaseAssumption DEF Summarised
<1>6. Kept(analyzed, foreign)
      /\ (snapshot # NoSnapshot => Kept(snapshot.behind, snapshot.foreign))
  BY <1>3 DEF CatalogInv
<1> HIDE DEF Kept
<1>7. Kept(analyzed', foreign') /\ foreign' \in BOOLEAN
  BY <1>4, <1>5, <1>6, StatisticsComeFrom DEF CatalogInv
<1>8. snapshot' # NoSnapshot => /\ Kept(snapshot'.behind, snapshot'.foreign)
                                /\ snapshot'.foreign \in BOOLEAN
                                /\ snapshot'.tables # <<>>
  BY <1>6, StatisticsComeFrom DEF CatalogInv
<1>9. Behind(analyzed, foreign)'
  BY <1>7 DEF Kept, Behind, Summarised, Earlier
<1>10. (snapshot # NoSnapshot => /\ Behind(snapshot.behind, snapshot.foreign)
                                 /\ snapshot.foreign \in BOOLEAN
                                 /\ snapshot.tables # <<>>)'
  BY <1>8 DEF Kept, Behind, Summarised, Earlier
<1> QED BY <1>1, <1>2, <1>7, <1>9, <1>10, StatisticsComeFrom DEF CatalogInv

LEMMA StatsOfEarlierTables ==
  ASSUME CatalogInv
  PROVE  CatalogTypeOK
<1>1. table_stats = [t \in DOMAIN analyzed |-> TableStats(analyzed[t])]
  BY DEF CatalogInv, MomentInv, StatsAreOneMoment
<1>2. DOMAIN table_stats = DOMAIN analyzed
  BY <1>1
<1>3. ASSUME NEW t \in DOMAIN analyzed
      PROVE  /\ table_stats[t].row_count = Len(analyzed[t].rows)
             /\ table_stats[t].page_count = Len(analyzed[t].pages)
             /\ DOMAIN table_stats[t].columns = analyzed[t].columns
  <2>1. table_stats[t] = TableStats(analyzed[t])
    BY <1>1
  <2>2. /\ DOMAIN TableStats(analyzed[t]).columns = analyzed[t].columns
        /\ TableStats(analyzed[t]).row_count = Len(analyzed[t].rows)
        /\ TableStats(analyzed[t]).page_count = Len(analyzed[t].pages)
    BY DEF TableStats, Stats!TableStats
  <2> QED BY <2>1, <2>2
<1>4. \A t \in DOMAIN table_stats : /\ table_stats[t].row_count \in Nat
                                    /\ table_stats[t].page_count \in Nat \ {0}
  BY <1>2, <1>3 DEF CatalogInv, Behind, Summarised
<1>5. ~foreign => \A t \in DOMAIN table_stats :
        /\ t \in DOMAIN tables
        /\ DOMAIN table_stats[t].columns = tables[t].columns
        /\ table_stats[t].row_count <= Len(tables[t].rows)
  BY <1>2, <1>3 DEF CatalogInv, Behind, Earlier
<1> QED BY <1>4, <1>5 DEF CatalogInv, CatalogTypeOK

(* Whatever is saved, inserted, loaded and analyzed in whatever order, and *)
(* whatever run saved the file: statistics of this database name only      *)
(* tables and columns that exist and never more rows than there are by     *)
(* now, also after they went through a file and a catalog of another run   *)
(* was in force in between; every table has some page, and no snapshot is  *)
(* empty.                                                                  *)
THEOREM CatalogTypeCorrect == CatalogSpec => []CatalogTypeOK
<1>1. CatalogInit => CatalogInv
  BY InitCatalogInv
<1>2. CatalogInv /\ [CatalogNext]_vars => CatalogInv'
  BY StepKeepsCatalogInv
<1>3. CatalogInv => CatalogTypeOK
  BY StatsOfEarlierTables
<1> QED BY <1>1, <1>2, <1>3, PTL DEF CatalogSpec
=============================================================================
