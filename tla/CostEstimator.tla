---------------------------- MODULE CostEstimator ----------------------------
(***************************************************************************)
(* The I/O formulas of querylab/optimizer/cost_estimator.py over the nodes *)
(* of a physical plan.  A node refers to its children by their numbers,    *)
(* which are smaller than its own, and to its join condition by the place  *)
(* of the condition in the query.  Estimated rows are fractions.           *)
(***************************************************************************)
EXTENDS JoinResult, Selectivity

CONSTANTS
  TextColumns,       (* The columns whose values are text.                 *)
  LiveTables,        (* The names of the tables of the database.           *)
  Indexes            (* The live indexes: records of Storage!BTreeIndex.   *)

NotEstimated == [rows |-> <<0, 1>>, io |-> 0]

IsScan(node) == node.operation \in {"seq_scan", "index_scan"}
IsJoin(node) ==
  node.operation \in {"hash_join", "block_nested_loop_join", "sort_merge_join",
                      "nested_loop_join"}

(* Database.get_index                                                      *)
IndexesOn(table, column) == {i \in Indexes : i.table = table /\ i.column = column}
IndexOn(table, column) == CHOOSE i \in IndexesOn(table, column) : TRUE

(* The numbers of the nodes of a tree, children first, as the estimator    *)
(* and the executor visit them.                                            *)
PostOrder(nodes, root) ==
  LET visit[n \in DOMAIN nodes] ==
        Append(FlattenSeq([c \in DOMAIN nodes[n].children |-> visit[nodes[n].children[c]]]), n)
  IN  visit[root]

(* The scans of a tree are numbered from left to right.                    *)
ScanLeaves(nodes, root) == {n \in ToSet(PostOrder(nodes, root)) : IsScan(nodes[n])}
FirstLeaf(leaves) == CHOOSE l \in leaves : \A m \in leaves : l <= m

-----------------------------------------------------------------------------
\* Mutant: a node that has an estimate already is filtered once more.
ScanEstimateOfEstimate(node, stats) ==
  LET selectivity == EstimateConjunction(node.predicates, stats.columns, TextColumns)
      index == IndexOn(node.table_name, node.index_column)
      spread == IF index.clustered THEN stats.page_count ELSE stats.row_count
  IN  [rows |-> Times(IF node.estimate = NotEstimated THEN <<stats.row_count, 1>>
                                                      ELSE node.estimate.rows, selectivity),
       io   |-> IF node.operation = "seq_scan" THEN stats.page_count
                ELSE index.height + Ceil(Times(<<spread, 1>>, selectivity))]

(* Filtering saves a sequential scan no page.  An index scan reads pages   *)
(* next to each other or, if it is not clustered, one for each row; the    *)
(* height is that of the live index.                                       *)
ScanEstimate(node, stats) ==
  LET selectivity == EstimateConjunction(node.predicates, stats.columns, TextColumns)
      index == IndexOn(node.table_name, node.index_column)
      spread == IF index.clustered THEN stats.page_count ELSE stats.row_count
  IN  [rows |-> Times(<<stats.row_count, 1>>, selectivity),
       io   |-> IF node.operation = "seq_scan" THEN stats.page_count
                ELSE index.height + Ceil(Times(<<spread, 1>>, selectivity))]

\* Mutant: the statistics of the first leaf for either side.
JoinDistinctCountOfFirst(nodes, leaves, column, table_stats) ==
  table_stats[nodes[FirstLeaf(leaves)].table_name].columns[column.name].distinct_count

TablesWith(column, table_stats) ==
  {t \in LiveTables : column.name \in DOMAIN table_stats[t].columns}

(* _join_distinct_count: the first leaf with the alias of the column, or   *)
(* else the only live table with a column of that name.                    *)
JoinDistinctCount(nodes, leaves, column, table_stats) ==
  LET named == {l \in leaves : nodes[l].table_alias = column.table_alias}
      table == IF named # {} THEN nodes[FirstLeaf(named)].table_name
                             ELSE CHOOSE t \in TablesWith(column, table_stats) : TRUE
  IN  table_stats[table].columns[column.name].distinct_count

PagesOfRows(rows) == AtLeastOne(CeilDiv(rows[1], rows[2] * TuplesPerPage))

(* What a join adds to the I/O of its children.                            *)
JoinIO(operation, left, right) ==
  LET left_pages == PagesOfRows(left.rows)
      right_pages == PagesOfRows(right.rows)
      smaller_pages == IF left_pages < right_pages THEN left_pages ELSE right_pages
  IN  CASE operation = "nested_loop_join" -> AtLeast(0, Ceil(left.rows) - 1) * right_pages
        [] operation = "block_nested_loop_join" ->
             (CeilDiv(left_pages, UsableFrames) - 1) * right_pages
        [] operation = "hash_join" ->
             IF smaller_pages <= UsableFrames THEN 0 ELSE 2 * (left_pages + right_pages)
        [] operation = "sort_merge_join" ->
             ExternalSortIO(left_pages, BufferFrames) + ExternalSortIO(right_pages, BufferFrames)

JoinEstimate(operation, left, right, distinct_counts) ==
  LET larger == AtLeast(AtLeastOne(distinct_counts[1]), distinct_counts[2])
  IN  [rows |-> Times(Times(left.rows, right.rows), <<1, larger>>),
       io   |-> left.io + right.io + JoinIO(operation, left, right)]

-----------------------------------------------------------------------------
(* The estimate of a node from those of its children; a result operator    *)
(* takes the estimate of its child.                                        *)
NodeEstimate(nodes, n, children, joins, table_stats) ==
  LET node == nodes[n]
      distinct(column) == JoinDistinctCount(nodes, ScanLeaves(nodes, n), column, table_stats)
  IN  IF IsScan(node) THEN ScanEstimate(node, table_stats[node.table_name])
      ELSE IF IsJoin(node)
      THEN JoinEstimate(node.operation, children[1], children[2],
                        <<distinct(joins[node.condition].left), distinct(joins[node.condition].right)>>)
      ELSE children[1]

(* estimate fills in the nodes of a tree, children first.                  *)
Estimate(nodes, root, joins, table_stats) ==
  LET estimate[n \in DOMAIN nodes] ==
        NodeEstimate(nodes, n, [c \in DOMAIN nodes[n].children |-> estimate[nodes[n].children[c]]],
                     joins, table_stats)
  IN  [n \in DOMAIN nodes |->
        IF n \in ToSet(PostOrder(nodes, root)) THEN [nodes[n] EXCEPT !.estimate = estimate[n]]
                                               ELSE nodes[n]]

(* KeyError: a table without statistics, a predicate or a condition on a   *)
(* column the statistics of its table do not have, or an alias that is of  *)
(* no leaf when some live table has no statistics or not exactly one has   *)
(* the column.                                                             *)
CanEstimate(nodes, root, joins, table_stats) ==
  LET leaves == {nodes[n] : n \in ScanLeaves(nodes, root)}
      has(leaf, column) == column.name \in DOMAIN table_stats[leaf.table_name].columns
  IN  /\ \A leaf \in leaves :
           /\ leaf.table_name \in DOMAIN table_stats
           /\ \A p \in Range(leaf.predicates) : has(leaf, p.column)
      /\ \A n \in ToSet(PostOrder(nodes, root)) : IsJoin(nodes[n]) =>
           \A column \in {joins[nodes[n].condition].left, joins[nodes[n].condition].right} :
             LET named == {leaf \in leaves : leaf.table_alias = column.table_alias}
             IN  /\ \A leaf \in named : has(leaf, column)
                 /\ \/ named # {}
                    \/ /\ LiveTables \subseteq DOMAIN table_stats
                       /\ Cardinality(TablesWith(column, table_stats)) = 1
=============================================================================
