---------------------------- MODULE PlanExecution ----------------------------
(***************************************************************************)
(* PlanEvaluator of querylab/executor/evaluator.py running one plan of the *)
(* generator on a buffer pool, one page request a step.  The operators run *)
(* children first; what a join returns and in which order is JoinResult,   *)
(* which PhysicalOperators has the algorithms end with.                    *)
(*                                                                         *)
(* A row is a function from pairs of an alias and a column to values.      *)
(***************************************************************************)
EXTENDS PlanGenerator, Storage

CONSTANTS
  Tables,            (* From names to tables, the live database.           *)
  Hash,              (* hash of the join keys.                             *)
  MaxRequests        (* Bound on the page requests of a plan.              *)

VARIABLES
  frames, cached, metrics, returned,       (* The buffer pool of the plan. *)
  root,              (* The plan, a node.                                  *)
  rows,              (* The rows of each node that has run.                *)
  current,           (* The operator at work, 0 between two.               *)
  agenda,            (* Its page requests to come.                         *)
  snapshot,          (* The counters when it started its own work.         *)
  all_metrics,       (* The OperatorMetrics of the nodes that have run.    *)
  execution          (* "running", "done" or the exception raised.         *)

(* Tables of rows that all have the columns of the table, as insert_rows   *)
(* means to keep them, although it looks at the first row of a batch only. *)
ASSUME TableAssumption ==
  \A name \in DOMAIN Tables :
    LET table == Tables[name]
    IN  /\ table.rows \in Seq(Range(table.rows)) /\ table.target \in Nat
        /\ table.pages = MakePages(table.rows, table.target)
        /\ \A row \in Range(table.rows) :
             /\ DOMAIN row = table.columns
             /\ \A column \in DOMAIN row : row[column] \in Int /\ Hash[row[column]] \in Nat

ASSUME LiveIndexAssumption ==
  \A i \in Indexes :
    /\ i.table \in DOMAIN Tables
    /\ i = BTreeIndex(i.table, Tables[i.table], i.column, i.clustered)

ASSUME LiveTablesAssumption == LiveTables = DOMAIN Tables

(* The statistics are of the tables as they are or were, or of those of    *)
(* another run, with any number of rows: every run generates tables of the *)
(* same names and columns.                                                 *)
ASSUME AnalyzedAssumption ==
  \A stats \in Catalogs : \A name \in DOMAIN stats :
    /\ name \in DOMAIN Tables
    /\ DOMAIN stats[name].columns \subseteq Tables[name].columns

poolVars == <<frames, cached, metrics, returned>>
execVars == <<poolVars, root, rows, current, agenda, snapshot, all_metrics, execution>>

Pool == INSTANCE BufferPool WITH
  FrameCount <- BufferFrames, PageKeys <- {}, Pages <- {}, NoPage <- <<>>,
  MaxWrites <- MaxRequests

Schedule == PostOrder(nodes, root)

-----------------------------------------------------------------------------
(* _qualify_row, _column_value                                             *)
QualifyRow(row, alias) == [key \in {alias} \X DOMAIN row |-> row[key[2]]]

MatchingKeys(row, column) ==
  {key \in DOMAIN row : /\ key[2] = column.name
                        /\ column.table_alias \in {NoAlias, key[1]}}
Resolves(row, column) == Cardinality(MatchingKeys(row, column)) = 1
ColumnValue(row, column) == row[CHOOSE key \in MatchingKeys(row, column) : TRUE]

Compares(operator, actual, expected) ==
  CASE operator = "="  -> actual = expected
    [] operator = "<"  -> actual < expected
    [] operator = "<=" -> actual <= expected
    [] operator = ">"  -> actual > expected
    [] operator = ">=" -> actual >= expected

MatchesAll(row, predicates) ==
  \A p \in Range(predicates) :
    Compares(p.operator, ColumnValue(row, p.column), p.value)

-----------------------------------------------------------------------------
(* The rows of the operators.                                              *)

(* An index scan asks for the value of the first equality on its column.   *)
IndexValue(node) ==
  Selected(node.predicates, {p \in DOMAIN node.predicates :
    /\ node.predicates[p].column.name = node.index_column
    /\ node.predicates[p].operator = "="})[1].value
Locations(node) ==
  EqualitySearch(IndexOn(node.table_name, node.index_column), IndexValue(node))

\* Mutant: an index scan applies no other predicate.
ScanRowsOfIndex(node) ==
  LET pages == Tables[node.table_name].pages
      locations == IF node.operation = "seq_scan" THEN ScanOrder(pages) ELSE Locations(node)
      qualified == [l \in DOMAIN locations |->
                     QualifyRow(RowAt(pages, locations[l]), node.table_alias)]
  IN  Selected(qualified, {l \in DOMAIN qualified :
        node.operation = "index_scan" \/ MatchesAll(qualified[l], node.predicates)})

ScanRows(node) ==
  LET pages == Tables[node.table_name].pages
      locations == IF node.operation = "seq_scan" THEN ScanOrder(pages) ELSE Locations(node)
      qualified == [l \in DOMAIN locations |->
                     QualifyRow(RowAt(pages, locations[l]), node.table_alias)]
  IN  Selected(qualified, {l \in DOMAIN qualified : MatchesAll(qualified[l], node.predicates)})

Left(node) == rows[node.children[1]]
Right(node) == rows[node.children[2]]

Reversed(node) ==
  \A leaf \in ScanLeaves(nodes, node.children[1]) :
    nodes[leaf].table_alias # query.joins[node.condition].left.table_alias

(* The join keys of the two inputs, by the condition turned to fit them.   *)
LeftKeys(node) ==
  LET condition == query.joins[node.condition]
      column == IF Reversed(node) THEN condition.right ELSE condition.left
  IN  [i \in DOMAIN Left(node) |-> ColumnValue(Left(node)[i], column)]
RightKeys(node) ==
  LET condition == query.joins[node.condition]
      column == IF Reversed(node) THEN condition.left ELSE condition.right
  IN  [j \in DOMAIN Right(node) |-> ColumnValue(Right(node)[j], column)]

(* left_row | right_row                                                    *)
RowUnion(left, right) ==
  [key \in DOMAIN left \cup DOMAIN right |->
    IF key \in DOMAIN right THEN right[key] ELSE left[key]]

JoinRows(node) ==
  LET pairs == JoinOutput(node.operation, LeftKeys(node), RightKeys(node), Hash)
  IN  [p \in DOMAIN pairs |-> RowUnion(Left(node)[pairs[p][1]], Right(node)[pairs[p][2]])]

-----------------------------------------------------------------------------
(* _produce_result: projections, and groups of rows of equal values in the *)
(* order of their first rows.                                              *)

(* Two items may have the same name: the later one overwrites.             *)
OutputName(item) ==
  IF item.output_name # "" THEN <<item.output_name>>
  ELSE IF item.aggregate # "" THEN <<item.aggregate, item.column.name>>
  ELSE <<item.column.name>>

ResultRow(values) ==
  LET items == query.select_items
      last(name) == CHOOSE i \in DOMAIN items :
        /\ OutputName(items[i]) = name
        /\ \A j \in i + 1 .. Len(items) : OutputName(items[j]) # name
  IN  [name \in {OutputName(items[i]) : i \in DOMAIN items} |-> values[last(name)]]

GroupKey(row) == [g \in DOMAIN query.group_by |-> ColumnValue(row, query.group_by[g])]

(* Without GROUP BY there is a group even if there is no row.              *)
Groups(input) ==
  LET keys == FoldLeft(LAMBDA seen, row : IF GroupKey(row) \in Range(seen) THEN seen
                                          ELSE Append(seen, GroupKey(row)), <<>>, input)
  IN  IF query.group_by = <<>> THEN <<input>>
      ELSE [k \in DOMAIN keys |-> SelectSeq(input, LAMBDA row : GroupKey(row) = keys[k])]

(* SUM and AVG as fractions, without their rounding.                       *)
AggregateValue(item, group) ==
  LET sum == FoldSeq(LAMBDA row, n : ColumnValue(row, item.column) + n, 0, group)
  IN  CASE item.aggregate = "" -> <<ColumnValue(group[1], item.column), 1>>
        [] item.aggregate = "COUNT" -> <<Len(group), 1>>
        [] item.aggregate = "SUM" -> <<sum, 1>>
        [] item.aggregate = "AVG" -> <<sum, AtLeastOne(Len(group))>>

ResultRows(node, input) ==
  IF node.operation = "project"
  THEN [i \in DOMAIN input |-> ResultRow([s \in DOMAIN query.select_items |->
                                 <<ColumnValue(input[i], query.select_items[s].column), 1>>])]
  ELSE LET groups == Groups(input)
       IN  [g \in DOMAIN groups |-> ResultRow([s \in DOMAIN query.select_items |->
                                      AggregateValue(query.select_items[s], groups[g])])]

(* What evaluating the result raises first: grouping, then the items of    *)
(* the first group in turn.  COUNT does not look at its column.            *)
ResultError(node, input) ==
  LET columnError(column) ==
        IF input # <<>> /\ ~Resolves(input[1], column) THEN "KeyError" ELSE "none"
      itemError(item) ==
        IF item.aggregate = "COUNT" THEN "none"
        ELSE IF columnError(item.column) # "none" THEN columnError(item.column)
        ELSE IF item.aggregate # ""
        THEN IF input # <<>> /\ item.column.name \in TextColumns THEN "TypeError" ELSE "none"
        ELSE IF node.operation = "aggregate" /\ input = <<>> /\ query.group_by = <<>>
        THEN "ValueError" ELSE "none"
      errors == [g \in DOMAIN query.group_by |-> columnError(query.group_by[g])]
                  \o [i \in DOMAIN query.select_items |-> itemError(query.select_items[i])]
      raised == Selected(errors, {e \in DOMAIN errors : errors[e] # "none"})
  IN  IF raised = <<>> THEN "none" ELSE raised[1]

-----------------------------------------------------------------------------
(* The page requests of the operators; "write" is a temporary page write.  *)
Writes(count) == [w \in 1 .. count |-> <<"write">>]
TablePages(name) == [p \in DOMAIN Tables[name].pages |-> <<"table", name, p>>]

IndexPages(node) ==
  [level \in 1 .. IndexOn(node.table_name, node.index_column).height |->
    <<"index", node.table_name, node.index_column, level, IndexValue(node)>>]

\* Mutant: one scan of the inner pages for every block.
RescanPagesOfEveryBlock(node) ==
  FlattenSeq([pass \in 1 .. Blocks(node.operation, Left(node)) |->
               TablePages(nodes[node.children[2]].table_name)])

(* _rescan_leaf_pages: whatever access path the inner child is, all pages  *)
(* of its table.  The inner child of a left-deep tree is a scan.           *)
RescanPages(node) ==
  FlattenSeq([pass \in 1 .. Rescans(node.operation, Left(node)) |->
               TablePages(nodes[node.children[2]].table_name)])

(* The partitions of both inputs are written, and read back.               *)
PartitionPages(left, right, n) ==
  LET partition(keys, p) ==
        Selected(keys, {i \in DOMAIN keys : PartitionOf(Hash, keys[i], left, right) = p})
      total == FoldSet(LAMBDA p, m : PagesOf(partition(left, p)) + PagesOf(partition(right, p)) + m,
                       0, 1 .. PartitionCount(left, right))
  IN  IF Spills(left, right)
      THEN Writes(total) \o [page \in 1 .. total |-> <<"temp", n, page>>]
      ELSE <<>>

(* The parts of so much, as large as may be, the last one being the rest.  *)
Parts(total, size) ==
  [s \in 1 .. CeilDiv(total, size) |->
    IF s * size <= total THEN size ELSE total - (s - 1) * size]

(* external_merge_sort of so many rows, a run being its number of rows:    *)
(* the runs before each pass, and the group of them a merge reads.         *)
RunRows == BufferFrames * TuplesPerPage
FanIn == MergeFrames(BufferFrames)
Group(runs, g) ==
  SubSeq(runs, (g - 1) * FanIn + 1, (g - 1) * FanIn + Parts(Len(runs), FanIn)[g])
MergedRuns(runs) ==
  [g \in DOMAIN Parts(Len(runs), FanIn) |-> FoldSeq(+, 0, Group(runs, g))]
RunsBefore(count) ==
  LET runs[pass \in 0 .. count] ==
        IF pass = 0 THEN Parts(count, RunRows) ELSE MergedRuns(runs[pass-1])
  IN  runs

RunPages(run) == CeilDiv(run, TuplesPerPage)
MergePages(runs, n, side, pass) ==
  LET reads(g) ==
        FlattenSeq([r \in DOMAIN Group(runs, g) |->
          [p \in 1 .. RunPages(Group(runs, g)[r]) |-> <<"temp", n, side, pass, g, r, p>>]])
  IN  FlattenSeq([g \in DOMAIN MergedRuns(runs) |->
                   reads(g) \o Writes(RunPages(MergedRuns(runs)[g]))])

SortPages(count, n, side) ==
  LET runs == RunsBefore(count)
      passes == Cardinality({pass \in 0 .. count : Len(runs[pass]) > 1})
  IN  IF count <= RunRows THEN <<>>
      ELSE FlattenSeq([r \in DOMAIN runs[0] |-> Writes(RunPages(runs[0][r]))])
             \o FlattenSeq([pass \in 1 .. passes |->
                             MergePages(runs[pass-1], n, side, pass)])

Requests(n) ==
  LET node == nodes[n]
  IN  CASE node.operation = "seq_scan" -> TablePages(node.table_name)
        [] node.operation = "index_scan" ->
             IndexPages(node) \o [l \in DOMAIN Locations(node) |->
                                   <<"table", node.table_name, Locations(node)[l][1]>>]
        [] node.operation \in {"nested_loop_join", "block_nested_loop_join"} -> RescanPages(node)
        [] node.operation = "hash_join" -> PartitionPages(LeftKeys(node), RightKeys(node), n)
        [] node.operation = "sort_merge_join" ->
             SortPages(Len(Left(node)), n, "left") \o SortPages(Len(Right(node)), n, "right")
        [] OTHER -> <<>>

-----------------------------------------------------------------------------
(* What calling an operator raises, before or after its page requests.     *)
OperatorError(n) ==
  LET node == nodes[n]
  IN  IF IsScan(node) THEN "none"
      ELSE IF IsJoin(node)
      THEN IF JoinFails(node.operation, Reversed(node), Left(node), Right(node))
           THEN "KeyError" ELSE "none"
      ELSE ResultError(node, Left(node))

Output(n) ==
  LET node == nodes[n]
  IN  IF IsScan(node) THEN ScanRows(node)
      ELSE IF IsJoin(node) THEN JoinRows(node)
      ELSE ResultRows(node, Left(node))

IdlePlan ==
  /\ Pool!Init
  /\ root = 0 /\ rows = <<>> /\ current = 0 /\ agenda = <<>> /\ snapshot = <<0, 0>>
  /\ all_metrics = <<>> /\ execution = "done"

\* Mutant: the evaluator keeps one pool for all plans.
KeptPool == UNCHANGED <<frames, cached>>

(* BufferPool(self.buffer_frames): every plan starts cold.                 *)
ColdPool == frames' = <<>> /\ cached' = <<>>

StartPlan(plan) ==
  /\ ColdPool
  /\ metrics' = Pool!ZeroMetrics
  /\ returned' = <<>>
  /\ root' = plan
  /\ rows' = <<>> /\ current' = 0 /\ agenda' = <<>> /\ snapshot' = <<0, 0>>
  /\ all_metrics' = <<>> /\ execution' = "running"

\* Mutant: a join takes its snapshot before it runs its children.
SnapshotBeforeChildren(n) ==
  IF IsJoin(nodes[n]) THEN <<0, 0>> ELSE <<metrics.buffer_misses, metrics.page_writes>>

(* misses_before, writes_before                                            *)
Snapshot(n) == <<metrics.buffer_misses, metrics.page_writes>>

StartOperator ==
  LET n == Schedule[Len(all_metrics) + 1]
  IN  /\ execution = "running" /\ current = 0 /\ Len(all_metrics) < Len(Schedule)
      /\ UNCHANGED <<poolVars, root, all_metrics>>
      /\ IF OperatorError(n) = "none"
         THEN /\ current' = n
              /\ rows' = [r \in DOMAIN rows \cup {n} |->
                          IF r \in DOMAIN rows THEN rows[r] ELSE Output(n)]
              /\ agenda' = Requests(n)
              /\ snapshot' = Snapshot(n)
              /\ UNCHANGED execution
         ELSE /\ execution' = OperatorError(n)
              /\ UNCHANGED <<current, rows, agenda, snapshot>>

RequestPage ==
  /\ execution = "running" /\ agenda # <<>>
  /\ agenda' = Tail(agenda)
  /\ IF agenda[1] = <<"write">> THEN Pool!WriteTemporaryPage
                                ELSE Pool!Fetch(agenda[1], agenda[1])
  /\ UNCHANGED <<root, rows, current, snapshot, all_metrics, execution>>

FinishOperator ==
  /\ execution = "running" /\ current # 0 /\ agenda = <<>>
  /\ all_metrics' = Append(all_metrics,
       [node          |-> current,
        rows_out      |-> Len(rows[current]),
        buffer_misses |-> metrics.buffer_misses - snapshot[1],
        page_writes   |-> metrics.page_writes - snapshot[2]])
  /\ current' = 0
  /\ UNCHANGED <<poolVars, root, rows, agenda, snapshot, execution>>

FinishPlan ==
  /\ execution = "running" /\ current = 0 /\ Len(all_metrics) = Len(Schedule)
  /\ execution' = "done"
  /\ UNCHANGED <<poolVars, root, rows, current, agenda, snapshot, all_metrics>>

ExecNext == StartOperator \/ RequestPage \/ FinishOperator \/ FinishPlan
=============================================================================
