---------------------------- MODULE PlanGenerator ----------------------------
(***************************************************************************)
(* The plan space of querylab/optimizer/plan_generator.py: table orders,   *)
(* access paths and join algorithms, one tree a step, each estimated when  *)
(* it is complete, and the ranking of all of them.                         *)
(*                                                                         *)
(* A node is its number, the order of its creation.  Access nodes belong   *)
(* to a table order and are shared by all trees over it; join nodes of a   *)
(* tree given up half way keep their numbers.                              *)
(***************************************************************************)
EXTENDS CostEstimator

CONSTANTS
  NoAlias,           (* The table alias of an unqualified column.          *)
  Queries,           (* Records with the fields of Query.                  *)
  Catalogs           (* The table statistics the catalog may hold.         *)

VARIABLES
  query,
  table_stats,
  nodes,             (* All PlanNodes created.                             *)
  orders,            (* Table orders not tried yet, as sequences of places *)
                     (* in query.tables.                                   *)
  trees,             (* Trees of the current order still to be built.      *)
  candidates,        (* The roots of the plans.                            *)
  planning           (* "enumerating", "ranked" or "KeyError".             *)

(* One condition for each table after the first, as the parser returns     *)
(* them, and no alias given twice.                                         *)
ASSUME QueryAssumption ==
  \A q \in Queries :
    /\ q.tables \in Seq(Range(q.tables)) /\ q.tables # <<>>
    /\ \A s, t \in DOMAIN q.tables : q.tables[s].alias = q.tables[t].alias => s = t
    /\ \A t \in DOMAIN q.tables : q.tables[t].alias # NoAlias
    /\ q.joins \in Seq(Range(q.joins)) /\ Len(q.joins) = Len(q.tables) - 1
    /\ q.predicates \in Seq(Range(q.predicates))
    /\ \A p \in Range(q.predicates) : p.value \in Int
    /\ q.select_items \in Seq(Range(q.select_items)) /\ q.group_by \in Seq(Range(q.group_by))

(* Statistics of tables with at least one row, as analyze makes them.      *)
ASSUME CatalogAssumption ==
  \A stats \in Catalogs : \A name \in DOMAIN stats :
    /\ stats[name].row_count \in Nat /\ stats[name].page_count \in Nat
    /\ \A c \in DOMAIN stats[name].columns :
         LET column == stats[name].columns[c]
             buckets == column.histogram.buckets
         IN  /\ column.distinct_count \in Nat
             /\ column.minimum \in Int /\ column.maximum \in Int
             /\ column.minimum <= column.maximum
             /\ column.histogram.total_rows \in Nat \ {0}
             /\ buckets \in Seq(Range(buckets))
             /\ \A b \in Range(buckets) :
                  b.row_count \in Nat /\ b.distinct_count \in Nat \ {0}

ASSUME IndexAssumption == \A i \in Indexes : i.height \in Nat

planVars == <<query, table_stats, nodes, orders, trees, candidates, planning>>

JOIN_OPERATIONS ==
  <<"hash_join", "block_nested_loop_join", "sort_merge_join", "nested_loop_join">>

(* permutations(query.tables)                                              *)
TableOrders(tables) == {order \in [DOMAIN tables -> DOMAIN tables] : IsInjective(order)}

NothingPlanned ==
  /\ table_stats \in Catalogs
  /\ nodes = <<>>
  /\ trees = <<>>
  /\ candidates = <<>>
  /\ planning = "enumerating"

PlanInit ==
  /\ query \in Queries
  /\ orders = TableOrders(query.tables)
  /\ NothingPlanned

-----------------------------------------------------------------------------
PlanNode(operation, children, condition) ==
  [operation  |-> operation, children |-> children,
   table_name |-> "", table_alias |-> NoAlias, predicates |-> <<>>, index_column |-> "",
   condition  |-> condition, estimate |-> NotEstimated]

(* The predicates on a table, or on no table in particular.                *)
PushedDown(table) ==
  Selected(query.predicates, {p \in DOMAIN query.predicates :
    query.predicates[p].column.table_alias \in {NoAlias, table.alias}})

Scan(table, operation, column) ==
  [operation  |-> operation, children |-> <<>>,
   table_name |-> table.name, table_alias |-> table.alias,
   predicates |-> PushedDown(table), index_column |-> column,
   condition  |-> 0, estimate |-> NotEstimated]

(* _access_paths: every table can be read sequentially, and through each   *)
(* index on a column with an equality.  All predicates go along.           *)
AccessPaths(table) ==
  LET predicates == PushedDown(table)
      indexed == Selected(predicates, {p \in DOMAIN predicates :
                   /\ predicates[p].operator = "="
                   /\ IndexesOn(table.name, predicates[p].column.name) # {}})
  IN  <<Scan(table, "seq_scan", "")>>
        \o [i \in DOMAIN indexed |-> Scan(table, "index_scan", indexed[i].column.name)]

FirstOrder == CHOOSE o \in orders : \A p \in orders : p = o \/ RankBefore(o, p)
Paths(order) == [t \in DOMAIN order |-> AccessPaths(query.tables[order[t]])]

(* The numbers that the access nodes will have.                            *)
AccessNodes(paths) ==
  LET before(t) == Len(nodes \o FlattenSeq(SubSeq(paths, 1, t - 1)))
  IN  [t \in DOMAIN paths |-> [p \in DOMAIN paths[t] |-> before(t) + p]]

TreesOver(paths) ==
  LET choices == Product(AccessNodes(paths))
      algorithms == Product([j \in 1 .. Len(paths) - 1 |-> JOIN_OPERATIONS])
  IN  [t \in 1 .. Len(choices) * Len(algorithms) |->
        [access     |-> choices[1 + ((t - 1) \div Len(algorithms))],
         algorithms |-> algorithms[1 + ((t - 1) % Len(algorithms))]]]

(* The next table order: its access nodes, and all the trees over them.    *)
TryOrder ==
  LET paths == Paths(FirstOrder)
  IN  /\ planning = "enumerating" /\ trees = <<>> /\ orders # {}
      /\ orders' = orders \ {FirstOrder}
      /\ nodes' = nodes \o FlattenSeq(paths)
      /\ trees' = TreesOver(paths)
      /\ UNCHANGED <<query, table_stats, candidates, planning>>

-----------------------------------------------------------------------------
\* Mutant: a condition connects whatever the next table is.
ConnectsAnyTable(condition, joined_aliases, next_alias) ==
  {condition.left.table_alias, condition.right.table_alias} \cap joined_aliases # {}

Connects(condition, joined_aliases, next_alias) ==
  LET aliases == {condition.left.table_alias, condition.right.table_alias}
  IN  next_alias \in aliases /\ aliases \cap joined_aliases # {}

(* The conditions that connect the t-th access node to the ones before it; *)
(* _find_join_condition takes the first.                                   *)
Connecting(access, t) ==
  {c \in DOMAIN query.joins :
     Connects(query.joins[c], {nodes[access[s]].table_alias : s \in 1 .. t - 1},
              nodes[access[t]].table_alias)}

FindJoinCondition(access, t) ==
  CHOOSE c \in Connecting(access, t) : \A d \in Connecting(access, t) : c <= d

\* Mutant: the last tree of an order is not built.
TreesAfterLastDropped == IF Len(trees) = 2 THEN <<>> ELSE Tail(trees)
TreesAfter == Tail(trees)

(* _build_join_tree joins up to a table that nothing connects yet.         *)
Joined(access) ==
  CHOOSE j \in 0 .. Len(access) - 1 :
    /\ \A t \in 2 .. j + 1 : Connecting(access, t) # {}
    /\ j < Len(access) - 1 => Connecting(access, j + 2) = {}

Top(access, j) == IF j = 0 THEN access[1] ELSE Len(nodes) + j

Joins(tree) ==
  [j \in 1 .. Joined(tree.access) |->
    PlanNode(tree.algorithms[j], <<Top(tree.access, j - 1), tree.access[j + 1]>>,
             FindJoinCondition(tree.access, j + 1))]

(* _add_result_operator                                                    *)
ResultOperator(access) ==
  LET aggregate == query.group_by # <<>> \/ \E i \in DOMAIN query.select_items :
                                              query.select_items[i].aggregate # ""
  IN  PlanNode(IF aggregate THEN "aggregate" ELSE "project", <<Top(access, Joined(access))>>, 0)

(* If all tables are joined, the result operator and the estimate of the   *)
(* whole tree follow.                                                      *)
BuildTree ==
  LET access == trees[1].access
      complete == nodes \o Append(Joins(trees[1]), ResultOperator(access))
      root == Len(complete)
  IN  /\ planning = "enumerating" /\ trees # <<>>
      /\ trees' = TreesAfter
      /\ IF Joined(access) < Len(access) - 1
         THEN /\ nodes' = nodes \o Joins(trees[1])
              /\ UNCHANGED <<candidates, planning>>
         ELSE IF CanEstimate(complete, root, query.joins, table_stats)
         THEN /\ nodes' = Estimate(complete, root, query.joins, table_stats)
              /\ candidates' = Append(candidates, root)
              /\ UNCHANGED planning
         ELSE /\ planning' = "KeyError"
              /\ UNCHANGED <<nodes, candidates>>
      /\ UNCHANGED <<query, table_stats, orders>>

(* The least estimated I/O first, and the oldest node of equals.           *)
ByEstimate(plans) ==
  Arranged(plans, {pair \in plans \X plans :
    RankBefore(<<nodes[pair[1]].estimate.io, pair[1]>>, <<nodes[pair[2]].estimate.io, pair[2]>>)})

(* candidates.sort                                                         *)
Rank ==
  /\ planning = "enumerating" /\ trees = <<>> /\ orders = {}
  /\ planning' = "ranked"
  /\ candidates' = ByEstimate(Range(candidates))
  /\ UNCHANGED <<query, table_stats, nodes, orders, trees>>

PlanNext == TryOrder \/ BuildTree \/ Rank

Planned == planning # "enumerating" /\ UNCHANGED planVars

PlanSpec == PlanInit /\ [][PlanNext \/ Planned]_planVars

-----------------------------------------------------------------------------
JoinNodes(root) == {n \in ToSet(PostOrder(nodes, root)) : IsJoin(nodes[n])}
Aliases == {query.tables[t].alias : t \in DOMAIN query.tables}

(* Each table after the first is joined by one condition, the first that   *)
(* fits: none of the query is left out of a plan, or used twice, although  *)
(* nothing looks at the conditions a tree has not used.                    *)
EveryConditionApplied ==
  \A c \in DOMAIN candidates :
    LET conditions == [n \in JoinNodes(candidates[c]) |-> nodes[n].condition]
    IN  IsInjective(conditions) /\ Range(conditions) = DOMAIN query.joins

(* The aliases that can be reached from some through the conditions.       *)
Sides(c) == {query.joins[c].left.table_alias, query.joins[c].right.table_alias}
Reach[n \in Nat, from \in SUBSET Aliases] ==
  IF n = 0 THEN from
  ELSE Reach[n-1, from \cup UNION {Sides(c) \cap Aliases :
                                     c \in {d \in DOMAIN query.joins :
                                              /\ Sides(d) \subseteq Aliases
                                              /\ Sides(d) \cap from # {}}}]

Connected == Reach[Len(query.tables), {query.tables[1].alias}] = Aliases

(* A query whose conditions connect all of its tables gets plans that      *)
(* start with any of its tables, and all four algorithms at every join of  *)
(* an order it tries; no other query gets one.                             *)
ConnectedQueriesHavePlans ==
  planning = "ranked" =>
    LET first(c) == FirstLeaf(ScanLeaves(nodes, candidates[c]))
        algorithms(c) == LET joins == JoinNodes(candidates[c])
                         IN  Selected([n \in joins |-> nodes[n].operation], joins)
    IN  IF Connected
        THEN \A alias \in Aliases :
               \A choice \in [1 .. Len(query.tables) - 1 -> Range(JOIN_OPERATIONS)] :
                 \E c \in DOMAIN candidates :
                   /\ nodes[first(c)].table_alias = alias
                   /\ algorithms(c) = choice
        ELSE candidates = <<>>

(* The access nodes of an order are estimated again with each tree over    *)
(* it, so that a plan already made would change with the estimate of       *)
(* another: every estimate stays what it was first.                        *)
SharedNodesKeepTheirEstimates ==
  [][\A n \in DOMAIN nodes :
       nodes[n].estimate # NotEstimated => nodes'[n].estimate = nodes[n].estimate]_planVars

(* How many rows a query is estimated to return is a matter of the query:  *)
(* its plans differ in table order, access paths and algorithms, and the   *)
(* estimates of their roots in I/O only.                                   *)
EstimatedRowsSameForEveryPlan ==
  \A c, d \in DOMAIN candidates :
    SameAs(nodes[candidates[c]].estimate.rows, nodes[candidates[d]].estimate.rows)
=============================================================================
