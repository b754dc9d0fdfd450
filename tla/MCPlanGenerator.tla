--------------------------- MODULE MCPlanGenerator ---------------------------
(***************************************************************************)
(* Queries of one to three tables, the most the parser accepts, with       *)
(* conditions between any two aliases, an alias and itself, or no alias.   *)
(* Queries of up to two tables come with every list of predicates below,   *)
(* among them equalities on indexed columns, two on the same one, ranges,  *)
(* unqualified columns, an unknown alias and an unknown column; the others *)
(* with none or an indexed one.  The statistics are those of the tables,   *)
(* of smaller tables analyzed before, or lack a table.                     *)
(***************************************************************************)
EXTENDS PlanGenerator

CONSTANT MaxTables

S == INSTANCE Storage WITH TableTuplesPerPage <- 2, EntriesPerPage <- 2

Row(k, v) == "k" :> k @@ "v" :> v
RowsOf ==
  "r" :> <<Row(1, 1), Row(2, 1), Row(2, 3), Row(1, 2)>>
  @@ "s" :> <<Row(1, 1), Row(3, 2), Row(2, 2)>>
  @@ "t" :> <<Row(1, 5), Row(2, 1)>>
TableOf(name, rows) == S!NewTable(RowsOf[name] \o rows, 0)

MCIndexes ==
  {S!BTreeIndex("r", TableOf("r", <<>>), "k", TRUE), S!BTreeIndex("s", TableOf("s", <<>>), "v", FALSE)}

StatsOf(rows) == [name \in DOMAIN RowsOf |-> TableStats(TableOf(name, rows), 2)]
MCCatalogs ==
  {StatsOf(<<Row(3, 4), Row(1, 3)>>), StatsOf(<<>>),
   [name \in {"r", "s"} |-> StatsOf(<<>>)[name]]}

Named == <<"a", "b", "c">>
MCTables == <<[name |-> "r", alias |-> "a"], [name |-> "s", alias |-> "b"],
              [name |-> "t", alias |-> "c"]>>

Column(alias, name) == [table_alias |-> alias, name |-> name]
Predicate(alias, name, operator, value) ==
  [column |-> Column(alias, name), operator |-> operator, value |-> value]

Conditions(n) ==
  LET sides == {Column(alias, "k") : alias \in ToSet(SubSeq(Named, 1, n)) \cup {NoAlias}}
  IN  [left : sides, right : sides]

IndexedPredicates == {<<>>, <<Predicate("a", "k", "=", 1)>>}
PredicateLists ==
  IndexedPredicates \cup
  {<<Predicate(NoAlias, "v", "=", 2)>>,
   <<Predicate("a", "k", "=", 1), Predicate("a", "k", "=", 2), Predicate("b", "v", ">", 1)>>,
   <<Predicate("a", "v", "<=", 2), Predicate("b", "v", "=", 2), Predicate("a", "k", ">=", 2)>>,
   <<Predicate("z", "k", "=", 1)>>,
   <<Predicate("a", "w", "=", 1)>>}

MCQueries ==
  UNION {[tables : {SubSeq(MCTables, 1, n)},
          joins : [1 .. n - 1 -> Conditions(n)],
          predicates : IF n < 3 THEN PredicateLists ELSE IndexedPredicates,
          select_items : {<<[aggregate |-> ""]>>},
          group_by : IF n = 1 THEN {<<>>, <<Column("a", "k")>>} ELSE {<<>>}] : n \in 1 .. MaxTables}
=============================================================================
