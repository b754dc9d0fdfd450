---------------------------- MODULE MCQueryReport ----------------------------
(***************************************************************************)
(* Three tables: r has six rows on three pages, one more than the pool has *)
(* frames, s six on two and t two on one; r has an unclustered index, s a  *)
(* clustered one.  The statements join up to three of them, in either      *)
(* orientation, with inputs that are empty, fit in memory, or spill.       *)
(***************************************************************************)
EXTENDS QueryReport

Row(k, v) == "k" :> k @@ "v" :> v
TextRow(k, w) == "k" :> k @@ "w" :> w
MCTables ==
  "r" :> NewTable(<<Row(2, 1), Row(2, 2), Row(2, 1), Row(3, 3), Row(2, 2), Row(1, 1)>>, 0)
  @@ "s" :> NewTable(<<Row(1, 4), Row(2, 2), Row(2, 3), Row(3, 2), Row(1, 2), Row(4, 1)>>, 2)
  @@ "t" :> NewTable(<<TextRow(2, 7), TextRow(3, 8)>>, 0)

MCIndexes ==
  {BTreeIndex("r", MCTables["r"], "k", FALSE), BTreeIndex("s", MCTables["s"], "v", TRUE)}
MCHash == [key \in 0 .. 9 |-> key]

(* The statistics of the tables, and older ones of r, s and no t.          *)
StatsOf(tables) == [name \in DOMAIN tables |-> TableStats(tables[name], 2)]
MCCatalogs ==
  {StatsOf(MCTables),
   StatsOf([name \in {"r", "s"} |-> NewTable(SubSeq(MCTables[name].rows, 1, 2), 0)])}

MCLiterals == "2" :> 2 @@ "9" :> 9 @@ "'x'" :> 7

-----------------------------------------------------------------------------
C(alias, name) == [table_alias |-> alias, name |-> name]
T(name, alias) == [name |-> name, alias |-> alias]
On(left, right) == [left |-> left, right |-> right]
P(column, operator, value) == [column |-> column, operator |-> operator, value |-> value]
I(aggregate, column, name) ==
  [column |-> column, aggregate |-> aggregate, output_name |-> name]
Q(items, tables, joins, predicates, group) ==
  Parser!Rendered([tables |-> tables, joins |-> joins, predicates |-> predicates,
                   select_items |-> items, group_by |-> group], {})

RS == <<T("r", "a"), T("s", "b")>>
RST == RS \o <<T("t", "c")>>
KK == On(C("a", "k"), C("b", "k"))
ReversedKK == On(C("b", "k"), C("a", "k"))

(* Index scans, as inputs of joins too; an empty group; groups over joins  *)
(* that spill on both sides; a three-way join.                             *)
Answered ==
  {Q(<<I("", C("", "v"), "")>>, <<T("r", "a")>>, <<>>, <<P(C("a", "k"), "=", 2), P(C("a", "v"), "=", 2)>>, <<>>),
   Q(<<I("COUNT", C("a", "k"), "n"), I("AVG", C("a", "v"), "n")>>, <<T("r", "a")>>, <<>>,
     <<P(C("a", "k"), "=", 9)>>, <<>>),
   Q(<<I("", C("b", "v"), ""), I("SUM", C("a", "v"), "")>>, RS, <<ReversedKK>>,
     <<P(C("b", "k"), "<=", 2)>>, <<C("b", "v")>>),
   Q(<<I("COUNT", C("a", "k"), "")>>, RS, <<KK>>, <<P(C("a", "k"), "=", 2)>>, <<>>),
   Q(<<I("AVG", C("b", "v"), "")>>, RS, <<KK>>, <<>>, <<C("a", "k")>>),
   Q(<<I("", C("a", "k"), ""), I("", C("c", "w"), "w")>>, RST,
     <<KK, On(C("c", "k"), C("a", "k"))>>, <<P(C("c", "w"), "=", 7), P(C("b", "v"), "=", 2)>>, <<>>)}

(* One input empty, a column to select that is missing, ambiguous, not a   *)
(* number or of an empty group, a predicate on a missing column, tables    *)
(* that are not connected, too many tables, an OR and a DISTINCT.          *)
Refused ==
  {Q(<<I("", C("a", "v"), "")>>, RS, <<ReversedKK>>, <<P(C("b", "v"), ">", 9)>>, <<>>),
   Q(<<I("", C("a", "w"), "")>>, <<T("r", "a")>>, <<>>, <<>>, <<>>),
   Q(<<I("", C("", "v"), "")>>, RS, <<KK>>, <<>>, <<>>),
   Q(<<I("SUM", C("c", "w"), "")>>, <<T("t", "c")>>, <<>>, <<P(C("c", "k"), "<", 9)>>, <<>>),
   Q(<<I("", C("a", "v"), ""), I("COUNT", C("a", "v"), "")>>, <<T("r", "a")>>, <<>>,
     <<P(C("a", "k"), ">=", 9)>>, <<>>),
   Q(<<I("", C("a", "v"), "")>>, <<T("r", "a")>>, <<>>, <<P(C("a", "w"), "=", 2)>>, <<>>),
   Q(<<I("", C("a", "v"), "")>>, RS, <<On(C("a", "k"), C("a", "v"))>>, <<>>, <<>>),
   Q(<<I("", C("a", "v"), "")>>, RST \o RS, <<KK, KK, KK, KK>>, <<>>, <<>>),
   <<<<"SELECT">>, <<"v">>, <<"FROM">>, <<"r">>, <<"WHERE">>, <<"k">>, <<"=">>, <<"2">>, <<"OR">>,
     <<"v">>, <<"=">>, <<"2">>>>,
   <<<<"SELECT">>, <<"DISTINCT">>, <<"v">>, <<"FROM">>, <<"r">>>>}

(* A statement with any one of its words left out or said twice.           *)
Long == Q(<<I("AVG", C("a", "v"), "m"), I("", C("a", "k"), "")>>, RS, <<KK>>,
          <<P(C("b", "v"), "<=", 2), P(C("b", "k"), "=", 9)>>, <<C("a", "k")>>)
Garbled ==
  {RemoveAt(Long, i) : i \in DOMAIN Long} \cup {InsertAt(Long, i, Long[i]) : i \in DOMAIN Long}

Call(statement, execute_all, same_database) ==
  [statement |-> statement, execute_all |-> execute_all, same_database |-> same_database]
MCCalls ==
  {Call(s, TRUE, TRUE) : s \in Answered \cup Refused \cup Garbled}
  \cup {Call(s, FALSE, same) : s \in Answered, same \in BOOLEAN}
  \cup {Call(s, FALSE, TRUE) : s \in Refused}

MCQueries ==
  {Parser!ParseSql(c.statement) : c \in {d \in Calls : Parser!Accepts(d.statement)}}

(* A column that is not grouped, of the rows of r in each group.           *)
UngroupedCalls ==
  {Call(Q(<<I("", C("a", "v"), ""), I("COUNT", C("b", "k"), "")>>, RS, <<KK>>, <<>>, <<C("b", "v")>>),
        TRUE, TRUE)}

(* HAVING is no part of the subset.                                        *)
HavingCalls ==
  {Call(Q(<<I("", C("a", "k"), "")>>, <<T("r", "a")>>, <<>>, <<>>, <<C("a", "k")>>)
          \o <<<<"HAVING">>, <<"a", "k">>>>, TRUE, TRUE),
   Call(Q(<<I("", C("", "k"), "")>>, <<T("r", "a")>>, <<>>, <<>>, <<C("", "k")>>)
          \o <<<<"HAVING">>, <<"2">>>>, TRUE, TRUE)}
=============================================================================
