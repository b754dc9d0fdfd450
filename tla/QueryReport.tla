----------------------------- MODULE QueryReport -----------------------------
(***************************************************************************)
(* evaluate_query of querylab/report/compare.py: a statement is parsed,    *)
(* planned, and its plans are executed one after the other, each on a cold *)
(* pool, until one raises, one returns other rows, or all are measured.    *)
(***************************************************************************)
EXTENDS PlanExecution

CONSTANTS
  Calls,             (* Records of the arguments of a call.                *)
  Literals           (* The literals of the statements and their values.   *)

Parser == INSTANCE SqlParser

(* Queries has what the statements of the calls are parsed into.           *)
ASSUME CallAssumption ==
  \A c \in Calls : Parser!Accepts(c.statement) => Parser!ParseSql(c.statement) \in Queries

VARIABLES
  call,              (* statement, execute_all, and whether the catalog is *)
                     (* that of the database.                              *)
  stage,             (* How far the call is, or what it raised.            *)
  expected_rows,     (* The canonical rows of the first plan.              *)
  executed,          (* The plans measured, with their actual I/O.         *)
  report             (* chosen, actual_best and regret.                    *)

reportVars == <<call, stage, expected_rows, executed, report>>
allVars == <<planVars, execVars, reportVars>>

NoQuery == [tables |-> <<>>, joins |-> <<>>, predicates |-> <<>>, select_items |-> <<>>,
            group_by |-> <<>>]
NoReport == [chosen |-> 0, actual_best |-> 0, regret |-> <<0, 1>>]

Init ==
  /\ query = NoQuery /\ orders = {} /\ NothingPlanned
  /\ IdlePlan
  /\ call \in Calls
  /\ stage = "called"
  /\ expected_rows = <<>>
  /\ executed = <<>>
  /\ report = NoReport

(* The catalog is looked at after the statement is parsed.                 *)
ParseStatement ==
  /\ stage = "called"
  /\ IF ~Parser!Accepts(call.statement)
     THEN stage' = "SQLParseError" /\ UNCHANGED <<query, orders>>
     ELSE /\ stage' = IF call.same_database THEN "planning" ELSE "ValueError"
          /\ query' = Parser!ParseSql(call.statement)
          /\ orders' = TableOrders(query'.tables)
  /\ UNCHANGED <<table_stats, nodes, trees, candidates, planning,
                 execVars, call, expected_rows, executed, report>>

Generate ==
  /\ stage = "planning" /\ PlanNext
  /\ UNCHANGED <<execVars, reportVars>>

(* plans_to_execute: all, or plans[:1].                                    *)
PlansToExecute ==
  IF call.execute_all \/ candidates = <<>> THEN candidates ELSE <<candidates[1]>>

Execute ==
  /\ stage = "planning" /\ planning # "enumerating"
  /\ IF planning = "KeyError" THEN stage' = "KeyError" /\ UNCHANGED execVars
     ELSE IF PlansToExecute = <<>>
     THEN stage' = "no candidate plans" /\ UNCHANGED execVars
     ELSE stage' = "executing" /\ StartPlan(PlansToExecute[1])
  /\ UNCHANGED <<planVars, call, expected_rows, executed, report>>

Evaluate ==
  /\ stage = "executing" /\ ExecNext
  /\ UNCHANGED <<planVars, reportVars>>

-----------------------------------------------------------------------------
(* Equal row texts, counted, in place of the sorted tuple of them.         *)
CanonicalRows(some) ==
  [row \in Range(some) |-> Cardinality({i \in DOMAIN some : some[i] = row})]

\* Mutants: a plan that raises is tried again; the best by its position.
RaiseLater == StartPlan(root) /\ UNCHANGED stage
ActualBestOfFirst(measured) == measured[1]

Raise == stage' = execution /\ UNCHANGED execVars

(* min by actual I/O, and by node identifier among equals.                 *)
ActualBest(measured) ==
  CHOOSE m \in Range(measured) :
    \A n \in Range(measured) : m = n \/ RankBefore(<<m.io, m.plan>>, <<n.io, n.plan>>)

(* A fraction; with a best plan of no I/O, 0 or infinity as <<1, 0>>.      *)
Regret(chosen_io, best_io) ==
  IF best_io > 0 THEN <<chosen_io - best_io, best_io>>
  ELSE IF chosen_io = 0 THEN <<0, 1>> ELSE <<1, 0>>

MakeReport(measured) ==
  [chosen |-> measured[1].plan,
   actual_best |-> ActualBest(measured).plan,
   regret |-> Regret(measured[1].io, ActualBest(measured).io)]

(* A plan has returned.                                                    *)
Compare ==
  LET actual_rows == CanonicalRows(rows[root])
      measured == Append(executed, [plan |-> root, io |-> Pool!ActualIO(metrics)])
  IN  /\ stage = "executing" /\ execution = "done"
      /\ expected_rows' = IF executed = <<>> THEN actual_rows ELSE expected_rows
      /\ IF actual_rows # expected_rows'
         THEN stage' = "different result" /\ UNCHANGED <<execVars, executed, report>>
         ELSE /\ executed' = measured
              /\ IF Len(measured) < Len(PlansToExecute)
                 THEN StartPlan(PlansToExecute[Len(measured) + 1]) /\ UNCHANGED <<stage, report>>
                 ELSE /\ stage' = "reported"
                      /\ report' = MakeReport(measured)
                      /\ UNCHANGED execVars
      /\ UNCHANGED <<planVars, call>>

Abort ==
  /\ stage = "executing" /\ execution \notin {"running", "done"}
  /\ Raise
  /\ UNCHANGED <<planVars, call, expected_rows, executed, report>>

Ended == stage \notin {"called", "planning", "executing"}
Returned == Ended /\ UNCHANGED allVars

Next == ParseStatement \/ Generate \/ Execute \/ Evaluate \/ Compare \/ Abort

(* One thread runs a call and takes its next step as long as there is one: *)
(* WF_allVars(Next), with ~Ended in place of ENABLED Next, which costs TLC *)
(* more than all else.  Where the two differ, the run ends in a deadlock.  *)
Progress == []<>Ended \/ []<><<Next>>_allVars

Spec == Init /\ [][Next \/ Returned]_allVars /\ Progress

-----------------------------------------------------------------------------
Finished == stage = "executing" /\ execution = "done"

(* The parser skips nothing: a statement it accepts is, word for word, the *)
(* text of the query it makes of it.  parse_sql ends one match where the   *)
(* next begins and collects the rest in texts nobody looks at twice.       *)
NothingSkipped == query.tables # <<>> => Parser!SaysAll(call.statement, query)

(* SQLParseError is for statements outside of the documented subset, which *)
(* has nothing after the columns of GROUP BY: every column is one word.    *)
OnlySubsetAccepted ==
  \A g \in DOMAIN query.group_by :
    \E t \in DOMAIN call.statement :
      Last(call.statement[t]) = query.group_by[g].name

(* The counters of the operators, each the difference of two snapshots of  *)
(* the pool they share, add up to the actual I/O of the plan.              *)
MetricsAddUp ==
  Finished =>
    FoldSeq(LAMBDA m, n : m.buffer_misses + m.page_writes + n, 0, all_metrics)
      = Pool!ActualIO(metrics)

(* Every plan starts cold: it misses every page it asks for at least once, *)
(* whatever plans ran before it.                                           *)
EveryPageMissedOnce ==
  Finished =>
    LET pages == (UNION {Range(Requests(Schedule[s])) : s \in DOMAIN Schedule}) \ {<<"write">>}
    IN  metrics.buffer_misses >= Cardinality(pages)

MetricOf(n) == SelectSeq(all_metrics, LAMBDA m : m.node = n)[1]

(* What a join reads and writes of its own follows from its inputs.  An    *)
(* inner table that was scanned and fits in the pool is rescanned for      *)
(* free, one that does not is read in full on every pass, although most of *)
(* its pages were just there.  The pages of a spilled hash join cost one   *)
(* write and one read each.  A sort-merge join does the estimated I/O      *)
(* less one read of each page of a sorted input.                           *)
JoinIOFollowsTheInput ==
  Finished =>
    \A n \in {s \in ToSet(Schedule) : IsJoin(nodes[s])} :
      LET inner == nodes[nodes[n].children[2]]
          pages == Len(Tables[inner.table_name].pages)
          passes == Rescans(nodes[n].operation, Left(nodes[n]))
          sortIO(side) == ExternalSortIO(PagesOf(side), BufferFrames)
                            - IF PagesOf(side) > BufferFrames THEN PagesOf(side) ELSE 0
          m == MetricOf(n)
      IN  CASE nodes[n].operation = "hash_join" -> m.buffer_misses = m.page_writes
            [] nodes[n].operation = "sort_merge_join" ->
                 m.buffer_misses + m.page_writes = sortIO(Left(nodes[n])) + sortIO(Right(nodes[n]))
            [] inner.operation = "seq_scan" ->
                 /\ m.page_writes = 0
                 /\ m.buffer_misses = IF pages <= BufferFrames THEN 0 ELSE passes * pages
            [] OTHER -> m.page_writes = 0 /\ m.buffer_misses <= passes * pages

(* The locations of a key come in page order, so that an index scan reads  *)
(* each of its pages once, with any number of frames.                      *)
IndexScanReadsPagesOnce ==
  Finished =>
    \A m \in {a \in Range(all_metrics) : nodes[a.node].operation = "index_scan"} :
      m.buffer_misses <= Cardinality(Range(Requests(m.node)))

-----------------------------------------------------------------------------
TableOf(t) == Tables[query.tables[t].name]

(* The tables of the query a column may be of.                             *)
TablesOf(column) ==
  {t \in DOMAIN query.tables :
     /\ column.table_alias \in {NoAlias, query.tables[t].alias}
     /\ column.name \in TableOf(t).columns}

(* The query without a plan: the rows of the cross product of its tables   *)
(* that satisfy its conditions and predicates.  A combination has the      *)
(* place of a row for each table.                                          *)
Combinations ==
  {c \in [DOMAIN query.tables -> UNION {DOMAIN TableOf(t).rows : t \in DOMAIN query.tables}] :
     \A t \in DOMAIN query.tables : c[t] \in DOMAIN TableOf(t).rows}

CombinedRow(c) ==
  LET qualified(t) == QualifyRow(TableOf(t).rows[c[t]], query.tables[t].alias)
      tableWith(alias) == CHOOSE t \in DOMAIN query.tables : query.tables[t].alias = alias
  IN  [key \in UNION {DOMAIN qualified(t) : t \in DOMAIN query.tables} |->
        qualified(tableWith(key[1]))[key]]

Answer ==
  LET matching == {c \in Combinations :
        /\ \A j \in DOMAIN query.joins :
             ColumnValue(CombinedRow(c), query.joins[j].left)
               = ColumnValue(CombinedRow(c), query.joins[j].right)
        /\ MatchesAll(CombinedRow(c), query.predicates)}
  IN  [row \in {CombinedRow(c) : c \in matching} |->
        Cardinality({c \in matching : CombinedRow(c) = row})]

(* Whatever the order of the tables, the access paths and the algorithms,  *)
(* the rows a plan projects or groups are those of the query, if each of   *)
(* its predicates is on a column of one table: one on a column of several  *)
(* is applied to each of them, and one with the alias of none to none.     *)
ResultIsTheQuery ==
  Finished /\ (\A p \in Range(query.predicates) : Cardinality(TablesOf(p.column)) = 1) =>
    CanonicalRows(Left(nodes[root])) = Answer

(* A report of all plans is about all plans: no regret is reported exactly *)
(* if none of them did with less I/O than the chosen one, and the regret   *)
(* is a number, as no plan gets by without reading a page.                 *)
ReportNamesTheWinner ==
  stage = "reported" /\ call.execute_all =>
    /\ {executed[e].plan : e \in DOMAIN executed} = Range(candidates)
    /\ report.regret[1] = 0 <=> \A e \in DOMAIN executed : executed[1].io <= executed[e].io
    /\ report.regret[2] > 0

(* Every plan of a query returns the same rows.                            *)
SameResultForEveryPlan == stage # "different result"

SelectedColumnsExist ==
  \A column \in Range(query.group_by) \cup {i.column : i \in Range(query.select_items)} :
    Cardinality(TablesOf(column)) = 1

(* A plan that raises takes the whole report with it.  If the columns to   *)
(* select exist, only a join with one empty input raises KeyError.         *)
OnlyEmptyInputsAbort ==
  stage = "executing" /\ execution = "KeyError" /\ SelectedColumnsExist =>
    \E n \in ToSet(Schedule) :
      /\ IsJoin(nodes[n])
      /\ Range(nodes[n].children) \subseteq DOMAIN rows
      /\ (Left(nodes[n]) = <<>>) # (Right(nodes[n]) = <<>>)

(* Every call ends, with a report or an exception.                         *)
EveryCallEnds == <>Ended
=============================================================================
