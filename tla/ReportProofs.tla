---------------------------- MODULE ReportProofs ----------------------------
(***************************************************************************)
(* A call of evaluate_query, for every database, catalog, set of queries   *)
(* and pool size: the plans it executes one after the other.               *)
(*                                                                         *)
(* The argument: what the plans are is known from PlanProofs, and no step  *)
(* of a plan changes them.  The operators of a plan run in the order of    *)
(* its schedule, each from the snapshot at its start to the one at its     *)
(* end, so that what they are charged is a sum without gaps.  A plan has a *)
(* scan, a scan asks for a page, and the first page asked for is a miss.   *)
(*                                                                         *)
(* What a plan returns: each operator that has run lists, each once, the   *)
(* combinations of the rows of the tables below it that satisfy their      *)
(* predicates and the conditions below it, a scan by its order of pages or *)
(* the places in its index, a join because its algorithm pairs rows of     *)
(* equal keys, each pair once.  At the root these are the rows of the      *)
(* cross product that satisfy all the query says.                          *)
(*                                                                         *)
(* What a plan reads: a page asked for is in a frame from then on until it *)
(* is evicted, and comes into one by a miss only, so that the pages asked  *)
(* for so far are no more than the misses.  An index scan asks for a page  *)
(* again only right after it asked for it, when it is still cached.        *)
(***************************************************************************)
EXTENDS QueryReport, PlanProofs

-----------------------------------------------------------------------------
(* What a scan asks the pool for.                                          *)

(* A scan of a plan, of a live table with the columns it looks at.         *)
LEMMA TableOfScan ==
  ASSUME query \in Queries, table_stats \in Catalogs, Known(query, table_stats),
         NEW t \in DOMAIN query.tables, NEW node, ScanOf(query, node, query.tables[t])
  PROVE  LET table == Tables[node.table_name]
         IN  /\ node.table_name = query.tables[t].name /\ node.table_name \in DOMAIN Tables
             /\ node.table_alias = query.tables[t].alias
             /\ IsList(table.rows) /\ table.target \in Nat
             /\ table.pages = MakePages(table.rows, table.target)
             /\ \A row \in Range(table.rows) :
                  /\ DOMAIN row = table.columns
                  /\ \A column \in DOMAIN row : row[column] \in Int /\ Hash[row[column]] \in Nat
             /\ \A p \in Range(node.predicates) : p.column.name \in table.columns
<1>1. node.table_name = query.tables[t].name /\ node.table_alias = query.tables[t].alias
  BY DEF ScanOf
<1>2. node.table_name \in DOMAIN table_stats
  BY <1>1 DEF Known
<1>3. /\ node.table_name \in DOMAIN Tables
      /\ DOMAIN table_stats[node.table_name].columns \subseteq Tables[node.table_name].columns
  BY <1>2, AnalyzedAssumption
<1>4. \A p \in Range(node.predicates) :
        p.column.name \in DOMAIN table_stats[node.table_name].columns
  BY <1>1 DEF Known, ScanOf
<1>5. LET table == Tables[node.table_name]
      IN  /\ IsList(table.rows) /\ table.target \in Nat
          /\ table.pages = MakePages(table.rows, table.target)
          /\ \A row \in Range(table.rows) :
               /\ DOMAIN row = table.columns
               /\ \A column \in DOMAIN row : row[column] \in Int /\ Hash[row[column]] \in Nat
  BY <1>3, TableAssumption, Zenon DEF IsList
<1> QED BY <1>1, <1>3, <1>4, <1>5

(* The height of an index is that of its table.                            *)
LEMMA IndexFacts ==
  ASSUME NEW name, NEW column, IndexesOn(name, column) # {}, name \in DOMAIN Tables
  PROVE  LET index == IndexOn(name, column)
             table == Tables[name]
         IN  /\ index.height \in Nat \ {0}
             /\ index.locations = IndexLocations(table, column)
<1> DEFINE index == IndexOn(name, column)
           table == Tables[name]
<1>1. index \in Indexes /\ index.table = name /\ index.column = column
  BY DEF IndexOn, IndexesOn
<1>2. index = BTreeIndex(name, table, column, index.clustered)
  BY <1>1, LiveIndexAssumption
<1>3. index.locations = IndexLocations(table, column) /\ index.height = IndexHeight(Len(table.rows))
  BY <1>2 DEF BTreeIndex
<1>4. Len(table.rows) \in Nat
  BY TableAssumption
<1>5. IndexHeight(Len(table.rows)) \in Nat \ {0}
  <2> DEFINE n == CeilDiv(Len(table.rows), EntriesPerPage)
             leaves == AtLeastOne(n)
  <2>1. EntriesPerPage \in Nat \ {0} /\ EntriesPerPage >= 2
    BY StorageAssumption
  <2>2. n \in Nat
    BY <1>4, <2>1, CeilDivBounds
  <2>3. leaves \in Nat \ {0}
    BY <2>2 DEF AtLeastOne, AtLeast
  <2> HIDE DEF n, leaves
  <2>4. CeilLog(leaves, EntriesPerPage) \in Nat
    BY <2>1, <2>3, CeilLogType
  <2>5. IndexHeight(Len(table.rows)) = IF leaves = 1 THEN 1 ELSE 1 + CeilLog(leaves, EntriesPerPage)
    BY DEF IndexHeight, leaves, n
  <2> QED BY <2>4, <2>5
<1> QED BY <1>3, <1>5

(* The locations of a value are a list of row locations.                   *)
LEMMA SearchFacts ==
  ASSUME NEW name, NEW column, IndexesOn(name, column) # {}, name \in DOMAIN Tables, NEW value
  PROVE  LET table == Tables[name]
             locations == EqualitySearch(IndexOn(name, column), value)
         IN  /\ IsList(locations)
             /\ locations = IF \E i \in DOMAIN table.rows : table.rows[i][column] = value
                            THEN LocationsOf(table.pages, column, value) ELSE <<>>
<1> DEFINE table == Tables[name]
           index == IndexOn(name, column)
<1>1. index.locations = [v \in {table.rows[i][column] : i \in DOMAIN table.rows} |->
                          LocationsOf(table.pages, column, v)]
  BY IndexFacts DEF IndexLocations
<1>2. EqualitySearch(index, value)
        = IF \E i \in DOMAIN table.rows : table.rows[i][column] = value
          THEN LocationsOf(table.pages, column, value) ELSE <<>>
  <2>1. value \in DOMAIN index.locations
          <=> \E i \in DOMAIN table.rows : table.rows[i][column] = value
    BY <1>1
  <2> HIDE DEF index
  <2> QED BY <1>1, <2>1 DEF EqualitySearch
<1>3. IsList(LocationsOf(table.pages, column, value))
  <2> DEFINE L == {l \in RowLocations(table.pages) : RowAt(table.pages, l)[column] = value}
  <2>1. IsFiniteSet(RowLocations(table.pages))
    BY TableAssumption, PagesOfTable DEF IsList
  <2>2. IsFiniteSet(L)
    BY <2>1, FS_Subset
  <2>3. Cardinality(L) \in Nat
    BY <2>2, FS_CardinalityType
  <2> HIDE DEF L
  <2>4. IsList(InScanOrder(L))
    BY <2>3, ArrangedList DEF InScanOrder
  <2> QED BY <2>4 DEF LocationsOf, L
<1>4. IsList(<<>>)
  BY DEF IsList, Range
<1> QED BY <1>2, <1>3, <1>4

LEMMA ScansRequestPages ==
  ASSUME PlanInv, Known(query, table_stats), NEW n \in DOMAIN nodes,
         NEW t \in DOMAIN query.tables, ScanOf(query, nodes[n], query.tables[t])
  PROVE  IsList(Requests(n)) /\ Requests(n) # <<>>
<1> DEFINE node == nodes[n]
           name == node.table_name
           table == Tables[name]
<1>1. /\ name \in DOMAIN Tables /\ IsList(table.rows) /\ table.target \in Nat
      /\ table.pages = MakePages(table.rows, table.target)
  BY TableOfScan DEF PlanInv
<1>2. IsScan(node) /\ name = query.tables[t].name
      /\ (node.operation = "index_scan" => IndexesOn(name, node.index_column) # {})
  BY DEF ScanOf
<1>3. CASE node.operation = "seq_scan"
  <2>1. Requests(n) = TablePages(name)
    BY <1>3 DEF Requests
  <2> DEFINE count == PageCount(table.rows, table.target)
  <2>2. DOMAIN table.pages = 1 .. count /\ count \in Nat \ {0}
    BY <1>1, PagesOfTable
  <2>3. TablePages(name) = [p \in 1 .. count |-> <<"table", name, p>>]
    BY <2>2 DEF TablePages
  <2> HIDE DEF count
  <2>4. IsList(TablePages(name)) /\ Len(TablePages(name)) = count
    BY <2>2, <2>3, ListWith
  <2> QED BY <2>1, <2>2, <2>4
<1>4. CASE node.operation = "index_scan"
  <2> DEFINE height == IndexOn(name, node.index_column).height
             up == IndexPages(node)
             across == [l \in DOMAIN Locations(node) |-> <<"table", name, Locations(node)[l][1]>>]
  <2>1. Requests(n) = up \o across
    BY <1>4 DEF Requests
  <2>2. height \in Nat \ {0}
    BY <1>1, <1>2, <1>4, IndexFacts
  <2>3. IsList(up) /\ Len(up) = height
    <3>1. up = [level \in 1 .. height |-> up[level]]
      BY DEF IndexPages
    <3> HIDE DEF up, height
    <3> QED BY <2>2, <3>1, ListWith
  <2>4. IsList(across)
    <3>1. IsList(Locations(node))
      BY <1>1, <1>2, <1>4, SearchFacts DEF Locations
    <3>2. Len(Locations(node)) \in Nat /\ DOMAIN Locations(node) = 1 .. Len(Locations(node))
      BY <3>1, ListFacts
    <3>3. across = [l \in 1 .. Len(Locations(node)) |-> across[l]]
      BY <3>2
    <3> HIDE DEF across
    <3> QED BY <3>2, <3>3, ListWith
  <2> HIDE DEF up, across, height
  <2>5. IsList(up \o across) /\ Len(up \o across) = Len(up) + Len(across) /\ Len(across) \in Nat
    BY <2>3, <2>4, ConcatLists, ListFacts
  <2> QED BY <2>1, <2>2, <2>3, <2>5
<1> QED BY <1>2, <1>3, <1>4 DEF IsScan

-----------------------------------------------------------------------------
(* The errors of the operators.                                            *)
Errors == {"KeyError", "TypeError", "ValueError"}

SelectedColumns == Range(query.group_by) \cup {i.column : i \in Range(query.select_items)}

ColumnError(input, column) ==
  IF input # <<>> /\ ~Resolves(input[1], column) THEN "KeyError" ELSE "none"

(* What a result may raise, from what looking at its columns may raise.    *)
LEMMA ErrorsAmong ==
  ASSUME query \in Queries, NEW node, NEW input, NEW All, {"TypeError", "ValueError", "none"} \subseteq All,
         \A column \in SelectedColumns : ColumnError(input, column) \in All
  PROVE  ResultError(node, input) \in All
<1> DEFINE columnError(column) ==
             IF input # <<>> /\ ~Resolves(input[1], column) THEN "KeyError" ELSE "none"
           itemError(item) ==
             IF item.aggregate = "COUNT" THEN "none"
             ELSE IF columnError(item.column) # "none" THEN columnError(item.column)
             ELSE IF item.aggregate # ""
             THEN IF input # <<>> /\ item.column.name \in TextColumns THEN "TypeError" ELSE "none"
             ELSE IF node.operation = "aggregate" /\ input = <<>> /\ query.group_by = <<>>
             THEN "ValueError" ELSE "none"
           ofGroups == [g \in DOMAIN query.group_by |-> columnError(query.group_by[g])]
           ofItems == [i \in DOMAIN query.select_items |-> itemError(query.select_items[i])]
           errors == ofGroups \o ofItems
           raised == Selected(errors, {e \in DOMAIN errors : errors[e] # "none"})
<1>1. \A column \in SelectedColumns : columnError(column) \in All
  BY DEF ColumnError
<1>2. \A item : item.column \in SelectedColumns => itemError(item) \in All
  BY <1>1
<1>3. ResultError(node, input) = IF raised = <<>> THEN "none" ELSE raised[1]
  BY DEF ResultError
<1> HIDE DEF columnError, itemError
<1>4. /\ IsList(query.group_by) /\ IsList(query.select_items)
      /\ Len(query.group_by) \in Nat /\ DOMAIN query.group_by = 1 .. Len(query.group_by)
      /\ Len(query.select_items) \in Nat /\ DOMAIN query.select_items = 1 .. Len(query.select_items)
  <2>1. IsList(query.group_by) /\ IsList(query.select_items)
    BY QueryAssumption DEF IsList
  <2> QED BY <2>1, ListFacts
<1>5. IsList(ofGroups) /\ \A x \in Range(ofGroups) : x \in All
  <2>1. ofGroups = [g \in 1 .. Len(query.group_by) |-> ofGroups[g]]
    BY <1>4
  <2>2. \A g \in DOMAIN query.group_by : query.group_by[g] \in SelectedColumns
    BY DEF SelectedColumns, Range
  <2>3. \A x \in Range(ofGroups) : x \in All
    BY <1>1, <2>2 DEF Range
  <2> HIDE DEF ofGroups
  <2> QED BY <1>4, <2>1, <2>3, ListWith
<1>6. IsList(ofItems) /\ \A x \in Range(ofItems) : x \in All
  <2>1. ofItems = [i \in 1 .. Len(query.select_items) |-> ofItems[i]]
    BY <1>4
  <2>2. \A i \in DOMAIN query.select_items : query.select_items[i].column \in SelectedColumns
    BY DEF SelectedColumns, Range
  <2>3. \A x \in Range(ofItems) : x \in All
    BY <1>2, <2>2 DEF Range
  <2> HIDE DEF ofItems
  <2> QED BY <1>4, <2>1, <2>3, ListWith
<1> HIDE DEF ofGroups, ofItems
<1>7. IsList(errors) /\ \A x \in Range(errors) : x \in All
  BY <1>5, <1>6, ConcatLists
<1> HIDE DEF errors
<1>8. IsList(raised) /\ \A x \in Range(raised) : x \in All
  <2>1. {e \in DOMAIN errors : errors[e] # "none"} \in SUBSET (DOMAIN errors)
    OBVIOUS
  <2>2. IsList(raised) /\ Range(raised) = {errors[e] : e \in {f \in DOMAIN errors : errors[f] # "none"}}
    BY <1>7, <2>1, SelectedFacts
  <2>3. \A e \in DOMAIN errors : errors[e] \in Range(errors)
    BY DEF Range
  <2> HIDE DEF raised
  <2> QED BY <1>7, <2>2, <2>3
<1> HIDE DEF raised
<1>9. raised # <<>> => raised[1] \in Range(raised)
  <2>1. Len(raised) \in Nat /\ DOMAIN raised = 1 .. Len(raised) /\ (Len(raised) = 0 => raised = <<>>)
    BY <1>8, ListFacts
  <2> QED BY <2>1 DEF Range
<1> QED BY <1>3, <1>8, <1>9

LEMMA ErrorsOfResults ==
  ASSUME query \in Queries, NEW node, NEW input
  PROVE  ResultError(node, input) \in Errors \cup {"none"}
<1> DEFINE All == Errors \cup {"none"}
<1>1. {"TypeError", "ValueError", "none"} \subseteq All
  BY DEF Errors
<1>2. \A column \in SelectedColumns : ColumnError(input, column) \in All
  BY DEF ColumnError, Errors
<1> HIDE DEF All
<1>3. ResultError(node, input) \in All
  BY <1>1, <1>2, ErrorsAmong
<1> QED BY <1>3 DEF All

LEMMA ErrorsOfOperators ==
  ASSUME query \in Queries, NEW n
  PROVE  OperatorError(n) \in Errors \cup {"none"}
<1>1. CASE IsScan(nodes[n]) \/ IsJoin(nodes[n])
  BY <1>1 DEF OperatorError, Errors
<1>2. CASE ~IsScan(nodes[n]) /\ ~IsJoin(nodes[n])
  <2>1. OperatorError(n) = ResultError(nodes[n], Left(nodes[n]))
    BY <1>2 DEF OperatorError
  <2> QED BY <2>1, ErrorsOfResults
<1> QED BY <1>1, <1>2

-----------------------------------------------------------------------------
(* The I/O of operators, added up.                                         *)
OwnIO(some) == [i \in DOMAIN some |-> some[i].buffer_misses + some[i].page_writes]
Spent(some) == SumFunctionOnSet(OwnIO(some), DOMAIN some)

LEMMA FoldedMetrics ==
  ASSUME NEW s, IsList(s)
  PROVE  FoldSeq(LAMBDA m, n : m.buffer_misses + m.page_writes + n, 0, s) = Spent(s)
<1> DEFINE D == DOMAIN s
           x(t) == CHOOSE e \in t : TRUE
           Step(g) == [t \in SUBSET D |->
                        IF t = {} THEN 0
                        ELSE s[x(t)].buffer_misses + s[x(t)].page_writes + g[t \ {x(t)}]]
<1>1. FoldSeq(LAMBDA m, n : m.buffer_misses + m.page_writes + n, 0, s) = (CHOOSE g : g = Step(g))[D]
  BY DEF FoldSeq, FoldFunction, FoldFunctionOnSet, MapThenFoldSet
<1>2. \A g : Step(g) = SumStep(OwnIO(s), D, g)
  <2> TAKE g
  <2>1. \A t \in SUBSET D : t # {} =>
          OwnIO(s)[x(t)] = s[x(t)].buffer_misses + s[x(t)].page_writes
    <3>1. \A t \in SUBSET D : t # {} => x(t) \in D
      OBVIOUS
    <3> HIDE DEF x
    <3> QED BY <3>1 DEF OwnIO
  <2>2. SumStep(OwnIO(s), D, g)
          = [t \in SUBSET D |-> IF t = {} THEN 0 ELSE OwnIO(s)[x(t)] + g[t \ {x(t)}]]
    BY DEF SumStep
  <2> HIDE DEF x, D
  <2> QED BY <2>1, <2>2
<1>3. IsFiniteSet(D)
  BY ListFacts, FS_Interval
<1> HIDE DEF Step, D
<1>4. PICK g : g = SumStep(OwnIO(s), D, g)
  BY <1>3, SumExists
<1> DEFINE a == CHOOSE h : h = Step(h)
           b == CHOOSE h : h = SumStep(OwnIO(s), D, h)
<1>5. a = Step(a)
  BY <1>2, <1>4
<1>6. b = SumStep(OwnIO(s), D, b)
  BY <1>4
<1> HIDE DEF a, b
<1>7. a[D] = b[D]
  <2>1. a = SumStep(OwnIO(s), D, a)
    BY <1>2, <1>5
  <2> QED BY <1>3, <1>6, <2>1, SumsAgree
<1>8. Spent(s) = b[D]
  BY SumIs DEF Spent, b, D
<1> QED BY <1>1, <1>7, <1>8 DEF a

LEMMA SpentWith ==
  ASSUME NEW s, IsList(s),
         \A i \in DOMAIN s : s[i].buffer_misses \in Int /\ s[i].page_writes \in Int,
         NEW e, e.buffer_misses \in Int, e.page_writes \in Int
  PROVE  Spent(Append(s, e)) = Spent(s) + (e.buffer_misses + e.page_writes)
<1> DEFINE u == Append(s, e)
           f == OwnIO(u)
           n == Len(s)
<1>1. /\ n \in Nat /\ DOMAIN s = 1 .. n /\ DOMAIN u = 1 .. n + 1
      /\ \A i \in 1 .. n : u[i] = s[i]
      /\ u[n + 1] = e
  BY AppendList, ListFacts
<1> HIDE DEF u, n
<1>2. \A i \in 1 .. n + 1 : f[i] = u[i].buffer_misses + u[i].page_writes
  BY <1>1 DEF OwnIO
<1>3. \A i \in 1 .. n : f[i] \in Int /\ OwnIO(s)[i] = f[i]
  <2> TAKE i \in 1 .. n
  <2>1. i \in 1 .. n + 1 /\ i \in DOMAIN s /\ u[i] = s[i]
    BY <1>1
  <2> HIDE DEF f
  <2> QED BY <1>2, <2>1 DEF OwnIO
<1>4. f[n + 1] \in Int /\ f[n + 1] = e.buffer_misses + e.page_writes
  <2>1. n + 1 \in 1 .. n + 1
    BY <1>1
  <2> HIDE DEF f
  <2> QED BY <1>1, <1>2, <2>1
<1> HIDE DEF f
<1>5. \A i \in 1 .. n + 1 : f[i] \in Int
  <2>1. \A i \in 1 .. n + 1 : i \in 1 .. n \/ i = n + 1
    BY <1>1
  <2> QED BY <1>3, <1>4, <2>1
<1>6. SumFunctionOnSet(f, 1 .. n + 1) = SumFunctionOnSet(f, 1 .. n) + f[n + 1]
  BY <1>1, <1>5, SumUpTo
<1>7. SumFunctionOnSet(OwnIO(s), 1 .. n) = SumFunctionOnSet(f, 1 .. n)
  <2>1. IsFiniteSet(1 .. n)
    BY <1>1, FS_Interval
  <2> QED BY <1>3, <2>1, SumsEqual
<1> QED BY <1>1, <1>4, <1>6, <1>7 DEF Spent, f, u

LEMMA SpentNothing == Spent(<<>>) = 0
<1>1. DOMAIN <<>> = {}
  OBVIOUS
<1> QED BY <1>1, SumEmpty DEF Spent

-----------------------------------------------------------------------------
(* The invariant of a call.  First the plans: there are none before the    *)
(* statement is parsed.                                                    *)
CallInv ==
  /\ call \in Calls
  /\ stage \in {"called", "SQLParseError"} => NothingPlanned
  /\ stage \notin {"called", "SQLParseError"} => PlanInv

(* Then the plans executed: the first ones of those to execute, each with  *)
(* the I/O of at least one page, and the next one at work.                 *)
Measured ==
  /\ IsList(executed) /\ Len(executed) <= Len(PlansToExecute)
  /\ \A e \in DOMAIN executed :
       /\ executed[e].io \in Nat \ {0}
       /\ executed[e] = [plan |-> PlansToExecute[e], io |-> executed[e].io]

MeasuredInv ==
  /\ stage \in {"called", "planning"} => executed = <<>>
  /\ stage = "executing" =>
       /\ Measured /\ Len(executed) < Len(PlansToExecute)
       /\ root = PlansToExecute[Len(executed) + 1]
  /\ stage = "reported" =>
       /\ Measured /\ Len(executed) = Len(PlansToExecute) /\ executed # <<>>
       /\ report = MakeReport(executed)

(* The operators of the plan run in order of the schedule.                 *)
ScheduleInv ==
  /\ IsList(all_metrics) /\ Len(all_metrics) <= Len(Schedule)
  /\ \A i \in DOMAIN all_metrics : all_metrics[i].node = Schedule[i]
  /\ current = 0 => agenda = <<>>
  /\ current # 0 => Len(all_metrics) < Len(Schedule) /\ current = Schedule[Len(all_metrics) + 1]
  /\ execution \in Errors \cup {"running", "done"}
  /\ execution = "done" => current = 0 /\ Len(all_metrics) = Len(Schedule)

(* Every page read or written so far is in the metrics of an operator that *)
(* is done, or was after the snapshot of the one at work.                  *)
CountersInv ==
  /\ metrics \in Pool!IOMetrics /\ snapshot[1] \in Int /\ snapshot[2] \in Int
  /\ \A i \in DOMAIN all_metrics :
       all_metrics[i].buffer_misses \in Int /\ all_metrics[i].page_writes \in Int
  /\ Spent(all_metrics) = IF current = 0 THEN Pool!ActualIO(metrics) ELSE snapshot[1] + snapshot[2]

(* The first page a plan asks for is a miss.                               *)
ColdInv ==
  Pool!ActualIO(metrics) = 0 =>
    /\ frames = <<>>
    /\ \A i \in DOMAIN all_metrics : ~IsScan(nodes[Schedule[i]])
    /\ current # 0 /\ IsScan(nodes[current]) => agenda # <<>>

RunInv == ScheduleInv /\ CountersInv /\ ColdInv

ReportInv == CallInv /\ MeasuredInv /\ (stage = "executing" => RunInv)

-----------------------------------------------------------------------------
LEMMA PlansAreCandidates ==
  ASSUME PlanInv
  PROVE  /\ IsList(PlansToExecute) /\ Len(PlansToExecute) \in Nat
         /\ \A e \in 1 .. Len(PlansToExecute) :
              /\ PlansToExecute[e] \in Range(candidates)
              /\ IsPlan(query, table_stats, nodes, PlansToExecute[e])
         /\ call.execute_all => PlansToExecute = candidates
<1> DEFINE plans == PlansToExecute
<1>1. /\ IsList(candidates) /\ Len(candidates) \in Nat /\ DOMAIN candidates = 1 .. Len(candidates)
      /\ \A e \in 1 .. Len(candidates) : candidates[e] \in Range(candidates)
      /\ Len(candidates) = 0 => candidates = <<>>
  BY ListFacts DEF PlanInv
<1>2. IsList(plans) /\ Len(plans) \in Nat
      /\ \A e \in 1 .. Len(plans) : plans[e] \in Range(candidates)
  <2>1. CASE call.execute_all \/ candidates = <<>>
    BY <1>1, <2>1 DEF PlansToExecute
  <2>2. CASE ~(call.execute_all \/ candidates = <<>>)
    <3>1. plans = <<candidates[1]>> /\ 1 \in 1 .. Len(candidates)
      BY <1>1, <2>2 DEF PlansToExecute
    <3>2. IsList(<<candidates[1]>>) /\ Len(<<candidates[1]>>) = 1
      BY ChildrenLists
    <3> QED BY <1>1, <3>1, <3>2
  <2> QED BY <2>1, <2>2
<1>3. call.execute_all => plans = candidates
  BY DEF PlansToExecute
<1> QED BY <1>2, <1>3 DEF PlanInv

(* The plan at work.                                                       *)
LEMMA ScheduleFacts ==
  ASSUME PlanInv, IsPlan(query, table_stats, nodes, root)
  PROVE  /\ IsList(Schedule) /\ Len(Schedule) \in Nat \ {0} /\ DOMAIN Schedule = 1 .. Len(Schedule)
         /\ \A i \in 1 .. Len(Schedule) : Schedule[i] \in DOMAIN nodes /\ Schedule[i] # 0
         /\ \A i \in 1 .. Len(Schedule) : IsScan(nodes[Schedule[i]]) =>
              \E t \in DOMAIN query.tables : ScanOf(query, nodes[Schedule[i]], query.tables[t])
         /\ \E i \in 1 .. Len(Schedule) : IsScan(nodes[Schedule[i]])
<1> DEFINE m == Len(query.tables)
<1>1. WellFormed(nodes) /\ root \in DOMAIN nodes /\ m \in Nat \ {0} /\ DOMAIN query.tables = 1 .. m
  BY QueryFacts DEF PlanInv, IsPlan
<1>2. PICK order, access, base : LeftDeep(query, nodes, root, order, access, base)
  BY DEF IsPlan
<1>3. /\ IsList(Schedule) /\ Len(Schedule) \in Nat \ {0}
      /\ Range(Schedule) = Tree(nodes, root)
  BY <1>1, PostOrderFacts DEF Schedule, Tree
<1>4. /\ DOMAIN Schedule = 1 .. Len(Schedule)
      /\ Range(Schedule) = {Schedule[i] : i \in 1 .. Len(Schedule)}
  BY <1>3, ListFacts
<1>5. Tree(nodes, root) = {access[s] : s \in 1 .. m} \cup (base + 1 .. base + m)
  BY <1>1, <1>2, TreeOfPlan
<1>6. /\ base \in Nat /\ root = base + m /\ 1 .. base + m \subseteq DOMAIN nodes
      /\ \A t \in 1 .. m : access[t] \in 1 .. base /\ IsScan(nodes[access[t]])
      /\ \A j \in 1 .. m - 1 : IsJoin(nodes[base + j])
      /\ ~IsScan(nodes[root])
  <2>1. PlanShape(nodes, root, m, access, base)
    BY <1>1, <1>2, PlanFacts
  <2> QED BY <2>1 DEF PlanShape
<1>7. order \in [1 .. m -> 1 .. m] /\ \A t \in 1 .. m : ScanOf(query, nodes[access[t]], query.tables[order[t]])
  BY <1>2 DEF LeftDeep
<1> HIDE DEF m
<1>8. ASSUME NEW n \in Tree(nodes, root)
      PROVE  /\ n \in DOMAIN nodes /\ n # 0
             /\ IsScan(nodes[n]) =>
                  \E t \in DOMAIN query.tables : ScanOf(query, nodes[n], query.tables[t])
  <2>1. CASE n \in {access[s] : s \in 1 .. m}
    <3>1. PICK s \in 1 .. m : n = access[s]
      BY <2>1
    <3>2. n \in 1 .. base /\ n \in 1 .. base + m /\ n # 0
      BY <1>1, <1>6, <3>1
    <3>3. ScanOf(query, nodes[n], query.tables[order[s]]) /\ order[s] \in DOMAIN query.tables
      BY <1>1, <1>7, <3>1
    <3> QED BY <1>6, <3>2, <3>3
  <2>2. CASE n \in base + 1 .. base + m
    <3>1. n \in 1 .. base + m /\ n # 0
      BY <1>1, <1>6, <2>2
    <3>2. ~IsScan(nodes[n])
      <4>1. CASE n = base + m
        BY <1>6, <4>1
      <4>2. CASE n # base + m
        <5>1. n - base \in 1 .. m - 1 /\ base + (n - base) = n
          BY <1>1, <1>6, <2>2, <4>2
        <5>2. IsJoin(nodes[n])
          BY <1>6, <5>1
        <5> QED BY <5>2 DEF IsJoin, IsScan
      <4> QED BY <4>1, <4>2
    <3> QED BY <1>6, <3>1, <3>2
  <2> QED BY <1>5, <2>1, <2>2
<1>9. \A i \in 1 .. Len(Schedule) : Schedule[i] \in Tree(nodes, root)
  BY <1>3, <1>4
<1>10. \E i \in 1 .. Len(Schedule) : IsScan(nodes[Schedule[i]])
  <2>1. 1 \in 1 .. m
    BY <1>1
  <2>2. access[1] \in Tree(nodes, root) /\ IsScan(nodes[access[1]])
    BY <1>5, <1>6, <2>1
  <2> QED BY <1>3, <1>4, <2>2
<1> QED BY <1>3, <1>4, <1>8, <1>9, <1>10

-----------------------------------------------------------------------------
(* The steps of a plan.                                                    *)
LEMMA PlanStarts ==
  ASSUME PlanInv, NEW plan, IsPlan(query, table_stats, nodes, plan), StartPlan(plan),
         UNCHANGED planVars
  PROVE  RunInv'
<1>1. /\ metrics' = Pool!ZeroMetrics /\ root' = plan /\ current' = 0 /\ agenda' = <<>>
      /\ snapshot' = <<0, 0>> /\ all_metrics' = <<>> /\ execution' = "running" /\ frames' = <<>>
      /\ nodes' = nodes
  BY DEF StartPlan, ColdPool, planVars
<1>2. plan \in DOMAIN nodes /\ WellFormed(nodes)
  BY DEF IsPlan, PlanInv
<1>3. Schedule' = PostOrder(nodes, plan)
  BY <1>1 DEF Schedule
<1>4. Len(Schedule') \in Nat \ {0}
  BY <1>2, <1>3, PostOrderFacts
<1>5. ScheduleInv'
  BY <1>1, <1>4, EmptyList DEF ScheduleInv
<1>6. CountersInv'
  BY <1>1, EmptyList, SpentNothing DEF CountersInv, Pool!ZeroMetrics, Pool!IOMetrics, Pool!ActualIO
<1>7. ColdInv'
  BY <1>1, EmptyList DEF ColdInv
<1> QED BY <1>5, <1>6, <1>7 DEF RunInv

LEMMA OperatorStarts ==
  ASSUME PlanInv, IsPlan(query, table_stats, nodes, root), RunInv, StartOperator,
         UNCHANGED planVars
  PROVE  RunInv'
<1> DEFINE n == Schedule[Len(all_metrics) + 1]
<1>1. /\ execution = "running" /\ current = 0 /\ Len(all_metrics) < Len(Schedule)
      /\ frames' = frames /\ metrics' = metrics /\ root' = root /\ all_metrics' = all_metrics
      /\ nodes' = nodes
  BY DEF StartOperator, poolVars, planVars
<1>2. /\ IsList(all_metrics) /\ Len(all_metrics) \in Nat /\ DOMAIN all_metrics = 1 .. Len(all_metrics)
      /\ Len(all_metrics) <= Len(Schedule)
      /\ \A i \in DOMAIN all_metrics : all_metrics[i].node = Schedule[i]
      /\ agenda = <<>>
  BY <1>1, ListFacts DEF RunInv, ScheduleInv
<1>3. Schedule' = Schedule
  BY <1>1 DEF Schedule
<1>4. /\ Len(Schedule) \in Nat /\ n \in DOMAIN nodes /\ n # 0
      /\ IsScan(nodes[n]) => \E t \in DOMAIN query.tables : ScanOf(query, nodes[n], query.tables[t])
  <2>1. Len(all_metrics) + 1 \in 1 .. Len(Schedule)
    BY <1>1, <1>2, ScheduleFacts
  <2> QED BY <2>1, ScheduleFacts
<1>5. /\ metrics \in Pool!IOMetrics
      /\ \A i \in DOMAIN all_metrics :
           all_metrics[i].buffer_misses \in Int /\ all_metrics[i].page_writes \in Int
      /\ Spent(all_metrics) = Pool!ActualIO(metrics)
      /\ snapshot[1] \in Int /\ snapshot[2] \in Int
  BY <1>1 DEF RunInv, CountersInv
<1> HIDE DEF n
<1>6. CASE OperatorError(n) = "none"
  <2>1. /\ current' = n /\ agenda' = Requests(n) /\ snapshot' = Snapshot(n)
        /\ execution' = execution
    BY <1>6 DEF StartOperator, n
  <2>2. ScheduleInv'
    BY <1>1, <1>2, <1>3, <1>4, <2>1 DEF ScheduleInv, n
  <2>3. CountersInv'
    <3>1. /\ snapshot'[1] = metrics.buffer_misses /\ snapshot'[2] = metrics.page_writes
          /\ metrics.buffer_misses \in Nat /\ metrics.page_writes \in Nat
      BY <1>5, <2>1 DEF Snapshot, Pool!IOMetrics
    <3> QED BY <1>1, <1>4, <1>5, <2>1, <3>1 DEF CountersInv, Pool!ActualIO
  <2>4. ColdInv'
    <3>1. IsScan(nodes[n]) => Requests(n) # <<>>
      BY <1>4, ScansRequestPages DEF IsPlan
    <3>2. Pool!ActualIO(metrics) = 0 =>
            /\ frames = <<>>
            /\ \A i \in DOMAIN all_metrics : ~IsScan(nodes[Schedule[i]])
      BY DEF RunInv, ColdInv
    <3> QED BY <1>1, <1>3, <2>1, <3>1, <3>2 DEF ColdInv
  <2> QED BY <2>2, <2>3, <2>4 DEF RunInv
<1>7. CASE OperatorError(n) # "none"
  <2>1. /\ current' = 0 /\ agenda' = <<>> /\ snapshot' = snapshot
        /\ execution' = OperatorError(n)
    BY <1>1, <1>2, <1>7 DEF StartOperator, n
  <2>2. OperatorError(n) \in Errors
    BY <1>7, ErrorsOfOperators DEF PlanInv
  <2>3. ScheduleInv'
    BY <1>1, <1>2, <1>3, <2>1, <2>2 DEF ScheduleInv, Errors
  <2>4. CountersInv'
    BY <1>1, <1>5, <2>1 DEF CountersInv
  <2>5. ColdInv'
    BY <1>1, <1>3, <2>1 DEF RunInv, ColdInv
  <2> QED BY <2>3, <2>4, <2>5 DEF RunInv
<1> QED BY <1>6, <1>7

(* One more of two counters.                                               *)
LEMMA CountedUp ==
  ASSUME NEW m \in Pool!IOMetrics
  PROVE  /\ m.buffer_misses \in Nat /\ m.page_writes \in Nat
         /\ LET n == [m EXCEPT !.page_requests = @ + 1, !.buffer_hits = @ + 1]
            IN  /\ n \in Pool!IOMetrics
                /\ n.buffer_misses = m.buffer_misses /\ n.page_writes = m.page_writes
         /\ LET n == [m EXCEPT !.page_requests = @ + 1, !.buffer_misses = @ + 1]
            IN  /\ n \in Pool!IOMetrics
                /\ n.buffer_misses = m.buffer_misses + 1 /\ n.page_writes = m.page_writes
         /\ LET n == [m EXCEPT !.page_writes = @ + 1]
            IN  /\ n \in Pool!IOMetrics
                /\ n.buffer_misses = m.buffer_misses /\ n.page_writes = m.page_writes + 1
<1> USE DEF Pool!IOMetrics
<1> DEFINE r == [m EXCEPT !.page_requests = @ + 1]
<1>1. /\ r \in Pool!IOMetrics /\ r.buffer_misses = m.buffer_misses
      /\ r.page_writes = m.page_writes
  OBVIOUS
<1>2. /\ [m EXCEPT !.page_requests = @ + 1, !.buffer_hits = @ + 1] = [r EXCEPT !.buffer_hits = @ + 1]
      /\ [m EXCEPT !.page_requests = @ + 1, !.buffer_misses = @ + 1] = [r EXCEPT !.buffer_misses = @ + 1]
  OBVIOUS
<1> HIDE DEF r
<1>3. LET n == [r EXCEPT !.buffer_hits = @ + 1]
      IN  /\ n \in Pool!IOMetrics
          /\ n.buffer_misses = r.buffer_misses /\ n.page_writes = r.page_writes
  BY <1>1
<1>4. LET n == [r EXCEPT !.buffer_misses = @ + 1]
      IN  /\ n \in Pool!IOMetrics
          /\ n.buffer_misses = r.buffer_misses + 1 /\ n.page_writes = r.page_writes
  BY <1>1
<1>5. LET n == [m EXCEPT !.page_writes = @ + 1]
      IN  /\ n \in Pool!IOMetrics
          /\ n.buffer_misses = m.buffer_misses /\ n.page_writes = m.page_writes + 1
  OBVIOUS
<1>6. m.buffer_misses \in Nat /\ m.page_writes \in Nat
  OBVIOUS
<1> HIDE DEF Pool!IOMetrics
<1> QED BY <1>1, <1>2, <1>3, <1>4, <1>5, <1>6

LEMMA PageRequested ==
  ASSUME RunInv, RequestPage, UNCHANGED planVars
  PROVE  RunInv'
<1>1. /\ execution = "running" /\ agenda # <<>> /\ root' = root /\ nodes' = nodes
      /\ current' = current /\ snapshot' = snapshot /\ all_metrics' = all_metrics
      /\ execution' = execution
  BY DEF RequestPage, planVars
<1>2. Schedule' = Schedule
  BY <1>1 DEF Schedule
<1>3. current # 0
  BY <1>1 DEF RunInv, ScheduleInv
<1>4. ScheduleInv'
  BY <1>1, <1>2, <1>3 DEF RunInv, ScheduleInv
<1>5. metrics \in Pool!IOMetrics
  BY DEF RunInv, CountersInv
<1>6. metrics' \in Pool!IOMetrics /\ (Pool!ActualIO(metrics') = 0 => FALSE)
  <2>1. CASE Pool!WriteTemporaryPage
    <3>1. metrics' = [metrics EXCEPT !.page_writes = @ + 1]
      BY <2>1, Zenon DEF Pool!WriteTemporaryPage
    <3>2. /\ metrics' \in Pool!IOMetrics /\ metrics.buffer_misses \in Nat /\ metrics.page_writes \in Nat
          /\ metrics'.buffer_misses = metrics.buffer_misses
          /\ metrics'.page_writes = metrics.page_writes + 1
      BY <1>5, <3>1, CountedUp
    <3> QED BY <3>2 DEF Pool!ActualIO
  <2>2. CASE Pool!Miss(agenda[1], agenda[1])
    <3>1. metrics' = [metrics EXCEPT !.page_requests = @ + 1, !.buffer_misses = @ + 1]
      BY <2>2, Zenon DEF Pool!Miss
    <3>2. /\ metrics' \in Pool!IOMetrics /\ metrics.buffer_misses \in Nat /\ metrics.page_writes \in Nat
          /\ metrics'.buffer_misses = metrics.buffer_misses + 1
          /\ metrics'.page_writes = metrics.page_writes
      BY <1>5, <3>1, CountedUp
    <3> QED BY <3>2 DEF Pool!ActualIO
  <2>3. CASE Pool!Hit(agenda[1])
    <3>1. metrics' = [metrics EXCEPT !.page_requests = @ + 1, !.buffer_hits = @ + 1]
      BY <2>3 DEF Pool!Hit
    <3>2. frames # <<>>
      BY <2>3 DEF Pool!Hit, Pool!Range
    <3>3. Pool!ActualIO(metrics) # 0
      BY <3>2, Zenon DEF RunInv, ColdInv
    <3>4. /\ metrics' \in Pool!IOMetrics /\ metrics.buffer_misses \in Nat /\ metrics.page_writes \in Nat
          /\ metrics'.buffer_misses = metrics.buffer_misses
          /\ metrics'.page_writes = metrics.page_writes
      BY <1>5, <3>1, CountedUp
    <3> QED BY <3>4, <3>3 DEF Pool!ActualIO
  <2> QED BY <2>1, <2>2, <2>3 DEF RequestPage, Pool!Fetch
<1>7. CountersInv'
  BY <1>1, <1>3, <1>6 DEF RunInv, CountersInv
<1>8. ColdInv'
  BY <1>6 DEF ColdInv
<1> QED BY <1>4, <1>7, <1>8 DEF RunInv

LEMMA OperatorFinishes ==
  ASSUME PlanInv, IsPlan(query, table_stats, nodes, root), RunInv, FinishOperator,
         UNCHANGED planVars
  PROVE  RunInv'
<1> DEFINE e == [node          |-> current,
                 rows_out      |-> Len(rows[current]),
                 buffer_misses |-> metrics.buffer_misses - snapshot[1],
                 page_writes   |-> metrics.page_writes - snapshot[2]]
           k == Len(all_metrics)
<1>1. /\ execution = "running" /\ current # 0 /\ agenda = <<>> /\ root' = root /\ nodes' = nodes
      /\ current' = 0 /\ snapshot' = snapshot /\ all_metrics' = Append(all_metrics, e)
      /\ execution' = execution /\ agenda' = agenda /\ frames' = frames /\ metrics' = metrics
  BY DEF FinishOperator, planVars, poolVars
<1>2. Schedule' = Schedule
  BY <1>1 DEF Schedule
<1>3. /\ IsList(all_metrics) /\ k \in Nat /\ DOMAIN all_metrics = 1 .. k
      /\ \A i \in DOMAIN all_metrics : all_metrics[i].node = Schedule[i]
      /\ k < Len(Schedule) /\ current = Schedule[k + 1] /\ Len(Schedule) \in Nat
  BY <1>1, ListFacts, ScheduleFacts DEF RunInv, ScheduleInv
<1>4. /\ IsList(all_metrics') /\ Len(all_metrics') = k + 1 /\ DOMAIN all_metrics' = 1 .. k + 1
      /\ \A i \in 1 .. k : all_metrics'[i] = all_metrics[i]
      /\ all_metrics'[k + 1] = e
  <2> HIDE DEF e
  <2> QED BY <1>1, <1>3, AppendList
<1>5. \A i \in 1 .. k + 1 : i \in 1 .. k \/ i = k + 1
  BY <1>3
<1>6. /\ e.node = current
      /\ e.buffer_misses = metrics.buffer_misses - snapshot[1]
      /\ e.page_writes = metrics.page_writes - snapshot[2]
  OBVIOUS
<1>7. /\ metrics \in Pool!IOMetrics /\ snapshot[1] \in Int /\ snapshot[2] \in Int
      /\ \A i \in DOMAIN all_metrics :
           all_metrics[i].buffer_misses \in Int /\ all_metrics[i].page_writes \in Int
      /\ Spent(all_metrics) = snapshot[1] + snapshot[2]
  BY <1>1 DEF RunInv, CountersInv
<1>8. metrics.buffer_misses \in Nat /\ metrics.page_writes \in Nat
  BY <1>7 DEF Pool!IOMetrics
<1> HIDE DEF e, k
<1>9. ScheduleInv'
  <2>1. ASSUME NEW i \in DOMAIN all_metrics'  PROVE all_metrics'[i].node = Schedule[i]
    BY <1>3, <1>4, <1>5, <1>6
  <2>2. IsList(all_metrics') /\ Len(all_metrics') <= Len(Schedule)
    BY <1>3, <1>4
  <2> QED BY <1>1, <1>2, <2>1, <2>2 DEF ScheduleInv
<1>10. CountersInv'
  <2>1. e.buffer_misses \in Int /\ e.page_writes \in Int
    BY <1>6, <1>7, <1>8
  <2>2. Spent(all_metrics') = Spent(all_metrics) + (e.buffer_misses + e.page_writes)
    BY <1>1, <1>3, <1>7, <2>1, SpentWith
  <2>3. Spent(all_metrics') = Pool!ActualIO(metrics')
    BY <1>1, <1>6, <1>7, <1>8, <2>2 DEF Pool!ActualIO
  <2>4. \A i \in DOMAIN all_metrics' :
          all_metrics'[i].buffer_misses \in Int /\ all_metrics'[i].page_writes \in Int
    BY <1>3, <1>4, <1>5, <1>7, <2>1
  <2> QED BY <1>1, <1>7, <2>3, <2>4 DEF CountersInv
<1>11. ColdInv'
  <2> SUFFICES ASSUME Pool!ActualIO(metrics) = 0
               PROVE  /\ frames = <<>>
                      /\ \A i \in DOMAIN all_metrics' : ~IsScan(nodes[Schedule[i]])
    BY <1>1, <1>2 DEF ColdInv
  <2>1. /\ frames = <<>>
        /\ \A i \in DOMAIN all_metrics : ~IsScan(nodes[Schedule[i]])
        /\ ~IsScan(nodes[current])
    BY <1>1 DEF RunInv, ColdInv
  <2> QED BY <1>3, <1>4, <1>5, <2>1
<1> QED BY <1>9, <1>10, <1>11 DEF RunInv

LEMMA PlanFinishes ==
  ASSUME RunInv, FinishPlan, UNCHANGED planVars
  PROVE  RunInv'
<1>1. /\ current = 0 /\ Len(all_metrics) = Len(Schedule) /\ execution' = "done"
      /\ frames' = frames /\ metrics' = metrics /\ root' = root /\ current' = current
      /\ agenda' = agenda /\ snapshot' = snapshot /\ all_metrics' = all_metrics
      /\ nodes' = nodes
  BY DEF FinishPlan, planVars, poolVars
<1>2. Schedule' = Schedule
  BY <1>1 DEF Schedule
<1> QED BY <1>1, <1>2 DEF RunInv, ScheduleInv, CountersInv, ColdInv

-----------------------------------------------------------------------------
(* The steps of a call.                                                    *)

LEMMA PlansKept ==
  ASSUME UNCHANGED <<planVars, call>>
  PROVE  PlansToExecute' = PlansToExecute /\ (PlanInv => PlanInv')
<1>1. candidates' = candidates /\ call' = call /\ UNCHANGED planVars
  BY DEF planVars
<1>2. PlansToExecute' = PlansToExecute
  BY <1>1 DEF PlansToExecute
<1>3. PlanInv => PlanInv'
  BY <1>1, PlanInvNext
<1> QED BY <1>2, <1>3

LEMMA StatementParsed ==
  ASSUME ReportInv, ParseStatement
  PROVE  ReportInv'
<1>1. /\ stage = "called" /\ call \in Calls /\ NothingPlanned /\ executed = <<>>
      /\ call' = call /\ executed' = executed
      /\ table_stats' = table_stats /\ nodes' = nodes /\ trees' = trees
      /\ candidates' = candidates /\ planning' = planning
  BY DEF ParseStatement, ReportInv, CallInv, MeasuredInv
<1>2. NothingPlanned'
  BY <1>1 DEF NothingPlanned
<1>3. CASE ~Parser!Accepts(call.statement)
  <2>1. stage' = "SQLParseError"
    BY <1>3 DEF ParseStatement
  <2> QED BY <1>1, <1>2, <2>1 DEF ReportInv, CallInv, MeasuredInv
<1>4. CASE Parser!Accepts(call.statement)
  <2>1. /\ stage' \in {"planning", "ValueError"}
        /\ query' = Parser!ParseSql(call.statement) /\ orders' = TableOrders(query'.tables)
    BY <1>4 DEF ParseStatement
  <2>2. query' \in Queries
    BY <1>1, <1>4, <2>1, CallAssumption
  <2>3. WellFormed(<<>>)
    BY EmptyList DEF WellFormed
  <2>4. PlanInv'
    BY <1>2, <2>1, <2>2, <2>3, EmptyList DEF PlanInv, NothingPlanned
  <2> QED BY <1>1, <2>1, <2>4 DEF ReportInv, CallInv, MeasuredInv
<1> QED BY <1>3, <1>4

LEMMA PlansGenerated ==
  ASSUME ReportInv, Generate
  PROVE  ReportInv'
<1>1. /\ stage = "planning" /\ PlanNext /\ stage' = stage /\ call' = call /\ executed' = executed
  BY DEF Generate, reportVars
<1>2. PlanInv /\ executed = <<>> /\ call \in Calls
  BY <1>1 DEF ReportInv, CallInv, MeasuredInv
<1>3. PlanInv'
  BY <1>1, <1>2, PlanInvNext
<1> QED BY <1>1, <1>2, <1>3 DEF ReportInv, CallInv, MeasuredInv

LEMMA ExecutionBegins ==
  ASSUME ReportInv, Execute
  PROVE  ReportInv'
<1>1. /\ stage = "planning" /\ UNCHANGED planVars /\ call' = call /\ executed' = executed
  BY DEF Execute
<1>2. PlanInv /\ executed = <<>> /\ call \in Calls
  BY <1>1 DEF ReportInv, CallInv, MeasuredInv
<1>3. PlanInv' /\ PlansToExecute' = PlansToExecute
  BY <1>1, <1>2, PlansKept
<1>4. CASE stage' \in {"KeyError", "no candidate plans"}
  BY <1>1, <1>2, <1>3, <1>4 DEF ReportInv, CallInv, MeasuredInv
<1>5. CASE PlansToExecute # <<>> /\ stage' = "executing" /\ StartPlan(PlansToExecute[1])
  <2>1. Len(PlansToExecute) \in Nat /\ Len(PlansToExecute) # 0
    BY <1>2, <1>5, PlansAreCandidates, ListFacts
  <2>2. IsPlan(query, table_stats, nodes, PlansToExecute[1])
    BY <1>2, <2>1, PlansAreCandidates
  <2>3. RunInv'
    BY <1>1, <1>2, <1>5, <2>2, PlanStarts
  <2>4. root' = PlansToExecute[1]
    BY <1>5 DEF StartPlan
  <2>5. MeasuredInv'
    BY <1>1, <1>2, <1>3, <1>5, <2>1, <2>4, EmptyList DEF MeasuredInv, Measured
  <2> QED BY <1>1, <1>2, <1>3, <1>5, <2>3, <2>5 DEF ReportInv, CallInv
<1> QED BY <1>4, <1>5 DEF Execute

(* While a plan is executed.                                               *)
LEMMA ExecutedPlan ==
  ASSUME ReportInv, stage = "executing"
  PROVE  /\ PlanInv /\ RunInv /\ call \in Calls /\ Measured
         /\ Len(executed) \in Nat /\ Len(executed) < Len(PlansToExecute)
         /\ root = PlansToExecute[Len(executed) + 1]
         /\ IsPlan(query, table_stats, nodes, root)
<1>1. /\ PlanInv /\ RunInv /\ call \in Calls /\ Measured /\ Len(executed) < Len(PlansToExecute)
      /\ root = PlansToExecute[Len(executed) + 1]
  BY DEF ReportInv, CallInv, MeasuredInv
<1>2. Len(executed) \in Nat
  BY <1>1, ListFacts DEF Measured
<1>3. Len(PlansToExecute) \in Nat /\ Len(executed) + 1 \in 1 .. Len(PlansToExecute)
  BY <1>1, <1>2, PlansAreCandidates
<1>4. IsPlan(query, table_stats, nodes, root)
  BY <1>1, <1>3, PlansAreCandidates
<1> QED BY <1>1, <1>2, <1>4

LEMMA PlanEvaluated ==
  ASSUME ReportInv, Evaluate
  PROVE  ReportInv'
<1>1. /\ stage = "executing" /\ ExecNext /\ UNCHANGED planVars
      /\ stage' = stage /\ call' = call /\ executed' = executed /\ report' = report
  BY DEF Evaluate, reportVars
<1>2. /\ PlanInv /\ RunInv /\ call \in Calls /\ IsPlan(query, table_stats, nodes, root)
  BY <1>1, ExecutedPlan
<1>3. PlanInv' /\ PlansToExecute' = PlansToExecute
  BY <1>1, <1>2, PlansKept
<1>4. root' = root
  BY <1>1 DEF ExecNext, StartOperator, RequestPage, FinishOperator, FinishPlan
<1>5. RunInv'
  BY <1>1, <1>2, OperatorStarts, PageRequested, OperatorFinishes, PlanFinishes DEF ExecNext
<1>6. MeasuredInv'
  BY <1>1, <1>3, <1>4 DEF ReportInv, MeasuredInv, Measured
<1> QED BY <1>1, <1>2, <1>3, <1>5, <1>6 DEF ReportInv, CallInv

(* A plan that has returned has read a page.                               *)
LEMMA PlansReadPages ==
  ASSUME PlanInv, RunInv, IsPlan(query, table_stats, nodes, root), execution = "done"
  PROVE  Pool!ActualIO(metrics) \in Nat \ {0}
<1>1. current = 0 /\ Len(all_metrics) = Len(Schedule) /\ IsList(all_metrics)
  BY DEF RunInv, ScheduleInv
<1>2. DOMAIN all_metrics = 1 .. Len(Schedule)
  BY <1>1, ListFacts
<1>3. PICK i \in 1 .. Len(Schedule) : IsScan(nodes[Schedule[i]])
  BY ScheduleFacts
<1>4. Pool!ActualIO(metrics) # 0
  BY <1>2, <1>3 DEF RunInv, ColdInv
<1>5. metrics \in Pool!IOMetrics
  BY Zenon DEF RunInv, CountersInv
<1>6. metrics.buffer_misses \in Nat /\ metrics.page_writes \in Nat
  BY <1>5, CountedUp
<1> QED BY <1>4, <1>6 DEF Pool!ActualIO

LEMMA PlanCompared ==
  ASSUME ReportInv, Compare
  PROVE  ReportInv'
<1> DEFINE io == Pool!ActualIO(metrics)
           e == [plan |-> root, io |-> io]
           measured == Append(executed, e)
           k == Len(executed)
<1>1. /\ stage = "executing" /\ execution = "done" /\ UNCHANGED planVars /\ call' = call
  BY DEF Compare
<1>2. /\ PlanInv /\ RunInv /\ call \in Calls /\ Measured /\ k \in Nat /\ k < Len(PlansToExecute)
      /\ root = PlansToExecute[k + 1] /\ IsPlan(query, table_stats, nodes, root)
  BY <1>1, ExecutedPlan
<1>3. PlanInv' /\ PlansToExecute' = PlansToExecute
  BY <1>1, <1>2, PlansKept
<1>4. io \in Nat \ {0}
  BY <1>1, <1>2, PlansReadPages
<1>5. e.io = io /\ e = [plan |-> PlansToExecute[k + 1], io |-> io]
  BY <1>2
<1>6. Len(PlansToExecute) \in Nat
  BY <1>2, PlansAreCandidates
<1> HIDE DEF io, e, k
<1>7. /\ IsList(measured) /\ Len(measured) = k + 1 /\ DOMAIN measured = 1 .. k + 1
      /\ \A i \in 1 .. k : measured[i] = executed[i]
      /\ measured[k + 1] = e /\ IsList(executed) /\ DOMAIN executed = 1 .. k
  BY <1>2, AppendList, ListFacts DEF Measured, k
<1>8. ASSUME NEW i \in DOMAIN measured
      PROVE  /\ measured[i].io \in Nat \ {0}
             /\ measured[i] = [plan |-> PlansToExecute[i], io |-> measured[i].io]
  <2>1. CASE i \in 1 .. k
    <3>1. measured[i] = executed[i] /\ i \in DOMAIN executed
      BY <1>7, <2>1
    <3> HIDE DEF measured
    <3> QED BY <1>2, <3>1 DEF Measured
  <2>2. CASE i = k + 1
    <3>1. measured[i] = e
      BY <1>7, <2>2
    <3> HIDE DEF measured
    <3> QED BY <1>4, <1>5, <2>2, <3>1
  <2> QED BY <1>2, <1>7, <2>1, <2>2
<1>9. measured # <<>>
  <2>1. k + 1 # 0
    BY <1>2
  <2> HIDE DEF measured
  <2> SUFFICES ASSUME measured = <<>> PROVE FALSE
    OBVIOUS
  <2>2. Len(measured) = 0
    BY EmptyList
  <2> QED BY <1>7, <2>1, <2>2
<1>10. \/ stage' = "different result"
       \/ /\ executed' = measured /\ Len(measured) < Len(PlansToExecute)
          /\ StartPlan(PlansToExecute[Len(measured) + 1]) /\ stage' = stage
       \/ /\ executed' = measured /\ ~(Len(measured) < Len(PlansToExecute))
          /\ stage' = "reported" /\ report' = MakeReport(measured)
  BY DEF Compare, measured, e, io
<1> HIDE DEF measured
<1>11. CASE stage' = "different result"
  BY <1>1, <1>2, <1>3, <1>11 DEF ReportInv, CallInv, MeasuredInv
<1>12. CASE /\ executed' = measured /\ Len(measured) < Len(PlansToExecute)
            /\ StartPlan(PlansToExecute[Len(measured) + 1]) /\ stage' = stage
  <2>1. Len(measured) + 1 \in 1 .. Len(PlansToExecute)
    BY <1>2, <1>6, <1>7, <1>12
  <2>2. IsPlan(query, table_stats, nodes, PlansToExecute[Len(measured) + 1])
    BY <1>2, <2>1, PlansAreCandidates
  <2>3. RunInv'
    BY <1>1, <1>2, <1>12, <2>2, PlanStarts
  <2>4. root' = PlansToExecute[Len(measured) + 1]
    BY <1>12 DEF StartPlan
  <2>5. Measured'
    BY <1>3, <1>7, <1>8, <1>12, <2>1 DEF Measured
  <2>6. MeasuredInv'
    BY <1>1, <1>3, <1>12, <2>4, <2>5 DEF MeasuredInv
  <2> QED BY <1>1, <1>2, <1>3, <1>12, <2>3, <2>6 DEF ReportInv, CallInv
<1>13. CASE /\ executed' = measured /\ ~(Len(measured) < Len(PlansToExecute))
            /\ stage' = "reported" /\ report' = MakeReport(measured)
  <2>1. Len(measured) = Len(PlansToExecute)
    BY <1>2, <1>6, <1>7, <1>13
  <2>2. Measured'
    BY <1>3, <1>6, <1>7, <1>8, <1>13, <2>1 DEF Measured
  <2>3. MeasuredInv'
    BY <1>3, <1>9, <1>13, <2>1, <2>2 DEF MeasuredInv
  <2> QED BY <1>1, <1>2, <1>3, <1>13, <2>3 DEF ReportInv, CallInv
<1> QED BY <1>10, <1>11, <1>12, <1>13

LEMMA PlanAborted ==
  ASSUME ReportInv, Abort
  PROVE  ReportInv'
<1>1. /\ stage = "executing" /\ execution \notin {"running", "done"} /\ UNCHANGED planVars
      /\ call' = call /\ stage' = execution
  BY DEF Abort, Raise
<1>2. PlanInv /\ RunInv /\ call \in Calls
  BY <1>1, ExecutedPlan
<1>3. PlanInv'
  BY <1>1, <1>2, PlansKept
<1>4. stage' \in Errors
  BY <1>1, <1>2 DEF RunInv, ScheduleInv
<1> QED BY <1>1, <1>2, <1>3, <1>4 DEF ReportInv, CallInv, MeasuredInv, Errors

LEMMA NothingHappens ==
  ASSUME ReportInv, UNCHANGED allVars
  PROVE  ReportInv'
<1>1. /\ UNCHANGED planVars /\ UNCHANGED <<planVars, call>>
      /\ call' = call /\ stage' = stage /\ executed' = executed /\ report' = report
      /\ root' = root /\ current' = current /\ agenda' = agenda /\ snapshot' = snapshot
      /\ all_metrics' = all_metrics /\ execution' = execution /\ frames' = frames
      /\ metrics' = metrics /\ nodes' = nodes
      /\ table_stats' = table_stats /\ trees' = trees
      /\ candidates' = candidates /\ planning' = planning
  BY DEF allVars, planVars, execVars, poolVars, reportVars
<1>2. (PlanInv => PlanInv') /\ PlansToExecute' = PlansToExecute /\ Schedule' = Schedule
  BY <1>1, PlansKept DEF Schedule
<1>3. CallInv'
  BY <1>1, <1>2 DEF ReportInv, CallInv, NothingPlanned
<1>4. MeasuredInv'
  BY <1>1, <1>2 DEF ReportInv, MeasuredInv, Measured
<1>5. RunInv => RunInv'
  BY <1>1, <1>2 DEF RunInv, ScheduleInv, CountersInv, ColdInv
<1> QED BY <1>1, <1>3, <1>4, <1>5 DEF ReportInv

LEMMA ReportInvInit == Init => ReportInv
BY DEF Init, ReportInv, CallInv, MeasuredInv

LEMMA ReportInvNext == ReportInv /\ [Next \/ Returned]_allVars => ReportInv'
BY StatementParsed, PlansGenerated, ExecutionBegins, PlanEvaluated, PlanCompared, PlanAborted,
   NothingHappens DEF Next, Returned

(* In every reachable state of a call the plans are those of the planner,  *)
(* the plans measured are the first ones to execute, the operators of the  *)
(* plan at work run in order, and its counters add up: the inductive       *)
(* invariant of evaluate_query.                                            *)
THEOREM ReportInvariant == Spec => []ReportInv
BY ReportInvInit, ReportInvNext, PTL DEF Spec

(* The I/O of the operators, each the difference of two snapshots of the   *)
(* pool they share, adds up to the actual I/O of the plan.                 *)
THEOREM MetricsOfOperatorsAddUp == Spec => []MetricsAddUp
<1>1. ReportInv => MetricsAddUp
  <2> SUFFICES ASSUME ReportInv, Finished
               PROVE  FoldSeq(LAMBDA m, n : m.buffer_misses + m.page_writes + n, 0, all_metrics)
                        = Pool!ActualIO(metrics)
    BY DEF MetricsAddUp
  <2>1. RunInv /\ execution = "done"
    BY ExecutedPlan DEF Finished
  <2>2. IsList(all_metrics) /\ Spent(all_metrics) = Pool!ActualIO(metrics)
    BY <2>1 DEF RunInv, ScheduleInv, CountersInv
  <2> QED BY <2>2, FoldedMetrics
<1> QED BY <1>1, ReportInvariant, PTL

-----------------------------------------------------------------------------
LEMMA BestOfMeasured ==
  ASSUME NEW s, IsList(s), s # <<>>,
         \A e \in Range(s) : e.io \in Nat /\ e.plan \in Nat /\ e = [plan |-> e.plan, io |-> e.io]
  PROVE  /\ ActualBest(s) \in Range(s)
         /\ \A e \in Range(s) : ActualBest(s).io <= e.io
<1> DEFINE R == Range(s)
           rank == [e \in R |-> <<e.io, e.plan>>]
           S == {rank[e] : e \in R}
           order == {pair \in S \X S : RankBefore(pair[1], pair[2])}
<1>1. IsFiniteSet(R) /\ R # {}
  <2>1. Len(s) \in Nat /\ R = {s[i] : i \in 1 .. Len(s)} /\ (Len(s) = 0 => s = <<>>)
    BY ListFacts
  <2>2. IsFiniteSet(1 .. Len(s))
    <3>1. 1 \in Int /\ Len(s) \in Int
      BY <2>1
    <3> QED BY <3>1, FS_Interval
  <2>3. IsFiniteSet({s[i] : i \in 1 .. Len(s)})
    BY <2>2, FiniteImage
  <2> QED BY <2>1, <2>3
<1> HIDE DEF R
<1>2. \A e \in R : rank[e] = <<e.io, e.plan>> /\ rank[e] \in S
  OBVIOUS
<1>3. S \in SUBSET [1 .. 2 -> Int]
  <2> SUFFICES ASSUME NEW e \in R PROVE <<e.io, e.plan>> \in [1 .. 2 -> Int]
    BY <1>2
  <2>1. e.io \in Int /\ e.plan \in Int
    BY DEF R
  <2> QED BY <2>1
<1>4. IsTotalOrder(order, S)
  BY <1>3, RankIsTotal
<1>5. IsFiniteSet(S) /\ S # {}
  <2>1. IsFiniteSet({rank[e] : e \in R})
    BY <1>1, FiniteImage
  <2> QED BY <1>1, <2>1
<1>6. \A x \in S : \E e \in R : x = <<e.io, e.plan>> /\ x = rank[e]
  BY <1>2
<1>7. \A x, y \in S : <<x, y>> \in order => RankBefore(x, y)
  OBVIOUS
<1> HIDE DEF rank, S, order
<1>8. PICK x \in S : \A y \in S : x = y \/ <<x, y>> \in order
  <2> DEFINE a == Arranged(S, order)
             N == Cardinality(S)
  <2>1. /\ N \in Nat /\ a \in [1 .. N -> S] /\ Range(a) = S
        /\ \A m, n \in 1 .. N : m < n => <<a[m], a[n]>> \in order
    BY <1>4, <1>5, ArrangedInOrder
  <2>2. \A y \in S : \E n \in 1 .. N : y = a[n]
    BY <2>1 DEF Range
  <2> HIDE DEF a, N
  <2>3. 1 \in 1 .. N
    BY <1>5, <2>1, <2>2
  <2>4. \A n \in 1 .. N : n = 1 \/ 1 < n
    BY <2>1
  <2>5. \A y \in S : a[1] = y \/ <<a[1], y>> \in order
    BY <2>1, <2>2, <2>3, <2>4
  <2> QED BY <2>1, <2>3, <2>5
<1>9. PICK m \in R : x = <<m.io, m.plan>>
  BY <1>6
<1>10. \A e \in R : m = e \/ RankBefore(<<m.io, m.plan>>, <<e.io, e.plan>>)
  <2> TAKE e \in R
  <2>1. rank[e] = <<e.io, e.plan>> /\ rank[e] \in S
    BY <1>2
  <2>2. x = rank[e] \/ RankBefore(x, rank[e])
    BY <1>7, <1>8, <2>1
  <2>3. <<m.io, m.plan>> = <<e.io, e.plan>> => m = e
    <3>1. <<m.io, m.plan>> = <<e.io, e.plan>> => m.io = e.io /\ m.plan = e.plan
      OBVIOUS
    <3>2. m = [plan |-> m.plan, io |-> m.io] /\ e = [plan |-> e.plan, io |-> e.io]
      BY DEF R
    <3> QED BY <3>1, <3>2
  <2> QED BY <1>9, <2>1, <2>2, <2>3
<1>11. /\ ActualBest(s) \in R
       /\ \A e \in R : \/ ActualBest(s) = e
                      \/ RankBefore(<<ActualBest(s).io, ActualBest(s).plan>>, <<e.io, e.plan>>)
  BY <1>10 DEF ActualBest, R
<1>12. \A e \in R : ActualBest(s).io <= e.io
  <2> DEFINE b == ActualBest(s)
  <2> TAKE e \in R
  <2>1. b \in R /\ (b = e \/ RankBefore(<<b.io, b.plan>>, <<e.io, e.plan>>))
    BY <1>11
  <2> HIDE DEF b
  <2>2. b.io \in Nat /\ e.io \in Nat /\ b.plan \in Nat /\ e.plan \in Nat
    BY <2>1 DEF R
  <2>3. RankBefore(<<b.io, b.plan>>, <<e.io, e.plan>>) => b.io <= e.io
    <3> SUFFICES ASSUME RankBefore(<<b.io, b.plan>>, <<e.io, e.plan>>) PROVE b.io <= e.io
      OBVIOUS
    <3>1. PICK n \in 1 .. 2 : /\ <<b.io, b.plan>>[n] < <<e.io, e.plan>>[n]
                             /\ \A l \in 1 .. n - 1 : <<b.io, b.plan>>[l] = <<e.io, e.plan>>[l]
      <4>1. DOMAIN <<b.io, b.plan>> = 1 .. 2
        OBVIOUS
      <4>2. \E n \in DOMAIN <<b.io, b.plan>> :
              /\ <<b.io, b.plan>>[n] < <<e.io, e.plan>>[n]
              /\ \A l \in 1 .. n - 1 : <<b.io, b.plan>>[l] = <<e.io, e.plan>>[l]
        BY DEF RankBefore
      <4> QED BY <4>1, <4>2
    <3>2. CASE n = 1
      BY <2>2, <3>1, <3>2
    <3>3. CASE n = 2
      <4>1. 1 \in 1 .. n - 1
        BY <3>3
      <4>2. b.io = e.io
        BY <3>1, <4>1
      <4> QED BY <2>2, <4>2
    <3> QED BY <3>2, <3>3
  <2>4. b.io <= e.io
    BY <2>1, <2>2, <2>3
  <2> QED BY <2>4 DEF b
<1> QED BY <1>11, <1>12 DEF R

(* A report of all plans compares all plans, with a regret of zero exactly *)
(* if none of them did with less I/O than the chosen one.                  *)
THEOREM ReportsNameTheWinner == Spec => []ReportNamesTheWinner
<1>1. ReportInv => ReportNamesTheWinner
  <2> SUFFICES ASSUME ReportInv, stage = "reported", call.execute_all
               PROVE  /\ {executed[e].plan : e \in DOMAIN executed} = Range(candidates)
                      /\ report.regret[1] = 0 <=>
                           \A e \in DOMAIN executed : executed[1].io <= executed[e].io
                      /\ report.regret[2] > 0
    BY DEF ReportNamesTheWinner
  <2>1. /\ PlanInv /\ Measured /\ Len(executed) = Len(PlansToExecute) /\ executed # <<>>
        /\ report = MakeReport(executed)
    BY DEF ReportInv, CallInv, MeasuredInv
  <2>2. PlansToExecute = candidates
    BY DEF PlansToExecute
  <2>3. /\ IsList(executed) /\ Len(executed) \in Nat /\ DOMAIN executed = 1 .. Len(executed)
        /\ Range(executed) = {executed[i] : i \in 1 .. Len(executed)}
        /\ Len(executed) # 0
    BY <2>1, ListFacts DEF Measured
  <2>4. DOMAIN candidates = DOMAIN executed
    BY <2>1, <2>2, <2>3, PlansAreCandidates, ListFacts
  <2>5. \A e \in DOMAIN executed :
          /\ executed[e].io \in Nat \ {0} /\ executed[e].plan = candidates[e]
          /\ executed[e] = [plan |-> executed[e].plan, io |-> executed[e].io]
    <3> TAKE e \in DOMAIN executed
    <3>1. executed[e].io \in Nat \ {0} /\ executed[e] = [plan |-> candidates[e], io |-> executed[e].io]
      BY <2>1, <2>2 DEF Measured
    <3>2. executed[e].plan = candidates[e]
      BY <3>1
    <3> QED BY <3>1, <3>2
  <2>6. {executed[e].plan : e \in DOMAIN executed} = Range(candidates)
    BY <2>4, <2>5 DEF Range
  <2>7. \A e \in DOMAIN executed : executed[e].plan \in Nat
    <3> TAKE e \in DOMAIN executed
    <3>1. IsPlan(query, table_stats, nodes, executed[e].plan)
      BY <2>1, <2>2, <2>3, <2>5, PlansAreCandidates
    <3>2. Len(query.tables) \in Nat \ {0} /\ WellFormed(nodes)
      BY <2>1, QueryFacts DEF PlanInv
    <3>3. PICK order, access, base : LeftDeep(query, nodes, executed[e].plan, order, access, base)
      BY <3>1 DEF IsPlan
    <3>4. PlanShape(nodes, executed[e].plan, Len(query.tables), access, base)
      BY <3>2, <3>3, PlanFacts
    <3> QED BY <3>4 DEF PlanShape
  <2> DEFINE best == ActualBest(executed)
  <2>8. best \in Range(executed) /\ \A e \in Range(executed) : best.io <= e.io
    BY <2>1, <2>3, <2>5, <2>7, BestOfMeasured
  <2>9. report.regret = Regret(executed[1].io, best.io)
    BY <2>1 DEF MakeReport
  <2> HIDE DEF best
  <2>10. 1 \in DOMAIN executed /\ executed[1] \in Range(executed)
    BY <2>3
  <2>11. PICK w \in DOMAIN executed : best = executed[w]
    BY <2>3, <2>8
  <2>12. best.io \in Nat \ {0} /\ executed[1].io \in Nat \ {0}
    BY <2>5, <2>10, <2>11
  <2>13. report.regret = <<executed[1].io - best.io, best.io>>
    BY <2>9, <2>12 DEF Regret
  <2>14. report.regret[1] = executed[1].io - best.io /\ report.regret[2] = best.io
    BY <2>13
  <2>15. best.io <= executed[1].io
    BY <2>8, <2>10
  <2>16. (\A e \in DOMAIN executed : executed[1].io <= executed[e].io) => executed[1].io <= best.io
    BY <2>11
  <2>17. \A e \in DOMAIN executed : best.io <= executed[e].io
    BY <2>3, <2>8
  <2>18. executed[1].io - best.io = 0 <=> executed[1].io = best.io
    BY <2>12
  <2>19. executed[1].io <= best.io => executed[1].io = best.io
    BY <2>12, <2>15
  <2> QED BY <2>6, <2>12, <2>14, <2>16, <2>17, <2>18, <2>19
<1> QED BY <1>1, ReportInvariant, PTL

-----------------------------------------------------------------------------
(* A join of a plan has two inputs.                                        *)
LEMMA JoinOfPlan ==
  ASSUME PlanInv, IsPlan(query, table_stats, nodes, root), NEW i \in 1 .. Len(Schedule),
         IsJoin(nodes[Schedule[i]])
  PROVE  LET ch == nodes[Schedule[i]].children
         IN  Range(ch) = {ch[1], ch[2]}
<1> DEFINE m == Len(query.tables)
           n == Schedule[i]
<1>1. WellFormed(nodes) /\ root \in DOMAIN nodes /\ m \in Nat \ {0}
  BY QueryFacts DEF PlanInv, IsPlan
<1>2. PICK order, access, base : LeftDeep(query, nodes, root, order, access, base)
  BY DEF IsPlan
<1>3. n \in Tree(nodes, root)
  <2>1. IsList(Schedule) /\ Range(Schedule) = Tree(nodes, root)
    BY <1>1, PostOrderFacts DEF Schedule, Tree
  <2> QED BY <2>1, ListFacts
<1>4. Tree(nodes, root) = {access[s] : s \in 1 .. m} \cup (base + 1 .. base + m)
  BY <1>1, <1>2, TreeOfPlan
<1>5. /\ base \in Nat /\ root = base + m
      /\ \A t \in 1 .. m : IsScan(nodes[access[t]])
      /\ \A j \in 1 .. m - 1 : nodes[base + j].children = <<TopOf(access, base, j - 1), access[j + 1]>>
      /\ ~IsJoin(nodes[root])
  <2>1. PlanShape(nodes, root, m, access, base)
    BY <1>1, <1>2, PlanFacts
  <2> QED BY <2>1 DEF PlanShape
<1> HIDE DEF m, n
<1>6. n \notin {access[s] : s \in 1 .. m} /\ n # root
  BY <1>5 DEF IsScan, IsJoin, n
<1>7. n - base \in 1 .. m - 1 /\ base + (n - base) = n
  <2>1. n \in base + 1 .. base + m
    BY <1>3, <1>4, <1>6
  <2>2. base \in Nat /\ m \in Nat \ {0} /\ n # base + m
    BY <1>1, <1>5, <1>6
  <2> QED BY <2>1, <2>2
<1>8. nodes[n].children = <<TopOf(access, base, (n - base) - 1), access[(n - base) + 1]>>
  BY <1>5, <1>7
<1>9. Range(<<TopOf(access, base, (n - base) - 1), access[(n - base) + 1]>>)
        = {TopOf(access, base, (n - base) - 1), access[(n - base) + 1]}
  BY PairRange
<1> QED BY <1>8, <1>9 DEF n

-----------------------------------------------------------------------------
(* The rows of the nodes of a plan that have run, each those that its      *)
(* operator makes of the rows of its children.                             *)
KeysBy(side, column) == [i \in DOMAIN side |-> ColumnValue(side[i], column)]

ReversedIn(q, ns, node) ==
  \A leaf \in ScanLeaves(ns, node.children[1]) :
    ns[leaf].table_alias # q.joins[node.condition].left.table_alias

JoinedRows(q, ns, node, left, right) ==
  LET condition == q.joins[node.condition]
      reversed == ReversedIn(q, ns, node)
      pairs == JoinOutput(node.operation,
                          KeysBy(left, IF reversed THEN condition.right ELSE condition.left),
                          KeysBy(right, IF reversed THEN condition.left ELSE condition.right), Hash)
  IN  [p \in DOMAIN pairs |-> RowUnion(left[pairs[p][1]], right[pairs[p][2]])]

Evaluated(q, ns, rs, n) ==
  LET node == ns[n]
  IN  /\ Range(node.children) \subseteq DOMAIN rs
      /\ IsScan(node) => rs[n] = ScanRows(node)
      /\ IsJoin(node) => /\ {node.children[1], node.children[2]} \subseteq DOMAIN rs
                         /\ rs[n] = JoinedRows(q, ns, node, rs[node.children[1]], rs[node.children[2]])

Ran == IF current = 0 THEN Len(all_metrics) ELSE Len(all_metrics) + 1

RowsInv ==
  /\ DOMAIN rows = {Schedule[i] : i \in 1 .. Ran}
  /\ \A n \in DOMAIN rows : Evaluated(query, nodes, rows, n)

LEMMA RowsOfJoins ==
  ASSUME NEW n, IsJoin(nodes[n])
  PROVE  JoinRows(nodes[n]) = JoinedRows(query, nodes, nodes[n], rows[nodes[n].children[1]],
                                         rows[nodes[n].children[2]])
<1>1. LeftKeys(nodes[n]) = KeysBy(Left(nodes[n]), IF ReversedIn(query, nodes, nodes[n])
                                                  THEN query.joins[nodes[n].condition].right
                                                  ELSE query.joins[nodes[n].condition].left)
  BY DEF LeftKeys, KeysBy, Reversed, ReversedIn
<1>2. RightKeys(nodes[n]) = KeysBy(Right(nodes[n]), IF ReversedIn(query, nodes, nodes[n])
                                                    THEN query.joins[nodes[n].condition].left
                                                    ELSE query.joins[nodes[n].condition].right)
  BY DEF RightKeys, KeysBy, Reversed, ReversedIn
<1> QED BY <1>1, <1>2 DEF JoinRows, JoinedRows, Left, Right

LEMMA RowsKept ==
  ASSUME RowsInv, UNCHANGED planVars, root' = root, rows' = rows, Ran' = Ran
  PROVE  RowsInv'
<1>1. nodes' = nodes /\ query' = query
  BY DEF planVars
<1>2. Schedule' = Schedule
  BY <1>1 DEF Schedule
<1> QED BY <1>1, <1>2 DEF RowsInv

LEMMA RowsStart ==
  ASSUME PlanInv, NEW plan, IsPlan(query, table_stats, nodes, plan), StartPlan(plan)
  PROVE  RowsInv'
<1>1. rows' = <<>> /\ current' = 0 /\ all_metrics' = <<>>
  BY DEF StartPlan
<1>2. Ran' = 0 /\ DOMAIN rows' = {}
  BY <1>1, EmptyList DEF Ran
<1> QED BY <1>2 DEF RowsInv

(* The children of the next operator have run.                             *)
LEMMA ChildrenHaveRun ==
  ASSUME PlanInv, IsPlan(query, table_stats, nodes, root), RunInv, RowsInv,
         current = 0, Len(all_metrics) < Len(Schedule)
  PROVE  LET k == Len(all_metrics)
             n == Schedule[k + 1]
         IN  /\ k \in Nat /\ k + 1 \in 1 .. Len(Schedule) /\ DOMAIN rows = {Schedule[i] : i \in 1 .. k}
             /\ n \in DOMAIN nodes /\ n \in Range(Schedule)
             /\ Range(nodes[n].children) \subseteq DOMAIN rows
             /\ IsJoin(nodes[n]) => Range(nodes[n].children) = {nodes[n].children[1], nodes[n].children[2]}
<1> DEFINE k == Len(all_metrics)
           n == Schedule[k + 1]
<1>1. k \in Nat /\ Ran = k /\ DOMAIN rows = {Schedule[i] : i \in 1 .. k}
  BY ListFacts DEF RunInv, ScheduleInv, Ran, RowsInv
<1>2. Len(Schedule) \in Nat /\ DOMAIN Schedule = 1 .. Len(Schedule) /\ \A i \in 1 .. Len(Schedule) : Schedule[i] \in DOMAIN nodes
  BY ScheduleFacts
<1>3. k + 1 \in 1 .. Len(Schedule)
  BY <1>1, <1>2
<1>4. ChildFirst(nodes, Schedule)
  BY ScheduleChildFirst DEF PlanInv, IsPlan, Schedule
<1>5. Range(nodes[n].children) \subseteq {Schedule[i] : i \in 1 .. (k + 1) - 1}
  BY <1>2, <1>3, <1>4 DEF ChildFirst
<1>6. (k + 1) - 1 = k
  BY <1>1
<1>7. n \in Range(Schedule)
  BY <1>2, <1>3 DEF Range
<1> QED BY <1>1, <1>2, <1>3, <1>5, <1>6, <1>7, JoinOfPlan

LEMMA RowsGrow ==
  ASSUME PlanInv, IsPlan(query, table_stats, nodes, root), RunInv, RowsInv, StartOperator,
         UNCHANGED planVars
  PROVE  RowsInv'
<1> DEFINE k == Len(all_metrics)
           n == Schedule[k + 1]
<1>1. /\ current = 0 /\ k < Len(Schedule) /\ root' = root /\ all_metrics' = all_metrics
      /\ nodes' = nodes /\ query' = query
  BY DEF StartOperator, planVars
<1>2. /\ k \in Nat /\ DOMAIN rows = {Schedule[i] : i \in 1 .. k} /\ n \in DOMAIN nodes
      /\ Range(nodes[n].children) \subseteq DOMAIN rows
      /\ IsJoin(nodes[n]) => Range(nodes[n].children) = {nodes[n].children[1], nodes[n].children[2]}
      /\ k + 1 \in 1 .. Len(Schedule)
  BY <1>1, ChildrenHaveRun
<1>3. CASE OperatorError(n) = "none"
  <2>1. current' = n /\ rows' = [r \in DOMAIN rows \cup {n} |->
                               IF r \in DOMAIN rows THEN rows[r] ELSE Output(n)]
    BY <1>3 DEF StartOperator
  <2>2. n # 0
    BY <1>2, ScheduleFacts
  <2>3. Ran' = k + 1 /\ Schedule' = Schedule
    BY <1>1, <2>1, <2>2 DEF Ran, Schedule
  <2> DEFINE new == Output(n)
  <2>4. /\ DOMAIN rows' = DOMAIN rows \cup {n}
        /\ \A x \in DOMAIN rows : rows'[x] = rows[x]
        /\ n \notin DOMAIN rows => rows'[n] = new
    <3>1. rows' = [r \in DOMAIN rows \cup {n} |-> IF r \in DOMAIN rows THEN rows[r] ELSE new]
      BY <2>1
    <3> HIDE DEF new, n
    <3> QED BY <3>1
  <2>5. DOMAIN rows' = {Schedule[i] : i \in 1 .. k + 1}
    <3>1. 1 .. k + 1 = (1 .. k) \cup {k + 1}
      BY <1>2
    <3> QED BY <1>2, <2>4, <3>1
  <2>6. ASSUME NEW x \in DOMAIN rows
        PROVE  Evaluated(query, nodes, rows', x)
    <3>1. Evaluated(query, nodes, rows, x)
      BY DEF RowsInv
    <3> QED BY <2>4, <3>1 DEF Evaluated
  <2>7. n \notin DOMAIN rows => Evaluated(query, nodes, rows', n)
    <3> SUFFICES ASSUME n \notin DOMAIN rows PROVE Evaluated(query, nodes, rows', n)
      OBVIOUS
    <3>1. rows'[n] = new
      BY <2>4
    <3>2. IsScan(nodes[n]) => new = ScanRows(nodes[n])
      BY DEF Output
    <3>3. IsJoin(nodes[n]) => /\ {nodes[n].children[1], nodes[n].children[2]} \subseteq DOMAIN rows
                              /\ new = JoinedRows(query, nodes, nodes[n], rows[nodes[n].children[1]],
                                                  rows[nodes[n].children[2]])
      <4> SUFFICES ASSUME IsJoin(nodes[n])
                   PROVE  /\ {nodes[n].children[1], nodes[n].children[2]} \subseteq DOMAIN rows
                          /\ new = JoinedRows(query, nodes, nodes[n], rows[nodes[n].children[1]],
                                              rows[nodes[n].children[2]])
        OBVIOUS
      <4>1. ~IsScan(nodes[n])
        BY DEF IsScan, IsJoin
      <4>2. new = JoinRows(nodes[n])
        BY <4>1 DEF Output
      <4>3. JoinRows(nodes[n]) = JoinedRows(query, nodes, nodes[n], rows[nodes[n].children[1]],
                                            rows[nodes[n].children[2]])
        BY RowsOfJoins
      <4> HIDE DEF new, n
      <4> QED BY <1>2, <4>2, <4>3
    <3> HIDE DEF new, n
    <3> QED BY <1>2, <2>4, <3>1, <3>2, <3>3 DEF Evaluated
  <2> HIDE DEF n, k
  <2>8. \A x \in DOMAIN rows' : Evaluated(query', nodes', rows', x)
    BY <1>1, <2>4, <2>6, <2>7
  <2> QED BY <2>3, <2>5, <2>8 DEF RowsInv
<1>4. CASE OperatorError(n) # "none"
  <2>1. current' = current /\ rows' = rows
    BY <1>4 DEF StartOperator
  <2>2. Ran' = Ran
    BY <1>1, <2>1 DEF Ran
  <2> QED BY <1>1, <2>1, <2>2, RowsKept
<1> QED BY <1>3, <1>4

-----------------------------------------------------------------------------
(* A choice of a row from each of some of the tables of the query, and the *)
(* row these make together.                                                *)
Alias(t) == query.tables[t].alias
TableWith(alias) == CHOOSE t \in DOMAIN query.tables : Alias(t) = alias
Qualified(t, i) == QualifyRow(TableOf(t).rows[i], Alias(t))

Places(T) ==
  {c \in [T -> UNION {DOMAIN TableOf(t).rows : t \in T}] :
     \A t \in T : c[t] \in DOMAIN TableOf(t).rows}

RowOf(T, c) ==
  [key \in UNION {DOMAIN Qualified(t, c[t]) : t \in T} |->
    Qualified(TableWith(key[1]), c[TableWith(key[1])])[key]]

(* The tables are live, with the columns that are asked for.               *)
Live == query \in Queries /\ table_stats \in Catalogs /\ Known(query, table_stats)

LEMMA TableFacts ==
  ASSUME Live, NEW t \in DOMAIN query.tables
  PROVE  /\ query.tables[t].name \in DOMAIN Tables
         /\ IsList(TableOf(t).rows) /\ TableOf(t).target \in Nat
         /\ TableOf(t).pages = MakePages(TableOf(t).rows, TableOf(t).target)
         /\ \A i \in DOMAIN TableOf(t).rows :
              /\ DOMAIN TableOf(t).rows[i] = TableOf(t).columns
              /\ \A name \in TableOf(t).columns : /\ TableOf(t).rows[i][name] \in Int
                                                  /\ Hash[TableOf(t).rows[i][name]] \in Nat
         /\ Alias(t) # NoAlias /\ TableWith(Alias(t)) = t
         /\ \A p \in Range(PushedOf(query, query.tables[t])) : p.column.name \in TableOf(t).columns
<1> DEFINE name == query.tables[t].name
           table == Tables[name]
<1>1. name \in DOMAIN table_stats
  BY DEF Live, Known
<1>2. /\ name \in DOMAIN Tables
      /\ DOMAIN table_stats[name].columns \subseteq table.columns
  BY <1>1, AnalyzedAssumption DEF Live
<1>3. \A p \in Range(PushedOf(query, query.tables[t])) :
        p.column.name \in DOMAIN table_stats[name].columns
  BY DEF Live, Known
<1>4. /\ IsList(table.rows) /\ table.target \in Nat
      /\ table.pages = MakePages(table.rows, table.target)
      /\ \A row \in Range(table.rows) :
           /\ DOMAIN row = table.columns
           /\ \A column \in DOMAIN row : row[column] \in Int /\ Hash[row[column]] \in Nat
  BY <1>2, TableAssumption, Zenon DEF IsList
<1>5. \A i \in DOMAIN table.rows : table.rows[i] \in Range(table.rows)
  BY DEF Range
<1>6. Alias(t) # NoAlias
  BY QueryAssumption DEF Live, Alias
<1>7. TableWith(Alias(t)) = t
  BY QueryFacts DEF Live, TableWith, Alias
<1> HIDE DEF table, name
<1>8. \A i \in DOMAIN table.rows :
        /\ DOMAIN table.rows[i] = table.columns
        /\ \A column \in table.columns : /\ table.rows[i][column] \in Int
                                         /\ Hash[table.rows[i][column]] \in Nat
  BY <1>4, <1>5
<1>9. TableOf(t) = table
  BY DEF TableOf, table, name
<1> QED BY <1>2, <1>3, <1>4, <1>6, <1>7, <1>8, <1>9 DEF name

LEMMA QualifiedFacts ==
  ASSUME Live, NEW t \in DOMAIN query.tables, NEW i \in DOMAIN TableOf(t).rows
  PROVE  /\ DOMAIN Qualified(t, i) = {Alias(t)} \X TableOf(t).columns
         /\ \A name \in TableOf(t).columns :
              Qualified(t, i)[<<Alias(t), name>>] = TableOf(t).rows[i][name]
         /\ Qualified(t, i) = [key \in DOMAIN Qualified(t, i) |-> Qualified(t, i)[key]]
<1> DEFINE row == TableOf(t).rows[i]
           a == Alias(t)
<1>1. DOMAIN row = TableOf(t).columns
  BY TableFacts
<1>2. Qualified(t, i) = [key \in {a} \X DOMAIN row |-> row[key[2]]]
  BY DEF Qualified, QualifyRow
<1> HIDE DEF row, a
<1>3. \A name \in DOMAIN row : <<a, name>> \in {a} \X DOMAIN row /\ <<a, name>>[2] = name
  OBVIOUS
<1> QED BY <1>1, <1>2, <1>3 DEF row, a

KeysOf(T) == UNION {{Alias(t)} \X TableOf(t).columns : t \in T}

(* A row with the values of the chosen rows.                               *)
Combines(r, T, c) ==
  /\ r = [key \in KeysOf(T) |-> r[key]]
  /\ \A t \in T : \A name \in TableOf(t).columns :
       r[<<Alias(t), name>>] = TableOf(t).rows[c[t]][name]

LEMMA RowOfFacts ==
  ASSUME Live, NEW T, T \subseteq DOMAIN query.tables, NEW c \in Places(T)
  PROVE  /\ RowOf(T, c) = [key \in KeysOf(T) |-> RowOf(T, c)[key]]
         /\ \A t \in T : \A name \in TableOf(t).columns :
              /\ <<Alias(t), name>> \in KeysOf(T)
              /\ RowOf(T, c)[<<Alias(t), name>>] = TableOf(t).rows[c[t]][name]
<1>1. \A t \in T : t \in DOMAIN query.tables /\ c[t] \in DOMAIN TableOf(t).rows
  BY DEF Places
<1>2. \A t \in T : DOMAIN Qualified(t, c[t]) = {Alias(t)} \X TableOf(t).columns
  BY <1>1, QualifiedFacts
<1>3. UNION {DOMAIN Qualified(t, c[t]) : t \in T} = KeysOf(T)
  BY <1>2 DEF KeysOf
<1> DEFINE value(key) == Qualified(TableWith(key[1]), c[TableWith(key[1])])[key]
<1>4. RowOf(T, c) = [key \in KeysOf(T) |-> value(key)]
  BY <1>3 DEF RowOf
<1>5. ASSUME NEW t \in T, NEW name \in TableOf(t).columns
      PROVE  /\ <<Alias(t), name>> \in KeysOf(T)
             /\ value(<<Alias(t), name>>) = TableOf(t).rows[c[t]][name]
  <2>1. <<Alias(t), name>> \in {Alias(t)} \X TableOf(t).columns
    OBVIOUS
  <2>2. <<Alias(t), name>> \in KeysOf(T)
    BY <2>1 DEF KeysOf
  <2>3. TableWith(Alias(t)) = t
    BY <1>1, TableFacts
  <2>4. <<Alias(t), name>>[1] = Alias(t)
    OBVIOUS
  <2>5. value(<<Alias(t), name>>) = Qualified(t, c[t])[<<Alias(t), name>>]
    BY <2>3, <2>4
  <2> QED BY <1>1, <2>2, <2>5, QualifiedFacts
<1> HIDE DEF value
<1> QED BY <1>4, <1>5

LEMMA RowOfIs ==
  ASSUME Live, NEW T, T \subseteq DOMAIN query.tables, NEW c \in Places(T),
         NEW r, Combines(r, T, c)
  PROVE  r = RowOf(T, c)
<1> DEFINE s == RowOf(T, c)
<1>1. /\ s = [key \in KeysOf(T) |-> s[key]]
      /\ \A t \in T : \A name \in TableOf(t).columns :
           s[<<Alias(t), name>>] = TableOf(t).rows[c[t]][name]
  BY RowOfFacts
<1>2. \A key \in KeysOf(T) : \E t \in T : \E name \in TableOf(t).columns : key = <<Alias(t), name>>
  BY DEF KeysOf
<1> HIDE DEF s
<1>3. ASSUME NEW key \in KeysOf(T)
      PROVE  r[key] = s[key]
  <2>1. PICK t \in T : \E name \in TableOf(t).columns : key = <<Alias(t), name>>
    BY <1>2
  <2>2. PICK name \in TableOf(t).columns : key = <<Alias(t), name>>
    BY <2>1
  <2>3. r[<<Alias(t), name>>] = s[<<Alias(t), name>>]
    BY <1>1 DEF Combines
  <2> QED BY <2>2, <2>3
<1>4. r = s
  BY <1>1, <1>3 DEF Combines
<1> QED BY <1>4 DEF s

LEMMA RowOfOne ==
  ASSUME Live, NEW t \in DOMAIN query.tables, NEW c \in Places({t})
  PROVE  RowOf({t}, c) = Qualified(t, c[t])
<1> DEFINE r == Qualified(t, c[t])
<1>1. c[t] \in DOMAIN TableOf(t).rows
  BY DEF Places
<1>2. KeysOf({t}) = {Alias(t)} \X TableOf(t).columns
  BY DEF KeysOf
<1>3. r = [key \in KeysOf({t}) |-> r[key]]
  BY <1>1, <1>2, QualifiedFacts
<1>4. \A name \in TableOf(t).columns : r[<<Alias(t), name>>] = TableOf(t).rows[c[t]][name]
  BY <1>1, QualifiedFacts
<1> HIDE DEF r
<1>5. \A x \in {t} : \A name \in TableOf(x).columns : r[<<Alias(x), name>>] = TableOf(x).rows[c[x]][name]
  BY <1>4
<1>6. {t} \subseteq DOMAIN query.tables
  OBVIOUS
<1>7. Combines(r, {t}, c)
  BY <1>3, <1>5 DEF Combines
<1>8. r = RowOf({t}, c)
  BY <1>6, <1>7, RowOfIs
<1> QED BY <1>8 DEF r

(* Sets with one element, and with one more.                               *)
Only(u) == {u}
With(T, u) == T \cup {u}

LEMMA RowOfMore ==
  ASSUME Live, NEW T, T \subseteq DOMAIN query.tables, NEW u \in DOMAIN query.tables, u \notin T,
         NEW c \in Places(With(T, u)), NEW d \in Places(T), NEW e \in Places(Only(u)),
         \A t \in T : c[t] = d[t], c[u] = e[u]
  PROVE  RowUnion(RowOf(T, d), RowOf(Only(u), e)) = RowOf(With(T, u), c)
<1>0. With(T, u) = T \cup {u} /\ Only(u) = {u}
  BY DEF With, Only
<1> DEFINE left == RowOf(T, d)
           right == RowOf({u}, e)
           r == RowUnion(left, right)
<1>1. /\ DOMAIN left = KeysOf(T)
      /\ \A t \in T : \A name \in TableOf(t).columns :
           left[<<Alias(t), name>>] = TableOf(t).rows[d[t]][name]
  BY RowOfFacts
<1>2. /\ DOMAIN right = KeysOf({u})
      /\ \A name \in TableOf(u).columns :
           /\ <<Alias(u), name>> \in KeysOf({u})
           /\ right[<<Alias(u), name>>] = TableOf(u).rows[e[u]][name]
  <2>1. {u} \subseteq DOMAIN query.tables /\ u \in {u}
    OBVIOUS
  <2>2. right = [key \in KeysOf({u}) |-> right[key]]
    BY <1>0, <2>1, RowOfFacts
  <2>3. \A name \in TableOf(u).columns :
           /\ <<Alias(u), name>> \in KeysOf({u})
           /\ right[<<Alias(u), name>>] = TableOf(u).rows[e[u]][name]
    BY <1>0, <2>1, RowOfFacts
  <2> HIDE DEF right
  <2> QED BY <2>2, <2>3
<1>3. KeysOf(T \cup {u}) = KeysOf(T) \cup KeysOf({u})
  BY DEF KeysOf
<1> HIDE DEF left, right
<1>4. r = [key \in KeysOf(T) \cup KeysOf({u}) |->
            IF key \in KeysOf({u}) THEN right[key] ELSE left[key]]
  BY <1>1, <1>2 DEF RowUnion
<1>5. \A t \in T : \A name \in TableOf(t).columns :
        <<Alias(t), name>> \in KeysOf(T) /\ <<Alias(t), name>> \notin KeysOf({u})
  <2> TAKE t \in T
  <2> TAKE name \in TableOf(t).columns
  <2>1. Alias(t) # Alias(u)
    BY QueryFacts DEF Live, Alias
  <2>2. KeysOf({u}) = {Alias(u)} \X TableOf(u).columns
    BY DEF KeysOf
  <2>3. <<Alias(t), name>> \in KeysOf(T)
    BY DEF KeysOf
  <2> QED BY <2>1, <2>2, <2>3
<1> HIDE DEF r
<1>6. r = [key \in KeysOf(T \cup {u}) |-> r[key]]
  BY <1>3, <1>4
<1>7. \A t \in T \cup {u} : \A name \in TableOf(t).columns :
        r[<<Alias(t), name>>] = TableOf(t).rows[c[t]][name]
  <2> TAKE t \in T \cup {u}
  <2> TAKE name \in TableOf(t).columns
  <2>1. CASE t \in T
    BY <1>1, <1>4, <1>5, <2>1
  <2>2. CASE t = u
    BY <1>2, <1>4, <2>2
  <2> QED BY <2>1, <2>2
<1>8. T \cup {u} \subseteq DOMAIN query.tables
  OBVIOUS
<1>9. Combines(r, T \cup {u}, c)
  BY <1>6, <1>7 DEF Combines
<1>10. r = RowOf(T \cup {u}, c)
  BY <1>0, <1>8, <1>9, RowOfIs
<1> QED BY <1>0, <1>10 DEF r, left, right

(* A column is found in a row that only one of the tables with it is in.   *)
LEMMA KeysOfColumn ==
  ASSUME Live, NEW T, T \subseteq DOMAIN query.tables, NEW c \in Places(T), NEW column
  PROVE  MatchingKeys(RowOf(T, c), column)
           = {<<Alias(t), column.name>> : t \in TablesOf(column) \cap T}
<1> DEFINE r == RowOf(T, c)
           M == MatchingKeys(r, column)
           K == {<<Alias(t), column.name>> : t \in TablesOf(column) \cap T}
<1>1. DOMAIN r = KeysOf(T)
  BY RowOfFacts
<1> HIDE DEF r
<1>2. ASSUME NEW key \in M  PROVE key \in K
  <2>1. key \in KeysOf(T) /\ key[2] = column.name /\ column.table_alias \in {NoAlias, key[1]}
    BY <1>1 DEF MatchingKeys
  <2>2. PICK t \in T : key \in {Alias(t)} \X TableOf(t).columns
    BY <2>1 DEF KeysOf
  <2>3. key = <<Alias(t), column.name>> /\ column.name \in TableOf(t).columns
    BY <2>1, <2>2
  <2>4. t \in TablesOf(column)
    BY <2>1, <2>3 DEF TablesOf, Alias
  <2> QED BY <2>3, <2>4
<1>3. ASSUME NEW t \in TablesOf(column) \cap T  PROVE <<Alias(t), column.name>> \in M
  <2>1. column.table_alias \in {NoAlias, Alias(t)} /\ column.name \in TableOf(t).columns
    BY DEF TablesOf, Alias
  <2>2. <<Alias(t), column.name>> \in {Alias(t)} \X TableOf(t).columns
    BY <2>1
  <2>3. <<Alias(t), column.name>> \in DOMAIN r
    BY <1>1, <2>2 DEF KeysOf
  <2> QED BY <2>1, <2>3 DEF MatchingKeys
<1>4. M \subseteq K
  BY <1>2
<1>5. K \subseteq M
  BY <1>3
<1> QED BY <1>4, <1>5 DEF r

IsTheTable(t, column, T) == TablesOf(column) \cap T = {t}

LEMMA ColumnOfTable ==
  ASSUME Live, NEW T, T \subseteq DOMAIN query.tables, NEW c \in Places(T), NEW column, NEW t,
         IsTheTable(t, column, T)
  PROVE  /\ ColumnValue(RowOf(T, c), column) = TableOf(t).rows[c[t]][column.name]
         /\ Resolves(RowOf(T, c), column)
<1> DEFINE r == RowOf(T, c)
<1>0. TablesOf(column) \cap T = {t}
  BY DEF IsTheTable
<1>1. MatchingKeys(r, column) = {<<Alias(t), column.name>>}
  BY <1>0, KeysOfColumn
<1>2. t \in T /\ column.name \in TableOf(t).columns
  BY <1>0 DEF TablesOf
<1>3. r[<<Alias(t), column.name>>] = TableOf(t).rows[c[t]][column.name]
  BY <1>2, RowOfFacts
<1> HIDE DEF r
<1>4. ColumnValue(r, column) = r[<<Alias(t), column.name>>]
  BY <1>1 DEF ColumnValue
<1>5. Resolves(r, column)
  BY <1>1, FS_Singleton DEF Resolves
<1> QED BY <1>3, <1>4, <1>5 DEF r

(* The table of a column that no other table of the query has.             *)
LEMMA OneTable ==
  ASSUME Live, NEW column, Cardinality(TablesOf(column)) = 1
  PROVE  \E t \in DOMAIN query.tables : TablesOf(column) = {t}
<1>1. IsFiniteSet(DOMAIN query.tables)
  BY QueryFacts, FS_Interval DEF Live
<1>2. TablesOf(column) \subseteq DOMAIN query.tables
  BY DEF TablesOf
<1>3. IsFiniteSet(TablesOf(column))
  BY <1>1, <1>2, FS_Subset
<1>4. PICK t : TablesOf(column) = {t}
  BY <1>3, FS_Singleton
<1> QED BY <1>2, <1>4

(* The columns of the conditions have an alias, and the predicates that    *)
(* are pushed to a table are those on a column of it.                      *)
LEMMA ConditionColumns ==
  ASSUME Live, NEW j \in DOMAIN query.joins,
         NEW column \in {query.joins[j].left, query.joins[j].right}
  PROVE  LET t == TableWith(column.table_alias)
         IN  /\ t \in DOMAIN query.tables /\ Alias(t) = column.table_alias
             /\ column.name \in TableOf(t).columns
             /\ TablesOf(column) = {t}
<1>1. PICK t \in DOMAIN query.tables : /\ Alias(t) = column.table_alias
                                       /\ column.name \in DOMAIN table_stats[query.tables[t].name].columns
  BY DEF Live, Known, Alias
<1>2. query.tables[t].name \in DOMAIN table_stats
  BY DEF Live, Known
<1>3. column.name \in TableOf(t).columns
  BY <1>1, <1>2, AnalyzedAssumption DEF Live, TableOf
<1>4. TableWith(column.table_alias) = t /\ column.table_alias # NoAlias
  BY <1>1, TableFacts
<1>5. t \in TablesOf(column)
  BY <1>1, <1>3 DEF TablesOf, Alias
<1>6. \A s \in TablesOf(column) : s = t
  <2> TAKE s \in TablesOf(column)
  <2>1. s \in DOMAIN query.tables /\ Alias(s) = Alias(t)
    BY <1>1, <1>4 DEF TablesOf, Alias
  <2> QED BY <2>1, QueryFacts DEF Live, Alias
<1> QED BY <1>1, <1>3, <1>4, <1>5, <1>6

LEMMA PushedPredicates ==
  ASSUME Live, NEW t \in DOMAIN query.tables
  PROVE  /\ IsList(PushedOf(query, query.tables[t]))
         /\ Range(PushedOf(query, query.tables[t]))
              = {p \in Range(query.predicates) : t \in TablesOf(p.column)}
<1> DEFINE places == {p \in DOMAIN query.predicates :
                       query.predicates[p].column.table_alias \in {NoAlias, query.tables[t].alias}}
           pushed == PushedOf(query, query.tables[t])
           Good == {p \in Range(query.predicates) : t \in TablesOf(p.column)}
<1>1. IsList(query.predicates)
  BY QueryFacts DEF Live
<1>2. IsList(pushed) /\ Range(pushed) = {query.predicates[p] : p \in places}
  <2>1. pushed = Selected(query.predicates, places)
    BY DEF PushedOf
  <2>2. places \in SUBSET (DOMAIN query.predicates)
    OBVIOUS
  <2> HIDE DEF places, pushed
  <2> QED BY <1>1, <2>1, <2>2, SelectedFacts
<1>3. \A p \in Range(pushed) : p.column.name \in TableOf(t).columns
  BY TableFacts
<1>4. Range(query.predicates) = {query.predicates[p] : p \in DOMAIN query.predicates}
  BY DEF Range
<1> HIDE DEF pushed
<1>5. \A p \in places : query.predicates[p] \in Good
  <2> TAKE p \in places
  <2>1. query.predicates[p].column.name \in TableOf(t).columns
    BY <1>2, <1>3
  <2> QED BY <1>4, <2>1 DEF TablesOf
<1>6. \A q \in Good : \E p \in places : q = query.predicates[p]
  BY <1>4 DEF TablesOf
<1> QED BY <1>2, <1>5, <1>6 DEF pushed

-----------------------------------------------------------------------------
(* The choices that satisfy some of the conditions, and the predicates on  *)
(* the tables; a list of their rows has the row of each at one place.      *)
Satisfies(t, i) ==
  \A p \in Range(PushedOf(query, query.tables[t])) :
    Compares(p.operator, TableOf(t).rows[i][p.column.name], p.value)

SideValue(c, column) ==
  TableOf(TableWith(column.table_alias)).rows[c[TableWith(column.table_alias)]][column.name]

Matching(T, C) ==
  {c \in Places(T) :
     /\ \A t \in T : Satisfies(t, c[t])
     /\ \A j \in C : SideValue(c, query.joins[j].left) = SideValue(c, query.joins[j].right)}

Enumerates(list, T, C) ==
  /\ IsList(list)
  /\ \E e \in [1 .. Len(list) -> Matching(T, C)] :
       /\ \A i, k \in 1 .. Len(list) : e[i] = e[k] => i = k
       /\ \A c \in Matching(T, C) : \E i \in 1 .. Len(list) : e[i] = c
       /\ \A i \in 1 .. Len(list) : list[i] = RowOf(T, e[i])

(* A choice from one table.                                                *)
One(t, i) == [x \in {t} |-> i]

LEMMA OneIsAPlace ==
  ASSUME NEW t, NEW i \in DOMAIN TableOf(t).rows
  PROVE  One(t, i) \in Places({t}) /\ One(t, i)[t] = i
<1>1. UNION {DOMAIN TableOf(x).rows : x \in {t}} = DOMAIN TableOf(t).rows
  OBVIOUS
<1>2. One(t, i)[t] = i
  BY DEF One
<1>3. One(t, i) \in [{t} -> DOMAIN TableOf(t).rows]
  BY DEF One
<1> QED BY <1>1, <1>2, <1>3 DEF Places

LEMMA PlacesOfOne ==
  ASSUME NEW t, NEW c \in Places({t})
  PROVE  c[t] \in DOMAIN TableOf(t).rows /\ c = One(t, c[t])
<1>1. c[t] \in DOMAIN TableOf(t).rows /\ c = [x \in {t} |-> c[x]]
  BY DEF Places
<1> DEFINE d == One(t, c[t])
<1>2. d = [x \in {t} |-> d[x]] /\ \A x \in {t} : d[x] = c[x]
  BY DEF One
<1> HIDE DEF d
<1>3. c = d
  BY <1>1, <1>2
<1> QED BY <1>1, <1>3 DEF d

LEMMA MatchesOfRow ==
  ASSUME Live, NEW t \in DOMAIN query.tables, NEW i \in DOMAIN TableOf(t).rows
  PROVE  MatchesAll(Qualified(t, i), PushedOf(query, query.tables[t])) <=> Satisfies(t, i)
<1> DEFINE c == One(t, i)
           r == Qualified(t, i)
<1>1. c \in Places({t}) /\ c[t] = i
  BY OneIsAPlace
<1>2. {t} \subseteq DOMAIN query.tables
  OBVIOUS
<1> HIDE DEF c
<1>3. r = RowOf({t}, c)
  BY <1>1, RowOfOne
<1>4. ASSUME NEW p \in Range(PushedOf(query, query.tables[t]))
      PROVE  ColumnValue(r, p.column) = TableOf(t).rows[i][p.column.name]
  <2>1. t \in TablesOf(p.column)
    BY PushedPredicates
  <2>2. IsTheTable(t, p.column, {t})
    BY <2>1 DEF IsTheTable
  <2>3. ColumnValue(RowOf({t}, c), p.column) = TableOf(t).rows[c[t]][p.column.name]
    BY <1>1, <1>2, <2>2, ColumnOfTable
  <2> QED BY <1>1, <1>3, <2>3
<1> HIDE DEF r
<1>5. MatchesAll(r, PushedOf(query, query.tables[t])) <=> Satisfies(t, i)
  BY <1>4 DEF MatchesAll, Satisfies
<1> QED BY <1>5 DEF r

(* The rows at some places of a table, those with the predicates selected. *)
Covers(t, M, at) ==
  /\ M \in Nat /\ at \in [1 .. M -> DOMAIN TableOf(t).rows]
  /\ \A i, k \in 1 .. M : at[i] = at[k] => i = k
  /\ \A i \in DOMAIN TableOf(t).rows : Satisfies(t, i) => \E l \in 1 .. M : at[l] = i

Filtered(qualified, predicates) ==
  Selected(qualified, {l \in DOMAIN qualified : MatchesAll(qualified[l], predicates)})

LEMMA SelectedEnumerates ==
  ASSUME Live, NEW t \in DOMAIN query.tables, NEW M, NEW at, Covers(t, M, at),
         NEW qualified, qualified = [l \in 1 .. M |-> Qualified(t, at[l])]
  PROVE  Enumerates(Filtered(qualified, PushedOf(query, query.tables[t])), {t}, {})
<1> DEFINE predicates == PushedOf(query, query.tables[t])
<1>0. /\ M \in Nat /\ at \in [1 .. M -> DOMAIN TableOf(t).rows]
      /\ \A i, k \in 1 .. M : at[i] = at[k] => i = k
      /\ \A i \in DOMAIN TableOf(t).rows : Satisfies(t, i) => \E l \in 1 .. M : at[l] = i
  BY DEF Covers
<1> DEFINE places == {l \in DOMAIN qualified : MatchesAll(qualified[l], predicates)}
           s == Ascending(places)
           list == Selected(qualified, places)
           N == Cardinality(places)
           e == [n \in 1 .. N |-> One(t, at[s[n]])]
<1>1. places = {l \in 1 .. M : Satisfies(t, at[l])}
  <2>1. \A l \in 1 .. M : qualified[l] = Qualified(t, at[l]) /\ at[l] \in DOMAIN TableOf(t).rows
    BY <1>0
  <2>2. \A l \in 1 .. M : MatchesAll(qualified[l], predicates) <=> Satisfies(t, at[l])
    BY <2>1, MatchesOfRow
  <2>3. DOMAIN qualified = 1 .. M
    OBVIOUS
  <2> QED BY <2>2, <2>3
<1>2. places \in SUBSET (1 .. M)
  BY <1>1
<1> HIDE DEF places, predicates
<1>3. /\ N \in Nat /\ s \in [1 .. N -> places] /\ Range(s) = places
      /\ \A j, k \in 1 .. N : j < k => s[j] < s[k]
  BY <1>0, <1>2, AscendingInOrder
<1>4. list = [n \in 1 .. N |-> qualified[s[n]]]
  <2>1. DOMAIN s = 1 .. N
    BY <1>3
  <2>2. list = [n \in DOMAIN s |-> qualified[s[n]]]
    BY DEF Selected
  <2> HIDE DEF s, list
  <2> QED BY <2>1, <2>2
<1> HIDE DEF s, list, N
<1>5. IsList(list) /\ Len(list) = N
  <2>1. list = [n \in 1 .. N |-> list[n]]
    BY <1>4
  <2> QED BY <1>3, <2>1, ListWith
<1>6. \A n \in 1 .. N : /\ s[n] \in 1 .. M /\ Satisfies(t, at[s[n]])
                        /\ at[s[n]] \in DOMAIN TableOf(t).rows
                        /\ list[n] = Qualified(t, at[s[n]])
  <2> TAKE n \in 1 .. N
  <2>1. s[n] \in places
    BY <1>3
  <2>2. s[n] \in 1 .. M /\ Satisfies(t, at[s[n]])
    BY <1>1, <2>1
  <2>3. list[n] = qualified[s[n]]
    BY <1>4
  <2> QED BY <1>0, <2>2, <2>3
<1>7. \A n \in 1 .. N : /\ e[n] = One(t, at[s[n]]) /\ e[n][t] = at[s[n]]
                        /\ e[n] \in Places({t})
  BY <1>6, OneIsAPlace
<1>8. e \in [1 .. N -> Matching({t}, {})]
  <2>1. \A n \in 1 .. N : e[n] \in Matching({t}, {})
    <3> TAKE n \in 1 .. N
    <3>1. e[n] \in Places({t}) /\ e[n][t] = at[s[n]] /\ Satisfies(t, at[s[n]])
      BY <1>6, <1>7
    <3> HIDE DEF e
    <3> QED BY <3>1 DEF Matching
  <2>2. e = [n \in 1 .. N |-> e[n]]
    OBVIOUS
  <2> HIDE DEF e
  <2> QED BY <2>1, <2>2
<1> HIDE DEF e
<1>9. \A i, k \in 1 .. N : e[i] = e[k] => i = k
  <2> TAKE i, k \in 1 .. N
  <2> HAVE e[i] = e[k]
  <2>1. at[s[i]] = at[s[k]]
    BY <1>7
  <2>2. s[i] = s[k] /\ s[i] \in Int /\ s[k] \in Int
    BY <1>0, <1>6, <2>1
  <2> QED BY <1>3, <2>2
<1>10. \A c \in Matching({t}, {}) : \E n \in 1 .. N : e[n] = c
  <2> TAKE c \in Matching({t}, {})
  <2>1. c \in Places({t}) /\ Satisfies(t, c[t])
    BY DEF Matching
  <2>2. c[t] \in DOMAIN TableOf(t).rows /\ c = One(t, c[t])
    BY <2>1, PlacesOfOne
  <2>3. PICK l \in 1 .. M : at[l] = c[t]
    BY <1>0, <2>1, <2>2
  <2>4. l \in places
    BY <1>1, <2>1, <2>3
  <2>5. PICK n \in 1 .. N : s[n] = l
    BY <1>3, <2>4 DEF Range
  <2>6. e[n] = One(t, c[t])
    BY <1>7, <2>3, <2>5
  <2> QED BY <2>2, <2>6
<1>11. \A n \in 1 .. N : list[n] = RowOf({t}, e[n])
  <2> TAKE n \in 1 .. N
  <2>1. RowOf({t}, e[n]) = Qualified(t, e[n][t])
    BY <1>7, RowOfOne
  <2> QED BY <1>6, <1>7, <2>1
<1>12. Enumerates(list, {t}, {})
  BY <1>5, <1>8, <1>9, <1>10, <1>11 DEF Enumerates
<1> QED BY <1>12 DEF list, places, predicates, Filtered

-----------------------------------------------------------------------------
(* Every match comes once in the output of a join, in whatever order.      *)
LEMMA SizesOfJoins ==
  ASSUME NEW operation, NEW left, IsList(left), NEW right, IsList(right)
  PROVE  /\ RowsPerBlock(operation) \in Nat \ {0}
         /\ PartitionCount(left, right) \in Nat \ {0}
<1>1. UsableFrames \in Nat \ {0}
  BY EvaluatorAssumption DEF UsableFrames, JoinFrames, AtLeastOne, AtLeast
<1> DEFINE u == UsableFrames
<1> HIDE DEF u
<1>2. u \in Nat \ {0} /\ TuplesPerPage \in Nat \ {0}
  BY <1>1, EvaluatorAssumption DEF u
<1>3. u * TuplesPerPage \in Nat \ {0}
  <2> DEFINE t == TuplesPerPage
  <2> HIDE DEF t
  <2>1. t \in Nat /\ u \in Nat /\ t # 0 /\ u # 0
    BY <1>2 DEF t
  <2>2. t * u \in Nat /\ t * u >= t * 1
    BY <2>1, TimesMonotonic
  <2>3. u * t = t * u
    BY <2>1
  <2> QED BY <2>1, <2>2, <2>3 DEF t
<1>4. RowsPerBlock(operation) \in Nat \ {0}
  BY <1>3 DEF RowsPerBlock, u
<1> DEFINE rs == BuildRows(left, right)
           pages == PagesOf(rs)
           needed == CeilDiv(pages, u)
<1>5. Len(rs) \in Nat
  BY ListFacts DEF BuildRows
<1>6. pages \in Nat
  <2> HIDE DEF rs
  <2> QED BY <1>2, <1>5, CeilDivBounds DEF PagesOf
<1>7. needed \in Nat
  <2> HIDE DEF pages
  <2> QED BY <1>2, <1>6, CeilDivBounds
<1>8. PartitionCount(left, right) \in {1, 2, needed} /\ (PartitionCount(left, right) = needed => needed >= 2 \/ needed = 1)
  <2> DEFINE many == AtLeast(2, needed)
  <2>1. many \in {2, needed} /\ (many = needed => needed >= 2)
    <3> HIDE DEF needed
    <3> QED BY <1>7 DEF AtLeast
  <2>2. PartitionCount(left, right) \in {1, many}
    BY DEF PartitionCount, u
  <2> HIDE DEF needed, many
  <2> QED BY <2>1, <2>2
<1> HIDE DEF needed
<1>9. PartitionCount(left, right) \in Nat \ {0}
  BY <1>7, <1>8
<1> QED BY <1>4, <1>9

LEMMA Triple ==
  ASSUME NEW a \in Int, NEW b \in Int, NEW c \in Int
  PROVE  /\ <<a, b, c>> \in [1 .. 3 -> Int]
         /\ <<a, b, c>>[2] = b /\ <<a, b, c>>[3] = c
<1>1. DOMAIN <<a, b, c>> = 1 .. 3
  OBVIOUS
<1> QED BY <1>1

LEMMA RanksOfMatches ==
  ASSUME NEW operation \in Range(JOIN_OPERATIONS),
         NEW left, IsList(left), NEW right, IsList(right),
         \A i \in DOMAIN left : left[i] \in Int /\ Hash[left[i]] \in Nat,
         NEW p \in MatchesOf(left, right)
  PROVE  LET r == OutputRank(operation, left, right, Hash, p)
         IN  /\ p[1] \in Nat /\ p[2] \in Nat /\ p = <<p[1], p[2]>>
             /\ r \in [1 .. 3 -> Int]
             /\ \/ operation \in {"nested_loop_join", "block_nested_loop_join"} /\ r[2] = p[2] /\ r[3] = p[1]
                \/ operation = "hash_join" /\ BuildIsLeft(left, right) /\ r[2] = p[2] /\ r[3] = p[1]
                \/ operation = "hash_join" /\ ~BuildIsLeft(left, right) /\ r[2] = p[1] /\ r[3] = p[2]
                \/ operation = "sort_merge_join" /\ r[2] = p[1] /\ r[3] = p[2]
<1> DEFINE r == OutputRank(operation, left, right, Hash, p)
<1>1. p[1] \in DOMAIN left /\ p[2] \in DOMAIN right /\ p = <<p[1], p[2]>>
  BY DEF MatchesOf
<1>2. p[1] \in Nat /\ p[2] \in Nat
  BY <1>1, ListFacts
<1>3. operation \in {"hash_join", "block_nested_loop_join", "sort_merge_join", "nested_loop_join"}
  BY DEF JOIN_OPERATIONS, Range
<1>4. /\ RowsPerBlock(operation) \in Nat \ {0} /\ PartitionCount(left, right) \in Nat \ {0}
  BY SizesOfJoins
<1>5. left[p[1]] \in Int /\ Hash[left[p[1]]] \in Nat
  BY <1>1
<1>6. PartitionOf(Hash, left[p[1]], left, right) \in Int
  BY <1>4, <1>5 DEF PartitionOf
<1>7. (p[1] - 1) \div RowsPerBlock(operation) \in Int
  BY <1>2, <1>4
<1>8. CASE operation \in {"nested_loop_join", "block_nested_loop_join"}
  <2>1. r = <<(p[1] - 1) \div RowsPerBlock(operation), p[2], p[1]>>
    BY <1>8 DEF OutputRank
  <2> HIDE DEF r
  <2>2. r \in [1 .. 3 -> Int] /\ r[2] = p[2] /\ r[3] = p[1]
    BY <1>2, <1>7, <2>1, Triple
  <2> QED BY <1>1, <1>2, <1>8, <2>2 DEF r
<1>9. CASE operation = "hash_join"
  <2>1. r = IF BuildIsLeft(left, right)
            THEN <<PartitionOf(Hash, left[p[1]], left, right), p[2], p[1]>>
            ELSE <<PartitionOf(Hash, left[p[1]], left, right), p[1], p[2]>>
    BY <1>9 DEF OutputRank
  <2> HIDE DEF r
  <2>2. /\ r \in [1 .. 3 -> Int]
        /\ BuildIsLeft(left, right) => r[2] = p[2] /\ r[3] = p[1]
        /\ ~BuildIsLeft(left, right) => r[2] = p[1] /\ r[3] = p[2]
    BY <1>2, <1>6, <2>1, Triple
  <2> QED BY <1>1, <1>2, <1>9, <2>2 DEF r
<1>10. CASE operation = "sort_merge_join"
  <2>1. r = <<left[p[1]], p[1], p[2]>>
    BY <1>10 DEF OutputRank
  <2> HIDE DEF r
  <2>2. r \in [1 .. 3 -> Int] /\ r[2] = p[1] /\ r[3] = p[2]
    BY <1>2, <1>5, <2>1, Triple
  <2> QED BY <1>1, <1>2, <1>10, <2>2 DEF r
<1> QED BY <1>3, <1>8, <1>9, <1>10

LEMMA OutputOrderIsTotal ==
  ASSUME NEW operation \in Range(JOIN_OPERATIONS),
         NEW left, IsList(left), NEW right, IsList(right),
         \A i \in DOMAIN left : left[i] \in Int /\ Hash[left[i]] \in Nat
  PROVE  IsTotalOrder(OutputOrder(operation, left, right, Hash), MatchesOf(left, right))
<1> DEFINE M == MatchesOf(left, right)
           rank(p) == OutputRank(operation, left, right, Hash, p)
           order == OutputOrder(operation, left, right, Hash)
           S == {rank(p) : p \in M}
           ranks == {pair \in S \X S : RankBefore(pair[1], pair[2])}
<1>1. ASSUME NEW p \in M
      PROVE  rank(p) \in [1 .. 3 -> Int]
  BY RanksOfMatches
<1>2. ASSUME NEW p \in M, NEW q \in M, rank(p) = rank(q)
      PROVE  p = q
  <2>1. p = <<p[1], p[2]>> /\ q = <<q[1], q[2]>>
    BY RanksOfMatches
  <2>2. /\ \/ operation \in {"nested_loop_join", "block_nested_loop_join"} /\ rank(p)[2] = p[2] /\ rank(p)[3] = p[1]
           \/ operation = "hash_join" /\ BuildIsLeft(left, right) /\ rank(p)[2] = p[2] /\ rank(p)[3] = p[1]
           \/ operation = "hash_join" /\ ~BuildIsLeft(left, right) /\ rank(p)[2] = p[1] /\ rank(p)[3] = p[2]
           \/ operation = "sort_merge_join" /\ rank(p)[2] = p[1] /\ rank(p)[3] = p[2]
    BY RanksOfMatches
  <2>3. /\ \/ operation \in {"nested_loop_join", "block_nested_loop_join"} /\ rank(q)[2] = q[2] /\ rank(q)[3] = q[1]
           \/ operation = "hash_join" /\ BuildIsLeft(left, right) /\ rank(q)[2] = q[2] /\ rank(q)[3] = q[1]
           \/ operation = "hash_join" /\ ~BuildIsLeft(left, right) /\ rank(q)[2] = q[1] /\ rank(q)[3] = q[2]
           \/ operation = "sort_merge_join" /\ rank(q)[2] = q[1] /\ rank(q)[3] = q[2]
    BY RanksOfMatches
  <2> HIDE DEF rank, M
  <2>4. p[1] = q[1] /\ p[2] = q[2]
    BY <1>2, <2>2, <2>3
  <2> QED BY <2>1, <2>4
<1>3. \A p, q \in M : <<p, q>> \in order <=> RankBefore(rank(p), rank(q))
  <2> TAKE p, q \in M
  <2>1. order = {pair \in {<<x, y>> : x, y \in M} : RankBefore(rank(pair[1]), rank(pair[2]))}
    BY DEF OutputOrder
  <2> HIDE DEF rank, M, order
  <2>2. <<p, q>>[1] = p /\ <<p, q>>[2] = q /\ <<p, q>> \in {<<x, y>> : x, y \in M}
    OBVIOUS
  <2> QED BY <2>1, <2>2
<1> HIDE DEF rank, M, order
<1>4. S \in SUBSET [1 .. 3 -> Int]
  BY <1>1
<1>5. IsTotalOrder(ranks, S)
  <2> HIDE DEF S
  <2> QED BY <1>4, RankIsTotal
<1>6. \A p, q \in M : <<rank(p), rank(q)>> \in ranks <=> RankBefore(rank(p), rank(q))
  <2> TAKE p, q \in M
  <2>1. rank(p) \in S /\ rank(q) \in S
    OBVIOUS
  <2> HIDE DEF S
  <2>2. <<rank(p), rank(q)>> \in S \X S
    BY <2>1
  <2> QED BY <2>2
<1>7. \A p \in M : rank(p) \in S
  OBVIOUS
<1> HIDE DEF S, ranks
<1>8. \A p, q \in M : <<p, q>> \in order <=> <<rank(p), rank(q)>> \in ranks
  BY <1>3, <1>6
<1>9. \A p \in M : <<p, p>> \notin order
  BY <1>5, <1>7, <1>8 DEF IsTotalOrder
<1>10. \A p, q \in M : p = q \/ <<p, q>> \in order \/ <<q, p>> \in order
  <2> TAKE p, q \in M
  <2>1. rank(p) = rank(q) \/ <<rank(p), rank(q)>> \in ranks \/ <<rank(q), rank(p)>> \in ranks
    BY <1>5, <1>7 DEF IsTotalOrder
  <2> QED BY <1>2, <1>8, <2>1
<1>11. \A p, q, x \in M : <<p, q>> \in order /\ <<q, x>> \in order => <<p, x>> \in order
  <2> TAKE p, q, x \in M
  <2> HAVE <<p, q>> \in order /\ <<q, x>> \in order
  <2>1. <<rank(p), rank(q)>> \in ranks /\ <<rank(q), rank(x)>> \in ranks
    BY <1>8
  <2>2. <<rank(p), rank(x)>> \in ranks
    BY <1>5, <1>7, <2>1 DEF IsTotalOrder
  <2> QED BY <1>8, <2>2
<1>12. IsTotalOrder(order, M)
  BY <1>9, <1>10, <1>11 DEF IsTotalOrder
<1> QED BY <1>12 DEF order, M

LEMMA JoinOutputFacts ==
  ASSUME NEW operation \in Range(JOIN_OPERATIONS),
         NEW left, IsList(left), NEW right, IsList(right),
         \A i \in DOMAIN left : left[i] \in Int /\ Hash[left[i]] \in Nat
  PROVE  LET pairs == JoinOutput(operation, left, right, Hash)
         IN  /\ IsList(pairs)
             /\ \A p \in 1 .. Len(pairs) :
                  /\ pairs[p][1] \in DOMAIN left /\ pairs[p][2] \in DOMAIN right
                  /\ left[pairs[p][1]] = right[pairs[p][2]]
             /\ \A i \in DOMAIN left, j \in DOMAIN right :
                  left[i] = right[j] => \E p \in 1 .. Len(pairs) : pairs[p] = <<i, j>>
             /\ \A p, q \in 1 .. Len(pairs) :
                  pairs[p][1] = pairs[q][1] /\ pairs[p][2] = pairs[q][2] => p = q
<1> DEFINE M == MatchesOf(left, right)
           order == OutputOrder(operation, left, right, Hash)
           pairs == Arranged(M, order)
           N == Cardinality(M)
<1>1. IsTotalOrder(order, M)
  BY OutputOrderIsTotal
<1>2. IsFiniteSet(M)
  <2>1. IsFiniteSet(DOMAIN left) /\ IsFiniteSet(DOMAIN right)
    BY ListFacts, FS_Interval
  <2>2. IsFiniteSet((DOMAIN left) \X (DOMAIN right))
    BY <2>1, FS_Product
  <2>3. M \subseteq (DOMAIN left) \X (DOMAIN right)
    BY DEF MatchesOf
  <2> QED BY <2>2, <2>3, FS_Subset
<1>3. /\ \A p \in M : /\ p[1] \in DOMAIN left /\ p[2] \in DOMAIN right /\ p = <<p[1], p[2]>>
                      /\ left[p[1]] = right[p[2]]
      /\ \A i \in DOMAIN left, j \in DOMAIN right : left[i] = right[j] => <<i, j>> \in M
  BY DEF MatchesOf
<1> HIDE DEF M, order
<1>4. /\ N \in Nat /\ pairs \in [1 .. N -> M] /\ IsInjective(pairs) /\ Range(pairs) = M
  BY <1>1, <1>2, ArrangedInOrder
<1> HIDE DEF pairs, N
<1>5. IsList(pairs) /\ Len(pairs) = N /\ DOMAIN pairs = 1 .. N
  <2>1. pairs = [i \in 1 .. N |-> pairs[i]]
    BY <1>4
  <2> QED BY <1>4, <2>1, ListWith
<1>6. \A p \in 1 .. N : pairs[p] \in M
  BY <1>4
<1>7. \A i \in DOMAIN left, j \in DOMAIN right :
        left[i] = right[j] => \E p \in 1 .. N : pairs[p] = <<i, j>>
  <2> TAKE i \in DOMAIN left, j \in DOMAIN right
  <2> HAVE left[i] = right[j]
  <2>1. <<i, j>> \in Range(pairs)
    BY <1>3, <1>4
  <2> QED BY <1>5, <2>1 DEF Range
<1>8. \A p, q \in 1 .. N : pairs[p][1] = pairs[q][1] /\ pairs[p][2] = pairs[q][2] => p = q
  <2> TAKE p, q \in 1 .. N
  <2> HAVE pairs[p][1] = pairs[q][1] /\ pairs[p][2] = pairs[q][2]
  <2>1. pairs[p] = pairs[q]
    BY <1>3, <1>6
  <2> QED BY <1>4, <1>5, <2>1 DEF IsInjective
<1>9. JoinOutput(operation, left, right, Hash) = pairs
  BY DEF JoinOutput, pairs, M, order
<1> QED BY <1>3, <1>5, <1>6, <1>7, <1>8, <1>9

-----------------------------------------------------------------------------
(* Scans.                                                                  *)
ScanOver(node, locations) ==
  LET pages == Tables[node.table_name].pages
      qualified == [l \in DOMAIN locations |->
                     QualifyRow(RowAt(pages, locations[l]), node.table_alias)]
  IN  Selected(qualified, {l \in DOMAIN qualified : MatchesAll(qualified[l], node.predicates)})

LEMMA ScanOverEnumerates ==
  ASSUME Live, NEW t \in DOMAIN query.tables, NEW node, ScanOf(query, node, query.tables[t]),
         NEW locations, NEW M, NEW at, Covers(t, M, at), DOMAIN locations = 1 .. M,
         \A l \in 1 .. M : RowAt(TableOf(t).pages, locations[l]) = TableOf(t).rows[at[l]]
  PROVE  Enumerates(ScanOver(node, locations), {t}, {})
<1> DEFINE pages == Tables[node.table_name].pages
           qualified == [l \in DOMAIN locations |->
                          QualifyRow(RowAt(pages, locations[l]), node.table_alias)]
<1>1. pages = TableOf(t).pages /\ node.table_alias = Alias(t) /\ node.predicates = PushedOf(query, query.tables[t])
  BY DEF ScanOf, TableOf, Alias
<1>2. qualified = [l \in 1 .. M |-> Qualified(t, at[l])]
  <2>1. \A l \in 1 .. M : QualifyRow(RowAt(pages, locations[l]), node.table_alias) = Qualified(t, at[l])
    BY <1>1 DEF Qualified
  <2> HIDE DEF pages
  <2> QED BY <2>1
<1>3. ScanOver(node, locations) = Filtered(qualified, PushedOf(query, query.tables[t]))
  BY <1>1 DEF ScanOver, Filtered
<1> HIDE DEF qualified
<1> QED BY <1>2, <1>3, SelectedEnumerates

(* The value an index scan looks up is that of a predicate of it.          *)
LEMMA IndexValueFacts ==
  ASSUME NEW node, IsList(node.predicates),
         \E p \in Range(node.predicates) : p.operator = "=" /\ p.column.name = node.index_column
  PROVE  \E p \in Range(node.predicates) :
           /\ p.operator = "=" /\ p.column.name = node.index_column
           /\ p.value = IndexValue(node)
<1> DEFINE places == {p \in DOMAIN node.predicates :
                        /\ node.predicates[p].column.name = node.index_column
                        /\ node.predicates[p].operator = "="}
           u == Selected(node.predicates, places)
<1>1. places \in SUBSET (DOMAIN node.predicates)
  OBVIOUS
<1>2. IndexValue(node) = u[1].value
  BY DEF IndexValue
<1>3. \E p \in places : TRUE
  BY DEF Range
<1>4. \A p \in places : /\ node.predicates[p] \in Range(node.predicates)
                        /\ node.predicates[p].column.name = node.index_column
                        /\ node.predicates[p].operator = "="
  BY DEF Range
<1> HIDE DEF places
<1>5. IsList(u) /\ Range(u) = {node.predicates[p] : p \in places}
  BY <1>1, SelectedFacts
<1> HIDE DEF u
<1>6. 1 \in 1 .. Len(u) /\ u[1] \in Range(u)
  <2>1. Len(u) \in Nat /\ Range(u) = {u[i] : i \in 1 .. Len(u)}
    BY <1>5, ListFacts
  <2>2. \E i \in 1 .. Len(u) : TRUE
    BY <1>3, <1>5, <2>1
  <2>3. 1 \in 1 .. Len(u)
    BY <2>1, <2>2
  <2> QED BY <2>1, <2>3
<1>7. PICK p \in places : u[1] = node.predicates[p]
  BY <1>5, <1>6
<1> QED BY <1>2, <1>4, <1>7

LEMMA ScanEnumerates ==
  ASSUME Live, NEW t \in DOMAIN query.tables, NEW node, ScanOf(query, node, query.tables[t])
  PROVE  Enumerates(ScanRows(node), {t}, {})
<1> DEFINE table == TableOf(t)
           rs == table.rows
<1>1. Tables[node.table_name] = table /\ node.table_name \in DOMAIN Tables
  BY TableFacts DEF ScanOf, TableOf
<1>2. IsList(rs) /\ table.target \in Nat /\ table.pages = MakePages(rs, table.target)
  BY TableFacts
<1>3. Len(rs) \in Nat /\ DOMAIN rs = 1 .. Len(rs)
  BY <1>2, ListFacts
<1>4. node.operation \in {"seq_scan", "index_scan"}
  BY DEF ScanOf, IsScan
<1>5. CASE node.operation = "seq_scan"
  <2> DEFINE scan == ScanOrder(table.pages)
             at == [l \in 1 .. Len(rs) |-> l]
  <2>1. [n \in DOMAIN scan |-> RowAt(table.pages, scan[n])] = rs
    BY <1>2, ScanOfPages DEF IsList
  <2>2. ScanRows(node) = ScanOver(node, scan)
    BY <1>1, <1>5 DEF ScanRows, ScanOver
  <2> HIDE DEF table, scan
  <2>3. DOMAIN scan = 1 .. Len(rs)
    BY <1>3, <2>1
  <2>4. \A l \in 1 .. Len(rs) : RowAt(table.pages, scan[l]) = rs[at[l]]
    BY <2>1, <2>3
  <2>5. /\ at \in [1 .. Len(rs) -> DOMAIN rs]
        /\ \A i, k \in 1 .. Len(rs) : at[i] = at[k] => i = k
        /\ \A i \in DOMAIN rs : \E l \in 1 .. Len(rs) : at[l] = i
    BY <1>3
  <2> HIDE DEF at
  <2>6. Covers(t, Len(rs), at)
    BY <1>3, <2>5 DEF Covers, table
  <2>7. \A l \in 1 .. Len(rs) : RowAt(TableOf(t).pages, scan[l]) = TableOf(t).rows[at[l]]
    BY <2>4 DEF table
  <2>8. Enumerates(ScanOver(node, scan), {t}, {})
    BY <2>3, <2>6, <2>7, ScanOverEnumerates
  <2> QED BY <2>2, <2>8
<1>6. CASE node.operation = "index_scan"
  <2> DEFINE column == node.index_column
             v == IndexValue(node)
             index == IndexOn(node.table_name, column)
             locations == EqualitySearch(index, v)
             asc == Ascending(RowsWith(rs, column, v))
             N == Cardinality(RowsWith(rs, column, v))
  <2>1. ScanRows(node) = ScanOver(node, locations)
    BY <1>6 DEF ScanRows, ScanOver, Locations
  <2>2. /\ IndexesOn(node.table_name, column) # {}
        /\ \E p \in Range(node.predicates) : p.operator = "=" /\ p.column.name = column
        /\ node.predicates = PushedOf(query, query.tables[t])
    BY <1>6 DEF ScanOf
  <2>3. IsList(node.predicates)
    BY <2>2, PushedPredicates
  <2>4. PICK p \in Range(PushedOf(query, query.tables[t])) :
          p.operator = "=" /\ p.column.name = column /\ p.value = v
    BY <2>2, <2>3, IndexValueFacts
  <2>5. locations = IF \E i \in DOMAIN rs : rs[i][column] = v
                    THEN LocationsOf(table.pages, column, v) ELSE <<>>
    BY <1>1, <2>2, SearchFacts
  <2>6. \A i \in DOMAIN rs : Satisfies(t, i) => rs[i][column] = v
    <3> TAKE i \in DOMAIN rs
    <3> HAVE Satisfies(t, i)
    <3>1. Compares(p.operator, rs[i][p.column.name], p.value)
      BY DEF Satisfies
    <3> QED BY <2>4, <3>1 DEF Compares
  <2>7. [k \in DOMAIN LocationsOf(table.pages, column, v) |->
           RowAt(table.pages, LocationsOf(table.pages, column, v)[k])]
          = [k \in DOMAIN asc |-> rs[asc[k]]]
    BY <1>2, LocationsOfValue DEF IsList
  <2>8. /\ N \in Nat /\ asc \in [1 .. N -> RowsWith(rs, column, v)]
        /\ Range(asc) = RowsWith(rs, column, v)
        /\ \A j, k \in 1 .. N : j < k => asc[j] < asc[k]
    <3>1. RowsWith(rs, column, v) \in SUBSET (1 .. Len(rs))
      BY <1>3 DEF RowsWith
    <3> QED BY <1>3, <3>1, AscendingInOrder
  <2> HIDE DEF table, locations, index, v, asc, N
  <2>9. CASE \E i \in DOMAIN rs : rs[i][column] = v
    <3>1. locations = LocationsOf(table.pages, column, v)
      BY <2>5, <2>9
    <3>2. [k \in DOMAIN locations |-> RowAt(table.pages, locations[k])] = [k \in 1 .. N |-> rs[asc[k]]]
      BY <2>7, <2>8, <3>1
    <3>3. DOMAIN locations = 1 .. N
      BY <3>2
    <3>4. \A l \in 1 .. N : RowAt(table.pages, locations[l]) = rs[asc[l]]
      BY <3>2, <3>3
    <3>5. asc \in [1 .. N -> DOMAIN rs]
      BY <2>8 DEF RowsWith
    <3>6. \A i, k \in 1 .. N : asc[i] = asc[k] => i = k
      <4> TAKE i, k \in 1 .. N
      <4>1. asc[i] \in Int /\ asc[k] \in Int
        BY <1>3, <3>5
      <4> QED BY <2>8, <4>1
    <3>7. \A i \in DOMAIN rs : Satisfies(t, i) => \E l \in 1 .. N : asc[l] = i
      <4> TAKE i \in DOMAIN rs
      <4> HAVE Satisfies(t, i)
      <4>1. i \in Range(asc)
        BY <2>6, <2>8 DEF RowsWith
      <4> QED BY <2>8, <4>1 DEF Range
    <3>8. Covers(t, N, asc)
      BY <2>8, <3>5, <3>6, <3>7 DEF Covers, table
    <3>9. \A l \in 1 .. N : RowAt(TableOf(t).pages, locations[l]) = TableOf(t).rows[asc[l]]
      BY <3>4 DEF table
    <3>10. Enumerates(ScanOver(node, locations), {t}, {})
      BY <3>3, <3>8, <3>9, ScanOverEnumerates
    <3> QED BY <2>1, <3>10
  <2>10. CASE ~\E i \in DOMAIN rs : rs[i][column] = v
    <3> DEFINE at == [l \in 1 .. 0 |-> l]
    <3>1. DOMAIN locations = 1 .. 0
      BY <2>5, <2>10, EmptyList
    <3>2. at \in [1 .. 0 -> DOMAIN rs]
      OBVIOUS
    <3>3. \A i \in DOMAIN rs : Satisfies(t, i) => \E l \in 1 .. 0 : at[l] = i
      BY <2>6, <2>10
    <3>4. \A l \in 1 .. 0 : FALSE
      OBVIOUS
    <3> HIDE DEF at
    <3>5. Enumerates(ScanOver(node, locations), {t}, {})
      <4>1. /\ \A i, k \in 1 .. 0 : at[i] = at[k] => i = k
            /\ \A l \in 1 .. 0 : RowAt(TableOf(t).pages, locations[l]) = TableOf(t).rows[at[l]]
        BY <3>4
      <4>2. Covers(t, 0, at)
        BY <3>2, <3>3, <4>1 DEF Covers, table
      <4> QED BY <3>1, <4>1, <4>2, ScanOverEnumerates
    <3> QED BY <2>1, <3>5
  <2> QED BY <2>9, <2>10
<1> QED BY <1>4, <1>5, <1>6, Zenon

-----------------------------------------------------------------------------
(* Joins.                                                                  *)
SidesIn(T, j) ==
  TableWith(query.joins[j].left.table_alias) \in T /\ TableWith(query.joins[j].right.table_alias) \in T

ChosenBy(list, T, e) ==
  IsList(list) /\ \A i \in 1 .. Len(list) : e[i] \in Places(T) /\ list[i] = RowOf(T, e[i])

HasSide(T, column) ==
  /\ T \subseteq DOMAIN query.tables /\ TableWith(column.table_alias) \in T
  /\ \E j \in DOMAIN query.joins : column \in {query.joins[j].left, query.joins[j].right}

LEMMA KeysOfSide ==
  ASSUME Live, NEW T, NEW column, HasSide(T, column),
         NEW list, NEW e, ChosenBy(list, T, e)
  PROVE  LET keys == KeysBy(list, column)
         IN  /\ IsList(keys) /\ Len(keys) = Len(list) /\ DOMAIN keys = 1 .. Len(list)
             /\ \A i \in 1 .. Len(list) : /\ keys[i] = SideValue(e[i], column)
                                          /\ keys[i] \in Int /\ Hash[keys[i]] \in Nat
<1> DEFINE keys == KeysBy(list, column)
           t == TableWith(column.table_alias)
<1>1. Len(list) \in Nat /\ DOMAIN list = 1 .. Len(list)
  BY ListFacts DEF ChosenBy
<1>2. keys = [i \in 1 .. Len(list) |-> ColumnValue(list[i], column)]
  BY <1>1 DEF KeysBy
<1>3. /\ t \in DOMAIN query.tables /\ column.name \in TableOf(t).columns /\ TablesOf(column) = {t}
  BY ConditionColumns DEF HasSide
<1>4. IsTheTable(t, column, T) /\ t \in T /\ T \subseteq DOMAIN query.tables
  BY <1>3 DEF IsTheTable, HasSide
<1> HIDE DEF t
<1>5. ASSUME NEW i \in 1 .. Len(list)
      PROVE  /\ ColumnValue(list[i], column) = TableOf(t).rows[e[i][t]][column.name]
             /\ e[i][t] \in DOMAIN TableOf(t).rows
  <2>1. e[i] \in Places(T) /\ list[i] = RowOf(T, e[i])
    BY DEF ChosenBy
  <2>2. ColumnValue(RowOf(T, e[i]), column) = TableOf(t).rows[e[i][t]][column.name]
    BY <1>4, <2>1, ColumnOfTable
  <2>3. e[i][t] \in DOMAIN TableOf(t).rows
    BY <1>4, <2>1 DEF Places
  <2> QED BY <2>1, <2>2, <2>3
<1>6. IsList(keys) /\ Len(keys) = Len(list) /\ DOMAIN keys = 1 .. Len(list)
  <2>1. keys = [i \in 1 .. Len(list) |-> keys[i]]
    BY <1>2
  <2> HIDE DEF keys
  <2> QED BY <1>1, <2>1, ListWith
<1> HIDE DEF keys
<1>7. ASSUME NEW i \in 1 .. Len(list)
      PROVE  /\ keys[i] = SideValue(e[i], column)
             /\ keys[i] \in Int /\ Hash[keys[i]] \in Nat
  <2>1. keys[i] = TableOf(t).rows[e[i][t]][column.name]
    BY <1>2, <1>5
  <2>2. keys[i] = SideValue(e[i], column)
    BY <2>1 DEF SideValue, t
  <2> QED BY <1>3, <1>5, <2>1, <2>2, TableFacts
<1> QED BY <1>6, <1>7 DEF keys

(* A choice from one more table.                                           *)
Both(T, u, c, d) == [t \in With(T, u) |-> IF t = u THEN d[u] ELSE c[t]]

LEMMA BothIsAPlace ==
  ASSUME NEW T, NEW u, u \notin T, NEW c \in Places(T), NEW d \in Places(Only(u))
  PROVE  /\ Both(T, u, c, d) \in Places(With(T, u))
         /\ \A t \in T : Both(T, u, c, d)[t] = c[t]
         /\ Both(T, u, c, d)[u] = d[u]
<1> DEFINE b == Both(T, u, c, d)
<1>1. b = [t \in With(T, u) |-> b[t]] /\ b[u] = d[u] /\ \A t \in T : b[t] = c[t]
  BY DEF Both, With
<1> HIDE DEF b
<1>2. \A t \in With(T, u) : b[t] \in DOMAIN TableOf(t).rows
  BY <1>1 DEF Places, With, Only
<1>3. b \in [With(T, u) -> UNION {DOMAIN TableOf(t).rows : t \in With(T, u)}]
  BY <1>1, <1>2
<1>4. b \in Places(With(T, u))
  BY <1>2, <1>3 DEF Places
<1> QED BY <1>1, <1>4 DEF b

LEMMA PartsOfPlace ==
  ASSUME NEW T, NEW u, u \notin T, NEW b \in Places(With(T, u))
  PROVE  \E c \in Places(T), d \in Places(Only(u)) : b = Both(T, u, c, d)
<1> DEFINE c == [t \in T |-> b[t]]
           d == One(u, b[u])
           s == Both(T, u, c, d)
<1>1. /\ b = [t \in With(T, u) |-> b[t]]
      /\ \A t \in With(T, u) : b[t] \in DOMAIN TableOf(t).rows
  BY DEF Places
<1>2. c = [t \in T |-> c[t]] /\ \A t \in T : c[t] = b[t]
  OBVIOUS
<1> HIDE DEF c
<1>3. c \in Places(T)
  <2>0. \A t \in T : t \in With(T, u)
    BY DEF With
  <2>1. c \in [T -> UNION {DOMAIN TableOf(t).rows : t \in T}]
    BY <1>1, <1>2, <2>0
  <2> QED BY <1>1, <1>2, <2>0, <2>1 DEF Places
<1>4. d \in Places(Only(u)) /\ d[u] = b[u]
  <2>1. u \in With(T, u)
    BY DEF With
  <2> QED BY <1>1, <2>1, OneIsAPlace DEF Only
<1> HIDE DEF d
<1>5. s = [t \in With(T, u) |-> s[t]] /\ \A t \in With(T, u) : s[t] = b[t]
  BY <1>2, <1>4 DEF Both, With
<1> HIDE DEF s
<1>6. b = s
  BY <1>1, <1>5
<1> QED BY <1>3, <1>4, <1>6 DEF s

LEMMA MatchingBoth ==
  ASSUME NEW T, NEW u, u \notin T, NEW C, \A j \in C : SidesIn(T, j),
         NEW k, NEW a, NEW b, TableWith(a.table_alias) \in T, TableWith(b.table_alias) = u,
         \/ a = query.joins[k].left /\ b = query.joins[k].right
         \/ a = query.joins[k].right /\ b = query.joins[k].left,
         NEW c \in Places(T), NEW d \in Places(Only(u))
  PROVE  Both(T, u, c, d) \in Matching(With(T, u), With(C, k))
           <=> c \in Matching(T, C) /\ d \in Matching(Only(u), {}) /\ SideValue(c, a) = SideValue(d, b)
<1> DEFINE x == Both(T, u, c, d)
<1>1. x \in Places(With(T, u)) /\ x[u] = d[u] /\ \A t \in T : x[t] = c[t]
  BY BothIsAPlace
<1> HIDE DEF x
<1>2. \A column : TableWith(column.table_alias) \in T => SideValue(x, column) = SideValue(c, column)
  BY <1>1 DEF SideValue
<1>3. SideValue(x, b) = SideValue(d, b) /\ SideValue(x, a) = SideValue(c, a)
  BY <1>1, <1>2 DEF SideValue
<1>4. (\A t \in With(T, u) : Satisfies(t, x[t])) <=> (\A t \in T : Satisfies(t, c[t])) /\ Satisfies(u, d[u])
  BY <1>1 DEF With
<1>5. \A j \in C : /\ SideValue(x, query.joins[j].left) = SideValue(c, query.joins[j].left)
                   /\ SideValue(x, query.joins[j].right) = SideValue(c, query.joins[j].right)
  BY <1>2 DEF SidesIn
<1>6. SideValue(x, query.joins[k].left) = SideValue(x, query.joins[k].right)
        <=> SideValue(c, a) = SideValue(d, b)
  BY <1>3
<1>7. x \in Matching(With(T, u), With(C, k))
        <=> /\ \A t \in With(T, u) : Satisfies(t, x[t])
            /\ \A j \in With(C, k) : SideValue(x, query.joins[j].left) = SideValue(x, query.joins[j].right)
  BY <1>1 DEF Matching
<1>8. c \in Matching(T, C)
        <=> /\ \A t \in T : Satisfies(t, c[t])
            /\ \A j \in C : SideValue(c, query.joins[j].left) = SideValue(c, query.joins[j].right)
  BY DEF Matching
<1>9. d \in Matching(Only(u), {}) <=> Satisfies(u, d[u])
  BY DEF Matching, Only
<1> QED BY <1>4, <1>5, <1>6, <1>7, <1>8, <1>9 DEF x, With

LEMMA SameParts ==
  ASSUME NEW T, NEW u, u \notin T, NEW c \in Places(T), NEW d \in Places(Only(u)),
         NEW f \in Places(T), NEW g \in Places(Only(u)), Both(T, u, c, d) = Both(T, u, f, g)
  PROVE  c = f /\ d = g
<1>1. \A t \in T : c[t] = f[t]
  BY BothIsAPlace
<1>2. d[u] = g[u]
  BY BothIsAPlace
<1>3. c = [t \in T |-> c[t]] /\ f = [t \in T |-> f[t]]
  BY DEF Places
<1>4. d = One(u, d[u]) /\ g = One(u, g[u])
  BY PlacesOfOne DEF Only
<1>5. c = f
  BY <1>1, <1>3
<1> QED BY <1>2, <1>4, <1>5

Joinable(T, u, C, k, a, b) ==
  /\ T \subseteq DOMAIN query.tables /\ u \in DOMAIN query.tables /\ u \notin T
  /\ \A j \in C : SidesIn(T, j)
  /\ k \in DOMAIN query.joins
  /\ \/ a = query.joins[k].left /\ b = query.joins[k].right
     \/ a = query.joins[k].right /\ b = query.joins[k].left
  /\ TableWith(a.table_alias) \in T /\ TableWith(b.table_alias) = u

JoinedBy(operation, left, right, a, b) ==
  LET pairs == JoinOutput(operation, KeysBy(left, a), KeysBy(right, b), Hash)
  IN  [p \in DOMAIN pairs |-> RowUnion(left[pairs[p][1]], right[pairs[p][2]])]

LEMMA JoinEnumerates ==
  ASSUME Live, NEW T, NEW u, NEW C, NEW k, NEW a, NEW b, Joinable(T, u, C, k, a, b),
         NEW left, Enumerates(left, T, C), NEW right, Enumerates(right, Only(u), {}),
         NEW operation \in Range(JOIN_OPERATIONS)
  PROVE  Enumerates(JoinedBy(operation, left, right, a, b), With(T, u), With(C, k))
<1> DEFINE lk == KeysBy(left, a)
           rk == KeysBy(right, b)
           pairs == JoinOutput(operation, lk, rk, Hash)
           list == JoinedBy(operation, left, right, a, b)
           N == Len(pairs)
<1>0. /\ T \subseteq DOMAIN query.tables /\ u \in DOMAIN query.tables /\ u \notin T
      /\ \A j \in C : SidesIn(T, j)
      /\ k \in DOMAIN query.joins
      /\ \/ a = query.joins[k].left /\ b = query.joins[k].right
         \/ a = query.joins[k].right /\ b = query.joins[k].left
      /\ TableWith(a.table_alias) \in T /\ TableWith(b.table_alias) = u
  BY DEF Joinable
<1>1. IsList(left) /\ IsList(right)
  BY DEF Enumerates
<1>2. PICK e \in [1 .. Len(left) -> Matching(T, C)] :
       /\ \A i, j \in 1 .. Len(left) : e[i] = e[j] => i = j
       /\ \A c \in Matching(T, C) : \E i \in 1 .. Len(left) : e[i] = c
       /\ \A i \in 1 .. Len(left) : left[i] = RowOf(T, e[i])
  BY DEF Enumerates
<1>3. PICK f \in [1 .. Len(right) -> Matching(Only(u), {})] :
       /\ \A i, j \in 1 .. Len(right) : f[i] = f[j] => i = j
       /\ \A c \in Matching(Only(u), {}) : \E i \in 1 .. Len(right) : f[i] = c
       /\ \A i \in 1 .. Len(right) : right[i] = RowOf(Only(u), f[i])
  BY DEF Enumerates
<1>4. \A i \in 1 .. Len(left) : e[i] \in Matching(T, C) /\ e[i] \in Places(T) /\ left[i] = RowOf(T, e[i])
  BY <1>2 DEF Matching
<1>5. \A i \in 1 .. Len(right) : f[i] \in Matching(Only(u), {}) /\ f[i] \in Places(Only(u)) /\ right[i] = RowOf(Only(u), f[i])
  BY <1>3 DEF Matching
<1>6. /\ IsList(lk) /\ DOMAIN lk = 1 .. Len(left)
      /\ \A i \in 1 .. Len(left) : /\ lk[i] = SideValue(e[i], a)
                                   /\ lk[i] \in Int /\ Hash[lk[i]] \in Nat
  <2>1. HasSide(T, a)
    BY <1>0 DEF HasSide
  <2>2. ChosenBy(left, T, e)
    BY <1>1, <1>4 DEF ChosenBy
  <2> QED BY <2>1, <2>2, KeysOfSide
<1>7. /\ IsList(rk) /\ DOMAIN rk = 1 .. Len(right)
      /\ \A i \in 1 .. Len(right) : rk[i] = SideValue(f[i], b)
  <2>1. HasSide(Only(u), b)
    BY <1>0 DEF HasSide, Only
  <2>2. ChosenBy(right, Only(u), f)
    BY <1>1, <1>5 DEF ChosenBy
  <2> QED BY <2>1, <2>2, KeysOfSide
<1> HIDE DEF lk, rk
<1>8. /\ IsList(pairs)
      /\ \A p \in 1 .. N :
           /\ pairs[p][1] \in 1 .. Len(left) /\ pairs[p][2] \in 1 .. Len(right)
           /\ lk[pairs[p][1]] = rk[pairs[p][2]]
      /\ \A i \in 1 .. Len(left), j \in 1 .. Len(right) :
           lk[i] = rk[j] => \E p \in 1 .. N : pairs[p] = <<i, j>>
      /\ \A p, q \in 1 .. N :
           pairs[p][1] = pairs[q][1] /\ pairs[p][2] = pairs[q][2] => p = q
  <2>1. \A i \in DOMAIN lk : lk[i] \in Int /\ Hash[lk[i]] \in Nat
    BY <1>6
  <2>2. /\ IsList(pairs)
        /\ \A p \in 1 .. Len(pairs) :
             /\ pairs[p][1] \in DOMAIN lk /\ pairs[p][2] \in DOMAIN rk
             /\ lk[pairs[p][1]] = rk[pairs[p][2]]
        /\ \A i \in DOMAIN lk, j \in DOMAIN rk :
             lk[i] = rk[j] => \E p \in 1 .. Len(pairs) : pairs[p] = <<i, j>>
        /\ \A p, q \in 1 .. Len(pairs) :
             pairs[p][1] = pairs[q][1] /\ pairs[p][2] = pairs[q][2] => p = q
    BY <1>6, <1>7, <2>1, JoinOutputFacts
  <2> HIDE DEF pairs
  <2> QED BY <1>6, <1>7, <2>2
<1>9. list = [p \in DOMAIN pairs |-> RowUnion(left[pairs[p][1]], right[pairs[p][2]])]
  BY DEF JoinedBy, lk, rk
<1>10. N \in Nat /\ DOMAIN pairs = 1 .. N
  BY <1>8, ListFacts
<1> HIDE DEF pairs, list, N
<1>11. IsList(list) /\ Len(list) = N /\ DOMAIN list = 1 .. N
  <2>1. list = [p \in 1 .. N |-> list[p]]
    BY <1>9, <1>10
  <2> QED BY <1>10, <2>1, ListWith
<1> DEFINE both(p) == Both(T, u, e[pairs[p][1]], f[pairs[p][2]])
           g == [p \in 1 .. N |-> both(p)]
<1>12. \A p \in 1 .. N : both(p) \in Matching(With(T, u), With(C, k))
  <2> TAKE p \in 1 .. N
  <2>1. pairs[p][1] \in 1 .. Len(left) /\ pairs[p][2] \in 1 .. Len(right)
    BY <1>8
  <2>2. SideValue(e[pairs[p][1]], a) = SideValue(f[pairs[p][2]], b)
    BY <1>6, <1>7, <1>8, <2>1
  <2>3. /\ e[pairs[p][1]] \in Matching(T, C) /\ e[pairs[p][1]] \in Places(T)
        /\ f[pairs[p][2]] \in Matching(Only(u), {}) /\ f[pairs[p][2]] \in Places(Only(u))
    BY <1>4, <1>5, <2>1
  <2> QED BY <1>0, <2>2, <2>3, MatchingBoth, SMTT(30)
<1>13. \A p, q \in 1 .. N : both(p) = both(q) => p = q
  <2> TAKE p, q \in 1 .. N
  <2> HAVE both(p) = both(q)
  <2>1. /\ pairs[p][1] \in 1 .. Len(left) /\ pairs[p][2] \in 1 .. Len(right)
        /\ pairs[q][1] \in 1 .. Len(left) /\ pairs[q][2] \in 1 .. Len(right)
    BY <1>8
  <2>2. e[pairs[p][1]] = e[pairs[q][1]] /\ f[pairs[p][2]] = f[pairs[q][2]]
    BY <1>0, <1>4, <1>5, <2>1, SameParts, SMTT(30)
  <2>3. pairs[p][1] = pairs[q][1] /\ pairs[p][2] = pairs[q][2]
    BY <1>2, <1>3, <2>1, <2>2
  <2> QED BY <1>8, <2>3
<1>14. \A x \in Matching(With(T, u), With(C, k)) : \E p \in 1 .. N : both(p) = x
  <2> TAKE x \in Matching(With(T, u), With(C, k))
  <2>1. x \in Places(With(T, u))
    BY DEF Matching
  <2>2. PICK c \in Places(T), d \in Places(Only(u)) : x = Both(T, u, c, d)
    BY <1>0, <2>1, PartsOfPlace
  <2>3. c \in Matching(T, C) /\ d \in Matching(Only(u), {}) /\ SideValue(c, a) = SideValue(d, b)
    BY <1>0, <2>2, MatchingBoth
  <2>4. PICK i \in 1 .. Len(left) : e[i] = c
    BY <1>2, <2>3
  <2>5. PICK j \in 1 .. Len(right) : f[j] = d
    BY <1>3, <2>3
  <2>6. lk[i] = rk[j]
    BY <1>6, <1>7, <2>3, <2>4, <2>5
  <2>7. PICK p \in 1 .. N : pairs[p] = <<i, j>>
    BY <1>8, <2>6
  <2>8. pairs[p][1] = i /\ pairs[p][2] = j
    BY <2>7
  <2>9. both(p) = x
    BY <2>2, <2>4, <2>5, <2>8
  <2> QED BY <2>9
<1>15. \A p \in 1 .. N : list[p] = RowOf(With(T, u), both(p))
  <2> TAKE p \in 1 .. N
  <2> DEFINE c == e[pairs[p][1]]
             d == f[pairs[p][2]]
  <2>1. pairs[p][1] \in 1 .. Len(left) /\ pairs[p][2] \in 1 .. Len(right)
    BY <1>8
  <2>2. list[p] = RowUnion(left[pairs[p][1]], right[pairs[p][2]])
    BY <1>9, <1>10
  <2>3. c \in Places(T) /\ d \in Places(Only(u)) /\ left[pairs[p][1]] = RowOf(T, c) /\ right[pairs[p][2]] = RowOf(Only(u), d)
    BY <1>4, <1>5, <2>1
  <2>4. both(p) = Both(T, u, c, d)
    OBVIOUS
  <2> HIDE DEF c, d, both
  <2>5. both(p) \in Places(With(T, u)) /\ both(p)[u] = d[u] /\ \A t \in T : both(p)[t] = c[t]
    BY <1>0, <2>3, <2>4, BothIsAPlace
  <2>6. RowUnion(RowOf(T, c), RowOf(Only(u), d)) = RowOf(With(T, u), both(p))
    BY <1>0, <2>3, <2>5, RowOfMore
  <2> QED BY <2>2, <2>3, <2>6
<1>16. g = [p \in 1 .. N |-> g[p]] /\ \A p \in 1 .. N : g[p] = both(p)
  OBVIOUS
<1> HIDE DEF both, g
<1>17. /\ g \in [1 .. N -> Matching(With(T, u), With(C, k))]
       /\ \A i, j \in 1 .. N : g[i] = g[j] => i = j
       /\ \A c \in Matching(With(T, u), With(C, k)) : \E i \in 1 .. N : g[i] = c
       /\ \A i \in 1 .. N : list[i] = RowOf(With(T, u), g[i])
  BY <1>12, <1>13, <1>14, <1>15, <1>16
<1>18. Enumerates(list, With(T, u), With(C, k))
  BY <1>11, <1>17 DEF Enumerates
<1> QED BY <1>18 DEF list

LEMMA ScanEnumeratesOne ==
  ASSUME Live, NEW t \in DOMAIN query.tables, NEW node, ScanOf(query, node, query.tables[t])
  PROVE  Enumerates(ScanRows(node), Only(t), {})
<1>1. Only(t) = {t}
  BY DEF Only
<1> QED BY <1>1, ScanEnumerates

-----------------------------------------------------------------------------
(* The nodes of a plan.                                                    *)
FirstOf(list, j) == {list[s] : s \in 1 .. j}
FirstConditions(base, j) == {nodes[base + i].condition : i \in 1 .. j}

LeftSide(node) ==
  IF ReversedIn(query, nodes, node) THEN query.joins[node.condition].right
                                    ELSE query.joins[node.condition].left
RightSide(node) ==
  IF ReversedIn(query, nodes, node) THEN query.joins[node.condition].left
                                    ELSE query.joins[node.condition].right

LEMMA OrderFacts ==
  ASSUME Live, NEW order, NEW access, NEW base, LeftDeep(query, nodes, root, order, access, base)
  PROVE  LET m == Len(query.tables)
         IN  /\ m \in Nat \ {0} /\ DOMAIN query.tables = 1 .. m
             /\ \A t \in 1 .. m : /\ order[t] \in DOMAIN query.tables
                                  /\ ScanOf(query, nodes[access[t]], query.tables[order[t]])
                                  /\ nodes[access[t]].table_alias = Alias(order[t])
                                  /\ TableWith(Alias(order[t])) = order[t]
             /\ \A s, t \in 1 .. m : Alias(order[s]) = Alias(order[t]) => s = t
             /\ \A s, t \in 1 .. m : order[s] = order[t] => s = t
             /\ FirstOf(order, m) = DOMAIN query.tables
             /\ FirstConditions(base, m - 1) = DOMAIN query.joins
<1> DEFINE m == Len(query.tables)
<1>1. m \in Nat \ {0} /\ DOMAIN query.tables = 1 .. m
  BY QueryFacts DEF Live
<1>2. /\ order \in [1 .. m -> 1 .. m] /\ IsInjective(order)
      /\ \A t \in 1 .. m : ScanOf(query, nodes[access[t]], query.tables[order[t]])
      /\ \A j \in 1 .. m - 1 : nodes[base + j].condition \in DOMAIN query.joins
      /\ \A c \in DOMAIN query.joins : \E j \in 1 .. m - 1 : nodes[base + j].condition = c
  BY DEF LeftDeep
<1> HIDE DEF m
<1>3. \A s, t \in 1 .. m : order[s] = order[t] => s = t
  BY <1>2 DEF IsInjective
<1>4. \A t \in 1 .. m : order[t] \in DOMAIN query.tables
  BY <1>1, <1>2
<1>5. \A t \in 1 .. m : TableWith(Alias(order[t])) = order[t]
  BY <1>4, TableFacts
<1>6. \A t \in 1 .. m : nodes[access[t]].table_alias = Alias(order[t])
  BY <1>2 DEF ScanOf, Alias
<1>7. \A s, t \in 1 .. m : Alias(order[s]) = Alias(order[t]) => s = t
  BY <1>3, <1>5
<1>8. FirstOf(order, m) = DOMAIN query.tables
  <2>1. order \in Injection(1 .. m, 1 .. m)
    BY <1>2, <1>3 DEF Injection
  <2>2. IsFiniteSet(1 .. m)
    BY <1>1, FS_Interval
  <2>3. order \in Surjection(1 .. m, 1 .. m)
    BY <2>1, <2>2, FS_Injection
  <2>4. \A t \in 1 .. m : \E s \in 1 .. m : order[s] = t
    BY <2>3 DEF Surjection
  <2>5. \A s \in 1 .. m : order[s] \in 1 .. m
    BY <1>2
  <2>6. {order[s] : s \in 1 .. m} = 1 .. m
    BY <2>4, <2>5
  <2> QED BY <1>1, <2>6 DEF FirstOf
<1>9. FirstConditions(base, m - 1) = DOMAIN query.joins
  BY <1>2, Zenon DEF FirstConditions
<1> QED BY <1>1, <1>2, <1>3, <1>4, <1>5, <1>6, <1>7, <1>8, <1>9 DEF m

(* The condition of a join connects the table that comes to those there.   *)
LEMMA ConnectedTables ==
  ASSUME Live, NEW order, NEW access, NEW base, LeftDeep(query, nodes, root, order, access, base),
         NEW j \in 1 .. Len(query.tables) - 1
  PROVE  LET k == nodes[base + j].condition
             left == query.joins[k].left.table_alias
             right == query.joins[k].right.table_alias
         IN  /\ k \in DOMAIN query.joins
             /\ \/ \E s \in 1 .. j : left = Alias(order[s]) /\ right = Alias(order[j + 1])
                \/ \E s \in 1 .. j : right = Alias(order[s]) /\ left = Alias(order[j + 1])
<1> DEFINE m == Len(query.tables)
           k == nodes[base + j].condition
           left == query.joins[k].left.table_alias
           right == query.joins[k].right.table_alias
<1>1. m \in Nat \ {0}
  BY QueryFacts DEF Live
<1>2. /\ k \in DOMAIN query.joins
      /\ Connects(query.joins[k], {Alias(order[s]) : s \in 1 .. j}, Alias(order[j + 1]))
  BY DEF LeftDeep, Alias
<1>3. \A s \in 1 .. j : s \in 1 .. m /\ j + 1 \in 1 .. m /\ s # j + 1
  BY <1>1
<1>4. \A s \in 1 .. j : Alias(order[s]) # Alias(order[j + 1])
  BY <1>3, OrderFacts
<1>5. Alias(order[j + 1]) \in {left, right}
  <2>1. Connects(query.joins[k], {Alias(order[s]) : s \in 1 .. j}, Alias(order[j + 1]))
    BY <1>2, Zenon
  <2> QED BY <2>1, Zenon DEF Connects
<1>6. \E s \in 1 .. j : Alias(order[s]) \in {left, right}
  BY <1>2 DEF Connects
<1> HIDE DEF left, right
<1>7. \/ \E s \in 1 .. j : left = Alias(order[s]) /\ right = Alias(order[j + 1])
      \/ \E s \in 1 .. j : right = Alias(order[s]) /\ left = Alias(order[j + 1])
  BY <1>4, <1>5, <1>6
<1> QED BY <1>2, <1>7, Zenon DEF left, right

LEMMA LeavesBelow ==
  ASSUME PlanInv, Live, NEW order, NEW access, NEW base,
         LeftDeep(query, nodes, root, order, access, base), NEW j \in 1 .. Len(query.tables) - 1
  PROVE  ScanLeaves(nodes, nodes[base + j].children[1]) = FirstOf(access, j)
<1> DEFINE m == Len(query.tables)
<1>1. WellFormed(nodes) /\ m \in Nat \ {0}
  BY QueryFacts DEF PlanInv
<1>2. /\ base \in Nat
      /\ \A t \in 1 .. m : access[t] \in 1 .. base /\ IsScan(nodes[access[t]])
      /\ \A i \in 1 .. m - 1 :
           /\ IsJoin(nodes[base + i])
           /\ nodes[base + i].children = <<TopOf(access, base, i - 1), access[i + 1]>>
  <2>1. PlanShape(nodes, root, m, access, base)
    BY <1>1, PlanFacts
  <2> QED BY <2>1 DEF PlanShape
<1>3. \A i \in 0 .. m - 1 : Tree(nodes, TopOf(access, base, i))
         = {access[s] : s \in 1 .. i + 1} \cup (base + 1 .. base + i)
  BY <1>1, TreeOfPlan
<1> HIDE DEF m
<1>4. j \in 1 .. m - 1 /\ j - 1 \in 0 .. m - 1 /\ (j - 1) + 1 = j
  BY <1>1 DEF m
<1>5. Tree(nodes, TopOf(access, base, j - 1)) = {access[s] : s \in 1 .. j} \cup (base + 1 .. base + (j - 1))
  BY <1>3, <1>4
<1>6. nodes[base + j].children[1] = TopOf(access, base, j - 1)
  BY <1>2, <1>4
<1>7. ASSUME NEW n \in base + 1 .. base + (j - 1)  PROVE ~IsScan(nodes[n])
  <2>1. n - base \in 1 .. m - 1 /\ base + (n - base) = n
    BY <1>1, <1>2, <1>4
  <2>2. IsJoin(nodes[n])
    BY <1>2, <2>1
  <2> QED BY <2>2 DEF IsJoin, IsScan
<1>8. \A s \in 1 .. j : IsScan(nodes[access[s]])
  BY <1>1, <1>2, <1>4
<1> DEFINE A == {access[s] : s \in 1 .. j}
           top == TopOf(access, base, j - 1)
<1>9. ScanLeaves(nodes, top) = {n \in Tree(nodes, top) : IsScan(nodes[n])}
  BY DEF ScanLeaves, Tree, ToSet, Range
<1>10. \A n \in A : IsScan(nodes[n])
  BY <1>8
<1>11. Tree(nodes, top) = A \cup (base + 1 .. base + (j - 1))
  BY <1>5
<1> HIDE DEF A, top
<1>12. ScanLeaves(nodes, top) = A
  BY <1>7, <1>9, <1>10, <1>11
<1> QED BY <1>6, <1>12 DEF A, top, FirstOf

LEMMA JoinsAreJoinable ==
  ASSUME PlanInv, Live, NEW order, NEW access, NEW base,
         LeftDeep(query, nodes, root, order, access, base), NEW j \in 1 .. Len(query.tables) - 1
  PROVE  Joinable(FirstOf(order, j), order[j + 1], FirstConditions(base, j - 1),
                  nodes[base + j].condition, LeftSide(nodes[base + j]), RightSide(nodes[base + j]))
<1> DEFINE m == Len(query.tables)
           node == nodes[base + j]
           k == node.condition
           left == query.joins[k].left
           right == query.joins[k].right
           T == FirstOf(order, j)
           u == order[j + 1]
<1>1. /\ m \in Nat \ {0} /\ DOMAIN query.tables = 1 .. m
      /\ \A t \in 1 .. m : /\ order[t] \in DOMAIN query.tables
                           /\ nodes[access[t]].table_alias = Alias(order[t])
                           /\ TableWith(Alias(order[t])) = order[t]
      /\ \A s, t \in 1 .. m : Alias(order[s]) = Alias(order[t]) => s = t
      /\ \A s, t \in 1 .. m : order[s] = order[t] => s = t
  BY OrderFacts
<1> HIDE DEF m
<1>2. j \in 1 .. m - 1 /\ j + 1 \in 1 .. m /\ \A s \in 1 .. j : s \in 1 .. m /\ s # j + 1
  BY <1>1 DEF m
<1>3. /\ k \in DOMAIN query.joins
      /\ \/ \E s \in 1 .. j : left.table_alias = Alias(order[s]) /\ right.table_alias = Alias(u)
         \/ \E s \in 1 .. j : right.table_alias = Alias(order[s]) /\ left.table_alias = Alias(u)
  BY ConnectedTables
<1>4. T \subseteq DOMAIN query.tables /\ u \in DOMAIN query.tables /\ u \notin T
  <2>1. \A s \in 1 .. j : order[s] \in DOMAIN query.tables /\ order[s] # u
    BY <1>1, <1>2
  <2>2. u \in DOMAIN query.tables
    BY <1>1, <1>2
  <2> QED BY <2>1, <2>2 DEF FirstOf
<1>5. \A s \in 1 .. j : order[s] \in T
  BY DEF FirstOf
<1>6. ScanLeaves(nodes, nodes[base + j].children[1]) = FirstOf(access, j)
  BY LeavesBelow
<1>7. ReversedIn(query, nodes, node) <=> \A s \in 1 .. j : Alias(order[s]) # left.table_alias
  <2>1. ReversedIn(query, nodes, node) <=> \A s \in 1 .. j : nodes[access[s]].table_alias # left.table_alias
    BY <1>6 DEF ReversedIn, FirstOf
  <2> QED BY <1>1, <1>2, <2>1
<1>8. \A i \in FirstConditions(base, j - 1) : SidesIn(T, i)
  <2> TAKE c \in FirstConditions(base, j - 1)
  <2>1. PICK i \in 1 .. j - 1 : c = nodes[base + i].condition
    BY DEF FirstConditions
  <2>2. i \in 1 .. Len(query.tables) - 1 /\ i \in 1 .. m - 1 /\ i + 1 \in 1 .. j
    BY <1>1, <1>2, <2>1 DEF m
  <2>3. LET l == query.joins[c].left.table_alias
            r == query.joins[c].right.table_alias
        IN  \/ \E s \in 1 .. i : l = Alias(order[s]) /\ r = Alias(order[i + 1])
            \/ \E s \in 1 .. i : r = Alias(order[s]) /\ l = Alias(order[i + 1])
    BY <2>1, <2>2, ConnectedTables
  <2>4. \A s \in 1 .. i : s \in 1 .. j
    BY <2>2
  <2>5. \A s \in 1 .. j : TableWith(Alias(order[s])) \in T
    BY <1>1, <1>2, <1>5
  <2> QED BY <2>2, <2>3, <2>4, <2>5 DEF SidesIn
<1>9. CASE ReversedIn(query, nodes, node)
  <2>1. LeftSide(node) = right /\ RightSide(node) = left
    BY <1>9, Zenon DEF LeftSide, RightSide
  <2>2. PICK s \in 1 .. j : right.table_alias = Alias(order[s]) /\ left.table_alias = Alias(u)
    BY <1>3, <1>7, <1>9, Zenon
  <2>3. TableWith(right.table_alias) \in T /\ TableWith(left.table_alias) = u
    BY <1>1, <1>2, <1>5, <2>2
  <2> HIDE DEF T, u, left, right, k, node
  <2>4. Joinable(T, u, FirstConditions(base, j - 1), k, right, left)
    BY <1>3, <1>4, <1>8, <2>3 DEF Joinable, left, right
  <2> QED BY <2>1, <2>4 DEF T, u, k, node
<1>10. CASE ~ReversedIn(query, nodes, node)
  <2>1. LeftSide(node) = left /\ RightSide(node) = right
    BY <1>10 DEF LeftSide, RightSide
  <2>2. PICK s \in 1 .. j : Alias(order[s]) = left.table_alias
    BY <1>7, <1>10
  <2>3. left.table_alias # Alias(u)
    <3>1. /\ \A p, q \in 1 .. m : Alias(order[p]) = Alias(order[q]) => p = q
          /\ s \in 1 .. m /\ j + 1 \in 1 .. m /\ s # j + 1
      BY <1>1, <1>2, SMTT(30)
    <3> QED BY <2>2, <3>1
  <2>4. right.table_alias = Alias(u)
    BY <1>3, <2>3
  <2>5. TableWith(left.table_alias) \in T /\ TableWith(right.table_alias) = u
    BY <1>1, <1>2, <1>5, <2>2, <2>4
  <2> HIDE DEF T, u, left, right, k, node
  <2>6. Joinable(T, u, FirstConditions(base, j - 1), k, left, right)
    BY <1>3, <1>4, <1>8, <2>5 DEF Joinable, left, right
  <2> QED BY <2>1, <2>6 DEF T, u, k, node
<1> QED BY <1>9, <1>10

LEMMA PlanIsLive ==
  ASSUME PlanInv, IsPlan(query, table_stats, nodes, root)
  PROVE  Live
BY DEF PlanInv, IsPlan, Live

LEMMA FirstMore ==
  ASSUME NEW order, NEW base, NEW j \in Nat \ {0}
  PROVE  /\ FirstOf(order, j + 1) = With(FirstOf(order, j), order[j + 1])
         /\ FirstConditions(base, j) = With(FirstConditions(base, j - 1), nodes[base + j].condition)
<1>1. \A s : s \in 1 .. j + 1 <=> s \in 1 .. j \/ s = j + 1
  OBVIOUS
<1>2. \A s : s \in 1 .. j <=> s \in 1 .. j - 1 \/ s = j
  OBVIOUS
<1>3. FirstOf(order, j + 1) = With(FirstOf(order, j), order[j + 1])
  BY <1>1 DEF FirstOf, With
<1>4. FirstConditions(base, j) = With(FirstConditions(base, j - 1), nodes[base + j].condition)
  BY <1>2 DEF FirstConditions, With
<1> QED BY <1>3, <1>4

(* A scan of a plan has the rows of its table that satisfy its predicates. *)
LEMMA LeafEnumerates ==
  ASSUME Live, RowsInv, NEW order, NEW access, NEW base,
         LeftDeep(query, nodes, root, order, access, base),
         NEW t \in 1 .. Len(query.tables), access[t] \in DOMAIN rows
  PROVE  Enumerates(rows[access[t]], Only(order[t]), {})
<1>1. order[t] \in DOMAIN query.tables /\ ScanOf(query, nodes[access[t]], query.tables[order[t]])
  BY OrderFacts
<1>2. rows[access[t]] = ScanRows(nodes[access[t]])
  BY <1>1 DEF RowsInv, Evaluated, ScanOf
<1> QED BY <1>1, <1>2, ScanEnumeratesOne

(* A join of a plan has the rows of its tables that satisfy the conditions *)
(* below it and its own, if its left input has those that satisfy them.    *)
LEMMA NextTop ==
  ASSUME PlanInv, Live, RowsInv, NEW order, NEW access, NEW base,
         LeftDeep(query, nodes, root, order, access, base),
         NEW j \in 1 .. Len(query.tables) - 1, base + j \in DOMAIN rows,
         TopOf(access, base, j - 1) \in DOMAIN rows =>
           Enumerates(rows[TopOf(access, base, j - 1)], FirstOf(order, j), FirstConditions(base, j - 1))
  PROVE  Enumerates(rows[base + j], FirstOf(order, j + 1), FirstConditions(base, j))
<1> DEFINE top == TopOf(access, base, j - 1)
           leaf == access[j + 1]
           node == nodes[base + j]
           left == rows[top]
           right == rows[leaf]
           k == node.condition
           u == order[j + 1]
<1>1. /\ Len(query.tables) \in Nat \ {0} /\ WellFormed(nodes)
      /\ j \in Nat \ {0} /\ j + 1 \in 1 .. Len(query.tables)
  BY QueryFacts DEF Live, PlanInv
<1>2. /\ IsJoin(node) /\ node.operation \in Range(JOIN_OPERATIONS)
      /\ node.children = <<top, leaf>>
  <2>1. node.operation \in Range(JOIN_OPERATIONS)
    BY DEF LeftDeep
  <2>2. node.children = <<top, leaf>>
    BY DEF LeftDeep
  <2>3. IsJoin(nodes[base + j])
    <3>1. PlanShape(nodes, root, Len(query.tables), access, base)
      BY <1>1, PlanFacts
    <3> QED BY <1>1, <3>1 DEF PlanShape
  <2> QED BY <2>1, <2>2, <2>3
<1>3. node.children[1] = top /\ node.children[2] = leaf
  BY <1>2
<1>4. Evaluated(query, nodes, rows, base + j)
  BY DEF RowsInv
<1>5. /\ top \in DOMAIN rows /\ leaf \in DOMAIN rows
      /\ rows[base + j] = JoinedRows(query, nodes, node, left, right)
  BY <1>2, <1>3, <1>4 DEF Evaluated
<1>6. Enumerates(left, FirstOf(order, j), FirstConditions(base, j - 1))
  BY <1>5
<1>7. Enumerates(right, Only(u), {})
  BY <1>1, <1>5, LeafEnumerates
<1>8. Joinable(FirstOf(order, j), u, FirstConditions(base, j - 1), k, LeftSide(node), RightSide(node))
  BY JoinsAreJoinable, Zenon
<1>9. rows[base + j] = JoinedBy(node.operation, left, right, LeftSide(node), RightSide(node))
  BY <1>5, Zenon DEF JoinedRows, JoinedBy, LeftSide, RightSide
<1>10. /\ FirstOf(order, j + 1) = With(FirstOf(order, j), u)
       /\ FirstConditions(base, j) = With(FirstConditions(base, j - 1), k)
  BY <1>1, FirstMore
<1> HIDE DEF top, leaf, node, left, right, k, u
<1>11. Enumerates(JoinedBy(node.operation, left, right, LeftSide(node), RightSide(node)),
                  With(FirstOf(order, j), u), With(FirstConditions(base, j - 1), k))
  BY <1>2, <1>6, <1>7, <1>8, JoinEnumerates
<1> QED BY <1>9, <1>10, <1>11

LEMMA TopEnumerates ==
  ASSUME PlanInv, Live, RowsInv, NEW order, NEW access, NEW base,
         LeftDeep(query, nodes, root, order, access, base),
         NEW i \in 0 .. Len(query.tables) - 1, TopOf(access, base, i) \in DOMAIN rows
  PROVE  Enumerates(rows[TopOf(access, base, i)], FirstOf(order, i + 1), FirstConditions(base, i))
<1> DEFINE m == Len(query.tables)
           Holds(j) == j < m /\ TopOf(access, base, j) \in DOMAIN rows =>
             Enumerates(rows[TopOf(access, base, j)], FirstOf(order, j + 1), FirstConditions(base, j))
           Good == {j \in Nat : Holds(j)}
<1>1. m \in Nat \ {0}
  BY QueryFacts DEF Live
<1>2. Holds(0)
  <2> SUFFICES ASSUME TopOf(access, base, 0) \in DOMAIN rows
               PROVE  Enumerates(rows[TopOf(access, base, 0)], FirstOf(order, 1), FirstConditions(base, 0))
    OBVIOUS
  <2>1. TopOf(access, base, 0) = access[1]
    BY DEF TopOf
  <2>2. 1 .. 0 = {} /\ 1 .. 1 = {1} /\ 1 \in 1 .. m
    BY <1>1
  <2>3. FirstOf(order, 1) = Only(order[1])
    BY <2>2 DEF FirstOf, Only
  <2>4. FirstConditions(base, 0) = {}
    BY <2>2 DEF FirstConditions
  <2>5. Enumerates(rows[access[1]], Only(order[1]), {})
    BY <2>1, <2>2, LeafEnumerates
  <2> QED BY <2>1, <2>3, <2>4, <2>5
<1>3. ASSUME NEW n \in Nat, Holds(n)  PROVE Holds(n + 1)
  <2> SUFFICES ASSUME n + 1 < m, TopOf(access, base, n + 1) \in DOMAIN rows
               PROVE  Enumerates(rows[TopOf(access, base, n + 1)], FirstOf(order, (n + 1) + 1),
                                 FirstConditions(base, n + 1))
    OBVIOUS
  <2>1. n + 1 \in 1 .. m - 1 /\ (n + 1) - 1 = n /\ n < m /\ n + 1 # 0
    BY <1>1
  <2>2. TopOf(access, base, n + 1) = base + (n + 1)
    BY <2>1 DEF TopOf
  <2>3. base + (n + 1) \in DOMAIN rows
    BY <2>2
  <2>4. TopOf(access, base, n) \in DOMAIN rows =>
          Enumerates(rows[TopOf(access, base, n)], FirstOf(order, n + 1), FirstConditions(base, n))
    BY <1>3, <2>1
  <2>5. Enumerates(rows[base + (n + 1)], FirstOf(order, (n + 1) + 1), FirstConditions(base, n + 1))
    <3> DEFINE j == n + 1
    <3>1. j \in 1 .. Len(query.tables) - 1 /\ base + j \in DOMAIN rows /\ j - 1 = n
      BY <2>1, <2>3
    <3>2. TopOf(access, base, j - 1) \in DOMAIN rows =>
            Enumerates(rows[TopOf(access, base, j - 1)], FirstOf(order, j), FirstConditions(base, j - 1))
      BY <2>4, <3>1
    <3> HIDE DEF j
    <3>3. Enumerates(rows[base + j], FirstOf(order, j + 1), FirstConditions(base, j))
      BY <3>1, <3>2, NextTop
    <3> QED BY <3>3 DEF j
  <2> QED BY <2>2, <2>5
<1> HIDE DEF Holds
<1>4. 0 \in Good /\ \A n \in Nat : n \in Good => n + 1 \in Good
  BY <1>2, <1>3
<1> HIDE DEF Good
<1>5. Nat \subseteq Good
  BY <1>4, NatSetInduction
<1>6. i \in Nat /\ i < m
  BY <1>1
<1>7. Holds(i)
  BY <1>5, <1>6 DEF Good
<1> QED BY <1>6, <1>7 DEF Holds

(* The input of the result operator has the rows of the query.             *)
LEMMA RootInput ==
  ASSUME PlanInv, RowsInv, IsPlan(query, table_stats, nodes, root),
         nodes[root].children[1] \in DOMAIN rows
  PROVE  Enumerates(Left(nodes[root]), DOMAIN query.tables, DOMAIN query.joins)
<1> DEFINE m == Len(query.tables)
<1>1. Live
  BY PlanIsLive
<1>2. m \in Nat \ {0} /\ WellFormed(nodes)
  BY <1>1, QueryFacts DEF Live, PlanInv
<1>3. PICK order, access, base : LeftDeep(query, nodes, root, order, access, base)
  BY DEF IsPlan
<1>4. nodes[root].children[1] = TopOf(access, base, m - 1)
  <2>1. nodes[root].children = <<TopOf(access, base, m - 1)>>
    BY <1>3 DEF LeftDeep
  <2> QED BY <2>1
<1>5. FirstOf(order, m) = DOMAIN query.tables /\ FirstConditions(base, m - 1) = DOMAIN query.joins
  BY <1>1, <1>3, OrderFacts
<1>6. m - 1 \in 0 .. Len(query.tables) - 1 /\ (m - 1) + 1 = m
  BY <1>2
<1>7. TopOf(access, base, m - 1) \in DOMAIN rows
  BY <1>4
<1>8. Enumerates(rows[TopOf(access, base, m - 1)], FirstOf(order, (m - 1) + 1), FirstConditions(base, m - 1))
  <2> DEFINE i == m - 1
  <2>1. i \in 0 .. Len(query.tables) - 1 /\ TopOf(access, base, i) \in DOMAIN rows
    BY <1>6, <1>7
  <2> HIDE DEF i
  <2>2. Enumerates(rows[TopOf(access, base, i)], FirstOf(order, i + 1), FirstConditions(base, i))
    BY <1>1, <1>3, <2>1, TopEnumerates
  <2> QED BY <2>2 DEF i
<1>9. Left(nodes[root]) = rows[TopOf(access, base, m - 1)]
  BY <1>4 DEF Left
<1> QED BY <1>5, <1>6, <1>8, <1>9

-----------------------------------------------------------------------------
(* The answer of the query without a plan.                                 *)
CountedBy(M, f) == [row \in {f[c] : c \in M} |-> Cardinality({c \in M : f[c] = row})]

ListedBy(list, M, e, f) ==
  /\ IsList(list) /\ e \in [1 .. Len(list) -> M]
  /\ \A i, k \in 1 .. Len(list) : e[i] = e[k] => i = k
  /\ \A c \in M : \E i \in 1 .. Len(list) : e[i] = c
  /\ \A i \in 1 .. Len(list) : list[i] = f[e[i]]

LEMMA CountedAlike ==
  ASSUME NEW list, NEW M, NEW e, NEW f, ListedBy(list, M, e, f)
  PROVE  CanonicalRows(list) = CountedBy(M, f)
<1> DEFINE N == Len(list)
<1>1. N \in Nat /\ DOMAIN list = 1 .. N
  BY ListFacts DEF ListedBy
<1>0. /\ e \in [1 .. N -> M]
      /\ \A i, k \in 1 .. N : e[i] = e[k] => i = k
      /\ \A c \in M : \E i \in 1 .. N : e[i] = c
      /\ \A i \in 1 .. N : list[i] = f[e[i]]
  BY DEF ListedBy
<1>2. Range(list) = {f[c] : c \in M}
  <2>1. \A i \in 1 .. N : e[i] \in M /\ list[i] = f[e[i]]
    BY <1>0
  <2>2. \A c \in M : \E i \in 1 .. N : f[c] = list[i]
    BY <1>0
  <2> QED BY <1>1, <2>1, <2>2 DEF Range
<1>3. ASSUME NEW row  PROVE Cardinality({i \in DOMAIN list : list[i] = row}) = Cardinality({c \in M : f[c] = row})
  <2> DEFINE A == {i \in DOMAIN list : list[i] = row}
             B == {c \in M : f[c] = row}
             g == [i \in A |-> e[i]]
  <2>1. IsFiniteSet(A)
    <3>1. IsFiniteSet(1 .. N) /\ A \subseteq 1 .. N
      BY <1>1, FS_Interval
    <3> QED BY <3>1, FS_Subset
  <2>2. g \in [A -> B] /\ \A i \in A : g[i] = e[i]
    BY <1>0, <1>1
  <2>3. \A i, k \in A : g[i] = g[k] => i = k
    BY <1>0, <1>1, <2>2
  <2>4. \A c \in B : \E i \in A : g[i] = c
    <3> TAKE c \in B
    <3>1. PICK i \in 1 .. N : e[i] = c
      BY <1>0
    <3>2. i \in A
      BY <1>0, <1>1, <3>1
    <3> QED BY <2>2, <3>1, <3>2
  <2> HIDE DEF A, B, g
  <2>5. g \in Bijection(A, B)
    <3>1. g \in Injection(A, B)
      BY <2>2, <2>3 DEF Injection, IsInjective
    <3>2. g \in Surjection(A, B)
      BY <2>2, <2>4 DEF Surjection
    <3> QED BY <3>1, <3>2 DEF Bijection
  <2>6. Cardinality(A) = Cardinality(B)
    <3>1. ExistsBijection(A, B)
      BY <2>5 DEF ExistsBijection
    <3> QED BY <2>1, <3>1, FS_Bijection
  <2> QED BY <2>6 DEF A, B
<1> DEFINE F(row) == Cardinality({i \in DOMAIN list : list[i] = row})
           G(row) == Cardinality({c \in M : f[c] = row})
           rs == {f[c] : c \in M}
<1>4. CanonicalRows(list) = [row \in Range(list) |-> F(row)]
  BY DEF CanonicalRows
<1>5. \A row : F(row) = G(row)
  BY <1>3
<1>6. Range(list) = rs
  BY <1>2
<1> HIDE DEF F, G, rs
<1>7. CanonicalRows(list) = [row \in rs |-> G(row)]
  BY <1>4, <1>5, <1>6
<1> QED BY <1>7 DEF G, rs, CountedBy

EveryTable == DOMAIN query.tables

LEMMA CombinedRows ==
  /\ Combinations = Places(EveryTable)
  /\ \A c : CombinedRow(c) = RowOf(EveryTable, c)
<1>1. Combinations = Places(EveryTable)
  BY DEF Combinations, Places, EveryTable
<1>2. ASSUME NEW c  PROVE CombinedRow(c) = RowOf(EveryTable, c)
  BY DEF CombinedRow, RowOf, EveryTable, Qualified, TableWith, Alias
<1> QED BY <1>1, <1>2

OneTableEach == \A p \in Range(query.predicates) : Cardinality(TablesOf(p.column)) = 1

(* The value of a column of one table, in a row of all of them.            *)
LEMMA ValueInRow ==
  ASSUME Live, NEW c \in Places(EveryTable), NEW column, NEW t, TablesOf(column) = Only(t)
  PROVE  /\ ColumnValue(RowOf(EveryTable, c), column) = TableOf(t).rows[c[t]][column.name]
         /\ Resolves(RowOf(EveryTable, c), column)
<1>1. IsTheTable(t, column, EveryTable)
  <2>1. TablesOf(column) \subseteq EveryTable
    BY DEF TablesOf, EveryTable
  <2> QED BY <2>1 DEF IsTheTable, Only
<1>2. EveryTable \subseteq DOMAIN query.tables
  BY DEF EveryTable
<1> QED BY <1>1, <1>2, ColumnOfTable

LEMMA ConditionsInRow ==
  ASSUME Live, NEW c \in Places(EveryTable), NEW j \in DOMAIN query.joins
  PROVE  /\ ColumnValue(RowOf(EveryTable, c), query.joins[j].left) = SideValue(c, query.joins[j].left)
         /\ ColumnValue(RowOf(EveryTable, c), query.joins[j].right) = SideValue(c, query.joins[j].right)
<1>1. ASSUME NEW column \in {query.joins[j].left, query.joins[j].right}
      PROVE  ColumnValue(RowOf(EveryTable, c), column) = SideValue(c, column)
  <2>1. TablesOf(column) = Only(TableWith(column.table_alias))
    BY ConditionColumns DEF Only
  <2> QED BY <2>1, ValueInRow DEF SideValue
<1> QED BY <1>1

LEMMA PredicatesInRow ==
  ASSUME Live, OneTableEach, NEW c \in Places(EveryTable)
  PROVE  MatchesAll(RowOf(EveryTable, c), query.predicates)
           <=> \A t \in EveryTable : Satisfies(t, c[t])
<1> DEFINE Fits(t, p) == Compares(p.operator, TableOf(t).rows[c[t]][p.column.name], p.value)
<1>1. \A p \in Range(query.predicates) : \E t \in EveryTable :
        TablesOf(p.column) = {t} /\ TablesOf(p.column) = Only(t)
  BY OneTable DEF OneTableEach, EveryTable, Only
<1>2. ASSUME NEW p \in Range(query.predicates)
      PROVE  Compares(p.operator, ColumnValue(RowOf(EveryTable, c), p.column), p.value)
               <=> \A t \in TablesOf(p.column) : Fits(t, p)
  <2>1. PICK t \in EveryTable : TablesOf(p.column) = {t} /\ TablesOf(p.column) = Only(t)
    BY <1>1
  <2>2. ColumnValue(RowOf(EveryTable, c), p.column) = TableOf(t).rows[c[t]][p.column.name]
    BY <2>1, ValueInRow
  <2>3. Compares(p.operator, ColumnValue(RowOf(EveryTable, c), p.column), p.value) <=> Fits(t, p)
    BY <2>2
  <2> HIDE DEF Fits
  <2> QED BY <2>1, <2>3
<1>3. ASSUME NEW t \in EveryTable
      PROVE  Satisfies(t, c[t]) <=> \A p \in Range(query.predicates) : t \in TablesOf(p.column) => Fits(t, p)
  <2>1. Range(PushedOf(query, query.tables[t]))
          = {p \in Range(query.predicates) : t \in TablesOf(p.column)}
    BY PushedPredicates DEF EveryTable
  <2>2. Satisfies(t, c[t]) <=> \A p \in Range(PushedOf(query, query.tables[t])) : Fits(t, p)
    BY DEF Satisfies
  <2> HIDE DEF Fits
  <2> QED BY <2>1, <2>2
<1>4. MatchesAll(RowOf(EveryTable, c), query.predicates)
        <=> \A p \in Range(query.predicates) : \A t \in TablesOf(p.column) : Fits(t, p)
  BY <1>2 DEF MatchesAll
<1>5. \A p \in Range(query.predicates) : TablesOf(p.column) \subseteq EveryTable
  BY DEF TablesOf, EveryTable
<1> HIDE DEF Fits
<1> QED BY <1>3, <1>4, <1>5

Conforms(row) ==
  /\ \A j \in DOMAIN query.joins :
       ColumnValue(row, query.joins[j].left) = ColumnValue(row, query.joins[j].right)
  /\ MatchesAll(row, query.predicates)

LEMMA AnswerMatching ==
  ASSUME Live, OneTableEach, NEW c \in Places(EveryTable)
  PROVE  Conforms(RowOf(EveryTable, c)) <=> c \in Matching(EveryTable, DOMAIN query.joins)
<1>1. \A j \in DOMAIN query.joins :
        /\ ColumnValue(RowOf(EveryTable, c), query.joins[j].left) = SideValue(c, query.joins[j].left)
        /\ ColumnValue(RowOf(EveryTable, c), query.joins[j].right) = SideValue(c, query.joins[j].right)
  BY ConditionsInRow
<1>2. MatchesAll(RowOf(EveryTable, c), query.predicates) <=> \A t \in EveryTable : Satisfies(t, c[t])
  BY PredicatesInRow
<1> QED BY <1>1, <1>2 DEF Matching, Conforms

(* A list of the rows of the query has its answer as canonical rows.       *)
LEMMA EnumerationAnswers ==
  ASSUME Live, OneTableEach, NEW list, Enumerates(list, EveryTable, DOMAIN query.joins)
  PROVE  CanonicalRows(list) = Answer
<1> DEFINE M == Matching(EveryTable, DOMAIN query.joins)
           f == [c \in M |-> RowOf(EveryTable, c)]
<1>1. IsList(list)
  BY DEF Enumerates
<1>2. PICK e \in [1 .. Len(list) -> M] :
        /\ \A i, k \in 1 .. Len(list) : e[i] = e[k] => i = k
        /\ \A c \in M : \E i \in 1 .. Len(list) : e[i] = c
        /\ \A i \in 1 .. Len(list) : list[i] = RowOf(EveryTable, e[i])
  BY DEF Enumerates
<1>3. \A c \in M : f[c] = RowOf(EveryTable, c) /\ f[c] = CombinedRow(c)
  BY CombinedRows
<1>4. \A c \in Combinations : Conforms(CombinedRow(c)) <=> c \in M
  BY CombinedRows, AnswerMatching
<1>5. M \subseteq Combinations
  BY CombinedRows DEF Matching
<1>6. {c \in Combinations : Conforms(CombinedRow(c))} = M
  BY <1>4, <1>5
<1>7. Answer = [row \in {CombinedRow(c) : c \in M} |-> Cardinality({c \in M : CombinedRow(c) = row})]
  BY <1>6 DEF Answer, Conforms
<1> HIDE DEF M, f
<1>8. \A i \in 1 .. Len(list) : list[i] = f[e[i]]
  BY <1>2, <1>3
<1>9. CanonicalRows(list) = CountedBy(M, f)
  <2>1. ListedBy(list, M, e, f)
    BY <1>1, <1>2, <1>8 DEF ListedBy
  <2> QED BY <2>1, CountedAlike
<1>10. {f[c] : c \in M} = {CombinedRow(c) : c \in M}
  BY <1>3
<1>11. \A row : {c \in M : f[c] = row} = {c \in M : CombinedRow(c) = row}
  BY <1>3
<1> QED BY <1>7, <1>9, <1>10, <1>11 DEF CountedBy

-----------------------------------------------------------------------------
(* While a plan is executed its operators that have run have their rows,   *)
(* and an exception is that of the operator that comes next.               *)
ErrorInv ==
  execution \notin {"running", "done"} =>
    /\ current = 0 /\ Len(all_metrics) < Len(Schedule)
    /\ execution = OperatorError(Schedule[Len(all_metrics) + 1])

EvaluationInv == ReportInv /\ (stage = "executing" => RowsInv /\ ErrorInv)

LEMMA EvaluationStarts ==
  ASSUME PlanInv, NEW plan, IsPlan(query, table_stats, nodes, plan), StartPlan(plan)
  PROVE  RowsInv' /\ ErrorInv'
<1>1. RowsInv'
  BY RowsStart
<1>2. execution' = "running"
  BY DEF StartPlan
<1> QED BY <1>1, <1>2 DEF ErrorInv

LEMMA EvaluationEvaluates ==
  ASSUME EvaluationInv, Evaluate
  PROVE  RowsInv' /\ ErrorInv'
<1>1. /\ stage = "executing" /\ ExecNext /\ UNCHANGED planVars
  BY DEF Evaluate
<1>2. PlanInv /\ RunInv /\ IsPlan(query, table_stats, nodes, root) /\ RowsInv /\ ErrorInv
  BY <1>1, ExecutedPlan DEF EvaluationInv
<1>3. nodes' = nodes /\ query' = query
  BY <1>1 DEF planVars
<1>4. CASE StartOperator
  <2> DEFINE n == Schedule[Len(all_metrics) + 1]
  <2>1. RowsInv'
    BY <1>1, <1>2, <1>4, RowsGrow
  <2>2. CASE OperatorError(n) = "none"
    <3>1. execution' = "running"
      BY <1>4, <2>2 DEF StartOperator
    <3> QED BY <2>1, <3>1 DEF ErrorInv
  <2>3. CASE OperatorError(n) # "none"
    <3>1. /\ root' = root /\ all_metrics' = all_metrics /\ rows' = rows /\ current' = current
          /\ execution' = OperatorError(n) /\ current = 0 /\ Len(all_metrics) < Len(Schedule)
      BY <1>4, <2>3 DEF StartOperator
    <3>2. Schedule' = Schedule
      BY <1>3, <3>1 DEF Schedule
    <3>3. rows' = rows
      BY <3>1
    <3>4. \A x : OperatorError(x)' = OperatorError(x)
      BY <1>3, <3>3 DEF OperatorError, Reversed, Left, Right, ResultError, JoinFails, Selected
    <3> QED BY <2>1, <3>1, <3>2, <3>4 DEF ErrorInv
  <2> QED BY <2>2, <2>3
<1>5. CASE RequestPage
  <2>1. /\ root' = root /\ all_metrics' = all_metrics /\ rows' = rows /\ current' = current
        /\ execution' = "running"
    BY <1>5 DEF RequestPage
  <2>2. Ran' = Ran
    BY <2>1 DEF Ran
  <2> QED BY <1>1, <1>2, <2>1, <2>2, RowsKept DEF ErrorInv
<1>6. CASE FinishOperator
  <2>1. /\ root' = root /\ rows' = rows /\ current' = 0 /\ current # 0
        /\ execution' = "running"
    BY <1>6 DEF FinishOperator
  <2>2. Len(all_metrics') = Len(all_metrics) + 1
    <3>1. IsList(all_metrics)
      BY <1>2 DEF RunInv, ScheduleInv
    <3>2. \E e : all_metrics' = Append(all_metrics, e)
      BY <1>6 DEF FinishOperator
    <3> QED BY <3>1, <3>2, AppendList
  <2>3. Ran' = Ran
    BY <2>1, <2>2 DEF Ran
  <2> QED BY <1>1, <1>2, <2>1, <2>3, RowsKept DEF ErrorInv
<1>7. CASE FinishPlan
  <2>1. /\ root' = root /\ all_metrics' = all_metrics /\ rows' = rows /\ current' = current
        /\ execution' = "done"
    BY <1>7 DEF FinishPlan
  <2>2. Ran' = Ran
    BY <2>1 DEF Ran
  <2> QED BY <1>1, <1>2, <2>1, <2>2, RowsKept DEF ErrorInv
<1> QED BY <1>1, <1>4, <1>5, <1>6, <1>7 DEF ExecNext

LEMMA EvaluationBegins ==
  ASSUME EvaluationInv, Execute, stage' = "executing"
  PROVE  RowsInv' /\ ErrorInv'
<1>1. PlanInv
  BY DEF EvaluationInv, ReportInv, CallInv, Execute
<1>2. PlansToExecute # <<>> /\ StartPlan(PlansToExecute[1])
  BY DEF Execute
<1>3. Len(PlansToExecute) \in Nat /\ Len(PlansToExecute) # 0
  BY <1>1, <1>2, PlansAreCandidates, ListFacts
<1>4. IsPlan(query, table_stats, nodes, PlansToExecute[1])
  BY <1>1, <1>3, PlansAreCandidates
<1> QED BY <1>1, <1>2, <1>4, EvaluationStarts

LEMMA EvaluationCompares ==
  ASSUME EvaluationInv, Compare, stage' = "executing"
  PROVE  RowsInv' /\ ErrorInv'
<1> DEFINE e == [plan |-> root, io |-> Pool!ActualIO(metrics)]
           measured == Append(executed, e)
           k == Len(executed)
<1>1. stage = "executing"
  BY DEF Compare
<1>2. /\ PlanInv /\ Measured /\ k \in Nat /\ k < Len(PlansToExecute)
  BY <1>1, ExecutedPlan DEF EvaluationInv
<1>3. Len(measured) < Len(PlansToExecute) /\ StartPlan(PlansToExecute[Len(measured) + 1])
  BY DEF Compare
<1> HIDE DEF e
<1>4. Len(measured) = k + 1
  BY <1>2, AppendList DEF Measured
<1> HIDE DEF measured, k
<1>5. Len(measured) + 1 \in 1 .. Len(PlansToExecute)
  BY <1>2, <1>3, <1>4, PlansAreCandidates
<1>6. IsPlan(query, table_stats, nodes, PlansToExecute[Len(measured) + 1])
  BY <1>2, <1>5, PlansAreCandidates
<1> QED BY <1>2, <1>3, <1>6, EvaluationStarts

LEMMA EvaluationInvNext == EvaluationInv /\ [Next \/ Returned]_allVars => EvaluationInv'
<1> SUFFICES ASSUME EvaluationInv, [Next \/ Returned]_allVars  PROVE EvaluationInv'
  OBVIOUS
<1>1. ReportInv'
  BY ReportInvNext DEF EvaluationInv
<1> SUFFICES ASSUME stage' = "executing"  PROVE RowsInv' /\ ErrorInv'
  BY <1>1 DEF EvaluationInv
<1>2. CASE ParseStatement
  BY <1>2 DEF ParseStatement
<1>3. CASE Generate
  BY <1>3 DEF Generate, reportVars
<1>4. CASE Execute
  BY <1>4, EvaluationBegins
<1>5. CASE Evaluate
  BY <1>5, EvaluationEvaluates
<1>6. CASE Compare
  BY <1>6, EvaluationCompares
<1>7. CASE Abort
  <2>1. stage = "executing" /\ execution \notin {"running", "done"} /\ stage' = execution
    BY <1>7 DEF Abort, Raise
  <2>2. execution \in Errors
    BY <2>1, ExecutedPlan DEF EvaluationInv, RunInv, ScheduleInv
  <2> QED BY <2>1, <2>2 DEF Errors
<1>8. CASE UNCHANGED allVars
  <2>1. /\ UNCHANGED planVars /\ nodes' = nodes /\ query' = query /\ stage' = stage
        /\ root' = root /\ all_metrics' = all_metrics /\ rows' = rows /\ current' = current
        /\ execution' = execution
    BY <1>8 DEF allVars, planVars, execVars, reportVars
  <2>2. RowsInv /\ ErrorInv
    BY <2>1 DEF EvaluationInv
  <2>3. Ran' = Ran /\ Schedule' = Schedule
    BY <2>1 DEF Ran, Schedule
  <2>4. \A x : OperatorError(x)' = OperatorError(x)
    BY <2>1 DEF OperatorError, Reversed, Left, Right, ResultError, JoinFails, Selected
  <2>5. RowsInv'
    BY <2>1, <2>2, <2>3, RowsKept
  <2>6. ErrorInv'
    BY <2>1, <2>2, <2>3, <2>4 DEF ErrorInv
  <2> QED BY <2>5, <2>6
<1> QED BY <1>2, <1>3, <1>4, <1>5, <1>6, <1>7, <1>8 DEF Next, Returned

(* In every reachable state of a call the operators that have run have the *)
(* rows of their own algorithm, and an exception is the one the operator   *)
(* that comes next raises: the inductive invariant the rows of a plan need.*)
THEOREM EvaluationInvariant == Spec => []EvaluationInv
<1>1. Init => EvaluationInv
  BY ReportInvInit DEF Init, EvaluationInv
<1> QED BY <1>1, EvaluationInvNext, PTL DEF Spec

(* The root of a plan, its only operator that is neither scan nor join.    *)
LEMMA RootOfPlan ==
  ASSUME PlanInv, IsPlan(query, table_stats, nodes, root)
  PROVE  /\ root \in Range(Schedule) /\ nodes[root].children[1] \in Range(nodes[root].children)
         /\ \A n \in Range(Schedule) : ~IsScan(nodes[n]) /\ ~IsJoin(nodes[n]) => n = root
<1> DEFINE m == Len(query.tables)
<1>1. WellFormed(nodes) /\ root \in DOMAIN nodes /\ m \in Nat \ {0}
  BY QueryFacts DEF PlanInv, IsPlan
<1>2. PICK order, access, base : LeftDeep(query, nodes, root, order, access, base)
  BY DEF IsPlan
<1>3. Range(Schedule) = Tree(nodes, root)
  BY <1>1, PostOrderFacts DEF Schedule, Tree
<1>4. Tree(nodes, root) = {access[s] : s \in 1 .. m} \cup (base + 1 .. base + m)
  BY <1>1, <1>2, TreeOfPlan
<1>5. /\ base \in Nat /\ root = base + m
      /\ \A t \in 1 .. m : IsScan(nodes[access[t]])
      /\ \A j \in 1 .. m - 1 : IsJoin(nodes[base + j])
      /\ nodes[root].children = <<TopOf(access, base, m - 1)>>
  <2>1. PlanShape(nodes, root, m, access, base)
    BY <1>1, <1>2, PlanFacts
  <2> QED BY <2>1 DEF PlanShape
<1> HIDE DEF m
<1>6. root \in Range(Schedule)
  BY <1>1, <1>3, <1>4, <1>5
<1>7. nodes[root].children[1] \in Range(nodes[root].children)
  BY <1>5 DEF Range
<1>8. ASSUME NEW n \in Range(Schedule), ~IsScan(nodes[n]), ~IsJoin(nodes[n])  PROVE n = root
  <2>1. n \in base + 1 .. base + m
    BY <1>3, <1>4, <1>5, <1>8
  <2>2. n - base \in 1 .. m /\ base + (n - base) = n
    BY <1>1, <1>5, <2>1
  <2>3. n - base \notin 1 .. m - 1
    BY <1>5, <1>8, <2>2
  <2> QED BY <1>1, <1>5, <2>2, <2>3
<1> QED BY <1>6, <1>7, <1>8

(* The children of a result operator have run before it.                   *)
LEMMA FinishedInput ==
  ASSUME PlanInv, IsPlan(query, table_stats, nodes, root), RunInv, RowsInv, execution = "done"
  PROVE  nodes[root].children[1] \in DOMAIN rows
<1>1. Ran = Len(Schedule)
  BY DEF RunInv, ScheduleInv, Ran
<1>2. Len(Schedule) \in Nat \ {0} /\ DOMAIN Schedule = 1 .. Len(Schedule)
  BY ScheduleFacts
<1>3. DOMAIN rows = {Schedule[i] : i \in 1 .. Len(Schedule)}
  BY <1>1 DEF RowsInv
<1>4. root \in Range(Schedule)
  BY RootOfPlan
<1>5. root \in DOMAIN rows
  BY <1>2, <1>3, <1>4 DEF Range
<1>6. Range(nodes[root].children) \subseteq DOMAIN rows
  BY <1>5 DEF RowsInv, Evaluated
<1>7. nodes[root].children[1] \in Range(nodes[root].children)
  BY RootOfPlan
<1> QED BY <1>6, <1>7

(* Whatever the order of the tables, the access paths and the algorithms,  *)
(* the rows a plan projects or groups are those of the query.              *)
THEOREM ResultsAreTheQuery == Spec => []ResultIsTheQuery
<1>1. EvaluationInv => ResultIsTheQuery
  <2> SUFFICES ASSUME EvaluationInv, Finished,
                      \A p \in Range(query.predicates) : Cardinality(TablesOf(p.column)) = 1
               PROVE  CanonicalRows(Left(nodes[root])) = Answer
    BY DEF ResultIsTheQuery
  <2>1. /\ stage = "executing" /\ execution = "done" /\ RowsInv /\ ReportInv
    BY DEF EvaluationInv, Finished
  <2>2. /\ PlanInv /\ RunInv /\ IsPlan(query, table_stats, nodes, root)
    BY <2>1, ExecutedPlan
  <2>3. Live /\ OneTableEach
    BY <2>2, PlanIsLive DEF OneTableEach
  <2>4. nodes[root].children[1] \in DOMAIN rows
    BY <2>1, <2>2, FinishedInput
  <2>5. Enumerates(Left(nodes[root]), EveryTable, DOMAIN query.joins)
    BY <2>1, <2>2, <2>4, RootInput DEF EveryTable
  <2> QED BY <2>3, <2>5, EnumerationAnswers
<1> QED BY <1>1, EvaluationInvariant, PTL

-----------------------------------------------------------------------------
(* The columns to select, if they exist, are in the rows of the input.     *)
LEMMA ExistingColumnsRaiseNothing ==
  ASSUME Live, SelectedColumnsExist, NEW node, NEW input, Enumerates(input, EveryTable, DOMAIN query.joins)
  PROVE  ResultError(node, input) # "KeyError"
<1> DEFINE All == {"TypeError", "ValueError", "none"}
<1>1. ASSUME NEW column \in SelectedColumns  PROVE ColumnError(input, column) = "none"
  <2>1. PICK t \in DOMAIN query.tables : TablesOf(column) = {t}
    BY OneTable DEF SelectedColumnsExist, SelectedColumns
  <2>2. TablesOf(column) = Only(t)
    BY <2>1 DEF Only
  <2>3. ASSUME input # <<>>  PROVE Resolves(input[1], column)
    <3>1. IsList(input)
      BY DEF Enumerates
    <3>2. 1 \in 1 .. Len(input)
      BY <2>3, <3>1, ListFacts
    <3>3. PICK c \in Places(EveryTable) : input[1] = RowOf(EveryTable, c)
      BY <3>2 DEF Enumerates, Matching
    <3> QED BY <2>2, <3>3, ValueInRow
  <2> QED BY <2>3 DEF ColumnError
<1>2. query \in Queries
  BY DEF Live
<1>3. {"TypeError", "ValueError", "none"} \subseteq All /\ \A column \in SelectedColumns : ColumnError(input, column) \in All
  BY <1>1
<1> HIDE DEF All
<1>4. ResultError(node, input) \in All
  BY <1>2, <1>3, ErrorsAmong
<1> QED BY <1>4 DEF All

(* A plan that raises takes the whole report with it.  If the columns to   *)
(* select exist, only a join with one empty input raises KeyError.         *)
THEOREM AbortsHaveAnEmptyInput == Spec => []OnlyEmptyInputsAbort
<1>1. EvaluationInv => OnlyEmptyInputsAbort
  <2> SUFFICES ASSUME EvaluationInv, stage = "executing", execution = "KeyError", SelectedColumnsExist
               PROVE  \E n \in ToSet(Schedule) :
                        /\ IsJoin(nodes[n])
                        /\ Range(nodes[n].children) \subseteq DOMAIN rows
                        /\ (Left(nodes[n]) = <<>>) # (Right(nodes[n]) = <<>>)
    BY DEF OnlyEmptyInputsAbort
  <2> DEFINE n == Schedule[Len(all_metrics) + 1]
  <2>1. /\ PlanInv /\ RunInv /\ IsPlan(query, table_stats, nodes, root) /\ RowsInv /\ ErrorInv
    BY ExecutedPlan DEF EvaluationInv
  <2>2. current = 0 /\ Len(all_metrics) < Len(Schedule) /\ OperatorError(n) = "KeyError"
    BY <2>1 DEF ErrorInv
  <2>3. n \in Range(Schedule) /\ Range(nodes[n].children) \subseteq DOMAIN rows
    BY <2>1, <2>2, ChildrenHaveRun
  <2> HIDE DEF n
  <2>4. ~IsScan(nodes[n])
    BY <2>2 DEF OperatorError
  <2>5. CASE IsJoin(nodes[n])
    <3>1. JoinFails(nodes[n].operation, Reversed(nodes[n]), Left(nodes[n]), Right(nodes[n]))
      BY <2>2, <2>4, <2>5 DEF OperatorError
    <3>2. (Left(nodes[n]) = <<>>) # (Right(nodes[n]) = <<>>)
      BY <3>1 DEF JoinFails
    <3>3. n \in ToSet(Schedule)
      BY <2>3 DEF ToSet, Range
    <3> QED BY <2>3, <2>5, <3>2, <3>3
  <2>6. CASE ~IsJoin(nodes[n])
    <3>1. n = root
      BY <2>1, <2>3, <2>4, <2>6, RootOfPlan
    <3>2. nodes[root].children[1] \in DOMAIN rows
      BY <2>1, <2>3, <3>1, RootOfPlan
    <3>3. Enumerates(Left(nodes[root]), EveryTable, DOMAIN query.joins)
      BY <2>1, <3>2, RootInput DEF EveryTable
    <3>4. Live
      BY <2>1, PlanIsLive
    <3>5. ResultError(nodes[root], Left(nodes[root])) # "KeyError"
      BY <3>3, <3>4, ExistingColumnsRaiseNothing
    <3>6. OperatorError(root) = ResultError(nodes[root], Left(nodes[root]))
      BY <2>4, <2>6, <3>1 DEF OperatorError
    <3> QED BY <2>2, <3>1, <3>5, <3>6
  <2> QED BY <2>5, <2>6
<1> QED BY <1>1, EvaluationInvariant, PTL

-----------------------------------------------------------------------------
(* The pages a plan asks for, in what order, and those that are cached.    *)

(* A page asked for is in a frame, and no other comes into one.            *)
LEMMA PageFetched ==
  ASSUME IsList(frames), NEW k, NEW page, Pool!Hit(k) \/ Pool!Miss(k, page)
  PROVE  IsList(frames') /\ k \in Range(frames') /\ Range(frames') \subseteq Range(frames) \cup {k}
<1> SUFFICES \E kept : /\ IsList(kept) /\ Range(kept) \subseteq Range(frames)
                       /\ frames' = Append(kept, k)
  BY AppendList
<1>1. CASE Pool!Hit(k)
  <2> DEFINE i == Pool!PositionOf(k)
  <2>1. k \in Range(frames) /\ frames' = Append(RemoveAt(frames, i), k)
    BY <1>1 DEF Pool!Hit, Pool!MoveToEnd, Pool!Range, Range, Pool!RemoveAt, RemoveAt
  <2>2. i \in DOMAIN frames
    BY <2>1 DEF Pool!PositionOf, Range
  <2> HIDE DEF i
  <2>3. IsList(RemoveAt(frames, i)) /\ Range(RemoveAt(frames, i)) \subseteq Range(frames)
    BY <2>2, WithoutOne, ListFacts
  <2> QED BY <2>1, <2>3
<1>2. CASE Pool!Miss(k, page)
  <2>1. frames' = Append(IF Len(frames) >= BufferFrames THEN Tail(frames) ELSE frames, k)
    BY <1>2 DEF Pool!Miss, Pool!AfterEviction
  <2>2. CASE Len(frames) >= BufferFrames
    <3>1. frames # <<>>
      BY <2>2, EmptyList, EvaluatorAssumption
    <3>2. IsList(Tail(frames)) /\ Range(Tail(frames)) \subseteq Range(frames)
      BY <3>1, TailList
    <3> QED BY <2>1, <2>2, <3>2
  <2>3. CASE ~(Len(frames) >= BufferFrames)
    BY <2>1, <2>3
  <2> QED BY <2>2, <2>3
<1> QED BY <1>1, <1>2

-----------------------------------------------------------------------------
(* Equal pages are asked for one right after the other, and no page is     *)
(* written.                                                                *)
Together(s) ==
  /\ \A i \in DOMAIN s : s[i] # <<"write">>
  /\ \A i, j \in DOMAIN s : i < j /\ s[i] = s[j] => s[j - 1] = s[j]

LEMMA IndexScansGoPageByPage ==
  ASSUME PlanInv, Known(query, table_stats), NEW n \in DOMAIN nodes,
         NEW t \in DOMAIN query.tables, ScanOf(query, nodes[n], query.tables[t]),
         nodes[n].operation = "index_scan"
  PROVE  Together(Requests(n))
<1> DEFINE node == nodes[n]
           name == node.table_name
           table == Tables[name]
           height == IndexOn(name, node.index_column).height
           up == IndexPages(node)
           spots == Locations(node)
           across == [l \in DOMAIN spots |-> <<"table", name, spots[l][1]>>]
<1>1. /\ name \in DOMAIN Tables /\ IsList(table.rows) /\ table.target \in Nat
      /\ table.pages = MakePages(table.rows, table.target)
  BY TableOfScan DEF PlanInv
<1>2. IndexesOn(name, node.index_column) # {}
  BY DEF ScanOf
<1>3. Requests(n) = up \o across
  BY DEF Requests
<1>4. height \in Nat \ {0}
  BY <1>1, <1>2, IndexFacts
<1>5. up = [level \in 1 .. height |-> <<"index", name, node.index_column, level, IndexValue(node)>>]
  BY DEF IndexPages
<1>6. IsList(spots) /\ (spots = LocationsOf(table.pages, node.index_column, IndexValue(node)) \/ spots = <<>>)
  BY <1>1, <1>2, SearchFacts DEF Locations
<1>7. Len(spots) \in Nat /\ DOMAIN spots = 1 .. Len(spots)
  BY <1>6, ListFacts
<1>8. \A a, b \in 1 .. Len(spots) : a < b =>
        spots[a][1] \in Nat /\ spots[b][1] \in Nat /\ spots[a][1] <= spots[b][1]
  <2>1. CASE spots = <<>>
    <3>1. Len(spots) = 0
      BY <2>1, EmptyList
    <3> QED BY <3>1
  <2>2. CASE spots = LocationsOf(table.pages, node.index_column, IndexValue(node))
    <3> DEFINE u == LocationsOf(table.pages, node.index_column, IndexValue(node))
    <3>1. \A a, b \in DOMAIN u : a < b => u[a][1] \in Nat /\ u[b][1] \in Nat /\ u[a][1] <= u[b][1]
      BY <1>1, LocationsInPageOrder
    <3> HIDE DEF u, spots
    <3> QED BY <1>7, <2>2, <3>1 DEF u
  <2> QED BY <1>6, <2>1, <2>2
<1> HIDE DEF height, spots
<1>9. /\ IsList(up) /\ Len(up) = height
      /\ IsList(across) /\ Len(across) = Len(spots)
      /\ \A l \in 1 .. height : up[l] = <<"index", name, node.index_column, l, IndexValue(node)>>
      /\ \A l \in 1 .. Len(spots) : across[l] = <<"table", name, spots[l][1]>>
  <2>1. up = [l \in 1 .. height |-> up[l]]
    BY <1>5
  <2>2. across = [l \in 1 .. Len(spots) |-> across[l]]
    BY <1>7
  <2>3. \A l \in 1 .. height : up[l] = <<"index", name, node.index_column, l, IndexValue(node)>>
    BY <1>5
  <2>4. \A l \in 1 .. Len(spots) : across[l] = <<"table", name, spots[l][1]>>
    BY <1>7
  <2> HIDE DEF up, across
  <2> QED BY <1>4, <1>7, <2>1, <2>2, <2>3, <2>4, ListWith
<1> DEFINE u == up \o across
<1> HIDE DEF up, across, node, name
<1>10. /\ DOMAIN u = 1 .. height + Len(spots)
       /\ \A i \in 1 .. height : u[i] = up[i]
       /\ \A i \in 1 .. Len(spots) : u[height + i] = across[i]
  <2>1. /\ DOMAIN u = 1 .. Len(up) + Len(across)
        /\ \A i \in 1 .. Len(up) : u[i] = up[i]
        /\ \A i \in 1 .. Len(across) : u[Len(up) + i] = across[i]
    <3>1. IsList(up) /\ IsList(across)
      BY <1>9
    <3> QED BY <3>1, ConcatLists
  <2>2. Len(up) = height /\ Len(across) = Len(spots)
    BY <1>9
  <2> HIDE DEF u
  <2> QED BY <2>1, <2>2
<1> HIDE DEF u
<1>11. /\ \A l \in 1 .. height : u[l] = <<"index", name, node.index_column, l, IndexValue(node)>>
       /\ \A l \in 1 .. Len(spots) : u[height + l] = <<"table", name, spots[l][1]>>
  BY <1>9, <1>10
<1>12. ASSUME NEW i \in DOMAIN u
       PROVE  u[i] # <<"write">>
  <2>1. CASE i \in 1 .. height
    BY <1>11, <2>1
  <2>2. CASE i \notin 1 .. height
    <3>1. i - height \in 1 .. Len(spots) /\ height + (i - height) = i
      BY <1>4, <1>7, <1>10, <2>2
    <3> QED BY <1>11, <3>1
  <2> QED BY <2>1, <2>2
<1>13. ASSUME NEW i \in DOMAIN u, NEW j \in DOMAIN u, i < j, u[i] = u[j]
       PROVE  u[j - 1] = u[j]
  <2>1. i \in 1 .. height + Len(spots) /\ j \in 1 .. height + Len(spots)
    BY <1>10
  <2>2. CASE j \in 1 .. height
    <3>1. i \in 1 .. height
      BY <1>4, <1>13, <2>1, <2>2
    <3>2. u[i] = <<"index", name, node.index_column, i, IndexValue(node)>>
      BY <1>11, <3>1
    <3>3. u[j] = <<"index", name, node.index_column, j, IndexValue(node)>>
      BY <1>11, <2>2
    <3>4. i = j
      <4>1. u[i][4] = i
        BY <3>2
      <4>2. u[j][4] = j
        BY <3>3
      <4> QED BY <1>13, <4>1, <4>2
    <3>5. i < j
      BY <1>13
    <3>6. j \in Int
      BY <1>4, <2>2
    <3> QED BY <3>4, <3>5, <3>6
  <2>3. CASE j \notin 1 .. height
    <3> DEFINE b == j - height
    <3>1. b \in 1 .. Len(spots) /\ height + b = j
      BY <1>4, <1>7, <2>1, <2>3
    <3>2. u[j] = <<"table", name, spots[b][1]>>
      BY <1>11, <3>1
    <3>3. CASE i \in 1 .. height
      <4>1. u[i] = <<"index", name, node.index_column, i, IndexValue(node)>>
        BY <1>11, <3>3
      <4> QED BY <1>13, <3>2, <4>1
    <3>4. CASE i \notin 1 .. height
      <4> DEFINE a == i - height
      <4>1. a \in 1 .. Len(spots) /\ height + a = i /\ a < b
        BY <1>4, <1>7, <1>13, <2>1, <3>1, <3>4
      <4>2. u[i] = <<"table", name, spots[a][1]>>
        BY <1>11, <4>1
      <4>3. spots[a][1] = spots[b][1]
        BY <1>13, <3>2, <4>2
      <4>4. b - 1 \in 1 .. Len(spots) /\ height + (b - 1) = j - 1 /\ (a = b - 1 \/ a < b - 1) /\ b - 1 < b
        BY <1>4, <1>7, <3>1, <4>1
      <4>5. spots[b - 1][1] = spots[b][1]
        <5> HIDE DEF a, b
        <5>1. /\ spots[a][1] \in Nat /\ spots[b - 1][1] \in Nat /\ spots[b][1] \in Nat
              /\ spots[b - 1][1] <= spots[b][1] /\ (a < b - 1 => spots[a][1] <= spots[b - 1][1])
          BY <1>8, <3>1, <4>1, <4>4
        <5>2. spots[a][1] <= spots[b - 1][1]
          BY <4>4, <5>1
        <5> QED BY <4>3, <5>1, <5>2
      <4>6. u[j - 1] = <<"table", name, spots[b - 1][1]>>
        BY <1>11, <4>4
      <4> QED BY <3>2, <4>5, <4>6
    <3> QED BY <3>3, <3>4
  <2> QED BY <2>2, <2>3
<1> QED BY <1>3, <1>12, <1>13 DEF Together, u

-----------------------------------------------------------------------------
(* What an operator asks for is a sequence.                                *)
LEMMA WritesAreLists ==
  ASSUME NEW n \in Int
  PROVE  IsList(Writes(n))
<1>1. Writes(n) = [i \in 1 .. n |-> Writes(n)[i]]
  BY DEF Writes
<1> QED BY <1>1, ListUpTo

LEMMA TablePagesList ==
  ASSUME NEW name \in DOMAIN Tables
  PROVE  IsList(TablePages(name))
<1> DEFINE table == Tables[name]
           count == PageCount(table.rows, table.target)
<1>1. IsList(table.rows) /\ table.target \in Nat /\ table.pages = MakePages(table.rows, table.target)
  BY TableAssumption DEF IsList
<1>2. DOMAIN table.pages = 1 .. count /\ count \in Nat
  BY <1>1, PagesOfTable
<1>3. TablePages(name) = [p \in 1 .. count |-> TablePages(name)[p]]
  BY <1>2 DEF TablePages
<1> HIDE DEF count
<1> QED BY <1>2, <1>3, ListWith

LEMMA RescansAreLists ==
  ASSUME NEW node, IsList(Left(node)),
         nodes[node.children[2]].table_name \in DOMAIN Tables
  PROVE  IsList(RescanPages(node))
<1> DEFINE name == nodes[node.children[2]].table_name
           count == Rescans(node.operation, Left(node))
           scans == [pass \in 1 .. count |-> TablePages(name)]
<1>1. count \in Nat
  <2>1. RowsPerBlock(node.operation) \in Nat \ {0} /\ Len(Left(node)) \in Nat
    BY SizesOfJoins, ListFacts
  <2>2. CeilDiv(Len(Left(node)), RowsPerBlock(node.operation)) \in Nat
    BY <2>1, CeilDivBounds
  <2> QED BY <2>2 DEF Rescans, Blocks, AtLeast
<1>2. IsList(TablePages(name))
  BY TablePagesList
<1>3. RescanPages(node) = FlattenSeq(scans)
  BY DEF RescanPages
<1> HIDE DEF count
<1>4. scans = [pass \in 1 .. count |-> scans[pass]] /\ \A pass \in 1 .. count : scans[pass] = TablePages(name)
  OBVIOUS
<1> HIDE DEF scans, name
<1>5. IsList(scans) /\ Len(scans) = count
  BY <1>1, <1>4, ListWith
<1>6. \A i \in 1 .. Len(scans) : IsList(scans[i])
  BY <1>2, <1>4, <1>5
<1> QED BY <1>3, <1>5, <1>6, FlattenFacts

LEMMA PartitionsAreLists ==
  ASSUME NEW left, IsList(left), NEW right, IsList(right), NEW n
  PROVE  IsList(PartitionPages(left, right, n))
<1> DEFINE partition(keys, p) ==
             Selected(keys, {i \in DOMAIN keys : PartitionOf(Hash, keys[i], left, right) = p})
           D == 1 .. PartitionCount(left, right)
           f == [p \in D |-> PagesOf(partition(left, p)) + PagesOf(partition(right, p))]
           total == FoldSet(LAMBDA p, m : PagesOf(partition(left, p)) + PagesOf(partition(right, p)) + m,
                            0, D)
           x(t) == CHOOSE e \in t : TRUE
           Step(g) == [t \in SUBSET D |->
                        IF t = {} THEN 0
                        ELSE PagesOf(partition(left, x(t))) + PagesOf(partition(right, x(t))) + g[t \ {x(t)}]]
<1>1. total = (CHOOSE g : g = Step(g))[D]
  BY DEF FoldSet, MapThenFoldSet
<1>2. \A g : Step(g) = SumStep(f, D, g)
  <2> TAKE g
  <2>1. \A t \in SUBSET D : t # {} =>
          f[x(t)] = PagesOf(partition(left, x(t))) + PagesOf(partition(right, x(t)))
    <3>1. \A t \in SUBSET D : t # {} => x(t) \in D
      OBVIOUS
    <3> HIDE DEF x, partition, D
    <3> QED BY <3>1
  <2>2. SumStep(f, D, g) = [t \in SUBSET D |-> IF t = {} THEN 0 ELSE f[x(t)] + g[t \ {x(t)}]]
    BY DEF SumStep
  <2> HIDE DEF x, D, f, partition
  <2> QED BY <2>1, <2>2
<1>3. PartitionCount(left, right) \in Nat
  BY SizesOfJoins
<1>4. IsFiniteSet(D)
  BY <1>3, FS_Interval
<1>5. ASSUME NEW keys, IsList(keys), NEW p  PROVE PagesOf(partition(keys, p)) \in Int
  <2> DEFINE M == {i \in DOMAIN keys : PartitionOf(Hash, keys[i], left, right) = p}
  <2>1. M \in SUBSET (DOMAIN keys)
    OBVIOUS
  <2> HIDE DEF M
  <2>2. Len(Selected(keys, M)) \in Nat
    BY <1>5, <2>1, SelectedFacts
  <2>3. CeilDiv(Len(Selected(keys, M)), TuplesPerPage) \in Int
    BY <2>2, EvaluatorAssumption, CeilDivInt
  <2> QED BY <2>3 DEF PagesOf, M
<1>6. \A p \in D : f[p] \in Int
  <2> HIDE DEF partition, D
  <2> QED BY <1>5
<1> HIDE DEF Step, D, f, partition
<1>7. PICK g : g = SumStep(f, D, g)
  BY <1>4, SumExists
<1> DEFINE a == CHOOSE h : h = Step(h)
           b == CHOOSE h : h = SumStep(f, D, h)
<1>8. a = Step(a)
  BY <1>2, <1>7
<1>9. b = SumStep(f, D, b)
  BY <1>7
<1> HIDE DEF a, b
<1>10. a[D] = b[D]
  <2>1. a = SumStep(f, D, a)
    BY <1>2, <1>8
  <2> QED BY <1>4, <1>9, <2>1, SumsAgree
<1>11. SumFunctionOnSet(f, D) = b[D]
  BY SumIs DEF b
<1>12. SumFunctionOnSet(f, D) \in Int
  BY <1>4, <1>6, SumType
<1> HIDE DEF total
<1>13. total \in Int
  BY <1>1, <1>10, <1>11, <1>12 DEF a
<1> DEFINE temps == [page \in 1 .. total |-> <<"temp", n, page>>]
<1>14. IsList(Writes(total) \o temps)
  <2>1. temps = [page \in 1 .. total |-> temps[page]]
    OBVIOUS
  <2> HIDE DEF temps
  <2>2. IsList(temps) /\ IsList(Writes(total))
    BY <1>13, <2>1, ListUpTo, WritesAreLists
  <2> QED BY <2>2, ConcatLists
<1>15. PartitionPages(left, right, n) = IF Spills(left, right) THEN Writes(total) \o temps ELSE <<>>
  BY DEF PartitionPages, total, D, partition
<1> HIDE DEF temps
<1> QED BY <1>14, <1>15, EmptyList

-----------------------------------------------------------------------------
(* The passes of a sort.                                                   *)
Sizes(s) == IsList(s) /\ \A i \in 1 .. Len(s) : s[i] \in Int

LEMMA SortSizes == RunRows \in Nat \ {0} /\ FanIn \in Nat \ {0}
  BY EvaluatorAssumption DEF RunRows, FanIn, MergeFrames, AtLeast

LEMMA PartsFacts ==
  ASSUME NEW total \in Nat, NEW size \in Nat \ {0}
  PROVE  LET s == Parts(total, size)
         IN  /\ Sizes(s) /\ DOMAIN s = 1 .. Len(s) /\ Len(s) \in Nat
             /\ \A g \in DOMAIN s : /\ (g - 1) * size \in 0 .. total
                                    /\ (g - 1) * size + s[g] \in (g - 1) * size .. total
<1> DEFINE q == CeilDiv(total, size)
           s == Parts(total, size)
<1>1. q \in Nat /\ size * (q - 1) < total
  BY CeilDivBounds
<1> HIDE DEF q
<1>2. s = [g \in 1 .. q |-> IF g * size <= total THEN size ELSE total - (g - 1) * size]
  BY DEF Parts, q
<1> HIDE DEF s
<1>3. ASSUME NEW g \in 1 .. q
      PROVE  /\ (g - 1) * size \in 0 .. total /\ s[g] \in Int
             /\ (g - 1) * size + s[g] \in (g - 1) * size .. total
  <2>1. s[g] = IF g * size <= total THEN size ELSE total - (g - 1) * size
    BY <1>2
  <2>2. size * (g - 1) <= size * (q - 1)
    <3>1. g - 1 \in Int /\ q - 1 \in Int /\ g - 1 <= q - 1
      BY <1>1
    <3> QED BY <3>1, TimesMonotonic
  <2>3. (g - 1) * size \in Nat /\ (g - 1) * size = size * (g - 1) /\ size * (q - 1) \in Int
    BY <1>1
  <2>4. g * size = (g - 1) * size + size
    OBVIOUS
  <2> DEFINE a == (g - 1) * size
  <2>5. a \in Nat /\ a <= total
    BY <1>1, <2>2, <2>3
  <2> HIDE DEF a
  <2>6. /\ a \in 0 .. total /\ s[g] \in Int /\ a + s[g] \in a .. total
    <3>1. CASE g * size <= total
      <4>1. s[g] = size /\ a + size <= total
        BY <2>1, <2>4, <3>1 DEF a
      <4> QED BY <2>5, <4>1
    <3>2. CASE ~(g * size <= total)
      <4>1. s[g] = total - a
        BY <2>1, <3>2 DEF a
      <4> QED BY <2>5, <4>1
    <3> QED BY <3>1, <3>2
  <2> QED BY <2>6 DEF a
<1>4. s = [g \in 1 .. q |-> s[g]]
  BY <1>2
<1>5. IsList(s) /\ Len(s) = q /\ DOMAIN s = 1 .. q
  BY <1>1, <1>4, ListWith
<1> QED BY <1>1, <1>3, <1>5 DEF Sizes, s

LEMMA GroupFacts ==
  ASSUME NEW runs, Sizes(runs), NEW g \in DOMAIN Parts(Len(runs), FanIn)
  PROVE  Sizes(Group(runs, g)) /\ FoldSeq(+, 0, Group(runs, g)) \in Int
<1> DEFINE k == (g - 1) * FanIn
           e == k + Parts(Len(runs), FanIn)[g]
           s == SubSeq(runs, k + 1, e)
<1>1. IsList(runs) /\ Len(runs) \in Nat /\ Range(runs) = {runs[i] : i \in 1 .. Len(runs)}
  BY ListFacts DEF Sizes
<1>2. k \in 0 .. Len(runs) /\ e \in k .. Len(runs)
  BY <1>1, SortSizes, PartsFacts
<1>3. Group(runs, g) = s
  BY DEF Group
<1> HIDE DEF k, e
<1>4. IsList(s) /\ Range(s) \subseteq Range(runs)
  BY <1>1, <1>2, SliceList
<1> HIDE DEF s
<1>5. Len(s) \in Nat /\ DOMAIN s = 1 .. Len(s)
  BY <1>4, ListFacts
<1>6. \A i \in 1 .. Len(s) : s[i] \in Int
  <2> TAKE i \in 1 .. Len(s)
  <2>1. s[i] \in Range(runs)
    BY <1>4, <1>5 DEF Range
  <2> QED BY <1>1, <2>1 DEF Sizes
<1>7. FoldSeq(+, 0, s) \in Int
  <2>1. FoldSeq(+, 0, s) = SumFunctionOnSet(s, DOMAIN s)
    BY DEF FoldSeq, FoldFunction, SumFunctionOnSet
  <2>2. IsFiniteSet(DOMAIN s)
    BY <1>5, FS_Interval
  <2>3. SumFunctionOnSet(s, DOMAIN s) \in Int
    BY <1>5, <1>6, <2>2, SumType
  <2> QED BY <2>1, <2>3
<1> QED BY <1>3, <1>4, <1>6, <1>7 DEF Sizes

LEMMA MergedFacts ==
  ASSUME NEW runs, Sizes(runs)
  PROVE  /\ Sizes(MergedRuns(runs))
         /\ DOMAIN MergedRuns(runs) = DOMAIN Parts(Len(runs), FanIn)
         /\ DOMAIN MergedRuns(runs) = 1 .. Len(MergedRuns(runs))
<1> DEFINE parts == Parts(Len(runs), FanIn)
           m == MergedRuns(runs)
<1>1. Len(parts) \in Nat /\ DOMAIN parts = 1 .. Len(parts)
  BY ListFacts, SortSizes, PartsFacts DEF Sizes
<1>2. m = [g \in DOMAIN parts |-> FoldSeq(+, 0, Group(runs, g))]
  BY DEF MergedRuns
<1>3. \A g \in DOMAIN parts : FoldSeq(+, 0, Group(runs, g)) \in Int
  BY GroupFacts
<1> HIDE DEF m, parts
<1>4. m = [g \in 1 .. Len(parts) |-> m[g]] /\ \A g \in 1 .. Len(parts) : m[g] \in Int
  BY <1>1, <1>2, <1>3
<1>5. IsList(m) /\ Len(m) = Len(parts) /\ DOMAIN m = 1 .. Len(parts)
  BY <1>1, <1>4, ListWith
<1> QED BY <1>1, <1>4, <1>5 DEF Sizes, m, parts

RunsStep(count, f) ==
  [pass \in 0 .. count |-> IF pass = 0 THEN Parts(count, RunRows) ELSE MergedRuns(f[pass-1])]

(* As many passes as there are rows are more than enough.                  *)
LEMMA RunsExist ==
  ASSUME NEW count \in Nat
  PROVE  RunsBefore(count) = RunsStep(count, RunsBefore(count))
<1> DEFINE first == Parts(count, RunRows)
           Step(k, f) == [pass \in 0 .. k |-> IF pass = 0 THEN first ELSE MergedRuns(f[pass-1])]
           Solved == {k \in Nat : \E f : f = Step(k, f)}
<1> HIDE DEF first
<1>1. 0 \in Solved
  <2> DEFINE f == [pass \in 0 .. 0 |-> first]
  <2>1. f = Step(0, f)
    OBVIOUS
  <2> QED BY <2>1
<1>2. ASSUME NEW k \in Nat, k \in Solved  PROVE k + 1 \in Solved
  <2>1. PICK f : f = Step(k, f)
    BY <1>2
  <2> DEFINE g == Step(k + 1, f)
  <2>2. \A e \in 0 .. k : g[e] = IF e = 0 THEN first ELSE MergedRuns(f[e-1])
    OBVIOUS
  <2>3. \A e \in 0 .. k : f[e] = IF e = 0 THEN first ELSE MergedRuns(f[e-1])
    <3>1. \A e \in 0 .. k : f[e] = Step(k, f)[e]
      BY <2>1
    <3> QED BY <3>1
  <2>4. g = [e \in 0 .. k + 1 |-> IF e = 0 THEN first ELSE MergedRuns(f[e-1])]
    OBVIOUS
  <2> HIDE DEF g
  <2>5. \A e \in 0 .. k + 1 : e # 0 => e - 1 \in 0 .. k /\ g[e-1] = f[e-1]
    BY <2>2, <2>3
  <2>6. g = Step(k + 1, g)
    BY <2>4, <2>5
  <2> QED BY <2>6
<1> HIDE DEF Solved, Step
<1>3. PICK f : f = Step(count, f)
  <2>1. count \in Solved
    BY <1>1, <1>2, NatSetInduction
  <2> QED BY <2>1 DEF Solved
<1>4. \A h : Step(count, h) = RunsStep(count, h)
  BY DEF Step, RunsStep, first
<1>5. RunsBefore(count) = CHOOSE h : h = RunsStep(count, h)
  BY DEF RunsBefore, RunsStep
<1>6. f = RunsStep(count, f)
  BY <1>3, <1>4
<1> DEFINE r == CHOOSE h : h = RunsStep(count, h)
<1>7. r = RunsStep(count, r)
  BY <1>6
<1> HIDE DEF r
<1> QED BY <1>5, <1>7 DEF r

LEMMA RunsFacts ==
  ASSUME NEW count \in Nat, NEW pass \in 0 .. count
  PROVE  Sizes(RunsBefore(count)[pass])
<1> DEFINE runs == RunsBefore(count)
           Good == {p \in Nat : p <= count => Sizes(runs[p])}
<1>1. \A p \in 0 .. count : runs[p] = IF p = 0 THEN Parts(count, RunRows) ELSE MergedRuns(runs[p-1])
  <2>1. \A p \in 0 .. count : runs[p] = RunsStep(count, runs)[p]
    BY RunsExist
  <2> HIDE DEF runs
  <2> QED BY <2>1 DEF RunsStep
<1> HIDE DEF runs
<1>2. 0 \in Good
  <2>1. Sizes(Parts(count, RunRows))
    BY SortSizes, PartsFacts
  <2> QED BY <1>1, <2>1
<1>3. ASSUME NEW p \in Nat, p \in Good  PROVE p + 1 \in Good
  <2> SUFFICES ASSUME p + 1 <= count  PROVE Sizes(runs[p + 1])
    OBVIOUS
  <2>1. p + 1 \in 0 .. count /\ (p + 1) - 1 = p /\ p + 1 # 0
    OBVIOUS
  <2>2. runs[p + 1] = MergedRuns(runs[p])
    BY <1>1, <2>1
  <2>3. Sizes(runs[p])
    BY <1>3
  <2> QED BY <2>2, <2>3, MergedFacts
<1>4. pass \in Good
  <2> HIDE DEF Good
  <2> QED BY <1>2, <1>3, NatSetInduction
<1> QED BY <1>4 DEF runs

LEMMA MergesAreLists ==
  ASSUME NEW runs, Sizes(runs), NEW n, NEW side, NEW pass
  PROVE  IsList(MergePages(runs, n, side, pass))
<1> DEFINE page(g, r, p) == <<"temp", n, side, pass, g, r, p>>
           pages(g, r) == [p \in 1 .. RunPages(Group(runs, g)[r]) |-> page(g, r, p)]
           reads(g) == FlattenSeq([r \in DOMAIN Group(runs, g) |-> pages(g, r)])
           merged == MergedRuns(runs)
           all == [g \in DOMAIN merged |-> reads(g) \o Writes(RunPages(merged[g]))]
<1>1. MergePages(runs, n, side, pass) = FlattenSeq(all)
  BY DEF MergePages
<1> HIDE DEF page
<1>2. /\ Sizes(merged) /\ DOMAIN merged = 1 .. Len(merged) /\ Len(merged) \in Nat
      /\ DOMAIN merged = DOMAIN Parts(Len(runs), FanIn)
  BY MergedFacts, ListFacts DEF Sizes
<1>3. \A size \in Int : RunPages(size) \in Int
  BY EvaluatorAssumption, CeilDivInt DEF RunPages
<1>4. ASSUME NEW g \in DOMAIN merged
      PROVE  IsList(reads(g) \o Writes(RunPages(merged[g])))
  <2> DEFINE group == Group(runs, g)
             read == [r \in DOMAIN group |-> pages(g, r)]
  <2>1. Sizes(group)
    BY <1>2, GroupFacts
  <2>2. Len(group) \in Nat /\ DOMAIN group = 1 .. Len(group) /\ \A r \in 1 .. Len(group) : group[r] \in Int
    BY <2>1, ListFacts DEF Sizes
  <2>3. ASSUME NEW r \in 1 .. Len(group)  PROVE IsList(pages(g, r))
    <3>1. RunPages(group[r]) \in Int
      BY <1>3, <2>2
    <3>2. pages(g, r) = [p \in 1 .. RunPages(group[r]) |-> pages(g, r)[p]]
      OBVIOUS
    <3> HIDE DEF pages, group
    <3> QED BY <3>1, <3>2, ListUpTo
  <2>4. read = [r \in 1 .. Len(group) |-> read[r]] /\ \A r \in 1 .. Len(group) : read[r] = pages(g, r)
    <3> HIDE DEF pages, group
    <3> QED BY <2>2
  <2>5. reads(g) = FlattenSeq(read)
    OBVIOUS
  <2> HIDE DEF pages, group, read, reads
  <2>6. IsList(read) /\ Len(read) = Len(group)
    BY <2>2, <2>4, ListWith
  <2>7. \A i \in 1 .. Len(read) : IsList(read[i])
    BY <2>3, <2>4, <2>6
  <2>8. IsList(reads(g))
    BY <2>5, <2>6, <2>7, FlattenFacts
  <2>9. IsList(Writes(RunPages(merged[g])))
    BY <1>2, <1>3, WritesAreLists DEF Sizes
  <2> QED BY <2>8, <2>9, ConcatLists
<1> HIDE DEF merged, reads
<1>5. all = [g \in 1 .. Len(merged) |-> all[g]] /\ \A g \in 1 .. Len(merged) : IsList(all[g])
  BY <1>2, <1>4
<1> HIDE DEF all
<1>6. IsList(all) /\ Len(all) = Len(merged)
  BY <1>2, <1>5, ListWith
<1> QED BY <1>1, <1>5, <1>6, FlattenFacts

LEMMA SortsAreLists ==
  ASSUME NEW count \in Nat, NEW n, NEW side
  PROVE  IsList(SortPages(count, n, side))
<1> DEFINE runs == RunsBefore(count)
           many == {pass \in 0 .. count : Len(runs[pass]) > 1}
           passes == Cardinality(many)
           written == [r \in DOMAIN runs[0] |-> Writes(RunPages(runs[0][r]))]
           merged == [pass \in 1 .. passes |-> MergePages(runs[pass-1], n, side, pass)]
<1>1. SortPages(count, n, side)
        = IF count <= RunRows THEN <<>> ELSE FlattenSeq(written) \o FlattenSeq(merged)
  BY DEF SortPages
<1>2. \A pass \in 0 .. count : Sizes(runs[pass])
  BY RunsFacts
<1> HIDE DEF runs
<1>3. passes \in 0 .. count + 1
  <2>1. IsFiniteSet(0 .. count) /\ Cardinality(0 .. count) = count + 1
    BY FS_Interval
  <2>2. many \subseteq 0 .. count
    OBVIOUS
  <2> HIDE DEF many
  <2>3. Cardinality(many) \in Nat /\ Cardinality(many) <= Cardinality(0 .. count)
    BY <2>1, <2>2, FS_Subset, FS_CardinalityType
  <2> QED BY <2>1, <2>3
<1> HIDE DEF passes
<1>4. IsList(FlattenSeq(merged))
  <2>1. ASSUME NEW pass \in 1 .. passes  PROVE IsList(merged[pass])
    <3>1. pass - 1 \in 0 .. count
      BY <1>3
    <3>2. IsList(MergePages(runs[pass - 1], n, side, pass))
      BY <1>2, <3>1, MergesAreLists
    <3> QED BY <3>2
  <2>2. merged = [pass \in 1 .. passes |-> merged[pass]] /\ passes \in Nat
    BY <1>3
  <2> HIDE DEF merged
  <2>3. IsList(merged) /\ Len(merged) = passes
    BY <2>2, ListWith
  <2> QED BY <2>1, <2>3, FlattenFacts
<1>5. IsList(FlattenSeq(written))
  <2> DEFINE first == runs[0]
  <2>1. Sizes(first)
    BY <1>2
  <2>2. Len(first) \in Nat /\ DOMAIN first = 1 .. Len(first)
    BY <2>1, ListFacts DEF Sizes
  <2>3. \A r \in 1 .. Len(first) : IsList(Writes(RunPages(first[r])))
    <3> TAKE r \in 1 .. Len(first)
    <3>1. RunPages(first[r]) \in Int
      BY <2>1, EvaluatorAssumption, CeilDivInt DEF RunPages, Sizes
    <3> QED BY <3>1, WritesAreLists
  <2> HIDE DEF first
  <2>4. written = [r \in DOMAIN first |-> Writes(RunPages(first[r]))]
    BY DEF first
  <2> HIDE DEF written
  <2>5. written = [r \in 1 .. Len(first) |-> written[r]] /\ \A r \in 1 .. Len(first) : IsList(written[r])
    BY <2>2, <2>3, <2>4
  <2>6. IsList(written) /\ Len(written) = Len(first)
    BY <2>2, <2>5, ListWith
  <2> QED BY <2>5, <2>6, FlattenFacts
<1> HIDE DEF written, merged
<1>6. IsList(FlattenSeq(written) \o FlattenSeq(merged))
  BY <1>4, <1>5, ConcatLists
<1> QED BY <1>1, <1>6, EmptyList

-----------------------------------------------------------------------------
(* The inputs of a join whose children have run.                           *)
LEMMA InputsOfJoins ==
  ASSUME PlanInv, IsPlan(query, table_stats, nodes, root), RowsInv, NEW i \in 1 .. Len(Schedule),
         IsJoin(nodes[Schedule[i]]), Range(nodes[Schedule[i]].children) \subseteq DOMAIN rows
  PROVE  LET node == nodes[Schedule[i]]
         IN  /\ IsList(Left(node)) /\ IsList(Right(node))
             /\ nodes[node.children[2]].table_name \in DOMAIN Tables
<1> DEFINE m == Len(query.tables)
           n == Schedule[i]
<1>1. WellFormed(nodes) /\ root \in DOMAIN nodes /\ m \in Nat \ {0} /\ Live
  BY QueryFacts, PlanIsLive DEF PlanInv, IsPlan
<1>2. PICK order, access, base : LeftDeep(query, nodes, root, order, access, base)
  BY DEF IsPlan
<1>3. n \in Tree(nodes, root)
  <2>1. IsList(Schedule) /\ Range(Schedule) = Tree(nodes, root)
    BY <1>1, PostOrderFacts DEF Schedule, Tree
  <2> QED BY <2>1, ListFacts
<1>4. Tree(nodes, root) = {access[s] : s \in 1 .. m} \cup (base + 1 .. base + m)
  BY <1>1, <1>2, TreeOfPlan
<1>5. /\ base \in Nat /\ root = base + m
      /\ \A t \in 1 .. m : IsScan(nodes[access[t]])
      /\ \A j \in 1 .. m - 1 : nodes[base + j].children = <<TopOf(access, base, j - 1), access[j + 1]>>
      /\ ~IsJoin(nodes[root])
  <2>1. PlanShape(nodes, root, m, access, base)
    BY <1>1, <1>2, PlanFacts
  <2> QED BY <2>1 DEF PlanShape
<1> HIDE DEF m, n
<1>6. n \notin {access[s] : s \in 1 .. m} /\ n # root
  BY <1>5 DEF IsScan, IsJoin, n
<1> DEFINE j == n - base
<1>7. j \in 1 .. m - 1 /\ base + j = n /\ j - 1 \in 0 .. m - 1 /\ j + 1 \in 1 .. m
  <2>1. n \in base + 1 .. base + m
    BY <1>3, <1>4, <1>6
  <2>2. base \in Nat /\ m \in Nat \ {0} /\ n # base + m
    BY <1>1, <1>5, <1>6
  <2> QED BY <2>1, <2>2
<1> HIDE DEF j
<1> DEFINE top == TopOf(access, base, j - 1)
           leaf == access[j + 1]
<1>8. nodes[n].children = <<top, leaf>>
  BY <1>5, <1>7
<1> HIDE DEF top, leaf
<1>9. /\ nodes[n].children[1] = top /\ nodes[n].children[2] = leaf
      /\ top \in DOMAIN rows /\ leaf \in DOMAIN rows
  <2>1. Range(nodes[n].children) = {top, leaf}
    BY <1>8, PairRange
  <2> QED BY <1>8, <2>1 DEF n
<1>10. IsList(rows[top])
  <2>1. Enumerates(rows[top], FirstOf(order, (j - 1) + 1), FirstConditions(base, j - 1))
    <3> DEFINE k == j - 1
    <3>1. k \in 0 .. Len(query.tables) - 1 /\ TopOf(access, base, k) \in DOMAIN rows
      BY <1>7, <1>9 DEF top, m
    <3> HIDE DEF k
    <3>2. Enumerates(rows[TopOf(access, base, k)], FirstOf(order, k + 1), FirstConditions(base, k))
      BY <1>1, <1>2, <3>1, TopEnumerates
    <3> QED BY <3>2 DEF k, top
  <2> QED BY <2>1 DEF Enumerates
<1>11. IsList(rows[leaf]) /\ nodes[leaf].table_name \in DOMAIN Tables
  <2> DEFINE t == j + 1
  <2>1. t \in 1 .. Len(query.tables) /\ access[t] \in DOMAIN rows
    BY <1>7, <1>9 DEF leaf, m
  <2> HIDE DEF t
  <2>2. Enumerates(rows[access[t]], Only(order[t]), {})
    BY <1>1, <1>2, <2>1, LeafEnumerates
  <2>3. order[t] \in DOMAIN query.tables /\ ScanOf(query, nodes[access[t]], query.tables[order[t]])
    BY <1>1, <1>2, <2>1, OrderFacts
  <2>4. nodes[access[t]].table_name \in DOMAIN Tables
    BY <1>1, <2>3, TableOfScan DEF Live
  <2> QED BY <2>2, <2>4 DEF Enumerates, t, leaf
<1> QED BY <1>9, <1>10, <1>11 DEF Left, Right, n

LEMMA KeysAreLists ==
  ASSUME NEW node
  PROVE  /\ IsList(Left(node)) => IsList(LeftKeys(node))
         /\ IsList(Right(node)) => IsList(RightKeys(node))
<1>1. ASSUME IsList(Left(node))  PROVE IsList(LeftKeys(node))
  <2> DEFINE s == LeftKeys(node)
  <2>1. Len(Left(node)) \in Nat /\ DOMAIN Left(node) = 1 .. Len(Left(node))
    BY <1>1, ListFacts
  <2>2. s = [i \in 1 .. Len(Left(node)) |-> s[i]]
    BY <2>1 DEF LeftKeys
  <2> HIDE DEF s
  <2>3. IsList(s)
    BY <2>1, <2>2, ListWith
  <2> QED BY <2>3 DEF s
<1>2. ASSUME IsList(Right(node))  PROVE IsList(RightKeys(node))
  <2> DEFINE s == RightKeys(node)
  <2>1. Len(Right(node)) \in Nat /\ DOMAIN Right(node) = 1 .. Len(Right(node))
    BY <1>2, ListFacts
  <2>2. s = [i \in 1 .. Len(Right(node)) |-> s[i]]
    BY <2>1 DEF RightKeys
  <2> HIDE DEF s
  <2>3. IsList(s)
    BY <2>1, <2>2, ListWith
  <2> QED BY <2>3 DEF s
<1> QED BY <1>1, <1>2

LEMMA RequestsAreLists ==
  ASSUME PlanInv, IsPlan(query, table_stats, nodes, root), RowsInv, NEW i \in 1 .. Len(Schedule),
         Range(nodes[Schedule[i]].children) \subseteq DOMAIN rows
  PROVE  IsList(Requests(Schedule[i]))
<1> DEFINE n == Schedule[i]
           node == nodes[n]
<1>1. CASE IsScan(node)
  <2>1. n \in DOMAIN nodes /\ \E t \in DOMAIN query.tables : ScanOf(query, node, query.tables[t])
    BY <1>1, ScheduleFacts
  <2> HIDE DEF n
  <2>2. Known(query, table_stats)
    BY DEF IsPlan
  <2>3. IsList(Requests(n))
    BY <2>1, <2>2, ScansRequestPages
  <2> QED BY <2>3 DEF n
<1>2. CASE IsJoin(node)
  <2>1. IsList(Left(node)) /\ IsList(Right(node)) /\ nodes[node.children[2]].table_name \in DOMAIN Tables
    BY <1>2, InputsOfJoins
  <2>2. IsList(LeftKeys(node)) /\ IsList(RightKeys(node))
    BY <2>1, KeysAreLists
  <2>3. Len(Left(node)) \in Nat /\ Len(Right(node)) \in Nat
    BY <2>1, ListFacts
  <2> HIDE DEF n, node
  <2>4. IsList(RescanPages(node))
    BY <2>1, RescansAreLists
  <2>5. IsList(PartitionPages(LeftKeys(node), RightKeys(node), n))
    BY <2>2, PartitionsAreLists
  <2>6. IsList(SortPages(Len(Left(node)), n, "left") \o SortPages(Len(Right(node)), n, "right"))
    <3>1. IsList(SortPages(Len(Left(node)), n, "left")) /\ IsList(SortPages(Len(Right(node)), n, "right"))
      BY <2>3, SortsAreLists
    <3> QED BY <3>1, ConcatLists
  <2>7. \/ Requests(n) = RescanPages(node)
        \/ Requests(n) = PartitionPages(LeftKeys(node), RightKeys(node), n)
        \/ Requests(n) = SortPages(Len(Left(node)), n, "left") \o SortPages(Len(Right(node)), n, "right")
    BY <1>2 DEF Requests, IsJoin, node
  <2>8. IsList(Requests(n))
    BY <2>4, <2>5, <2>6, <2>7
  <2> QED BY <2>8 DEF n
<1>3. CASE ~IsScan(node) /\ ~IsJoin(node)
  <2>1. Requests(n) = <<>>
    BY <1>3 DEF Requests, IsScan, IsJoin
  <2> QED BY <2>1, EmptyList
<1> QED BY <1>1, <1>2, <1>3

-----------------------------------------------------------------------------
(* What an operator asks for stays as it is once its children have run.    *)
RescansOf(name, operation, left) ==
  FlattenSeq([pass \in 1 .. Rescans(operation, left) |-> TablePages(name)])

IndexScanOf(node) ==
  IndexPages(node) \o [l \in DOMAIN Locations(node) |->
                         <<"table", node.table_name, Locations(node)[l][1]>>]

LEMMA RequestsKept ==
  ASSUME query' = query, nodes' = nodes, NEW n,
         IsJoin(nodes[n]) => /\ rows'[nodes[n].children[1]] = rows[nodes[n].children[1]]
                             /\ rows'[nodes[n].children[2]] = rows[nodes[n].children[2]]
  PROVE  Requests(n)' = Requests(n)
<1> DEFINE node == nodes[n]
<1>1. CASE node.operation = "seq_scan"
  BY <1>1 DEF Requests
<1>2. CASE node.operation = "index_scan"
  <2>1. Requests(n) = IndexScanOf(node)
    BY <1>2 DEF Requests, IndexScanOf
  <2>2. Requests(n)' = IndexScanOf(node')
    BY <1>2 DEF Requests, IndexScanOf
  <2> QED BY <2>1, <2>2
<1>3. CASE IsJoin(node)
  <2>1. Left(node)' = Left(node) /\ Right(node)' = Right(node)
    BY <1>3 DEF Left, Right
  <2>2. CASE node.operation \in {"nested_loop_join", "block_nested_loop_join"}
    <3> DEFINE name == nodes[node.children[2]].table_name
    <3>1. Requests(n) = RescansOf(name, node.operation, Left(node))
      BY <2>2 DEF Requests, RescanPages, RescansOf
    <3>2. Requests(n)' = RescansOf(name', node.operation', Left(node)')
      <4>1. node'.operation \in {"nested_loop_join", "block_nested_loop_join"}
        BY <2>2
      <4> QED BY <4>1 DEF Requests, RescanPages, RescansOf
    <3> QED BY <2>1, <3>1, <3>2
  <2>3. CASE node.operation = "hash_join"
    <3>1. Requests(n) = PartitionPages(LeftKeys(node), RightKeys(node), n)
      BY <2>3 DEF Requests
    <3>2. Requests(n)' = PartitionPages(LeftKeys(node)', RightKeys(node)', n)
      BY <2>3 DEF Requests
    <3>3. LeftKeys(node)' = LeftKeys(node) /\ RightKeys(node)' = RightKeys(node)
      <4>1. Reversed(node)' = Reversed(node)
        BY DEF Reversed
      <4> QED BY <2>1, <4>1 DEF LeftKeys, RightKeys
    <3> QED BY <3>1, <3>2, <3>3
  <2>4. CASE node.operation = "sort_merge_join"
    <3>1. Requests(n) = SortPages(Len(Left(node)), n, "left") \o SortPages(Len(Right(node)), n, "right")
      BY <2>4 DEF Requests
    <3>2. Requests(n)' = SortPages(Len(Left(node)'), n, "left") \o SortPages(Len(Right(node)'), n, "right")
      BY <2>4 DEF Requests
    <3> QED BY <2>1, <3>1, <3>2
  <2> QED BY <1>3, <2>2, <2>3, <2>4 DEF IsJoin
<1>4. CASE ~IsJoin(node) /\ ~IsScan(node)
  BY <1>4 DEF Requests, IsJoin, IsScan
<1> QED BY <1>1, <1>2, <1>3, <1>4 DEF IsScan

-----------------------------------------------------------------------------
(* The pages a plan has asked for so far are among no more pages than it   *)
(* has missed, and the cached ones are; an index scan has missed no more   *)
(* pages than it has asked for, the last one of which is cached.           *)
Covered(A) ==
  \A n \in DOMAIN rows : Range(Requests(n)) \subseteq A \cup Range(agenda) \cup {<<"write">>}

ReadInv ==
  \E A : /\ IsFiniteSet(A) /\ Cardinality(A) <= metrics.buffer_misses
         /\ Range(frames) \subseteq A /\ Covered(A)

IsIndexScan(n) == nodes[n].operation = "index_scan"

AskedSoFar(d) ==
  /\ IsList(d) /\ Requests(current) = d \o agenda
  /\ metrics.buffer_misses - snapshot[1] <= Cardinality(Range(d))
  /\ d # <<>> => d[Len(d)] \in Range(frames)

FinishedScans ==
  \A i \in DOMAIN all_metrics : IsIndexScan(all_metrics[i].node) =>
    all_metrics[i].buffer_misses <= Cardinality(Range(Requests(all_metrics[i].node)))

PagesInv ==
  /\ IsList(frames) /\ IsList(agenda)
  /\ ReadInv
  /\ current # 0 /\ IsIndexScan(current) => \E d : AskedSoFar(d)
  /\ FinishedScans

LEMMA PagesStart ==
  ASSUME NEW plan, StartPlan(plan)
  PROVE  PagesInv'
<1>1. /\ frames' = <<>> /\ agenda' = <<>> /\ rows' = <<>> /\ current' = 0 /\ all_metrics' = <<>>
      /\ metrics' = Pool!ZeroMetrics
  BY DEF StartPlan, ColdPool
<1>2. metrics'.buffer_misses = 0
  BY <1>1 DEF Pool!ZeroMetrics
<1>3. ReadInv'
  <2>1. IsFiniteSet({}) /\ Cardinality({}) = 0
    BY FS_EmptySet
  <2>2. Range(frames') = {} /\ DOMAIN rows' = {}
    BY <1>1, EmptyList
  <2>3. Covered({})'
    BY <2>2 DEF Covered
  <2> QED BY <1>2, <2>1, <2>2, <2>3 DEF ReadInv
<1>4. FinishedScans'
  BY <1>1, EmptyList DEF FinishedScans
<1> QED BY <1>1, <1>3, <1>4, EmptyList DEF PagesInv

(* The requests of the operators that have run stay.                       *)
LEMMA RequestsOfRowsKept ==
  ASSUME query' = query, nodes' = nodes, NEW n \in DOMAIN rows, RowsInv,
         \A x \in DOMAIN rows : rows'[x] = rows[x]
  PROVE  Requests(n)' = Requests(n)
<1>1. Evaluated(query, nodes, rows, n)
  BY DEF RowsInv
<1>2. IsJoin(nodes[n]) => nodes[n].children[1] \in DOMAIN rows /\ nodes[n].children[2] \in DOMAIN rows
  BY <1>1 DEF Evaluated
<1> QED BY <1>2, RequestsKept

LEMMA ScanRequestsKept ==
  ASSUME query' = query, nodes' = nodes, NEW n, IsIndexScan(n)
  PROVE  Requests(n)' = Requests(n)
<1>1. ~IsJoin(nodes[n])
  BY DEF IsIndexScan, IsJoin
<1> QED BY <1>1, RequestsKept

LEMMA FinishedScansKept ==
  ASSUME query' = query, nodes' = nodes, all_metrics' = all_metrics, FinishedScans
  PROVE  FinishedScans'
<1> SUFFICES ASSUME NEW i \in DOMAIN all_metrics, NEW n, n = all_metrics[i].node, IsIndexScan(n)'
             PROVE  all_metrics[i].buffer_misses <= Cardinality(Range(Requests(n)'))
  BY DEF FinishedScans
<1>1. IsIndexScan(n)
  BY DEF IsIndexScan
<1>2. Requests(n)' = Requests(n)
  BY <1>1, ScanRequestsKept
<1> QED BY <1>1, <1>2 DEF FinishedScans

LEMMA PagesOfOperator ==
  ASSUME PlanInv, IsPlan(query, table_stats, nodes, root), RunInv, RowsInv, PagesInv,
         StartOperator, UNCHANGED planVars
  PROVE  PagesInv'
<1> DEFINE k == Len(all_metrics)
           n == Schedule[k + 1]
<1>1. /\ current = 0 /\ k < Len(Schedule) /\ all_metrics' = all_metrics
      /\ nodes' = nodes /\ query' = query /\ frames' = frames /\ metrics' = metrics
  BY DEF StartOperator, planVars, poolVars
<1>2. /\ n \in DOMAIN nodes /\ k + 1 \in 1 .. Len(Schedule)
      /\ Range(nodes[n].children) \subseteq DOMAIN rows
      /\ IsJoin(nodes[n]) => Range(nodes[n].children) = {nodes[n].children[1], nodes[n].children[2]}
  BY <1>1, ChildrenHaveRun
<1>3. FinishedScans'
  BY <1>1, FinishedScansKept DEF PagesInv
<1>4. agenda = <<>>
  BY <1>1 DEF RunInv, ScheduleInv
<1>5. PICK A : /\ IsFiniteSet(A) /\ Cardinality(A) <= metrics.buffer_misses
               /\ Range(frames) \subseteq A /\ Covered(A)
  BY DEF PagesInv, ReadInv
<1>6. CASE OperatorError(n) = "none"
  <2>1. /\ current' = n /\ agenda' = Requests(n) /\ snapshot' = Snapshot(n)
        /\ rows' = [r \in DOMAIN rows \cup {n} |-> IF r \in DOMAIN rows THEN rows[r] ELSE Output(n)]
    BY <1>6 DEF StartOperator
  <2>2. IsList(Requests(n))
    <3> DEFINE i == k + 1
    <3>1. i \in 1 .. Len(Schedule) /\ Range(nodes[Schedule[i]].children) \subseteq DOMAIN rows
      BY <1>2
    <3> HIDE DEF i
    <3>2. IsList(Requests(Schedule[i]))
      BY <3>1, RequestsAreLists
    <3> QED BY <3>2 DEF i
  <2> DEFINE new == Output(n)
  <2>3. DOMAIN rows' = DOMAIN rows \cup {n} /\ \A x \in DOMAIN rows : rows'[x] = rows[x]
    <3>1. rows' = [r \in DOMAIN rows \cup {n} |-> IF r \in DOMAIN rows THEN rows[r] ELSE new]
      BY <2>1
    <3> HIDE DEF new, n
    <3> QED BY <3>1
  <2>4. \A x \in DOMAIN rows : Requests(x)' = Requests(x)
    BY <1>1, <2>3, RequestsOfRowsKept
  <2>5. PICK o : o = n
    OBVIOUS
  <2> HIDE DEF n, new
  <2>6. Requests(o)' = Requests(o)
    <3>1. IsJoin(nodes[o]) => /\ nodes[o].children[1] \in DOMAIN rows
                              /\ nodes[o].children[2] \in DOMAIN rows
      BY <1>2, <2>5
    <3>2. IsJoin(nodes[o]) => /\ rows'[nodes[o].children[1]] = rows[nodes[o].children[1]]
                              /\ rows'[nodes[o].children[2]] = rows[nodes[o].children[2]]
      BY <2>3, <3>1
    <3> QED BY <1>1, <3>2, RequestsKept
  <2>7. Covered(A)'
    <3> SUFFICES ASSUME NEW x \in DOMAIN rows'
                 PROVE  Range(Requests(x)') \subseteq A \cup Range(agenda') \cup {<<"write">>}
      BY DEF Covered
    <3>1. CASE x \in DOMAIN rows
      <4>1. Range(Requests(x)) \subseteq A \cup Range(agenda) \cup {<<"write">>}
        BY <1>5, <3>1 DEF Covered
      <4>2. Range(agenda) = {}
        BY <1>4, EmptyList
      <4> QED BY <2>4, <3>1, <4>1, <4>2
    <3>2. CASE x = o
      BY <2>1, <2>5, <2>6, <3>2
    <3> QED BY <2>3, <2>5, <3>1, <3>2
  <2>8. ReadInv'
    BY <1>1, <1>5, <2>7 DEF ReadInv
  <2>9. AskedSoFar(<<>>)'
    <3>1. Requests(o)' = <<>> \o agenda'
      <4>1. \A s : IsList(s) => <<>> \o s = s
        <5> TAKE s
        <5> HAVE IsList(s)
        <5>1. s \in Seq(Range(s))
          BY DEF IsList
        <5> DEFINE T == Range(s)
        <5> HIDE DEF T
        <5>2. s \in Seq(T)
          BY <5>1 DEF T
        <5> QED BY <5>2, ConcatEmptySeq
      <4> QED BY <2>1, <2>2, <2>5, <2>6, <4>1
    <3>2. metrics'.buffer_misses - snapshot'[1] = 0
      <4>1. snapshot'[1] = metrics.buffer_misses
        BY <2>1 DEF Snapshot
      <4>2. metrics.buffer_misses \in Nat
        BY DEF RunInv, CountersInv, Pool!IOMetrics
      <4> QED BY <1>1, <4>1, <4>2
    <3>3. Cardinality(Range(<<>>)) = 0
      BY EmptyList, FS_EmptySet
    <3>4. current' = o
      BY <2>1, <2>5
    <3>5. Requests(current)' = Requests(o)'
      BY <3>4 DEF Requests
    <3> QED BY <3>1, <3>2, <3>3, <3>5, EmptyList DEF AskedSoFar
  <2> QED BY <1>1, <1>3, <2>1, <2>2, <2>8, <2>9 DEF PagesInv
<1>7. CASE OperatorError(n) # "none"
  <2>1. current' = current /\ rows' = rows /\ agenda' = agenda
    BY <1>7 DEF StartOperator
  <2>2. \A x \in DOMAIN rows : Requests(x)' = Requests(x)
    BY <1>1, <2>1, RequestsOfRowsKept
  <2>3. Covered(A)'
    BY <1>5, <2>1, <2>2 DEF Covered
  <2>4. ReadInv'
    BY <1>1, <1>5, <2>3 DEF ReadInv
  <2> QED BY <1>1, <1>3, <2>1, <2>4 DEF PagesInv
<1> QED BY <1>6, <1>7

(* A page asked for again was the last one asked for.                      *)
LEMMA RequestedAgain ==
  ASSUME NEW d, IsList(d), NEW a, IsList(a), a # <<>>, Together(d \o a)
  PROVE  a[1] # <<"write">> /\ (a[1] \in Range(d) => d # <<>> /\ d[Len(d)] = a[1])
<1> DEFINE u == d \o a
           n == Len(d)
<1>1. Len(a) \in Nat \ {0} /\ n \in Nat /\ Range(d) = {d[i] : i \in 1 .. n}
  BY FirstAndRest, ListFacts
<1>2. /\ DOMAIN u = 1 .. n + Len(a)
      /\ \A i \in 1 .. n : u[i] = d[i]
      /\ \A i \in 1 .. Len(a) : u[n + i] = a[i]
  BY ConcatLists
<1>3. Together(u)
  OBVIOUS
<1> HIDE DEF u, n
<1>4. n + 1 \in DOMAIN u /\ u[n + 1] = a[1]
  BY <1>1, <1>2
<1>5. a[1] # <<"write">>
  BY <1>3, <1>4 DEF Together
<1>6. ASSUME NEW i \in 1 .. n, d[i] = a[1]  PROVE d # <<>> /\ d[n] = a[1]
  <2>1. i \in DOMAIN u /\ i < n + 1 /\ u[i] = u[n + 1] /\ (n + 1) - 1 = n /\ n \in 1 .. n
    BY <1>1, <1>2, <1>4, <1>6
  <2>2. u[(n + 1) - 1] = u[n + 1]
    BY <1>3, <1>4, <2>1 DEF Together
  <2>3. d[n] = a[1]
    BY <1>2, <1>4, <2>1, <2>2
  <2>4. d # <<>>
    BY <2>1, EmptyList DEF n
  <2> QED BY <2>3, <2>4
<1> QED BY <1>1, <1>5, <1>6 DEF n

(* What an index scan at work asks for, page by page.                      *)
LEMMA CurrentScan ==
  ASSUME PlanInv, IsPlan(query, table_stats, nodes, root), RunInv, current # 0, IsIndexScan(current)
  PROVE  Together(Requests(current))
<1> DEFINE i == Len(all_metrics) + 1
<1>1. Len(all_metrics) < Len(Schedule) /\ current = Schedule[i] /\ IsList(all_metrics)
  BY DEF RunInv, ScheduleInv
<1>2. Len(all_metrics) \in Nat /\ Len(Schedule) \in Nat
  BY <1>1, ListFacts, ScheduleFacts
<1>3. i \in 1 .. Len(Schedule)
  BY <1>1, <1>2
<1> HIDE DEF i
<1>4. IsScan(nodes[Schedule[i]])
  BY <1>1 DEF IsIndexScan, IsScan
<1>5. PICK t \in DOMAIN query.tables : ScanOf(query, nodes[Schedule[i]], query.tables[t])
  BY <1>3, <1>4, ScheduleFacts
<1>6. PICK n : n = Schedule[i]
  OBVIOUS
<1>7. n \in DOMAIN nodes /\ ScanOf(query, nodes[n], query.tables[t]) /\ nodes[n].operation = "index_scan"
  BY <1>1, <1>3, <1>5, <1>6, ScheduleFacts DEF IsIndexScan
<1>8. Known(query, table_stats)
  BY DEF IsPlan
<1>9. Together(Requests(n))
  BY <1>7, <1>8, IndexScansGoPageByPage
<1> QED BY <1>1, <1>6, <1>9

(* A page is asked for: it is cached from now on, and missed if it was not *)
(* before.                                                                 *)
LEMMA ReadsOfRequest ==
  ASSUME RunInv, RowsInv, PagesInv, RequestPage, query' = query, nodes' = nodes
  PROVE  /\ IsList(frames') /\ IsList(agenda') /\ ReadInv'
         /\ metrics.buffer_misses \in Nat
         /\ Range(agenda) = {agenda[1]} \cup Range(agenda')
         /\ \/ agenda[1] = <<"write">>
            \/ agenda[1] \in Range(frames') /\ agenda[1] \in Range(frames)
                 /\ metrics'.buffer_misses = metrics.buffer_misses
            \/ agenda[1] \in Range(frames') /\ agenda[1] \notin Range(frames)
                 /\ metrics'.buffer_misses = metrics.buffer_misses + 1
<1> DEFINE k == agenda[1]
<1>1. /\ agenda # <<>> /\ agenda' = Tail(agenda) /\ rows' = rows /\ IsList(agenda) /\ IsList(frames)
      /\ k = <<"write">> => Pool!WriteTemporaryPage
      /\ k # <<"write">> => Pool!Fetch(k, k)
  BY DEF RequestPage, PagesInv
<1>2. IsList(agenda') /\ Range(agenda) = {k} \cup Range(agenda')
  BY <1>1, FirstAndRest
<1>3. PICK A : /\ IsFiniteSet(A) /\ Cardinality(A) <= metrics.buffer_misses
               /\ Range(frames) \subseteq A /\ Covered(A)
  BY DEF PagesInv, ReadInv
<1>4. metrics \in Pool!IOMetrics
  BY DEF RunInv, CountersInv
<1>5. \A x \in DOMAIN rows : Requests(x)' = Requests(x)
  BY <1>1, RequestsOfRowsKept
<1>6. ASSUME NEW B, A \subseteq B, k = <<"write">> \/ k \in B
      PROVE  Covered(B)'
  <2> SUFFICES ASSUME NEW x \in DOMAIN rows
               PROVE  Range(Requests(x)') \subseteq B \cup Range(agenda') \cup {<<"write">>}
    BY <1>1 DEF Covered
  <2>1. Range(Requests(x)) \subseteq A \cup Range(agenda) \cup {<<"write">>}
    BY <1>3 DEF Covered
  <2> HIDE DEF k
  <2> QED BY <1>2, <1>5, <1>6, <2>1
<1> HIDE DEF k
<1>7. metrics.buffer_misses \in Nat /\ IsList(frames) /\ Cardinality(A) \in Nat
  BY <1>1, <1>3, <1>4, CountedUp, FS_CardinalityType
<1>8. CASE k = <<"write">>
  <2>1. frames' = frames /\ metrics'.buffer_misses = metrics.buffer_misses
    BY <1>1, <1>4, <1>8, CountedUp DEF Pool!WriteTemporaryPage
  <2>2. ReadInv'
    BY <1>3, <1>6, <1>8, <2>1 DEF ReadInv
  <2> QED BY <1>2, <1>7, <1>8, <2>1, <2>2 DEF k
<1>9. CASE k # <<"write">> /\ Pool!Hit(k)
  <2>1. metrics'.buffer_misses = metrics.buffer_misses /\ k \in Range(frames)
    BY <1>4, <1>9, CountedUp DEF Pool!Hit, Pool!Range, Range
  <2>2. IsList(frames') /\ k \in Range(frames') /\ Range(frames') \subseteq Range(frames) \cup {k}
    BY <1>7, <1>9, PageFetched
  <2>3. Range(frames') \subseteq A /\ k \in A
    BY <1>3, <2>1, <2>2
  <2>4. ReadInv'
    BY <1>3, <1>6, <2>1, <2>3 DEF ReadInv
  <2> QED BY <1>2, <1>7, <2>1, <2>2, <2>4 DEF k
<1>10. CASE k # <<"write">> /\ Pool!Miss(k, k)
  <2>1. metrics'.buffer_misses = metrics.buffer_misses + 1 /\ k \notin Range(frames)
    BY <1>4, <1>10, CountedUp DEF Pool!Miss, Pool!Range, Range
  <2>2. IsList(frames') /\ k \in Range(frames') /\ Range(frames') \subseteq Range(frames) \cup {k}
    BY <1>7, <1>10, PageFetched
  <2> DEFINE B == A \cup {k}
  <2>3. IsFiniteSet(B) /\ Cardinality(B) \in Nat /\ Cardinality(B) <= Cardinality(A) + 1
    BY <1>3, OneMore
  <2>4. Cardinality(B) <= metrics'.buffer_misses
    BY <1>3, <1>7, <2>1, <2>3
  <2>5. Range(frames') \subseteq B /\ A \subseteq B /\ k \in B
    BY <1>3, <2>2
  <2> HIDE DEF B
  <2>6. ReadInv'
    BY <1>6, <2>3, <2>4, <2>5 DEF ReadInv
  <2> QED BY <1>2, <1>7, <2>1, <2>2, <2>6 DEF k
<1> QED BY <1>1, <1>8, <1>9, <1>10 DEF Pool!Fetch

LEMMA PagesOfRequest ==
  ASSUME PlanInv, IsPlan(query, table_stats, nodes, root), RunInv, RowsInv, PagesInv,
         RequestPage, UNCHANGED planVars
  PROVE  PagesInv'
<1> DEFINE k == agenda[1]
<1>1. /\ query' = query /\ nodes' = nodes /\ current' = current /\ all_metrics' = all_metrics
      /\ snapshot' = snapshot /\ agenda' = Tail(agenda) /\ agenda # <<>> /\ IsList(agenda)
  BY DEF RequestPage, planVars, PagesInv
<1>2. /\ IsList(frames') /\ IsList(agenda') /\ ReadInv'
      /\ metrics.buffer_misses \in Nat
      /\ \/ k = <<"write">>
         \/ k \in Range(frames') /\ k \in Range(frames)
              /\ metrics'.buffer_misses = metrics.buffer_misses
         \/ k \in Range(frames') /\ k \notin Range(frames)
              /\ metrics'.buffer_misses = metrics.buffer_misses + 1
  BY <1>1, ReadsOfRequest
<1>3. FinishedScans'
  BY <1>1, FinishedScansKept DEF PagesInv
<1>4. ASSUME current # 0, IsIndexScan(current)
      PROVE  \E d : AskedSoFar(d)'
  <2>1. PICK d : AskedSoFar(d)
    BY <1>4 DEF PagesInv
  <2>2. IsList(d) /\ Requests(current) = d \o agenda
    BY <2>1 DEF AskedSoFar
  <2>3. Together(d \o agenda)
    BY <1>4, <2>2, CurrentScan
  <2>4. k # <<"write">> /\ (k \in Range(d) => d # <<>> /\ d[Len(d)] = k)
    BY <1>1, <2>2, <2>3, RequestedAgain
  <2> DEFINE e == Append(d, k)
  <2>5. /\ e \o agenda' = d \o agenda /\ IsList(e) /\ e # <<>> /\ e[Len(e)] = k
        /\ Range(e) = Range(d) \cup {k}
    BY <1>1, <2>2, FirstMoves
  <2> HIDE DEF e, k
  <2>6. PICK n : n = current
    OBVIOUS
  <2>7. Requests(current)' = e \o agenda'
    <3>1. Requests(n)' = Requests(n)
      BY <1>1, <1>4, <2>6, ScanRequestsKept
    <3>2. Requests(current)' = Requests(n)'
      BY <1>1, <2>6 DEF Requests
    <3> QED BY <2>2, <2>5, <2>6, <3>1, <3>2
  <2>8. /\ IsFiniteSet(Range(d)) /\ Cardinality(Range(d)) \in Nat
        /\ Cardinality(Range(e)) \in Nat
        /\ Cardinality(Range(e)) = IF k \in Range(d) THEN Cardinality(Range(d)) ELSE Cardinality(Range(d)) + 1
    <3>1. IsFiniteSet(Range(d))
      BY <2>2, FiniteList
    <3>2. k \in Range(d) => Range(e) = Range(d)
      BY <2>5
    <3> QED BY <2>5, <3>1, <3>2, OneMore
  <2>9. /\ metrics.buffer_misses - snapshot[1] <= Cardinality(Range(d)) /\ snapshot[1] \in Int
        /\ d # <<>> => d[Len(d)] \in Range(frames)
    BY <2>1 DEF AskedSoFar, RunInv, CountersInv
  <2>10. metrics'.buffer_misses - snapshot'[1] <= Cardinality(Range(e))
    <3>1. CASE k \in Range(frames) /\ metrics'.buffer_misses = metrics.buffer_misses
      BY <1>1, <1>2, <2>8, <2>9, <3>1
    <3>2. CASE k \notin Range(frames) /\ metrics'.buffer_misses = metrics.buffer_misses + 1
      <4>1. k \notin Range(d)
        BY <2>4, <2>9, <3>2
      <4> QED BY <1>1, <1>2, <2>8, <2>9, <3>2, <4>1
    <3> QED BY <1>2, <2>4, <3>1, <3>2
  <2>11. e[Len(e)] \in Range(frames')
    BY <1>2, <2>4, <2>5
  <2>12. PICK f : f = e
    OBVIOUS
  <2>13. AskedSoFar(f)'
    BY <2>5, <2>7, <2>10, <2>11, <2>12 DEF AskedSoFar
  <2> QED BY <2>13
<1>5. (current # 0 /\ IsIndexScan(current))' => current # 0 /\ IsIndexScan(current)
  BY <1>1 DEF IsIndexScan
<1> QED BY <1>2, <1>3, <1>4, <1>5 DEF PagesInv

(* An operator is done, having made all of its requests.                   *)
LEMMA PagesOfFinish ==
  ASSUME PlanInv, IsPlan(query, table_stats, nodes, root), RunInv, RowsInv, PagesInv,
         FinishOperator, UNCHANGED planVars
  PROVE  PagesInv'
<1> DEFINE misses == metrics.buffer_misses - snapshot[1]
           e == [node |-> current, rows_out |-> Len(rows[current]),
                 buffer_misses |-> misses, page_writes |-> metrics.page_writes - snapshot[2]]
<1>1. /\ query' = query /\ nodes' = nodes /\ current # 0 /\ current' = 0 /\ agenda = <<>>
      /\ all_metrics' = Append(all_metrics, e)
      /\ frames' = frames /\ agenda' = agenda /\ rows' = rows /\ metrics' = metrics
  BY DEF FinishOperator, planVars, poolVars
<1>2. e.node = current /\ e.buffer_misses = misses
  OBVIOUS
<1> HIDE DEF e
<1>3. IsList(all_metrics)
  BY DEF RunInv, ScheduleInv
<1>4. /\ DOMAIN all_metrics' = 1 .. Len(all_metrics) + 1 /\ DOMAIN all_metrics = 1 .. Len(all_metrics)
      /\ Len(all_metrics) \in Nat
      /\ \A i \in 1 .. Len(all_metrics) : all_metrics'[i] = all_metrics[i]
      /\ all_metrics'[Len(all_metrics) + 1] = e
  BY <1>1, <1>3, AppendList, ListFacts
<1>5. \A x \in DOMAIN rows : Requests(x)' = Requests(x)
  BY <1>1, RequestsOfRowsKept
<1>6. ReadInv'
  <2>1. PICK A : /\ IsFiniteSet(A) /\ Cardinality(A) <= metrics.buffer_misses
                 /\ Range(frames) \subseteq A /\ Covered(A)
    BY DEF PagesInv, ReadInv
  <2>2. Covered(A)'
    BY <1>1, <1>5, <2>1 DEF Covered
  <2> QED BY <1>1, <2>1, <2>2 DEF ReadInv
<1>7. IsIndexScan(current) => misses <= Cardinality(Range(Requests(current)))
  <2> SUFFICES ASSUME IsIndexScan(current)
               PROVE  misses <= Cardinality(Range(Requests(current)))
    OBVIOUS
  <2>1. PICK d : AskedSoFar(d)
    BY <1>1 DEF PagesInv
  <2>2. IsList(d) /\ Requests(current) = d \o <<>> /\ misses <= Cardinality(Range(d))
    BY <1>1, <2>1 DEF AskedSoFar
  <2>3. Range(d \o <<>>) = Range(d)
    <3>1. Range(d \o <<>>) = Range(d) \cup Range(<<>>)
      BY <2>2, EmptyList, ConcatLists
    <3> QED BY <3>1, EmptyList
  <2> QED BY <2>2, <2>3
<1>8. FinishedScans'
  <2> SUFFICES ASSUME NEW i \in DOMAIN all_metrics', NEW n, n = all_metrics'[i].node, IsIndexScan(n)'
               PROVE  all_metrics'[i].buffer_misses <= Cardinality(Range(Requests(n)'))
    BY DEF FinishedScans
  <2>1. IsIndexScan(n)
    BY <1>1 DEF IsIndexScan
  <2>2. Requests(n)' = Requests(n)
    BY <1>1, <2>1, ScanRequestsKept
  <2>3. CASE i \in DOMAIN all_metrics
    <3>1. all_metrics'[i] = all_metrics[i]
      BY <1>4, <2>3
    <3> QED BY <2>1, <2>2, <2>3, <3>1 DEF PagesInv, FinishedScans
  <2>4. CASE i = Len(all_metrics) + 1
    <3>1. all_metrics'[i] = e /\ n = current
      BY <1>2, <1>4, <2>4
    <3> HIDE DEF misses
    <3> QED BY <1>2, <1>7, <2>1, <2>2, <3>1
  <2> QED BY <1>4, <2>3, <2>4
<1> QED BY <1>1, <1>6, <1>8 DEF PagesInv

(* Nothing that the pages of a plan are about changes.                     *)
LEMMA PagesKept ==
  ASSUME RowsInv, PagesInv, query' = query, nodes' = nodes, frames' = frames, agenda' = agenda,
         rows' = rows, metrics' = metrics, current' = current, snapshot' = snapshot,
         all_metrics' = all_metrics
  PROVE  PagesInv'
<1>1. \A x \in DOMAIN rows : Requests(x)' = Requests(x)
  BY RequestsOfRowsKept
<1>2. ReadInv'
  <2>1. PICK A : /\ IsFiniteSet(A) /\ Cardinality(A) <= metrics.buffer_misses
                 /\ Range(frames) \subseteq A /\ Covered(A)
    BY DEF PagesInv, ReadInv
  <2>2. Covered(A)'
    BY <1>1, <2>1 DEF Covered
  <2> QED BY <2>1, <2>2 DEF ReadInv
<1>3. FinishedScans'
  BY FinishedScansKept DEF PagesInv
<1>4. ASSUME current # 0, IsIndexScan(current)
      PROVE  \E d : AskedSoFar(d)'
  <2>1. PICK d : AskedSoFar(d)
    BY <1>4 DEF PagesInv
  <2>2. PICK n : n = current
    OBVIOUS
  <2>3. Requests(current)' = Requests(current)
    <3>1. Requests(n)' = Requests(n)
      BY <1>4, <2>2, ScanRequestsKept
    <3>2. Requests(current)' = Requests(n)'
      BY <2>2 DEF Requests
    <3> QED BY <2>2, <3>1, <3>2
  <2>4. AskedSoFar(d)'
    BY <2>1, <2>3 DEF AskedSoFar
  <2> QED BY <2>4
<1>5. (current # 0 /\ IsIndexScan(current))' => current # 0 /\ IsIndexScan(current)
  BY DEF IsIndexScan
<1> QED BY <1>2, <1>3, <1>4, <1>5 DEF PagesInv

-----------------------------------------------------------------------------
(* While a plan is executed the pages asked for are counted.               *)
ReadingInv == EvaluationInv /\ (stage = "executing" => PagesInv)

LEMMA ReadingEvaluates ==
  ASSUME ReadingInv, Evaluate
  PROVE  PagesInv'
<1>1. /\ stage = "executing" /\ ExecNext /\ UNCHANGED planVars
  BY DEF Evaluate
<1>2. /\ PlanInv /\ RunInv /\ IsPlan(query, table_stats, nodes, root) /\ RowsInv /\ PagesInv
  BY <1>1, ExecutedPlan DEF ReadingInv, EvaluationInv
<1>3. CASE StartOperator
  BY <1>1, <1>2, <1>3, PagesOfOperator
<1>4. CASE RequestPage
  BY <1>1, <1>2, <1>4, PagesOfRequest
<1>5. CASE FinishOperator
  BY <1>1, <1>2, <1>5, PagesOfFinish
<1>6. CASE FinishPlan
  <2>1. /\ query' = query /\ nodes' = nodes /\ frames' = frames /\ agenda' = agenda
        /\ rows' = rows /\ metrics' = metrics /\ current' = current /\ snapshot' = snapshot
        /\ all_metrics' = all_metrics
    BY <1>1, <1>6 DEF FinishPlan, planVars, poolVars
  <2> QED BY <1>2, <2>1, PagesKept
<1> QED BY <1>1, <1>3, <1>4, <1>5, <1>6 DEF ExecNext

LEMMA ReadingInvNext == ReadingInv /\ [Next \/ Returned]_allVars => ReadingInv'
<1> SUFFICES ASSUME ReadingInv, [Next \/ Returned]_allVars  PROVE ReadingInv'
  OBVIOUS
<1>1. EvaluationInv'
  BY EvaluationInvNext DEF ReadingInv
<1> SUFFICES ASSUME stage' = "executing"  PROVE PagesInv'
  BY <1>1 DEF ReadingInv
<1>2. CASE ParseStatement
  BY <1>2 DEF ParseStatement
<1>3. CASE Generate
  BY <1>3 DEF Generate, reportVars
<1>4. CASE Execute
  <2>1. \E plan : StartPlan(plan)
    BY <1>4 DEF Execute
  <2> QED BY <2>1, PagesStart
<1>5. CASE Evaluate
  BY <1>5, ReadingEvaluates
<1>6. CASE Compare
  <2>1. \E plan : StartPlan(plan)
    BY <1>6 DEF Compare
  <2> QED BY <2>1, PagesStart
<1>7. CASE Abort
  <2>1. stage = "executing" /\ execution \notin {"running", "done"} /\ stage' = execution
    BY <1>7 DEF Abort, Raise
  <2>2. execution \in Errors
    BY <2>1, ExecutedPlan DEF ReadingInv, EvaluationInv, RunInv, ScheduleInv
  <2> QED BY <2>1, <2>2 DEF Errors
<1>8. CASE UNCHANGED allVars
  <2>1. /\ query' = query /\ nodes' = nodes /\ frames' = frames /\ agenda' = agenda
        /\ rows' = rows /\ metrics' = metrics /\ current' = current /\ snapshot' = snapshot
        /\ all_metrics' = all_metrics /\ stage' = stage
    BY <1>8 DEF allVars, planVars, execVars, poolVars, reportVars
  <2>2. RowsInv /\ PagesInv
    BY <2>1 DEF ReadingInv, EvaluationInv
  <2> QED BY <2>1, <2>2, PagesKept
<1> QED BY <1>2, <1>3, <1>4, <1>5, <1>6, <1>7, <1>8 DEF Next, Returned

(* In every reachable state of a call the cached pages and those asked for *)
(* are among no more pages than were missed, and an index scan has missed  *)
(* no more pages than it asked for: the inductive invariant the two        *)
(* theorems below need.                                                    *)
THEOREM ReadingInvariant == Spec => []ReadingInv
<1>1. Init => ReadingInv
  <2> SUFFICES ASSUME Init  PROVE ReadingInv
    OBVIOUS
  <2>1. stage = "called"
    BY DEF Init
  <2>2. ReportInv
    BY ReportInvInit
  <2> QED BY <2>1, <2>2 DEF ReadingInv, EvaluationInv
<1> QED BY <1>1, ReadingInvNext, PTL DEF Spec

(* Every plan starts cold: it misses every page it asks for at least once, *)
(* whatever plans ran before it.                                           *)
THEOREM PlansMissEveryPage == Spec => []EveryPageMissedOnce
<1>1. ReadingInv => EveryPageMissedOnce
  <2> DEFINE pages == (UNION {Range(Requests(Schedule[s])) : s \in DOMAIN Schedule}) \ {<<"write">>}
  <2> SUFFICES ASSUME ReadingInv, Finished
               PROVE  metrics.buffer_misses >= Cardinality(pages)
    BY DEF EveryPageMissedOnce
  <2>1. /\ stage = "executing" /\ execution = "done" /\ RowsInv /\ ReportInv /\ PagesInv
    BY DEF ReadingInv, EvaluationInv, Finished
  <2>2. /\ PlanInv /\ RunInv /\ IsPlan(query, table_stats, nodes, root)
    BY <2>1, ExecutedPlan
  <2>3. current = 0 /\ Len(all_metrics) = Len(Schedule) /\ agenda = <<>>
    BY <2>1, <2>2 DEF RunInv, ScheduleInv
  <2>4. DOMAIN Schedule = 1 .. Len(Schedule) /\ Ran = Len(Schedule)
    BY <2>2, <2>3, ScheduleFacts DEF Ran
  <2>5. \A s \in DOMAIN Schedule : Schedule[s] \in DOMAIN rows
    BY <2>1, <2>4 DEF RowsInv
  <2>6. PICK A : /\ IsFiniteSet(A) /\ Cardinality(A) <= metrics.buffer_misses
                 /\ Range(frames) \subseteq A /\ Covered(A)
    BY <2>1 DEF PagesInv, ReadInv
  <2>7. \A s \in DOMAIN Schedule : Range(Requests(Schedule[s])) \subseteq A \cup {<<"write">>}
    <3>1. Range(agenda) = {}
      BY <2>3, EmptyList
    <3> QED BY <2>5, <2>6, <3>1 DEF Covered
  <2>8. pages \subseteq A
    BY <2>7
  <2> HIDE DEF pages
  <2>9. Cardinality(pages) \in Nat /\ Cardinality(pages) <= Cardinality(A) /\ Cardinality(A) \in Nat
    BY <2>6, <2>8, FS_Subset, FS_CardinalityType
  <2>10. metrics.buffer_misses \in Nat
    BY <2>2, CountedUp DEF RunInv, CountersInv
  <2> QED BY <2>6, <2>9, <2>10
<1> QED BY <1>1, ReadingInvariant, PTL

(* The locations of a key come in page order, so that an index scan reads  *)
(* each of its pages once, with any number of frames.                      *)
THEOREM IndexScansReadPagesOnce == Spec => []IndexScanReadsPagesOnce
<1>1. ReadingInv => IndexScanReadsPagesOnce
  <2> SUFFICES ASSUME ReadingInv, Finished,
                      NEW m \in Range(all_metrics), nodes[m.node].operation = "index_scan"
               PROVE  m.buffer_misses <= Cardinality(Range(Requests(m.node)))
    BY DEF IndexScanReadsPagesOnce
  <2>1. FinishedScans
    BY DEF ReadingInv, PagesInv, Finished
  <2>2. PICK i \in DOMAIN all_metrics : m = all_metrics[i]
    BY DEF Range
  <2> QED BY <2>1, <2>2 DEF FinishedScans, IsIndexScan
<1> QED BY <1>1, ReadingInvariant, PTL
=============================================================================
