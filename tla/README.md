# QueryLab in TLA+

QueryLab (`src/querylab`) parses a small SQL dialect, enumerates every physical
plan of a query, ranks the plans by textbook I/O estimates, executes them
against a metered LRU buffer pool, checks that they all return the same rows and
reports how far the chosen plan is from the best one. It is a single-threaded
Python program. What is hard to test in it is not concurrency but state that
outlives a call (the frames of the pool, pages and indexes that inserts move,
frozen statistics), algorithms whose loops must agree with each other (blocks,
partitions, runs, groups of equal keys), steps that raise half way, and
arithmetic that the estimator and the executor do in two different ways.

## 1. Inventory

| Component | State it keeps | Operations | Talks to |
|---|---|---|---|
| Buffer pool, `storage/buffer_pool.py` | `_frames` (an `OrderedDict`), `IOMetrics` | `fetch`, `write_temporary_page`, `clear` | called by table and index reads, hash partitions, external sort, rescans |
| Table and pages, `storage/table.py`, `page.py` | rows, pages, two layout knobs | `_make_pages`, `fetch_page`, `insert_rows` | fetches through the pool |
| B+tree stand-in, `storage/index.py` | locations per key, height | build, `equality_search` | reads the pages of its table; the executor follows its locations into them |
| Database, `database.py` | `tables`, `indexes` | `add_table`, `create_index`, `insert_rows` | rebuilds indexes after a table changed |
| Statistics, `catalog/stats.py` | immutable histograms | `build`, `estimate_equality` | built by the catalog, read by the selectivity estimate |
| Catalog, `catalog/catalog.py` | `table_stats`, `frozen`, the snapshot file | `analyze`, `freeze`, `unfreeze`, `save`, `load` | reads the live database |
| Selectivity and cost estimator, `optimizer/` | none (writes estimates into plan nodes) | `estimate` | catalog statistics, and live indexes |
| Plan generator, `optimizer/plan_generator.py` | node counter | `generate` | estimator |
| Plan evaluator, `executor/evaluator.py` | a cold pool per plan, operator metrics | scans, four joins, result operators | tables, indexes, pool, external sort |
| External sort, `executor/external_sort.py` | runs | `external_merge_sort` | temporary pages of the pool |
| Report, `report/compare.py` | the candidates measured so far | `evaluate_query` | parser, catalog, generator, evaluator |
| Parser, `parser/sql_parser.py` | none | `parse_sql` | called by the report |
| Data generation, rendering, experiments, CLI | none | | straight-line callers |

What makes each of them correct:

- *Pool.* The page evicted is the one not asked for the longest; hits and misses
  account for every request, and misses for every cached page; more frames never
  cost more reads.
- *Storage and database.* The pages of a table hold each row once, in order,
  under either layout knob; an index answers what a scan answers, after every
  insert; an insert only appends.
- *Statistics and catalog.* Buckets split a column; equality estimates neither
  lose a value nor add up to more than the table; range estimates grow with the
  range, from nothing to everything; statistics in force belong to one moment,
  whatever failed since.
- *Joins.* Each algorithm emits every matching pair once and nothing else;
  cursors and partitions never separate partners; the metered I/O is the
  estimated one, up to a bound that can be stated.
- *External sort.* It is a stable sort, over any number of passes, each of which
  makes progress.
- *Plan generator and estimator.* Exactly the connected queries get plans, a
  plan applies every join condition, and the nodes that plans share keep the
  estimates they were given first.
- *Plan execution.* Whatever its order, access paths and algorithms, a plan
  computes its query; every plan starts on a cold pool; what its operators are
  charged adds up to what the pool counted.
- *Report.* It names the plan with the least I/O; a query that cannot be
  reported is one of a few stated kinds.
- *Parser.* It skips nothing of a statement it accepts.

PROJECT.json lists, under "hazards", the places where these can go wrong, at
their lines, including those no property covers and why.

## 2. Modules

| Module | Models | State and actions |
|---|---|---|
| `BufferPool` | the pool | `frames` is the key order of the `OrderedDict`, `cached` its values, `metrics` the counters; `Fetch` (`Hit`, `Miss`), `WriteTemporaryPage`, `Clear` |
| `BufferPoolHistory` | the same, with history | time of the last request of each key, and misses at the last clear; the properties and the inductive invariant `PoolInv` are stated here |
| `RecencyCache` | abstract specification | a set of resident keys and their request times, no order; `Answer`, `Load`, `Forget` |
| `PoolSizes` | two pools | `BufferPoolHistory` and a second, smaller instance of `BufferPool` take each step together |
| `PageArithmetic` | rounding and fractions | `CeilDiv`, `CeilLog`, the frames a join or a merge may use, the external sort formula |
| `RowOrder` | a set in the order of a relation, Python's stable sort, parts and products of sequences, without recursion | `Arranged`, used by `Storage`, `JoinResult` and `PlanGenerator`; `Ascending`; `Sorted`, used by `ExternalSort`, `SortMergeJoin` and `Histogram`; `Selected`, used by `PlanGenerator` and `PlanExecution`; `Product`, used by `PlanGenerator` |
| `Storage` | table and index as values | `MakePages`, `NewTable`, `Extended`, `BTreeIndex`, `EqualitySearch` |
| `Database` | database container | `AddTable`, `CreateIndex`, `InsertRows`; each action is a whole call, its error outcomes (unknown tables among them) and half-done rebuilds included |
| `Histogram`, `Selectivity` | statistics and what is estimated from them, as values | `Build`, `EstimateEquality`, `TableStats`; `EstimatePredicate`, `EstimateConjunction` |
| `Catalog` | catalog over the changing database (extends `Database`) | `Analyze`, `Freeze`, `Unfreeze`, `Save`, `Load` of the file of this run, of another run over other data (`OtherDatabases`), or of no snapshot; `analyzed`, `loaded` and `foreign` are history |
| `JoinResult` | what the four joins return, as an expression | output and its order, blocks, partitions, rescans, when a join fails |
| `JoinInputs` | inputs, condition orientation and output of all joins | shared by the four below |
| `EquiJoin` | abstract specification | `Emit` matching pairs once, `Finish` with all of them, `Fail` in one stated case |
| `NestedLoopJoin` | the two nested loop joins | one comparison a step; `inner_scans` counts passes over the inner pages |
| `HashJoin` | one-pass and Grace hash join | one row a step: partition, spill, build, probe |
| `SortMergeJoin` | sort-merge join | sorts, then one round of the merge loop a step |
| `ExternalSort` | external merge sort | one run, one group read, one heap pop or one written run a step |
| `PhysicalOperators` | the four joins and the sort | one operator a behaviour, chosen as `_execute` does |
| `CostEstimator` | the I/O formulas over plan nodes, as expressions | `ScanEstimate`, `JoinEstimate`, `Estimate` of a whole tree, `CanEstimate` |
| `PlanGenerator` | the plan space and its ranking (extends `CostEstimator`) | `TryOrder` creates the access nodes of a table order, `BuildTree` one tree (`Joins`, `ResultOperator`) and its estimate, `Rank` |
| `PlanExecution` | `PlanEvaluator` running a plan (extends `PlanGenerator`, `Storage`; an instance of `BufferPool`) | `StartOperator` in child-first order, `RequestPage` one pool request, `FinishOperator` the `OperatorMetrics`, `FinishPlan` |
| `SqlParser` | the parser, as expressions over words | `Accepts`, `ParseSql` |
| `QueryReport` | `evaluate_query` (extends `PlanExecution`) | `ParseStatement`, `Generate`, `Execute`, `Evaluate`, `Compare`, `Abort` |
| `BufferPoolProofs`, `DatabaseProofs`, `HistogramProofs`, `PlanProofs`, `JoinProofs`, `MergeJoinProofs`, `ReportProofs` | proofs | see section 4 |
| `HelperProofs` | lemmas | rounding, rows and columns, sets arranged in an order, stable sorts, sums over finite sets, lists and what is appended to them, pages and the locations in them: what several of the proofs need |
| `MC*` | instances for TLC | bounds and inputs |

Data is abstracted to what the properties tell apart. In the pool, a page key or
a page is a model value. In joins and sorts a row is its position in the input
and an input is the sequence of its keys, so that output rows stay
distinguishable and duplicates and stability show; in plans a row is a function
from aliases and columns to values. Values are integers: the code compares any
scalars, and only their order and equality matter, except for the type check of
SUM and AVG, for which some columns are declared as text. Selectivities and
averages are fractions. Logarithms are exact, and floating-point rounding is
left out, except for one remark in section 6. A statement is a sequence of
words. Node labels, operator counters that no decision depends on, and the
wording of messages are left out.

How the modules compose:

- `Database` and `Catalog` compose by extension: every database action leaves
  the catalog alone and may happen between any two catalog actions.
- `HashJoin`, `SortMergeJoin` and `NestedLoopJoin` have the abstract `EquiJoin`
  as a property, through an INSTANCE with the same variable names: the
  algorithm's own variables are hidden, and its bookkeeping steps stutter.
- `PhysicalOperators` puts the algorithms side by side, and checks that each
  ends with `JoinResult`, order included; `EveryJoinEndsAsResult` proves it for
  all inputs. `PlanExecution` then uses `JoinResult` in place of the algorithms: a
  join is one step and its page requests. Row
  order has to be right there: it decides which row an ungrouped column is
  taken from.
- `QueryReport` runs the parser, the generator and the executor one after the
  other, with the pool of `BufferPool` underneath, over fixed tables.

`SqlParser` and `QueryReport` were compared with the running program: the parser
on some six thousand statements made from others by leaving out, doubling or
exchanging words, and the report on the outcome, the order of the plans, and the
estimated and actual I/O of each, for every call of `MCQueryReport`.

Definitions marked `Mutant` are plausible wrong versions of the definition that
follows them. No specification uses them; each property is known to fail when
one of them takes the place of the real definition.

## 3. Model checking

| Run | Expected | Bounds, and why they are enough |
|---|---|---|
| `MCBufferPool` | pass | Pools of 2 and 3 frames, 4 keys, 6 requests, 1 temporary write since the last reset of the counters (`MaxRequests`, `MaxWrites` cap counters only): evictions, a hit at every position and a key that comes back after its eviction all occur, and clearing restarts them. |
| `MCDatabase` | pass | A table with a fixed page count and one with two rows a page, up to 3 rows in batches of 0 to 2, one of them ragged, two indexable columns: re-pagination moves rows between pages, an index becomes two levels high, trailing pages are empty, and rebuild loops end early. |
| `MCHistogram` | pass | Every column of up to 6 values out of 4, 1 to 4 buckets: short last buckets, runs over two and three buckets. |
| `MCCatalog` | pass | Two tables of one column, up to 3 rows. One batch passes the column check and makes `analyze` and index rebuilds raise KeyError. Another run has left a file about a table with more rows than any here, one with other columns, and one that does not exist here; it may be loaded at any time, and saved again. |
| `MCPhysicalOperators` | pass | Nested loops: every pair of inputs of up to 5 rows with 2 keys; blocks of 4 rows: none, one, one and a short second. Hash joins: the same, 3 hash functions, 3 frames and 2 rows a page: one pass, 2 and 3 partitions, partial and missing pages, all keys colliding. Merge joins: every pair of inputs of up to 4 rows with 3 keys. Sorts: for order, every input of up to 7 rows with 3 keys, 4 runs, 2 passes; for I/O, 0 to 80 rows on pages of two with 4 frames, up to 10 runs merged three at a time in three passes. |
| `MCPlanGenerator` | pass | Every query of 1 to 3 tables, the most the parser accepts, with conditions between any two aliases, an alias and itself, or an unqualified column; with up to two tables, seven lists of predicates: indexed equalities, two on one column, ranges, unqualified, on an unknown alias or column. Statistics of the tables, of smaller ones, or without one of them. |
| `MCQueryReport` | pass | Three tables of 6, 6 and 2 rows on 3, 2 and 1 pages, a pool of 2 frames, one unclustered and one clustered index. Six statements that are reported (all plans, or the chosen one), ten that raise in ten ways, and one long statement with each of its words left out or said twice. Inputs of joins are empty, fit, or spill on both sides; sorts take two passes; a three-table query has 6 orders times access paths times 16 algorithms. |
| `MCDatabaseRagged` | violation | `InsertedRowsMatchColumns`, see section 5. |
| `MCCatalogFrozen` | violation | `LoadedIndexEstimateStands`, see section 5. |
| `MCSortMergeJoinReversed` | violation | `SameResultAsEveryPlan`, see section 5. |
| `MCQueryReportUngrouped` | violation | `SameResultForEveryPlan`, see section 5. |
| `MCQueryReportHaving` | violation | `OnlySubsetAccepted`, see section 5. |

What the properties say is in the comment above each of them. The less obvious
ones:

- `MostRecentPagesCached` and `FramesInRecencyOrder` relate the `OrderedDict` to
  request times it does not store: they fail for any path that forgets to move a
  key or evicts from the wrong end. `ImplementsRecencyCache` says the same of
  every step, the victim and the page returned included.
- `SmallIsNewestPartOfLarge` is the inclusion property of LRU. It is what makes
  a comparison of frame counts meaningful, and it holds for plans whose requests
  do not depend on the pool. Spilling joins and sorts decide by the frame count
  what to request and are outside of it.
- `IndexScanAgreesWithSeqScan` compares, for every value that occurs, the rows
  behind the locations of an index with the rows a scan filters, after any
  sequence of inserts, refused inserts and index creations. A ragged batch can
  end the rebuild loop early (section 5) and leave later indexes stale: `KeptUp`
  says exactly which ones, and every other index must agree.
- `CatalogTypeOK` says of statistics that this run computed, also after they went
  through a file, that they are of tables that exist, of their columns, and of no
  more rows than those have by now. Nothing of this holds for the file of another
  run: `load` compares nothing in it with the live tables. The history variable
  `foreign` tells the two apart, also for a foreign file that was loaded and saved
  again; only an `analyze` that succeeds ends it.
- `StatsAreOneMoment` compares the statistics with those of the remembered
  tables, of this run or of the one that saved the file, through failing
  analyzes, saves and loads.
- `CursorsPassNoMatch` says that no cursor of the merge leaves a row behind that
  still has a partner ahead, for both sides.
- `SpillCloseToEstimate`, `ScansAsEstimated` and `SortIOAsEstimated` hold the
  I/O the executor does against the formula the estimator uses, both translated
  from the code.
- `EndsWithJoinResult` is what lets plan execution treat a join as one step.
- `RangeEstimatesSpanTheColumn` has a surprise in it: for a column of one value
  both sides of any literal are estimated as all rows.
- `SharedNodesKeepTheirEstimates` is about aliasing: the trees over one table
  order share their scans, and `estimate` writes into them once per tree. A plan
  made before would change if an estimate depended on what is in the node.
- `ResultIsTheQuery` compares the rows under the result operator of every plan
  with the cross product of the tables, filtered by all conditions and
  predicates: order, pushdown, access path and algorithm must cancel out. It is
  about queries whose predicates are each on a column of one table: one without
  an alias is applied to every table with such a column, one with the alias of no
  table to none.
- `JoinIOFollowsTheInput` says what a join costs in a pool that really evicts:
  rescans of an inner table are free if it fits and a full read of it each if it
  is one page too large, although most of it was in the pool; sorts cost what
  the formula says of their real input, less the read of the last run.
- `ReportNamesTheWinner` relates the report to all candidates, and says that the
  regret is a number: the branches for a best plan of no I/O are never taken,
  because every plan reads a page.
- `OnlyEmptyInputsAbort` is the extent of the disagreement about reversed
  conditions (section 5): if the selected columns exist, KeyError comes from a
  join with one empty input and from nothing else.
- `NothingSkipped` writes the parsed query out again and compares it, word for
  word, with the statement.

Fairness: a call in progress is a sequential loop of one thread, which takes its
next step as long as it has one. `PhysicalOperators` assumes weak fairness of
`Next`; `EveryOperatorReturns` then rests on each round of the merge moving a
cursor, and each pass of the sort leaving fewer runs. `QueryReport` assumes the
same of a call of `evaluate_query`, in the form `Progress`: the call ends, or
takes steps for ever. This is weak fairness of `Next` with "has not ended" in
place of ENABLED; the two agree because TLC, which checks for deadlock, finds no
state of a call that has not ended and has no step. `EveryCallEnds` then says
that it does not take steps for ever. All models of calls stutter explicitly
when the call has returned, so that a call that is stuck earlier is a deadlock.
Only `MCHistogram` does not check for deadlock: its column is full at the bound.

## 4. Proofs

All theorems are checked by TLAPS, for every value of the constants that the
assumptions named below allow, and for runs of any length. None assumes
fairness.

**Pool** (`BufferPoolProofs`). `PoolInvariant` proves `HSpec => []PoolInv`;
`PoolTypeCorrect`, `PoolKeepsRecencyOrder`, `PoolKeepsRecentPages` and
`PoolAccountsMisses` are the invariants `MCBufferPool` checks, from it, and
`PoolImplementsRecencyCache` is the refinement. The assumptions are those of
`BufferPool`: `FrameCount` is a positive number (the constructor raises
otherwise), the bounds on the counters are numbers, and the value for "no page"
is not a page.

`PoolInv` is inductive and none of its parts is by itself. The order of the
frames survives a hit or a miss only because every recorded time is in the past
(`TimesInThePast`), so that the appended key gets the largest one. That the
resident pages are the most recent ones survives an eviction only because the
head of `frames` is the oldest of them, which is the order. The counters need
both that no key takes two frames and that `cached` has exactly the keys of
`frames`. The lemmas about sequences come first: what a removal and an append do
to the range, the length and the order of a sequence without repetitions. The
refinement then maps each action: a hit to `Answer`; a miss to `Load`, with the
head of `frames` as the victim when the pool is full; a clear to `Forget`; a
temporary write to stuttering.

**Two pools** (`BufferPoolProofs`). `SmallPoolIsPartOfLarge` and
`MoreFramesAreNeverWorse`, for any two frame counts of which one is not larger
than the other. The inductive invariant `SizesInv` says more than inclusion: the
frames of the smaller pool are the *last* frames of the larger one, in the same
order. Inclusion alone is not kept by an eviction, because nothing would say
that the two pools do not evict different keys. That the larger pool has not
read more then follows step by step: what hits in the small pool hits in the
large one.

**Database** (`DatabaseProofs`). `DatabaseTypeCorrect` and
`DatabaseOnlyAppends`, from any set of tables, columns and rows; the assumption
is that batches are finite sequences of rows (`RowListAssumption`). That an
insert only appends is a property of steps, but the early ends of `InsertRows`,
the rejected batch and the rebuild that raises half way, have to be shown to
leave either the old rows or all of the new ones, and a call for a table that does
not exist to leave everything.

`DatabasePagesHoldEveryRow` and `DatabaseIndexesAgree` are about what pages and
indexes contain, for any page size, or page count that is not negative
(`PageTargetAssumption`: the constructor raises otherwise). The invariant is
`LayoutInv`: the pages of a table are those that `MakePages` makes of its rows,
and the locations in an index those that a build would find now - if the index
is `KeptUp`, that is, if neither it nor an earlier index of the table has a
column that some row lacks. For the others it would be false after a ragged
batch, and a later insert does not repair them, because the loop ends at the same
index again (`RebuildStopsAt`). What remains is about values. `Slices` says that
place o of page p has row size * (p - 1) + o, and that there are enough pages;
by division with remainder each row has one place (`PlaceOf`,
`LocationsArePlaces`), and later rows have later places (`PlacesInOrder`). A
scan is the set of all places in order, a lookup the set of those whose row has
the value, and what a set of finitely many things looks like in a total order is
unique (`ArrangedIs`). So both are the rows by ascending position.

**Catalog** (`DatabaseProofs`). `CatalogKeepsOneMoment`: statistics in force are
those of one moment. The strengthening is the same about the snapshot file:
`Load` puts into force whatever `Save` wrote, perhaps long before, so that the
property is not inductive without it. `CatalogTypeCorrect` then relates that
moment to the present, for any set of files that other runs may have left. Of
those `OtherDatabaseAssumption` says that their tables have finitely many rows and
at least one page, which is what `analyze` can meet, and that there is a table,
since an empty catalog is not saved. `Behind` says of the tables behind the
statistics, and of those behind the snapshot: they have numbers of rows and
pages (`Summarised`), and unless they are of another run, they are earlier states
of the tables that exist (`Earlier`), with the same columns and no more rows. The
flag has to travel with the document, or a foreign file that is loaded, saved,
and loaded again would count as the run's own. `StatisticsComeFrom` carries the
facts from the tables over to the statistics. That tables are earlier states of
themselves needs `LayoutInv`, and that earlier states stay so under every call of
the database needs `DatabaseOnlyAppends`, which is why the catalog's proofs are in
one module with the database's.

**Statistics** (`HistogramProofs`). `HistogramSplitsTheColumn`,
`EstimatesStayBelowTheRows` and `RangesSpanTheColumn`, the three invariants of
`MCHistogram`, for columns of any length and any number of buckets
(`ColumnAssumption`). The difficulty is not in the state, which is one growing
column, but in what is computed from it. Sums over buckets and values are folds,
whose value exists by induction; the provers cannot use the library's induction
theorems, so `HelperProofs` restates induction as a fact about a set of numbers
(`NatSetInduction`), which needs no operator parameter: its instances are sets
`{n \in Nat : ...}`. From it come the existence of sums and what is done with
them: one element more (`SumWith`), one less, disjoint unions, a bound for each
term (`SumsCompare`), a sum that telescopes (`SumUpTo`). That the row counts of
the buckets add up to the column is such a telescope over the slice borders.
That no value is overcounted is harder, because a value may straddle buckets and
is answered from the first one alone, with the row count of that bucket divided
by the number of its values: the values are charged to the first bucket that
covers them (`Before` collects those charged up to a bucket), the estimates of
those charged to one bucket are at most its row count, since they are no more
than its values, and the bound follows bucket by bucket.

**Plans** (`PlanProofs`). For any queries, statistics and indexes,
`PlansApplyEveryCondition`, `PlansAgreeOnRows` and `EstimatesOfNodesAreKept`,
from the inductive invariant `PlanInv` (`PlanInvariant`). Three assumptions are
about the inputs. `QueryAssumption`: a query has one condition for each table
after the first, which is how the parser reads them, no alias twice, none that is empty, and literals
that are numbers; `CatalogAssumption`: statistics are as `analyze` makes them
from tables with rows; `IndexAssumption`: heights are numbers. Nothing is assumed
about which tables a condition names, so that orders without a connecting
condition, statistics that are missing and predicates on no table are in.

That an alias is not given twice is necessary. With one alias for two tables a
condition can fit at two joins.

`PlanInv` says that children are older than their parents, that every estimated
scan has the estimate which its table and predicates give (`NodeOK`), that a tree
to be built has one access node of each table of some order (`TreeOver`), and
what a candidate is (`IsPlan`): its joins take each condition of the query once,
and the rows of its root are those of the whole query (`RowsOfJoin`). A step only
appends nodes and estimates scans (`Grown`), so that older plans stay what they
are (`GrownPlan`). This needs that a tree is determined by the nodes in it: tree
and estimates are recursive functions over node numbers, and that they exist and
obey their equations is shown by induction over sets of numbers (`VisitExists`,
`EstimatesExist`, `PostOrderStable`).

The step that matters is building a complete tree. Each join takes the first
condition that names the new table and one joined before (`JoinedFacts`). A
condition names two tables only. If it were taken at two joins, it would name
both of the tables they add and one from before either, which are three; hence
no condition is taken twice, and as there are as many joins as conditions, none
is left out (`AllTables`, `CompleteConditions`). The code never checks either.
For the rows, `EstimatesOfTree` goes up the tree: the estimate of the first j
joins has as numerator the product of the numerators of the tables joined, and as
denominator that of their denominators and of the larger distinct counts of the
conditions taken. `Factor` is such a product over a set of places, in the order
of the places, so that the set alone determines it: adding a table in any order
multiplies by its factor (`FactorWith`). A complete tree has all tables and all
conditions, so that its rows do not depend on the tree. That the distinct count
of a condition is looked up in the same statistics wherever the join is, is
`DistinctOfJoin`; that the sort and hash formulas give whole numbers is needed
for the types only.

**Nested loops** (`JoinProofs`). `NestedLoopsImplementEquiJoin`: for
inputs of any length and any number of frames and rows a page, both nested loop
joins are steps of `EquiJoin`. The invariant says which pairs of rows are behind
the three loops (`Visited`), that the output has the matching ones among them,
once each, and that the position of the loops is in a block that is not empty;
`CompareVisits` shows that one comparison makes one more pair visited, across
the ends of rows, blocks and inputs. `NestedLoopsScanAsEstimated`: the passes over
the inner input that the executor makes by blocks of rows are those that the
estimator computes from pages. Behind it is `CeilDivTwice`, that rounding rows
up to pages and pages up to blocks is rounding rows up to blocks, which TLC can
only try on some numbers. The assumptions are that frames and rows a page are
positive and that inputs are sequences.

**Hash join** (`JoinProofs`). `HashJoinImplementsEquiJoin`: for inputs of any
length, any hash function into numbers, any number of frames and whichever side
is built, one-pass and partitioned hash joins are steps of `EquiJoin`, and raise
in its one stated case only. The invariant is by phase. While the inputs are
partitioned, the partitions divide the rows read so far by the hash of their
keys: lists without repetitions, each with the rows whose owner it is
(`Divided`). While a partition is built, the hash table has for each key its rows
among those read so far (`Tabled`). While it is probed, the output has the
matches of the probe rows that are done (`Probed`), once each. The step that
matters is `PartnersOfRow`: a probe row finds all its partners in the table of
one partition, because equal keys have equal owners on both sides, that is,
both sides are partitioned by one hash and one count. That partitions are lists
without repetitions is what keeps an output row from being emitted twice. How
many rows of one hash there are plays no part, so that a partition that does not
fit is no danger to the result. The assumptions are those about frames and
inputs, and that the hash of a key is a number (`HashesAssumption`: Python's hash
may be negative, and `%` of the code is that of the model, never negative).
`HashJoinPartitions` is the invariant about partners of the run, from the same
phases: a build row and a probe row of one key are never in different
partitions, and every row is in exactly one.

**External sort** (`MergeJoinProofs`). `ExternalSortIsStable` and
`ExternalSortRuns`: for any input of integer keys, any number of frames and of
rows a page (`SortInputsAssumption`), the result is the stable sort, and between
merges the runs are the stable sorts of consecutive slices of the input. Sorting
in memory is `Sorted` of `RowOrder`, which gives place n to the row with n-1
rows before it; that this is a permutation in order is `ArrangedInOrder`, a
counting argument about any total order of a finite set: what is before a row is
a proper part of what is before any later one, so that the numbers of rows
before them are all different, and a one-to-one map of a finite set to a set of
the same size is onto. The invariant is by phase. Between merges, the
merged runs of this pass and the runs still to merge have all rows, each is in
order, and rows of an earlier one were before rows of a later one in the input
(`SlicesBetween`). While a group is merged, `merged` has exactly the rows before
the cursors, in order, and each of them is before every row at or behind the
cursors (`GroupMerging`). The second part is where the heap comes in: of two
equal keys it gives the row of the earlier run, and that is the earlier row
because the runs are slices. Nothing is said about the number of passes; that
the sort ends is liveness and left to TLC.

**Sort-merge join** (`MergeJoinProofs`). `MergeCursorsPassNoMatch`, for inputs of
any length with integer keys (`MergeInputsAssumption`). `Merged` is
`CursorsPassNoMatch` in the form in which it is inductive: the cursors are
abreast, that is, a left row is before its cursor exactly if all its partners
are before theirs and conversely (`CursorsAbreast`), the output is the matches of
the left rows passed, and it has each of them once. Moving one cursor keeps this
because the keys are sorted and the other cursor already is at a larger key.
Emitting two groups needs where a group of equal keys ends (`EndOfGroup`: the
least of the positions behind it, the library's well-foundedness of the numbers
standing in for an induction), and that counting to `a * w` and splitting the
number into quotient and remainder by `w` meets each pair of the two groups once
(`RowAndColumn`, `PlaceOfRowAndColumn`). `EveryJoinImplementsEquiJoin` puts the
four operators and the sort together: it is `ImplementsEquiJoin` itself, the
property of the run, for every behavior of `PhysicalOperators`.

**The order of a join's rows.** `EquiJoin` says nothing about order, but an
aggregate above a join does depend on it. `EveryJoinEndsAsResult`, the last
theorem of `MergeJoinProofs`, is that each algorithm returns the list that
`JoinResult` gives for its inputs, which is the matches arranged by
`OutputOrder`, and raises exactly where `JoinFails` says; plan execution may
therefore use `JoinResult` for the algorithm. The argument has two halves. An
ascending list of given elements is the only one, so that it is the arranged set
(`InOrderIsArranged`). And each algorithm only appends rows that come behind all
that are there (`ConcatInOrder`). For nested loops, blocks before the present
one are whole, so that every pair visited ranks before the pair compared
(`LoopOrdered`, `VisitedRanksBefore`). For hash joins, the partitions and the
lists of the hash table are ascending (`HashOrdered`), and the phase invariant
adds that partitions are joined one after the other. For merges,
the pairs of two groups come row by row (`GroupPairsInOrder`), keys of later
groups are larger, and the rows of a group are in input order only because the
sort is stable. That a join raises only where `JoinFails` says is the abstract
equi-join again; that it does raise there, and never finishes, is because no
row has been passed that the reference of its input misses (`HashEnds`,
`MergeEnds`).

**Report** (`ReportProofs`). `ReportInvariant` is the inductive invariant of a
call, `ReportInv`, for any tables, indexes, statistics, statements and pool size.
`MetricsOfOperatorsAddUp` and `ReportsNameTheWinner` follow from it. The
assumptions are about the database and its relation to the queries:
`TableAssumption` (the pages of a table are those of its rows, and rows have the
columns of their table, which excludes ragged batches; any number may stand for
a value), `LiveIndexAssumption` (indexes are as a rebuild leaves them),
`LiveTablesAssumption` (the tables the estimator looks at are those that are
executed over), `AnalyzedAssumption` (statistics are of tables of these names and
columns, with any number of rows: as the tables are or were, or as another run
had them, which generates the same tables) and
`CallAssumption` (the queries are what the parser makes of the statements).

The invariant has `PlanInv` in it, for the state after the statement is parsed
(`CallInv`). The plans measured are the first ones to execute, in order, and the
one at work is the next (`MeasuredInv`); the operators that have run are the first
ones of its schedule (`ScheduleInv`). `CountersInv` is where the metrics of
the operators come from: while an operator is at work the sum of those before it
is its snapshot, and between two operators it is what the pool has counted. This
rests on the schedule being child-first: an operator takes its snapshot when its
children are done. That the regret is a number needs that no plan gets by without
a page. `ColdInv` says that as long as nothing is counted the pool is empty, no
scan is done, and a scan at work has requests left, since even a table without
rows has a page; every plan has a scan (`ScheduleFacts`), which is why a plan
that is done has counted something.

**The rows of a plan** (`ReportProofs`). `ResultsAreTheQuery` is that whatever the
order of the tables, the access paths and the algorithms, the result operator is
given the rows of the query, each as often as in the cross product, and
`AbortsHaveAnEmptyInput` that a `KeyError` of a plan, if the selected columns
exist, comes from a join with exactly one empty input. The inductive invariant is
`EvaluationInv`: the operators that have run each have the rows which their own
operation makes of the rows of their children (`RowsInv`), and an exception is
the one of the operator that comes next (`ErrorInv`). It is kept because the
schedule has children before parents (`ScheduleChildFirst`, by the induction that
defines the schedule), so that the rows an operator is made from are there when it
starts and are never written again.

The rest is about one state. `Enumerates(list, T, C)` says that a list of rows
has exactly the combinations of rows of the tables T that satisfy the predicates
pushed to them and the conditions C, each once. A scan does so for its table and
no condition (`ScanEnumerates`): the places a sequential scan visits are all
places in the table, those an index returns are the ones with the value of one of
the pushed equalities, and the filter does the rest. A join does so for the tables
of its left input with one more and the conditions below it with its own
(`JoinEnumerates`): `JoinOutput` pairs the rows with equal keys, each pair once,
because its order is total on the pairs (`OutputOrderIsTotal`); a combination of
the larger set of tables is one of the smaller set with one row (`PartsOfPlace`),
and rows that stand for different combinations may be equal, which is why the
proof counts combinations and not rows. That the keys compared are the columns of
the condition, on the right sides, needs the orientation of the condition
(`JoinsAreJoinable`) and that a qualified column is found in a combined row
exactly once (`ColumnOfTable`). Induction over the left-deep tree
(`TopEnumerates`) ends with all tables, because the order has each once, and with
all conditions, which is `PlansApplyEveryCondition` of the planner. At the root
the predicates are those of the query, each on its one table, the precondition of
the property.

**The pages of a plan** (`ReportProofs`). `PlansMissEveryPage` and
`IndexScansReadPagesOnce` are about what a plan asks of the pool. `ReadingInv`
adds `PagesInv` to the invariant of the rows, with one part for each. For the
first, counting misses is not enough, because a request may hit: there is a set
of no more pages than were missed, which has all pages in the frames, and all
pages that operators have asked for (`ReadInv`, `Covered`). A hit asks for a page
that is in the frames; a miss adds one page to the set and one to the count. It
starts with the empty set because the pool of a plan starts cold. For the second,
an index scan at work has asked for the first part of its requests, and the last
page it asked for is still in the frames (`AskedSoFar`). As locations come in page
order, a page that is asked for again was the last one asked for (`Together`), and
that is a hit even with one frame; so every miss is of a page not asked for before.
Both need that the requests of an operator do not change once its inputs are there
(`RequestsKept`), and that they are a list, which for the sort means that the sizes
of its runs, pass by pass, are numbers (`RunsFacts`).

Only model-checked: liveness (`EveryOperatorReturns`, `EveryCallEnds`), which is
out of the prover's reach; which queries get plans (`ConnectedQueriesHavePlans`),
a closure of the conditions against the search of all orders; what a join reads
and writes of its own (`JoinIOFollowsTheInput`); the parser (`NothingSkipped`); the
metered I/O of spills and sorts (`SpillCloseToEstimate`, `SortIOAsEstimated`),
which are sums over partitions and runs.

## 5. Where the code and its documentation disagree

- **A ragged batch is accepted** (`MCDatabaseRagged`). `Table.insert_rows`
  compares the columns of `rows[0]` only (`storage/table.py:83`), although its
  message says "inserted rows must match the table columns". The rows stay in
  the table; rebuilding an index on the missing column raises KeyError half way
  (`database.py:48-53`), and `analyze` raises from then on.
- **A loaded snapshot does not freeze index scans** (`MCCatalogFrozen`).
  `README.md:298` says that the optimizer continues to use the stored values even
  if the data changes. The height of an index is stored in the snapshot and
  never read; the estimate adds the height of the live index
  (`optimizer/cost_estimator.py:76`).
- **A reversed join condition with one empty input** (`MCSortMergeJoinReversed`).
  `_oriented_join_refs` returns the condition as written when either input is
  empty (`executor/evaluator.py:466`). If the condition names the right child
  first, sort-merge joins raise KeyError on the input that has rows. Hash joins
  do the same in their build or probe loop: it is the `Fail` step of `EquiJoin`,
  which they refine. Nested loop joins return no row, so that "the result is the
  same for every valid physical plan" (`README.md:185`) fails.

- **Plans differ on a query that is accepted** (`MCQueryReportUngrouped`). A
  selected column that is not grouped takes the value of the first row of its
  group (`executor/evaluator.py:383`), and the parser does not refuse it. Which
  row is first depends on the plan, so that two plans return different rows,
  against `README.md:185`, and `evaluate_query` raises RuntimeError.
- **Unsupported SQL is accepted** (`MCQueryReportHaving`). The parser raises
  "when SQL is outside the supported subset" (`parser/sql_parser.py:19`), but
  takes whatever follows GROUP BY for the name of a column
  (`sql_parser.py:157`): `GROUP BY k HAVING 2` groups by the column
  "k HAVING 2", and ends in a KeyError of the executor.

Seen while modelling, with no run of their own: the estimate of an external sort
is one read of every page more than the formula in `query_evaluator.md:151` and
than the sort does (`SortIOAsEstimated` states the difference); Grace partitions
are not partitioned again, so that a build partition need not fit, against the
comment at `executor/evaluator.py:525`; a join condition with an unqualified
column gets no plan (`ConnectedQueriesHavePlans` with `NoAlias`), although the
estimator has a branch for it (`cost_estimator.py:145`); a report of the chosen
plan alone has always a regret of 0 (`report/compare.py:63`); a predicate on an
alias the query does not have is dropped (`plan_generator.py:72`); an index scan
is estimated with the selectivity of all of its predicates, although it fetches
every row of the index value (`cost_estimator.py:69`); joins and sorts count 100
rows a page whatever the layout of their tables (`report/compare.py:66`).

## 6. Not modelled

- Data generation (seeded random rows), rendering and the command line have no
  state that could go wrong between two steps; labels and diagnostic counters
  are not looked at by any decision.
- Why a snapshot file is refused: `Load` may raise ValueError and change nothing,
  which is what each check of the loader does, but which document fails which
  check is left out, and so is a file that cannot be opened. A document that was
  edited by hand and still passes the checks may hold numbers that no `analyze`
  computes, or no table at all; the files of `OtherDatabases` are ones that `save`
  wrote.
- Comparisons of a column with a literal of another type, which raise TypeError
  in range estimates and range predicates: values are integers. A column without
  a histogram is not estimated: `analyze` builds one for each column that has a
  value.
- The order of the columns of a row. `insert_rows` compares columns in order, so
  that it also refuses a batch whose first row has the right columns in another
  order; `InsertRows` may refuse any batch for a table of two or more columns
  (`MayBeReordered`).
- Floating point: the rounding of SUM and AVG and the logarithms of index height
  and merge passes. `ceil(log(x, b))` can be one too high at exact powers; the
  models use the exact logarithm. A SUM of floats may differ between plans in
  its last bit before it is rounded, and plans are compared by text.
- The text of a literal: AND and blanks inside of quotes are split and folded
  before literals are looked at. Literals are single words in `SqlParser`.
- Experiments: four calls of `evaluate_query` in a straight line.
- Duplicate aliases in one query, which the parser does not reject
  (`QueryAssumption` excludes them).
- Plans over a table with ragged rows: `MCDatabaseRagged` is about how they come
  to be, and `TableAssumption` excludes them from plan execution.

## 7. Plan

Done first: pool, storage and database, catalog, joins, external sort, plan
generator, and the proofs about the pool. Done since: plan execution over the
pool, the report, the parser, access paths, predicates and ranking in the plan
generator, range selectivities, one run for all physical operators, and the
proofs about two pools, the database, the catalog, the statistics, the plan
generator, all four joins, the external sort, the report, and the rows and pages
of a plan.

What would come next is a proof that queries whose conditions connect their
tables get plans (`ConnectedQueriesHavePlans`), and one that the I/O of a join
follows from its input (`JoinIOFollowsTheInput`), which is about a run of requests
longer than the pool.
