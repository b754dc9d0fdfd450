----------------------------- MODULE PlanProofs -----------------------------
(***************************************************************************)
(* The plan generator and the cost estimator, for any tables, queries and  *)
(* statistics: which plans a query gets, and what is estimated of them.    *)
(*                                                                         *)
(* The argument: nodes are only appended and their scans only estimated,   *)
(* so that what holds of a tree when it is complete holds of it for good.  *)
(* An estimated scan has the estimate its table and predicates give it,    *)
(* whichever tree asked for it.  A complete tree joins every table after   *)
(* the first by a condition that names that table and one joined before;   *)
(* a condition names two tables only, so that none is taken twice, and as  *)
(* there are as many conditions as joins, none is left out.  The rows of   *)
(* a tree are then a product over all tables and all conditions of the     *)
(* query, in which no order, access path or algorithm occurs.              *)
(***************************************************************************)
EXTENDS PlanGenerator, HelperProofs

-----------------------------------------------------------------------------
(* Trees: the nodes below a node, as PostOrder visits them.                *)
WellFormed(ns) ==
  /\ IsList(ns)
  /\ \A n \in DOMAIN ns : /\ IsList(ns[n].children)
                          /\ \A c \in DOMAIN ns[n].children : ns[n].children[c] \in 1 .. n - 1

Visited(ns, n, f) ==
  Append(FlattenSeq([c \in DOMAIN ns[n].children |-> f[ns[n].children[c]]]), n)
Visit(ns, f) == [n \in DOMAIN ns |-> Visited(ns, n, f)]

LEMMA PostOrderIs ==
  ASSUME NEW ns, NEW root
  PROVE  PostOrder(ns, root) = (CHOOSE f : f = Visit(ns, f))[root]
BY DEF PostOrder, Visit, Visited

LEMMA VisitExists ==
  ASSUME NEW ns, WellFormed(ns)
  PROVE  \E f : f = Visit(ns, f)
<1> DEFINE N == Len(ns)
           Step(k, f) == [n \in 1 .. k |-> Visited(ns, n, f)]
           Solved == {k \in Nat : k <= N => \E f : f = Step(k, f)}
<1>1. N \in Nat /\ DOMAIN ns = 1 .. N
  BY ListFacts DEF WellFormed
<1> HIDE DEF N
<1>2. 0 \in Solved
  <2> DEFINE f == [n \in 1 .. 0 |-> 0]
  <2>1. f = Step(0, f)
    OBVIOUS
  <2> QED BY <2>1
<1>3. ASSUME NEW k \in Nat, k \in Solved  PROVE k + 1 \in Solved
  <2> SUFFICES ASSUME k + 1 <= N  PROVE \E f : f = Step(k + 1, f)
    OBVIOUS
  <2>1. k <= N
    BY <1>1
  <2>2. PICK f : f = Step(k, f)
    BY <1>3, <2>1
  <2> DEFINE g == Step(k + 1, f)
  <2>3. ASSUME NEW n \in 1 .. k + 1
        PROVE  Visited(ns, n, g) = Visited(ns, n, f)
    <3> DEFINE ch == ns[n].children
    <3>1. \A c \in DOMAIN ch : ch[c] \in 1 .. k /\ ch[c] \in 1 .. k + 1
      <4> TAKE c \in DOMAIN ch
      <4>1. n \in DOMAIN ns /\ n <= k + 1
        BY <1>1
      <4>2. ch[c] \in 1 .. n - 1
        BY <4>1 DEF WellFormed
      <4> QED BY <4>1, <4>2
    <3> HIDE DEF ch
    <3>2. \A m \in 1 .. k : f[m] = Visited(ns, m, f)
      BY <2>2
    <3>3. \A m \in 1 .. k + 1 : g[m] = Visited(ns, m, f)
      OBVIOUS
    <3> HIDE DEF g
    <3>4. \A c \in DOMAIN ch : g[ch[c]] = f[ch[c]]
      BY <3>1, <3>2, <3>3
    <3>5. [c \in DOMAIN ch |-> g[ch[c]]] = [c \in DOMAIN ch |-> f[ch[c]]]
      BY <3>4
    <3> QED BY <3>5 DEF Visited, ch
  <2>4. g = Step(k + 1, g)
    <3>1. g = [n \in 1 .. k + 1 |-> Visited(ns, n, f)]
      OBVIOUS
    <3> HIDE DEF g
    <3>2. [n \in 1 .. k + 1 |-> Visited(ns, n, f)] = [n \in 1 .. k + 1 |-> Visited(ns, n, g)]
      BY <2>3
    <3> QED BY <3>1, <3>2
  <2> HIDE DEF g
  <2> QED BY <2>4
<1>4. N \in Solved
  <2> HIDE DEF Solved
  <2> QED BY <1>1, <1>2, <1>3, NatSetInduction
<1>5. PICK f : f = Step(N, f)
  BY <1>1, <1>4
<1> QED BY <1>1, <1>5 DEF Visit

LEMMA PostOrderStep ==
  ASSUME NEW ns, WellFormed(ns), NEW n \in DOMAIN ns
  PROVE  LET ch == ns[n].children
         IN  PostOrder(ns, n) =
               Append(FlattenSeq([c \in DOMAIN ch |-> PostOrder(ns, ch[c])]), n)
<1> DEFINE f == CHOOSE h : h = Visit(ns, h)
           ch == ns[n].children
<1>1. f = Visit(ns, f)
  BY VisitExists
<1>2. \A m : PostOrder(ns, m) = f[m]
  BY PostOrderIs
<1> HIDE DEF f
<1>3. f[n] = Visit(ns, f)[n]
  BY <1>1
<1>4. f[n] = Visited(ns, n, f)
  BY <1>3 DEF Visit
<1>5. [c \in DOMAIN ch |-> PostOrder(ns, ch[c])] = [c \in DOMAIN ch |-> f[ch[c]]]
  BY <1>2
<1> QED BY <1>2, <1>4, <1>5 DEF Visited

Tree(ns, n) == Range(PostOrder(ns, n))

LEMMA PostOrderFacts ==
  ASSUME NEW ns, WellFormed(ns), NEW n \in DOMAIN ns
  PROVE  /\ IsList(PostOrder(ns, n)) /\ Len(PostOrder(ns, n)) \in Nat \ {0}
         /\ Tree(ns, n) \subseteq 1 .. n /\ n \in Tree(ns, n)
         /\ Tree(ns, n) = {n} \cup UNION {Tree(ns, ns[n].children[c]) : c \in DOMAIN ns[n].children}
<1> DEFINE N == Len(ns)
           Fine(m) == /\ IsList(PostOrder(ns, m)) /\ Len(PostOrder(ns, m)) \in Nat \ {0}
                      /\ Tree(ns, m) \subseteq 1 .. m /\ m \in Tree(ns, m)
                      /\ Tree(ns, m) = {m} \cup UNION {Tree(ns, ns[m].children[c]) : c \in DOMAIN ns[m].children}
           Good == {k \in Nat : \A m \in 1 .. k : m \in 1 .. N => Fine(m)}
<1>1. N \in Nat /\ DOMAIN ns = 1 .. N
  BY ListFacts DEF WellFormed
<1> HIDE DEF N
<1>2. 0 \in Good
  OBVIOUS
<1>3. ASSUME NEW k \in Nat, k \in Good  PROVE k + 1 \in Good
  <2> DEFINE m == k + 1
  <2> SUFFICES ASSUME m \in 1 .. N  PROVE Fine(m)
    <3>1. \A l \in 1 .. k + 1 : l \in 1 .. k \/ l = k + 1
      OBVIOUS
    <3> HIDE DEF Fine
    <3> QED BY <1>3, <3>1
  <2> DEFINE ch == ns[m].children
             s == [c \in DOMAIN ch |-> PostOrder(ns, ch[c])]
  <2>1. m \in Nat /\ m \in DOMAIN ns /\ IsList(ch) /\ \A c \in DOMAIN ch : ch[c] \in 1 .. k
    <3>1. m \in DOMAIN ns /\ m - 1 = k
      BY <1>1
    <3>2. IsList(ch) /\ \A c \in DOMAIN ch : ch[c] \in 1 .. m - 1
      BY <3>1 DEF WellFormed
    <3> QED BY <3>1, <3>2
  <2>2. PostOrder(ns, m) = Append(FlattenSeq(s), m)
    BY <2>1, PostOrderStep
  <2> HIDE DEF m
  <2>3. \A c \in DOMAIN ch : Fine(ch[c]) /\ Tree(ns, ch[c]) \subseteq 1 .. m
    <3> TAKE c \in DOMAIN ch
    <3>1. ch[c] \in 1 .. k /\ ch[c] \in 1 .. N
      <4>1. ch[c] \in 1 .. k /\ m <= N
        BY <2>1
      <4> QED BY <1>1, <4>1 DEF m
    <3>2. Fine(ch[c])
      <4> HIDE DEF Fine, ch
      <4> QED BY <1>3, <3>1
    <3>3. 1 .. ch[c] \subseteq 1 .. m
      BY <2>1, <3>1 DEF m
    <3> QED BY <3>2, <3>3
  <2> HIDE DEF ch
  <2>4. Len(ch) \in Nat /\ DOMAIN ch = 1 .. Len(ch)
    BY <2>1, ListFacts
  <2>5. IsList(s) /\ Len(s) = Len(ch) /\ \A c \in 1 .. Len(s) : IsList(s[c])
    <3>1. s = [c \in 1 .. Len(ch) |-> s[c]]
      BY <2>4
    <3>2. IsList(s) /\ Len(s) = Len(ch)
      BY <2>4, <3>1, ListWith
    <3>3. \A c \in DOMAIN ch : s[c] = PostOrder(ns, ch[c])
      OBVIOUS
    <3> HIDE DEF s
    <3> QED BY <2>3, <2>4, <3>2, <3>3
  <2>6. UNION {Range(s[c]) : c \in 1 .. Len(s)} = UNION {Tree(ns, ch[c]) : c \in DOMAIN ch}
    <3>1. \A c \in DOMAIN ch : Range(s[c]) = Tree(ns, ch[c])
      BY DEF Tree
    <3> HIDE DEF s
    <3> QED BY <2>4, <2>5, <3>1
  <2> HIDE DEF s
  <2>7. /\ IsList(FlattenSeq(s))
        /\ Range(FlattenSeq(s)) = UNION {Tree(ns, ch[c]) : c \in DOMAIN ch}
    BY <2>5, <2>6, FlattenFacts
  <2>8. /\ IsList(PostOrder(ns, m)) /\ Len(PostOrder(ns, m)) \in Nat \ {0}
        /\ Range(PostOrder(ns, m)) = Range(FlattenSeq(s)) \cup {m}
    <3>1. /\ IsList(Append(FlattenSeq(s), m))
          /\ Len(Append(FlattenSeq(s), m)) = Len(FlattenSeq(s)) + 1
          /\ Len(FlattenSeq(s)) \in Nat
          /\ Range(Append(FlattenSeq(s), m)) = Range(FlattenSeq(s)) \cup {m}
      BY <2>7, AppendList
    <3> QED BY <2>2, <3>1
  <2>9. Tree(ns, m) = {m} \cup UNION {Tree(ns, ch[c]) : c \in DOMAIN ch}
    BY <2>7, <2>8 DEF Tree
  <2>10. Tree(ns, m) \subseteq 1 .. m /\ m \in Tree(ns, m)
    <3>1. m \in 1 .. m
      BY <2>1 DEF m
    <3> QED BY <2>3, <2>9, <3>1
  <2> QED BY <2>8, <2>9, <2>10 DEF ch
<1>4. n \in Nat /\ n \in 1 .. n /\ n \in 1 .. N
  BY <1>1
<1>5. n \in Good
  <2> HIDE DEF Good
  <2> QED BY <1>2, <1>3, <1>4, NatSetInduction
<1> QED BY <1>4, <1>5

(* Nodes that are appended or estimated change no tree.                    *)
Extends(ms, ns) ==
  /\ DOMAIN ns \subseteq DOMAIN ms
  /\ \A n \in DOMAIN ns : ms[n].children = ns[n].children

LEMMA PostOrderStable ==
  ASSUME NEW ns, WellFormed(ns), NEW ms, WellFormed(ms), Extends(ms, ns), NEW n \in DOMAIN ns
  PROVE  PostOrder(ms, n) = PostOrder(ns, n) /\ Tree(ms, n) = Tree(ns, n)
<1> DEFINE N == Len(ns)
           Good == {k \in Nat : \A m \in 1 .. k : m \in 1 .. N => PostOrder(ms, m) = PostOrder(ns, m)}
<1>1. N \in Nat /\ DOMAIN ns = 1 .. N
  BY ListFacts DEF WellFormed
<1> HIDE DEF N
<1>2. 0 \in Good
  OBVIOUS
<1>3. ASSUME NEW k \in Nat, k \in Good  PROVE k + 1 \in Good
  <2> DEFINE m == k + 1
  <2> SUFFICES ASSUME m \in 1 .. N  PROVE PostOrder(ms, m) = PostOrder(ns, m)
    <3>1. \A l \in 1 .. k + 1 : l \in 1 .. k \/ l = k + 1
      OBVIOUS
    <3> QED BY <1>3, <3>1
  <2> DEFINE ch == ns[m].children
  <2>1. m \in DOMAIN ns /\ m \in DOMAIN ms /\ ms[m].children = ch
    BY <1>1 DEF Extends
  <2>2. \A c \in DOMAIN ch : ch[c] \in 1 .. k /\ ch[c] \in 1 .. N
    <3>1. \A c \in DOMAIN ch : ch[c] \in 1 .. m - 1
      BY <2>1 DEF WellFormed
    <3>2. m - 1 = k /\ k <= N
      BY <1>1
    <3> HIDE DEF ch, m
    <3> QED BY <1>1, <3>1, <3>2
  <2>3. \A c \in DOMAIN ch : PostOrder(ms, ch[c]) = PostOrder(ns, ch[c])
    <3> HIDE DEF ch, m
    <3> QED BY <1>3, <2>2
  <2>4. PostOrder(ns, m) = Append(FlattenSeq([c \in DOMAIN ch |-> PostOrder(ns, ch[c])]), m)
    BY <2>1, PostOrderStep
  <2>5. PostOrder(ms, m) = Append(FlattenSeq([c \in DOMAIN ch |-> PostOrder(ms, ch[c])]), m)
    BY <2>1, PostOrderStep
  <2> HIDE DEF ch, m
  <2>6. [c \in DOMAIN ch |-> PostOrder(ms, ch[c])] = [c \in DOMAIN ch |-> PostOrder(ns, ch[c])]
    BY <2>3
  <2> QED BY <2>4, <2>5, <2>6
<1>4. n \in Nat /\ n \in 1 .. n /\ n \in 1 .. N
  BY <1>1
<1>5. n \in Good
  <2> HIDE DEF Good
  <2> QED BY <1>2, <1>3, <1>4, NatSetInduction
<1> QED BY <1>4, <1>5 DEF Tree

-----------------------------------------------------------------------------
(* The estimates of the nodes of a tree.                                   *)
Estimated(ns, n, joins, stats, f) ==
  NodeEstimate(ns, n, [c \in DOMAIN ns[n].children |-> f[ns[n].children[c]]], joins, stats)
EstimateStep(ns, joins, stats, f) == [n \in DOMAIN ns |-> Estimated(ns, n, joins, stats, f)]
EstimatesOf(ns, joins, stats) == CHOOSE f : f = EstimateStep(ns, joins, stats, f)

LEMMA EstimateIs ==
  ASSUME NEW ns, NEW root, NEW joins, NEW stats
  PROVE  Estimate(ns, root, joins, stats) =
           [n \in DOMAIN ns |->
             IF n \in Tree(ns, root) THEN [ns[n] EXCEPT !.estimate = EstimatesOf(ns, joins, stats)[n]]
                                     ELSE ns[n]]
BY DEF Estimate, EstimatesOf, EstimateStep, Estimated, Tree, ToSet, Range

LEMMA EstimatesExist ==
  ASSUME NEW ns, WellFormed(ns), NEW joins, NEW stats
  PROVE  \E f : f = EstimateStep(ns, joins, stats, f)
<1> DEFINE N == Len(ns)
           Step(k, f) == [n \in 1 .. k |-> Estimated(ns, n, joins, stats, f)]
           Solved == {k \in Nat : k <= N => \E f : f = Step(k, f)}
<1>1. N \in Nat /\ DOMAIN ns = 1 .. N
  BY ListFacts DEF WellFormed
<1> HIDE DEF N
<1>2. 0 \in Solved
  <2> DEFINE f == [n \in 1 .. 0 |-> 0]
  <2>1. f = Step(0, f)
    OBVIOUS
  <2> QED BY <2>1
<1>3. ASSUME NEW k \in Nat, k \in Solved  PROVE k + 1 \in Solved
  <2> SUFFICES ASSUME k + 1 <= N  PROVE \E f : f = Step(k + 1, f)
    OBVIOUS
  <2>1. k <= N
    BY <1>1
  <2>2. PICK f : f = Step(k, f)
    BY <1>3, <2>1
  <2> DEFINE g == Step(k + 1, f)
  <2>3. ASSUME NEW n \in 1 .. k + 1
        PROVE  Estimated(ns, n, joins, stats, g) = Estimated(ns, n, joins, stats, f)
    <3> DEFINE ch == ns[n].children
    <3>1. \A c \in DOMAIN ch : ch[c] \in 1 .. k /\ ch[c] \in 1 .. k + 1
      <4> TAKE c \in DOMAIN ch
      <4>1. n \in DOMAIN ns /\ n <= k + 1
        BY <1>1
      <4>2. ch[c] \in 1 .. n - 1
        BY <4>1 DEF WellFormed
      <4> QED BY <4>1, <4>2
    <3> HIDE DEF ch
    <3>2. \A m \in 1 .. k : f[m] = Estimated(ns, m, joins, stats, f)
      BY <2>2
    <3>3. \A m \in 1 .. k + 1 : g[m] = Estimated(ns, m, joins, stats, f)
      OBVIOUS
    <3> HIDE DEF g
    <3>4. \A c \in DOMAIN ch : g[ch[c]] = f[ch[c]]
      BY <3>1, <3>2, <3>3
    <3>5. [c \in DOMAIN ch |-> g[ch[c]]] = [c \in DOMAIN ch |-> f[ch[c]]]
      BY <3>4
    <3> QED BY <3>5 DEF Estimated, ch
  <2>4. g = Step(k + 1, g)
    <3>1. g = [n \in 1 .. k + 1 |-> Estimated(ns, n, joins, stats, f)]
      OBVIOUS
    <3> HIDE DEF g
    <3>2. [n \in 1 .. k + 1 |-> Estimated(ns, n, joins, stats, f)]
            = [n \in 1 .. k + 1 |-> Estimated(ns, n, joins, stats, g)]
      BY <2>3
    <3> QED BY <3>1, <3>2
  <2> HIDE DEF g
  <2> QED BY <2>4
<1>4. N \in Solved
  <2> HIDE DEF Solved
  <2> QED BY <1>1, <1>2, <1>3, NatSetInduction
<1>5. PICK f : f = Step(N, f)
  BY <1>1, <1>4
<1> QED BY <1>1, <1>5 DEF EstimateStep

LEMMA EstimateOfNode ==
  ASSUME NEW ns, WellFormed(ns), NEW joins, NEW stats, NEW n \in DOMAIN ns
  PROVE  LET e == EstimatesOf(ns, joins, stats)
         IN  e[n] = NodeEstimate(ns, n, [c \in DOMAIN ns[n].children |-> e[ns[n].children[c]]],
                                 joins, stats)
<1> DEFINE e == EstimatesOf(ns, joins, stats)
<1>1. e = EstimateStep(ns, joins, stats, e)
  BY EstimatesExist DEF EstimatesOf
<1> HIDE DEF e
<1>2. e[n] = EstimateStep(ns, joins, stats, e)[n]
  BY <1>1
<1>3. e[n] = Estimated(ns, n, joins, stats, e)
  BY <1>2 DEF EstimateStep
<1> QED BY <1>3 DEF Estimated, e

-----------------------------------------------------------------------------
(* Nodes, and what is never changed of them.                               *)
IsNode(r) ==
  r = [operation |-> r.operation, children |-> r.children, table_name |-> r.table_name,
       table_alias |-> r.table_alias, predicates |-> r.predicates,
       index_column |-> r.index_column, condition |-> r.condition, estimate |-> r.estimate]

LEMMA PlanNodeFacts ==
  ASSUME NEW operation, NEW children, NEW condition
  PROVE  LET r == PlanNode(operation, children, condition)
         IN  /\ IsNode(r) /\ r.operation = operation /\ r.children = children
             /\ r.condition = condition /\ r.estimate = NotEstimated
BY DEF PlanNode, IsNode

LEMMA EstimatedFields ==
  ASSUME NEW r, IsNode(r), NEW e
  PROVE  LET q == [r EXCEPT !.estimate = e]
         IN  /\ IsNode(q) /\ q.operation = r.operation /\ q.children = r.children
             /\ q.table_name = r.table_name /\ q.table_alias = r.table_alias
             /\ q.predicates = r.predicates /\ q.index_column = r.index_column
             /\ q.condition = r.condition /\ q.estimate = e
BY DEF IsNode

(* The predicates on a table of a query.                                   *)
PushedOf(q, table) ==
  Selected(q.predicates, {p \in DOMAIN q.predicates :
    q.predicates[p].column.table_alias \in {NoAlias, table.alias}})

(* A node that reads the table.                                            *)
ScanOf(q, node, table) ==
  /\ IsScan(node) /\ node.children = <<>> /\ IsNode(node)
  /\ node.table_name = table.name /\ node.table_alias = table.alias
  /\ node.predicates = PushedOf(q, table)
  /\ node.operation = "index_scan" =>
       /\ IndexesOn(table.name, node.index_column) # {}
       /\ \E p \in Range(node.predicates) :
            p.operator = "=" /\ p.column.name = node.index_column

LEMMA ScanFacts ==
  ASSUME NEW table, NEW operation \in {"seq_scan", "index_scan"}, NEW column,
         operation = "index_scan" =>
           /\ IndexesOn(table.name, column) # {}
           /\ \E p \in Range(PushedDown(table)) : p.operator = "=" /\ p.column.name = column
  PROVE  /\ ScanOf(query, Scan(table, operation, column), table)
         /\ Scan(table, operation, column).estimate = NotEstimated
<1> DEFINE q == Scan(table, operation, column)
<1>1. /\ IsNode(q) /\ q.operation = operation /\ q.children = <<>>
      /\ q.table_name = table.name /\ q.table_alias = table.alias
      /\ q.predicates = PushedDown(table) /\ q.index_column = column
      /\ q.estimate = NotEstimated
  BY DEF IsNode, Scan
<1> QED BY <1>1 DEF ScanOf, IsScan, PushedDown, PushedOf, q

LEMMA PathsOfTable ==
  ASSUME NEW table, IsList(query.predicates)
  PROVE  LET paths == AccessPaths(table)
         IN  /\ IsList(paths) /\ Len(paths) \in Nat \ {0}
             /\ \A p \in DOMAIN paths : /\ ScanOf(query, paths[p], table)
                                        /\ paths[p].estimate = NotEstimated
<1> DEFINE predicates == PushedDown(table)
           places == {p \in DOMAIN predicates :
                        /\ predicates[p].operator = "="
                        /\ IndexesOn(table.name, predicates[p].column.name) # {}}
           indexed == Selected(predicates, places)
           first == <<Scan(table, "seq_scan", "")>>
           rest == [i \in DOMAIN indexed |-> Scan(table, "index_scan", indexed[i].column.name)]
<1>1. IsList(predicates)
  BY SelectedFacts DEF PushedDown
<1> HIDE DEF predicates
<1>2. IsList(indexed) /\ Range(indexed) = {predicates[p] : p \in places}
  BY <1>1, SelectedFacts
<1>14. \A i \in DOMAIN indexed :
         /\ IndexesOn(table.name, indexed[i].column.name) # {}
         /\ \E p \in Range(predicates) :
              p.operator = "=" /\ p.column.name = indexed[i].column.name
  <2>1. \A p \in places : /\ IndexesOn(table.name, predicates[p].column.name) # {}
                          /\ predicates[p] \in Range(predicates) /\ predicates[p].operator = "="
    BY DEF Range
  <2> HIDE DEF places, indexed
  <2>2. \A i \in DOMAIN indexed : \E p \in places : indexed[i] = predicates[p]
    BY <1>2 DEF Range
  <2> QED BY <2>1, <2>2
<1> HIDE DEF indexed
<1>3. Len(indexed) \in Nat /\ DOMAIN indexed = 1 .. Len(indexed)
  BY <1>2, ListFacts
<1>4. \A i \in DOMAIN rest : /\ ScanOf(query, rest[i], table)
                             /\ rest[i].estimate = NotEstimated
  BY <1>14, ScanFacts DEF predicates
<1>5. IsList(rest)
  <2>1. rest = [i \in 1 .. Len(indexed) |-> rest[i]]
    BY <1>3
  <2> HIDE DEF rest
  <2> QED BY <1>3, <2>1, ListWith
<1>6. IsList(first) /\ Len(first) = 1 /\ first[1] = Scan(table, "seq_scan", "")
  <2>1. first \in Seq({Scan(table, "seq_scan", "")})
    OBVIOUS
  <2>2. Len(first) = 1 /\ first[1] = Scan(table, "seq_scan", "")
    OBVIOUS
  <2> HIDE DEF first
  <2> QED BY <2>1, <2>2, ListOf
<1>7. /\ ScanOf(query, first[1], table)
      /\ first[1].estimate = NotEstimated
  BY <1>6, ScanFacts
<1> DEFINE u == first \o rest
<1> HIDE DEF first, rest
<1>8. /\ IsList(u) /\ Len(u) = Len(first) + Len(rest) /\ DOMAIN u = 1 .. Len(first) + Len(rest)
      /\ Range(u) = Range(first) \cup Range(rest)
  BY <1>5, <1>6, ConcatLists
<1>9. Len(rest) \in Nat
  BY <1>5, ListFacts
<1>10. \A x \in Range(u) : ScanOf(query, x, table) /\ x.estimate = NotEstimated
  <2>1. \A x \in Range(first) : x = first[1]
    <3>1. Range(first) = {first[i] : i \in 1 .. 1}
      BY <1>6, ListFacts
    <3> QED BY <3>1
  <2>2. \A x \in Range(rest) : \E i \in DOMAIN rest : x = rest[i]
    BY DEF Range
  <2> QED BY <1>4, <1>7, <1>8, <2>1, <2>2
<1>11. \A p \in DOMAIN u : u[p] \in Range(u)
  BY DEF Range
<1>12. AccessPaths(table) = u
  BY DEF AccessPaths, u, first, rest, indexed, predicates
<1> HIDE DEF u
<1>13. Len(u) \in Nat \ {0}
  <2>1. Len(first) = 1
    BY <1>6
  <2>2. Len(u) = Len(first) + Len(rest)
    BY <1>8
  <2> QED BY <1>9, <2>1, <2>2
<1> QED BY <1>8, <1>10, <1>11, <1>12, <1>13

-----------------------------------------------------------------------------
(* The rows a query is estimated to return: those of its tables, cut down  *)
(* by their predicates and by its conditions.                              *)
Factor(f, A, n) ==
  LET h[k \in 0 .. n] == IF k = 0 THEN 1 ELSE h[k-1] * (IF k \in A THEN f[k] ELSE 1)
  IN  h[n]

RowsOf(q, stats, table) ==
  Times(<<stats[table.name].row_count, 1>>,
        EstimateConjunction(PushedOf(q, table), stats[table.name].columns, TextColumns))

DistinctOf(q, stats, column) ==
  LET t == CHOOSE t \in DOMAIN q.tables : q.tables[t].alias = column.table_alias
  IN  stats[q.tables[t].name].columns[column.name].distinct_count

Larger(q, stats, condition) ==
  AtLeast(AtLeastOne(DistinctOf(q, stats, condition.left)), DistinctOf(q, stats, condition.right))

Numerators(q, stats) == [t \in DOMAIN q.tables |-> RowsOf(q, stats, q.tables[t])[1]]
Denominators(q, stats) == [t \in DOMAIN q.tables |-> RowsOf(q, stats, q.tables[t])[2]]
Largers(q, stats) == [c \in DOMAIN q.joins |-> Larger(q, stats, q.joins[c])]

(* The rows of a join of some of the tables by some of the conditions.     *)
RowsOfJoin(q, stats, T, C) ==
  <<Factor(Numerators(q, stats), T, Len(q.tables)),
    Factor(Denominators(q, stats), T, Len(q.tables)) * Factor(Largers(q, stats), C, Len(q.joins))>>

-----------------------------------------------------------------------------
(* The inductive invariant.                                                *)
Estimates == [rows : Nat \X (Nat \ {0}), io : Int]

NodeOK(stats, node) ==
  /\ IsNode(node) /\ node.estimate \in Estimates
  /\ IsScan(node) /\ node.estimate # NotEstimated =>
       node.estimate = ScanEstimate(node, stats[node.table_name])

TreeOver(q, ns, tree) ==
  /\ tree.algorithms \in [1 .. Len(q.tables) - 1 -> Range(JOIN_OPERATIONS)]
  /\ tree.access \in [DOMAIN q.tables -> DOMAIN ns]
  /\ \E order \in TableOrders(q.tables) :
       \A t \in DOMAIN q.tables : ScanOf(q, ns[tree.access[t]], q.tables[order[t]])

JoinsIn(ns, root) == {n \in Tree(ns, root) : IsJoin(ns[n])}
Conditions(ns, root) == [n \in JoinsIn(ns, root) |-> ns[n].condition]

(* The nodes of a complete tree are in a row: its access nodes are base or *)
(* before, the j-th join is base + j, and the root comes last.             *)
TopOf(access, base, j) == IF j = 0 THEN access[1] ELSE base + j

LeftDeep(q, ns, root, order, access, base) ==
  LET m == Len(q.tables)
      alias(t) == q.tables[order[t]].alias
  IN  /\ base \in Nat /\ root = base + m /\ root \in DOMAIN ns
      /\ order \in [1 .. m -> 1 .. m] /\ IsInjective(order)
      /\ access \in [1 .. m -> 1 .. base]
      /\ \A t \in 1 .. m : ScanOf(q, ns[access[t]], q.tables[order[t]])
      /\ \A j \in 1 .. m - 1 :
           /\ ns[base + j].operation \in Range(JOIN_OPERATIONS)
           /\ ns[base + j].children = <<TopOf(access, base, j - 1), access[j + 1]>>
           /\ ns[base + j].condition \in DOMAIN q.joins
           /\ Connects(q.joins[ns[base + j].condition], {alias(s) : s \in 1 .. j}, alias(j + 1))
      /\ \A c \in DOMAIN q.joins : \E j \in 1 .. m - 1 : ns[base + j].condition = c
      /\ ~IsJoin(ns[root]) /\ ~IsScan(ns[root])
      /\ ns[root].children = <<TopOf(access, base, m - 1)>>

(* The tables of a query have statistics, with every column a predicate or *)
(* a condition is applied to.                                              *)
Known(q, stats) ==
  /\ \A t \in DOMAIN q.tables :
       /\ q.tables[t].name \in DOMAIN stats
       /\ \A p \in Range(PushedOf(q, q.tables[t])) :
            p.column.name \in DOMAIN stats[q.tables[t].name].columns
  /\ \A c \in DOMAIN q.joins : \A column \in {q.joins[c].left, q.joins[c].right} :
       \E t \in DOMAIN q.tables :
         /\ q.tables[t].alias = column.table_alias
         /\ column.name \in DOMAIN stats[q.tables[t].name].columns

IsPlan(q, stats, ns, root) ==
  /\ root \in DOMAIN ns /\ ~IsScan(ns[root])
  /\ Known(q, stats)
  /\ \E order, access, base : LeftDeep(q, ns, root, order, access, base)
  /\ IsInjective(Conditions(ns, root)) /\ Range(Conditions(ns, root)) = DOMAIN q.joins
  /\ ns[root].estimate.rows = RowsOfJoin(q, stats, DOMAIN q.tables, DOMAIN q.joins)

PlanInv ==
  /\ query \in Queries /\ table_stats \in Catalogs
  /\ orders \subseteq TableOrders(query.tables)
  /\ WellFormed(nodes) /\ \A n \in DOMAIN nodes : NodeOK(table_stats, nodes[n])
  /\ IsList(trees) /\ \A tree \in Range(trees) : TreeOver(query, nodes, tree)
  /\ IsList(candidates)
  /\ \A root \in Range(candidates) : IsPlan(query, table_stats, nodes, root)

-----------------------------------------------------------------------------
(* What the assumption on queries gives, and a table order that is tried.  *)
LEMMA QueryFacts ==
  ASSUME query \in Queries
  PROVE  /\ Len(query.tables) \in Nat \ {0} /\ DOMAIN query.tables = 1 .. Len(query.tables)
         /\ IsList(query.joins) /\ Len(query.joins) = Len(query.tables) - 1
         /\ DOMAIN query.joins = 1 .. Len(query.tables) - 1
         /\ IsList(query.predicates) /\ \A p \in Range(query.predicates) : p.value \in Int
         /\ \A s, t \in DOMAIN query.tables :
              query.tables[s].alias = query.tables[t].alias => s = t
<1>1. /\ IsList(query.tables) /\ query.tables # <<>>
      /\ IsList(query.joins) /\ Len(query.joins) = Len(query.tables) - 1
      /\ IsList(query.predicates) /\ \A p \in Range(query.predicates) : p.value \in Int
      /\ \A s, t \in DOMAIN query.tables :
           query.tables[s].alias = query.tables[t].alias => s = t
  BY QueryAssumption DEF IsList
<1>2. Len(query.tables) \in Nat /\ DOMAIN query.tables = 1 .. Len(query.tables)
  BY <1>1, ListFacts
<1>3. Len(query.tables) # 0
  BY <1>1, EmptySeq DEF IsList
<1>4. DOMAIN query.joins = 1 .. Len(query.joins)
  BY <1>1, ListFacts
<1> QED BY <1>1, <1>2, <1>3, <1>4

(* The numbers of the access nodes are those they get.                     *)
LEMMA AccessNodesFacts ==
  ASSUME WellFormed(nodes), NEW paths, IsList(paths), \A t \in 1 .. Len(paths) : IsList(paths[t])
  PROVE  LET ns == nodes \o FlattenSeq(paths)
             a == AccessNodes(paths)
         IN  /\ IsList(ns) /\ IsList(FlattenSeq(paths)) /\ DOMAIN a = 1 .. Len(paths)
             /\ Range(FlattenSeq(paths)) = UNION {Range(paths[t]) : t \in 1 .. Len(paths)}
             /\ \A t \in 1 .. Len(paths) :
                  /\ IsList(a[t])
                  /\ \A x \in Range(a[t]) : x \in DOMAIN ns /\ ns[x] \in Range(paths[t])
<1> DEFINE more == FlattenSeq(paths)
           ns == nodes \o more
           a == AccessNodes(paths)
           F(t) == FlattenSeq(SubSeq(paths, 1, t - 1))
<1>1. IsList(nodes) /\ Len(nodes) \in Nat
  BY ListFacts DEF WellFormed
<1>2. Len(paths) \in Nat /\ DOMAIN paths = 1 .. Len(paths)
  BY ListFacts
<1>3. /\ IsList(more) /\ Range(more) = UNION {Range(paths[t]) : t \in 1 .. Len(paths)}
      /\ \A t \in 1 .. Len(paths) :
           /\ IsList(F(t))
           /\ \A p \in 1 .. Len(paths[t]) :
                Len(F(t)) + p \in DOMAIN more /\ more[Len(F(t)) + p] = paths[t][p]
  BY FlattenFacts
<1> HIDE DEF F, more
<1>4. /\ IsList(ns) /\ DOMAIN ns = 1 .. Len(nodes) + Len(more)
      /\ \A i \in 1 .. Len(more) : ns[Len(nodes) + i] = more[i]
  BY <1>1, <1>3, ConcatLists
<1>5. Len(more) \in Nat /\ DOMAIN more = 1 .. Len(more)
  BY <1>3, ListFacts
<1>6. a = [t \in 1 .. Len(paths) |-> [p \in DOMAIN paths[t] |-> Len(nodes \o F(t)) + p]]
  BY <1>2 DEF AccessNodes, F
<1> HIDE DEF a
<1>7. ASSUME NEW t \in 1 .. Len(paths)
      PROVE  /\ IsList(a[t])
             /\ \A x \in Range(a[t]) : x \in DOMAIN ns /\ ns[x] \in Range(paths[t])
  <2>1. Len(paths[t]) \in Nat /\ DOMAIN paths[t] = 1 .. Len(paths[t])
    BY ListFacts
  <2>2. IsList(F(t)) /\ Len(F(t)) \in Nat /\ Len(nodes \o F(t)) = Len(nodes) + Len(F(t))
    BY <1>1, <1>3, ConcatLists, ListFacts
  <2>3. a[t] = [p \in 1 .. Len(paths[t]) |-> Len(nodes) + Len(F(t)) + p]
    BY <1>6, <2>1, <2>2
  <2>4. a[t] = [p \in 1 .. Len(paths[t]) |-> a[t][p]]
    BY <2>3
  <2>5. IsList(a[t]) /\ DOMAIN a[t] = 1 .. Len(paths[t])
    BY <2>1, <2>4, ListWith
  <2>6. ASSUME NEW p \in 1 .. Len(paths[t])
        PROVE  a[t][p] \in DOMAIN ns /\ ns[a[t][p]] \in Range(paths[t])
    <3>1. Len(F(t)) + p \in DOMAIN more /\ more[Len(F(t)) + p] = paths[t][p]
      BY <1>3
    <3>2. /\ Len(F(t)) + p \in 1 .. Len(more) /\ a[t][p] = Len(nodes) + (Len(F(t)) + p)
          /\ a[t][p] \in 1 .. Len(nodes) + Len(more)
      BY <1>1, <1>5, <2>1, <2>2, <2>3, <3>1
    <3>3. ns[a[t][p]] = paths[t][p]
      BY <1>4, <3>1, <3>2
    <3>4. paths[t][p] \in Range(paths[t])
      BY <2>1 DEF Range
    <3> QED BY <1>4, <3>2, <3>3, <3>4
  <2>7. \A x \in Range(a[t]) : \E p \in 1 .. Len(paths[t]) : x = a[t][p]
    BY <2>5 DEF Range
  <2> QED BY <2>5, <2>6, <2>7
<1>8. DOMAIN a = 1 .. Len(paths)
  BY <1>6
<1> QED BY <1>3, <1>4, <1>7, <1>8 DEF a, more

(* The trees of an order take one access node of each table.               *)
LEMMA TreesOverFacts ==
  ASSUME NEW paths, IsList(paths), Len(paths) # 0,
         DOMAIN AccessNodes(paths) = 1 .. Len(paths),
         \A t \in 1 .. Len(paths) : IsList(AccessNodes(paths)[t])
  PROVE  LET a == AccessNodes(paths)
             u == TreesOver(paths)
             m == Len(paths)
         IN  /\ IsList(u)
             /\ \A tree \in Range(u) :
                  /\ tree.algorithms \in [1 .. m - 1 -> Range(JOIN_OPERATIONS)]
                  /\ tree.access \in [1 .. m -> UNION {Range(a[t]) : t \in 1 .. m}]
                  /\ \A t \in 1 .. m : tree.access[t] \in Range(a[t])
<1> DEFINE a == AccessNodes(paths)
           m == Len(paths)
           choices == Product(a)
           algs == Product([j \in 1 .. m - 1 |-> JOIN_OPERATIONS])
           u == TreesOver(paths)
<1>1. m \in Nat /\ m - 1 \in Nat
  BY ListFacts
<1>2. /\ IsList(choices)
      /\ Range(choices) = {x \in [1 .. m -> UNION {Range(a[t]) : t \in 1 .. m}] :
                             \A t \in 1 .. m : x[t] \in Range(a[t])}
  <2> HIDE DEF a
  <2> QED BY <1>1, ProductFacts DEF a
<1>3. IsList(algs) /\ Range(algs) \subseteq [1 .. m - 1 -> Range(JOIN_OPERATIONS)]
  <2> DEFINE o == [j \in 1 .. m - 1 |-> JOIN_OPERATIONS]
  <2>1. IsList(JOIN_OPERATIONS)
    <3>1. JOIN_OPERATIONS \in Seq({"hash_join", "block_nested_loop_join", "sort_merge_join",
                                   "nested_loop_join"})
      BY DEF JOIN_OPERATIONS
    <3> QED BY <3>1, ListOf
  <2>2. \A j \in 1 .. m - 1 : o[j] = JOIN_OPERATIONS
    OBVIOUS
  <2>3. DOMAIN o = 1 .. m - 1
    OBVIOUS
  <2> HIDE DEF o
  <2>6. \A j \in 1 .. m - 1 : IsList(o[j])
    BY <2>1, <2>2
  <2> DEFINE k == m - 1
  <2>7. k \in Nat /\ DOMAIN o = 1 .. k /\ \A j \in 1 .. k : IsList(o[j])
    BY <1>1, <2>3, <2>6
  <2> HIDE DEF k
  <2>8. /\ IsList(Product(o))
        /\ Range(Product(o)) = {x \in [1 .. k -> UNION {Range(o[j]) : j \in 1 .. k}] :
                                  \A j \in 1 .. k : x[j] \in Range(o[j])}
    BY <2>7, ProductFacts
  <2>4. /\ IsList(Product(o))
        /\ Range(Product(o)) = {x \in [1 .. m - 1 -> UNION {Range(o[j]) : j \in 1 .. m - 1}] :
                                  \A j \in 1 .. m - 1 : x[j] \in Range(o[j])}
    BY <2>8 DEF k
  <2>5. \A x \in Range(Product(o)) : x \in [1 .. m - 1 -> Range(JOIN_OPERATIONS)]
    <3> TAKE x \in Range(Product(o))
    <3>1. x = [j \in 1 .. m - 1 |-> x[j]] /\ \A j \in 1 .. m - 1 : x[j] \in Range(JOIN_OPERATIONS)
      BY <2>2, <2>4
    <3> QED BY <3>1
  <2> QED BY <2>4, <2>5 DEF o
<1> DEFINE K == Len(choices)
           L == Len(algs)
           tree(t) == [access |-> choices[1 + ((t - 1) \div L)],
                       algorithms |-> algs[1 + ((t - 1) % L)]]
<1>4. u = [t \in 1 .. K * L |-> tree(t)]
  BY DEF TreesOver
<1> HIDE DEF u, choices, algs, a
<1>5. K \in Nat /\ L \in Nat /\ DOMAIN choices = 1 .. K /\ DOMAIN algs = 1 .. L
  BY <1>2, <1>3, ListFacts
<1>6. K * L \in Nat
  BY <1>5
<1>7. ASSUME NEW t \in 1 .. K * L
      PROVE  1 + ((t - 1) \div L) \in 1 .. K /\ 1 + ((t - 1) % L) \in 1 .. L
  <2> HIDE DEF K, L
  <2>1. L \in Nat \ {0}
    <3>1. L # 0
      <4>1. L = 0 => K * L = 0
        BY <1>5
      <4> QED BY <1>6, <4>1
    <3> QED BY <1>5, <3>1
  <2>2. (t - 1) \div L \in 0 .. K - 1 /\ (t - 1) % L \in 0 .. L - 1
    BY <1>5, <2>1, RowAndColumn
  <2> QED BY <1>5, <2>2
<1> DEFINE Fine(x) == /\ x.algorithms \in [1 .. m - 1 -> Range(JOIN_OPERATIONS)]
                      /\ x.access \in [1 .. m -> UNION {Range(a[t]) : t \in 1 .. m}]
                      /\ \A t \in 1 .. m : x.access[t] \in Range(a[t])
<1>8. ASSUME NEW t \in 1 .. K * L
      PROVE  Fine(tree(t))
  <2>1. choices[1 + ((t - 1) \div L)] \in Range(choices) /\ algs[1 + ((t - 1) % L)] \in Range(algs)
    BY <1>5, <1>7 DEF Range
  <2>2. tree(t).access \in Range(choices) /\ tree(t).algorithms \in Range(algs)
    BY <2>1
  <2> HIDE DEF tree
  <2> QED BY <1>2, <1>3, <2>2
<1> HIDE DEF tree, Fine, K, L
<1>9. IsList(u) /\ DOMAIN u = 1 .. K * L
  <2>1. u = [t \in 1 .. K * L |-> u[t]]
    BY <1>4
  <2> QED BY <1>6, <2>1, ListWith
<1>10. \A x \in Range(u) : Fine(x)
  <2>1. \A x \in Range(u) : \E t \in 1 .. K * L : x = tree(t)
    BY <1>4, <1>9 DEF Range
  <2> QED BY <1>8, <2>1
<1> QED BY <1>9, <1>10 DEF u, a, Fine

-----------------------------------------------------------------------------
(* What a step does to the nodes: it appends some, and estimates scans.    *)
Grown(stats, ms, ns) ==
  /\ DOMAIN ns \subseteq DOMAIN ms
  /\ \A n \in DOMAIN ns :
       \/ ms[n] = ns[n]
       \/ /\ IsScan(ns[n])
          /\ ms[n] = [ns[n] EXCEPT !.estimate = ScanEstimate(ns[n], stats[ns[n].table_name])]

LEMMA GrownFields ==
  ASSUME NEW stats, NEW ms, NEW ns, Grown(stats, ms, ns), NEW n \in DOMAIN ns, IsNode(ns[n])
  PROVE  /\ n \in DOMAIN ms /\ IsNode(ms[n])
         /\ ms[n].operation = ns[n].operation /\ ms[n].children = ns[n].children
         /\ ms[n].table_name = ns[n].table_name /\ ms[n].table_alias = ns[n].table_alias
         /\ ms[n].predicates = ns[n].predicates /\ ms[n].index_column = ns[n].index_column
         /\ ms[n].condition = ns[n].condition
<1>1. n \in DOMAIN ms
  BY DEF Grown
<1>2. CASE ms[n] = ns[n]
  BY <1>1, <1>2
<1>3. CASE /\ IsScan(ns[n])
           /\ ms[n] = [ns[n] EXCEPT !.estimate = ScanEstimate(ns[n], stats[ns[n].table_name])]
  BY <1>1, <1>3, EstimatedFields
<1> QED BY <1>2, <1>3 DEF Grown

LEMMA GrownTree ==
  ASSUME NEW q, NEW stats, NEW ms, NEW ns, Grown(stats, ms, ns),
         \A n \in DOMAIN ns : IsNode(ns[n]),
         NEW tree, TreeOver(q, ns, tree)
  PROVE  TreeOver(q, ms, tree)
<1>1. tree.access \in [DOMAIN q.tables -> DOMAIN ns]
  BY DEF TreeOver
<1>2. tree.access \in [DOMAIN q.tables -> DOMAIN ms]
  BY <1>1 DEF Grown
<1>3. PICK order \in TableOrders(q.tables) :
        \A t \in DOMAIN q.tables : ScanOf(q, ns[tree.access[t]], q.tables[order[t]])
  BY DEF TreeOver
<1>4. ASSUME NEW t \in DOMAIN q.tables
      PROVE  ScanOf(q, ms[tree.access[t]], q.tables[order[t]])
  <2> DEFINE n == tree.access[t]
  <2>1. n \in DOMAIN ns /\ ScanOf(q, ns[n], q.tables[order[t]])
    BY <1>1, <1>3
  <2> HIDE DEF n
  <2>2. /\ IsNode(ms[n])
        /\ ms[n].operation = ns[n].operation /\ ms[n].children = ns[n].children
        /\ ms[n].table_name = ns[n].table_name /\ ms[n].table_alias = ns[n].table_alias
        /\ ms[n].predicates = ns[n].predicates /\ ms[n].index_column = ns[n].index_column
    BY <2>1, GrownFields
  <2>3. ScanOf(q, ms[n], q.tables[order[t]])
    BY <2>1, <2>2 DEF ScanOf, IsScan
  <2> QED BY <2>3 DEF n
<1> QED BY <1>2, <1>3, <1>4 DEF TreeOver

(* Nodes that differ in their estimates only.                              *)
SameFields(ms, ns) ==
  \A n \in DOMAIN ns :
    /\ n \in DOMAIN ms /\ IsNode(ms[n])
    /\ ms[n].operation = ns[n].operation /\ ms[n].children = ns[n].children
    /\ ms[n].table_name = ns[n].table_name /\ ms[n].table_alias = ns[n].table_alias
    /\ ms[n].predicates = ns[n].predicates /\ ms[n].index_column = ns[n].index_column
    /\ ms[n].condition = ns[n].condition

(* Only the estimates may change.                                          *)
LEMMA LeftDeepStable ==
  ASSUME NEW q, NEW ms, NEW ns, SameFields(ms, ns), IsList(ns), Len(q.tables) \in Nat,
         NEW root, NEW order, NEW access, NEW base, LeftDeep(q, ns, root, order, access, base)
  PROVE  LeftDeep(q, ms, root, order, access, base)
<1> DEFINE m == Len(q.tables)
<1>1. /\ m \in Nat /\ base \in Nat /\ root = base + m /\ root \in DOMAIN ns
      /\ access \in [1 .. m -> 1 .. base]
  BY DEF LeftDeep
<1>2. Len(ns) \in Nat /\ DOMAIN ns = 1 .. Len(ns)
  BY ListFacts
<1>3. /\ \A t \in 1 .. m : access[t] \in DOMAIN ns
      /\ \A j \in 1 .. m - 1 : base + j \in DOMAIN ns
  BY <1>1, <1>2
<1>5. \A t \in 1 .. m : ScanOf(q, ms[access[t]], q.tables[order[t]])
  <2> TAKE t \in 1 .. m
  <2>1. ScanOf(q, ns[access[t]], q.tables[order[t]])
    BY DEF LeftDeep
  <2> QED BY <1>3, <2>1 DEF SameFields, ScanOf, IsScan
<1>6. \A j \in 1 .. m - 1 : /\ ms[base + j].operation = ns[base + j].operation
                            /\ ms[base + j].children = ns[base + j].children
                            /\ ms[base + j].condition = ns[base + j].condition
  BY <1>3 DEF SameFields
<1>7. /\ root \in DOMAIN ms /\ ms[root].operation = ns[root].operation
      /\ ms[root].children = ns[root].children
  BY <1>1 DEF SameFields
<1>8. ~IsJoin(ms[root]) /\ ~IsScan(ms[root]) /\ ms[root].children = <<TopOf(access, base, m - 1)>>
  <2>1. ~IsJoin(ns[root]) /\ ~IsScan(ns[root]) /\ ns[root].children = <<TopOf(access, base, m - 1)>>
    BY DEF LeftDeep
  <2> QED BY <1>7, <2>1 DEF IsJoin, IsScan
<1> DEFINE alias(t) == q.tables[order[t]].alias
<1>9. ASSUME NEW j \in 1 .. m - 1
      PROVE  /\ ms[base + j].operation \in Range(JOIN_OPERATIONS)
             /\ ms[base + j].children = <<TopOf(access, base, j - 1), access[j + 1]>>
             /\ ms[base + j].condition \in DOMAIN q.joins
             /\ Connects(q.joins[ms[base + j].condition], {alias(s) : s \in 1 .. j}, alias(j + 1))
  <2>1. /\ ns[base + j].operation \in Range(JOIN_OPERATIONS)
        /\ ns[base + j].children = <<TopOf(access, base, j - 1), access[j + 1]>>
        /\ ns[base + j].condition \in DOMAIN q.joins
        /\ Connects(q.joins[ns[base + j].condition], {alias(s) : s \in 1 .. j}, alias(j + 1))
    BY DEF LeftDeep
  <2> QED BY <1>6, <2>1
<1>10. \A c \in DOMAIN q.joins : \E j \in 1 .. m - 1 : ms[base + j].condition = c
  <2>1. \A c \in DOMAIN q.joins : \E j \in 1 .. m - 1 : ns[base + j].condition = c
    BY DEF LeftDeep
  <2> QED BY <1>6, <2>1
<1>11. order \in [1 .. m -> 1 .. m] /\ IsInjective(order)
  BY DEF LeftDeep
<1> HIDE DEF alias
<1>12. LET mm == Len(q.tables)
           al(t) == q.tables[order[t]].alias
       IN  \A j \in 1 .. mm - 1 :
             /\ ms[base + j].operation \in Range(JOIN_OPERATIONS)
             /\ ms[base + j].children = <<TopOf(access, base, j - 1), access[j + 1]>>
             /\ ms[base + j].condition \in DOMAIN q.joins
             /\ Connects(q.joins[ms[base + j].condition], {al(s) : s \in 1 .. j}, al(j + 1))
  BY <1>9 DEF alias
<1> QED BY <1>1, <1>5, <1>7, <1>8, <1>10, <1>11, <1>12, Zenon DEF LeftDeep

LEMMA GrownPlan ==
  ASSUME NEW q, NEW stats, NEW ms, NEW ns, Grown(stats, ms, ns), WellFormed(ms), WellFormed(ns),
         \A n \in DOMAIN ns : IsNode(ns[n]),
         NEW root, IsPlan(q, stats, ns, root), Len(q.tables) \in Nat
  PROVE  IsPlan(q, stats, ms, root)
<1>1. root \in DOMAIN ns /\ ~IsScan(ns[root])
  BY DEF IsPlan
<1>2. root \in DOMAIN ms /\ ms[root] = ns[root]
  BY <1>1 DEF Grown
<1>3. Extends(ms, ns)
  <2>1. \A n \in DOMAIN ns : ms[n].children = ns[n].children
    BY GrownFields
  <2>2. DOMAIN ns \subseteq DOMAIN ms
    BY DEF Grown
  <2> QED BY <2>1, <2>2 DEF Extends
<1>4. Tree(ms, root) = Tree(ns, root)
  BY <1>1, <1>3, PostOrderStable
<1>5. Tree(ns, root) \subseteq DOMAIN ns
  <2>1. Tree(ns, root) \subseteq 1 .. root
    BY <1>1, PostOrderFacts
  <2>2. Len(ns) \in Nat /\ DOMAIN ns = 1 .. Len(ns)
    BY ListFacts DEF WellFormed
  <2> QED BY <1>1, <2>1, <2>2
<1>6. \A n \in Tree(ns, root) : /\ IsJoin(ms[n]) <=> IsJoin(ns[n])
                                /\ ms[n].condition = ns[n].condition
  BY <1>5, GrownFields DEF IsJoin
<1>7. JoinsIn(ms, root) = JoinsIn(ns, root)
  BY <1>4, <1>6 DEF JoinsIn
<1>8. \A n \in JoinsIn(ns, root) : ms[n].condition = ns[n].condition
  BY <1>6 DEF JoinsIn
<1>9. Conditions(ms, root) = Conditions(ns, root)
  BY <1>7, <1>8 DEF Conditions
<1>10. PICK order, access, base : LeftDeep(q, ns, root, order, access, base)
  BY DEF IsPlan
<1>11. LeftDeep(q, ms, root, order, access, base)
  <2>1. SameFields(ms, ns)
    BY GrownFields DEF SameFields
  <2> QED BY <1>10, <2>1, LeftDeepStable DEF WellFormed
<1> QED BY <1>1, <1>2, <1>9, <1>11 DEF IsPlan

(* The least of the orders left, in the order of permutations.             *)
LEMMA FirstOrderFacts ==
  ASSUME PlanInv, orders # {}
  PROVE  FirstOrder \in orders
<1> DEFINE m == Len(query.tables)
           before == {pair \in orders \X orders : RankBefore(pair[1], pair[2])}
           a == Arranged(orders, before)
           N == Cardinality(orders)
<1>1. m \in Nat /\ DOMAIN query.tables = 1 .. m
  BY QueryFacts DEF PlanInv
<1> HIDE DEF m
<1>2. orders \in SUBSET [1 .. m -> 1 .. m] /\ orders \in SUBSET [1 .. m -> Int]
  <2>1. orders \in SUBSET [1 .. m -> 1 .. m]
    BY <1>1 DEF PlanInv, TableOrders
  <2>2. [1 .. m -> 1 .. m] \in SUBSET [1 .. m -> Int]
    BY <1>1
  <2> QED BY <2>1, <2>2
<1>3. IsFiniteSet(orders)
  <2>1. IsFiniteSet(1 .. m)
    <3>1. 1 \in Int /\ m \in Int
      BY <1>1
    <3> QED BY <3>1, FS_Interval
  <2>2. IsFiniteSet([1 .. m -> 1 .. m])
    BY <1>1, <2>1, FiniteFunctions
  <2> QED BY <1>2, <2>2, FS_Subset
<1>4. IsTotalOrder(before, orders)
  BY <1>1, <1>2, RankIsTotal
<1>5. /\ N \in Nat /\ a \in [1 .. N -> orders] /\ Range(a) = orders
      /\ \A i, j \in 1 .. N : i < j => <<a[i], a[j]>> \in before
  <2> HIDE DEF before
  <2> QED BY <1>3, <1>4, ArrangedInOrder
<1>6. N # 0
  BY <1>3, FS_EmptySet
<1>7. a[1] \in orders /\ \A o \in orders : o = a[1] \/ RankBefore(a[1], o)
  <2> HIDE DEF a, N
  <2>1. 1 \in 1 .. N /\ a[1] \in orders
    BY <1>5, <1>6
  <2>2. ASSUME NEW o \in orders  PROVE o = a[1] \/ RankBefore(a[1], o)
    <3>1. PICK i \in 1 .. N : o = a[i]
      BY <1>5 DEF Range
    <3>2. CASE i = 1
      BY <3>1, <3>2
    <3>3. CASE i # 1
      <4>1. <<a[1], a[i]>> \in before
        BY <1>5, <2>1, <3>3
      <4> QED BY <3>1, <4>1
    <3> QED BY <3>2, <3>3
  <2> QED BY <2>1, <2>2
<1> HIDE DEF a
<1>8. FirstOrder \in orders
  BY <1>7 DEF FirstOrder
<1> QED BY <1>8

(* The next table order.                                                   *)
LEMMA TryOrderStep ==
  ASSUME PlanInv, TryOrder
  PROVE  /\ Grown(table_stats, nodes', nodes) /\ WellFormed(nodes')
         /\ \A n \in DOMAIN nodes' : NodeOK(table_stats, nodes'[n])
         /\ IsList(trees') /\ \A tree \in Range(trees') : TreeOver(query, nodes', tree)
         /\ orders' \subseteq TableOrders(query.tables)
<1> DEFINE order == FirstOrder
           paths == Paths(order)
           more == FlattenSeq(paths)
           m == Len(query.tables)
           a == AccessNodes(paths)
<1>1. /\ m \in Nat \ {0} /\ DOMAIN query.tables = 1 .. m /\ IsList(query.predicates)
  BY QueryFacts DEF PlanInv
<1>2. /\ orders # {} /\ orders' = orders \ {order} /\ nodes' = nodes \o more
      /\ trees' = TreesOver(paths)
  BY DEF TryOrder
<1>3. order \in TableOrders(query.tables)
  <2>1. order \in orders
    BY <1>2, FirstOrderFacts
  <2> QED BY <2>1 DEF PlanInv
<1> HIDE DEF order
<1>4. DOMAIN order = 1 .. m
  BY <1>1, <1>3 DEF TableOrders
<1> HIDE DEF m
<1>5. paths = [t \in 1 .. m |-> AccessPaths(query.tables[order[t]])]
  BY <1>4 DEF Paths
<1> HIDE DEF paths
<1>6. \A t \in 1 .. m : /\ IsList(paths[t])
                        /\ \A x \in Range(paths[t]) : /\ ScanOf(query, x, query.tables[order[t]])
                                                      /\ x.estimate = NotEstimated
  <2> TAKE t \in 1 .. m
  <2>1. paths[t] = AccessPaths(query.tables[order[t]])
    BY <1>5
  <2>2. /\ IsList(paths[t])
        /\ \A p \in DOMAIN paths[t] : /\ ScanOf(query, paths[t][p], query.tables[order[t]])
                                      /\ paths[t][p].estimate = NotEstimated
    BY <1>1, <2>1, PathsOfTable
  <2> QED BY <2>2 DEF Range
<1>7. IsList(paths) /\ Len(paths) = m
  <2>1. paths = [t \in 1 .. m |-> paths[t]]
    BY <1>5
  <2> QED BY <1>1, <2>1, ListWith
<1>8. /\ IsList(nodes') /\ IsList(more) /\ DOMAIN a = 1 .. m
      /\ Range(more) = UNION {Range(paths[t]) : t \in 1 .. m}
      /\ \A t \in 1 .. m : /\ IsList(a[t])
                           /\ \A x \in Range(a[t]) : x \in DOMAIN nodes' /\ nodes'[x] \in Range(paths[t])
  BY <1>2, <1>6, <1>7, AccessNodesFacts DEF PlanInv
<1> HIDE DEF more, a
<1>9. IsList(nodes) /\ Len(nodes) \in Nat /\ DOMAIN nodes = 1 .. Len(nodes)
  BY ListFacts DEF PlanInv, WellFormed
<1>10. /\ DOMAIN nodes' = 1 .. Len(nodes) + Len(more) /\ Len(more) \in Nat
       /\ DOMAIN more = 1 .. Len(more)
       /\ \A i \in 1 .. Len(nodes) : nodes'[i] = nodes[i]
       /\ \A i \in 1 .. Len(more) : nodes'[Len(nodes) + i] = more[i]
  <2> DEFINE u == nodes \o more
  <2>1. /\ DOMAIN u = 1 .. Len(nodes) + Len(more)
        /\ \A i \in 1 .. Len(nodes) : u[i] = nodes[i]
        /\ \A i \in 1 .. Len(more) : u[Len(nodes) + i] = more[i]
    BY <1>8, <1>9, ConcatLists
  <2>2. Len(more) \in Nat /\ DOMAIN more = 1 .. Len(more)
    BY <1>8, ListFacts
  <2>3. u = nodes'
    BY <1>2
  <2> HIDE DEF u
  <2> QED BY <2>1, <2>2, <2>3
<1>11. \A x \in Range(more) : NodeOK(table_stats, x) /\ x.children = <<>>
  <2> TAKE x \in Range(more)
  <2>1. PICK t \in 1 .. m : x \in Range(paths[t])
    BY <1>8
  <2>2. ScanOf(query, x, query.tables[order[t]]) /\ x.estimate = NotEstimated
    BY <1>6, <2>1
  <2>3. NotEstimated \in Estimates
    BY DEF NotEstimated, Estimates
  <2> QED BY <2>2, <2>3 DEF ScanOf, NodeOK
<1>12. \A n \in DOMAIN nodes' : (n \in DOMAIN nodes /\ nodes'[n] = nodes[n]) \/ nodes'[n] \in Range(more)
  <2> TAKE n \in DOMAIN nodes'
  <2>1. n \in 1 .. Len(nodes) \/ \E i \in 1 .. Len(more) : n = Len(nodes) + i
    <3>1. \/ n \in 1 .. Len(nodes)
          \/ n - Len(nodes) \in 1 .. Len(more) /\ n = Len(nodes) + (n - Len(nodes))
      BY <1>9, <1>10
    <3> QED BY <3>1
  <2> QED BY <1>9, <1>10, <2>1 DEF Range
<1>13. Grown(table_stats, nodes', nodes)
  <2>1. DOMAIN nodes \subseteq DOMAIN nodes'
    BY <1>9, <1>10
  <2> QED BY <1>9, <1>10, <2>1 DEF Grown
<1>14. WellFormed(nodes')
  <2> SUFFICES ASSUME NEW n \in DOMAIN nodes'
               PROVE  /\ IsList(nodes'[n].children)
                      /\ \A c \in DOMAIN nodes'[n].children : nodes'[n].children[c] \in 1 .. n - 1
    BY <1>8 DEF WellFormed
  <2>1. CASE n \in DOMAIN nodes /\ nodes'[n] = nodes[n]
    BY <2>1 DEF PlanInv, WellFormed
  <2>2. CASE nodes'[n].children = <<>>
    <3>1. IsList(<<>>) /\ DOMAIN <<>> = {}
      BY DEF IsList
    <3> QED BY <2>2, <3>1
  <2> QED BY <1>11, <1>12, <2>1, <2>2
<1>15. \A n \in DOMAIN nodes' : NodeOK(table_stats, nodes'[n])
  BY <1>11, <1>12 DEF PlanInv
<1>16. /\ IsList(trees')
       /\ \A tree \in Range(trees') :
            /\ tree.algorithms \in [1 .. m - 1 -> Range(JOIN_OPERATIONS)]
            /\ tree.access \in [1 .. m -> UNION {Range(a[t]) : t \in 1 .. m}]
            /\ \A t \in 1 .. m : tree.access[t] \in Range(a[t])
  BY <1>1, <1>2, <1>7, <1>8, TreesOverFacts DEF a
<1>17. ASSUME NEW tree \in Range(trees')  PROVE TreeOver(query, nodes', tree)
  <2>1. tree.access \in [1 .. m -> DOMAIN nodes']
    BY <1>8, <1>16
  <2>2. \A t \in 1 .. m : ScanOf(query, nodes'[tree.access[t]], query.tables[order[t]])
    BY <1>6, <1>8, <1>16
  <2> QED BY <1>1, <1>3, <1>16, <2>1, <2>2 DEF TreeOver, m
<1>18. orders' \subseteq TableOrders(query.tables)
  BY <1>2 DEF PlanInv
<1> QED BY <1>13, <1>14, <1>15, <1>16, <1>17, <1>18

(* Ranking loses no plan.                                                  *)
LEMMA RankStep ==
  ASSUME PlanInv, Rank
  PROVE  IsList(candidates') /\ Range(candidates') = Range(candidates)
<1> DEFINE plans == Range(candidates)
           io(p) == nodes[p].estimate.io
           order == {pair \in plans \X plans :
                       RankBefore(<<nodes[pair[1]].estimate.io, pair[1]>>,
                                  <<nodes[pair[2]].estimate.io, pair[2]>>)}
           a == Arranged(plans, order)
           N == Cardinality(plans)
<1>1. candidates' = a
  BY DEF Rank, ByEstimate
<1>2. Len(candidates) \in Nat /\ DOMAIN candidates = 1 .. Len(candidates)
  BY ListFacts DEF PlanInv
<1>3. IsFiniteSet(plans)
  <2>1. IsFiniteSet(DOMAIN candidates)
    <3>1. 1 \in Int /\ Len(candidates) \in Int
      BY <1>2
    <3> QED BY <1>2, <3>1, FS_Interval
  <2>2. plans = {candidates[c] : c \in DOMAIN candidates}
    BY DEF Range
  <2> QED BY <2>1, <2>2, FiniteImage
<1>4. \A p \in plans : p \in Int /\ io(p) \in Int
  <2> TAKE p \in plans
  <2>1. p \in DOMAIN nodes
    BY DEF PlanInv, IsPlan
  <2>2. DOMAIN nodes = 1 .. Len(nodes) /\ Len(nodes) \in Nat
    BY ListFacts DEF PlanInv, WellFormed
  <2>3. nodes[p].estimate \in Estimates
    BY <2>1 DEF PlanInv, NodeOK
  <2> QED BY <2>1, <2>2, <2>3 DEF Estimates
<1> HIDE DEF plans
<1>5. ASSUME NEW x \in plans, NEW y \in plans
      PROVE  <<x, y>> \in order <=> io(x) < io(y) \/ (io(x) = io(y) /\ x < y)
  <2> DEFINE u == <<io(x), x>>
             v == <<io(y), y>>
  <2>1. <<x, y>> \in order <=> RankBefore(u, v)
    OBVIOUS
  <2>2. DOMAIN u = {1, 2} /\ u[1] = io(x) /\ u[2] = x /\ v[1] = io(y) /\ v[2] = y
    <3>1. DOMAIN u = 1 .. 2
      OBVIOUS
    <3>2. 1 .. 2 = {1, 2}
      OBVIOUS
    <3> QED BY <3>1, <3>2
  <2>3. 1 .. 1 - 1 = {} /\ 1 .. 2 - 1 = {1}
    OBVIOUS
  <2> HIDE DEF u, v, order
  <2>4. RankBefore(u, v) <=> u[1] < v[1] \/ (u[2] < v[2] /\ u[1] = v[1])
    BY <2>2, <2>3, Zenon DEF RankBefore
  <2> QED BY <2>1, <2>2, <2>4
<1> HIDE DEF order, io
<1>6. IsTotalOrder(order, plans)
  <2>1. \A x \in plans : <<x, x>> \notin order
    BY <1>4, <1>5
  <2>2. ASSUME NEW x \in plans, NEW y \in plans, x # y
        PROVE  <<x, y>> \in order \/ <<y, x>> \in order
    BY <1>4, <1>5, <2>2
  <2>3. \A x, y, z \in plans : <<x, y>> \in order /\ <<y, z>> \in order => <<x, z>> \in order
    BY <1>4, <1>5
  <2> QED BY <2>1, <2>2, <2>3 DEF IsTotalOrder
<1>7. N \in Nat /\ a \in [1 .. N -> plans] /\ Range(a) = plans
  BY <1>3, <1>6, ArrangedInOrder
<1> HIDE DEF a, N
<1>8. IsList(a)
  <2>1. a = [i \in 1 .. N |-> a[i]]
    BY <1>7
  <2> QED BY <1>7, <2>1, ListWith
<1> QED BY <1>1, <1>7, <1>8 DEF plans

-----------------------------------------------------------------------------
(* The tree to be built.                                                   *)
Access == trees[1].access
Complete == nodes \o Append(Joins(trees[1]), ResultOperator(Access))

LEMMA AccessFacts ==
  ASSUME PlanInv, trees # <<>>
  PROVE  LET m == Len(query.tables)
         IN  /\ m \in Nat \ {0} /\ DOMAIN query.tables = 1 .. m
             /\ Len(Access) = m /\ Access \in [1 .. m -> DOMAIN nodes]
             /\ trees[1].algorithms \in [1 .. m - 1 -> Range(JOIN_OPERATIONS)]
             /\ \E order \in [1 .. m -> 1 .. m] :
                  /\ IsInjective(order)
                  /\ \A t \in 1 .. m : ScanOf(query, nodes[Access[t]], query.tables[order[t]])
             /\ \A s, t \in 1 .. m :
                  nodes[Access[s]].table_alias = nodes[Access[t]].table_alias => s = t
<1> DEFINE m == Len(query.tables)
<1>1. /\ m \in Nat \ {0} /\ DOMAIN query.tables = 1 .. m
      /\ \A s, t \in 1 .. m : query.tables[s].alias = query.tables[t].alias => s = t
  BY QueryFacts DEF PlanInv
<1>2. TreeOver(query, nodes, trees[1])
  <2>1. IsList(trees) /\ trees # <<>>
    BY DEF PlanInv
  <2>2. Len(trees) \in Nat \ {0} /\ DOMAIN trees = 1 .. Len(trees)
    BY <2>1, ListFacts, EmptySeq DEF IsList
  <2>3. trees[1] \in Range(trees)
    BY <2>2 DEF Range
  <2> QED BY <2>3 DEF PlanInv
<1> HIDE DEF m
<1>3. /\ Access \in [1 .. m -> DOMAIN nodes]
      /\ trees[1].algorithms \in [1 .. m - 1 -> Range(JOIN_OPERATIONS)]
  BY <1>1, <1>2 DEF TreeOver, Access, m
<1>4. Len(Access) = m
  <2>1. Access \in Seq(DOMAIN nodes)
    BY <1>1, <1>3, IsASeq
  <2>2. DOMAIN Access = 1 .. Len(Access) /\ Len(Access) \in Nat /\ DOMAIN Access = 1 .. m
    BY <1>3, <2>1, LenProperties
  <2> DEFINE l == Len(Access)
  <2>3. l \in Nat /\ \A i \in Int : i \in 1 .. l <=> i \in 1 .. m
    BY <2>2
  <2> HIDE DEF l
  <2>4. m \in 1 .. l /\ l >= 1
    BY <1>1, <2>3
  <2>5. l \in 1 .. m
    BY <2>3, <2>4
  <2>6. l = m
    BY <1>1, <2>3, <2>4, <2>5
  <2> QED BY <2>6 DEF l
<1>5. PICK order \in [1 .. m -> 1 .. m] :
        /\ IsInjective(order)
        /\ \A t \in 1 .. m : ScanOf(query, nodes[Access[t]], query.tables[order[t]])
  BY <1>1, <1>2 DEF TreeOver, TableOrders, Access
<1>6. ASSUME NEW s \in 1 .. m, NEW t \in 1 .. m,
             nodes[Access[s]].table_alias = nodes[Access[t]].table_alias
      PROVE  s = t
  <2>1. query.tables[order[s]].alias = query.tables[order[t]].alias
    BY <1>5, <1>6 DEF ScanOf
  <2>2. order[s] = order[t]
    BY <1>1, <2>1
  <2> QED BY <2>2, <1>5 DEF IsInjective
<1> QED BY <1>1, <1>3, <1>4, <1>5, <1>6 DEF m

LEMMA JoinedFacts ==
  ASSUME PlanInv, trees # <<>>
  PROVE  LET J == Joined(Access)
         IN  /\ J \in 0 .. Len(query.tables) - 1
             /\ \A t \in 2 .. J + 1 : FindJoinCondition(Access, t) \in Connecting(Access, t)
<1> DEFINE m == Len(query.tables)
           open == {t \in 2 .. m : Connecting(Access, t) = {}}
           Upto(j) == /\ \A t \in 2 .. j + 1 : Connecting(Access, t) # {}
                      /\ j < m - 1 => Connecting(Access, j + 2) = {}
<1>1. m \in Nat \ {0} /\ Len(Access) = m
  BY AccessFacts
<1> HIDE DEF m
<1>2. \E j \in 0 .. m - 1 : Upto(j)
  <2>1. CASE open = {}
    <3>1. \A t \in 2 .. (m - 1) + 1 : Connecting(Access, t) # {}
      <4>1. (m - 1) + 1 = m
        BY <1>1
      <4> QED BY <2>1, <4>1
    <3>2. m - 1 \in 0 .. m - 1 /\ ~(m - 1 < m - 1)
      BY <1>1
    <3> QED BY <3>1, <3>2
  <2>2. CASE open # {}
    <3>1. PICK t \in open : \A s \in open : t <= s
      <4>1. open \in SUBSET Nat
        BY <1>1
      <4> HIDE DEF open
      <4> QED BY <2>2, <4>1, LeastElement
    <3>2. t \in 2 .. m /\ t - 2 \in 0 .. m - 1 /\ (t - 2) + 1 = t - 1 /\ (t - 2) + 2 = t
      BY <1>1
    <3>3. \A s \in 2 .. t - 1 : s \in 2 .. m /\ ~(t <= s)
      BY <1>1, <3>2
    <3>4. \A s \in 2 .. t - 1 : Connecting(Access, s) # {}
      BY <3>1, <3>3
    <3>5. Connecting(Access, t) = {}
      BY <3>1
    <3> HIDE DEF open
    <3>6. Upto(t - 2)
      BY <3>2, <3>4, <3>5
    <3> QED BY <3>2, <3>6
  <2> QED BY <2>1, <2>2
<1>3. Joined(Access) \in 0 .. m - 1 /\ Upto(Joined(Access))
  <2>1. Joined(Access) = CHOOSE j \in 0 .. m - 1 : Upto(j)
    BY <1>1 DEF Joined
  <2> HIDE DEF Upto
  <2> QED BY <1>2, <2>1
<1>4. ASSUME NEW t \in 2 .. Joined(Access) + 1
      PROVE  FindJoinCondition(Access, t) \in Connecting(Access, t)
  <2> DEFINE S == Connecting(Access, t)
  <2>1. S # {}
    BY <1>3
  <2>2. S \in SUBSET Nat
    <3>1. DOMAIN query.joins = 1 .. Len(query.tables) - 1 /\ Len(query.tables) \in Nat
      BY QueryFacts DEF PlanInv
    <3>2. S \subseteq DOMAIN query.joins
      BY DEF Connecting
    <3> HIDE DEF S
    <3> QED BY <3>1, <3>2
  <2>3. FindJoinCondition(Access, t) = CHOOSE c \in S : \A d \in S : c <= d
    BY DEF FindJoinCondition
  <2> HIDE DEF S
  <2>4. FindJoinCondition(Access, t) \in S
    BY <2>1, <2>2, <2>3, LeastElement
  <2> QED BY <2>4 DEF S
<1> QED BY <1>3, <1>4 DEF m

(* The joins that are made, each above the one before and the next table.  *)
LEMMA JoinsFacts ==
  ASSUME PlanInv, trees # <<>>
  PROVE  LET js == Joins(trees[1])
             J == Joined(Access)
         IN  /\ IsList(js) /\ Len(js) = J /\ DOMAIN js = 1 .. J
             /\ \A j \in 1 .. J :
                  /\ IsNode(js[j]) /\ js[j].estimate = NotEstimated
                  /\ IsJoin(js[j]) /\ ~IsScan(js[j])
                  /\ js[j].operation \in Range(JOIN_OPERATIONS)
                  /\ js[j].children = <<Top(Access, j - 1), Access[j + 1]>>
                  /\ js[j].condition = FindJoinCondition(Access, j + 1)
<1> DEFINE js == Joins(trees[1])
           J == Joined(Access)
           m == Len(query.tables)
           join(j) == PlanNode(trees[1].algorithms[j], <<Top(Access, j - 1), Access[j + 1]>>,
                               FindJoinCondition(Access, j + 1))
<1>1. m \in Nat \ {0} /\ trees[1].algorithms \in [1 .. m - 1 -> Range(JOIN_OPERATIONS)]
  BY AccessFacts
<1>2. J \in 0 .. m - 1
  BY JoinedFacts
<1>3. js = [j \in 1 .. J |-> join(j)]
  BY DEF Joins, Access
<1> HIDE DEF js, J, m
<1>4. IsList(js) /\ Len(js) = J /\ DOMAIN js = 1 .. J
  <2> HIDE DEF join
  <2>1. js = [j \in 1 .. J |-> js[j]]
    BY <1>3
  <2>2. J \in Nat
    BY <1>1, <1>2
  <2> QED BY <2>1, <2>2, ListWith
<1>5. ASSUME NEW j \in 1 .. J
      PROVE  /\ IsNode(js[j]) /\ js[j].estimate = NotEstimated
             /\ js[j].operation = trees[1].algorithms[j]
             /\ js[j].children = <<Top(Access, j - 1), Access[j + 1]>>
             /\ js[j].condition = FindJoinCondition(Access, j + 1)
  <2>1. js[j] = join(j)
    BY <1>3
  <2> QED BY <2>1, PlanNodeFacts
<1>6. ASSUME NEW j \in 1 .. J
      PROVE  js[j].operation \in Range(JOIN_OPERATIONS)
  <2>1. j \in 1 .. m - 1
    BY <1>1, <1>2
  <2> QED BY <1>1, <1>5, <2>1
<1>7. Range(JOIN_OPERATIONS) = {"hash_join", "block_nested_loop_join", "sort_merge_join",
                                "nested_loop_join"}
  <2>1. DOMAIN JOIN_OPERATIONS = {1, 2, 3, 4}
    BY DEF JOIN_OPERATIONS
  <2> QED BY <2>1 DEF Range, JOIN_OPERATIONS
<1>8. \A j \in 1 .. J : IsJoin(js[j]) /\ ~IsScan(js[j])
  BY <1>6, <1>7 DEF IsJoin, IsScan
<1> QED BY <1>4, <1>5, <1>6, <1>8 DEF js, J

LEMMA ResultFacts ==
  ASSUME NEW access
  PROVE  LET r == ResultOperator(access)
         IN  /\ IsNode(r) /\ r.estimate = NotEstimated /\ ~IsJoin(r) /\ ~IsScan(r)
             /\ r.children = <<Top(access, Joined(access))>>
<1> DEFINE r == ResultOperator(access)
<1>1. \E operation \in {"aggregate", "project"} :
        r = PlanNode(operation, <<Top(access, Joined(access))>>, 0)
  BY DEF ResultOperator
<1>2. PICK operation \in {"aggregate", "project"} :
        r = PlanNode(operation, <<Top(access, Joined(access))>>, 0)
  BY <1>1
<1> HIDE DEF r
<1>3. /\ IsNode(r) /\ r.operation = operation /\ r.estimate = NotEstimated
      /\ r.children = <<Top(access, Joined(access))>>
  BY <1>2, PlanNodeFacts
<1>4. ~IsJoin(r) /\ ~IsScan(r)
  BY <1>3 DEF IsJoin, IsScan
<1> QED BY <1>3, <1>4 DEF r

LEMMA TopFacts ==
  ASSUME PlanInv, trees # <<>>, NEW j \in 0 .. Joined(Access)
  PROVE  /\ Top(Access, j) \in 1 .. Len(nodes) + j
         /\ j + 1 \in 1 .. Len(query.tables) /\ Access[j + 1] \in 1 .. Len(nodes)
         /\ j = 0 => Top(Access, j) = Access[1]
         /\ j # 0 => Top(Access, j) = Len(nodes) + j
<1> DEFINE m == Len(query.tables)
           J == Joined(Access)
<1>1. m \in Nat \ {0} /\ Access \in [1 .. m -> DOMAIN nodes]
  BY AccessFacts
<1>2. J \in 0 .. m - 1
  BY JoinedFacts
<1>3. Len(nodes) \in Nat /\ DOMAIN nodes = 1 .. Len(nodes)
  BY ListFacts DEF PlanInv, WellFormed
<1> HIDE DEF m, J
<1>4. j + 1 \in 1 .. m /\ 1 \in 1 .. m /\ j \in Nat
  BY <1>1, <1>2 DEF J
<1>5. Access[j + 1] \in 1 .. Len(nodes) /\ Access[1] \in 1 .. Len(nodes)
  BY <1>1, <1>3, <1>4
<1>6. CASE j = 0
  BY <1>3, <1>4, <1>5, <1>6 DEF Top, m
<1>7. CASE j # 0
  BY <1>3, <1>4, <1>5, <1>7 DEF Top, m
<1> QED BY <1>6, <1>7

LEMMA ChildrenLists ==
  ASSUME NEW T, NEW x \in T, NEW y \in T
  PROVE  /\ IsList(<<x>>) /\ \A c \in DOMAIN <<x>> : <<x>>[c] \in T
         /\ IsList(<<x, y>>) /\ \A c \in DOMAIN <<x, y>> : <<x, y>>[c] \in T
<1>1. <<x>> \in Seq(T) /\ <<x, y>> \in Seq(T)
  OBVIOUS
<1>2. IsList(<<x>>) /\ IsList(<<x, y>>)
  BY <1>1, ListOf
<1>3. DOMAIN <<x>> = 1 .. 1 /\ DOMAIN <<x, y>> = 1 .. 2
  OBVIOUS
<1> QED BY <1>2, <1>3

(* Nodes above those that there are.                                       *)
LEMMA NodesAppended ==
  ASSUME NEW stats, NEW ns, WellFormed(ns), \A n \in DOMAIN ns : NodeOK(stats, ns[n]),
         NEW more, IsList(more),
         \A i \in DOMAIN more :
           /\ IsNode(more[i]) /\ more[i].estimate = NotEstimated
           /\ IsList(more[i].children)
           /\ \A c \in DOMAIN more[i].children : more[i].children[c] \in 1 .. Len(ns) + i - 1
  PROVE  LET u == ns \o more
         IN  /\ IsList(u) /\ Len(u) = Len(ns) + Len(more) /\ DOMAIN u = 1 .. Len(ns) + Len(more)
             /\ \A n \in 1 .. Len(ns) : u[n] = ns[n]
             /\ \A i \in 1 .. Len(more) : u[Len(ns) + i] = more[i]
             /\ WellFormed(u) /\ Grown(stats, u, ns)
             /\ \A n \in DOMAIN u : NodeOK(stats, u[n])
<1> DEFINE u == ns \o more
<1>1. IsList(ns) /\ Len(ns) \in Nat /\ DOMAIN ns = 1 .. Len(ns)
  BY ListFacts DEF WellFormed
<1>2. Len(more) \in Nat /\ DOMAIN more = 1 .. Len(more)
  BY ListFacts
<1>3. /\ IsList(u) /\ Len(u) = Len(ns) + Len(more) /\ DOMAIN u = 1 .. Len(ns) + Len(more)
      /\ \A n \in 1 .. Len(ns) : u[n] = ns[n]
      /\ \A i \in 1 .. Len(more) : u[Len(ns) + i] = more[i]
  BY <1>1, ConcatLists
<1> HIDE DEF u
<1>4. Grown(stats, u, ns)
  <2>1. DOMAIN ns \subseteq DOMAIN u
    BY <1>1, <1>2, <1>3
  <2> QED BY <1>1, <1>3, <2>1 DEF Grown
<1>5. ASSUME NEW n \in DOMAIN u
      PROVE  \/ n \in 1 .. Len(ns)
             \/ \E i \in 1 .. Len(more) : n = Len(ns) + i /\ u[n] = more[i]
  <2>1. \/ n \in 1 .. Len(ns)
        \/ n - Len(ns) \in 1 .. Len(more) /\ n = Len(ns) + (n - Len(ns))
    BY <1>1, <1>2, <1>3
  <2> QED BY <1>3, <2>1
<1>6. ASSUME NEW n \in DOMAIN u
      PROVE  /\ NodeOK(stats, u[n])
             /\ IsList(u[n].children)
             /\ \A c \in DOMAIN u[n].children : u[n].children[c] \in 1 .. n - 1
  <2>1. CASE n \in 1 .. Len(ns)
    BY <1>1, <1>3, <2>1 DEF WellFormed
  <2>2. ASSUME NEW i \in 1 .. Len(more), n = Len(ns) + i, u[n] = more[i]
        PROVE  /\ NodeOK(stats, u[n])
               /\ IsList(u[n].children)
               /\ \A c \in DOMAIN u[n].children : u[n].children[c] \in 1 .. n - 1
    <3>1. i \in DOMAIN more
      BY <1>2
    <3>2. NotEstimated \in Estimates
      BY DEF NotEstimated, Estimates
    <3>3. NodeOK(stats, more[i])
      BY <3>1, <3>2 DEF NodeOK
    <3> QED BY <2>2, <3>1, <3>3
  <2> QED BY <1>5, <2>1, <2>2
<1>7. WellFormed(u) /\ \A n \in DOMAIN u : NodeOK(stats, u[n])
  BY <1>3, <1>6 DEF WellFormed
<1> QED BY <1>3, <1>4, <1>7 DEF u

LEMMA BuiltNodes ==
  ASSUME PlanInv, trees # <<>>
  PROVE  LET js == Joins(trees[1])
             u == nodes \o js
         IN  /\ WellFormed(u) /\ Grown(table_stats, u, nodes)
             /\ \A n \in DOMAIN u : NodeOK(table_stats, u[n])
<1> DEFINE js == Joins(trees[1])
           u == nodes \o js
<1>1. WellFormed(nodes) /\ \A n \in DOMAIN nodes : NodeOK(table_stats, nodes[n])
  BY DEF PlanInv
<1>2. Len(nodes) \in Nat
  BY <1>1, ListFacts DEF WellFormed
<1>3. IsList(js) /\ DOMAIN js = 1 .. Joined(Access)
  BY JoinsFacts
<1>4. ASSUME NEW j \in DOMAIN js
      PROVE  /\ IsNode(js[j]) /\ js[j].estimate = NotEstimated
             /\ IsList(js[j].children)
             /\ \A c \in DOMAIN js[j].children : js[j].children[c] \in 1 .. Len(nodes) + j - 1
  <2> DEFINE x == Top(Access, j - 1)
             y == Access[j + 1]
  <2>1. /\ IsNode(js[j]) /\ js[j].estimate = NotEstimated /\ js[j].children = <<x, y>>
    BY <1>3, JoinsFacts
  <2>2. Joined(Access) \in Nat /\ j \in 1 .. Joined(Access)
    <3>1. Joined(Access) \in 0 .. Len(query.tables) - 1 /\ Len(query.tables) \in Nat
      BY JoinedFacts, AccessFacts
    <3> QED BY <1>3, <3>1
  <2>3. j - 1 \in 0 .. Joined(Access) /\ j \in 0 .. Joined(Access)
    BY <2>2
  <2>4. x \in 1 .. Len(nodes) + (j - 1) /\ y \in 1 .. Len(nodes)
    BY <2>3, TopFacts
  <2>5. x \in 1 .. Len(nodes) + j - 1 /\ y \in 1 .. Len(nodes) + j - 1
    <3> HIDE DEF x, y
    <3> QED BY <1>2, <2>2, <2>4
  <2> HIDE DEF x, y
  <2> DEFINE T == 1 .. Len(nodes) + j - 1
  <2>6. x \in T /\ y \in T
    BY <2>5
  <2> HIDE DEF T
  <2>7. IsList(<<x, y>>) /\ \A c \in DOMAIN <<x, y>> : <<x, y>>[c] \in T
    BY <2>6, ChildrenLists
  <2> QED BY <2>1, <2>7 DEF T
<1> HIDE DEF js
<1> QED BY <1>1, <1>3, <1>4, NodesAppended DEF js

LEMMA CompleteNodes ==
  ASSUME PlanInv, trees # <<>>
  PROVE  LET N == Len(nodes)
             J == Joined(Access)
             js == Joins(trees[1])
         IN  /\ N \in Nat /\ J \in Nat
             /\ IsList(Complete) /\ Len(Complete) = N + J + 1 /\ DOMAIN Complete = 1 .. N + J + 1
             /\ \A n \in 1 .. N : Complete[n] = nodes[n]
             /\ \A j \in 1 .. J : Complete[N + j] = js[j]
             /\ Complete[N + J + 1] = ResultOperator(Access)
             /\ WellFormed(Complete) /\ Grown(table_stats, Complete, nodes)
             /\ \A n \in DOMAIN Complete : NodeOK(table_stats, Complete[n])
<1> DEFINE N == Len(nodes)
           J == Joined(Access)
           js == Joins(trees[1])
           r == ResultOperator(Access)
           more == Append(js, r)
<1>1. WellFormed(nodes) /\ \A n \in DOMAIN nodes : NodeOK(table_stats, nodes[n])
  BY DEF PlanInv
<1>2. N \in Nat
  BY <1>1, ListFacts DEF WellFormed
<1>3. J \in Nat /\ J \in 0 .. J
  <2>1. J \in 0 .. Len(query.tables) - 1 /\ Len(query.tables) \in Nat
    BY JoinedFacts, AccessFacts
  <2> QED BY <2>1
<1>4. IsList(js) /\ Len(js) = J
  BY JoinsFacts
<1>5. /\ IsList(more) /\ Len(more) = J + 1 /\ DOMAIN more = 1 .. J + 1
      /\ \A j \in 1 .. J : more[j] = js[j]
      /\ more[J + 1] = r
  BY <1>4, AppendList
<1>6. /\ IsNode(r) /\ r.estimate = NotEstimated
      /\ r.children = <<Top(Access, J)>>
  BY ResultFacts
<1>7. Top(Access, J) \in 1 .. N + J
  BY <1>3, TopFacts
<1>8. ASSUME NEW j \in DOMAIN js
      PROVE  /\ IsNode(js[j]) /\ js[j].estimate = NotEstimated
             /\ IsList(js[j].children)
             /\ \A c \in DOMAIN js[j].children : js[j].children[c] \in 1 .. N + j - 1
  <2> DEFINE x == Top(Access, j - 1)
             y == Access[j + 1]
  <2>1. j \in 1 .. J
    BY <1>4, ListFacts
  <2>2. /\ IsNode(js[j]) /\ js[j].estimate = NotEstimated /\ js[j].children = <<x, y>>
    BY <2>1, JoinsFacts
  <2>3. j - 1 \in 0 .. J /\ j \in 0 .. J
    BY <1>3, <2>1
  <2>4. x \in 1 .. N + (j - 1) /\ y \in 1 .. N
    BY <2>3, TopFacts
  <2>5. x \in 1 .. N + j - 1 /\ y \in 1 .. N + j - 1
    <3> HIDE DEF x, y, N, J
    <3> QED BY <1>2, <1>3, <2>1, <2>4
  <2> HIDE DEF x, y
  <2> DEFINE T == 1 .. N + j - 1
  <2>6. x \in T /\ y \in T
    BY <2>5
  <2> HIDE DEF T
  <2>7. IsList(<<x, y>>) /\ \A c \in DOMAIN <<x, y>> : <<x, y>>[c] \in T
    BY <2>6, ChildrenLists
  <2> QED BY <2>2, <2>7 DEF T
<1> HIDE DEF N, J, js, r, more
<1>9. \A i \in DOMAIN more :
        /\ IsNode(more[i]) /\ more[i].estimate = NotEstimated
        /\ IsList(more[i].children)
        /\ \A c \in DOMAIN more[i].children : more[i].children[c] \in 1 .. N + i - 1
  <2> TAKE i \in DOMAIN more
  <2>1. CASE i \in 1 .. J
    <3>1. i \in DOMAIN js /\ more[i] = js[i]
      BY <1>4, <1>5, <2>1, ListFacts
    <3> QED BY <1>8, <3>1
  <2>2. CASE i = J + 1
    <3>1. more[i] = r /\ N + i - 1 = N + J
      BY <1>2, <1>3, <1>5, <2>2
    <3> DEFINE T == 1 .. N + i - 1
               x == Top(Access, J)
    <3>2. x \in T
      BY <1>7, <3>1
    <3> HIDE DEF T, x
    <3>3. IsList(<<x>>) /\ \A c \in DOMAIN <<x>> : <<x>>[c] \in T
      BY <3>2, ChildrenLists
    <3> QED BY <1>6, <3>1, <3>3 DEF T, x
  <2> QED BY <1>3, <1>5, <2>1, <2>2
<1>10. Complete = nodes \o more
  BY DEF Complete, more, js, r
<1>11. /\ IsList(Complete) /\ Len(Complete) = N + Len(more) /\ DOMAIN Complete = 1 .. N + Len(more)
       /\ \A n \in 1 .. N : Complete[n] = nodes[n]
       /\ \A i \in 1 .. Len(more) : Complete[N + i] = more[i]
       /\ WellFormed(Complete) /\ Grown(table_stats, Complete, nodes)
       /\ \A n \in DOMAIN Complete : NodeOK(table_stats, Complete[n])
  <2> DEFINE ns == nodes
  <2>1. /\ WellFormed(ns) /\ \A n \in DOMAIN ns : NodeOK(table_stats, ns[n])
        /\ \A i \in DOMAIN more :
             /\ IsNode(more[i]) /\ more[i].estimate = NotEstimated
             /\ IsList(more[i].children)
             /\ \A c \in DOMAIN more[i].children : more[i].children[c] \in 1 .. Len(ns) + i - 1
    BY <1>1, <1>9 DEF N
  <2> HIDE DEF ns
  <2> DEFINE u == ns \o more
  <2>2. /\ IsList(u) /\ Len(u) = Len(ns) + Len(more) /\ DOMAIN u = 1 .. Len(ns) + Len(more)
        /\ \A n \in 1 .. Len(ns) : u[n] = ns[n]
        /\ \A i \in 1 .. Len(more) : u[Len(ns) + i] = more[i]
        /\ WellFormed(u) /\ Grown(table_stats, u, ns)
        /\ \A n \in DOMAIN u : NodeOK(table_stats, u[n])
    BY <1>5, <2>1, NodesAppended
  <2>3. u = Complete
    BY <1>10 DEF ns
  <2> HIDE DEF u
  <2> QED BY <2>2, <2>3 DEF ns, N
<1>12. N + (J + 1) = N + J + 1 /\ J + 1 \in 1 .. J + 1 /\ \A j \in 1 .. J : j \in 1 .. J + 1
  BY <1>2, <1>3
<1> QED BY <1>2, <1>3, <1>5, <1>11, <1>12 DEF N, J, js, r

-----------------------------------------------------------------------------
(* The nodes, the joins and the conditions of a complete tree.             *)
LEMMA TreeFromChildren ==
  ASSUME NEW ns, WellFormed(ns), NEW n \in DOMAIN ns
  PROVE  /\ ns[n].children = <<>> => Tree(ns, n) = {n}
         /\ \A x : ns[n].children = <<x>> => Tree(ns, n) = {n} \cup Tree(ns, x)
         /\ \A x, y : ns[n].children = <<x, y>> =>
              Tree(ns, n) = {n} \cup Tree(ns, x) \cup Tree(ns, y)
<1> DEFINE ch == ns[n].children
<1>1. Tree(ns, n) = {n} \cup UNION {Tree(ns, ch[c]) : c \in DOMAIN ch}
  BY PostOrderFacts
<1> HIDE DEF ch
<1>2. ASSUME ch = <<>>  PROVE Tree(ns, n) = {n}
  <2>1. DOMAIN ch = {}
    BY <1>2
  <2> QED BY <1>1, <2>1
<1>3. ASSUME NEW x, ch = <<x>>  PROVE Tree(ns, n) = {n} \cup Tree(ns, x)
  <2>1. DOMAIN ch = 1 .. 1 /\ 1 .. 1 = {1} /\ ch[1] = x
    BY <1>3
  <2>2. {Tree(ns, ch[c]) : c \in DOMAIN ch} = {Tree(ns, x)}
    BY <2>1
  <2> QED BY <1>1, <2>2
<1>4. ASSUME NEW x, NEW y, ch = <<x, y>>
      PROVE  Tree(ns, n) = {n} \cup Tree(ns, x) \cup Tree(ns, y)
  <2>1. DOMAIN ch = 1 .. 2 /\ 1 .. 2 = {1, 2} /\ ch[1] = x /\ ch[2] = y
    BY <1>4
  <2>2. {Tree(ns, ch[c]) : c \in DOMAIN ch} = {Tree(ns, x), Tree(ns, y)}
    BY <2>1
  <2> QED BY <1>1, <2>2
<1> QED BY <1>2, <1>3, <1>4 DEF ch

LEMMA BuiltTree ==
  ASSUME PlanInv, trees # <<>>, NEW j \in 0 .. Joined(Access)
  PROVE  Tree(Complete, Top(Access, j))
           = {Access[s] : s \in 1 .. j + 1} \cup (Len(nodes) + 1 .. Len(nodes) + j)
<1> DEFINE N == Len(nodes)
           J == Joined(Access)
           T(k) == {Access[s] : s \in 1 .. k + 1} \cup (N + 1 .. N + k)
           Good == {k \in Nat : k \in 0 .. J => Tree(Complete, Top(Access, k)) = T(k)}
<1>1. /\ N \in Nat /\ J \in Nat /\ WellFormed(Complete) /\ DOMAIN Complete = 1 .. N + J + 1
      /\ \A n \in 1 .. N : Complete[n] = nodes[n]
  BY CompleteNodes
<1>2. /\ \A n \in 1 .. J : /\ Complete[N + n] = Joins(trees[1])[n]
                           /\ Joins(trees[1])[n].children = <<Top(Access, n - 1), Access[n + 1]>>
  BY CompleteNodes, JoinsFacts
<1>3. ASSUME NEW k \in 0 .. J
      PROVE  /\ Top(Access, k) \in 1 .. N + k /\ Access[k + 1] \in 1 .. N
             /\ k = 0 => Top(Access, k) = Access[1]
             /\ k # 0 => Top(Access, k) = N + k
             /\ nodes[Access[k + 1]].children = <<>>
  <2>1. k + 1 \in 1 .. Len(query.tables)
    BY TopFacts
  <2>2. nodes[Access[k + 1]].children = <<>>
    BY <2>1, AccessFacts DEF ScanOf
  <2> QED BY <2>2, TopFacts
<1> HIDE DEF N, J
<1>4. ASSUME NEW k \in 0 .. J
      PROVE  Tree(Complete, Access[k + 1]) = {Access[k + 1]}
  <2>1. Access[k + 1] \in 1 .. N /\ Access[k + 1] \in DOMAIN Complete
    <3>1. Access[k + 1] \in 1 .. N
      BY <1>3
    <3>2. 1 .. N \subseteq DOMAIN Complete
      BY <1>1
    <3> QED BY <3>1, <3>2
  <2>2. Complete[Access[k + 1]].children = <<>>
    BY <1>1, <1>3, <2>1
  <2> QED BY <1>1, <2>1, <2>2, TreeFromChildren
<1>5. 0 \in Good
  <2> SUFFICES ASSUME 0 \in 0 .. J  PROVE Tree(Complete, Top(Access, 0)) = T(0)
    OBVIOUS
  <2>1. Tree(Complete, Top(Access, 0)) = {Access[1]}
    BY <1>3, <1>4
  <2>2. 1 .. 0 + 1 = {1} /\ N + 1 .. N + 0 = {}
    BY <1>1
  <2>3. {Access[s] : s \in 1 .. 0 + 1} = {Access[1]}
    BY <2>2
  <2> QED BY <2>1, <2>2, <2>3
<1>6. ASSUME NEW k \in Nat, k \in Good  PROVE k + 1 \in Good
  <2> SUFFICES ASSUME k + 1 \in 0 .. J  PROVE Tree(Complete, Top(Access, k + 1)) = T(k + 1)
    OBVIOUS
  <2>1. k \in 0 .. J /\ k + 1 \in 1 .. J /\ (k + 1) - 1 = k /\ k + 1 # 0
    BY <1>1
  <2>2. Tree(Complete, Top(Access, k)) = T(k)
    BY <1>6, <2>1
  <2>3. Top(Access, k + 1) = N + (k + 1)
    BY <1>3, <2>1
  <2>4. N + (k + 1) \in DOMAIN Complete
    BY <1>1, <2>1
  <2>5. Complete[N + (k + 1)].children = <<Top(Access, k), Access[(k + 1) + 1]>>
    BY <1>2, <2>1
  <2>6. Tree(Complete, N + (k + 1)) = {N + (k + 1)} \cup T(k) \cup {Access[(k + 1) + 1]}
    <3>1. Tree(Complete, Access[(k + 1) + 1]) = {Access[(k + 1) + 1]}
      BY <1>4
    <3> HIDE DEF T
    <3> QED BY <1>1, <2>2, <2>4, <2>5, <3>1, TreeFromChildren
  <2>7. 1 .. (k + 1) + 1 = (1 .. k + 1) \cup {(k + 1) + 1}
    OBVIOUS
  <2>8. N + 1 .. N + (k + 1) = (N + 1 .. N + k) \cup {N + (k + 1)}
    BY <1>1
  <2>9. {Access[s] : s \in 1 .. (k + 1) + 1} = {Access[s] : s \in 1 .. k + 1} \cup {Access[(k + 1) + 1]}
    BY <2>7
  <2> QED BY <2>3, <2>6, <2>8, <2>9
<1>7. j \in Nat /\ j \in 0 .. J
  BY <1>1 DEF J
<1>8. j \in Good
  <2> HIDE DEF Good
  <2> QED BY <1>5, <1>6, <1>7, NatSetInduction
<1> QED BY <1>7, <1>8 DEF N

(* The whole tree, and which of its nodes are scans and joins.             *)
LEMMA CompleteTree ==
  ASSUME PlanInv, trees # <<>>
  PROVE  LET N == Len(nodes)
             J == Joined(Access)
             root == N + J + 1
         IN  /\ Tree(Complete, root) = {Access[s] : s \in 1 .. J + 1} \cup (N + 1 .. root)
             /\ JoinsIn(Complete, root) = N + 1 .. N + J
             /\ \A j \in 0 .. J :
                  {n \in Tree(Complete, Top(Access, j)) : IsScan(Complete[n])}
                    = {Access[s] : s \in 1 .. j + 1}
             /\ {n \in Tree(Complete, root) : IsScan(Complete[n])} = {Access[s] : s \in 1 .. J + 1}
<1> DEFINE N == Len(nodes)
           J == Joined(Access)
           root == N + J + 1
           A(j) == {Access[s] : s \in 1 .. j + 1}
<1>1. /\ N \in Nat /\ J \in Nat /\ WellFormed(Complete) /\ DOMAIN Complete = 1 .. N + J + 1
      /\ \A n \in 1 .. N : Complete[n] = nodes[n]
      /\ \A j \in 1 .. J : Complete[N + j] = Joins(trees[1])[j]
      /\ Complete[N + J + 1] = ResultOperator(Access)
  BY CompleteNodes
<1>2. \A j \in 1 .. J : IsJoin(Complete[N + j]) /\ ~IsScan(Complete[N + j])
  BY <1>1, JoinsFacts
<1>3. ~IsJoin(Complete[root]) /\ ~IsScan(Complete[root]) /\ Complete[root].children = <<Top(Access, J)>>
  BY <1>1, ResultFacts
<1>4. ASSUME NEW j \in 0 .. J, NEW s \in 1 .. j + 1
      PROVE  Access[s] \in 1 .. N /\ IsScan(Complete[Access[s]]) /\ ~IsJoin(Complete[Access[s]])
  <2>1. s - 1 \in 0 .. J /\ (s - 1) + 1 = s
    BY <1>1
  <2>2. s \in 1 .. Len(query.tables) /\ Access[s] \in 1 .. N
    BY <2>1, TopFacts
  <2>3. IsScan(nodes[Access[s]])
    BY <2>2, AccessFacts DEF ScanOf
  <2> QED BY <1>1, <2>2, <2>3 DEF IsScan, IsJoin
<1>5. \A j \in 0 .. J : Tree(Complete, Top(Access, j)) = A(j) \cup (N + 1 .. N + j)
  BY BuiltTree
<1> HIDE DEF N, J
<1>6. J \in 0 .. J /\ root \in DOMAIN Complete
  BY <1>1
<1>7. Tree(Complete, root) = A(J) \cup (N + 1 .. root)
  <2>1. Tree(Complete, root) = {root} \cup Tree(Complete, Top(Access, J))
    BY <1>1, <1>3, <1>6, TreeFromChildren
  <2>2. N + 1 .. root = (N + 1 .. N + J) \cup {root}
    BY <1>1
  <2> HIDE DEF root, A
  <2> QED BY <1>5, <1>6, <2>1, <2>2
<1>8. \A n \in N + 1 .. N + J : \E j \in 1 .. J : n = N + j
  <2> TAKE n \in N + 1 .. N + J
  <2>1. n - N \in 1 .. J /\ n = N + (n - N)
    BY <1>1
  <2> QED BY <2>1
<1>9. JoinsIn(Complete, root) = N + 1 .. N + J
  <2>1. \A n \in A(J) : ~IsJoin(Complete[n])
    BY <1>4, <1>6
  <2>2. \A n \in N + 1 .. N + J : IsJoin(Complete[n])
    BY <1>2, <1>8
  <2>3. N + 1 .. root = (N + 1 .. N + J) \cup {root}
    BY <1>1
  <2> HIDE DEF root, A
  <2> QED BY <1>3, <1>7, <2>1, <2>2, <2>3 DEF JoinsIn
<1>10. ASSUME NEW j \in 0 .. J
       PROVE  {n \in Tree(Complete, Top(Access, j)) : IsScan(Complete[n])} = A(j)
  <2>1. \A n \in A(j) : IsScan(Complete[n])
    BY <1>4
  <2>2. \A n \in N + 1 .. N + j : ~IsScan(Complete[n])
    <3>1. \A n \in N + 1 .. N + j : n \in N + 1 .. N + J
      BY <1>1
    <3> QED BY <1>2, <1>8, <3>1
  <2> HIDE DEF A
  <2> QED BY <1>5, <2>1, <2>2
<1>11. {n \in Tree(Complete, root) : IsScan(Complete[n])} = A(J)
  <2>1. \A n \in A(J) : IsScan(Complete[n])
    BY <1>4, <1>6
  <2>2. \A n \in N + 1 .. root : ~IsScan(Complete[n])
    <3>1. N + 1 .. root = (N + 1 .. N + J) \cup {root}
      BY <1>1
    <3> QED BY <1>2, <1>3, <1>8, <3>1
  <2> HIDE DEF A, root
  <2> QED BY <1>7, <2>1, <2>2
<1> QED BY <1>7, <1>9, <1>10, <1>11 DEF N, J

(* A condition that joins a table joins no later one: it would have three  *)
(* tables on its two sides.  So as many conditions are used as there are.  *)
LEMMA CompleteConditions ==
  ASSUME PlanInv, trees # <<>>, Joined(Access) = Len(query.tables) - 1
  PROVE  LET conditions == Conditions(Complete, Len(nodes) + Joined(Access) + 1)
         IN  IsInjective(conditions) /\ Range(conditions) = DOMAIN query.joins
<1> DEFINE N == Len(nodes)
           J == Joined(Access)
           m == Len(query.tables)
           f == Conditions(Complete, N + J + 1)
           c(j) == FindJoinCondition(Access, j + 1)
           alias(t) == nodes[Access[t]].table_alias
           sides(x) == {query.joins[x].left.table_alias, query.joins[x].right.table_alias}
<1>1. /\ m \in Nat \ {0} /\ J = m - 1
      /\ \A s, t \in 1 .. m : alias(s) = alias(t) => s = t
  BY AccessFacts
<1>2. /\ N \in Nat /\ \A j \in 1 .. J : Complete[N + j] = Joins(trees[1])[j]
  BY CompleteNodes
<1>3. \A j \in 1 .. J : Joins(trees[1])[j].condition = c(j)
  BY JoinsFacts
<1>4. JoinsIn(Complete, N + J + 1) = N + 1 .. N + J
  BY CompleteTree
<1>5. DOMAIN query.joins = 1 .. J
  BY <1>1, QueryFacts DEF PlanInv
<1>6. \A j \in 1 .. J : c(j) \in Connecting(Access, j + 1)
  <2> TAKE j \in 1 .. J
  <2>1. j + 1 \in 2 .. J + 1
    BY <1>1
  <2> QED BY <2>1, JoinedFacts
<1>7. ASSUME NEW j \in 1 .. J
      PROVE  /\ c(j) \in 1 .. J
             /\ alias(j + 1) \in sides(c(j))
             /\ \E s \in 1 .. j : alias(s) \in sides(c(j))
  <2> DEFINE x == c(j)
  <2>1. x \in Connecting(Access, j + 1) /\ (j + 1) - 1 = j
    BY <1>6
  <2> HIDE DEF x, c
  <2>2. x \in DOMAIN query.joins
    BY <2>1 DEF Connecting
  <2>3. Connects(query.joins[x], {alias(s) : s \in 1 .. j}, alias(j + 1))
    BY <2>1 DEF Connecting
  <2>4. alias(j + 1) \in sides(x) /\ sides(x) \cap {alias(s) : s \in 1 .. j} # {}
    <3> HIDE DEF alias
    <3> QED BY <2>3 DEF Connects
  <2>5. PICK z \in sides(x) : z \in {alias(s) : s \in 1 .. j}
    <3> HIDE DEF alias, sides
    <3> QED BY <2>4
  <2> QED BY <1>5, <2>2, <2>4, <2>5 DEF x
<1> HIDE DEF N, J, m, c, alias
<1>8. ASSUME NEW i \in 1 .. J, NEW j \in 1 .. J, i < j, c(i) = c(j)
      PROVE  FALSE
  <2>1. alias(i + 1) \in sides(c(j)) /\ alias(j + 1) \in sides(c(j))
    BY <1>7, <1>8
  <2>2. PICK s \in 1 .. i : alias(s) \in sides(c(j))
    BY <1>7, <1>8
  <2>3. /\ s \in 1 .. m /\ i + 1 \in 1 .. m /\ j + 1 \in 1 .. m
        /\ s # i + 1 /\ i + 1 # j + 1 /\ s # j + 1
    BY <1>1, <1>8
  <2>4. alias(s) # alias(i + 1) /\ alias(i + 1) # alias(j + 1) /\ alias(s) # alias(j + 1)
    BY <1>1, <2>3
  <2> QED BY <2>1, <2>2, <2>4
<1>9. DOMAIN f = N + 1 .. N + J
  BY <1>4 DEF Conditions
<1>10. ASSUME NEW n \in N + 1 .. N + J
       PROVE  n - N \in 1 .. J /\ f[n] = c(n - N)
  <2>1. n - N \in 1 .. J /\ n = N + (n - N)
    BY <1>1, <1>2
  <2>2. Complete[n].condition = c(n - N)
    BY <1>2, <1>3, <2>1
  <2> QED BY <1>4, <2>1, <2>2 DEF Conditions
<1> HIDE DEF f
<1>11. IsInjective(f)
  <2> SUFFICES ASSUME NEW x \in N + 1 .. N + J, NEW y \in N + 1 .. N + J, f[x] = f[y]
               PROVE  x = y
    BY <1>9 DEF IsInjective
  <2>1. x - N \in 1 .. J /\ y - N \in 1 .. J /\ c(x - N) = c(y - N)
    BY <1>10
  <2>2. ~(x - N < y - N) /\ ~(y - N < x - N)
    BY <1>8, <2>1
  <2> QED BY <1>1, <1>2, <2>1, <2>2
<1>12. Range(f) = DOMAIN query.joins
  <2> DEFINE g == [j \in 1 .. J |-> c(j)]
  <2>1. g \in Injection(1 .. J, 1 .. J)
    <3>1. g \in [1 .. J -> 1 .. J]
      BY <1>7
    <3>2. \A i, j \in 1 .. J : g[i] = g[j] => i = j
      <4> SUFFICES ASSUME NEW i \in 1 .. J, NEW j \in 1 .. J, c(i) = c(j)  PROVE i = j
        OBVIOUS
      <4>1. ~(i < j) /\ ~(j < i)
        BY <1>8
      <4> QED BY <4>1
    <3> HIDE DEF g
    <3> QED BY <3>1, <3>2 DEF Injection, IsInjective
  <2>2. IsFiniteSet(1 .. J)
    <3>1. 1 \in Int /\ J \in Int
      BY <1>1
    <3> QED BY <3>1, FS_Interval
  <2>3. g \in Surjection(1 .. J, 1 .. J)
    <3> HIDE DEF g
    <3> QED BY <2>1, <2>2, FS_Injection
  <2>4. \A x \in 1 .. J : \E j \in 1 .. J : c(j) = x
    <3> TAKE x \in 1 .. J
    <3>1. \E j \in 1 .. J : g[j] = x
      <4> HIDE DEF g
      <4> QED BY <2>3 DEF Surjection
    <3> QED BY <3>1
  <2>5. \A x \in 1 .. J : \E n \in N + 1 .. N + J : f[n] = x
    <3> TAKE x \in 1 .. J
    <3>1. PICK j \in 1 .. J : c(j) = x
      BY <2>4
    <3>2. N + j \in N + 1 .. N + J /\ (N + j) - N = j
      BY <1>1, <1>2
    <3>3. f[N + j] = x
      BY <1>10, <3>1, <3>2
    <3> QED BY <3>2, <3>3
  <2>6. \A n \in N + 1 .. N + J : f[n] \in 1 .. J
    BY <1>7, <1>10
  <2> QED BY <1>5, <1>9, <2>5, <2>6 DEF Range
<1> QED BY <1>11, <1>12 DEF f, N, J

-----------------------------------------------------------------------------
(* What is estimated: fractions of rows, and whole pages.                  *)
Fractions == Nat \X (Nat \ {0})

LEMMA FractionOf ==
  ASSUME NEW a \in Nat, NEW b \in Nat \ {0}
  PROVE  <<a, b>> \in Fractions
BY DEF Fractions

LEMMA TimesFractions ==
  ASSUME NEW x \in Fractions, NEW y \in Fractions
  PROVE  Times(x, y) \in Fractions /\ x[1] \in Nat /\ x[2] \in Nat \ {0}
<1>1. x[1] \in Nat /\ x[2] \in Nat \ {0} /\ y[1] \in Nat /\ y[2] \in Nat \ {0}
  BY DEF Fractions
<1> DEFINE a == x[1] * y[1]
           b == x[2] * y[2]
<1>2. a \in Nat /\ b \in Nat \ {0}
  <2>1. \A i, j \in Nat : i * j \in Nat
    BY SMT
  <2>2. \A i, j \in Nat \ {0} : i * j \in Nat \ {0}
    BY SMT
  <2> QED BY <1>1, <2>1, <2>2
<1> HIDE DEF a, b
<1>3. <<a, b>> \in Fractions
  BY <1>2, FractionOf
<1> QED BY <1>1, <1>3 DEF Times, a, b

(* The powers of a base grow beyond any number.                            *)
PowerStep(n, base, h) == [e \in 0 .. n |-> IF e = 0 THEN 1 ELSE base * h[e-1]]

LEMMA PowersExist ==
  ASSUME NEW n \in Nat, NEW base
  PROVE  \E h : h = PowerStep(n, base, h)
<1> DEFINE Solved == {k \in Nat : \E h : h = PowerStep(k, base, h)}
<1>1. 0 \in Solved
  <2> DEFINE h == [e \in 0 .. 0 |-> 1]
  <2>1. h = PowerStep(0, base, h)
    BY DEF PowerStep
  <2> QED BY <2>1
<1>2. ASSUME NEW k \in Nat, k \in Solved  PROVE k + 1 \in Solved
  <2>1. PICK h : h = PowerStep(k, base, h)
    BY <1>2
  <2> DEFINE g == PowerStep(k + 1, base, h)
  <2>2. \A e \in 0 .. k : g[e] = IF e = 0 THEN 1 ELSE base * h[e-1]
    BY DEF PowerStep
  <2>3. \A e \in 0 .. k : h[e] = IF e = 0 THEN 1 ELSE base * h[e-1]
    <3>1. \A e \in 0 .. k : h[e] = PowerStep(k, base, h)[e]
      BY <2>1
    <3> QED BY <3>1 DEF PowerStep
  <2>4. g = [e \in 0 .. k + 1 |-> IF e = 0 THEN 1 ELSE base * h[e-1]]
    BY DEF PowerStep
  <2> HIDE DEF g
  <2>5. \A e \in 0 .. k + 1 : e # 0 => e - 1 \in 0 .. k /\ g[e-1] = h[e-1]
    BY <2>2, <2>3
  <2>6. g = PowerStep(k + 1, base, g)
    BY <2>4, <2>5 DEF PowerStep
  <2> QED BY <2>6
<1> HIDE DEF Solved
<1>3. n \in Solved
  BY <1>1, <1>2, NatSetInduction
<1> QED BY <1>3 DEF Solved

LEMMA CeilLogType ==
  ASSUME NEW n \in Nat \ {0}, NEW base \in Nat, base >= 2
  PROVE  CeilLog(n, base) \in Nat
<1> DEFINE power == CHOOSE h : h = PowerStep(n, base, h)
<1>1. power = PowerStep(n, base, power)
  BY PowersExist
<1>2. CeilLog(n, base) = CHOOSE e \in 0 .. n : power[e] >= n /\ (e > 0 => power[e-1] < n)
  BY DEF CeilLog, PowerStep
<1> HIDE DEF power
<1>3. power[0] = 1 /\ \A e \in 1 .. n : power[e] = base * power[e-1]
  <2>1. \A e \in 0 .. n : power[e] = PowerStep(n, base, power)[e]
    BY <1>1
  <2> QED BY <2>1 DEF PowerStep
<1> DEFINE Good == {e \in Nat : e \in 0 .. n => power[e] \in Nat /\ power[e] >= e + 1}
<1>4. 0 \in Good
  BY <1>3
<1>5. ASSUME NEW e \in Nat, e \in Good  PROVE e + 1 \in Good
  <2> SUFFICES ASSUME e + 1 \in 0 .. n  PROVE power[e+1] \in Nat /\ power[e+1] >= (e + 1) + 1
    OBVIOUS
  <2>1. e \in 0 .. n /\ e + 1 \in 1 .. n /\ (e + 1) - 1 = e
    OBVIOUS
  <2> DEFINE p == power[e]
  <2>2. p \in Nat /\ p >= e + 1
    BY <1>5, <2>1
  <2>3. power[e+1] = base * p
    BY <1>3, <2>1
  <2> HIDE DEF p
  <2>4. base * p \in Nat /\ base * p >= 2 * p
    BY <2>2, SMT
  <2> QED BY <2>2, <2>3, <2>4
<1>6. \A e \in 0 .. n : power[e] \in Nat /\ power[e] >= e + 1
  <2>1. \A e \in Nat : e \in Good
    <3> HIDE DEF Good
    <3> QED BY <1>4, <1>5, NatSetInduction
  <2> QED BY <2>1
<1> DEFINE enough == {e \in 0 .. n : power[e] >= n}
<1>7. PICK e \in enough : \A d \in enough : e <= d
  <2>1. n \in 0 .. n /\ power[n] >= n
    BY <1>6
  <2>2. enough \in SUBSET Nat /\ enough # {}
    BY <2>1
  <2> HIDE DEF enough
  <2> QED BY <2>2, LeastElement
<1>8. e \in 0 .. n /\ power[e] >= n /\ (e > 0 => power[e-1] < n)
  <2> SUFFICES ASSUME e > 0  PROVE power[e-1] < n
    OBVIOUS
  <2>1. e - 1 \in 0 .. n /\ e - 1 \notin enough
    BY <1>7
  <2> QED BY <1>6, <2>1
<1>9. CeilLog(n, base) \in 0 .. n
  BY <1>2, <1>8
<1> QED BY <1>9

LEMMA SortIOType ==
  ASSUME NEW pages \in Nat, NEW frames \in Nat \ {0}
  PROVE  ExternalSortIO(pages, frames) \in Nat
<1>1. CASE pages <= frames
  BY <1>1 DEF ExternalSortIO
<1>2. CASE pages > frames
  <2> DEFINE runs == CeilDiv(pages, frames)
             base == MergeFrames(frames)
             l == CeilLog(runs, base)
  <2>1. runs \in Nat /\ pages <= frames * runs
    BY CeilDivBounds
  <2>2. runs # 0
    <3>1. runs = 0 => frames * runs = 0
      BY <2>1
    <3> QED BY <1>2, <2>1, <3>1
  <2>3. base \in Nat /\ base >= 2
    BY DEF MergeFrames, AtLeast
  <2>4. l \in Nat
    <3> HIDE DEF runs, base
    <3> QED BY <2>1, <2>2, <2>3, CeilLogType
  <2>5. ExternalSortIO(pages, frames) = 2 * pages * (1 + l)
    BY <1>2 DEF ExternalSortIO
  <2> HIDE DEF l
  <2>6. 2 * pages * (1 + l) \in Nat
    BY <2>4, SMT
  <2> QED BY <2>5, <2>6
<1> QED BY <1>1, <1>2

LEMMA CeilType ==
  ASSUME NEW x \in Fractions
  PROVE  Ceil(x) \in Nat
<1>1. x[1] \in Nat /\ x[2] \in Nat \ {0}
  BY DEF Fractions
<1> QED BY <1>1, CeilDivBounds DEF Ceil

-----------------------------------------------------------------------------
(* Selectivities.                                                          *)
ColumnOK(column) ==
  /\ column.distinct_count \in Nat
  /\ column.minimum \in Int /\ column.maximum \in Int
  /\ column.minimum <= column.maximum
  /\ column.histogram.total_rows \in Nat \ {0}
  /\ IsList(column.histogram.buckets)
  /\ \A b \in Range(column.histogram.buckets) :
       b.row_count \in Nat /\ b.distinct_count \in Nat \ {0}

LEMMA CatalogFacts ==
  ASSUME NEW stats \in Catalogs, NEW name \in DOMAIN stats
  PROVE  /\ stats[name].row_count \in Nat /\ stats[name].page_count \in Nat
         /\ \A c \in DOMAIN stats[name].columns : ColumnOK(stats[name].columns[c])
BY CatalogAssumption DEF ColumnOK, IsList

LEMMA EqualityType ==
  ASSUME NEW column, ColumnOK(column), NEW value
  PROVE  EstimateEquality(column.histogram, value) \in Fractions
<1> DEFINE buckets == column.histogram.buckets
           rows == column.histogram.total_rows
           covering == {b \in DOMAIN buckets : buckets[b].lower <= value /\ value <= buckets[b].upper}
           place == CHOOSE b \in covering : \A c \in covering : b <= c
           first == buckets[place]
<1>1. EstimateEquality(column.histogram, value)
        = IF covering = {} THEN <<0, 1>> ELSE <<first.row_count, first.distinct_count * rows>>
  BY DEF EstimateEquality
<1>2. rows \in Nat \ {0} /\ IsList(buckets)
      /\ \A b \in Range(buckets) : b.row_count \in Nat /\ b.distinct_count \in Nat \ {0}
  BY DEF ColumnOK
<1>3. covering \subseteq DOMAIN buckets
  OBVIOUS
<1> HIDE DEF buckets, rows
<1>4. DOMAIN buckets \in SUBSET Nat
  <2>1. DOMAIN buckets = 1 .. Len(buckets) /\ Len(buckets) \in Nat
    BY <1>2, ListFacts
  <2> QED BY <2>1
<1> HIDE DEF covering
<1>5. CASE covering = {}
  <2>1. <<0, 1>> \in Fractions
    BY FractionOf
  <2> QED BY <1>1, <1>5, <2>1
<1>6. CASE covering # {}
  <2>1. place \in covering
    <3>1. covering \in SUBSET Nat
      BY <1>3, <1>4
    <3> QED BY <1>6, <3>1, LeastElement
  <2> HIDE DEF place
  <2>2. first \in Range(buckets)
    BY <1>3, <2>1 DEF Range
  <2>3. first.row_count \in Nat /\ first.distinct_count \in Nat \ {0}
    BY <1>2, <2>2
  <2> DEFINE a == first.row_count
             d == first.distinct_count
             e == d * rows
  <2>4. a \in Nat /\ d \in Nat \ {0}
    BY <2>3
  <2> HIDE DEF first, a, d
  <2>5. e \in Nat \ {0}
    <3>1. \A i, j \in Nat \ {0} : i * j \in Nat \ {0}
      BY SMT
    <3> QED BY <1>2, <2>4, <3>1
  <2> HIDE DEF e
  <2>6. <<a, e>> \in Fractions
    BY <2>4, <2>5, FractionOf
  <2> QED BY <1>1, <1>6, <2>6 DEF a, d, e
<1> QED BY <1>5, <1>6

LEMMA PredicateType ==
  ASSUME NEW column, ColumnOK(column), NEW predicate, predicate.value \in Int, NEW numeric
  PROVE  EstimatePredicate(predicate, column, numeric) \in Fractions
<1> DEFINE v == predicate.value
           lo == column.minimum
           hi == column.maximum
           clamped == IF v > hi THEN hi ELSE AtLeast(lo, v)
           e == EstimatePredicate(predicate, column, numeric)
<1>1. lo \in Int /\ hi \in Int /\ lo <= hi /\ v \in Int
  BY DEF ColumnOK
<1>2. FractionBelow(v, column) = <<clamped - lo, hi - lo>>
  BY DEF FractionBelow
<1>3. \/ e = EstimateEquality(column.histogram, v)
      \/ e = <<1, 2>>
      \/ e = <<1, 1>>
      \/ lo # hi /\ e = <<clamped - lo, hi - lo>>
      \/ lo # hi /\ e = <<(hi - lo) - (clamped - lo), hi - lo>>
  <2> DEFINE below == FractionBelow(v, column)
  <2>1. below[1] = clamped - lo /\ below[2] = hi - lo
    <3> HIDE DEF clamped, lo, hi
    <3> QED BY <1>2
  <2>2. \/ e = EstimateEquality(column.histogram, v)
        \/ e = <<1, 2>>
        \/ e = <<1, 1>>
        \/ lo # hi /\ e = below
        \/ lo # hi /\ e = <<below[2] - below[1], below[2]>>
    <3> HIDE DEF clamped
    <3> QED BY DEF EstimatePredicate
  <2> HIDE DEF e, below, clamped, lo, hi, v
  <2>3. below = <<clamped - lo, hi - lo>>
    BY <1>2 DEF below
  <2> QED BY <2>1, <2>2, <2>3
<1>4. clamped - lo \in Nat /\ clamped - lo <= hi - lo /\ hi - lo \in Nat
  <2> HIDE DEF lo, hi, v
  <2> QED BY <1>1 DEF AtLeast
<1> HIDE DEF e, clamped, lo, hi
<1>5. <<1, 2>> \in Fractions /\ <<1, 1>> \in Fractions
  BY FractionOf
<1>6. EstimateEquality(column.histogram, v) \in Fractions
  BY EqualityType
<1>7. ASSUME lo # hi
      PROVE  /\ <<clamped - lo, hi - lo>> \in Fractions
             /\ <<(hi - lo) - (clamped - lo), hi - lo>> \in Fractions
  <2> DEFINE a == clamped - lo
             w == hi - lo
             b == w - a
  <2>1. a \in Nat /\ w \in Nat \ {0} /\ a <= w
    BY <1>1, <1>4, <1>7
  <2> HIDE DEF a, w
  <2>2. b \in Nat
    BY <2>1
  <2> HIDE DEF b
  <2>3. <<a, w>> \in Fractions /\ <<b, w>> \in Fractions
    BY <2>1, <2>2, FractionOf
  <2> QED BY <2>3 DEF a, w, b
<1>8. e \in Fractions
  BY <1>3, <1>5, <1>6, <1>7
<1> QED BY <1>8 DEF e

(* A conjunction of predicates on columns that there are.                  *)
SelectivityOf(p, columns) ==
  EstimatePredicate(p, columns[p.column.name], p.column.name \notin TextColumns)
ConjunctionStep(predicates, columns, n, h) ==
  [k \in 0 .. n |-> IF k = 0 THEN <<1, 1>> ELSE Times(h[k-1], SelectivityOf(predicates[k], columns))]

LEMMA ConjunctionExists ==
  ASSUME NEW predicates, NEW columns, NEW n \in Nat
  PROVE  \E h : h = ConjunctionStep(predicates, columns, n, h)
<1> DEFINE Step(k, h) == ConjunctionStep(predicates, columns, k, h)
           Solved == {k \in Nat : \E h : h = Step(k, h)}
           value(k, h) == IF k = 0 THEN <<1, 1>>
                          ELSE Times(h[k-1], SelectivityOf(predicates[k], columns))
<1>0. \A k, h : Step(k, h) = [e \in 0 .. k |-> value(e, h)]
  BY DEF ConjunctionStep
<1> HIDE DEF Step
<1>1. 0 \in Solved
  <2> DEFINE h == [e \in 0 .. 0 |-> <<1, 1>>]
  <2>1. h = Step(0, h)
    BY <1>0
  <2> QED BY <2>1
<1>2. ASSUME NEW k \in Nat, k \in Solved  PROVE k + 1 \in Solved
  <2>1. PICK h : h = Step(k, h)
    BY <1>2
  <2> DEFINE g == Step(k + 1, h)
  <2>4. g = [e \in 0 .. k + 1 |-> value(e, h)]
    BY <1>0
  <2>3. h = [e \in 0 .. k |-> value(e, h)]
    BY <1>0, <2>1
  <2> HIDE DEF g, value
  <2>5. \A e \in 0 .. k + 1 : e # 0 => e - 1 \in 0 .. k /\ e - 1 \in 0 .. k + 1
    OBVIOUS
  <2>6. \A e \in 0 .. k : g[e] = value(e, h) /\ h[e] = value(e, h)
    BY <2>3, <2>4
  <2>7. \A e \in 0 .. k + 1 : e # 0 => g[e-1] = h[e-1]
    BY <2>5, <2>6
  <2>8. \A e \in 0 .. k + 1 : value(e, h) = value(e, g)
    BY <2>7 DEF value
  <2>9. g = [e \in 0 .. k + 1 |-> value(e, g)]
    BY <2>4, <2>8
  <2>10. g = Step(k + 1, g)
    BY <1>0, <2>9
  <2> QED BY <2>10
<1> HIDE DEF Solved
<1>3. n \in Solved
  BY <1>1, <1>2, NatSetInduction
<1> QED BY <1>3 DEF Solved, Step

LEMMA ConjunctionType ==
  ASSUME NEW predicates, IsList(predicates), NEW columns,
         \A p \in Range(predicates) : /\ p.value \in Int
                                      /\ ColumnOK(columns[p.column.name])
  PROVE  EstimateConjunction(predicates, columns, TextColumns) \in Fractions
<1> DEFINE n == Len(predicates)
           h == CHOOSE f : f = ConjunctionStep(predicates, columns, n, f)
<1>1. n \in Nat /\ DOMAIN predicates = 1 .. n
  BY ListFacts
<1>2. h = ConjunctionStep(predicates, columns, n, h)
  BY <1>1, ConjunctionExists
<1>3. EstimateConjunction(predicates, columns, TextColumns) = h[n]
  BY DEF EstimateConjunction, ConjunctionStep, SelectivityOf
<1> HIDE DEF h, n
<1>4. \A k \in 0 .. n : h[k] = IF k = 0 THEN <<1, 1>>
                               ELSE Times(h[k-1], SelectivityOf(predicates[k], columns))
  <2>1. \A k \in 0 .. n : h[k] = ConjunctionStep(predicates, columns, n, h)[k]
    BY <1>2
  <2> QED BY <2>1 DEF ConjunctionStep
<1>5. \A k \in 1 .. n : SelectivityOf(predicates[k], columns) \in Fractions
  <2> TAKE k \in 1 .. n
  <2> DEFINE p == predicates[k]
  <2>1. p \in Range(predicates)
    BY <1>1 DEF Range
  <2> HIDE DEF p
  <2>2. p.value \in Int /\ ColumnOK(columns[p.column.name])
    BY <2>1
  <2>3. SelectivityOf(p, columns) \in Fractions
    BY <2>2, PredicateType DEF SelectivityOf
  <2> QED BY <2>3 DEF p
<1> DEFINE Good == {k \in Nat : k \in 0 .. n => h[k] \in Fractions}
<1>6. 0 \in Good
  <2>1. <<1, 1>> \in Fractions
    BY FractionOf
  <2> QED BY <1>4, <2>1
<1>7. ASSUME NEW k \in Nat, k \in Good  PROVE k + 1 \in Good
  <2> SUFFICES ASSUME k + 1 \in 0 .. n  PROVE h[k+1] \in Fractions
    OBVIOUS
  <2>1. k \in 0 .. n /\ k + 1 \in 1 .. n /\ k + 1 # 0 /\ (k + 1) - 1 = k
    BY <1>1
  <2>2. h[k] \in Fractions /\ SelectivityOf(predicates[k+1], columns) \in Fractions
    BY <1>5, <1>7, <2>1
  <2>3. h[k+1] = Times(h[k], SelectivityOf(predicates[k+1], columns))
    BY <1>4, <2>1
  <2> QED BY <2>2, <2>3, TimesFractions
<1>8. n \in Good
  <2> HIDE DEF Good
  <2> QED BY <1>1, <1>6, <1>7, NatSetInduction
<1> QED BY <1>1, <1>3, <1>8

-----------------------------------------------------------------------------
(* Factors over sets of places.                                            *)
FactorStep(f, A, n, h) ==
  [k \in 0 .. n |-> IF k = 0 THEN 1 ELSE h[k-1] * (IF k \in A THEN f[k] ELSE 1)]

LEMMA FactorExists ==
  ASSUME NEW f, NEW A, NEW n \in Nat
  PROVE  \E h : h = FactorStep(f, A, n, h)
<1> DEFINE value(k, h) == IF k = 0 THEN 1 ELSE h[k-1] * (IF k \in A THEN f[k] ELSE 1)
           Step(k, h) == FactorStep(f, A, k, h)
           Solved == {k \in Nat : \E h : h = Step(k, h)}
<1>0. \A k, h : Step(k, h) = [e \in 0 .. k |-> value(e, h)]
  BY DEF FactorStep
<1> HIDE DEF Step
<1>1. 0 \in Solved
  <2> DEFINE h == [e \in 0 .. 0 |-> 1]
  <2>1. h = Step(0, h)
    BY <1>0
  <2> QED BY <2>1
<1>2. ASSUME NEW k \in Nat, k \in Solved  PROVE k + 1 \in Solved
  <2>1. PICK h : h = Step(k, h)
    BY <1>2
  <2> DEFINE g == Step(k + 1, h)
  <2>2. g = [e \in 0 .. k + 1 |-> value(e, h)]
    BY <1>0
  <2>3. h = [e \in 0 .. k |-> value(e, h)]
    BY <1>0, <2>1
  <2> HIDE DEF g, value
  <2>4. \A e \in 0 .. k + 1 : e # 0 => e - 1 \in 0 .. k /\ e - 1 \in 0 .. k + 1
    OBVIOUS
  <2>5. \A e \in 0 .. k : g[e] = value(e, h) /\ h[e] = value(e, h)
    BY <2>2, <2>3
  <2>6. \A e \in 0 .. k + 1 : e # 0 => g[e-1] = h[e-1]
    BY <2>4, <2>5
  <2>7. \A e \in 0 .. k + 1 : value(e, h) = value(e, g)
    BY <2>6 DEF value
  <2>8. g = [e \in 0 .. k + 1 |-> value(e, g)]
    BY <2>2, <2>7
  <2>9. g = Step(k + 1, g)
    BY <1>0, <2>8
  <2> QED BY <2>9
<1> HIDE DEF Solved
<1>3. n \in Solved
  BY <1>1, <1>2, NatSetInduction
<1> QED BY <1>3 DEF Solved, Step

LEMMA FactorAt ==
  ASSUME NEW f, NEW A, NEW n \in Nat
  PROVE  \E h : /\ Factor(f, A, n) = h[n] /\ h[0] = 1
                /\ \A k \in 1 .. n : h[k] = h[k-1] * (IF k \in A THEN f[k] ELSE 1)
<1> DEFINE h == CHOOSE g : g = FactorStep(f, A, n, g)
<1>1. h = FactorStep(f, A, n, h)
  BY FactorExists
<1>2. Factor(f, A, n) = h[n]
  BY DEF Factor, FactorStep
<1> HIDE DEF h
<1>3. \A k \in 0 .. n : h[k] = FactorStep(f, A, n, h)[k]
  BY <1>1
<1>4. \A k \in 0 .. n : h[k] = IF k = 0 THEN 1 ELSE h[k-1] * (IF k \in A THEN f[k] ELSE 1)
  BY <1>3 DEF FactorStep
<1> QED BY <1>2, <1>4

LEMMA FactorType ==
  ASSUME NEW f, NEW A, NEW n \in Nat, \A k \in A : f[k] \in Nat
  PROVE  /\ Factor(f, A, n) \in Nat
         /\ (\A k \in A : f[k] # 0) => Factor(f, A, n) # 0
         /\ A = {} => Factor(f, A, n) = 1
<1>1. PICK h : /\ Factor(f, A, n) = h[n] /\ h[0] = 1
               /\ \A k \in 1 .. n : h[k] = h[k-1] * (IF k \in A THEN f[k] ELSE 1)
  BY FactorAt
<1> DEFINE Good == {k \in Nat : k \in 0 .. n => /\ h[k] \in Nat
                                                /\ (\A i \in A : f[i] # 0) => h[k] # 0
                                                /\ A = {} => h[k] = 1}
<1>2. 0 \in Good
  BY <1>1
<1>3. ASSUME NEW k \in Nat, k \in Good  PROVE k + 1 \in Good
  <2> SUFFICES ASSUME k + 1 \in 0 .. n
               PROVE  /\ h[k+1] \in Nat
                      /\ (\A i \in A : f[i] # 0) => h[k+1] # 0
                      /\ A = {} => h[k+1] = 1
    OBVIOUS
  <2>1. k \in 0 .. n /\ k + 1 \in 1 .. n /\ (k + 1) - 1 = k
    OBVIOUS
  <2> DEFINE a == h[k]
             b == IF k + 1 \in A THEN f[k+1] ELSE 1
  <2>2. /\ a \in Nat
        /\ (\A i \in A : f[i] # 0) => a # 0
        /\ A = {} => a = 1
    BY <1>3, <2>1
  <2>3. b \in Nat /\ ((\A i \in A : f[i] # 0) => b # 0) /\ (A = {} => b = 1)
    OBVIOUS
  <2>4. h[k+1] = a * b
    BY <1>1, <2>1
  <2> HIDE DEF a, b
  <2>5. a * b \in Nat /\ (a # 0 /\ b # 0 => a * b # 0)
    <3>1. \A i, j \in Nat : i * j \in Nat
      BY SMT
    <3>2. \A i, j \in Nat \ {0} : i * j \in Nat \ {0}
      BY SMT
    <3>3. a \in Nat /\ b \in Nat
      BY <2>2, <2>3
    <3>4. a # 0 /\ b # 0 => a * b \in Nat \ {0}
      BY <3>2, <3>3
    <3>5. a * b \in Nat
      BY <3>1, <3>3
    <3> QED BY <3>4, <3>5
  <2>6. A = {} => a * b = 1
    BY <2>2, <2>3
  <2> QED BY <2>2, <2>3, <2>4, <2>5, <2>6
<1>4. n \in Good
  <2> HIDE DEF Good
  <2> QED BY <1>2, <1>3, NatSetInduction
<1> QED BY <1>1, <1>4

LEMMA FactorWith ==
  ASSUME NEW f, NEW A, NEW n \in Nat, NEW x \in 1 .. n, x \notin A,
         \A k \in A \cup {x} : f[k] \in Nat
  PROVE  Factor(f, A \cup {x}, n) = Factor(f, A, n) * f[x]
<1> DEFINE B == A \cup {x}
<1>1. PICK h : /\ Factor(f, A, n) = h[n] /\ h[0] = 1
               /\ \A k \in 1 .. n : h[k] = h[k-1] * (IF k \in A THEN f[k] ELSE 1)
  BY FactorAt
<1>2. PICK g : /\ Factor(f, B, n) = g[n] /\ g[0] = 1
               /\ \A k \in 1 .. n : g[k] = g[k-1] * (IF k \in B THEN f[k] ELSE 1)
  BY FactorAt
<1> DEFINE Good == {k \in Nat : k \in 0 .. n =>
                      h[k] \in Nat /\ g[k] = IF k < x THEN h[k] ELSE h[k] * f[x]}
<1>3. 0 \in Good
  BY <1>1, <1>2
<1>4. ASSUME NEW k \in Nat, k \in Good  PROVE k + 1 \in Good
  <2> SUFFICES ASSUME k + 1 \in 0 .. n
               PROVE  /\ h[k+1] \in Nat
                      /\ g[k+1] = IF k + 1 < x THEN h[k+1] ELSE h[k+1] * f[x]
    OBVIOUS
  <2>1. k \in 0 .. n /\ k + 1 \in 1 .. n /\ (k + 1) - 1 = k
    OBVIOUS
  <2> DEFINE a == h[k]
             c == g[k]
             b == IF k + 1 \in A THEN f[k+1] ELSE 1
             d == IF k + 1 \in B THEN f[k+1] ELSE 1
             y == f[x]
  <2>2. a \in Nat /\ c = IF k < x THEN a ELSE a * y
    BY <1>4, <2>1
  <2>3. /\ b \in Nat /\ y \in Nat
        /\ k + 1 # x => d = b
        /\ k + 1 = x => b = 1 /\ d = y
    OBVIOUS
  <2>4. h[k+1] = a * b /\ g[k+1] = c * d
    BY <1>1, <1>2, <2>1
  <2> HIDE DEF a, b, c, d
  <2>5. a * b \in Nat
    BY <2>2, <2>3, SMT
  <2>6. CASE k + 1 < x
    BY <2>2, <2>3, <2>4, <2>5, <2>6
  <2>7. CASE k + 1 = x
    <3>1. c = a /\ a * b = a
      BY <2>2, <2>3, <2>7
    <3>2. g[k+1] = h[k+1] * y
      BY <2>3, <2>4, <2>7, <3>1
    <3> QED BY <2>4, <2>5, <2>7, <3>2
  <2>8. CASE k + 1 > x
    <3> HIDE DEF y
    <3>1. c = a * y /\ d = b
      BY <2>2, <2>3, <2>8
    <3>2. (a * y) * b = (a * b) * y
      BY <2>2, <2>3, SMT
    <3>3. g[k+1] = h[k+1] * y
      BY <2>4, <3>1, <3>2
    <3> QED BY <2>4, <2>5, <2>8, <3>3 DEF y
  <2> QED BY <2>6, <2>7, <2>8
<1>5. n \in Good
  <2> HIDE DEF Good
  <2> QED BY <1>3, <1>4, NatSetInduction
<1> QED BY <1>1, <1>2, <1>5

-----------------------------------------------------------------------------
(* Estimates of scans and joins.                                           *)
LEMMA EstimateOf ==
  ASSUME NEW r \in Fractions, NEW io \in Int
  PROVE  [rows |-> r, io |-> io] \in Estimates
BY DEF Fractions, Estimates

LEMMA ScanEstimateFacts ==
  ASSUME NEW q, NEW stats \in Catalogs, NEW table, NEW node, ScanOf(q, node, table),
         IsList(q.predicates), \A p \in Range(q.predicates) : p.value \in Int,
         table.name \in DOMAIN stats,
         \A p \in Range(node.predicates) : p.column.name \in DOMAIN stats[table.name].columns
  PROVE  LET e == ScanEstimate(node, stats[table.name])
         IN  e \in Estimates /\ e.rows = RowsOf(q, stats, table) /\ e.rows \in Fractions
<1> DEFINE s == stats[table.name]
           c == EstimateConjunction(node.predicates, s.columns, TextColumns)
           index == IndexOn(node.table_name, node.index_column)
           spread == IF index.clustered THEN s.page_count ELSE s.row_count
           r == Times(<<s.row_count, 1>>, c)
           io == IF node.operation = "seq_scan" THEN s.page_count
                 ELSE index.height + Ceil(Times(<<spread, 1>>, c))
<1>1. /\ node.predicates = PushedOf(q, table) /\ IsScan(node) /\ node.table_name = table.name
      /\ node.operation = "index_scan" => IndexesOn(table.name, node.index_column) # {}
  BY DEF ScanOf
<1>2. /\ s.row_count \in Nat /\ s.page_count \in Nat
      /\ \A x \in DOMAIN s.columns : ColumnOK(s.columns[x])
  BY CatalogFacts
<1>3. ScanEstimate(node, s) = [rows |-> r, io |-> io]
  BY DEF ScanEstimate
<1>4. r = RowsOf(q, stats, table)
  BY <1>1 DEF RowsOf
<1>5. c \in Fractions
  <2> DEFINE places == {p \in DOMAIN q.predicates :
                          q.predicates[p].column.table_alias \in {NoAlias, table.alias}}
             ps == Selected(q.predicates, places)
  <2>1. IsList(ps) /\ Range(ps) = {q.predicates[p] : p \in places}
    BY SelectedFacts
  <2>2. node.predicates = ps
    BY <1>1 DEF PushedOf
  <2> HIDE DEF ps
  <2>3. Range(ps) \subseteq Range(q.predicates)
    BY <2>1 DEF Range
  <2>4. \A p \in Range(ps) : p.value \in Int /\ ColumnOK(s.columns[p.column.name])
    BY <1>2, <2>2, <2>3
  <2> HIDE DEF s
  <2> QED BY <2>1, <2>2, <2>4, ConjunctionType
<1> HIDE DEF c, s
<1>6. <<s.row_count, 1>> \in Fractions /\ <<s.page_count, 1>> \in Fractions
  BY <1>2, FractionOf
<1>7. r \in Fractions
  BY <1>5, <1>6, TimesFractions
<1>8. io \in Int
  <2>1. CASE node.operation = "seq_scan"
    BY <1>2, <2>1
  <2>2. CASE node.operation = "index_scan"
    <3>1. index \in IndexesOn(table.name, node.index_column)
      BY <1>1, <2>2 DEF IndexOn
    <3>2. index.height \in Nat
      BY <3>1, IndexAssumption DEF IndexesOn
    <3> HIDE DEF index
    <3>3. <<spread, 1>> \in Fractions
      BY <1>6
    <3> HIDE DEF spread
    <3>4. Ceil(Times(<<spread, 1>>, c)) \in Nat
      BY <1>5, <3>3, TimesFractions, CeilType
    <3> QED BY <2>2, <3>2, <3>4
  <2> QED BY <1>1, <2>1, <2>2 DEF IsScan
<1> HIDE DEF r, io
<1>9. [rows |-> r, io |-> io] \in Estimates
  BY <1>7, <1>8, EstimateOf
<1>10. [rows |-> r, io |-> io].rows = r
  OBVIOUS
<1> QED BY <1>3, <1>4, <1>7, <1>9, <1>10 DEF s

LEMMA PagesType ==
  ASSUME NEW x \in Fractions
  PROVE  PagesOfRows(x) \in Nat /\ PagesOfRows(x) >= 1
<1>1. x[1] \in Nat /\ x[2] \in Nat \ {0}
  BY DEF Fractions
<1>2. TuplesPerPage \in Nat \ {0}
  BY EvaluatorAssumption
<1> DEFINE a == x[1]
           b == x[2] * TuplesPerPage
           p == CeilDiv(a, b)
<1>3. a \in Nat /\ b \in Nat \ {0}
  <2>1. \A i, j \in Nat \ {0} : i * j \in Nat \ {0}
    BY SMT
  <2> QED BY <1>1, <1>2, <2>1
<1> HIDE DEF a, b
<1>4. p \in Nat
  BY <1>3, CeilDivBounds
<1>5. PagesOfRows(x) = AtLeastOne(p)
  BY DEF PagesOfRows, a, b
<1> HIDE DEF p
<1> QED BY <1>4, <1>5 DEF AtLeastOne, AtLeast

LEMMA JoinEstimateFacts ==
  ASSUME NEW operation \in Range(JOIN_OPERATIONS),
         NEW left \in Estimates, NEW right \in Estimates, NEW distinct,
         distinct[1] \in Nat, distinct[2] \in Nat
  PROVE  LET e == JoinEstimate(operation, left, right, distinct)
             larger == AtLeast(AtLeastOne(distinct[1]), distinct[2])
         IN  /\ e \in Estimates /\ larger \in Nat \ {0}
             /\ e.rows = Times(Times(left.rows, right.rows), <<1, larger>>)
<1> DEFINE larger == AtLeast(AtLeastOne(distinct[1]), distinct[2])
           r == Times(Times(left.rows, right.rows), <<1, larger>>)
           more == JoinIO(operation, left, right)
           io == left.io + right.io + more
           lp == PagesOfRows(left.rows)
           rp == PagesOfRows(right.rows)
<1>1. larger \in Nat \ {0}
  BY DEF AtLeast, AtLeastOne
<1>2. left.rows \in Fractions /\ right.rows \in Fractions /\ left.io \in Int /\ right.io \in Int
  BY DEF Estimates, Fractions
<1>3. JoinEstimate(operation, left, right, distinct) = [rows |-> r, io |-> io]
  BY DEF JoinEstimate
<1>4. lp \in Nat /\ rp \in Nat /\ lp >= 1 /\ rp >= 1
  BY <1>2, PagesType
<1>5. UsableFrames \in Nat \ {0} /\ BufferFrames \in Nat \ {0}
  BY EvaluatorAssumption DEF UsableFrames, JoinFrames, AtLeastOne, AtLeast
<1>6. operation \in {"hash_join", "block_nested_loop_join", "sort_merge_join", "nested_loop_join"}
  <2>1. DOMAIN JOIN_OPERATIONS = {1, 2, 3, 4}
    BY DEF JOIN_OPERATIONS
  <2> QED BY <2>1 DEF Range, JOIN_OPERATIONS
<1>7. more \in Int
  <2> DEFINE smaller == IF lp < rp THEN lp ELSE rp
  <2>1. CASE operation = "nested_loop_join"
    <3> DEFINE k == AtLeast(0, Ceil(left.rows) - 1)
    <3>1. Ceil(left.rows) \in Nat
      BY <1>2, CeilType
    <3>2. k \in Nat
      BY <3>1 DEF AtLeast
    <3>3. more = k * rp
      BY <2>1 DEF JoinIO
    <3> HIDE DEF k, rp, more
    <3> QED BY <1>4, <3>2, <3>3
  <2>2. CASE operation = "block_nested_loop_join"
    <3> DEFINE k == CeilDiv(lp, UsableFrames) - 1
    <3>1. CeilDiv(lp, UsableFrames) \in Nat
      BY <1>4, <1>5, CeilDivBounds
    <3>2. k \in Int
      BY <3>1
    <3>3. more = k * rp
      BY <2>2 DEF JoinIO
    <3> HIDE DEF k, rp, more
    <3> QED BY <1>4, <3>2, <3>3
  <2>3. CASE operation = "hash_join"
    <3>1. more = IF smaller <= UsableFrames THEN 0 ELSE 2 * (lp + rp)
      BY <2>3 DEF JoinIO
    <3> HIDE DEF lp, rp, more
    <3> QED BY <1>4, <3>1
  <2>4. CASE operation = "sort_merge_join"
    <3>1. more = ExternalSortIO(lp, BufferFrames) + ExternalSortIO(rp, BufferFrames)
      BY <2>4 DEF JoinIO
    <3>2. ExternalSortIO(lp, BufferFrames) \in Nat /\ ExternalSortIO(rp, BufferFrames) \in Nat
      BY <1>4, <1>5, SortIOType
    <3> HIDE DEF more
    <3> QED BY <3>1, <3>2
  <2> QED BY <1>6, <2>1, <2>2, <2>3, <2>4
<1> HIDE DEF more, larger
<1>8. io \in Int
  BY <1>2, <1>7
<1>9. <<1, larger>> \in Fractions
  BY <1>1, FractionOf
<1>10. r \in Fractions
  BY <1>2, <1>9, TimesFractions
<1> HIDE DEF r, io
<1>11. [rows |-> r, io |-> io] \in Estimates /\ [rows |-> r, io |-> io].rows = r
  BY <1>8, <1>10, EstimateOf
<1> QED BY <1>1, <1>3, <1>11 DEF larger, r

-----------------------------------------------------------------------------
(* A tree with all tables and with statistics of all that it looks up.     *)
Estimable ==
  /\ trees # <<>> /\ Joined(Access) = Len(query.tables) - 1
  /\ CanEstimate(Complete, Len(nodes) + Joined(Access) + 1, query.joins, table_stats)

Follows(order) ==
  /\ order \in [1 .. Len(query.tables) -> 1 .. Len(query.tables)] /\ IsInjective(order)
  /\ \A t \in 1 .. Len(query.tables) :
       ScanOf(query, nodes[Access[t]], query.tables[order[t]])

LEMMA LeavesOfTree ==
  ASSUME PlanInv, Estimable
  PROVE  /\ \A j \in 0 .. Joined(Access) :
              ScanLeaves(Complete, Top(Access, j)) = {Access[s] : s \in 1 .. j + 1}
         /\ ScanLeaves(Complete, Len(nodes) + Joined(Access) + 1)
              = {Access[s] : s \in 1 .. Len(query.tables)}
         /\ \A t \in 1 .. Len(query.tables) : /\ Access[t] \in 1 .. Len(nodes)
                                              /\ Complete[Access[t]] = nodes[Access[t]]
<1> DEFINE J == Joined(Access)
           m == Len(query.tables)
<1>1. J = m - 1 /\ m \in Nat \ {0} /\ trees # <<>>
  BY AccessFacts DEF Estimable
<1>2. \A root : ScanLeaves(Complete, root) = {n \in Tree(Complete, root) : IsScan(Complete[n])}
  BY DEF ScanLeaves, Tree, ToSet, Range
<1>3. \A j \in 0 .. J : ScanLeaves(Complete, Top(Access, j)) = {Access[s] : s \in 1 .. j + 1}
  BY <1>1, <1>2, CompleteTree
<1>4. ScanLeaves(Complete, Len(nodes) + J + 1) = {Access[s] : s \in 1 .. J + 1}
  BY <1>1, <1>2, CompleteTree
<1>5. J + 1 = m
  BY <1>1
<1>6. \A t \in 1 .. m : Access[t] \in 1 .. Len(nodes) /\ Complete[Access[t]] = nodes[Access[t]]
  <2> TAKE t \in 1 .. m
  <2>1. t - 1 \in 0 .. J /\ (t - 1) + 1 = t
    BY <1>1
  <2>2. Access[t] \in 1 .. Len(nodes)
    BY <1>1, <2>1, TopFacts
  <2> QED BY <1>1, <2>2, CompleteNodes
<1> QED BY <1>3, <1>4, <1>5, <1>6

LEMMA StatisticsOfLeaves ==
  ASSUME PlanInv, Estimable, NEW order, Follows(order), NEW t \in 1 .. Len(query.tables)
  PROVE  LET name == query.tables[order[t]].name
         IN  /\ name \in DOMAIN table_stats
             /\ \A p \in Range(nodes[Access[t]].predicates) :
                  p.column.name \in DOMAIN table_stats[name].columns
<1> DEFINE root == Len(nodes) + Joined(Access) + 1
           leaf == nodes[Access[t]]
<1>1. Access[t] \in ScanLeaves(Complete, root) /\ Complete[Access[t]] = leaf
  BY LeavesOfTree
<1>2. /\ leaf.table_name \in DOMAIN table_stats
      /\ \A p \in Range(leaf.predicates) :
           p.column.name \in DOMAIN table_stats[leaf.table_name].columns
  <2>1. CanEstimate(Complete, root, query.joins, table_stats)
    BY DEF Estimable
  <2> HIDE DEF root, leaf
  <2>2. leaf \in {Complete[n] : n \in ScanLeaves(Complete, root)}
    BY <1>1
  <2> QED BY <2>1, <2>2 DEF CanEstimate
<1>3. leaf.table_name = query.tables[order[t]].name
  BY DEF Follows, ScanOf
<1> QED BY <1>2, <1>3

(* The sides of the condition of a join are two of its tables.             *)
LEMMA SidesOfJoin ==
  ASSUME PlanInv, trees # <<>>, NEW j \in 1 .. Joined(Access)
  PROVE  LET c == FindJoinCondition(Access, j + 1)
             join == query.joins[c]
         IN  /\ c \in DOMAIN query.joins
             /\ \A column \in {join.left, join.right} :
                  \E s \in 1 .. j + 1 : nodes[Access[s]].table_alias = column.table_alias
<1> DEFINE c == FindJoinCondition(Access, j + 1)
           m == Len(query.tables)
           alias(t) == nodes[Access[t]].table_alias
           l == query.joins[c].left.table_alias
           r == query.joins[c].right.table_alias
<1>1. /\ m \in Nat \ {0} /\ \A s, t \in 1 .. m : alias(s) = alias(t) => s = t
  BY AccessFacts
<1>2. Joined(Access) \in 0 .. m - 1
  BY JoinedFacts
<1>3. c \in Connecting(Access, j + 1)
  <2>1. j + 1 \in 2 .. Joined(Access) + 1
    BY <1>1, <1>2
  <2> QED BY <2>1, JoinedFacts
<1> HIDE DEF c, m
<1>4. j \in Nat /\ (j + 1) - 1 = j /\ j + 1 \in 1 .. m /\ j + 1 \in 1 .. j + 1
  BY <1>1, <1>2
<1>5. c \in DOMAIN query.joins /\ Connects(query.joins[c], {alias(s) : s \in 1 .. j}, alias(j + 1))
  BY <1>3, <1>4 DEF Connecting
<1>6. alias(j + 1) \in {l, r} /\ {l, r} \cap {alias(s) : s \in 1 .. j} # {}
  <2> HIDE DEF alias
  <2> QED BY <1>5 DEF Connects
<1>7. PICK s \in 1 .. j : alias(s) \in {l, r}
  <2> HIDE DEF alias, l, r
  <2> QED BY <1>6
<1>8. s \in 1 .. m /\ s # j + 1 /\ s \in 1 .. j + 1
  BY <1>1, <1>4
<1>9. alias(s) # alias(j + 1)
  BY <1>1, <1>4, <1>8
<1>10. \A x \in {l, r} : \E t \in 1 .. j + 1 : alias(t) = x
  <2> HIDE DEF alias, l, r
  <2> QED BY <1>4, <1>6, <1>7, <1>8, <1>9
<1> QED BY <1>5, <1>10 DEF c

LEMMA DistinctOfJoin ==
  ASSUME PlanInv, Estimable, NEW order, Follows(order), NEW j \in 1 .. Joined(Access),
         NEW column,
         LET join == query.joins[FindJoinCondition(Access, j + 1)]
         IN  column \in {join.left, join.right}
  PROVE  /\ DistinctOf(query, table_stats, column) \in Nat
         /\ JoinDistinctCount(Complete, ScanLeaves(Complete, Len(nodes) + j), column, table_stats)
              = DistinctOf(query, table_stats, column)
         /\ \E t \in DOMAIN query.tables :
              /\ query.tables[t].alias = column.table_alias
              /\ column.name \in DOMAIN table_stats[query.tables[t].name].columns
<1> DEFINE m == Len(query.tables)
           J == Joined(Access)
           N == Len(nodes)
           alias(t) == nodes[Access[t]].table_alias
           leaves == ScanLeaves(Complete, N + j)
           named == {n \in leaves : Complete[n].table_alias = column.table_alias}
<1>1. /\ m \in Nat \ {0} /\ DOMAIN query.tables = 1 .. m
      /\ \A s, t \in 1 .. m : alias(s) = alias(t) => s = t
      /\ trees # <<>> /\ J = m - 1
  BY AccessFacts DEF Estimable
<1>2. \A s, t \in 1 .. m : query.tables[s].alias = query.tables[t].alias => s = t
  <2>1. query \in Queries
    BY DEF PlanInv
  <2> QED BY <1>1, <2>1, QueryFacts
<1>3. leaves = {Access[s] : s \in 1 .. j + 1}
  <2>1. j \in 0 .. J /\ j # 0
    BY <1>1
  <2>2. Top(Access, j) = N + j
    BY <1>1, <2>1, TopFacts
  <2> QED BY <2>1, <2>2, LeavesOfTree
<1>4. \A t \in 1 .. m : Complete[Access[t]] = nodes[Access[t]] /\ Access[t] \in 1 .. N
  BY LeavesOfTree
<1>5. PICK t \in 1 .. j + 1 : alias(t) = column.table_alias
  BY <1>1, SidesOfJoin
<1>6. \A s \in 1 .. j + 1 : s \in 1 .. m
  BY <1>1
<1>7. named = {Access[t]}
  <2> HIDE DEF alias, leaves, m
  <2>1. \A s \in 1 .. j + 1 : Complete[Access[s]].table_alias = alias(s)
    BY <1>4, <1>6 DEF alias
  <2>2. \A s \in 1 .. j + 1 : alias(s) = alias(t) => s = t
    BY <1>1, <1>6
  <2> QED BY <1>3, <1>5, <2>1, <2>2
<1>8. FirstLeaf(named) = Access[t] /\ named # {}
  <2>1. Access[t] \in Int
    BY <1>4, <1>6
  <2>2. Access[t] <= Access[t]
    BY <2>1
  <2> HIDE DEF named
  <2>3. \A n \in named : n = Access[t]
    BY <1>7
  <2>4. \A n \in named : Access[t] <= n
    BY <2>2, <2>3
  <2>5. Access[t] \in named
    BY <1>7
  <2>6. FirstLeaf(named) \in named
    BY <2>4, <2>5 DEF FirstLeaf
  <2> QED BY <2>3, <2>5, <2>6
<1> DEFINE table == query.tables[order[t]]
<1>9. /\ Complete[Access[t]].table_name = table.name /\ table.alias = column.table_alias
      /\ order[t] \in 1 .. m
  BY <1>4, <1>5, <1>6 DEF Follows, ScanOf
<1>10. (CHOOSE s \in DOMAIN query.tables : query.tables[s].alias = column.table_alias) = order[t]
  BY <1>1, <1>2, <1>9
<1>11. DistinctOf(query, table_stats, column)
         = table_stats[table.name].columns[column.name].distinct_count
  BY <1>10 DEF DistinctOf
<1>12. JoinDistinctCount(Complete, leaves, column, table_stats)
         = table_stats[Complete[Access[t]].table_name].columns[column.name].distinct_count
  BY <1>8 DEF JoinDistinctCount
<1>13. column.name \in DOMAIN table_stats[table.name].columns
  <2> DEFINE root == N + J + 1
             ls == {Complete[n] : n \in ScanLeaves(Complete, root)}
             leaf == Complete[Access[t]]
  <2>1. CanEstimate(Complete, root, query.joins, table_stats)
    BY DEF Estimable
  <2>2. leaf \in ls
    BY <1>6, LeavesOfTree
  <2>3. leaf.table_alias = column.table_alias
    BY <1>4, <1>5, <1>6
  <2>4. N + j \in JoinsIn(Complete, root)
    <3>1. JoinsIn(Complete, root) = N + 1 .. N + J
      BY <1>1, CompleteTree
    <3>2. N \in Nat
      BY <1>1, CompleteNodes
    <3> QED BY <1>1, <3>1, <3>2
  <2>5. Complete[N + j].condition = FindJoinCondition(Access, j + 1)
    BY <1>1, CompleteNodes, JoinsFacts
  <2> HIDE DEF leaf, root
  <2>6. N + j \in ToSet(PostOrder(Complete, root)) /\ IsJoin(Complete[N + j])
    BY <2>4 DEF JoinsIn, Tree, ToSet, Range
  <2> DEFINE join == query.joins[Complete[N + j].condition]
  <2>7. column \in {join.left, join.right}
    BY <2>5
  <2> HIDE DEF join
  <2>8. \A l \in {x \in ls : x.table_alias = column.table_alias} :
          column.name \in DOMAIN table_stats[l.table_name].columns
    BY <2>1, <2>6, <2>7 DEF CanEstimate, join
  <2>9. column.name \in DOMAIN table_stats[leaf.table_name].columns
    BY <2>2, <2>3, <2>8
  <2> QED BY <1>9, <2>9 DEF leaf
<1>14. table_stats[table.name].columns[column.name].distinct_count \in Nat
  <2>1. table.name \in DOMAIN table_stats
    BY <1>6, StatisticsOfLeaves
  <2> DEFINE c == table_stats[table.name].columns[column.name]
  <2>2. ColumnOK(c)
    <3>1. table_stats \in Catalogs
      BY DEF PlanInv
    <3> HIDE DEF table
    <3> QED BY <1>13, <2>1, <3>1, CatalogFacts
  <2> HIDE DEF c
  <2>3. c.distinct_count \in Nat
    BY <2>2 DEF ColumnOK
  <2> QED BY <2>3 DEF c
<1> QED BY <1>1, <1>9, <1>11, <1>12, <1>13, <1>14

-----------------------------------------------------------------------------
(* The estimates of a tree, from its first table up.                       *)
NewEstimates == EstimatesOf(Complete, query.joins, table_stats)

LEMMA EstimateOfLeaf ==
  ASSUME PlanInv, Estimable, NEW order, Follows(order), NEW t \in 1 .. Len(query.tables)
  PROVE  LET e == NewEstimates[Access[t]]
             node == nodes[Access[t]]
         IN  /\ e = ScanEstimate(node, table_stats[node.table_name])
             /\ e \in Estimates /\ e.rows = RowsOf(query, table_stats, query.tables[order[t]])
             /\ e.rows \in Fractions
<1> DEFINE n == Access[t]
           node == nodes[n]
           table == query.tables[order[t]]
           ch == [c \in DOMAIN Complete[n].children |-> NewEstimates[Complete[n].children[c]]]
<1>1. n \in 1 .. Len(nodes) /\ Complete[n] = node
  BY LeavesOfTree
<1>2. trees # <<>>
  BY DEF Estimable
<1>3. n \in DOMAIN Complete /\ WellFormed(Complete)
  <2>1. Len(nodes) \in Nat /\ Joined(Access) \in Nat /\ WellFormed(Complete)
        /\ DOMAIN Complete = 1 .. Len(nodes) + Joined(Access) + 1
    BY <1>2, CompleteNodes
  <2> HIDE DEF n
  <2> QED BY <1>1, <2>1
<1>4. ScanOf(query, node, table)
  BY DEF Follows
<1>5. NewEstimates[n] = NodeEstimate(Complete, n, ch, query.joins, table_stats)
  BY <1>3, EstimateOfNode DEF NewEstimates
<1> HIDE DEF ch, n
<1>6. IsScan(node) /\ node.table_name = table.name
  BY <1>4 DEF ScanOf
<1>7. NewEstimates[n] = ScanEstimate(node, table_stats[node.table_name])
  BY <1>1, <1>5, <1>6 DEF NodeEstimate
<1>8. IsList(query.predicates) /\ \A p \in Range(query.predicates) : p.value \in Int
  <2>1. query \in Queries
    BY DEF PlanInv
  <2> QED BY <2>1, QueryFacts
<1>9. /\ table.name \in DOMAIN table_stats
      /\ \A p \in Range(node.predicates) : p.column.name \in DOMAIN table_stats[table.name].columns
  BY StatisticsOfLeaves DEF n
<1>10. table_stats \in Catalogs
  BY DEF PlanInv
<1> DEFINE e == ScanEstimate(node, table_stats[table.name])
<1> HIDE DEF node, table
<1>11. e \in Estimates /\ e.rows = RowsOf(query, table_stats, table) /\ e.rows \in Fractions
  BY <1>4, <1>8, <1>9, <1>10, ScanEstimateFacts
<1>12. NewEstimates[n] = e
  BY <1>6, <1>7
<1> HIDE DEF e
<1> QED BY <1>7, <1>11, <1>12 DEF n, node, table

(* A join cuts the rows of its children down by its condition.             *)
LEMMA EstimateOfJoin ==
  ASSUME PlanInv, Estimable, NEW order, Follows(order), NEW j \in 1 .. Joined(Access),
         NewEstimates[Top(Access, j - 1)] \in Estimates
  PROVE  LET e == NewEstimates[Top(Access, j)]
             left == NewEstimates[Top(Access, j - 1)]
             right == NewEstimates[Access[j + 1]]
             larger == Larger(query, table_stats, query.joins[FindJoinCondition(Access, j + 1)])
         IN  /\ e \in Estimates /\ larger \in Nat \ {0}
             /\ e.rows = Times(Times(left.rows, right.rows), <<1, larger>>)
<1> DEFINE n == Len(nodes) + j
           c == FindJoinCondition(Access, j + 1)
           join == query.joins[c]
           left == NewEstimates[Top(Access, j - 1)]
           right == NewEstimates[Access[j + 1]]
           ch == [i \in DOMAIN Complete[n].children |-> NewEstimates[Complete[n].children[i]]]
           distinct(column) ==
             JoinDistinctCount(Complete, ScanLeaves(Complete, n), column, table_stats)
           d(column) == DistinctOf(query, table_stats, column)
<1>1. trees # <<>>
  BY DEF Estimable
<1>2. /\ Len(nodes) \in Nat /\ Joined(Access) \in Nat /\ WellFormed(Complete)
      /\ DOMAIN Complete = 1 .. Len(nodes) + Joined(Access) + 1
      /\ Complete[n] = Joins(trees[1])[j]
  BY <1>1, CompleteNodes
<1>3. n \in DOMAIN Complete /\ j \in 0 .. Joined(Access) /\ j # 0
  BY <1>2
<1>4. Top(Access, j) = n
  BY <1>1, <1>3, TopFacts
<1>5. /\ IsJoin(Complete[n]) /\ ~IsScan(Complete[n])
      /\ Complete[n].operation \in Range(JOIN_OPERATIONS)
      /\ Complete[n].children = <<Top(Access, j - 1), Access[j + 1]>>
      /\ Complete[n].condition = c
  BY <1>1, <1>2, JoinsFacts
<1>6. right \in Estimates
  <2>1. j + 1 \in 1 .. Len(query.tables)
    BY <1>1, <1>3, TopFacts
  <2> QED BY <2>1, EstimateOfLeaf
<1>7. NewEstimates[n] = NodeEstimate(Complete, n, ch, query.joins, table_stats)
  <2>1. n \in DOMAIN Complete
    BY <1>3
  <2> HIDE DEF n
  <2> QED BY <1>2, <2>1, EstimateOfNode DEF NewEstimates
<1> DEFINE ds == <<distinct(join.left), distinct(join.right)>>
<1>8. NodeEstimate(Complete, n, ch, query.joins, table_stats)
        = JoinEstimate(Complete[n].operation, ch[1], ch[2], ds)
  <2> HIDE DEF ch, n, c, distinct
  <2> QED BY <1>5 DEF NodeEstimate, distinct
<1>9. ch[1] = left /\ ch[2] = right
  <2>1. DOMAIN Complete[n].children = 1 .. 2
    BY <1>5
  <2> HIDE DEF n
  <2> QED BY <1>5, <2>1
<1>10. /\ distinct(join.left) = d(join.left) /\ d(join.left) \in Nat
       /\ distinct(join.right) = d(join.right) /\ d(join.right) \in Nat
  BY DistinctOfJoin
<1> DEFINE op == Complete[n].operation
<1> HIDE DEF left, right, ch, distinct, d, c, n
<1>11. ds = <<d(join.left), d(join.right)>> /\ ds[1] = d(join.left) /\ ds[2] = d(join.right)
  BY <1>10
<1> HIDE DEF ds, op
<1>12. left \in Estimates
  BY DEF left
<1> DEFINE larger == AtLeast(AtLeastOne(ds[1]), ds[2])
           e == JoinEstimate(op, left, right, ds)
<1>13. /\ e \in Estimates /\ larger \in Nat \ {0}
       /\ e.rows = Times(Times(left.rows, right.rows), <<1, larger>>)
  <2>1. op \in Range(JOIN_OPERATIONS) /\ ds[1] \in Nat /\ ds[2] \in Nat
    BY <1>5, <1>10, <1>11 DEF op
  <2> QED BY <1>6, <1>12, <2>1, JoinEstimateFacts
<1>14. larger = Larger(query, table_stats, join)
  BY <1>11 DEF Larger, d
<1>15. NewEstimates[Top(Access, j)] = e
  BY <1>4, <1>7, <1>8, <1>9 DEF op
<1> HIDE DEF e, larger
<1> QED BY <1>13, <1>14, <1>15 DEF left, right, c, join

LEMMA LargerOfJoin ==
  ASSUME PlanInv, Estimable, NEW order, Follows(order), NEW j \in 1 .. Joined(Access)
  PROVE  Larger(query, table_stats, query.joins[FindJoinCondition(Access, j + 1)]) \in Nat \ {0}
<1> DEFINE join == query.joins[FindJoinCondition(Access, j + 1)]
           d(column) == DistinctOf(query, table_stats, column)
<1>1. d(join.left) \in Nat /\ d(join.right) \in Nat
  BY DistinctOfJoin
<1>2. Larger(query, table_stats, join) = AtLeast(AtLeastOne(d(join.left)), d(join.right))
  BY DEF Larger
<1> HIDE DEF d, join
<1> QED BY <1>1, <1>2 DEF AtLeast, AtLeastOne, join

LEMMA ConditionsDiffer ==
  ASSUME PlanInv, Estimable, NEW i \in 1 .. Joined(Access), NEW k \in 1 .. Joined(Access),
         FindJoinCondition(Access, i + 1) = FindJoinCondition(Access, k + 1)
  PROVE  i = k
<1> DEFINE N == Len(nodes)
           J == Joined(Access)
           f == Conditions(Complete, N + J + 1)
<1>1. trees # <<>>
  BY DEF Estimable
<1>2. IsInjective(f)
  BY CompleteConditions DEF Estimable
<1>3. DOMAIN f = N + 1 .. N + J
  BY <1>1, CompleteTree DEF Conditions
<1>4. /\ N \in Nat /\ J \in Nat
      /\ \A x \in 1 .. J : Complete[N + x].condition = FindJoinCondition(Access, x + 1)
  BY <1>1, CompleteNodes, JoinsFacts
<1>5. ASSUME NEW x \in 1 .. J
      PROVE  N + x \in DOMAIN f /\ f[N + x] = FindJoinCondition(Access, x + 1)
  <2>1. N + x \in N + 1 .. N + J
    BY <1>4
  <2>2. N + x \in JoinsIn(Complete, N + J + 1)
    BY <1>1, <2>1, CompleteTree
  <2>3. f[N + x] = Complete[N + x].condition
    BY <2>2 DEF Conditions
  <2> QED BY <1>3, <1>4, <2>1, <2>3
<1>6. N + i \in DOMAIN f /\ N + k \in DOMAIN f /\ f[N + i] = f[N + k]
  BY <1>5
<1> HIDE DEF f, N, J
<1>7. N + i = N + k
  BY <1>2, <1>6 DEF IsInjective
<1> QED BY <1>4, <1>7 DEF J

(* The rows of the joins: those of the tables joined so far, cut down by   *)
(* the conditions used so far.                                             *)
LEMMA EstimateOfTop ==
  ASSUME PlanInv, Estimable, NEW order, Follows(order), NEW j \in 0 .. Joined(Access)
  PROVE  LET e == NewEstimates[Top(Access, j)]
         IN  /\ e \in Estimates
             /\ e.rows = RowsOfJoin(query, table_stats, {order[s] : s \in 1 .. j + 1},
                            {FindJoinCondition(Access, i + 1) : i \in 1 .. j})
<1> DEFINE m == Len(query.tables)
           J == Joined(Access)
           c(i) == FindJoinCondition(Access, i + 1)
           T(k) == {order[s] : s \in 1 .. k + 1}
           C(k) == {c(i) : i \in 1 .. k}
           f == Numerators(query, table_stats)
           g == Denominators(query, table_stats)
           h == Largers(query, table_stats)
           e(k) == NewEstimates[Top(Access, k)]
           Good == {k \in Nat : k \in 0 .. J =>
                      /\ e(k) \in Estimates
                      /\ e(k).rows = <<Factor(f, T(k), m), Factor(g, T(k), m) * Factor(h, C(k), m - 1)>>}
<1>1. /\ m \in Nat \ {0} /\ m - 1 \in Nat /\ J = m - 1 /\ DOMAIN query.tables = 1 .. m
      /\ trees # <<>>
  BY AccessFacts DEF Estimable
<1>2. DOMAIN query.joins = 1 .. m - 1 /\ Len(query.joins) = m - 1
  <2>1. query \in Queries
    BY DEF PlanInv
  <2> QED BY <2>1, QueryFacts
<1>3. order \in [1 .. m -> 1 .. m] /\ \A s, t \in 1 .. m : order[s] = order[t] => s = t
  BY DEF Follows, IsInjective
<1>4. ASSUME NEW t \in 1 .. m
      PROVE  LET r == NewEstimates[Access[t]].rows
             IN  /\ NewEstimates[Access[t]] \in Estimates
                 /\ r = <<f[order[t]], g[order[t]]>>
                 /\ f[order[t]] \in Nat /\ g[order[t]] \in Nat \ {0}
  <2> DEFINE a == NewEstimates[Access[t]]
             r == a.rows
             x == order[t]
  <2>1. a \in Estimates /\ r = RowsOf(query, table_stats, query.tables[x]) /\ r \in Fractions
    BY EstimateOfLeaf
  <2>2. x \in DOMAIN query.tables
    BY <1>1, <1>3
  <2> HIDE DEF a, x
  <2>3. f[x] = r[1] /\ g[x] = r[2]
    BY <2>1, <2>2 DEF Numerators, Denominators
  <2>4. r = <<r[1], r[2]>> /\ r[1] \in Nat /\ r[2] \in Nat \ {0}
    <3> HIDE DEF r
    <3> QED BY <2>1 DEF Fractions
  <2> HIDE DEF r, f, g
  <2> QED BY <2>1, <2>3, <2>4 DEF a, r, x
<1>5. ASSUME NEW i \in 1 .. J
      PROVE  c(i) \in 1 .. m - 1 /\ h[c(i)] \in Nat \ {0}
             /\ h[c(i)] = Larger(query, table_stats, query.joins[c(i)])
  <2>1. c(i) \in DOMAIN query.joins
    BY <1>1, SidesOfJoin
  <2>2. Larger(query, table_stats, query.joins[c(i)]) \in Nat \ {0}
    BY LargerOfJoin
  <2> QED BY <1>2, <2>1, <2>2 DEF Largers
<1>6. \A i, k \in 1 .. J : c(i) = c(k) => i = k
  BY ConditionsDiffer
<1>7. \A k \in 0 .. J : \A s \in 1 .. k + 1 : s \in 1 .. m
  BY <1>1
<1> HIDE DEF f, g, h, c, J, m
<1>8. ASSUME NEW k \in 0 .. J
      PROVE  /\ \A x \in T(k) : f[x] \in Nat /\ g[x] \in Nat
             /\ \A x \in C(k) : h[x] \in Nat
             /\ Factor(f, T(k), m) \in Nat /\ Factor(g, T(k), m) \in Nat
             /\ Factor(h, C(k), m - 1) \in Nat
  <2>1. \A x \in T(k) : f[x] \in Nat /\ g[x] \in Nat
    BY <1>4, <1>7
  <2>2. \A x \in C(k) : h[x] \in Nat
    <3>1. \A i \in 1 .. k : i \in 1 .. J
      BY <1>1
    <3> QED BY <1>5, <3>1
  <2> HIDE DEF T, C
  <2> QED BY <1>1, <2>1, <2>2, FactorType
<1>9. ASSUME NEW k \in 0 .. J, k + 1 \in 0 .. J
      PROVE  /\ k + 1 \in 1 .. J /\ k + 2 \in 1 .. m
             /\ T(k + 1) = T(k) \cup {order[k + 2]} /\ order[k + 2] \notin T(k)
             /\ C(k + 1) = C(k) \cup {c(k + 1)} /\ c(k + 1) \notin C(k)
  <2>1. k + 1 \in 1 .. J /\ k + 2 \in 1 .. m
    BY <1>1, <1>9
  <2>2. 1 .. (k + 1) + 1 = (1 .. k + 1) \cup {k + 2} /\ 1 .. k + 1 = (1 .. k) \cup {k + 1}
    BY <1>1
  <2>3. /\ \A s \in 1 .. k + 1 : s # k + 2 /\ s \in 1 .. m
        /\ \A i \in 1 .. k : i # k + 1 /\ i \in 1 .. J
    BY <1>1
  <2>4. T(k + 1) = T(k) \cup {order[k + 2]} /\ C(k + 1) = C(k) \cup {c(k + 1)}
    BY <2>2
  <2>5. order[k + 2] \notin T(k)
    BY <1>3, <2>1, <2>3
  <2>6. c(k + 1) \notin C(k)
    BY <1>6, <2>1, <2>3
  <2> QED BY <2>1, <2>4, <2>5, <2>6
<1>10. 0 \in Good
  <2> DEFINE x == order[1]
  <2>1. 0 \in 0 .. J /\ 1 \in 1 .. m /\ J \in Nat
    BY <1>1
  <2>2. e(0) = NewEstimates[Access[1]]
    BY DEF Top
  <2>3. T(0) = {} \cup {x} /\ C(0) = {}
    <3>1. 1 .. 0 + 1 = {1} /\ 1 .. 0 = {}
      OBVIOUS
    <3> QED BY <3>1
  <2>4. x \in 1 .. m /\ f[x] \in Nat /\ g[x] \in Nat
    BY <1>3, <1>4, <2>1
  <2> DEFINE none == {}
  <2>5. none = {}
    OBVIOUS
  <2>6. e(0) \in Estimates /\ e(0).rows = <<f[x], g[x]>>
    BY <1>4, <2>1, <2>2
  <2> HIDE DEF x, none, T, C, e
  <2>7. Factor(f, none, m) = 1 /\ Factor(g, none, m) = 1
    BY <1>1, <2>5, FactorType
  <2>8. Factor(f, none \cup {x}, m) = Factor(f, none, m) * f[x]
        /\ Factor(g, none \cup {x}, m) = Factor(g, none, m) * g[x]
    BY <1>1, <2>4, <2>5, FactorWith
  <2>9. Factor(h, C(0), m - 1) = 1
    BY <1>1, <2>3, FactorType
  <2>10. T(0) = none \cup {x}
    BY <2>3, <2>5
  <2>11. Factor(f, T(0), m) = f[x] /\ Factor(g, T(0), m) = g[x]
    <3>1. 1 * f[x] = f[x] /\ 1 * g[x] = g[x]
      BY <2>4
    <3> QED BY <2>7, <2>8, <2>10, <3>1, Zenon
  <2>12. Factor(g, T(0), m) * Factor(h, C(0), m - 1) = g[x]
    BY <2>4, <2>9, <2>11
  <2> QED BY <2>6, <2>11, <2>12
<1>11. ASSUME NEW k \in Nat, k \in Good  PROVE k + 1 \in Good
  <2> DEFINE x == order[k + 2]
             y == c(k + 1)
  <2> SUFFICES ASSUME k + 1 \in 0 .. J
               PROVE  /\ e(k + 1) \in Estimates
                      /\ e(k + 1).rows = <<Factor(f, T(k + 1), m),
                                           Factor(g, T(k + 1), m) * Factor(h, C(k + 1), m - 1)>>
    OBVIOUS
  <2>1. k \in 0 .. J /\ (k + 1) - 1 = k /\ (k + 1) + 1 = k + 2
    BY <1>1
  <2>2. /\ e(k) \in Estimates
        /\ e(k).rows = <<Factor(f, T(k), m), Factor(g, T(k), m) * Factor(h, C(k), m - 1)>>
    BY <1>11, <2>1
  <2>3. /\ k + 1 \in 1 .. J /\ k + 2 \in 1 .. m
        /\ T(k + 1) = T(k) \cup {x} /\ x \notin T(k)
        /\ C(k + 1) = C(k) \cup {y} /\ y \notin C(k)
    BY <1>9, <2>1
  <2> DEFINE right == NewEstimates[Access[k + 2]]
  <2>4. right.rows = <<f[x], g[x]>> /\ f[x] \in Nat /\ g[x] \in Nat /\ x \in 1 .. m
    BY <1>3, <1>4, <2>3
  <2>5. y \in 1 .. m - 1 /\ h[y] \in Nat /\ h[y] = Larger(query, table_stats, query.joins[y])
    BY <1>5, <2>3
  <2>6. /\ e(k + 1) \in Estimates
        /\ e(k + 1).rows = Times(Times(e(k).rows, right.rows), <<1, h[y]>>)
    BY <2>1, <2>2, <2>3, <2>5, EstimateOfJoin DEF c, J
  <2>7. /\ \A z \in T(k) : f[z] \in Nat /\ g[z] \in Nat
        /\ \A z \in C(k) : h[z] \in Nat
        /\ Factor(f, T(k), m) \in Nat /\ Factor(g, T(k), m) \in Nat
        /\ Factor(h, C(k), m - 1) \in Nat
    BY <1>8, <2>1
  <2> HIDE DEF T, C, e, x, y, right
  <2>8. /\ Factor(f, T(k) \cup {x}, m) = Factor(f, T(k), m) * f[x]
        /\ Factor(g, T(k) \cup {x}, m) = Factor(g, T(k), m) * g[x]
    <3>1. \A z \in T(k) \cup {x} : f[z] \in Nat /\ g[z] \in Nat
      BY <2>4, <2>7
    <3> QED BY <1>1, <2>3, <2>4, <3>1, FactorWith
  <2>9. Factor(h, C(k) \cup {y}, m - 1) = Factor(h, C(k), m - 1) * h[y]
    <3>1. \A z \in C(k) \cup {y} : h[z] \in Nat
      BY <2>5, <2>7
    <3> QED BY <1>1, <2>3, <2>5, <3>1, FactorWith
  <2>10. Times(Times(e(k).rows, right.rows), <<1, h[y]>>)
           = <<Factor(f, T(k), m) * f[x],
               (Factor(g, T(k), m) * g[x]) * (Factor(h, C(k), m - 1) * h[y])>>
    <3> DEFINE F == Factor(f, T(k), m)
               G == Factor(g, T(k), m)
               H == Factor(h, C(k), m - 1)
               u == f[x]
               v == g[x]
               w == h[y]
    <3>1. F \in Nat /\ G \in Nat /\ H \in Nat /\ u \in Nat /\ v \in Nat /\ w \in Nat
      BY <2>4, <2>5, <2>7
    <3>2. e(k).rows = <<F, G * H>> /\ right.rows = <<u, v>>
      BY <2>2, <2>4
    <3> HIDE DEF F, G, H, u, v, w
    <3>3. Times(Times(<<F, G * H>>, <<u, v>>), <<1, w>>) = <<F * u, (G * v) * (H * w)>>
      <4>1. Times(Times(<<F, G * H>>, <<u, v>>), <<1, w>>) = <<(F * u) * 1, ((G * H) * v) * w>>
        BY DEF Times
      <4>2. (F * u) * 1 = F * u
        <5>1. F * u \in Nat
          BY <3>1, SMT
        <5> QED BY <5>1
      <4>3. ((G * H) * v) * w = (G * v) * (H * w)
        BY <3>1, SMT
      <4> QED BY <4>1, <4>2, <4>3
    <3>4. Times(Times(e(k).rows, right.rows), <<1, w>>) = <<F * u, (G * v) * (H * w)>>
      BY <3>2, <3>3, Zenon
    <3> QED BY <3>4 DEF F, G, H, u, v, w
  <2> QED BY <2>3, <2>6, <2>8, <2>9, <2>10
<1>12. j \in Nat /\ j \in 0 .. J
  BY <1>1 DEF J
<1>13. j \in Good
  <2> HIDE DEF Good
  <2> QED BY <1>10, <1>11, <1>12, NatSetInduction
<1> QED BY <1>2, <1>12, <1>13 DEF RowsOfJoin, f, g, h, c, m

-----------------------------------------------------------------------------
(* All tables and all conditions are in a complete tree.                   *)
LEMMA AllTables ==
  ASSUME PlanInv, Estimable, NEW order, Follows(order)
  PROVE  /\ {order[s] : s \in 1 .. Joined(Access) + 1} = DOMAIN query.tables
         /\ {FindJoinCondition(Access, i + 1) : i \in 1 .. Joined(Access)} = DOMAIN query.joins
<1> DEFINE m == Len(query.tables)
           J == Joined(Access)
           N == Len(nodes)
           f == Conditions(Complete, N + J + 1)
           c(i) == FindJoinCondition(Access, i + 1)
<1>1. m \in Nat \ {0} /\ DOMAIN query.tables = 1 .. m /\ J + 1 = m /\ trees # <<>>
  <2>1. J = m - 1 /\ trees # <<>>
    BY DEF Estimable
  <2>2. m \in Nat \ {0} /\ DOMAIN query.tables = 1 .. m
    BY <2>1, AccessFacts
  <2> QED BY <2>1, <2>2
<1>2. order \in [1 .. m -> 1 .. m] /\ IsInjective(order)
  BY DEF Follows
<1> HIDE DEF m
<1>3. {order[s] : s \in 1 .. m} = 1 .. m
  <2>1. IsFiniteSet(1 .. m)
    <3>1. 1 \in Int /\ m \in Int
      BY <1>1
    <3> QED BY <3>1, FS_Interval
  <2>2. order \in Injection(1 .. m, 1 .. m)
    BY <1>2 DEF Injection, IsInjective
  <2>3. order \in Surjection(1 .. m, 1 .. m)
    BY <2>1, <2>2, FS_Injection
  <2>4. \A x \in 1 .. m : \E s \in 1 .. m : order[s] = x
    BY <2>3 DEF Surjection
  <2> QED BY <1>2, <2>4
<1>4. DOMAIN f = N + 1 .. N + J
  BY <1>1, CompleteTree DEF Conditions
<1>5. /\ N \in Nat /\ J \in Nat
      /\ \A x \in 1 .. J : Complete[N + x].condition = c(x)
  BY <1>1, CompleteNodes, JoinsFacts
<1>6. Range(f) = DOMAIN query.joins
  BY CompleteConditions DEF Estimable
<1>7. ASSUME NEW x \in 1 .. J
      PROVE  N + x \in DOMAIN f /\ f[N + x] = c(x)
  <2>1. N + x \in N + 1 .. N + J
    BY <1>5
  <2>2. N + x \in JoinsIn(Complete, N + J + 1)
    BY <1>1, <2>1, CompleteTree
  <2>3. f[N + x] = Complete[N + x].condition
    BY <2>2 DEF Conditions
  <2> QED BY <1>4, <1>5, <2>1, <2>3
<1>8. ASSUME NEW n \in DOMAIN f
      PROVE  \E x \in 1 .. J : f[n] = c(x)
  <2>1. n - N \in 1 .. J /\ n = N + (n - N)
    <3> HIDE DEF f
    <3> QED BY <1>4, <1>5
  <2>2. f[N + (n - N)] = c(n - N)
    BY <1>7, <2>1
  <2> QED BY <2>1, <2>2
<1> HIDE DEF f, c, J
<1>9. {c(i) : i \in 1 .. J} = DOMAIN query.joins
  BY <1>6, <1>7, <1>8 DEF Range
<1> QED BY <1>1, <1>3, <1>9 DEF c, J

LEMMA OrderOfTree ==
  ASSUME PlanInv, Estimable
  PROVE  \E order : Follows(order)
BY AccessFacts DEF Estimable, Follows

(* The estimates of all nodes of the tree.                                 *)
LEMMA EstimatesOfTree ==
  ASSUME PlanInv, Estimable, NEW n \in Tree(Complete, Len(nodes) + Joined(Access) + 1)
  PROVE  LET N == Len(nodes)
             root == Len(nodes) + Joined(Access) + 1
         IN  /\ NewEstimates[n] \in Estimates
             /\ n \in 1 .. N =>
                  /\ IsScan(nodes[n])
                  /\ NewEstimates[n] = ScanEstimate(nodes[n], table_stats[nodes[n].table_name])
             /\ n \notin 1 .. N => ~IsScan(Complete[n])
             /\ n = root => NewEstimates[n].rows =
                  RowsOfJoin(query, table_stats, DOMAIN query.tables, DOMAIN query.joins)
<1> DEFINE N == Len(nodes)
           J == Joined(Access)
           m == Len(query.tables)
           root == N + J + 1
<1>1. PICK order : Follows(order)
  BY OrderOfTree
<1>2. trees # <<>> /\ J = m - 1 /\ m \in Nat \ {0}
  BY AccessFacts DEF Estimable
<1>3. /\ N \in Nat /\ J \in Nat /\ WellFormed(Complete) /\ DOMAIN Complete = 1 .. root
      /\ \A j \in 1 .. J : Complete[N + j] = Joins(trees[1])[j]
      /\ Complete[root] = ResultOperator(Access)
  BY <1>2, CompleteNodes
<1>4. Tree(Complete, root) = {Access[s] : s \in 1 .. J + 1} \cup (N + 1 .. root)
  BY <1>2, CompleteTree
<1> HIDE DEF N, J, m
<1>5. CASE n \in {Access[s] : s \in 1 .. J + 1}
  <2>1. PICK s \in 1 .. J + 1 : n = Access[s]
    BY <1>5
  <2>2. s \in 1 .. m
    BY <1>2
  <2>3. n \in 1 .. N /\ IsScan(nodes[n]) /\ n # root
    <3>1. n \in 1 .. N
      BY <2>1, <2>2, LeavesOfTree DEF N, m
    <3>2. IsScan(nodes[n])
      BY <1>1, <2>1, <2>2 DEF Follows, ScanOf, m
    <3> QED BY <1>3, <3>1, <3>2
  <2>4. /\ NewEstimates[n] = ScanEstimate(nodes[n], table_stats[nodes[n].table_name])
        /\ NewEstimates[n] \in Estimates
    BY <1>1, <2>1, <2>2, EstimateOfLeaf DEF m
  <2> QED BY <2>3, <2>4 DEF N, J
<1>6. CASE n \in N + 1 .. N + J
  <2>1. n - N \in 1 .. J /\ n = N + (n - N) /\ n # root /\ n \notin 1 .. N
    BY <1>3, <1>6
  <2> DEFINE j == n - N
  <2>2. j \in 1 .. J /\ n = N + j /\ j \in 0 .. J /\ j # 0
    BY <1>3, <2>1
  <2> HIDE DEF j
  <2>3. Top(Access, j) = n
    BY <1>2, <2>2, TopFacts DEF N, J
  <2>4. NewEstimates[n] \in Estimates
    BY <1>1, <2>2, <2>3, EstimateOfTop DEF J
  <2>5. ~IsScan(Complete[n])
    BY <1>2, <1>3, <2>2, JoinsFacts DEF J
  <2> QED BY <2>1, <2>4, <2>5 DEF N, J
<1>7. CASE n = root
  <2> DEFINE top == Top(Access, J)
             e == NewEstimates[top]
             ch == [i \in DOMAIN Complete[root].children |-> NewEstimates[Complete[root].children[i]]]
  <2>1. /\ ~IsJoin(Complete[root]) /\ ~IsScan(Complete[root])
        /\ Complete[root].children = <<top>>
    BY <1>3, ResultFacts DEF J
  <2>2. root \in DOMAIN Complete /\ root \notin 1 .. N /\ J \in 0 .. J
    BY <1>3
  <2>3. NewEstimates[root] = NodeEstimate(Complete, root, ch, query.joins, table_stats)
    <3> HIDE DEF root
    <3> QED BY <1>3, <2>2, EstimateOfNode DEF NewEstimates
  <2> HIDE DEF root, top
  <2>4. ch[1] = e
    <3>1. DOMAIN <<top>> = 1 .. 1
      OBVIOUS
    <3> QED BY <2>1, <3>1
  <2>5. NodeEstimate(Complete, root, ch, query.joins, table_stats) = ch[1]
    <3> HIDE DEF ch
    <3> QED BY <2>1 DEF NodeEstimate
  <2>6. /\ e \in Estimates
        /\ e.rows = RowsOfJoin(query, table_stats, {order[s] : s \in 1 .. J + 1},
                      {FindJoinCondition(Access, i + 1) : i \in 1 .. J})
    BY <1>1, <2>2, EstimateOfTop DEF J, top
  <2>7. /\ {order[s] : s \in 1 .. J + 1} = DOMAIN query.tables
        /\ {FindJoinCondition(Access, i + 1) : i \in 1 .. J} = DOMAIN query.joins
    BY <1>1, AllTables DEF J
  <2> HIDE DEF e, ch
  <2>8. NewEstimates[root] = e
    BY <2>3, <2>4, <2>5
  <2>9. e.rows = RowsOfJoin(query, table_stats, DOMAIN query.tables, DOMAIN query.joins)
    BY <2>6, <2>7
  <2> QED BY <1>7, <2>1, <2>2, <2>6, <2>8, <2>9 DEF N
<1>8. n \in {Access[s] : s \in 1 .. J + 1} \/ n \in N + 1 .. N + J \/ n = root
  <2>1. N + 1 .. root = (N + 1 .. N + J) \cup {root}
    BY <1>3
  <2>2. n \in Tree(Complete, root)
    BY DEF N, J
  <2> HIDE DEF root
  <2> QED BY <1>4, <2>1, <2>2
<1> QED BY <1>5, <1>6, <1>7, <1>8

(* What the estimator looks up, there is.                                  *)
LEMMA KnownColumns ==
  ASSUME PlanInv, Estimable
  PROVE  Known(query, table_stats)
<1>1. PICK order : Follows(order)
  BY OrderOfTree
<1>2. /\ DOMAIN query.tables = 1 .. Len(query.tables)
      /\ {order[s] : s \in 1 .. Joined(Access) + 1} = DOMAIN query.tables
      /\ {FindJoinCondition(Access, i + 1) : i \in 1 .. Joined(Access)} = DOMAIN query.joins
      /\ Joined(Access) + 1 = Len(query.tables)
  BY <1>1, AllTables, AccessFacts DEF Estimable
<1>3. ASSUME NEW t \in DOMAIN query.tables
      PROVE  /\ query.tables[t].name \in DOMAIN table_stats
             /\ \A p \in Range(PushedOf(query, query.tables[t])) :
                  p.column.name \in DOMAIN table_stats[query.tables[t].name].columns
  <2>1. PICK s \in 1 .. Len(query.tables) : t = order[s]
    BY <1>2
  <2>2. nodes[Access[s]].predicates = PushedOf(query, query.tables[t])
    BY <1>1, <2>1 DEF Follows, ScanOf
  <2> QED BY <1>1, <2>1, <2>2, StatisticsOfLeaves
<1>4. ASSUME NEW c \in DOMAIN query.joins,
             NEW column \in {query.joins[c].left, query.joins[c].right}
      PROVE  \E t \in DOMAIN query.tables :
               /\ query.tables[t].alias = column.table_alias
               /\ column.name \in DOMAIN table_stats[query.tables[t].name].columns
  <2>1. PICK j \in 1 .. Joined(Access) : c = FindJoinCondition(Access, j + 1)
    BY <1>2
  <2> QED BY <1>1, <2>1, DistinctOfJoin
<1> QED BY <1>3, <1>4 DEF Known

(* The tree, join by join.                                                 *)
LEMMA CompleteLeftDeep ==
  ASSUME PlanInv, Estimable
  PROVE  \E order : LeftDeep(query, Complete, Len(nodes) + Joined(Access) + 1, order, Access, Len(nodes))
<1> DEFINE m == Len(query.tables)
           N == Len(nodes)
           J == Joined(Access)
           root == N + J + 1
<1>1. PICK order : Follows(order)
  BY OrderOfTree
<1> DEFINE alias(t) == query.tables[order[t]].alias
<1>2. trees # <<>> /\ J = m - 1
  BY DEF Estimable
<1>3. /\ m \in Nat \ {0} /\ Access \in [1 .. m -> DOMAIN nodes] /\ DOMAIN query.tables = 1 .. m
  BY <1>2, AccessFacts
<1>4. /\ N \in Nat /\ DOMAIN Complete = 1 .. root
      /\ \A n \in 1 .. N : Complete[n] = nodes[n]
      /\ \A j \in 1 .. J : Complete[N + j] = Joins(trees[1])[j]
      /\ Complete[root] = ResultOperator(Access)
  BY <1>2, CompleteNodes
<1>5. DOMAIN nodes = 1 .. N
  BY ListFacts DEF PlanInv, WellFormed
<1>6. \A t \in 1 .. m : /\ Access[t] \in 1 .. N /\ Complete[Access[t]] = nodes[Access[t]]
                        /\ ScanOf(query, nodes[Access[t]], query.tables[order[t]])
                        /\ nodes[Access[t]].table_alias = alias(t)
  BY <1>1, <1>3, <1>4, <1>5 DEF Follows, ScanOf
<1>7. \A j \in 0 .. J : Top(Access, j) = TopOf(Access, N, j)
  BY DEF Top, TopOf
<1>8. ASSUME NEW j \in 1 .. m - 1
      PROVE  /\ Complete[N + j].operation \in Range(JOIN_OPERATIONS)
             /\ Complete[N + j].children = <<TopOf(Access, N, j - 1), Access[j + 1]>>
             /\ Complete[N + j].condition = FindJoinCondition(Access, j + 1)
             /\ FindJoinCondition(Access, j + 1) \in DOMAIN query.joins
             /\ Connects(query.joins[FindJoinCondition(Access, j + 1)],
                         {alias(s) : s \in 1 .. j}, alias(j + 1))
  <2>1. j \in 1 .. J /\ j + 1 \in 2 .. J + 1 /\ j - 1 \in 0 .. J /\ (j + 1) - 1 = j
        /\ j + 1 \in 1 .. m /\ \A s \in 1 .. j : s \in 1 .. m
    BY <1>2, <1>3
  <2>2. /\ Complete[N + j].operation \in Range(JOIN_OPERATIONS)
        /\ Complete[N + j].children = <<Top(Access, j - 1), Access[j + 1]>>
        /\ Complete[N + j].condition = FindJoinCondition(Access, j + 1)
    BY <1>2, <1>4, <2>1, JoinsFacts
  <2>3. FindJoinCondition(Access, j + 1) \in Connecting(Access, j + 1)
    BY <1>2, <2>1, JoinedFacts
  <2>4. {nodes[Access[s]].table_alias : s \in 1 .. (j + 1) - 1} = {alias(s) : s \in 1 .. j}
    <3>1. \A s \in 1 .. j : nodes[Access[s]].table_alias = alias(s)
      BY <1>6, <2>1
    <3>2. {nodes[Access[s]].table_alias : s \in 1 .. j} = {alias(s) : s \in 1 .. j}
      <4> HIDE DEF alias
      <4> QED BY <3>1
    <3> QED BY <2>1, <3>2
  <2>5. nodes[Access[j + 1]].table_alias = alias(j + 1)
    BY <1>6, <2>1
  <2> HIDE DEF alias, J
  <2> QED BY <1>7, <2>1, <2>2, <2>3, <2>4, <2>5 DEF Connecting
<1>9. \A c \in DOMAIN query.joins : \E j \in 1 .. m - 1 : Complete[N + j].condition = c
  <2>1. {FindJoinCondition(Access, i + 1) : i \in 1 .. J} = DOMAIN query.joins
    BY <1>1, AllTables
  <2> HIDE DEF J
  <2> QED BY <1>2, <1>8, <2>1
<1>10. /\ ~IsJoin(Complete[root]) /\ ~IsScan(Complete[root])
       /\ Complete[root].children = <<TopOf(Access, N, m - 1)>>
  <2>1. J \in 0 .. J
    BY <1>2, <1>3
  <2> QED BY <1>2, <1>4, <1>7, <2>1, ResultFacts
<1>11. /\ order \in [1 .. m -> 1 .. m] /\ IsInjective(order)
  BY <1>1 DEF Follows
<1>12. Access \in [1 .. m -> 1 .. N] /\ root = N + m /\ root \in DOMAIN Complete
  BY <1>2, <1>3, <1>4, <1>5
<1>13. \A t \in 1 .. m : ScanOf(query, Complete[Access[t]], query.tables[order[t]])
  BY <1>6
<1> HIDE DEF m, N, J, root
<1>14. LeftDeep(query, Complete, root, order, Access, N)
  BY <1>4, <1>8, <1>9, <1>10, <1>11, <1>12, <1>13 DEF LeftDeep, m
<1> QED BY <1>14 DEF root, N, J

LEMMA SameScanEstimate ==
  ASSUME NEW r, IsNode(r), NEW e, NEW s
  PROVE  ScanEstimate([r EXCEPT !.estimate = e], s) = ScanEstimate(r, s)
<1> DEFINE q == [r EXCEPT !.estimate = e]
<1>1. /\ q.operation = r.operation /\ q.table_name = r.table_name
      /\ q.predicates = r.predicates /\ q.index_column = r.index_column
  BY EstimatedFields
<1> HIDE DEF q
<1>2. ScanEstimate(q, s) = ScanEstimate(r, s)
  BY <1>1 DEF ScanEstimate
<1> QED BY <1>2 DEF q

(* The tree is estimated, and its root is a plan.                          *)
LEMMA EstimatedTree ==
  ASSUME PlanInv, Estimable
  PROVE  LET root == Len(Complete)
             ms == Estimate(Complete, root, query.joins, table_stats)
         IN  /\ WellFormed(ms) /\ Grown(table_stats, ms, nodes)
             /\ \A n \in DOMAIN ms : NodeOK(table_stats, ms[n])
             /\ IsPlan(query, table_stats, ms, root)
<1> DEFINE N == Len(nodes)
           J == Joined(Access)
           root == N + J + 1
           ms == Estimate(Complete, root, query.joins, table_stats)
           tree == Tree(Complete, root)
<1>1. trees # <<>>
  BY DEF Estimable
<1>2. /\ N \in Nat /\ J \in Nat /\ Len(Complete) = root /\ DOMAIN Complete = 1 .. root
      /\ WellFormed(Complete) /\ \A n \in DOMAIN Complete : NodeOK(table_stats, Complete[n])
      /\ \A n \in 1 .. N : Complete[n] = nodes[n]
      /\ Complete[root] = ResultOperator(Access)
  BY <1>1, CompleteNodes
<1>3. ms = [n \in DOMAIN Complete |->
             IF n \in tree THEN [Complete[n] EXCEPT !.estimate = NewEstimates[n]]
                           ELSE Complete[n]]
  BY EstimateIs DEF NewEstimates
<1>4. ASSUME NEW n \in tree
      PROVE  /\ NewEstimates[n] \in Estimates
             /\ n \in 1 .. N =>
                  /\ IsScan(nodes[n])
                  /\ NewEstimates[n] = ScanEstimate(nodes[n], table_stats[nodes[n].table_name])
             /\ n \notin 1 .. N => ~IsScan(Complete[n])
             /\ n = root => NewEstimates[n].rows =
                  RowsOfJoin(query, table_stats, DOMAIN query.tables, DOMAIN query.joins)
  BY EstimatesOfTree
<1>5. root \in tree /\ root \in DOMAIN Complete
  <2>1. root \in DOMAIN Complete
    BY <1>2
  <2> HIDE DEF root
  <2> QED BY <1>2, <2>1, PostOrderFacts
<1>6. DOMAIN nodes = 1 .. N
  BY ListFacts DEF PlanInv, WellFormed
<1> HIDE DEF N, J, root, tree, ms
<1>7. ASSUME NEW n \in 1 .. root
      PROVE  /\ IsNode(ms[n]) /\ ms[n].children = Complete[n].children
             /\ ms[n].operation = Complete[n].operation
             /\ ms[n].condition = Complete[n].condition
             /\ ms[n].estimate = IF n \in tree THEN NewEstimates[n] ELSE Complete[n].estimate
             /\ NodeOK(table_stats, ms[n])
  <2>1. NodeOK(table_stats, Complete[n]) /\ IsNode(Complete[n])
    BY <1>2 DEF NodeOK
  <2>2. CASE n \notin tree
    <3>1. ms[n] = Complete[n]
      BY <1>2, <1>3, <2>2
    <3> QED BY <2>1, <2>2, <3>1
  <2>3. CASE n \in tree
    <3> DEFINE r == Complete[n]
               e == NewEstimates[n]
               q == [r EXCEPT !.estimate = e]
    <3>1. ms[n] = q
      BY <1>2, <1>3, <2>3
    <3>2. /\ IsNode(q) /\ q.operation = r.operation /\ q.children = r.children
          /\ q.table_name = r.table_name /\ q.condition = r.condition /\ q.estimate = e
      BY <2>1, EstimatedFields
    <3>3. e \in Estimates
      BY <1>4, <2>3
    <3>4. \A s : ScanEstimate(q, s) = ScanEstimate(r, s)
      BY <2>1, SameScanEstimate
    <3>5. IsScan(r) => e = ScanEstimate(r, table_stats[r.table_name])
      <4>1. CASE n \in 1 .. N
        <5>1. r = nodes[n]
          BY <1>2, <4>1
        <5> HIDE DEF r, e
        <5>2. e = ScanEstimate(r, table_stats[r.table_name])
          BY <1>4, <2>3, <4>1, <5>1 DEF e
        <5> QED BY <5>2
      <4>2. CASE n \notin 1 .. N
        BY <1>4, <2>3, <4>2
      <4> QED BY <4>1, <4>2
    <3> HIDE DEF q, r, e
    <3>6. NodeOK(table_stats, q)
      <4>1. IsScan(q) => q.estimate = ScanEstimate(q, table_stats[q.table_name])
        BY <3>2, <3>4, <3>5 DEF IsScan
      <4> QED BY <3>2, <3>3, <4>1 DEF NodeOK
    <3> QED BY <2>3, <3>1, <3>2, <3>6 DEF r, e
  <2> QED BY <2>2, <2>3
<1>8. IsList(ms) /\ DOMAIN ms = 1 .. root
  <2>1. ms = [n \in 1 .. root |-> ms[n]]
    BY <1>2, <1>3
  <2>2. root \in Nat
    BY <1>2 DEF root
  <2> QED BY <2>1, <2>2, ListWith
<1>9. WellFormed(ms)
  BY <1>2, <1>7, <1>8 DEF WellFormed
<1>10. Grown(table_stats, ms, nodes)
  <2>1. \A n \in 1 .. N : n \in 1 .. root
    BY <1>2 DEF root
  <2>2. ASSUME NEW n \in 1 .. N
        PROVE  \/ ms[n] = nodes[n]
               \/ /\ IsScan(nodes[n])
                  /\ ms[n] = [nodes[n] EXCEPT !.estimate =
                                ScanEstimate(nodes[n], table_stats[nodes[n].table_name])]
    <3>1. n \in DOMAIN Complete /\ Complete[n] = nodes[n]
      BY <1>2, <2>1
    <3>2. CASE n \notin tree
      BY <1>3, <3>1, <3>2
    <3>3. CASE n \in tree
      <4>1. ms[n] = [nodes[n] EXCEPT !.estimate = NewEstimates[n]]
        BY <1>3, <3>1, <3>3
      <4> QED BY <1>4, <3>3, <4>1
    <3> QED BY <3>2, <3>3
  <2> QED BY <1>6, <1>8, <2>1, <2>2 DEF Grown
<1>11. IsPlan(query, table_stats, ms, root)
  <2>1. Extends(ms, Complete)
    BY <1>2, <1>7, <1>8 DEF Extends
  <2>2. Tree(ms, root) = tree
    BY <1>2, <1>5, <1>9, <2>1, PostOrderStable DEF tree
  <2>3. tree \subseteq 1 .. root
    BY <1>2, <1>5, PostOrderFacts DEF tree
  <2>4. JoinsIn(ms, root) = JoinsIn(Complete, root)
    BY <1>7, <2>2, <2>3 DEF JoinsIn, IsJoin, tree
  <2>5. JoinsIn(Complete, root) \subseteq 1 .. root
    BY <2>3 DEF JoinsIn, tree
  <2>6. Conditions(ms, root) = Conditions(Complete, root)
    BY <1>7, <2>4, <2>5 DEF Conditions
  <2>7. /\ IsInjective(Conditions(Complete, root))
        /\ Range(Conditions(Complete, root)) = DOMAIN query.joins
    BY <1>1, CompleteConditions DEF Estimable, root, N, J
  <2>8. ms[root].estimate.rows
          = RowsOfJoin(query, table_stats, DOMAIN query.tables, DOMAIN query.joins)
    <3>1. root \in 1 .. root
      BY <1>2, <1>5
    <3>2. ms[root].estimate = NewEstimates[root]
      BY <1>5, <1>7, <3>1
    <3> QED BY <1>4, <1>5, <3>2
  <2>9. root \in DOMAIN ms /\ ~IsScan(ms[root])
    <3>1. root \in 1 .. root
      BY <1>2, <1>5
    <3>2. ms[root].operation = Complete[root].operation
      BY <1>7, <3>1
    <3>3. ~IsScan(Complete[root])
      BY <1>2, ResultFacts
    <3> QED BY <1>8, <3>1, <3>2, <3>3 DEF IsScan
  <2>10. PICK order : LeftDeep(query, Complete, root, order, Access, N)
    BY <1>1, CompleteLeftDeep DEF root, N, J
  <2>11. LeftDeep(query, ms, root, order, Access, N)
    <3>1. \A n \in 1 .. root :
            ms[n].table_name = Complete[n].table_name /\ ms[n].table_alias = Complete[n].table_alias
            /\ ms[n].predicates = Complete[n].predicates
            /\ ms[n].index_column = Complete[n].index_column
      <4> SUFFICES ASSUME NEW n \in 1 .. root
                   PROVE  /\ ms[n].table_name = Complete[n].table_name
                          /\ ms[n].table_alias = Complete[n].table_alias
                          /\ ms[n].predicates = Complete[n].predicates
                          /\ ms[n].index_column = Complete[n].index_column
        OBVIOUS
      <4>1. IsNode(Complete[n])
        BY <1>2 DEF NodeOK
      <4>2. CASE n \notin tree
        <5>1. ms[n] = Complete[n]
          BY <1>2, <1>3, <4>2
        <5> QED BY <5>1
      <4>3. CASE n \in tree
        <5>1. ms[n] = [Complete[n] EXCEPT !.estimate = NewEstimates[n]]
          BY <1>2, <1>3, <4>3
        <5> QED BY <4>1, <5>1, EstimatedFields
      <4> QED BY <4>2, <4>3
    <3>2. SameFields(ms, Complete)
      BY <1>2, <1>7, <1>8, <3>1 DEF SameFields
    <3>3. Len(query.tables) \in Nat
      BY <1>1, AccessFacts
    <3>4. IsList(Complete)
      BY <1>2 DEF WellFormed
    <3> QED BY <2>10, <3>2, <3>3, <3>4, LeftDeepStable
  <2>12. Known(query, table_stats)
    BY KnownColumns
  <2> QED BY <2>6, <2>7, <2>8, <2>9, <2>11, <2>12 DEF IsPlan
<1> QED BY <1>2, <1>7, <1>8, <1>9, <1>10, <1>11 DEF ms

-----------------------------------------------------------------------------
(* Building a tree keeps the invariant.                                    *)
LEMMA BuildTreeStep ==
  ASSUME PlanInv, BuildTree
  PROVE  /\ Grown(table_stats, nodes', nodes) /\ WellFormed(nodes')
         /\ \A n \in DOMAIN nodes' : NodeOK(table_stats, nodes'[n])
         /\ IsList(trees') /\ Range(trees') \subseteq Range(trees)
         /\ IsList(candidates')
         /\ \A root \in Range(candidates') :
              root \in Range(candidates) \/ IsPlan(query, table_stats, nodes', root)
<1> DEFINE J == Joined(Access)
           m == Len(query.tables)
           root == Len(Complete)
           can == CanEstimate(Complete, root, query.joins, table_stats)
           ms == Estimate(Complete, root, query.joins, table_stats)
<1>1. trees # <<>> /\ IsList(trees) /\ IsList(candidates)
  BY DEF BuildTree, PlanInv
<1>2. m \in Nat \ {0} /\ Len(Access) = m /\ J \in 0 .. m - 1 /\ root = Len(nodes) + J + 1
  BY <1>1, AccessFacts, JoinedFacts, CompleteNodes
<1>3. IsList(trees') /\ Range(trees') \subseteq Range(trees)
  <2>1. trees' = Tail(trees)
    BY DEF BuildTree, TreesAfter
  <2> QED BY <1>1, <2>1, TailList
<1>4. IF J < Len(Access) - 1
      THEN nodes' = nodes \o Joins(trees[1]) /\ candidates' = candidates
      ELSE IF can
      THEN nodes' = ms /\ candidates' = Append(candidates, root)
      ELSE nodes' = nodes /\ candidates' = candidates
  BY DEF BuildTree, Access, Complete
<1>5. CASE J < Len(Access) - 1
  <2>1. nodes' = nodes \o Joins(trees[1]) /\ candidates' = candidates
    BY <1>4, <1>5
  <2>2. LET u == nodes \o Joins(trees[1])
        IN  /\ WellFormed(u) /\ Grown(table_stats, u, nodes)
            /\ \A n \in DOMAIN u : NodeOK(table_stats, u[n])
    BY <1>1, BuiltNodes
  <2> QED BY <1>1, <1>3, <2>1, <2>2
<1>6. CASE ~(J < Len(Access) - 1) /\ can
  <2>1. nodes' = ms /\ candidates' = Append(candidates, root)
    BY <1>4, <1>6
  <2>2. Estimable
    BY <1>1, <1>2, <1>6 DEF Estimable
  <2>3. /\ WellFormed(ms) /\ Grown(table_stats, ms, nodes)
        /\ \A n \in DOMAIN ms : NodeOK(table_stats, ms[n])
        /\ IsPlan(query, table_stats, ms, root)
    BY <2>2, EstimatedTree
  <2> HIDE DEF ms, root
  <2>4. IsList(candidates') /\ Range(candidates') = Range(candidates) \cup {root}
    BY <1>1, <2>1, AppendList
  <2> QED BY <1>3, <2>1, <2>3, <2>4
<1>7. CASE ~(J < Len(Access) - 1) /\ ~can
  <2>1. nodes' = nodes /\ candidates' = candidates
    BY <1>4, <1>7
  <2>2. Grown(table_stats, nodes, nodes)
    BY DEF Grown
  <2>3. WellFormed(nodes) /\ \A n \in DOMAIN nodes : NodeOK(table_stats, nodes[n])
    BY DEF PlanInv
  <2> QED BY <1>1, <1>3, <2>1, <2>2, <2>3
<1> QED BY <1>5, <1>6, <1>7

-----------------------------------------------------------------------------
(* The invariant, and what follows from it.                                *)
LEMMA PlanInvInit == PlanInit => PlanInv
<1> SUFFICES ASSUME PlanInit PROVE PlanInv
  OBVIOUS
<1>1. IsList(<<>>) /\ DOMAIN <<>> = {} /\ Range(<<>>) = {}
  BY DEF IsList, Range
<1>2. /\ query \in Queries /\ table_stats \in Catalogs /\ orders = TableOrders(query.tables)
      /\ nodes = <<>> /\ trees = <<>> /\ candidates = <<>>
  BY DEF PlanInit, NothingPlanned
<1>3. WellFormed(<<>>)
  BY <1>1 DEF WellFormed
<1> QED BY <1>1, <1>2, <1>3 DEF PlanInv

LEMMA NodesOnlyGrow ==
  ASSUME PlanInv, [PlanNext \/ Planned]_planVars
  PROVE  Grown(table_stats, nodes', nodes)
<1>1. CASE TryOrder
  BY <1>1, TryOrderStep
<1>2. CASE BuildTree
  BY <1>2, BuildTreeStep
<1>3. ASSUME nodes' = nodes  PROVE Grown(table_stats, nodes', nodes)
  BY <1>3 DEF Grown
<1>4. CASE Rank
  BY <1>3, <1>4 DEF Rank
<1>5. CASE UNCHANGED planVars
  BY <1>3, <1>5 DEF planVars
<1> QED BY <1>1, <1>2, <1>4, <1>5 DEF PlanNext, Planned

LEMMA PlanInvNext == PlanInv /\ [PlanNext \/ Planned]_planVars => PlanInv'
<1> SUFFICES ASSUME PlanInv, [PlanNext \/ Planned]_planVars PROVE PlanInv'
  OBVIOUS
<1>1. /\ WellFormed(nodes) /\ \A n \in DOMAIN nodes : NodeOK(table_stats, nodes[n])
      /\ \A n \in DOMAIN nodes : IsNode(nodes[n])
  BY DEF PlanInv, NodeOK
<1>2. Grown(table_stats, nodes', nodes)
  BY NodesOnlyGrow
<1>3. ASSUME WellFormed(nodes')
      PROVE  \A root \in Range(candidates) : IsPlan(query, table_stats, nodes', root)
  <2> TAKE root \in Range(candidates)
  <2>1. IsPlan(query, table_stats, nodes, root)
    BY DEF PlanInv
  <2>2. Len(query.tables) \in Nat
    BY QueryFacts DEF PlanInv
  <2> QED BY <1>1, <1>2, <1>3, <2>1, <2>2, GrownPlan
<1>4. \A tree \in Range(trees) : TreeOver(query, nodes', tree)
  <2> TAKE tree \in Range(trees)
  <2>1. TreeOver(query, nodes, tree)
    BY DEF PlanInv
  <2> QED BY <1>1, <1>2, <2>1, GrownTree
<1>5. CASE TryOrder
  <2>1. query' = query /\ table_stats' = table_stats /\ candidates' = candidates
    BY <1>5 DEF TryOrder
  <2>2. /\ WellFormed(nodes') /\ \A n \in DOMAIN nodes' : NodeOK(table_stats, nodes'[n])
        /\ IsList(trees') /\ \A tree \in Range(trees') : TreeOver(query, nodes', tree)
        /\ orders' \subseteq TableOrders(query.tables)
    BY <1>5, TryOrderStep
  <2>3. query \in Queries /\ table_stats \in Catalogs /\ IsList(candidates)
    BY DEF PlanInv
  <2> QED BY <1>3, <2>1, <2>2, <2>3 DEF PlanInv
<1>6. CASE BuildTree
  <2>1. query' = query /\ table_stats' = table_stats /\ orders' = orders
    BY <1>6 DEF BuildTree
  <2>2. /\ WellFormed(nodes') /\ \A n \in DOMAIN nodes' : NodeOK(table_stats, nodes'[n])
        /\ IsList(trees') /\ Range(trees') \subseteq Range(trees)
        /\ IsList(candidates')
        /\ \A root \in Range(candidates') :
             root \in Range(candidates) \/ IsPlan(query, table_stats, nodes', root)
    BY <1>6, BuildTreeStep
  <2>3. query \in Queries /\ table_stats \in Catalogs /\ orders \subseteq TableOrders(query.tables)
    BY DEF PlanInv
  <2>4. \A tree \in Range(trees') : TreeOver(query, nodes', tree)
    BY <1>4, <2>2
  <2>5. \A root \in Range(candidates') : IsPlan(query, table_stats, nodes', root)
    BY <1>3, <2>2
  <2> QED BY <2>1, <2>2, <2>3, <2>4, <2>5 DEF PlanInv
<1>7. CASE Rank
  <2>1. /\ query' = query /\ table_stats' = table_stats /\ orders' = orders
        /\ nodes' = nodes /\ trees' = trees
    BY <1>7 DEF Rank
  <2>2. IsList(candidates') /\ Range(candidates') = Range(candidates)
    BY <1>7, RankStep
  <2> QED BY <2>1, <2>2 DEF PlanInv
<1>8. CASE UNCHANGED planVars
  BY <1>8 DEF planVars, PlanInv
<1> QED BY <1>5, <1>6, <1>7, <1>8 DEF PlanNext, Planned

(* In every reachable state the nodes form trees, every estimated scan has *)
(* the estimate of its table and predicates, every tree to be built takes  *)
(* one access node of each table, and every candidate is a plan of the     *)
(* whole query with the rows of the whole query: the inductive invariant   *)
(* of generate.                                                            *)
THEOREM PlanInvariant == PlanSpec => []PlanInv
BY PlanInvInit, PlanInvNext, PTL DEF PlanSpec

LEMMA RootsOfPlans ==
  ASSUME PlanInv, NEW c \in DOMAIN candidates
  PROVE  IsPlan(query, table_stats, nodes, candidates[c])
<1>1. candidates[c] \in Range(candidates)
  BY DEF Range
<1> QED BY <1>1 DEF PlanInv

(* Every plan generate returns joins by all conditions of the query, each  *)
(* once, although _build_join_tree only looks for the first that fits.     *)
THEOREM PlansApplyEveryCondition == PlanSpec => []EveryConditionApplied
<1>1. PlanInv => EveryConditionApplied
  <2> SUFFICES ASSUME PlanInv, NEW c \in DOMAIN candidates
               PROVE  LET conditions == [n \in JoinNodes(candidates[c]) |-> nodes[n].condition]
                      IN  IsInjective(conditions) /\ Range(conditions) = DOMAIN query.joins
    BY DEF EveryConditionApplied
  <2> DEFINE root == candidates[c]
  <2>1. IsPlan(query, table_stats, nodes, root)
    BY RootsOfPlans
  <2> HIDE DEF root
  <2>2. JoinNodes(root) = JoinsIn(nodes, root)
    BY DEF JoinNodes, JoinsIn, Tree, ToSet, Range
  <2>3. [n \in JoinNodes(root) |-> nodes[n].condition] = Conditions(nodes, root)
    BY <2>2 DEF Conditions
  <2> QED BY <2>1, <2>3 DEF IsPlan, root
<1> QED BY <1>1, PlanInvariant, PTL

(* All plans of a query are estimated to return the same number of rows:   *)
(* _estimate_join does not see the order of the tables.                    *)
THEOREM PlansAgreeOnRows == PlanSpec => []EstimatedRowsSameForEveryPlan
<1>1. PlanInv => EstimatedRowsSameForEveryPlan
  <2> SUFFICES ASSUME PlanInv, NEW c \in DOMAIN candidates, NEW d \in DOMAIN candidates
               PROVE  SameAs(nodes[candidates[c]].estimate.rows, nodes[candidates[d]].estimate.rows)
    BY DEF EstimatedRowsSameForEveryPlan
  <2> DEFINE x == nodes[candidates[c]].estimate.rows
             y == nodes[candidates[d]].estimate.rows
             r == RowsOfJoin(query, table_stats, DOMAIN query.tables, DOMAIN query.joins)
  <2>1. x = r /\ y = r
    BY RootsOfPlans DEF IsPlan
  <2> HIDE DEF x, y, r
  <2>2. SameAs(x, y)
    BY <2>1 DEF SameAs
  <2> QED BY <2>2 DEF x, y
<1> QED BY <1>1, PlanInvariant, PTL

(* What estimate writes into a node that trees share is what it wrote      *)
(* there for an earlier tree.                                              *)
THEOREM EstimatesOfNodesAreKept == PlanSpec => SharedNodesKeepTheirEstimates
<1> DEFINE Kept == \A n \in DOMAIN nodes :
             nodes[n].estimate # NotEstimated => nodes'[n].estimate = nodes[n].estimate
<1>1. PlanInv /\ [PlanNext \/ Planned]_planVars => [Kept]_planVars
  <2> SUFFICES ASSUME PlanInv, [PlanNext \/ Planned]_planVars,
                      NEW n \in DOMAIN nodes, nodes[n].estimate # NotEstimated
               PROVE  nodes'[n].estimate = nodes[n].estimate
    OBVIOUS
  <2>1. Grown(table_stats, nodes', nodes)
    BY NodesOnlyGrow
  <2>2. NodeOK(table_stats, nodes[n]) /\ IsNode(nodes[n])
    BY DEF PlanInv, NodeOK
  <2>3. CASE nodes'[n] = nodes[n]
    BY <2>3
  <2>4. CASE /\ IsScan(nodes[n])
             /\ nodes'[n] = [nodes[n] EXCEPT !.estimate =
                               ScanEstimate(nodes[n], table_stats[nodes[n].table_name])]
    <3> DEFINE r == nodes[n]
               e == ScanEstimate(r, table_stats[r.table_name])
    <3>1. r.estimate = e
      BY <2>2, <2>4 DEF NodeOK
    <3>2. nodes'[n] = [r EXCEPT !.estimate = e]
      BY <2>4
    <3> HIDE DEF e, r
    <3>3. IsNode(r)
      BY <2>2 DEF r
    <3>4. nodes'[n].estimate = e
      BY <3>2, <3>3, EstimatedFields
    <3> QED BY <3>1, <3>4 DEF r
  <2> QED BY <2>1, <2>3, <2>4 DEF Grown
<1> QED BY <1>1, PlanInvariant, PTL DEF PlanSpec, SharedNodesKeepTheirEstimates

-----------------------------------------------------------------------------
(* A plan is a left-deep tree.                                             *)
PlanShape(ns, plan, m, access, base) ==
  /\ m \in Nat \ {0} /\ base \in Nat /\ plan = base + m /\ plan \in DOMAIN ns
  /\ DOMAIN ns = 1 .. Len(ns) /\ Len(ns) \in Nat /\ 1 .. base + m \subseteq DOMAIN ns
  /\ \A t \in 1 .. m : /\ access[t] \in 1 .. base /\ access[t] \in DOMAIN ns
                       /\ IsScan(ns[access[t]]) /\ ns[access[t]].children = <<>>
  /\ \A j \in 1 .. m - 1 :
       /\ base + j \in DOMAIN ns /\ IsJoin(ns[base + j])
       /\ ns[base + j].children = <<TopOf(access, base, j - 1), access[j + 1]>>
  /\ ~IsJoin(ns[plan]) /\ ~IsScan(ns[plan])
  /\ ns[plan].children = <<TopOf(access, base, m - 1)>>

LEMMA PlanFacts ==
  ASSUME NEW q, NEW ns, WellFormed(ns), Len(q.tables) \in Nat \ {0},
         NEW plan, NEW order, NEW access, NEW base, LeftDeep(q, ns, plan, order, access, base)
  PROVE  PlanShape(ns, plan, Len(q.tables), access, base)
<1> DEFINE m == Len(q.tables)
<1>1. /\ m \in Nat \ {0} /\ base \in Nat /\ plan = base + m /\ plan \in DOMAIN ns
      /\ access \in [1 .. m -> 1 .. base]
      /\ ~IsJoin(ns[plan]) /\ ~IsScan(ns[plan])
      /\ ns[plan].children = <<TopOf(access, base, m - 1)>>
  BY DEF LeftDeep
<1>2. DOMAIN ns = 1 .. Len(ns) /\ Len(ns) \in Nat
  BY ListFacts DEF WellFormed
<1> HIDE DEF m
<1>3. 1 .. base + m \subseteq DOMAIN ns
  BY <1>1, <1>2
<1>4. ASSUME NEW t \in 1 .. m
      PROVE  /\ access[t] \in 1 .. base /\ access[t] \in DOMAIN ns
             /\ IsScan(ns[access[t]]) /\ ns[access[t]].children = <<>>
  <2>1. access[t] \in 1 .. base
    BY <1>1
  <2>2. access[t] \in DOMAIN ns
    BY <1>1, <1>3, <2>1
  <2>3. ScanOf(q, ns[access[t]], q.tables[order[t]])
    BY DEF LeftDeep, m
  <2> QED BY <2>1, <2>2, <2>3 DEF ScanOf
<1>5. ASSUME NEW j \in 1 .. m - 1
      PROVE  /\ base + j \in DOMAIN ns /\ IsJoin(ns[base + j])
             /\ ns[base + j].children = <<TopOf(access, base, j - 1), access[j + 1]>>
  <2>1. base + j \in DOMAIN ns
    BY <1>1, <1>3
  <2>2. /\ ns[base + j].operation \in Range(JOIN_OPERATIONS)
        /\ ns[base + j].children = <<TopOf(access, base, j - 1), access[j + 1]>>
    BY DEF LeftDeep, m
  <2>3. Range(JOIN_OPERATIONS) = {"hash_join", "block_nested_loop_join", "sort_merge_join", "nested_loop_join"}
    BY DEF JOIN_OPERATIONS, Range
  <2> QED BY <2>1, <2>2, <2>3 DEF IsJoin
<1> QED BY <1>1, <1>2, <1>3, <1>4, <1>5 DEF PlanShape, m

LEMMA TreeOfPlan ==
  ASSUME NEW q, NEW ns, WellFormed(ns), Len(q.tables) \in Nat \ {0},
         NEW plan, NEW order, NEW access, NEW base, LeftDeep(q, ns, plan, order, access, base)
  PROVE  LET m == Len(q.tables)
         IN  /\ \A j \in 0 .. m - 1 : Tree(ns, TopOf(access, base, j))
                  = {access[s] : s \in 1 .. j + 1} \cup (base + 1 .. base + j)
             /\ Tree(ns, plan) = {access[s] : s \in 1 .. m} \cup (base + 1 .. base + m)
<1> DEFINE m == Len(q.tables)
           top(k) == TopOf(access, base, k)
           T(k) == {access[s] : s \in 1 .. k + 1} \cup (base + 1 .. base + k)
           Good == {k \in Nat : k \in 0 .. m - 1 => Tree(ns, top(k)) = T(k)}
<1> HIDE DEF m
<1>1. /\ m \in Nat \ {0} /\ base \in Nat /\ plan = base + m /\ plan \in DOMAIN ns
      /\ \A t \in 1 .. m : access[t] \in DOMAIN ns /\ ns[access[t]].children = <<>>
      /\ \A j \in 1 .. m - 1 :
           base + j \in DOMAIN ns /\ ns[base + j].children = <<top(j - 1), access[j + 1]>>
      /\ ns[plan].children = <<top(m - 1)>>
  <2>1. PlanShape(ns, plan, m, access, base)
    BY PlanFacts DEF m
  <2> QED BY <2>1 DEF PlanShape
<1>2. \A t \in 1 .. m : Tree(ns, access[t]) = {access[t]}
  BY <1>1, TreeFromChildren
<1>3. 0 \in Good
  <2>1. top(0) = access[1] /\ 1 \in 1 .. m
    BY <1>1 DEF TopOf
  <2>2. 1 .. 0 + 1 = {1} /\ base + 1 .. base + 0 = {}
    BY <1>1
  <2>3. T(0) = {access[1]}
    BY <2>2
  <2> QED BY <1>2, <2>1, <2>3
<1>4. ASSUME NEW k \in Nat, k \in Good  PROVE k + 1 \in Good
  <2> SUFFICES ASSUME k + 1 \in 0 .. m - 1  PROVE Tree(ns, top(k + 1)) = T(k + 1)
    OBVIOUS
  <2>1. k \in 0 .. m - 1 /\ k + 1 \in 1 .. m - 1 /\ (k + 1) - 1 = k /\ (k + 1) + 1 \in 1 .. m
    BY <1>1
  <2>2. Tree(ns, top(k)) = T(k)
    BY <1>4, <2>1
  <2>3. top(k + 1) = base + (k + 1)
    BY <2>1 DEF TopOf
  <2>4. base + (k + 1) \in DOMAIN ns
    BY <1>1, <2>1
  <2>5. ns[base + (k + 1)].children = <<top(k), access[(k + 1) + 1]>>
    BY <1>1, <2>1
  <2>6. Tree(ns, base + (k + 1)) = {base + (k + 1)} \cup T(k) \cup {access[(k + 1) + 1]}
    <3>1. Tree(ns, access[(k + 1) + 1]) = {access[(k + 1) + 1]}
      BY <1>2, <2>1
    <3> HIDE DEF T, top
    <3> QED BY <2>2, <2>4, <2>5, <3>1, TreeFromChildren
  <2>7. 1 .. (k + 1) + 1 = (1 .. k + 1) \cup {(k + 1) + 1}
    OBVIOUS
  <2>8. base + 1 .. base + (k + 1) = (base + 1 .. base + k) \cup {base + (k + 1)}
    BY <1>1
  <2>9. {access[s] : s \in 1 .. (k + 1) + 1} = {access[s] : s \in 1 .. k + 1} \cup {access[(k + 1) + 1]}
    BY <2>7
  <2> QED BY <2>3, <2>6, <2>8, <2>9
<1>5. \A k \in 0 .. m - 1 : Tree(ns, top(k)) = T(k)
  <2>1. Nat \subseteq Good
    <3> HIDE DEF Good
    <3> QED BY <1>3, <1>4, NatSetInduction
  <2>2. \A k \in 0 .. m - 1 : k \in Good
    <3> HIDE DEF Good
    <3> QED BY <1>1, <2>1
  <2> QED BY <2>2
<1>6. Tree(ns, plan) = {access[s] : s \in 1 .. m} \cup (base + 1 .. base + m)
  <2>1. m - 1 \in 0 .. m - 1 /\ (m - 1) + 1 = m
    BY <1>1
  <2>2. Tree(ns, plan) = {plan} \cup T(m - 1)
    <3>1. Tree(ns, top(m - 1)) = T(m - 1)
      BY <1>5, <2>1
    <3>2. Tree(ns, plan) = {plan} \cup Tree(ns, top(m - 1))
      <4> HIDE DEF top
      <4> QED BY <1>1, TreeFromChildren
    <3> HIDE DEF T, top
    <3> QED BY <3>1, <3>2
  <2>3. base + 1 .. base + m = (base + 1 .. base + (m - 1)) \cup {plan}
    <3>1. m \in Nat \ {0} /\ base \in Nat /\ plan = base + m
      BY <1>1
    <3> QED BY <3>1
  <2>4. T(m - 1) = {access[s] : s \in 1 .. m} \cup (base + 1 .. base + (m - 1))
    BY <2>1
  <2> HIDE DEF T
  <2> QED BY <2>2, <2>3, <2>4
<1> QED BY <1>5, <1>6 DEF m

(* The order of a schedule: the children of a node come before it.         *)
ChildFirst(ns, s) ==
  \A i \in DOMAIN s : Range(ns[s[i]].children) \subseteq {s[k] : k \in 1 .. i - 1}

LEMMA ChildFirstConcat ==
  ASSUME NEW ns, NEW s, IsList(s), ChildFirst(ns, s), NEW t, IsList(t), ChildFirst(ns, t)
  PROVE  IsList(s \o t) /\ ChildFirst(ns, s \o t)
<1> DEFINE u == s \o t
<1>1. /\ IsList(u) /\ Len(u) = Len(s) + Len(t) /\ DOMAIN u = 1 .. Len(s) + Len(t)
      /\ \A i \in 1 .. Len(s) : u[i] = s[i]
      /\ \A i \in 1 .. Len(t) : u[Len(s) + i] = t[i]
  BY ConcatLists
<1>2. Len(s) \in Nat /\ DOMAIN s = 1 .. Len(s) /\ Len(t) \in Nat /\ DOMAIN t = 1 .. Len(t)
  BY ListFacts
<1> HIDE DEF u
<1>3. ASSUME NEW i \in DOMAIN u
      PROVE  Range(ns[u[i]].children) \subseteq {u[k] : k \in 1 .. i - 1}
  <2>1. CASE i \in 1 .. Len(s)
    <3>1. Range(ns[u[i]].children) \subseteq {s[k] : k \in 1 .. i - 1}
      BY <1>1, <1>2, <2>1 DEF ChildFirst
    <3>2. \A k \in 1 .. i - 1 : k \in 1 .. Len(s)
      BY <1>2, <2>1
    <3> QED BY <1>1, <3>1, <3>2
  <2>2. CASE i \notin 1 .. Len(s)
    <3>1. i - Len(s) \in 1 .. Len(t) /\ Len(s) + (i - Len(s)) = i
      BY <1>1, <1>2, <2>2
    <3>2. u[i] = t[i - Len(s)]
      BY <1>1, <3>1
    <3>3. Range(ns[u[i]].children) \subseteq {t[k] : k \in 1 .. (i - Len(s)) - 1}
      BY <1>2, <3>1, <3>2 DEF ChildFirst
    <3>4. \A k \in 1 .. (i - Len(s)) - 1 :
            k \in 1 .. Len(t) /\ Len(s) + k \in 1 .. i - 1
      BY <1>2, <3>1
    <3> QED BY <1>1, <3>3, <3>4
  <2> QED BY <2>1, <2>2
<1> QED BY <1>1, <1>3 DEF ChildFirst, u

LEMMA ChildFirstFlatten ==
  ASSUME NEW ns, NEW s, IsList(s),
         \A i \in 1 .. Len(s) : IsList(s[i]) /\ ChildFirst(ns, s[i])
  PROVE  ChildFirst(ns, FlattenSeq(s))
<1> DEFINE n == Len(s)
           flat(k) == FlattenSeq(SubSeq(s, 1, k))
           Good == {k \in Nat : k <= n => IsList(flat(k)) /\ ChildFirst(ns, flat(k))}
<1>1. n \in Nat
  BY ListFacts
<1>2. /\ flat(0) = <<>>
      /\ \A k \in 1 .. n : flat(k) = flat(k - 1) \o s[k]
      /\ FlattenSeq(s) = flat(n)
  BY FlattenPrefix
<1> HIDE DEF flat, n
<1>3. 0 \in Good
  BY <1>2, EmptyList DEF ChildFirst
<1>4. ASSUME NEW k \in Nat, k \in Good  PROVE k + 1 \in Good
  <2> SUFFICES ASSUME k + 1 <= n  PROVE IsList(flat(k + 1)) /\ ChildFirst(ns, flat(k + 1))
    OBVIOUS
  <2>1. k <= n /\ k + 1 \in 1 .. n /\ (k + 1) - 1 = k
    BY <1>1
  <2>2. IsList(flat(k)) /\ ChildFirst(ns, flat(k))
    BY <1>4, <2>1
  <2>3. flat(k + 1) = flat(k) \o s[k + 1]
    BY <1>2, <2>1
  <2>4. IsList(s[k + 1]) /\ ChildFirst(ns, s[k + 1])
    BY <2>1 DEF n
  <2> QED BY <2>2, <2>3, <2>4, ChildFirstConcat
<1>5. n \in Good
  <2>1. Nat \subseteq Good
    <3> HIDE DEF Good
    <3> QED BY <1>3, <1>4, NatSetInduction
  <2> HIDE DEF Good
  <2> QED BY <1>1, <2>1
<1> QED BY <1>1, <1>2, <1>5

LEMMA ScheduleChildFirst ==
  ASSUME NEW ns, WellFormed(ns), NEW n \in DOMAIN ns
  PROVE  ChildFirst(ns, PostOrder(ns, n))
<1> DEFINE Good == {k \in Nat : \A x \in DOMAIN ns : x <= k => ChildFirst(ns, PostOrder(ns, x))}
<1>1. DOMAIN ns = 1 .. Len(ns) /\ Len(ns) \in Nat
  BY ListFacts DEF WellFormed
<1>2. 0 \in Good
  BY <1>1
<1>3. ASSUME NEW k \in Nat, k \in Good  PROVE k + 1 \in Good
  <2> SUFFICES ASSUME NEW x \in DOMAIN ns, x <= k + 1  PROVE ChildFirst(ns, PostOrder(ns, x))
    OBVIOUS
  <2> DEFINE ch == ns[x].children
             below == [c \in DOMAIN ch |-> PostOrder(ns, ch[c])]
             flat == FlattenSeq(below)
  <2>1. PostOrder(ns, x) = Append(flat, x)
    BY PostOrderStep
  <2>2. /\ IsList(ch) /\ Len(ch) \in Nat /\ DOMAIN ch = 1 .. Len(ch) /\ Range(ch) = {ch[c] : c \in 1 .. Len(ch)}
        /\ \A c \in 1 .. Len(ch) : ch[c] \in 1 .. x - 1
    BY ListFacts DEF WellFormed
  <2>3. \A c \in 1 .. Len(ch) : ch[c] \in DOMAIN ns /\ ch[c] <= k
    <3>1. x \in 1 .. Len(ns) /\ x \in Nat /\ x - 1 <= k
      BY <1>1
    <3> HIDE DEF ch
    <3>2. \A y \in 1 .. x - 1 : y \in 1 .. Len(ns) /\ y <= k
      BY <1>1, <3>1
    <3> QED BY <1>1, <2>2, <3>2
  <2>4. \A c \in 1 .. Len(ch) : /\ ChildFirst(ns, PostOrder(ns, ch[c]))
                                /\ IsList(PostOrder(ns, ch[c])) /\ ch[c] \in Tree(ns, ch[c])
    BY <1>3, <2>3, PostOrderFacts
  <2> HIDE DEF ch
  <2>5. \A c \in 1 .. Len(ch) : below[c] = PostOrder(ns, ch[c])
    BY <2>2
  <2>6. IsList(below) /\ Len(below) = Len(ch)
    <3>1. below = [c \in 1 .. Len(ch) |-> below[c]]
      BY <2>2
    <3> HIDE DEF below
    <3> QED BY <2>2, <3>1, ListWith
  <2> HIDE DEF below
  <2>7. ChildFirst(ns, flat)
    BY <2>4, <2>5, <2>6, ChildFirstFlatten
  <2>8. /\ IsList(flat)
        /\ Range(flat) = UNION {Range(below[c]) : c \in 1 .. Len(below)}
    BY <2>4, <2>5, <2>6, FlattenFacts
  <2>9. Range(ch) \subseteq Range(flat)
    BY <2>2, <2>4, <2>5, <2>6, <2>8 DEF Tree
  <2> HIDE DEF flat
  <2>10. /\ DOMAIN Append(flat, x) = 1 .. Len(flat) + 1 /\ Len(flat) \in Nat
         /\ \A i \in 1 .. Len(flat) : Append(flat, x)[i] = flat[i]
         /\ Append(flat, x)[Len(flat) + 1] = x
         /\ DOMAIN flat = 1 .. Len(flat) /\ Range(flat) = {flat[i] : i \in 1 .. Len(flat)}
    <3>1. IsList(flat)
      BY <2>8
    <3>2. DOMAIN flat = 1 .. Len(flat) /\ Range(flat) = {flat[i] : i \in 1 .. Len(flat)}
      BY <3>1, ListFacts
    <3> QED BY <3>1, <3>2, AppendList
  <2> DEFINE u == Append(flat, x)
  <2>11. ASSUME NEW i \in DOMAIN u
         PROVE  Range(ns[u[i]].children) \subseteq {u[j] : j \in 1 .. i - 1}
    <3> HIDE DEF u
    <3>1. CASE i \in 1 .. Len(flat)
      <4>1. u[i] = flat[i] /\ Range(ns[flat[i]].children) \subseteq {flat[j] : j \in 1 .. i - 1}
        BY <2>7, <2>10, <3>1 DEF ChildFirst, u
      <4>2. \A j \in 1 .. i - 1 : j \in 1 .. Len(flat) /\ u[j] = flat[j]
        BY <2>10, <3>1 DEF u
      <4> QED BY <4>1, <4>2
    <3>2. CASE i = Len(flat) + 1
      <4>1. u[i] = x /\ i - 1 = Len(flat) /\ \A j \in 1 .. i - 1 : u[j] = flat[j]
        BY <2>10, <3>2 DEF u
      <4>2. Range(ns[u[i]].children) = Range(ch)
        BY <4>1 DEF ch
      <4> QED BY <2>9, <2>10, <4>1, <4>2
    <3>3. i \in 1 .. Len(flat) + 1
      BY <2>10 DEF u
    <3>4. i \in 1 .. Len(flat) \/ i = Len(flat) + 1
      BY <2>10, <3>3
    <3> QED BY <3>1, <3>2, <3>4
  <2>12. PostOrder(ns, x) = u
    BY <2>1
  <2> HIDE DEF u
  <2>13. ChildFirst(ns, u)
    BY <2>11 DEF ChildFirst
  <2> QED BY <2>12, <2>13
<1>4. Len(ns) \in Good
  <2>1. Nat \subseteq Good
    <3> HIDE DEF Good
    <3> QED BY <1>2, <1>3, NatSetInduction
  <2> HIDE DEF Good
  <2> QED BY <1>1, <2>1
<1> QED BY <1>1, <1>4
=============================================================================
