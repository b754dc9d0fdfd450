------------------------------ MODULE SqlParser ------------------------------
(***************************************************************************)
(* The regular expressions of querylab/parser/sql_parser.py over a         *)
(* statement cut into tokens, between any two of which there is a blank.   *)
(* A token is a sequence of strings: one keyword, name, symbol or literal, *)
(* or the pieces of a reference around its dots.  Keywords are in upper    *)
(* case; runs of blanks, which the parser folds into one, and a closing    *)
(* semicolon are left out.                                                 *)
(***************************************************************************)
EXTENDS Integers, Sequences, FiniteSets, SequencesExt

CONSTANTS
  NoAlias,           (* The table alias of an unqualified column.          *)
  Literals           (* From the texts _literal accepts to their values.   *)

Symbols == {",", "(", ")", "=", "<", "<=", ">", ">="}
Operators == {"=", "<", "<=", ">", ">="}
Aggregates == {"COUNT", "SUM", "AVG"}
Deferred == {"NULL", "DISTINCT", "LEFT", "RIGHT", "FULL", "OUTER", "OVER"}

(* [A-Za-z_][\w.]* and [A-Za-z_]\w*                                        *)
IsReference(token) == token[1] \notin Symbols \cup DOMAIN Literals
IsName(token) == IsReference(token) /\ Len(token) = 1

Joined(strings, separator) ==
  IF strings = <<>> THEN ""
  ELSE FoldLeft(LAMBDA text, s : text \o separator \o s, strings[1], Tail(strings))
TextOf(tokens) == Joined([t \in DOMAIN tokens |-> Joined(tokens[t], ".")], " ")

(* Where a word stands between two others, and the parts it cuts a         *)
(* sequence of tokens into.                                                *)
Between(tokens, word) == {i \in 2 .. Len(tokens) - 1 : tokens[i] = <<word>>}
SplitAt(tokens, cuts) ==
  LET ends == SetToSortSeq(cuts \cup {0, Len(tokens) + 1}, <)
  IN  [p \in 1 .. Len(ends) - 1 |-> SubSeq(tokens, ends[p] + 1, ends[p + 1] - 1)]

-----------------------------------------------------------------------------
(* _column_ref of whatever stands there, of several words too.             *)
Dots(tokens) == FoldSeq(LAMBDA token, n : Len(token) - 1 + n, 0, tokens)
IsColumnRef(tokens) == Dots(tokens) <= 1

ColumnRef(tokens) ==
  LET cut == CHOOSE i \in DOMAIN tokens : Len(tokens[i]) = 2
  IN  IF Dots(tokens) = 0 THEN [table_alias |-> NoAlias, name |-> TextOf(tokens)]
      ELSE [table_alias |-> TextOf(Append(SubSeq(tokens, 1, cut - 1), <<tokens[cut][1]>>)),
            name |-> TextOf(<<<<tokens[cut][2]>>>> \o SubSeq(tokens, cut + 1, Len(tokens)))]

(* [aggregate "("] column [")"] [AS name]                                  *)
AggregateOf(item) ==
  IF /\ Len(item) \in {4, 6} /\ item[1][1] \in Aggregates
     /\ item[2] = <<"(">> /\ item[4] = <<")">>
  THEN item[1][1] ELSE ""

ItemColumn(item) == IF AggregateOf(item) = "" THEN SubSeq(item, 1, 1) ELSE SubSeq(item, 3, 3)
AfterItemColumn(item) ==
  SubSeq(item, IF AggregateOf(item) = "" THEN 2 ELSE 5, Len(item))

IsSelectItem(item) ==
  LET rest == AfterItemColumn(item)
  IN  /\ item # <<>>
      /\ IsReference(ItemColumn(item)[1]) /\ IsColumnRef(ItemColumn(item))
      /\ rest = <<>> \/ (Len(rest) = 2 /\ rest[1] = <<"AS">> /\ IsName(rest[2]))

SelectItem(item) ==
  [column      |-> ColumnRef(ItemColumn(item)),
   aggregate   |-> AggregateOf(item),
   output_name |-> IF AfterItemColumn(item) = <<>> THEN "" ELSE AfterItemColumn(item)[2][1]]

-----------------------------------------------------------------------------
(* _parse_from.  The first table is the text before the first JOIN, of one *)
(* word or two of any kind.                                                *)
FirstTable(from) == SplitAt(from, Between(from, "JOIN"))[1]

(* JOIN name [alias] ON column = column from a position on.                *)
IsOn(from, on) ==
  /\ Len(from) >= on + 3
  /\ from[on] = <<"ON">> /\ from[on + 2] = <<"=">>
  /\ \A side \in {on + 1, on + 3} : IsReference(from[side]) /\ Len(from[side]) <= 2

WithAlias(from, p) == IsOn(from, p + 3) /\ IsName(from[p + 2])
JoinOn(from, p) == IF WithAlias(from, p) THEN p + 3 ELSE p + 2
JoinEnd(from, p) == JoinOn(from, p) + 4
IsJoin(from, p) == IsOn(from, JoinOn(from, p)) /\ from[p] = <<"JOIN">> /\ IsName(from[p + 1])

(* The places of the clauses, each where the one before it ended, up to    *)
(* one that does not match.                                                *)
JoinStarts(from) ==
  LET start[n \in 1 .. Len(from)] ==
        IF n = 1 THEN Len(FirstTable(from)) + 1 ELSE JoinEnd(from, start[n - 1])
      matching == {n \in 1 .. Len(from) : \A m \in 1 .. n : IsJoin(from, start[m])}
  IN  [n \in matching |-> start[n]]

\* Mutant: the loop ends where the pattern does not match.
OnlyJoinsAsLongAsTheyMatch(from) == TRUE

OnlyJoins(from) ==
  LET starts == JoinStarts(from)
  IN  Len(from) = IF starts = <<>> THEN Len(FirstTable(from)) ELSE JoinEnd(from, Last(starts)) - 1

IsFrom(from) ==
  /\ Len(FirstTable(from)) \in {1, 2}
  /\ OnlyJoins(from)
  /\ Len(JoinStarts(from)) <= 2

FromTables(from) ==
  LET first == FirstTable(from)
      table(p) == [name |-> from[p + 1][1],
                   alias |-> IF WithAlias(from, p) THEN from[p + 2][1] ELSE from[p + 1][1]]
  IN  <<[name |-> TextOf(<<first[1]>>), alias |-> TextOf(<<Last(first)>>)]>>
        \o [j \in DOMAIN JoinStarts(from) |-> table(JoinStarts(from)[j])]

FromJoins(from) ==
  [j \in DOMAIN JoinStarts(from) |->
    LET on == JoinOn(from, JoinStarts(from)[j])
    IN  [left  |-> ColumnRef(SubSeq(from, on + 1, on + 1)),
         right |-> ColumnRef(SubSeq(from, on + 3, on + 3))]]

-----------------------------------------------------------------------------
(* _parse_predicates                                                       *)
IsPredicate(words) ==
  /\ Len(words) >= 3
  /\ IsReference(words[1]) /\ Len(words[1]) <= 2
  /\ words[2][1] \in Operators
  /\ TextOf(SubSeq(words, 3, Len(words))) \in DOMAIN Literals

Predicate(words) ==
  [column   |-> ColumnRef(SubSeq(words, 1, 1)),
   operator |-> words[2][1],
   value    |-> Literals[TextOf(SubSeq(words, 3, Len(words)))]]

(* An AND right after another is not split at: its blank is used up.       *)
Conjuncts(where) ==
  LET cuts == {i \in Between(where, "AND") : where[i - 1] # <<"AND">>}
  IN  IF where = <<>> THEN <<>> ELSE SplitAt(where, cuts)

-----------------------------------------------------------------------------
(* The clauses of SELECT .. FROM .. [WHERE ..] [GROUP BY ..]: the ways the *)
(* pattern can match, and the one the lazy quantifiers find, the shortest  *)
(* of each clause in turn.  A clause that is not there is empty.           *)
Splits(sql) ==
  LET end == Len(sql) + 1
      at(word) == {i \in DOMAIN sql : sql[i] = <<word>>}
      groups == {g \in at("GROUP") : g + 1 \in at("BY") /\ g + 2 < end} \cup {end}
  IN  {split \in [from : at("FROM"), where : at("WHERE") \cup groups, group : groups] :
         /\ split.from > 2 /\ split.from + 1 < split.where
         /\ split.where = split.group \/ (split.where \in at("WHERE") /\ split.where + 1 < split.group)}

Clauses(sql) ==
  LET before(a, b) ==
        \/ a.from < b.from
        \/ a.from = b.from /\ a.where < b.where
        \/ a.from = b.from /\ a.where = b.where /\ a.group < b.group
      s == CHOOSE a \in Splits(sql) : \A b \in Splits(sql) : a = b \/ before(a, b)
  IN  [select |-> SubSeq(sql, 2, s.from - 1),
       from   |-> SubSeq(sql, s.from + 1, s.where - 1),
       where  |-> SubSeq(sql, s.where + 1, s.group - 1),
       group  |-> SubSeq(sql, s.group + 2, Len(sql))]

Items(words) == SplitAt(words, {i \in DOMAIN words : words[i] = <<",">>})

(* parse_sql: whether a statement is parsed, and into what.                *)
Accepts(sql) ==
  /\ Len(sql) > 1 /\ sql[1] = <<"SELECT">>
  /\ \A t \in DOMAIN sql : Range(sql[t]) \cap Deferred = {}
  /\ Splits(sql) # {}
  /\ LET clauses == Clauses(sql)
     IN  /\ IsFrom(clauses.from)
         /\ \A item \in Range(Items(clauses.select)) : IsSelectItem(item)
         /\ Between(clauses.where, "OR") = {}
         /\ \A p \in Range(Conjuncts(clauses.where)) : IsPredicate(p)
         /\ \A g \in Range(Items(clauses.group)) : IsColumnRef(g)

ParseSql(sql) ==
  LET clauses == Clauses(sql)
      select == Items(clauses.select)
      conjuncts == Conjuncts(clauses.where)
      group == IF clauses.group = <<>> THEN <<>> ELSE Items(clauses.group)
  IN  [tables       |-> FromTables(clauses.from),
       joins        |-> FromJoins(clauses.from),
       predicates   |-> [p \in DOMAIN conjuncts |-> Predicate(conjuncts[p])],
       select_items |-> [i \in DOMAIN select |-> SelectItem(select[i])],
       group_by     |-> [g \in DOMAIN group |-> ColumnRef(group[g])]]

-----------------------------------------------------------------------------
(* A query written out again; short says which tables are written without  *)
(* an alias.                                                               *)
Rendered(query, short) ==
  LET column(c) == IF c.table_alias = NoAlias THEN <<c.name>> ELSE <<c.table_alias, c.name>>
      list(items) == FlattenSeq([i \in DOMAIN items |->
                       (IF i = 1 THEN <<>> ELSE <<<<",">>>>) \o items[i]])
      item(i) == (IF i.aggregate = "" THEN <<column(i.column)>>
                  ELSE <<<<i.aggregate>>, <<"(">>, column(i.column), <<")">>>>)
                 \o IF i.output_name = "" THEN <<>> ELSE <<<<"AS">>, <<i.output_name>>>>
      table(t) == <<<<query.tables[t].name>>>>
                    \o IF t \in short THEN <<>> ELSE <<<<query.tables[t].alias>>>>
      join(j) == <<<<"JOIN">>>> \o table(j + 1)
                   \o <<<<"ON">>, column(query.joins[j].left), <<"=">>, column(query.joins[j].right)>>
      literal(v) == <<CHOOSE text \in DOMAIN Literals : Literals[text] = v>>
      predicate(p) == (IF p = 1 THEN <<<<"WHERE">>>> ELSE <<<<"AND">>>>)
                        \o <<column(query.predicates[p].column), <<query.predicates[p].operator>>,
                             literal(query.predicates[p].value)>>
  IN  <<<<"SELECT">>>> \o list([i \in DOMAIN query.select_items |-> item(query.select_items[i])])
        \o <<<<"FROM">>>> \o table(1) \o FlattenSeq([j \in DOMAIN query.joins |-> join(j)])
        \o FlattenSeq([p \in DOMAIN query.predicates |-> predicate(p)])
        \o IF query.group_by = <<>> THEN <<>>
           ELSE <<<<"GROUP">>, <<"BY">>>>
                  \o list([g \in DOMAIN query.group_by |-> <<column(query.group_by[g])>>])

(* A statement is the text of a query, word for word.                      *)
SaysAll(sql, query) ==
  \E short \in SUBSET {t \in DOMAIN query.tables : query.tables[t].name = query.tables[t].alias} :
    TextOf(SelectSeq(Rendered(query, short), LAMBDA token : token # <<"">>)) = TextOf(sql)
=============================================================================
