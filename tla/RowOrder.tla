------------------------------ MODULE RowOrder ------------------------------
(***************************************************************************)
(* Python's sorted(rows, key = ...), a stable sort: a row is its position  *)
(* in the input, and keys has the sort key of each row.  And what is in an *)
(* order already: a part of a sequence, and itertools.product.             *)
(***************************************************************************)
EXTENDS Integers, FiniteSets

(* Rows of smaller keys come first, rows of equal keys as they were.       *)
KeyBefore(keys, i, j) == keys[i] < keys[j] \/ (keys[i] = keys[j] /\ i < j)

KeyOrder(keys, rows) == {pair \in rows \X rows : KeyBefore(keys, pair[1], pair[2])}

(* The elements of a finite set in a total order, a set of pairs: in place *)
(* n is the one with n-1 others before it.                                 *)
Arranged(S, order) ==
  LET before == [x \in S |-> Cardinality({y \in S : <<y, x>> \in order})]
  IN  [n \in 1 .. Cardinality(S) |-> CHOOSE x \in S : before[x] = n - 1]

Sorted(keys, rows) == Arranged(rows, KeyOrder(keys, rows))

Ascending(numbers) ==
  Arranged(numbers, {pair \in numbers \X numbers : pair[1] < pair[2]})

(* The elements of s at some of its places.                                *)
Selected(s, places) ==
  LET order == Ascending(places)
  IN  [n \in DOMAIN order |-> s[order[n]]]

(* The first difference decides.                                           *)
RankBefore(a, b) ==
  \E n \in DOMAIN a : a[n] < b[n] /\ \A m \in 1 .. n - 1 : a[m] = b[m]

Ranked(S) == Arranged(S, {pair \in S \X S : RankBefore(pair[1], pair[2])})

(* One element of each option, the last one changing fastest.              *)
Selections(options) ==
  {choice \in [DOMAIN options -> UNION {DOMAIN options[o] : o \in DOMAIN options}] :
     \A o \in DOMAIN options : choice[o] \in DOMAIN options[o]}

Product(options) ==
  LET choices == Ranked(Selections(options))
  IN  [n \in DOMAIN choices |-> [o \in DOMAIN options |-> options[o][choices[n][o]]]]
=============================================================================
