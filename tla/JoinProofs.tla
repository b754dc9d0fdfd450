----------------------------- MODULE JoinProofs ------------------------------
(***************************************************************************)
(* The nested loop joins and the hash join of PhysicalOperators, for       *)
(* inputs of any length, every hash function and any number of frames and  *)
(* rows a page: they implement the abstract equi-join, and return their    *)
(* rows in the order of JoinResult.                                        *)
(*                                                                         *)
(* The argument for the nested loops: the three loops visit every pair of  *)
(* rows once, and they read the inner child as often as the estimator      *)
(* says.                                                                   *)
(*                                                                         *)
(* The argument for the hash join, in one pass and by Grace partitions:    *)
(* partitions are lists without repetitions that divide the rows by the    *)
(* hash of their keys; the hash table holds, for each key, the build rows  *)
(* of the partition read so far; the output holds the matches of the probe *)
(* rows done so far. All of these lists are ascending.                     *)
(***************************************************************************)
EXTENDS PhysicalOperators, HelperProofs, SequenceTheorems, TLAPS

-----------------------------------------------------------------------------
(* Lists without repetitions.                                              *)

(* A list of new elements behind another one: the output of a join after a *)
(* step, and the beginning of it that was there before.                    *)
LEMMA ConcatOfDistinct ==
  ASSUME NEW S, NEW s \in Seq(S), NEW u \in Seq(S),
         IsInjective(s), IsInjective(u), Range(s) \cap Range(u) = {}
  PROVE  /\ s \o u \in Seq(S)
         /\ IsInjective(s \o u)
         /\ Range(s \o u) = Range(s) \cup Range(u)
         /\ IsPrefix(s, s \o u)
<1> DEFINE t == s \o u
           n == Len(s)
           m == Len(u)
<1>1. /\ n \in Nat /\ m \in Nat /\ DOMAIN s = 1 .. n /\ DOMAIN u = 1 .. m
      /\ \A x \in 1 .. n : s[x] \in S
  BY LenProperties, ElementOfSeq
<1>2. /\ t \in Seq(S) /\ Len(t) = n + m
      /\ \A x \in 1 .. n + m : t[x] = IF x <= n THEN s[x] ELSE u[x - n]
  BY ConcatProperties
<1> HIDE DEF t, n, m
<1>3. DOMAIN t = 1 .. n + m
  BY <1>2, LenProperties
<1>4. /\ \A x \in 1 .. n : x \in 1 .. n + m /\ t[x] = s[x]
      /\ \A x \in 1 .. m : n + x \in 1 .. n + m /\ t[n + x] = u[x]
  <2>1. /\ \A x \in 1 .. n : x \in 1 .. n + m /\ x <= n
        /\ \A x \in 1 .. m : n + x \in 1 .. n + m /\ ~(n + x <= n) /\ (n + x) - n = x
    BY <1>1
  <2> QED BY <1>2, <2>1
<1>5. \A x \in 1 .. n + m :
        \/ x \in 1 .. n /\ t[x] = s[x]
        \/ x - n \in 1 .. m /\ t[x] = u[x - n]
  <2>1. \A x \in 1 .. n + m :
          \/ x \in 1 .. n /\ x <= n
          \/ x - n \in 1 .. m /\ ~(x <= n)
    BY <1>1
  <2> QED BY <1>2, <2>1
<1>6. IsInjective(t)
  <2> SUFFICES ASSUME NEW x \in 1 .. n + m, NEW y \in 1 .. n + m, t[x] = t[y]
               PROVE  x = y
    BY <1>3 DEF IsInjective
  <2>1. CASE x \in 1 .. n /\ t[x] = s[x] /\ y \in 1 .. n /\ t[y] = s[y]
    BY <1>1, <2>1 DEF IsInjective
  <2>2. CASE x - n \in 1 .. m /\ t[x] = u[x - n] /\ y - n \in 1 .. m /\ t[y] = u[y - n]
    <3>1. x - n = y - n
      BY <1>1, <2>2 DEF IsInjective
    <3> QED BY <1>1, <3>1
  <2>3. CASE x \in 1 .. n /\ t[x] = s[x] /\ y - n \in 1 .. m /\ t[y] = u[y - n]
    BY <1>1, <2>3 DEF Range
  <2>4. CASE x - n \in 1 .. m /\ t[x] = u[x - n] /\ y \in 1 .. n /\ t[y] = s[y]
    BY <1>1, <2>4 DEF Range
  <2> QED BY <1>5, <2>1, <2>2, <2>3, <2>4
<1>7. Range(t) = Range(s) \cup Range(u)
  <2>1. \A x \in 1 .. n + m : t[x] \in Range(s) \cup Range(u)
    BY <1>1, <1>5 DEF Range
  <2>2. \A x \in 1 .. n : s[x] \in Range(t)
    BY <1>3, <1>4 DEF Range
  <2>3. \A x \in 1 .. m : u[x] \in Range(t)
    BY <1>3, <1>4 DEF Range
  <2> QED BY <1>1, <1>3, <2>1, <2>2, <2>3 DEF Range
<1>8. IsPrefix(s, t)
  <2>1. n <= n + m
    BY <1>1
  <2>2. SubSeq(s, 1, n) = SubSeq(t, 1, n)
    <3>1. \A x \in 1 .. n : s[x] \in S /\ t[x] \in S
      BY <1>1, <1>4
    <3>2. /\ SubSeq(s, 1, n) \in Seq(S)
          /\ Len(SubSeq(s, 1, n)) = IF 1 <= n THEN n-1+1 ELSE 0
          /\ \A x \in 1 .. n-1+1 : SubSeq(s, 1, n)[x] = s[1+x-1]
      BY <1>1, <3>1, SubSeqProperties
    <3>3. /\ SubSeq(t, 1, n) \in Seq(S)
          /\ Len(SubSeq(t, 1, n)) = IF 1 <= n THEN n-1+1 ELSE 0
          /\ \A x \in 1 .. n-1+1 : SubSeq(t, 1, n)[x] = t[1+x-1]
      BY <1>1, <3>1, SubSeqProperties
    <3>4. \A x \in 1 .. n : SubSeq(s, 1, n)[x] = SubSeq(t, 1, n)[x]
      BY <1>1, <1>4, <3>2, <3>3
    <3> QED BY <1>1, <3>2, <3>3, <3>4, SeqEqual
  <2> QED BY <1>2, <2>1, <2>2 DEF IsPrefix, n
<1> QED BY <1>2, <1>6, <1>7, <1>8 DEF t

-----------------------------------------------------------------------------
(* Lists in an order.                                                      *)

InOrder(s, order) == \A m, n \in DOMAIN s : m < n => <<s[m], s[n]>> \in order

LEMMA ConcatInOrder ==
  ASSUME NEW S, NEW s \in Seq(S), NEW u \in Seq(S), NEW order,
         InOrder(s, order), InOrder(u, order),
         \A x \in Range(s), y \in Range(u) : <<x, y>> \in order
  PROVE  InOrder(s \o u, order)
<1> DEFINE t == s \o u
           k == Len(s)
           l == Len(u)
<1>1. k \in Nat /\ l \in Nat /\ DOMAIN s = 1 .. k /\ DOMAIN u = 1 .. l
  BY LenProperties
<1>2. /\ t \in Seq(S) /\ Len(t) = k + l
      /\ \A x \in 1 .. k + l : t[x] = IF x <= k THEN s[x] ELSE u[x - k]
  BY ConcatProperties
<1>3. DOMAIN t = 1 .. k + l
  BY <1>2, LenProperties
<1> HIDE DEF t, k, l
<1> SUFFICES ASSUME NEW m \in 1 .. k + l, NEW n \in 1 .. k + l, m < n
             PROVE  <<t[m], t[n]>> \in order
  BY <1>3 DEF InOrder, t
<1>4. CASE n <= k
  <2>1. m \in 1 .. k /\ n \in 1 .. k /\ m <= k
    BY <1>1, <1>4
  <2>2. t[m] = s[m] /\ t[n] = s[n]
    BY <1>2, <1>4, <2>1
  <2> QED BY <1>1, <2>1, <2>2 DEF InOrder
<1>5. CASE m <= k /\ ~(n <= k)
  <2>1. m \in 1 .. k /\ n - k \in 1 .. l
    BY <1>1, <1>5
  <2>2. t[m] = s[m] /\ t[n] = u[n - k]
    BY <1>2, <1>5
  <2>3. t[m] \in Range(s) /\ t[n] \in Range(u)
    BY <1>1, <2>1, <2>2 DEF Range
  <2> QED BY <2>3
<1>6. CASE ~(m <= k)
  <2>1. m - k \in 1 .. l /\ n - k \in 1 .. l /\ m - k < n - k /\ ~(n <= k)
    BY <1>1, <1>6
  <2>2. t[m] = u[m - k] /\ t[n] = u[n - k]
    BY <1>2, <1>6, <2>1
  <2> QED BY <1>1, <2>1, <2>2 DEF InOrder
<1> QED BY <1>4, <1>5, <1>6

LEMMA InOrderIsArranged ==
  ASSUME NEW S, NEW order, IsTotalOrder(order, S), NEW T, NEW s \in Seq(T),
         Range(s) = S, InOrder(s, order)
  PROVE  s = Arranged(S, order)
<1> DEFINE n == Len(s)
<1>1. n \in Nat /\ DOMAIN s = 1 .. n /\ s \in [1 .. n -> T]
  BY LenProperties
<1> HIDE DEF n
<1>2. \A x \in 1 .. n : s[x] \in S
  BY <1>1 DEF Range
<1>3. s \in [1 .. n -> S]
  BY <1>1, <1>2
<1>4. \A x, y \in 1 .. n : x < y => <<s[x], s[y]>> \in order
  BY <1>1 DEF InOrder
<1> QED BY <1>1, <1>3, <1>4, ArrangedIs

(* Ranks of three numbers, the first deciding.                             *)
Earlier3(a, b, c, x, y, z) == a < x \/ (a = x /\ (b < y \/ (b = y /\ c < z)))

LEMMA RankBeforeIs ==
  ASSUME NEW a \in Int, NEW b \in Int, NEW c \in Int,
         NEW x \in Int, NEW y \in Int, NEW z \in Int
  PROVE  RankBefore(<<a, b, c>>, <<x, y, z>>) <=> Earlier3(a, b, c, x, y, z)
<1> DEFINE r == <<a, b, c>>
           s == <<x, y, z>>
<1>1. /\ DOMAIN r = 1 .. 3
      /\ r[1] = a /\ r[2] = b /\ r[3] = c /\ s[1] = x /\ s[2] = y /\ s[3] = z
  OBVIOUS
<1> HIDE DEF r, s
<1>2. RankBefore(r, s) <=>
        \E n \in 1 .. 3 : r[n] < s[n] /\ \A m \in 1 .. n - 1 : r[m] = s[m]
  BY <1>1 DEF RankBefore
<1>3. /\ 1 .. 3 = {1, 2, 3} /\ 1 .. 1 - 1 = {} /\ 1 .. 2 - 1 = {1} /\ 1 .. 3 - 1 = {1, 2}
  OBVIOUS
<1>4. RankBefore(r, s) <=> \/ r[1] < s[1]
                           \/ r[2] < s[2] /\ r[1] = s[1]
                           \/ r[3] < s[3] /\ r[1] = s[1] /\ r[2] = s[2]
  BY <1>2, <1>3
<1> QED BY <1>1, <1>4 DEF Earlier3, r, s

LEMMA RanksAreTotal ==
  ASSUME NEW S, NEW order,
         NEW f \in [S -> Int], NEW g \in [S -> Int], NEW h \in [S -> Int],
         \A p, q \in S : f[p] = f[q] /\ g[p] = g[q] /\ h[p] = h[q] => p = q,
         \A p, q \in S :
           <<p, q>> \in order <=> Earlier3(f[p], g[p], h[p], f[q], g[q], h[q])
  PROVE  IsTotalOrder(order, S)
<1>1. \A p \in S : f[p] \in Int /\ g[p] \in Int /\ h[p] \in Int
  OBVIOUS
<1>2. \A p \in S : <<p, p>> \notin order
  BY <1>1 DEF Earlier3
<1>3. ASSUME NEW p \in S, NEW q \in S
      PROVE  p = q \/ <<p, q>> \in order \/ <<q, p>> \in order
  <2>1. \/ f[p] = f[q] /\ g[p] = g[q] /\ h[p] = h[q]
        \/ Earlier3(f[p], g[p], h[p], f[q], g[q], h[q])
        \/ Earlier3(f[q], g[q], h[q], f[p], g[p], h[p])
    BY <1>1 DEF Earlier3
  <2> QED BY <2>1
<1>4. ASSUME NEW p \in S, NEW q \in S, NEW r \in S,
             <<p, q>> \in order, <<q, r>> \in order
      PROVE  <<p, r>> \in order
  <2>1. /\ Earlier3(f[p], g[p], h[p], f[q], g[q], h[q])
        /\ Earlier3(f[q], g[q], h[q], f[r], g[r], h[r])
    BY <1>4
  <2>2. Earlier3(f[p], g[p], h[p], f[r], g[r], h[r])
    BY <1>1, <2>1 DEF Earlier3
  <2> QED BY <2>2
<1> QED BY <1>2, <1>3, <1>4 DEF IsTotalOrder

-----------------------------------------------------------------------------
(* The loops.                                                              *)

(* The pairs compared before the one the loops are at: of earlier blocks,  *)
(* with earlier right rows, or earlier in the block.                       *)
Visited(i, j) ==
  \/ i <= block_start
  \/ i <= NL!BlockEnd /\ j < right_position
  \/ j = right_position /\ i < block_start + left_offset

LoopTypeOK ==
  /\ operation \in NestedLoops
  /\ left \in Seq(Range(left)) /\ right \in Seq(Range(right))
  /\ status \in {"running", "done"}
  /\ block_start \in Nat /\ right_position \in Nat \ {0} /\ left_offset \in Nat \ {0}
  /\ output \in Seq(Nat \X Nat)

LoopPosition ==
  /\ block_start < Len(left) => block_start + left_offset <= NL!BlockEnd
  /\ right # <<>> => right_position <= Len(right)

LoopOutput ==
  /\ IsInjective(output)
  /\ Range(output) =
       {pair \in Matches : Visited(pair[1], pair[2])}

ScanCount ==
  inner_scans = IF status = "done" THEN 1 + NL!Rescans(operation, left) ELSE 1

LoopInv == LoopTypeOK /\ LoopPosition /\ LoopOutput /\ ScanCount

LEMMA BlockFacts ==
  ASSUME LoopTypeOK
  PROVE  /\ NL!BlockRows \in Nat \ {0}
         /\ Len(left) \in Nat /\ Len(right) \in Nat
         /\ DOMAIN left = 1 .. Len(left) /\ DOMAIN right = 1 .. Len(right)
         /\ right # <<>> => Len(right) > 0
         /\ NL!BlockEnd = IF block_start + NL!BlockRows <= Len(left)
                          THEN block_start + NL!BlockRows ELSE Len(left)
<1>1. NL!UsableFrames \in Nat \ {0}
  BY EvaluatorAssumption DEF NL!UsableFrames, NL!JoinFrames, NL!AtLeastOne, NL!AtLeast
<1>2. NL!BlockRows \in Nat \ {0}
  <2>1. NL!UsableFrames * TuplesPerPage \in Nat \ {0}
    <3> DEFINE u == NL!UsableFrames
    <3>1. u \in Nat \ {0} /\ TuplesPerPage \in Nat \ {0}
      BY <1>1, EvaluatorAssumption
    <3> HIDE DEF u
    <3>2. u * TuplesPerPage \in Nat \ {0}
      BY <3>1, SMT
    <3> QED BY <3>2 DEF u
  <2> QED BY <2>1 DEF NL!BlockRows, NL!RowsPerBlock
<1>3. /\ Len(left) \in Nat /\ Len(right) \in Nat
      /\ DOMAIN left = 1 .. Len(left) /\ DOMAIN right = 1 .. Len(right)
  BY LenProperties DEF LoopTypeOK
<1>4. right # <<>> => Len(right) > 0
  BY <1>3, EmptySeq DEF LoopTypeOK
<1> QED BY <1>2, <1>3, <1>4 DEF NL!BlockEnd

(* One comparison adds its pair to the visited ones, and no other.         *)
LEMMA CompareVisits ==
  ASSUME LoopTypeOK, LoopPosition, NL!Compare
  PROVE  LET i == block_start + left_offset
             j == right_position
         IN  /\ i \in DOMAIN left /\ j \in DOMAIN right
             /\ ~Visited(i, j)
             /\ \A x \in DOMAIN left, y \in DOMAIN right :
                  Visited(x, y)' <=> Visited(x, y) \/ (x = i /\ y = j)
             /\ LoopPosition'
             /\ block_start' \in Nat
             /\ right_position' \in Nat \ {0} /\ left_offset' \in Nat \ {0}
<1> DEFINE n == Len(left)
           m == Len(right)
           b == NL!BlockRows
           i == block_start + left_offset
           j == right_position
<1>1. /\ b \in Nat \ {0} /\ n \in Nat /\ m \in Nat
      /\ DOMAIN left = 1 .. n /\ DOMAIN right = 1 .. m
      /\ block_start \in Nat /\ right_position \in Nat \ {0} /\ left_offset \in Nat \ {0}
      /\ NL!BlockEnd = IF block_start + b <= n THEN block_start + b ELSE n
  BY BlockFacts DEF LoopTypeOK
<1>2. UNCHANGED <<left, right, operation>>
  BY DEF NL!Compare, NL!EmitRows
<1>3. b' = b /\ n' = n /\ m' = m
  BY <1>2 DEF NL!BlockRows, NL!RowsPerBlock, NL!UsableFrames
<1>4. NL!BlockEnd' = IF block_start' + b <= n THEN block_start' + b ELSE n
  BY <1>2, <1>3 DEF NL!BlockEnd
<1>5. i <= NL!BlockEnd /\ j <= m /\ right # <<>>
  <2>1. i <= NL!BlockEnd /\ j <= m
    BY DEF NL!Compare
  <2>2. m \in Nat /\ right_position \in Nat \ {0} /\ right_position <= m
    BY <1>1, <2>1
  <2>3. right = <<>> => m = 0
    BY EmptySeq
  <2> HIDE DEF m
  <2> QED BY <2>1, <2>2, <2>3
<1>6. \/ /\ i < NL!BlockEnd
         /\ left_offset' = left_offset + 1
         /\ block_start' = block_start /\ right_position' = right_position
      \/ /\ i = NL!BlockEnd /\ j < m
         /\ left_offset' = 1 /\ right_position' = right_position + 1
         /\ block_start' = block_start
      \/ /\ i = NL!BlockEnd /\ j = m
         /\ left_offset' = 1 /\ right_position' = 1
         /\ block_start' = block_start + b
  BY DEF NL!Compare, NL!NextRowOfBlock, NL!NextRightRow, NL!NextBlock
<1> DEFINE e == NL!BlockEnd
<1> HIDE DEF n, m, b, e
<1>7. /\ e = IF block_start + b <= n THEN block_start + b ELSE n
      /\ e' = IF block_start' + b <= n THEN block_start' + b ELSE n
      /\ i <= e
  BY <1>1, <1>4, <1>5 DEF e
<1>8. \/ /\ i < e
         /\ left_offset' = left_offset + 1
         /\ block_start' = block_start /\ right_position' = right_position
      \/ /\ i = e /\ j < m
         /\ left_offset' = 1 /\ right_position' = right_position + 1
         /\ block_start' = block_start
      \/ /\ i = e /\ j = m
         /\ left_offset' = 1 /\ right_position' = 1
         /\ block_start' = block_start + b
  BY <1>6 DEF e
<1>9. i \in 1 .. n /\ j \in 1 .. m
  BY <1>1, <1>5, <1>7
<1>10. ~Visited(i, j)
  BY <1>1 DEF Visited
<1>11. ASSUME NEW x \in 1 .. n, NEW y \in 1 .. m
       PROVE  Visited(x, y)' <=> Visited(x, y) \/ (x = i /\ y = j)
  <2>1. Visited(x, y)' <=> \/ x <= block_start'
                           \/ x <= e' /\ y < right_position'
                           \/ y = right_position' /\ x < block_start' + left_offset'
    BY DEF Visited, e
  <2>2. Visited(x, y) <=> \/ x <= block_start
                          \/ x <= e /\ y < j
                          \/ y = j /\ x < i
    BY DEF Visited, e
  <2> QED BY <1>1, <1>5, <1>7, <1>8, <2>1, <2>2
<1>12. LoopPosition'
  <2>1. block_start' < n => block_start' + left_offset' <= e'
    BY <1>1, <1>7, <1>8
  <2>2. right_position' <= m
    BY <1>1, <1>5, <1>8
  <2> QED BY <1>2, <1>3, <2>1, <2>2 DEF LoopPosition, e, n, m
<1>13. /\ block_start' \in Nat
       /\ right_position' \in Nat \ {0} /\ left_offset' \in Nat \ {0}
  BY <1>1, <1>8
<1> QED BY <1>1, <1>9, <1>10, <1>11, <1>12, <1>13

(* What one comparison leaves in the output: a new pair, or nothing new.   *)
LEMMA CompareEmits ==
  ASSUME LoopTypeOK, LoopPosition, LoopOutput, NL!Compare
  PROVE  /\ output' \in Seq(Nat \X Nat)
         /\ IsPrefix(output, output')
         /\ IsInjective(output')
         /\ Range(output') = {pair \in Matches : Visited(pair[1], pair[2])'}
<1> DEFINE i == block_start + left_offset
           j == right_position
           new == IF left[i] = right[j] THEN <<<<i, j>>>> ELSE <<>>
<1>1. /\ i \in DOMAIN left /\ j \in DOMAIN right
      /\ ~Visited(i, j)
      /\ \A x \in DOMAIN left, y \in DOMAIN right :
           Visited(x, y)' <=> Visited(x, y) \/ (x = i /\ y = j)
  BY CompareVisits
<1>2. output' = output \o new
  BY DEF NL!Compare, NL!EmitRows
<1>3. i \in Nat /\ j \in Nat /\ output \in Seq(Nat \X Nat)
  BY DEF LoopTypeOK
<1>4. \A pair \in Matches : pair = <<pair[1], pair[2]>> /\ pair[1] \in DOMAIN left
                            /\ pair[2] \in DOMAIN right
  BY DEF Matches, MatchesOf
<1>5. <<i, j>> \in Matches <=> left[i] = right[j]
  BY <1>1 DEF Matches, MatchesOf
<1>6. <<i, j>> \notin Range(output)
  BY <1>1 DEF LoopOutput
<1> HIDE DEF i, j
<1>7. /\ new \in Seq(Nat \X Nat) /\ IsInjective(new)
      /\ Range(new) = IF left[i] = right[j] THEN {<<i, j>>} ELSE {}
  <2>1. CASE left[i] = right[j]
    <3>1. new = <<<<i, j>>>> /\ <<i, j>> \in Nat \X Nat
      BY <1>3, <2>1
    <3> HIDE DEF new
    <3>2. new \in Seq(Nat \X Nat) /\ DOMAIN new = {1} /\ new[1] = <<i, j>>
      BY <3>1
    <3> QED BY <2>1, <3>2 DEF Range, IsInjective
  <2>2. CASE left[i] # right[j]
    BY <2>2 DEF Range, IsInjective
  <2> QED BY <2>1, <2>2
<1> HIDE DEF new
<1>8. /\ output' \in Seq(Nat \X Nat)
      /\ IsPrefix(output, output')
      /\ IsInjective(output')
      /\ Range(output') = Range(output) \cup Range(new)
  <2>1. IsInjective(output) /\ Range(output) \cap Range(new) = {}
    BY <1>6, <1>7 DEF LoopOutput
  <2> QED BY <1>2, <1>3, <1>7, <2>1, ConcatOfDistinct
<1>9. Range(output') = {pair \in Matches : Visited(pair[1], pair[2])'}
  <2>1. \A pair \in Matches :
          Visited(pair[1], pair[2])' <=> Visited(pair[1], pair[2]) \/ pair = <<i, j>>
    BY <1>1, <1>4
  <2> QED BY <1>5, <1>7, <1>8, <2>1 DEF LoopOutput
<1> QED BY <1>8, <1>9

-----------------------------------------------------------------------------
LEMMA InitLoopInv ==
  ASSUME Init, operation \in NestedLoops
  PROVE  LoopInv
<1>1. /\ left \in Inputs /\ right \in Inputs /\ output = <<>> /\ status = "running"
      /\ block_start = 0 /\ right_position = 1 /\ left_offset = 1 /\ inner_scans = 1
  BY DEF Init, NestedLoops, JoinInit, NL!LoopInit
<1>2. LoopTypeOK
  BY <1>1, InputsAssumption, EmptySeq DEF LoopTypeOK
<1>3. LoopPosition
  BY <1>1, <1>2, BlockFacts DEF LoopPosition
<1>4. LoopOutput
  <2>1. DOMAIN output = {} /\ Range(output) = {} /\ IsInjective(output)
    BY <1>1 DEF Range, IsInjective
  <2>2. ASSUME NEW pair \in Matches  PROVE ~Visited(pair[1], pair[2])
    <3>1. pair[1] \in DOMAIN left /\ pair[2] \in DOMAIN right
      BY DEF Matches, MatchesOf
    <3>2. pair[1] \in Nat \ {0} /\ pair[2] \in Nat \ {0}
      BY <1>2, <3>1, BlockFacts
    <3> QED BY <1>1, <3>2 DEF Visited
  <2> QED BY <2>1, <2>2 DEF LoopOutput
<1>5. ScanCount
  BY <1>1 DEF ScanCount
<1> QED BY <1>2, <1>3, <1>4, <1>5 DEF LoopInv

(* When the loops are through, every pair was compared.                    *)
LEMMA FinishVisitsAll ==
  ASSUME LoopTypeOK, LoopOutput, NL!Finish
  PROVE  Range(output) = Matches
<1>1. ASSUME NEW pair \in Matches  PROVE Visited(pair[1], pair[2])
  <2>1. pair[1] \in 1 .. Len(left) /\ pair[2] \in 1 .. Len(right)
    BY BlockFacts DEF Matches, MatchesOf
  <2>2. right # <<>>
    BY <2>1, EmptySeq
  <2>3. block_start >= Len(left)
    BY <2>2 DEF NL!Finish
  <2>4. block_start \in Nat /\ Len(left) \in Nat
    BY BlockFacts DEF LoopTypeOK
  <2>5. pair[1] <= block_start
    BY <2>1, <2>3, <2>4
  <2> QED BY <2>5 DEF Visited
<1> QED BY <1>1 DEF LoopOutput

LEMMA StepOfLoops ==
  ASSUME operation \in NestedLoops, Next
  PROVE  NL!Next
BY DEF Next, NestedLoops

LEMMA StepKeepsLoopInv ==
  ASSUME LoopInv, [Next]_vars
  PROVE  LoopInv'
<1> USE DEF LoopInv
<1>1. CASE NL!Compare
  <2>1. UNCHANGED <<left, right, operation, inner_scans, status>>
    BY <1>1 DEF NL!Compare, NL!EmitRows
  <2>2. Matches' = Matches /\ NL!Rescans(operation, left)' = NL!Rescans(operation, left)
    BY <2>1 DEF Matches, MatchesOf, NL!Rescans, NL!Blocks, NL!RowsPerBlock,
                NL!UsableFrames
  <2>3. LoopTypeOK'
    BY <1>1, <2>1, CompareVisits, CompareEmits DEF LoopTypeOK
  <2>4. LoopPosition'
    BY <1>1, CompareVisits
  <2>5. LoopOutput'
    BY <1>1, <2>2, CompareEmits DEF LoopOutput
  <2>6. ScanCount'
    BY <2>1, <2>2 DEF ScanCount
  <2> QED BY <2>3, <2>4, <2>5, <2>6
<1>2. CASE NL!Finish
  <2>1. /\ UNCHANGED <<left, right, output, operation, block_start, right_position, left_offset>>
        /\ status = "running" /\ status' = "done"
        /\ inner_scans' = inner_scans + NL!Rescans(operation, left)
    BY <1>2 DEF NL!Finish, NL!Return
  <2>2. /\ Matches' = Matches /\ NL!Rescans(operation, left)' = NL!Rescans(operation, left)
        /\ NL!BlockEnd' = NL!BlockEnd
    BY <2>1 DEF Matches, MatchesOf, NL!Rescans, NL!Blocks, NL!RowsPerBlock,
                NL!UsableFrames, NL!BlockEnd, NL!BlockRows
  <2>3. LoopTypeOK'
    BY <2>1 DEF LoopTypeOK
  <2>4. LoopPosition'
    BY <2>1, <2>2 DEF LoopPosition
  <2>5. LoopOutput'
    BY <2>1, <2>2 DEF LoopOutput, Visited
  <2>6. ScanCount'
    BY <2>1, <2>2 DEF ScanCount
  <2> QED BY <2>3, <2>4, <2>5, <2>6
<1>3. CASE UNCHANGED vars \/ NL!Returned
  <2>1. UNCHANGED <<left, right, output, operation, status, block_start, right_position,
                    left_offset, inner_scans>>
    BY <1>3 DEF vars, joinVars, ownLoops, NL!Returned, NL!vars, NL!joinVars, NL!loopVars
  <2>2. /\ Matches' = Matches /\ NL!Rescans(operation, left)' = NL!Rescans(operation, left)
        /\ NL!BlockEnd' = NL!BlockEnd
    BY <2>1 DEF Matches, MatchesOf, NL!Rescans, NL!Blocks, NL!RowsPerBlock,
                NL!UsableFrames, NL!BlockEnd, NL!BlockRows
  <2>3. LoopTypeOK' /\ LoopPosition' /\ ScanCount'
    BY <2>1, <2>2 DEF LoopTypeOK, LoopPosition, ScanCount
  <2>4. LoopOutput'
    BY <2>1, <2>2 DEF LoopOutput, Visited
  <2> QED BY <2>3, <2>4
<1> QED BY <1>1, <1>2, <1>3, StepOfLoops DEF LoopTypeOK, NL!Next

(* Every comparison is an Emit of the abstract join, and the return of the *)
(* operator its Finish.                                                    *)
LEMMA StepOfLoopsRefines ==
  ASSUME LoopInv, [Next]_vars
  PROVE  [EJ!Next]_(EJ!joinVars)
<1> USE DEF LoopInv
<1>1. EJ!Matches = Matches /\ EJ!Range(output) = Range(output)
      /\ (EJ!Range(output))' = Range(output') /\ EJ!IsInjective(output') = IsInjective(output')
  BY DEF EJ!Matches, EJ!MatchesOf, Matches, MatchesOf, EJ!Range, Range,
         EJ!IsInjective, IsInjective
<1>2. CASE NL!Compare
  <2>1. UNCHANGED <<left, right, reversed, status>> /\ status = "running"
    BY <1>2 DEF NL!Compare, NL!EmitRows
  <2>2. /\ IsPrefix(output, output')
        /\ IsInjective(output')
        /\ Range(output') \subseteq Matches
    BY <1>2, CompareEmits
  <2>3. EJ!Emit
    BY <1>1, <2>1, <2>2 DEF EJ!Emit, EJ!Range, EJ!IsPrefix, IsPrefix
  <2> QED BY <2>3 DEF EJ!Next
<1>3. CASE NL!Finish
  <2>1. UNCHANGED <<left, right, reversed, output>> /\ status = "running" /\ status' = "done"
    BY <1>3 DEF NL!Finish, NL!Return
  <2>2. Range(output) = Matches
    BY <1>3, FinishVisitsAll
  <2>3. EJ!Finish
    BY <1>1, <2>1, <2>2 DEF EJ!Finish, EJ!Return
  <2> QED BY <2>3 DEF EJ!Next
<1>4. CASE UNCHANGED vars \/ NL!Returned
  BY <1>4 DEF vars, joinVars, NL!Returned, NL!vars, NL!joinVars, EJ!joinVars
<1> QED BY <1>2, <1>3, <1>4, StepOfLoops DEF LoopTypeOK, NL!Next

-----------------------------------------------------------------------------
(* The nested loop joins emit each matching pair once and return when all  *)
(* are out, for every block size, last short block and empty input.        *)
THEOREM NestedLoopsImplementEquiJoin ==
  Spec /\ operation \in NestedLoops => ImplementsEquiJoin
<1>1. Init /\ operation \in NestedLoops => LoopInv
  BY InitLoopInv
<1>2. LoopInv /\ [Next]_vars => LoopInv'
  BY StepKeepsLoopInv
<1>3. LoopInv /\ [Next]_vars => [EJ!Next]_(EJ!joinVars)
  BY StepOfLoopsRefines
<1>4. Init => EJ!JoinInit
  BY DEF Init, JoinInit, EJ!JoinInit
<1> QED BY <1>1, <1>2, <1>3, <1>4, PTL DEF Spec, ImplementsEquiJoin, EJ!Spec

(* The estimator's passes over the inner child, which it computes by pages,*)
(* are those the executor makes by blocks of rows.                         *)
LEMMA RescansAsEstimated ==
  ASSUME Len(left) \in Nat, operation \in NestedLoops
  PROVE  NL!Rescans(operation, left) = NL!EstimatedRescans
<1> DEFINE n == Len(left)
           u == NL!UsableFrames
<1>1. u \in Nat \ {0} /\ TuplesPerPage \in Nat \ {0}
  BY EvaluatorAssumption DEF NL!UsableFrames, NL!JoinFrames, NL!AtLeastOne, NL!AtLeast
<1>2. \A a, b : NL!CeilDiv(a, b) = CeilDiv(a, b)
  BY DEF NL!CeilDiv, CeilDiv
<1>3. CASE operation = "nested_loop_join"
  <2>1. NL!Blocks(operation, left) = n
    <3>1. NL!Blocks(operation, left) = CeilDiv(n, 1)
      BY <1>2, <1>3 DEF NL!Blocks, NL!RowsPerBlock
    <3>2. CeilDiv(n, 1) = n
      BY CeilDivIs
    <3> QED BY <3>1, <3>2
  <2> QED BY <1>3, <2>1 DEF NL!Rescans, NL!EstimatedRescans
<1>4. CASE operation = "block_nested_loop_join"
  <2> DEFINE p == CeilDiv(n, TuplesPerPage)
  <2>1. NL!Rescans(operation, left) = NL!AtLeast(0, CeilDiv(n, u * TuplesPerPage) - 1)
    BY <1>2, <1>4 DEF NL!Rescans, NL!Blocks, NL!RowsPerBlock
  <2>2. CeilDiv(n, u * TuplesPerPage) = CeilDiv(p, u)
    BY <1>1, CeilDivTwice
  <2>3. NL!EstimatedRescans = CeilDiv(NL!AtLeastOne(p), u) - 1
    BY <1>2, <1>4 DEF NL!EstimatedRescans, NL!PagesOf
  <2>4. p \in Nat /\ CeilDiv(p, u) \in Nat /\ p <= u * CeilDiv(p, u)
    BY <1>1, CeilDivBounds
  <2> HIDE DEF p, u
  <2>5. CASE p = 0
    <3>1. CeilDiv(0, u) = 0 /\ CeilDiv(1, u) = 1
      <4>1. u * (0 - 1) < 0 /\ 0 <= u * 0 /\ u * (1 - 1) < 1 /\ 1 <= u * 1
        BY <1>1
      <4> QED BY <1>1, <4>1, CeilDivIs
    <3>2. NL!AtLeastOne(p) = 1
      BY <2>5 DEF NL!AtLeastOne, NL!AtLeast
    <3> QED BY <2>1, <2>2, <2>3, <2>5, <3>1, <3>2 DEF NL!AtLeast
  <2>6. CASE p # 0
    <3>1. NL!AtLeastOne(p) = p
      BY <2>4, <2>6 DEF NL!AtLeastOne, NL!AtLeast
    <3>2. CeilDiv(p, u) # 0
      <4>1. CeilDiv(p, u) = 0 => u * CeilDiv(p, u) = 0
        BY <1>1
      <4> QED BY <2>4, <2>6, <4>1
    <3>3. NL!AtLeast(0, CeilDiv(p, u) - 1) = CeilDiv(p, u) - 1
      BY <2>4, <3>2 DEF NL!AtLeast
    <3> QED BY <2>1, <2>2, <2>3, <3>1, <3>3
  <2> QED BY <2>5, <2>6
<1> QED BY <1>3, <1>4 DEF NestedLoops

(* An operation that is not a nested loop join stays one.                  *)
LEMMA OperationStays ==
  ASSUME operation \notin NestedLoops, [Next]_vars
  PROVE  operation' \notin NestedLoops
BY DEF Next, vars

(* Nested loops read the inner child as often as the cost formulas say,    *)
(* for every number of rows, rows a page and frames.                       *)
THEOREM NestedLoopsScanAsEstimated == Spec => []ScansAsEstimated
<1> DEFINE Inv == operation \in NestedLoops => LoopInv
<1>1. Init => Inv
  BY InitLoopInv
<1>2. Inv /\ [Next]_vars => Inv'
  BY StepKeepsLoopInv, OperationStays
<1>3. Inv => ScansAsEstimated
  <2> SUFFICES ASSUME LoopInv, status = "done", operation \in NestedLoops
               PROVE  inner_scans = 1 + NL!EstimatedRescans
    BY DEF ScansAsEstimated, NL!ScansAsEstimated
  <2>1. inner_scans = 1 + NL!Rescans(operation, left)
    BY DEF LoopInv, ScanCount
  <2>2. Len(left) \in Nat
    BY BlockFacts DEF LoopInv
  <2> QED BY <2>1, <2>2, RescansAsEstimated
<1> QED BY <1>1, <1>2, <1>3, PTL DEF Spec

-----------------------------------------------------------------------------
(* How a join ends, as the abstract join has it.                           *)
JoinEnds ==
  /\ status \in {"running", "done", "KeyError"}
  /\ status = "done" => Range(output) = Matches
  /\ status = "KeyError" => reversed /\ (left = <<>>) # (right = <<>>)

LEMMA AbstractStepEnds ==
  ASSUME JoinEnds, [EJ!Next]_(EJ!joinVars)
  PROVE  JoinEnds'
<1>1. EJ!Matches = Matches /\ EJ!Range(output) = Range(output)
  BY DEF EJ!Matches, EJ!MatchesOf, Matches, MatchesOf, EJ!Range, Range
<1>2. CASE EJ!Emit
  BY <1>2 DEF EJ!Emit, JoinEnds
<1>3. CASE EJ!Finish
  BY <1>1, <1>3 DEF EJ!Finish, EJ!Return, JoinEnds, Matches, MatchesOf
<1>4. CASE EJ!Fail
  BY <1>4 DEF EJ!Fail, EJ!RaiseKeyError, JoinEnds
<1>5. CASE UNCHANGED EJ!joinVars
  BY <1>5 DEF EJ!joinVars, JoinEnds, Matches, MatchesOf
<1> QED BY <1>2, <1>3, <1>4, <1>5 DEF EJ!Next

-----------------------------------------------------------------------------
(* The order of the output: by blocks, in a block by right rows, and under *)
(* each right row by left rows.                                            *)

LEMMA BlockOf ==
  ASSUME NEW b \in Nat \ {0}, NEW k \in Nat, NEW x \in Nat \ {0}
  PROVE  /\ (x - 1) \div b \in Nat
         /\ x <= b * k <=> (x - 1) \div b < k
<1> DEFINE q == (x - 1) \div b
           r == (x - 1) % b
<1>1. q \in Nat /\ r \in 0 .. b - 1 /\ x - 1 = (b * q) + r
  BY SMT
<1> HIDE DEF q, r
<1>2. b * q \in Nat /\ b * k \in Nat /\ b * (q + 1) = (b * q) + b
  BY <1>1, SMT
<1>3. CASE q < k
  <2>1. b * (q + 1) <= b * k
    BY <1>1, <1>3, TimesMonotonic
  <2> QED BY <1>1, <1>2, <1>3, <2>1 DEF q
<1>4. CASE k <= q
  <2>1. b * k <= b * q
    BY <1>1, <1>4, TimesMonotonic
  <2>2. ~(x <= b * k) /\ ~(q < k)
    BY <1>1, <1>2, <1>4, <2>1
  <2> QED BY <1>1, <2>2 DEF q
<1> QED BY <1>1, <1>3, <1>4

OrderOfOutput == OutputOrder(operation, left, right, hash)

WholeBlocks(k) == k \in Nat /\ block_start = NL!BlockRows * k

LoopOrdered ==
  /\ \E k \in Nat : WholeBlocks(k)
  /\ InOrder(output, OrderOfOutput)
  /\ status = "done" => Range(output) = Matches

LEMMA LoopOrderIs ==
  ASSUME LoopTypeOK
  PROVE  \A p, q \in Matches :
           <<p, q>> \in OrderOfOutput <=>
             Earlier3((p[1] - 1) \div NL!BlockRows, p[2], p[1],
                      (q[1] - 1) \div NL!BlockRows, q[2], q[1])
<1> DEFINE b == NL!BlockRows
<1>1. b \in Nat \ {0} /\ DOMAIN left = 1 .. Len(left) /\ DOMAIN right = 1 .. Len(right)
      /\ Len(left) \in Nat /\ Len(right) \in Nat
  BY BlockFacts
<1>2. RowsPerBlock(operation) = b
  BY DEF RowsPerBlock, NL!BlockRows, NL!RowsPerBlock, UsableFrames, NL!UsableFrames,
         JoinFrames, NL!JoinFrames, AtLeastOne, NL!AtLeastOne, AtLeast, NL!AtLeast
<1> HIDE DEF b
<1>3. ASSUME NEW p \in Matches
      PROVE  /\ p[1] \in Int /\ p[2] \in Int /\ (p[1] - 1) \div b \in Int
             /\ OutputRank(operation, left, right, hash, p) = <<(p[1] - 1) \div b, p[2], p[1]>>
  <2>1. p[1] \in 1 .. Len(left) /\ p[2] \in 1 .. Len(right)
    BY <1>1 DEF Matches, MatchesOf
  <2>2. (p[1] - 1) \div b \in Int
    BY <1>1, <2>1, SMT
  <2>3. OutputRank(operation, left, right, hash, p)
          = <<(p[1] - 1) \div RowsPerBlock(operation), p[2], p[1]>>
    BY DEF OutputRank, LoopTypeOK, NestedLoops
  <2> QED BY <1>1, <1>2, <2>1, <2>2, <2>3
<1> SUFFICES ASSUME NEW p \in Matches, NEW q \in Matches
             PROVE  <<p, q>> \in OrderOfOutput <=>
                      Earlier3((p[1] - 1) \div b, p[2], p[1], (q[1] - 1) \div b, q[2], q[1])
  BY DEF b
<1>4. <<p, q>> \in OrderOfOutput <=>
        RankBefore(OutputRank(operation, left, right, hash, p),
                   OutputRank(operation, left, right, hash, q))
  BY DEF OrderOfOutput, OutputOrder, Matches
<1>5. RankBefore(<<(p[1] - 1) \div b, p[2], p[1]>>, <<(q[1] - 1) \div b, q[2], q[1]>>)
        <=> Earlier3((p[1] - 1) \div b, p[2], p[1], (q[1] - 1) \div b, q[2], q[1])
  BY <1>3, RankBeforeIs
<1> QED BY <1>3, <1>4, <1>5

(* Of two rows of the outer input in blocks of b rows: a row of an earlier *)
(* block, or of this block under an earlier right row, or earlier under    *)
(* this one, ranks before the row that is compared.                        *)
LEMMA RankOfVisited ==
  ASSUME NEW b \in Nat \ {0}, NEW k \in Nat,
         NEW i \in Nat \ {0}, NEW j \in Nat, NEW x \in Nat \ {0}, NEW y \in Nat,
         b * k < i, i <= (b * k) + b,
         \/ x <= b * k
         \/ x <= (b * k) + b /\ y < j
         \/ y = j /\ x < i
  PROVE  Earlier3((x - 1) \div b, y, x, (i - 1) \div b, j, i)
<1>1. b * k \in Nat /\ b * (k + 1) = (b * k) + b
  BY SMT
<1>2. /\ (i - 1) \div b \in Nat
      /\ i <= b * k <=> (i - 1) \div b < k
      /\ i <= b * (k + 1) <=> (i - 1) \div b < k + 1
  BY BlockOf
<1>3. /\ (x - 1) \div b \in Nat
      /\ x <= b * k <=> (x - 1) \div b < k
      /\ x <= b * (k + 1) <=> (x - 1) \div b < k + 1
  BY BlockOf
<1> DEFINE p == (i - 1) \div b
           q == (x - 1) \div b
           bk == b * k
           bk1 == b * (k + 1)
<1>4. /\ p \in Nat /\ (i <= bk <=> p < k) /\ (i <= bk1 <=> p < k + 1)
      /\ q \in Nat /\ (x <= bk <=> q < k) /\ (x <= bk1 <=> q < k + 1)
      /\ bk \in Nat /\ bk1 = bk + b /\ bk < i /\ i <= bk + b
      /\ (x <= bk \/ (x <= bk + b /\ y < j) \/ (y = j /\ x < i))
  BY <1>1, <1>2, <1>3
<1> SUFFICES Earlier3(q, y, x, p, j, i)
  BY DEF p, q
<1> HIDE DEF p, q, bk, bk1
<1>5. p = k
  BY <1>4
<1>6. q < k \/ q = k
  BY <1>4
<1> QED BY <1>4, <1>5, <1>6 DEF Earlier3

(* What was compared before ranks before what is compared now.             *)
LEMMA VisitedRanksBefore ==
  ASSUME LoopTypeOK, LoopPosition, NL!Compare, NEW k \in Nat, WholeBlocks(k),
         NEW x \in DOMAIN left, NEW y \in DOMAIN right, Visited(x, y)
  PROVE  Earlier3((x - 1) \div NL!BlockRows, y, x,
                  ((block_start + left_offset) - 1) \div NL!BlockRows, right_position,
                  block_start + left_offset)
<1> DEFINE b == NL!BlockRows
           e == NL!BlockEnd
           n == Len(left)
           i == block_start + left_offset
<1>1. DOMAIN left = 1 .. Len(left) /\ DOMAIN right = 1 .. Len(right)
  BY BlockFacts
<1>2. x \in Nat \ {0} /\ y \in Nat
  <2>1. Len(left) \in Nat /\ Len(right) \in Nat
    BY BlockFacts
  <2>2. x \in 1 .. Len(left) /\ y \in 1 .. Len(right)
    BY <1>1
  <2> QED BY <2>1, <2>2
<1>3. b \in Nat \ {0} /\ n \in Nat
  BY BlockFacts
<1>4. e = IF block_start + b <= n THEN block_start + b ELSE n
  BY BlockFacts
<1>5. block_start \in Nat /\ left_offset \in Nat \ {0} /\ right_position \in Nat
  BY DEF LoopTypeOK
<1>6. block_start = b * k
  BY DEF WholeBlocks
<1>7. block_start + left_offset <= e
  BY DEF NL!Compare
<1>8. \/ x <= block_start
      \/ x <= e /\ y < right_position
      \/ y = right_position /\ x < block_start + left_offset
  BY DEF Visited
<1> HIDE DEF b, e, n
<1>9. e <= block_start + b
  BY <1>3, <1>4, <1>5
<1>10. e \in Int
  BY <1>3, <1>4, <1>5
<1>11. i \in Nat \ {0} /\ block_start < i /\ i <= block_start + b
  BY <1>3, <1>5, <1>7, <1>9, <1>10
<1>12. \/ x <= block_start
       \/ x <= block_start + b /\ y < right_position
       \/ y = right_position /\ x < i
  BY <1>2, <1>3, <1>5, <1>8, <1>9, <1>10
<1> HIDE DEF i
<1>13. Earlier3((x - 1) \div b, y, x, (i - 1) \div b, right_position, i)
  BY <1>2, <1>3, <1>5, <1>6, <1>11, <1>12, RankOfVisited
<1> QED BY <1>13 DEF i, b

LEMMA InitLoopOrdered ==
  ASSUME Init, operation \in NestedLoops
  PROVE  LoopOrdered
<1>1. output = <<>> /\ status = "running" /\ block_start = 0
  BY DEF Init, NestedLoops, JoinInit, NL!LoopInit
<1>2. NL!BlockRows \in Nat \ {0}
  BY InitLoopInv, BlockFacts DEF LoopInv
<1>3. WholeBlocks(0)
  BY <1>1, <1>2 DEF WholeBlocks
<1>4. InOrder(output, OrderOfOutput)
  BY <1>1 DEF InOrder
<1> QED BY <1>1, <1>3, <1>4 DEF LoopOrdered

LEMMA CompareKeepsOrder ==
  ASSUME LoopInv, LoopOrdered, NL!Compare, hash' = hash
  PROVE  LoopOrdered'
<1> DEFINE i == block_start + left_offset
           j == right_position
           b == NL!BlockRows
           new == IF left[i] = right[j] THEN <<<<i, j>>>> ELSE <<>>
<1>1. /\ UNCHANGED <<left, right, operation, status>> /\ status = "running"
      /\ output' = output \o new
      /\ block_start' = block_start \/ block_start' = block_start + b
  BY DEF NL!Compare, NL!EmitRows, NL!NextRowOfBlock, NL!NextRightRow, NL!NextBlock
<1>2. LoopTypeOK /\ LoopPosition /\ LoopOutput
  BY DEF LoopInv
<1>3. PICK k \in Nat : WholeBlocks(k)
  BY DEF LoopOrdered
<1>4. b' = b /\ OrderOfOutput' = OrderOfOutput
  BY <1>1 DEF NL!BlockRows, NL!RowsPerBlock, NL!UsableFrames, OrderOfOutput, OutputOrder,
              MatchesOf, OutputRank, RowsPerBlock, BuildIsLeft, PartitionOf, PartitionCount,
              Spills, BuildRows, PagesOf
<1>5. i \in DOMAIN left /\ j \in DOMAIN right /\ i \in Nat /\ j \in Nat
  BY <1>2, CompareVisits DEF LoopTypeOK
<1>6. \E n \in Nat : WholeBlocks(n)'
  <2>1. b \in Nat \ {0} /\ block_start = b * k
    BY <1>2, <1>3, BlockFacts DEF WholeBlocks
  <2>2. b * (k + 1) = (b * k) + b
    BY <2>1, SMT
  <2>3. block_start' = b * k \/ block_start' = b * (k + 1)
    BY <1>1, <2>1, <2>2
  <2> HIDE DEF b
  <2>4. k + 1 \in Nat
    OBVIOUS
  <2> QED BY <1>4, <2>3, <2>4 DEF WholeBlocks, b
<1>7. InOrder(output', OrderOfOutput)
  <2>1. CASE left[i] # right[j]
    <3>1. new = <<>>
      BY <2>1
    <3>2. output' = output
      BY <1>1, <1>2, <3>1 DEF LoopTypeOK
    <3> QED BY <3>2 DEF LoopOrdered
  <2>2. CASE left[i] = right[j]
    <3>1. <<i, j>> \in Matches
      BY <1>5, <2>2 DEF Matches, MatchesOf
    <3>2. ASSUME NEW x \in Range(output)  PROVE <<x, <<i, j>>>> \in OrderOfOutput
      <4>1. x \in Matches /\ Visited(x[1], x[2])
        BY <1>2 DEF LoopOutput
      <4>2. x[1] \in DOMAIN left /\ x[2] \in DOMAIN right
        BY <4>1 DEF Matches, MatchesOf
      <4>3. Earlier3((x[1] - 1) \div b, x[2], x[1], (i - 1) \div b, j, i)
        BY <1>2, <1>3, <4>1, <4>2, VisitedRanksBefore
      <4>4. <<i, j>>[1] = i /\ <<i, j>>[2] = j
        OBVIOUS
      <4> HIDE DEF i, j
      <4> QED BY <1>2, <3>1, <4>1, <4>3, <4>4, LoopOrderIs
    <3>3. new = <<<<i, j>>>>
      BY <2>2
    <3> HIDE DEF new, i, j
    <3>4. /\ new \in Seq(Nat \X Nat) /\ DOMAIN new = {1} /\ Range(new) = {<<i, j>>}
          /\ output \in Seq(Nat \X Nat)
      <4>1. new \in Seq(Nat \X Nat) /\ DOMAIN new = {1} /\ new[1] = <<i, j>>
        BY <1>5, <3>3
      <4> QED BY <1>2, <4>1 DEF Range, LoopTypeOK
    <3>5. InOrder(new, OrderOfOutput)
      <4>1. \A m, n \in DOMAIN new : ~(m < n)
        BY <3>4
      <4> QED BY <4>1 DEF InOrder
    <3>6. \A x \in Range(output), y \in Range(new) : <<x, y>> \in OrderOfOutput
      BY <3>2, <3>4
    <3>7. InOrder(output, OrderOfOutput)
      BY DEF LoopOrdered
    <3> QED BY <1>1, <3>4, <3>5, <3>6, <3>7, ConcatInOrder
  <2> QED BY <2>1, <2>2
<1> QED BY <1>1, <1>4, <1>6, <1>7 DEF LoopOrdered

LEMMA StepKeepsLoopOrdered ==
  ASSUME LoopInv, LoopOrdered, [Next]_vars
  PROVE  LoopOrdered'
<1>1. hash' = hash
  BY DEF Next, vars, ownHash, LoopInv, LoopTypeOK, NestedLoops
<1>2. CASE NL!Compare
  BY <1>1, <1>2, CompareKeepsOrder
<1>3. CASE NL!Finish \/ UNCHANGED vars \/ NL!Returned
  <2>1. UNCHANGED <<left, right, output, operation, block_start>>
    BY <1>3 DEF NL!Finish, NL!Return, vars, joinVars, ownLoops, NL!Returned, NL!vars,
                NL!joinVars, NL!loopVars
  <2>2. \A k : WholeBlocks(k)' = WholeBlocks(k)
    BY <2>1 DEF WholeBlocks, NL!BlockRows, NL!RowsPerBlock, NL!UsableFrames
  <2>3. OrderOfOutput' = OrderOfOutput /\ Matches' = Matches
    BY <1>1, <2>1 DEF OrderOfOutput, OutputOrder,
              Matches, MatchesOf, OutputRank, RowsPerBlock, BuildIsLeft, PartitionOf,
              PartitionCount, Spills, BuildRows, PagesOf
  <2>4. status' = "done" => Range(output) = Matches
    <3>1. CASE NL!Finish
      BY <3>1, FinishVisitsAll DEF LoopInv
    <3>2. CASE UNCHANGED vars \/ NL!Returned
      BY <3>2 DEF vars, joinVars, NL!Returned, NL!vars, NL!joinVars, LoopOrdered
    <3> QED BY <1>3, <3>1, <3>2
  <2>5. InOrder(output', OrderOfOutput')
    BY <2>1, <2>3 DEF LoopOrdered
  <2>6. \E k \in Nat : WholeBlocks(k)'
    BY <2>2 DEF LoopOrdered
  <2> QED BY <2>1, <2>3, <2>4, <2>5, <2>6 DEF LoopOrdered
<1> QED BY <1>2, <1>3, StepOfLoops DEF LoopInv, LoopTypeOK, NL!Next

(* There is one list of the matches in this order, and the loops make it.  *)
LEMMA LoopsEndAsResult ==
  ASSUME LoopInv, LoopOrdered, status # "running"
  PROVE  /\ status = "done" /\ operation \in NestedLoops
         /\ ~JoinFails(operation, reversed, left, right)
         /\ output = JoinOutput(operation, left, right, hash)
<1>1. /\ status = "done" /\ operation \in NestedLoops
      /\ output \in Seq(Nat \X Nat) /\ LoopTypeOK
  BY DEF LoopInv, LoopTypeOK
<1>2. ~JoinFails(operation, reversed, left, right)
  BY <1>1 DEF JoinFails, NestedLoops
<1>3. IsTotalOrder(OrderOfOutput, Matches)
  <2> DEFINE b == NL!BlockRows
             f == [p \in Matches |-> (p[1] - 1) \div b]
             g == [p \in Matches |-> p[2]]
             h == [p \in Matches |-> p[1]]
  <2>1. \A p \in Matches : /\ p[1] \in Int /\ p[2] \in Int /\ (p[1] - 1) \div b \in Int
                           /\ p = <<p[1], p[2]>>
    <3> SUFFICES ASSUME NEW p \in Matches
                 PROVE  p[1] \in Int /\ p[2] \in Int /\ (p[1] - 1) \div b \in Int
                        /\ p = <<p[1], p[2]>>
      OBVIOUS
    <3>1. p[1] \in DOMAIN left /\ p[2] \in DOMAIN right /\ p = <<p[1], p[2]>>
      BY DEF Matches, MatchesOf
    <3>2. p[1] \in Int /\ p[2] \in Int /\ b \in Nat \ {0}
      BY <1>1, <3>1, BlockFacts
    <3> HIDE DEF b
    <3>3. (p[1] - 1) \div b \in Int
      BY <3>2, SMT
    <3> QED BY <3>1, <3>2, <3>3
  <2>2. f \in [Matches -> Int] /\ g \in [Matches -> Int] /\ h \in [Matches -> Int]
    BY <2>1
  <2>3. \A p, q \in Matches : f[p] = f[q] /\ g[p] = g[q] /\ h[p] = h[q] => p = q
    BY <2>1
  <2>4. \A p, q \in Matches :
          <<p, q>> \in OrderOfOutput <=> Earlier3(f[p], g[p], h[p], f[q], g[q], h[q])
    BY <1>1, LoopOrderIs
  <2> HIDE DEF f, g, h
  <2> QED BY <2>2, <2>3, <2>4, RanksAreTotal
<1>4. output = Arranged(Matches, OrderOfOutput)
  BY <1>1, <1>3, InOrderIsArranged DEF LoopOrdered
<1>5. output = JoinOutput(operation, left, right, hash)
  BY <1>4 DEF JoinOutput, OrderOfOutput, Matches
<1> QED BY <1>1, <1>2, <1>5

-----------------------------------------------------------------------------
LEMMA AppendOfDistinct ==
  ASSUME NEW p \in Seq(Nat), NEW r \in Nat, IsInjective(p), r \notin Range(p)
  PROVE  /\ Append(p, r) \in Seq(Nat)
         /\ IsInjective(Append(p, r))
         /\ Range(Append(p, r)) = Range(p) \cup {r}
<1> DEFINE u == <<r>>
<1>1. Append(p, r) = p \o u
  BY AppendIsConcat
<1>2. u \in Seq(Nat) /\ IsInjective(u) /\ Range(u) = {r}
  BY DEF IsInjective, Range
<1>3. Range(p) \cap Range(u) = {}
  BY <1>2
<1> HIDE DEF u
<1>4. /\ p \o u \in Seq(Nat) /\ IsInjective(p \o u)
      /\ Range(p \o u) = Range(p) \cup Range(u)
  BY <1>2, <1>3, ConcatOfDistinct
<1> QED BY <1>1, <1>2, <1>4

-----------------------------------------------------------------------------
(* Partitions.  owner says for each of the rows which partition it is for. *)

(* The rows up to some position are divided.                               *)
Divided(partitions, owner, upto, count) ==
  /\ partitions \in Seq(Seq(Nat))
  /\ Len(partitions) = count
  /\ \A n \in 1 .. count :
       /\ IsInjective(partitions[n])
       /\ Range(partitions[n]) = {r \in 1 .. upto : owner[r] = n}

LEMMA NothingDivided ==
  ASSUME NEW count \in Nat, NEW owner
  PROVE  Divided([n \in 1 .. count |-> <<>>], owner, 0, count)
<1> DEFINE parts == [n \in 1 .. count |-> <<>>]
<1>1. <<>> \in Seq(Nat) /\ Range(<<>>) = {} /\ IsInjective(<<>>)
  BY EmptySeq DEF Range, IsInjective
<1>2. parts \in Seq(Seq(Nat)) /\ Len(parts) = count
  BY <1>1
<1> QED BY <1>1, <1>2 DEF Divided

LEMMA AllInOnePartition ==
  ASSUME NEW len \in Nat, NEW owner, \A r \in 1 .. len : owner[r] = 1
  PROVE  Divided(<<[r \in 1 .. len |-> r]>>, owner, len, 1)
<1> DEFINE all == [r \in 1 .. len |-> r]
<1>1. all \in Seq(Nat) /\ DOMAIN all = 1 .. len
  OBVIOUS
<1>2. IsInjective(all) /\ Range(all) = 1 .. len
  BY <1>1 DEF IsInjective, Range
<1>3. {r \in 1 .. len : owner[r] = 1} = 1 .. len
  OBVIOUS
<1> HIDE DEF all
<1>4. <<all>> \in Seq(Seq(Nat)) /\ Len(<<all>>) = 1 /\ <<all>>[1] = all
  BY <1>1
<1>5. \A n \in 1 .. 1 : n = 1
  OBVIOUS
<1>6. Divided(<<all>>, owner, len, 1)
  BY <1>2, <1>3, <1>4, <1>5 DEF Divided
<1> QED BY <1>6 DEF all

(* One more row goes to the end of its partition.                          *)
LEMMA OneMoreDivided ==
  ASSUME NEW count \in Nat, NEW upto \in Nat, NEW owner, NEW partitions,
         Divided(partitions, owner, upto, count),
         owner[upto + 1] \in 1 .. count
  PROVE  Divided([partitions EXCEPT ![owner[upto + 1]] = Append(@, upto + 1)],
                 owner, upto + 1, count)
<1> DEFINE o == owner[upto + 1]
           r == upto + 1
           grown == Append(partitions[o], r)
           new == [partitions EXCEPT ![o] = grown]
<1>1. /\ partitions \in Seq(Seq(Nat)) /\ Len(partitions) = count /\ o \in 1 .. count
      /\ DOMAIN partitions = 1 .. count
  BY LenProperties DEF Divided
<1>2. partitions[o] \in Seq(Nat) /\ r \in Nat
  BY <1>1, ElementOfSeq
<1>3. IsInjective(partitions[o]) /\ Range(partitions[o]) = {x \in 1 .. upto : owner[x] = o}
  BY <1>1 DEF Divided
<1>4. r \notin Range(partitions[o])
  BY <1>3
<1>5. grown \in Seq(Nat) /\ IsInjective(grown) /\ Range(grown) = Range(partitions[o]) \cup {r}
  BY <1>2, <1>3, <1>4, AppendOfDistinct
<1> HIDE DEF grown
<1>6. /\ new \in Seq(Seq(Nat)) /\ Len(new) = count
      /\ \A n \in 1 .. count : new[n] = IF n = o THEN grown ELSE partitions[n]
  BY <1>1, <1>5, ExceptSeq
<1> HIDE DEF new
<1>7. ASSUME NEW n \in 1 .. count
      PROVE  /\ IsInjective(new[n])
             /\ Range(new[n]) = {x \in 1 .. upto + 1 : owner[x] = n}
  <2>1. \A x \in 1 .. upto + 1 : x \in 1 .. upto \/ x = r
    OBVIOUS
  <2>2. \A x \in 1 .. upto : x \in 1 .. upto + 1
    OBVIOUS
  <2>3. r \in 1 .. upto + 1
    OBVIOUS
  <2>4. CASE n = o
    <3>1. Range(new[n]) = {x \in 1 .. upto : owner[x] = o} \cup {r}
      BY <1>3, <1>5, <1>6, <2>4
    <3>2. {x \in 1 .. upto : owner[x] = o} \cup {r} = {x \in 1 .. upto + 1 : owner[x] = n}
      <4> HIDE DEF r
      <4>1. owner[r] = n
        BY <2>4 DEF r
      <4> QED BY <2>1, <2>2, <2>3, <2>4, <4>1
    <3> QED BY <1>5, <1>6, <2>4, <3>1, <3>2
  <2>5. CASE n # o
    <3>1. IsInjective(new[n]) /\ Range(new[n]) = {x \in 1 .. upto : owner[x] = n}
      BY <1>6, <2>5 DEF Divided
    <3>2. {x \in 1 .. upto : owner[x] = n} = {x \in 1 .. upto + 1 : owner[x] = n}
      BY <2>1, <2>2, <2>5
    <3> QED BY <3>1, <3>2
  <2> QED BY <2>4, <2>5
<1>8. Divided(new, owner, upto + 1, count)
  BY <1>6, <1>7 DEF Divided
<1> QED BY <1>8 DEF new, grown

-----------------------------------------------------------------------------
(* Hash tables.  list are the rows of a partition, key_of has the key of  *)
(* each row.                                                               *)

RowsIn(table, k) == IF k \in DOMAIN table THEN table[k] ELSE <<>>

(* The rows up to some position of the list are in the table.              *)
Tabled(table, list, key_of, upto) ==
  \A k : /\ RowsIn(table, k) \in Seq(Nat)
         /\ IsInjective(RowsIn(table, k))
         /\ Range(RowsIn(table, k)) =
              {b \in DOMAIN key_of : key_of[b] = k /\ \E x \in 1 .. upto : list[x] = b}

LEMMA NothingTabled ==
  ASSUME NEW list, NEW key_of
  PROVE  Tabled(<<>>, list, key_of, 0)
<1>1. \A k : RowsIn(<<>>, k) = <<>>
  BY DEF RowsIn
<1>2. <<>> \in Seq(Nat) /\ Range(<<>>) = {} /\ IsInjective(<<>>)
  BY EmptySeq DEF Range, IsInjective
<1>3. \A x \in 1 .. 0 : FALSE
  OBVIOUS
<1> QED BY <1>1, <1>2, <1>3 DEF Tabled

(* One more row goes to the end of the rows of its key.                    *)
LEMMA OneMoreTabled ==
  ASSUME NEW table, NEW list \in Seq(Nat), NEW key_of, NEW upto \in Nat,
         Tabled(table, list, key_of, upto),
         IsInjective(list), upto + 1 <= Len(list), list[upto + 1] \in DOMAIN key_of
  PROVE  LET row == list[upto + 1]
             key == key_of[row]
         IN  Tabled([k \in DOMAIN table \cup {key} |->
                      IF k = key THEN Append(RowsIn(table, k), row) ELSE table[k]],
                    list, key_of, upto + 1)
<1> DEFINE row == list[upto + 1]
           key == key_of[row]
           old == RowsIn(table, key)
           new == [k \in DOMAIN table \cup {key} |->
                    IF k = key THEN Append(RowsIn(table, k), row) ELSE table[k]]
<1>1. \A k : RowsIn(new, k) = IF k = key THEN Append(old, row) ELSE RowsIn(table, k)
  BY DEF RowsIn
<1>2. /\ Len(list) \in Nat /\ DOMAIN list = 1 .. Len(list)
      /\ upto + 1 \in 1 .. Len(list)
      /\ \A x \in 1 .. upto : x \in 1 .. Len(list) /\ x # upto + 1
  BY LenProperties
<1>3. row \in Nat
  BY <1>2, ElementOfSeq
<1>4. old \in Seq(Nat) /\ IsInjective(old)
      /\ Range(old) = {b \in DOMAIN key_of : key_of[b] = key /\ \E x \in 1 .. upto : list[x] = b}
  BY DEF Tabled
<1>5. \A x \in 1 .. upto : list[x] # row
  BY <1>2 DEF IsInjective
<1>6. row \in DOMAIN key_of
  OBVIOUS
<1>7. \A b : (\E x \in 1 .. upto + 1 : list[x] = b)
              <=> (\E x \in 1 .. upto : list[x] = b) \/ b = row
  <2>1. \A x \in 1 .. upto + 1 : x \in 1 .. upto \/ x = upto + 1
    OBVIOUS
  <2>2. upto + 1 \in 1 .. upto + 1 /\ \A x \in 1 .. upto : x \in 1 .. upto + 1
    OBVIOUS
  <2> QED BY <2>1, <2>2
<1> HIDE DEF new, old, row
<1>8. row \notin Range(old)
  BY <1>4, <1>5
<1>9. /\ Append(old, row) \in Seq(Nat) /\ IsInjective(Append(old, row))
      /\ Range(Append(old, row)) = Range(old) \cup {row}
  BY <1>3, <1>4, <1>8, AppendOfDistinct
<1>10. ASSUME NEW k
       PROVE  /\ RowsIn(new, k) \in Seq(Nat) /\ IsInjective(RowsIn(new, k))
              /\ Range(RowsIn(new, k)) =
                   {b \in DOMAIN key_of : key_of[b] = k /\ \E x \in 1 .. upto + 1 : list[x] = b}
  <2>1. CASE k = key
    <3>1. RowsIn(new, k) = Append(old, row)
      BY <1>1, <2>1
    <3>2. Range(old) \cup {row} =
            {b \in DOMAIN key_of : key_of[b] = k /\ \E x \in 1 .. upto + 1 : list[x] = b}
      BY <1>4, <1>6, <1>7, <2>1, key_of[row] = key DEF row
    <3> QED BY <1>9, <3>1, <3>2
  <2>2. CASE k # key
    <3>1. RowsIn(new, k) = RowsIn(table, k)
      BY <1>1, <2>2
    <3>2. \A b : key_of[b] = k => b # row
      BY <2>2
    <3>3. {b \in DOMAIN key_of : key_of[b] = k /\ \E x \in 1 .. upto : list[x] = b}
          = {b \in DOMAIN key_of : key_of[b] = k /\ \E x \in 1 .. upto + 1 : list[x] = b}
      BY <1>7, <3>2
    <3> QED BY <3>1, <3>3 DEF Tabled
  <2> QED BY <2>1, <2>2
<1>11. Tabled(new, list, key_of, upto + 1)
  BY <1>10 DEF Tabled
<1> QED BY <1>11 DEF new, row

-----------------------------------------------------------------------------
(* The partition each row is for, and the output row of two partners.      *)
BuildOwner == [r \in DOMAIN HJ!Build |-> HJ!BuildPartitionOf(HJ!Build[r])]
ProbeOwner == [r \in DOMAIN HJ!Probe |-> HJ!ProbePartitionOf(HJ!Probe[r])]

PairOf(b, p) == IF HJ!BuildLeft THEN <<b, p>> ELSE <<p, b>>
ProbeRowOf(pair) == IF HJ!BuildLeft THEN pair[2] ELSE pair[1]

(* The probe rows that are done: of earlier partitions, or earlier in the  *)
(* partition.                                                              *)
Probed(p) ==
  \/ ProbeOwner[p] < partition
  \/ next = "probe" /\ \E x \in 1 .. position - 1 : probe_partitions[partition][x] = p

HashTypeOK ==
  /\ operation = "hash_join"
  /\ left \in Seq(Range(left)) /\ right \in Seq(Range(right))
  /\ reversed \in BOOLEAN
  /\ \A k \in Range(left) \cup Range(right) : hash[k] \in Nat
  /\ partition \in Nat \ {0} /\ position \in Nat \ {0}
  /\ output \in Seq(Nat \X Nat)

(* The hash table holds so many rows of the partition.                     *)
TableHolds(upto) == Tabled(hash_table, build_partitions[partition], HJ!Build, upto)

(* How far the two inputs are divided in each phase.                       *)
BuildDivided(upto) == Divided(build_partitions, BuildOwner, upto, HJ!Partitions)
ProbeDivided(upto) == Divided(probe_partitions, ProbeOwner, upto, HJ!Partitions)
BothDivided == BuildDivided(Len(HJ!Build)) /\ ProbeDivided(Len(HJ!Probe))

BeforeTable == partition = 1 /\ hash_table = <<>>

HashPhase ==
  \/ /\ next = "start"
     /\ BeforeTable /\ position = 1
  \/ /\ next = "partition build"
     /\ BeforeTable /\ position - 1 <= Len(HJ!Build)
     /\ BuildDivided(position - 1) /\ ProbeDivided(0)
  \/ /\ next = "partition probe"
     /\ BeforeTable /\ position - 1 <= Len(HJ!Probe)
     /\ BuildDivided(Len(HJ!Build)) /\ ProbeDivided(position - 1)
  \/ /\ next = "spill"
     /\ BeforeTable /\ position = 1
     /\ BothDivided
  \/ /\ next = "build"
     /\ partition <= HJ!Partitions
     /\ position - 1 <= Len(build_partitions[partition])
     /\ BothDivided /\ TableHolds(position - 1)
  \/ /\ next = "probe"
     /\ partition <= HJ!Partitions
     /\ position - 1 <= Len(probe_partitions[partition])
     /\ BothDivided /\ TableHolds(Len(build_partitions[partition]))

HashOutput ==
  /\ IsInjective(output)
  /\ Range(output) = {pair \in Matches : Probed(ProbeRowOf(pair))}

HashInv ==
  /\ HashTypeOK
  /\ HashOutput
  /\ status = "running" => HashPhase

LEMMA HashFacts ==
  ASSUME HashTypeOK
  PROVE  /\ HJ!Partitions \in Nat \ {0}
         /\ ~HJ!Spills(left, right) => HJ!Partitions = 1
         /\ Len(HJ!Build) \in Nat /\ DOMAIN HJ!Build = 1 .. Len(HJ!Build)
         /\ Len(HJ!Probe) \in Nat /\ DOMAIN HJ!Probe = 1 .. Len(HJ!Probe)
         /\ \A b \in DOMAIN HJ!Build : BuildOwner[b] \in 1 .. HJ!Partitions
         /\ \A p \in DOMAIN HJ!Probe : ProbeOwner[p] \in 1 .. HJ!Partitions
         /\ \A b \in DOMAIN HJ!Build, p \in DOMAIN HJ!Probe :
              HJ!Build[b] = HJ!Probe[p] => BuildOwner[b] = ProbeOwner[p]
<1>1. /\ Len(left) \in Nat /\ DOMAIN left = 1 .. Len(left)
      /\ Len(right) \in Nat /\ DOMAIN right = 1 .. Len(right)
  BY LenProperties DEF HashTypeOK
<1>2. HJ!Build \in {left, right} /\ HJ!Probe \in {left, right}
  BY DEF HJ!Build, HJ!BuildRows, HJ!BuildIsLeft, HJ!Probe
<1>3. /\ \A b \in DOMAIN HJ!Build : hash[HJ!Build[b]] \in Nat
      /\ \A p \in DOMAIN HJ!Probe : hash[HJ!Probe[p]] \in Nat
  BY <1>2 DEF HashTypeOK, Range
<1>4. HJ!Partitions \in Nat \ {0} /\ (~HJ!Spills(left, right) => HJ!Partitions = 1)
  <2> DEFINE pages == HJ!PagesOf(HJ!BuildRows(left, right))
             needed == HJ!CeilDiv(pages, HJ!UsableFrames)
  <2>1. CASE ~HJ!Spills(left, right)
    BY <2>1 DEF HJ!Partitions, HJ!PartitionCount
  <2>2. CASE HJ!Spills(left, right)
    <3>1. HJ!UsableFrames \in Nat \ {0}
      BY HashFramesAssumption
         DEF HJ!UsableFrames, HJ!JoinFrames, HJ!AtLeastOne, HJ!AtLeast
    <3>2. \A a, b : HJ!CeilDiv(a, b) = CeilDiv(a, b)
      BY DEF HJ!CeilDiv, CeilDiv
    <3>3. HJ!Build = HJ!BuildRows(left, right) /\ Len(HJ!Build) \in Nat
      BY <1>1, <1>2 DEF HJ!Build
    <3>4. pages = CeilDiv(Len(HJ!Build), TuplesPerPage)
      BY <3>2, <3>3 DEF HJ!PagesOf
    <3>5. pages \in Nat
      BY <3>3, <3>4, CeilDivBounds, EvaluatorAssumption
    <3> HIDE DEF pages
    <3>6. needed \in Nat
      BY <3>1, <3>2, <3>5, CeilDivBounds
    <3>7. HJ!Partitions = HJ!AtLeast(2, needed)
      BY <2>2 DEF HJ!Partitions, HJ!PartitionCount, pages
    <3> HIDE DEF needed
    <3> QED BY <2>2, <3>6, <3>7 DEF HJ!AtLeast
  <2> QED BY <2>1, <2>2
<1>5. \A k : hash[k] \in Nat => HJ!BuildPartitionOf(k) \in 1 .. HJ!Partitions
  <2> SUFFICES ASSUME NEW k, hash[k] \in Nat
               PROVE  1 + (hash[k] % HJ!Partitions) \in 1 .. HJ!Partitions
    BY DEF HJ!BuildPartitionOf, HJ!PartitionOf, HJ!Partitions
  <2>1. hash[k] % HJ!Partitions \in 0 .. HJ!Partitions - 1
    BY <1>4
  <2> QED BY <1>4, <2>1
<1>6. \A k : HJ!ProbePartitionOf(k) = HJ!BuildPartitionOf(k)
  BY DEF HJ!ProbePartitionOf
<1> QED BY <1>1, <1>2, <1>3, <1>4, <1>5, <1>6 DEF BuildOwner, ProbeOwner

(* Output rows are matches, and each match is the output row of its two.   *)
LEMMA PairFacts ==
  /\ \A b \in DOMAIN HJ!Build, p \in DOMAIN HJ!Probe :
       /\ PairOf(b, p) \in Matches <=> HJ!Build[b] = HJ!Probe[p]
       /\ ProbeRowOf(PairOf(b, p)) = p
  /\ \A pair \in Matches :
       /\ ProbeRowOf(pair) \in DOMAIN HJ!Probe
       /\ \E b \in DOMAIN HJ!Build :
            /\ pair = PairOf(b, ProbeRowOf(pair))
            /\ HJ!Build[b] = HJ!Probe[ProbeRowOf(pair)]
  /\ \A b, c, p : PairOf(b, p) = PairOf(c, p) => b = c
<1>1. CASE HJ!BuildLeft
  <2>1. HJ!Build = left /\ HJ!Probe = right
    BY <1>1 DEF HJ!Build, HJ!BuildRows, HJ!Probe, HJ!BuildLeft
  <2> QED BY <1>1, <2>1 DEF PairOf, ProbeRowOf, Matches, MatchesOf
<1>2. CASE ~HJ!BuildLeft
  <2>1. HJ!Build = right /\ HJ!Probe = left
    BY <1>2 DEF HJ!Build, HJ!BuildRows, HJ!Probe, HJ!BuildLeft
  <2> QED BY <1>2, <2>1 DEF PairOf, ProbeRowOf, Matches, MatchesOf
<1> QED BY <1>1, <1>2

LEMMA InputsStay ==
  ASSUME UNCHANGED <<left, right, hash>>
  PROVE  /\ HJ!Build' = HJ!Build /\ HJ!Probe' = HJ!Probe
         /\ HJ!Partitions' = HJ!Partitions
         /\ BuildOwner' = BuildOwner /\ ProbeOwner' = ProbeOwner
         /\ Matches' = Matches
         /\ \A pair : ProbeRowOf(pair)' = ProbeRowOf(pair)
<1>1. /\ HJ!BuildLeft' = HJ!BuildLeft
      /\ HJ!Build' = HJ!Build /\ HJ!Probe' = HJ!Probe
      /\ HJ!Partitions' = HJ!Partitions
      /\ \A k : HJ!BuildPartitionOf(k)' = HJ!BuildPartitionOf(k)
  BY DEF HJ!BuildLeft, HJ!BuildIsLeft, HJ!Build, HJ!BuildRows, HJ!Probe, HJ!Partitions,
         HJ!PartitionCount, HJ!Spills, HJ!PagesOf, HJ!BuildPartitionOf, HJ!PartitionOf,
         HJ!UsableFrames
<1>2. BuildOwner' = BuildOwner /\ ProbeOwner' = ProbeOwner
  BY <1>1 DEF BuildOwner, ProbeOwner, HJ!ProbePartitionOf
<1> QED BY <1>1, <1>2 DEF Matches, MatchesOf, ProbeRowOf

(* A step outside of the probe loop emits nothing and finishes no row.     *)
LEMMA NothingProbed ==
  ASSUME HashTypeOK, HashOutput,
         UNCHANGED <<operation, left, right, reversed, output, hash, partition>>,
         next # "probe", next' # "probe" \/ position' = 1,
         position' \in Nat \ {0}
  PROVE  HashTypeOK' /\ HashOutput'
<1>1. HashTypeOK'
  BY DEF HashTypeOK
<1>2. \A x \in 1 .. 1 - 1 : FALSE
  OBVIOUS
<1>3. \A p : Probed(p)' <=> Probed(p)
  BY <1>2, InputsStay DEF Probed
<1>4. HashOutput'
  BY <1>3, InputsStay DEF HashOutput
<1> QED BY <1>1, <1>4

-----------------------------------------------------------------------------
LEMMA InitHashInv ==
  ASSUME Init, operation = "hash_join"
  PROVE  HashInv
<1>1. /\ left \in Inputs /\ right \in Inputs /\ reversed \in BOOLEAN
      /\ left \in InputsOf["hash_join"] /\ right \in InputsOf["hash_join"]
      /\ output = <<>> /\ hash \in Hashes /\ next = "start"
      /\ partition = 1 /\ position = 1 /\ hash_table = <<>>
  BY DEF Init, NestedLoops, JoinInit, HJ!HashInit
<1>2. HashTypeOK
  <2>1. \A k \in Range(left) \cup Range(right) : hash[k] \in Nat
    BY <1>1, HashesAssumption
  <2> QED BY <1>1, <2>1, InputsAssumption, EmptySeq DEF HashTypeOK
<1>3. HashOutput
  <2>1. DOMAIN output = {} /\ Range(output) = {} /\ IsInjective(output)
    BY <1>1 DEF Range, IsInjective
  <2>2. ASSUME NEW pair \in Matches  PROVE ~Probed(ProbeRowOf(pair))
    <3>1. ProbeRowOf(pair) \in DOMAIN HJ!Probe
      BY PairFacts
    <3>2. ProbeOwner[ProbeRowOf(pair)] \in 1 .. HJ!Partitions /\ HJ!Partitions \in Nat
      BY <1>2, <3>1, HashFacts
    <3> QED BY <1>1, <3>2 DEF Probed
  <2> QED BY <2>1, <2>2 DEF HashOutput
<1>4. HashPhase
  BY <1>1 DEF HashPhase, BeforeTable
<1> QED BY <1>2, <1>3, <1>4 DEF HashInv

LEMMA StartKeepsInv ==
  ASSUME HashInv, HJ!Start, operation' = operation
  PROVE  HashInv'
<1>1. /\ UNCHANGED <<left, right, reversed, output, status, hash, partition, position,
                     hash_table>>
      /\ status = "running" /\ next = "start"
      /\ next' \in {"partition build", "build"}
  BY DEF HJ!Start, HJ!joinVars
<1>2. HashTypeOK /\ BeforeTable /\ position = 1
  BY <1>1 DEF HashInv, HashPhase
<1>3. HashTypeOK' /\ HashOutput'
  <2>1. next # "probe" /\ position' = 1
    BY <1>1, <1>2
  <2>2. HashOutput /\ 1 \in Nat \ {0}
    BY DEF HashInv
  <2> QED BY <1>1, <1>2, <2>1, <2>2, NothingProbed
<1> DEFINE B == HJ!Build
           P == HJ!Probe
           N == HJ!Partitions
<1>4. /\ N \in Nat \ {0} /\ Len(B) \in Nat /\ Len(P) \in Nat
      /\ DOMAIN B = 1 .. Len(B) /\ DOMAIN P = 1 .. Len(P)
      /\ \A b \in DOMAIN B : BuildOwner[b] \in 1 .. N
      /\ \A p \in DOMAIN P : ProbeOwner[p] \in 1 .. N
      /\ ~HJ!Spills(left, right) => N = 1
  BY <1>2, HashFacts
<1>5. B' = B /\ P' = P /\ N' = N /\ BuildOwner' = BuildOwner /\ ProbeOwner' = ProbeOwner
  BY <1>1, InputsStay
<1>6. CASE HJ!Spills(left, right)
  <2>1. /\ next' = "partition build"
        /\ build_partitions' = [n \in 1 .. N |-> <<>>]
        /\ probe_partitions' = [n \in 1 .. N |-> <<>>]
    BY <1>6 DEF HJ!Start
  <2> HIDE DEF B, P, N
  <2>2. /\ Divided(build_partitions', BuildOwner, 0, N)
        /\ Divided(probe_partitions', ProbeOwner, 0, N)
    BY <1>4, <2>1, NothingDivided
  <2>3. position' = 1 /\ partition' = 1 /\ hash_table' = <<>>
    BY <1>1, <1>2 DEF BeforeTable
  <2>4. position' - 1 = 0 /\ 0 <= Len(B)
    <3>1. Len(B) \in Nat
      BY <1>4
    <3> QED BY <2>3, <3>1
  <2>5. HashPhase'
    BY <1>5, <2>1, <2>2, <2>3, <2>4
       DEF HashPhase, BeforeTable, BuildDivided, ProbeDivided, B, P, N
  <2> QED BY <1>3, <2>5 DEF HashInv
<1>7. CASE ~HJ!Spills(left, right)
  <2>1. /\ next' = "build"
        /\ build_partitions' = <<[b \in DOMAIN B |-> b]>>
        /\ probe_partitions' = <<[p \in DOMAIN P |-> p]>>
    BY <1>7 DEF HJ!Start
  <2> HIDE DEF B, P, N
  <2>2. N = 1
    BY <1>4, <1>7
  <2>3. /\ \A b \in 1 .. Len(B) : BuildOwner[b] = 1
        /\ \A p \in 1 .. Len(P) : ProbeOwner[p] = 1
    BY <1>4, <2>2
  <2>4. /\ Divided(build_partitions', BuildOwner, Len(B), N)
        /\ Divided(probe_partitions', ProbeOwner, Len(P), N)
    BY <1>4, <2>1, <2>2, <2>3, AllInOnePartition
  <2>5. position' - 1 = 0 /\ partition' = 1 /\ hash_table' = <<>>
    <3>1. position' = 1 /\ partition' = 1 /\ hash_table' = <<>>
      BY <1>1, <1>2 DEF BeforeTable
    <3> QED BY <3>1
  <2>6. 0 <= Len(build_partitions'[1])
    <3>1. build_partitions'[1] \in Seq(Nat)
      BY <2>2, <2>4, ElementOfSeq DEF Divided
    <3> QED BY <3>1, LenProperties
  <2>7. Tabled(hash_table', build_partitions'[1], B, 0)
    BY <2>5, NothingTabled
  <2>8. HashPhase'
    BY <1>5, <2>1, <2>2, <2>4, <2>5, <2>6, <2>7
       DEF HashPhase, BothDivided, BuildDivided, ProbeDivided, TableHolds, B, P, N
  <2> QED BY <1>3, <2>8 DEF HashInv
<1> QED BY <1>6, <1>7

LEMMA PartitionBuildKeepsInv ==
  ASSUME HashInv, HJ!PartitionBuildRow, operation' = operation
  PROVE  HashInv'
<1> DEFINE B == HJ!Build
           P == HJ!Probe
           N == HJ!Partitions
<1>1. /\ UNCHANGED <<left, right, reversed, output, status, hash, partition, hash_table,
                     probe_partitions>>
      /\ status = "running" /\ next = "partition build"
      /\ next' \in {"partition build", "partition probe"}
      /\ position' \in {position + 1, 1}
  BY DEF HJ!PartitionBuildRow, HJ!joinVars
<1>2. /\ HashTypeOK /\ BeforeTable /\ position - 1 <= Len(B)
      /\ Divided(build_partitions, BuildOwner, position - 1, N)
      /\ Divided(probe_partitions, ProbeOwner, 0, N)
  BY <1>1 DEF HashInv, HashPhase, BuildDivided, ProbeDivided
<1>3. position \in Nat \ {0}
  BY <1>2 DEF HashTypeOK
<1>4. HashTypeOK' /\ HashOutput'
  <2>1. position' \in Nat \ {0}
    <3>1. position' \in {position + 1, 1}
      BY <1>1
    <3> QED BY <1>3, <3>1
  <2>2. next # "probe" /\ next' # "probe"
    BY <1>1
  <2>3. HashTypeOK /\ HashOutput
    BY DEF HashInv
  <2> QED BY <1>1, <2>1, <2>2, <2>3, NothingProbed
<1>5. /\ N \in Nat \ {0} /\ Len(B) \in Nat /\ Len(P) \in Nat
      /\ DOMAIN B = 1 .. Len(B)
      /\ \A b \in DOMAIN B : BuildOwner[b] \in 1 .. N
  BY <1>2, HashFacts
<1>6. B' = B /\ P' = P /\ N' = N /\ BuildOwner' = BuildOwner /\ ProbeOwner' = ProbeOwner
  BY <1>1, InputsStay
<1>7. partition' = 1 /\ hash_table' = <<>>
  BY <1>1, <1>2 DEF BeforeTable
<1>8. CASE position <= Len(B)
  <2>1. /\ build_partitions' = [build_partitions EXCEPT ![HJ!BuildPartitionOf(B[position])] =
                                 Append(@, position)]
        /\ position' = position + 1 /\ next' = "partition build"
    BY <1>1, <1>8 DEF HJ!PartitionBuildRow
  <2>2. position \in DOMAIN B /\ BuildOwner[position] = HJ!BuildPartitionOf(B[position])
    BY <1>3, <1>5, <1>8 DEF BuildOwner
  <2> HIDE DEF B, P, N
  <2>3. /\ BuildOwner[position] \in 1 .. N
        /\ (position - 1) + 1 = position /\ position - 1 \in Nat /\ position' - 1 = position
    <3>1. BuildOwner[position] \in 1 .. N
      BY <1>5, <2>2
    <3>2. position' = position + 1
      BY <2>1
    <3> QED BY <1>3, <3>1, <3>2
  <2>4. Divided(build_partitions', BuildOwner, position, N)
    <3> DEFINE before == position - 1
    <3>1. /\ before \in Nat /\ before + 1 = position
          /\ Divided(build_partitions, BuildOwner, before, N)
      BY <1>2, <2>3
    <3> HIDE DEF before
    <3>2. Divided([build_partitions EXCEPT ![BuildOwner[before + 1]] = Append(@, before + 1)],
                  BuildOwner, before + 1, N)
      BY <1>5, <2>3, <3>1, OneMoreDivided
    <3> QED BY <2>1, <2>2, <3>1, <3>2
  <2>5. HashPhase'
    BY <1>1, <1>2, <1>6, <1>7, <1>8, <2>1, <2>3, <2>4
       DEF HashPhase, BeforeTable, BuildDivided, ProbeDivided, B, P, N
  <2> QED BY <1>4, <2>5 DEF HashInv
<1>9. CASE ~(position <= Len(B))
  <2>1. UNCHANGED build_partitions /\ position' = 1 /\ next' = "partition probe"
    BY <1>9 DEF HJ!PartitionBuildRow
  <2> HIDE DEF B, P, N
  <2>2. position - 1 = Len(B) /\ position' - 1 = 0 /\ 0 <= Len(P)
    <3>1. Len(B) \in Nat /\ Len(P) \in Nat /\ position - 1 <= Len(B) /\ position' = 1
      BY <1>2, <1>5, <2>1
    <3> QED BY <1>3, <1>9, <3>1
  <2>3. HashPhase'
    BY <1>1, <1>2, <1>6, <1>7, <2>1, <2>2
       DEF HashPhase, BeforeTable, BuildDivided, ProbeDivided, B, P, N
  <2> QED BY <1>4, <2>3 DEF HashInv
<1> QED BY <1>8, <1>9

LEMMA PartitionProbeKeepsInv ==
  ASSUME HashInv, HJ!PartitionProbeRow, operation' = operation
  PROVE  HashInv'
<1> DEFINE B == HJ!Build
           P == HJ!Probe
           N == HJ!Partitions
<1>1. /\ UNCHANGED <<left, right, reversed, output, status, hash, partition, hash_table,
                     build_partitions>>
      /\ status = "running" /\ next = "partition probe"
      /\ next' \in {"partition probe", "spill"}
      /\ position' \in {position + 1, 1}
  BY DEF HJ!PartitionProbeRow, HJ!joinVars
<1>2. /\ HashTypeOK /\ BeforeTable /\ position - 1 <= Len(P)
      /\ Divided(build_partitions, BuildOwner, Len(B), N)
      /\ Divided(probe_partitions, ProbeOwner, position - 1, N)
  BY <1>1 DEF HashInv, HashPhase, BuildDivided, ProbeDivided
<1>3. position \in Nat \ {0}
  BY <1>2 DEF HashTypeOK
<1>4. HashTypeOK' /\ HashOutput'
  <2>1. position' \in Nat \ {0}
    <3>1. position' \in {position + 1, 1}
      BY <1>1
    <3> QED BY <1>3, <3>1
  <2>2. next # "probe" /\ next' # "probe"
    BY <1>1
  <2>3. HashTypeOK /\ HashOutput
    BY DEF HashInv
  <2> QED BY <1>1, <2>1, <2>2, <2>3, NothingProbed
<1>5. /\ N \in Nat \ {0} /\ Len(B) \in Nat /\ Len(P) \in Nat
      /\ DOMAIN P = 1 .. Len(P)
      /\ \A p \in DOMAIN P : ProbeOwner[p] \in 1 .. N
  BY <1>2, HashFacts
<1>6. B' = B /\ P' = P /\ N' = N /\ BuildOwner' = BuildOwner /\ ProbeOwner' = ProbeOwner
  BY <1>1, InputsStay
<1>7. partition' = 1 /\ hash_table' = <<>>
  BY <1>1, <1>2 DEF BeforeTable
<1>8. CASE position <= Len(P)
  <2>1. /\ probe_partitions' = [probe_partitions EXCEPT ![HJ!ProbePartitionOf(P[position])] =
                                 Append(@, position)]
        /\ position' = position + 1 /\ next' = "partition probe"
    BY <1>1, <1>8 DEF HJ!PartitionProbeRow
  <2>2. position \in DOMAIN P /\ ProbeOwner[position] = HJ!ProbePartitionOf(P[position])
    BY <1>3, <1>5, <1>8 DEF ProbeOwner
  <2> HIDE DEF B, P, N
  <2>3. /\ ProbeOwner[position] \in 1 .. N
        /\ (position - 1) + 1 = position /\ position - 1 \in Nat /\ position' - 1 = position
    <3>1. ProbeOwner[position] \in 1 .. N
      BY <1>5, <2>2
    <3>2. position' = position + 1
      BY <2>1
    <3> QED BY <1>3, <3>1, <3>2
  <2>4. Divided(probe_partitions', ProbeOwner, position, N)
    <3> DEFINE before == position - 1
    <3>1. /\ before \in Nat /\ before + 1 = position
          /\ Divided(probe_partitions, ProbeOwner, before, N)
      BY <1>2, <2>3
    <3> HIDE DEF before
    <3>2. Divided([probe_partitions EXCEPT ![ProbeOwner[before + 1]] = Append(@, before + 1)],
                  ProbeOwner, before + 1, N)
      BY <1>5, <2>3, <3>1, OneMoreDivided
    <3> QED BY <2>1, <2>2, <3>1, <3>2
  <2>5. HashPhase'
    BY <1>1, <1>2, <1>6, <1>7, <1>8, <2>1, <2>3, <2>4
       DEF HashPhase, BeforeTable, BothDivided, BuildDivided, ProbeDivided, B, P, N
  <2> QED BY <1>4, <2>5 DEF HashInv
<1>9. CASE ~(position <= Len(P))
  <2>1. UNCHANGED probe_partitions /\ position' = 1 /\ next' = "spill"
    BY <1>9 DEF HJ!PartitionProbeRow
  <2> HIDE DEF B, P, N
  <2>2. position - 1 = Len(P) /\ position' = 1
    <3>1. Len(P) \in Nat /\ position - 1 <= Len(P) /\ position' = 1
      BY <1>2, <1>5, <2>1
    <3> QED BY <1>3, <1>9, <3>1
  <2>3. HashPhase'
    BY <1>1, <1>2, <1>6, <1>7, <2>1, <2>2
       DEF HashPhase, BeforeTable, BothDivided, BuildDivided, ProbeDivided, B, P, N
  <2> QED BY <1>4, <2>3 DEF HashInv
<1> QED BY <1>8, <1>9

LEMMA SpillKeepsInv ==
  ASSUME HashInv, HJ!Spill, operation' = operation
  PROVE  HashInv'
<1>1. /\ UNCHANGED <<left, right, reversed, output, status, hash, partition, position,
                     hash_table, build_partitions, probe_partitions>>
      /\ status = "running" /\ next = "spill" /\ next' = "build"
  BY DEF HJ!Spill, HJ!joinVars
<1>2. HashTypeOK /\ HashOutput /\ BeforeTable /\ position = 1 /\ BothDivided
  BY <1>1 DEF HashInv, HashPhase
<1>3. HashTypeOK' /\ HashOutput'
  <2>1. next # "probe" /\ next' # "probe"
    BY <1>1
  <2>2. position' \in Nat \ {0}
    BY <1>1, <1>2 DEF HashTypeOK
  <2> QED BY <1>1, <1>2, <2>1, <2>2, NothingProbed
<1>4. /\ HJ!Build' = HJ!Build /\ HJ!Probe' = HJ!Probe /\ HJ!Partitions' = HJ!Partitions
      /\ BuildOwner' = BuildOwner /\ ProbeOwner' = ProbeOwner
  BY <1>1, InputsStay
<1>5. BothDivided'
  BY <1>1, <1>2, <1>4 DEF BothDivided, BuildDivided, ProbeDivided
<1>6. partition' = 1 /\ hash_table' = <<>> /\ position' - 1 = 0
  <2>1. partition' = 1 /\ hash_table' = <<>> /\ position' = 1
    BY <1>1, <1>2 DEF BeforeTable
  <2> QED BY <2>1
<1>7. HJ!Partitions \in Nat \ {0}
  BY <1>2, HashFacts
<1>8. 1 <= HJ!Partitions' /\ 0 <= Len(build_partitions'[1])
  <2>1. build_partitions[1] \in Seq(Nat)
    BY <1>2, <1>7, ElementOfSeq DEF BothDivided, BuildDivided, Divided
  <2>2. Len(build_partitions[1]) \in Nat
    BY <2>1, LenProperties
  <2> QED BY <1>1, <1>4, <1>7, <2>2
<1>9. TableHolds(0)'
  BY <1>6, NothingTabled DEF TableHolds
<1>10. HashPhase'
  BY <1>1, <1>5, <1>6, <1>8, <1>9 DEF HashPhase
<1> QED BY <1>3, <1>10 DEF HashInv

(* The partition the build loop or the probe loop is in.                   *)
LEMMA PartitionFacts ==
  ASSUME HashTypeOK, BothDivided, partition <= HJ!Partitions
  PROVE  LET builds == build_partitions[partition]
             probes == probe_partitions[partition]
         IN  /\ builds \in Seq(Nat) /\ IsInjective(builds)
             /\ Len(builds) \in Nat /\ DOMAIN builds = 1 .. Len(builds)
             /\ Range(builds) = {b \in DOMAIN HJ!Build : BuildOwner[b] = partition}
             /\ probes \in Seq(Nat) /\ IsInjective(probes)
             /\ Len(probes) \in Nat /\ DOMAIN probes = 1 .. Len(probes)
             /\ Range(probes) = {p \in DOMAIN HJ!Probe : ProbeOwner[p] = partition}
             /\ Len(build_partitions) = HJ!Partitions
<1>1. partition \in 1 .. HJ!Partitions
  BY HashFacts DEF HashTypeOK
<1>2. /\ DOMAIN HJ!Build = 1 .. Len(HJ!Build)
      /\ DOMAIN HJ!Probe = 1 .. Len(HJ!Probe)
  BY HashFacts
<1>3. /\ build_partitions[partition] \in Seq(Nat)
      /\ probe_partitions[partition] \in Seq(Nat)
      /\ Len(build_partitions) = HJ!Partitions
  BY <1>1, ElementOfSeq DEF BothDivided, BuildDivided, ProbeDivided, Divided
<1>4. /\ IsInjective(build_partitions[partition])
      /\ Range(build_partitions[partition]) =
           {b \in DOMAIN HJ!Build : BuildOwner[b] = partition}
  BY <1>1, <1>2 DEF BothDivided, BuildDivided, Divided
<1>5. /\ IsInjective(probe_partitions[partition])
      /\ Range(probe_partitions[partition]) =
           {p \in DOMAIN HJ!Probe : ProbeOwner[p] = partition}
  BY <1>1, <1>2 DEF BothDivided, ProbeDivided, Divided
<1> QED BY <1>3, <1>4, <1>5, LenProperties

LEMMA BuildPhase ==
  ASSUME HashInv, status = "running", next = "build"
  PROVE  /\ HashTypeOK /\ HashOutput /\ BothDivided /\ TableHolds(position - 1)
         /\ partition <= HJ!Partitions
         /\ position - 1 <= Len(build_partitions[partition])
         /\ position \in Nat \ {0}
BY DEF HashInv, HashPhase, HashTypeOK

LEMMA ProbePhase ==
  ASSUME HashInv, status = "running", next = "probe"
  PROVE  /\ HashTypeOK /\ HashOutput /\ BothDivided
         /\ TableHolds(Len(build_partitions[partition]))
         /\ partition <= HJ!Partitions
         /\ position - 1 <= Len(probe_partitions[partition])
         /\ position \in Nat \ {0} /\ partition \in Nat \ {0}
BY DEF HashInv, HashPhase, HashTypeOK

LEMMA DividedStays ==
  ASSUME BothDivided,
         UNCHANGED <<left, right, hash, build_partitions, probe_partitions>>
  PROVE  BothDivided'
BY InputsStay DEF BothDivided, BuildDivided, ProbeDivided

LEMMA BuildRowKeepsInv ==
  ASSUME HashInv, HJ!BuildRow, operation' = operation
  PROVE  HashInv'
<1> DEFINE rows == build_partitions[partition]
<1>1. /\ UNCHANGED <<left, right, reversed, output, hash, next, partition,
                     build_partitions, probe_partitions>>
      /\ status = "running" /\ next = "build" /\ position <= Len(rows)
  BY DEF HJ!BuildRow, HJ!joinVars, HJ!RaiseKeyError
<1>2. /\ HashTypeOK /\ HashOutput /\ BothDivided /\ TableHolds(position - 1)
      /\ partition <= HJ!Partitions /\ position \in Nat \ {0}
  BY <1>1, BuildPhase
<1>3. /\ rows \in Seq(Nat) /\ IsInjective(rows)
      /\ Len(rows) \in Nat /\ DOMAIN rows = 1 .. Len(rows)
      /\ Range(rows) \subseteq DOMAIN HJ!Build
  BY <1>2, PartitionFacts
<1>4. CASE HJ!BuildRefFits
  <2>1. /\ position' = position + 1 /\ UNCHANGED status
        /\ hash_table' = [k \in DOMAIN hash_table \cup {HJ!Build[rows[position]]} |->
                            IF k = HJ!Build[rows[position]]
                            THEN Append(HJ!RowsOfKey(k), rows[position]) ELSE hash_table[k]]
    BY <1>1, <1>4 DEF HJ!BuildRow, HJ!joinVars
  <2>2. \A k : HJ!RowsOfKey(k) = RowsIn(hash_table, k)
    BY DEF HJ!RowsOfKey, RowsIn
  <2>3. rows[position] \in DOMAIN HJ!Build
    <3>1. position \in DOMAIN rows
      BY <1>1, <1>2, <1>3
    <3> QED BY <1>3, <3>1 DEF Range
  <2> HIDE DEF rows
  <2>4. HashTypeOK' /\ HashOutput'
    <3>1. next # "probe" /\ next' # "probe"
      BY <1>1
    <3>2. position' \in Nat \ {0}
      BY <1>2, <2>1
    <3> QED BY <1>1, <1>2, <3>1, <3>2, NothingProbed
  <2> DEFINE before == position - 1
  <2>5. /\ before \in Nat /\ before + 1 = position /\ position' - 1 = position
        /\ Tabled(hash_table, rows, HJ!Build, before)
    <3>1. Tabled(hash_table, rows, HJ!Build, before)
      BY <1>2 DEF TableHolds, rows
    <3> QED BY <1>2, <2>1, <3>1
  <2> HIDE DEF before
  <2>6. Tabled(hash_table', rows, HJ!Build, position)
    <3>1. before + 1 <= Len(rows) /\ rows[before + 1] \in DOMAIN HJ!Build
      BY <1>1, <2>3, <2>5
    <3>2. Tabled([k \in DOMAIN hash_table \cup {HJ!Build[rows[before + 1]]} |->
                   IF k = HJ!Build[rows[before + 1]]
                   THEN Append(RowsIn(hash_table, k), rows[before + 1]) ELSE hash_table[k]],
                 rows, HJ!Build, before + 1)
      BY <1>3, <2>5, <3>1, OneMoreTabled
    <3> QED BY <2>1, <2>2, <2>5, <3>2
  <2>7. /\ HJ!Build' = HJ!Build /\ HJ!Partitions' = HJ!Partitions /\ BothDivided'
        /\ rows' = rows
    BY <1>1, <1>2, InputsStay, DividedStays DEF rows
  <2>8. (TableHolds(position - 1))'
    BY <2>5, <2>6, <2>7 DEF TableHolds, rows
  <2>9. HashPhase'
    BY <1>1, <1>2, <2>5, <2>7, <2>8 DEF HashPhase, rows
  <2> QED BY <2>4, <2>9 DEF HashInv
<1>5. CASE ~HJ!BuildRefFits
  <2>1. status' = "KeyError" /\ UNCHANGED position
    BY <1>5 DEF HJ!BuildRow, HJ!RaiseKeyError
  <2>2. HashTypeOK' /\ HashOutput'
    <3>1. next # "probe" /\ next' # "probe" /\ position' \in Nat \ {0}
      BY <1>1, <1>2, <2>1
    <3> QED BY <1>1, <1>2, <3>1, NothingProbed
  <2> QED BY <2>1, <2>2 DEF HashInv
<1> QED BY <1>4, <1>5

LEMMA BuildDoneKeepsInv ==
  ASSUME HashInv, HJ!BuildDone, operation' = operation
  PROVE  HashInv'
<1> DEFINE rows == build_partitions[partition]
           probes == probe_partitions[partition]
<1>1. /\ UNCHANGED <<left, right, reversed, output, status, hash, partition,
                     build_partitions, probe_partitions, hash_table>>
      /\ status = "running" /\ next = "build" /\ position > Len(rows)
      /\ next' = "probe" /\ position' = 1
  BY DEF HJ!BuildDone, HJ!joinVars
<1>2. /\ HashTypeOK /\ HashOutput /\ BothDivided /\ TableHolds(position - 1)
      /\ partition <= HJ!Partitions /\ position \in Nat \ {0}
      /\ position - 1 <= Len(rows)
  BY <1>1, BuildPhase
<1>3. Len(rows) \in Nat /\ Len(probes) \in Nat
  BY <1>2, PartitionFacts
<1>4. position - 1 = Len(rows) /\ position' - 1 <= Len(probes)
  <2> HIDE DEF rows, probes
  <2>1. /\ position > Len(rows) /\ position - 1 <= Len(rows)
        /\ position \in Nat /\ position' = 1
    BY <1>1, <1>2
  <2> QED BY <1>3, <2>1
<1>5. HashTypeOK' /\ HashOutput'
  <2>1. next # "probe" /\ position' = 1
    BY <1>1
  <2>2. 1 \in Nat \ {0}
    OBVIOUS
  <2> QED BY <1>1, <1>2, <2>1, <2>2, NothingProbed
<1>6. /\ HJ!Build' = HJ!Build /\ HJ!Partitions' = HJ!Partitions /\ BothDivided'
      /\ rows' = rows /\ probes' = probes
  BY <1>1, <1>2, InputsStay, DividedStays
<1>7. TableHolds(Len(rows))
  BY <1>2, <1>4
<1>8. (TableHolds(Len(rows)))'
  BY <1>1, <1>6, <1>7 DEF TableHolds
<1>9. HashPhase'
  BY <1>1, <1>2, <1>4, <1>6, <1>8 DEF HashPhase
<1> QED BY <1>5, <1>9 DEF HashInv

(* A probe row meets all of its partners: they are in its partition.       *)
LEMMA PartnersOfRow ==
  ASSUME HashTypeOK, BothDivided, TableHolds(Len(build_partitions[partition])),
         partition <= HJ!Partitions,
         NEW p \in Range(probe_partitions[partition])
  PROVE  LET partners == HJ!RowsOfKey(HJ!Probe[p])
         IN  /\ p \in DOMAIN HJ!Probe /\ p \in Nat /\ ProbeOwner[p] = partition
             /\ partners \in Seq(Nat) /\ IsInjective(partners)
             /\ Range(partners) = {b \in DOMAIN HJ!Build : HJ!Build[b] = HJ!Probe[p]}
<1> DEFINE rows == build_partitions[partition]
           partners == HJ!RowsOfKey(HJ!Probe[p])
<1>1. p \in DOMAIN HJ!Probe /\ ProbeOwner[p] = partition
  BY PartitionFacts
<1>2. p \in Nat
  BY <1>1, HashFacts
<1>3. /\ partners \in Seq(Nat) /\ IsInjective(partners)
      /\ Range(partners) = {b \in DOMAIN HJ!Build :
            HJ!Build[b] = HJ!Probe[p] /\ \E x \in 1 .. Len(rows) : rows[x] = b}
  <2>1. partners = RowsIn(hash_table, HJ!Probe[p])
    BY DEF HJ!RowsOfKey, RowsIn
  <2> HIDE DEF partners
  <2> QED BY <2>1 DEF TableHolds, Tabled
<1>4. ASSUME NEW b \in DOMAIN HJ!Build, HJ!Build[b] = HJ!Probe[p]
      PROVE  \E x \in 1 .. Len(rows) : rows[x] = b
  <2>1. BuildOwner[b] = partition
    BY <1>1, <1>4, HashFacts
  <2>2. b \in Range(rows) /\ DOMAIN rows = 1 .. Len(rows)
    BY <2>1, PartitionFacts
  <2> QED BY <2>2 DEF Range
<1>5. Range(partners) = {b \in DOMAIN HJ!Build : HJ!Build[b] = HJ!Probe[p]}
  BY <1>3, <1>4
<1> QED BY <1>1, <1>2, <1>3, <1>5

(* The output rows a probe row adds.                                       *)
LEMMA NewRows ==
  ASSUME NEW p \in DOMAIN HJ!Probe, p \in Nat, NEW partners \in Seq(Nat),
         IsInjective(partners),
         Range(partners) = {b \in DOMAIN HJ!Build : HJ!Build[b] = HJ!Probe[p]}
  PROVE  LET new == [n \in DOMAIN partners |-> PairOf(partners[n], p)]
         IN  /\ new \in Seq(Nat \X Nat) /\ IsInjective(new)
             /\ Range(new) = {pair \in Matches : ProbeRowOf(pair) = p}
<1> DEFINE new == [n \in DOMAIN partners |-> PairOf(partners[n], p)]
<1>1. Len(partners) \in Nat /\ DOMAIN partners = 1 .. Len(partners)
  BY LenProperties
<1>2. \A n \in 1 .. Len(partners) : partners[n] \in Nat
  BY ElementOfSeq
<1>3. \A n \in 1 .. Len(partners) : PairOf(partners[n], p) \in Nat \X Nat
  BY <1>2 DEF PairOf
<1>4. new \in Seq(Nat \X Nat)
  BY <1>1, <1>3
<1>5. IsInjective(new)
  <2>1. \A b, c : PairOf(b, p) = PairOf(c, p) => b = c
    BY PairFacts
  <2> QED BY <2>1 DEF IsInjective
<1>6. Range(new) = {PairOf(b, p) : b \in Range(partners)}
  BY DEF Range
<1>7. ASSUME NEW b \in Range(partners)
      PROVE  PairOf(b, p) \in Matches /\ ProbeRowOf(PairOf(b, p)) = p
  BY <1>7, PairFacts
<1>8. ASSUME NEW pair \in Matches, ProbeRowOf(pair) = p
      PROVE  \E b \in Range(partners) : pair = PairOf(b, p)
  BY <1>8, PairFacts
<1>9. Range(new) = {pair \in Matches : ProbeRowOf(pair) = p}
  <2> HIDE DEF new
  <2> QED BY <1>6, <1>7, <1>8
<1> QED BY <1>4, <1>5, <1>9

LEMMA ProbeRowEmits ==
  ASSUME HashInv, HJ!ProbeRow, operation' = operation, HJ!ProbeRefFits
  PROVE  HashInv' /\ IsPrefix(output, output') /\ UNCHANGED <<reversed, status>>
<1> DEFINE rows == probe_partitions[partition]
           p == rows[position]
           partners == HJ!RowsOfKey(HJ!Probe[p])
           new == [n \in DOMAIN partners |-> PairOf(partners[n], p)]
<1>1. /\ UNCHANGED <<left, right, reversed, status, hash, next, partition,
                     build_partitions, probe_partitions, hash_table>>
      /\ status = "running" /\ next = "probe" /\ position <= Len(rows)
      /\ position' = position + 1
      /\ output' = output \o new
  BY DEF HJ!ProbeRow, HJ!EmitRows, PairOf
<1>2. /\ HashTypeOK /\ HashOutput /\ BothDivided
      /\ TableHolds(Len(build_partitions[partition]))
      /\ partition <= HJ!Partitions /\ position \in Nat \ {0}
  BY <1>1, ProbePhase
<1>3. Len(rows) \in Nat /\ DOMAIN rows = 1 .. Len(rows) /\ IsInjective(rows)
  BY <1>2, PartitionFacts
<1>4. position \in DOMAIN rows /\ p \in Range(rows)
  <2>1. position \in Nat \ {0} /\ position <= Len(rows)
        /\ Len(rows) \in Nat /\ DOMAIN rows = 1 .. Len(rows)
    BY <1>1, <1>2, <1>3
  <2> HIDE DEF rows
  <2>2. position \in DOMAIN rows
    BY <2>1
  <2> QED BY <2>2 DEF Range
<1>5. /\ p \in DOMAIN HJ!Probe /\ p \in Nat /\ ProbeOwner[p] = partition
      /\ partners \in Seq(Nat) /\ IsInjective(partners)
      /\ Range(partners) = {b \in DOMAIN HJ!Build : HJ!Build[b] = HJ!Probe[p]}
  BY <1>2, <1>4, PartnersOfRow
<1> HIDE DEF p, partners, rows
<1>6. /\ new \in Seq(Nat \X Nat) /\ IsInjective(new)
      /\ Range(new) = {pair \in Matches : ProbeRowOf(pair) = p}
  BY <1>5, NewRows
<1> HIDE DEF new
<1>7. ~Probed(p)
  <2>1. partition \in Nat
    BY <1>2 DEF HashTypeOK
  <2>2. \A x \in 1 .. position - 1 : x \in DOMAIN rows /\ x # position
    BY <1>1, <1>2, <1>3
  <2>3. \A x \in 1 .. position - 1 : rows[x] # p
    BY <1>3, <1>4, <2>2 DEF IsInjective, p
  <2> QED BY <1>5, <2>1, <2>3 DEF Probed, rows
<1>8. \A q : Probed(q)' <=> Probed(q) \/ q = p
  <2>1. position' - 1 = position
    BY <1>1, <1>2
  <2>2. /\ \A x \in 1 .. position : x \in 1 .. position - 1 \/ x = position
        /\ \A x \in 1 .. position - 1 : x \in 1 .. position
        /\ position \in 1 .. position
    BY <1>2
  <2>3. ProbeOwner' = ProbeOwner
    BY <1>1, InputsStay
  <2> QED BY <1>1, <2>1, <2>2, <2>3 DEF Probed, p, rows
<1>9. /\ output \in Seq(Nat \X Nat) /\ IsInjective(output)
      /\ Range(output) = {pair \in Matches : Probed(ProbeRowOf(pair))}
  BY <1>2 DEF HashTypeOK, HashOutput
<1>10. Range(output) \cap Range(new) = {}
  BY <1>6, <1>7, <1>9
<1>11. /\ output' \in Seq(Nat \X Nat) /\ IsInjective(output')
       /\ Range(output') = Range(output) \cup Range(new)
       /\ IsPrefix(output, output')
  BY <1>1, <1>6, <1>9, <1>10, ConcatOfDistinct
<1>12. HashOutput'
  <2>1. Matches' = Matches /\ \A pair : ProbeRowOf(pair)' = ProbeRowOf(pair)
    BY <1>1, InputsStay
  <2>2. Range(output') = {pair \in Matches : Probed(ProbeRowOf(pair)) \/ ProbeRowOf(pair) = p}
    BY <1>6, <1>9, <1>11
  <2>3. \A pair : Probed(ProbeRowOf(pair))' <=>
                     Probed(ProbeRowOf(pair)) \/ ProbeRowOf(pair) = p
    BY <1>8, <2>1 DEF Probed
  <2> QED BY <1>11, <2>1, <2>2, <2>3 DEF HashOutput
<1>13. HashTypeOK'
  <2>1. position' \in Nat \ {0}
    BY <1>1, <1>2
  <2> QED BY <1>1, <1>2, <1>11, <2>1 DEF HashTypeOK
<1>14. HashPhase'
  <2>1. HJ!Build' = HJ!Build /\ HJ!Partitions' = HJ!Partitions /\ BothDivided'
    BY <1>1, <1>2, InputsStay, DividedStays
  <2>2. position' - 1 <= Len(rows) /\ rows' = rows
    BY <1>1, <1>2, <1>3 DEF rows
  <2>3. (TableHolds(Len(build_partitions[partition])))'
    BY <1>1, <1>2, <2>1 DEF TableHolds
  <2> QED BY <1>1, <1>2, <2>1, <2>2, <2>3 DEF HashPhase, rows
<1> QED BY <1>1, <1>11, <1>12, <1>13, <1>14 DEF HashInv

LEMMA ProbeRowFails ==
  ASSUME HashInv, HJ!ProbeRow, operation' = operation, ~HJ!ProbeRefFits
  PROVE  HashInv'
<1>1. /\ UNCHANGED <<left, right, reversed, output, hash, next, partition, position,
                     build_partitions, probe_partitions, hash_table>>
      /\ status' = "KeyError"
  BY DEF HJ!ProbeRow, HJ!RaiseKeyError
<1>2. HashTypeOK'
  BY <1>1 DEF HashInv, HashTypeOK
<1>3. \A p : Probed(p)' <=> Probed(p)
  BY <1>1, InputsStay DEF Probed
<1>4. HashOutput'
  BY <1>1, <1>3, InputsStay DEF HashInv, HashOutput
<1> QED BY <1>1, <1>2, <1>4 DEF HashInv

(* At the end of a partition its probe rows are done.                      *)
LEMMA PartitionProbed ==
  ASSUME HashTypeOK, BothDivided, partition <= HJ!Partitions, next = "probe",
         position - 1 = Len(probe_partitions[partition]),
         NEW p \in DOMAIN HJ!Probe
  PROVE  Probed(p) <=> ProbeOwner[p] <= partition
<1> DEFINE rows == probe_partitions[partition]
<1>1. /\ Len(rows) \in Nat /\ DOMAIN rows = 1 .. Len(rows)
      /\ Range(rows) = {q \in DOMAIN HJ!Probe : ProbeOwner[q] = partition}
  BY PartitionFacts
<1>2. (\E x \in 1 .. position - 1 : rows[x] = p) <=> ProbeOwner[p] = partition
  BY <1>1 DEF Range
<1>3. ProbeOwner[p] \in 1 .. HJ!Partitions /\ partition \in Nat /\ HJ!Partitions \in Nat
  BY HashFacts DEF HashTypeOK
<1>4. ProbeOwner[p] <= partition <=> ProbeOwner[p] < partition \/ ProbeOwner[p] = partition
  BY <1>3
<1> QED BY <1>2, <1>4 DEF Probed

LEMMA ProbeDoneFacts ==
  ASSUME HashInv, HJ!ProbeDone
  PROVE  /\ UNCHANGED <<left, right, reversed, output, hash,
                        build_partitions, probe_partitions>>
         /\ status = "running" /\ next = "probe"
         /\ HashTypeOK /\ HashOutput /\ BothDivided
         /\ partition <= HJ!Partitions /\ partition \in Nat \ {0}
         /\ position - 1 = Len(probe_partitions[partition])
         /\ Len(build_partitions) = HJ!Partitions /\ HJ!Partitions \in Nat \ {0}
<1> DEFINE rows == probe_partitions[partition]
<1>1. /\ UNCHANGED <<left, right, reversed, output, hash,
                     build_partitions, probe_partitions>>
      /\ status = "running" /\ next = "probe" /\ position > Len(rows)
  BY DEF HJ!ProbeDone, HJ!Return, HJ!joinVars
<1>2. /\ HashTypeOK /\ HashOutput /\ BothDivided
      /\ partition <= HJ!Partitions /\ position \in Nat \ {0} /\ partition \in Nat \ {0}
      /\ position - 1 <= Len(rows)
  BY <1>1, ProbePhase
<1>3. Len(rows) \in Nat /\ Len(build_partitions) = HJ!Partitions
  BY <1>2, PartitionFacts
<1>4. position - 1 = Len(rows)
  <2> HIDE DEF rows
  <2> QED BY <1>1, <1>2, <1>3
<1> QED BY <1>1, <1>2, <1>3, <1>4, HashFacts

LEMMA NextPartitionKeepsInv ==
  ASSUME HashInv, HJ!ProbeDone, operation' = operation,
         partition < Len(build_partitions)
  PROVE  HashInv' /\ UNCHANGED <<left, right, reversed, output, status>>
<1>1. /\ UNCHANGED <<left, right, reversed, output, status, hash,
                     build_partitions, probe_partitions>>
      /\ status = "running" /\ next = "probe"
      /\ partition' = partition + 1 /\ next' = "build" /\ position' = 1
      /\ hash_table' = <<>>
  BY ProbeDoneFacts DEF HJ!ProbeDone, HJ!joinVars
<1>2. /\ HashTypeOK /\ HashOutput /\ BothDivided
      /\ partition <= HJ!Partitions /\ partition \in Nat \ {0}
      /\ position - 1 = Len(probe_partitions[partition])
      /\ Len(build_partitions) = HJ!Partitions /\ HJ!Partitions \in Nat \ {0}
  BY ProbeDoneFacts
<1>3. partition' \in Nat \ {0} /\ partition' <= HJ!Partitions
  BY <1>1, <1>2
<1>4. HashTypeOK'
  BY <1>1, <1>2, <1>3 DEF HashTypeOK
<1>5. /\ HJ!Build' = HJ!Build /\ HJ!Probe' = HJ!Probe /\ HJ!Partitions' = HJ!Partitions
      /\ ProbeOwner' = ProbeOwner /\ Matches' = Matches
      /\ \A pair : ProbeRowOf(pair)' = ProbeRowOf(pair)
  BY <1>1, InputsStay
<1>6. ASSUME NEW p \in DOMAIN HJ!Probe  PROVE Probed(p)' <=> Probed(p)
  <2>1. Probed(p) <=> ProbeOwner[p] <= partition
    BY <1>1, <1>2, PartitionProbed
  <2>2. ProbeOwner[p] \in Nat
    <3>1. ProbeOwner[p] \in 1 .. HJ!Partitions
      BY <1>2, HashFacts
    <3> QED BY <1>2, <3>1
  <2>3. Probed(p)' <=> ProbeOwner[p] < partition + 1
    BY <1>1, <1>5 DEF Probed
  <2> QED BY <1>2, <2>1, <2>2, <2>3
<1>7. HashOutput'
  <2>1. \A pair \in Matches : Probed(ProbeRowOf(pair))' <=> Probed(ProbeRowOf(pair))
    <3>1. \A pair \in Matches : ProbeRowOf(pair) \in DOMAIN HJ!Probe
      BY PairFacts
    <3>2. \A pair : Probed(ProbeRowOf(pair))' <=>
            \/ ProbeOwner'[ProbeRowOf(pair)] < partition'
            \/ next' = "probe" /\ \E x \in 1 .. position' - 1 :
                                     probe_partitions'[partition'][x] = ProbeRowOf(pair)
      BY <1>5 DEF Probed
    <3>3. \A p \in DOMAIN HJ!Probe : Probed(p) <=>
            \/ ProbeOwner'[p] < partition'
            \/ next' = "probe" /\ \E x \in 1 .. position' - 1 :
                                     probe_partitions'[partition'][x] = p
      BY <1>6 DEF Probed
    <3> QED BY <3>1, <3>2, <3>3
  <2> QED BY <1>1, <1>2, <1>5, <2>1 DEF HashOutput
<1>8. BothDivided'
  BY <1>1, <1>2, DividedStays
<1>9. position' - 1 <= Len(build_partitions'[partition'])
  <2>1. Len(build_partitions[partition + 1]) \in Nat
    <3>1. partition + 1 \in 1 .. HJ!Partitions
      BY <1>1, <1>2, <1>3
    <3>2. build_partitions[partition + 1] \in Seq(Nat)
      BY <1>2, <3>1, ElementOfSeq DEF BothDivided, BuildDivided, Divided
    <3> QED BY <3>2, LenProperties
  <2> QED BY <1>1, <2>1
<1>10. (TableHolds(position - 1))'
  <2>1. position' - 1 = 0
    BY <1>1
  <2>2. Tabled(hash_table', build_partitions'[partition'], HJ!Build', 0)
    BY <1>1, NothingTabled
  <2> QED BY <2>1, <2>2 DEF TableHolds
<1>11. HashPhase'
  BY <1>1, <1>3, <1>5, <1>8, <1>9, <1>10 DEF HashPhase
<1> QED BY <1>1, <1>4, <1>7, <1>11 DEF HashInv

LEMMA LastPartitionKeepsInv ==
  ASSUME HashInv, HJ!ProbeDone, operation' = operation,
         ~(partition < Len(build_partitions))
  PROVE  /\ HashInv'
         /\ UNCHANGED <<left, right, reversed, output>> /\ status' = "done"
         /\ Range(output) = Matches
<1>1. /\ UNCHANGED <<left, right, reversed, output, hash, partition, next, position,
                     build_partitions, probe_partitions, hash_table>>
      /\ next = "probe" /\ status' = "done"
  BY ProbeDoneFacts DEF HJ!ProbeDone, HJ!Return
<1>2. /\ HashTypeOK /\ HashOutput /\ BothDivided
      /\ partition <= HJ!Partitions /\ partition \in Nat \ {0}
      /\ position - 1 = Len(probe_partitions[partition])
      /\ Len(build_partitions) = HJ!Partitions /\ HJ!Partitions \in Nat \ {0}
  BY ProbeDoneFacts
<1>3. HashTypeOK'
  BY <1>1, <1>2 DEF HashTypeOK
<1>4. HashOutput'
  <2>1. \A p : Probed(p)' <=> Probed(p)
    BY <1>1, InputsStay DEF Probed
  <2> QED BY <1>1, <1>2, <2>1, InputsStay DEF HashOutput
<1>5. ASSUME NEW pair \in Matches  PROVE Probed(ProbeRowOf(pair))
  <2> DEFINE p == ProbeRowOf(pair)
  <2>1. p \in DOMAIN HJ!Probe
    BY PairFacts
  <2>2. ProbeOwner[p] \in 1 .. HJ!Partitions
    BY <1>2, <2>1, HashFacts
  <2>3. Probed(p) <=> ProbeOwner[p] <= partition
    BY <1>1, <1>2, <2>1, PartitionProbed
  <2> HIDE DEF p
  <2>4. ProbeOwner[p] <= partition
    BY <1>2, <2>2
  <2> QED BY <2>3, <2>4 DEF p
<1>6. Range(output) = Matches
  BY <1>2, <1>5 DEF HashOutput
<1> QED BY <1>1, <1>3, <1>4, <1>6 DEF HashInv

-----------------------------------------------------------------------------
(* A reference misses its child only if the condition is the other way     *)
(* round and there was no row to see that by.                              *)
LEMMA MisfitMeansEmpty ==
  ASSUME HashTypeOK, ~HJ!BuildRefFits \/ ~HJ!ProbeRefFits
  PROVE  reversed /\ (left = <<>> \/ right = <<>>)
<1>1. HJ!LeftRefFits /\ HJ!RightRefFits => HJ!BuildRefFits /\ HJ!ProbeRefFits
  BY DEF HJ!BuildRefFits, HJ!ProbeRefFits
<1>2. ~reversed => HJ!LeftRefFits /\ HJ!RightRefFits
  BY DEF HJ!LeftRefFits, HJ!RightRefFits, HJ!OrientedJoinRefs, HJ!ConditionSides
<1>3. ASSUME reversed, left # <<>>, right # <<>>
      PROVE  HJ!LeftRefFits /\ HJ!RightRefFits
  <2>1. HJ!ConditionSides = <<"right", "left">>
    BY <1>3 DEF HJ!ConditionSides
  <2>2. HJ!OrientedJoinRefs = HJ!Reverse(<<"right", "left">>)
    BY <1>3, <2>1 DEF HJ!OrientedJoinRefs
  <2>3. HJ!Reverse(<<"right", "left">>)[1] = "left" /\ HJ!Reverse(<<"right", "left">>)[2] = "right"
    BY DEF HJ!Reverse
  <2> QED BY <2>2, <2>3 DEF HJ!LeftRefFits, HJ!RightRefFits
<1> QED BY <1>1, <1>2, <1>3 DEF HashTypeOK

LEMMA MisfitOfRow ==
  ASSUME HashTypeOK, ~HJ!BuildRefFits \/ ~HJ!ProbeRefFits,
         NEW r, r \in DOMAIN HJ!Build \/ r \in DOMAIN HJ!Probe
  PROVE  reversed /\ (left = <<>>) # (right = <<>>)
<1>1. reversed /\ (left = <<>> \/ right = <<>>)
  BY MisfitMeansEmpty
<1>2. HJ!Build \in {left, right} /\ HJ!Probe \in {left, right}
  BY DEF HJ!Build, HJ!BuildRows, HJ!BuildIsLeft, HJ!Probe
<1>3. r \in DOMAIN left \/ r \in DOMAIN right
  BY <1>2
<1>4. DOMAIN <<>> = {}
  OBVIOUS
<1> QED BY <1>1, <1>3, <1>4

LEMMA StepOfHashJoin ==
  ASSUME operation = "hash_join", Next
  PROVE  HJ!Next /\ operation' = operation
BY DEF Next, NestedLoops

LEMMA StepKeepsHashInv ==
  ASSUME HashInv, [Next]_vars
  PROVE  HashInv'
<1>1. CASE Next
  <2>1. HJ!Next /\ operation' = operation
    BY <1>1, StepOfHashJoin DEF HashInv, HashTypeOK
  <2>2. CASE HJ!Start
    BY <2>1, <2>2, StartKeepsInv
  <2>3. CASE HJ!PartitionBuildRow
    BY <2>1, <2>3, PartitionBuildKeepsInv
  <2>4. CASE HJ!PartitionProbeRow
    BY <2>1, <2>4, PartitionProbeKeepsInv
  <2>5. CASE HJ!Spill
    BY <2>1, <2>5, SpillKeepsInv
  <2>6. CASE HJ!BuildRow
    BY <2>1, <2>6, BuildRowKeepsInv
  <2>7. CASE HJ!BuildDone
    BY <2>1, <2>7, BuildDoneKeepsInv
  <2>8. CASE HJ!ProbeRow
    BY <2>1, <2>8, ProbeRowEmits, ProbeRowFails
  <2>9. CASE HJ!ProbeDone
    BY <2>1, <2>9, NextPartitionKeepsInv, LastPartitionKeepsInv
  <2>10. CASE HJ!Returned
    <3>1. status # "running" /\ status' = status
          /\ UNCHANGED <<left, right, reversed, output, hash, next, partition, position,
                         build_partitions, probe_partitions, hash_table>>
      BY <2>10 DEF HJ!Returned, HJ!vars, HJ!joinVars, HJ!hashVars
    <3>2. HashTypeOK'
      BY <2>1, <3>1 DEF HashInv, HashTypeOK
    <3>3. \A p : Probed(p)' <=> Probed(p)
      BY <3>1, InputsStay DEF Probed
    <3>4. HashOutput'
      BY <3>1, <3>3, InputsStay DEF HashInv, HashOutput
    <3> QED BY <3>1, <3>2, <3>4 DEF HashInv
  <2> QED BY <2>1, <2>2, <2>3, <2>4, <2>5, <2>6, <2>7, <2>8, <2>9, <2>10 DEF HJ!Next
<1>2. CASE UNCHANGED vars
  <2>1. UNCHANGED <<operation, left, right, reversed, output, status, hash, next, partition,
                    position, build_partitions, probe_partitions, hash_table>>
    BY <1>2 DEF vars, joinVars, ownHash
  <2>2. HashTypeOK'
    BY <2>1 DEF HashInv, HashTypeOK
  <2>3. \A p : Probed(p)' <=> Probed(p)
    BY <2>1, InputsStay DEF Probed
  <2>4. HashOutput'
    BY <2>1, <2>3, InputsStay DEF HashInv, HashOutput
  <2>5. /\ HJ!Build' = HJ!Build /\ HJ!Probe' = HJ!Probe /\ HJ!Partitions' = HJ!Partitions
        /\ BuildOwner' = BuildOwner /\ ProbeOwner' = ProbeOwner
    BY <2>1, InputsStay
  <2>6. HashPhase => HashPhase'
    BY <2>1, <2>5 DEF HashPhase, BeforeTable, BothDivided, BuildDivided, ProbeDivided, TableHolds
  <2> QED BY <2>1, <2>2, <2>4, <2>6 DEF HashInv
<1> QED BY <1>1, <1>2

(* Probing a row is an Emit of the abstract join, the end of the last      *)
(* partition its Finish, and a reference that misses its child its Fail.   *)
LEMMA StepOfHashJoinRefines ==
  ASSUME HashInv, [Next]_vars
  PROVE  [EJ!Next]_(EJ!joinVars)
<1>1. EJ!Matches = Matches /\ EJ!Range(output) = Range(output)
      /\ (EJ!Range(output))' = Range(output') /\ EJ!IsInjective(output') = IsInjective(output')
  BY DEF EJ!Matches, EJ!MatchesOf, Matches, MatchesOf, EJ!Range, Range,
         EJ!IsInjective, IsInjective
<1>2. CASE Next
  <2>1. HJ!Next /\ operation' = operation
    BY <1>2, StepOfHashJoin DEF HashInv, HashTypeOK
  <2>2. CASE HJ!Start \/ HJ!PartitionBuildRow \/ HJ!PartitionProbeRow \/ HJ!Spill
             \/ HJ!BuildDone \/ HJ!Returned
    <3>1. UNCHANGED HJ!joinVars
      BY <2>2 DEF HJ!Start, HJ!PartitionBuildRow, HJ!PartitionProbeRow, HJ!Spill,
                  HJ!BuildDone, HJ!Returned, HJ!vars
    <3> QED BY <3>1 DEF HJ!joinVars, EJ!joinVars
  <2>3. CASE HJ!BuildRow /\ HJ!BuildRefFits
    <3>1. UNCHANGED HJ!joinVars
      BY <2>3 DEF HJ!BuildRow
    <3> QED BY <3>1 DEF HJ!joinVars, EJ!joinVars
  <2>4. CASE HJ!BuildRow /\ ~HJ!BuildRefFits
    <3> DEFINE rows == build_partitions[partition]
    <3>1. /\ status = "running" /\ next = "build" /\ position <= Len(rows)
          /\ status' = "KeyError" /\ UNCHANGED <<left, right, reversed, output>>
      BY <2>4 DEF HJ!BuildRow, HJ!RaiseKeyError
    <3>2. HashTypeOK /\ BothDivided /\ partition <= HJ!Partitions /\ position \in Nat \ {0}
      BY <3>1, BuildPhase
    <3>3. /\ Len(rows) \in Nat /\ DOMAIN rows = 1 .. Len(rows)
          /\ Range(rows) \subseteq DOMAIN HJ!Build
      BY <3>2, PartitionFacts
    <3>4. position \in DOMAIN rows
      BY <3>1, <3>2, <3>3
    <3>5. rows[position] \in DOMAIN HJ!Build
      BY <3>3, <3>4 DEF Range
    <3>6. reversed /\ (left = <<>>) # (right = <<>>)
      BY <2>4, <3>2, <3>5, MisfitOfRow
    <3>7. EJ!Fail
      BY <3>1, <3>6 DEF EJ!Fail, EJ!RaiseKeyError
    <3> QED BY <3>7 DEF EJ!Next
  <2>5. CASE HJ!ProbeRow /\ HJ!ProbeRefFits
    <3>1. HashInv' /\ IsPrefix(output, output') /\ UNCHANGED <<reversed, status>>
      BY <2>1, <2>5, ProbeRowEmits
    <3>2. UNCHANGED <<left, right>> /\ status = "running"
      BY <2>5 DEF HJ!ProbeRow, HJ!EmitRows
    <3>3. Matches' = Matches
      BY <3>2 DEF Matches, MatchesOf
    <3>4. IsInjective(output') /\ Range(output') \subseteq Matches
      BY <3>1, <3>3 DEF HashInv, HashOutput
    <3>5. EJ!Emit
      BY <1>1, <3>1, <3>2, <3>4 DEF EJ!Emit, EJ!Range, EJ!IsPrefix, IsPrefix
    <3> QED BY <3>5 DEF EJ!Next
  <2>6. CASE HJ!ProbeRow /\ ~HJ!ProbeRefFits
    <3> DEFINE rows == probe_partitions[partition]
    <3>1. /\ status = "running" /\ next = "probe" /\ position <= Len(rows)
          /\ status' = "KeyError" /\ UNCHANGED <<left, right, reversed, output>>
      BY <2>6 DEF HJ!ProbeRow, HJ!RaiseKeyError
    <3>2. HashTypeOK /\ BothDivided /\ partition <= HJ!Partitions /\ position \in Nat \ {0}
      BY <3>1, ProbePhase
    <3>3. /\ Len(rows) \in Nat /\ DOMAIN rows = 1 .. Len(rows)
          /\ Range(rows) \subseteq DOMAIN HJ!Probe
      BY <3>2, PartitionFacts
    <3>4. position \in DOMAIN rows
      BY <3>1, <3>2, <3>3
    <3>5. rows[position] \in DOMAIN HJ!Probe
      BY <3>3, <3>4 DEF Range
    <3>6. reversed /\ (left = <<>>) # (right = <<>>)
      BY <2>6, <3>2, <3>5, MisfitOfRow
    <3>7. EJ!Fail
      BY <3>1, <3>6 DEF EJ!Fail, EJ!RaiseKeyError
    <3> QED BY <3>7 DEF EJ!Next
  <2>7. CASE HJ!ProbeDone /\ partition < Len(build_partitions)
    BY <2>1, <2>7, NextPartitionKeepsInv DEF EJ!joinVars
  <2>8. CASE HJ!ProbeDone /\ ~(partition < Len(build_partitions))
    <3>1. /\ UNCHANGED <<left, right, reversed, output>> /\ status' = "done"
          /\ Range(output) = Matches /\ status = "running"
      BY <2>1, <2>8, LastPartitionKeepsInv, ProbeDoneFacts
    <3>2. EJ!Finish
      BY <1>1, <3>1 DEF EJ!Finish, EJ!Return
    <3> QED BY <3>2 DEF EJ!Next
  <2> QED BY <2>1, <2>2, <2>3, <2>4, <2>5, <2>6, <2>7, <2>8 DEF HJ!Next
<1>3. CASE UNCHANGED vars
  BY <1>3 DEF vars, joinVars, EJ!joinVars
<1> QED BY <1>2, <1>3

-----------------------------------------------------------------------------
(* The hash join emits each matching pair once, returns when all are out,  *)
(* and raises in the one stated case only, whatever the hash function puts *)
(* in one partition and whichever side is built.                           *)
THEOREM HashJoinImplementsEquiJoin ==
  Spec /\ operation = "hash_join" => ImplementsEquiJoin
<1>1. Init /\ operation = "hash_join" => HashInv
  BY InitHashInv
<1>2. HashInv /\ [Next]_vars => HashInv'
  BY StepKeepsHashInv
<1>3. HashInv /\ [Next]_vars => [EJ!Next]_(EJ!joinVars)
  BY StepOfHashJoinRefines
<1>4. Init => EJ!JoinInit
  BY DEF Init, JoinInit, EJ!JoinInit
<1> QED BY <1>1, <1>2, <1>3, <1>4, PTL DEF Spec, ImplementsEquiJoin, EJ!Spec

-----------------------------------------------------------------------------
(* The partitions stay as they are when both inputs are divided, also when *)
(* the join ends.                                                          *)
DividedFromHere == next \in {"spill", "build", "probe"} => BothDivided

LEMMA StepKeepsDivided ==
  ASSUME HashInv, DividedFromHere, [Next]_vars
  PROVE  DividedFromHere'
<1>1. HashInv'
  BY StepKeepsHashInv
<1>2. CASE status' = "running"
  BY <1>1, <1>2 DEF HashInv, HashPhase, DividedFromHere
<1>3. CASE status' # "running"
  <2>1. UNCHANGED <<left, right, hash, next, build_partitions, probe_partitions>>
    <3>1. CASE Next
      <4>1. HJ!Next
        BY <3>1, StepOfHashJoin DEF HashInv, HashTypeOK
      <4>2. CASE HJ!Start \/ HJ!PartitionBuildRow \/ HJ!PartitionProbeRow \/ HJ!Spill
                 \/ HJ!BuildDone
        BY <1>3, <4>2 DEF HJ!Start, HJ!PartitionBuildRow, HJ!PartitionProbeRow, HJ!Spill,
                          HJ!BuildDone, HJ!joinVars
      <4>3. CASE HJ!BuildRow
        BY <1>3, <4>3 DEF HJ!BuildRow, HJ!joinVars, HJ!RaiseKeyError
      <4>4. CASE HJ!ProbeRow
        BY <1>3, <4>4 DEF HJ!ProbeRow, HJ!EmitRows, HJ!RaiseKeyError
      <4>5. CASE HJ!ProbeDone
        BY <1>3, <4>5 DEF HJ!ProbeDone, HJ!joinVars, HJ!Return
      <4>6. CASE HJ!Returned
        BY <4>6 DEF HJ!Returned, HJ!vars, HJ!joinVars, HJ!hashVars
      <4> QED BY <4>1, <4>2, <4>3, <4>4, <4>5, <4>6 DEF HJ!Next
    <3>2. CASE UNCHANGED vars
      BY <3>2 DEF vars, joinVars, ownHash
    <3> QED BY <3>1, <3>2
  <2> QED BY <2>1, DividedStays DEF DividedFromHere
<1> QED BY <1>2, <1>3

(* Lists that divide the rows have each row in one place.                  *)
LEMMA DividedOnce ==
  ASSUME NEW partitions, NEW owner, NEW upto \in Nat, NEW count \in Nat,
         Divided(partitions, owner, upto, count),
         \A r \in 1 .. upto : owner[r] \in 1 .. count
  PROVE  HJ!Partitioned(partitions, 1 .. upto)
<1>1. DOMAIN partitions = 1 .. count
  BY LenProperties DEF Divided
<1>2. ASSUME NEW n \in 1 .. count
      PROVE  /\ HJ!IsInjective(partitions[n])
             /\ HJ!Range(partitions[n]) = {r \in 1 .. upto : owner[r] = n}
  BY DEF Divided, HJ!IsInjective, IsInjective, HJ!Range, Range
<1>3. UNION {HJ!Range(partitions[n]) : n \in 1 .. count} = 1 .. upto
  BY <1>2
<1>4. \A m, n \in 1 .. count :
        m # n => HJ!Range(partitions[m]) \cap HJ!Range(partitions[n]) = {}
  BY <1>2
<1> QED BY <1>1, <1>2, <1>3, <1>4 DEF HJ!Partitioned

LEMMA DividedPartners ==
  ASSUME HashTypeOK, BothDivided
  PROVE  /\ HJ!Partitioned(build_partitions, DOMAIN HJ!Build)
         /\ HJ!Partitioned(probe_partitions, DOMAIN HJ!Probe)
         /\ \A m, n \in DOMAIN build_partitions :
              \A b \in HJ!Range(build_partitions[m]), p \in HJ!Range(probe_partitions[n]) :
                HJ!Build[b] = HJ!Probe[p] => m = n
<1> DEFINE N == HJ!Partitions
<1>1. /\ N \in Nat
      /\ Len(HJ!Build) \in Nat /\ DOMAIN HJ!Build = 1 .. Len(HJ!Build)
      /\ Len(HJ!Probe) \in Nat /\ DOMAIN HJ!Probe = 1 .. Len(HJ!Probe)
      /\ \A b \in DOMAIN HJ!Build : BuildOwner[b] \in 1 .. N
      /\ \A p \in DOMAIN HJ!Probe : ProbeOwner[p] \in 1 .. N
      /\ \A b \in DOMAIN HJ!Build, p \in DOMAIN HJ!Probe :
           HJ!Build[b] = HJ!Probe[p] => BuildOwner[b] = ProbeOwner[p]
  BY HashFacts
<1> HIDE DEF N
<1>2. /\ Divided(build_partitions, BuildOwner, Len(HJ!Build), N)
      /\ Divided(probe_partitions, ProbeOwner, Len(HJ!Probe), N)
  BY DEF BothDivided, BuildDivided, ProbeDivided, N
<1>3. /\ HJ!Partitioned(build_partitions, DOMAIN HJ!Build)
      /\ HJ!Partitioned(probe_partitions, DOMAIN HJ!Probe)
  <2> DEFINE b == Len(HJ!Build)
             p == Len(HJ!Probe)
  <2>1. /\ DOMAIN HJ!Build = 1 .. b /\ DOMAIN HJ!Probe = 1 .. p
        /\ b \in Nat /\ p \in Nat
        /\ \A r \in 1 .. b : BuildOwner[r] \in 1 .. N
        /\ \A r \in 1 .. p : ProbeOwner[r] \in 1 .. N
        /\ Divided(build_partitions, BuildOwner, b, N)
        /\ Divided(probe_partitions, ProbeOwner, p, N)
    BY <1>1, <1>2
  <2> HIDE DEF b, p
  <2>2. HJ!Partitioned(build_partitions, 1 .. b)
    BY <1>1, <2>1, DividedOnce
  <2>3. HJ!Partitioned(probe_partitions, 1 .. p)
    BY <1>1, <2>1, DividedOnce
  <2> QED BY <2>1, <2>2, <2>3
<1>4. DOMAIN build_partitions = 1 .. N
  BY <1>1, <1>2, LenProperties DEF Divided
<1>5. ASSUME NEW m \in 1 .. N, NEW n \in 1 .. N,
             NEW b \in HJ!Range(build_partitions[m]), NEW p \in HJ!Range(probe_partitions[n]),
             HJ!Build[b] = HJ!Probe[p]
      PROVE  m = n
  <2>1. /\ Range(build_partitions[m]) = {r \in 1 .. Len(HJ!Build) : BuildOwner[r] = m}
        /\ Range(probe_partitions[n]) = {r \in 1 .. Len(HJ!Probe) : ProbeOwner[r] = n}
    BY <1>2 DEF Divided
  <2>2. /\ b \in Range(build_partitions[m]) /\ p \in Range(probe_partitions[n])
    BY <1>5 DEF HJ!Range, Range
  <2>3. b \in 1 .. Len(HJ!Build) /\ BuildOwner[b] = m
    BY <2>1, <2>2
  <2>4. p \in 1 .. Len(HJ!Probe) /\ ProbeOwner[p] = n
    BY <2>1, <2>2
  <2> QED BY <1>1, <1>5, <2>3, <2>4
<1> QED BY <1>3, <1>4, <1>5

(* Rows of equal keys meet in one partition, whatever the hash function,   *)
(* and no row is lost or doubled on the way into the temporary pages.      *)
THEOREM HashJoinPartitions == Spec => []PartnersShareAPartition
<1> DEFINE Inv == operation = "hash_join" => HashInv /\ DividedFromHere
<1>1. Init => Inv
  <2>1. Init /\ operation = "hash_join" => next = "start"
    BY DEF Init, NestedLoops, HJ!HashInit
  <2> QED BY <2>1, InitHashInv DEF DividedFromHere
<1>2. Inv /\ [Next]_vars => Inv'
  <2>1. [Next]_vars => operation' = operation
    BY DEF Next, vars, NL!Next, NL!Compare, NL!Finish, NL!Returned, NL!vars
  <2> QED BY <2>1, StepKeepsHashInv, StepKeepsDivided
<1>3. Inv => PartnersShareAPartition
  BY DividedPartners DEF PartnersShareAPartition, HJ!PartnersShareAPartition,
                         DividedFromHere, HashInv
<1> QED BY <1>1, <1>2, <1>3, PTL DEF Spec

-----------------------------------------------------------------------------
(* The order of the output: by partitions, in a partition by probe rows,   *)
(* and under each of them by build rows.                                   *)

Ascends(s) == \A x, y \in DOMAIN s : x < y => s[x] < s[y]

LEMMA AppendAscends ==
  ASSUME NEW p \in Seq(Nat), NEW r \in Nat, Ascends(p), \A x \in Range(p) : x < r
  PROVE  Ascends(Append(p, r))
<1> DEFINE u == Append(p, r)
           n == Len(p)
<1>1. n \in Nat /\ DOMAIN p = 1 .. n
  BY LenProperties
<1>2. /\ DOMAIN u = 1 .. n + 1 /\ u[n + 1] = r
      /\ \A x \in 1 .. n : u[x] = p[x]
  OBVIOUS
<1>3. \A x \in 1 .. n : p[x] < r
  BY <1>1 DEF Range
<1> HIDE DEF u, n
<1>4. ASSUME NEW x \in 1 .. n + 1, NEW y \in 1 .. n + 1, x < y
      PROVE  u[x] < u[y]
  <2>1. x \in 1 .. n
    BY <1>1, <1>4
  <2>2. CASE y \in 1 .. n
    BY <1>1, <1>2, <1>4, <2>1, <2>2 DEF Ascends
  <2>3. CASE y = n + 1
    BY <1>2, <1>3, <2>1, <2>3
  <2> QED BY <1>1, <2>2, <2>3
<1>5. Ascends(u)
  BY <1>2, <1>4 DEF Ascends
<1> QED BY <1>5 DEF u

ListsAscend(partitions) == \A n \in DOMAIN partitions : Ascends(partitions[n])

LEMMA OneMoreAscends ==
  ASSUME NEW count \in Nat, NEW upto \in Nat, NEW owner, NEW partitions,
         Divided(partitions, owner, upto, count), ListsAscend(partitions),
         owner[upto + 1] \in 1 .. count
  PROVE  ListsAscend([partitions EXCEPT ![owner[upto + 1]] = Append(@, upto + 1)])
<1> DEFINE o == owner[upto + 1]
           grown == Append(partitions[o], upto + 1)
           new == [partitions EXCEPT ![o] = grown]
<1>1. /\ partitions \in Seq(Seq(Nat)) /\ DOMAIN partitions = 1 .. count /\ o \in 1 .. count
      /\ Range(partitions[o]) = {x \in 1 .. upto : owner[x] = o}
  BY LenProperties DEF Divided
<1>2. partitions[o] \in Seq(Nat) /\ Ascends(partitions[o])
  <2>1. Len(partitions) = count
    BY DEF Divided
  <2> HIDE DEF o
  <2> QED BY <1>1, <2>1, ElementOfSeq DEF ListsAscend
<1>3. \A x \in Range(partitions[o]) : x < upto + 1
  BY <1>1
<1>4. Ascends(grown)
  BY <1>2, <1>3, AppendAscends
<1> HIDE DEF grown, o
<1>5. DOMAIN new = 1 .. count /\ \A n \in 1 .. count : new[n] = IF n = o THEN grown ELSE partitions[n]
  BY <1>1
<1>6. ListsAscend(new)
  BY <1>1, <1>4, <1>5 DEF ListsAscend
<1> QED BY <1>6 DEF new, grown, o

TableAscends(table) == \A k : Ascends(RowsIn(table, k))

LEMMA OneMoreTableAscends ==
  ASSUME NEW table, NEW list \in Seq(Nat), NEW key_of, NEW upto \in Nat,
         Tabled(table, list, key_of, upto), TableAscends(table),
         Ascends(list), upto + 1 <= Len(list)
  PROVE  LET row == list[upto + 1]
             key == key_of[row]
         IN  TableAscends([k \in DOMAIN table \cup {key} |->
                            IF k = key THEN Append(RowsIn(table, k), row) ELSE table[k]])
<1> DEFINE row == list[upto + 1]
           key == key_of[row]
           old == RowsIn(table, key)
           new == [k \in DOMAIN table \cup {key} |->
                    IF k = key THEN Append(RowsIn(table, k), row) ELSE table[k]]
<1>1. \A k : RowsIn(new, k) = IF k = key THEN Append(old, row) ELSE RowsIn(table, k)
  BY DEF RowsIn
<1>2. /\ Len(list) \in Nat /\ DOMAIN list = 1 .. Len(list)
      /\ upto + 1 \in 1 .. Len(list)
      /\ \A x \in 1 .. upto : x \in 1 .. Len(list) /\ x < upto + 1
  BY LenProperties
<1>3. row \in Nat
  BY <1>2, ElementOfSeq
<1>4. old \in Seq(Nat) /\ \A b \in Range(old) : \E x \in 1 .. upto : list[x] = b
  BY DEF Tabled
<1>5. \A x \in 1 .. upto : list[x] < row
  BY <1>2 DEF Ascends
<1> HIDE DEF new, row
<1>6. Ascends(old)
  BY DEF TableAscends
<1> HIDE DEF old
<1>7. Ascends(Append(old, row))
  BY <1>3, <1>4, <1>5, <1>6, AppendAscends
<1>8. TableAscends(new)
  BY <1>1, <1>7 DEF TableAscends
<1> QED BY <1>8 DEF new, row

BuildRowOf(pair) == IF HJ!BuildLeft THEN pair[1] ELSE pair[2]

HashOrder == HJ!OutputOrder(operation, left, right, hash)

LEMMA HashOrderIs ==
  ASSUME HashTypeOK
  PROVE  /\ \A p \in Matches :
              /\ ProbeOwner[ProbeRowOf(p)] \in Int /\ ProbeRowOf(p) \in Int
              /\ BuildRowOf(p) \in Int /\ p = PairOf(BuildRowOf(p), ProbeRowOf(p))
         /\ \A p, q \in Matches :
              <<p, q>> \in HashOrder <=>
                Earlier3(ProbeOwner[ProbeRowOf(p)], ProbeRowOf(p), BuildRowOf(p),
                         ProbeOwner[ProbeRowOf(q)], ProbeRowOf(q), BuildRowOf(q))
<1>1. /\ Len(left) \in Nat /\ DOMAIN left = 1 .. Len(left)
      /\ Len(right) \in Nat /\ DOMAIN right = 1 .. Len(right)
  BY LenProperties DEF HashTypeOK
<1>2. /\ HJ!Partitions \in Nat
      /\ \A r \in DOMAIN HJ!Probe : ProbeOwner[r] \in 1 .. HJ!Partitions
  BY HashFacts
<1>3. ASSUME NEW p \in Matches
      PROVE  /\ ProbeOwner[ProbeRowOf(p)] \in Int /\ ProbeRowOf(p) \in Int
             /\ BuildRowOf(p) \in Int /\ p = PairOf(BuildRowOf(p), ProbeRowOf(p))
             /\ HJ!OutputRank(operation, left, right, hash, p) =
                  <<ProbeOwner[ProbeRowOf(p)], ProbeRowOf(p), BuildRowOf(p)>>
  <2>1. /\ p[1] \in 1 .. Len(left) /\ p[2] \in 1 .. Len(right) /\ p = <<p[1], p[2]>>
        /\ left[p[1]] = right[p[2]]
    BY <1>1 DEF Matches, MatchesOf
  <2>2. ProbeRowOf(p) \in DOMAIN HJ!Probe
    BY PairFacts
  <2>3. ProbeOwner[ProbeRowOf(p)] = HJ!PartitionOf(hash, left[p[1]], left, right)
    BY <2>1, <2>2 DEF ProbeOwner, HJ!ProbePartitionOf, HJ!BuildPartitionOf, ProbeRowOf, HJ!Probe
  <2>4. ProbeOwner[ProbeRowOf(p)] \in Int
    <3>1. ProbeOwner[ProbeRowOf(p)] \in 1 .. HJ!Partitions
      BY <1>2, <2>2
    <3> QED BY <1>2, <3>1
  <2>5. HJ!OutputRank(operation, left, right, hash, p) =
          IF HJ!BuildLeft THEN <<ProbeOwner[ProbeRowOf(p)], p[2], p[1]>>
                          ELSE <<ProbeOwner[ProbeRowOf(p)], p[1], p[2]>>
    BY <2>3 DEF HJ!OutputRank, HashTypeOK, HJ!BuildLeft
  <2>6. p[1] \in Int /\ p[2] \in Int
    BY <1>1, <2>1
  <2> QED BY <2>1, <2>4, <2>5, <2>6 DEF ProbeRowOf, BuildRowOf, PairOf
<1>4. \A a, b : HJ!RankBefore(a, b) <=> RankBefore(a, b)
  BY DEF HJ!RankBefore, RankBefore
<1>5. HJ!MatchesOf(left, right) = Matches
  BY DEF HJ!MatchesOf, Matches, MatchesOf
<1>6. ASSUME NEW p \in Matches, NEW q \in Matches
      PROVE  <<p, q>> \in HashOrder <=>
               Earlier3(ProbeOwner[ProbeRowOf(p)], ProbeRowOf(p), BuildRowOf(p),
                        ProbeOwner[ProbeRowOf(q)], ProbeRowOf(q), BuildRowOf(q))
  <2>1. <<p, q>> \in HashOrder <=>
          RankBefore(HJ!OutputRank(operation, left, right, hash, p),
                     HJ!OutputRank(operation, left, right, hash, q))
    BY <1>4, <1>5 DEF HashOrder, HJ!OutputOrder
  <2> QED BY <1>3, <2>1, RankBeforeIs
<1> QED BY <1>3, <1>6

HashOrdered ==
  /\ ListsAscend(build_partitions) /\ ListsAscend(probe_partitions)
  /\ TableAscends(hash_table)
  /\ InOrder(output, HashOrder)

(* A probe row whose reference misses it is not passed.                    *)
HashEnds ==
  /\ JoinEnds
  /\ ~HJ!ProbeRefFits /\ next = "probe" => position = 1
  /\ status = "done" => HJ!ProbeRefFits \/ HJ!Probe = <<>>

HashResultInv == HashInv /\ HashOrdered /\ HashEnds

LEMMA ResultConstants ==
  ASSUME UNCHANGED <<operation, left, right, reversed, hash>>
  PROVE  HashOrder' = HashOrder /\ HJ!ProbeRefFits' = HJ!ProbeRefFits
BY DEF HashOrder, HJ!OutputOrder, HJ!MatchesOf, HJ!OutputRank, HJ!BuildIsLeft, HJ!PartitionOf,
       HJ!PartitionCount, HJ!Spills, HJ!BuildRows, HJ!PagesOf, HJ!RowsPerBlock, HJ!UsableFrames,
       HJ!ProbeRefFits, HJ!LeftRefFits, HJ!RightRefFits, HJ!OrientedJoinRefs,
       HJ!ConditionSides, HJ!BuildLeft

LEMMA InitHashResult ==
  ASSUME Init, operation = "hash_join"
  PROVE  HashResultInv
<1>1. /\ output = <<>> /\ status = "running" /\ next = "start"
      /\ build_partitions = <<>> /\ probe_partitions = <<>> /\ hash_table = <<>>
  BY DEF Init, NestedLoops, JoinInit, HJ!HashInit
<1>2. DOMAIN <<>> = {} /\ \A k : RowsIn(<<>>, k) = <<>>
  BY DEF RowsIn
<1>3. HashOrdered
  BY <1>1, <1>2 DEF HashOrdered, ListsAscend, TableAscends, Ascends, InOrder
<1>4. HashEnds
  BY <1>1 DEF HashEnds, JoinEnds
<1> QED BY <1>3, <1>4, InitHashInv DEF HashResultInv

(* Steps that emit nothing: only the lists and the table can lose order.   *)
LEMMA ListsAndTable ==
  ASSUME HashResultInv, UNCHANGED <<operation, left, right, reversed, hash, output>>,
         ListsAscend(build_partitions'), ListsAscend(probe_partitions'),
         TableAscends(hash_table')
  PROVE  HashOrdered'
BY ResultConstants DEF HashResultInv, HashOrdered

LEMMA EmptyListsAscend ==
  /\ \A n \in Nat : ListsAscend([x \in 1 .. n |-> <<>>])
  /\ \A S : S \subseteq Nat => ListsAscend(<<[p \in S |-> p]>>)
  /\ TableAscends(<<>>)
<1>1. ASSUME NEW n \in Nat  PROVE ListsAscend([x \in 1 .. n |-> <<>>])
  BY DEF ListsAscend, Ascends
<1>2. ASSUME NEW S, S \subseteq Nat  PROVE ListsAscend(<<[p \in S |-> p]>>)
  <2> DEFINE all == [p \in S |-> p]
  <2>1. Ascends(all)
    BY DEF Ascends
  <2> HIDE DEF all
  <2>2. DOMAIN <<all>> = {1} /\ <<all>>[1] = all
    OBVIOUS
  <2>3. ListsAscend(<<all>>)
    BY <2>1, <2>2 DEF ListsAscend
  <2> QED BY <2>3 DEF all
<1>3. TableAscends(<<>>)
  BY DEF TableAscends, RowsIn, Ascends
<1> QED BY <1>1, <1>2, <1>3

LEMMA PartitioningKeepsOrder ==
  ASSUME HashResultInv, operation' = operation,
         HJ!Start \/ HJ!PartitionBuildRow \/ HJ!PartitionProbeRow \/ HJ!Spill
  PROVE  HashOrdered'
<1>1. /\ UNCHANGED <<left, right, reversed, hash, output, hash_table>>
      /\ HashInv /\ HashTypeOK /\ status = "running"
      /\ ListsAscend(build_partitions) /\ ListsAscend(probe_partitions)
      /\ TableAscends(hash_table)
  BY DEF HJ!Start, HJ!PartitionBuildRow, HJ!PartitionProbeRow, HJ!Spill, HJ!joinVars,
         HashResultInv, HashInv, HashOrdered
<1>2. /\ HJ!Partitions \in Nat \ {0}
      /\ Len(HJ!Build) \in Nat /\ DOMAIN HJ!Build = 1 .. Len(HJ!Build)
      /\ Len(HJ!Probe) \in Nat /\ DOMAIN HJ!Probe = 1 .. Len(HJ!Probe)
      /\ \A b \in DOMAIN HJ!Build : BuildOwner[b] \in 1 .. HJ!Partitions
      /\ \A p \in DOMAIN HJ!Probe : ProbeOwner[p] \in 1 .. HJ!Partitions
  BY <1>1, HashFacts
<1>3. position \in Nat \ {0}
  BY <1>1 DEF HashTypeOK
<1>4. CASE HJ!Start
  <2>1. \/ /\ build_partitions' = [n \in 1 .. HJ!Partitions |-> <<>>]
           /\ probe_partitions' = [n \in 1 .. HJ!Partitions |-> <<>>]
        \/ /\ build_partitions' = <<[p \in DOMAIN HJ!Build |-> p]>>
           /\ probe_partitions' = <<[p \in DOMAIN HJ!Probe |-> p]>>
    BY <1>4 DEF HJ!Start
  <2>2. DOMAIN HJ!Build \subseteq Nat /\ DOMAIN HJ!Probe \subseteq Nat
    BY <1>2
  <2>3. ListsAscend(build_partitions') /\ ListsAscend(probe_partitions')
    BY <1>2, <2>1, <2>2, EmptyListsAscend
  <2> QED BY <1>1, <2>3, ListsAndTable
<1>5. CASE HJ!PartitionBuildRow
  <2>1. next = "partition build" /\ UNCHANGED probe_partitions
    BY <1>5 DEF HJ!PartitionBuildRow
  <2>2. CASE position <= Len(HJ!Build)
    <3> DEFINE before == position - 1
    <3>1. before \in Nat /\ before + 1 = position
      BY <1>3
    <3>2. Divided(build_partitions, BuildOwner, before, HJ!Partitions)
      BY <1>1, <2>1 DEF HashInv, HashPhase, BuildDivided
    <3> HIDE DEF before
    <3>3. position \in DOMAIN HJ!Build
      BY <1>2, <1>3, <2>2
    <3>4. /\ build_partitions' =
               [build_partitions EXCEPT ![BuildOwner[position]] = Append(@, position)]
          /\ BuildOwner[before + 1] \in 1 .. HJ!Partitions
      BY <1>2, <1>5, <2>2, <3>1, <3>3 DEF HJ!PartitionBuildRow, BuildOwner
    <3>5. ListsAscend(build_partitions')
      BY <1>1, <1>2, <3>1, <3>2, <3>4, OneMoreAscends
    <3> QED BY <1>1, <2>1, <3>5, ListsAndTable
  <2>3. CASE ~(position <= Len(HJ!Build))
    <3>1. UNCHANGED build_partitions
      BY <1>5, <2>3 DEF HJ!PartitionBuildRow
    <3> QED BY <1>1, <2>1, <3>1, ListsAndTable
  <2> QED BY <2>2, <2>3
<1>6. CASE HJ!PartitionProbeRow
  <2>1. next = "partition probe" /\ UNCHANGED build_partitions
    BY <1>6 DEF HJ!PartitionProbeRow
  <2>2. CASE position <= Len(HJ!Probe)
    <3> DEFINE before == position - 1
    <3>1. before \in Nat /\ before + 1 = position
      BY <1>3
    <3>2. Divided(probe_partitions, ProbeOwner, before, HJ!Partitions)
      BY <1>1, <2>1 DEF HashInv, HashPhase, ProbeDivided
    <3> HIDE DEF before
    <3>3. position \in DOMAIN HJ!Probe
      BY <1>2, <1>3, <2>2
    <3>4. /\ probe_partitions' =
               [probe_partitions EXCEPT ![ProbeOwner[position]] = Append(@, position)]
          /\ ProbeOwner[before + 1] \in 1 .. HJ!Partitions
      BY <1>2, <1>6, <2>2, <3>1, <3>3 DEF HJ!PartitionProbeRow, ProbeOwner
    <3>5. ListsAscend(probe_partitions')
      BY <1>1, <1>2, <3>1, <3>2, <3>4, OneMoreAscends
    <3> QED BY <1>1, <2>1, <3>5, ListsAndTable
  <2>3. CASE ~(position <= Len(HJ!Probe))
    <3>1. UNCHANGED probe_partitions
      BY <1>6, <2>3 DEF HJ!PartitionProbeRow
    <3> QED BY <1>1, <2>1, <3>1, ListsAndTable
  <2> QED BY <2>2, <2>3
<1>7. CASE HJ!Spill
  BY <1>1, <1>7, ListsAndTable DEF HJ!Spill
<1> QED BY <1>4, <1>5, <1>6, <1>7

LEMMA BuildingKeepsOrder ==
  ASSUME HashResultInv, operation' = operation, HJ!BuildRow \/ HJ!BuildDone
  PROVE  HashOrdered'
<1> DEFINE rows == build_partitions[partition]
<1>1. /\ UNCHANGED <<left, right, reversed, hash, output, build_partitions, probe_partitions>>
      /\ status = "running" /\ next = "build"
  BY DEF HJ!BuildRow, HJ!BuildDone, HJ!joinVars, HJ!RaiseKeyError
<1>2. /\ HashInv /\ ListsAscend(build_partitions) /\ ListsAscend(probe_partitions)
      /\ TableAscends(hash_table)
  BY DEF HashResultInv, HashOrdered
<1>3. CASE UNCHANGED hash_table
  BY <1>1, <1>2, <1>3, ListsAndTable
<1>4. CASE HJ!BuildRow /\ HJ!BuildRefFits
  <2>1. /\ position <= Len(rows)
        /\ hash_table' = [k \in DOMAIN hash_table \cup {HJ!Build[rows[position]]} |->
                            IF k = HJ!Build[rows[position]]
                            THEN Append(HJ!RowsOfKey(k), rows[position]) ELSE hash_table[k]]
    BY <1>4 DEF HJ!BuildRow
  <2>2. \A k : HJ!RowsOfKey(k) = RowsIn(hash_table, k)
    BY DEF HJ!RowsOfKey, RowsIn
  <2>3. /\ HashTypeOK /\ BothDivided /\ TableHolds(position - 1)
        /\ partition <= HJ!Partitions /\ position \in Nat \ {0}
    BY <1>1, <1>2, BuildPhase
  <2>4. rows \in Seq(Nat)
    BY <2>3, PartitionFacts
  <2>5. Ascends(rows)
    <3>1. partition \in DOMAIN build_partitions
      <4>1. /\ build_partitions \in Seq(Seq(Nat)) /\ Len(build_partitions) = HJ!Partitions
            /\ HJ!Partitions \in Nat
        BY <2>3, HashFacts DEF BothDivided, BuildDivided, Divided
      <4>2. DOMAIN build_partitions = 1 .. HJ!Partitions
        BY <4>1, LenProperties
      <4>3. partition \in Nat \ {0}
        BY <2>3 DEF HashTypeOK
      <4> QED BY <2>3, <4>1, <4>2, <4>3
    <3> QED BY <1>2, <3>1 DEF ListsAscend
  <2> DEFINE before == position - 1
  <2>6. before \in Nat /\ before + 1 = position /\ Tabled(hash_table, rows, HJ!Build, before)
    <3>1. Tabled(hash_table, rows, HJ!Build, before)
      BY <2>3 DEF TableHolds
    <3> QED BY <2>3, <3>1
  <2> HIDE DEF before, rows
  <2>7. TableAscends([k \in DOMAIN hash_table \cup {HJ!Build[rows[before + 1]]} |->
                       IF k = HJ!Build[rows[before + 1]]
                       THEN Append(RowsIn(hash_table, k), rows[before + 1]) ELSE hash_table[k]])
    BY <1>2, <2>1, <2>4, <2>5, <2>6, OneMoreTableAscends
  <2>8. TableAscends(hash_table')
    BY <2>1, <2>2, <2>6, <2>7
  <2> QED BY <1>1, <1>2, <2>8, ListsAndTable
<1>5. (HJ!BuildRow /\ ~HJ!BuildRefFits) \/ HJ!BuildDone => UNCHANGED hash_table
  BY DEF HJ!BuildRow, HJ!BuildDone
<1> QED BY <1>3, <1>4, <1>5

(* The rows a probe row adds come in order, after all of those before.     *)
LEMMA ProbingKeepsOrder ==
  ASSUME HashResultInv, operation' = operation, HJ!ProbeRow, HJ!ProbeRefFits
  PROVE  HashOrdered'
<1> DEFINE rows == probe_partitions[partition]
           p == rows[position]
           partners == HJ!RowsOfKey(HJ!Probe[p])
           new == [n \in DOMAIN partners |-> PairOf(partners[n], p)]
<1>1. /\ UNCHANGED <<left, right, reversed, status, hash, next, partition,
                     build_partitions, probe_partitions, hash_table>>
      /\ status = "running" /\ next = "probe" /\ position <= Len(rows)
      /\ output' = output \o new
  BY DEF HJ!ProbeRow, HJ!EmitRows, PairOf
<1>2. /\ HashInv /\ ListsAscend(build_partitions) /\ ListsAscend(probe_partitions)
      /\ TableAscends(hash_table) /\ InOrder(output, HashOrder)
  BY DEF HashResultInv, HashOrdered
<1>3. /\ HashTypeOK /\ HashOutput /\ BothDivided
      /\ TableHolds(Len(build_partitions[partition]))
      /\ partition <= HJ!Partitions /\ position \in Nat \ {0}
  BY <1>1, <1>2, ProbePhase
<1>4. /\ Len(rows) \in Nat /\ DOMAIN rows = 1 .. Len(rows) /\ rows \in Seq(Nat)
      /\ Range(rows) = {q \in DOMAIN HJ!Probe : ProbeOwner[q] = partition}
  BY <1>3, PartitionFacts
<1>5. Ascends(rows)
  <2>1. partition \in DOMAIN probe_partitions
    <3>1. /\ probe_partitions \in Seq(Seq(Nat)) /\ Len(probe_partitions) = HJ!Partitions
          /\ HJ!Partitions \in Nat
      BY <1>3, HashFacts DEF BothDivided, ProbeDivided, Divided
    <3>2. DOMAIN probe_partitions = 1 .. HJ!Partitions
      BY <3>1, LenProperties
    <3>3. partition \in Nat \ {0}
      BY <1>3 DEF HashTypeOK
    <3> QED BY <1>3, <3>1, <3>2, <3>3
  <2> QED BY <1>2, <2>1 DEF ListsAscend
<1>6. position \in DOMAIN rows /\ p \in Range(rows)
  <2>1. position \in Nat \ {0} /\ position <= Len(rows)
        /\ Len(rows) \in Nat /\ DOMAIN rows = 1 .. Len(rows)
    BY <1>1, <1>3, <1>4
  <2> HIDE DEF rows
  <2>2. position \in DOMAIN rows
    BY <2>1
  <2> QED BY <2>2 DEF Range
<1>7. /\ p \in DOMAIN HJ!Probe /\ p \in Nat /\ ProbeOwner[p] = partition
      /\ partners \in Seq(Nat) /\ IsInjective(partners)
      /\ Range(partners) = {b \in DOMAIN HJ!Build : HJ!Build[b] = HJ!Probe[p]}
  BY <1>3, <1>6, PartnersOfRow
<1>8. Ascends(partners)
  <2>1. partners = RowsIn(hash_table, HJ!Probe[p])
    BY DEF HJ!RowsOfKey, RowsIn
  <2> HIDE DEF partners
  <2> QED BY <1>2, <2>1 DEF TableAscends
<1>9. \A x \in 1 .. position - 1 : rows[x] < p
  <2>1. \A x \in 1 .. position - 1 : x \in DOMAIN rows /\ x < position
    <3> HIDE DEF rows
    <3> QED BY <1>1, <1>3, <1>4
  <2> QED BY <1>5, <1>6, <2>1 DEF Ascends
<1> HIDE DEF p, partners
<1>10. /\ new \in Seq(Nat \X Nat)
       /\ Range(new) = {pair \in Matches : ProbeRowOf(pair) = p}
  BY <1>7, NewRows
<1>11. \A q \in Matches : ProbeOwner[ProbeRowOf(q)] \in Int /\ ProbeRowOf(q) \in Int
  BY <1>3, HashOrderIs
<1>12. ASSUME NEW x \in Range(output), NEW y \in Range(new)
       PROVE  <<x, y>> \in HashOrder
  <2>1. x \in Matches /\ Probed(ProbeRowOf(x)) /\ y \in Matches /\ ProbeRowOf(y) = p
    BY <1>3, <1>10 DEF HashOutput
  <2>2. ProbeRowOf(x) \in DOMAIN HJ!Probe
    BY <2>1, PairFacts
  <2>3. \/ ProbeOwner[ProbeRowOf(x)] < partition
        \/ ProbeOwner[ProbeRowOf(x)] = partition /\ ProbeRowOf(x) < p
    <3>1. CASE ProbeOwner[ProbeRowOf(x)] < partition
      BY <3>1
    <3>2. CASE \E n \in 1 .. position - 1 : rows[n] = ProbeRowOf(x)
      <4>1. PICK n \in 1 .. position - 1 : rows[n] = ProbeRowOf(x)
        BY <3>2
      <4>2. n \in DOMAIN rows
        <5> HIDE DEF rows
        <5> QED BY <1>1, <1>3, <1>4
      <4>3. ProbeRowOf(x) \in Range(rows)
        BY <4>1, <4>2 DEF Range
      <4> QED BY <1>4, <1>9, <4>1, <4>3
    <3> QED BY <2>1, <3>1, <3>2 DEF Probed
  <2>4. Earlier3(ProbeOwner[ProbeRowOf(x)], ProbeRowOf(x), BuildRowOf(x),
                 ProbeOwner[ProbeRowOf(y)], ProbeRowOf(y), BuildRowOf(y))
    BY <1>7, <2>1, <2>3 DEF Earlier3
  <2> QED BY <1>3, <2>1, <2>4, HashOrderIs
<1>13. ASSUME NEW m \in DOMAIN partners, NEW n \in DOMAIN partners, m < n
       PROVE  <<new[m], new[n]>> \in HashOrder
  <2>1. new[m] = PairOf(partners[m], p) /\ new[n] = PairOf(partners[n], p)
    OBVIOUS
  <2>2. new[m] \in Range(new) /\ new[n] \in Range(new)
    BY DEF Range
  <2> HIDE DEF new
  <2>3. /\ new[m] \in Matches /\ ProbeRowOf(new[m]) = p
        /\ new[n] \in Matches /\ ProbeRowOf(new[n]) = p
    BY <1>10, <2>2
  <2>4. partners[m] < partners[n]
    BY <1>8, <1>13 DEF Ascends
  <2>5. BuildRowOf(new[m]) = partners[m] /\ BuildRowOf(new[n]) = partners[n]
    BY <2>1 DEF BuildRowOf, PairOf
  <2>6. Earlier3(ProbeOwner[ProbeRowOf(new[m])], ProbeRowOf(new[m]), BuildRowOf(new[m]),
                 ProbeOwner[ProbeRowOf(new[n])], ProbeRowOf(new[n]), BuildRowOf(new[n]))
    BY <2>3, <2>4, <2>5 DEF Earlier3
  <2> QED BY <1>3, <2>3, <2>6, HashOrderIs
<1>14. InOrder(new, HashOrder)
  BY <1>13 DEF InOrder
<1> HIDE DEF new
<1>15. InOrder(output', HashOrder)
  <2>1. output \in Seq(Nat \X Nat)
    BY <1>3 DEF HashTypeOK
  <2> QED BY <1>1, <1>2, <1>10, <1>12, <1>14, <2>1, ConcatInOrder
<1> QED BY <1>1, <1>2, <1>15, ResultConstants DEF HashOrdered

LEMMA StepKeepsHashOrdered ==
  ASSUME HashResultInv, [Next]_vars
  PROVE  HashOrdered'
<1>1. HashInv /\ HashTypeOK /\ HashOrdered
  BY DEF HashResultInv, HashInv
<1>2. CASE Next
  <2>1. HJ!Next /\ operation' = operation
    BY <1>1, <1>2, StepOfHashJoin DEF HashTypeOK
  <2>2. CASE HJ!Start \/ HJ!PartitionBuildRow \/ HJ!PartitionProbeRow \/ HJ!Spill
    BY <2>1, <2>2, PartitioningKeepsOrder
  <2>3. CASE HJ!BuildRow \/ HJ!BuildDone
    BY <2>1, <2>3, BuildingKeepsOrder
  <2>4. CASE HJ!ProbeRow /\ HJ!ProbeRefFits
    BY <2>1, <2>4, ProbingKeepsOrder
  <2>5. CASE HJ!ProbeRow /\ ~HJ!ProbeRefFits
    <3>1. UNCHANGED <<left, right, reversed, hash, output, build_partitions,
                      probe_partitions, hash_table>>
      BY <2>5 DEF HJ!ProbeRow, HJ!RaiseKeyError
    <3> QED BY <1>1, <2>1, <3>1, ListsAndTable DEF HashOrdered
  <2>6. CASE HJ!ProbeDone
    <3>1. UNCHANGED <<left, right, reversed, hash, output, build_partitions, probe_partitions>>
      BY <1>1, <2>6, ProbeDoneFacts
    <3>2. hash_table' = hash_table \/ hash_table' = <<>>
      BY <2>6 DEF HJ!ProbeDone
    <3>3. TableAscends(hash_table')
      BY <1>1, <3>2, EmptyListsAscend DEF HashOrdered
    <3> QED BY <1>1, <2>1, <3>1, <3>3, ListsAndTable DEF HashOrdered
  <2>7. CASE HJ!Returned
    <3>1. UNCHANGED <<left, right, reversed, hash, output, build_partitions,
                      probe_partitions, hash_table>>
      BY <2>7 DEF HJ!Returned, HJ!vars, HJ!joinVars, HJ!hashVars
    <3> QED BY <1>1, <2>1, <3>1, ListsAndTable DEF HashOrdered
  <2> QED BY <2>1, <2>2, <2>3, <2>4, <2>5, <2>6, <2>7 DEF HJ!Next
<1>3. CASE UNCHANGED vars
  <2>1. UNCHANGED <<operation, left, right, reversed, hash, output, build_partitions,
                    probe_partitions, hash_table>>
    BY <1>3 DEF vars, joinVars, ownHash
  <2> QED BY <1>1, <2>1, ListsAndTable DEF HashOrdered
<1> QED BY <1>2, <1>3

(* The condition misses a row only if the build side is empty, and an      *)
(* empty side fits.                                                        *)
LEMMA MisfitIsUnpartitioned ==
  ASSUME HashTypeOK, ~HJ!ProbeRefFits
  PROVE  HJ!Partitions = 1 /\ HJ!Build = <<>>
<1>1. left = <<>> \/ right = <<>>
  BY MisfitMeansEmpty
<1>2. Len(left) \in Nat /\ Len(right) \in Nat /\ Len(<<>>) = 0
  BY LenProperties DEF HashTypeOK
<1>3. \A s : s \in Seq(Range(s)) /\ Len(s) = 0 => s = <<>>
  BY EmptySeq
<1>4. HJ!Build = <<>>
  BY <1>1, <1>2, <1>3 DEF HJ!Build, HJ!BuildRows, HJ!BuildIsLeft, HashTypeOK
<1>5. HJ!PagesOf(HJ!BuildRows(left, right)) = 0
  <2>1. HJ!BuildRows(left, right) = <<>>
    BY <1>4 DEF HJ!Build
  <2>2. HJ!PagesOf(<<>>) = CeilDiv(0, TuplesPerPage)
    BY <1>2 DEF HJ!PagesOf, HJ!CeilDiv, CeilDiv
  <2>3. CeilDiv(0, TuplesPerPage) = 0
    <3>1. TuplesPerPage * (0 - 1) < 0 /\ 0 <= TuplesPerPage * 0
      BY EvaluatorAssumption
    <3> QED BY <3>1, EvaluatorAssumption, CeilDivIs
  <2> QED BY <2>1, <2>2, <2>3
<1>6. HJ!UsableFrames \in Nat \ {0}
  BY HashFramesAssumption DEF HJ!UsableFrames, HJ!JoinFrames, HJ!AtLeastOne, HJ!AtLeast
<1>7. ~HJ!Spills(left, right)
  BY <1>5, <1>6 DEF HJ!Spills
<1> QED BY <1>4, <1>7, HashFacts

LEMMA StepKeepsHashEnds ==
  ASSUME HashResultInv, [Next]_vars
  PROVE  HashEnds'
<1>1. HashInv /\ HashTypeOK /\ HashEnds /\ operation = "hash_join"
  BY DEF HashResultInv, HashInv, HashTypeOK
<1>2. JoinEnds'
  BY <1>1, StepOfHashJoinRefines, AbstractStepEnds DEF HashEnds
<1>3. UNCHANGED <<operation, left, right, reversed, hash>>
  <2>1. CASE Next
    <3>1. HJ!Next /\ operation' = operation
      BY <1>1, <2>1, StepOfHashJoin
    <3>2. UNCHANGED <<left, right, reversed, hash>>
      BY <3>1 DEF HJ!Next, HJ!Start, HJ!PartitionBuildRow, HJ!PartitionProbeRow, HJ!Spill,
                  HJ!BuildRow, HJ!BuildDone, HJ!ProbeRow, HJ!ProbeDone, HJ!Returned,
                  HJ!vars, HJ!joinVars, HJ!hashVars, HJ!RaiseKeyError, HJ!EmitRows, HJ!Return
    <3> QED BY <3>1, <3>2
  <2>2. CASE UNCHANGED vars
    BY <2>2 DEF vars, joinVars, ownHash
  <2> QED BY <2>1, <2>2
<1>4. /\ HJ!ProbeRefFits' = HJ!ProbeRefFits
      /\ HJ!Probe' = HJ!Probe
  BY <1>3, ResultConstants, InputsStay
<1>5. CASE HJ!ProbeRefFits
  BY <1>2, <1>4, <1>5 DEF HashEnds
<1>6. CASE ~HJ!ProbeRefFits
  <2>1. /\ next' = "probe" => position' = 1
        /\ status' = "done" => HJ!Probe = <<>>
    <3>1. /\ next = "probe" => position = 1
          /\ status = "done" => HJ!Probe = <<>>
      BY <1>1, <1>6 DEF HashEnds
    <3>2. CASE UNCHANGED <<next, position, status>>
      BY <3>1, <3>2
    <3>3. CASE Next
      <4>1. HJ!Next
        BY <1>1, <3>3, StepOfHashJoin
      <4>2. CASE HJ!Start \/ HJ!PartitionBuildRow \/ HJ!PartitionProbeRow \/ HJ!Spill
                 \/ HJ!BuildDone
        BY <3>1, <4>2 DEF HJ!Start, HJ!PartitionBuildRow, HJ!PartitionProbeRow, HJ!Spill,
                          HJ!BuildDone, HJ!joinVars
      <4>3. CASE HJ!BuildRow
        BY <3>1, <4>3 DEF HJ!BuildRow, HJ!joinVars, HJ!RaiseKeyError
      <4>4. CASE HJ!ProbeRow
        BY <1>6, <3>1, <4>4 DEF HJ!ProbeRow, HJ!RaiseKeyError
      <4>5. CASE HJ!ProbeDone
        <5>1. /\ next = "probe" /\ BothDivided
              /\ partition <= HJ!Partitions /\ partition \in Nat \ {0}
              /\ position - 1 = Len(probe_partitions[partition])
              /\ Len(build_partitions) = HJ!Partitions
          BY <1>1, <4>5, ProbeDoneFacts
        <5>2. HJ!Partitions = 1 /\ partition = 1 /\ position = 1
          <6>1. HJ!Partitions = 1
            BY <1>1, <1>6, MisfitIsUnpartitioned
          <6> QED BY <3>1, <5>1, <6>1
        <5>3. UNCHANGED <<next, position>>
          BY <4>5, <5>1, <5>2 DEF HJ!ProbeDone
        <5>4. /\ DOMAIN probe_partitions[1] = 1 .. Len(probe_partitions[1])
              /\ Range(probe_partitions[1]) = {p \in DOMAIN HJ!Probe : ProbeOwner[p] = 1}
          BY <1>1, <5>1, <5>2, PartitionFacts
        <5>5. Len(probe_partitions[1]) = 0
          BY <5>1, <5>2
        <5>6. Range(probe_partitions[1]) = {}
          BY <5>4, <5>5 DEF Range
        <5>7. \A p \in DOMAIN HJ!Probe : ProbeOwner[p] \in 1 .. 1
          BY <1>1, <5>2, HashFacts
        <5>8. DOMAIN HJ!Probe = {}
          <6>1. ASSUME NEW p \in DOMAIN HJ!Probe  PROVE ProbeOwner[p] = 1
            BY <5>7
          <6> QED BY <5>4, <5>6, <6>1
        <5>9. HJ!Probe = <<>>
          <6>1. HJ!Probe \in {left, right}
            BY DEF HJ!Probe
          <6>2. HJ!Probe \in Seq(Range(HJ!Probe))
            BY <1>1, <6>1 DEF HashTypeOK
          <6>3. Len(HJ!Probe) = 0
            BY <5>8, <6>2, LenProperties
          <6> QED BY <6>2, <6>3, EmptySeq
        <5> QED BY <3>1, <5>1, <5>3, <5>9
      <4>6. CASE HJ!Returned
        BY <3>2, <4>6 DEF HJ!Returned, HJ!vars, HJ!joinVars, HJ!hashVars
      <4> QED BY <4>1, <4>2, <4>3, <4>4, <4>5, <4>6 DEF HJ!Next
    <3>4. UNCHANGED vars => UNCHANGED <<next, position, status>>
      BY DEF vars, joinVars, ownHash
    <3> QED BY <3>2, <3>3, <3>4
  <2> QED BY <1>2, <1>4, <1>6, <2>1 DEF HashEnds
<1> QED BY <1>5, <1>6

LEMMA StepKeepsHashResult ==
  ASSUME HashResultInv, [Next]_vars
  PROVE  HashResultInv'
BY StepKeepsHashInv, StepKeepsHashOrdered, StepKeepsHashEnds DEF HashResultInv

(* There is one list of the matches in this order, and the join makes it.  *)
LEMMA HashJoinEndsAsResult ==
  ASSUME HashResultInv, status # "running"
  PROVE  /\ operation = "hash_join" /\ status \in {"done", "KeyError"}
         /\ (status = "KeyError") <=> JoinFails(operation, reversed, left, right)
         /\ status = "done" => output = HJ!JoinOutput(operation, left, right, hash)
<1>1. /\ HashTypeOK /\ operation = "hash_join" /\ status \in {"done", "KeyError"}
      /\ output \in Seq(Nat \X Nat)
      /\ HashEnds /\ JoinEnds /\ InOrder(output, HashOrder)
  BY DEF HashResultInv, HashInv, HashTypeOK, HashEnds, JoinEnds, HashOrdered
<1>2. status = "KeyError" => JoinFails(operation, reversed, left, right)
  BY <1>1 DEF JoinEnds, JoinFails
<1>3. ASSUME status = "done"  PROVE ~JoinFails(operation, reversed, left, right)
  <2> SUFFICES ASSUME reversed, (left = <<>>) # (right = <<>>)  PROVE FALSE
    BY DEF JoinFails
  <2>1. HJ!OrientedJoinRefs[1] = "right" /\ HJ!OrientedJoinRefs[2] = "left"
    BY DEF HJ!OrientedJoinRefs, HJ!ConditionSides
  <2>2. ~HJ!ProbeRefFits
    BY <2>1 DEF HJ!ProbeRefFits, HJ!LeftRefFits, HJ!RightRefFits
  <2>3. HJ!Probe = <<>> /\ HJ!Build = <<>>
    BY <1>1, <1>3, <2>2, MisfitIsUnpartitioned DEF HashEnds
  <2>4. left = <<>> /\ right = <<>>
    BY <2>3 DEF HJ!Build, HJ!BuildRows, HJ!Probe, HJ!BuildLeft
  <2> QED BY <2>4
<1>4. IsTotalOrder(HashOrder, Matches)
  <2> DEFINE f == [p \in Matches |-> ProbeOwner[ProbeRowOf(p)]]
             g == [p \in Matches |-> ProbeRowOf(p)]
             h == [p \in Matches |-> BuildRowOf(p)]
  <2>1. f \in [Matches -> Int] /\ g \in [Matches -> Int] /\ h \in [Matches -> Int]
    BY <1>1, HashOrderIs
  <2>2. \A p, q \in Matches : f[p] = f[q] /\ g[p] = g[q] /\ h[p] = h[q] => p = q
    <3> SUFFICES ASSUME NEW p \in Matches, NEW q \in Matches,
                        ProbeRowOf(p) = ProbeRowOf(q), BuildRowOf(p) = BuildRowOf(q)
                 PROVE  p = q
      OBVIOUS
    <3>1. /\ p = PairOf(BuildRowOf(p), ProbeRowOf(p))
          /\ q = PairOf(BuildRowOf(q), ProbeRowOf(q))
      BY <1>1, HashOrderIs
    <3> QED BY <3>1
  <2>3. \A p, q \in Matches :
          <<p, q>> \in HashOrder <=> Earlier3(f[p], g[p], h[p], f[q], g[q], h[q])
    BY <1>1, HashOrderIs
  <2> HIDE DEF f, g, h
  <2> QED BY <2>1, <2>2, <2>3, RanksAreTotal
<1>5. ASSUME status = "done"
      PROVE  output = HJ!JoinOutput(operation, left, right, hash)
  <2>1. Range(output) = Matches
    BY <1>1, <1>5 DEF JoinEnds
  <2>2. output = Arranged(Matches, HashOrder)
    BY <1>1, <1>4, <2>1, InOrderIsArranged
  <2>3. Arranged(Matches, HashOrder) = HJ!JoinOutput(operation, left, right, hash)
    <3>1. ASSUME NEW S, NEW order  PROVE HJ!Arranged(S, order) = Arranged(S, order)
      BY Zenon DEF HJ!Arranged, Arranged, HJ!Cardinality, Cardinality
    <3>2. HJ!MatchesOf(left, right) = Matches
      BY DEF HJ!MatchesOf, Matches, MatchesOf
    <3> QED BY <3>1, <3>2 DEF HJ!JoinOutput, HashOrder
  <2> QED BY <2>2, <2>3
<1> QED BY <1>1, <1>2, <1>3, <1>5
=============================================================================
