--------------------------- MODULE MergeJoinProofs ---------------------------
(***************************************************************************)
(* The external merge sort of PhysicalOperators, for inputs of any length  *)
(* with any keys, any number of frames and of rows a page: however many    *)
(* passes it takes, the result is the stable sort of the input.  Then the  *)
(* sort-merge join, and with it all physical operators together: what they *)
(* return, and in which order.                                             *)
(*                                                                         *)
(* The argument for the join: a row of the one input is before the cursor  *)
(* exactly if its partners in the other input are, and the output holds    *)
(* the matches of the left rows before the cursor.                         *)
(***************************************************************************)
EXTENDS JoinProofs

-----------------------------------------------------------------------------
(* Lists of runs, from one of them to another.                             *)

RowsOf(list, lo, hi) == UNION {Range(list[n]) : n \in lo .. hi}

(* Each is in key order, and the rows of earlier ones are before those of  *)
(* later ones in the input.                                                *)
AreSlices(k, list, lo, hi) ==
  /\ \A n \in lo .. hi : KeyOrdered(k, list[n])
  /\ \A m, n \in lo .. hi :
       m < n => \A i \in Range(list[m]), j \in Range(list[n]) : i < j

LEMMA OneMoreSlice ==
  ASSUME NEW k, NEW list \in Seq(Seq(Nat)), NEW run \in Seq(Nat),
         AreSlices(k, list, 1, Len(list)), KeyOrdered(k, run),
         \A i \in RowsOf(list, 1, Len(list)), j \in Range(run) : i < j
  PROVE  LET new == Append(list, run)
         IN  /\ new \in Seq(Seq(Nat))
             /\ Len(new) = Len(list) + 1
             /\ AreSlices(k, new, 1, Len(new))
             /\ RowsOf(new, 1, Len(new)) = RowsOf(list, 1, Len(list)) \cup Range(run)
<1> DEFINE new == Append(list, run)
           L == Len(list)
<1>1. /\ new \in Seq(Seq(Nat)) /\ Len(new) = L + 1
      /\ \A n \in 1 .. L : new[n] = list[n]
      /\ new[L + 1] = run
  BY AppendProperties
<1>2. L \in Nat
  BY LenProperties
<1> HIDE DEF new, L
<1>3. /\ \A n \in 1 .. L + 1 : n \in 1 .. L \/ n = L + 1
      /\ \A n \in 1 .. L : n \in 1 .. L + 1
      /\ L + 1 \in 1 .. L + 1
  BY <1>2
<1>4. RowsOf(new, 1, L + 1) = RowsOf(list, 1, L) \cup Range(run)
  BY <1>1, <1>3 DEF RowsOf
<1>5. /\ \A n \in 1 .. L : KeyOrdered(k, list[n])
      /\ \A m, n \in 1 .. L :
           m < n => \A i \in Range(list[m]), j \in Range(list[n]) : i < j
  BY DEF AreSlices, L
<1>6. \A m \in 1 .. L : \A i \in Range(list[m]), j \in Range(run) : i < j
  <2>1. \A m \in 1 .. L : \A i \in Range(list[m]) : i \in RowsOf(list, 1, Len(list))
    BY DEF RowsOf, L
  <2> QED BY <2>1
<1>7. \A n \in 1 .. L + 1 : KeyOrdered(k, new[n])
  BY <1>1, <1>3, <1>5
<1>8. ASSUME NEW m \in 1 .. L + 1, NEW n \in 1 .. L + 1, m < n,
             NEW i \in Range(new[m]), NEW j \in Range(new[n])
      PROVE  i < j
  <2>1. m \in 1 .. L
    BY <1>2, <1>8
  <2>2. CASE n \in 1 .. L
    BY <1>1, <1>5, <1>8, <2>1, <2>2
  <2>3. CASE n = L + 1
    BY <1>1, <1>6, <1>8, <2>1, <2>3
  <2> QED BY <1>3, <2>2, <2>3
<1>9. AreSlices(k, new, 1, L + 1)
  BY <1>7, <1>8 DEF AreSlices
<1> QED BY <1>1, <1>4, <1>9 DEF new, L

LEMMA NoSlices ==
  ASSUME NEW k, NEW list, NEW lo \in Int, NEW hi \in Int, hi < lo
  PROVE  AreSlices(k, list, lo, hi) /\ RowsOf(list, lo, hi) = {}
<1>1. lo .. hi = {}
  OBVIOUS
<1> QED BY <1>1 DEF AreSlices, RowsOf

-----------------------------------------------------------------------------
(* The phases.                                                             *)

SortTypeOK ==
  /\ operation = "external_merge_sort"
  /\ keys \in Seq(Int)
  /\ buffer_frames \in Nat \ {0} /\ tuples_per_page \in Nat \ {0}
  /\ phase \in {"start", "runs", "group", "merge", "done"}
  /\ runs \in Seq(Seq(Nat)) /\ next_runs \in Seq(Seq(Nat)) /\ merged \in Seq(Nat)
  /\ start \in Nat

(* The runs not merged yet in this pass are those after start.             *)
RowsMerged == RowsOf(next_runs, 1, Len(next_runs))
RowsToMerge == RowsOf(runs, start + 1, Len(runs))

SlicesBetween ==
  /\ start < Len(runs)
  /\ start = 0 => next_runs = <<>>
  /\ AreSlices(keys, next_runs, 1, Len(next_runs))
  /\ AreSlices(keys, runs, start + 1, Len(runs))
  /\ RowsMerged \cup RowsToMerge = DOMAIN keys
  /\ \A i \in RowsMerged, j \in RowsToMerge : i < j

GroupEnd == IF start + ES!FanIn < Len(runs) THEN start + ES!FanIn ELSE Len(runs)
GroupSize == GroupEnd - start
RunOfGroup(r) == runs[start + r]

(* The rows of the group before the cursors are in merged, in key order,   *)
(* and before all rows at or after them.                                   *)
GroupMerging ==
  /\ cursor \in [1 .. GroupSize -> Nat \ {0}]
  /\ \A r \in 1 .. GroupSize : cursor[r] <= Len(RunOfGroup(r)) + 1
  /\ \A i : i \in Range(merged) <=>
       \E r \in 1 .. GroupSize : \E x \in 1 .. cursor[r] - 1 : i = RunOfGroup(r)[x]
  /\ KeyOrdered(keys, merged)
  /\ \A i \in Range(merged) : \A r \in 1 .. GroupSize :
       \A x \in cursor[r] .. Len(RunOfGroup(r)) : KeyBefore(keys, i, RunOfGroup(r)[x])

SortPhase ==
  /\ phase = "start" => runs = <<>> /\ next_runs = <<>> /\ start = 0
  /\ phase = "runs" =>
       /\ start < Len(keys) /\ next_runs = <<>>
       /\ AreSlices(keys, runs, 1, Len(runs))
       /\ RowsOf(runs, 1, Len(runs)) = 1 .. start
  /\ phase \in {"group", "merge"} => SlicesBetween
  /\ phase = "merge" => GroupMerging
  /\ phase = "done" =>
       Len(runs) = 1 /\ Range(runs[1]) = DOMAIN keys /\ KeyOrdered(keys, runs[1])

SortInv == SortTypeOK /\ SortPhase

LEMMA SortConstants ==
  ASSUME SortTypeOK
  PROVE  /\ ES!RowsPerRun \in Nat \ {0}
         /\ ES!FanIn \in Nat /\ ES!FanIn >= 2
         /\ Len(keys) \in Nat /\ DOMAIN keys = 1 .. Len(keys)
         /\ Len(runs) \in Nat /\ Len(next_runs) \in Nat
<1>1. \A a, b \in Nat \ {0} : a * b \in Nat \ {0}
  BY SMT
<1>2. ES!RowsPerRun \in Nat \ {0}
  BY <1>1 DEF ES!RowsPerRun, SortTypeOK
<1>3. ES!FanIn \in Nat /\ ES!FanIn >= 2
  BY DEF ES!FanIn, ES!MergeFrames, ES!AtLeast, SortTypeOK
<1> QED BY <1>2, <1>3, LenProperties DEF SortTypeOK

LEMMA SliceOfInput ==
  ASSUME SortTypeOK, NEW first \in Nat \ {0}, NEW last \in 0 .. Len(keys)
  PROVE  LET s == ES!SortedSlice(first, last)
         IN  /\ s \in Seq(Nat)
             /\ Range(s) = first .. last
             /\ KeyOrdered(keys, s)
<1>1. ES!SortedSlice(first, last) = Sorted(keys, first .. last)
  <2>1. \A rows : ES!KeyOrder(keys, rows) = KeyOrder(keys, rows)
    BY DEF ES!KeyOrder, KeyOrder, ES!KeyBefore, KeyBefore
  <2>2. ASSUME NEW rows, NEW order
        PROVE  ES!Arranged(rows, order) = Arranged(rows, order)
    BY Zenon DEF ES!Arranged, Arranged, ES!Cardinality, Cardinality
  <2> QED BY <2>1, <2>2 DEF ES!SortedSlice, ES!Sorted, Sorted
<1>2. keys \in Seq(Int)
  BY DEF SortTypeOK
<1> QED BY <1>1, <1>2, SortedRows

LEMMA InitSortInv ==
  ASSUME Init, operation = "external_merge_sort"
  PROVE  SortInv
<1>1. PICK input \in SortInputs : ES!SortInit(input)
  BY DEF Init, NestedLoops, Joins
<1>2. /\ keys = input.keys /\ buffer_frames = input.buffer_frames
      /\ tuples_per_page = input.tuples_per_page
      /\ phase = "start" /\ runs = <<>> /\ next_runs = <<>> /\ start = 0 /\ merged = <<>>
  BY <1>1 DEF ES!SortInit
<1>3. <<>> \in Seq(Seq(Nat)) /\ <<>> \in Seq(Nat)
  BY EmptySeq
<1>4. SortTypeOK
  BY <1>2, <1>3, SortInputsAssumption DEF SortTypeOK
<1> QED BY <1>2, <1>4 DEF SortInv, SortPhase

-----------------------------------------------------------------------------
LEMMA StartSortKeepsInv ==
  ASSUME SortInv, ES!Start, operation' = operation
  PROVE  SortInv'
<1>1. /\ phase = "start" /\ SortTypeOK /\ runs = <<>> /\ next_runs = <<>> /\ start = 0
      /\ UNCHANGED <<keys, buffer_frames, tuples_per_page, next_runs, start, merged>>
  BY DEF ES!Start, ES!arguments, SortInv, SortPhase
<1>2. Len(keys) \in Nat /\ DOMAIN keys = 1 .. Len(keys) /\ ES!RowsPerRun \in Nat \ {0}
  BY <1>1, SortConstants
<1>3. CASE Len(keys) <= ES!RowsPerRun
  <2> DEFINE run == ES!SortedSlice(1, Len(keys))
  <2>1. phase' = "done" /\ runs' = <<run>>
    BY <1>3 DEF ES!Start
  <2>2. run \in Seq(Nat) /\ Range(run) = 1 .. Len(keys) /\ KeyOrdered(keys, run)
    BY <1>1, <1>2, SliceOfInput
  <2> HIDE DEF run
  <2>3. runs' \in Seq(Seq(Nat)) /\ Len(runs') = 1 /\ runs'[1] = run
    BY <2>1, <2>2
  <2>4. SortTypeOK'
    BY <1>1, <2>1, <2>3 DEF SortTypeOK
  <2>5. SortPhase'
    BY <1>1, <1>2, <2>1, <2>2, <2>3 DEF SortPhase
  <2> QED BY <2>4, <2>5 DEF SortInv
<1>4. CASE ~(Len(keys) <= ES!RowsPerRun)
  <2>1. phase' = "runs" /\ runs' = runs
    BY <1>4 DEF ES!Start
  <2>2. SortTypeOK'
    BY <1>1, <2>1 DEF SortTypeOK
  <2>3. start < Len(keys)
    BY <1>1, <1>2, <1>4
  <2>4. Len(runs) \in Int /\ Len(runs) < 1 /\ 1 .. start = {}
    BY <1>1, EmptySeq
  <2>5. AreSlices(keys, runs, 1, Len(runs)) /\ RowsOf(runs, 1, Len(runs)) = {}
    BY <2>4, NoSlices
  <2>6. SortPhase'
    BY <1>1, <2>1, <2>3, <2>4, <2>5 DEF SortPhase
  <2> QED BY <2>2, <2>6 DEF SortInv
<1> QED BY <1>3, <1>4

LEMMA MakeRunKeepsInv ==
  ASSUME SortInv, ES!MakeRun, operation' = operation
  PROVE  SortInv'
<1> DEFINE end == IF start + ES!RowsPerRun < Len(keys) THEN start + ES!RowsPerRun
                                                       ELSE Len(keys)
           run == ES!SortedSlice(start + 1, end)
<1>1. /\ phase = "runs" /\ SortTypeOK
      /\ start < Len(keys) /\ next_runs = <<>>
      /\ AreSlices(keys, runs, 1, Len(runs))
      /\ RowsOf(runs, 1, Len(runs)) = 1 .. start
  BY DEF ES!MakeRun, SortInv, SortPhase
<1>2. /\ UNCHANGED <<keys, buffer_frames, tuples_per_page, next_runs, merged>>
      /\ runs' = Append(runs, run)
      /\ start' = IF end = Len(keys) THEN 0 ELSE end
      /\ phase' = IF end = Len(keys) THEN "group" ELSE "runs"
  BY DEF ES!MakeRun, ES!arguments
<1>3. /\ Len(keys) \in Nat /\ DOMAIN keys = 1 .. Len(keys) /\ ES!RowsPerRun \in Nat \ {0}
      /\ Len(runs) \in Nat /\ start \in Nat
  BY <1>1, SortConstants DEF SortTypeOK
<1>4. end \in start + 1 .. Len(keys)
  BY <1>1, <1>3
<1> HIDE DEF end
<1>5. /\ start + 1 \in Nat \ {0} /\ end \in 0 .. Len(keys) /\ end \in Nat
      /\ (1 .. start) \cup (start + 1 .. end) = 1 .. end
      /\ \A i \in 1 .. start, j \in start + 1 .. end : i < j
  BY <1>3, <1>4
<1>6. run \in Seq(Nat) /\ Range(run) = start + 1 .. end /\ KeyOrdered(keys, run)
  BY <1>1, <1>5, SliceOfInput
<1> HIDE DEF run
<1>7. /\ runs' \in Seq(Seq(Nat)) /\ Len(runs') = Len(runs) + 1
      /\ AreSlices(keys, runs', 1, Len(runs'))
      /\ RowsOf(runs', 1, Len(runs')) = 1 .. end
  <2>1. \A i \in RowsOf(runs, 1, Len(runs)), j \in Range(run) : i < j
    BY <1>1, <1>5, <1>6
  <2>2. runs \in Seq(Seq(Nat))
    BY <1>1 DEF SortTypeOK
  <2>3. LET new == Append(runs, run)
        IN  /\ new \in Seq(Seq(Nat)) /\ Len(new) = Len(runs) + 1
            /\ AreSlices(keys, new, 1, Len(new))
            /\ RowsOf(new, 1, Len(new)) = RowsOf(runs, 1, Len(runs)) \cup Range(run)
    BY <1>1, <1>6, <2>1, <2>2, OneMoreSlice
  <2> QED BY <1>1, <1>2, <1>5, <1>6, <2>3
<1>8. SortTypeOK'
  BY <1>1, <1>2, <1>5, <1>7 DEF SortTypeOK
<1>9. CASE end = Len(keys)
  <2>1. phase' = "group" /\ start' = 0
    BY <1>2, <1>9
  <2>2. next_runs' = <<>> /\ Len(next_runs') = 0 /\ start' < Len(runs')
    BY <1>1, <1>2, <1>3, <1>7, <2>1, EmptySeq
  <2>3. AreSlices(keys, next_runs', 1, Len(next_runs')) /\ RowsMerged' = {}
    BY <2>2, NoSlices DEF RowsMerged
  <2>4. start' + 1 = 1 /\ RowsToMerge' = DOMAIN keys
    BY <1>3, <1>7, <1>9, <2>1 DEF RowsToMerge
  <2>5. SlicesBetween'
    BY <1>2, <1>7, <2>1, <2>2, <2>3, <2>4 DEF SlicesBetween
  <2> QED BY <1>8, <2>1, <2>5 DEF SortInv, SortPhase
<1>10. CASE end # Len(keys)
  <2>1. phase' = "runs" /\ start' = end /\ start' < Len(keys)
    <3>1. phase' = "runs" /\ start' = end
      BY <1>2, <1>10
    <3>2. end < Len(keys)
      <4>1. Len(keys) \in Nat /\ end \in 0 .. Len(keys)
        BY <1>3, <1>5
      <4> QED BY <1>10, <4>1
    <3> QED BY <3>1, <3>2
  <2>2. SortPhase'
    BY <1>1, <1>2, <1>7, <2>1 DEF SortPhase
  <2> QED BY <1>8, <2>2 DEF SortInv
<1> QED BY <1>9, <1>10

-----------------------------------------------------------------------------
(* The group of runs that is merged.                                       *)
LEMMA GroupOfRuns ==
  ASSUME SortTypeOK, SlicesBetween
  PROVE  /\ GroupEnd \in start + 1 .. Len(runs) /\ GroupSize \in Nat \ {0}
         /\ ES!Group \in Seq(Seq(Nat)) /\ Len(ES!Group) = GroupSize
         /\ DOMAIN ES!Group = 1 .. GroupSize
         /\ \A r \in 1 .. GroupSize :
              /\ start + r \in start + 1 .. GroupEnd
              /\ ES!Group[r] = RunOfGroup(r)
              /\ RunOfGroup(r) \in Seq(Nat)
              /\ Len(RunOfGroup(r)) \in Nat
              /\ DOMAIN RunOfGroup(r) = 1 .. Len(RunOfGroup(r))
              /\ KeyOrdered(keys, RunOfGroup(r))
         /\ \A n \in start + 1 .. GroupEnd :
              n - start \in 1 .. GroupSize /\ start + (n - start) = n
         /\ \A q, r \in 1 .. GroupSize : q < r =>
              \A i \in Range(RunOfGroup(q)), j \in Range(RunOfGroup(r)) : i < j
<1>1. /\ start \in Nat /\ Len(runs) \in Nat /\ start < Len(runs)
      /\ ES!FanIn \in Nat /\ ES!FanIn >= 2
      /\ runs \in Seq(Seq(Nat))
  BY SortConstants DEF SortTypeOK, SlicesBetween
<1>2. GroupEnd \in start + 1 .. Len(runs) /\ GroupEnd \in Int
  BY <1>1 DEF GroupEnd
<1> DEFINE e == GroupEnd
           n == GroupSize
<1>3. ES!Group = SubSeq(runs, start + 1, e)
  BY DEF ES!Group, GroupEnd
<1>4. n = e - start
  BY DEF GroupSize
<1> HIDE DEF e, n
<1>5. e \in start + 1 .. Len(runs)
  BY <1>2 DEF e
<1>6. /\ n \in Nat \ {0}
      /\ \A r \in 1 .. n : start + r \in start + 1 .. e /\ start + r \in 1 .. Len(runs)
      /\ \A m \in start + 1 .. e : m - start \in 1 .. n /\ start + (m - start) = m
      /\ e - (start + 1) + 1 = n /\ start + 1 <= e
      /\ \A r \in 1 .. n : (start + 1) + r - 1 = start + r
      /\ \A r \in start + 1 .. e : r \in 1 .. Len(runs)
      /\ \A q, r \in 1 .. n : q < r => start + q < start + r
  BY <1>1, <1>4, <1>5
<1>7. \A r \in start + 1 .. e : runs[r] \in Seq(Nat)
  BY <1>1, <1>6, ElementOfSeq
<1>8. /\ ES!Group \in Seq(Seq(Nat)) /\ Len(ES!Group) = n
      /\ \A r \in 1 .. n : ES!Group[r] = runs[start + r]
  <2> DEFINE lo == start + 1
             g == SubSeq(runs, lo, e)
  <2>1. lo \in Int /\ e \in Int
    BY <1>1, <1>5
  <2> HIDE DEF lo
  <2>2. \A r \in lo .. e : runs[r] \in Seq(Nat)
    BY <1>7 DEF lo
  <2>3. /\ g \in Seq(Seq(Nat))
        /\ Len(g) = IF lo <= e THEN e - lo + 1 ELSE 0
        /\ \A r \in 1 .. e - lo + 1 : g[r] = runs[lo + r - 1]
    BY <2>1, <2>2, SubSeqProperties
  <2> HIDE DEF g
  <2>4. ES!Group = g
    BY <1>3 DEF g, lo
  <2>5. e - lo + 1 = n /\ lo <= e /\ \A r \in 1 .. n : lo + r - 1 = start + r
    BY <1>6 DEF lo
  <2> QED BY <2>3, <2>4, <2>5
<1>9. DOMAIN ES!Group = 1 .. n
  BY <1>8, LenProperties
<1>10. ASSUME NEW r \in 1 .. n
       PROVE  /\ RunOfGroup(r) \in Seq(Nat)
              /\ Len(RunOfGroup(r)) \in Nat
              /\ DOMAIN RunOfGroup(r) = 1 .. Len(RunOfGroup(r))
  BY <1>6, <1>7, LenProperties DEF RunOfGroup
<1>11. /\ \A m \in start + 1 .. Len(runs) : KeyOrdered(keys, runs[m])
       /\ \A l, m \in start + 1 .. Len(runs) :
            l < m => \A i \in Range(runs[l]), j \in Range(runs[m]) : i < j
  BY DEF SlicesBetween, AreSlices
<1>12. \A r \in 1 .. n : start + r \in start + 1 .. Len(runs)
  BY <1>1, <1>5, <1>6
<1>13. \A r \in 1 .. n : KeyOrdered(keys, RunOfGroup(r))
  BY <1>11, <1>12 DEF RunOfGroup
<1>14. \A q, r \in 1 .. n : q < r =>
         \A i \in Range(RunOfGroup(q)), j \in Range(RunOfGroup(r)) : i < j
  BY <1>6, <1>11, <1>12 DEF RunOfGroup
<1> QED BY <1>5, <1>6, <1>8, <1>9, <1>10, <1>13, <1>14 DEF e, n, RunOfGroup

(* Nothing these speak of changes while a group is merged.                 *)
LEMMA GroupStays ==
  ASSUME UNCHANGED <<keys, buffer_frames, runs, next_runs, start>>
  PROVE  /\ SlicesBetween' = SlicesBetween
         /\ GroupEnd' = GroupEnd /\ GroupSize' = GroupSize
         /\ \A r : RunOfGroup(r)' = RunOfGroup(r)
BY DEF SlicesBetween, RowsMerged, RowsToMerge, GroupEnd, GroupSize, RunOfGroup, ES!FanIn

LEMMA ReadGroupKeepsInv ==
  ASSUME SortInv, ES!ReadGroup, operation' = operation
  PROVE  SortInv'
<1>1. /\ SortTypeOK /\ SlicesBetween
      /\ UNCHANGED <<keys, buffer_frames, tuples_per_page, runs, next_runs, start>>
      /\ cursor' = [r \in DOMAIN ES!Group |-> 1] /\ merged' = <<>> /\ phase' = "merge"
  BY DEF SortInv, SortPhase, ES!ReadGroup, ES!arguments
<1>2. SortTypeOK'
  BY <1>1, EmptySeq DEF SortTypeOK
<1>3. SlicesBetween'
  BY <1>1, GroupStays
<1>4. GroupMerging'
  <2>1. /\ cursor' \in [1 .. GroupSize -> Nat \ {0}]
        /\ \A r \in 1 .. GroupSize : cursor'[r] = 1
    BY <1>1, GroupOfRuns
  <2>2. \A r \in 1 .. GroupSize : 1 <= Len(RunOfGroup(r)) + 1
    BY <1>1, GroupOfRuns
  <2>3. DOMAIN merged' = {} /\ Range(merged') = {} /\ 1 .. 1 - 1 = {}
    BY <1>1 DEF Range
  <2>4. KeyOrdered(keys, merged')
    BY <2>3 DEF KeyOrdered
  <2> QED BY <1>1, <2>1, <2>2, <2>3, <2>4, GroupStays DEF GroupMerging
<1> QED BY <1>1, <1>2, <1>3, <1>4 DEF SortInv, SortPhase

-----------------------------------------------------------------------------
LEMMA OneMoreInOrder ==
  ASSUME NEW k, NEW list \in Seq(Nat), NEW row \in Nat,
         KeyOrdered(k, list), \A i \in Range(list) : KeyBefore(k, i, row)
  PROVE  LET new == Append(list, row)
         IN  /\ new \in Seq(Nat)
             /\ KeyOrdered(k, new)
             /\ Range(new) = Range(list) \cup {row}
<1> DEFINE new == Append(list, row)
           L == Len(list)
<1>1. /\ new \in Seq(Nat) /\ Len(new) = L + 1
      /\ \A x \in 1 .. L : new[x] = list[x]
      /\ new[L + 1] = row
  BY AppendProperties
<1>2. L \in Nat /\ DOMAIN list = 1 .. L
  BY LenProperties
<1>3. DOMAIN new = 1 .. L + 1
  BY <1>1, LenProperties
<1> HIDE DEF new, L
<1>4. /\ \A x \in 1 .. L + 1 : x \in 1 .. L \/ x = L + 1
      /\ \A x \in 1 .. L : x \in 1 .. L + 1
      /\ L + 1 \in 1 .. L + 1
      /\ \A x, y \in 1 .. L + 1 : x < y => x \in 1 .. L
  BY <1>2
<1>5. Range(new) = Range(list) \cup {row}
  BY <1>1, <1>2, <1>3, <1>4 DEF Range
<1>6. ASSUME NEW x \in 1 .. L + 1, NEW y \in 1 .. L + 1, x < y
      PROVE  KeyBefore(k, new[x], new[y])
  <2>1. x \in 1 .. L /\ new[x] = list[x]
    BY <1>1, <1>4, <1>6
  <2>2. CASE y \in 1 .. L
    BY <1>1, <1>2, <1>6, <2>1, <2>2 DEF KeyOrdered
  <2>3. CASE y = L + 1
    BY <1>1, <1>2, <2>1, <2>3 DEF Range
  <2> QED BY <1>4, <2>2, <2>3
<1> QED BY <1>1, <1>3, <1>5, <1>6 DEF KeyOrdered, new

(* The rows of the group's runs are rows of the input.                     *)
LEMMA RowsOfGroup ==
  ASSUME SortTypeOK, SlicesBetween
  PROVE  \A r \in 1 .. GroupSize : \A x \in 1 .. Len(RunOfGroup(r)) :
           /\ RunOfGroup(r)[x] \in Range(RunOfGroup(r))
           /\ RunOfGroup(r)[x] \in Nat
           /\ keys[RunOfGroup(r)[x]] \in Int
<1> SUFFICES ASSUME NEW r \in 1 .. GroupSize, NEW x \in 1 .. Len(RunOfGroup(r))
             PROVE  /\ RunOfGroup(r)[x] \in Range(RunOfGroup(r))
                    /\ RunOfGroup(r)[x] \in Nat
                    /\ keys[RunOfGroup(r)[x]] \in Int
  OBVIOUS
<1>1. /\ RunOfGroup(r) \in Seq(Nat)
      /\ DOMAIN RunOfGroup(r) = 1 .. Len(RunOfGroup(r))
      /\ start + r \in start + 1 .. GroupEnd
      /\ GroupEnd \in start + 1 .. Len(runs)
  BY GroupOfRuns
<1>2. RunOfGroup(r)[x] \in Range(RunOfGroup(r)) /\ RunOfGroup(r)[x] \in Nat
  BY <1>1, ElementOfSeq DEF Range
<1>3. start + r \in start + 1 .. Len(runs)
  <2>1. start \in Nat /\ Len(runs) \in Nat
    BY SortConstants DEF SortTypeOK
  <2> QED BY <1>1, <2>1
<1>4. RunOfGroup(r)[x] \in DOMAIN keys
  BY <1>2, <1>3 DEF SlicesBetween, RowsToMerge, RowsOf, RunOfGroup
<1>5. keys[RunOfGroup(r)[x]] \in Int
  BY <1>4, LenProperties, ElementOfSeq DEF SortTypeOK
<1> QED BY <1>2, <1>5

(* The cursors and the heap in terms of the runs.                          *)
LEMMA HeapOfGroup ==
  ASSUME SortTypeOK, SlicesBetween, GroupMerging
  PROVE  /\ ES!InHeap = {r \in 1 .. GroupSize : cursor[r] <= Len(RunOfGroup(r))}
         /\ \A r \in 1 .. GroupSize : ES!HeapRow(r) = RunOfGroup(r)[cursor[r]]
         /\ \A r \in 1 .. GroupSize : cursor[r] \in Nat \ {0}
<1>1. DOMAIN cursor = 1 .. GroupSize /\ \A r \in 1 .. GroupSize : cursor[r] \in Nat \ {0}
  BY DEF GroupMerging
<1>2. \A r \in 1 .. GroupSize : ES!Group[r] = RunOfGroup(r)
  BY GroupOfRuns
<1> QED BY <1>1, <1>2 DEF ES!InHeap, ES!HeapRow

(* The row that leaves the heap is before every row still to come: of its  *)
(* own run because that is in order, of another by the heap.               *)
LEMMA HeapTopIsFirst ==
  ASSUME SortTypeOK, SlicesBetween, GroupMerging,
         NEW r \in ES!InHeap, ES!TopOfHeap(r),
         NEW q \in 1 .. GroupSize, NEW x \in cursor[q] .. Len(RunOfGroup(q)),
         r = q => x # cursor[r]
  PROVE  KeyBefore(keys, RunOfGroup(r)[cursor[r]], RunOfGroup(q)[x])
<1> DEFINE row == RunOfGroup(r)[cursor[r]]
           top == RunOfGroup(q)[cursor[q]]
           other == RunOfGroup(q)[x]
<1>1. /\ r \in 1 .. GroupSize /\ cursor[r] <= Len(RunOfGroup(r))
      /\ cursor[r] \in Nat \ {0} /\ cursor[q] \in Nat \ {0}
      /\ Len(RunOfGroup(r)) \in Nat /\ Len(RunOfGroup(q)) \in Nat
      /\ ES!HeapRow(r) = row /\ ES!HeapRow(q) = top
      /\ GroupSize \in Nat
  BY HeapOfGroup, GroupOfRuns
<1>2. /\ cursor[r] \in 1 .. Len(RunOfGroup(r))
      /\ cursor[q] \in 1 .. Len(RunOfGroup(q)) /\ cursor[q] <= Len(RunOfGroup(q))
      /\ x \in 1 .. Len(RunOfGroup(q))
      /\ x = cursor[q] \/ cursor[q] < x
  BY <1>1
<1>3. /\ row \in Range(RunOfGroup(r)) /\ top \in Range(RunOfGroup(q))
      /\ row \in Int /\ top \in Int /\ other \in Int
      /\ keys[row] \in Int /\ keys[top] \in Int /\ keys[other] \in Int
  <2>1. r \in 1 .. GroupSize
    BY <1>1
  <2>2. /\ \A y \in 1 .. Len(RunOfGroup(r)) :
             /\ RunOfGroup(r)[y] \in Range(RunOfGroup(r))
             /\ RunOfGroup(r)[y] \in Nat
             /\ keys[RunOfGroup(r)[y]] \in Int
        /\ \A y \in 1 .. Len(RunOfGroup(q)) :
             /\ RunOfGroup(q)[y] \in Range(RunOfGroup(q))
             /\ RunOfGroup(q)[y] \in Nat
             /\ keys[RunOfGroup(q)[y]] \in Int
    BY <2>1, RowsOfGroup
  <2>3. \A y \in Nat : y \in Int
    OBVIOUS
  <2> QED BY <1>2, <2>2, <2>3
<1>4. cursor[q] < x => KeyBefore(keys, top, other)
  BY <1>2, GroupOfRuns DEF KeyOrdered
<1>5. q # r => KeyBefore(keys, row, top)
  <2> SUFFICES ASSUME q # r  PROVE KeyBefore(keys, row, top)
    OBVIOUS
  <2>1. q \in ES!InHeap
    BY <1>2, HeapOfGroup
  <2>2. \/ keys[row] < keys[top]
        \/ keys[row] = keys[top] /\ r <= q
    BY <1>1, <2>1 DEF ES!TopOfHeap
  <2>3. r <= q => r < q
    BY <1>1
  <2>4. r < q => row < top
    BY <1>1, <1>3, GroupOfRuns
  <2> QED BY <2>2, <2>3, <2>4 DEF KeyBefore
<1> HIDE DEF row, top, other
<1>6. CASE q = r
  <2>1. cursor[q] < x
    BY <1>2, <1>6
  <2>2. row = top
    BY <1>6 DEF row, top
  <2> QED BY <1>4, <2>1, <2>2 DEF row, other
<1>7. CASE q # r
  <2>1. CASE cursor[q] < x
    <3>1. KeyBefore(keys, row, other)
      BY <1>3, <1>4, <1>5, <1>7, <2>1, KeyBeforeTransitive
    <3> QED BY <3>1 DEF row, other
  <2>2. CASE x = cursor[q]
    BY <1>5, <1>7, <2>2 DEF row, top
  <2> QED BY <1>2, <2>1, <2>2
<1> QED BY <1>6, <1>7

LEMMA MergeRowKeepsInv ==
  ASSUME SortInv, ES!MergeRow, operation' = operation
  PROVE  SortInv'
<1>1. /\ SortTypeOK /\ SlicesBetween /\ GroupMerging /\ phase = "merge"
      /\ UNCHANGED <<keys, buffer_frames, tuples_per_page, runs, next_runs, start, phase>>
  BY DEF SortInv, SortPhase, ES!MergeRow, ES!arguments
<1>2. PICK r \in ES!InHeap :
        /\ ES!TopOfHeap(r)
        /\ merged' = Append(merged, ES!HeapRow(r))
        /\ cursor' = [cursor EXCEPT ![r] = @ + 1]
  BY DEF ES!MergeRow
<1> DEFINE n == GroupSize
           row == RunOfGroup(r)[cursor[r]]
<1>3. /\ r \in 1 .. n /\ cursor[r] <= Len(RunOfGroup(r))
      /\ ES!HeapRow(r) = row
      /\ \A q \in 1 .. n : cursor[q] \in Nat \ {0} /\ Len(RunOfGroup(q)) \in Nat
  BY <1>1, HeapOfGroup, GroupOfRuns
<1>4. cursor[r] \in 1 .. Len(RunOfGroup(r))
  BY <1>3
<1>5. row \in Nat
  BY <1>1, <1>3, <1>4, RowsOfGroup
<1>6. /\ cursor \in [1 .. n -> Nat \ {0}]
      /\ \A q \in 1 .. n : cursor[q] <= Len(RunOfGroup(q)) + 1
      /\ \A i : i \in Range(merged) <=>
           \E q \in 1 .. n : \E x \in 1 .. cursor[q] - 1 : i = RunOfGroup(q)[x]
      /\ KeyOrdered(keys, merged)
      /\ \A i \in Range(merged) : \A q \in 1 .. n :
           \A x \in cursor[q] .. Len(RunOfGroup(q)) : KeyBefore(keys, i, RunOfGroup(q)[x])
  BY <1>1 DEF GroupMerging
<1>7. \A i \in Range(merged) : KeyBefore(keys, i, row)
  <2>1. cursor[r] \in cursor[r] .. Len(RunOfGroup(r))
    BY <1>3
  <2> QED BY <1>3, <1>6, <2>1
<1>8. ASSUME NEW q \in 1 .. n, NEW x \in cursor[q] .. Len(RunOfGroup(q)), r = q => x # cursor[r]
      PROVE  KeyBefore(keys, row, RunOfGroup(q)[x])
  BY <1>1, <1>2, <1>8, HeapTopIsFirst
<1> HIDE DEF n, row
<1>9. /\ merged' \in Seq(Nat) /\ KeyOrdered(keys, merged')
      /\ Range(merged') = Range(merged) \cup {row}
  <2>1. merged \in Seq(Nat)
    BY <1>1 DEF SortTypeOK
  <2> QED BY <1>2, <1>3, <1>5, <1>6, <1>7, <2>1, OneMoreInOrder
<1>10. /\ cursor' \in [1 .. n -> Nat \ {0}]
       /\ \A q \in 1 .. n : cursor'[q] = IF q = r THEN cursor[q] + 1 ELSE cursor[q]
  BY <1>2, <1>3, <1>6
<1>11. \A q \in 1 .. n : cursor'[q] <= Len(RunOfGroup(q)) + 1
  BY <1>3, <1>6, <1>10
<1>12. ASSUME NEW i
       PROVE  i \in Range(merged') <=>
                \E q \in 1 .. n : \E x \in 1 .. cursor'[q] - 1 : i = RunOfGroup(q)[x]
  <2>1. \A q \in 1 .. n : q # r => cursor'[q] - 1 = cursor[q] - 1
    BY <1>10
  <2>2. cursor'[r] - 1 = cursor[r]
    BY <1>3, <1>10
  <2>3. /\ cursor[r] \in 1 .. cursor[r]
        /\ \A x \in 1 .. cursor[r] : x \in 1 .. cursor[r] - 1 \/ x = cursor[r]
        /\ \A x \in 1 .. cursor[r] - 1 : x \in 1 .. cursor[r]
    BY <1>3
  <2>4. ASSUME i \in Range(merged')
        PROVE  \E q \in 1 .. n : \E x \in 1 .. cursor'[q] - 1 : i = RunOfGroup(q)[x]
    <3>1. CASE i = row
      BY <1>3, <2>2, <2>3, <3>1 DEF row
    <3>2. CASE i \in Range(merged)
      <4>1. PICK q \in 1 .. n : \E x \in 1 .. cursor[q] - 1 : i = RunOfGroup(q)[x]
        BY <1>6, <3>2
      <4>2. \A x \in 1 .. cursor[q] - 1 : x \in 1 .. cursor'[q] - 1
        BY <2>1, <2>2, <2>3
      <4> QED BY <4>1, <4>2
    <3> QED BY <1>9, <2>4, <3>1, <3>2
  <2>5. ASSUME NEW q \in 1 .. n, NEW x \in 1 .. cursor'[q] - 1, i = RunOfGroup(q)[x]
        PROVE  i \in Range(merged')
    <3>1. CASE x \in 1 .. cursor[q] - 1
      BY <1>6, <1>9, <2>5, <3>1
    <3>2. CASE ~(x \in 1 .. cursor[q] - 1)
      <4>1. q = r /\ x = cursor[r]
        BY <2>1, <2>2, <2>3, <3>2
      <4> QED BY <1>9, <2>5, <4>1 DEF row
    <3> QED BY <3>1, <3>2
  <2> QED BY <2>4, <2>5
<1>13. ASSUME NEW i \in Range(merged'), NEW q \in 1 .. n,
              NEW x \in cursor'[q] .. Len(RunOfGroup(q))
       PROVE  KeyBefore(keys, i, RunOfGroup(q)[x])
  <2>1. x \in cursor[q] .. Len(RunOfGroup(q)) /\ (r = q => x # cursor[r])
    BY <1>3, <1>10
  <2> QED BY <1>6, <1>8, <1>9, <2>1
<1>14. GroupMerging'
  <2>1. GroupSize' = n /\ keys' = keys /\ \A q : RunOfGroup(q)' = RunOfGroup(q)
    BY <1>1, GroupStays DEF n
  <2>2. /\ cursor' \in [1 .. GroupSize' -> Nat \ {0}]
        /\ \A q \in 1 .. GroupSize' : cursor'[q] <= Len(RunOfGroup(q)') + 1
    BY <1>10, <1>11, <2>1
  <2>3. \A i : i \in Range(merged') <=>
          \E q \in 1 .. GroupSize' : \E x \in 1 .. cursor'[q] - 1 : i = RunOfGroup(q)'[x]
    BY <1>12, <2>1
  <2>4. \A i \in Range(merged') : \A q \in 1 .. GroupSize' :
          \A x \in cursor'[q] .. Len(RunOfGroup(q)') : KeyBefore(keys', i, RunOfGroup(q)'[x])
    BY <1>13, <2>1
  <2> QED BY <1>9, <2>1, <2>2, <2>3, <2>4 DEF GroupMerging
<1>15. SortTypeOK' /\ SlicesBetween'
  BY <1>1, <1>9, GroupStays DEF SortTypeOK
<1> QED BY <1>1, <1>14, <1>15 DEF SortInv, SortPhase

-----------------------------------------------------------------------------
(* With no row left in the heap, merged has the rows of the group.         *)
LEMMA GroupIsMerged ==
  ASSUME SortTypeOK, SlicesBetween, GroupMerging, ES!InHeap = {}
  PROVE  Range(merged) = RowsOf(runs, start + 1, GroupEnd)
<1>1. ASSUME NEW r \in 1 .. GroupSize
      PROVE  /\ DOMAIN RunOfGroup(r) = 1 .. Len(RunOfGroup(r))
             /\ cursor[r] - 1 = Len(RunOfGroup(r))
  <2>1. /\ cursor[r] \in Nat \ {0} /\ Len(RunOfGroup(r)) \in Nat
        /\ DOMAIN RunOfGroup(r) = 1 .. Len(RunOfGroup(r))
        /\ cursor[r] <= Len(RunOfGroup(r)) + 1
    BY HeapOfGroup, GroupOfRuns DEF GroupMerging
  <2>2. ~(cursor[r] <= Len(RunOfGroup(r)))
    BY HeapOfGroup
  <2> QED BY <2>1, <2>2
<1>2. \A i : i \in Range(merged) <=> \E r \in 1 .. GroupSize : i \in Range(RunOfGroup(r))
  <2>1. \A i : i \in Range(merged) <=>
          \E r \in 1 .. GroupSize : \E x \in 1 .. cursor[r] - 1 : i = RunOfGroup(r)[x]
    BY DEF GroupMerging
  <2>2. \A r \in 1 .. GroupSize : \A i :
          i \in Range(RunOfGroup(r)) <=> \E x \in 1 .. cursor[r] - 1 : i = RunOfGroup(r)[x]
    BY <1>1 DEF Range
  <2> QED BY <2>1, <2>2
<1>3. \A i : (\E r \in 1 .. GroupSize : i \in Range(RunOfGroup(r)))
               <=> \E m \in start + 1 .. GroupEnd : i \in Range(runs[m])
  <2>1. /\ \A r \in 1 .. GroupSize : start + r \in start + 1 .. GroupEnd
        /\ \A m \in start + 1 .. GroupEnd :
             m - start \in 1 .. GroupSize /\ start + (m - start) = m
    BY GroupOfRuns
  <2> QED BY <2>1 DEF RunOfGroup
<1> QED BY <1>2, <1>3 DEF RowsOf

LEMMA WriteMergedKeepsInv ==
  ASSUME SortInv, ES!WriteMerged, operation' = operation
  PROVE  SortInv'
<1> DEFINE all == Append(next_runs, merged)
           e == GroupEnd
           group == RowsOf(runs, start + 1, e)
           rest == RowsOf(runs, e + 1, Len(runs))
<1>1. /\ SortTypeOK /\ SlicesBetween /\ GroupMerging /\ phase = "merge" /\ ES!InHeap = {}
      /\ UNCHANGED <<keys, buffer_frames, tuples_per_page, merged>> /\ phase' = "group"
  BY DEF SortInv, SortPhase, ES!WriteMerged, ES!arguments
<1>2. \/ /\ start + ES!FanIn < Len(runs)
         /\ start' = start + ES!FanIn /\ next_runs' = all /\ runs' = runs
      \/ /\ ~(start + ES!FanIn < Len(runs))
         /\ start' = 0 /\ next_runs' = <<>> /\ runs' = all
  BY DEF ES!WriteMerged
<1>3. /\ start \in Nat /\ Len(runs) \in Nat /\ ES!FanIn \in Nat /\ ES!FanIn >= 2
      /\ start < Len(runs) /\ e \in start + 1 .. Len(runs)
      /\ next_runs \in Seq(Seq(Nat)) /\ merged \in Seq(Nat) /\ runs \in Seq(Seq(Nat))
      /\ Len(next_runs) \in Nat
  BY <1>1, SortConstants, GroupOfRuns DEF SlicesBetween, SortTypeOK
<1>4. \/ e < Len(runs) /\ start' = e /\ next_runs' = all /\ runs' = runs
      \/ e = Len(runs) /\ start' = 0 /\ next_runs' = <<>> /\ runs' = all
  BY <1>2 DEF GroupEnd
<1> HIDE DEF e
<1>5. /\ Range(merged) = group
      /\ KeyOrdered(keys, merged)
  BY <1>1, GroupIsMerged DEF GroupMerging, e
<1>6. /\ AreSlices(keys, next_runs, 1, Len(next_runs))
      /\ \A m \in start + 1 .. Len(runs) : KeyOrdered(keys, runs[m])
      /\ \A l, m \in start + 1 .. Len(runs) :
           l < m => \A i \in Range(runs[l]), j \in Range(runs[m]) : i < j
      /\ RowsMerged \cup RowsToMerge = DOMAIN keys
      /\ \A i \in RowsMerged, j \in RowsToMerge : i < j
  BY <1>1 DEF SlicesBetween, AreSlices
<1>7. /\ \A m \in start + 1 .. e : m \in start + 1 .. Len(runs)
      /\ \A m \in e + 1 .. Len(runs) : m \in start + 1 .. Len(runs)
      /\ \A m \in start + 1 .. Len(runs) : m \in start + 1 .. e \/ m \in e + 1 .. Len(runs)
      /\ \A l \in start + 1 .. e, m \in e + 1 .. Len(runs) : l < m
  BY <1>3
<1>8. RowsToMerge = group \cup rest
  BY <1>7 DEF RowsToMerge, RowsOf
<1>9. \A i \in group, j \in rest : i < j
  <2>1. \A l \in start + 1 .. e, m \in e + 1 .. Len(runs) :
          \A i \in Range(runs[l]), j \in Range(runs[m]) : i < j
    BY <1>6, <1>7
  <2> QED BY <2>1 DEF RowsOf
<1>10. AreSlices(keys, runs, e + 1, Len(runs))
  BY <1>6, <1>7 DEF AreSlices
<1> HIDE DEF group, rest
<1>11. /\ all \in Seq(Seq(Nat)) /\ Len(all) = Len(next_runs) + 1
       /\ AreSlices(keys, all, 1, Len(all))
       /\ RowsOf(all, 1, Len(all)) = RowsMerged \cup group
  <2>1. \A i \in RowsOf(next_runs, 1, Len(next_runs)), j \in Range(merged) : i < j
    BY <1>5, <1>6, <1>8 DEF RowsMerged
  <2>2. RowsMerged = RowsOf(next_runs, 1, Len(next_runs))
    BY DEF RowsMerged
  <2> QED BY <1>3, <1>5, <1>6, <2>1, <2>2, OneMoreSlice
<1> HIDE DEF all
<1>12. CASE e < Len(runs) /\ start' = e /\ next_runs' = all /\ runs' = runs
  <2>1. start' \in Nat /\ start' # 0
    BY <1>3, <1>12
  <2>2. SortTypeOK'
    BY <1>1, <1>11, <1>12, <2>1 DEF SortTypeOK
  <2>3. RowsMerged' = RowsMerged \cup group /\ RowsToMerge' = rest
    BY <1>11, <1>12 DEF RowsMerged, RowsToMerge, rest
  <2>4. /\ RowsMerged' \cup RowsToMerge' = DOMAIN keys
        /\ \A i \in RowsMerged', j \in RowsToMerge' : i < j
    BY <1>6, <1>8, <1>9, <2>3
  <2>5. SlicesBetween'
    BY <1>1, <1>10, <1>11, <1>12, <2>1, <2>4 DEF SlicesBetween
  <2> QED BY <1>1, <2>2, <2>5 DEF SortInv, SortPhase
<1>13. CASE e = Len(runs) /\ start' = 0 /\ next_runs' = <<>> /\ runs' = all
  <2>1. next_runs' \in Seq(Seq(Nat)) /\ Len(next_runs') = 0 /\ start' \in Nat
    BY <1>13, EmptySeq
  <2>2. SortTypeOK'
    BY <1>1, <1>11, <1>13, <2>1 DEF SortTypeOK
  <2>3. AreSlices(keys, next_runs', 1, Len(next_runs')) /\ RowsMerged' = {}
    <3>1. Len(next_runs') \in Int /\ Len(next_runs') < 1
      BY <2>1
    <3>2. /\ AreSlices(keys, next_runs', 1, Len(next_runs'))
          /\ RowsOf(next_runs', 1, Len(next_runs')) = {}
      BY <3>1, NoSlices
    <3> QED BY <3>2 DEF RowsMerged
  <2>4. e + 1 \in Int /\ Len(runs) \in Int /\ Len(runs) < e + 1
    BY <1>3, <1>13
  <2>5. rest = {}
    BY <2>4, NoSlices DEF rest
  <2>6. start' + 1 = 1 /\ RowsToMerge' = RowsMerged \cup group
    BY <1>11, <1>13 DEF RowsToMerge
  <2>7. RowsToMerge' = DOMAIN keys
    BY <1>6, <1>8, <2>5, <2>6
  <2>8. start' < Len(runs')
    BY <1>3, <1>11, <1>13
  <2>9. SlicesBetween'
    BY <1>1, <1>11, <1>13, <2>3, <2>6, <2>7, <2>8 DEF SlicesBetween
  <2> QED BY <1>1, <2>2, <2>9 DEF SortInv, SortPhase
<1> QED BY <1>4, <1>12, <1>13

LEMMA FinishSortKeepsInv ==
  ASSUME SortInv, ES!Finish, operation' = operation
  PROVE  SortInv'
<1>1. /\ SortTypeOK /\ SlicesBetween /\ Len(runs) = 1
      /\ UNCHANGED <<keys, buffer_frames, tuples_per_page, runs, next_runs, start, merged>>
      /\ phase' = "done"
  BY DEF SortInv, SortPhase, ES!Finish, ES!arguments
<1>2. start = 0 /\ next_runs = <<>>
  BY <1>1 DEF SlicesBetween, SortTypeOK
<1>3. RowsMerged = {}
  <2>1. Len(next_runs) \in Int /\ Len(next_runs) < 1
    BY <1>2, EmptySeq
  <2>2. AreSlices(keys, next_runs, 1, Len(next_runs)) /\ RowsOf(next_runs, 1, Len(next_runs)) = {}
    BY <2>1, NoSlices
  <2> QED BY <2>2 DEF RowsMerged
<1>4. 1 .. 1 = {1} /\ start + 1 = 1
  BY <1>2
<1>5. RowsToMerge = Range(runs[1])
  BY <1>1, <1>4 DEF RowsToMerge, RowsOf
<1>6. Range(runs[1]) = DOMAIN keys /\ KeyOrdered(keys, runs[1])
  BY <1>1, <1>3, <1>4, <1>5 DEF SlicesBetween, AreSlices
<1>7. SortTypeOK'
  BY <1>1 DEF SortTypeOK
<1> QED BY <1>1, <1>6, <1>7 DEF SortInv, SortPhase

LEMMA StepKeepsSortInv ==
  ASSUME SortInv, [Next]_vars
  PROVE  SortInv'
<1>1. CASE Next
  <2>1. ES!Next /\ operation' = operation
    BY <1>1 DEF Next, NestedLoops, SortInv, SortTypeOK
  <2>2. CASE ES!Start
    BY <2>1, <2>2, StartSortKeepsInv
  <2>3. CASE ES!MakeRun
    BY <2>1, <2>3, MakeRunKeepsInv
  <2>4. CASE ES!ReadGroup
    BY <2>1, <2>4, ReadGroupKeepsInv
  <2>5. CASE ES!MergeRow
    BY <2>1, <2>5, MergeRowKeepsInv
  <2>6. CASE ES!WriteMerged
    BY <2>1, <2>6, WriteMergedKeepsInv
  <2>7. CASE ES!Finish
    BY <2>1, <2>7, FinishSortKeepsInv
  <2>8. CASE ES!Returned
    <3>1. /\ phase = "done"
          /\ UNCHANGED <<operation, keys, buffer_frames, tuples_per_page, phase, runs,
                         next_runs, start, merged>>
      BY <2>1, <2>8 DEF ES!Returned, ES!vars, ES!arguments
    <3> QED BY <3>1 DEF SortInv, SortTypeOK, SortPhase
  <2> QED BY <2>1, <2>2, <2>3, <2>4, <2>5, <2>6, <2>7, <2>8 DEF ES!Next
<1>2. CASE UNCHANGED vars
  <2>1. UNCHANGED <<operation, keys, buffer_frames, tuples_per_page, phase, runs,
                    next_runs, start, merged, cursor>>
    BY <1>2 DEF vars, ownSort
  <2>2. SlicesBetween' = SlicesBetween /\ GroupMerging' = GroupMerging
    BY <2>1, GroupStays DEF GroupMerging, GroupSize, GroupEnd, RunOfGroup, ES!FanIn
  <2> QED BY <2>1, <2>2 DEF SortInv, SortTypeOK, SortPhase
<1> QED BY <1>1, <1>2

-----------------------------------------------------------------------------
LEMMA SortKeepsInv ==
  Spec => [](operation = "external_merge_sort" => SortInv)
<1>1. Init => (operation = "external_merge_sort" => SortInv)
  BY InitSortInv
<1>2. (operation = "external_merge_sort" => SortInv) /\ [Next]_vars
        => (operation = "external_merge_sort" => SortInv)'
  <2>1. [Next]_vars => operation' = operation
    BY DEF Next, vars, NL!Next, NL!Compare, NL!Finish, NL!Returned, NL!vars
  <2> QED BY <2>1, StepKeepsSortInv
<1> QED BY <1>1, <1>2, PTL DEF Spec

(* The result of an external sort is the stable sort of its input, however *)
(* many runs and passes there are and whatever the keys.                   *)
THEOREM ExternalSortIsStable == Spec => []ResultIsStableSort
<1>1. (operation = "external_merge_sort" => SortInv) => ResultIsStableSort
  BY DEF ResultIsStableSort, ES!ResultIsStableSort, SortInv, SortPhase, KeyOrdered, KeyBefore,
         ES!InKeyOrder, ES!KeyBefore, ES!Range, Range
<1> QED BY <1>1, SortKeepsInv, PTL

LEMMA SlicesInSequence ==
  ASSUME SortTypeOK, SlicesBetween
  PROVE  LET now == next_runs \o SubSeq(runs, start + 1, Len(runs))
         IN  /\ UNION {Range(now[n]) : n \in DOMAIN now} = DOMAIN keys
             /\ \A m, n \in DOMAIN now : m < n =>
                  \A i \in Range(now[m]), j \in Range(now[n]) : i < j
             /\ \A n \in DOMAIN now : KeyOrdered(keys, now[n])
<1> DEFINE first == start + 1
           tail == SubSeq(runs, first, Len(runs))
           now == next_runs \o tail
           L == Len(next_runs)
           T == Len(runs) - start
<1>1. /\ start \in Nat /\ Len(runs) \in Nat /\ start < Len(runs) /\ L \in Nat
      /\ runs \in Seq(Seq(Nat)) /\ next_runs \in Seq(Seq(Nat))
  BY SortConstants DEF SortTypeOK, SlicesBetween
<1>2. /\ first \in Int /\ Len(runs) \in Int /\ first <= Len(runs)
      /\ Len(runs) - first + 1 = T /\ T \in Nat
      /\ \A x \in first .. Len(runs) : x \in 1 .. Len(runs)
      /\ \A x \in 1 .. T : first + x - 1 = start + x /\ start + x \in first .. Len(runs)
      /\ \A x \in first .. Len(runs) : x - start \in 1 .. T /\ start + (x - start) = x
  BY <1>1
<1>3. \A x \in first .. Len(runs) : runs[x] \in Seq(Nat)
  BY <1>1, <1>2, ElementOfSeq
<1> HIDE DEF first, T
<1>4. /\ tail \in Seq(Seq(Nat))
      /\ Len(tail) = IF first <= Len(runs) THEN Len(runs) - first + 1 ELSE 0
      /\ \A x \in 1 .. Len(runs) - first + 1 : tail[x] = runs[first + x - 1]
  BY <1>2, <1>3, SubSeqProperties
<1>5. tail \in Seq(Seq(Nat)) /\ Len(tail) = T /\ \A x \in 1 .. T : tail[x] = runs[start + x]
  BY <1>2, <1>4
<1> HIDE DEF tail, L
<1>6. /\ now \in Seq(Seq(Nat)) /\ Len(now) = L + T
      /\ \A x \in 1 .. L + T : now[x] = IF x <= L THEN next_runs[x] ELSE tail[x - L]
  BY <1>1, <1>5, ConcatProperties DEF L
<1>7. DOMAIN now = 1 .. L + T
  BY <1>6, LenProperties
<1> HIDE DEF now
<1>8. \A x \in 1 .. L + T :
        \/ x \in 1 .. L /\ now[x] = next_runs[x]
        \/ x - L \in 1 .. T /\ ~(x <= L) /\ now[x] = runs[start + (x - L)]
  <2>1. \A x \in 1 .. L + T : \/ x \in 1 .. L /\ x <= L
                              \/ x - L \in 1 .. T /\ ~(x <= L)
    BY <1>1, <1>2
  <2> QED BY <1>5, <1>6, <2>1
<1>9. /\ \A x \in 1 .. L : x \in 1 .. L + T /\ now[x] = next_runs[x]
      /\ \A x \in 1 .. T : L + x \in 1 .. L + T /\ now[L + x] = runs[start + x]
  <2>1. /\ \A x \in 1 .. L : x \in 1 .. L + T /\ x <= L
        /\ \A x \in 1 .. T : L + x \in 1 .. L + T /\ ~(L + x <= L) /\ (L + x) - L = x
    BY <1>1, <1>2
  <2>2. \A x \in 1 .. L : now[x] = next_runs[x]
    BY <1>6, <2>1
  <2>3. \A x \in 1 .. T : now[L + x] = tail[x]
    BY <1>6, <2>1
  <2>4. \A x \in 1 .. T : tail[x] = runs[start + x]
    BY <1>5
  <2> QED BY <2>1, <2>2, <2>3, <2>4
<1>10. /\ RowsMerged = UNION {Range(next_runs[x]) : x \in 1 .. L}
       /\ RowsToMerge = UNION {Range(runs[x]) : x \in first .. Len(runs)}
       /\ RowsMerged \cup RowsToMerge = DOMAIN keys
       /\ \A i \in RowsMerged, j \in RowsToMerge : i < j
  BY DEF SlicesBetween, RowsMerged, RowsToMerge, RowsOf, L, first
<1>11. /\ \A x \in 1 .. L : KeyOrdered(keys, next_runs[x])
       /\ \A x \in first .. Len(runs) : KeyOrdered(keys, runs[x])
       /\ \A x, y \in 1 .. L : x < y =>
            \A i \in Range(next_runs[x]), j \in Range(next_runs[y]) : i < j
       /\ \A x, y \in first .. Len(runs) : x < y =>
            \A i \in Range(runs[x]), j \in Range(runs[y]) : i < j
  BY DEF SlicesBetween, AreSlices, L, first
<1>12. \A i : (\E x \in 1 .. L + T : i \in Range(now[x])) <=> i \in DOMAIN keys
  <2>1. ASSUME NEW i, NEW x \in 1 .. L + T, i \in Range(now[x])
        PROVE  i \in RowsMerged \cup RowsToMerge
    <3>1. CASE x \in 1 .. L /\ now[x] = next_runs[x]
      BY <1>10, <2>1, <3>1
    <3>2. CASE x - L \in 1 .. T /\ now[x] = runs[start + (x - L)]
      BY <1>2, <1>10, <2>1, <3>2
    <3> QED BY <1>8, <3>1, <3>2
  <2>2. ASSUME NEW i \in RowsMerged  PROVE \E x \in 1 .. L + T : i \in Range(now[x])
    BY <1>9, <1>10
  <2>3. ASSUME NEW i \in RowsToMerge  PROVE \E x \in 1 .. L + T : i \in Range(now[x])
    <3>1. PICK x \in first .. Len(runs) : i \in Range(runs[x])
      BY <1>10
    <3>2. x - start \in 1 .. T /\ runs[start + (x - start)] = runs[x]
      BY <1>2
    <3> QED BY <1>9, <3>1, <3>2
  <2> QED BY <1>10, <2>1, <2>2, <2>3
<1>13. ASSUME NEW x \in 1 .. L + T, NEW y \in 1 .. L + T, x < y,
              NEW i \in Range(now[x]), NEW j \in Range(now[y])
       PROVE  i < j
  <2>1. CASE y \in 1 .. L /\ now[y] = next_runs[y]
    <3>1. x \in 1 .. L
      BY <1>1, <1>2, <1>13, <2>1
    <3> QED BY <1>9, <1>11, <1>13, <2>1, <3>1
  <2>2. CASE y - L \in 1 .. T /\ now[y] = runs[start + (y - L)]
    <3>1. j \in RowsToMerge
      BY <1>2, <1>10, <2>2
    <3>2. CASE x \in 1 .. L /\ now[x] = next_runs[x]
      <4>1. i \in RowsMerged
        BY <1>10, <3>2
      <4> QED BY <1>10, <3>1, <4>1
    <3>3. CASE x - L \in 1 .. T /\ now[x] = runs[start + (x - L)]
      <4>1. /\ start + (x - L) \in first .. Len(runs)
            /\ start + (y - L) \in first .. Len(runs)
        BY <1>2, <2>2, <3>3
      <4>2. start + (x - L) < start + (y - L)
        BY <1>1, <1>2, <1>13
      <4> QED BY <1>11, <1>13, <2>2, <3>3, <4>1, <4>2
    <3> QED BY <1>8, <3>2, <3>3
  <2> QED BY <1>8, <2>1, <2>2
<1>14. ASSUME NEW x \in 1 .. L + T  PROVE KeyOrdered(keys, now[x])
  <2>1. CASE x \in 1 .. L /\ now[x] = next_runs[x]
    BY <1>11, <2>1
  <2>2. CASE x - L \in 1 .. T /\ now[x] = runs[start + (x - L)]
    BY <1>2, <1>11, <2>2
  <2> QED BY <1>8, <2>1, <2>2
<1>15. /\ UNION {Range(now[n]) : n \in DOMAIN now} = DOMAIN keys
       /\ \A m, n \in DOMAIN now : m < n =>
            \A i \in Range(now[m]), j \in Range(now[n]) : i < j
       /\ \A n \in DOMAIN now : KeyOrdered(keys, now[n])
  BY <1>7, <1>12, <1>13, <1>14
<1> QED BY <1>15 DEF now, tail, first

(* Between the merges of any number of passes, each run is the stable sort *)
(* of a slice of the input, the slices follow each other and no row is     *)
(* lost: this is what makes the merge by run numbers stable.               *)
THEOREM ExternalSortRuns == Spec => []RunsAreSortedSlices
<1>1. SortInv => ES!RunsAreSortedSlices
  <2> SUFFICES ASSUME SortInv, phase \in {"group", "merge"}
               PROVE  ES!RunsAreSortedSlices
    BY DEF ES!RunsAreSortedSlices
  <2> DEFINE now == next_runs \o SubSeq(runs, start + 1, Len(runs))
  <2>1. SortTypeOK /\ SlicesBetween
    BY DEF SortInv, SortPhase
  <2>2. /\ UNION {Range(now[n]) : n \in DOMAIN now} = DOMAIN keys
        /\ \A m, n \in DOMAIN now : m < n =>
             \A i \in Range(now[m]), j \in Range(now[n]) : i < j
        /\ \A n \in DOMAIN now : KeyOrdered(keys, now[n])
    BY <2>1, SlicesInSequence
  <2>3. /\ \A f : ES!Range(f) = Range(f)
        /\ \A run : ES!InKeyOrder(run) <=> KeyOrdered(keys, run)
    BY DEF ES!Range, Range, ES!InKeyOrder, KeyOrdered, ES!KeyBefore, KeyBefore
  <2> HIDE DEF now
  <2>4. /\ UNION {ES!Range(now[n]) : n \in DOMAIN now} = DOMAIN keys
        /\ \A m, n \in DOMAIN now : m < n =>
             \A i \in ES!Range(now[m]), j \in ES!Range(now[n]) : i < j
        /\ \A n \in DOMAIN now : ES!InKeyOrder(now[n])
    BY <2>2, <2>3
  <2> QED BY <2>4 DEF ES!RunsAreSortedSlices, now
<1>2. (operation = "external_merge_sort" => SortInv) => RunsAreSortedSlices
  BY <1>1 DEF RunsAreSortedSlices
<1> QED BY <1>2, SortKeepsInv, PTL

-----------------------------------------------------------------------------
(* The pairs of two groups of rows.                                        *)

(* What EmitGroups appends, for the group of a left rows from place l and  *)
(* of w right rows from place r.                                           *)
GroupPairs(s, t, l, r, a, w) ==
  [n \in 1 .. a * w |-> <<s[l + ((n-1) \div w)], t[r + ((n-1) % w)]>>]

PairOfGroups(pair, s, t, l, r, a, w) ==
  \E p \in l .. l + a - 1 : \E q \in r .. r + w - 1 : pair = <<s[p], t[q]>>

LEMMA EachPairOfGroups ==
  ASSUME NEW s \in Seq(Nat), IsInjective(s), NEW t \in Seq(Nat), IsInjective(t),
         NEW l \in Nat \ {0}, NEW r \in Nat \ {0}, NEW a \in Nat, NEW w \in Nat \ {0},
         l + a - 1 <= Len(s), r + w - 1 <= Len(t)
  PROVE  LET u == GroupPairs(s, t, l, r, a, w)
         IN  /\ u \in Seq(Nat \X Nat)
             /\ IsInjective(u)
             /\ \A pair : pair \in Range(u) <=> PairOfGroups(pair, s, t, l, r, a, w)
<1> DEFINE u == GroupPairs(s, t, l, r, a, w)
           N == a * w
           row == [n \in 1 .. N |-> (n - 1) \div w]
           column == [n \in 1 .. N |-> (n - 1) % w]
<1>1. N \in Nat
  BY SMT
<1>2. /\ Len(s) \in Nat /\ DOMAIN s = 1 .. Len(s) /\ Len(t) \in Nat /\ DOMAIN t = 1 .. Len(t)
      /\ \A p \in 1 .. Len(s) : s[p] \in Nat
      /\ \A q \in 1 .. Len(t) : t[q] \in Nat
  BY LenProperties, ElementOfSeq
<1>3. ASSUME NEW n \in 1 .. N
      PROVE  /\ row[n] \in 0 .. a - 1 /\ column[n] \in 0 .. w - 1
             /\ n = w * row[n] + column[n] + 1
  BY RowAndColumn
<1>4. DOMAIN u = 1 .. N /\ \A n \in 1 .. N : u[n] = <<s[l + row[n]], t[r + column[n]]>>
  BY DEF GroupPairs
<1>5. ASSUME NEW x \in 0 .. a - 1, NEW y \in 0 .. w - 1
      PROVE  \E n \in 1 .. N : row[n] = x /\ column[n] = y
  BY PlaceOfRowAndColumn
<1>6. u = [n \in 1 .. N |-> <<s[l + row[n]], t[r + column[n]]>>]
  BY DEF GroupPairs
<1> HIDE DEF u, row, column, N
<1>7. /\ \A x \in 0 .. a - 1 : l + x \in l .. l + a - 1 /\ l + x \in 1 .. Len(s)
      /\ \A y \in 0 .. w - 1 : r + y \in r .. r + w - 1 /\ r + y \in 1 .. Len(t)
  BY <1>2
<1>8. \A n \in 1 .. N : s[l + row[n]] \in Nat /\ t[r + column[n]] \in Nat
  BY <1>2, <1>3, <1>7
<1>9. u \in Seq(Nat \X Nat)
  <2>1. u \in [1 .. N -> Nat \X Nat]
    BY <1>6, <1>8
  <2> QED BY <1>1, <2>1
<1>10. IsInjective(u)
  <2> SUFFICES ASSUME NEW m \in 1 .. N, NEW n \in 1 .. N, u[m] = u[n]
               PROVE  m = n
    BY <1>4 DEF IsInjective
  <2>1. s[l + row[m]] = s[l + row[n]] /\ t[r + column[m]] = t[r + column[n]]
    <3>1. <<s[l + row[m]], t[r + column[m]]>> = <<s[l + row[n]], t[r + column[n]]>>
      BY <1>4
    <3> QED BY <3>1
  <2>2. row[m] \in 0 .. a - 1 /\ row[n] \in 0 .. a - 1
        /\ column[m] \in 0 .. w - 1 /\ column[n] \in 0 .. w - 1
    BY <1>3
  <2>3. l + row[m] = l + row[n] /\ r + column[m] = r + column[n]
    BY <1>2, <1>7, <2>1, <2>2 DEF IsInjective
  <2>4. row[m] = row[n] /\ column[m] = column[n]
    <3>1. /\ \A x, y \in 0 .. a - 1 : l + x = l + y => x = y
          /\ \A x, y \in 0 .. w - 1 : r + x = r + y => x = y
      OBVIOUS
    <3> QED BY <2>2, <2>3, <3>1
  <2>5. m = w * row[m] + column[m] + 1 /\ n = w * row[n] + column[n] + 1
    BY <1>3
  <2> QED BY <2>4, <2>5
<1>11. ASSUME NEW pair
       PROVE  pair \in Range(u) <=>
                \E p \in l .. l + a - 1 : \E q \in r .. r + w - 1 : pair = <<s[p], t[q]>>
  <2>1. ASSUME pair \in Range(u)
        PROVE  \E p \in l .. l + a - 1 : \E q \in r .. r + w - 1 : pair = <<s[p], t[q]>>
    <3>1. PICK n \in 1 .. N : pair = u[n]
      BY <1>4, <2>1 DEF Range
    <3>2. l + row[n] \in l .. l + a - 1 /\ r + column[n] \in r .. r + w - 1
      BY <1>3, <1>7
    <3> QED BY <1>4, <3>1, <3>2
  <2>2. ASSUME NEW p \in l .. l + a - 1, NEW q \in r .. r + w - 1, pair = <<s[p], t[q]>>
        PROVE  pair \in Range(u)
    <3> DEFINE x == p - l
               y == q - r
    <3>1. x \in 0 .. a - 1 /\ y \in 0 .. w - 1 /\ l + x = p /\ r + y = q
      OBVIOUS
    <3> HIDE DEF x, y
    <3>2. PICK n \in 1 .. N : row[n] = x /\ column[n] = y
      BY <1>5, <3>1
    <3>3. u[n] = <<s[p], t[q]>>
      BY <1>4, <3>1, <3>2
    <3> QED BY <1>4, <2>2, <3>3 DEF Range
  <2> QED BY <2>1, <2>2
<1>12. \A pair : pair \in Range(u) <=> PairOfGroups(pair, s, t, l, r, a, w)
  BY <1>11 DEF PairOfGroups
<1> QED BY <1>9, <1>10, <1>12 DEF u

-----------------------------------------------------------------------------
(* One input, sorted.                                                      *)

(* s has the rows with the keys k, each of them once and in key order.     *)
SortedInput(s, k) ==
  /\ s \in Seq(Nat)
  /\ Len(s) = Len(k)
  /\ IsInjective(s)
  /\ Range(s) = DOMAIN k
  /\ KeyOrdered(k, s)

LEMMA SortedPositionsOfInput ==
  ASSUME NEW k \in Seq(Int)
  PROVE  SortedInput(SM!SortedPositions(k), k)
<1>1. SM!SortedPositions(k) = Sorted(k, DOMAIN k)
  <2>1. \A rows : SM!KeyOrder(k, rows) = KeyOrder(k, rows)
    BY DEF SM!KeyOrder, KeyOrder, SM!KeyBefore, KeyBefore
  <2>2. ASSUME NEW rows, NEW order
        PROVE  SM!Arranged(rows, order) = Arranged(rows, order)
    BY Zenon DEF SM!Arranged, Arranged, SM!Cardinality, Cardinality
  <2> QED BY <2>1, <2>2 DEF SM!SortedPositions, SM!Sorted, Sorted
<1>2. Len(k) \in Nat /\ DOMAIN k = 1 .. Len(k)
  BY LenProperties
<1> DEFINE s == Sorted(k, 1 .. Len(k))
<1>3. /\ s \in Seq(Nat)
      /\ Len(s) = IF 1 > Len(k) THEN 0 ELSE Len(k) - 1 + 1
      /\ IsInjective(s) /\ Range(s) = 1 .. Len(k) /\ KeyOrdered(k, s)
  <2>1. 1 \in Nat \ {0} /\ Len(k) \in 0 .. Len(k)
    BY <1>2
  <2> QED BY <2>1, SortedRows
<1> HIDE DEF s
<1>4. Len(s) = Len(k)
  BY <1>2, <1>3
<1>5. SortedInput(s, k)
  BY <1>2, <1>3, <1>4 DEF SortedInput
<1> QED BY <1>1, <1>2, <1>5 DEF s

(* The keys in the order of their places, which never go down.             *)
KeysInOrder(s, k) == [p \in DOMAIN s |-> k[s[p]]]

LEMMA SortedInputFacts ==
  ASSUME NEW k \in Seq(Int), NEW s, SortedInput(s, k)
  PROVE  /\ Len(k) \in Nat /\ DOMAIN k = 1 .. Len(k)
         /\ DOMAIN s = 1 .. Len(k)
         /\ \A p \in 1 .. Len(k) : s[p] \in DOMAIN k
         /\ \A p, q \in 1 .. Len(k) : s[p] = s[q] => p = q
         /\ \A i \in DOMAIN k : \E p \in 1 .. Len(k) : s[p] = i
         /\ \A p \in 1 .. Len(k) : KeysInOrder(s, k)[p] = k[s[p]] /\ k[s[p]] \in Int
         /\ \A p, q \in 1 .. Len(k) : p <= q => k[s[p]] <= k[s[q]]
<1>1. /\ Len(k) \in Nat /\ DOMAIN k = 1 .. Len(k) /\ DOMAIN s = 1 .. Len(k)
      /\ IsInjective(s) /\ Range(s) = DOMAIN k /\ KeyOrdered(k, s)
  BY LenProperties DEF SortedInput
<1>2. \A p \in 1 .. Len(k) : s[p] \in DOMAIN k
  BY <1>1 DEF Range
<1>3. \A p, q \in 1 .. Len(k) : s[p] = s[q] => p = q
  BY <1>1 DEF IsInjective
<1>4. \A i \in DOMAIN k : \E p \in 1 .. Len(k) : s[p] = i
  BY <1>1 DEF Range
<1>5. \A i \in DOMAIN k : k[i] \in Int
  BY <1>1, ElementOfSeq
<1>6. \A p \in 1 .. Len(k) : KeysInOrder(s, k)[p] = k[s[p]] /\ k[s[p]] \in Int
  BY <1>1, <1>2, <1>5 DEF KeysInOrder
<1>7. ASSUME NEW p \in 1 .. Len(k), NEW q \in 1 .. Len(k), p <= q
      PROVE  k[s[p]] <= k[s[q]]
  <2>1. k[s[p]] \in Int /\ k[s[q]] \in Int
    BY <1>6
  <2>2. CASE p = q
    BY <2>1, <2>2
  <2>3. CASE p < q
    <3>1. k[s[p]] < k[s[q]] \/ k[s[p]] = k[s[q]]
      BY <1>1, <2>3 DEF KeyOrdered, KeyBefore
    <3> QED BY <2>1, <3>1
  <2> QED BY <1>7, <2>2, <2>3
<1> QED BY <1>1, <1>2, <1>3, <1>4, <1>6, <1>7

(* A group has the row it is looked for at, and those after it have        *)
(* greater keys.                                                           *)
LEMMA EndOfGroup ==
  ASSUME NEW k \in Seq(Int), NEW s, SortedInput(s, k), NEW from \in 1 .. Len(k)
  PROVE  LET end == SM!GroupEnd(KeysInOrder(s, k), from)
         IN  /\ end \in from + 1 .. Len(k) + 1
             /\ \A p \in from .. end - 1 : k[s[p]] = k[s[from]]
             /\ \A p \in end .. Len(k) : k[s[p]] > k[s[from]]
<1> DEFINE n == Len(k)
           keyAt(p) == k[s[p]]
           ks == KeysInOrder(s, k)
           end == SM!GroupEnd(ks, from)
           T == {e \in from + 1 .. n + 1 : e <= n => keyAt(e) # keyAt(from)}
<1>1. /\ n \in Nat
      /\ \A p \in 1 .. n : ks[p] = keyAt(p) /\ keyAt(p) \in Int
      /\ \A p, q \in 1 .. n : p <= q => keyAt(p) <= keyAt(q)
  BY SortedInputFacts
<1>2. Len(ks) = n
  <2>1. DOMAIN ks = 1 .. n /\ ks = [p \in 1 .. n |-> k[s[p]]]
    BY SortedInputFacts DEF KeysInOrder
  <2> HIDE DEF ks
  <2> QED BY <1>1, <2>1
<1>3. end = CHOOSE e \in from .. n + 1 :
              /\ \A p \in from .. e - 1 : ks[p] = ks[from]
              /\ e <= n => ks[e] # ks[from]
  BY <1>2 DEF SM!GroupEnd
<1> HIDE DEF n, keyAt, ks, end
<1>4. \E e \in from .. n + 1 :
        /\ \A p \in from .. e - 1 : ks[p] = ks[from]
        /\ e <= n => ks[e] # ks[from]
  <2>1. T \in SUBSET Nat /\ n + 1 \in T
    BY <1>1 DEF n
  <2>2. PICK e \in T : \A y \in T : e <= y
    BY <2>1, LeastElement
  <2>3. e \in from + 1 .. n + 1 /\ (e <= n => keyAt(e) # keyAt(from))
    OBVIOUS
  <2>4. ASSUME NEW p \in from .. e - 1  PROVE ks[p] = ks[from]
    <3>1. p \in 1 .. n /\ from \in 1 .. n /\ p < e
      BY <1>1, <2>3 DEF n
    <3>2. CASE p = from
      BY <3>2
    <3>3. CASE p # from
      <4>1. p \in from + 1 .. n + 1
        BY <1>1, <3>1, <3>3
      <4>2. p \notin T
        BY <1>1, <2>2, <2>3, <3>1
      <4>3. keyAt(p) = keyAt(from)
        BY <4>1, <4>2
      <4> QED BY <1>1, <3>1, <4>3
    <3> QED BY <3>2, <3>3
  <2>5. e \in from .. n + 1
    BY <1>1, <2>3
  <2>6. ASSUME e <= n  PROVE ks[e] # ks[from]
    <3>1. e \in 1 .. n /\ from \in 1 .. n
      BY <1>1, <2>3, <2>6 DEF n
    <3> QED BY <1>1, <2>3, <2>6, <3>1
  <2> QED BY <2>4, <2>5, <2>6
<1>5. /\ end \in from .. n + 1
      /\ \A p \in from .. end - 1 : ks[p] = ks[from]
      /\ end <= n => ks[end] # ks[from]
  BY <1>3, <1>4
<1>6. end # from
  BY <1>1, <1>5 DEF n
<1>7. end \in from + 1 .. n + 1
  BY <1>1, <1>5, <1>6
<1>8. \A p \in from .. end - 1 : keyAt(p) = keyAt(from)
  <2>1. \A p \in from .. end - 1 : p \in 1 .. n
    BY <1>1, <1>7
  <2>2. from \in 1 .. n
    BY DEF n
  <2> QED BY <1>1, <1>5, <2>1, <2>2
<1>9. ASSUME NEW p \in end .. n  PROVE keyAt(p) > keyAt(from)
  <2>1. /\ p \in 1 .. n /\ end \in 1 .. n /\ from \in 1 .. n
        /\ from <= end /\ end <= p /\ end <= n
    BY <1>1, <1>7 DEF n
  <2>2. keyAt(end) # keyAt(from) /\ keyAt(from) <= keyAt(end) /\ keyAt(end) <= keyAt(p)
    BY <1>1, <1>5, <2>1
  <2>3. keyAt(end) \in Int /\ keyAt(from) \in Int /\ keyAt(p) \in Int
    BY <1>1, <2>1
  <2> QED BY <2>2, <2>3
<1> QED BY <1>7, <1>8, <1>9 DEF n, keyAt, ks, end

-----------------------------------------------------------------------------
(* The merge.                                                              *)

MergeTypeOK ==
  /\ operation = "sort_merge_join"
  /\ left \in Seq(Int) /\ right \in Seq(Int)
  /\ next \in {"sort left", "sort right", "merge"}
  /\ left_position \in Nat \ {0} /\ right_position \in Nat \ {0}
  /\ output \in Seq(Nat \X Nat)

LeftKeyAt(p) == left[sorted_left[p]]
RightKeyAt(q) == right[sorted_right[q]]

(* Partners are both before the cursors, or both not.                      *)
CursorsAbreast ==
  /\ left_position <= Len(left) + 1 /\ right_position <= Len(right) + 1
  /\ \A p \in 1 .. Len(left), q \in 1 .. Len(right) :
       LeftKeyAt(p) = RightKeyAt(q) => (p < left_position <=> q < right_position)

(* The output has the partners before the cursors.                         *)
Merged(pair) ==
  \E p \in 1 .. left_position - 1 : \E q \in 1 .. right_position - 1 :
    LeftKeyAt(p) = RightKeyAt(q) /\ pair = <<sorted_left[p], sorted_right[q]>>

MergeOutput ==
  /\ IsInjective(output)
  /\ \A pair : pair \in Range(output) <=> Merged(pair)

MergePhase ==
  /\ next # "merge" => left_position = 1 /\ right_position = 1 /\ output = <<>>
  /\ next # "sort left" => SortedInput(sorted_left, left)
  /\ next = "merge" => SortedInput(sorted_right, right) /\ CursorsAbreast /\ MergeOutput

MergeInv == MergeTypeOK /\ MergePhase

LEMMA MergeFacts ==
  ASSUME MergeInv, next = "merge"
  PROVE  /\ Len(left) \in Nat /\ DOMAIN left = 1 .. Len(left)
         /\ Len(right) \in Nat /\ DOMAIN right = 1 .. Len(right)
         /\ \A p \in 1 .. Len(left) :
              /\ SM!LeftKeys[p] = LeftKeyAt(p) /\ LeftKeyAt(p) \in Int
              /\ sorted_left[p] \in DOMAIN left
         /\ \A q \in 1 .. Len(right) :
              /\ SM!RightKeys[q] = RightKeyAt(q) /\ RightKeyAt(q) \in Int
              /\ sorted_right[q] \in DOMAIN right
         /\ \A p, r \in 1 .. Len(left) :
              /\ p <= r => LeftKeyAt(p) <= LeftKeyAt(r)
              /\ sorted_left[p] = sorted_left[r] => p = r
         /\ \A q, r \in 1 .. Len(right) :
              /\ q <= r => RightKeyAt(q) <= RightKeyAt(r)
              /\ sorted_right[q] = sorted_right[r] => q = r
<1>1. /\ left \in Seq(Int) /\ right \in Seq(Int)
      /\ SortedInput(sorted_left, left) /\ SortedInput(sorted_right, right)
  BY DEF MergeInv, MergeTypeOK, MergePhase
<1>2. SM!LeftKeys = KeysInOrder(sorted_left, left) /\ SM!RightKeys = KeysInOrder(sorted_right, right)
  BY DEF SM!LeftKeys, SM!RightKeys, KeysInOrder
<1>3. /\ Len(left) \in Nat /\ DOMAIN left = 1 .. Len(left)
      /\ \A p \in 1 .. Len(left) : sorted_left[p] \in DOMAIN left
      /\ \A p \in 1 .. Len(left) : SM!LeftKeys[p] = LeftKeyAt(p) /\ LeftKeyAt(p) \in Int
      /\ \A p, r \in 1 .. Len(left) : p <= r => LeftKeyAt(p) <= LeftKeyAt(r)
      /\ \A p, r \in 1 .. Len(left) : sorted_left[p] = sorted_left[r] => p = r
  <2> DEFINE k == left
             s == sorted_left
  <2>1. k \in Seq(Int) /\ SortedInput(s, k) /\ SM!LeftKeys = KeysInOrder(s, k)
        /\ \A p : LeftKeyAt(p) = k[s[p]]
    BY <1>1, <1>2 DEF LeftKeyAt
  <2> HIDE DEF k, s
  <2>2. /\ Len(k) \in Nat /\ DOMAIN k = 1 .. Len(k)
        /\ \A p \in 1 .. Len(k) : s[p] \in DOMAIN k
        /\ \A p \in 1 .. Len(k) : KeysInOrder(s, k)[p] = k[s[p]] /\ k[s[p]] \in Int
        /\ \A p, r \in 1 .. Len(k) : p <= r => k[s[p]] <= k[s[r]]
        /\ \A p, r \in 1 .. Len(k) : s[p] = s[r] => p = r
    BY <2>1, SortedInputFacts
  <2> QED BY <2>1, <2>2 DEF k, s
<1>4. /\ Len(right) \in Nat /\ DOMAIN right = 1 .. Len(right)
      /\ \A p \in 1 .. Len(right) : sorted_right[p] \in DOMAIN right
      /\ \A p \in 1 .. Len(right) : SM!RightKeys[p] = RightKeyAt(p) /\ RightKeyAt(p) \in Int
      /\ \A p, r \in 1 .. Len(right) : p <= r => RightKeyAt(p) <= RightKeyAt(r)
      /\ \A p, r \in 1 .. Len(right) : sorted_right[p] = sorted_right[r] => p = r
  <2> DEFINE k == right
             s == sorted_right
  <2>1. k \in Seq(Int) /\ SortedInput(s, k) /\ SM!RightKeys = KeysInOrder(s, k)
        /\ \A p : RightKeyAt(p) = k[s[p]]
    BY <1>1, <1>2 DEF RightKeyAt
  <2> HIDE DEF k, s
  <2>2. /\ Len(k) \in Nat /\ DOMAIN k = 1 .. Len(k)
        /\ \A p \in 1 .. Len(k) : s[p] \in DOMAIN k
        /\ \A p \in 1 .. Len(k) : KeysInOrder(s, k)[p] = k[s[p]] /\ k[s[p]] \in Int
        /\ \A p, r \in 1 .. Len(k) : p <= r => k[s[p]] <= k[s[r]]
        /\ \A p, r \in 1 .. Len(k) : s[p] = s[r] => p = r
    BY <2>1, SortedInputFacts
  <2> QED BY <2>1, <2>2 DEF k, s
<1> QED BY <1>3, <1>4

LEMMA InitMergeInv ==
  ASSUME Init, operation = "sort_merge_join"
  PROVE  MergeInv
<1>1. /\ left \in InputsOf[operation] /\ right \in InputsOf[operation]
      /\ JoinInit /\ SM!MergeInit
  BY DEF Init, NestedLoops, Joins
<1>2. MergeTypeOK
  <2>1. left \in Seq(Int) /\ right \in Seq(Int)
    BY <1>1, MergeInputsAssumption
  <2>2. output = <<>> /\ next = "sort left"
        /\ left_position = 1 /\ right_position = 1
    BY <1>1 DEF JoinInit, SM!MergeInit
  <2>3. output \in Seq(Nat \X Nat)
    BY <2>2, EmptySeq
  <2>4. left_position \in Nat \ {0} /\ right_position \in Nat \ {0}
    <3>1. 1 \in Nat \ {0}
      OBVIOUS
    <3> QED BY <2>2, <3>1, Zenon
  <2>5. next \in {"sort left", "sort right", "merge"}
    BY <2>2
  <2> QED BY <2>1, <2>3, <2>4, <2>5 DEF MergeTypeOK
<1>3. MergePhase
  BY <1>1 DEF MergePhase, JoinInit, SM!MergeInit
<1> QED BY <1>2, <1>3 DEF MergeInv

LEMMA SortLeftKeepsInv ==
  ASSUME MergeInv, SM!SortLeft, operation' = operation, left = <<>> \/ SM!LeftRefFits
  PROVE  MergeInv'
<1>1. /\ next = "sort left" /\ next' = "sort right"
      /\ sorted_left' = SM!SortedPositions(left)
      /\ UNCHANGED <<left, right, reversed, output, left_position, right_position>>
  BY DEF SM!SortLeft, SM!joinVars
<1>2. SortedInput(sorted_left', left)
  BY <1>1, SortedPositionsOfInput DEF MergeInv, MergeTypeOK
<1>3. MergeTypeOK'
  BY <1>1 DEF MergeInv, MergeTypeOK
<1>4. MergePhase'
  BY <1>1, <1>2 DEF MergeInv, MergePhase
<1> QED BY <1>3, <1>4 DEF MergeInv

LEMMA SortRightKeepsInv ==
  ASSUME MergeInv, SM!SortRight, operation' = operation, right = <<>> \/ SM!RightRefFits
  PROVE  MergeInv'
<1>1. /\ next = "sort right" /\ next' = "merge"
      /\ sorted_right' = SM!SortedPositions(right)
      /\ UNCHANGED <<left, right, reversed, output, sorted_left, left_position, right_position>>
  BY DEF SM!SortRight, SM!joinVars
<1>2. SortedInput(sorted_right', right)
  BY <1>1, SortedPositionsOfInput DEF MergeInv, MergeTypeOK
<1>3. SortedInput(sorted_left, left) /\ left_position = 1 /\ right_position = 1 /\ output = <<>>
  BY <1>1 DEF MergeInv, MergePhase
<1>4. MergeTypeOK'
  BY <1>1 DEF MergeInv, MergeTypeOK
<1>5. CursorsAbreast'
  <2>1. Len(left) \in Nat /\ Len(right) \in Nat
    BY LenProperties DEF MergeInv, MergeTypeOK
  <2>2. \A p \in 1 .. Len(left), q \in 1 .. Len(right) : ~(p < 1) /\ ~(q < 1)
    BY <2>1
  <2>3. left_position' = 1 /\ right_position' = 1 /\ left' = left /\ right' = right
    BY <1>1, <1>3
  <2>4. 1 <= Len(left) + 1 /\ 1 <= Len(right) + 1
    BY <2>1
  <2> QED BY <2>2, <2>3, <2>4 DEF CursorsAbreast
<1>6. MergeOutput'
  <2>1. IsInjective(<<>>) /\ Range(<<>>) = {} /\ 1 .. 1 - 1 = {}
    BY DEF IsInjective, Range
  <2>2. \A pair : ~Merged(pair)'
    BY <1>1, <1>3, <2>1 DEF Merged
  <2> QED BY <1>1, <1>3, <2>1, <2>2 DEF MergeOutput
<1>7. MergePhase'
  BY <1>1, <1>2, <1>3, <1>5, <1>6 DEF MergePhase
<1> QED BY <1>4, <1>7 DEF MergeInv

(* The row a cursor steps over alone has no partner: those in the other    *)
(* input before the cursor there would have let it step earlier, and those *)
(* at or after it have greater keys.                                       *)
LEMMA AdvanceLeftKeepsInv ==
  ASSUME MergeInv, SM!AdvanceLeft, operation' = operation
  PROVE  MergeInv'
<1> DEFINE n == Len(left)
           m == Len(right)
           l == left_position
           r == right_position
<1>1. /\ next = "merge" /\ l <= n /\ r <= m
      /\ SM!LeftKeys[l] < SM!RightKeys[r] /\ left_position' = l + 1
      /\ UNCHANGED <<left, right, reversed, output, next, sorted_left, sorted_right, right_position>>
  BY DEF SM!AdvanceLeft, SM!Merging, SM!joinVars
<1>2. /\ n \in Nat /\ m \in Nat /\ l \in 1 .. n /\ r \in 1 .. m
      /\ \A q \in 1 .. m : RightKeyAt(q) \in Int
      /\ \A q, x \in 1 .. m : q <= x => RightKeyAt(q) <= RightKeyAt(x)
  <2>1. l \in Nat \ {0} /\ r \in Nat \ {0}
    BY DEF MergeInv, MergeTypeOK
  <2> QED BY <1>1, <2>1, MergeFacts
<1>3. LeftKeyAt(l) < RightKeyAt(r) /\ LeftKeyAt(l) \in Int
  BY <1>1, <1>2, MergeFacts
<1>4. \A p \in 1 .. n, q \in 1 .. m : LeftKeyAt(p) = RightKeyAt(q) => (p < l <=> q < r)
  BY <1>1 DEF MergeInv, MergePhase, CursorsAbreast
<1>5. \A p, q : LeftKeyAt(p)' = LeftKeyAt(p) /\ RightKeyAt(q)' = RightKeyAt(q)
  BY <1>1 DEF LeftKeyAt, RightKeyAt
<1>6. MergeTypeOK'
  BY <1>1, <1>2 DEF MergeInv, MergeTypeOK
<1>7. \A q \in 1 .. m : LeftKeyAt(l) # RightKeyAt(q)
  <2> SUFFICES ASSUME NEW q \in 1 .. m, LeftKeyAt(l) = RightKeyAt(q)
               PROVE  FALSE
    OBVIOUS
  <2>1. ~(q < r)
    BY <1>2, <1>4
  <2>2. r <= q
    BY <1>2, <2>1
  <2>3. RightKeyAt(r) <= RightKeyAt(q)
    BY <1>2, <2>2
  <2> QED BY <1>2, <1>3, <2>3
<1> HIDE DEF n, m, l, r
<1>8. CursorsAbreast'
  <2>1. \A p \in 1 .. n, q \in 1 .. m : LeftKeyAt(p) = RightKeyAt(q) => (p < l + 1 <=> q < r)
    <3>1. \A p \in 1 .. n : p < l + 1 <=> p < l \/ p = l
      BY <1>2
    <3> QED BY <1>4, <1>7, <3>1
  <2>2. l + 1 <= n + 1 /\ r <= m + 1
    BY <1>2
  <2> QED BY <1>1, <1>5, <2>1, <2>2 DEF CursorsAbreast, n, m, l, r
<1>9. MergeOutput'
  <2>1. IsInjective(output) /\ \A pair : pair \in Range(output) <=> Merged(pair)
    BY <1>1 DEF MergeInv, MergePhase, MergeOutput
  <2>2. ASSUME NEW pair  PROVE Merged(pair)' <=> Merged(pair)
    <3>1. Merged(pair)' <=> \E p \in 1 .. (l + 1) - 1 : \E q \in 1 .. r - 1 :
                              LeftKeyAt(p) = RightKeyAt(q) /\ pair = <<sorted_left[p], sorted_right[q]>>
      BY <1>1, <1>5 DEF Merged, l, r
    <3>2. Merged(pair) <=> \E p \in 1 .. l - 1 : \E q \in 1 .. r - 1 :
                              LeftKeyAt(p) = RightKeyAt(q) /\ pair = <<sorted_left[p], sorted_right[q]>>
      BY DEF Merged, l, r
    <3>3. /\ \A p \in 1 .. (l + 1) - 1 : p \in 1 .. l - 1 \/ p = l
          /\ \A p \in 1 .. l - 1 : p \in 1 .. (l + 1) - 1
          /\ \A q \in 1 .. r - 1 : q \in 1 .. m
      BY <1>2
    <3> QED BY <1>7, <3>1, <3>2, <3>3
  <2> QED BY <1>1, <2>1, <2>2 DEF MergeOutput
<1>10. SortedInput(sorted_left, left)' /\ SortedInput(sorted_right, right)'
  BY <1>1 DEF MergeInv, MergePhase
<1>11. MergePhase'
  BY <1>1, <1>8, <1>9, <1>10 DEF MergePhase
<1> QED BY <1>6, <1>11 DEF MergeInv

LEMMA AdvanceRightKeepsInv ==
  ASSUME MergeInv, SM!AdvanceRight, operation' = operation
  PROVE  MergeInv'
<1> DEFINE n == Len(left)
           m == Len(right)
           l == left_position
           r == right_position
<1>1. /\ next = "merge" /\ l <= n /\ r <= m
      /\ SM!LeftKeys[l] > SM!RightKeys[r] /\ right_position' = r + 1
      /\ UNCHANGED <<left, right, reversed, output, next, sorted_left, sorted_right, left_position>>
  BY DEF SM!AdvanceRight, SM!Merging, SM!joinVars
<1>2. /\ n \in Nat /\ m \in Nat /\ l \in 1 .. n /\ r \in 1 .. m
      /\ \A p \in 1 .. n : LeftKeyAt(p) \in Int
      /\ \A p, x \in 1 .. n : p <= x => LeftKeyAt(p) <= LeftKeyAt(x)
  <2>1. l \in Nat \ {0} /\ r \in Nat \ {0}
    BY DEF MergeInv, MergeTypeOK
  <2> QED BY <1>1, <2>1, MergeFacts
<1>3. RightKeyAt(r) < LeftKeyAt(l) /\ RightKeyAt(r) \in Int
  BY <1>1, <1>2, MergeFacts
<1>4. \A p \in 1 .. n, q \in 1 .. m : LeftKeyAt(p) = RightKeyAt(q) => (p < l <=> q < r)
  BY <1>1 DEF MergeInv, MergePhase, CursorsAbreast
<1>5. \A p, q : LeftKeyAt(p)' = LeftKeyAt(p) /\ RightKeyAt(q)' = RightKeyAt(q)
  BY <1>1 DEF LeftKeyAt, RightKeyAt
<1>6. MergeTypeOK'
  BY <1>1, <1>2 DEF MergeInv, MergeTypeOK
<1>7. \A p \in 1 .. n : LeftKeyAt(p) # RightKeyAt(r)
  <2> SUFFICES ASSUME NEW p \in 1 .. n, LeftKeyAt(p) = RightKeyAt(r)
               PROVE  FALSE
    OBVIOUS
  <2>1. ~(p < l)
    BY <1>2, <1>4
  <2>2. l <= p
    BY <1>2, <2>1
  <2>3. LeftKeyAt(l) <= LeftKeyAt(p)
    BY <1>2, <2>2
  <2> QED BY <1>2, <1>3, <2>3
<1> HIDE DEF n, m, l, r
<1>8. CursorsAbreast'
  <2>1. \A p \in 1 .. n, q \in 1 .. m : LeftKeyAt(p) = RightKeyAt(q) => (p < l <=> q < r + 1)
    <3>1. \A q \in 1 .. m : q < r + 1 <=> q < r \/ q = r
      BY <1>2
    <3> QED BY <1>4, <1>7, <3>1
  <2>2. l <= n + 1 /\ r + 1 <= m + 1
    BY <1>2
  <2> QED BY <1>1, <1>5, <2>1, <2>2 DEF CursorsAbreast, n, m, l, r
<1>9. MergeOutput'
  <2>1. IsInjective(output) /\ \A pair : pair \in Range(output) <=> Merged(pair)
    BY <1>1 DEF MergeInv, MergePhase, MergeOutput
  <2>2. ASSUME NEW pair  PROVE Merged(pair)' <=> Merged(pair)
    <3>1. Merged(pair)' <=> \E p \in 1 .. l - 1 : \E q \in 1 .. (r + 1) - 1 :
                              LeftKeyAt(p) = RightKeyAt(q) /\ pair = <<sorted_left[p], sorted_right[q]>>
      BY <1>1, <1>5 DEF Merged, l, r
    <3>2. Merged(pair) <=> \E p \in 1 .. l - 1 : \E q \in 1 .. r - 1 :
                              LeftKeyAt(p) = RightKeyAt(q) /\ pair = <<sorted_left[p], sorted_right[q]>>
      BY DEF Merged, l, r
    <3>3. /\ \A q \in 1 .. (r + 1) - 1 : q \in 1 .. r - 1 \/ q = r
          /\ \A q \in 1 .. r - 1 : q \in 1 .. (r + 1) - 1
          /\ \A p \in 1 .. l - 1 : p \in 1 .. n
      BY <1>2
    <3> QED BY <1>7, <3>1, <3>2, <3>3
  <2> QED BY <1>1, <2>1, <2>2 DEF MergeOutput
<1>10. SortedInput(sorted_left, left)' /\ SortedInput(sorted_right, right)'
  BY <1>1 DEF MergeInv, MergePhase
<1>11. MergePhase'
  BY <1>1, <1>8, <1>9, <1>10 DEF MergePhase
<1> QED BY <1>6, <1>11 DEF MergeInv

(* The groups of equal keys at the two cursors.                            *)
LeftEnd == SM!GroupEnd(SM!LeftKeys, left_position)
RightEnd == SM!GroupEnd(SM!RightKeys, right_position)

LEMMA GroupsAtCursors ==
  ASSUME MergeInv, SM!EmitGroups
  PROVE  /\ left_position \in 1 .. Len(left) /\ right_position \in 1 .. Len(right)
         /\ LeftEnd \in left_position + 1 .. Len(left) + 1
         /\ \A p \in left_position .. LeftEnd - 1 : LeftKeyAt(p) = LeftKeyAt(left_position)
         /\ \A p \in LeftEnd .. Len(left) : LeftKeyAt(p) > LeftKeyAt(left_position)
         /\ RightEnd \in right_position + 1 .. Len(right) + 1
         /\ \A q \in right_position .. RightEnd - 1 : RightKeyAt(q) = RightKeyAt(right_position)
         /\ \A q \in RightEnd .. Len(right) : RightKeyAt(q) > RightKeyAt(right_position)
         /\ LeftKeyAt(left_position) = RightKeyAt(right_position)
<1> DEFINE n == Len(left)
           m == Len(right)
           l == left_position
           r == right_position
           left_end == LeftEnd
           right_end == RightEnd
<1>1. /\ next = "merge" /\ l <= n /\ r <= m
      /\ SM!LeftKeys[l] = SM!RightKeys[r]
  BY DEF SM!EmitGroups, SM!Merging
<1>2. /\ left \in Seq(Int) /\ right \in Seq(Int)
      /\ l \in Nat \ {0} /\ r \in Nat \ {0}
      /\ SortedInput(sorted_left, left) /\ SortedInput(sorted_right, right)
  BY <1>1 DEF MergeInv, MergeTypeOK, MergePhase
<1>3. /\ n \in Nat /\ m \in Nat /\ l \in 1 .. n /\ r \in 1 .. m
      /\ \A p \in 1 .. n : LeftKeyAt(p) \in Int
      /\ \A q \in 1 .. m : RightKeyAt(q) \in Int
  <2>1. MergeInv
    OBVIOUS
  <2>2. l \in Nat \ {0} /\ r \in Nat \ {0} /\ l <= n /\ r <= m
    BY <1>1, <1>2
  <2>3. /\ n \in Nat /\ m \in Nat
        /\ \A p \in 1 .. n : LeftKeyAt(p) \in Int
        /\ \A q \in 1 .. m : RightKeyAt(q) \in Int
    BY <1>1, <2>1, MergeFacts
  <2> HIDE DEF l, r, n, m
  <2>4. l \in 1 .. n /\ r \in 1 .. m
    BY <2>2, <2>3
  <2> QED BY <2>3, <2>4
<1>4. /\ left_end \in l + 1 .. n + 1
      /\ \A p \in l .. left_end - 1 : LeftKeyAt(p) = LeftKeyAt(l)
      /\ \A p \in left_end .. n : LeftKeyAt(p) > LeftKeyAt(l)
  <2> DEFINE k == left
             s == sorted_left
             from == l
             end == SM!GroupEnd(KeysInOrder(s, k), from)
  <2>1. SM!LeftKeys = KeysInOrder(sorted_left, left)
    BY DEF SM!LeftKeys, KeysInOrder
  <2>2. k \in Seq(Int) /\ SortedInput(s, k) /\ from \in 1 .. Len(k)
        /\ \A p : LeftKeyAt(p) = k[s[p]]
    BY <1>2, <1>3 DEF LeftKeyAt
  <2> HIDE DEF k, s, from
  <2>3. /\ end \in from + 1 .. Len(k) + 1
        /\ \A p \in from .. end - 1 : k[s[p]] = k[s[from]]
        /\ \A p \in end .. Len(k) : k[s[p]] > k[s[from]]
    BY <2>2, EndOfGroup
  <2> QED BY <2>1, <2>2, <2>3 DEF k, s, from, LeftEnd
<1>5. /\ right_end \in r + 1 .. m + 1
      /\ \A q \in r .. right_end - 1 : RightKeyAt(q) = RightKeyAt(r)
      /\ \A q \in right_end .. m : RightKeyAt(q) > RightKeyAt(r)
  <2> DEFINE k == right
             s == sorted_right
             from == r
             end == SM!GroupEnd(KeysInOrder(s, k), from)
  <2>1. SM!RightKeys = KeysInOrder(sorted_right, right)
    BY DEF SM!RightKeys, KeysInOrder
  <2>2. k \in Seq(Int) /\ SortedInput(s, k) /\ from \in 1 .. Len(k)
        /\ \A q : RightKeyAt(q) = k[s[q]]
    BY <1>2, <1>3 DEF RightKeyAt
  <2> HIDE DEF k, s, from
  <2>3. /\ end \in from + 1 .. Len(k) + 1
        /\ \A p \in from .. end - 1 : k[s[p]] = k[s[from]]
        /\ \A p \in end .. Len(k) : k[s[p]] > k[s[from]]
    BY <2>2, EndOfGroup
  <2> QED BY <2>1, <2>2, <2>3 DEF k, s, from, RightEnd
<1>6. LeftKeyAt(l) = RightKeyAt(r)
  BY <1>1, <1>3, MergeFacts
<1> QED BY <1>3, <1>4, <1>5, <1>6

(* Groups of one key: their pairs are new, and they are all the partners   *)
(* that the cursors pass.                                                  *)
LEMMA EmitGroupsKeepsInv ==
  ASSUME MergeInv, SM!EmitGroups, operation' = operation
  PROVE  MergeInv' /\ IsPrefix(output, output')
<1> DEFINE n == Len(left)
           m == Len(right)
           l == left_position
           r == right_position
           left_end == SM!GroupEnd(SM!LeftKeys, l)
           right_end == SM!GroupEnd(SM!RightKeys, r)
           a == left_end - l
           w == right_end - r
           u == GroupPairs(sorted_left, sorted_right, l, r, a, w)
<1>1. /\ next = "merge" /\ l <= n /\ r <= m
      /\ SM!LeftKeys[l] = SM!RightKeys[r]
      /\ left_position' = left_end /\ right_position' = right_end
      /\ output' = output \o u
      /\ UNCHANGED <<left, right, reversed, next, sorted_left, sorted_right>>
  BY DEF SM!EmitGroups, SM!Merging, SM!EmitRows, GroupPairs
<1>2. /\ left \in Seq(Int) /\ right \in Seq(Int) /\ output \in Seq(Nat \X Nat)
      /\ l \in Nat \ {0} /\ r \in Nat \ {0}
      /\ SortedInput(sorted_left, left) /\ SortedInput(sorted_right, right)
      /\ IsInjective(output) /\ \A pair : pair \in Range(output) <=> Merged(pair)
  BY <1>1 DEF MergeInv, MergeTypeOK, MergePhase, MergeOutput
<1>3. /\ n \in Nat /\ m \in Nat /\ l \in 1 .. n /\ r \in 1 .. m
      /\ \A p, x \in 1 .. n : sorted_left[p] = sorted_left[x] => p = x
      /\ \A p \in 1 .. n : LeftKeyAt(p) \in Int
      /\ \A q \in 1 .. m : RightKeyAt(q) \in Int
  <2>1. MergeInv
    OBVIOUS
  <2>2. l \in Nat \ {0} /\ r \in Nat \ {0} /\ l <= n /\ r <= m
    BY <1>1, <1>2
  <2>3. /\ n \in Nat /\ m \in Nat
        /\ \A p, x \in 1 .. n : sorted_left[p] = sorted_left[x] => p = x
        /\ \A p \in 1 .. n : LeftKeyAt(p) \in Int
        /\ \A q \in 1 .. m : RightKeyAt(q) \in Int
    BY <1>1, <2>1, MergeFacts
  <2> HIDE DEF l, r, n, m
  <2>4. l \in 1 .. n /\ r \in 1 .. m
    BY <2>2, <2>3
  <2> QED BY <2>3, <2>4
<1>4. /\ left_end \in l + 1 .. n + 1
      /\ \A p \in l .. left_end - 1 : LeftKeyAt(p) = LeftKeyAt(l)
      /\ \A p \in left_end .. n : LeftKeyAt(p) > LeftKeyAt(l)
  BY GroupsAtCursors DEF LeftEnd
<1>5. /\ right_end \in r + 1 .. m + 1
      /\ \A q \in r .. right_end - 1 : RightKeyAt(q) = RightKeyAt(r)
      /\ \A q \in right_end .. m : RightKeyAt(q) > RightKeyAt(r)
  BY GroupsAtCursors DEF RightEnd
<1>6. LeftKeyAt(l) = RightKeyAt(r)
  BY GroupsAtCursors
<1>7. \A p \in 1 .. n, q \in 1 .. m : LeftKeyAt(p) = RightKeyAt(q) => (p < l <=> q < r)
  BY <1>1 DEF MergeInv, MergePhase, CursorsAbreast
<1>8. \A p, q : LeftKeyAt(p)' = LeftKeyAt(p) /\ RightKeyAt(q)' = RightKeyAt(q)
  BY <1>1 DEF LeftKeyAt, RightKeyAt
<1> HIDE DEF n, m, l, r, left_end, right_end
<1>9. /\ a \in Nat /\ w \in Nat \ {0} /\ l + a = left_end /\ r + w = right_end
      /\ l + a - 1 <= n /\ r + w - 1 <= m
      /\ l \in Nat \ {0} /\ r \in Nat \ {0}
  BY <1>3, <1>4, <1>5
<1> HIDE DEF a, w
<1>10. /\ u \in Seq(Nat \X Nat) /\ IsInjective(u)
       /\ \A pair : pair \in Range(u) <=>
            \E p \in l .. l + a - 1 : \E q \in r .. r + w - 1 :
              pair = <<sorted_left[p], sorted_right[q]>>
  <2>1. /\ sorted_left \in Seq(Nat) /\ IsInjective(sorted_left) /\ Len(sorted_left) = n
        /\ sorted_right \in Seq(Nat) /\ IsInjective(sorted_right) /\ Len(sorted_right) = m
    BY <1>2 DEF SortedInput, n, m
  <2>2. l + a - 1 <= Len(sorted_left) /\ r + w - 1 <= Len(sorted_right)
    BY <1>9, <2>1
  <2>3. /\ u \in Seq(Nat \X Nat) /\ IsInjective(u)
        /\ \A pair : pair \in Range(u) <=>
             PairOfGroups(pair, sorted_left, sorted_right, l, r, a, w)
    BY <1>9, <2>1, <2>2, EachPairOfGroups
  <2> QED BY <2>3 DEF PairOfGroups
<1> HIDE DEF u
<1>11. /\ \A pair : pair \in Range(output) <=>
            \E p \in 1 .. l - 1 : \E q \in 1 .. r - 1 :
              LeftKeyAt(p) = RightKeyAt(q) /\ pair = <<sorted_left[p], sorted_right[q]>>
       /\ \A pair : Merged(pair)' <=>
            \E p \in 1 .. left_end - 1 : \E q \in 1 .. right_end - 1 :
              LeftKeyAt(p) = RightKeyAt(q) /\ pair = <<sorted_left[p], sorted_right[q]>>
  BY <1>1, <1>2, <1>8 DEF Merged, l, r
<1>12. Range(output) \cap Range(u) = {}
  <2> SUFFICES ASSUME NEW pair, pair \in Range(output), pair \in Range(u)
               PROVE  FALSE
    OBVIOUS
  <2>1. PICK p \in 1 .. l - 1 : \E q \in 1 .. r - 1 : pair = <<sorted_left[p], sorted_right[q]>>
    BY <1>11
  <2>2. PICK x \in l .. l + a - 1 : \E q \in r .. r + w - 1 :
          pair = <<sorted_left[x], sorted_right[q]>>
    BY <1>10
  <2>3. sorted_left[p] = sorted_left[x]
    BY <2>1, <2>2
  <2>4. p \in 1 .. n /\ x \in 1 .. n /\ p < x
    BY <1>3, <1>9
  <2>5. p = x
    BY <1>3, <2>3, <2>4
  <2> QED BY <2>4, <2>5
<1>13. /\ output' \in Seq(Nat \X Nat) /\ IsInjective(output')
       /\ Range(output') = Range(output) \cup Range(u) /\ IsPrefix(output, output')
  BY <1>1, <1>2, <1>10, <1>12, ConcatOfDistinct
<1>14. /\ \A p \in 1 .. n : p < l \/ p \in l .. left_end - 1 \/ p \in left_end .. n
       /\ \A q \in 1 .. m : q < r \/ q \in r .. right_end - 1 \/ q \in right_end .. m
  BY <1>3, <1>4, <1>5
<1>15. ASSUME NEW p \in 1 .. n, NEW q \in 1 .. m, LeftKeyAt(p) = RightKeyAt(q)
       PROVE  \/ p < l /\ q < r
              \/ p \in l .. left_end - 1 /\ q \in r .. right_end - 1
              \/ p \in left_end .. n /\ q \in right_end .. m
  <2>1. p < l <=> q < r
    BY <1>7, <1>15
  <2>2. LeftKeyAt(l) \in Int /\ RightKeyAt(r) \in Int /\ LeftKeyAt(p) \in Int
    BY <1>3
  <2>3. p \in left_end .. n => LeftKeyAt(p) # LeftKeyAt(l)
    BY <1>4, <2>2
  <2>4. q \in right_end .. m => RightKeyAt(q) # RightKeyAt(r)
    BY <1>5, <1>15, <2>2, <1>6
  <2>5. p \in l .. left_end - 1 => LeftKeyAt(p) = LeftKeyAt(l)
    BY <1>4
  <2>6. q \in r .. right_end - 1 => RightKeyAt(q) = RightKeyAt(r)
    BY <1>5
  <2>7. ~(p < l /\ p \in l .. left_end - 1) /\ ~(p < l /\ p \in left_end .. n)
        /\ ~(q < r /\ q \in r .. right_end - 1) /\ ~(q < r /\ q \in right_end .. m)
    BY <1>3, <1>4, <1>5
  <2> QED BY <1>6, <1>14, <1>15, <2>1, <2>3, <2>4, <2>5, <2>6, <2>7
<1>16. CursorsAbreast'
  <2>1. \A p \in 1 .. n, q \in 1 .. m :
          LeftKeyAt(p) = RightKeyAt(q) => (p < left_end <=> q < right_end)
    <3>1. /\ \A p \in 1 .. n : p < l => p < left_end
          /\ \A p \in l .. left_end - 1 : p < left_end
          /\ \A p \in left_end .. n : ~(p < left_end)
      BY <1>3, <1>4
    <3>2. /\ \A q \in 1 .. m : q < r => q < right_end
          /\ \A q \in r .. right_end - 1 : q < right_end
          /\ \A q \in right_end .. m : ~(q < right_end)
      BY <1>3, <1>5
    <3> QED BY <1>15, <3>1, <3>2
  <2>2. left_end <= n + 1 /\ right_end <= m + 1
    BY <1>3, <1>4, <1>5
  <2> QED BY <1>1, <1>8, <2>1, <2>2 DEF CursorsAbreast, n, m
<1>17. ASSUME NEW pair  PROVE pair \in Range(output') <=> Merged(pair)'
  <2>1. ASSUME pair \in Range(output)  PROVE Merged(pair)'
    <3>1. /\ \A p \in 1 .. l - 1 : p \in 1 .. left_end - 1
          /\ \A q \in 1 .. r - 1 : q \in 1 .. right_end - 1
      BY <1>3, <1>4, <1>5
    <3> QED BY <1>11, <2>1, <3>1
  <2>2. ASSUME pair \in Range(u)  PROVE Merged(pair)'
    <3>1. PICK p \in l .. l + a - 1, q \in r .. r + w - 1 :
            pair = <<sorted_left[p], sorted_right[q]>>
      BY <1>10, <2>2
    <3>2. p \in l .. left_end - 1 /\ q \in r .. right_end - 1
      BY <1>9
    <3>3. LeftKeyAt(p) = RightKeyAt(q)
      BY <1>4, <1>5, <1>6, <3>2
    <3>4. p \in 1 .. left_end - 1 /\ q \in 1 .. right_end - 1
      BY <1>3, <1>4, <1>5, <3>2
    <3> QED BY <1>11, <3>1, <3>3, <3>4
  <2>3. ASSUME Merged(pair)'  PROVE pair \in Range(output) \cup Range(u)
    <3>1. PICK p \in 1 .. left_end - 1, q \in 1 .. right_end - 1 :
            LeftKeyAt(p) = RightKeyAt(q) /\ pair = <<sorted_left[p], sorted_right[q]>>
      BY <1>11, <2>3
    <3>2. p \in 1 .. n /\ q \in 1 .. m /\ p < left_end
      BY <1>3, <1>4, <1>5
    <3>3. \/ p < l /\ q < r
          \/ p \in l .. left_end - 1 /\ q \in r .. right_end - 1
          \/ p \in left_end .. n /\ q \in right_end .. m
      BY <1>15, <3>1, <3>2
    <3>4. CASE p < l /\ q < r
      <4>1. p \in 1 .. l - 1 /\ q \in 1 .. r - 1
        BY <1>3, <3>2, <3>4
      <4> QED BY <1>11, <3>1, <4>1
    <3>5. CASE p \in l .. left_end - 1 /\ q \in r .. right_end - 1
      <4>1. p \in l .. l + a - 1 /\ q \in r .. r + w - 1
        BY <1>9, <3>5
      <4> QED BY <1>10, <3>1, <4>1
    <3>6. ~(p \in left_end .. n)
      BY <1>4, <3>2
    <3> QED BY <3>3, <3>4, <3>5, <3>6
  <2> QED BY <1>13, <2>1, <2>2, <2>3
<1>18. MergeTypeOK'
  <2>1. left_end \in Nat \ {0} /\ right_end \in Nat \ {0}
    BY <1>3, <1>4, <1>5
  <2> QED BY <1>1, <1>13, <2>1 DEF MergeInv, MergeTypeOK
<1>19. MergePhase'
  <2>1. MergeOutput'
    BY <1>13, <1>17 DEF MergeOutput
  <2>2. SortedInput(sorted_left, left)' /\ SortedInput(sorted_right, right)'
    BY <1>1, <1>2
  <2> QED BY <1>1, <1>16, <2>1, <2>2 DEF MergePhase
<1> QED BY <1>13, <1>18, <1>19 DEF MergeInv

-----------------------------------------------------------------------------
(* What is before the cursors, said of the matches.                        *)

LEMMA MergedAreMatches ==
  ASSUME MergeInv, next = "merge"
  PROVE  /\ Range(output) = {m \in Matches : \E p \in 1 .. left_position - 1 : m[1] = sorted_left[p]}
         /\ Range(output) = {m \in Matches : \E q \in 1 .. right_position - 1 : m[2] = sorted_right[q]}
<1> DEFINE n == Len(left)
           m == Len(right)
           l == left_position
           r == right_position
           ofLeft == {x \in Matches : \E p \in 1 .. l - 1 : x[1] = sorted_left[p]}
           ofRight == {x \in Matches : \E q \in 1 .. r - 1 : x[2] = sorted_right[q]}
<1>1. /\ n \in Nat /\ m \in Nat /\ l \in Nat \ {0} /\ r \in Nat \ {0} /\ l <= n + 1 /\ r <= m + 1
      /\ \A pair : pair \in Range(output) <=> Merged(pair)
      /\ \A p \in 1 .. n, q \in 1 .. m : LeftKeyAt(p) = RightKeyAt(q) => (p < l <=> q < r)
  BY MergeFacts DEF MergeInv, MergeTypeOK, MergePhase, MergeOutput, CursorsAbreast
<1>2. /\ \A p \in 1 .. n : sorted_left[p] \in DOMAIN left
      /\ \A q \in 1 .. m : sorted_right[q] \in DOMAIN right
      /\ \A p, x \in 1 .. n : sorted_left[p] = sorted_left[x] => p = x
      /\ \A q, x \in 1 .. m : sorted_right[q] = sorted_right[x] => q = x
  BY MergeFacts
<1>3. ASSUME NEW x \in Matches
      PROVE  \E p \in 1 .. n : \E q \in 1 .. m :
               LeftKeyAt(p) = RightKeyAt(q) /\ x = <<sorted_left[p], sorted_right[q]>>
  <2>1. /\ x = <<x[1], x[2]>> /\ x[1] \in DOMAIN left /\ x[2] \in DOMAIN right
        /\ left[x[1]] = right[x[2]]
    BY DEF Matches, MatchesOf
  <2>2. /\ left \in Seq(Int) /\ SortedInput(sorted_left, left)
        /\ right \in Seq(Int) /\ SortedInput(sorted_right, right)
    BY DEF MergeInv, MergeTypeOK, MergePhase
  <2>3. PICK p \in 1 .. n : sorted_left[p] = x[1]
    BY <2>1, <2>2, SortedInputFacts
  <2>4. PICK q \in 1 .. m : sorted_right[q] = x[2]
    BY <2>1, <2>2, SortedInputFacts
  <2>5. LeftKeyAt(p) = RightKeyAt(q) /\ x = <<sorted_left[p], sorted_right[q]>>
    BY <2>1, <2>3, <2>4 DEF LeftKeyAt, RightKeyAt
  <2> QED BY <2>5
<1>4. ASSUME NEW p \in 1 .. n, NEW q \in 1 .. m, LeftKeyAt(p) = RightKeyAt(q)
      PROVE  <<sorted_left[p], sorted_right[q]>> \in Matches
  <2>1. sorted_left[p] \in DOMAIN left /\ sorted_right[q] \in DOMAIN right
    BY <1>2
  <2> QED BY <1>4, <2>1 DEF Matches, MatchesOf, LeftKeyAt, RightKeyAt
<1>5. \A pair : pair \in Range(output) <=>
        \E p \in 1 .. l - 1 : \E q \in 1 .. r - 1 :
          LeftKeyAt(p) = RightKeyAt(q) /\ pair = <<sorted_left[p], sorted_right[q]>>
  BY <1>1 DEF Merged
<1> HIDE DEF n, m, l, r
<1>6. /\ \A p \in 1 .. l - 1 : p \in 1 .. n /\ p < l
      /\ \A q \in 1 .. r - 1 : q \in 1 .. m /\ q < r
      /\ \A p \in 1 .. n : p < l => p \in 1 .. l - 1
      /\ \A q \in 1 .. m : q < r => q \in 1 .. r - 1
  BY <1>1
<1>7. ASSUME NEW x, x \in Range(output)
      PROVE  x \in ofLeft /\ x \in ofRight
  <2>1. PICK p \in 1 .. l - 1, q \in 1 .. r - 1 :
          LeftKeyAt(p) = RightKeyAt(q) /\ x = <<sorted_left[p], sorted_right[q]>>
    BY <1>5, <1>7
  <2>2. x \in Matches
    BY <1>4, <1>6, <2>1
  <2>3. x[1] = sorted_left[p] /\ x[2] = sorted_right[q]
    BY <2>1
  <2> QED BY <2>2, <2>3
<1>8. ASSUME NEW x, x \in ofLeft
      PROVE  x \in Range(output)
  <2>1. PICK p \in 1 .. n, q \in 1 .. m :
          LeftKeyAt(p) = RightKeyAt(q) /\ x = <<sorted_left[p], sorted_right[q]>>
    BY <1>3, <1>8
  <2>2. PICK y \in 1 .. l - 1 : x[1] = sorted_left[y]
    BY <1>8
  <2>3. x[1] = sorted_left[p]
    BY <2>1
  <2>4. p = y
    BY <1>2, <1>6, <2>2, <2>3
  <2>5. p \in 1 .. l - 1 /\ q \in 1 .. r - 1
    BY <1>1, <1>6, <2>1, <2>2, <2>4
  <2> QED BY <1>5, <2>1, <2>5
<1>9. ASSUME NEW x, x \in ofRight
      PROVE  x \in Range(output)
  <2>1. PICK p \in 1 .. n, q \in 1 .. m :
          LeftKeyAt(p) = RightKeyAt(q) /\ x = <<sorted_left[p], sorted_right[q]>>
    BY <1>3, <1>9
  <2>2. PICK y \in 1 .. r - 1 : x[2] = sorted_right[y]
    BY <1>9
  <2>3. x[2] = sorted_right[q]
    BY <2>1
  <2>4. q = y
    BY <1>2, <1>6, <2>2, <2>3
  <2>5. p \in 1 .. l - 1 /\ q \in 1 .. r - 1
    BY <1>1, <1>6, <2>1, <2>2, <2>4
  <2> QED BY <1>5, <2>1, <2>5
<1>10. Range(output) = ofLeft /\ Range(output) = ofRight
  BY <1>7, <1>8, <1>9
<1> QED BY <1>10 DEF l, r

LEMMA MergedStayMatches ==
  (MergeInv /\ next = "merge" => Range(output) \subseteq Matches)'
<1>1. MergeInv /\ next = "merge" => Range(output) \subseteq Matches
  BY MergedAreMatches
<1> QED BY <1>1, PTL

(* One input through, and no match is missing.                             *)
LEMMA FinishMergesAll ==
  ASSUME MergeInv, SM!Finish
  PROVE  Range(output) = Matches
<1>1. next = "merge" /\ (left_position > Len(left) \/ right_position > Len(right))
  BY DEF SM!Finish
<1>2. /\ left \in Seq(Int) /\ SortedInput(sorted_left, left)
      /\ right \in Seq(Int) /\ SortedInput(sorted_right, right)
      /\ left_position \in Nat \ {0} /\ right_position \in Nat \ {0}
  BY <1>1 DEF MergeInv, MergeTypeOK, MergePhase
<1>3. /\ Len(left) \in Nat /\ Len(right) \in Nat
      /\ \A x \in Matches : \E p \in 1 .. Len(left) : x[1] = sorted_left[p]
      /\ \A x \in Matches : \E q \in 1 .. Len(right) : x[2] = sorted_right[q]
  <2>1. \A x \in Matches : x[1] \in DOMAIN left /\ x[2] \in DOMAIN right
    BY DEF Matches, MatchesOf
  <2>2. Len(left) \in Nat /\ \A i \in DOMAIN left : \E p \in 1 .. Len(left) : sorted_left[p] = i
    BY <1>2, SortedInputFacts
  <2>3. Len(right) \in Nat /\ \A i \in DOMAIN right : \E q \in 1 .. Len(right) : sorted_right[q] = i
    BY <1>2, SortedInputFacts
  <2>4. \A x \in Matches : \E p \in 1 .. Len(left) : x[1] = sorted_left[p]
    BY <2>1, <2>2
  <2>5. \A x \in Matches : \E q \in 1 .. Len(right) : x[2] = sorted_right[q]
    BY <2>1, <2>3
  <2> QED BY <2>2, <2>3, <2>4, <2>5
<1>4. CASE left_position > Len(left)
  <2>1. \A p \in 1 .. Len(left) : p \in 1 .. left_position - 1
    BY <1>2, <1>3, <1>4
  <2>2. Range(output) = {m \in Matches : \E p \in 1 .. left_position - 1 : m[1] = sorted_left[p]}
    BY <1>1, MergedAreMatches
  <2> QED BY <1>3, <2>1, <2>2
<1>5. CASE right_position > Len(right)
  <2>1. \A q \in 1 .. Len(right) : q \in 1 .. right_position - 1
    BY <1>2, <1>3, <1>5
  <2>2. Range(output) = {m \in Matches : \E q \in 1 .. right_position - 1 : m[2] = sorted_right[q]}
    BY <1>1, MergedAreMatches
  <2> QED BY <1>3, <2>1, <2>2
<1> QED BY <1>1, <1>4, <1>5

(* Sorting an input with rows raises only if its reference is that of the  *)
(* other input, and the orientation could not see it.                      *)
LEMMA MisfitOfInput ==
  ASSUME \/ left # <<>> /\ ~SM!LeftRefFits
         \/ right # <<>> /\ ~SM!RightRefFits
  PROVE  reversed /\ (left = <<>>) # (right = <<>>)
<1>1. ~reversed => SM!LeftRefFits /\ SM!RightRefFits
  BY DEF SM!LeftRefFits, SM!RightRefFits, SM!OrientedJoinRefs, SM!ConditionSides
<1>2. ASSUME reversed, left # <<>>, right # <<>>
      PROVE  SM!LeftRefFits /\ SM!RightRefFits
  <2>1. SM!ConditionSides = <<"right", "left">>
    BY <1>2 DEF SM!ConditionSides
  <2>2. SM!OrientedJoinRefs = SM!Reverse(<<"right", "left">>)
    BY <1>2, <2>1 DEF SM!OrientedJoinRefs
  <2>3. SM!Reverse(<<"right", "left">>)[1] = "left" /\ SM!Reverse(<<"right", "left">>)[2] = "right"
    BY DEF SM!Reverse
  <2> QED BY <2>2, <2>3 DEF SM!LeftRefFits, SM!RightRefFits
<1> QED BY <1>1, <1>2

LEMMA StepOfMergeJoin ==
  ASSUME operation = "sort_merge_join", Next
  PROVE  SM!Next /\ operation' = operation
BY DEF Next, NestedLoops

(* A step that moves nothing of the join but its status.                   *)
LEMMA StatusAlone ==
  ASSUME MergeInv, operation' = operation,
         UNCHANGED <<left, right, reversed, output, next, sorted_left, sorted_right,
                     left_position, right_position>>
  PROVE  MergeInv'
<1>1. MergeTypeOK'
  BY DEF MergeInv, MergeTypeOK
<1>2. /\ \A p, q : LeftKeyAt(p)' = LeftKeyAt(p) /\ RightKeyAt(q)' = RightKeyAt(q)
      /\ \A pair : Merged(pair)' <=> Merged(pair)
  BY DEF LeftKeyAt, RightKeyAt, Merged
<1>3. CursorsAbreast => CursorsAbreast'
  BY <1>2 DEF CursorsAbreast
<1>4. MergeOutput => MergeOutput'
  BY <1>2 DEF MergeOutput
<1>5. SortedInput(sorted_left, left)' = SortedInput(sorted_left, left)
      /\ SortedInput(sorted_right, right)' = SortedInput(sorted_right, right)
  OBVIOUS
<1>6. MergePhase'
  BY <1>3, <1>4, <1>5 DEF MergeInv, MergePhase
<1> QED BY <1>1, <1>6 DEF MergeInv

LEMMA StepKeepsMergeInv ==
  ASSUME MergeInv, [Next]_vars
  PROVE  MergeInv'
<1>1. CASE Next
  <2>1. SM!Next /\ operation' = operation
    BY <1>1, StepOfMergeJoin DEF MergeInv, MergeTypeOK
  <2>2. CASE SM!SortLeft
    <3>1. CASE left = <<>> \/ SM!LeftRefFits
      BY <2>1, <2>2, <3>1, SortLeftKeepsInv
    <3>2. CASE ~(left = <<>> \/ SM!LeftRefFits)
      BY <2>1, <2>2, <3>2, StatusAlone DEF SM!SortLeft, SM!RaiseKeyError, SM!mergeVars
    <3> QED BY <3>1, <3>2
  <2>3. CASE SM!SortRight
    <3>1. CASE right = <<>> \/ SM!RightRefFits
      BY <2>1, <2>3, <3>1, SortRightKeepsInv
    <3>2. CASE ~(right = <<>> \/ SM!RightRefFits)
      BY <2>1, <2>3, <3>2, StatusAlone DEF SM!SortRight, SM!RaiseKeyError, SM!mergeVars
    <3> QED BY <3>1, <3>2
  <2>4. CASE SM!AdvanceLeft
    BY <2>1, <2>4, AdvanceLeftKeepsInv
  <2>5. CASE SM!AdvanceRight
    BY <2>1, <2>5, AdvanceRightKeepsInv
  <2>6. CASE SM!EmitGroups
    BY <2>1, <2>6, EmitGroupsKeepsInv
  <2>7. CASE SM!Finish
    BY <2>1, <2>7, StatusAlone DEF SM!Finish, SM!Return, SM!mergeVars
  <2>8. CASE SM!Returned
    BY <2>1, <2>8, StatusAlone DEF SM!Returned, SM!vars, SM!joinVars, SM!mergeVars
  <2> QED BY <2>1, <2>2, <2>3, <2>4, <2>5, <2>6, <2>7, <2>8 DEF SM!Next
<1>2. CASE UNCHANGED vars
  BY <1>2, StatusAlone DEF vars, joinVars, ownMerge
<1> QED BY <1>1, <1>2

(* Two groups are one Emit of the abstract join, the end of an input its   *)
(* Finish, and a reference that misses its input its Fail.                 *)
LEMMA StepOfMergeRefines ==
  ASSUME MergeInv, [Next]_vars
  PROVE  [EJ!Next]_(EJ!joinVars)
<1>1. EJ!Matches = Matches /\ EJ!Range(output) = Range(output)
      /\ (EJ!Range(output))' = Range(output') /\ EJ!IsInjective(output') = IsInjective(output')
  BY DEF EJ!Matches, EJ!MatchesOf, Matches, MatchesOf, EJ!Range, Range,
         EJ!IsInjective, IsInjective
<1>2. CASE Next
  <2>1. SM!Next /\ operation' = operation
    BY <1>2, StepOfMergeJoin DEF MergeInv, MergeTypeOK
  <2>2. CASE \/ SM!SortLeft /\ (left = <<>> \/ SM!LeftRefFits)
             \/ SM!SortRight /\ (right = <<>> \/ SM!RightRefFits)
             \/ SM!AdvanceLeft \/ SM!AdvanceRight \/ SM!Returned
    <3>1. UNCHANGED SM!joinVars
      BY <2>2 DEF SM!SortLeft, SM!SortRight, SM!AdvanceLeft, SM!AdvanceRight,
                  SM!Returned, SM!vars
    <3> QED BY <3>1 DEF SM!joinVars, EJ!joinVars
  <2>3. CASE \/ SM!SortLeft /\ ~(left = <<>> \/ SM!LeftRefFits)
             \/ SM!SortRight /\ ~(right = <<>> \/ SM!RightRefFits)
    <3>1. /\ status = "running" /\ status' = "KeyError"
          /\ UNCHANGED <<left, right, reversed, output>>
      BY <2>3 DEF SM!SortLeft, SM!SortRight, SM!RaiseKeyError
    <3>2. reversed /\ (left = <<>>) # (right = <<>>)
      BY <2>3, MisfitOfInput
    <3>3. EJ!Fail
      BY <3>1, <3>2 DEF EJ!Fail, EJ!RaiseKeyError
    <3> QED BY <3>3 DEF EJ!Next
  <2>4. CASE SM!EmitGroups
    <3>1. MergeInv' /\ IsPrefix(output, output')
      BY <2>1, <2>4, EmitGroupsKeepsInv
    <3>2. /\ status = "running" /\ UNCHANGED <<left, right, reversed, status>>
          /\ next' = "merge"
      BY <2>4 DEF SM!EmitGroups, SM!Merging, SM!EmitRows
    <3>3. Matches' = Matches
      BY <3>2 DEF Matches, MatchesOf
    <3>4. IsInjective(output')
      BY <3>1, <3>2 DEF MergeInv, MergePhase, MergeOutput
    <3>5. Range(output') \subseteq Matches
      <4>1. Range(output') \subseteq Matches'
        BY <3>1, <3>2, MergedStayMatches
      <4> QED BY <3>3, <4>1
    <3>6. EJ!Emit
      BY <1>1, <3>1, <3>2, <3>4, <3>5 DEF EJ!Emit, EJ!Range, EJ!IsPrefix, IsPrefix
    <3> QED BY <3>6 DEF EJ!Next
  <2>5. CASE SM!Finish
    <3>1. /\ UNCHANGED <<left, right, reversed, output>>
          /\ status = "running" /\ status' = "done"
      BY <2>5 DEF SM!Finish, SM!Return
    <3>2. Range(output) = Matches
      BY <2>5, FinishMergesAll
    <3>3. EJ!Finish
      BY <1>1, <3>1, <3>2 DEF EJ!Finish, EJ!Return
    <3> QED BY <3>3 DEF EJ!Next
  <2> QED BY <2>1, <2>2, <2>3, <2>4, <2>5 DEF SM!Next
<1>3. CASE UNCHANGED vars
  BY <1>3 DEF vars, joinVars, EJ!joinVars
<1> QED BY <1>2, <1>3

-----------------------------------------------------------------------------
(* No row that has a partner to come is passed, and none is merged twice,  *)
(* however many rows a key has on either side.                             *)
THEOREM MergeCursorsPassNoMatch == Spec => []CursorsPassNoMatch
<1> DEFINE Inv == operation = "sort_merge_join" => MergeInv
<1>1. Init => Inv
  BY InitMergeInv
<1>2. Inv /\ [Next]_vars => Inv'
  <2>1. [Next]_vars => operation' = operation
    BY DEF Next, vars, NL!Next, NL!Compare, NL!Finish, NL!Returned, NL!vars
  <2> QED BY <2>1, StepKeepsMergeInv
<1>3. Inv => CursorsPassNoMatch
  <2>1. SM!Matches = Matches /\ SM!Range(output) = Range(output)
    BY DEF SM!Matches, SM!MatchesOf, Matches, MatchesOf, SM!Range, Range
  <2> QED BY <2>1, MergedAreMatches DEF CursorsPassNoMatch, SM!CursorsPassNoMatch
<1> QED BY <1>1, <1>2, <1>3, PTL DEF Spec

(* The joins side by side: whichever is called, on whatever inputs, emits  *)
(* each matching pair once, returns when all are out, and raises in the    *)
(* one stated case only; a sort does not touch what belongs to the joins.  *)
THEOREM EveryJoinImplementsEquiJoin == Spec => ImplementsEquiJoin
<1> DEFINE Inv ==
      /\ operation \in Joins \cup {"external_merge_sort"}
      /\ operation \in NestedLoops => LoopInv
      /\ operation = "hash_join" => HashInv
      /\ operation = "sort_merge_join" => MergeInv
<1>1. Init => Inv
  <2>1. Init => operation \in Joins \cup {"external_merge_sort"}
    BY DEF Init
  <2> QED BY <2>1, InitLoopInv, InitHashInv, InitMergeInv
<1>2. [Next]_vars => operation' = operation
  BY DEF Next, vars, NL!Next, NL!Compare, NL!Finish, NL!Returned, NL!vars
<1>3. Inv /\ [Next]_vars => Inv'
  BY <1>2, StepKeepsLoopInv, StepKeepsHashInv, StepKeepsMergeInv
<1>4. Inv /\ [Next]_vars => [EJ!Next]_(EJ!joinVars)
  <2> SUFFICES ASSUME Inv, [Next]_vars  PROVE [EJ!Next]_(EJ!joinVars)
    OBVIOUS
  <2>1. CASE operation = "external_merge_sort"
    <3>1. UNCHANGED joinVars
      BY <2>1 DEF Next, vars, NestedLoops
    <3> QED BY <3>1 DEF joinVars, EJ!joinVars
  <2>2. CASE operation \in Joins
    BY <2>2, StepOfLoopsRefines, StepOfHashJoinRefines, StepOfMergeRefines DEF Joins
  <2> QED BY <2>1, <2>2
<1>5. Init => EJ!JoinInit
  BY DEF Init, JoinInit, EJ!JoinInit
<1> QED BY <1>1, <1>3, <1>4, <1>5, PTL DEF Spec, ImplementsEquiJoin, EJ!Spec

-----------------------------------------------------------------------------
(* The order of the output: by keys, under each key by left rows, and      *)
(* under each of them by right rows.                                       *)

(* The pairs of two groups whose rows ascend.                              *)
LEMMA GroupPairsInOrder ==
  ASSUME NEW s, NEW t, NEW l \in Nat \ {0}, NEW r \in Nat \ {0},
         NEW a \in Nat, NEW w \in Nat \ {0}, NEW order,
         \A p, x \in l .. l + a - 1, q, y \in r .. r + w - 1 :
           p < x \/ (p = x /\ q < y) => <<<<s[p], t[q]>>, <<s[x], t[y]>>>> \in order
  PROVE  InOrder(GroupPairs(s, t, l, r, a, w), order)
<1> DEFINE u == GroupPairs(s, t, l, r, a, w)
           N == a * w
           row == [n \in 1 .. N |-> (n - 1) \div w]
           column == [n \in 1 .. N |-> (n - 1) % w]
<1>1. N \in Nat
  BY SMT
<1>2. DOMAIN u = 1 .. N /\ \A n \in 1 .. N : u[n] = <<s[l + row[n]], t[r + column[n]]>>
  BY DEF GroupPairs
<1>3. ASSUME NEW n \in 1 .. N
      PROVE  row[n] \in 0 .. a - 1 /\ column[n] \in 0 .. w - 1
  BY RowAndColumn
<1>4. ASSUME NEW m \in 1 .. N, NEW n \in 1 .. N, m < n
      PROVE  row[m] < row[n] \/ (row[m] = row[n] /\ column[m] < column[n])
  <2>1. m \in Nat \ {0} /\ n \in Nat \ {0}
    BY <1>1
  <2>2. \/ PlaceOf(m, w)[1] < PlaceOf(n, w)[1]
        \/ PlaceOf(m, w)[1] = PlaceOf(n, w)[1] /\ PlaceOf(m, w)[2] < PlaceOf(n, w)[2]
    BY <1>4, <2>1, PlacesInOrder
  <2>3. /\ PlaceOf(m, w)[1] = 1 + row[m] /\ PlaceOf(m, w)[2] = 1 + column[m]
        /\ PlaceOf(n, w)[1] = 1 + row[n] /\ PlaceOf(n, w)[2] = 1 + column[n]
    BY DEF PlaceOf
  <2> HIDE DEF row, column
  <2>4. /\ row[m] \in Int /\ row[n] \in Int /\ column[m] \in Int /\ column[n] \in Int
    BY <1>3
  <2> QED BY <2>2, <2>3, <2>4
<1> HIDE DEF u, row, column, N
<1>5. ASSUME NEW m \in 1 .. N, NEW n \in 1 .. N, m < n
      PROVE  <<u[m], u[n]>> \in order
  <2> DEFINE p == l + row[m]
             x == l + row[n]
             q == r + column[m]
             y == r + column[n]
  <2>1. /\ row[m] \in 0 .. a - 1 /\ row[n] \in 0 .. a - 1
        /\ column[m] \in 0 .. w - 1 /\ column[n] \in 0 .. w - 1
    BY <1>3
  <2>2. /\ p \in l .. l + a - 1 /\ x \in l .. l + a - 1
        /\ q \in r .. r + w - 1 /\ y \in r .. r + w - 1
    BY <2>1
  <2>3. p < x \/ (p = x /\ q < y)
    <3>1. row[m] < row[n] \/ (row[m] = row[n] /\ column[m] < column[n])
      BY <1>4, <1>5
    <3> QED BY <2>1, <3>1
  <2>4. u[m] = <<s[p], t[q]>> /\ u[n] = <<s[x], t[y]>>
    BY <1>2
  <2> HIDE DEF p, x, q, y
  <2> QED BY <2>2, <2>3, <2>4
<1>6. InOrder(u, order)
  BY <1>2, <1>5 DEF InOrder
<1> QED BY <1>6 DEF u

LEMMA MergeOrderIs ==
  ASSUME MergeTypeOK
  PROVE  /\ \A p \in Matches : /\ left[p[1]] \in Int /\ p[1] \in Int /\ p[2] \in Int
                               /\ p = <<p[1], p[2]>>
         /\ \A p, q \in Matches :
              <<p, q>> \in OrderOfOutput <=>
                Earlier3(left[p[1]], p[1], p[2], left[q[1]], q[1], q[2])
<1>1. /\ left \in Seq(Int) /\ DOMAIN left = 1 .. Len(left) /\ Len(left) \in Nat
      /\ DOMAIN right = 1 .. Len(right) /\ Len(right) \in Nat
  BY LenProperties DEF MergeTypeOK
<1>2. ASSUME NEW p \in Matches
      PROVE  /\ left[p[1]] \in Int /\ p[1] \in Int /\ p[2] \in Int /\ p = <<p[1], p[2]>>
             /\ OutputRank(operation, left, right, hash, p) = <<left[p[1]], p[1], p[2]>>
  <2>1. p[1] \in 1 .. Len(left) /\ p[2] \in 1 .. Len(right) /\ p = <<p[1], p[2]>>
    BY <1>1 DEF Matches, MatchesOf
  <2>2. left[p[1]] \in Int
    BY <1>1, <2>1, ElementOfSeq
  <2>3. p[1] \in Int /\ p[2] \in Int
    BY <1>1, <2>1
  <2>4. OutputRank(operation, left, right, hash, p) = <<left[p[1]], p[1], p[2]>>
    BY DEF OutputRank, MergeTypeOK
  <2> QED BY <2>1, <2>2, <2>3, <2>4
<1>3. ASSUME NEW p \in Matches, NEW q \in Matches
      PROVE  <<p, q>> \in OrderOfOutput <=>
               Earlier3(left[p[1]], p[1], p[2], left[q[1]], q[1], q[2])
  <2>1. <<p, q>> \in OrderOfOutput <=>
          RankBefore(OutputRank(operation, left, right, hash, p),
                     OutputRank(operation, left, right, hash, q))
    BY DEF OrderOfOutput, OutputOrder, Matches
  <2> QED BY <1>2, <2>1, RankBeforeIs
<1> QED BY <1>2, <1>3

(* Both references fit their inputs where the merge begins.                *)
MergeEnds ==
  /\ JoinEnds
  /\ next # "sort left" => left = <<>> \/ SM!LeftRefFits
  /\ next = "merge" => right = <<>> \/ SM!RightRefFits
  /\ status = "done" => next = "merge"

MergeResultInv == MergeInv /\ InOrder(output, OrderOfOutput) /\ MergeEnds

LEMMA MergeConstants ==
  ASSUME UNCHANGED <<operation, left, right, reversed, hash>>
  PROVE  /\ OrderOfOutput' = OrderOfOutput
         /\ SM!LeftRefFits' = SM!LeftRefFits /\ SM!RightRefFits' = SM!RightRefFits
BY DEF OrderOfOutput, OutputOrder, MatchesOf, OutputRank, BuildIsLeft, PartitionOf,
       PartitionCount, Spills, BuildRows, PagesOf, RowsPerBlock,
       SM!LeftRefFits, SM!RightRefFits, SM!OrientedJoinRefs, SM!ConditionSides

LEMMA InitMergeResult ==
  ASSUME Init, operation = "sort_merge_join"
  PROVE  MergeResultInv
<1>1. output = <<>> /\ status = "running" /\ next = "sort left"
  BY DEF Init, NestedLoops, JoinInit, SM!MergeInit
<1>2. DOMAIN <<>> = {}
  OBVIOUS
<1> QED BY <1>1, <1>2, InitMergeInv DEF MergeResultInv, MergeEnds, JoinEnds, InOrder

(* Two groups follow all of the output, and their pairs ascend.            *)
LEMMA EmitGroupsKeepsOrder ==
  ASSUME MergeInv, InOrder(output, OrderOfOutput), SM!EmitGroups, operation' = operation
  PROVE  InOrder(output', OrderOfOutput)
<1> DEFINE n == Len(left)
           m == Len(right)
           l == left_position
           r == right_position
           a == LeftEnd - l
           w == RightEnd - r
           u == GroupPairs(sorted_left, sorted_right, l, r, a, w)
<1>1. next = "merge" /\ output' = output \o u
  BY DEF SM!EmitGroups, SM!Merging, SM!EmitRows, GroupPairs, LeftEnd, RightEnd
<1>2. /\ MergeTypeOK /\ output \in Seq(Nat \X Nat)
      /\ SortedInput(sorted_left, left) /\ SortedInput(sorted_right, right)
      /\ \A pair : pair \in Range(output) <=> Merged(pair)
      /\ \A p \in 1 .. n, q \in 1 .. m : LeftKeyAt(p) = RightKeyAt(q) => (p < l <=> q < r)
  BY <1>1 DEF MergeInv, MergeTypeOK, MergePhase, MergeOutput, CursorsAbreast
<1>3. /\ n \in Nat /\ m \in Nat
      /\ \A p \in 1 .. n : LeftKeyAt(p) \in Int /\ sorted_left[p] \in DOMAIN left
      /\ \A q \in 1 .. m : RightKeyAt(q) \in Int /\ sorted_right[q] \in DOMAIN right
      /\ \A p, x \in 1 .. n : p <= x => LeftKeyAt(p) <= LeftKeyAt(x)
  BY <1>1, MergeFacts
<1>4. /\ l \in 1 .. n /\ r \in 1 .. m
      /\ LeftEnd \in l + 1 .. n + 1 /\ RightEnd \in r + 1 .. m + 1
      /\ \A p \in l .. LeftEnd - 1 : LeftKeyAt(p) = LeftKeyAt(l)
      /\ \A q \in r .. RightEnd - 1 : RightKeyAt(q) = LeftKeyAt(l)
      /\ LeftKeyAt(l) = RightKeyAt(r)
  BY GroupsAtCursors
<1>5. /\ \A p, x \in 1 .. n : p < x => KeyBefore(left, sorted_left[p], sorted_left[x])
      /\ \A q, y \in 1 .. m : q < y => KeyBefore(right, sorted_right[q], sorted_right[y])
  <2>1. DOMAIN sorted_left = 1 .. n /\ DOMAIN sorted_right = 1 .. m
    BY <1>2, LenProperties DEF SortedInput
  <2> QED BY <1>2, <2>1 DEF SortedInput, KeyOrdered
<1>6. ASSUME NEW p \in 1 .. n, NEW q \in 1 .. m, LeftKeyAt(p) = RightKeyAt(q)
      PROVE  <<sorted_left[p], sorted_right[q]>> \in Matches
  BY <1>3, <1>6 DEF Matches, MatchesOf, LeftKeyAt, RightKeyAt
<1> HIDE DEF n, m, l, r
<1>7. /\ a \in Nat /\ w \in Nat \ {0} /\ l \in Nat \ {0} /\ r \in Nat \ {0}
      /\ l + a = LeftEnd /\ r + w = RightEnd /\ l + a - 1 <= n /\ r + w - 1 <= m
  BY <1>3, <1>4
<1> HIDE DEF a, w
<1>8. /\ \A p \in l .. l + a - 1 : p \in 1 .. n /\ LeftKeyAt(p) = LeftKeyAt(l)
      /\ \A q \in r .. r + w - 1 : q \in 1 .. m /\ RightKeyAt(q) = LeftKeyAt(l)
  BY <1>3, <1>4, <1>7
<1>9. ASSUME NEW p \in l .. l + a - 1, NEW x \in l .. l + a - 1,
             NEW q \in r .. r + w - 1, NEW y \in r .. r + w - 1,
             p < x \/ (p = x /\ q < y)
      PROVE  <<<<sorted_left[p], sorted_right[q]>>, <<sorted_left[x], sorted_right[y]>>>>
               \in OrderOfOutput
  <2> DEFINE first == <<sorted_left[p], sorted_right[q]>>
             second == <<sorted_left[x], sorted_right[y]>>
  <2>1. /\ p \in 1 .. n /\ x \in 1 .. n /\ q \in 1 .. m /\ y \in 1 .. m
        /\ LeftKeyAt(p) = LeftKeyAt(x) /\ RightKeyAt(q) = RightKeyAt(y)
        /\ LeftKeyAt(p) = RightKeyAt(q) /\ LeftKeyAt(x) = RightKeyAt(y)
    BY <1>8
  <2>2. first \in Matches /\ second \in Matches
    BY <1>6, <2>1
  <2>3. /\ first[1] = sorted_left[p] /\ first[2] = sorted_right[q]
        /\ second[1] = sorted_left[x] /\ second[2] = sorted_right[y]
    OBVIOUS
  <2>4. left[first[1]] = left[second[1]]
    BY <2>1, <2>3 DEF LeftKeyAt
  <2>5. LeftKeyAt(p) \in Int /\ RightKeyAt(q) \in Int
    BY <1>3, <2>1
  <2>6. p < x => sorted_left[p] < sorted_left[x]
    BY <1>5, <2>1, <2>5 DEF KeyBefore, LeftKeyAt
  <2>7. q < y => sorted_right[q] < sorted_right[y]
    BY <1>5, <2>1, <2>5 DEF KeyBefore, RightKeyAt
  <2>8. first[1] < second[1] \/ (first[1] = second[1] /\ first[2] < second[2])
    BY <1>9, <2>3, <2>6, <2>7
  <2> HIDE DEF first, second
  <2>9. Earlier3(left[first[1]], first[1], first[2], left[second[1]], second[1], second[2])
    BY <2>4, <2>8 DEF Earlier3
  <2>10. <<first, second>> \in OrderOfOutput
    BY <1>2, <2>2, <2>9, MergeOrderIs
  <2> QED BY <2>10 DEF first, second
<1>10. InOrder(u, OrderOfOutput)
  BY <1>7, <1>9, GroupPairsInOrder
<1>11. /\ u \in Seq(Nat \X Nat)
       /\ \A pair : pair \in Range(u) <=>
            \E p \in l .. l + a - 1 : \E q \in r .. r + w - 1 :
              pair = <<sorted_left[p], sorted_right[q]>>
  <2>1. /\ sorted_left \in Seq(Nat) /\ IsInjective(sorted_left) /\ Len(sorted_left) = n
        /\ sorted_right \in Seq(Nat) /\ IsInjective(sorted_right) /\ Len(sorted_right) = m
    BY <1>2 DEF SortedInput, n, m
  <2>2. l + a - 1 <= Len(sorted_left) /\ r + w - 1 <= Len(sorted_right)
    BY <1>7, <2>1
  <2>3. /\ u \in Seq(Nat \X Nat)
        /\ \A pair : pair \in Range(u) <=>
             PairOfGroups(pair, sorted_left, sorted_right, l, r, a, w)
    BY <1>7, <2>1, <2>2, EachPairOfGroups
  <2> QED BY <2>3 DEF PairOfGroups
<1> HIDE DEF u
<1>12. ASSUME NEW x \in Range(output), NEW y \in Range(u)
       PROVE  <<x, y>> \in OrderOfOutput
  <2>1. PICK p \in 1 .. l - 1, q \in 1 .. r - 1 :
          LeftKeyAt(p) = RightKeyAt(q) /\ x = <<sorted_left[p], sorted_right[q]>>
    BY <1>2 DEF Merged, l, r
  <2>2. PICK g \in l .. l + a - 1, h \in r .. r + w - 1 : y = <<sorted_left[g], sorted_right[h]>>
    BY <1>11
  <2>3. /\ p \in 1 .. n /\ q \in 1 .. m /\ p < l /\ p <= l
        /\ g \in 1 .. n /\ h \in 1 .. m /\ LeftKeyAt(g) = LeftKeyAt(l) /\ RightKeyAt(h) = LeftKeyAt(l)
    BY <1>3, <1>4, <1>8
  <2>4. x \in Matches /\ y \in Matches
    BY <1>6, <2>1, <2>2, <2>3
  <2>5. LeftKeyAt(p) < LeftKeyAt(l)
    <3>1. LeftKeyAt(p) # RightKeyAt(r)
      <4>1. ~(r < r)
        BY <1>7
      <4> QED BY <1>2, <1>4, <2>3, <4>1 DEF n, m
    <3>2. LeftKeyAt(p) <= LeftKeyAt(l) /\ LeftKeyAt(p) \in Int /\ LeftKeyAt(l) \in Int
      BY <1>3, <1>4, <2>3
    <3> QED BY <1>4, <3>1, <3>2
  <2>6. x[1] = sorted_left[p] /\ y[1] = sorted_left[g]
    BY <2>1, <2>2
  <2>7. left[x[1]] < left[y[1]]
    BY <2>3, <2>5, <2>6 DEF LeftKeyAt
  <2>8. Earlier3(left[x[1]], x[1], x[2], left[y[1]], y[1], y[2])
    BY <2>7 DEF Earlier3
  <2> QED BY <1>2, <2>4, <2>8, MergeOrderIs
<1> QED BY <1>1, <1>2, <1>10, <1>11, <1>12, ConcatInOrder

LEMMA StepKeepsMergeResult ==
  ASSUME MergeResultInv, [Next]_vars
  PROVE  MergeResultInv'
<1>1. MergeInv /\ InOrder(output, OrderOfOutput) /\ MergeEnds /\ operation = "sort_merge_join"
  BY DEF MergeResultInv, MergeInv, MergeTypeOK
<1>2. MergeInv' /\ JoinEnds'
  BY <1>1, StepKeepsMergeInv, StepOfMergeRefines, AbstractStepEnds DEF MergeEnds
<1>3. CASE Next
  <2>1. SM!Next /\ operation' = operation /\ hash' = hash
    BY <1>1, <1>3, StepOfMergeJoin DEF Next, NestedLoops, ownHash
  <2>2. UNCHANGED <<left, right, reversed>>
    BY <2>1 DEF SM!Next, SM!SortLeft, SM!SortRight, SM!AdvanceLeft, SM!AdvanceRight,
                SM!EmitGroups, SM!Finish, SM!Returned, SM!vars, SM!joinVars,
                SM!RaiseKeyError, SM!EmitRows, SM!Return
  <2>3. /\ OrderOfOutput' = OrderOfOutput
        /\ SM!LeftRefFits' = SM!LeftRefFits /\ SM!RightRefFits' = SM!RightRefFits
    BY <2>1, <2>2, MergeConstants
  <2>4. InOrder(output', OrderOfOutput)
    <3>1. CASE SM!EmitGroups
      BY <1>1, <2>1, <3>1, EmitGroupsKeepsOrder
    <3>2. CASE ~SM!EmitGroups
      <4>1. UNCHANGED output
        BY <2>1, <3>2 DEF SM!Next, SM!SortLeft, SM!SortRight, SM!AdvanceLeft, SM!AdvanceRight,
                SM!Finish, SM!Returned, SM!vars, SM!joinVars, SM!RaiseKeyError, SM!Return
      <4> QED BY <1>1, <4>1
    <3> QED BY <3>1, <3>2
  <2>5. /\ next' # "sort left" => left = <<>> \/ SM!LeftRefFits
        /\ next' = "merge" => right = <<>> \/ SM!RightRefFits
        /\ status' = "done" => next' = "merge"
    BY <1>1, <2>1
       DEF MergeEnds, SM!Next, SM!SortLeft, SM!SortRight, SM!AdvanceLeft, SM!AdvanceRight,
           SM!EmitGroups, SM!Finish, SM!Returned, SM!vars, SM!joinVars, SM!mergeVars,
           SM!RaiseKeyError, SM!EmitRows, SM!Return, SM!Merging
  <2>6. MergeEnds'
    BY <1>2, <2>2, <2>3, <2>5 DEF MergeEnds
  <2> QED BY <1>2, <2>3, <2>4, <2>6 DEF MergeResultInv
<1>4. CASE UNCHANGED vars
  <2>1. UNCHANGED <<operation, left, right, reversed, hash, output, next, status>>
    BY <1>4 DEF vars, joinVars, ownHash
  <2>2. /\ OrderOfOutput' = OrderOfOutput
        /\ SM!LeftRefFits' = SM!LeftRefFits /\ SM!RightRefFits' = SM!RightRefFits
    BY <2>1, MergeConstants
  <2>3. MergeEnds'
    BY <1>1, <1>2, <2>1, <2>2 DEF MergeEnds
  <2> QED BY <1>1, <1>2, <2>1, <2>2, <2>3 DEF MergeResultInv
<1> QED BY <1>3, <1>4

(* There is one list of the matches in this order, and the merge makes it. *)
LEMMA MergeEndsAsResult ==
  ASSUME MergeResultInv, status # "running"
  PROVE  /\ operation = "sort_merge_join" /\ status \in {"done", "KeyError"}
         /\ (status = "KeyError") <=> JoinFails(operation, reversed, left, right)
         /\ status = "done" => output = JoinOutput(operation, left, right, hash)
<1>1. /\ MergeTypeOK /\ operation = "sort_merge_join" /\ status \in {"done", "KeyError"}
      /\ output \in Seq(Nat \X Nat)
      /\ MergeEnds /\ JoinEnds /\ InOrder(output, OrderOfOutput)
  BY DEF MergeResultInv, MergeInv, MergeTypeOK, MergeEnds, JoinEnds
<1>2. status = "KeyError" => JoinFails(operation, reversed, left, right)
  BY <1>1 DEF JoinEnds, JoinFails
<1>3. ASSUME status = "done"  PROVE ~JoinFails(operation, reversed, left, right)
  <2> SUFFICES ASSUME reversed, (left = <<>>) # (right = <<>>)  PROVE FALSE
    BY DEF JoinFails
  <2>1. SM!OrientedJoinRefs[1] = "right" /\ SM!OrientedJoinRefs[2] = "left"
    BY DEF SM!OrientedJoinRefs, SM!ConditionSides
  <2>2. ~SM!LeftRefFits /\ ~SM!RightRefFits
    BY <2>1 DEF SM!LeftRefFits, SM!RightRefFits
  <2> QED BY <1>1, <1>3, <2>2 DEF MergeEnds
<1>4. IsTotalOrder(OrderOfOutput, Matches)
  <2> DEFINE f == [p \in Matches |-> left[p[1]]]
             g == [p \in Matches |-> p[1]]
             h == [p \in Matches |-> p[2]]
  <2>1. f \in [Matches -> Int] /\ g \in [Matches -> Int] /\ h \in [Matches -> Int]
    BY <1>1, MergeOrderIs
  <2>2. \A p, q \in Matches : f[p] = f[q] /\ g[p] = g[q] /\ h[p] = h[q] => p = q
    <3> SUFFICES ASSUME NEW p \in Matches, NEW q \in Matches, p[1] = q[1], p[2] = q[2]
                 PROVE  p = q
      OBVIOUS
    <3>1. p = <<p[1], p[2]>> /\ q = <<q[1], q[2]>>
      BY <1>1, MergeOrderIs
    <3> QED BY <3>1
  <2>3. \A p, q \in Matches :
          <<p, q>> \in OrderOfOutput <=> Earlier3(f[p], g[p], h[p], f[q], g[q], h[q])
    BY <1>1, MergeOrderIs
  <2> HIDE DEF f, g, h
  <2> QED BY <2>1, <2>2, <2>3, RanksAreTotal
<1>5. ASSUME status = "done"
      PROVE  output = JoinOutput(operation, left, right, hash)
  <2>1. Range(output) = Matches
    BY <1>1, <1>5 DEF JoinEnds
  <2>2. output = Arranged(Matches, OrderOfOutput)
    BY <1>1, <1>4, <2>1, InOrderIsArranged
  <2> QED BY <2>2 DEF JoinOutput, OrderOfOutput, Matches
<1> QED BY <1>1, <1>2, <1>3, <1>5

(* Every join ends with the rows, in the order, that JoinResult computes   *)
(* from its inputs at once, or with the exception it has there: what the   *)
(* executor above works with is what the algorithms do, whatever their     *)
(* inputs, frames and hash function.                                       *)
THEOREM EveryJoinEndsAsResult == Spec => []EndsWithJoinResult
<1> DEFINE Inv ==
      /\ operation \in NestedLoops => LoopInv /\ LoopOrdered
      /\ operation = "hash_join" => HashResultInv
      /\ operation = "sort_merge_join" => MergeResultInv
<1>1. Init => Inv
  BY InitLoopInv, InitLoopOrdered, InitHashResult, InitMergeResult
<1>2. [Next]_vars => operation' = operation
  BY DEF Next, vars, NL!Next, NL!Compare, NL!Finish, NL!Returned, NL!vars
<1>3. Inv /\ [Next]_vars => Inv'
  BY <1>2, StepKeepsLoopInv, StepKeepsLoopOrdered, StepKeepsHashResult, StepKeepsMergeResult
<1>4. Inv => EndsWithJoinResult
  <2> SUFFICES ASSUME Inv, operation \in Joins, status # "running"
               PROVE  /\ (status = "KeyError") = JoinFails(operation, reversed, left, right)
                      /\ status = "done" =>
                           output = IF operation = "hash_join"
                                    THEN HJ!JoinOutput(operation, left, right, hash)
                                    ELSE JoinOutput(operation, left, right, hash)
    BY DEF EndsWithJoinResult
  <2>1. \/ operation \in NestedLoops
        \/ operation = "hash_join"
        \/ operation = "sort_merge_join"
    BY DEF Joins
  <2>2. JoinFails(operation, reversed, left, right) \in BOOLEAN
    BY DEF JoinFails
  <2>3. CASE operation \in NestedLoops
    <3>1. operation # "hash_join"
      BY <2>3 DEF NestedLoops
    <3>2. /\ status = "done" /\ ~JoinFails(operation, reversed, left, right)
          /\ output = JoinOutput(operation, left, right, hash)
      BY <2>3, LoopsEndAsResult
    <3> QED BY <2>2, <3>1, <3>2
  <2>4. CASE operation = "hash_join"
    <3>1. /\ (status = "KeyError") <=> JoinFails(operation, reversed, left, right)
          /\ status = "done" => output = HJ!JoinOutput(operation, left, right, hash)
      BY <2>4, HashJoinEndsAsResult
    <3> QED BY <2>2, <2>4, <3>1
  <2>5. CASE operation = "sort_merge_join"
    <3>1. /\ (status = "KeyError") <=> JoinFails(operation, reversed, left, right)
          /\ status = "done" => output = JoinOutput(operation, left, right, hash)
      BY <2>5, MergeEndsAsResult
    <3>2. operation # "hash_join"
      BY <2>5
    <3> QED BY <2>2, <3>1, <3>2
  <2> QED BY <2>1, <2>3, <2>4, <2>5
<1> QED BY <1>1, <1>3, <1>4, PTL DEF Spec
=============================================================================
