-------------------------- MODULE PhysicalOperators --------------------------
(***************************************************************************)
(* The physical operators of the executor side by side: a behavior is one  *)
(* of the four joins on two inputs, or an external sort, from its call to  *)
(* its return.  The variables only other operators use do not move.        *)
(***************************************************************************)
EXTENDS JoinInputs

CONSTANTS
  InputsOf,          (* For each join, the key sequences it is tried on.   *)
  SortInputs,        (* The calls of external_merge_sort.                  *)
  HashFrames,        (* BufferFrames of the hash join.                     *)
  Hashes

ASSUME HashFramesAssumption == HashFrames \in Nat \ {0}

(* A hash in the model is hash() cut to what the partitioning can see.     *)
ASSUME HashesAssumption ==
  \A h \in Hashes : \A rows \in InputsOf["hash_join"] : \A k \in Range(rows) : h[k] \in Nat

(* The sort-merge join and the sort compare keys, one column's values.     *)
ASSUME MergeInputsAssumption == InputsOf["sort_merge_join"] \subseteq Seq(Int)
ASSUME SortInputsAssumption ==
  \A input \in SortInputs :
    /\ input.keys \in Seq(Int)
    /\ input.buffer_frames \in Nat \ {0}
    /\ input.tuples_per_page \in Nat \ {0}

VARIABLES
  operation,
  block_start, left_offset, inner_scans,
  hash, build_partitions, probe_partitions, partition, position, hash_table,
  sorted_left, sorted_right, left_position,
  keys, buffer_frames, tuples_per_page, phase, runs, next_runs, start, cursor,
  merged, merge_pass,
  right_position,    (* Of the nested loops and of the merge join.         *)
  next,              (* Of the hash join and of the merge join.            *)
  page_writes, page_requests             (* Of the hash join and the sort. *)

NL == INSTANCE NestedLoopJoin
HJ == INSTANCE HashJoin WITH BufferFrames <- HashFrames
SM == INSTANCE SortMergeJoin
ES == INSTANCE ExternalSort

ownLoops == <<block_start, left_offset, inner_scans>>
ownHash == <<hash, build_partitions, probe_partitions, partition, position, hash_table>>
ownMerge == <<sorted_left, sorted_right, left_position>>
ownSort == <<keys, buffer_frames, tuples_per_page, phase, runs, next_runs, start,
             cursor, merged, merge_pass>>
vars == <<joinVars, operation, ownLoops, ownHash, ownMerge, ownSort,
          right_position, next, page_writes, page_requests>>

-----------------------------------------------------------------------------
NestedLoops == {"nested_loop_join", "block_nested_loop_join"}
Joins == NestedLoops \cup {"hash_join", "sort_merge_join"}

IdleLoops == block_start = 0 /\ left_offset = 1 /\ inner_scans = 0
IdleHash ==
  /\ hash = <<>> /\ hash_table = <<>>
  /\ build_partitions = <<>> /\ probe_partitions = <<>>
  /\ partition = 1 /\ position = 1
IdleMerge == sorted_left = <<>> /\ sorted_right = <<>> /\ left_position = 1
IdleSort ==
  /\ keys = <<>> /\ buffer_frames = 1 /\ tuples_per_page = 1
  /\ phase = "start" /\ start = 0 /\ merge_pass = 0
  /\ runs = <<>> /\ next_runs = <<>> /\ cursor = <<>> /\ merged = <<>>
IdleCounters == page_writes = 0 /\ page_requests = 0

(* _execute calls the operator the node names on the rows of its children; *)
(* the sort-merge join calls external_merge_sort for each of them.         *)
Init ==
  \/ /\ operation \in Joins
     /\ left \in InputsOf[operation]
     /\ right \in InputsOf[operation]
     /\ JoinInit
     /\ IdleSort
     /\ \/ /\ operation \in NestedLoops
           /\ NL!LoopInit /\ IdleHash /\ IdleMerge
           /\ next = "" /\ IdleCounters
        \/ /\ operation = "hash_join"
           /\ HJ!HashInit /\ IdleLoops /\ IdleMerge
           /\ right_position = 1
        \/ /\ operation = "sort_merge_join"
           /\ SM!MergeInit /\ IdleLoops /\ IdleHash
           /\ IdleCounters
  \/ /\ operation = "external_merge_sort"
     /\ \E input \in SortInputs : ES!SortInit(input)
     /\ left = <<>> /\ right = <<>> /\ reversed = FALSE
     /\ JoinInit
     /\ IdleLoops /\ IdleHash /\ IdleMerge
     /\ right_position = 1 /\ next = ""

Next ==
  \/ /\ operation \in NestedLoops
     /\ NL!Next
     /\ UNCHANGED <<ownHash, ownMerge, ownSort, next, page_writes, page_requests>>
  \/ /\ operation = "hash_join"
     /\ HJ!Next
     /\ UNCHANGED <<operation, ownLoops, ownMerge, ownSort, right_position>>
  \/ /\ operation = "sort_merge_join"
     /\ SM!Next
     /\ UNCHANGED <<operation, ownLoops, ownHash, ownSort, page_writes, page_requests>>
  \/ /\ operation = "external_merge_sort"
     /\ ES!Next
     /\ UNCHANGED <<operation, joinVars, ownLoops, ownHash, ownMerge, right_position, next>>

(* A call is a loop of one thread: it takes its next step if it has one.   *)
Spec == Init /\ [][Next]_vars /\ WF_vars(Next)

-----------------------------------------------------------------------------
(* The joins, whatever their algorithm, implement the abstract equi-join.  *)
EJ == INSTANCE EquiJoin
ImplementsEquiJoin == EJ!Spec

(* What JoinResult says of the joins is what their algorithms end with:    *)
(* whether they fail, and the order of their output, which is no part of   *)
(* what a join promises but decides every row order above it: left rows by *)
(* blocks, probe rows by partitions, or groups by key.                     *)
EndsWithJoinResult ==
  operation \in Joins /\ status # "running" =>
    /\ (status = "KeyError") = JoinFails(operation, reversed, left, right)
    /\ status = "done" =>
         output = IF operation = "hash_join" THEN HJ!JoinOutput(operation, left, right, hash)
                                             ELSE JoinOutput(operation, left, right, hash)

(* The executor reads the inner child as often as the estimator predicts   *)
(* for as many left rows: one rounds rows to blocks, the other rows to     *)
(* pages and pages to passes.                                              *)
ScansAsEstimated == operation \in NestedLoops => NL!ScansAsEstimated

(* Rows of equal keys meet in one partition: see HashJoin.                 *)
PartnersShareAPartition == operation = "hash_join" => HJ!PartnersShareAPartition

(* Temporary pages of the hash join beside the estimate: see HashJoin.     *)
SpillCloseToEstimate == operation = "hash_join" => HJ!SpillCloseToEstimate

(* No cursor of the merge passes a row with a partner to come: see         *)
(* SortMergeJoin.                                                          *)
CursorsPassNoMatch == operation = "sort_merge_join" => SM!CursorsPassNoMatch

(* The runs between the merges, and the result of all passes: see          *)
(* ExternalSort.                                                           *)
RunsAreSortedSlices == operation = "external_merge_sort" => ES!RunsAreSortedSlices
ResultIsStableSort == operation = "external_merge_sort" => ES!ResultIsStableSort

(* Temporary pages of the sort beside the estimate: see ExternalSort.      *)
SortIOAsEstimated == operation = "external_merge_sort" => ES!SortIOAsEstimated

(* A call ends, with its rows or with an exception: the merge loop moves a *)
(* cursor in every round, and every pass over the runs leaves fewer.       *)
EveryOperatorReturns == <>(status # "running" \/ phase = "done")
=============================================================================
