----------------------------- MODULE JoinResult -----------------------------
(***************************************************************************)
(* What a physical join returns and how it cuts its inputs, as expressions *)
(* over the join keys of the two inputs: the algorithms of                 *)
(* querylab/executor/evaluator.py emit the same pairs in different orders. *)
(***************************************************************************)
EXTENDS PageArithmetic, RowOrder, Sequences, FiniteSets, SequencesExt

CONSTANTS
  BufferFrames,      (* buffer_frames of the evaluator.                    *)
  TuplesPerPage      (* tuples_per_page of the evaluator.                  *)

ASSUME EvaluatorAssumption ==
  /\ BufferFrames \in Nat \ {0}
  /\ TuplesPerPage \in Nat \ {0}

PagesOf(rows) == CeilDiv(Len(rows), TuplesPerPage)

(* max(1, self.buffer_frames - 2): the frames left for one of the inputs.  *)
UsableFrames == JoinFrames(BufferFrames)

(* nested_loop_join goes as block_nested_loop_join with blocks of one row. *)
RowsPerBlock(operation) ==
  IF operation = "nested_loop_join" THEN 1 ELSE UsableFrames * TuplesPerPage

Blocks(operation, left) == CeilDiv(Len(left), RowsPerBlock(operation))

\* Mutant: a rescan for every block.
RescansOfEveryBlock(operation, left) == Blocks(operation, left)

(* pass_count, the first pass being part of reading the rows.              *)
Rescans(operation, left) ==
  AtLeast(0, Blocks(operation, left) - 1)

(* The hash join builds on the smaller input, the left one of two equals,  *)
(* and partitions both when the build side needs more than its frames.     *)
BuildIsLeft(left, right) == Len(left) <= Len(right)
BuildRows(left, right) == IF BuildIsLeft(left, right) THEN left ELSE right

Spills(left, right) == PagesOf(BuildRows(left, right)) > UsableFrames

PartitionCount(left, right) ==
  LET needed == CeilDiv(PagesOf(BuildRows(left, right)), UsableFrames)
  IN  IF Spills(left, right) THEN AtLeast(2, needed) ELSE 1

PartitionOf(hash, key, left, right) == 1 + (hash[key] % PartitionCount(left, right))

-----------------------------------------------------------------------------
MatchesOf(left, right) ==
  {pair \in (DOMAIN left) \X (DOMAIN right) : left[pair[1]] = right[pair[2]]}

\* Mutant: the condition is never turned round.
JoinFailsUnoriented(operation, reversed, left, right) ==
  reversed /\ (left # <<>> \/ right # <<>>)

(* A hash or merge join fails if its condition names the right child first *)
(* and exactly one child has rows: see OrientedJoinRefs of JoinInputs.     *)
JoinFails(operation, reversed, left, right) ==
  /\ operation \in {"hash_join", "sort_merge_join"}
  /\ reversed
  /\ (left = <<>>) # (right = <<>>)

(* Where a pair comes in the output of an algorithm.                       *)
OutputRank(operation, left, right, hash, pair) ==
  LET i == pair[1]
      j == pair[2]
      partition == PartitionOf(hash, left[i], left, right)
  IN  CASE operation \in {"nested_loop_join", "block_nested_loop_join"} ->
             <<(i - 1) \div RowsPerBlock(operation), j, i>>
        [] operation = "hash_join" ->
             IF BuildIsLeft(left, right) THEN <<partition, j, i>> ELSE <<partition, i, j>>
        [] operation = "sort_merge_join" -> <<left[i], i, j>>

OutputOrder(operation, left, right, hash) ==
  {pair \in {<<p, q>> : p, q \in MatchesOf(left, right)} :
    RankBefore(OutputRank(operation, left, right, hash, pair[1]),
               OutputRank(operation, left, right, hash, pair[2]))}

JoinOutput(operation, left, right, hash) ==
  Arranged(MatchesOf(left, right), OutputOrder(operation, left, right, hash))
=============================================================================
