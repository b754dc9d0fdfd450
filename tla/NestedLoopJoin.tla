--------------------------- MODULE NestedLoopJoin ---------------------------
(***************************************************************************)
(* The two nested loop joins, one comparison a step.                       *)
(***************************************************************************)
EXTENDS JoinInputs

VARIABLES
  operation,         (* Which of the two joins it is.                      *)
  block_start,       (* Rows before the block.                             *)
  right_position, left_offset,
  inner_scans        (* Passes over the pages of the right child: one for  *)
                     (* reading its rows, the others by                    *)
                     (* _rescan_leaf_pages.                                *)

loopVars == <<block_start, right_position, left_offset, inner_scans>>
vars == <<joinVars, operation, loopVars>>

LoopInit ==
  /\ block_start = 0
  /\ right_position = 1
  /\ left_offset = 1
  /\ inner_scans = 1

BlockRows == RowsPerBlock(operation)

BlockEnd == IF block_start + BlockRows <= Len(left) THEN block_start + BlockRows
                                                    ELSE Len(left)

\* Mutant: the right rows are not started over for the next block.
NextBlockFromLastRow ==
  /\ left_offset' = 1
  /\ block_start' = block_start + BlockRows
  /\ UNCHANGED right_position

(* The next pair of the three loops: the block is innermost.               *)
NextRowOfBlock ==
  /\ left_offset' = left_offset + 1
  /\ UNCHANGED <<block_start, right_position>>

NextRightRow ==
  /\ left_offset' = 1
  /\ right_position' = right_position + 1
  /\ UNCHANGED block_start

NextBlock ==
  /\ left_offset' = 1
  /\ right_position' = 1
  /\ block_start' = block_start + BlockRows

(* _join_keys_match orients the condition for each pair of rows, so that   *)
(* comparing fails for no condition.                                       *)
Compare ==
  LET i == block_start + left_offset
      j == right_position
  IN  /\ status = "running"
      /\ i <= BlockEnd
      /\ j <= Len(right)
      /\ EmitRows(IF left[i] = right[j] THEN <<<<i, j>>>> ELSE <<>>)
      /\ \/ i < BlockEnd /\ NextRowOfBlock
         \/ i = BlockEnd /\ j < Len(right) /\ NextRightRow
         \/ i = BlockEnd /\ j = Len(right) /\ NextBlock
      /\ UNCHANGED <<operation, inner_scans>>

(* No block or no right row is left: the rescans are metered.              *)
Finish ==
  /\ status = "running"
  /\ block_start >= Len(left) \/ right = <<>>
  /\ inner_scans' = inner_scans + Rescans(operation, left)
  /\ Return
  /\ UNCHANGED <<operation, block_start, right_position, left_offset>>

Returned == status # "running" /\ UNCHANGED vars

Next == Compare \/ Finish \/ Returned

-----------------------------------------------------------------------------
(* estimate of cost_estimator.py: reads of the inner child after the first.*)
EstimatedRescans ==
  IF operation = "nested_loop_join"
  THEN AtLeast(0, Len(left) - 1)
  ELSE CeilDiv(AtLeastOne(PagesOf(left)), UsableFrames) - 1

(* The executor reads the inner child as often as the estimator predicts   *)
(* for as many left rows: one rounds rows to blocks, the other rows to     *)
(* pages and pages to passes.                                              *)
ScansAsEstimated == status = "done" => inner_scans = 1 + EstimatedRescans
=============================================================================
