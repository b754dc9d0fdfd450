----------------------------- MODULE JoinInputs -----------------------------
(***************************************************************************)
(* What the join operators of querylab/executor/evaluator.py have in       *)
(* common.  A row is its position in the input, and an input is the        *)
(* sequence of the join keys of its rows.  An output row is the pair of    *)
(* the positions of the two rows merged.                                   *)
(***************************************************************************)
EXTENDS JoinResult

CONSTANT Inputs      (* The key sequences a join may be given.             *)

ASSUME InputsAssumption == \A keys \in Inputs : keys \in Seq(Range(keys))

VARIABLES
  left, right,       (* The rows of the two children.                      *)
  reversed,          (* join_condition.left is a column of the right child.*)
  output,
  status             (* "running", "done" or "KeyError".                   *)

joinVars == <<left, right, reversed, output, status>>

JoinInit ==
  /\ left \in Inputs
  /\ right \in Inputs
  /\ reversed \in BOOLEAN
  /\ output = <<>>
  /\ status = "running"

Matches == MatchesOf(left, right)

-----------------------------------------------------------------------------
(* The child each side of the join condition is a column of.               *)
ConditionSides == IF reversed THEN <<"right", "left">> ELSE <<"left", "right">>

(* _oriented_join_refs looks for the left column in the first left row,    *)
(* and returns the condition as written when an input has no row.          *)
OrientedJoinRefs ==
  IF left = <<>> \/ right = <<>> \/ ConditionSides[1] = "left"
  THEN ConditionSides
  ELSE Reverse(ConditionSides)

(* A row has the column a reference names only if it is of that child.     *)
LeftRefFits == OrientedJoinRefs[1] = "left"
RightRefFits == OrientedJoinRefs[2] = "right"

RaiseKeyError == status' = "KeyError" /\ UNCHANGED <<left, right, reversed, output>>

Return == status' = "done" /\ UNCHANGED <<left, right, reversed, output>>

EmitRows(pairs) ==
  /\ output' = output \o pairs
  /\ UNCHANGED <<left, right, reversed, status>>
=============================================================================
