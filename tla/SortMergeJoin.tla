---------------------------- MODULE SortMergeJoin ----------------------------
(***************************************************************************)
(* The sort-merge join.  Sorting an input is one step here, a stable sort  *)
(* of the row positions by their keys; ExternalSort has the steps in it.   *)
(***************************************************************************)
EXTENDS JoinInputs, RowOrder

VARIABLES
  next,                            (* "sort left", "sort right", "merge".  *)
  sorted_left, sorted_right,       (* Positions of rows in key order.      *)
  left_position, right_position    (* The cursors of the merge.            *)

mergeVars == <<next, sorted_left, sorted_right, left_position, right_position>>
vars == <<joinVars, mergeVars>>

MergeInit ==
  /\ next = "sort left"
  /\ sorted_left = <<>>
  /\ sorted_right = <<>>
  /\ left_position = 1
  /\ right_position = 1

\* Mutant: equal keys in any order, here the reverse one.
SortedPositionsUnstable(keys) ==
  Arranged(DOMAIN keys, {pair \in (DOMAIN keys) \X (DOMAIN keys) :
    \/ keys[pair[1]] < keys[pair[2]]
    \/ keys[pair[1]] = keys[pair[2]] /\ pair[1] > pair[2]})

(* The positions of rows with these keys, in key order and otherwise as    *)
(* they were.                                                              *)
SortedPositions(keys) == Sorted(keys, DOMAIN keys)

(* Sorting evaluates the key of every row, of a single one, too.           *)
SortLeft ==
  /\ status = "running" /\ next = "sort left"
  /\ IF left = <<>> \/ LeftRefFits
     THEN /\ next' = "sort right"
          /\ sorted_left' = SortedPositions(left)
          /\ UNCHANGED <<joinVars, sorted_right, left_position, right_position>>
     ELSE RaiseKeyError /\ UNCHANGED mergeVars

SortRight ==
  /\ status = "running" /\ next = "sort right"
  /\ IF right = <<>> \/ RightRefFits
     THEN /\ next' = "merge"
          /\ sorted_right' = SortedPositions(right)
          /\ UNCHANGED <<joinVars, sorted_left, left_position, right_position>>
     ELSE RaiseKeyError /\ UNCHANGED mergeVars

-----------------------------------------------------------------------------
LeftKeys == [p \in DOMAIN sorted_left |-> left[sorted_left[p]]]
RightKeys == [p \in DOMAIN sorted_right |-> right[sorted_right[p]]]

Merging ==
  /\ status = "running" /\ next = "merge"
  /\ left_position <= Len(left)
  /\ right_position <= Len(right)

AdvanceLeft ==
  /\ Merging
  /\ LeftKeys[left_position] < RightKeys[right_position]
  /\ left_position' = left_position + 1
  /\ UNCHANGED <<joinVars, next, sorted_left, sorted_right, right_position>>

AdvanceRight ==
  /\ Merging
  /\ LeftKeys[left_position] > RightKeys[right_position]
  /\ right_position' = right_position + 1
  /\ UNCHANGED <<joinVars, next, sorted_left, sorted_right, left_position>>

\* Mutants: groups of one row, and a group that ends where it starts.
GroupEndAfterOne(keys, from) == from + 1
GroupEndAtFrom(keys, from) == from

(* The first position after the rows of the key at a position.             *)
GroupEnd(keys, from) ==
  CHOOSE end \in from .. Len(keys) + 1 :
    /\ \A p \in from .. end - 1 : keys[p] = keys[from]
    /\ end <= Len(keys) => keys[end] # keys[from]

(* Equal keys: every combination of the two groups, left rows outermost.   *)
EmitGroups ==
  LET left_end == GroupEnd(LeftKeys, left_position)
      right_end == GroupEnd(RightKeys, right_position)
      width == right_end - right_position
  IN  /\ Merging
      /\ LeftKeys[left_position] = RightKeys[right_position]
      /\ EmitRows([n \in 1 .. (left_end - left_position) * width |->
                    <<sorted_left[left_position + ((n-1) \div width)],
                      sorted_right[right_position + ((n-1) % width)]>>])
      /\ left_position' = left_end
      /\ right_position' = right_end
      /\ UNCHANGED <<next, sorted_left, sorted_right>>

Finish ==
  /\ status = "running" /\ next = "merge"
  /\ left_position > Len(left) \/ right_position > Len(right)
  /\ Return
  /\ UNCHANGED mergeVars

Returned == status # "running" /\ UNCHANGED vars

Next ==
  \/ SortLeft \/ SortRight
  \/ AdvanceLeft \/ AdvanceRight \/ EmitGroups
  \/ Finish
  \/ Returned

Spec == JoinInit /\ MergeInit /\ [][Next]_vars

-----------------------------------------------------------------------------
(* Whatever a cursor has passed has met all its partners: the pairs out so *)
(* far are the matches of the left rows passed, and of the right rows      *)
(* passed.                                                                 *)
CursorsPassNoMatch ==
  next = "merge" =>
    /\ Range(output) = {m \in Matches : \E p \in 1 .. left_position - 1 : m[1] = sorted_left[p]}
    /\ Range(output) = {m \in Matches : \E p \in 1 .. right_position - 1 : m[2] = sorted_right[p]}

(* README.md: "The result is the same for every valid physical plan."      *)
SameResultAsEveryPlan == status # "running" => Range(output) = Matches /\ status = "done"
=============================================================================
