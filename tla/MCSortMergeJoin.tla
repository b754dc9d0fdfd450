--------------------------- MODULE MCSortMergeJoin ---------------------------
(* Inputs of up to four rows with three keys, in any order: groups of up to *)
(* four rows on both sides, before, between and after unmatched keys.       *)
EXTENDS SortMergeJoin

MCInputs == SeqOf({1, 2, 3}, 4)
=============================================================================
