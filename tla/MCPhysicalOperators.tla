------------------------- MODULE MCPhysicalOperators -------------------------
(***************************************************************************)
(* Nested loops: up to five rows of two keys, blocks of two pages of two   *)
(* rows, so that a block is full, short, the first of two or missing.      *)
(* Hash joins: the same rows with three frames, where a build side of more *)
(* than one page spills into two or three partitions whose last pages are  *)
(* full, half full or missing; keys collide in all counts, one or none.    *)
(* Merge joins: up to four rows of three keys, groups of up to four rows   *)
(* on both sides before, between and after unmatched keys.                 *)
(* Sorts: for the order of rows, two frames of one row and up to seven     *)
(* rows of three keys, four runs in two passes; for the I/O, where keys    *)
(* have no part, up to forty pages of two rows with four frames, ten runs  *)
(* merged three at a time in three passes.                                 *)
(***************************************************************************)
EXTENDS PhysicalOperators

CONSTANTS MaxRows, MaxSorted, MaxPages

MCInputsOf ==
  [join \in Joins |-> IF join = "sort_merge_join" THEN SeqOf({1, 2, 3}, MaxRows - 1)
                                                  ELSE SeqOf({1, 2}, MaxRows)]
MCInputs == UNION {MCInputsOf[join] : join \in Joins}

MCHashes == {<<0, 0>>, <<3, 5>>, <<0, 1>>}

MCSortInputs ==
  {[keys |-> k, buffer_frames |-> 2, tuples_per_page |-> 1] : k \in SeqOf({1, 2, 3}, MaxSorted)}
  \cup {[keys |-> [i \in 1 .. n |-> 1], buffer_frames |-> 4, tuples_per_page |-> 2] :
          n \in 0 .. 2 * MaxPages}
=============================================================================
