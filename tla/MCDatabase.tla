----------------------------- MODULE MCDatabase ------------------------------
(* Two tables, one with a fixed page count and one with a fixed page size,  *)
(* rows of two columns, and batches of up to two rows.  One batch of        *)
(* another layout is there to be refused, and one to pass the check of its  *)
(* first row and leave an index behind.                                     *)
EXTENDS Database

Row(k, v) == "k" :> k @@ "v" :> v
TwoRows == {Row(1, 1), Row(2, 1)}

MCPageTarget == [t \in TableNames |-> IF t = "fixed" THEN 2 ELSE 0]
MCInitialRows == {<<Row(1, 1)>>, <<Row(2, 2), Row(1, 1)>>}
MCBatches == {<<"k" :> 1>>, <<Row(1, 1), "k" :> 1>>} \cup SeqOf(TwoRows, 2)

(* Batches the check of the first row lets through.                         *)
RaggedBatches == {<<Row(1, 1), "k" :> 1>>, <<Row(2, 1)>>}
=============================================================================
