----------------------------- MODULE MCCatalog ------------------------------
(* Tables of one column.  The last batch passes the check of its first row  *)
(* and leaves a table no statistics can be computed of.                     *)
EXTENDS Catalog

Row(k) == "k" :> k

MCPageTarget == [t \in TableNames |-> IF t = "fixed" THEN 2 ELSE 0]
MCInitialRows == {<<>>, <<Row(1)>>}
MCBatches == {<<Row(2), Row(2)>>, <<Row(1), "v" :> 1>>}

(* Another run had more rows in one table, other columns in one, and one    *)
(* that does not exist here.                                                *)
MCOtherDatabases ==
  {"sized" :> NewTable([i \in 1 .. MaxRows + 1 |-> Row(i)], 0)
     @@ "fixed" :> NewTable(<<"v" :> 1>>, 2) @@ "dropped" :> NewTable(<<Row(1)>>, 0)}

(* One table that grows over a page boundary.                               *)
GrowingRows == {<<Row(1), Row(2)>>}
GrowingBatches == {<<Row(1), Row(2)>>}
=============================================================================
