----------------------------- MODULE MCBufferPool -----------------------------
(* Pools of two and of three frames asked for four keys: every order of six *)
(* requests, with evictions, hits on every position, and clears that keep   *)
(* or drop the counters in between.                                         *)
EXTENDS PoolSizes
=============================================================================
