----------------------------- MODULE BufferPool -----------------------------
(***************************************************************************)
(* The least-recently-used buffer pool of                                  *)
(* querylab/storage/buffer_pool.py: every page an operator asks for goes   *)
(* through fetch, and the counters the pool keeps are the actual I/O of    *)
(* the plan that ran on it.                                                *)
(*                                                                         *)
(* The OrderedDict _frames is a sequence of keys, least recently used      *)
(* first, and a function from the cached keys to the cached pages.         *)
(***************************************************************************)
EXTENDS Integers, Sequences, FiniteSets, SequencesExt

CONSTANTS
  PageKeys,      (* The page keys operators ask for.                       *)
  Pages,         (* What a loader may return for a key.                    *)
  FrameCount,    (* frame_count, the capacity of the pool.                 *)
  NoPage,        (* What the last call returned when it returned no page.  *)
  MaxRequests,   (* Bound on calls of fetch since the last reset.          *)
  MaxWrites      (* Bound on temporary page writes since the last reset.   *)

(* BufferPool.__init__ raises ValueError for a frame count below one. *)
ASSUME FrameCountAssumption == FrameCount \in Nat \ {0}
ASSUME BoundAssumption == MaxRequests \in Nat /\ MaxWrites \in Nat
ASSUME NoPageAssumption == NoPage \notin Pages

VARIABLES
  frames,        (* Keys of _frames in OrderedDict order.                  *)
  cached,        (* The page held for each key of frames.                  *)
  metrics,       (* IOMetrics of the pool.                                 *)
  returned       (* The page the last call of fetch returned.              *)

vars == <<frames, cached, metrics, returned>>

IOMetrics ==
  [page_requests : Nat, buffer_hits : Nat, buffer_misses : Nat, page_writes : Nat]

ZeroMetrics ==
  [page_requests |-> 0, buffer_hits |-> 0, buffer_misses |-> 0, page_writes |-> 0]

(* actual_io: a hit is free, a miss and a temporary write cost one each. *)
ActualIO(m) == m.buffer_misses + m.page_writes

Init ==
  /\ frames = <<>>
  /\ cached = <<>>
  /\ metrics = ZeroMetrics
  /\ returned = NoPage

(***************************************************************************)
(* The recency order.                                                      *)
(***************************************************************************)
PositionOf(k) == CHOOSE i \in DOMAIN frames : frames[i] = k

\* Mutant: the hit path without the pop, which leaves an OrderedDict as it is.
MoveToEndForgotten(k) == frames

(* frames.pop(k) followed by frames[k] = page: k becomes the newest key. *)
MoveToEnd(k) == Append(RemoveAt(frames, PositionOf(k)), k)

\* Mutants: popitem(last=True), clear() for popitem, and the test of a full
\* pool off by one either way.
AfterEvictionOfNewest ==
  IF Len(frames) >= FrameCount THEN Front(frames) ELSE frames
AfterEvictionOfAll == IF Len(frames) >= FrameCount THEN <<>> ELSE frames
AfterEvictionLate == IF Len(frames) > FrameCount THEN Tail(frames) ELSE frames
AfterEvictionEarly ==
  IF Len(frames) >= FrameCount - 1 THEN Tail(frames) ELSE frames

(* popitem(last=False) when every frame is taken, nothing otherwise. *)
AfterEviction == IF Len(frames) >= FrameCount THEN Tail(frames) ELSE frames

(***************************************************************************)
(* Operations.                                                             *)
(***************************************************************************)
Hit(k) ==
  /\ k \in Range(frames)
  /\ metrics' = [metrics EXCEPT !.page_requests = @ + 1, !.buffer_hits = @ + 1]
  /\ frames' = MoveToEnd(k)
  /\ returned' = cached[k]
  /\ UNCHANGED cached

Miss(k, page) ==
  /\ k \notin Range(frames)
  /\ metrics' = [metrics EXCEPT !.page_requests = @ + 1, !.buffer_misses = @ + 1]
  /\ frames' = Append(AfterEviction, k)
  /\ cached' = [x \in Range(frames') |-> IF x = k THEN page ELSE cached[x]]
  /\ returned' = page

(* fetch(page_key, loader): the loader's page is looked at on a miss only. *)
Fetch(k, page) ==
  /\ metrics.page_requests < MaxRequests
  /\ Hit(k) \/ Miss(k, page)

WriteTemporaryPage ==
  /\ metrics.page_writes < MaxWrites
  /\ metrics' = [metrics EXCEPT !.page_writes = @ + 1]
  /\ UNCHANGED <<frames, cached, returned>>

\* Mutant: clear replaces the counters and forgets the frames.
ClearMetricsOnly(resetMetrics) ==
  /\ metrics' = IF resetMetrics THEN ZeroMetrics ELSE metrics
  /\ UNCHANGED <<frames, cached, returned>>

Clear(resetMetrics) ==
  /\ frames' = <<>>
  /\ cached' = <<>>
  /\ metrics' = IF resetMetrics THEN ZeroMetrics ELSE metrics
  /\ UNCHANGED returned

Next ==
  \/ \E k \in PageKeys, page \in Pages : Fetch(k, page)
  \/ WriteTemporaryPage
  \/ \E reset \in BOOLEAN : Clear(reset)

Spec == Init /\ [][Next]_vars
=============================================================================
