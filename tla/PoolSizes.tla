------------------------------ MODULE PoolSizes ------------------------------
(***************************************************************************)
(* One request stream served by two buffer pools that differ in            *)
(* frame_count only, as two runs of the command line with different        *)
(* --buffer-frames compare them, for a plan whose requests do not depend   *)
(* on the pool (every scan, index lookup and nested-loop rescan).  The     *)
(* larger pool is BufferPoolHistory's, with its history.                   *)
(***************************************************************************)
EXTENDS BufferPoolHistory

CONSTANT SmallFrameCount

ASSUME SizeAssumption ==
  /\ SmallFrameCount \in Nat \ {0}
  /\ SmallFrameCount <= FrameCount

VARIABLES smallFrames, smallCached, smallMetrics, smallReturned

smallVars == <<smallFrames, smallCached, smallMetrics, smallReturned>>

Small == INSTANCE BufferPool WITH FrameCount <- SmallFrameCount,
  frames <- smallFrames, cached <- smallCached,
  metrics <- smallMetrics, returned <- smallReturned

InitBoth == HInit /\ Small!Init

(* Both pools are asked for the same page, which storage holds once.       *)
FetchBoth(k, page) == HFetch(k, page) /\ Small!Fetch(k, page)

WriteBoth == HWrite /\ Small!WriteTemporaryPage

ClearBoth(reset) == HClear(reset) /\ Small!Clear(reset)

NextBoth ==
  \/ \E k \in PageKeys, page \in Pages : FetchBoth(k, page)
  \/ WriteBoth
  \/ \E reset \in BOOLEAN : ClearBoth(reset)

SpecBoth == InitBoth /\ [][NextBoth]_<<vars, history, smallVars>>

-----------------------------------------------------------------------------
(* The small pool holds the newest part of what the large pool holds, in   *)
(* the same order; and as long as it has a free frame the two are equal.   *)
SmallIsNewestPartOfLarge ==
  LET shift == Len(frames) - Len(smallFrames)
  IN  /\ shift >= 0
      /\ \A i \in 1 .. Len(smallFrames) : smallFrames[i] = frames[i + shift]
      /\ Len(smallFrames) < SmallFrameCount => shift = 0

(* More frames never cost more page reads: LRU has no Belady anomaly, with *)
(* temporary writes and clears in between.                                 *)
MoreFramesNeverReadMore ==
  /\ metrics.buffer_misses <= smallMetrics.buffer_misses
  /\ ActualIO(metrics) <= ActualIO(smallMetrics)
  /\ metrics.page_requests = smallMetrics.page_requests
=============================================================================
