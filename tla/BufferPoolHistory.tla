-------------------------- MODULE BufferPoolHistory --------------------------
(***************************************************************************)
(* The buffer pool with two history variables: when each key was last      *)
(* requested since the pool was last cleared, and how many misses had been *)
(* counted at that moment.  They change no step of the pool; the           *)
(* properties of its eviction order and of its counters are stated over    *)
(* them, and the pool is related to RecencyCache through them.             *)
(***************************************************************************)
EXTENDS BufferPool

VARIABLES
  lastRequest,   (* Time of the last request of a key; 0: none.            *)
  clock,         (* Requests since the last clear.                         *)
  missesAtClear  (* buffer_misses right after the last clear.              *)

history == <<lastRequest, clock, missesAtClear>>

HInit ==
  /\ Init
  /\ lastRequest = [k \in PageKeys |-> 0]
  /\ clock = 0
  /\ missesAtClear = 0

HFetch(k, page) ==
  /\ Fetch(k, page)
  /\ clock' = clock + 1
  /\ lastRequest' = [lastRequest EXCEPT ![k] = clock + 1]
  /\ UNCHANGED missesAtClear

HWrite == WriteTemporaryPage /\ UNCHANGED history

HClear(reset) ==
  /\ Clear(reset)
  /\ clock' = 0
  /\ lastRequest' = [k \in PageKeys |-> 0]
  /\ missesAtClear' = metrics'.buffer_misses

HNext ==
  \/ \E k \in PageKeys, page \in Pages : HFetch(k, page)
  \/ HWrite
  \/ \E reset \in BOOLEAN : HClear(reset)

HSpec == HInit /\ [][HNext]_<<vars, history>>

Requested == {k \in PageKeys : lastRequest[k] > 0}

-----------------------------------------------------------------------------
(* Every variable has its type, no key takes two frames, and the pages     *)
(* held are those of the keys in the frames.                               *)
TypeOK ==
  /\ frames \in Seq(PageKeys)
  /\ Len(frames) <= FrameCount
  /\ \A i, j \in DOMAIN frames : frames[i] = frames[j] => i = j
  /\ cached \in [Range(frames) -> Pages]
  /\ metrics \in IOMetrics
  /\ returned \in Pages \cup {NoPage}
  /\ lastRequest \in [PageKeys -> Nat]
  /\ clock \in Nat
  /\ missesAtClear \in Nat

(* The frames list the cached keys by the time of their last request,      *)
(* whatever mix of hits, misses and evictions led here: popitem(last=False)*)
(* then really removes the least recently used page.                       *)
FramesInRecencyOrder ==
  \A i, j \in DOMAIN frames :
    i < j => lastRequest[frames[i]] < lastRequest[frames[j]]

(* The pool holds the most recently requested pages: no evicted page was   *)
(* requested after a cached one, and as long as a frame is free nothing    *)
(* that was requested has been evicted.                                    *)
MostRecentPagesCached ==
  /\ \A k \in Range(frames), u \in PageKeys :
       lastRequest[u] > lastRequest[k] => u \in Range(frames)
  /\ Len(frames) < FrameCount => Requested \subseteq Range(frames)

(* The counters explain each other: every request is a hit or a miss, every*)
(* cached page cost a miss, and until the pool is full a page is read from *)
(* simulated storage once however often it is requested.                   *)
MissesAccounted ==
  /\ metrics.page_requests = metrics.buffer_hits + metrics.buffer_misses
  /\ metrics.buffer_misses >= missesAtClear + Len(frames)
  /\ Len(frames) < FrameCount =>
       metrics.buffer_misses = missesAtClear + Len(frames)

(* Every time is in the past and every cached key has one: with the three  *)
(* properties above, the inductive invariant of the pool.                  *)
TimesInThePast ==
  /\ \A k \in PageKeys : lastRequest[k] <= clock
  /\ \A k \in Range(frames) : lastRequest[k] > 0

PoolInv ==
  /\ TypeOK
  /\ TimesInThePast
  /\ FramesInRecencyOrder
  /\ MostRecentPagesCached
  /\ MissesAccounted

-----------------------------------------------------------------------------
(* The pool implements the recency cache: the resident set is the set of   *)
(* keys in the frames and a load is a miss.                                *)
Recency == INSTANCE RecencyCache WITH
  Capacity <- FrameCount,
  resident <- Range(frames),
  store    <- cached,
  answer   <- returned,
  now      <- clock,
  loads    <- metrics.buffer_misses

ImplementsRecencyCache == Recency!Spec
=============================================================================
