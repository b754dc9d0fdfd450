---------------------------- MODULE ExternalSort ----------------------------
(***************************************************************************)
(* The external merge sort of querylab/executor/external_sort.py: runs of  *)
(* a buffer's size, then passes that merge groups of runs with a heap.  A  *)
(* row is its position in the input.                                       *)
(***************************************************************************)
EXTENDS PageArithmetic, RowOrder, Sequences, FiniteSets, SequencesExt

VARIABLES
  keys,              (* The sort key of each row of the input.             *)
  buffer_frames, tuples_per_page,
  phase,             (* "start", "runs", "group", "merge", "done".         *)
  runs, next_runs,   (* Sequences of rows.                                 *)
  start,             (* Rows in runs so far, or the group's first run - 1. *)
  cursor,            (* The next row of each run of the group.             *)
  merged,
  merge_pass,
  page_writes, page_requests

arguments == <<keys, buffer_frames, tuples_per_page>>
vars == <<arguments, phase, runs, next_runs, start, cursor, merged, merge_pass,
          page_writes, page_requests>>

(* A call with an input, a record of the three arguments.                  *)
SortInit(input) ==
  /\ keys = input.keys
  /\ buffer_frames = input.buffer_frames
  /\ tuples_per_page = input.tuples_per_page
  /\ phase = "start"
  /\ runs = <<>>
  /\ next_runs = <<>>
  /\ start = 0
  /\ cursor = <<>>
  /\ merged = <<>>
  /\ merge_pass = 0
  /\ page_writes = 0
  /\ page_requests = 0

-----------------------------------------------------------------------------
RowsPerRun == buffer_frames * tuples_per_page

\* Mutant: a frame for each run and none for the output.
FanInWithoutOutputFrame == IF buffer_frames > 2 THEN buffer_frames ELSE 2

FanIn == MergeFrames(buffer_frames)

(* A slice of the input in key order.                                      *)
SortedSlice(first, last) == Sorted(keys, first .. last)

PagesOf(run) == CeilDiv(Len(run), tuples_per_page)

PagesOfAll(someRuns) == FoldSeq(LAMBDA run, n : PagesOf(run) + n, 0, someRuns)

(* An input that fits is sorted in memory.                                 *)
Start ==
  /\ phase = "start"
  /\ IF Len(keys) <= RowsPerRun
     THEN phase' = "done" /\ runs' = <<SortedSlice(1, Len(keys))>>
     ELSE phase' = "runs" /\ UNCHANGED runs
  /\ UNCHANGED <<arguments, next_runs, start, cursor, merged, merge_pass,
                 page_writes, page_requests>>

MakeRun ==
  LET end == IF start + RowsPerRun < Len(keys) THEN start + RowsPerRun ELSE Len(keys)
      run == SortedSlice(start + 1, end)
  IN  /\ phase = "runs"
      /\ runs' = Append(runs, run)
      /\ page_writes' = page_writes + PagesOf(run)
      /\ start' = IF end = Len(keys) THEN 0 ELSE end
      /\ phase' = IF end = Len(keys) THEN "group" ELSE "runs"
      /\ UNCHANGED <<arguments, next_runs, cursor, merged, merge_pass, page_requests>>

-----------------------------------------------------------------------------
Group == SubSeq(runs, start + 1,
                IF start + FanIn < Len(runs) THEN start + FanIn ELSE Len(runs))

(* The temporary pages of the group are read and the cursors set.          *)
ReadGroup ==
  /\ phase = "group"
  /\ Len(runs) > 1
  /\ page_requests' = page_requests + PagesOfAll(Group)
  /\ cursor' = [r \in DOMAIN Group |-> 1]
  /\ merged' = <<>>
  /\ phase' = "merge"
  /\ UNCHANGED <<arguments, runs, next_runs, start, merge_pass, page_writes>>

(* The runs with a row in the heap, and the row each has there.            *)
InHeap == {r \in DOMAIN cursor : cursor[r] <= Len(Group[r])}
HeapRow(r) == Group[r][cursor[r]]

\* Mutant: without run_number, equal keys leave the heap in any order.
TopOfKeys(r) == \A q \in InHeap : keys[HeapRow(r)] <= keys[HeapRow(q)]

(* The smallest (key, run_number): equal keys leave the heap run by run.   *)
TopOfHeap(r) ==
  \A q \in InHeap : \/ keys[HeapRow(r)] < keys[HeapRow(q)]
                    \/ keys[HeapRow(r)] = keys[HeapRow(q)] /\ r <= q

MergeRow ==
  /\ phase = "merge"
  /\ \E r \in InHeap :
       /\ TopOfHeap(r)
       /\ merged' = Append(merged, HeapRow(r))
       /\ cursor' = [cursor EXCEPT ![r] = @ + 1]
  /\ UNCHANGED <<arguments, phase, runs, next_runs, start, merge_pass,
                 page_writes, page_requests>>

(* The merged run is written; after the last group its pass is over.       *)
WriteMerged ==
  LET allMerged == Append(next_runs, merged)
  IN  /\ phase = "merge"
      /\ InHeap = {}
      /\ page_writes' = page_writes + PagesOf(merged)
      /\ phase' = "group"
      /\ IF start + FanIn < Len(runs)
         THEN /\ start' = start + FanIn
              /\ next_runs' = allMerged
              /\ UNCHANGED <<runs, merge_pass>>
         ELSE /\ start' = 0
              /\ next_runs' = <<>>
              /\ runs' = allMerged
              /\ merge_pass' = merge_pass + 1
      /\ UNCHANGED <<arguments, cursor, merged, page_requests>>

Finish ==
  /\ phase = "group"
  /\ Len(runs) = 1
  /\ phase' = "done"
  /\ UNCHANGED <<arguments, runs, next_runs, start, cursor, merged, merge_pass,
                 page_writes, page_requests>>

Returned == phase = "done" /\ UNCHANGED vars

Next ==
  \/ Start
  \/ MakeRun
  \/ ReadGroup \/ MergeRow \/ WriteMerged
  \/ Finish
  \/ Returned

-----------------------------------------------------------------------------
InKeyOrder(run) == \A x, y \in DOMAIN run : x < y => KeyBefore(keys, run[x], run[y])

(* However many passes it takes, the result is the stable sort: rows of    *)
(* equal keys stay in their order, which every merge has to keep.          *)
ResultIsStableSort ==
  phase = "done" =>
    /\ Len(runs) = 1
    /\ Range(runs[1]) = DOMAIN keys
    /\ InKeyOrder(runs[1])

(* Between the merges, each run is the stable sort of a slice of the       *)
(* input: it is in key order, and the runs have all rows between them, the *)
(* rows of earlier runs being before those of later ones in the input.     *)
RunsAreSortedSlices ==
  phase \in {"group", "merge"} =>
    LET now == next_runs \o SubSeq(runs, start + 1, Len(runs))
    IN  /\ UNION {Range(now[n]) : n \in DOMAIN now} = DOMAIN keys
        /\ \A m, n \in DOMAIN now : m < n =>
             \A i \in Range(now[m]), j \in Range(now[n]) : i < j
        /\ \A n \in DOMAIN now : InKeyOrder(now[n])

(* The estimate counts the passes right, from pages where the sort goes by *)
(* rows, and is one read of every page more than is done: the last run is  *)
(* written and not read back.                                              *)
SortIOAsEstimated ==
  phase = "done" =>
    LET pages == CeilDiv(Len(keys), tuples_per_page)
        unread == IF page_writes = 0 THEN 0 ELSE pages
    IN  /\ page_writes + page_requests + unread = ExternalSortIO(pages, buffer_frames)
        /\ page_writes = page_requests + unread
=============================================================================
