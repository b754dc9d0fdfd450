------------------------------ MODULE HashJoin ------------------------------
(***************************************************************************)
(* The hash join: one pass when the pages of the build side fit, and Grace *)
(* partitioning through temporary pages otherwise.  Python's hash of a     *)
(* string differs from process to process, so that any hash function of    *)
(* Hashes may be in force.                                                 *)
(***************************************************************************)
EXTENDS JoinInputs

CONSTANT Hashes      (* Functions from the join keys to Nat.               *)

VARIABLES
  hash,
  next,              (* "start", "partition build", "partition probe",     *)
                     (* "spill", "build", "probe".                         *)
  build_partitions, probe_partitions,    (* Sequences of row positions.    *)
  partition,         (* The partition the loop is in.                      *)
  position,          (* The row the loop is at, in its input or partition. *)
  hash_table,        (* From keys to the build rows with the key.          *)
  page_writes, page_requests

hashVars == <<hash, next, build_partitions, probe_partitions, partition,
              position, hash_table, page_writes, page_requests>>
vars == <<joinVars, hashVars>>

HashInit ==
  /\ hash \in Hashes
  /\ next = "start"
  /\ build_partitions = <<>>
  /\ probe_partitions = <<>>
  /\ partition = 1
  /\ position = 1
  /\ hash_table = <<>>
  /\ page_writes = 0
  /\ page_requests = 0

-----------------------------------------------------------------------------
BuildLeft == BuildIsLeft(left, right)
Build == BuildRows(left, right)
Probe == IF BuildLeft THEN right ELSE left

BuildRefFits == IF BuildLeft THEN LeftRefFits ELSE RightRefFits
ProbeRefFits == IF BuildLeft THEN RightRefFits ELSE LeftRefFits

Partitions == PartitionCount(left, right)

BuildPartitionOf(key) == PartitionOf(hash, key, left, right)

\* Mutant: the probe side is partitioned by the pages of its own.
ProbePartitionOfOwnCount(key) ==
  1 + (hash[key] % (IF Len(Probe) > Len(Build) THEN Partitions + 1 ELSE Partitions))
ProbePartitionOf(key) == BuildPartitionOf(key)

(* A build side that fits is the only partition.                           *)
Start ==
  /\ status = "running" /\ next = "start"
  /\ IF Spills(left, right)
     THEN /\ next' = "partition build"
          /\ build_partitions' = [n \in 1 .. Partitions |-> <<>>]
          /\ probe_partitions' = [n \in 1 .. Partitions |-> <<>>]
     ELSE /\ next' = "build"
          /\ build_partitions' = <<[p \in DOMAIN Build |-> p]>>
          /\ probe_partitions' = <<[p \in DOMAIN Probe |-> p]>>
  /\ UNCHANGED <<joinVars, hash, partition, position, hash_table,
                 page_writes, page_requests>>

PartitionBuildRow ==
  /\ status = "running" /\ next = "partition build"
  /\ IF position <= Len(Build)
     THEN /\ build_partitions' =
               [build_partitions EXCEPT ![BuildPartitionOf(Build[position])] =
                 Append(@, position)]
          /\ position' = position + 1
          /\ UNCHANGED next
     ELSE /\ next' = "partition probe"
          /\ position' = 1
          /\ UNCHANGED build_partitions
  /\ UNCHANGED <<joinVars, hash, probe_partitions, partition, hash_table,
                 page_writes, page_requests>>

PartitionProbeRow ==
  /\ status = "running" /\ next = "partition probe"
  /\ IF position <= Len(Probe)
     THEN /\ probe_partitions' =
               [probe_partitions EXCEPT ![ProbePartitionOf(Probe[position])] =
                 Append(@, position)]
          /\ position' = position + 1
          /\ UNCHANGED next
     ELSE /\ next' = "spill"
          /\ position' = 1
          /\ UNCHANGED probe_partitions
  /\ UNCHANGED <<joinVars, hash, build_partitions, partition, hash_table,
                 page_writes, page_requests>>

\* Mutant: partitions rounded up to pages all together.
PartitionPagesTogether(partitions) ==
  CeilDiv(FoldSeq(LAMBDA rows, n : Len(rows) + n, 0, partitions), TuplesPerPage)

PartitionPages(partitions) ==
  FoldSeq(LAMBDA rows, n : CeilDiv(Len(rows), TuplesPerPage) + n, 0, partitions)

(* All partitions are written to temporary pages and read back.            *)
Spill ==
  LET total_pages == PartitionPages(build_partitions \o probe_partitions)
  IN  /\ status = "running" /\ next = "spill"
      /\ page_writes' = page_writes + total_pages
      /\ page_requests' = page_requests + total_pages
      /\ next' = "build"
      /\ UNCHANGED <<joinVars, hash, build_partitions, probe_partitions,
                     partition, position, hash_table>>

-----------------------------------------------------------------------------
(* hash_table.get(key, [])                                                 *)
RowsOfKey(key) == IF key \in DOMAIN hash_table THEN hash_table[key] ELSE <<>>

(* hash_table.setdefault(key, []).append(row)                              *)
BuildRow ==
  LET rows == build_partitions[partition]
      key == Build[rows[position]]
  IN  /\ status = "running" /\ next = "build"
      /\ position <= Len(rows)
      /\ IF BuildRefFits
         THEN /\ hash_table' = [k \in DOMAIN hash_table \cup {key} |->
                                 IF k = key THEN Append(RowsOfKey(k), rows[position])
                                            ELSE hash_table[k]]
              /\ position' = position + 1
              /\ UNCHANGED joinVars
         ELSE /\ RaiseKeyError
              /\ UNCHANGED <<hash_table, position>>
      /\ UNCHANGED <<hash, next, build_partitions, probe_partitions, partition,
                     page_writes, page_requests>>

BuildDone ==
  /\ status = "running" /\ next = "build"
  /\ position > Len(build_partitions[partition])
  /\ next' = "probe"
  /\ position' = 1
  /\ UNCHANGED <<joinVars, hash, build_partitions, probe_partitions, partition,
                 hash_table, page_writes, page_requests>>

(* The left row comes first in an output row, whichever side is built.     *)
ProbeRow ==
  LET rows == probe_partitions[partition]
      partners == RowsOfKey(Probe[rows[position]])
  IN  /\ status = "running" /\ next = "probe"
      /\ position <= Len(rows)
      /\ IF ProbeRefFits
         THEN /\ EmitRows([n \in DOMAIN partners |->
                            IF BuildLeft THEN <<partners[n], rows[position]>>
                                           ELSE <<rows[position], partners[n]>>])
              /\ position' = position + 1
         ELSE RaiseKeyError /\ UNCHANGED position
      /\ UNCHANGED <<hash, next, build_partitions, probe_partitions, partition,
                     hash_table, page_writes, page_requests>>

ProbeDone ==
  /\ status = "running" /\ next = "probe"
  /\ position > Len(probe_partitions[partition])
  /\ IF partition < Len(build_partitions)
     THEN /\ partition' = partition + 1
          /\ next' = "build"
          /\ position' = 1
          /\ hash_table' = <<>>
          /\ UNCHANGED joinVars
     ELSE Return /\ UNCHANGED <<partition, next, position, hash_table>>
  /\ UNCHANGED <<hash, build_partitions, probe_partitions, page_writes, page_requests>>

Returned == status # "running" /\ UNCHANGED vars

Next ==
  \/ Start
  \/ PartitionBuildRow \/ PartitionProbeRow \/ Spill
  \/ BuildRow \/ BuildDone
  \/ ProbeRow \/ ProbeDone
  \/ Returned

-----------------------------------------------------------------------------
(* Each of these rows is in one of the partitions, in one place.           *)
Partitioned(partitions, rows) ==
  /\ UNION {Range(partitions[n]) : n \in DOMAIN partitions} = rows
  /\ \A n \in DOMAIN partitions : IsInjective(partitions[n])
  /\ \A m, n \in DOMAIN partitions :
       m # n => Range(partitions[m]) \cap Range(partitions[n]) = {}

(* Once an input is partitioned, each of its rows is in one partition, and *)
(* rows of equal keys are in the same one, on both sides.                  *)
PartnersShareAPartition ==
  next \in {"spill", "build", "probe"} =>
    /\ Partitioned(build_partitions, DOMAIN Build)
    /\ Partitioned(probe_partitions, DOMAIN Probe)
    /\ \A m, n \in DOMAIN build_partitions :
         \A b \in Range(build_partitions[m]), p \in Range(probe_partitions[n]) :
           Build[b] = Probe[p] => m = n

(* Temporary I/O is 2 * (left_pages + right_pages) as the estimator has it,*)
(* and at most a page more to write and to read for each partition but one *)
(* of each side; there is none when the build side fits.                   *)
SpillCloseToEstimate ==
  LET pages == PagesOf(left) + PagesOf(right)
  IN  status = "done" =>
        /\ page_writes = page_requests
        /\ ~Spills(left, right) => page_writes = 0
        /\ Spills(left, right) => page_writes \in pages .. pages + 2 * (Partitions - 1)
=============================================================================
