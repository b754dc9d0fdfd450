---------------------------- MODULE RecencyCache ----------------------------
(***************************************************************************)
(* What the buffer pool promises, with no order of frames: a set of        *)
(* resident keys, the time each key was last asked for, and a request of a *)
(* key that is not resident costs one load and, when every frame is taken, *)
(* the resident key that nobody asked for the longest.                     *)
(***************************************************************************)
EXTENDS Integers, FiniteSets

CONSTANTS PageKeys, Pages, Capacity, NoPage

VARIABLES
  resident,      (* The keys that need no load.                            *)
  store,         (* The page each resident key answers with.               *)
  lastRequest,   (* When a key was last asked for; 0: not since Forget.    *)
  answer,        (* The page the last request got.                         *)
  now,           (* Requests since Forget.                                 *)
  loads          (* Loads since the counters were last reset.              *)

vars == <<resident, store, lastRequest, answer, now, loads>>

Init ==
  /\ resident = {}
  /\ store = <<>>
  /\ lastRequest = [k \in PageKeys |-> 0]
  /\ answer = NoPage
  /\ now = 0
  /\ loads = 0

Touch(k) ==
  /\ now' = now + 1
  /\ lastRequest' = [lastRequest EXCEPT ![k] = now + 1]

Oldest(k) == k \in resident /\ \A u \in resident : lastRequest[k] <= lastRequest[u]

Answer(k) ==
  /\ k \in resident
  /\ Touch(k)
  /\ answer' = store[k]
  /\ UNCHANGED <<resident, store, loads>>

Load(k, page) ==
  /\ k \notin resident
  /\ Touch(k)
  /\ loads' = loads + 1
  /\ \/ /\ Cardinality(resident) < Capacity
        /\ resident' = resident \cup {k}
     \/ /\ Cardinality(resident) = Capacity
        /\ \E victim \in resident :
             /\ Oldest(victim)
             /\ resident' = (resident \ {victim}) \cup {k}
  /\ store' = [x \in resident' |-> IF x = k THEN page ELSE store[x]]
  /\ answer' = page

Forget ==
  /\ resident' = {}
  /\ store' = <<>>
  /\ lastRequest' = [k \in PageKeys |-> 0]
  /\ now' = 0
  /\ loads' \in {0, loads}
  /\ UNCHANGED answer

Next ==
  \/ \E k \in PageKeys : Answer(k)
  \/ \E k \in PageKeys, page \in Pages : Load(k, page)
  \/ Forget

Spec == Init /\ [][Next]_vars
=============================================================================
