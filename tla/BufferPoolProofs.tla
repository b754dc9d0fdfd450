-------------------------- MODULE BufferPoolProofs --------------------------
(***************************************************************************)
(* Theorems about the buffer pool of BufferPoolHistory and the two pools   *)
(* of PoolSizes, for every set of keys and pages and every number, or      *)
(* pair, of frame counts.                                                  *)
(*                                                                         *)
(* A request rewrites the recency order in one of two ways: a hit takes    *)
(* one key out and appends it, a miss may drop the head and appends.  Two  *)
(* lemmas say what the two sequences look like position by position; every *)
(* other proof reads the new order through them.                           *)
(***************************************************************************)
EXTENDS PoolSizes, SequenceTheorems, FiniteSetTheorems, TLAPS

-----------------------------------------------------------------------------
(* Taking out position p and appending e shifts what followed p.           *)
LEMMA RotateProperties ==
  ASSUME NEW S, NEW s \in Seq(S), NEW p \in 1 .. Len(s), NEW e \in S
  PROVE  LET t == Append(RemoveAt(s, p), e)
         IN  /\ t \in Seq(S)
             /\ Len(t) = Len(s)
             /\ \A i \in 1 .. Len(s) :
                  t[i] = IF i < p THEN s[i]
                         ELSE IF i < Len(s) THEN s[i+1] ELSE e
<1> DEFINE a == SubSeq(s, 1, p-1)
           b == SubSeq(s, p+1, Len(s))
           n == Len(s)
<1>1. n \in Nat /\ \A i \in 1 .. n : s[i] \in S
  BY ElementOfSeq, LenProperties
<1>2. a \in Seq(S) /\ Len(a) = p-1 /\ \A i \in 1 .. p-1 : a[i] = s[i]
  <2>1. \A i \in 1 .. p-1 : s[i] \in S
    BY <1>1
  <2>2. /\ a \in Seq(S)
        /\ Len(a) = IF 1 <= p-1 THEN (p-1)-1+1 ELSE 0
        /\ \A i \in 1 .. (p-1)-1+1 : a[i] = s[1+i-1]
    BY <1>1, <2>1, SubSeqProperties
  <2> QED BY <1>1, <2>2
<1>3. b \in Seq(S) /\ Len(b) = n-p /\ \A i \in 1 .. n-p : b[i] = s[p+i]
  <2>1. \A i \in p+1 .. n : s[i] \in S
    BY <1>1
  <2>2. /\ b \in Seq(S)
        /\ Len(b) = IF p+1 <= n THEN n-(p+1)+1 ELSE 0
        /\ \A i \in 1 .. n-(p+1)+1 : b[i] = s[(p+1)+i-1]
    BY <1>1, <2>1, SubSeqProperties
  <2> QED BY <1>1, <2>2
<1> DEFINE c == a \o b
<1>4. /\ c \in Seq(S)
      /\ Len(c) = n-1
      /\ \A i \in 1 .. n-1 : c[i] = IF i < p THEN s[i] ELSE s[i+1]
  <2>1. /\ c \in Seq(S)
        /\ Len(c) = Len(a) + Len(b)
        /\ \A i \in 1 .. Len(a) + Len(b) :
             c[i] = IF i <= Len(a) THEN a[i] ELSE b[i - Len(a)]
    BY <1>2, <1>3, ConcatProperties
  <2> HIDE DEF a, b, c
  <2>2. Len(a) + Len(b) = n-1
    BY <1>1, <1>2, <1>3
  <2>3. ASSUME NEW i \in 1 .. n-1
        PROVE  c[i] = IF i < p THEN s[i] ELSE s[i+1]
    <3>1. CASE i < p
      BY <1>1, <1>2, <2>1, <2>2, <3>1
    <3>2. CASE ~(i < p)
      <4>1. i - (p-1) \in 1 .. n-p /\ p + (i - (p-1)) = i+1
        BY <1>1, <3>2
      <4>2. c[i] = b[i - (p-1)]
        BY <1>1, <1>2, <2>1, <2>2, <3>2
      <4> QED BY <1>3, <3>2, <4>1, <4>2
    <3> QED BY <3>1, <3>2
  <2> QED BY <2>1, <2>2, <2>3
<1>5. RemoveAt(s, p) = c
  BY DEF RemoveAt
<1> HIDE DEF c
<1>6. /\ Append(c, e) \in Seq(S)
      /\ Len(Append(c, e)) = Len(c) + 1
      /\ \A i \in 1 .. Len(c) : Append(c, e)[i] = c[i]
      /\ Append(c, e)[Len(c) + 1] = e
  BY <1>4, AppendProperties
<1> QED BY <1>1, <1>4, <1>5, <1>6

(* Dropping the head and appending e shifts every position by one.         *)
LEMMA ShiftProperties ==
  ASSUME NEW S, NEW s \in Seq(S), s # <<>>, NEW e \in S
  PROVE  LET t == Append(Tail(s), e)
         IN  /\ t \in Seq(S)
             /\ Len(t) = Len(s)
             /\ \A i \in 1 .. Len(s) :
                  t[i] = IF i < Len(s) THEN s[i+1] ELSE e
<1>1. /\ Tail(s) \in Seq(S)
      /\ Len(Tail(s)) = Len(s)-1
      /\ \A i \in 1 .. Len(Tail(s)) : Tail(s)[i] = s[i+1]
  BY HeadTailProperties
<1>2. /\ Append(Tail(s), e) \in Seq(S)
      /\ Len(Append(Tail(s), e)) = Len(Tail(s)) + 1
      /\ \A i \in 1 .. Len(Tail(s)) : Append(Tail(s), e)[i] = Tail(s)[i]
      /\ Append(Tail(s), e)[Len(Tail(s)) + 1] = e
  BY <1>1, AppendProperties
<1>3. Len(s) \in Nat \ {0}
  BY EmptySeq
<1> DEFINE t == Append(Tail(s), e)
<1> HIDE DEF t
<1>4. /\ t \in Seq(S)
      /\ Len(t) = Len(s)
      /\ \A i \in 1 .. Len(s)-1 : t[i] = s[i+1]
      /\ t[Len(s)] = e
  BY <1>1, <1>2, <1>3 DEF t
<1>5. \A i \in 1 .. Len(s) : t[i] = IF i < Len(s) THEN s[i+1] ELSE e
  BY <1>3, <1>4
<1> QED BY <1>4, <1>5 DEF t

-----------------------------------------------------------------------------
(* What the type invariant says of the frames.                             *)
FramesOK ==
  /\ frames \in Seq(PageKeys)
  /\ Len(frames) <= FrameCount
  /\ \A i, j \in DOMAIN frames : frames[i] = frames[j] => i = j

(* The recency order after a hit.                                          *)
LEMMA HitOrder ==
  ASSUME FramesOK, NEW k \in Range(frames)
  PROVE  /\ PositionOf(k) \in 1 .. Len(frames)
         /\ frames[PositionOf(k)] = k
         /\ MoveToEnd(k) \in Seq(PageKeys)
         /\ Len(MoveToEnd(k)) = Len(frames)
         /\ \A i \in 1 .. Len(frames) :
              MoveToEnd(k)[i] = IF i < PositionOf(k) THEN frames[i]
                                ELSE IF i < Len(frames) THEN frames[i+1] ELSE k
         /\ Range(MoveToEnd(k)) = Range(frames)
         /\ \A i, j \in DOMAIN MoveToEnd(k) :
              MoveToEnd(k)[i] = MoveToEnd(k)[j] => i = j
<1> DEFINE p == PositionOf(k)
           n == Len(frames)
           t == MoveToEnd(k)
<1>1. n \in Nat /\ DOMAIN frames = 1 .. n /\ k \in PageKeys
  BY LenProperties, ElementOfSeq DEF FramesOK, Range
<1>2. p \in 1 .. n /\ frames[p] = k
  BY <1>1 DEF PositionOf, Range
<1>3. /\ t \in Seq(PageKeys)
      /\ Len(t) = n
      /\ \A i \in 1 .. n : t[i] = IF i < p THEN frames[i]
                                   ELSE IF i < n THEN frames[i+1] ELSE k
  <2>1. t = Append(RemoveAt(frames, p), k)
    BY DEF MoveToEnd
  <2>2. frames \in Seq(PageKeys)
    BY DEF FramesOK
  <2>3. k \in PageKeys /\ p \in 1 .. Len(frames)
    BY <1>1, <1>2
  <2> HIDE DEF t, p
  <2>4. LET u == Append(RemoveAt(frames, p), k)
        IN  /\ u \in Seq(PageKeys)
            /\ Len(u) = n
            /\ \A i \in 1 .. n : u[i] = IF i < p THEN frames[i]
                                         ELSE IF i < n THEN frames[i+1] ELSE k
    BY <2>2, <2>3, RotateProperties
  <2> QED BY <2>1, <2>4
<1> HIDE DEF t, p
<1>4. DOMAIN t = 1 .. n
  BY <1>3, LenProperties
<1>5. Range(t) = Range(frames)
  <2>1. ASSUME NEW i \in 1 .. n  PROVE t[i] \in Range(frames)
    <3>1. CASE i < p
      BY <1>1, <1>3, <3>1 DEF Range
    <3>2. CASE ~(i < p) /\ i < n
      <4>1. i+1 \in 1 .. n
        BY <1>1, <3>2
      <4> QED BY <1>1, <1>3, <3>2, <4>1 DEF Range
    <3>3. CASE ~(i < p) /\ ~(i < n)
      BY <1>3, <3>3
    <3> QED BY <3>1, <3>2, <3>3
  <2>2. ASSUME NEW i \in 1 .. n  PROVE frames[i] \in Range(t)
    <3>1. CASE i < p
      BY <1>3, <1>4, <3>1 DEF Range
    <3>2. CASE i > p
      <4>1. i-1 \in 1 .. n /\ ~(i-1 < p) /\ i-1 < n /\ (i-1)+1 = i
        BY <1>1, <1>2, <3>2
      <4>2. t[i-1] = frames[i]
        BY <1>3, <4>1
      <4> QED BY <1>4, <4>1, <4>2 DEF Range
    <3>3. CASE i = p
      <4>1. n \in 1 .. n /\ ~(n < p) /\ ~(n < n)
        BY <1>1, <1>2
      <4>2. t[n] = k
        BY <1>3, <4>1
      <4> QED BY <1>2, <1>4, <3>3, <4>1, <4>2 DEF Range
    <3> QED BY <1>1, <1>2, <3>1, <3>2, <3>3
  <2> QED BY <1>1, <1>4, <2>1, <2>2 DEF Range
<1>6. \A i, j \in 1 .. n : t[i] = t[j] => i = j
  <2> DEFINE src(i) == IF i < p THEN i ELSE IF i < n THEN i+1 ELSE p
  <2>1. \A i \in 1 .. n : src(i) \in 1 .. n /\ t[i] = frames[src(i)]
    BY <1>1, <1>2, <1>3
  <2>2. \A i, j \in 1 .. n : src(i) = src(j) => i = j
    BY <1>1, <1>2
  <2> HIDE DEF src
  <2> QED BY <1>1, <2>1, <2>2 DEF FramesOK
<1> QED BY <1>2, <1>3, <1>4, <1>5, <1>6 DEF t, p

(* The recency order after a miss: a free frame is taken, or the head goes.*)
LEMMA MissOrder ==
  ASSUME FramesOK, NEW k \in PageKeys, k \notin Range(frames)
  PROVE  LET t == Append(AfterEviction, k)
         IN  /\ t \in Seq(PageKeys)
             /\ DOMAIN t = 1 .. Len(t)
             /\ \A i, j \in DOMAIN t : t[i] = t[j] => i = j
             /\ \/ /\ Len(frames) < FrameCount
                   /\ Len(t) = Len(frames) + 1
                   /\ \A i \in 1 .. Len(frames) : t[i] = frames[i]
                   /\ t[Len(frames) + 1] = k
                   /\ Range(t) = Range(frames) \cup {k}
                \/ /\ Len(frames) = FrameCount
                   /\ Len(t) = Len(frames)
                   /\ \A i \in 1 .. Len(frames) :
                        t[i] = IF i < Len(frames) THEN frames[i+1] ELSE k
                   /\ Range(t) = (Range(frames) \ {frames[1]}) \cup {k}
<1> DEFINE n == Len(frames)
           t == Append(AfterEviction, k)
<1>0. n \in Nat /\ FrameCount \in Nat \ {0} /\ n <= FrameCount
  BY LenProperties, FrameCountAssumption DEF FramesOK
<1>1. /\ n \in Nat /\ DOMAIN frames = 1 .. n
      /\ FrameCount \in Nat \ {0}
      /\ \A i \in 1 .. n : frames[i] \in Range(frames) /\ frames[i] # k
  BY LenProperties, FrameCountAssumption DEF FramesOK, Range
<1>2. CASE n < FrameCount
  <2>1. AfterEviction = frames
    <3>1. ~(Len(frames) >= FrameCount)
      BY <1>1, <1>2
    <3> QED BY <3>1 DEF AfterEviction
  <2>2. /\ t \in Seq(PageKeys)
        /\ Len(t) = n + 1
        /\ \A i \in 1 .. n : t[i] = frames[i]
        /\ t[n + 1] = k
    BY <2>1, AppendProperties DEF FramesOK
  <2> HIDE DEF t
  <2>3. DOMAIN t = 1 .. n + 1
    BY <2>2, LenProperties
  <2>4. \A i, j \in 1 .. n + 1 : t[i] = t[j] => i = j
    BY <1>1, <2>2 DEF FramesOK
  <2>5. Range(t) = Range(frames) \cup {k}
    <3>1. \A i \in 1 .. n + 1 : t[i] \in Range(frames) \cup {k}
      BY <1>1, <2>2
    <3>2. \A i \in 1 .. n : frames[i] \in Range(t)
      BY <1>1, <2>2, <2>3 DEF Range
    <3>3. k \in Range(t)
      BY <1>1, <2>2, <2>3 DEF Range
    <3> QED BY <1>1, <2>3, <3>1, <3>2, <3>3 DEF Range
  <2> QED BY <1>2, <2>2, <2>3, <2>4, <2>5 DEF t
<1>3. CASE ~(n < FrameCount)
  <2>1. n = FrameCount /\ AfterEviction = Tail(frames) /\ frames # <<>>
    <3>1. n = FrameCount /\ n >= FrameCount
      BY <1>0, <1>3
    <3>2. frames # <<>>
      BY <1>1, <3>1, EmptySeq
    <3> QED BY <3>1, <3>2 DEF AfterEviction
  <2>2. /\ t \in Seq(PageKeys)
        /\ Len(t) = n
        /\ \A i \in 1 .. n : t[i] = IF i < n THEN frames[i+1] ELSE k
    BY <2>1, ShiftProperties DEF FramesOK
  <2> HIDE DEF t
  <2>3. DOMAIN t = 1 .. n
    BY <2>2, LenProperties
  <2>4. \A i \in 1 .. n : i < n => i+1 \in 1 .. n
    BY <1>1
  <2>5. ASSUME NEW i \in 1 .. n, NEW j \in 1 .. n, t[i] = t[j]
        PROVE  i = j
    <3>1. CASE i < n /\ j < n
      <4>1. frames[i+1] = frames[j+1]
        BY <2>2, <2>5, <3>1
      <4>2. i+1 = j+1
        BY <1>1, <2>4, <3>1, <4>1 DEF FramesOK
      <4> QED BY <4>2
    <3>2. CASE i < n /\ ~(j < n)
      BY <1>1, <2>2, <2>4, <2>5, <3>2
    <3>3. CASE ~(i < n) /\ j < n
      BY <1>1, <2>2, <2>4, <2>5, <3>3
    <3>4. CASE ~(i < n) /\ ~(j < n)
      BY <1>1, <3>4
    <3> QED BY <3>1, <3>2, <3>3, <3>4
  <2>6. Range(t) = (Range(frames) \ {frames[1]}) \cup {k}
    <3>1. ASSUME NEW i \in 1 .. n
          PROVE  t[i] \in (Range(frames) \ {frames[1]}) \cup {k}
      <4>1. CASE i < n
        <5>1. frames[i+1] # frames[1]
          <6>1. 1 \in 1 .. n /\ i+1 \in 1 .. n /\ i+1 # 1
            BY <1>1, <4>1
          <6> QED BY <1>1, <6>1 DEF FramesOK
        <5> QED BY <1>1, <2>2, <2>4, <4>1, <5>1
      <4>2. CASE ~(i < n)
        BY <2>2, <4>2
      <4> QED BY <4>1, <4>2
    <3>2. ASSUME NEW i \in 1 .. n, i # 1
          PROVE  frames[i] \in Range(t)
      <4>1. i-1 \in 1 .. n /\ i-1 < n /\ (i-1)+1 = i
        BY <1>1, <3>2
      <4>2. t[i-1] = frames[i]
        BY <2>2, <4>1
      <4> QED BY <2>3, <4>1, <4>2 DEF Range
    <3>3. k \in Range(t)
      <4>1. n \in 1 .. n /\ ~(n < n)
        BY <1>1, <2>1
      <4> QED BY <2>2, <2>3, <4>1 DEF Range
    <3>4. \A u \in Range(frames) \ {frames[1]} : u \in Range(t)
      BY <1>1, <3>2 DEF Range
    <3>5. \A u \in Range(t) : u \in (Range(frames) \ {frames[1]}) \cup {k}
      BY <2>3, <3>1 DEF Range
    <3> QED BY <3>3, <3>4, <3>5
  <2> QED BY <2>1, <2>2, <2>3, <2>5, <2>6 DEF t
<1> QED BY <1>2, <1>3

-----------------------------------------------------------------------------
(* What each operation does to the counters.                               *)
LEMMA CounterSteps ==
  ASSUME NEW m \in IOMetrics
  PROVE  /\ [m EXCEPT !.page_requests = @ + 1, !.buffer_hits = @ + 1] \in IOMetrics
         /\ [m EXCEPT !.page_requests = @ + 1, !.buffer_misses = @ + 1] \in IOMetrics
         /\ [m EXCEPT !.page_writes = @ + 1] \in IOMetrics
         /\ ZeroMetrics \in IOMetrics
<1> USE DEF IOMetrics
<1> DEFINE r == [m EXCEPT !.page_requests = @ + 1]
<1>1. r \in IOMetrics
  OBVIOUS
<1>2. [m EXCEPT !.page_requests = @ + 1, !.buffer_hits = @ + 1]
        = [r EXCEPT !.buffer_hits = @ + 1]
  OBVIOUS
<1>3. [m EXCEPT !.page_requests = @ + 1, !.buffer_misses = @ + 1]
        = [r EXCEPT !.buffer_misses = @ + 1]
  OBVIOUS
<1> HIDE DEF r
<1>4. /\ [r EXCEPT !.buffer_hits = @ + 1] \in IOMetrics
      /\ [r EXCEPT !.buffer_misses = @ + 1] \in IOMetrics
  BY <1>1
<1>5. [m EXCEPT !.page_writes = @ + 1] \in IOMetrics
  OBVIOUS
<1>6. ZeroMetrics \in IOMetrics
  BY DEF ZeroMetrics
<1> QED BY <1>2, <1>3, <1>4, <1>5, <1>6

(* The inductive invariant.                                                *)
LEMMA InitPoolInv == HInit => PoolInv
<1> SUFFICES ASSUME HInit PROVE PoolInv
  OBVIOUS
<1> USE DEF HInit, Init
<1>1. /\ frames = <<>> /\ Len(frames) = 0 /\ DOMAIN frames = {}
      /\ frames \in Seq(PageKeys)
  BY EmptySeq
<1>2. Range(frames) = {}
  BY <1>1 DEF Range
<1>3. TypeOK
  BY <1>1, <1>2, FrameCountAssumption DEF TypeOK, ZeroMetrics, IOMetrics
<1>4. TimesInThePast
  BY <1>2 DEF TimesInThePast
<1>5. FramesInRecencyOrder
  BY <1>1 DEF FramesInRecencyOrder
<1>6. MostRecentPagesCached
  BY <1>2 DEF MostRecentPagesCached, Requested
<1>7. MissesAccounted
  BY <1>1 DEF MissesAccounted, ZeroMetrics
<1> QED BY <1>3, <1>4, <1>5, <1>6, <1>7 DEF PoolInv

(* A hit makes its key the newest one and leaves the cached set alone.     *)
LEMMA HitKeepsPoolInv ==
  ASSUME PoolInv, NEW k \in PageKeys, NEW page \in Pages,
         HFetch(k, page), Hit(k)
  PROVE  PoolInv'
<1> DEFINE n == Len(frames)
           p == PositionOf(k)
<1>0. FramesOK
  BY DEF PoolInv, TypeOK, FramesOK
<1>1. /\ frames' = MoveToEnd(k)
      /\ k \in Range(frames)
      /\ cached' = cached
      /\ returned' = cached[k]
      /\ metrics' = [metrics EXCEPT !.page_requests = @ + 1, !.buffer_hits = @ + 1]
      /\ lastRequest' = [lastRequest EXCEPT ![k] = clock + 1]
      /\ clock' = clock + 1
      /\ missesAtClear' = missesAtClear
  BY DEF Hit, HFetch
<1>2. /\ p \in 1 .. n
      /\ frames[p] = k
      /\ frames' \in Seq(PageKeys)
      /\ Len(frames') = n
      /\ \A i \in 1 .. n :
           frames'[i] = IF i < p THEN frames[i]
                        ELSE IF i < n THEN frames[i+1] ELSE k
      /\ Range(frames') = Range(frames)
      /\ \A i, j \in DOMAIN frames' : frames'[i] = frames'[j] => i = j
  BY <1>0, <1>1, HitOrder
<1>3. n \in Nat /\ DOMAIN frames = 1 .. n /\ DOMAIN frames' = 1 .. n
  BY <1>0, <1>2, LenProperties DEF FramesOK
<1> HIDE DEF p, n
<1>9. n \in 1 .. n /\ frames'[n] = k
  <2>1. n \in Nat /\ p \in 1 .. n
    BY <1>2, <1>3
  <2>2. n \in 1 .. n /\ ~(n < p) /\ ~(n < n)
    BY <2>1
  <2> QED BY <1>2, <2>2
<1>4. TypeOK'
  <2>1. Len(frames') <= FrameCount
    BY <1>0, <1>2 DEF FramesOK, n
  <2>2. cached' \in [Range(frames') -> Pages] /\ returned' \in Pages \cup {NoPage}
    BY <1>1, <1>2 DEF PoolInv, TypeOK
  <2>3. metrics' \in IOMetrics
    BY <1>1, CounterSteps DEF PoolInv, TypeOK
  <2>4. /\ lastRequest' \in [PageKeys -> Nat]
        /\ clock' \in Nat
        /\ missesAtClear' \in Nat
    BY <1>1 DEF PoolInv, TypeOK
  <2> QED BY <1>2, <2>1, <2>2, <2>3, <2>4 DEF TypeOK
<1>5. TimesInThePast'
  <2>1. /\ lastRequest \in [PageKeys -> Nat] /\ clock \in Nat
        /\ \A u \in PageKeys : lastRequest[u] <= clock
        /\ \A u \in Range(frames) : lastRequest[u] > 0
    BY DEF PoolInv, TypeOK, TimesInThePast
  <2>2. \A u \in PageKeys : lastRequest'[u] <= clock'
    BY <1>1, <2>1
  <2>3. Range(frames') \subseteq PageKeys
    BY <1>2, RangeOfSeq
  <2>4. \A u \in Range(frames') : lastRequest'[u] > 0
    BY <1>1, <1>2, <2>1, <2>3
  <2> QED BY <2>2, <2>4 DEF TimesInThePast
<1>6. FramesInRecencyOrder'
  <2> SUFFICES ASSUME NEW i \in 1 .. n, NEW j \in 1 .. n, i < j
               PROVE  lastRequest'[frames'[i]] < lastRequest'[frames'[j]]
    BY <1>3 DEF FramesInRecencyOrder
  <2>1. frames'[i] # k /\ frames'[i] \in PageKeys
    <3>1. i # n
      BY <1>3
    <3> QED BY <1>2, <1>3, <1>9, <3>1, ElementOfSeq
  <2>2. lastRequest'[frames'[i]] = lastRequest[frames'[i]]
    BY <1>1, <2>1 DEF PoolInv, TypeOK
  <2>3. CASE j = n
    <3>1. lastRequest'[frames'[j]] = clock + 1
      BY <1>1, <1>9, <2>3 DEF PoolInv, TypeOK
    <3>2. lastRequest[frames'[i]] <= clock
      BY <2>1 DEF PoolInv, TimesInThePast
    <3> QED BY <2>1, <2>2, <3>1, <3>2 DEF PoolInv, TypeOK
  <2>4. CASE j # n
    <3>1. frames'[j] # k /\ frames'[j] \in PageKeys
      BY <1>2, <1>3, <1>9, <2>4, ElementOfSeq
    <3>2. lastRequest'[frames'[j]] = lastRequest[frames'[j]]
      BY <1>1, <3>1 DEF PoolInv, TypeOK
    <3> DEFINE src(x) == IF x < p THEN x ELSE x+1
    <3>3. /\ src(i) \in 1 .. n /\ src(j) \in 1 .. n /\ src(i) < src(j)
          /\ frames'[i] = frames[src(i)] /\ frames'[j] = frames[src(j)]
      <4>1. n \in Nat /\ p \in 1 .. n /\ i < n /\ j < n
        BY <1>2, <1>3, <2>4
      <4>2. \A x \in 1 .. n : x < n => frames'[x] = frames[src(x)]
        BY <1>2
      <4>3. src(i) \in 1 .. n /\ src(j) \in 1 .. n /\ src(i) < src(j)
        BY <4>1
      <4> QED BY <4>1, <4>2, <4>3
    <3> HIDE DEF src
    <3> QED BY <1>3, <2>2, <3>2, <3>3 DEF PoolInv, FramesInRecencyOrder
  <2> QED BY <2>3, <2>4
<1>7. MostRecentPagesCached'
  <2>1. ASSUME NEW x \in Range(frames'), NEW u \in PageKeys,
               lastRequest'[u] > lastRequest'[x]
        PROVE  u \in Range(frames')
    <3>1. CASE u = k
      BY <1>1, <1>2, <3>1
    <3>2. CASE u # k /\ x = k
      <4>1. lastRequest'[u] = lastRequest[u] /\ lastRequest'[x] = clock + 1
        BY <1>1, <3>2 DEF PoolInv, TypeOK
      <4>2. lastRequest[u] <= clock /\ lastRequest[u] \in Nat /\ clock \in Nat
        BY DEF PoolInv, TimesInThePast, TypeOK
      <4> QED BY <2>1, <4>1, <4>2
    <3>3. CASE u # k /\ x # k
      <4>1. x \in PageKeys
        BY <1>2, <1>3, ElementOfSeq DEF Range
      <4>2. lastRequest'[u] = lastRequest[u] /\ lastRequest'[x] = lastRequest[x]
        BY <1>1, <3>3, <4>1 DEF PoolInv, TypeOK
      <4> QED BY <1>2, <2>1, <4>2 DEF PoolInv, MostRecentPagesCached
    <3> QED BY <3>1, <3>2, <3>3
  <2>2. Len(frames') < FrameCount => Requested' \subseteq Range(frames')
    <3> SUFFICES ASSUME Len(frames') < FrameCount, NEW u \in PageKeys,
                        lastRequest'[u] > 0
                 PROVE  u \in Range(frames')
      BY DEF Requested
    <3>1. CASE u = k
      BY <1>1, <1>2, <3>1
    <3>2. CASE u # k
      <4>1. lastRequest'[u] = lastRequest[u]
        BY <1>1, <3>2 DEF PoolInv, TypeOK
      <4>2. Len(frames) < FrameCount
        BY <1>2 DEF n
      <4> QED BY <1>2, <4>1, <4>2 DEF PoolInv, MostRecentPagesCached, Requested
    <3> QED BY <3>1, <3>2
  <2> QED BY <2>1, <2>2 DEF MostRecentPagesCached
<1>8. MissesAccounted'
  <2>1. metrics \in IOMetrics
    BY DEF PoolInv, TypeOK
  <2>2. /\ metrics'.page_requests = metrics.page_requests + 1
        /\ metrics'.buffer_hits = metrics.buffer_hits + 1
        /\ metrics'.buffer_misses = metrics.buffer_misses
    BY <1>1, <2>1 DEF IOMetrics
  <2>3. Len(frames') = Len(frames) /\ missesAtClear' = missesAtClear
    BY <1>1, <1>2 DEF n
  <2>4. MissesAccounted
    BY DEF PoolInv
  <2> QED BY <2>1, <2>2, <2>3, <2>4 DEF MissesAccounted, IOMetrics
<1> QED BY <1>4, <1>5, <1>6, <1>7, <1>8 DEF PoolInv

(* A miss appends a key that was not cached and drops at most the oldest.  *)
LEMMA MissKeepsPoolInv ==
  ASSUME PoolInv, NEW k \in PageKeys, NEW page \in Pages,
         HFetch(k, page), Miss(k, page)
  PROVE  PoolInv'
<1> DEFINE n == Len(frames)
           m == Len(frames')
           room == n < FrameCount
<1>0. FramesOK
  BY DEF PoolInv, TypeOK, FramesOK
<1>1. /\ frames' = Append(AfterEviction, k)
      /\ k \notin Range(frames)
      /\ cached' = [x \in Range(frames') |-> IF x = k THEN page ELSE cached[x]]
      /\ returned' = page
      /\ metrics' = [metrics EXCEPT !.page_requests = @ + 1, !.buffer_misses = @ + 1]
      /\ lastRequest' = [lastRequest EXCEPT ![k] = clock + 1]
      /\ clock' = clock + 1
      /\ missesAtClear' = missesAtClear
  BY DEF Miss, HFetch
<1>2. /\ frames' \in Seq(PageKeys)
      /\ DOMAIN frames' = 1 .. m
      /\ \A i, j \in DOMAIN frames' : frames'[i] = frames'[j] => i = j
      /\ \/ /\ room
            /\ m = n + 1
            /\ \A i \in 1 .. n : frames'[i] = frames[i]
            /\ frames'[n + 1] = k
            /\ Range(frames') = Range(frames) \cup {k}
         \/ /\ n = FrameCount
            /\ m = n
            /\ \A i \in 1 .. n : frames'[i] = IF i < n THEN frames[i+1] ELSE k
            /\ Range(frames') = (Range(frames) \ {frames[1]}) \cup {k}
  BY <1>0, <1>1, MissOrder
<1>3. /\ n \in Nat /\ DOMAIN frames = 1 .. n /\ n <= FrameCount
      /\ FrameCount \in Nat \ {0}
  BY <1>0, LenProperties, FrameCountAssumption DEF FramesOK
<1> HIDE DEF n, m
<1>15. \/ n < FrameCount /\ m = n + 1 /\ Range(frames') = Range(frames) \cup {k}
       \/ /\ n = FrameCount /\ m = n
          /\ Range(frames') = (Range(frames) \ {frames[1]}) \cup {k}
  BY <1>2
<1>4. /\ m \in Nat \ {0} /\ m <= FrameCount
      /\ m < FrameCount => room /\ m = n + 1
  BY <1>3, <1>15
<1>5. Range(frames) \subseteq PageKeys /\ Range(frames') \subseteq PageKeys
  BY <1>0, <1>2, RangeOfSeq DEF FramesOK
<1>6. /\ lastRequest \in [PageKeys -> Nat] /\ clock \in Nat
      /\ \A u \in PageKeys : lastRequest[u] <= clock
      /\ \A u \in Range(frames) : lastRequest[u] > 0
  BY DEF PoolInv, TypeOK, TimesInThePast
<1>7. /\ lastRequest'[k] = clock + 1
      /\ \A u \in PageKeys \ {k} : lastRequest'[u] = lastRequest[u]
  BY <1>1, <1>6
<1>8. \A x \in Range(frames') : x = k \/ x \in Range(frames)
  BY <1>15
<1>9. \E d \in {0, 1} :
        \A i \in 1 .. m :
          /\ i < m => /\ i + d \in 1 .. n
                      /\ frames'[i] = frames[i + d]
                      /\ frames'[i] \in PageKeys \ {k}
          /\ i = m => frames'[i] = k
  <2>1. \A i \in 1 .. n : frames[i] \in PageKeys \ {k}
    BY <1>1, <1>3, <1>5 DEF Range
  <2>2. CASE room /\ m = n + 1
    <3>1. \A i \in 1 .. n : frames'[i] = frames[i]
      BY <1>2, <1>3, <2>2
    <3>2. frames'[n + 1] = k
      BY <1>2, <1>3, <2>2
    <3>3. \A i \in 1 .. m :
            /\ i < m => /\ i + 0 \in 1 .. n
                        /\ frames'[i] = frames[i + 0]
                        /\ frames'[i] \in PageKeys \ {k}
            /\ i = m => frames'[i] = k
      BY <1>3, <2>1, <2>2, <3>1, <3>2
    <3> QED BY <3>3
  <2>3. CASE m = n
    <3>1. \A i \in 1 .. n : frames'[i] = IF i < n THEN frames[i+1] ELSE k
      BY <1>2, <1>3, <2>3
    <3>2. \A i \in 1 .. m :
            /\ i < m => /\ i + 1 \in 1 .. n
                        /\ frames'[i] = frames[i + 1]
                        /\ frames'[i] \in PageKeys \ {k}
            /\ i = m => frames'[i] = k
      BY <1>3, <2>1, <2>3, <3>1
    <3> QED BY <3>2
  <2> QED BY <1>2, <2>2, <2>3
<1>10. TypeOK'
  <2>1. cached' \in [Range(frames') -> Pages]
    <3>1. cached \in [Range(frames) -> Pages]
      BY DEF PoolInv, TypeOK
    <3> QED BY <1>1, <1>8, <3>1
  <2>2. metrics' \in IOMetrics
    BY <1>1, CounterSteps DEF PoolInv, TypeOK
  <2>3. /\ lastRequest' \in [PageKeys -> Nat] /\ clock' \in Nat
        /\ missesAtClear' \in Nat
    BY <1>1, <1>6 DEF PoolInv, TypeOK
  <2> QED BY <1>1, <1>2, <1>4, <2>1, <2>2, <2>3 DEF TypeOK, m
<1>11. TimesInThePast'
  <2>1. \A u \in PageKeys : lastRequest'[u] <= clock'
    BY <1>1, <1>6, <1>7
  <2>2. \A u \in Range(frames') : lastRequest'[u] > 0
    BY <1>5, <1>6, <1>7, <1>8
  <2> QED BY <2>1, <2>2 DEF TimesInThePast
<1>12. FramesInRecencyOrder'
  <2> SUFFICES ASSUME NEW i \in 1 .. m, NEW j \in 1 .. m, i < j
               PROVE  lastRequest'[frames'[i]] < lastRequest'[frames'[j]]
    BY <1>2 DEF FramesInRecencyOrder, m
  <2>1. PICK d \in {0, 1} :
          \A x \in 1 .. m :
            /\ x < m => /\ x + d \in 1 .. n
                        /\ frames'[x] = frames[x + d]
                        /\ frames'[x] \in PageKeys \ {k}
            /\ x = m => frames'[x] = k
    BY <1>9
  <2>2. /\ i < m
        /\ frames'[i] \in PageKeys \ {k}
        /\ lastRequest'[frames'[i]] = lastRequest[frames'[i]]
    BY <1>4, <1>7, <2>1
  <2>3. CASE j = m
    BY <1>6, <1>7, <2>1, <2>2, <2>3
  <2>4. CASE j # m
    <3>1. j < m
      BY <1>4, <2>4
    <3>2. lastRequest'[frames'[j]] = lastRequest[frames'[j]]
      BY <1>7, <2>1, <3>1
    <3>3. i + d \in 1 .. n /\ j + d \in 1 .. n /\ i + d < j + d
      BY <2>1, <2>2, <3>1
    <3>4. lastRequest[frames[i + d]] < lastRequest[frames[j + d]]
      BY <1>3, <3>3 DEF PoolInv, FramesInRecencyOrder
    <3> QED BY <2>1, <2>2, <3>1, <3>2, <3>4
  <2> QED BY <2>3, <2>4
<1>13. MostRecentPagesCached'
  <2>1. ASSUME NEW x \in Range(frames'), NEW u \in PageKeys,
               lastRequest'[u] > lastRequest'[x]
        PROVE  u \in Range(frames')
    <3>1. CASE u = k
      BY <1>2, <3>1
    <3>2. CASE u # k /\ x = k
      BY <1>6, <1>7, <2>1, <3>2
    <3>3. CASE u # k /\ x # k
      <4>1. /\ x \in Range(frames) /\ x \in PageKeys
            /\ lastRequest[u] > lastRequest[x]
        BY <1>5, <1>7, <1>8, <2>1, <3>3
      <4>2. u \in Range(frames)
        BY <4>1 DEF PoolInv, MostRecentPagesCached
      <4>3. CASE room
        BY <1>3, <1>15, <4>2, <4>3
      <4>4. CASE ~room
        <5>1. Range(frames') = (Range(frames) \ {frames[1]}) \cup {k}
          BY <1>15, <4>4
        <5>2. x # frames[1]
          BY <3>3, <5>1
        <5>3. PICK i \in 1 .. n : frames[i] = x
          BY <1>3, <4>1 DEF Range
        <5>4. 1 \in 1 .. n /\ 1 < i
          BY <1>3, <5>2, <5>3
        <5>5. lastRequest[frames[1]] < lastRequest[x]
          BY <1>3, <5>3, <5>4 DEF PoolInv, FramesInRecencyOrder
        <5>6. frames[1] \in PageKeys
          BY <1>3, <1>5, <5>4 DEF Range
        <5>7. u # frames[1]
          BY <1>6, <4>1, <5>5, <5>6
        <5> QED BY <4>2, <5>1, <5>7
      <4> QED BY <4>3, <4>4
    <3> QED BY <3>1, <3>2, <3>3
  <2>2. Len(frames') < FrameCount => Requested' \subseteq Range(frames')
    <3> SUFFICES ASSUME m < FrameCount, NEW u \in PageKeys, lastRequest'[u] > 0
                 PROVE  u \in Range(frames')
      BY DEF Requested, m
    <3>1. room /\ Range(frames') = Range(frames) \cup {k}
      BY <1>3, <1>15
    <3>2. CASE u # k
      BY <1>7, <3>1, <3>2 DEF n, PoolInv, MostRecentPagesCached, Requested
    <3> QED BY <3>1, <3>2
  <2> QED BY <2>1, <2>2 DEF MostRecentPagesCached
<1>14. MissesAccounted'
  <2>1. metrics \in IOMetrics /\ missesAtClear \in Nat
    BY DEF PoolInv, TypeOK
  <2>2. /\ metrics'.page_requests = metrics.page_requests + 1
        /\ metrics'.buffer_hits = metrics.buffer_hits
        /\ metrics'.buffer_misses = metrics.buffer_misses + 1
    BY <1>1, <2>1 DEF IOMetrics
  <2>3. MissesAccounted
    BY DEF PoolInv
  <2>4. /\ metrics.page_requests = metrics.buffer_hits + metrics.buffer_misses
        /\ metrics.buffer_misses >= missesAtClear + n
        /\ n < FrameCount => metrics.buffer_misses = missesAtClear + n
    BY <2>3 DEF MissesAccounted, n
  <2>5. /\ metrics'.page_requests = metrics'.buffer_hits + metrics'.buffer_misses
        /\ metrics'.buffer_misses >= missesAtClear' + m
        /\ m < FrameCount => metrics'.buffer_misses = missesAtClear' + m
    <3>1. /\ metrics.page_requests \in Nat /\ metrics.buffer_hits \in Nat
          /\ metrics.buffer_misses \in Nat
      BY <2>1 DEF IOMetrics
    <3>2. missesAtClear' = missesAtClear /\ missesAtClear \in Nat /\ n \in Nat
          /\ FrameCount \in Nat
      BY <1>1, <1>3, <2>1
    <3>3. m <= n + 1 /\ m \in Int /\ (m < FrameCount => n < FrameCount /\ m = n + 1)
      BY <1>3, <1>4, <1>15
    <3>4. metrics'.page_requests = metrics'.buffer_hits + metrics'.buffer_misses
      BY <2>2, <2>4, <3>1
    <3>5. metrics'.buffer_misses >= missesAtClear' + m
      BY <2>2, <2>4, <3>1, <3>2, <3>3
    <3>6. m < FrameCount => metrics'.buffer_misses = missesAtClear' + m
      BY <2>2, <2>4, <3>1, <3>2, <3>3
    <3> QED BY <3>4, <3>5, <3>6
  <2> QED BY <2>5 DEF MissesAccounted, m
<1> QED BY <1>10, <1>11, <1>12, <1>13, <1>14 DEF PoolInv

(* A temporary page takes no frame.                                        *)
LEMMA WriteKeepsPoolInv ==
  ASSUME PoolInv, HWrite
  PROVE  PoolInv'
<1>1. /\ UNCHANGED <<frames, cached, returned, lastRequest, clock, missesAtClear>>
      /\ metrics' = [metrics EXCEPT !.page_writes = @ + 1]
  BY DEF HWrite, WriteTemporaryPage, history
<1>2. metrics \in IOMetrics
  BY DEF PoolInv, TypeOK
<1>3. /\ metrics' \in IOMetrics
      /\ metrics'.page_requests = metrics.page_requests
      /\ metrics'.buffer_hits = metrics.buffer_hits
      /\ metrics'.buffer_misses = metrics.buffer_misses
  BY <1>1, <1>2, CounterSteps DEF IOMetrics
<1>4. TypeOK'
  BY <1>1, <1>3 DEF PoolInv, TypeOK
<1>5. TimesInThePast' /\ FramesInRecencyOrder' /\ MostRecentPagesCached'
  BY <1>1 DEF PoolInv, TimesInThePast, FramesInRecencyOrder,
              MostRecentPagesCached, Requested
<1>6. MissesAccounted'
  BY <1>1, <1>3 DEF PoolInv, MissesAccounted
<1> QED BY <1>4, <1>5, <1>6 DEF PoolInv

(* A clear starts the history again, with the counters kept or dropped.    *)
LEMMA ClearKeepsPoolInv ==
  ASSUME PoolInv, NEW reset \in BOOLEAN, HClear(reset)
  PROVE  PoolInv'
<1>1. /\ frames' = <<>> /\ cached' = <<>> /\ returned' = returned
      /\ metrics' = IF reset THEN ZeroMetrics ELSE metrics
      /\ clock' = 0
      /\ lastRequest' = [k \in PageKeys |-> 0]
      /\ missesAtClear' = metrics'.buffer_misses
  BY DEF HClear, Clear
<1>2. /\ Len(frames') = 0 /\ DOMAIN frames' = {} /\ Range(frames') = {}
      /\ frames' \in Seq(PageKeys)
  BY <1>1, EmptySeq DEF Range
<1>3. metrics \in IOMetrics /\ MissesAccounted
  BY DEF PoolInv, TypeOK
<1>4. /\ metrics' \in IOMetrics
      /\ metrics'.page_requests = metrics'.buffer_hits + metrics'.buffer_misses
  <2>1. CASE reset
    BY <1>1, <2>1 DEF ZeroMetrics, IOMetrics
  <2>2. CASE ~reset
    BY <1>1, <1>3, <2>2 DEF MissesAccounted
  <2> QED BY <2>1, <2>2
<1>5. metrics'.buffer_misses \in Nat
  BY <1>4 DEF IOMetrics
<1>6. TypeOK'
  <2>1. cached' \in [Range(frames') -> Pages]
    BY <1>1, <1>2
  <2>2. returned' \in Pages \cup {NoPage}
    BY <1>1 DEF PoolInv, TypeOK
  <2> QED BY <1>1, <1>2, <1>4, <1>5, <2>1, <2>2, FrameCountAssumption DEF TypeOK
<1>7. TimesInThePast' /\ FramesInRecencyOrder'
  BY <1>1, <1>2 DEF TimesInThePast, FramesInRecencyOrder
<1>8. MostRecentPagesCached'
  BY <1>1, <1>2 DEF MostRecentPagesCached, Requested
<1>9. MissesAccounted'
  BY <1>1, <1>2, <1>4, <1>5 DEF MissesAccounted
<1> QED BY <1>6, <1>7, <1>8, <1>9 DEF PoolInv

LEMMA StepKeepsPoolInv ==
  ASSUME PoolInv, [HNext]_<<vars, history>>
  PROVE  PoolInv'
<1>1. ASSUME NEW k \in PageKeys, NEW page \in Pages, HFetch(k, page)
      PROVE  PoolInv'
  <2>1. CASE Hit(k)
    BY <1>1, <2>1, HitKeepsPoolInv
  <2>2. CASE Miss(k, page)
    BY <1>1, <2>2, MissKeepsPoolInv
  <2> QED BY <1>1, <2>1, <2>2 DEF HFetch, Fetch
<1>2. CASE HWrite
  BY <1>2, WriteKeepsPoolInv
<1>3. ASSUME NEW reset \in BOOLEAN, HClear(reset)
      PROVE  PoolInv'
  BY <1>3, ClearKeepsPoolInv
<1>4. CASE UNCHANGED <<vars, history>>
  BY <1>4 DEF vars, history, PoolInv, TypeOK, TimesInThePast, FramesInRecencyOrder,
              MostRecentPagesCached, Requested, MissesAccounted
<1> QED BY <1>1, <1>2, <1>3, <1>4 DEF HNext

(* Every reachable pool satisfies the inductive invariant.                 *)
THEOREM PoolInvariant == HSpec => []PoolInv
<1>1. PoolInv /\ [HNext]_<<vars, history>> => PoolInv'
  BY StepKeepsPoolInv
<1> QED BY <1>1, InitPoolInv, PTL DEF HSpec

(* The frames hold distinct keys, at most frame_count of them, and exactly *)
(* their pages, after any sequence of fetch, write and clear.              *)
THEOREM PoolTypeCorrect == HSpec => []TypeOK
<1>1. PoolInv => TypeOK
  BY DEF PoolInv
<1> QED BY <1>1, PoolInvariant, PTL

(* popitem(last=False) removes the least recently used page: the           *)
(* OrderedDict stays sorted by the time of the last fetch.                 *)
THEOREM PoolKeepsRecencyOrder == HSpec => []FramesInRecencyOrder
<1>1. PoolInv => FramesInRecencyOrder
  BY DEF PoolInv
<1> QED BY <1>1, PoolInvariant, PTL

(* No page that was evicted by fetch is more recent than one that stayed.  *)
THEOREM PoolKeepsRecentPages == HSpec => []MostRecentPagesCached
<1>1. PoolInv => MostRecentPagesCached
  BY DEF PoolInv
<1> QED BY <1>1, PoolInvariant, PTL

(* The counters that make the reported actual I/O agree with the frames.   *)
THEOREM PoolAccountsMisses == HSpec => []MissesAccounted
<1>1. PoolInv => MissesAccounted
  BY DEF PoolInv
<1> QED BY <1>1, PoolInvariant, PTL

-----------------------------------------------------------------------------
(* Distinct keys: the frames list as many keys as they have positions.     *)
LEMMA FramesCount ==
  ASSUME FramesOK
  PROVE  /\ IsFiniteSet(Range(frames))
         /\ Cardinality(Range(frames)) = Len(frames)
<1> DEFINE n == Len(frames)
<1>1. n \in Nat /\ frames \in [1 .. n -> PageKeys] /\ DOMAIN frames = 1 .. n
  BY LenProperties DEF FramesOK
<1>2. /\ frames \in [1 .. n -> Range(frames)]
      /\ \A i, j \in 1 .. n : frames[i] = frames[j] => i = j
      /\ \A u \in Range(frames) : \E i \in 1 .. n : frames[i] = u
  BY <1>1 DEF FramesOK, Range
<1>3. ExistsBijection(1 .. n, Range(frames))
  BY <1>2 DEF ExistsBijection, Bijection, Injection, Surjection, IsInjective
<1>4. IsFiniteSet(1 .. n) /\ Cardinality(1 .. n) = n
  BY <1>1, FS_Interval
<1> QED BY <1>3, <1>4, FS_Bijection

(* Each step of the pool is a step of the recency cache, or none.          *)
LEMMA StepRefines ==
  ASSUME PoolInv, [HNext]_<<vars, history>>
  PROVE  [Recency!Next]_(Recency!vars)
<1>0. FramesOK
  BY DEF PoolInv, TypeOK, FramesOK
<1>1. ASSUME NEW k \in PageKeys, NEW page \in Pages, HFetch(k, page), Hit(k)
      PROVE  Recency!Answer(k)
  <2>1. /\ k \in Range(frames) /\ frames' = MoveToEnd(k)
        /\ cached' = cached /\ returned' = cached[k]
        /\ metrics' = [metrics EXCEPT !.page_requests = @ + 1, !.buffer_hits = @ + 1]
        /\ clock' = clock + 1
        /\ lastRequest' = [lastRequest EXCEPT ![k] = clock + 1]
    BY <1>1 DEF HFetch, Hit
  <2>2. Range(frames') = Range(frames)
    BY <1>0, <2>1, HitOrder
  <2>3. metrics'.buffer_misses = metrics.buffer_misses
    BY <2>1 DEF PoolInv, TypeOK, IOMetrics
  <2> QED BY <2>1, <2>2, <2>3 DEF Recency!Answer, Recency!Touch
<1>2. ASSUME NEW k \in PageKeys, NEW page \in Pages, HFetch(k, page), Miss(k, page)
      PROVE  Recency!Load(k, page)
  <2>1. /\ k \notin Range(frames)
        /\ frames' = Append(AfterEviction, k)
        /\ cached' = [x \in Range(frames') |-> IF x = k THEN page ELSE cached[x]]
        /\ returned' = page
        /\ metrics' = [metrics EXCEPT !.page_requests = @ + 1, !.buffer_misses = @ + 1]
        /\ clock' = clock + 1
        /\ lastRequest' = [lastRequest EXCEPT ![k] = clock + 1]
    BY <1>2 DEF HFetch, Miss
  <2>2. metrics'.buffer_misses = metrics.buffer_misses + 1
    BY <2>1 DEF PoolInv, TypeOK, IOMetrics
  <2>3. \/ Len(frames) < FrameCount /\ Range(frames') = Range(frames) \cup {k}
        \/ /\ Len(frames) = FrameCount
           /\ Range(frames') = (Range(frames) \ {frames[1]}) \cup {k}
    BY <1>0, <2>1, MissOrder
  <2>4. Cardinality(Range(frames)) = Len(frames)
    BY <1>0, FramesCount
  <2>5. Len(frames) = FrameCount => Recency!Oldest(frames[1])
    <3> SUFFICES ASSUME Len(frames) = FrameCount
                 PROVE  Recency!Oldest(frames[1])
      OBVIOUS
    <3>1. DOMAIN frames = 1 .. Len(frames) /\ 1 \in DOMAIN frames
      BY <1>0, LenProperties, FrameCountAssumption DEF FramesOK
    <3>2. ASSUME NEW u \in Range(frames)
          PROVE  lastRequest[frames[1]] <= lastRequest[u]
      <4>1. PICK i \in DOMAIN frames : frames[i] = u
        BY DEF Range
      <4>2. frames[1] \in PageKeys /\ u \in PageKeys
        BY <1>0, <3>1, <4>1, ElementOfSeq DEF FramesOK
      <4>3. lastRequest[frames[1]] \in Nat /\ lastRequest[u] \in Nat
        BY <4>2 DEF PoolInv, TypeOK
      <4>4. CASE i = 1
        BY <4>1, <4>3, <4>4
      <4>5. CASE i # 1
        <5>1. 1 < i
          BY <3>1, <4>5
        <5> QED BY <3>1, <4>1, <4>3, <5>1 DEF PoolInv, FramesInRecencyOrder
      <4> QED BY <4>4, <4>5
    <3>3. frames[1] \in Range(frames)
      BY <3>1 DEF Range
    <3> QED BY <3>2, <3>3 DEF Recency!Oldest
  <2>6. \/ /\ Cardinality(Range(frames)) < FrameCount
           /\ Range(frames') = Range(frames) \cup {k}
        \/ /\ Cardinality(Range(frames)) = FrameCount
           /\ \E victim \in Range(frames) :
                /\ Recency!Oldest(victim)
                /\ Range(frames') = (Range(frames) \ {victim}) \cup {k}
    BY <2>3, <2>4, <2>5 DEF Recency!Oldest
  <2>7. Recency!Cardinality(Range(frames)) = Cardinality(Range(frames))
    BY DEF Recency!Cardinality, Cardinality
  <2> QED BY <2>1, <2>2, <2>6, <2>7 DEF Recency!Load, Recency!Touch
<1>3. CASE HWrite
  <2>1. /\ UNCHANGED <<frames, cached, returned, lastRequest, clock>>
        /\ metrics' = [metrics EXCEPT !.page_writes = @ + 1]
    BY <1>3 DEF HWrite, WriteTemporaryPage, history
  <2>2. metrics'.buffer_misses = metrics.buffer_misses
    BY <2>1 DEF PoolInv, TypeOK, IOMetrics
  <2> QED BY <2>1, <2>2 DEF Recency!vars, Range
<1>4. ASSUME NEW reset \in BOOLEAN, HClear(reset)
      PROVE  Recency!Forget
  <2>1. /\ frames' = <<>> /\ cached' = <<>> /\ returned' = returned
        /\ metrics' = IF reset THEN ZeroMetrics ELSE metrics
        /\ clock' = 0
        /\ lastRequest' = [k \in PageKeys |-> 0]
    BY <1>4 DEF HClear, Clear
  <2>2. Range(frames') = {}
    BY <2>1, EmptySeq DEF Range
  <2>3. metrics'.buffer_misses \in {0, metrics.buffer_misses}
    BY <2>1 DEF ZeroMetrics
  <2> QED BY <2>1, <2>2, <2>3 DEF Recency!Forget
<1>5. CASE UNCHANGED <<vars, history>>
  BY <1>5 DEF vars, history, Recency!vars, Range
<1> QED BY <1>1, <1>2, <1>3, <1>4, <1>5 DEF HNext, HFetch, Fetch, Recency!Next

(* The OrderedDict pool implements the recency cache: a request costs a    *)
(* load exactly when its key is not resident, and a load at capacity       *)
(* replaces the resident key nobody asked for the longest.                 *)
THEOREM PoolImplementsRecencyCache == HSpec => ImplementsRecencyCache
<1>1. HInit => Recency!Init
  <2> SUFFICES ASSUME HInit PROVE Recency!Init
    OBVIOUS
  <2>1. frames = <<>> /\ Range(frames) = {}
    BY EmptySeq DEF HInit, Init, Range
  <2> QED BY <2>1 DEF HInit, Init, Recency!Init, ZeroMetrics
<1>2. PoolInv /\ [HNext]_<<vars, history>> => [Recency!Next]_(Recency!vars)
  BY StepRefines
<1> QED BY <1>1, <1>2, PoolInvariant, PTL DEF HSpec, ImplementsRecencyCache, Recency!Spec
-----------------------------------------------------------------------------
(* LRU has the inclusion property, for every pair of frame counts: the     *)
(* smaller pool is the newest part of the larger one after every request,  *)
(* and so the larger one never reads more.  The larger pool satisfies      *)
(* PoolInv throughout; what is new is how one request changes two orders.  *)

SmallFramesOK ==
  /\ smallFrames \in Seq(PageKeys)
  /\ Len(smallFrames) <= SmallFrameCount

Comparable(m, l) ==
  /\ l \in IOMetrics
  /\ m.buffer_misses <= l.buffer_misses
  /\ m.page_writes = l.page_writes
  /\ m.page_requests = l.page_requests

CountersComparable == Comparable(metrics, smallMetrics)

SizesInv ==
  /\ PoolInv
  /\ SmallFramesOK
  /\ SmallIsNewestPartOfLarge
  /\ CountersComparable

-----------------------------------------------------------------------------
(* The numbers and positions every case below starts from.                 *)
LEMMA SizesFacts ==
  ASSUME SizesInv
  PROVE  /\ FramesOK
         /\ frames \in Seq(PageKeys) /\ smallFrames \in Seq(PageKeys)
         /\ Len(frames) \in Nat /\ Len(smallFrames) \in Nat
         /\ DOMAIN frames = 1 .. Len(frames)
         /\ DOMAIN smallFrames = 1 .. Len(smallFrames)
         /\ FrameCount \in Nat \ {0} /\ SmallFrameCount \in Nat \ {0}
         /\ SmallFrameCount <= FrameCount
         /\ Len(frames) <= FrameCount /\ Len(smallFrames) <= SmallFrameCount
         /\ Len(smallFrames) <= Len(frames)
         /\ Len(smallFrames) < SmallFrameCount => Len(smallFrames) = Len(frames)
         /\ \A i \in 1 .. Len(smallFrames) :
              smallFrames[i] = frames[i + (Len(frames) - Len(smallFrames))]
<1>1. FramesOK /\ frames \in Seq(PageKeys) /\ smallFrames \in Seq(PageKeys)
  BY DEF SizesInv, PoolInv, TypeOK, FramesOK, SmallFramesOK
<1>2. /\ Len(frames) \in Nat /\ Len(smallFrames) \in Nat
      /\ DOMAIN frames = 1 .. Len(frames)
      /\ DOMAIN smallFrames = 1 .. Len(smallFrames)
  BY <1>1, LenProperties
<1>3. /\ FrameCount \in Nat \ {0} /\ SmallFrameCount \in Nat \ {0}
      /\ SmallFrameCount <= FrameCount
  BY FrameCountAssumption, SizeAssumption
<1>4. Len(frames) <= FrameCount /\ Len(smallFrames) <= SmallFrameCount
  BY DEF SizesInv, PoolInv, TypeOK, SmallFramesOK
<1>5. /\ Len(frames) - Len(smallFrames) >= 0
      /\ \A i \in 1 .. Len(smallFrames) :
           smallFrames[i] = frames[i + (Len(frames) - Len(smallFrames))]
      /\ Len(smallFrames) < SmallFrameCount => Len(frames) - Len(smallFrames) = 0
  BY DEF SizesInv, SmallIsNewestPartOfLarge
<1>6. /\ Len(smallFrames) <= Len(frames)
      /\ Len(smallFrames) < SmallFrameCount => Len(smallFrames) = Len(frames)
  <2>1. \A n, m \in Nat : /\ n - m >= 0 => m <= n
                          /\ n - m = 0 => m = n
    OBVIOUS
  <2> QED BY <1>2, <1>5, <2>1
<1> QED BY <1>1, <1>2, <1>3, <1>4, <1>5, <1>6

(* How the cases below establish the inclusion after a request.            *)
LEMMA InclusionAt ==
  ASSUME NEW n \in Nat, NEW m \in Nat, m <= n,
         Len(frames') = n, Len(smallFrames') = m,
         \A i \in 1 .. m : smallFrames'[i] = frames'[i + (n - m)],
         m < SmallFrameCount => m = n
  PROVE  SmallIsNewestPartOfLarge'
<1>1. n - m >= 0 /\ (m < SmallFrameCount => n - m = 0)
  OBVIOUS
<1>2. \A i \in 1 .. Len(smallFrames') :
        smallFrames'[i] = frames'[i + (Len(frames') - Len(smallFrames'))]
  OBVIOUS
<1> QED BY <1>1, <1>2 DEF SmallIsNewestPartOfLarge

(* A key of the smaller pool is in the larger one, shifted; a key of the   *)
(* larger pool's newest part is in the smaller one.                        *)
LEMMA SizesRange ==
  ASSUME SizesInv, NEW p \in 1 .. Len(frames)
  PROVE  frames[p] \in Range(smallFrames) <=> p > Len(frames) - Len(smallFrames)
<1> DEFINE n == Len(frames)
           m == Len(smallFrames)
<1>1. /\ n \in Nat /\ m \in Nat /\ m <= n
      /\ DOMAIN frames = 1 .. n /\ DOMAIN smallFrames = 1 .. m
      /\ \A i \in 1 .. m : smallFrames[i] = frames[i + (n - m)]
      /\ \A i, j \in DOMAIN frames : frames[i] = frames[j] => i = j
  BY SizesFacts DEF FramesOK
<1> HIDE DEF n, m
<1>2. ASSUME p > n - m  PROVE frames[p] \in Range(smallFrames)
  <2>1. p - (n - m) \in 1 .. m /\ (p - (n - m)) + (n - m) = p
    BY <1>1, <1>2 DEF n
  <2>2. smallFrames[p - (n - m)] = frames[p]
    BY <1>1, <2>1
  <2> QED BY <1>1, <2>1, <2>2 DEF Range
<1>3. ASSUME frames[p] \in Range(smallFrames)  PROVE p > n - m
  <2>1. PICK i \in 1 .. m : smallFrames[i] = frames[p]
    BY <1>1, <1>3 DEF Range
  <2>2. i + (n - m) \in 1 .. n /\ frames[i + (n - m)] = frames[p]
    BY <1>1, <2>1
  <2>3. i + (n - m) = p
    BY <1>1, <2>2 DEF n
  <2> QED BY <1>1, <2>3
<1> QED BY <1>2, <1>3 DEF n, m

-----------------------------------------------------------------------------
(* Both pools have the page: the same key moves to the end of both.        *)
LEMMA HitBothKeepsInclusion ==
  ASSUME SizesInv, NEW k \in PageKeys, k \in Range(frames), k \in Range(smallFrames),
         frames' = MoveToEnd(k),
         smallFrames' = Small!MoveToEnd(k)
  PROVE  SmallFramesOK' /\ SmallIsNewestPartOfLarge'
<1> DEFINE n == Len(frames)
           m == Len(smallFrames)
           p == PositionOf(k)
           q == Small!PositionOf(k)
<1>1. /\ n \in Nat /\ m \in Nat /\ m <= n
      /\ DOMAIN frames = 1 .. n /\ DOMAIN smallFrames = 1 .. m
      /\ smallFrames \in Seq(PageKeys)
      /\ m <= SmallFrameCount
      /\ m < SmallFrameCount => m = n
      /\ \A i \in 1 .. m : smallFrames[i] = frames[i + (n - m)]
      /\ \A i, j \in DOMAIN frames : frames[i] = frames[j] => i = j
      /\ FramesOK
  BY SizesFacts DEF FramesOK
<1>2. /\ p \in 1 .. n /\ frames[p] = k
      /\ Len(frames') = n
      /\ \A i \in 1 .. n : frames'[i] = IF i < p THEN frames[i]
                                         ELSE IF i < n THEN frames[i+1] ELSE k
  BY <1>1, HitOrder
<1>3. q \in 1 .. m /\ smallFrames[q] = k
  BY <1>1 DEF Small!PositionOf, Range
<1>4. /\ smallFrames' \in Seq(PageKeys)
      /\ Len(smallFrames') = m
      /\ \A i \in 1 .. m : smallFrames'[i] = IF i < q THEN smallFrames[i]
                                              ELSE IF i < m THEN smallFrames[i+1] ELSE k
  <2>1. smallFrames' = Append(RemoveAt(smallFrames, q), k)
    BY DEF Small!MoveToEnd, Small!RemoveAt, RemoveAt
  <2>2. smallFrames \in Seq(PageKeys) /\ q \in 1 .. Len(smallFrames)
    BY <1>1, <1>3
  <2> HIDE DEF q
  <2>3. LET u == Append(RemoveAt(smallFrames, q), k)
        IN  /\ u \in Seq(PageKeys)
            /\ Len(u) = m
            /\ \A i \in 1 .. m : u[i] = IF i < q THEN smallFrames[i]
                                         ELSE IF i < m THEN smallFrames[i+1] ELSE k
    BY <2>2, RotateProperties
  <2> QED BY <2>1, <2>3
<1> HIDE DEF n, m, p, q
<1>5. p = q + (n - m)
  <2>1. q + (n - m) \in 1 .. n /\ frames[q + (n - m)] = k
    BY <1>1, <1>3
  <2> QED BY <1>1, <1>2, <2>1
<1>6. ASSUME NEW i \in 1 .. m  PROVE smallFrames'[i] = frames'[i + (n - m)]
  <2>1. i + (n - m) \in 1 .. n
    BY <1>1
  <2>2. CASE i < q
    <3>1. i + (n - m) < p
      BY <1>1, <1>3, <1>5, <2>2
    <3> QED BY <1>1, <1>2, <1>4, <2>1, <2>2, <3>1
  <2>3. CASE ~(i < q) /\ i < m
    <3>1. i + 1 \in 1 .. m /\ (i + 1) + (n - m) = (i + (n - m)) + 1
      BY <1>1, <2>3
    <3>2. ~(i + (n - m) < p) /\ i + (n - m) < n
      BY <1>1, <1>3, <1>5, <2>3
    <3>3. smallFrames'[i] = frames[(i + (n - m)) + 1]
      BY <1>1, <1>4, <2>3, <3>1
    <3>4. frames'[i + (n - m)] = frames[(i + (n - m)) + 1]
      BY <1>2, <2>1, <3>2
    <3> QED BY <3>3, <3>4
  <2>4. CASE ~(i < q) /\ ~(i < m)
    <3>1. ~(i + (n - m) < p) /\ ~(i + (n - m) < n)
      BY <1>1, <1>3, <1>5, <2>4
    <3> QED BY <1>2, <1>4, <2>1, <2>4, <3>1
  <2> QED BY <2>2, <2>3, <2>4
<1>7. SmallFramesOK'
  BY <1>1, <1>4 DEF SmallFramesOK
<1>8. SmallIsNewestPartOfLarge'
  <2>1. Len(frames') = n /\ Len(smallFrames') = m
    BY <1>2, <1>4
  <2> QED BY <1>1, <1>6, <2>1, InclusionAt
<1> QED BY <1>7, <1>8

(* Only the larger pool has the page: it is older than all the smaller one *)
(* holds, which is full and drops its oldest key for it.                   *)
LEMMA HitLargeKeepsInclusion ==
  ASSUME SizesInv, NEW k \in PageKeys, k \in Range(frames), k \notin Range(smallFrames),
         frames' = MoveToEnd(k),
         smallFrames' = Append(Small!AfterEviction, k)
  PROVE  SmallFramesOK' /\ SmallIsNewestPartOfLarge'
<1> DEFINE n == Len(frames)
           m == Len(smallFrames)
           p == PositionOf(k)
<1>1. /\ n \in Nat /\ m \in Nat /\ m <= n
      /\ smallFrames \in Seq(PageKeys)
      /\ SmallFrameCount \in Nat \ {0}
      /\ m <= SmallFrameCount
      /\ m < SmallFrameCount => m = n
      /\ \A i \in 1 .. m : smallFrames[i] = frames[i + (n - m)]
      /\ FramesOK
  BY SizesFacts
<1>2. /\ p \in 1 .. n /\ frames[p] = k
      /\ Len(frames') = n
      /\ \A i \in 1 .. n : frames'[i] = IF i < p THEN frames[i]
                                         ELSE IF i < n THEN frames[i+1] ELSE k
  BY <1>1, HitOrder
<1>3. ~(p > n - m)
  BY <1>2, SizesRange
<1>4. m = SmallFrameCount /\ smallFrames # <<>>
  <2>1. m = SmallFrameCount
    BY <1>1, <1>2, <1>3
  <2> QED BY <1>1, <2>1, EmptySeq
<1>5. /\ smallFrames' \in Seq(PageKeys)
      /\ Len(smallFrames') = m
      /\ \A i \in 1 .. m :
           smallFrames'[i] = IF i < m THEN smallFrames[i+1] ELSE k
  <2>1. Small!AfterEviction = Tail(smallFrames)
    BY <1>1, <1>4 DEF Small!AfterEviction
  <2> QED BY <1>1, <1>4, <2>1, ShiftProperties
<1> HIDE DEF n, m, p
<1>6. ASSUME NEW i \in 1 .. m  PROVE smallFrames'[i] = frames'[i + (n - m)]
  <2>1. i + (n - m) \in 1 .. n /\ ~(i + (n - m) < p)
    BY <1>1, <1>2, <1>3
  <2>2. CASE i < m
    <3>1. /\ i + 1 \in 1 .. m /\ (i + 1) + (n - m) = (i + (n - m)) + 1
          /\ i + (n - m) < n
      BY <1>1, <2>2
    <3>2. smallFrames'[i] = frames[(i + (n - m)) + 1]
      BY <1>1, <1>5, <2>2, <3>1
    <3>3. frames'[i + (n - m)] = frames[(i + (n - m)) + 1]
      BY <1>2, <2>1, <3>1
    <3> QED BY <3>2, <3>3
  <2>3. CASE ~(i < m)
    <3>1. ~(i + (n - m) < n)
      BY <1>1, <2>3
    <3> QED BY <1>2, <1>5, <2>1, <2>3, <3>1
  <2> QED BY <2>2, <2>3
<1>7. SmallFramesOK'
  BY <1>1, <1>5 DEF SmallFramesOK
<1>8. SmallIsNewestPartOfLarge'
  BY <1>1, <1>2, <1>5, <1>6, InclusionAt
<1> QED BY <1>7, <1>8

(* Neither pool has the page: each takes a free frame or drops its oldest, *)
(* and a free frame in the smaller pool means that the two are equal.      *)
LEMMA MissBothKeepsInclusion ==
  ASSUME SizesInv, NEW k \in PageKeys, k \notin Range(frames),
         frames' = Append(AfterEviction, k),
         smallFrames' = Append(Small!AfterEviction, k)
  PROVE  SmallFramesOK' /\ SmallIsNewestPartOfLarge'
<1> DEFINE n == Len(frames)
           m == Len(smallFrames)
<1>1. /\ n \in Nat /\ m \in Nat /\ m <= n
      /\ smallFrames \in Seq(PageKeys)
      /\ FrameCount \in Nat \ {0} /\ SmallFrameCount \in Nat \ {0}
      /\ SmallFrameCount <= FrameCount
      /\ m <= SmallFrameCount
      /\ m < SmallFrameCount => m = n
      /\ \A i \in 1 .. m : smallFrames[i] = frames[i + (n - m)]
      /\ FramesOK
  BY SizesFacts
<1>2. \/ /\ n < FrameCount
         /\ Len(frames') = n + 1
         /\ \A i \in 1 .. n : frames'[i] = frames[i]
         /\ frames'[n + 1] = k
      \/ /\ n = FrameCount
         /\ Len(frames') = n
         /\ \A i \in 1 .. n : frames'[i] = IF i < n THEN frames[i+1] ELSE k
  BY <1>1, MissOrder
<1>3. CASE m < SmallFrameCount
  <2>1. n = m /\ n < FrameCount
    BY <1>1, <1>3
  <2>2. /\ smallFrames' \in Seq(PageKeys)
        /\ Len(smallFrames') = m + 1
        /\ \A i \in 1 .. m : smallFrames'[i] = smallFrames[i]
        /\ smallFrames'[m + 1] = k
    <3>1. Small!AfterEviction = smallFrames
      BY <1>1, <1>3 DEF Small!AfterEviction
    <3> QED BY <1>1, <3>1, AppendProperties
  <2> HIDE DEF n, m
  <2>3. ASSUME NEW i \in 1 .. m + 1
        PROVE  smallFrames'[i] = frames'[i + ((n + 1) - (m + 1))]
    <3>1. i + ((n + 1) - (m + 1)) = i /\ i + (n - m) = i
      BY <1>1, <2>1
    <3>2. CASE i = m + 1
      BY <1>1, <1>2, <2>1, <2>2, <3>1, <3>2
    <3>3. CASE i # m + 1
      <4>1. i \in 1 .. m /\ i \in 1 .. n
        BY <1>1, <2>1, <3>3
      <4>2. smallFrames'[i] = frames[i] /\ frames'[i] = frames[i]
        BY <1>1, <1>2, <2>1, <2>2, <3>1, <4>1
      <4> QED BY <3>1, <4>2
    <3> QED BY <3>2, <3>3
  <2>4. Len(frames') = n + 1 /\ n + 1 \in Nat /\ m + 1 \in Nat /\ m + 1 <= n + 1
    BY <1>1, <1>2, <2>1
  <2>5. SmallFramesOK'
    BY <1>1, <1>3, <2>2 DEF SmallFramesOK
  <2>6. SmallIsNewestPartOfLarge'
    BY <2>1, <2>2, <2>3, <2>4, InclusionAt
  <2> QED BY <2>5, <2>6
<1>4. CASE ~(m < SmallFrameCount)
  <2>1. m = SmallFrameCount /\ smallFrames # <<>>
    <3>1. m = SmallFrameCount
      BY <1>1, <1>4
    <3> QED BY <1>1, <3>1, EmptySeq
  <2>2. /\ smallFrames' \in Seq(PageKeys)
        /\ Len(smallFrames') = m
        /\ \A i \in 1 .. m :
             smallFrames'[i] = IF i < m THEN smallFrames[i+1] ELSE k
    <3>1. Small!AfterEviction = Tail(smallFrames)
      BY <1>1, <2>1 DEF Small!AfterEviction
    <3> QED BY <1>1, <2>1, <3>1, ShiftProperties
  <2> HIDE DEF n, m
  <2> DEFINE x == Len(frames')
  <2>3. /\ x \in Nat /\ x >= n /\ x >= m
        /\ frames'[x] = k
        /\ \A i \in 1 .. x - 1 :
             i + (n - x) >= 0 => frames'[i] = frames[(i + (n - x)) + 1]
    <3>1. CASE n < FrameCount
      <4>1. /\ x = n + 1 /\ frames'[n + 1] = k
            /\ \A i \in 1 .. n : frames'[i] = frames[i]
        BY <1>1, <1>2, <3>1
      <4>2. /\ x \in Nat /\ x >= n /\ x >= m /\ x - 1 = (n + 1) - 1
        BY <1>1, <4>1
      <4>3. \A i \in 1 .. (n + 1) - 1 : i \in 1 .. n /\ (i + (n - (n + 1))) + 1 = i
        BY <1>1
      <4>4. \A i \in 1 .. x - 1 : frames'[i] = frames[(i + (n - x)) + 1]
        BY <4>1, <4>3
      <4> QED BY <4>1, <4>2, <4>4
    <3>2. CASE ~(n < FrameCount)
      <4>1. /\ n = FrameCount /\ x = n
            /\ \A i \in 1 .. n : frames'[i] = IF i < n THEN frames[i+1] ELSE k
        BY <1>2, <3>2
      <4>2. /\ x \in Nat /\ x >= n /\ x >= m
            /\ x \in 1 .. n /\ ~(x < n)
        BY <1>1, <4>1
      <4>3. \A i \in 1 .. x - 1 : i \in 1 .. n /\ i < n /\ (i + (n - x)) + 1 = i + 1
        BY <1>1, <4>1
      <4>4. \A i \in 1 .. x - 1 : frames'[i] = frames[(i + (n - x)) + 1]
        BY <4>1, <4>3
      <4>5. frames'[x] = k
        BY <4>1, <4>2
      <4> QED BY <4>2, <4>4, <4>5
    <3> QED BY <3>1, <3>2
  <2> HIDE DEF x
  <2>4. ASSUME NEW i \in 1 .. m  PROVE smallFrames'[i] = frames'[i + (x - m)]
    <3>1. CASE i < m
      <4>1. /\ i + 1 \in 1 .. m
            /\ i + (x - m) \in 1 .. x - 1
            /\ (i + (x - m)) + (n - x) >= 0
            /\ ((i + (x - m)) + (n - x)) + 1 = (i + 1) + (n - m)
        BY <1>1, <2>3, <3>1
      <4>2. smallFrames'[i] = frames[(i + 1) + (n - m)]
        BY <1>1, <2>2, <3>1, <4>1
      <4>3. frames'[i + (x - m)] = frames[((i + (x - m)) + (n - x)) + 1]
        BY <2>3, <4>1
      <4> QED BY <4>1, <4>2, <4>3
    <3>2. CASE ~(i < m)
      <4>1. i = m /\ x \in Nat
        BY <1>1, <2>3, <3>2
      <4>2. i + (x - m) = x
        BY <1>1, <4>1
      <4> QED BY <2>2, <2>3, <3>2, <4>2
    <3> QED BY <3>1, <3>2
  <2>5. SmallFramesOK'
    BY <1>1, <2>2 DEF SmallFramesOK
  <2>6. SmallIsNewestPartOfLarge'
    <3>1. x \in Nat /\ m <= x /\ Len(frames') = x /\ Len(smallFrames') = m
      BY <1>1, <2>2, <2>3 DEF x
    <3>2. ~(m < SmallFrameCount)
      BY <1>4
    <3> QED BY <1>1, <2>4, <3>1, <3>2, InclusionAt
  <2> QED BY <2>5, <2>6
<1> QED BY <1>3, <1>4

-----------------------------------------------------------------------------
(* The three ways one request changes the counters of both pools.          *)
LEMMA CountersStep ==
  ASSUME NEW u \in IOMetrics, NEW v, Comparable(u, v)
  PROVE  /\ Comparable([u EXCEPT !.page_requests = @ + 1, !.buffer_hits = @ + 1],
                       [v EXCEPT !.page_requests = @ + 1, !.buffer_hits = @ + 1])
         /\ Comparable([u EXCEPT !.page_requests = @ + 1, !.buffer_hits = @ + 1],
                       [v EXCEPT !.page_requests = @ + 1, !.buffer_misses = @ + 1])
         /\ Comparable([u EXCEPT !.page_requests = @ + 1, !.buffer_misses = @ + 1],
                       [v EXCEPT !.page_requests = @ + 1, !.buffer_misses = @ + 1])
<1> DEFINE hit(m) == [m EXCEPT !.page_requests = @ + 1, !.buffer_hits = @ + 1]
           miss(m) == [m EXCEPT !.page_requests = @ + 1, !.buffer_misses = @ + 1]
<1>1. ASSUME NEW m \in IOMetrics
      PROVE  /\ hit(m) \in IOMetrics
             /\ hit(m).page_requests = m.page_requests + 1
             /\ hit(m).buffer_misses = m.buffer_misses
             /\ hit(m).page_writes = m.page_writes
  <2>1. hit(m) \in IOMetrics
    BY CounterSteps
  <2>2. hit(m).page_requests = m.page_requests + 1
    BY DEF IOMetrics
  <2>3. hit(m).buffer_misses = m.buffer_misses
    BY DEF IOMetrics
  <2>4. hit(m).page_writes = m.page_writes
    BY DEF IOMetrics
  <2> QED BY <2>1, <2>2, <2>3, <2>4
<1>2. ASSUME NEW m \in IOMetrics
      PROVE  /\ miss(m) \in IOMetrics
             /\ miss(m).page_requests = m.page_requests + 1
             /\ miss(m).buffer_misses = m.buffer_misses + 1
             /\ miss(m).page_writes = m.page_writes
  <2>1. miss(m) \in IOMetrics
    BY CounterSteps
  <2>2. miss(m).page_requests = m.page_requests + 1
    BY DEF IOMetrics
  <2>3. miss(m).buffer_misses = m.buffer_misses + 1
    BY DEF IOMetrics
  <2>4. miss(m).page_writes = m.page_writes
    BY DEF IOMetrics
  <2> QED BY <2>1, <2>2, <2>3, <2>4
<1>3. /\ v \in IOMetrics
      /\ u.buffer_misses \in Nat /\ v.buffer_misses \in Nat
      /\ u.buffer_misses <= v.buffer_misses
      /\ u.page_writes = v.page_writes
      /\ u.page_requests = v.page_requests
  BY DEF Comparable, IOMetrics
<1> HIDE DEF hit, miss
<1>4. /\ Comparable(hit(u), hit(v))
      /\ Comparable(hit(u), miss(v))
      /\ Comparable(miss(u), miss(v))
  <2>1. /\ hit(u).buffer_misses <= hit(v).buffer_misses
        /\ hit(u).buffer_misses <= miss(v).buffer_misses
        /\ miss(u).buffer_misses <= miss(v).buffer_misses
    BY <1>1, <1>2, <1>3
  <2>2. /\ hit(v) \in IOMetrics /\ miss(v) \in IOMetrics
        /\ hit(u).page_writes = hit(v).page_writes
        /\ hit(u).page_writes = miss(v).page_writes
        /\ miss(u).page_writes = miss(v).page_writes
        /\ hit(u).page_requests = hit(v).page_requests
        /\ hit(u).page_requests = miss(v).page_requests
        /\ miss(u).page_requests = miss(v).page_requests
    BY <1>1, <1>2, <1>3
  <2> QED BY <2>1, <2>2 DEF Comparable
<1> QED BY <1>4 DEF hit, miss

(* A page the larger pool reads is not in the smaller one either, so that  *)
(* every miss of the larger pool is a miss of both.                        *)
LEMMA FetchKeepsSizesInv ==
  ASSUME SizesInv, NEW k \in PageKeys, NEW page \in Pages, FetchBoth(k, page)
  PROVE  SmallFramesOK' /\ SmallIsNewestPartOfLarge' /\ CountersComparable'
<1>1. /\ Hit(k) \/ Miss(k, page)
      /\ Small!Hit(k) \/ Small!Miss(k, page)
  BY DEF FetchBoth, HFetch, Fetch, Small!Fetch
<1>2. Range(smallFrames) = Small!Range(smallFrames)
  BY DEF Range, Small!Range
<1>3. k \in Range(smallFrames) => k \in Range(frames)
  <2> SUFFICES ASSUME k \in Range(smallFrames)  PROVE k \in Range(frames)
    OBVIOUS
  <2> DEFINE n == Len(frames)
             m == Len(smallFrames)
  <2>1. /\ n \in Nat /\ m \in Nat /\ m <= n
        /\ DOMAIN frames = 1 .. n /\ DOMAIN smallFrames = 1 .. m
        /\ \A i \in 1 .. m : smallFrames[i] = frames[i + (n - m)]
    BY SizesFacts
  <2> HIDE DEF n, m
  <2>2. PICK i \in 1 .. m : smallFrames[i] = k
    BY <2>1 DEF Range
  <2>3. i + (n - m) \in 1 .. n /\ frames[i + (n - m)] = k
    BY <2>1, <2>2
  <2> QED BY <2>1, <2>3 DEF Range
<1>4. metrics \in IOMetrics /\ Comparable(metrics, smallMetrics)
  BY DEF SizesInv, PoolInv, TypeOK, CountersComparable
<1>5. CASE Hit(k) /\ Small!Hit(k)
  <2>1. /\ k \in Range(frames) /\ k \in Range(smallFrames)
        /\ frames' = MoveToEnd(k) /\ smallFrames' = Small!MoveToEnd(k)
    BY <1>2, <1>5 DEF Hit, Small!Hit
  <2>2. /\ metrics' = [metrics EXCEPT !.page_requests = @ + 1, !.buffer_hits = @ + 1]
        /\ smallMetrics' = [smallMetrics EXCEPT !.page_requests = @ + 1, !.buffer_hits = @ + 1]
    BY <1>5 DEF Hit, Small!Hit
  <2>3. CountersComparable'
    BY <1>4, <2>2, CountersStep DEF CountersComparable
  <2> QED BY <2>1, <2>3, HitBothKeepsInclusion
<1>6. CASE Hit(k) /\ Small!Miss(k, page)
  <2>1. /\ k \in Range(frames) /\ k \notin Range(smallFrames)
        /\ frames' = MoveToEnd(k) /\ smallFrames' = Append(Small!AfterEviction, k)
    BY <1>2, <1>6 DEF Hit, Small!Miss
  <2>2. /\ metrics' = [metrics EXCEPT !.page_requests = @ + 1, !.buffer_hits = @ + 1]
        /\ smallMetrics' = [smallMetrics EXCEPT !.page_requests = @ + 1, !.buffer_misses = @ + 1]
    BY <1>6 DEF Hit, Small!Miss
  <2>3. CountersComparable'
    BY <1>4, <2>2, CountersStep DEF CountersComparable
  <2> QED BY <2>1, <2>3, HitLargeKeepsInclusion
<1>7. CASE Miss(k, page) /\ Small!Miss(k, page)
  <2>1. /\ k \notin Range(frames)
        /\ frames' = Append(AfterEviction, k)
        /\ smallFrames' = Append(Small!AfterEviction, k)
    BY <1>7 DEF Miss, Small!Miss
  <2>2. /\ metrics' = [metrics EXCEPT !.page_requests = @ + 1, !.buffer_misses = @ + 1]
        /\ smallMetrics' = [smallMetrics EXCEPT !.page_requests = @ + 1, !.buffer_misses = @ + 1]
    BY <1>7 DEF Miss, Small!Miss
  <2>3. CountersComparable'
    BY <1>4, <2>2, CountersStep DEF CountersComparable
  <2> QED BY <2>1, <2>3, MissBothKeepsInclusion
<1>8. ~(Miss(k, page) /\ Small!Hit(k))
  BY <1>2, <1>3 DEF Miss, Small!Hit
<1> QED BY <1>1, <1>5, <1>6, <1>7, <1>8

LEMMA InitSizesInv ==
  ASSUME InitBoth
  PROVE  SizesInv
<1>1. PoolInv
  BY InitPoolInv DEF InitBoth
<1>2. frames = <<>> /\ smallFrames = <<>> /\ Len(<<>>) = 0 /\ <<>> \in Seq(PageKeys)
  BY EmptySeq DEF InitBoth, HInit, Init, Small!Init
<1>3. SmallFramesOK
  BY <1>2, SizeAssumption DEF SmallFramesOK
<1>4. SmallIsNewestPartOfLarge
  BY <1>2 DEF SmallIsNewestPartOfLarge
<1>5. CountersComparable
  BY DEF InitBoth, HInit, Init, Small!Init, Small!ZeroMetrics, ZeroMetrics,
         CountersComparable, Comparable, IOMetrics
<1> QED BY <1>1, <1>3, <1>4, <1>5 DEF SizesInv

LEMMA StepKeepsSizesInv ==
  ASSUME SizesInv, [NextBoth]_<<vars, history, smallVars>>
  PROVE  SizesInv'
<1>1. PoolInv'
  <2>1. [HNext]_<<vars, history>>
    BY DEF NextBoth, FetchBoth, WriteBoth, ClearBoth, HNext
  <2> QED BY <2>1, StepKeepsPoolInv DEF SizesInv
<1>2. metrics \in IOMetrics /\ Comparable(metrics, smallMetrics)
  BY DEF SizesInv, PoolInv, TypeOK, CountersComparable
<1>3. ASSUME NEW k \in PageKeys, NEW page \in Pages, FetchBoth(k, page)
      PROVE  SizesInv'
  BY <1>1, <1>3, FetchKeepsSizesInv DEF SizesInv
<1>4. CASE WriteBoth
  <2>1. UNCHANGED <<frames, smallFrames>>
    BY <1>4 DEF WriteBoth, HWrite, WriteTemporaryPage, Small!WriteTemporaryPage
  <2>2. /\ metrics' = [metrics EXCEPT !.page_writes = @ + 1]
        /\ smallMetrics' = [smallMetrics EXCEPT !.page_writes = @ + 1]
    BY <1>4 DEF WriteBoth, HWrite, WriteTemporaryPage, Small!WriteTemporaryPage
  <2>3. CountersComparable'
    BY <1>2, <2>2 DEF CountersComparable, Comparable, IOMetrics
  <2>4. SmallFramesOK' /\ SmallIsNewestPartOfLarge'
    BY <2>1 DEF SizesInv, SmallFramesOK, SmallIsNewestPartOfLarge
  <2> QED BY <1>1, <2>3, <2>4 DEF SizesInv
<1>5. ASSUME NEW reset \in BOOLEAN, ClearBoth(reset)
      PROVE  SizesInv'
  <2>1. frames' = <<>> /\ smallFrames' = <<>> /\ Len(<<>>) = 0 /\ <<>> \in Seq(PageKeys)
    BY <1>5, EmptySeq DEF ClearBoth, HClear, Clear, Small!Clear
  <2>2. /\ metrics' = IF reset THEN ZeroMetrics ELSE metrics
        /\ smallMetrics' = IF reset THEN ZeroMetrics ELSE smallMetrics
    BY <1>5 DEF ClearBoth, HClear, Clear, Small!Clear, ZeroMetrics, Small!ZeroMetrics
  <2>3. CountersComparable'
    <3>1. Comparable(ZeroMetrics, ZeroMetrics)
      BY DEF Comparable, ZeroMetrics, IOMetrics
    <3> QED BY <1>2, <2>2, <3>1 DEF CountersComparable
  <2>4. SmallFramesOK'
    BY <2>1, SizeAssumption DEF SmallFramesOK
  <2>5. SmallIsNewestPartOfLarge'
    BY <2>1 DEF SmallIsNewestPartOfLarge
  <2> QED BY <1>1, <2>3, <2>4, <2>5 DEF SizesInv
<1>6. CASE UNCHANGED <<vars, history, smallVars>>
  <2>1. UNCHANGED <<frames, metrics, smallFrames, smallMetrics>>
    BY <1>6 DEF vars, smallVars
  <2> QED BY <1>1, <2>1 DEF SizesInv, SmallFramesOK, SmallIsNewestPartOfLarge,
                            CountersComparable
<1> QED BY <1>3, <1>4, <1>5, <1>6 DEF NextBoth

(* Every reachable pair of pools satisfies the inductive invariant.        *)
THEOREM SizesInvariant == SpecBoth => []SizesInv
<1>1. InitBoth => SizesInv
  BY InitSizesInv
<1>2. SizesInv /\ [NextBoth]_<<vars, history, smallVars>> => SizesInv'
  BY StepKeepsSizesInv
<1> QED BY <1>1, <1>2, PTL DEF SpecBoth

(* Whatever was requested, written and cleared, a pool with fewer frames   *)
(* holds exactly the pages the OrderedDict of a larger one lists last.     *)
THEOREM SmallPoolIsPartOfLarge == SpecBoth => []SmallIsNewestPartOfLarge
<1>1. SizesInv => SmallIsNewestPartOfLarge
  BY DEF SizesInv
<1> QED BY <1>1, SizesInvariant, PTL

(* A larger --buffer-frames never makes the same requests cost more actual *)
(* I/O, for any two frame counts.                                          *)
THEOREM MoreFramesAreNeverWorse == SpecBoth => []MoreFramesNeverReadMore
<1>1. SizesInv => MoreFramesNeverReadMore
  <2> SUFFICES ASSUME SizesInv PROVE MoreFramesNeverReadMore
    OBVIOUS
  <2>1. /\ metrics \in IOMetrics /\ smallMetrics \in IOMetrics
        /\ metrics.buffer_misses <= smallMetrics.buffer_misses
        /\ metrics.page_writes = smallMetrics.page_writes
        /\ metrics.page_requests = smallMetrics.page_requests
    BY DEF SizesInv, PoolInv, TypeOK, CountersComparable, Comparable
  <2>2. metrics.buffer_misses + metrics.page_writes
          <= smallMetrics.buffer_misses + smallMetrics.page_writes
    BY <2>1 DEF IOMetrics
  <2> QED BY <2>1, <2>2 DEF MoreFramesNeverReadMore, ActualIO
<1> QED BY <1>1, SizesInvariant, PTL
=============================================================================
