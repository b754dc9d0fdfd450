--------------------------- MODULE PageArithmetic ---------------------------
(***************************************************************************)
(* Rounding of rows to pages and of pages to passes, the same all over     *)
(* querylab, and fractions <<numerator, denominator>> for its floats.      *)
(***************************************************************************)
EXTENDS Integers

CeilDiv(a, b) == (a + b - 1) \div b

AtLeast(least, n) == IF n < least THEN least ELSE n
AtLeastOne(n) == AtLeast(1, n)

(* ceil(log(n, base)) for n > 0, without the rounding of the logarithm.    *)
CeilLog(n, base) ==
  LET power[e \in 0 .. n] == IF e = 0 THEN 1 ELSE base * power[e-1]
  IN  CHOOSE e \in 0 .. n : power[e] >= n /\ (e > 0 => power[e-1] < n)

(* Two frames are kept for the inner input and the output of a join, and   *)
(* one for the output of a merge.                                          *)
JoinFrames(buffer_frames) == AtLeastOne(buffer_frames - 2)
MergeFrames(buffer_frames) == AtLeast(2, buffer_frames - 1)

(* _external_sort_io: each pass writes and rereads every page.             *)
ExternalSortIO(page_count, buffer_frames) ==
  IF page_count <= buffer_frames THEN 0
  ELSE 2 * page_count
         * (1 + CeilLog(CeilDiv(page_count, buffer_frames), MergeFrames(buffer_frames)))

-----------------------------------------------------------------------------
Times(x, y) == <<x[1] * y[1], x[2] * y[2]>>
Ceil(x) == CeilDiv(x[1], x[2])
LessEq(x, y) == x[1] * y[2] <= y[1] * x[2]
SameAs(x, y) == x[1] * y[2] = y[1] * x[2]
=============================================================================
