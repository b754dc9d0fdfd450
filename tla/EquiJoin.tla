------------------------------ MODULE EquiJoin ------------------------------
(***************************************************************************)
(* What every physical join promises, whatever its algorithm: it emits     *)
(* matching pairs only, each of them once, and returns when it has emitted *)
(* them all.  It fails in one case only, a reversed join condition with    *)
(* rows on one side and none on the other.                                 *)
(***************************************************************************)
EXTENDS JoinInputs

Emit ==
  /\ status = "running"
  /\ IsPrefix(output, output')
  /\ Range(output') \subseteq Matches
  /\ IsInjective(output')
  /\ UNCHANGED <<left, right, reversed, status>>

Finish ==
  /\ status = "running"
  /\ Range(output) = Matches
  /\ Return

Fail ==
  /\ status = "running"
  /\ reversed
  /\ (left = <<>>) # (right = <<>>)
  /\ RaiseKeyError

Next == Emit \/ Finish \/ Fail

Spec == JoinInit /\ [][Next]_joinVars
=============================================================================
