-------------------------- MODULE MCStreamSession ---------------------------
(***************************************************************************)
(* Instances of StreamSession for TLC.  The totals let the counters grow,  *)
(* fall behind the baseline (an account that was wiped) and push the       *)
(* balance past both ends of its range.                                    *)
(***************************************************************************)
EXTENDS StreamSession

T(l, i) == [loot |-> l, invested |-> i]

MCTotals == {T(1, 0), T(3, 1), T(1, 4)}

MCDemoLoss == -1
=============================================================================
