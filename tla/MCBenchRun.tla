----------------------------- MODULE MCBenchRun -----------------------------
(* The instance of BenchRun that TLC checks: one cold repeat, whose call of   *)
(* two turns has what the first left behind meet the second, and one warm     *)
(* run, where the warm-up call's meets another call on the same stack, and    *)
(* what survives the cold repeat's stack meets the warm run's.                *)
EXTENDS BenchRun

ColdLog == {<<"cold", 1>>}
=============================================================================
