--------------------------- MODULE MCVADDetector ---------------------------
(* The instances of VADDetector that TLC checks: thresholds of two or three  *)
(* frames, a lookback of two, and a call long enough for several utterances  *)
(* to meet the ceiling, the silence rule and, in one run, the other calls.   *)
EXTENDS VADDetector

NoCalls == {}
AllCalls == {"override", "reset"}
=============================================================================
