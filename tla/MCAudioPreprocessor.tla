------------------------ MODULE MCAudioPreprocessor ------------------------
(* The instance of AudioPreprocessor that TLC checks.  In units of 400 Hz the *)
(* rates stand for 16 kHz (no resampling), 8 kHz (up by two) and one that     *)
(* neither fills its 100 ms with whole samples nor divides the target rate.   *)
EXTENDS AudioPreprocessor

DeclaredRates == {40, 20, 25}
=============================================================================
