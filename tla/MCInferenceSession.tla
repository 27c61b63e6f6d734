------------------------ MODULE MCInferenceSession ------------------------
(* The instances of InferenceSession that TLC checks: events without end, two *)
(* utterances, the default system prompt and one the client sends.            *)
(* HistoryMax is odd and one, so that the reply to the second utterance is    *)
(* already given a trimmed history.                                           *)
EXTENDS InferenceSession
=============================================================================
