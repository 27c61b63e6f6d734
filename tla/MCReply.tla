------------------------------ MODULE MCReply ------------------------------
(* The instance of Reply that TLC checks.  Piper's 22.05 kHz and the 8 kHz of *)
(* the call are scaled to 22 and 8, a chunk to two samples: a WAV makes two   *)
(* chunks, the last one short, one, or none.  One whose samples are not 16    *)
(* bits ends the utterance as an exception of synthesize does.  The first     *)
(* reply is long enough for two sentences, or one and a rest.                 *)
EXTENDS Reply

PiperWavs == {[width |-> 2, rate |-> 22, samples |-> n] : n \in {0, 5, 8}}
TextLengths == <<6, 3>>
=============================================================================
