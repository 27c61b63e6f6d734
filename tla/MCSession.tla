----------------------------- MODULE MCSession -----------------------------
(* The instances of Session that TLC checks: a channel smaller than the       *)
(* number of chunks, so that it fills, and two callbacks, so that they race.  *)
EXTENDS Session
=============================================================================
