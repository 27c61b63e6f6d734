----------------------------- MODULE MCGateway -----------------------------
(* The instances of Gateway that TLC checks: the channel holds two chunks of  *)
(* four, so that the relay and the pump wait on each other.                   *)
EXTENDS Gateway
=============================================================================
