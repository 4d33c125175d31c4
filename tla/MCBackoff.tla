----------------------------- MODULE MCBackoff ------------------------------
(* Backoff with durations of eight bits.                                   *)
EXTENDS Backoff

AllDelays == -2..MaxInt
=============================================================================
