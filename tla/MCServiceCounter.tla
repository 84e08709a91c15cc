-------------------------- MODULE MCServiceCounter --------------------------
(* ServiceCounter with the values TLC needs. *)
EXTENDS ServiceCounter, TLC

CONSTANTS k1, k2
TwoCounters == {k1, k2}
=============================================================================
