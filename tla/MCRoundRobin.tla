---------------------------- MODULE MCRoundRobin ----------------------------
(* RoundRobin with the values TLC needs: bursts of none, one and several      *)
(* quanta, and arrivals close together and after a gap.                       *)
EXTENDS RoundRobin

Times == {0, 1, 3, 8}
Lengths == {0, 2, 5}
=============================================================================
