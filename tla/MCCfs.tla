------------------------------- MODULE MCCfs -------------------------------
(* Cfs with the values TLC needs: weights that are far apart and arrivals    *)
(* that fall into the turns of others.                                       *)
EXTENDS Cfs

Times == {0, 2, 6}
Lengths == {1, 5, 8}
NiceValues == {0, 1, 20}
=============================================================================
