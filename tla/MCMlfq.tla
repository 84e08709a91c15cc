------------------------------- MODULE MCMlfq -------------------------------
(* Mlfq with the values TLC needs: processes on both sides of every band and *)
(* bursts that outlast the slices.                                           *)
EXTENDS Mlfq

Times == {0, 2}
Lengths == {1, 9}
Priorities == {3, 9, 11, 21}
=============================================================================
