--------------------------- MODULE MCSjfPriority ---------------------------
(* SjfPriority with the values TLC needs: bursts that make a newcomer the    *)
(* shorter one, and priorities that the ageing can bring level.              *)
EXTENDS SjfPriority

Times == {0, 1, 3}
Lengths == {1, 3, 5}
Priorities == {0, 2}
=============================================================================
