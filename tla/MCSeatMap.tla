----------------------------- MODULE MCSeatMap -----------------------------
(* Small instance of SeatMap for TLC.                                      *)
EXTENDS SeatMap, TLC

CONSTANTS r1, a, p1, c1

MCSlotOf == [r \in Ids |-> a]

=============================================================================
