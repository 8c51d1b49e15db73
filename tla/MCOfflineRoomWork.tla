------------------------- MODULE MCOfflineRoomWork -------------------------
(* Instances of OfflineRoomWork for TLC: two actions, two requests at a time. *)
EXTENDS OfflineRoomWork

CONSTANTS a1, a2, s1, s2
=============================================================================
