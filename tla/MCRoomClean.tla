----------------------------- MODULE MCRoomClean -----------------------------
(* Instances of RoomClean for TLC: one tick is a minute. *)
EXTENDS RoomClean, TLC

CONSTANTS t1, t2, t3

\* The taps differ in nothing; no liveness is checked.
TapSymmetry == Permutations(Taps)
=============================================================================
