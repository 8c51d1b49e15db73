--------------------------- MODULE MCApprovalGate ---------------------------
(* Instances of ApprovalGate for TLC: two cards, one read, two or three taps. *)
EXTENDS ApprovalGate

CONSTANTS a, b, x, q1, q2, q3
=============================================================================
