--------------------------- MODULE MCSpendLedger ---------------------------
(***************************************************************************)
(* Instances of SpendLedger for TLC. One tick is a minute: a route lives   *)
(* at most one, a hold at most two, and midnight falls inside the horizon. *)
(***************************************************************************)
EXTENDS SpendLedger, TLC

CONSTANTS r1, r2, c1, u1, p1

MCUsers == {u1}
MCProperties == {p1}
\* One user of one hotel: the second request meets the rate limit, the free cap
\* binds when the tier lookup fails, and the hotel and global caps otherwise.
MCUserOf == [r \in Rows |-> u1]
MCPropertyOf == [r \in Rows |-> p1]
MCEstimate == [r \in Requests |-> 2]
CapSizedEstimate == [r \in Requests |-> 3]
MCTierCap == [u \in Users |-> 4]
MCCharges == {1, 3}
UnitCharge == {1}
\* The two requests differ in nothing; used where no liveness is checked.
RequestSymmetry == Permutations({r1, r2})
=============================================================================
