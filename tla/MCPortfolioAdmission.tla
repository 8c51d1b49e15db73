------------------------ MODULE MCPortfolioAdmission ------------------------
(* An instance of PortfolioAdmission for TLC: three requests around the end *)
(* of a minute and of an hour.                                             *)
EXTENDS PortfolioAdmission, TLC

CONSTANTS r1, r2, r3

MCCap == "minute" :> 1 @@ "hour" :> 2
MCLength == "minute" :> 1 @@ "hour" :> 4
MCBucketOf == [u \in {"minute", "hour"} |-> [t \in 0..MaxNow |-> t - (t % MCLength[u])]]
MCSymmetry == Permutations({r1, r2, r3})
=============================================================================
