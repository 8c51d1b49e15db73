---------------------------- MODULE ConsentOnce ----------------------------
(***************************************************************************)
(* What the approval gate promises the user of a card: nothing is done     *)
(* without a consent, it is done at most once, and neither a refusal nor a *)
(* lapse is ever turned into a consent, or the other way round.            *)
(***************************************************************************)
EXTENDS Naturals

CONSTANT Cards
VARIABLES verdict, done

consentVars == <<verdict, done>>

Init ==
  /\ verdict \in [Cards -> {"absent", "pending"}]
  /\ done = [c \in Cards |-> 0]

Propose(c) ==
  /\ verdict[c] = "absent"
  /\ verdict' = [verdict EXCEPT ![c] = "pending"]
  /\ UNCHANGED done

Answer(c, v) ==
  /\ verdict[c] = "pending" /\ v \in {"consented", "denied"}
  /\ verdict' = [verdict EXCEPT ![c] = v]
  /\ UNCHANGED done

Lapse(S) ==
  /\ \A c \in S : verdict[c] = "pending"
  /\ verdict' = [c \in Cards |-> IF c \in S THEN "expired" ELSE verdict[c]]
  /\ UNCHANGED done

Act(c) ==
  /\ verdict[c] = "consented" /\ done[c] = 0
  /\ done' = [done EXCEPT ![c] = 1]
  /\ UNCHANGED verdict

Next ==
  \/ \E c \in Cards : Propose(c) \/ Act(c) \/ \E v \in {"consented", "denied"} : Answer(c, v)
  \/ \E S \in SUBSET Cards : Lapse(S)

Spec == Init /\ [][Next]_consentVars
=============================================================================
