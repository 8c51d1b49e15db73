---------------------------- MODULE SpendBudget ----------------------------
(***************************************************************************)
(* What the ledger promises, without routes, retries, crashes or sweeps: a *)
(* hold is granted only inside every cap of its day, an amount is settled  *)
(* once and stands, and spend of other kinds is booked outside the caps.   *)
(***************************************************************************)
EXTENDS Integers, Functions

CONSTANTS Requests, Calls, Users, Properties, UserOf, PropertyOf, Estimate,
          UserCap, PropertyCap, GlobalCap

VARIABLES today, status, amount, day

budgetVars == <<today, status, amount, day>>
Entries == Requests \cup Calls

Init ==
  /\ today = 0
  /\ status = [r \in Entries |-> "none"]
  /\ amount = [r \in Entries |-> 0]
  /\ day = [r \in Entries |-> 0]

Spent(S) == SumFunctionOnSet(amount, S)
OfToday == {r \in Requests : status[r] # "none" /\ day[r] = today}

\* A hold fits under the caps of its user, of its hotel and of everyone.
Fits(r) ==
  /\ Spent({q \in OfToday : UserOf[q] = UserOf[r]}) + Estimate[r] <= UserCap[UserOf[r]]
  /\ Spent({q \in OfToday : PropertyOf[q] = PropertyOf[r]}) + Estimate[r] <= PropertyCap
  /\ Spent(OfToday) + Estimate[r] <= GlobalCap

Grant(r) ==
  /\ status[r] = "none" /\ Fits(r)
  /\ status' = [status EXCEPT ![r] = "held"]
  /\ amount' = [amount EXCEPT ![r] = Estimate[r]]
  /\ day' = [day EXCEPT ![r] = today]
  /\ UNCHANGED today

Settle(r) ==
  /\ status[r] = "held"
  /\ status' = [status EXCEPT ![r] = "settled"]
  /\ amount' = [amount EXCEPT ![r] = amount'[r]] /\ amount'[r] >= 0
  /\ UNCHANGED <<today, day>>

\* Holds that nobody will settle are released together.
Release(S) ==
  /\ \A r \in S : status[r] = "held"
  /\ status' = [r \in Entries |-> IF r \in S THEN "settled" ELSE status[r]]
  /\ amount' = [r \in Entries |-> IF r \in S THEN 0 ELSE amount[r]]
  /\ UNCHANGED <<today, day>>

Book(c) ==
  /\ status[c] = "none"
  /\ status' = [status EXCEPT ![c] = "settled"]
  /\ amount' = [amount EXCEPT ![c] = amount'[c]] /\ amount'[c] > 0
  /\ day' = [day EXCEPT ![c] = today]
  /\ UNCHANGED today

NewDay == today' = today + 1 /\ UNCHANGED <<status, amount, day>>

Next ==
  \/ NewDay
  \/ \E r \in Requests : Grant(r) \/ Settle(r)
  \/ \E S \in SUBSET Requests : Release(S)
  \/ \E c \in Calls : Book(c)

Spec == Init /\ [][Next]_budgetVars
=============================================================================
