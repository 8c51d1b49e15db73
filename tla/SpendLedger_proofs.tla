------------------------ MODULE SpendLedger_proofs -------------------------
(***************************************************************************)
(* Theorems about SpendLedger, for any number of requests and calls, any   *)
(* caps, estimates and charges, and any route lifetime that the sweeper's  *)
(* age is not below.                                                       *)
(***************************************************************************)
EXTENDS SpendLedger, SetSums, TLAPS

\* What a route's program counter says of its row, its usage and its clock.
RouteInv(r) ==
  /\ pc[r] \in {"idle", "admitted"} => state[r] = "none"
  /\ pc[r] \in Running => /\ startedAt[r] <= now
                          /\ now - startedAt[r] <= MaxDuration
  /\ swept[r] => state[r] = "finalized"
  /\ state[r] # "none" => startedAt[r] <= createdAt[r]
  /\ pc[r] \in {"reserved", "streaming"} => state[r] = "reserved"
  /\ pc[r] \in {"finalizing", "auditing"} =>
       /\ usage[r] > 0 /\ "cancel" \notin late[r]
       /\ state[r] = "reserved" \/ (state[r] = "finalized" /\ cost[r] = usage[r])
  /\ pc[r] = "finalizing" => attempt[r] < MaxAttempts
  /\ pc[r] \in {"idle", "admitted", "reserved", "streaming"} =>
       usage[r] = 0 /\ attempt[r] = 0 /\ late[r] = {}
  /\ pc[r] = "cancelling" => usage[r] = 0 \/ audit[r] # "none"

CallInv(c) == callPc[c] \in {"idle", "admitted"} => state[c] = "none"

IInv ==
  /\ TypeOK
  /\ \A r \in Requests : RouteInv(r)
  /\ \A c \in Calls : CallInv(c)
  /\ SweeperSparesTheLiving
  /\ KnownSpendIsKept

LEMMA InitEstablishesIInv == Init => IInv
  BY RowsAssumption DEF Init, IInv, TypeOK, RouteInv, CallInv, Running, Stopped,
     SweeperSparesTheLiving, KnownSpendIsKept, MaxAttempts, Rows

\* The steps of a route that leave every row alone.
LEMMA RouteStepsKeepIInv ==
  ASSUME IInv, NEW r \in Requests,
         \/ Admit(r) \/ RefuseRate(r) \/ ReserveRefused(r)
         \/ RecordUserTurn(r) \/ PrepareFails(r) \/ ProviderCall(r)
         \/ StreamReturns(r) \/ StreamThrows(r) \/ FinalizeFails(r)
         \/ WriteAudit(r) \/ CancelFails(r) \/ Kill(r)
  PROVE  IInv'
<1> USE RowsAssumption, CapAssumption, TimeAssumption
    DEF IInv, TypeOK, RouteInv, CallInv, Running, Stopped, Rows, ledger, route,
        SweeperSparesTheLiving, KnownSpendIsKept, MaxAttempts
<1>1. CASE Admit(r)
  <2>1. userCap' \in [Requests -> Nat]
    BY <1>1 DEF Admit, CapLookup
  <2>2. /\ pc[r] = "idle"
        /\ startedAt' = [startedAt EXCEPT ![r] = now]
        /\ pc' = [pc EXCEPT ![r] = "admitted"]
        /\ UNCHANGED <<now, ledger, audit, turnAt, billed, usage, attempt,
                       late, callPc>>
    BY <1>1 DEF Admit
  <2>3. TypeOK'
    BY <2>1, <2>2
  <2>4. ASSUME NEW q \in Requests PROVE RouteInv(q)'
    <3>1. CASE q = r
      BY <2>2, <3>1
    <3>2. CASE q # r
      BY <2>2, <3>2
    <3> QED
      BY <3>1, <3>2
  <2>5. SweeperSparesTheLiving' /\ KnownSpendIsKept'
    BY <2>2
  <2>6. \A c \in Calls : CallInv(c)'
    BY <2>2
  <2> QED
    BY <2>3, <2>4, <2>5, <2>6
<1>2. CASE RefuseRate(r)
  BY <1>2 DEF RefuseRate
<1>3. CASE ReserveRefused(r)
  BY <1>3 DEF ReserveRefused
<1>4. CASE RecordUserTurn(r)
  BY <1>4 DEF RecordUserTurn
<1>5. CASE PrepareFails(r)
  BY <1>5 DEF PrepareFails
<1>6. CASE ProviderCall(r)
  BY <1>6 DEF ProviderCall
<1>7. CASE StreamReturns(r)
  BY <1>7 DEF StreamReturns
<1>8. CASE StreamThrows(r)
  BY <1>8 DEF StreamThrows
<1>9. CASE FinalizeFails(r)
  BY <1>9 DEF FinalizeFails, AttemptFails
<1>10. CASE WriteAudit(r)
  BY <1>10 DEF WriteAudit
<1>11. CASE CancelFails(r)
  BY <1>11 DEF CancelFails
<1>12. CASE Kill(r)
  BY <1>12 DEF Kill
<1> QED
  BY <1>1, <1>2, <1>3, <1>4, <1>5, <1>6, <1>7, <1>8, <1>9, <1>10, <1>11, <1>12

\* The steps that write the ledger.
LEMMA LedgerStepsKeepIInv ==
  ASSUME IInv, NEW r \in Requests,
         \/ Reserve(r) \/ ReserveAnswerLost(r)
         \/ FinalizeOk(r) \/ FinalizeAnswerLost(r) \/ Cancel(r)
         \/ LateFinalize(r) \/ LateCancel(r)
  PROVE  IInv'
<1> USE RowsAssumption, CapAssumption, TimeAssumption
    DEF IInv, TypeOK, RouteInv, CallInv, Running, Stopped, Rows, ledger, route,
        SweeperSparesTheLiving, KnownSpendIsKept, MaxAttempts
<1>1. CASE Reserve(r)
  BY <1>1 DEF Reserve, InsertHold
<1>2. CASE ReserveAnswerLost(r)
  BY <1>2 DEF ReserveAnswerLost, InsertHold
<1>3. CASE FinalizeOk(r)
  BY <1>3 DEF FinalizeOk, FinalizeRow
<1>4. CASE FinalizeAnswerLost(r)
  BY <1>4 DEF FinalizeAnswerLost, FinalizeRow, AttemptFails
<1>5. CASE Cancel(r)
  <2>1. CASE state[r] = "reserved"
    BY <1>5, <2>1 DEF Cancel, CancelRow
  <2>2. CASE state[r] # "reserved"
    BY <1>5, <2>2 DEF Cancel, CancelRow
  <2> QED
    BY <2>1, <2>2
<1>6. CASE LateFinalize(r)
  BY <1>6 DEF LateFinalize, FinalizeRow
<1>7. CASE LateCancel(r)
  <2>1. CASE state[r] = "reserved"
    BY <1>7, <2>1 DEF LateCancel, CancelRow
  <2>2. CASE state[r] # "reserved"
    BY <1>7, <2>2 DEF LateCancel, CancelRow
  <2> QED
    BY <2>1, <2>2
<1> QED
  BY <1>1, <1>2, <1>3, <1>4, <1>5, <1>6, <1>7

\* The clock may advance because no running route has reached its deadline;
\* the sweeper takes only holds that are older than any running route.
LEMMA ClockStepsKeepIInv ==
  ASSUME IInv, Tick \/ Sweep
  PROVE  IInv'
<1> USE RowsAssumption, CapAssumption, TimeAssumption
    DEF IInv, TypeOK, RouteInv, CallInv, Running, Stopped, Rows, ledger, route,
        SweeperSparesTheLiving, KnownSpendIsKept, MaxAttempts
<1>1. CASE Tick
  BY <1>1 DEF Tick, Expired
<1>2. CASE Sweep
  <2>1. \A r \in Requests : pc[r] \in Running => ~Stale(r)
    BY DEF Stale
  <2>2. /\ \A r \in Requests : Stale(r) => pc[r] \notin Running
        /\ \A r \in Rows : ~Stale(r) => /\ state'[r] = state[r]
                                         /\ cost'[r] = cost[r]
                                         /\ swept'[r] = swept[r]
        /\ \A r \in Rows : Stale(r) => /\ state[r] = "reserved"
                                        /\ state'[r] = "finalized"
    BY <1>2, <2>1 DEF Sweep, Stale
  <2>3. TypeOK'
    BY <1>2 DEF Sweep
  <2> QED
    BY <1>2, <2>2, <2>3 DEF Sweep
<1> QED
  BY <1>1, <1>2

LEMMA CallStepsKeepIInv ==
  ASSUME IInv, NEW c \in Calls, AdmitCall(c) \/ BookCall(c) \/ BookCallFails(c)
  PROVE  IInv'
<1> USE RowsAssumption, CapAssumption
    DEF IInv, TypeOK, RouteInv, CallInv, Running, Stopped, Rows, ledger, route,
        SweeperSparesTheLiving, KnownSpendIsKept, MaxAttempts
<1>1. CASE AdmitCall(c)
  BY <1>1 DEF AdmitCall
<1>2. CASE BookCall(c)
  <2>1. \A r \in Requests : /\ state'[r] = state[r] /\ cost'[r] = cost[r]
                            /\ createdAt'[r] = createdAt[r]
    BY <1>2 DEF BookCall
  <2>2. TypeOK'
    BY <1>2 DEF BookCall
  <2> QED
    BY <1>2, <2>1, <2>2 DEF BookCall
<1>3. CASE BookCallFails(c)
  BY <1>3 DEF BookCallFails
<1> QED
  BY <1>1, <1>2, <1>3

LEMMA NextKeepsIInv == IInv /\ [Next]_vars => IInv'
<1> SUFFICES ASSUME IInv, [Next]_vars PROVE IInv'
  OBVIOUS
<1>1. CASE UNCHANGED vars
  BY <1>1 DEF vars, ledger, route, IInv, TypeOK, RouteInv, CallInv,
              SweeperSparesTheLiving, KnownSpendIsKept
<1>2. CASE Next
  BY <1>2, RouteStepsKeepIInv, LedgerStepsKeepIInv, ClockStepsKeepIInv,
     CallStepsKeepIInv DEF Next
<1> QED
  BY <1>1, <1>2

THEOREM SpecImpliesIInv == Spec => []IInv
  BY InitEstablishesIInv, NextKeepsIInv, PTL DEF Spec

\* Every reachable state is well typed.
THEOREM TypeCorrect == Spec => []TypeOK
  BY SpecImpliesIInv, PTL DEF IInv

\* Whatever the loss, the delay and the crash, and for any lifetime of a route
\* that does not exceed the sweeper's age, no running route loses its hold.
THEOREM SweeperSafe == Spec => []SweeperSparesTheLiving
  BY SpecImpliesIInv, PTL DEF IInv

\* A route whose `finally` ran has its known spend in the books or handed to
\* the audit table.
THEOREM KnownSpendKept == Spec => []KnownSpendIsKept
  BY SpecImpliesIInv, PTL DEF IInv

\* No step rewrites a row that is already settled.
LEMMA StepKeepsSettledRows ==
  ASSUME IInv, [Next]_vars, NEW q \in Rows, state[q] = "finalized"
  PROVE  /\ state'[q] = "finalized" /\ cost'[q] = cost[q]
         /\ createdAt'[q] = createdAt[q] /\ swept'[q] = swept[q]
<1> USE RowsAssumption DEF IInv, TypeOK, Rows, ledger
<1>1. CASE UNCHANGED vars
  BY <1>1 DEF vars
<1>2. CASE Tick \/ Sweep
  BY <1>2 DEF Tick, Sweep, Stale
<1>3. CASE \E r \in Requests : Reserve(r) \/ ReserveAnswerLost(r)
  BY <1>3 DEF Reserve, ReserveAnswerLost, InsertHold, RouteInv
<1>4. CASE \E r \in Requests : \/ FinalizeOk(r) \/ FinalizeAnswerLost(r)
                                \/ LateFinalize(r)
  BY <1>4 DEF FinalizeOk, FinalizeAnswerLost, LateFinalize, FinalizeRow
<1>5. CASE \E r \in Requests : Cancel(r) \/ LateCancel(r)
  BY <1>5 DEF Cancel, LateCancel, CancelRow
<1>6. CASE \E c \in Calls : AdmitCall(c) \/ BookCall(c) \/ BookCallFails(c)
  BY <1>6 DEF AdmitCall, BookCall, BookCallFails, CallInv
<1>7. CASE UNCHANGED ledger
  BY <1>7
<1>8. ASSUME NEW r \in Requests,
             \/ Admit(r) \/ RefuseRate(r) \/ ReserveRefused(r)
             \/ RecordUserTurn(r) \/ PrepareFails(r) \/ ProviderCall(r)
             \/ StreamReturns(r) \/ StreamThrows(r) \/ FinalizeFails(r)
             \/ WriteAudit(r) \/ CancelFails(r) \/ Kill(r)
      PROVE  UNCHANGED ledger
  BY <1>8 DEF Admit, RefuseRate, ReserveRefused, RecordUserTurn, PrepareFails,
       ProviderCall, StreamReturns, StreamThrows, FinalizeFails, WriteAudit,
       CancelFails, Kill
<1> QED
  BY <1>1, <1>2, <1>3, <1>4, <1>5, <1>6, <1>7, <1>8 DEF Next

THEOREM SettledStands == Spec => SettledIsFinal
<1>1. IInv /\ [Next]_vars =>
        [\A r \in Rows : state[r] = "finalized" =>
           /\ state'[r] = "finalized" /\ cost'[r] = cost[r]
           /\ createdAt'[r] = createdAt[r] /\ swept'[r] = swept[r]]_vars
  BY StepKeepsSettledRows
<1> QED
  BY <1>1, SpecImpliesIInv, PTL DEF Spec, SettledIsFinal

(***************************************************************************)
(* The caps.  A hold weighs its estimate until it is settled, and a row of *)
(* the caps weighs no more than that ever after.  The sums are over the    *)
(* rows that have been written, which are finitely many at any time.       *)
(***************************************************************************)
Written == {r \in Rows : state[r] # "none"}

HoldInv ==
  /\ IsFiniteSet(Written)
  /\ \A r \in Requests : pc[r] = "admitted" => userCap[r] <= TierCap[UserOf[r]]
  /\ \A r \in Requests : state[r] = "reserved" => cost[r] = Estimate[r]
  /\ \A c \in Calls : state[c] # "reserved"

\* The caps on every day, and not only on those of which there is a row.
CapsInv ==
  \A d \in Nat :
    /\ \A u \in Users : Committed(ByUser(u, RequestsOf(d))) <= TierCap[u]
    /\ \A p \in Properties : Committed(ByProperty(p, RequestsOf(d))) <= PropertyCap
    /\ Committed(RequestsOf(d)) <= GlobalCap

LEMMA DayType == \A t \in Nat : DayOf(t) \in Nat
BY TimeAssumption DEF DayOf

\* What the steps do to the ledger.
InsertsHold(r) == pc[r] = "admitted" /\ InsertHold(r) /\ now' = now
Settles(r) == \/ FinalizeRow(r) /\ now' = now
              \/ state[r] = "reserved" /\ CancelRow(r) /\ now' = now

LEMMA LedgerSteps ==
  ASSUME TypeOK, [Next]_vars
  PROVE  \/ UNCHANGED ledger /\ (now' = now \/ Tick)
         \/ \E r \in Requests : InsertsHold(r) \/ Settles(r)
         \/ Sweep
         \/ \E c \in Calls : BookCall(c)
<1> USE DEF TypeOK, Rows, ledger, InsertsHold, Settles
<1>1. CASE UNCHANGED vars
  BY <1>1 DEF vars
<1>2. CASE Tick
  BY <1>2 DEF Tick
<1>3. ASSUME NEW r \in Requests, Reserve(r) \/ ReserveAnswerLost(r)
      PROVE  InsertsHold(r)
  BY <1>3 DEF Reserve, ReserveAnswerLost
<1>4. ASSUME NEW r \in Requests,
             FinalizeOk(r) \/ FinalizeAnswerLost(r) \/ LateFinalize(r)
      PROVE  Settles(r)
  BY <1>4 DEF FinalizeOk, FinalizeAnswerLost, LateFinalize
<1>5. ASSUME NEW r \in Requests, Cancel(r) \/ LateCancel(r)
      PROVE  Settles(r) \/ (UNCHANGED ledger /\ now' = now)
  BY <1>5 DEF Cancel, LateCancel, CancelRow
<1>6. ASSUME NEW c \in Calls, AdmitCall(c) \/ BookCallFails(c)
      PROVE  UNCHANGED ledger /\ now' = now
  BY <1>6 DEF AdmitCall, BookCallFails
<1>7. ASSUME NEW r \in Requests,
             \/ Admit(r) \/ RefuseRate(r) \/ ReserveRefused(r)
             \/ RecordUserTurn(r) \/ PrepareFails(r) \/ ProviderCall(r)
             \/ StreamReturns(r) \/ StreamThrows(r) \/ FinalizeFails(r)
             \/ WriteAudit(r) \/ CancelFails(r) \/ Kill(r)
      PROVE  UNCHANGED ledger /\ now' = now
  BY <1>7 DEF Admit, RefuseRate, ReserveRefused, RecordUserTurn, PrepareFails,
       ProviderCall, StreamReturns, StreamThrows, FinalizeFails, WriteAudit,
       CancelFails, Kill
<1> QED
  BY <1>1, <1>2, <1>3, <1>4, <1>5, <1>6, <1>7 DEF Next

LEMMA WrittenKept ==
  ASSUME TypeOK, IsFiniteSet(Written), [Next]_vars
  PROVE  IsFiniteSet(Written')
<1> USE RowsAssumption DEF TypeOK, Rows, ledger
<1>1. ASSUME NEW r, Written' \subseteq Written \cup {r} PROVE IsFiniteSet(Written')
  <2>1. IsFiniteSet(Written \cup {r})
    BY FS_AddElement
  <2> QED
    BY <1>1, <2>1, FS_Subset
<1>2. CASE UNCHANGED ledger \/ Sweep
  BY <1>1, <1>2 DEF Written, Sweep, Stale
<1>3. ASSUME NEW r \in Requests, InsertsHold(r) \/ Settles(r)
      PROVE  Written' \subseteq Written \cup {r}
  BY <1>3 DEF Written, InsertsHold, Settles, InsertHold, FinalizeRow, CancelRow
<1>4. ASSUME NEW c \in Calls, BookCall(c)
      PROVE  Written' \subseteq Written \cup {c}
  BY <1>4 DEF Written, BookCall
<1> QED
  BY <1>1, <1>2, <1>3, <1>4, LedgerSteps

LEMMA HoldsKept ==
  ASSUME IInv, HoldInv, [Next]_vars
  PROVE  HoldInv'
<1> USE RowsAssumption, CapAssumption DEF Rows, ledger, route
<1>1. TypeOK /\ \A c \in Calls : CallInv(c)
  BY DEF IInv
<1>2. IsFiniteSet(Written')
  BY <1>1, WrittenKept DEF HoldInv
<1>3. ASSUME NEW r \in Requests, pc'[r] = "admitted" PROVE userCap'[r] <= TierCap[UserOf[r]]
  <2>1. ASSUME NEW q \in Requests, Admit(q) PROVE userCap'[r] <= TierCap[UserOf[r]]
    <3>1. CASE q = r
      <4>1. PICK c \in CapLookup(UserOf[r]) : userCap' = [userCap EXCEPT ![r] = c]
        BY <2>1, <3>1 DEF Admit
      <4>2. c <= TierCap[UserOf[r]]
        BY DEF CapLookup
      <4> QED
        BY <1>1, <4>1, <4>2 DEF TypeOK
    <3>2. CASE q # r
      BY <1>1, <1>3, <2>1, <3>2 DEF Admit, HoldInv, TypeOK
    <3> QED
      BY <3>1, <3>2
  <2>2. CASE userCap' = userCap /\ pc[r] = "admitted"
    BY <2>2 DEF HoldInv
  <2>3. (\E q \in Requests : Admit(q)) \/ (userCap' = userCap /\ pc[r] = "admitted")
    BY <1>1, <1>3 DEF TypeOK, Next, vars, Tick, Sweep, RefuseRate, Reserve, ReserveAnswerLost,
       ReserveRefused, RecordUserTurn, PrepareFails, ProviderCall, StreamReturns,
       StreamThrows, FinalizeOk, FinalizeAnswerLost, FinalizeFails, AttemptFails,
       WriteAudit, Cancel, CancelFails, LateFinalize, LateCancel, Kill,
       AdmitCall, BookCall, BookCallFails
  <2> QED
    BY <2>1, <2>2, <2>3
<1>4. /\ \A r \in Requests : state'[r] = "reserved" => cost'[r] = Estimate[r]
      /\ \A c \in Calls : state'[c] # "reserved"
  <2>1. CASE UNCHANGED ledger
    BY <2>1 DEF HoldInv
  <2>2. ASSUME NEW r \in Requests, InsertsHold(r) \/ Settles(r) PROVE <1>4
    BY <1>1, <2>2 DEF HoldInv, TypeOK, InsertsHold, Settles, InsertHold, FinalizeRow, CancelRow
  <2>3. CASE Sweep
    BY <1>1, <2>3 DEF HoldInv, TypeOK, Sweep
  <2>4. ASSUME NEW c \in Calls, BookCall(c) PROVE <1>4
    BY <1>1, <2>4 DEF HoldInv, TypeOK, BookCall
  <2> QED
    BY <1>1, <2>1, <2>2, <2>3, <2>4, LedgerSteps
<1> QED
  BY <1>2, <1>3, <1>4 DEF HoldInv

LEMMA HeldType ==
  ASSUME TypeOK, NEW r \in Requests
  PROVE  Held[r] \in Nat /\ Held[r] <= cost[r] /\ Held[r] <= Estimate[r]
BY CapAssumption DEF TypeOK, Held, SmallerOf, Rows

\* The rows of a day are written, so there are finitely many in any part of it.
LEMMA DayIsFinite ==
  ASSUME HoldInv, NEW d, NEW S \in SUBSET RequestsOf(d)
  PROVE  IsFiniteSet(S)
<1>1. S \subseteq Written
  BY DEF RequestsOf, Written, Rows
<1> QED
  BY <1>1, FS_Subset DEF HoldInv

\* Part of a day may only get lighter, when its rows do.
LEMMA LighterPart ==
  ASSUME TypeOK, TypeOK', HoldInv, NEW d, NEW S \in SUBSET RequestsOf(d),
         \A r \in S : Held'[r] <= Held[r]
  PROVE  SumFunctionOnSet(Held', S) <= Committed(S)
<1>1. IsFiniteSet(S)
  BY DayIsFinite
<1>2. \A r \in S : r \in Requests
  BY DEF RequestsOf
<1>3. \A r \in S : Held[r] \in Nat
  BY <1>2, HeldType
<1>4. \A r \in S : Held'[r] \in Nat
  BY <1>2, CapAssumption DEF TypeOK, Held, SmallerOf, Rows
<1>5. SumFunctionOnSet(Held', S) <= SumFunctionOnSet(Held, S)
  BY <1>1, <1>3, <1>4, SumMonotone
<1> QED
  BY <1>5 DEF Committed

\* A part of today that was clear of a cap stays below it with the new hold:
\* what the caps count is no heavier than what is booked.
LEMMA HoldFits ==
  ASSUME TypeOK, TypeOK', HoldInv, NEW r \in Requests, InsertsHold(r), state[r] = "none",
         NEW S \in SUBSET RequestsOf(DayOf(now)), NEW cap \in Nat,
         Booked(S) + Estimate[r] <= cap
  PROVE  SumFunctionOnSet(Held', S \cup {r}) <= cap
<1>1. IsFiniteSet(S)
  BY DayIsFinite
<1>2. /\ \A q \in S : q \in Requests /\ q # r
      /\ r \notin S
  BY DEF RequestsOf
<1>3. /\ \A q \in S : cost[q] \in Nat /\ Held'[q] \in Nat /\ Held'[q] <= cost[q]
      /\ Held'[r] = Estimate[r] /\ Estimate[r] \in Nat
  BY <1>2, CapAssumption DEF InsertsHold, InsertHold, TypeOK, Held, SmallerOf, Rows
<1>4. SumFunctionOnSet(Held', S) <= Booked(S)
  BY <1>1, <1>3, SumMonotone DEF Booked
<1>5. SumFunctionOnSet(Held', S \cup {r}) = Estimate[r] + SumFunctionOnSet(Held', S)
  BY <1>1, <1>2, <1>3, SumAdd
<1>6. Booked(S) \in Nat /\ SumFunctionOnSet(Held', S) \in Nat
  BY <1>1, <1>3, SumType DEF Booked
<1> QED
  BY <1>3, <1>4, <1>5, <1>6

\* Steps that settle, and all that leave the ledger alone.
LEMMA LighterKeepsCaps ==
  ASSUME TypeOK, TypeOK', HoldInv, CapsInv,
         \A r \in Requests : /\ state'[r] = "none" <=> state[r] = "none"
                             /\ createdAt'[r] = createdAt[r]
                             /\ state[r] # "none" => Held'[r] <= Held[r]
  PROVE  CapsInv'
<1> USE CapAssumption
<1> SUFFICES ASSUME NEW d \in Nat
             PROVE  /\ \A u \in Users : Committed(ByUser(u, RequestsOf(d)))' <= TierCap[u]
                    /\ \A p \in Properties : Committed(ByProperty(p, RequestsOf(d)))' <= PropertyCap
                    /\ Committed(RequestsOf(d))' <= GlobalCap
  BY DEF CapsInv
<1>1. RequestsOf(d)' = RequestsOf(d)
  BY DEF RequestsOf
<1>2. ASSUME NEW S \in SUBSET RequestsOf(d), NEW cap \in Nat, Committed(S) <= cap
      PROVE  SumFunctionOnSet(Held', S) <= cap
  <2>1. \A r \in S : Held'[r] <= Held[r]
    BY DEF RequestsOf
  <2>2. SumFunctionOnSet(Held', S) <= Committed(S)
    BY <2>1, LighterPart
  <2>3. SumFunctionOnSet(Held', S) \in Nat /\ Committed(S) \in Nat
    <3>1. \A r \in S : Held[r] \in Nat /\ Held'[r] \in Nat
      BY HeldType DEF RequestsOf, TypeOK, Held, SmallerOf, Rows
    <3> QED
      BY <3>1, DayIsFinite, SumType DEF Committed
  <2> QED
    BY <1>2, <2>2, <2>3
<1>3. ASSUME NEW u \in Users PROVE Committed(ByUser(u, RequestsOf(d)))' <= TierCap[u]
  <2>1. ByUser(u, RequestsOf(d))' = ByUser(u, RequestsOf(d))
    BY <1>1 DEF ByUser
  <2>2. ByUser(u, RequestsOf(d)) \subseteq RequestsOf(d)
    BY DEF ByUser
  <2>3. Committed(ByUser(u, RequestsOf(d))) <= TierCap[u]
    BY DEF CapsInv
  <2> QED
    BY <1>2, <2>1, <2>2, <2>3 DEF Committed
<1>4. ASSUME NEW p \in Properties PROVE Committed(ByProperty(p, RequestsOf(d)))' <= PropertyCap
  <2>1. ByProperty(p, RequestsOf(d))' = ByProperty(p, RequestsOf(d))
    BY <1>1 DEF ByProperty
  <2>2. ByProperty(p, RequestsOf(d)) \subseteq RequestsOf(d)
    BY DEF ByProperty
  <2>3. Committed(ByProperty(p, RequestsOf(d))) <= PropertyCap
    BY DEF CapsInv
  <2> QED
    BY <1>2, <2>1, <2>2, <2>3 DEF Committed
<1>5. Committed(RequestsOf(d))' <= GlobalCap
  <2>1. Committed(RequestsOf(d)) <= GlobalCap
    BY DEF CapsInv
  <2> QED
    BY <1>1, <1>2, <2>1 DEF Committed
<1> QED
  BY <1>3, <1>4, <1>5

\* A reservation: the parts that the new row is in were clear of their caps, and
\* the others do not change.
LEMMA InsertKeepsCaps ==
  ASSUME IInv, TypeOK', HoldInv, CapsInv, NEW r \in Requests, InsertsHold(r)
  PROVE  CapsInv'
<1> USE RowsAssumption, CapAssumption
<1>1. TypeOK /\ state[r] = "none"
  BY DEF IInv, RouteInv, InsertsHold
<1>2. /\ userCap[r] <= TierCap[UserOf[r]] /\ userCap[r] \in Nat
      /\ UserOf[r] \in Users /\ PropertyOf[r] \in Properties /\ r \in Rows
      /\ TierCap[UserOf[r]] \in Nat
  BY <1>1 DEF HoldInv, InsertsHold, TypeOK, Rows
<1> DEFINE d0 == DayOf(now)
<1>3. RequestsOf(d0) = Today(Requests)
  BY DEF RequestsOf, Today
<1>4. \A d : RequestsOf(d)' = IF d = d0 THEN RequestsOf(d) \cup {r} ELSE RequestsOf(d)
  BY <1>1, <1>2 DEF RequestsOf, InsertsHold, InsertHold, TypeOK, Rows
<1>5. ASSUME NEW d, NEW S \in SUBSET RequestsOf(d), NEW cap \in Nat, Committed(S) <= cap
      PROVE  SumFunctionOnSet(Held', S) <= cap
  <2>1. \A q \in S : q \in Requests /\ q # r
    BY <1>1 DEF RequestsOf
  <2>2. \A q \in S : Held'[q] = Held[q] /\ Held[q] \in Nat
    BY <1>1, <1>2, <2>1, HeldType DEF InsertsHold, InsertHold, TypeOK, Held, Rows
  <2>3. SumFunctionOnSet(Held', S) <= Committed(S)
    BY <1>1, <2>2, LighterPart
  <2>4. SumFunctionOnSet(Held', S) \in Nat /\ Committed(S) \in Nat
    BY <2>2, DayIsFinite, SumType DEF Committed
  <2> QED
    BY <1>5, <2>3, <2>4
<1>6. ASSUME NEW S \in SUBSET RequestsOf(d0), NEW cap \in Nat, Booked(S) + Estimate[r] <= cap
      PROVE  SumFunctionOnSet(Held', S \cup {r}) <= cap
  BY <1>1, <1>6, HoldFits
<1> SUFFICES ASSUME NEW d \in Nat
             PROVE  /\ \A u \in Users : Committed(ByUser(u, RequestsOf(d)))' <= TierCap[u]
                    /\ \A p \in Properties : Committed(ByProperty(p, RequestsOf(d)))' <= PropertyCap
                    /\ Committed(RequestsOf(d))' <= GlobalCap
  BY DEF CapsInv
<1>7. /\ Booked(ByUser(UserOf[r], RequestsOf(d0))) + Estimate[r] <= userCap[r]
      /\ Booked(ByProperty(PropertyOf[r], RequestsOf(d0))) + Estimate[r] <= PropertyCap
      /\ Booked(RequestsOf(d0)) + Estimate[r] <= GlobalCap
  BY <1>3 DEF InsertsHold, InsertHold, CapsClear
<1>8. ASSUME NEW u \in Users PROVE Committed(ByUser(u, RequestsOf(d)))' <= TierCap[u]
  <2> DEFINE S == ByUser(u, RequestsOf(d))
  <2>1. S \subseteq RequestsOf(d) /\ Committed(S) <= TierCap[u] /\ TierCap[u] \in Nat
    BY DEF ByUser, CapsInv
  <2>2. CASE d = d0 /\ u = UserOf[r]
    <3>1. ByUser(u, RequestsOf(d))' = S \cup {r}
      BY <1>4, <2>2 DEF ByUser
    <3>2. Booked(S) \in Nat
      <4>1. \A q \in S : cost[q] \in Nat
        BY <1>1, <2>1 DEF RequestsOf, TypeOK, Rows
      <4> QED
        BY <2>1, <4>1, DayIsFinite, SumType DEF Booked
    <3>3. Booked(S) + Estimate[r] <= userCap[r]
      BY <1>7, <2>2
    <3>4. Booked(S) + Estimate[r] <= TierCap[u]
      <4> HIDE DEF S
      <4> QED
        BY <1>2, <2>2, <3>2, <3>3
    <3>5. SumFunctionOnSet(Held', S \cup {r}) <= TierCap[u]
      BY <1>6, <2>1, <2>2, <3>4
    <3> QED
      BY <3>1, <3>5 DEF Committed
  <2>3. CASE ~(d = d0 /\ u = UserOf[r])
    <3>1. ByUser(u, RequestsOf(d))' = S
      BY <1>4, <2>3 DEF ByUser
    <3> QED
      BY <1>5, <2>1, <3>1 DEF Committed
  <2> QED
    BY <2>2, <2>3
<1>9. ASSUME NEW p \in Properties PROVE Committed(ByProperty(p, RequestsOf(d)))' <= PropertyCap
  <2> DEFINE S == ByProperty(p, RequestsOf(d))
  <2>1. S \subseteq RequestsOf(d) /\ Committed(S) <= PropertyCap
    BY DEF ByProperty, CapsInv
  <2>2. CASE d = d0 /\ p = PropertyOf[r]
    <3>1. ByProperty(p, RequestsOf(d))' = S \cup {r}
      BY <1>4, <2>2 DEF ByProperty
    <3> QED
      BY <1>6, <1>7, <2>1, <2>2, <3>1 DEF Committed
  <2>3. CASE ~(d = d0 /\ p = PropertyOf[r])
    <3>1. ByProperty(p, RequestsOf(d))' = S
      BY <1>4, <2>3 DEF ByProperty
    <3> QED
      BY <1>5, <2>1, <3>1 DEF Committed
  <2> QED
    BY <2>2, <2>3
<1>10. Committed(RequestsOf(d))' <= GlobalCap
  <2>1. Committed(RequestsOf(d)) <= GlobalCap
    BY DEF CapsInv
  <2>2. CASE d = d0
    BY <1>4, <1>6, <1>7, <2>2 DEF Committed
  <2>3. CASE d # d0
    BY <1>4, <1>5, <2>1, <2>3 DEF Committed
  <2> QED
    BY <2>2, <2>3
<1> QED
  BY <1>8, <1>9, <1>10

LEMMA NextKeepsCaps ==
  ASSUME IInv, HoldInv, CapsInv, [Next]_vars
  PROVE  CapsInv'
<1> USE RowsAssumption, CapAssumption DEF Rows
<1>1. TypeOK /\ TypeOK'
  BY NextKeepsIInv DEF IInv
<1>2. CASE UNCHANGED ledger \/ \E c \in Calls : BookCall(c)
  <2>1. \A r \in Requests : /\ state'[r] = state[r] /\ createdAt'[r] = createdAt[r]
                            /\ cost'[r] = cost[r]
    BY <1>1, <1>2 DEF ledger, BookCall, TypeOK
  <2>2. \A r \in Requests : Held'[r] = Held[r] /\ Held[r] \in Nat
    BY <1>1, <2>1, HeldType DEF Held
  <2> QED
    BY <1>1, <2>1, <2>2, LighterKeepsCaps
<1>3. ASSUME NEW q \in Requests, Settles(q) PROVE CapsInv'
  <2>1. \A r \in Requests : r # q => state'[r] = state[r] /\ cost'[r] = cost[r]
    BY <1>1, <1>3 DEF Settles, FinalizeRow, CancelRow, TypeOK
  <2>2. state[q] = "reserved" /\ state'[q] = "finalized" /\ createdAt' = createdAt
    BY <1>1, <1>3 DEF Settles, FinalizeRow, CancelRow, TypeOK
  <2>3. \A r \in Requests : r # q => Held'[r] = Held[r] /\ Held[r] \in Nat
    BY <1>1, <2>1, HeldType DEF Held
  <2>4. Held[q] = Estimate[q] /\ Held'[q] <= Estimate[q]
    BY <1>1, <2>2 DEF HoldInv, Held, SmallerOf, TypeOK
  <2>5. \A r \in Requests : Held'[r] <= Held[r]
    BY <2>3, <2>4
  <2> QED
    BY <1>1, <2>1, <2>2, <2>5, LighterKeepsCaps
<1>4. CASE Sweep
  <2>1. \A r \in Requests : IF Stale(r)
                            THEN state[r] = "reserved" /\ state'[r] = "finalized" /\ cost'[r] = 0
                            ELSE state'[r] = state[r] /\ cost'[r] = cost[r]
    BY <1>4 DEF Sweep, Stale
  <2>2. \A r \in Requests : Held'[r] <= Held[r]
    <3>1. ASSUME NEW r \in Requests PROVE Held'[r] <= Held[r]
      <4>1. CASE Stale(r)
        BY <1>1, <2>1, <4>1, HeldType DEF Held, SmallerOf
      <4>2. CASE ~Stale(r)
        BY <1>1, <2>1, <4>2, HeldType DEF Held
      <4> QED
        BY <4>1, <4>2
    <3> QED
      BY <3>1
  <2>3. createdAt' = createdAt
    BY <1>4 DEF Sweep
  <2> QED
    BY <1>1, <2>1, <2>2, <2>3, LighterKeepsCaps
<1> QED
  BY <1>1, <1>2, <1>3, <1>4, LedgerSteps, InsertKeepsCaps

LEMMA InitHolds == Init => HoldInv /\ CapsInv
<1> SUFFICES ASSUME Init PROVE HoldInv /\ CapsInv
  OBVIOUS
<1>1. Written = {}
  BY DEF Init, Written
<1>2. HoldInv
  BY <1>1, FS_EmptySet DEF Init, HoldInv, Rows
<1>3. \A d : RequestsOf(d) = {}
  BY DEF Init, RequestsOf, Rows
<1>4. Committed({}) = 0
  <2>1. Units(Held, {}) = {}
    BY DEF Units
  <2> QED
    BY <2>1, FS_EmptySet, SumIsCount DEF Committed
<1>5. /\ \A u, d : ByUser(u, RequestsOf(d)) = {}
      /\ \A p, d : ByProperty(p, RequestsOf(d)) = {}
  BY <1>3 DEF ByUser, ByProperty
<1> QED
  BY <1>2, <1>3, <1>4, <1>5, CapAssumption DEF CapsInv

\* The three invariants hold together, whatever the caps, the days and the
\* estimates.
LEMMA SpecImpliesCaps == Spec => [](IInv /\ HoldInv /\ CapsInv)
<1>1. Init => IInv /\ HoldInv /\ CapsInv
  BY InitEstablishesIInv, InitHolds
<1>2. IInv /\ HoldInv /\ CapsInv /\ [Next]_vars => (IInv /\ HoldInv /\ CapsInv)'
  BY NextKeepsIInv, HoldsKept, NextKeepsCaps
<1> QED
  BY <1>1, <1>2, PTL DEF Spec

\* On every UTC day the requests of a user, of a hotel and of everyone stay
\* within the caps, however reservations, settlements, sweeps and midnight
\* interleave.
THEOREM CapsAlwaysHold == Spec => []CapsHold
<1>1. IInv /\ CapsInv => CapsHold
  <2> SUFFICES ASSUME IInv, CapsInv PROVE CapsHold
    OBVIOUS
  <2>1. \A r \in Requests : DayOf(createdAt[r]) \in Nat
    BY DayType DEF IInv, TypeOK, Rows
  <2> QED
    BY <2>1 DEF CapsInv, CapsHold
<1> QED
  BY <1>1, SpecImpliesCaps, PTL

----------------------------------------------------------------------------
(* The ledger implements SpendBudget. *)

LEMMA DayStarts == DayOf(0) = 0
BY TimeAssumption DEF DayOf

\* A minute ends in the day it began in or in the next.
LEMMA DayAdvances ==
  ASSUME NEW t \in Nat
  PROVE  DayOf(t + 1) = DayOf(t) \/ DayOf(t + 1) = DayOf(t) + 1
<1> DEFINE q == t \div DayLen
           m == t % DayLen
<1>1. DayLen \in Nat /\ DayLen > 0
  BY TimeAssumption
<1>2. q \in Int /\ m \in 0..(DayLen - 1) /\ t = DayLen * q + m
  BY <1>1
<1>3. t + 1 = DayLen * q + (m + 1)
  <2>1. DayLen * q \in Int
    BY <1>1, <1>2
  <2> HIDE DEF q, m
  <2> QED
    BY <1>2, <2>1
<1>4. CASE m + 1 < DayLen
  <2>1. (t + 1) \div DayLen = q
    BY <1>1, <1>2, <1>3, <1>4
  <2> QED
    BY <2>1 DEF DayOf
<1>5. CASE m + 1 = DayLen
  <2>1. t + 1 = DayLen * (q + 1)
    BY <1>1, <1>2, <1>3, <1>5
  <2>2. (t + 1) \div DayLen = q + 1
    BY <1>1, <1>2, <2>1
  <2> QED
    BY <2>2 DEF DayOf
<1> QED
  BY <1>1, <1>2, <1>4, <1>5

LEMMA InitImplementsBudget == Init => Budget!Init
  BY DayStarts DEF Init, Budget!Init, Budget!Entries, BudgetStatus, Rows

\* A step that leaves the ledger alone leaves the budget alone, save at midnight.
LEMMA QuietImplementsBudget ==
  ASSUME TypeOK, UNCHANGED ledger, now' = now \/ Tick
  PROVE  Budget!Next \/ UNCHANGED Budget!budgetVars
<1> DEFINE days == [r \in Rows |-> DayOf(createdAt[r])]
<1>1. UNCHANGED <<BudgetStatus, cost, days>>
  BY DEF ledger, BudgetStatus
<1>2. DayOf(now)' = DayOf(now) \/ DayOf(now)' = DayOf(now) + 1
  BY DayAdvances DEF TypeOK, Tick, DayOf
<1>3. CASE DayOf(now)' = DayOf(now)
  BY <1>1, <1>3 DEF Budget!budgetVars
<1>4. CASE DayOf(now)' = DayOf(now) + 1
  <2>1. Budget!NewDay
    BY <1>1, <1>4 DEF Budget!NewDay
  <2> QED
    BY <2>1 DEF Budget!Next
<1> QED
  BY <1>2, <1>3, <1>4

\* The caps that the reservation checks are those of the budget, or stricter
\* when the tier lookup failed.
LEMMA ReserveImplementsBudget ==
  ASSUME IInv, HoldInv, NEW r \in Requests, InsertsHold(r)
  PROVE  Budget!Next
<1> USE RowsAssumption, CapAssumption DEF Rows
<1> DEFINE days == [q \in Rows |-> DayOf(createdAt[q])]
<1>1. TypeOK /\ state[r] = "none"
  BY DEF IInv, RouteInv, InsertsHold
<1>2. Budget!OfToday = Today(Requests)
  <2>1. \A q \in Requests : BudgetStatus[q] # "none" <=> state[q] # "none"
    BY <1>1 DEF TypeOK, BudgetStatus
  <2> QED
    BY <2>1 DEF Budget!OfToday, Today
<1>3. /\ {q \in Budget!OfToday : UserOf[q] = UserOf[r]} = ByUser(UserOf[r], Today(Requests))
      /\ {q \in Budget!OfToday : PropertyOf[q] = PropertyOf[r]}
           = ByProperty(PropertyOf[r], Today(Requests))
  BY <1>2 DEF ByUser, ByProperty
<1>4. \A S : Budget!Spent(S) = Booked(S)
  BY Zenon DEF Budget!Spent, Booked, SumFunctionOnSet, FoldFunctionOnSet, MapThenFoldSet,
     Budget!SumFunctionOnSet, Budget!FoldFunctionOnSet, Budget!MapThenFoldSet
<1>5. Budget!Fits(r)
  <2> DEFINE mine == Booked(ByUser(UserOf[r], Today(Requests)))
  <2>1. mine \in Nat
    <3>1. ByUser(UserOf[r], Today(Requests)) \subseteq RequestsOf(DayOf(now))
      BY DEF ByUser, Today, RequestsOf
    <3>2. \A q \in ByUser(UserOf[r], Today(Requests)) : cost[q] \in Nat
      BY <1>1 DEF ByUser, Today, TypeOK
    <3> QED
      BY <3>1, <3>2, DayIsFinite, SumType DEF Booked
  <2>2. /\ userCap[r] <= TierCap[UserOf[r]] /\ userCap[r] \in Nat
        /\ TierCap[UserOf[r]] \in Nat /\ Estimate[r] \in Nat
    BY <1>1 DEF HoldInv, InsertsHold, TypeOK
  <2>3. /\ mine + Estimate[r] <= userCap[r]
        /\ Booked(ByProperty(PropertyOf[r], Today(Requests))) + Estimate[r] <= PropertyCap
        /\ Booked(Today(Requests)) + Estimate[r] <= GlobalCap
    BY DEF InsertsHold, InsertHold, CapsClear
  <2>4. mine + Estimate[r] <= TierCap[UserOf[r]]
    <3> HIDE DEF mine
    <3> QED
      BY <2>1, <2>2, <2>3
  <2> QED
    BY <1>2, <1>3, <1>4, <2>3, <2>4 DEF Budget!Fits
<1>6. BudgetStatus' = [BudgetStatus EXCEPT ![r] = "held"] /\ BudgetStatus[r] = "none"
  BY <1>1 DEF InsertsHold, InsertHold, TypeOK, BudgetStatus
<1>7. days' = [days EXCEPT ![r] = DayOf(now)] /\ DayOf(now)' = DayOf(now)
  BY <1>1 DEF InsertsHold, InsertHold, TypeOK, DayOf
<1>8. Budget!Grant(r)
  BY <1>5, <1>6, <1>7 DEF Budget!Grant, InsertsHold, InsertHold
<1> QED
  BY <1>8 DEF Budget!Next

LEMMA SettleImplementsBudget ==
  ASSUME TypeOK, NEW r \in Requests, Settles(r)
  PROVE  Budget!Next
<1> USE DEF Rows
<1> DEFINE days == [q \in Rows |-> DayOf(createdAt[q])]
<1>1. BudgetStatus' = [BudgetStatus EXCEPT ![r] = "settled"] /\ BudgetStatus[r] = "held"
  <2>1. state[r] = "reserved" /\ state' = [state EXCEPT ![r] = "finalized"]
    BY DEF Settles, FinalizeRow, CancelRow
  <2> QED
    BY <2>1 DEF TypeOK, BudgetStatus
<1>2. cost' = [cost EXCEPT ![r] = cost'[r]] /\ cost'[r] >= 0
  BY DEF Settles, FinalizeRow, CancelRow, TypeOK
<1>3. days' = days /\ DayOf(now)' = DayOf(now)
  BY DEF Settles, FinalizeRow, CancelRow, DayOf
<1>4. Budget!Settle(r)
  BY <1>1, <1>2, <1>3 DEF Budget!Settle
<1> QED
  BY <1>4 DEF Budget!Next

\* The sweeper releases the stale holds, which are all of requests.
LEMMA SweepImplementsBudget ==
  ASSUME TypeOK, HoldInv, Sweep
  PROVE  Budget!Next
<1> USE DEF Rows
<1> DEFINE days == [q \in Rows |-> DayOf(createdAt[q])]
           S == {r \in Requests : Stale(r)}
<1>1. \A r \in Rows : r \in S <=> Stale(r)
  BY DEF HoldInv, Stale
<1>2. \A r \in S : BudgetStatus[r] = "held"
  BY DEF Stale, BudgetStatus
<1>3. BudgetStatus' = [r \in Rows |-> IF r \in S THEN "settled" ELSE BudgetStatus[r]]
  BY <1>1 DEF Sweep, TypeOK, BudgetStatus
<1>4. cost' = [r \in Rows |-> IF r \in S THEN 0 ELSE cost[r]]
  BY <1>1 DEF Sweep
<1>5. days' = days /\ DayOf(now)' = DayOf(now)
  BY DEF Sweep, DayOf
<1>6. Budget!Release(S)
  BY <1>2, <1>3, <1>4, <1>5 DEF Budget!Release, Budget!Entries
<1>7. S \in SUBSET Requests
  OBVIOUS
<1> HIDE DEF S
<1> QED
  BY <1>6, <1>7 DEF Budget!Next

LEMMA BookImplementsBudget ==
  ASSUME IInv, NEW c \in Calls, BookCall(c)
  PROVE  Budget!Next
<1> USE CapAssumption DEF Rows
<1> DEFINE days == [q \in Rows |-> DayOf(createdAt[q])]
<1>1. TypeOK /\ state[c] = "none"
  BY DEF IInv, CallInv, BookCall
<1>2. BudgetStatus' = [BudgetStatus EXCEPT ![c] = "settled"] /\ BudgetStatus[c] = "none"
  BY <1>1 DEF BookCall, TypeOK, BudgetStatus
<1>3. cost' = [cost EXCEPT ![c] = cost'[c]] /\ cost'[c] > 0
  BY <1>1 DEF BookCall, TypeOK
<1>4. days' = [days EXCEPT ![c] = DayOf(now)] /\ DayOf(now)' = DayOf(now)
  BY <1>1 DEF BookCall, TypeOK, DayOf
<1>5. Budget!Book(c)
  BY <1>2, <1>3, <1>4 DEF Budget!Book
<1> QED
  BY <1>5 DEF Budget!Next

LEMMA NextImplementsBudget ==
  IInv /\ HoldInv /\ [Next]_vars => [Budget!Next]_(Budget!budgetVars)
<1> SUFFICES ASSUME IInv, HoldInv, [Next]_vars
             PROVE  Budget!Next \/ UNCHANGED Budget!budgetVars
  OBVIOUS
<1>1. TypeOK
  BY DEF IInv
<1> QED
  BY <1>1, LedgerSteps, QuietImplementsBudget, ReserveImplementsBudget,
     SettleImplementsBudget, SweepImplementsBudget, BookImplementsBudget

\* Whatever is lost, late, repeated, swept or crashed, the ledger only does what
\* SpendBudget allows: every hold is granted inside all three caps of its day,
\* and every amount is settled once and stands.
THEOREM LedgerImplementsBudget == Spec => ImplementsBudget
  BY InitImplementsBudget, NextImplementsBudget, SpecImpliesCaps, PTL
     DEF Spec, ImplementsBudget, Budget!Spec
=============================================================================
