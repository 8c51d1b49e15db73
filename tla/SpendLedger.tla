---------------------------- MODULE SpendLedger ----------------------------
(***************************************************************************)
(* The agent's money ledger, the table agent_costs.                        *)
(*                                                                         *)
(* A chat request holds its worst-case price BEFORE it calls the provider  *)
(* (staxis_reserve_agent_spend), and its route's `finally` block replaces  *)
(* the hold by what the provider really charged (finalize) or by zero      *)
(* (cancel).  A cron sweeper zeroes the holds nobody settled.  Other kinds *)
(* of spend (voice, vision, background) are booked after the call, behind  *)
(* a check that nothing makes atomic with the booking.                     *)
(*                                                                         *)
(* A database call of a route can be applied, be refused, be applied with  *)
(* its answer lost, or be given up on by the client and applied later. The *)
(* platform kills a route at its maxDuration; a crash kills it earlier.    *)
(***************************************************************************)
EXTENDS Integers, FiniteSets, Functions

CONSTANTS
  Requests,      \* chat requests: each takes the reserve / settle path once
  Calls,         \* other paid calls: booked after the fact
  Users, Properties,
  UserOf, PropertyOf,   \* who asks, and for which hotel
  Estimate,      \* the worst case a request reserves
  TierCap,       \* the daily cap of each user's tier
  FreeCap,       \* the cap used when the tier lookup fails
  PropertyCap, GlobalCap,
  RateLimit, RateWindow,     \* user messages per window
  MaxDuration,   \* the route is killed this long after it started
  SweepAge,      \* the sweeper takes holds older than this
  DayLen,        \* length of a UTC day
  Charges,       \* what one provider call can cost
  MaxBill,       \* bound: what one request can be charged in all
  LastStart,     \* bound: no request or call starts after this instant
  MaxNow         \* bound: the clock stops here

Rows == Requests \cup Calls

ASSUME RowsAssumption ==
  /\ Requests \cap Calls = {}
  /\ UserOf \in [Rows -> Users]
  /\ PropertyOf \in [Rows -> Properties]
ASSUME CapAssumption ==
  /\ Estimate \in [Requests -> Nat]
  /\ TierCap \in [Users -> Nat]
  /\ FreeCap \in Nat /\ PropertyCap \in Nat /\ GlobalCap \in Nat
  /\ \A u \in Users : FreeCap <= TierCap[u]
  /\ RateLimit \in Nat /\ RateWindow \in Nat
  /\ Charges \subseteq Nat \ {0}
ASSUME TimeAssumption ==
  /\ MaxDuration \in Nat /\ SweepAge \in Nat /\ DayLen \in Nat \ {0}
  /\ MaxDuration <= SweepAge       \* 60 seconds against 5 minutes
  /\ LastStart \in Nat /\ MaxNow \in Nat /\ MaxBill \in Nat

VARIABLES
  now,        \* the database clock
  state,      \* agent_costs.state of each row; "none" before the insert
  cost,       \* agent_costs.cost_usd
  createdAt,  \* agent_costs.created_at
  swept,      \* agent_costs.swept_at is not null
  audit,      \* the request's row in agent_cost_finalize_failures
  turnAt,     \* created_at of the user message; -1 before it is recorded
  pc,         \* where each request's route is
  startedAt,  \* when the route was invoked
  userCap,    \* the user cap the route looked up
  billed,     \* what the provider has charged for the request
  usage,      \* the usage the route knows of at its end; 0 for null
  attempt,    \* finalize attempts used
  late,       \* timed-out calls the database may still apply
  callPc      \* where each other paid call is

ledger == <<state, cost, createdAt, swept>>
route  == <<turnAt, startedAt, userCap, billed, usage, attempt>>
vars   == <<now, ledger, audit, route, pc, late, callPc>>

Running == {"admitted", "reserved", "streaming", "finalizing", "auditing",
            "cancelling"}
Stopped == {"idle", "refused", "done", "killed"}
MaxAttempts == 3

TypeOK ==
  /\ now \in Nat
  /\ state \in [Rows -> {"none", "reserved", "finalized"}]
  /\ cost \in [Rows -> Nat]
  /\ createdAt \in [Rows -> Nat]
  /\ swept \in [Rows -> BOOLEAN]
  /\ audit \in [Requests -> {"none", "written", "failed"}]
  /\ turnAt \in [Requests -> Nat \cup {-1}]
  /\ pc \in [Requests -> Running \cup Stopped]
  /\ startedAt \in [Requests -> Nat]
  /\ userCap \in [Requests -> Nat]
  /\ billed \in [Requests -> Nat]
  /\ usage \in [Requests -> Nat]
  /\ attempt \in [Requests -> 0..MaxAttempts]
  /\ late \in [Requests -> SUBSET {"finalize", "cancel"}]
  /\ callPc \in [Calls -> {"idle", "admitted", "done", "failed"}]

Init ==
  /\ now = 0
  /\ state = [r \in Rows |-> "none"]
  /\ cost = [r \in Rows |-> 0]
  /\ createdAt = [r \in Rows |-> 0]
  /\ swept = [r \in Rows |-> FALSE]
  /\ audit = [r \in Requests |-> "none"]
  /\ turnAt = [r \in Requests |-> -1]
  /\ pc = [r \in Requests |-> "idle"]
  /\ startedAt = [r \in Requests |-> 0]
  /\ userCap = [r \in Requests |-> 0]
  /\ billed = [r \in Requests |-> 0]
  /\ usage = [r \in Requests |-> 0]
  /\ attempt = [r \in Requests |-> 0]
  /\ late = [r \in Requests |-> {}]
  /\ callPc = [c \in Calls |-> "idle"]

----------------------------------------------------------------------------
(* Sums over the ledger *)

DayOf(t) == t \div DayLen
Booked(S) == SumFunctionOnSet(cost, S)

\* The rows of today in a set; the request cap looks at Requests only.
Today(S) == {r \in S : state[r] # "none" /\ DayOf(createdAt[r]) = DayOf(now)}
ByUser(u, S) == {r \in S : UserOf[r] = u}
ByProperty(p, S) == {r \in S : PropertyOf[r] = p}

\* Mutant: open holds are not counted against the caps.
CapsClearOfSettledRows(r) ==
  LET rows == {q \in Today(Requests) : state[q] = "finalized"} IN
  /\ Booked(ByUser(UserOf[r], rows)) + Estimate[r] <= userCap[r]
  /\ Booked(ByProperty(PropertyOf[r], rows)) + Estimate[r] <= PropertyCap
  /\ Booked(rows) + Estimate[r] <= GlobalCap

\* staxis_reserve_agent_spend: all three caps clear, under the three locks.
CapsClear(r) ==
  LET rows == Today(Requests) IN
  /\ Booked(ByUser(UserOf[r], rows)) + Estimate[r] <= userCap[r]
  /\ Booked(ByProperty(PropertyOf[r], rows)) + Estimate[r] <= PropertyCap
  /\ Booked(rows) + Estimate[r] <= GlobalCap

RecentTurns(u) ==
  Cardinality({r \in Requests : /\ UserOf[r] = u
                                /\ turnAt[r] >= 0
                                /\ turnAt[r] >= now - RateWindow})

\* getUserDailyCapUsd: the tier's cap, or the free one when the lookup fails.
CapLookup(u) == {TierCap[u], FreeCap}

----------------------------------------------------------------------------
(* reserveCostBudget *)

\* The rate-limit count, which reads as zero when the query fails, then the
\* tier lookup. Neither is atomic with the reservation that follows.
Admit(r) ==
  /\ pc[r] = "idle" /\ now <= LastStart
  /\ \E n \in {RecentTurns(UserOf[r]), 0} : n < RateLimit
  /\ \E c \in CapLookup(UserOf[r]) : userCap' = [userCap EXCEPT ![r] = c]
  /\ startedAt' = [startedAt EXCEPT ![r] = now]
  /\ pc' = [pc EXCEPT ![r] = "admitted"]
  /\ UNCHANGED <<now, ledger, audit, turnAt, billed, usage, attempt, late, callPc>>

RefuseRate(r) ==
  /\ pc[r] = "idle" /\ now <= LastStart
  /\ RecentTurns(UserOf[r]) >= RateLimit
  /\ pc' = [pc EXCEPT ![r] = "refused"]
  /\ UNCHANGED <<now, ledger, audit, route, late, callPc>>

InsertHold(r) ==
  /\ CapsClear(r)
  /\ state' = [state EXCEPT ![r] = "reserved"]
  /\ cost' = [cost EXCEPT ![r] = Estimate[r]]
  /\ createdAt' = [createdAt EXCEPT ![r] = now]
  /\ UNCHANGED swept

Reserve(r) ==
  /\ pc[r] = "admitted"
  /\ InsertHold(r)
  /\ pc' = [pc EXCEPT ![r] = "reserved"]
  /\ UNCHANGED <<now, audit, route, late, callPc>>

\* The hold is inserted and the answer is lost: the route fails closed, and
\* nobody knows the row.
ReserveAnswerLost(r) ==
  /\ pc[r] = "admitted"
  /\ InsertHold(r)
  /\ pc' = [pc EXCEPT ![r] = "refused"]
  /\ UNCHANGED <<now, audit, route, late, callPc>>

\* A cap refuses, or the RPC fails and the route fails closed.
ReserveRefused(r) ==
  /\ pc[r] = "admitted"
  /\ pc' = [pc EXCEPT ![r] = "refused"]
  /\ UNCHANGED <<now, ledger, audit, route, late, callPc>>

----------------------------------------------------------------------------
(* The turn *)

\* lockLoadAndRecordUserTurn, or createConversation + recordUserTurn.
RecordUserTurn(r) ==
  /\ pc[r] = "reserved"
  /\ turnAt' = [turnAt EXCEPT ![r] = now]
  /\ pc' = [pc EXCEPT ![r] = "streaming"]
  /\ UNCHANGED <<now, ledger, audit, startedAt, userCap, billed, usage,
                 attempt, late, callPc>>

PrepareFails(r) ==
  /\ pc[r] = "reserved"
  /\ pc' = [pc EXCEPT ![r] = "cancelling"]
  /\ UNCHANGED <<now, ledger, audit, route, late, callPc>>

ProviderCall(r) ==
  /\ pc[r] = "streaming"
  /\ \E c \in Charges :
       /\ billed[r] + c <= MaxBill
       /\ billed' = [billed EXCEPT ![r] = @ + c]
  /\ UNCHANGED <<now, ledger, audit, turnAt, startedAt, userCap, usage,
                 attempt, pc, late, callPc>>

\* runAgentStream returns: its usage is everything billed, or null when the
\* stream ended before a token was spent. reconcileCostReservation branches.
StreamReturns(r) ==
  /\ pc[r] = "streaming"
  /\ usage' = [usage EXCEPT ![r] = billed[r]]
  /\ pc' = [pc EXCEPT ![r] = IF billed[r] > 0 THEN "finalizing" ELSE "cancelling"]
  /\ UNCHANGED <<now, ledger, audit, turnAt, startedAt, userCap, billed,
                 attempt, late, callPc>>

\* runAgentStream throws (recordAssistantTurn failed): the route's `result`
\* is still null, so the usage the stream had seen is dropped.
StreamThrows(r) ==
  /\ pc[r] = "streaming"
  /\ pc' = [pc EXCEPT ![r] = "cancelling"]
  /\ UNCHANGED <<now, ledger, audit, route, late, callPc>>

----------------------------------------------------------------------------
(* reconcileCostReservation: finalize up to three times, audit, cancel *)

\* staxis_finalize_agent_spend: refuses a row that is settled or swept.
FinalizeRow(r) ==
  /\ state[r] = "reserved" /\ ~swept[r]
  /\ state' = [state EXCEPT ![r] = "finalized"]
  /\ cost' = [cost EXCEPT ![r] = usage[r]]
  /\ UNCHANGED <<createdAt, swept>>

\* Mutant: the cancel does not look at the state.
CancelRowUnguarded(r) ==
  /\ state' = [state EXCEPT ![r] = "finalized"]
  /\ cost' = [cost EXCEPT ![r] = 0]
  /\ UNCHANGED <<createdAt, swept>>

\* staxis_cancel_agent_spend: a no-op on a row that is not held.
CancelRow(r) ==
  /\ IF state[r] = "reserved"
       THEN /\ state' = [state EXCEPT ![r] = "finalized"]
            /\ cost' = [cost EXCEPT ![r] = 0]
       ELSE UNCHANGED <<state, cost>>
  /\ UNCHANGED <<createdAt, swept>>

\* Mutant: the last failure goes straight to the cancel.
AttemptFailsUnaudited(r) ==
  /\ attempt' = [attempt EXCEPT ![r] = @ + 1]
  /\ pc' = [pc EXCEPT ![r] = IF attempt[r] + 1 = MaxAttempts
                               THEN "cancelling" ELSE "finalizing"]

\* Mutant: the loop has no last attempt.
AttemptFailsUnbounded(r) ==
  /\ attempt' = [attempt EXCEPT ![r] = @ + 1]
  /\ pc' = pc

AttemptFails(r) ==
  /\ attempt' = [attempt EXCEPT ![r] = @ + 1]
  /\ pc' = [pc EXCEPT ![r] = IF attempt[r] + 1 = MaxAttempts
                               THEN "auditing" ELSE "finalizing"]

FinalizeOk(r) ==
  /\ pc[r] = "finalizing"
  /\ FinalizeRow(r)
  /\ pc' = [pc EXCEPT ![r] = "done"]
  /\ UNCHANGED <<now, audit, route, late, callPc>>

FinalizeAnswerLost(r) ==
  /\ pc[r] = "finalizing"
  /\ FinalizeRow(r)
  /\ AttemptFails(r)
  /\ UNCHANGED <<now, audit, turnAt, startedAt, userCap, billed, usage, late, callPc>>

\* The database raises finalize_target_unavailable, is not reached, or is
\* given up on with the call still in flight.
FinalizeFails(r) ==
  /\ pc[r] = "finalizing"
  /\ AttemptFails(r)
  /\ \E l \in {late[r], late[r] \cup {"finalize"}} : late' = [late EXCEPT ![r] = l]
  /\ UNCHANGED <<now, ledger, audit, turnAt, startedAt, userCap, billed, usage, callPc>>

\* The insert into agent_cost_finalize_failures, which may fail too.
WriteAudit(r) ==
  /\ pc[r] = "auditing"
  /\ \E a \in {"written", "failed"} : audit' = [audit EXCEPT ![r] = a]
  /\ pc' = [pc EXCEPT ![r] = "cancelling"]
  /\ UNCHANGED <<now, ledger, route, late, callPc>>

Cancel(r) ==
  /\ pc[r] = "cancelling"
  /\ CancelRow(r)
  /\ pc' = [pc EXCEPT ![r] = "done"]
  /\ UNCHANGED <<now, audit, route, late, callPc>>

\* cancelCostReservation only logs the error: the hold is stranded, unless
\* the call the route gave up on lands after all.
CancelFails(r) ==
  /\ pc[r] = "cancelling"
  /\ pc' = [pc EXCEPT ![r] = "done"]
  /\ \E l \in {late[r], late[r] \cup {"cancel"}} : late' = [late EXCEPT ![r] = l]
  /\ UNCHANGED <<now, ledger, audit, route, callPc>>

LateFinalize(r) ==
  /\ "finalize" \in late[r]
  /\ FinalizeRow(r)
  /\ late' = [late EXCEPT ![r] = @ \ {"finalize"}]
  /\ UNCHANGED <<now, audit, route, pc, callPc>>

LateCancel(r) ==
  /\ "cancel" \in late[r]
  /\ CancelRow(r)
  /\ late' = [late EXCEPT ![r] = @ \ {"cancel"}]
  /\ UNCHANGED <<now, audit, route, pc, callPc>>

----------------------------------------------------------------------------
(* The platform, the clock and the sweeper *)

\* A crash at any instant, or the platform's kill at maxDuration: no finally.
Kill(r) ==
  /\ pc[r] \in Running
  /\ pc' = [pc EXCEPT ![r] = "killed"]
  /\ UNCHANGED <<now, ledger, audit, route, late, callPc>>

Expired(r) == pc[r] \in Running /\ now - startedAt[r] >= MaxDuration

\* No route outlives its maxDuration.
Tick ==
  /\ now < MaxNow
  /\ \A r \in Requests : ~Expired(r)
  /\ now' = now + 1
  /\ UNCHANGED <<ledger, audit, route, pc, late, callPc>>

\* Mutants: the age is forgotten; only holds of the current day are looked at.
StaleAtAnyAge(r) == state[r] = "reserved"
StaleTodayOnly(r) == /\ state[r] = "reserved" /\ createdAt[r] < now - SweepAge
                     /\ DayOf(createdAt[r]) = DayOf(now)
Stale(r) == state[r] = "reserved" /\ createdAt[r] < now - SweepAge

\* staxis_sweep_stale_reservations: one UPDATE over every stale hold.
Sweep ==
  /\ \E r \in Requests : Stale(r)
  /\ state' = [r \in Rows |-> IF Stale(r) THEN "finalized" ELSE state[r]]
  /\ cost' = [r \in Rows |-> IF Stale(r) THEN 0 ELSE cost[r]]
  /\ swept' = [r \in Rows |-> Stale(r) \/ swept[r]]
  /\ UNCHANGED <<now, createdAt, audit, route, pc, late, callPc>>

----------------------------------------------------------------------------
(* Spend that is not a chat request *)

\* assertAudioBudget: today's rows of EVERY kind are below each cap.
GateClear(c) ==
  LET rows == Today(Rows) IN
  /\ \E cap \in CapLookup(UserOf[c]) : Booked(ByUser(UserOf[c], rows)) < cap
  /\ Booked(ByProperty(PropertyOf[c], rows)) < PropertyCap
  /\ Booked(rows) < GlobalCap

AdmitCall(c) ==
  /\ callPc[c] = "idle" /\ now <= LastStart
  /\ GateClear(c)
  /\ callPc' = [callPc EXCEPT ![c] = "admitted"]
  /\ UNCHANGED <<now, ledger, audit, route, pc, late>>

\* recordNonRequestCost, after the provider was paid. The insert may fail and
\* throw, and then nothing is booked.
BookCall(c) ==
  /\ callPc[c] = "admitted"
  /\ \E amount \in Charges : cost' = [cost EXCEPT ![c] = amount]
  /\ state' = [state EXCEPT ![c] = "finalized"]
  /\ createdAt' = [createdAt EXCEPT ![c] = now]
  /\ callPc' = [callPc EXCEPT ![c] = "done"]
  /\ UNCHANGED <<now, swept, audit, route, pc, late>>

BookCallFails(c) ==
  /\ callPc[c] = "admitted"
  /\ callPc' = [callPc EXCEPT ![c] = "failed"]
  /\ UNCHANGED <<now, ledger, audit, route, pc, late>>

----------------------------------------------------------------------------
Next ==
  \/ Tick \/ Sweep
  \/ \E r \in Requests :
       \/ Admit(r) \/ RefuseRate(r)
       \/ Reserve(r) \/ ReserveAnswerLost(r) \/ ReserveRefused(r)
       \/ RecordUserTurn(r) \/ PrepareFails(r)
       \/ ProviderCall(r) \/ StreamReturns(r) \/ StreamThrows(r)
       \/ FinalizeOk(r) \/ FinalizeAnswerLost(r) \/ FinalizeFails(r)
       \/ WriteAudit(r) \/ Cancel(r) \/ CancelFails(r)
       \/ LateFinalize(r) \/ LateCancel(r) \/ Kill(r)
  \/ \E c \in Calls : AdmitCall(c) \/ BookCall(c) \/ BookCallFails(c)

Spec == Init /\ [][Next]_vars

\* The clock runs, the cron fires and the platform enforces maxDuration.
\* Nothing is assumed of the routes or of the database's answers.
Fairness ==
  /\ WF_vars(Tick) /\ WF_vars(Sweep)
  /\ \A r \in Requests : WF_vars(Expired(r) /\ Kill(r))

FairSpec == Spec /\ Fairness

----------------------------------------------------------------------------
(* Properties *)

\* The sweeper never zeroes the hold of a route that is still running, so a
\* turn's real price can always still be written (0091, 0374's guard).
SweeperSparesTheLiving ==
  \A r \in Requests : pc[r] \in Running => ~swept[r]

\* When the route's `finally` has run and it knew what was spent, the books
\* or the audit table hold that amount; both are empty only if the audit
\* insert failed as well (cost-controls.ts, "the actual usage is preserved").
KnownSpendIsKept ==
  \A r \in Requests :
    (pc[r] = "done" /\ usage[r] > 0) =>
      \/ state[r] = "finalized" /\ cost[r] = usage[r]
      \/ audit[r] # "none"

\* Each UTC day, the request rows of a user, of a hotel and of everyone stay
\* within the caps, counting a row at no more than it had reserved: however
\* reservations, settlements, sweeps and midnight interleave.
SmallerOf(a, b) == IF a < b THEN a ELSE b
Held == [r \in Requests |-> SmallerOf(cost[r], Estimate[r])]
Committed(S) == SumFunctionOnSet(Held, S)
RequestsOf(d) == {r \in Requests : state[r] # "none" /\ DayOf(createdAt[r]) = d}
CapsHold ==
  \A d \in {DayOf(createdAt[r]) : r \in Requests} :
    /\ \A u \in Users : Committed(ByUser(u, RequestsOf(d))) <= TierCap[u]
    /\ \A p \in Properties : Committed(ByProperty(p, RequestsOf(d))) <= PropertyCap
    /\ Committed(RequestsOf(d)) <= GlobalCap

BudgetStatus ==
  [r \in Rows |-> CASE state[r] = "none" -> "none"
                     [] state[r] = "reserved" -> "held"
                     [] state[r] = "finalized" -> "settled"]

\* A settled row is final: no retry, late call, cancel or sweep ever rewrites
\* an amount the books have accepted.
SettledIsFinal ==
  [][\A r \in Rows : state[r] = "finalized" =>
       /\ state'[r] = "finalized" /\ cost'[r] = cost[r]
       /\ createdAt'[r] = createdAt[r] /\ swept'[r] = swept[r]]_vars

\* Every hold is settled in the end, whatever its route did: lost answers,
\* failed cancels and crashes do not shrink a budget for ever.
HoldsAreReleased ==
  \A r \in Requests : state[r] = "reserved" ~> state[r] = "finalized"

\* The ledger, with every retry, crash, late call and sweep, is a budget that
\* grants inside the caps and settles each amount once (SpendBudget).
Budget == INSTANCE SpendBudget WITH
  UserCap <- TierCap, today <- DayOf(now), status <- BudgetStatus,
  amount <- cost, day <- [r \in Rows |-> DayOf(createdAt[r])]
ImplementsBudget == Budget!Spec

\* INV-43 says that every provider call is booked exactly once. Claimed here
\* only for turns whose `finally` ran and whose ledger calls all succeeded.
PaidTurnsAreBooked ==
  \A r \in Requests :
    (pc[r] = "done" /\ attempt[r] = 0 /\ billed[r] > 0
       /\ state[r] = "finalized" /\ ~swept[r])
    => cost[r] = billed[r]
=============================================================================
