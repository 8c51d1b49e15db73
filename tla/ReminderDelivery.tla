-------------------------- MODULE ReminderDelivery --------------------------
(***************************************************************************)
(* Reminders of the assistant and the cron that delivers them              *)
(* (agent_reminders, fireDueReminders).                                    *)
(*                                                                         *)
(* A cron tick reads a batch of due reminders, then takes each in turn:    *)
(* a lease, a message in a conversation, a final stamp.  Ticks overlap,    *)
(* calls fail after they took effect, and the platform may end a tick at   *)
(* any step; meanwhile a reminder is cancelled, its creator is removed, or *)
(* its hotel switches Communications off.                                  *)
(*                                                                         *)
(* There is no clock but ages: how long ago a tick began and a lease was   *)
(* taken, which is all that the code compares.  A message is a row and its *)
(* place; the conversation's last_message_at is left out.                  *)
(***************************************************************************)
EXTENDS Integers, FiniteSets

CONSTANTS
  Reminders, Hotels, HotelOf,
  FireAt,       \* [Reminders -> Nat]: the order of fire_at
  Direct,       \* reminders to a colleague; the others go to a channel
  Leavers,      \* reminders whose creator may be removed
  Ticks,        \* invocations of the cron that may overlap
  Batch,        \* the query's limit, two hundred in the code
  Lease,        \* DELIVERY_LEASE_MS
  MaxDuration,  \* maxDuration of the route
  Nobody,       \* no lease, no row
  Gone,         \* the token of a lease whose tick was killed
  MaxFaults     \* failures and kills: bounds the state space only

ASSUME ReminderAssumption ==
  /\ HotelOf \in [Reminders -> Hotels] /\ FireAt \in [Reminders -> Nat]
  /\ Direct \subseteq Reminders /\ Leavers \subseteq Reminders
  /\ Batch \in Nat \ {0} /\ MaxFaults \in Nat
  /\ Nobody \notin Ticks \cup Reminders /\ Gone \notin Ticks /\ Nobody # Gone
ASSUME LeaseAssumption ==
  Lease \in Nat /\ MaxDuration \in Nat /\ MaxDuration <= Lease

VARIABLES
  due,       \* fire_at has passed
  outcome,   \* open, fired (fired_at) or canceled (canceled_at)
  token,     \* claim_token: the tick that holds the lease, Gone or Nobody
  leaseAge,  \* how long ago claimed_at was, capped
  creator,   \* created_by_staff_id is not null
  posted,    \* where the reminder's message is, "none" before it is posted
  late,      \* inserts of killed ticks that may still arrive
  enabled,   \* hotels with Communications on
  at, age,   \* where each tick is and how long ago it began
  batch, signed, open,  \* its rows left, those with a creator, the hotels it saw enabled
  row,       \* the reminder it has the lease of
  caught,    \* reminders whose cancel came during or after a delivery
  left       \* faults still to come

rows == <<due, outcome, token, leaseAge, creator, posted, late, caught>>
tick == <<at, age, batch, signed, open, row>>
vars == <<rows, enabled, tick, left>>

Places == {"direct", "channel", "announcements"}
Busy == {"posting", "finalizing", "releasing"}     \* places that hold a lease
OldLease == Lease + MaxDuration + 1                \* old enough for every tick

TypeOK ==
  /\ due \in [Reminders -> BOOLEAN]
  /\ outcome \in [Reminders -> {"open", "fired", "canceled"}]
  /\ token \in [Reminders -> Ticks \cup {Nobody, Gone}]
  /\ leaseAge \in [Reminders -> 0..OldLease]
  /\ creator \in [Reminders -> BOOLEAN]
  /\ posted \in [Reminders -> Places \cup {"none"}]
  /\ late \subseteq Reminders \X Places
  /\ caught \subseteq Reminders
  /\ enabled \subseteq Hotels
  /\ at \in [Ticks -> {"idle", "choosing"} \cup Busy]
  /\ age \in [Ticks -> 0..MaxDuration]
  /\ batch \in [Ticks -> SUBSET Reminders]
  /\ signed \in [Ticks -> SUBSET Reminders] /\ open \in [Ticks -> SUBSET Hotels]
  /\ row \in [Ticks -> Reminders \cup {Nobody}]
  /\ left \in Nat

Init ==
  /\ due = [r \in Reminders |-> FALSE]
  /\ outcome = [r \in Reminders |-> "open"]
  /\ token = [r \in Reminders |-> Nobody]
  /\ leaseAge = [r \in Reminders |-> 0]
  /\ creator = [r \in Reminders |-> TRUE]
  /\ posted = [r \in Reminders |-> "none"]
  /\ late = {} /\ caught = {}
  /\ enabled \in SUBSET Hotels
  /\ at = [t \in Ticks |-> "idle"] /\ age = [t \in Ticks |-> 0]
  /\ batch = [t \in Ticks |-> {}]
  /\ signed = [t \in Ticks |-> {}] /\ open = [t \in Ticks |-> {}]
  /\ row = [t \in Ticks |-> Nobody]
  /\ left = MaxFaults

Fault == left > 0 /\ left' = left - 1
Goto(t, place) == at' = [at EXCEPT ![t] = place]
Delivering(t, r) == at[t] \in Busy /\ row[t] = r

(***************************************************************************)
(* The reminder's people.                                                  *)
(***************************************************************************)
BecomesDue(r) ==
  /\ ~due[r]
  /\ due' = [due EXCEPT ![r] = TRUE]
  /\ UNCHANGED <<outcome, token, leaseAge, creator, posted, late, caught, enabled, tick, left>>

\* cancelReminder: whatever its lease says.
Cancel(r) ==
  /\ outcome[r] = "open"
  /\ outcome' = [outcome EXCEPT ![r] = "canceled"]
  /\ caught' = IF posted[r] # "none" \/ (\E t \in Ticks : Delivering(t, r))
                  \/ (\E p \in Places : <<r, p>> \in late)
               THEN caught \cup {r} ELSE caught
  /\ UNCHANGED <<due, token, leaseAge, creator, posted, late, enabled, tick, left>>

\* The staff row is deleted: ON DELETE SET NULL.
CreatorLeaves(r) ==
  /\ creator[r] /\ r \in Leavers
  /\ creator' = [creator EXCEPT ![r] = FALSE]
  /\ UNCHANGED <<due, outcome, token, leaseAge, posted, late, caught, enabled, tick, left>>

SwitchSection(h) ==
  /\ enabled' = IF h \in enabled THEN enabled \ {h} ELSE enabled \cup {h}
  /\ UNCHANGED <<rows, tick, left>>

(***************************************************************************)
(* A tick: fireDueReminders.                                               *)
(***************************************************************************)
\* Mutant: a lease as old as the tick counts as stale.
HalfStale(r, t) == token[r] = Nobody \/ leaseAge[r] >= age[t]

\* Mutant: a lease is never reclaimed.
NeverStale(r, t) == token[r] = Nobody

\* claimed_at is older than the lease, seen from the start of the tick.
Claimable(r, t) == token[r] = Nobody \/ leaseAge[r] > Lease + age[t]
Pending(r) == due[r] /\ outcome[r] = "open"

\* The query: the oldest due rows nobody holds, at most Batch of them; then
\* whether Communications is on in their hotels, looked up once.  A tick that
\* finds nothing ends at once, and is no step here.
Read(t, S) ==
  LET found == {r \in Reminders : Pending(r) /\ Claimable(r, t)} IN
  /\ at[t] = "idle"
  /\ S \subseteq found /\ S # {}
  /\ \A r \in S, q \in found \ S : FireAt[r] <= FireAt[q]
  /\ Cardinality(S) <= Batch /\ (Cardinality(S) < Batch => S = found)
  /\ Goto(t, "choosing")
  /\ batch' = [batch EXCEPT ![t] = S]
  /\ signed' = [signed EXCEPT ![t] = {r \in S : creator[r]}]
  /\ open' = [open EXCEPT ![t] = {HotelOf[r] : r \in S} \cap enabled]
  /\ UNCHANGED <<rows, enabled, age, row, left>>

Next1(t, r) == at[t] = "choosing" /\ r \in batch[t] /\ \A q \in batch[t] : FireAt[r] <= FireAt[q]
Off(t, r) == batch' = [batch EXCEPT ![t] = @ \ {r}]

\* Communications is off: the row stays due.
SkipPaused(t, r) ==
  /\ Next1(t, r) /\ HotelOf[r] \notin open[t]
  /\ Off(t, r)
  /\ UNCHANGED <<rows, enabled, at, age, signed, open, row, left>>

\* Mutant: the claim trusts the row it read.
OpenWhenRead(r) == TRUE

\* is('fired_at', null), is('canceled_at', null).
StillOpen(r) == outcome[r] = "open"

Claim(t, r) ==
  /\ Next1(t, r) /\ HotelOf[r] \in open[t]
  /\ StillOpen(r) /\ Claimable(r, t)
  /\ token' = [token EXCEPT ![r] = t] /\ leaseAge' = [leaseAge EXCEPT ![r] = 0]
  /\ row' = [row EXCEPT ![t] = r]
  /\ Off(t, r) /\ Goto(t, "posting")
  /\ UNCHANGED <<due, outcome, creator, posted, late, caught, enabled, age, signed, open, left>>

\* Another tick has it, it was cancelled, or the update failed: as an error,
\* or having taken the lease all the same.
ClaimNothing(t, r) ==
  /\ Next1(t, r) /\ HotelOf[r] \in open[t]
  /\ \/ ~(StillOpen(r) /\ Claimable(r, t)) /\ UNCHANGED <<token, leaseAge, left>>
     \/ Fault /\ UNCHANGED <<token, leaseAge>>
     \/ /\ Fault /\ StillOpen(r) /\ Claimable(r, t)
        /\ token' = [token EXCEPT ![r] = Gone] /\ leaseAge' = [leaseAge EXCEPT ![r] = 0]
  /\ Off(t, r)
  /\ UNCHANGED <<due, outcome, creator, posted, late, caught, enabled, at, age, signed, open, row>>

\* Mutant: a channel the department may not have.
AimNowhere(t, r) == IF r \notin Direct THEN "null"
                    ELSE IF r \in signed[t] THEN "direct" ELSE "announcements"

\* Where deliverReminder puts it, for the creator the tick has read.
Aim(t, r) == IF r \notin Direct THEN "channel"
             ELSE IF r \in signed[t] THEN "direct" ELSE "announcements"

\* Mutant: any duplicate counts as delivered.
DuplicateAnywhere(t) == posted[row[t]] # "none"

\* 23505, and the message there is this reminder's in this conversation.
Duplicate(t) == posted[row[t]] = Aim(t, row[t])

\* A creator the tick still believes in may be gone: the insert has no sender.
Unsigned(t) == row[t] \in signed[t] /\ ~creator[row[t]]

Post(t) ==
  LET r == row[t] IN
  /\ at[t] = "posting"
  /\ \/ /\ posted[r] = "none" /\ ~Unsigned(t)
        /\ posted' = [posted EXCEPT ![r] = Aim(t, r)]
        /\ Goto(t, "finalizing")
     \/ Duplicate(t) /\ Goto(t, "finalizing") /\ UNCHANGED posted
  /\ UNCHANGED <<due, outcome, token, leaseAge, creator, late, caught, enabled, age, batch,
                 signed, open, row, left>>

\* It throws: a message elsewhere, no sender, or an error before or after the
\* message was written.
PostFails(t) ==
  LET r == row[t] IN
  /\ at[t] = "posting"
  /\ \/ posted[r] # "none" /\ ~Duplicate(t) /\ UNCHANGED <<posted, left>>
     \/ Unsigned(t) /\ UNCHANGED <<posted, left>>
     \/ Fault /\ UNCHANGED posted
     \/ /\ Fault /\ posted[r] = "none" /\ ~Unsigned(t)
        /\ posted' = [posted EXCEPT ![r] = Aim(t, r)]
  /\ Goto(t, "releasing")
  /\ UNCHANGED <<due, outcome, token, leaseAge, creator, late, caught, enabled, age, batch,
                 signed, open, row>>

Free(r) == token' = [token EXCEPT ![r] = Nobody] /\ leaseAge' = [leaseAge EXCEPT ![r] = 0]
Done(t) == Goto(t, "choosing") /\ row' = [row EXCEPT ![t] = Nobody]

\* fired_at, behind the lease and the cancel.
Finalize(t) ==
  LET r == row[t] IN
  /\ at[t] = "finalizing" /\ token[r] = t /\ outcome[r] # "canceled"
  /\ outcome' = [outcome EXCEPT ![r] = "fired"]
  /\ Free(r)
  /\ \/ Done(t) /\ UNCHANGED left
     \/ Fault /\ Goto(t, "releasing") /\ UNCHANGED row     \* the answer is lost
  /\ UNCHANGED <<due, creator, posted, late, caught, enabled, age, batch, signed, open>>

\* It matches no row, or fails.
FinalizeNothing(t) ==
  /\ at[t] = "finalizing"
  /\ \/ (token[row[t]] # t \/ outcome[row[t]] = "canceled") /\ UNCHANGED left
     \/ Fault
  /\ Goto(t, "releasing")
  /\ UNCHANGED <<rows, enabled, age, batch, signed, open, row>>

\* Its own lease, if it still has it; errors are swallowed.
Release(t) ==
  LET r == row[t] IN
  /\ at[t] = "releasing"
  /\ \/ token[r] = t /\ Free(r) /\ UNCHANGED left
     \/ token[r] # t /\ UNCHANGED <<token, leaseAge, left>>
     \/ Fault /\ token[r] = t /\ token' = [token EXCEPT ![r] = Gone] /\ UNCHANGED leaseAge
  /\ Done(t)
  /\ UNCHANGED <<due, outcome, creator, posted, late, caught, enabled, age, batch, signed, open>>

\* The invocation is over; the next one starts afresh.
Over(t) ==
  /\ Goto(t, "idle") /\ age' = [age EXCEPT ![t] = 0]
  /\ batch' = [batch EXCEPT ![t] = {}] /\ row' = [row EXCEPT ![t] = Nobody]
  /\ signed' = [signed EXCEPT ![t] = {}] /\ open' = [open EXCEPT ![t] = {}]

EndTick(t) ==
  /\ at[t] = "choosing" /\ batch[t] = {}
  /\ Over(t)
  /\ UNCHANGED <<rows, enabled, left>>

(***************************************************************************)
(* The platform and time.                                                  *)
(***************************************************************************)
\* The tick ends where it is; an insert it has sent may arrive later.
Kill(t) ==
  /\ at[t] # "idle" /\ Fault
  /\ Over(t)
  /\ token' = [r \in Reminders |-> IF token[r] = t THEN Gone ELSE token[r]]
  /\ \/ UNCHANGED late
     \/ at[t] = "posting" /\ late' = late \cup {<<row[t], Aim(t, row[t])>>}
  /\ UNCHANGED <<due, outcome, leaseAge, creator, posted, caught, enabled>>

LateInsert(r, p) ==
  /\ <<r, p>> \in late
  /\ late' = late \ {<<r, p>>}
  /\ \/ posted[r] = "none" /\ posted' = [posted EXCEPT ![r] = p]
     \/ UNCHANGED posted                             \* a duplicate, or it never arrives
  /\ UNCHANGED <<due, outcome, token, leaseAge, creator, caught, enabled, tick, left>>

Running(t) == at[t] # "idle"

\* Time passes; no tick outlives maxDuration.
TimePasses ==
  /\ \A t \in Ticks : Running(t) => age[t] < MaxDuration
  /\ age' = [t \in Ticks |-> IF Running(t) THEN age[t] + 1 ELSE age[t]]
  /\ leaseAge' = [r \in Reminders |->
                    IF token[r] # Nobody /\ leaseAge[r] < OldLease THEN leaseAge[r] + 1 ELSE leaseAge[r]]
  /\ UNCHANGED <<due, outcome, token, creator, posted, late, caught, enabled, at, batch, signed,
                 open, row, left>>

Take(t, r) == SkipPaused(t, r) \/ Claim(t, r) \/ ClaimNothing(t, r)
Step(t) ==
  \/ (\E r \in Reminders : Take(t, r))
  \/ Post(t) \/ PostFails(t) \/ Finalize(t) \/ FinalizeNothing(t) \/ Release(t) \/ EndTick(t)

Next ==
  \/ \E r \in Reminders : BecomesDue(r) \/ Cancel(r) \/ CreatorLeaves(r)
                          \/ \E p \in Places : LateInsert(r, p)
  \/ \E h \in Hotels : SwitchSection(h)
  \/ \E t \in Ticks : (\E S \in SUBSET Reminders : Read(t, S)) \/ Step(t) \/ Kill(t)
  \/ TimePasses

Spec == Init /\ [][Next]_vars

\* The cron is scheduled, a tick that is not killed goes on, and time passes.
FairSpec ==
  /\ Spec /\ WF_vars(TimePasses)
  /\ \A t \in Ticks : WF_vars(\E S \in SUBSET Reminders : Read(t, S)) /\ WF_vars(Step(t))

(***************************************************************************)
(* Properties.                                                             *)
(***************************************************************************)
\* Whoever is delivering a reminder has its lease: ticks that overlap, crash
\* and reclaim never deliver one reminder at a time, though the claim judges a
\* lease by the start of its own tick.  A finalize may end the lease early.
OneDeliverer ==
  \A t \in Ticks : at[t] \in {"posting", "finalizing"} => token[row[t]] = t

\* fired_at is written behind the message, and the message is where the tick
\* that stamps the reminder meant to put it, also when it found a duplicate that
\* another tick or a late insert had left.
FiredWhereItAimed ==
  [][\A r \in Reminders : outcome'[r] = "fired" /\ outcome[r] # "fired" =>
       \E t \in Ticks : at[t] = "finalizing" /\ row[t] = r /\ posted[r] = Aim(t, r)]_vars

\* A reminder cancelled before anybody set out to deliver it is never posted,
\* however old the batch is that still lists it.
CancelIsHonoured ==
  \A r \in Reminders : outcome[r] = "canceled" /\ posted[r] # "none" => r \in caught

\* Its message stands where it would not be put now: the creator was removed
\* between the message and the stamp, and every retry finds a duplicate in
\* another conversation.
Misplaced(r) == posted[r] # "none" /\ r \in Direct
                /\ posted[r] # IF creator[r] THEN "direct" ELSE "announcements"
Stuck(r) == Pending(r) /\ (HotelOf[r] \notin enabled \/ Misplaced(r))

\* Rows that stay due fill the batch, which is always the oldest.
Crowded(r) == Cardinality({q \in Reminders : Stuck(q) /\ FireAt[q] <= FireAt[r]}) >= Batch

\* A due reminder is fired or cancelled whatever is lost or killed, unless its
\* hotel is paused or it is misplaced or crowded out for ever.
DueIsSettled ==
  \A r \in Reminders : []<>(~Pending(r) \/ Stuck(r) \/ Crowded(r))
=============================================================================
