------------------------- MODULE PortfolioAdmission -------------------------
(***************************************************************************)
(* The admission of portfolio questions (migration 0391 and                *)
(* lib/portfolio-query-admission): before a question reads any hotel, a    *)
(* row of its account and organization counts the attempt and hands out    *)
(* one lease.                                                              *)
(*                                                                         *)
(* One such row is modelled.  A call of the acquire function reads the     *)
(* clock, waits for the row and then decides; calls overlap, and a call    *)
(* goes on in the database when its request has given up or was killed.    *)
(* Time is a counter; a minute and an hour are intervals of it.            *)
(***************************************************************************)
EXTENDS Integers

CONSTANTS
  Requests,
  Units,        \* the minute and the hour
  Cap,          \* attempts per unit: ten and one hundred and twenty
  BucketOf,     \* [Units -> [Times -> Times]]: date_trunc
  Lease,        \* v_lease, seventy-five seconds, never below sixty-five
  MaxDuration,  \* maxDuration of the route, sixty seconds
  LastAsk,      \* no request comes later: bounds the state space only
  MaxNow,       \* the end of time: bounds the state space only
  MaxFaults,    \* lost, repeated and failed calls, kills: likewise
  None

Times == 0..MaxNow

ASSUME AdmissionAssumption ==
  /\ LastAsk \in Nat /\ MaxNow \in Nat /\ MaxFaults \in Nat
  /\ Cap \in [Units -> Nat \ {0}] /\ BucketOf \in [Units -> [Times -> Times]]
  /\ None \notin Requests /\ None \notin Int
ASSUME LeaseAssumption ==
  Lease \in Nat /\ MaxDuration \in Nat /\ MaxDuration < Lease

VARIABLES
  now,
  token, expires,  \* lease_token and lease_expires_at, None together
  bucket, count,   \* minute_bucket and hour_bucket, minute_count and hour_count
  route, born,     \* where each request is and when it began
  rpc, clock,      \* its call of the acquire function and the call's v_now
  answer, until,   \* what the call said, and its leaseExpiresAt
  releases,        \* requests whose release call is under way
  grants,          \* leases granted, by unit and bucket of the caller's clock
  setbacks,        \* times a caller wrote an older bucket than it found
  left             \* faults still to come

row == <<token, expires, bucket, count>>
tally == <<grants, setbacks>>
call == <<rpc, clock, answer, until>>
vars == <<now, row, route, born, call, releases, tally, left>>

Answers == {"admitted", "busy", "rate_limited", "unavailable"}
Live(r) == route[r] \in {"asking", "querying"}

TypeOK ==
  /\ now \in Times
  /\ token \in Requests \cup {None} /\ expires \in Nat \cup {None}
  /\ (token = None) = (expires = None)
  /\ bucket \in [Units -> Times] /\ count \in [Units -> Nat]
  /\ route \in [Requests -> {"idle", "asking", "querying", "ended"}]
  /\ born \in [Requests -> Times]
  /\ rpc \in [Requests -> {"none", "sent", "locking", "answered"}]
  /\ clock \in [Requests -> Times]
  /\ answer \in [Requests -> Answers \cup {None}] /\ until \in [Requests -> Nat]
  /\ releases \subseteq Requests
  /\ grants \in [Units -> [Times -> Nat]] /\ setbacks \in [Units -> Nat]
  /\ left \in Nat

Init ==
  /\ now = 0
  /\ token = None /\ expires = None
  /\ bucket = [u \in Units |-> 0] /\ count = [u \in Units |-> 0]
  /\ route = [r \in Requests |-> "idle"] /\ born = [r \in Requests |-> 0]
  /\ rpc = [r \in Requests |-> "none"] /\ clock = [r \in Requests |-> 0]
  /\ answer = [r \in Requests |-> None] /\ until = [r \in Requests |-> 0]
  /\ releases = {}
  /\ grants = [u \in Units |-> [b \in Times |-> 0]]
  /\ setbacks = [u \in Units |-> 0]
  /\ left = MaxFaults

Fault == left > 0 /\ left' = left - 1
Goto(r, place) == route' = [route EXCEPT ![r] = place]
Rpc(r, place) == rpc' = [rpc EXCEPT ![r] = place]
Say(r, what) == answer' = [answer EXCEPT ![r] = what] /\ UNCHANGED until
Admit(r, end) == answer' = [answer EXCEPT ![r] = "admitted"] /\ until' = [until EXCEPT ![r] = end]

(***************************************************************************)
(* The acquire function.                                                   *)
(***************************************************************************)
\* A request comes and calls with a token of its own.
Ask(r) ==
  /\ route[r] = "idle" /\ now <= LastAsk
  /\ Goto(r, "asking") /\ born' = [born EXCEPT ![r] = now]
  /\ Rpc(r, "sent")
  /\ UNCHANGED <<now, row, clock, answer, until, releases, tally, left>>

\* v_now is read when the function begins; the row lock may be long in coming.
Enter(r) ==
  /\ rpc[r] = "sent"
  /\ Rpc(r, "locking") /\ clock' = [clock EXCEPT ![r] = now]
  /\ UNCHANGED <<now, row, route, born, answer, until, releases, tally, left>>

InBucket(r, u) == BucketOf[u][clock[r]]
LeaseRuns(r) == token # None /\ expires > clock[r]
HasLease(r) == token = r /\ LeaseRuns(r)

\* Mutant: a new minute starts a new hour.
CountWithMinute(r, u) ==
  IF \A v \in Units : bucket[v] = InBucket(r, v) THEN count[u] + 1 ELSE 1

Counted(r, u) == IF bucket[u] = InBucket(r, u) THEN count[u] + 1 ELSE 1
TooMany(r) == \E u \in Units : Counted(r, u) > Cap[u]

\* The call made twice: no slot is used.
Again(r) ==
  /\ rpc[r] = "locking" /\ HasLease(r)
  /\ Rpc(r, "answered") /\ Admit(r, expires)
  /\ UNCHANGED <<now, row, route, born, clock, releases, tally, left>>

\* The attempt is counted, in the caller's minute and hour, whatever follows.
CountAttempt(r) ==
  /\ rpc[r] = "locking" /\ ~HasLease(r)
  /\ bucket' = [u \in Units |-> InBucket(r, u)]
  /\ count' = [u \in Units |-> Counted(r, u)]
  /\ setbacks' = [u \in Units |-> IF InBucket(r, u) < bucket[u] THEN setbacks[u] + 1
                                                               ELSE setbacks[u]]

Refuse(r) ==
  /\ CountAttempt(r)
  /\ \/ TooMany(r) /\ Say(r, "rate_limited")
     \/ ~TooMany(r) /\ LeaseRuns(r) /\ Say(r, "busy")
  /\ Rpc(r, "answered")
  /\ UNCHANGED <<now, token, expires, route, born, clock, releases, grants, left>>

Grant(r) ==
  /\ CountAttempt(r)
  /\ ~TooMany(r) /\ ~LeaseRuns(r)
  /\ token' = r /\ expires' = clock[r] + Lease
  /\ grants' = [u \in Units |-> [grants[u] EXCEPT ![InBucket(r, u)] = @ + 1]]
  /\ Rpc(r, "answered") /\ Admit(r, clock[r] + Lease)
  /\ UNCHANGED <<now, route, born, clock, releases, left>>

\* It fails and leaves the row alone.
AcquireFails(r) ==
  /\ rpc[r] \in {"sent", "locking"} /\ Fault
  /\ Rpc(r, "answered") /\ Say(r, "unavailable")
  /\ UNCHANGED <<now, row, route, born, clock, releases, tally>>

\* The answer is lost on the way and the call arrives a second time.
Redeliver(r) ==
  /\ rpc[r] = "answered" /\ route[r] = "asking" /\ Fault
  /\ Rpc(r, "sent") /\ Say(r, None)
  /\ UNCHANGED <<now, row, route, born, clock, releases, tally>>

(***************************************************************************)
(* The request.                                                            *)
(***************************************************************************)
\* Only an admission that still runs opens the hotels.
Hear(r) ==
  /\ route[r] = "asking" /\ rpc[r] = "answered"
  /\ Goto(r, IF answer[r] = "admitted" /\ until[r] > now THEN "querying" ELSE "ended")
  /\ UNCHANGED <<now, row, born, call, releases, tally, left>>

\* It fails closed, and holds no token to release; the call goes on.
HearNothing(r) ==
  /\ route[r] = "asking" /\ Fault
  /\ Goto(r, "ended")
  /\ UNCHANGED <<now, row, born, call, releases, tally>>

\* Every way out of the route calls the release once, after its last query.
Finish(r) ==
  /\ route[r] = "querying"
  /\ Goto(r, "ended") /\ releases' = releases \cup {r}
  /\ UNCHANGED <<now, row, born, call, tally, left>>

\* Mutant: a release clears whatever lease there is.
OwnsAny(r) == token # None

Owns(r) == token = r

\* Mutant: the token alone is cleared.
ClearToken == token' = None /\ UNCHANGED expires

Clear == token' = None /\ expires' = None

Release(r) ==
  /\ r \in releases
  /\ releases' = releases \ {r}
  /\ IF Owns(r) THEN Clear ELSE UNCHANGED <<token, expires>>   \* lease_lost
  /\ UNCHANGED <<now, bucket, count, route, born, call, tally, left>>

ReleaseLost(r) ==
  /\ r \in releases /\ Fault
  /\ releases' = releases \ {r}
  /\ UNCHANGED <<now, row, route, born, call, tally>>

\* The platform ends the request, at maxDuration or before.
Kill(r) ==
  /\ Live(r)
  /\ \/ now - born[r] = MaxDuration /\ UNCHANGED left
     \/ Fault
  /\ Goto(r, "ended")
  /\ UNCHANGED <<now, row, born, call, releases, tally>>

TimePasses ==
  /\ now < MaxNow
  /\ \A r \in Requests : Live(r) => now - born[r] < MaxDuration
  /\ now' = now + 1
  /\ UNCHANGED <<row, route, born, call, releases, tally, left>>

Next ==
  \/ \E r \in Requests :
       \/ Ask(r) \/ Enter(r) \/ Again(r) \/ Refuse(r) \/ Grant(r) \/ AcquireFails(r) \/ Redeliver(r)
       \/ Hear(r) \/ HearNothing(r) \/ Finish(r) \/ Release(r) \/ ReleaseLost(r) \/ Kill(r)
  \/ TimePasses

Spec == Init /\ [][Next]_vars

(***************************************************************************)
(* Properties.                                                             *)
(***************************************************************************)
\* No two requests of one account and organization read hotels at a time, though
\* leases lapse under requests that were killed, calls are decided by a clock
\* read before the lock, and releases and repeated calls arrive long after.
OneQueryAtATime ==
  \A q, r \in Requests : route[q] = "querying" /\ route[r] = "querying" => q = r

\* A minute or an hour grants no more than its cap, once over for every time that
\* a caller who waited for the row wrote an older bucket than it found.
RateHolds ==
  \A u \in Units, b \in Times : grants[u][b] <= Cap[u] * (setbacks[u] + 1)
=============================================================================
