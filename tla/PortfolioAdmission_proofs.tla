---------------------- MODULE PortfolioAdmission_proofs ----------------------
(***************************************************************************)
(* Theorems about PortfolioAdmission for any requests, caps, buckets of    *)
(* time and faults, and any lease that is longer than a request may live   *)
(* (LeaseAssumption: sixty seconds against at least sixty-five).           *)
(***************************************************************************)
EXTENDS PortfolioAdmission, TLAPS

\* A live request is young, and the clock its call is decided by is not older
\* than it.
AgeInv ==
  \A r \in Requests :
    /\ Live(r) => born[r] <= now /\ now - born[r] <= MaxDuration
    /\ clock[r] <= now
    /\ Live(r) /\ rpc[r] = "locking" => born[r] <= clock[r]

\* It has been told, or has yet to hear, that it is admitted.
Admitted(r) ==
  \/ route[r] = "querying"
  \/ route[r] = "asking" /\ rpc[r] = "answered" /\ answer[r] = "admitted"

\* An admitted request has the lease, and a live request's lease runs for as
\* long as the request may live.  So the lease cannot lapse under it, and only
\* its own release, which it sends when it is over, clears it.
LeaseInv ==
  \A r \in Requests :
    /\ Live(r) /\ token = r => born[r] + Lease <= expires
    /\ Admitted(r) => token = r
    /\ route[r] = "idle" => token # r /\ rpc[r] = "none"
    /\ r \in releases => route[r] = "ended"

\* How much of a unit's cap a bucket can have used: all of it if it is past, what
\* the row has counted if it is the row's, nothing if it is to come.
Used(u, b) == IF b < bucket[u] THEN Cap[u]
              ELSE IF b > bucket[u] THEN 0
              ELSE IF count[u] < Cap[u] THEN count[u] ELSE Cap[u]

\* Every setback grants the whole cap once more.
RateInv ==
  \A u \in Units, b \in Times : grants[u][b] <= Cap[u] * setbacks[u] + Used(u, b)

IInv == TypeOK /\ AgeInv /\ LeaseInv /\ RateInv

(***************************************************************************)
(* Arithmetic of the caps.                                                 *)
(***************************************************************************)
LEMMA OnceMore ==
  ASSUME NEW c \in Nat, NEW s \in Nat
  PROVE  c * s \in Nat /\ c * (s + 1) = c * s + c
OBVIOUS

LEMMA TimesAreNaturals == \A t \in Times : t \in Nat /\ t <= MaxNow
BY AdmissionAssumption DEF Times

LEMMA CapIsPositive == \A u \in Units : Cap[u] \in Nat /\ Cap[u] >= 1
BY AdmissionAssumption

LEMMA InitEstablishesIInv == Init => IInv
<1> SUFFICES ASSUME Init PROVE IInv
  OBVIOUS
<1>1. TypeOK
  BY AdmissionAssumption DEF Init, TypeOK, Times
<1>2. AgeInv /\ LeaseInv
  BY AdmissionAssumption DEF Init, AgeInv, LeaseInv, Live, Admitted
<1>3. RateInv
  <2> SUFFICES ASSUME NEW u \in Units, NEW b \in Times
               PROVE  grants[u][b] <= Cap[u] * setbacks[u] + Used(u, b)
    BY DEF RateInv
  <2>1. grants[u][b] = 0 /\ setbacks[u] = 0 /\ count[u] = 0 /\ bucket[u] = 0
    BY DEF Init
  <2>2. Cap[u] * setbacks[u] \in Nat
    BY <2>1, CapIsPositive, OnceMore
  <2>3. Used(u, b) \in Nat
    BY <2>1, CapIsPositive DEF Used
  <2> QED
    BY <2>1, <2>2, <2>3
<1> QED
  BY <1>1, <1>2, <1>3 DEF IInv

(***************************************************************************)
(* The acquire function.                                                   *)
(***************************************************************************)
\* What counting does to what a bucket can have used: the caller's bucket has
\* room for one more grant, or the setback has paid for it.
LEMMA CountingMakesRoom ==
  ASSUME TypeOK, RateInv, NEW r \in Requests, CountAttempt(r), NEW u \in Units, NEW b \in Times
  PROVE  /\ grants[u][b] <= Cap[u] * setbacks'[u] + Used(u, b)'
         /\ ~TooMany(r) /\ b = InBucket(r, u) =>
              grants[u][b] + 1 <= Cap[u] * setbacks'[u] + Used(u, b)'
<1> DEFINE c == InBucket(r, u)  s == setbacks[u]  k == Cap[u]  n == count[u]
<1>1. c \in Nat /\ s \in Nat /\ n \in Nat /\ bucket[u] \in Nat /\ b \in Nat /\ grants[u][b] \in Nat
  <2>1. clock[r] \in Times /\ c \in Times /\ bucket[u] \in Times
    BY AdmissionAssumption DEF TypeOK, InBucket
  <2>2. s \in Nat /\ n \in Nat /\ grants[u][b] \in Nat
    BY DEF TypeOK
  <2> QED
    BY <2>1, <2>2, TimesAreNaturals
<1>2. k \in Nat /\ k >= 1
  BY CapIsPositive
<1>3. k * s \in Nat /\ k * (s + 1) = k * s + k
  BY <1>1, <1>2, OnceMore
<1>4. grants[u][b] <= k * s + Used(u, b)
  BY DEF RateInv
<1>5. /\ bucket'[u] = c
      /\ count'[u] = IF bucket[u] = c THEN n + 1 ELSE 1
      /\ setbacks'[u] = IF c < bucket[u] THEN s + 1 ELSE s
  BY DEF CountAttempt, Counted
<1>6. ~TooMany(r) => count'[u] <= k
  BY <1>1, <1>2, <1>5 DEF TooMany, Counted
<1> HIDE DEF c, s, k, n
<1>7. Used(u, b)' = IF b < bucket'[u] THEN k
                    ELSE IF b > bucket'[u] THEN 0
                    ELSE IF count'[u] < k THEN count'[u] ELSE k
  BY DEF Used, k
<1>8. Used(u, b) = IF b < bucket[u] THEN k
                   ELSE IF b > bucket[u] THEN 0
                   ELSE IF n < k THEN n ELSE k
  BY DEF Used, k, n
<1>9. /\ grants[u][b] <= k * setbacks'[u] + Used(u, b)'
      /\ ~TooMany(r) /\ b = c => grants[u][b] + 1 <= k * setbacks'[u] + Used(u, b)'
  <2>1. CASE c < bucket[u]
    <3>1. k * setbacks'[u] = k * s + k
      BY <1>3, <1>5, <2>1
    <3> QED
      BY <3>1, <2>1, <1>1, <1>2, <1>3, <1>4, <1>5, <1>7, <1>8
  <2>2. CASE ~(c < bucket[u])
    <3>1. k * setbacks'[u] = k * s
      BY <1>5, <2>2
    <3> QED
      BY <3>1, <2>2, <1>1, <1>2, <1>3, <1>4, <1>5, <1>6, <1>7, <1>8
  <2> QED
    BY <2>1, <2>2
<1> QED
  BY <1>9 DEF k, c

LEMMA CountingIsTyped ==
  ASSUME TypeOK, NEW r \in Requests, CountAttempt(r)
  PROVE  bucket' \in [Units -> Times] /\ count' \in [Units -> Nat] /\ setbacks' \in [Units -> Nat]
<1>1. \A u \in Units : InBucket(r, u) \in Times
  BY AdmissionAssumption DEF TypeOK, InBucket
<1> QED
  BY <1>1 DEF TypeOK, CountAttempt, Counted

LEMMA RefuseKeepsIInv ==
  ASSUME IInv, NEW r \in Requests, Refuse(r) PROVE IInv'
<1> USE DEF IInv
<1>0. CountAttempt(r)
  BY DEF Refuse
<1>1. TypeOK'
  BY <1>0, CountingIsTyped DEF TypeOK, Refuse, Rpc, Say, Answers
<1>2. AgeInv' /\ LeaseInv'
  BY <1>0 DEF Refuse, CountAttempt, Rpc, Say, AgeInv, LeaseInv, Live, Admitted, TypeOK
<1>3. RateInv'
  BY <1>0, CountingMakesRoom DEF Refuse, RateInv
<1> QED
  BY <1>1, <1>2, <1>3

\* No live request loses its lease to a grant: it would have run out.
LEMMA GrantIsExclusive ==
  ASSUME TypeOK, AgeInv, LeaseInv, NEW r \in Requests, ~LeaseRuns(r),
         NEW q \in Requests, Live(q), token = q
  PROVE  FALSE
<1>1. token # None
  BY AdmissionAssumption
<1>2. expires \in Nat /\ expires <= clock[r] /\ clock[r] <= now
  BY <1>1, AdmissionAssumption DEF TypeOK, LeaseRuns, AgeInv, Times
<1>3. born[q] + Lease <= expires /\ now - born[q] <= MaxDuration
  BY DEF LeaseInv, AgeInv
<1> QED
  BY <1>2, <1>3, LeaseAssumption, AdmissionAssumption DEF TypeOK, Times

LEMMA GrantKeepsIInv ==
  ASSUME IInv, NEW r \in Requests, Grant(r) PROVE IInv'
<1> USE DEF IInv
<1>0. CountAttempt(r) /\ ~TooMany(r) /\ ~LeaseRuns(r) /\ rpc[r] = "locking"
  BY DEF Grant, CountAttempt
<1>1. TypeOK'
  <2>1. clock[r] + Lease \in Nat /\ clock[r] + Lease # None /\ r # None
    BY LeaseAssumption, AdmissionAssumption DEF TypeOK, Times
  <2>2. grants' \in [Units -> [Times -> Nat]]
    <3>1. \A u \in Units : [grants[u] EXCEPT ![InBucket(r, u)] = @ + 1] \in [Times -> Nat]
      BY AdmissionAssumption DEF TypeOK, InBucket
    <3> QED
      BY <3>1 DEF Grant
  <2> QED
    BY <1>0, <2>1, <2>2, CountingIsTyped DEF TypeOK, Grant, Rpc, Admit, Answers
<1>2. AgeInv'
  BY <1>0 DEF Grant, Rpc, AgeInv, Live, TypeOK
<1>3. LeaseInv'
  <2>1. \A q \in Requests : Admitted(q) => q = r
    BY <1>0, GrantIsExclusive DEF LeaseInv, Admitted, Live
  <2>2. Live(r) => born[r] + Lease <= clock[r] + Lease
    BY <1>0, LeaseAssumption, AdmissionAssumption DEF AgeInv, TypeOK, Times
  <2>3. \A q \in Requests : Admitted(q)' => q = r
    BY <2>1 DEF Grant, Rpc, Admit, Admitted, TypeOK
  <2>4. route[r] # "idle"
    BY <1>0 DEF LeaseInv
  <2> QED
    BY <2>2, <2>3, <2>4 DEF LeaseInv, Grant, Rpc, Admit, Live, TypeOK
<1>4. RateInv'
  <2> SUFFICES ASSUME NEW u \in Units, NEW b \in Times
               PROVE  grants'[u][b] <= Cap[u] * setbacks'[u] + Used(u, b)'
    BY DEF RateInv
  <2>1. grants'[u][b] = IF b = InBucket(r, u) THEN grants[u][b] + 1 ELSE grants[u][b]
    BY DEF Grant, TypeOK
  <2> QED
    BY <1>0, <2>1, CountingMakesRoom
<1> QED
  BY <1>1, <1>2, <1>3, <1>4

\* The other steps count nothing.
LEMMA UncountedKeepsRate ==
  ASSUME RateInv, UNCHANGED <<bucket, count, tally>> PROVE RateInv'
BY DEF RateInv, Used, tally

LEMMA CallsKeepIInv ==
  ASSUME IInv, NEW r \in Requests,
         Ask(r) \/ Enter(r) \/ Again(r) \/ AcquireFails(r) \/ Redeliver(r)
  PROVE  IInv'
<1> USE DEF IInv
<1>1. CASE Ask(r)
  <2>1. TypeOK'
    BY <1>1 DEF TypeOK, Ask, Goto, Rpc, row, tally
  <2>2. AgeInv'
    BY <1>1, LeaseAssumption, AdmissionAssumption DEF Ask, Goto, Rpc, AgeInv, Live, TypeOK, Times
  <2>3. LeaseInv'
    BY <1>1 DEF Ask, Goto, Rpc, row, LeaseInv, Live, Admitted, TypeOK
  <2> QED
    BY <1>1, <2>1, <2>2, <2>3, UncountedKeepsRate DEF Ask, row, tally
<1>2. CASE Enter(r)
  <2>1. TypeOK'
    BY <1>2 DEF TypeOK, Enter, Rpc, row, tally
  <2>2. AgeInv'
    BY <1>2, AdmissionAssumption DEF Enter, Rpc, AgeInv, Live, TypeOK, Times
  <2>3. LeaseInv'
    BY <1>2 DEF Enter, Rpc, row, LeaseInv, Live, Admitted, TypeOK
  <2> QED
    BY <1>2, <2>1, <2>2, <2>3, UncountedKeepsRate DEF Enter, row, tally
<1>3. CASE Again(r)
  <2>0. token = r /\ expires \in Nat
    BY <1>3, AdmissionAssumption DEF Again, HasLease, TypeOK
  <2>1. TypeOK'
    BY <1>3, <2>0 DEF TypeOK, Again, Rpc, Admit, Answers, row, tally
  <2>2. AgeInv'
    BY <1>3 DEF Again, Rpc, AgeInv, Live, TypeOK
  <2>3. LeaseInv'
    BY <1>3, <2>0 DEF Again, Rpc, Admit, row, LeaseInv, Live, Admitted, TypeOK
  <2> QED
    BY <1>3, <2>1, <2>2, <2>3, UncountedKeepsRate DEF Again, row, tally
<1>4. CASE AcquireFails(r)
  <2>1. TypeOK'
    BY <1>4 DEF TypeOK, AcquireFails, Fault, Rpc, Say, Answers, row, tally
  <2>2. AgeInv'
    BY <1>4 DEF AcquireFails, Rpc, AgeInv, Live, TypeOK
  <2>3. LeaseInv'
    BY <1>4 DEF AcquireFails, Rpc, Say, row, LeaseInv, Live, Admitted, TypeOK
  <2> QED
    BY <1>4, <2>1, <2>2, <2>3, UncountedKeepsRate DEF AcquireFails, row, tally
<1>5. CASE Redeliver(r)
  <2>1. TypeOK'
    BY <1>5 DEF TypeOK, Redeliver, Fault, Rpc, Say, Answers, row, tally
  <2>2. AgeInv'
    BY <1>5 DEF Redeliver, Rpc, AgeInv, Live, TypeOK
  <2>3. LeaseInv'
    BY <1>5 DEF Redeliver, Rpc, Say, row, LeaseInv, Live, Admitted, TypeOK
  <2> QED
    BY <1>5, <2>1, <2>2, <2>3, UncountedKeepsRate DEF Redeliver, row, tally
<1> QED
  BY <1>1, <1>2, <1>3, <1>4, <1>5

(***************************************************************************)
(* The request, the platform and time.                                     *)
(***************************************************************************)
LEMMA RequestKeepsIInv ==
  ASSUME IInv, NEW r \in Requests, Hear(r) \/ HearNothing(r) \/ Finish(r) \/ Kill(r)
  PROVE  IInv'
<1> USE DEF IInv
<1>1. CASE Hear(r)
  <2>1. TypeOK'
    BY <1>1 DEF TypeOK, Hear, Goto, row, call, tally
  <2>2. AgeInv' /\ LeaseInv'
    BY <1>1 DEF Hear, Goto, row, call, AgeInv, LeaseInv, Live, Admitted, TypeOK
  <2> QED
    BY <1>1, <2>1, <2>2, UncountedKeepsRate DEF Hear, row, tally
<1>2. CASE HearNothing(r)
  <2>1. TypeOK'
    BY <1>2 DEF TypeOK, HearNothing, Fault, Goto, row, call, tally
  <2>2. AgeInv' /\ LeaseInv'
    BY <1>2 DEF HearNothing, Goto, row, call, AgeInv, LeaseInv, Live, Admitted, TypeOK
  <2> QED
    BY <1>2, <2>1, <2>2, UncountedKeepsRate DEF HearNothing, row, tally
<1>3. CASE Finish(r)
  <2>1. TypeOK'
    BY <1>3 DEF TypeOK, Finish, Goto, row, call, tally
  <2>2. AgeInv' /\ LeaseInv'
    BY <1>3 DEF Finish, Goto, row, call, AgeInv, LeaseInv, Live, Admitted, TypeOK
  <2> QED
    BY <1>3, <2>1, <2>2, UncountedKeepsRate DEF Finish, row, tally
<1>4. CASE Kill(r)
  <2>1. TypeOK'
    BY <1>4 DEF TypeOK, Kill, Fault, Goto, row, call, tally
  <2>2. AgeInv' /\ LeaseInv'
    BY <1>4 DEF Kill, Goto, row, call, AgeInv, LeaseInv, Live, Admitted, TypeOK
  <2> QED
    BY <1>4, <2>1, <2>2, UncountedKeepsRate DEF Kill, row, tally
<1> QED
  BY <1>1, <1>2, <1>3, <1>4

LEMMA ReleasesKeepIInv ==
  ASSUME IInv, NEW r \in Requests, Release(r) \/ ReleaseLost(r) PROVE IInv'
<1> USE DEF IInv
<1>1. CASE Release(r)
  <2>0. route[r] = "ended"
    BY <1>1 DEF Release, LeaseInv
  <2>1. TypeOK'
    BY <1>1 DEF TypeOK, Release, Clear, call, tally
  <2>2. AgeInv'
    BY <1>1 DEF Release, call, AgeInv, Live
  <2>3. LeaseInv'
    BY <1>1, <2>0, AdmissionAssumption
       DEF Release, Clear, Owns, call, LeaseInv, Live, Admitted, TypeOK
  <2> QED
    BY <1>1, <2>1, <2>2, <2>3, UncountedKeepsRate DEF Release, tally
<1>2. CASE ReleaseLost(r)
  <2>1. TypeOK'
    BY <1>2 DEF TypeOK, ReleaseLost, Fault, row, call, tally
  <2>2. AgeInv' /\ LeaseInv'
    BY <1>2 DEF ReleaseLost, row, call, AgeInv, LeaseInv, Live, Admitted
  <2> QED
    BY <1>2, <2>1, <2>2, UncountedKeepsRate DEF ReleaseLost, row, tally
<1> QED
  BY <1>1, <1>2

LEMMA TimeKeepsIInv ==
  ASSUME IInv, TimePasses PROVE IInv'
<1> USE DEF IInv
<1>1. TypeOK'
  <2>1. now' \in Times
    BY AdmissionAssumption DEF TypeOK, TimePasses, Times
  <2> QED
    BY <2>1 DEF TypeOK, TimePasses, row, call, tally
<1>2. AgeInv'
  BY LeaseAssumption, AdmissionAssumption DEF TimePasses, call, AgeInv, Live, TypeOK, Times
<1>3. LeaseInv'
  BY DEF TimePasses, row, call, LeaseInv, Live, Admitted
<1> QED
  BY <1>1, <1>2, <1>3, UncountedKeepsRate DEF TimePasses, row, tally

LEMMA NextKeepsIInv == IInv /\ [Next]_vars => IInv'
<1> SUFFICES ASSUME IInv, [Next]_vars PROVE IInv'
  OBVIOUS
<1>1. CASE UNCHANGED vars
  BY <1>1 DEF vars, row, call, tally, IInv, TypeOK, AgeInv, LeaseInv, RateInv, Live, Admitted, Used
<1>2. CASE TimePasses
  BY <1>2, TimeKeepsIInv
<1>3. CASE \E r \in Requests : Ask(r) \/ Enter(r) \/ Again(r) \/ AcquireFails(r) \/ Redeliver(r)
  BY <1>3, CallsKeepIInv
<1>4. CASE \E r \in Requests : Refuse(r) \/ Grant(r)
  BY <1>4, RefuseKeepsIInv, GrantKeepsIInv
<1>5. CASE \E r \in Requests : Hear(r) \/ HearNothing(r) \/ Finish(r) \/ Kill(r)
  BY <1>5, RequestKeepsIInv
<1>6. CASE \E r \in Requests : Release(r) \/ ReleaseLost(r)
  BY <1>6, ReleasesKeepIInv
<1> QED
  BY <1>1, <1>2, <1>3, <1>4, <1>5, <1>6 DEF Next

LEMMA SpecImpliesIInv == Spec => []IInv
BY InitEstablishesIInv, NextKeepsIInv, PTL DEF Spec

(***************************************************************************)
(* The theorems.                                                           *)
(***************************************************************************)
\* The row, the calls and the requests keep their types, lease_token and
\* lease_expires_at null together (the check of 0391) among them.
THEOREM TypeCorrect == Spec => []TypeOK
<1>1. IInv => TypeOK
  BY DEF IInv
<1> QED
  BY <1>1, SpecImpliesIInv, PTL

\* 0391 permits one live query per account and organization.  A lease is granted
\* by a clock not older than its request and lasts longer than a request lives,
\* and a release clears its own token only: no two requests read hotels at a
\* time, whatever is killed, lost, repeated or late.
THEOREM QueriesTakeTurns == Spec => []OneQueryAtATime
<1>1. IInv => OneQueryAtATime
  BY DEF IInv, LeaseInv, Admitted, OneQueryAtATime
<1> QED
  BY <1>1, SpecImpliesIInv, PTL

\* The caps of 0391 hold for every bucket as long as no caller writes an older
\* bucket than it finds, and each time one does costs at most one more cap:
\* v_now is read before the lock (0391:71), so the row can go back in time.
THEOREM RateIsBounded == Spec => []RateHolds
<1>1. IInv => RateHolds
  <2> SUFFICES ASSUME IInv, NEW u \in Units, NEW b \in Times
               PROVE  grants[u][b] <= Cap[u] * (setbacks[u] + 1)
    BY DEF RateHolds
  <2>1. /\ grants[u][b] \in Nat /\ setbacks[u] \in Nat /\ count[u] \in Nat
        /\ b \in Nat /\ bucket[u] \in Nat
    BY AdmissionAssumption DEF IInv, TypeOK, Times
  <2>2. Cap[u] * setbacks[u] \in Nat /\ Cap[u] * (setbacks[u] + 1) = Cap[u] * setbacks[u] + Cap[u]
    BY <2>1, CapIsPositive, OnceMore
  <2>3. Used(u, b) \in Nat /\ Used(u, b) <= Cap[u]
    BY <2>1, CapIsPositive DEF Used
  <2>4. grants[u][b] <= Cap[u] * setbacks[u] + Used(u, b)
    BY DEF IInv, RateInv
  <2> QED
    BY <2>1, <2>2, <2>3, <2>4, CapIsPositive
<1> QED
  BY <1>1, SpecImpliesIInv, PTL

=============================================================================
