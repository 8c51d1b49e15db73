----------------------- MODULE ReminderDelivery_proofs -----------------------
(***************************************************************************)
(* Theorems about ReminderDelivery for any reminders, hotels, overlapping  *)
(* ticks, batch size, faults, and any lease that is not shorter than a     *)
(* tick may live (LeaseAssumption: the route's maxDuration is 60 s, the    *)
(* lease two minutes).                                                     *)
(***************************************************************************)
EXTENDS ReminderDelivery, TLAPS

\* A tick that is delivering holds the lease, which it took after it began.
\* Then no other tick can find the lease stale: it would have to be older than
\* the longest tick.
HolderInv ==
  \A t \in Ticks :
    /\ at[t] \in Busy => row[t] \in Reminders
    /\ at[t] \in {"posting", "finalizing"} =>
         token[row[t]] = t /\ leaseAge[row[t]] <= age[t]

AimInv == \A t \in Ticks : at[t] = "finalizing" => posted[row[t]] = Aim(t, row[t])

\* Nothing of a reminder cancelled in good time is under way.
CancelInv ==
  \A r \in Reminders : outcome[r] = "canceled" /\ r \notin caught =>
    /\ posted[r] = "none"
    /\ \A t \in Ticks : ~Delivering(t, r)
    /\ \A p \in Places : <<r, p>> \notin late

IInv == TypeOK /\ HolderInv /\ AimInv /\ CancelInv

LEMMA InitEstablishesIInv == Init => IInv
<1> SUFFICES ASSUME Init PROVE IInv
  OBVIOUS
<1>1. TypeOK
  BY ReminderAssumption, LeaseAssumption DEF Init, TypeOK, OldLease, Places, Busy
<1>2. HolderInv /\ AimInv /\ CancelInv
  BY DEF Init, HolderInv, AimInv, CancelInv, Delivering, Busy
<1> QED
  BY <1>1, <1>2 DEF IInv

\* The message goes to one of three places.
LEMMA AimIsAPlace ==
  ASSUME NEW t, NEW r PROVE Aim(t, r) \in Places /\ Aim(t, r) # "none"
BY DEF Aim, Places

\* No tick can claim what another is delivering.
LEMMA ClaimIsExclusive ==
  ASSUME TypeOK, HolderInv, NEW t \in Ticks, NEW u \in Ticks,
         at[u] \in {"posting", "finalizing"}, Claimable(row[u], t)
  PROVE  FALSE
<1> DEFINE r == row[u]
<1>1. r \in Reminders /\ token[r] = u /\ leaseAge[r] <= age[u]
  BY DEF HolderInv, Busy
<1>2. token[r] # Nobody
  BY <1>1, ReminderAssumption
<1>3. leaseAge[r] > Lease + age[t]
  BY <1>2 DEF Claimable
<1>4. leaseAge[r] \in Nat /\ age[t] \in Nat /\ age[u] \in Nat /\ age[u] <= MaxDuration
  BY <1>1, LeaseAssumption DEF TypeOK, OldLease
<1> QED
  BY <1>1, <1>3, <1>4, LeaseAssumption

(***************************************************************************)
(* The reminder's people, the platform and time.                           *)
(***************************************************************************)
LEMMA PeopleKeepIInv ==
  ASSUME IInv, NEW r \in Reminders, BecomesDue(r) \/ Cancel(r) \/ CreatorLeaves(r)
  PROVE  IInv'
<1> USE DEF IInv
<1>1. CASE BecomesDue(r)
  <2>1. TypeOK'
    BY <1>1 DEF TypeOK, BecomesDue, tick
  <2>2. HolderInv' /\ AimInv' /\ CancelInv'
    BY <1>1 DEF BecomesDue, tick, HolderInv, AimInv, CancelInv, Aim, Delivering
  <2> QED
    BY <2>1, <2>2
<1>2. CASE Cancel(r)
  <2>1. TypeOK'
    BY <1>2 DEF TypeOK, Cancel, tick
  <2>2. HolderInv' /\ AimInv'
    BY <1>2 DEF Cancel, tick, HolderInv, AimInv, Aim
  <2>3. CancelInv'
    BY <1>2 DEF Cancel, tick, CancelInv, Delivering, TypeOK
  <2> QED
    BY <2>1, <2>2, <2>3
<1>3. CASE CreatorLeaves(r)
  <2>1. TypeOK'
    BY <1>3 DEF TypeOK, CreatorLeaves, tick
  <2>2. HolderInv' /\ AimInv' /\ CancelInv'
    BY <1>3 DEF CreatorLeaves, tick, HolderInv, AimInv, CancelInv, Aim, Delivering
  <2> QED
    BY <2>1, <2>2
<1> QED
  BY <1>1, <1>2, <1>3

LEMMA SwitchKeepsIInv ==
  ASSUME IInv, NEW h \in Hotels, SwitchSection(h) PROVE IInv'
<1> USE DEF IInv
<1>1. TypeOK'
  BY DEF TypeOK, SwitchSection, rows, tick
<1>2. HolderInv' /\ AimInv' /\ CancelInv'
  BY DEF SwitchSection, rows, tick, HolderInv, AimInv, CancelInv, Aim, Delivering
<1> QED
  BY <1>1, <1>2

LEMMA LateInsertKeepsIInv ==
  ASSUME IInv, NEW r \in Reminders, NEW p \in Places, LateInsert(r, p)
  PROVE  IInv'
<1> USE DEF IInv
<1>1. TypeOK'
  BY DEF TypeOK, LateInsert, tick
<1>2. HolderInv'
  BY DEF LateInsert, tick, HolderInv
<1>3. \A q \in Reminders : posted[q] # "none" => posted'[q] = posted[q]
  BY DEF LateInsert, TypeOK
<1>4. AimInv'
  <2> SUFFICES ASSUME NEW t \in Ticks, at'[t] = "finalizing" PROVE posted'[row'[t]] = Aim(t, row[t])'
    BY DEF AimInv
  <2>1. UNCHANGED <<at, row, signed>>
    BY DEF LateInsert, tick
  <2>2. row[t] \in Reminders /\ posted[row[t]] = Aim(t, row[t])
    BY <2>1 DEF HolderInv, AimInv, Busy
  <2>3. posted[row[t]] # "none"
    BY <2>2, AimIsAPlace
  <2> QED
    BY <1>3, <2>1, <2>2, <2>3 DEF Aim
<1>5. CancelInv'
  BY DEF LateInsert, tick, CancelInv, Delivering, TypeOK
<1> QED
  BY <1>1, <1>2, <1>4, <1>5

LEMMA TimeKeepsIInv ==
  ASSUME IInv, TimePasses PROVE IInv'
<1> USE DEF IInv
<1>1. /\ \A t \in Ticks : age'[t] \in 0..MaxDuration /\ age'[t] = IF Running(t) THEN age[t] + 1 ELSE age[t]
      /\ \A r \in Reminders : leaseAge'[r] \in 0..OldLease /\ leaseAge'[r] <= leaseAge[r] + 1
      /\ UNCHANGED <<due, outcome, token, creator, posted, late, caught, enabled, at, batch, signed,
                     open, row, left>>
  BY LeaseAssumption DEF TypeOK, TimePasses, OldLease
<1>2. TypeOK'
  <2>1. age' \in [Ticks -> 0..MaxDuration]
    BY <1>1 DEF TimePasses
  <2>2. leaseAge' \in [Reminders -> 0..OldLease]
    BY <1>1 DEF TimePasses
  <2> QED
    BY <1>1, <2>1, <2>2 DEF TypeOK
<1>3. HolderInv'
  <2> SUFFICES ASSUME NEW t \in Ticks, at'[t] \in Busy
               PROVE  /\ row'[t] \in Reminders
                      /\ at'[t] \in {"posting", "finalizing"} =>
                           token'[row'[t]] = t /\ leaseAge'[row'[t]] <= age'[t]
    BY DEF HolderInv, Busy
  <2>1. row[t] \in Reminders /\ Running(t)
    BY <1>1 DEF HolderInv, Running, Busy
  <2>2. leaseAge[row[t]] \in Nat /\ leaseAge'[row[t]] \in Nat /\ age[t] \in Nat /\ age'[t] = age[t] + 1
        /\ leaseAge'[row[t]] <= leaseAge[row[t]] + 1
    BY <1>1, <2>1, LeaseAssumption DEF TypeOK, OldLease
  <2> QED
    BY <1>1, <2>1, <2>2 DEF HolderInv
<1>4. AimInv' /\ CancelInv'
  BY <1>1 DEF AimInv, CancelInv, Aim, Delivering
<1> QED
  BY <1>2, <1>3, <1>4

LEMMA KillKeepsIInv ==
  ASSUME IInv, NEW t \in Ticks, Kill(t) PROVE IInv'
<1> USE DEF IInv
<1>1. /\ at' = [at EXCEPT ![t] = "idle"] /\ age' = [age EXCEPT ![t] = 0]
      /\ row' = [row EXCEPT ![t] = Nobody] /\ signed' = [signed EXCEPT ![t] = {}]
      /\ \A r \in Reminders : token'[r] = IF token[r] = t THEN Gone ELSE token[r]
      /\ UNCHANGED <<due, outcome, leaseAge, creator, posted, caught, enabled>>
  BY DEF Kill, Over, Goto
<1>2. /\ \/ late' = late
         \/ late' = late \cup {<<row[t], Aim(t, row[t])>>} /\ at[t] = "posting"
      /\ Aim(t, row[t]) \in Places
  BY AimIsAPlace DEF Kill
<1>3. TypeOK'
  <2>1. late' \subseteq Reminders \X Places
    BY <1>2 DEF TypeOK, HolderInv, Busy
  <2>2. token' \in [Reminders -> Ticks \cup {Nobody, Gone}]
    BY DEF Kill, TypeOK
  <2>3. age' \in [Ticks -> 0..MaxDuration] /\ left' \in Nat
    BY <1>1, LeaseAssumption DEF TypeOK, Kill, Fault
  <2> QED
    BY <1>1, <2>1, <2>2, <2>3 DEF TypeOK, Kill, Over
<1>4. \A u \in Ticks : u # t => at'[u] = at[u] /\ age'[u] = age[u] /\ row'[u] = row[u] /\ signed'[u] = signed[u]
  BY <1>1 DEF TypeOK
<1>5. at'[t] = "idle"
  BY <1>1 DEF TypeOK
<1>6. HolderInv'
  BY <1>1, <1>4, <1>5 DEF HolderInv, Busy
<1>7. AimInv'
  BY <1>1, <1>4, <1>5 DEF AimInv, Aim
<1>8. CancelInv'
  <2> SUFFICES ASSUME NEW r \in Reminders, outcome'[r] = "canceled", r \notin caught'
               PROVE  /\ posted'[r] = "none"
                      /\ \A u \in Ticks : ~Delivering(u, r)'
                      /\ \A p \in Places : <<r, p>> \notin late'
    BY DEF CancelInv
  <2>1. posted[r] = "none" /\ (\A u \in Ticks : ~Delivering(u, r)) /\ \A p \in Places : <<r, p>> \notin late
    BY <1>1 DEF CancelInv
  <2>2. \A u \in Ticks : ~Delivering(u, r)'
    BY <1>4, <1>5, <2>1 DEF Delivering, Busy
  <2>3. \A p \in Places : <<r, p>> \notin late'
    BY <1>2, <2>1 DEF Delivering, Busy
  <2> QED
    BY <1>1, <2>1, <2>2, <2>3
<1> QED
  BY <1>3, <1>6, <1>7, <1>8
(***************************************************************************)
(* A tick's steps.  What they may do to the other ticks is nothing.        *)
(***************************************************************************)

LEMMA ReadKeepsIInv ==
  ASSUME IInv, NEW t \in Ticks, NEW S \in SUBSET Reminders, Read(t, S) PROVE IInv'
<1> USE DEF IInv
<1>1. at' = [at EXCEPT ![t] = "choosing"] /\ at[t] = "idle"
      /\ signed' = [signed EXCEPT ![t] = {r \in S : creator[r]}]
      /\ batch' = [batch EXCEPT ![t] = S]
      /\ open' = [open EXCEPT ![t] = {HotelOf[r] : r \in S} \cap enabled]
      /\ UNCHANGED <<rows, enabled, age, row, left>>
  BY DEF Read, Goto
<1>2. TypeOK'
  <2>1. batch' \in [Ticks -> SUBSET Reminders] /\ signed' \in [Ticks -> SUBSET Reminders]
        /\ at' \in [Ticks -> {"idle", "choosing"} \cup Busy]
    BY <1>1 DEF TypeOK
  <2>2. open' \in [Ticks -> SUBSET Hotels]
    BY <1>1 DEF TypeOK
  <2> QED
    BY <1>1, <2>1, <2>2 DEF TypeOK, rows
<1>3. \A u \in Ticks : at'[u] \in Busy => at'[u] = at[u] /\ signed'[u] = signed[u] /\ u # t
  BY <1>1 DEF TypeOK, Busy
<1>4. HolderInv'
  BY <1>1, <1>3 DEF HolderInv, rows, Busy
<1>5. AimInv'
  BY <1>1, <1>3 DEF AimInv, Aim, rows, Busy
<1>6. CancelInv'
  BY <1>1, <1>3 DEF CancelInv, Delivering, rows
<1> QED
  BY <1>2, <1>4, <1>5, <1>6

\* A row that is skipped, lost to another tick, or claimed by an update that
\* failed.
LEMMA SkipKeepsIInv ==
  ASSUME IInv, NEW t \in Ticks, NEW r \in Reminders, SkipPaused(t, r) \/ ClaimNothing(t, r)
  PROVE  IInv'
<1> USE DEF IInv
<1>1. /\ batch' \in [Ticks -> SUBSET Reminders]
      /\ UNCHANGED <<due, outcome, creator, posted, late, caught, enabled, at, age, signed, open, row>>
  BY DEF SkipPaused, ClaimNothing, Off, rows, TypeOK
<1>2. \/ UNCHANGED <<token, leaseAge>>
      \/ /\ Claimable(r, t) /\ token' = [token EXCEPT ![r] = Gone]
         /\ leaseAge' = [leaseAge EXCEPT ![r] = 0]
  BY DEF SkipPaused, ClaimNothing, rows
<1>3. left' \in Nat
  BY DEF SkipPaused, ClaimNothing, Fault, TypeOK
<1>4. token' \in [Reminders -> Ticks \cup {Nobody, Gone}] /\ leaseAge' \in [Reminders -> 0..OldLease]
  BY <1>2, LeaseAssumption DEF TypeOK, OldLease
<1>5. TypeOK'
  BY <1>1, <1>3, <1>4 DEF TypeOK
<1>6. HolderInv'
  <2> SUFFICES ASSUME NEW u \in Ticks, at[u] \in {"posting", "finalizing"}
               PROVE  token'[row[u]] = u /\ leaseAge'[row[u]] <= age[u]
    BY <1>1 DEF HolderInv, Busy
  <2>1. row[u] \in Reminders /\ token[row[u]] = u /\ leaseAge[row[u]] <= age[u]
    BY DEF HolderInv, Busy
  <2>2. Claimable(r, t) => row[u] # r
    BY ClaimIsExclusive
  <2> QED
    BY <1>2, <2>1, <2>2 DEF TypeOK
<1>7. AimInv' /\ CancelInv'
  BY <1>1 DEF AimInv, CancelInv, Aim, Delivering
<1> QED
  BY <1>5, <1>6, <1>7

LEMMA ClaimKeepsIInv ==
  ASSUME IInv, NEW t \in Ticks, NEW r \in Reminders, Claim(t, r) PROVE IInv'
<1> USE DEF IInv
<1>1. /\ at' = [at EXCEPT ![t] = "posting"] /\ row' = [row EXCEPT ![t] = r]
      /\ token' = [token EXCEPT ![r] = t] /\ leaseAge' = [leaseAge EXCEPT ![r] = 0]
      /\ outcome[r] = "open" /\ Claimable(r, t) /\ batch' = [batch EXCEPT ![t] = @ \ {r}]
      /\ UNCHANGED <<due, outcome, creator, posted, late, caught, enabled, age, signed, open, left>>
  BY DEF Claim, Goto, Off, StillOpen
<1>2. TypeOK'
  <2>1. leaseAge' \in [Reminders -> 0..OldLease] /\ token' \in [Reminders -> Ticks \cup {Nobody, Gone}]
    BY <1>1, LeaseAssumption DEF TypeOK, OldLease
  <2>2. at' \in [Ticks -> {"idle", "choosing"} \cup Busy] /\ row' \in [Ticks -> Reminders \cup {Nobody}]
        /\ batch' \in [Ticks -> SUBSET Reminders]
    BY <1>1 DEF TypeOK, Busy
  <2> QED
    BY <1>1, <2>1, <2>2 DEF TypeOK
<1>3. \A u \in Ticks : at'[u] = (IF u = t THEN "posting" ELSE at[u]) /\ row'[u] = IF u = t THEN r ELSE row[u]
  BY <1>1 DEF TypeOK
<1>4. HolderInv'
  <2> SUFFICES ASSUME NEW u \in Ticks, at'[u] \in Busy
               PROVE  /\ row'[u] \in Reminders
                      /\ at'[u] \in {"posting", "finalizing"} =>
                           token'[row'[u]] = u /\ leaseAge'[row'[u]] <= age[u]
    BY <1>1 DEF HolderInv, Busy
  <2>1. CASE u = t
    BY <1>1, <1>3, <2>1, LeaseAssumption DEF TypeOK
  <2>2. CASE u # t
    <3>1. row[u] \in Reminders /\ row'[u] = row[u] /\ at'[u] = at[u]
      BY <1>3, <2>2 DEF HolderInv
    <3>2. at[u] \in {"posting", "finalizing"} => row[u] # r
      BY <1>1, ClaimIsExclusive
    <3> QED
      BY <1>1, <3>1, <3>2 DEF HolderInv, TypeOK
  <2> QED
    BY <2>1, <2>2
<1>5. AimInv'
  BY <1>1, <1>3 DEF AimInv, Aim
<1>6. CancelInv'
  BY <1>1, <1>3 DEF CancelInv, Delivering
<1> QED
  BY <1>2, <1>4, <1>5, <1>6

LEMMA PostKeepsIInv ==
  ASSUME IInv, NEW t \in Ticks, Post(t) \/ PostFails(t) PROVE IInv'
<1> DEFINE r == row[t]
<1> USE DEF IInv
<1>1. /\ at[t] = "posting" /\ r \in Reminders /\ token[r] = t
      /\ UNCHANGED <<due, outcome, token, leaseAge, creator, late, caught, enabled, age, batch, signed,
                     open, row>>
  BY DEF Post, PostFails, HolderInv, Busy
<1>2. \/ UNCHANGED posted
      \/ posted[r] = "none" /\ posted' = [posted EXCEPT ![r] = Aim(t, r)]
  BY DEF Post, PostFails
<1>3. \/ at' = [at EXCEPT ![t] = "releasing"]
      \/ at' = [at EXCEPT ![t] = "finalizing"] /\ posted'[r] = Aim(t, r)
  BY <1>1 DEF Post, PostFails, Goto, Duplicate, TypeOK
<1>4. TypeOK'
  <2>1. posted' \in [Reminders -> Places \cup {"none"}]
    BY <1>1, <1>2, AimIsAPlace DEF TypeOK
  <2>2. left' \in Nat
    BY DEF Post, PostFails, Fault, TypeOK
  <2>3. at' \in [Ticks -> {"idle", "choosing"} \cup Busy]
    BY <1>3 DEF TypeOK, Busy
  <2> QED
    BY <1>1, <2>1, <2>2, <2>3 DEF TypeOK
<1>5. \A u \in Ticks : u # t => at'[u] = at[u]
  BY <1>3 DEF TypeOK
<1>6. at'[t] \in {"releasing", "finalizing"} /\ (at'[t] = "finalizing" => posted'[r] = Aim(t, r))
  BY <1>3 DEF TypeOK
<1>7. HolderInv'
  BY <1>1, <1>5, <1>6 DEF HolderInv, Busy
<1>8. AimInv'
  <2> SUFFICES ASSUME NEW u \in Ticks, at'[u] = "finalizing" PROVE posted'[row[u]] = Aim(u, row[u])'
    BY <1>1 DEF AimInv, Aim
  <2>1. Aim(u, row[u])' = Aim(u, row[u])
    BY <1>1 DEF Aim
  <2>2. CASE u = t
    BY <1>6, <2>1, <2>2
  <2>3. CASE u # t
    <3>1. row[u] \in Reminders /\ token[row[u]] = u /\ posted[row[u]] = Aim(u, row[u])
      BY <1>5, <2>3 DEF HolderInv, AimInv, Busy
    <3>2. row[u] # r
      BY <1>1, <2>3, <3>1
    <3> QED
      BY <1>1, <1>2, <2>1, <3>1, <3>2 DEF TypeOK
  <2> QED
    BY <2>2, <2>3
<1>9. CancelInv'
  <2> SUFFICES ASSUME NEW q \in Reminders, outcome[q] = "canceled", q \notin caught
               PROVE  /\ posted'[q] = "none"
                      /\ \A u \in Ticks : ~Delivering(u, q)'
                      /\ \A p \in Places : <<q, p>> \notin late
    BY <1>1 DEF CancelInv
  <2>1. posted[q] = "none" /\ (\A u \in Ticks : ~Delivering(u, q)) /\ \A p \in Places : <<q, p>> \notin late
    BY DEF CancelInv
  <2>2. q # r
    BY <1>1, <2>1 DEF Delivering, Busy
  <2>3. \A u \in Ticks : ~Delivering(u, q)'
    BY <1>1, <1>5, <2>1, <2>2 DEF Delivering
  <2> QED
    BY <1>1, <1>2, <2>1, <2>2, <2>3 DEF TypeOK
<1> QED
  BY <1>4, <1>7, <1>8, <1>9

\* The end of a delivery, of its lease, or of the tick.
LEMMA EndKeepsIInv ==
  ASSUME IInv, NEW t \in Ticks,
         Finalize(t) \/ FinalizeNothing(t) \/ Release(t) \/ EndTick(t)
  PROVE  IInv'
<1> DEFINE r == row[t]
<1> USE DEF IInv
<1>1. UNCHANGED <<due, creator, posted, late, caught, enabled>>
  BY DEF Finalize, FinalizeNothing, Release, EndTick, rows
<1>2. \/ UNCHANGED <<token, leaseAge>>
      \/ /\ at[t] \in {"finalizing", "releasing"} /\ token[r] = t
         /\ \/ token' = [token EXCEPT ![r] = Nobody] /\ leaseAge' = [leaseAge EXCEPT ![r] = 0]
            \/ token' = [token EXCEPT ![r] = Gone] /\ UNCHANGED leaseAge
  BY DEF Finalize, FinalizeNothing, Release, EndTick, rows, Free
<1>3. \A q \in Reminders : outcome'[q] = outcome[q] \/ (q = r /\ outcome'[q] = "fired" /\ at[t] = "finalizing")
  BY DEF Finalize, FinalizeNothing, Release, EndTick, rows, TypeOK
<1>4. /\ at' \in [Ticks -> {"idle", "choosing"} \cup Busy]
      /\ \A u \in Ticks : u # t => at'[u] = at[u]
      /\ at'[t] \in {"idle", "choosing", "releasing"}
      /\ at'[t] = "releasing" => at[t] = "finalizing" /\ row' = row
  BY DEF Finalize, FinalizeNothing, Release, EndTick, Goto, Done, Over, TypeOK, Busy
<1>5. /\ row' \in [Ticks -> Reminders \cup {Nobody}]
      /\ \A u \in Ticks : u # t => row'[u] = row[u]
  BY DEF Finalize, FinalizeNothing, Release, EndTick, Done, Over, TypeOK
<1>6. /\ age' \in [Ticks -> 0..MaxDuration] /\ signed' \in [Ticks -> SUBSET Reminders]
      /\ batch' \in [Ticks -> SUBSET Reminders] /\ open' \in [Ticks -> SUBSET Hotels]
      /\ \A u \in Ticks : u # t => age'[u] = age[u] /\ signed'[u] = signed[u]
  <2>1. CASE UNCHANGED <<age, batch, signed, open>>
    BY <2>1 DEF TypeOK
  <2>2. CASE Over(t)
    BY <2>2, LeaseAssumption DEF Over, TypeOK
  <2> QED
    BY <2>1, <2>2 DEF Finalize, FinalizeNothing, Release, EndTick
<1>7. TypeOK'
  <2>1. left' \in Nat
    BY DEF Finalize, FinalizeNothing, Release, EndTick, Fault, TypeOK
  <2>2. token' \in [Reminders -> Ticks \cup {Nobody, Gone}] /\ leaseAge' \in [Reminders -> 0..OldLease]
    BY <1>2, LeaseAssumption DEF TypeOK, OldLease
  <2>3. outcome' \in [Reminders -> {"open", "fired", "canceled"}]
    BY DEF Finalize, FinalizeNothing, Release, EndTick, rows, TypeOK
  <2> QED
    BY <1>1, <1>4, <1>5, <1>6, <2>1, <2>2, <2>3 DEF TypeOK
<1>8. at[t] \in {"finalizing", "releasing"} => r \in Reminders
  BY DEF HolderInv, Busy
<1>9. HolderInv'
  <2> SUFFICES ASSUME NEW u \in Ticks, at'[u] \in Busy
               PROVE  /\ row'[u] \in Reminders
                      /\ at'[u] \in {"posting", "finalizing"} =>
                           token'[row'[u]] = u /\ leaseAge'[row'[u]] <= age'[u]
    BY DEF HolderInv, Busy
  <2>1. CASE u = t
    BY <1>4, <1>8, <2>1 DEF Busy
  <2>2. CASE u # t
    <3>1. at'[u] = at[u] /\ row'[u] = row[u] /\ age'[u] = age[u] /\ row[u] \in Reminders
      BY <1>4, <1>5, <1>6, <2>2 DEF HolderInv
    <3>2. at[u] \in {"posting", "finalizing"} => token[row[u]] = u /\ leaseAge[row[u]] <= age[u]
      BY DEF HolderInv
    <3>3. CASE UNCHANGED <<token, leaseAge>>
      BY <3>1, <3>2, <3>3
    <3>4. CASE token[r] = t /\ \A q \in Reminders : q # r => token'[q] = token[q] /\ leaseAge'[q] = leaseAge[q]
      BY <2>2, <3>1, <3>2, <3>4
    <3> QED
      BY <1>2, <3>3, <3>4 DEF TypeOK
  <2> QED
    BY <2>1, <2>2
<1>10. AimInv'
  BY <1>1, <1>4, <1>5, <1>6 DEF AimInv, Aim
<1>11. CancelInv'
  <2> SUFFICES ASSUME NEW q \in Reminders, outcome'[q] = "canceled", q \notin caught'
               PROVE  /\ posted'[q] = "none"
                      /\ \A u \in Ticks : ~Delivering(u, q)'
                      /\ \A p \in Places : <<q, p>> \notin late'
    BY DEF CancelInv
  <2>1. outcome[q] = "canceled" /\ q \notin caught
    BY <1>1, <1>3
  <2>2. posted[q] = "none" /\ (\A u \in Ticks : ~Delivering(u, q)) /\ \A p \in Places : <<q, p>> \notin late
    BY <2>1 DEF CancelInv
  <2>3. \A u \in Ticks : ~Delivering(u, q)'
    BY <1>4, <1>5, <2>2 DEF Delivering, Busy
  <2> QED
    BY <1>1, <2>2, <2>3
<1> QED
  BY <1>7, <1>9, <1>10, <1>11

LEMMA StutterKeepsIInv == ASSUME IInv, UNCHANGED vars PROVE IInv'
BY DEF vars, rows, tick, IInv, TypeOK, HolderInv, AimInv, CancelInv, Aim, Delivering

LEMMA NextKeepsIInv == IInv /\ [Next]_vars => IInv'
<1> SUFFICES ASSUME IInv, [Next]_vars PROVE IInv'
  OBVIOUS
<1>1. ASSUME NEW r \in Reminders, BecomesDue(r) \/ Cancel(r) \/ CreatorLeaves(r) PROVE IInv'
  BY <1>1, PeopleKeepIInv
<1>2. ASSUME NEW h \in Hotels, SwitchSection(h) PROVE IInv'
  BY <1>2, SwitchKeepsIInv
<1>3. ASSUME NEW r \in Reminders, NEW p \in Places, LateInsert(r, p) PROVE IInv'
  BY <1>3, LateInsertKeepsIInv
<1>4. ASSUME NEW t \in Ticks, \E S \in SUBSET Reminders : Read(t, S) PROVE IInv'
  BY <1>4, ReadKeepsIInv
<1>5. ASSUME NEW t \in Ticks, Step(t) PROVE IInv'
  BY <1>5, SkipKeepsIInv, ClaimKeepsIInv, PostKeepsIInv, EndKeepsIInv DEF Step, Take
<1>6. ASSUME NEW t \in Ticks, Kill(t) PROVE IInv'
  BY <1>6, KillKeepsIInv
<1>7. CASE TimePasses
  BY <1>7, TimeKeepsIInv
<1>8. CASE UNCHANGED vars
  BY <1>8, StutterKeepsIInv
<1> QED
  BY <1>1, <1>2, <1>3, <1>4, <1>5, <1>6, <1>7, <1>8 DEF Next

LEMMA SpecImpliesIInv == Spec => []IInv
BY InitEstablishesIInv, NextKeepsIInv, PTL DEF Spec

\* agent_reminders and the ticks keep their types: a message is always in a direct
\* conversation, a channel or the announcements (store.ts:204-232).
THEOREM TypeCorrect == Spec => []TypeOK
<1>1. IInv => TypeOK
  BY DEF IInv
<1> QED
  BY <1>1, SpecImpliesIInv, PTL

\* The claim of fireDueReminders (store.ts:282-291) judges a lease by the start of
\* its own tick.  As no tick outlives the lease, that is enough: however many ticks
\* overlap, are killed or reclaim, whoever delivers a reminder holds its lease.
THEOREM DelivererIsUnique == Spec => []OneDeliverer
<1>1. IInv => OneDeliverer
  BY DEF IInv, HolderInv, OneDeliverer
<1> QED
  BY <1>1, SpecImpliesIInv, PTL

\* cancelReminder (store.ts:103-114) against batches read before the cancel: the
\* claim repeats the query's guards, so a reminder cancelled before its delivery
\* began is never posted.
THEOREM CancelHonoured == Spec => []CancelIsHonoured
<1>1. IInv => CancelIsHonoured
  BY DEF IInv, CancelInv, CancelIsHonoured
<1> QED
  BY <1>1, SpecImpliesIInv, PTL

\* fired_at (store.ts:304-315) is written by a tick that is finalizing, and only
\* when the message stands where that tick aimed (store.ts:158-170).
THEOREM FiredAsAimed == Spec => FiredWhereItAimed
<1> DEFINE Stamped == \A r \in Reminders : outcome'[r] = "fired" /\ outcome[r] # "fired" =>
              \E t \in Ticks : at[t] = "finalizing" /\ row[t] = r /\ posted[r] = Aim(t, r)
<1>1. IInv /\ [Next]_vars => [Stamped]_vars
  <2> SUFFICES ASSUME IInv, Next, NEW r \in Reminders, outcome'[r] = "fired", outcome[r] # "fired"
               PROVE  \E t \in Ticks : at[t] = "finalizing" /\ row[t] = r /\ posted[r] = Aim(t, r)
    OBVIOUS
  <2>1. PICK t \in Ticks : Finalize(t)
    BY DEF Next, BecomesDue, Cancel, CreatorLeaves, LateInsert, SwitchSection, Read, Step, Take,
           SkipPaused, Claim, ClaimNothing, Post, PostFails, FinalizeNothing, Release, EndTick, Kill,
           TimePasses, rows, IInv, TypeOK
  <2>2. at[t] = "finalizing" /\ row[t] = r
    BY <2>1 DEF Finalize, IInv, TypeOK
  <2> QED
    BY <2>2 DEF IInv, AimInv
<1>2. Spec => [][Stamped]_vars
  BY <1>1, SpecImpliesIInv, PTL DEF Spec
<1> QED
  BY <1>2 DEF FiredWhereItAimed

=============================================================================
