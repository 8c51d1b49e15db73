----------------------- MODULE OfflineRoomWork_proofs -----------------------
(***************************************************************************)
(* Theorems about OfflineRoomWork for any actions, requests, attempts and  *)
(* faults: a claim has one owner, which alone writes, and the drain never  *)
(* lets a younger action overtake an older one.                            *)
(***************************************************************************)
EXTENDS OfflineRoomWork, TLAPS

\* A request between its claim and the claim's end.
Owner(s) == req[s].pc \in Holding

ClaimInv ==
  /\ \A s \in Slots : req[s].pc # "free" => req[s].act \in Actions
  /\ \A s \in Slots : Owner(s) => claims[req[s].act] = "pending"
  /\ \A s, u \in Slots : Owner(s) /\ Owner(u) /\ req[s].act = req[u].act => s = u

\* What has been written is known from the claim and the place of its owner.
CountInv ==
  /\ \A a \in Actions : claims[a] = "none" => applied[a] = mislaid[a]
  /\ \A a \in Actions : claims[a] = "done" => applied[a] >= 1
  /\ \A s \in Slots : req[s].pc \in {"work", "release"} => applied[req[s].act] = mislaid[req[s].act]
  /\ \A s \in Slots : req[s].pc = "complete" => applied[req[s].act] = mislaid[req[s].act] + 1
  /\ \A s \in Slots : req[s].pc = "release" => req[s].answer # "ok"
  /\ \A s \in Slots : req[s].pc = "answered" /\ req[s].answer = "ok" => applied[req[s].act] >= 1

\* What a pass has left is eligible and older than anything else that is.
RunnerInv ==
  /\ runner.at \in {"send", "wait"} =>
       /\ runner.rest \subseteq queue \ permanent
       /\ \A a \in runner.rest, b \in queue \ permanent :
            b \notin runner.rest => enqueuedAt[a] < enqueuedAt[b]
  /\ \A a \in Actions : enqueuedAt[a] <= clock

Live(s) == req[s].pc # "free"
DrainWaits(s)  == Live(s) /\ req[s].by = "drain" /\ req[s].heard
DirectWaits(s) == Live(s) /\ req[s].by = "direct" /\ req[s].heard

\* The phone waits for at most one request of the drain, the oldest of its pass,
\* and for one direct request of an action that it has not queued.
HeardInv ==
  /\ \A s \in Slots : req[s].pc = "answered" => req[s].heard
  /\ \A s \in Slots : DrainWaits(s) => runner.at = "wait" /\ Oldest(req[s].act)
  /\ \A s, u \in Slots : DrainWaits(s) /\ DrainWaits(u) => s = u
  /\ \A s \in Slots : DirectWaits(s) => status[req[s].act] = "direct"
  /\ \A s, u \in Slots : DirectWaits(s) /\ DirectWaits(u) /\ req[s].act = req[u].act => s = u
  /\ \A s \in Slots : Live(s) /\ req[s].by = "drain" =>
       status[req[s].act] \in {"queued", "confirmed", "dismissed"}
  /\ \A a \in queue : status[a] = "queued"

ServerInv == ClaimInv /\ CountInv /\ AppliedOnce /\ ConfirmedMeansApplied
PhoneInv  == RunnerInv /\ HeardInv /\ ReplayKeepsOrder
IInv == TypeOK /\ ServerInv /\ PhoneInv

LEMMA InitEstablishesIInv == Init => IInv
<1> SUFFICES ASSUME Init PROVE IInv
  OBVIOUS
<1> USE OfflineAssumption DEF Init
<1>1. StoreOK
  BY DEF StoreOK
<1>2. runner \in RunnerType
  BY DEF RunnerType, Idle
<1>3. req \in [Slots -> RequestType]
  BY DEF RequestType, Free, Answers
<1>4. TypeOK
  BY <1>1, <1>2, <1>3 DEF TypeOK
<1>5. ClaimInv /\ CountInv
  BY DEF ClaimInv, CountInv, Owner, Holding, Free
<1>6. AppliedOnce /\ ConfirmedMeansApplied
  BY DEF AppliedOnce, ConfirmedMeansApplied
<1>7. RunnerInv /\ HeardInv /\ ReplayKeepsOrder
  BY DEF RunnerInv, HeardInv, ReplayKeepsOrder, Live, DrainWaits, DirectWaits, Free, Idle
<1> QED
  BY <1>4, <1>5, <1>6, <1>7 DEF IInv, ServerInv, PhoneInv

LEMMA TriggerTyped ==
  ASSUME NEW r \in RunnerType
  PROVE  /\ Trigger(r) \in RunnerType /\ Idle \in RunnerType
         /\ IF r.at = "idle" THEN Trigger(r).at = "read"
                             ELSE Trigger(r).at = r.at /\ Trigger(r).rest = r.rest
<1>1. Idle \in RunnerType /\ [Idle EXCEPT !.at = "read", !.last = r.last] \in RunnerType
      /\ [Idle EXCEPT !.at = "read", !.last = r.last].at = "read"
  BY DEF RunnerType, Idle
<1>2. [r EXCEPT !.again = TRUE] \in RunnerType /\ [r EXCEPT !.again = TRUE].at = r.at
      /\ [r EXCEPT !.again = TRUE].rest = r.rest
  BY DEF RunnerType
<1> QED
  BY <1>1, <1>2 DEF Trigger

LEMMA RunnerStepsTyped ==
  ASSUME runner \in RunnerType, NEW a \in Actions, NEW hint \in {"none", "retry", "gaveUp"},
         GoesOn(a) \/ Stops(a, hint)
  PROVE  runner' \in RunnerType
BY DEF RunnerType, GoesOn, Stops

\* Every change of the phone's store is one of these.
LEMMA StoreStepsTyped ==
  ASSUME StoreOK, NEW a \in Actions, NEW S \in SUBSET Actions, NEW failed \in BOOLEAN,
         Enqueue(a) \/ Forget(S) \/ (a \in queue /\ Bump(a, failed)) \/ UNCHANGED store
  PROVE  StoreOK'
<1> USE OfflineAssumption DEF StoreOK
<1>1. CASE Enqueue(a)
  BY <1>1 DEF Enqueue
<1>2. CASE Forget(S)
  BY <1>2 DEF Forget
<1>3. CASE a \in queue /\ Bump(a, failed)
  BY <1>3 DEF Bump, OneMore
<1>4. CASE UNCHANGED store
  BY <1>4 DEF store
<1> QED
  BY <1>1, <1>2, <1>3, <1>4


(***************************************************************************)
(* The server's steps: the phone is left alone, and a request goes on or   *)
(* ends.                                                                   *)
(***************************************************************************)
\* What a step of the server may do to a request.
GoesOnOrEnds(s) ==
  /\ UNCHANGED phone
  /\ Live(s)
  /\ \E x \in RequestType :
       /\ req' = [req EXCEPT ![s] = x]
       /\ \/ x.pc = "free"
          \/ /\ x.act = req[s].act /\ x.by = req[s].by /\ x.heard = req[s].heard
             /\ x.pc = "answered" => x.heard

LEMMA ServerShape ==
  ASSUME TypeOK, NEW s \in Slots, Serve(s) \/ Kill(s)
  PROVE  GoesOnOrEnds(s)
<1> DEFINE Said(w) == [req[s] EXCEPT !.pc = "answered", !.answer = w]
<1>1. req \in [Slots -> RequestType]
  BY DEF TypeOK
<1>2. Free \in RequestType /\ Free.pc = "free"
  BY DEF Free, RequestType, Answers
<1>3. ASSUME NEW w \in Answers, Live(s), Answer(s, w), UNCHANGED phone PROVE GoesOnOrEnds(s)
  <2>1. CASE req[s].heard
    <3>1. Said(w) \in RequestType /\ Said(w).act = req[s].act /\ Said(w).by = req[s].by
          /\ Said(w).heard = req[s].heard
      BY <1>1 DEF RequestType
    <3>2. req' = [req EXCEPT ![s] = Said(w)]
      BY <1>3, <2>1 DEF Answer
    <3> QED
      BY <1>3, <2>1, <3>1, <3>2 DEF GoesOnOrEnds
  <2>2. CASE ~req[s].heard
    <3>1. req' = [req EXCEPT ![s] = Free]
      BY <1>3, <2>2 DEF Answer
    <3> QED
      BY <1>2, <1>3, <3>1 DEF GoesOnOrEnds
  <2> QED
    BY <2>1, <2>2
<1>4. ASSUME NEW p \in Running, NEW w \in Answers, Live(s), UNCHANGED phone,
             req' = [req EXCEPT ![s] = [req[s] EXCEPT !.pc = p, !.answer = w]]
      PROVE  GoesOnOrEnds(s)
  <2> DEFINE x == [req[s] EXCEPT !.pc = p, !.answer = w]
  <2>1. x \in RequestType /\ x.act = req[s].act /\ x.by = req[s].by /\ x.heard = req[s].heard
        /\ x.pc # "answered"
    BY <1>1 DEF RequestType, Running, Holding
  <2> HIDE DEF x
  <2>2. req' = [req EXCEPT ![s] = x]
    BY <1>4 DEF x
  <2> QED
    BY <1>4, <2>1, <2>2 DEF GoesOnOrEnds
<1>5. ASSUME NEW p \in Running, Live(s), UNCHANGED phone, Goto(s, p) PROVE GoesOnOrEnds(s)
  <2> DEFINE x == [req[s] EXCEPT !.pc = p]
  <2>1. x \in RequestType /\ x.act = req[s].act /\ x.by = req[s].by /\ x.heard = req[s].heard
        /\ x.pc # "answered"
    BY <1>1 DEF RequestType, Running, Holding
  <2> HIDE DEF x
  <2>2. req' = [req EXCEPT ![s] = x]
    BY <1>5 DEF x, Goto
  <2> QED
    BY <1>5, <2>1, <2>2 DEF GoesOnOrEnds
<1>6. req[s].answer \in Answers
  BY <1>1 DEF RequestType
<1>7. CASE Gate(s)
  BY <1>7, <1>3, <1>5 DEF Gate, Live, Answers, Running
<1>8. CASE Claim(s)
  BY <1>8, <1>3, <1>5 DEF Claim, Live, Answers, Running, Holding
<1>9. CASE Lookup(s)
  BY <1>9, <1>3 DEF Lookup, Deduped, Live, Answers
<1>10. CASE Work(s)
  <2>1. CASE Goto(s, "complete")
    BY <1>10, <2>1, <1>5 DEF Work, Live, Running, Holding
  <2>2. CASE \E w \in {"error", "refused"} :
               req' = [req EXCEPT ![s].pc = "release", ![s].answer = w]
    <3>1. PICK w \in {"error", "refused"} :
            req' = [req EXCEPT ![s] = [req[s] EXCEPT !.pc = "release", !.answer = w]]
      BY <2>2, <1>1 DEF RequestType
    <3> QED
      BY <1>10, <3>1, <1>4 DEF Work, Live, Running, Holding, Answers
  <2> QED
    BY <1>10, <2>1, <2>2 DEF Work
<1>11. CASE Release(s) \/ Complete(s)
  BY <1>11, <1>3, <1>6 DEF Release, Complete, Live, Answers
<1>12. CASE Kill(s)
  BY <1>12, <1>3 DEF Kill, Live, Answers, Running, Holding
<1> QED
  BY <1>7, <1>8, <1>9, <1>10, <1>11, <1>12 DEF Serve

LEMMA ServerKeepsPhone ==
  ASSUME TypeOK, PhoneInv, NEW s \in Slots, GoesOnOrEnds(s)
  PROVE  PhoneInv'
<1> USE DEF phone, store
<1>1. RunnerInv'
  BY DEF GoesOnOrEnds, PhoneInv, RunnerInv
<1>2. PICK x \in RequestType :
        /\ req' = [req EXCEPT ![s] = x]
        /\ \/ x.pc = "free"
           \/ /\ x.act = req[s].act /\ x.by = req[s].by /\ x.heard = req[s].heard
              /\ x.pc = "answered" => x.heard
  BY DEF GoesOnOrEnds
<1>3. \A u \in Slots : req'[u] = IF u = s THEN x ELSE req[u]
  BY <1>2 DEF TypeOK
<1>4. HeardInv'
  BY <1>2, <1>3 DEF GoesOnOrEnds, PhoneInv, HeardInv, DrainWaits, DirectWaits, Live, Oldest
<1>5. ReplayKeepsOrder'
  BY <1>2, <1>3 DEF GoesOnOrEnds, PhoneInv, ReplayKeepsOrder, Live
<1> QED
  BY <1>1, <1>4, <1>5 DEF PhoneInv


\* A claim has one owner: only it writes, completes or releases.
LEMMA ServerKeepsServerInv ==
  ASSUME TypeOK, ServerInv, HeardInv, NEW s \in Slots, Serve(s) \/ Kill(s)
  PROVE  ServerInv'
<1> DEFINE a == req[s].act
<1> USE DEF ServerInv
<1>1. /\ req \in [Slots -> RequestType] /\ claims \in [Actions -> {"none", "pending", "done"}]
      /\ applied \in [Actions -> Nat] /\ mislaid \in [Actions -> Nat]
  BY DEF TypeOK
<1>2. \A u \in Slots : u # s => req'[u] = req[u]
  <2>1. GoesOnOrEnds(s)
    BY ServerShape
  <2> QED
    BY <2>1, <1>1 DEF GoesOnOrEnds
<1>3. UNCHANGED status
  BY DEF Serve, Gate, Claim, Lookup, Work, Release, Complete, Kill, phone
<1>4. Live(s) /\ a \in Actions
  BY DEF Serve, Gate, Claim, Lookup, Work, Release, Complete, Kill, Live, ClaimInv, Running, Holding
<1>5. ASSUME NEW w \in Answers, Answer(s, w)
      PROVE  /\ req'[s].pc \in {"free", "answered"}
             /\ req'[s].pc = "answered" => req'[s].act = a /\ req'[s].answer = w
  BY <1>1, <1>5 DEF Answer, Free, RequestType
<1>6. ASSUME NEW w \in Answers, Answer(s, w), UNCHANGED server, w = "ok" => applied[a] >= 1
      PROVE  ServerInv'
  <2>1. ClaimInv'
    BY <1>1, <1>2, <1>4, <1>5, <1>6 DEF ClaimInv, Owner, Holding, server
  <2>2. CountInv'
    BY <1>1, <1>2, <1>4, <1>5, <1>6 DEF CountInv, server
  <2> QED
    BY <1>3, <1>6, <2>1, <2>2 DEF server, AppliedOnce, ConfirmedMeansApplied
<1>7. CASE Gate(s) \/ Kill(s)
  <2>1. CASE Goto(s, "claim")
    <3>1. req'[s] = [req[s] EXCEPT !.pc = "claim"] /\ UNCHANGED server
      BY <1>1, <1>7, <2>1 DEF Goto, Gate, Kill, Answer, Live
    <3>2. req'[s].pc = "claim" /\ req'[s].act = a
      BY <1>1, <3>1 DEF RequestType
    <3>3. ClaimInv'
      <4>1. ~Owner(s)' /\ \A u \in Slots : u # s => (Owner(u)' <=> Owner(u)) /\ req'[u] = req[u]
        BY <1>2, <3>2 DEF Owner, Holding
      <4>2. \A u \in Slots : req'[u].pc # "free" => req'[u].act \in Actions
        BY <1>2, <1>4, <3>2 DEF ClaimInv
      <4> QED
        BY <3>1, <4>1, <4>2 DEF ClaimInv, server
    <3>4. CountInv'
      BY <1>1, <1>2, <3>1, <3>2 DEF CountInv, server
    <3> QED
      BY <1>3, <3>1, <3>3, <3>4 DEF server, AppliedOnce, ConfirmedMeansApplied
  <2>2. CASE \E w \in {"slow", "refused", "error"} : Answer(s, w)
    BY <1>6, <1>7, <2>2 DEF Gate, Kill, Answers
  <2> QED
    BY <1>7, <2>1, <2>2 DEF Gate, Kill
<1>8. CASE Claim(s)
  <2>1. CASE Unclaimed(s) /\ Row(s, "pending") /\ Goto(s, "work")
    <3>1. claims' = [claims EXCEPT ![a] = "pending"] /\ claims[a] = "none"
          /\ UNCHANGED <<applied, mislaid>>
      BY <1>8, <2>1 DEF Claim, Row, Unclaimed
    <3>2. req'[s].pc = "work" /\ req'[s].act = a
      BY <1>1, <2>1 DEF Goto, RequestType
    <3>3. \A u \in Slots : Owner(u) => req[u].act # a
      BY <3>1 DEF ClaimInv
    <3>4. ClaimInv'
      BY <1>1, <1>2, <1>4, <3>1, <3>2, <3>3 DEF ClaimInv, Owner, Holding
    <3>5. CountInv'
      BY <1>1, <1>2, <1>4, <3>1, <3>2 DEF CountInv, ClaimInv
    <3> QED
      BY <1>3, <3>1, <3>4, <3>5 DEF AppliedOnce, ConfirmedMeansApplied
  <2>2. CASE Goto(s, "lookup") /\ UNCHANGED claims
    <3>1. req'[s] = [req[s] EXCEPT !.pc = "lookup"] /\ UNCHANGED server
      BY <1>1, <1>8, <2>2 DEF Goto, Claim, server
    <3>2. req'[s].pc = "lookup" /\ req'[s].act = a
      BY <1>1, <3>1 DEF RequestType
    <3>3. ClaimInv'
      <4>1. ~Owner(s)' /\ \A u \in Slots : u # s => (Owner(u)' <=> Owner(u)) /\ req'[u] = req[u]
        BY <1>2, <3>2 DEF Owner, Holding
      <4>2. \A u \in Slots : req'[u].pc # "free" => req'[u].act \in Actions
        BY <1>2, <1>4, <3>2 DEF ClaimInv
      <4> QED
        BY <3>1, <4>1, <4>2 DEF ClaimInv, server
    <3>4. CountInv'
      BY <1>1, <1>2, <3>1, <3>2 DEF CountInv, server
    <3> QED
      BY <1>3, <3>1, <3>3, <3>4 DEF server, AppliedOnce, ConfirmedMeansApplied
  <2>3. CASE Answer(s, "error") /\ UNCHANGED claims
    BY <1>6, <1>8, <2>3 DEF Claim, server, Answers
  <2>4. CASE Answer(s, "error") /\ Unclaimed(s) /\ Row(s, "pending")
    <3>1. claims' = [claims EXCEPT ![a] = "pending"] /\ claims[a] = "none"
          /\ UNCHANGED <<applied, mislaid>>
      BY <1>8, <2>4 DEF Claim, Row, Unclaimed
    <3>2. /\ req'[s].pc \in {"free", "answered"}
          /\ req'[s].pc = "answered" => req'[s].act = a /\ req'[s].answer = "error"
      BY <1>5, <2>4 DEF Answers
    <3>3. \A u \in Slots : Owner(u) => req[u].act # a
      BY <3>1 DEF ClaimInv
    <3>4. ClaimInv'
      BY <1>1, <1>2, <1>4, <3>1, <3>2, <3>3 DEF ClaimInv, Owner, Holding
    <3>5. CountInv'
      BY <1>1, <1>2, <1>4, <3>1, <3>2 DEF CountInv
    <3> QED
      BY <1>3, <3>1, <3>4, <3>5 DEF AppliedOnce, ConfirmedMeansApplied
  <2> QED
    BY <1>8, <2>1, <2>2, <2>3, <2>4 DEF Claim
<1>9. CASE Lookup(s)
  <2>1. Deduped(claims[a]) \in Answers /\ (Deduped(claims[a]) = "ok" => applied[a] >= 1)
    BY <1>1, <1>4 DEF Deduped, Answers, CountInv
  <2> QED
    BY <1>6, <1>9, <2>1 DEF Lookup, Answers
<1>10. CASE Work(s)
  <2>1. Owner(s)
    BY <1>10 DEF Work, Owner, Holding
  <2>2. \A u \in Slots : Owner(u) /\ req[u].act = a => u = s
    BY <2>1 DEF ClaimInv
  <2>3. applied[a] = mislaid[a] /\ UNCHANGED claims
    BY <1>10 DEF Work, CountInv
  <2>4. CASE Goto(s, "complete") /\ applied' = [applied EXCEPT ![a] = @ + 1] /\ UNCHANGED mislaid
    <3>1. req'[s] = [req[s] EXCEPT !.pc = "complete"]
      BY <1>1, <2>4 DEF Goto
    <3>2. req'[s].pc = "complete" /\ req'[s].act = a
      BY <1>1, <3>1 DEF RequestType
    <3>3. ClaimInv'
      BY <1>1, <1>2, <1>4, <2>1, <2>2, <2>3, <3>2 DEF ClaimInv, Owner, Holding
    <3>4. CountInv'
      BY <1>1, <1>2, <1>4, <2>1, <2>2, <2>3, <2>4, <3>2 DEF CountInv, ClaimInv, Owner, Holding
    <3> QED
      BY <1>1, <1>3, <1>4, <2>3, <2>4, <3>3, <3>4 DEF AppliedOnce, ConfirmedMeansApplied
  <2>5. CASE \E w \in {"error", "refused"} :
               /\ req' = [req EXCEPT ![s].pc = "release", ![s].answer = w]
               /\ \/ UNCHANGED <<applied, mislaid>>
                  \/ /\ applied' = [applied EXCEPT ![a] = @ + 1]
                     /\ mislaid' = [mislaid EXCEPT ![a] = @ + 1]
    <3>1. req'[s].pc = "release" /\ req'[s].act = a /\ req'[s].answer # "ok"
      BY <1>1, <2>5 DEF RequestType
    <3>2. ClaimInv'
      BY <1>1, <1>2, <1>4, <2>1, <2>2, <2>3, <3>1 DEF ClaimInv, Owner, Holding
    <3>3. CountInv' /\ AppliedOnce' /\ ConfirmedMeansApplied'
      <4>1. CASE UNCHANGED <<applied, mislaid>>
        BY <1>1, <1>2, <1>3, <1>4, <2>1, <2>2, <2>3, <3>1, <4>1
           DEF CountInv, ClaimInv, Owner, Holding, AppliedOnce, ConfirmedMeansApplied
      <4>2. CASE /\ applied' = [applied EXCEPT ![a] = @ + 1]
                 /\ mislaid' = [mislaid EXCEPT ![a] = @ + 1]
        <5>1. CountInv'
          BY <1>1, <1>2, <1>4, <2>1, <2>2, <2>3, <3>1, <4>2 DEF CountInv, ClaimInv, Owner, Holding
        <5>2. AppliedOnce' /\ ConfirmedMeansApplied'
          BY <1>1, <1>3, <1>4, <4>2 DEF AppliedOnce, ConfirmedMeansApplied
        <5> QED
          BY <5>1, <5>2
      <4> QED
        BY <2>5, <4>1, <4>2
    <3> QED
      BY <3>2, <3>3
  <2> QED
    BY <1>10, <2>4, <2>5 DEF Work
<1>11. CASE Release(s) \/ Complete(s)
  <2>1. Owner(s) /\ UNCHANGED <<applied, mislaid>>
    BY <1>11 DEF Release, Complete, Owner, Holding
  <2>2. \A u \in Slots : Owner(u) /\ req[u].act = a => u = s
    BY <2>1 DEF ClaimInv
  <2>3. PICK w \in Answers : Answer(s, w) /\ (w = "ok" => applied[a] >= 1)
    BY <1>1, <1>4, <1>11 DEF Release, Complete, CountInv, Answers, RequestType
  <2>4. /\ req'[s].pc \in {"free", "answered"}
        /\ req'[s].pc = "answered" => req'[s].act = a /\ req'[s].answer = w
    BY <1>5, <2>3
  <2>5. \E v \in {"none", "done", "pending"} :
          /\ claims' = [claims EXCEPT ![a] = v]
          /\ v = "none" => applied[a] = mislaid[a]
          /\ v = "done" => applied[a] >= 1
    <3>1. claims[a] = "pending"
      BY <2>1 DEF ClaimInv
    <3>2. claims = [claims EXCEPT ![a] = "pending"]
      BY <1>1, <3>1
    <3>3. req[s].pc = "release" => applied[a] = mislaid[a]
      BY DEF CountInv
    <3>4. req[s].pc = "complete" => applied[a] >= 1
      BY <1>1, <1>4 DEF CountInv
    <3> QED
      BY <1>11, <3>2, <3>3, <3>4 DEF Release, Complete, Row
  <2>6. ClaimInv'
    BY <1>1, <1>2, <1>4, <2>2, <2>4, <2>5 DEF ClaimInv, Owner, Holding
  <2>7. CountInv'
    BY <1>1, <1>2, <1>4, <2>1, <2>3, <2>4, <2>5 DEF CountInv
  <2> QED
    BY <1>3, <2>1, <2>6, <2>7 DEF AppliedOnce, ConfirmedMeansApplied
<1> QED
  BY <1>7, <1>8, <1>9, <1>10, <1>11 DEF Serve

LEMMA ServerKeepsTypeOK ==
  ASSUME TypeOK, ServerInv, NEW s \in Slots, Serve(s) \/ Kill(s)
  PROVE  TypeOK'
<1>1. GoesOnOrEnds(s)
  BY ServerShape
<1>2. req' \in [Slots -> RequestType]
  BY <1>1 DEF GoesOnOrEnds, TypeOK
<1>3. UNCHANGED phone
  BY <1>1 DEF GoesOnOrEnds
<1>4. left' \in Nat
  BY DEF TypeOK, Serve, Gate, Claim, Lookup, Work, Release, Complete, Kill, Fault
<1>5. claims' \in [Actions -> {"none", "pending", "done"}]
  BY DEF TypeOK, Serve, Gate, Claim, Lookup, Work, Release, Complete, Kill, server, Row
<1>6. applied' \in [Actions -> Nat] /\ mislaid' \in [Actions -> Nat]
  BY DEF TypeOK, Serve, Gate, Claim, Lookup, Work, Release, Complete, Kill, server
<1>7. StoreOK'
  BY <1>3 DEF TypeOK, StoreOK, phone, store
<1> QED
  BY <1>2, <1>3, <1>4, <1>5, <1>6, <1>7 DEF TypeOK, phone


(***************************************************************************)
(* The phone's steps: the server is left alone.                            *)
(***************************************************************************)
\* Requests start, are heard, go unheard or stay; what is newly confirmed was
\* applied.
Harmless ==
  /\ UNCHANGED server
  /\ \A u \in Slots :
       \/ req'[u].pc = "free"
       \/ req'[u].pc = "gate" /\ req'[u].act \in Actions
       \/ req'[u].pc = req[u].pc /\ req'[u].act = req[u].act /\ req'[u].answer = req[u].answer
  /\ \A a \in Actions : status'[a] = "confirmed" => status[a] = "confirmed" \/ applied[a] >= 1

LEMMA HarmlessKeepsServerInv ==
  ASSUME TypeOK, ServerInv, Harmless PROVE ServerInv'
<1> USE DEF ServerInv, Harmless, server
<1>1. \A u \in Slots : Owner(u)' => Owner(u) /\ req'[u].act = req[u].act
  BY DEF Owner, Holding
<1>2. ClaimInv'
  BY <1>1 DEF ClaimInv
<1>3. CountInv'
  BY DEF CountInv
<1> QED
  BY <1>2, <1>3 DEF AppliedOnce, ConfirmedMeansApplied


\* No request starts; some end, some go unheard.
Quieter ==
  \A u \in Slots : Live(u)' =>
    /\ Live(u) /\ req'[u].act = req[u].act /\ req'[u].by = req[u].by
    /\ req'[u].heard => req[u].heard
    /\ req'[u].pc = "answered" => req'[u].heard

\* A new entry is the youngest.
LEMMA EnqueueKeepsPhoneInv ==
  ASSUME TypeOK, ClaimInv, PhoneInv, NEW a \in Actions, status[a] \in {"new", "direct"},
         Enqueue(a), status' = [status EXCEPT ![a] = "queued"],
         \A u \in Slots : DirectWaits(u)' => req'[u].act # a,
         Quieter,
         \/ runner'.at = runner.at /\ runner'.rest = runner.rest
         \/ runner'.at \notin {"send", "wait"} /\ runner.at \notin {"send", "wait"}
  PROVE  PhoneInv'
<1> USE DEF PhoneInv
<1>1. a \notin queue /\ a \notin permanent
  BY DEF HeardInv, TypeOK, StoreOK
<1>2. /\ queue' = queue \cup {a} /\ permanent' = permanent
      /\ \A b \in Actions : enqueuedAt'[b] = IF b = a THEN clock + 1 ELSE enqueuedAt[b]
      /\ clock' = clock + 1
      /\ \A b \in Actions : enqueuedAt[b] \in Nat /\ enqueuedAt[b] <= clock
      /\ clock \in Nat /\ queue \subseteq Actions
      /\ \A b \in Actions : status'[b] = IF b = a THEN "queued" ELSE status[b]
  BY DEF Enqueue, TypeOK, StoreOK, RunnerInv
<1>3. RunnerInv'
  <2>1. \A b \in Actions : enqueuedAt'[b] <= clock'
    BY <1>2
  <2>2. CASE runner'.at \in {"send", "wait"}
    <3>1. runner'.rest = runner.rest /\ runner.rest \subseteq queue \ permanent
      BY <2>2 DEF RunnerInv
    <3>2. \A b \in runner.rest, c \in queue \ permanent :
            c \notin runner.rest => enqueuedAt[b] < enqueuedAt[c]
      BY <2>2 DEF RunnerInv
    <3>3. \A b \in runner.rest, c \in (queue \ permanent)' :
            c \notin runner.rest => enqueuedAt'[b] < enqueuedAt'[c]
      BY <1>1, <1>2, <3>1, <3>2
    <3> QED
      BY <1>2, <2>1, <3>1, <3>3 DEF RunnerInv
  <2> QED
    BY <2>1, <2>2 DEF RunnerInv
<1>4. \A u \in Slots : Live(u) => req[u].act \in Actions
  BY DEF Live, ClaimInv
<1>5. \A u \in Slots : Live(u)' /\ req[u].by = "drain" => req[u].act # a
  BY DEF HeardInv, Quieter
<1>6. HeardInv'
  <2>1. \A u \in Slots : DrainWaits(u)' => DrainWaits(u) /\ req'[u].act = req[u].act
    BY DEF DrainWaits, Quieter
  <2>2. \A u \in Slots : DrainWaits(u) => runner.at = "wait" /\ Oldest(req[u].act)
    BY DEF HeardInv
  <2>3. \A u \in Slots : DrainWaits(u)' => runner'.at = "wait" /\ Oldest(req[u].act)'
    BY <1>1, <1>2, <2>1, <2>2 DEF Oldest, RunnerInv
  <2>4. \A u \in Slots : DirectWaits(u)' => DirectWaits(u) /\ status'[req'[u].act] = "direct"
                                            /\ req'[u].act = req[u].act
    BY <1>2, <1>4 DEF DirectWaits, HeardInv, Quieter
  <2>5. \A u \in Slots : Live(u)' /\ req'[u].by = "drain" =>
          status'[req'[u].act] \in {"queued", "confirmed", "dismissed"}
    BY <1>2, <1>4 DEF HeardInv, Quieter
  <2>6. \A b \in queue' : status'[b] = "queued"
    BY <1>2 DEF HeardInv
  <2>7. \A u \in Slots : req'[u].pc = "answered" => req'[u].heard
    BY DEF Quieter, Live
  <2>8. /\ \A u, v \in Slots : DrainWaits(u)' /\ DrainWaits(v)' => u = v
        /\ \A u, v \in Slots : DirectWaits(u)' /\ DirectWaits(v)' /\ req'[u].act = req'[v].act => u = v
    BY <2>1, <2>4 DEF HeardInv
  <2> QED
    BY <2>3, <2>4, <2>5, <2>6, <2>7, <2>8 DEF HeardInv
<1>7. ReplayKeepsOrder'
  <2> SUFFICES ASSUME NEW u \in Slots, Live(u)', req'[u].by = "drain", req'[u].act \in queue',
                      NEW b \in queue', enqueuedAt'[b] < enqueuedAt'[req'[u].act]
               PROVE  b \in permanent'
    BY DEF ReplayKeepsOrder, Live
  <2>1. req[u].act = req'[u].act /\ Live(u) /\ req[u].by = "drain" /\ req[u].act # a
    BY <1>5 DEF Quieter
  <2>2. req[u].act \in queue /\ b # a
    BY <1>2, <2>1
  <2> QED
    BY <1>2, <2>1, <2>2 DEF ReplayKeepsOrder, Live
<1> QED
  BY <1>3, <1>6, <1>7

\* Steps that leave the store alone and start nothing.
LEMMA QuietKeepsPhoneInv ==
  ASSUME TypeOK, ClaimInv, PhoneInv, UNCHANGED store, Quieter, RunnerInv',
         \A u \in Slots : DrainWaits(u)' => runner'.at = runner.at /\ runner'.rest = runner.rest,
         \A u \in Slots : DirectWaits(u)' => status'[req'[u].act] = "direct",
         \A a \in Actions : status[a] \in {"queued", "confirmed", "dismissed"} => status'[a] = status[a]
  PROVE  PhoneInv'
<1> USE DEF PhoneInv
<1>1. UNCHANGED <<queue, permanent, enqueuedAt>>
  BY DEF store
<1>2. \A u \in Slots : Live(u)' => Live(u) /\ req'[u].act = req[u].act /\ req'[u].by = req[u].by
                                   /\ req[u].act \in Actions
  BY DEF Quieter, Live, ClaimInv
<1>3. \A u \in Slots : /\ DrainWaits(u)' => DrainWaits(u) /\ req'[u].act = req[u].act
                       /\ DirectWaits(u)' => DirectWaits(u) /\ req'[u].act = req[u].act
  BY DEF Quieter, DrainWaits, DirectWaits
<1>4. HeardInv'
  <2>1. \A u \in Slots : DrainWaits(u)' => runner'.at = "wait" /\ Oldest(req[u].act)'
    BY <1>1, <1>3 DEF HeardInv, Oldest
  <2>2. \A u \in Slots : Live(u)' /\ req'[u].by = "drain" =>
          status'[req'[u].act] \in {"queued", "confirmed", "dismissed"}
    BY <1>2 DEF HeardInv
  <2>3. \A a \in queue' : status'[a] = "queued"
    BY <1>1 DEF HeardInv, TypeOK, StoreOK
  <2>4. \A u \in Slots : req'[u].pc = "answered" => req'[u].heard
    BY DEF Quieter, Live
  <2>5. /\ \A u, v \in Slots : DrainWaits(u)' /\ DrainWaits(v)' => u = v
        /\ \A u, v \in Slots : DirectWaits(u)' /\ DirectWaits(v)' /\ req'[u].act = req'[v].act => u = v
    BY <1>3 DEF HeardInv
  <2> QED
    BY <2>1, <2>2, <2>3, <2>4, <2>5 DEF HeardInv
<1>5. ReplayKeepsOrder'
  BY <1>1, <1>2 DEF ReplayKeepsOrder, Live
<1> QED
  BY <1>4, <1>5

\* The drain is done with the oldest of its pass.
LEMMA DrainMovesOn ==
  ASSUME TypeOK, ClaimInv, PhoneInv, Quieter, NEW a \in runner.rest, runner.at \in {"send", "wait"},
         NEW failed \in BOOLEAN, NEW hint \in {"none", "retry", "gaveUp"},
         \A u \in Slots : ~DrainWaits(u)',
         \/ Forget({a}) /\ status' = [status EXCEPT ![a] = "confirmed"] /\ GoesOn(a)
         \/ Bump(a, failed) /\ UNCHANGED status /\ (Stops(a, hint) \/ (failed /\ GoesOn(a)))
  PROVE  PhoneInv'
<1> USE DEF PhoneInv
<1>1. a \in queue \ permanent /\ a \in Actions /\ runner.rest \subseteq queue \ permanent
  BY DEF RunnerInv, TypeOK, StoreOK
<1>2. runner'.rest = runner.rest \ {a} \/ runner'.at = "end"
  BY DEF GoesOn, Stops, TypeOK, RunnerType
<1>3. /\ queue' \subseteq queue /\ (queue \ permanent)' \subseteq queue \ permanent
      /\ (queue \ permanent)' = (queue \ permanent) \ {a} \/ (queue \ permanent)' = queue \ permanent
      /\ queue' \cap permanent \subseteq permanent'
      /\ \A b \in queue' : enqueuedAt'[b] = enqueuedAt[b] /\ status'[b] = status[b]
      /\ (queue \ permanent)' = queue \ permanent => runner'.at = "end"
  <2>1. CASE Forget({a}) /\ status' = [status EXCEPT ![a] = "confirmed"] /\ GoesOn(a)
    BY <1>1, <2>1 DEF Forget, TypeOK, StoreOK
  <2>2. CASE Bump(a, failed) /\ UNCHANGED status /\ (Stops(a, hint) \/ (failed /\ GoesOn(a)))
    <3>1. Stops(a, hint) => runner'.at = "end"
      BY DEF Stops, TypeOK, RunnerType
    <3> QED
      BY <1>1, <2>2, <3>1 DEF Bump, TypeOK, StoreOK
  <2> QED
    BY <2>1, <2>2
<1>4. RunnerInv'
  <2>1. \A b \in Actions : enqueuedAt'[b] <= clock'
    BY <1>1 DEF Forget, Bump, RunnerInv, TypeOK, StoreOK
  <2>2. ASSUME runner'.at \in {"send", "wait"}
        PROVE  /\ runner'.rest \subseteq (queue \ permanent)'
               /\ \A b \in runner'.rest, c \in (queue \ permanent)' :
                    c \notin runner'.rest => enqueuedAt'[b] < enqueuedAt'[c]
    <3>1. runner'.rest = runner.rest \ {a} /\ (queue \ permanent)' = (queue \ permanent) \ {a}
      BY <1>2, <1>3, <2>2
    <3>2. \A b \in runner.rest, c \in queue \ permanent :
            c \notin runner.rest => enqueuedAt[b] < enqueuedAt[c]
      BY DEF RunnerInv
    <3> QED
      BY <1>1, <1>3, <3>1, <3>2
  <2> QED
    BY <2>1, <2>2 DEF RunnerInv
<1>5. \A u \in Slots : Live(u)' => Live(u) /\ req'[u].act = req[u].act /\ req'[u].by = req[u].by
                                   /\ req[u].act \in Actions
  BY DEF Quieter, Live, ClaimInv
<1>6. \A b \in Actions : status'[b] = status[b] \/ (b = a /\ status'[b] = "confirmed")
  BY <1>1 DEF TypeOK
<1>7. status[a] = "queued"
  BY <1>1 DEF HeardInv
<1>8. HeardInv'
  <2>1. \A u \in Slots : DirectWaits(u)' => DirectWaits(u) /\ req'[u].act = req[u].act
    BY DEF Quieter, DirectWaits
  <2>2. \A u \in Slots : DirectWaits(u)' => status'[req'[u].act] = "direct"
    BY <1>5, <1>6, <1>7, <2>1 DEF HeardInv, DirectWaits
  <2>3. \A u \in Slots : Live(u)' /\ req'[u].by = "drain" =>
          status'[req'[u].act] \in {"queued", "confirmed", "dismissed"}
    BY <1>5, <1>6 DEF HeardInv
  <2>4. \A u \in Slots : req'[u].pc = "answered" => req'[u].heard
    BY DEF Quieter, Live
  <2>5. \A b \in queue' : status'[b] = "queued"
    BY <1>3 DEF HeardInv
  <2> QED
    BY <2>1, <2>2, <2>3, <2>4, <2>5 DEF HeardInv
<1>9. ReplayKeepsOrder'
  BY <1>3, <1>5 DEF ReplayKeepsOrder, Live
<1> QED
  BY <1>4, <1>8, <1>9

\* A step of the phone keeps the phone's part and does the server no harm.
PhoneKept == TypeOK' /\ PhoneInv' /\ Harmless

LEMMA TapsKeep ==
  ASSUME IInv, NEW a \in Actions, NEW s \in Slots,
         TapQueued(a) \/ DirectNeverLeaves(a) \/ TapDirect(a, s)
  PROVE  PhoneKept
<1> USE DEF IInv, ServerInv, PhoneInv, PhoneKept
<1>1. /\ status \in [Actions -> {"new", "direct", "queued", "confirmed", "refused", "dismissed", "dropped"}]
      /\ req \in [Slots -> RequestType] /\ runner \in RunnerType
      /\ \A u \in Slots : req[u].pc = "answered" => req[u].heard
  BY DEF TypeOK, HeardInv
<1>2. status[a] = "new"
  BY DEF TapQueued, DirectNeverLeaves, TapDirect
<1>3. \A u \in Slots : DirectWaits(u) => req[u].act # a
  BY <1>2 DEF HeardInv
<1>4. CASE TapQueued(a) \/ DirectNeverLeaves(a)
  <2>1. Enqueue(a) /\ status' = [status EXCEPT ![a] = "queued"] /\ UNCHANGED <<server, req>>
    BY <1>4 DEF TapQueued, DirectNeverLeaves, EnqueueAfterThrow
  <2>2. runner' = runner \/ runner' = Trigger(runner)
    BY <1>4 DEF TapQueued, DirectNeverLeaves
  <2>3. runner' \in RunnerType
    BY <1>1, <2>2, TriggerTyped
  <2>4. \/ runner'.at = runner.at /\ runner'.rest = runner.rest
        \/ runner'.at \notin {"send", "wait"} /\ runner.at \notin {"send", "wait"}
    BY <1>1, <2>2, TriggerTyped
  <2>5. Quieter /\ \A u \in Slots : DirectWaits(u)' => req'[u].act # a
    BY <1>1, <1>3, <2>1 DEF Quieter, Live, DirectWaits
  <2>6. PhoneInv'
    BY <1>2, <2>1, <2>4, <2>5, EnqueueKeepsPhoneInv
  <2>7. StoreOK'
    BY <2>1, StoreStepsTyped DEF TypeOK
  <2>8. TypeOK'
    <3>1. left' = left \/ Fault
      BY <1>4 DEF TapQueued, DirectNeverLeaves
    <3>2. left' \in Nat
      BY <3>1 DEF TypeOK, Fault
    <3>3. (believed' = believed \/ believed' = FALSE) /\ UNCHANGED <<open, onLine>>
      BY <1>4 DEF TapQueued, DirectNeverLeaves, EnqueueAfterThrow
    <3>4. status' \in [Actions -> {"new", "direct", "queued", "confirmed", "refused", "dismissed", "dropped"}]
      BY <1>1, <2>1
    <3> QED
      BY <2>1, <2>3, <2>7, <3>2, <3>3, <3>4 DEF TypeOK, server
  <2>9. Harmless
    BY <1>1, <2>1 DEF Harmless, server
  <2> QED
    BY <2>6, <2>8, <2>9
<1>5. CASE TapDirect(a, s)
  <2> DEFINE x == [Free EXCEPT !.pc = "gate", !.act = a, !.by = "direct", !.heard = TRUE]
  <2>1. x \in RequestType /\ x.pc = "gate" /\ x.act = a /\ x.by = "direct"
    BY DEF Free, RequestType, Answers, Running
  <2>2. req' = [req EXCEPT ![s] = x] /\ status' = [status EXCEPT ![a] = "direct"]
        /\ UNCHANGED <<store, runner, server>>
    BY <1>5 DEF TapDirect, Send
  <2> HIDE DEF x
  <2>3. \A u \in Slots : req'[u] = IF u = s THEN x ELSE req[u]
    BY <1>1, <2>2
  <2>4. \A b \in Actions : status'[b] = IF b = a THEN "direct" ELSE status[b]
    BY <1>1, <2>2
  <2>5. RunnerInv'
    BY <2>2 DEF RunnerInv, store
  <2>6. HeardInv'
    <3>1. \A u \in Slots : DrainWaits(u)' => u # s /\ DrainWaits(u)
      BY <2>1, <2>3 DEF DrainWaits, Live
    <3>2. \A u \in Slots : DrainWaits(u)' => runner'.at = "wait" /\ Oldest(req[u].act)' /\ req'[u] = req[u]
      BY <2>2, <2>3, <3>1 DEF HeardInv, Oldest, store
    <3>3. \A u \in Slots : DirectWaits(u)' => status'[req'[u].act] = "direct" /\ (req'[u].act = a => u = s)
      BY <1>2, <2>1, <2>3, <2>4 DEF HeardInv, DirectWaits, Live, ClaimInv
    <3>4. \A u, v \in Slots : DirectWaits(u)' /\ DirectWaits(v)' /\ req'[u].act = req'[v].act => u = v
      BY <1>3, <2>1, <2>3 DEF HeardInv, DirectWaits, Live
    <3>5. \A u \in Slots : Live(u)' /\ req'[u].by = "drain" =>
            status'[req'[u].act] \in {"queued", "confirmed", "dismissed"}
      BY <1>2, <2>1, <2>3, <2>4 DEF HeardInv, Live, ClaimInv
    <3>6. \A b \in queue' : status'[b] = "queued"
      BY <1>2, <2>2, <2>4 DEF HeardInv, store, TypeOK, StoreOK
    <3>7. \A u \in Slots : req'[u].pc = "answered" => req'[u].heard
      BY <1>1, <2>1, <2>3
    <3>8. \A u, v \in Slots : DrainWaits(u)' /\ DrainWaits(v)' => u = v
      BY <3>1 DEF HeardInv
    <3> QED
      BY <3>2, <3>3, <3>4, <3>5, <3>6, <3>7, <3>8 DEF HeardInv
  <2>7. ReplayKeepsOrder'
    BY <2>1, <2>2, <2>3 DEF ReplayKeepsOrder, store
  <2>8. StoreOK'
    BY <2>2 DEF TypeOK, StoreOK, store
  <2>9. TypeOK'
    BY <1>5, <2>1, <2>2, <2>8 DEF TypeOK, TapDirect, server
  <2>10. Harmless
    BY <2>1, <2>2, <2>3, <2>4 DEF Harmless
  <2> QED
    BY <2>5, <2>6, <2>7, <2>9, <2>10
<1> QED
  BY <1>4, <1>5

LEMMA DrainSendsKeeps ==
  ASSUME IInv, NEW a \in Actions, NEW s \in Slots, DrainSends(s, a)
  PROVE  PhoneKept
<1> USE DEF IInv, ServerInv, PhoneInv, PhoneKept
<1> DEFINE x == [Free EXCEPT !.pc = "gate", !.act = a, !.by = "drain", !.heard = TRUE]
<1>1. x \in RequestType /\ x.pc = "gate" /\ x.act = a /\ x.by = "drain" /\ x.heard
  BY DEF Free, RequestType, Answers, Running
<1>2. req' = [req EXCEPT ![s] = x] /\ UNCHANGED <<store, status, server>>
      /\ runner' = [runner EXCEPT !.at = "wait"] /\ runner.at = "send" /\ Oldest(a)
  BY DEF DrainSends, Send
<1> HIDE DEF x
<1>3. \A u \in Slots : req'[u] = IF u = s THEN x ELSE req[u]
  BY <1>2 DEF TypeOK
<1>4. runner' \in RunnerType /\ runner'.at = "wait" /\ runner'.rest = runner.rest
  BY <1>2 DEF TypeOK, RunnerType
<1>5. RunnerInv'
  BY <1>2, <1>4 DEF RunnerInv, store
<1>6. a \in queue \ permanent /\ status[a] = "queued"
  BY <1>2 DEF RunnerInv, Oldest, HeardInv
<1>7. HeardInv'
  <2>1. \A u \in Slots : DrainWaits(u)' => u = s
    BY <1>2, <1>3 DEF DrainWaits, Live, HeardInv
  <2>2. Oldest(a)'
    BY <1>2, <1>4 DEF Oldest, store
  <2>3. \A u \in Slots : DirectWaits(u)' => DirectWaits(u) /\ req'[u] = req[u]
    BY <1>1, <1>3 DEF DirectWaits, Live
  <2>4. \A u \in Slots : Live(u)' /\ req'[u].by = "drain" =>
          status'[req'[u].act] \in {"queued", "confirmed", "dismissed"}
    BY <1>1, <1>2, <1>3, <1>6 DEF HeardInv, Live
  <2>5. \A u \in Slots : req'[u].pc = "answered" => req'[u].heard
    BY <1>1, <1>3 DEF HeardInv
  <2>6. \A u \in Slots : DrainWaits(u)' => runner'.at = "wait" /\ Oldest(req[u].act)'
    <3>1. Oldest(req[s].act)' <=> Oldest(a)'
      BY <1>1, <1>3 DEF Oldest
    <3> QED
      BY <1>4, <2>1, <2>2, <3>1
  <2> QED
    BY <1>2, <2>1, <2>3, <2>4, <2>5, <2>6 DEF HeardInv, store
<1>8. ReplayKeepsOrder'
  <2>1. \A b \in queue : enqueuedAt[b] < enqueuedAt[a] => b \in permanent
    <3> SUFFICES ASSUME NEW b \in queue \ permanent, enqueuedAt[b] < enqueuedAt[a] PROVE FALSE
      OBVIOUS
    <3>1. enqueuedAt[b] \in Nat /\ enqueuedAt[a] \in Nat
      BY DEF TypeOK, StoreOK
    <3>2. b \notin runner.rest
      BY <1>2, <3>1 DEF Oldest
    <3>3. enqueuedAt[a] < enqueuedAt[b]
      BY <1>2, <3>2 DEF Oldest, RunnerInv
    <3> QED
      BY <3>1, <3>3
  <2> QED
    BY <1>1, <1>2, <1>3, <2>1 DEF ReplayKeepsOrder, store
<1>9. StoreOK'
  BY <1>2 DEF TypeOK, StoreOK, store
<1>10. TypeOK'
  BY <1>1, <1>2, <1>4, <1>9 DEF TypeOK, DrainSends, server
<1>11. Harmless
  BY <1>1, <1>2, <1>3 DEF Harmless
<1> QED
  BY <1>5, <1>7, <1>8, <1>10, <1>11

\* The page, the browser and the runner.
Quiet ==
  GoOffline \/ GoOnline \/ Shut \/ Reopen \/ ReadQueue \/ EndPass \/ RetryTimer

LEMMA QuietKeeps ==
  ASSUME IInv, Quiet PROVE PhoneKept
<1> USE DEF IInv, ServerInv, PhoneInv, PhoneKept
<1>1. /\ status \in [Actions -> {"new", "direct", "queued", "confirmed", "refused", "dismissed", "dropped"}]
      /\ req \in [Slots -> RequestType] /\ runner \in RunnerType /\ StoreOK
      /\ \A u \in Slots : req[u].pc = "answered" => req[u].heard
  BY DEF TypeOK, HeardInv
<1>2. UNCHANGED <<store, server>>
  BY DEF Quiet, GoOffline, GoOnline, Shut, Reopen, ReadQueue, EndPass, RetryTimer
<1>3. StoreOK'
  BY <1>1, <1>2 DEF StoreOK, store
<1>4. /\ runner' \in RunnerType
      /\ runner'.at \in {"send", "wait"} =>
           \/ runner'.at = runner.at /\ runner'.rest = runner.rest
           \/ runner'.at = "send" /\ runner'.rest = queue \ permanent
      /\ \/ runner'.at = runner.at /\ runner'.rest = runner.rest
         \/ runner.at \notin {"send", "wait"}
         \/ Shut
  <2>1. CASE GoOffline
    BY <1>1, <2>1 DEF GoOffline
  <2>2. CASE GoOnline \/ Reopen \/ RetryTimer
    BY <1>1, <2>2, TriggerTyped DEF GoOnline, Reopen, RetryTimer
  <2>3. CASE Shut
    <3>1. runner' = Idle /\ Idle.at = "idle" /\ Idle \in RunnerType
      BY <1>1, <2>3, TriggerTyped DEF Shut, Idle
    <3> QED
      BY <2>3, <3>1
  <2>4. CASE ReadQueue
    BY <1>1, <2>4 DEF ReadQueue, Pass, RunnerType, StoreOK
  <2>5. CASE EndPass
    <3>1. runner.at = "end"
      BY <2>5 DEF EndPass
    <3>2. [runner EXCEPT !.at = "read", !.again = FALSE] \in RunnerType
          /\ [runner EXCEPT !.at = "read", !.again = FALSE].at = "read"
      BY <1>1 DEF RunnerType
    <3>3. [Idle EXCEPT !.last = runner.hint] \in RunnerType
          /\ [Idle EXCEPT !.last = runner.hint].at = "idle"
      BY <1>1 DEF RunnerType, Idle
    <3> QED
      BY <2>5, <3>1, <3>2, <3>3 DEF EndPass
  <2> QED
    BY <2>1, <2>2, <2>3, <2>4, <2>5 DEF Quiet
<1>5. RunnerInv'
  BY <1>2, <1>4 DEF RunnerInv, store
<1>6. CASE ~Shut
  <2>1. UNCHANGED <<req, status>>
    BY <1>6 DEF Quiet, GoOffline, GoOnline, Reopen, ReadQueue, EndPass, RetryTimer
  <2>2. Quieter
    BY <1>1, <2>1 DEF Quieter, Live
  <2>3. \A u \in Slots : DrainWaits(u)' => runner'.at = runner.at /\ runner'.rest = runner.rest
    BY <1>4, <1>6, <2>1 DEF DrainWaits, Live, HeardInv
  <2>4. \A u \in Slots : DirectWaits(u)' => status'[req'[u].act] = "direct"
    BY <2>1 DEF DirectWaits, Live, HeardInv
  <2>5. PhoneInv'
    BY <1>2, <1>5, <2>1, <2>2, <2>3, <2>4, QuietKeepsPhoneInv
  <2>6. TypeOK'
    <3>1. left' = left \/ Fault
      BY <1>6 DEF Quiet, GoOffline, GoOnline, Reopen, ReadQueue, EndPass, RetryTimer
    <3>2. left' \in Nat
      BY <3>1 DEF TypeOK, Fault
    <3>3. open' \in BOOLEAN /\ onLine' \in BOOLEAN /\ believed' \in BOOLEAN
      BY <1>6 DEF TypeOK, Quiet, GoOffline, GoOnline, Reopen, ReadQueue, EndPass, RetryTimer
    <3> QED
      BY <1>2, <1>3, <1>4, <2>1, <3>2, <3>3 DEF TypeOK, server
  <2>7. Harmless
    BY <1>1, <1>2, <2>1 DEF Harmless
  <2> QED
    BY <2>5, <2>6, <2>7
<1>7. CASE Shut
  <2>1. /\ \A u \in Slots : req'[u] = IF req[u].pc \in Running THEN [req[u] EXCEPT !.heard = FALSE] ELSE Free
        /\ \A a \in Actions : status'[a] = IF status[a] = "direct" THEN "dropped" ELSE status[a]
        /\ DOMAIN req' = Slots
    BY <1>7 DEF Shut
  <2>2. Free \in RequestType /\ Free.pc = "free"
    BY DEF Free, RequestType, Answers
  <2>3. \A u \in Slots : /\ req'[u] \in RequestType
                         /\ \/ req'[u].pc = "free"
                            \/ /\ req'[u].pc = req[u].pc /\ req'[u].pc \in Running
                               /\ req'[u].act = req[u].act /\ req'[u].by = req[u].by
                               /\ req'[u].answer = req[u].answer /\ ~req'[u].heard
    <3> TAKE u \in Slots
    <3>1. CASE req[u].pc \in Running
      <4>1. req'[u] = [req[u] EXCEPT !.heard = FALSE] /\ req[u] \in RequestType
        BY <1>1, <2>1, <3>1
      <4> QED
        BY <3>1, <4>1 DEF RequestType
    <3>2. CASE req[u].pc \notin Running
      BY <2>1, <2>2, <3>2
    <3> QED
      BY <3>1, <3>2
  <2>4. Quieter
    BY <2>3 DEF Quieter, Live, Running, Holding
  <2>5. \A u \in Slots : ~DrainWaits(u)' /\ ~DirectWaits(u)'
    BY <2>3 DEF DrainWaits, DirectWaits, Live
  <2>6. \A a \in Actions : status[a] \in {"queued", "confirmed", "dismissed"} => status'[a] = status[a]
    BY <2>1
  <2>7. PhoneInv'
    BY <1>2, <1>5, <2>4, <2>5, <2>6, QuietKeepsPhoneInv
  <2>8. TypeOK'
    <3>1. left' \in Nat
      BY <1>7 DEF TypeOK, Shut, Fault
    <3>2. open' = FALSE /\ believed' = FALSE /\ UNCHANGED onLine
      BY <1>7 DEF Shut
    <3>3. req' \in [Slots -> RequestType]
      BY <1>7, <2>3 DEF Shut
    <3>4. status' \in [Actions -> {"new", "direct", "queued", "confirmed", "refused", "dismissed", "dropped"}]
      BY <1>1, <1>7 DEF Shut
    <3> QED
      BY <1>2, <1>3, <1>4, <3>1, <3>2, <3>3, <3>4 DEF TypeOK, server
  <2>9. Harmless
    BY <1>2, <2>1, <2>3 DEF Harmless
  <2> QED
    BY <2>7, <2>8, <2>9
<1> QED
  BY <1>6, <1>7

LEMMA DismissKeeps ==
  ASSUME IInv, Dismiss PROVE PhoneKept
<1> USE DEF IInv, ServerInv, PhoneInv, PhoneKept
<1>1. /\ status \in [Actions -> {"new", "direct", "queued", "confirmed", "refused", "dismissed", "dropped"}]
      /\ req \in [Slots -> RequestType] /\ StoreOK /\ permanent \subseteq queue /\ queue \subseteq Actions
  BY DEF TypeOK, StoreOK
<1>2. /\ queue' = queue \ permanent /\ permanent' = {} /\ UNCHANGED <<clock, req, runner, server>>
      /\ \A a \in Actions : enqueuedAt'[a] = IF a \in permanent THEN 0 ELSE enqueuedAt[a]
      /\ \A a \in Actions : status'[a] = IF a \in permanent THEN "dismissed" ELSE status[a]
  BY <1>1 DEF Dismiss, Forget
<1>3. RunnerInv'
  BY <1>1, <1>2 DEF RunnerInv, TypeOK, StoreOK
<1>4. \A a \in permanent : status[a] = "queued"
  BY <1>1 DEF HeardInv
<1>5. \A u \in Slots : Live(u) => req[u].act \in Actions
  BY DEF ClaimInv, Live
<1>6. HeardInv'
  <2>1. \A u \in Slots : DrainWaits(u)' => DrainWaits(u) /\ runner'.at = "wait" /\ Oldest(req[u].act)'
    <3> SUFFICES ASSUME NEW u \in Slots, DrainWaits(u)'
                 PROVE  DrainWaits(u) /\ runner'.at = "wait" /\ Oldest(req[u].act)'
      OBVIOUS
    <3>1. DrainWaits(u) /\ req'[u] = req[u]
      BY <1>2 DEF DrainWaits, Live
    <3>2. runner.at = "wait" /\ Oldest(req[u].act)
      BY <3>1 DEF HeardInv
    <3>3. runner.rest \subseteq queue \ permanent
      BY <3>2 DEF RunnerInv
    <3> QED
      BY <1>1, <1>2, <3>1, <3>2, <3>3 DEF Oldest
  <2>2. \A u \in Slots : DirectWaits(u)' => DirectWaits(u) /\ status'[req'[u].act] = "direct"
    BY <1>2, <1>4, <1>5 DEF DirectWaits, Live, HeardInv
  <2>3. \A u \in Slots : Live(u)' /\ req'[u].by = "drain" =>
          status'[req'[u].act] \in {"queued", "confirmed", "dismissed"}
    BY <1>2, <1>5 DEF HeardInv, Live
  <2>4. \A a \in queue' : status'[a] = "queued"
    BY <1>1, <1>2 DEF HeardInv
  <2>5. \A u, v \in Slots : DirectWaits(u)' /\ DirectWaits(v)' /\ req'[u].act = req'[v].act => u = v
    BY <1>2, <2>2 DEF HeardInv
  <2> QED
    BY <1>2, <2>1, <2>2, <2>3, <2>4, <2>5 DEF HeardInv
<1>7. ReplayKeepsOrder'
  BY <1>1, <1>2 DEF ReplayKeepsOrder
<1>8. StoreOK'
  BY <1>1, StoreStepsTyped DEF Dismiss
<1>9. TypeOK'
  <2>1. status' \in [Actions -> {"new", "direct", "queued", "confirmed", "refused", "dismissed", "dropped"}]
    BY <1>1 DEF Dismiss
  <2> QED
    BY <1>2, <1>8, <2>1 DEF TypeOK, Dismiss, server
<1>10. Harmless
  BY <1>2 DEF Harmless
<1> QED
  BY <1>3, <1>6, <1>7, <1>9, <1>10

\* An answer, a lost answer, or a request that never left.
LEMMA RepliesKeep ==
  ASSUME IInv, NEW s \in Slots, NEW b \in Actions, Hear(s) \/ Lose(s) \/ DrainNeverLeaves(b)
  PROVE  PhoneKept
<1> DEFINE a == req[s].act
<1> USE DEF IInv, ServerInv, PhoneInv, PhoneKept
<1>1. /\ status \in [Actions -> {"new", "direct", "queued", "confirmed", "refused", "dismissed", "dropped"}]
      /\ req \in [Slots -> RequestType] /\ runner \in RunnerType /\ StoreOK
      /\ \A u \in Slots : req[u].pc = "answered" => req[u].heard
  BY DEF TypeOK, HeardInv
<1>2. UNCHANGED <<open, onLine, server>> /\ left' \in Nat
  BY DEF Hear, Lose, DrainNeverLeaves, TypeOK, Fault
<1>3. Free \in RequestType /\ Free.pc = "free"
  BY DEF Free, RequestType, Answers
<1>4. \A u \in Slots : /\ req'[u] \in RequestType
                       /\ \/ req'[u].pc = "free" /\ u = s
                          \/ req'[u] = req[u] /\ (DrainNeverLeaves(b) \/ u # s)
                          \/ /\ req'[u].pc = req[u].pc /\ req'[u].pc # "answered" /\ u = s
                             /\ req'[u].act = req[u].act /\ req'[u].by = req[u].by
                             /\ req'[u].answer = req[u].answer /\ ~req'[u].heard
  <2>1. CASE DrainNeverLeaves(b)
    BY <1>1, <2>1 DEF DrainNeverLeaves
  <2>2. CASE req' = [req EXCEPT ![s] = Free]
    BY <1>1, <1>3, <2>2
  <2>3. CASE Lose(s) /\ req[s].pc # "answered"
    <3> DEFINE x == [req[s] EXCEPT !.heard = FALSE]
    <3>1. req' = [req EXCEPT ![s] = x]
      BY <2>3 DEF Lose
    <3>2. /\ x \in RequestType /\ x.pc = req[s].pc /\ x.act = a /\ x.by = req[s].by
          /\ x.answer = req[s].answer /\ ~x.heard
      BY <1>1 DEF RequestType
    <3> HIDE DEF x
    <3> QED
      BY <1>1, <2>3, <3>1, <3>2
  <2> QED
    BY <2>1, <2>2, <2>3 DEF Hear, Lose
<1>5. Quieter /\ req' \in [Slots -> RequestType]
  <2>1. Quieter
    BY <1>1, <1>4 DEF Quieter, Live
  <2>2. DOMAIN req' = Slots /\ req' = [u \in Slots |-> req'[u]]
    BY <1>1 DEF Hear, Lose, DrainNeverLeaves
  <2> QED
    BY <1>4, <2>1, <2>2
<1>6. Hear(s) \/ Lose(s) => ~DrainWaits(s)' /\ ~DirectWaits(s)'
  <2>1. Hear(s) \/ Lose(s) => req'[s].pc = "free" \/ ~req'[s].heard
    BY <1>1, <1>3 DEF Hear, Lose, RequestType
  <2> QED
    BY <2>1 DEF DrainWaits, DirectWaits, Live
<1>7. (Hear(s) \/ Lose(s)) => Live(s) /\ a \in Actions /\ req[s].heard
  BY <1>1 DEF Hear, Lose, Live, ClaimInv
<1>8. CASE /\ Hear(s) \/ Lose(s)
           /\ req[s].by = "drain"
  <2>1. DrainWaits(s)
    BY <1>7, <1>8 DEF DrainWaits
  <2>2. runner.at = "wait" /\ a \in runner.rest /\ \A u \in Slots : DrainWaits(u) => u = s
    BY <2>1 DEF HeardInv, Oldest
  <2>3. a \in queue /\ a \in Actions
    BY <1>7, <1>8, <2>2 DEF RunnerInv
  <2>4. \A u \in Slots : ~DrainWaits(u)'
    BY <1>5, <1>6, <1>8, <2>2 DEF Quieter, DrainWaits
  <2>5. /\ \/ Forget({a}) /\ status' = [status EXCEPT ![a] = "confirmed"] /\ GoesOn(a)
              /\ Hear(s) /\ req[s].answer = "ok"
           \/ \E failed \in BOOLEAN, hint \in {"none", "retry", "gaveUp"} :
                Bump(a, failed) /\ UNCHANGED status /\ (Stops(a, hint) \/ (failed /\ GoesOn(a)))
        /\ UNCHANGED believed
    <3>1. CASE Lose(s)
      BY <1>8, <3>1 DEF Lose, DrainThrows
    <3>2. CASE Hear(s) /\ req[s].answer = "ok"
      BY <1>8, <3>2 DEF Hear, DrainHears
    <3>3. CASE Hear(s) /\ req[s].answer \in {"slow", "busy"}
      BY <1>8, <3>3 DEF Hear, DrainHears
    <3>4. CASE Hear(s) /\ req[s].answer = "refused"
      BY <1>8, <3>4 DEF Hear, DrainHears
    <3>5. CASE Hear(s) /\ req[s].answer = "error"
      <4> DEFINE spent == attempts[a] + 1 >= MaxAttempts
      <4>1. Bump(a, spent) /\ Stops(a, IF spent THEN "gaveUp" ELSE "retry") /\ UNCHANGED <<status, believed>>
        BY <1>8, <3>5 DEF Hear, DrainHears
      <4>2. spent \in BOOLEAN
        OBVIOUS
      <4> HIDE DEF spent
      <4>3. CASE spent
        BY <4>1, <4>3 DEF Bump
      <4>4. CASE ~spent
        BY <4>1, <4>4 DEF Bump
      <4> QED
        BY <4>3, <4>4
    <3>6. req[s].answer \in {"ok", "slow", "busy", "refused", "error"}
      BY <1>1 DEF RequestType, Answers
    <3> QED
      BY <1>8, <3>1, <3>2, <3>3, <3>4, <3>5, <3>6
  <2>6. PhoneInv'
    BY <1>5, <2>2, <2>4, <2>5, DrainMovesOn
  <2>7. StoreOK' /\ runner' \in RunnerType
    BY <1>1, <2>3, <2>5, StoreStepsTyped, RunnerStepsTyped
  <2>9. status' \in [Actions -> {"new", "direct", "queued", "confirmed", "refused", "dismissed", "dropped"}]
    BY <1>1, <2>5
  <2>10. TypeOK'
    BY <1>2, <1>5, <2>5, <2>7, <2>9 DEF TypeOK, server
  <2>11. Harmless
    <3>1. \A c \in Actions : status'[c] = status[c] \/ (c = a /\ Hear(s) /\ req[s].answer = "ok")
      BY <1>1, <2>5
    <3>2. Hear(s) /\ req[s].answer = "ok" => applied[a] >= 1
      BY DEF Hear, CountInv
    <3> QED
      BY <1>2, <1>4, <3>1, <3>2 DEF Harmless
  <2> QED
    BY <2>6, <2>10, <2>11
<1>9. CASE /\ Hear(s) \/ Lose(s)
           /\ req[s].by # "drain"
  <2>1. DirectWaits(s) /\ status[a] = "direct"
    BY <1>1, <1>7, <1>9 DEF DirectWaits, RequestType, HeardInv
  <2>2. \A u \in Slots : DirectWaits(u) /\ req[u].act = a => u = s
    BY <2>1 DEF HeardInv
  <2>3. \A u \in Slots : /\ DirectWaits(u)' => DirectWaits(u) /\ req'[u] = req[u] /\ req'[u].act # a
                         /\ DrainWaits(u)' => DrainWaits(u)
    BY <1>4, <1>5, <1>6, <1>9, <2>2 DEF Quieter, DirectWaits, DrainWaits, Live
  <2>4. CASE Hear(s)
    <3>1. DirectHears(a, req[s].answer) /\ UNCHANGED <<store, believed, runner>>
      BY <1>9, <2>4 DEF Hear, DirectHears
    <3>2. \A c \in Actions : status'[c] = IF c # a THEN status[c]
                                          ELSE IF req[s].answer = "ok" THEN "confirmed" ELSE "refused"
      BY <1>1, <1>7, <2>4, <3>1 DEF DirectHears
    <3>3. RunnerInv'
      BY <3>1 DEF RunnerInv, store
    <3>4. \A u \in Slots : DirectWaits(u)' => status'[req'[u].act] = "direct"
      BY <2>3, <3>2 DEF HeardInv, ClaimInv, DirectWaits, Live
    <3>5. PhoneInv'
      BY <1>5, <2>1, <3>1, <3>2, <3>3, <3>4, QuietKeepsPhoneInv
    <3>6. StoreOK'
      BY <1>1, <3>1 DEF StoreOK, store
    <3>7. status' \in [Actions -> {"new", "direct", "queued", "confirmed", "refused", "dismissed", "dropped"}]
      BY <1>1, <3>1 DEF DirectHears
    <3>8. TypeOK'
      BY <1>2, <1>5, <3>1, <3>6, <3>7 DEF TypeOK, server
    <3>9. Harmless
      <4>1. req[s].answer = "ok" => applied[a] >= 1
        BY <2>4 DEF Hear, CountInv
      <4> QED
        BY <1>2, <1>4, <3>2, <4>1 DEF Harmless
    <3> QED
      BY <3>5, <3>8, <3>9
  <2>5. CASE Lose(s)
    <3>1. Enqueue(a) /\ status' = [status EXCEPT ![a] = "queued"] /\ believed' = FALSE
          /\ UNCHANGED <<runner>>
      BY <1>9, <2>5 DEF Lose, EnqueueAfterThrow
    <3>2. PhoneInv'
      BY <1>5, <1>7, <2>1, <2>3, <2>5, <3>1, EnqueueKeepsPhoneInv
    <3>3. StoreOK'
      BY <1>1, <1>7, <2>5, <3>1, StoreStepsTyped
    <3>4. status' \in [Actions -> {"new", "direct", "queued", "confirmed", "refused", "dismissed", "dropped"}]
      BY <1>1, <3>1
    <3>5. TypeOK'
      BY <1>1, <1>2, <1>5, <3>1, <3>3, <3>4 DEF TypeOK, server
    <3>6. Harmless
      BY <1>1, <1>2, <1>4, <3>1 DEF Harmless
    <3> QED
      BY <3>2, <3>5, <3>6
  <2> QED
    BY <1>9, <2>4, <2>5
<1>10. CASE DrainNeverLeaves(b)
  <2>1. /\ runner.at = "send" /\ b \in runner.rest
        /\ Bump(b, FALSE) /\ Stops(b, "retry") /\ UNCHANGED <<believed, status, req>>
    BY <1>10 DEF DrainNeverLeaves, Oldest, DrainThrows
  <2>2. \A u \in Slots : ~DrainWaits(u)'
    BY <2>1 DEF DrainWaits, Live, HeardInv
  <2>3. PhoneInv'
    BY <1>5, <2>1, <2>2, DrainMovesOn
  <2>4. b \in queue
    BY <2>1 DEF RunnerInv
  <2>5. StoreOK' /\ runner' \in RunnerType
    BY <1>1, <2>1, <2>4, StoreStepsTyped, RunnerStepsTyped
  <2>6. TypeOK'
    BY <1>2, <1>5, <2>1, <2>5 DEF TypeOK, server
  <2>7. Harmless
    BY <1>2, <1>4, <2>1 DEF Harmless
  <2> QED
    BY <2>3, <2>6, <2>7
<1> QED
  BY <1>8, <1>9, <1>10

LEMMA StutterKeepsIInv == ASSUME IInv, UNCHANGED vars PROVE IInv'
<1> USE DEF vars, phone, store, server, IInv
<1>1. TypeOK'
  BY DEF TypeOK, StoreOK
<1>2. ServerInv'
  BY DEF ServerInv, ClaimInv, CountInv, Owner, AppliedOnce, ConfirmedMeansApplied
<1>3. RunnerInv' /\ ReplayKeepsOrder'
  BY DEF PhoneInv, RunnerInv, ReplayKeepsOrder
<1>4. HeardInv'
  BY DEF PhoneInv, HeardInv, DrainWaits, DirectWaits, Live, Oldest
<1> QED
  BY <1>1, <1>2, <1>3, <1>4 DEF PhoneInv

LEMMA NextKeepsIInv == IInv /\ [Next]_vars => IInv'
<1> SUFFICES ASSUME IInv, [Next]_vars PROVE IInv'
  OBVIOUS
<1>1. ASSUME PhoneKept PROVE IInv'
  BY <1>1, HarmlessKeepsServerInv DEF IInv, PhoneKept
<1>2. ASSUME NEW s \in Slots, Serve(s) \/ Kill(s) PROVE IInv'
  BY <1>2, ServerShape, ServerKeepsPhone, ServerKeepsServerInv, ServerKeepsTypeOK DEF IInv, PhoneInv
<1>3. ASSUME NEW s \in Slots, NEW a \in Actions,
             Hear(s) \/ Lose(s) \/ DrainNeverLeaves(a) PROVE IInv'
  BY <1>1, <1>3, RepliesKeep
<1>4. ASSUME NEW s \in Slots, Hear(s) \/ Lose(s) PROVE IInv'
  <2>1. req[s].act \in Actions
    BY <1>4 DEF IInv, ServerInv, ClaimInv, Hear, Lose
  <2> QED
    BY <1>3, <1>4, <2>1
<1>5. ASSUME NEW a \in Actions, DrainNeverLeaves(a) PROVE IInv'
  BY <1>3, <1>5, OfflineAssumption
<1>6. ASSUME NEW a \in Actions, NEW s \in Slots, DrainSends(s, a) PROVE IInv'
  BY <1>1, <1>6, DrainSendsKeeps
<1>7. CASE Quiet \/ Dismiss
  BY <1>1, <1>7, QuietKeeps, DismissKeeps
<1>8. ASSUME NEW a \in Actions, TapQueued(a) \/ DirectNeverLeaves(a) \/ \E s \in Slots : TapDirect(a, s)
      PROVE  IInv'
  BY <1>1, <1>8, TapsKeep, OfflineAssumption
<1>9. CASE UNCHANGED vars
  BY <1>9, StutterKeepsIInv
<1> QED
  BY <1>2, <1>4, <1>5, <1>6, <1>7, <1>8, <1>9 DEF Next, Drain, Quiet

LEMMA SpecImpliesIInv == Spec => []IInv
BY InitEstablishesIInv, NextKeepsIInv, PTL DEF Spec

\* The phone's queue, the runner, the requests and the claims keep their types;
\* in particular only an action still in the queue is marked as failed for good
\* (queue.ts:181-191), for any number of actions, requests, attempts and faults.
THEOREM TypeCorrect == Spec => []TypeOK
<1>1. IInv => TypeOK
  BY DEF IInv
<1> QED
  BY <1>1, SpecImpliesIInv, PTL

\* claimOfflineAction, releaseOfflineActionClaim and completeOfflineActionClaim
\* (offline-action-replay.ts:26-211): whatever is lost, killed or sent again, an
\* action's write takes effect once, plus once for each time the database hid it.
THEOREM AppliedAtMostOnce == Spec => []AppliedOnce
<1>1. IInv => AppliedOnce
  BY DEF IInv, ServerInv
<1> QED
  BY <1>1, SpecImpliesIInv, PTL

\* What the phone reports as done (queue.ts:267-272) has been written, though the
\* answer it believes may come from the lookup of a claim another request made.
THEOREM ConfirmedWasApplied == Spec => []ConfirmedMeansApplied
<1>1. IInv => ConfirmedMeansApplied
  BY DEF IInv, ServerInv
<1> QED
  BY <1>1, SpecImpliesIInv, PTL

\* drainQueue (queue.ts:239-370) and enqueueIfOffline (use-offline-sync.ts:165-215):
\* the drain never has a request under way that overtakes older work which may
\* still be replayed.
THEOREM OrderKept == Spec => []ReplayKeepsOrder
<1>1. IInv => ReplayKeepsOrder
  BY DEF IInv, PhoneInv
<1> QED
  BY <1>1, SpecImpliesIInv, PTL

=============================================================================
