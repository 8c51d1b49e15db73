--------------------------- MODULE OfflineRoomWork ---------------------------
(***************************************************************************)
(* A housekeeper's room actions from the phone to the database.            *)
(*                                                                         *)
(* The phone sends an action directly, or, when it is offline or older     *)
(* actions wait, puts it in a durable queue that one runner replays in     *)
(* order.  The phone cannot tell a request that never arrived from an      *)
(* answer that was lost, so every action carries an id that the server     *)
(* claims before it writes: offline_action_replays.  The endpoints that    *)
(* claim are add-note, mark-for-inspection, structured-issue and           *)
(* report-found-item.                                                      *)
(*                                                                         *)
(* The connection, the database, the platform and the page may fail at     *)
(* any step, MaxFaults times in all.                                       *)
(***************************************************************************)
EXTENDS Integers, FiniteSets

CONSTANTS
  Actions,      \* actions the housekeeper may take, each with its own id
  Slots,        \* requests that can be in flight or running at a time
  MaxAttempts,  \* drainQueue's maxAttempts, five in the code
  MaxFaults,    \* how many faults: bounds the state space only
  NoAction      \* no action

ASSUME OfflineAssumption ==
  /\ MaxAttempts \in Nat \ {0}
  /\ MaxFaults \in Nat
  /\ NoAction \notin Actions /\ Slots # {}

VARIABLES
  queue,     \* the ids in the phone's IndexedDB store
  enqueuedAt, attempts, permanent,   \* columns of its entries
  clock,     \* Date.now(), as the number of enqueues so far
  open,      \* the page is open
  onLine,    \* navigator.onLine
  believed,  \* the hook's state.online
  runner,    \* the drain: where it is and what is left of its pass
  status,    \* what became of each action on the phone
  req,       \* the requests
  claims,    \* offline_action_replays
  applied,   \* how often the action's write took effect
  mislaid,   \* how often it did and the server was told it did not
  left       \* faults still to come

store  == <<queue, enqueuedAt, attempts, permanent, clock>>
phone  == <<store, open, onLine, believed, runner, status>>
server == <<claims, applied, mislaid>>
vars   == <<phone, req, server, left>>

Answers  == {"ok", "slow", "refused", "error", "busy"}   \* 2xx, 429, 4xx, 5xx, 503 + Retry-After
Holding  == {"work", "release", "complete"}              \* places that own the claim
Running  == Holding \cup {"gate", "claim", "lookup"}
Free     == [pc |-> "free", act |-> NoAction, by |-> "direct", heard |-> FALSE, answer |-> "ok"]

RunnerType == [at : {"idle", "read", "send", "wait", "end"}, rest : SUBSET Actions,
               again : BOOLEAN, hint : {"none", "retry", "gaveUp"},
               last : {"none", "retry", "gaveUp"}]
RequestType == [pc : Running \cup {"free", "answered"}, act : Actions \cup {NoAction},
                by : {"drain", "direct"}, heard : BOOLEAN, answer : Answers]
StoreOK ==
  /\ queue \subseteq Actions /\ permanent \subseteq queue
  /\ enqueuedAt \in [Actions -> Nat] /\ clock \in Nat
  /\ attempts \in [Actions -> 0..MaxAttempts]

TypeOK ==
  /\ StoreOK
  /\ open \in BOOLEAN /\ onLine \in BOOLEAN /\ believed \in BOOLEAN
  /\ runner \in RunnerType
  /\ status \in [Actions -> {"new", "direct", "queued", "confirmed", "refused", "dismissed", "dropped"}]
  /\ req \in [Slots -> RequestType]
  /\ claims \in [Actions -> {"none", "pending", "done"}]
  /\ applied \in [Actions -> Nat] /\ mislaid \in [Actions -> Nat]
  /\ left \in Nat

Idle == [at |-> "idle", rest |-> {}, again |-> FALSE, hint |-> "none", last |-> "none"]

Init ==
  /\ queue = {} /\ permanent = {} /\ clock = 0
  /\ enqueuedAt = [a \in Actions |-> 0] /\ attempts = [a \in Actions |-> 0]
  /\ open = TRUE /\ onLine \in BOOLEAN /\ believed = onLine
  /\ runner = [Idle EXCEPT !.at = "read"]
  /\ status = [a \in Actions |-> "new"]
  /\ req = [s \in Slots |-> Free]
  /\ claims = [a \in Actions |-> "none"]
  /\ applied = [a \in Actions |-> 0] /\ mislaid = [a \in Actions |-> 0]
  /\ left = MaxFaults

Fault == left > 0 /\ left' = left - 1

(***************************************************************************)
(* The queue.                                                              *)
(***************************************************************************)
Eligible(a) == a \in queue \ permanent
OneMore(n) == IF n < MaxAttempts THEN n + 1 ELSE n

\* enqueueAction, under the action's id; entries are never enqueued twice.
Enqueue(a) ==
  /\ queue' = queue \cup {a}
  /\ clock' = clock + 1 /\ enqueuedAt' = [enqueuedAt EXCEPT ![a] = clock + 1]
  /\ UNCHANGED <<attempts, permanent>>

\* updateAction: one more attempt; a failure for good or not.
Bump(a, failed) ==
  /\ attempts' = [attempts EXCEPT ![a] = OneMore(@)]
  /\ permanent' = IF failed THEN permanent \cup {a} ELSE permanent
  /\ UNCHANGED <<queue, enqueuedAt, clock>>

\* Mutant: the mark of a failure outlives its entry.
ForgetId(S) ==
  /\ queue' = queue \ S
  /\ attempts' = [a \in Actions |-> IF a \in S THEN 0 ELSE attempts[a]]
  /\ enqueuedAt' = [a \in Actions |-> IF a \in S THEN 0 ELSE enqueuedAt[a]]
  /\ UNCHANGED <<permanent, clock>>

\* removeAction.
Forget(S) ==
  /\ queue' = queue \ S /\ permanent' = permanent \ S
  /\ attempts' = [a \in Actions |-> IF a \in S THEN 0 ELSE attempts[a]]
  /\ enqueuedAt' = [a \in Actions |-> IF a \in S THEN 0 ELSE enqueuedAt[a]]
  /\ UNCHANGED clock

\* Mutant: a trigger during a pass is dropped.
TriggerIfIdle(r) == IF r.at = "idle" THEN [Idle EXCEPT !.at = "read", !.last = r.last] ELSE r

\* triggerDrain: start a pass, or have the running one followed by another.
Trigger(r) == IF r.at = "idle" THEN [Idle EXCEPT !.at = "read", !.last = r.last]
                               ELSE [r EXCEPT !.again = TRUE]

(***************************************************************************)
(* The housekeeper and the page.                                           *)
(***************************************************************************)
Send(s, a, who) == req[s].pc = "free" /\ req' = [req EXCEPT ![s] =
                     [Free EXCEPT !.pc = "gate", !.act = a, !.by = who, !.heard = TRUE]]

\* No connection, or older work is waiting: behind it, and kick a drain.
TapQueued(a) ==
  /\ open /\ status[a] = "new" /\ (~onLine \/ queue # {})
  /\ Enqueue(a)
  /\ runner' = IF onLine THEN Trigger(runner) ELSE runner
  /\ status' = [status EXCEPT ![a] = "queued"]
  /\ UNCHANGED <<open, onLine, believed, req, server, left>>

TapDirect(a, s) ==
  /\ open /\ status[a] = "new" /\ onLine /\ queue = {}
  /\ Send(s, a, "direct")
  /\ status' = [status EXCEPT ![a] = "direct"]
  /\ UNCHANGED <<store, open, onLine, believed, runner, server, left>>

\* A direct send threw: queue it under the SAME id; nothing starts a drain.
EnqueueAfterThrow(a) ==
  /\ Enqueue(a)
  /\ believed' = FALSE
  /\ status' = [status EXCEPT ![a] = "queued"]

DirectNeverLeaves(a) ==
  /\ open /\ status[a] = "new" /\ onLine /\ queue = {}
  /\ Fault
  /\ EnqueueAfterThrow(a)
  /\ UNCHANGED <<open, onLine, runner, req, server>>

GoOffline ==
  /\ onLine /\ Fault
  /\ onLine' = FALSE /\ believed' = FALSE
  /\ UNCHANGED <<store, open, runner, status, req, server>>

GoOnline ==
  /\ ~onLine
  /\ onLine' = TRUE
  /\ believed' = open
  /\ runner' = IF open THEN Trigger(runner) ELSE runner
  /\ UNCHANGED <<store, open, status, req, server, left>>

\* The page is closed: nobody hears the requests under way.
Shut ==
  /\ open /\ Fault
  /\ open' = FALSE /\ believed' = FALSE /\ runner' = Idle
  /\ status' = [a \in Actions |-> IF status[a] = "direct" THEN "dropped" ELSE status[a]]
  /\ req' = [s \in Slots |-> IF req[s].pc \in Running THEN [req[s] EXCEPT !.heard = FALSE] ELSE Free]
  /\ UNCHANGED <<store, onLine, server>>

Reopen ==
  /\ ~open
  /\ open' = TRUE /\ believed' = onLine /\ runner' = Trigger(runner)
  /\ UNCHANGED <<store, onLine, status, req, server, left>>

\* dismissFailures drops the entries that failed for good.
Dismiss ==
  /\ open /\ permanent # {}
  /\ Forget(permanent)
  /\ status' = [a \in Actions |-> IF a \in permanent THEN "dismissed" ELSE status[a]]
  /\ UNCHANGED <<open, onLine, believed, runner, req, server, left>>

(***************************************************************************)
(* The drain.                                                              *)
(***************************************************************************)
\* What the pass will replay: the entries that have not failed for good.
Pass == queue \ permanent

ReadQueue ==
  /\ runner.at = "read"
  /\ runner' = [runner EXCEPT !.at = IF Pass = {} THEN "end" ELSE "send",
                              !.rest = Pass, !.again = FALSE, !.hint = "none"]
  /\ UNCHANGED <<store, open, onLine, believed, status, req, server, left>>

\* The next of the pass, in the order of enqueuedAt.
Oldest(a) == a \in runner.rest /\ \A b \in runner.rest : enqueuedAt[a] <= enqueuedAt[b]

DrainSends(s, a) ==
  /\ runner.at = "send" /\ onLine /\ Oldest(a)
  /\ Send(s, a, "drain")
  /\ runner' = [runner EXCEPT !.at = "wait"]
  /\ UNCHANGED <<store, open, onLine, believed, status, server, left>>

\* The pass goes on behind the action, or stops at it.
GoesOn(a) == runner' = [runner EXCEPT !.rest = @ \ {a},
                                      !.at = IF runner.rest = {a} THEN "end" ELSE "send"]

\* Mutant: continue where the code breaks.
StopsNot(a, hint) == runner' = [runner EXCEPT !.rest = @ \ {a}, !.hint = hint,
                                  !.at = IF runner.rest = {a} THEN "end" ELSE "send"]

\* A transient failure ends the pass.
Stops(a, hint) == runner' = [runner EXCEPT !.rest = {}, !.at = "end", !.hint = hint]

\* fetch throws: keep it, back off.
DrainThrows(a) == Bump(a, FALSE) /\ Stops(a, "retry")

DrainNeverLeaves(a) ==
  /\ runner.at = "send" /\ Oldest(a)
  /\ IF onLine THEN Fault ELSE UNCHANGED left
  /\ DrainThrows(a)
  /\ UNCHANGED <<open, onLine, believed, status, req, server>>

\* The generation has moved on: another pass; else release the runner.
EndPass ==
  /\ runner.at = "end"
  /\ runner' = IF runner.again THEN [runner EXCEPT !.at = "read", !.again = FALSE]
                               ELSE [Idle EXCEPT !.last = runner.hint]
  /\ UNCHANGED <<store, open, onLine, believed, status, req, server, left>>

\* The backoff timer of a pass that stopped at a transient failure.
RetryTimer ==
  /\ open /\ onLine /\ believed /\ queue # {}
  /\ runner.at = "idle" /\ runner.last = "retry"
  /\ runner' = Trigger(runner)
  /\ UNCHANGED <<store, open, onLine, believed, status, req, server, left>>

(***************************************************************************)
(* Answers and lost answers.                                               *)
(***************************************************************************)
DrainHears(a, answer) ==
  /\ \/ /\ answer = "ok"
        /\ Forget({a})
        /\ status' = [status EXCEPT ![a] = "confirmed"]
        /\ GoesOn(a)
     \/ /\ answer \in {"slow", "busy"}
        /\ Bump(a, FALSE) /\ Stops(a, "retry") /\ UNCHANGED status
     \/ /\ answer = "refused"
        /\ Bump(a, TRUE) /\ GoesOn(a) /\ UNCHANGED status
     \/ /\ answer = "error"
        /\ LET spent == attempts[a] + 1 >= MaxAttempts
           IN Bump(a, spent) /\ Stops(a, IF spent THEN "gaveUp" ELSE "retry")
        /\ UNCHANGED status
  /\ UNCHANGED believed

DirectHears(a, answer) ==
  /\ status' = [status EXCEPT ![a] = IF answer = "ok" THEN "confirmed" ELSE "refused"]
  /\ UNCHANGED <<store, believed, runner>>

Hear(s) ==
  /\ req[s].pc = "answered"
  /\ IF req[s].by = "drain" THEN DrainHears(req[s].act, req[s].answer)
                            ELSE DirectHears(req[s].act, req[s].answer)
  /\ req' = [req EXCEPT ![s] = Free]
  /\ UNCHANGED <<open, onLine, server, left>>

\* The connection breaks: the phone's fetch throws, the server goes on.
Lose(s) ==
  /\ req[s].pc # "free" /\ req[s].heard
  /\ IF onLine THEN Fault ELSE UNCHANGED left
  /\ req' = [req EXCEPT ![s] = IF @.pc = "answered" THEN Free ELSE [@ EXCEPT !.heard = FALSE]]
  /\ IF req[s].by = "drain"
     THEN DrainThrows(req[s].act) /\ UNCHANGED <<believed, status>>
     ELSE EnqueueAfterThrow(req[s].act) /\ UNCHANGED runner
  /\ UNCHANGED <<open, onLine, server>>

(***************************************************************************)
(* The server: gateHousekeeperRequest, the claim, the write.               *)
(***************************************************************************)
Goto(s, pc) == req' = [req EXCEPT ![s].pc = pc]
Answer(s, answer) ==
  req' = [req EXCEPT ![s] = IF @.heard THEN [@ EXCEPT !.pc = "answered", !.answer = answer] ELSE Free]
Row(s, value) == claims' = [claims EXCEPT ![req[s].act] = value]

\* Rate limit, link token, an error in between.
Gate(s) ==
  /\ req[s].pc = "gate"
  /\ \/ Goto(s, "claim") /\ UNCHANGED left
     \/ Fault /\ \E answer \in {"slow", "refused"} : Answer(s, answer)
     \/ Fault /\ Answer(s, "error")
  /\ UNCHANGED <<phone, server>>

\* Mutant: a pending claim is taken for the request's own.
UnclaimedOrPending(s) == claims[req[s].act] # "done"

\* The primary key admits the insert.
Unclaimed(s) == claims[req[s].act] = "none"

\* claimOfflineAction's insert; its error may hide a row that was written.
Claim(s) ==
  /\ req[s].pc = "claim"
  /\ \/ /\ Unclaimed(s) /\ UNCHANGED left
        /\ Row(s, "pending") /\ Goto(s, "work")
     \/ /\ ~Unclaimed(s) /\ UNCHANGED <<left, claims>>
        /\ Goto(s, "lookup")
     \/ /\ Fault /\ Answer(s, "error")
        /\ \/ UNCHANGED claims
           \/ Unclaimed(s) /\ Row(s, "pending")
  /\ UNCHANGED <<phone, applied, mislaid>>

\* Mutant: the key is taken, so the action was done.
DedupedAtOnce(row) == "ok"

\* What a taken claim is answered with: its row may be gone, open or done.
Deduped(row) == IF row = "none" THEN "error" ELSE IF row = "pending" THEN "busy" ELSE "ok"

Lookup(s) ==
  /\ req[s].pc = "lookup"
  /\ \/ Answer(s, Deduped(claims[req[s].act])) /\ UNCHANGED left
     \/ Fault /\ Answer(s, "error")
  /\ UNCHANGED <<phone, server>>

\* Load the room and write.  A failed write may have taken effect.
Work(s) ==
  /\ req[s].pc = "work"
  /\ \/ /\ Goto(s, "complete")
        /\ applied' = [applied EXCEPT ![req[s].act] = @ + 1]
        /\ UNCHANGED <<mislaid, left>>
     \/ /\ \/ Fault /\ req' = [req EXCEPT ![s].pc = "release", ![s].answer = "error"]
           \/ Fault /\ req' = [req EXCEPT ![s].pc = "release", ![s].answer = "refused"]
        /\ UNCHANGED <<applied, mislaid>>
     \/ /\ Fault /\ req' = [req EXCEPT ![s].pc = "release", ![s].answer = "error"]
        /\ applied' = [applied EXCEPT ![req[s].act] = @ + 1]
        /\ mislaid' = [mislaid EXCEPT ![req[s].act] = @ + 1]
  /\ UNCHANGED <<phone, claims>>

Release(s) ==
  /\ req[s].pc = "release"
  /\ \/ Row(s, "none") /\ Answer(s, req[s].answer) /\ UNCHANGED left
     \/ Fault /\ Answer(s, "busy") /\ (UNCHANGED claims \/ Row(s, "none"))
  /\ UNCHANGED <<phone, applied, mislaid>>

\* Both updates of completeOfflineActionClaim may fail; the answer is ok.
Complete(s) ==
  /\ req[s].pc = "complete"
  /\ \/ Row(s, "done") /\ UNCHANGED left
     \/ Fault /\ UNCHANGED claims
  /\ Answer(s, "ok")
  /\ UNCHANGED <<phone, applied, mislaid>>

\* The platform ends the function: the phone gets a 5xx.
Kill(s) ==
  /\ req[s].pc \in Running /\ Fault
  /\ Answer(s, "error")
  /\ UNCHANGED <<phone, server>>

Serve(s) == Gate(s) \/ Claim(s) \/ Lookup(s) \/ Work(s) \/ Release(s) \/ Complete(s)
Drain ==
  \/ ReadQueue \/ EndPass
  \/ \E a \in Actions : DrainNeverLeaves(a) \/ \E s \in Slots : DrainSends(s, a)

Next ==
  \/ \E a \in Actions : TapQueued(a) \/ DirectNeverLeaves(a) \/ \E s \in Slots : TapDirect(a, s)
  \/ GoOffline \/ GoOnline \/ Shut \/ Reopen \/ Dismiss
  \/ Drain \/ RetryTimer
  \/ \E s \in Slots : Serve(s) \/ Hear(s) \/ Lose(s) \/ Kill(s)

Spec == Init /\ [][Next]_vars

\* Scripts and functions that are not killed go on, and timers fire.  Nobody
\* is obliged to tap, to open the page or to be online.
FairSpec ==
  /\ Spec /\ WF_vars(Drain) /\ WF_vars(RetryTimer)
  /\ \A s \in Slots : WF_vars(Serve(s)) /\ WF_vars(Hear(s))

(***************************************************************************)
(* Properties.                                                             *)
(***************************************************************************)
\* Direct send, replay, lost answers, kills and two requests with one id: the
\* write takes effect once, plus once for every time the database hid that it
\* had (the claim is then released, offline-action-replay.ts:113-116).
AppliedOnce == \A a \in Actions : applied[a] <= 1 + mislaid[a]

\* What the phone shows as done was done, though the answer may come from a
\* replay's lookup and not from the request that wrote.
ConfirmedMeansApplied ==
  \A a \in Actions : status[a] = "confirmed" => applied[a] >= 1

\* The drain sends an action only when everything queued before it has been
\* answered for good: room work is never overtaken by younger room work.
ReplayKeepsOrder ==
  \A s \in Slots : req[s].pc # "free" /\ req[s].by = "drain" /\ req[s].act \in queue =>
    \A a \in queue : enqueuedAt[a] < enqueuedAt[req[s].act] => a \in permanent

\* A claim nobody will complete or release any more.
Abandoned(a) ==
  claims[a] = "pending" /\ \A s \in Slots : ~(req[s].act = a /\ req[s].pc \in Holding)
Usable == open /\ onLine /\ believed

\* While the page is open and online, work that can be replayed is replayed:
\* no trigger, retry or late answer strands it.  Three things in the code do, and
\* are named: a claim left behind by a crash, which answers 503 for ever; a pass
\* that gave an action up at a 5xx, after which no timer is set; and a direct send
\* that threw, after which the hook believes it is offline (~believed) until the
\* browser reports a change.
QueueDrains ==
  \A a \in Actions :
    []<>(\/ ~Usable \/ ~Eligible(a)
         \/ \E b \in Actions : Abandoned(b)
         \/ runner.at = "idle" /\ runner.last = "gaveUp")
=============================================================================
