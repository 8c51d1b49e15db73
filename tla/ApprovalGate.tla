---------------------------- MODULE ApprovalGate ----------------------------
(***************************************************************************)
(* The approval gate of one assistant turn (agent_pending_actions).        *)
(*                                                                         *)
(* The model's turn proposes mutations.  The stream stages each as a card, *)
(* one insert at a time, then runs the turn's read-only calls inline and   *)
(* stops.  Every tap on a card is a request of its own, a RESOLVER: it     *)
(* claims the card, runs or declines the tool, records the tool result and,*)
(* when it finds every card of the turn resolved, claims the turn and      *)
(* resumes the model.  A new user message supersedes the open cards.       *)
(*                                                                         *)
(* Several resolvers, the stream and the new message run concurrently; any *)
(* of them may be killed between two database calls.                       *)
(***************************************************************************)
EXTENDS Integers, FiniteSets

CONSTANTS
  Cards,       \* the mutations the turn proposes
  Reads,       \* its read-only calls
  Staged,      \* the cards already staged when the model of the turn starts
  Expirable,   \* the cards whose ten minutes may pass
  Resolvers,   \* requests to resolve-action
  NewTurns     \* whether the user may send a new message

ASSUME GateAssumption ==
  /\ Cards \cap Reads = {}
  /\ Staged \subseteq Cards /\ Expirable \subseteq Cards
  /\ Staged # Cards => Staged = {}
  /\ NewTurns \in BOOLEAN

Calls == Cards \cup Reads

VARIABLES
  toStage,   \* cards the stream has yet to insert
  toRead,    \* inline calls the stream has yet to run
  status,    \* agent_pending_actions.status; "absent" before the insert
  due,       \* expires_at has passed
  stamped,   \* resume_claimed_at is not null
  ran,       \* how many times the card's tool was executed
  result,    \* the call's tool row: none, timely (next to its turn) or late
  closed,    \* another turn's row has followed the assistant turn's
  at,        \* where each resolver is
  card, decision, outcome,   \* what it resolves, how, and what came of it
  claimed,   \* the rows its resume claim stamped
  gaps,      \* the calls without a result in the history it resumed from
  turnAt,    \* where the new user message is
  swept,     \* the cards it superseded
  faulted    \* a database call failed or a process died

rows     == <<status, due, stamped>>
resolver == <<card, decision, outcome, claimed, gaps>>
stream   == <<toStage, toRead>>
newTurn  == <<turnAt, swept>>
vars == <<stream, rows, ran, result, closed, at, resolver, newTurn, faulted>>

Terminal == {"denied", "expired", "executed", "failed"}
Live == {"loaded", "expiring", "claimed", "revoked", "revokedSettled", "decided",
         "settled", "recorded", "checking", "stamping", "resuming", "loading",
         "following"}
Ended == {"refused", "waiting", "replied", "dead"}
Resuming == {"resuming", "loading", "following"}
Exists(c) == status[c] # "absent"

TypeOK ==
  /\ toStage \subseteq Cards /\ toRead \subseteq Reads
  /\ status \in [Cards -> {"absent", "pending", "approved"} \cup Terminal]
  /\ due \in [Cards -> BOOLEAN] /\ stamped \in [Cards -> BOOLEAN]
  /\ ran \in [Cards -> Nat]
  /\ result \in [Calls -> {"none", "timely", "late"}]
  /\ closed \in BOOLEAN
  /\ at \in [Resolvers -> {"idle"} \cup Live \cup Ended]
  /\ card \in [Resolvers -> Cards]
  /\ decision \in [Resolvers -> {"approve", "deny"}]
  /\ outcome \in [Resolvers -> Terminal]
  /\ claimed \in [Resolvers -> SUBSET Cards]
  /\ gaps \in [Resolvers -> SUBSET Calls]
  /\ turnAt \in {"idle", "sweeping", "ready", "done"}
  /\ swept \subseteq Cards
  /\ faulted \in BOOLEAN

\* The assistant turn is on disk (recordAssistantTurn precedes the gate).
Init ==
  /\ toStage = Cards \ Staged
  /\ toRead = Reads
  /\ status = [c \in Cards |-> IF c \in Staged THEN "pending" ELSE "absent"]
  /\ due = [c \in Cards |-> FALSE]
  /\ stamped = [c \in Cards |-> FALSE]
  /\ ran = [c \in Cards |-> 0]
  /\ result = [x \in Calls |-> "none"]
  /\ closed = FALSE
  /\ at = [q \in Resolvers |-> "idle"]
  /\ card \in [Resolvers -> Cards]
  /\ decision \in [Resolvers -> {"approve", "deny"}]
  /\ outcome = [q \in Resolvers |-> "failed"]
  /\ claimed = [q \in Resolvers |-> {}]
  /\ gaps = [q \in Resolvers |-> {}]
  /\ turnAt = "idle" /\ swept = {}
  /\ faulted = FALSE

Goto(q, p) == at' = [at EXCEPT ![q] = p]
SetStatus(S, s) == status' = [c \in Cards |-> IF c \in S THEN s ELSE status[c]]
Fault == faulted' = TRUE

\* The insert of a tool row: beside its assistant turn, or after other rows.
\* The unique index keeps the first row of a call.
RecordResults(S) ==
  result' = [x \in Calls |->
    IF x \in S /\ result[x] = "none" THEN IF closed THEN "late" ELSE "timely"
    ELSE result[x]]

----------------------------------------------------------------------------
(* The proposing stream *)

\* createPendingActions, through makePendingApprovalHandler.
Stage(c) ==
  /\ c \in toStage
  /\ toStage' = toStage \ {c}
  /\ SetStatus({c}, "pending")
  /\ UNCHANGED <<toRead, due, stamped, ran, result, closed, at, resolver,
                 newTurn, faulted>>

\* The insert throws: the runner reports it and goes on with the next card.
StageFails(c) ==
  /\ c \in toStage
  /\ toStage' = toStage \ {c}
  /\ Fault
  /\ UNCHANGED <<toRead, rows, ran, result, closed, at, resolver, newTurn>>

InlineRead(x) ==
  /\ toStage = {} /\ x \in toRead
  /\ toRead' = toRead \ {x}
  /\ RecordResults({x})
  /\ UNCHANGED <<toStage, rows, ran, closed, at, resolver, newTurn, faulted>>

\* A result cannot be saved or the client aborts: the loop stops and the drain
\* tries a synthetic result for each call that is left.
ReadsStop ==
  /\ toStage = {} /\ toRead # {}
  /\ toRead' = {}
  /\ \E S \in SUBSET toRead : RecordResults(S)
  /\ Fault
  /\ UNCHANGED <<toStage, rows, ran, closed, at, resolver, newTurn>>

StreamDies ==
  /\ toStage # {} \/ toRead # {}
  /\ toStage' = {} /\ toRead' = {}
  /\ Fault
  /\ UNCHANGED <<rows, ran, result, closed, at, resolver, newTurn>>

\* expires_at passes. Nothing happens to the row until somebody looks at it.
BecomesDue(c) ==
  /\ c \in Expirable /\ status[c] = "pending" /\ ~due[c]
  /\ due' = [due EXCEPT ![c] = TRUE]
  /\ UNCHANGED <<stream, status, stamped, ran, result, closed, at, resolver,
                 newTurn, faulted>>

----------------------------------------------------------------------------
(* resolve-action: up to the claim *)

Load(q) ==
  LET c == card[q] IN
  /\ at[q] = "idle" /\ Exists(c)
  /\ Goto(q, IF status[c] # "pending" THEN "refused"
             ELSE IF due[c] THEN "expiring" ELSE "loaded")
  /\ UNCHANGED <<stream, rows, ran, result, closed, resolver, newTurn, faulted>>

\* Mutant: the expiry trusts the row it has read.
ExpireLoadedUnguarded(q) ==
  /\ at[q] = "expiring"
  /\ SetStatus({card[q]}, "expired") /\ Goto(q, "refused")
  /\ UNCHANGED <<stream, due, stamped, ran, result, closed, resolver, newTurn,
                 faulted>>

\* expireIfStale, guarded by the status. When the row is no longer pending the
\* route goes on with the row it had read.
ExpireLoaded(q) ==
  LET c == card[q] IN
  /\ at[q] = "expiring"
  /\ IF status[c] = "pending" THEN SetStatus({c}, "expired") /\ Goto(q, "refused")
                              ELSE UNCHANGED status /\ Goto(q, "loaded")
  /\ UNCHANGED <<stream, due, stamped, ran, result, closed, resolver, newTurn,
                 faulted>>

\* An invalid edit, a full budget or a revoked access: the card stays up.
TurnAway(q) ==
  /\ at[q] = "loaded"
  /\ Goto(q, "refused")
  /\ UNCHANGED <<stream, rows, ran, result, closed, resolver, newTurn, faulted>>

\* Mutant: the claim is an UPDATE by id alone.
ClaimUnguarded(q) ==
  /\ at[q] = "loaded"
  /\ SetStatus({card[q]}, IF decision[q] = "approve" THEN "approved" ELSE "denied")
  /\ Goto(q, IF decision[q] = "approve" THEN "claimed" ELSE "decided")
  /\ outcome' = [outcome EXCEPT ![q] = "denied"]
  /\ UNCHANGED <<stream, due, stamped, ran, result, closed, card, decision, claimed,
                 gaps, newTurn, faulted>>

\* claimPendingAction: pending -> approved | denied, for one resolver only.
Claim(q) ==
  LET c == card[q] IN
  /\ at[q] = "loaded" /\ status[c] = "pending"
  /\ IF decision[q] = "approve"
       THEN /\ SetStatus({c}, "approved")
            /\ Goto(q, "claimed")
            /\ UNCHANGED outcome
       ELSE /\ SetStatus({c}, "denied")
            /\ Goto(q, "decided")
            /\ outcome' = [outcome EXCEPT ![q] = "denied"]
  /\ UNCHANGED <<stream, due, stamped, ran, result, closed, card, decision, claimed,
                 gaps, newTurn, faulted>>

ClaimLost(q) ==
  /\ at[q] = "loaded" /\ status[card[q]] # "pending"
  /\ Goto(q, "refused")
  /\ UNCHANGED <<stream, rows, ran, result, closed, resolver, newTurn, faulted>>

----------------------------------------------------------------------------
(* resolve-action: the tool and its record *)

\* Access went away between the claim and the tool.
Revoke(q) ==
  /\ at[q] = "claimed"
  /\ Goto(q, "revoked")
  /\ Fault
  /\ UNCHANGED <<stream, rows, ran, result, closed, resolver, newTurn>>

\* Both writes of the revoked path swallow their errors.
SettleRevoked(q) ==
  /\ at[q] = "revoked"
  /\ SetStatus({card[q]}, "failed") \/ UNCHANGED status
  /\ Goto(q, "revokedSettled")
  /\ UNCHANGED <<stream, due, stamped, ran, result, closed, resolver, newTurn,
                 faulted>>

RecordRevoked(q) ==
  /\ at[q] = "revokedSettled"
  /\ RecordResults({card[q]}) \/ UNCHANGED result
  /\ Goto(q, "refused")
  /\ UNCHANGED <<stream, rows, ran, closed, resolver, newTurn, faulted>>

\* executeTool: the hotel is changed here, and only here.
Execute(q) ==
  /\ at[q] = "claimed"
  /\ ran' = [ran EXCEPT ![card[q]] = @ + 1]
  /\ \E o \in {"executed", "failed"} : outcome' = [outcome EXCEPT ![q] = o]
  /\ Goto(q, "decided")
  /\ UNCHANGED <<stream, rows, result, closed, card, decision, claimed, gaps,
                 newTurn, faulted>>

\* Mutant: the decision is written where the status belongs.
FinalizeRawDecision(q) ==
  /\ at[q] = "decided"
  /\ SetStatus({card[q]}, decision[q])
  /\ Goto(q, "settled")
  /\ UNCHANGED <<stream, due, stamped, ran, result, closed, resolver, newTurn,
                 faulted>>

\* finalizePendingAction: by id, whatever the status is.
Finalize(q) ==
  /\ at[q] = "decided"
  /\ SetStatus({card[q]}, outcome[q])
  /\ Goto(q, "settled")
  /\ UNCHANGED <<stream, due, stamped, ran, result, closed, resolver, newTurn,
                 faulted>>

\* recordToolResult, after the journal, the corpus and the add-ons.
Record(q) ==
  /\ at[q] = "settled" /\ result[card[q]] = "none"
  /\ RecordResults({card[q]})
  /\ Goto(q, "recorded")
  /\ UNCHANGED <<stream, rows, ran, closed, resolver, newTurn, faulted>>

\* A follow-up that breaks off may have recorded its first rows.
MayHaveReplied(q) == closed' \in {closed, closed \/ at[q] = "following"}

\* A write throws (500), or the function is killed.
Die(q) ==
  /\ at[q] \in Live
  /\ Goto(q, "dead")
  /\ MayHaveReplied(q) /\ Fault
  /\ UNCHANGED <<stream, rows, ran, result, resolver, newTurn>>

----------------------------------------------------------------------------
(* resolve-action: resuming the model *)

\* Mutant: a resolver expires no card but its own.
ExpireNoSibling(q) ==
  /\ at[q] = "recorded"
  /\ Goto(q, "checking")
  /\ UNCHANGED <<stream, rows, ran, result, closed, resolver, newTurn, faulted>>

\* Stale siblings are expired, each under the status guard; an error of one is
\* swallowed.
ExpireSiblings(q) ==
  LET stale == {c \in Cards : status[c] = "pending" /\ due[c]} IN
  /\ at[q] = "recorded"
  /\ \E S \in SUBSET stale : /\ SetStatus(S, "expired")
                             /\ faulted' = (faulted \/ S # stale)
  /\ Goto(q, "checking")
  /\ UNCHANGED <<stream, due, stamped, ran, result, closed, resolver, newTurn>>

\* Mutant: a claimed card counts as resolved.
ResolvedOnceClaimed == \A c \in Cards : status[c] # "pending"

\* getTurnActions + allActionsResolved: over the rows that exist.
Resolved == \A c \in Cards : Exists(c) => status[c] \in Terminal

Check(q) ==
  /\ at[q] = "checking"
  /\ Goto(q, IF Resolved THEN "stamping" ELSE "waiting")
  /\ UNCHANGED <<stream, rows, ran, result, closed, resolver, newTurn, faulted>>

\* Mutant: the claim does not look for a stamp.
UnstampedOrNot == {c \in Cards : Exists(c)}

\* claimTurnResume: stamps every row without a stamp; no row, no claim.
Unstamped == {c \in Cards : Exists(c) /\ ~stamped[c]}

Stamp(q) ==
  /\ at[q] = "stamping"
  /\ stamped' = [c \in Cards |-> stamped[c] \/ c \in Unstamped]
  /\ claimed' = [claimed EXCEPT ![q] = Unstamped]
  /\ Goto(q, IF Unstamped # {} THEN "resuming" ELSE "waiting")
  /\ UNCHANGED <<stream, status, due, ran, result, closed, card, decision, outcome,
                 gaps, newTurn, faulted>>

\* The claimed rows that expired get a synthetic result; errors are swallowed.
Synthesize(q) ==
  LET silent == {c \in claimed[q] : status[c] = "expired" /\ result[c] = "none"} IN
  /\ at[q] = "resuming"
  /\ \E S \in SUBSET silent : RecordResults(S) /\ faulted' = (faulted \/ S # silent)
  /\ Goto(q, "loading")
  /\ UNCHANGED <<stream, rows, ran, closed, resolver, newTurn>>

\* loadConversation and toClaudeMessages: the replay the model is resumed from
\* shows only the results that stand beside their turn.
LoadHistory(q) ==
  /\ at[q] = "loading"
  /\ gaps' = [gaps EXCEPT ![q] = {x \in Calls : result[x] # "timely"}]
  /\ Goto(q, "following")
  /\ UNCHANGED <<stream, rows, ran, result, closed, card, decision, outcome,
                 claimed, newTurn, faulted>>

\* runAgentStream + finishAgentStream record the model's follow-up.
Reply(q) ==
  /\ at[q] = "following"
  /\ closed' = TRUE
  /\ Goto(q, "replied")
  /\ UNCHANGED <<stream, rows, ran, result, resolver, newTurn, faulted>>

\* The re-authorization fails, or the resume throws: releaseTurnResume clears
\* every stamp of the turn.
Release(q) ==
  /\ at[q] \in Resuming
  /\ stamped' = [c \in Cards |-> FALSE]
  /\ Fault
  /\ Goto(q, "dead") /\ MayHaveReplied(q)
  /\ UNCHANGED <<stream, status, due, ran, result, resolver, newTurn>>

----------------------------------------------------------------------------
(* A new user message (command/route.ts) *)

\* Mutant: the sweep takes every card without a verdict.
SweepUnfinished ==
  LET open == {c \in Cards : status[c] \in {"pending", "approved"}} IN
  /\ NewTurns /\ turnAt = "idle"
  /\ SetStatus(open, "expired")
  /\ swept' = open
  /\ turnAt' = "sweeping"
  /\ UNCHANGED <<stream, due, stamped, ran, result, closed, at, resolver,
                 faulted>>

\* sweepConversationPending: pending -> expired; approved cards are left alone.
SweepPending ==
  LET open == {c \in Cards : status[c] = "pending"} IN
  /\ NewTurns /\ turnAt = "idle"
  /\ SetStatus(open, "expired")
  /\ swept' = open
  /\ turnAt' = "sweeping"
  /\ UNCHANGED <<stream, due, stamped, ran, result, closed, at, resolver,
                 faulted>>

\* The sweep is best effort: the message goes on without it.
SweepFails ==
  /\ NewTurns /\ turnAt = "idle"
  /\ turnAt' = "ready"
  /\ Fault
  /\ UNCHANGED <<stream, rows, ran, result, closed, at, resolver, swept>>

\* A synthetic result per swept card, each best effort.
RecordSuperseded ==
  /\ turnAt = "sweeping"
  /\ \E S \in SUBSET swept : RecordResults(S) /\ faulted' = (faulted \/ S # swept)
  /\ turnAt' = "ready"
  /\ UNCHANGED <<stream, rows, ran, closed, at, resolver, swept>>

\* staxis_lock_load_and_record_user_turn.
RecordUserTurn ==
  /\ turnAt = "ready"
  /\ closed' = TRUE
  /\ turnAt' = "done"
  /\ UNCHANGED <<stream, rows, ran, result, at, resolver, swept, faulted>>

----------------------------------------------------------------------------
Step(q) ==
  \/ ExpireLoaded(q) \/ Claim(q) \/ ClaimLost(q)
  \/ SettleRevoked(q) \/ RecordRevoked(q)
  \/ Execute(q) \/ Finalize(q) \/ Record(q)
  \/ ExpireSiblings(q) \/ Check(q) \/ Stamp(q) \/ Synthesize(q)
  \/ LoadHistory(q) \/ Reply(q)

Next ==
  \/ \E c \in Cards : Stage(c) \/ StageFails(c) \/ BecomesDue(c)
  \/ \E x \in Reads : InlineRead(x)
  \/ ReadsStop \/ StreamDies
  \/ \E q \in Resolvers : Load(q) \/ TurnAway(q) \/ Revoke(q) \/ Die(q)
                          \/ Release(q) \/ Step(q)
  \/ SweepPending \/ SweepFails \/ RecordSuperseded \/ RecordUserTurn

Spec == Init /\ [][Next]_vars

\* A request that is not killed runs to its end. Nothing makes a user tap.
FairSpec == Spec /\ \A q \in Resolvers : WF_vars(Step(q))

----------------------------------------------------------------------------
(* Properties *)

\* However many taps and tabs race, an approved mutation runs at most once.
RunsAtMostOnce == \A c \in Cards : ran[c] <= 1

\* A card whose tool ran never reads as pending, declined or expired, so the
\* user is never told that something did not happen which did.
RunIsNeverDisowned ==
  \A c \in Cards : ran[c] > 0 => status[c] \in {"approved", "executed", "failed"}

\* What the user of a card has been told, by its status.
VerdictOf(c) ==
  IF status[c] \in {"approved", "executed", "failed"} THEN "consented" ELSE status[c]

\* The gate, with every race and crash, does what ConsentOnce promises.
Consent == INSTANCE ConsentOnce WITH
  done <- ran, verdict <- [c \in Cards |-> VerdictOf(c)]
ImplementsConsent == Consent!Spec

\* No step takes a card out of a terminal status or into another one, though
\* the finalize that writes it does not look at the status it overwrites.
VerdictStands ==
  [][\A c \in Cards : status[c] \in Terminal => status'[c] = status[c]]_vars

\* While a resolver resumes a turn staged in full before, no card is open.
ResumeOnlyWhenResolved ==
  (Staged = Cards /\ \E q \in Resolvers : at[q] \in Resuming)
    => \A c \in Cards : status[c] \in Terminal

\* One request resumes a turn at a time, and never after another has replied
\* (0300: exactly one concurrent resolver wins). Here: if it was staged in full.
ResumersOf == {q \in Resolvers : at[q] \in Resuming \cup {"replied"}}
SingleFlightOnceStaged ==
  Staged = Cards => \A p, q \in ResumersOf : p = q

\* The same without the condition: the code's comment makes no such exception.
SingleFlight == \A p, q \in ResumersOf : p = q

\* If nothing fails and no new message comes, a turn is resumed once a resolver
\* has settled its card and all others are settled, or are open past their ten
\* minutes: siblings cannot each leave it to the other, and a card that lapses
\* before the last verdict does not hold the turn up.  One that lapses later
\* does: nobody looks at it, or the tap that finds it due is turned away.
Over(c) == status[c] \in Terminal \/ (status[c] = "pending" /\ due[c])
LastIsSettled ==
  /\ \A c \in Cards : Over(c)
  /\ \E q \in Resolvers : at[q] \in {"settled", "recorded"}
Resumed == faulted \/ turnAt # "idle" \/ \E q \in Resolvers : at[q] = "replied"
TurnIsResumed == LastIsSettled ~> Resumed

\* The resumed model sees the result of every call of the turn (the route says
\* that it resumes "from the now-complete tool_results").  It does not hold: a
\* card is terminal before its result is recorded, and a sibling may resume then.
ResumeSeesEveryResult ==
  \A q \in Resolvers : at[q] \in {"following", "replied"} =>
    (faulted \/ gaps[q] = {})
=============================================================================
