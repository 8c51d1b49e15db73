------------------------ MODULE ConversationHistory ------------------------
(***************************************************************************)
(* One conversation of the assistant: its rows in agent_messages, the two  *)
(* counters that triggers keep beside them, and what rewrites them: the    *)
(* summarizer cron, which folds the oldest rows into a summary row, the    *)
(* archive cron, the restore and the delete.                               *)
(*                                                                         *)
(* A row is stamped with the START of its transaction.  Rows written by    *)
(* one transaction share their stamp, and a transaction that waited for    *)
(* the conversation's lock is older than rows committed before it.  Every  *)
(* reader sorts by the stamp alone, so ties come in any order.             *)
(***************************************************************************)
EXTENDS Integers, FiniteSets, SequencesExt

CONSTANTS
  Requests,     \* the slots of requests running on the conversation at once
  Summarizers,  \* overlapping runs of the summarizer cron
  Shapes,       \* the rows of an assistant turn: sequences of "text" and "call"
  Threshold,    \* SUMMARIZATION_THRESHOLD: 50 rows in the code
  MaxRows,      \* bound: rows of the conversation
  MaxClock      \* bound: no user turn starts after this stamp

ASSUME HistoryAssumption ==
  /\ Shapes \subseteq Seq({"text", "call"})
  /\ Threshold \in Nat \ {0} /\ MaxRows \in Nat /\ MaxClock \in Nat

VARIABLES
  rows,          \* the messages, in the order of their commits
  home,          \* the tables that hold them: live, archive or deleted
  messageCount, unsummarized,  \* counters of agent_conversations
  clock,         \* the start stamp of the next transaction
  at,            \* where each request is
  begunAt,       \* the stamp of its waiting user turn
  asked,         \* the calls of its last assistant turn
  runAt,         \* where each summarizer run is
  batch          \* the rows it has read

counters == <<messageCount, unsummarized>>
request  == <<at, begunAt, asked>>
run      == <<runAt, batch>>
vars == <<rows, home, counters, clock, request, run>>

Kinds == {"user", "text", "call", "result", "summary"}
Row(k, of, t) == [kind |-> k, of |-> of, ts |-> t, folded |-> FALSE]
Ids == 1..Len(rows)

\* Rows that neither are summaries nor have been folded into one.
Open == {i \in Ids : ~rows[i].folded /\ rows[i].kind # "summary"}
ResultsOf(c) == {i \in Ids : rows[i].kind = "result" /\ rows[i].of = {c}}

TypeOK ==
  /\ rows \in Seq([kind : Kinds, of : SUBSET Nat, ts : Nat, folded : BOOLEAN])
  /\ home \in {"live", "archive", "deleted"}
  /\ messageCount \in Nat /\ unsummarized \in Nat
  /\ clock \in Nat
  /\ at \in [Requests -> {"idle", "waiting", "running"}]
  /\ begunAt \in [Requests -> Nat]
  /\ asked \in [Requests -> SUBSET Nat]
  /\ runAt \in [Summarizers -> {"idle", "picked", "asking"}]
  /\ batch \in [Summarizers -> SUBSET Nat]

Init ==
  /\ rows = <<>>
  /\ home = "live"
  /\ messageCount = 0 /\ unsummarized = 0
  /\ clock = 0
  /\ at = [r \in Requests |-> "idle"]
  /\ begunAt = [r \in Requests |-> 0]
  /\ asked = [r \in Requests |-> {}]
  /\ runAt = [w \in Summarizers |-> "idle"]
  /\ batch = [w \in Summarizers |-> {}]

\* An insert of ordinary rows, with the triggers that count them.
Insert(new) ==
  /\ Len(rows) + Len(new) <= MaxRows
  /\ rows' = rows \o new
  /\ messageCount' = messageCount + Len(new)
  /\ unsummarized' = unsummarized + Len(new)

\* Stamps are two microseconds apart: a summary's may fall in between.
Tick == clock' = clock + 2

----------------------------------------------------------------------------
(* Requests *)

\* staxis_lock_load_and_record_user_turn starts, and waits for the lock.
BeginUserTurn(r) ==
  /\ at[r] = "idle" /\ home = "live" /\ clock <= MaxClock
  /\ at' = [at EXCEPT ![r] = "waiting"]
  /\ begunAt' = [begunAt EXCEPT ![r] = clock]
  /\ Tick
  /\ UNCHANGED <<rows, home, counters, asked, run>>

CommitUserTurn(r) ==
  /\ at[r] = "waiting" /\ home = "live"
  /\ Insert(<<Row("user", {}, begunAt[r])>>)
  /\ at' = [at EXCEPT ![r] = "running"]
  /\ asked' = [asked EXCEPT ![r] = {}]
  /\ UNCHANGED <<home, clock, begunAt, run>>

\* The conversation is not found, or the request ends: with its last turn, at
\* an approval gate, or because the process or a write failed.
RequestEnds(r) ==
  /\ at[r] # "idle"
  /\ at' = [at EXCEPT ![r] = "idle"]
  /\ UNCHANGED <<rows, home, counters, clock, begunAt, asked, run>>

\* staxis_record_assistant_turn: the rows of a turn in one transaction, which
\* takes no lock. The loop goes on only with the result of every call.
RecordAssistantTurn(r) ==
  /\ at[r] = "running" /\ home = "live"
  /\ \A c \in asked[r] : ResultsOf(c) # {}
  /\ \E s \in Shapes :
       /\ Insert([k \in DOMAIN s |-> Row(s[k], {}, clock)])
       /\ asked' = [asked EXCEPT ![r] = {Len(rows) + k : k \in {k \in DOMAIN s : s[k] = "call"}}]
  /\ Tick
  /\ UNCHANGED <<home, at, begunAt, run>>

\* The resolver of the turn's last card resumes the model.
Resume(r) ==
  /\ at[r] = "idle" /\ home = "live"
  /\ asked[r] # {} /\ \A c \in asked[r] : ResultsOf(c) # {}
  /\ at' = [at EXCEPT ![r] = "running"]
  /\ UNCHANGED <<rows, home, counters, clock, begunAt, asked, run>>

\* recordToolResult, by the loop or, later, by the resolver of a card. The
\* unique index admits one result of a call.
RecordToolResult(c) ==
  /\ home = "live" /\ rows[c].kind = "call" /\ ResultsOf(c) = {}
  /\ Insert(<<Row("result", {c}, clock)>>)
  /\ Tick
  /\ UNCHANGED <<home, request, run>>

----------------------------------------------------------------------------
(* The summarizer cron *)

\* The scan of the batch run: more than the threshold.
Pick(w) ==
  /\ runAt[w] = "idle" /\ home = "live" /\ unsummarized > Threshold
  /\ runAt' = [runAt EXCEPT ![w] = "picked"]
  /\ UNCHANGED <<rows, home, counters, clock, request, batch>>

\* The oldest rows, by their stamps: a tie at the boundary is broken anyhow.
OldestBatches ==
  {S \in SUBSET Open : /\ Cardinality(S) = Threshold
                       /\ \A i \in S, j \in Open \ S : rows[i].ts <= rows[j].ts}

\* Mutant: the batch is not trimmed.
UntrimmedOf(S) == TRUE

\* trimTrailingOrphanToolUses drops a last row that is a call whose result is
\* not in the batch, which leaves the batch short and ends the run.
Untrimmed(S) ==
  \E i \in S : /\ \A j \in S : rows[j].ts <= rows[i].ts
               /\ rows[i].kind = "call" => ResultsOf(i) \cap S # {}

Fetch(w) ==
  /\ runAt[w] = "picked" /\ home = "live" /\ unsummarized >= Threshold
  /\ \E S \in OldestBatches :
       /\ Untrimmed(S)
       /\ batch' = [batch EXCEPT ![w] = S]
  /\ runAt' = [runAt EXCEPT ![w] = "asking"]
  /\ UNCHANGED <<rows, home, counters, clock, request>>

\* Another run was faster, the conversation is gone, or the trim cut a row.
Skip(w) ==
  /\ runAt[w] = "picked"
  /\ \/ home # "live" \/ unsummarized < Threshold
     \/ \E S \in OldestBatches : ~Untrimmed(S)
  /\ runAt' = [runAt EXCEPT ![w] = "idle"]
  /\ UNCHANGED <<rows, home, counters, clock, request, batch>>

\* Mutant: no count gate, the rows that are left are folded again.
CurrentOrStale(w) == home = "live"

\* The count gate: every row of the batch is there and not folded.
Current(w) == home = "live" /\ \A i \in batch[w] : ~rows[i].folded

StampOf(S) == Max({rows[i].ts : i \in S})

\* Mutant: the function subtracts its batch beside what the trigger subtracts.
FlipsTwice(S) == 2 * Cardinality(S)

\* What the trigger takes off the counter: one for each row that is folded now.
Flips(S) == Cardinality(S \cap Open)

\* staxis_apply_conversation_summary, when every row of the batch is still
\* there to fold: the summary is pinned right behind the newest of them.
Apply(w) ==
  LET folded == [i \in Ids |-> IF i \in batch[w] THEN [rows[i] EXCEPT !.folded = TRUE]
                                                 ELSE rows[i]] IN
  /\ runAt[w] = "asking" /\ Current(w)
  /\ rows' = Append(folded, Row("summary", batch[w], StampOf(batch[w]) + 1))
  /\ messageCount' = messageCount + 1
  /\ unsummarized' = unsummarized - Flips(batch[w])
  /\ runAt' = [runAt EXCEPT ![w] = "idle"]
  /\ batch' = [batch EXCEPT ![w] = {}]
  /\ UNCHANGED <<home, clock, request>>

\* The model fails, the conversation is gone, or the batch is stale.
ApplyFails(w) ==
  /\ runAt[w] = "asking"
  /\ runAt' = [runAt EXCEPT ![w] = "idle"]
  /\ batch' = [batch EXCEPT ![w] = {}]
  /\ UNCHANGED <<rows, home, counters, clock, request>>

----------------------------------------------------------------------------
(* Archive, restore and delete *)

\* staxis_archive_conversation. Every insert touches updated_at, so a running
\* request keeps the conversation out of the ninety days.
Archive ==
  /\ home = "live" /\ \A r \in Requests : at[r] # "running"
  /\ home' = "archive"
  /\ UNCHANGED <<rows, counters, clock, request, run>>

\* Mutant: the archived counters are the start, and the triggers add to them.
RestoreDoubleCounted ==
  /\ home = "archive"
  /\ home' = "live"
  /\ messageCount' = messageCount + Len(rows)
  /\ unsummarized' = unsummarized + Cardinality(Open)
  /\ UNCHANGED <<rows, clock, request, run>>

\* staxis_restore_conversation: counters from zero, recomputed at the end.
Restore ==
  /\ home = "archive"
  /\ home' = "live"
  /\ messageCount' = Len(rows)
  /\ unsummarized' = Cardinality(Open)
  /\ UNCHANGED <<rows, clock, request, run>>

\* staxis_delete_property_conversation, which takes no advisory lock. The
\* rows go with the conversation.
Delete ==
  /\ home = "live"
  /\ home' = "deleted"
  /\ rows' = <<>>
  /\ messageCount' = 0 /\ unsummarized' = 0
  /\ UNCHANGED <<clock, request, run>>

----------------------------------------------------------------------------
(* The replay: decodeStoredHistory, then toClaudeMessages *)

Earlier(i, j) == rows[i].ts < rows[j].ts \/ (rows[i].ts = rows[j].ts /\ i < j)
Visible == {i \in Ids : ~rows[i].folded}
ReplayOrder ==
  [k \in 1..Cardinality(Visible) |->
     CHOOSE i \in Visible : Cardinality({j \in Visible : Earlier(j, i)}) = k - 1]

\* Assistant rows merge into one turn until another row flushes them; the
\* results directly behind a turn answer its calls, any other is skipped.
ReplayStep(acc, i) ==
  LET row == rows[i]
      calls == IF acc.answering THEN {} ELSE acc.calls IN
  CASE row.kind \in {"user", "summary"} ->
         [acc EXCEPT !.calls = {}, !.answering = FALSE]
    [] row.kind = "text" -> [acc EXCEPT !.calls = calls, !.answering = FALSE]
    [] row.kind = "call" -> [acc EXCEPT !.calls = calls \cup {i}, !.answering = FALSE]
    [] row.kind = "result" ->
         [acc EXCEPT !.answering = TRUE, !.shown = @ \cup (row.of \cap acc.calls)]

\* The calls whose result the model is shown.
Answered ==
  FoldLeft(ReplayStep, [calls |-> {}, answering |-> FALSE, shown |-> {}],
           ReplayOrder).shown

----------------------------------------------------------------------------
Next ==
  \/ \E r \in Requests : \/ BeginUserTurn(r) \/ CommitUserTurn(r) \/ Resume(r)
                          \/ RecordAssistantTurn(r) \/ RequestEnds(r)
  \/ \E c \in Ids : RecordToolResult(c)
  \/ \E w \in Summarizers : Pick(w) \/ Fetch(w) \/ Skip(w) \/ Apply(w) \/ ApplyFails(w)
  \/ Archive \/ Restore \/ Delete

Spec == Init /\ [][Next]_vars

\* The cron runs every thirty minutes, and its model does not fail for ever.
Fairness ==
  \A w \in Summarizers : /\ WF_vars(Pick(w)) /\ WF_vars(Fetch(w) \/ Skip(w))
                         /\ SF_vars(Apply(w))
FairSpec == Spec /\ Fairness

----------------------------------------------------------------------------
(* Properties *)

\* The counters that decide what is summarized are exact, across the triggers
\* of every insert, fold, archive and restore (INV-4, INV-7).
CountersAreExact ==
  home = "live" => messageCount = Len(rows) /\ unsummarized = Cardinality(Open)

\* Every folded row is condensed by exactly one summary, and a summary
\* condenses only folded rows: overlapping runs lose and repeat nothing.
SummariesOf(i) == {s \in Ids : rows[s].kind = "summary" /\ i \in rows[s].of}
FoldedOnce ==
  \A i \in Ids : Cardinality(SummariesOf(i)) = IF rows[i].folded THEN 1 ELSE 0

\* A fold never takes from the replay the result of a call it leaves in, or
\* leaves the result of a call it takes (INV-2): what the model was shown before
\* it is shown after, or both are condensed.  FoldKeepsResults does not hold.
ResultsSurvive ==
  \A c \in Answered : c \in Answered' \/ \A i \in {c} \cup ResultsOf(c) : rows'[i].folded
Folds == Len(rows') > Len(rows) /\ rows'[Len(rows')].kind = "summary"
FoldKeepsResults == [][Folds => ResultsSurvive]_vars

\* The same for a history without the causes found: rows that tie, and rows of
\* another turn or of another request between a call and its result.
Between(i, j) == {k \in Visible : Earlier(i, k) /\ Earlier(k, j)}
Tidy ==
  /\ \A i, j \in Visible : rows[i].ts = rows[j].ts => i = j
  /\ \A i, c \in Visible :
       rows[i].kind = "result" /\ c \in rows[i].of => Between(c, i) = {}
TidyFoldKeepsResults == [][(Folds /\ Tidy) => ResultsSurvive]_vars

\* A conversation that is over the threshold is folded: "the next cron tick
\* will retry once the orphaned pair lands inside one batch".
LongConversationsAreFolded ==
  unsummarized > Threshold ~> (unsummarized <= Threshold \/ home # "live")
=============================================================================
