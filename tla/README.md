# Staxis: formal models

TLA+ models of the parts of Staxis whose correctness depends on the order in
which concurrent requests, database calls, crons and crashes happen, the TLC
runs that check them on small instances, and the theorems about them that TLAPS
proves for instances of any size. The repository is the reference: `PROJECT.json`
maps every definition to the lines it models.

## The system

Staxis is a hotel-operations product: a Next.js application (`src/app`,
`src/lib`) on serverless functions, a PostgreSQL database reached through
PostgREST (`supabase/migrations`), cron routes (`vercel.json`), and side services.
There is no long-lived server process: every request is a function that may be
killed at its `maxDuration`, every database call is a transaction of its own, and
what two requests know of each other is what the database tells them. The
assistant ("Staxis") is the part with the most concurrency: it spends money,
changes the hotel and remembers a conversation.

| Component | State | Operations | Interacts with | What is hard |
|---|---|---|---|---|
| Spend ledger (`lib/agent/cost-controls.ts`, 0080-0091, 0374) | `agent_costs` (reserved / finalized, cost, `swept_at`), `agent_cost_finalize_failures` | reserve, finalize (3 tries, audit), cancel, sweep, book non-request spend, audio gate | every agent route, the sweep cron | races for three caps, lost answers, late calls, kills, midnight |
| Approval gate (`lib/agent/pending-actions.ts`, `api/agent/command/resolve-action`, 0300) | `agent_pending_actions` (status, expiry, resume stamp), the tool rows of `agent_messages` | stage, claim, execute, finalize, record, expire, resume, release, supersede | the stream runner, the tools, a new user message | two tabs, kills between two writes, expiry, staging during taps |
| Stream runner (`api/agent/command/_stream-runner.ts`) | none of its own | drives the model loop and its writes | ledger, gate, history | every error path of the others |
| Conversation history (`lib/agent/memory.ts`, 0105, 0106, 0114, 0379) | `agent_messages`, counters of `agent_conversations`, the archive | lock+load+record, record turn / result, archive, restore, delete, heal | runner, gate, summarizer | adjacency of calls and results, timestamps of one transaction |
| Summarizer and archival (`lib/agent/summarizer.ts`, `archival.ts`) | summary rows | batch, trim, apply, archive | history, ledger | batch boundaries, starvation |
| Request idempotency (`lib/idempotency.ts`, 0243) | `idempotency_log` | claim, take over, record | write routes | takeover after five minutes |
| Offline room work (`lib/offline-sync`, `lib/housekeeper-workflow`) | the phone's queue, `offline_action_replays`, room workflow fields | enqueue, drain, claim, mutate, complete, release | phone, server | lost answers, a claim left pending |
| Agent reminders (`lib/reminders/store.ts`, 0302, 0333) | `agent_reminders` leases, one message per reminder | query, claim, deliver, finalize, release, cancel | cron, communications | overlapping ticks, cancels, duplicates in another conversation |
| Portfolio admission (`lib/portfolio-query-admission.ts`, 0391) | rate buckets and one lease per account and organization | acquire, release | portfolio chat | clock read before a lock, releases that come late |
| Room cleaning workflow (`lib/housekeeper-workflow/state-machine.ts`, `workflow-store.ts`, `lib/pms-rooms-writes.ts`, 0355) | the `room_work` row, `cleaning_events` | start, pause, resume, complete, exception, clear, reset, the agent's mark clean and mark dirty | phones, the agent's tools, performance metrics | read, decide, unconditional patch; doubles within 90 s; tails that fail |
| Findings judge budget (0361), recurring tasks, companion (0459, 0466), shared foundation (0469), phone pairing (0309), password proof (0164), account lifecycle (0335), join codes (0398), AI configuration (0313) | one or two tables each | see `components` in `PROJECT.json` | | claims under row locks |
| Inventory, reports, PMS feeds, access tables, UI, ML service, CUA service, email worker, scripts | | | | arithmetic, presentation or I/O: not modelled |

What makes each correct: the ledger never grants beyond a cap, never forgets a
known price and never keeps a hold for ever; the gate never runs a mutation
without a consent or twice, never disowns one that ran, and answers every turn;
the history replays every result beside its call and folds every message once;
a claim protocol (idempotency, offline work, reminders) does its work at most
once and is not stuck by a crash; a lease is held by one, and its owner is gone
before it lapses; the room's row never mixes two cleans, and no start is counted twice.

## The modules

| Module | Models | |
|---|---|---|
| `SpendLedger` | the ledger, its routes, cron, clock and platform | 24 actions |
| `SpendBudget` | what the ledger promises: grants inside the caps, one settlement | abstract |
| `MCSpendLedger` | instances: two requests of one user, one request and one call | |
| `SetSums` | facts about sums of weights over finite sets, for the proofs about money | lemmas |
| `SpendLedger_proofs` | theorems about `SpendLedger` | |
| `ApprovalGate` | the gate of one assistant turn: stream, taps, new message | 29 actions |
| `ConsentOnce` | what the gate promises: no act without a consent, one act per consent | abstract |
| `MCApprovalGate` | instances: two cards, one read, up to three taps | |
| `ApprovalGate_proofs` | theorems about `ApprovalGate` | |
| `ConversationHistory` | one conversation: its rows, counters, summarizer, archive and replay | 14 actions |
| `MCConversationHistory` | instances: two requests, one or two summarizer runs, batches of two or three rows | |
| `ConversationHistory_proofs` | theorems about `ConversationHistory` | |
| `OfflineRoomWork` | a phone, its queue and drain, and the server's claim, write and completion | 22 actions |
| `MCOfflineRoomWork` | instances: two actions, two requests at a time | |
| `OfflineRoomWork_proofs` | theorems about `OfflineRoomWork` | |
| `ReminderDelivery` | reminders, the ticks of their cron, cancels and the platform | 17 actions |
| `MCReminderDelivery` | an instance: two reminders, two overlapping ticks | |
| `ReminderDelivery_proofs` | theorems about `ReminderDelivery` | |
| `PortfolioAdmission` | one admission row, its calls and the requests behind them | 14 actions |
| `MCPortfolioAdmission` | an instance: three requests around a minute and an hour | |
| `PortfolioAdmission_proofs` | theorems about `PortfolioAdmission` | |
| `RoomClean` | one room's row, its cleaning events and the requests that move it | 17 actions |
| `MCRoomClean` | an instance: three requests of any kind | |
| `RoomClean_proofs` | theorems about `RoomClean` | |

### SpendLedger

A row of `agent_costs` is an element of `Rows`, the one that a request or another
paid call would insert; `state`, `cost`, `createdAt` and `swept` are its columns.
`pc` is where the request's route is between two database calls:

    idle -> admitted -> reserved -> streaming -> finalizing -> (auditing) -> cancelling -> done

* `Admit`, `RefuseRate`: the count of recent user turns and the tier lookup, both
  of which fail open or small in the code, and neither of which is atomic with
  the reservation.
* `Reserve`, `ReserveAnswerLost`, `ReserveRefused`: the RPC of 0082, one step
  because it holds three advisory locks.
* `RecordUserTurn`, `PrepareFails`, `ProviderCall`, `StreamReturns`,
  `StreamThrows`: the turn. `billed` is what the provider has charged, `usage`
  what the route knows when it settles.
* `FinalizeOk`, `FinalizeAnswerLost`, `FinalizeFails`, `WriteAudit`, `Cancel`,
  `CancelFails`, `LateFinalize`, `LateCancel`: `reconcileCostReservation` and the
  fates of its calls. `late` holds the calls the route gave up on.
* `Kill`, `Tick`, `Sweep`: the platform, the clock and the cron.
* `AdmitCall`, `BookCall`, `BookCallFails`: spend that is booked after the fact.

### ApprovalGate

The cards of one turn (`status`, `due` for a passed `expires_at`, `stamped` for
`resume_claimed_at`), how often each tool `ran`, and where each call's tool row is
in the history: `timely` beside its turn, `late` behind another row. Each element
of `Resolvers` is one request to `resolve-action`, which goes through

    idle -> loaded | expiring -> claimed -> decided -> settled -> recorded -> checking
         -> stamping -> resuming -> loading -> following -> replied

one step per database call, and can end `refused`, `waiting` (siblings are open)
or `dead`. `Revoke`, `SettleRevoked` and `RecordRevoked` are the path of an access
that went away after the claim. The stream (`Stage`, `StageFails`, `InlineRead`,
`ReadsStop`, `StreamDies`) and a new message (`SweepPending`, `SweepFails`,
`RecordSuperseded`, `RecordUserTurn`) run beside them.

### ConversationHistory

`rows` holds the rows of `agent_messages` in the order of their commits; a row
has a kind, the call it answers or the rows it condenses (`of`), its `created_at`
(`ts`) and `is_summarized` (`folded`). `created_at` defaults to `now()`, the START of
the transaction, so the rows of one assistant turn tie, and a user turn that
waited for the conversation's advisory lock is stamped before rows that committed
while it waited: `BeginUserTurn` takes the stamp, `CommitUserTurn` inserts.

* `RecordAssistantTurn`, `RecordToolResult`, `Resume`, `RequestEnds`: the loop, which
  takes no lock, and the resolver of a card, which may write a result much later.
* `Pick`, `Fetch`, `Skip`, `Apply`, `ApplyFails`: one run of the summarizer cron. The
  batch is read, the model is asked, and the RPC folds the batch behind its
  count gate; another run, an archive or a delete may come between.
* `Archive`, `Restore`, `Delete`: `home` says which tables hold the conversation.
* `Insert`, `Flips`: the two counter triggers, as part of every action that fires
  them.
* `Answered`: the replay, `decodeStoredHistory` followed by `toClaudeMessages`, as a
  fold over the visible rows: the calls whose result the model is shown.

### OfflineRoomWork

The phone has a `queue` of action ids (an IndexedDB store, with `enqueuedAt`, `attempts`
and `permanent` as its columns), one `runner` that drains it, what the browser says
(`onLine`) and what the hook believes (`believed`). `status` is what the housekeeper
sees. Each element of `Slots` is a request; on the server it goes through

    gate -> claim -> (lookup) -> work -> release | complete -> answered

one step per database call. `heard` says whether the phone still waits for it: a
connection that breaks leaves the request running, which is why `claims`
(`offline_action_replays`) exists.

* `TapDirect`, `TapQueued`, `DirectNeverLeaves`: `enqueueIfOffline`, with the fast path.
* `ReadQueue`, `DrainSends`, `DrainNeverLeaves`, `EndPass`, `RetryTimer`: `drainQueue` in
  `triggerDrain`'s loop and the backoff effect; `DrainHears` has a disjunct per class of
  answer (2xx, 429 or 503 with Retry-After, 4xx, 5xx).
* `Gate`, `Claim`, `Lookup`, `Work`, `Release`, `Complete`: the endpoints, which share
  this shape (`runHousekeeperRoomAction`, `structured-issue`, `report-found-item`).
* `Lose`, `GoOffline`, `GoOnline`, `Shut`, `Reopen`, `Kill`: connection, page, platform.
  A write, a claim or a release may fail after it took effect. `mislaid` counts the writes that
  the server was told had failed.

### ReminderDelivery

A tick of the cron (`Ticks`) is `idle`, `choosing` among its `batch`, `posting`, `finalizing`
or `releasing`. A reminder has its columns (`outcome` for `fired_at` and `canceled_at`,
`token` and `leaseAge` for the lease, `creator`) and `posted`, the conversation its
message is in. Time is relative: how old a tick and a lease are. `Claimable` judges a
lease by the beginning of the tick, as the code does with `staleBeforeIso`.

* `Read`, `SkipPaused`, `Claim`, `ClaimNothing`: the batch and a claim behind the guards;
  `signed` and `open` are what the tick has read of creators and hotels and may be stale.
* `Post`, `PostFails`: `deliverReminder`, with the unique message key and the check that
  a duplicate is in this conversation.
* `Finalize`, `FinalizeNothing`, `Release`, `EndTick`, and `Kill`, after which the tick's
  insert may still arrive (`LateInsert`).
* `Cancel`, `CreatorLeaves`, `SwitchSection`: what happens to a reminder meanwhile.

### PortfolioAdmission

One row of `portfolio_query_admissions`: the lease (`token`, `expires`) and a bucket with
its `count` per unit. A request is `asking`, `querying` or `ended`; its call of the
acquire function is `sent`, `locking` (v_now has been read into `clock`, the row lock is
waited for) or `answered`, and goes on when the request is gone. `CountAttempt` is the
part of the decision that precedes both refusals; `Again`, `Refuse` and `Grant` are the
outcomes. `Finish` sends the one release, which may come late (`releases`) or never.
`Redeliver` is the repeated call for which the migration keeps its first branch; the
application makes a new token for every call, so only a transport could repeat one.
`grants` and `setbacks` are counters of the model. The row's insert is no step: a
fresh row has a count of zero in the caller's bucket, like the initial state.

### RoomClean

`room` holds the columns of the room's `room_work` row that the workflow reads, `events` its
rows of `cleaning_events` (`counted` unless the status is `discarded`). Each element of `Taps`
is one request, of a route of `api/housekeeper` or of a tool of the agent:

    idle -> loaded -> written -> fresh | found -> ended         (routes)
    idle -> named -> loaded | blind -> ended                    (tools)

* `Load`, `Refuse`: the gate, `loadRoomForStaff` and `transition`, with the row it read in
  `read` and its "now" in `stamp`. A stamp is a pair of its taker and a tick, since two
  requests do not take the same millisecond.
* `Prefetch`, `PrefetchFails`: `applyRoomUpdate` reads the row again; a failed read is taken for
  an absent row, and what follows is an upsert without a condition.
* `Write`, `RaceLost`, `WriteFails`: `writeWorkflowFields`, which patches the columns of `Patched`
  whatever the row has become, and the tools' write, held to the status they read.
* `FindRecent`, `FindNoRecent`, `InsertEvent`, `InsertFails`: the tail of a completion, with the
  90 second window. `FindNoRecent` is always possible: the lookup is for the tapper's own
  events and may also fail.
* `FindEvent`, `FindNoEvent`, `Discard`, `DiscardFails`: the tail of a reset.
* `Die`, `Pass`: the platform and the clock.

`stale` is a history variable: the requests that wrote over a row other than the one they had
read. `TimesFitStatus` holds in spite of them. The other three properties excuse them
by name: the code has no condition that would keep a stale write out, and what is left is
what retries in sequence, slow tails, failures and kills could still break.

## The runs

| Run | Question | Answer |
|---|---|---|
| `spend_caps` | two requests of one user, calls dearer than the estimate, all losses, late calls, kills, sweeps, midnight | caps hold, the sweeper spares the living, known prices are kept, settled rows are final, `SpendBudget` is implemented |
| `spend_live` | is every hold released? | yes, by the cron alone |
| `spend_unbooked` | is every paid call booked (INV-43)? | no (below) |
| `gate_stage` | taps while the stream is still staging and reading, expiry, crashes, a new message | no disowned run, no verdict overturned, `ConsentOnce` is implemented |
| `gate_live` | three taps on two staged cards | one run per card, one resume, and a turn is resumed once its last verdict is in and the open cards have lapsed, when nothing fails |
| `gate_two_resumes` | a statement of the repository | refuted (below) |
| `history_fold` | turns of every shape of two requests at once, two summarizer runs, archive, restore, delete | counters exact, each row folded once, tidy histories keep their results |
| `history_starves` | a statement of the repository | refuted (below) |
| `offline_replay` | two room actions, lost connections and answers, failures of the database and the platform, a page that is shut | each write once, no false success, replay in order, the queue drains |
| `reminders` | overlapping ticks, a fault, cancels, a creator who leaves, Communications switched | one deliverer, cancels hold, no stamp without its message, what is due is settled |
| `room_clean` | three taps or tool calls of any kind on one room, read and written over each other, failures, kills | the row never mixes two cleans; without stale writes no start is counted twice, the window drops nothing that counts, pauses fit |
| `portfolio` | three requests around the end of a minute and of an hour, late and repeated calls, kills | one query at a time, caps hold up to the setbacks of the clock |

Every property of a passing run has a mutant in `PROJECT.json`, a plausible bug
in one mapped definition under which the run fails.

### Bounds

Ledger: two requests are enough for one to race, follow or outlive the other, and
a third adds only sums; they are of one user in one hotel, so that the second meets the
rate limit, the free cap binds when the tier lookup fails and the hotel's and
everyone's caps bind otherwise. They differ in nothing, so the run, which checks
no liveness, is reduced by their symmetry; the estimate, the caps and the charges are one-digit
numbers chosen so that one hold fits, two do not always, and a bill can exceed its
estimate. A day is a few ticks, so that midnight falls between a reservation
and its settlement; `MaxDuration` <= `SweepAge` is the code's 60 s against five
minutes. `MaxBill`, `LastStart` and `MaxNow` bound the state space only.
Gate: two cards are needed for siblings and for staging in between, three taps for
two rivals on one card and one on its sibling; the run in which the stream is still
staging has two taps. One of the two cards may expire in either run, so that a lapse
meets a tap on its sibling before, between and after that tap's steps.
History: the code's batch of fifty rows is two (three where it starves), enough for a turn
to end at, before or across its boundary; six rows let a second batch follow the first and
two summarizer runs overlap on either; two requests let the rows of one stand between a
call of the other and its result. Requests and runs are interchangeable in `history_fold`,
which checks no liveness, and it is reduced by that symmetry.
`MaxRows` and `MaxClock` bound the state space only.
Offline work: two actions, so that one can overtake the other; two requests, so that a
replay runs beside the request it repeats; two attempts instead of five; three faults, which
is what it takes to lose an answer, and then a claim's release or a second connection.
Reminders: a batch of one of two due rows, so that the oldest row can crowd out the other;
the lease and a tick's life are one unit each, the tightest case of `LeaseAssumption`.
Portfolio: a minute is one unit of time and an hour four, with caps of one and two; the
lease lasts two, a request one. Three requests are one to hold or leave a lease,
one to set the row back and one to profit.
Room: three requests finish a clean, start the next and finish it, or overlap on one step. A
tick is a minute; a route lives one, a clean counts from three to four, the window is two: the
order that `RoomAssumption` keeps. The requests differ in nothing, so the run is reduced by
their symmetry. `LastAsk`, `MaxNow` and every `MaxFaults` bound the
state space only.

### Fairness

`SpendLedger!Fairness`: the clock runs, the sweep cron fires (`vercel.json` lists it
every five minutes) and the platform kills at `maxDuration`. Nothing is assumed
of a route or of an answer. `ApprovalGate!FairSpec`: a request that is not killed
takes its next step. Nobody is obliged to tap, and a process may die at any step:
`TurnIsResumed` excuses faults by name (`faulted`) instead of assuming them away, and starts
where a resolver has settled its card and no other is open but past its ten minutes.
`ConversationHistory!FairSpec`: the summarizer cron fires (`vercel.json` lists it every
thirty minutes), a run reads its batch, and the model does not fail for ever; no
request is obliged to go on. The starving conversation starves in spite of it.
`OfflineRoomWork!FairSpec`: a drain and a request that are not stopped take their next
step, an answer that has arrived is heard, and a timer that is set fires. Nobody is obliged to be
online or to keep the page open, and `QueueDrains` says nothing while they are not.
`ReminderDelivery!FairSpec`: the cron fires (every five minutes), a tick that is not killed
goes on, and time passes. Faults are bounded, so that retries end.

### Disagreements found

1. `PaidTurnsAreBooked`: a stream that throws after a provider call is cancelled
   to zero; INV-43 says every call is booked.
2. `SingleFlight`: a card tapped before its sibling is inserted resumes the turn,
   and the sibling resumes it again.
3. `LongConversationsAreFolded`: any trim makes the batch too short, and the batch is
   always the oldest rows, so a call at its last row with the result just behind
   stops the summarizer for good; a comment says the next tick will catch the pair.

`TidyFoldKeepsResults` is what is left of INV-2, and it is proved: when no two rows tie and
nothing visible stands between a call and its result, a fold never hides a result of the
replay.

More were seen on the way and have no run of their own:

* `ResumeSeesEveryResult`: a card is terminal before its result is recorded, so a
  sibling may resume "from the now-complete tool_results" without it;
* `FoldKeepsResults` (INV-2): the trim looks at trailing calls only. When a turn makes two
  calls and the batch ends with the result of one, both calls are folded and the
  other result stays behind, where the replay skips it; the same when a row of another
  request on the conversation stands between a call and its result (the insert of a turn
  takes no lock) and the batch ends with that row;
* 0391 calls the counter and the lease "one serializable decision": a caller that read
  its clock before the lock and waited over the end of a minute sets the bucket back,
  and the next caller starts the new minute afresh. A unit then grants more than its
  cap; `RateHolds` says by how much;
* a comment in the reminder store says that a retry is "a safe finalize" once the message is
  there: when the creator is removed in between, the retry aims at the announcements,
  finds the message in a direct conversation, and fails at every tick from then on;
* paused and misplaced reminders stay in the query, which takes the two hundred oldest:
  enough of them keep every other hotel's reminders waiting;
* lost connections and 429s raise `attempts` (`queue.ts:277`, `:349`), and the 5xx branch compares
  `attempts` with the budget (`:331`), while the comments beside them (`:273`, `:341`) say that
  such failures never use it up: an action may be given up at its first 5xx;
* the lookup of complete-clean against "retry-storm doubles" and its insert are two calls: two
  completions that overlap both find nothing and count one clean twice (`StartsCountOnce`
  excuses them, as `stale`), and a reset that overlaps a completion finds no event to discard;
* a pass that gives an action up at a 5xx reports no delay, so no timer is set for the
  actions behind it, and a direct send that throws makes the hook believe that it is
  offline until the browser reports a change: both leave work in the queue while
  the phone is online;
* a claim whose request was killed is answered with 503 for ever, and the drain stops
  at a 503: everything behind it waits;
* a write whose answer was lost in the database is released and filed again
  (`AppliedOnce` counts it, as `mislaid`);
* a finalize whose answer is lost is audited and also booked, while 0093 says the
  audit row is the only record;
* a comment (`route.ts:612-617`) says that stale siblings are expired because an ignored card
  would otherwise hang the turn; they are expired once, right after another card was resolved.
  A card that lapses later hangs it: no request looks at it again, and the tap that does expires
  it with a 409 and resumes nothing. `TurnIsResumed` therefore is about cards that lapsed
  before the last verdict was in;
* a resume that threw gives its claim back for "a later resolve attempt", but every
  later attempt is refused first, because all the cards are terminal;
* the audio gate is on the voice side only, so voice first and text afterwards
  spend the daily cap twice;
* a new message recorded while an approved tool runs pushes the tool's result
  behind itself, where the replay does not match it;
* nothing calls the reaper of approvals whose request was killed.

## What is proved

`SpendLedger_proofs` (any requests, users, hotels, caps and clocks satisfying the
module's assumptions): `TypeCorrect`, `SweeperSafe`, `KnownSpendKept`,
`SettledStands`, `CapsAlwaysHold`, `LedgerImplementsBudget`. The properties are not inductive: that the sweeper spares the living
needs the age of a hold tied to the age of its route (the hold is not younger than
the invocation, and a running route is not older than `MaxDuration`), and that the
price is kept needs to know, at each place of the route, what has become of the
row. `IInv` says both; it is preserved action by action.

`CapsAlwaysHold` and `LedgerImplementsBudget` are about sums of money. `CapsInv` is `CapsHold`
for every day there is, also those nobody has reserved on, and `HoldInv` adds what makes a
hold fit beside the others: rows in the table are finitely many, a route that was admitted
carries a user cap not above its tier's, a hold is worth its estimate, and a voice
call is never a hold. Then no step but an insert adds to the sum of a day (`LighterKeepsCaps`),
and an insert adds what the three checks left room for (`InsertKeepsCaps`). The refinement
maps holds and settlements to those of `SpendBudget`; its steps are proved one kind at a time. The
sum is the library's recursive function over subsets. `SetSums` compares it with a count
that is not recursive: a set is given as many units as its elements weigh, and what sums
do follows from what cardinalities do. The one induction is over the smallest subset for which
the two would differ, which exists because inclusion of finite sets is well founded, and so
needs no theorem with an operator for its parameter.

`ApprovalGate_proofs` (any cards, reads and taps): `TypeCorrect`, `AtMostOnce`,
`NeverDisowned`, `VerdictsStand`, `ResumeIsResolved`, `OneFlight`, and `GateImplementsConsent`, that every step is a
step of `ConsentOnce` or a stutter. The idea of `IInv` is ownership: between
its claim and the write of its outcome a resolver is the only one in that stretch
for its card, the card reads `approved` and has not run (or reads `denied`), and so
the finalize, which does not look at the status, overwrites only its own claim.
`FlightInv` carries the two theorems about resuming: in a turn that was staged in
full no row appears any more, terminal cards stay terminal, and every card is stamped
while somebody resumes, so that a second claim finds nothing to stamp.

`ConversationHistory_proofs` (any requests, overlapping summarizer runs, turn shapes,
threshold and bounds): `TypeCorrect`, `CountersExact`, `EveryFoldIsOnce`, `ReplayShows`,
`TidyFoldsKeepResults`. `IInv` adds to
the counters that a batch being folded is in the table with a newest row (so that
the summary's stamp exists), that a summary is only of rows that exist, and that a
folded row has exactly one summary. `InsertCounts` and `ApplyCounts` carry the sums: an
insert opens its new rows and no others, and a fold takes away what the trigger
subtracts, whatever the batch; that it takes each row once needs the count gate.

`ReplayShows` says which results the model is shown without the fold over the rows: those that
follow their call with nothing but rows of its turn between them, and then results
with no row of a turn behind them. The stamps order the rows (`RanksAreOrdered`,
`ReplayIsInOrder`), the fold ends in what a closed expression says of every prefix, and
two things that take the same steps agree, by the least step at which they would not
(`FoldingIsUnique`). `TidyFoldsKeepResults` rests on it and on `PlaceInv`: stamps are below the
clock and, but for summaries, even (`StampInv`), so that a summary pinned right behind a
row shares no stamp with another; a result is of one call and the only one of it
(`ResultInv`); and what a run has read stays the oldest of the open rows, but for user
turns that waited for the lock, and stays as the trim left it, while others write and fold
(`OldestInv`). Then the newest row of a batch that holds a call and not its result would
be that call, which the trim cuts; a batch that holds the result and not the call would
not be the oldest; and a summary between the two would put the newest row of its batch
there too.

`OfflineRoomWork_proofs` (any actions, requests, attempts and faults): `TypeCorrect`,
`AppliedAtMostOnce`, `ConfirmedWasApplied`, `OrderKept`. `IInv` is again ownership: at most one
request is between a claim and its completion or release (`ClaimInv`), a row that is
pending, done or gone says how often the write took effect and an ok that is on its way was
earned (`CountInv`), and the phone waits for at most one request of the drain, the oldest
of its pass (`HeardInv`, `RunnerInv`).

`ReminderDelivery_proofs` (any reminders, hotels, ticks, batch, faults, and any
`MaxDuration <= Lease`): `TypeCorrect`, `DelivererIsUnique`, `CancelHonoured`, `FiredAsAimed`. A
lease was taken after its tick began, and no tick is older than a lease may be; so
no other tick can find it stale, by whatever moment it judges.

`PortfolioAdmission_proofs` (any requests, caps, buckets, faults, and any `MaxDuration <
Lease`): `TypeCorrect`, `QueriesTakeTurns`, `RateIsBounded`. `LeaseInv` says that an admitted
request has the lease and that the lease of a live request runs for as long as the request
may live. `RateInv` bounds the grants of each bucket by how it stands to the row's: past
buckets by a cap, the row's by its count, later ones by nothing, plus one cap for
each setback.

`RoomClean_proofs` (any requests, any window shorter than a clean that counts, and any route
of less than half of one): `TypeCorrect`, `TimesAlwaysFit`, `PausesAlwaysFit`,
`StartsAlwaysCountOnce`, `DedupeAlwaysSpares`, which are all the properties of the run. `FitInv`
ties status and timestamps, in the row and in what a cleared exception has read of it, since
that is written back whole; `TimeInv` says that every instant has passed and no route is too old.
`PauseInv` lets the pauses fit at the instant of whoever is about to pause or resume. `NewInv` says
that an instant nobody has written yet is nobody's start, so (`CountInv`) the starts of the open
clean, of the completions about to be recorded and of the recorded ones all differ. A clean
that counts outlasts two routes, so what was finished before it began is settled by
then, and it outlasts the window (`DedupeInv`).

The proofs use `HistoryAssumption`, `GateAssumption`, `RowsAssumption`, `CapAssumption`,
`TimeAssumption`, `OfflineAssumption`, `ReminderAssumption`, `AdmissionAssumption`,
`RoomAssumption` and the two `LeaseAssumption`s; TLC evaluates them on every run.

Only model-checked is liveness (`HoldsAreReleased`, `TurnIsResumed`, `QueueDrains`,
`DueIsSettled`): fairness and ENABLED are out of the prover's reach. Every invariant and
every action property of a passing run, and both refinements, are stated by a theorem.

## Not modelled, and the plan

Abstracted on purpose: the text of messages, prompts and results, argument edits,
add-ons and the decision corpus, the event stream to the browser, token counts.
The counter heal of 0114 is left out because it does nothing while the counters
are exact, which is proved; portfolio conversations are never archived, and their
table is left out. Of the offline queue: failures of IndexedDB, two tabs over one
store, entries enqueued in the same millisecond. Of the reminders: the conversation's
ordering stamp, and a finalize that arrives after its tick was killed. Of the
admission: null arguments, and accounts deleted while they ask. Of the room: inspections,
suites, vacant rooms and the checklist, which write other columns or other rows; a row
that the day's plan has not made yet; the older `room-action` route's finish.

Next, in this order:

1. `IdempotencyClaim`: a takeover after five minutes and a record that names no owner.
2. `AgentTurn`, composing ledger, gate and history for one turn.
3. The other claims under row locks (findings judge budget, recurring tasks, companion wakes,
   join codes), which have the shape of the modelled ones, and the account lifecycle,
   which spans the auth service and the database.

The remaining components are arithmetic, presentation, external pages or I/O:
their state changes are single statements, which a model would only repeat.
