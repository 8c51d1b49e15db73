----------------------------- MODULE RoomClean -----------------------------
(***************************************************************************)
(* One room's day: the room_work row the housekeeper's taps move through   *)
(* dirty, in progress and clean, and the cleaning events the taps leave.   *)
(*                                                                         *)
(* Each route reads the row, decides on what it read, and upserts a patch  *)
(* with no condition on what the row has become (writeWorkflowFields); the *)
(* agent's tools go through applyRoomUpdate, which writes only if the      *)
(* status is still the one it read, if it could read it.  Completing then  *)
(* records an event unless one is recent; resetting discards the event of  *)
(* the completion that it read.  Any call may fail, any route be killed.   *)
(*                                                                         *)
(* The lookups of both tails are for the tapper's own events: one that     *)
(* finds nothing may be another's.                                         *)
(*                                                                         *)
(* 'inspected' is clean to every route here and is left out; so is the row *)
(* that does not exist yet: the day's plan has made it.                    *)
(***************************************************************************)
EXTENDS Integers

CONSTANTS
  Taps,          \* requests for this room, from any device or tool
  Before,        \* the requests of the time before we look
  DedupeWindow,  \* 90 seconds
  MinClean,      \* DISCARD_UNDER_MIN: a shorter clean is not counted
  MaxClean,      \* DISCARD_OVER_MIN: nor is a longer one
  MaxDuration,   \* the platform kills a route this long after it read
  MaxNow         \* bound: the clock stops here

ASSUME RoomAssumption ==
  /\ Before \notin Taps
  /\ DedupeWindow \in Nat /\ MinClean \in Nat /\ MaxClean \in Nat
  /\ MaxDuration \in Nat /\ MaxNow \in Nat
  /\ DedupeWindow < MinClean      \* 90 seconds against three minutes
  /\ 2 * MaxDuration < MinClean   \* 15 seconds

VARIABLES
  now,     \* the clock
  room,    \* the room_work row
  events,  \* cleaning_events of the room; counted: status is not 'discarded'
  at,      \* where each request is
  kind,    \* which route it is
  read,    \* the row it read
  stamp,   \* the instant it took for "now"
  stale    \* history: requests that wrote over a row they had not read

request == <<at, kind, read, stamp>>
vars == <<now, room, events, request, stale>>

\* No two requests take the same millisecond: an instant names its taker.
None == <<>>
Stamps == (Taps \cup {Before}) \X Int
Tick(s) == s[2]

Marks == {"mark_clean", "mark_dirty"}
Kinds == {"start", "pause", "resume", "complete", "exception", "clear", "reset"}
         \cup Marks
Running == {"named", "blind", "loaded", "written", "fresh", "found"}
Rows == [status : {"not_started", "in_progress", "completed"},
         startedAt : Stamps \cup {None}, completedAt : Stamps \cup {None},
         paused : BOOLEAN, pausedAt : Stamps \cup {None}, pausedTotal : Nat,
         exception : BOOLEAN]

TypeOK ==
  /\ now \in Nat
  /\ room \in Rows
  /\ events \subseteq [start : Stamps, done : Stamps, counted : BOOLEAN]
  /\ at \in [Taps -> {"idle", "deduped", "ended"} \cup Running]
  /\ kind \in [Taps -> Kinds]
  /\ read \in [Taps -> Rows]
  /\ stamp \in [Taps -> Stamps]
  /\ stale \subseteq Taps

Dirty == [status |-> "not_started", startedAt |-> None, completedAt |-> None,
          paused |-> FALSE, pausedAt |-> None, pausedTotal |-> 0,
          exception |-> FALSE]
Begun == [Dirty EXCEPT !.status = "in_progress", !.startedAt = <<Before, 0>>]

\* A clean of earlier the same day, just long enough to count.
Earlier == [start |-> <<Before, -1 - MinClean>>, done |-> <<Before, -1>>,
            counted |-> TRUE]
Cleaned == [Dirty EXCEPT !.status = "completed", !.startedAt = Earlier.start,
                         !.completedAt = Earlier.done]

\* The room is dirty, begun, done, or done and begun again.
Init ==
  /\ now = 0
  /\ \/ room \in {Dirty, Begun} /\ events = {}
     \/ room \in {Cleaned, Begun} /\ events = {Earlier}
  /\ at = [q \in Taps |-> "idle"]
  /\ kind = [q \in Taps |-> "start"]
  /\ read = [q \in Taps |-> Dirty]
  /\ stamp = [q \in Taps |-> <<q, 0>>]
  /\ stale = {}

----------------------------------------------------------------------------
(* The state machine: what the row means, what it allows, what is written *)

\* deriveStatus: the timestamps speak before the status does.
Derived(r) == IF r.status = "completed" \/ r.completedAt # None THEN "clean"
              ELSE IF r.startedAt # None THEN "in_progress" ELSE "dirty"

\* STATUS_MAP of writeWorkflowFields.
StatusOf(d) == CASE d = "dirty" -> "not_started"
                 [] d = "in_progress" -> "in_progress"
                 [] d = "clean" -> "completed"

\* Mutant: the operands of the difference are swapped.
ElapsedBackwards(s, t) == IF s = None THEN 0 ELSE Tick(s) - Tick(t)

Elapsed(s, t) == IF s = None \/ Tick(t) < Tick(s) THEN 0 ELSE Tick(t) - Tick(s)

\* Mutant: completing does not ask for a room in progress.
AllowedFromAnyStatus(k, r) ==
  \/ k \in {"complete", "reset"} \cup Marks
  \/ k = "start" /\ Derived(r) = "dirty" /\ ~r.exception
  \/ k = "pause" /\ Derived(r) = "in_progress" /\ ~r.paused
  \/ k = "resume" /\ Derived(r) = "in_progress" /\ r.paused
  \/ k = "exception" /\ Derived(r) # "clean"
  \/ k = "clear" /\ r.exception

\* transition; a reset is not checked, nor are the tools of the agent.
Allowed(k, r) ==
  \/ k = "start" /\ Derived(r) = "dirty" /\ ~r.exception
  \/ k = "pause" /\ Derived(r) = "in_progress" /\ ~r.paused
  \/ k = "resume" /\ Derived(r) = "in_progress" /\ r.paused
  \/ k = "complete" /\ Derived(r) = "in_progress"
  \/ k = "exception" /\ Derived(r) # "clean"
  \/ k = "clear" /\ r.exception
  \/ k \in {"reset"} \cup Marks

\* Mutant: the pause is added up and left open.
UnpausedOnPaper(r, n) == [r EXCEPT !.pausedTotal = n]

Unpaused(r, n) == [r EXCEPT !.paused = FALSE, !.pausedAt = None, !.pausedTotal = n]
NotStarted(r) == [r EXCEPT !.status = "not_started", !.startedAt = None,
                           !.completedAt = None]
Finished(r, s, t) == [r EXCEPT !.status = "completed", !.completedAt = t,
                               !.startedAt = IF s.startedAt = None THEN t ELSE s.startedAt]

\* The pause that is open when the room is resumed or completed is closed.
PausedInAll(s, t) == s.pausedTotal + IF s.paused THEN Elapsed(s.pausedAt, t) ELSE 0

\* Mutant: starting leaves the completion of an earlier clean on the row.
StartedOver(r, t) ==
  Unpaused([r EXCEPT !.status = "in_progress", !.startedAt = t], 0)

Started(r, t) ==
  Unpaused([r EXCEPT !.status = "in_progress", !.startedAt = t,
                     !.completedAt = None], 0)

\* The row r after the patch of a route that read s and took t for now.
Patched(k, r, s, t) ==
  CASE k = "start" -> Started(r, t)
    [] k = "pause" -> [r EXCEPT !.paused = TRUE, !.pausedAt = t]
    [] k = "resume" -> Unpaused(r, PausedInAll(s, t))
    [] k = "complete" -> Unpaused(Finished(r, s, t), PausedInAll(s, t))
    [] k = "exception" -> [Unpaused(NotStarted(r), 0) EXCEPT !.exception = TRUE]
    [] k = "clear" -> [s EXCEPT !.status = StatusOf(Derived(s)), !.exception = FALSE]
    [] k = "reset" -> [Unpaused(NotStarted(r), 0) EXCEPT !.exception = FALSE]
    [] k = "mark_clean" -> Finished(r, s, t)
    [] k = "mark_dirty" -> NotStarted(r)

----------------------------------------------------------------------------
(* Reading and writing the row *)

Goto(q, p) == at' = [at EXCEPT ![q] = p]
Stays == UNCHANGED <<now, room, events, kind, read, stamp, stale>>

\* gateHousekeeperRequest and loadRoomForStaff, then the transition; for a tool
\* of the agent the first look at the room, which gives the start of the clean.
Load(q, k) ==
  /\ at[q] = "idle" /\ Allowed(k, room)
  /\ kind' = [kind EXCEPT ![q] = k]
  /\ read' = [read EXCEPT ![q] = room]
  /\ stamp' = [stamp EXCEPT ![q] = <<q, now>>]
  /\ Goto(q, IF k \in Marks THEN "named" ELSE "loaded")
  /\ UNCHANGED <<now, room, events, stale>>

\* 409: an illegal transition leaves no trace.
Refuse(q, k) ==
  /\ at[q] = "idle" /\ ~Allowed(k, room)
  /\ Goto(q, "ended") /\ Stays

\* applyRoomUpdate fetches the row again, for the status its write is held to.
Prefetch(q) ==
  /\ at[q] = "named"
  /\ read' = [read EXCEPT ![q] = [room EXCEPT !.startedAt = read[q].startedAt]]
  /\ Goto(q, "loaded")
  /\ UNCHANGED <<now, room, events, kind, stamp, stale>>

\* The fetch fails: the row is taken to be absent, and is upserted.
PrefetchFails(q) ==
  /\ at[q] = "named"
  /\ Goto(q, "blind") /\ Stays

Write(q) ==
  /\ at[q] \in {"loaded", "blind"}
  /\ at[q] = "loaded" /\ kind[q] \in Marks => room.status = read[q].status
  /\ room' = Patched(kind[q], room, read[q], stamp[q])
  /\ stale' = IF room = read[q] THEN stale ELSE stale \cup {q}
  /\ Goto(q, IF kind[q] = "complete"
                \/ (kind[q] = "reset" /\ read[q].completedAt # None)
             THEN "written" ELSE "ended")
  /\ UNCHANGED <<now, events, kind, read, stamp>>

\* The status moved under the tool's update, which is skipped.
RaceLost(q) ==
  /\ at[q] = "loaded" /\ kind[q] \in Marks /\ room.status # read[q].status
  /\ Goto(q, "ended") /\ Stays

WriteFails(q) ==
  /\ at[q] \in {"loaded", "blind"}
  /\ Goto(q, "ended") /\ Stays

----------------------------------------------------------------------------
(* The tail of completing: one event, unless one is recent *)

ActiveTime(q) == LET whole == Elapsed(read[q].startedAt, stamp[q])
                     idle == PausedInAll(read[q], stamp[q])
                 IN  IF whole < idle THEN 0 ELSE whole - idle
Countable(n) == MinClean <= n /\ n <= MaxClean

\* Mutant: the lookup forgets its window.
CountedAtAll(e) == e.counted

CountedLately(e) == e.counted /\ Tick(e.done) >= now - DedupeWindow

FindRecent(q) ==
  /\ at[q] = "written" /\ kind[q] = "complete"
  /\ \E e \in events : CountedLately(e)
  /\ Goto(q, "deduped") /\ Stays

\* Nothing is recent, or the lookup fails, which reads the same.
FindNoRecent(q) ==
  /\ at[q] = "written" /\ kind[q] = "complete"
  /\ Goto(q, "fresh") /\ Stays

InsertEvent(q) ==
  /\ at[q] = "fresh"
  /\ events' = events \cup
       {[start |-> IF read[q].startedAt = None THEN stamp[q] ELSE read[q].startedAt,
         done |-> stamp[q], counted |-> Countable(ActiveTime(q))]}
  /\ Goto(q, "ended")
  /\ UNCHANGED <<now, room, kind, read, stamp, stale>>

InsertFails(q) ==
  /\ at[q] = "fresh"
  /\ Goto(q, "ended") /\ Stays

----------------------------------------------------------------------------
(* The tail of a reset: the event of the completion it read is discarded *)

OfReopened(q, e) == e.done = read[q].completedAt

FindEvent(q) ==
  /\ at[q] = "written" /\ kind[q] = "reset"
  /\ \E e \in events : e.counted /\ OfReopened(q, e)
  /\ Goto(q, "found") /\ Stays

\* No such event, or the lookup fails; the reset stands either way.
FindNoEvent(q) ==
  /\ at[q] = "written" /\ kind[q] = "reset"
  /\ Goto(q, "ended") /\ Stays

Discard(q) ==
  /\ at[q] = "found"
  /\ events' = {[e EXCEPT !.counted = @ /\ ~OfReopened(q, e)] : e \in events}
  /\ Goto(q, "ended")
  /\ UNCHANGED <<now, room, kind, read, stamp, stale>>

DiscardFails(q) ==
  /\ at[q] = "found"
  /\ Goto(q, "ended") /\ Stays

----------------------------------------------------------------------------
Die(q) ==
  /\ at[q] \in Running
  /\ Goto(q, "ended") /\ Stays

\* No route outlives its maxDuration.
Pass ==
  /\ now < MaxNow
  /\ \A q \in Taps : at[q] \in Running => now < Tick(stamp[q]) + MaxDuration
  /\ now' = now + 1
  /\ UNCHANGED <<room, events, request, stale>>

Next ==
  \/ \E q \in Taps : \E k \in Kinds : Load(q, k) \/ Refuse(q, k)
  \/ \E q \in Taps :
       \/ Prefetch(q) \/ PrefetchFails(q)
       \/ Write(q) \/ RaceLost(q) \/ WriteFails(q)
       \/ FindRecent(q) \/ FindNoRecent(q) \/ InsertEvent(q) \/ InsertFails(q)
       \/ FindEvent(q) \/ FindNoEvent(q) \/ Discard(q) \/ DiscardFails(q)
       \/ Die(q)
  \/ Pass

Spec == Init /\ [][Next]_vars

----------------------------------------------------------------------------
(* Properties *)

\* The status column, which the tools' guard trusts, and the timestamps, which
\* deriveStatus trusts, tell the same story, however stale the reads the patches
\* were made from: no patch mixes the end of one clean with the start of another.
TimesFitStatus ==
  /\ room.status = "not_started" <=> room.startedAt = None
  /\ room.status = "completed" <=> room.completedAt # None

\* No start is counted twice: only requests that wrote over a row they had not
\* read can leave two counted events of one start; retries in sequence, slow
\* tails and kills cannot.  The clean after a reset has a start of its own, so
\* this says nothing of the event that the reset should discard.
StartsCountOnce ==
  stale = {} =>
    \A e, f \in events : e.counted /\ f.counted /\ e.start = f.start => e = f

\* The 90 second window against doubles never swallows a clean that would have
\* counted: what it drops is too short, since three minutes are longer.
DedupeSparesCleans ==
  stale = {} => \A q \in Taps : at[q] = "deduped" => ~Countable(ActiveTime(q))

\* The pauses of a clean in progress fit between its start and now, so the
\* active time is never clipped at zero.
PauseSoFar == room.pausedTotal +
                IF room.paused THEN now - Tick(room.pausedAt) ELSE 0
PausesFitTheClean ==
  (stale = {} /\ room.status = "in_progress") =>
    PauseSoFar <= now - Tick(room.startedAt)
=============================================================================
