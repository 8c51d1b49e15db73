-------------------------- MODULE RoomClean_proofs --------------------------
(***************************************************************************)
(* Theorems about RoomClean for any number of requests and any windows     *)
(* that are as far apart as the code's (RoomAssumption).                   *)
(***************************************************************************)
EXTENDS RoomClean, TLAPS

LEMMA StampFacts ==
  /\ None \notin Stamps
  /\ \A s \in Stamps : Tick(s) \in Int
  /\ \A q \in Taps \cup {Before}, n \in Int :
       <<q, n>> \in Stamps /\ <<q, n>> # None /\ Tick(<<q, n>>) = n
BY DEF None, Stamps, Tick

(***************************************************************************)
(* What the state machine returns.                                         *)
(***************************************************************************)
LEMMA ElapsedType ==
  ASSUME NEW s \in Stamps \cup {None}, NEW t \in Stamps
  PROVE  Elapsed(s, t) \in Nat
BY StampFacts DEF Elapsed

LEMMA PausedInAllType ==
  ASSUME NEW s \in Rows, NEW t \in Stamps
  PROVE  PausedInAll(s, t) \in Nat
<1>1. s.pausedTotal \in Nat /\ s.pausedAt \in Stamps \cup {None}
  BY DEF Rows
<1> QED
  BY <1>1, ElapsedType DEF PausedInAll

LEMMA PatchedType ==
  ASSUME NEW k \in Kinds, NEW r \in Rows, NEW s \in Rows, NEW t \in Stamps
  PROVE  Patched(k, r, s, t) \in Rows
<1>1. PausedInAll(s, t) \in Nat
  BY PausedInAllType
<1>2. ASSUME NEW x \in Rows, NEW n \in Nat PROVE Unpaused(x, n) \in Rows
  BY <1>2 DEF Unpaused, Rows
<1>3. NotStarted(r) \in Rows /\ Finished(r, s, t) \in Rows
  BY DEF NotStarted, Finished, Rows
<1>4. CASE k = "start"
  <2>1. [r EXCEPT !.status = "in_progress", !.startedAt = t, !.completedAt = None] \in Rows
    BY DEF Rows
  <2> QED
    BY <1>4, <1>2, <2>1 DEF Patched, Started
<1>5. CASE k = "pause"
  BY <1>5 DEF Patched, Rows
<1>6. CASE k \in {"resume", "complete"}
  BY <1>6, <1>1, <1>2, <1>3 DEF Patched
<1>7. CASE k \in {"exception", "reset"}
  <2>1. Unpaused(NotStarted(r), 0) \in Rows
    BY <1>2, <1>3
  <2> QED
    BY <1>7, <2>1 DEF Patched, Rows
<1>8. CASE k = "clear"
  <2>1. StatusOf(Derived(s)) \in {"not_started", "in_progress", "completed"}
    BY DEF StatusOf, Derived
  <2> QED
    BY <1>8, <2>1 DEF Patched, Rows
<1>9. CASE k \in Marks
  BY <1>9, <1>3 DEF Patched, Marks
<1> QED
  BY <1>4, <1>5, <1>6, <1>7, <1>8, <1>9 DEF Kinds, Marks

(***************************************************************************)
(* Type correctness.                                                       *)
(***************************************************************************)
LEMMA EarlyStamps ==
  /\ <<Before, 0>> \in Stamps /\ Earlier.start \in Stamps /\ Earlier.done \in Stamps
  /\ Earlier.start = <<Before, -1 - MinClean>> /\ Earlier.done = <<Before, -1>>
  /\ Earlier \in [start : Stamps, done : Stamps, counted : BOOLEAN]
<1>1. -1 - MinClean \in Int
  BY RoomAssumption
<1>2. <<Before, -1 - MinClean>> \in Stamps
  BY <1>1, StampFacts
<1>3. <<Before, -1>> \in Stamps /\ <<Before, 0>> \in Stamps
  BY StampFacts
<1> QED
  BY <1>2, <1>3 DEF Earlier

LEMMA EarlyRows ==
  /\ Dirty \in Rows /\ Begun \in Rows /\ Cleaned \in Rows
  /\ Begun.status = "in_progress" /\ Begun.startedAt = <<Before, 0>>
  /\ Begun.completedAt = None /\ ~Begun.paused /\ Begun.pausedTotal = 0
  /\ Cleaned.status = "completed" /\ Cleaned.startedAt = Earlier.start
  /\ Cleaned.completedAt = Earlier.done
<1>1. Dirty \in Rows
  BY DEF Dirty, Rows
<1>2. Begun \in Rows
  BY <1>1, EarlyStamps DEF Begun, Rows
<1>3. Cleaned \in Rows
  BY <1>1, EarlyStamps DEF Cleaned, Rows
<1>4. /\ Dirty.completedAt = None /\ ~Dirty.paused /\ Dirty.pausedTotal = 0
  BY DEF Dirty
<1>5. /\ Begun.status = "in_progress" /\ Begun.startedAt = <<Before, 0>>
      /\ Begun.completedAt = None /\ ~Begun.paused /\ Begun.pausedTotal = 0
  BY <1>1, <1>4 DEF Begun, Rows
<1>6. /\ Cleaned.status = "completed" /\ Cleaned.startedAt = Earlier.start
      /\ Cleaned.completedAt = Earlier.done
  BY <1>1 DEF Cleaned, Rows
<1> QED
  BY <1>1, <1>2, <1>3, <1>5, <1>6

LEMMA InitRows == Init => TypeOK
<1> SUFFICES ASSUME Init PROVE TypeOK
  OBVIOUS
<1>1. Dirty \in Rows /\ Begun \in Rows /\ Cleaned \in Rows
  BY EarlyRows
<1>2. Earlier \in [start : Stamps, done : Stamps, counted : BOOLEAN]
  BY EarlyStamps
<1>3. \A q \in Taps : <<q, 0>> \in Stamps
  BY StampFacts
<1> QED
  BY <1>1, <1>2, <1>3 DEF Init, TypeOK, Kinds, Running

LEMMA NextKeepsTypes ==
  ASSUME TypeOK, [Next]_vars
  PROVE  TypeOK'
<1>1. CASE UNCHANGED vars
  BY <1>1 DEF TypeOK, vars, request
<1>2. ASSUME NEW q \in Taps, NEW k \in Kinds, Load(q, k) PROVE TypeOK'
  <2>1. <<q, now>> \in Stamps
    BY StampFacts DEF TypeOK
  <2> QED
    BY <1>2, <2>1 DEF TypeOK, Load, Goto, Running
<1>3. ASSUME NEW q \in Taps, Prefetch(q) PROVE TypeOK'
  <2>1. [room EXCEPT !.startedAt = read[q].startedAt] \in Rows
    BY DEF TypeOK, Rows
  <2> QED
    BY <1>3, <2>1 DEF TypeOK, Prefetch, Goto, Running
<1>4. ASSUME NEW q \in Taps, Write(q) PROVE TypeOK'
  <2>1. Patched(kind[q], room, read[q], stamp[q]) \in Rows
    BY PatchedType DEF TypeOK
  <2> QED
    BY <1>4, <2>1 DEF TypeOK, Write, Goto, Running
<1>5. ASSUME NEW q \in Taps, InsertEvent(q) PROVE TypeOK'
  <2>1. /\ stamp[q] \in Stamps
        /\ (IF read[q].startedAt = None THEN stamp[q] ELSE read[q].startedAt) \in Stamps
    BY DEF TypeOK, Rows
  <2>2. Countable(ActiveTime(q)) \in BOOLEAN
    BY DEF Countable
  <2> QED
    BY <1>5, <2>1, <2>2 DEF TypeOK, InsertEvent, Goto, Running
<1>6. ASSUME NEW q \in Taps, Discard(q) PROVE TypeOK'
  <2>1. ASSUME NEW e \in events
        PROVE  [e EXCEPT !.counted = @ /\ ~OfReopened(q, e)]
                 \in [start : Stamps, done : Stamps, counted : BOOLEAN]
    BY DEF TypeOK
  <2> QED
    BY <1>6, <2>1 DEF TypeOK, Discard, Goto, Running
<1>7. ASSUME NEW q \in Taps, NEW k \in Kinds, Refuse(q, k) PROVE TypeOK'
  BY <1>7 DEF TypeOK, Refuse, Stays, Goto, Running
<1>8. ASSUME NEW q \in Taps,
             \/ PrefetchFails(q) \/ RaceLost(q) \/ WriteFails(q) \/ FindRecent(q) \/ FindNoRecent(q)
             \/ InsertFails(q) \/ FindEvent(q) \/ FindNoEvent(q) \/ DiscardFails(q)
             \/ Die(q)
      PROVE TypeOK'
  BY <1>8 DEF TypeOK, PrefetchFails, RaceLost, WriteFails, FindRecent, FindNoRecent, InsertFails,
              FindEvent, FindNoEvent, DiscardFails, Die, Stays, Goto, Running
<1>9. CASE Pass
  BY <1>9 DEF TypeOK, Pass, request
<1> QED
  BY <1>1, <1>2, <1>3, <1>4, <1>5, <1>6, <1>7, <1>8, <1>9 DEF Next

\* The model keeps to its types.
THEOREM TypeCorrect == Spec => []TypeOK
<1>1. TypeOK /\ [Next]_vars => TypeOK'
  BY NextKeepsTypes
<1> QED
  BY <1>1, InitRows, PTL DEF Spec

(***************************************************************************)
(* The status and the timestamps.  A patch that does not set all three is  *)
(* made from the row it lands on, save that of a cleared exception, which  *)
(* writes back a row that was read whole: so the rows such routes have     *)
(* read fit as well.                                                       *)
(***************************************************************************)
Fits(r) == /\ r.status = "not_started" <=> r.startedAt = None
           /\ r.status = "completed" <=> r.completedAt # None
FitInv == /\ Fits(room)
          /\ \A q \in Taps : /\ kind[q] = "clear" => Fits(read[q])
                             /\ at[q] = "named" => kind[q] \in Marks

LEMMA PatchFits ==
  ASSUME NEW k \in Kinds, NEW r \in Rows, NEW s \in Rows, NEW t \in Stamps,
         Fits(r), k = "clear" => Fits(s)
  PROVE  Fits(Patched(k, r, s, t))
<1>1. t # None
  BY StampFacts
<1>2. CASE k = "start"
  BY <1>1, <1>2 DEF Patched, Started, Unpaused, Fits, Rows
<1>3. CASE k \in {"pause", "resume"}
  BY <1>3 DEF Patched, Unpaused, Fits, Rows
<1>4. CASE k \in {"complete", "mark_clean"}
  BY <1>1, <1>4 DEF Patched, Finished, Unpaused, Fits, Rows
<1>5. CASE k \in {"exception", "reset", "mark_dirty"}
  BY <1>5 DEF Patched, NotStarted, Unpaused, Fits, Rows
<1>6. CASE k = "clear"
  BY <1>6 DEF Patched, StatusOf, Derived, Fits, Rows
<1> QED
  BY <1>2, <1>3, <1>4, <1>5, <1>6 DEF Kinds, Marks

LEMMA InitFits == Init => FitInv
<1> SUFFICES ASSUME Init PROVE FitInv
  OBVIOUS
<1>1. Fits(Dirty)
  BY DEF Fits, Dirty
<1>2. Fits(Begun) /\ Fits(Cleaned)
  BY EarlyRows, EarlyStamps, StampFacts DEF Fits
<1> QED
  BY <1>1, <1>2 DEF Init, FitInv

LEMMA NextKeepsFit ==
  ASSUME TypeOK, FitInv, [Next]_vars
  PROVE  FitInv'
<1>1. ASSUME NEW q \in Taps, NEW k \in Kinds, Load(q, k) PROVE FitInv'
  BY <1>1 DEF FitInv, Load, Goto, TypeOK, Fits
<1>2. ASSUME NEW q \in Taps, Prefetch(q) PROVE FitInv'
  BY <1>2 DEF FitInv, Prefetch, Goto, TypeOK, Fits, Marks
<1>3. ASSUME NEW q \in Taps, Write(q) PROVE FitInv'
  <2>1. Fits(Patched(kind[q], room, read[q], stamp[q]))
    BY PatchFits DEF FitInv, TypeOK
  <2> QED
    BY <1>3, <2>1 DEF FitInv, Write, Goto, TypeOK, Fits
<1>4. ASSUME NEW q \in Taps, NEW p \in Running \cup {"deduped", "ended"},
             p # "named", Goto(q, p), UNCHANGED <<room, kind, read>>
      PROVE FitInv'
  BY <1>4 DEF FitInv, Goto, TypeOK, Fits
<1>5. ASSUME UNCHANGED <<room, at, kind, read>> PROVE FitInv'
  BY <1>5 DEF FitInv, Fits
<1>6. ASSUME NEW q \in Taps, NEW k \in Kinds, Refuse(q, k) PROVE FitInv'
  BY <1>4, <1>6 DEF Refuse, Stays, Running
<1>7. ASSUME NEW q \in Taps,
             \/ PrefetchFails(q) \/ RaceLost(q) \/ WriteFails(q) \/ FindRecent(q) \/ FindNoRecent(q)
             \/ InsertEvent(q) \/ InsertFails(q) \/ FindEvent(q) \/ FindNoEvent(q)
             \/ Discard(q) \/ DiscardFails(q) \/ Die(q)
      PROVE FitInv'
  BY <1>4, <1>7 DEF PrefetchFails, RaceLost, WriteFails, FindRecent, FindNoRecent, InsertEvent,
     InsertFails, FindEvent, FindNoEvent, Discard, DiscardFails, Die, Stays, Running
<1>8. CASE Pass \/ UNCHANGED vars
  BY <1>5, <1>8 DEF Pass, vars, request
<1> QED
  BY <1>1, <1>2, <1>3, <1>6, <1>7, <1>8 DEF Next

\* However stale the reads, the status and the timestamps agree.
THEOREM TimesAlwaysFit == Spec => []TimesFitStatus
<1>1. Init => TypeOK /\ FitInv
  BY InitRows, InitFits
<1>2. TypeOK /\ FitInv /\ [Next]_vars => TypeOK' /\ FitInv'
  BY NextKeepsTypes, NextKeepsFit
<1>3. FitInv => TimesFitStatus
  BY DEF FitInv, Fits, TimesFitStatus
<1> QED
  BY <1>1, <1>2, <1>3, PTL DEF Spec

(***************************************************************************)
(* The steps, with those that only end a request taken together.           *)
(***************************************************************************)
Ends(q) == Goto(q, "ended") /\ Stays

LEMMA Steps ==
  ASSUME [Next]_vars
  PROVE  \/ \E q \in Taps : \E k \in Kinds : Load(q, k)
         \/ \E q \in Taps :
              \/ Prefetch(q) \/ PrefetchFails(q) \/ Write(q)
              \/ FindRecent(q) \/ FindNoRecent(q)
              \/ InsertEvent(q) \/ FindEvent(q) \/ Discard(q) \/ Ends(q)
         \/ Pass \/ UNCHANGED vars
<1>1. ASSUME NEW q \in Taps, NEW k \in Kinds, Refuse(q, k) PROVE Ends(q)
  BY <1>1 DEF Refuse, Ends
<1>2. ASSUME NEW q \in Taps,
             \/ RaceLost(q) \/ WriteFails(q) \/ InsertFails(q)
             \/ FindNoEvent(q) \/ DiscardFails(q) \/ Die(q)
      PROVE Ends(q)
  BY <1>2 DEF RaceLost, WriteFails, InsertFails, FindNoEvent, DiscardFails, Die, Ends
<1> QED
  BY <1>1, <1>2 DEF Next

(***************************************************************************)
(* Where a request is tells what it is; what it wrote, it was allowed to;  *)
(* its instant is its own, and no older than a route may be.               *)
(***************************************************************************)
By(s) == s[1]

LEMMA ByFacts == \A q \in Taps \cup {Before}, n \in Int : By(<<q, n>>) = q
BY DEF By

PlaceInv ==
  \A q \in Taps :
    /\ at[q] = "loaded" => kind[q] \in Marks \/ Allowed(kind[q], read[q])
    /\ at[q] \in {"named", "blind"} => kind[q] \in Marks
    /\ at[q] \in {"fresh", "deduped"} => kind[q] = "complete"
    /\ at[q] = "found" => kind[q] = "reset"
    /\ at[q] = "written" => kind[q] \in {"complete", "reset"}

TimeInv ==
  /\ now >= 0
  /\ \A e \in events : Tick(e.done) <= now
  /\ \A q \in Taps :
       /\ By(stamp[q]) = q /\ Tick(stamp[q]) <= now
       /\ at[q] \in Running => now <= Tick(stamp[q]) + MaxDuration

LEMMA InitPlaces == Init => PlaceInv /\ TimeInv
<1> SUFFICES ASSUME Init PROVE PlaceInv /\ TimeInv
  OBVIOUS
<1>1. PlaceInv
  BY DEF Init, PlaceInv
<1>2. Tick(Earlier.done) = -1
  BY StampFacts, EarlyStamps
<1>3. \A e \in events : Tick(e.done) <= now
  BY <1>2 DEF Init
<1>4. ASSUME NEW q \in Taps PROVE By(stamp[q]) = q /\ Tick(stamp[q]) = 0
  <2>1. stamp[q] = <<q, 0>>
    BY DEF Init
  <2> QED
    BY <2>1 DEF By, Tick
<1> QED
  BY <1>1, <1>3, <1>4 DEF Init, TimeInv, Running

LEMMA NextKeepsPlaces ==
  ASSUME TypeOK, PlaceInv, [Next]_vars
  PROVE  PlaceInv'
<1>1. ASSUME NEW q \in Taps, NEW k \in Kinds, Load(q, k) PROVE PlaceInv'
  BY <1>1 DEF PlaceInv, Load, Goto, TypeOK, Allowed, Derived, Marks
<1>2. ASSUME NEW q \in Taps, Prefetch(q) PROVE PlaceInv'
  BY <1>2 DEF PlaceInv, Prefetch, Goto, TypeOK, Allowed, Derived, Marks
<1>3. ASSUME NEW q \in Taps,
             NEW p \in Running \cup {"deduped", "ended"},
             Goto(q, p), UNCHANGED <<kind, read>>, p \notin {"named", "loaded"},
             p = "blind" => kind[q] \in Marks,
             p \in {"fresh", "deduped"} => kind[q] = "complete",
             p = "found" => kind[q] = "reset",
             p = "written" => kind[q] \in {"complete", "reset"}
      PROVE PlaceInv'
  BY <1>3 DEF PlaceInv, Goto, TypeOK, Allowed, Derived
<1>4. ASSUME NEW q \in Taps, Write(q) PROVE PlaceInv'
  BY <1>3, <1>4 DEF Write, Running
<1>5. ASSUME NEW q \in Taps,
             \/ PrefetchFails(q) \/ FindRecent(q) \/ FindNoRecent(q) \/ InsertEvent(q)
             \/ FindEvent(q) \/ Discard(q) \/ Ends(q)
      PROVE PlaceInv'
  BY <1>3, <1>5 DEF PlaceInv, PrefetchFails, FindRecent, FindNoRecent, InsertEvent,
                    FindEvent, Discard, Ends, Stays, Running
<1>6. CASE Pass \/ UNCHANGED vars
  BY <1>6 DEF PlaceInv, Pass, vars, request, Allowed, Derived
<1> QED
  BY <1>1, <1>2, <1>4, <1>5, <1>6, Steps

LEMMA NextKeepsTimes ==
  ASSUME TypeOK, TimeInv, [Next]_vars
  PROVE  TimeInv'
<1> USE RoomAssumption
<1>1. ASSUME NEW q \in Taps, NEW k \in Kinds, Load(q, k) PROVE TimeInv'
  <2>1. By(<<q, now>>) = q /\ Tick(<<q, now>>) = now
    BY ByFacts, StampFacts DEF TypeOK
  <2> QED
    BY <1>1, <2>1 DEF TimeInv, Load, Goto, TypeOK, Running
<1>2. ASSUME NEW q \in Taps,
             NEW p \in Running \cup {"deduped", "ended"}, Goto(q, p),
             p \in Running => at[q] \in Running, UNCHANGED <<now, events, stamp>>
      PROVE TimeInv'
  BY <1>2 DEF TimeInv, Goto, TypeOK
<1>3. ASSUME NEW q \in Taps, Prefetch(q) \/ PrefetchFails(q) \/ FindRecent(q)
                             \/ FindNoRecent(q) \/ FindEvent(q) \/ Ends(q)
      PROVE TimeInv'
  BY <1>2, <1>3 DEF Prefetch, PrefetchFails, FindRecent, FindNoRecent, FindEvent, Ends, Stays,
                    Running
<1>8. ASSUME NEW q \in Taps, Write(q) PROVE TimeInv'
  <2>1. at[q] \in Running /\ UNCHANGED <<now, events, stamp>>
    BY <1>8 DEF Write, Running
  <2>2. Goto(q, "written") \/ Goto(q, "ended")
    BY <1>8 DEF Write
  <2> QED
    BY <1>2, <2>1, <2>2 DEF Running
<1>4. ASSUME NEW q \in Taps, InsertEvent(q) PROVE TimeInv'
  BY <1>4 DEF TimeInv, InsertEvent, Goto, TypeOK, Running
<1>5. ASSUME NEW q \in Taps, Discard(q) PROVE TimeInv'
  <2>1. \A e \in events' : \E f \in events : e.done = f.done
    BY <1>5 DEF Discard, TypeOK
  <2> QED
    BY <1>5, <2>1 DEF TimeInv, Discard, Goto, TypeOK, Running
<1>6. CASE Pass
  <2>1. \A q \in Taps : Tick(stamp[q]) \in Int
    BY StampFacts DEF TypeOK
  <2>2. \A e \in events : Tick(e.done) \in Int
    BY StampFacts DEF TypeOK
  <2> QED
    BY <1>6, <2>1, <2>2 DEF TimeInv, Pass, request, TypeOK
<1>7. CASE UNCHANGED vars
  BY <1>7 DEF TimeInv, vars, request
<1> QED
  BY <1>1, <1>3, <1>4, <1>5, <1>6, <1>7, <1>8, Steps

(***************************************************************************)
(* A write over the row it read: what becomes of a clean in progress.      *)
(***************************************************************************)
Open == room.startedAt # None /\ room.completedAt = None

LEMMA InProgress ==
  ASSUME NEW r \in Rows
  PROVE  /\ Derived(r) = "in_progress" => r.startedAt # None /\ r.completedAt = None
         /\ Derived(r) = "dirty" => r.startedAt = None
BY DEF Derived

LEMMA UnracedWrite ==
  ASSUME TypeOK, PlaceInv, NEW q \in Taps, Write(q), stale' = {}
  PROVE  /\ stale = {} /\ room = read[q]
         /\ \/ /\ kind[q] = "start" /\ ~Open
               /\ room'.startedAt = stamp[q] /\ room'.completedAt = None
               /\ room'.paused = FALSE /\ room'.pausedTotal = 0
            \/ /\ kind[q] = "pause" /\ Open
               /\ room'.startedAt = room.startedAt /\ room'.completedAt = room.completedAt
               /\ room'.paused = TRUE /\ room'.pausedAt = stamp[q]
               /\ room'.pausedTotal = room.pausedTotal
            \/ /\ kind[q] = "resume" /\ Open /\ room.paused
               /\ room'.startedAt = room.startedAt /\ room'.completedAt = room.completedAt
               /\ room'.paused = FALSE
               /\ room'.pausedTotal = PausedInAll(room, stamp[q])
            \/ /\ kind[q] = "clear"
               /\ room'.startedAt = room.startedAt /\ room'.completedAt = room.completedAt
               /\ room'.paused = room.paused /\ room'.pausedAt = room.pausedAt
               /\ room'.pausedTotal = room.pausedTotal
            \/ kind[q] = "complete" /\ Open /\ ~Open'
            \/ kind[q] \in {"exception", "reset"} \cup Marks /\ ~Open'
<1>1. stale = {} /\ room = read[q] /\ stamp[q] # None
  BY StampFacts DEF Write, TypeOK
<1>2. room' = Patched(kind[q], room, room, stamp[q])
  BY <1>1 DEF Write
<1>3. room \in Rows /\ kind[q] \in Kinds /\ stamp[q] \in Stamps
  BY DEF TypeOK
<1>4. kind[q] \in Marks \/ Allowed(kind[q], room)
  BY <1>1 DEF PlaceInv, Write
<1>5. CASE kind[q] = "start"
  <2>1. ~Open
    BY <1>3, <1>4, <1>5, InProgress DEF Allowed, Open, Marks
  <2> QED
    BY <1>1, <1>2, <1>3, <1>5, <2>1 DEF Patched, Started, Unpaused, Rows
<1>6. CASE kind[q] = "pause"
  <2>1. Open
    BY <1>3, <1>4, <1>6, InProgress DEF Allowed, Open, Marks
  <2> QED
    BY <1>1, <1>2, <1>3, <1>6, <2>1 DEF Patched, Rows
<1>7. CASE kind[q] = "resume"
  <2>1. Open /\ room.paused
    BY <1>3, <1>4, <1>7, InProgress DEF Allowed, Open, Marks
  <2>2. PausedInAll(room, stamp[q]) \in Nat
    BY <1>3, PausedInAllType
  <2> QED
    BY <1>1, <1>2, <1>3, <1>7, <2>1, <2>2 DEF Patched, Unpaused, Rows
<1>8. CASE kind[q] = "clear"
  BY <1>1, <1>2, <1>3, <1>8 DEF Patched, Rows
<1>9. CASE kind[q] = "complete"
  <2>1. Open
    BY <1>3, <1>4, <1>9, InProgress DEF Allowed, Open, Marks
  <2>2. room'.completedAt = stamp[q]
    BY <1>2, <1>3, <1>9 DEF Patched, Unpaused, Finished, Rows
  <2> QED
    BY <1>1, <1>9, <2>1, <2>2 DEF Open
<1>10. CASE kind[q] \in {"exception", "reset"} \cup Marks
  <2>1. room'.completedAt = stamp[q] \/ room'.startedAt = None
    BY <1>2, <1>3, <1>10 DEF Patched, Unpaused, Finished, NotStarted, Rows, Marks
  <2> QED
    BY <1>1, <1>10, <2>1 DEF Open
<1> QED
  BY <1>3, <1>5, <1>6, <1>7, <1>8, <1>9, <1>10 DEF Kinds, Marks

(***************************************************************************)
(* Pauses.  The pauses of an open clean fit before the one that is open,   *)
(* and they did at the instant of whoever is about to pause or resume.     *)
(***************************************************************************)
PausesFit(r, t) ==
  /\ Tick(r.startedAt) <= t
  /\ r.paused => r.pausedAt # None /\ Tick(r.pausedAt) <= t
  /\ r.pausedTotal + Tick(r.startedAt) <= IF r.paused THEN Tick(r.pausedAt) ELSE t

PauseInv ==
  stale = {} =>
    /\ Open => PausesFit(room, now)
    /\ \A q \in Taps : at[q] = "loaded" /\ kind[q] \in {"pause", "resume"} =>
         PausesFit(read[q], Tick(stamp[q]))

LEMMA InitPauses == Init => PauseInv
<1> SUFFICES ASSUME Init PROVE PauseInv
  OBVIOUS
<1>1. Dirty.startedAt = None /\ Cleaned.completedAt # None
  BY EarlyRows, EarlyStamps, StampFacts DEF Dirty
<1>2. PausesFit(Begun, 0)
  BY EarlyRows, StampFacts DEF PausesFit
<1> QED
  BY <1>1, <1>2 DEF Init, PauseInv, Open

LEMMA WriteKeepsPauses ==
  ASSUME TypeOK, PlaceInv, TimeInv, PauseInv, NEW q \in Taps, Write(q), stale' = {}
  PROVE  PausesFit(room, now)' \/ ~Open'
<1>1. /\ room = read[q] /\ now' = now /\ stamp[q] \in Stamps
      /\ Tick(stamp[q]) <= now /\ Tick(stamp[q]) \in Int /\ now \in Nat
      /\ PausesFit(room, now) \/ ~Open
      /\ kind[q] \in {"pause", "resume"} =>
           at[q] = "loaded" /\ PausesFit(room, Tick(stamp[q]))
  BY UnracedWrite, StampFacts DEF Write, TypeOK, TimeInv, PauseInv, PlaceInv, Marks
<1>2. /\ room.pausedTotal \in Nat /\ room.startedAt \in Stamps \cup {None}
      /\ room.pausedAt \in Stamps \cup {None}
  BY DEF TypeOK, Rows
<1>3. CASE kind[q] = "start" /\ ~Open'
  BY <1>3
<1>4. CASE /\ kind[q] = "start" /\ room'.startedAt = stamp[q]
           /\ room'.paused = FALSE /\ room'.pausedTotal = 0
  BY <1>1, <1>4 DEF PausesFit
<1>5. CASE /\ kind[q] = "pause" /\ Open /\ room'.startedAt = room.startedAt
           /\ ~room.paused
           /\ room'.paused = TRUE /\ room'.pausedAt = stamp[q]
           /\ room'.pausedTotal = room.pausedTotal
  BY <1>1, <1>2, <1>5, StampFacts DEF PausesFit, Open
<1>6. CASE /\ kind[q] = "resume" /\ Open /\ room.paused
           /\ room'.startedAt = room.startedAt /\ room'.paused = FALSE
           /\ room'.pausedTotal = PausedInAll(room, stamp[q])
  <2>1. room.pausedAt \in Stamps /\ Tick(room.pausedAt) <= Tick(stamp[q])
    BY <1>1, <1>2, <1>6 DEF PausesFit
  <2>2. Tick(room.pausedAt) \in Int /\ Tick(room.startedAt) \in Int /\ room.pausedAt # None
    BY <1>2, <1>6, <2>1, StampFacts DEF Open
  <2>3. PausedInAll(room, stamp[q])
          = room.pausedTotal + (Tick(stamp[q]) - Tick(room.pausedAt))
    BY <1>1, <1>6, <2>1, <2>2 DEF PausedInAll, Elapsed
  <2> QED
    BY <1>1, <1>2, <1>6, <2>2, <2>3 DEF PausesFit
<1>7. CASE /\ kind[q] = "clear"
           /\ room'.startedAt = room.startedAt /\ room'.completedAt = room.completedAt
           /\ room'.paused = room.paused /\ room'.pausedAt = room.pausedAt
           /\ room'.pausedTotal = room.pausedTotal
  BY <1>1, <1>7 DEF PausesFit, Open
<1>8. kind[q] = "pause" => ~room.paused
  BY <1>1 DEF PlaceInv, Allowed, Marks
<1> QED
  BY <1>3, <1>4, <1>5, <1>6, <1>7, <1>8, UnracedWrite

LEMMA NextKeepsPauses ==
  ASSUME TypeOK, PlaceInv, TimeInv, PauseInv, [Next]_vars
  PROVE  PauseInv'
<1> SUFFICES ASSUME stale' = {} PROVE PauseInv'
  BY DEF PauseInv
<1>1. ASSUME NEW q \in Taps, NEW k \in Kinds, Load(q, k) PROVE PauseInv'
  <2>1. stale = {} /\ read'[q] = room /\ kind'[q] = k /\ stamp'[q] = <<q, now>>
    BY <1>1 DEF Load, TypeOK
  <2>2. k \in {"pause", "resume"} => Open
    BY <1>1, InProgress DEF Load, Allowed, Open, Marks, TypeOK
  <2>3. Tick(<<q, now>>) = now
    BY StampFacts DEF TypeOK
  <2>4. k \in {"pause", "resume"} => PausesFit(read'[q], Tick(stamp'[q]))
    BY <2>1, <2>2, <2>3 DEF PauseInv
  <2>5. \A p \in Taps \ {q} : /\ at'[p] = at[p] /\ kind'[p] = kind[p]
                              /\ read'[p] = read[p] /\ stamp'[p] = stamp[p]
    BY <1>1 DEF Load, Goto, TypeOK
  <2> QED
    BY <1>1, <2>1, <2>4, <2>5 DEF PauseInv, Load, Open
<1>2. ASSUME NEW q \in Taps, Prefetch(q) PROVE PauseInv'
  <2>1. kind[q] \notin {"pause", "resume"}
    BY <1>2 DEF Prefetch, PlaceInv, Marks
  <2>2. \A p \in Taps \ {q} : at'[p] = at[p] /\ read'[p] = read[p]
    BY <1>2 DEF Prefetch, Goto, TypeOK
  <2> QED
    BY <1>2, <2>1, <2>2 DEF PauseInv, Prefetch, Open
<1>3. ASSUME NEW q \in Taps, NEW p \in Running \cup {"deduped", "ended"},
             p # "loaded", Goto(q, p), UNCHANGED <<now, kind, read, stamp>>,
             stale = {}, Open' => PausesFit(room, now)'
      PROVE PauseInv'
  BY <1>3 DEF PauseInv, Goto, TypeOK
<1>4. ASSUME NEW q \in Taps, Write(q) PROVE PauseInv'
  <2>1. stale = {} /\ (Open' => PausesFit(room, now)')
    BY <1>4, WriteKeepsPauses, UnracedWrite
  <2>2. UNCHANGED <<now, kind, read, stamp>> /\ (Goto(q, "written") \/ Goto(q, "ended"))
    BY <1>4 DEF Write
  <2> QED
    BY <1>3, <2>1, <2>2 DEF Running
<1>5. ASSUME NEW q \in Taps,
             \/ PrefetchFails(q) \/ FindRecent(q) \/ FindNoRecent(q) \/ InsertEvent(q)
             \/ FindEvent(q) \/ Discard(q) \/ Ends(q)
      PROVE PauseInv'
  <2>1. stale = {} /\ room' = room /\ UNCHANGED <<now, kind, read, stamp>>
    BY <1>5 DEF PrefetchFails, FindRecent, FindNoRecent, InsertEvent, FindEvent, Discard, Ends, Stays
  <2>2. PICK p \in {"blind", "deduped", "fresh", "found", "ended"} : Goto(q, p)
    BY <1>5 DEF PrefetchFails, FindRecent, FindNoRecent, InsertEvent, FindEvent, Discard, Ends
  <2>3. Open' => PausesFit(room, now)'
    BY <2>1 DEF PauseInv, Open, PausesFit
  <2> QED
    BY <1>3, <2>1, <2>2, <2>3 DEF Running
<1>6. CASE Pass
  <2>1. room.startedAt \in Stamps \cup {None} /\ room.pausedTotal \in Nat
        /\ room.pausedAt \in Stamps \cup {None} /\ now \in Nat
    BY DEF TypeOK, Rows
  <2>2. PausesFit(room, now) /\ Open => PausesFit(room, now + 1)
    BY <2>1, StampFacts DEF PausesFit, Open
  <2> QED
    BY <1>6, <2>2 DEF PauseInv, Pass, request, Open
<1>7. CASE UNCHANGED vars
  BY <1>7 DEF PauseInv, vars, request, Open
<1> QED
  BY <1>1, <1>2, <1>4, <1>5, <1>6, <1>7, Steps

\* Where no request wrote over a row it had not read, the pauses of the clean
\* in progress fit between its start and now.
THEOREM PausesAlwaysFit == Spec => []PausesFitTheClean
<1>1. Init => TypeOK /\ FitInv /\ PlaceInv /\ TimeInv /\ PauseInv
  BY InitRows, InitFits, InitPlaces, InitPauses
<1>2. TypeOK /\ FitInv /\ PlaceInv /\ TimeInv /\ PauseInv /\ [Next]_vars
        => (TypeOK /\ FitInv /\ PlaceInv /\ TimeInv /\ PauseInv)'
  BY NextKeepsTypes, NextKeepsFit, NextKeepsPlaces, NextKeepsTimes, NextKeepsPauses
<1>3. TypeOK /\ FitInv /\ PauseInv => PausesFitTheClean
  <2> SUFFICES ASSUME TypeOK, FitInv, PauseInv, stale = {}, room.status = "in_progress"
               PROVE  PauseSoFar <= now - Tick(room.startedAt)
    BY DEF PausesFitTheClean
  <2>1. room.startedAt \in Stamps /\ room.completedAt = None
    BY DEF FitInv, Fits, TypeOK, Rows
  <2>2. PausesFit(room, now) /\ Tick(room.startedAt) \in Int
    BY <2>1, StampFacts DEF PauseInv, Open
  <2>3. room.paused => Tick(room.pausedAt) \in Int
    BY <2>2, StampFacts DEF PausesFit, TypeOK, Rows
  <2>4. room.pausedTotal \in Nat /\ now \in Nat
    BY DEF TypeOK, Rows
  <2> QED
    BY <2>2, <2>3, <2>4 DEF PausesFit, PauseSoFar
<1> QED
  BY <1>1, <1>2, <1>3, PTL DEF Spec

(***************************************************************************)
(* Counting.  An instant that a request has not stamped on the row yet is  *)
(* nobody's start; so the starts of the open clean, of the completions     *)
(* about to be recorded and of the recorded ones are all different.        *)
(***************************************************************************)
NotBy(s, q) == s # None => By(s) # q
Pending(q) == at[q] \in {"written", "fresh"} /\ kind[q] = "complete"

NewInv ==
  \A q \in Taps : at[q] \in {"idle", "named", "blind", "loaded"} =>
    /\ NotBy(room.startedAt, q)
    /\ \A p \in Taps : NotBy(read[p].startedAt, q)
    /\ \A e \in events : NotBy(e.start, q)

CountInv ==
  stale = {} =>
    /\ Open => \A e \in events : e.start # room.startedAt
    /\ \A q \in Taps : Pending(q) =>
         /\ read[q].startedAt # None
         /\ Open => read[q].startedAt # room.startedAt
         /\ \A e \in events : e.start # read[q].startedAt
         /\ \A p \in Taps : Pending(p) /\ read[p].startedAt = read[q].startedAt => p = q
    /\ \A e, f \in events : e.start = f.start => e = f

LEMMA InitCounts == Init => NewInv /\ CountInv
<1> SUFFICES ASSUME Init PROVE NewInv /\ CountInv
  OBVIOUS
<1>1. Dirty.startedAt = None /\ Cleaned.completedAt # None
  BY EarlyRows, EarlyStamps, StampFacts DEF Dirty
<1>2. By(Begun.startedAt) = Before /\ By(Cleaned.startedAt) = Before /\ By(Earlier.start) = Before
  BY EarlyRows, EarlyStamps DEF By
<1>3. Begun.startedAt # Earlier.start
  <2>1. Tick(Begun.startedAt) = 0 /\ Tick(Earlier.start) = -1 - MinClean
    BY EarlyRows, EarlyStamps DEF Tick
  <2> QED
    BY <2>1, RoomAssumption
<1>4. \A q \in Taps : q # Before
  BY RoomAssumption
<1>5. NewInv
  BY <1>1, <1>2, <1>4 DEF Init, NewInv, NotBy
<1>6. CountInv
  BY <1>1, <1>3 DEF Init, CountInv, Open, Pending
<1> QED
  BY <1>5, <1>6

LEMMA StartedBy ==
  ASSUME TypeOK, PlaceInv, TimeInv, NEW q \in Taps, Write(q)
  PROVE  \/ room'.startedAt \in {None, room.startedAt, read[q].startedAt}
         \/ room'.startedAt = stamp[q] /\ By(stamp[q]) = q
<1>1. room \in Rows /\ read[q] \in Rows /\ kind[q] \in Kinds /\ By(stamp[q]) = q
  BY DEF TypeOK, TimeInv
<1> QED
  BY <1>1 DEF Write, Patched, Started, Unpaused, Finished, NotStarted, Rows, Kinds, Marks

LEMMA NextKeepsNew ==
  ASSUME TypeOK, PlaceInv, TimeInv, NewInv, [Next]_vars
  PROVE  NewInv'
<1>1. ASSUME NEW q \in Taps, NEW k \in Kinds, Load(q, k) PROVE NewInv'
  BY <1>1 DEF NewInv, NotBy, Load, Goto, TypeOK
<1>2. ASSUME NEW q \in Taps, Prefetch(q) PROVE NewInv'
  <2>1. [room EXCEPT !.startedAt = read[q].startedAt].startedAt = read[q].startedAt
    BY DEF TypeOK, Rows
  <2>2. \A p \in Taps : read'[p].startedAt = read[p].startedAt
    BY <1>2, <2>1 DEF Prefetch, TypeOK
  <2> QED
    BY <1>2, <2>2 DEF NewInv, Prefetch, Goto, TypeOK
<1>3. ASSUME NEW q \in Taps, Write(q) PROVE NewInv'
  <2>1. /\ events' = events /\ read' = read
        /\ \A p \in Taps : at'[p] \in {"idle", "named", "blind", "loaded"} => p # q /\ at'[p] = at[p]
    BY <1>3 DEF Write, Goto, TypeOK
  <2>2. \A p \in Taps : at'[p] \in {"idle", "named", "blind", "loaded"} => NotBy(room'.startedAt, p)
    BY <1>3, <2>1, StartedBy DEF NewInv, NotBy
  <2> QED
    BY <2>1, <2>2 DEF NewInv
<1>4. ASSUME NEW q \in Taps, InsertEvent(q) PROVE NewInv'
  <2>1. /\ room' = room /\ read' = read /\ By(stamp[q]) = q
        /\ \A p \in Taps : at'[p] \in {"idle", "named", "blind", "loaded"} => p # q /\ at'[p] = at[p]
    BY <1>4 DEF InsertEvent, Goto, TypeOK, TimeInv
  <2>2. \A e \in events' : e \in events \/ e.start \in {stamp[q], read[q].startedAt}
    BY <1>4 DEF InsertEvent
  <2> QED
    BY <2>1, <2>2 DEF NewInv, NotBy
<1>5. ASSUME NEW q \in Taps, Discard(q) PROVE NewInv'
  <2>1. \A e \in events' : \E f \in events : e.start = f.start
    BY <1>5 DEF Discard, TypeOK
  <2>2. /\ room' = room /\ read' = read
        /\ \A p \in Taps : at'[p] \in {"idle", "named", "blind", "loaded"} => at'[p] = at[p]
    BY <1>5 DEF Discard, Goto, TypeOK
  <2> QED
    BY <2>1, <2>2 DEF NewInv
<1>6. ASSUME NEW q \in Taps, PrefetchFails(q) \/ FindRecent(q) \/ FindNoRecent(q)
                             \/ FindEvent(q) \/ Ends(q)
      PROVE NewInv'
  <2>1. /\ room' = room /\ read' = read /\ events' = events
        /\ \A p \in Taps : at'[p] \in {"idle", "named", "blind", "loaded"} =>
             at[p] \in {"idle", "named", "blind", "loaded"}
    BY <1>6 DEF PrefetchFails, FindRecent, FindNoRecent, FindEvent, Ends, Stays, Goto, TypeOK
  <2> QED
    BY <2>1 DEF NewInv
<1>7. CASE Pass \/ UNCHANGED vars
  BY <1>7 DEF NewInv, Pass, vars, request
<1> QED
  BY <1>1, <1>2, <1>3, <1>4, <1>5, <1>6, <1>7, Steps

\* A step that makes no clean and no completion keeps the starts apart.
LEMMA CountsKept ==
  ASSUME CountInv, stale = {}, Open' => Open /\ room'.startedAt = room.startedAt,
         events' = events,
         \A q \in Taps : Pending(q)' => Pending(q) /\ read'[q] = read[q]
  PROVE  CountInv'
BY DEF CountInv

LEMMA NextKeepsCounts ==
  ASSUME TypeOK, PlaceInv, TimeInv, NewInv, CountInv, [Next]_vars
  PROVE  CountInv'
<1> SUFFICES ASSUME stale' = {} PROVE CountInv'
  BY DEF CountInv
<1>1. ASSUME NEW q \in Taps, NEW k \in Kinds, Load(q, k) PROVE CountInv'
  <2>1. \A p \in Taps : Pending(p)' => Pending(p) /\ read'[p] = read[p]
    BY <1>1 DEF Load, Goto, TypeOK, Pending
  <2> QED
    BY <1>1, <2>1, CountsKept DEF Load, Open
<1>2. ASSUME NEW q \in Taps, Prefetch(q) PROVE CountInv'
  <2>1. \A p \in Taps : Pending(p)' => Pending(p) /\ read'[p] = read[p]
    BY <1>2 DEF Prefetch, Goto, TypeOK, Pending
  <2> QED
    BY <1>2, <2>1, CountsKept DEF Prefetch, Open
<1>3. ASSUME NEW q \in Taps, Write(q) PROVE CountInv'
  <2>1. /\ stale = {} /\ room = read[q] /\ read' = read /\ events' = events
        /\ \A p \in Taps : Pending(p)' => Pending(p) \/ (p = q /\ kind[q] = "complete")
        /\ at[q] \in {"loaded", "blind"}
    BY <1>3, UnracedWrite DEF Write, Goto, TypeOK, Pending
  <2>2. CASE kind[q] = "start" /\ room'.startedAt = stamp[q]
    <3>1. stamp[q] # None /\ By(stamp[q]) = q
      BY StampFacts DEF TypeOK, TimeInv
    <3> QED
      BY <2>1, <2>2, <3>1 DEF CountInv, NewInv, NotBy
  <2>3. CASE kind[q] = "complete" /\ Open /\ ~Open'
    <3>1. \A p \in Taps : Pending(p) => p # q
      BY <2>1 DEF Pending
    <3> QED
      BY <2>1, <2>3, <3>1 DEF CountInv, Open
  <2>4. CASE kind[q] # "complete" /\ (Open' => Open /\ room'.startedAt = room.startedAt)
    BY <2>1, <2>4, CountsKept
  <2> QED
    BY <1>3, <2>2, <2>3, <2>4, UnracedWrite DEF Open, Marks
<1>4. ASSUME NEW q \in Taps, InsertEvent(q) PROVE CountInv'
  <2>1. /\ stale = {} /\ room' = room /\ Pending(q)
        /\ \A p \in Taps : Pending(p)' => p # q /\ Pending(p) /\ read'[p] = read[p]
    BY <1>4 DEF InsertEvent, Goto, TypeOK, PlaceInv, Pending
  <2>2. \A e \in events' : e \in events \/ e.start = read[q].startedAt
    BY <1>4, <2>1 DEF InsertEvent, CountInv
  <2>3. \A e, f \in events' : e \in events \/ f \in events \/ e = f
    BY <1>4 DEF InsertEvent
  <2> QED
    BY <2>1, <2>2, <2>3 DEF CountInv, Open
<1>5. ASSUME NEW q \in Taps, Discard(q) PROVE CountInv'
  <2>1. /\ stale = {} /\ room' = room
        /\ \A p \in Taps : Pending(p)' => Pending(p) /\ read'[p] = read[p]
    BY <1>5 DEF Discard, Goto, TypeOK, Pending
  <2> DEFINE D(e) == [e EXCEPT !.counted = @ /\ ~OfReopened(q, e)]
  <2>2. \A e \in events : D(e).start = e.start
    BY DEF TypeOK
  <2>3. events' = {D(e) : e \in events}
    BY <1>5 DEF Discard
  <2> HIDE DEF D
  <2> QED
    BY <2>1, <2>2, <2>3 DEF CountInv, Open
<1>6. ASSUME NEW q \in Taps, PrefetchFails(q) \/ FindRecent(q) \/ FindNoRecent(q)
                             \/ FindEvent(q) \/ Ends(q)
      PROVE CountInv'
  <2>1. /\ stale = {} /\ room' = room /\ events' = events
        /\ \A p \in Taps : Pending(p)' => Pending(p) /\ read'[p] = read[p]
    BY <1>6 DEF PrefetchFails, FindRecent, FindNoRecent, FindEvent, Ends, Stays, Goto, TypeOK, Pending
  <2> QED
    BY <2>1, CountsKept DEF Open
<1>7. CASE Pass \/ UNCHANGED vars
  BY <1>7, CountsKept DEF Pass, vars, request, Open, Pending
<1> QED
  BY <1>1, <1>2, <1>3, <1>4, <1>5, <1>6, <1>7, Steps

\* Where no request wrote over a row it had not read, no start is counted twice.
THEOREM StartsAlwaysCountOnce == Spec => []StartsCountOnce
<1>1. Init => TypeOK /\ PlaceInv /\ TimeInv /\ NewInv /\ CountInv
  BY InitRows, InitPlaces, InitCounts
<1>2. TypeOK /\ PlaceInv /\ TimeInv /\ NewInv /\ CountInv /\ [Next]_vars
        => (TypeOK /\ PlaceInv /\ TimeInv /\ NewInv /\ CountInv)'
  BY NextKeepsTypes, NextKeepsPlaces, NextKeepsTimes, NextKeepsNew, NextKeepsCounts
<1>3. CountInv => StartsCountOnce
  BY DEF CountInv, StartsCountOnce
<1> QED
  BY <1>1, <1>2, <1>3, PTL DEF Spec

(***************************************************************************)
(* The window.  A clean that counts outlasts two routes, so what was       *)
(* finished before it began is settled by then; and it outlasts the        *)
(* window, so its completion finds nothing recent.                         *)
(***************************************************************************)
Long(q) == Countable(ActiveTime(q))
Starting(q) == at[q] = "loaded" /\ kind[q] = "start"

\* What counts, or will when it is recorded, was finished by n; q aside.
Settled(n, q) ==
  /\ \A e \in events : e.counted => Tick(e.done) <= n
  /\ \A p \in Taps \ {q} : Pending(p) /\ Long(p) => Tick(stamp[p]) <= n

DedupeInv ==
  stale = {} =>
    /\ Open => Settled(Tick(room.startedAt), Before)
    /\ \A q \in Taps :
         /\ Starting(q) => Settled(Tick(stamp[q]), q)
         /\ Pending(q) => Settled(Tick(read[q].startedAt), q)
         /\ (Starting(q) \/ Pending(q)) /\ Open =>
              Tick(stamp[q]) <= Tick(room.startedAt) + MaxDuration
         /\ at[q] = "deduped" => ~Long(q)

LEMMA LongOutlasts ==
  ASSUME TypeOK, NEW q \in Taps, Long(q), read[q].startedAt # None
  PROVE  Tick(read[q].startedAt) + MinClean <= Tick(stamp[q])
<1>1. /\ read[q] \in Rows /\ stamp[q] \in Stamps /\ read[q].startedAt \in Stamps
  BY DEF TypeOK, Rows
<1>2. /\ Tick(stamp[q]) \in Int /\ Tick(read[q].startedAt) \in Int
      /\ PausedInAll(read[q], stamp[q]) \in Nat
  BY <1>1, StampFacts, PausedInAllType
<1> QED
  BY <1>1, <1>2, RoomAssumption DEF Long, Countable, ActiveTime, Elapsed

LEMMA InitDedupes == Init => DedupeInv
<1> SUFFICES ASSUME Init PROVE DedupeInv
  OBVIOUS
<1>1. Dirty.startedAt = None /\ Cleaned.completedAt # None
  BY EarlyRows, EarlyStamps, StampFacts DEF Dirty
<1>2. Tick(Begun.startedAt) = 0 /\ Tick(Earlier.done) = -1
  BY EarlyRows, EarlyStamps DEF Tick
<1> QED
  BY <1>1, <1>2 DEF Init, DedupeInv, Open, Settled, Starting, Pending

\* A step that makes no clean, no start and no completion keeps the order.
LEMMA DedupesKept ==
  ASSUME DedupeInv, stale = {}, Open' => Open /\ room'.startedAt = room.startedAt,
         \A e \in events' : e.counted => \E f \in events : f.counted /\ f.done = e.done,
         \A q \in Taps :
           /\ Starting(q)' => Starting(q)
           /\ Pending(q)' => Pending(q)
           /\ (Starting(q) \/ Pending(q) \/ at[q] = "deduped")' =>
                read'[q] = read[q] /\ stamp'[q] = stamp[q]
           /\ at'[q] = "deduped" => at[q] = "deduped" \/ ~Long(q)
  PROVE  DedupeInv'
<1>1. ASSUME NEW q \in Taps, read'[q] = read[q], stamp'[q] = stamp[q]
      PROVE  Long(q)' = Long(q)
  BY <1>1 DEF Long, Countable, ActiveTime
<1>2. ASSUME NEW n, NEW q, Settled(n, q)
      PROVE  Settled(n, q)'
  BY <1>1, <1>2 DEF Settled
<1>3. Open' => Settled(Tick(room.startedAt), Before)'
  BY <1>2 DEF DedupeInv
<1>4. ASSUME NEW q \in Taps
      PROVE  /\ Starting(q)' => Settled(Tick(stamp[q]), q)'
             /\ Pending(q)' => Settled(Tick(read[q].startedAt), q)'
  BY <1>2 DEF DedupeInv
<1>5. \A q \in Taps : at'[q] = "deduped" => ~Long(q)'
  BY <1>1 DEF DedupeInv
<1>6. \A q \in Taps : (Starting(q) \/ Pending(q))' /\ Open' =>
                        Tick(stamp'[q]) <= Tick(room'.startedAt) + MaxDuration
  BY DEF DedupeInv
<1> QED
  BY <1>3, <1>4, <1>5, <1>6 DEF DedupeInv

LEMMA WriteKeepsDedupes ==
  ASSUME TypeOK, PlaceInv, TimeInv, DedupeInv, NEW q \in Taps, Write(q), stale' = {}
  PROVE  DedupeInv'
<1>1. /\ stale = {} /\ room = read[q] /\ read' = read /\ stamp' = stamp /\ kind' = kind
      /\ events' = events /\ now' = now
      /\ at[q] \in {"loaded", "blind"} /\ at'[q] \in {"written", "ended"}
      /\ \A p \in Taps \ {q} : at'[p] = at[p]
  BY UnracedWrite DEF Write, Goto, TypeOK
<1>2. \A p \in Taps : Long(p)' = Long(p)
  BY <1>1 DEF Long, Countable, ActiveTime
<1>3. \A p \in Taps \ {q} : Starting(p)' = Starting(p) /\ Pending(p)' = Pending(p)
  BY <1>1 DEF Starting, Pending
<1>4. ~Starting(q)' /\ ~Pending(q) /\ (Pending(q)' => kind[q] = "complete")
  BY <1>1 DEF Starting, Pending
<1>5. \A p \in Taps : /\ Tick(stamp[p]) \in Int /\ Tick(stamp[p]) <= now
                      /\ at[p] \in Running => now <= Tick(stamp[p]) + MaxDuration
  BY StampFacts DEF TypeOK, TimeInv
<1>6. now \in Nat /\ MaxDuration \in Nat /\ MinClean \in Nat /\ 2 * MaxDuration < MinClean
  BY RoomAssumption DEF TypeOK
<1>7. \A p \in Taps : Starting(p) \/ Pending(p) => at[p] \in Running
  BY DEF Starting, Pending, Running
<1>8. CASE kind[q] = "start" /\ room'.startedAt = stamp[q]
  <2>1. ~Pending(q)' /\ Starting(q)
    BY <1>1, <1>4, <1>8 DEF Starting, PlaceInv, Marks
  <2>2. ASSUME NEW n, NEW p, Settled(n, p) PROVE Settled(n, p)'
    BY <1>1, <1>2, <1>3, <2>1, <2>2 DEF Settled
  <2>3. Settled(Tick(stamp[q]), Before)
    BY <1>1, <1>4, <2>1 DEF DedupeInv, Settled
  <2>4. Settled(Tick(stamp[q]), Before)'
    BY <1>1, <2>2, <2>3
  <2>5. \A p \in Taps : at[p] \in Running => Tick(stamp[p]) <= Tick(stamp[q]) + MaxDuration
    BY <1>1, <1>5, <1>6 DEF Running
  <2>6. \A p \in Taps : /\ Starting(p)' => Settled(Tick(stamp[p]), p)'
                        /\ Pending(p)' => Settled(Tick(read[p].startedAt), p)'
    BY <1>1, <1>3, <1>4, <2>1, <2>2 DEF DedupeInv
  <2>7. \A p \in Taps : at'[p] = "deduped" => ~Long(p)'
    BY <1>1, <1>2 DEF DedupeInv
  <2> QED
    BY <1>1, <1>3, <1>4, <1>7, <1>8, <2>1, <2>4, <2>5, <2>6, <2>7 DEF DedupeInv
<1>9. CASE kind[q] = "complete" /\ Open /\ ~Open'
  <2>1. /\ read[q].startedAt # None /\ room.startedAt \in Stamps
        /\ Tick(room.startedAt) \in Int
    BY <1>1, <1>9, StampFacts DEF Open, TypeOK, Rows
  <2>2. Long(q) => Tick(room.startedAt) + MinClean <= Tick(stamp[q])
    BY <1>1, <2>1, LongOutlasts
  <2>3. \A p \in Taps : Starting(p) \/ Pending(p) => ~Long(q)
    BY <1>1, <1>5, <1>6, <1>7, <1>9, <2>1, <2>2 DEF DedupeInv
  <2>4. ASSUME NEW n, NEW p, NEW r \in Taps, r # q, Starting(r) \/ Pending(r), Settled(n, p)
        PROVE  Settled(n, p)'
    BY <1>1, <1>2, <1>3, <2>3, <2>4 DEF Settled
  <2>5. \A r \in Taps \ {q} : /\ Starting(r)' => Settled(Tick(stamp[r]), r)'
                              /\ Pending(r)' => Settled(Tick(read[r].startedAt), r)'
    BY <1>1, <1>3, <2>4 DEF DedupeInv
  <2>6. Settled(Tick(room.startedAt), Before)
    BY <1>1, <1>9 DEF DedupeInv
  <2>7. Settled(Tick(read[q].startedAt), q)'
    <3>1. \A p \in Taps : p # Before
      BY RoomAssumption
    <3> QED
      BY <1>1, <1>2, <1>3, <2>6, <3>1 DEF Settled
  <2>8. \A p \in Taps : at'[p] = "deduped" => ~Long(p)'
    BY <1>1, <1>2 DEF DedupeInv
  <2> QED
    BY <1>1, <1>4, <1>9, <2>5, <2>7, <2>8 DEF DedupeInv
<1>10. CASE kind[q] # "complete" /\ (Open' => Open /\ room'.startedAt = room.startedAt)
  <2>1. \A p \in Taps : /\ Starting(p)' => Starting(p)
                        /\ Pending(p)' => Pending(p)
                        /\ at'[p] = "deduped" => at[p] = "deduped"
    BY <1>1, <1>3, <1>4, <1>10
  <2> QED
    BY <1>1, <1>10, <2>1, DedupesKept
<1> QED
  BY <1>8, <1>9, <1>10, UnracedWrite DEF Open, Marks

LEMMA NextKeepsDedupes ==
  ASSUME TypeOK, PlaceInv, TimeInv, CountInv, DedupeInv, [Next]_vars
  PROVE  DedupeInv'
<1> SUFFICES ASSUME stale' = {} PROVE DedupeInv'
  BY DEF DedupeInv
<1>1. ASSUME NEW q \in Taps, NEW k \in Kinds, Load(q, k) PROVE DedupeInv'
  <2>1. /\ stale = {} /\ room' = room /\ events' = events
        /\ \A p \in Taps \ {q} : /\ at'[p] = at[p] /\ kind'[p] = kind[p]
                                 /\ read'[p] = read[p] /\ stamp'[p] = stamp[p]
        /\ at[q] = "idle" /\ at'[q] \in {"named", "loaded"} /\ kind'[q] = k
        /\ stamp'[q] = <<q, now>>
    BY <1>1 DEF Load, Goto, TypeOK
  <2>2. \A p \in Taps : Pending(p)' = Pending(p)
    BY <2>1 DEF Pending
  <2>3. \A p \in Taps \ {q} : Long(p)' = Long(p) /\ Starting(p)' = Starting(p)
    BY <2>1 DEF Long, Countable, ActiveTime, Starting
  <2>4. ASSUME NEW n, NEW p, Settled(n, p) PROVE Settled(n, p)'
    <3>1. ~Pending(q)
      BY <2>1 DEF Pending
    <3> QED
      BY <2>1, <2>2, <2>3, <2>4, <3>1 DEF Settled
  <2>5. Starting(q)' => ~Open'
    BY <1>1, <2>1, InProgress DEF Starting, Load, Allowed, Open, TypeOK, Marks
  <2>6. Settled(now, q)
    BY DEF Settled, TimeInv
  <2>7. Tick(stamp'[q]) = now
    BY <2>1, StampFacts DEF TypeOK
  <2>8. ~Pending(q)' /\ at'[q] # "deduped" /\ Settled(Tick(stamp[q]), q)'
    BY <2>1, <2>2, <2>4, <2>6, <2>7 DEF Pending
  <2>9. Open' => Open /\ Settled(Tick(room.startedAt), Before)'
    BY <2>1, <2>4 DEF DedupeInv, Open
  <2>10. \A p \in Taps \ {q} : /\ Starting(p)' => Settled(Tick(stamp[p]), p)'
                               /\ Pending(p)' => Settled(Tick(read[p].startedAt), p)'
    BY <2>1, <2>2, <2>3, <2>4 DEF DedupeInv
  <2>11. \A p \in Taps \ {q} : /\ (Starting(p) \/ Pending(p))' /\ Open' =>
                                    Tick(stamp'[p]) <= Tick(room'.startedAt) + MaxDuration
                               /\ at'[p] = "deduped" => ~Long(p)'
    BY <2>1, <2>2, <2>3, <2>9 DEF DedupeInv
  <2> QED
    BY <2>5, <2>8, <2>9, <2>10, <2>11 DEF DedupeInv
<1>2. ASSUME NEW q \in Taps,
             \/ Prefetch(q) \/ PrefetchFails(q) \/ FindNoRecent(q) \/ FindEvent(q)
             \/ Ends(q)
      PROVE DedupeInv'
  <2>1. stale = {} /\ room' = room /\ events' = events /\ kind' = kind /\ stamp' = stamp
    BY <1>2 DEF Prefetch, PrefetchFails, FindNoRecent, FindEvent, Ends, Stays
  <2>2. PICK p \in {"loaded", "blind", "fresh", "found", "ended"} :
          /\ Goto(q, p)
          /\ p = "loaded" => kind[q] # "start"
          /\ p # "loaded" => read' = read
          /\ p = "fresh" => at[q] = "written"
    BY <1>2 DEF Prefetch, PrefetchFails, FindNoRecent, FindEvent, Ends, Stays, PlaceInv, Marks
  <2>3. \A r \in Taps \ {q} : at'[r] = at[r] /\ read'[r] = read[r]
    BY <1>2, <2>2 DEF Prefetch, PrefetchFails, FindNoRecent, FindEvent, Ends, Stays, Goto, TypeOK
  <2>4. at'[q] = p
    BY <2>2 DEF Goto, TypeOK
  <2>5. \A r \in Taps : /\ Starting(r)' => Starting(r)
                        /\ Pending(r)' => Pending(r)
                        /\ (Starting(r) \/ Pending(r) \/ at[r] = "deduped")' => read'[r] = read[r]
                        /\ at'[r] = "deduped" => at[r] = "deduped"
    BY <2>1, <2>2, <2>3, <2>4 DEF Starting, Pending
  <2> QED
    BY <2>1, <2>5, DedupesKept DEF Open
<1>3. ASSUME NEW q \in Taps, FindRecent(q) PROVE DedupeInv'
  <2>1. /\ stale = {} /\ room' = room /\ events' = events
        /\ kind' = kind /\ read' = read /\ stamp' = stamp
        /\ Pending(q) /\ at'[q] = "deduped" /\ \A p \in Taps \ {q} : at'[p] = at[p]
    BY <1>3 DEF FindRecent, Stays, Goto, TypeOK, Pending
  <2>2. PICK e \in events : e.counted /\ Tick(e.done) >= now - DedupeWindow
    BY <1>3 DEF FindRecent, CountedLately
  <2>3. Tick(e.done) <= Tick(read[q].startedAt) /\ read[q].startedAt # None
    BY <2>1, <2>2 DEF DedupeInv, CountInv, Settled
  <2>4. /\ Tick(e.done) \in Int /\ Tick(read[q].startedAt) \in Int
        /\ Tick(stamp[q]) \in Int /\ now \in Nat /\ Tick(stamp[q]) <= now
    BY <2>3, StampFacts DEF TypeOK, Rows, TimeInv
  <2>5. ~Long(q)
    BY <2>2, <2>3, <2>4, LongOutlasts, RoomAssumption
  <2>6. \A p \in Taps : /\ Starting(p)' => Starting(p)
                        /\ Pending(p)' => Pending(p)
                        /\ at'[p] = "deduped" => at[p] = "deduped" \/ ~Long(p)
    BY <2>1, <2>5 DEF Starting, Pending
  <2> QED
    BY <2>1, <2>6, DedupesKept DEF Open
<1>4. ASSUME NEW q \in Taps, Write(q) PROVE DedupeInv'
  BY <1>4, WriteKeepsDedupes
<1>5. ASSUME NEW q \in Taps, InsertEvent(q) PROVE DedupeInv'
  <2>1. /\ stale = {} /\ room' = room /\ kind' = kind /\ read' = read /\ stamp' = stamp
        /\ Pending(q) /\ at'[q] = "ended" /\ \A p \in Taps \ {q} : at'[p] = at[p]
    BY <1>5 DEF InsertEvent, Goto, TypeOK, Pending, PlaceInv
  <2>2. ~Pending(q)' /\ ~Starting(q) /\ ~Starting(q)'
    BY <2>1 DEF Pending, Starting
  <2>3. \A p \in Taps \ {q} : Pending(p)' = Pending(p) /\ Starting(p)' = Starting(p)
    BY <2>1 DEF Pending, Starting
  <2>4. \A p \in Taps : Long(p)' = Long(p)
    BY <2>1 DEF Long, Countable, ActiveTime
  <2>5. \A e \in events' : e \in events \/ (e.done = stamp[q] /\ (e.counted => Long(q)))
    BY <1>5 DEF InsertEvent, Long
  <2>6. ASSUME NEW n, NEW p, p # q, Settled(n, p) PROVE Settled(n, p)'
    BY <2>1, <2>2, <2>3, <2>4, <2>5, <2>6 DEF Settled
  <2>7. Before # q
    BY RoomAssumption
  <2>8. \A p \in Taps : /\ Starting(p)' => Settled(Tick(stamp[p]), p)'
                        /\ Pending(p)' => Settled(Tick(read[p].startedAt), p)'
    BY <2>1, <2>2, <2>3, <2>6 DEF DedupeInv
  <2>9. Open' => Open /\ Settled(Tick(room.startedAt), Before)'
    BY <2>1, <2>6, <2>7 DEF DedupeInv, Open
  <2>10. \A p \in Taps : /\ (Starting(p) \/ Pending(p))' /\ Open' =>
                              Tick(stamp'[p]) <= Tick(room'.startedAt) + MaxDuration
                         /\ at'[p] = "deduped" => ~Long(p)'
    BY <2>1, <2>2, <2>3, <2>4, <2>9 DEF DedupeInv
  <2> QED
    BY <2>1, <2>8, <2>9, <2>10 DEF DedupeInv
<1>6. ASSUME NEW q \in Taps, Discard(q) PROVE DedupeInv'
  <2> DEFINE D(e) == [e EXCEPT !.counted = @ /\ ~OfReopened(q, e)]
  <2>1. \A e \in events : D(e).done = e.done /\ (D(e).counted => e.counted)
    BY DEF TypeOK
  <2>2. events' = {D(e) : e \in events}
    BY <1>6 DEF Discard
  <2> HIDE DEF D
  <2>3. \A e \in events' : e.counted => \E f \in events : f.counted /\ f.done = e.done
    BY <2>1, <2>2
  <2>4. /\ stale = {} /\ room' = room /\ kind' = kind /\ read' = read /\ stamp' = stamp
        /\ \A p \in Taps : at'[p] = at[p] \/ at'[p] = "ended"
    BY <1>6 DEF Discard, Goto, TypeOK
  <2>5. \A p \in Taps : /\ Starting(p)' => Starting(p)
                        /\ Pending(p)' => Pending(p)
                        /\ at'[p] = "deduped" => at[p] = "deduped"
    BY <2>4 DEF Starting, Pending
  <2> QED
    BY <2>3, <2>4, <2>5, DedupesKept DEF Open
<1>7. CASE Pass \/ UNCHANGED vars
  <2>1. /\ stale = {} /\ room' = room /\ events' = events
        /\ UNCHANGED <<at, kind, read, stamp>>
    BY <1>7 DEF Pass, vars, request
  <2>2. \A p \in Taps : Starting(p)' = Starting(p) /\ Pending(p)' = Pending(p)
    BY <2>1 DEF Starting, Pending
  <2> QED
    BY <2>1, <2>2, DedupesKept DEF Open
<1> QED
  BY <1>1, <1>2, <1>3, <1>4, <1>5, <1>6, <1>7, Steps

\* Where no request wrote over a row it had not read, what the window against
\* doubles drops was too short to count.
THEOREM DedupeAlwaysSpares == Spec => []DedupeSparesCleans
<1>1. Init => TypeOK /\ PlaceInv /\ TimeInv /\ NewInv /\ CountInv /\ DedupeInv
  BY InitRows, InitPlaces, InitCounts, InitDedupes
<1>2. TypeOK /\ PlaceInv /\ TimeInv /\ NewInv /\ CountInv /\ DedupeInv /\ [Next]_vars
        => (TypeOK /\ PlaceInv /\ TimeInv /\ NewInv /\ CountInv /\ DedupeInv)'
  BY NextKeepsTypes, NextKeepsPlaces, NextKeepsTimes, NextKeepsNew, NextKeepsCounts,
     NextKeepsDedupes
<1>3. DedupeInv => DedupeSparesCleans
  BY DEF DedupeInv, DedupeSparesCleans, Long
<1> QED
  BY <1>1, <1>2, <1>3, PTL DEF Spec
=============================================================================
